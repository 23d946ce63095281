--------------------------- MODULE CircuitBreaker ---------------------------
(***************************************************************************)
(* The circuit breaker of src/src/utils/CircuitBreaker.ts, shared by the   *)
(* asynchronous calls of one FilterDownloader to one URL.                  *)
(*                                                                         *)
(* JavaScript runs each synchronous stretch of execute() to completion, so *)
(* a call is two steps: the admission check up to `await fn()`, and the    *)
(* bookkeeping once fn has settled.  Any number of calls may lie between   *)
(* the two, and it is their interleaving that the module explores.         *)
(***************************************************************************)
EXTENDS Naturals

CONSTANTS
    Callers,        \* the concurrent callers of execute()
    Threshold,      \* options.threshold
    Timeout,        \* options.timeout, in clock ticks
    MaxFailures,    \* bound: failureCount saturates here
    NoFailure       \* lastFailureTime = undefined

ASSUME ThresholdAssumption   == Threshold \in Nat \ {0}
ASSUME TimeoutAssumption     == Timeout \in Nat
ASSUME MaxFailuresAssumption == MaxFailures \in Nat /\ MaxFailures >= Threshold
ASSUME NoFailureAssumption   == NoFailure \notin Nat

VARIABLES
    state,          \* CLOSED, OPEN or HALF_OPEN
    failureCount,   \* saturating: the code compares it with threshold only
    failureAge,     \* Date.now() - lastFailureTime, saturated at Timeout
    calls,          \* what each caller's latest execute() has come to
    healthy         \* whether the guarded resource answers (environment)

breaker == <<state, failureCount, failureAge>>
vars == <<state, failureCount, failureAge, calls, healthy>>

States == {"CLOSED", "OPEN", "HALF_OPEN"}
Ages == 0..Timeout \cup {NoFailure}

\* "blocked" is a CircuitBreakerOpenError; "failed" is fn's own error.
CallStates == {"idle", "inflight", "blocked", "succeeded", "failed"}

TypeOK ==
    /\ state \in States
    /\ failureCount \in 0..MaxFailures
    /\ failureAge \in Ages
    /\ calls \in [Callers -> CallStates]
    /\ healthy \in BOOLEAN

Init ==
    /\ state = "CLOSED"
    /\ failureCount = 0
    /\ failureAge = NoFailure
    /\ calls = [c \in Callers |-> "idle"]
    /\ healthy \in BOOLEAN

-----------------------------------------------------------------------------
\* The code's `!this.lastFailureTime` branch is the NoFailure disjunct.
ShouldAttemptRecovery_Mut == TRUE          \* mutant: the timeout is ignored
ShouldAttemptRecovery == failureAge \in {NoFailure, Timeout}

Settle(c, outcome) == calls' = [calls EXCEPT ![c] = outcome]

\* execute(), up to the first await: admitted, or rejected while OPEN.
Admit(c) ==
    /\ calls[c] # "inflight"
    /\ state = "OPEN" => ShouldAttemptRecovery
    /\ state' = IF state = "OPEN" THEN "HALF_OPEN" ELSE state
    /\ Settle(c, "inflight")
    /\ UNCHANGED <<failureCount, failureAge, healthy>>

Reject(c) ==
    /\ calls[c] # "inflight"
    /\ state = "OPEN"
    /\ ~ShouldAttemptRecovery
    /\ Settle(c, "blocked")
    /\ UNCHANGED <<breaker, healthy>>

CloseCircuit_MutCount ==                    \* mutant: failureCount kept
    state' = "CLOSED" /\ failureAge' = NoFailure /\ UNCHANGED failureCount
CloseCircuit_MutState ==                    \* mutant: state kept
    failureCount' = 0 /\ failureAge' = NoFailure /\ UNCHANGED state
CloseCircuit ==
    /\ state' = "CLOSED"
    /\ failureCount' = 0
    /\ failureAge' = NoFailure

\* onSuccess(): closes the circuit whatever the state it finds.
OnSuccess(c) ==
    /\ calls[c] = "inflight"
    /\ healthy
    /\ CloseCircuit
    /\ Settle(c, "succeeded")
    /\ UNCHANGED healthy

CountFailure ==
    failureCount' = IF failureCount < MaxFailures THEN failureCount + 1
                                                  ELSE failureCount

\* onFailure(): the threshold is compared after the increment.
OnFailure(c) ==
    /\ calls[c] = "inflight"
    /\ ~healthy
    /\ CountFailure
    /\ failureAge' = 0
    /\ state' = IF state = "HALF_OPEN" \/ failureCount' >= Threshold
                THEN "OPEN" ELSE state
    /\ Settle(c, "failed")
    /\ UNCHANGED healthy

\* reset(): calls in flight are not told.
Reset ==
    /\ CloseCircuit
    /\ UNCHANGED <<calls, healthy>>

\* The wall clock; only the age of the last failure matters.
Tick ==
    /\ failureAge \in 0..Timeout
    /\ failureAge < Timeout
    /\ failureAge' = failureAge + 1
    /\ UNCHANGED <<state, failureCount, calls, healthy>>

\* The resource goes down or comes back.
ResourceFlips ==
    /\ healthy' = ~healthy
    /\ UNCHANGED <<breaker, calls>>

Call(c) == Admit(c) \/ Reject(c)
Complete(c) == OnSuccess(c) \/ OnFailure(c)

Next ==
    \/ \E c \in Callers : Call(c) \/ Complete(c)
    \/ Reset
    \/ Tick
    \/ ResourceFlips

Spec == Init /\ [][Next]_vars

\* Every fn settles (the downloader aborts a fetch at its own timeout), time
\* passes, and callers keep coming back (a caller's loop is the environment).
Fairness ==
    /\ WF_vars(Tick)
    /\ \A c \in Callers : WF_vars(Call(c)) /\ WF_vars(Complete(c))

FairSpec == Spec /\ Fairness

-----------------------------------------------------------------------------
\* The counter, the clock and the state are written by two handlers on three
\* branches; they must agree: a CLOSED circuit is below the threshold, any
\* other is at or above it, and the clock is set exactly when a failure counts
\* (so an OPEN circuit never takes the `!this.lastFailureTime` way out).
CountMatchesState ==
    /\ state = "CLOSED" <=> failureCount < Threshold
    /\ failureCount = 0 <=> failureAge = NoFailure

\* HALF_OPEN has no timer of its own: only a call that settles can leave it.
\* It is therefore never entered or kept without a call in flight.
ProbeOutstanding ==
    state = "HALF_OPEN" => \E c \in Callers : calls[c] = "inflight"

\* A recovery attempt is only ever under way when the full timeout has passed
\* since the LAST failure, including one of a straggler admitted before the
\* circuit opened.
RecoveryWaited == state = "HALF_OPEN" => failureAge = Timeout

\* Once the resource stays up, the circuit closes for good, whatever calls
\* are still in flight and however often it flapped before.
RecoversWhenHealthy == <>[]healthy => <>[](state = "CLOSED")
=============================================================================
