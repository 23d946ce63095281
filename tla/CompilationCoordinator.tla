----------------------- MODULE CompilationCoordinator -----------------------
(***************************************************************************)
(* The CompilationCoordinator Durable Object for one cache key             *)
(* (src/worker/compilation-coordinator.ts) and the protocol its clients    *)
(* follow, coordinateCompilationWithDO of src/worker/handlers/compile.ts:  *)
(* acquire; compile and report; or wait, by polling, for the report.       *)
(*                                                                         *)
(* The object holds its state in memory only.  A handler that awaits (the  *)
(* body of a report, the next poll) lets other handlers in.  What can go   *)
(* wrong: the platform evicts the object ("evict"), a call or its answer   *)
(* is lost ("lose"), a Worker is killed while it compiles ("die").         *)
(***************************************************************************)
EXTENDS Naturals, FiniteSets

CONSTANTS
    Requests,   \* compile requests for this cache key, on any Worker
    MaxPolls,   \* maxWaitMs / pollIntervalMs: polls before the wait times out
    Faults,     \* what goes wrong: some of "evict", "lose", "die"
    None        \* no result, no error, nobody

ASSUME MaxPollsAssumption == MaxPolls \in Nat \ {0}
ASSUME FaultsAssumption == Faults \subseteq {"evict", "lose", "die"}
ASSUME NoneAssumption == None \notin Requests

VARIABLES
    inFlight,   \* compilationState.inFlight
    result,     \* compilationState.result: whose report it is, or None
    error,      \* compilationState.error: whose report it is, or None
    pc,         \* where each request is in coordinateCompilationWithDO
    polls,      \* polls a waiting request has made
    answer,     \* the request whose report a finished request was given
    awaited,    \* history: who held the lock when a request was told to wait
    heard,      \* history: who was waiting when a request's result was stored
    happened    \* history: the kinds of fault so far

object == <<inFlight, result, error>>
vars == <<object, pc, polls, answer, awaited, heard, happened>>

\* "completing" and "failing" have passed the handler's inFlight check and
\* await the body of the report; "told" has been refused the lock and "wait"
\* is being polled for; "returned" and "threw" are the two ways out of
\* coordinateCompilationWithDO.
Steps == {"idle", "compile", "complete", "completing", "fail", "failing",
          "told", "wait", "returned", "threw", "dead"}

\* The requests that have acquired the lock and not yet given it back.
Holders == {r \in Requests :
               pc[r] \in {"compile", "complete", "completing", "fail", "failing"}}

\* The requests that have been told to wait and have not been answered yet.
Waiters == {r \in Requests : pc[r] \in {"told", "wait"}}

Outcome == result # None \/ error # None

TypeOK ==
    /\ inFlight \in BOOLEAN
    /\ result \in Requests \cup {None}
    /\ error \in Requests \cup {None}
    /\ pc \in [Requests -> Steps]
    /\ polls \in [Requests -> 0..MaxPolls]
    /\ answer \in [Requests -> Requests \cup {None}]
    /\ awaited \in [Requests -> Requests \cup {None}]
    /\ heard \in [Requests -> SUBSET Requests]
    /\ happened \subseteq Faults

Init ==
    /\ inFlight = FALSE /\ result = None /\ error = None
    /\ pc = [r \in Requests |-> "idle"]
    /\ polls = [r \in Requests |-> 0]
    /\ answer = [r \in Requests |-> None]
    /\ awaited = [r \in Requests |-> None]
    /\ heard = [r \in Requests |-> {}]
    /\ happened = {}

Goto(r, step) == pc' = [pc EXCEPT ![r] = step]

\* coordinateCompilationWithDO returns the result of another's compilation, or
\* of its own.
Return(r, of) == Goto(r, "returned") /\ answer' = [answer EXCEPT ![r] = of]

Fault(kind) == kind \in Faults /\ happened' = happened \cup {kind}

-----------------------------------------------------------------------------
\* mutants: no check of the flag; the last outcome is kept
Acquire_MutCheck(r) ==
    /\ pc[r] = "idle"
    /\ inFlight' = TRUE /\ result' = None /\ error' = None
    /\ Goto(r, "compile")
    /\ UNCHANGED <<polls, answer, awaited, heard, happened>>
Acquire_MutClear(r) ==
    /\ pc[r] = "idle"
    /\ ~inFlight
    /\ inFlight' = TRUE /\ UNCHANGED <<result, error>>
    /\ Goto(r, "compile")
    /\ UNCHANGED <<polls, answer, awaited, heard, happened>>
\* GET /acquire by an idle request: the lock, and the previous outcome is
\* forgotten.  The caller may die with, or never see, the answer.
Acquire(r) ==
    /\ pc[r] = "idle"
    /\ ~inFlight
    /\ inFlight' = TRUE /\ result' = None /\ error' = None
    /\ \/ Goto(r, "compile") /\ UNCHANGED happened
       \/ Goto(r, "threw") /\ Fault("lose")
    /\ UNCHANGED <<polls, answer, awaited, heard>>

\* 409: somebody else compiles.  The lock has no owner; the history names the
\* request that is compiling, if one is.
Conflict(r) ==
    /\ pc[r] = "idle"
    /\ inFlight
    /\ Goto(r, "told")
    /\ \E h \in IF Holders = {} THEN {None} ELSE Holders :
          awaited' = [awaited EXCEPT ![r] = h]
    /\ UNCHANGED <<object, polls, answer, heard, happened>>

\* compileFn() resolves or rejects.
Compiled(r) ==
    /\ pc[r] = "compile"
    /\ Goto(r, "complete") \/ Goto(r, "fail")
    /\ UNCHANGED <<object, polls, answer, awaited, heard, happened>>

\* POST /complete up to request.text(): answered 400 when nothing is in
\* flight, which the client does not look at.  A fetch that throws instead
\* is caught by the client, which goes on to /fail.
CompleteBegins(r) ==
    /\ pc[r] = "complete"
    /\ \/ inFlight /\ Goto(r, "completing") /\ UNCHANGED <<answer, happened>>
       \/ ~inFlight /\ Return(r, r) /\ UNCHANGED happened
       \/ Goto(r, "fail") /\ Fault("lose") /\ UNCHANGED answer
    /\ UNCHANGED <<object, polls, awaited, heard>>

CompleteEnds(r) ==
    /\ pc[r] = "completing"
    /\ inFlight' = FALSE /\ result' = r /\ error' = None
    /\ heard' = [heard EXCEPT ![r] = @ \cup Waiters]
    /\ \/ Return(r, r) /\ UNCHANGED happened
       \/ Goto(r, "fail") /\ Fault("lose") /\ UNCHANGED answer
    /\ UNCHANGED <<polls, awaited>>

\* POST /fail likewise; the client rethrows whatever it answers.
FailBegins(r) ==
    /\ pc[r] = "fail"
    /\ \/ inFlight /\ Goto(r, "failing") /\ UNCHANGED happened
       \/ ~inFlight /\ Goto(r, "threw") /\ UNCHANGED happened
       \/ Goto(r, "threw") /\ Fault("lose")
    /\ UNCHANGED <<object, polls, answer, awaited, heard>>

FailEnds_Mut(r) ==                              \* mutant: no error is stored
    /\ pc[r] = "failing"
    /\ inFlight' = FALSE /\ error' = None /\ result' = None
    /\ Goto(r, "threw")
    /\ UNCHANGED <<polls, answer, awaited, heard, happened>>
FailEnds(r) ==
    /\ pc[r] = "failing"
    /\ inFlight' = FALSE /\ error' = r /\ result' = None
    /\ Goto(r, "threw")
    /\ UNCHANGED <<polls, answer, awaited, heard, happened>>

\* One turn of handleWait's loop: a result, an error, nothing in flight, or
\* another 100 ms.
Poll(r) ==
    /\ pc[r] \in {"told", "wait"} /\ polls[r] < MaxPolls
    /\ \/ /\ result # None
          /\ Return(r, result)
          /\ UNCHANGED polls
       \/ /\ result = None /\ (error # None \/ ~inFlight)
          /\ Goto(r, "threw")
          /\ UNCHANGED <<answer, polls>>
       \/ /\ ~Outcome /\ inFlight
          /\ Goto(r, "wait")
          /\ polls' = [polls EXCEPT ![r] = @ + 1]
          /\ UNCHANGED answer
    /\ UNCHANGED <<object, awaited, heard, happened>>

\* 504 after maxWaitMs.
WaitTimesOut(r) ==
    /\ pc[r] = "wait" /\ polls[r] = MaxPolls
    /\ Goto(r, "threw")
    /\ UNCHANGED <<object, polls, answer, awaited, heard, happened>>

\* The object loses its memory and every call it is handling fails; the
\* client of a failed /complete goes on to /fail.  Nothing keeps the object
\* alive while the holder compiles.
Evict ==
    /\ Fault("evict")
    /\ inFlight' = FALSE /\ result' = None /\ error' = None
    /\ pc' = [r \in Requests |->
                 CASE pc[r] = "completing" -> "fail"
                   [] pc[r] \in {"failing", "wait"} -> "threw"
                   [] OTHER -> pc[r]]
    /\ UNCHANGED <<polls, answer, awaited, heard>>

\* The platform kills a Worker that compiles for too long.
Die(r) ==
    /\ Fault("die")
    /\ pc[r] = "compile"
    /\ Goto(r, "dead")
    /\ UNCHANGED <<object, polls, answer, awaited, heard>>

Step(r) ==
    \/ Acquire(r) \/ Conflict(r) \/ Compiled(r)
    \/ CompleteBegins(r) \/ CompleteEnds(r)
    \/ FailBegins(r) \/ FailEnds(r)
    \/ Poll(r) \/ WaitTimesOut(r)

Next ==
    \/ \E r \in Requests : Step(r) \/ Die(r)
    \/ Evict

Spec == Init /\ [][Next]_vars

-----------------------------------------------------------------------------
\* Until something goes wrong, one request at a time is between acquiring the
\* lock and reporting, and the flag is up exactly then: although the lock has
\* no owner and a report is checked in one turn and stored in a later one.
SingleHolder ==
    happened = {} =>
        /\ \A r, s \in Holders : r = s
        /\ inFlight <=> Holders # {}

\* The state "finished but no result" that handleWait tests for is met by a
\* waiter after an eviction only, whatever is lost and whoever is killed.
NoOrphanedWaiter ==
    "evict" \notin happened /\ Waiters # {} => inFlight \/ Outcome

\* A waiter is only ever given a result that was stored while it was already
\* waiting, never one left over from before it asked: whatever is evicted, lost
\* or killed, and although after an eviction a late /complete may end, and
\* answer for, a compilation that somebody else has started since.
ReportIsFresh ==
    \A r \in Requests :
        pc[r] = "returned" /\ answer[r] # r => r \in heard[answer[r]]

\* "When compilation finishes the holder calls POST /complete or POST /fail;
\* all waiters get the result": a waiter does not time out on a compilation
\* that has reported.  It does when the next request to acquire the lock clears
\* the report before the waiter's poll.
WaitersGetResult ==
    [][\A r \in Requests :
          WaitTimesOut(r) => \/ awaited[r] \in Holders
                             \/ awaited[r] \in {result, error}]_vars
=============================================================================
