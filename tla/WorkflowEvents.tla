--------------------------- MODULE WorkflowEvents ---------------------------
(***************************************************************************)
(* The progress events of a workflow run, src/worker/workflows/            *)
(* WorkflowEvents.ts: emit() buffers an event in the isolate, flush() reads *)
(* the run's log from KV, appends the buffer and writes the log back.  The *)
(* events between two milestones of a run are one event here.              *)
(*                                                                         *)
(* Only its run writes a log, so a flush is one action; the KV call that    *)
(* fails in it may have taken effect.                                      *)
(***************************************************************************)
EXTENDS Naturals, Sequences

CONSTANTS
    Runs,           \* workflow runs, each with its own log
    MaxEvents,      \* MAX_EVENTS
    MaxFaults       \* bound: KV errors, restarts of an isolate, overlapping runs

ASSUME EventsAssumption == MaxEvents \in Nat \ {0} /\ MaxFaults \in Nat

VARIABLES
    pending,    \* pendingEvents of each run's emitter
    log,        \* workflow:events:<run> in KV
    faults,     \* faults so far
    emitted,    \* history: the events emitted in the run's present isolate
    repeating   \* history: runs restarted, or with a log write that failed after
                \* its effect: their events come again

eventVars == <<pending, log, faults, emitted, repeating>>

EventsInit ==
    /\ pending = [r \in Runs |-> <<>>]
    /\ log = [r \in Runs |-> <<>>]
    /\ faults = 0
    /\ emitted = [r \in Runs |-> {}]
    /\ repeating = {}

Fault == faults < MaxFaults /\ faults' = faults + 1
NoFault == UNCHANGED faults

\* Only the newest MAX_EVENTS events are kept.
Latest(seq) == SubSeq(seq, (IF Len(seq) > MaxEvents THEN Len(seq) - MaxEvents ELSE 0) + 1, Len(seq))

\* flush() of the buffer: written and emptied; or an error before the write,
\* or after it, swallowed either way, with the buffer kept.
FlushOf_MutEarly(r, buffer) ==              \* mutant: emptied before the put
    /\ pending' = [pending EXCEPT ![r] = <<>>]
    /\ \/ log' = [log EXCEPT ![r] = Latest(@ \o buffer)] /\ NoFault
       \/ UNCHANGED log /\ Fault
    /\ UNCHANGED repeating
FlushOf_MutKeep(r, buffer) ==               \* mutant: buffer never emptied
    /\ pending' = [pending EXCEPT ![r] = buffer]
    /\ log' = [log EXCEPT ![r] = Latest(@ \o buffer)]
    /\ UNCHANGED <<faults, repeating>>
FlushOf(r, buffer) ==
    \/ /\ pending' = [pending EXCEPT ![r] = <<>>]
       /\ log' = [log EXCEPT ![r] = Latest(@ \o buffer)]
       /\ UNCHANGED repeating /\ NoFault
    \/ /\ buffer # <<>>
       /\ pending' = [pending EXCEPT ![r] = buffer]
       /\ UNCHANGED <<log, repeating>> /\ Fault
    \/ /\ buffer # <<>>
       /\ pending' = [pending EXCEPT ![r] = buffer]
       /\ log' = [log EXCEPT ![r] = Latest(@ \o buffer)]
       /\ repeating' = repeating \cup {r} /\ Fault

Emit(r, e) ==
    /\ FlushOf(r, Append(pending[r], e))
    /\ emitted' = [emitted EXCEPT ![r] = @ \cup {e}]
Flush(r) == FlushOf(r, pending[r]) /\ UNCHANGED emitted

\* The isolate is gone, and a replay starts with a new emitter.
Forgotten(r) ==
    /\ pending' = [pending EXCEPT ![r] = <<>>]
    /\ emitted' = [emitted EXCEPT ![r] = {}]
    /\ repeating' = repeating \cup {r}
    /\ Fault
    /\ UNCHANGED log

-----------------------------------------------------------------------------
\* No flush that fails loses an event: what the isolate has emitted is in the
\* log or still in the buffer, except what the limit of the log has cut off.
EventsKept ==
    \A r \in Runs : Len(log[r]) < MaxEvents =>
        \A e \in emitted[r] : \E i \in DOMAIN (log[r] \o pending[r]) : (log[r] \o pending[r])[i] = e

\* No event is written twice, unless its write failed after taking effect or
\* the run was started again.
EventsOnce ==
    \A r \in Runs \ repeating :
        \A i, j \in DOMAIN log[r] : log[r][i] = log[r][j] => i = j
=============================================================================
