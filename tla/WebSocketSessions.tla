------------------------- MODULE WebSocketSessions -------------------------
(***************************************************************************)
(* The compilation sessions of one WebSocket connection                    *)
(* (src/worker/websocket.ts): compile and cancel requests, the completion  *)
(* of the compilations, the delayed removal of sessions, the heartbeat and *)
(* the close.                                                              *)
(*                                                                         *)
(* A session is known to the client by an id it chooses, and to the server *)
(* as an object that the asynchronous compile handler keeps a reference    *)
(* to.  The two come apart: entries are removed by id, on timers, and a    *)
(* cancelled compilation runs on, as nothing listens to its AbortSignal.   *)
(* Requests that are refused are answered and change nothing; they are the *)
(* cases in which the guards of Compile and Cancel are false.              *)
(***************************************************************************)
EXTENDS Naturals, FiniteSets

CONSTANTS
    Ids,            \* session ids a client may choose
    MaxJobs,        \* bound: compile requests accepted on the connection
    MaxConcurrent,  \* WS_CONFIG.MAX_CONCURRENT_COMPILATIONS
    Timeout,        \* CONNECTION_TIMEOUT in heartbeat intervals
    None

ASSUME BoundsAssumption ==
    /\ MaxJobs \in Nat /\ Timeout \in Nat
    /\ MaxConcurrent \in Nat \ {0}
ASSUME NoneAssumption ==
    /\ None \notin Ids /\ None \notin 1..MaxJobs
    /\ None \notin {"running", "completed", "cancelled", "failed"}

VARIABLES
    conn,       \* the connection; "closing" once the server has called close()
    age,        \* heartbeats since the last ping that found the connection alive
    jobs,       \* how many compile requests were accepted
    sessions,   \* state.sessions: the job an id stands for, or None
    idOf,       \* the session id of each job
    status,     \* session.status
    active,     \* whether compileWithMetrics() has not settled yet
    timers,     \* the removals scheduled: after "cancel", after the "end"
    told        \* history: the verdicts sent to the client about the job

job == <<idOf, status, active, timers, told>>
vars == <<conn, age, jobs, sessions, job>>

Jobs == 1..MaxJobs
Verdicts == {"complete", "cancelled", "error"}

TypeOK ==
    /\ conn \in {"open", "closing", "closed"}
    /\ age \in 0..Timeout
    /\ jobs \in 0..MaxJobs
    /\ sessions \in [Ids -> Jobs \cup {None}]
    /\ idOf \in [Jobs -> Ids \cup {None}]
    /\ status \in [Jobs -> {None, "running", "completed", "cancelled", "failed"}]
    /\ active \in [Jobs -> BOOLEAN]
    /\ timers \in [Jobs -> SUBSET {"cancel", "end"}]
    /\ told \in [Jobs -> SUBSET Verdicts]

Init ==
    /\ conn = "open" /\ age = 0 /\ jobs = 0
    /\ sessions = [id \in Ids |-> None]
    /\ idOf = [j \in Jobs |-> None]
    /\ status = [j \in Jobs |-> None]
    /\ active = [j \in Jobs |-> FALSE]
    /\ timers = [j \in Jobs |-> {}]
    /\ told = [j \in Jobs |-> {}]

\* sendMessage(): a connection that is closed swallows it.
Tell(j, verdict) ==
    told' = IF conn = "open" THEN [told EXCEPT ![j] = @ \cup {verdict}] ELSE told

\* setTimeout(() => state.sessions.delete(sessionId))
Schedule(j, timer) == timers' = [timers EXCEPT ![j] = @ \cup {timer}]

-----------------------------------------------------------------------------
Listed == {id \in Ids : sessions[id] # None}
Running == {id \in Listed : status[sessions[id]] = "running"}

\* A compile request with an unused id, below the limit.
Admissible(id) == id \notin Listed /\ Cardinality(Running) < MaxConcurrent

Compile(id) ==
    /\ conn = "open" /\ jobs < MaxJobs
    /\ Admissible(id)
    /\ LET j == jobs + 1
       IN /\ jobs' = j
          /\ sessions' = [sessions EXCEPT ![id] = j]
          /\ idOf' = [idOf EXCEPT ![j] = id]
          /\ status' = [status EXCEPT ![j] = "running"]
          /\ active' = [active EXCEPT ![j] = TRUE]
    /\ UNCHANGED <<conn, age, timers, told>>

\* compileWithMetrics() returns: unless the session was cancelled meanwhile,
\* it is complete.
Succeed_MutCheck(j) ==                          \* mutant: no look at the status
    /\ active[j]
    /\ active' = [active EXCEPT ![j] = FALSE]
    /\ status' = [status EXCEPT ![j] = "completed"]
    /\ Tell(j, "complete")
    /\ Schedule(j, "end")
    /\ UNCHANGED <<conn, age, jobs, sessions, idOf>>
Succeed(j) ==
    /\ active[j]
    /\ active' = [active EXCEPT ![j] = FALSE]
    /\ IF status[j] = "cancelled"
       THEN UNCHANGED <<status, told, timers>>
       ELSE /\ status' = [status EXCEPT ![j] = "completed"]
            /\ Tell(j, "complete")
            /\ Schedule(j, "end")
    /\ UNCHANGED <<conn, age, jobs, sessions, idOf>>

\* It throws: the session has failed, even if it was cancelled.
Fail_Mut(j) ==                                  \* mutant: thrown, not caught
    /\ active[j]
    /\ active' = [active EXCEPT ![j] = FALSE]
    /\ UNCHANGED <<conn, age, jobs, sessions, idOf, status, told, timers>>
Fail(j) ==
    /\ active[j]
    /\ active' = [active EXCEPT ![j] = FALSE]
    /\ status' = [status EXCEPT ![j] = "failed"]
    /\ Tell(j, "error")
    /\ Schedule(j, "end")
    /\ UNCHANGED <<conn, age, jobs, sessions, idOf>>

\* A cancel request for a running session.
Cancel_Mut(id) ==                               \* mutant: the removal is forgotten
    /\ conn = "open"
    /\ id \in Running
    /\ status' = [status EXCEPT ![sessions[id]] = "cancelled"]
    /\ Tell(sessions[id], "cancelled")
    /\ UNCHANGED <<conn, age, jobs, sessions, idOf, active, timers>>
Cancel(id) ==
    /\ conn = "open"
    /\ id \in Running
    /\ status' = [status EXCEPT ![sessions[id]] = "cancelled"]
    /\ Tell(sessions[id], "cancelled")
    /\ Schedule(sessions[id], "cancel")
    /\ UNCHANGED <<conn, age, jobs, sessions, idOf, active>>

\* A removal comes due.  It names the id, whichever job that stands for by now.
\* The one of a cancel (5 s) is due before the one of a later end (60 s).
Remove(j, timer) ==
    /\ timer \in timers[j]
    /\ timer = "end" => "cancel" \notin timers[j]
    /\ timers' = [timers EXCEPT ![j] = @ \ {timer}]
    /\ sessions' = [sessions EXCEPT ![idOf[j]] = None]
    /\ UNCHANGED <<conn, age, jobs, idOf, status, active, told>>

Ping ==
    /\ conn = "open"
    /\ age' = 0
    /\ UNCHANGED <<conn, jobs, sessions, job>>

\* The heartbeat timer: only a ping of the client counts as a sign of life.  The
\* first heartbeats after a ping, Timeout of them, come within CONNECTION_TIMEOUT
\* of it; the next one comes later and closes the connection.
Heartbeat_Mut ==                                \* mutant: one interval late
    /\ conn = "open"
    /\ IF age > Timeout
       THEN conn' = "closing" /\ UNCHANGED age
       ELSE age' = age + 1 /\ UNCHANGED conn
    /\ UNCHANGED <<jobs, sessions, job>>
Heartbeat ==
    /\ conn = "open"
    /\ IF age >= Timeout
       THEN conn' = "closing" /\ UNCHANGED age
       ELSE age' = age + 1 /\ UNCHANGED conn
    /\ UNCHANGED <<jobs, sessions, job>>

\* The close event: running compilations are aborted, which stops nothing.
Close ==
    /\ conn # "closed"
    /\ conn' = "closed"
    /\ sessions' = [id \in Ids |-> None]
    /\ UNCHANGED <<age, jobs, job>>

Server(j) == Succeed(j) \/ Fail(j) \/ \E timer \in timers[j] : Remove(j, timer)

Next ==
    \/ \E id \in Ids : Compile(id) \/ Cancel(id)
    \/ \E j \in Jobs : Server(j)
    \/ Ping \/ Heartbeat \/ Close

Spec == Init /\ [][Next]_vars

\* Compilations settle (their fetches time out) and timers fire; clients need
\* not do anything.
FairSpec ==
    Spec /\ \A j \in Jobs : WF_vars(Succeed(j) \/ Fail(j))
                            /\ WF_vars(\E timer \in timers[j] : Remove(j, timer))

-----------------------------------------------------------------------------
\* A client hears of a compilation's completion, or of its failure, not both,
\* and never that one it cancelled is complete: it may drop the session when
\* the cancellation is confirmed.
OneVerdict ==
    \A j \in Jobs : "complete" \in told[j] => told[j] = {"complete"}

\* An id is spoilt when a cancelled compilation that went by it fails later:
\* it is then removed twice.
Spoilt == {idOf[j] : j \in {k \in Jobs : {"cancelled", "error"} \subseteq told[k]}}

\* A running session stays in the map, so it can be cancelled, counts against
\* the limit and keeps its id: the delayed removal of an earlier session with
\* its id never hits it, unless the id is spoilt.
RunningIsListed ==
    \A j \in Jobs :
        conn = "open" /\ status[j] = "running" /\ idOf[j] \notin Spoilt
            => sessions[idOf[j]] = j

\* Every accepted request gets a verdict while the connection lives.
EveryJobEnds ==
    \A j \in Jobs : j <= jobs ~> (told[j] # {} \/ conn # "open")

\* No session stays in the map for good, in whatever way it ended.
EntryLeaves ==
    \A j \in Jobs :
        (\E id \in Ids : sessions[id] = j) ~> (\A id \in Ids : sessions[id] # j)
=============================================================================
