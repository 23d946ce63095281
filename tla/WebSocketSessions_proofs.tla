---------------------- MODULE WebSocketSessions_proofs ----------------------
(***************************************************************************)
(* What holds of the sessions of a WebSocket connection for any ids, any   *)
(* number of compilations and any limits: a client never hears two things  *)
(* of one compilation that exclude each other, and a running session is    *)
(* not lost from the map.                                                  *)
(***************************************************************************)
EXTENDS WebSocketSessions, TLAPS

\* What a job's status says of the compilation behind it, of what the client
\* has heard and of the removals that are still to come.
JobOK(j) ==
    /\ status[j] # None => idOf[j] \in Ids
    /\ status[j] = None => ~active[j] /\ told[j] = {} /\ timers[j] = {}
    /\ status[j] = "running" => active[j] /\ told[j] = {} /\ timers[j] = {}
    /\ active[j] => status[j] \in {"running", "cancelled"}
    /\ status[j] = "cancelled" =>
          told[j] = {"cancelled"} /\ timers[j] \subseteq {"cancel"}
    /\ status[j] = "completed" =>
          told[j] \subseteq {"complete"} /\ timers[j] \subseteq {"end"}
    /\ status[j] = "failed" =>
          /\ "complete" \notin told[j]
          /\ conn = "open" => "error" \in told[j]
          /\ "cancelled" \notin told[j] => timers[j] \subseteq {"end"}

\* Jobs are numbered as they are accepted.
Numbered == \A j \in Jobs : status[j] = None <=> j > jobs

\* A job keeps its id in the map from its start until its removal is over.
Holds(j) == status[j] = "running" \/ timers[j] # {}
Listing ==
    \A j \in Jobs :
        conn = "open" /\ Holds(j) /\ idOf[j] \notin Spoilt => sessions[idOf[j]] = j

IInv == TypeOK /\ Numbered /\ (\A j \in Jobs : JobOK(j)) /\ Listing

-----------------------------------------------------------------------------
LEMMA ConstantsOK ==
    /\ MaxJobs \in Nat /\ Timeout \in Nat
    /\ None \notin Ids /\ None \notin Jobs
    /\ None \notin {"running", "completed", "cancelled", "failed"}
    /\ Jobs \subseteq Nat \ {0}
BY BoundsAssumption, NoneAssumption DEF Jobs

LEMMA InitIInv == Init => IInv
  <1> SUFFICES ASSUME Init PROVE IInv
    OBVIOUS
  <1>1. TypeOK
    BY ConstantsOK DEF Init, TypeOK
  <1>2. Numbered
    BY BoundsAssumption DEF Init, Numbered, Jobs
  <1>3. ASSUME NEW j \in Jobs PROVE JobOK(j)
    <2>1. status[j] = None /\ ~active[j] /\ told[j] = {} /\ timers[j] = {}
      BY DEF Init
    <2>2. status[j] \notin {"running", "completed", "cancelled", "failed"}
      BY <2>1, ConstantsOK
    <2> QED BY <2>1, <2>2 DEF JobOK
  <1>4. Listing
    <2>1. \A j \in Jobs : status[j] # "running" /\ timers[j] = {}
      BY ConstantsOK DEF Init
    <2> QED BY <2>1 DEF Listing, Holds
  <1> QED BY <1>1, <1>2, <1>3, <1>4 DEF IInv

\* Nothing unspoils an id: verdicts are not taken back, and a job that has one
\* keeps its id.
LEMMA SpoiltGrows ==
    ASSUME \A j \in Jobs : told[j] \subseteq told'[j],
           \A j \in Jobs : told[j] # {} => idOf'[j] = idOf[j]
    PROVE  Spoilt \subseteq Spoilt'
BY DEF Spoilt

\* A step that changes one job, and leaves the map and the numbers alone,
\* keeps the invariant if that job is well after it and, unless its id is
\* spoilt, does not hold it anew.
LEMMA OneJob ==
    ASSUME IInv, TypeOK', NEW j \in Jobs,
           UNCHANGED <<jobs, sessions, idOf>>,
           \A k \in Jobs : told[k] \subseteq told'[k],
           \A k \in Jobs \ {j} :
               UNCHANGED <<status[k], active[k], timers[k], told[k]>>,
           status[j] # None, status'[j] # None,
           conn' = conn, JobOK(j)',
           conn = "open" /\ Holds(j)' => Holds(j) \/ idOf[j] \in Spoilt'
    PROVE  IInv'
  <1>1. Numbered'
    BY DEF IInv, Numbered
  <1>2. \A k \in Jobs : JobOK(k)'
    BY DEF IInv, JobOK
  <1>3. Listing'
    <2>1. Spoilt \subseteq Spoilt'
      BY SpoiltGrows
    <2> SUFFICES ASSUME NEW k \in Jobs,
                        conn' = "open", Holds(k)', idOf'[k] \notin Spoilt'
                 PROVE  sessions'[idOf'[k]] = k
      BY DEF Listing
    <2>2. Holds(k)
      BY DEF Holds
    <2> QED BY <2>1, <2>2 DEF IInv, Listing
  <1> QED BY <1>1, <1>2, <1>3 DEF IInv

LEMMA CompileIInv == ASSUME IInv, TypeOK', NEW id \in Ids, Compile(id) PROVE IInv'
  <1> DEFINE j == jobs + 1
  <1>1. /\ j \in Jobs /\ jobs \in Nat
        /\ status[j] = None /\ told[j] = {} /\ timers[j] = {} /\ sessions[id] = None
    BY ConstantsOK DEF IInv, TypeOK, Compile, Jobs, Numbered, JobOK, Admissible, Listed
  <1>2. /\ status'[j] = "running" /\ active'[j] /\ idOf'[j] = id /\ sessions'[id] = j
        /\ \A k \in Jobs \ {j} : UNCHANGED <<status[k], active[k], idOf[k]>>
        /\ \A k \in Ids \ {id} : UNCHANGED sessions[k]
        /\ jobs' = j
        /\ UNCHANGED <<conn, timers, told>>
    BY <1>1 DEF IInv, TypeOK, Compile
  <1>3. Numbered'
    <2>1. \A k \in Jobs \ {j} : k > jobs <=> k > j
      BY <1>1, ConstantsOK
    <2> QED BY <1>1, <1>2, <2>1, ConstantsOK DEF IInv, Numbered
  <1>4. ASSUME NEW k \in Jobs PROVE JobOK(k)'
    <2>1. CASE k = j
      BY <1>1, <1>2, <2>1, ConstantsOK DEF JobOK
    <2>2. CASE k # j
      BY <1>2, <2>2 DEF IInv, JobOK
    <2> QED BY <2>1, <2>2
  <1>5. Listing'
    <2>1. Spoilt \subseteq Spoilt'
      BY <1>1, <1>2, SpoiltGrows
    <2> SUFFICES ASSUME NEW k \in Jobs,
                        conn' = "open", Holds(k)', idOf'[k] \notin Spoilt'
                 PROVE  sessions'[idOf'[k]] = k
      BY DEF Listing
    <2>2. CASE k = j
      BY <1>2, <2>2
    <2>3. CASE k # j
      <3>1. Holds(k) /\ sessions[idOf[k]] = k
        BY <1>2, <2>1, <2>3 DEF IInv, Listing, Holds
      <3>2. idOf[k] \in Ids
        BY <3>1, ConstantsOK DEF IInv, JobOK, Holds
      <3> QED BY <1>1, <1>2, <2>3, <3>1, <3>2, ConstantsOK
    <2> QED BY <2>2, <2>3
  <1> QED BY <1>3, <1>4, <1>5 DEF IInv

LEMMA SucceedIInv == ASSUME IInv, TypeOK', NEW j \in Jobs, Succeed(j) PROVE IInv'
  <1>1. /\ UNCHANGED <<conn, jobs, sessions, idOf>>
        /\ \A k \in Jobs \ {j} :
               UNCHANGED <<status[k], active[k], timers[k], told[k]>>
        /\ active[j] /\ ~active'[j]
        /\ status[j] \in {"running", "cancelled"}
    BY DEF IInv, TypeOK, JobOK, Succeed, Tell, Schedule
  <1>2. \A k \in Jobs : told[k] \subseteq told'[k]
    BY DEF IInv, TypeOK, Succeed, Tell
  <1>3. status[j] # None /\ status'[j] # None
    BY <1>1, ConstantsOK DEF Succeed, IInv, TypeOK
  <1>4. CASE status[j] = "cancelled"
    <2>1. UNCHANGED <<status, told, timers>>
      BY <1>4 DEF Succeed
    <2>2. JobOK(j)'
      BY <1>1, <1>3, <1>4, <2>1 DEF IInv, JobOK
    <2> QED BY <1>1, <1>2, <1>3, <2>1, <2>2, OneJob DEF Holds
  <1>5. CASE status[j] = "running"
    <2>1. /\ status'[j] = "completed" /\ timers'[j] = {"end"}
          /\ told'[j] \subseteq {"complete"}
      BY <1>5 DEF IInv, TypeOK, JobOK, Succeed, Tell, Schedule
    <2>2. JobOK(j)'
      BY <1>1, <1>3, <2>1 DEF IInv, JobOK
    <2> QED BY <1>1, <1>2, <1>3, <1>5, <2>2, OneJob DEF Holds
  <1> QED BY <1>1, <1>4, <1>5

\* A cancelled compilation that fails is the one case in which a removal is
\* scheduled for an id that may already be another session's: it spoils it.
LEMMA FailIInv == ASSUME IInv, TypeOK', NEW j \in Jobs, Fail(j) PROVE IInv'
  <1>1. /\ UNCHANGED <<conn, jobs, sessions, idOf>>
        /\ \A k \in Jobs \ {j} :
               UNCHANGED <<status[k], active[k], timers[k], told[k]>>
        /\ ~active'[j] /\ status[j] \in {"running", "cancelled"}
        /\ status'[j] = "failed" /\ timers'[j] = timers[j] \cup {"end"}
        /\ told'[j] = IF conn = "open" THEN told[j] \cup {"error"} ELSE told[j]
    BY DEF IInv, TypeOK, JobOK, Fail, Tell, Schedule
  <1>2. \A k \in Jobs : told[k] \subseteq told'[k]
    BY DEF IInv, TypeOK, Fail, Tell
  <1>3. status[j] # None /\ status'[j] # None
    BY <1>1, ConstantsOK
  <1>4. JobOK(j)'
    BY <1>1, <1>3 DEF IInv, JobOK
  <1>5. CASE status[j] = "cancelled"
    <2>1. conn = "open" => idOf[j] \in Spoilt'
      BY <1>1, <1>5 DEF IInv, JobOK, Spoilt
    <2> QED BY <1>1, <1>2, <1>3, <1>4, <2>1, OneJob
  <1>6. CASE status[j] = "running"
    BY <1>1, <1>2, <1>3, <1>4, <1>6, OneJob DEF Holds
  <1> QED BY <1>1, <1>5, <1>6

LEMMA CancelIInv == ASSUME IInv, TypeOK', NEW id \in Ids, Cancel(id) PROVE IInv'
  <1> DEFINE j == sessions[id]
  <1>1. j \in Jobs /\ conn = "open" /\ status[j] = "running"
    BY DEF IInv, TypeOK, Cancel, Running, Listed
  <1>2. /\ UNCHANGED <<conn, jobs, sessions, idOf>>
        /\ \A k \in Jobs \ {j} :
               UNCHANGED <<status[k], active[k], timers[k], told[k]>>
        /\ status'[j] = "cancelled" /\ active'[j] /\ timers'[j] = {"cancel"}
        /\ told'[j] = {"cancelled"}
    BY <1>1 DEF IInv, TypeOK, JobOK, Cancel, Tell, Schedule
  <1>3. \A k \in Jobs : told[k] \subseteq told'[k]
    BY <1>1 DEF IInv, TypeOK, Cancel, Tell
  <1>4. status[j] # None /\ status'[j] # None
    BY <1>1, <1>2, ConstantsOK
  <1>5. JobOK(j)'
    BY <1>1, <1>2, <1>4 DEF IInv, JobOK
  <1> QED BY <1>1, <1>2, <1>3, <1>4, <1>5, OneJob DEF Holds

\* The removal hits the id of the job whose timer it is, which that job still
\* holds: two jobs never hold one id.
LEMMA RemoveIInv ==
    ASSUME IInv, TypeOK', NEW j \in Jobs, NEW timer \in timers[j], Remove(j, timer)
    PROVE  IInv'
  <1>1. /\ UNCHANGED <<conn, jobs, idOf, status, active, told>>
        /\ timers'[j] = timers[j] \ {timer}
        /\ \A k \in Jobs \ {j} : UNCHANGED timers[k]
    BY DEF IInv, TypeOK, Remove
  <1>2. status[j] \notin {None, "running"} /\ idOf[j] \in Ids
    BY DEF IInv, JobOK
  <1>3. \A id \in Ids \ {idOf[j]} : UNCHANGED sessions[id]
    BY DEF IInv, TypeOK, Remove
  <1>4. Numbered'
    BY <1>1 DEF IInv, Numbered
  <1>5. \A k \in Jobs : JobOK(k)'
    BY <1>1 DEF IInv, JobOK
  <1>6. Listing'
    <2> SUFFICES ASSUME NEW k \in Jobs,
                        conn = "open", Holds(k)', idOf[k] \notin Spoilt
                 PROVE  sessions'[idOf[k]] = k
      BY <1>1 DEF Listing, Spoilt
    <2>1. Holds(k) /\ sessions[idOf[k]] = k
      BY <1>1 DEF IInv, Listing, Holds
    <2>2. CASE k = j
      <3>1. timers[j] = {"cancel", "end"}
        BY <1>1, <1>2, <2>2 DEF Holds, IInv, TypeOK, Remove
      <3>2. {"cancelled", "error"} \subseteq told[j]
        <4>1. JobOK(j) /\ ~(timers[j] \subseteq {"cancel"}) /\ ~(timers[j] \subseteq {"end"})
          BY <3>1 DEF IInv
        <4>2. status[j] \notin {"cancelled", "completed"}
          BY <4>1 DEF JobOK
        <4>3. status[j] = "failed"
          BY <1>2, <4>2 DEF IInv, TypeOK
        <4> QED BY <4>1, <4>3 DEF JobOK
      <3> QED BY <2>2, <3>2 DEF Spoilt
    <2>3. CASE k # j
      <3>1. Holds(j)
        BY DEF Holds
      <3>2. idOf[k] # idOf[j]
        BY <2>1, <2>3, <3>1 DEF IInv, Listing
      <3>3. idOf[k] \in Ids
        BY <2>1, ConstantsOK DEF IInv, JobOK, Holds
      <3> QED BY <1>3, <2>1, <3>2, <3>3
    <2> QED BY <2>2, <2>3
  <1> QED BY <1>4, <1>5, <1>6 DEF IInv

LEMMA OtherIInv ==
    ASSUME IInv, TypeOK', Ping \/ Heartbeat \/ Close \/ UNCHANGED vars
    PROVE  IInv'
  <1>1. UNCHANGED <<jobs, job>>
    BY DEF Ping, Heartbeat, Close, vars
  <1>2. conn' = "open" => conn = "open" /\ UNCHANGED sessions
    BY DEF Ping, Heartbeat, Close, vars
  <1>3. Numbered'
    BY <1>1 DEF IInv, Numbered, job
  <1>4. \A k \in Jobs : JobOK(k)'
    BY <1>1, <1>2 DEF IInv, JobOK, job
  <1>5. Listing'
    BY <1>1, <1>2 DEF IInv, Listing, Holds, Spoilt, job
  <1> QED BY <1>3, <1>4, <1>5 DEF IInv

LEMMA NextTypeOK == TypeOK /\ [Next]_vars => TypeOK'
  <1> SUFFICES ASSUME TypeOK, [Next]_vars PROVE TypeOK'
    OBVIOUS
  <1> USE DEF TypeOK, job
  <1>1. ASSUME NEW id \in Ids, Compile(id) PROVE TypeOK'
    BY <1>1, ConstantsOK DEF Compile, Jobs
  <1>2. ASSUME NEW id \in Ids, Cancel(id) PROVE TypeOK'
    BY <1>2 DEF Cancel, Running, Listed, Tell, Schedule, Verdicts
  <1>3. ASSUME NEW j \in Jobs, Succeed(j) PROVE TypeOK'
    BY <1>3 DEF Succeed, Tell, Schedule, Verdicts
  <1>4. ASSUME NEW j \in Jobs, Fail(j) PROVE TypeOK'
    BY <1>4 DEF Fail, Tell, Schedule, Verdicts
  <1>5. ASSUME NEW j \in Jobs, NEW timer \in timers[j], Remove(j, timer) PROVE TypeOK'
    BY <1>5 DEF Remove
  <1>6. CASE Ping
    BY <1>6, ConstantsOK DEF Ping
  <1>7. CASE Heartbeat
    BY <1>7, ConstantsOK DEF Heartbeat
  <1>8. CASE Close
    BY <1>8 DEF Close
  <1>9. CASE UNCHANGED vars
    BY <1>9 DEF vars
  <1> QED BY <1>1, <1>2, <1>3, <1>4, <1>5, <1>6, <1>7, <1>8, <1>9 DEF Next, Server

LEMMA NextIInv == IInv /\ [Next]_vars => IInv'
  <1> SUFFICES ASSUME IInv, [Next]_vars PROVE IInv'
    OBVIOUS
  <1> TypeOK'
    BY NextTypeOK DEF IInv
  <1>1. ASSUME NEW id \in Ids, Compile(id) \/ Cancel(id) PROVE IInv'
    BY <1>1, CompileIInv, CancelIInv
  <1>2. ASSUME NEW j \in Jobs, Server(j) PROVE IInv'
    BY <1>2, SucceedIInv, FailIInv, RemoveIInv DEF Server
  <1>3. CASE Ping \/ Heartbeat \/ Close \/ UNCHANGED vars
    BY <1>3, OtherIInv
  <1> QED BY <1>1, <1>2, <1>3 DEF Next

-----------------------------------------------------------------------------
\* The invariant holds in every state.
THEOREM Invariant == Spec => []IInv
  <1> QED BY InitIInv, NextIInv, PTL DEF Spec

\* The sessions, the jobs behind them and their timers have their types
\* throughout the code's handlers.
THEOREM TypeCorrect == Spec => []TypeOK
  <1>1. IInv => TypeOK
    BY DEF IInv
  <1> QED BY <1>1, Invariant, PTL

\* A client that was told that its compilation is complete is told nothing
\* else of it: the handler looks at the status again when compileWithMetrics()
\* returns, and a session that is over can no longer be cancelled.
THEOREM OneVerdictAlways == Spec => []OneVerdict
  <1>1. IInv => OneVerdict
    <2> SUFFICES ASSUME IInv, NEW j \in Jobs, "complete" \in told[j]
                 PROVE  told[j] = {"complete"}
      BY DEF OneVerdict
    <2>1. JobOK(j) /\ status[j] \in {None, "running", "cancelled", "completed", "failed"}
      BY DEF IInv, TypeOK
    <2> QED BY <2>1 DEF JobOK
  <1> QED BY <1>1, Invariant, PTL

\* A running session stays in the map: the removal by id, five or sixty seconds
\* after an earlier session ended, never deletes the entry of a running one,
\* for as long as no cancelled compilation with that id has failed.
THEOREM RunningIsListedAlways == Spec => []RunningIsListed
  <1>1. IInv => RunningIsListed
    BY DEF IInv, Listing, Holds, RunningIsListed
  <1> QED BY <1>1, Invariant, PTL
=============================================================================
