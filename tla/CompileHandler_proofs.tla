------------------------ MODULE CompileHandler_proofs ------------------------
(***************************************************************************)
(* Theorems about the compile handler, for any requests and isolates and   *)
(* under every fault: it drives the coordinator only as the protocol       *)
(* allows, so what holds of CompilationCoordinator holds here; where a     *)
(* request stands in the protocol and in its handler fit; and the map of   *)
(* pending compilations never holds a promise that has settled.            *)
(***************************************************************************)
EXTENDS CompileHandler, TLAPS
-----------------------------------------------------------------------------
(* The coordinator and its protocol, for any number of requests.  A waiter *)
(* is given no stale result under any fault; it is orphaned by evictions   *)
(* only; and the lock is a lock until something is evicted, lost or        *)
(* killed.                                                                 *)

\* Type correctness, under every fault.
THEOREM TypeCorrect == Spec => []TypeOK
<1>1. Init => TypeOK
  <2>1. 0 \in 0..MaxPolls
    BY MaxPollsAssumption
  <2> QED BY <2>1 DEF Init, TypeOK, Steps
<1>2. TypeOK /\ [Next]_vars => TypeOK'
  <2> SUFFICES ASSUME TypeOK, [Next]_vars
               PROVE  TypeOK'
    OBVIOUS
  <2> USE DEF TypeOK
  <2>1. ASSUME NEW r \in Requests, Acquire(r) PROVE TypeOK'
    BY <2>1 DEF Acquire, Goto, Steps, Fault
  <2>2. ASSUME NEW r \in Requests, Conflict(r) PROVE TypeOK'
    <3> PICK h \in IF Holders = {} THEN {None} ELSE Holders :
               awaited' = [awaited EXCEPT ![r] = h]
      BY <2>2 DEF Conflict
    <3>1. h \in Requests \cup {None}
      BY DEF Holders
    <3> QED BY <2>2, <3>1 DEF Conflict, Goto, Steps, object
  <2>3. ASSUME NEW r \in Requests, Compiled(r) PROVE TypeOK'
    BY <2>3 DEF Compiled, Goto, Steps, object
  <2>4. ASSUME NEW r \in Requests, CompleteBegins(r) PROVE TypeOK'
    <3>1. UNCHANGED <<object, polls, awaited, heard>>
      BY <2>4 DEF CompleteBegins
    <3>2. CASE inFlight /\ Goto(r, "completing") /\ UNCHANGED <<answer, happened>>
      BY <3>1, <3>2 DEF Goto, Steps, object
    <3>3. CASE Return(r, r) /\ UNCHANGED happened
      BY <3>1, <3>3 DEF Return, Goto, Steps, object
    <3>4. CASE Goto(r, "fail") /\ Fault("lose") /\ UNCHANGED answer
      BY <3>1, <3>4 DEF Goto, Fault, Steps, object
    <3> QED BY <2>4, <3>2, <3>3, <3>4 DEF CompleteBegins
  <2>5. ASSUME NEW r \in Requests, CompleteEnds(r) PROVE TypeOK'
    <3>1. /\ inFlight' = FALSE /\ result' = r /\ error' = None
          /\ heard' \in [Requests -> SUBSET Requests] /\ UNCHANGED <<polls, awaited>>
      BY <2>5 DEF CompleteEnds, Waiters
    <3>2. CASE Return(r, r) /\ UNCHANGED happened
      BY <3>1, <3>2 DEF Return, Goto, Steps
    <3>3. CASE Goto(r, "fail") /\ Fault("lose") /\ UNCHANGED answer
      BY <3>1, <3>3 DEF Goto, Fault, Steps
    <3> QED BY <2>5, <3>2, <3>3 DEF CompleteEnds
  <2>6. ASSUME NEW r \in Requests, FailBegins(r) PROVE TypeOK'
    BY <2>6 DEF FailBegins, Goto, Steps, Fault, Return, object
  <2>7. ASSUME NEW r \in Requests, FailEnds(r) PROVE TypeOK'
    BY <2>7 DEF FailEnds, Goto, Steps, Fault
  <2>8. ASSUME NEW r \in Requests, Poll(r) PROVE TypeOK'
    BY <2>8, MaxPollsAssumption DEF Poll, Goto, Return, Steps, object
  <2>9. ASSUME NEW r \in Requests, WaitTimesOut(r) PROVE TypeOK'
    BY <2>9 DEF WaitTimesOut, Goto, Steps, object
  <2>10. ASSUME NEW r \in Requests, Die(r) PROVE TypeOK'
    BY <2>10 DEF Die, Goto, Steps, Fault, object
  <2>11. CASE Evict
    BY <2>11 DEF Evict, Steps, Fault
  <2>12. CASE UNCHANGED vars
    BY <2>12 DEF vars, object
  <2> QED BY <2>1, <2>2, <2>3, <2>4, <2>5, <2>6, <2>7, <2>8, <2>9, <2>10,
             <2>11, <2>12 DEF Next, Step
<1> QED BY <1>1, <1>2, PTL DEF Spec

-----------------------------------------------------------------------------
\* Every step leaves the object's state alone, or takes the lock, or gives it
\* back with one outcome, or loses everything.
LEMMA ObjectSteps ==
    ASSUME [Next]_vars
    PROVE  \/ UNCHANGED object
           \/ inFlight' = TRUE /\ result' = None /\ error' = None
           \/ \E r \in Requests :
                 inFlight' = FALSE /\ {result', error'} = {r, None}
           \/ Evict
BY DEF Next, Step, Acquire, Conflict, Compiled, CompleteBegins, CompleteEnds,
       FailBegins, FailEnds, Poll, WaitTimesOut, Die, vars, object

\* While the flag is up nothing is reported; so nobody is told to wait while a
\* result is there, and whoever waits when one is has heard of it.
NoReportYet == inFlight => ~Outcome
AllHeard == result # None => Waiters \subseteq heard[result]

LEMMA FreshInductive ==
    TypeOK /\ NoReportYet /\ AllHeard /\ ReportIsFresh /\ [Next]_vars
      => (NoReportYet /\ AllHeard /\ ReportIsFresh)'
  <1> SUFFICES ASSUME TypeOK, NoReportYet, AllHeard, ReportIsFresh, [Next]_vars
               PROVE  (NoReportYet /\ AllHeard /\ ReportIsFresh)'
    OBVIOUS
  <1>1. NoReportYet'
    BY ObjectSteps DEF NoReportYet, Outcome, object, Evict
  \* a step that neither stores a result nor hands one out
  <1>2. ASSUME heard' = heard, answer' = answer, result' \in {result, None},
               result' # None => Waiters' \subseteq Waiters,
               \A q \in Requests : pc'[q] = "returned" => pc[q] = "returned"
        PROVE  AllHeard' /\ ReportIsFresh'
    BY <1>2 DEF AllHeard, ReportIsFresh
  <1>3. ASSUME NEW r \in Requests, Acquire(r) \/ Compiled(r) \/ FailBegins(r)
                                    \/ FailEnds(r) \/ WaitTimesOut(r) \/ Die(r)
        PROVE  AllHeard' /\ ReportIsFresh'
    <2>1. heard' = heard /\ answer' = answer /\ result' \in {result, None}
      BY <1>3 DEF Acquire, Compiled, FailBegins, FailEnds, WaitTimesOut, Die, object
    <2>2. PICK step \in Steps \ {"told", "wait", "returned"} : pc' = [pc EXCEPT ![r] = step]
      BY <1>3 DEF Acquire, Compiled, FailBegins, FailEnds, WaitTimesOut, Die, Goto, Steps
    <2>3. Waiters' \subseteq Waiters
      BY <2>2 DEF Waiters, TypeOK
    <2>4. \A q \in Requests : pc'[q] = "returned" => pc[q] = "returned"
      BY <2>2 DEF TypeOK
    <2> QED BY <1>2, <2>1, <2>3, <2>4
  <1>4. ASSUME NEW r \in Requests, Conflict(r) PROVE AllHeard' /\ ReportIsFresh'
    <2>1. /\ result' = None /\ heard' = heard /\ answer' = answer
          /\ \A q \in Requests : pc'[q] = "returned" => pc[q] = "returned"
      BY <1>4 DEF Conflict, NoReportYet, Outcome, object, Goto, TypeOK
    <2> QED BY <1>2, <2>1
  <1>5. ASSUME NEW r \in Requests, CompleteBegins(r) PROVE AllHeard' /\ ReportIsFresh'
    <2>1. /\ result' = result /\ heard' = heard
          /\ Waiters' \subseteq Waiters
      BY <1>5 DEF CompleteBegins, Return, Goto, Waiters, object, TypeOK
    <2>2. \A q \in Requests : pc'[q] = "returned"
                => \/ pc[q] = "returned" /\ answer'[q] = answer[q]
                   \/ answer'[q] = q
      BY <1>5 DEF CompleteBegins, Return, Goto, TypeOK
    <2> QED BY <2>1, <2>2 DEF AllHeard, ReportIsFresh
  <1>6. ASSUME NEW r \in Requests, CompleteEnds(r) PROVE AllHeard' /\ ReportIsFresh'
    <2>1. /\ result' = r
          /\ heard' = [heard EXCEPT ![r] = @ \cup Waiters]
          /\ Waiters' \subseteq Waiters
      BY <1>6 DEF CompleteEnds, Return, Goto, Waiters, TypeOK
    <2>2. \A q \in Requests : pc'[q] = "returned"
                => \/ pc[q] = "returned" /\ answer'[q] = answer[q]
                   \/ answer'[q] = q
      BY <1>6 DEF CompleteEnds, Return, Goto, TypeOK
    <2>3. AllHeard'
      BY <2>1 DEF AllHeard, TypeOK
    <2>4. ASSUME NEW q \in Requests, pc[q] = "returned", answer[q] # q,
                 q \in heard[answer[q]]
          PROVE  q \in heard'[answer[q]]
      BY <2>1, <2>4 DEF TypeOK
    <2> QED BY <2>2, <2>3, <2>4 DEF ReportIsFresh
  <1>7. ASSUME NEW r \in Requests, Poll(r) PROVE AllHeard' /\ ReportIsFresh'
    <2>1. /\ result' = result /\ heard' = heard
          /\ Waiters' \subseteq Waiters /\ r \in Waiters
      BY <1>7 DEF Poll, Return, Goto, Waiters, object, TypeOK
    <2>2. \A q \in Requests : pc'[q] = "returned"
                => \/ pc[q] = "returned" /\ answer'[q] = answer[q]
                   \/ q = r /\ result # None /\ answer'[q] = result
      BY <1>7 DEF Poll, Return, Goto, TypeOK
    <2> QED BY <2>1, <2>2 DEF AllHeard, ReportIsFresh
  <1>8. CASE Evict
    <2>1. heard' = heard /\ answer' = answer /\ result' = None
      BY <1>8 DEF Evict
    <2>2. \A q \in Requests : pc'[q] = "returned" => pc[q] = "returned"
      BY <1>8 DEF Evict
    <2> QED BY <1>1, <1>2, <2>1, <2>2
  <1>9. CASE UNCHANGED vars
    <2>1. /\ pc' = pc /\ answer' = answer /\ heard' = heard /\ result' = result
          /\ Waiters' = Waiters
      BY <1>9 DEF vars, object, Waiters
    <2> QED BY <1>1, <1>2, <2>1
  <1> QED BY <1>1, <1>3, <1>4, <1>5, <1>6, <1>7, <1>8, <1>9 DEF Next, Step

\* A waiter is only ever given a result that was stored while it was waiting,
\* whatever is evicted, lost or killed.
THEOREM ReportIsFreshAlways == Spec => []ReportIsFresh
<1>1. Init => NoReportYet /\ AllHeard /\ ReportIsFresh
  BY DEF Init, NoReportYet, AllHeard, ReportIsFresh, Outcome
<1> QED BY <1>1, FreshInductive, TypeCorrect, PTL DEF Spec

-----------------------------------------------------------------------------
\* Whatever faults there may be, an eviction is recorded and nothing is struck
\* from the record.
LEMMA FaultsRecorded ==
    ASSUME [Next]_vars
    PROVE  /\ happened \subseteq happened'
           /\ Evict => "evict" \in happened'
           /\ (\E r \in Requests : Die(r)) => happened' # {}
BY DEF Next, Step, Acquire, Conflict, Compiled, CompleteBegins, CompleteEnds,
       FailBegins, FailEnds, Poll, WaitTimesOut, Die, Evict, Fault, vars, object

\* Only an eviction makes a waiter find the object with neither a compilation
\* in flight nor a report: no lost answer and no killed Worker does.
THEOREM WaitersNotOrphaned == Spec => []NoOrphanedWaiter
<1>1. Init => NoOrphanedWaiter
  BY DEF Init, NoOrphanedWaiter, Waiters
<1>2. TypeOK /\ NoOrphanedWaiter /\ [Next]_vars => NoOrphanedWaiter'
  <2> SUFFICES ASSUME TypeOK, NoOrphanedWaiter, [Next]_vars,
                      "evict" \notin happened',
                      NEW w \in Requests, pc'[w] \in {"told", "wait"}
               PROVE  (inFlight \/ Outcome)'
    BY DEF NoOrphanedWaiter, Waiters
  <2>1. ~Evict /\ "evict" \notin happened
    BY FaultsRecorded
  <2>2. pc[w] \in {"told", "wait"} \/ inFlight
    BY <2>1 DEF Next, Step, Acquire, Conflict, Compiled, CompleteBegins,
       CompleteEnds, FailBegins, FailEnds, Poll, WaitTimesOut, Die, Goto,
       Return, vars, TypeOK
  <2>3. inFlight \/ Outcome
    BY <2>1, <2>2 DEF NoOrphanedWaiter, Waiters
  <2> QED BY <2>1, <2>3, ObjectSteps, NoneAssumption DEF Outcome, object
<1> QED BY <1>1, <1>2, TypeCorrect, PTL DEF Spec

-----------------------------------------------------------------------------
\* Until the first fault, at most one request is between acquiring the lock and
\* having reported, and the flag is up exactly while one is; although the lock
\* has no owner and a report is checked and stored in different turns.
THEOREM SingleHolderAlways == Spec => []SingleHolder
<1> DEFINE Single == /\ \A r, s \in Holders : r = s
                     /\ inFlight <=> Holders # {}
<1>1. Init => SingleHolder
  BY DEF Init, SingleHolder, Holders
<1>2. TypeOK /\ SingleHolder /\ [Next]_vars => SingleHolder'
  <2> SUFFICES ASSUME TypeOK, SingleHolder, [Next]_vars, happened' = {}
               PROVE  Single'
    BY DEF SingleHolder
  <2>0. Single /\ ~Evict /\ ~\E r \in Requests : Die(r)
    BY FaultsRecorded DEF SingleHolder
  <2>1. ASSUME NEW r \in Requests, Acquire(r) PROVE Single'
    <3>1. Holders = {}
      BY <2>0, <2>1 DEF Acquire
    <3>2. Holders' = {r}
      BY <2>1, <3>1 DEF Acquire, Holders, Goto, Fault, TypeOK
    <3> QED BY <2>1, <3>2 DEF Acquire
  \* what a holder does before it gives the lock back, and what others do
  <2>2. ASSUME Holders' = Holders, inFlight' = inFlight PROVE Single'
    BY <2>0, <2>2
  \* a holder reports, and it was the only one
  <2>3. ASSUME NEW r \in Requests, r \in Holders, Holders' = Holders \ {r},
               inFlight' = FALSE
        PROVE  Single'
    <3>1. Holders' = {}
      BY <2>0, <2>3
    <3> QED BY <2>3, <3>1
  <2>4. ASSUME NEW r \in Requests,
               Conflict(r) \/ Compiled(r) \/ Poll(r) \/ WaitTimesOut(r)
        PROVE  Single'
    <3>1. Holders' = Holders /\ inFlight' = inFlight
      BY <2>4 DEF Conflict, Compiled, Poll, WaitTimesOut, Holders, Goto, Return,
         object, TypeOK
    <3> QED BY <2>2, <3>1
  <2>5. ASSUME NEW r \in Requests, CompleteBegins(r) \/ FailBegins(r)
        PROVE  Single'
    <3>1. r \in Holders
      BY <2>5 DEF CompleteBegins, FailBegins, Holders
    <3>2. inFlight
      BY <2>0, <3>1
    <3>3. Holders' = Holders /\ inFlight' = inFlight
      BY <2>5, <3>2 DEF CompleteBegins, FailBegins, Holders, Goto, Fault, object,
         TypeOK
    <3> QED BY <2>2, <3>3
  <2>6. ASSUME NEW r \in Requests, CompleteEnds(r) \/ FailEnds(r)
        PROVE  Single'
    <3>1. r \in Holders /\ inFlight' = FALSE
      BY <2>6 DEF CompleteEnds, FailEnds, Holders
    <3>2. Holders' = Holders \ {r}
      BY <2>6 DEF CompleteEnds, FailEnds, Holders, Goto, Return, Fault, TypeOK
    <3> QED BY <2>3, <3>1, <3>2
  <2>7. CASE UNCHANGED vars
    <3>1. Holders' = Holders /\ inFlight' = inFlight
      BY <2>7 DEF vars, object, Holders
    <3> QED BY <2>2, <3>1
  <2> HIDE DEF Single
  <2> QED BY <2>0, <2>1, <2>4, <2>5, <2>6, <2>7 DEF Next, Step
<1> QED BY <1>1, <1>2, TypeCorrect, PTL DEF Spec
-----------------------------------------------------------------------------
(* The handler that drives it.                                             *)

\* A step of the handler is a step of the protocol or leaves it alone.
LEMMA HandlerStep == [HNext]_all => [Next]_vars
  <1> SUFFICES ASSUME [HNext]_all PROVE [Next]_vars
    OBVIOUS
  <1>1. CASE UNCHANGED all
    BY <1>1 DEF all
  <1>2. ASSUME NEW r \in Requests, HStep(r) PROVE [Next]_vars
    <2>1. CASE Coordinate(r)
      BY <2>1 DEF Coordinate, Next
    <2>2. CASE ~Coordinate(r)
      BY <1>2, <2>2 DEF HStep, CoordinatedAnswer, FallBack, CheckPending, CacheHit, CacheFails,
         CacheMiss, LocalCompiled, Put, OwnAnswer, DeduplicatedAnswer
    <2> QED BY <2>1, <2>2
  <1>3. CASE Disturb
    BY <1>3 DEF Disturb, Next
  <1>4. CASE CacheExpires
    BY <1>4 DEF CacheExpires
  <1>5. ASSUME NEW r \in Requests, KilledLocally(r) PROVE [Next]_vars
    BY <1>5 DEF KilledLocally
  <1> QED BY <1>1, <1>2, <1>3, <1>4, <1>5 DEF HNext

\* The handler implements the client side of the coordinator's protocol.
THEOREM FollowsProtocol == HSpec => Spec
  <1>1. HInit => Init
    BY DEF HInit
  <1> QED BY <1>1, HandlerStep, PTL DEF HSpec, Spec

\* The types of the handler's own state.
Types ==
    /\ pending \in [Isolates -> Requests \cup {None}]
    /\ cached \in BOOLEAN
    /\ loc \in [Requests -> Locs]
    /\ awaits \in [Requests -> Requests \cup {None}]
    /\ settled \in [Requests -> {None, "success", "failure"}]
    /\ response \in [Requests -> Responses \cup {None}]

LEMMA AnswerTyped ==
    ASSUME Types, NEW r \in Requests, NEW of \in Requests \cup {None},
           NEW kind \in {"fresh", "deduplicated", "cached", "serverError"},
           Answer(r, kind, of)
    PROVE  /\ response' \in [Requests -> Responses \cup {None}]
           /\ loc' \in [Requests -> Locs]
  <1>1. [kind |-> kind, of |-> of] \in Responses
    BY DEF Responses
  <1> QED BY <1>1 DEF Answer, At, Types, Locs

LEMMA TypesInductive == TypeOK /\ Types /\ [HNext]_all => Types'
  <1> SUFFICES ASSUME TypeOK, Types, [HNext]_all PROVE Types'
    OBVIOUS
  <1> USE DEF Types
  <1>1. CASE UNCHANGED <<local, cached>>
    BY <1>1 DEF local
  <1>2. ASSUME NEW r \in Requests, HStep(r) PROVE Types'
    <2> USE IsolateOfAssumption
    <2>1. CASE Coordinate(r)
      BY <2>1 DEF Coordinate, local
    <2>2. CASE CoordinatedAnswer(r)
      BY <2>2, AnswerTyped DEF CoordinatedAnswer, TypeOK
    <2>3. CASE FallBack(r)
      BY <2>3 DEF FallBack, At, Locs
    <2>4. CASE CheckPending(r)
      <3>1. pending[IsolateOf[r]] \in Requests \cup {None}
        OBVIOUS
      <3> QED BY <2>4, <3>1 DEF CheckPending, At, Locs
    <2>5. CASE CacheHit(r)
      BY <2>5, AnswerTyped DEF CacheHit
    <2>11. CASE CacheFails(r)
      BY <2>11, AnswerTyped DEF CacheFails
    <2>6. CASE CacheMiss(r)
      BY <2>6 DEF CacheMiss, At, Locs
    <2>7. CASE LocalCompiled(r)
      BY <2>7 DEF LocalCompiled, Settle, At, Locs
    <2>8. CASE Put(r)
      BY <2>8 DEF Put, Settle, At, Locs
    <2>9. CASE OwnAnswer(r)
      BY <2>9, AnswerTyped DEF OwnAnswer
    <2>10. CASE DeduplicatedAnswer(r)
      BY <2>10, AnswerTyped DEF DeduplicatedAnswer
    <2> QED BY <1>2, <2>1, <2>2, <2>3, <2>4, <2>5, <2>6, <2>7, <2>8, <2>9, <2>10, <2>11 DEF HStep
  <1>3. CASE Disturb
    BY <1>3 DEF Disturb, local
  <1>4. CASE CacheExpires
    BY <1>4 DEF CacheExpires, local
  <1>5. ASSUME NEW r \in Requests, KilledLocally(r) PROVE Types'
    BY <1>5 DEF KilledLocally, At, Locs
  <1> QED BY <1>1, <1>2, <1>3, <1>4, <1>5 DEF HNext, all

\* Type correctness of handler and protocol together.
LEMMA HandlerTypes == HSpec => []HTypeOK
  <1>1. HInit => Types
    BY DEF HInit, Types, Locs
  <1>2. TypeOK /\ Types => HTypeOK
    BY DEF Types, HTypeOK
  <1> QED BY <1>1, <1>2, TypesInductive, FollowsProtocol, TypeCorrect, PTL DEF HSpec

-----------------------------------------------------------------------------
(* Where a request stands in the protocol and where its handler stands.    *)

\* It compiles locally only after the protocol threw or when there is none.
PlacedAt(r) ==
    /\ loc[r] = "coordinate" => Coordinated
    /\ loc[r] # "coordinate" /\ Coordinated => pc[r] \in {"returned", "threw"}
    /\ pc[r] = "returned" => loc[r] \in {"coordinate", "done"}

\* It is done exactly when it has its response, and a result that the protocol
\* returned is what it answers with.
AnsweredAt(r) ==
    /\ loc[r] = "done" => response[r] # None
    /\ response[r] # None => loc[r] = "done"
    /\ response[r] # None /\ pc[r] = "returned" => response[r].of = answer[r]

\* It awaits another's compilation, of its own isolate; and its own promise has
\* settled exactly when it is past it, so never if it was killed.
PromisesAt(r) ==
    /\ loc[r] = "awaiting" =>
          /\ awaits[r] \in Requests \ {r}
          /\ IsolateOf[awaits[r]] = IsolateOf[r]
    /\ settled[r] # None => loc[r] \in {"settled", "done"}
    /\ loc[r] = "settled" => settled[r] # None

Fits == \A r \in Requests : PlacedAt(r) /\ AnsweredAt(r) /\ PromisesAt(r)

\* Only the handler's own steps touch what it keeps for a request.
Aside(q) == /\ loc'[q] = loc[q] /\ awaits'[q] = awaits[q]
            /\ settled'[q] = settled[q] /\ response'[q] = response[q]

LEMMA OthersAside ==
    ASSUME HTypeOK, NEW q \in Requests, NEW r \in Requests \ {q},
           HStep(r) \/ KilledLocally(r)
    PROVE  Aside(q)
  BY DEF HTypeOK, HStep, local, Coordinate, CoordinatedAnswer, FallBack, CheckPending, CacheHit,
     CacheFails, CacheMiss, LocalCompiled, Put, Settle, OwnAnswer, DeduplicatedAnswer,
     KilledLocally, Answer, At, Aside

\* A request enters the end of the protocol in a step of the protocol only.
LEMMA EndsInStep ==
    ASSUME HTypeOK, [HNext]_all, NEW q \in Requests, pc[q] # "returned", pc'[q] = "returned"
    PROVE  Coordinate(q)
  <1>1. pc' # pc
    OBVIOUS
  <1>2. CASE Disturb
    BY <1>2 DEF Disturb, Evict, Die, Goto, HTypeOK, TypeOK
  <1>3. ASSUME NEW r \in Requests, Coordinate(r) PROVE Coordinate(q)
    <2>1. PICK step \in Steps : pc' = [pc EXCEPT ![r] = step]
      BY <1>3 DEF Coordinate, Step, Acquire, Conflict, Compiled, CompleteBegins, CompleteEnds,
         FailBegins, FailEnds, Poll, WaitTimesOut, Goto, Return, Steps
    <2>2. q = r
      BY <2>1 DEF HTypeOK, TypeOK
    <2> QED BY <1>3, <2>2
  <1> QED BY <1>1, <1>2, <1>3 DEF HNext, HStep, CacheExpires, KilledLocally, all, vars,
          CoordinatedAnswer, FallBack, CheckPending, CacheHit, CacheFails, CacheMiss,
          LocalCompiled, Put, OwnAnswer, DeduplicatedAnswer

\* And it stays there, with its answer.
LEMMA EndsStay ==
    ASSUME TypeOK, [Next]_vars, NEW r \in Requests, pc[r] \in {"returned", "threw"}
    PROVE  pc'[r] = pc[r] /\ answer'[r] = answer[r]
  BY DEF TypeOK, Next, Step, Acquire, Conflict, Compiled, CompleteBegins, CompleteEnds,
     FailBegins, FailEnds, Poll, WaitTimesOut, Evict, Die, Fault, Goto, Return, vars

\* What a step of the protocol, or of another request, leaves of a request's
\* places.
LEMMA AsideFits ==
    ASSUME HTypeOK, Fits, [HNext]_all, NEW q \in Requests, Aside(q)
    PROVE  (PlacedAt(q) /\ AnsweredAt(q) /\ PromisesAt(q))'
  <1> USE DEF Aside, Fits
  <1>1. pc[q] \in {"returned", "threw"} => pc'[q] = pc[q] /\ answer'[q] = answer[q]
    BY HandlerStep, EndsStay DEF HTypeOK
  <1>2. pc'[q] = "returned" /\ pc[q] # "returned" => loc[q] = "coordinate"
    BY EndsInStep DEF Coordinate
  <1>3. PlacedAt(q)'
    BY <1>1, <1>2 DEF PlacedAt
  <1>4. AnsweredAt(q)'
    BY <1>1, <1>2 DEF AnsweredAt
  <1>5. PromisesAt(q)'
    BY DEF PromisesAt
  <1> QED BY <1>3, <1>4, <1>5

-----------------------------------------------------------------------------
LEMMA FitsInductive ==
    HTypeOK /\ NoStalePending /\ Fits /\ [HNext]_all => Fits'
  <1> SUFFICES ASSUME HTypeOK, NoStalePending, Fits, [HNext]_all, NEW q \in Requests
               PROVE  (PlacedAt(q) /\ AnsweredAt(q) /\ PromisesAt(q))'
    BY DEF Fits
  <1>1. CASE UNCHANGED local
    BY <1>1, AsideFits DEF local, Aside
  <1>2. ASSUME NEW r \in Requests \ {q}, HStep(r) \/ KilledLocally(r)
        PROVE  (PlacedAt(q) /\ AnsweredAt(q) /\ PromisesAt(q))'
    BY <1>2, OthersAside, AsideFits
  <1>3. PlacedAt(q) /\ AnsweredAt(q) /\ PromisesAt(q)
    BY DEF Fits
  <1>4. CASE CoordinatedAnswer(q)
    <2>1. PICK kind \in {"fresh", "deduplicated"} : Answer(q, kind, answer[q])
      BY <1>4 DEF CoordinatedAnswer
    <2>2. /\ loc'[q] = "done" /\ response'[q] = [kind |-> kind, of |-> answer[q]]
          /\ pc' = pc /\ answer' = answer /\ settled' = settled
      BY <1>4, <2>1 DEF CoordinatedAnswer, Answer, At, HTypeOK, vars
    <2>3. response'[q] # None
      BY <2>2, NothingAssumption DEF Responses, HTypeOK, TypeOK
    <2> QED BY <1>3, <1>4, <2>2, <2>3 DEF CoordinatedAnswer, PlacedAt, AnsweredAt, PromisesAt
  <1>5. ASSUME NEW kind \in {"fresh", "deduplicated", "cached", "serverError"},
               NEW of \in Requests \cup {None}, Answer(q, kind, of),
               UNCHANGED <<vars, settled>>,
               loc[q] \in {"reading", "awaiting", "settled"}
        PROVE  (PlacedAt(q) /\ AnsweredAt(q) /\ PromisesAt(q))'
    <2>1. loc'[q] = "done" /\ response'[q] = [kind |-> kind, of |-> of] /\ pc' = pc
      BY <1>5 DEF Answer, At, HTypeOK, vars
    <2>2. response'[q] # None
      BY <2>1, NothingAssumption DEF Responses
    <2> QED BY <1>3, <1>5, <2>1, <2>2 DEF PlacedAt, AnsweredAt, PromisesAt
  <1>6. CASE CacheHit(q) \/ CacheFails(q) \/ OwnAnswer(q) \/ DeduplicatedAnswer(q)
    BY <1>5, <1>6 DEF CacheHit, CacheFails, OwnAnswer, DeduplicatedAnswer, HTypeOK
  <1>7. CASE FallBack(q)
    BY <1>3, <1>7 DEF FallBack, At, HTypeOK, vars, PlacedAt, AnsweredAt, PromisesAt
  <1>8. CASE CheckPending(q)
    <2>1. /\ loc'[q] \in {"awaiting", "reading"} /\ pc' = pc
          /\ response' = response /\ settled' = settled
      BY <1>8 DEF CheckPending, At, HTypeOK, vars
    <2>2. PlacedAt(q)' /\ AnsweredAt(q)'
      BY <1>3, <1>8, <2>1 DEF CheckPending, PlacedAt, AnsweredAt
    <2>3. ASSUME loc'[q] = "awaiting"
          PROVE  awaits'[q] \in Requests \ {q} /\ IsolateOf[awaits'[q]] = IsolateOf[q]
      <3>1. awaits'[q] = pending[IsolateOf[q]] /\ awaits'[q] # None
        BY <1>8, <2>3 DEF CheckPending, At, HTypeOK
      <3>2. IsolateOf[q] \in Isolates /\ loc[q] = "local"
        BY <1>8, IsolateOfAssumption DEF CheckPending
      <3>3. /\ IsolateOf[awaits'[q]] = IsolateOf[q]
            /\ loc[awaits'[q]] \in {"compiling", "putting", "killed"}
        BY <3>1, <3>2 DEF NoStalePending
      <3>4. awaits'[q] \in Requests
        BY <3>1, <3>2 DEF HTypeOK
      <3> QED BY <3>2, <3>3, <3>4
    <2>4. PromisesAt(q)'
      BY <1>3, <1>8, <2>1, <2>3 DEF CheckPending, PromisesAt
    <2> QED BY <2>2, <2>4
  <1>9. CASE CacheMiss(q) \/ KilledLocally(q)
    BY <1>3, <1>9 DEF CacheMiss, KilledLocally, At, HTypeOK, vars, PlacedAt, AnsweredAt,
       PromisesAt
  <1>10. CASE LocalCompiled(q) \/ Put(q)
    BY <1>3, <1>10, NothingAssumption DEF LocalCompiled, Put, Settle, At, HTypeOK, vars, PlacedAt,
       AnsweredAt, PromisesAt
  <1> QED BY <1>1, <1>2, <1>4, <1>6, <1>7, <1>8, <1>9, <1>10 DEF HNext, HStep, Coordinate,
          Disturb, CacheExpires, all

-----------------------------------------------------------------------------
LEMMA NoStaleInductive ==
    HTypeOK /\ Fits /\ NoStalePending /\ [HNext]_all => NoStalePending'
  <1> DEFINE Runs == {"compiling", "putting", "killed"}
  <1> SUFFICES ASSUME HTypeOK, Fits, NoStalePending, [HNext]_all,
                      NEW w \in Isolates, pending'[w] # None
               PROVE  /\ IsolateOf[pending'[w]] = w
                      /\ settled'[pending'[w]] = None
                      /\ loc'[pending'[w]] \in Runs
    BY DEF NoStalePending
  <1>1. CASE UNCHANGED local
    BY <1>1 DEF local, NoStalePending
  \* a step of a request that leaves the entry of this isolate, which is not its
  \* own or stays on its way
  <1>2. ASSUME NEW r \in Requests, HStep(r) \/ KilledLocally(r), pending'[w] = pending[w],
               pending[w] = r => loc'[r] \in Runs /\ settled'[r] = settled[r]
        PROVE  /\ IsolateOf[pending'[w]] = w
               /\ settled'[pending'[w]] = None
               /\ loc'[pending'[w]] \in Runs
    <2>1. /\ pending[w] \in Requests /\ IsolateOf[pending[w]] = w
          /\ settled[pending[w]] = None /\ loc[pending[w]] \in Runs
      BY <1>2 DEF NoStalePending, HTypeOK
    <2>2. CASE pending[w] = r
      BY <1>2, <2>1, <2>2
    <2>3. CASE pending[w] # r
      <3>1. Aside(pending[w])
        BY <1>2, <2>1, <2>3, OthersAside
      <3> QED BY <1>2, <2>1, <3>1 DEF Aside
    <2> QED BY <2>2, <2>3
  <1>3. ASSUME NEW r \in Requests, CacheMiss(r)
        PROVE  /\ IsolateOf[pending'[w]] = w
               /\ settled'[pending'[w]] = None
               /\ loc'[pending'[w]] \in Runs
    <2>1. settled'[r] = None /\ loc'[r] = "compiling"
      BY <1>3 DEF CacheMiss, At, HTypeOK, Fits, PromisesAt
    <2>2. CASE w = IsolateOf[r]
      BY <1>3, <2>1, <2>2 DEF CacheMiss, HTypeOK
    <2>3. CASE w # IsolateOf[r]
      <3>1. pending'[w] = pending[w] /\ pending[w] # r
        BY <1>3, <2>3 DEF CacheMiss, HTypeOK, NoStalePending
      <3> QED BY <1>2, <1>3, <3>1 DEF HStep
    <2> QED BY <2>2, <2>3
  <1>4. ASSUME NEW r \in Requests, LocalCompiled(r) \/ Put(r)
        PROVE  /\ IsolateOf[pending'[w]] = w
               /\ settled'[pending'[w]] = None
               /\ loc'[pending'[w]] \in Runs
    <2>1. CASE pending' = pending /\ settled' = settled /\ loc'[r] = "putting"
      BY <1>2, <1>4, <2>1 DEF HStep
    <2>2. CASE pending' = [pending EXCEPT ![IsolateOf[r]] = None]
      <3>1. w # IsolateOf[r] /\ pending'[w] = pending[w]
        BY <2>2, IsolateOfAssumption DEF HTypeOK
      <3>2. pending[w] # r
        BY <3>1 DEF NoStalePending
      <3> QED BY <1>2, <1>4, <3>1, <3>2 DEF HStep
    <2>3. \/ pending' = pending /\ settled' = settled /\ loc'[r] = "putting"
          \/ pending' = [pending EXCEPT ![IsolateOf[r]] = None]
      BY <1>4 DEF LocalCompiled, Put, Settle, At, HTypeOK
    <2> QED BY <2>1, <2>2, <2>3
  <1>5. ASSUME NEW r \in Requests,
               \/ CoordinatedAnswer(r) \/ FallBack(r) \/ CheckPending(r) \/ CacheHit(r)
               \/ CacheFails(r) \/ OwnAnswer(r) \/ DeduplicatedAnswer(r)
        PROVE  /\ IsolateOf[pending'[w]] = w
               /\ settled'[pending'[w]] = None
               /\ loc'[pending'[w]] \in Runs
    <2>1. pending' = pending /\ loc[r] \notin Runs
      BY <1>5 DEF CoordinatedAnswer, FallBack, CheckPending, CacheHit, CacheFails, OwnAnswer,
         DeduplicatedAnswer
    <2>2. pending[w] # r
      BY <2>1 DEF NoStalePending
    <2> QED BY <1>2, <1>5, <2>1, <2>2 DEF HStep
  <1>6. ASSUME NEW r \in Requests, KilledLocally(r)
        PROVE  /\ IsolateOf[pending'[w]] = w
               /\ settled'[pending'[w]] = None
               /\ loc'[pending'[w]] \in Runs
    <2>1. pending' = pending /\ settled' = settled /\ loc'[r] = "killed"
      BY <1>6 DEF KilledLocally, At, HTypeOK
    <2> QED BY <1>2, <1>6, <2>1
  <1>7. ASSUME NEW r \in Requests, Coordinate(r) PROVE UNCHANGED local
    BY <1>7 DEF Coordinate
  <1> QED BY <1>1, <1>3, <1>4, <1>5, <1>6, <1>7 DEF HNext, HStep, Disturb, CacheExpires, all

\* What the two parts of the handler's invariant, which need each other, say.
LEMMA HandlerInvariant == HSpec => [](HTypeOK /\ Fits /\ NoStalePending)
  <1>1. HInit => Fits /\ NoStalePending
    BY DEF HInit, Init, Fits, PlacedAt, AnsweredAt, PromisesAt, NoStalePending
  <1> QED BY <1>1, FitsInductive, NoStaleInductive, HandlerTypes, PTL DEF HSpec

\* Where a request stands in the protocol always fits where its handler stands:
\* nobody compiles locally what the protocol gave it, answers with anything else,
\* or awaits itself or another isolate's promise.
THEOREM PlacesFit == HSpec => [](HTypeOK /\ Fits)
  BY HandlerInvariant, PTL

\* No request is ever attached to a promise that has settled, although two
\* requests may set the entry of the key in turn and each deletes whatever is
\* there; to one that was killed it may be.
THEOREM NoStalePendingAlways == HSpec => []NoStalePending
  BY HandlerInvariant, PTL
=============================================================================
