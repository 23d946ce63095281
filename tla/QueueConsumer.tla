--------------------------- MODULE QueueConsumer ---------------------------
(***************************************************************************)
(* Asynchronous compilation (src/worker/handlers/queue.ts): producers that *)
(* send messages and count them, the consumer that works through them      *)
(* under at-least-once delivery, and the statistics all of them keep in    *)
(* one KV value, by reading it, changing the copy and writing it back.     *)
(*                                                                         *)
(* A message holds the items to compile: one for a compile message, many,  *)
(* in chunks, for a batch (a cache-warm message is consumed like a batch,  *)
(* and nothing in the repository sends one).  Any number of consumer       *)
(* invocations work at the same time, each on messages of its own.  Of the *)
(* job history the newest entry of each job is kept (what /queue/results   *)
(* looks up); its cap of 50 entries, depth and timing figures are left out.*)
(***************************************************************************)
EXTENDS Integers, Sequences, FiniteSets

CONSTANTS
    Messages,
    Items,          \* the compilations the messages ask for, each of one message
    ItemsOf,        \* of each message, in order
    PreFetched,     \* the items that carry their sources: they have no cache key
    Cancellable,    \* bound: the messages a client may try to cancel
    ChunkSize,      \* items of a message that are compiled at a time
    MaxDeliveries,  \* deliveries before a message is dead-lettered
    None

Of(m) == {ItemsOf[m][k] : k \in DOMAIN ItemsOf[m]}

ASSUME ItemsAssumption ==
    /\ IsFiniteSet(Items) /\ Messages \cap Items = {} /\ PreFetched \subseteq Items
    /\ ItemsOf \in [Messages -> Seq(Items)]
    /\ \A m \in Messages : ItemsOf[m] # <<>>
ASSUME DistinctAssumption ==
    /\ \A m \in Messages : \A k, l \in DOMAIN ItemsOf[m] :
          ItemsOf[m][k] = ItemsOf[m][l] => k = l
    /\ \A m, n \in Messages : m # n => Of(m) \cap Of(n) = {}
ASSUME BoundsAssumption ==
    ChunkSize \in Nat \ {0} /\ MaxDeliveries \in Nat \ {0}

VARIABLES
    queue,      \* where each message is
    deliveries, \* how often it was delivered
    chunk,      \* items of the message in chunks before the current one
    work,       \* where each item is in its delivery
    stats,      \* queue:stats in METRICS
    seen,       \* the copy of it that an update has read and not yet written
    cached,     \* items whose result was put into COMPILATION_CACHE
    cancelled,  \* messages with a queue:cancel: key in METRICS
    runs,       \* history: compilations <<item, delivery>> that went well or not
    uncached,   \* history: items whose cache put failed
    killed      \* history: messages some delivery of which was cut short

vars == <<queue, deliveries, chunk, work, stats, seen, cached, cancelled,
          runs, uncached, killed>>

Current(m) == {ItemsOf[m][k] : k \in (chunk[m] + 1)..(chunk[m] + ChunkSize)
                                     \cap DOMAIN ItemsOf[m]}

\* "ok" and "bad": compiled, statistics not yet updated; "fulfilled" and
\* "rejected": the item's promise has settled.
Work == {"todo", "compiling", "ok", "bad", "fulfilled", "rejected"}
Verdicts == {None, "completed", "failed"}
Stats == [pending : Nat, completed : Nat, failed : Nat,
          history : [Items -> Verdicts]]
Runs == Items \X (1..MaxDeliveries)

ASSUME NoneAssumption == None \notin Stats /\ None \notin {"completed", "failed"}

TypeOK ==
    /\ queue \in [Messages -> {"unsent", "ready", "processing", "acked", "dead"}]
    /\ deliveries \in [Messages -> 0..MaxDeliveries]
    /\ chunk \in [Messages -> Nat]
    /\ work \in [Items -> Work]
    /\ stats \in Stats
    /\ seen \in [Messages \cup Items -> Stats \cup {None}]
    /\ cached \subseteq Items /\ uncached \subseteq Items
    /\ cancelled \subseteq Messages /\ killed \subseteq Messages
    /\ runs \in [ok : SUBSET Runs, bad : SUBSET Runs]

Init ==
    /\ queue = [m \in Messages |-> "unsent"]
    /\ deliveries = [m \in Messages |-> 0]
    /\ chunk = [m \in Messages |-> 0]
    /\ work = [i \in Items |-> "todo"]
    /\ stats = [pending |-> 0, completed |-> 0, failed |-> 0,
                history |-> [i \in Items |-> None]]
    /\ seen = [u \in Messages \cup Items |-> None]
    /\ cached = {} /\ uncached = {} /\ cancelled = {} /\ killed = {}
    /\ runs = [ok |-> {}, bad |-> {}]

-----------------------------------------------------------------------------
\* updateQueueStats(), first half: METRICS.get().
ReadStats(u) == seen[u] = None /\ seen' = [seen EXCEPT ![u] = stats]

Decrement_Mut(n, by) == n - by                  \* mutant: no Math.max
Decrement(n, by) == IF n < by THEN 0 ELSE n - by

\* What an update makes of the copy it read.
Enqueued(s, m) == [s EXCEPT !.pending = @ + Len(ItemsOf[m])]
Completed_Mut(s, i) ==                          \* mutant: counts the message
    [s EXCEPT !.pending = Decrement(@, 1), !.completed = @ + ChunkSize,
              !.history[i] = "completed"]
Completed(s, i) ==
    [s EXCEPT !.pending = Decrement(@, 1), !.completed = @ + 1,
              !.history[i] = "completed"]
Failed(s, i) ==
    [s EXCEPT !.pending = Decrement(@, 1), !.failed = @ + 1,
              !.history[i] = "failed"]

\* Second half: METRICS.put(); an error of either call is only logged.
WriteStats(u, changed) ==
    /\ seen[u] # None
    /\ stats' \in {changed, stats}
    /\ seen' = [seen EXCEPT ![u] = None]

-----------------------------------------------------------------------------
\* queueCompileJob, queueBatchCompileJob: queue.send(), then the statistics;
\* the producer may not live to write them.
Send(m) ==
    /\ queue[m] = "unsent"
    /\ queue' = [queue EXCEPT ![m] = "ready"]
    /\ ReadStats(m)
    /\ UNCHANGED <<deliveries, chunk, work, stats, cached, cancelled, runs,
                   uncached, killed>>

CountEnqueued(m) ==
    /\ WriteStats(m, Enqueued(seen[m], m))
    /\ UNCHANGED <<queue, deliveries, chunk, work, cached, cancelled, runs,
                   uncached, killed>>

\* DELETE /queue/cancel/<id>: a note is left in METRICS, whatever the job does.
CancelRequest(m) ==
    /\ m \in Cancellable \ cancelled
    /\ cancelled' = cancelled \cup {m}
    /\ UNCHANGED <<queue, deliveries, chunk, work, stats, seen, cached, runs,
                   uncached, killed>>

-----------------------------------------------------------------------------
StartItems(items) ==
    work' = [i \in Items |-> IF i \in items THEN "compiling" ELSE work[i]]

\* handleQueue is handed the message and starts on its first chunk.
Deliver(m) ==
    /\ queue[m] = "ready"
    /\ queue' = [queue EXCEPT ![m] = "processing"]
    /\ deliveries' = [deliveries EXCEPT ![m] = @ + 1]
    /\ StartItems(Current(m))
    /\ UNCHANGED <<chunk, stats, seen, cached, cancelled, runs, uncached, killed>>

\* The compilation of an item in the current delivery of its message.
Run(i) == <<i, deliveries[CHOOSE m \in Messages : i \in Of(m)]>>

\* processCompileMessage: the compilation succeeds, and with a cache key the
\* cache is filled unless that fails; or it throws.
Compile_Mut(i) ==                               \* mutant: the result is not put
    /\ work[i] = "compiling"
    /\ \/ /\ work' = [work EXCEPT ![i] = "ok"]
          /\ runs' = [runs EXCEPT !.ok = @ \cup {Run(i)}]
       \/ /\ work' = [work EXCEPT ![i] = "bad"]
          /\ runs' = [runs EXCEPT !.bad = @ \cup {Run(i)}]
    /\ UNCHANGED <<queue, deliveries, chunk, stats, seen, cached, cancelled,
                   uncached, killed>>
Compile(i) ==
    /\ work[i] = "compiling"
    /\ \/ /\ work' = [work EXCEPT ![i] = "ok"]
          /\ runs' = [runs EXCEPT !.ok = @ \cup {Run(i)}]
          /\ \/ i \in PreFetched /\ UNCHANGED <<cached, uncached>>
             \/ i \notin PreFetched /\ cached' = cached \cup {i} /\ UNCHANGED uncached
             \/ i \notin PreFetched /\ uncached' = uncached \cup {i} /\ UNCHANGED cached
       \/ /\ work' = [work EXCEPT ![i] = "bad"]
          /\ runs' = [runs EXCEPT !.bad = @ \cup {Run(i)}]
          /\ UNCHANGED <<cached, uncached>>
    /\ UNCHANGED <<queue, deliveries, chunk, stats, seen, cancelled, killed>>

BeginReport(i) ==
    /\ work[i] \in {"ok", "bad"}
    /\ ReadStats(i)
    /\ UNCHANGED <<queue, deliveries, chunk, work, stats, cached, cancelled,
                   runs, uncached, killed>>

EndReport(i) ==
    /\ \/ /\ work[i] = "ok"
          /\ WriteStats(i, Completed(seen[i], i))
          /\ work' = [work EXCEPT ![i] = "fulfilled"]
       \/ /\ work[i] = "bad"
          /\ WriteStats(i, Failed(seen[i], i))
          /\ work' = [work EXCEPT ![i] = "rejected"]
    /\ UNCHANGED <<queue, deliveries, chunk, cached, cancelled, runs, uncached,
                   killed>>

\* The chunk's promises have all settled, and there are more chunks, whatever
\* became of this one.
ChunkSettled(m) ==
    /\ queue[m] = "processing"
    /\ \A i \in Current(m) : work[i] \in {"fulfilled", "rejected"}
More_Mut(m) ==                                  \* mutant: Promise.all
    /\ chunk[m] + ChunkSize < Len(ItemsOf[m])
    /\ \A i \in Current(m) : work[i] = "fulfilled"
More(m) == chunk[m] + ChunkSize < Len(ItemsOf[m])

NextChunk(m) ==
    /\ ChunkSettled(m) /\ More(m)
    /\ chunk' = [chunk EXCEPT ![m] = @ + ChunkSize]
    /\ StartItems(Current(m)')
    /\ UNCHANGED <<queue, deliveries, stats, seen, cached, cancelled, runs,
                   uncached, killed>>

\* The delivery is over: nothing of it is remembered for the next one.
Forget(m) ==
    /\ chunk' = [chunk EXCEPT ![m] = 0]
    /\ work' = [i \in Items |-> IF i \in Of(m) THEN "todo" ELSE work[i]]

\* processInChunks() counted no failure.
AllFulfilled_Mut(m) == \A i \in Current(m) : work[i] = "fulfilled"  \* mutant
AllFulfilled(m) == \A i \in Of(m) : work[i] = "fulfilled"

Ack(m) ==
    /\ ChunkSettled(m) /\ ~More(m)
    /\ AllFulfilled(m)
    /\ queue' = [queue EXCEPT ![m] = "acked"]
    /\ Forget(m)
    /\ UNCHANGED <<deliveries, stats, seen, cached, cancelled, runs, uncached,
                   killed>>

\* message.retry(), for the whole message; the platform gives up in the end.
GiveBack_Mut(m) == queue' = [queue EXCEPT ![m] = "processing"]      \* mutant
GiveBack(m) ==
    queue' = [queue EXCEPT ![m] =
                 IF deliveries[m] = MaxDeliveries THEN "dead" ELSE "ready"]

Retry(m) ==
    /\ ChunkSettled(m) /\ ~More(m)
    /\ ~AllFulfilled(m)
    /\ GiveBack(m)
    /\ Forget(m)
    /\ UNCHANGED <<deliveries, stats, seen, cached, cancelled, runs, uncached,
                   killed>>

\* The consumer's invocation is killed: what it had not written is lost.
Kill(m) ==
    /\ queue[m] = "processing"
    /\ killed' = killed \cup {m}
    /\ GiveBack(m)
    /\ Forget(m)
    /\ seen' = [u \in Messages \cup Items |-> IF u \in Of(m) THEN None ELSE seen[u]]
    /\ UNCHANGED <<deliveries, stats, cached, cancelled, runs, uncached>>

Item(i) == Compile(i) \/ BeginReport(i) \/ EndReport(i)
Consume(m) == Deliver(m) \/ NextChunk(m) \/ Ack(m) \/ Retry(m)

Next ==
    \/ \E m \in Messages :
          Send(m) \/ CountEnqueued(m) \/ CancelRequest(m) \/ Consume(m) \/ Kill(m)
    \/ \E i \in Items : Item(i)

Spec == Init /\ [][Next]_vars

\* The platform delivers what is in the queue, and invocations run.
FairSpec ==
    Spec /\ (\A m \in Messages : WF_vars(Consume(m)))
         /\ (\A i \in Items : WF_vars(Item(i)))

-----------------------------------------------------------------------------
Tried(i, kind) == \E d \in 1..MaxDeliveries : <<i, d>> \in kind

\* A message is acknowledged only when each of its items has compiled, in
\* whatever chunk, after whatever failures and kills of earlier deliveries.
AckedIsDone ==
    \A m \in Messages : queue[m] = "acked" => \A i \in Of(m) : Tried(i, runs.ok)

\* Updates that overwrite each other, fail or are killed make the statistics
\* too small and never too large: no more completed and failed compilations
\* than there were, no more pending ones than were ever sent.
NeverInflated ==
    /\ stats.pending <=
          Cardinality(UNION {Of(m) : m \in {n \in Messages : queue[n] # "unsent"}})
    /\ stats.completed <= Cardinality(runs.ok)
    /\ stats.failed <= Cardinality(runs.bad)
    /\ \A i \in Items :
          /\ stats.history[i] = "completed" => Tried(i, runs.ok)
          /\ stats.history[i] = "failed" => Tried(i, runs.bad)

\* A job that /queue/results finds completed, under a cache key, has had its
\* result cached first, unless that very put failed.  A job with pre-fetched
\* content has no key, and /queue/results answers "no_cache".
CompletedIsCached ==
    \A i \in Items \ PreFetched :
        stats.history[i] = "completed" => i \in cached \cup uncached

\* An item that fails does not keep the later chunks of its message from being
\* tried: when the message is given up, all of them have been, unless it was
\* killed half way.
NobodyStarved ==
    \A m \in Messages :
        queue[m] = "dead" /\ m \notin killed =>
            Of(m) \X (1..MaxDeliveries) \subseteq runs.ok \cup runs.bad

\* Every message that was sent is acknowledged or dead-lettered.
EveryMessageSettles ==
    \A m \in Messages :
        queue[m] = "ready" ~> queue[m] \in {"acked", "dead"}

\* "downstream queue processors can consult it and skip the job if still
\* pending": a message that is cancelled before it is first delivered is not
\* compiled.
CancelledNotCompiled ==
    [][\A m \in Messages :
          m \in cancelled /\ deliveries[m] = 0 => deliveries'[m] = 0]_vars
=============================================================================
