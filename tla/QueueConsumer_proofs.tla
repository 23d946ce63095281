------------------------ MODULE QueueConsumer_proofs ------------------------
(***************************************************************************)
(* What holds of asynchronous compilation for any messages, any items, any *)
(* chunk size and any number of deliveries: when a message may be          *)
(* acknowledged, what its dead-lettering says of its items, and what the   *)
(* statistics, written over each other by any number of invocations, are   *)
(* still worth.                                                            *)
(***************************************************************************)
EXTENDS QueueConsumer, FiniteSetTheorems, TLAPS

\* Where a message is, and how far the consumer has come with its items: the
\* chunks before the current one have settled, the ones after it wait.
Started(m, k) == k > chunk[m] /\ k <= chunk[m] + ChunkSize
MessageOK(m) ==
    /\ queue[m] = "unsent" => deliveries[m] = 0
    /\ queue[m] = "ready" => deliveries[m] < MaxDeliveries
    /\ queue[m] = "dead" => deliveries[m] = MaxDeliveries
    /\ queue[m] = "processing" => deliveries[m] > 0
    /\ queue[m] # "processing" =>
          chunk[m] = 0 /\ \A i \in Of(m) : work[i] = "todo"
    /\ queue[m] = "processing" =>
          \A k \in DOMAIN ItemsOf[m] :
              /\ k <= chunk[m] => work[ItemsOf[m][k]] \in {"fulfilled", "rejected"}
              /\ Started(m, k) => work[ItemsOf[m][k]] # "todo"
              /\ k > chunk[m] + ChunkSize => work[ItemsOf[m][k]] = "todo"

\* What the compilations of an item of message m say of its work: one for each
\* delivery that is over, unless one was cut short, and at most one for the
\* current delivery, made between "compiling" and the report of its outcome.
RunsOK(m, i) ==
    /\ work[i] \in {"ok", "fulfilled"} => <<i, deliveries[m]>> \in runs.ok
    /\ work[i] \in {"bad", "rejected"} => <<i, deliveries[m]>> \in runs.bad
    /\ \A d \in 1..MaxDeliveries :
          <<i, d>> \in runs.ok \cup runs.bad =>
              /\ d <= deliveries[m]
              /\ queue[m] = "processing" /\ d = deliveries[m] =>
                    work[i] \notin {"todo", "compiling"}
    /\ m \notin killed =>
          \A d \in 1..deliveries[m] :
              d < deliveries[m] \/ queue[m] # "processing" =>
                  <<i, d>> \in runs.ok \cup runs.bad
    /\ queue[m] = "acked" => Tried(i, runs.ok)

Owned == \A i \in Items : work[i] # "todo" => \E m \in Messages : i \in Of(m)

Flow ==
    /\ TypeOK /\ Owned
    /\ \A m \in Messages : MessageOK(m)
    /\ \A m \in Messages : \A i \in Of(m) : RunsOK(m, i)

\* The items of the messages whose producer is through with the statistics,
\* and the compilations whose consumer is, whatever it could write.
Counted ==
    UNION {Of(m) : m \in {n \in Messages : queue[n] # "unsent" /\ seen[n] = None}}
Reported(kind, state) ==
    {r \in kind : ~(work[r[1]] = state /\ r = Run(r[1]))}

\* A value of the statistics, the stored one or a copy, exceeds none of them.
Sound(s) ==
    /\ s.pending <= Cardinality(Counted)
    /\ s.completed <= Cardinality(Reported(runs.ok, "ok"))
    /\ s.failed <= Cardinality(Reported(runs.bad, "bad"))
    /\ \A i \in Items :
          /\ s.history[i] = "completed" => Tried(i, runs.ok)
          /\ s.history[i] = "failed" => Tried(i, runs.bad)
AllSound ==
    /\ Sound(stats)
    /\ \A u \in Messages \cup Items : seen[u] # None => Sound(seen[u])
    /\ \A m \in Messages : seen[m] # None => queue[m] # "unsent"

\* With a cache key, the result was put, or the put failed, before the
\* compilation counts.
Cached ==
    \A i \in Items \ PreFetched : Tried(i, runs.ok) => i \in cached \cup uncached

IInv == Flow /\ AllSound /\ Cached

-----------------------------------------------------------------------------
LEMMA BoundsOK ==
    /\ ChunkSize \in Nat /\ ChunkSize > 0
    /\ MaxDeliveries \in Nat /\ MaxDeliveries > 0
BY BoundsAssumption

\* An item belongs to one message, at one place.
LEMMA OfItems ==
    ASSUME NEW m \in Messages
    PROVE  /\ Len(ItemsOf[m]) \in Nat /\ Len(ItemsOf[m]) > 0
           /\ DOMAIN ItemsOf[m] = 1..Len(ItemsOf[m])
           /\ \A k \in DOMAIN ItemsOf[m] : ItemsOf[m][k] \in Items
           /\ Of(m) \subseteq Items
           /\ m \notin Items
  <1>1. ItemsOf[m] \in Seq(Items) /\ ItemsOf[m] # <<>> /\ m \notin Items
    BY ItemsAssumption
  <1> QED BY <1>1 DEF Of

LEMMA OneOwner ==
    ASSUME NEW m \in Messages, NEW n \in Messages, NEW i \in Of(m), i \in Of(n)
    PROVE  m = n
BY DistinctAssumption

\* The compilation that is recorded is the one of the message's delivery.
LEMMA RunOf ==
    ASSUME NEW m \in Messages, NEW i \in Of(m)
    PROVE  Run(i) = <<i, deliveries[m]>> /\ Run(i)' = <<i, deliveries'[m]>>
  <1>1. (CHOOSE n \in Messages : i \in Of(n)) = m
    BY OneOwner
  <1> QED BY <1>1 DEF Run

LEMMA InitTypeOK == Init => TypeOK
BY BoundsOK DEF Init, TypeOK, Stats, Verdicts, Work, Runs

LEMMA StatsType ==
    ASSUME NEW s \in Stats
    PROVE  /\ \A m \in Messages : Enqueued(s, m) \in Stats
           /\ \A i \in Items : Completed(s, i) \in Stats /\ Failed(s, i) \in Stats
  <1>1. ASSUME NEW m \in Messages PROVE Enqueued(s, m) \in Stats
    BY OfItems DEF Enqueued, Stats
  <1>2. ASSUME NEW i \in Items, NEW verdict \in {"completed", "failed"}
        PROVE  [s.history EXCEPT ![i] = verdict] \in [Items -> Verdicts]
    BY DEF Stats, Verdicts
  <1>3. s.pending \in Nat /\ s.completed \in Nat /\ s.failed \in Nat
    BY DEF Stats
  <1>4. Decrement(s.pending, 1) \in Nat
    BY <1>3 DEF Decrement
  <1>5. ASSUME NEW i \in Items PROVE Completed(s, i) \in Stats
    <2> DEFINE pending == Decrement(s.pending, 1)
               total == s.completed + 1
               history == [s.history EXCEPT ![i] = "completed"]
    <2>1. pending \in Nat /\ total \in Nat /\ history \in [Items -> Verdicts]
      BY <1>2, <1>3, <1>4
    <2>2. Completed(s, i) =
             [s EXCEPT !.pending = pending, !.completed = total, !.history = history]
      BY DEF Completed, Stats
    <2> HIDE DEF pending, total, history
    <2>3. [s EXCEPT !.pending = pending, !.completed = total, !.history = history]
             \in Stats
      BY <2>1 DEF Stats
    <2> QED BY <2>2, <2>3
  <1>6. ASSUME NEW i \in Items PROVE Failed(s, i) \in Stats
    <2> DEFINE pending == Decrement(s.pending, 1)
               total == s.failed + 1
               history == [s.history EXCEPT ![i] = "failed"]
    <2>1. pending \in Nat /\ total \in Nat /\ history \in [Items -> Verdicts]
      BY <1>2, <1>3, <1>4
    <2>2. Failed(s, i) =
             [s EXCEPT !.pending = pending, !.failed = total, !.history = history]
      BY DEF Failed, Stats
    <2> HIDE DEF pending, total, history
    <2>3. [s EXCEPT !.pending = pending, !.failed = total, !.history = history]
             \in Stats
      BY <2>1 DEF Stats
    <2> QED BY <2>2, <2>3
  <1> QED BY <1>1, <1>5, <1>6

LEMMA NextTypeOK == TypeOK /\ Owned /\ (\A m \in Messages : MessageOK(m)) /\ [Next]_vars => TypeOK'
  <1> SUFFICES ASSUME TypeOK, Owned, \A m \in Messages : MessageOK(m), [Next]_vars
               PROVE  TypeOK'
    OBVIOUS
  <1> USE DEF TypeOK
  <1>1. ASSUME NEW m \in Messages, Send(m) PROVE TypeOK'
    BY <1>1 DEF Send, ReadStats
  <1>2. ASSUME NEW m \in Messages, CountEnqueued(m) PROVE TypeOK'
    <2>1. seen[m] \in Stats
      BY <1>2 DEF CountEnqueued, WriteStats
    <2>2. stats' \in Stats
      BY <1>2, <2>1, StatsType DEF CountEnqueued, WriteStats
    <2> QED BY <1>2, <2>2 DEF CountEnqueued, WriteStats
  <1>3. ASSUME NEW m \in Messages, CancelRequest(m) PROVE TypeOK'
    BY <1>3 DEF CancelRequest
  <1>4. ASSUME NEW m \in Messages, Deliver(m) PROVE TypeOK'
    <2>1. deliveries[m] + 1 \in 0..MaxDeliveries
      BY <1>4, BoundsOK DEF Deliver, MessageOK
    <2> QED BY <1>4, <2>1 DEF Deliver, StartItems, Work
  <1>5. ASSUME NEW m \in Messages, NextChunk(m) PROVE TypeOK'
    BY <1>5, BoundsOK DEF NextChunk, StartItems, Work
  <1>6. ASSUME NEW m \in Messages, Ack(m) PROVE TypeOK'
    BY <1>6 DEF Ack, Forget, Work
  <1>7. ASSUME NEW m \in Messages, Retry(m) PROVE TypeOK'
    BY <1>7 DEF Retry, GiveBack, Forget, Work
  <1>8. ASSUME NEW m \in Messages, Kill(m) PROVE TypeOK'
    <2>1. seen' \in [Messages \cup Items -> Stats \cup {None}]
      BY <1>8 DEF Kill
    <2> QED BY <1>8, <2>1 DEF Kill, GiveBack, Forget, Work
  <1>9. ASSUME NEW i \in Items, Compile(i) PROVE TypeOK'
    <2>1. PICK m \in Messages : i \in Of(m)
      BY <1>9 DEF Compile, Owned
    <2>2. queue[m] = "processing"
      BY <1>9, <2>1 DEF Compile, MessageOK
    <2>3. Run(i) \in Runs
      BY <2>1, <2>2, RunOf DEF MessageOK, Runs
    <2>4. work' \in [Items -> Work] /\ cached' \subseteq Items /\ uncached' \subseteq Items
      BY <1>9 DEF Compile, Work
    <2>5. runs' \in [ok : SUBSET Runs, bad : SUBSET Runs]
      BY <1>9, <2>3 DEF Compile
    <2> QED BY <1>9, <2>4, <2>5 DEF Compile
  <1>10. ASSUME NEW i \in Items, BeginReport(i) PROVE TypeOK'
    BY <1>10 DEF BeginReport, ReadStats
  <1>11. ASSUME NEW i \in Items, EndReport(i) PROVE TypeOK'
    <2>1. seen[i] \in Stats
      BY <1>11 DEF EndReport, WriteStats
    <2>2. stats' \in Stats
      BY <1>11, <2>1, StatsType DEF EndReport, WriteStats
    <2> QED BY <1>11, <2>2 DEF EndReport, WriteStats, Work
  <1>12. CASE UNCHANGED vars
    BY <1>12 DEF vars
  <1> QED
    BY <1>1, <1>2, <1>3, <1>4, <1>5, <1>6, <1>7, <1>8, <1>9, <1>10, <1>11, <1>12
       DEF Next, Consume, Item

-----------------------------------------------------------------------------
\* The chunk a message is at: its items, by their places.
LEMMA CurrentOf ==
    ASSUME TypeOK, NEW m \in Messages
    PROVE  /\ \A k \in DOMAIN ItemsOf[m] : ItemsOf[m][k] \in Current(m) <=> Started(m, k)
           /\ Current(m) \subseteq Of(m)
  <1>1. chunk[m] \in Nat /\ ChunkSize \in Nat
    BY BoundsOK DEF TypeOK
  <1>2. \A k \in DOMAIN ItemsOf[m] :
           k \in (chunk[m] + 1)..(chunk[m] + ChunkSize) <=> Started(m, k)
    BY <1>1, OfItems DEF Started
  <1>3. Current(m) = {ItemsOf[m][k] : k \in {l \in DOMAIN ItemsOf[m] : Started(m, l)}}
    BY <1>2 DEF Current
  <1>4. \A k, l \in DOMAIN ItemsOf[m] : ItemsOf[m][k] = ItemsOf[m][l] => k = l
    BY DistinctAssumption
  <1> QED BY <1>3, <1>4 DEF Of

\* A step that leaves a message alone leaves what is true of it alone.
LEMMA Untouched ==
    ASSUME NEW m \in Messages, MessageOK(m), \A i \in Of(m) : RunsOK(m, i),
           UNCHANGED <<queue[m], deliveries[m], chunk[m]>>,
           \A i \in Of(m) : UNCHANGED work[i],
           \A i \in Of(m) : \A d :
               /\ <<i, d>> \in runs'.ok <=> <<i, d>> \in runs.ok
               /\ <<i, d>> \in runs'.bad <=> <<i, d>> \in runs.bad,
           m \in killed' <=> m \in killed
    PROVE  MessageOK(m)' /\ \A i \in Of(m) : RunsOK(m, i)'
  <1>1. MessageOK(m)'
    <2>1. \A k \in DOMAIN ItemsOf[m] : UNCHANGED work[ItemsOf[m][k]]
      BY DEF Of
    <2> QED BY <2>1 DEF MessageOK, Started
  <1>2. ASSUME NEW i \in Of(m) PROVE RunsOK(m, i)'
    <2>1. Tried(i, runs.ok) => Tried(i, runs.ok)'
      BY DEF Tried
    <2> QED BY <2>1 DEF RunsOK
  <1> QED BY <1>1, <1>2

LEMMA InitFlow == Init => Flow
  <1> SUFFICES ASSUME Init PROVE Flow
    OBVIOUS
  <1>1. \A i \in Items : work[i] = "todo"
    BY DEF Init
  <1>2. ASSUME NEW m \in Messages
        PROVE  MessageOK(m) /\ \A i \in Of(m) : RunsOK(m, i)
    <2>1. queue[m] = "unsent" /\ deliveries[m] = 0 /\ chunk[m] = 0
      BY DEF Init
    <2>2. runs.ok = {} /\ runs.bad = {}
      BY DEF Init
    <2>3. \A i \in Of(m) : work[i] = "todo"
      BY <1>1, OfItems
    <2> QED BY <2>1, <2>2, <2>3 DEF MessageOK, RunsOK
  <1> QED BY <1>1, <1>2, InitTypeOK DEF Flow, Owned

LEMMA SendFlow ==
    ASSUME Flow, TypeOK', NEW m \in Messages, Send(m)
    PROVE  Flow'
  <1>1. UNCHANGED <<deliveries, chunk, work, runs, killed>>
    BY DEF Send
  <1>2. queue[m] = "unsent" /\ queue'[m] = "ready"
    BY DEF Send, Flow, TypeOK
  <1>3. \A n \in Messages \ {m} : UNCHANGED queue[n]
    BY DEF Send, Flow, TypeOK
  <1>4. MessageOK(m) /\ \A i \in Of(m) : RunsOK(m, i)
    BY DEF Flow
  <1>5. MessageOK(m)'
    BY <1>1, <1>2, <1>4, BoundsOK DEF MessageOK
  <1>6. ASSUME NEW i \in Of(m) PROVE RunsOK(m, i)'
    BY <1>1, <1>2, <1>4 DEF RunsOK
  <1>7. ASSUME NEW n \in Messages \ {m}
        PROVE  MessageOK(n)' /\ \A i \in Of(n) : RunsOK(n, i)'
    BY <1>1, <1>3, Untouched DEF Flow
  <1> QED BY <1>1, <1>5, <1>6, <1>7 DEF Flow, Owned

\* The statistics are no part of it.
LEMMA AsideFlow ==
    ASSUME Flow, TypeOK', UNCHANGED <<queue, deliveries, chunk, work, runs, killed>>
    PROVE  Flow'
  <1>1. ASSUME NEW n \in Messages
        PROVE  MessageOK(n)' /\ \A i \in Of(n) : RunsOK(n, i)'
    BY Untouched DEF Flow
  <1> QED BY <1>1 DEF Flow, Owned

LEMMA DeliverFlow ==
    ASSUME Flow, TypeOK', NEW m \in Messages, Deliver(m)
    PROVE  Flow'
  <1>1. /\ queue[m] = "ready" /\ queue'[m] = "processing"
        /\ deliveries'[m] = deliveries[m] + 1 /\ deliveries[m] \in Nat
        /\ chunk[m] = 0 /\ UNCHANGED <<chunk, runs, killed>>
        /\ \A i \in Of(m) : work[i] = "todo"
    BY DEF Deliver, Flow, TypeOK, MessageOK
  <1>2. \A n \in Messages \ {m} : UNCHANGED <<queue[n], deliveries[n]>>
    BY DEF Deliver, Flow, TypeOK
  <1>3. \A i \in Items : work'[i] = IF i \in Current(m) THEN "compiling" ELSE work[i]
    BY DEF Deliver, StartItems
  <1>4. Current(m) \subseteq Of(m)
    BY CurrentOf DEF Flow
  <1>5. MessageOK(m)'
    <2>1. ASSUME NEW k \in DOMAIN ItemsOf[m]
          PROVE  /\ ~(k <= chunk[m])
                 /\ Started(m, k) => work'[ItemsOf[m][k]] # "todo"
                 /\ k > chunk[m] + ChunkSize => work'[ItemsOf[m][k]] = "todo"
      <3>1. ItemsOf[m][k] \in Current(m) <=> Started(m, k)
        BY CurrentOf DEF Flow
      <3>2. k \in Nat /\ k > 0 /\ ItemsOf[m][k] \in Items /\ ItemsOf[m][k] \in Of(m)
        BY OfItems DEF Of
      <3> QED BY <1>1, <1>3, <3>1, <3>2, BoundsOK DEF Started
    <2> QED BY <1>1, <2>1 DEF MessageOK, Started
  <1>6. ASSUME NEW i \in Of(m) PROVE RunsOK(m, i)'
    <2>1. i \in Items /\ work[i] = "todo" /\ work'[i] \in {"todo", "compiling"}
      BY <1>1, <1>3, OfItems
    <2>2. RunsOK(m, i)
      BY DEF Flow
    <2>3. \A d \in 1..MaxDeliveries :
             <<i, d>> \in runs.ok \cup runs.bad => d <= deliveries[m]
      BY <2>2 DEF RunsOK
    <2>4. m \notin killed =>
             \A d \in 1..deliveries[m] : <<i, d>> \in runs.ok \cup runs.bad
      BY <1>1, <2>2 DEF RunsOK
    <2> QED BY <1>1, <2>1, <2>3, <2>4 DEF RunsOK
  <1>7. ASSUME NEW n \in Messages \ {m}
        PROVE  MessageOK(n)' /\ \A i \in Of(n) : RunsOK(n, i)'
    <2>1. \A i \in Of(n) : UNCHANGED work[i]
      BY <1>3, <1>4, OneOwner, OfItems
    <2> QED BY <1>1, <1>2, <2>1, Untouched DEF Flow
  <1>8. Owned'
    BY <1>3, <1>4 DEF Flow, Owned
  <1> QED BY <1>5, <1>6, <1>7, <1>8 DEF Flow

\* The next chunk has waited, and the one before it has settled.
LEMMA NextChunkFlow ==
    ASSUME Flow, TypeOK', NEW m \in Messages, NextChunk(m)
    PROVE  Flow' /\ \A i \in Items : work'[i] = work[i] \/ work[i] = "todo"
  <1>1. /\ queue[m] = "processing" /\ chunk[m] \in Nat
        /\ chunk'[m] = chunk[m] + ChunkSize
        /\ UNCHANGED <<queue, deliveries, runs, killed>>
    BY DEF NextChunk, ChunkSettled, Flow, TypeOK
  <1>2. \A n \in Messages \ {m} : UNCHANGED chunk[n]
    BY DEF NextChunk, Flow, TypeOK
  <1>3. \A i \in Items : work'[i] = IF i \in Current(m)' THEN "compiling" ELSE work[i]
    BY DEF NextChunk, StartItems
  <1>4. /\ \A k \in DOMAIN ItemsOf[m] :
              ItemsOf[m][k] \in Current(m)' <=> Started(m, k)'
        /\ Current(m)' \subseteq Of(m)
    <2>1. \A k \in DOMAIN ItemsOf[m] :
             k \in (chunk'[m] + 1)..(chunk'[m] + ChunkSize) <=> Started(m, k)'
      BY <1>1, OfItems, BoundsOK DEF Started
    <2>2. Current(m)' = {ItemsOf[m][k] : k \in {l \in DOMAIN ItemsOf[m] : Started(m, l)'}}
      BY <2>1 DEF Current
    <2>3. \A k, l \in DOMAIN ItemsOf[m] : ItemsOf[m][k] = ItemsOf[m][l] => k = l
      BY DistinctAssumption
    <2> QED BY <2>2, <2>3 DEF Of
  <1>5. ASSUME NEW k \in DOMAIN ItemsOf[m]
        PROVE  /\ k <= chunk'[m] =>
                      /\ work[ItemsOf[m][k]] \in {"fulfilled", "rejected"}
                      /\ ItemsOf[m][k] \notin Current(m)'
               /\ k > chunk'[m] => work[ItemsOf[m][k]] = "todo"
               /\ k \in Nat /\ ItemsOf[m][k] \in Items
    <2>1. k \in Nat /\ ItemsOf[m][k] \in Items
      BY OfItems
    <2>2. MessageOK(m)
      BY DEF Flow
    <2>3. Started(m, k) => work[ItemsOf[m][k]] \in {"fulfilled", "rejected"}
      BY CurrentOf DEF NextChunk, ChunkSettled, Flow
    <2>4. Started(m, k)' => k > chunk'[m]
      BY DEF Started
    <2> QED BY <1>1, <1>4, <2>1, <2>2, <2>3, <2>4, BoundsOK DEF MessageOK, Started
  <1>6. ASSUME NEW i \in Items, work'[i] # work[i]
        PROVE  i \in Of(m) /\ work[i] = "todo" /\ work'[i] = "compiling"
    <2>1. i \in Current(m)' /\ work'[i] = "compiling"
      BY <1>3, <1>6
    <2>2. PICK k \in DOMAIN ItemsOf[m] : i = ItemsOf[m][k]
      BY <1>4, <2>1 DEF Of
    <2> QED BY <1>1, <1>4, <1>5, <2>1, <2>2, BoundsOK DEF Started
  <1>7. MessageOK(m)'
    <2>1. ASSUME NEW k \in DOMAIN ItemsOf[m]
          PROVE  /\ k <= chunk'[m] => work'[ItemsOf[m][k]] \in {"fulfilled", "rejected"}
                 /\ Started(m, k)' => work'[ItemsOf[m][k]] # "todo"
                 /\ k > chunk'[m] + ChunkSize => work'[ItemsOf[m][k]] = "todo"
      BY <1>1, <1>3, <1>4, <1>5, BoundsOK DEF Started
    <2> QED BY <1>1, <2>1 DEF Flow, MessageOK
  <1>8. ASSUME NEW i \in Of(m) PROVE RunsOK(m, i)'
    <2>1. RunsOK(m, i) /\ i \in Items
      BY OfItems DEF Flow
    <2>2. work'[i] = work[i] \/ (work[i] = "todo" /\ work'[i] = "compiling")
      BY <1>6, <2>1
    <2> QED BY <1>1, <2>1, <2>2 DEF RunsOK, Tried
  <1>9. ASSUME NEW n \in Messages \ {m}
        PROVE  MessageOK(n)' /\ \A i \in Of(n) : RunsOK(n, i)'
    <2>1. \A i \in Of(n) : UNCHANGED work[i]
      BY <1>6, OneOwner, OfItems
    <2> QED BY <1>1, <1>2, <2>1, Untouched DEF Flow
  <1>10. Owned'
    BY <1>6 DEF Flow, Owned
  <1> QED BY <1>6, <1>7, <1>8, <1>9, <1>10 DEF Flow

\* A delivery that is over leaves its runs behind: all of them, unless it was
\* cut short.
LEMMA OverFlow ==
    ASSUME Flow, TypeOK', NEW m \in Messages, Forget(m),
           queue[m] = "processing", queue'[m] \in {"ready", "dead", "acked"},
           queue'[m] = "ready" => deliveries[m] < MaxDeliveries,
           queue'[m] = "dead" => deliveries[m] = MaxDeliveries,
           queue'[m] = "acked" => \A i \in Of(m) : work[i] = "fulfilled",
           m \notin killed' =>
               m \notin killed /\ \A i \in Of(m) : work[i] \in {"fulfilled", "rejected"},
           \A n \in Messages \ {m} :
               UNCHANGED queue[n] /\ (n \in killed' <=> n \in killed),
           UNCHANGED <<deliveries, runs>>
    PROVE  Flow'
  <1>1. /\ chunk'[m] = 0 /\ \A n \in Messages \ {m} : UNCHANGED chunk[n]
        /\ \A i \in Of(m) : work'[i] = "todo"
        /\ \A i \in Items \ Of(m) : UNCHANGED work[i]
    BY OfItems DEF Forget, Flow, TypeOK
  <1>2. MessageOK(m)'
    BY <1>1 DEF MessageOK
  <1>3. ASSUME NEW i \in Of(m) PROVE RunsOK(m, i)'
    <2>1. RunsOK(m, i) /\ work'[i] = "todo"
      BY <1>1 DEF Flow
    <2>2. deliveries[m] \in 1..MaxDeliveries
      BY DEF Flow, TypeOK, MessageOK
    <2>3. work[i] \in {"fulfilled", "rejected"} =>
             <<i, deliveries[m]>> \in runs.ok \cup runs.bad
      BY <2>1 DEF RunsOK
    <2>4. m \notin killed' =>
             \A d \in 1..deliveries[m] : <<i, d>> \in runs.ok \cup runs.bad
      BY <2>1, <2>2, <2>3 DEF RunsOK
    <2>5. queue'[m] = "acked" => Tried(i, runs.ok)
      BY <2>1, <2>2 DEF RunsOK, Tried
    <2>6. \A d \in 1..MaxDeliveries :
             <<i, d>> \in runs.ok \cup runs.bad => d <= deliveries[m]
      BY <2>1 DEF RunsOK
    <2> QED BY <2>1, <2>4, <2>5, <2>6 DEF RunsOK, Tried
  <1>4. ASSUME NEW n \in Messages \ {m}
        PROVE  MessageOK(n)' /\ \A i \in Of(n) : RunsOK(n, i)'
    <2>1. \A i \in Of(n) : UNCHANGED work[i]
      BY <1>1, OneOwner, OfItems
    <2> QED BY <1>1, <2>1, Untouched DEF Flow
  <1>5. Owned'
    BY <1>1 DEF Flow, Owned
  <1> QED BY <1>2, <1>3, <1>4, <1>5 DEF Flow

\* When the chunk has settled and no other follows, every item has.
LEMMA AllSettled ==
    ASSUME Flow, NEW m \in Messages, ChunkSettled(m), ~More(m)
    PROVE  \A i \in Of(m) : work[i] \in {"fulfilled", "rejected"}
  <1>1. ASSUME NEW k \in DOMAIN ItemsOf[m]
        PROVE  work[ItemsOf[m][k]] \in {"fulfilled", "rejected"}
    <2>1. k \in Nat /\ chunk[m] \in Nat /\ k <= chunk[m] + ChunkSize
      BY OfItems, BoundsOK DEF More, Flow, TypeOK
    <2>2. Started(m, k) => work[ItemsOf[m][k]] \in {"fulfilled", "rejected"}
      BY CurrentOf DEF ChunkSettled, Flow
    <2>3. k <= chunk[m] => work[ItemsOf[m][k]] \in {"fulfilled", "rejected"}
      BY DEF Flow, MessageOK, ChunkSettled
    <2> QED BY <2>1, <2>2, <2>3 DEF Started
  <1> QED BY <1>1 DEF Of

LEMMA AckFlow == ASSUME Flow, TypeOK', NEW m \in Messages, Ack(m) PROVE Flow'
  <1>1. /\ queue[m] = "processing" /\ queue'[m] = "acked"
        /\ \A n \in Messages \ {m} : UNCHANGED queue[n]
        /\ UNCHANGED <<deliveries, runs, killed>> /\ Forget(m)
    BY DEF Ack, ChunkSettled, Flow, TypeOK
  <1>2. \A i \in Of(m) : work[i] = "fulfilled"
    BY DEF Ack, AllFulfilled
  <1> QED BY <1>1, <1>2, OverFlow

LEMMA RetryFlow == ASSUME Flow, TypeOK', NEW m \in Messages, Retry(m) PROVE Flow'
  <1>1. /\ queue[m] = "processing" /\ deliveries[m] \in 0..MaxDeliveries
        /\ queue'[m] = IF deliveries[m] = MaxDeliveries THEN "dead" ELSE "ready"
        /\ \A n \in Messages \ {m} : UNCHANGED queue[n]
        /\ UNCHANGED <<deliveries, runs, killed>> /\ Forget(m)
    BY DEF Retry, GiveBack, ChunkSettled, Flow, TypeOK
  <1>2. \A i \in Of(m) : work[i] \in {"fulfilled", "rejected"}
    BY AllSettled DEF Retry
  <1> QED BY <1>1, <1>2, OverFlow, BoundsOK

LEMMA KillFlow == ASSUME Flow, TypeOK', NEW m \in Messages, Kill(m) PROVE Flow'
  <1>1. /\ queue[m] = "processing" /\ deliveries[m] \in 0..MaxDeliveries
        /\ queue'[m] = IF deliveries[m] = MaxDeliveries THEN "dead" ELSE "ready"
        /\ \A n \in Messages \ {m} : UNCHANGED queue[n]
        /\ killed' = killed \cup {m}
        /\ UNCHANGED <<deliveries, runs>> /\ Forget(m)
    BY DEF Kill, GiveBack, Flow, TypeOK
  <1> QED BY <1>1, OverFlow, BoundsOK

\* A step of one item of a message that is being processed.
LEMMA ItemFlow ==
    ASSUME Flow, TypeOK', NEW m \in Messages, NEW i \in Of(m),
           queue[m] = "processing",
           UNCHANGED <<queue, deliveries, chunk, killed>>,
           \A j \in Items \ {i} : UNCHANGED work[j],
           \A j \in Items \ {i} : \A d :
               /\ <<j, d>> \in runs'.ok <=> <<j, d>> \in runs.ok
               /\ <<j, d>> \in runs'.bad <=> <<j, d>> \in runs.bad,
           work[i] \in {"compiling", "ok", "bad"},
           work'[i] \in {"ok", "bad", "fulfilled", "rejected"},
           RunsOK(m, i)'
    PROVE  Flow'
  <1>1. i \in Items
    BY OfItems
  <1>2. MessageOK(m)'
    <2>1. MessageOK(m)
      BY DEF Flow
    <2>2. PICK k \in DOMAIN ItemsOf[m] : i = ItemsOf[m][k]
      BY DEF Of
    <2>3. Started(m, k) /\ k \in Nat
      <3>1. k \in Nat /\ chunk[m] \in Nat
        BY OfItems DEF Flow, TypeOK
      <3>2. ~(k <= chunk[m]) /\ ~(k > chunk[m] + ChunkSize)
        BY <2>1, <2>2 DEF MessageOK
      <3> QED BY <3>1, <3>2, BoundsOK DEF Started
    <2>4. \A l \in DOMAIN ItemsOf[m] : l # k => UNCHANGED work[ItemsOf[m][l]]
      BY <2>2, DistinctAssumption, OfItems
    <2> QED BY <2>1, <2>2, <2>3, <2>4, BoundsOK DEF MessageOK, Started, Flow, TypeOK
  <1>3. ASSUME NEW j \in Of(m) PROVE RunsOK(m, j)'
    <2>1. CASE j = i
      BY <2>1
    <2>2. CASE j # i
      <3>1. /\ RunsOK(m, j) /\ UNCHANGED work[j]
            /\ \A d : /\ <<j, d>> \in runs'.ok <=> <<j, d>> \in runs.ok
                      /\ <<j, d>> \in runs'.bad <=> <<j, d>> \in runs.bad
        BY <2>2, OfItems DEF Flow
      <3> QED BY <3>1 DEF RunsOK, Tried
    <2> QED BY <2>1, <2>2
  <1>4. ASSUME NEW n \in Messages \ {m}
        PROVE  MessageOK(n)' /\ \A j \in Of(n) : RunsOK(n, j)'
    <2>1. \A j \in Of(n) : j \in Items \ {i}
      BY OneOwner, OfItems
    <2> QED BY <2>1, Untouched DEF Flow
  <1>5. Owned'
    BY DEF Flow, Owned
  <1> QED BY <1>2, <1>3, <1>4, <1>5 DEF Flow

\* A compilation is the first of its item in this delivery.
LEMMA CompileFlow ==
    ASSUME Flow, TypeOK', NEW i \in Items, Compile(i)
    PROVE  /\ Flow'
           /\ Run(i) \notin runs.ok \cup runs.bad /\ Run(i)' = Run(i)
           /\ Run(i)[1] = i /\ Tried(i, {Run(i)})
  <1>1. PICK m \in Messages : i \in Of(m)
    BY DEF Flow, Owned, Compile
  <1>2. MessageOK(m) /\ RunsOK(m, i) /\ work[i] = "compiling"
    BY <1>1 DEF Flow, Compile
  <1>3. UNCHANGED <<queue, deliveries, chunk, killed>>
    BY DEF Compile
  <1>4. queue[m] = "processing" /\ deliveries[m] \in 1..MaxDeliveries
    BY <1>1, <1>2 DEF MessageOK, Flow, TypeOK
  <1>5. Run(i) = <<i, deliveries[m]>> /\ Run(i)' = <<i, deliveries[m]>>
    BY <1>1, <1>3, RunOf
  <1>6. Run(i) \notin runs.ok \cup runs.bad
    BY <1>2, <1>4, <1>5 DEF RunsOK
  <1>7. \/ /\ work' = [work EXCEPT ![i] = "ok"]
           /\ runs'.ok = runs.ok \cup {<<i, deliveries[m]>>} /\ runs'.bad = runs.bad
        \/ /\ work' = [work EXCEPT ![i] = "bad"]
           /\ runs'.bad = runs.bad \cup {<<i, deliveries[m]>>} /\ runs'.ok = runs.ok
    BY <1>5 DEF Compile, Flow, TypeOK
  <1>8. RunsOK(m, i)'
    <2>1. work'[i] \in {"ok", "bad"}
      BY <1>7 DEF Flow, TypeOK
    <2>2. CASE work'[i] = "ok"
      <3>1. runs'.ok = runs.ok \cup {<<i, deliveries[m]>>} /\ runs'.bad = runs.bad
        BY <1>7, <2>2 DEF Flow, TypeOK
      <3> QED BY <1>2, <1>3, <1>4, <2>2, <3>1 DEF RunsOK, Tried
    <2>3. CASE work'[i] = "bad"
      <3>1. runs'.bad = runs.bad \cup {<<i, deliveries[m]>>} /\ runs'.ok = runs.ok
        BY <1>7, <2>3 DEF Flow, TypeOK
      <3> QED BY <1>2, <1>3, <1>4, <2>3, <3>1 DEF RunsOK, Tried
    <2> QED BY <2>1, <2>2, <2>3
  <1>9. Flow'
    <2>1. /\ \A j \in Items \ {i} : UNCHANGED work[j]
          /\ work'[i] \in {"ok", "bad"}
      BY <1>7 DEF Flow, TypeOK
    <2>2. \A j \in Items \ {i} : \A d :
             /\ <<j, d>> \in runs'.ok <=> <<j, d>> \in runs.ok
             /\ <<j, d>> \in runs'.bad <=> <<j, d>> \in runs.bad
      BY <1>7
    <2> QED BY <1>1, <1>2, <1>3, <1>4, <1>8, <2>1, <2>2, ItemFlow
  <1>10. Tried(i, {Run(i)})
    BY <1>4, <1>5 DEF Tried
  <1> QED BY <1>5, <1>6, <1>9, <1>10

LEMMA EndReportFlow ==
    ASSUME Flow, TypeOK', NEW i \in Items, EndReport(i)
    PROVE  /\ Flow'
           /\ work[i] = "ok" => Run(i) \in runs.ok
           /\ work[i] = "bad" => Run(i) \in runs.bad
           /\ Run(i)' = Run(i) /\ Run(i)[1] = i
  <1>1. PICK m \in Messages : i \in Of(m)
    BY DEF Flow, Owned, EndReport
  <1>2. MessageOK(m) /\ RunsOK(m, i) /\ work[i] \in {"ok", "bad"}
    BY <1>1 DEF Flow, EndReport
  <1>3. UNCHANGED <<queue, deliveries, chunk, runs, killed>>
    BY DEF EndReport
  <1>4. queue[m] = "processing" /\ Run(i) = <<i, deliveries[m]>>
    BY <1>1, <1>2, RunOf DEF MessageOK
  <1>5. /\ work[i] = "ok" => work'[i] = "fulfilled"
        /\ work[i] = "bad" => work'[i] = "rejected"
        /\ \A j \in Items \ {i} : UNCHANGED work[j]
    BY DEF EndReport, Flow, TypeOK
  <1>6. RunsOK(m, i)'
    BY <1>2, <1>3, <1>4, <1>5 DEF RunsOK, Tried
  <1>7. Flow'
    BY <1>1, <1>2, <1>3, <1>4, <1>5, <1>6, ItemFlow
  <1> QED BY <1>1, <1>2, <1>3, <1>4, <1>7, RunOf DEF RunsOK

-----------------------------------------------------------------------------
\* A message asks for as many items as it has places.
LEMMA Places ==
    ASSUME NEW m \in Messages
    PROVE  IsFiniteSet(Of(m)) /\ Cardinality(Of(m)) = Len(ItemsOf[m])
  <1> DEFINE f == [k \in 1..Len(ItemsOf[m]) |-> ItemsOf[m][k]]
  <1>1. DOMAIN ItemsOf[m] = 1..Len(ItemsOf[m]) /\ Len(ItemsOf[m]) \in Nat
    BY OfItems
  <1>2. f \in Bijection(1..Len(ItemsOf[m]), Of(m))
    <2>1. f \in [1..Len(ItemsOf[m]) -> Of(m)]
      BY <1>1 DEF Of
    <2>2. \A k, l \in 1..Len(ItemsOf[m]) : f[k] = f[l] => k = l
      BY <1>1, DistinctAssumption
    <2>3. \A i \in Of(m) : \E k \in 1..Len(ItemsOf[m]) : f[k] = i
      BY <1>1 DEF Of
    <2> QED BY <2>1, <2>2, <2>3 DEF Bijection, Injection, Surjection, IsInjective
  <1>3. IsFiniteSet(1..Len(ItemsOf[m])) /\ Cardinality(1..Len(ItemsOf[m])) = Len(ItemsOf[m])
    BY <1>1, FS_Interval
  <1> QED BY <1>2, <1>3, FS_Bijection DEF ExistsBijection

CountsFinite ==
    /\ IsFiniteSet(Counted)
    /\ IsFiniteSet(Reported(runs.ok, "ok")) /\ IsFiniteSet(Reported(runs.bad, "bad"))
    /\ IsFiniteSet(runs.ok) /\ IsFiniteSet(runs.bad)

LEMMA FiniteCounts == TypeOK => CountsFinite
  <1> SUFFICES ASSUME TypeOK PROVE CountsFinite
    OBVIOUS
  <1>1. Counted \subseteq Items /\ IsFiniteSet(Items)
    BY OfItems, ItemsAssumption DEF Counted
  <1>2. IsFiniteSet(1..MaxDeliveries)
    BY FS_Interval, BoundsOK
  <1>3. IsFiniteSet(Runs)
    BY <1>1, <1>2, FS_Product DEF Runs
  <1>4. runs.ok \subseteq Runs /\ runs.bad \subseteq Runs
    BY DEF TypeOK
  <1>5. /\ Reported(runs.ok, "ok") \subseteq Runs
        /\ Reported(runs.bad, "bad") \subseteq Runs
    BY <1>4 DEF Reported
  <1>6. \A S \in SUBSET Runs : IsFiniteSet(S)
    BY <1>3, FS_Subset
  <1>7. IsFiniteSet(Counted)
    BY <1>1, FS_Subset
  <1> QED BY <1>4, <1>5, <1>6, <1>7 DEF CountsFinite

\* What is sound stays sound while the counts grow.
CountsGrow ==
    /\ Counted \subseteq Counted'
    /\ Reported(runs.ok, "ok") \subseteq Reported(runs.ok, "ok")'
    /\ Reported(runs.bad, "bad") \subseteq Reported(runs.bad, "bad")'
    /\ runs.ok \subseteq runs'.ok /\ runs.bad \subseteq runs'.bad

LEMMA Larger ==
    ASSUME NEW S, NEW T, IsFiniteSet(T), S \subseteq T
    PROVE  /\ Cardinality(S) \in Nat /\ Cardinality(T) \in Nat
           /\ Cardinality(S) <= Cardinality(T)
BY FS_Subset, FS_CardinalityType

LEMMA SoundStays ==
    ASSUME TypeOK, TypeOK', CountsGrow, NEW s \in Stats, Sound(s)
    PROVE  Sound(s)'
  <1>1. CountsFinite'
    BY FiniteCounts, PTL
  <1>2. /\ Cardinality(Counted) <= Cardinality(Counted')
        /\ Cardinality(Counted) \in Nat /\ Cardinality(Counted') \in Nat
    BY <1>1, Larger DEF CountsGrow, CountsFinite
  <1>3. /\ Cardinality(Reported(runs.ok, "ok")) <= Cardinality(Reported(runs.ok, "ok")')
        /\ Cardinality(Reported(runs.ok, "ok")) \in Nat
        /\ Cardinality(Reported(runs.ok, "ok")') \in Nat
    BY <1>1, Larger DEF CountsGrow, CountsFinite
  <1>4. /\ Cardinality(Reported(runs.bad, "bad")) <= Cardinality(Reported(runs.bad, "bad")')
        /\ Cardinality(Reported(runs.bad, "bad")) \in Nat
        /\ Cardinality(Reported(runs.bad, "bad")') \in Nat
    BY <1>1, Larger DEF CountsGrow, CountsFinite
  <1>5. \A i \in Items : /\ Tried(i, runs.ok) => Tried(i, runs.ok)'
                         /\ Tried(i, runs.bad) => Tried(i, runs.bad)'
    BY DEF CountsGrow, Tried
  <1>6. s.pending \in Nat /\ s.completed \in Nat /\ s.failed \in Nat
    BY DEF Stats
  <1> QED BY <1>2, <1>3, <1>4, <1>5, <1>6 DEF Sound

\* A step that does not touch the stored value, and gives copies of it or
\* drops them.
LEMMA AsideSound ==
    ASSUME TypeOK, TypeOK', AllSound, CountsGrow, UNCHANGED stats,
           \A u \in Messages \cup Items : seen'[u] \in {seen[u], None, stats},
           \A m \in Messages : seen'[m] # None => queue'[m] # "unsent"
    PROVE  AllSound'
  <1>1. Sound(stats)'
    BY SoundStays DEF AllSound, TypeOK
  <1>2. ASSUME NEW u \in Messages \cup Items, seen'[u] # None PROVE Sound(seen[u])'
    <2>1. CASE seen'[u] = stats
      BY <1>1, <2>1
    <2>2. CASE seen'[u] = seen[u]
      <3>1. seen[u] \in Stats /\ Sound(seen[u])
        BY <1>2, <2>2 DEF AllSound, TypeOK
      <3>2. ASSUME NEW s \in Stats, Sound(s), s = seen'[u] PROVE Sound(seen[u])'
        BY <3>2, SoundStays DEF Sound
      <3> QED BY <2>2, <3>1, <3>2
    <2> QED BY <1>2, <2>1, <2>2
  <1> QED BY <1>1, <1>2 DEF AllSound

\* A step that writes an update of a copy, or fails to.
LEMMA WriteSound ==
    ASSUME TypeOK, TypeOK', AllSound, CountsGrow,
           NEW u \in Messages \cup Items, NEW s \in Stats, WriteStats(u, s),
           Sound(s)', UNCHANGED queue
    PROVE  AllSound'
  <1>1. Sound(stats)'
    <2>1. CASE stats' = s
      BY <2>1 DEF Sound
    <2>2. CASE stats' = stats
      <3>1. ASSUME NEW t \in Stats, Sound(t), t = stats' PROVE Sound(stats)'
        BY <3>1, SoundStays DEF Sound
      <3> QED BY <2>2, <3>1 DEF AllSound, TypeOK
    <2> QED BY <2>1, <2>2 DEF WriteStats
  <1>2. ASSUME NEW v \in Messages \cup Items, seen'[v] # None PROVE Sound(seen[v])'
    <2>1. seen'[v] = seen[v]
      BY <1>2 DEF WriteStats, TypeOK
    <2>2. seen[v] \in Stats /\ Sound(seen[v])
      BY <1>2, <2>1 DEF AllSound, TypeOK
    <2>3. ASSUME NEW t \in Stats, Sound(t), t = seen'[v] PROVE Sound(seen[v])'
      BY <2>3, SoundStays DEF Sound
    <2> QED BY <2>1, <2>2, <2>3
  <1>3. \A m \in Messages : seen'[m] # None => queue'[m] # "unsent"
    BY DEF WriteStats, TypeOK, AllSound
  <1> QED BY <1>1, <1>2, <1>3 DEF AllSound

\* A compilation that was reported stays reported when work goes back to the
\* start or on to "compiling".
LEMMA ReportedGrows ==
    ASSUME Flow, UNCHANGED runs,
           \A i \in Items : work'[i] = work[i] \/ work'[i] \notin {"ok", "bad"},
           \A i \in Items : work[i] \in {"ok", "bad"} => Run(i)' = Run(i)
    PROVE  /\ Reported(runs.ok, "ok") \subseteq Reported(runs.ok, "ok")'
           /\ Reported(runs.bad, "bad") \subseteq Reported(runs.bad, "bad")'
  <1>1. ASSUME NEW r \in runs.ok \cup runs.bad PROVE r[1] \in Items
    BY DEF Flow, TypeOK, Runs
  <1>2. ASSUME NEW r \in Reported(runs.ok, "ok") PROVE r \in Reported(runs.ok, "ok")'
    BY <1>1 DEF Reported
  <1>3. ASSUME NEW r \in Reported(runs.bad, "bad") PROVE r \in Reported(runs.bad, "bad")'
    BY <1>1 DEF Reported
  <1> QED BY <1>2, <1>3

\* Work under way belongs to a message that is being processed.
LEMMA AtWork ==
    ASSUME Flow, NEW i \in Items, work[i] # "todo"
    PROVE  \E m \in Messages : i \in Of(m) /\ queue[m] = "processing"
  <1>1. PICK m \in Messages : i \in Of(m)
    BY DEF Flow, Owned
  <1> QED BY <1>1 DEF Flow, MessageOK

LEMMA SameRuns ==
    ASSUME Flow, UNCHANGED deliveries
    PROVE  \A i \in Items : work[i] \in {"ok", "bad"} => Run(i)' = Run(i)
BY DEF Run

LEMMA SendSound ==
    ASSUME Flow, TypeOK', AllSound, NEW m \in Messages, Send(m)
    PROVE  AllSound'
  <1>1. UNCHANGED <<deliveries, work, stats, runs>>
    BY DEF Send
  <1>2. /\ queue[m] = "unsent" /\ queue'[m] = "ready" /\ seen'[m] = stats
        /\ \A n \in Messages \ {m} : UNCHANGED <<queue[n], seen[n]>>
        /\ \A u \in (Messages \cup Items) \ {m} : UNCHANGED seen[u]
    BY DEF Send, ReadStats, Flow, TypeOK
  <1>3. CountsGrow
    <2>1. \A n \in Messages : queue[n] # "unsent" /\ seen[n] = None =>
                              queue'[n] # "unsent" /\ seen'[n] = None
      BY <1>2
    <2>2. Counted \subseteq Counted'
      BY <2>1 DEF Counted
    <2> QED BY <1>1, <2>2, ReportedGrows, SameRuns DEF CountsGrow
  <1>4. \A n \in Messages : seen'[n] # None => queue'[n] # "unsent"
    BY <1>2 DEF AllSound
  <1> QED BY <1>1, <1>2, <1>3, <1>4, AsideSound DEF Flow

LEMMA CountSound ==
    ASSUME Flow, TypeOK', AllSound, NEW m \in Messages, CountEnqueued(m)
    PROVE  AllSound'
  <1>1. UNCHANGED <<queue, deliveries, work, runs>> /\ WriteStats(m, Enqueued(seen[m], m))
    BY DEF CountEnqueued
  <1>2. /\ seen[m] \in Stats /\ Sound(seen[m]) /\ queue[m] # "unsent" /\ seen'[m] = None
        /\ \A n \in Messages \ {m} : UNCHANGED seen[n]
    BY <1>1 DEF WriteStats, AllSound, Flow, TypeOK
  <1>3. Counted \cup Of(m) \subseteq Counted' /\ Counted \cap Of(m) = {}
    <2>1. Counted \cap Of(m) = {}
      BY <1>1, OneOwner DEF Counted, WriteStats
    <2>2. Of(m) \subseteq Counted'
      BY <1>1, <1>2 DEF Counted
    <2>3. \A n \in Messages : queue[n] # "unsent" /\ seen[n] = None =>
                              queue'[n] # "unsent" /\ seen'[n] = None
      BY <1>1, <1>2
    <2>4. Counted \subseteq Counted'
      BY <2>3 DEF Counted
    <2> QED BY <2>1, <2>2, <2>4
  <1>4. CountsGrow
    BY <1>1, <1>3, ReportedGrows, SameRuns DEF CountsGrow
  <1>5. PICK t \in Stats : t = seen[m]
    BY <1>2
  <1>6. Enqueued(t, m) \in Stats /\ WriteStats(m, Enqueued(t, m))
    BY <1>1, <1>5, StatsType
  <1>7. Sound(Enqueued(t, m))'
    <2>1. CountsFinite /\ CountsFinite'
      BY FiniteCounts, PTL DEF Flow
    <2>2. Cardinality(Counted \cup Of(m)) = Cardinality(Counted) + Len(ItemsOf[m])
      <3>1. Cardinality(Counted \cap Of(m)) = 0
        BY <1>3, FS_EmptySet
      <3>2. IsFiniteSet(Counted) /\ IsFiniteSet(Of(m)) /\ Cardinality(Of(m)) = Len(ItemsOf[m])
        BY <2>1, Places DEF CountsFinite
      <3>3. Cardinality(Counted \cup Of(m)) =
               Cardinality(Counted) + Cardinality(Of(m)) - Cardinality(Counted \cap Of(m))
        BY <3>2, FS_Union
      <3>4. Cardinality(Counted) \in Nat /\ Len(ItemsOf[m]) \in Nat
        BY <3>2, FS_CardinalityType, OfItems
      <3> QED BY <3>1, <3>2, <3>3, <3>4
    <2>3. /\ Cardinality(Counted \cup Of(m)) <= Cardinality(Counted')
          /\ Cardinality(Counted') \in Nat /\ Cardinality(Counted) \in Nat
      BY <1>3, <2>1, Larger, FS_CardinalityType DEF CountsFinite
    <2>4. Enqueued(t, m).pending <= Cardinality(Counted')
      <3>1. t.pending <= Cardinality(Counted) /\ t.pending \in Nat
        BY <1>2, <1>5 DEF Sound, Stats
      <3>2. Enqueued(t, m).pending = t.pending + Len(ItemsOf[m])
        BY DEF Enqueued, Stats
      <3> QED BY <2>2, <2>3, <3>1, <3>2, OfItems
    <2>5. /\ Enqueued(t, m).completed = t.completed /\ Enqueued(t, m).failed = t.failed
          /\ Enqueued(t, m).history = t.history
      BY DEF Enqueued, Stats
    <2>6. Sound(t)'
      <3>1. Sound(t)
        BY <1>2, <1>5 DEF Sound
      <3> QED BY <1>4, <3>1, SoundStays DEF Flow
    <2> QED BY <2>4, <2>5, <2>6 DEF Sound
  <1> QED BY <1>1, <1>4, <1>6, <1>7, WriteSound DEF Flow

\* One more item is reported than before.
LEMMA OneMore ==
    ASSUME NEW S, NEW T, NEW x, IsFiniteSet(T), S \subseteq T, x \in T, x \notin S
    PROVE  /\ Cardinality(S) \in Nat /\ Cardinality(T) \in Nat
           /\ Cardinality(S) + 1 <= Cardinality(T)
  <1>1. IsFiniteSet(S) /\ Cardinality(S) \in Nat /\ Cardinality(T) \in Nat
    BY FS_Subset, FS_CardinalityType
  <1>2. Cardinality(S \cup {x}) = Cardinality(S) + 1
    BY <1>1, FS_AddElement
  <1>3. S \cup {x} \subseteq T
    OBVIOUS
  <1> QED BY <1>1, <1>2, <1>3, Larger

LEMMA DecrementBelow ==
    ASSUME NEW n \in Nat PROVE Decrement(n, 1) \in Nat /\ Decrement(n, 1) <= n
BY DEF Decrement

LEMMA EndReportSound ==
    ASSUME Flow, TypeOK', AllSound, NEW i \in Items, EndReport(i)
    PROVE  AllSound'
  <1>1. /\ UNCHANGED <<queue, deliveries, runs>>
        /\ work[i] \in {"ok", "bad"} /\ work'[i] \in {"fulfilled", "rejected"}
        /\ \A j \in Items \ {i} : UNCHANGED work[j]
    BY DEF EndReport, Flow, TypeOK
  <1>2. /\ work[i] = "ok" => Run(i) \in runs.ok
        /\ work[i] = "bad" => Run(i) \in runs.bad
        /\ Run(i)' = Run(i) /\ Run(i)[1] = i
    BY EndReportFlow
  <1>3. seen[i] \in Stats /\ Sound(seen[i])
    BY DEF EndReport, WriteStats, AllSound, Flow, TypeOK
  <1>4. PICK t \in Stats : t = seen[i]
    BY <1>3
  <1>5. CountsGrow
    <2>1. \A m \in Messages : UNCHANGED seen[m]
      BY ItemsAssumption DEF EndReport, WriteStats, Flow, TypeOK
    <2>2. Counted \subseteq Counted'
      BY <1>1, <2>1 DEF Counted
    <2> QED BY <1>1, <2>2, ReportedGrows, SameRuns DEF CountsGrow
  <1>6. CountsFinite /\ CountsFinite'
    BY FiniteCounts, PTL DEF Flow
  <1>7. Sound(t)'
    <2>1. Sound(t)
      BY <1>3, <1>4 DEF Sound
    <2> QED BY <1>5, <2>1, SoundStays DEF Flow
  <1>8. t.pending \in Nat /\ t.completed \in Nat /\ t.failed \in Nat
    BY DEF Stats
  <1>9. Cardinality(Counted') \in Nat /\ t.pending <= Cardinality(Counted')
    <2>1. Cardinality(Counted') \in Nat
      BY <1>6, FS_CardinalityType DEF CountsFinite
    <2> QED BY <1>7, <2>1 DEF Sound
  <1>10. CASE work[i] = "ok"
    <2>1. WriteStats(i, Completed(t, i)) /\ Completed(t, i) \in Stats
      BY <1>4, <1>10, StatsType DEF EndReport
    <2>2. /\ Run(i) \in Reported(runs.ok, "ok")'
          /\ Run(i) \notin Reported(runs.ok, "ok")
      BY <1>1, <1>2, <1>10 DEF Reported
    <2>3. /\ Cardinality(Reported(runs.ok, "ok")) + 1 <= Cardinality(Reported(runs.ok, "ok")')
          /\ Cardinality(Reported(runs.ok, "ok")) \in Nat
          /\ Cardinality(Reported(runs.ok, "ok")') \in Nat
      BY <1>5, <1>6, <2>2, OneMore DEF CountsGrow, CountsFinite
    <2>4. t.completed <= Cardinality(Reported(runs.ok, "ok"))
      BY <1>3, <1>4 DEF Sound
    <2>5. /\ Completed(t, i).pending = Decrement(t.pending, 1)
          /\ Completed(t, i).completed = t.completed + 1
          /\ Completed(t, i).failed = t.failed
          /\ Completed(t, i).history = [t.history EXCEPT ![i] = "completed"]
      BY DEF Completed, Stats
    <2>6. Tried(i, runs'.ok)
      <3>1. Run(i) \in runs.ok /\ runs.ok \subseteq Items \X (1..MaxDeliveries)
        BY <1>2, <1>10 DEF Flow, TypeOK, Runs
      <3>2. PICK j \in Items, d \in 1..MaxDeliveries : Run(i) = <<j, d>>
        BY <3>1
      <3> QED BY <1>1, <1>2, <3>1, <3>2 DEF Tried
    <2>7. Sound(Completed(t, i))'
      <3>1. Completed(t, i).completed <= Cardinality(Reported(runs.ok, "ok")')
        BY <1>8, <2>3, <2>4, <2>5
      <3>2. Completed(t, i).pending <= Cardinality(Counted')
        BY <1>8, <1>9, <2>5, DecrementBelow
      <3>3. \A j \in Items :
               /\ Completed(t, i).history[j] = "completed" => Tried(j, runs'.ok)
               /\ Completed(t, i).history[j] = "failed" => Tried(j, runs'.bad)
        BY <1>7, <2>5, <2>6 DEF Sound, Stats
      <3> QED BY <1>7, <2>5, <3>1, <3>2, <3>3 DEF Sound
    <2> QED BY <1>1, <1>5, <2>1, <2>7, WriteSound DEF Flow
  <1>11. CASE work[i] = "bad"
    <2>1. WriteStats(i, Failed(t, i)) /\ Failed(t, i) \in Stats
      BY <1>4, <1>11, StatsType DEF EndReport
    <2>2. /\ Run(i) \in Reported(runs.bad, "bad")'
          /\ Run(i) \notin Reported(runs.bad, "bad")
      BY <1>1, <1>2, <1>11 DEF Reported
    <2>3. /\ Cardinality(Reported(runs.bad, "bad")) + 1 <= Cardinality(Reported(runs.bad, "bad")')
          /\ Cardinality(Reported(runs.bad, "bad")) \in Nat
          /\ Cardinality(Reported(runs.bad, "bad")') \in Nat
      BY <1>5, <1>6, <2>2, OneMore DEF CountsGrow, CountsFinite
    <2>4. t.failed <= Cardinality(Reported(runs.bad, "bad"))
      BY <1>3, <1>4 DEF Sound
    <2>5. /\ Failed(t, i).pending = Decrement(t.pending, 1)
          /\ Failed(t, i).completed = t.completed
          /\ Failed(t, i).failed = t.failed + 1
          /\ Failed(t, i).history = [t.history EXCEPT ![i] = "failed"]
      BY DEF Failed, Stats
    <2>6. Tried(i, runs'.bad)
      <3>1. Run(i) \in runs.bad /\ runs.bad \subseteq Items \X (1..MaxDeliveries)
        BY <1>2, <1>11 DEF Flow, TypeOK, Runs
      <3>2. PICK j \in Items, d \in 1..MaxDeliveries : Run(i) = <<j, d>>
        BY <3>1
      <3> QED BY <1>1, <1>2, <3>1, <3>2 DEF Tried
    <2>7. Sound(Failed(t, i))'
      <3>1. Failed(t, i).failed <= Cardinality(Reported(runs.bad, "bad")')
        BY <1>8, <2>3, <2>4, <2>5
      <3>2. Failed(t, i).pending <= Cardinality(Counted')
        BY <1>8, <1>9, <2>5, DecrementBelow
      <3>3. \A j \in Items :
               /\ Failed(t, i).history[j] = "completed" => Tried(j, runs'.ok)
               /\ Failed(t, i).history[j] = "failed" => Tried(j, runs'.bad)
        BY <1>7, <2>5, <2>6 DEF Sound, Stats
      <3> QED BY <1>7, <2>5, <3>1, <3>2, <3>3 DEF Sound
    <2> QED BY <1>1, <1>5, <2>1, <2>7, WriteSound DEF Flow
  <1> QED BY <1>1, <1>10, <1>11

LEMMA CompileSound ==
    ASSUME Flow, TypeOK', AllSound, NEW i \in Items, Compile(i)
    PROVE  AllSound'
  <1>1. /\ Run(i) \notin runs.ok \cup runs.bad /\ Run(i)' = Run(i) /\ Run(i)[1] = i
    BY CompileFlow
  <1>2. /\ UNCHANGED <<queue, deliveries, stats, seen>>
        /\ work[i] = "compiling" /\ work'[i] \in {"ok", "bad"}
        /\ \A j \in Items \ {i} : UNCHANGED work[j]
    BY DEF Compile, Flow, TypeOK
  <1>3. /\ runs.ok \subseteq runs'.ok /\ runs.bad \subseteq runs'.bad
        /\ \A r \in runs.ok \cup runs.bad : r[1] \in Items
    BY DEF Compile, Flow, TypeOK, Runs
  <1>4. \A j \in Items : Run(j)' = Run(j)
    BY <1>2 DEF Run
  <1>5. ASSUME NEW r \in Reported(runs.ok, "ok") PROVE r \in Reported(runs.ok, "ok")'
    <2>1. r \in runs.ok /\ r[1] \in Items /\ r # Run(i)
      BY <1>1, <1>3 DEF Reported
    <2>2. CASE r[1] = i
      BY <1>1, <1>3, <2>1, <2>2 DEF Reported
    <2>3. CASE r[1] # i
      BY <1>2, <1>3, <1>4, <2>1, <2>3 DEF Reported
    <2> QED BY <2>2, <2>3
  <1>6. ASSUME NEW r \in Reported(runs.bad, "bad") PROVE r \in Reported(runs.bad, "bad")'
    <2>1. r \in runs.bad /\ r[1] \in Items /\ r # Run(i)
      BY <1>1, <1>3 DEF Reported
    <2>2. CASE r[1] = i
      BY <1>1, <1>3, <2>1, <2>2 DEF Reported
    <2>3. CASE r[1] # i
      BY <1>2, <1>3, <1>4, <2>1, <2>3 DEF Reported
    <2> QED BY <2>2, <2>3
  <1>7. Counted \subseteq Counted'
    BY <1>2 DEF Counted
  <1>8. CountsGrow
    BY <1>3, <1>5, <1>6, <1>7 DEF CountsGrow
  <1> QED BY <1>2, <1>8, AsideSound DEF Flow, AllSound

LEMMA BeginReportSound ==
    ASSUME Flow, TypeOK', AllSound, NEW i \in Items, BeginReport(i)
    PROVE  AllSound'
  <1>1. /\ UNCHANGED <<queue, deliveries, work, stats, runs>>
        /\ \A u \in Messages \cup Items : seen'[u] \in {seen[u], stats}
        /\ \A m \in Messages : UNCHANGED seen[m]
    BY ItemsAssumption DEF BeginReport, ReadStats, Flow, TypeOK
  <1>2. Counted \subseteq Counted'
    BY <1>1 DEF Counted
  <1>3. CountsGrow
    BY <1>1, <1>2, ReportedGrows, SameRuns DEF CountsGrow
  <1> QED BY <1>1, <1>3, AsideSound DEF Flow, AllSound

\* The steps of the consumer on a whole message write no statistics.
LEMMA ConsumeSound ==
    ASSUME Flow, TypeOK', AllSound, NEW m \in Messages,
           Deliver(m) \/ NextChunk(m) \/ Ack(m) \/ Retry(m) \/ Kill(m)
    PROVE  AllSound'
  <1>1. /\ UNCHANGED <<stats, runs>>
        /\ \A u \in Messages \cup Items : seen'[u] \in {seen[u], None}
        /\ \A n \in Messages : UNCHANGED seen[n]
    BY OfItems DEF Deliver, NextChunk, Ack, Retry, Kill, Flow, TypeOK
  <1>2. \A n \in Messages : queue[n] # "unsent" => queue'[n] # "unsent"
    BY DEF Deliver, NextChunk, Ack, Retry, Kill, GiveBack, Flow, TypeOK
  <1>3. Counted \subseteq Counted'
    BY <1>1, <1>2 DEF Counted
  <1>4. \A i \in Items : work'[i] = work[i] \/ work'[i] \notin {"ok", "bad"}
    BY DEF Deliver, NextChunk, Ack, Retry, Kill, StartItems, Forget
  <1>5. ASSUME NEW i \in Items, work[i] \in {"ok", "bad"} PROVE Run(i)' = Run(i)
    <2>1. PICK n \in Messages : i \in Of(n) /\ queue[n] = "processing"
      BY <1>5, AtWork
    <2>2. deliveries'[n] = deliveries[n]
      BY <2>1 DEF Deliver, NextChunk, Ack, Retry, Kill, Flow, TypeOK
    <2> QED BY <2>1, <2>2, RunOf
  <1>6. CountsGrow
    BY <1>1, <1>3, <1>4, <1>5, ReportedGrows DEF CountsGrow
  <1> QED BY <1>1, <1>2, <1>6, AsideSound DEF Flow, AllSound

LEMMA StillSound ==
    ASSUME Flow, TypeOK', AllSound,
           UNCHANGED <<queue, deliveries, work, stats, seen, runs>>
    PROVE  AllSound'
  <1>1. Counted \subseteq Counted'
    BY DEF Counted
  <1>2. CountsGrow
    BY <1>1, ReportedGrows, SameRuns DEF CountsGrow
  <1> QED BY <1>2, AsideSound DEF Flow, AllSound

LEMMA InitIInv == Init => IInv
  <1> SUFFICES ASSUME Init PROVE IInv
    OBVIOUS
  <1>1. Flow
    BY InitFlow
  <1>2. CountsFinite
    BY <1>1, FiniteCounts DEF Flow
  <1>3. Sound(stats)
    <2>1. /\ Cardinality(Counted) \in Nat
          /\ Cardinality(Reported(runs.ok, "ok")) \in Nat
          /\ Cardinality(Reported(runs.bad, "bad")) \in Nat
      BY <1>2, FS_CardinalityType DEF CountsFinite
    <2> QED BY <2>1, NoneAssumption DEF Init, Sound
  <1>4. AllSound
    BY <1>3 DEF Init, AllSound
  <1>5. Cached
    BY DEF Init, Cached, Tried
  <1> QED BY <1>1, <1>4, <1>5 DEF IInv

LEMMA CompileCached ==
    ASSUME Flow, Cached, NEW i \in Items, Compile(i)
    PROVE  Cached'
  <1>1. ASSUME NEW j \in Items \ PreFetched, Tried(j, runs'.ok) PROVE j \in cached' \cup uncached'
    <2>1. CASE Tried(j, runs.ok)
      BY <2>1 DEF Cached, Compile
    <2>2. CASE ~Tried(j, runs.ok)
      <3>1. /\ runs'.ok = runs.ok \cup {Run(i)}
            /\ i \in PreFetched \cup cached' \cup uncached'
        BY <1>1, <2>2 DEF Compile, Flow, TypeOK
      <3>2. PICK d \in 1..MaxDeliveries : <<j, d>> = Run(i)
        BY <1>1, <2>2, <3>1 DEF Tried
      <3> QED BY <3>1, <3>2 DEF Run
    <2> QED BY <2>1, <2>2
  <1> QED BY <1>1 DEF Cached, Tried

LEMMA NextIInv == IInv /\ [Next]_vars => IInv'
  <1> SUFFICES ASSUME IInv, [Next]_vars PROVE IInv'
    OBVIOUS
  <1> TypeOK' /\ Flow /\ AllSound /\ Cached
    BY NextTypeOK DEF IInv, Flow
  <1>1. ASSUME NEW m \in Messages, Send(m) PROVE IInv'
    BY <1>1, SendFlow, SendSound DEF IInv, Cached, Tried, Send
  <1>2. ASSUME NEW m \in Messages, CountEnqueued(m) PROVE IInv'
    BY <1>2, AsideFlow, CountSound DEF IInv, Cached, Tried, CountEnqueued
  <1>3. ASSUME NEW m \in Messages, CancelRequest(m) PROVE IInv'
    BY <1>3, AsideFlow, StillSound DEF IInv, Cached, Tried, CancelRequest
  <1>4. ASSUME NEW m \in Messages, Consume(m) \/ Kill(m) PROVE IInv'
    <2>1. Flow'
      BY <1>4, DeliverFlow, NextChunkFlow, AckFlow, RetryFlow, KillFlow DEF Consume
    <2>2. AllSound'
      BY <1>4, ConsumeSound DEF Consume
    <2>3. Cached'
      BY <1>4 DEF Consume, Deliver, NextChunk, Ack, Retry, Kill, Cached, Tried
    <2> QED BY <2>1, <2>2, <2>3 DEF IInv
  <1>5. ASSUME NEW i \in Items, Compile(i) PROVE IInv'
    BY <1>5, CompileFlow, CompileSound, CompileCached DEF IInv
  <1>6. ASSUME NEW i \in Items, BeginReport(i) PROVE IInv'
    BY <1>6, AsideFlow, BeginReportSound DEF IInv, Cached, Tried, BeginReport
  <1>7. ASSUME NEW i \in Items, EndReport(i) PROVE IInv'
    BY <1>7, EndReportFlow, EndReportSound DEF IInv, Cached, Tried, EndReport
  <1>8. CASE UNCHANGED vars
    BY <1>8, AsideFlow, StillSound DEF IInv, Cached, Tried, vars
  <1> QED BY <1>1, <1>2, <1>3, <1>4, <1>5, <1>6, <1>7, <1>8 DEF Next, Item

-----------------------------------------------------------------------------
\* The invariant holds in every state.
THEOREM Invariant == Spec => []IInv
  <1> QED BY InitIInv, NextIInv, PTL DEF Spec

\* The statistics, the copies of them and the state of the work have their
\* types: the decrement of the pending count never makes it negative.
THEOREM TypeCorrect == Spec => []TypeOK
  <1>1. IInv => TypeOK
    BY DEF IInv, Flow
  <1> QED BY <1>1, Invariant, PTL

\* handleQueue acknowledges a message only when each of its items has compiled,
\* whatever became of earlier deliveries and however the items were chunked.
THEOREM AckedIsDoneAlways == Spec => []AckedIsDone
  <1>1. IInv => AckedIsDone
    BY DEF IInv, Flow, RunsOK, AckedIsDone
  <1> QED BY <1>1, Invariant, PTL

\* The read-modify-write of queue:stats loses updates and invents none: each
\* figure, in the stored value and in every copy, stays within what happened.
THEOREM NeverInflatedAlways == Spec => []NeverInflated
  <1>1. IInv => NeverInflated
    <2> SUFFICES ASSUME IInv PROVE NeverInflated
      OBVIOUS
    <2> DEFINE sent == UNION {Of(m) : m \in {n \in Messages : queue[n] # "unsent"}}
    <2>1. TypeOK /\ CountsFinite /\ Sound(stats)
      BY FiniteCounts DEF IInv, Flow, AllSound
    <2>2. /\ stats.pending \in Nat /\ stats.completed \in Nat /\ stats.failed \in Nat
      BY <2>1 DEF TypeOK, Stats
    <2>3. IsFiniteSet(sent) /\ Counted \subseteq sent
      <3>1. sent \subseteq Items /\ IsFiniteSet(Items)
        BY OfItems, ItemsAssumption
      <3> QED BY <3>1, FS_Subset DEF Counted
    <2>4. stats.pending <= Cardinality(sent)
      BY <2>1, <2>2, <2>3, Larger DEF Sound
    <2>5. stats.completed <= Cardinality(runs.ok) /\ stats.failed <= Cardinality(runs.bad)
      <3>1. /\ Reported(runs.ok, "ok") \subseteq runs.ok
            /\ Reported(runs.bad, "bad") \subseteq runs.bad
        BY DEF Reported
      <3>2. /\ Cardinality(Reported(runs.ok, "ok")) <= Cardinality(runs.ok)
            /\ Cardinality(Reported(runs.ok, "ok")) \in Nat /\ Cardinality(runs.ok) \in Nat
        BY <2>1, <3>1, Larger DEF CountsFinite
      <3>3. /\ Cardinality(Reported(runs.bad, "bad")) <= Cardinality(runs.bad)
            /\ Cardinality(Reported(runs.bad, "bad")) \in Nat /\ Cardinality(runs.bad) \in Nat
        BY <2>1, <3>1, Larger DEF CountsFinite
      <3> QED BY <2>1, <2>2, <3>2, <3>3 DEF Sound
    <2> QED BY <2>1, <2>4, <2>5 DEF Sound, NeverInflated
  <1> QED BY <1>1, Invariant, PTL

\* A job is reported completed after its result was put into the cache: the
\* consumer fills the cache, or fails to, before it touches the statistics.
THEOREM CompletedIsCachedAlways == Spec => []CompletedIsCached
  <1>1. IInv => CompletedIsCached
    BY DEF IInv, AllSound, Sound, Cached, CompletedIsCached
  <1> QED BY <1>1, Invariant, PTL

\* processInChunks goes on after a chunk with failures, so that a message is
\* dead-lettered only when each item was tried in each delivery, unless an
\* invocation was killed.
THEOREM NobodyStarvedAlways == Spec => []NobodyStarved
  <1>1. IInv => NobodyStarved
    <2> SUFFICES ASSUME IInv, NEW m \in Messages, queue[m] = "dead", m \notin killed,
                        NEW i \in Of(m), NEW d \in 1..MaxDeliveries
                 PROVE  <<i, d>> \in runs.ok \cup runs.bad
      BY DEF NobodyStarved
    <2>1. deliveries[m] = MaxDeliveries /\ RunsOK(m, i)
      BY DEF IInv, Flow, MessageOK
    <2> QED BY <2>1 DEF RunsOK
  <1> QED BY <1>1, Invariant, PTL
=============================================================================
