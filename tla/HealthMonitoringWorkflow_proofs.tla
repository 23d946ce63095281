------------------- MODULE HealthMonitoringWorkflow_proofs -------------------
(***************************************************************************)
(* What holds of the health monitoring runs for any number of runs,        *)
(* whatever sources each of them checks, any threshold and any length of   *)
(* the histories and logs: what an alert is worth, and that the progress   *)
(* log of a run loses nothing, repeats nothing and tells of its end.       *)
(***************************************************************************)
EXTENDS HealthMonitoringWorkflow, FiniteSetTheorems, SequenceTheorems,
        WellFoundedInduction, TLAPS

Events == [at : Program, n : 0..MaxSources]

\* What a place in run() says of the results persisted so far.
AfterChecks ==
    {"analyze", "analyzed", "alert", "store", "latest", "metrics", "count", "persist",
     "completed", "last", "done"}
ControlOK(r) ==
    /\ passed[r] <= Len(results[r])
    /\ pc[r] \in {"new", "start", "load", "loaded"} => passed[r] = 0
    /\ pc[r] = "check" => passed[r] < Count(r)
    /\ pc[r] \in AfterChecks => Len(results[r]) = Count(r)
    /\ pc[r] \in AfterChecks \ {"analyze"} => alert[r] # None
    /\ alert[r] # None => Len(results[r]) = Count(r)
Control == TypeOK /\ \A r \in Runs : ControlOK(r)

\* The events of a run come in the order of its milestones: Rank numbers them,
\* and the events to come have at least the number Bound.
Rank(e) ==
    CASE e.at = "start" -> 0
      [] e.at = "loaded" -> 1
      [] e.at = "checked" -> 1 + e.n
      [] e.at = "analyzed" -> MaxSources + 2
      [] e.at = "completed" -> MaxSources + 3
      [] OTHER -> MaxSources + 4
Bound(r) ==
    CASE pc[r] \in {"new", "start"} -> 0
      [] pc[r] \in {"load", "loaded"} -> 1
      [] pc[r] = "check" -> 2 + passed[r]
      [] pc[r] = "checked" -> 1 + passed[r]
      [] pc[r] \in {"analyze", "analyzed"} -> MaxSources + 2
      [] pc[r] \in {"alert", "store", "latest", "metrics", "count", "persist", "completed"} ->
            MaxSources + 3
      [] pc[r] \in {"last", "catch"} -> MaxSources + 4
      [] OTHER -> MaxSources + 5

In(e, seq) == \E i \in 1..Len(seq) : seq[i] = e
Distinct(seq) == \A i, j \in 1..Len(seq) : seq[i] = seq[j] => i = j
IsEnd(e) == e.at \in {"completed", "catch"}
EndsWithEnd(seq) == Len(seq) > 0 /\ IsEnd(seq[Len(seq)])

\* What the emitter of a run has, in the log and in its buffer.
Held(r) == log[r] \o pending[r]
Kept(r) == Len(log[r]) < MaxEvents => \A e \in emitted[r] : In(e, Held(r))
Once(r) ==
    r \notin repeating =>
        /\ Distinct(Held(r))
        /\ \A i \in 1..Len(Held(r)) : Rank(Held(r)[i]) < Bound(r)
Ending(r) ==
    /\ pc[r] \in {"last", "lastCatch"} =>
          EndsWithEnd(Held(r)) /\ (EndsWithEnd(log[r]) \/ faults >= 1)
    /\ pc[r] \in Ended => EndsWithEnd(log[r]) \/ faults >= 2
EventsOK == \A r \in Runs : Kept(r) /\ Once(r) /\ Ending(r)

\* A record in a history is the one a run that has looked for alerts made of
\* what it found.
RecordOK(c, found, told) ==
    /\ Len(found[c.run]) = Count(c.run) /\ told[c.run] # None
    /\ c.ok = [s \in Names(c.run) |-> found[c.run][LastOf(c.run, s)]]

\* Its newest k records are of k runs, less one for each record that was put in
\* a second time.
RunsIn(checks, k) == {checks[i].run : i \in 1..k}
Varied(checks, again) ==
    \A k \in 1..Len(checks) : Cardinality(RunsIn(checks, k)) + again >= k
HistoryOK(checks, found, told, again) ==
    /\ \A i \in 1..Len(checks) : RecordOK(checks[i], found, told)
    /\ Varied(checks, again)
HistoriesOK ==
    /\ HistoryOK(hist, results, alert, repeats)
    /\ \A r \in Runs : HistoryOK(memory[r], results, alert, repeats)
    /\ \A r \in Runs : loaded[r] # None => HistoryOK(loaded[r], results, alert, repeats)

\* Without a fault one run is under way at a time.  What it works on, and how far
\* it has come with recording its checks; the records of the runs before it.
Unfinished ==
    {"new", "start", "load", "loaded", "check", "checked", "analyze",
     "catch", "lastCatch", "errored"}
Recording == {"analyzed", "alert", "store", "latest", "metrics", "count", "persist"}
QuietRun(r) ==
    /\ pc[r] \in {"new", "start", "load"} => loaded[r] = None
    /\ pc[r] \in Unfinished => alert[r] = None
    /\ pc[r] \in Unfinished \cup {"analyzed", "alert"} => r \notin alerted
    /\ pc[r] \in Unfinished \cup Recording => ~Persisted(r)
    /\ pc[r] \in {"completed", "last"} => Persisted(r)
    /\ pc[r] \in {"loaded", "check", "checked", "analyze", "analyzed", "alert", "store"} =>
          memory[r] = Newest(stored)
    /\ pc[r] \in Recording =>
          alert[r] = {s \in Failing(r) : r \notin Silent /\ FailedInARow(s, stored)}
    /\ pc[r] = "alert" => alert[r] # {}
    /\ pc[r] = "count" => seen[r] = metrics
RecordsAt(r) ==
    /\ hist = IF pc[r] \in {"latest", "metrics", "count", "persist"}
              THEN Newest(<<Record(r)>> \o stored) ELSE Newest(stored)
    /\ latest = IF pc[r] \in {"metrics", "count", "persist"} THEN r
                ELSE IF stored = <<>> THEN None ELSE stored[1].run
    /\ metrics.checks = IF pc[r] = "persist" THEN Len(stored) + 1 ELSE Len(stored)
    /\ metrics.alerts =
          Cardinality(IF pc[r] \in Recording \ {"persist"} THEN Alerting \ {r} ELSE Alerting)
    /\ alerts = IF pc[r] \in {"analyzed", "alert"} THEN Alerting \ {r} ELSE Alerting
Settled ==
    /\ hist = Newest(stored)
    /\ latest = IF stored = <<>> THEN None ELSE stored[1].run
    /\ metrics.checks = Len(stored) /\ metrics.alerts = Cardinality(Alerting)
    /\ alerts = Alerting
Quiet ==
    faults = 0 =>
        /\ \A r, q \in Busy : r = q
        /\ \A r \in Runs : QuietRun(r)
        /\ \A r \in Busy : RecordsAt(r)
        /\ Busy = {} => Settled

IInv == Control /\ EventsOK /\ HistoriesOK /\ AlertEarned /\ Quiet

-----------------------------------------------------------------------------
LEMMA ConstantsOK ==
    /\ MaxSources \in Nat
    /\ \A r \in Runs : Count(r) \in Nat /\ Count(r) > 0 /\ Count(r) <= MaxSources
    /\ FailureThreshold \in Nat /\ FailureThreshold > 0
    /\ MaxHistory \in Nat /\ MaxHistory >= FailureThreshold - 1
    /\ MaxEvents \in Nat /\ MaxEvents > 0 /\ MaxFaults \in Nat
BY SourcesAssumption, ThresholdAssumption, EventsAssumption DEF Count

\* Two sequences, one after the other.
LEMMA Joined ==
    ASSUME NEW S, NEW s \in Seq(S), NEW t \in Seq(S)
    PROVE  /\ s \o t \in Seq(S) /\ Len(s \o t) = Len(s) + Len(t)
           /\ Len(s) \in Nat /\ Len(t) \in Nat
           /\ \A i \in 1..Len(s) : (s \o t)[i] = s[i]
           /\ \A i \in 1..Len(t) : (s \o t)[Len(s) + i] = t[i]
           /\ \A i \in 1..Len(s) : s[i] \in S
BY ConcatProperties, LenProperties, ElementOfSeq

\* The newest events, at the end of a log, and the newest checks, at the head
\* of a history.
LEMMA LatestOf ==
    ASSUME NEW S, NEW seq \in Seq(S)
    PROVE  /\ Latest(seq) \in Seq(S)
           /\ Len(Latest(seq)) = IF Len(seq) > MaxEvents THEN MaxEvents ELSE Len(seq)
           /\ \A i \in 1..Len(Latest(seq)) :
                 Latest(seq)[i] = seq[Len(seq) - Len(Latest(seq)) + i]
           /\ Len(seq) <= MaxEvents => Latest(seq) = seq
  <1> DEFINE n == Len(seq)
             m == (IF n > MaxEvents THEN n - MaxEvents ELSE 0) + 1
  <1>1. n \in Nat /\ \A i \in 1..n : seq[i] \in S
    BY LenProperties, ElementOfSeq
  <1>2. /\ m \in 1..(n + 1)
        /\ n > MaxEvents => m = n - MaxEvents + 1
        /\ n <= MaxEvents => m = 1
    BY <1>1, ConstantsOK
  <1>3. Latest(seq) = SubSeq(seq, m, n)
    BY DEF Latest
  <1>4. n <= MaxEvents => SubSeq(seq, m, n) = seq
    BY <1>2, SubSeqFull
  <1> HIDE DEF m, n
  <1>5. \A i \in m..n : seq[i] \in S
    BY <1>1, <1>2
  <1>6. /\ SubSeq(seq, m, n) \in Seq(S)
        /\ Len(SubSeq(seq, m, n)) = IF m <= n THEN n - m + 1 ELSE 0
        /\ \A i \in 1..(n - m + 1) : SubSeq(seq, m, n)[i] = seq[m + i - 1]
    BY <1>1, <1>2, <1>5, SubSeqProperties
  <1>7. Len(SubSeq(seq, m, n)) = IF n > MaxEvents THEN MaxEvents ELSE n
    BY <1>1, <1>2, <1>6, ConstantsOK
  <1>8. \A i \in 1..Len(SubSeq(seq, m, n)) :
           SubSeq(seq, m, n)[i] = seq[n - Len(SubSeq(seq, m, n)) + i]
    <2> DEFINE k == Len(SubSeq(seq, m, n))
    <2>1. k \in Nat /\ k = n - m + 1
      BY <1>1, <1>2, <1>7, ConstantsOK
    <2>2. \A i \in 1..k : n - k + i = m + i - 1
      BY <1>1, <1>2, <2>1
    <2> HIDE DEF k
    <2>3. \A i \in 1..k : SubSeq(seq, m, n)[i] = seq[n - k + i]
      BY <1>6, <2>1, <2>2
    <2> QED BY <2>3 DEF k
  <1> QED BY <1>3, <1>4, <1>6, <1>7, <1>8 DEF n

LEMMA NewestOf ==
    ASSUME NEW S, NEW seq \in Seq(S)
    PROVE  /\ Newest(seq) \in Seq(S)
           /\ Len(Newest(seq)) = IF Len(seq) > MaxHistory THEN MaxHistory ELSE Len(seq)
           /\ Len(seq) \in Nat
           /\ \A i \in 1..Len(Newest(seq)) : Newest(seq)[i] = seq[i]
  <1> DEFINE n == IF Len(seq) > MaxHistory THEN MaxHistory ELSE Len(seq)
  <1>1. Len(seq) \in Nat /\ \A i \in 1..Len(seq) : seq[i] \in S
    BY LenProperties, ElementOfSeq
  <1>2. n \in 0..Len(seq)
    BY <1>1, ConstantsOK
  <1>3. \A i \in 1..n : seq[i] \in S
    BY <1>1, <1>2
  <1>4. /\ SubSeq(seq, 1, n) \in Seq(S)
        /\ Len(SubSeq(seq, 1, n)) = IF 1 <= n THEN n - 1 + 1 ELSE 0
        /\ \A i \in 1..(n - 1 + 1) : SubSeq(seq, 1, n)[i] = seq[1 + i - 1]
    BY <1>2, <1>3, SubSeqProperties
  <1>5. Newest(seq) = SubSeq(seq, 1, n)
    BY DEF Newest
  <1>6. Len(Newest(seq)) = n
    BY <1>2, <1>4, <1>5
  <1> QED BY <1>1, <1>2, <1>4, <1>5, <1>6, LenProperties

-----------------------------------------------------------------------------
\* The type invariant in parts: the emitters, the places in run(), what is
\* persisted of the steps, and what the steps work on.
EventsTyped ==
    /\ pending \in [Runs -> Seq(Events)] /\ log \in [Runs -> Seq(Events)]
    /\ emitted \in [Runs -> SUBSET Events]
    /\ faults \in 0..MaxFaults /\ repeating \subseteq Runs
PlacesTyped ==
    /\ pc \in [Runs -> Program] /\ attempt \in [Runs -> 0..2]
    /\ passed \in [Runs -> 0..MaxSources]
MemoTyped ==
    /\ loaded \in [Runs -> {None} \cup Seq(Check)]
    /\ results \in [Runs -> Seq(BOOLEAN)] /\ \A r \in Runs : Len(results[r]) <= Count(r)
    /\ alert \in [Runs -> {None} \cup SUBSET SourceNames] /\ alerted \subseteq Runs
StoreTyped ==
    /\ memory \in [Runs -> Seq(Check)] /\ hist \in Seq(Check) /\ stored \in Seq(Check)
    /\ seen \in [Runs -> Totals] /\ metrics \in Totals
    /\ latest \in Runs \cup {None} /\ alerts \subseteq Runs /\ repeats \in Nat
Typed == EventsTyped /\ PlacesTyped /\ MemoTyped /\ StoreTyped

LEMMA TypedIsTypeOK == TypeOK <=> Typed
BY DEF TypeOK, Typed, EventsTyped, PlacesTyped, MemoTyped, StoreTyped, Events

LEMMA TypedAgain ==
    ASSUME EventsTyped', PlacesTyped', MemoTyped', StoreTyped',
           \A r \in Runs : ControlOK(r)'
    PROVE  Control'
BY DEF Control, TypeOK, EventsTyped, PlacesTyped, MemoTyped, StoreTyped, Events

\* A step of a run moves that run on and leaves the others where they are.
LEMMA Moves ==
    ASSUME PlacesTyped, NEW r \in Runs, NEW p \in Program, Goes(r, p)
    PROVE  /\ pc' \in [Runs -> Program] /\ pc'[r] = p
           /\ \A q \in Runs \ {r} : pc'[q] = pc[q]
BY DEF PlacesTyped, Goes

LEMMA ReturnsMoves ==
    ASSUME PlacesTyped, NEW r \in Runs, NEW p \in Program, Returns(r, p)
    PROVE  /\ pc' \in [Runs -> Program] /\ attempt' \in [Runs -> 0..2] /\ pc'[r] = p
           /\ \A q \in Runs \ {r} : pc'[q] = pc[q]
BY DEF PlacesTyped, Returns, Goes

LEMMA ThrowsMoves ==
    ASSUME PlacesTyped, NEW r \in Runs, NEW p \in Program, NEW limit \in 1..2,
           Throws(r, p, limit)
    PROVE  /\ pc' \in [Runs -> Program] /\ attempt' \in [Runs -> 0..2]
           /\ pc'[r] \in {p, "catch"}
           /\ \A q \in Runs \ {r} : pc'[q] = pc[q]
  <1>1. attempt[r] < limit => attempt[r] + 1 \in 0..2
    BY DEF PlacesTyped
  <1>2. attempt' \in [Runs -> 0..2]
    BY <1>1 DEF PlacesTyped, Throws
  <1>3. "catch" \in Program
    BY DEF Program
  <1>4. Goes(r, p) \/ Goes(r, "catch")
    BY DEF Throws
  <1> QED BY <1>2, <1>3, <1>4, Moves

LEMMA InitControl == Init => Control
  <1> SUFFICES ASSUME Init PROVE Control
    OBVIOUS
  <1>1. EventsTyped
    BY EmptySeq, ConstantsOK DEF Init, EventsInit, EventsTyped
  <1>2. PlacesTyped
    BY ConstantsOK DEF Init, PlacesTyped, Program
  <1>3. MemoTyped
    BY EmptySeq, ConstantsOK DEF Init, MemoTyped
  <1>4. StoreTyped
    BY EmptySeq DEF Init, StoreTyped, Totals, Nothing
  <1>5. ASSUME NEW r \in Runs PROVE ControlOK(r)
    BY EmptySeq DEF Init, ControlOK, AfterChecks
  <1> QED BY <1>1, <1>2, <1>3, <1>4, <1>5, TypedIsTypeOK DEF Control, Typed

LEMMA FlushType ==
    ASSUME TypeOK, NEW r \in Runs, NEW buffer \in Seq(Events), FlushOf(r, buffer)
    PROVE  /\ pending' \in [Runs -> Seq(Events)] /\ log' \in [Runs -> Seq(Events)]
           /\ faults' \in 0..MaxFaults /\ faults' >= faults /\ repeating' \subseteq Runs
  <1>1. pending \in [Runs -> Seq(Events)] /\ log \in [Runs -> Seq(Events)]
    BY DEF TypeOK, Events
  <1>2. Latest(log[r] \o buffer) \in Seq(Events)
    BY <1>1, Joined, LatestOf
  <1>3. <<>> \in Seq(Events)
    BY EmptySeq
  <1>4. log' \in [Runs -> Seq(Events)]
    BY <1>1, <1>2 DEF FlushOf
  <1>5. pending' \in [Runs -> Seq(Events)]
    BY <1>1, <1>3 DEF FlushOf
  <1>6. faults' \in 0..MaxFaults /\ faults' >= faults
    <2>1. faults \in 0..MaxFaults /\ (NoFault \/ Fault)
      BY DEF FlushOf, TypeOK
    <2> QED BY <2>1, ConstantsOK DEF Fault, NoFault
  <1>7. repeating' \subseteq Runs
    BY DEF FlushOf, TypeOK
  <1> QED BY <1>4, <1>5, <1>6, <1>7

LEMMA Prepended ==
    ASSUME NEW c \in Check, NEW checks \in Seq(Check)
    PROVE  /\ <<c>> \o checks \in Seq(Check) /\ Len(checks) \in Nat
           /\ Len(<<c>> \o checks) = Len(checks) + 1
           /\ (<<c>> \o checks)[1] = c
           /\ \A i \in 1..Len(checks) : (<<c>> \o checks)[i + 1] = checks[i]
  <1>1. <<c>> \in Seq(Check) /\ Len(<<c>>) = 1 /\ <<c>>[1] = c
    OBVIOUS
  <1>2. /\ <<c>> \o checks \in Seq(Check)
        /\ Len(<<c>> \o checks) = 1 + Len(checks) /\ Len(checks) \in Nat
        /\ (<<c>> \o checks)[1] = <<c>>[1]
        /\ \A i \in 1..Len(checks) : (<<c>> \o checks)[1 + i] = checks[i]
    BY <1>1, Joined
  <1> QED BY <1>1, <1>2

\* The names of a run's list are source names, as are those it finds failing; the
\* last place of a name in the list is a place of that name.
LEMMA NamesOK == \A r \in Runs : Names(r) \in SUBSET SourceNames
  <1>1. ASSUME NEW r \in Runs, NEW i \in 1..Count(r) PROVE SourcesOf[r][i] \in SourceNames
    BY SourcesAssumption, ElementOfSeq DEF Count
  <1> QED BY <1>1 DEF Names

LEMMA FailingOK ==
    ASSUME TypeOK, NEW r \in Runs
    PROVE  /\ Failing(r) \in SUBSET Names(r)
           /\ Failing(r) = {SourcesOf[r][i] : i \in {j \in 1..Len(results[r]) : ~results[r][j]}}
  <1>1. /\ DOMAIN results[r] = 1..Len(results[r]) /\ Len(results[r]) \in Nat
        /\ Len(results[r]) <= Count(r)
    BY LenProperties DEF TypeOK
  <1>2. 1..Len(results[r]) \subseteq 1..Count(r)
    BY <1>1, ConstantsOK
  <1>3. ASSUME NEW i \in {j \in 1..Len(results[r]) : ~results[r][j]}
        PROVE  SourcesOf[r][i] \in Names(r)
    BY <1>2 DEF Names
  <1> QED BY <1>1, <1>3 DEF Failing

LEMMA LastIndex ==
    ASSUME NEW r \in Runs, NEW s \in Names(r)
    PROVE  LastOf(r, s) \in 1..Count(r) /\ SourcesOf[r][LastOf(r, s)] = s
  <1> DEFINE places == {i \in 1..Count(r) : SourcesOf[r][i] = s}
             behind == {Count(r) - i : i \in places}
  <1>1. Count(r) \in Nat
    BY ConstantsOK
  <1>2. PICK i \in places : TRUE
    BY DEF Names
  <1>3. behind \subseteq Nat /\ Count(r) - i \in behind
    BY <1>1, <1>2
  <1>4. PICK least \in behind : \A k \in behind : least <= k
    <2>1. PICK least \in behind : \A k \in behind : ~(<<k, least>> \in OpToRel(<, Nat))
      BY <1>3, NatLessThanWellFounded, WFMin, Zenon
    <2>2. ASSUME NEW k \in behind PROVE ~(k < least)
      <3>1. <<k, least>> \in Nat \X Nat
        BY <1>3
      <3>2. <<k, least>>[1] < <<k, least>>[2] => <<k, least>> \in OpToRel(<, Nat)
        BY <3>1, Zenon DEF OpToRel
      <3>3. ~(<<k, least>>[1] < <<k, least>>[2])
        BY <2>1, <3>2, Zenon
      <3> QED BY <3>3
    <2> QED BY <1>3, <2>2
  <1>5. PICK last \in places : least = Count(r) - last
    BY <1>4
  <1>6. \A j \in places : j <= last
    <2> SUFFICES ASSUME NEW j \in places PROVE j <= last
      OBVIOUS
    <2>1. Count(r) - last <= Count(r) - j
      BY <1>4, <1>5
    <2> QED BY <1>1, <1>5, <2>1
  <1>7. \E k \in 1..Count(r) :
           SourcesOf[r][k] = s /\ \A j \in 1..Count(r) : SourcesOf[r][j] = s => j <= k
    BY <1>5, <1>6
  <1> QED BY <1>7 DEF LastOf

LEMMA UnshiftedType ==
    ASSUME TypeOK, NEW r \in Runs, Len(results[r]) = Count(r)
    PROVE  /\ Record(r) \in Check /\ Record(r).run = r
           /\ Record(r).ok = [s \in Names(r) |-> results[r][LastOf(r, s)]]
           /\ Unshifted(r) \in Seq(Check)
           /\ \A checks \in Seq(Check) :
                 /\ <<Record(r)>> \o checks \in Seq(Check)
                 /\ Len(<<Record(r)>> \o checks) = Len(checks) + 1
                 /\ (<<Record(r)>> \o checks)[1] = Record(r)
                 /\ \A i \in 1..Len(checks) : (<<Record(r)>> \o checks)[i + 1] = checks[i]
  <1>1. \A s \in Names(r) : results[r][LastOf(r, s)] \in BOOLEAN
    BY LastIndex, ElementOfSeq DEF TypeOK
  <1>2. Record(r) \in Check
    <2>1. Names(r) \in SUBSET SourceNames
      BY NamesOK
    <2>2. [s \in Names(r) |-> results[r][LastOf(r, s)]] \in [Names(r) -> BOOLEAN]
      BY <1>1
    <2>3. [s \in Names(r) |-> results[r][LastOf(r, s)]] \in Outcome
      BY <2>1, <2>2 DEF Outcome
    <2> QED BY <2>3 DEF Record, Check
  <1>3. \A checks \in Seq(Check) :
           /\ <<Record(r)>> \o checks \in Seq(Check)
           /\ Len(<<Record(r)>> \o checks) = Len(checks) + 1
           /\ (<<Record(r)>> \o checks)[1] = Record(r)
           /\ \A i \in 1..Len(checks) : (<<Record(r)>> \o checks)[i + 1] = checks[i]
    BY <1>2, Prepended
  <1>4. Unshifted(r) \in Seq(Check)
    BY <1>3, NewestOf DEF Unshifted, TypeOK
  <1> QED BY <1>1, <1>2, <1>3, <1>4 DEF Record

LEMMA ReportControl == ASSUME Control, NEW r \in Runs, Report(r) PROVE Control'
  <1> Typed
    BY TypedIsTypeOK DEF Control
  <1> USE DEF Typed
  <1>1. Event(pc[r], IF pc[r] = "checked" THEN passed[r] ELSE 0) \in Events
    BY ConstantsOK DEF PlacesTyped, Event, Events
  <1>2. Append(pending[r], Event(pc[r], IF pc[r] = "checked" THEN passed[r] ELSE 0)) \in Seq(Events)
    BY <1>1, AppendProperties DEF EventsTyped
  <1>3. EventsTyped'
    <2> DEFINE e == Event(pc[r], IF pc[r] = "checked" THEN passed[r] ELSE 0)
    <2>1. /\ FlushOf(r, Append(pending[r], e)) /\ e \in Events
          /\ emitted' = [emitted EXCEPT ![r] = @ \cup {e}]
      BY <1>1 DEF Report, Emit
    <2> HIDE DEF e
    <2>2. emitted' \in [Runs -> SUBSET Events]
      BY <2>1 DEF EventsTyped
    <2> QED BY <1>2, <2>1, <2>2, FlushType DEF Control, EventsTyped, e
  <1>4. /\ Goes(r, AfterReport(r))
        /\ pc[r] \in {"start", "loaded", "checked", "analyzed", "completed", "catch"}
        /\ UNCHANGED <<attempt, memo, isolate, kv, history>>
    BY DEF Report
  <1>5. /\ AfterReport(r) \in {"load", "check", "analyze", "alert", "store", "last", "lastCatch"}
        /\ AfterReport(r) = "check" => passed[r] < Count(r)
        /\ AfterReport(r) = "load" => pc[r] = "start"
        /\ AfterReport(r) = "analyze" => pc[r] = "checked" /\ ~(passed[r] < Count(r))
        /\ AfterReport(r) \in {"alert", "store"} => pc[r] = "analyzed"
        /\ AfterReport(r) = "last" => pc[r] = "completed"
    BY <1>4, ConstantsOK DEF AfterReport, Control, ControlOK
  <1>6. /\ pc' \in [Runs -> Program] /\ pc'[r] = AfterReport(r)
        /\ \A q \in Runs \ {r} : pc'[q] = pc[q]
    BY <1>4, <1>5, Moves DEF Program
  <1>7. PlacesTyped' /\ MemoTyped' /\ StoreTyped'
    BY <1>4, <1>6 DEF PlacesTyped, MemoTyped, StoreTyped, memo, isolate, kv, history
  <1>8. Len(results[r]) \in Nat /\ passed[r] \in Nat /\ Len(results[r]) <= Count(r)
    BY LenProperties DEF PlacesTyped, MemoTyped
  <1>9. ASSUME NEW q \in Runs PROVE ControlOK(q)'
    BY <1>4, <1>5, <1>6, <1>8, ConstantsOK DEF Control, ControlOK, AfterChecks, memo, isolate
  <1> QED BY <1>3, <1>7, <1>9, TypedAgain

LEMMA LastFlushControl == ASSUME Control, NEW r \in Runs, LastFlush(r) PROVE Control'
  <1> Typed
    BY TypedIsTypeOK DEF Control
  <1> USE DEF Typed
  <1>1. EventsTyped'
    BY FlushType DEF Control, LastFlush, Flush, EventsTyped
  <1>2. /\ pc[r] \in {"last", "lastCatch"}
        /\ Goes(r, IF pc[r] = "last" THEN "done" ELSE "errored")
        /\ loaded' = [loaded EXCEPT ![r] = None] /\ passed' = [passed EXCEPT ![r] = 0]
        /\ memory' = [memory EXCEPT ![r] = <<>>] /\ seen' = [seen EXCEPT ![r] = Nothing]
        /\ UNCHANGED <<attempt, results, alert, alerted, kv, history>>
    BY DEF LastFlush
  <1>3. /\ pc' \in [Runs -> Program] /\ \A q \in Runs \ {r} : pc'[q] = pc[q]
        /\ pc[r] = "last" => pc'[r] = "done"
        /\ pc[r] = "lastCatch" => pc'[r] = "errored"
    BY <1>2, Moves DEF Program
  <1>4. PlacesTyped' /\ MemoTyped'
    <2>1. passed' \in [Runs -> 0..MaxSources]
      BY <1>2, ConstantsOK DEF PlacesTyped
    <2>2. PlacesTyped'
      BY <1>2, <1>3, <2>1 DEF PlacesTyped
    <2>3. MemoTyped'
      BY <1>2 DEF MemoTyped
    <2> QED BY <2>2, <2>3
  <1>5. StoreTyped'
    <2>1. <<>> \in Seq(Check) /\ Nothing \in Totals
      BY EmptySeq DEF Nothing, Totals
    <2> QED BY <1>2, <2>1 DEF StoreTyped, kv, history
  <1>6. ASSUME NEW q \in Runs PROVE ControlOK(q)'
    <2>1. Len(results[r]) \in Nat
      BY LenProperties DEF MemoTyped
    <2> QED BY <1>2, <1>3, <2>1 DEF Control, ControlOK, AfterChecks, PlacesTyped
  <1> QED BY <1>1, <1>4, <1>5, <1>6, TypedAgain

LEMMA RestartControl == ASSUME Control, NEW r \in Runs, Restart(r) PROVE Control'
  <1> Typed
    BY TypedIsTypeOK DEF Control
  <1> USE DEF Typed
  <1>1. EventsTyped'
    BY EmptySeq, ConstantsOK DEF Restart, Forgotten, Fault, EventsTyped
  <1>2. /\ Goes(r, "start")
        /\ passed' = [passed EXCEPT ![r] = 0] /\ memory' = [memory EXCEPT ![r] = <<>>]
        /\ seen' = [seen EXCEPT ![r] = Nothing]
        /\ UNCHANGED <<attempt, memo, kv, history>>
    BY DEF Restart
  <1>3. /\ pc' \in [Runs -> Program] /\ \A q \in Runs \ {r} : pc'[q] = pc[q]
        /\ pc'[r] = "start"
    BY <1>2, Moves DEF Program
  <1>4. PlacesTyped' /\ MemoTyped'
    <2>1. passed' \in [Runs -> 0..MaxSources]
      BY <1>2, ConstantsOK DEF PlacesTyped
    <2>2. PlacesTyped'
      BY <1>2, <1>3, <2>1 DEF PlacesTyped
    <2>3. MemoTyped'
      BY <1>2 DEF MemoTyped, memo
    <2> QED BY <2>2, <2>3
  <1>5. StoreTyped'
    <2>1. <<>> \in Seq(Check) /\ Nothing \in Totals
      BY EmptySeq DEF Nothing, Totals
    <2> QED BY <1>2, <2>1 DEF StoreTyped, kv, history
  <1>6. ASSUME NEW q \in Runs PROVE ControlOK(q)'
    <2>1. Len(results[r]) \in Nat
      BY LenProperties DEF MemoTyped
    <2> QED BY <1>2, <1>3, <2>1 DEF Control, ControlOK, AfterChecks, PlacesTyped, memo
  <1> QED BY <1>1, <1>4, <1>5, <1>6, TypedAgain

LEMMA BeginControl == ASSUME Control, NEW r \in Runs, Begin(r) PROVE Control'
  <1> Typed
    BY TypedIsTypeOK DEF Control
  <1> USE DEF Typed
  <1>1. EventsTyped'
    BY ConstantsOK DEF Begin, Fault, NoFault, EventsTyped
  <1>2. /\ pc[r] = "new" /\ Goes(r, "start")
        /\ UNCHANGED <<attempt, memo, isolate, kv, history>>
    BY DEF Begin
  <1>3. /\ pc' \in [Runs -> Program] /\ \A q \in Runs \ {r} : pc'[q] = pc[q]
        /\ pc'[r] = "start"
    BY <1>2, Moves DEF Program
  <1>4. PlacesTyped' /\ MemoTyped' /\ StoreTyped'
    BY <1>2, <1>3 DEF PlacesTyped, MemoTyped, StoreTyped, memo, isolate, kv, history
  <1>5. ASSUME NEW q \in Runs PROVE ControlOK(q)'
    BY <1>2, <1>3 DEF Control, ControlOK, AfterChecks, memo, isolate
  <1> QED BY <1>1, <1>4, <1>5, TypedAgain

LEMMA ReplayControl == ASSUME Control, NEW r \in Runs, Replay(r) PROVE Control'
  <1> Typed
    BY TypedIsTypeOK DEF Control
  <1> USE DEF Typed
  <1>1. Len(results[r]) \in Nat /\ Len(results[r]) <= Count(r) /\ passed[r] \in Nat
    BY LenProperties DEF MemoTyped, PlacesTyped
  <1>2. EventsTyped' /\ MemoTyped'
    BY DEF Replay, EventsTyped, MemoTyped, eventVars, memo
  <1>3. PICK p \in {"loaded", "checked", "analyzed", "store", "completed"} : Goes(r, p)
    BY DEF Replay
  <1>4. /\ pc' \in [Runs -> Program] /\ \A q \in Runs \ {r} : pc'[q] = pc[q]
        /\ pc'[r] = p
    BY <1>3, Moves DEF Program
  <1>5. PlacesTyped' /\ StoreTyped'
    <2>1. passed' \in [Runs -> 0..MaxSources]
      <3>1. passed[r] < Len(results[r]) => passed[r] + 1 \in 0..MaxSources
        BY <1>1, ConstantsOK
      <3> QED BY <3>1 DEF Replay, PlacesTyped
    <2>2. memory' \in [Runs -> Seq(Check)]
      BY DEF Replay, StoreTyped, MemoTyped
    <2> QED BY <1>4, <2>1, <2>2 DEF Replay, PlacesTyped, StoreTyped, kv, history
  <1>6. ASSUME NEW q \in Runs PROVE ControlOK(q)'
    <2>1. CASE q # r
      <3>1. UNCHANGED <<pc[q], passed[q], results[q], alert[q]>>
        BY <1>4, <2>1 DEF Replay, PlacesTyped, memo
      <3> QED BY <3>1 DEF Control, ControlOK
    <2>2. CASE q = r
      <3>1. /\ ControlOK(r) /\ UNCHANGED <<results, alert>>
            /\ pc'[r] \in {"loaded", "checked", "analyzed", "store", "completed"}
        BY <1>4 DEF Control, Replay, memo
      <3>2. /\ passed'[r] <= Len(results[r])
            /\ pc'[r] = "loaded" => passed'[r] = 0
            /\ pc'[r] \in AfterChecks => pc[r] \in AfterChecks
            /\ pc'[r] \in AfterChecks => alert[r] # None
        BY <1>1, <1>4, <3>1 DEF Replay, Goes, PlacesTyped, ControlOK, AfterChecks
      <3> QED BY <2>2, <3>1, <3>2 DEF ControlOK, AfterChecks
    <2> QED BY <2>1, <2>2
  <1> QED BY <1>2, <1>5, <1>6, TypedAgain

LEMMA LoadControl == ASSUME Control, NEW r \in Runs, Load(r) PROVE Control'
  <1> Typed
    BY TypedIsTypeOK DEF Control
  <1> USE DEF Typed
  <1>1. EventsTyped'
    BY ConstantsOK DEF Load, Fault, NoFault, EventsTyped
  <1>2. /\ pc[r] = "load" /\ (Returns(r, "loaded") \/ Throws(r, "load", 1))
        /\ UNCHANGED <<results, alert, alerted, passed, seen, kv, history>>
    BY DEF Load
  <1>3. /\ pc' \in [Runs -> Program] /\ attempt' \in [Runs -> 0..2]
        /\ pc'[r] \in {"loaded", "load", "catch"}
        /\ \A q \in Runs \ {r} : pc'[q] = pc[q]
    BY <1>2, ReturnsMoves, ThrowsMoves DEF Program
  <1>4. /\ loaded' \in [Runs -> {None} \cup Seq(Check)]
        /\ memory' \in [Runs -> Seq(Check)]
    BY DEF Load, MemoTyped, StoreTyped
  <1>5. PlacesTyped' /\ MemoTyped' /\ StoreTyped'
    BY <1>2, <1>3, <1>4 DEF PlacesTyped, MemoTyped, StoreTyped, kv, history
  <1>6. ASSUME NEW q \in Runs PROVE ControlOK(q)'
    BY <1>2, <1>3 DEF Control, ControlOK, AfterChecks
  <1> QED BY <1>1, <1>5, <1>6, TypedAgain

LEMMA CheckControl ==
    ASSUME Control, NEW r \in Runs, NEW ok \in BOOLEAN, CheckSource(r, ok)
    PROVE  /\ Control'
           /\ alert[r] = None /\ UNCHANGED alert /\ Len(results[r]) < Count(r)
           /\ \A q \in Runs \ {r} : UNCHANGED results[q]
           /\ \A s \in 1..Len(results[r]) : results'[r][s] = results[r][s]
           /\ Len(results'[r]) = Len(results[r]) + 1 /\ Len(results[r]) \in Nat
  <1> Typed
    BY TypedIsTypeOK DEF Control
  <1> USE DEF Typed
  <1>1. /\ Len(results[r]) \in Nat /\ passed[r] = Len(results[r]) /\ passed[r] < Count(r)
        /\ results[r] \in Seq(BOOLEAN) /\ pc[r] = "check"
    BY LenProperties DEF Control, MemoTyped, ControlOK, CheckSource
  <1>2. /\ Append(results[r], ok) \in Seq(BOOLEAN)
        /\ Len(Append(results[r], ok)) = Len(results[r]) + 1
        /\ \A s \in 1..Len(results[r]) : Append(results[r], ok)[s] = results[r][s]
    BY <1>1, AppendProperties
  <1>3. /\ results' \in [Runs -> Seq(BOOLEAN)]
        /\ results'[r] = Append(results[r], ok) /\ Len(results'[r]) = Len(results[r]) + 1
        /\ \A q \in Runs \ {r} : results'[q] = results[q]
    BY <1>2 DEF CheckSource, MemoTyped
  <1>4. /\ passed' = [passed EXCEPT ![r] = @ + 1] /\ Returns(r, "checked")
        /\ UNCHANGED <<eventVars, loaded, alert, alerted, memory, seen, kv, history>>
    BY DEF CheckSource
  <1>5. /\ pc' \in [Runs -> Program] /\ attempt' \in [Runs -> 0..2] /\ pc'[r] = "checked"
        /\ \A q \in Runs \ {r} : pc'[q] = pc[q]
    BY <1>4, ReturnsMoves DEF Program
  <1>6. /\ passed' \in [Runs -> 0..MaxSources] /\ passed'[r] = passed[r] + 1
        /\ \A q \in Runs \ {r} : passed'[q] = passed[q]
    BY <1>1, <1>4, ConstantsOK DEF PlacesTyped
  <1>7. \A q \in Runs : Len(results'[q]) <= Count(q)
    <2>1. Len(results'[r]) <= Count(r)
      BY <1>1, <1>3, ConstantsOK
    <2>2. \A q \in Runs \ {r} : Len(results'[q]) <= Count(q)
      BY <1>3 DEF MemoTyped
    <2> QED BY <2>1, <2>2
  <1>8. EventsTyped' /\ PlacesTyped' /\ MemoTyped' /\ StoreTyped'
    BY <1>3, <1>4, <1>5, <1>6, <1>7
       DEF EventsTyped, PlacesTyped, MemoTyped, StoreTyped, eventVars, kv, history
  <1>9. alert[r] = None
    BY <1>1, ConstantsOK DEF Control, ControlOK
  <1>10. ASSUME NEW q \in Runs PROVE ControlOK(q)'
    <2>1. CASE q = r
      BY <1>1, <1>3, <1>4, <1>5, <1>6, <1>9, <2>1 DEF ControlOK, AfterChecks
    <2>2. CASE q # r
      <3>1. UNCHANGED <<pc[q], passed[q], results[q], alert[q]>>
        BY <1>3, <1>4, <1>5, <1>6, <2>2
      <3> QED BY <3>1 DEF Control, ControlOK
    <2> QED BY <2>1, <2>2
  <1>11. Control'
    BY <1>8, <1>10, TypedAgain
  <1> QED BY <1>1, <1>2, <1>3, <1>4, <1>9, <1>11

LEMMA TimeoutControl == ASSUME Control, NEW r \in Runs, CheckTimesOut(r) PROVE Control'
  <1> Typed
    BY TypedIsTypeOK DEF Control
  <1> USE DEF Typed
  <1>1. /\ pc[r] = "check" /\ Throws(r, "check", 2)
        /\ UNCHANGED <<eventVars, memo, isolate, kv, history>>
    BY DEF CheckTimesOut
  <1>2. /\ pc' \in [Runs -> Program] /\ attempt' \in [Runs -> 0..2]
        /\ pc'[r] \in {"check", "catch"} /\ \A q \in Runs \ {r} : pc'[q] = pc[q]
    BY <1>1, ThrowsMoves DEF Program
  <1>3. EventsTyped' /\ PlacesTyped' /\ MemoTyped' /\ StoreTyped'
    BY <1>1, <1>2 DEF EventsTyped, PlacesTyped, MemoTyped, StoreTyped, eventVars, memo, isolate,
                      kv, history
  <1>4. ASSUME NEW q \in Runs PROVE ControlOK(q)'
    BY <1>1, <1>2 DEF Control, ControlOK, AfterChecks, memo, isolate
  <1> QED BY <1>3, <1>4, TypedAgain

LEMMA AnalyzeControl == ASSUME Control, NEW r \in Runs, Analyze(r) PROVE Control'
  <1> Typed
    BY TypedIsTypeOK DEF Control
  <1> USE DEF Typed
  <1> DEFINE found == {s \in Failing(r) :
                 r \notin Silent /\ FailedBefore(memory[r], s, FailureThreshold - 1)}
  <1>1. found \in SUBSET SourceNames /\ found # None
    <2>1. Failing(r) \subseteq SourceNames
      BY FailingOK, NamesOK DEF Control
    <2> QED BY <2>1, NoneAssumption
  <1>2. alert' = [alert EXCEPT ![r] = found] /\ pc[r] = "analyze" /\ Goes(r, "analyzed")
        /\ UNCHANGED <<eventVars, attempt, loaded, results, alerted, isolate, kv, history>>
    BY DEF Analyze
  <1> HIDE DEF found
  <1>3. /\ alert' \in [Runs -> {None} \cup SUBSET SourceNames] /\ alert'[r] # None
        /\ \A q \in Runs \ {r} : alert'[q] = alert[q]
    BY <1>1, <1>2 DEF MemoTyped
  <1>4. /\ pc' \in [Runs -> Program] /\ pc'[r] = "analyzed"
        /\ \A q \in Runs \ {r} : pc'[q] = pc[q]
    BY <1>2, Moves DEF Program
  <1>5. EventsTyped' /\ PlacesTyped' /\ MemoTyped' /\ StoreTyped'
    BY <1>2, <1>3, <1>4
       DEF EventsTyped, PlacesTyped, MemoTyped, StoreTyped, eventVars, isolate, kv, history
  <1>6. ASSUME NEW q \in Runs PROVE ControlOK(q)'
    BY <1>2, <1>3, <1>4 DEF Control, ControlOK, AfterChecks, isolate
  <1> QED BY <1>5, <1>6, TypedAgain

\* The steps after the analysis move a run on, or back to the beginning of a
\* step, or to the catch.
AfterAnalysis == {"alert", "store", "latest", "metrics", "count", "persist", "completed"}
LEMMA LatePhase ==
    ASSUME Control, NEW r \in Runs, NEW p \in AfterAnalysis, NEW begin \in {"alert", "store"},
           pc[r] \in AfterAnalysis, NoFault \/ Fault,
           \/ Goes(r, p) /\ UNCHANGED attempt
           \/ Returns(r, p)
           \/ Throws(r, begin, 2),
           UNCHANGED <<pending, log, emitted, repeating, results, alert, passed>>
    PROVE  /\ EventsTyped' /\ PlacesTyped' /\ \A q \in Runs : ControlOK(q)'
           /\ pc'[r] \in AfterAnalysis \cup {"catch"}
           /\ \A q \in Runs \ {r} : pc'[q] = pc[q]
  <1> Typed
    BY TypedIsTypeOK DEF Control
  <1> USE DEF Typed
  <1>1. EventsTyped'
    BY ConstantsOK DEF Fault, NoFault, EventsTyped
  <1>2. p \in Program /\ begin \in Program /\ begin \in AfterAnalysis
    BY DEF AfterAnalysis, Program
  <1>3. /\ pc' \in [Runs -> Program] /\ attempt' \in [Runs -> 0..2]
        /\ pc'[r] \in AfterAnalysis \cup {"catch"}
        /\ \A q \in Runs \ {r} : pc'[q] = pc[q]
    <2>1. CASE Goes(r, p) /\ UNCHANGED attempt
      BY <1>2, <2>1, Moves DEF PlacesTyped
    <2>2. CASE Returns(r, p)
      BY <1>2, <2>2, ReturnsMoves
    <2>3. CASE Throws(r, begin, 2)
      BY <1>2, <2>3, ThrowsMoves
    <2> QED BY <2>1, <2>2, <2>3
  <1>4. PlacesTyped'
    BY <1>3 DEF PlacesTyped
  <1>5. ASSUME NEW q \in Runs PROVE ControlOK(q)'
    <2>1. CASE q = r
      <3>1. ControlOK(r) /\ Len(results[r]) = Count(r) /\ alert[r] # None
        BY DEF Control, ControlOK, AfterAnalysis, AfterChecks
      <3> QED BY <1>3, <2>1, <3>1 DEF ControlOK, AfterAnalysis, AfterChecks
    <2>2. CASE q # r
      BY <1>3, <2>2 DEF Control, ControlOK
    <2> QED BY <2>1, <2>2
  <1> QED BY <1>1, <1>3, <1>4, <1>5

LEMMA SendAlertsControl == ASSUME Control, NEW r \in Runs, SendAlerts(r) PROVE Control'
  <1>1. /\ pc[r] = "alert" /\ (NoFault \/ Fault)
        /\ Returns(r, "store") \/ Throws(r, "alert", 2)
        /\ UNCHANGED <<pending, log, emitted, repeating, results, alert, passed>>
    BY DEF SendAlerts, isolate
  <1>2. EventsTyped' /\ PlacesTyped' /\ \A q \in Runs : ControlOK(q)'
    BY <1>1, LatePhase DEF AfterAnalysis
  <1>3. MemoTyped' /\ StoreTyped'
    BY TypedIsTypeOK DEF Control, Typed, SendAlerts, MemoTyped, StoreTyped, isolate, history
  <1> QED BY <1>2, <1>3, TypedAgain

LEMMA StoreHistoryControl == ASSUME Control, NEW r \in Runs, StoreHistory(r) PROVE Control'
  <1>1. /\ pc[r] = "store" /\ (NoFault \/ Fault)
        /\ (Goes(r, "latest") /\ UNCHANGED attempt) \/ Throws(r, "store", 2)
        /\ UNCHANGED <<pending, log, emitted, repeating, memo, passed, seen, latest, metrics, alerts, stored>>
        /\ hist' \in {hist, Unshifted(r)} /\ memory' = [memory EXCEPT ![r] = Unshifted(r)]
        /\ repeats' = repeats + IF \E i \in DOMAIN memory[r] : memory[r][i].run = r THEN 1 ELSE 0
    BY DEF StoreHistory, Put
  <1>2. EventsTyped' /\ PlacesTyped' /\ \A q \in Runs : ControlOK(q)'
    BY <1>1, LatePhase DEF AfterAnalysis, memo
  <1>3. Unshifted(r) \in Seq(Check)
    BY <1>1, UnshiftedType DEF Control, ControlOK, AfterChecks
  <1>4. MemoTyped' /\ StoreTyped'
    BY <1>1, <1>3, TypedIsTypeOK DEF Control, Typed, MemoTyped, StoreTyped, memo
  <1> QED BY <1>2, <1>4, TypedAgain

LEMMA StoreLatestControl == ASSUME Control, NEW r \in Runs, StoreLatest(r) PROVE Control'
  <1>1. /\ pc[r] = "latest" /\ (NoFault \/ Fault)
        /\ (Goes(r, "metrics") /\ UNCHANGED attempt) \/ Throws(r, "store", 2)
        /\ UNCHANGED <<pending, log, emitted, repeating, memo, isolate, hist, metrics, alerts, history>>
        /\ latest' \in {latest, r}
    BY DEF StoreLatest, Put
  <1>2. EventsTyped' /\ PlacesTyped' /\ \A q \in Runs : ControlOK(q)'
    BY <1>1, LatePhase DEF AfterAnalysis, memo, isolate
  <1>3. MemoTyped' /\ StoreTyped'
    BY <1>1, TypedIsTypeOK DEF Control, Typed, MemoTyped, StoreTyped, memo, isolate, history
  <1> QED BY <1>2, <1>3, TypedAgain

LEMMA ReadMetricsControl == ASSUME Control, NEW r \in Runs, ReadMetrics(r) PROVE Control'
  <1>1. /\ pc[r] = "metrics" /\ (NoFault \/ Fault)
        /\ (Goes(r, "count") /\ UNCHANGED attempt) \/ Throws(r, "store", 2)
        /\ UNCHANGED <<pending, log, emitted, repeating, memo, passed, memory, kv, history>>
        /\ seen' \in {seen, [seen EXCEPT ![r] = metrics]}
    BY DEF ReadMetrics
  <1>2. EventsTyped' /\ PlacesTyped' /\ \A q \in Runs : ControlOK(q)'
    BY <1>1, LatePhase DEF AfterAnalysis, memo
  <1>3. MemoTyped' /\ StoreTyped'
    BY <1>1, TypedIsTypeOK DEF Control, Typed, MemoTyped, StoreTyped, memo, kv, history
  <1> QED BY <1>2, <1>3, TypedAgain

LEMMA StoreMetricsControl == ASSUME Control, NEW r \in Runs, StoreMetrics(r) PROVE Control'
  <1>1. /\ pc[r] = "count" /\ (NoFault \/ Fault)
        /\ (Goes(r, "persist") /\ UNCHANGED attempt) \/ Throws(r, "store", 2)
        /\ UNCHANGED <<pending, log, emitted, repeating, memo, isolate, hist, latest, alerts, history>>
        /\ metrics' \in {metrics, Counted(r)}
    BY DEF StoreMetrics, Put
  <1>2. EventsTyped' /\ PlacesTyped' /\ \A q \in Runs : ControlOK(q)'
    BY <1>1, LatePhase DEF AfterAnalysis, memo, isolate
  <1>3. Counted(r) \in Totals
    <2>1. seen[r] \in Totals
      BY DEF Control, TypeOK
    <2> QED BY <2>1 DEF Counted, Totals
  <1>4. MemoTyped' /\ StoreTyped'
    BY <1>1, <1>3, TypedIsTypeOK DEF Control, Typed, MemoTyped, StoreTyped, memo, isolate, history
  <1> QED BY <1>2, <1>4, TypedAgain

LEMMA PersistControl == ASSUME Control, NEW r \in Runs, Persist(r) PROVE Control'
  <1>1. /\ pc[r] = "persist" /\ NoFault /\ Returns(r, "completed")
        /\ stored' = <<Record(r)>> \o stored
        /\ UNCHANGED <<eventVars, memo, isolate, kv, repeats>>
    BY DEF Persist, NoFault, eventVars
  <1>2. EventsTyped' /\ PlacesTyped' /\ \A q \in Runs : ControlOK(q)'
    BY <1>1, LatePhase DEF AfterAnalysis, memo, isolate, eventVars
  <1>3. <<Record(r)>> \o stored \in Seq(Check)
    BY <1>1, UnshiftedType DEF Control, TypeOK, ControlOK, AfterChecks
  <1>4. MemoTyped' /\ StoreTyped'
    BY <1>1, <1>3, TypedIsTypeOK DEF Control, Typed, MemoTyped, StoreTyped, memo, isolate, kv
  <1> QED BY <1>2, <1>4, TypedAgain

LEMMA NextControl == Control /\ [Next]_vars => Control'
  <1> SUFFICES ASSUME Control, [Next]_vars PROVE Control'
    OBVIOUS
  <1>1. ASSUME NEW r \in Runs, Begin(r) \/ Step(r) \/ Restart(r) PROVE Control'
    BY <1>1, BeginControl, ReportControl, LastFlushControl, ReplayControl, LoadControl,
       CheckControl, TimeoutControl, AnalyzeControl, SendAlertsControl, StoreHistoryControl,
       StoreLatestControl, ReadMetricsControl, StoreMetricsControl, PersistControl,
       RestartControl
       DEF Step
  <1>2. CASE UNCHANGED vars
    <2>1. EventsTyped' /\ PlacesTyped' /\ MemoTyped' /\ StoreTyped'
      BY <1>2, TypedIsTypeOK DEF Control, Typed, vars, eventVars, memo, isolate, kv, history,
                                 EventsTyped, PlacesTyped, MemoTyped, StoreTyped
    <2>2. \A r \in Runs : ControlOK(r)'
      BY <1>2 DEF Control, ControlOK, vars, memo, isolate
    <2> QED BY <2>1, <2>2, TypedAgain
  <1> QED BY <1>1, <1>2 DEF Next

-----------------------------------------------------------------------------
\* What a flush does to what the emitter has: whatever fails, the newest event
\* is in the log or in the buffer, and nothing is cut off a log that has room.
LEMMA FlushKeeps ==
    ASSUME TypeOK, NEW r \in Runs, NEW buffer \in Seq(Events), FlushOf(r, buffer),
           NEW held, held = log[r] \o buffer
    PROVE  /\ Len(log'[r]) < MaxEvents =>
                 /\ Len(log[r]) < MaxEvents
                 /\ \A x : In(x, held) => In(x, Held(r)')
           /\ r \notin repeating' =>
                 /\ r \notin repeating
                 /\ Distinct(held) => Distinct(Held(r)')
                 /\ \A i \in 1..Len(Held(r)') : In(Held(r)'[i], held)
           /\ EndsWithEnd(held) =>
                 /\ EndsWithEnd(Held(r)')
                 /\ EndsWithEnd(log'[r]) \/ (log'[r] = log[r] /\ faults' = faults + 1)
  <1>1. /\ log[r] \in Seq(Events) /\ log \in [Runs -> Seq(Events)]
        /\ pending \in [Runs -> Seq(Events)]
    BY TypedIsTypeOK DEF Typed, EventsTyped
  <1>2. /\ held \in Seq(Events) /\ Len(held) = Len(log[r]) + Len(buffer)
        /\ Len(log[r]) \in Nat /\ Len(buffer) \in Nat /\ Len(held) \in Nat
        /\ \A i \in 1..Len(buffer) : held[Len(log[r]) + i] = buffer[i]
    BY <1>1, Joined
  <1> DEFINE cut == Latest(held)
  <1>3. /\ cut \in Seq(Events) /\ Len(cut) \in Nat /\ MaxEvents \in Nat /\ MaxEvents > 0
        /\ Len(cut) = IF Len(held) > MaxEvents THEN MaxEvents ELSE Len(held)
        /\ \A i \in 1..Len(cut) : cut[i] = held[Len(held) - Len(cut) + i]
        /\ Len(held) <= MaxEvents => cut = held
    BY <1>2, LatestOf, ConstantsOK
  <1>4. /\ \A i \in 1..Len(cut) : In(cut[i], held)
        /\ Distinct(held) => Distinct(cut)
        /\ EndsWithEnd(held) => EndsWithEnd(cut)
        /\ Len(cut) < MaxEvents => cut = held /\ Len(log[r]) < MaxEvents
    <2>1. \A i \in 1..Len(cut) : Len(held) - Len(cut) + i \in 1..Len(held)
      BY <1>2, <1>3
    <2>2. \A i \in 1..Len(cut) : In(cut[i], held)
      BY <1>3, <2>1 DEF In
    <2>3. Distinct(held) => Distinct(cut)
      <3>1. ASSUME Distinct(held), NEW i \in 1..Len(cut), NEW j \in 1..Len(cut), cut[i] = cut[j]
            PROVE  i = j
        <4>1. held[Len(held) - Len(cut) + i] = held[Len(held) - Len(cut) + j]
          BY <1>3, <3>1
        <4>2. Len(held) - Len(cut) + i = Len(held) - Len(cut) + j
          BY <2>1, <3>1, <4>1 DEF Distinct
        <4> QED BY <1>2, <1>3, <4>2
      <3> QED BY <3>1 DEF Distinct
    <2>4. EndsWithEnd(held) => EndsWithEnd(cut)
      <3>1. Len(held) > 0 => Len(cut) \in 1..Len(cut) /\ Len(held) - Len(cut) + Len(cut) = Len(held)
        BY <1>2, <1>3
      <3> QED BY <1>3, <3>1 DEF EndsWithEnd
    <2>5. Len(cut) < MaxEvents => cut = held /\ Len(log[r]) < MaxEvents
      BY <1>2, <1>3
    <2> QED BY <2>2, <2>3, <2>4, <2>5
  <1> HIDE DEF cut
  <1>5. CASE /\ pending' = [pending EXCEPT ![r] = <<>>]
             /\ log' = [log EXCEPT ![r] = Latest(@ \o buffer)]
             /\ UNCHANGED repeating
    <2>1. log'[r] = cut /\ Held(r)' = cut
      <3>1. log'[r] = cut /\ pending'[r] = <<>>
        BY <1>1, <1>5 DEF cut
      <3> QED BY <1>3, <3>1, ConcatEmptySeq DEF Held
    <2> QED BY <1>4, <1>5, <2>1
  <1>6. CASE /\ buffer # <<>>
             /\ pending' = [pending EXCEPT ![r] = buffer]
             /\ UNCHANGED <<log, repeating>> /\ Fault
    <2>1. log'[r] = log[r] /\ Held(r)' = held /\ faults' = faults + 1
      BY <1>1, <1>6 DEF Held, Fault
    <2>2. \A i \in 1..Len(held) : In(held[i], held)
      BY DEF In
    <2> QED BY <1>6, <2>1, <2>2
  <1>7. CASE /\ buffer # <<>>
             /\ pending' = [pending EXCEPT ![r] = buffer]
             /\ log' = [log EXCEPT ![r] = Latest(@ \o buffer)]
             /\ repeating' = repeating \cup {r}
    <2>1. log'[r] = cut /\ pending'[r] = buffer /\ Held(r)' = cut \o buffer
      BY <1>1, <1>7 DEF cut, Held
    <2>2. /\ Len(cut \o buffer) = Len(cut) + Len(buffer)
          /\ \A i \in 1..Len(cut) : (cut \o buffer)[i] = cut[i]
          /\ \A i \in 1..Len(buffer) : (cut \o buffer)[Len(cut) + i] = buffer[i]
      <3>1. cut \in Seq(Events) /\ buffer \in Seq(Events)
        BY <1>3
      <3> QED BY <3>1, Joined
    <2>3. Len(buffer) > 0
      BY <1>2, <1>7, EmptySeq
    <2>4. \A x : In(x, cut) => In(x, cut \o buffer)
      BY <1>2, <1>3, <2>2 DEF In
    <2>5. EndsWithEnd(held) => EndsWithEnd(cut \o buffer)
      <3>1. (cut \o buffer)[Len(cut \o buffer)] = buffer[Len(buffer)]
        BY <1>2, <1>3, <2>2, <2>3
      <3>2. held[Len(held)] = buffer[Len(buffer)]
        BY <1>2, <2>3
      <3> QED BY <1>2, <1>3, <2>2, <2>3, <3>1, <3>2 DEF EndsWithEnd
    <2> QED BY <1>4, <1>7, <2>1, <2>4, <2>5
  <1> QED BY <1>5, <1>6, <1>7 DEF FlushOf

LEMMA FlushOthers ==
    ASSUME TypeOK, NEW r \in Runs, NEW buffer \in Seq(Events), FlushOf(r, buffer)
    PROVE  /\ \A q \in Runs \ {r} : UNCHANGED <<pending[q], log[q]>>
           /\ \A q \in Runs \ {r} : q \in repeating' <=> q \in repeating
           /\ repeating \subseteq repeating'
BY TypedIsTypeOK DEF Typed, EventsTyped, FlushOf

\* The numbers of the events, and of the places of a run.
LEMMA Numbers ==
    /\ \A e \in Events : Rank(e) \in Nat
    /\ Control => \A r \in Runs : Bound(r) \in Nat
  <1>1. \A e \in Events : Rank(e) \in Nat
    BY ConstantsOK DEF Events, Rank
  <1>2. ASSUME Control, NEW r \in Runs PROVE Bound(r) \in Nat
    <2>1. passed[r] \in Nat
      BY <1>2, TypedIsTypeOK, ConstantsOK DEF Control, Typed, PlacesTyped
    <2> QED BY <2>1, ConstantsOK DEF Bound
  <1> QED BY <1>1, <1>2

\* A run whose emitter is left alone, that stays where it is or goes to a place
\* before its end with events no earlier than before.
LEMMA Aside ==
    ASSUME Control, EventsOK, Control', NEW q \in Runs,
           UNCHANGED <<pending[q], log[q], emitted[q]>>,
           q \in repeating => q \in repeating', faults' >= faults,
           \/ UNCHANGED <<pc[q], passed[q]>>
           \/ Bound(q)' >= Bound(q) /\ pc'[q] \notin {"last", "lastCatch"} \cup Ended
    PROVE  Kept(q)' /\ Once(q)' /\ Ending(q)'
  <1>1. /\ Held(q)' = Held(q) /\ Held(q) \in Seq(Events) /\ log'[q] = log[q]
        /\ emitted'[q] = emitted[q]
    BY TypedIsTypeOK, Joined DEF Control, Typed, EventsTyped, Held
  <1>2. Kept(q)'
    BY <1>1 DEF EventsOK, Kept, In
  <1>3. Bound(q)' >= Bound(q) /\ Bound(q) \in Nat /\ Bound(q)' \in Nat
    <2>1. Bound(q) \in Nat
      BY Numbers
    <2>2. Bound(q)' >= Bound(q)
      BY <2>1 DEF Bound
    <2>3. passed'[q] \in Nat
      BY TypedIsTypeOK, ConstantsOK DEF Control, TypeOK
    <2>4. Bound(q)' \in Nat
      BY <2>3, ConstantsOK DEF Bound
    <2> QED BY <2>1, <2>2, <2>4
  <1>4. \A i \in 1..Len(Held(q)) : Rank(Held(q)[i]) \in Nat
    BY <1>1, Numbers, ElementOfSeq
  <1>5. Once(q)'
    <2>1. q \notin repeating' => q \notin repeating
      OBVIOUS
    <2> QED BY <1>1, <1>3, <1>4, <2>1 DEF EventsOK, Once, Distinct
  <1>6. Ending(q)'
    <2>1. faults \in Nat /\ faults' \in Nat
      BY ConstantsOK DEF Control, TypeOK
    <2>2. CASE UNCHANGED <<pc[q], passed[q]>>
      BY <1>1, <2>1, <2>2 DEF EventsOK, Ending, EndsWithEnd
    <2>3. CASE pc'[q] \notin {"last", "lastCatch"} \cup Ended
      BY <2>3 DEF Ending
    <2> QED BY <2>2, <2>3
  <1> QED BY <1>2, <1>5, <1>6

LEMMA ReportEvents ==
    ASSUME Control, EventsOK, Control', NEW r \in Runs, Report(r)
    PROVE  EventsOK'
  <1> DEFINE e == Event(pc[r], IF pc[r] = "checked" THEN passed[r] ELSE 0)
             buffer == Append(pending[r], e)
             held == log[r] \o buffer
  <1>1. /\ pending \in [Runs -> Seq(Events)] /\ log \in [Runs -> Seq(Events)]
        /\ passed \in [Runs -> 0..MaxSources] /\ pc \in [Runs -> Program]
        /\ emitted \in [Runs -> SUBSET Events] /\ faults \in Nat /\ faults' \in Nat
    <2>1. faults \in Nat /\ faults' \in Nat
      BY ConstantsOK DEF Control, TypeOK
    <2> QED BY <2>1, TypedIsTypeOK DEF Control, Typed, EventsTyped, PlacesTyped
  <1>2. /\ pc[r] \in {"start", "loaded", "checked", "analyzed", "completed", "catch"}
        /\ FlushOf(r, buffer) /\ emitted' = [emitted EXCEPT ![r] = @ \cup {e}]
        /\ Goes(r, AfterReport(r)) /\ UNCHANGED passed
    BY DEF Report, Emit, isolate
  <1>3. e \in Events
    BY <1>1, ConstantsOK DEF Event, Events
  <1>4. buffer \in Seq(Events)
    BY <1>1, <1>3, AppendProperties
  <1>5. /\ held \in Seq(Events) /\ held = Append(Held(r), e) /\ Held(r) \in Seq(Events)
        /\ Len(held) = Len(Held(r)) + 1 /\ Len(Held(r)) \in Nat
        /\ held[Len(Held(r)) + 1] = e /\ \A i \in 1..Len(Held(r)) : held[i] = Held(r)[i]
    <2>1. held \in Seq(Events) /\ Held(r) \in Seq(Events)
      BY <1>1, <1>4, Joined DEF Held
    <2>2. /\ buffer = pending[r] \o <<e>>
          /\ Append(Held(r), e) = Held(r) \o <<e>>
          /\ Held(r) \o <<e>> = log[r] \o (pending[r] \o <<e>>)
      <3>1. <<e>> \in Seq(Events) /\ pending[r] \in Seq(Events) /\ log[r] \in Seq(Events)
        BY <1>1, <1>3
      <3> HIDE DEF e
      <3>2. buffer = pending[r] \o <<e>>
        BY <1>3, <3>1, AppendIsConcat
      <3>3. Append(Held(r), e) = Held(r) \o <<e>>
        BY <1>3, <2>1, AppendIsConcat
      <3>4. (log[r] \o pending[r]) \o <<e>> = log[r] \o (pending[r] \o <<e>>)
        <4>1. \A u, v, w \in Seq(Events) : (u \o v) \o w = u \o (v \o w)
          BY ConcatAssociative
        <4> QED BY <3>1, <4>1
      <3> QED BY <3>2, <3>3, <3>4 DEF Held
    <2>3. held = Append(Held(r), e)
      BY <2>2
    <2> HIDE DEF held
    <2> QED BY <1>3, <2>1, <2>3, AppendProperties, LenProperties
  <1>6. pc' = [pc EXCEPT ![r] = AfterReport(r)] /\ passed' = passed
    BY <1>2 DEF Goes
  <1>7. /\ Rank(e) = Bound(r) /\ Rank(e) \in Nat
        /\ Bound(r)' \in Nat /\ Bound(r)' > Rank(e)
        /\ pc'[r] \in {"last", "lastCatch"} => IsEnd(e)
        /\ pc'[r] \notin Ended
    <2>1. pc'[r] = AfterReport(r) /\ passed[r] \in Nat /\ passed'[r] = passed[r]
      BY <1>1, <1>6
    <2>2. /\ pc[r] = "start" => Rank(e) = 0 /\ Bound(r) = 0 /\ pc'[r] = "load"
          /\ pc[r] = "loaded" => Rank(e) = 1 /\ Bound(r) = 1 /\ pc'[r] = "check"
          /\ pc[r] = "checked" =>
                /\ Rank(e) = 1 + passed[r] /\ Bound(r) = 1 + passed[r]
                /\ pc'[r] = "check" \/ (pc'[r] = "analyze" /\ passed[r] <= MaxSources)
          /\ pc[r] = "analyzed" =>
                Rank(e) = MaxSources + 2 /\ Bound(r) = MaxSources + 2 /\ pc'[r] \in {"alert", "store"}
          /\ pc[r] = "completed" =>
                Rank(e) = MaxSources + 3 /\ Bound(r) = MaxSources + 3 /\ pc'[r] = "last" /\ IsEnd(e)
          /\ pc[r] = "catch" =>
                /\ Rank(e) = MaxSources + 4 /\ Bound(r) = MaxSources + 4
                /\ pc'[r] = "lastCatch" /\ IsEnd(e)
      <3>1. /\ e.at = pc[r] /\ e.n = IF pc[r] = "checked" THEN passed[r] ELSE 0
            /\ pc'[r] = AfterReport(r) /\ passed[r] \in 0..MaxSources
        BY <1>1, <2>1 DEF Event
      <3> HIDE DEF e
      <3>2. /\ pc[r] = "start" => Rank(e) = 0 /\ pc'[r] = "load"
            /\ pc[r] = "loaded" => Rank(e) = 1 /\ pc'[r] = "check"
            /\ pc[r] = "checked" =>
                  /\ Rank(e) = 1 + passed[r]
                  /\ pc'[r] = "check" \/ (pc'[r] = "analyze" /\ passed[r] <= MaxSources)
            /\ pc[r] = "analyzed" => Rank(e) = MaxSources + 2 /\ pc'[r] \in {"alert", "store"}
            /\ pc[r] = "completed" => Rank(e) = MaxSources + 3 /\ pc'[r] = "last" /\ IsEnd(e)
            /\ pc[r] = "catch" => Rank(e) = MaxSources + 4 /\ pc'[r] = "lastCatch" /\ IsEnd(e)
        BY <3>1, ConstantsOK DEF Rank, AfterReport, IsEnd
      <3>3. /\ pc[r] = "start" => Bound(r) = 0
            /\ pc[r] = "loaded" => Bound(r) = 1
            /\ pc[r] = "checked" => Bound(r) = 1 + passed[r]
            /\ pc[r] = "analyzed" => Bound(r) = MaxSources + 2
            /\ pc[r] = "completed" => Bound(r) = MaxSources + 3
            /\ pc[r] = "catch" => Bound(r) = MaxSources + 4
        BY DEF Bound
      <3> QED BY <3>2, <3>3
    <2>3. /\ pc'[r] = "load" => Bound(r)' = 1
          /\ pc'[r] = "check" => Bound(r)' = 2 + passed[r]
          /\ pc'[r] = "analyze" => Bound(r)' = MaxSources + 2
          /\ pc'[r] \in {"alert", "store"} => Bound(r)' = MaxSources + 3
          /\ pc'[r] = "last" => Bound(r)' = MaxSources + 4
          /\ pc'[r] = "lastCatch" => Bound(r)' = MaxSources + 5
      BY <2>1 DEF Bound
    <2> HIDE DEF e
    <2> QED BY <1>2, <2>1, <2>2, <2>3, ConstantsOK DEF Ended
  <1> HIDE DEF e
  <1>8. /\ Len(log'[r]) < MaxEvents =>
              Len(log[r]) < MaxEvents /\ \A x : In(x, held) => In(x, Held(r)')
        /\ r \notin repeating' =>
              /\ r \notin repeating
              /\ Distinct(held) => Distinct(Held(r)')
              /\ \A i \in 1..Len(Held(r)') : In(Held(r)'[i], held)
        /\ EndsWithEnd(held) =>
              /\ EndsWithEnd(Held(r)')
              /\ EndsWithEnd(log'[r]) \/ faults' = faults + 1
    BY <1>2, <1>4, FlushKeeps DEF Control
  <1> HIDE DEF held, buffer
  <1>9. Kept(r)'
    <2>1. emitted'[r] \subseteq emitted[r] \cup {e}
      BY <1>1, <1>2
    <2>2. In(e, held) /\ \A x : In(x, Held(r)) => In(x, held)
      BY <1>5 DEF In
    <2>3. Len(log'[r]) < MaxEvents => \A x \in emitted[r] : In(x, Held(r)')
      BY <1>8, <2>2 DEF EventsOK, Kept
    <2> QED BY <1>8, <2>1, <2>2, <2>3 DEF Kept
  <1>10. Once(r)'
    <2>1. SUFFICES ASSUME r \notin repeating'
                   PROVE  /\ Distinct(Held(r)')
                          /\ \A i \in 1..Len(Held(r)') : Rank(Held(r)'[i]) < Bound(r)'
      BY DEF Once
    <2>2. Distinct(Held(r)) /\ \A i \in 1..Len(Held(r)) : Rank(Held(r)[i]) < Bound(r)
      BY <1>8, <2>1 DEF EventsOK, Once
    <2>3. \A i \in 1..Len(Held(r)) : Held(r)[i] # e
      BY <1>7, <2>2
    <2>4. Distinct(held)
      BY <1>5, <2>2, <2>3 DEF Distinct
    <2>5. \A i \in 1..Len(held) : Rank(held[i]) < Bound(r)'
      <3>1. Bound(r) \in Nat /\ \A i \in 1..Len(Held(r)) : Rank(Held(r)[i]) \in Nat
        BY <1>5, <1>7, Numbers, ElementOfSeq
      <3>2. \A i \in 1..Len(Held(r)) : Rank(Held(r)[i]) < Bound(r)'
        BY <1>7, <2>2, <3>1
      <3> QED BY <1>5, <1>7, <3>2
    <2>6. \A i \in 1..Len(Held(r)') : Rank(Held(r)'[i]) < Bound(r)'
      BY <1>8, <2>1, <2>5 DEF In
    <2> QED BY <1>8, <2>1, <2>4, <2>6
  <1>11. Ending(r)'
    <2>1. IsEnd(e) => EndsWithEnd(held)
      BY <1>5 DEF EndsWithEnd
    <2>2. faults' = faults + 1 => faults' >= 1
      BY <1>1
    <2> QED BY <1>7, <1>8, <2>1, <2>2 DEF Ending
  <1>12. ASSUME NEW q \in Runs \ {r} PROVE Kept(q)' /\ Once(q)' /\ Ending(q)'
    <2>1. /\ UNCHANGED <<pending[q], log[q]>>
          /\ q \in repeating => q \in repeating'
          /\ faults' >= faults
      BY <1>2, <1>4, FlushOthers, FlushType DEF Control
    <2>2. UNCHANGED <<emitted[q], pc[q], passed[q]>>
      BY <1>1, <1>2, <1>6
    <2> QED BY <2>1, <2>2, Aside
  <1> QED BY <1>9, <1>10, <1>11, <1>12 DEF EventsOK

LEMMA LastFlushEvents ==
    ASSUME Control, EventsOK, Control', NEW r \in Runs, LastFlush(r)
    PROVE  EventsOK'
  <1>1. /\ pending \in [Runs -> Seq(Events)] /\ log \in [Runs -> Seq(Events)]
        /\ passed \in [Runs -> 0..MaxSources] /\ pc \in [Runs -> Program]
        /\ emitted \in [Runs -> SUBSET Events] /\ faults \in Nat /\ faults' \in Nat
    <2>1. faults \in Nat /\ faults' \in Nat
      BY ConstantsOK DEF Control, TypeOK
    <2> QED BY <2>1, TypedIsTypeOK DEF Control, Typed, EventsTyped, PlacesTyped
  <1>2. /\ pc[r] \in {"last", "lastCatch"} /\ pc'[r] \in Ended
        /\ FlushOf(r, pending[r]) /\ UNCHANGED emitted
        /\ passed' = [passed EXCEPT ![r] = 0]
        /\ \A q \in Runs \ {r} : UNCHANGED pc[q]
    BY <1>1 DEF LastFlush, Flush, Goes, Ended
  <1>3. pending[r] \in Seq(Events) /\ Held(r) \in Seq(Events) /\ Held(r) = log[r] \o pending[r]
    BY <1>1, Joined DEF Held
  <1>4. /\ Len(log'[r]) < MaxEvents =>
              Len(log[r]) < MaxEvents /\ \A x : In(x, Held(r)) => In(x, Held(r)')
        /\ r \notin repeating' =>
              /\ r \notin repeating
              /\ Distinct(Held(r)) => Distinct(Held(r)')
              /\ \A i \in 1..Len(Held(r)') : In(Held(r)'[i], Held(r))
        /\ EndsWithEnd(Held(r)) =>
              EndsWithEnd(log'[r]) \/ (log'[r] = log[r] /\ faults' = faults + 1)
    BY <1>2, <1>3, FlushKeeps DEF Control
  <1>5. Kept(r)'
    BY <1>2, <1>4 DEF EventsOK, Kept
  <1>6. Once(r)'
    <2>1. SUFFICES ASSUME r \notin repeating'
                   PROVE  /\ Distinct(Held(r)')
                          /\ \A i \in 1..Len(Held(r)') : Rank(Held(r)'[i]) < Bound(r)'
      BY DEF Once
    <2>2. Distinct(Held(r)) /\ \A i \in 1..Len(Held(r)) : Rank(Held(r)[i]) < Bound(r)
      BY <1>4, <2>1 DEF EventsOK, Once
    <2>3. Bound(r)' = MaxSources + 5 /\ Bound(r) \in {MaxSources + 4, MaxSources + 5}
      BY <1>2 DEF Bound, Ended
    <2>4. \A i \in 1..Len(Held(r)) : Rank(Held(r)[i]) < Bound(r)'
      <3>1. \A i \in 1..Len(Held(r)) : Rank(Held(r)[i]) \in Nat
        BY <1>3, Numbers, ElementOfSeq
      <3> QED BY <2>2, <2>3, <3>1, ConstantsOK
    <2>5. \A i \in 1..Len(Held(r)') : Rank(Held(r)'[i]) < Bound(r)'
      BY <1>4, <2>1, <2>4 DEF In
    <2> QED BY <1>4, <2>1, <2>2, <2>5
  <1>7. Ending(r)'
    <2>1. EndsWithEnd(Held(r)) /\ (EndsWithEnd(log[r]) \/ faults >= 1)
      BY <1>2 DEF EventsOK, Ending
    <2>2. EndsWithEnd(log'[r]) \/ faults' >= 2
      BY <1>1, <1>4, <2>1
    <2> QED BY <1>2, <2>2 DEF Ending, Ended
  <1>8. ASSUME NEW q \in Runs \ {r} PROVE Kept(q)' /\ Once(q)' /\ Ending(q)'
    <2>1. /\ UNCHANGED <<pending[q], log[q]>>
          /\ q \in repeating => q \in repeating'
          /\ faults' >= faults
      BY <1>2, <1>3, FlushOthers, FlushType DEF Control
    <2>2. UNCHANGED <<emitted[q], pc[q], passed[q]>>
      BY <1>1, <1>2
    <2> QED BY <2>1, <2>2, Aside
  <1> QED BY <1>5, <1>6, <1>7, <1>8 DEF EventsOK

LEMMA RestartEvents ==
    ASSUME Control, EventsOK, Control', NEW r \in Runs, Restart(r)
    PROVE  EventsOK'
  <1>1. /\ pending \in [Runs -> Seq(Events)] /\ emitted' = [emitted EXCEPT ![r] = {}]
        /\ passed \in [Runs -> 0..MaxSources] /\ pc \in [Runs -> Program]
        /\ emitted \in [Runs -> SUBSET Events]
        /\ pending' = [pending EXCEPT ![r] = <<>>] /\ UNCHANGED log
        /\ repeating' = repeating \cup {r} /\ faults' >= faults
        /\ pc' = [pc EXCEPT ![r] = "start"] /\ passed' = [passed EXCEPT ![r] = 0]
    <2>1. faults' >= faults
      BY ConstantsOK DEF Restart, Forgotten, Fault, Control, TypeOK
    <2> QED BY <2>1, TypedIsTypeOK DEF Control, Typed, EventsTyped, PlacesTyped, Restart,
                                       Forgotten, Goes
  <1>2. Kept(r)' /\ Once(r)' /\ Ending(r)'
    <2>1. r \in repeating' /\ pc'[r] = "start"
      BY <1>1
    <2>2. Kept(r)'
      BY <1>1 DEF Kept
    <2>3. Once(r)' /\ Ending(r)'
      BY <2>1 DEF Once, Ending, Ended
    <2> QED BY <2>2, <2>3
  <1>3. ASSUME NEW q \in Runs \ {r} PROVE Kept(q)' /\ Once(q)' /\ Ending(q)'
    BY <1>1, Aside
  <1> QED BY <1>2, <1>3 DEF EventsOK

\* The other steps leave the emitters alone, and no place they go to has
\* earlier events.
LEMMA ForwardEvents ==
    ASSUME Control, EventsOK, Control', NEW r \in Runs,
           UNCHANGED <<pending, log, emitted, repeating>>, NoFault \/ Fault,
           \A q \in Runs \ {r} : UNCHANGED <<pc[q], passed[q]>>,
           pc'[r] \notin {"last", "lastCatch"} \cup Ended,
           Bound(r)' >= Bound(r)
    PROVE  EventsOK'
  <1>1. faults' >= faults
    BY ConstantsOK DEF NoFault, Fault, Control, TypeOK
  <1>2. ASSUME NEW q \in Runs PROVE Kept(q)' /\ Once(q)' /\ Ending(q)'
    BY <1>1, Aside
  <1> QED BY <1>2 DEF EventsOK

LEMMA LateEvents ==
    ASSUME Control, EventsOK, Control', NEW r \in Runs,
           UNCHANGED <<pending, log, emitted, repeating, passed>>, NoFault \/ Fault,
           \A q \in Runs \ {r} : UNCHANGED pc[q],
           pc[r] \in AfterAnalysis, pc'[r] \in AfterAnalysis \cup {"catch"}
    PROVE  EventsOK'
  <1>1. Bound(r) = MaxSources + 3 /\ Bound(r)' \in {MaxSources + 3, MaxSources + 4}
    BY DEF AfterAnalysis, Bound
  <1>2. pc'[r] \notin {"last", "lastCatch"} \cup Ended
    BY DEF AfterAnalysis, Ended
  <1> QED BY <1>1, <1>2, ForwardEvents, ConstantsOK

LEMMA NextEvents == Control /\ EventsOK /\ Control' /\ [Next]_vars => EventsOK'
  <1> SUFFICES ASSUME Control, EventsOK, Control', [Next]_vars PROVE EventsOK'
    OBVIOUS
  <1>1. /\ pc \in [Runs -> Program] /\ passed \in [Runs -> 0..MaxSources]
        /\ attempt \in [Runs -> 0..2]
        /\ \A q \in Runs : passed[q] \in Nat /\ passed[q] <= MaxSources
    BY TypedIsTypeOK, ConstantsOK DEF Control, Typed, PlacesTyped
  <1>2. PlacesTyped
    BY TypedIsTypeOK DEF Control, Typed
  <1>3. ASSUME NEW r \in Runs, Begin(r) PROVE EventsOK'
    <2>1. /\ pc[r] = "new" /\ pc'[r] = "start" /\ (NoFault \/ Fault)
          /\ \A q \in Runs \ {r} : UNCHANGED pc[q]
          /\ UNCHANGED <<pending, log, emitted, repeating, passed>>
      BY <1>1, <1>3 DEF Begin, Goes, isolate
    <2>2. Bound(r) = 0 /\ Bound(r)' = 0
      BY <2>1 DEF Bound
    <2> QED BY <2>1, <2>2, ForwardEvents DEF Ended
  <1>4. ASSUME NEW r \in Runs, Replay(r) PROVE EventsOK'
    <2>1. /\ \A q \in Runs \ {r} : UNCHANGED <<pc[q], passed[q]>>
          /\ UNCHANGED eventVars
          /\ \/ pc[r] = "load" /\ pc'[r] = "loaded"
             \/ pc[r] = "check" /\ pc'[r] = "checked" /\ passed'[r] = passed[r] + 1
             \/ pc[r] = "analyze" /\ pc'[r] = "analyzed"
             \/ pc[r] \in AfterAnalysis /\ pc'[r] \in {"store", "completed"}
      BY <1>1, <1>4 DEF Replay, Goes, AfterAnalysis
    <2>2. Bound(r)' >= Bound(r)
      BY <1>1, <2>1, ConstantsOK DEF Bound, AfterAnalysis
    <2>3. pc'[r] \notin {"last", "lastCatch"} \cup Ended
      BY <2>1 DEF Ended
    <2> QED BY <2>1, <2>2, <2>3, ForwardEvents DEF eventVars, NoFault
  <1>5. ASSUME NEW r \in Runs, Load(r) PROVE EventsOK'
    <2>1. /\ pc[r] = "load" /\ pc'[r] \in {"load", "loaded", "catch"} /\ (NoFault \/ Fault)
          /\ \A q \in Runs \ {r} : UNCHANGED pc[q]
          /\ UNCHANGED <<pending, log, emitted, repeating, passed>>
      BY <1>1, <1>5 DEF Load, Returns, Throws, Goes
    <2>2. Bound(r)' >= Bound(r)
      BY <2>1, ConstantsOK DEF Bound
    <2> QED BY <2>1, <2>2, ForwardEvents DEF Ended
  <1>6. ASSUME NEW r \in Runs, (\E ok \in BOOLEAN : CheckSource(r, ok)) \/ CheckTimesOut(r)
        PROVE  EventsOK'
    <2>1. /\ pc[r] = "check" /\ UNCHANGED eventVars
          /\ \A q \in Runs \ {r} : UNCHANGED <<pc[q], passed[q]>>
          /\ \/ pc'[r] = "checked" /\ passed'[r] = passed[r] + 1
             \/ pc'[r] = "check" /\ UNCHANGED passed
             \/ pc'[r] = "catch"
      BY <1>1, <1>6 DEF CheckSource, CheckTimesOut, Returns, Throws, Goes, isolate
    <2>2. Bound(r)' >= Bound(r)
      BY <1>1, <2>1, ConstantsOK DEF Bound
    <2>3. pc'[r] \notin {"last", "lastCatch"} \cup Ended
      BY <2>1 DEF Ended
    <2> QED BY <2>1, <2>2, <2>3, ForwardEvents DEF eventVars, NoFault
  <1>7. ASSUME NEW r \in Runs, Analyze(r) PROVE EventsOK'
    <2>1. /\ pc[r] = "analyze" /\ pc'[r] = "analyzed" /\ UNCHANGED <<eventVars, passed>>
          /\ \A q \in Runs \ {r} : UNCHANGED pc[q]
      BY <1>1, <1>7 DEF Analyze, Goes, isolate
    <2>2. Bound(r)' >= Bound(r)
      BY <2>1, ConstantsOK DEF Bound
    <2> QED BY <2>1, <2>2, ForwardEvents DEF eventVars, NoFault, Ended
  <1>8. ASSUME NEW r \in Runs,
               SendAlerts(r) \/ StoreHistory(r) \/ StoreLatest(r) \/ ReadMetrics(r)
                             \/ StoreMetrics(r) \/ Persist(r)
        PROVE  EventsOK'
    <2>1. /\ pc[r] \in AfterAnalysis /\ pc'[r] \in AfterAnalysis \cup {"catch"}
          /\ \A q \in Runs \ {r} : UNCHANGED pc[q]
      BY <1>1, <1>8 DEF SendAlerts, StoreHistory, StoreLatest, ReadMetrics, StoreMetrics,
                        Persist, Put, Returns, Throws, Goes, AfterAnalysis
    <2>2. /\ UNCHANGED <<pending, log, emitted, repeating, passed>> /\ (NoFault \/ Fault)
      BY <1>8 DEF SendAlerts, StoreHistory, StoreLatest, ReadMetrics, StoreMetrics, Persist,
                  Put, isolate, eventVars, NoFault
    <2> QED BY <2>1, <2>2, LateEvents
  <1>9. CASE UNCHANGED vars
    <2>1. ASSUME NEW q \in Runs PROVE Kept(q)' /\ Once(q)' /\ Ending(q)'
      <3>1. UNCHANGED <<pending, log, emitted, repeating, faults, pc, passed>>
        BY <1>9 DEF vars, eventVars, isolate
      <3>2. faults' >= faults
        BY <3>1, ConstantsOK DEF Control, TypeOK
      <3> QED BY <3>1, <3>2, Aside
    <2> QED BY <2>1 DEF EventsOK
  <1> QED BY <1>3, <1>4, <1>5, <1>6, <1>7, <1>8, <1>9, ReportEvents, LastFlushEvents,
             RestartEvents
          DEF Next, Step

-----------------------------------------------------------------------------
LEMMA RunsInFinite ==
    ASSUME NEW checks \in Seq(Check), NEW k \in Nat, k <= Len(checks)
    PROVE  /\ IsFiniteSet(RunsIn(checks, k)) /\ Cardinality(RunsIn(checks, k)) \in Nat
           /\ RunsIn(checks, k) \subseteq Runs
  <1>1. \A i \in 1..k : checks[i] \in Check
    BY ElementOfSeq, LenProperties
  <1>2. RunsIn(checks, k) \subseteq Runs
    BY <1>1 DEF RunsIn, Check
  <1> QED BY <1>2, RunsAssumption, FS_Subset, FS_CardinalityType

\* A history stays good when runs find more and more records are doubled.
LEMMA Lasting ==
    ASSUME NEW checks \in Seq(Check), NEW found, NEW told, NEW again \in Nat,
           NEW found2, NEW told2, NEW again2 \in Nat, again2 >= again,
           \A r \in Runs : told[r] # None => found2[r] = found[r] /\ told2[r] = told[r],
           HistoryOK(checks, found, told, again)
    PROVE  HistoryOK(checks, found2, told2, again2)
  <1>1. \A i \in 1..Len(checks) : checks[i].run \in Runs
    <2>1. \A i \in 1..Len(checks) : checks[i] \in Check
      BY ElementOfSeq
    <2> QED BY <2>1 DEF Check
  <1>2. \A i \in 1..Len(checks) : RecordOK(checks[i], found2, told2)
    BY <1>1 DEF HistoryOK, RecordOK
  <1>3. ASSUME NEW k \in 1..Len(checks)
        PROVE  Cardinality(RunsIn(checks, k)) + again2 >= k
    <2>1. Cardinality(RunsIn(checks, k)) \in Nat /\ k \in Nat
      BY RunsInFinite, LenProperties
    <2>2. Cardinality(RunsIn(checks, k)) + again >= k
      BY DEF HistoryOK, Varied
    <2> QED BY <2>1, <2>2
  <1> QED BY <1>2, <1>3 DEF HistoryOK, Varied

\* store-results puts the record of its run before a history.
LEMMA AddRecord ==
    ASSUME NEW checks \in Seq(Check), NEW c \in Check, NEW found, NEW told, NEW again \in Nat,
           HistoryOK(checks, found, told, again), RecordOK(c, found, told),
           NEW longer \in Seq(Check), Len(longer) = Len(checks) + 1, longer[1] = c,
           \A i \in 1..Len(checks) : longer[i + 1] = checks[i],
           NEW again2,
           again2 = again + IF \E i \in DOMAIN checks : checks[i].run = c.run THEN 1 ELSE 0
    PROVE  HistoryOK(Newest(longer), found, told, again2)
  <1>1. /\ Len(checks) \in Nat /\ DOMAIN checks = 1..Len(checks)
        /\ again2 \in {again, again + 1}
    BY LenProperties
  <1>2. /\ Newest(longer) \in Seq(Check) /\ Len(Newest(longer)) <= Len(longer)
        /\ Len(Newest(longer)) \in Nat
        /\ \A i \in 1..Len(Newest(longer)) : Newest(longer)[i] = longer[i]
    BY NewestOf, ConstantsOK, LenProperties
  <1>3. \A i \in 1..Len(longer) : i = 1 \/ (i - 1 \in 1..Len(checks) /\ longer[i] = checks[i - 1])
    <2>1. ASSUME NEW i \in 1..Len(longer), i # 1
          PROVE  i - 1 \in 1..Len(checks) /\ longer[i] = checks[i - 1]
      <3>1. i - 1 \in 1..Len(checks) /\ (i - 1) + 1 = i
        BY <1>1, <2>1
      <3> QED BY <3>1
    <2> QED BY <2>1
  <1>4. \A i \in 1..Len(Newest(longer)) : RecordOK(Newest(longer)[i], found, told)
    BY <1>1, <1>2, <1>3 DEF HistoryOK
  <1>5. ASSUME NEW k \in 1..Len(Newest(longer))
        PROVE  Cardinality(RunsIn(Newest(longer), k)) + again2 >= k
    <2>1. k - 1 \in 0..Len(checks) /\ k - 1 \in Nat /\ k \in 1..Len(longer)
      BY <1>1, <1>2
    <2>2. RunsIn(Newest(longer), k) = RunsIn(checks, k - 1) \cup {c.run}
      <3>1. \A i \in 1..k : Newest(longer)[i] = longer[i]
        BY <1>2
      <3>2. \A i \in 1..k : i = 1 \/ (i - 1 \in 1..(k - 1) /\ longer[i] = checks[i - 1])
        BY <1>3, <2>1
      <3>3. ASSUME NEW x \in RunsIn(Newest(longer), k)
            PROVE  x \in RunsIn(checks, k - 1) \cup {c.run}
        <4>1. PICK i \in 1..k : x = longer[i].run
          BY <3>1, <3>3 DEF RunsIn
        <4>2. CASE i = 1
          BY <4>1, <4>2
        <4>3. CASE i - 1 \in 1..(k - 1) /\ longer[i] = checks[i - 1]
          BY <4>1, <4>3 DEF RunsIn
        <4> QED BY <3>2, <4>2, <4>3
      <3>4. \A i \in 1..(k - 1) : i + 1 \in 1..k /\ Newest(longer)[i + 1] = checks[i]
        BY <1>1, <2>1, <3>1
      <3>5. 1 \in 1..k /\ Newest(longer)[1] = c
        BY <3>1, <2>1
      <3>6. ASSUME NEW x \in RunsIn(checks, k - 1) \cup {c.run}
            PROVE  x \in RunsIn(Newest(longer), k)
        <4>1. CASE x = c.run
          BY <3>5, <4>1 DEF RunsIn
        <4>2. CASE x \in RunsIn(checks, k - 1)
          <5>1. PICK i \in 1..(k - 1) : x = checks[i].run
            BY <4>2 DEF RunsIn
          <5>2. i + 1 \in 1..k /\ x = Newest(longer)[i + 1].run
            BY <3>4, <5>1
          <5> QED BY <5>2 DEF RunsIn
        <4> QED BY <3>6, <4>1, <4>2
      <3> QED BY <3>3, <3>6
    <2>3. /\ IsFiniteSet(RunsIn(checks, k - 1)) /\ Cardinality(RunsIn(checks, k - 1)) \in Nat
      BY <2>1, RunsInFinite
    <2>4. Cardinality(RunsIn(checks, k - 1)) + again >= k - 1
      BY <2>1, <2>3 DEF HistoryOK, Varied
    <2>5. Cardinality(RunsIn(checks, k - 1) \cup {c.run}) =
             IF c.run \in RunsIn(checks, k - 1) THEN Cardinality(RunsIn(checks, k - 1))
             ELSE Cardinality(RunsIn(checks, k - 1)) + 1
      BY <2>3, FS_AddElement
    <2>6. c.run \in RunsIn(checks, k - 1) => again2 = again + 1
      <3>1. 1..(k - 1) \subseteq DOMAIN checks
        BY <1>1, <2>1
      <3> QED BY <3>1 DEF RunsIn
    <2> QED BY <1>1, <2>1, <2>2, <2>3, <2>4, <2>5, <2>6
  <1> QED BY <1>4, <1>5 DEF HistoryOK, Varied

\* What runs have found and told of stays.
Stays ==
    /\ \A r \in Runs : alert[r] # None => results'[r] = results[r] /\ alert'[r] = alert[r]
    /\ \A r \in Runs :
          /\ Len(results[r]) \in Nat /\ Len(results[r]) <= Len(results'[r])
          /\ \A i \in 1..Len(results[r]) : results'[r][i] = results[r][i]
    /\ repeats' >= repeats

LEMMA NextStays == Control /\ [Next]_vars => Stays
  <1> SUFFICES ASSUME Control, [Next]_vars PROVE Stays
    OBVIOUS
  <1>1. /\ alert \in [Runs -> {None} \cup SUBSET SourceNames] /\ repeats \in Nat
        /\ \A r \in Runs : Len(results[r]) \in Nat
    BY LenProperties DEF Control, TypeOK
  <1>2. CASE UNCHANGED <<results, alert>> /\ repeats' >= repeats
    BY <1>1, <1>2 DEF Stays
  <1>3. ASSUME NEW r \in Runs, NEW ok \in BOOLEAN, CheckSource(r, ok) PROVE Stays
    <2>1. /\ alert[r] = None /\ Len(results'[r]) = Len(results[r]) + 1
          /\ \A i \in 1..Len(results[r]) : results'[r][i] = results[r][i]
          /\ \A q \in Runs \ {r} : results'[q] = results[q]
          /\ UNCHANGED alert
      BY <1>3, CheckControl
    <2>2. UNCHANGED repeats
      BY <1>3 DEF CheckSource, history
    <2> QED BY <1>1, <2>1, <2>2 DEF Stays
  <1>4. ASSUME NEW r \in Runs, Analyze(r) PROVE Stays
    <2>1. /\ alert[r] = None /\ UNCHANGED <<results, repeats>>
          /\ \A q \in Runs \ {r} : alert'[q] = alert[q]
      BY <1>1, <1>4 DEF Analyze, history
    <2> QED BY <1>1, <2>1 DEF Stays
  <1>5. ASSUME NEW r \in Runs, StoreHistory(r) PROVE Stays
    <2>1. repeats' >= repeats /\ UNCHANGED <<results, alert>>
      BY <1>1, <1>5 DEF StoreHistory, memo
    <2> QED BY <1>2, <2>1
  <1>6. ASSUME NEW r \in Runs, Begin(r) \/ Report(r) \/ LastFlush(r) \/ Replay(r) \/ Load(r)
                                       \/ CheckTimesOut(r) \/ Restart(r)
        PROVE  Stays
    <2>1. UNCHANGED <<results, alert, repeats>>
      BY <1>6 DEF Begin, Report, LastFlush, Replay, Load, CheckTimesOut, Restart, memo, history
    <2> QED BY <1>1, <1>2, <2>1
  <1>7. ASSUME NEW r \in Runs, SendAlerts(r) \/ StoreLatest(r) \/ ReadMetrics(r)
                                       \/ StoreMetrics(r) \/ Persist(r)
        PROVE  Stays
    <2>1. UNCHANGED <<results, alert, repeats>>
      BY <1>7 DEF SendAlerts, StoreLatest, ReadMetrics, StoreMetrics, Persist, memo, history
    <2> QED BY <1>1, <1>2, <2>1
  <1>8. CASE UNCHANGED vars
    BY <1>1, <1>2, <1>8 DEF vars, memo, history
  <1> QED BY <1>3, <1>4, <1>5, <1>6, <1>7, <1>8 DEF Next, Step

\* A history nobody touches, wherever it is now, stays good.
LEMMA StayingHistory ==
    ASSUME Control, Control', Stays, NEW checks \in Seq(Check),
           HistoryOK(checks, results, alert, repeats)
    PROVE  HistoryOK(checks, results', alert', repeats')
  <1>1. repeats \in Nat /\ repeats' \in Nat
    BY DEF Control, TypeOK
  <1> QED BY <1>1, Lasting DEF Stays

LEMMA NextHistories ==
    Control /\ HistoriesOK /\ Control' /\ Stays /\ [Next]_vars => HistoriesOK'
  <1> SUFFICES ASSUME Control, HistoriesOK, Control', Stays, [Next]_vars PROVE HistoriesOK'
    OBVIOUS
  <1> DEFINE Good(checks) == HistoryOK(checks, results', alert', repeats')
  <1>1. /\ memory \in [Runs -> Seq(Check)] /\ hist \in Seq(Check)
        /\ loaded \in [Runs -> {None} \cup Seq(Check)]
    BY DEF Control, TypeOK
  <1>2. /\ Good(hist) /\ \A r \in Runs : Good(memory[r])
        /\ \A r \in Runs : loaded[r] # None => Good(loaded[r])
    BY <1>1, StayingHistory DEF HistoriesOK
  <1>3. Good(<<>>)
    BY EmptySeq DEF HistoryOK, Varied
  <1> HIDE DEF Good
  <1>4. SUFFICES /\ Good(hist') /\ \A r \in Runs : Good(memory'[r])
                 /\ \A r \in Runs : loaded'[r] # None => Good(loaded'[r])
    BY DEF Good, HistoriesOK
  <1>5. ASSUME NEW r \in Runs, LastFlush(r) \/ Restart(r) \/ Replay(r) \/ Load(r)
        PROVE  /\ Good(hist') /\ \A q \in Runs : Good(memory'[q])
               /\ \A q \in Runs : loaded'[q] # None => Good(loaded'[q])
    BY <1>1, <1>2, <1>3, <1>5 DEF LastFlush, Restart, Replay, Load, memo, kv
  <1>6. ASSUME NEW r \in Runs, StoreHistory(r)
        PROVE  /\ Good(hist') /\ \A q \in Runs : Good(memory'[q])
               /\ \A q \in Runs : loaded'[q] # None => Good(loaded'[q])
    <2>1. /\ pc[r] = "store" /\ memory' = [memory EXCEPT ![r] = Unshifted(r)]
          /\ hist' \in {hist, Unshifted(r)} /\ UNCHANGED <<loaded, results, alert>>
          /\ repeats' = repeats +
                IF \E i \in DOMAIN memory[r] : memory[r][i].run = r THEN 1 ELSE 0
      BY <1>6 DEF StoreHistory, Put, memo
    <2>2. Len(results[r]) = Count(r) /\ alert[r] # None
      BY <2>1 DEF Control, ControlOK, AfterChecks
    <2>3. /\ Record(r) \in Check /\ Record(r).run = r
          /\ Record(r).ok = [s \in Names(r) |-> results[r][LastOf(r, s)]]
          /\ <<Record(r)>> \o memory[r] \in Seq(Check)
          /\ Len(<<Record(r)>> \o memory[r]) = Len(memory[r]) + 1
          /\ (<<Record(r)>> \o memory[r])[1] = Record(r)
          /\ \A i \in 1..Len(memory[r]) : (<<Record(r)>> \o memory[r])[i + 1] = memory[r][i]
      BY <1>1, <2>2, UnshiftedType DEF Control
    <2>4. HistoryOK(memory[r], results, alert, repeats) /\ repeats \in Nat
      BY DEF HistoriesOK, Control, TypeOK
    <2>5. PICK c \in Check, longer \in Seq(Check) :
             /\ c = Record(r) /\ c.run = r /\ longer = <<Record(r)>> \o memory[r]
             /\ Len(longer) = Len(memory[r]) + 1 /\ longer[1] = c
             /\ \A i \in 1..Len(memory[r]) : longer[i + 1] = memory[r][i]
      BY <2>3
    <2>6. RecordOK(c, results, alert)
      BY <2>2, <2>3, <2>5 DEF RecordOK
    <2>7. repeats' = repeats +
             IF \E i \in DOMAIN memory[r] : memory[r][i].run = c.run THEN 1 ELSE 0
      BY <2>1, <2>5
    <2>8. HistoryOK(Newest(longer), results, alert, repeats')
      <3>1. memory[r] \in Seq(Check)
        BY <1>1
      <3> QED BY <2>4, <2>5, <2>6, <2>7, <3>1, AddRecord
    <2>9. Good(Unshifted(r))
      BY <2>1, <2>5, <2>8 DEF Good, Unshifted
    <2> QED BY <1>1, <1>2, <2>1, <2>9
  <1>7. ASSUME NEW r \in Runs,
               Begin(r) \/ Report(r) \/ (\E ok \in BOOLEAN : CheckSource(r, ok)) \/ CheckTimesOut(r)
                        \/ Analyze(r)
        PROVE  UNCHANGED <<hist, memory, loaded>>
    BY <1>7 DEF Begin, Report, CheckSource, CheckTimesOut, Analyze, memo, kv, isolate
  <1>8. ASSUME NEW r \in Runs,
               SendAlerts(r) \/ StoreLatest(r) \/ ReadMetrics(r) \/ StoreMetrics(r) \/ Persist(r)
        PROVE  UNCHANGED <<hist, memory, loaded>>
    BY <1>8 DEF SendAlerts, StoreLatest, ReadMetrics, StoreMetrics, Persist, memo, kv, isolate
  <1>9. UNCHANGED vars => UNCHANGED <<hist, memory, loaded>>
    BY DEF vars, memo, kv, isolate
  <1> QED BY <1>2, <1>5, <1>6, <1>7, <1>8, <1>9 DEF Next, Step

LEMMA FailingFinite ==
    ASSUME NEW s
    PROVE  IsFiniteSet(FoundFailing(s)) /\ Cardinality(FoundFailing(s)) \in Nat
BY RunsAssumption, FS_Subset, FS_CardinalityType DEF FoundFailing

\* A source that is recorded as failing is one that the run found failing.
LEMMA RecordedFailing ==
    ASSUME TypeOK, NEW c, c.run \in Runs, RecordOK(c, results, alert), NEW s, FailedIn(c, s)
    PROVE  s \in Failing(c.run)
  <1>1. s \in Names(c.run) /\ ~results[c.run][LastOf(c.run, s)]
    BY DEF RecordOK, FailedIn
  <1>2. LastOf(c.run, s) \in 1..Len(results[c.run]) /\ SourcesOf[c.run][LastOf(c.run, s)] = s
    BY <1>1, LastIndex DEF RecordOK
  <1> HIDE DEF Failing
  <1> QED BY <1>1, <1>2, FailingOK

LEMMA NextAlertEarned ==
    Control /\ HistoriesOK /\ AlertEarned /\ Control' /\ Stays /\ [Next]_vars => AlertEarned'
  <1> SUFFICES ASSUME Control, HistoriesOK, AlertEarned, Control', Stays, [Next]_vars,
                      NEW r \in Runs, alert'[r] # None, NEW s \in alert'[r]
               PROVE  (Cardinality(FoundFailing(s)) + repeats >= FailureThreshold)'
    BY DEF AlertEarned
  <1>1. /\ repeats \in Nat /\ repeats' \in Nat /\ repeats' >= repeats
        /\ memory \in [Runs -> Seq(Check)]
        /\ results \in [Runs -> Seq(BOOLEAN)] /\ results' \in [Runs -> Seq(BOOLEAN)]
        /\ alert \in [Runs -> {None} \cup SUBSET SourceNames]
    BY DEF Control, TypeOK, Stays
  <1>2. \A q \in Runs : DOMAIN results[q] = 1..Len(results[q])
                     /\ DOMAIN results'[q] = 1..Len(results'[q])
                     /\ Len(results[q]) \in Nat /\ Len(results'[q]) \in Nat
    BY <1>1, LenProperties
  <1>3. CASE alert[r] # None
    <2>1. alert'[r] = alert[r]
      BY <1>3 DEF Stays
    <2>2. Cardinality(FoundFailing(s)) + repeats >= FailureThreshold
      BY <1>3, <2>1 DEF AlertEarned
    <2>3. FoundFailing(s) \subseteq FoundFailing(s)'
      <3>1. ASSUME NEW q \in Runs, s \in Failing(q) PROVE s \in Failing(q)'
        <4>1. PICK j \in DOMAIN results[q] : ~results[q][j] /\ s = SourcesOf[q][j]
          BY <3>1 DEF Failing
        <4>2. j \in DOMAIN results'[q] /\ ~results'[q][j]
          BY <1>2, <4>1 DEF Stays
        <4> QED BY <4>1, <4>2 DEF Failing
      <3> QED BY <3>1 DEF FoundFailing
    <2>4. /\ IsFiniteSet(FoundFailing(s)') /\ Cardinality(FoundFailing(s)') \in Nat
          /\ Cardinality(FoundFailing(s)) \in Nat
      <3>1. FoundFailing(s)' \subseteq Runs
        BY DEF FoundFailing
      <3> QED BY <3>1, RunsAssumption, FS_Subset, FS_CardinalityType, FailingFinite
    <2>5. Cardinality(FoundFailing(s)) <= Cardinality(FoundFailing(s)')
      BY <2>3, <2>4, FS_Subset
    <2> QED BY <1>1, <2>2, <2>4, <2>5, ConstantsOK
  <1>4. CASE alert[r] = None
    <2> DEFINE n == FailureThreshold - 1
    <2>1. /\ pc[r] = "analyze" /\ UNCHANGED <<results, repeats>>
          /\ alert'[r] = {x \in Failing(r) : r \notin Silent /\ FailedBefore(memory[r], x, n)}
      <3>1. PICK q \in Runs : Analyze(q)
        <4>1. CASE UNCHANGED alert
          BY <1>4, <4>1
        <4>2. \/ UNCHANGED alert
              \/ \E q \in Runs : Analyze(q)
          BY DEF Next, Step, Begin, Report, LastFlush, Replay, Load, CheckSource, CheckTimesOut,
                 SendAlerts, StoreHistory, StoreLatest, ReadMetrics, StoreMetrics, Persist,
                 Restart, vars, memo
        <4> QED BY <4>1, <4>2
      <3>2. q = r
        BY <1>1, <1>4, <3>1 DEF Analyze
      <3> QED BY <1>1, <3>1, <3>2 DEF Analyze, history
    <2>2. s \in Failing(r) /\ FailedBefore(memory[r], s, n)
      BY <2>1
    <2>3. r \in FoundFailing(s)
      BY <2>2 DEF FoundFailing
    <2>4. n \in Nat /\ n <= Len(memory[r]) /\ Len(memory[r]) \in Nat
      <3>1. n \in Nat /\ (n # 0 => n \in 1..n)
        BY ConstantsOK
      <3>2. Len(memory[r]) \in Nat
        BY <1>1, LenProperties
      <3> HIDE DEF n
      <3>3. n # 0 => n <= Len(memory[r])
        BY <2>2, <3>1 DEF FailedBefore
      <3> QED BY <3>1, <3>2, <3>3
    <2> HIDE DEF n
    <2>5. HistoryOK(memory[r], results, alert, repeats)
      BY DEF HistoriesOK
    <2>6. RunsIn(memory[r], n) \subseteq FoundFailing(s) \ {r}
      <3>1. ASSUME NEW i \in 1..n PROVE memory[r][i].run \in FoundFailing(s) \ {r}
        <4>1. i \in 1..Len(memory[r])
          BY <2>4
        <4>2. memory[r][i] \in Check /\ RecordOK(memory[r][i], results, alert)
          BY <1>1, <2>5, <4>1, ElementOfSeq DEF HistoryOK
        <4>3. FailedIn(memory[r][i], s)
          BY <2>2 DEF FailedBefore
        <4>4. memory[r][i].run \in Runs
          BY <4>2 DEF Check
        <4>5. s \in Failing(memory[r][i].run)
          BY <4>2, <4>3, <4>4, RecordedFailing DEF Control
        <4> QED BY <1>4, <4>2, <4>4, <4>5 DEF RecordOK, FoundFailing
      <3> QED BY <3>1 DEF RunsIn
    <2>7. /\ IsFiniteSet(FoundFailing(s)) /\ Cardinality(FoundFailing(s)) \in Nat
          /\ IsFiniteSet(RunsIn(memory[r], n)) /\ Cardinality(RunsIn(memory[r], n)) \in Nat
      BY <1>1, <2>4, FailingFinite, RunsInFinite
    <2>8. Cardinality(FoundFailing(s)) >= Cardinality(RunsIn(memory[r], n)) + 1
      <3>1. /\ IsFiniteSet(FoundFailing(s) \ {r})
            /\ Cardinality(FoundFailing(s) \ {r}) = Cardinality(FoundFailing(s)) - 1
        BY <2>3, <2>7, FS_RemoveElement
      <3>2. Cardinality(RunsIn(memory[r], n)) <= Cardinality(FoundFailing(s) \ {r})
        BY <2>6, <3>1, FS_Subset
      <3> QED BY <2>7, <3>1, <3>2
    <2>9. Cardinality(RunsIn(memory[r], n)) + repeats >= n
      <3>1. CASE n = 0
        BY <1>1, <2>7, <3>1
      <3>2. CASE n \in 1..Len(memory[r])
        BY <2>5, <3>2 DEF HistoryOK, Varied
      <3> QED BY <2>4, <3>1, <3>2
    <2>10. Cardinality(FoundFailing(s)) + repeats >= FailureThreshold
      BY <1>1, <2>7, <2>8, <2>9, ConstantsOK DEF n
    <2>11. FoundFailing(s)' = FoundFailing(s) /\ repeats' = repeats
      BY <2>1 DEF FoundFailing, Failing
    <2> QED BY <2>10, <2>11
  <1> QED BY <1>3, <1>4

-----------------------------------------------------------------------------
\* A record before the newest ones is the newest of the record before them all.
LEMMA NewestAgain ==
    ASSUME NEW c \in Check, NEW checks \in Seq(Check)
    PROVE  Newest(<<c>> \o Newest(checks)) = Newest(<<c>> \o checks)
  <1>1. PICK few \in Seq(Check) :
           /\ few = Newest(checks)
           /\ Len(few) = IF Len(checks) > MaxHistory THEN MaxHistory ELSE Len(checks)
           /\ \A i \in 1..Len(few) : few[i] = checks[i]
    BY NewestOf
  <1>2. PICK a \in Seq(Check) :
           /\ a = <<c>> \o few /\ Len(a) = Len(few) + 1 /\ a[1] = c
           /\ \A i \in 1..Len(few) : a[i + 1] = few[i]
    <2>1. /\ <<c>> \o few \in Seq(Check) /\ Len(<<c>> \o few) = Len(few) + 1
          /\ (<<c>> \o few)[1] = c
          /\ \A i \in 1..Len(few) : (<<c>> \o few)[i + 1] = few[i]
      BY Prepended
    <2> QED BY <2>1
  <1>3. PICK b \in Seq(Check) :
           /\ b = <<c>> \o checks /\ Len(b) = Len(checks) + 1 /\ b[1] = c
           /\ \A i \in 1..Len(checks) : b[i + 1] = checks[i]
    <2>1. /\ <<c>> \o checks \in Seq(Check) /\ Len(<<c>> \o checks) = Len(checks) + 1
          /\ (<<c>> \o checks)[1] = c
          /\ \A i \in 1..Len(checks) : (<<c>> \o checks)[i + 1] = checks[i]
      BY Prepended
    <2> QED BY <2>1
  <1>4. /\ Newest(a) \in Seq(Check) /\ Newest(b) \in Seq(Check)
        /\ Len(Newest(a)) = IF Len(a) > MaxHistory THEN MaxHistory ELSE Len(a)
        /\ Len(Newest(b)) = IF Len(b) > MaxHistory THEN MaxHistory ELSE Len(b)
        /\ \A i \in 1..Len(Newest(a)) : Newest(a)[i] = a[i]
        /\ \A i \in 1..Len(Newest(b)) : Newest(b)[i] = b[i]
    BY NewestOf
  <1>5. Len(few) \in Nat /\ Len(checks) \in Nat
    BY LenProperties
  <1>6. Len(Newest(a)) = Len(Newest(b)) /\ Len(Newest(a)) \in 0..(Len(few) + 1)
    BY <1>1, <1>2, <1>3, <1>4, <1>5, ConstantsOK
  <1>7. ASSUME NEW i \in 1..Len(Newest(a)) PROVE Newest(a)[i] = Newest(b)[i]
    <2>1. i \in 1..(Len(few) + 1) /\ i \in 1..Len(Newest(b))
      BY <1>5, <1>6
    <2>2. a[i] = b[i]
      <3>1. CASE i = 1
        BY <1>2, <1>3, <3>1
      <3>2. CASE i # 1
        <4>1. i - 1 \in 1..Len(few) /\ i - 1 \in 1..Len(checks) /\ (i - 1) + 1 = i
          BY <1>1, <1>5, <2>1, <3>2, ConstantsOK
        <4> QED BY <1>1, <1>2, <1>3, <4>1
      <3> QED BY <3>1, <3>2
    <2> QED BY <1>4, <2>1, <2>2
  <1>8. Newest(a) = Newest(b)
    BY <1>4, <1>6, <1>7, SeqEqual
  <1> QED BY <1>1, <1>2, <1>3, <1>8

LEMMA IdleRecords ==
    ASSUME NEW r \in Runs, pc[r] \notin Recording
    PROVE  RecordsAt(r) <=> Settled
BY DEF RecordsAt, Settled, Recording

\* The run that moves is the only one that is under way.
LEMMA QuietRecordsAt ==
    ASSUME Quiet, faults = 0, NEW r \in Runs, Busy \subseteq {r}
    PROVE  RecordsAt(r)
  <1>1. CASE r \in Busy
    BY <1>1 DEF Quiet
  <1>2. CASE r \notin Busy
    <2>1. Busy = {} /\ pc[r] \notin Recording
      BY <1>2 DEF Busy, Ended, Recording
    <2> QED BY <2>1, IdleRecords DEF Quiet
  <1> QED BY <1>1, <1>2

LEMMA QuietStep ==
    ASSUME Quiet, faults = 0, NEW r \in Runs, Busy \subseteq {r},
           \A q \in Runs \ {r} :
              /\ UNCHANGED <<pc[q], alert[q], loaded[q]>>
              /\ q \in alerted' <=> q \in alerted
              /\ Persisted(q)' <=> Persisted(q),
           QuietRun(r)', RecordsAt(r)'
    PROVE  Quiet'
  <1>1. \A q \in Runs \ {r} : pc[q] \in {"new"} \cup Ended /\ pc'[q] = pc[q]
    BY DEF Busy
  <1>2. Busy' \subseteq {r}
    BY <1>1 DEF Busy
  <1>3. ASSUME NEW q \in Runs \ {r} PROVE QuietRun(q)'
    <2>1. QuietRun(q)
      BY DEF Quiet
    <2> QED BY <1>1, <2>1 DEF QuietRun, Unfinished, Recording, Ended
  <1>4. Busy' = {} => Settled'
    <2>1. Busy' = {} => pc'[r] \notin Recording
      BY DEF Busy, Ended, Recording
    <2>2. pc'[r] \notin Recording => (RecordsAt(r)' <=> Settled')
      BY DEF RecordsAt, Settled, Recording
    <2> QED BY <2>1, <2>2
  <1> QED BY <1>2, <1>3, <1>4 DEF Quiet


LEMMA QuietAside ==
    ASSUME Quiet, faults = 0, NEW r \in Runs, Busy \subseteq {r},
           UNCHANGED <<stored, hist, latest, metrics, alerts, alert, alerted>>,
           pc[r] \notin Recording, pc'[r] \notin Recording,
           \A q \in Runs \ {r} : UNCHANGED <<pc[q], loaded[q]>>,
           QuietRun(r)'
    PROVE  Quiet'
  <1>1. RecordsAt(r)
    BY QuietRecordsAt
  <1>2. Settled
    BY <1>1, IdleRecords
  <1>3. Settled'
    BY <1>2 DEF Settled, Alerting
  <1>4. RecordsAt(r)'
    BY <1>3 DEF RecordsAt, Settled, Recording
  <1>5. \A q \in Runs : Persisted(q)' <=> Persisted(q)
    BY DEF Persisted
  <1> QED BY <1>4, <1>5, QuietStep

\* From the beginning of a run to the end of its checks, and after its records.
LEMMA QuietBefore ==
    ASSUME Control, Control', Quiet, faults = 0, NEW r \in Runs, Busy \subseteq {r}, NoFault,
           \/ Begin(r) \/ Load(r) \/ LastFlush(r)
           \/ (\E ok \in BOOLEAN : CheckSource(r, ok)) \/ CheckTimesOut(r)
    PROVE  Quiet'
  <1>1. /\ pc \in [Runs -> Program] /\ loaded \in [Runs -> {None} \cup Seq(Check)]
        /\ memory \in [Runs -> Seq(Check)] /\ attempt \in [Runs -> 0..2]
    BY DEF Control, TypeOK
  <1>2. faults' = faults
    BY DEF NoFault
  <1>3. QuietRun(r)
    BY DEF Quiet
  <1>4. CASE Begin(r)
    <2>1. /\ pc[r] = "new" /\ pc'[r] = "start" /\ \A q \in Runs \ {r} : UNCHANGED pc[q]
          /\ UNCHANGED <<loaded, stored, hist, latest, metrics, alerts, alert, alerted>>
      BY <1>1, <1>4 DEF Begin, Goes, memo, kv, history
    <2>2. QuietRun(r)'
      BY <1>3, <2>1 DEF QuietRun, Unfinished, Recording, Persisted
    <2> QED BY <2>1, <2>2, QuietAside DEF Recording
  <1>5. CASE Load(r)
    <2>1. /\ pc[r] = "load" /\ loaded' = [loaded EXCEPT ![r] = hist]
          /\ memory' = [memory EXCEPT ![r] = hist] /\ Returns(r, "loaded")
          /\ UNCHANGED <<stored, hist, latest, metrics, alerts, alert, alerted>>
      <3>1. ~Fault
        BY <1>2 DEF Fault
      <3> QED BY <1>5, <3>1 DEF Load, kv, history
    <2>2. /\ pc'[r] = "loaded" /\ memory'[r] = hist
          /\ \A q \in Runs \ {r} : UNCHANGED <<pc[q], loaded[q]>>
      BY <1>1, <2>1 DEF Returns, Goes
    <2>3. hist = Newest(stored)
      BY <2>1, QuietRecordsAt DEF RecordsAt
    <2>4. QuietRun(r)'
      BY <1>3, <2>1, <2>2, <2>3 DEF QuietRun, Unfinished, Recording, Persisted
    <2> QED BY <2>1, <2>2, <2>4, QuietAside DEF Recording
  <1>6. CASE LastFlush(r)
    <2>1. /\ \/ pc[r] = "last" /\ pc'[r] = "done"
             \/ pc[r] = "lastCatch" /\ pc'[r] = "errored"
          /\ \A q \in Runs \ {r} : UNCHANGED <<pc[q], loaded[q]>>
          /\ UNCHANGED <<stored, hist, latest, metrics, alerts, alert, alerted>>
      BY <1>1, <1>6 DEF LastFlush, Goes, kv, history
    <2>2. QuietRun(r)'
      BY <1>3, <2>1 DEF QuietRun, Unfinished, Recording, Persisted
    <2> QED BY <2>1, <2>2, QuietAside DEF Recording
  <1>7. CASE (\E ok \in BOOLEAN : CheckSource(r, ok)) \/ CheckTimesOut(r)
    <2>1. /\ pc[r] = "check" /\ pc'[r] \in {"checked", "check", "catch"}
          /\ \A q \in Runs \ {r} : UNCHANGED pc[q]
          /\ UNCHANGED <<loaded, memory, stored, hist, latest, metrics, alerts, alert, alerted>>
      BY <1>1, <1>7 DEF CheckSource, CheckTimesOut, Returns, Throws, Goes, memo, isolate, kv,
                        history
    <2>2. QuietRun(r)'
      BY <1>3, <2>1 DEF QuietRun, Unfinished, Recording, Persisted
    <2> QED BY <2>1, <2>2, QuietAside DEF Recording
  <1> QED BY <1>4, <1>5, <1>6, <1>7

LEMMA QuietReport ==
    ASSUME Control, Quiet, faults = 0, NEW r \in Runs, Busy \subseteq {r}, Report(r)
    PROVE  Quiet'
  <1>1. /\ pc[r] \in {"start", "loaded", "checked", "analyzed", "completed", "catch"}
        /\ pc'[r] = AfterReport(r) /\ \A q \in Runs \ {r} : UNCHANGED pc[q]
        /\ UNCHANGED <<loaded, memory, results, stored, hist, latest, metrics, alerts, alert,
                       alerted>>
    BY DEF Control, TypeOK, Report, Goes, memo, isolate, kv, history
  <1>2. QuietRun(r)
    BY DEF Quiet
  <1>3. CASE pc[r] # "analyzed"
    <2>1. \/ pc[r] = "start" /\ pc'[r] = "load"
          \/ pc[r] = "loaded" /\ pc'[r] = "check"
          \/ pc[r] = "checked" /\ pc'[r] \in {"check", "analyze"}
          \/ pc[r] = "completed" /\ pc'[r] = "last"
          \/ pc[r] = "catch" /\ pc'[r] = "lastCatch"
      BY <1>1, <1>3 DEF AfterReport
    <2>2. QuietRun(r)'
      BY <1>1, <1>2, <2>1 DEF QuietRun, Unfinished, Recording, Persisted
    <2>3. pc[r] \notin Recording /\ pc'[r] \notin Recording
      BY <2>1 DEF Recording
    <2> QED BY <1>1, <2>2, <2>3, QuietAside
  <1>4. CASE pc[r] = "analyzed"
    <2>1. pc'[r] = IF alert[r] # {} THEN "alert" ELSE "store"
      BY <1>1, <1>4 DEF AfterReport
    <2>2. /\ alert[r] = {s \in Failing(r) : r \notin Silent /\ FailedInARow(s, stored)}
          /\ r \notin alerted /\ ~Persisted(r) /\ memory[r] = Newest(stored)
      BY <1>2, <1>4 DEF QuietRun, Recording
    <2>3. QuietRun(r)'
      BY <1>1, <2>1, <2>2 DEF QuietRun, Unfinished, Recording, Persisted, FailedInARow, Failing
    <2>4. alert[r] = {} => Alerting \ {r} = Alerting
      BY DEF Alerting
    <2>5. Alerting' = Alerting
      BY <1>1 DEF Alerting
    <2>6. RecordsAt(r)'
      BY <1>1, <1>4, <2>1, <2>4, <2>5, QuietRecordsAt DEF RecordsAt, Recording
    <2>7. \A q \in Runs : Persisted(q)' <=> Persisted(q)
      BY <1>1 DEF Persisted
    <2> QED BY <1>1, <2>3, <2>6, <2>7, QuietStep
  <1> QED BY <1>3, <1>4

\* Nothing is persisted twice, so that only checks pass by their results.
LEMMA QuietReplay ==
    ASSUME Control, Quiet, faults = 0, NEW r \in Runs, Busy \subseteq {r}, Replay(r)
    PROVE  Quiet'
  <1>1. QuietRun(r) /\ pc \in [Runs -> Program]
    BY DEF Quiet, Control, TypeOK
  <1>2. /\ ~(pc[r] = "load" /\ loaded[r] # None) /\ ~(pc[r] = "analyze" /\ alert[r] # None)
        /\ ~(pc[r] = "alert" /\ r \in alerted) /\ ~(pc[r] = "store" /\ Persisted(r))
    BY <1>1 DEF QuietRun, Unfinished, Recording
  <1>3. /\ pc[r] = "check" /\ pc'[r] = "checked" /\ \A q \in Runs \ {r} : UNCHANGED pc[q]
        /\ UNCHANGED <<loaded, memory, stored, hist, latest, metrics, alerts, alert, alerted>>
    BY <1>1, <1>2 DEF Replay, Goes, memo, kv, history
  <1>4. QuietRun(r)'
    BY <1>1, <1>3 DEF QuietRun, Unfinished, Recording, Persisted
  <1> QED BY <1>3, <1>4, QuietAside DEF Recording

\* A source failed in all of the newest checks the run has loaded when it failed
\* in all of the newest checks stored.
LEMMA FailedAlike ==
    ASSUME TypeOK, NEW s
    PROVE  FailedBefore(Newest(stored), s, FailureThreshold - 1) <=> FailedInARow(s, stored)
  <1> DEFINE n == FailureThreshold - 1
  <1>1. PICK few \in Seq(Check) :
           /\ few = Newest(stored)
           /\ Len(few) = IF Len(stored) > MaxHistory THEN MaxHistory ELSE Len(stored)
           /\ \A i \in 1..Len(few) : few[i] = stored[i]
    BY NewestOf DEF TypeOK
  <1>2. n \in Nat /\ n <= MaxHistory /\ Len(stored) \in Nat /\ Len(few) \in Nat
    BY ConstantsOK, LenProperties DEF TypeOK
  <1> HIDE DEF n
  <1>3. Len(stored) >= n <=> n <= Len(few)
    BY <1>1, <1>2, ConstantsOK
  <1>4. n <= Len(few) => \A i \in 1..n : i <= Len(few) /\ few[i] = stored[i]
    BY <1>1, <1>2
  <1>5. (\A i \in 1..n : i <= Len(few)) => n <= Len(few)
    <2>1. CASE n = 0
      BY <1>2, <2>1
    <2>2. CASE n \in 1..n
      BY <2>2
    <2> QED BY <1>2, <2>1, <2>2
  <1>6. FailedBefore(few, s, n) <=>
           n <= Len(few) /\ \A i \in 1..n : s \in DOMAIN stored[i].ok /\ ~stored[i].ok[s]
    BY <1>4, <1>5 DEF FailedBefore, FailedIn
  <1> QED BY <1>1, <1>3, <1>6 DEF FailedInARow, n


LEMMA QuietAnalyze ==
    ASSUME Control, Quiet, faults = 0, NEW r \in Runs, Busy \subseteq {r}, Analyze(r)
    PROVE  Quiet'
  <1> DEFINE found == {s \in Failing(r) :
                 r \notin Silent /\ FailedBefore(memory[r], s, FailureThreshold - 1)}
  <1> found # None
    <2>1. Failing(r) \subseteq SourceNames
      BY FailingOK, NamesOK DEF Control
    <2> QED BY <2>1, NoneAssumption
  <1>1. /\ pc[r] = "analyze" /\ pc'[r] = "analyzed" /\ alert'[r] = found /\ found # None
        /\ \A q \in Runs \ {r} : UNCHANGED <<pc[q], alert[q]>>
        /\ UNCHANGED <<loaded, memory, results, stored, hist, latest, metrics, alerts, alerted>>
    BY DEF Control, TypeOK, Analyze, Goes, isolate, kv, history
  <1>2. QuietRun(r)
    BY DEF Quiet
  <1>3. memory[r] = Newest(stored) /\ alert[r] = None /\ ~Persisted(r) /\ r \notin alerted
    BY <1>1, <1>2 DEF QuietRun, Unfinished
  <1>4. found = {s \in Failing(r) : r \notin Silent /\ FailedInARow(s, stored)}
    BY <1>3, FailedAlike DEF Control
  <1> HIDE DEF found
  <1>5. QuietRun(r)'
    BY <1>1, <1>3, <1>4 DEF QuietRun, Unfinished, Recording, Persisted, FailedInARow, Failing
  <1>6. Alerting' \ {r} = Alerting
    BY <1>1, <1>3 DEF Alerting
  <1>7. RecordsAt(r)
    BY QuietRecordsAt
  <1>8. Settled
    BY <1>1, <1>7, IdleRecords DEF Recording
  <1>9. RecordsAt(r)'
    BY <1>1, <1>6, <1>8 DEF RecordsAt, Settled, Recording
  <1>10. \A q \in Runs : Persisted(q)' <=> Persisted(q)
    BY <1>1 DEF Persisted
  <1> QED BY <1>1, <1>5, <1>9, <1>10, QuietStep

\* One after the other, the step that records a run changes alerts, history,
\* latest check and totals.
LEMMA QuietRecord ==
    ASSUME Control, Quiet, faults = 0, NEW r \in Runs, Busy \subseteq {r}, NoFault,
           SendAlerts(r) \/ StoreHistory(r) \/ StoreLatest(r) \/ ReadMetrics(r) \/ StoreMetrics(r)
    PROVE  Quiet'
  <1>1. ~Fault
    BY DEF Fault, NoFault
  <1>2. /\ QuietRun(r) /\ RecordsAt(r) /\ pc \in [Runs -> Program]
        /\ memory \in [Runs -> Seq(Check)] /\ seen \in [Runs -> Totals] /\ metrics \in Totals
        /\ attempt \in [Runs -> 0..2] /\ stored \in Seq(Check)
    BY QuietRecordsAt DEF Quiet, Control, TypeOK
  <1>3. UNCHANGED <<loaded, results, alert, stored>>
    BY DEF SendAlerts, StoreHistory, StoreLatest, ReadMetrics, StoreMetrics, memo, history
  <1>4. /\ \A q \in Runs : Persisted(q)' <=> Persisted(q)
        /\ Alerting' = Alerting /\ Record(r)' = Record(r)
        /\ Failing(r)' = Failing(r)
        /\ \A s : FailedInARow(s, stored)' <=> FailedInARow(s, stored)
    BY <1>3 DEF Persisted, Alerting, Record, FailedInARow, Failing
  <1>5. SUFFICES /\ \A q \in Runs \ {r} : pc'[q] = pc[q] /\ (q \in alerted' <=> q \in alerted)
                 /\ QuietRun(r)' /\ RecordsAt(r)'
    BY <1>3, <1>4, QuietStep
  <1>6. CASE SendAlerts(r)
    <2>1. /\ pc[r] = "alert" /\ pc'[r] = "store" /\ \A q \in Runs \ {r} : pc'[q] = pc[q]
          /\ alerts' = alerts \cup {r} /\ alerted' = alerted \cup {r}
          /\ UNCHANGED <<memory, hist, latest, metrics>>
      BY <1>1, <1>2, <1>6 DEF SendAlerts, Returns, Goes, isolate
    <2>2. r \in Alerting /\ alert[r] # None
      BY <1>2, <2>1 DEF QuietRun, Alerting, Control, ControlOK, AfterChecks
    <2>3. alerts' = Alerting
      BY <1>2, <2>1, <2>2 DEF RecordsAt
    <2>4. QuietRun(r)'
      BY <1>2, <1>3, <1>4, <2>1 DEF QuietRun, Unfinished, Recording
    <2>5. RecordsAt(r)'
      BY <1>2, <1>3, <1>4, <2>1, <2>3 DEF RecordsAt, Recording
    <2> QED BY <2>1, <2>4, <2>5
  <1>7. CASE StoreHistory(r)
    <2>1. /\ pc[r] = "store" /\ pc'[r] = "latest" /\ \A q \in Runs \ {r} : pc'[q] = pc[q]
          /\ hist' = Unshifted(r) /\ UNCHANGED <<alerted, latest, metrics, alerts>>
      BY <1>1, <1>2, <1>7 DEF StoreHistory, Put, Goes, memo
    <2>2. Record(r) \in Check
      BY <2>1, UnshiftedType DEF Control, ControlOK, AfterChecks
    <2>3. memory[r] = Newest(stored)
      BY <1>2, <2>1 DEF QuietRun
    <2>4. hist' = Newest(<<Record(r)>> \o stored)
      BY <1>2, <2>1, <2>2, <2>3, NewestAgain DEF Unshifted
    <2>5. QuietRun(r)'
      BY <1>2, <1>3, <1>4, <2>1 DEF QuietRun, Unfinished, Recording
    <2>6. RecordsAt(r)'
      BY <1>2, <1>3, <1>4, <2>1, <2>4 DEF RecordsAt, Recording
    <2> QED BY <2>1, <2>5, <2>6
  <1>8. CASE StoreLatest(r)
    <2>1. /\ pc[r] = "latest" /\ pc'[r] = "metrics" /\ \A q \in Runs \ {r} : pc'[q] = pc[q]
          /\ latest' = r /\ UNCHANGED <<alerted, hist, metrics, alerts>>
      BY <1>1, <1>2, <1>8 DEF StoreLatest, Put, Goes, memo
    <2>2. QuietRun(r)'
      BY <1>2, <1>3, <1>4, <2>1 DEF QuietRun, Unfinished, Recording
    <2>3. RecordsAt(r)'
      BY <1>2, <1>3, <1>4, <2>1 DEF RecordsAt, Recording
    <2> QED BY <2>1, <2>2, <2>3
  <1>9. CASE ReadMetrics(r)
    <2>1. /\ pc[r] = "metrics" /\ pc'[r] = "count" /\ \A q \in Runs \ {r} : pc'[q] = pc[q]
          /\ seen'[r] = metrics /\ UNCHANGED <<alerted, hist, latest, metrics, alerts>>
      BY <1>1, <1>2, <1>9 DEF ReadMetrics, Goes, memo, kv
    <2>2. QuietRun(r)'
      BY <1>2, <1>3, <1>4, <2>1 DEF QuietRun, Unfinished, Recording
    <2>3. RecordsAt(r)'
      BY <1>2, <1>3, <1>4, <2>1 DEF RecordsAt, Recording
    <2> QED BY <2>1, <2>2, <2>3
  <1>10. CASE StoreMetrics(r)
    <2>1. /\ pc[r] = "count" /\ pc'[r] = "persist" /\ \A q \in Runs \ {r} : pc'[q] = pc[q]
          /\ metrics' = Counted(r) /\ UNCHANGED <<alerted, hist, latest, alerts>>
      BY <1>1, <1>2, <1>10 DEF StoreMetrics, Put, Goes, memo
    <2>2. /\ metrics.checks = Len(stored) /\ metrics.alerts = Cardinality(Alerting \ {r})
          /\ seen[r] = metrics
      BY <1>2, <2>1 DEF RecordsAt, QuietRun, Recording
    <2>3. /\ metrics'.checks = Len(stored) + 1
          /\ metrics'.alerts = Cardinality(Alerting \ {r}) + IF alert[r] # {} THEN 1 ELSE 0
      BY <2>1, <2>2 DEF Counted
    <2>4. r \in Alerting <=> alert[r] # {}
      BY <2>1 DEF Alerting, Control, ControlOK, AfterChecks
    <2>5. metrics'.alerts = Cardinality(Alerting)
      <3>1. IsFiniteSet(Alerting) /\ Cardinality(Alerting) \in Nat
        BY RunsAssumption, FS_Subset, FS_CardinalityType DEF Alerting
      <3>2. CASE r \in Alerting
        <4>1. Cardinality(Alerting \ {r}) = Cardinality(Alerting) - 1
          BY <3>1, <3>2, FS_RemoveElement
        <4>2. metrics'.alerts = Cardinality(Alerting \ {r}) + 1
          BY <2>3, <2>4, <3>2
        <4> QED BY <3>1, <4>1, <4>2
      <3>3. CASE r \notin Alerting
        <4>1. Alerting \ {r} = Alerting
          BY <3>3
        <4>2. metrics'.alerts = Cardinality(Alerting \ {r}) + 0
          BY <2>3, <2>4, <3>3
        <4> QED BY <3>1, <4>1, <4>2
      <3> QED BY <3>2, <3>3
    <2>6. QuietRun(r)'
      BY <1>2, <1>3, <1>4, <2>1 DEF QuietRun, Unfinished, Recording
    <2>7. RecordsAt(r)'
      BY <1>2, <1>3, <1>4, <2>1, <2>3, <2>5 DEF RecordsAt, Recording
    <2> QED BY <2>1, <2>6, <2>7
  <1> QED BY <1>6, <1>7, <1>8, <1>9, <1>10

LEMMA QuietPersist ==
    ASSUME Control, Quiet, faults = 0, NEW r \in Runs, Busy \subseteq {r}, Persist(r)
    PROVE  Quiet'
  <1>1. /\ pc[r] = "persist" /\ pc'[r] = "completed" /\ stored' = <<Record(r)>> \o stored
        /\ \A q \in Runs \ {r} : UNCHANGED pc[q]
        /\ UNCHANGED <<loaded, alert, alerted, hist, latest, metrics, alerts>>
    BY DEF Control, TypeOK, Persist, Returns, Goes, memo, kv
  <1>2. QuietRun(r) /\ RecordsAt(r)
    BY QuietRecordsAt DEF Quiet
  <1>3. PICK old \in Seq(Check), new \in Seq(Check), c \in Check :
           /\ old = stored /\ new = stored' /\ c = Record(r) /\ c.run = r /\ new # <<>>
           /\ Len(new) = Len(old) + 1 /\ Len(old) \in Nat /\ new[1] = c
           /\ \A i \in 1..Len(old) : new[i + 1] = old[i]
           /\ DOMAIN old = 1..Len(old) /\ DOMAIN new = 1..Len(new)
    <2>1. PICK old \in Seq(Check), c \in Check : old = stored /\ c = Record(r) /\ c.run = r
      <3>1. Record(r) \in Check /\ Record(r).run = r
        BY <1>1, UnshiftedType DEF Control, ControlOK, AfterChecks
      <3>2. stored \in Seq(Check)
        BY DEF Control, TypeOK
      <3> QED BY <3>1, <3>2
    <2>2. PICK new \in Seq(Check) :
             /\ new = <<c>> \o old /\ Len(old) \in Nat
             /\ Len(new) = Len(old) + 1 /\ new[1] = c
             /\ \A i \in 1..Len(old) : new[i + 1] = old[i]
      BY Prepended
    <2>3. new # <<>> /\ DOMAIN old = 1..Len(old) /\ DOMAIN new = 1..Len(new)
      BY <2>2, EmptySeq, LenProperties
    <2>4. new = stored'
      BY <1>1, <2>1, <2>2
    <2> QED BY <2>1, <2>2, <2>3, <2>4
  <1>4. Persisted(r)'
    BY <1>3 DEF Persisted
  <1>5. ASSUME NEW q \in Runs \ {r} PROVE Persisted(q)' <=> Persisted(q)
    <2>1. ASSUME NEW i \in DOMAIN new, new[i].run = q PROVE \E j \in DOMAIN old : old[j].run = q
      <3>1. i # 1
        BY <1>3, <2>1
      <3>2. i - 1 \in DOMAIN old /\ (i - 1) + 1 = i
        BY <1>3, <2>1, <3>1
      <3> QED BY <1>3, <2>1, <3>2
    <2>2. ASSUME NEW j \in DOMAIN old, old[j].run = q PROVE \E i \in DOMAIN new : new[i].run = q
      <3>1. j + 1 \in DOMAIN new /\ new[j + 1] = old[j]
        BY <1>3
      <3> QED BY <2>2, <3>1
    <2> QED BY <1>3, <2>1, <2>2 DEF Persisted
  <1>6. QuietRun(r)'
    BY <1>1, <1>4 DEF QuietRun, Unfinished, Recording
  <1>7. Alerting' = Alerting
    BY <1>1 DEF Alerting
  <1>8. stored' # <<>> /\ stored'[1].run = r /\ Len(stored') = Len(stored) + 1
    BY <1>3
  <1>9. RecordsAt(r)'
    BY <1>1, <1>2, <1>7, <1>8 DEF RecordsAt, Recording
  <1> QED BY <1>1, <1>5, <1>6, <1>9, QuietStep


LEMMA NextQuiet == Control /\ Quiet /\ Control' /\ [Next]_vars => Quiet'
  <1> SUFFICES ASSUME Control, Quiet, Control', [Next]_vars PROVE Quiet'
    OBVIOUS
  <1>1. CASE faults' # 0
    BY <1>1 DEF Quiet
  <1>2. CASE faults' = 0
    <2>1. faults \in Nat /\ ~Fault
      BY <1>2, ConstantsOK DEF Fault, Control, TypeOK
    <2>2. ASSUME NEW r \in Runs, Begin(r) \/ Step(r) \/ Restart(r)
          PROVE  NoFault /\ faults = 0
      <3>1. CASE Begin(r) \/ Report(r) \/ LastFlush(r) \/ Replay(r) \/ Load(r)
                          \/ (\E ok \in BOOLEAN : CheckSource(r, ok)) \/ CheckTimesOut(r)
        BY <1>2, <2>1, <3>1 DEF Begin, Report, Emit, LastFlush, Flush, FlushOf, Replay, Load,
                                CheckSource, CheckTimesOut, NoFault, eventVars
      <3>2. CASE \/ Analyze(r) \/ SendAlerts(r) \/ StoreHistory(r) \/ StoreLatest(r)
                 \/ ReadMetrics(r) \/ StoreMetrics(r) \/ Persist(r)
        BY <1>2, <2>1, <3>2 DEF Analyze, SendAlerts, StoreHistory, StoreLatest, ReadMetrics,
                                StoreMetrics, Persist, Put, NoFault, eventVars
      <3>3. CASE Restart(r)
        BY <2>1, <3>3 DEF Restart, Forgotten
      <3> QED BY <2>2, <3>1, <3>2, <3>3 DEF Step
    <2>3. ASSUME NEW r \in Runs, Begin(r) \/ Step(r) PROVE Busy \subseteq {r}
      <3>1. CASE Begin(r)
        BY <2>1, <3>1 DEF Begin
      <3>2. CASE Step(r)
        <4>1. r \in Busy
          <5>1. pc[r] \notin {"new"} \cup Ended
            BY <3>2 DEF Step, Report, LastFlush, Replay, Load, CheckSource, CheckTimesOut,
                        Analyze, SendAlerts, StoreHistory, StoreLatest, ReadMetrics,
                        StoreMetrics, Persist, Ended
          <5> QED BY <5>1 DEF Busy
        <4> QED BY <2>2, <3>2, <4>1 DEF Quiet
      <3> QED BY <2>3, <3>1, <3>2
    <2>4. CASE UNCHANGED vars
      <3>1. UNCHANGED <<faults, pc, loaded, results, alert, alerted, memory, seen, hist, latest,
                        metrics, alerts, stored>>
        BY <2>4 DEF vars, eventVars, memo, isolate, kv, history
      <3>2. Busy' = Busy /\ (Settled' <=> Settled)
        BY <3>1 DEF Busy, Settled, Alerting
      <3>3. \A r \in Runs : QuietRun(r)' <=> QuietRun(r)
        BY <3>1 DEF QuietRun, Persisted, FailedInARow, Failing
      <3>4. \A r \in Runs : RecordsAt(r)' <=> RecordsAt(r)
        BY <3>1 DEF RecordsAt, Alerting, Record
      <3>5. Busy \subseteq Runs
        BY DEF Busy
      <3> QED BY <3>1, <3>2, <3>3, <3>4, <3>5 DEF Quiet
    <2>5. ASSUME NEW r \in Runs, Begin(r) \/ Step(r) PROVE Quiet'
      <3>1. Busy \subseteq {r} /\ NoFault /\ faults = 0
        BY <2>2, <2>3, <2>5
      <3> QED BY <2>5, <3>1, QuietBefore, QuietReport, QuietReplay, QuietAnalyze, QuietRecord,
                 QuietPersist
              DEF Step
    <2>6. ASSUME NEW r \in Runs, Restart(r) PROVE Quiet'
      BY <2>1, <2>6 DEF Restart, Forgotten
    <2> QED BY <2>4, <2>5, <2>6 DEF Next
  <1> QED BY <1>1, <1>2

-----------------------------------------------------------------------------
\* At the beginning nothing is emitted, recorded or told of.
LEMMA InitIInv == Init => IInv
  <1> SUFFICES ASSUME Init PROVE IInv
    OBVIOUS
  <1>1. Control
    BY InitControl
  <1>2. EventsOK
    <2>1. ASSUME NEW r \in Runs PROVE Kept(r) /\ Once(r) /\ Ending(r)
      <3>1. pc[r] = "new" /\ emitted[r] = {} /\ log[r] = <<>> /\ pending[r] = <<>>
        BY DEF Init, EventsInit
      <3>2. Held(r) = <<>>
        BY <3>1 DEF Held
      <3> QED BY <3>1, <3>2 DEF Kept, Once, Ending, Distinct, Ended
    <2> QED BY <2>1 DEF EventsOK
  <1>3. HistoriesOK
    <2>1. HistoryOK(<<>>, results, alert, repeats)
      BY EmptySeq DEF HistoryOK, Varied
    <2> QED BY <2>1 DEF Init, HistoriesOK
  <1>4. AlertEarned
    BY DEF Init, AlertEarned
  <1>5. Quiet
    <2>1. Busy = {} /\ \A r \in Runs : ~Persisted(r)
      BY DEF Init, Busy, Persisted
    <2>2. \A r \in Runs : QuietRun(r)
      BY <2>1 DEF Init, QuietRun, Unfinished, Recording
    <2>3. Alerting = {} /\ Newest(<<>>) = <<>>
      <3>1. Newest(<<>>) = <<>>
        <4>1. PICK none \in Seq(Check) : none = <<>> /\ Len(none) = 0
          BY EmptySeq
        <4>2. PICK few \in Seq(Check) :
                 /\ few = Newest(none)
                 /\ Len(few) = IF Len(none) > MaxHistory THEN MaxHistory ELSE Len(none)
          BY NewestOf
        <4>3. Len(few) = 0
          BY <4>1, <4>2, ConstantsOK
        <4>4. few = <<>>
          BY <4>3, EmptySeq
        <4> QED BY <4>1, <4>2, <4>4
      <3> QED BY <3>1 DEF Init, Alerting
    <2>4. Settled
      BY <2>3, FS_EmptySet, EmptySeq DEF Init, Settled, Nothing
    <2> QED BY <2>1, <2>2, <2>4 DEF Quiet
  <1> QED BY <1>1, <1>2, <1>3, <1>4, <1>5 DEF IInv

\* The inductive invariant: where the runs are, what their emitters hold, what
\* their histories are made of.
THEOREM Invariant == Spec => []IInv
  <1>1. IInv /\ [Next]_vars => IInv'
    BY NextControl, NextEvents, NextStays, NextHistories, NextAlertEarned, NextQuiet DEF IInv
  <1> QED BY <1>1, InitIInv, PTL DEF Spec

\* Every variable has its type, on any number of runs with any lists of sources.
THEOREM TypeCorrect == Spec => []TypeOK
  <1>1. IInv => TypeOK
    BY DEF IInv, Control
  <1> QED BY <1>1, Invariant, PTL

\* analyze-results alerts of a source only when FailureThreshold runs found it
\* failing, less one for each record doubled by a retry of store-results,
\* however runs overlap, fail, are retried and are started again.
THEOREM AlertEarnedAlways == Spec => []AlertEarned
  <1>1. IInv => AlertEarned
    BY DEF IInv
  <1> QED BY <1>1, Invariant, PTL

\* Without a fault, however many checks time out and whatever list each run
\* brings: a run alerts of exactly the sources that it found failing and that
\* each of the FailureThreshold - 1 checks recorded before it included and found
\* failing; and between runs the history, the latest check, the totals and the
\* alerts are those of the checks stored, so that the four never drift apart.
THEOREM QuietRecordsAlways == Spec => []QuietRecords
  <1>1. IInv => QuietRecords
    <2> SUFFICES ASSUME IInv, faults = 0
                 PROVE  /\ \A r \in Busy : alert[r] # None /\ ~Persisted(r) =>
                              alert[r] = {s \in Failing(r) :
                                             r \notin Silent /\ FailedInARow(s, stored)}
                        /\ Busy = {} =>
                              /\ hist = Newest(stored)
                              /\ latest = IF stored = <<>> THEN None ELSE stored[1].run
                              /\ metrics = [checks |-> Len(stored), alerts |-> Cardinality(Alerting)]
                              /\ alerts = Alerting
      BY DEF QuietRecords
    <2>1. ASSUME NEW r \in Busy, alert[r] # None, ~Persisted(r)
          PROVE  alert[r] = {s \in Failing(r) : r \notin Silent /\ FailedInARow(s, stored)}
      <3>1. r \in Runs /\ pc[r] \in Program /\ pc[r] \notin Ended \cup {"new"}
        BY DEF Busy, IInv, Control, TypeOK
      <3>2. QuietRun(r)
        BY <3>1 DEF IInv, Quiet
      <3>3. pc[r] \in Recording
        BY <2>1, <3>1, <3>2 DEF QuietRun, Unfinished, Recording, Ended, Program
      <3> QED BY <3>2, <3>3 DEF QuietRun
    <2>2. ASSUME Busy = {} PROVE Settled
      BY <2>2 DEF IInv, Quiet
    <2>3. ASSUME Busy = {}
          PROVE  metrics = [checks |-> Len(stored), alerts |-> Cardinality(Alerting)]
      <3>1. metrics \in Totals
        BY DEF IInv, Control, TypeOK
      <3>2. metrics = [checks |-> metrics.checks, alerts |-> metrics.alerts]
        BY <3>1 DEF Totals
      <3> QED BY <2>2, <2>3, <3>2 DEF Settled
    <2> QED BY <2>1, <2>2, <2>3 DEF Settled
  <1> QED BY <1>1, Invariant, PTL

\* What the emitter of a run took is in its log or its buffer, as long as the
\* log has room: no failed flush() loses an event.
THEOREM EventsKeptAlways == Spec => []EventsKept
  <1>1. IInv => EventsKept
    <2> SUFFICES ASSUME IInv, NEW r \in Runs, Len(log[r]) < MaxEvents, NEW e \in emitted[r]
                 PROVE  \E i \in DOMAIN (log[r] \o pending[r]) : (log[r] \o pending[r])[i] = e
      BY DEF EventsKept
    <2>1. In(e, Held(r))
      BY DEF IInv, EventsOK, Kept
    <2>2. Held(r) \in Seq(Events) /\ Held(r) = log[r] \o pending[r]
      BY TypedIsTypeOK, Joined DEF IInv, Control, Typed, EventsTyped, Held
    <2> QED BY <2>1, <2>2, LenProperties DEF In
  <1> QED BY <1>1, Invariant, PTL

\* A log has no event twice, unless the run was started again or a write of its
\* log failed after it took effect.
THEOREM EventsOnceAlways == Spec => []EventsOnce
  <1>1. IInv => EventsOnce
    <2> SUFFICES ASSUME IInv, NEW r \in Runs, r \notin repeating
                 PROVE  \A i, j \in DOMAIN log[r] : log[r][i] = log[r][j] => i = j
      BY DEF EventsOnce
    <2>1. Distinct(Held(r))
      BY DEF IInv, EventsOK, Once
    <2>2. PICK s \in Seq(Events), t \in Seq(Events) : s = log[r] /\ t = pending[r]
      BY TypedIsTypeOK DEF IInv, Control, Typed, EventsTyped
    <2>3. /\ Len(s \o t) = Len(s) + Len(t) /\ Len(s) \in Nat /\ Len(t) \in Nat
          /\ \A i \in 1..Len(s) : (s \o t)[i] = s[i]
          /\ DOMAIN s = 1..Len(s)
      BY Joined, LenProperties
    <2>4. \A i \in DOMAIN s : i \in 1..Len(s \o t) /\ (s \o t)[i] = s[i]
      BY <2>3
    <2>5. Held(r) = s \o t
      BY <2>2 DEF Held
    <2>6. Distinct(s \o t)
      BY <2>1, <2>5
    <2>7. \A i, j \in DOMAIN s : s[i] = s[j] => i = j
      BY <2>4, <2>6 DEF Distinct
    <2> QED BY <2>2, <2>7
  <1> QED BY <1>1, Invariant, PTL

\* The log of a run that has ended tells of its end, unless two KV calls or
\* isolates failed: the flush in the last step makes up for a failed one.
THEOREM EndIsLoggedAlways == Spec => []EndIsLogged
  <1>1. IInv => EndIsLogged
    <2> SUFFICES ASSUME IInv, NEW r \in Runs, pc[r] \in Ended, faults < 2
                 PROVE  \E i \in DOMAIN log[r] : log[r][i].at \in {"completed", "catch"}
      BY DEF EndIsLogged
    <2>1. log[r] \in Seq(Events) /\ faults \in Nat
      <3>1. faults \in 0..MaxFaults /\ log \in [Runs -> Seq(Events)]
        BY TypedIsTypeOK DEF IInv, Control, Typed, EventsTyped
      <3> QED BY <3>1, ConstantsOK
    <2>2. EndsWithEnd(log[r])
      BY <2>1 DEF IInv, EventsOK, Ending
    <2>3. Len(log[r]) \in DOMAIN log[r]
      BY <2>1, <2>2, LenProperties DEF EndsWithEnd
    <2> QED BY <2>2, <2>3 DEF EndsWithEnd, IsEnd
  <1> QED BY <1>1, Invariant, PTL
=============================================================================
