---------------------- MODULE HealthMonitoringWorkflow ----------------------
(***************************************************************************)
(* Runs of src/worker/workflows/HealthMonitoringWorkflow.ts: load the      *)
(* history of checks, check each source of the run's own list, alert of    *)
(* those that failed in this check and in the newest ones before it, store *)
(* the results.  The hourly run checks DEFAULT_SOURCES; one that is        *)
(* started by a request brings a list of its own, which nothing validates, *)
(* and all runs share one history.                                         *)
(*                                                                         *)
(* Each step.do() callback is retried on an error up to its limit and its  *)
(* result is persisted; when the isolate goes away run() starts again, its *)
(* finished steps answering at once with what they returned.  What lives   *)
(* outside the steps, such as the loaded history that store-results        *)
(* changes, is lost then but survives a retry.  Runs may overlap.  A fetch *)
(* that fails makes a source unhealthy; one that hangs runs into the step  *)
(* timeout, outside the callback's try.  The delays between checks only    *)
(* pass time.                                                              *)
(***************************************************************************)
EXTENDS WorkflowEvents, FiniteSets

CONSTANTS
    SourceNames,
    SourcesOf,          \* the names of the sources each run checks, in order
    MaxSources,         \* bound: the longest of these lists
    Silent,             \* the runs without alertOnFailure
    FailureThreshold,   \* HEALTH_THRESHOLDS.failureThreshold
    MaxHistory,         \* checks kept in the history (100)
    MaxBusy,            \* bound: runs at a time
    None

ASSUME RunsAssumption == Runs \subseteq Nat /\ IsFiniteSet(Runs)
ASSUME SourcesAssumption ==
    /\ SourcesOf \in [Runs -> Seq(SourceNames)]
    /\ MaxSources \in Nat /\ \A r \in Runs : Len(SourcesOf[r]) \in 1..MaxSources
ASSUME ThresholdAssumption ==
    /\ FailureThreshold \in Nat \ {0}
    /\ MaxHistory \in Nat /\ MaxHistory >= FailureThreshold - 1
ASSUME NoneAssumption ==
    None \notin Runs /\ \A found \in SUBSET SourceNames : None # found

VARIABLES
    pc,         \* the operation each run is at
    attempt,    \* failed attempts of the step it is in
    loaded,     \* persisted result of load-health-history
    results,    \* persisted results of the check-source steps
    alert,      \* persisted result of analyze-results: the sources to alert of
    alerted,    \* send-alerts has its result persisted
    passed,     \* the sources the loop of the isolate has behind it
    memory,     \* healthHistory.checks in the isolate
    seen,       \* the metrics store-results has read
    hist,       \* health:history
    latest,     \* health:latest: the run that stored last
    metrics,    \* workflow:health:metrics
    alerts,     \* health:alerts:<run>: the runs with an alert
    stored,     \* history: what finished store-results steps recorded, newest first
    repeats     \* history: records unshifted a second time into one history

memo == <<loaded, results, alert, alerted>>
kv == <<hist, latest, metrics, alerts>>
isolate == <<passed, memory, seen>>
history == <<stored, repeats>>
vars == <<eventVars, pc, attempt, memo, isolate, kv, history>>

Count(r) == Len(SourcesOf[r])
Names(r) == {SourcesOf[r][i] : i \in 1..Count(r)}

\* A recorded check says of each source it included whether it was healthy.
Outcome == UNION {[names -> BOOLEAN] : names \in SUBSET SourceNames}
Check == [run : Runs, ok : Outcome]
Totals == [checks : Nat, alerts : Nat]
Nothing == [checks |-> 0, alerts |-> 0]

Program == {"new", "start", "load", "loaded", "check", "checked", "analyze",
            "analyzed", "alert", "store", "latest", "metrics", "count", "persist",
            "completed", "last", "done",
            "catch", "lastCatch", "errored"}

TypeOK ==
    /\ pending \in [Runs -> Seq([at : Program, n : 0..MaxSources])]
    /\ log \in [Runs -> Seq([at : Program, n : 0..MaxSources])]
    /\ emitted \in [Runs -> SUBSET [at : Program, n : 0..MaxSources]]
    /\ faults \in 0..MaxFaults /\ repeating \subseteq Runs
    /\ pc \in [Runs -> Program]
    /\ attempt \in [Runs -> 0..2]
    /\ loaded \in [Runs -> {None} \cup Seq(Check)]
    /\ results \in [Runs -> Seq(BOOLEAN)]
    /\ \A r \in Runs : Len(results[r]) <= Count(r)
    /\ alert \in [Runs -> {None} \cup SUBSET SourceNames]
    /\ alerted \subseteq Runs /\ alerts \subseteq Runs
    /\ passed \in [Runs -> 0..MaxSources]
    /\ memory \in [Runs -> Seq(Check)]
    /\ seen \in [Runs -> Totals] /\ metrics \in Totals
    /\ hist \in Seq(Check) /\ latest \in Runs \cup {None}
    /\ stored \in Seq(Check) /\ repeats \in Nat

Init ==
    /\ EventsInit
    /\ pc = [r \in Runs |-> "new"]
    /\ attempt = [r \in Runs |-> 0]
    /\ loaded = [r \in Runs |-> None]
    /\ results = [r \in Runs |-> <<>>]
    /\ alert = [r \in Runs |-> None]
    /\ alerted = {}
    /\ passed = [r \in Runs |-> 0]
    /\ memory = [r \in Runs |-> <<>>]
    /\ seen = [r \in Runs |-> Nothing]
    /\ hist = <<>> /\ latest = None /\ metrics = Nothing /\ alerts = {}
    /\ stored = <<>> /\ repeats = 0

-----------------------------------------------------------------------------
Ended == {"done", "errored"}
Busy == {r \in Runs : pc[r] \notin {"new"} \cup Ended}
Goes(r, p) == pc' = [pc EXCEPT ![r] = p]
Event(p, k) == [at |-> p, n |-> k]
Persisted(r) == \E i \in DOMAIN stored : stored[i].run = r

\* The callback of a step throws: another attempt, or the catch of run().
Throws(r, begin, limit) ==
    IF attempt[r] < limit
    THEN Goes(r, begin) /\ attempt' = [attempt EXCEPT ![r] = @ + 1]
    ELSE Goes(r, "catch") /\ attempt' = [attempt EXCEPT ![r] = 0]
Returns(r, next) == Goes(r, next) /\ attempt' = [attempt EXCEPT ![r] = 0]

\* A run is created; runs are numbered in that order.  One that overlaps another
\* counts against the bound on faults.
Begin(r) ==
    /\ pc[r] = "new"
    /\ \A q \in Runs : q < r => pc[q] # "new"
    /\ Goes(r, "start")
    /\ \/ Busy = {} /\ NoFault
       \/ Busy # {} /\ Cardinality(Busy) < MaxBusy /\ Fault
    /\ UNCHANGED <<pending, log, emitted, repeating, attempt, memo, isolate, kv, history>>

\* Between two steps events are emitted and flushed.
AfterReport(r) ==
    CASE pc[r] = "start"     -> "load"
      [] pc[r] = "loaded"    -> "check"
      [] pc[r] = "checked"   -> IF passed[r] < Count(r) THEN "check" ELSE "analyze"
      [] pc[r] = "analyzed"  -> IF alert[r] # {} THEN "alert" ELSE "store"
      [] pc[r] = "completed" -> "last"
      [] pc[r] = "catch"     -> "lastCatch"
Report(r) ==
    /\ pc[r] \in {"start", "loaded", "checked", "analyzed", "completed", "catch"}
    /\ Emit(r, Event(pc[r], IF pc[r] = "checked" THEN passed[r] ELSE 0))
    /\ Goes(r, AfterReport(r))
    /\ UNCHANGED <<attempt, memo, isolate, kv, history>>

\* Both ends of run() flush once more what a failed flush has left.  Then the
\* isolate and the persisted results are done with; those of the checks and of
\* the analysis stay for the properties.
LastFlush_Mut(r) ==                         \* mutant: no second flush
    /\ pc[r] \in {"last", "lastCatch"}
    /\ Goes(r, IF pc[r] = "last" THEN "done" ELSE "errored")
    /\ UNCHANGED <<eventVars, attempt, memo, isolate, kv, history>>
LastFlush(r) ==
    /\ pc[r] \in {"last", "lastCatch"}
    /\ Flush(r)
    /\ Goes(r, IF pc[r] = "last" THEN "done" ELSE "errored")
    /\ loaded' = [loaded EXCEPT ![r] = None]
    /\ passed' = [passed EXCEPT ![r] = 0]
    /\ memory' = [memory EXCEPT ![r] = <<>>]
    /\ seen' = [seen EXCEPT ![r] = Nothing]
    /\ UNCHANGED <<attempt, results, alert, alerted, kv, history>>

\* A step whose result is persisted answers with it.
Replay(r) ==
    /\ \/ /\ pc[r] = "load" /\ loaded[r] # None
          /\ memory' = [memory EXCEPT ![r] = loaded[r]]
          /\ Goes(r, "loaded") /\ UNCHANGED passed
       \/ /\ pc[r] = "check" /\ passed[r] < Len(results[r])
          /\ passed' = [passed EXCEPT ![r] = @ + 1]
          /\ Goes(r, "checked") /\ UNCHANGED memory
       \/ /\ pc[r] = "analyze" /\ alert[r] # None
          /\ Goes(r, "analyzed") /\ UNCHANGED <<passed, memory>>
       \/ /\ pc[r] = "alert" /\ r \in alerted
          /\ Goes(r, "store") /\ UNCHANGED <<passed, memory>>
       \/ /\ pc[r] = "store" /\ Persisted(r)
          /\ Goes(r, "completed") /\ UNCHANGED <<passed, memory>>
    /\ UNCHANGED <<eventVars, attempt, memo, seen, kv, history>>

\* load-health-history
Load(r) ==
    /\ pc[r] = "load" /\ loaded[r] = None
    /\ \/ /\ loaded' = [loaded EXCEPT ![r] = hist]
          /\ memory' = [memory EXCEPT ![r] = hist]
          /\ Returns(r, "loaded") /\ NoFault
       \/ Throws(r, "load", 1) /\ Fault /\ UNCHANGED <<loaded, memory>>
    /\ UNCHANGED <<pending, log, emitted, repeating, results, alert, alerted, passed, seen, kv,
                   history>>

\* check-source-N: its own catch turns an error into an unhealthy result ...
CheckSource(r, ok) ==
    /\ pc[r] = "check" /\ passed[r] = Len(results[r])
    /\ results' = [results EXCEPT ![r] = Append(@, ok)]
    /\ passed' = [passed EXCEPT ![r] = @ + 1]
    /\ Returns(r, "checked")
    /\ UNCHANGED <<eventVars, loaded, alert, alerted, memory, seen, kv, history>>

\* ... but not the timeout of the step.
CheckTimesOut(r) ==
    /\ pc[r] = "check" /\ passed[r] = Len(results[r])
    /\ Throws(r, "check", 2)
    /\ UNCHANGED <<eventVars, memo, isolate, kv, history>>

\* analyze-results: a source failed now and in the newest checks before; one
\* that did not include it ends the count.
Failing(r) == {SourcesOf[r][i] : i \in {j \in DOMAIN results[r] : ~results[r][j]}}
FailedIn(check, s) == s \in DOMAIN check.ok /\ ~check.ok[s]
FailedBefore(checks, s, n) == \A i \in 1..n : i <= Len(checks) /\ FailedIn(checks[i], s)
Analyze_Mut(r) ==                           \* mutant: threshold off by one
    /\ pc[r] = "analyze" /\ alert[r] = None
    /\ alert' = [alert EXCEPT ![r] = {s \in Failing(r) :
          r \notin Silent /\ FailedBefore(memory[r], s, FailureThreshold - 2)}]
    /\ Goes(r, "analyzed")
    /\ UNCHANGED <<eventVars, attempt, loaded, results, alerted, isolate, kv, history>>
Analyze(r) ==
    /\ pc[r] = "analyze" /\ alert[r] = None
    /\ alert' = [alert EXCEPT ![r] = {s \in Failing(r) :
          r \notin Silent /\ FailedBefore(memory[r], s, FailureThreshold - 1)}]
    /\ Goes(r, "analyzed")
    /\ UNCHANGED <<eventVars, attempt, loaded, results, alerted, isolate, kv, history>>

\* A put in a step: done; failed before or after its effect; the step is then
\* tried again from its beginning.
Put(r, var, value, next, begin) ==
    \/ var' = value /\ NoFault /\ Goes(r, next) /\ UNCHANGED attempt
    \/ var' \in {var, value} /\ Fault /\ Throws(r, begin, 2)

\* send-alerts
SendAlerts(r) ==
    /\ pc[r] = "alert" /\ r \notin alerted
    /\ \/ /\ alerts' = alerts \cup {r} /\ alerted' = alerted \cup {r}
          /\ NoFault /\ Returns(r, "store")
       \/ /\ alerts' \in {alerts, alerts \cup {r}} /\ UNCHANGED alerted
          /\ Fault /\ Throws(r, "alert", 2)
    /\ UNCHANGED <<pending, log, emitted, repeating, loaded, results, alert, isolate, hist,
                   latest, metrics, history>>

\* store-results: the loaded history is changed in place, then written; of a
\* name that is twice in the list the later result is recorded ...
LastOf(r, s) == CHOOSE i \in 1..Count(r) :
    SourcesOf[r][i] = s /\ \A j \in 1..Count(r) : SourcesOf[r][j] = s => j <= i
Record(r) == [run |-> r, ok |-> [s \in Names(r) |-> results[r][LastOf(r, s)]]]
Newest(checks) ==
    SubSeq(checks, 1, IF Len(checks) > MaxHistory THEN MaxHistory ELSE Len(checks))
Unshifted_Mut(r) == Newest(Append(memory[r], Record(r)))    \* mutant: at the old end
Unshifted(r) == Newest(<<Record(r)>> \o memory[r])
StoreHistory(r) ==
    /\ pc[r] = "store" /\ ~Persisted(r)
    /\ memory' = [memory EXCEPT ![r] = Unshifted(r)]
    /\ repeats' = repeats + IF \E i \in DOMAIN memory[r] : memory[r][i].run = r THEN 1 ELSE 0
    /\ Put(r, hist, Unshifted(r), "latest", "store")
    /\ UNCHANGED <<pending, log, emitted, repeating, memo, passed, seen, latest, metrics,
                   alerts, stored>>

StoreLatest(r) ==
    /\ pc[r] = "latest"
    /\ Put(r, latest, r, "metrics", "store")
    /\ UNCHANGED <<pending, log, emitted, repeating, memo, isolate, hist, metrics, alerts,
                   history>>

\* ... the totals are read, added to and written back.
ReadMetrics(r) ==
    /\ pc[r] = "metrics"
    /\ \/ /\ seen' = [seen EXCEPT ![r] = metrics]
          /\ Goes(r, "count") /\ NoFault /\ UNCHANGED attempt
       \/ UNCHANGED seen /\ Fault /\ Throws(r, "store", 2)
    /\ UNCHANGED <<pending, log, emitted, repeating, memo, passed, memory, kv, history>>

Counted(r) == [checks |-> seen[r].checks + 1,
               alerts |-> seen[r].alerts + IF alert[r] # {} THEN 1 ELSE 0]
StoreMetrics(r) ==
    /\ pc[r] = "count"
    /\ Put(r, metrics, Counted(r), "persist", "store")
    /\ UNCHANGED <<pending, log, emitted, repeating, memo, isolate, hist, latest, alerts,
                   history>>

Persist(r) ==
    /\ pc[r] = "persist"
    /\ Returns(r, "completed")
    /\ stored' = <<Record(r)>> \o stored
    /\ UNCHANGED <<eventVars, memo, isolate, kv, repeats>>

\* The isolate goes away; run() starts again.
Restart(r) ==
    /\ r \in Busy /\ pc[r] \notin {"catch", "lastCatch"}
    /\ Forgotten(r)
    /\ Goes(r, "start")
    /\ passed' = [passed EXCEPT ![r] = 0]
    /\ memory' = [memory EXCEPT ![r] = <<>>]
    /\ seen' = [seen EXCEPT ![r] = Nothing]
    /\ UNCHANGED <<attempt, memo, kv, history>>

Step(r) ==
    \/ Report(r) \/ LastFlush(r) \/ Replay(r)
    \/ Load(r) \/ (\E ok \in BOOLEAN : CheckSource(r, ok)) \/ CheckTimesOut(r)
    \/ Analyze(r) \/ SendAlerts(r)
    \/ StoreHistory(r) \/ StoreLatest(r) \/ ReadMetrics(r) \/ StoreMetrics(r) \/ Persist(r)

Next == \E r \in Runs : Begin(r) \/ Step(r) \/ Restart(r)

Spec == Init /\ [][Next]_vars

-----------------------------------------------------------------------------
\* An alert for a source means that FailureThreshold different runs found it
\* failing, less one for every record that a retried store-results put into its
\* history a second time: the alert that comes a run early.
FoundFailing(s) == {r \in Runs : s \in Failing(r)}
AlertEarned ==
    \A r \in Runs : alert[r] # None =>
        \A s \in alert[r] : Cardinality(FoundFailing(s)) + repeats >= FailureThreshold

\* As long as no KV call fails, no isolate goes away and no two runs overlap, a
\* run alerts of exactly the sources that it found failing and that each of the
\* FailureThreshold - 1 checks recorded before it included and found failing: a
\* run with another list in between, whatever it finds, keeps the alert back.
\* And between runs the history, the latest check, the totals and the alerts are
\* those of the checks stored, however many checks time out.
FailedInARow(s, checks) ==
    /\ Len(checks) >= FailureThreshold - 1
    /\ \A i \in 1..(FailureThreshold - 1) : s \in DOMAIN checks[i].ok /\ ~checks[i].ok[s]
Alerting == {r \in Runs : alert[r] \notin {None, {}}}
QuietRecords ==
    faults = 0 =>
        /\ \A r \in Busy : alert[r] # None /\ ~Persisted(r) =>
              alert[r] = {s \in Failing(r) : r \notin Silent /\ FailedInARow(s, stored)}
        /\ Busy = {} =>
              /\ hist = Newest(stored)
              /\ latest = IF stored = <<>> THEN None ELSE stored[1].run
              /\ metrics = [checks |-> Len(stored), alerts |-> Cardinality(Alerting)]
              /\ alerts = Alerting

\* The end of a run can be read from its log, unless two KV calls or isolates
\* failed: one failed flush is made up for by the second at the end of run().
EndIsLogged ==
    \A r \in Runs : pc[r] \in Ended /\ faults < 2 =>
        \E i \in DOMAIN log[r] : log[r][i].at \in {"completed", "catch"}

=============================================================================
