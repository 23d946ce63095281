------------------------- MODULE CachingDownloader -------------------------
(***************************************************************************)
(* downloadWithMetadata() of src/src/storage/CachingDownloader.ts around   *)
(* one FilterDownloader, with the three records it keeps of a source in    *)
(* the storage: the cached list, the snapshot of ChangeDetector and the    *)
(* health metrics of SourceHealthMonitor.                                  *)
(*                                                                         *)
(* Every storage call is awaited, and the adapters answer an error of the  *)
(* database with null or false, which no caller tells from "not there" and *)
(* ignores: a fault makes a read empty and a write void.  Options are at   *)
(* their defaults.  prewarmCache() is one caller's calls in a row.  The    *)
(* comparison with the old snapshot goes only into the answer, and no list *)
(* grows by the 100 rules that archive a snapshot nothing reads.           *)
(***************************************************************************)
EXTENDS FilterDownloader, FiniteSets

CONSTANTS
    Configured,     \* the sources that are asked for
    MaxRecent,      \* maxRecentAttempts
    MaxCalls,       \* bound: calls of downloadWithMetadata() in all
    MaxFaults,      \* bound: storage calls that fail
    None

ASSUME ConfiguredAssumption == Configured \subseteq Sources
ASSUME MaxRecentAssumption == MaxRecent \in Nat \ {0}
ASSUME BoundsAssumption == MaxCalls \in Nat /\ MaxFaults \in Nat
ASSUME NoneAssumption == None \notin Configured

VARIABLES
    phase,      \* where each call of downloadWithMetadata() is suspended
    wanted,     \* its source
    metrics,    \* the health record it has read
    cache,      \* the filterCache table
    snapshot,   \* the list behind the hash of ['snapshots', 'sources', source]
    health,     \* ['health', 'sources', source]
    begun,      \* calls so far
    faults,     \* storage calls that failed so far
    settled,    \* history: the outcomes recorded for each source, newest first
    torn,       \* history: sources whose cache and snapshot writes overlapped or failed
    lost        \* history: sources whose health updates overlapped or failed

records == <<cache, snapshot, health>>
history == <<settled, torn, lost>>
vars == <<downloader, phase, wanted, metrics, records, begun, faults, history>>

Phases == {"idle", "lookup", "evict", "missed", "base", "snapshot", "recall", "record"}
Outcomes == Seq(BOOLEAN)
Health == [total : Nat, failed : Nat, recent : Outcomes]
Entries == [list : Seq(Sources), excused : BOOLEAN, live : BOOLEAN]
Unknown == [total |-> 0, failed |-> 0, recent |-> <<>>]

\* Types; a call under way has a source.
TypeOK ==
    /\ DTypeOK
    /\ phase \in [Callers -> Phases]
    /\ wanted \in [Callers -> Configured \cup {None}]
    /\ \A c \in Callers : phase[c] # "idle" => wanted[c] \in Configured
    /\ metrics \in [Callers -> Health]
    /\ cache \in [Configured -> {None} \cup Entries]
    /\ snapshot \in [Configured -> {None} \cup Seq(Sources)]
    /\ health \in [Configured -> Health]
    /\ begun \in 0..MaxCalls /\ faults \in 0..MaxFaults
    /\ settled \in [Configured -> Outcomes]
    /\ torn \subseteq Configured /\ lost \subseteq Configured

Init ==
    /\ DInit
    /\ phase = [c \in Callers |-> "idle"]
    /\ wanted = [c \in Callers |-> None]
    /\ metrics = [c \in Callers |-> Unknown]
    /\ cache = [s \in Configured |-> None]
    /\ snapshot = [s \in Configured |-> None]
    /\ health = [s \in Configured |-> Unknown]
    /\ begun = 0 /\ faults = 0
    /\ settled = [s \in Configured |-> <<>>]
    /\ torn = {} /\ lost = {}

-----------------------------------------------------------------------------
Goes(c, p) == phase' = [phase EXCEPT ![c] = p]
Elsewhere(c, p) == \E d \in Callers \ {c} : phase[d] = p /\ wanted[d] = wanted[c]
Flaw == faults < MaxFaults /\ faults' = faults + 1
Fine == UNCHANGED faults
Succeeded(c) == verdict[c] = "resolved"

Call(c, s) ==
    /\ phase[c] = "idle"
    /\ begun < MaxCalls
    /\ begun' = begun + 1
    /\ wanted' = [wanted EXCEPT ![c] = s]
    /\ Goes(c, "lookup")
    /\ UNCHANGED <<downloader, metrics, records, faults, history>>

\* getCachedFilterList(): a hit answers the call, and leaves the health alone.
LookUp(c) ==
    LET entry == cache[wanted[c]]
    IN /\ phase[c] = "lookup"
       /\ \/ entry # None /\ entry.live /\ Goes(c, "idle") /\ Fine
          \/ entry # None /\ ~entry.live /\ Goes(c, "evict") /\ Fine
          \/ entry = None /\ Goes(c, "missed") /\ Fine
          \/ Goes(c, "missed") /\ Flaw
       /\ wanted' = [wanted EXCEPT ![c] = IF phase'[c] = "idle" THEN None ELSE @]
       /\ UNCHANGED <<downloader, metrics, records, begun, history>>

\* An expired entry is deleted by its source, whatever is stored there by now.
Evict(c) ==
    /\ phase[c] = "evict"
    /\ Goes(c, "missed")
    /\ \/ cache' = [cache EXCEPT ![wanted[c]] = None] /\ Fine
       \/ UNCHANGED cache /\ Flaw
    /\ UNCHANGED <<downloader, wanted, metrics, snapshot, health, begun, history>>

Start(c) ==
    /\ phase[c] = "missed"
    /\ Download(c, wanted[c])
    /\ Goes(c, "base")
    /\ UNCHANGED <<wanted, metrics, records, begun, faults, history>>

Base(c) ==
    /\ phase[c] = "base"
    /\ DStep(c)
    /\ UNCHANGED <<phase, wanted, metrics, records, begun, faults, history>>

\* cacheFilterList() of what the downloader resolved with.
Store_Mut(c) ==                             \* mutant: a rejection stored as []
    /\ phase[c] = "base" /\ c \notin Running
    /\ Goes(c, "snapshot")
    /\ cache' = [cache EXCEPT ![wanted[c]] =
          [list |-> rules[c], excused |-> disturbed[c] \/ dropped[c], live |-> TRUE]]
    /\ UNCHANGED <<downloader, wanted, metrics, snapshot, health, begun, faults, history>>
Store(c) ==
    /\ phase[c] = "base" /\ Succeeded(c)
    /\ Goes(c, "snapshot")
    /\ \/ /\ cache' = [cache EXCEPT ![wanted[c]] =
                [list |-> rules[c], excused |-> disturbed[c] \/ dropped[c], live |-> TRUE]]
          /\ Fine
          /\ torn' = torn \cup (IF Elsewhere(c, "snapshot") THEN {wanted[c]} ELSE {})
       \/ UNCHANGED cache /\ Flaw /\ torn' = torn \cup {wanted[c]}
    /\ UNCHANGED <<downloader, wanted, metrics, snapshot, health, begun, settled, lost>>

\* detectAndStore(): the new snapshot is stored in any case.
Snapshot_Mut(c) ==                          \* mutant: only a first snapshot stored
    /\ phase[c] = "snapshot"
    /\ Goes(c, "recall")
    /\ snapshot' = [snapshot EXCEPT ![wanted[c]] = IF @ = None THEN rules[c] ELSE @]
    /\ UNCHANGED <<downloader, wanted, metrics, cache, health, begun, faults, history>>
Snapshot(c) ==
    /\ phase[c] = "snapshot"
    /\ Goes(c, "recall")
    /\ \/ snapshot' = [snapshot EXCEPT ![wanted[c]] = rules[c]] /\ Fine /\ UNCHANGED torn
       \/ UNCHANGED snapshot /\ Flaw /\ torn' = torn \cup {wanted[c]}
    /\ UNCHANGED <<downloader, wanted, metrics, cache, health, begun, settled, lost>>

\* recordAttempt() reads the record of the source ...
Recall(c) ==
    /\ phase[c] = "recall" \/ (phase[c] = "base" /\ verdict[c] = "rejected")
    /\ Goes(c, "record")
    /\ \/ /\ metrics' = [metrics EXCEPT ![c] = health[wanted[c]]]
          /\ Fine
          /\ lost' = lost \cup (IF Elsewhere(c, "record") THEN {wanted[c]} ELSE {})
       \/ /\ metrics' = [metrics EXCEPT ![c] = Unknown]
          /\ Flaw
          /\ lost' = lost \cup {wanted[c]}
    /\ UNCHANGED <<downloader, wanted, records, begun, settled, torn>>

\* ... and writes it back with the attempt added.
Newest(seq, n) == SubSeq(seq, 1, IF Len(seq) < n THEN Len(seq) ELSE n)
Updated_MutTwice(m, ok) ==                  \* mutant: a failure counted twice
    [total |-> m.total + 1,
     failed |-> m.failed + (IF ok THEN 0 ELSE 2),
     recent |-> Newest(<<ok>> \o m.recent, MaxRecent)]
Updated_MutOldest(m, ok) ==                 \* mutant: appended, so the newest is cut
    [total |-> m.total + 1,
     failed |-> m.failed + (IF ok THEN 0 ELSE 1),
     recent |-> Newest(Append(m.recent, ok), MaxRecent)]
Updated(m, ok) ==
    [total |-> m.total + 1,
     failed |-> m.failed + (IF ok THEN 0 ELSE 1),
     recent |-> Newest(<<ok>> \o m.recent, MaxRecent)]

Record(c) ==
    /\ phase[c] = "record"
    /\ Goes(c, "idle")
    /\ Forget(c)
    /\ wanted' = [wanted EXCEPT ![c] = None]
    /\ metrics' = [metrics EXCEPT ![c] = Unknown]
    /\ settled' = [settled EXCEPT ![wanted[c]] = <<Succeeded(c)>> \o @]
    /\ \/ /\ health' = [health EXCEPT ![wanted[c]] = Updated(metrics[c], Succeeded(c))]
          /\ Fine /\ UNCHANGED lost
       \/ UNCHANGED health /\ Flaw /\ lost' = lost \cup {wanted[c]}
    /\ UNCHANGED <<cache, snapshot, begun, torn>>

\* The time to live of an entry runs out.
Expire(s) ==
    /\ cache[s] # None
    /\ cache[s].live
    /\ cache' = [cache EXCEPT ![s].live = FALSE]
    /\ UNCHANGED <<downloader, phase, wanted, metrics, snapshot, health, begun, faults, history>>

Step(c) ==
    \/ LookUp(c) \/ Evict(c) \/ Start(c) \/ Base(c)
    \/ Store(c) \/ Snapshot(c) \/ Recall(c) \/ Record(c)

Next ==
    \/ \E c \in Callers : Step(c) \/ \E s \in Configured : Call(c, s)
    \/ \E s \in Configured : Expire(s)

Spec == Init /\ [][Next]_vars

\* Every fetch ends (a timer aborts it), every storage call settles and every
\* back-off is over: a suspended call always goes on.
FairSpec == Spec /\ \A c \in Callers : WF_vars(Step(c))

-----------------------------------------------------------------------------
\* The cache holds, complete and without repetition, what the source and its
\* includes hold, unless the download that filled it left an include out or
\* shared visitedUrls with another one.
CachedIsWhole ==
    \A s \in Configured : cache[s] # None /\ ~cache[s].excused =>
        /\ Listed(cache[s].list) = Reachable[s]
        /\ \A i, j \in DOMAIN cache[s].list : cache[s].list[i] = cache[s].list[j] => i = j

\* Between two downloads the snapshot describes the list in the cache, unless
\* two of them stored at once or the storage failed.
CacheMatchesSnapshot ==
    \A s \in Configured \ torn :
        cache[s] # None /\ (\A c \in Callers : ~(phase[c] = "snapshot" /\ wanted[c] = s))
            => cache[s].list = snapshot[s]

Failures(seq) == {i \in DOMAIN seq : ~seq[i]}

\* The record of a source counts every attempt that has ended and lists the
\* latest, newest first, unless two updates overlapped or the storage failed.
HealthIsHistory ==
    \A s \in Configured \ lost :
        /\ health[s].total = Len(settled[s])
        /\ health[s].failed = Cardinality(Failures(settled[s]))
        /\ health[s].recent = Newest(settled[s], MaxRecent)

\* Whatever overlaps and fails, no record shows more attempts or more failures
\* than there were, so a source is never reported worse than it was.
NeverOvercounted ==
    \A s \in Configured :
        /\ health[s].total <= Len(settled[s])
        /\ health[s].failed <= Cardinality(Failures(settled[s]))

\* Every call is answered, however the lists include each other.
EveryCallEnds == \A c \in Callers : phase[c] # "idle" ~> phase[c] = "idle"
=============================================================================
