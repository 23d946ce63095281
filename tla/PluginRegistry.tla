--------------------------- MODULE PluginRegistry ---------------------------
(***************************************************************************)
(* PluginRegistry of src/src/plugins/PluginSystem.ts: register,            *)
(* registerAll, unregister and clear, called by several callers whose      *)
(* calls overlap while they wait for a plugin's init() or cleanup().       *)
(*                                                                         *)
(* The ten maps of the registry (transformations, downloaders by scheme,   *)
(* formatters, ...) are one map from keys to the plugin whose slot the key *)
(* holds; KeysOf lists a plugin's keys in the order in which register()    *)
(* fills them.  The SubsystemBridge is told of every change in the step    *)
(* that makes it and is left out, as are the queries.                      *)
(***************************************************************************)
EXTENDS Naturals, SequencesExt

CONSTANTS
    Plugins,        \* plugin objects
    Names,
    NameOf,         \* manifest.name; two objects may share one
    DependsOn,      \* manifest.dependencies
    Keys,
    KeysOf,
    WithInit,       \* plugins that have an init()
    WithCleanup,    \* plugins that have a cleanup()
    Batches,        \* bound: the sets of plugins handed to registerAll()
    Callers,
    None

ASSUME PluginsAssumption ==
    /\ NameOf \in [Plugins -> Names]
    /\ DependsOn \in [Plugins -> SUBSET Names]
    /\ KeysOf \in [Plugins -> Seq(Keys)]
ASSUME FiniteAssumption ==
    /\ IsFiniteSet(Names)
    /\ \A b \in Batches : b \subseteq Plugins /\ IsFiniteSet(b)
ASSUME DistinctAssumption ==
    Plugins \cap Names = {} /\ None \notin Plugins \cup Names

VARIABLES
    plugins,    \* the registered plugin of each name
    entry,      \* the plugin each key of the maps belongs to
    todo,       \* of each caller: plugins to register, names to unregister
    waiting,    \* the plugin whose init() or cleanup() the caller awaits
    batch,      \* the caller is in registerAll()
    collided,   \* history: plugins that were refused with some keys filled
    replaced,   \* history: names taken or given up by the wrong plugin
    late,       \* history: keys removed for a plugin that had gone already
    removed     \* history: names that were unregistered

vars == <<plugins, entry, todo, waiting, batch, collided, replaced, late, removed>>
history == <<collided, replaced, late, removed>>

TypeOK ==
    /\ plugins \in [Names -> Plugins \cup {None}]
    /\ entry \in [Keys -> Plugins \cup {None}]
    /\ todo \in [Callers -> Seq(Plugins \cup Names)]
    /\ waiting \in [Callers -> Plugins \cup {None}]
    /\ batch \in [Callers -> BOOLEAN]
    /\ collided \subseteq Plugins
    /\ replaced \subseteq Names /\ removed \subseteq Names
    /\ late \subseteq Keys

Init ==
    /\ plugins = [n \in Names |-> None]
    /\ entry = [k \in Keys |-> None]
    /\ todo = [c \in Callers |-> <<>>]
    /\ waiting = [c \in Callers |-> None]
    /\ batch = [c \in Callers |-> FALSE]
    /\ collided = {} /\ replaced = {} /\ late = {} /\ removed = {}

-----------------------------------------------------------------------------
OwnKeys(p) == Range(KeysOf[p])
Begin(c, jobs, isBatch) ==
    /\ todo[c] = <<>>
    /\ todo' = [todo EXCEPT ![c] = jobs]
    /\ batch' = [batch EXCEPT ![c] = isBatch]
    /\ UNCHANGED <<plugins, entry, waiting, history>>
Register(c, p) == Begin(c, <<p>>, FALSE)
Unregister(c, n) == Begin(c, <<n>>, FALSE)

\* topologicalSort: every plugin comes after its dependencies, all of which
\* must be in the batch; which such order it is depends on the array.
TopologicalSort_Mut(b) == SetToSeqs(b)          \* mutant: no sorting
TopologicalSort(b) ==
    {s \in SetToSeqs(b) :
        \A k \in DOMAIN s : \A d \in DependsOn[s[k]] :
            \E j \in 1..(k - 1) : NameOf[s[j]] = d}
RegisterAll(c, b) == \E order \in TopologicalSort(b) : Begin(c, order, TRUE)

\* clear() unregisters the names it finds when it is called.
Clear(c) ==
    \E order \in SetToSeqs({n \in Names : plugins[n] # None}) :
        order # <<>> /\ Begin(c, order, FALSE)

-----------------------------------------------------------------------------
Job(c) == Head(todo[c])
Continue(c) == todo' = [todo EXCEPT ![c] = Tail(@)]
Throw(c) == todo' = [todo EXCEPT ![c] = <<>>]
Ready(c) == todo[c] # <<>> /\ waiting[c] = None

Acceptable(p) ==
    plugins[NameOf[p]] = None /\ \A d \in DependsOn[p] : plugins[d] # None

Taken_Mut(p, k) == FALSE                        \* mutant: a duplicate key is set
Taken(p, k) ==
    \/ entry[KeysOf[p][k]] # None
    \/ \E j \in 1..(k - 1) : KeysOf[p][j] = KeysOf[p][k]
\* The keys that register() fills before it meets one that is taken.
Filled(p) ==
    {KeysOf[p][k] : k \in {i \in DOMAIN KeysOf[p] : \A j \in 1..i : ~ Taken(p, j)}}
Clashes(p) == \E k \in DOMAIN KeysOf[p] : Taken(p, k)

SetKeys(keys, p) == entry' = [k \in Keys |-> IF k \in keys THEN p ELSE entry[k]]

\* register() throws before it has changed anything.
Refuse(c) ==
    /\ Ready(c) /\ Job(c) \in Plugins /\ ~ Acceptable(Job(c))
    /\ Throw(c)
    /\ UNCHANGED <<plugins, entry, waiting, batch, history>>

\* A key is taken: register() throws, and keeps the keys it has filled.
Collide(c) ==
    LET p == Job(c) IN
    /\ Ready(c) /\ p \in Plugins /\ Acceptable(p) /\ Clashes(p)
    /\ SetKeys(Filled(p), p)
    /\ collided' = IF Filled(p) = {} THEN collided ELSE collided \cup {p}
    /\ Throw(c)
    /\ UNCHANGED <<plugins, waiting, batch, replaced, late, removed>>

\* plugins.set(name, plugin), the end of register().
Record(p) ==
    /\ plugins' = [plugins EXCEPT ![NameOf[p]] = p]
    /\ replaced' = IF plugins[NameOf[p]] \in {None, p} THEN replaced
                   ELSE replaced \cup {NameOf[p]}

Fill(c) ==
    LET p == Job(c) IN
    /\ Ready(c) /\ p \in Plugins /\ Acceptable(p) /\ ~ Clashes(p)
    /\ SetKeys(OwnKeys(p), p)
    /\ IF p \in WithInit
       THEN /\ waiting' = [waiting EXCEPT ![c] = p]
            /\ UNCHANGED <<plugins, todo, replaced>>
       ELSE Record(p) /\ Continue(c) /\ UNCHANGED waiting
    /\ UNCHANGED <<batch, collided, late, removed>>

Awaits(c) == todo[c] # <<>> /\ waiting[c] # None
Settled(c) == waiting' = [waiting EXCEPT ![c] = None]

InitDone(c) ==
    /\ Awaits(c) /\ Job(c) \in Plugins
    /\ Record(waiting[c])
    /\ Settled(c) /\ Continue(c)
    /\ UNCHANGED <<entry, batch, collided, late, removed>>

\* init() throws, or initTimeout passes first: rollbackSubsystemEntries.
InitFails_Mut(c) ==                             \* mutant: no rollback
    /\ Awaits(c) /\ Job(c) \in Plugins
    /\ Settled(c) /\ Throw(c)
    /\ UNCHANGED <<plugins, entry, batch, history>>
InitFails(c) ==
    /\ Awaits(c) /\ Job(c) \in Plugins
    /\ SetKeys(OwnKeys(waiting[c]), None)
    /\ Settled(c) /\ Throw(c)
    /\ UNCHANGED <<plugins, batch, history>>

-----------------------------------------------------------------------------
\* The rest of unregister() for the plugin it looked up: keys and name go,
\* whoever has them by now.
TakeOut(p) ==
    LET n == NameOf[p] IN
    /\ SetKeys(OwnKeys(p), None)
    /\ plugins' = [plugins EXCEPT ![n] = None]
    /\ removed' = removed \cup {n}
    /\ late' = IF plugins[n] = p THEN late ELSE late \cup OwnKeys(p)
    /\ replaced' = IF plugins[n] \in {None, p} THEN replaced ELSE replaced \cup {n}

LookUp(c) ==
    LET n == Job(c) IN
    /\ Ready(c) /\ n \in Names
    /\ IF plugins[n] = None
       THEN Continue(c) /\ UNCHANGED <<plugins, entry, waiting, replaced, late, removed>>
       ELSE IF plugins[n] \in WithCleanup
       THEN /\ waiting' = [waiting EXCEPT ![c] = plugins[n]]
            /\ UNCHANGED <<plugins, entry, todo, replaced, late, removed>>
       ELSE TakeOut(plugins[n]) /\ Continue(c) /\ UNCHANGED waiting
    /\ UNCHANGED <<batch, collided>>

CleanupDone(c) ==
    /\ Awaits(c) /\ Job(c) \in Names
    /\ TakeOut(waiting[c])
    /\ Settled(c) /\ Continue(c)
    /\ UNCHANGED <<batch, collided>>

CleanupThrows(c) ==
    /\ Awaits(c) /\ Job(c) \in Names
    /\ Settled(c) /\ Throw(c)
    /\ UNCHANGED <<plugins, entry, batch, history>>

Next ==
    \E c \in Callers :
        \/ \E p \in Plugins : Register(c, p)
        \/ \E n \in Names : Unregister(c, n)
        \/ \E b \in Batches : RegisterAll(c, b)
        \/ Clear(c)
        \/ Refuse(c) \/ Collide(c) \/ Fill(c) \/ InitDone(c) \/ InitFails(c)
        \/ LookUp(c) \/ CleanupDone(c) \/ CleanupThrows(c)

Spec == Init /\ [][Next]_vars

-----------------------------------------------------------------------------
Starts(c, p) == waiting[c] = p /\ Job(c) \in Plugins
Initialising(p) == \E c \in Callers : Starts(c, p)
Registered(p) == plugins[NameOf[p]] = p

\* Every slot of a registered plugin is found under its key, and no other
\* plugin's; the exception is a key that a second, overlapping unregister()
\* took away from whoever had it by then.
ServedWhileRegistered ==
    \A p \in Plugins : Registered(p) => \A k \in OwnKeys(p) \ late : entry[k] = p

\* A key that is found belongs to a plugin that is registered or starting up:
\* a failed init() leaves nothing behind, nor does an unregister().  The
\* exceptions are the keys that a refused registration keeps, and those of
\* plugins whose name another plugin took, or gave up, in an overlapping call.
NothingLeftBehind ==
    \A k \in Keys :
        entry[k] # None =>
            \/ Registered(entry[k]) \/ Initialising(entry[k])
            \/ entry[k] \in collided \/ NameOf[entry[k]] \in replaced

\* registerAll() never comes to a plugin whose dependencies are not there,
\* in its order and with a failure that ends it, unless they have been
\* unregistered at some time.
BatchMeetsDependencies ==
    \A c \in Callers :
        batch[c] /\ Ready(c) =>
            \A d \in DependsOn[Job(c)] : plugins[d] # None \/ d \in removed
=============================================================================
