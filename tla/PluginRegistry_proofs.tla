----------------------- MODULE PluginRegistry_proofs -----------------------
(***************************************************************************)
(* ServedWhileRegistered, NothingLeftBehind and BatchMeetsDependencies hold *)
(* for any plugins, keys and callers.  None is inductive: what a registered *)
(* plugin is owed must be known of a plugin while its init() runs, a key    *)
(* that belongs to a plugin must be one of the plugin's own, and what a     *)
(* batch still has to do must be in an order of dependencies.               *)
(***************************************************************************)
EXTENDS PluginRegistry, FiniteSetTheorems, TLAPS

Shape ==
    /\ plugins \in [Names -> Plugins \cup {None}]
    /\ entry \in [Keys -> Plugins \cup {None}]
    /\ waiting \in [Callers -> Plugins \cup {None}]
    /\ todo = [c \in Callers |-> todo[c]]
IdleWaitsForNothing == \A c \in Callers : todo[c] = <<>> => waiting[c] = None
Served(p) == \A k \in OwnKeys(p) \ late : entry[k] = p
ServedWhileStarting == \A c \in Callers, p \in Plugins : Starts(c, p) => Served(p)
\* Two registrations of the same object are under way, or one is while it is
\* registered, only if all its keys were taken away before.
StartedOnce ==
    \A c \in Callers, p \in Plugins :
        /\ Starts(c, p) /\ Registered(p) => OwnKeys(p) \subseteq late
        /\ \A d \in Callers \ {c} :
              Starts(c, p) /\ Starts(d, p) => OwnKeys(p) \subseteq late
EntryIsOwn == \A k \in Keys : entry[k] # None => k \in OwnKeys(entry[k])

ServingInv ==
    /\ Shape /\ IdleWaitsForNothing
    /\ ServedWhileRegistered /\ ServedWhileStarting /\ StartedOnce
\* What a registerAll() still has to do is in an order of dependencies, and the
\* init() it awaits is that of the first plugin of these.
Met(n) == plugins[n] # None \/ n \in removed
Sorted(c) ==
    batch[c] =>
        \A k \in 1..Len(todo[c]) :
            /\ todo[c][k] \in Plugins
            /\ \A d \in DependsOn[todo[c][k]] :
                  Met(d) \/ \E j \in 1..(k - 1) : NameOf[todo[c][j]] = d
FirstAwaited(c) == batch[c] /\ waiting[c] # None => waiting[c] = Job(c)
BatchInv ==
    /\ TypeOK /\ IdleWaitsForNothing
    /\ \A c \in Callers : Sorted(c) /\ FirstAwaited(c)
OwnerInv == Shape /\ IdleWaitsForNothing /\ EntryIsOwn /\ NothingLeftBehind

StepOf(c) ==
    \/ \E jobs : \E isBatch \in BOOLEAN : Begin(c, jobs, isBatch)
    \/ Refuse(c) \/ Collide(c) \/ Fill(c) \/ InitDone(c) \/ InitFails(c)
    \/ LookUp(c) \/ CleanupDone(c) \/ CleanupThrows(c)

-----------------------------------------------------------------------------
\* A step is some caller's, and the four calls begin in the same way.
LEMMA StepIsSomeones == Next => \E c \in Callers : StepOf(c)
<1> SUFFICES ASSUME NEW c \in Callers,
                    \/ \E p \in Plugins : Register(c, p)
                    \/ \E n \in Names : Unregister(c, n)
                    \/ \E b \in Batches : RegisterAll(c, b)
                    \/ Clear(c)
                    \/ Refuse(c) \/ Collide(c) \/ Fill(c) \/ InitDone(c)
                    \/ InitFails(c) \/ LookUp(c) \/ CleanupDone(c)
                    \/ CleanupThrows(c)
             PROVE  StepOf(c)
  BY DEF Next
<1> QED
  BY DEF StepOf, Register, Unregister, RegisterAll, Clear

\* A step of c leaves the calls of the others alone, and the only plugin it
\* starts is the one that Fill has just found acceptable.
LEMMA StartsFrame ==
    ASSUME NEW c \in Callers, StepOf(c), Shape, IdleWaitsForNothing
    PROVE  /\ Shape' /\ IdleWaitsForNothing'
           /\ \A d \in Callers, p \in Plugins :
                 Starts(d, p)' => \/ Starts(d, p)
                                  \/ d = c /\ Fill(c) /\ p = Job(c) /\ ~ Starts(c, p)
           /\ \A d \in Callers, p \in Plugins :
                 Starts(d, p) /\ ~ Starts(d, p)' =>
                    d = c /\ (InitDone(c) \/ InitFails(c))
<1> USE DistinctAssumption, PluginsAssumption
<1> DEFINE Goal ==
      /\ Shape' /\ IdleWaitsForNothing'
      /\ \A d \in Callers, p \in Plugins :
            Starts(d, p)' => \/ Starts(d, p)
                             \/ d = c /\ Fill(c) /\ p = Job(c) /\ ~ Starts(c, p)
      /\ \A d \in Callers, p \in Plugins :
            Starts(d, p) /\ ~ Starts(d, p)' =>
               d = c /\ (InitDone(c) \/ InitFails(c))
<1> SUFFICES Goal
  OBVIOUS
<1> HIDE DEF Goal
<1>1. CASE \E jobs : \E isBatch \in BOOLEAN : Begin(c, jobs, isBatch)
  BY <1>1 DEF Goal, Begin, Shape, IdleWaitsForNothing, Starts, Job
<1>2. CASE Refuse(c)
  BY <1>2 DEF Goal, Refuse, Ready, Throw, Shape, IdleWaitsForNothing, Starts, Job
<1>3. CASE Collide(c)
  BY <1>3 DEF Goal, Collide, Ready, Throw, SetKeys, Shape, IdleWaitsForNothing, Starts, Job
<1>4. CASE Fill(c)
  <2>0. PICK p \in Plugins : p = Job(c)
    BY <1>4 DEF Fill
  <2>1. /\ todo[c] # <<>> /\ waiting[c] = None
        /\ entry' = [k \in Keys |-> IF k \in OwnKeys(p) THEN p ELSE entry[k]]
        /\ \/ /\ waiting' = [waiting EXCEPT ![c] = p]
              /\ UNCHANGED <<plugins, todo>>
           \/ /\ plugins' = [plugins EXCEPT ![NameOf[p]] = p]
              /\ todo' = [todo EXCEPT ![c] = Tail(@)]
              /\ UNCHANGED waiting
    BY <1>4, <2>0 DEF Fill, Ready, Continue, Record, SetKeys
  <2>2. ~ Starts(c, p) /\ waiting \in [Callers -> Plugins \cup {None}]
    BY <2>1 DEF Starts, Shape
  <2>3. entry' \in [Keys -> Plugins \cup {None}]
    BY <2>1 DEF Shape
  <2>4. CASE /\ waiting' = [waiting EXCEPT ![c] = p]
             /\ UNCHANGED <<plugins, todo>>
    <3>1. Shape' /\ IdleWaitsForNothing'
      <4>1. Shape'
        BY <2>3, <2>4 DEF Shape
      <4> QED
        BY <2>1, <2>4, <4>1 DEF Shape, IdleWaitsForNothing
    <3>2. \A d \in Callers, q \in Plugins :
             Starts(d, q)' => Starts(d, q) \/ (d = c /\ q = p)
      <4> SUFFICES ASSUME NEW d \in Callers, NEW q \in Plugins, Starts(d, q)'
                   PROVE  Starts(d, q) \/ (d = c /\ q = p)
        OBVIOUS
      <4>1. waiting'[d] = q /\ Job(d) \in Plugins
        BY <2>4 DEF Starts, Job
      <4>2. waiting'[d] = IF d = c THEN p ELSE waiting[d]
        BY <2>2, <2>4
      <4> QED
        BY <4>1, <4>2 DEF Starts
    <3>3. \A d \in Callers, q \in Plugins : Starts(d, q) => Starts(d, q)'
      BY <2>1, <2>2, <2>4 DEF Starts, Job
    <3> QED
      BY <1>4, <2>0, <2>2, <3>1, <3>2, <3>3 DEF Goal
  <2>5. CASE /\ plugins' = [plugins EXCEPT ![NameOf[p]] = p]
             /\ todo' = [todo EXCEPT ![c] = Tail(@)]
             /\ UNCHANGED waiting
    <3>1. Shape' /\ IdleWaitsForNothing'
      <4>1. plugins' \in [Names -> Plugins \cup {None}]
        BY <2>5 DEF Shape
      <4>2. Shape'
        BY <2>3, <2>5, <4>1 DEF Shape
      <4> QED
        BY <2>1, <2>5, <4>2 DEF Shape, IdleWaitsForNothing
    <3>2. \A d \in Callers, q \in Plugins : Starts(d, q)' <=> Starts(d, q)
      BY <2>1, <2>2, <2>5 DEF Shape, Starts, Job
    <3> QED
      BY <3>1, <3>2 DEF Goal
  <2> QED
    BY <2>1, <2>4, <2>5
<1>5. CASE InitDone(c)
  BY <1>5 DEF Goal, InitDone, Awaits, Record, Settled, Continue, Shape, IdleWaitsForNothing, Starts, Job
<1>6. CASE InitFails(c)
  BY <1>6 DEF Goal, InitFails, Awaits, SetKeys, Settled, Throw, Shape, IdleWaitsForNothing, Starts, Job
<1>7. CASE LookUp(c)
  <2>1. /\ Ready(c) /\ Job(c) \in Names
        /\ \/ Continue(c) /\ UNCHANGED <<plugins, entry, waiting>>
           \/ /\ plugins[Job(c)] # None
              /\ waiting' = [waiting EXCEPT ![c] = plugins[Job(c)]]
              /\ UNCHANGED <<plugins, entry, todo>>
           \/ /\ plugins[Job(c)] # None
              /\ TakeOut(plugins[Job(c)]) /\ Continue(c) /\ UNCHANGED waiting
    BY <1>7 DEF LookUp
  <2>2. plugins[Job(c)] \in Plugins \cup {None}
    BY <2>1 DEF Shape
  <2>3. CASE Continue(c) /\ UNCHANGED <<plugins, entry, waiting>>
    BY <2>1, <2>3 DEF Goal, Ready, Continue, Shape, IdleWaitsForNothing, Starts, Job
  <2>4. CASE /\ plugins[Job(c)] # None
             /\ waiting' = [waiting EXCEPT ![c] = plugins[Job(c)]]
             /\ UNCHANGED <<plugins, entry, todo>>
    <3>1. Shape' /\ IdleWaitsForNothing'
      BY <2>1, <2>2, <2>4 DEF Ready, Shape, IdleWaitsForNothing
    <3> QED
      BY <2>1, <2>4, <3>1 DEF Goal, Ready, Shape, Starts, Job
  <2>5. CASE /\ plugins[Job(c)] # None
             /\ TakeOut(plugins[Job(c)]) /\ Continue(c) /\ UNCHANGED waiting
    <3>1. Shape' /\ IdleWaitsForNothing'
      BY <2>1, <2>2, <2>5
      DEF Ready, TakeOut, SetKeys, Continue, Shape, IdleWaitsForNothing
    <3> QED
      BY <2>1, <2>5, <3>1 DEF Goal, Ready, Continue, Shape, Starts, Job
  <2> QED
    BY <2>1, <2>3, <2>4, <2>5
<1>8. CASE CleanupDone(c)
  BY <1>8 DEF Goal, CleanupDone, Awaits, TakeOut, SetKeys, Settled, Continue, Shape, IdleWaitsForNothing, Starts, Job
<1>9. CASE CleanupThrows(c)
  BY <1>9 DEF Goal, CleanupThrows, Awaits, Settled, Throw, Shape, IdleWaitsForNothing, Starts, Job
<1> QED
  BY <1>1, <1>2, <1>3, <1>4, <1>5, <1>6, <1>7, <1>8, <1>9 DEF StepOf

-----------------------------------------------------------------------------
\* register() fills keys of the plugin's own, and only free ones.
LEMMA KeysWereFree ==
    ASSUME NEW p \in Plugins
    PROVE  /\ OwnKeys(p) \subseteq Keys
           /\ Filled(p) \subseteq OwnKeys(p)
           /\ \A k \in Filled(p) : entry[k] = None
           /\ ~ Clashes(p) => \A k \in OwnKeys(p) : entry[k] = None
<1>1. KeysOf[p] \in Seq(Keys)
  BY PluginsAssumption
<1>2. DOMAIN KeysOf[p] \subseteq Nat \ {0}
      /\ \A i \in DOMAIN KeysOf[p] : KeysOf[p][i] \in Keys /\ i \in 1..i
  BY <1>1
<1>3. \A k \in Filled(p) : entry[k] = None
  BY <1>2 DEF Filled, Taken
<1>4. Filled(p) \subseteq OwnKeys(p)
  BY DEF Filled, OwnKeys, Range
<1> QED
  BY <1>2, <1>3, <1>4 DEF OwnKeys, Range, Clashes, Taken

\* Taking out a plugin, found under its name or gone from it, takes keys from
\* no other plugin except those that are then in late.
LEMMA TakeOutServes ==
    ASSUME NEW p \in Plugins, TakeOut(p), ServingInv, Shape',
           \A d \in Callers, q \in Plugins : Starts(d, q)' => Starts(d, q)
    PROVE  ServedWhileRegistered' /\ ServedWhileStarting' /\ StartedOnce'
<1> USE PluginsAssumption, DistinctAssumption DEF ServingInv
<1>1. /\ late \subseteq late' /\ (plugins[NameOf[p]] # p => OwnKeys(p) \subseteq late')
      /\ plugins' = [plugins EXCEPT ![NameOf[p]] = None]
      /\ entry' = [k \in Keys |-> IF k \in OwnKeys(p) THEN None ELSE entry[k]]
  BY DEF TakeOut, SetKeys
<1>2. \A q \in Plugins : Registered(q)' => Registered(q) /\ q # p
  BY <1>1 DEF Registered, Shape
<1>3. ASSUME NEW q \in Plugins, q # p, Served(q)
      PROVE  Served(q)'
  <2> SUFFICES ASSUME NEW k \in OwnKeys(q) \ late'
               PROVE  entry'[k] = q
    BY DEF Served, OwnKeys
  <2>1. entry[k] = q /\ k \in Keys
    BY <1>1, <1>3, KeysWereFree DEF Served
  <2>2. k \notin OwnKeys(p)
    <3>1. CASE Registered(p)
      BY <3>1, <2>1, <1>1, <1>3 DEF ServedWhileRegistered
    <3>2. CASE ~ Registered(p)
      BY <3>2, <1>1 DEF Registered
    <3> QED
      BY <3>1, <3>2
  <2> QED
    BY <1>1, <2>1, <2>2
<1>4. ASSUME NEW c \in Callers, Starts(c, p)
      PROVE  OwnKeys(p) \subseteq late'
  BY <1>1, <1>4 DEF StartedOnce, Registered
<1>5. ServedWhileRegistered'
  <2>1. ASSUME NEW q \in Plugins, Registered(q)'
        PROVE  Served(q)'
    BY <1>2, <1>3, <2>1 DEF ServedWhileRegistered, Served
  <2> QED
    BY <2>1 DEF ServedWhileRegistered, Served, OwnKeys
<1>6. ServedWhileStarting'
  <2> SUFFICES ASSUME NEW c \in Callers, NEW q \in Plugins, Starts(c, q)'
               PROVE  Served(q)'
    BY DEF ServedWhileStarting
  <2>1. CASE q = p
    BY <1>4, <2>1 DEF Served, OwnKeys
  <2>2. CASE q # p
    BY <1>3, <2>2 DEF ServedWhileStarting
  <2> QED
    BY <2>1, <2>2
<1>7. StartedOnce'
  BY <1>1, <1>2 DEF StartedOnce, OwnKeys
<1> QED
  BY <1>5, <1>6, <1>7

LEMMA ServingStep ==
    ASSUME NEW c \in Callers, StepOf(c), ServingInv
    PROVE  ServingInv'
<1> USE PluginsAssumption, DistinctAssumption DEF ServingInv
<1> DEFINE Goal == ServedWhileRegistered' /\ ServedWhileStarting' /\ StartedOnce'
<1>1. Shape' /\ IdleWaitsForNothing'
  BY StartsFrame
<1>2. ASSUME ~ Fill(c)
      PROVE  \A d \in Callers, q \in Plugins : Starts(d, q)' => Starts(d, q)
  BY <1>2, StartsFrame
<1> SUFFICES Goal
  BY <1>1
<1> HIDE DEF Goal
<1>3. CASE UNCHANGED <<plugins, entry, late>> /\ ~ Fill(c)
  BY <1>2, <1>3
  DEF Goal, ServedWhileRegistered, ServedWhileStarting, Served, StartedOnce,
      Registered, OwnKeys
<1>4. CASE Collide(c)
  <2>1. /\ Job(c) \in Plugins /\ UNCHANGED <<plugins, late>>
        /\ entry' = [k \in Keys |-> IF k \in Filled(Job(c)) THEN Job(c) ELSE entry[k]]
    BY <1>4 DEF Collide, SetKeys
  <2>2. ~ Fill(c)
    BY <1>4 DEF Collide, Fill
  <2>3. \A q \in Plugins : Served(q) => Served(q)'
    BY <2>1, KeysWereFree DEF Served, OwnKeys
  <2> QED
    BY <1>2, <2>1, <2>2, <2>3
    DEF Goal, ServedWhileRegistered, ServedWhileStarting, Served, StartedOnce,
        Registered, OwnKeys
<1>5. CASE Fill(c)
  <2>0. PICK p \in Plugins : p = Job(c)
    BY <1>5 DEF Fill
  <2>1. /\ plugins[NameOf[p]] = None /\ ~ Clashes(p)
        /\ UNCHANGED late
        /\ entry' = [k \in Keys |-> IF k \in OwnKeys(p) THEN p ELSE entry[k]]
        /\ \/ UNCHANGED plugins
           \/ plugins' = [plugins EXCEPT ![NameOf[p]] = p] /\ UNCHANGED waiting
    BY <1>5, <2>0 DEF Fill, Acceptable, SetKeys, Record
  <2>2. \A k \in OwnKeys(p) : k \in Keys /\ entry[k] = None
    BY <2>1, KeysWereFree
  <2>3. \A q \in Plugins : q # p /\ Served(q) => Served(q)'
    BY <2>1, <2>2, KeysWereFree DEF Served, OwnKeys
  <2>4. Served(p)'
    BY <2>1, <2>2 DEF Served, OwnKeys
  <2>5. \A q \in Plugins : Registered(q)' => Registered(q) \/ q = p
    BY <2>1 DEF Registered, Shape
  <2>6. \A d \in Callers, q \in Plugins : Starts(d, q)' => Starts(d, q) \/ q = p
    BY <2>0, StartsFrame
  <2>7. \A d \in Callers : Starts(d, p) => OwnKeys(p) \subseteq late
    BY <2>1, <2>2 DEF ServedWhileStarting, Served
  <2>8. ServedWhileRegistered'
    <3>1. \A q \in Plugins : Registered(q)' => Served(q)'
      BY <2>3, <2>4, <2>5 DEF ServedWhileRegistered, Served
    <3> QED
      BY <3>1 DEF ServedWhileRegistered, Served, OwnKeys
  <2>9. ServedWhileStarting'
    BY <2>3, <2>4, <2>6 DEF ServedWhileStarting
  <2>10. StartedOnce'
    <3>1. ASSUME NEW d \in Callers, NEW q \in Plugins, Starts(d, q)',
                 \/ Registered(q)'
                 \/ \E e \in Callers \ {d} : Starts(e, q)'
          PROVE  OwnKeys(q) \subseteq late
      <4>1. CASE \E e \in Callers : Starts(e, p)
        BY <2>1, <2>5, <2>6, <2>7, <3>1, <4>1 DEF StartedOnce, Registered, Shape
      <4>2. CASE \A e \in Callers : ~ Starts(e, p)
        <5>1. CASE q # p
          BY <2>5, <2>6, <3>1, <5>1 DEF StartedOnce
        <5>2. CASE q = p
          <6>1. d = c /\ \A e \in Callers : Starts(e, q)' => e = c
            BY StartsFrame, <4>2, <3>1, <5>2, <2>0
          <6>2. Registered(q)'
            BY <6>1, <3>1
          <6>3. UNCHANGED waiting
            BY <2>1, <6>2, <5>2 DEF Registered, Shape
          <6>4. Starts(c, p)
            BY <6>1, <6>3, <3>1, <5>2, <2>0 DEF Starts
          <6> QED
            BY <6>4, <4>2
        <5> QED
          BY <5>1, <5>2
      <4> QED
        BY <4>1, <4>2
    <3> QED
      BY <2>1, <3>1 DEF StartedOnce, OwnKeys
  <2> QED
    BY <2>8, <2>9, <2>10 DEF Goal
<1>6. CASE InitDone(c)
  <2>0. PICK p \in Plugins : p = waiting[c]
    BY <1>6 DEF InitDone, Awaits, Shape
  <2>1. /\ Starts(c, p) /\ ~ Fill(c)
        /\ plugins' = [plugins EXCEPT ![NameOf[p]] = p]
        /\ UNCHANGED <<entry, late>>
        /\ waiting'[c] = None
    BY <1>6, <2>0 DEF InitDone, Awaits, Record, Settled, Shape, Starts, Fill, Ready
  <2>2. \A q \in Plugins : Registered(q)' => Registered(q) \/ q = p
    BY <2>1 DEF Registered, Shape
  <2>3. \A q \in Plugins : ~ Starts(c, q)'
    BY <2>1 DEF Starts
  <2>4. Served(p)
    BY <2>1 DEF ServedWhileStarting
  <2>5. \A q \in Plugins : Served(q) => Served(q)'
    BY <2>1 DEF Served, OwnKeys
  <2>6. ServedWhileRegistered'
    <3>1. \A q \in Plugins : Registered(q)' => Served(q)'
      BY <2>2, <2>4, <2>5 DEF ServedWhileRegistered, Served
    <3> QED
      BY <3>1 DEF ServedWhileRegistered, Served, OwnKeys
  <2>7. ServedWhileStarting'
    BY <1>2, <2>1, <2>5 DEF ServedWhileStarting
  <2>8. StartedOnce'
    BY <1>2, <2>1, <2>2, <2>3 DEF StartedOnce, OwnKeys
  <2> QED
    BY <2>6, <2>7, <2>8 DEF Goal
<1>7. CASE InitFails(c)
  <2>0. PICK p \in Plugins : p = waiting[c]
    BY <1>7 DEF InitFails, Awaits, Shape
  <2>1. /\ Starts(c, p) /\ ~ Fill(c)
        /\ entry' = [k \in Keys |-> IF k \in OwnKeys(p) THEN None ELSE entry[k]]
        /\ UNCHANGED <<plugins, late>>
        /\ waiting'[c] = None
    BY <1>7, <2>0 DEF InitFails, Awaits, SetKeys, Settled, Shape, Starts, Fill, Ready, history
  <2>2. \A q \in Plugins : ~ Starts(c, q)'
    BY <2>1 DEF Starts
  <2>3. \A q \in Plugins : q # p /\ Served(q) => Served(q)'
    BY <2>1, KeysWereFree DEF Served, ServedWhileStarting, OwnKeys
  <2>4. \A d \in Callers : Starts(d, p)' => OwnKeys(p) \subseteq late
    BY <1>2, <2>1, <2>2 DEF StartedOnce
  <2>5. Registered(p) => OwnKeys(p) \subseteq late
    BY <2>1 DEF StartedOnce
  <2>6. ServedWhileRegistered'
    <3>1. \A q \in Plugins : Registered(q)' => Served(q)'
      BY <2>1, <2>3, <2>5 DEF ServedWhileRegistered, Served, Registered, OwnKeys
    <3> QED
      BY <3>1 DEF ServedWhileRegistered, Served, OwnKeys
  <2>7. ServedWhileStarting'
    <3> SUFFICES ASSUME NEW d \in Callers, NEW q \in Plugins, Starts(d, q)'
                 PROVE  Served(q)'
      BY DEF ServedWhileStarting
    <3>1. CASE q = p
      BY <2>1, <2>4, <3>1 DEF Served, OwnKeys
    <3>2. CASE q # p
      BY <1>2, <2>1, <2>3, <3>2 DEF ServedWhileStarting
    <3> QED
      BY <3>1, <3>2
  <2>8. StartedOnce'
    BY <1>2, <2>1 DEF StartedOnce, Registered, OwnKeys
  <2> QED
    BY <2>6, <2>7, <2>8 DEF Goal
<1>8. CASE ~ Fill(c) /\ \E p \in Plugins : TakeOut(p)
  BY <1>1, <1>2, <1>8, TakeOutServes DEF Goal
<1> QED
  <2>1. CASE \/ \E jobs : \E isBatch \in BOOLEAN : Begin(c, jobs, isBatch)
             \/ Refuse(c) \/ CleanupThrows(c)
    BY <2>1, <1>3, <1>5 DEF Begin, Refuse, CleanupThrows, history
  <2>2. CASE LookUp(c)
    <3>1. plugins[Job(c)] \in Plugins \cup {None}
      BY <2>2 DEF LookUp, Shape
    <3>2. ~ Fill(c)
      BY <2>2 DEF LookUp, Fill
    <3> QED
      BY <2>2, <3>1, <3>2, <1>3, <1>8 DEF LookUp
  <2>3. CASE CleanupDone(c)
    <3>1. waiting[c] \in Plugins /\ ~ Fill(c)
      BY <2>3 DEF CleanupDone, Awaits, Shape, Fill, Ready
    <3> QED
      BY <2>3, <3>1, <1>8 DEF CleanupDone
  <2> QED
    BY <2>1, <2>2, <2>3, <1>4, <1>5, <1>6, <1>7 DEF StepOf

\* Every slot of a registered plugin is served as long as the plugin is
\* registered, whatever calls overlap, except keys taken late.
THEOREM ServedWhileRegisteredAlways == Spec => []ServedWhileRegistered
<1>1. Init => ServingInv
  BY PluginsAssumption, DistinctAssumption
  DEF Init, ServingInv, Shape, IdleWaitsForNothing, ServedWhileRegistered,
      ServedWhileStarting, StartedOnce, Starts, Registered
<1>2. ServingInv /\ [Next]_vars => ServingInv'
  <2> SUFFICES ASSUME ServingInv, [Next]_vars
               PROVE  ServingInv'
    OBVIOUS
  <2>1. CASE Next
    BY <2>1, StepIsSomeones, ServingStep
  <2>2. CASE UNCHANGED vars
    BY <2>2
    DEF vars, ServingInv, Shape, IdleWaitsForNothing, ServedWhileRegistered,
        ServedWhileStarting, Served, StartedOnce, Starts, Registered, Job, OwnKeys
  <2> QED
    BY <2>1, <2>2
<1> QED
  BY <1>1, <1>2, PTL DEF Spec, ServingInv

-----------------------------------------------------------------------------
LEMMA OwnerStep ==
    ASSUME NEW c \in Callers, StepOf(c), OwnerInv
    PROVE  OwnerInv'
<1> USE PluginsAssumption, DistinctAssumption DEF OwnerInv
<1>1. Shape' /\ IdleWaitsForNothing'
  BY StartsFrame
<1>2. /\ collided \subseteq collided' /\ replaced \subseteq replaced'
      /\ \A q \in Plugins : Initialising(q) => \/ Initialising(q)'
                                               \/ InitDone(c) /\ q = waiting[c]
                                               \/ InitFails(c) /\ q = waiting[c]
  <2>1. collided \subseteq collided' /\ replaced \subseteq replaced'
    BY DEF StepOf, Begin, Refuse, Collide, Fill, Record, InitDone, InitFails,
           LookUp, TakeOut, CleanupDone, CleanupThrows, history
  <2> QED
    BY <2>1, StartsFrame DEF Initialising, Starts
<1>3. ASSUME UNCHANGED <<entry, plugins>>, ~ InitDone(c), ~ InitFails(c)
      PROVE  EntryIsOwn' /\ NothingLeftBehind'
  BY <1>2, <1>3 DEF EntryIsOwn, NothingLeftBehind, Registered, OwnKeys, Shape
<1>4. CASE \/ \E jobs : \E isBatch \in BOOLEAN : Begin(c, jobs, isBatch)
           \/ Refuse(c) \/ CleanupThrows(c)
  <2>1. UNCHANGED <<entry, plugins>>
    BY <1>4 DEF Begin, Refuse, CleanupThrows
  <2>2. ~ InitDone(c) /\ ~ InitFails(c)
    BY <1>4 DEF Begin, Refuse, CleanupThrows, InitDone, InitFails, Awaits, Ready
  <2> QED
    BY <1>1, <1>3, <2>1, <2>2
<1>5. CASE Collide(c)
  <2>0. PICK p \in Plugins : p = Job(c)
    BY <1>5 DEF Collide
  <2>1. /\ UNCHANGED plugins
        /\ entry' = [k \in Keys |-> IF k \in Filled(p) THEN p ELSE entry[k]]
        /\ Filled(p) # {} => p \in collided'
        /\ ~ InitDone(c) /\ ~ InitFails(c)
    BY <1>5, <2>0 DEF Collide, SetKeys, InitDone, InitFails, Awaits, Ready
  <2>2. EntryIsOwn'
    BY <2>1, KeysWereFree DEF EntryIsOwn, OwnKeys
  <2>3. NothingLeftBehind'
    BY <1>2, <2>1 DEF NothingLeftBehind, Registered, Shape
  <2> QED
    BY <1>1, <2>2, <2>3
<1>6. CASE Fill(c)
  <2>0. PICK p \in Plugins : p = Job(c)
    BY <1>6 DEF Fill
  <2>1. /\ plugins[NameOf[p]] = None
        /\ entry' = [k \in Keys |-> IF k \in OwnKeys(p) THEN p ELSE entry[k]]
        /\ \/ /\ UNCHANGED <<plugins, todo>>
              /\ waiting' = [waiting EXCEPT ![c] = p]
           \/ plugins' = [plugins EXCEPT ![NameOf[p]] = p]
        /\ ~ InitDone(c) /\ ~ InitFails(c)
    BY <1>6, <2>0
    DEF Fill, Acceptable, SetKeys, Record, InitDone, InitFails, Awaits, Ready
  <2>2. \A q \in Plugins : Registered(q) => Registered(q)'
    BY <2>1 DEF Registered, Shape
  <2>3. Registered(p)' \/ Initialising(p)'
    <3>1. CASE plugins' = [plugins EXCEPT ![NameOf[p]] = p]
      BY <3>1 DEF Registered, Shape
    <3>2. CASE UNCHANGED todo /\ waiting' = [waiting EXCEPT ![c] = p]
      BY <2>0, <3>2 DEF Initialising, Starts, Job, Shape
    <3> QED
      BY <2>1, <3>1, <3>2
  <2>4. EntryIsOwn'
    BY <2>1 DEF EntryIsOwn, OwnKeys
  <2>5. NothingLeftBehind'
    BY <1>2, <2>1, <2>2, <2>3 DEF NothingLeftBehind, Shape
  <2> QED
    BY <1>1, <2>4, <2>5
<1>7. CASE InitDone(c)
  <2>0. PICK p \in Plugins : p = waiting[c]
    BY <1>7 DEF InitDone, Awaits, Shape
  <2>1. /\ UNCHANGED entry
        /\ plugins' = [plugins EXCEPT ![NameOf[p]] = p]
        /\ plugins[NameOf[p]] \notin {None, p} => NameOf[p] \in replaced'
    BY <1>7, <2>0 DEF InitDone, Record
  <2>2. Registered(p)'
    BY <2>1 DEF Registered, Shape
  <2>3. \A q \in Plugins : Registered(q) => Registered(q)' \/ NameOf[q] \in replaced'
    BY <2>1 DEF Registered, Shape
  <2>4. NothingLeftBehind'
    BY <1>2, <2>0, <2>1, <2>2, <2>3 DEF NothingLeftBehind, Shape
  <2> QED
    BY <1>1, <2>1, <2>4 DEF EntryIsOwn, OwnKeys
<1>8. CASE InitFails(c)
  <2>0. PICK p \in Plugins : p = waiting[c]
    BY <1>8 DEF InitFails, Awaits, Shape
  <2>1. /\ UNCHANGED plugins
        /\ entry' = [k \in Keys |-> IF k \in OwnKeys(p) THEN None ELSE entry[k]]
    BY <1>8, <2>0 DEF InitFails, SetKeys
  <2>2. \A k \in Keys : entry'[k] # None => entry'[k] = entry[k] /\ entry[k] # p
    BY <2>1 DEF EntryIsOwn, Shape
  <2>3. EntryIsOwn'
    BY <2>2 DEF EntryIsOwn, OwnKeys
  <2>4. NothingLeftBehind'
    BY <1>2, <2>0, <2>1, <2>2 DEF NothingLeftBehind, Registered, Shape
  <2> QED
    BY <1>1, <2>3, <2>4
<1>9. ASSUME NEW p \in Plugins, TakeOut(p), ~ InitDone(c), ~ InitFails(c)
      PROVE  EntryIsOwn' /\ NothingLeftBehind'
  <2>1. /\ plugins' = [plugins EXCEPT ![NameOf[p]] = None]
        /\ entry' = [k \in Keys |-> IF k \in OwnKeys(p) THEN None ELSE entry[k]]
        /\ plugins[NameOf[p]] \notin {None, p} => NameOf[p] \in replaced'
    BY <1>9 DEF TakeOut, SetKeys
  <2>2. \A k \in Keys : entry'[k] # None => entry'[k] = entry[k] /\ entry[k] # p
    BY <2>1 DEF EntryIsOwn, Shape
  <2>3. \A q \in Plugins :
           q # p /\ Registered(q) => Registered(q)' \/ NameOf[q] \in replaced'
    BY <2>1 DEF Registered, Shape
  <2>4. EntryIsOwn'
    BY <2>2 DEF EntryIsOwn, OwnKeys
  <2>5. NothingLeftBehind'
    BY <1>2, <1>9, <2>2, <2>3 DEF NothingLeftBehind, Shape
  <2> QED
    BY <2>4, <2>5
<1>10. CASE LookUp(c)
  <2>1. /\ ~ InitDone(c) /\ ~ InitFails(c)
        /\ plugins[Job(c)] \in Plugins \cup {None}
    BY <1>10 DEF LookUp, InitDone, InitFails, Awaits, Ready, Shape
  <2> QED
    BY <1>1, <1>3, <1>9, <1>10, <2>1 DEF LookUp
<1>11. CASE CleanupDone(c)
  <2>1. ~ InitDone(c) /\ ~ InitFails(c) /\ waiting[c] \in Plugins
    BY <1>11 DEF CleanupDone, InitDone, InitFails, Awaits, Shape
  <2> QED
    BY <1>1, <1>9, <1>11, <2>1 DEF CleanupDone
<1> QED
  BY <1>4, <1>5, <1>6, <1>7, <1>8, <1>10, <1>11 DEF StepOf

\* No key is left to a plugin that is neither registered nor starting up,
\* except by a refused registration or by overlapping calls for one name.
THEOREM NothingLeftBehindAlways == Spec => []NothingLeftBehind
<1>1. Init => OwnerInv
  BY PluginsAssumption, DistinctAssumption
  DEF Init, OwnerInv, Shape, IdleWaitsForNothing, EntryIsOwn, NothingLeftBehind
<1>2. OwnerInv /\ [Next]_vars => OwnerInv'
  <2> SUFFICES ASSUME OwnerInv, [Next]_vars
               PROVE  OwnerInv'
    OBVIOUS
  <2>1. CASE Next
    BY <2>1, StepIsSomeones, OwnerStep
  <2>2. CASE UNCHANGED vars
    BY <2>2
    DEF vars, OwnerInv, Shape, IdleWaitsForNothing, EntryIsOwn, NothingLeftBehind,
        Registered, Initialising, Starts, Job, OwnKeys
  <2> QED
    BY <2>1, <2>2
<1> QED
  BY <1>1, <1>2, PTL DEF Spec, OwnerInv

-----------------------------------------------------------------------------
LEMMA OrdersAreSeqs ==
    ASSUME NEW S, IsFiniteSet(S)
    PROVE  SetToSeqs(S) \subseteq Seq(S)
<1>1. Cardinality(S) \in Nat
  BY FS_CardinalityType
<1> QED BY <1>1 DEF SetToSeqs

\* What a caller has to do is a list of plugins and names.
LEMMA JobsTyped ==
    ASSUME NEW c \in Callers, NEW jobs, NEW isBatch \in BOOLEAN, Begin(c, jobs, isBatch),
           \/ \E p \in Plugins : jobs = <<p>>
           \/ \E n \in Names : jobs = <<n>>
           \/ \E b \in Batches : jobs \in TopologicalSort(b)
           \/ jobs \in SetToSeqs({n \in Names : plugins[n] # None}),
           TypeOK
    PROVE  TypeOK'
<1>1. jobs \in Seq(Plugins \cup Names)
  <2>1. CASE \E b \in Batches : jobs \in TopologicalSort(b)
    <3>1. PICK b \in Batches : jobs \in SetToSeqs(b)
      BY <2>1 DEF TopologicalSort
    <3>2. jobs \in Seq(b) /\ b \subseteq Plugins
      BY <3>1, OrdersAreSeqs, FiniteAssumption
    <3> QED BY <3>2
  <2>2. CASE jobs \in SetToSeqs({n \in Names : plugins[n] # None})
    <3>1. IsFiniteSet({n \in Names : plugins[n] # None})
      BY FiniteAssumption, FS_Subset
    <3>2. jobs \in Seq({n \in Names : plugins[n] # None})
      BY <2>2, <3>1, OrdersAreSeqs
    <3> QED BY <3>2
  <2> QED BY <2>1, <2>2
<1> QED BY <1>1 DEF Begin, TypeOK, history

LEMMA TypesInductive == TypeOK /\ [Next]_vars => TypeOK'
<1> SUFFICES ASSUME TypeOK, [Next]_vars PROVE TypeOK'
  OBVIOUS
<1> USE PluginsAssumption, DistinctAssumption
<1>1. CASE UNCHANGED vars
  BY <1>1 DEF vars, TypeOK
<1>2. ASSUME NEW c \in Callers,
             \/ \E p \in Plugins : Register(c, p)
             \/ \E n \in Names : Unregister(c, n)
             \/ \E b \in Batches : RegisterAll(c, b)
             \/ Clear(c)
      PROVE  TypeOK'
  BY <1>2, JobsTyped DEF Register, Unregister, RegisterAll, Clear
<1>3. ASSUME NEW c \in Callers,
             \/ Refuse(c) \/ Collide(c) \/ Fill(c) \/ InitDone(c) \/ InitFails(c)
             \/ LookUp(c) \/ CleanupDone(c) \/ CleanupThrows(c)
      PROVE  TypeOK'
  <2>1. /\ todo[c] \in Seq(Plugins \cup Names)
        /\ Throw(c) => todo' \in [Callers -> Seq(Plugins \cup Names)]
        /\ todo[c] # <<>> /\ Continue(c) => todo' \in [Callers -> Seq(Plugins \cup Names)]
    <3> DEFINE Jobs == Plugins \cup Names
    <3>1. todo \in [Callers -> Seq(Jobs)]
      BY DEF TypeOK
    <3> HIDE DEF Jobs
    <3>2. <<>> \in Seq(Jobs) /\ todo[c] \in Seq(Jobs)
      BY <3>1
    <3>3. todo[c] # <<>> => Tail(todo[c]) \in Seq(Jobs)
      BY <3>2
    <3>4. Throw(c) => todo' \in [Callers -> Seq(Jobs)]
      BY <3>1, <3>2 DEF Throw
    <3>5. todo[c] # <<>> /\ Continue(c) => todo' \in [Callers -> Seq(Jobs)]
      BY <3>1, <3>3 DEF Continue
    <3> QED BY <3>2, <3>4, <3>5 DEF Jobs
  <2>2. \A keys : \A p \in Plugins \cup {None} :
           SetKeys(keys, p) => entry' \in [Keys -> Plugins \cup {None}]
    BY DEF TypeOK, SetKeys
  <2>3. \A p \in Plugins : Record(p) => /\ plugins' \in [Names -> Plugins \cup {None}]
                                       /\ replaced' \subseteq Names
    BY DEF TypeOK, Record
  <2>4. /\ waiting[c] \in Plugins \cup {None}
        /\ Settled(c) => waiting' \in [Callers -> Plugins \cup {None}]
    BY DEF TypeOK, Settled
  <2>5. \A p \in Plugins : TakeOut(p) =>
           /\ plugins' \in [Names -> Plugins \cup {None}]
           /\ entry' \in [Keys -> Plugins \cup {None}]
           /\ replaced' \subseteq Names /\ removed' \subseteq Names /\ late' \subseteq Keys
    <3>1. \A p \in Plugins : OwnKeys(p) \subseteq Keys /\ NameOf[p] \in Names
      BY DEF OwnKeys, Range
    <3> QED BY <2>2, <3>1 DEF TypeOK, TakeOut
  <2>6. CASE Refuse(c) \/ CleanupThrows(c)
    BY <2>1, <2>4, <2>6 DEF Refuse, CleanupThrows, TypeOK, history
  <2>7. CASE Collide(c)
    BY <2>1, <2>2, <2>7 DEF Collide, TypeOK
  <2>8. CASE Fill(c)
    <3>1. PICK p \in Plugins : p = Job(c)
      BY <2>8 DEF Fill
    <3>2. SetKeys(OwnKeys(p), p) /\ todo[c] # <<>> /\ UNCHANGED <<batch, collided, late, removed>>
      BY <2>8, <3>1 DEF Fill, Ready
    <3>3. CASE waiting' = [waiting EXCEPT ![c] = p] /\ UNCHANGED <<plugins, todo, replaced>>
      BY <2>2, <3>2, <3>3 DEF TypeOK
    <3>4. CASE Record(p) /\ Continue(c) /\ UNCHANGED waiting
      BY <2>1, <2>2, <2>3, <3>2, <3>4 DEF TypeOK
    <3> QED BY <2>8, <3>1, <3>3, <3>4 DEF Fill
  <2>9. CASE InitDone(c)
    <3>1. waiting[c] \in Plugins /\ todo[c] # <<>>
      BY <2>4, <2>9 DEF InitDone, Awaits
    <3> QED BY <2>1, <2>3, <2>4, <2>9, <3>1 DEF InitDone, TypeOK
  <2>10. CASE InitFails(c)
    BY <2>1, <2>2, <2>4, <2>10 DEF InitFails, TypeOK, history
  <2>11. CASE LookUp(c)
    <3>1. Job(c) \in Names /\ plugins[Job(c)] \in Plugins \cup {None} /\ todo[c] # <<>>
      BY <2>11 DEF LookUp, TypeOK, Ready
    <3>2. CASE Continue(c) /\ UNCHANGED <<plugins, entry, waiting, replaced, late, removed>>
      BY <2>1, <2>11, <3>1, <3>2 DEF LookUp, TypeOK
    <3>3. CASE /\ waiting' = [waiting EXCEPT ![c] = plugins[Job(c)]]
               /\ UNCHANGED <<plugins, entry, todo, replaced, late, removed>>
      BY <2>11, <3>1, <3>3 DEF LookUp, TypeOK
    <3>4. CASE /\ plugins[Job(c)] \in Plugins /\ TakeOut(plugins[Job(c)])
               /\ Continue(c) /\ UNCHANGED waiting
      BY <2>1, <2>5, <2>11, <3>1, <3>4 DEF LookUp, TypeOK
    <3> QED BY <2>11, <3>1, <3>2, <3>3, <3>4 DEF LookUp
  <2>12. CASE CleanupDone(c)
    <3>1. waiting[c] \in Plugins /\ todo[c] # <<>>
      BY <2>4, <2>12 DEF CleanupDone, Awaits
    <3> QED BY <2>1, <2>4, <2>5, <2>12, <3>1 DEF CleanupDone, TypeOK
  <2> QED BY <1>3, <2>6, <2>7, <2>8, <2>9, <2>10, <2>11, <2>12
<1> QED BY <1>1, <1>2, <1>3 DEF Next

\* Type correctness of the registry.
THEOREM TypeCorrect == Spec => []TypeOK
<1>1. Init => TypeOK
  BY DEF Init, TypeOK
<1> QED BY <1>1, TypesInductive, PTL DEF Spec

-----------------------------------------------------------------------------
\* A dependency that was there is there, or was unregistered.
LEMMA MetStays ==
    ASSUME NEW c \in Callers, StepOf(c), TypeOK, NEW n \in Names, Met(n)
    PROVE  Met(n)'
<1> USE PluginsAssumption, DistinctAssumption
<1>1. /\ plugins \in [Names -> Plugins \cup {None}]
      /\ waiting \in [Callers -> Plugins \cup {None}]
  BY DEF TypeOK
<1>2. \A p \in Plugins : Record(p) /\ UNCHANGED removed => Met(n)'
  BY <1>1 DEF Record, Met
<1>3. \A p \in Plugins : TakeOut(p) => Met(n)'
  BY <1>1 DEF TakeOut, Met
<1>4. UNCHANGED <<plugins, removed>> => Met(n)'
  BY DEF Met
<1>5. CASE (\E jobs : \E isBatch \in BOOLEAN : Begin(c, jobs, isBatch)) \/ Refuse(c) \/ Collide(c)
           \/ InitFails(c) \/ CleanupThrows(c)
  BY <1>4, <1>5 DEF Begin, Refuse, Collide, InitFails, CleanupThrows, history
<1>6. CASE Fill(c)
  BY <1>2, <1>4, <1>6 DEF Fill
<1>7. CASE InitDone(c)
  BY <1>1, <1>2, <1>7 DEF InitDone, Awaits
<1>8. CASE LookUp(c)
  <2>1. plugins[Job(c)] \in Plugins \cup {None}
    BY <1>1, <1>8 DEF LookUp
  <2>2. CASE UNCHANGED <<plugins, removed>>
    BY <1>4, <2>2
  <2>3. CASE plugins[Job(c)] # None /\ TakeOut(plugins[Job(c)])
    BY <1>3, <2>1, <2>3
  <2> QED BY <1>8, <2>2, <2>3 DEF LookUp
<1>9. CASE CleanupDone(c)
  BY <1>1, <1>3, <1>9 DEF CleanupDone, Awaits
<1> QED BY <1>5, <1>6, <1>7, <1>8, <1>9 DEF StepOf

\* registerAll() has registered its first plugin and goes on.
LEMMA ContinueSorted ==
    ASSUME NEW c \in Callers, TypeOK, Sorted(c), batch[c], Continue(c), todo[c] # <<>>,
           \A n \in Names : Met(n) => Met(n)',
           NEW first \in Names, first = NameOf[Job(c)], Met(first)'
    PROVE  Sorted(c)'
<1> USE PluginsAssumption
<1> DEFINE Jobs == Plugins \cup Names
<1>1. PICK old \in Seq(Jobs), new \in Seq(Jobs) :
         /\ old = todo[c] /\ new = todo'[c] /\ old[1] = Job(c)
         /\ Len(old) \in Nat /\ Len(old) > 0 /\ Len(new) = Len(old) - 1
         /\ \A k \in 1..Len(new) : new[k] = old[k + 1]
  <2>1. todo \in [Callers -> Seq(Jobs)] /\ todo' = [todo EXCEPT ![c] = Tail(@)]
    BY DEF TypeOK, Continue
  <2> HIDE DEF Jobs
  <2>2. PICK old \in Seq(Jobs) : old = todo[c] /\ old # <<>>
    BY <2>1
  <2>3. Tail(old) \in Seq(Jobs) /\ todo'[c] = Tail(old) /\ old[1] = Job(c)
    BY <2>1, <2>2 DEF Job
  <2>4. /\ Len(old) \in Nat /\ Len(old) > 0 /\ Len(Tail(old)) = Len(old) - 1
        /\ \A k \in 1..Len(Tail(old)) : Tail(old)[k] = old[k + 1]
    BY <2>2
  <2> QED BY <2>2, <2>3, <2>4
<1>2. \A k \in 1..Len(old) :
         /\ old[k] \in Plugins
         /\ \A d \in DependsOn[old[k]] : Met(d) \/ \E j \in 1..(k - 1) : NameOf[old[j]] = d
  BY <1>1 DEF Sorted
<1>3. ASSUME NEW k \in 1..Len(new)
      PROVE  /\ new[k] \in Plugins
             /\ \A d \in DependsOn[new[k]] :
                   Met(d)' \/ \E j \in 1..(k - 1) : NameOf[new[j]] = d
  <2>1. k + 1 \in 1..Len(old) /\ new[k] = old[k + 1] /\ k \in Nat /\ (k + 1) - 1 = k
    BY <1>1
  <2>2. new[k] \in Plugins
    BY <1>2, <2>1
  <2>3. ASSUME NEW d \in DependsOn[new[k]]
        PROVE  Met(d)' \/ \E j \in 1..(k - 1) : NameOf[new[j]] = d
    <3>1. d \in Names
      BY <2>2
    <3>2. CASE Met(d)
      BY <3>1, <3>2
    <3>3. CASE \E j \in 1..k : NameOf[old[j]] = d
      <4>1. PICK j \in 1..k : NameOf[old[j]] = d
        BY <3>3
      <4>2. CASE j = 1
        BY <1>1, <4>1, <4>2
      <4>3. CASE j # 1
        <5>1. j - 1 \in 1..(k - 1) /\ j - 1 \in 1..Len(new) /\ (j - 1) + 1 = j
          BY <2>1, <4>3
        <5>2. new[j - 1] = old[j]
          BY <1>1, <5>1
        <5> QED BY <4>1, <5>1, <5>2
      <4> QED BY <4>2, <4>3
    <3>4. Met(d) \/ \E j \in 1..k : NameOf[old[j]] = d
      BY <1>2, <2>1
    <3> QED BY <3>2, <3>3, <3>4
  <2> QED BY <2>2, <2>3
<1>4. \A k \in 1..Len(todo'[c]) :
         /\ todo'[c][k] \in Plugins
         /\ \A d \in DependsOn[todo'[c][k]] :
               Met(d)' \/ \E j \in 1..(k - 1) : NameOf[todo'[c][j]] = d
  BY <1>1, <1>3
<1> QED BY <1>4 DEF Sorted

\* The first plugin that a batch still has to do has its dependencies met.
LEMMA FirstOfBatch ==
    ASSUME NEW c \in Callers, TypeOK, Sorted(c), batch[c], todo[c] # <<>>
    PROVE  /\ Job(c) \in Plugins
           /\ \A d \in DependsOn[Job(c)] : Met(d)
<1> DEFINE Jobs == Plugins \cup Names
<1>1. todo \in [Callers -> Seq(Jobs)]
  BY DEF TypeOK
<1>2. /\ Job(c) = todo[c][1] /\ 1 \in 1..Len(todo[c])
  <2> HIDE DEF Jobs
  <2>1. PICK old \in Seq(Jobs) : old = todo[c] /\ old # <<>>
    BY <1>1
  <2>2. Head(old) = old[1] /\ 1 \in 1..Len(old)
    BY <2>1
  <2> QED BY <2>1, <2>2 DEF Job
<1>3. \A j \in 1..(1 - 1) : FALSE
  OBVIOUS
<1> QED BY <1>2, <1>3 DEF Sorted

\* What a step does to a call that is not its caller's: nothing.
LEMMA OthersKeep ==
    ASSUME NEW c \in Callers, StepOf(c), TypeOK, NEW d \in Callers \ {c}
    PROVE  todo'[d] = todo[d] /\ batch'[d] = batch[d] /\ waiting'[d] = waiting[d]
<1>1. /\ todo = [e \in Callers |-> todo[e]] /\ batch = [e \in Callers |-> batch[e]]
      /\ waiting = [e \in Callers |-> waiting[e]]
  BY DEF TypeOK
<1>2. \/ UNCHANGED todo
      \/ \E jobs : todo' = [todo EXCEPT ![c] = jobs]
  BY DEF StepOf, Begin, Refuse, Collide, Fill, InitDone, InitFails, LookUp, CleanupDone,
         CleanupThrows, Throw, Continue
<1>3. \/ UNCHANGED batch
      \/ \E isBatch \in BOOLEAN : batch' = [batch EXCEPT ![c] = isBatch]
  BY DEF StepOf, Begin, Refuse, Collide, Fill, InitDone, InitFails, LookUp, CleanupDone,
         CleanupThrows
<1>4. \/ UNCHANGED waiting
      \/ \E p : waiting' = [waiting EXCEPT ![c] = p]
  BY DEF StepOf, Begin, Refuse, Collide, Fill, InitDone, InitFails, LookUp, CleanupDone,
         CleanupThrows, Settled
<1>5. todo'[d] = todo[d]
  BY <1>1, <1>2
<1>6. batch'[d] = batch[d]
  BY <1>1, <1>3
<1>7. waiting'[d] = waiting[d]
  BY <1>1, <1>4
<1> QED BY <1>5, <1>6, <1>7

\* topologicalSort() puts every plugin after its dependencies.
LEMMA BatchStartsSorted ==
    ASSUME NEW c \in Callers, NEW b \in Batches, TypeOK, RegisterAll(c, b)
    PROVE  Sorted(c)'
<1>1. PICK order \in TopologicalSort(b) : Begin(c, order, TRUE)
  BY DEF RegisterAll
<1>2. order \in Seq(b) /\ b \subseteq Plugins
  <2>1. order \in SetToSeqs(b)
    BY DEF TopologicalSort
  <2> QED BY <2>1, OrdersAreSeqs, FiniteAssumption
<1>3. DOMAIN order = 1..Len(order) /\ \A k \in 1..Len(order) : order[k] \in Plugins
  BY <1>2
<1>4. \A k \in DOMAIN order : \A d \in DependsOn[order[k]] :
         \E j \in 1..(k - 1) : NameOf[order[j]] = d
  BY DEF TopologicalSort
<1>5. todo'[c] = order
  BY <1>1 DEF Begin, TypeOK
<1> QED BY <1>3, <1>4, <1>5 DEF Sorted

LEMMA BatchStep ==
    ASSUME BatchInv, Next
    PROVE  BatchInv'
<1> USE PluginsAssumption, DistinctAssumption
<1>1. PICK c \in Callers :
         \/ \E p \in Plugins : Register(c, p)
         \/ \E n \in Names : Unregister(c, n)
         \/ \E b \in Batches : RegisterAll(c, b)
         \/ Clear(c)
         \/ Refuse(c) \/ Collide(c) \/ Fill(c) \/ InitDone(c) \/ InitFails(c)
         \/ LookUp(c) \/ CleanupDone(c) \/ CleanupThrows(c)
  BY DEF Next
<1>2. TypeOK /\ IdleWaitsForNothing /\ StepOf(c)
  BY <1>1 DEF BatchInv, StepOf, Register, Unregister, RegisterAll, Clear
<1>3. \A d \in Callers : Sorted(d) /\ FirstAwaited(d)
  BY DEF BatchInv
<1>4. TypeOK'
  BY <1>2, TypesInductive
<1>5. IdleWaitsForNothing'
  <2>1. Shape
    BY <1>2 DEF TypeOK, Shape
  <2> QED BY <1>2, <2>1, StartsFrame
<1>6. \A n \in Names : Met(n) => Met(n)'
  BY <1>2, MetStays
<1>7. ASSUME NEW d \in Callers \ {c}
      PROVE  Sorted(d)' /\ FirstAwaited(d)'
  <2>1. todo'[d] = todo[d] /\ batch'[d] = batch[d] /\ waiting'[d] = waiting[d]
    BY <1>2, OthersKeep
  <2>2. Sorted(d)'
    <3>1. ASSUME batch[d], NEW k \in 1..Len(todo[d])
          PROVE  /\ todo[d][k] \in Plugins
                 /\ \A n \in DependsOn[todo[d][k]] :
                       Met(n)' \/ \E j \in 1..(k - 1) : NameOf[todo[d][j]] = n
      <4>1. /\ todo[d][k] \in Plugins
            /\ \A n \in DependsOn[todo[d][k]] :
                  Met(n) \/ \E j \in 1..(k - 1) : NameOf[todo[d][j]] = n
        BY <1>3, <3>1 DEF Sorted
      <4>2. DependsOn[todo[d][k]] \subseteq Names
        BY <4>1
      <4> QED BY <1>6, <4>1, <4>2
    <3> QED BY <2>1, <3>1 DEF Sorted
  <2>3. FirstAwaited(d)'
    BY <1>3, <2>1 DEF FirstAwaited, Job
  <2> QED BY <2>2, <2>3
<1>8. Sorted(c)' /\ FirstAwaited(c)'
  <2>1. /\ todo = [e \in Callers |-> todo[e]] /\ batch = [e \in Callers |-> batch[e]]
        /\ waiting = [e \in Callers |-> waiting[e]]
        /\ waiting[c] \in Plugins \cup {None}
    BY <1>2 DEF TypeOK
  <2>2. CASE \/ \E p \in Plugins : Register(c, p)
             \/ \E n \in Names : Unregister(c, n)
             \/ Clear(c)
    <3>1. batch'[c] = FALSE
      BY <2>1, <2>2 DEF Register, Unregister, Clear, Begin
    <3> QED BY <3>1 DEF Sorted, FirstAwaited
  <2>3. CASE \E b \in Batches : RegisterAll(c, b)
    <3>1. Sorted(c)'
      BY <1>2, <2>3, BatchStartsSorted
    <3>2. waiting'[c] = None
      BY <1>2, <2>3 DEF RegisterAll, Begin, IdleWaitsForNothing
    <3> QED BY <3>1, <3>2 DEF FirstAwaited
  <2>4. CASE Refuse(c) \/ Collide(c) \/ InitFails(c) \/ CleanupThrows(c)
    <3>1. todo'[c] = <<>> /\ waiting'[c] = None
      BY <2>1, <2>4 DEF Refuse, Collide, InitFails, CleanupThrows, Ready, Throw, Settled
    <3>2. Len(todo'[c]) = 0
      BY <3>1
    <3>3. \A k \in 1..Len(todo'[c]) : FALSE
      BY <3>2
    <3> QED BY <3>1, <3>3 DEF Sorted, FirstAwaited
  <2>5. ASSUME todo[c] # <<>>, batch[c]
        PROVE  Job(c) \in Plugins /\ Job(c) \notin Names
    BY <1>2, <1>3, <2>5, FirstOfBatch
  <2>6. CASE LookUp(c) \/ CleanupDone(c)
    <3>1. UNCHANGED batch /\ todo[c] # <<>> /\ Job(c) \in Names
      BY <2>6 DEF LookUp, CleanupDone, Ready, Awaits
    <3>2. ~ batch'[c]
      BY <2>5, <3>1
    <3> QED BY <3>2 DEF Sorted, FirstAwaited
  <2>7. ASSUME todo[c] # <<>>, UNCHANGED batch, Continue(c), waiting'[c] = None,
               NEW p \in Plugins, Record(p), batch[c] => p = Job(c)
        PROVE  Sorted(c)' /\ FirstAwaited(c)'
    <3>1. CASE batch[c]
      <4>1. PICK n \in Names : n = NameOf[p]
        OBVIOUS
      <4>2. Met(n)'
        BY <1>2, <2>7, <4>1 DEF Met, Record, TypeOK
      <4>3. n = NameOf[Job(c)] /\ Sorted(c)
        BY <1>3, <2>7, <3>1, <4>1
      <4>4. Sorted(c)'
        BY <1>2, <1>6, <2>7, <3>1, <4>2, <4>3, ContinueSorted
      <4> QED BY <2>7, <4>4 DEF FirstAwaited
    <3>2. CASE ~ batch[c]
      BY <2>7, <3>2 DEF Sorted, FirstAwaited
    <3> QED BY <3>1, <3>2
  <2>8. CASE Fill(c)
    <3>1. PICK p \in Plugins : p = Job(c)
      BY <2>8 DEF Fill
    <3>2. todo[c] # <<>> /\ waiting[c] = None /\ UNCHANGED batch
      BY <2>8 DEF Fill, Ready
    <3>3. CASE Record(p) /\ Continue(c) /\ UNCHANGED waiting
      BY <2>7, <3>1, <3>2, <3>3
    <3>4. CASE waiting' = [waiting EXCEPT ![c] = p] /\ UNCHANGED <<plugins, todo, removed>>
      <4>1. waiting'[c] = p /\ UNCHANGED <<plugins, todo, removed, batch>>
        BY <2>1, <3>2, <3>4
      <4>2. Sorted(c)'
        BY <1>3, <4>1 DEF Sorted, Met
      <4>3. FirstAwaited(c)'
        BY <3>1, <4>1 DEF FirstAwaited, Job
      <4> QED BY <4>2, <4>3
    <3> QED BY <2>8, <3>1, <3>3, <3>4 DEF Fill
  <2>9. CASE InitDone(c)
    <3>1. PICK p \in Plugins : p = waiting[c]
      BY <2>1, <2>9 DEF InitDone, Awaits
    <3>2. /\ todo[c] # <<>> /\ UNCHANGED batch /\ Continue(c) /\ Record(p)
          /\ waiting'[c] = None
      BY <2>1, <2>9, <3>1 DEF InitDone, Awaits, Settled
    <3>3. batch[c] => p = Job(c)
      BY <1>3, <3>1 DEF FirstAwaited
    <3> QED BY <2>7, <3>2, <3>3
  <2> QED BY <1>1, <2>2, <2>3, <2>4, <2>6, <2>8, <2>9
<1> QED BY <1>4, <1>5, <1>7, <1>8 DEF BatchInv

\* registerAll() meets the dependencies of every plugin it comes to, whatever the
\* other callers do meanwhile, except one that has been unregistered at some time.
THEOREM BatchMeetsDependenciesAlways == Spec => []BatchMeetsDependencies
<1>1. Init => BatchInv
  BY DEF Init, BatchInv, TypeOK, IdleWaitsForNothing, Sorted, FirstAwaited
<1>2. BatchInv /\ [Next]_vars => BatchInv'
  <2> SUFFICES ASSUME BatchInv, [Next]_vars
               PROVE  BatchInv'
    OBVIOUS
  <2>1. CASE UNCHANGED vars
    BY <2>1 DEF vars, BatchInv, TypeOK, IdleWaitsForNothing, Sorted, FirstAwaited, Met, Job
  <2> QED BY <2>1, BatchStep
<1>3. BatchInv => BatchMeetsDependencies
  <2> SUFFICES ASSUME BatchInv, NEW c \in Callers, batch[c], Ready(c)
               PROVE  \A d \in DependsOn[Job(c)] : plugins[d] # None \/ d \in removed
    BY DEF BatchMeetsDependencies
  <2> QED BY FirstOfBatch DEF BatchInv, Ready, Met
<1> QED BY <1>1, <1>2, <1>3, PTL DEF Spec
=============================================================================
