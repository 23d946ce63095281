------------------------- MODULE RateLimits_proofs -------------------------
(***************************************************************************)
(* Theorems about the rate limiter's Durable Object and about the fallback *)
(* of the middleware around it.                                            *)
(*                                                                         *)
(* For all limits, windows and alarm delays the object's storage always    *)
(* holds what its memory holds, every stored window has its own alarm, and *)
(* the object implements FixedWindow.  MemoryOnDisk holds whatever         *)
(* crashes.  The other two need the two storage calls of a new window to   *)
(* be one step of the crash model (MayCrash = FALSE): otherwise the alarm  *)
(* of an earlier window can stay behind and end a live one.                *)
(*                                                                         *)
(* For any number of invocations the KV fallback loses counts and never    *)
(* makes them up, and its time to live outlasts every window.              *)
(***************************************************************************)
EXTENDS RateLimiterDO, TieredRateLimit, TLAPS

\* What is stored is a real window, and a window being armed is in memory.
WindowStored ==
    /\ disk # None => disk.resetAt > 0
    /\ arming => mem # None /\ disk # None

IInv == TypeOK /\ MemoryOnDisk /\ WindowStored

LEMMA ConstantsOK ==
    /\ Limits \subseteq Nat /\ 0 \notin Limits
    /\ Window \in Nat /\ Window > 0
    /\ AlarmDelay \in Nat /\ AlarmDelay > 0
    /\ MaxTime \in Nat /\ MayCrash \in BOOLEAN
    /\ None \notin Nat /\ None \notin Windows
    /\ None \notin [end : Nat, grants : Nat]
BY LimitsAssumption, WindowAssumption, DelayAssumption, MaxTimeAssumption,
   MayCrashAssumption, NoneAssumption DEF Windows

\* A put() of three numbers stores a window.
LEMMA KeysOK ==
    ASSUME NEW count \in Nat, NEW resetAt \in Nat, NEW max \in Nat
    PROVE  Keys(count, resetAt, max) \in Windows \ {None}
BY ConstantsOK DEF Keys, Windows

\* The constructor's state.
LEMMA InitIInv == Init => IInv
<1> SUFFICES ASSUME Init PROVE IInv
    OBVIOUS
<1>1. TypeOK
    BY DEF Init, TypeOK
<1>2. MemoryOnDisk /\ WindowStored
    BY DEF Init, MemoryOnDisk, WindowStored
<1> QED BY <1>1, <1>2 DEF IInv

\* In memory, the window is the stored one, or there is none and the
\* counters are zero.
LEMMA MemoryCases ==
    ASSUME IInv, mem # None
    PROVE  \/ disk # None /\ mem = disk /\ mem \in Windows /\ mem.resetAt > 0
           \/ disk = None /\ mem = Cleared
BY DEF IInv, TypeOK, MemoryOnDisk, WindowStored

LEMMA NextIInv == IInv /\ [Next]_vars => IInv'
<1> USE ConstantsOK
<1> SUFFICES ASSUME IInv, [Next]_vars PROVE IInv'
    OBVIOUS
<1>1. ASSUME NEW max \in Limits, StartWindow(max) PROVE IInv'
    <2>1. mem' \in Windows /\ mem'.resetAt > 0 /\ disk' = mem' /\ arming'
        BY <1>1 DEF IInv, TypeOK, StartWindow, Keys, Windows
    <2>2. TypeOK'
        BY <1>1, <2>1 DEF IInv, TypeOK, StartWindow, Respond
    <2> QED BY <2>1, <2>2 DEF IInv, MemoryOnDisk, WindowStored
<1>2. ASSUME NEW max \in Limits, Refuse(max) PROVE IInv'
    <2>1. disk # None /\ mem = disk /\ mem \in Windows /\ mem.resetAt > 0
        BY <1>2, MemoryCases DEF Refuse, Awake, Expired, Cleared, Keys
    <2>2. mem' = Keys(mem.count, mem.resetAt, max) /\ mem' \in Windows
        BY <1>2, <2>1 DEF Refuse, Keys, Windows
    <2>3. disk' = mem' /\ mem'.resetAt > 0 /\ ~arming'
        BY <1>2, <2>1, <2>2 DEF Refuse, Awake, Keys, Windows
    <2>4. TypeOK'
        BY <1>2, <2>1, <2>2, <2>3 DEF IInv, TypeOK, Refuse, Respond, Windows
    <2> QED BY <2>2, <2>3, <2>4 DEF IInv, MemoryOnDisk, WindowStored
<1>3. ASSUME NEW max \in Limits, Count(max) PROVE IInv'
    <2>1. disk # None /\ mem = disk /\ mem \in Windows /\ mem.resetAt > 0
        BY <1>3, MemoryCases DEF Count, Awake, Expired, Cleared, Keys
    <2>2. /\ mem' = Keys(mem.count + 1, mem.resetAt, max)
          /\ mem' \in Windows
        BY <1>3, <2>1 DEF Count, Keys, Windows
    <2>3. disk' = mem' /\ mem'.resetAt > 0 /\ ~arming'
        BY <1>3, <2>1, <2>2 DEF Count, Awake, Keys, Windows
    <2>4. TypeOK'
        BY <1>3, <2>1, <2>2, <2>3 DEF IInv, TypeOK, Count, Respond, Windows
    <2> QED BY <2>2, <2>3, <2>4 DEF IInv, MemoryOnDisk, WindowStored
<1>4. CASE ArmAlarm
    <2>1. mem.resetAt + AlarmDelay \in Nat
        BY <1>4 DEF IInv, TypeOK, ArmAlarm, Windows
    <2> QED BY <1>4, <2>1
        DEF IInv, TypeOK, MemoryOnDisk, WindowStored, ArmAlarm
<1>5. CASE AlarmFires \/ Reset
    <2>1. mem' = Cleared /\ disk' = None /\ ~arming' /\ Cleared \in Windows
        BY <1>5 DEF AlarmFires, Reset, ResetCounter, Awake, Cleared, Keys, Windows
    <2>2. TypeOK'
        BY <1>5, <2>1 DEF IInv, TypeOK, AlarmFires, Reset
    <2> QED BY <2>1, <2>2 DEF IInv, MemoryOnDisk, WindowStored
<1>6. CASE Wake
    <2>1. Cleared \in Windows
        BY DEF Cleared, Keys, Windows
    <2> QED BY <1>6, <2>1
        DEF IInv, TypeOK, MemoryOnDisk, WindowStored, Wake
<1>7. CASE Evict
    BY <1>7 DEF IInv, TypeOK, MemoryOnDisk, WindowStored, Evict
<1>8. CASE Tick
    BY <1>8 DEF IInv, TypeOK, MemoryOnDisk, WindowStored, Tick
<1>9. CASE UNCHANGED vars
    BY <1>9 DEF IInv, TypeOK, MemoryOnDisk, WindowStored, vars
<1> QED
    BY <1>1, <1>2, <1>3, <1>4, <1>5, <1>6, <1>7, <1>8, <1>9
    DEF Next, Increment

\* Type correctness, and that storage and memory always hold the same window.
THEOREM Durable == Spec => []IInv
BY InitIInv, NextIInv, PTL DEF Spec

\* Evicting the object at any moment loses nothing.
THEOREM MemoryOnDiskAlways == Spec => []MemoryOnDisk
BY Durable, PTL DEF IInv

-----------------------------------------------------------------------------
LEMMA InitAlarm == Init => WindowHasAlarm
BY DEF Init, WindowHasAlarm

LEMMA NextAlarm ==
    ASSUME MayCrash = FALSE
    PROVE  IInv /\ WindowHasAlarm /\ [Next]_vars => WindowHasAlarm'
<1> SUFFICES ASSUME IInv, WindowHasAlarm, [Next]_vars PROVE WindowHasAlarm'
    OBVIOUS
<1>1. ASSUME NEW max \in Limits, StartWindow(max) PROVE WindowHasAlarm'
    BY <1>1 DEF StartWindow, WindowHasAlarm
<1>2. ASSUME NEW max \in Limits, Refuse(max) PROVE WindowHasAlarm'
    <2>1. disk # None
        BY <1>2, MemoryCases DEF Refuse, Awake, Expired, Cleared, Keys
    <2>2. disk'.resetAt = disk.resetAt /\ alarm' = alarm /\ ~arming
        BY <1>2 DEF Refuse, Awake, Keys
    <2> QED BY <2>1, <2>2 DEF WindowHasAlarm
<1>3. ASSUME NEW max \in Limits, Count(max) PROVE WindowHasAlarm'
    <2>1. disk # None
        BY <1>3, MemoryCases DEF Count, Awake, Expired, Cleared, Keys
    <2>2. disk'.resetAt = disk.resetAt /\ alarm' = alarm /\ ~arming
        BY <1>3 DEF Count, Awake, Keys
    <2> QED BY <2>1, <2>2 DEF WindowHasAlarm
<1>4. CASE ArmAlarm
    BY <1>4, MemoryCases DEF ArmAlarm, WindowHasAlarm
<1>5. CASE AlarmFires \/ Reset
    BY <1>5 DEF AlarmFires, Reset, ResetCounter, WindowHasAlarm
<1>6. CASE Wake \/ Tick \/ UNCHANGED vars
    BY <1>6 DEF Wake, Tick, vars, WindowHasAlarm
<1>7. CASE Evict
    BY <1>7 DEF Evict, WindowHasAlarm
<1> QED
    BY <1>1, <1>2, <1>3, <1>4, <1>5, <1>6, <1>7 DEF Next, Increment

\* Unless a crash can fall between the two storage calls of a new window, the
\* only alarm pending is the one of the window that is stored.
THEOREM WindowHasAlarmAlways ==
    ASSUME MayCrash = FALSE
    PROVE  Spec => []WindowHasAlarm
BY InitIInv, NextIInv, InitAlarm, NextAlarm, PTL DEF Spec

-----------------------------------------------------------------------------
\* In a live window the clients' window is what memory holds; otherwise the
\* clients see none.
LEMMA MemoryIsWindow ==
    ASSUME IInv, mem # None
    PROVE  /\ Expired(mem) => Win = None
           /\ ~Expired(mem) =>
                /\ mem = disk /\ mem \in Windows
                /\ Win = [end |-> mem.resetAt, grants |-> mem.count]
                /\ Win # None
<1> USE ConstantsOK
<1>1. CASE disk # None /\ mem = disk /\ mem \in Windows
    <2>1. [end |-> mem.resetAt, grants |-> mem.count] \in
             [end : Nat, grants : Nat]
        BY <1>1 DEF Windows
    <2> QED BY <1>1, <2>1 DEF Win, Live
<1>2. CASE disk = None /\ mem = Cleared
    BY <1>2 DEF Win, Live, Expired, Cleared, Keys
<1> QED BY <1>1, <1>2, MemoryCases

\* Every step of the object is a step of the fixed window or none.
LEMMA StepRefines ==
    ASSUME IInv, IInv', WindowHasAlarm, [Next]_vars
    PROVE  [Promise!Next]_(Promise!vars)
<1> USE ConstantsOK
<1>1. ASSUME NEW max \in Limits, StartWindow(max) PROVE Promise!Grant(max)
    <2>1. Win = None /\ max > 0
        BY <1>1, MemoryIsWindow DEF StartWindow, Awake
    <2>2. Win' = [end |-> now + Window, grants |-> 1]
        <3>1. disk' = Keys(1, now + Window, max) /\ now' = now /\ now \in Nat
            BY <1>1 DEF IInv, TypeOK, StartWindow
        <3>2. disk' # None
            BY <3>1, KeysOK
        <3>3. disk'.resetAt = now + Window /\ disk'.count = 1
            BY <3>1 DEF Keys
        <3> QED BY <3>1, <3>2, <3>3 DEF Win, Live, Expired
    <2>3. answer' = [allowed |-> TRUE, limit |-> max,
                     remaining |-> max - 1, resetAt |-> now + Window]
        BY <1>1 DEF StartWindow, Respond
    <2> QED BY <1>1, <2>1, <2>2, <2>3
        DEF Promise!Grant, Promise!Granted, Promise!End, StartWindow
<1>2. ASSUME NEW max \in Limits, Refuse(max) PROVE Promise!Deny(max)
    <2>1. /\ mem = disk /\ mem \in Windows /\ Win # None
          /\ Win = [end |-> mem.resetAt, grants |-> mem.count]
        BY <1>2, MemoryIsWindow DEF Refuse, Awake
    <2>2. disk'.resetAt = disk.resetAt /\ disk'.count = disk.count
        BY <1>2, <2>1 DEF Refuse, Keys
    <2>3. now' = now /\ disk # None /\ disk' # None
        BY <1>2, <2>1 DEF Refuse, Keys, IInv, TypeOK, MemoryOnDisk,
           Win, Live, Windows
    <2>4. Win' = Win
        BY <2>2, <2>3 DEF Win, Live, Expired
    <2> QED BY <1>2, <2>1, <2>4
        DEF Promise!Deny, Promise!Granted, Promise!End, Refuse, Respond
<1>3. ASSUME NEW max \in Limits, Count(max) PROVE Promise!Grant(max)
    <2>1. /\ mem = disk /\ mem \in Windows /\ Win # None
          /\ Win = [end |-> mem.resetAt, grants |-> mem.count]
        BY <1>3, MemoryIsWindow DEF Count, Awake
    <2>2. disk'.resetAt = mem.resetAt /\ disk'.count = mem.count + 1
        BY <1>3, <2>1 DEF Count, Keys
    <2>3. now' = now /\ disk' # None
        <3>1. /\ mem.count + 1 \in Nat /\ disk.resetAt \in Nat
            BY <2>1 DEF Windows
        <3>2. (IF mem.limit # max THEN max ELSE disk.limit) \in Nat
            <4>1. max \in Nat /\ disk.limit \in Nat
                BY <2>1 DEF Windows
            <4> QED BY <4>1
        <3> QED BY <1>3, <3>1, <3>2, KeysOK DEF Count
    <2>4. Win' = [end |-> mem.resetAt, grants |-> mem.count + 1]
        BY <1>3, <2>2, <2>3 DEF Win, Live, Expired, Count
    <2> QED BY <1>3, <2>1, <2>4
        DEF Promise!Grant, Promise!Granted, Promise!End, Count, Respond
<1>4. CASE AlarmFires
    <2>1. Win = None
        BY <1>4 DEF AlarmFires, Awake, WindowHasAlarm, Win, Live, Expired,
           IInv, TypeOK, Windows
    <2>2. Win' = None
        BY <1>4 DEF AlarmFires, ResetCounter, Win, Live
    <2> QED BY <1>4, <2>1, <2>2 DEF AlarmFires, Promise!vars
<1>5. CASE Reset
    BY <1>5 DEF Reset, ResetCounter, Win, Live, Promise!Forget, Promise!Next
<1>6. CASE ArmAlarm \/ Wake \/ Evict \/ UNCHANGED vars
    <2>1. disk' = disk /\ now' = now /\ answer' = answer
        BY <1>6 DEF ArmAlarm, Wake, Evict, vars
    <2> QED BY <2>1 DEF Promise!vars, Win, Live, Expired
<1>7. CASE Tick
    <2>1. disk' = disk /\ now' = now + 1 /\ now' \in Nat
        BY <1>7 DEF Tick, IInv, TypeOK
    <2>2. CASE Live
        <3>1. disk # None /\ disk \in Windows /\ disk.resetAt > 0
            BY <2>2 DEF Live, IInv, TypeOK, WindowStored
        <3>2. Win = [end |-> disk.resetAt, grants |-> disk.count] /\ Win # None
            BY <2>2, <3>1 DEF Win, Windows
        <3>3. Win' = IF now' > disk.resetAt THEN None ELSE Win
            BY <2>1, <3>1, <3>2 DEF Win, Live, Expired, Windows
        <3> QED BY <1>7, <3>2, <3>3 DEF Tick, Promise!Tick, Promise!Next
    <2>3. CASE ~Live
        <3>1. Win = None /\ Win' = None
            BY <2>1, <2>3 DEF Win, Live, Expired, IInv, TypeOK, Windows
        <3> QED BY <1>7, <3>1 DEF Tick, Promise!Tick, Promise!Next
    <2> QED BY <2>2, <2>3
<1> QED
    BY <1>1, <1>2, <1>3, <1>4, <1>5, <1>6, <1>7
    DEF Next, Increment, Promise!Next

\* The Durable Object keeps the promise of a fixed window to its clients.
THEOREM ObjectImplementsFixedWindow ==
    ASSUME MayCrash = FALSE
    PROVE  Spec => ImplementsFixedWindow
<1>1. Init => Promise!Init
    BY DEF Init, Promise!Init, Win, Live
<1>2. IInv /\ IInv' /\ WindowHasAlarm /\ [Next]_vars
        => [Promise!Next]_(Promise!vars)
    BY StepRefines
<1> QED
    BY <1>1, <1>2, InitIInv, NextIInv, InitAlarm, NextAlarm, PTL
    DEF Spec, ImplementsFixedWindow, Promise!Spec
-----------------------------------------------------------------------------
(* The KV fallback.                                                        *)

KvWindows == [count : 1..MaxGrants, resetAt : Ends, expires : Nat]

\* What a request may do depends on what it has read: below the object it has
\* read nothing, and it writes only on top of a count below its limit.
ReadsInTurn ==
    \A r \in Requests :
        /\ req[r].pc \in {"idle", "object"} => req[r].seen = None
        /\ req[r].seen # None \/ req[r].pc \in {"object", "read", "write"}
              => req[r].max \in Limits
        /\ req[r].pc = "write" /\ req[r].seen # None /\ req[r].at <= req[r].seen.resetAt
              => req[r].seen.count < req[r].max

\* No window ends later than one that began now, and a key outlives both
\* versions of its value.
EndsInTime ==
    /\ \A r \in Requests : req[r].at <= now
    /\ \A d \in {kv, older} \cup {req[r].seen : r \in Requests} :
          d # None => d.resetAt <= now + Window
    /\ kv # None => /\ kv.resetAt <= kv.expires
                    /\ older # None => older.resetAt <= kv.expires

FInv == FallbackTypeOK /\ ReadsInTurn /\ CountHonest /\ NoFalseRefusal /\ EndsInTime

LEMMA InitFInv == FallbackInit => FInv
  BY GraceAssumption, WindowAssumption, MaxTimeAssumption, MaxGrantsAssumption
     DEF FallbackInit, FInv, FallbackTypeOK, ReadsInTurn, CountHonest, NoFalseRefusal, EndsInTime, Idle, Data, Ends

\* What KvWrite stores is a window that ends in time.
LEMMA NextIsWindow ==
    ASSUME FInv, NEW r \in Requests, req[r].pc = "write"
    PROVE  /\ NextData(r) \in KvWindows
           /\ NextData(r).resetAt <= now + Window
           /\ NextData(r).expires = now + Window + Grace
           /\ NextData(r).count <= kvGrants[NextData(r).resetAt] + 1
  <1> DEFINE d == req[r].seen
             fresh == d = None \/ req[r].at > d.resetAt
  <1>1. /\ req[r].at \in 0..MaxTime /\ now \in 0..MaxTime /\ req[r].at <= now
        /\ req[r].max \in Limits /\ d \in Data
        /\ kvGrants \in [Ends -> 0..MaxGrants]
    BY DEF FInv, FallbackTypeOK, ReadsInTurn, EndsInTime
  <1>2. MaxGrants \in Nat /\ req[r].max \in 1..MaxGrants
    BY <1>1, MaxGrantsAssumption
  <1>3. CASE fresh
    <2>1. /\ NextData(r).count = 1 /\ NextData(r).resetAt = req[r].at + Window
          /\ NextData(r) = [count |-> 1, resetAt |-> req[r].at + Window,
                            expires |-> now + Window + Grace]
      BY <1>3 DEF NextData
    <2>2. req[r].at + Window \in Ends
      BY <1>1, GraceAssumption, WindowAssumption, MaxTimeAssumption DEF Ends
    <2> QED BY <2>1, <2>2, <1>1, <1>2, GraceAssumption, WindowAssumption, MaxTimeAssumption DEF KvWindows
  <1>4. CASE ~fresh
    <2>1. /\ d \in KvWindows /\ d.resetAt <= now + Window /\ d.count <= kvGrants[d.resetAt]
      BY <1>1, <1>4 DEF FInv, CountHonest, EndsInTime, Data, KvWindows
    <2>2. d.count < req[r].max
      BY <1>1, <1>4, <2>1, GraceAssumption, WindowAssumption, MaxTimeAssumption DEF FInv, ReadsInTurn, KvWindows, Ends
    <2>3. NextData(r) = [count |-> d.count + 1, resetAt |-> d.resetAt,
                         expires |-> now + Window + Grace]
      BY <1>4 DEF NextData
    <2>4. d.count + 1 \in 1..MaxGrants /\ d.resetAt \in Ends
      BY <1>2, <2>1, <2>2 DEF KvWindows
    <2>5. now + Window + Grace \in Nat
      BY <1>1, GraceAssumption, WindowAssumption, MaxTimeAssumption
    <2>6. kvGrants[d.resetAt] \in Nat /\ d.count \in Nat
      BY <1>1, <1>2, <2>1, <2>4 DEF KvWindows
    <2> HIDE DEF d
    <2> QED BY <2>1, <2>3, <2>4, <2>5, <2>6 DEF KvWindows
  <1> QED BY <1>3, <1>4

\* A step that touches only one request, which keeps the data it has seen or
\* sees a version of the key.
LEMMA RequestStep ==
    ASSUME FInv, NEW r \in Requests, UNCHANGED <<now, store, kvGrants>>,
           NEW new \in [pc : {"idle", "object", "read", "write", "allowed", "denied"},
                        max : Limits \cup {0, Unlimited}, at : 0..MaxTime, seen : Data],
           req' = [req EXCEPT ![r] = new],
           new.at <= now,
           new.seen \in {None, kv, older, req[r].seen},
           new.pc \in {"idle", "object"} => new.seen = None,
           new.seen # None \/ new.pc \in {"object", "read", "write"} => new.max \in Limits,
           new.pc = "write" /\ new.seen # None /\ new.at <= new.seen.resetAt
              => new.seen.count < new.max,
           new.pc = "denied" /\ new.seen # None => kvGrants[new.seen.resetAt] >= new.max
    PROVE  FInv'
  <1>1. FallbackTypeOK'
    BY DEF FInv, FallbackTypeOK, store
  <1>2. req'[r] = new /\ \A q \in Requests \ {r} : req'[q] = req[q]
    BY DEF FInv, FallbackTypeOK
  <1>3. ReadsInTurn'
    BY <1>2 DEF FInv, ReadsInTurn
  <1>4. NoFalseRefusal'
    BY <1>2 DEF FInv, NoFalseRefusal
  <1>5. {req'[q].seen : q \in Requests} \subseteq
           {None, kv, older} \cup {req[q].seen : q \in Requests}
    BY <1>2
  <1>6. CountHonest'
    BY <1>5 DEF FInv, CountHonest, store
  <1>7. EndsInTime'
    BY <1>2, <1>5 DEF FInv, EndsInTime, store
  <1> QED BY <1>1, <1>3, <1>4, <1>6, <1>7 DEF FInv

LEMMA NextFInv == FInv /\ [FallbackNext]_fallback => FInv'
  <1> SUFFICES ASSUME FInv, [FallbackNext]_fallback PROVE FInv'
    OBVIOUS
  <1>1. /\ now \in 0..MaxTime /\ kv \in Data /\ older \in Data
        /\ \A r \in Requests :
              req[r] \in [pc : {"idle", "object", "read", "write", "allowed", "denied"},
                          max : Limits \cup {0, Unlimited}, at : 0..MaxTime, seen : Data]
        /\ \A r \in Requests : req[r].at <= now
        /\ req = [r \in Requests |-> req[r]]
    BY DEF FInv, FallbackTypeOK, EndsInTime
  <1>2. ASSUME NEW r \in Requests, Arrive(r) PROVE FInv'
    <2>1. PICK max \in Limits \cup {0, Unlimited} :
             req' = [req EXCEPT ![r].max = max,
                                ![r].pc = CASE max = 0 -> "denied"
                                            [] max = Unlimited -> "allowed"
                                            [] OTHER -> "object"]
      BY <1>2 DEF Arrive
    <2> DEFINE pc == CASE max = 0 -> "denied" [] max = Unlimited -> "allowed"
                       [] OTHER -> "object"
               new == [req[r] EXCEPT !.max = max, !.pc = pc]
    <2>2. /\ pc \in {"denied", "allowed", "object"}
          /\ pc = "object" => max \in Limits
      OBVIOUS
    <2>3. req[r].seen = None
      BY <1>2 DEF Arrive, Idle
    <2>5. req' = [req EXCEPT ![r].max = max, ![r].pc = pc]
      BY <2>1
    <2> HIDE DEF pc
    <2>4. /\ new \in [pc : {"idle", "object", "read", "write", "allowed", "denied"},
                      max : Limits \cup {0, Unlimited}, at : 0..MaxTime, seen : Data]
          /\ new.pc = pc /\ new.max = max /\ new.seen = None /\ new.at = req[r].at
      BY <1>1, <2>2, <2>3
    <2>6. req' = [req EXCEPT ![r] = new]
      BY <1>1, <2>5
    <2> HIDE DEF new
    <2> QED BY <1>1, <1>2, <2>2, <2>4, <2>6, RequestStep DEF Arrive
  <1>3. ASSUME NEW r \in Requests, ObjectAnswers(r) PROVE FInv'
    <2>1. PICK decision \in {"allowed", "denied"} : req' = [req EXCEPT ![r].pc = decision]
      BY <1>3 DEF ObjectAnswers, Goto
    <2> DEFINE new == [req[r] EXCEPT !.pc = decision]
    <2>2. req[r].seen = None
      BY <1>3 DEF ObjectAnswers, FInv, ReadsInTurn
    <2>3. /\ new \in [pc : {"idle", "object", "read", "write", "allowed", "denied"},
                      max : Limits \cup {0, Unlimited}, at : 0..MaxTime, seen : Data]
          /\ new.pc = decision /\ new.seen = None /\ new.at = req[r].at
      BY <1>1, <2>2
    <2>4. req' = [req EXCEPT ![r] = new]
      BY <1>1, <2>1
    <2> HIDE DEF new
    <2> QED BY <1>1, <1>3, <2>3, <2>4, RequestStep DEF ObjectAnswers
  <1>4. ASSUME NEW r \in Requests, FallBack(r) PROVE FInv'
    <2> DEFINE new == [req[r] EXCEPT !.pc = "read", !.at = now]
    <2>1. req[r].seen = None /\ req[r].max \in Limits
      BY <1>4 DEF FallBack, FInv, ReadsInTurn
    <2>2. /\ new \in [pc : {"idle", "object", "read", "write", "allowed", "denied"},
                      max : Limits \cup {0, Unlimited}, at : 0..MaxTime, seen : Data]
          /\ new.pc = "read" /\ new.seen = None /\ new.at = now /\ new.max = req[r].max
      BY <1>1, <2>1
    <2>3. req' = [req EXCEPT ![r] = new]
      BY <1>1, <1>4 DEF FallBack
    <2>4. now <= now
      BY <1>1, GraceAssumption, WindowAssumption, MaxTimeAssumption
    <2> HIDE DEF new
    <2> QED BY <1>4, <2>1, <2>2, <2>3, <2>4, RequestStep DEF FallBack
  <1>5. ASSUME NEW r \in Requests, KvRead(r) PROVE FInv'
    <2>1. PICK d \in {kv, older} :
             req' = [req EXCEPT ![r].seen = d,
                       ![r].pc = IF /\ d # None /\ req[r].at <= d.resetAt
                                    /\ d.count >= req[r].max
                                 THEN "denied" ELSE "write"]
      BY <1>5 DEF KvRead
    <2> DEFINE over == d # None /\ req[r].at <= d.resetAt /\ d.count >= req[r].max
               pc == IF over THEN "denied" ELSE "write"
               new == [req[r] EXCEPT !.seen = d, !.pc = pc]
    <2>2. req[r].max \in Limits /\ req[r].max \in Nat
      BY <1>5, MaxGrantsAssumption DEF KvRead, FInv, ReadsInTurn
    <2>3. d # None => /\ d \in KvWindows /\ d.count <= kvGrants[d.resetAt]
                      /\ kvGrants[d.resetAt] \in Nat /\ d.count \in Nat
      BY <1>1, MaxGrantsAssumption DEF Data, KvWindows, FInv, CountHonest, FallbackTypeOK
    <2>4. /\ new \in [pc : {"idle", "object", "read", "write", "allowed", "denied"},
                      max : Limits \cup {0, Unlimited}, at : 0..MaxTime, seen : Data]
          /\ new.pc = pc /\ new.seen = d /\ new.at = req[r].at /\ new.max = req[r].max
      BY <1>1
    <2>5. req' = [req EXCEPT ![r] = new]
      BY <1>1, <2>1
    <2>6. pc = "write" /\ d # None /\ req[r].at <= d.resetAt => d.count < req[r].max
      BY <2>2, <2>3
    <2>7. pc = "denied" /\ d # None => kvGrants[d.resetAt] >= req[r].max
      BY <2>2, <2>3
    <2>8. pc \in {"denied", "write"}
      OBVIOUS
    <2> HIDE DEF new, pc
    <2> QED BY <1>1, <1>5, <2>2, <2>4, <2>5, <2>6, <2>7, <2>8, RequestStep DEF KvRead
  <1>6. ASSUME NEW r \in Requests, KvWrite(r) PROVE FInv'
    <2> DEFINE next == NextData(r)
               e == next.resetAt
    <2>1. /\ next \in KvWindows /\ e <= now + Window
          /\ next.expires = now + Window + Grace /\ next.count <= kvGrants[e] + 1
      BY <1>6, NextIsWindow DEF KvWrite
    <2>2. /\ kv' = next /\ older' = kv /\ now' = now
          /\ kvGrants' = [kvGrants EXCEPT ![e] = IF @ < MaxGrants THEN @ + 1 ELSE @]
          /\ req' = [req EXCEPT ![r].pc = "allowed"]
      BY <1>6 DEF KvWrite, Goto
    <2> HIDE DEF next, e
    <2>3. MaxGrants \in Nat /\ kvGrants \in [Ends -> 0..MaxGrants] /\ Ends \subseteq Nat
          /\ e \in Ends /\ next.resetAt = e
      BY <2>1, MaxGrantsAssumption, GraceAssumption, WindowAssumption, MaxTimeAssumption DEF FInv, FallbackTypeOK, Ends, KvWindows, e
    <2>4. /\ kvGrants' \in [Ends -> 0..MaxGrants]
          /\ \A x \in Ends : /\ kvGrants[x] \in Nat /\ kvGrants'[x] \in Nat
                             /\ kvGrants[x] <= kvGrants'[x]
          /\ next.count <= kvGrants'[e]
      BY <2>1, <2>2, <2>3 DEF KvWindows
    <2>5. /\ req'[r].pc = "allowed" /\ req'[r].seen = req[r].seen /\ req'[r].at = req[r].at
          /\ req'[r].max = req[r].max
          /\ \A q \in Requests \ {r} : req'[q] = req[q]
      BY <1>1, <2>2
    <2>6. FallbackTypeOK'
      BY <1>1, <2>1, <2>2, <2>4 DEF FInv, FallbackTypeOK, Data, KvWindows
    <2>7. ReadsInTurn'
      BY <2>5 DEF FInv, ReadsInTurn
    <2>8. CountHonest'
      <3>1. ASSUME NEW d \in {kv} \cup {req[q].seen : q \in Requests}, d # None
            PROVE  d.count <= kvGrants'[d.resetAt]
        <4>1. d \in KvWindows /\ d.count <= kvGrants[d.resetAt]
          BY <1>1, <3>1 DEF FInv, CountHonest, Data, KvWindows
        <4>2. d.resetAt \in Ends /\ d.count \in Nat
          BY <4>1, <2>3 DEF KvWindows
        <4> QED BY <4>1, <4>2, <2>4
      <3> QED BY <3>1, <2>2, <2>3, <2>4, <2>5 DEF CountHonest
    <2>9. NoFalseRefusal'
      <3>1. ASSUME NEW q \in Requests, req'[q].pc = "denied", req'[q].seen # None
            PROVE  kvGrants'[req'[q].seen.resetAt] >= req'[q].max
        <4>1. /\ q # r /\ req'[q] = req[q] /\ req[q].seen \in KvWindows
              /\ kvGrants[req[q].seen.resetAt] >= req[q].max
          BY <1>1, <2>5, <3>1 DEF FInv, NoFalseRefusal, Data, KvWindows
        <4>2. req[q].max \in Nat /\ req[q].seen.resetAt \in Ends
          BY <3>1, <4>1, MaxGrantsAssumption DEF FInv, ReadsInTurn, KvWindows
        <4> QED BY <4>1, <4>2, <2>4
      <3> QED BY <3>1 DEF NoFalseRefusal
    <2>10. EndsInTime'
      <3>1. ASSUME NEW d \in {kv, older} \cup {req[q].seen : q \in Requests}, d # None
            PROVE  d.resetAt <= now + Window
        BY <3>1 DEF FInv, EndsInTime
      <3>2. kv # None => kv.resetAt \in Nat
        BY <1>1, <2>3 DEF Data
      <3> QED BY <1>1, <2>1, <2>2, <2>3, <2>5, <3>1, <3>2, GraceAssumption, WindowAssumption, MaxTimeAssumption
              DEF EndsInTime, KvWindows
    <2> QED BY <2>6, <2>7, <2>8, <2>9, <2>10 DEF FInv
  <1>7. ASSUME NEW r \in Requests, Return(r) PROVE FInv'
    <2>1. /\ Idle \in [pc : {"idle", "object", "read", "write", "allowed", "denied"},
                       max : Limits \cup {0, Unlimited}, at : 0..MaxTime, seen : Data]
          /\ Idle.pc = "idle" /\ Idle.seen = None /\ Idle.at <= now
      BY <1>1, GraceAssumption, WindowAssumption, MaxTimeAssumption DEF Idle, Data
    <2> QED BY <1>7, <2>1, RequestStep DEF Return
  <1>8. CASE KvExpires
    BY <1>8 DEF KvExpires, FInv, FallbackTypeOK, ReadsInTurn, CountHonest, NoFalseRefusal,
       EndsInTime, Data
  <1>9. CASE Elapse
    <2>1. /\ now' = now + 1 /\ now' \in 0..MaxTime
          /\ UNCHANGED <<kv, older, req, kvGrants>>
      BY <1>1, <1>9, GraceAssumption, WindowAssumption, MaxTimeAssumption DEF Elapse, store
    <2>2. EndsInTime'
      <3>1. ASSUME NEW d \in {kv, older} \cup {req[q].seen : q \in Requests}, d # None
            PROVE  d.resetAt <= now' + Window
        <4>1. d.resetAt \in Nat /\ d.resetAt <= now + Window
          BY <1>1, <3>1, GraceAssumption, WindowAssumption, MaxTimeAssumption DEF FInv, EndsInTime, Data, Ends
        <4> QED BY <1>1, <2>1, <4>1, GraceAssumption, WindowAssumption, MaxTimeAssumption
      <3> QED BY <1>1, <2>1, <3>1 DEF FInv, EndsInTime
    <2> QED BY <2>1, <2>2 DEF FInv, FallbackTypeOK, ReadsInTurn, CountHonest, NoFalseRefusal
  <1>10. CASE UNCHANGED fallback
    BY <1>10 DEF fallback, store, FInv, FallbackTypeOK, ReadsInTurn, CountHonest, NoFalseRefusal, EndsInTime
  <1> QED BY <1>2, <1>3, <1>4, <1>5, <1>6, <1>7, <1>8, <1>9, <1>10 DEF FallbackNext

THEOREM FallbackInvariant == FallbackSpec => []FInv
  BY InitFInv, NextFInv, PTL DEF FallbackSpec

\* No version of the KV value counts more requests than were granted.
THEOREM CountHonestAlways == FallbackSpec => []CountHonest
  BY FallbackInvariant, PTL DEF FInv

\* Nobody is refused by KV before his whole limit was granted in the window.
THEOREM NoFalseRefusalAlways == FallbackSpec => []NoFalseRefusal
  BY FallbackInvariant, PTL DEF FInv

\* expirationTtl never removes a window that has not ended.
THEOREM LiveWindowKeptAlways == FallbackSpec => LiveWindowKept
  <1>1. FInv /\ [FallbackNext]_fallback =>
           [KvExpires => now > kv.resetAt /\ (older # None => now > older.resetAt)]_fallback
    <2> SUFFICES ASSUME FInv, KvExpires
                 PROVE  now > kv.resetAt /\ (older # None => now > older.resetAt)
      OBVIOUS
    <2>1. kv # None /\ now > kv.expires /\ now \in Nat /\ kv \in KvWindows /\ older \in Data
      BY GraceAssumption, WindowAssumption, MaxTimeAssumption DEF KvExpires, FInv, FallbackTypeOK, Data, KvWindows
    <2> QED BY <2>1, GraceAssumption, WindowAssumption, MaxTimeAssumption DEF FInv, EndsInTime, Data, KvWindows, Ends
  <1> QED BY <1>1, FallbackInvariant, PTL DEF FallbackSpec, LiveWindowKept
=============================================================================
