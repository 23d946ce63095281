--------------------------- MODULE RateLimiterDO ----------------------------
(***************************************************************************)
(* The RateLimiterDO Durable Object of src/worker/rate-limiter-do.ts: one  *)
(* instance per identity, whose window lives in memory, is written to the  *)
(* object's storage on every change, and is cleared by an alarm.           *)
(*                                                                         *)
(* The object is single-threaded and its input gate holds back events      *)
(* while a storage call is awaited, so a handler is one step for each      *)
(* stretch between awaits that a crash can fall into.  The platform may    *)
(* evict the object between two events (hibernation, deployment, crash)    *)
(* and, with MayCrash, also between the two storage calls of a handler.    *)
(***************************************************************************)
EXTENDS RateLimits

CONSTANTS
    AlarmDelay, \* the second by which the alarm trails the window's end
    MayCrash    \* whether a crash may separate two storage calls

ASSUME DelayAssumption == AlarmDelay \in Nat \ {0}
ASSUME MayCrashAssumption == MayCrash \in BOOLEAN
ASSUME NoneAssumption ==
    None \notin Nat \cup [count : Nat, resetAt : Nat, limit : Nat]
                    \cup [end : Nat, grants : Nat]

VARIABLES
    mem,        \* count, resetAt and limit of the live object; None if evicted
    disk,       \* the same three keys in storage; None after deleteAll
    alarm,      \* the time the platform will call alarm(), if any
    arming,     \* a new window is stored, its setAlarm not yet made
    answer      \* the latest answer's /increment result; None after a /reset

vars == <<now, mem, disk, alarm, arming, answer>>

Keys(count, resetAt, limit) ==
    [count |-> count, resetAt |-> resetAt, limit |-> limit]
Cleared == Keys(0, 0, 0)
Windows == [count : Nat, resetAt : Nat, limit : Nat]

TypeOK ==
    /\ now \in Nat
    /\ mem \in Windows \cup {None}
    /\ disk \in Windows \cup {None}
    /\ alarm \in Nat \cup {None}
    /\ arming \in BOOLEAN
    /\ answer \in [allowed : BOOLEAN, limit : Nat, remaining : Nat,
                   resetAt : Nat] \cup {None}

Init ==
    /\ now = 0
    /\ mem = None /\ disk = None /\ alarm = None
    /\ arming = FALSE
    /\ answer = None

Expired(w) == w.resetAt = 0 \/ now > w.resetAt

\* An event can be delivered: the object is up and awaits no storage call.
Awake == mem # None /\ ~arming

-----------------------------------------------------------------------------
\* The constructor: storage is read back before any event is delivered.
Wake ==
    /\ mem = None
    /\ mem' = IF disk = None THEN Cleared ELSE disk
    /\ UNCHANGED <<now, disk, alarm, arming, answer>>

Respond(allowed, max, count, resetAt) ==
    answer' = [allowed |-> allowed, limit |-> max,
               remaining |-> IF allowed THEN max - count ELSE 0,
               resetAt |-> resetAt]

\* increment(), no live window: the put() of the new window ...
StartWindow_Mut(max) ==                         \* mutant: the old count is put
    /\ Awake /\ Expired(mem)
    /\ mem' = Keys(1, now + Window, max)
    /\ disk' = Keys(mem.count, now + Window, max)
    /\ arming' = TRUE
    /\ Respond(TRUE, max, 1, now + Window)
    /\ UNCHANGED <<now, alarm>>
StartWindow(max) ==
    /\ Awake /\ Expired(mem)
    /\ mem' = Keys(1, now + Window, max)
    /\ disk' = mem'
    /\ arming' = TRUE
    /\ Respond(TRUE, max, 1, now + Window)
    /\ UNCHANGED <<now, alarm>>

\* ... and its setAlarm(), which replaces any alarm of an earlier window.
ArmAlarm_Mut ==                                 \* mutant: an alarm is kept
    /\ mem # None /\ arming
    /\ alarm' = IF alarm = None THEN mem.resetAt + AlarmDelay ELSE alarm
    /\ arming' = FALSE
    /\ UNCHANGED <<now, mem, disk, answer>>
ArmAlarm ==
    /\ mem # None /\ arming
    /\ alarm' = mem.resetAt + AlarmDelay
    /\ arming' = FALSE
    /\ UNCHANGED <<now, mem, disk, answer>>

\* increment() in a live window: refused.  The limit of this caller is kept
\* in memory in any case, and stored (with the count) if it is a new one.
Refuse(max) ==
    /\ Awake /\ ~Expired(mem)
    /\ mem.count >= max
    /\ mem' = Keys(mem.count, mem.resetAt, max)
    /\ disk' = IF mem.limit # max
               THEN Keys(mem.count, disk.resetAt, max) ELSE disk
    /\ Respond(FALSE, max, mem.count, mem.resetAt)
    /\ UNCHANGED <<now, alarm, arming>>

\* increment() in a live window: granted.
Count_Mut(max) ==                               \* mutant: > instead of >=
    /\ Awake /\ ~Expired(mem)
    /\ mem.count <= max
    /\ mem' = Keys(mem.count + 1, mem.resetAt, max)
    /\ disk' = Keys(mem.count + 1, disk.resetAt, max)
    /\ Respond(TRUE, max, mem.count + 1, mem.resetAt)
    /\ UNCHANGED <<now, alarm, arming>>
Count(max) ==
    /\ Awake /\ ~Expired(mem)
    /\ mem.count < max
    /\ mem' = Keys(mem.count + 1, mem.resetAt, max)
    /\ disk' = Keys(mem.count + 1, disk.resetAt,
                    IF mem.limit # max THEN max ELSE disk.limit)
    /\ Respond(TRUE, max, mem.count + 1, mem.resetAt)
    /\ UNCHANGED <<now, alarm, arming>>

ResetCounter == mem' = Cleared /\ disk' = None

\* POST /reset; deleteAll() does not touch a scheduled alarm.
Reset ==
    /\ Awake
    /\ ResetCounter
    /\ answer' = None
    /\ UNCHANGED <<now, alarm, arming>>

\* The platform calls alarm() at the set time or later, and only once.
AlarmFires ==
    /\ Awake
    /\ alarm # None /\ now >= alarm
    /\ alarm' = None
    /\ ResetCounter
    /\ UNCHANGED <<now, arming, answer>>

\* The object leaves memory: storage and the alarm stay.
Evict ==
    /\ mem # None
    /\ arming => MayCrash
    /\ mem' = None
    /\ arming' = FALSE
    /\ UNCHANGED <<now, disk, alarm, answer>>

Tick ==
    /\ now < MaxTime
    /\ now' = now + 1
    /\ UNCHANGED <<mem, disk, alarm, arming, answer>>

Increment(max) == StartWindow(max) \/ Refuse(max) \/ Count(max)

Next ==
    \/ \E max \in Limits : Increment(max)
    \/ ArmAlarm \/ AlarmFires \/ Reset
    \/ Wake \/ Evict \/ Tick

Spec == Init /\ [][Next]_vars

-----------------------------------------------------------------------------
\* An eviction at any moment loses nothing: storage always holds what memory
\* holds, although increment() writes one, two or three keys, or none.
MemoryOnDisk == mem # None => IF disk = None THEN mem = Cleared ELSE disk = mem

\* A stored window always has the alarm that will clear it, set to a time past
\* its end: no other alarm, of an earlier window, is left to fire into it.
WindowHasAlarm ==
    disk # None /\ ~arming => alarm = disk.resetAt + AlarmDelay

-----------------------------------------------------------------------------
\* The live window as its clients see it: what is stored, until it expires.
Live == disk # None /\ ~Expired(disk)

Win == IF Live THEN [end |-> disk.resetAt, grants |-> disk.count] ELSE None

Promise == INSTANCE FixedWindow WITH win <- Win

\* The Durable Object implements the fixed window: evictions, the alarm and
\* storage are invisible to its clients, no alarm ends a window that is live,
\* and a limit that changes in the middle of a window applies to the very
\* request that brings it.
ImplementsFixedWindow == Promise!Spec
=============================================================================
