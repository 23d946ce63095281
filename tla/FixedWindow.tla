---------------------------- MODULE FixedWindow -----------------------------
(***************************************************************************)
(* What the rate limiter promises one identity: a fixed window that opens  *)
(* with the first request, grants at most the caller's limit until it      *)
(* ends, and refuses nobody who is below that limit.  RateLimiterDO        *)
(* implements it with memory, storage and an alarm.                        *)
(***************************************************************************)
EXTENDS Naturals

CONSTANTS
    Limits,     \* the values of maxRequests callers may pass (tiers, API keys)
    Window,     \* windowSeconds, in clock ticks
    MaxTime,    \* bound: the clock stops here
    None        \* no live window, no answer yet

VARIABLES
    now,        \* Date.now()
    win,        \* the live window: its last instant and the requests granted
    answer      \* the latest answer: allowed, limit, remaining, resetAt; or
                \* None, after a reset

Granted == IF win = None THEN 0 ELSE win.grants
End == IF win = None THEN now + Window ELSE win.end

Init == now = 0 /\ win = None /\ answer = None

Grant(max) ==
    /\ Granted < max
    /\ win' = [end |-> End, grants |-> Granted + 1]
    /\ answer' = [allowed |-> TRUE, limit |-> max,
                  remaining |-> max - (Granted + 1), resetAt |-> End]
    /\ UNCHANGED now

Deny(max) ==
    /\ win # None
    /\ Granted >= max
    /\ answer' = [allowed |-> FALSE, limit |-> max,
                  remaining |-> 0, resetAt |-> End]
    /\ UNCHANGED <<now, win>>

\* The administrator's /reset.
Forget == win' = None /\ answer' = None /\ UNCHANGED now

\* A window ends by the clock and by nothing else.
Tick ==
    /\ now < MaxTime
    /\ now' = now + 1
    /\ win' = IF win # None /\ now' > win.end THEN None ELSE win
    /\ UNCHANGED answer

Next ==
    \/ \E max \in Limits : Grant(max) \/ Deny(max)
    \/ Forget
    \/ Tick

vars == <<now, win, answer>>
Spec == Init /\ [][Next]_vars
=============================================================================
