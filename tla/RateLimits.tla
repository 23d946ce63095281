----------------------------- MODULE RateLimits -----------------------------
(***************************************************************************)
(* What the rate limiter's Durable Object (RateLimiterDO) and the          *)
(* middleware around it (TieredRateLimit) share: the limits of the tiers   *)
(* and API keys, the length of the window, and the clock.                  *)
(***************************************************************************)
EXTENDS Naturals

CONSTANTS
    Limits,     \* finite non-zero limits: tiers, or the stricter API-key limit
    Window,     \* WORKER_DEFAULTS.RATE_LIMIT_WINDOW_SECONDS, in clock ticks
    MaxTime,    \* bound: the clock stops here
    None        \* undefined: nothing stored, not in memory, no alarm

ASSUME LimitsAssumption == Limits \subseteq Nat \ {0}
ASSUME WindowAssumption == Window \in Nat \ {0}
ASSUME MaxTimeAssumption == MaxTime \in Nat

VARIABLE now    \* Date.now()
=============================================================================
