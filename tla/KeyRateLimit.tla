---------------------------- MODULE KeyRateLimit ----------------------------
(***************************************************************************)
(* Per-key request pacing, independent of the AIMD concurrency limit.      *)
(*                                                                         *)
(* A key has no rate policy, a "paced" one (at least `interval` between    *)
(* two starts) or a "fixed-window" one (at most `perWindow` starts in each *)
(* window of the wall clock).  The window reset a refused probe writes is  *)
(* recomputed by every later reader, so only a start writes the state.     *)
(***************************************************************************)
EXTENDS Integers

CONSTANT Minute      \* length of a fixed window, in clock units

ASSUME MinuteAssumption == Minute \in Nat \ {0}

RatePolicies == [mode : {"none", "paced", "fixed-window"}, limit : Nat \ {0}]

\* `limit` is the interval of a paced policy and the quota of a fixed window.
NoRatePolicy == [mode |-> "none", limit |-> 1]

RateStates == [lastStartedAt : Nat, windowStart : Nat, windowCount : Nat]

InitialRate == [lastStartedAt |-> 0, windowStart |-> 0, windowCount |-> 0]

WindowStart(now) == (now \div Minute) * Minute

WindowCount(rate, now) ==
    IF rate.windowStart = WindowStart(now) THEN rate.windowCount ELSE 0

\* Mutant of RateAllowed: the interval of a paced key is one unit short.
RateAllowedEarly(rate, policy, now) ==
    CASE policy.mode = "none"         -> TRUE
      [] policy.mode = "paced"        -> now + 1 >= rate.lastStartedAt + policy.limit
      [] policy.mode = "fixed-window" -> WindowCount(rate, now) < policy.limit

RateAllowed(rate, policy, now) ==
    CASE policy.mode = "none"         -> TRUE
      [] policy.mode = "paced"        -> \/ rate.lastStartedAt = 0
                                         \/ now >= rate.lastStartedAt + policy.limit
      [] policy.mode = "fixed-window" -> WindowCount(rate, now) < policy.limit

\* The state after a start that RateAllowed admitted at the same instant.
ConsumeRate(rate, policy, now) ==
    CASE policy.mode = "none"         -> rate
      [] policy.mode = "paced"        -> [rate EXCEPT !.lastStartedAt = now]
      [] policy.mode = "fixed-window" ->
            [rate EXCEPT !.windowStart = WindowStart(now),
                         !.windowCount = WindowCount(rate, now) + 1]
=============================================================================
