------------------------------ MODULE KeyState ------------------------------
(***************************************************************************)
(* The health record of one upstream key and the policy that every         *)
(* recorded outcome applies to it: AIMD capacity, key-wide cooldowns with  *)
(* a reason, (key, model) cooldowns and the error streaks.                 *)
(*                                                                         *)
(* Statuses are classes: "2xx", "429", "401", "403", "5xx", "0" (network   *)
(* failure), "404" (404 and 402) and "other" (every other code).  A streak *)
(* counter is kept only up to the threshold it is compared with.           *)
(***************************************************************************)
EXTENDS Integers

CONSTANTS
    Models,     \* model names a request may ask for
    NoModel,    \* a request without a model name
    Policy      \* the thresholds and durations of the outcome policy

Transient == {"mixed_error", "upstream_5xx"}
Protected == {"quota_429", "auth_401", "forbidden_403", "proxy_transport"}
NoReason  == "null"
Reasons   == Transient \cup Protected \cup {NoReason, "persisted"}

Statuses == {"2xx", "429", "401", "403", "5xx", "0", "404", "other"}

\* retryAfter is the Retry-After of a 429; 0 stands for its absence.
Outcomes == [status : Statuses, retryAfter : Nat]

PolicyFields == {"capGrowAfter", "consecutive403Threshold", "consecutive5xxThreshold",
                 "consecutiveErrorThreshold", "cooldown429Default", "cooldown429Max",
                 "model403Cooldown", "cooldown403", "cooldown5xx",
                 "persistent5xxCooldown", "burstErrorCooldown", "deadModelCooldown",
                 "proxyCooldown"}

ASSUME KeyStateAssumption ==
    /\ NoModel \notin Models
    /\ Policy \in [PolicyFields -> Nat \ {0}]

Larger(a, b)  == IF a >= b THEN a ELSE b
Smaller(a, b) == IF a <= b THEN a ELSE b

\* A streak, kept only as far as the threshold it is compared with.
Bump(streak, threshold) == Smaller(streak + 1, threshold)

HealthRecords ==
    [cap       : Nat \ {0},
     badUntil  : Nat,              \* the key is out of use before this time
     reason    : Reasons,
     dead      : [Models -> Nat],  \* end of the (key, model) cooldown, 0 if none
     consec2xx : Nat,
     consec5xx : Nat,
     consec403 : Nat,
     consecErr : Nat]

CreateInitialKeyState(cap) ==
    [cap |-> cap, badUntil |-> 0, reason |-> NoReason,
     dead |-> [m \in Models |-> 0],
     consec2xx |-> 0, consec5xx |-> 0, consec403 |-> 0, consecErr |-> 0]

-----------------------------------------------------------------------------
(* Cooldowns.                                                              *)

CoolingAt(h, now) == now < h.badUntil

\* Mutants of SetKeyCooldown: the label is always replaced; the end may move earlier.
SetKeyCooldownRelabelled(h, reason, until) ==
    [h EXCEPT !.badUntil = Larger(@, until), !.reason = reason]

SetKeyCooldownShortened(h, reason, until) ==
    [h EXCEPT !.badUntil = until,
              !.reason = IF @ \in Protected /\ reason \notin Protected THEN @ ELSE reason]

\* The end never moves earlier, and a transient reason never replaces a protected one.
SetKeyCooldown(h, reason, until) ==
    [h EXCEPT !.badUntil = Larger(@, until),
              !.reason = IF @ \in Protected /\ reason \notin Protected THEN @ ELSE reason]

RecoverTransientCooldown(h, now) ==
    CASE ~ CoolingAt(h, now) -> [h EXCEPT !.reason = NoReason]
      [] CoolingAt(h, now) /\ h.reason \in Transient ->
            [h EXCEPT !.badUntil = 0, !.reason = NoReason]
      [] OTHER -> h

\* What reading the reason (status page, candidate listing) leaves behind.
ObserveReason(h, now) ==
    IF CoolingAt(h, now) THEN h ELSE [h EXCEPT !.reason = NoReason]

\* A relay's 403 for a named model says nothing of the key as a whole.
Classify403Model(relay, m) == relay /\ m # NoModel

CountsTowardMixedError(status, modelScoped403) ==
    /\ status \notin {"2xx", "0", "429"}
    /\ ~ (status = "403" /\ modelScoped403)

AdvanceMixedErrorStreak(h, status, modelScoped403) ==
    IF CountsTowardMixedError(status, modelScoped403)
    THEN Bump(h.consecErr, Policy.consecutiveErrorThreshold)
    ELSE 0

HalveCap(h, capMin) == [h EXCEPT !.cap = Larger(@ \div 2, capMin)]

-----------------------------------------------------------------------------
(* One outcome.  `key` gives capMin, capMax, relay and auth401Cooldown.    *)

Succeed(h, key, now) ==
    LET grows == h.consec2xx + 1 >= Policy.capGrowAfter /\ h.cap < key.capMax
        calm  == [h EXCEPT !.consec5xx = 0, !.consec403 = 0, !.consecErr = 0]
    IN  [RecoverTransientCooldown(calm, now) EXCEPT
            !.cap = IF grows THEN @ + 1 ELSE @,
            !.consec2xx = IF grows THEN 0 ELSE Bump(@, Policy.capGrowAfter)]

\* What every failure does first: the mixed-error streak and its key-wide block.
CountError(h, status, modelScoped403, now) ==
    LET streak  == AdvanceMixedErrorStreak(h, status, modelScoped403)
        counted == [h EXCEPT !.consecErr = streak]
    IN  IF streak >= Policy.consecutiveErrorThreshold
        THEN SetKeyCooldown(counted, "mixed_error", now + Policy.burstErrorCooldown)
        ELSE counted

RateLimited(h, key, retryAfter, now) ==
    LET cooldown == IF retryAfter > 0
                    THEN Smaller(retryAfter, Policy.cooldown429Max)
                    ELSE Policy.cooldown429Default
        reset == [h EXCEPT !.consec2xx = 0, !.consec403 = 0]
    IN  SetKeyCooldown(HalveCap(reset, key.capMin), "quota_429", now + cooldown)

Unauthorized(h, key, now) ==
    LET reset == [h EXCEPT !.consec2xx = 0, !.consec403 = 0, !.cap = key.capMin]
    IN  IF key.auth401Cooldown > 0
        THEN SetKeyCooldown(reset, "auth_401", now + key.auth401Cooldown)
        ELSE reset

Forbidden(h, now) ==
    LET streak  == Bump(h.consec403, Policy.consecutive403Threshold)
        counted == [h EXCEPT !.consec2xx = 0, !.consec403 = streak]
    IN  IF streak >= Policy.consecutive403Threshold
        THEN SetKeyCooldown(counted, "forbidden_403", now + Policy.cooldown403)
        ELSE counted

ForbiddenModel(h, m, now) ==
    [h EXCEPT !.consec2xx = 0, !.consec403 = 0,
              !.dead[m] = now + Policy.model403Cooldown]

ServerError(h, key, now) ==
    LET streak   == Bump(h.consec5xx, Policy.consecutive5xxThreshold)
        cooldown == IF streak >= Policy.consecutive5xxThreshold
                    THEN Policy.persistent5xxCooldown ELSE Policy.cooldown5xx
        counted  == [h EXCEPT !.consec2xx = 0, !.consec403 = 0, !.consec5xx = streak]
    IN  SetKeyCooldown(HalveCap(counted, key.capMin), "upstream_5xx", now + cooldown)

NetworkError(h) == [h EXCEPT !.consec2xx = 0, !.consec403 = 0]

\* An entry already there, even an expired one, is left as it is.
ModelMissing(h, m, now) ==
    [h EXCEPT !.consec2xx = 0,
              !.dead[m] = IF @ = 0 THEN now + Policy.deadModelCooldown ELSE @]

ApplyKeyOutcome(h, key, m, outcome, now) ==
    LET status == outcome.status
        scoped == status = "403" /\ Classify403Model(key.relay, m)
        e      == CountError(h, status, scoped, now)
    IN  CASE status = "2xx"                 -> Succeed(h, key, now)
          [] status = "429"                 -> RateLimited(e, key, outcome.retryAfter, now)
          [] status = "401"                 -> Unauthorized(e, key, now)
          [] status = "403" /\ scoped       -> ForbiddenModel(e, m, now)
          [] status = "403" /\ ~ scoped     -> Forbidden(e, now)
          [] status = "5xx"                 -> ServerError(e, key, now)
          [] status = "0"                   -> NetworkError(e)
          [] status = "404" /\ m # NoModel  -> ModelMissing(e, m, now)
          [] OTHER                          -> e

-----------------------------------------------------------------------------
(* The upstream quota was probed open again: capacity and streaks start    *)
(* over, and a cooldown is lifted when its label is one of Reopenable.     *)

Reopenable == {"quota_429", "forbidden_403", "mixed_error"}

ReconcileQuotaOpen(h, capInitial) ==
    LET lift == h.reason \in Reopenable
    IN  [h EXCEPT !.cap = capInitial,
                  !.badUntil = IF lift THEN 0 ELSE @,
                  !.reason = IF lift THEN NoReason ELSE @,
                  !.consec2xx = 0, !.consec5xx = 0, !.consec403 = 0, !.consecErr = 0]

-----------------------------------------------------------------------------
(* The persisted form of a cooldown: until = 0 stands for no record.       *)

CooldownRecords == [until : Nat, reason : Reasons]
NoRecord == [until |-> 0, reason |-> NoReason]

\* Mutant of ExportCooldown: only protected cooldowns are written.
ExportCooldownProtected(h, now) ==
    IF CoolingAt(h, now) /\ h.reason \in Protected
    THEN [until |-> h.badUntil, reason |-> h.reason] ELSE NoRecord

ExportCooldown(h, now) ==
    IF CoolingAt(h, now) THEN [until |-> h.badUntil, reason |-> h.reason] ELSE NoRecord

\* Expired records are ignored.
ApplyCooldown(h, record, now) ==
    IF record.until > now
    THEN SetKeyCooldown(h, IF record.reason = NoReason THEN "persisted" ELSE record.reason,
                        record.until)
    ELSE h
=============================================================================
