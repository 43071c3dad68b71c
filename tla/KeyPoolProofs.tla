--------------------------- MODULE KeyPoolProofs ---------------------------
(***************************************************************************)
(* The key pool, for every number of keys, vendors, models and requests and *)
(* every policy.  Four parts, each resting on the ones before it:          *)
(*   - the health record of a key: what one outcome does to it;            *)
(*   - the types of the pool's state;                                      *)
(*   - its slots: the counters are exact, the shared ceilings hold, and the *)
(*     pool implements the capacity ledger;                                *)
(*   - its history: a cooldown has a reason and is not cut short, a streak *)
(*     blocks, and the file of cooldowns keeps up with memory.             *)
(***************************************************************************)
EXTENDS KeyPoolHistory, FiniteSetTheorems, TLAPS

USE DEF Larger, Smaller

(* Every threshold and duration of the policy is a positive number. *)
LEMMA PolicyType ==
    /\ Policy.capGrowAfter \in Nat \ {0}
    /\ Policy.consecutive403Threshold \in Nat \ {0}
    /\ Policy.consecutive5xxThreshold \in Nat \ {0}
    /\ Policy.consecutiveErrorThreshold \in Nat \ {0}
    /\ Policy.cooldown429Default \in Nat \ {0}
    /\ Policy.cooldown429Max \in Nat \ {0}
    /\ Policy.model403Cooldown \in Nat \ {0}
    /\ Policy.cooldown403 \in Nat \ {0}
    /\ Policy.cooldown5xx \in Nat \ {0}
    /\ Policy.persistent5xxCooldown \in Nat \ {0}
    /\ Policy.burstErrorCooldown \in Nat \ {0}
    /\ Policy.deadModelCooldown \in Nat \ {0}
    /\ Policy.proxyCooldown \in Nat \ {0}
  BY KeyStateAssumption DEF PolicyFields

(* Setting a cooldown keeps the record well formed. *)
LEMMA SetKeyCooldownType ==
  ASSUME NEW h \in HealthRecords, NEW reason \in Reasons, NEW until \in Nat
  PROVE  SetKeyCooldown(h, reason, until) \in HealthRecords
  BY DEF SetKeyCooldown, HealthRecords

(* So does recovering a transient one. *)
LEMMA RecoverType ==
  ASSUME NEW h \in HealthRecords, NEW time \in Nat
  PROVE  RecoverTransientCooldown(h, time) \in HealthRecords
  <1>1. CASE ~ CoolingAt(h, time)
    BY <1>1 DEF RecoverTransientCooldown, HealthRecords, Reasons
  <1>2. CASE CoolingAt(h, time) /\ h.reason \in Transient
    BY <1>2 DEF RecoverTransientCooldown, HealthRecords, Reasons
  <1>3. CASE CoolingAt(h, time) /\ h.reason \notin Transient
    BY <1>3 DEF RecoverTransientCooldown
  <1> QED BY <1>1, <1>2, <1>3

(* So does counting a failure in the mixed-error streak. *)
LEMMA CountErrorType ==
  ASSUME NEW h \in HealthRecords, NEW status \in Statuses, NEW scoped \in BOOLEAN,
         NEW time \in Nat
  PROVE  CountError(h, status, scoped, time) \in HealthRecords
  <1> DEFINE streak  == AdvanceMixedErrorStreak(h, status, scoped)
             counted == [h EXCEPT !.consecErr = streak]
  <1>1. streak \in Nat
    BY PolicyType DEF AdvanceMixedErrorStreak, Bump, HealthRecords
  <1>2. counted \in HealthRecords
    BY <1>1 DEF HealthRecords
  <1>3. "mixed_error" \in Reasons /\ time + Policy.burstErrorCooldown \in Nat
    BY PolicyType DEF Reasons, Transient
  <1> QED BY <1>2, <1>3, SetKeyCooldownType DEF CountError

(* Halving keeps the capacity positive: the floor capMin is positive. *)
LEMMA HalveCapType ==
  ASSUME NEW h \in HealthRecords, NEW capMin \in Nat \ {0}
  PROVE  HalveCap(h, capMin) \in HealthRecords
  <1>1. Larger(h.cap \div 2, capMin) \in Nat \ {0}
    BY DEF HealthRecords
  <1> QED BY <1>1 DEF HalveCap, HealthRecords

(* What applying an outcome needs to know of the key. *)
KeyLimits(key) ==
    /\ key.capMin \in Nat \ {0}
    /\ key.capMax \in Nat \ {0}
    /\ key.relay \in BOOLEAN
    /\ key.auth401Cooldown \in Nat

(* A success keeps the record well formed, the grown capacity included. *)
LEMMA SucceedType ==
  ASSUME NEW h \in HealthRecords, NEW key, KeyLimits(key), NEW time \in Nat
  PROVE  Succeed(h, key, time) \in HealthRecords
  <1> DEFINE calm == [h EXCEPT !.consec5xx = 0, !.consec403 = 0, !.consecErr = 0]
             rec  == RecoverTransientCooldown(calm, time)
  <1>1. calm \in HealthRecords
    BY DEF HealthRecords
  <1>2. rec \in HealthRecords
    BY <1>1, RecoverType
  <1>3. Bump(rec.consec2xx, Policy.capGrowAfter) \in Nat /\ rec.cap + 1 \in Nat \ {0}
    BY <1>2, PolicyType DEF HealthRecords, Bump
  <1> HIDE DEF rec
  <1>4. \A c \in Nat \ {0}, n \in Nat :
          [rec EXCEPT !.cap = c, !.consec2xx = n] \in HealthRecords
    BY <1>2 DEF HealthRecords
  <1>5. rec.cap \in Nat \ {0}
    BY <1>2 DEF HealthRecords
  <1> QED BY <1>3, <1>4, <1>5 DEF Succeed, rec

(* So does a 429. *)
LEMMA RateLimitedType ==
  ASSUME NEW h \in HealthRecords, NEW key, KeyLimits(key), NEW retryAfter \in Nat,
         NEW time \in Nat
  PROVE  RateLimited(h, key, retryAfter, time) \in HealthRecords
  <1> DEFINE reset == [h EXCEPT !.consec2xx = 0, !.consec403 = 0]
             cooldown == IF retryAfter > 0
                         THEN Smaller(retryAfter, Policy.cooldown429Max)
                         ELSE Policy.cooldown429Default
  <1>1. reset \in HealthRecords
    BY DEF HealthRecords
  <1>2. HalveCap(reset, key.capMin) \in HealthRecords
    BY <1>1, HalveCapType DEF KeyLimits
  <1>3. time + cooldown \in Nat /\ "quota_429" \in Reasons
    BY PolicyType DEF Reasons, Protected
  <1> QED BY <1>2, <1>3, SetKeyCooldownType DEF RateLimited

(* So does a 401. *)
LEMMA UnauthorizedType ==
  ASSUME NEW h \in HealthRecords, NEW key, KeyLimits(key), NEW time \in Nat
  PROVE  Unauthorized(h, key, time) \in HealthRecords
  <1> DEFINE reset == [h EXCEPT !.consec2xx = 0, !.consec403 = 0, !.cap = key.capMin]
  <1>1. reset \in HealthRecords
    BY DEF HealthRecords, KeyLimits
  <1>2. time + key.auth401Cooldown \in Nat /\ "auth_401" \in Reasons
    BY DEF Reasons, Protected, KeyLimits
  <1> QED BY <1>1, <1>2, SetKeyCooldownType DEF Unauthorized

(* So does a 403 held against the whole key. *)
LEMMA ForbiddenType ==
  ASSUME NEW h \in HealthRecords, NEW time \in Nat
  PROVE  Forbidden(h, time) \in HealthRecords
  <1> DEFINE streak  == Bump(h.consec403, Policy.consecutive403Threshold)
             counted == [h EXCEPT !.consec2xx = 0, !.consec403 = streak]
  <1>1. streak \in Nat
    BY PolicyType DEF Bump, HealthRecords
  <1>2. counted \in HealthRecords
    BY <1>1 DEF HealthRecords
  <1>3. time + Policy.cooldown403 \in Nat /\ "forbidden_403" \in Reasons
    BY PolicyType DEF Reasons, Protected
  <1> QED BY <1>2, <1>3, SetKeyCooldownType DEF Forbidden

(* So does a 5xx. *)
LEMMA ServerErrorType ==
  ASSUME NEW h \in HealthRecords, NEW key, KeyLimits(key), NEW time \in Nat
  PROVE  ServerError(h, key, time) \in HealthRecords
  <1> DEFINE streak   == Bump(h.consec5xx, Policy.consecutive5xxThreshold)
             cooldown == IF streak >= Policy.consecutive5xxThreshold
                         THEN Policy.persistent5xxCooldown ELSE Policy.cooldown5xx
             counted  == [h EXCEPT !.consec2xx = 0, !.consec403 = 0, !.consec5xx = streak]
  <1>1. streak \in Nat
    BY PolicyType DEF Bump, HealthRecords
  <1>2. counted \in HealthRecords
    BY <1>1 DEF HealthRecords
  <1>3. HalveCap(counted, key.capMin) \in HealthRecords
    BY <1>2, HalveCapType DEF KeyLimits
  <1>4. time + cooldown \in Nat /\ "upstream_5xx" \in Reasons
    BY PolicyType DEF Reasons, Transient
  <1> HIDE DEF cooldown
  <1>5. SetKeyCooldown(HalveCap(counted, key.capMin), "upstream_5xx", time + cooldown)
            \in HealthRecords
    BY <1>3, <1>4, SetKeyCooldownType
  <1> QED BY <1>5 DEF ServerError, cooldown

(* So do the two outcomes held against one (key, model) pair. *)
LEMMA ModelCooldownType ==
  ASSUME NEW h \in HealthRecords, NEW m \in Models, NEW time \in Nat
  PROVE  /\ ForbiddenModel(h, m, time) \in HealthRecords
         /\ ModelMissing(h, m, time) \in HealthRecords
  <1>1. \A t \in Nat : [h.dead EXCEPT ![m] = t] \in [Models -> Nat]
    BY DEF HealthRecords
  <1>2. \A d \in [Models -> Nat] :
           /\ [h EXCEPT !.consec2xx = 0, !.consec403 = 0, !.dead = d] \in HealthRecords
           /\ [h EXCEPT !.consec2xx = 0, !.dead = d] \in HealthRecords
    BY DEF HealthRecords
  <1>3. /\ time + Policy.model403Cooldown \in Nat
        /\ time + Policy.deadModelCooldown \in Nat
        /\ h.dead[m] \in Nat
    BY PolicyType DEF HealthRecords
  <1>4. ForbiddenModel(h, m, time) \in HealthRecords
    <2> DEFINE t == time + Policy.model403Cooldown
    <2>1. t \in Nat
      BY <1>3
    <2> HIDE DEF t
    <2>2. [h EXCEPT !.consec2xx = 0, !.consec403 = 0, !.dead = [h.dead EXCEPT ![m] = t]]
              \in HealthRecords
      BY <2>1, <1>1, <1>2
    <2> QED BY <2>2 DEF ForbiddenModel, t
  <1>5. ModelMissing(h, m, time) \in HealthRecords
    <2> DEFINE t == IF h.dead[m] = 0 THEN time + Policy.deadModelCooldown ELSE h.dead[m]
    <2>1. t \in Nat
      BY <1>3
    <2> HIDE DEF t
    <2>2. [h EXCEPT !.consec2xx = 0, !.dead = [h.dead EXCEPT ![m] = t]] \in HealthRecords
      BY <2>1, <1>1, <1>2
    <2> QED BY <2>2 DEF ModelMissing, t
  <1> QED BY <1>4, <1>5

(* So does a network failure. *)
LEMMA NetworkErrorType ==
  ASSUME NEW h \in HealthRecords
  PROVE  NetworkError(h) \in HealthRecords
  BY DEF NetworkError, HealthRecords

(* An outcome keeps the health record of the key it is recorded on well formed. *)
LEMMA ApplyKeyOutcomeType ==
  ASSUME NEW h \in HealthRecords, NEW key, KeyLimits(key),
         NEW m \in Models \cup {NoModel}, NEW outcome \in Outcomes, NEW time \in Nat
  PROVE  ApplyKeyOutcome(h, key, m, outcome, time) \in HealthRecords
  <1> DEFINE status == outcome.status
             scoped == status = "403" /\ Classify403Model(key.relay, m)
             e      == CountError(h, status, scoped, time)
  <1>1. status \in Statuses /\ outcome.retryAfter \in Nat
    BY DEF Outcomes
  <1>2. scoped \in BOOLEAN
    OBVIOUS
  <1>3. e \in HealthRecords
    BY <1>1, <1>2, CountErrorType
  <1>4. scoped => m \in Models
    BY DEF Classify403Model
  <1>5. /\ Succeed(h, key, time) \in HealthRecords
        /\ RateLimited(e, key, outcome.retryAfter, time) \in HealthRecords
        /\ Unauthorized(e, key, time) \in HealthRecords
        /\ Forbidden(e, time) \in HealthRecords
        /\ ServerError(e, key, time) \in HealthRecords
        /\ NetworkError(e) \in HealthRecords
    BY <1>1, <1>3, SucceedType, RateLimitedType, UnauthorizedType, ForbiddenType,
       ServerErrorType, NetworkErrorType
  <1>6. m \in Models => /\ ForbiddenModel(e, m, time) \in HealthRecords
                        /\ ModelMissing(e, m, time) \in HealthRecords
    BY <1>3, ModelCooldownType
  <1> HIDE DEF e
  <1> QED
    BY <1>1, <1>3, <1>4, <1>5, <1>6 DEF ApplyKeyOutcome, e, Statuses

-----------------------------------------------------------------------------
(* What an outcome may do to a cooldown.                                   *)

WellReasoned(h, time) == CoolingAt(h, time) => h.reason \in Transient \cup Protected

(* g keeps every promise that h made. *)
Keeps(h, g, time) ==
    /\ g.badUntil >= h.badUntil
    /\ h.reason \in Protected => g.reason \in Protected
    /\ WellReasoned(h, time) => WellReasoned(g, time)

(* Promises kept step by step are kept. *)
LEMMA KeepsTransitive ==
  ASSUME NEW f \in HealthRecords, NEW g \in HealthRecords, NEW h \in HealthRecords,
         NEW time \in Nat, Keeps(f, g, time), Keeps(g, h, time)
  PROVE  Keeps(f, h, time)
  BY DEF Keeps, HealthRecords

(* A cooldown is never cut by setting another, whose end is reached as well. *)
LEMMA SetKeyCooldownKeeps ==
  ASSUME NEW h \in HealthRecords, NEW reason \in Transient \cup Protected,
         NEW until \in Nat, NEW time \in Nat
  PROVE  LET g == SetKeyCooldown(h, reason, until)
         IN  /\ Keeps(h, g, time)
             /\ g.badUntil >= until
             /\ reason \in Protected => g.reason \in Protected
  <1> DEFINE g == SetKeyCooldown(h, reason, until)
  <1>1. /\ g.badUntil = Larger(h.badUntil, until)
        /\ g.reason = IF h.reason \in Protected /\ reason \notin Protected
                      THEN h.reason ELSE reason
    BY DEF SetKeyCooldown, HealthRecords
  <1>2. h.badUntil \in Nat
    BY DEF HealthRecords
  <1>3. g.reason \in Transient \cup Protected
    BY <1>1
  <1>4. g.badUntil >= h.badUntil /\ g.badUntil >= until
    BY <1>1, <1>2
  <1>5. /\ h.reason \in Protected => g.reason \in Protected
        /\ reason \in Protected => g.reason \in Protected
    BY <1>1
  <1> HIDE DEF g
  <1>6. Keeps(h, g, time)
    BY <1>3, <1>4, <1>5 DEF Keeps, WellReasoned
  <1> QED BY <1>4, <1>5, <1>6 DEF g

(* Changing anything but the cooldown keeps it. *)
LEMMA SameCooldownKeeps ==
  ASSUME NEW h \in HealthRecords, NEW g \in HealthRecords, NEW time \in Nat,
         g.badUntil = h.badUntil, g.reason = h.reason
  PROVE  Keeps(h, g, time)
  BY DEF Keeps, WellReasoned, CoolingAt, HealthRecords

(* Counting a failure, and the block of a full streak, keep a cooldown. *)
LEMMA CountErrorKeeps ==
  ASSUME NEW h \in HealthRecords, NEW status \in Statuses, NEW scoped \in BOOLEAN,
         NEW time \in Nat
  PROVE  Keeps(h, CountError(h, status, scoped, time), time)
  <1> DEFINE streak  == AdvanceMixedErrorStreak(h, status, scoped)
             counted == [h EXCEPT !.consecErr = streak]
  <1>1. streak \in Nat
    BY PolicyType DEF AdvanceMixedErrorStreak, Bump, HealthRecords
  <1>2. counted \in HealthRecords /\ counted.badUntil = h.badUntil
           /\ counted.reason = h.reason
    BY <1>1 DEF HealthRecords
  <1> HIDE DEF counted
  <1>3. Keeps(h, counted, time)
    BY <1>2, SameCooldownKeeps
  <1>4. time + Policy.burstErrorCooldown \in Nat /\ "mixed_error" \in Reasons
    BY PolicyType DEF Reasons, Transient
  <1>5. LET g == SetKeyCooldown(counted, "mixed_error", time + Policy.burstErrorCooldown)
        IN  g \in HealthRecords /\ Keeps(counted, g, time)
    BY <1>2, <1>4, SetKeyCooldownKeeps, SetKeyCooldownType DEF Transient
  <1> QED BY <1>2, <1>3, <1>5, KeepsTransitive DEF CountError, counted

(* Halving the capacity leaves the cooldown alone. *)
LEMMA HalveCapKeeps ==
  ASSUME NEW h \in HealthRecords, NEW capMin \in Nat \ {0}, NEW time \in Nat
  PROVE  Keeps(h, HalveCap(h, capMin), time)
  <1>1. /\ HalveCap(h, capMin).badUntil = h.badUntil
        /\ HalveCap(h, capMin).reason = h.reason
    BY DEF HalveCap, HealthRecords
  <1> QED BY <1>1, HalveCapType, SameCooldownKeeps

(* A 429 keeps the cooldown in force and imposes its own in full. *)
LEMMA RateLimitedKeeps ==
  ASSUME NEW h \in HealthRecords, NEW key, KeyLimits(key), NEW retryAfter \in Nat,
         NEW time \in Nat
  PROVE  LET cooldown == IF retryAfter > 0
                         THEN Smaller(retryAfter, Policy.cooldown429Max)
                         ELSE Policy.cooldown429Default
             g == RateLimited(h, key, retryAfter, time)
         IN  Keeps(h, g, time) /\ g.badUntil >= time + cooldown /\ g.reason \in Protected
  <1> DEFINE reset == [h EXCEPT !.consec2xx = 0, !.consec403 = 0]
             halved == HalveCap(reset, key.capMin)
             cooldown == IF retryAfter > 0
                         THEN Smaller(retryAfter, Policy.cooldown429Max)
                         ELSE Policy.cooldown429Default
             g == SetKeyCooldown(halved, "quota_429", time + cooldown)
  <1>1. /\ reset \in HealthRecords
        /\ reset.badUntil = h.badUntil /\ reset.reason = h.reason
    BY DEF HealthRecords
  <1> HIDE DEF reset
  <1>2. halved \in HealthRecords /\ Keeps(reset, halved, time)
    BY <1>1, HalveCapType, HalveCapKeeps DEF KeyLimits
  <1> HIDE DEF halved
  <1>3. time + cooldown \in Nat /\ "quota_429" \in Protected /\ "quota_429" \in Reasons
    BY PolicyType DEF Reasons, Protected
  <1> HIDE DEF cooldown
  <1>4. /\ g \in HealthRecords /\ Keeps(halved, g, time)
        /\ g.badUntil >= time + cooldown /\ g.reason \in Protected
    BY <1>2, <1>3, SetKeyCooldownType, SetKeyCooldownKeeps
  <1> HIDE DEF g
  <1>5. Keeps(h, reset, time)
    BY <1>1, SameCooldownKeeps
  <1>6. Keeps(h, g, time)
    BY <1>1, <1>2, <1>4, <1>5, KeepsTransitive
  <1> QED BY <1>4, <1>6 DEF RateLimited, g, halved, reset, cooldown

(* So does a 401 of a vendor that has a cooldown for it. *)
LEMMA UnauthorizedKeeps ==
  ASSUME NEW h \in HealthRecords, NEW key, KeyLimits(key), NEW time \in Nat
  PROVE  LET g == Unauthorized(h, key, time)
         IN  /\ Keeps(h, g, time)
             /\ key.auth401Cooldown > 0 =>
                   g.badUntil >= time + key.auth401Cooldown /\ g.reason \in Protected
  <1> DEFINE reset == [h EXCEPT !.consec2xx = 0, !.consec403 = 0, !.cap = key.capMin]
             g == SetKeyCooldown(reset, "auth_401", time + key.auth401Cooldown)
  <1>1. /\ reset \in HealthRecords
        /\ reset.badUntil = h.badUntil /\ reset.reason = h.reason
    BY DEF HealthRecords, KeyLimits
  <1> HIDE DEF reset
  <1>2. /\ time + key.auth401Cooldown \in Nat
        /\ "auth_401" \in Protected /\ "auth_401" \in Reasons
    BY DEF Reasons, Protected, KeyLimits
  <1>3. /\ g \in HealthRecords /\ Keeps(reset, g, time)
        /\ g.badUntil >= time + key.auth401Cooldown /\ g.reason \in Protected
    BY <1>1, <1>2, SetKeyCooldownType, SetKeyCooldownKeeps
  <1> HIDE DEF g
  <1>4. Keeps(h, reset, time)
    BY <1>1, SameCooldownKeeps
  <1>5. Keeps(h, g, time)
    BY <1>1, <1>3, <1>4, KeepsTransitive
  <1> QED BY <1>3, <1>4, <1>5 DEF Unauthorized, g, reset

(* A 403 held against the whole key keeps the cooldown in force. *)
LEMMA ForbiddenKeeps ==
  ASSUME NEW h \in HealthRecords, NEW time \in Nat
  PROVE  Keeps(h, Forbidden(h, time), time)
  <1> DEFINE streak  == Bump(h.consec403, Policy.consecutive403Threshold)
             counted == [h EXCEPT !.consec2xx = 0, !.consec403 = streak]
             g == SetKeyCooldown(counted, "forbidden_403", time + Policy.cooldown403)
  <1>1. streak \in Nat
    BY PolicyType DEF Bump, HealthRecords
  <1>2. /\ counted \in HealthRecords
        /\ counted.badUntil = h.badUntil /\ counted.reason = h.reason
    BY <1>1 DEF HealthRecords
  <1> HIDE DEF counted
  <1>3. Keeps(h, counted, time)
    BY <1>2, SameCooldownKeeps
  <1>4. /\ time + Policy.cooldown403 \in Nat
        /\ "forbidden_403" \in Protected /\ "forbidden_403" \in Reasons
    BY PolicyType DEF Reasons, Protected
  <1>5. g \in HealthRecords /\ Keeps(counted, g, time)
    BY <1>2, <1>4, SetKeyCooldownType, SetKeyCooldownKeeps
  <1> HIDE DEF g
  <1>6. Keeps(h, g, time)
    BY <1>2, <1>3, <1>5, KeepsTransitive
  <1> QED BY <1>3, <1>6 DEF Forbidden, g, counted

(* So does a 5xx. *)
LEMMA ServerErrorKeeps ==
  ASSUME NEW h \in HealthRecords, NEW key, KeyLimits(key), NEW time \in Nat
  PROVE  Keeps(h, ServerError(h, key, time), time)
  <1> DEFINE streak   == Bump(h.consec5xx, Policy.consecutive5xxThreshold)
             cooldown == IF streak >= Policy.consecutive5xxThreshold
                         THEN Policy.persistent5xxCooldown ELSE Policy.cooldown5xx
             counted  == [h EXCEPT !.consec2xx = 0, !.consec403 = 0, !.consec5xx = streak]
             halved   == HalveCap(counted, key.capMin)
             g        == SetKeyCooldown(halved, "upstream_5xx", time + cooldown)
  <1>1. streak \in Nat
    BY PolicyType DEF Bump, HealthRecords
  <1>2. /\ counted \in HealthRecords
        /\ counted.badUntil = h.badUntil /\ counted.reason = h.reason
    BY <1>1 DEF HealthRecords
  <1>3. time + cooldown \in Nat /\ "upstream_5xx" \in Transient /\ "upstream_5xx" \in Reasons
    BY PolicyType DEF Reasons, Transient
  <1> HIDE DEF counted, cooldown
  <1>4. Keeps(h, counted, time)
    BY <1>2, SameCooldownKeeps
  <1>5. halved \in HealthRecords /\ Keeps(counted, halved, time)
    BY <1>2, HalveCapType, HalveCapKeeps DEF KeyLimits
  <1> HIDE DEF halved
  <1>6. g \in HealthRecords /\ Keeps(halved, g, time)
    BY <1>3, <1>5, SetKeyCooldownType, SetKeyCooldownKeeps
  <1> HIDE DEF g
  <1>7. Keeps(h, g, time)
    BY <1>2, <1>4, <1>5, <1>6, KeepsTransitive
  <1> QED BY <1>7 DEF ServerError, g, halved, counted, cooldown

(* A (key, model) cooldown leaves the cooldown of the key alone. *)
LEMMA ModelCooldownKeeps ==
  ASSUME NEW h \in HealthRecords, NEW m \in Models, NEW time \in Nat
  PROVE  /\ Keeps(h, ForbiddenModel(h, m, time), time)
         /\ Keeps(h, ModelMissing(h, m, time), time)
  <1>1. /\ ForbiddenModel(h, m, time).badUntil = h.badUntil
        /\ ForbiddenModel(h, m, time).reason = h.reason
    BY DEF ForbiddenModel, HealthRecords
  <1>2. /\ ModelMissing(h, m, time).badUntil = h.badUntil
        /\ ModelMissing(h, m, time).reason = h.reason
    BY DEF ModelMissing, HealthRecords
  <1> QED BY <1>1, <1>2, ModelCooldownType, SameCooldownKeeps

(* So does a network failure. *)
LEMMA NetworkErrorKeeps ==
  ASSUME NEW h \in HealthRecords, NEW time \in Nat
  PROVE  Keeps(h, NetworkError(h), time)
  <1>1. NetworkError(h).badUntil = h.badUntil /\ NetworkError(h).reason = h.reason
    BY DEF NetworkError, HealthRecords
  <1> QED BY <1>1, NetworkErrorType, SameCooldownKeeps

(* No failure makes a key usable earlier, or takes the protection from a    *)
(* protected cooldown; a 429 and a 401 impose theirs in full.               *)
LEMMA FailureKeeps ==
  ASSUME NEW h \in HealthRecords, NEW key, KeyLimits(key),
         NEW m \in Models \cup {NoModel}, NEW outcome \in Outcomes, NEW time \in Nat,
         outcome.status # "2xx"
  PROVE  LET g == ApplyKeyOutcome(h, key, m, outcome, time)
         IN  /\ Keeps(h, g, time)
             /\ outcome.status = "429" =>
                   /\ g.badUntil >= time + (IF outcome.retryAfter > 0
                                          THEN Smaller(outcome.retryAfter, Policy.cooldown429Max)
                                          ELSE Policy.cooldown429Default)
                   /\ g.reason \in Protected
             /\ outcome.status = "401" /\ key.auth401Cooldown > 0 =>
                   g.badUntil >= time + key.auth401Cooldown /\ g.reason \in Protected
  <1> DEFINE status == outcome.status
             scoped == status = "403" /\ Classify403Model(key.relay, m)
             e      == CountError(h, status, scoped, time)
             g      == ApplyKeyOutcome(h, key, m, outcome, time)
  <1>1. status \in Statuses /\ outcome.retryAfter \in Nat
    BY DEF Outcomes
  <1>2. e \in HealthRecords /\ Keeps(h, e, time)
    BY <1>1, CountErrorType, CountErrorKeeps
  <1> HIDE DEF e
  <1>3. CASE status = "429"
    <2>1. g = RateLimited(e, key, outcome.retryAfter, time)
      BY <1>3 DEF ApplyKeyOutcome, e
    <2>2. RateLimited(e, key, outcome.retryAfter, time) \in HealthRecords
      BY <1>1, <1>2, RateLimitedType
    <2> HIDE DEF g
    <2> QED BY <1>1, <1>2, <1>3, <2>1, <2>2, RateLimitedKeeps, KeepsTransitive DEF g
  <1>4. CASE status = "401"
    <2>1. g = Unauthorized(e, key, time)
      BY <1>4 DEF ApplyKeyOutcome, e
    <2>2. Unauthorized(e, key, time) \in HealthRecords
      BY <1>2, UnauthorizedType
    <2> HIDE DEF g
    <2> QED BY <1>2, <1>4, <2>1, <2>2, UnauthorizedKeeps, KeepsTransitive DEF g
  <1>5. CASE status \notin {"429", "401"}
    <2>1. \/ g = e
          \/ m \in Models /\ g = ForbiddenModel(e, m, time)
          \/ g = Forbidden(e, time)
          \/ g = ServerError(e, key, time)
          \/ g = NetworkError(e)
          \/ m \in Models /\ g = ModelMissing(e, m, time)
      BY <1>1, <1>5 DEF ApplyKeyOutcome, e, Statuses, Classify403Model
    <2> HIDE DEF g
    <2>2. g \in HealthRecords /\ (g = e \/ Keeps(e, g, time))
      BY <1>2, <2>1, ModelCooldownKeeps, ForbiddenKeeps, ServerErrorKeeps,
         NetworkErrorKeeps, ModelCooldownType, ForbiddenType, ServerErrorType,
         NetworkErrorType
    <2>3. Keeps(h, g, time)
      BY <1>2, <2>2, KeepsTransitive
    <2> QED BY <1>5, <2>3 DEF g
  <1> QED BY <1>3, <1>4, <1>5

(* A success never cuts a protected cooldown, however late it comes. *)
LEMMA SuccessKeepsProtected ==
  ASSUME NEW h \in HealthRecords, NEW key, KeyLimits(key),
         NEW m \in Models \cup {NoModel}, NEW outcome \in Outcomes, NEW time \in Nat,
         outcome.status = "2xx"
  PROVE  LET g == ApplyKeyOutcome(h, key, m, outcome, time)
         IN  /\ CoolingAt(h, time) /\ h.reason \in Protected =>
                   g.badUntil = h.badUntil /\ g.reason = h.reason
             /\ WellReasoned(h, time) => WellReasoned(g, time)
  <1> DEFINE calm == [h EXCEPT !.consec5xx = 0, !.consec403 = 0, !.consecErr = 0]
             rec  == RecoverTransientCooldown(calm, time)
             g    == ApplyKeyOutcome(h, key, m, outcome, time)
  <1>1. /\ calm \in HealthRecords
        /\ calm.badUntil = h.badUntil /\ calm.reason = h.reason
    BY DEF HealthRecords
  <1> HIDE DEF calm
  <1>2. rec \in HealthRecords
    BY <1>1, RecoverType
  <1>3. CoolingAt(h, time) /\ h.reason \in Protected => rec = calm
    BY <1>1 DEF RecoverTransientCooldown, CoolingAt, Protected, Transient
  <1>4. WellReasoned(h, time) => WellReasoned(rec, time)
    <2>1. CASE ~ CoolingAt(calm, time)
      <3>1. rec = [calm EXCEPT !.reason = NoReason]
        BY <2>1 DEF RecoverTransientCooldown
      <3>2. rec.badUntil = calm.badUntil
        BY <1>1, <3>1 DEF HealthRecords
      <3> QED BY <2>1, <3>2 DEF WellReasoned, CoolingAt
    <2>2. CASE CoolingAt(calm, time) /\ calm.reason \in Transient
      <3>1. rec = [calm EXCEPT !.badUntil = 0, !.reason = NoReason]
        BY <2>2 DEF RecoverTransientCooldown
      <3>2. rec.badUntil = 0
        BY <1>1, <3>1 DEF HealthRecords
      <3> QED BY <3>2 DEF WellReasoned, CoolingAt
    <2>3. CASE CoolingAt(calm, time) /\ calm.reason \notin Transient
      <3>1. rec = calm
        BY <2>3 DEF RecoverTransientCooldown
      <3> QED BY <1>1, <3>1 DEF WellReasoned, CoolingAt
    <2> QED BY <2>1, <2>2, <2>3
  <1> HIDE DEF rec
  <1>5. g = Succeed(h, key, time)
    BY DEF ApplyKeyOutcome
  <1>6. g.badUntil = rec.badUntil /\ g.reason = rec.reason
    BY <1>2, <1>5 DEF Succeed, rec, calm, HealthRecords
  <1> HIDE DEF g
  <1> QED BY <1>1, <1>3, <1>4, <1>6 DEF WellReasoned, CoolingAt, g

(* What a failure adds to the mixed-error streak; a full one blocks the key. *)
LEMMA CountErrorStreak ==
  ASSUME NEW h \in HealthRecords, NEW status \in Statuses, NEW scoped \in BOOLEAN,
         NEW time \in Nat
  PROVE  LET e == CountError(h, status, scoped, time)
         IN  /\ e.consec5xx = h.consec5xx
             /\ e.consecErr >= Policy.consecutiveErrorThreshold =>
                   e.badUntil >= time + Policy.burstErrorCooldown
  <1> DEFINE streak  == AdvanceMixedErrorStreak(h, status, scoped)
             counted == [h EXCEPT !.consecErr = streak]
             until   == time + Policy.burstErrorCooldown
             blocked == SetKeyCooldown(counted, "mixed_error", until)
             e       == CountError(h, status, scoped, time)
  <1>1. streak \in Nat
    BY PolicyType DEF AdvanceMixedErrorStreak, Bump, HealthRecords
  <1>2. e = IF streak >= Policy.consecutiveErrorThreshold THEN blocked ELSE counted
    BY DEF CountError
  <1>3. until \in Nat
    BY PolicyType
  <1> HIDE DEF streak, until, e
  <1>4. /\ counted \in HealthRecords /\ counted.consec5xx = h.consec5xx
        /\ counted.consecErr = streak
    BY <1>1 DEF HealthRecords
  <1> HIDE DEF counted
  <1>5. /\ blocked.consec5xx = counted.consec5xx
        /\ blocked.badUntil = Larger(counted.badUntil, until)
        /\ counted.badUntil \in Nat
    BY <1>4 DEF SetKeyCooldown, HealthRecords
  <1> HIDE DEF blocked
  <1> QED BY <1>2, <1>3, <1>4, <1>5 DEF until, e

(* A 5xx keeps the mixed-error streak, and a full 5xx streak blocks longer. *)
LEMMA ServerErrorStreak ==
  ASSUME NEW h \in HealthRecords, NEW key, KeyLimits(key), NEW time \in Nat
  PROVE  LET g == ServerError(h, key, time)
         IN  /\ g.consecErr = h.consecErr
             /\ g.consec5xx >= Policy.consecutive5xxThreshold =>
                   g.badUntil >= time + Policy.persistent5xxCooldown
  <1> DEFINE streak   == Bump(h.consec5xx, Policy.consecutive5xxThreshold)
             cooldown == IF streak >= Policy.consecutive5xxThreshold
                         THEN Policy.persistent5xxCooldown ELSE Policy.cooldown5xx
             counted  == [h EXCEPT !.consec2xx = 0, !.consec403 = 0, !.consec5xx = streak]
             halved   == HalveCap(counted, key.capMin)
             g        == ServerError(h, key, time)
  <1>1. streak \in Nat
    BY PolicyType DEF Bump, HealthRecords
  <1>2. cooldown \in Nat /\ time + cooldown \in Nat
    BY PolicyType
  <1>3. /\ streak >= Policy.consecutive5xxThreshold =>
              cooldown = Policy.persistent5xxCooldown
    OBVIOUS
  <1>4. g = SetKeyCooldown(halved, "upstream_5xx", time + cooldown)
    BY DEF ServerError
  <1> HIDE DEF streak, cooldown, g
  <1>5. /\ counted \in HealthRecords
        /\ counted.consec5xx = streak /\ counted.consecErr = h.consecErr
    BY <1>1 DEF HealthRecords
  <1> HIDE DEF counted
  <1>6. halved \in HealthRecords
    BY <1>5, HalveCapType DEF KeyLimits
  <1>7. halved.consec5xx = streak /\ halved.consecErr = h.consecErr
    BY <1>5 DEF HalveCap, HealthRecords
  <1> HIDE DEF halved
  <1>8. /\ g.consec5xx = streak /\ g.consecErr = h.consecErr
        /\ g.badUntil = Larger(halved.badUntil, time + cooldown)
        /\ halved.badUntil \in Nat
    BY <1>4, <1>6, <1>7 DEF SetKeyCooldown, HealthRecords
  <1> QED BY <1>2, <1>3, <1>8 DEF g

(* The block that a standing streak imposes is in force after the failure.  *)
LEMMA FailureStreak ==
  ASSUME NEW h \in HealthRecords, NEW key, KeyLimits(key),
         NEW m \in Models \cup {NoModel}, NEW outcome \in Outcomes, NEW time \in Nat,
         outcome.status \in {"5xx", "401", "403", "404", "other"}
  PROVE  LET g == ApplyKeyOutcome(h, key, m, outcome, time)
         IN  /\ g.consecErr >= Policy.consecutiveErrorThreshold =>
                   g.badUntil >= time + Policy.burstErrorCooldown
             /\ outcome.status = "5xx" /\ g.consec5xx >= Policy.consecutive5xxThreshold =>
                   g.badUntil >= time + Policy.persistent5xxCooldown
  <1> DEFINE status == outcome.status
             scoped == status = "403" /\ Classify403Model(key.relay, m)
             e      == CountError(h, status, scoped, time)
             g      == ApplyKeyOutcome(h, key, m, outcome, time)
  <1>1. status \in Statuses /\ scoped \in BOOLEAN
    BY DEF Outcomes
  <1>2. /\ e \in HealthRecords
        /\ e.consecErr >= Policy.consecutiveErrorThreshold =>
              e.badUntil >= time + Policy.burstErrorCooldown
    BY <1>1, CountErrorType, CountErrorStreak
  <1>3. Policy.burstErrorCooldown \in Nat
    BY PolicyType
  <1>4. ASSUME NEW f \in HealthRecords, g = f, f.consecErr = e.consecErr, Keeps(e, f, time)
        PROVE  g.consecErr >= Policy.consecutiveErrorThreshold =>
                  g.badUntil >= time + Policy.burstErrorCooldown
    <2> HIDE DEF g, e
    <2>1. e.badUntil \in Nat /\ f.badUntil \in Nat /\ f.badUntil >= e.badUntil
      BY <1>2, <1>4 DEF Keeps, HealthRecords
    <2> QED BY <1>2, <1>3, <1>4, <2>1
  <1>5. CASE status = "5xx"
    <2>1. g = ServerError(e, key, time)
      BY <1>5 DEF ApplyKeyOutcome
    <2> HIDE DEF g, e
    <2>2. /\ ServerError(e, key, time) \in HealthRecords
          /\ Keeps(e, ServerError(e, key, time), time)
          /\ ServerError(e, key, time).consecErr = e.consecErr
          /\ ServerError(e, key, time).consec5xx >= Policy.consecutive5xxThreshold =>
                ServerError(e, key, time).badUntil >= time + Policy.persistent5xxCooldown
      BY <1>2, ServerErrorType, ServerErrorKeeps, ServerErrorStreak
    <2> QED BY <1>4, <2>1, <2>2 DEF g
  <1>6. CASE status # "5xx"
    <2>1. \/ g = e
          \/ g = Unauthorized(e, key, time)
          \/ m \in Models /\ g = ForbiddenModel(e, m, time)
          \/ g = Forbidden(e, time)
          \/ m \in Models /\ g = ModelMissing(e, m, time)
      BY <1>1, <1>6 DEF ApplyKeyOutcome, Classify403Model
    <2> HIDE DEF g, e
    <2>2. CASE g = e
      <3>1. g.consecErr >= Policy.consecutiveErrorThreshold =>
               g.badUntil >= time + Policy.burstErrorCooldown
        BY <1>2, <2>2
      <3> QED BY <1>6, <3>1 DEF g
    <2>3. CASE g = Unauthorized(e, key, time)
      <3>1. Unauthorized(e, key, time) \in HealthRecords /\ Keeps(e, g, time)
        BY <1>2, <2>3, UnauthorizedType, UnauthorizedKeeps
      <3>2. g.consecErr = e.consecErr
        BY <1>2, <2>3 DEF Unauthorized, SetKeyCooldown, HealthRecords
      <3> QED BY <1>4, <1>6, <2>3, <3>1, <3>2 DEF g
    <2>4. CASE m \in Models /\ g = ForbiddenModel(e, m, time)
      <3>1. ForbiddenModel(e, m, time) \in HealthRecords /\ Keeps(e, g, time)
        BY <1>2, <2>4, ModelCooldownType, ModelCooldownKeeps
      <3>2. g.consecErr = e.consecErr
        BY <1>2, <2>4 DEF ForbiddenModel, HealthRecords
      <3> QED BY <1>4, <1>6, <2>4, <3>1, <3>2 DEF g
    <2>5. CASE g = Forbidden(e, time)
      <3>1. Forbidden(e, time) \in HealthRecords /\ Keeps(e, g, time)
        BY <1>2, <2>5, ForbiddenType, ForbiddenKeeps
      <3>2. g.consecErr = e.consecErr
        BY <1>2, <2>5 DEF Forbidden, SetKeyCooldown, HealthRecords
      <3> QED BY <1>4, <1>6, <2>5, <3>1, <3>2 DEF g
    <2>6. CASE m \in Models /\ g = ModelMissing(e, m, time)
      <3>1. ModelMissing(e, m, time) \in HealthRecords /\ Keeps(e, g, time)
        BY <1>2, <2>6, ModelCooldownType, ModelCooldownKeeps
      <3>2. g.consecErr = e.consecErr
        BY <1>2, <2>6 DEF ModelMissing, HealthRecords
      <3> QED BY <1>4, <1>6, <2>6, <3>1, <3>2 DEF g
    <2> QED BY <1>6, <2>1, <2>2, <2>3, <2>4, <2>5, <2>6
  <1> QED BY <1>5, <1>6

(* A success ends both error streaks, and lifts a cooldown or leaves it.    *)
LEMMA SuccessCalms ==
  ASSUME NEW h \in HealthRecords, NEW key, KeyLimits(key), NEW time \in Nat
  PROVE  LET g == Succeed(h, key, time)
         IN  /\ g.consec5xx = 0 /\ g.consecErr = 0
             /\ g.badUntil = h.badUntil \/ g.badUntil = 0
  <1> DEFINE calm == [h EXCEPT !.consec5xx = 0, !.consec403 = 0, !.consecErr = 0]
             rec  == RecoverTransientCooldown(calm, time)
             g    == Succeed(h, key, time)
  <1>1. /\ calm \in HealthRecords /\ calm.badUntil = h.badUntil
        /\ calm.consec5xx = 0 /\ calm.consecErr = 0
    BY DEF HealthRecords
  <1>2. /\ g.consec5xx = rec.consec5xx /\ g.consecErr = rec.consecErr
        /\ g.badUntil = rec.badUntil
    <2>1. rec \in HealthRecords
      BY <1>1, RecoverType
    <2> QED BY <2>1 DEF Succeed, HealthRecords
  <1> HIDE DEF calm
  <1>3. /\ rec.consec5xx = 0 /\ rec.consecErr = 0
        /\ rec.badUntil = calm.badUntil \/ rec.badUntil = 0
    <2>1. CASE ~ CoolingAt(calm, time)
      BY <1>1, <2>1 DEF RecoverTransientCooldown, HealthRecords
    <2>2. CASE CoolingAt(calm, time) /\ calm.reason \in Transient
      BY <1>1, <2>2 DEF RecoverTransientCooldown, HealthRecords
    <2>3. CASE CoolingAt(calm, time) /\ calm.reason \notin Transient
      BY <1>1, <2>3 DEF RecoverTransientCooldown
    <2> QED BY <2>1, <2>2, <2>3
  <1> QED BY <1>1, <1>2, <1>3

-----------------------------------------------------------------------------
(***************************************************************************)
(* The types of the pool's state.                                          *)
(***************************************************************************)

(* Type correctness.                                                       *)

(* What the configuration says of one key. *)
LEMMA PoolKeyType ==
  ASSUME NEW k \in Keys
  PROVE  /\ KeyLimits(Pool[k])
         /\ Pool[k] \in KeyConfigs
         /\ Pool[k].capInitial \in Nat \ {0}
         /\ Pool[k].vendor \in Vendors
         /\ Pool[k].rate \in RatePolicies
  BY KeyPoolAssumption DEF KeyConfigs, KeyLimits

(* Recording a start leaves a well-formed rate-limit state. *)
LEMMA ConsumeRateType ==
  ASSUME NEW s \in RateStates, NEW policy \in RatePolicies, NEW t \in Nat
  PROVE  ConsumeRate(s, policy, t) \in RateStates
  <1>1. WindowStart(t) \in Nat /\ WindowCount(s, t) + 1 \in Nat
    BY MinuteAssumption DEF WindowStart, WindowCount, RateStates
  <1> QED BY <1>1 DEF ConsumeRate, RateStates, RatePolicies

(* Forgetting an expired entry, observing a label and listing candidates. *)
LEMMA ReaderType ==
  ASSUME TypeOK, NEW k \in Keys
  PROVE  /\ \A m : ForgetExpired(health[k], m) \in HealthRecords
         /\ ObserveReason(health[k], now) \in HealthRecords
         /\ \A candidates : Listed(candidates)[k] \in HealthRecords
  <1>1. health[k] \in HealthRecords
    BY DEF TypeOK
  <1>2. \A m : ForgetExpired(health[k], m) \in HealthRecords
    <2> SUFFICES ASSUME NEW m, m \in Models, health[k].dead[m] <= now
                 PROVE  ForgetExpired(health[k], m) \in HealthRecords
      BY <1>1 DEF ForgetExpired
    <2> DEFINE d == [health[k].dead EXCEPT ![m] = 0]
    <2>1. d \in [Models -> Nat]
      BY <1>1 DEF HealthRecords
    <2>2. ForgetExpired(health[k], m) = [health[k] EXCEPT !.dead = d]
      BY <1>1 DEF ForgetExpired, HealthRecords
    <2> HIDE DEF d
    <2> QED BY <1>1, <2>1, <2>2 DEF HealthRecords
  <1>3. ObserveReason(health[k], now) \in HealthRecords
    BY <1>1 DEF ObserveReason, HealthRecords, Reasons
  <1>4. ASSUME NEW candidates
        PROVE  Listed(candidates)[k] \in HealthRecords
    <2> DEFINE o == ObserveReason(health[k], now)
               served == {m \in Pool[k].logical \cap candidates : Governed(m)}
               d == [m \in Models |-> IF m \in served /\ o.dead[m] <= now
                                      THEN 0 ELSE o.dead[m]]
    <2>1. d \in [Models -> Nat]
      BY <1>3 DEF HealthRecords
    <2>2. Listed(candidates)[k] = IF served = {} THEN health[k] ELSE [o EXCEPT !.dead = d]
      BY DEF Listed
    <2> HIDE DEF d, o
    <2> QED BY <1>1, <1>3, <2>1, <2>2 DEF HealthRecords, o
  <1> QED BY <1>2, <1>3, <1>4

(* A key that has served nothing yet. *)
LEMMA FreshHealthType == FreshHealth \in [Keys -> HealthRecords]
  <1>1. \A k \in Keys : CreateInitialKeyState(Pool[k].capInitial) \in HealthRecords
    BY PoolKeyType DEF CreateInitialKeyState, HealthRecords, Reasons
  <1> QED BY <1>1 DEF FreshHealth

(* The record an outcome leaves, and the one the file or a fresh start gives. *)
LEMMA WriterType ==
  ASSUME TypeOK, NEW k \in Keys
  PROVE  /\ \A m \in Models \cup {NoModel}, outcome \in Outcomes :
               AfterOutcome(k, m, outcome) \in HealthRecords
         /\ ReconcileQuotaOpen(health[k], Pool[k].capInitial) \in HealthRecords
         /\ FreshHealth[k] \in HealthRecords
         /\ ExportCooldown(health[k], now) \in CooldownRecords
         /\ \A record \in CooldownRecords, later \in Nat :
               ApplyCooldown(FreshHealth[k], record, later) \in HealthRecords
  <1>1. health[k] \in HealthRecords /\ now \in Nat
    BY DEF TypeOK, Times
  <1>2. ASSUME NEW m \in Models \cup {NoModel}, NEW outcome \in Outcomes
        PROVE  AfterOutcome(k, m, outcome) \in HealthRecords
    <2>1. "proxy_transport" \in Reasons /\ now + Policy.proxyCooldown \in Nat
      BY <1>1, PolicyType DEF Reasons, Protected
    <2>2. AfterProxy(k, outcome) \in HealthRecords
      BY <1>1, <2>1, SetKeyCooldownType DEF AfterProxy
    <2> QED BY <1>1, <2>2, PoolKeyType, ApplyKeyOutcomeType DEF AfterOutcome
  <1>3. ReconcileQuotaOpen(health[k], Pool[k].capInitial) \in HealthRecords
    BY <1>1, PoolKeyType DEF ReconcileQuotaOpen, HealthRecords, Reasons
  <1>4. FreshHealth[k] \in HealthRecords
    BY FreshHealthType
  <1>5. ExportCooldown(health[k], now) \in CooldownRecords
    BY <1>1 DEF ExportCooldown, NoRecord, CooldownRecords, HealthRecords, Reasons
  <1>6. ASSUME NEW record \in CooldownRecords, NEW later \in Nat
        PROVE  ApplyCooldown(FreshHealth[k], record, later) \in HealthRecords
    BY <1>4, SetKeyCooldownType DEF ApplyCooldown, CooldownRecords, Reasons
  <1> QED BY <1>2, <1>3, <1>4, <1>5, <1>6

(* Counting a model slot in or out, and giving a lease back. *)
LEMMA SlotType ==
  ASSUME TypeOK
  PROVE  /\ \A k \in Keys, m \in Models \cup {NoModel} :
               /\ ModelSlotsAfterAcquire(k, m) \in [Models -> Nat]
               /\ ModelSlotsAfterRelease(k, m) \in [Models -> Nat]
         /\ \A r \in Requests, k \in Keys, m \in Models \cup {NoModel} :
               TakeSlot(r, k, m) =>
                  /\ inflight' \in [Keys -> Nat]
                  /\ modelInflight' \in [Models -> Nat]
                  /\ rate' \in [Keys -> RateStates]
                  /\ keyCursor' \in Keys
                  /\ holder' \in [Requests -> Leases \cup {NoLease}]
         /\ \A r \in Requests : holder[r] # NoLease /\ ReleaseKeyCapacityOnly(r) =>
               /\ holder[r] \in Leases
               /\ inflight' \in [Keys -> Nat]
               /\ modelInflight' \in [Models -> Nat]
               /\ holder' \in [Requests -> Leases \cup {NoLease}]
  <1>1. ASSUME NEW k \in Keys, NEW m \in Models \cup {NoModel}
        PROVE  /\ ModelSlotsAfterAcquire(k, m) \in [Models -> Nat]
               /\ ModelSlotsAfterRelease(k, m) \in [Models -> Nat]
    <2>1. TracksModelSlot(k, m) => m \in Models
      BY DEF TracksModelSlot, Governed
    <2> QED BY <2>1 DEF TypeOK, ModelSlotsAfterAcquire, ModelSlotsAfterRelease, Larger
  <1>2. ASSUME NEW r \in Requests, NEW k \in Keys, NEW m \in Models \cup {NoModel},
               TakeSlot(r, k, m)
        PROVE  /\ inflight' \in [Keys -> Nat]
               /\ modelInflight' \in [Models -> Nat]
               /\ rate' \in [Keys -> RateStates]
               /\ keyCursor' \in Keys
               /\ holder' \in [Requests -> Leases \cup {NoLease}]
    <2>1. ConsumeRate(rate[k], Pool[k].rate, now) \in RateStates
      BY PoolKeyType, ConsumeRateType DEF TypeOK, Times
    <2>2. (k + 1) % NumKeys \in Keys
      BY KeyPoolAssumption DEF Keys
    <2>3. [key |-> k, model |-> m] \in Leases
      BY DEF Leases
    <2>4. inflight' \in [Keys -> Nat]
      BY <1>2 DEF TakeSlot, TypeOK
    <2>5. rate' \in [Keys -> RateStates]
      BY <1>2, <2>1 DEF TakeSlot, TypeOK
    <2>6. holder' \in [Requests -> Leases \cup {NoLease}]
      BY <1>2, <2>3 DEF TakeSlot, TypeOK
    <2> QED BY <1>1, <1>2, <2>2, <2>4, <2>5, <2>6 DEF TakeSlot
  <1>3. ASSUME NEW r \in Requests, holder[r] # NoLease, ReleaseKeyCapacityOnly(r)
        PROVE  /\ holder[r] \in Leases
               /\ inflight' \in [Keys -> Nat]
               /\ modelInflight' \in [Models -> Nat]
               /\ holder' \in [Requests -> Leases \cup {NoLease}]
    <2>1. holder[r] \in Leases
      BY <1>3 DEF TypeOK
    <2>2. holder[r].key \in Keys /\ holder[r].model \in Models \cup {NoModel}
      BY <2>1 DEF Leases
    <2>3. inflight' \in [Keys -> Nat]
      BY <1>3, <2>2 DEF ReleaseKeyCapacityOnly, TypeOK, Larger
    <2>4. holder' \in [Requests -> Leases \cup {NoLease}]
      BY <1>3 DEF ReleaseKeyCapacityOnly, TypeOK
    <2> QED BY <1>1, <1>3, <2>1, <2>2, <2>3, <2>4 DEF ReleaseKeyCapacityOnly
  <1> QED BY <1>1, <1>2, <1>3

(* A selection only ever takes a key of the pool. *)
LEMMA AcquireType == TypeOK /\ Acquire => TypeOK'
  <1> SUFFICES ASSUME TypeOK, NEW r \in Requests,
                      \/ \E v \in Vendors, m \in Asked : \E open \in SUBSET KeysOf(v) :
                            PickKeyAndAcquire(r, v, m, open)
                      \/ \E candidates \in SUBSET Models : LogicalAcquire(r, candidates)
               PROVE  TypeOK'
    BY DEF Acquire
  <1>1. ASSUME NEW v \in Vendors, NEW m \in Asked, NEW open \in SUBSET KeysOf(v),
               PickKeyAndAcquire(r, v, m, open)
        PROVE  TypeOK'
    <2> DEFINE S == {j \in Keys : Eligible(j, v, m, open)}
    <2>1. PICK k \in Choice(S, v) :
             /\ TakeSlot(r, k, m)
             /\ health' = [j \in Keys |->
                              IF j \in Probed(k, v) /\ Passes(j, v, open)
                              THEN ForgetExpired(health[j], m) ELSE health[j]]
      BY <1>1 DEF PickKeyAndAcquire
    <2>2. k \in Keys
      BY DEF Choice, Nearest, Heaviest
    <2>3. m \in Models \cup {NoModel}
      BY KeyPoolAssumption
    <2>4. health' \in [Keys -> HealthRecords]
      BY <2>1, ReaderType DEF TypeOK
    <2> QED BY <1>1, <2>1, <2>2, <2>3, <2>4, SlotType DEF TypeOK, PickKeyAndAcquire, disk
  <1>2. ASSUME NEW candidates \in SUBSET Models, LogicalAcquire(r, candidates)
        PROVE  TypeOK'
    <2>1. PICK k \in Keys, m \in candidates : TakeSlot(r, k, m)
      BY <1>2 DEF LogicalAcquire
    <2>2. health' \in [Keys -> HealthRecords]
      <3>1. health' = Listed(candidates)
        BY <1>2 DEF LogicalAcquire
      <3> QED BY <3>1, ReaderType DEF Listed
    <2> QED BY <1>2, <2>1, <2>2, SlotType DEF TypeOK, LogicalAcquire, disk
  <1> QED BY <1>1, <1>2

(* Every outcome is recorded on the key of the lease it ends. *)
LEMMA FinishType == TypeOK /\ Finish => TypeOK'
  <1> SUFFICES ASSUME TypeOK, NEW r \in Requests,
                      \/ \E outcome \in Outcome : ReleaseKey(r, outcome)
                      \/ CancelAttempt(r)
               PROVE  TypeOK'
    BY DEF Finish
  <1>1. ASSUME NEW outcome \in Outcome, ReleaseKey(r, outcome)
        PROVE  TypeOK'
    <2> DEFINE k == holder[r].key
               h == AfterOutcome(k, holder[r].model, outcome)
    <2>1. holder[r] # NoLease /\ ReleaseKeyCapacityOnly(r)
      BY <1>1 DEF ReleaseKey
    <2>2. k \in Keys /\ holder[r].model \in Models \cup {NoModel}
      BY <2>1, SlotType DEF Leases
    <2>3. h \in HealthRecords
      BY <2>2, WriterType, KeyPoolAssumption
    <2>4. health' = [health EXCEPT ![k] = h]
      BY <1>1 DEF ReleaseKey
    <2>5. persistDue' \in Nat
      BY <1>1, KeyPoolAssumption DEF ReleaseKey, SchedulePersist, TypeOK, Times
    <2>6. health' \in [Keys -> HealthRecords]
      BY <2>2, <2>3, <2>4 DEF TypeOK
    <2> QED BY <1>1, <2>1, <2>5, <2>6, SlotType DEF TypeOK, ReleaseKey
  <1>2. ASSUME CancelAttempt(r)
        PROVE  TypeOK'
    BY <1>2, SlotType DEF TypeOK, CancelAttempt, disk
  <1> QED BY <1>1, <1>2

(* The readers, the timers, a reopened quota and a reload. *)
LEMMA MaintainType == TypeOK /\ Maintain => TypeOK'
  <1> SUFFICES ASSUME TypeOK, Maintain PROVE TypeOK'
    OBVIOUS
  <1>1. ASSUME NEW candidates \in SUBSET Models, ListDeployments(candidates)
        PROVE  TypeOK'
    <2>1. health' = Listed(candidates)
      BY <1>1 DEF ListDeployments
    <2>2. health' \in [Keys -> HealthRecords]
      BY <2>1, ReaderType DEF Listed
    <2> QED BY <1>1, <2>2 DEF TypeOK, ListDeployments, disk
  <1>2. ASSUME KeyPoolStatus
        PROVE  TypeOK'
    <2>1. health' \in [Keys -> HealthRecords]
      BY <1>2, ReaderType DEF KeyPoolStatus
    <2> QED BY <1>2, <2>1 DEF TypeOK, KeyPoolStatus, disk
  <1>3. ASSUME NEW k \in Keys, QuotaReopened(k)
        PROVE  TypeOK'
    <2>1. health' \in [Keys -> HealthRecords]
      BY <1>3, WriterType DEF QuotaReopened, TypeOK
    <2> QED BY <1>3, <2>1 DEF TypeOK, QuotaReopened, disk
  <1>4. ASSUME NEW ok \in WriteResults, PersistTimer(ok) \/ SafetyNetTimer(ok)
        PROVE  TypeOK'
    <2>1. ok \in BOOLEAN
      BY KeyPoolAssumption
    <2>2. PersistKeyCooldowns(ok)
      BY <1>4 DEF PersistTimer, SafetyNetTimer
    <2>3. file' \in [Keys -> CooldownRecords]
      BY <2>2, WriterType DEF PersistKeyCooldowns, ExportCooldownRecords, TypeOK
    <2>4. netDue' \in Nat
      BY <1>4, KeyPoolAssumption DEF PersistTimer, SafetyNetTimer, TypeOK, Times
    <2>5. UNCHANGED <<now, pool>>
      BY <1>4 DEF PersistTimer, SafetyNetTimer
    <2> QED BY <2>1, <2>2, <2>3, <2>4, <2>5 DEF TypeOK, PersistKeyCooldowns, pool
  <1>5. ASSUME NEW changed \in SUBSET Keys, ActivateGeneration(changed)
        PROVE  TypeOK'
    <2> DEFINE resized(k) ==
            [health[k] EXCEPT !.cap = Larger(Pool[k].capMin, Smaller(Pool[k].capMax, @))]
    <2>1. ASSUME NEW k \in Keys
          PROVE  resized(k) \in HealthRecords
      <3>1. Larger(Pool[k].capMin, Smaller(Pool[k].capMax, health[k].cap)) \in Nat \ {0}
        BY PoolKeyType DEF TypeOK, HealthRecords, Larger, Smaller, KeyLimits
      <3> QED BY <3>1 DEF TypeOK, HealthRecords
    <2>2. health' = [k \in Keys |-> IF k \in changed THEN FreshHealth[k] ELSE resized(k)]
      BY <1>5 DEF ActivateGeneration
    <2> HIDE DEF resized
    <2>3. health' \in [Keys -> HealthRecords]
      BY <2>1, <2>2, WriterType
    <2>4. rate' \in [Keys -> RateStates] /\ file' \in [Keys -> CooldownRecords]
      BY <1>5 DEF ActivateGeneration, TypeOK, InitialRate, RateStates, NoRecord,
                  CooldownRecords, Reasons
    <2> QED BY <1>5, <2>3, <2>4 DEF TypeOK, ActivateGeneration
  <1> QED BY <1>1, <1>2, <1>3, <1>4, <1>5 DEF Maintain

(* A new process starts from a well-formed file. *)
LEMMA RestartType == TypeOK /\ Restart => TypeOK'
  <1> SUFFICES ASSUME TypeOK, NEW later \in now .. MaxTime,
                      Crash(later) \/ \E ok \in WriteResults : Shutdown(ok, later)
               PROVE  TypeOK'
    BY DEF Restart
  <1>1. later \in Times /\ later \in Nat
    BY KeyPoolAssumption DEF TypeOK, Times
  <1>2. PICK records \in [Keys -> CooldownRecords] : StartFrom(records, later)
    BY WriterType DEF Crash, Shutdown, ExportCooldownRecords, TypeOK
  <1>3. health' \in [Keys -> HealthRecords]
    BY <1>1, <1>2, WriterType DEF StartFrom
  <1>4. 0 \in Keys
    BY KeyPoolAssumption DEF Keys
  <1>5. rate' \in [Keys -> RateStates]
    BY <1>2 DEF StartFrom, InitialRate, RateStates
  <1> QED BY <1>1, <1>2, <1>3, <1>4, <1>5, KeyPoolAssumption DEF TypeOK, StartFrom

(* The state of the pool is always one its readers are written for. *)
THEOREM TypeCorrect == Spec => []TypeOK
  <1>1. Init => TypeOK
    <2> SUFFICES ASSUME Init PROVE TypeOK
      OBVIOUS
    <2>1. health \in [Keys -> HealthRecords]
      BY FreshHealthType DEF Init
    <2>2. now \in Times /\ 0 \in Keys
      BY KeyPoolAssumption DEF Init, Times, Keys
    <2>3. /\ rate \in [Keys -> RateStates]
          /\ file \in [Keys -> CooldownRecords]
      BY DEF Init, InitialRate, RateStates, NoRecord, CooldownRecords, Reasons
    <2> QED BY <2>1, <2>2, <2>3, KeyPoolAssumption DEF TypeOK, Init
  <1>2. TypeOK /\ [Next]_vars => TypeOK'
    <2> SUFFICES ASSUME TypeOK, [Next]_vars PROVE TypeOK'
      OBVIOUS
    <2>1. CASE Tick
      BY <2>1, KeyPoolAssumption DEF TypeOK, Tick, Times, pool, disk
    <2>2. CASE UNCHANGED vars
      BY <2>2 DEF TypeOK, vars
    <2> QED BY <2>1, <2>2, AcquireType, FinishType, MaintainType, RestartType DEF Next
  <1> QED BY <1>1, <1>2, PTL DEF Spec

-----------------------------------------------------------------------------
(***************************************************************************)
(* The slots.  Only four kinds of step touch a slot (SlotStep): one is     *)
(* taken, one is given back, all are (a restart), or none.  The invariant  *)
(* SlotInv is shown for these four; it adds to the counters' exactness that *)
(* a vendor's load, which the code sums over its keys, is the number of    *)
(* requests that hold a lease of the vendor.                               *)
(***************************************************************************)

(* The slots of a set of keys, as a set.                                   *)

SlotSet(f, K) == UNION {{k} \X (1 .. f[k]) : k \in K}

(* Taking a slot of a key adds one slot to every set of keys it is in. *)
LEMMA SlotSetTake ==
  ASSUME NEW K \in SUBSET Keys, NEW f \in [Keys -> Nat], NEW k \in Keys,
         NEW g \in [Keys -> Nat], g[k] = f[k] + 1, \A j \in Keys \ {k} : g[j] = f[j]
  PROVE  /\ k \in K => /\ SlotSet(g, K) = SlotSet(f, K) \cup {<<k, f[k] + 1>>}
                       /\ <<k, f[k] + 1>> \notin SlotSet(f, K)
         /\ k \notin K => SlotSet(g, K) = SlotSet(f, K)
  <1>1. ASSUME k \in K
        PROVE  /\ SlotSet(g, K) = SlotSet(f, K) \cup {<<k, f[k] + 1>>}
               /\ <<k, f[k] + 1>> \notin SlotSet(f, K)
    <2>1. ASSUME NEW x
          PROVE  x \in SlotSet(g, K) <=> x \in SlotSet(f, K) \/ x = <<k, f[k] + 1>>
      <3>1. \A i : i \in 1 .. g[k] <=> i \in 1 .. f[k] \/ i = f[k] + 1
        OBVIOUS
      <3>2. x \in SlotSet(g, K) <=> \E j \in K : \E i \in 1 .. g[j] : x = <<j, i>>
        BY DEF SlotSet
      <3>3. x \in SlotSet(f, K) <=> \E j \in K : \E i \in 1 .. f[j] : x = <<j, i>>
        BY DEF SlotSet
      <3>4. x = <<k, f[k] + 1>> => \E j \in K : \E i \in 1 .. g[j] : x = <<j, i>>
        BY <1>1, <3>1
      <3>5. \A j \in K : \A i : i \in 1 .. g[j] =>
               i \in 1 .. f[j] \/ (j = k /\ i = f[k] + 1)
        BY <3>1
      <3>6. \A j \in K : \A i : i \in 1 .. f[j] => i \in 1 .. g[j]
        BY <3>1
      <3> QED BY <1>1, <3>2, <3>3, <3>4, <3>5, <3>6
    <2>2. <<k, f[k] + 1>> \notin SlotSet(f, K)
      <3>1. f[k] + 1 \notin 1 .. f[k]
        OBVIOUS
      <3> QED BY <3>1 DEF SlotSet
    <2> QED BY <2>1, <2>2
  <1>2. ASSUME k \notin K
        PROVE  SlotSet(g, K) = SlotSet(f, K)
    <2>1. \A j \in K : {j} \X (1 .. g[j]) = {j} \X (1 .. f[j])
      BY <1>2
    <2> QED BY <2>1 DEF SlotSet
  <1> QED BY <1>1, <1>2

-----------------------------------------------------------------------------
(* The invariant.                                                          *)

HoldersIn(h, L) == {r \in Requests : h[r] \in L}

KeyLeases(k)    == {l \in Leases : l.key = k}
ModelLeases(m)  == {l \in Leases : l.model = m /\ TracksModelSlot(l.key, m)}
VendorLeases(v) == {l \in Leases : l.key \in KeysOf(v)}

VendorLoadExact(v) ==
    /\ IsFiniteSet(VendorSlots(v))
    /\ Cardinality(VendorSlots(v)) = Cardinality(HoldersIn(holder, VendorLeases(v)))

SlotInv ==
    /\ TypeOK
    /\ SlotsMatchHolders
    /\ \A v \in Vendors : VendorLoadExact(v)
    /\ CeilingsHold

(* The two sets of holders that the model names, now and after a step. *)
LEMMA HoldersByLease ==
    /\ \A k : HoldersOf(k) = HoldersIn(holder, KeyLeases(k))
    /\ \A k : HoldersOf(k)' = HoldersIn(holder', KeyLeases(k))
    /\ \A m : CountedHolders(m) = HoldersIn(holder, ModelLeases(m))
    /\ \A m : CountedHolders(m)' = HoldersIn(holder', ModelLeases(m))
  BY DEF HoldersOf, CountedHolders, HoldersIn, KeyLeases, ModelLeases, TracksModelSlot,
         Governed

(* The holders of anything are finitely many. *)
LEMMA HoldersFinite ==
  ASSUME NEW h, NEW L
  PROVE  IsFiniteSet(HoldersIn(h, L)) /\ Cardinality(HoldersIn(h, L)) \in Nat
  <1>1. IsFiniteSet(HoldersIn(h, L))
    BY KeyPoolAssumption, FS_Subset DEF HoldersIn
  <1> QED BY <1>1, FS_CardinalityType

(* One more lease of a set of leases, one more holder of it. *)
LEMMA HoldersTake ==
  ASSUME NEW h \in [Requests -> Leases \cup {NoLease}], NEW r \in Requests,
         NEW l \in Leases, h[r] = NoLease, NEW L \in SUBSET Leases,
         NEW g \in [Requests -> Leases \cup {NoLease}], g[r] = l,
         \A q \in Requests \ {r} : g[q] = h[q]
  PROVE  Cardinality(HoldersIn(g, L)) =
            IF l \in L THEN Cardinality(HoldersIn(h, L)) + 1 ELSE Cardinality(HoldersIn(h, L))
  <1> DEFINE S == HoldersIn(h, L)
             T == HoldersIn(g, L)
  <1>1. r \notin S
    BY NoLeaseAssumption DEF HoldersIn
  <1>2. T = IF l \in L THEN S \cup {r} ELSE S
    BY <1>1 DEF HoldersIn
  <1>3. IsFiniteSet(S)
    BY HoldersFinite
  <1> HIDE DEF S, T
  <1> QED BY <1>1, <1>2, <1>3, FS_AddElement DEF S, T

-----------------------------------------------------------------------------
(* The four kinds of step.                                                 *)

\* A slot is taken below every ceiling it falls under.
SlotTaken(r, k, m) ==
    /\ holder[r] = NoLease
    /\ ~ VendorFull(Pool[k].vendor)
    /\ TracksModelSlot(k, m) => ~ ModelFull(m)
    /\ TakeSlot(r, k, m)

SlotGivenBack(r) == holder[r] # NoLease /\ ReleaseKeyCapacityOnly(r)

AllGivenBack ==
    /\ inflight' = [k \in Keys |-> 0]
    /\ modelInflight' = [m \in Models |-> 0]
    /\ holder' = [r \in Requests |-> NoLease]

SlotStep ==
    \/ \E r \in Requests, k \in Keys, m \in Models \cup {NoModel} : SlotTaken(r, k, m)
    \/ \E r \in Requests : SlotGivenBack(r)
    \/ AllGivenBack
    \/ UNCHANGED <<inflight, modelInflight, holder>>

(* Both acquisition paths check every ceiling, in the same instant as they  *)
(* take the slot; nothing but the end of an attempt and a restart gives one *)
(* back.                                                                    *)
LEMMA NextIsSlotStep == TypeOK /\ [Next]_vars => SlotStep
  <1> SUFFICES ASSUME TypeOK, [Next]_vars PROVE SlotStep
    OBVIOUS
  <1>1. ASSUME NEW r \in Requests, NEW v \in Vendors, NEW m \in Asked,
               NEW open \in SUBSET KeysOf(v), PickKeyAndAcquire(r, v, m, open)
        PROVE  SlotStep
    <2> DEFINE S == {j \in Keys : Eligible(j, v, m, open)}
    <2>1. PICK k \in Choice(S, v) : TakeSlot(r, k, m)
      BY <1>1 DEF PickKeyAndAcquire
    <2>2. k \in S
      BY DEF Choice, Nearest, Heaviest
    <2>3. k \in Keys /\ Pool[k].vendor = v
      BY <2>2 DEF Eligible, Passes, KeysOf
    <2>4. SlotTaken(r, k, m)
      BY <1>1, <2>1, <2>3 DEF PickKeyAndAcquire, SlotTaken, TracksModelSlot
    <2> QED BY <2>3, <2>4, KeyPoolAssumption DEF SlotStep
  <1>2. ASSUME NEW r \in Requests, NEW candidates \in SUBSET Models,
               LogicalAcquire(r, candidates)
        PROVE  SlotStep
    <2>1. PICK k \in Keys, m \in candidates : LogicallyFree(k, m) /\ TakeSlot(r, k, m)
      BY <1>2 DEF LogicalAcquire
    <2>2. SlotTaken(r, k, m)
      BY <1>2, <2>1 DEF LogicalAcquire, LogicallyFree, SlotTaken, TracksModelSlot
    <2> QED BY <2>2 DEF SlotStep
  <1>3. CASE Acquire
    BY <1>1, <1>2, <1>3 DEF Acquire
  <1>4. CASE Finish
    BY <1>4 DEF Finish, ReleaseKey, CancelAttempt, SlotStep, SlotGivenBack
  <1>5. CASE Maintain
    BY <1>5 DEF Maintain, ListDeployments, KeyPoolStatus, QuotaReopened, PersistTimer,
                SafetyNetTimer, ActivateGeneration, SlotStep, pool
  <1>6. CASE Restart
    BY <1>6 DEF Restart, Crash, Shutdown, StartFrom, SlotStep, AllGivenBack
  <1>7. CASE Tick \/ UNCHANGED vars
    BY <1>7 DEF Tick, vars, pool, SlotStep
  <1> QED BY <1>3, <1>4, <1>5, <1>6, <1>7 DEF Next

-----------------------------------------------------------------------------
(* The invariant is kept.                                                  *)

(* The load of a vendor as the set of slots of its keys. *)
LEMMA VendorSlotsAsSet ==
    \A v : /\ VendorSlots(v) = SlotSet(inflight, KeysOf(v))
           /\ VendorSlots(v)' = SlotSet(inflight', KeysOf(v))
           /\ KeysOf(v) \in SUBSET Keys
           /\ VendorLeases(v) \in SUBSET Leases
  BY DEF VendorSlots, SlotSet, KeysOf, VendorLeases

(* Taking a slot below its ceilings keeps the counters exact and the        *)
(* ceilings unexceeded.                                                     *)
LEMMA TakenKeepsInv ==
  ASSUME SlotInv, TypeOK', NEW r \in Requests, NEW k \in Keys,
         NEW m \in Models \cup {NoModel}, SlotTaken(r, k, m)
  PROVE  SlotInv'
  <1> DEFINE l == [key |-> k, model |-> m]
  <1>1. /\ holder \in [Requests -> Leases \cup {NoLease}]
        /\ holder[r] = NoLease
        /\ l \in Leases
        /\ holder'[r] = l
        /\ \A q \in Requests \ {r} : holder'[q] = holder[q]
        /\ holder' \in [Requests -> Leases \cup {NoLease}]
    BY DEF SlotInv, TypeOK, SlotTaken, TakeSlot, Leases
  <1>2. /\ inflight \in [Keys -> Nat] /\ modelInflight \in [Models -> Nat]
        /\ inflight' \in [Keys -> Nat] /\ inflight'[k] = inflight[k] + 1
        /\ \A j \in Keys \ {k} : inflight'[j] = inflight[j]
        /\ modelInflight' = IF TracksModelSlot(k, m)
                            THEN [modelInflight EXCEPT ![m] = @ + 1] ELSE modelInflight
        /\ TracksModelSlot(k, m) => m \in Models /\ Governed(m)
    BY DEF SlotInv, TypeOK, SlotTaken, TakeSlot, ModelSlotsAfterAcquire,
           TracksModelSlot, Governed
  <1>3. /\ \A j : l \in KeyLeases(j) <=> j = k
        /\ \A n : l \in ModelLeases(n) <=> n = m /\ TracksModelSlot(k, m)
        /\ \A v : l \in VendorLeases(v) <=> k \in KeysOf(v)
    BY <1>1 DEF KeyLeases, ModelLeases, VendorLeases
  <1> HIDE DEF l
  <1>4. ASSUME NEW L \in SUBSET Leases
        PROVE  Cardinality(HoldersIn(holder', L)) =
                  IF l \in L THEN Cardinality(HoldersIn(holder, L)) + 1
                             ELSE Cardinality(HoldersIn(holder, L))
    BY <1>1, HoldersTake
  <1>5. SlotsMatchHolders'
    <2>1. \A j \in Keys : inflight'[j] = Cardinality(HoldersOf(j)')
      <3>1. \A j \in Keys : inflight[j] = Cardinality(HoldersIn(holder, KeyLeases(j)))
        BY HoldersByLease DEF SlotInv, SlotsMatchHolders
      <3>2. \A j : KeyLeases(j) \in SUBSET Leases
        BY DEF KeyLeases
      <3>3. \A j \in Keys : inflight'[j] = Cardinality(HoldersIn(holder', KeyLeases(j)))
        BY <1>2, <1>3, <1>4, <3>1, <3>2
      <3> QED BY <3>3, HoldersByLease
    <2>2. \A n \in Models : modelInflight'[n] = Cardinality(CountedHolders(n)')
      <3>1. \A n \in Models :
               modelInflight[n] = Cardinality(HoldersIn(holder, ModelLeases(n)))
        BY HoldersByLease DEF SlotInv, SlotsMatchHolders
      <3>2. \A n : ModelLeases(n) \in SUBSET Leases
        BY DEF ModelLeases
      <3>3. \A n \in Models :
               modelInflight'[n] = Cardinality(HoldersIn(holder', ModelLeases(n)))
        BY <1>2, <1>3, <1>4, <3>1, <3>2
      <3> QED BY <3>3, HoldersByLease
    <2> QED BY <2>1, <2>2 DEF SlotsMatchHolders
  <1>6. ASSUME NEW v \in Vendors
        PROVE  /\ VendorLoadExact(v)'
               /\ Cardinality(VendorSlots(v)') = IF k \in KeysOf(v)
                                                 THEN Cardinality(VendorSlots(v)) + 1
                                                 ELSE Cardinality(VendorSlots(v))
    <2> DEFINE K == KeysOf(v)
    <2>0. /\ k \in K => /\ SlotSet(inflight', K) = SlotSet(inflight, K) \cup {<<k, inflight[k] + 1>>}
                        /\ <<k, inflight[k] + 1>> \notin SlotSet(inflight, K)
          /\ k \notin K => SlotSet(inflight', K) = SlotSet(inflight, K)
      <3>1. K \in SUBSET Keys
        BY DEF KeysOf
      <3> HIDE DEF K
      <3> QED BY <1>2, <3>1, SlotSetTake
    <2>1. /\ k \in KeysOf(v) =>
                /\ VendorSlots(v)' = VendorSlots(v) \cup {<<k, inflight[k] + 1>>}
                /\ <<k, inflight[k] + 1>> \notin VendorSlots(v)
          /\ k \notin KeysOf(v) => VendorSlots(v)' = VendorSlots(v)
      BY <2>0, VendorSlotsAsSet, Zenon
    <2>2. /\ IsFiniteSet(VendorSlots(v))
          /\ Cardinality(VendorSlots(v)) = Cardinality(HoldersIn(holder, VendorLeases(v)))
      BY DEF SlotInv, VendorLoadExact
    <2>3. /\ IsFiniteSet(VendorSlots(v)')
          /\ Cardinality(VendorSlots(v)') = IF k \in KeysOf(v)
                                            THEN Cardinality(VendorSlots(v)) + 1
                                            ELSE Cardinality(VendorSlots(v))
      BY <2>1, <2>2, FS_AddElement
    <2>4. Cardinality(VendorSlots(v)') = Cardinality(HoldersIn(holder', VendorLeases(v)))
      BY <1>3, <1>4, <2>2, <2>3, VendorSlotsAsSet
    <2> QED BY <2>3, <2>4 DEF VendorLoadExact, VendorLeases
  <1>7. CeilingsHold'
    <2>1. ASSUME NEW n \in Models, Governed(n)
          PROVE  modelInflight'[n] <= ModelPolicy[n].maxInflight
      <3>1. modelInflight[n] <= ModelPolicy[n].maxInflight
        BY <2>1 DEF SlotInv, CeilingsHold
      <3>2. n = m /\ TracksModelSlot(k, m) => modelInflight[n] < ModelPolicy[n].maxInflight
        <4> SUFFICES ASSUME n = m, TracksModelSlot(k, m)
                     PROVE  modelInflight[n] < ModelPolicy[n].maxInflight
          OBVIOUS
        <4>1. ~ (modelInflight[n] >= ModelPolicy[n].maxInflight)
          BY <2>1 DEF SlotTaken, ModelFull
        <4>2. modelInflight[n] \in Nat /\ ModelPolicy[n].maxInflight \in Nat
          BY <1>2, KeyPoolAssumption
        <4> QED BY <4>1, <4>2
      <3>3. ModelPolicy[n].maxInflight \in Nat
        BY KeyPoolAssumption
      <3> QED BY <1>2, <3>1, <3>2, <3>3
    <2>2. ASSUME NEW v \in Vendors, VendorPolicy[v].limited
          PROVE  Cardinality(VendorSlots(v)') <= VendorPolicy[v].maxInflight
      <3>1. Cardinality(VendorSlots(v)) <= VendorPolicy[v].maxInflight
        BY <2>2 DEF SlotInv, CeilingsHold
      <3>2. Cardinality(VendorSlots(v)) \in Nat
        BY FS_CardinalityType DEF SlotInv, VendorLoadExact
      <3>3. VendorPolicy[v].maxInflight \in Nat
        BY KeyPoolAssumption DEF VendorConfigs
      <3>4. k \in KeysOf(v) => Cardinality(VendorSlots(v)) < VendorPolicy[v].maxInflight
        BY <2>2, <3>2, <3>3 DEF SlotTaken, VendorFull, KeysOf
      <3> QED BY <1>6, <3>1, <3>2, <3>3, <3>4
    <2> QED BY <2>1, <2>2 DEF CeilingsHold, Governed
  <1> QED BY <1>5, <1>6, <1>7 DEF SlotInv

(* Giving a slot back keeps the counters exact: the floor at zero of the    *)
(* code is never reached.                                                   *)
LEMMA GivenBackKeepsInv ==
  ASSUME SlotInv, TypeOK', NEW r \in Requests, SlotGivenBack(r)
  PROVE  SlotInv'
  <1> DEFINE l == holder[r]
             k == l.key
             m == l.model
  <1>1. /\ holder \in [Requests -> Leases \cup {NoLease}]
        /\ holder' \in [Requests -> Leases \cup {NoLease}]
        /\ l \in Leases
        /\ holder'[r] = NoLease
        /\ \A q \in Requests \ {r} : holder'[q] = holder[q]
    BY DEF SlotInv, TypeOK, SlotGivenBack, ReleaseKeyCapacityOnly
  <1>2. /\ k \in Keys /\ m \in Models \cup {NoModel}
        /\ TracksModelSlot(k, m) => m \in Models
    BY <1>1 DEF Leases, TracksModelSlot, Governed
  <1>3. /\ \A j : l \in KeyLeases(j) <=> j = k
        /\ \A n : l \in ModelLeases(n) <=> n = m /\ TracksModelSlot(k, m)
        /\ \A v : l \in VendorLeases(v) <=> k \in KeysOf(v)
    BY <1>1 DEF KeyLeases, ModelLeases, VendorLeases
  <1>4. /\ inflight' = [inflight EXCEPT ![k] = Larger(0, @ - 1)]
        /\ modelInflight' = IF TracksModelSlot(k, m)
                            THEN [modelInflight EXCEPT ![m] = Larger(0, @ - 1)]
                            ELSE modelInflight
    BY DEF SlotGivenBack, ReleaseKeyCapacityOnly, ModelSlotsAfterRelease
  <1> HIDE DEF l
  <1>5. ASSUME NEW L \in SUBSET Leases
        PROVE  /\ Cardinality(HoldersIn(holder, L)) =
                     IF l \in L THEN Cardinality(HoldersIn(holder', L)) + 1
                                ELSE Cardinality(HoldersIn(holder', L))
               /\ Cardinality(HoldersIn(holder', L)) \in Nat
    <2>1. holder[r] = l
      BY DEF l
    <2> QED BY <1>1, <2>1, HoldersTake, HoldersFinite
  <1> HIDE DEF k, m
  <1>6. \A j \in Keys : /\ inflight[j] = Cardinality(HoldersIn(holder, KeyLeases(j)))
                        /\ inflight'[j] = Cardinality(HoldersIn(holder', KeyLeases(j)))
    <2>1. \A j \in Keys : inflight[j] = Cardinality(HoldersIn(holder, KeyLeases(j)))
      BY HoldersByLease DEF SlotInv, SlotsMatchHolders
    <2>2. \A j : KeyLeases(j) \in SUBSET Leases
      BY DEF KeyLeases
    <2> QED BY <1>2, <1>3, <1>4, <1>5, <2>1, <2>2 DEF Larger, SlotInv, TypeOK
  <1>7. \A n \in Models :
           /\ modelInflight[n] = Cardinality(HoldersIn(holder, ModelLeases(n)))
           /\ modelInflight'[n] = Cardinality(HoldersIn(holder', ModelLeases(n)))
    <2>1. \A n \in Models : modelInflight[n] = Cardinality(HoldersIn(holder, ModelLeases(n)))
      BY HoldersByLease DEF SlotInv, SlotsMatchHolders
    <2>2. \A n : ModelLeases(n) \in SUBSET Leases
      BY DEF ModelLeases
    <2> QED BY <1>2, <1>3, <1>4, <1>5, <2>1, <2>2 DEF Larger, SlotInv, TypeOK
  <1>8. SlotsMatchHolders'
    BY <1>6, <1>7, HoldersByLease DEF SlotsMatchHolders
  <1>9. ASSUME NEW v \in Vendors
        PROVE  /\ VendorLoadExact(v)'
               /\ Cardinality(VendorSlots(v)') <= Cardinality(VendorSlots(v))
    <2> DEFINE K == KeysOf(v)
               x == <<k, inflight[k]>>
    <2>1. /\ inflight \in [Keys -> Nat] /\ inflight' \in [Keys -> Nat]
          /\ inflight[k] = inflight'[k] + 1
          /\ \A j \in Keys \ {k} : inflight[j] = inflight'[j]
      <3>1. inflight[k] = inflight'[k] + 1
        <4>1. l \in KeyLeases(k) /\ KeyLeases(k) \in SUBSET Leases
          BY <1>3 DEF KeyLeases
        <4> QED BY <1>2, <1>5, <1>6, <4>1
      <3> QED BY <1>2, <1>4, <3>1 DEF SlotInv, TypeOK
    <2>2. K \in SUBSET Keys
      BY DEF KeysOf
    <2> HIDE DEF K
    <2>3. /\ k \in K => /\ SlotSet(inflight, K) = SlotSet(inflight', K) \cup {x}
                        /\ x \notin SlotSet(inflight', K)
          /\ k \notin K => SlotSet(inflight, K) = SlotSet(inflight', K)
      BY <1>2, <2>1, <2>2, SlotSetTake
    <2> HIDE DEF x
    <2>4. /\ k \in K => VendorSlots(v)' = VendorSlots(v) \ {x} /\ x \in VendorSlots(v)
          /\ k \notin K => VendorSlots(v)' = VendorSlots(v)
      BY <2>3, VendorSlotsAsSet DEF K
    <2>5. /\ IsFiniteSet(VendorSlots(v))
          /\ Cardinality(VendorSlots(v)) = Cardinality(HoldersIn(holder, VendorLeases(v)))
          /\ Cardinality(VendorSlots(v)) \in Nat
      BY FS_CardinalityType DEF SlotInv, VendorLoadExact
    <2>6. /\ IsFiniteSet(VendorSlots(v)')
          /\ Cardinality(VendorSlots(v)') = IF k \in K
                                            THEN Cardinality(VendorSlots(v)) - 1
                                            ELSE Cardinality(VendorSlots(v))
      BY <2>4, <2>5, FS_RemoveElement
    <2>7. Cardinality(VendorSlots(v)') = Cardinality(HoldersIn(holder', VendorLeases(v)))
      BY <1>3, <1>5, <2>5, <2>6, VendorSlotsAsSet DEF K
    <2> QED BY <2>5, <2>6, <2>7 DEF VendorLoadExact, VendorLeases
  <1>10. CeilingsHold'
    <2>1. ASSUME NEW n \in Models, Governed(n)
          PROVE  modelInflight'[n] <= ModelPolicy[n].maxInflight
      <3>1. modelInflight[n] <= ModelPolicy[n].maxInflight
        BY <2>1 DEF SlotInv, CeilingsHold
      <3>2. /\ modelInflight'[n] <= modelInflight[n]
            /\ modelInflight'[n] \in Nat /\ modelInflight[n] \in Nat
        BY <1>4 DEF Larger, SlotInv, TypeOK
      <3>3. ModelPolicy[n].maxInflight \in Nat
        BY KeyPoolAssumption
      <3> QED BY <3>1, <3>2, <3>3
    <2>2. ASSUME NEW v \in Vendors, VendorPolicy[v].limited
          PROVE  Cardinality(VendorSlots(v)') <= VendorPolicy[v].maxInflight
      <3>1. Cardinality(VendorSlots(v)) <= VendorPolicy[v].maxInflight
        BY <2>2 DEF SlotInv, CeilingsHold
      <3>2. Cardinality(VendorSlots(v)) \in Nat /\ Cardinality(VendorSlots(v)') \in Nat
        BY <1>9, FS_CardinalityType DEF SlotInv, VendorLoadExact
      <3>3. VendorPolicy[v].maxInflight \in Nat
        BY KeyPoolAssumption DEF VendorConfigs
      <3> QED BY <1>9, <3>1, <3>2, <3>3
    <2> QED BY <2>1, <2>2 DEF CeilingsHold, Governed
  <1> QED BY <1>8, <1>9, <1>10 DEF SlotInv

(* With no lease held and every counter at zero, the invariant holds. *)
LEMMA NothingHeldInv ==
    /\ TypeOK /\ (\A k \in Keys : inflight[k] = 0) /\ (\A m \in Models : modelInflight[m] = 0)
       /\ (\A r \in Requests : holder[r] = NoLease) => SlotInv
    /\ TypeOK' /\ AllGivenBack => SlotInv'
  <1>1. ASSUME NEW h, \A r \in Requests : h[r] = NoLease, NEW L \in SUBSET Leases
        PROVE  Cardinality(HoldersIn(h, L)) = 0
    <2>1. HoldersIn(h, L) = {}
      BY <1>1, NoLeaseAssumption DEF HoldersIn
    <2> QED BY <2>1, FS_EmptySet
  <1>2. ASSUME NEW f, \A k \in Keys : f[k] = 0, NEW v
        PROVE  SlotSet(f, KeysOf(v)) = {}
    BY <1>2 DEF SlotSet, KeysOf
  <1>3. /\ \A j : KeyLeases(j) \in SUBSET Leases
        /\ \A n : ModelLeases(n) \in SUBSET Leases
        /\ \A v : VendorLeases(v) \in SUBSET Leases
    BY DEF KeyLeases, ModelLeases, VendorLeases
  <1>4. /\ \A m \in Models : ModelPolicy[m].maxInflight \in Nat
        /\ \A v \in Vendors : VendorPolicy[v].maxInflight \in Nat
    BY KeyPoolAssumption DEF VendorConfigs
  <1>5. ASSUME TypeOK, \A k \in Keys : inflight[k] = 0, \A m \in Models : modelInflight[m] = 0,
               \A r \in Requests : holder[r] = NoLease
        PROVE  SlotInv
    <2>1. SlotsMatchHolders
      BY <1>1, <1>3, <1>5, HoldersByLease DEF SlotsMatchHolders
    <2>2. \A v \in Vendors : VendorSlots(v) = {}
      BY <1>2, <1>5, VendorSlotsAsSet
    <2>3. \A v \in Vendors : VendorLoadExact(v)
      BY <1>1, <1>3, <1>5, <2>2, FS_EmptySet DEF VendorLoadExact
    <2>4. \A v \in Vendors : Cardinality(VendorSlots(v)) = 0
      BY <2>2, FS_EmptySet
    <2>5. CeilingsHold
      BY <1>4, <1>5, <2>4 DEF CeilingsHold
    <2> QED BY <1>5, <2>1, <2>3, <2>5 DEF SlotInv
  <1>6. ASSUME TypeOK', AllGivenBack
        PROVE  SlotInv'
    <2>1. /\ \A k \in Keys : inflight'[k] = 0
          /\ \A m \in Models : modelInflight'[m] = 0
          /\ \A r \in Requests : holder'[r] = NoLease
      BY <1>6 DEF AllGivenBack
    <2>2. SlotsMatchHolders'
      BY <1>1, <1>3, <2>1, HoldersByLease DEF SlotsMatchHolders
    <2>3. \A v \in Vendors : VendorSlots(v)' = {}
      BY <1>2, <2>1, VendorSlotsAsSet
    <2>4. \A v \in Vendors : VendorLoadExact(v)'
      BY <1>1, <1>3, <2>1, <2>3, FS_EmptySet DEF VendorLoadExact, VendorLeases
    <2>5. \A v \in Vendors : Cardinality(VendorSlots(v)') = 0
      BY <2>3, FS_EmptySet
    <2>6. CeilingsHold'
      BY <1>4, <2>1, <2>5 DEF CeilingsHold, Governed
    <2> QED BY <1>6, <2>2, <2>4, <2>6 DEF SlotInv
  <1> QED BY <1>5, <1>6

(* A step that leaves the slots alone leaves the invariant alone. *)
LEMMA UnchangedKeepsInv ==
  ASSUME SlotInv, TypeOK', UNCHANGED <<inflight, modelInflight, holder>>
  PROVE  SlotInv'
  <1>1. SlotsMatchHolders'
    BY DEF SlotInv, SlotsMatchHolders, HoldersOf, CountedHolders, TracksModelSlot, Governed
  <1>2. \A v \in Vendors : VendorLoadExact(v)'
    BY DEF SlotInv, VendorLoadExact, VendorSlots, VendorLeases, HoldersIn, KeysOf
  <1>3. CeilingsHold'
    BY DEF SlotInv, CeilingsHold, VendorSlots, KeysOf, Governed
  <1> QED BY <1>1, <1>2, <1>3 DEF SlotInv

(* SlotInv is an invariant of the pool. *)
LEMMA SlotInvHolds == Spec => []SlotInv
  <1>1. TypeOK /\ Init => SlotInv
    BY NothingHeldInv DEF Init
  <1>2. SlotInv /\ TypeOK' /\ [Next]_vars => SlotInv'
    <2> SUFFICES ASSUME SlotInv, TypeOK', SlotStep PROVE SlotInv'
      BY NextIsSlotStep DEF SlotInv
    <2> QED BY TakenKeepsInv, GivenBackKeepsInv, NothingHeldInv, UnchangedKeepsInv
            DEF SlotStep
  <1> QED BY <1>1, <1>2, TypeCorrect, PTL DEF Spec

-----------------------------------------------------------------------------
(* Theorems.                                                               *)

(* In every state the counter of a key is the number of requests holding a  *)
(* lease of it, and that of a governed model the number of counted ones:    *)
(* releaseKey, releaseKeyCapacityOnly, reloads and restarts leak nothing.   *)
THEOREM CountersExact == Spec => []SlotsMatchHolders
  BY SlotInvHolds, PTL DEF SlotInv

(* No interleaving of physical and logical acquisitions takes a governed    *)
(* model over its maxInflight, or a vendor over its vendorMaxInflight.      *)
THEOREM CeilingsNeverExceeded == Spec => []CeilingsHold
  BY SlotInvHolds, PTL DEF SlotInv

(* The ledger counts as the pool does. *)
LEMMA LedgerCardinality == \A S : Ledger!Cardinality(S) = Cardinality(S)
  BY DEF Ledger!Cardinality, Cardinality

(* A slot taken below the ceilings of its counters is a lease taken below   *)
(* the ceilings of the ledger.                                              *)
LEMMA TakenIsTake ==
  ASSUME SlotInv, NEW r \in Requests, NEW k \in Keys, NEW m \in Models \cup {NoModel},
         SlotTaken(r, k, m)
  PROVE  Ledger!Take(r)
  <1> DEFINE l == [key |-> k, model |-> m]
  <1>1. l \in Leases
    BY DEF Leases
  <1>2. holder[r] = NoLease /\ holder' = [holder EXCEPT ![r] = l]
    BY DEF SlotTaken, TakeSlot
  <1>3. ASSUME NEW n \in Models, Governed(n), l \in ModelCeiling(n).leases
        PROVE  Cardinality(Ledger!HoldersUnder(ModelCeiling(n))) < ModelCeiling(n).max
    <2>1. Ledger!HoldersUnder(ModelCeiling(n)) = CountedHolders(n)
      BY HoldersByLease DEF Ledger!HoldersUnder, ModelCeiling, HoldersIn, ModelLeases
    <2>2. n = m /\ TracksModelSlot(k, m)
      BY <1>3 DEF ModelCeiling
    <2>3. ~ (modelInflight[n] >= ModelPolicy[n].maxInflight)
      BY <1>3, <2>2 DEF SlotTaken, ModelFull
    <2>4. modelInflight[n] \in Nat /\ ModelPolicy[n].maxInflight \in Nat
      BY KeyPoolAssumption DEF SlotInv, TypeOK
    <2>5. modelInflight[n] = Cardinality(CountedHolders(n))
      BY DEF SlotInv, SlotsMatchHolders
    <2> QED BY <2>1, <2>3, <2>4, <2>5 DEF ModelCeiling
  <1>4. ASSUME NEW v \in Vendors, VendorPolicy[v].limited, l \in VendorCeiling(v).leases
        PROVE  Cardinality(Ledger!HoldersUnder(VendorCeiling(v))) < VendorCeiling(v).max
    <2>1. Ledger!HoldersUnder(VendorCeiling(v)) = HoldersIn(holder, VendorLeases(v))
      BY DEF Ledger!HoldersUnder, VendorCeiling, HoldersIn, VendorLeases
    <2>2. v = Pool[k].vendor
      BY <1>4 DEF VendorCeiling, KeysOf
    <2>3. ~ (Cardinality(VendorSlots(v)) >= VendorPolicy[v].maxInflight)
      BY <1>4, <2>2 DEF SlotTaken, VendorFull
    <2>4. /\ VendorPolicy[v].maxInflight \in Nat
          /\ Cardinality(VendorSlots(v)) \in Nat
          /\ Cardinality(VendorSlots(v)) = Cardinality(HoldersIn(holder, VendorLeases(v)))
      BY KeyPoolAssumption, FS_CardinalityType DEF SlotInv, VendorLoadExact, VendorConfigs
    <2> QED BY <2>1, <2>3, <2>4 DEF VendorCeiling
  <1>5. Ledger!HasRoom(l)
    <2> SUFFICES ASSUME NEW c \in Ceilings, l \in c.leases
                 PROVE  Cardinality(Ledger!HoldersUnder(c)) < c.max
      BY LedgerCardinality DEF Ledger!HasRoom
    <2>1. CASE \E n \in Models : Governed(n) /\ c = ModelCeiling(n)
      <3>1. PICK n \in Models : Governed(n) /\ c = ModelCeiling(n)
        BY <2>1
      <3>2. l \in ModelCeiling(n).leases
        BY <3>1, Zenon
      <3> HIDE DEF l
      <3> QED BY <1>3, <3>1, <3>2, Zenon
    <2>2. CASE \E v \in Vendors : VendorPolicy[v].limited /\ c = VendorCeiling(v)
      <3>1. PICK v \in Vendors : VendorPolicy[v].limited /\ c = VendorCeiling(v)
        BY <2>2
      <3>2. l \in VendorCeiling(v).leases
        BY <3>1, Zenon
      <3> HIDE DEF l
      <3> QED BY <1>4, <3>1, <3>2, Zenon
    <2> QED BY <2>1, <2>2 DEF Ceilings
  <1> QED BY <1>1, <1>2, <1>5 DEF Ledger!Take

(* The pool implements the ledger, which knows no counter: whatever the     *)
(* order of acquisitions, outcomes, reloads and restarts, a lease is only   *)
(* ever taken by a request that has none and below each of its ceilings.    *)
THEOREM PoolImplementsLedger == Spec => ImplementsLedger
  <1>1. Init => Ledger!LedgerInit
    BY DEF Init, Ledger!LedgerInit
  <1>2. SlotInv /\ [Next]_vars => [Ledger!LedgerNext]_holder
    <2> SUFFICES ASSUME SlotInv, SlotStep PROVE [Ledger!LedgerNext]_holder
      BY NextIsSlotStep DEF SlotInv
    <2>1. CASE \E r \in Requests, k \in Keys, m \in Models \cup {NoModel} : SlotTaken(r, k, m)
      BY <2>1, TakenIsTake DEF Ledger!LedgerNext
    <2>2. CASE \E r \in Requests : SlotGivenBack(r)
      BY <2>2 DEF SlotGivenBack, ReleaseKeyCapacityOnly, Ledger!LedgerNext, Ledger!GiveBack
    <2>3. CASE AllGivenBack
      BY <2>3 DEF AllGivenBack, Ledger!LedgerNext, Ledger!GiveBackAll
    <2>4. CASE UNCHANGED <<inflight, modelInflight, holder>>
      BY <2>4
    <2> QED BY <2>1, <2>2, <2>3, <2>4 DEF SlotStep
  <1> QED BY <1>1, <1>2, SlotInvHolds, PTL DEF Spec, ImplementsLedger, Ledger!LedgerSpec

-----------------------------------------------------------------------------
(* The pacing of a key.                                                    *)

AdmittedStart(k) ==
    /\ RateAllowed(rate[k], Pool[k].rate, now)
    /\ inflight' = [inflight EXCEPT ![k] = @ + 1]
    /\ rate' = [rate EXCEPT ![k] = ConsumeRate(@, Pool[k].rate, now)]

(* Both acquisition paths ask the rate of the key they start on, and nobody *)
(* else takes a slot.                                                       *)
LEMMA StartsAreAdmitted ==
  ASSUME TypeOK, [Next]_vars
  PROVE  \/ \E k \in Keys : AdmittedStart(k)
         \/ \A k \in Keys : inflight'[k] <= inflight[k]
  <1>0. inflight \in [Keys -> Nat]
    BY DEF TypeOK
  <1>1. ASSUME NEW r \in Requests, NEW v \in Vendors, NEW m \in Asked,
               NEW open \in SUBSET KeysOf(v), PickKeyAndAcquire(r, v, m, open)
        PROVE  \E k \in Keys : AdmittedStart(k)
    <2> DEFINE S == {j \in Keys : Eligible(j, v, m, open)}
    <2>1. PICK k \in Choice(S, v) : TakeSlot(r, k, m)
      BY <1>1 DEF PickKeyAndAcquire
    <2>2. k \in S
      BY DEF Choice, Nearest, Heaviest
    <2>3. k \in Keys /\ RateAllowed(rate[k], Pool[k].rate, now)
      BY <2>2 DEF Eligible, Passes
    <2> QED BY <2>1, <2>3 DEF TakeSlot, AdmittedStart
  <1>2. ASSUME NEW r \in Requests, NEW candidates \in SUBSET Models,
               LogicalAcquire(r, candidates)
        PROVE  \E k \in Keys : AdmittedStart(k)
    <2>1. PICK k \in Keys, m \in candidates : LogicallyFree(k, m) /\ TakeSlot(r, k, m)
      BY <1>2 DEF LogicalAcquire
    <2> QED BY <2>1 DEF LogicallyFree, TakeSlot, AdmittedStart
  <1>3. ASSUME NEW r \in Requests, holder[r] # NoLease, ReleaseKeyCapacityOnly(r)
        PROVE  \A k \in Keys : inflight'[k] <= inflight[k]
    <2> DEFINE j == holder[r].key
    <2>1. inflight' = [inflight EXCEPT ![j] = Larger(0, @ - 1)]
      BY <1>3 DEF ReleaseKeyCapacityOnly
    <2> HIDE DEF j
    <2> QED BY <1>0, <2>1
  <1>4. CASE Finish
    BY <1>3, <1>4 DEF Finish, ReleaseKey, CancelAttempt
  <1>5. CASE Maintain \/ Tick \/ UNCHANGED vars
    <2>1. inflight' = inflight
      BY <1>5 DEF Maintain, ListDeployments, KeyPoolStatus, QuotaReopened, PersistTimer,
                  SafetyNetTimer, ActivateGeneration, Tick, vars, pool
    <2> QED BY <1>0, <2>1
  <1>6. CASE Restart
    <2>1. \A k \in Keys : inflight'[k] = 0
      BY <1>6 DEF Restart, Crash, Shutdown, StartFrom
    <2> QED BY <1>0, <2>1
  <1> QED BY <1>1, <1>2, <1>4, <1>5, <1>6 DEF Next, Acquire

(* Whichever dispatcher starts a request, two starts on a paced key are      *)
(* never closer than its interval while the process lives.                   *)
THEOREM PacingHolds == Spec => PacedStartsApart
  <1> DEFINE Apart == \A k \in Keys :
                 (inflight'[k] > inflight[k] /\ Pool[k].rate.mode = "paced") =>
                    /\ rate'[k].lastStartedAt = now
                    /\ \/ rate[k].lastStartedAt = 0
                       \/ now - rate[k].lastStartedAt >= Pool[k].rate.limit
  <1>1. ASSUME TypeOK, TypeOK', [Next]_vars
        PROVE  Apart
    <2> SUFFICES ASSUME NEW k \in Keys,
                        inflight'[k] > inflight[k], Pool[k].rate.mode = "paced"
                 PROVE  /\ rate'[k].lastStartedAt = now
                        /\ \/ rate[k].lastStartedAt = 0
                           \/ now - rate[k].lastStartedAt >= Pool[k].rate.limit
      OBVIOUS
    <2>1. /\ inflight \in [Keys -> Nat] /\ inflight' \in [Keys -> Nat]
          /\ inflight[k] \in Nat /\ inflight'[k] \in Nat
          /\ rate \in [Keys -> RateStates] /\ now \in Nat
          /\ rate[k].lastStartedAt \in Nat /\ Pool[k].rate.limit \in Nat
      BY <1>1, PoolKeyType DEF TypeOK, Times, RateStates, RatePolicies
    <2>2. PICK j \in Keys : AdmittedStart(j)
      BY <1>1, <2>1, StartsAreAdmitted
    <2>3. j = k
      BY <2>1, <2>2 DEF AdmittedStart
    <2>4. rate'[k] = [rate[k] EXCEPT !.lastStartedAt = now]
      BY <2>1, <2>2, <2>3 DEF AdmittedStart, ConsumeRate
    <2>5. rate'[k].lastStartedAt = now
      BY <2>1, <2>4 DEF RateStates
    <2>6. rate[k].lastStartedAt = 0 \/ now >= rate[k].lastStartedAt + Pool[k].rate.limit
      BY <2>2, <2>3 DEF AdmittedStart, RateAllowed
    <2> QED BY <2>1, <2>5, <2>6
  <1> QED BY <1>1, TypeCorrect, PTL DEF Spec, PacedStartsApart

-----------------------------------------------------------------------------
(***************************************************************************)
(* The history of the cooldowns.                                           *)
(***************************************************************************)

(* Steps that leave the cooldown of every key as it is.                    *)

\* Expired labels may go; a cooldown in force keeps its end and its reason.
SameCooldown(h, g) == g.badUntil = h.badUntil /\ (CoolingAt(h, now) => g.reason = h.reason)

SameCooldowns == \A k \in Keys : SameCooldown(health[k], health'[k])

(* A reader changes no cooldown in force. *)
LEMMA ReaderSame ==
  ASSUME TypeOK, NEW k \in Keys
  PROVE  /\ SameCooldown(health[k], health[k])
         /\ \A m : SameCooldown(health[k], ForgetExpired(health[k], m))
         /\ SameCooldown(health[k], ObserveReason(health[k], now))
         /\ \A candidates : SameCooldown(health[k], Listed(candidates)[k])
  <1>1. health[k] \in HealthRecords /\ ObserveReason(health[k], now) \in HealthRecords
    BY ReaderType DEF TypeOK
  <1>2. ASSUME NEW m
        PROVE  SameCooldown(health[k], ForgetExpired(health[k], m))
    BY <1>1 DEF SameCooldown, ForgetExpired, HealthRecords
  <1>3. SameCooldown(health[k], ObserveReason(health[k], now))
    BY <1>1 DEF SameCooldown, ObserveReason, HealthRecords
  <1>4. ASSUME NEW candidates
        PROVE  SameCooldown(health[k], Listed(candidates)[k])
    <2> DEFINE o == ObserveReason(health[k], now)
               served == {m \in Pool[k].logical \cap candidates : Governed(m)}
               d == [m \in Models |-> IF m \in served /\ o.dead[m] <= now
                                      THEN 0 ELSE o.dead[m]]
    <2>1. Listed(candidates)[k] = IF served = {} THEN health[k] ELSE [o EXCEPT !.dead = d]
      BY DEF Listed
    <2> HIDE DEF d, o
    <2>2. [o EXCEPT !.dead = d].badUntil = o.badUntil /\ [o EXCEPT !.dead = d].reason = o.reason
      BY <1>1 DEF o, HealthRecords
    <2> QED BY <1>3, <2>1, <2>2 DEF SameCooldown, o
  <1> QED BY <1>2, <1>3, <1>4 DEF SameCooldown

(* Taking slots, reading, writing the file, cancelling and the clock.      *)
QuietStep ==
    \/ Acquire
    \/ \E r \in Requests : CancelAttempt(r)
    \/ \E candidates \in SUBSET Models : ListDeployments(candidates)
    \/ KeyPoolStatus
    \/ \E ok \in WriteResults : PersistTimer(ok) \/ SafetyNetTimer(ok)
    \/ Tick

(* None of them changes a cooldown in force. *)
LEMMA QuietStepSame ==
  ASSUME TypeOK, QuietStep
  PROVE  SameCooldowns /\ now' \in Nat /\ now' >= now
  <1>0. now \in Nat
    BY DEF TypeOK, Times
  <1>1. ASSUME NEW r \in Requests, NEW v \in Vendors, NEW m \in Asked,
               NEW open \in SUBSET KeysOf(v), PickKeyAndAcquire(r, v, m, open)
        PROVE  SameCooldowns /\ now' = now
    <2>1. \A k \in Keys : \/ health'[k] = health[k]
                          \/ health'[k] = ForgetExpired(health[k], m)
      BY <1>1 DEF PickKeyAndAcquire
    <2> QED BY <1>1, <2>1, ReaderSame DEF SameCooldowns, PickKeyAndAcquire
  <1>2. ASSUME NEW r \in Requests, NEW candidates \in SUBSET Models,
               LogicalAcquire(r, candidates)
        PROVE  SameCooldowns /\ now' = now
    BY <1>2, ReaderSame DEF SameCooldowns, LogicalAcquire
  <1>3. ASSUME NEW candidates \in SUBSET Models, ListDeployments(candidates)
        PROVE  SameCooldowns /\ now' = now
    BY <1>3, ReaderSame DEF SameCooldowns, ListDeployments
  <1>4. ASSUME KeyPoolStatus
        PROVE  SameCooldowns /\ now' = now
    BY <1>4, ReaderSame DEF SameCooldowns, KeyPoolStatus
  <1>5. ASSUME \/ \E r \in Requests : CancelAttempt(r)
               \/ \E ok \in WriteResults : PersistTimer(ok) \/ SafetyNetTimer(ok)
        PROVE  SameCooldowns /\ now' = now
    BY <1>5, ReaderSame DEF SameCooldowns, CancelAttempt, PersistTimer, SafetyNetTimer, pool
  <1>6. ASSUME Tick
        PROVE  SameCooldowns /\ now' = now + 1
    BY <1>6, ReaderSame DEF SameCooldowns, Tick, pool
  <1> QED BY <1>0, <1>1, <1>2, <1>3, <1>4, <1>5, <1>6 DEF QuietStep, Acquire

-----------------------------------------------------------------------------
(* Steps that do change one.                                               *)

(* A recorded outcome: a protected cooldown in force is kept, and the one   *)
(* the outcome promises is imposed.                                         *)
LEMMA OutcomeKeeps ==
  ASSUME TypeOK, NEW k \in Keys, NEW m \in Models \cup {NoModel}, NEW outcome \in Outcomes
  PROVE  LET h == health[k]
             g == AfterOutcome(k, m, outcome)
         IN  /\ WellReasoned(h, now) => WellReasoned(g, now)
             /\ CoolingAt(h, now) /\ h.reason \in Protected =>
                   g.badUntil >= h.badUntil /\ g.reason \in Protected
             /\ ProtectedPromise(k, outcome) > now =>
                   g.badUntil >= ProtectedPromise(k, outcome) /\ g.reason \in Protected
  <1> DEFINE h == health[k]
             p == AfterProxy(k, outcome)
             g == AfterOutcome(k, m, outcome)
  <1>1. /\ now \in Nat /\ h \in HealthRecords
        /\ KeyLimits(Pool[k])
        /\ outcome.status \in Statuses /\ outcome.retryAfter \in Nat
        /\ "proxy_transport" \in Transient \cup Protected
        /\ "proxy_transport" \in Protected
        /\ now + Policy.proxyCooldown \in Nat
    BY PoolKeyType, PolicyType DEF TypeOK, Times, Outcomes, Protected
  <1>2. /\ p \in HealthRecords
        /\ Keeps(h, p, now)
        /\ outcome.status # "0" => p = h
        /\ outcome.status = "0" /\ Pool[k].sticky =>
              p.badUntil >= now + Policy.proxyCooldown /\ p.reason \in Protected
    <2>1. CASE Pool[k].sticky /\ outcome.status = "0"
      <3> HIDE DEF h
      <3>1. p = SetKeyCooldown(h, "proxy_transport", now + Policy.proxyCooldown)
        BY <2>1 DEF AfterProxy, h
      <3> HIDE DEF p
      <3>2. p \in HealthRecords
        BY <1>1, <3>1, SetKeyCooldownType DEF Reasons
      <3> QED BY <1>1, <2>1, <3>1, <3>2, SetKeyCooldownKeeps
    <2>2. CASE ~ (Pool[k].sticky /\ outcome.status = "0")
      <3>1. p = h
        BY <2>2 DEF AfterProxy
      <3>2. Keeps(h, h, now)
        BY <1>1, SameCooldownKeeps
      <3> QED BY <1>1, <2>2, <3>1, <3>2
    <2> QED BY <2>1, <2>2
  <1> HIDE DEF p
  <1>3. g = ApplyKeyOutcome(p, Pool[k], m, outcome, now)
    BY DEF AfterOutcome, p
  <1>4. g \in HealthRecords
    BY WriterType
  <1> HIDE DEF g, h
  <1>5. CASE outcome.status = "2xx"
    <2>1. /\ CoolingAt(p, now) /\ p.reason \in Protected =>
                g.badUntil = p.badUntil /\ g.reason = p.reason
          /\ WellReasoned(p, now) => WellReasoned(g, now)
      BY <1>1, <1>2, <1>3, <1>5, SuccessKeepsProtected
    <2>2. p = h
      BY <1>2, <1>5
    <2>3. ProtectedPromise(k, outcome) = 0
      BY <1>5 DEF ProtectedPromise
    <2>4. h.badUntil \in Nat
      BY <1>1 DEF HealthRecords
    <2> QED BY <1>1, <2>1, <2>2, <2>3, <2>4 DEF g, h
  <1>6. CASE outcome.status # "2xx"
    <2>1. /\ Keeps(p, g, now)
          /\ outcome.status = "429" =>
                /\ g.badUntil >= now + (IF outcome.retryAfter > 0
                                        THEN Smaller(outcome.retryAfter, Policy.cooldown429Max)
                                        ELSE Policy.cooldown429Default)
                /\ g.reason \in Protected
          /\ outcome.status = "401" /\ Pool[k].auth401Cooldown > 0 =>
                g.badUntil >= now + Pool[k].auth401Cooldown /\ g.reason \in Protected
      BY <1>1, <1>2, <1>3, <1>6, FailureKeeps
    <2>2. Keeps(h, g, now)
      BY <1>1, <1>2, <1>4, <2>1, KeepsTransitive
    <2>3. outcome.status = "0" /\ Pool[k].sticky =>
             g.badUntil >= now + Policy.proxyCooldown /\ g.reason \in Protected
      BY <1>1, <1>2, <1>4, <2>1 DEF Keeps, HealthRecords
    <2>4. ProtectedPromise(k, outcome) > now =>
             g.badUntil >= ProtectedPromise(k, outcome) /\ g.reason \in Protected
      BY <1>1, <2>1, <2>3 DEF ProtectedPromise
    <2> QED BY <2>2, <2>4 DEF Keeps, g, h
  <1> QED BY <1>5, <1>6

(* A reopened quota lifts what it may lift, and only that. *)
LEMMA ReconcileKeeps ==
  ASSUME NEW h \in HealthRecords, NEW cap, NEW t \in Nat
  PROVE  LET g == ReconcileQuotaOpen(h, cap)
         IN  /\ WellReasoned(h, t) => WellReasoned(g, t)
             /\ h.reason \notin Reopenable => g.badUntil = h.badUntil /\ g.reason = h.reason
  <1> DEFINE g == ReconcileQuotaOpen(h, cap)
  <1>1. CASE h.reason \in Reopenable
    <2>1. g.badUntil = 0
      BY <1>1 DEF ReconcileQuotaOpen, HealthRecords
    <2> QED BY <1>1, <2>1 DEF WellReasoned, CoolingAt
  <1>2. CASE h.reason \notin Reopenable
    <2>1. g.badUntil = h.badUntil /\ g.reason = h.reason
      BY <1>2 DEF ReconcileQuotaOpen, HealthRecords
    <2> QED BY <1>2, <2>1 DEF WellReasoned, CoolingAt
  <1> QED BY <1>1, <1>2

(* It lifts a cooldown altogether, or not at all. *)
LEMMA ReconcileLifts ==
  ASSUME NEW h \in HealthRecords, NEW cap
  PROVE  LET g == ReconcileQuotaOpen(h, cap)
         IN  g.badUntil = 0 \/ (g.badUntil = h.badUntil /\ g.reason = h.reason)
  <1>1. CASE h.reason \in Reopenable
    BY <1>1 DEF ReconcileQuotaOpen, HealthRecords
  <1>2. CASE h.reason \notin Reopenable
    BY <1>2 DEF ReconcileQuotaOpen, HealthRecords
  <1> QED BY <1>1, <1>2

(* A reload: fresh records for the changed keys, a new capacity elsewhere. *)
LEMMA ActivateKeeps ==
  ASSUME TypeOK, NEW changed \in SUBSET Keys, ActivateGeneration(changed), NEW k \in Keys
  PROVE  /\ k \in changed => health'[k].badUntil = 0
         /\ k \notin changed => /\ health'[k].badUntil = health[k].badUntil
                                /\ health'[k].reason = health[k].reason
  <1>1. health[k] \in HealthRecords
    BY DEF TypeOK
  <1>2. health'[k] = IF k \in changed THEN FreshHealth[k]
                     ELSE [health[k] EXCEPT
                             !.cap = Larger(Pool[k].capMin, Smaller(Pool[k].capMax, @))]
    BY DEF ActivateGeneration
  <1>3. FreshHealth[k].badUntil = 0
    BY DEF FreshHealth, CreateInitialKeyState
  <1> QED BY <1>1, <1>2, <1>3 DEF HealthRecords

(* A start: exactly the cooldowns of the file that have not expired. *)
LEMMA StartKeeps ==
  ASSUME NEW k \in Keys, NEW record \in CooldownRecords, NEW later \in Nat,
         record.until > 0 => record.reason \in Transient \cup Protected
  PROVE  LET g == ApplyCooldown(FreshHealth[k], record, later)
         IN  /\ record.until > later => g.badUntil = record.until /\ g.reason = record.reason
             /\ record.until <= later => g.badUntil = 0
  <1>1. /\ FreshHealth[k] \in HealthRecords
        /\ FreshHealth[k].badUntil = 0 /\ FreshHealth[k].reason = NoReason
    BY FreshHealthType DEF FreshHealth, CreateInitialKeyState
  <1>2. NoReason \notin Transient \cup Protected
    BY DEF NoReason, Transient, Protected
  <1> HIDE DEF NoReason, Transient, Protected
  <1>3. CASE record.until > later
    <2>1. record.reason # NoReason /\ record.until \in Nat
      BY <1>2, <1>3 DEF CooldownRecords
    <2>2. ApplyCooldown(FreshHealth[k], record, later) =
             SetKeyCooldown(FreshHealth[k], record.reason, record.until)
      BY <1>3, <2>1 DEF ApplyCooldown
    <2> QED BY <1>1, <1>2, <1>3, <2>1, <2>2 DEF SetKeyCooldown, HealthRecords, Larger
  <1>4. CASE record.until <= later
    BY <1>1, <1>4 DEF ApplyCooldown, CooldownRecords
  <1> QED BY <1>3, <1>4 DEF CooldownRecords

-----------------------------------------------------------------------------
(* A cooldown in force has a reason.                                       *)

\* What the file holds must be well reasoned too: a restart brings it back.
FileReasoned == \A k \in Keys : file[k].until > 0 => file[k].reason \in Transient \cup Protected

ReasonInv ==
    /\ TypeOK
    /\ \A k \in Keys : WellReasoned(health[k], now)
    /\ FileReasoned

(* Writing the file keeps it well reasoned, for every write result. *)
LEMMA ExportReasoned ==
  ASSUME ReasonInv, NEW k \in Keys
  PROVE  ExportCooldown(health[k], now).until > 0 =>
            ExportCooldown(health[k], now).reason \in Transient \cup Protected
  <1>1. CASE CoolingAt(health[k], now)
    BY <1>1 DEF ExportCooldown, ReasonInv, WellReasoned
  <1>2. CASE ~ CoolingAt(health[k], now)
    BY <1>2 DEF ExportCooldown, NoRecord
  <1> QED BY <1>1, <1>2

(* Every step keeps the reasons. *)
LEMMA ReasonStep ==
  ASSUME ReasonInv, TypeOK', [Next]_vars
  PROVE  ReasonInv'
  <1>1. /\ TypeOK
        /\ now \in Nat /\ now' \in Nat
        /\ \A k \in Keys : /\ health[k] \in HealthRecords /\ health[k].badUntil \in Nat
                           /\ health'[k] \in HealthRecords /\ health'[k].badUntil \in Nat
    BY DEF ReasonInv, TypeOK, Times, HealthRecords
  <1>2. ASSUME SameCooldowns, now' >= now
        PROVE  \A k \in Keys : WellReasoned(health'[k], now')
    BY <1>1, <1>2 DEF SameCooldowns, SameCooldown, WellReasoned, CoolingAt, ReasonInv
  <1>3. CASE QuietStep
    <2>1. \A k \in Keys : WellReasoned(health'[k], now')
      BY <1>1, <1>2, <1>3, QuietStepSame
    <2>2. \/ file' = file
          \/ file' = ExportCooldownRecords
      BY <1>3 DEF QuietStep, Acquire, PickKeyAndAcquire, LogicalAcquire, CancelAttempt,
                  ListDeployments, KeyPoolStatus, PersistTimer, SafetyNetTimer,
                  PersistKeyCooldowns, Tick, disk
    <2>3. FileReasoned'
      BY <2>2, ExportReasoned DEF ReasonInv, FileReasoned, ExportCooldownRecords
    <2> QED BY <2>1, <2>3 DEF ReasonInv
  <1>4. ASSUME NEW r \in Requests, NEW outcome \in Outcome, ReleaseKey(r, outcome)
        PROVE  ReasonInv'
    <2> DEFINE j == holder[r].key
               g == AfterOutcome(j, holder[r].model, outcome)
    <2>1. j \in Keys /\ holder[r].model \in Models \cup {NoModel} /\ outcome \in Outcomes
      BY <1>1, <1>4, SlotType, KeyPoolAssumption DEF ReleaseKey, Leases
    <2>2. health' = [health EXCEPT ![j] = g] /\ now' = now /\ file' = file
      BY <1>4 DEF ReleaseKey
    <2>3. WellReasoned(g, now)
      BY <1>1, <2>1, OutcomeKeeps DEF ReasonInv
    <2> HIDE DEF g, j
    <2>4. \A k \in Keys : WellReasoned(health'[k], now)
      BY <2>1, <2>2, <2>3 DEF ReasonInv, TypeOK
    <2> QED BY <2>2, <2>4 DEF ReasonInv, FileReasoned
  <1>5. ASSUME NEW j \in Keys, QuotaReopened(j)
        PROVE  ReasonInv'
    <2> DEFINE g == ReconcileQuotaOpen(health[j], Pool[j].capInitial)
    <2>1. health' = [health EXCEPT ![j] = g] /\ now' = now /\ file' = file
      BY <1>5 DEF QuotaReopened, disk
    <2>2. WellReasoned(g, now)
      BY <1>1, ReconcileKeeps DEF ReasonInv
    <2> HIDE DEF g
    <2>3. \A k \in Keys : WellReasoned(health'[k], now)
      BY <2>1, <2>2 DEF ReasonInv, TypeOK
    <2> QED BY <2>1, <2>3 DEF ReasonInv, FileReasoned
  <1>6. ASSUME NEW changed \in SUBSET Keys, ActivateGeneration(changed)
        PROVE  ReasonInv'
    <2>1. now' = now /\ \A k \in Keys : file'[k] = file[k] \/ file'[k].until = 0
      BY <1>6 DEF ActivateGeneration, NoRecord
    <2>2. \A k \in Keys : WellReasoned(health'[k], now)
      BY <1>1, <1>6, ActivateKeeps DEF ReasonInv, WellReasoned, CoolingAt
    <2> QED BY <2>1, <2>2 DEF ReasonInv, FileReasoned
  <1>7. ASSUME Restart
        PROVE  ReasonInv'
    <2>1. PICK later \in now .. MaxTime :
             Crash(later) \/ \E ok \in WriteResults : Shutdown(ok, later)
      BY <1>7 DEF Restart
    <2>2. PICK records \in {file, ExportCooldownRecords} : StartFrom(records, later)
      BY <2>1 DEF Crash, Shutdown
    <2>3. \A k \in Keys : /\ records[k] \in CooldownRecords
                          /\ records[k].until \in Nat
                          /\ records[k].until > 0 => records[k].reason \in Transient \cup Protected
      BY <1>1, WriterType, ExportReasoned
         DEF ReasonInv, FileReasoned, TypeOK, ExportCooldownRecords, CooldownRecords
    <2>4. /\ now' = later /\ file' = records
          /\ \A k \in Keys : health'[k] = ApplyCooldown(FreshHealth[k], records[k], later)
      BY <2>2 DEF StartFrom
    <2>5. ASSUME NEW k \in Keys
          PROVE  WellReasoned(health'[k], later)
      <3>1. LET g == ApplyCooldown(FreshHealth[k], records[k], later)
            IN  /\ records[k].until > later =>
                      g.badUntil = records[k].until /\ g.reason = records[k].reason
                /\ records[k].until <= later => g.badUntil = 0
        BY <1>1, <2>3, <2>4, StartKeeps
      <3> QED BY <1>1, <2>3, <2>4, <3>1 DEF WellReasoned, CoolingAt
    <2> QED BY <2>3, <2>4, <2>5 DEF ReasonInv, FileReasoned
  <1>8. CASE UNCHANGED vars
    BY <1>8 DEF vars, ReasonInv, FileReasoned
  <1> QED BY <1>3, <1>4, <1>5, <1>6, <1>7, <1>8 DEF Next, Finish, Maintain, QuietStep

LEMMA ReasonInit == TypeOK /\ Init => ReasonInv
  BY DEF Init, ReasonInv, FileReasoned, FreshHealth, CreateInitialKeyState, NoRecord,
         WellReasoned, CoolingAt, Times, TypeOK

(* A key out of use always says why, so a success, a quota probe and a      *)
(* restart treat its cooldown as what it is.                                *)
THEOREM CooldownsHaveReasons == Spec => []ActiveCooldownHasReason
  <1>1. TypeOK /\ Init => ReasonInv
    BY ReasonInit
  <1>2. ReasonInv /\ TypeOK' /\ [Next]_vars => ReasonInv'
    BY ReasonStep
  <1>3. ReasonInv => ActiveCooldownHasReason
    BY DEF ReasonInv, ActiveCooldownHasReason, WellReasoned
  <1> QED BY <1>1, <1>2, <1>3, TypeCorrect, PTL DEF Spec

-----------------------------------------------------------------------------
(* The cooldown file.                                                      *)

(* A quiet step writes the file, or leaves the disk and its timers alone;   *)
(* the clock never passes a write that is due.                              *)
LEMMA QuietDisk ==
  ASSUME QuietStep
  PROVE  \/ /\ UNCHANGED disk
            /\ \/ now' = now
               \/ now' = now + 1 /\ (persistDue = 0 \/ now < persistDue)
         \/ \E ok \in BOOLEAN : PersistKeyCooldowns(ok) /\ health' = health /\ now' = now
  <1>1. CASE \E ok \in WriteResults : PersistTimer(ok) \/ SafetyNetTimer(ok)
    BY <1>1, KeyPoolAssumption DEF PersistTimer, SafetyNetTimer, pool
  <1>2. CASE \/ Acquire
             \/ \E r \in Requests : CancelAttempt(r)
             \/ \E candidates \in SUBSET Models : ListDeployments(candidates)
             \/ KeyPoolStatus
    BY <1>2 DEF Acquire, PickKeyAndAcquire, LogicalAcquire, CancelAttempt, ListDeployments,
                KeyPoolStatus
  <1>3. CASE Tick
    BY <1>3 DEF Tick
  <1> QED BY <1>1, <1>2, <1>3 DEF QuietStep

(* The record in the file of a cooldown in force that is written. *)
LEMMA WrittenRecord ==
  ASSUME TypeOK, NEW k \in Keys, CoolingAt(health[k], now), file' = ExportCooldownRecords
  PROVE  file'[k] = [until |-> health[k].badUntil, reason |-> health[k].reason]
  BY DEF ExportCooldownRecords, ExportCooldown

Mirrored(k) ==
    CoolingAt(health[k], now) =>
        file[k] = [until |-> health[k].badUntil, reason |-> health[k].reason]

(* A recorded outcome that leaves the key a cooldown leaves a write due.    *)
LEMMA OutcomeIsWritten ==
  ASSUME TypeOK, TypeOK', NEW r \in Requests, NEW outcome \in Outcome, ReleaseKey(r, outcome)
  PROVE  \E j \in Keys, m \in Models \cup {NoModel} :
            /\ outcome \in Outcomes
            /\ j = holder[r].key /\ m = holder[r].model
            /\ health' = [health EXCEPT ![j] = AfterOutcome(j, m, outcome)]
            /\ health'[j] = AfterOutcome(j, m, outcome)
            /\ \A k \in Keys \ {j} : health'[k] = health[k]
            /\ now' = now /\ file' = file /\ healthy' = healthy
            /\ persistDue' # 0 \/ health'[j].badUntil = 0
            /\ persistDue' = persistDue \/ (persistDue = 0 /\ persistDue' = now + PersistDelay)
  <1> DEFINE j == holder[r].key
             m == holder[r].model
             g == AfterOutcome(j, m, outcome)
  <1>1. /\ j \in Keys /\ m \in Models \cup {NoModel} /\ outcome \in Outcomes
        /\ now \in Nat /\ persistDue \in Nat /\ PersistDelay \in Nat \ {0}
        /\ health \in [Keys -> HealthRecords]
    BY SlotType, KeyPoolAssumption DEF ReleaseKey, Leases, TypeOK, Times
  <1>2. g \in HealthRecords
    BY <1>1, WriterType
  <1>3. /\ health' = [health EXCEPT ![j] = g]
        /\ IF g.badUntil > 0 THEN SchedulePersist ELSE UNCHANGED persistDue
        /\ now' = now /\ file' = file /\ healthy' = healthy
    BY DEF ReleaseKey
  <1> HIDE DEF g
  <1>4. health'[j] = g /\ \A k \in Keys \ {j} : health'[k] = health[k]
    BY <1>1, <1>3
  <1>5. g.badUntil \in Nat
    BY <1>2 DEF HealthRecords
  <1>6. CASE g.badUntil > 0
    <2>1. persistDue' = IF persistDue = 0 THEN now + PersistDelay ELSE persistDue
      BY <1>3, <1>6 DEF SchedulePersist
    <2>2. /\ persistDue' # 0
          /\ persistDue' = persistDue \/ (persistDue = 0 /\ persistDue' = now + PersistDelay)
      BY <1>1, <2>1
    <2> QED BY <1>1, <1>3, <1>4, <2>2 DEF g
  <1>7. CASE ~ (g.badUntil > 0)
    <2>1. g.badUntil = 0 /\ persistDue' = persistDue
      BY <1>3, <1>5, <1>7
    <2> QED BY <1>1, <1>3, <1>4, <2>1 DEF g
  <1> QED BY <1>6, <1>7

(* A start gives every key the cooldown its record has, if it is in force.  *)
LEMMA RestartFromRecords ==
  ASSUME ReasonInv, Restart
  PROVE  \E later \in Nat, records \in {file, ExportCooldownRecords} :
            /\ later >= now /\ now' = later /\ file' = records /\ persistDue' = 0
            /\ \A k \in Keys :
                  /\ records[k] \in CooldownRecords
                  /\ records[k].until > later => /\ health'[k].badUntil = records[k].until
                                                 /\ health'[k].reason = records[k].reason
                  /\ records[k].until <= later => health'[k].badUntil = 0
  <1>1. TypeOK /\ now \in Nat /\ MaxTime \in Nat
    BY KeyPoolAssumption DEF ReasonInv, TypeOK, Times
  <1>2. PICK later \in now .. MaxTime :
           Crash(later) \/ \E ok \in WriteResults : Shutdown(ok, later)
    BY DEF Restart
  <1>3. PICK records \in {file, ExportCooldownRecords} : StartFrom(records, later)
    BY <1>2 DEF Crash, Shutdown
  <1>4. later \in Nat /\ later >= now
    BY <1>1
  <1>5. \A k \in Keys : /\ records[k] \in CooldownRecords
                        /\ records[k].until > 0 => records[k].reason \in Transient \cup Protected
    BY <1>1, WriterType, ExportReasoned
       DEF ReasonInv, FileReasoned, TypeOK, ExportCooldownRecords
  <1>6. /\ now' = later /\ file' = records /\ persistDue' = 0
        /\ \A k \in Keys : health'[k] = ApplyCooldown(FreshHealth[k], records[k], later)
    BY <1>3 DEF StartFrom
  <1>7. ASSUME NEW k \in Keys
        PROVE  /\ records[k].until > later => /\ health'[k].badUntil = records[k].until
                                              /\ health'[k].reason = records[k].reason
               /\ records[k].until <= later => health'[k].badUntil = 0
    BY <1>4, <1>5, <1>6, StartKeeps
  <1> QED BY <1>4, <1>5, <1>6, <1>7

LEMMA MirrorStep ==
  ASSUME ReasonInv, TypeOK', QuietFileMirrorsCooldowns, [Next]_vars
  PROVE  QuietFileMirrorsCooldowns'
  <1>1. /\ TypeOK
        /\ now \in Nat /\ now' \in Nat
        /\ \A k \in Keys : /\ health[k] \in HealthRecords /\ health[k].badUntil \in Nat
                           /\ health'[k] \in HealthRecords /\ health'[k].badUntil \in Nat
    BY DEF ReasonInv, TypeOK, Times, HealthRecords
  <1>2. (persistDue = 0 /\ healthy) => \A k \in Keys : Mirrored(k)
    BY DEF QuietFileMirrorsCooldowns, Mirrored
  <1>3. CASE QuietStep
    <2>1. SameCooldowns /\ now' >= now
      BY <1>1, <1>3, QuietStepSame
    <2>2. CASE UNCHANGED disk
      BY <1>1, <1>2, <2>1, <2>2
         DEF disk, SameCooldowns, SameCooldown, CoolingAt, Mirrored, QuietFileMirrorsCooldowns
    <2>3. ASSUME NEW ok \in BOOLEAN, PersistKeyCooldowns(ok), health' = health, now' = now
          PROVE  QuietFileMirrorsCooldowns'
      BY <1>1, <2>3, WrittenRecord DEF PersistKeyCooldowns, QuietFileMirrorsCooldowns
    <2> QED BY <1>3, <2>2, <2>3, QuietDisk
  <1>4. ASSUME NEW r \in Requests, NEW outcome \in Outcome, ReleaseKey(r, outcome)
        PROVE  QuietFileMirrorsCooldowns'
    <2>1. PICK j \in Keys :
             /\ \A k \in Keys \ {j} : health'[k] = health[k]
             /\ now' = now /\ file' = file /\ healthy' = healthy
             /\ persistDue' # 0 \/ health'[j].badUntil = 0
             /\ persistDue' = 0 => persistDue = 0
      <3>1. now + PersistDelay # 0
        BY <1>1, KeyPoolAssumption
      <3> QED BY <1>1, <1>4, <3>1, OutcomeIsWritten
    <2>2. ASSUME persistDue' = 0, healthy', NEW k \in Keys
          PROVE  Mirrored(k)'
      <3>1. CASE k = j
        BY <1>1, <2>1, <2>2, <3>1 DEF Mirrored, CoolingAt
      <3>2. CASE k # j
        BY <1>2, <2>1, <2>2, <3>2 DEF Mirrored
      <3> QED BY <3>1, <3>2
    <2> QED BY <2>2 DEF Mirrored, QuietFileMirrorsCooldowns
  <1>5. ASSUME NEW j \in Keys, QuotaReopened(j)
        PROVE  QuietFileMirrorsCooldowns'
    <2> DEFINE g == ReconcileQuotaOpen(health[j], Pool[j].capInitial)
    <2>1. health' = [health EXCEPT ![j] = g] /\ now' = now /\ UNCHANGED disk
      BY <1>5 DEF QuotaReopened
    <2>2. g.badUntil = 0 \/ (g.badUntil = health[j].badUntil /\ g.reason = health[j].reason)
      BY <1>1, ReconcileLifts
    <2> HIDE DEF g
    <2>3. health'[j] = g /\ \A k \in Keys \ {j} : health'[k] = health[k]
      BY <2>1 DEF ReasonInv, TypeOK
    <2>4. ASSUME NEW k \in Keys, Mirrored(k)
          PROVE  Mirrored(k)'
      <3>1. CASE k = j
        BY <1>1, <2>1, <2>2, <2>3, <2>4, <3>1 DEF Mirrored, CoolingAt, disk
      <3>2. CASE k # j
        BY <2>1, <2>3, <2>4, <3>2 DEF Mirrored, disk
      <3> QED BY <3>1, <3>2
    <2> QED BY <1>2, <2>1, <2>4 DEF Mirrored, QuietFileMirrorsCooldowns, disk
  <1>6. ASSUME NEW changed \in SUBSET Keys, ActivateGeneration(changed)
        PROVE  QuietFileMirrorsCooldowns'
    <2>1. /\ now' = now /\ persistDue' = persistDue /\ healthy' = healthy
          /\ \A k \in Keys \ changed : file'[k] = file[k]
      BY <1>6 DEF ActivateGeneration
    <2>2. \A k \in Keys : Mirrored(k) => Mirrored(k)'
      BY <1>1, <1>6, <2>1, ActivateKeeps DEF Mirrored, CoolingAt
    <2> QED BY <1>2, <2>1, <2>2 DEF Mirrored, QuietFileMirrorsCooldowns
  <1>7. ASSUME Restart
        PROVE  QuietFileMirrorsCooldowns'
    <2>1. PICK later \in Nat, records \in {file, ExportCooldownRecords} :
             /\ now' = later /\ file' = records
             /\ \A k \in Keys :
                  /\ records[k] \in CooldownRecords
                  /\ records[k].until > later => /\ health'[k].badUntil = records[k].until
                                                 /\ health'[k].reason = records[k].reason
                  /\ records[k].until <= later => health'[k].badUntil = 0
      BY <1>7, RestartFromRecords
    <2>2. ASSUME NEW k \in Keys, CoolingAt(health'[k], now')
          PROVE  file'[k] = [until |-> health'[k].badUntil, reason |-> health'[k].reason]
      <3>1. records[k].until > later
        BY <1>1, <2>1, <2>2 DEF CoolingAt, CooldownRecords
      <3> QED BY <2>1, <3>1 DEF CooldownRecords
    <2> QED BY <2>2 DEF QuietFileMirrorsCooldowns
  <1>8. CASE UNCHANGED vars
    BY <1>8 DEF vars, QuietFileMirrorsCooldowns
  <1> QED BY <1>3, <1>4, <1>5, <1>6, <1>7, <1>8 DEF Next, Finish, Maintain, QuietStep

(* With no write due and the last one successful, the file says of every key *)
(* in cooldown what memory says, end and reason.                             *)
THEOREM FileMirrorsCooldowns == Spec => []QuietFileMirrorsCooldowns
  <1>1. Init => QuietFileMirrorsCooldowns
    BY DEF Init, QuietFileMirrorsCooldowns, FreshHealth, CreateInitialKeyState, CoolingAt
  <1>2. TypeOK /\ Init => ReasonInv
    BY ReasonInit
  <1>3. ReasonInv /\ TypeOK' /\ [Next]_vars => ReasonInv'
    BY ReasonStep
  <1>4. ReasonInv /\ TypeOK' /\ QuietFileMirrorsCooldowns /\ [Next]_vars
           => QuietFileMirrorsCooldowns'
    BY MirrorStep
  <1> QED BY <1>1, <1>2, <1>3, <1>4, TypeCorrect, PTL DEF Spec

-----------------------------------------------------------------------------
(* A protected cooldown is served in full.                                 *)

\* The end alone is not inductive: a success lifts a cooldown whose label is
\* transient, so the label must stay protected as long as the promise stands.
Owed(k) == now < protectedUntil[k] =>
    health[k].badUntil >= protectedUntil[k] /\ health[k].reason \in Protected

ProtectInv ==
    /\ ReasonInv
    /\ protectedUntil \in [Keys -> Nat]
    /\ \A k \in Keys : Owed(k)

(* The history variables never restrict a step and never allow one. *)
LEMMA HistoryIsPool ==
    /\ HInit => Init
    /\ [HNext]_hvars => [Next]_vars
  BY DEF HInit, HNext, HRelease, HQuotaReopened, HActivate, HRestart, Next, Finish,
         Maintain, hvars, vars

(* Every step that is not an outcome, a reopened quota, a reload or a       *)
(* restart is a quiet one.                                                  *)
LEMMA HNextCases ==
  ASSUME HNext
  PROVE  \/ \E r \in Requests, outcome \in Outcome : HRelease(r, outcome)
         \/ \E k \in Keys : HQuotaReopened(k)
         \/ \E changed \in SUBSET Keys : HActivate(changed)
         \/ HRestart
         \/ QuietStep /\ UNCHANGED history
  BY DEF HNext, QuietStep

(* What is owed is a time. *)
LEMMA PromiseType ==
  ASSUME TypeOK, NEW k \in Keys, NEW outcome \in Outcomes
  PROVE  ProtectedPromise(k, outcome) \in Nat
  <1>1. now \in Nat /\ outcome.retryAfter \in Nat /\ Pool[k].auth401Cooldown \in Nat
    BY PoolKeyType DEF TypeOK, Times, Outcomes, KeyLimits
  <1> QED BY <1>1, PolicyType DEF ProtectedPromise, Smaller

(* Every step pays what is owed. *)
LEMMA ProtectStep ==
  ASSUME ProtectInv, ReasonInv', HNext
  PROVE  ProtectInv'
  <1>1. /\ TypeOK /\ ReasonInv
        /\ now \in Nat /\ now' \in Nat
        /\ protectedUntil \in [Keys -> Nat]
        /\ \A k \in Keys : /\ health[k] \in HealthRecords /\ health[k].badUntil \in Nat
                           /\ health'[k] \in HealthRecords /\ health'[k].badUntil \in Nat
    BY DEF ProtectInv, ReasonInv, TypeOK, Times, HealthRecords
  <1>2. CASE QuietStep /\ UNCHANGED history
    <2>1. SameCooldowns /\ now' >= now /\ protectedUntil' = protectedUntil
      BY <1>1, <1>2, QuietStepSame DEF history
    <2>2. \A k \in Keys : Owed(k)'
      BY <1>1, <2>1 DEF SameCooldowns, SameCooldown, CoolingAt, ProtectInv, Owed
    <2> QED BY <1>1, <2>1, <2>2 DEF ProtectInv
  <1>3. ASSUME NEW r \in Requests, NEW outcome \in Outcome, HRelease(r, outcome)
        PROVE  ProtectInv'
    <2>0. holder[r] \in Leases /\ outcome \in Outcomes
      BY <1>1, <1>3, SlotType, KeyPoolAssumption DEF HRelease, ReleaseKey
    <2>1. PICK j \in Keys, m \in Models \cup {NoModel} :
             j = holder[r].key /\ m = holder[r].model
      BY <2>0 DEF Leases
    <2> DEFINE g == AfterOutcome(j, m, outcome)
               p == ProtectedPromise(j, outcome)
    <2>2. /\ health' = [health EXCEPT ![j] = g]
          /\ now' = now
          /\ protectedUntil' = [protectedUntil EXCEPT ![j] = Larger(@, p)]
      BY <1>3, <2>1 DEF HRelease, ReleaseKey
    <2>3. p \in Nat
      BY <1>1, <2>0, PromiseType
    <2>4. /\ CoolingAt(health[j], now) /\ health[j].reason \in Protected =>
                g.badUntil >= health[j].badUntil /\ g.reason \in Protected
          /\ p > now => g.badUntil >= p /\ g.reason \in Protected
      BY <1>1, <2>0, OutcomeKeeps
    <2> HIDE DEF g, p
    <2>5. health'[j] = g /\ \A k \in Keys \ {j} : health'[k] = health[k]
      BY <2>1, <2>2 DEF ReasonInv, ProtectInv, TypeOK
    <2>6. protectedUntil'[j] = Larger(protectedUntil[j], p)
      BY <1>1, <2>1, <2>2
    <2>7. g.badUntil \in Nat
      BY <1>1, <2>1, <2>5
    <2>8. Owed(j)'
      <3>1. now < protectedUntil[j] => g.badUntil >= protectedUntil[j] /\ g.reason \in Protected
        BY <1>1, <2>1, <2>4, <2>7 DEF ProtectInv, Owed, CoolingAt
      <3> QED BY <1>1, <2>1, <2>2, <2>3, <2>4, <2>5, <2>6, <2>7, <3>1 DEF Owed, Larger
    <2>9. \A k \in Keys \ {j} : Owed(k)'
      BY <1>1, <2>2, <2>5 DEF ProtectInv, Owed
    <2>10. protectedUntil' \in [Keys -> Nat]
      BY <1>1, <2>1, <2>2, <2>3 DEF Larger
    <2> QED BY <2>8, <2>9, <2>10 DEF ProtectInv
  <1>4. ASSUME NEW j \in Keys, HQuotaReopened(j)
        PROVE  ProtectInv'
    <2> DEFINE g == ReconcileQuotaOpen(health[j], Pool[j].capInitial)
    <2>1. /\ health' = [health EXCEPT ![j] = g]
          /\ now' = now
          /\ protectedUntil' = [protectedUntil EXCEPT ![j] =
                                  IF health[j].reason \in Reopenable THEN 0 ELSE @]
      BY <1>4 DEF HQuotaReopened, QuotaReopened, disk
    <2>2. health[j].reason \notin Reopenable =>
             g.badUntil = health[j].badUntil /\ g.reason = health[j].reason
      BY <1>1, ReconcileKeeps
    <2> HIDE DEF g
    <2>3. health'[j] = g /\ \A k \in Keys \ {j} : health'[k] = health[k]
      BY <2>1 DEF ReasonInv, ProtectInv, TypeOK
    <2>4. \A k \in Keys : Owed(k)'
      BY <1>1, <2>1, <2>2, <2>3 DEF ProtectInv, Owed
    <2>5. protectedUntil' \in [Keys -> Nat]
      BY <1>1, <2>1
    <2> QED BY <2>4, <2>5 DEF ProtectInv
  <1>5. ASSUME NEW changed \in SUBSET Keys, HActivate(changed)
        PROVE  ProtectInv'
    <2>1. /\ ActivateGeneration(changed)
          /\ now' = now
          /\ protectedUntil' = [k \in Keys |-> IF k \in changed THEN 0 ELSE protectedUntil[k]]
      BY <1>5 DEF HActivate, ActivateGeneration
    <2>2. \A k \in Keys : Owed(k)'
      BY <1>1, <2>1, ActivateKeeps DEF ProtectInv, Owed
    <2>3. protectedUntil' \in [Keys -> Nat]
      BY <1>1, <2>1
    <2> QED BY <2>2, <2>3 DEF ProtectInv
  <1>6. ASSUME HRestart
        PROVE  ProtectInv'
    <2>1. PICK later \in now .. MaxTime :
             Crash(later) \/ \E ok \in WriteResults : Shutdown(ok, later)
      BY <1>6 DEF HRestart, Restart
    <2>2. /\ now' = later /\ later \in Nat
          /\ \A k \in Keys : health'[k] = ApplyCooldown(FreshHealth[k], file'[k], later)
      BY <1>1, <2>1 DEF Crash, Shutdown, StartFrom
    <2>3. \A k \in Keys : /\ file'[k] \in CooldownRecords
                          /\ file'[k].until \in Nat
                          /\ file'[k].until > 0 => file'[k].reason \in Transient \cup Protected
      BY DEF ReasonInv, FileReasoned, TypeOK, CooldownRecords
    <2>4. protectedUntil' = [k \in Keys |->
             IF file'[k].until > now' /\ file'[k].reason \in Protected
             THEN file'[k].until ELSE 0]
      BY <1>6 DEF HRestart
    <2>5. \A k \in Keys :
             file'[k].until > later =>
                health'[k].badUntil = file'[k].until /\ health'[k].reason = file'[k].reason
      BY <2>2, <2>3, StartKeeps
    <2>6. \A k \in Keys : Owed(k)'
      BY <1>1, <2>2, <2>3, <2>4, <2>5 DEF Owed
    <2>7. protectedUntil' \in [Keys -> Nat]
      BY <2>3, <2>4
    <2> QED BY <2>6, <2>7 DEF ProtectInv
  <1> QED BY <1>2, <1>3, <1>4, <1>5, <1>6, HNextCases

(* Whatever outcomes come late or in between, a key is not used before the  *)
(* end of a protected cooldown it was given: RecoverTransient and the AIMD  *)
(* bookkeeping never make it usable earlier.                                *)
THEOREM ProtectionHolds == HSpec => []ProtectedCooldownHolds
  <1>1. TypeOK /\ HInit => ProtectInv
    BY DEF HInit, Init, ProtectInv, ReasonInv, FileReasoned, FreshHealth,
           CreateInitialKeyState, NoRecord, WellReasoned, CoolingAt, Times, TypeOK,
           Nobody, Owed
  <1>2. ProtectInv /\ TypeOK' /\ [HNext]_hvars => ProtectInv'
    <2> SUFFICES ASSUME ProtectInv, TypeOK', [HNext]_hvars PROVE ProtectInv'
      OBVIOUS
    <2>1. ReasonInv'
      BY HistoryIsPool, ReasonStep DEF ProtectInv
    <2>2. CASE UNCHANGED hvars
      BY <2>1, <2>2 DEF hvars, vars, history, ProtectInv, Owed
    <2> QED BY <2>1, <2>2, ProtectStep
  <1>3. ProtectInv => ProtectedCooldownHolds
    BY DEF ProtectInv, ProtectedCooldownHolds, Owed
  <1>4. HSpec => Spec
    BY HistoryIsPool, PTL DEF HSpec, Spec
  <1> QED BY <1>1, <1>2, <1>3, <1>4, TypeCorrect, PTL DEF HSpec

-----------------------------------------------------------------------------
(* The block of a standing streak.                                         *)

(* No outcome moves the end of a cooldown earlier, short of lifting it; and  *)
(* the block that the streaks standing after it impose is in force.          *)
LEMMA OutcomeStreak ==
  ASSUME TypeOK, NEW k \in Keys, NEW m \in Models \cup {NoModel}, NEW outcome \in Outcomes
  PROVE  LET h == health[k]
             g == AfterOutcome(k, m, outcome)
         IN  /\ g.badUntil >= h.badUntil \/ g.badUntil = 0
             /\ StreakStands(g) => /\ g.badUntil >= h.badUntil
                                   /\ g.badUntil >= StreakPromise(g, outcome.status)
  <1> DEFINE h == health[k]
             p == AfterProxy(k, outcome)
             g == AfterOutcome(k, m, outcome)
  <1>1. /\ now \in Nat /\ h \in HealthRecords
        /\ KeyLimits(Pool[k])
        /\ outcome.status \in Statuses
        /\ now + Policy.proxyCooldown \in Nat
        /\ "proxy_transport" \in Protected /\ "proxy_transport" \in Reasons
    BY PoolKeyType, PolicyType DEF TypeOK, Times, Outcomes, Protected, Reasons
  <1>2. p \in HealthRecords /\ Keeps(h, p, now) /\ (outcome.status # "0" => p = h)
    <2>1. CASE Pool[k].sticky /\ outcome.status = "0"
      <3> HIDE DEF h
      <3>1. p = SetKeyCooldown(h, "proxy_transport", now + Policy.proxyCooldown)
        BY <2>1 DEF AfterProxy, h
      <3> HIDE DEF p
      <3> QED BY <1>1, <2>1, <3>1, SetKeyCooldownType, SetKeyCooldownKeeps
    <2>2. CASE ~ (Pool[k].sticky /\ outcome.status = "0")
      <3>1. p = h
        BY <2>2 DEF AfterProxy
      <3> QED BY <1>1, <3>1, SameCooldownKeeps
    <2> QED BY <2>1, <2>2
  <1> HIDE DEF p
  <1>3. g = ApplyKeyOutcome(p, Pool[k], m, outcome, now)
    BY DEF AfterOutcome, p
  <1>4. g \in HealthRecords /\ g.badUntil \in Nat
    BY WriterType DEF HealthRecords
  <1> HIDE DEF g, h
  <1>5. CASE outcome.status = "2xx"
    <2>1. p = h /\ g = Succeed(h, Pool[k], now)
      BY <1>2, <1>3, <1>5 DEF ApplyKeyOutcome
    <2>2. /\ g.consec5xx = 0 /\ g.consecErr = 0
          /\ g.badUntil = h.badUntil \/ g.badUntil = 0
      BY <1>1, <2>1, SuccessCalms
    <2>3. ~ StreakStands(g)
      BY <2>2, PolicyType DEF StreakStands
    <2> QED BY <1>4, <2>2, <2>3 DEF g, h
  <1>6. CASE outcome.status # "2xx"
    <2>1. Keeps(p, g, now)
      BY <1>1, <1>2, <1>3, <1>6, FailureKeeps
    <2>2. g.badUntil >= h.badUntil
      BY <1>1, <1>2, <1>4, <2>1, KeepsTransitive DEF Keeps
    <2>3. g.badUntil >= StreakPromise(g, outcome.status)
      <3>1. CASE outcome.status \in {"5xx", "401", "403", "404", "other"}
        <4>1. /\ g.consecErr >= Policy.consecutiveErrorThreshold =>
                    g.badUntil >= now + Policy.burstErrorCooldown
              /\ outcome.status = "5xx" /\ g.consec5xx >= Policy.consecutive5xxThreshold =>
                    g.badUntil >= now + Policy.persistent5xxCooldown
          BY <1>1, <1>2, <1>3, <3>1, FailureStreak
        <4> QED BY <1>1, <1>4, <4>1, PolicyType DEF StreakPromise
      <3>2. CASE outcome.status \notin {"5xx", "401", "403", "404", "other"}
        <4>1. StreakPromise(g, outcome.status) = 0
          BY <3>2 DEF StreakPromise
        <4> QED BY <1>4, <4>1
      <3> QED BY <3>1, <3>2
    <2> QED BY <2>2, <2>3 DEF g, h
  <1> QED BY <1>5, <1>6

StreakInv ==
    /\ ReasonInv
    /\ streakUntil \in [Keys -> Nat]
    /\ StreakStillBlocked

Blocked(k) == now < streakUntil[k] => health[k].badUntil >= streakUntil[k]

LEMMA StreakStep ==
  ASSUME StreakInv, ReasonInv', HNext
  PROVE  StreakInv'
  <1>1. /\ TypeOK /\ ReasonInv
        /\ now \in Nat /\ now' \in Nat
        /\ streakUntil \in [Keys -> Nat]
        /\ \A k \in Keys : Blocked(k)
        /\ \A k \in Keys : /\ health[k] \in HealthRecords /\ health[k].badUntil \in Nat
                           /\ health'[k] \in HealthRecords /\ health'[k].badUntil \in Nat
    BY DEF StreakInv, StreakStillBlocked, Blocked, ReasonInv, TypeOK, Times, HealthRecords
  <1>2. ASSUME streakUntil' \in [Keys -> Nat], \A k \in Keys : Blocked(k)'
        PROVE  StreakInv'
    BY <1>2 DEF StreakInv, StreakStillBlocked, Blocked
  <1>3. CASE QuietStep /\ UNCHANGED history
    <2>1. SameCooldowns /\ now' >= now /\ streakUntil' = streakUntil
      BY <1>1, <1>3, QuietStepSame DEF history
    <2>2. \A k \in Keys : Blocked(k)'
      BY <1>1, <2>1 DEF SameCooldowns, SameCooldown, Blocked
    <2> QED BY <1>1, <1>2, <2>1, <2>2
  <1>4. ASSUME NEW r \in Requests, NEW outcome \in Outcome, HRelease(r, outcome)
        PROVE  StreakInv'
    <2>1. ReleaseKey(r, outcome) /\ TypeOK'
      BY <1>4 DEF HRelease, ReasonInv
    <2>2. PICK j \in Keys, m \in Models \cup {NoModel} :
             /\ outcome \in Outcomes
             /\ j = holder[r].key
             /\ health'[j] = AfterOutcome(j, m, outcome)
             /\ \A k \in Keys \ {j} : health'[k] = health[k]
             /\ now' = now
      BY <1>1, <2>1, OutcomeIsWritten
    <2> DEFINE g == AfterOutcome(j, m, outcome)
               p == StreakPromise(g, outcome.status)
               u == IF StreakStands(g) THEN Larger(streakUntil[j], p) ELSE 0
    <2>3. streakUntil' = [streakUntil EXCEPT ![j] = u]
      BY <1>4, <2>2 DEF HRelease
    <2>4. StreakStands(g) => g.badUntil >= health[j].badUntil /\ g.badUntil >= p
      BY <1>1, <2>2, OutcomeStreak
    <2>5. p \in Nat
      BY <1>1, PolicyType DEF StreakPromise
    <2>6. u \in Nat
      BY <1>1, <2>5
    <2>7. \/ u = 0
          \/ StreakStands(g) /\ u = Larger(streakUntil[j], p)
      <3>1. CASE StreakStands(g)
        BY <3>1
      <3>2. CASE ~ StreakStands(g)
        BY <3>2
      <3> QED BY <3>1, <3>2
    <2> HIDE DEF g, p, u
    <2>8. streakUntil'[j] = u /\ \A k \in Keys \ {j} : streakUntil'[k] = streakUntil[k]
      BY <1>1, <2>3
    <2>9. health'[j] = g
      BY <2>2 DEF g
    <2>10. Blocked(j)'
      BY <1>1, <2>2, <2>4, <2>5, <2>7, <2>8, <2>9 DEF Blocked
    <2>11. \A k \in Keys \ {j} : Blocked(k)'
      BY <1>1, <2>2, <2>8 DEF Blocked
    <2>12. streakUntil' \in [Keys -> Nat]
      BY <1>1, <2>3, <2>6
    <2> QED BY <1>2, <2>10, <2>11, <2>12
  <1>5. ASSUME NEW j \in Keys, HQuotaReopened(j)
        PROVE  StreakInv'
    <2>1. /\ \A k \in Keys \ {j} : health'[k] = health[k]
          /\ now' = now /\ streakUntil' = [streakUntil EXCEPT ![j] = 0]
      BY <1>1, <1>5 DEF HQuotaReopened, QuotaReopened, TypeOK
    <2>2. \A k \in Keys : Blocked(k)'
      BY <1>1, <2>1 DEF Blocked
    <2>3. streakUntil' \in [Keys -> Nat]
      BY <1>1, <2>1
    <2> QED BY <1>2, <2>2, <2>3
  <1>6. ASSUME NEW changed \in SUBSET Keys, HActivate(changed)
        PROVE  StreakInv'
    <2>1. /\ ActivateGeneration(changed) /\ now' = now
          /\ streakUntil' = [k \in Keys |-> IF k \in changed THEN 0 ELSE streakUntil[k]]
      BY <1>6 DEF HActivate, ActivateGeneration
    <2>2. \A k \in Keys : Blocked(k)'
      BY <1>1, <2>1, ActivateKeeps DEF Blocked
    <2>3. streakUntil' \in [Keys -> Nat]
      BY <1>1, <2>1
    <2> QED BY <1>2, <2>2, <2>3
  <1>7. CASE HRestart
    <2>1. streakUntil' = Nobody
      BY <1>7 DEF HRestart
    <2> QED BY <1>1, <1>2, <2>1 DEF Nobody, Blocked
  <1> QED BY <1>3, <1>4, <1>5, <1>6, <1>7, HNextCases

(* While an error streak stands, so does the block it imposed, whatever      *)
(* other outcomes, reloads and probes come in between ("a mixed-error streak *)
(* protects an unhealthy upstream from continued traffic").                  *)
THEOREM StreaksStayBlocked == HSpec => []StreakStillBlocked
  <1>1. TypeOK /\ HInit => StreakInv
    BY ReasonInit DEF HInit, Init, StreakInv, StreakStillBlocked, Nobody
  <1>2. StreakInv /\ TypeOK' /\ [HNext]_hvars => StreakInv'
    <2> SUFFICES ASSUME StreakInv, TypeOK', [HNext]_hvars PROVE StreakInv'
      OBVIOUS
    <2>1. ReasonInv'
      BY HistoryIsPool, ReasonStep DEF StreakInv
    <2>2. CASE UNCHANGED hvars
      BY <2>1, <2>2 DEF hvars, vars, history, StreakInv, StreakStillBlocked
    <2> QED BY <2>1, <2>2, StreakStep
  <1>3. StreakInv => StreakStillBlocked
    BY DEF StreakInv
  <1>4. HSpec => Spec
    BY HistoryIsPool, PTL DEF HSpec, Spec
  <1> QED BY <1>1, <1>2, <1>3, <1>4, TypeCorrect, PTL DEF HSpec

-----------------------------------------------------------------------------
(* What a crash may lose.                                                  *)

\* The end of a cooldown in force is in the file, or its write comes no later
\* than the write delay after the end was set.
Kept(k) ==
    (healthy /\ CoolingAt(health[k], now)) =>
        \/ file[k].until = health[k].badUntil
        \/ persistDue # 0 /\ persistDue <= raisedAt[k] + PersistDelay

\* A write that is due is not late, and not further off than the delay.
WriteInTime == persistDue # 0 => now <= persistDue /\ persistDue <= now + PersistDelay

RecentInv ==
    /\ ReasonInv
    /\ raisedAt \in [Keys -> Nat]
    /\ WriteInTime
    /\ \A k \in Keys : Kept(k)

LEMMA RecentStep ==
  ASSUME RecentInv, ReasonInv', HNext
  PROVE  RecentInv'
  <1>1. /\ TypeOK /\ ReasonInv /\ TypeOK'
        /\ now \in Nat /\ now' \in Nat
        /\ raisedAt \in [Keys -> Nat] /\ PersistDelay \in Nat \ {0}
        /\ persistDue \in Nat /\ persistDue' \in Nat
        /\ \A k \in Keys : /\ health[k] \in HealthRecords /\ health[k].badUntil \in Nat
                           /\ health'[k] \in HealthRecords /\ health'[k].badUntil \in Nat
                           /\ raisedAt[k] \in Nat
    BY KeyPoolAssumption DEF RecentInv, ReasonInv, TypeOK, Times, HealthRecords
  <1>2. CASE QuietStep /\ UNCHANGED history
    <2>1. SameCooldowns /\ now' >= now /\ raisedAt' = raisedAt
      BY <1>1, <1>2, QuietStepSame DEF history
    <2>2. CASE /\ UNCHANGED disk
               /\ \/ now' = now
                  \/ now' = now + 1 /\ (persistDue = 0 \/ now < persistDue)
      <3>1. WriteInTime'
        <4>1. persistDue' = persistDue /\ WriteInTime
          BY <2>2 DEF RecentInv, disk
        <4>2. now' = now \/ (now' = now + 1 /\ (persistDue = 0 \/ now < persistDue))
          BY <2>2
        <4>3. now \in Nat /\ persistDue \in Nat /\ PersistDelay \in Nat
          BY <1>1
        <4>4. CASE now' = now
          BY <4>1, <4>4 DEF WriteInTime
        <4>5. CASE now' = now + 1 /\ (persistDue = 0 \/ now < persistDue)
          <5> SUFFICES ASSUME persistDue # 0
                       PROVE  now + 1 <= persistDue /\ persistDue <= now + 1 + PersistDelay
            BY <4>1, <4>5 DEF WriteInTime
          <5>1. now < persistDue /\ persistDue <= now + PersistDelay
            BY <4>1, <4>5 DEF WriteInTime
          <5> QED BY <4>3, <5>1
        <4> QED BY <4>2, <4>4, <4>5
      <3>2. ASSUME NEW k \in Keys
            PROVE  Kept(k)'
        <4>1. health'[k].badUntil = health[k].badUntil
          BY <2>1 DEF SameCooldowns, SameCooldown
        <4>2. CoolingAt(health'[k], now') => CoolingAt(health[k], now)
          BY <1>1, <2>1, <4>1 DEF CoolingAt
        <4>3. Kept(k)
          BY DEF RecentInv
        <4> QED BY <2>1, <2>2, <4>1, <4>2, <4>3 DEF Kept, disk
      <3> QED BY <1>1, <2>1, <3>1, <3>2 DEF RecentInv
    <2>3. ASSUME NEW ok \in BOOLEAN, PersistKeyCooldowns(ok), health' = health, now' = now
          PROVE  RecentInv'
      <3>1. /\ persistDue' = 0 /\ healthy' = ok
            /\ file' = IF ok THEN ExportCooldownRecords ELSE file
        BY <2>3 DEF PersistKeyCooldowns
      <3>2. ASSUME NEW k \in Keys, ok, CoolingAt(health[k], now)
            PROVE  file'[k].until = health[k].badUntil
        <4>1. file' = ExportCooldownRecords
          BY <3>1, <3>2
        <4>2. file'[k] = [until |-> health[k].badUntil, reason |-> health[k].reason]
          BY <1>1, <3>2, <4>1, WrittenRecord
        <4> QED BY <4>2
      <3>3. \A k \in Keys : Kept(k)'
        BY <2>3, <3>1, <3>2 DEF Kept
      <3> QED BY <1>1, <2>1, <3>1, <3>3 DEF RecentInv, WriteInTime
    <2> QED BY <1>2, <2>2, <2>3, QuietDisk
  <1>3. ASSUME NEW r \in Requests, NEW outcome \in Outcome, HRelease(r, outcome)
        PROVE  RecentInv'
    <2>1. PICK j \in Keys, m \in Models \cup {NoModel} :
             /\ outcome \in Outcomes
             /\ j = holder[r].key
             /\ health'[j] = AfterOutcome(j, m, outcome)
             /\ \A k \in Keys \ {j} : health'[k] = health[k]
             /\ now' = now /\ file' = file /\ healthy' = healthy
             /\ persistDue' # 0 \/ health'[j].badUntil = 0
             /\ persistDue' = persistDue \/ (persistDue = 0 /\ persistDue' = now + PersistDelay)
      BY <1>1, <1>3, OutcomeIsWritten DEF HRelease
    <2> DEFINE h == health[j]
               g == health'[j]
               t == IF g.badUntil > h.badUntil THEN now ELSE raisedAt[j]
    <2>2. raisedAt' = [raisedAt EXCEPT ![j] = t]
      BY <1>3, <2>1 DEF HRelease
    <2>3. g.badUntil >= h.badUntil \/ g.badUntil = 0
      BY <1>1, <2>1, OutcomeStreak
    <2>4. t \in Nat
      BY <1>1
    <2> HIDE DEF t
    <2>5. /\ raisedAt'[j] = t /\ raisedAt' \in [Keys -> Nat]
          /\ \A k \in Keys \ {j} : raisedAt'[k] = raisedAt[k]
      BY <1>1, <2>2, <2>4
    <2>6. WriteInTime'
      BY <1>1, <2>1 DEF RecentInv, WriteInTime
    <2>7. Kept(j)'
      <3> SUFFICES ASSUME healthy, now < g.badUntil
                   PROVE  \/ file[j].until = g.badUntil
                          \/ persistDue' # 0 /\ persistDue' <= t + PersistDelay
        BY <2>1, <2>5 DEF Kept, CoolingAt
      <3>1. persistDue' # 0
        BY <1>1, <2>1
      <3>2. CASE g.badUntil > h.badUntil
        <4>1. t = now
          BY <3>2 DEF t
        <4> QED BY <1>1, <2>1, <2>6, <3>1, <4>1 DEF WriteInTime
      <3>3. CASE ~ (g.badUntil > h.badUntil)
        <4>1. t = raisedAt[j]
          BY <3>3 DEF t
        <4>2. g.badUntil = h.badUntil
          BY <1>1, <2>3, <3>3
        <4>3. \/ file[j].until = h.badUntil
              \/ persistDue # 0 /\ persistDue <= raisedAt[j] + PersistDelay
          BY <4>2 DEF RecentInv, Kept, CoolingAt
        <4> QED BY <2>1, <4>1, <4>2, <4>3
      <3> QED BY <3>2, <3>3
    <2>8. ASSUME NEW k \in Keys \ {j}
          PROVE  Kept(k)'
      BY <2>1, <2>5 DEF RecentInv, Kept
    <2> QED BY <2>5, <2>6, <2>7, <2>8 DEF RecentInv
  <1>4. ASSUME NEW j \in Keys, HQuotaReopened(j)
        PROVE  RecentInv'
    <2> DEFINE g == ReconcileQuotaOpen(health[j], Pool[j].capInitial)
    <2>1. health' = [health EXCEPT ![j] = g] /\ now' = now /\ UNCHANGED <<disk, raisedAt>>
      BY <1>4 DEF HQuotaReopened, QuotaReopened
    <2>2. g.badUntil = 0 \/ g.badUntil = health[j].badUntil
      BY <1>1, ReconcileLifts
    <2> HIDE DEF g
    <2>3. health'[j] = g /\ \A k \in Keys \ {j} : health'[k] = health[k]
      BY <1>1, <2>1 DEF TypeOK
    <2>4. \A k \in Keys : health'[k].badUntil \in {0, health[k].badUntil}
      BY <2>2, <2>3
    <2>5. \A k \in Keys : Kept(k)'
      BY <1>1, <2>1, <2>4 DEF RecentInv, Kept, CoolingAt, disk
    <2> QED BY <1>1, <2>1, <2>5 DEF RecentInv, WriteInTime, disk
  <1>5. ASSUME NEW changed \in SUBSET Keys, HActivate(changed)
        PROVE  RecentInv'
    <2>1. /\ ActivateGeneration(changed) /\ now' = now
          /\ persistDue' = persistDue /\ healthy' = healthy
          /\ raisedAt' = [k \in Keys |-> IF k \in changed THEN 0 ELSE raisedAt[k]]
          /\ \A k \in Keys \ changed : file'[k] = file[k]
      BY <1>5 DEF HActivate, ActivateGeneration
    <2>2. ASSUME NEW k \in Keys
          PROVE  Kept(k)'
      <3>1. CASE k \in changed
        <4>1. health'[k].badUntil = 0
          BY <1>1, <2>1, <3>1, ActivateKeeps
        <4> QED BY <1>1, <4>1 DEF Kept, CoolingAt
      <3>2. CASE k \notin changed
        <4>1. health'[k].badUntil = health[k].badUntil /\ raisedAt'[k] = raisedAt[k]
          BY <1>1, <2>1, <3>2, ActivateKeeps
        <4> QED BY <2>1, <3>2, <4>1 DEF RecentInv, Kept, CoolingAt
      <3> QED BY <3>1, <3>2
    <2>3. raisedAt' \in [Keys -> Nat]
      BY <1>1, <2>1
    <2> QED BY <2>1, <2>2, <2>3 DEF RecentInv, WriteInTime
  <1>6. CASE HRestart
    <2>1. Restart /\ raisedAt' = Nobody
      BY <1>6 DEF HRestart
    <2>2. PICK later \in Nat, records \in {file, ExportCooldownRecords} :
             /\ now' = later /\ file' = records /\ persistDue' = 0
             /\ \A k \in Keys :
                  /\ records[k] \in CooldownRecords
                  /\ records[k].until > later => health'[k].badUntil = records[k].until
                  /\ records[k].until <= later => health'[k].badUntil = 0
      BY <1>1, <2>1, RestartFromRecords
    <2>3. \A k \in Keys : Kept(k)'
      <3> SUFFICES ASSUME NEW k \in Keys, CoolingAt(health'[k], now')
                   PROVE  file'[k].until = health'[k].badUntil
        BY DEF Kept
      <3>1. records[k].until > later
        BY <1>1, <2>2 DEF CoolingAt, CooldownRecords
      <3> QED BY <2>2, <3>1
    <2> QED BY <2>1, <2>2, <2>3 DEF RecentInv, WriteInTime, Nobody
  <1> QED BY <1>2, <1>3, <1>4, <1>5, <1>6, HNextCases

(* "Safety net for SIGKILL/OOM": a restart after successful writes takes over *)
(* the end of every cooldown still in force that was set longer than the      *)
(* write delay ago.                                                           *)
THEOREM CrashLosesNothingOld == HSpec => CrashLosesOnlyRecent
  <1> DEFINE Loses == Restart =>
                 \A k \in Keys :
                     (healthy /\ health[k].badUntil > now' /\ now > raisedAt[k] + PersistDelay)
                        => health'[k].badUntil = health[k].badUntil
  <1>1. TypeOK /\ HInit => RecentInv
    BY ReasonInit DEF HInit, Init, RecentInv, WriteInTime, Kept, CoolingAt, Nobody,
                      FreshHealth, CreateInitialKeyState
  <1>2. RecentInv /\ TypeOK' /\ [HNext]_hvars => RecentInv'
    <2> SUFFICES ASSUME RecentInv, TypeOK', [HNext]_hvars PROVE RecentInv'
      OBVIOUS
    <2>1. ReasonInv'
      BY HistoryIsPool, ReasonStep DEF RecentInv
    <2>2. CASE UNCHANGED hvars
      BY <2>1, <2>2 DEF hvars, vars, history, RecentInv, WriteInTime, Kept
    <2> QED BY <2>1, <2>2, RecentStep
  <1>3. RecentInv => Loses
    <2> SUFFICES ASSUME RecentInv, Restart, NEW k \in Keys, healthy,
                        health[k].badUntil > now', now > raisedAt[k] + PersistDelay
                 PROVE  health'[k].badUntil = health[k].badUntil
      OBVIOUS
    <2>1. /\ now \in Nat /\ persistDue \in Nat /\ raisedAt[k] \in Nat
          /\ PersistDelay \in Nat /\ health[k].badUntil \in Nat
      BY KeyPoolAssumption DEF RecentInv, ReasonInv, TypeOK, Times, HealthRecords
    <2>2. PICK later \in Nat, records \in {file, ExportCooldownRecords} :
             /\ later >= now /\ now' = later /\ file' = records
             /\ records[k].until > later => health'[k].badUntil = records[k].until
      BY RestartFromRecords DEF RecentInv
    <2>3. CoolingAt(health[k], now)
      BY <2>1, <2>2 DEF CoolingAt
    <2>4. file[k].until = health[k].badUntil
      BY <2>1, <2>3 DEF RecentInv, Kept, WriteInTime
    <2>5. records[k].until = health[k].badUntil
      BY <2>2, <2>3, <2>4 DEF ExportCooldownRecords, ExportCooldown
    <2> QED BY <2>2, <2>5
  <1>4. HSpec => Spec
    BY HistoryIsPool, PTL DEF HSpec, Spec
  <1> QED BY <1>1, <1>2, <1>3, <1>4, TypeCorrect, PTL DEF HSpec, CrashLosesOnlyRecent
=============================================================================
