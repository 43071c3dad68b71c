--------------------------- MODULE KeyPoolHistory ---------------------------
(***************************************************************************)
(* The key pool with a memory of what its outcomes promised, to state what *)
(* may cut a cooldown short.  The history variables never restrict a step. *)
(***************************************************************************)
EXTENDS KeyPool

VARIABLES
    protectedUntil,  \* key |-> latest end of a protected cooldown still owed
    streakUntil,     \* key |-> block owed to a standing error streak
    raisedAt         \* key |-> when the current end of the cooldown was set

history == <<protectedUntil, streakUntil, raisedAt>>
hvars   == <<vars, history>>

Nobody == [k \in Keys |-> 0]

\* The protected cooldown that one outcome alone imposes, 0 if none.
ProtectedPromise(k, outcome) ==
    CASE outcome.status = "429" ->
            now + (IF outcome.retryAfter > 0
                   THEN Smaller(outcome.retryAfter, Policy.cooldown429Max)
                   ELSE Policy.cooldown429Default)
      [] outcome.status = "401" /\ Pool[k].auth401Cooldown > 0 ->
            now + Pool[k].auth401Cooldown
      [] outcome.status = "0" /\ Pool[k].sticky -> now + Policy.proxyCooldown
      [] OTHER -> 0

\* The block that the streaks standing after this outcome impose, 0 if none.
StreakPromise(h, status) ==
    CASE status = "5xx" /\ h.consecErr >= Policy.consecutiveErrorThreshold ->
            now + Larger(Policy.burstErrorCooldown,
                         IF h.consec5xx >= Policy.consecutive5xxThreshold
                         THEN Policy.persistent5xxCooldown ELSE 0)
      [] status = "5xx" /\ h.consec5xx >= Policy.consecutive5xxThreshold ->
            now + Policy.persistent5xxCooldown
      [] status \in {"401", "403", "404", "other"}
            /\ h.consecErr >= Policy.consecutiveErrorThreshold ->
            now + Policy.burstErrorCooldown
      [] OTHER -> 0

StreakStands(h) ==
    \/ h.consecErr >= Policy.consecutiveErrorThreshold
    \/ h.consec5xx >= Policy.consecutive5xxThreshold

HInit ==
    /\ Init
    /\ protectedUntil = Nobody
    /\ streakUntil = Nobody
    /\ raisedAt = Nobody

HRelease(r, outcome) ==
    LET k == holder[r].key
    IN  /\ ReleaseKey(r, outcome)
        /\ protectedUntil' = [protectedUntil EXCEPT ![k] =
                                Larger(@, ProtectedPromise(k, outcome))]
        /\ streakUntil' = [streakUntil EXCEPT ![k] =
                             IF StreakStands(health'[k])
                             THEN Larger(@, StreakPromise(health'[k], outcome.status))
                             ELSE 0]
        /\ raisedAt' = [raisedAt EXCEPT ![k] =
                          IF health'[k].badUntil > health[k].badUntil THEN now ELSE @]

\* A reopened quota owes nothing more when the label is one it may lift.
HQuotaReopened(k) ==
    /\ QuotaReopened(k)
    /\ protectedUntil' = [protectedUntil EXCEPT ![k] =
                            IF health[k].reason \in Reopenable THEN 0 ELSE @]
    /\ streakUntil' = [streakUntil EXCEPT ![k] = 0]
    /\ UNCHANGED raisedAt

HActivate(changed) ==
    /\ ActivateGeneration(changed)
    /\ protectedUntil' = [k \in Keys |-> IF k \in changed THEN 0 ELSE protectedUntil[k]]
    /\ streakUntil' = [k \in Keys |-> IF k \in changed THEN 0 ELSE streakUntil[k]]
    /\ raisedAt' = [k \in Keys |-> IF k \in changed THEN 0 ELSE raisedAt[k]]

\* After a restart, what the file still holds is owed.
HRestart ==
    /\ Restart
    /\ protectedUntil' = [k \in Keys |->
          IF file'[k].until > now' /\ file'[k].reason \in Protected
          THEN file'[k].until ELSE 0]
    /\ streakUntil' = Nobody
    /\ raisedAt' = Nobody

HNext ==
    \/ \E r \in Requests, outcome \in Outcome : HRelease(r, outcome)
    \/ \E k \in Keys : HQuotaReopened(k)
    \/ \E changed \in SUBSET Keys : HActivate(changed)
    \/ HRestart
    \/ /\ \/ Acquire
          \/ \E r \in Requests : CancelAttempt(r)
          \/ \E candidates \in SUBSET Models : ListDeployments(candidates)
          \/ KeyPoolStatus
          \/ \E ok \in WriteResults : PersistTimer(ok) \/ SafetyNetTimer(ok)
          \/ Tick
       /\ UNCHANGED history

HSpec == HInit /\ [][HNext]_hvars

-----------------------------------------------------------------------------
(* Properties.                                                             *)

\* The point of the protected reasons (quota_429, auth_401, proxy_transport):
\* a late success of a request that started earlier, or any mix of other
\* outcomes, never makes the key usable before the promised time.  Only a
\* reopened quota, a new configuration or a lost file may.
ProtectedCooldownHolds ==
    \A k \in Keys : now < protectedUntil[k] => health[k].badUntil >= protectedUntil[k]

\* "A mixed-error streak protects an unhealthy upstream from continued traffic":
\* while the streak stands, the block it imposed stands too, whatever outcomes
\* and resets come in between.
StreakStillBlocked ==
    \A k \in Keys : now < streakUntil[k] => health[k].badUntil >= streakUntil[k]

\* "Safety net for SIGKILL/OOM": a restart after successful writes loses no
\* cooldown that was set longer than the write delay ago.
CrashLosesOnlyRecent ==
    [][Restart =>
        \A k \in Keys :
            (healthy /\ health[k].badUntil > now' /\ now > raisedAt[k] + PersistDelay) =>
                health'[k].badUntil = health[k].badUntil]_hvars
=============================================================================
