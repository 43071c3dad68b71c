-------------------------- MODULE MCKeyPoolHistory --------------------------
(***************************************************************************)
(* An instance of the key pool with its history variables: one key behind  *)
(* a bound egress node, three overlapping requests, every outcome, writes  *)
(* of the cooldown file that succeed or fail, crashes and restarts.        *)
(***************************************************************************)
EXTENDS KeyPoolHistory, MCKeyPool

HealthPolicy == [f \in PolicyFields |->
    CASE f \in {"consecutive403Threshold", "consecutive5xxThreshold",
                "consecutiveErrorThreshold",
                "cooldown429Max", "burstErrorCooldown"} -> 2
      [] f \in {"cooldown403", "cooldown5xx", "persistent5xxCooldown"} -> 3
      [] OTHER -> 1]
HealthPool == 0 :> [Key("shared", 3, 1, 3, 1, "none", {}) EXCEPT
                       !.relay = TRUE, !.sticky = TRUE, !.auth401Cooldown = 3]
HealthOutcomes == Plain(Statuses) \cup {[status |-> "429", retryAfter |-> 3]}
=============================================================================
