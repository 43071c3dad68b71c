----------------------------- MODULE MCKeyPool -----------------------------
(***************************************************************************)
(* An instance of the key pool for model checking.                         *)
(*                                                                         *)
(* Slots: three keys of two vendors.  Vendor "shared" has two keys under   *)
(* one ceiling; vendor "direct" is an unbounded bridge whose requests do   *)
(* not count against the governed model.  Few outcomes, many requests.     *)
(***************************************************************************)
EXTENDS KeyPool, TLC

Key(vendor, init, min, max, weight, rateMode, models) ==
    [vendor |-> vendor, capInitial |-> init, capMin |-> min, capMax |-> max,
     weight |-> weight, rate |-> [mode |-> rateMode, limit |-> 1],
     relay |-> FALSE, sticky |-> FALSE, auth401Cooldown |-> 0, logical |-> models]

Vendor(ceiling, unbounded, weighted) ==
    [limited |-> ceiling > 0, maxInflight |-> ceiling, unboundedKey |-> unbounded,
     unboundedModel |-> unbounded, preferHigherWeight |-> weighted]

AllOnes == [f \in PolicyFields |-> 1]

Plain(statuses) == {[status |-> s, retryAfter |-> 0] : s \in statuses}

SlotsPolicy  == [AllOnes EXCEPT !["cooldown429Max"] = 2]
SlotsPool    == 0 :> Key("shared", 2, 1, 2, 1, "none", {"glm"})
             @@ 1 :> Key("shared", 1, 1, 1, 2, "paced", {"glm"})
             @@ 2 :> Key("direct", 1, 1, 1, 1, "fixed-window", {"glm"})
SlotsVendors == "shared" :> Vendor(2, FALSE, FALSE) @@ "direct" :> Vendor(0, TRUE, TRUE)
SlotsModels  == "glm" :> [governed |-> TRUE, maxInflight |-> 2]
             @@ "raw" :> [governed |-> FALSE, maxInflight |-> 1]
SlotsOutcomes == Plain({"2xx"}) \cup {[status |-> "429", retryAfter |-> 1]}

RequestSymmetry == Permutations(Requests)

OneVendor  == "shared" :> Vendor(0, FALSE, FALSE)
Ungoverned == [m \in {"m1"} |-> [governed |-> FALSE, maxInflight |-> 1]]
=============================================================================
