----------------------------- MODULE MCLogical -----------------------------
(***************************************************************************)
(* An instance of the logical dispatcher for model checking: one key       *)
(* serves two strong models with a single slot, a paced one of a vendor    *)
(* with a ceiling serves one of them.  A protected task and the plain use  *)
(* of one logical model share its limit.                                   *)
(***************************************************************************)
EXTENDS LogicalDispatch, TLC

CONSTANTS guarded, common

MCKeyPolicy ==
    [k1 |-> [vendor |-> "bounded", cap |-> 1, interval |-> 0],
     k2 |-> [vendor |-> "capped", cap |-> 2, interval |-> 1]]

MCVendorPolicy ==
    [bounded |-> [limit |-> 2, unboundedModel |-> FALSE],
     capped  |-> [limit |-> 1, unboundedModel |-> TRUE]]

MCModelCap == [big |-> 1, mid |-> 1]

MCSupports ==
    {[key |-> "k1", model |-> "big"], [key |-> "k1", model |-> "mid"],
     [key |-> "k2", model |-> "big"]}

Guarded ==
    [logical |-> "balanced", task |-> "classify",
     place |-> [big |-> 1, mid |-> 2],
     candidates |-> {"big", "mid"}, matching |-> {"big", "mid"}, strategy |-> "ordered",
     protected |-> TRUE, readySlots |-> 1, maxInflight |-> 2, maxAttempts |-> 2,
     deadline |-> 2, admission |-> 0]

Common ==
    [Guarded EXCEPT !.task = "balanced", !.strategy = "fair", !.protected = FALSE,
                    !.readySlots = 0, !.maxInflight = 1, !.admission = 1]

MCRoute == guarded :> Guarded @@ common :> Common
=============================================================================
