-------------------------------- MODULE MCBudget --------------------------------
(* Two vendors, one of them with a cap that one request can fill; three          *)
(* requests, one of them logical.                                                *)
EXTENDS VendorBudget

CONSTANTS capped, uncapped

VendorCaps == [v \in Vendors |-> IF v = capped THEN 2 ELSE 0]
TwoCharges == {[credits |-> 1, cny |-> 1], [credits |-> 0, cny |-> 0]}
================================================================================
