------------------------------ MODULE MCEgress ------------------------------
(***************************************************************************)
(* An instance of the sticky egress for model checking: one sticky-auto    *)
(* deployment, which prefers node "a", and one the configuration pins to   *)
(* one node or the other.                                                  *)
(***************************************************************************)
EXTENDS Egress, TLC

TwoRanks == << [a |-> 1, b |-> 2], [a |-> 2, b |-> 1] >>

TwoPins == {<<NoNode, node>> : node \in Nodes}
=============================================================================
