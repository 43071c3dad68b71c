------------------------------- MODULE MCQuota -------------------------------
(***************************************************************************)
(* One managed deployment, open at first, with two requests that may both  *)
(* bring evidence against it while a probe of it is under way.             *)
(***************************************************************************)
EXTENDS QuotaHistory, TLC

OnePolicy == << [initiallyOpen |-> TRUE, probeInterval |-> 1, boostWindow |-> 1] >>

RequestSymmetry == Permutations(Requests)
=============================================================================
