---------------------------- MODULE MCGeneration ----------------------------
(***************************************************************************)
(* One request for a physical route and one for a logical model, while the *)
(* files change twice and may be broken in between.                        *)
(***************************************************************************)
EXTENDS RuntimeGeneration
=============================================================================
