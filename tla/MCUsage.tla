-------------------------------- MODULE MCUsage --------------------------------
(* Two rows; a file is full after one, the archives after one.  The index and  *)
(* the dashboard do not meet, so a behaviour explored has one of them at work: *)
(* the counters with no sync left, or, within one day, the index with no scan. *)
EXTENDS UsageHistory

OneReader ==
    \/ sync = Idle /\ seen.syncs = MaxSyncs
    \/ scan = Idle /\ clock.day = 1
================================================================================
