------------------------------- MODULE MCOrdinary -------------------------------
(* Two requests of one route with two keys; a cooldown is either short enough    *)
(* to be slept through or longer than any request.                               *)
EXTENDS OrdinaryDispatch

OneSlot == [k \in Keys |-> 1]
BackoffTimes == [i \in 0 .. MaxRetries |-> IF i = 0 THEN 0 ELSE 1]
================================================================================
