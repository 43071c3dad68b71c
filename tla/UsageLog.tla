------------------------------- MODULE UsageLog -------------------------------
(***************************************************************************)
(* What the usage ledger promises to the readers of its files, without     *)
(* files: they find the accepted rows, in the order of their appends and   *)
(* each once.  The oldest rows expire.  Any other row may only be lost by  *)
(* a failure, which the ledger reports (healthy turns FALSE), or by a      *)
(* kill, which takes the last ones.                                        *)
(***************************************************************************)
EXTENDS Naturals

CONSTANT Rows           \* the rows of usage.log, numbered in the order of append

VARIABLES rows,         \* the rows a reader can or will be able to read
          ordered,      \* whether it finds them in their order, each once
          healthy,      \* status().healthy of the ledger
          faults        \* failures and kills so far

vars == <<rows, ordered, healthy, faults>>

Init == rows = {} /\ ordered = TRUE /\ healthy = TRUE /\ faults = 0

Accept(r) ==
    /\ \A q \in rows : q < r
    /\ rows' = rows \cup {r}
    /\ UNCHANGED <<ordered, healthy, faults>>

Expire(olds) ==
    /\ \A q \in olds, r \in rows \ olds : q < r
    /\ rows' = rows \ olds
    /\ UNCHANGED <<ordered, healthy, faults>>

Fail ==
    /\ faults' = faults + 1
    /\ healthy' = FALSE
    /\ rows' \in SUBSET rows
    /\ UNCHANGED ordered

Kill(news) ==
    /\ \A q \in rows \ news, r \in news : q < r
    /\ rows' = rows \ news
    /\ healthy' = TRUE
    /\ faults' = faults + 1
    /\ UNCHANGED ordered

Restart == healthy' = TRUE /\ UNCHANGED <<rows, ordered, faults>>

Next ==
    \/ \E r \in Rows : Accept(r)
    \/ \E olds \in SUBSET rows : Expire(olds)
    \/ Fail
    \/ \E news \in SUBSET rows : Kill(news)
    \/ Restart

Spec == Init /\ [][Next]_vars
===============================================================================
