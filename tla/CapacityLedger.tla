--------------------------- MODULE CapacityLedger ---------------------------
(***************************************************************************)
(* What the key pool promises about concurrency, with no counters: a       *)
(* request holds at most one lease, a ceiling limits how many requests     *)
(* hold leases of one kind at once, and a lease is taken only below every  *)
(* ceiling it falls under.  A restart gives every lease back.              *)
(***************************************************************************)
EXTENDS Integers, FiniteSets

CONSTANTS
    Requests,
    Leases,
    NoLease,
    Ceilings    \* records [leases, max]: at most max holders of one of `leases`

VARIABLE holder

HoldersUnder(c) == {r \in Requests : holder[r] \in c.leases}

HasRoom(lease) ==
    \A c \in Ceilings : lease \in c.leases => Cardinality(HoldersUnder(c)) < c.max

Take(r) ==
    /\ holder[r] = NoLease
    /\ \E lease \in Leases : /\ HasRoom(lease)
                             /\ holder' = [holder EXCEPT ![r] = lease]

GiveBack(r) ==
    /\ holder[r] # NoLease
    /\ holder' = [holder EXCEPT ![r] = NoLease]

GiveBackAll == holder' = [r \in Requests |-> NoLease]

LedgerInit == holder = [r \in Requests |-> NoLease]

LedgerNext == GiveBackAll \/ \E r \in Requests : Take(r) \/ GiveBack(r)

LedgerSpec == LedgerInit /\ [][LedgerNext]_holder
=============================================================================
