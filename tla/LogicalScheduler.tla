-------------------------- MODULE LogicalScheduler --------------------------
(***************************************************************************)
(* How a logical request finds the deployment (a key and one of its        *)
(* models) for its next attempt: the eligibility of a deployment, the free *)
(* slots of strong models, the choice among the candidates and the delay   *)
(* before the next look.                                                   *)
(*                                                                         *)
(* Scores are left out: they order deployments that are all allowed, so    *)
(* any of them may be the best one.                                        *)
(***************************************************************************)
EXTENDS Integers, FiniteSets, FiniteSetsExt

CONSTANTS
    Keys,
    Models,
    Strong,       \* the models of quality tier "strong"
    BackoffBase,  \* failureBackoffBaseMs
    BackoffMax,   \* failureBackoffMaxMs
    ShortRetry    \* shortRetryMs

Pairs == [key : Keys, model : Models]

ASSUME SchedulerAssumption ==
    /\ IsFiniteSet(Keys)
    /\ IsFiniteSet(Models)
    /\ Strong \subseteq Models
    /\ {BackoffBase, BackoffMax, ShortRetry} \subseteq Nat \ {0}
    /\ BackoffBase <= BackoffMax

-----------------------------------------------------------------------------
(* Qualification: the last validated answers of a deployment.              *)

Qualifications ==
    [outcome : {"none", "valid", "invalid"}, failures : Nat, nextProbe : Nat]

Unqualified == [outcome |-> "none", failures |-> 0, nextProbe |-> 0]

\* qualificationBackoffMs, of n failures in a row
Backoff(n) == Min({BackoffMax, BackoffBase * 2^(n - 1)})

\* record
Recorded(q, valid, now) ==
    LET n == q.failures + 1
    IN  IF valid THEN [outcome |-> "valid", failures |-> 0, nextProbe |-> 0]
        ELSE [outcome |-> "invalid", failures |-> n, nextProbe |-> now + Backoff(n)]

-----------------------------------------------------------------------------
(* Eligibility.  Deployments that can never be used (no credential, blocked *)
(* vendor) are left out.                                                   *)

\* Mutant of Evaluate: a failed deployment is probed without a rest.
EvaluateRestless(shut, waits, full, q, now) ==
    LET ahead == {t \in waits : t > now}
    IN  IF shut \/ ahead # {}
        THEN [state |-> "cooldown", recoveryAt |-> IF ahead = {} THEN 0 ELSE Max(ahead)]
        ELSE [state |-> IF full THEN "congested"
                        ELSE IF q.outcome = "valid" THEN "ready" ELSE "probing",
              recoveryAt |-> 0]

\* evaluateCandidate.  `shut`: egress or quota keeps the key out of use;
\* `waits`: the times its cooldowns end; `full`: a ceiling is reached.
Evaluate(shut, waits, full, q, now) ==
    LET ahead == {t \in waits \cup (IF q.outcome = "invalid" THEN {q.nextProbe} ELSE {}) : t > now}
    IN  IF shut \/ ahead # {}
        THEN [state |-> "cooldown", recoveryAt |-> IF ahead = {} THEN 0 ELSE Max(ahead)]
        ELSE [state |-> IF full THEN "congested"
                        ELSE IF q.outcome = "valid" THEN "ready" ELSE "probing",
              recoveryAt |-> 0]

Dispatchable(e) == e.state \in {"probing", "ready"}

\* Mutant of RetryDelay: it sleeps until a recovery after the deadline.
RetryDelayBeyond(entries, now, deadline) ==
    LET ahead == {e.recoveryAt : e \in {f \in entries :
                     f.state = "cooldown" /\ f.recoveryAt > now}}
    IN  IF ahead # {} THEN Min(ahead) - now
        ELSE IF \E e \in entries : e.state \in {"congested", "probing"}
        THEN Min({ShortRetry, deadline - now})
        ELSE 0

\* nextEligibilityRetryDelay over the eligibilities of the deployments left; a
\* recovery in sight goes before the short retry.
RetryDelay(entries, now, deadline) ==
    LET ahead == {e.recoveryAt : e \in {f \in entries :
                     f.state = "cooldown" /\ f.recoveryAt > now /\ f.recoveryAt < deadline}}
    IN  IF ahead # {} THEN Min(ahead) - now
        ELSE IF \E e \in entries : e.state \in {"congested", "probing"}
        THEN Min({ShortRetry, deadline - now})
        ELSE 0

-----------------------------------------------------------------------------
(* Slots kept for protected requests.                                      *)

\* One by one: the slots that each of S has free, and how many these are.
Slots(free, S) == UNION {{x} \X (1 .. free[x]) : x \in S}
Total(free, S) == Cardinality(Slots(free, S))

\* Mutant of SlotFlow: a slot of a key counts once for every model it serves.
SlotFlowSummed(pairs, keyFree, modelFree) ==
    MapThenSumSet(LAMBDA p : Min({keyFree[p.key], modelFree[p.model]}), pairs)

\* maximumSlotFlow: how many requests can be served at once by these
\* deployments, which is the smallest cut between their keys and models.
SlotFlow(pairs, keyFree, modelFree) ==
    Min({Total(keyFree, cut)
         + Total(modelFree, {p.model : p \in {q \in pairs : q.key \notin cut}})
            : cut \in SUBSET {p.key : p \in pairs}})

-----------------------------------------------------------------------------
(* Choice.                                                                 *)

\* selectLogicalCandidate.  `best` is the best deployment of every candidate
\* model that has one; `attempts` counts those made on a model, `place` is its
\* position in the list of candidates.
Selections(best, strategy, entry, attempts, place) ==
    LET found == DOMAIN best
        ready == {m \in found : entry[best[m]].state = "ready"}
        top   == IF ready = {} THEN found ELSE ready
        round == {m \in top : \A o \in top : attempts[m] <= attempts[o]}
        first == {m \in round : \A o \in round : place[m] <= place[o]}
    IN  {best[m] : m \in IF strategy = "adaptive" THEN top
                         ELSE IF strategy = "ordered" THEN first ELSE round}
=============================================================================
