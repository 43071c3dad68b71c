--------------------------- MODULE LogicalProofs ---------------------------
(***************************************************************************)
(* For every set of keys, models, vendors, requests and policies: the loop *)
(* of a logical request never selects a deployment it cannot have, the     *)
(* counter of a logical model is the number of its admitted requests, a    *)
(* deployment that failed is left alone for the time of its backoff, and   *)
(* common requests leave the reserve of protected ones alone. The last one *)
(* rests on AttemptsFit: n attempts fit side by side when every cut of the *)
(* slots leaves room for at least n.                                       *)
(***************************************************************************)
EXTENDS LogicalDispatch, FiniteSetTheorems, WellFoundedInduction, TLAPS

(* The larger of two numbers. *)
LEMMA MaxOfTwo ==
  ASSUME NEW a \in Int, NEW b \in Int
  PROVE  Max({a, b}) = IF a >= b THEN a ELSE b
  <1> DEFINE larger == IF a >= b THEN a ELSE b
  <1>1. larger \in {a, b} /\ \A y \in {a, b} : larger >= y
    OBVIOUS
  <1>2. Max({a, b}) \in {a, b} /\ \A y \in {a, b} : Max({a, b}) >= y
    BY <1>1 DEF Max
  <1> HIDE DEF larger
  <1>3. larger = Max({a, b})
    BY <1>1, <1>2
  <1> QED BY <1>3 DEF larger

-----------------------------------------------------------------------------
(* Selection.                                                              *)

(* What is selected is among the deployments given as the best ones. *)
LEMMA SelectionsAmongBest ==
  ASSUME NEW best, NEW strategy, NEW entry, NEW attempts, NEW place,
         NEW p \in Selections(best, strategy, entry, attempts, place)
  PROVE  \E m \in DOMAIN best : p = best[m]
  BY DEF Selections

(* A request selects only among the deployments allowed to it. *)
LEMMA SelectedAllowed ==
  ASSUME NEW r \in Requests, NEW p \in Selected(r)
  PROVE  p \in Allowed(r)
  <1> DEFINE found == {q.model : q \in Allowed(r)}
             entry == [q \in Supports |-> Entry(q)]
             attempts == [m \in Models |-> Cardinality({q \in tried[r] : q.model = m})]
  <1>1. PICK best \in [found -> Allowed(r)] :
           p \in Selections(best, Route[r].strategy, entry, attempts, Route[r].place)
    BY DEF Selected
  <1> HIDE DEF found, entry, attempts
  <1>2. PICK m \in DOMAIN best : p = best[m]
    BY <1>1, SelectionsAmongBest
  <1> QED BY <1>1, <1>2

(* What evaluateCandidate calls dispatchable is open, rested and not full. *)
LEMMA DispatchableMeans ==
  ASSUME NEW closed \in BOOLEAN, NEW waits, NEW full \in BOOLEAN, NEW q, NEW t,
         Dispatchable(Evaluate(closed, waits, full, q, t))
  PROVE  ~ closed /\ ~ full /\ \A w \in waits : ~ (w > t)
  <1> DEFINE ahead == {w \in waits \cup (IF q.outcome = "invalid" THEN {q.nextProbe} ELSE {}) : w > t}
  <1>1. ~ (closed \/ ahead # {})
    BY DEF Evaluate, Dispatchable
  <1>2. ~ full
    BY <1>1 DEF Evaluate, Dispatchable
  <1> QED BY <1>1, <1>2

(* The times that decide whether a deployment may be used are numbers. *)
TimesOK ==
    /\ now \in Int
    /\ keyUntil \in [Keys -> Int]
    /\ paced \in [Keys -> Int]
    /\ pairUntil \in [Supports -> Int]

(* They are numbers at the start. *)
LEMMA TimesInit == Init => TimesOK
  BY DEF Init, TimesOK

(* The larger of two numbers is a number. *)
LEMMA MaxIsNumber ==
  ASSUME NEW a \in Int, NEW b \in Int
  PROVE  Max({a, b}) \in Int
  BY MaxOfTwo

(* Releasing a key keeps its times numbers. *)
LEMMA KeyAfterTimes ==
  ASSUME TimesOK, NEW p, NEW outcome, KeyAfter(p, outcome)
  PROVE  keyUntil' \in [Keys -> Int] /\ pairUntil' \in [Supports -> Int]
  <1>1. now + KeyCooldown \in Int /\ now + PairCooldown \in Int
    BY DispatchAssumption DEF TimesOK
  <1>2. ASSUME NEW k \in Keys
        PROVE  Max({keyUntil[k], now + KeyCooldown}) \in Int
    <2>1. keyUntil[k] \in Int
      BY DEF TimesOK
    <2> QED BY <1>1, <2>1, MaxIsNumber
  <1>3. ASSUME NEW s \in Supports
        PROVE  Max({pairUntil[s], now + PairCooldown}) \in Int
    <2>1. pairUntil[s] \in Int
      BY DEF TimesOK
    <2> QED BY <1>1, <2>1, MaxIsNumber
  <1>4. keyUntil' \in [Keys -> Int]
    BY <1>2 DEF KeyAfter, TimesOK
  <1>5. pairUntil' \in [Supports -> Int]
    <2>1. CASE outcome = "missing"
      BY <1>3, <2>1 DEF KeyAfter, TimesOK
    <2>2. CASE outcome # "missing"
      BY <2>2 DEF KeyAfter, TimesOK
    <2> QED BY <2>1, <2>2
  <1> QED BY <1>4, <1>5

(* Sending an attempt keeps the pacing of the keys numbers. *)
LEMMA SendTimes ==
  ASSUME TimesOK, NEW r, NEW p \in Supports, Send(r, p)
  PROVE  paced' \in [Keys -> Int]
  <1>1. p.key \in Keys
    BY DispatchAssumption DEF Pairs
  <1>2. now + KeyPolicy[p.key].interval \in Int
    BY <1>1, DispatchAssumption DEF TimesOK
  <1> QED BY <1>2 DEF Send, TimesOK

(* Every step keeps them numbers. *)
LEMMA TimesStep == TimesOK /\ [Next]_vars => TimesOK'
  <1> SUFFICES ASSUME TimesOK, [Next]_vars
               PROVE  TimesOK'
    OBVIOUS
  <1>1. ASSUME NEW r \in Requests, Arrive(r) \/ AskAgain(r) \/ Wake(r)
        PROVE  TimesOK'
    BY <1>1 DEF Arrive, AskAgain, Wake, TimesOK, health
  <1>2. ASSUME NEW r \in Requests, Turn(r)
        PROVE  TimesOK'
    <2>1. UNCHANGED <<now, keyUntil, pairUntil>>
      BY <1>2 DEF Turn, health
    <2>2. ASSUME NEW p \in Selected(r)
          PROVE  p \in Supports
      BY <2>2, SelectedAllowed DEF Allowed, Untried, Listed
    <2>3. paced' = paced \/ \E p \in Selected(r) : Send(r, p)
      BY <1>2 DEF Turn
    <2>4. paced' \in [Keys -> Int]
      BY <2>2, <2>3, SendTimes DEF TimesOK
    <2> QED BY <2>1, <2>4 DEF TimesOK
  <1>3. ASSUME NEW r \in Requests, NEW outcome \in Outcomes, Answer(r, outcome)
        PROVE  TimesOK'
    BY <1>3, KeyAfterTimes DEF Answer, TimesOK
  <1>4. ASSUME NEW r \in Requests, Leave(r)
        PROVE  TimesOK'
    <2>1. keyUntil' \in [Keys -> Int] /\ pairUntil' \in [Supports -> Int]
      BY <1>4, KeyAfterTimes DEF Leave, TimesOK
    <2> QED BY <1>4, <2>1 DEF Leave, TimesOK
  <1>5. ASSUME NEW k \in Keys, Reopen(k) \/ \E t \in {0, Min({now + ProbeDelay, MaxTime})} : Shut(k, t)
        PROVE  TimesOK'
    BY <1>5 DEF Reopen, Shut, TimesOK, health
  <1>6. CASE Tick
    BY <1>6 DEF Tick, TimesOK, health
  <1>7. CASE UNCHANGED vars
    BY <1>7 DEF vars, TimesOK, health
  <1> QED BY <1>1, <1>2, <1>3, <1>4, <1>5, <1>6, <1>7 DEF Next, Handler, Surroundings

(* What list lets a request select, acquire grants. *)
LEMMA SelectedAcquirable ==
  ASSUME TimesOK, NEW r \in Requests, NEW p \in Selected(r)
  PROVE  Acquirable(p)
  <1>1. p \in Supports /\ p.key \in Keys /\ Dispatchable(Entry(p))
    BY SelectedAllowed, DispatchAssumption DEF Allowed, Untried, Listed, Pairs
  <1>2. (shut[p.key] # Open) \in BOOLEAN /\ Full(p) \in BOOLEAN
    BY DEF Full, KeyFull, VendorFull, ModelFull
  <1>3. ~ (shut[p.key] # Open) /\ ~ Full(p) /\ \A w \in Waits(p) : ~ (w > now)
    BY <1>1, <1>2, DispatchableMeans DEF Entry
  <1>4. keyUntil[p.key] <= now /\ pairUntil[p] <= now /\ paced[p.key] <= now
    BY <1>1, <1>3 DEF Waits, TimesOK
  <1> QED BY <1>3, <1>4 DEF Acquirable, Full

(* No request ever selects a deployment that acquire would refuse, so the    *)
(* attempt loop of dispatchLogical never goes round without an await.        *)
THEOREM SelectionNeverSpins == Spec => []SelectionIsAcquirable
  <1>1. TimesOK => SelectionIsAcquirable
    BY SelectedAcquirable DEF SelectionIsAcquirable
  <1> QED BY <1>1, TimesInit, TimesStep, PTL DEF Spec

-----------------------------------------------------------------------------
(* Leases.                                                                 *)

Inside == {"turn", "asleep", "sent"}

AdmittedTo(l) == {r \in Admitted : Route[r].logical = l}

LeaseInv ==
    /\ phase \in [Requests -> Phases]
    /\ active \in [Logical -> Nat]
    /\ ActiveExact

(* Only finitely many requests are admitted. *)
LEMMA AdmittedFinite ==
  ASSUME NEW l
  PROVE  IsFiniteSet(AdmittedTo(l))
  <1>1. AdmittedTo(l) \subseteq Requests
    BY DEF AdmittedTo, Admitted
  <1> QED BY <1>1, FS_Subset, DispatchAssumption

(* A request that is admitted neither before nor after a step changes        *)
(* nothing, nor does one that is admitted before and after it.               *)
LEMMA SameAdmitted ==
  ASSUME LeaseInv, NEW r \in Requests, NEW p \in Phases, Becomes(r, p),
         phase[r] \in Inside <=> p \in Inside, UNCHANGED active
  PROVE  LeaseInv'
  <1>1. phase' \in [Requests -> Phases]
    BY DEF LeaseInv, Becomes
  <1>2. Admitted' = Admitted
    BY DEF Admitted, Inside, LeaseInv, Becomes
  <1> QED BY <1>1, <1>2 DEF LeaseInv, ActiveExact

(* A request that enters is counted. *)
LEMMA EnterCounts ==
  ASSUME LeaseInv, NEW r \in Requests, NEW p \in Inside, Becomes(r, p),
         phase[r] \notin Inside, Enter(r)
  PROVE  LeaseInv'
  <1> DEFINE mine == Route[r].logical
  <1>1. mine \in Logical
    BY DispatchAssumption DEF Routes
  <1>2. phase' \in [Requests -> Phases]
    BY DEF LeaseInv, Becomes, Inside, Phases
  <1>3. Admitted' = Admitted \cup {r} /\ r \notin Admitted
    BY DEF Admitted, Inside, LeaseInv, Becomes
  <1>4. active' \in [Logical -> Nat]
    BY <1>1 DEF LeaseInv, Enter
  <1>5. ASSUME NEW l \in Logical
        PROVE  active'[l] = Cardinality({q \in Admitted' : Route[q].logical = l})
    <2>1. active[l] = Cardinality(AdmittedTo(l)) /\ active[l] \in Nat
      BY DEF LeaseInv, ActiveExact, AdmittedTo
    <2>2. CASE l = mine
      <3>1. {q \in Admitted' : Route[q].logical = l} = AdmittedTo(l) \cup {r}
        BY <1>3, <2>2 DEF AdmittedTo
      <3>2. Cardinality(AdmittedTo(l) \cup {r}) = Cardinality(AdmittedTo(l)) + 1
        <4>1. r \notin AdmittedTo(l)
          BY <1>3 DEF AdmittedTo
        <4> QED BY <4>1, FS_AddElement, AdmittedFinite
      <3>3. active'[l] = active[l] + 1
        BY <1>1, <2>2 DEF Enter, LeaseInv
      <3> QED BY <2>1, <3>1, <3>2, <3>3
    <2>3. CASE l # mine
      <3>1. {q \in Admitted' : Route[q].logical = l} = AdmittedTo(l)
        BY <1>3, <2>3 DEF AdmittedTo
      <3>2. active'[l] = active[l]
        BY <1>1, <2>3 DEF Enter, LeaseInv
      <3> QED BY <2>1, <3>1, <3>2
    <2> QED BY <2>2, <2>3
  <1> QED BY <1>2, <1>4, <1>5 DEF LeaseInv, ActiveExact

(* A request that leaves is counted down, and the counter was not zero. *)
LEMMA ReleaseCounts ==
  ASSUME LeaseInv, NEW r \in Requests, Becomes(r, "done"),
         phase[r] \in Inside, Release(r)
  PROVE  LeaseInv'
  <1> DEFINE mine == Route[r].logical
  <1>1. mine \in Logical
    BY DispatchAssumption DEF Routes
  <1>2. phase' \in [Requests -> Phases]
    BY DEF LeaseInv, Becomes, Phases
  <1>3. Admitted' = Admitted \ {r} /\ r \in Admitted
    BY DEF Admitted, Inside, LeaseInv, Becomes
  <1>4. active[mine] = Cardinality(AdmittedTo(mine)) /\ active[mine] \in Nat
    BY <1>1 DEF LeaseInv, ActiveExact, AdmittedTo
  <1>5. r \in AdmittedTo(mine)
    BY <1>3 DEF AdmittedTo
  <1>6. Cardinality(AdmittedTo(mine) \ {r}) = Cardinality(AdmittedTo(mine)) - 1
    BY <1>5, FS_RemoveElement, AdmittedFinite
  <1>7. Cardinality(AdmittedTo(mine) \ {r}) \in Nat
    <2>1. IsFiniteSet(AdmittedTo(mine) \ {r})
      BY AdmittedFinite, FS_RemoveElement
    <2> QED BY <2>1, FS_CardinalityType
  <1>8. Max({0, active[mine] - 1}) = active[mine] - 1
    <2>1. active[mine] - 1 \in Nat
      BY <1>4, <1>6, <1>7
    <2>2. Max({0, active[mine] - 1}) =
             IF 0 >= active[mine] - 1 THEN 0 ELSE active[mine] - 1
      <3>1. 0 \in Int /\ active[mine] - 1 \in Int
        BY <2>1
      <3> QED BY <3>1, MaxOfTwo
    <2> QED BY <2>1, <2>2
  <1>9. active' = [active EXCEPT ![mine] = active[mine] - 1]
    BY <1>8 DEF Release
  <1>10. active' \in [Logical -> Nat]
    BY <1>1, <1>4, <1>6, <1>7, <1>9 DEF LeaseInv
  <1>11. ASSUME NEW l \in Logical
         PROVE  active'[l] = Cardinality({q \in Admitted' : Route[q].logical = l})
    <2>1. CASE l = mine
      <3>1. {q \in Admitted' : Route[q].logical = l} = AdmittedTo(mine) \ {r}
        BY <1>3, <2>1 DEF AdmittedTo
      <3>2. active'[l] = active[mine] - 1
        BY <1>1, <1>9, <2>1 DEF LeaseInv
      <3> QED BY <1>4, <1>6, <3>1, <3>2
    <2>2. CASE l # mine
      <3>1. {q \in Admitted' : Route[q].logical = l} = AdmittedTo(l)
        BY <1>3, <2>2 DEF AdmittedTo
      <3>2. active'[l] = active[l]
        BY <1>1, <1>9, <2>2 DEF LeaseInv
      <3> QED BY <3>1, <3>2 DEF LeaseInv, ActiveExact, AdmittedTo
    <2> QED BY <2>1, <2>2
  <1> QED BY <1>2, <1>10, <1>11 DEF LeaseInv, ActiveExact

(* Nobody is admitted at the start. *)
LEMMA LeaseInit == Init => LeaseInv
  <1> SUFFICES ASSUME Init
               PROVE  LeaseInv
    OBVIOUS
  <1>1. phase \in [Requests -> Phases] /\ active \in [Logical -> Nat]
    BY DEF Init, Phases
  <1>2. Admitted = {}
    BY DEF Init, Admitted
  <1>3. ASSUME NEW l \in Logical
        PROVE  active[l] = Cardinality({r \in Admitted : Route[r].logical = l})
    BY <1>2, FS_EmptySet DEF Init
  <1> QED BY <1>1, <1>3 DEF LeaseInv, ActiveExact

(* A call of enter is counted when it is granted. *)
LEMMA TryEnterCounts ==
  ASSUME LeaseInv, NEW r \in Requests, NEW t, phase[r] \in {"new", "waiting"}, TryEnter(r, t)
  PROVE  LeaseInv'
  <1>1. phase[r] \notin Inside
    BY DEF Inside
  <1>2. CASE Enter(r) /\ Becomes(r, "turn")
    BY <1>1, <1>2, EnterCounts DEF Inside
  <1>3. CASE Becomes(r, "waiting") /\ UNCHANGED leases
    BY <1>1, <1>3, SameAdmitted DEF Inside, Phases, leases
  <1>4. CASE Becomes(r, "done") /\ UNCHANGED leases
    BY <1>1, <1>4, SameAdmitted DEF Inside, Phases, leases
  <1> QED BY <1>2, <1>3, <1>4 DEF TryEnter, SleepsUntil, Ends

(* Every step keeps the counters exact. *)
LEMMA LeaseStep == LeaseInv /\ [Next]_vars => LeaseInv'
  <1> SUFFICES ASSUME LeaseInv, [Next]_vars
               PROVE  LeaseInv'
    OBVIOUS
  <1>1. ASSUME NEW r \in Requests, Arrive(r) \/ AskAgain(r)
        PROVE  LeaseInv'
    <2>1. \E t : phase[r] \in {"new", "waiting"} /\ TryEnter(r, t)
      BY <1>1 DEF Arrive, AskAgain
    <2> QED BY <2>1, TryEnterCounts
  <1>2. ASSUME NEW r \in Requests, Turn(r)
        PROVE  LeaseInv'
    <2>1. phase[r] = "turn"
      BY <1>2 DEF Turn
    <2>2. CASE \E p : Send(r, p) /\ UNCHANGED leases
      BY <2>1, <2>2, SameAdmitted DEF Send, Inside, Phases, leases
    <2>3. CASE UNCHANGED <<phase, leases>>
      BY <2>3 DEF LeaseInv, ActiveExact, Admitted, leases
    <2>4. CASE Becomes(r, "asleep") /\ UNCHANGED leases
      BY <2>1, <2>4, SameAdmitted DEF Inside, Phases, leases
    <2>5. CASE Becomes(r, "done") /\ Release(r)
      BY <2>1, <2>5, ReleaseCounts DEF Inside
    <2> QED BY <1>2, <2>2, <2>3, <2>4, <2>5 DEF Turn, SleepsUntil, Ends
  <1>3. ASSUME NEW r \in Requests, Wake(r)
        PROVE  LeaseInv'
    <2>1. phase[r] = "asleep" /\ Becomes(r, "turn") /\ UNCHANGED leases
      BY <1>3 DEF Wake, SleepsUntil
    <2> QED BY <2>1, SameAdmitted DEF Inside, Phases, leases
  <1>4. ASSUME NEW r \in Requests, NEW outcome \in Outcomes, Answer(r, outcome)
        PROVE  LeaseInv'
    <2>1. phase[r] = "sent"
      BY <1>4 DEF Answer
    <2>2. CASE Becomes(r, "done") /\ Release(r)
      BY <2>1, <2>2, ReleaseCounts DEF Inside
    <2>3. CASE Becomes(r, "turn") /\ UNCHANGED leases
      BY <2>1, <2>3, SameAdmitted DEF Inside, Phases, leases
    <2> QED BY <1>4, <2>2, <2>3 DEF Answer, Ends
  <1>5. ASSUME NEW r \in Requests, Leave(r)
        PROVE  LeaseInv'
    <2>1. Becomes(r, "done")
      BY <1>5 DEF Leave, Ends
    <2>2. CASE phase[r] = "waiting"
      BY <1>5, <2>1, <2>2, SameAdmitted DEF Leave, Inside, Phases, leases
    <2>3. CASE phase[r] \in {"asleep", "sent"}
      BY <1>5, <2>1, <2>3, ReleaseCounts DEF Leave, Inside
    <2> QED BY <1>5, <2>2, <2>3 DEF Leave
  <1>6. CASE UNCHANGED <<phase, active>>
    BY <1>6 DEF LeaseInv, ActiveExact, Admitted
  <1>7. ASSUME Surroundings \/ Tick \/ UNCHANGED vars
        PROVE  UNCHANGED <<phase, active>>
    BY <1>7 DEF Surroundings, Reopen, Shut, Tick, vars, request, leases
  <1> QED BY <1>1, <1>2, <1>3, <1>4, <1>5, <1>6, <1>7 DEF Next, Handler

(* A lease of a logical model is held by exactly the requests between their  *)
(* admission and their end, so its limit is never exceeded nor used up by    *)
(* requests that are gone.                                                   *)
THEOREM ActiveCountExact == Spec => []ActiveExact
  <1>1. LeaseInv => ActiveExact
    BY DEF LeaseInv
  <1> QED BY <1>1, LeaseInit, LeaseStep, PTL DEF Spec

-----------------------------------------------------------------------------
(* Backoff.                                                                *)

(* The smaller of two numbers. *)
LEMMA MinOfTwo ==
  ASSUME NEW a \in Int, NEW b \in Int
  PROVE  Min({a, b}) = IF a <= b THEN a ELSE b
  <1> DEFINE smaller == IF a <= b THEN a ELSE b
  <1>1. smaller \in {a, b} /\ \A y \in {a, b} : smaller <= y
    OBVIOUS
  <1>2. Min({a, b}) \in {a, b} /\ \A y \in {a, b} : Min({a, b}) <= y
    BY <1>1 DEF Min
  <1> HIDE DEF smaller
  <1>3. smaller = Min({a, b})
    BY <1>1, <1>2
  <1> QED BY <1>3 DEF smaller

(* A power of two is the number of subsets of a set of that size, so it      *)
(* grows with its exponent.                                                  *)
LEMMA PowersGrow ==
  ASSUME NEW n \in Nat
  PROVE  2^n \in Nat /\ 2^(n + 1) \in Nat /\ 2^n <= 2^(n + 1)
  <1>1. /\ IsFiniteSet(1 .. n) /\ Cardinality(1 .. n) = n
        /\ IsFiniteSet(1 .. (n + 1)) /\ Cardinality(1 .. (n + 1)) = n + 1
    <2>1. 1 \in Int /\ n \in Int /\ n + 1 \in Int
      OBVIOUS
    <2>2. IsFiniteSet(1 .. n) /\ Cardinality(1 .. n) = IF 1 > n THEN 0 ELSE n - 1 + 1
      BY <2>1, FS_Interval
    <2>3. IsFiniteSet(1 .. (n + 1))
          /\ Cardinality(1 .. (n + 1)) = IF 1 > n + 1 THEN 0 ELSE (n + 1) - 1 + 1
      BY <2>1, FS_Interval
    <2> QED BY <2>2, <2>3
  <1>2. /\ IsFiniteSet(SUBSET (1 .. n)) /\ Cardinality(SUBSET (1 .. n)) = 2^n
        /\ IsFiniteSet(SUBSET (1 .. (n + 1)))
        /\ Cardinality(SUBSET (1 .. (n + 1))) = 2^(n + 1)
    BY <1>1, FS_SUBSET
  <1>3. SUBSET (1 .. n) \in SUBSET (SUBSET (1 .. (n + 1)))
    <2>1. 1 .. n \subseteq 1 .. (n + 1)
      OBVIOUS
    <2> QED BY <2>1, Zenon
  <1>4. Cardinality(SUBSET (1 .. n)) <= Cardinality(SUBSET (1 .. (n + 1)))
    BY <1>2, <1>3, FS_Subset
  <1>5. Cardinality(SUBSET (1 .. n)) \in Nat /\ Cardinality(SUBSET (1 .. (n + 1))) \in Nat
    BY <1>2, FS_CardinalityType
  <1> QED BY <1>2, <1>4, <1>5

(* One more failure never shortens the rest of a deployment. *)
LEMMA BackoffGrows ==
  ASSUME NEW n \in Nat \ {0}
  PROVE  Backoff(n) \in Nat /\ Backoff(n + 1) \in Nat /\ Backoff(n) <= Backoff(n + 1)
  <1> DEFINE low  == 2^(n - 1)
             high == 2^((n + 1) - 1)
  <1>1. low \in Nat /\ high \in Nat /\ low <= high
    <2>1. n - 1 \in Nat /\ (n - 1) + 1 = (n + 1) - 1
      OBVIOUS
    <2>2. 2^(n - 1) \in Nat /\ 2^((n - 1) + 1) \in Nat /\ 2^(n - 1) <= 2^((n - 1) + 1)
      BY <2>1, PowersGrow
    <2> QED BY <2>1, <2>2
  <1>2. Backoff(n) = Min({BackoffMax, BackoffBase * low})
        /\ Backoff(n + 1) = Min({BackoffMax, BackoffBase * high})
    BY DEF Backoff
  <1> HIDE DEF low, high
  <1>3. BackoffMax \in Nat /\ BackoffBase \in Nat
    BY SchedulerAssumption
  <1> DEFINE small == BackoffBase * low
             large == BackoffBase * high
  <1>4. small \in Nat /\ large \in Nat /\ small <= large
    BY <1>1, <1>3
  <1> HIDE DEF small, large
  <1>5. /\ Min({BackoffMax, small}) = IF BackoffMax <= small THEN BackoffMax ELSE small
        /\ Min({BackoffMax, large}) = IF BackoffMax <= large THEN BackoffMax ELSE large
    <2>1. BackoffMax \in Int /\ small \in Int /\ large \in Int
      BY <1>3, <1>4
    <2> QED BY <2>1, MinOfTwo
  <1>6. /\ Min({BackoffMax, small}) \in Nat /\ Min({BackoffMax, large}) \in Nat
        /\ Min({BackoffMax, small}) <= Min({BackoffMax, large})
    BY <1>3, <1>4, <1>5
  <1> QED BY <1>2, <1>6 DEF small, large

(* An attempt under way is on a deployment, and the rest of a deployment is  *)
(* no longer than the backoff of its failures from now.                      *)
Records == [outcome : {"none", "valid", "invalid"}, failures : Nat, nextProbe : Int]

RestInv ==
    /\ sent \in [Requests -> Supports \cup {NoPair}]
    /\ \A r \in Requests : phase[r] = "sent" => sent[r] \in Supports
    /\ qual \in [Supports -> Records]
    /\ \A p \in Supports : qual[p].outcome = "invalid" =>
          /\ qual[p].failures \in Nat \ {0}
          /\ qual[p].nextProbe <= now + Backoff(qual[p].failures)

\* What the time does to a rest.
Rests(q, t) == q.outcome = "invalid" =>
    q.failures \in Nat \ {0} /\ q.nextProbe <= t + Backoff(q.failures)

(* Nothing is sent and nothing rests at the start. *)
LEMMA RestInit == Init => RestInv
  <1> SUFFICES ASSUME Init
               PROVE  RestInv
    OBVIOUS
  <1>1. qual \in [Supports -> Records] /\ \A p \in Supports : qual[p].outcome # "invalid"
    BY DEF Init, Unqualified, Records
  <1>2. sent \in [Requests -> Supports \cup {NoPair}]
        /\ \A r \in Requests : phase[r] # "sent"
    BY DEF Init
  <1> QED BY <1>1, <1>2 DEF RestInv

(* The record of an answer rests as long as its failures ask for, and no     *)
(* shorter than the record it replaces.                                      *)
LEMMA RecordedRests ==
  ASSUME NEW q \in Records, NEW t \in Int, Rests(q, t), NEW good \in BOOLEAN
  PROVE  /\ Recorded(q, good, t) \in Records
         /\ Rests(Recorded(q, good, t), t)
         /\ q.outcome = "invalid" =>
               \/ Recorded(q, good, t).outcome = "valid"
               \/ Recorded(q, good, t).nextProbe >= q.nextProbe
  <1> DEFINE n == q.failures + 1
             rest == Backoff(n)
  <1>1. n \in Nat \ {0} /\ rest \in Nat
    <2>1. q.failures \in Nat
      BY DEF Records
    <2>2. n \in Nat \ {0}
      BY <2>1
    <2> QED BY <2>2, BackoffGrows
  <1>2. CASE good
    BY <1>2 DEF Recorded, Records, Rests
  <1>3. CASE ~ good
    <2>1. Recorded(q, good, t) = [outcome |-> "invalid", failures |-> n, nextProbe |-> t + rest]
      BY <1>3 DEF Recorded
    <2>2. q.outcome = "invalid" => q.nextProbe <= t + rest
      <3> SUFFICES ASSUME q.outcome = "invalid"
                   PROVE  q.nextProbe <= t + rest
        OBVIOUS
      <3>1. q.failures \in Nat \ {0} /\ q.nextProbe <= t + Backoff(q.failures)
        BY DEF Rests
      <3>2. Backoff(q.failures) \in Nat /\ Backoff(q.failures) <= rest
        BY <3>1, BackoffGrows
      <3> DEFINE before == Backoff(q.failures)
      <3> HIDE DEF before, rest
      <3>3. q.nextProbe \in Int /\ q.nextProbe <= t + before /\ before \in Nat /\ before <= rest
        BY <3>1, <3>2 DEF Records, before
      <3> QED BY <1>1, <3>3
    <2> HIDE DEF n, rest
    <2>3. Recorded(q, good, t) \in Records
      BY <1>1, <2>1 DEF Records
    <2>4. Rests(Recorded(q, good, t), t)
      BY <1>1, <2>1 DEF Rests, n, rest
    <2> QED BY <2>1, <2>2, <2>3, <2>4
  <1> QED BY <1>2, <1>3

(* A later look finds the rest no longer than it was. *)
LEMMA RestsOn ==
  ASSUME NEW q \in Records, NEW t \in Int, Rests(q, t)
  PROVE  Rests(q, t + 1)
  <1> SUFFICES ASSUME q.outcome = "invalid"
               PROVE  q.nextProbe <= t + 1 + Backoff(q.failures)
    BY DEF Rests
  <1>1. q.failures \in Nat \ {0} /\ q.nextProbe <= t + Backoff(q.failures)
    BY DEF Rests
  <1> DEFINE rest == Backoff(q.failures)
  <1>2. rest \in Nat /\ q.nextProbe \in Int
    BY <1>1, BackoffGrows DEF Records
  <1>3. q.nextProbe <= t + rest
    BY <1>1
  <1> HIDE DEF rest
  <1>4. q.nextProbe <= t + 1 + rest
    BY <1>2, <1>3
  <1> QED BY <1>4 DEF rest

(* The invariant in terms of one record. *)
LEMMA RestForm ==
  RestInv <=> /\ sent \in [Requests -> Supports \cup {NoPair}]
              /\ \A r \in Requests : phase[r] = "sent" => sent[r] \in Supports
              /\ qual \in [Supports -> Records]
              /\ \A p \in Supports : Rests(qual[p], now)
  BY DEF RestInv, Rests

(* A request that is not sent by a step, or is sent to a deployment, leaves  *)
(* attempts on deployments.                                                  *)
LEMMA SentStays ==
  ASSUME LeaseInv, RestInv, NEW r \in Requests, NEW p \in Phases, Becomes(r, p),
         \/ p # "sent" /\ UNCHANGED sent
         \/ \E s \in Supports \cup {NoPair} : /\ sent' = [sent EXCEPT ![r] = s]
                                              /\ p = "sent" => s \in Supports
  PROVE  /\ sent' \in [Requests -> Supports \cup {NoPair}]
         /\ \A q \in Requests : phase'[q] = "sent" => sent'[q] \in Supports
  <1>1. phase' = [phase EXCEPT ![r] = p] /\ phase \in [Requests -> Phases]
    BY DEF Becomes, LeaseInv
  <1>2. sent \in [Requests -> Supports \cup {NoPair}]
        /\ \A q \in Requests : phase[q] = "sent" => sent[q] \in Supports
    BY DEF RestInv
  <1>3. CASE p # "sent" /\ UNCHANGED sent
    BY <1>1, <1>2, <1>3
  <1>4. ASSUME NEW s \in Supports \cup {NoPair}, sent' = [sent EXCEPT ![r] = s],
               p = "sent" => s \in Supports
        PROVE  /\ sent' \in [Requests -> Supports \cup {NoPair}]
               /\ \A q \in Requests : phase'[q] = "sent" => sent'[q] \in Supports
    BY <1>1, <1>2, <1>4
  <1> QED BY <1>3, <1>4

(* A refused or granted call of enter sends nothing. *)
LEMMA TryEnterSends ==
  ASSUME LeaseInv, RestInv, NEW r \in Requests, NEW t, TryEnter(r, t)
  PROVE  /\ sent' \in [Requests -> Supports \cup {NoPair}]
         /\ \A q \in Requests : phase'[q] = "sent" => sent'[q] \in Supports
  <1>1. CASE Becomes(r, "turn") /\ UNCHANGED sent
    BY <1>1, SentStays DEF Phases
  <1>2. CASE Becomes(r, "waiting") /\ UNCHANGED sent
    BY <1>2, SentStays DEF Phases
  <1>3. CASE Becomes(r, "done") /\ sent' = [sent EXCEPT ![r] = NoPair]
    BY <1>3, SentStays DEF Phases
  <1> QED BY <1>1, <1>2, <1>3 DEF TryEnter, SleepsUntil, Ends

(* Every step keeps the rests within the backoff. *)
LEMMA RestStep == LeaseInv /\ TimesOK /\ RestInv /\ [Next]_vars => RestInv'
  <1> SUFFICES ASSUME LeaseInv, TimesOK, RestInv, [Next]_vars
               PROVE  RestInv'
    OBVIOUS
  <1> DEFINE Sound == /\ sent' \in [Requests -> Supports \cup {NoPair}]
                      /\ \A q \in Requests : phase'[q] = "sent" => sent'[q] \in Supports
  <1>a. ASSUME Sound, UNCHANGED <<now, qual>>
        PROVE  RestInv'
    BY <1>a DEF RestInv
  <1>1. ASSUME NEW r \in Requests, Arrive(r) \/ AskAgain(r)
        PROVE  RestInv'
    <2>1. UNCHANGED <<now, qual>> /\ \E t : TryEnter(r, t)
      BY <1>1 DEF Arrive, AskAgain, health
    <2> QED BY <1>a, <2>1, TryEnterSends
  <1>2. ASSUME NEW r \in Requests, Turn(r)
        PROVE  RestInv'
    <2>1. UNCHANGED <<now, qual>>
      BY <1>2 DEF Turn, health
    <2>2. ASSUME NEW p \in Selected(r), Send(r, p)
          PROVE  Sound
      <3>1. p \in Supports
        BY SelectedAllowed DEF Allowed, Untried, Listed
      <3> QED BY <2>2, <3>1, SentStays DEF Send, Phases
    <2>3. Sound
      <3>1. CASE UNCHANGED <<phase, sent>>
        BY <3>1 DEF RestInv
      <3>2. CASE Becomes(r, "asleep") /\ UNCHANGED sent
        BY <3>2, SentStays DEF Phases
      <3>3. CASE Becomes(r, "done") /\ sent' = [sent EXCEPT ![r] = NoPair]
        BY <3>3, SentStays DEF Phases
      <3> QED BY <1>2, <2>2, <3>1, <3>2, <3>3 DEF Turn, SleepsUntil, Ends
    <2> QED BY <1>a, <2>1, <2>3
  <1>3. ASSUME NEW r \in Requests, Wake(r)
        PROVE  RestInv'
    <2>1. UNCHANGED <<now, qual, sent>> /\ Becomes(r, "turn")
      BY <1>3 DEF Wake, SleepsUntil, health
    <2> QED BY <1>a, <2>1, SentStays DEF Phases
  <1>4. ASSUME NEW r \in Requests, NEW outcome \in Outcomes, Answer(r, outcome)
        PROVE  RestInv'
    <2> DEFINE p == sent[r]
               good == outcome = "valid"
    <2>1. p \in Supports /\ now' = now
      BY <1>4 DEF Answer, RestInv
    <2>2. Sound
      <3>1. CASE Becomes(r, "done") /\ sent' = [sent EXCEPT ![r] = NoPair]
        BY <3>1, SentStays DEF Phases
      <3>2. CASE Becomes(r, "turn") /\ sent' = [sent EXCEPT ![r] = NoPair]
        BY <3>2, SentStays DEF Phases
      <3> QED BY <1>4, <3>1, <3>2 DEF Answer, Ends
    <2>3. qual' = [qual EXCEPT ![p] = Recorded(qual[p], good, now)]
      BY <1>4 DEF Answer
    <2>4. qual \in [Supports -> Records] /\ \A s \in Supports : Rests(qual[s], now)
      BY RestForm
    <2>5. now \in Int /\ good \in BOOLEAN
      BY DEF TimesOK
    <2>6. Recorded(qual[p], good, now) \in Records /\ Rests(Recorded(qual[p], good, now), now)
      BY <2>1, <2>4, <2>5, RecordedRests
    <2> DEFINE fresh == Recorded(qual[p], good, now)
    <2> HIDE DEF p, good, fresh
    <2>7. qual' \in [Supports -> Records] /\ \A s \in Supports : Rests(qual'[s], now')
      BY <2>1, <2>3, <2>4, <2>6 DEF fresh
    <2> QED BY <2>2, <2>7 DEF RestInv, Rests
  <1>5. ASSUME NEW r \in Requests, Leave(r)
        PROVE  RestInv'
    <2>1. UNCHANGED <<now, qual>> /\ Becomes(r, "done") /\ sent' = [sent EXCEPT ![r] = NoPair]
      BY <1>5 DEF Leave, Ends
    <2> QED BY <1>a, <2>1, SentStays DEF Phases
  <1>6. CASE Tick
    <2>1. now' = now + 1 /\ UNCHANGED <<phase, sent, qual>> /\ now \in Int
      BY <1>6 DEF Tick, request, health, TimesOK
    <2>2. qual \in [Supports -> Records] /\ \A s \in Supports : Rests(qual[s], now)
      BY RestForm
    <2>3. \A s \in Supports : Rests(qual'[s], now')
      BY <2>1, <2>2, RestsOn
    <2>4. /\ sent' \in [Requests -> Supports \cup {NoPair}]
          /\ \A q \in Requests : phase'[q] = "sent" => sent'[q] \in Supports
          /\ qual' \in [Supports -> Records]
      BY <2>1 DEF RestInv
    <2> QED BY <2>3, <2>4 DEF RestInv, Rests
  <1>7. CASE Surroundings \/ UNCHANGED vars
    <2>1. UNCHANGED <<now, qual, phase, sent>>
      BY <1>7 DEF Surroundings, Reopen, Shut, vars, request, health
    <2> QED BY <2>1 DEF RestInv
  <1> QED BY <1>1, <1>2, <1>3, <1>4, <1>5, <1>6, <1>7 DEF Next, Handler

(* What evaluateCandidate calls dispatchable does not rest. *)
LEMMA DispatchableRested ==
  ASSUME NEW closed \in BOOLEAN, NEW waits, NEW full \in BOOLEAN, NEW q, NEW t,
         Dispatchable(Evaluate(closed, waits, full, q, t))
  PROVE  ~ (q.outcome = "invalid" /\ q.nextProbe > t)
  <1> DEFINE ahead == {w \in waits \cup (IF q.outcome = "invalid" THEN {q.nextProbe} ELSE {}) : w > t}
  <1>1. ~ (closed \/ ahead # {})
    BY DEF Evaluate, Dispatchable
  <1> QED BY <1>1

(* What list lets a request select does not rest. *)
LEMMA SelectedRested ==
  ASSUME NEW r \in Requests, NEW p \in Selected(r)
  PROVE  ~ Resting(p)
  <1>1. Dispatchable(Entry(p))
    BY SelectedAllowed DEF Allowed
  <1>2. (shut[p.key] # Open) \in BOOLEAN /\ Full(p) \in BOOLEAN
    BY DEF Full, KeyFull, VendorFull, ModelFull
  <1> QED BY <1>1, <1>2, DispatchableRested DEF Entry, Resting

(* A step starts an attempt only on a deployment the request selects. *)
LEMMA SendsSelected ==
  ASSUME LeaseInv, RestInv, Next,
         NEW r \in Requests, phase[r] = "turn", phase'[r] = "sent"
  PROVE  sent'[r] \in Selected(r)
  <1>0. phase \in [Requests -> Phases] /\ sent \in [Requests -> Supports \cup {NoPair}]
    BY DEF LeaseInv, RestInv
  <1>1. ASSUME NEW q \in Requests
        PROVE  /\ ~ Becomes(q, "turn") /\ ~ Becomes(q, "waiting")
               /\ ~ Becomes(q, "asleep") /\ ~ Becomes(q, "done")
    BY <1>0 DEF Becomes
  <1>2. ~ UNCHANGED phase
    OBVIOUS
  <1>3. ASSUME NEW q \in Requests, Handler(q)
        PROVE  \E s \in Selected(q) : Send(q, s)
    <2>1. CASE Arrive(q) \/ AskAgain(q)
      <3>1. \E t : TryEnter(q, t)
        BY <2>1 DEF Arrive, AskAgain
      <3> QED BY <1>1, <3>1 DEF TryEnter, SleepsUntil, Ends
    <2>2. CASE Turn(q)
      BY <1>1, <1>2, <2>2 DEF Turn, SleepsUntil, Ends
    <2>3. CASE Wake(q) \/ Leave(q) \/ \E outcome \in Outcomes : Answer(q, outcome)
      BY <1>1, <2>3 DEF Wake, Leave, Answer, SleepsUntil, Ends
    <2> QED BY <1>3, <2>1, <2>2, <2>3 DEF Handler
  <1>4. ASSUME Surroundings \/ Tick
        PROVE  UNCHANGED phase
    BY <1>4 DEF Surroundings, Reopen, Shut, Tick, request
  <1>5. PICK q \in Requests : \E s \in Selected(q) : Send(q, s)
    BY <1>2, <1>3, <1>4 DEF Next
  <1>6. PICK s \in Selected(q) : Send(q, s)
    BY <1>5
  <1>7. q = r
    BY <1>0, <1>6 DEF Send, Becomes
  <1>8. sent'[r] = s
    BY <1>0, <1>6, <1>7 DEF Send
  <1> QED BY <1>6, <1>7, <1>8

(* No step starts an attempt on a resting deployment. *)
LEMMA RestingIsLeft ==
  ASSUME LeaseInv, RestInv, Next, NEW p \in Supports, Resting(p),
         NEW r \in Requests, phase[r] = "turn", phase'[r] = "sent"
  PROVE  sent'[r] # p
  BY SendsSelected, SelectedRested

(* No step shortens a rest but a valid answer, which ends it. *)
LEMMA RestingIsKept ==
  ASSUME TimesOK, RestInv, Next, NEW p \in Supports, Resting(p)
  PROVE  qual'[p].outcome = "valid" \/ qual'[p].nextProbe >= qual[p].nextProbe
  <1>0. qual \in [Supports -> Records] /\ (\A s \in Supports : Rests(qual[s], now))
        /\ now \in Int /\ qual[p].outcome = "invalid" /\ qual[p].nextProbe \in Int
    BY RestForm DEF TimesOK, Resting, Records
  <1>1. ASSUME NEW r \in Requests, NEW outcome \in Outcomes, Answer(r, outcome)
        PROVE  qual'[p].outcome = "valid" \/ qual'[p].nextProbe >= qual[p].nextProbe
    <2> DEFINE good == outcome = "valid"
    <2>1. qual' = [qual EXCEPT ![sent[r]] = Recorded(qual[sent[r]], good, now)]
      BY <1>1 DEF Answer
    <2>2. CASE sent[r] = p
      <3>1. qual'[p] = Recorded(qual[p], good, now)
        BY <1>0, <2>1, <2>2
      <3>2. good \in BOOLEAN
        OBVIOUS
      <3> HIDE DEF good
      <3>3. \/ Recorded(qual[p], good, now).outcome = "valid"
            \/ Recorded(qual[p], good, now).nextProbe >= qual[p].nextProbe
        BY <1>0, <3>2, RecordedRests
      <3> QED BY <3>1, <3>3
    <2>3. CASE sent[r] # p
      <3>1. qual'[p] = qual[p]
        BY <1>0, <2>1, <2>3
      <3> QED BY <1>0, <3>1
    <2> QED BY <2>2, <2>3
  <1>2. ASSUME UNCHANGED qual
        PROVE  qual'[p].nextProbe >= qual[p].nextProbe
    BY <1>0, <1>2
  <1>3. ASSUME NEW r \in Requests, Arrive(r) \/ AskAgain(r) \/ Turn(r) \/ Wake(r) \/ Leave(r)
        PROVE  UNCHANGED qual
    BY <1>3 DEF Arrive, AskAgain, Turn, Wake, Leave, health
  <1>4. ASSUME Surroundings \/ Tick
        PROVE  UNCHANGED qual
    BY <1>4 DEF Surroundings, Reopen, Shut, Tick, health
  <1> QED BY <1>1, <1>2, <1>3, <1>4 DEF Next, Handler

(* A deployment that answered invalidly is left alone until its backoff is   *)
(* over, however many attempts on it are still under way: their failures     *)
(* never bring its end forward, only a valid answer does.                    *)
THEOREM BackoffIsKept == Spec => BackoffHolds
  <1> DEFINE Kept == \A p \in Supports : Resting(p) =>
          /\ qual'[p].outcome = "valid" \/ qual'[p].nextProbe >= qual[p].nextProbe
          /\ \A r \in Requests : (phase[r] = "turn" /\ phase'[r] = "sent") => sent'[r] # p
  <1>1. LeaseInv /\ TimesOK /\ RestInv /\ [Next]_vars => [Kept]_vars
    BY RestingIsLeft, RestingIsKept
  <1>2. Spec => [](LeaseInv /\ TimesOK /\ RestInv)
    BY LeaseInit, LeaseStep, TimesInit, TimesStep, RestInit, RestStep, PTL DEF Spec
  <1> QED BY <1>1, <1>2, PTL DEF Spec, BackoffHolds

-----------------------------------------------------------------------------
(* How many attempts fit side by side: slots, cuts and flows.              *)

(* A set of numbers that is not empty has a least element. *)
LEMMA LeastNumber ==
  ASSUME NEW S \in SUBSET Nat, S # {}
  PROVE  \E x \in S : \A y \in S : x <= y
  <1>1. PICK x \in S : \A y \in S : ~ (<<y, x>> \in OpToRel(<, Nat))
    BY NatLessThanWellFounded, WFMin
  <1>2. ASSUME NEW y \in S
        PROVE  x <= y
    <2>1. <<y, x>> \in Nat \X Nat
      OBVIOUS
    <2>2. ~ (y < x)
      BY <1>1, <2>1 DEF OpToRel
    <2> QED BY <2>2
  <1> QED BY <1>2

(* The slots of two sets: none is counted twice, and none of either is missed. *)
LEMMA SlotsOfSets ==
  ASSUME NEW f, NEW S, NEW T
  PROVE  /\ Slots(f, S \cup T) = Slots(f, S) \cup Slots(f, T)
         /\ Slots(f, S \cap T) = Slots(f, S) \cap Slots(f, T)
         /\ S \subseteq T => Slots(f, S) \subseteq Slots(f, T)
  BY DEF Slots

(* Finitely many have finitely many slots. *)
LEMMA SlotsFinite ==
  ASSUME NEW S, IsFiniteSet(S), NEW f, \A x \in S : f[x] \in Nat
  PROVE  IsFiniteSet(Slots(f, S)) /\ Total(f, S) \in Nat
  <1> DEFINE part == [x \in S |-> {x} \X (1 .. f[x])]
             parts == {part[x] : x \in S}
  <1>1. IsFiniteSet(parts)
    <2>1. part \in Surjection(S, parts)
      BY DEF Surjection
    <2> QED BY <2>1, FS_Surjection
  <1>2. ASSUME NEW x \in S
        PROVE  IsFiniteSet(part[x])
    <2>1. IsFiniteSet({x}) /\ IsFiniteSet(1 .. f[x])
      <3>1. f[x] \in Int
        OBVIOUS
      <3>2. IsFiniteSet(1 .. f[x])
        BY <3>1, FS_Interval
      <3>3. IsFiniteSet({x})
        BY FS_Singleton
      <3> QED BY <3>2, <3>3
    <2> QED BY <2>1, FS_Product
  <1>3. IsFiniteSet(UNION parts)
    BY <1>1, <1>2, FS_UNION
  <1>4. UNION parts = Slots(f, S)
    BY DEF Slots
  <1> QED BY <1>3, <1>4, FS_CardinalityType DEF Total

(* Fewer have no more slots. *)
LEMMA FewerSlots ==
  ASSUME NEW T, IsFiniteSet(T), NEW f, \A x \in T : f[x] \in Nat, NEW S \in SUBSET T
  PROVE  Total(f, S) \in Nat /\ Total(f, T) \in Nat /\ Total(f, S) <= Total(f, T)
  <1>1. IsFiniteSet(S)
    BY FS_Subset
  <1>2. IsFiniteSet(Slots(f, T)) /\ Total(f, T) \in Nat /\ Total(f, S) \in Nat
    BY <1>1, SlotsFinite
  <1>3. Slots(f, S) \in SUBSET Slots(f, T)
    BY SlotsOfSets
  <1> QED BY <1>2, <1>3, FS_Subset DEF Total

(* What two sets have is what their union and their intersection have. *)
LEMMA SlotsOfUnion ==
  ASSUME NEW S, NEW T, IsFiniteSet(S), IsFiniteSet(T), NEW f, \A x \in S \cup T : f[x] \in Nat
  PROVE  Total(f, S \cup T) + Total(f, S \cap T) = Total(f, S) + Total(f, T)
  <1>1. IsFiniteSet(S \cap T)
    BY FS_Intersection
  <1>2. /\ IsFiniteSet(Slots(f, S)) /\ IsFiniteSet(Slots(f, T))
        /\ Total(f, S) \in Nat /\ Total(f, T) \in Nat /\ Total(f, S \cap T) \in Nat
    BY <1>1, SlotsFinite
  <1>3. Cardinality(Slots(f, S) \cup Slots(f, T))
           = Total(f, S) + Total(f, T) - Cardinality(Slots(f, S) \cap Slots(f, T))
    BY <1>2, FS_Union DEF Total
  <1>4. Cardinality(Slots(f, S) \cup Slots(f, T)) = Total(f, S \cup T)
        /\ Cardinality(Slots(f, S) \cap Slots(f, T)) = Total(f, S \cap T)
    BY SlotsOfSets DEF Total
  <1> QED BY <1>2, <1>3, <1>4

(* One slot more. *)
LEMMA OneSlotMore ==
  ASSUME NEW S, IsFiniteSet(S), NEW f, NEW g, NEW k,
         \A x \in S : f[x] \in Nat /\ g[x] = IF x = k THEN f[x] + 1 ELSE f[x]
  PROVE  Total(g, S) = Total(f, S) + (IF k \in S THEN 1 ELSE 0)
  <1>1. IsFiniteSet(Slots(f, S)) /\ Total(f, S) \in Nat
    BY SlotsFinite
  <1>2. CASE k \in S
    <2>1. Slots(g, S) = Slots(f, S) \cup {<<k, f[k] + 1>>}
      <3>1. f[k] \in Nat
        BY <1>2
      <3>2. 1 .. (f[k] + 1) = (1 .. f[k]) \cup {f[k] + 1}
        BY <3>1
      <3>3. {k} \X (1 .. g[k]) = ({k} \X (1 .. f[k])) \cup {<<k, f[k] + 1>>}
        BY <1>2, <3>2
      <3>4. \A x \in S \ {k} : {x} \X (1 .. g[x]) = {x} \X (1 .. f[x])
        OBVIOUS
      <3> QED BY <1>2, <3>3, <3>4 DEF Slots
    <2>2. <<k, f[k] + 1>> \notin Slots(f, S)
      <3>1. f[k] \in Nat
        BY <1>2
      <3> QED BY <3>1 DEF Slots
    <2> QED BY <1>1, <1>2, <2>1, <2>2, FS_AddElement DEF Total
  <1>3. CASE k \notin S
    <2>1. Slots(g, S) = Slots(f, S)
      BY <1>3 DEF Slots
    <2> QED BY <1>1, <1>3, <2>1 DEF Total
  <1> QED BY <1>2, <1>3

(* Whoever has a slot has a slot that counts. *)
LEMMA SomeSlot ==
  ASSUME NEW S, IsFiniteSet(S), NEW f, \A x \in S : f[x] \in Nat
  PROVE  (\A x \in S : f[x] = 0) => Total(f, S) = 0
  <1> SUFFICES ASSUME \A x \in S : f[x] = 0
               PROVE  Total(f, S) = 0
    OBVIOUS
  <1>1. Slots(f, S) = {}
    BY DEF Slots
  <1> QED BY <1>1, FS_EmptySet DEF Total

\* The cuts of SlotFlow: some of the keys, and the models of the other keys.
KeysOf(pairs) == {p.key : p \in pairs}
Beyond(pairs, cut) == {p.model : p \in {q \in pairs : q.key \notin cut}}
CutSize(pairs, a, b, cut) == Total(a, cut) + Total(b, Beyond(pairs, cut))

\* n attempts side by side on these deployments: f tells how many on each.
Fits(f, pairs, a, b, n) ==
    /\ f \in [pairs -> 0 .. n]
    /\ Total(f, pairs) = n
    /\ \A k \in Keys : Total(f, {p \in pairs : p.key = k}) <= a[k]
    /\ \A m \in Models : Total(f, {p \in pairs : p.model = m}) <= b[m]

(* There are finitely many deployments. *)
LEMMA PairsFinite ==
  ASSUME NEW pairs \in SUBSET Pairs
  PROVE  /\ IsFiniteSet(pairs) /\ IsFiniteSet(KeysOf(pairs))
         /\ KeysOf(pairs) \in SUBSET Keys
         /\ \A cut : IsFiniteSet(Beyond(pairs, cut)) /\ Beyond(pairs, cut) \in SUBSET Models
  <1>1. IsFiniteSet(Keys) /\ IsFiniteSet(Models)
    BY SchedulerAssumption
  <1> DEFINE make == [x \in Keys \X Models |-> [key |-> x[1], model |-> x[2]]]
  <1>2. IsFiniteSet(Keys \X Models)
    BY <1>1, FS_Product
  <1>3. make \in Surjection(Keys \X Models, Pairs)
    <2>1. make \in [Keys \X Models -> Pairs]
      BY DEF Pairs
    <2>2. ASSUME NEW p \in Pairs
          PROVE  \E x \in Keys \X Models : make[x] = p
      <3>1. <<p.key, p.model>> \in Keys \X Models /\ p = [key |-> p.key, model |-> p.model]
        BY DEF Pairs
      <3> QED BY <3>1
    <2> QED BY <2>1, <2>2 DEF Surjection
  <1>4. IsFiniteSet(Pairs)
    BY <1>2, <1>3, FS_Surjection
  <1>5. IsFiniteSet(pairs)
    BY <1>4, FS_Subset
  <1>6. KeysOf(pairs) \in SUBSET Keys /\ \A cut : Beyond(pairs, cut) \in SUBSET Models
    BY DEF KeysOf, Beyond, Pairs
  <1> QED BY <1>1, <1>5, <1>6, FS_Subset

(* Cuts have sizes, and those of a union and of an intersection are not larger. *)
LEMMA CutsCross ==
  ASSUME NEW pairs \in SUBSET Pairs, NEW a \in [Keys -> Nat], NEW b \in [Models -> Nat],
         NEW C \in SUBSET KeysOf(pairs), NEW D \in SUBSET KeysOf(pairs)
  PROVE  /\ CutSize(pairs, a, b, C) \in Nat
         /\ CutSize(pairs, a, b, C \cup D) + CutSize(pairs, a, b, C \cap D)
               <= CutSize(pairs, a, b, C) + CutSize(pairs, a, b, D)
  <1> DEFINE X == Beyond(pairs, C)
             Y == Beyond(pairs, D)
  <1>1. IsFiniteSet(C) /\ IsFiniteSet(D) /\ \A x \in C \cup D : a[x] \in Nat
    BY PairsFinite, FS_Subset
  <1>2. IsFiniteSet(X) /\ IsFiniteSet(Y) /\ \A x \in X \cup Y : b[x] \in Nat
    BY PairsFinite
  <1>3. Beyond(pairs, C \cap D) = X \cup Y /\ Beyond(pairs, C \cup D) \in SUBSET (X \cap Y)
    BY DEF Beyond
  <1>4. /\ Total(a, C) \in Nat /\ Total(a, D) \in Nat
        /\ Total(a, C \cup D) \in Nat /\ Total(a, C \cap D) \in Nat
        /\ Total(a, C \cup D) + Total(a, C \cap D) = Total(a, C) + Total(a, D)
    <2>1. IsFiniteSet(C \cup D) /\ IsFiniteSet(C \cap D)
      BY <1>1, FS_Union, FS_Intersection
    <2> QED BY <1>1, <2>1, SlotsFinite, SlotsOfUnion
  <1>5. /\ Total(b, X) \in Nat /\ Total(b, Y) \in Nat
        /\ Total(b, X \cup Y) \in Nat /\ Total(b, X \cap Y) \in Nat
        /\ Total(b, X \cup Y) + Total(b, X \cap Y) = Total(b, X) + Total(b, Y)
        /\ Total(b, Beyond(pairs, C \cup D)) \in Nat
        /\ Total(b, Beyond(pairs, C \cup D)) <= Total(b, X \cap Y)
    <2> HIDE DEF X, Y
    <2>1. IsFiniteSet(X \cup Y) /\ IsFiniteSet(X \cap Y)
      BY <1>2, FS_Union, FS_Intersection
    <2> QED BY <1>2, <1>3, <2>1, SlotsFinite, SlotsOfUnion, FewerSlots
  <1>6. /\ CutSize(pairs, a, b, C) = Total(a, C) + Total(b, X)
        /\ CutSize(pairs, a, b, D) = Total(a, D) + Total(b, Y)
        /\ CutSize(pairs, a, b, C \cap D) = Total(a, C \cap D) + Total(b, X \cup Y)
        /\ CutSize(pairs, a, b, C \cup D) = Total(a, C \cup D) + Total(b, Beyond(pairs, C \cup D))
    BY <1>3 DEF CutSize
  <1> HIDE DEF X, Y
  <1> QED BY <1>4, <1>5, <1>6

(* An attempt more, on a deployment whose key and model have a slot more. *)
LEMMA OneAttemptMore ==
  ASSUME NEW pairs \in SUBSET Pairs, NEW a \in [Keys -> Nat], NEW b \in [Models -> Nat],
         NEW q \in pairs, NEW n \in Nat, a[q.key] > 0, b[q.model] > 0,
         NEW f, Fits(f, pairs, [a EXCEPT ![q.key] = @ - 1], [b EXCEPT ![q.model] = @ - 1], n)
  PROVE  \E g : Fits(g, pairs, a, b, n + 1)
  <1> DEFINE g == [f EXCEPT ![q] = @ + 1]
  <1>0. q.key \in Keys /\ q.model \in Models
    BY DEF Pairs
  <1>1. f \in [pairs -> 0 .. n]
    BY DEF Fits
  <1>2. g \in [pairs -> 0 .. (n + 1)]
    BY <1>1
  <1>3. ASSUME NEW S \in SUBSET pairs
        PROVE  Total(f, S) \in Nat /\ Total(g, S) = Total(f, S) + (IF q \in S THEN 1 ELSE 0)
    <2>1. IsFiniteSet(S)
      BY PairsFinite, FS_Subset
    <2>2. \A x \in S : f[x] \in Nat /\ g[x] = IF x = q THEN f[x] + 1 ELSE f[x]
      BY <1>1
    <2> HIDE DEF g
    <2> QED BY <2>1, <2>2, SlotsFinite, OneSlotMore
  <1> HIDE DEF g
  <1>4. Total(g, pairs) = n + 1
    BY <1>3 DEF Fits
  <1>5. ASSUME NEW k \in Keys
        PROVE  Total(g, {p \in pairs : p.key = k}) <= a[k]
    <2> DEFINE S == {p \in pairs : p.key = k}
    <2>1. Total(f, S) \in Nat /\ Total(g, S) = Total(f, S) + (IF q \in S THEN 1 ELSE 0)
      BY <1>3
    <2>2. Total(f, S) <= [a EXCEPT ![q.key] = @ - 1][k]
      BY DEF Fits
    <2>3. q \in S <=> k = q.key
      OBVIOUS
    <2> HIDE DEF S
    <2>4. Total(g, S) <= a[k]
      BY <1>0, <2>1, <2>2, <2>3
    <2> QED BY <2>4 DEF S
  <1>6. ASSUME NEW m \in Models
        PROVE  Total(g, {p \in pairs : p.model = m}) <= b[m]
    <2> DEFINE S == {p \in pairs : p.model = m}
    <2>1. Total(f, S) \in Nat /\ Total(g, S) = Total(f, S) + (IF q \in S THEN 1 ELSE 0)
      BY <1>3
    <2>2. Total(f, S) <= [b EXCEPT ![q.model] = @ - 1][m]
      BY DEF Fits
    <2>3. q \in S <=> m = q.model
      OBVIOUS
    <2> HIDE DEF S
    <2>4. Total(g, S) <= b[m]
      BY <1>0, <2>1, <2>2, <2>3
    <2> QED BY <2>4 DEF S
  <1> QED BY <1>2, <1>4, <1>5, <1>6 DEF Fits

(* No attempt always fits. *)
LEMMA NothingFits ==
  ASSUME NEW pairs \in SUBSET Pairs, NEW a \in [Keys -> Nat], NEW b \in [Models -> Nat]
  PROVE  \E f : Fits(f, pairs, a, b, 0)
  <1> DEFINE f == [p \in pairs |-> 0]
  <1>1. ASSUME NEW S \in SUBSET pairs
        PROVE  Total(f, S) = 0
    <2>1. IsFiniteSet(S) /\ \A x \in S : f[x] = 0
      BY PairsFinite, FS_Subset
    <2> HIDE DEF f
    <2>2. \A x \in S : f[x] \in Nat
      BY <2>1
    <2> QED BY <2>1, <2>2, SomeSlot
  <1>2. f \in [pairs -> 0 .. 0]
    OBVIOUS
  <1> HIDE DEF f
  <1> QED BY <1>1, <1>2 DEF Fits

\* No cut is smaller than n.
Covers(pairs, a, b, n) == \A cut \in SUBSET KeysOf(pairs) : CutSize(pairs, a, b, cut) >= n

(* Keys of which one has a slot less. *)
LEMMA OneKeyLess ==
  ASSUME NEW S \in SUBSET Keys, IsFiniteSet(S), NEW a \in [Keys -> Nat], NEW k \in S, a[k] > 0
  PROVE  Total(a, S) = Total([a EXCEPT ![k] = @ - 1], S) + 1
  <1> DEFINE less == [a EXCEPT ![k] = @ - 1]
  <1>1. \A x \in S : less[x] \in Nat /\ a[x] = IF x = k THEN less[x] + 1 ELSE less[x]
    OBVIOUS
  <1> HIDE DEF less
  <1>2. Total(a, S) = Total(less, S) + 1
    BY <1>1, OneSlotMore
  <1> QED BY <1>2 DEF less

(* A key that every cut could do with one slot less of. *)
LEMMA SpareSlot ==
  ASSUME NEW pairs \in SUBSET Pairs, NEW a \in [Keys -> Nat], NEW b \in [Models -> Nat], NEW n \in Nat,
         Covers(pairs, a, b, n), NEW k \in KeysOf(pairs), a[k] > 0,
         \A cut \in SUBSET KeysOf(pairs) : k \in cut => CutSize(pairs, a, b, cut) > n
  PROVE  Covers(pairs, [a EXCEPT ![k] = @ - 1], b, n)
  <1> DEFINE less == [a EXCEPT ![k] = @ - 1]
  <1> SUFFICES ASSUME NEW cut \in SUBSET KeysOf(pairs)
               PROVE  CutSize(pairs, less, b, cut) >= n
    BY DEF Covers
  <1>1. IsFiniteSet(cut) /\ cut \subseteq Keys /\ k \in Keys
    BY PairsFinite, FS_Subset
  <1>2. Total(a, cut) = Total(less, cut) + (IF k \in cut THEN 1 ELSE 0) /\ Total(less, cut) \in Nat
    <2>1. \A x \in cut : less[x] \in Nat /\ a[x] = IF x = k THEN less[x] + 1 ELSE less[x]
      BY <1>1
    <2> HIDE DEF less
    <2> QED BY <1>1, <2>1, OneSlotMore, SlotsFinite
  <1>3. Total(b, Beyond(pairs, cut)) \in Nat
    <2>1. IsFiniteSet(Beyond(pairs, cut)) /\ \A m \in Beyond(pairs, cut) : b[m] \in Nat
      BY PairsFinite
    <2> QED BY <2>1, SlotsFinite
  <1>4. CutSize(pairs, a, b, cut) >= n /\ (k \in cut => CutSize(pairs, a, b, cut) > n)
    BY DEF Covers
  <1> HIDE DEF less
  <1> QED BY <1>2, <1>3, <1>4 DEF CutSize

(* Of a key that some cut needs to the last slot, the smallest such cut leaves  *)
(* a model over to which one of the slots can go: no other cut misses both.     *)
LEMMA NeededSlot ==
  ASSUME NEW pairs \in SUBSET Pairs, NEW a \in [Keys -> Nat], NEW b \in [Models -> Nat], NEW n \in Nat,
         Covers(pairs, a, b, n + 1), NEW k \in KeysOf(pairs), a[k] > 0,
         NEW tight \in SUBSET KeysOf(pairs), k \in tight, CutSize(pairs, a, b, tight) = n + 1
  PROVE  \E q \in pairs : /\ q.key = k /\ b[q.model] > 0
                          /\ Covers(pairs, [a EXCEPT ![k] = @ - 1], [b EXCEPT ![q.model] = @ - 1], n)
  <1> DEFINE Tight == {C \in SUBSET KeysOf(pairs) : k \in C /\ CutSize(pairs, a, b, C) = n + 1}
             Sizes == {Cardinality(C) : C \in Tight}
  <1>0. \A C \in SUBSET KeysOf(pairs) : IsFiniteSet(C) /\ C \subseteq Keys /\ Cardinality(C) \in Nat
    BY PairsFinite, FS_Subset, FS_CardinalityType
  <1>1. Sizes \in SUBSET Nat /\ Sizes # {}
    BY <1>0
  <1>2. PICK A \in Tight : \A C \in Tight : Cardinality(A) <= Cardinality(C)
    <2>1. PICK c \in Sizes : \A d \in Sizes : c <= d
      <3> HIDE DEF Sizes
      <3> QED BY <1>1, LeastNumber
    <2> QED BY <2>1
  <1>3. ASSUME NEW C \in Tight
        PROVE  A \subseteq C
    <2>1. /\ CutSize(pairs, a, b, A \cup C) + CutSize(pairs, a, b, A \cap C) <= (n + 1) + (n + 1)
          /\ CutSize(pairs, a, b, A \cup C) \in Nat /\ CutSize(pairs, a, b, A \cap C) \in Nat
      <3>1. A \cup C \in SUBSET KeysOf(pairs) /\ A \cap C \in SUBSET KeysOf(pairs)
        OBVIOUS
      <3>2. CutSize(pairs, a, b, A) = n + 1 /\ CutSize(pairs, a, b, C) = n + 1
        OBVIOUS
      <3> QED BY <3>1, <3>2, CutsCross
    <2>2. CutSize(pairs, a, b, A \cup C) >= n + 1 /\ CutSize(pairs, a, b, A \cap C) >= n + 1
      BY DEF Covers
    <2>3. CutSize(pairs, a, b, A \cap C) = n + 1
      BY <2>1, <2>2
    <2>4. A \cap C \in Tight
      BY <2>3
    <2>5. Cardinality(A) <= Cardinality(A \cap C)
      BY <1>2, <2>4
    <2>6. IsFiniteSet(A) /\ Cardinality(A) \in Nat /\ Cardinality(A \cap C) \in Nat
      BY <1>0
    <2>7. Cardinality(A \cap C) = Cardinality(A)
      BY <2>5, <2>6, FS_Intersection
    <2> QED BY <2>6, <2>7, FS_Subset
  <1> DEFINE rest == A \ {k}
             X == Beyond(pairs, A)
             Y == Beyond(pairs, rest)
  <1>4. PICK m \in Y \ X : b[m] > 0
    <2> SUFFICES ASSUME \A m \in Y \ X : b[m] = 0
                 PROVE  FALSE
      <3>1. \A m \in Y \ X : b[m] \in Nat
        BY PairsFinite
      <3> HIDE DEF X, Y
      <3> QED BY <3>1
    <2>1. X \subseteq Y /\ IsFiniteSet(X) /\ IsFiniteSet(Y) /\ X \subseteq Models /\ Y \subseteq Models
      BY PairsFinite DEF Beyond
    <2>2. Total(b, Y) = Total(b, X)
      <3>1. Slots(b, Y) = Slots(b, X)
        BY <2>1 DEF Slots
      <3> QED BY <3>1 DEF Total
    <2>3. Total(b, X) \in Nat
      <3>1. \A x \in X : b[x] \in Nat
        BY <2>1
      <3> HIDE DEF X
      <3> QED BY <2>1, <3>1, SlotsFinite
    <2>4. Total(a, A) > Total(a, rest) /\ Total(a, A) \in Nat /\ Total(a, rest) \in Nat
      <3> DEFINE none == [x \in A |-> IF x = k THEN 0 ELSE a[x]]
      <3>1. Slots(a, A) = Slots(a, rest) \cup ({k} \X (1 .. a[k]))
        BY DEF Slots
      <3>2. <<k, 1>> \in Slots(a, A) /\ <<k, 1>> \notin Slots(a, rest)
        <4>1. a[k] \in Nat
          BY PairsFinite
        <4> QED BY <3>1, <4>1 DEF Slots
      <3>3. IsFiniteSet(A) /\ IsFiniteSet(rest) /\ \A x \in A : a[x] \in Nat
        BY <1>0
      <3>4. IsFiniteSet(Slots(a, A)) /\ Total(a, A) \in Nat /\ Total(a, rest) \in Nat
        BY <3>3, SlotsFinite
      <3>5. Slots(a, rest) \in SUBSET Slots(a, A)
        BY <3>1
      <3>6. Total(a, rest) <= Total(a, A) /\ Total(a, rest) # Total(a, A)
        BY <3>2, <3>4, <3>5, FS_Subset DEF Total
      <3> QED BY <3>4, <3>6
    <2>5. CutSize(pairs, a, b, rest) >= n + 1 /\ CutSize(pairs, a, b, A) = n + 1
      BY DEF Covers
    <2> QED BY <2>2, <2>3, <2>4, <2>5 DEF CutSize
  <1>5. PICK q \in pairs : q.key = k /\ q.model = m
    BY <1>4 DEF Beyond
  <1> DEFINE a1 == [a EXCEPT ![k] = @ - 1]
             b1 == [b EXCEPT ![m] = @ - 1]
  <1>6. ASSUME NEW C \in SUBSET KeysOf(pairs)
        PROVE  CutSize(pairs, a1, b1, C) >= n
    <2> DEFINE Z == Beyond(pairs, C)
    <2>1. IsFiniteSet(C) /\ C \subseteq Keys /\ k \in Keys /\ m \in Models
          /\ IsFiniteSet(Z) /\ Z \subseteq Models
      BY <1>0, <1>4, PairsFinite
    <2>2. Total(a, C) = Total(a1, C) + (IF k \in C THEN 1 ELSE 0) /\ Total(a1, C) \in Nat
      <3>1. \A x \in C : a1[x] \in Nat /\ a[x] = IF x = k THEN a1[x] + 1 ELSE a1[x]
        BY <2>1
      <3> HIDE DEF a1
      <3> QED BY <2>1, <3>1, OneSlotMore, SlotsFinite
    <2>3. Total(b, Z) = Total(b1, Z) + (IF m \in Z THEN 1 ELSE 0) /\ Total(b1, Z) \in Nat
      <3>1. \A x \in Z : b1[x] \in Nat /\ b[x] = IF x = m THEN b1[x] + 1 ELSE b1[x]
        BY <1>4, <2>1
      <3> HIDE DEF Z, b1
      <3> QED BY <1>4, <2>1, <3>1, OneSlotMore, SlotsFinite
    <2>4. CutSize(pairs, a, b, C) >= n + 1
      BY DEF Covers
    <2>5. k \in C /\ m \in Z => CutSize(pairs, a, b, C) # n + 1
      <3> SUFFICES ASSUME k \in C, CutSize(pairs, a, b, C) = n + 1
                   PROVE  m \notin Z
        OBVIOUS
      <3>1. A \subseteq C
        BY <1>3
      <3>2. Z \subseteq X
        BY <3>1 DEF Beyond
      <3> QED BY <1>4, <3>2
    <2> HIDE DEF a1, b1, Z
    <2>6. CutSize(pairs, a, b, C) = Total(a, C) + Total(b, Z)
          /\ CutSize(pairs, a1, b1, C) = Total(a1, C) + Total(b1, Z)
      BY DEF CutSize, Z
    <2> QED BY <2>2, <2>3, <2>4, <2>5, <2>6
  <1>7. Covers(pairs, a1, b1, n)
    BY <1>6 DEF Covers
  <1> QED BY <1>4, <1>5, <1>7

(* The largest number of attempts that fit side by side is the size of the      *)
(* smallest cut: as many fit as no cut is smaller than.                         *)
LEMMA AttemptsFit ==
  ASSUME NEW pairs \in SUBSET Pairs, NEW a0 \in [Keys -> Nat], NEW b0 \in [Models -> Nat],
         NEW n0 \in Nat, Covers(pairs, a0, b0, n0)
  PROVE  \E f : Fits(f, pairs, a0, b0, n0)
  <1> DEFINE Counter(a, b, n) == Covers(pairs, a, b, n) /\ ~ \E f : Fits(f, pairs, a, b, n)
             Bad == {s \in Nat : \E a \in [Keys -> Nat], b \in [Models -> Nat], n \in Nat :
                                    s = Total(a, KeysOf(pairs)) /\ Counter(a, b, n)}
  <1>0. IsFiniteSet(KeysOf(pairs)) /\ KeysOf(pairs) \subseteq Keys
    BY PairsFinite
  <1>1. ASSUME NEW a \in [Keys -> Nat]
        PROVE  Total(a, KeysOf(pairs)) \in Nat
    BY <1>0, SlotsFinite
  <1> SUFFICES ASSUME Counter(a0, b0, n0)
               PROVE  FALSE
    OBVIOUS
  <1>2. Bad \in SUBSET Nat /\ Bad # {}
    BY <1>1
  <1>3. PICK s \in Bad : \A t \in Bad : s <= t
    BY <1>2, LeastNumber
  <1>4. PICK a \in [Keys -> Nat], b \in [Models -> Nat], n \in Nat :
           s = Total(a, KeysOf(pairs)) /\ Counter(a, b, n)
    BY <1>3
  <1>5. ASSUME NEW k \in KeysOf(pairs), a[k] > 0, NEW c \in [Models -> Nat], NEW i \in Nat,
               Covers(pairs, [a EXCEPT ![k] = @ - 1], c, i)
        PROVE  \E f : Fits(f, pairs, [a EXCEPT ![k] = @ - 1], c, i)
    <2> DEFINE less == [a EXCEPT ![k] = @ - 1]
    <2>1. k \in Keys
      BY <1>0
    <2>2. less \in [Keys -> Nat] /\ Total(a, KeysOf(pairs)) = Total(less, KeysOf(pairs)) + 1
      <3>1. less \in [Keys -> Nat]
        BY <1>5, <2>1
      <3>2. Total(a, KeysOf(pairs)) = Total(less, KeysOf(pairs)) + 1
        BY <1>0, <1>5, OneKeyLess
      <3> QED BY <3>1, <3>2
    <2> HIDE DEF less
    <2>3. Total(less, KeysOf(pairs)) \in Nat /\ Total(less, KeysOf(pairs)) < s
      BY <1>1, <1>4, <2>2
    <2>4. Total(less, KeysOf(pairs)) \notin Bad
      BY <1>3, <2>3
    <2>5. ~ Counter(less, c, i)
      BY <2>2, <2>3, <2>4
    <2> QED BY <1>5, <2>5 DEF less
  <1> HIDE DEF Bad
  <1>6. n > 0
    <2>1. n # 0
      BY <1>4, NothingFits
    <2> QED BY <1>4, <2>1
  <1>7. PICK k \in KeysOf(pairs) : a[k] > 0
    <2> SUFFICES ASSUME \A k \in KeysOf(pairs) : a[k] = 0
                 PROVE  FALSE
      BY <1>0
    <2>1. CutSize(pairs, a, b, KeysOf(pairs)) = 0
      <3>1. Beyond(pairs, KeysOf(pairs)) = {}
        BY DEF Beyond, KeysOf
      <3>2. Total(b, {}) = 0
        BY FS_EmptySet, SomeSlot
      <3>3. Total(a, KeysOf(pairs)) = 0
        BY <1>0, SomeSlot
      <3> QED BY <3>1, <3>2, <3>3 DEF CutSize
    <2>2. CutSize(pairs, a, b, KeysOf(pairs)) >= n
      BY <1>4 DEF Covers
    <2> QED BY <1>6, <2>1, <2>2
  <1> DEFINE less == [a EXCEPT ![k] = @ - 1]
  <1>8. k \in Keys
    BY <1>0
  <1>9. CASE \A cut \in SUBSET KeysOf(pairs) : k \in cut => CutSize(pairs, a, b, cut) > n
    <2>1. Covers(pairs, less, b, n)
      BY <1>4, <1>7, <1>9, SpareSlot
    <2>2. PICK f : Fits(f, pairs, less, b, n)
      BY <1>4, <1>5, <1>7, <2>1
    <2>3. ASSUME NEW x \in Keys
          PROVE  Total(f, {p \in pairs : p.key = x}) <= a[x]
      <3> DEFINE S == {p \in pairs : p.key = x}
      <3>1. Total(f, S) <= less[x]
        BY <2>2 DEF Fits
      <3>2. less[x] \in Nat /\ a[x] \in Nat /\ less[x] <= a[x]
        BY <1>7, <1>8
      <3>3. Total(f, S) \in Nat
        <4>1. IsFiniteSet(S) /\ \A p \in S : f[p] \in Nat
          BY <2>2, PairsFinite, FS_Subset DEF Fits
        <4> HIDE DEF S
        <4> QED BY <4>1, SlotsFinite
      <3> HIDE DEF S, less
      <3>4. Total(f, S) <= a[x]
        BY <3>1, <3>2, <3>3
      <3> QED BY <3>4 DEF S
    <2>4. Fits(f, pairs, a, b, n)
      BY <2>2, <2>3 DEF Fits
    <2> QED BY <1>4, <2>4
  <1>10. CASE \E cut \in SUBSET KeysOf(pairs) : k \in cut /\ ~ (CutSize(pairs, a, b, cut) > n)
    <2>1. PICK tight \in SUBSET KeysOf(pairs) : k \in tight /\ ~ (CutSize(pairs, a, b, tight) > n)
      BY <1>10
    <2>2. CutSize(pairs, a, b, tight) = n
      <3>1. CutSize(pairs, a, b, tight) \in Nat
        BY CutsCross
      <3>2. CutSize(pairs, a, b, tight) >= n
        BY <1>4 DEF Covers
      <3> QED BY <2>1, <3>1, <3>2
    <2> DEFINE i == n - 1
    <2>3. i \in Nat /\ n = i + 1
      BY <1>6
    <2> HIDE DEF i
    <2>4. PICK q \in pairs : /\ q.key = k /\ b[q.model] > 0
                             /\ Covers(pairs, less, [b EXCEPT ![q.model] = @ - 1], i)
      <3>1. Covers(pairs, a, b, i + 1) /\ CutSize(pairs, a, b, tight) = i + 1
        BY <1>4, <2>2, <2>3
      <3> QED BY <1>7, <2>1, <2>3, <3>1, NeededSlot
    <2>5. [b EXCEPT ![q.model] = @ - 1] \in [Models -> Nat]
      BY <2>4 DEF Pairs
    <2>6. PICK f : Fits(f, pairs, less, [b EXCEPT ![q.model] = @ - 1], i)
      BY <1>5, <1>7, <2>3, <2>4, <2>5
    <2>7. \E g : Fits(g, pairs, a, b, i + 1)
      BY <1>7, <2>3, <2>4, <2>6, OneAttemptMore
    <2> QED BY <1>4, <2>3, <2>7
  <1> QED BY <1>9, <1>10

-----------------------------------------------------------------------------
(* The reserve of protected requests.                                      *)

\* What they ask for is a number, and only a failed deployment has a rest.
ReserveInv ==
    /\ demand \in [Tasks -> Nat]
    /\ now \in Nat
    /\ \A p \in Supports : qual[p].outcome # "invalid" => qual[p].nextProbe = 0

(* Nothing is asked for at the start. *)
LEMMA ReserveInit == Init => ReserveInv
  BY DEF Init, ReserveInv, Unqualified

(* Entering and leaving keep the demand a number. *)
LEMMA DemandStays ==
  ASSUME demand \in [Tasks -> Nat], NEW r \in Requests, Enter(r) \/ Release(r)
  PROVE  demand' \in [Tasks -> Nat]
  <1>1. Route[r].task \in Tasks /\ Asks(r) \in Nat
    BY DispatchAssumption DEF Routes, Asks
  <1> DEFINE mine == demand[Route[r].task]
  <1>2. mine \in Nat /\ mine - Asks(r) \in Int
    BY <1>1
  <1>3. Max({0, mine - Asks(r)}) \in Nat
    <2>1. Max({0, mine - Asks(r)}) = IF 0 >= mine - Asks(r) THEN 0 ELSE mine - Asks(r)
      BY <1>2, MaxOfTwo
    <2> QED BY <1>2, <2>1
  <1>4. CASE Enter(r)
    BY <1>1, <1>4 DEF Enter
  <1>5. CASE Release(r)
    <2>1. demand' = [demand EXCEPT ![Route[r].task] = Max({0, mine - Asks(r)})]
      BY <1>5 DEF Release
    <2> QED BY <1>3, <2>1
  <1> QED BY <1>4, <1>5

(* Every step keeps the reserve well-formed. *)
LEMMA ReserveStep == LeaseInv /\ RestInv /\ ReserveInv /\ [Next]_vars => ReserveInv'
  <1> SUFFICES ASSUME LeaseInv, RestInv, ReserveInv, [Next]_vars
               PROVE  ReserveInv'
    OBVIOUS
  <1>0. demand \in [Tasks -> Nat] /\ now \in Nat
    BY DEF ReserveInv
  <1>1. ASSUME NEW r \in Requests, Arrive(r) \/ AskAgain(r)
        PROVE  ReserveInv'
    <2>1. UNCHANGED <<now, qual>> /\ (Enter(r) \/ UNCHANGED demand)
      BY <1>1 DEF Arrive, AskAgain, TryEnter, health, leases
    <2> QED BY <2>1, DemandStays DEF ReserveInv
  <1>2. ASSUME NEW r \in Requests, Turn(r) \/ Wake(r) \/ Leave(r)
        PROVE  ReserveInv'
    <2>1. UNCHANGED <<now, qual>> /\ (Release(r) \/ UNCHANGED demand)
      BY <1>2 DEF Turn, Wake, Leave, health, leases
    <2> QED BY <2>1, DemandStays DEF ReserveInv
  <1>3. ASSUME NEW r \in Requests, NEW outcome \in Outcomes, Answer(r, outcome)
        PROVE  ReserveInv'
    <2> DEFINE good == outcome = "valid"
    <2>1. /\ UNCHANGED now /\ (Release(r) \/ UNCHANGED demand)
          /\ qual' = [qual EXCEPT ![sent[r]] = Recorded(qual[sent[r]], good, now)]
      BY <1>3 DEF Answer, leases
    <2>2. demand' \in [Tasks -> Nat]
      BY <1>0, <2>1, DemandStays
    <2>3. qual \in [Supports -> Records]
      BY DEF RestInv
    <2> HIDE DEF good
    <2>4. ASSUME NEW p \in Supports, qual'[p].outcome # "invalid"
          PROVE  qual'[p].nextProbe = 0
      <3>1. CASE sent[r] = p
        <4>1. qual'[p] = Recorded(qual[p], good, now)
          BY <2>1, <2>3, <3>1
        <4> QED BY <2>4, <4>1 DEF Recorded
      <3>2. CASE sent[r] # p
        <4>1. qual'[p] = qual[p]
          BY <2>1, <2>3, <3>2
        <4> QED BY <2>4, <4>1 DEF ReserveInv
      <3> QED BY <3>1, <3>2
    <2> QED BY <1>0, <2>1, <2>2, <2>4 DEF ReserveInv
  <1>4. CASE Surroundings \/ UNCHANGED vars
    <2>1. UNCHANGED <<now, qual, demand>>
      BY <1>4 DEF Surroundings, Reopen, Shut, vars, health, leases
    <2> QED BY <2>1 DEF ReserveInv
  <1>5. CASE Tick
    <2>1. now' = now + 1 /\ UNCHANGED <<qual, demand>>
      BY <1>5 DEF Tick, health, leases
    <2> QED BY <2>1 DEF ReserveInv
  <1> QED BY <1>1, <1>2, <1>3, <1>4, <1>5 DEF Next, Handler

(* What is free is a number of slots. *)
LEMMA FreeSlots == KeyFree \in [Keys -> Nat] /\ ModelFree \in [Models -> Nat] /\ IsFiniteSet(Sent)
  <1>1. IsFiniteSet(Sent)
    BY DispatchAssumption, FS_Subset DEF Sent
  <1>2. ASSUME NEW k \in Keys
        PROVE  Max({0, KeyPolicy[k].cap - KeyInflight(k)}) \in Nat
    <2>1. KeyInflight(k) \in Nat
      <3>1. {r \in Sent : sent[r].key = k} \in SUBSET Sent
        OBVIOUS
      <3> QED BY <1>1, <3>1, FS_Subset, FS_CardinalityType DEF KeyInflight
    <2> DEFINE free == KeyPolicy[k].cap - KeyInflight(k)
    <2>2. free \in Int
      BY <2>1, DispatchAssumption
    <2> HIDE DEF free
    <2>3. Max({0, free}) = IF 0 >= free THEN 0 ELSE free
      BY <2>2, MaxOfTwo
    <2>4. Max({0, free}) \in Nat
      BY <2>2, <2>3
    <2> QED BY <2>4 DEF free
  <1>3. ASSUME NEW m \in Models
        PROVE  Max({0, ModelCap[m] - ModelInflight(m)}) \in Nat
    <2>1. ModelInflight(m) \in Nat
      <3> DEFINE on == {r \in Sent : sent[r].model = m
                                     /\ ~ VendorPolicy[Vendor(sent[r].key)].unboundedModel}
      <3>1. on \in SUBSET Sent
        OBVIOUS
      <3> HIDE DEF on
      <3>2. Cardinality(on) \in Nat
        BY <1>1, <3>1, FS_Subset, FS_CardinalityType
      <3> QED BY <3>2 DEF ModelInflight, on
    <2> DEFINE free == ModelCap[m] - ModelInflight(m)
    <2>2. free \in Int
      BY <2>1, DispatchAssumption
    <2> HIDE DEF free
    <2>3. Max({0, free}) = IF 0 >= free THEN 0 ELSE free
      BY <2>2, MaxOfTwo
    <2>4. Max({0, free}) \in Nat
      BY <2>2, <2>3
    <2> QED BY <2>4 DEF free
  <1> QED BY <1>1, <1>2, <1>3 DEF KeyFree, ModelFree

(* The slot flow is a cut, and no cut is smaller. *)
LEMMA FlowIsSmallest ==
  ASSUME NEW pairs \in SUBSET Pairs, NEW a \in [Keys -> Nat], NEW b \in [Models -> Nat]
  PROVE  SlotFlow(pairs, a, b) \in Nat /\ Covers(pairs, a, b, SlotFlow(pairs, a, b))
  <1> DEFINE sizes == {CutSize(pairs, a, b, cut) : cut \in SUBSET KeysOf(pairs)}
  <1>1. sizes \in SUBSET Nat /\ sizes # {}
    BY CutsCross
  <1>2. SlotFlow(pairs, a, b) = Min(sizes)
    BY DEF SlotFlow, CutSize, KeysOf, Beyond
  <1>3. Min(sizes) \in sizes /\ \A size \in sizes : Min(sizes) <= size
    <2> HIDE DEF sizes
    <2> QED BY <1>1, LeastNumber DEF Min
  <1> QED BY <1>1, <1>2, <1>3 DEF Covers

(* Attempts that fit on some deployments fit on more. *)
LEMMA FitsOnMore ==
  ASSUME NEW more \in SUBSET Pairs, NEW pairs \in SUBSET more, NEW n \in Nat,
         NEW f, NEW a, NEW b, Fits(f, pairs, a, b, n)
  PROVE  \E g : Fits(g, more, a, b, n)
  <1> DEFINE g == [p \in more |-> IF p \in pairs THEN f[p] ELSE 0]
  <1>1. f \in [pairs -> 0 .. n]
    BY DEF Fits
  <1>2. g \in [more -> 0 .. n]
    BY <1>1
  <1>3. ASSUME NEW S \in SUBSET more
        PROVE  Total(g, S) = Total(f, S \cap pairs)
    <2>1. \A p \in S \cap pairs : g[p] = f[p]
      OBVIOUS
    <2>2. \A p \in S \ pairs : g[p] = 0 /\ 1 .. g[p] = {}
      OBVIOUS
    <2> HIDE DEF g
    <2>3. Slots(g, S) = Slots(f, S \cap pairs)
      BY <2>1, <2>2 DEF Slots
    <2> QED BY <2>3 DEF Total
  <1> HIDE DEF g
  <1>4. more \cap pairs = pairs
    OBVIOUS
  <1>5. Total(g, more) = n
    BY <1>3, <1>4 DEF Fits
  <1>6. ASSUME NEW k \in Keys
        PROVE  Total(g, {p \in more : p.key = k}) <= a[k]
    <2>1. {p \in more : p.key = k} \cap pairs = {p \in pairs : p.key = k}
      OBVIOUS
    <2> QED BY <1>3, <2>1 DEF Fits
  <1>7. ASSUME NEW m \in Models
        PROVE  Total(g, {p \in more : p.model = m}) <= b[m]
    <2>1. {p \in more : p.model = m} \cap pairs = {p \in pairs : p.model = m}
      OBVIOUS
    <2> QED BY <1>3, <2>1 DEF Fits
  <1> QED BY <1>2, <1>5, <1>6, <1>7 DEF Fits

(* What is dispatchable is open and rested. *)
LEMMA DispatchableOpen ==
  ASSUME TimesOK, RestInv, ReserveInv, NEW p \in Supports, Dispatchable(Entry(p))
  PROVE  /\ shut[p.key] = Open /\ keyUntil[p.key] <= now
         /\ pairUntil[p] <= now /\ qual[p].nextProbe <= now
  <1>1. (shut[p.key] # Open) \in BOOLEAN /\ Full(p) \in BOOLEAN
    BY DEF Full, KeyFull, VendorFull, ModelFull
  <1>2. /\ ~ (shut[p.key] # Open) /\ \A w \in Waits(p) : ~ (w > now)
        /\ ~ (qual[p].outcome = "invalid" /\ qual[p].nextProbe > now)
    BY <1>1, DispatchableMeans, DispatchableRested DEF Entry
  <1>3. p.key \in Keys
    BY DispatchAssumption DEF Pairs
  <1>4. keyUntil[p.key] <= now /\ pairUntil[p] <= now
    BY <1>2, <1>3 DEF Waits, TimesOK
  <1>5. qual[p].nextProbe \in Int /\ now \in Nat
    BY DEF RestInv, Records, ReserveInv
  <1>6. qual[p].nextProbe <= now
    BY <1>2, <1>5 DEF ReserveInv
  <1> QED BY <1>2, <1>4, <1>6

(* Where a strong deployment is not withheld there is room for one more. *)
LEMMA RoomIsLeft ==
  ASSUME TimesOK, RestInv, ReserveInv, NEW r \in Requests, ~ (FreeStrongSlots(r) <= Reserved)
  PROVE  RoomFor(r, Reserved + 1)
  <1> DEFINE pairs == {p \in Listed(r) : p.model \in Strong /\ Dispatchable(Entry(p))}
             more == {p \in Listed(r) : /\ p.model \in Strong
                                        /\ shut[p.key] = Open
                                        /\ keyUntil[p.key] <= now
                                        /\ pairUntil[p] <= now
                                        /\ qual[p].nextProbe <= now}
             n == Reserved + 1
  <1>1. more \in SUBSET Pairs /\ pairs \in SUBSET more
    BY DispatchableOpen, DispatchAssumption DEF Listed
  <1>2. Reserved \in Nat
    BY DispatchAssumption, SlotsFinite DEF Reserved, ReserveInv
  <1>3. FreeStrongSlots(r) = SlotFlow(pairs, KeyFree, ModelFree)
    BY DEF FreeStrongSlots
  <1> HIDE DEF pairs
  <1>4. pairs \in SUBSET Pairs
    BY <1>1
  <1>5. /\ SlotFlow(pairs, KeyFree, ModelFree) \in Nat
        /\ Covers(pairs, KeyFree, ModelFree, SlotFlow(pairs, KeyFree, ModelFree))
    BY <1>4, FreeSlots, FlowIsSmallest
  <1>6. n \in Nat /\ n <= SlotFlow(pairs, KeyFree, ModelFree)
    BY <1>2, <1>3, <1>5
  <1>7. Covers(pairs, KeyFree, ModelFree, n)
    <2> SUFFICES ASSUME NEW cut \in SUBSET KeysOf(pairs)
                 PROVE  CutSize(pairs, KeyFree, ModelFree, cut) >= n
      BY DEF Covers
    <2>1. CutSize(pairs, KeyFree, ModelFree, cut) \in Nat
      BY <1>4, FreeSlots, CutsCross
    <2>2. CutSize(pairs, KeyFree, ModelFree, cut) >= SlotFlow(pairs, KeyFree, ModelFree)
      BY <1>5 DEF Covers
    <2> HIDE DEF n
    <2> QED BY <1>5, <1>6, <2>1, <2>2
  <1> HIDE DEF n, more
  <1>8. PICK f : Fits(f, pairs, KeyFree, ModelFree, n)
    BY <1>4, <1>6, <1>7, FreeSlots, AttemptsFit
  <1>9. PICK g : Fits(g, more, KeyFree, ModelFree, n)
    BY <1>1, <1>6, <1>8, FitsOnMore
  <1> QED BY <1>9 DEF RoomFor, Fits, more, n

(* An unprotected logical request takes a slot of a strong model only when as *)
(* many attempts as protected requests ask for, and one more, can start side  *)
(* by side: maximumSlotFlow counts neither a key that serves several models   *)
(* nor a model of several keys twice.                                         *)
THEOREM ReserveIsKept == Spec => ReserveCounted
  <1> DEFINE Kept == \A r \in Requests : TakesStrong(r) => RoomFor(r, Reserved + 1)
  <1>1. LeaseInv /\ TimesOK /\ RestInv /\ ReserveInv /\ [Next]_vars => [Kept]_vars
    <2> SUFFICES ASSUME LeaseInv, TimesOK, RestInv, ReserveInv, Next,
                        NEW r \in Requests, TakesStrong(r)
                 PROVE  RoomFor(r, Reserved + 1)
      OBVIOUS
    <2>1. sent'[r] \in Selected(r) /\ sent'[r].model \in Strong
          /\ ~ Route[r].protected /\ Reserved > 0
      BY SendsSelected DEF TakesStrong
    <2>2. ~ Withheld(r, sent'[r])
      BY <2>1, SelectedAllowed DEF Allowed
    <2> QED BY <2>1, <2>2, RoomIsLeft DEF Withheld
  <1>2. Spec => [](LeaseInv /\ TimesOK /\ RestInv /\ ReserveInv)
    BY LeaseInit, LeaseStep, TimesInit, TimesStep, RestInit, RestStep, ReserveInit, ReserveStep,
       PTL DEF Spec
  <1> QED BY <1>1, <1>2, PTL DEF Spec, ReserveCounted
=============================================================================
