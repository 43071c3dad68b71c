----------------------------- MODULE ServingProofs -----------------------------
(***************************************************************************)
(* Ordinary requests and the models the gateway says it serves: two        *)
(* machines with no variable in common, each proved about on its own.      *)
(*                                                                         *)
(* OrdinaryDispatch, for every number of requests, keys, slots, retries    *)
(* and cooldowns: a request returns to a key only after the key's 429      *)
(* cooldown was slept through, and it is sent at most MAX_RETRIES + 1      *)
(* times (RetriesElsewhere).  The bounds alone are not inductive.  What    *)
(* holds at every await is that a key which may be picked is owed no       *)
(* visit, and that a request was not sent more often than its attempts     *)
(* say; a cancelled request breaks both, for its key is not excluded and   *)
(* its attempt not counted, and is never sent again.                       *)
(*                                                                         *)
(* ModelCatalog, for every registry, policy and set of rules that loads:   *)
(* the listing, the choice of a key and the logical requests agree.  The   *)
(* invariant is the type correctness of what is kept over reloads: a       *)
(* trouble of the configuration before is one the configuration in force   *)
(* knows.  The rest follows from what loading checked.                     *)
(***************************************************************************)
EXTENDS OrdinaryDispatch, ModelCatalog, TLAPS

Kinds == {"none", "status", "network", "exhausted", "final"}

Dispatches == [phase : Phases, attempt : Nat, excluded : SUBSET Keys, waits : Nat,
               key : SUBSET Keys, until : Nat, deadline : Nat, aborted : BOOLEAN,
               last : Kinds]

DispatchTypes ==
    /\ now \in Nat
    /\ rest \in [Keys -> [until : Nat, is429 : BOOLEAN]]
    /\ req \in [Requests -> Dispatches]
    /\ sent \in [Requests -> Nat]
    /\ due \in [Requests -> [Keys -> Int]]

\* Of one request: q its locals, n its sends, v its visits less the waits.
Sound(q, n, v) ==
    /\ \A k \in Keys : v[k] <= 1
    /\ n <= MaxRetries + 1
    /\ q.phase = "away" => n = 0 /\ (\A k \in Keys : v[k] = 0)
                           /\ q.attempt = 0 /\ ~ q.aborted
    /\ q.phase \in {"turn", "sleep"} /\ ~ q.aborted =>
          n <= q.attempt /\ \A k \in Keys \ q.excluded : v[k] <= 0
    /\ q.phase = "sent" =>
          /\ ~ q.aborted
          /\ q.attempt <= MaxRetries /\ n <= q.attempt + 1
          /\ \A k \in Keys \ (q.excluded \cup q.key) : v[k] <= 0

DispatchInv == DispatchTypes /\ \A r \in Requests : Sound(req[r], sent[r], due[r])

-----------------------------------------------------------------------------

(* A step of one request that keeps the invariant for that request keeps   *)
(* it for all. *)
LEMMA OneStep ==
  ASSUME DispatchInv, NEW r \in Requests, NEW q \in Dispatches, Become(r, q),
         NEW n \in Nat, sent' = [sent EXCEPT ![r] = n],
         NEW v \in [Keys -> Int], due' = [due EXCEPT ![r] = v],
         now' \in Nat, rest' \in [Keys -> [until : Nat, is429 : BOOLEAN]],
         Sound(q, n, v)
  PROVE  DispatchInv'
  <1>1. /\ req' \in [Requests -> Dispatches] /\ req'[r] = q
        /\ \A p \in Requests \ {r} : req'[p] = req[p]
    BY DEF Become, DispatchInv, DispatchTypes
  <1>2. /\ sent' \in [Requests -> Nat] /\ sent'[r] = n
        /\ \A p \in Requests \ {r} : sent'[p] = sent[p]
    BY DEF DispatchInv, DispatchTypes
  <1>3. /\ due' \in [Requests -> [Keys -> Int]] /\ due'[r] = v
        /\ \A p \in Requests \ {r} : due'[p] = due[p]
    BY DEF DispatchInv, DispatchTypes
  <1>4. DispatchTypes'
    BY <1>1, <1>2, <1>3 DEF DispatchTypes
  <1>5. ASSUME NEW p \in Requests
        PROVE  Sound(req'[p], sent'[p], due'[p])
    BY <1>1, <1>2, <1>3 DEF DispatchInv
  <1> QED BY <1>4, <1>5 DEF DispatchInv

(* The same for a step that neither sends nor sleeps through a cooldown. *)
LEMMA QuietStep ==
  ASSUME DispatchInv, NEW r \in Requests, NEW q \in Dispatches, Become(r, q),
         UNCHANGED <<sent, due>>,
         now' \in Nat, rest' \in [Keys -> [until : Nat, is429 : BOOLEAN]],
         Sound(q, sent[r], due[r])
  PROVE  DispatchInv'
  <1>1. sent \in [Requests -> Nat] /\ due \in [Requests -> [Keys -> Int]]
    BY DEF DispatchInv, DispatchTypes
  <1>2. sent' = [sent EXCEPT ![r] = sent[r]] /\ due' = [due EXCEPT ![r] = due[r]]
    BY <1>1
  <1>3. sent[r] \in Nat /\ due[r] \in [Keys -> Int]
    BY <1>1
  <1> QED BY <1>2, <1>3, OneStep

(* What is known of one request before its step. *)
LEMMA RequestFacts ==
  ASSUME DispatchInv, NEW r \in Requests
  PROVE  /\ now \in Nat
         /\ rest \in [Keys -> [until : Nat, is429 : BOOLEAN]]
         /\ req[r] \in Dispatches
         /\ sent[r] \in Nat
         /\ due[r] \in [Keys -> Int]
         /\ Sound(req[r], sent[r], due[r])
         /\ MaxRetries \in Nat
  BY OrdinaryAssumption DEF DispatchInv, DispatchTypes

LEMMA ArriveStep ==
  ASSUME DispatchInv, NEW r \in Requests, Arrive(r)
  PROVE  DispatchInv'
  <1> DEFINE deadline == now + Timeout
             q == [req[r] EXCEPT !.phase = "turn", !.deadline = deadline]
  <1>1. deadline \in Nat
    BY RequestFacts, OrdinaryAssumption
  <1>2. /\ Become(r, q) /\ UNCHANGED <<now, rest, sent, due>> /\ req[r].phase = "away"
    BY DEF Arrive
  <1> HIDE DEF deadline
  <1>3. q \in Dispatches /\ q.phase = "turn" /\ q.attempt = req[r].attempt
    BY <1>1, RequestFacts DEF Dispatches, Phases
  <1>4. Sound(q, sent[r], due[r])
    BY <1>2, <1>3, RequestFacts DEF Sound, Dispatches
  <1> HIDE DEF q
  <1> QED BY <1>2, <1>3, <1>4, RequestFacts, QuietStep

LEMMA SendStep ==
  ASSUME DispatchInv, NEW r \in Requests, Send(r)
  PROVE  DispatchInv'
  <1>1. PICK k \in Pickable(r) :
           /\ Become(r, [req[r] EXCEPT !.phase = "sent", !.key = {k}])
           /\ due' = [due EXCEPT ![r][k] = @ + 1]
    BY DEF Send
  <1> DEFINE q == [req[r] EXCEPT !.phase = "sent", !.key = {k}]
             n == sent[r] + 1
             v == [due[r] EXCEPT ![k] = @ + 1]
  <1>2. /\ req[r].phase = "turn" /\ ~ req[r].aborted /\ ~ (req[r].attempt > MaxRetries)
        /\ UNCHANGED <<now, rest>>
        /\ k \in Keys \ req[r].excluded
    BY <1>1 DEF Send, Over, Pickable
  <1>3. /\ q \in Dispatches /\ q.phase = "sent" /\ q.key = {k} /\ ~ q.aborted
        /\ q.attempt = req[r].attempt /\ q.excluded = req[r].excluded
    BY <1>2, RequestFacts DEF Dispatches, Phases
  <1>4. /\ v \in [Keys -> Int] /\ v[k] = due[r][k] + 1
        /\ \A j \in Keys \ {k} : v[j] = due[r][j]
        /\ due' = [due EXCEPT ![r] = v]
    BY <1>1, <1>2, RequestFacts DEF DispatchInv, DispatchTypes
  <1>5. n \in Nat /\ n = sent[r] + 1 /\ sent' = [sent EXCEPT ![r] = n]
    BY RequestFacts DEF Send
  <1> HIDE DEF q, n, v
  <1>6. req[r].attempt \in Nat /\ \A j \in Keys : due[r][j] \in Int
    BY RequestFacts DEF Dispatches
  <1>7. Sound(q, n, v)
    BY <1>2, <1>3, <1>4, <1>5, <1>6, RequestFacts DEF Sound
  <1>8. Become(r, q)
    BY <1>1 DEF q
  <1> QED BY <1>2, <1>3, <1>4, <1>5, <1>7, <1>8, RequestFacts, OneStep

LEMMA Wait429Step ==
  ASSUME DispatchInv, NEW r \in Requests, Wait429(r)
  PROVE  DispatchInv'
  <1>1. PICK k \in NextRecovery :
           /\ Become(r, [req[r] EXCEPT !.phase = "sleep", !.waits = @ + 1,
                                       !.excluded = @ \ {k}, !.until = rest[k].until])
           /\ due' = [due EXCEPT ![r][k] = @ - 1]
    BY DEF Wait429
  <1>2. /\ req[r].phase = "turn" /\ ~ req[r].aborted
        /\ UNCHANGED <<now, rest, sent>>
        /\ k \in Keys
    BY <1>1 DEF Wait429, Over, NextRecovery, Recoverable
  <1> DEFINE waits == req[r].waits + 1
             until == rest[k].until
             excluded == req[r].excluded \ {k}
             q == [req[r] EXCEPT !.phase = "sleep", !.waits = waits,
                                 !.excluded = excluded, !.until = until]
             v == [due[r] EXCEPT ![k] = @ - 1]
  <1>3. waits \in Nat /\ until \in Nat /\ excluded \in SUBSET Keys
    <2>1. req[r].waits \in Nat /\ req[r].excluded \in SUBSET Keys
      BY RequestFacts DEF Dispatches
    <2> QED BY <1>2, <2>1, RequestFacts
  <1>4. Become(r, q)
    BY <1>1
  <1> HIDE DEF waits, until
  <1>5. /\ q \in Dispatches /\ q.phase = "sleep" /\ q.attempt = req[r].attempt
        /\ q.excluded = excluded
    BY <1>3, RequestFacts DEF Dispatches, Phases
  <1>6. /\ v \in [Keys -> Int] /\ v[k] = due[r][k] - 1
        /\ \A j \in Keys \ {k} : v[j] = due[r][j]
        /\ due' = [due EXCEPT ![r] = v]
    BY <1>1, <1>2, RequestFacts DEF DispatchInv, DispatchTypes
  <1> HIDE DEF q, v
  <1>7. req[r].attempt \in Nat /\ \A j \in Keys : due[r][j] \in Int
    BY RequestFacts DEF Dispatches
  <1>8. Sound(q, sent[r], v)
    BY <1>2, <1>5, <1>6, <1>7, RequestFacts DEF Sound
  <1>9. sent' = [sent EXCEPT ![r] = sent[r]]
    BY <1>2 DEF DispatchInv, DispatchTypes
  <1> QED BY <1>2, <1>4, <1>5, <1>6, <1>8, <1>9, RequestFacts, OneStep

LEMMA BackOffStep ==
  ASSUME DispatchInv, NEW r \in Requests, BackOff(r)
  PROVE  DispatchInv'
  <1> DEFINE until == now + Backoff[req[r].attempt]
             attempt == req[r].attempt + 1
             q == [req[r] EXCEPT !.phase = "sleep", !.until = until, !.attempt = attempt]
  <1>1. /\ Become(r, q) /\ UNCHANGED <<now, rest, sent, due>>
        /\ req[r].phase = "turn" /\ ~ req[r].aborted /\ req[r].attempt < MaxRetries
    BY DEF BackOff, Over
  <1>2. req[r].attempt \in Nat
    BY RequestFacts DEF Dispatches
  <1>3. until \in Nat /\ attempt \in Nat /\ attempt = req[r].attempt + 1
    <2>1. Backoff[req[r].attempt] \in Nat
      BY <1>1, <1>2, OrdinaryAssumption
    <2> QED BY <1>2, <2>1, RequestFacts
  <1> HIDE DEF until, attempt
  <1>4. /\ q \in Dispatches /\ q.phase = "sleep" /\ q.attempt = attempt
        /\ q.excluded = req[r].excluded
    BY <1>3, RequestFacts DEF Dispatches, Phases
  <1> HIDE DEF q
  <1>5. Sound(q, sent[r], due[r])
    BY <1>1, <1>2, <1>3, <1>4, RequestFacts DEF Sound
  <1> QED BY <1>1, <1>4, <1>5, RequestFacts, QuietStep

(* A dispatch that returns keeps its counters. *)
LEMMA ReturnStep ==
  ASSUME DispatchInv, NEW r \in Requests, NEW last \in Kinds, Return(r, last),
         UNCHANGED <<now, rest, sent, due>>
  PROVE  DispatchInv'
  <1> DEFINE q == [req[r] EXCEPT !.phase = "answered", !.attempt = 0, !.excluded = {},
                                 !.waits = 0, !.key = {}, !.until = 0, !.deadline = 0,
                                 !.aborted = FALSE, !.last = last]
  <1>1. Become(r, q)
    BY DEF Return
  <1>2. q \in Dispatches /\ q.phase = "answered"
    BY RequestFacts DEF Dispatches, Phases
  <1> HIDE DEF q
  <1>3. Sound(q, sent[r], due[r])
    BY <1>2, RequestFacts DEF Sound
  <1> QED BY <1>1, <1>2, <1>3, RequestFacts, QuietStep

LEMMA WakeStep ==
  ASSUME DispatchInv, NEW r \in Requests, Wake(r)
  PROVE  DispatchInv'
  <1> DEFINE q == [req[r] EXCEPT !.phase = "turn", !.until = 0]
  <1>1. Become(r, q) /\ UNCHANGED <<now, rest, sent, due>> /\ req[r].phase = "sleep"
    BY DEF Wake
  <1>2. /\ q \in Dispatches /\ q.phase = "turn" /\ q.attempt = req[r].attempt
        /\ q.excluded = req[r].excluded /\ q.aborted = req[r].aborted
    BY RequestFacts DEF Dispatches, Phases
  <1> HIDE DEF q
  <1>3. Sound(q, sent[r], due[r])
    BY <1>1, <1>2, RequestFacts DEF Sound
  <1> QED BY <1>1, <1>2, <1>3, RequestFacts, QuietStep

-----------------------------------------------------------------------------
(* Answers.                                                                *)

(* The key that failed is excluded from here on, and the attempt counts. *)
LEMMA RetryableStep ==
  ASSUME DispatchInv, NEW r \in Requests, NEW kind \in Kinds, req[r].phase = "sent",
         Retryable(r, kind), UNCHANGED <<now, sent, due>>,
         rest' \in [Keys -> [until : Nat, is429 : BOOLEAN]]
  PROVE  DispatchInv'
  <1> DEFINE attempt == req[r].attempt + 1
             excluded == req[r].excluded \cup req[r].key
             q == [req[r] EXCEPT !.phase = "turn", !.attempt = attempt, !.key = {},
                                 !.excluded = excluded, !.last = kind]
  <1>1. Become(r, q)
    BY DEF Retryable, Excluding
  <1>2. /\ req[r].attempt \in Nat /\ attempt \in Nat /\ attempt = req[r].attempt + 1
        /\ excluded \in SUBSET Keys
    BY RequestFacts DEF Dispatches
  <1> HIDE DEF attempt
  <1>3. /\ q \in Dispatches /\ q.phase = "turn" /\ q.attempt = attempt
        /\ q.excluded = excluded
    BY <1>2, RequestFacts DEF Dispatches, Phases
  <1> HIDE DEF q
  <1>4. Sound(q, sent[r], due[r])
    BY <1>2, <1>3, RequestFacts DEF Sound
  <1> QED BY <1>1, <1>3, <1>4, RequestFacts, QuietStep

(* A cooldown leaves the keys well formed. *)
LEMMA RestedType ==
  ASSUME DispatchInv, NEW k \in Keys, NEW length \in Rests, NEW is429 \in BOOLEAN
  PROVE  Rested(k, length, is429) \in [Keys -> [until : Nat, is429 : BOOLEAN]]
  <1>1. now \in Nat /\ rest \in [Keys -> [until : Nat, is429 : BOOLEAN]] /\ length \in Nat
    BY OrdinaryAssumption DEF DispatchInv, DispatchTypes
  <1> DEFINE until == now + length
  <1>2. until \in Nat
    BY <1>1
  <1> HIDE DEF until
  <1>3. [until |-> until, is429 |-> is429] \in [until : Nat, is429 : BOOLEAN]
    BY <1>2
  <1>4. Rested(k, length, is429) =
          [rest EXCEPT ![k] = IF until > rest[k].until
                              THEN [until |-> until, is429 |-> is429] ELSE rest[k]]
    BY DEF Rested, until
  <1> QED BY <1>1, <1>3, <1>4

LEMMA AnswerStep ==
  ASSUME DispatchInv, NEW r \in Requests, Answer(r) \/ AnswerTimeout(r)
  PROVE  DispatchInv'
  <1>1. req[r].key \in SUBSET Keys /\ {"status", "network", "final"} \subseteq Kinds
    BY RequestFacts DEF Dispatches, Kinds
  <1> DEFINE Rest == [Keys -> [until : Nat, is429 : BOOLEAN]]
  <1>6. rest \in Rest
    BY RequestFacts
  <1>7. ASSUME NEW is429 \in BOOLEAN,
               \E k \in req[r].key, length \in Rests : rest' \in {rest, Rested(k, length, is429)}
        PROVE  rest' \in Rest
    <2>1. PICK k \in req[r].key, length \in Rests : rest' \in {rest, Rested(k, length, is429)}
      BY <1>7
    <2>2. k \in Keys
      BY <1>1
    <2>3. Rested(k, length, is429) \in Rest
      BY <2>2, RestedType
    <2> QED BY <1>6, <2>1, <2>3
  <1> HIDE DEF Rest
  <1>8. ASSUME NEW kind \in Kinds, Retryable(r, kind), req[r].phase = "sent",
               UNCHANGED <<now, sent, due>>, rest' \in Rest
        PROVE  DispatchInv'
    BY <1>8, RetryableStep DEF Rest
  <1>2. CASE Answer429(r)
    <2>1. rest' \in Rest
      <3>1. \E k \in req[r].key, length \in Rests : rest' \in {rest, Rested(k, length, TRUE)}
        BY <1>2 DEF Answer429
      <3> QED BY <1>7, <3>1
    <2> QED BY <1>1, <1>2, <1>8, <2>1 DEF Answer429
  <1>3. CASE AnswerFailure(r)
    <2>1. rest' \in Rest
      BY <1>3, <1>7 DEF AnswerFailure
    <2> QED BY <1>1, <1>3, <1>8, <2>1 DEF AnswerFailure
  <1>4. CASE AnswerTimeout(r)
    <2>1. rest' \in Rest
      BY <1>4, <1>7 DEF AnswerTimeout
    <2> QED BY <1>1, <1>4, <1>8, <2>1 DEF AnswerTimeout
  <1>5. CASE AnswerFinal(r)
    BY <1>1, <1>5, ReturnStep DEF AnswerFinal
  <1> QED BY <1>2, <1>3, <1>4, <1>5 DEF Answer

LEMMA AbortStep ==
  ASSUME DispatchInv, NEW r \in Requests, Abort(r)
  PROVE  DispatchInv'
  <1> DEFINE asleep == [req[r] EXCEPT !.aborted = TRUE]
             cut == [req[r] EXCEPT !.aborted = TRUE, !.phase = "turn", !.key = {},
                                   !.last = "network"]
             q == IF req[r].phase = "sleep" THEN asleep ELSE cut
  <1>1. /\ Become(r, q) /\ UNCHANGED <<now, rest, sent, due>>
        /\ req[r].phase \in {"sleep", "sent"}
    BY DEF Abort
  <1>2. asleep \in Dispatches /\ asleep.phase = req[r].phase /\ asleep.aborted
    BY RequestFacts DEF Dispatches
  <1>3. cut \in Dispatches /\ cut.phase = "turn" /\ cut.aborted
    BY RequestFacts DEF Dispatches, Phases, Kinds
  <1> HIDE DEF asleep, cut
  <1>4. q \in Dispatches /\ q.phase \in {"sleep", "turn"} /\ q.aborted
    BY <1>1, <1>2, <1>3
  <1> HIDE DEF q
  <1>5. Sound(q, sent[r], due[r])
    BY <1>4, RequestFacts DEF Sound
  <1> QED BY <1>1, <1>4, <1>5, RequestFacts, QuietStep

-----------------------------------------------------------------------------

LEMMA DispatchInit == Init => DispatchInv
  <1> SUFFICES ASSUME Init
               PROVE  DispatchInv
    OBVIOUS
  <1> DEFINE fresh == [phase |-> "away", attempt |-> 0, excluded |-> {}, waits |-> 0,
                       key |-> {}, until |-> 0, deadline |-> 0, aborted |-> FALSE,
                       last |-> "none"]
  <1>1. fresh \in Dispatches /\ fresh.phase = "away" /\ fresh.attempt = 0 /\ ~ fresh.aborted
    BY DEF Dispatches, Phases, Kinds
  <1>2. req = [r \in Requests |-> fresh]
    BY DEF Init
  <1> HIDE DEF fresh
  <1>3. DispatchTypes
    <2> DEFINE none == [k \in Keys |-> 0]
    <2>1. rest \in [Keys -> [until : Nat, is429 : BOOLEAN]]
      BY DEF Init
    <2>2. none \in [Keys -> Int] /\ due = [r \in Requests |-> none]
      BY DEF Init
    <2> HIDE DEF none
    <2>3. due \in [Requests -> [Keys -> Int]]
      BY <2>2
    <2> QED BY <1>1, <1>2, <2>1, <2>3 DEF Init, DispatchTypes
  <1>4. \A r \in Requests : Sound(req[r], sent[r], due[r])
    BY <1>1, <1>2, OrdinaryAssumption DEF Init, Sound
  <1> QED BY <1>3, <1>4 DEF DispatchInv

LEMMA DispatchStep == DispatchInv /\ [Next]_vars => DispatchInv'
  <1> SUFFICES ASSUME DispatchInv, [Next]_vars
               PROVE  DispatchInv'
    OBVIOUS
  <1>1. CASE UNCHANGED vars
    BY <1>1 DEF vars, DispatchInv, DispatchTypes
  <1>2. CASE Tick
    BY <1>2 DEF Tick, DispatchInv, DispatchTypes
  <1>3. ASSUME NEW r \in Requests, Turn(r)
        PROVE  DispatchInv'
    <2>1. CASE PoolExhausted(r)
      BY <2>1, ReturnStep DEF PoolExhausted, Kinds
    <2>2. CASE GiveUp(r)
      BY <2>2, ReturnStep DEF GiveUp, Kinds
    <2> QED BY <1>3, <2>1, <2>2, SendStep, Wait429Step, BackOffStep DEF Turn
  <1> QED BY <1>1, <1>2, <1>3, ArriveStep, WakeStep, AnswerStep, AbortStep DEF Next

(* Whatever the keys, the cooldowns and the other requests: a request is   *)
(* sent at most MAX_RETRIES + 1 times, and to one key again only after     *)
(* that key's 429 cooldown was slept through (ordinary-dispatch.mjs).      *)
THEOREM RetriesGoElsewhere == Spec => []RetriesElsewhere
  <1>1. DispatchInv => RetriesElsewhere
    BY DEF DispatchInv, Sound, RetriesElsewhere
  <1> QED BY <1>1, DispatchInit, DispatchStep, PTL DEF Spec

-----------------------------------------------------------------------------

(* The catalog.                                                            *)

(* What loads, and the keys of it.                                         *)

LEMMA LoadedParts ==
  ASSUME NEW r \in Loadable
  PROVE  /\ Loaded[r].relays = Configurations[r].relays
         /\ Loaded[r].env = Configurations[r].env
         /\ Loaded[r].policy = Configurations[r].policy
  <1> DEFINE c == Configurations[r]
  <1>1. r \in DOMAIN Configurations
    BY DEF Loadable
  <1>2. DOMAIN c = {"relays", "env", "policy", "rules"}
    BY <1>1, CatalogAssumption
  <1>3. Loaded[r] = [c EXCEPT !.rules.list = [i \in DOMAIN @ |-> Normalized(@[i])]]
    BY DEF Loaded
  <1> HIDE DEF c
  <1>4. QED
    BY <1>2, <1>3 DEF c

LEMMA PolicyLoads ==
  ASSUME NEW r \in Loadable
  PROVE  PolicyCompiles(Loaded[r].policy)
  BY LoadedParts DEF Loadable, Loads

LEMMA KeysHaveRelays ==
  ASSUME NEW r \in Loadable, NEW k \in Pools[r]
  PROVE  /\ k # Gateway
         /\ Loaded[r].relays[k] \in Relays
         /\ Compiles(Loaded[r].relays[k])
  <1> DEFINE c == Configurations[r]
  <1>1. Loads(c) /\ r \in DOMAIN Configurations
    BY DEF Loadable
  <1>2. Pools[r] = KeysOf(c.env, c.relays)
    BY LoadedParts DEF Pools
  <1>3. k \in DOMAIN c.relays
    BY <1>1, <1>2 DEF Loads, Discovers, KeysOf
  <1>4. Compiles(c.relays[k])
    BY <1>1, <1>3 DEF Loads
  <1>5. c.relays \in [DOMAIN c.relays -> Relays] /\ Gateway \notin DOMAIN c.relays
    BY <1>1, CatalogAssumption
  <1>6. c.relays[k] \in Relays /\ k # Gateway
    BY <1>3, <1>5
  <1>7. QED
    BY <1>4, <1>6, LoadedParts

(* The names a key shows and answers to are those of its relay, in some    *)
(* spelling. *)
LEMMA KeysHaveNames ==
  ASSUME NEW r \in Loadable, NEW k \in Pools[r]
  PROVE  /\ Shows[<<r, k>>] = Canonical(Loaded[r].relays[k])
         /\ Answers[<<r, k>>] = ModelSet(Loaded[r].relays[k])
         /\ Identity[<<r, k>>] =
               <<Models(Loaded[r].relays[k]), Shows[<<r, k>>], Loaded[r].relays[k].aliases,
                 Loaded[r].relays[k].formats, Loaded[r].relays[k].reserve, Loaded[r].relays[k].managed>>
  <1>1. DOMAIN Pools = Loadable
    BY DEF Pools
  <1>2. <<r, k>> \in KeyOf
    BY <1>1 DEF KeyOf
  <1>3. QED
    BY <1>2 DEF Shows, Answers, Identity

LEMMA LastSpellingsAreOfThem ==
  ASSUME NEW s
  PROVE  LastSpellings(s) \subseteq Range(s)
  BY DEF LastSpellings, Range

LEMMA CanonicalAreNames ==
  ASSUME NEW relay \in Relays
  PROVE  Canonical(relay) \subseteq Names
  <1>1. Range(relay.models) \subseteq Names /\ Range(relay.declared) \subseteq Names
    BY DEF Relays, Range
  <1>2. Clients(relay) \subseteq Names
    <2>1. relay.aliases \in UNION {[S -> Names] : S \in SUBSET Lowered(Names)}
      BY DEF Relays
    <2>2. DOMAIN relay.aliases \subseteq Lowered(Names)
      BY <2>1
    <2>3. QED
      BY <2>2, LowerAssumption DEF Clients, Lowered
  <1>3. QED
    BY <1>1, <1>2, LastSpellingsAreOfThem DEF Canonical

LEMMA ShownAreNames ==
  ASSUME revision \in Loadable, NEW k \in Pool
  PROVE  Shown(k) \subseteq Names
  BY KeysHaveRelays, KeysHaveNames, CanonicalAreNames DEF Pool, Shown

-----------------------------------------------------------------------------

(* An unchanged key answers to the same names, and a trouble that is kept  *)
(* over a reload is one the new configuration knows. *)
LEMMA UnchangedAnswersAlike ==
  ASSUME revision \in Loadable, NEW r \in Loadable, NEW k, Unchanged(r, k)
  PROVE  k \in Pool /\ k \in Pools[r] /\ Answers[<<r, k>>] = Answers[<<revision, k>>]
  <1>1. SameKeys[<<revision, r>>] =
          {j \in Pools[revision] \cap Pools[r] : Identity[<<revision, j>>] = Identity[<<r, j>>]}
    BY DEF SameKeys
  <1>2. k \in Pools[revision] /\ k \in Pools[r] /\ Identity[<<revision, k>>] = Identity[<<r, k>>]
    BY <1>1 DEF Unchanged
  <1>3. Models(Loaded[revision].relays[k]) = Models(Loaded[r].relays[k])
        /\ Shows[<<revision, k>>] = Shows[<<r, k>>]
    BY <1>2, KeysHaveNames
  <1>4. ASSUME NEW q \in Loadable, k \in Pools[q]
        PROVE  Answers[<<q, k>>] = Models(Loaded[q].relays[k]) \cup Shows[<<q, k>>]
    <2>1. Answers[<<q, k>>] = ModelSet(Loaded[q].relays[k]) /\ Shows[<<q, k>>] = Canonical(Loaded[q].relays[k])
      BY <1>4, KeysHaveNames
    <2>2. QED
      BY <2>1 DEF ModelSet
  <1>5. QED
    BY <1>2, <1>3, <1>4 DEF Pool

LEMMA KeptIsKnown ==
  ASSUME revision \in Loadable, NEW r \in Loadable, Idle, NEW t \in troubles, t \in Befalls, Kept(r, t)
  PROVE  t \in BefallsOf[r]
  <1>1. ASSUME NEW q \in Loadable
        PROVE  t \in BefallsOf[q] <=>
                 \/ t \in KeyTroubles(q) \/ t \in WindowTroubles(q) \/ t \in GeneralTroubles
                 \/ t \in DeadNames(q) \/ t \in NameTroubles(q)
    BY DEF BefallsOf
  <1>2. t.kind \notin OfRequests
    BY DEF Idle
  <1>3. ASSUME NEW k \in Pools[revision]
        PROVE  k # Gateway
    BY KeysHaveRelays
  <1>4. CASE t \in KeyTroubles(revision)
    <2>1. Unchanged(r, t.at)
      BY <1>3, <1>4 DEF Kept, KeyTroubles, OfKey, OfWindow
    <2>2. t \in KeyTroubles(r)
      BY <1>4, <2>1, UnchangedAnswersAlike DEF KeyTroubles
    <2>3. QED
      BY <1>1, <2>2
  <1>5. CASE t \in WindowTroubles(revision)
    <2>1. t.at \in Pools[r] /\ Loaded[r].relays[t.at].managed
      BY <1>3, <1>5 DEF Kept, WindowTroubles, OfWindow
    <2>2. t \in WindowTroubles(r)
      BY <1>5, <2>1 DEF WindowTroubles
    <2>3. QED
      BY <1>1, <2>2
  <1>6. CASE t \in GeneralTroubles
    BY <1>1, <1>6
  <1>7. CASE t \in DeadNames(revision)
    <2>1. PICK k \in Pools[revision] :
            t \in [at : {k}, kind : {"dead"}, name : Lowered(Answers[<<revision, k>>])]
      BY <1>7 DEF DeadNames
    <2>2. Unchanged(r, k)
      BY <1>3, <2>1 DEF Kept, OfWindow
    <2>3. k \in Pools[r] /\ Answers[<<r, k>>] = Answers[<<revision, k>>]
      BY <2>2, UnchangedAnswersAlike
    <2>4. t \in DeadNames(r)
      BY <2>1, <2>3 DEF DeadNames
    <2>5. QED
      BY <1>1, <2>4
  <1>8. CASE t \in NameTroubles(revision)
    <2>1. t \in [at : {Gateway}, kind : {"unpriced"}, name : Lowered(Names)]
      BY <1>2, <1>8 DEF NameTroubles, OfRequests
    <2>2. QED
      BY <1>1, <2>1 DEF NameTroubles
  <1>9. QED
    BY <1>1, <1>4, <1>5, <1>6, <1>7, <1>8 DEF Befalls

(* Troubles and verdicts are of keys, names and limits of the              *)
(* configuration in force, whatever was reloaded meanwhile. *)
THEOREM CatalogTypeCorrect == CatalogSpec => []TypeOK
  <1>1. CatalogInit => TypeOK
    BY CatalogAssumption DEF CatalogInit, TypeOK
  <1>2. TypeOK /\ [CatalogNext]_catalogVars => TypeOK'
    <2> SUFFICES ASSUME TypeOK, [CatalogNext]_catalogVars
                 PROVE  TypeOK'
      OBVIOUS
    <2> USE DEF TypeOK
    <2>1. ASSUME NEW r \in Loadable, Reload(r)
          PROVE  TypeOK'
      <3>1. revision' = r /\ clock' = clock
        BY <2>1 DEF Reload
      <3>2. troubles' \subseteq BefallsOf[r]
        BY <2>1, KeptIsKnown DEF Reload
      <3>3. Befalls' = BefallsOf[r] /\ Pool' = Pools[r]
        BY <3>1 DEF Befalls, Pool
      <3>4. verdicts' \subseteq verdicts /\ \A v \in verdicts' : v.at \in Pools[r]
        BY <2>1, UnchangedAnswersAlike DEF Reload, Reconciled
      <3>5. verdicts' \subseteq [at : Pools[r], name : Names, is : {"valid", "failed"}]
        BY <3>4
      <3>6. QED
        BY <3>1, <3>2, <3>3, <3>5
    <2>2. ASSUME UNCHANGED revision
          PROVE  Befalls' = Befalls /\ Pool' = Pool
      BY <2>2 DEF Befalls, Pool
    <2>3. ASSUME NEW t \in Befalls, Befall(t)
          PROVE  TypeOK'
      BY <2>2, <2>3 DEF Befall
    <2>4. ASSUME NEW t \in troubles, Recover(t)
          PROVE  TypeOK'
      BY <2>2, <2>4 DEF Recover
    <2>5. ASSUME NEW k \in Pool, NEW name \in Names, NEW is \in {"valid", "failed"}, Judge(k, name, is)
          PROVE  TypeOK'
      <3>1. Lower[name] \in Names
        BY LowerAssumption
      <3>2. verdicts' \subseteq [at : Pool, name : Names, is : {"valid", "failed"}]
        BY <2>5, <3>1 DEF Judge
      <3>3. QED
        BY <2>2, <2>5, <3>2 DEF Judge
    <2>6. ASSUME NEW v \in verdicts, BackoffOver(v)
          PROVE  TypeOK'
      BY <2>2, <2>6 DEF BackoffOver
    <2>7. CASE ClockMoves
      BY <2>2, <2>7 DEF ClockMoves
    <2>8. CASE UNCHANGED catalogVars
      BY <2>2, <2>8 DEF catalogVars
    <2>9. QED
      BY <2>1, <2>3, <2>4, <2>5, <2>6, <2>7, <2>8 DEF CatalogNext
  <1>3. QED
    BY <1>1, <1>2, PTL DEF CatalogSpec

-----------------------------------------------------------------------------

(* A name that is, up to its spelling, one a compiled relay answers to is  *)
(* sent upstream as a model of its list. *)
LEMMA CompiledRelaysRewrite ==
  ASSUME NEW relay \in Relays, Compiles(relay), NEW name, NEW known \in ModelSet(relay),
         Lower[name] = Lower[known]
  PROVE  \/ Lower[UpstreamName(relay, name)] \in Lowered(Models(relay))
         \/ /\ Lower[name] \in Clients(relay) /\ relay.declared # <<>>
            /\ Lower[relay.aliases[Lower[name]]] \notin Lowered(Models(relay))
  <1>1. CASE Lower[name] \in Clients(relay)
    <2>1. UpstreamName(relay, name) = relay.aliases[Lower[name]]
      BY <1>1 DEF UpstreamName
    <2>2. CASE relay.declared = <<>>
      <3>1. Lower[relay.aliases[Lower[name]]] \in Targets(relay)
        BY <1>1 DEF Targets, Lowered
      <3>2. Targets(relay) \subseteq Lowered(Models(relay))
        BY <2>2 DEF Compiles, AliasesListed
      <3>3. QED
        BY <2>1, <3>1, <3>2
    <2>3. CASE relay.declared # <<>>
      BY <1>1, <2>1, <2>3
    <2>4. QED
      BY <2>2, <2>3
  <1>2. CASE Lower[name] \notin Clients(relay)
    <2>1. UpstreamName(relay, name) = name
      BY <1>2 DEF UpstreamName
    <2>2. CASE known \in Models(relay)
      BY <2>1, <2>2 DEF Lowered
    <2>3. CASE known \in Canonical(relay) /\ relay.declared # <<>>
      <3>1. known \in Range(relay.declared)
        BY <2>3, LastSpellingsAreOfThem DEF Canonical
      <3>2. Lower[known] \in Lowered(Models(relay)) \cup Clients(relay)
        BY <2>3, <3>1 DEF Compiles, Lowered
      <3>3. QED
        BY <1>2, <2>1, <3>2
    <2>4. CASE known \in Canonical(relay) /\ relay.declared = <<>>
      <3>1. known \in LastSpellings(relay.models) \/ known \in Clients(relay)
        BY <2>4 DEF Canonical
      <3>2. CASE known \in LastSpellings(relay.models)
        BY <2>1, <3>2, LastSpellingsAreOfThem DEF Models, Lowered
      <3>3. CASE known \in Clients(relay)
        <4>1. Clients(relay) \subseteq Lowered(Names)
          <5>1. relay.aliases \in UNION {[S -> Names] : S \in SUBSET Lowered(Names)}
            BY DEF Relays
          <5>2. QED
            BY <5>1 DEF Clients
        <4>2. Lower[known] = known
          BY <3>3, <4>1, LowerAssumption DEF Lowered
        <4>3. QED
          BY <1>2, <3>3, <4>2
      <3>4. QED
        BY <3>1, <3>2, <3>3
    <2>5. QED
      BY <2>2, <2>3, <2>4 DEF ModelSet
  <1>3. QED
    BY <1>1, <1>2

LEMMA FilteredAreDeployments ==
  ASSUME NEW rules, NEW logical, NEW at, NEW deployments
  PROVE  Filtered(rules, logical, at, deployments) \subseteq deployments
  BY DEF Filtered, Narrowed

LEMMA LeftAreDeployments ==
  ASSUME NEW request, NEW d \in Left(request)
  PROVE  d \in Deployments(request)
  BY FilteredAreDeployments DEF Left

(* Whatever was reloaded, a request is sent only under a name of the       *)
(* relay's list, unless the relay takes any name or declares the names it  *)
(* shows. *)
THEOREM OnlyListedNamesAreSent == CatalogSpec => []OnlyListedNamesReachUpstream
  <1>1. TypeOK => OnlyListedNamesReachUpstream
    <2> SUFFICES ASSUME revision \in Loadable, NEW pair \in Asked
                 PROVE  \/ Lower[UpstreamName(Relay(pair[1]), pair[2])] \in Lowered(Models(Relay(pair[1])))
                        \/ TakesAny(Relay(pair[1]))
                        \/ /\ Lower[pair[2]] \in Clients(Relay(pair[1])) /\ Relay(pair[1]).declared # <<>>
                           /\ Lower[Relay(pair[1]).aliases[Lower[pair[2]]]] \notin Lowered(Models(Relay(pair[1])))
      BY DEF TypeOK, OnlyListedNamesReachUpstream
    <2> DEFINE k == pair[1]
               name == pair[2]
    <2>1. ASSUME NEW j \in Pool
          PROVE  /\ Relay(j) \in Relays /\ Compiles(Relay(j))
                 /\ Shown(j) = Canonical(Relay(j))
                 /\ Answers[<<revision, j>>] = ModelSet(Relay(j))
      BY KeysHaveRelays, KeysHaveNames DEF Pool, Relay, conf, Shown
    <2>2. k \in Pool /\ (TakesAny(Relay(k)) \/ \E known \in ModelSet(Relay(k)) : Lower[name] = Lower[known])
      <3>1. CASE pair \in Pool \X Names /\ \E format \in {"openai", "anthropic"} : k \in Serving(format, name)
        <4>1. PICK format : k \in Serving(format, name)
          BY <3>1
        <4>2. k \in Pool /\ Knows(k, name)
          BY <4>1 DEF Serving, Pick
        <4>3. QED
          BY <2>1, <4>2 DEF Knows
      <3>2. ASSUME NEW request \in LogicalRequests(conf.policy), NEW d \in LogicalServing(request),
                   pair = <<d.relay, d.model>>
            PROVE  k \in Pool /\ \E known \in ModelSet(Relay(k)) : Lower[name] = Lower[known]
        <4>1. d \in Deployments(request)
          BY <3>2, LeftAreDeployments DEF LogicalServing, Selectable
        <4>2. k \in Pool /\ Lower[name] \in Lowered(Shown(k))
          BY <3>2, <4>1 DEF Deployments
        <4>3. QED
          BY <2>1, <4>2 DEF Lowered, ModelSet
      <3>3. pair \in {p \in Pool \X Names : \E format \in {"openai", "anthropic"} : p[1] \in Serving(format, p[2])}
            \/ \E request \in LogicalRequests(conf.policy) : \E d \in LogicalServing(request) :
                  pair = <<d.relay, d.model>>
        BY DEF Asked
      <3>4. QED
        BY <3>1, <3>2, <3>3
    <2>3. CASE TakesAny(Relay(k))
      BY <2>3
    <2>4. ASSUME NEW known \in ModelSet(Relay(k)), Lower[name] = Lower[known]
          PROVE  \/ Lower[UpstreamName(Relay(k), name)] \in Lowered(Models(Relay(k)))
                 \/ /\ Lower[name] \in Clients(Relay(k)) /\ Relay(k).declared # <<>>
                    /\ Lower[Relay(k).aliases[Lower[name]]] \notin Lowered(Models(Relay(k)))
      BY <2>1, <2>2, <2>4, CompiledRelaysRewrite
    <2>5. QED
      BY <2>2, <2>3, <2>4
  <1>2. QED
    BY <1>1, CatalogTypeCorrect, PTL

-----------------------------------------------------------------------------

(* What the compilation of a policy checked of a route holds of each       *)
(* deployment of its candidates: names of real models are told apart by    *)
(* their lowercase, so the deployment's model is the candidate's. *)
LEMMA CandidatesAreReal ==
  ASSUME NEW policy, PolicyCompiles(policy), NEW candidates, NEW capabilities,
         \A c \in candidates : RealOf(policy, c) # {},
         Supports(policy, candidates, capabilities),
         NEW m \in DOMAIN policy.real, Lower[m] \in Lowered(candidates)
  PROVE  capabilities \subseteq policy.real[m].capabilities
  <1>1. PICK c \in candidates : Lower[c] = Lower[m]
    BY DEF Lowered
  <1>2. m \in RealOf(policy, c) /\ \A n \in RealOf(policy, c) : n = m
    BY <1>1 DEF RealOf, PolicyCompiles
  <1>3. Real(policy, c) = m
    BY <1>2 DEF Real
  <1>4. QED
    BY <1>3 DEF Supports

LEMMA RequestsAreSupported ==
  ASSUME NEW policy, PolicyCompiles(policy), NEW request \in LogicalRequests(policy),
         NEW m \in DOMAIN policy.real, Lower[m] \in Lowered(request.candidates)
  PROVE  request.capabilities \subseteq policy.real[m].capabilities
  <1>1. ASSUME NEW l \in DOMAIN policy.logical
        PROVE  RouteCompiles(policy, policy.logical[l]) /\ TasksCompile(policy, l)
    BY DEF PolicyCompiles
  <1>2. ASSUME NEW l \in DOMAIN policy.logical, request = Plain(policy, l)
        PROVE  request.capabilities \subseteq policy.real[m].capabilities
    <2>1. /\ request.candidates = policy.logical[l].candidates
          /\ request.capabilities = policy.logical[l].capabilities
      BY <1>2 DEF Plain
    <2>2. /\ \A c \in request.candidates : RealOf(policy, c) # {}
          /\ Supports(policy, request.candidates, request.capabilities)
      BY <1>1, <2>1 DEF RouteCompiles
    <2>3. QED
      BY <2>2, CandidatesAreReal
  <1>3. ASSUME NEW l \in DOMAIN policy.logical, NEW t \in policy.logical[l].tasks,
               request = WithTask(policy, l, t)
        PROVE  request.capabilities \subseteq policy.real[m].capabilities
    <2> DEFINE own == policy.logical[l].capabilities
               more == policy.tasks[t].capabilities
    <2>1. /\ request.candidates = policy.tasks[t].candidates
          /\ request.capabilities = own \cup more
      BY <1>3 DEF WithTask
    <2>2. t \in DOMAIN policy.tasks /\ Supports(policy, request.candidates, own)
      BY <1>1, <2>1 DEF TasksCompile
    <2>3. RouteCompiles(policy, policy.tasks[t])
      BY <2>2 DEF PolicyCompiles
    <2>4. /\ \A c \in request.candidates : RealOf(policy, c) # {}
          /\ Supports(policy, request.candidates, more)
      BY <2>1, <2>3 DEF RouteCompiles
    <2>5. own \subseteq policy.real[m].capabilities
      BY <2>2, <2>4, CandidatesAreReal
    <2>6. more \subseteq policy.real[m].capabilities
      BY <2>4, CandidatesAreReal
    <2>7. QED
      BY <2>1, <2>5, <2>6
  <1>4. QED
    BY <1>2, <1>3 DEF LogicalRequests

(* What the time rules leave of deployments some of which are allowed: an  *)
(* "only" that leaves nothing gives all of them back. *)
LEMMA RulesLeaveSome ==
  ASSUME NEW rules, NEW logical, NEW at, NEW deployments, ~ rules.strict,
         {d \in deployments : ~ Forbidden(rules, logical, at, d.relay)} # {}
  PROVE  Filtered(rules, logical, at, deployments) # {}
  <1> DEFINE kept == {d \in deployments : ~ Forbidden(rules, logical, at, d.relay)}
             narrowed == Narrowed(rules, logical, at, kept)
  <1>1. Only(rules, logical, at) = {} => narrowed = kept
    BY DEF Narrowed
  <1>2. Filtered(rules, logical, at, deployments) =
          IF Only(rules, logical, at) # {} /\ narrowed = {} /\ ~ rules.strict
          THEN deployments ELSE narrowed
    BY DEF Filtered
  <1>3. deployments # {} /\ kept # {}
    OBVIOUS
  <1> HIDE DEF kept, narrowed
  <1>4. QED
    BY <1>1, <1>2, <1>3

(* The rules in force never take every deployment from a request that can  *)
(* do with any tier: each deployment of its candidates matches it, and one *)
(* of them is left. *)
THEOREM RulesAlwaysLeaveOne == CatalogSpec => []RulesLeaveACandidate
  <1>1. TypeOK => RulesLeaveACandidate
    <2> DEFINE all(request) == Deployments(request)
               allowed(request) ==
                 {d \in all(request) : ~ Forbidden(conf.rules, request.logical, clock, d.relay)}
               left(request) == Filtered(conf.rules, request.logical, clock, all(request))
    <2> SUFFICES ASSUME revision \in Loadable, NEW request \in LogicalRequests(conf.policy),
                        allowed(request) # {}, ~ conf.rules.strict,
                        request.tier = "" \/ request.weak = "yes"
                 PROVE  \E d \in left(request) : Matches(conf.policy, request, d.model)
      BY DEF TypeOK, RulesLeaveACandidate
    <2>1. PolicyCompiles(conf.policy)
      BY PolicyLoads DEF conf
    <2>2. PICK d \in left(request) : TRUE
      BY RulesLeaveSome
    <2>3. d \in Deployments(request)
      BY <2>2, FilteredAreDeployments
    <2>4. d.model \in DOMAIN conf.policy.real /\ Lower[d.model] \in Lowered(request.candidates)
      BY <2>3 DEF Deployments
    <2>5. request.capabilities \subseteq conf.policy.real[d.model].capabilities
      BY <2>1, <2>4, RequestsAreSupported
    <2>6. QED
      BY <2>2, <2>5 DEF Matches
  <1>2. QED
    BY <1>1, CatalogTypeCorrect, PTL

-----------------------------------------------------------------------------

(* The gate of the listing and the gates of the dispatch.  What the        *)
(* listing calls ready or probing has nothing in its way. *)
LEMMA OpenIsUnhindered ==
  ASSUME NEW k, NEW name, Eligibility(k, name) \in {"ready", "probing"}
  PROVE  ~ Expired(k) /\ ~ Blocked(name) /\ ~ Cooling(k, name) /\ ~ Congested(k, name)
  BY DEF Eligibility

LEMMA NothingInTheWay ==
  ASSUME NEW k, NEW name, Eligibility(k, name) \in {"ready", "probing"}
  PROVE  /\ ~ Has(k, "expired", AnyName) /\ ~ Has(k, "proxy", AnyName) /\ ~ Has(k, "closed", AnyName)
         /\ ~ Has(k, "spent", AnyName) /\ ~ Has(k, "cool", AnyName) /\ ~ Has(k, "paced", AnyName)
         /\ ~ Has(k, "full", AnyName) /\ ~ Has(k, "dead", Lower[name])
         /\ ~ Has(Gateway, "crowded", Lower[name])
         /\ ~ Everywhere("unsaved") /\ ~ Everywhere("busy") /\ ~ Blocked(name)
  <1>1. ~ Expired(k) /\ ~ Blocked(name) /\ ~ Cooling(k, name) /\ ~ Congested(k, name)
    BY OpenIsUnhindered
  <1>2. QED
    BY <1>1 DEF Expired, Cooling, Congested

(* A logical request can have each deployment the listing calls open, and  *)
(* no other. *)
LEMMA OpenDeploymentsAreHad ==
  ASSUME NEW request, NEW d \in Left(request)
  PROVE  d \in Selectable(request) /\ Acquirable(d)
           <=> Eligibility(d.relay, d.model) \in {"ready", "probing"}
  <1>1. ASSUME Eligibility(d.relay, d.model) \in {"ready", "probing"}
        PROVE  d \in Selectable(request) /\ Acquirable(d)
    BY <1>1, NothingInTheWay DEF Selectable, Acquirable, Expired
  <1>2. QED
    BY <1>1 DEF Selectable

LEMMA ShownOpen ==
  ASSUME NEW request, NEW d
  PROVE  /\ ShownState(request, d) = "ready"
              => ~ Engaged(request) /\ Eligibility(d.relay, d.model) = "ready"
         /\ ShownState(request, d) \in {"ready", "probing"}
              <=> ~ Engaged(request) /\ Eligibility(d.relay, d.model) \in {"ready", "probing"}
  BY DEF ShownState

(* Whether the gateway is ready is whether a logical request finds a       *)
(* deployment. *)
LEMMA ReadyIsServing ==
  Ready <=> \E l \in DOMAIN conf.policy.logical :
              LET request == Plain(conf.policy, l)
              IN  ~ Engaged(request) /\ \E d \in Selectable(request) : Acquirable(d)
  <1> DEFINE Request(l) == Plain(conf.policy, l)
             Some(l) == ~ Engaged(Request(l)) /\ \E d \in Selectable(Request(l)) : Acquirable(d)
             Any(l) == \E d \in Left(Request(l)) : ShownState(Request(l), d) \in {"ready", "probing"}
  <1>1. ASSUME NEW l
        PROVE  Plan(Request(l)).dispatchable <=> Any(l)
    BY DEF Plan
  <1>2. ASSUME NEW l
        PROVE  Any(l) <=> Some(l)
    <2>1. Selectable(Request(l)) \subseteq Left(Request(l))
      BY DEF Selectable
    <2> HIDE DEF Request
    <2>2. QED
      BY <2>1, OpenDeploymentsAreHad, ShownOpen
  <1>3. Ready <=> \E l \in DOMAIN conf.policy.logical : Plan(Request(l)).dispatchable
    BY DEF Ready, LogicalPlans
  <1> HIDE DEF Any, Some, Request
  <1>4. Ready <=> \E l \in DOMAIN conf.policy.logical : Some(l)
    BY <1>1, <1>2, <1>3
  <1>5. QED
    BY <1>4 DEF Some, Request

LEMMA LogicalListingAgrees ==
  ASSUME NEW l \in DOMAIN conf.policy.logical, NEW entry, entry.id = l,
         entry.health = Plan(Plain(conf.policy, l)).health
  PROVE  LogicalAgrees(entry)
  <1> DEFINE request == Plain(conf.policy, l)
             states == {ShownState(request, d) : d \in Left(request)}
  <1>1. entry.health = Health(states) /\ request.logical = l
    BY DEF Plan, Plain
  <1> HIDE DEF request
  <1>2. ASSUME entry.health = "available"
        PROVE  LogicalServing(request) # {} \/ Blocked(l)
    <2>1. PICK d \in Left(request) : ShownState(request, d) = "ready"
      BY <1>1, <1>2 DEF Health
    <2>2. ~ Engaged(request) /\ Eligibility(d.relay, d.model) = "ready"
      BY <2>1, ShownOpen
    <2>3. d \in Selectable(request) /\ Acquirable(d)
      BY <2>2, OpenDeploymentsAreHad
    <2>4. QED
      BY <1>1, <2>2, <2>3 DEF LogicalServing
  <1>3. ASSUME entry.health = "unavailable", NEW d \in LogicalServing(request)
        PROVE  FALSE
    <2>1. ~ Engaged(request) /\ d \in Selectable(request) /\ Acquirable(d)
      BY <1>3 DEF LogicalServing
    <2>2. d \in Left(request)
      BY <2>1 DEF Selectable
    <2>3. ShownState(request, d) \in {"ready", "probing"}
      BY <2>1, <2>2, OpenDeploymentsAreHad, ShownOpen
    <2>4. "ready" \in states \/ "probing" \in states
      BY <2>2, <2>3
    <2> HIDE DEF states
    <2>5. QED
      BY <1>1, <1>3, <2>4 DEF Health
  <1>4. QED
    BY <1>2, <1>3 DEF LogicalAgrees, request

(* Only keys with windows have them closed or spent. *)
LEMMA WindowsAreOfManagedKeys ==
  ASSUME TypeOK, NEW k \in Pool, NEW kind \in OfWindow, Has(k, kind, AnyName)
  PROVE  Relay(k).managed
  <1> DEFINE t == [at |-> k, kind |-> kind, name |-> AnyName]
  <1>1. t \in Befalls /\ t.at = k /\ t.kind = kind
    BY DEF Has, TypeOK
  <1>2. k # Gateway
    BY KeysHaveRelays DEF TypeOK, Pool
  <1> HIDE DEF t
  <1>3. t \notin KeyTroubles(revision)
    BY <1>1 DEF KeyTroubles, OfKey, OfWindow
  <1>4. t \notin GeneralTroubles /\ t \notin NameTroubles(revision)
    BY <1>1, <1>2 DEF GeneralTroubles, NameTroubles
  <1>5. t \notin DeadNames(revision)
    <2>1. ASSUME NEW j \in Pools[revision],
                 t \in [at : {j}, kind : {"dead"}, name : Lowered(Answers[<<revision, j>>])]
          PROVE  FALSE
      BY <1>1, <2>1 DEF OfWindow
    <2>2. QED
      BY <2>1 DEF DeadNames
  <1>6. t \in WindowTroubles(revision)
    BY <1>1, <1>3, <1>4, <1>5 DEF Befalls, BefallsOf, TypeOK
  <1>7. QED
    BY <1>1, <1>6 DEF WindowTroubles, Relay, conf

\* Spellings of a name share what befalls it.
LEMMA SpellingsShareFate ==
  ASSUME NEW k, NEW m, NEW n, Lower[m] = Lower[n]
  PROVE  Eligibility(k, m) = Eligibility(k, n)
  <1>1. Verdict(k, m) = Verdict(k, n)
    BY DEF Verdict
  <1>2. Blocked(m) = Blocked(n) /\ Cooling(k, m) = Cooling(k, n) /\ Congested(k, m) = Congested(k, n)
    BY <1>1 DEF Blocked, Cooling, Congested
  <1>3. QED
    BY <1>1, <1>2 DEF Eligibility

LEMMA PhysicalListingAgrees ==
  ASSUME TypeOK, NEW format, NEW listed \in Listing(format), NEW entry,
         entry.id = listed.id, entry.health = listed.health
  PROVE  PhysicalAgrees(format, entry)
  <1>1. PICK l \in Shelf(format) :
          /\ listed.id \in Ids(format, l)
          /\ listed.health = Health({Eligibility(k, l) : k \in Showing(format, l)})
    BY DEF Listing
  <1> DEFINE n == listed.id
  <1>2. Lower[n] = l
    BY <1>1 DEF Ids
  <1>3. Lower[l] = l
    <2>1. PICK k \in Pool : l \in Lowered(Shown(k))
      BY DEF Shelf
    <2>2. QED
      BY <2>1, ShownAreNames, LowerAssumption DEF Lowered, TypeOK
  <1>4. \A k : Eligibility(k, l) = Eligibility(k, n)
    BY <1>2, <1>3, SpellingsShareFate
  <1>5. entry.id = n /\ entry.health = Health({Eligibility(k, n) : k \in Showing(format, Lower[n])})
    BY <1>1, <1>2, <1>4
  <1>6. ASSUME NEW k \in Showing(format, Lower[n]), Eligibility(k, n) = "ready",
               ~ Logical(n), Admitted(k, n, format), Knows(k, n)
        PROVE  k \in Serving(format, n)
    <2>1. /\ ~ Has(k, "expired", AnyName) /\ ~ Has(k, "proxy", AnyName) /\ ~ Has(k, "closed", AnyName)
          /\ ~ Has(k, "spent", AnyName) /\ ~ Has(k, "cool", AnyName) /\ ~ Has(k, "paced", AnyName)
          /\ ~ Has(k, "full", AnyName) /\ ~ Has(k, "dead", Lower[n])
          /\ ~ Has(Gateway, "crowded", Lower[n])
          /\ ~ Everywhere("unsaved") /\ ~ Everywhere("busy") /\ ~ Blocked(n)
      BY <1>6, NothingInTheWay
    <2>2. k \in Pool /\ Speaks(Relay(k), format)
      BY DEF Showing
    <2>3. k \in Pick(format, n)
      BY <1>6, <2>1, <2>2 DEF Pick, Expired
    <2>4. QED
      BY <1>6, <2>1, <2>3 DEF Serving
  <1>7. ASSUME NEW k \in Serving(format, n), entry.health = "unavailable", ~ Unsteady(k, n)
        PROVE  FALSE
    <2>1. ~ Blocked(n) /\ k \in Pick(format, n)
      BY <1>7 DEF Serving
    <2>2. k \in Pool /\ k \in Showing(format, Lower[n])
      BY <1>7, <2>1 DEF Pick, Showing, Unsteady
    <2>3. Eligibility(k, n) \notin {"ready", "congested", "probing"}
      BY <1>5, <1>7, <2>2 DEF Health
    <2>4. ~ Expired(k) /\ Cooling(k, n)
      BY <2>1, <2>3 DEF Eligibility, Pick
    <2>5. ~ Has(k, "closed", AnyName) /\ ~ Has(k, "spent", AnyName)
      BY <2>1, <2>2, WindowsAreOfManagedKeys DEF Pick, OfWindow
    <2>6. QED
      BY <1>7, <2>1, <2>4, <2>5 DEF Cooling, Pick, Unsteady
  <1>8. QED
    BY <1>5, <1>6, <1>7 DEF PhysicalAgrees

(* What clients are shown and what they then get agree, for every          *)
(* configuration, every trouble and every verdict. *)
THEOREM ListingIsTrue == CatalogSpec => []ListingAgreesWithDispatch
  <1>1. TypeOK => ListingAgreesWithDispatch
    <2> SUFFICES ASSUME TypeOK
                 PROVE  ListingAgreesWithDispatch
      OBVIOUS
    <2>1. ASSUME NEW format \in {"openai", "anthropic"}, NEW entry \in ModelList(format)
          PROVE  IF entry.logical THEN LogicalAgrees(entry) ELSE PhysicalAgrees(format, entry)
      <3>1. CASE \E listed \in Listing(format) :
                   entry = [id |-> listed.id, logical |-> FALSE, health |-> listed.health]
        <4>1. PICK listed \in Listing(format) :
                entry = [id |-> listed.id, logical |-> FALSE, health |-> listed.health]
          BY <3>1
        <4>2. ~ entry.logical /\ entry.id = listed.id /\ entry.health = listed.health
          BY <4>1
        <4>3. QED
          BY <4>2, PhysicalListingAgrees
      <3>2. CASE \E plan \in LogicalPlans :
                   entry = [id |-> plan.logical, logical |-> TRUE, health |-> plan.health]
        <4>1. PICK l \in DOMAIN conf.policy.logical :
                entry = [id |-> Plan(Plain(conf.policy, l)).logical, logical |-> TRUE,
                         health |-> Plan(Plain(conf.policy, l)).health]
          BY <3>2 DEF LogicalPlans
        <4>2. Plan(Plain(conf.policy, l)).logical = l
          BY DEF Plan, Plain
        <4>3. entry.logical /\ entry.id = l /\ entry.health = Plan(Plain(conf.policy, l)).health
          BY <4>1, <4>2
        <4>4. QED
          BY <4>3, LogicalListingAgrees
      <3>3. QED
        BY <2>1, <3>1, <3>2 DEF ModelList
    <2>2. QED
      BY <2>1, ReadyIsServing DEF ListingAgreesWithDispatch
  <1>2. QED
    BY <1>1, CatalogTypeCorrect, PTL
================================================================================
