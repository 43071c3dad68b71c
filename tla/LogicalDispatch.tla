--------------------------- MODULE LogicalDispatch ---------------------------
(***************************************************************************)
(* Logical requests: admission under the limit of their logical model,     *)
(* attempts on one deployment after another until one answers validly, the *)
(* sleeps between attempts, and the slots of strong models that are kept   *)
(* for protected requests.  Requests for a real model, which compete for   *)
(* the same keys (module KeyPool), are left out.                           *)
(*                                                                         *)
(* A request whose phase is "turn" is in a synchronous stretch of its      *)
(* handler: until it sleeps, sends or ends no other callback runs, but the *)
(* clock does.  The health of keys is reduced to the end of a cooldown;    *)
(* module KeyPool has it in full.                                          *)
(***************************************************************************)
EXTENDS LogicalScheduler

CONSTANTS
    Vendors,
    VendorPolicy,   \* vendor |-> its shared ceiling, and whether models are bounded
    KeyPolicy,      \* key |-> its vendor, ceiling and pacing
    ModelCap,       \* model |-> maxInflight
    Supports,       \* the deployments: which models a key serves
    Logical,        \* names of logical models
    Tasks,          \* names the demand of protected requests is kept under
    Requests,
    Route,          \* request |-> its resolved policy
    NoPair,
    KeyCooldown,    \* what an upstream failure may cost a key
    PairCooldown,   \* what an unknown model costs the pair
    AdmissionPoll,
    ProbeDelay,     \* from the closing of a quota window to its probe
    MaxShuts,       \* bound of the times egress or quota shuts a key
    MaxArrival,     \* bound of the arrivals
    MaxTime         \* bound of the clock

Routes ==
    [logical : Logical, task : Tasks,
     place : [Models -> Nat],        \* position among the candidates
     candidates : SUBSET Models,
     matching : SUBSET Models,       \* those of a tier the request accepts
     strategy : {"fair", "ordered", "adaptive"},
     protected : BOOLEAN, readySlots : Nat, maxInflight : Nat \ {0},
     maxAttempts : Nat \ {0}, deadline : Nat \ {0}, admission : Nat]

Open  == -1
Times == 0 .. MaxTime

ASSUME DispatchAssumption ==
    /\ VendorPolicy \in [Vendors -> [limit : Nat, unboundedModel : BOOLEAN]]
    /\ KeyPolicy \in [Keys -> [vendor : Vendors, cap : Nat \ {0}, interval : Nat]]
    /\ ModelCap \in [Models -> Nat \ {0}]
    /\ Supports \subseteq Pairs
    /\ IsFiniteSet(Tasks) /\ IsFiniteSet(Requests)
    /\ Route \in [Requests -> Routes]
    /\ \A r \in Requests : /\ MaxArrival + Route[r].deadline <= MaxTime
                           /\ Route[r].matching \subseteq Route[r].candidates
                           /\ Route[r].admission <= Route[r].deadline
    /\ NoPair \notin Pairs
    /\ {KeyCooldown, PairCooldown, ProbeDelay, MaxShuts, MaxArrival, MaxTime} \subseteq Nat
    /\ AdmissionPoll \in Nat \ {0}

VARIABLES
    now,
    phase,      \* request |-> where its handler is
    until,      \* request |-> when its sleep ends
    start,      \* request |-> when it arrived
    tried,      \* request |-> the deployments that failed it
    sent,       \* request |-> the deployment of the attempt under way
    active,     \* logical model |-> requests admitted
    demand,     \* task |-> slots its protected requests ask to keep ready
    keyUntil,   \* key |-> end of its cooldown
    paced,      \* key |-> earliest start its pacing allows
    shut,       \* key |-> Open, or the time of the next probe, 0 if there is none
    pairUntil,  \* deployment |-> end of its model cooldown
    qual,       \* deployment |-> its qualification
    shuts

leases  == <<active, demand>>
health  == <<keyUntil, pairUntil, qual>>
request == <<phase, until, start, tried, sent>>
vars    == <<now, request, leases, health, paced, shut, shuts>>

Phases == {"new", "waiting", "turn", "asleep", "sent", "done"}

TypeOK ==
    /\ now \in Times
    /\ phase \in [Requests -> Phases]
    /\ until \in [Requests -> Times]
    /\ start \in [Requests -> Times]
    /\ tried \in [Requests -> SUBSET Supports]
    /\ sent \in [Requests -> Supports \cup {NoPair}]
    /\ active \in [Logical -> Nat]
    /\ demand \in [Tasks -> Nat]
    /\ keyUntil \in [Keys -> 0 .. MaxTime + KeyCooldown]
    /\ paced \in [Keys -> Nat]
    /\ shut \in [Keys -> Times \cup {Open}]
    /\ pairUntil \in [Supports -> 0 .. MaxTime + PairCooldown]
    /\ qual \in [Supports -> [outcome : {"none", "valid", "invalid"}, failures : Nat,
                              nextProbe : 0 .. MaxTime + BackoffMax]]
    /\ shuts \in 0 .. MaxShuts

-----------------------------------------------------------------------------
(* Slots.                                                                  *)

Sent == {r \in Requests : phase[r] = "sent"}

Vendor(k) == KeyPolicy[k].vendor

KeyInflight(k)    == Cardinality({r \in Sent : sent[r].key = k})
VendorInflight(v) == Cardinality({r \in Sent : Vendor(sent[r].key) = v})
ModelInflight(m)  ==
    Cardinality({r \in Sent : sent[r].model = m
                              /\ ~ VendorPolicy[Vendor(sent[r].key)].unboundedModel})

KeyFull(k)    == KeyInflight(k) >= KeyPolicy[k].cap
VendorFull(k) == VendorInflight(Vendor(k)) >= VendorPolicy[Vendor(k)].limit
ModelFull(m)  == ModelInflight(m) >= ModelCap[m]

\* acquire, of the registry of logical deployments
Acquirable(p) ==
    /\ shut[p.key] = Open
    /\ paced[p.key] <= now
    /\ ~ KeyFull(p.key)
    /\ keyUntil[p.key] <= now
    /\ pairUntil[p] <= now
    /\ VendorPolicy[Vendor(p.key)].unboundedModel \/ ~ ModelFull(p.model)
    /\ ~ VendorFull(p.key)

\* Mutant of Full: the ceiling of the vendor is left to acquire.
FullNoVendor(p) == KeyFull(p.key) \/ ModelFull(p.model)

Full(p) == VendorFull(p.key) \/ KeyFull(p.key) \/ ModelFull(p.model)

\* When the cooldowns of a deployment end, its qualification apart.
Waits(p) == {keyUntil[p.key], pairUntil[p], paced[p.key],
             IF shut[p.key] = Open THEN 0 ELSE shut[p.key]}

Entry(p) == Evaluate(shut[p.key] # Open, Waits(p), Full(p), qual[p], now)

\* list, for one request
Listed(r) == {p \in Supports : p.model \in Route[r].candidates}

-----------------------------------------------------------------------------
(* Selection.                                                              *)

Deadline(r) == start[r] + Route[r].deadline

Reserved == Total(demand, Tasks)

KeyFree   == [k \in Keys |-> Max({0, KeyPolicy[k].cap - KeyInflight(k)})]
ModelFree == [m \in Models |-> Max({0, ModelCap[m] - ModelInflight(m)})]

FreeStrongSlots(r) ==
    SlotFlow({p \in Listed(r) : p.model \in Strong /\ Dispatchable(Entry(p))},
             KeyFree, ModelFree)

\* A strong deployment is kept for the protected requests.
Withheld(r, p) ==
    /\ ~ Route[r].protected
    /\ p.model \in Strong
    /\ Reserved > 0
    /\ FreeStrongSlots(r) <= Reserved

Untried(r) == {p \in Listed(r) : p.model \in Route[r].matching} \ tried[r]

Allowed(r) == {p \in Untried(r) : Dispatchable(Entry(p)) /\ ~ Withheld(r, p)}

Selected(r) ==
    LET allowed  == Allowed(r)
        found    == {p.model : p \in allowed}
        entry    == [p \in Supports |-> Entry(p)]
        attempts == [m \in Models |-> Cardinality({p \in tried[r] : p.model = m})]
    IN  UNION {Selections(best, Route[r].strategy, entry, attempts, Route[r].place) :
                  best \in {f \in [found -> allowed] : \A m \in found : f[m].model = m}}

-----------------------------------------------------------------------------
(* Leases.                                                                 *)

Asks(r) == IF Route[r].protected THEN Route[r].readySlots ELSE 0

MayEnter(r) == active[Route[r].logical] < Route[r].maxInflight

Enter(r) ==
    /\ active' = [active EXCEPT ![Route[r].logical] = @ + 1]
    /\ demand' = [demand EXCEPT ![Route[r].task] = @ + Asks(r)]

Release(r) ==
    /\ active' = [active EXCEPT ![Route[r].logical] = Max({0, @ - 1})]
    /\ demand' = [demand EXCEPT ![Route[r].task] = Max({0, @ - Asks(r)})]

-----------------------------------------------------------------------------
(* The handler of a logical request.                                       *)

Quiet == \A r \in Requests : phase[r] # "turn"

Becomes(r, p) == phase' = [phase EXCEPT ![r] = p]

SleepsUntil(r, p, t) ==
    /\ Becomes(r, p)
    /\ until' = [until EXCEPT ![r] = t]

\* The handler returns, and its local state is gone.
Ends(r) ==
    /\ Becomes(r, "done")
    /\ until' = [until EXCEPT ![r] = 0]
    /\ start' = [start EXCEPT ![r] = 0]
    /\ tried' = [tried EXCEPT ![r] = {}]
    /\ sent' = [sent EXCEPT ![r] = NoPair]

\* One call of enter for a request that arrived at t, and what follows it when
\* it is refused.
TryEnter(r, t) ==
    LET end == t + Route[r].admission
    IN  \/ /\ MayEnter(r)
           /\ Enter(r)
           /\ Becomes(r, "turn")
           /\ until' = [until EXCEPT ![r] = 0]
           /\ start' = [start EXCEPT ![r] = t]
           /\ UNCHANGED <<tried, sent>>
        \/ /\ ~ MayEnter(r)
           /\ now < end
           /\ SleepsUntil(r, "waiting", Min({now + AdmissionPoll, end}))
           /\ start' = [start EXCEPT ![r] = t]
           /\ UNCHANGED <<tried, sent, leases>>
        \/ /\ ~ MayEnter(r)
           /\ now >= end
           /\ Ends(r)
           /\ UNCHANGED leases

Arrive(r) ==
    /\ Quiet
    /\ phase[r] = "new"
    /\ now <= MaxArrival
    /\ TryEnter(r, now)
    /\ UNCHANGED <<now, health, paced, shut, shuts>>

AskAgain(r) ==
    /\ Quiet
    /\ phase[r] = "waiting"
    /\ until[r] <= now
    /\ TryEnter(r, start[r])
    /\ UNCHANGED <<now, health, paced, shut, shuts>>

\* The pick is made: slots are taken and the pacing of the key is consumed.
Send(r, p) ==
    /\ Becomes(r, "sent")
    /\ sent' = [sent EXCEPT ![r] = p]
    /\ paced' = [paced EXCEPT ![p.key] =
                    IF KeyPolicy[p.key].interval = 0 THEN @ ELSE now + KeyPolicy[p.key].interval]

MayTry(r) == Cardinality(tried[r]) < Route[r].maxAttempts /\ now < Deadline(r)

Delay(r) == RetryDelay({Entry(p) : p \in Untried(r)}, now, Deadline(r))

\* One turn of the attempt loop.  A selection that acquire refuses is looked
\* for again without a pause.
Turn(r) ==
    LET chosen == IF MayTry(r) THEN Selected(r) ELSE {}
        delay  == IF MayTry(r) THEN Delay(r) ELSE 0
    IN  /\ phase[r] = "turn"
        /\ \/ /\ \E p \in chosen :
                    IF Acquirable(p) THEN Send(r, p) ELSE UNCHANGED <<phase, sent, paced>>
              /\ UNCHANGED <<until, start, tried, leases>>
           \/ /\ chosen = {}
              /\ delay > 0
              /\ SleepsUntil(r, "asleep", now + delay)
              /\ UNCHANGED <<start, tried, sent, paced, leases>>
           \/ /\ chosen = {}
              /\ delay = 0
              /\ Ends(r)
              /\ Release(r)
              /\ UNCHANGED paced
        /\ UNCHANGED <<now, health, shut, shuts>>

Wake(r) ==
    /\ Quiet
    /\ phase[r] = "asleep"
    /\ until[r] <= now
    /\ SleepsUntil(r, "turn", 0)
    /\ UNCHANGED <<now, start, tried, sent, leases, health, paced, shut, shuts>>

\* What an outcome does to the key and the model it was asked for.
Outcomes == {"valid", "invalid", "failed", "missing", "internal"}

KeyAfter(p, outcome) ==
    /\ \/ UNCHANGED keyUntil
       \/ /\ outcome \in {"valid", "invalid"}
          /\ keyUntil' = [keyUntil EXCEPT ![p.key] = 0]
       \/ /\ outcome = "failed"
          /\ keyUntil' = [keyUntil EXCEPT ![p.key] = Max({@, now + KeyCooldown})]
    /\ pairUntil' = IF outcome = "missing"
                    THEN [pairUntil EXCEPT ![p] = Max({@, now + PairCooldown})]
                    ELSE pairUntil

\* The answer to an attempt: a valid one ends the request, after any other the
\* loop goes on without that deployment.
Answer(r, outcome) ==
    LET p == sent[r]
    IN  /\ Quiet
        /\ phase[r] = "sent"
        /\ KeyAfter(p, outcome)
        /\ qual' = [qual EXCEPT ![p] = Recorded(@, outcome = "valid", now)]
        /\ IF outcome = "valid"
           THEN Ends(r) /\ Release(r)
           ELSE /\ Becomes(r, "turn")
                /\ tried' = [tried EXCEPT ![r] = @ \cup {p}]
                /\ sent' = [sent EXCEPT ![r] = NoPair]
                /\ UNCHANGED <<until, start, leases>>
    /\ UNCHANGED <<now, paced, shut, shuts>>

\* The client disconnects: sleeps end at once and the attempt is cancelled; an
\* answer that was already under way still counts for the key.
Leave(r) ==
    /\ Quiet
    /\ phase[r] \in {"waiting", "asleep", "sent"}
    /\ Ends(r)
    /\ IF phase[r] = "sent" THEN \E o \in Outcomes : KeyAfter(sent[r], o)
                            ELSE UNCHANGED <<keyUntil, pairUntil>>
    /\ IF phase[r] = "waiting" THEN UNCHANGED leases ELSE Release(r)
    /\ UNCHANGED <<now, qual, paced, shut, shuts>>

-----------------------------------------------------------------------------
(* Everything else that happens to the keys.                               *)

\* The egress listener of a key fails (t = 0), or its quota window closes with a
\* probe due at t.
Shut(k, t) ==
    /\ Quiet
    /\ shuts < MaxShuts
    /\ shut[k] = Open
    /\ shut' = [shut EXCEPT ![k] = t]
    /\ shuts' = shuts + 1
    /\ UNCHANGED <<now, request, leases, health, paced>>

Reopen(k) ==
    /\ Quiet
    /\ shut[k] # Open
    /\ shut' = [shut EXCEPT ![k] = Open]
    /\ UNCHANGED <<now, request, leases, health, paced, shuts>>

Tick ==
    /\ now < MaxTime
    /\ now' = now + 1
    /\ UNCHANGED <<request, leases, health, paced, shut, shuts>>

-----------------------------------------------------------------------------
Init ==
    /\ now = 0
    /\ phase = [r \in Requests |-> "new"]
    /\ until = [r \in Requests |-> 0]
    /\ start = [r \in Requests |-> 0]
    /\ tried = [r \in Requests |-> {}]
    /\ sent = [r \in Requests |-> NoPair]
    /\ active = [l \in Logical |-> 0]
    /\ demand = [t \in Tasks |-> 0]
    /\ keyUntil = [k \in Keys |-> 0]
    /\ paced = [k \in Keys |-> 0]
    /\ shut = [k \in Keys |-> Open]
    /\ pairUntil = [p \in Supports |-> 0]
    /\ qual = [p \in Supports |-> Unqualified]
    /\ shuts = 0

Handler(r) ==
    \/ Arrive(r) \/ AskAgain(r) \/ Turn(r) \/ Wake(r) \/ Leave(r)
    \/ \E outcome \in Outcomes : Answer(r, outcome)

Surroundings == \E k \in Keys : Reopen(k) \/ \E t \in {0, Min({now + ProbeDelay, MaxTime})} : Shut(k, t)

Next ==
    \/ \E r \in Requests : Handler(r)
    \/ Surroundings
    \/ Tick

Spec == Init /\ [][Next]_vars

\* Timers run, upstream attempts end by their own timeouts, and the event loop
\* gets to every handler; nobody has to arrive or to leave.
Fairness ==
    /\ WF_vars(Tick)
    /\ \A r \in Requests :
          /\ WF_vars(AskAgain(r))
          /\ WF_vars(Turn(r))
          /\ WF_vars(Wake(r))
          /\ WF_vars(\E outcome \in Outcomes : Answer(r, outcome))

FairSpec == Spec /\ Fairness

-----------------------------------------------------------------------------
(* Properties.                                                             *)

Admitted == {r \in Requests : phase[r] \in {"turn", "asleep", "sent"}}

\* The counter of a logical model is the number of its admitted requests.
ActiveExact ==
    \A l \in Logical : active[l] = Cardinality({r \in Admitted : Route[r].logical = l})

\* list and acquire judge a deployment by different rules.  Where they part,
\* acquire is the more generous one; else the loop would spin on a selection it
\* cannot have and block the process until the deadline.
SelectionIsAcquirable ==
    \A r \in Requests :
        (phase[r] = "turn" /\ MayTry(r)) => \A p \in Selected(r) : Acquirable(p)

\* n attempts on strong deployments of r's candidates can start side by side, as
\* far as keys and models have slots.
RoomFor(r, n) ==
    LET pairs == {p \in Listed(r) : /\ p.model \in Strong
                                    /\ shut[p.key] = Open
                                    /\ keyUntil[p.key] <= now
                                    /\ pairUntil[p] <= now
                                    /\ qual[p].nextProbe <= now}
    IN  \E given \in [pairs -> 0 .. n] :
            /\ Total(given, pairs) = n
            /\ \A k \in Keys : Total(given, {p \in pairs : p.key = k}) <= KeyFree[k]
            /\ \A m \in Models : Total(given, {p \in pairs : p.model = m}) <= ModelFree[m]

TakesStrong(r) ==
    /\ phase[r] = "turn" /\ phase'[r] = "sent"
    /\ ~ Route[r].protected
    /\ sent'[r].model \in Strong
    /\ Reserved > 0

\* An unprotected logical request takes a strong deployment only when there is
\* room for one attempt more than protected requests ask for, a key that serves
\* several models or a model of several keys being counted once.
ReserveCounted ==
    [][\A r \in Requests : TakesStrong(r) => RoomFor(r, Reserved + 1)]_vars

Resting(p) == qual[p].outcome = "invalid" /\ qual[p].nextProbe > now

\* docs/architecture.md: the backoff of an invalid answer "avoids retrying the
\* same invalid 200 on every downstream request".  Whatever attempts on it are
\* still under way, no request starts another until its end, which only a valid
\* answer brings forward.
BackoffHolds ==
    [][\A p \in Supports : Resting(p) =>
          /\ qual'[p].outcome = "valid" \/ qual'[p].nextProbe >= qual[p].nextProbe
          /\ \A r \in Requests : (phase[r] = "turn" /\ phase'[r] = "sent") => sent'[r] # p]_vars

\* docs/architecture.md: "Logical admission and request deadlines are bounded."
\* A request ends by itself before the clock stops, which is after its deadline.
EveryRequestEnds ==
    \A r \in Requests :
        phase[r] \in {"waiting", "turn", "asleep", "sent"} ~> phase[r] = "done"
=============================================================================
