------------------------------ MODULE ModelCatalog ------------------------------
(***************************************************************************)
(* What the gateway tells its clients it serves, and what it then does     *)
(* serve: the configuration in force, what has befallen its keys, the      *)
(* listing of models (model-inventory.mjs), the choice of a key for an     *)
(* ordinary request, and the deployments of a logical one.                 *)
(***************************************************************************)
EXTENDS RelayRegistry

INSTANCE ModelPolicy

CONSTANTS
    Configurations,    \* by revision, what may be on disk: [relays, env, policy, rules]
    First,             \* the revision the gateway starts with
    Clocks,            \* [day, time]
    MaxTroubles,       \* bound on the troubles at one time
    MaxVerdicts        \* bound on the verdicts at one time

ASSUME BoundsAssumption == MaxTroubles \in Nat /\ MaxVerdicts \in Nat

VARIABLES
    revision,          \* of the configuration in force
    troubles,          \* what stands in the way: [at, kind, name]
    verdicts,          \* latest validated outcomes: [at, name, is]
    clock

catalogVars == <<revision, troubles, verdicts, clock>>

-----------------------------------------------------------------------------

(* The configuration.                                                        *)

Loads(c) ==
    /\ \A r \in DOMAIN c.relays : Compiles(c.relays[r])
    /\ Discovers(c.env, c.relays)
    /\ PolicyCompiles(c.policy)

\* What loads, by revision; the keys of each, the names
\* each key shows, and those it answers to.
Loadable == {r \in DOMAIN Configurations : Loads(Configurations[r])}
Loaded == [r \in Loadable |->
    [Configurations[r] EXCEPT !.rules.list = [i \in DOMAIN @ |-> Normalized(@[i])]]]
Pools == [r \in Loadable |-> KeysOf(Loaded[r].env, Loaded[r].relays)]
KeyOf == UNION {{r} \X Pools[r] : r \in DOMAIN Pools}
Shows == [key \in KeyOf |-> Canonical(Loaded[key[1]].relays[key[2]])]
Answers == [key \in KeyOf |-> ModelSet(Loaded[key[1]].relays[key[2]])]

conf == Loaded[revision]
Pool == Pools[revision]
Relay(k) == conf.relays[k]

\* The order of the pool, by the names of the credentials.
Before(j, k) ==
    IF Legacy(conf.env, j) = Legacy(conf.env, k) THEN j < k ELSE Legacy(conf.env, j)

\* runtimeKeyIdentity: what keeps a key's state over a reload; weights are not in it.
Identity == [key \in KeyOf |->
    LET relay == Loaded[key[1]].relays[key[2]]
    IN  <<Models(relay), Shows[key], relay.aliases, relay.formats, relay.reserve, relay.managed>>]
SameKeys == [pair \in Loadable \X Loadable |->
    {k \in Pools[pair[1]] \cap Pools[pair[2]] : Identity[<<pair[1], k>>] = Identity[<<pair[2], k>>]}]

Unchanged(r, k) == k \in SameKeys[<<revision, r>>]

\* A name of the troubles and verdicts that concern all names, and a place for
\* those that concern all keys.
AnyName == "any"
Gateway == 0

\* The gateway starts with a configuration that loads; configurations have their
\* parts, and no relay is the place of what concerns all of them.
ASSUME CatalogAssumption ==
    /\ First \in Loadable
    /\ \A r \in DOMAIN Configurations :
          LET c == Configurations[r]
          IN  /\ DOMAIN c = {"relays", "env", "policy", "rules"}
              /\ c.relays \in [DOMAIN c.relays -> Relays]
              /\ Gateway \notin DOMAIN c.relays

OfKey == {"expired", "proxy", "cool", "paced", "full"}
OfWindow == {"closed", "spent"}
OfEverything == {"blocked", "busy", "unsaved"}
OfRequests == {"full", "busy", "crowded", "engaged"}  \* there while requests run

\* The real models are governed: a name of theirs may be at its limit.
GovernedBy == [r \in Loadable |-> {n \in Names : RealOf(Loaded[r].policy, n) # {}}]
Governed(name) == name \in GovernedBy[revision]

\* Troubles of a key, of its quota windows, of all keys, of a name at a key, and of
\* a name at all keys.
KeyTroubles(r) == [at : Pools[r], kind : OfKey, name : {AnyName}]
WindowTroubles(r) ==
    [at : {k \in Pools[r] : Loaded[r].relays[k].managed}, kind : OfWindow, name : {AnyName}]
GeneralTroubles == [at : {Gateway}, kind : OfEverything, name : {AnyName}]
DeadNames(r) == UNION {[at : {k}, kind : {"dead"}, name : Lowered(Answers[<<r, k>>])] : k \in Pools[r]}
NameTroubles(r) ==
    [at : {Gateway}, kind : {"crowded"}, name : Lowered(GovernedBy[r])]
    \cup [at : {Gateway}, kind : {"engaged"}, name : DOMAIN Loaded[r].policy.logical]
    \cup [at : {Gateway}, kind : {"unpriced"}, name : Lowered(Names)]

BefallsOf == [r \in Loadable |->
    KeyTroubles(r) \cup WindowTroubles(r) \cup GeneralTroubles \cup DeadNames(r) \cup NameTroubles(r)]
Befalls == BefallsOf[revision]

Has(at, kind, name) == [at |-> at, kind |-> kind, name |-> name] \in troubles
Everywhere(kind) == Has(Gateway, kind, AnyName)
Verdict(k, name) == {v.is : v \in {v \in verdicts : v.at = k /\ v.name = Lower[name]}}

-----------------------------------------------------------------------------

(* The listing.                                                              *)

\* evaluateCandidate, with the inputs collectVendorModelHealth gives it.
Expired(k) == Has(k, "expired", AnyName)
Blocked(name) == Everywhere("blocked") \/ Has(Gateway, "unpriced", Lower[name])
Cooling(k, name) ==
    \/ \E kind \in {"proxy", "closed", "spent", "cool", "paced"} : Has(k, kind, AnyName)
    \/ Everywhere("unsaved")
    \/ Has(k, "dead", Lower[name])
    \/ "failed" \in Verdict(k, name)
Congested(k, name) ==
    Everywhere("busy") \/ Has(k, "full", AnyName) \/ Has(Gateway, "crowded", Lower[name])

\* Mutant of Eligibility: a key whose window of requests is used up counts as ready.
EligibilityUnpaced(k, name) ==
    IF Expired(k) THEN "expired" ELSE IF Blocked(name) THEN "blocked"
    ELSE IF Cooling(k, name) /\ ~Has(k, "paced", AnyName) THEN "cooldown"
    ELSE IF Congested(k, name) THEN "congested"
    ELSE IF "valid" \in Verdict(k, name) THEN "ready" ELSE "probing"

Eligibility(k, name) ==
    IF Expired(k) THEN "expired" ELSE IF Blocked(name) THEN "blocked"
    ELSE IF Cooling(k, name) THEN "cooldown" ELSE IF Congested(k, name) THEN "congested"
    ELSE IF "valid" \in Verdict(k, name) THEN "ready" ELSE "probing"

\* summarizeEligibility
Health(states) ==
    IF "ready" \in states THEN "available" ELSE IF "congested" \in states THEN "congested"
    ELSE IF "probing" \in states THEN "probing" ELSE "unavailable"

\* collectVendorModelHealth: the names a key shows, grouped by lowercase; the id is
\* the spelling of the first key that has the name.
Shown(k) == Shows[<<revision, k>>]
Showing(format, lower) ==
    {k \in Pool : Speaks(Relay(k), format) /\ lower \in Lowered(Shown(k))}
FirstShowing(format, lower) ==
    CHOOSE k \in Showing(format, lower) : \A j \in Showing(format, lower) : j = k \/ Before(k, j)
Ids(format, lower) == {n \in Shown(FirstShowing(format, lower)) : Lower[n] = lower}

\* The names the pool shows, in lowercase.
Shelf(format) == UNION {Lowered(Shown(k)) : k \in {k \in Pool : Speaks(Relay(k), format)}}

Listing(format) ==
    UNION {{[lower |-> l, id |-> n,
             health |-> Health({Eligibility(k, l) : k \in Showing(format, l)})] : n \in Ids(format, l)} :
             l \in Shelf(format)}

-----------------------------------------------------------------------------

(* The choice of a key for an ordinary request: those it may fall on.        *)

\* ordinaryCandidateAdmitted: a reserve waits until the quota of every heavier key
\* that could serve is spent.
Heavier(k, name, format) ==
    {j \in Pool \ {k} :
        /\ Speaks(Relay(j), format) /\ Relay(j).weight > Relay(k).weight
        /\ TakesAny(Relay(j)) \/ Lower[name] \in Lowered(Answers[<<revision, j>>])}
Admitted(k, name, format) ==
    Relay(k).reserve => \A j \in Heavier(k, name, format) : Has(j, "spent", AnyName)

\* The key knows the name as it is spelled.
Knows(k, name) == TakesAny(Relay(k)) \/ name \in Answers[<<revision, k>>]

\* pickKeyAndAcquire
Pick(format, name) ==
    {k \in Pool :
        /\ ~(Governed(name) /\ Has(Gateway, "crowded", Lower[name])) /\ ~Everywhere("busy")
        /\ Speaks(Relay(k), format) /\ Knows(k, name) /\ Admitted(k, name, format)
        /\ ~Expired(k) /\ ~Has(k, "proxy", AnyName)
        /\ Relay(k).managed => ~Everywhere("unsaved") /\ ~Has(k, "closed", AnyName) /\ ~Has(k, "spent", AnyName)
        /\ \A kind \in {"paced", "full", "cool"} : ~Has(k, kind, AnyName)
        /\ ~Has(k, "dead", Lower[name])}

\* dispatchWithRetry: the name of a logical model is never an ordinary one.
Logical(name) == Lower[name] \in DOMAIN conf.policy.logical

\* A request is refused before a key is looked for.
Serving(format, name) == IF Blocked(name) \/ Logical(name) THEN {} ELSE Pick(format, name)

-----------------------------------------------------------------------------

(* Logical requests: what is shown of them, and what they can have.          *)

\* The deployments of a logical request, before the time rules.
Deployments(request) ==
    {d \in [relay : Pool, model : DOMAIN conf.policy.real] :
        /\ Speaks(Relay(d.relay), "openai")
        /\ Lower[d.model] \in Lowered(request.candidates) \cap Lowered(Shown(d.relay))}

\* What list() gives the scheduler and the listing, and what matches of it.
Left(request) ==
    {d \in Filtered(conf.rules, request.logical, clock, Deployments(request)) :
        Matches(conf.policy, request, d.model)}

\* The listing alone looks at the limit of requests of the logical model.
Engaged(request) == Has(Gateway, "engaged", request.logical)
ShownState(request, d) ==
    LET state == Eligibility(d.relay, d.model)
    IN  IF Engaged(request) /\ state \in {"ready", "probing"} THEN "congested" ELSE state

\* buildLogicalRoutePlan
Plan(request) ==
    LET states == {ShownState(request, d) : d \in Left(request)}
    IN  [logical |-> request.logical, health |-> Health(states),
         dispatchable |-> states \cap {"ready", "probing"} # {}]

\* buildLogicalModelInventory, for requests without a task.
LogicalPlans == {Plan(Plain(conf.policy, l)) : l \in DOMAIN conf.policy.logical}

\* GET /readyz without a model.
Ready == \E plan \in LogicalPlans : plan.dispatchable

\* GET /models of a route: a key's model hides a logical one of its name.
ModelList(format) ==
    LET physical == Listing(format)
    IN  {[id |-> entry.id, logical |-> FALSE, health |-> entry.health] : entry \in physical}
        \cup {[id |-> plan.logical, logical |-> TRUE, health |-> plan.health] :
                 plan \in {plan \in LogicalPlans : \A entry \in physical : entry.lower # plan.logical}}

\* select, but for the slots kept for protected requests
Selectable(request) ==
    {d \in Left(request) :
        /\ Eligibility(d.relay, d.model) \in {"ready", "probing"}
        /\ ~Has(d.relay, "full", AnyName) /\ ~Has(d.relay, "cool", AnyName)
        /\ ~Has(d.relay, "dead", Lower[d.model]) /\ ~Has(Gateway, "crowded", Lower[d.model])}

\* acquire
Acquirable(d) ==
    /\ ~Expired(d.relay) /\ ~Has(d.relay, "proxy", AnyName)
    /\ Relay(d.relay).managed =>
          ~Everywhere("unsaved") /\ ~Has(d.relay, "closed", AnyName) /\ ~Has(d.relay, "spent", AnyName)
    /\ \A kind \in {"paced", "full", "cool"} : ~Has(d.relay, kind, AnyName)
    /\ ~Has(d.relay, "dead", Lower[d.model]) /\ ~Has(Gateway, "crowded", Lower[d.model])
    /\ ~Everywhere("busy")

\* What a logical request can be sent to: it, too, is refused first where the name
\* it asks for has no price, and where its model has its fill of requests.
LogicalServing(request) ==
    IF Blocked(request.logical) \/ Engaged(request) THEN {}
    ELSE {d \in Selectable(request) : Acquirable(d)}

-----------------------------------------------------------------------------

(* Steps.                                                                    *)

\* runtimeIdle
Idle == \A t \in troubles : t.kind \notin OfRequests

\* qualificationPairsForKeys: governed names of the keys with a list of models.
Pairs == [r \in Loadable |->
    UNION {{k} \X (Lowered(Answers[<<r, k>>]) \cap GovernedBy[r]) :
              k \in {k \in Pools[r] : ~TakesAny(Loaded[r].relays[k])}}]

\* A configuration that does not load leaves the one in force; one that does replaces
\* it once no request runs.  Of the troubles stay those of unchanged keys, of windows
\* of keys still managed, and of no key; verdicts stay with unchanged keys and pairs.
Kept(r, t) ==
    \/ t.at = Gateway
    \/ t.kind \in OfWindow /\ t.at \in Pools[r] /\ Loaded[r].relays[t.at].managed
    \/ t.kind \notin OfWindow /\ t.at # Gateway /\ Unchanged(r, t.at)

\* reconcile
Reconciled(r) == {v \in verdicts : Unchanged(r, v.at) /\ <<v.at, v.name>> \in Pairs[r]}

Reload(r) ==
    /\ Idle
    /\ revision' = r
    /\ troubles' = {t \in troubles : Kept(r, t)}
    /\ verdicts' = Reconciled(r)
    /\ UNCHANGED clock

Befall(t) ==
    /\ t \notin troubles /\ Cardinality(troubles) < MaxTroubles
    /\ t.kind \in OfWindow => \A u \in troubles : u.at # t.at \/ u.kind \notin OfWindow
    /\ troubles' = troubles \cup {t}
    /\ UNCHANGED <<revision, verdicts, clock>>

Recover(t) ==
    /\ troubles' = troubles \ {t}
    /\ UNCHANGED <<revision, verdicts, clock>>

\* The outcome of a request for a governed name.
Judge(k, name, is) ==
    /\ Governed(name) /\ Speaks(Relay(k), "openai") /\ Knows(k, name)
    /\ LET others == {v \in verdicts : v.at # k \/ v.name # Lower[name]}
       IN  /\ Cardinality(others) < MaxVerdicts
           /\ verdicts' = others \cup {[at |-> k, name |-> Lower[name], is |-> is]}
    /\ UNCHANGED <<revision, troubles, clock>>

\* A failure whose backoff is over counts for no more than no outcome at all.
BackoffOver(v) ==
    /\ v.is = "failed"
    /\ verdicts' = verdicts \ {v}
    /\ UNCHANGED <<revision, troubles, clock>>

ClockMoves ==
    /\ clock' \in Clocks
    /\ UNCHANGED <<revision, troubles, verdicts>>

CatalogInit ==
    /\ revision = First /\ troubles = {} /\ verdicts = {} /\ clock \in Clocks

CatalogNext ==
    \/ \E r \in Loadable : Reload(r)
    \/ \E t \in Befalls : Befall(t)
    \/ \E t \in troubles : Recover(t)
    \/ \E k \in Pool, name \in Names, is \in {"valid", "failed"} : Judge(k, name, is)
    \/ \E v \in verdicts : BackoffOver(v)
    \/ ClockMoves

CatalogSpec == CatalogInit /\ [][CatalogNext]_catalogVars

-----------------------------------------------------------------------------

(* Properties.                                                               *)

TypeOK ==
    /\ revision \in Loadable /\ clock \in Clocks
    /\ troubles \subseteq Befalls
    /\ verdicts \subseteq [at : Pool, name : Names, is : {"valid", "failed"}]

\* What a key's upstream is asked for is a model of the relay's list, whatever name
\* the client used and whatever spelling, aliases, canonical names and reloads made
\* of it: relay-loader.mjs checks documents so that ordinary-dispatch.mjs:176-186 can
\* rewrite without looking.  A relay without a list takes any name; one that declares
\* its canonical names has the targets of its aliases unchecked (and is left out where
\* they are not listed).
Asked ==
    {pair \in Pool \X Names : \E format \in {"openai", "anthropic"} : pair[1] \in Serving(format, pair[2])}
    \cup {<<d.relay, d.model>> : d \in UNION {LogicalServing(request) : request \in LogicalRequests(conf.policy)}}

OnlyListedNamesReachUpstream ==
    \A pair \in Asked :
        LET relay == Relay(pair[1])
            name == pair[2]
        IN  \/ Lower[UpstreamName(relay, name)] \in Lowered(Models(relay))
            \/ TakesAny(relay)
            \/ /\ Lower[name] \in Clients(relay) /\ relay.declared # <<>>
               /\ Lower[relay.aliases[Lower[name]]] \notin Lowered(Models(relay))

\* What clients are shown and what they then get, written apart, agree.  A model listed
\* as available is served under its listed id, unless each ready key is a reserve that is
\* held back or spells the name differently, or the id is a logical model's; and one listed
\* as unavailable is not served, unless by a key that has failed validation lately, that
\* takes any name, or while the quota file is not saved.  A logical model listed as
\* available is served, unless its own name lacks a price, and one listed as unavailable
\* is not; the gateway says it is ready just when a logical request finds a deployment.
Unsteady(k, name) ==
    "failed" \in Verdict(k, name) \/ Everywhere("unsaved") \/ Lower[name] \notin Lowered(Shown(k))

PhysicalAgrees(format, entry) ==
    LET ready == {k \in Showing(format, Lower[entry.id]) : Eligibility(k, entry.id) = "ready"}
        served == Serving(format, entry.id)
    IN  /\ entry.health = "available" =>
              \/ served # {} \/ Logical(entry.id)
              \/ \A k \in ready : ~Admitted(k, entry.id, format) \/ ~Knows(k, entry.id)
        /\ entry.health = "unavailable" => \A k \in served : Unsteady(k, entry.id)

LogicalAgrees(entry) ==
    LET request == Plain(conf.policy, entry.id)
    IN  /\ entry.health = "available" => LogicalServing(request) # {} \/ Blocked(entry.id)
        /\ entry.health = "unavailable" => LogicalServing(request) = {}

ListingAgreesWithDispatch ==
    /\ \A format \in {"openai", "anthropic"} : \A entry \in ModelList(format) :
           IF entry.logical THEN LogicalAgrees(entry) ELSE PhysicalAgrees(format, entry)
    /\ Ready <=> \E l \in DOMAIN conf.policy.logical :
                   LET request == Plain(conf.policy, l)
                   IN  ~Engaged(request) /\ \E d \in Selectable(request) : Acquirable(d)

\* Time rules narrow the deployments of a logical request, and where they leave
\* nothing of an "only" they give all of them back: a request that asks for no tier it
\* cannot do without keeps a deployment that matches it whenever it had one that is
\* not forbidden.  That rests on what the policy's compilation checked of every
\* candidate, of the logical model and of its task subtypes.
RulesLeaveACandidate ==
    \A request \in LogicalRequests(conf.policy) :
        LET all == Deployments(request)
            allowed == {d \in all : ~Forbidden(conf.rules, request.logical, clock, d.relay)}
            left == Filtered(conf.rules, request.logical, clock, all)
        IN  (allowed # {} /\ ~conf.rules.strict /\ (request.tier = "" \/ request.weak = "yes")) =>
                \E d \in left : Matches(conf.policy, request, d.model)
================================================================================
