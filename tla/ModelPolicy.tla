------------------------------ MODULE ModelPolicy ------------------------------
(***************************************************************************)
(* model-policy.mjs: which documents of real models, logical models and    *)
(* task subtypes compile, and what a logical request resolves to; and the  *)
(* time rules of time-route-scheduler.mjs, which drop deployments from the *)
(* list of a logical request.                                              *)
(***************************************************************************)
EXTENDS Integers, Sequences, FiniteSets

CONSTANT Lower

\* Whether a weaker tier may serve is "yes" or "no"; a task subtype may leave it open
\* and then inherits it from the logical model.
Open == "open"

\* policy.real : name |-> [capabilities, tier, standalone]
\* policy.logical, policy.tasks : name |-> [candidates, capabilities, tier, weak],
\* a logical model with the set `tasks` of the subtypes it allows.

\* Names are compared in lowercase.
RealOf(policy, name) == {m \in DOMAIN policy.real : Lower[m] = Lower[name]}
Real(policy, name) == CHOOSE m \in RealOf(policy, name) : TRUE

Supports(policy, candidates, capabilities) ==
    \A c \in candidates : capabilities \subseteq policy.real[Real(policy, c)].capabilities

\* compileRoute
RouteCompiles(policy, route) ==
    /\ route.candidates # {}
    /\ \A c \in route.candidates : RealOf(policy, c) # {} /\ ~policy.real[Real(policy, c)].standalone
    /\ Supports(policy, route.candidates, route.capabilities)

\* Mutant of TasksCompile: the capabilities of the logical model are forgotten.
TasksCompileAlone(policy, l) == policy.logical[l].tasks \subseteq DOMAIN policy.tasks

\* compileLogicalModel: the candidates of a subtype also serve the logical model.
TasksCompile(policy, l) ==
    \A t \in policy.logical[l].tasks :
        /\ t \in DOMAIN policy.tasks
        /\ Supports(policy, policy.tasks[t].candidates, policy.logical[l].capabilities)

PolicyCompiles(policy) ==
    /\ policy.real # <<>> /\ policy.logical # <<>>
    /\ \A m, n \in DOMAIN policy.real : Lower[m] = Lower[n] => m = n
    /\ \A t \in DOMAIN policy.tasks : RouteCompiles(policy, policy.tasks[t])
    /\ \A l \in DOMAIN policy.logical : RouteCompiles(policy, policy.logical[l]) /\ TasksCompile(policy, l)
    /\ DOMAIN policy.tasks \subseteq UNION {policy.logical[l].tasks : l \in DOMAIN policy.logical}

\* resolveLogicalRequest, without a task and with one the logical model allows.
Plain(policy, l) ==
    [logical |-> l, candidates |-> policy.logical[l].candidates,
     capabilities |-> policy.logical[l].capabilities,
     tier |-> policy.logical[l].tier, weak |-> policy.logical[l].weak]

WithTask(policy, l, t) ==
    LET task == policy.tasks[t]
    IN  [logical |-> l, candidates |-> task.candidates,
         capabilities |-> policy.logical[l].capabilities \cup task.capabilities,
         tier |-> IF task.tier = "" THEN policy.logical[l].tier ELSE task.tier,
         weak |-> IF task.weak = Open THEN policy.logical[l].weak ELSE task.weak]

LogicalRequests(policy) ==
    {Plain(policy, l) : l \in DOMAIN policy.logical}
    \cup UNION {{WithTask(policy, l, t) : t \in policy.logical[l].tasks} : l \in DOMAIN policy.logical}

\* deploymentMatchesRequest, of a deployment of the real model m.
Matches(policy, request, m) ==
    /\ request.capabilities \subseteq policy.real[m].capabilities
    /\ request.tier # "" => policy.real[m].tier = request.tier \/ request.weak = "yes"

-----------------------------------------------------------------------------

(* Time rules, in the order of their priority.  A rule has an action, the    *)
(* logical models and the relays it is about ({} for all), days and ranges   *)
(* of time, which may run over midnight.                                     *)

\* A time of a document that is none ("24:00" is none).
NoTime == -1

\* normalizePolicy, normalizeRule: what cannot be read is dropped, so that a rule
\* all of whose ranges are unreadable holds all day.
Normalized(rule) ==
    [rule EXCEPT !.action = IF @ \in {"prefer", "only", "forbid"} THEN @ ELSE "prefer",
                 !.days = @ \cap 0 .. 6,
                 !.ranges = {range \in @ : range.start # NoTime /\ range.end # NoTime}]

InRange(range, t) ==
    IF range.start <= range.end THEN range.start <= t /\ t < range.end
    ELSE range.start <= t \/ t < range.end

Active(rule, clock) ==
    /\ rule.days = {} \/ clock.day \in rule.days
    /\ rule.ranges = {} \/ \E range \in rule.ranges : InRange(range, clock.time)

About(rule, logical) == rule.logicals = {} \/ logical \in rule.logicals
Hits(rule, relay) == rule.relays = {} \/ relay \in rule.relays

InForce(rules, action, logical, clock) ==
    {i \in DOMAIN rules.list :
        /\ rules.enabled /\ rules.list[i].action = action
        /\ Active(rules.list[i], clock) /\ About(rules.list[i], logical)}

Forbidden(rules, logical, clock, relay) ==
    \E i \in InForce(rules, "forbid", logical, clock) : Hits(rules.list[i], relay)

\* The first rule of an action counts alone.
Only(rules, logical, clock) ==
    LET only == InForce(rules, "only", logical, clock)
    IN  {i \in only : \A j \in only : i <= j}

Narrowed(rules, logical, clock, kept) ==
    {d \in kept : \A i \in Only(rules, logical, clock) : Hits(rules.list[i], d.relay)}

\* filterDeployments.  Where nothing is left of what "only" asks for and the rules
\* are not strict, all deployments come back, the forbidden ones too; rules that
\* prefer change nothing but the order.
Filtered(rules, logical, clock, deployments) ==
    LET kept == {d \in deployments : ~Forbidden(rules, logical, clock, d.relay)}
        narrowed == Narrowed(rules, logical, clock, kept)
    IN  IF Only(rules, logical, clock) # {} /\ narrowed = {} /\ ~rules.strict
        THEN deployments ELSE narrowed
================================================================================
