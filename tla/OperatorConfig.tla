----------------------------- MODULE OperatorConfig -----------------------------
(***************************************************************************)
(* The documents an operator edits, and what each operation of             *)
(* operator-config-store.mjs makes of them: relays (the providers), models *)
(* (real and logical), and env, the names that have a value: a provider    *)
(* stands for its credential, Setting for a managed setting or the egress. *)
(*                                                                         *)
(* A provider is the set of its models and whether it is enabled; a real   *)
(* model may be pooled or stands alone, which stands for every attribute   *)
(* that makes the loader refuse it as a candidate.                         *)
(***************************************************************************)
EXTENDS Integers, FiniteSets, Sequences

CONSTANTS
    Providers, Models,
    Names,          \* of logical models
    Example,        \* the disabled provider of the starter document
    ExampleModel,   \* its model
    Balanced,       \* the logical model made when there is none
    Setting,        \* the settings the console may change
    NoRelay

ASSUME OperatorConfigAssumption ==
    /\ Setting \notin Providers
    /\ NoRelay \notin [models : SUBSET Models, on : BOOLEAN]
    /\ Example \in Providers /\ ExampleModel \in Models /\ Balanced \in Names
    /\ IsFiniteSet(Providers) /\ IsFiniteSet(Models) /\ IsFiniteSet(Names)

Relays == [Providers -> [models : SUBSET Models, on : BOOLEAN] \cup {NoRelay}]
ModelDocs == [real : [Models -> {"none", "pooled", "alone"}], logical : [Names -> SUBSET Models]]
EnvNames == Providers \cup {Setting}

Documents == [relays : Relays, models : ModelDocs, env : SUBSET EnvNames]

\* The documents of a fresh installation (config/relays.json, config/models.json).
Starter ==
    [relays |-> [p \in Providers |-> IF p = Example
                                     THEN [models |-> {ExampleModel}, on |-> FALSE] ELSE NoRelay],
     models |-> [real    |-> [m \in Models |-> IF m = ExampleModel THEN "pooled" ELSE "none"],
                 logical |-> [n \in Names |-> IF n = Balanced THEN {ExampleModel} ELSE {}]],
     env    |-> {}]

-----------------------------------------------------------------------------

Configured(relays) == {p \in Providers : relays[p] # NoRelay}
Known(models)      == {m \in Models : models.real[m] # "none"}
Logicals(models)   == {n \in Names : models.logical[n] # {}}

\* validateCandidateDocuments: what the schema and the model policy demand.
ValidDocuments(relays, models) ==
    /\ \A p \in Configured(relays) : relays[p].models # {}
    /\ Known(models) # {} /\ Logicals(models) # {}
    /\ \A n \in Names : \A m \in models.logical[n] : models.real[m] = "pooled"

\* What the loader of the runtime demands besides: validateCrossReferences.
\* Validation before a write does not look at the credentials.
Loads(d) ==
    /\ ValidDocuments(d.relays, d.models)
    /\ d.env \cap Providers \subseteq Configured(d.relays)

IsStarterRelays(relays) == Configured(relays) = {Example} /\ ~relays[Example].on
IsStarterModels(models) == Known(models) = {ExampleModel}

EnsureAtLeastOneLogicalModel(models, ms) ==
    IF Logicals(models) # {} THEN models
    ELSE [models EXCEPT !.logical[Balanced] = {CHOOSE m \in ms : TRUE}]

-----------------------------------------------------------------------------

(* The operations: what an operation makes of the documents d, which of    *)
(* them it writes, and the names of env it sets or clears.                 *)

Change(parts, relays, models, set, clear) ==
    [parts |-> parts, relays |-> relays, models |-> models, set |-> set, clear |-> clear]

Asked == [parts : SUBSET {"relays", "models"}, relays : Relays, models : ModelDocs,
          set : SUBSET EnvNames, clear : SUBSET EnvNames]

\* Of a change of d: the documents it does not write are those of d, and it sets
\* credentials only of providers it leaves in place.
Targeted(d, change) ==
    /\ change \in Asked
    /\ "relays" \in change.parts \/ change.relays = d.relays
    /\ "models" \in change.parts \/ change.models = d.models
    /\ change.set \cap Providers \subseteq Configured(change.relays)

\* upsertProvider; join is a set of at most one logical model.
UpsertProvider(d, p, ms, on, join, key) ==
    LET empty  == [real |-> [m \in Models |-> "none"], logical |-> [n \in Names |-> {}]]
        relays == IF IsStarterRelays(d.relays) THEN [q \in Providers |-> NoRelay] ELSE d.relays
        models == IF IsStarterModels(d.models) THEN empty ELSE d.models
        added  == [real    |-> [m \in Models |-> IF m \in ms /\ models.real[m] = "none"
                                                THEN "pooled" ELSE models.real[m]],
                   logical |-> [n \in Names |-> IF n \in join THEN models.logical[n] \cup ms
                                                ELSE models.logical[n]]]
    IN Change({"relays", "models"},
              [relays EXCEPT ![p] = [models |-> ms, on |-> on]],
              EnsureAtLeastOneLogicalModel(added, ms),
              IF key = "set" THEN {p} ELSE {}, IF key = "clear" THEN {p} ELSE {})

\* setProviderEnabled
SetProviderEnabled(d, p, on) ==
    Change({"relays"}, [d.relays EXCEPT ![p].on = on], d.models, {}, {})

\* removeProvider: its models, and the logical models that name them, stay.
RemoveProvider(d, p, clearCredential) ==
    Change({"relays"}, [d.relays EXCEPT ![p] = NoRelay], d.models,
           {}, IF clearCredential THEN {p} ELSE {})

\* upsertLogicalModel
UpsertLogicalModel(d, n, candidates) ==
    Change({"models"}, d.relays, [d.models EXCEPT !.logical[n] = candidates], {}, {})

\* upsertRealModel, the attributes candidates depend on
UpsertRealModel(d, m, kind) ==
    Change({"models"}, d.relays, [d.models EXCEPT !.real[m] = kind], {}, {})

\* removeLogicalModel
RemoveLogicalModel(d, n) ==
    Change({"models"}, d.relays, [d.models EXCEPT !.logical[n] = {}], {}, {})

\* updateSettings, updateEgress
UpdateEnv(d, names, clear) ==
    Change({}, d.relays, d.models, IF clear THEN {} ELSE names, IF clear THEN names ELSE {})
================================================================================
