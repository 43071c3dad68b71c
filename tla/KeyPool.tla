------------------------------ MODULE KeyPool ------------------------------
(***************************************************************************)
(* The pool of upstream keys of the gateway process: slots taken by        *)
(* requests in flight, the health of every key, and the cooldown file that *)
(* survives a restart.                                                     *)
(*                                                                         *)
(* The process runs on one event loop, so an action is one synchronous     *)
(* stretch of a handler: picking a key and taking its slots is one step,   *)
(* recording the outcome and giving the slots back is another, and         *)
(* anything may happen between the two.                                    *)
(*                                                                         *)
(* Everything that decides whether a key may serve a request but is not    *)
(* kept here (keys already tried, wire format, model list, fallback        *)
(* admission, expiry, egress, quota window) is the set `open` that an      *)
(* acquisition is given.                                                   *)
(***************************************************************************)
EXTENDS Integers, FiniteSets, KeyState, KeyRateLimit

CONSTANTS
    NumKeys,       \* length of KEY_POOL; keys are numbered from 0
    Pool,          \* key |-> its configuration
    Vendors,
    VendorPolicy,  \* vendor |-> shared ceiling and admission flags
    ModelPolicy,   \* model |-> whether it is governed, and its maxInflight
    Requests,      \* identities of concurrent requests
    NoLease,
    Asked,         \* what physical-route requests ask for, NoModel included
    Outcome,       \* the outcomes an upstream may produce
    WriteResults,  \* what writing the cooldown file may return
    PersistDelay,  \* delay of the write scheduled by an outcome
    SafetyNet,     \* period of the unconditional write
    MaxTime        \* bound of the clock

Keys == 0 .. NumKeys - 1

KeyConfigs ==
    [vendor : Vendors, capInitial : Nat \ {0}, capMin : Nat \ {0}, capMax : Nat \ {0},
     weight : Nat, rate : RatePolicies, relay : BOOLEAN, sticky : BOOLEAN,
     auth401Cooldown : Nat,
     logical : SUBSET Models]    \* the models it serves to logical requests

VendorConfigs ==
    [limited : BOOLEAN, maxInflight : Nat, unboundedKey : BOOLEAN,
     unboundedModel : BOOLEAN, preferHigherWeight : BOOLEAN]

ASSUME KeyPoolAssumption ==
    /\ NumKeys \in Nat \ {0}
    /\ Pool \in [Keys -> KeyConfigs]
    /\ VendorPolicy \in [Vendors -> VendorConfigs]
    /\ ModelPolicy \in [Models -> [governed : BOOLEAN, maxInflight : Nat \ {0}]]
    /\ IsFiniteSet(Requests)
    /\ Asked \subseteq Models \cup {NoModel}
    /\ Outcome \subseteq Outcomes
    /\ WriteResults \subseteq BOOLEAN
    /\ PersistDelay \in Nat \ {0}
    /\ SafetyNet \in Nat \ {0}
    /\ MaxTime \in Nat \ {0}

Leases == [key : Keys, model : Models \cup {NoModel}]

ASSUME NoLeaseAssumption == NoLease \notin Leases

VARIABLES
    now,            \* the clock
    health,         \* key |-> health record
    inflight,       \* key |-> slots taken
    rate,           \* key |-> rate-limit state
    modelInflight,  \* model |-> slots taken of a governed model
    keyCursor,      \* where the next selection starts probing
    holder,         \* request |-> the lease it holds, or NoLease
    persistDue,     \* when the scheduled write runs, 0 if none is scheduled
    netDue,         \* when the periodic write runs next
    healthy,        \* the last write of the file succeeded
    file            \* key |-> persisted cooldown record

pool == <<health, inflight, rate, modelInflight, keyCursor, holder>>
disk == <<persistDue, netDue, healthy, file>>
vars == <<now, health, inflight, rate, modelInflight, keyCursor, holder,
          persistDue, netDue, healthy, file>>

Times == 0 .. MaxTime

TypeOK ==
    /\ now \in Times
    /\ health \in [Keys -> HealthRecords]
    /\ inflight \in [Keys -> Nat]
    /\ rate \in [Keys -> RateStates]
    /\ modelInflight \in [Models -> Nat]
    /\ keyCursor \in Keys
    /\ holder \in [Requests -> Leases \cup {NoLease}]
    /\ persistDue \in Nat
    /\ netDue \in Nat
    /\ healthy \in BOOLEAN
    /\ file \in [Keys -> CooldownRecords]

-----------------------------------------------------------------------------
(* Slots.                                                                  *)

KeysOf(v) == {k \in Keys : Pool[k].vendor = v}

\* The slots taken on the keys of a vendor; their number is the vendor's load.
VendorSlots(v) == UNION {{k} \X (1 .. inflight[k]) : k \in KeysOf(v)}

\* Mutant of VendorFull: one request too many.
VendorFullLate(v) ==
    /\ VendorPolicy[v].limited
    /\ Cardinality(VendorSlots(v)) > VendorPolicy[v].maxInflight

VendorFull(v) ==
    /\ VendorPolicy[v].limited
    /\ Cardinality(VendorSlots(v)) >= VendorPolicy[v].maxInflight

Governed(m) == m \in Models /\ ModelPolicy[m].governed

ModelFull(m) == Governed(m) /\ modelInflight[m] >= ModelPolicy[m].maxInflight

\* Whether a slot of model m is counted when key k serves it.
TracksModelSlot(k, m) == Governed(m) /\ ~ VendorPolicy[Pool[k].vendor].unboundedModel

ModelSlotsAfterAcquire(k, m) ==
    IF TracksModelSlot(k, m) THEN [modelInflight EXCEPT ![m] = @ + 1] ELSE modelInflight

\* Mutant of ModelSlotsAfterRelease: gives back a slot that was never taken.
ModelSlotsAfterReleaseAny(k, m) ==
    IF Governed(m) THEN [modelInflight EXCEPT ![m] = Larger(0, @ - 1)] ELSE modelInflight

ModelSlotsAfterRelease(k, m) ==
    IF TracksModelSlot(k, m) THEN [modelInflight EXCEPT ![m] = Larger(0, @ - 1)]
                             ELSE modelInflight

\* consumeRateLimit, inflight++, the cursor past the key, and the model slot.
TakeSlot(r, k, m) ==
    /\ inflight' = [inflight EXCEPT ![k] = @ + 1]
    /\ modelInflight' = ModelSlotsAfterAcquire(k, m)
    /\ rate' = [rate EXCEPT ![k] = ConsumeRate(@, Pool[k].rate, now)]
    /\ keyCursor' = (k + 1) % NumKeys
    /\ holder' = [holder EXCEPT ![r] = [key |-> k, model |-> m]]

ReleaseKeyCapacityOnly(r) ==
    LET k == holder[r].key
    IN  /\ inflight' = [inflight EXCEPT ![k] = Larger(0, @ - 1)]
        /\ modelInflight' = ModelSlotsAfterRelease(k, holder[r].model)
        /\ holder' = [holder EXCEPT ![r] = NoLease]

-----------------------------------------------------------------------------
(* The (key, model) cooldown.                                              *)

DeadFor(k, m) == m \in Models /\ now < health[k].dead[m]

\* A reader that finds the entry of m expired deletes it.
ForgetExpired(h, m) ==
    IF m \in Models /\ h.dead[m] <= now THEN [h EXCEPT !.dead[m] = 0] ELSE h

-----------------------------------------------------------------------------
(* Physical routes: pickKeyAndAcquire.                                     *)

\* Every gate before the (key, model) cooldown is looked at.
Passes(k, v, open) ==
    /\ k \in open \cap KeysOf(v)
    /\ RateAllowed(rate[k], Pool[k].rate, now)
    /\ VendorPolicy[v].unboundedKey \/ inflight[k] < health[k].cap
    /\ ~ CoolingAt(health[k], now)

Eligible(k, v, m, open) == Passes(k, v, open) /\ ~ DeadFor(k, m)

RRThreshold == 2

\* An unbounded key always has room; every key of its vendor then ties.
Available(k, v) ==
    IF VendorPolicy[v].unboundedKey THEN RRThreshold ELSE health[k].cap - inflight[k]

\* Probe order: how many keys are looked at before k.
Distance(k) == (k - keyCursor) % NumKeys

Nearest(S) == {k \in S : \A j \in S : Distance(k) <= Distance(j)}

Heaviest(S, v) ==
    LET top == {k \in S : \A j \in S : Pool[k].weight >= Pool[j].weight}
    IN  {k \in top : \A j \in top : Available(k, v) >= Available(j, v)}

\* With room to spare keys take turns; otherwise the shortest queue wins.
Choice(candidates, v) ==
    LET roomy == {k \in candidates : Available(k, v) >= RRThreshold}
    IN  CASE VendorPolicy[v].preferHigherWeight -> Nearest(Heaviest(candidates, v))
          [] ~ VendorPolicy[v].preferHigherWeight /\ roomy # {} -> Nearest(roomy)
          [] OTHER -> Nearest({k \in candidates :
                                 \A j \in candidates : Available(k, v) >= Available(j, v)})

\* The scan stops at the key it picks only when keys take turns.
Probed(k, v) ==
    IF VendorPolicy[v].preferHigherWeight \/ Available(k, v) < RRThreshold
    THEN Keys ELSE {j \in Keys : Distance(j) <= Distance(k)}

PickKeyAndAcquire(r, v, m, open) ==
    LET candidates == {k \in Keys : Eligible(k, v, m, open)}
    IN  /\ holder[r] = NoLease
        /\ VendorPolicy[v].unboundedModel \/ ~ ModelFull(m)
        /\ ~ VendorFull(v)
        /\ \E k \in Choice(candidates, v) :
              /\ TakeSlot(r, k, m)
              /\ health' = [j \in Keys |->
                               IF j \in Probed(k, v) /\ Passes(j, v, open)
                               THEN ForgetExpired(health[j], m) ELSE health[j]]
        /\ UNCHANGED <<now, disk>>

-----------------------------------------------------------------------------
(* Logical models: list the deployments, select one, acquire it.           *)

\* Listing a key reads its reason, and the cooldown of every candidate it serves.
Listed(candidates) ==
    [k \in Keys |->
        LET served == {m \in Pool[k].logical \cap candidates : Governed(m)}
        IN  IF served = {} THEN health[k]
            ELSE [ObserveReason(health[k], now) EXCEPT
                    !.dead = [m \in Models |-> IF m \in served /\ @[m] <= now
                                               THEN 0 ELSE @[m]]]]

\* Mutant of LogicallyFree: the vendor's ceiling is left to physical routes.
LogicallyFreeUnlimited(k, m) ==
    /\ RateAllowed(rate[k], Pool[k].rate, now)
    /\ inflight[k] < health[k].cap
    /\ ~ CoolingAt(health[k], now)
    /\ ~ DeadFor(k, m)
    /\ Governed(m)
    /\ VendorPolicy[Pool[k].vendor].unboundedModel \/ ~ ModelFull(m)

LogicallyFree(k, m) ==
    LET v == Pool[k].vendor
    IN  /\ RateAllowed(rate[k], Pool[k].rate, now)
        /\ inflight[k] < health[k].cap
        /\ ~ CoolingAt(health[k], now)
        /\ ~ DeadFor(k, m)
        /\ Governed(m)
        /\ VendorPolicy[v].unboundedModel \/ ~ ModelFull(m)
        /\ ~ VendorFull(v)

\* The scheduler's ranking is its own; any free deployment may be selected.
LogicalAcquire(r, candidates) ==
    /\ holder[r] = NoLease
    /\ \E k \in Keys : \E m \in candidates \cap Pool[k].logical :
          /\ LogicallyFree(k, m)
          /\ TakeSlot(r, k, m)
    /\ health' = Listed(candidates)
    /\ UNCHANGED <<now, disk>>

\* Nothing was selectable, or the listing only served a route plan.
ListDeployments(candidates) ==
    /\ health' = Listed(candidates)
    /\ UNCHANGED <<now, inflight, rate, modelInflight, keyCursor, holder, disk>>

\* The status page reads the reason of every key.
KeyPoolStatus ==
    /\ health' = [k \in Keys |-> ObserveReason(health[k], now)]
    /\ UNCHANGED <<now, inflight, rate, modelInflight, keyCursor, holder, disk>>

-----------------------------------------------------------------------------
(* The end of an attempt.                                                  *)

\* recordStickyProxyResult: a network failure through a bound egress node.
AfterProxy(k, outcome) ==
    IF Pool[k].sticky /\ outcome.status = "0"
    THEN SetKeyCooldown(health[k], "proxy_transport", now + Policy.proxyCooldown)
    ELSE health[k]

AfterOutcome(k, m, outcome) == ApplyKeyOutcome(AfterProxy(k, outcome), Pool[k], m, outcome, now)

\* A write already scheduled stays as scheduled.
SchedulePersist == persistDue' = IF persistDue = 0 THEN now + PersistDelay ELSE persistDue

ReleaseKey(r, outcome) ==
    /\ holder[r] # NoLease
    /\ LET k == holder[r].key
           h == AfterOutcome(k, holder[r].model, outcome)
       IN  /\ health' = [health EXCEPT ![k] = h]
           /\ IF h.badUntil > 0 THEN SchedulePersist ELSE UNCHANGED persistDue
    /\ ReleaseKeyCapacityOnly(r)
    /\ UNCHANGED <<now, rate, keyCursor, netDue, healthy, file>>

\* The client went away, or the gateway itself failed: no verdict on the key.
CancelAttempt(r) ==
    /\ holder[r] # NoLease
    /\ ReleaseKeyCapacityOnly(r)
    /\ UNCHANGED <<now, health, rate, keyCursor, disk>>

QuotaReopened(k) ==
    /\ health' = [health EXCEPT ![k] = ReconcileQuotaOpen(@, Pool[k].capInitial)]
    /\ UNCHANGED <<now, inflight, rate, modelInflight, keyCursor, holder, disk>>

-----------------------------------------------------------------------------
(* The cooldown file.                                                      *)

ExportCooldownRecords == [k \in Keys |-> ExportCooldown(health[k], now)]

\* Mutant of PersistKeyCooldowns: a failed write counts as done.
PersistKeyCooldownsUnchecked(ok) ==
    /\ persistDue' = 0
    /\ healthy' = TRUE
    /\ file' = IF ok THEN ExportCooldownRecords ELSE file

\* persistKeyCooldowns: the scheduled write is dropped whatever becomes of this one.
PersistKeyCooldowns(ok) ==
    /\ persistDue' = 0
    /\ healthy' = ok
    /\ file' = IF ok THEN ExportCooldownRecords ELSE file

PersistTimer(ok) ==
    /\ persistDue # 0 /\ now >= persistDue
    /\ PersistKeyCooldowns(ok)
    /\ UNCHANGED <<now, netDue, pool>>

SafetyNetTimer(ok) ==
    /\ now >= netDue
    /\ PersistKeyCooldowns(ok)
    /\ netDue' = now + SafetyNet
    /\ UNCHANGED <<now, pool>>

-----------------------------------------------------------------------------
(* Process life.                                                           *)

FreshHealth == [k \in Keys |-> CreateInitialKeyState(Pool[k].capInitial)]

\* A process started at `later` with the given records in its file.
StartFrom(records, later) ==
    /\ now' = later
    /\ health' = [k \in Keys |-> ApplyCooldown(FreshHealth[k], records[k], later)]
    /\ inflight' = [k \in Keys |-> 0]
    /\ rate' = [k \in Keys |-> InitialRate]
    /\ modelInflight' = [m \in Models |-> 0]
    /\ keyCursor' = 0
    /\ holder' = [r \in Requests |-> NoLease]
    /\ persistDue' = 0
    /\ netDue' = later + SafetyNet
    /\ healthy' = TRUE
    /\ file' = records

\* SIGKILL or an out-of-memory kill, and a start some time later.
Crash(later) == StartFrom(file, later)

\* SIGTERM: the cooldowns are written once more before the process exits.
Shutdown(ok, later) == StartFrom(IF ok THEN ExportCooldownRecords ELSE file, later)

\* A new configuration replaces the keys in `changed`; their identity, and so
\* their record in the file, is new.  The others keep their state.
ActivateGeneration(changed) ==
    /\ \A k \in Keys : inflight[k] = 0
    /\ health' = [k \in Keys |->
          IF k \in changed THEN FreshHealth[k]
          ELSE [health[k] EXCEPT
                  !.cap = Larger(Pool[k].capMin, Smaller(Pool[k].capMax, @))]]
    /\ rate' = [k \in Keys |-> IF k \in changed THEN InitialRate ELSE rate[k]]
    /\ file' = [k \in Keys |-> IF k \in changed THEN NoRecord ELSE file[k]]
    /\ UNCHANGED <<now, inflight, modelInflight, keyCursor, holder,
                   persistDue, netDue, healthy>>

\* Timers run when they are due, so time never passes a pending write.
Tick ==
    /\ now < MaxTime
    /\ persistDue = 0 \/ now < persistDue
    /\ now < netDue
    /\ now' = now + 1
    /\ UNCHANGED <<pool, disk>>

-----------------------------------------------------------------------------
Init ==
    /\ now = 1
    /\ health = FreshHealth
    /\ inflight = [k \in Keys |-> 0]
    /\ rate = [k \in Keys |-> InitialRate]
    /\ modelInflight = [m \in Models |-> 0]
    /\ keyCursor = 0
    /\ holder = [r \in Requests |-> NoLease]
    /\ persistDue = 0
    /\ netDue = 1 + SafetyNet
    /\ healthy = TRUE
    /\ file = [k \in Keys |-> NoRecord]

Acquire ==
    \E r \in Requests :
        \/ \E v \in Vendors, m \in Asked : \E open \in SUBSET KeysOf(v) :
              PickKeyAndAcquire(r, v, m, open)
        \/ \E candidates \in SUBSET Models : LogicalAcquire(r, candidates)

Finish ==
    \E r \in Requests :
        \/ \E outcome \in Outcome : ReleaseKey(r, outcome)
        \/ CancelAttempt(r)

Maintain ==
    \/ \E candidates \in SUBSET Models : ListDeployments(candidates)
    \/ KeyPoolStatus
    \/ \E k \in Keys : QuotaReopened(k)
    \/ \E ok \in WriteResults : PersistTimer(ok) \/ SafetyNetTimer(ok)
    \/ \E changed \in SUBSET Keys : ActivateGeneration(changed)

Restart ==
    \E later \in now .. MaxTime :
        \/ Crash(later)
        \/ \E ok \in WriteResults : Shutdown(ok, later)

Next == Acquire \/ Finish \/ Maintain \/ Restart \/ Tick

Spec == Init /\ [][Next]_vars

-----------------------------------------------------------------------------
(* Properties.                                                             *)

HoldersOf(k) == {r \in Requests : holder[r] \in Leases /\ holder[r].key = k}

CountedHolders(m) ==
    {r \in Requests : /\ holder[r] \in Leases /\ holder[r].model = m
                      /\ TracksModelSlot(holder[r].key, m)}

\* The counters of releaseKeyCapacityOnly and acquireModelSlot are exact: no
\* outcome, cancellation, reload or restart leaks a slot of a key or of a
\* model, or gives one back twice.
SlotsMatchHolders ==
    /\ \A k \in Keys : inflight[k] = Cardinality(HoldersOf(k))
    /\ \A m \in Models : modelInflight[m] = Cardinality(CountedHolders(m))

\* The ceilings shared between keys hold whichever dispatcher takes the slot:
\* a governed model's maxInflight and a vendor's vendorMaxInflight.
CeilingsHold ==
    /\ \A m \in Models : Governed(m) => modelInflight[m] <= ModelPolicy[m].maxInflight
    /\ \A v \in Vendors : VendorPolicy[v].limited =>
          Cardinality(VendorSlots(v)) <= VendorPolicy[v].maxInflight

ModelCeiling(m) ==
    [leases |-> {l \in Leases : l.model = m /\ TracksModelSlot(l.key, m)},
     max |-> ModelPolicy[m].maxInflight]

VendorCeiling(v) ==
    [leases |-> {l \in Leases : l.key \in KeysOf(v)}, max |-> VendorPolicy[v].maxInflight]

Ceilings == {ModelCeiling(m) : m \in {x \in Models : Governed(x)}} \cup
            {VendorCeiling(v) : v \in {x \in Vendors : VendorPolicy[x].limited}}

Ledger == INSTANCE CapacityLedger
          WITH Requests <- Requests, Leases <- Leases, NoLease <- NoLease,
               Ceilings <- Ceilings, holder <- holder

\* The counters, sums and early returns of the two acquisition paths implement
\* the ledger, which has none: a lease is only ever taken below its ceilings.
ImplementsLedger == Ledger!LedgerSpec

\* Both dispatchers and every request share the pacing of a key: two starts on
\* a paced key are never closer than its interval while the process lives.
PacedStartsApart ==
    [][\A k \in Keys :
         (inflight'[k] > inflight[k] /\ Pool[k].rate.mode = "paced") =>
            /\ rate'[k].lastStartedAt = now
            /\ \/ rate[k].lastStartedAt = 0
               \/ now - rate[k].lastStartedAt >= Pool[k].rate.limit]_vars

\* A key in cooldown always says why: otherwise no later success, quota probe
\* or restart would treat its cooldown as what it is.
ActiveCooldownHasReason ==
    \A k \in Keys : CoolingAt(health[k], now) => health[k].reason \in Transient \cup Protected

\* With no write pending and the last one successful, the file holds exactly
\* the record of every cooldown in force: an outcome never forgets to schedule
\* the write, and a write never misses a cooldown.
QuietFileMirrorsCooldowns ==
    (persistDue = 0 /\ healthy) =>
        \A k \in Keys : CoolingAt(health[k], now) =>
            file[k] = [until |-> health[k].badUntil, reason |-> health[k].reason]
=============================================================================
