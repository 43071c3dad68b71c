# tomato-tap in TLA+

Specifications, model-checking runs and machine-checked proofs about the
tomato-tap gateway: one Node.js process that shares a pool of upstream API keys
among concurrent requests, with quota windows, egress proxies, budgets, a usage
ledger and a configuration that is replaced while the gateway serves.  Paths
below are relative to `src/src/` unless they begin with `src/`.

Contents: 1 the system, 2 the modules and the code, 3 the runs, 4 fairness,
5 the proofs, 6 where code and documents differ, 7 not modelled, 8 what is left.

## 1. The system

Everything but the prober, the sing-box and cursor-agent children, and
`config-storage.mjs` runs in one event loop.  Two pieces of code interleave only
where one of them awaits, so one action of a model is one synchronous stretch of
the program: what a handler does up to its next `await`, or up to its end.  A
crash may fall between any two of them, and where a stretch writes several
files, between the writes.

| part | state it keeps | operations | hard behaviour | what makes it correct |
|---|---|---|---|---|
| **Key pool and key health** `app/server.mjs` 560-1050, `state/*.mjs` | per key: slots in use, capacity, cooldown with its label, streaks, dead models, pacing; per model: slots; cursor; cooldown file and its timers | pick and acquire, list and acquire, release with an outcome, cancel, quota reopened, persist, restart, swap of the pool | two dispatchers take slots of the same keys; outcomes arrive in any order; labels outlive their cooldowns; write-behind file | no slot leaked or freed twice; ceilings; pacing; a protected cooldown is not cut short; the file mirrors memory |
| **Quota windows and prober** `providers/quota/` | window per deployment, claims with leases, the state file; the prober's pending probes and reports | observe, advance, claim, report, retry, persist, reload, restart of either process | leases that expire under a probe, repeated reports, evidence during a probe, failed writes | an exhausted window reopens only on a fresh probe; the file keeps verdicts that were answered |
| **Runtime generations** `config/runtime-config.mjs`, `config/runtime-generation.mjs`, `gateway/gateway-request-handler.mjs` | generation in force, staged candidate, revision the watcher saw, active responses, requests at the gate | watch, stage, prepare, gate, track, activate | the swap waits for idleness, requests wait for the swap, clients leave at any time | no request crosses a swap; the last valid configuration comes into force |
| **Configuration stores and console** `admin/`, `config/*store*.mjs`, `scripts/config-storage.mjs` | three files or one SQLite registry with a revision; the digest the watcher handled | edit providers, models and settings; boot; import, export; crash | several files per edit, two processes, a digest that must see every change | what is stored loads; no acknowledged change is lost; what loads comes into force |
| **Egress** `egress/` | bindings, ports and their file; per runtime the keys it resolved; sing-box children, restart timers | load, resolve, activate, start, exit, probe, restart, shutdown | failed writes, two runtimes alive at once, children that outlive a crash | the file always loads; a sticky binding never moves; a port is answered by the node it is bound to |
| **Ordinary dispatch** `routing/ordinary-dispatch.mjs` | attempt counter, tried keys, waits for a 429 recovery | the retry loop with its sleeps | keys come off the exclusion list; busy keys; silence | no endless retry; another key each time; everyone is answered |
| **Logical dispatch** `routing/logical-dispatch.mjs`, `logical-scheduler.mjs`, `candidate-eligibility.mjs` | lease per logical model, demand of protected tasks, qualification and backoff, tried deployments, deadlines | admit, select, acquire, send, record, sleep, leave | selection and acquisition use different rules; reserved capacity; sleeps against deadlines | each way out gives the lease back once; the loop does not spin; reserve and backoff hold; each request ends |
| **Model catalog** `providers/relay-loader.mjs`, `key-discovery.mjs`, `routing/model-policy.mjs`, `time-route-scheduler.mjs`, `gateway/model-inventory.mjs` | the configuration in force (pure functions of it), troubles of keys, verdicts | load, list, readiness, choose | one question answered by several pieces of code, each with its own spelling of names | what is listed is what is served; only listed names go upstream; time rules leave a candidate |
| **Budget** `usage/budget-manager.mjs`, `gateway/request-accounting.mjs` | credits and spend of the day with reservations; their file | gate, reserve, charge, release, turn of the day, load | await between gate and reservation; midnight; crash with reservations outstanding | reservations exact; cap kept; credits are today's |
| **Usage log, index, dashboard** `usage/usage-ledger.mjs`, `usage-history.mjs`, `usage-dashboard.mjs` | usage.log and archives, queues of the stream, offsets by inode, counters of the day | append, rotate, clean up, close, sync, scan, midnight | files renamed and removed under their readers; half lines | no row lost or doubled; each row counted once |
| **Cursor bridge** `providers/adapters/cursor-acp-bridge.mjs` | places, a child and its timers per request | accept, spawn, talk ACP, time out, kill, close | timeout, disconnect, answer and exit settle one request in any order | places and children are accounted for and come free |
| **Pure rewriting** `routing/request-adapter.mjs` and others, quota inference, pricing table, input validation | none | functions of their input | none | - |
| **Telemetry, web console, command line tools** | logs, pages | - | - | - |

Interaction.  The front end matches a route, asks the generation gate, passes the
budget's gate, then hands the request to the ordinary or the logical dispatcher.
Both call the key pool; the logical one through the deployment registry (`list`,
`acquire`, `release`) and the scheduler.  The pool asks the egress runtime
whether a key's node is running and the quota control whether its window is
open.  The end of each attempt charges the budget and appends a row to the usage
ledger, whose files the index and the dashboard read.  The prober is a process
of its own that talks to the quota control over a socket; the Cursor bridge is
reached over the loopback like an upstream.  The console writes the stores, the
watcher notices by digest, prepares a generation beside the old one, waits for
`isIdle`, and then swaps pool, policies, quota and egress in one stretch.

The hazards of each part, at the lines where they bite, are listed in
`PROJECT.json` with the properties that would catch them.

## 2. The modules and the code

`PROJECT.json` ("map") names, for every definition, the lines it models.  This
section says how the state corresponds and what was abstracted.  The modules that begin
with `MC` give the constants their values for the runs of section 3, those that
end in `Proofs` hold the theorems of section 5.  Two machines that share a module
of proofs have different names for their specifications (`Spec` and `StoreSpec`,
`Spec` and `CatalogSpec`).

### Key pool: KeyRateLimit, KeyState, KeyPool, CapacityLedger, KeyPoolHistory

* **KeyRateLimit** - the two kinds of pacing of `state/key-rate-limit.mjs` as
  functions of a rate record and the time.
* **KeyState** - what one outcome does to the state of one key: cooldown and
  its label (`state/key-cooldown.mjs`), streaks, capacity, dead models
  (`state/key-state.mjs`).  `ApplyKeyOutcome` is `applyKeyOutcome`.
* **KeyPool** - the pool of one process.  `health`, `inflight`, `rate`,
  `modelInflight` and `keyCursor` are the maps of `server.mjs`; `holder[r]` is
  what the dispatch of request r keeps in local variables; `file`,
  `persistDue`, `healthy` and the two clocks of persistence stand for the
  cooldown file and its two timers.  `PickKeyAndAcquire` is the path of the
  ordinary dispatcher, `LogicalAcquire` that of the logical one, `ReleaseKey`
  with its outcome and `CancelAttempt` the two ways back.  The set `open` of
  keys that egress and quota admit at that instant is chosen freely at each
  pick: both are components of their own.
* **CapacityLedger** - the promise of the pool, without health, time, files or
  choice: which request holds which lease, taken only below every ceiling it
  falls under.  `KeyPool!ImplementsLedger` is the refinement.
* **KeyPoolHistory** - KeyPool with history variables for the properties that
  relate a state to an earlier outcome (until when a key is owed protection).

### Quota windows: QuotaWindow, QuotaHistory

`win[d]` is the window of a deployment, `claim[d]` the outstanding claim with
its lease, `file` the state file, `busy[r]` the deployment a request was
dispatched to, `asking` the claims the prober asks the upstream about,
`telling` its reports not yet known to be handled and `mail` those on their way
(the parameter `heard` says whether the answer gets back).  `ClaimDue`,
`HandleReport`, `Observe`, `PersistRetry` are handlers of
`quota-control.mjs`/`quota-window.mjs`; `ProbeAnswered` and `RetryReport` are
steps of `quota-prober.mjs`.  `Crash` may lose the process between any two
steps, `Corruption` says whether the file survives it.  QuotaHistory records
when evidence of exhaustion came and which probe reopened a window; it forgives
a crash after failed writes, because the code answers a report as failed in
that case and nothing else was promised.

### Runtime generations: RuntimeGeneration

`disk`, `seen`, `preparing`, `pending`, `active` follow one revision from an
edit to its activation; `phase[r]` is where the handler of request r stands,
`open[r]` whether its client is connected, `tracked` the responses with
listeners, `leased` the leases of logical requests, `leaked` counts responses
that were tracked after they had closed.  The gate and `trackResponse` are one
stretch: a microtask in between is a case of waiting.  The `applying` flag is
never seen set from outside, and the swap itself is taken not to throw.

### Configuration stores: OperatorConfig, ConfigStore

**OperatorConfig** has the pure part: what each operation of
`operator-config-store.mjs` makes of the documents, which files it will write
(`parts`) and what `validateCandidateDocuments` demands.  In **ConfigStore**
`files` and `db` are the two stores, `admin` an operation with the writes it has
left (their order is the code's), `cli` a run of `config-storage.mjs`, access by
access, `mode`/`opened` what the boot decided, and `inForce`/`known` what the
watcher loaded (`WatcherCheck`) and the digest it handled.  A document is abstracted to which
providers, models and logical models it names, how they refer to each other, and
what makes the loader refuse them.

### Egress: ProxyBindings, Egress

**ProxyBindings** has the pure part, `resolve` and the check of the file in
`load`.  In **Egress** `bindings` and `file` are the map and its file,
`runtime[slot]` a generation's sticky runtime with the keys it resolved (one
active, one pending, one being prepared: they share the binding store),
`work[slot]` a load under way, `listener[n]` the record of node n in
`sing-box-manager.mjs` (port, state, child, timer) and `process[c]` a child of
the operating system, which can outlive its record.  `ResolveNext` resolves one
key: `resolveAll` is synchronous, but a crash may fall between its writes.
A subscription is a choice of available nodes; `hash` is an arbitrary order
(`Rank`).  Spawning may throw; running out of processes counts as that.

### Ordinary dispatch: OrdinaryDispatch

`req[r]` holds the locals of one dispatch: attempt, excluded keys, waits, the
key being asked, the time a sleep ends, the deadline, whether the client left.
`Turn` is one stretch of the loop from its head (or from an answer) to the next
await; sleeps are taken for a recovery, for a busy key and between attempts.
What a failure does to a key is KeyState's subject: here it rests, for a
duration the answer decides, or not at all.

### Logical dispatch: LogicalScheduler, LogicalDispatch

**LogicalScheduler** has the pure part: states of `candidate-eligibility.mjs`,
`Evaluate`, the delay before the next look, the backoff `2^n`, and the maximum
flow of `freeStrongSlots`, stated as the minimum cut.  In **LogicalDispatch**
`phase[r]` is where the loop stands: "turn" is a stretch that no other callback
can enter (but the clock may pass in it), "asleep" a sleep, "sent" an attempt
with its slot.  `active[l]` is the lease counter of a logical model, `demand[t]`
what the protected requests of a task ask for, `qual[p]` the eligibility record
of a deployment, `keyUntil`, `pairUntil`, `paced`, `shut` what the pool says of
it.  `Selected` allows any order of the candidates that are left, so every
score, affinity and statistic is covered.  Local variables go back to their
defaults when a handler ends.

### Catalog: RelayRegistry, ModelPolicy, ModelCatalog

**RelayRegistry** is `relay-loader.mjs` and `key-discovery.mjs`: which documents
compile, the names a key shows and answers to, credentials under the old and the
new prefix, and the name sent upstream.  Names come in spellings, and `Lower`
maps each to its lowercase form: where the code compares spellings the model
does, and where it lowercases the model does too.  **ModelPolicy** is
`model-policy.mjs` (what compiles, what a request or a task subtype resolves to,
what matches) and `time-route-scheduler.mjs` (rules in order, days, ranges over
midnight, the normalization of what cannot be read).  **ModelCatalog** puts a
configuration in force together with what stands in the way of its keys
(`troubles`: cooldowns, windows, pacing, ceilings, blocked vendors, an unsaved
quota file, ...) and the verdicts of validation; `ModelList` and `Ready` are
`model-inventory.mjs`, `Serving` the choice of the ordinary dispatcher and
`LogicalServing` that of the logical one, each written from its own code.

### Budget: VendorBudget

`mem` is the state of `budget-manager.mjs` (credits used, date of the vendor
table, money spent and reserved), `file` the saved state, `day` the calendar and
`resetDay` the date the timer knows.  A request passes the gates, awaits its
body, reserves, is charged and releases.  `audit`, `fileAudit` and `today` only
observe.  Operating windows and peak hours, which only refuse requests, are left
out; prices are any amounts.

### Usage: UsageLog, UsageLedger, UsageHistory

**UsageLedger** is `usage-ledger.mjs` over files with an inode and bytes; a row
is two bytes, so that a crash or a reader may meet half of one.  The stream
flushes any part of its buffer at any time.  **UsageHistory** adds the readers:
the incremental index (list, stat, read file by file, offsets by inode) and the
dashboard with its counters and the scan of the start.  `disturbed` and `moved`
observe that a file changed its place under a reader.  **UsageLog** is the
promise: a set of rows of which the oldest expire and others leave only by a
reported failure or a kill, and a flag `ordered` that never turns FALSE.
`ImplementsLog` is the refinement: the mapped set is the rows readable in the
files or waiting in the buffers, and `InOrder` says that a reader who takes the
archives by name and usage.log last meets them in the order of their appends
and each once.  `Doomed` tells of each archive by itself whether the clean-up of
the code, which goes on from the oldest while too many bytes are left, reaches
it: it does if the archives after any earlier one are still too large together.

### Cursor bridge: CursorBridge

`gate[r]` is what the request is to the gateway, `handler[r]` and `answer[r]`
what the bridge does with it, `call[r]`/`out[r]` the ACP call pending and the
reply in the pipe, `child[r]` the process, `kill` the armed SIGKILL timers, and
`active` the counter of places.  A child may answer, fail, stay silent, ignore
SIGTERM or end.  `ProcessEnds` is the end of the gateway process, in order
(`Shutdown`, `Exit`) or by the unhandled error of a broken pipe (`BrokenPipe`);
a child that lives then is left to itself.

## 3. The runs

Each run asks one question.  Every property of a run has a mutant in
`PROJECT.json`: a plausible bug in a mapped definition with which TLC finds the
property violated under the same configuration.

| run | states | bounds | shows |
|---|---|---|---|
| keypool_slots | 50 k | 3 keys of 2 vendors (ceiling 2 / none), a governed model with ceiling 2 and an ungoverned one, both kinds of pacing, 3 symmetric requests, 2 ticks, no writes | `SlotsMatchHolders`, `CeilingsHold`, `PacedStartsApart`, and the refinement `ImplementsLedger`, whatever dispatchers interleave |
| keypool | 255 k | 1 key behind a bound node, 3 symmetric requests, all classes of outcome, write delay 1, safety net 2, 3 ticks, failing writes, crashes, shutdowns | `ProtectedCooldownHolds`, `StreakStillBlocked`, `QuietFileMirrorsCooldowns`, `CrashLosesOnlyRecent` |
| quota | 268 k | 1 deployment, 2 requests, lease 1, one probe at a time, 2 tries of a report, 2 claims, 3 ticks, both processes restart | `FileKeepsVerdicts`, `ReopenNeedsFreshProbe`, `ReserveNeedsQuota` |
| generation | 117 k | 1 physical and 1 logical request, 2 edits, broken contents, 2 tries | `WorkOfOwnGeneration`, `ActiveRequestsExact`; liveness `LatestRevisionActivates` |
| egress | 2.5 M | 2 deployments (one may be pinned), 2 nodes, 2 ports, 2 processes, one change by reload or restart | `FileLoadable`, `KeysFollowFile`, `SettledKeysUseOwnNode`, `ListenersRevive`, `BindingStays` |
| logical | 375 k | 2 requests of one logical model, one protected; 2 keys, 2 strong models, slots 1, a paced key under a vendor ceiling, deadline 2, 2 attempts | `SelectionIsAcquirable`, `ReserveCounted`, `BackoffHolds`; liveness `EveryRequestEnds` |
| usage | 292 k | 2 rows of 2 bytes, a file is full after one, one archive kept, 2 days, 2 syncs, one fault or restart | `HistoryExact`, `DashboardCounts`, and the refinement `ImplementsLog` |
| budget | 1.0 M | 3 requests (one logical), a vendor with cap 2 and one without, reservations 0-2, charges 0 or 1, 2 days, one fault | `ReservationsExact`, `CapHolds`, `UsedIsOfToday` |
| ordinary | 760 k | 2 requests, 2 keys with one slot, 2 retries, a short and a long cooldown, timeout 2, recovery wait 1, 3 ticks | `RetriesElsewhere`; liveness `EveryRequestAnswered` |
| config | 1.2 M | starter and one more provider, real and logical model, 3 operations, one run of the tool, one crash | `StoreLoads`, `NoUpdateLost`; liveness `ChangesComeIntoForce` |
| bridge | 191 k | 3 requests, one place, two starts | `NothingLeaks`, `BusyOnlyBehindGivenUp`; liveness `PlacesComeFree` |
| catalog | 100 k | 30 configurations of two relays, up to 2 troubles and 1 verdict, 2 times of day | `OnlyListedNamesReachUpstream`, `ListingAgreesWithDispatch`, `RulesLeaveACandidate` |

Why the bounds are enough.

* *Slots.*  A ceiling of 2 is the least with a state below it, at it and (in a
  faulty program) above it; three requests are the least that can overrun it.
  Two vendors are needed because models are tracked for one and not for the
  other.  `MaxTime` 2 lets a pacing interval and a fixed window end once.
* *Health and file.*  Three overlapping requests are the least in which one
  cooldown is set, relabelled and then lifted by outcomes that all began before
  it; with thresholds of 2 a streak is reached, broken and reached again.  The
  write delay is shorter than the safety net, as in the program (1 s and 30 s),
  and both are shorter than `MaxTime`, so each timer fires after failed writes
  of the other.
* *Quota.*  `MaxClaims` 2 allows a late report under a newer claim, `ReportTries`
  2 a repetition, `ClaimLease` 1 a lease that ends under a probe, `ProbeLimit` 1
  a prober at its limit.  There is one deployment: the order in which several
  are claimed (`Before`, `Rank`) is only exercised trivially.
* *Generations.*  `MaxEdits` 2 gives a generation that is staged while another
  is pending; `MaxTries` 2 a sleep between attempts.
* *Egress.*  With a pin a deployment takes over another node and its port
  changes hands; two processes are a child and one that was forgotten.
  `MaxChanges` bounds reloads and restarts together.  Writes succeed in this run;
  the theorems about the file hold for failing ones as well.
* *Logical.*  With two keys and two models of one slot each, keys and models
  compete for one unit of the flow in two ways, which is where a count that is
  too simple fails.  `MaxShuts`, `MaxArrival` and `MaxTime` bound how often a
  key is taken out, when requests arrive and the clock.  The clock runs past
  every deadline.
* *Usage.*  A row of two bytes is the least of which half can be lost or read,
  a file that is full after one row is rotated twice, and an archive of two
  bytes keeps one file, so that the cleanup has one to remove.  The index and the
  dashboard never read each other's state: `OneReader` explores one of them at a
  time (the ledger does the same in either case).
* *Budget.*  A cap of 2 is filled by one request or by two; the third (logical)
  is charged beyond the reserve.  Two days and one fault give each order of
  reservation, midnight, late release, failed save and crash.
* *Ordinary.*  With `MaxRetries` 2 and two keys the third attempt must return to
  a key or end.  One cooldown is short enough to be slept through, the other
  outlives every request.  `MaxTime` is past every deadline and sleep.
* *Config.*  Three operations are an edit of each part and one that undoes it;
  the run of the tool falls anywhere in them, and so does the crash.
* *Bridge.*  The second request meets the place of the first given up, the third
  meets both; the second start meets the orphans of the first.
* *Catalog.*  One dimension after the other is varied around a usual
  configuration: lists, declared names and aliases of one relay; weights and
  credentials; tiers, capabilities, tasks and rules.  Two troubles are the least
  that take both relays of a name away in different ways.

Deadlock is checked except in the runs egress, logical, usage, budget, ordinary,
config and bridge.  There the system may really stop: no reload is left, all
requests have ended, or no operation remains.

## 4. Fairness

* *Generations.*  Weak fairness of `Check`, `ActivationTimer` and the watcher's
  steps: they are timers of the event loop.  Strong fairness of `Stage`: a
  preparation that is tried again and again and may succeed (its sources are on
  disk and valid) does not fail for ever.  Weak fairness of each request's own
  steps and of the 10 s limit at the gate: upstream calls have time limits.
  A client eventually reads its response or disconnects.  Nobody is assumed to
  arrive, and no edit to be made.  `LatestRevisionActivates` has the premise
  `[](leaked = 0)`, see section 6.
* *Logical.*  Weak fairness of the clock, of admission polls, of the end of a
  stretch, of a wake-up and of the answer to an attempt: timers, upstream time
  limits and the event loop.  Nobody is assumed to arrive or to leave.
* *Ordinary.*  Weak fairness of the clock, of `Turn`, `Wake` and of the timeout
  of a silent upstream.  The upstream itself owes no answer.
* *Config.*  Weak fairness of the watcher's check (a timer) and of the writes of
  an operation under way (the process goes on while it lives).  The tool owes
  nothing.
* *Bridge.*  Weak fairness of the timers, of noticing a lost connection, and of
  a body coming through as long as the gateway has not given up.  The child owes
  nothing, neither an answer nor an end on SIGTERM.

All other properties are safety and need none.

## 5. The proofs

The proof modules hold for every value of the constants that satisfies the named
`ASSUME` of the modules they extend: any number of keys, requests, vendors,
nodes, ports and days, and any limits.  Those assumptions say that constants
have their types, that limits are at least what the loader accepts, and that
model values for "nothing" are not ordinary values.  TLC evaluates each of them
in the runs.

| module | theorem | property |
|---|---|---|
| KeyPoolProofs | `TypeCorrect` | `TypeOK` |
| | `CountersExact`, `CeilingsNeverExceeded` | `SlotsMatchHolders`, `CeilingsHold` |
| | `PoolImplementsLedger` | `ImplementsLedger` |
| | `PacingHolds` | `PacedStartsApart` |
| | `CooldownsHaveReasons`, `ProtectionHolds` | `ActiveCooldownHasReason`, `ProtectedCooldownHolds` |
| | `FileMirrorsCooldowns`, `CrashLosesNothingOld` | `QuietFileMirrorsCooldowns`, `CrashLosesOnlyRecent` |
| | `StreaksStayBlocked` | `StreakStillBlocked` |
| QuotaProofs | `QuotaTypeCorrect`, `RestartsKeepVerdicts` | `TypeOK`, `FileKeepsVerdicts` |
| | `SignalsOutliveOldProbes`, `ReserveIsForQuotaOnly` | `ReopenNeedsFreshProbe`, `ReserveNeedsQuota` |
| ConfigurationProofs | `GenerationTypeCorrect`, `NoWorkAcrossActivation` | `TypeOK`, `WorkOfOwnGeneration` |
| | `ActiveCountIsExact` | `ActiveRequestsExact` |
| | `NoUpdateIsLost`, `StoreAlwaysLoads` | `NoUpdateLost`, `StoreLoads` |
| EgressProofs | `EgressTypeCorrect`, `FileStaysLoadable` | `TypeOK`, `FileLoadable` |
| | `BindingNeverMoves`, `KeysAlwaysFollowFile` | `BindingStays`, `KeysFollowFile` |
| | `NodesAlwaysRevive`, `SettledTrafficStaysHome` | `ListenersRevive`, `SettledKeysUseOwnNode` |
| LogicalProofs | `SelectionNeverSpins`, `BackoffIsKept` | `SelectionIsAcquirable`, `BackoffHolds` |
| | `ActiveCountExact`, `ReserveIsKept` | `ActiveExact`, `ReserveCounted` |
| UsageProofs | `BudgetTypeCorrect`, `CreditsAreOfToday` | `TypeOK`, `UsedIsOfToday` |
| | `ReservationsStayExact`, `CapNeverExceeded` | `ReservationsExact`, `CapHolds` |
| | `LedgerInvariant`, `LedgerImplementsLog` | `LedgerInv`, `ImplementsLog` |
| | `DashboardCountsTheDay`, `IndexCountsEachLineOnce` | `DashboardCounts`, `HistoryExact` |
| CursorBridgeProofs | `PlacesAndChildrenAccounted`, `BusyIsTransient` | `NothingLeaks`, `BusyOnlyBehindGivenUp` |
| ServingProofs | `RetriesGoElsewhere` | `RetriesElsewhere` |
| | `CatalogTypeCorrect`, `OnlyListedNamesAreSent` | `TypeOK`, `OnlyListedNamesReachUpstream` |
| | `ListingIsTrue`, `RulesAlwaysLeaveOne` | `ListingAgreesWithDispatch`, `RulesLeaveACandidate` |

ConfigurationProofs is about RuntimeGeneration and ConfigStore, ServingProofs
about OrdinaryDispatch and ModelCatalog, UsageProofs about VendorBudget and
UsageHistory.  Each pair shares no variable, and each theorem speaks of one
specification only.

Along which argument:

* *Slots.*  `SlotInv` adds to the two properties that the load of each vendor,
  which the code sums up over its keys, is the number of holders of its keys.
  Without it a step that takes a slot of one key says nothing of the ceiling of
  the vendor.  Only four kinds of step touch a slot, and the proof has one lemma
  for each: take with a model, take without, give back, start afresh.  The
  refinement follows: a pick is `Take`, a release `GiveBack`, a restart
  `GiveBackAll`, and all other steps stutter.  `PacedStartsApart` is a property
  of each step, given that the rate record of a key has its type.
* *Reasons and protection.*  A cooldown with no label cannot be kept away by
  looking at cooldowns in force only: labels outlive cooldowns, and the file
  brings old ones back.  `ReasonInv` says it of the file as well.  `ProtectInv`
  adds that a promise of protection still running is covered by the cooldown of
  the key, with a protected label.  `StreakInv` is the same for the block of a
  streak: an outcome either keeps the end of the cooldown or moves it out.
* *The cooldown file.*  That the quiet file mirrors memory is inductive with the
  types: each outcome that changes a cooldown leaves a write due.  For the crash,
  `RecentInv` adds that a write is due no later than the delay after each
  cooldown it has to bring to the file.
* *Quota.*  The invariant is one for all: the file and the memory agree on what is
  open (`FileKeepsVerdicts`); what the file holds counts as exhausted only by a
  signal; and an outstanding claim is younger than the last signal of its
  deployment (`ClaimsAreFresh`), for a signal takes the claim away.  A restart
  reopens nothing because the file opens nothing memory did not.
* *Generations.*  Work stays in its generation and the counter is exact, each by
  the other: an open response under way keeps the counter above zero, so that no
  activation comes between two of its attempts, and the activation is the only
  step that takes a fresh counter.  `EditsSuffice` bounds the generations, which
  only the types need.
* *Configuration.*  `TrackInv` says of an operation under way that the documents
  it has already replaced, or does not replace, are the ones it means to leave;
  `WantInv` that what the acknowledged operations amount to is in the store, or
  split between the change and the files.  `LoadInv` is about validity: relays and
  models are valid separately and together with each other's old halves, and the
  credentials of removed providers are among the orphans the property names.
  An operation or the tool that another writer came between is set aside by the
  property itself (`raced`).
* *Egress.*  `FileLoadable` rests on `StoreInv`: memory is loadable as well,
  a record exists for every watched child, and a load under way has a runtime.
  `KeysFollowFile` needs `FollowInv`: while a load resolves its keys, those
  resolved so far agree with the file, those to come do not matter, and memory
  agrees with the file from the last reading on except where a write failed.
  `BindingStays` follows from the same invariant as an action property.
  `ListenersRevive` needs that a child which a record names is alive, of that node
  and watched, so that its end reaches the record (`BoxesInv`).  `SettledKeysUseOwnNode` compares keys,
  records and processes, orphans included, none of which know of each other; what
  they share is the file: as long as nothing moved it only grows, and each of
  them uses a port that it gives the node (`Registered`), which it gives to no
  other.
* *Logical.*  `SelectionIsAcquirable` is a statement about one state: in every
  case in which `list` says ready or degraded, each conjunct of `acquire` holds;
  it needs types of the clocks (`TimesOK`) and nothing of history.
  `ActiveCountExact` counts the admitted requests of one logical model, one
  lemma for "one more", one for "one less".  `BackoffHolds` needs that a rest is
  never longer than the backoff of the failures so far (`RestInv`): the next
  failure then moves its end out and not in, because `2^n` grows with n, which is
  proved by counting: it is the number of subsets of a set of n elements.
  `ReserveCounted` asks for attempts that can start side by side where the model,
  like the flow of the code, has a number: that a flow of the size of the smallest
  cut exists (`AttemptsFit`).  Sums of slots are cardinalities (`Total`), so that cuts
  are submodular by counting a union.  Take a counterexample with the fewest
  slots on its keys, and a key with one.  If no cut needs that slot to the last,
  the network without it is a smaller counterexample.  Otherwise the smallest cut
  that does leaves a model to which the slot can go without any other cut missing
  both (`NeededSlot`), and the network without this slot and that of the model,
  for one attempt less, is a smaller one.
* *Budget.*  `UsedIsOfToday` is not inductive: a crash puts the file in the place
  of memory.  `BudgetInv` therefore says of the file what the property says of
  memory (`FileCounts`, as long as the file is of today), that without a save of
  today there is no credit of today, unless one was lost or came before the timer
  (`NothingUnsaved`), that no file is of a later day (`SavedInThePast`), and that
  before the timer has noticed the date there are only such credits
  (`GapNoticed`).  For reservations and caps (`MoneyInv`) the sum of what requests
  hold is counted: as the number of pairs of a request and one unit it holds,
  so that it changes by one request's part when one request changes.  The file
  must keep the caps too, and a table just made must owe the requests of the old
  one nothing.
* *Usage log.*  `LedgerInv` says that every row is in one place (an archive, the
  current file, the stream, the queue of a rotation) and that the places are in
  the order of the rows, halves of rows included.  The refinement alone is not
  inductive: that a rotation keeps the order needs what half a line at the end of
  a file does to the next row, that names, inodes and dates of the archives
  agree, and that a clean-up under way has only the oldest left.  A row half
  written when the process is killed is lost with everything after it, which is
  what `Kill` allows.  What a file holds is said of the positions of its bytes and
  never of a filtered sequence, and most of the lemmas are about that: the rows
  readable in two parts of a file, and in a file with a byte more.
  `DashboardInv` adds, for the scan of the start, that a row of the day not
  counted yet is in a file the scan will still read (`ScanOnItsWay`), and that
  rows it may meet for the second time came while it ran.  `IndexInv` relates
  offsets to counts: of each file the whole lines before its offset are counted
  and no others, each row once since no two files share one; while a sync reads,
  what it still owes is in the names it has left, up to the sizes it noted
  (`SyncReading`).  All three hold through appends between any two steps.
* *Bridge.*  `NothingLeaks` is inductive with the types (`BridgeInv`).  A leaving
  request gives its place back (one lemma for all ways out), and what it leaves
  alive is in `kill` because `Finish` terminates the child in the step in which
  the handler ends.  `BusyOnlyBehindGivenUp` adds that the gateway never waits
  for more requests than there are places, and that one it waits for and one
  with a place are told apart by their state at both ends (`LinkInv`).
* *Ordinary dispatch.*  The numbers in `RetriesElsewhere` are not inductive.
  `Sound` says what holds at each await: a key that may be picked is owed no
  visit, and the request was sent no more often than its attempts say.  A
  cancelled request breaks both and is never sent again.
* *Catalog.*  `OnlyListedNamesReachUpstream` and `RulesLeaveACandidate` follow from
  what loading checked; `ListingAgreesWithDispatch` compares the two sides case
  by case.  The only invariant is the type correctness over reloads: a trouble or
  verdict that is carried over is of a key or name the new configuration has.
  `CatalogAssumption` says of the configurations offered that they have their four
  parts and that no relay is called like the gateway; the first one loads because
  the process starts with it.

Only model-checked.  Liveness and anything about ENABLED.  Every invariant and
every action property that a run checks is stated by a theorem above.

## 6. Where code and documents differ

No run claims what follows; each was met while modelling and, where a property
would run into it, that property's comment says how it is set aside.

Statements of the repository that the code does not keep:

* `src/docs/architecture.md:92`, "Model-specific failures cool only the key/model
  pair": 404s of named models advance the mixed-error streak and in the end cool
  the whole key (`state/key-cooldown.mjs:12`).
* `src/docs/architecture.md:60-62`, a staged generation activates once the gateway
  is idle: a response that closed while it waited at the gate is counted as
  active for good (`gateway/gateway-request-handler.mjs:85`); hence the premise
  of `LatestRevisionActivates`.
* `src/README_en.md:225`, a pinned node "never silently changes IP": a pin that
  changes takes over a port on which the old node still listens
  (`egress/proxy-bindings.mjs:56`); hence `moved` in `SettledKeysUseOwnNode`.
* `src/tests/test_logical_scheduler.mjs:361`, reserved slots stay ready: one pick
  can cost two units of the flow the reserve is counted in
  (`routing/logical-scheduler.mjs:181`); `ReserveCounted` says what is counted.

Peculiar, in the order of the parts:

* *Key pool.*  A 401's day-long cooldown that a later 429 relabels is lifted by a
  reopened quota (`app/server.mjs:823`).  An expired (key, model) entry nobody
  has read suppresses the cooldown of the next 404 (`state/key-state.mjs:134`).
  An exception between pick and release would leak the slot
  (`routing/ordinary-dispatch.mjs:258`).
* *Quota.*  Due windows are claimed fewest failures first and, among equals,
  latest due first: one may be passed over as long as others keep coming due
  (`providers/quota/quota-window.mjs:91`).
* *Generations.*  Vendor and route are captured before the gate's await and may be
  used in the next generation (`gateway/gateway-request-handler.mjs:50`;
  the variable `route` of RuntimeGeneration keeps which).
* *Egress.*  A restart timer can start a child over one that runs; `stopAll` does
  not know the first (`egress/sing-box-manager.mjs:80`).
* *Catalog.*  A name in another case and a reserve key may be listed as available
  when ordinary dispatch finds no key.  A physical id equal to a logical model's
  name hides the logical entry of a route's listing while dispatch treats the
  name as logical.  A logical model's own name has no price, so a daily cap of
  its vendor refuses it although it is listed.  A model without a real-model
  policy is never validated and is listed as probing for ever.  A relay that
  declares its canonical names escapes the check of its aliases' targets.  An
  empty credential under the new prefix shadows one under the old.  While the
  quota file is not saved, listings and logical routes take unmanaged keys as
  closed and ordinary dispatch does not.  A time rule whose ranges cannot be
  read (an end at 24:00) holds all day; ranges over midnight look at the current
  day; "only" without a match brings forbidden deployments back; the "prefer"
  rule of the lowest priority ends up first.
* *Budget.*  A reservation of one day released on the next frees another's, so
  that the cap may be overdrawn.  A charge in the minute before the timer
  notices midnight is erased with yesterday's counters, and a save in that minute
  stamps them with today's date.  A crash leaves reservations in the file.
  Attempts of logical requests are charged beyond the reserve, perhaps on
  another vendor.
* *Configuration.*  Removing a provider without its credential, or a crash before
  the env file is written, leaves a credential the loader refuses.  After
  an import or export the console writes one store and the runtime reads the
  other until a restart.  Reading and replacing the registry are two
  transactions.
* *Usage.*  After half a line the next row cannot be read either.  A rotation
  under a sync, or a new file with the inode of a read one, miscounts
  (`disturbed`).
* *Bridge.*  503 busy is retryable and cools the key.  `child.stdin` has no error
  listener, so a broken pipe may end the gateway.  A SIGKILL timer dies with the
  process.  The 413 for a large body never arrives.

## 7. Not modelled

* Key pool: counters of the status page.
* Quota: the wording of signals (`quota_infer`), the content of a probe, the
  socket's framing, the renaming of a corrupt file (its loss is modelled).
* Generations: a failing swap.
* Egress: parsing of subscriptions, the agent pool, the retry timer of a failed
  reload, a load that ends in a runtime already disposed of.
* Logical: affinity and statistics (any order is allowed), the floor of 10 ms of
  a delay, the file of qualifications.
* Catalog: built-in vendors, protocol tables and headers, which are fixed data.
* Budget: operating window and peak hours, the pricing table.
* Configuration: sessions and pages of the console, the wording of validation.
* Pure rewriting and validation of bodies, headers and registry documents, the
  telemetry, the pages, the other scripts and the HTTP plumbing: nothing in them
  is kept between two calls that a decision of the models depends on, and what
  they can do to a request is an outcome the models already allow.

Beyond the means: liveness and ENABLED are not proved, nor is what a recursive
definition computes for every input; both stay with TLC.

## 8. What is left

In this order, if the development goes on:

1. The file of qualifications and its hydration over LogicalScheduler.
2. Quota with two deployments and a relative clock: whether a due window is
   claimed in the end.
3. The agent pool and the streaming of bodies.
