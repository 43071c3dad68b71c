-------------------------- MODULE ConfigurationProofs --------------------------
(***************************************************************************)
(* How a configuration is stored and how it comes into force: the store of *)
(* the operator's documents (ConfigStore) and the generations of the       *)
(* runtime (RuntimeGeneration), two machines that share no state.          *)
(*                                                                         *)
(* Generations.  For every number of connections, edits and attempts: no   *)
(* slot and no lease is held across an activation (WorkOfOwnGeneration),   *)
(* and the counter that holds activations back is the number of the        *)
(* responses it should count (ActiveRequestsExact).  The two rest on each  *)
(* other: a dispatch of an open response keeps the counter above nothing,  *)
(* so that no activation comes between two of its attempts; and the        *)
(* counter is exact because an activation, the only step that sets it to a *)
(* new number, finds it at nothing.                                        *)
(*                                                                         *)
(* The store.  For every set of providers and models and every offer of    *)
(* operations: nothing acknowledged is lost (NoUpdateLost), and what is    *)
(* stored can be loaded, between any two writes too (StoreLoads).  Neither *)
(* is inductive: of an operation under way one must know that the files it *)
(* has replaced are those of its change and the others those it read, that *)
(* the two documents it validated together are valid with the old halves   *)
(* of each other as well, and that config-storage.mjs has not come between.*)
(***************************************************************************)
EXTENDS RuntimeGeneration, ConfigStore, FiniteSetTheorems, TLAPS

-----------------------------------------------------------------------------
(* Generations.                                                            *)

Underway == {"reading", "queued", "sending"}

\* The responses whose end is listened to: open ones, from the gate to 'finish'.
Tracks(doing, connected, unreleased) ==
    \A r \in Requests :
        /\ r \in unreleased => connected[r] /\ doing[r] \in Underway \cup {"replied"}
        /\ connected[r] /\ doing[r] \in Underway => r \in unreleased

\* What a dispatch holds, and that it goes on with, while its client is there.
Owns(doing, connected, leases, began, now) ==
    \A r \in Requests :
        /\ r \in leases => doing[r] \in {"queued", "sending"} /\ began[r] = now
        /\ doing[r] = "sending" => began[r] = now
        /\ doing[r] = "queued" /\ connected[r] => began[r] = now

\* A candidate still to be staged for each of these.
Due == IF preparing = None THEN IF disk = seen THEN 0 ELSE 1
                           ELSE IF disk = preparing THEN 1 ELSE 2

Staged(candidate) == IF candidate = None THEN 0 ELSE 1

\* No more activations than edits.
EditsSuffice == generation + Staged(pending) + Due <= edits

GenInv ==
    /\ TypeOK
    /\ Tracks(phase, open, tracked)
    /\ Owns(phase, open, leased, run, generation)
    /\ activeRequests = leaked + Cardinality(tracked)
    /\ EditsSuffice

(* Sets of connections are finite. *)
LEMMA RequestSets ==
  ASSUME NEW S, S \subseteq Requests
  PROVE  /\ IsFiniteSet(S) /\ Cardinality(S) \in Nat
         /\ Cardinality(S) <= Cardinality(Requests) /\ Cardinality(Requests) \in Nat
         /\ Cardinality(S) = 0 => S = {}
  BY GenerationAssumption, FS_Subset, FS_CardinalityType, FS_EmptySet

(* What an activation, or its absence, makes of a state in which the counter is *)
(* exact and each request works in its own generation.                          *)
LEMMA TryActivateStep ==
  ASSUME NEW candidate \in Revisions \cup {None}, NEW doing \in [Requests -> Phases],
         NEW count, NEW unreleased, unreleased \subseteq Requests,
         active \in Revisions, generation \in Nat,
         open' \in [Requests -> BOOLEAN], leased' \subseteq Logical,
         leaked \in 0 .. Cardinality(Requests),
         count = leaked + Cardinality(unreleased),
         Tracks(doing, open', unreleased),
         Owns(doing, open', leased', run', generation),
         TryActivate(candidate, doing, count, unreleased)
  PROVE  /\ pending' \in Revisions \cup {None} /\ active' \in Revisions
         /\ phase' \in [Requests -> Phases] /\ tracked' \subseteq Requests
         /\ leaked' \in 0 .. Cardinality(Requests)
         /\ activeRequests' \in 0 .. 2 * Cardinality(Requests)
         /\ activeRequests' = leaked' + Cardinality(tracked')
         /\ Tracks(phase', open', tracked')
         /\ Owns(phase', open', leased', run', generation')
         /\ generation' \in Nat
         /\ generation' + Staged(pending') <= generation + Staged(candidate)
  <1> DEFINE woken == {r \in Requests : doing[r] = "waiting"}
             gone  == {r \in woken : ~ open'[r]}
  <1>1. CASE candidate # None /\ count = 0 /\ RuntimeIdle(doing, leased')
    <2>1. /\ pending' = None /\ active' = candidate /\ generation' = generation + 1
          /\ phase' = [r \in Requests |-> IF r \in gone THEN "away"
                                         ELSE IF r \in woken THEN "reading" ELSE doing[r]]
          /\ activeRequests' = count + Cardinality(woken)
          /\ tracked' = unreleased \cup (woken \ gone)
          /\ leaked' = leaked + Cardinality(gone)
      BY <1>1, Zenon DEF TryActivate
    <2>2. leaked = 0 /\ unreleased = {}
      BY <1>1, RequestSets
    <2>3. /\ leaked' = Cardinality(gone) /\ leaked' \in 0 .. Cardinality(Requests)
          /\ tracked' = woken \ gone /\ tracked' \subseteq Requests
      <3>1. gone \subseteq Requests /\ woken \ gone \subseteq Requests
        OBVIOUS
      <3>2. Cardinality(gone) \in 0 .. Cardinality(Requests)
        BY <3>1, RequestSets
      <3> QED BY <2>1, <2>2, <3>1, <3>2
    <2>4. Cardinality(woken) = Cardinality(gone) + Cardinality(woken \ gone)
      <3>1. IsFiniteSet(woken) /\ woken \cap gone = gone
        BY RequestSets
      <3>2. Cardinality(woken \ gone) = Cardinality(woken) - Cardinality(gone)
        BY <3>1, FS_Difference
      <3> QED BY <3>2, RequestSets
    <2>5. /\ activeRequests' = leaked' + Cardinality(tracked')
          /\ activeRequests' \in 0 .. 2 * Cardinality(Requests)
      <3>1. woken \subseteq Requests
        OBVIOUS
      <3>2. activeRequests' = Cardinality(woken) /\ Cardinality(woken) \in 0 .. Cardinality(Requests)
        BY <1>1, <2>1, <3>1, RequestSets
      <3> QED BY <2>3, <2>4, <3>2, RequestSets
    <2>6. phase' \in [Requests -> Phases]
      BY <2>1 DEF Phases
    <2>7. Tracks(phase', open', tracked')
      BY <1>1, <2>1, <2>2, <2>3 DEF Tracks, Underway, RuntimeIdle
    <2>8. Owns(phase', open', leased', run', generation')
      BY <1>1, <2>1, <2>2 DEF Owns, Tracks, Underway, RuntimeIdle
    <2>9. generation' + Staged(pending') <= generation + Staged(candidate)
      BY <1>1, <2>1 DEF Staged
    <2> QED BY <1>1, <2>1, <2>3, <2>5, <2>6, <2>7, <2>8, <2>9
  <1>2. CASE ~ (candidate # None /\ count = 0 /\ RuntimeIdle(doing, leased'))
    <2>1. /\ pending' = candidate /\ phase' = doing /\ activeRequests' = count
          /\ tracked' = unreleased /\ active' = active /\ generation' = generation
          /\ leaked' = leaked
      BY <1>2, Zenon DEF TryActivate
    <2>2. count \in 0 .. 2 * Cardinality(Requests)
      BY RequestSets
    <2>3. generation' + Staged(pending') <= generation + Staged(candidate)
      BY <2>1 DEF Staged
    <2> QED BY <2>1, <2>2, <2>3
  <1> QED BY <1>1, <1>2

LEMMA InitInv == Init => GenInv
  <1> SUFFICES ASSUME Init PROVE GenInv
    OBVIOUS
  <1>1. Cardinality({}) = 0 /\ Cardinality(Requests) \in Nat
    BY FS_EmptySet, RequestSets
  <1>2. TypeOK
    BY <1>1, GenerationAssumption DEF Init, TypeOK, Phases, Generations
  <1>3. /\ Tracks(phase, open, tracked)
        /\ Owns(phase, open, leased, run, generation)
    BY DEF Init, Tracks, Owns, Underway
  <1>4. EditsSuffice
    BY GenerationAssumption DEF Init, EditsSuffice, Due, Staged
  <1> QED BY <1>1, <1>2, <1>3, <1>4 DEF GenInv, Init

(* The steps of the watcher, and the timer. *)
LEMMA EditStep ==
  ASSUME GenInv, NEW content \in Revisions, Edit(content)
  PROVE  GenInv'
  <1>1. TypeOK'
    BY GenerationAssumption DEF GenInv, Edit, TypeOK, manager, requests, counts
  <1>2. EditsSuffice'
    BY DEF GenInv, EditsSuffice, Edit, Due, Staged, manager, TypeOK, Generations
  <1> QED BY <1>1, <1>2 DEF GenInv, Edit, manager, requests, counts

LEMMA CheckStep ==
  ASSUME GenInv, Check \/ PrepareFails
  PROVE  GenInv'
  <1>1. TypeOK'
    BY DEF GenInv, Check, PrepareFails, TypeOK, manager, requests, counts
  <1>2. EditsSuffice'
    BY GenerationAssumption
    DEF GenInv, EditsSuffice, Check, PrepareFails, Due, Staged, manager, TypeOK, Generations
  <1> QED BY <1>1, <1>2 DEF GenInv, Check, PrepareFails, manager, requests, counts

(* A step that stages or activates no more than was due. *)
LEMMA Counting ==
  ASSUME GenInv, edits' = edits, generation' \in Nat, Due \in Nat, Due' \in Nat,
         generation' + Staged(pending') + Due' <= generation + Staged(pending) + Due
  PROVE  EditsSuffice' /\ generation' \in Generations
  <1>1. Staged(pending) \in 0 .. 1 /\ Staged(pending') \in 0 .. 1
    BY DEF Staged
  <1>2. generation \in Nat /\ edits \in 0 .. MaxEdits /\ MaxEdits \in Nat
    BY GenerationAssumption DEF GenInv, TypeOK, Generations
  <1>3. EditsSuffice' <=> generation' + Staged(pending') + Due' <= edits
    BY DEF EditsSuffice, Staged
  <1> QED BY <1>1, <1>2, <1>3 DEF GenInv, EditsSuffice, Generations

LEMMA StageStep ==
  ASSUME GenInv, Stage
  PROVE  GenInv'
  <1>1. /\ preparing \in Revisions /\ seen' = preparing /\ preparing' = None
        /\ UNCHANGED <<disk, edits, open, leased, tries, route, run>>
        /\ TryActivate(preparing, phase, activeRequests, tracked)
    BY DEF Stage, GenInv, TypeOK
  <1>2. /\ pending' \in Revisions \cup {None} /\ active' \in Revisions
        /\ phase' \in [Requests -> Phases] /\ tracked' \subseteq Requests
        /\ leaked' \in 0 .. Cardinality(Requests)
        /\ activeRequests' \in 0 .. 2 * Cardinality(Requests)
        /\ activeRequests' = leaked' + Cardinality(tracked')
        /\ Tracks(phase', open', tracked')
        /\ Owns(phase', open', leased', run', generation')
        /\ generation' \in Nat
        /\ generation' + Staged(pending') <= generation + Staged(preparing)
    BY <1>1, TryActivateStep DEF GenInv, TypeOK, Generations
  <1>3. EditsSuffice' /\ generation' \in Generations
    <2>1. /\ preparing # None /\ Staged(preparing) = 1 /\ generation \in Nat
          /\ Staged(pending) \in 0 .. 1 /\ Staged(pending') \in 0 .. 1
      BY <1>1, GenerationAssumption DEF Staged, GenInv, TypeOK, Generations
    <2>2. Due' + 1 <= Due /\ Due' \in Nat /\ Due \in Nat
      BY <1>1, <2>1 DEF Due
    <2>3. generation' + Staged(pending') + Due' <= generation + Staged(pending) + Due
      <3>1. generation' + Staged(pending') <= generation + 1 /\ generation' \in Nat
        BY <1>2, <2>1
      <3>2. \A g, g2, d, d2 \in Nat : \A p, p2 \in 0 .. 1 :
               g2 + p2 <= g + 1 /\ d2 + 1 <= d => g2 + p2 + d2 <= g + p + d
        OBVIOUS
      <3> QED BY <2>1, <2>2, <3>1, <3>2, Zenon
    <2> QED BY <1>1, <1>2, <2>2, <2>3, Counting
  <1>4. TypeOK'
    BY <1>1, <1>2, <1>3 DEF GenInv, TypeOK
  <1> QED BY <1>2, <1>3, <1>4 DEF GenInv

(* A step of a request that ends with tryActivate, or could have. *)
LEMMA ActivationStep ==
  ASSUME GenInv, UNCHANGED <<watcher, leased, tries, route, run>>,
         open' \in [Requests -> BOOLEAN],
         NEW doing \in [Requests -> Phases], NEW unreleased, unreleased \subseteq Requests,
         Tracks(doing, open', unreleased),
         Owns(doing, open', leased, run, generation),
         TryActivate(pending, doing, leaked + Cardinality(unreleased), unreleased)
  PROVE  GenInv'
  <1>1. /\ pending' \in Revisions \cup {None} /\ active' \in Revisions
        /\ phase' \in [Requests -> Phases] /\ tracked' \subseteq Requests
        /\ leaked' \in 0 .. Cardinality(Requests)
        /\ activeRequests' \in 0 .. 2 * Cardinality(Requests)
        /\ activeRequests' = leaked' + Cardinality(tracked')
        /\ Tracks(phase', open', tracked')
        /\ Owns(phase', open', leased', run', generation')
        /\ generation' \in Nat
        /\ generation' + Staged(pending') <= generation + Staged(pending)
    BY TryActivateStep DEF GenInv, TypeOK, Generations
  <1>2. EditsSuffice' /\ generation' \in Generations
    <2>1. /\ Due' = Due /\ Due \in Nat /\ generation \in Nat
          /\ Staged(pending) \in 0 .. 1 /\ Staged(pending') \in 0 .. 1
      BY DEF Due, Staged, watcher, GenInv, TypeOK, Generations
    <2> QED BY <1>1, <2>1, Counting DEF watcher
  <1>3. TypeOK'
    BY <1>1, <1>2 DEF GenInv, TypeOK, watcher
  <1> QED BY <1>1, <1>2, <1>3 DEF GenInv

LEMMA TimerStep ==
  ASSUME GenInv, ActivationTimer
  PROVE  GenInv'
  <1>1. TryActivate(pending, phase, leaked + Cardinality(tracked), tracked)
    BY DEF ActivationTimer, GenInv
  <1> QED BY <1>1, ActivationStep DEF ActivationTimer, GenInv, TypeOK

(* A request that ends its response, by 'finish' or by 'close'. *)
LEMMA ReleaseStep ==
  ASSUME GenInv, UNCHANGED <<watcher, leased, tries, route, run>>,
         open' \in [Requests -> BOOLEAN], NEW r \in Requests,
         NEW doing \in [Requests -> Phases],
         Tracks(doing, open', tracked \ {r}),
         Owns(doing, open', leased, run, generation),
         Release(r, doing)
  PROVE  GenInv'
  <1>1. CASE r \in tracked
    <2>1. /\ Cardinality(tracked \ {r}) = Cardinality(tracked) - 1
          /\ Cardinality(tracked) \in Nat /\ Cardinality(tracked \ {r}) \in Nat
      BY <1>1, RequestSets, FS_RemoveElement DEF GenInv, TypeOK
    <2>2. /\ activeRequests > 0
          /\ activeRequests - 1 = leaked + Cardinality(tracked \ {r})
      BY <2>1 DEF GenInv, TypeOK
    <2>3. TryActivate(pending, doing, leaked + Cardinality(tracked \ {r}), tracked \ {r})
      BY <1>1, <2>2 DEF Release
    <2>4. tracked \ {r} \subseteq Requests
      BY DEF GenInv, TypeOK
    <2> QED BY <2>3, <2>4, ActivationStep
  <1>2. CASE r \notin tracked
    <2>1. phase' = doing /\ UNCHANGED <<manager, counts>> /\ tracked \ {r} = tracked
      BY <1>2 DEF Release
    <2>2. TypeOK'
      BY <2>1 DEF GenInv, TypeOK, watcher, manager, counts
    <2>3. EditsSuffice'
      BY <2>1 DEF GenInv, EditsSuffice, Due, Staged, watcher, manager
    <2> QED BY <2>1, <2>2, <2>3 DEF GenInv, manager, counts
  <1> QED BY <1>1, <1>2

LEMMA FinishStep ==
  ASSUME GenInv, NEW r \in Requests, Finish(r)
  PROVE  GenInv'
  <1> DEFINE doing == [phase EXCEPT ![r] = "finished"]
  <1>1. doing \in [Requests -> Phases] /\ open' = open
    BY DEF Finish, GenInv, TypeOK, Phases
  <1>2. Tracks(doing, open', tracked \ {r})
    BY <1>1 DEF GenInv, TypeOK, Tracks, Underway, Finish
  <1>3. Owns(doing, open', leased, run, generation)
    BY <1>1 DEF GenInv, TypeOK, Owns, Finish
  <1>4. open' \in [Requests -> BOOLEAN]
    BY <1>1 DEF GenInv, TypeOK
  <1> QED BY <1>1, <1>2, <1>3, <1>4, ReleaseStep DEF Finish

LEMMA CloseStep ==
  ASSUME GenInv, NEW r \in Requests, ClientClose(r)
  PROVE  GenInv'
  <1> DEFINE doing == [phase EXCEPT ![r] = AfterClose(@)]
  <1>1. /\ doing \in [Requests -> Phases] /\ open' = [open EXCEPT ![r] = FALSE]
        /\ open' \in [Requests -> BOOLEAN]
    BY DEF ClientClose, GenInv, TypeOK, Phases, AfterClose
  <1>2. Tracks(doing, open', tracked \ {r})
    BY <1>1 DEF GenInv, TypeOK, Tracks, Underway
  <1>3. Owns(doing, open', leased, run, generation)
    BY <1>1 DEF GenInv, TypeOK, Owns, AfterClose
  <1> QED BY <1>1, <1>2, <1>3, ReleaseStep DEF ClientClose

(* The other steps of a request leave the manager alone. *)
LEMMA QuietStep ==
  ASSUME GenInv, UNCHANGED <<watcher, manager>>, TypeOK',
         Tracks(phase', open', tracked'),
         Owns(phase', open', leased', run', generation),
         activeRequests' = leaked' + Cardinality(tracked')
  PROVE  GenInv'
  <1>1. EditsSuffice'
    BY DEF GenInv, EditsSuffice, Due, Staged, watcher, manager
  <1> QED BY <1>1 DEF GenInv, manager

LEMMA ArriveStep ==
  ASSUME GenInv, NEW r \in Requests, Arrive(r)
  PROVE  GenInv'
  <1>1. /\ phase[r] = "away" /\ open' = [open EXCEPT ![r] = TRUE]
        /\ route' = [route EXCEPT ![r] = generation]
        /\ UNCHANGED <<watcher, manager, leaked, leased, tries, run>>
    BY DEF Arrive
  <1>2. r \notin tracked
    BY <1>1 DEF GenInv, Tracks, Underway
  <1>3. CASE pending = None
    <2>1. /\ phase' = [phase EXCEPT ![r] = "reading"] /\ tracked' = tracked \cup {r}
          /\ activeRequests' = activeRequests + 1
      BY <1>3 DEF Arrive
    <2>2. /\ Cardinality(tracked') = Cardinality(tracked) + 1
          /\ Cardinality(tracked') \in 0 .. Cardinality(Requests)
          /\ Cardinality(tracked) \in Nat /\ tracked' \subseteq Requests
      <3>1. tracked \subseteq Requests /\ tracked' \subseteq Requests
        BY <2>1 DEF GenInv, TypeOK
      <3> QED BY <1>2, <2>1, <3>1, RequestSets, FS_AddElement
    <2>3. activeRequests' = leaked' + Cardinality(tracked')
      BY <1>1, <2>1, <2>2 DEF GenInv, TypeOK
    <2>4. activeRequests' \in 0 .. 2 * Cardinality(Requests)
      BY <1>1, <2>2, <2>3, RequestSets DEF GenInv, TypeOK
    <2>5. TypeOK'
      BY <1>1, <2>1, <2>2, <2>4 DEF GenInv, TypeOK, Phases, watcher, manager
    <2>6. /\ Tracks(phase', open', tracked')
          /\ Owns(phase', open', leased', run', generation)
      BY <1>1, <2>1 DEF GenInv, TypeOK, Tracks, Owns, Underway
    <2> QED BY <1>1, <2>3, <2>5, <2>6, QuietStep
  <1>4. CASE pending # None
    <2>1. phase' = [phase EXCEPT ![r] = "waiting"] /\ UNCHANGED <<tracked, activeRequests>>
      BY <1>4 DEF Arrive
    <2>2. TypeOK'
      BY <1>1, <2>1 DEF GenInv, TypeOK, Phases, watcher, manager
    <2>3. /\ Tracks(phase', open', tracked')
          /\ Owns(phase', open', leased', run', generation)
      BY <1>1, <1>2, <2>1 DEF GenInv, TypeOK, Tracks, Owns, Underway
    <2> QED BY <1>1, <2>1, <2>2, <2>3, QuietStep DEF GenInv
  <1> QED BY <1>3, <1>4

LEMMA GateTimeoutStep ==
  ASSUME GenInv, NEW r \in Requests, GateTimeout(r)
  PROVE  GenInv'
  <1>1. TypeOK'
    BY DEF GateTimeout, GenInv, TypeOK, Phases, watcher, manager, counts
  <1>2. /\ Tracks(phase', open', tracked')
        /\ Owns(phase', open', leased', run', generation)
    BY DEF GateTimeout, GenInv, TypeOK, Tracks, Owns, Underway, counts
  <1> QED BY <1>1, <1>2, QuietStep DEF GateTimeout, GenInv, counts

LEMMA ProceedStep ==
  ASSUME GenInv, NEW r \in Requests, Proceed(r)
  PROVE  GenInv'
  <1>1. CASE BeginDispatch(r)
    <2>1. TypeOK'
      BY <1>1, GenerationAssumption
      DEF BeginDispatch, GenInv, TypeOK, Phases, watcher, manager, counts
    <2>2. /\ Tracks(phase', open', tracked')
          /\ Owns(phase', open', leased', run', generation)
      BY <1>1 DEF BeginDispatch, GenInv, TypeOK, Tracks, Owns, Underway, counts
    <2> QED BY <1>1, <2>1, <2>2, QuietStep DEF BeginDispatch, GenInv, counts
  <1>2. CASE EnterLogical(r)
    <2>1. TypeOK'
      BY <1>2 DEF EnterLogical, GenInv, TypeOK, watcher, manager, counts
    <2>2. /\ Tracks(phase', open', tracked')
          /\ Owns(phase', open', leased', run', generation)
      BY <1>2 DEF EnterLogical, GenInv, TypeOK, Tracks, Owns, Underway, counts
    <2> QED BY <1>2, <2>1, <2>2, QuietStep DEF EnterLogical, GenInv, counts
  <1>3. CASE Pick(r)
    <2>1. TypeOK'
      BY <1>3, GenerationAssumption
      DEF Pick, MayTry, GenInv, TypeOK, Phases, watcher, manager, counts
    <2>2. /\ Tracks(phase', open', tracked')
          /\ Owns(phase', open', leased', run', generation)
      BY <1>3 DEF Pick, MayTry, GenInv, TypeOK, Tracks, Owns, Underway, counts
    <2> QED BY <1>3, <2>1, <2>2, QuietStep DEF Pick, GenInv, counts
  <1>4. CASE ReleaseSlot(r)
    <2>1. TypeOK'
      BY <1>4 DEF ReleaseSlot, GenInv, TypeOK, Phases, watcher, manager, counts
    <2>2. /\ Tracks(phase', open', tracked')
          /\ Owns(phase', open', leased', run', generation)
      BY <1>4 DEF ReleaseSlot, GenInv, TypeOK, Tracks, Owns, Underway, counts
    <2> QED BY <1>4, <2>1, <2>2, QuietStep DEF ReleaseSlot, GenInv, counts
  <1>5. CASE Reply(r) \/ Abandon(r)
    <2>1. TypeOK'
      BY <1>5 DEF Reply, Abandon, GenInv, TypeOK, Phases, watcher, manager, counts
    <2>2. /\ Tracks(phase', open', tracked')
          /\ Owns(phase', open', leased', run', generation)
      BY <1>5 DEF Reply, Abandon, GenInv, TypeOK, Tracks, Owns, Underway, counts
    <2> QED BY <1>5, <2>1, <2>2, QuietStep DEF Reply, Abandon, GenInv, counts
  <1> QED BY <1>1, <1>2, <1>3, <1>4, <1>5 DEF Proceed

LEMMA StepInv == GenInv /\ [Next]_vars => GenInv'
  <1> SUFFICES ASSUME GenInv, [Next]_vars PROVE GenInv'
    OBVIOUS
  <1>1. CASE \E content \in Revisions : Edit(content)
    BY <1>1, EditStep
  <1>2. CASE Watch
    BY <1>2, CheckStep, StageStep DEF Watch
  <1>3. CASE ActivationTimer
    BY <1>3, TimerStep
  <1>4. ASSUME NEW r \in Requests,
               Arrive(r) \/ GateTimeout(r) \/ Proceed(r) \/ Finish(r) \/ ClientClose(r)
        PROVE  GenInv'
    BY <1>4, ArriveStep, GateTimeoutStep, ProceedStep, FinishStep, CloseStep
  <1>5. CASE UNCHANGED vars
    BY <1>5 DEF vars, watcher, manager, requests, counts, GenInv, TypeOK, EditsSuffice,
                Due, Staged
  <1> QED BY <1>1, <1>2, <1>3, <1>4, <1>5 DEF Next

LEMMA GenInvAlways == Spec => []GenInv
  BY InitInv, StepInv, PTL DEF Spec

-----------------------------------------------------------------------------

\* Every variable of the activation keeps its type, and no more generations come
\* into force than the files were edited: a content that was staged is not staged
\* again until the files differ from it (runtime-config.mjs 142-170).
THEOREM GenerationTypeCorrect == Spec => []TypeOK
  <1>1. GenInv => TypeOK
    BY DEF GenInv
  <1> QED BY <1>1, GenInvAlways, PTL

\* No activation comes between the taking and the giving back of a slot or a
\* lease, for any number of requests and edits (runtime-generation.mjs,
\* gateway-request-handler.mjs).
THEOREM NoWorkAcrossActivation == Spec => []WorkOfOwnGeneration
  <1>1. GenInv => WorkOfOwnGeneration
    BY DEF GenInv, Owns, WorkOfOwnGeneration
  <1> QED BY <1>1, GenInvAlways, PTL

\* The counter of active requests counts each open response once, whatever order
\* 'finish', 'close', timeouts at the gate and activations come in.
THEOREM ActiveCountIsExact == Spec => []ActiveRequestsExact
  <1>1. ASSUME GenInv PROVE ActiveRequestsExact
    <2>1. tracked = {r \in Requests :
                       \/ open[r] /\ phase[r] \in {"reading", "queued", "sending"}
                       \/ phase[r] = "replied" /\ r \in tracked}
      BY <1>1 DEF GenInv, TypeOK, Tracks, Underway
    <2> QED BY <1>1, <2>1 DEF GenInv, ActiveRequestsExact
  <1> QED BY <1>1, GenInvAlways, PTL

-----------------------------------------------------------------------------
(* The store: the operations.                                              *)

(* Every operation of the console is one that the assumption on Changes      *)
(* allows: it writes what it says, and sets a credential only with its       *)
(* provider.                                                                 *)
LEMMA OperationsAreTargeted ==
  ASSUME NEW d \in Documents, NEW p \in Providers, NEW n \in Names, NEW m \in Models,
         NEW ms \in (SUBSET Models) \ {{}}, NEW join \in SUBSET Names,
         NEW on \in BOOLEAN, NEW key \in {"set", "clear", "keep"},
         NEW kind \in {"pooled", "alone"}
  PROVE  /\ Targeted(d, UpsertProvider(d, p, ms, on, join, key))
         /\ Targeted(d, RemoveProvider(d, p, on))
         /\ d.relays[p] # NoRelay => Targeted(d, SetProviderEnabled(d, p, on))
         /\ Targeted(d, UpsertLogicalModel(d, n, ms))
         /\ Targeted(d, UpsertRealModel(d, m, kind))
         /\ Targeted(d, RemoveLogicalModel(d, n))
         /\ Targeted(d, UpdateEnv(d, {Setting}, on))
  <1>1. d.relays \in Relays /\ d.models \in ModelDocs
    BY DEF Documents
  <1>2. Targeted(d, UpsertProvider(d, p, ms, on, join, key))
    <2> DEFINE empty  == [real |-> [q \in Models |-> "none"], logical |-> [q \in Names |-> {}]]
               relays == IF IsStarterRelays(d.relays) THEN [q \in Providers |-> NoRelay] ELSE d.relays
               models == IF IsStarterModels(d.models) THEN empty ELSE d.models
               added  == [real    |-> [q \in Models |-> IF q \in ms /\ models.real[q] = "none"
                                                        THEN "pooled" ELSE models.real[q]],
                          logical |-> [q \in Names |-> IF q \in join THEN models.logical[q] \cup ms
                                                       ELSE models.logical[q]]]
               entry  == [models |-> ms, on |-> on]
               after  == [relays EXCEPT ![p] = entry]
               ensured == EnsureAtLeastOneLogicalModel(added, ms)
    <2>1. relays \in Relays
      BY <1>1 DEF Relays
    <2>2. after \in Relays
      BY <2>1 DEF Relays
    <2>3. empty \in ModelDocs
      BY DEF ModelDocs
    <2>4. models \in ModelDocs
      BY <1>1, <2>3
    <2> HIDE DEF models, empty
    <2>5. added \in ModelDocs
      <3>1. models.real \in [Models -> {"none", "pooled", "alone"}]
            /\ models.logical \in [Names -> SUBSET Models]
        BY <2>4 DEF ModelDocs
      <3> QED BY <3>1 DEF ModelDocs
    <2> HIDE DEF added
    <2>6. ensured \in ModelDocs
      <3>1. {CHOOSE q \in ms : TRUE} \in SUBSET Models
        <4>1. PICK q : q \in ms
          OBVIOUS
        <4>2. (CHOOSE q0 \in ms : TRUE) \in ms
          BY <4>1
        <4> QED BY <4>2
      <3> DEFINE chosen == {CHOOSE q \in ms : TRUE}
      <3> HIDE DEF chosen
      <3>2. [added EXCEPT !.logical[Balanced] = chosen] \in ModelDocs
        BY <2>5, <3>1 DEF ModelDocs, chosen
      <3> QED BY <2>5, <3>2 DEF EnsureAtLeastOneLogicalModel, chosen
    <2>7. p \in Configured(after)
      <3>1. after[p] = entry
        BY <2>1 DEF Relays
      <3>2. entry # NoRelay
        BY OperatorConfigAssumption
      <3> QED BY <3>1, <3>2 DEF Configured
    <2>8. UpsertProvider(d, p, ms, on, join, key) =
            [parts |-> {"relays", "models"}, relays |-> after, models |-> ensured,
             set |-> IF key = "set" THEN {p} ELSE {}, clear |-> IF key = "clear" THEN {p} ELSE {}]
      BY DEF UpsertProvider, Change, added, models, empty
    <2> HIDE DEF after, ensured
    <2> QED BY <2>2, <2>6, <2>7, <2>8 DEF Targeted, Asked, EnvNames
  <1>3. Targeted(d, RemoveProvider(d, p, on))
    <2>1. [d.relays EXCEPT ![p] = NoRelay] \in Relays
      BY <1>1 DEF Relays
    <2> QED BY <1>1, <2>1 DEF RemoveProvider, Change, Targeted, Asked, EnvNames
  <1>4. ASSUME d.relays[p] # NoRelay
        PROVE  Targeted(d, SetProviderEnabled(d, p, on))
    <2>1. d.relays[p] \in [models : SUBSET Models, on : BOOLEAN]
      BY <1>1, <1>4 DEF Relays
    <2>2. [d.relays EXCEPT ![p].on = on] \in Relays
      <3>1. [d.relays[p] EXCEPT !.on = on] \in [models : SUBSET Models, on : BOOLEAN]
        BY <2>1
      <3> QED BY <1>1, <3>1 DEF Relays
    <2> QED BY <1>1, <2>2 DEF SetProviderEnabled, Change, Targeted, Asked, EnvNames
  <1>5. Targeted(d, UpsertLogicalModel(d, n, ms)) /\ Targeted(d, RemoveLogicalModel(d, n))
    <2>1. [d.models EXCEPT !.logical[n] = ms] \in ModelDocs
          /\ [d.models EXCEPT !.logical[n] = {}] \in ModelDocs
      BY <1>1 DEF ModelDocs
    <2> QED BY <1>1, <2>1 DEF UpsertLogicalModel, RemoveLogicalModel, Change, Targeted, Asked, EnvNames
  <1>6. Targeted(d, UpsertRealModel(d, m, kind))
    <2>1. [d.models EXCEPT !.real[m] = kind] \in ModelDocs
      BY <1>1 DEF ModelDocs
    <2> QED BY <1>1, <2>1 DEF UpsertRealModel, Change, Targeted, Asked, EnvNames
  <1>7. Targeted(d, UpdateEnv(d, {Setting}, on))
    BY <1>1, OperatorConfigAssumption DEF UpdateEnv, Change, Targeted, Asked, EnvNames
  <1> QED BY <1>2, <1>3, <1>4, <1>5, <1>6, <1>7

-----------------------------------------------------------------------------
(* Types, and who may be at work at the same time.                           *)

FileStores == [relays : Relays, models : ModelDocs, env : SUBSET EnvNames,
               backend : {"files", "sqlite"}]
Observations == [orphans : SUBSET Providers, want : Documents \cup {NoStore}, raced : BOOLEAN]

StoreTypes ==
    /\ files \in FileStores
    /\ db \in Registries \cup {NoStore}
    /\ mode \in {"files", "sqlite"}
    /\ admin \in Operations \cup {Idle}
    /\ cli \in Copies \cup {Idle}
    /\ observed \in Observations
    /\ mode = "sqlite" => db # NoStore
    /\ admin # Idle => IF admin.merged THEN mode = "sqlite" /\ admin.change \in Documents
                                       ELSE admin.change \in Asked
    /\ admin # Idle => up
    /\ cli # Idle => observed.want = NoStore
    /\ admin # Idle /\ cli # Idle => observed.raced

(* What the console reads are documents. *)
LEMMA StoredIsDocuments ==
  ASSUME StoreTypes
  PROVE  Stored \in Documents
  <1>1. CASE mode = "files"
    BY <1>1 DEF StoreTypes, Stored, Docs, FileStores, Documents
  <1>2. CASE mode = "sqlite"
    <2>1. db \in Registries
      BY <1>2 DEF StoreTypes
    <2> QED BY <1>2, <2>1 DEF Stored, Docs, Registries, Documents
  <1> QED BY <1>1, <1>2 DEF StoreTypes

(* The starter documents are documents that may be stored. *)
LEMMA StarterIsDocuments ==
  Starter \in Documents /\ Starter.relays \in Relays /\ Starter.models \in ModelDocs
  /\ Starter.env = {}
  BY OperatorConfigAssumption DEF Starter, Documents, Relays, ModelDocs

(* The types hold at the start. *)
LEMMA StoreTypesInit == StoreInit => StoreTypes
  <1> SUFFICES ASSUME StoreInit
               PROVE  StoreTypes
    OBVIOUS
  <1>1. files \in FileStores /\ files.backend \in {"files", "sqlite"}
    BY StarterIsDocuments DEF StoreInit, FileStores
  <1>2. mode = files.backend /\ admin = Idle /\ cli = Idle
        /\ observed = [orphans |-> {}, want |-> Starter, raced |-> FALSE]
    BY DEF StoreInit
  <1>3. observed \in Observations
    BY <1>2, StarterIsDocuments DEF Observations
  <1>4. CASE files.backend = "files"
    <2>1. db = NoStore
      BY <1>4 DEF StoreInit
    <2> QED BY <1>1, <1>2, <1>3, <1>4, <2>1 DEF StoreTypes
  <1>5. CASE files.backend = "sqlite"
    <2>1. db = [relays |-> Starter.relays, models |-> Starter.models, env |-> {}, revision |-> 1]
      BY <1>5 DEF StoreInit
    <2>2. db \in Registries
      BY <2>1, StarterIsDocuments DEF Registries
    <2> QED BY <1>1, <1>2, <1>3, <2>2, StoreAssumption DEF StoreTypes
  <1> QED BY <1>1, <1>4, <1>5

(* An operation that begins is one of those offered, on what the console     *)
(* reads.                                                                    *)
LEMMA BegunOperation ==
  ASSUME StoreTypes, AdminBegin
  PROVE  \E change \in Changes(Stored) :
            /\ Targeted(Stored, change)
            /\ ValidDocuments(change.relays, change.models)
            /\ admin' = [change |-> change, merged |-> FALSE,
                         left |-> change.parts \cup (IF change.set \cup change.clear = {}
                                                     THEN {} ELSE {"env"})]
            /\ admin' \in Operations /\ admin' # Idle
            /\ observed' \in Observations
            /\ observed'.want = IF cli = Idle THEN Result(change) ELSE NoStore
            /\ Result(change) \in Documents
            /\ observed'.raced = (observed.raced \/ cli # Idle)
            /\ observed'.orphans = observed.orphans \cup
                  ((Stored.env \cap Providers) \ Configured(change.relays))
  <1>1. PICK change \in Changes(Stored) :
           /\ ValidDocuments(change.relays, change.models)
           /\ admin' = [change |-> change, merged |-> FALSE,
                        left |-> change.parts \cup (IF change.set \cup change.clear = {}
                                                    THEN {} ELSE {"env"})]
           /\ observed' = [observed EXCEPT
                 !.want = IF cli = Idle THEN Result(change) ELSE NoStore,
                 !.raced = @ \/ cli # Idle,
                 !.orphans = @ \cup ((Stored.env \cap Providers) \ Configured(change.relays))]
    BY DEF AdminBegin
  <1>2. Stored \in Documents /\ Targeted(Stored, change) /\ change \in Asked
    BY StoredIsDocuments, StoreAssumption DEF Targeted
  <1>3. admin' \in Operations
    BY <1>1, <1>2 DEF Operations, Asked, Parts
  <1>4. Result(change) \in Documents
    BY <1>2 DEF Result, Documents, Asked
  <1>5. observed \in Observations /\ observed.raced \in BOOLEAN
    BY DEF StoreTypes, Observations
  <1>6. /\ observed'.want = IF cli = Idle THEN Result(change) ELSE NoStore
        /\ observed'.raced = (observed.raced \/ cli # Idle)
        /\ observed'.orphans = observed.orphans \cup
              ((Stored.env \cap Providers) \ Configured(change.relays))
    BY <1>1, <1>5 DEF Observations
  <1>7. observed' \in Observations
    <2> DEFINE want == IF cli = Idle THEN Result(change) ELSE NoStore
               raced == observed.raced \/ cli # Idle
               orphans == observed.orphans \cup
                  ((Stored.env \cap Providers) \ Configured(change.relays))
    <2>1. want \in Documents \cup {NoStore} /\ raced \in BOOLEAN
      BY <1>4, <1>5
    <2>2. orphans \in SUBSET Providers
      BY <1>5 DEF Observations
    <2>3. observed' = [observed EXCEPT !.want = want, !.raced = raced, !.orphans = orphans]
      BY <1>1, <1>5
    <2> HIDE DEF want, raced, orphans
    <2> QED BY <1>5, <2>1, <2>2, <2>3 DEF Observations
  <1> QED BY <1>1, <1>2, <1>3, <1>4, <1>6, <1>7, StoreAssumption

(* A run of config-storage.mjs that begins makes no promise about the store. *)
LEMMA RacedMeans ==
  ASSUME StoreTypes, observed' = Raced
  PROVE  /\ observed' \in Observations
         /\ observed'.want = NoStore
         /\ observed'.raced = (observed.raced \/ admin # Idle)
         /\ observed'.orphans = observed.orphans
  <1>1. observed \in Observations /\ (observed.raced \/ admin # Idle) \in BOOLEAN
    BY DEF StoreTypes, Observations
  <1> DEFINE raced == observed.raced \/ admin # Idle
  <1>2. observed' = [observed EXCEPT !.want = NoStore, !.raced = raced]
    BY <1>1 DEF Raced, StoreTypes
  <1>3. raced \in BOOLEAN
    BY <1>1
  <1> HIDE DEF raced
  <1>4. /\ observed' \in Observations /\ observed'.want = NoStore
        /\ observed'.raced = raced /\ observed'.orphans = observed.orphans
    BY <1>1, <1>2, <1>3 DEF Observations
  <1> QED BY <1>4 DEF raced

(* The parts are written one by one. *)
LEMMA NextPartIsOne ==
  ASSUME NEW left
  PROVE  /\ NextPart(left) \in Parts
         /\ NextPart(left) = "models" => "relays" \notin left
         /\ NextPart(left) = "env" => "relays" \notin left /\ "models" \notin left
  BY DEF NextPart, Parts

(* Every step keeps the types. *)
LEMMA StoreTypesStep == StoreTypes /\ [StoreNext]_storeVars => StoreTypes'
  <1> SUFFICES ASSUME StoreTypes, [StoreNext]_storeVars
               PROVE  StoreTypes'
    OBVIOUS
  <1>0. /\ files \in FileStores
        /\ db \in Registries \cup {NoStore}
        /\ mode \in {"files", "sqlite"}
        /\ admin \in Operations \cup {Idle}
        /\ cli \in Copies \cup {Idle}
        /\ observed \in Observations
    BY DEF StoreTypes
  <1>1. CASE AdminBegin
    <2>1. PICK change \in Changes(Stored) :
             /\ Targeted(Stored, change)
             /\ admin'.change = change /\ ~ admin'.merged
             /\ admin' \in Operations /\ admin' # Idle /\ observed' \in Observations
             /\ observed'.want = IF cli = Idle THEN Result(change) ELSE NoStore
             /\ observed'.raced = (observed.raced \/ cli # Idle)
      BY <1>1, BegunOperation
    <2>2. UNCHANGED <<files, db, mode, up, cli>> /\ up
      BY <1>1 DEF AdminBegin
    <2>3. cli' # Idle => observed'.want = NoStore /\ observed'.raced
      BY <2>1, <2>2
    <2> QED BY <1>0, <2>1, <2>2, <2>3 DEF StoreTypes, Targeted
  <1>2. CASE WriteFile
    <2> DEFINE part == NextPart(admin.left)
               c == admin.change
    <2>1. /\ UNCHANGED <<db, mode, up, cli, observed>> /\ up /\ admin # Idle /\ mode = "files"
          /\ files' = CASE part = "relays" -> [files EXCEPT !.relays = c.relays]
                        [] part = "models" -> [files EXCEPT !.models = c.models]
                        [] part = "env"    -> [files EXCEPT !.env = (@ \cup c.set) \ c.clear]
          /\ admin' = IF admin.left = {part} THEN Idle ELSE [admin EXCEPT !.left = @ \ {part}]
      BY <1>2 DEF WriteFile
    <2>2. admin \in Operations /\ ~ admin.merged /\ c \in Asked /\ admin.left \in SUBSET Parts
      BY <2>1 DEF StoreTypes, Operations
    <2>3. part \in {"relays", "models", "env"}
      BY <2>2, NextPartIsOne DEF Parts
    <2> HIDE DEF part
    <2>4. files' \in FileStores
      <3>1. CASE part = "relays"
        BY <1>0, <2>1, <2>2, <3>1 DEF FileStores, Asked
      <3>2. CASE part = "models"
        BY <1>0, <2>1, <2>2, <3>2 DEF FileStores, Asked
      <3>3. CASE part = "env"
        <4> DEFINE env == (files.env \cup c.set) \ c.clear
        <4>1. files' = [files EXCEPT !.env = env]
          BY <1>0, <2>1, <3>3
        <4>2. env \in SUBSET EnvNames
          BY <1>0, <2>2 DEF FileStores, Asked
        <4> HIDE DEF env, c
        <4> QED BY <1>0, <4>1, <4>2 DEF FileStores
      <3> QED BY <2>3, <3>1, <3>2, <3>3
    <2>5. \/ admin' = Idle
          \/ /\ admin' \in Operations /\ admin'.change = admin.change
             /\ admin'.merged = admin.merged
      <3>1. admin.left \ {part} \in SUBSET Parts
        BY <2>2
      <3> QED BY <2>1, <2>2, <3>1 DEF Operations
    <2> QED BY <1>0, <2>1, <2>2, <2>4, <2>5 DEF StoreTypes
  <1>3. CASE ReadRegistry
    <2>1. /\ UNCHANGED <<files, db, mode, up, cli, observed>> /\ up
          /\ admin # Idle /\ mode = "sqlite" /\ ~ admin.merged
          /\ admin' = [admin EXCEPT !.merged = TRUE, !.change = Merged(admin.change)]
      BY <1>3, <1>0 DEF ReadRegistry, Operations
    <2>2. admin \in Operations /\ admin.change \in Asked /\ db \in Registries
      BY <2>1 DEF StoreTypes
    <2>3. Merged(admin.change) \in Documents
      BY <2>2 DEF Merged, Documents, Asked, Registries
    <2> DEFINE merged == Merged(admin.change)
    <2>4. admin' \in Operations /\ admin'.merged /\ admin'.change = merged
      <3>1. admin' = [admin EXCEPT !.merged = TRUE, !.change = merged] /\ merged \in Documents
        BY <2>1, <2>3
      <3> HIDE DEF merged
      <3> QED BY <2>2, <3>1 DEF Operations
    <2> QED BY <1>0, <2>1, <2>3, <2>4 DEF StoreTypes
  <1>4. CASE ReplaceAll
    <2>1. /\ UNCHANGED <<files, mode, up, cli, observed>> /\ admin' = Idle
          /\ admin # Idle /\ admin.merged /\ mode = "sqlite"
          /\ db' = [relays |-> admin.change.relays, models |-> admin.change.models,
                    env |-> admin.change.env, revision |-> db.revision + 1]
      BY <1>4 DEF ReplaceAll
    <2>2. admin.change \in Documents /\ db \in Registries
      BY <2>1 DEF StoreTypes
    <2>3. db' \in Registries
      BY <2>1, <2>2 DEF Registries, Documents
    <2> QED BY <1>0, <2>1, <2>3, StoreAssumption DEF StoreTypes
  <1>5. CASE ImportBegin \/ ExportBegin
    <2>1. UNCHANGED <<files, db, mode, up, admin>> /\ observed' = Raced
      BY <1>5 DEF ImportBegin, ExportBegin
    <2>2. cli' \in Copies
      <3>1. CASE ImportBegin
        BY <1>0, <3>1 DEF ImportBegin, Copies, Docs, FileStores, Documents, Parts
      <3>2. CASE ExportBegin
        <4>1. db \in Registries
          BY <1>0, <3>2 DEF ExportBegin
        <4> QED BY <3>2, <4>1 DEF ExportBegin, Copies, Docs, Registries, Documents, Parts
      <3> QED BY <1>5, <3>1, <3>2
    <2>3. /\ observed' \in Observations /\ observed'.want = NoStore
          /\ observed'.raced = (observed.raced \/ admin # Idle)
      BY <2>1, RacedMeans
    <2>4. admin' # Idle => observed'.raced
      BY <2>1, <2>3
    <2> QED BY <1>0, <2>1, <2>2, <2>3, <2>4 DEF StoreTypes
  <1>6. CASE ImportStep
    <2>1. UNCHANGED <<mode, up, admin, observed>> /\ cli # Idle
      BY <1>6 DEF ImportStep
    <2>2. cli \in Copies
      BY <1>0, <2>1
    <2>3. db' \in Registries \cup {NoStore} /\ (db # NoStore => db' # NoStore)
      <3>1. CASE "registry" \in cli.left
        <4>1. db' = [relays |-> cli.docs.relays, models |-> cli.docs.models,
                     env |-> cli.docs.env,
                     revision |-> IF db = NoStore THEN 1 ELSE db.revision + 1]
          BY <1>6, <3>1 DEF ImportStep
        <4>2. (IF db = NoStore THEN 1 ELSE db.revision + 1) \in Nat
          BY <1>0 DEF Registries
        <4>3. db' \in Registries
          BY <2>2, <4>1, <4>2 DEF Registries, Copies, Documents
        <4> QED BY <4>3, StoreAssumption
      <3>2. CASE "registry" \notin cli.left
        BY <1>0, <1>6, <3>2 DEF ImportStep
      <3> QED BY <3>1, <3>2
    <2>4. files' \in FileStores
      BY <1>0, <1>6 DEF ImportStep, FileStores
    <2>5. cli' \in Copies \cup {Idle}
      <3>1. CASE "registry" \in cli.left
        <4>1. cli' = [cli EXCEPT !.left = {"env"}]
          BY <1>6, <3>1 DEF ImportStep, CliStep
        <4> QED BY <2>2, <4>1 DEF Copies, Parts
      <3>2. CASE "registry" \notin cli.left
        BY <1>6, <3>2 DEF ImportStep, CliStep
      <3> QED BY <3>1, <3>2
    <2> QED BY <1>0, <2>1, <2>3, <2>4, <2>5 DEF StoreTypes
  <1>7. CASE ExportStep
    <2> DEFINE part == NextPart(cli.left)
    <2>1. /\ UNCHANGED <<db, mode, up, admin, observed>> /\ cli # Idle
          /\ files' = CASE part = "relays" -> [files EXCEPT !.relays = cli.docs.relays]
                        [] part = "models" -> [files EXCEPT !.models = cli.docs.models]
                        [] part = "env"    -> [files EXCEPT !.env = cli.docs.env,
                                                            !.backend = "files"]
          /\ CliStep(cli.left \ {part})
      BY <1>7 DEF ExportStep
    <2>2. cli \in Copies /\ cli.left \in SUBSET (Parts \cup {"registry"}) /\ cli.docs \in Documents
      BY <1>0, <2>1 DEF Copies
    <2>3. part \in {"relays", "models", "env"}
      BY <2>2, NextPartIsOne DEF Parts
    <2> HIDE DEF part
    <2>4. files' \in FileStores
      <3>1. CASE part = "relays"
        BY <1>0, <2>1, <2>2, <3>1 DEF FileStores, Documents
      <3>2. CASE part = "models"
        BY <1>0, <2>1, <2>2, <3>2 DEF FileStores, Documents
      <3>3. CASE part = "env"
        BY <1>0, <2>1, <2>2, <3>3 DEF FileStores, Documents
      <3> QED BY <2>3, <3>1, <3>2, <3>3
    <2>5. cli' \in Copies \cup {Idle}
      <3>1. cli.left \ {part} \in SUBSET (Parts \cup {"registry"})
        BY <2>2
      <3> QED BY <2>1, <2>2, <3>1 DEF CliStep, Copies
    <2> QED BY <1>0, <2>1, <2>4, <2>5 DEF StoreTypes
  <1>8. CASE WatcherCheck \/ UNCHANGED storeVars
    <2>1. UNCHANGED <<files, db, mode, up, admin, cli, observed>>
      BY <1>8 DEF WatcherCheck, storeVars
    <2> QED BY <1>0, <2>1 DEF StoreTypes
  <1>9. CASE Crash
    <2>1. UNCHANGED <<files, db, mode, cli>> /\ admin' = Idle
          /\ observed' = IF admin = Idle THEN observed ELSE [observed EXCEPT !.want = NoStore]
      BY <1>9 DEF Crash
    <2>2. observed' \in Observations /\ (observed.want = NoStore => observed'.want = NoStore)
      BY <1>0, <2>1 DEF Observations
    <2> QED BY <1>0, <2>1, <2>2 DEF StoreTypes
  <1>10. CASE Start
    <2>1. UNCHANGED <<files, admin, cli>> /\ Boot(files, db)
          /\ observed' = IF mode' = mode THEN observed ELSE [observed EXCEPT !.want = NoStore]
      BY <1>10 DEF Start
    <2>a. admin = Idle
      BY <1>10 DEF Start, StoreTypes
    <2> DEFINE other == [observed EXCEPT !.want = NoStore]
    <2>b. other \in Observations /\ other.want = NoStore
      BY <1>0 DEF Observations
    <2>c. observed' = observed \/ observed' = other
      BY <2>1
    <2> HIDE DEF other
    <2>2. observed' \in Observations /\ (observed.want = NoStore => observed'.want = NoStore)
      BY <1>0, <2>b, <2>c
    <2>3. /\ mode' \in {"files", "sqlite"} /\ db' \in Registries \cup {NoStore}
          /\ mode' = "sqlite" => db' # NoStore
      <3>1. mode' = files.backend /\ files.backend \in {"files", "sqlite"}
        BY <1>0, <2>1 DEF Boot, FileStores
      <3>2. CASE files.backend = "sqlite" /\ db = NoStore
        <4>1. db' = [relays |-> files.relays, models |-> files.models, env |-> files.env,
                     revision |-> 1]
          BY <2>1, <3>2 DEF Boot
        <4>2. db' \in Registries
          BY <1>0, <4>1 DEF Registries, FileStores
        <4> QED BY <3>1, <4>2, StoreAssumption
      <3>3. CASE ~ (files.backend = "sqlite" /\ db = NoStore)
        <4>1. db' = db
          BY <2>1, <3>3 DEF Boot
        <4> QED BY <1>0, <3>1, <3>3, <4>1
      <3> QED BY <3>2, <3>3
    <2> QED BY <1>0, <2>1, <2>a, <2>2, <2>3 DEF StoreTypes
  <1> QED BY <1>1, <1>2, <1>3, <1>4, <1>5, <1>6, <1>7, <1>8, <1>9, <1>10 DEF StoreNext

-----------------------------------------------------------------------------
(* An operation under way keeps what it does not write.                      *)

\* Nobody else has been at the stores during the operation.
Alone == ~ observed.raced \/ observed.want # NoStore

TrackInv == admin # Idle /\ Alone =>
    /\ mode = "files" =>
          /\ "relays" \notin admin.left => files.relays = admin.change.relays
          /\ "models" \notin admin.left => files.models = admin.change.models
          /\ "env" \notin admin.left => admin.change.set \cup admin.change.clear = {}
    /\ mode = "sqlite" /\ ~ admin.merged =>
          /\ "relays" \notin admin.change.parts => db.relays = admin.change.relays
          /\ "models" \notin admin.change.parts => db.models = admin.change.models

(* What the console reads, document by document. *)
LEMMA StoredParts ==
  /\ mode = "files" => Stored.relays = files.relays /\ Stored.models = files.models
                       /\ Stored.env = files.env
  /\ mode # "files" => Stored.relays = db.relays /\ Stored.models = db.models
                       /\ Stored.env = db.env
  BY DEF Stored, Docs

(* One access of an operation to the files. *)
LEMMA WrittenFile ==
  ASSUME StoreTypes, WriteFile
  PROVE  LET part == NextPart(admin.left)
             c    == admin.change
         IN  /\ admin # Idle /\ mode = "files" /\ ~ admin.merged
             /\ UNCHANGED <<db, mode, up, cli, observed>>
             /\ files'.relays = IF part = "relays" THEN c.relays ELSE files.relays
             /\ files'.models = IF part = "models" THEN c.models ELSE files.models
             /\ files'.env = IF part = "env" THEN (files.env \cup c.set) \ c.clear ELSE files.env
             /\ \/ admin' = Idle /\ admin.left = {part}
                \/ /\ admin' # Idle /\ admin'.change = c /\ admin'.merged = admin.merged
                   /\ admin'.left = admin.left \ {part}
                   /\ part = "env" => "env" \notin admin.left
  <1> DEFINE part == NextPart(admin.left)
             c == admin.change
  <1>1. /\ admin # Idle /\ mode = "files" /\ UNCHANGED <<db, mode, up, cli, observed>>
        /\ files' = CASE part = "relays" -> [files EXCEPT !.relays = c.relays]
                      [] part = "models" -> [files EXCEPT !.models = c.models]
                      [] part = "env"    -> [files EXCEPT !.env = (@ \cup c.set) \ c.clear]
        /\ admin' = IF admin.left = {part} THEN Idle ELSE [admin EXCEPT !.left = @ \ {part}]
    BY DEF WriteFile
  <1>2. files \in FileStores /\ admin \in Operations /\ ~ admin.merged /\ admin.left \in SUBSET Parts
    BY <1>1 DEF StoreTypes, Operations
  <1>3. /\ part \in {"relays", "models", "env"}
        /\ part = "env" => "relays" \notin admin.left /\ "models" \notin admin.left
    BY NextPartIsOne DEF Parts
  <1> HIDE DEF part
  <1>4. /\ files'.relays = IF part = "relays" THEN c.relays ELSE files.relays
        /\ files'.models = IF part = "models" THEN c.models ELSE files.models
        /\ files'.env = IF part = "env" THEN (files.env \cup c.set) \ c.clear ELSE files.env
    BY <1>1, <1>2, <1>3 DEF FileStores
  <1>5. CASE admin.left = {part}
    BY <1>1, <1>2, <1>4, <1>5 DEF part
  <1>6. CASE admin.left # {part}
    <2>1. admin' = [admin EXCEPT !.left = admin.left \ {part}]
      BY <1>1, <1>2, <1>6 DEF Operations
    <2>2. admin' \in Operations /\ admin'.change = c /\ admin'.merged = admin.merged
          /\ admin'.left = admin.left \ {part}
      BY <1>2, <2>1 DEF Operations
    <2>3. part = "env" => "env" \notin admin.left
      BY <1>2, <1>3, <1>6 DEF Parts
    <2> QED BY <1>1, <1>2, <1>4, <2>2, <2>3, StoreAssumption DEF part
  <1> QED BY <1>5, <1>6

(* Whatever begins or works beside an operation has raced with it. *)
LEMMA CliRaces ==
  ASSUME StoreTypes, ImportBegin \/ ExportBegin \/ ImportStep \/ ExportStep
  PROVE  /\ UNCHANGED admin
         /\ observed'.want = NoStore
         /\ admin # Idle => observed'.raced
  <1>1. CASE ImportBegin \/ ExportBegin
    <2>1. UNCHANGED admin /\ observed' = Raced
      BY <1>1 DEF ImportBegin, ExportBegin
    <2> QED BY <2>1, RacedMeans
  <1>2. CASE ImportStep \/ ExportStep
    <2>1. UNCHANGED <<admin, observed>> /\ cli # Idle
      BY <1>2 DEF ImportStep, ExportStep
    <2> QED BY <2>1 DEF StoreTypes
  <1> QED BY <1>1, <1>2

(* Nothing is under way at the start. *)
LEMMA TrackInit == StoreInit => TrackInv
  BY DEF StoreInit, TrackInv

(* Every step keeps what is not written. *)
LEMMA TrackStep == StoreTypes /\ TrackInv /\ [StoreNext]_storeVars => TrackInv'
  <1> SUFFICES ASSUME StoreTypes, TrackInv, [StoreNext]_storeVars
               PROVE  TrackInv'
    OBVIOUS
  <1>1. CASE AdminBegin
    <2>1. PICK change \in Changes(Stored) :
             /\ Targeted(Stored, change)
             /\ admin' = [change |-> change, merged |-> FALSE,
                          left |-> change.parts \cup (IF change.set \cup change.clear = {}
                                                      THEN {} ELSE {"env"})]
      BY <1>1, BegunOperation
    <2>2. UNCHANGED <<files, db, mode>>
      BY <1>1 DEF AdminBegin
    <2>3. /\ "relays" \notin change.parts => change.relays = Stored.relays
          /\ "models" \notin change.parts => change.models = Stored.models
      BY <2>1 DEF Targeted
    <2>4. /\ admin'.change = change
          /\ admin'.left = change.parts \cup (IF change.set \cup change.clear = {}
                                              THEN {} ELSE {"env"})
      BY <2>1
    <2>5. mode \in {"files", "sqlite"}
      BY DEF StoreTypes
    <2> QED BY <2>2, <2>3, <2>4, <2>5, StoredParts DEF TrackInv
  <1>2. CASE WriteFile
    <2> DEFINE part == NextPart(admin.left)
               c == admin.change
    <2>1. SUFFICES ASSUME admin' # Idle, Alone'
                   PROVE  TrackInv'
      BY DEF TrackInv
    <2>2. /\ admin # Idle /\ mode = "files" /\ mode' = mode /\ observed' = observed
          /\ files'.relays = IF part = "relays" THEN c.relays ELSE files.relays
          /\ files'.models = IF part = "models" THEN c.models ELSE files.models
          /\ admin'.change = c /\ admin'.left = admin.left \ {part}
          /\ part = "env" => "env" \notin admin.left
      BY <1>2, <2>1, WrittenFile
    <2>3. Alone
      BY <2>1, <2>2 DEF Alone
    <2> HIDE DEF part
    <2> QED BY <2>2, <2>3 DEF TrackInv
  <1>3. CASE ReadRegistry
    <2>1. mode = "sqlite" /\ mode' = mode /\ admin # Idle
          /\ admin' = [admin EXCEPT !.merged = TRUE, !.change = Merged(@)]
      BY <1>3 DEF ReadRegistry
    <2>2. admin'.merged
      BY <2>1 DEF StoreTypes, Operations
    <2> QED BY <2>1, <2>2 DEF TrackInv
  <1>4. CASE ReplaceAll \/ Crash
    BY <1>4 DEF ReplaceAll, Crash, TrackInv
  <1>5. CASE ImportBegin \/ ExportBegin \/ ImportStep \/ ExportStep
    BY <1>5, CliRaces DEF TrackInv, Alone
  <1>6. CASE WatcherCheck \/ UNCHANGED storeVars
    BY <1>6 DEF WatcherCheck, storeVars, TrackInv, Alone
  <1>7. CASE Start
    <2>1. admin' = Idle
      BY <1>7 DEF Start, StoreTypes
    <2> QED BY <2>1 DEF TrackInv
  <1> QED BY <1>1, <1>2, <1>3, <1>4, <1>5, <1>6, <1>7 DEF StoreNext

-----------------------------------------------------------------------------
(* The store is what the operations have made of it.                         *)

\* The env document an operation changes.
EnvNow == IF mode = "files" THEN files.env ELSE db.env

WantInv == observed.want # NoStore =>
    /\ admin = Idle => Stored = observed.want
    /\ admin # Idle =>
          /\ observed.want.relays = admin.change.relays
          /\ observed.want.models = admin.change.models
          /\ observed.want.env = IF admin.merged THEN admin.change.env
                                 ELSE (EnvNow \cup admin.change.set) \ admin.change.clear

(* The documents of a fresh installation are the ones stored at the start. *)
LEMMA WantInit == StoreInit => WantInv
  <1> SUFFICES ASSUME StoreInit
               PROVE  WantInv
    OBVIOUS
  <1>1. /\ admin = Idle /\ observed.want = Starter
        /\ files.relays = Starter.relays /\ files.models = Starter.models /\ files.env = {}
        /\ files.backend \in {"files", "sqlite"} /\ mode = files.backend
    BY DEF StoreInit
  <1>2. mode = "sqlite" => /\ db.relays = Starter.relays /\ db.models = Starter.models
                           /\ db.env = {}
    BY <1>1 DEF StoreInit
  <1>3. Starter = [relays |-> Starter.relays, models |-> Starter.models, env |-> {}]
    BY DEF Starter
  <1> QED BY <1>1, <1>2, <1>3 DEF WantInv, Stored, Docs

(* Documents are what they hold. *)
LEMMA SameDocuments ==
  ASSUME NEW d \in Documents, NEW relays, NEW models, NEW env,
         d.relays = relays, d.models = models, d.env = env
  PROVE  [relays |-> relays, models |-> models, env |-> env] = d
  BY DEF Documents

(* Every step keeps the store what the operations have made of it. *)
LEMMA WantStep == StoreTypes /\ TrackInv /\ WantInv /\ [StoreNext]_storeVars => WantInv'
  <1> SUFFICES ASSUME StoreTypes, TrackInv, WantInv, [StoreNext]_storeVars
               PROVE  WantInv'
    OBVIOUS
  <1>0. mode \in {"files", "sqlite"} /\ observed \in Observations
        /\ (observed.want # NoStore => observed.want \in Documents)
    BY DEF StoreTypes, Observations
  <1>1. CASE AdminBegin
    <2>1. PICK change \in Changes(Stored) :
             /\ admin' = [change |-> change, merged |-> FALSE,
                          left |-> change.parts \cup (IF change.set \cup change.clear = {}
                                                      THEN {} ELSE {"env"})]
             /\ admin' # Idle
             /\ observed'.want = IF cli = Idle THEN Result(change) ELSE NoStore
      BY <1>1, BegunOperation
    <2>2. UNCHANGED <<files, db, mode>>
      BY <1>1 DEF AdminBegin
    <2>3. admin'.change = change /\ ~ admin'.merged
      BY <2>1
    <2>4. EnvNow' = Stored.env
      BY <2>2, StoredParts DEF EnvNow
    <2>5. /\ Result(change).relays = change.relays /\ Result(change).models = change.models
          /\ Result(change).env = (Stored.env \cup change.set) \ change.clear
      BY DEF Result
    <2> QED BY <2>1, <2>3, <2>4, <2>5 DEF WantInv
  <1>2. CASE WriteFile
    <2> DEFINE part == NextPart(admin.left)
               c == admin.change
    <2>1. SUFFICES ASSUME observed'.want # NoStore
                   PROVE  WantInv'
      BY DEF WantInv
    <2>2. /\ admin # Idle /\ mode = "files" /\ mode' = mode /\ observed' = observed
          /\ ~ admin.merged
          /\ files'.relays = IF part = "relays" THEN c.relays ELSE files.relays
          /\ files'.models = IF part = "models" THEN c.models ELSE files.models
          /\ files'.env = IF part = "env" THEN (files.env \cup c.set) \ c.clear ELSE files.env
          /\ \/ admin' = Idle /\ admin.left = {part}
             \/ /\ admin' # Idle /\ admin'.change = c /\ admin'.merged = admin.merged
                /\ part = "env" => "env" \notin admin.left
      BY <1>2, WrittenFile
    <2>3. /\ observed.want \in Documents
          /\ observed.want.relays = c.relays /\ observed.want.models = c.models
          /\ observed.want.env = (files.env \cup c.set) \ c.clear
      BY <1>0, <2>1, <2>2 DEF WantInv, EnvNow
    <2>4. /\ "relays" \notin admin.left => files.relays = c.relays
          /\ "models" \notin admin.left => files.models = c.models
          /\ "env" \notin admin.left => c.set \cup c.clear = {}
      BY <2>1, <2>2 DEF TrackInv, Alone
    <2> HIDE DEF part, c
    <2>5. CASE admin' = Idle /\ admin.left = {part}
      <3>1. files'.relays = c.relays /\ files'.models = c.models
            /\ files'.env = (files.env \cup c.set) \ c.clear
        BY <2>2, <2>4, <2>5
      <3>2. Stored' = [relays |-> files'.relays, models |-> files'.models, env |-> files'.env]
        BY <2>2 DEF Stored, Docs
      <3>3. Stored' = observed.want
        BY <2>3, <3>1, <3>2, SameDocuments
      <3> QED BY <2>2, <2>5, <3>3 DEF WantInv
    <2>6. CASE admin' # Idle /\ admin'.change = c /\ admin'.merged = admin.merged
               /\ (part = "env" => "env" \notin admin.left)
      <3>1. files'.env = files.env
        BY <2>2, <2>4, <2>6
      <3> QED BY <2>2, <2>3, <2>6, <3>1 DEF WantInv, EnvNow
    <2> QED BY <2>2, <2>5, <2>6
  <1>3. CASE ReadRegistry
    <2>1. SUFFICES ASSUME observed'.want # NoStore
                   PROVE  WantInv'
      BY DEF WantInv
    <2>2. /\ admin # Idle /\ mode = "sqlite" /\ ~ admin.merged /\ observed' = observed
          /\ admin' = [admin EXCEPT !.merged = TRUE, !.change = Merged(@)]
      BY <1>3 DEF ReadRegistry
    <2>3. admin \in Operations
      BY <2>2 DEF StoreTypes
    <2>4. admin'.merged /\ admin'.change = Merged(admin.change)
      BY <2>2, <2>3 DEF Operations
    <2>5. admin' # Idle
      <3>2. Merged(admin.change) \in Documents
        <4>1. db \in Registries /\ admin.change \in Asked
          BY <2>2 DEF StoreTypes
        <4> QED BY <4>1 DEF Merged, Documents, Asked, Registries
      <3>3. admin' \in Operations
        BY <2>2, <2>3, <3>2 DEF Operations
      <3> QED BY <3>3, StoreAssumption
    <2>6. /\ "relays" \notin admin.change.parts => db.relays = admin.change.relays
          /\ "models" \notin admin.change.parts => db.models = admin.change.models
      BY <2>1, <2>2 DEF TrackInv, Alone
    <2>7. /\ Merged(admin.change).relays = admin.change.relays
          /\ Merged(admin.change).models = admin.change.models
          /\ Merged(admin.change).env = (db.env \cup admin.change.set) \ admin.change.clear
      BY <2>6 DEF Merged
    <2>8. /\ observed.want.relays = admin.change.relays
          /\ observed.want.models = admin.change.models
          /\ observed.want.env = (db.env \cup admin.change.set) \ admin.change.clear
      BY <2>1, <2>2 DEF WantInv, EnvNow
    <2> QED BY <2>2, <2>4, <2>5, <2>7, <2>8 DEF WantInv
  <1>4. CASE ReplaceAll
    <2>1. SUFFICES ASSUME observed'.want # NoStore
                   PROVE  WantInv'
      BY DEF WantInv
    <2>2. /\ admin # Idle /\ mode = "sqlite" /\ mode' = mode /\ admin.merged
          /\ observed' = observed /\ admin' = Idle
          /\ db' = [relays |-> admin.change.relays, models |-> admin.change.models,
                    env |-> admin.change.env, revision |-> db.revision + 1]
      BY <1>4 DEF ReplaceAll
    <2>3. /\ observed.want \in Documents
          /\ observed.want.relays = admin.change.relays
          /\ observed.want.models = admin.change.models
          /\ observed.want.env = admin.change.env
      BY <1>0, <2>1, <2>2 DEF WantInv
    <2>4. Stored' = [relays |-> admin.change.relays, models |-> admin.change.models,
                     env |-> admin.change.env]
      BY <2>2 DEF Stored, Docs
    <2>5. Stored' = observed.want
      BY <2>3, <2>4, SameDocuments
    <2> QED BY <2>2, <2>5 DEF WantInv
  <1>5. CASE ImportBegin \/ ExportBegin \/ ImportStep \/ ExportStep
    BY <1>5, CliRaces DEF WantInv
  <1>6. CASE WatcherCheck \/ UNCHANGED storeVars
    <2>1. UNCHANGED <<files, db, mode, admin, observed>>
      BY <1>6 DEF WatcherCheck, storeVars
    <2> QED BY <2>1 DEF WantInv, Stored, Docs, EnvNow
  <1>7. CASE Crash
    <2>1. UNCHANGED <<files, db, mode>> /\ admin' = Idle
          /\ observed' = IF admin = Idle THEN observed ELSE [observed EXCEPT !.want = NoStore]
      BY <1>7 DEF Crash
    <2>2. CASE admin = Idle
      BY <2>1, <2>2 DEF WantInv, Stored, Docs
    <2>3. CASE admin # Idle
      <3>1. observed'.want = NoStore
        BY <1>0, <2>1, <2>3 DEF Observations
      <3> QED BY <3>1 DEF WantInv
    <2> QED BY <2>2, <2>3
  <1>8. CASE Start
    <2>1. UNCHANGED <<files, admin>> /\ Boot(files, db)
          /\ observed' = IF mode' = mode THEN observed ELSE [observed EXCEPT !.want = NoStore]
      BY <1>8 DEF Start
    <2>2. admin = Idle
      BY <1>8 DEF Start, StoreTypes
    <2>3. CASE mode' = mode
      <3>1. observed' = observed
        BY <2>1, <2>3
      <3>2. mode = "sqlite" => db' = db
        BY <2>1, <2>3 DEF Boot, StoreTypes
      <3>3. Stored' = Stored
        BY <1>0, <2>1, <2>3, <3>2 DEF Stored, Docs
      <3> QED BY <2>1, <2>2, <3>1, <3>3 DEF WantInv
    <2>4. CASE mode' # mode
      <3>1. observed' = [observed EXCEPT !.want = NoStore]
        BY <2>1, <2>4
      <3>2. observed'.want = NoStore
        BY <1>0, <3>1 DEF Observations
      <3> QED BY <3>2 DEF WantInv
    <2> QED BY <2>3, <2>4
  <1> QED BY <1>1, <1>2, <1>3, <1>4, <1>5, <1>6, <1>7, <1>8 DEF StoreNext

(* For every set of providers, models and operations, whatever the console   *)
(* has acknowledged is stored, whole, and no operation undoes another, with  *)
(* crashes and restarts anywhere; a run of config-storage.mjs excepted.      *)
THEOREM NoUpdateIsLost == StoreSpec => []NoUpdateLost
  <1>1. WantInv => NoUpdateLost
    BY DEF WantInv, NoUpdateLost
  <1>2. StoreSpec => [](StoreTypes /\ TrackInv /\ WantInv)
    BY StoreTypesInit, StoreTypesStep, TrackInit, TrackStep, WantInit, WantStep, PTL DEF StoreSpec
  <1> QED BY <1>1, <1>2, PTL

-----------------------------------------------------------------------------
(* What is stored can be loaded.                                             *)

\* Documents the loader takes, but for credentials of providers removed.
Fine(relays, models, env, orphans) ==
    /\ ValidDocuments(relays, models)
    /\ (env \cap Providers) \ Configured(relays) \subseteq orphans

LoadInv == ~ observed.raced =>
    /\ db # NoStore => Fine(db.relays, db.models, db.env, observed.orphans)
    /\ cli = Idle \/ cli.kind = "import" =>
          Fine(files.relays, files.models, files.env, observed.orphans)
    /\ cli # Idle => Fine(cli.docs.relays, cli.docs.models, cli.docs.env, observed.orphans)
    /\ cli # Idle /\ cli.kind = "export" =>
          /\ db # NoStore
          /\ cli.left \subseteq Parts /\ "env" \in cli.left
          /\ "relays" \notin cli.left => files.relays = cli.docs.relays
          /\ "models" \notin cli.left => files.models = cli.docs.models
    /\ admin # Idle =>
          IF admin.merged
          THEN Fine(admin.change.relays, admin.change.models, admin.change.env, observed.orphans)
          ELSE /\ Fine(admin.change.relays, admin.change.models, EnvNow, observed.orphans)
               /\ admin.change.set \cap Providers \subseteq Configured(admin.change.relays)

(* The conditions on relays and on models do not meet, and the orphans only  *)
(* become more.                                                              *)
LEMMA FineParts ==
  ASSUME NEW relays, NEW models, NEW env, NEW orphans,
         NEW relays2, NEW models2, NEW env2, NEW more,
         Fine(relays, models, env, orphans), orphans \subseteq more
  PROVE  /\ Fine(relays, models, env, more)
         /\ ValidDocuments(relays2, models2) => ValidDocuments(relays2, models)
                                             /\ ValidDocuments(relays, models2)
  BY DEF Fine, ValidDocuments

(* A credential that is set has its provider, and one that is cleared is no  *)
(* orphan.                                                                   *)
LEMMA FineEnv ==
  ASSUME NEW relays, NEW models, NEW env, NEW orphans, NEW set, NEW clear,
         Fine(relays, models, env, orphans), set \cap Providers \subseteq Configured(relays)
  PROVE  Fine(relays, models, (env \cup set) \ clear, orphans)
  BY DEF Fine

(* The starter can be loaded. *)
LEMMA StarterLoads == ValidDocuments(Starter.relays, Starter.models)
  <1> DEFINE relays == [p \in Providers |-> IF p = Example
                             THEN [models |-> {ExampleModel}, on |-> FALSE] ELSE NoRelay]
             real == [m \in Models |-> IF m = ExampleModel THEN "pooled" ELSE "none"]
             logical == [n \in Names |-> IF n = Balanced THEN {ExampleModel} ELSE {}]
             models == [real |-> real, logical |-> logical]
  <1>1. Starter.relays = relays /\ Starter.models = models
    BY DEF Starter
  <1>2. \A p \in Configured(relays) : relays[p].models # {}
    BY DEF Configured
  <1>3. /\ ExampleModel \in Known(models) /\ Balanced \in Logicals(models)
        /\ \A n \in Names : \A m \in models.logical[n] : models.real[m] = "pooled"
    BY OperatorConfigAssumption DEF Known, Logicals
  <1> QED BY <1>1, <1>2, <1>3 DEF ValidDocuments

(* What is stored at the start can be loaded. *)
LEMMA LoadInit == StoreInit => LoadInv
  <1> SUFFICES ASSUME StoreInit
               PROVE  LoadInv
    OBVIOUS
  <1>1. /\ admin = Idle /\ cli = Idle
        /\ files.relays = Starter.relays /\ files.models = Starter.models /\ files.env = {}
        /\ files.backend \in {"files", "sqlite"}
    BY DEF StoreInit
  <1>2. db # NoStore => db.relays = Starter.relays /\ db.models = Starter.models /\ db.env = {}
    BY <1>1 DEF StoreInit
  <1>3. Fine(Starter.relays, Starter.models, {}, observed.orphans)
    BY StarterLoads DEF Fine
  <1> QED BY <1>1, <1>2, <1>3 DEF LoadInv

(* Every step keeps what is stored loadable. *)
LEMMA LoadStep == StoreTypes /\ TrackInv /\ LoadInv /\ [StoreNext]_storeVars => LoadInv'
  <1> SUFFICES ASSUME StoreTypes, TrackInv, LoadInv, [StoreNext]_storeVars, ~ observed'.raced
               PROVE  LoadInv'
    BY DEF LoadInv
  <1>0. mode \in {"files", "sqlite"} /\ observed \in Observations
    BY DEF StoreTypes
  <1>1. CASE AdminBegin
    <2>1. PICK change \in Changes(Stored) :
             /\ Targeted(Stored, change)
             /\ ValidDocuments(change.relays, change.models)
             /\ admin'.change = change /\ ~ admin'.merged
             /\ observed'.raced = (observed.raced \/ cli # Idle)
             /\ observed'.orphans = observed.orphans \cup
                   ((Stored.env \cap Providers) \ Configured(change.relays))
      BY <1>1, BegunOperation
    <2>2. UNCHANGED <<files, db, mode, cli>>
      BY <1>1 DEF AdminBegin
    <2>3. ~ observed.raced /\ cli = Idle /\ cli' = Idle
      BY <2>1, <2>2
    <2>4. observed.orphans \subseteq observed'.orphans
      BY <2>1
    <2>5. /\ db' # NoStore => Fine(db'.relays, db'.models, db'.env, observed'.orphans)
          /\ Fine(files'.relays, files'.models, files'.env, observed'.orphans)
      BY <2>2, <2>3, <2>4 DEF LoadInv, Fine
    <2>6. EnvNow' = Stored.env
      BY <2>2, StoredParts DEF EnvNow
    <2>7. Fine(change.relays, change.models, EnvNow', observed'.orphans)
      BY <2>1, <2>6 DEF Fine
    <2>8. change.set \cap Providers \subseteq Configured(change.relays)
      BY <2>1 DEF Targeted
    <2> QED BY <2>1, <2>3, <2>5, <2>7, <2>8 DEF LoadInv
  <1>2. CASE WriteFile
    <2> DEFINE part == NextPart(admin.left)
               c == admin.change
    <2>1. /\ admin # Idle /\ mode = "files" /\ ~ admin.merged
          /\ UNCHANGED <<db, mode, cli, observed>>
          /\ files'.relays = IF part = "relays" THEN c.relays ELSE files.relays
          /\ files'.models = IF part = "models" THEN c.models ELSE files.models
          /\ files'.env = IF part = "env" THEN (files.env \cup c.set) \ c.clear ELSE files.env
          /\ \/ admin' = Idle
             \/ admin' # Idle /\ admin'.change = c /\ admin'.merged = admin.merged
      BY <1>2, WrittenFile
    <2>2. cli = Idle /\ ~ observed.raced /\ observed'.orphans = observed.orphans
      BY <2>1 DEF StoreTypes
    <2>3. /\ Fine(files.relays, files.models, files.env, observed.orphans)
          /\ Fine(c.relays, c.models, files.env, observed.orphans)
          /\ c.set \cap Providers \subseteq Configured(c.relays)
          /\ db # NoStore => Fine(db.relays, db.models, db.env, observed.orphans)
      BY <2>1, <2>2 DEF LoadInv, EnvNow
    <2>4. part = "env" => files.relays = c.relays /\ files.models = c.models
      <3>1. "relays" \notin admin.left => files.relays = c.relays
        BY <2>1, <2>2 DEF TrackInv, Alone
      <3>2. "models" \notin admin.left => files.models = c.models
        BY <2>1, <2>2 DEF TrackInv, Alone
      <3> QED BY <3>1, <3>2, NextPartIsOne
    <2>5. part \in {"relays", "models", "env"}
      BY NextPartIsOne DEF Parts
    <2>6. Fine(c.relays, c.models, (files.env \cup c.set) \ c.clear, observed.orphans)
      BY <2>3, FineEnv
    <2> HIDE DEF part, c
    <2>7. Fine(files'.relays, files'.models, files'.env, observed.orphans)
          /\ Fine(c.relays, c.models, files'.env, observed.orphans)
      <3>1. CASE part = "relays"
        <4>1. files'.relays = c.relays /\ files'.models = files.models /\ files'.env = files.env
          BY <2>1, <3>1
        <4>2. ValidDocuments(c.relays, files.models)
          BY <2>3, FineParts DEF Fine
        <4> QED BY <2>3, <4>1, <4>2 DEF Fine
      <3>2. CASE part = "models"
        <4>1. files'.relays = files.relays /\ files'.models = c.models /\ files'.env = files.env
          BY <2>1, <3>2
        <4>2. ValidDocuments(files.relays, c.models)
          BY <2>3, FineParts DEF Fine
        <4> QED BY <2>3, <4>1, <4>2 DEF Fine
      <3>3. CASE part = "env"
        <4>1. files'.relays = c.relays /\ files'.models = c.models
              /\ files'.env = (files.env \cup c.set) \ c.clear
          BY <2>1, <2>4, <3>3
        <4> QED BY <2>6, <4>1
      <3> QED BY <2>5, <3>1, <3>2, <3>3
    <2> QED BY <2>1, <2>2, <2>3, <2>7 DEF LoadInv, EnvNow, c
  <1>3. CASE ReadRegistry
    <2>1. /\ admin # Idle /\ mode = "sqlite" /\ ~ admin.merged
          /\ UNCHANGED <<files, db, mode, cli, observed>>
          /\ admin' = [admin EXCEPT !.merged = TRUE, !.change = Merged(@)]
      BY <1>3 DEF ReadRegistry
    <2>2. admin \in Operations
      BY <2>1 DEF StoreTypes
    <2>3. admin'.merged /\ admin'.change = Merged(admin.change)
      BY <2>1, <2>2 DEF Operations
    <2>4. /\ Fine(admin.change.relays, admin.change.models, db.env, observed.orphans)
          /\ admin.change.set \cap Providers \subseteq Configured(admin.change.relays)
      BY <2>1 DEF LoadInv, EnvNow
    <2>5. /\ "relays" \notin admin.change.parts => db.relays = admin.change.relays
          /\ "models" \notin admin.change.parts => db.models = admin.change.models
      BY <2>1 DEF TrackInv, Alone
    <2>6. /\ Merged(admin.change).relays = admin.change.relays
          /\ Merged(admin.change).models = admin.change.models
          /\ Merged(admin.change).env = (db.env \cup admin.change.set) \ admin.change.clear
      BY <2>5 DEF Merged
    <2>7. Fine(admin.change.relays, admin.change.models,
               (db.env \cup admin.change.set) \ admin.change.clear, observed.orphans)
      BY <2>4, FineEnv
    <2> QED BY <2>1, <2>3, <2>6, <2>7 DEF LoadInv
  <1>4. CASE ReplaceAll
    <2>1. /\ admin # Idle /\ admin.merged /\ admin' = Idle
          /\ UNCHANGED <<files, cli, observed>>
          /\ db' = [relays |-> admin.change.relays, models |-> admin.change.models,
                    env |-> admin.change.env, revision |-> db.revision + 1]
      BY <1>4 DEF ReplaceAll
    <2>2. /\ db'.relays = admin.change.relays /\ db'.models = admin.change.models
          /\ db'.env = admin.change.env
      BY <2>1
    <2>3. Fine(admin.change.relays, admin.change.models, admin.change.env, observed.orphans)
      BY <2>1 DEF LoadInv
    <2>4. cli = Idle
      BY <2>1 DEF StoreTypes
    <2> QED BY <2>1, <2>2, <2>3, <2>4 DEF LoadInv
  <1>5. CASE ImportBegin \/ ExportBegin
    <2>1. UNCHANGED <<files, db, admin>> /\ observed' = Raced /\ cli = Idle
      BY <1>5 DEF ImportBegin, ExportBegin
    <2>2. observed'.raced = (observed.raced \/ admin # Idle)
          /\ observed'.orphans = observed.orphans
      BY <2>1, RacedMeans
    <2>3. ~ observed.raced /\ admin = Idle
      BY <2>2
    <2>4. Fine(files.relays, files.models, files.env, observed.orphans)
          /\ (db # NoStore => Fine(db.relays, db.models, db.env, observed.orphans))
      BY <2>1, <2>3 DEF LoadInv
    <2>5. CASE ImportBegin
      <3>1. cli'.kind = "import" /\ cli'.docs = Docs(files)
        BY <2>5 DEF ImportBegin
      <3> QED BY <2>1, <2>2, <2>3, <2>4, <3>1 DEF LoadInv, Docs
    <2>6. CASE ExportBegin
      <3>1. cli'.kind = "export" /\ cli'.docs = Docs(db) /\ db # NoStore
            /\ cli'.left = {"relays", "models", "env"}
        BY <2>6 DEF ExportBegin
      <3>2. cli' # Idle
        <4>2. cli' = [kind |-> "export", docs |-> Docs(db), left |-> {"relays", "models", "env"}]
          BY <2>6 DEF ExportBegin
        <4>3. Docs(db) \in Documents
          BY <3>1 DEF StoreTypes, Registries, Docs, Documents
        <4>4. cli' \in Copies
          BY <4>2, <4>3 DEF Copies, Parts
        <4> QED BY <4>4, StoreAssumption
      <3> QED BY <2>1, <2>2, <2>3, <2>4, <3>1, <3>2 DEF LoadInv, Docs, Parts
    <2> QED BY <1>5, <2>5, <2>6
  <1>6. CASE ImportStep
    <2>1. UNCHANGED <<admin, observed>> /\ cli # Idle /\ cli.kind = "import"
      BY <1>6 DEF ImportStep
    <2>2. ~ observed.raced /\ admin = Idle /\ cli \in Copies
      BY <2>1 DEF StoreTypes
    <2>3. /\ Fine(files.relays, files.models, files.env, observed.orphans)
          /\ Fine(cli.docs.relays, cli.docs.models, cli.docs.env, observed.orphans)
          /\ db # NoStore => Fine(db.relays, db.models, db.env, observed.orphans)
      BY <2>1, <2>2 DEF LoadInv
    <2>4. CASE "registry" \in cli.left
      <3>1. files' = files /\ cli' = [cli EXCEPT !.left = {"env"}]
            /\ db'.relays = cli.docs.relays /\ db'.models = cli.docs.models
            /\ db'.env = cli.docs.env
        BY <1>6, <2>4 DEF ImportStep, CliStep
      <3>2. cli'.kind = "import" /\ cli'.docs = cli.docs
        BY <2>1, <2>2, <3>1 DEF Copies
      <3> QED BY <2>1, <2>2, <2>3, <3>1, <3>2 DEF LoadInv
    <2>5. CASE "registry" \notin cli.left
      <3>1. files' = [files EXCEPT !.backend = "sqlite"] /\ db' = db /\ cli' = Idle
        BY <1>6, <2>5 DEF ImportStep, CliStep
      <3>2. files'.relays = files.relays /\ files'.models = files.models /\ files'.env = files.env
        BY <3>1 DEF StoreTypes, FileStores
      <3> QED BY <2>1, <2>2, <2>3, <3>1, <3>2 DEF LoadInv
    <2> QED BY <2>4, <2>5
  <1>7. CASE ExportStep
    <2> DEFINE part == NextPart(cli.left)
    <2>1. /\ UNCHANGED <<db, admin, observed>> /\ cli # Idle /\ cli.kind = "export"
          /\ files' = CASE part = "relays" -> [files EXCEPT !.relays = cli.docs.relays]
                        [] part = "models" -> [files EXCEPT !.models = cli.docs.models]
                        [] part = "env"    -> [files EXCEPT !.env = cli.docs.env,
                                                            !.backend = "files"]
          /\ CliStep(cli.left \ {part})
      BY <1>7 DEF ExportStep
    <2>2. ~ observed.raced /\ admin = Idle /\ cli \in Copies /\ files \in FileStores
      BY <2>1 DEF StoreTypes
    <2>3. /\ Fine(cli.docs.relays, cli.docs.models, cli.docs.env, observed.orphans)
          /\ db # NoStore /\ Fine(db.relays, db.models, db.env, observed.orphans)
          /\ cli.left \subseteq Parts /\ "env" \in cli.left
          /\ "relays" \notin cli.left => files.relays = cli.docs.relays
          /\ "models" \notin cli.left => files.models = cli.docs.models
      BY <2>1, <2>2 DEF LoadInv
    <2>4. /\ part \in {"relays", "models", "env"}
          /\ part = "models" => "relays" \notin cli.left
          /\ part = "env" => "relays" \notin cli.left /\ "models" \notin cli.left
      BY NextPartIsOne DEF Parts
    <2>5. /\ files'.relays = IF part = "relays" THEN cli.docs.relays ELSE files.relays
          /\ files'.models = IF part = "models" THEN cli.docs.models ELSE files.models
          /\ files'.env = IF part = "env" THEN cli.docs.env ELSE files.env
      <3> HIDE DEF part
      <3> QED BY <2>1, <2>2, <2>4 DEF FileStores
    <2>6. CASE cli.left \ {part} = {}
      <3>1. cli' = Idle
        BY <2>1, <2>6 DEF CliStep
      <3>2. part = "env"
        BY <2>3, <2>6
      <3>3. files'.relays = cli.docs.relays /\ files'.models = cli.docs.models
            /\ files'.env = cli.docs.env
        BY <2>3, <2>4, <2>5, <3>2
      <3> QED BY <2>1, <2>2, <2>3, <3>1, <3>3 DEF LoadInv
    <2>7. CASE cli.left \ {part} # {}
      <3>1. cli' = [cli EXCEPT !.left = cli.left \ {part}]
        BY <2>1, <2>7 DEF CliStep
      <3>2. cli'.kind = "export" /\ cli'.docs = cli.docs /\ cli'.left = cli.left \ {part}
        BY <2>1, <2>2, <3>1 DEF Copies
      <3>3. /\ "relays" \notin cli'.left => files'.relays = cli.docs.relays
            /\ "models" \notin cli'.left => files'.models = cli.docs.models
        BY <2>3, <2>5, <3>2
      <3>4. cli'.left \subseteq Parts /\ "env" \in cli'.left
        <4>1. part # "env"
          BY <2>3, <2>4, <2>7 DEF Parts
        <4> QED BY <2>3, <3>2, <4>1
      <3>5. cli' # Idle
        <4>2. cli' \in Copies
          BY <2>2, <3>1 DEF Copies
        <4> QED BY <4>2, StoreAssumption
      <3> QED BY <2>1, <2>2, <2>3, <3>2, <3>3, <3>4, <3>5 DEF LoadInv
    <2> QED BY <2>6, <2>7
  <1>8. CASE WatcherCheck \/ UNCHANGED storeVars
    <2>1. UNCHANGED <<files, db, mode, admin, cli, observed>>
      BY <1>8 DEF WatcherCheck, storeVars
    <2> QED BY <2>1 DEF LoadInv, EnvNow
  <1>9. CASE Crash
    <2>1. UNCHANGED <<files, db, cli>> /\ admin' = Idle
          /\ observed' = IF admin = Idle THEN observed ELSE [observed EXCEPT !.want = NoStore]
      BY <1>9 DEF Crash
    <2>2. observed'.raced = observed.raced /\ observed'.orphans = observed.orphans
      BY <1>0, <2>1 DEF Observations
    <2> QED BY <2>1, <2>2 DEF LoadInv
  <1>10. CASE Start
    <2>1. UNCHANGED <<files, cli, admin>> /\ Boot(files, db)
          /\ observed' = IF mode' = mode THEN observed ELSE [observed EXCEPT !.want = NoStore]
      BY <1>10 DEF Start
    <2>2. admin = Idle
      BY <1>10 DEF Start, StoreTypes
    <2>3. observed'.raced = observed.raced /\ observed'.orphans = observed.orphans
      <3> DEFINE other == [observed EXCEPT !.want = NoStore]
      <3>1. other.raced = observed.raced /\ other.orphans = observed.orphans
        BY <1>0 DEF Observations
      <3>2. observed' = observed \/ observed' = other
        BY <2>1
      <3> HIDE DEF other
      <3> QED BY <3>1, <3>2
    <2>4. \/ db' = db
          \/ /\ db = NoStore /\ db'.relays = files.relays /\ db'.models = files.models
             /\ db'.env = files.env
      BY <2>1 DEF Boot
    <2>5. cli = Idle \/ cli.kind \in {"import", "export"}
      BY DEF StoreTypes, Copies
    <2>6. CASE db' = db
      BY <2>1, <2>2, <2>3, <2>6 DEF LoadInv
    <2>7. CASE /\ db = NoStore /\ db'.relays = files.relays /\ db'.models = files.models
               /\ db'.env = files.env
      <3>1. cli = Idle \/ cli.kind = "import"
        BY <2>3, <2>5, <2>7 DEF LoadInv
      <3> QED BY <2>1, <2>2, <2>3, <2>7, <3>1 DEF LoadInv
    <2> QED BY <2>4, <2>6, <2>7
  <1> QED BY <1>1, <1>2, <1>3, <1>4, <1>5, <1>6, <1>7, <1>8, <1>9, <1>10 DEF StoreNext

(* For every set of providers, models and operations, what the console has   *)
(* stored, or a crash has left of it, are documents the loader takes, but    *)
(* for credentials of providers that were removed.                           *)
THEOREM StoreAlwaysLoads == StoreSpec => []StoreLoads
  <1>1. StoreTypes /\ LoadInv => StoreLoads
    <2> SUFFICES ASSUME StoreTypes, LoadInv, cli = Idle, ~ observed.raced
                 PROVE  /\ ValidDocuments(Stored.relays, Stored.models)
                        /\ (Stored.env \cap Providers) \ Configured(Stored.relays)
                              \subseteq observed.orphans
      BY DEF StoreLoads
    <2>1. Fine(files.relays, files.models, files.env, observed.orphans)
          /\ (db # NoStore => Fine(db.relays, db.models, db.env, observed.orphans))
      BY DEF LoadInv
    <2>2. mode = "files" \/ (mode = "sqlite" /\ db # NoStore)
      BY DEF StoreTypes
    <2> QED BY <2>1, <2>2, StoredParts DEF Fine
  <1>2. StoreSpec => [](StoreTypes /\ TrackInv /\ LoadInv)
    BY StoreTypesInit, StoreTypesStep, TrackInit, TrackStep, LoadInit, LoadStep, PTL DEF StoreSpec
  <1> QED BY <1>1, <1>2, PTL
================================================================================
