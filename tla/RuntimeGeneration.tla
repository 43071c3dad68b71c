------------------------- MODULE RuntimeGeneration -------------------------
(***************************************************************************)
(* How a changed configuration replaces the running one.  A watcher reads  *)
(* the files, the candidate is prepared and staged, and the swap waits     *)
(* until no tracked response is open, no key slot is taken and no logical  *)
(* lease is held; while it waits, new requests wait at a gate.             *)
(*                                                                         *)
(* An action is one turn of the event loop: whatever a callback runs       *)
(* synchronously, and the promise continuations it wakes, are one step.    *)
(* What a request does with its key is the subject of KeyPool; here it     *)
(* only holds a slot or does not.                                          *)
(***************************************************************************)
EXTENDS Integers, FiniteSets

CONSTANTS
    Requests,   \* identities of connections, each carrying one request at a time
    Logical,    \* those that ask for a logical model
    Revisions,  \* contents the configuration files may have
    Broken,     \* contents the loader rejects
    First,      \* the content at startup
    None,
    MaxEdits,   \* bound of the edits of the files
    MaxTries    \* attempts of one dispatch

ASSUME GenerationAssumption ==
    /\ IsFiniteSet(Requests)
    /\ Logical \subseteq Requests
    /\ Broken \subseteq Revisions
    /\ First \in Revisions \ Broken
    /\ None \notin Revisions
    /\ MaxEdits \in Nat
    /\ MaxTries \in Nat

VARIABLES
    disk,            \* content of the configuration files
    edits,           \* edits so far
    seen,            \* revision the watcher handled last
    preparing,       \* candidate being prepared, None if no check is under way
    pending,         \* candidate staged for activation, or None
    active,          \* revision in force
    generation,      \* number of activations so far
    phase,           \* request |-> what it is doing
    open,            \* request |-> its client is connected
    tracked,         \* requests whose tracked response has not been released
    activeRequests,  \* the counter of tracked responses
    leaked,          \* responses tracked after their client had gone
    leased,          \* requests that hold a logical lease
    tries,           \* request |-> attempts of its dispatch
    route,           \* request |-> generation its route was matched in
    run              \* request |-> generation its dispatch began in

watcher  == <<disk, edits, seen, preparing>>
manager  == <<pending, active, generation>>
counts   == <<tracked, activeRequests, leaked>>
requests == <<phase, open, counts, leased, tries, route, run>>
vars     == <<watcher, manager, requests>>

Phases == {"away",      \* no request
           "waiting",   \* at the gate
           "reading",   \* its body
           "queued",    \* dispatched, between two attempts
           "sending",   \* an attempt holds a key slot
           "replied",   \* response ended, 'finish' not yet emitted
           "finished"}  \* 'finish' emitted, 'close' not yet

Generations == 0 .. MaxEdits

TypeOK ==
    /\ disk \in Revisions
    /\ edits \in 0 .. MaxEdits
    /\ seen \in Revisions
    /\ preparing \in Revisions \cup {None}
    /\ pending \in Revisions \cup {None}
    /\ active \in Revisions
    /\ generation \in Generations
    /\ phase \in [Requests -> Phases]
    /\ open \in [Requests -> BOOLEAN]
    /\ tracked \subseteq Requests
    /\ activeRequests \in 0 .. 2 * Cardinality(Requests)
    /\ leaked \in 0 .. Cardinality(Requests)
    /\ leased \subseteq Logical
    /\ tries \in [Requests -> 0 .. MaxTries]
    /\ route \in [Requests -> Generations]
    /\ run \in [Requests -> Generations]

-----------------------------------------------------------------------------
(* Activation.                                                             *)

\* Mutant: leases of logical requests do not count.
RuntimeIdleSlotsOnly(doing, leases) == \A r \in Requests : doing[r] # "sending"

\* runtimeIdle, of what the requests are doing in the course of a step.
RuntimeIdle(doing, leases) ==
    /\ \A r \in Requests : doing[r] # "sending"
    /\ leases = {}

\* tryActivate at the end of a step that leaves this candidate, these requests
\* doing this, this counter and these unreleased responses.  An activation wakes
\* the gate, and every woken request is tracked.  The response of a client that
\* has gone never emits 'finish' or 'close' again, and its body never ends.
TryActivate(candidate, doing, count, unreleased) ==
    IF candidate # None /\ count = 0 /\ RuntimeIdle(doing, leased')
    THEN LET woken == {r \in Requests : doing[r] = "waiting"}
             gone  == {r \in woken : ~ open'[r]}
         IN  /\ pending' = None
             /\ active' = candidate
             /\ generation' = generation + 1
             /\ phase' = [r \in Requests |->
                             IF r \in gone THEN "away"
                             ELSE IF r \in woken THEN "reading" ELSE doing[r]]
             /\ activeRequests' = count + Cardinality(woken)
             /\ tracked' = unreleased \cup (woken \ gone)
             /\ leaked' = leaked + Cardinality(gone)
    ELSE /\ pending' = candidate
         /\ phase' = doing
         /\ activeRequests' = count
         /\ tracked' = unreleased
         /\ UNCHANGED <<active, generation, leaked>>

\* Mutant: 'finish' and 'close' both count the response down.
ReleaseTwice(r, doing) ==
    TryActivate(pending, doing, IF activeRequests > 0 THEN activeRequests - 1 ELSE 0,
                tracked \ {r})

\* The callback of trackResponse, on the first of 'finish' and 'close'; a
\* response that is not tracked has no callback.
Release(r, doing) ==
    IF r \in tracked
    THEN TryActivate(pending, doing, IF activeRequests > 0 THEN activeRequests - 1 ELSE 0,
                     tracked \ {r})
    ELSE /\ phase' = doing
         /\ UNCHANGED <<manager, counts>>

\* The 100 ms timer, and the reload of the admin console.
ActivationTimer ==
    /\ pending # None
    /\ UNCHANGED <<watcher, open, leased, tries, route, run>>
    /\ TryActivate(pending, phase, activeRequests, tracked)

-----------------------------------------------------------------------------
(* The watcher.                                                            *)

Edit(content) ==
    /\ edits < MaxEdits
    /\ content # disk
    /\ disk' = content
    /\ edits' = edits + 1
    /\ UNCHANGED <<seen, preparing, manager, requests>>

\* check: one at a time; a content the loader rejects leaves no trace.
Check ==
    /\ preparing = None
    /\ disk \notin Broken \cup {seen}
    /\ preparing' = disk
    /\ UNCHANGED <<disk, edits, seen, manager, requests>>

\* stage, once the candidate is prepared: it replaces the one pending, if any.
Stage ==
    /\ preparing # None
    /\ seen' = preparing
    /\ preparing' = None
    /\ UNCHANGED <<disk, edits, open, leased, tries, route, run>>
    /\ TryActivate(preparing, phase, activeRequests, tracked)

\* Its egress could not be prepared; the next check starts over.
PrepareFails ==
    /\ preparing # None
    /\ preparing' = None
    /\ UNCHANGED <<disk, edits, seen, manager, requests>>

-----------------------------------------------------------------------------
(* Requests.                                                               *)

\* The route is matched; then the gate, open unless a candidate is pending.
Arrive(r) ==
    /\ phase[r] = "away"
    /\ open' = [open EXCEPT ![r] = TRUE]
    /\ route' = [route EXCEPT ![r] = generation]
    /\ IF pending = None
       THEN /\ phase' = [phase EXCEPT ![r] = "reading"]
            /\ tracked' = tracked \cup {r}
            /\ activeRequests' = activeRequests + 1
       ELSE /\ phase' = [phase EXCEPT ![r] = "waiting"]
            /\ UNCHANGED <<tracked, activeRequests>>
    /\ UNCHANGED <<watcher, manager, leaked, leased, tries, run>>

\* Ten seconds at the gate: an answer that is never tracked.
GateTimeout(r) ==
    /\ phase[r] = "waiting"
    /\ phase' = [phase EXCEPT ![r] = IF open[r] THEN "replied" ELSE "away"]
    /\ UNCHANGED <<watcher, manager, open, counts, leased, tries, route, run>>

\* The body is complete: the dispatch takes the runtime as it is now.
BeginDispatch(r) ==
    /\ phase[r] = "reading"
    /\ phase' = [phase EXCEPT ![r] = "queued"]
    /\ run' = [run EXCEPT ![r] = generation]
    /\ tries' = [tries EXCEPT ![r] = 0]
    /\ UNCHANGED <<watcher, manager, open, counts, leased, route>>

\* scheduler.enter, at once or after waiting for admission.
EnterLogical(r) ==
    /\ phase[r] = "queued"
    /\ open[r]
    /\ r \in Logical \ leased
    /\ leased' = leased \cup {r}
    /\ UNCHANGED <<watcher, manager, phase, open, counts, tries, route, run>>

\* The head of the loop: a client that has gone ends it.
MayTry(r) == open[r] /\ tries[r] < MaxTries /\ (r \in Logical => r \in leased)

\* A key is picked and the request sent.
Pick(r) ==
    /\ phase[r] = "queued"
    /\ MayTry(r)
    /\ phase' = [phase EXCEPT ![r] = "sending"]
    /\ tries' = [tries EXCEPT ![r] = @ + 1]
    /\ UNCHANGED <<watcher, manager, open, counts, leased, route, run>>

\* The upstream answered, failed, or was aborted: the slot is given back.
ReleaseSlot(r) ==
    /\ phase[r] = "sending"
    /\ phase' = [phase EXCEPT ![r] = "queued"]
    /\ UNCHANGED <<watcher, manager, open, counts, leased, tries, route, run>>

\* An answer of any kind: a refusal before the dispatch, a result, or none left
\* to try.  A lease is given back in the same stretch.
Reply(r) ==
    /\ phase[r] \in {"reading", "queued"}
    /\ open[r]
    /\ phase' = [phase EXCEPT ![r] = "replied"]
    /\ leased' = leased \ {r}
    /\ UNCHANGED <<watcher, manager, open, counts, tries, route, run>>

\* The loop finds its client gone.
Abandon(r) ==
    /\ phase[r] = "queued"
    /\ ~ open[r]
    /\ phase' = [phase EXCEPT ![r] = "away"]
    /\ leased' = leased \ {r}
    /\ UNCHANGED <<watcher, manager, open, counts, tries, route, run>>

\* 'finish' of the response.
Finish(r) ==
    /\ phase[r] = "replied"
    /\ UNCHANGED <<watcher, open, leased, tries, route, run>>
    /\ Release(r, [phase EXCEPT ![r] = "finished"])

\* What remains of a request when its response closes: nothing to wait for at
\* the end, a read that fails, a dispatch that has yet to notice.
AfterClose(p) == IF p \in {"reading", "replied", "finished"} THEN "away" ELSE p

\* Mutant: only 'finish' is listened to.
ClientCloseUnheard(r) ==
    /\ phase[r] # "away"
    /\ open[r]
    /\ open' = [open EXCEPT ![r] = FALSE]
    /\ phase' = [phase EXCEPT ![r] = AfterClose(@)]
    /\ UNCHANGED <<watcher, manager, counts, leased, tries, route, run>>

\* 'close' of the response: after 'finish', or because the client has gone.
ClientClose(r) ==
    /\ phase[r] # "away"
    /\ open[r]
    /\ open' = [open EXCEPT ![r] = FALSE]
    /\ UNCHANGED <<watcher, leased, tries, route, run>>
    /\ Release(r, [phase EXCEPT ![r] = AfterClose(@)])

-----------------------------------------------------------------------------
Init ==
    /\ disk = First /\ seen = First /\ active = First
    /\ edits = 0 /\ generation = 0
    /\ preparing = None /\ pending = None
    /\ phase = [r \in Requests |-> "away"]
    /\ open = [r \in Requests |-> FALSE]
    /\ tracked = {} /\ activeRequests = 0 /\ leaked = 0 /\ leased = {}
    /\ tries = [r \in Requests |-> 0]
    /\ route = [r \in Requests |-> 0]
    /\ run = [r \in Requests |-> 0]

Watch == Check \/ Stage \/ PrepareFails

\* What a request does of its own accord once it is past the gate.
Proceed(r) ==
    \/ BeginDispatch(r) \/ EnterLogical(r) \/ Pick(r) \/ ReleaseSlot(r)
    \/ Reply(r) \/ Abandon(r)

Next ==
    \/ \E content \in Revisions : Edit(content)
    \/ Watch
    \/ ActivationTimer
    \/ \E r \in Requests :
          Arrive(r) \/ GateTimeout(r) \/ Proceed(r) \/ Finish(r) \/ ClientClose(r)

\* The timers run, preparing succeeds sooner or later, a dispatch has a deadline,
\* and a client reads its answer or disconnects.
Fairness ==
    /\ WF_vars(Check)
    /\ WF_vars(ActivationTimer)
    /\ WF_vars(Watch)
    /\ SF_vars(Stage)
    /\ \A r \in Requests :
          /\ WF_vars(Proceed(r))
          /\ WF_vars(GateTimeout(r))
          /\ WF_vars(phase[r] = "replied" /\ (Finish(r) \/ ClientClose(r)))
          /\ WF_vars(phase[r] = "finished" /\ ClientClose(r))

Spec == Init /\ [][Next]_vars
FairSpec == Spec /\ Fairness

-----------------------------------------------------------------------------
(* Properties.                                                             *)

\* A key slot is an index into the pool of the generation that picked it, and
\* releaseKey gives back the index; a logical lease is counted by the scheduler
\* of the generation that granted the policy.  No activation happens between the
\* taking and the giving back of either, not even after the client has gone.
WorkOfOwnGeneration ==
    \A r \in Requests : (phase[r] = "sending" \/ r \in leased) => run[r] = generation

\* The counter that holds back activation counts each open response once: not
\* again after 'finish' when 'close' follows, not never.
ActiveRequestsExact ==
    activeRequests = leaked + Cardinality({r \in Requests :
        \/ open[r] /\ phase[r] \in {"reading", "queued", "sending"}
        \/ phase[r] = "replied" /\ r \in tracked})

\* A valid configuration that stays on disk comes into force, whatever requests
\* arrive and however clients behave, as long as none leaves at the gate.
LatestRevisionActivates ==
    [](leaked = 0) =>
        \A content \in Revisions \ Broken :
            <>[](disk = content) => <>[](active = content)
=============================================================================
