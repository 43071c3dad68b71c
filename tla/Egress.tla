------------------------------- MODULE Egress -------------------------------
(***************************************************************************)
(* Sticky egress: every generation of the configuration resolves its       *)
(* sticky keys to subscription nodes through one shared binding store, and *)
(* every node in use has a sing-box child that listens on the node's port. *)
(* The listeners are shared by all generations and outlive a crash of the  *)
(* gateway.                                                                *)
(*                                                                         *)
(* Resolving all keys is one synchronous stretch.  It is modelled key by   *)
(* key because the process may be killed between two writes; until it is   *)
(* done (`work`) no other callback runs.                                   *)
(***************************************************************************)
EXTENDS ProxyBindings, FiniteSets

CONSTANTS
    NumProcesses,  \* bound of the sing-box processes alive at once
    PinChoices,    \* configurations: deployment |-> the node it is pinned to
    NoFile,        \* bindings were never written
    NoRuntime,
    Idle,
    NoListener,
    Gone,          \* a process that does not exist
    WriteResults,  \* what writing the file may return
    MaxChanges     \* bound of the new configurations and restarts together

Processes == 1 .. NumProcesses
NoProcess == 0

ASSUME EgressAssumption ==
    /\ NumProcesses \in Nat
    /\ PinChoices \subseteq [Deployments -> Nodes \cup {NoNode}]
    /\ PinChoices # {}
    /\ NoFile \notin BindingMaps
    /\ WriteResults \subseteq BOOLEAN
    /\ MaxChanges \in Nat

VARIABLES
    bindings,  \* the store in memory
    file,      \* proxy-bindings.json
    runtime,   \* slot |-> the sticky runtime of that generation
    work,      \* the keys still to resolve in this stretch, or Idle
    listener,  \* node |-> its record in the manager
    process,   \* sing-box processes on this host
    moved,     \* a bound key changed its node, or a binding was not written
    changes    \* new configurations and restarts so far

store == <<bindings, file>>
boxes == <<listener, process>>
vars  == <<bindings, file, runtime, work, listener, process, moved, changes>>

Slots == {"active", "pending", "preparing"}

\* A key with a proxy URL: the node it is bound to and the port of the URL.
Usable   == [node : Nodes, port : Ports]
Unusable == [node |-> NoNode, port |-> NoPort]

Runtimes == [pin : PinChoices, key : [Deployments -> Usable \cup {Unusable}],
             loaded : BOOLEAN,    \* the first load is over
             retries : BOOLEAN]   \* it failed: loads are repeated from then on

NewRuntime(pin) ==
    [pin |-> pin, key |-> [d \in Deployments |-> Unusable],
     loaded |-> FALSE, retries |-> FALSE]

Works == [slot : Slots, available : SUBSET Nodes, next : Deployments]

Listeners == [port : Ports, state : {"starting", "running", "error"},
              child : Processes \cup {NoProcess},
              timer : BOOLEAN]    \* a restart is scheduled

ProcessRecords ==
    [node : Nodes, port : Ports,
     up : BOOLEAN,   \* it listens
     watch : {"probed",      \* the manager waits for it to become ready
              "ready",       \* a probe was answered
              "killed",      \* given up and sent a signal
              "orphaned"}]   \* the gateway that started it is gone

ASSUME SentinelAssumption ==
    /\ NoRuntime \notin Runtimes
    /\ Idle \notin Works
    /\ NoListener \notin Listeners
    /\ Gone \notin ProcessRecords

TypeOK ==
    /\ bindings \in BindingMaps
    /\ file \in BindingMaps \cup {NoFile}
    /\ runtime \in [Slots -> Runtimes \cup {NoRuntime}]
    /\ work \in Works \cup {Idle}
    /\ listener \in [Nodes -> Listeners \cup {NoListener}]
    /\ process \in [Processes -> ProcessRecords \cup {Gone}]
    /\ moved \in BOOLEAN
    /\ changes \in 0 .. MaxChanges

-----------------------------------------------------------------------------
(* The sing-box manager.                                                   *)

Alive == {c \in Processes : process[c] # Gone}

NextProcess == CHOOSE c \in Processes \ Alive : \A e \in Processes \ Alive : c <= e

HasChild(n) == listener[n] # NoListener /\ listener[n].child # NoProcess

RestartPending(n) == listener[n] # NoListener /\ listener[n].timer

\* start: the record gets a new child, whatever child it had, unless spawning
\* throws; that schedules a restart.
Start(n, port, timer) ==
    \/ /\ Alive # Processes
       /\ listener' = [listener EXCEPT ![n] =
             [port |-> port, state |-> "starting", child |-> NextProcess, timer |-> timer]]
       /\ process' = [process EXCEPT ![NextProcess] =
             [node |-> n, port |-> port, up |-> FALSE, watch |-> "probed"]]
    \/ /\ listener' = [listener EXCEPT ![n] =
             [port |-> port, state |-> "error", timer |-> TRUE,
              child |-> IF HasChild(n) THEN @.child ELSE NoProcess]]
       /\ UNCHANGED process

\* ensure: a child that lives is reused, at the port it was started with.
Ensure(n, port) ==
    IF HasChild(n) THEN UNCHANGED boxes ELSE Start(n, port, RestartPending(n))

RestartTimer(n) ==
    /\ RestartPending(n)
    /\ Start(n, listener[n].port, FALSE)

\* Mutant of Finalized: the exit of a child schedules no restart.
FinalizedForGood(c) ==
    LET n == process[c].node
    IN  [listener EXCEPT ![n].child = IF @ = c THEN NoProcess ELSE @,
                         ![n].state = "error"]

\* finalize, once per child.
Finalized(c) ==
    LET n == process[c].node
    IN  [listener EXCEPT ![n].child = IF @ = c THEN NoProcess ELSE @,
                         ![n].state = "error",
                         ![n].timer = TRUE]

\* A process ends: its port was taken, it failed, or it was killed.
Exit(c) ==
    /\ process[c] # Gone
    /\ process' = [process EXCEPT ![c] = Gone]
    /\ listener' = IF process[c].watch \in {"probed", "ready"} THEN Finalized(c) ELSE listener

Listening(port) == {c \in Alive : process[c].up /\ process[c].port = port}

Listen(c) ==
    /\ process[c] # Gone
    /\ ~ process[c].up
    /\ Listening(process[c].port) = {}
    /\ process' = [process EXCEPT ![c].up = TRUE]
    /\ UNCHANGED listener

Probed(c) ==
    /\ process[c] # Gone
    /\ process[c].watch = "probed"
    /\ listener[process[c].node].child = c

\* The probe of the port is answered, by whoever listens there.
BecomeReady(c) ==
    /\ Probed(c)
    /\ Listening(listener[process[c].node].port) # {}
    /\ listener' = [listener EXCEPT ![process[c].node].state = "running"]
    /\ process' = [process EXCEPT ![c].watch = "ready"]

\* Fifty probes without an answer.
GiveUp(c) ==
    /\ Probed(c)
    /\ Listening(listener[process[c].node].port) = {}
    /\ listener' = Finalized(c)
    /\ process' = [process EXCEPT ![c].watch = "killed"]

Boxes ==
    /\ work = Idle
    /\ \/ \E n \in Nodes : RestartTimer(n)
       \/ \E c \in Processes : Exit(c) \/ Listen(c) \/ BecomeReady(c) \/ GiveUp(c)
    /\ UNCHANGED <<store, runtime, work, moved, changes>>

-----------------------------------------------------------------------------
(* The runtimes.                                                           *)

\* A runtime whose first load is over; a prepared one replaces the pending one.
Settled(slot, r) ==
    IF slot = "preparing" THEN [runtime EXCEPT !.pending = r, !.preparing = NoRuntime]
                          ELSE [runtime EXCEPT ![slot] = r]

MayLoad(slot) ==
    /\ work = Idle
    /\ runtime[slot] # NoRuntime
    /\ ~ runtime[slot].loaded \/ runtime[slot].retries

\* No subscription answered, or the file of bindings was refused.
LoadFails(slot) ==
    /\ MayLoad(slot)
    /\ runtime' = Settled(slot,
          [NewRuntime(runtime[slot].pin) EXCEPT !.loaded = TRUE, !.retries = TRUE])
    /\ UNCHANGED <<store, work, boxes, moved, changes>>

\* loadOnce up to resolveAll: the subscriptions list the available nodes.
LoadOnce(slot, available) ==
    /\ MayLoad(slot)
    /\ available # {}
    /\ file # NoFile => Loadable(file)
    /\ bindings' = IF file = NoFile THEN bindings ELSE file
    /\ work' = [slot |-> slot, available |-> available, next |-> 1]
    /\ UNCHANGED <<file, runtime, boxes, moved, changes>>

\* One turn of the loop of resolveAll.  A write that fails leaves the binding
\* in memory and the key without a proxy.
ResolveNext(ok) ==
    /\ work # Idle
    /\ LET d    == work.next
           r    == runtime[work.slot]
           res  == Resolution(d, r.pin[d], work.available, bindings)
           good == res.usable /\ (res.written => ok)
           node == res.bindings[d].node
           key  == IF good /\ listener'[node].state # "error"
                   THEN [node |-> node, port |-> listener'[node].port]
                   ELSE Unusable
           done == [r EXCEPT !.key[d] = key]
       IN  /\ bindings' = res.bindings
           /\ file' = IF res.written /\ ok THEN res.bindings ELSE file
           /\ moved' = (moved \/ (res.written /\ (~ ok \/ bindings[d] # Unbound)))
           /\ IF good THEN Ensure(node, res.bindings[d].port) ELSE UNCHANGED boxes
           /\ IF d = NumDeployments
              THEN /\ work' = Idle
                   /\ runtime' = Settled(work.slot, [done EXCEPT !.loaded = TRUE])
              ELSE /\ work' = [work EXCEPT !.next = d + 1]
                   /\ runtime' = [runtime EXCEPT ![work.slot] = done]
    /\ UNCHANGED changes

\* A changed configuration is prepared beside the ones in force and pending.
Prepare(pin) ==
    /\ work = Idle
    /\ changes < MaxChanges
    /\ runtime.active.loaded
    /\ runtime.preparing = NoRuntime
    /\ changes' = changes + 1
    /\ runtime' = [runtime EXCEPT !.preparing = NewRuntime(pin)]
    /\ UNCHANGED <<store, work, boxes, moved>>

\* The gateway is idle: the pending runtime replaces the active one, whose
\* timers stop; the listeners stay.
Activate ==
    /\ work = Idle
    /\ runtime.pending # NoRuntime
    /\ runtime' = [runtime EXCEPT !.active = runtime.pending, !.pending = NoRuntime]
    /\ UNCHANGED <<store, work, boxes, moved, changes>>

-----------------------------------------------------------------------------
(* Process life.                                                           *)

\* A new gateway process; of the children only `left` survive the old one.
Boot(pin, left) ==
    /\ changes < MaxChanges
    /\ changes' = changes + 1
    /\ bindings' = NothingBound
    /\ runtime' = [s \in Slots |-> IF s = "active" THEN NewRuntime(pin) ELSE NoRuntime]
    /\ work' = Idle
    /\ listener' = [n \in Nodes |-> NoListener]
    /\ process' = [c \in Processes |->
                      IF c \in left THEN [process[c] EXCEPT !.watch = "orphaned"] ELSE Gone]
    /\ UNCHANGED <<file, moved>>

Crash(pin) == Boot(pin, Alive)

\* stopAll waits for the child of every record.
Shutdown(pin) ==
    /\ work = Idle
    /\ Boot(pin, {c \in Alive : \A n \in Nodes : listener[n] = NoListener
                                                 \/ listener[n].child # c})

-----------------------------------------------------------------------------
Init ==
    /\ bindings = NothingBound
    /\ file = NoFile
    /\ \E pin \in PinChoices :
          runtime = [s \in Slots |-> IF s = "active" THEN NewRuntime(pin) ELSE NoRuntime]
    /\ work = Idle
    /\ listener = [n \in Nodes |-> NoListener]
    /\ process = [c \in Processes |-> Gone]
    /\ moved = FALSE
    /\ changes = 0

Load ==
    \E slot \in Slots :
        \/ LoadFails(slot)
        \/ \E available \in SUBSET Nodes : LoadOnce(slot, available)

Next ==
    \/ Boxes
    \/ Load
    \/ \E ok \in WriteResults : ResolveNext(ok)
    \/ \E pin \in PinChoices : Prepare(pin) \/ Crash(pin) \/ Shutdown(pin)
    \/ Activate

Spec == Init /\ [][Next]_vars

-----------------------------------------------------------------------------
(* Properties.                                                             *)

\* What resolve writes is what load accepts: no sequence of pins, reloads, lost
\* nodes, failed writes and kills leaves a file that the next start refuses,
\* which would take every sticky key out of use.
FileLoadable == file # NoFile => Loadable(file)

\* Deployments that no configuration pins.
Unpinned == {d \in Deployments : \A pin \in PinChoices : pin[d] = NoNode}

\* docs/egress.md: "A binding does not silently move when its node fails."  A
\* sticky-auto deployment stays on its node, through restarts too.
BindingStays ==
    [][\A d \in Unpinned : (file # NoFile /\ file[d] # Unbound) =>
          (file' # NoFile /\ file'[d] # Unbound /\ file'[d].node = file[d].node)]_vars

\* A sticky-auto key that may carry traffic does so through the node its
\* binding on disk names, so that a restart sends it through the same node.
KeysFollowFile ==
    file # NoFile =>
        \A s \in Slots, d \in Unpinned :
            (runtime[s] # NoRuntime /\ runtime[s].key[d] # Unusable) =>
                file[d] # Unbound /\ file[d].node = runtime[s].key[d].node

\* What isKeyAvailable promises of a key: its traffic leaves through its node.
OwnNodeServes(key) ==
    (listener[key.node] # NoListener /\ listener[key.node].state = "running") =>
        \A c \in Listening(key.port) : process[c].node = key.node

UsableKeys(slot) ==
    IF runtime[slot] = NoRuntime THEN {}
    ELSE {runtime[slot].key[d] : d \in Deployments} \ {Unusable}

\* While no key is moved from one node to another and every binding is written,
\* an available key is served by its own node, whatever listeners exit, are
\* started twice or are left over from a crash.
SettledKeysUseOwnNode ==
    moved \/ \A s \in Slots : \A key \in UsableKeys(s) : OwnNodeServes(key)

\* A node that was ever asked for has a child or a restart under way: no order
\* of exits, probes and timers leaves it without either.
ListenersRevive ==
    \A n \in Nodes : listener[n] # NoListener => HasChild(n) \/ listener[n].timer
=============================================================================
