---------------------------- MODULE EgressProofs ----------------------------
(***************************************************************************)
(* For every number of deployments, nodes, ports and processes: the file   *)
(* of bindings is always one that the next start accepts, a sticky-auto    *)
(* deployment stays on its node, every node asked for has a child or a     *)
(* restart scheduled, and while nothing moves the process that answers on  *)
(* the port of a key is one of the key's own node.                         *)
(***************************************************************************)
EXTENDS Egress, WellFoundedInduction, TLAPS

(* A set of numbers that is not empty has a least element. *)
LEMMA NatMinimum ==
  ASSUME NEW S \in SUBSET Nat, S # {}
  PROVE  \E x \in S : \A y \in S : x <= y
  <1>1. PICK x \in S : \A y \in S : ~ (<<y, x>> \in OpToRel(<, Nat))
    BY NatLessThanWellFounded, WFMin
  <1>2. ASSUME NEW y \in S
        PROVE  x <= y
    <2>1. <<y, x>> \in Nat \X Nat
      OBVIOUS
    <2>2. ~ (y < x)
      BY <1>1, <2>1 DEF OpToRel
    <2> QED BY <2>2
  <1> QED BY <1>2

(* The rendezvous hash picks one of the available nodes. *)
LEMMA RendezvousType ==
  ASSUME NEW d \in Deployments, NEW available \in SUBSET Nodes, available # {}
  PROVE  Rendezvous(d, available) \in available
  <1> DEFINE ranks == {Rank[d][n] : n \in available}
  <1>1. ranks \in SUBSET Nat /\ ranks # {}
    BY BindingsAssumption
  <1>2. PICK x \in ranks : \A y \in ranks : x <= y
    BY <1>1, NatMinimum
  <1>3. \E n \in available : \A o \in available : Rank[d][n] <= Rank[d][o]
    BY <1>2
  <1> QED BY <1>3 DEF Rendezvous

(* A port that is allocated is a port of the range that no binding uses. *)
LEMMA AllocatePortFree ==
  ASSUME NEW b \in BindingMaps, AllocatePort(b) # NoPort
  PROVE  /\ AllocatePort(b) \in Ports
         /\ \A e \in BoundIn(b) : b[e].port # AllocatePort(b)
  <1>1. FreePorts(b) # {} /\ FreePorts(b) \in SUBSET Nat
    BY BindingsAssumption DEF AllocatePort, FreePorts, Ports
  <1>2. \E p \in FreePorts(b) : \A q \in FreePorts(b) : p <= q
    BY <1>1, NatMinimum
  <1>3. AllocatePort(b) \in FreePorts(b)
    BY <1>1, <1>2 DEF AllocatePort
  <1> QED BY <1>3 DEF FreePorts

(* Resolving a deployment keeps the bindings loadable, and leaves a          *)
(* deployment that may be used bound.                                        *)
LEMMA ResolutionLoadable ==
  ASSUME NEW d \in Deployments, NEW pin \in Nodes \cup {NoNode},
         NEW available \in SUBSET Nodes,
         NEW b \in BindingMaps, Loadable(b)
  PROVE  LET res == Resolution(d, pin, available, b)
         IN  /\ res.bindings \in BindingMaps
             /\ Loadable(res.bindings)
             /\ res.usable => res.bindings[d] \in Bindings
  <1> DEFINE n       == NodeFor(d, pin, available, b)
             changed == n # NoNode /\ (b[d] = Unbound \/ b[d].node # n)
             port    == IF changed THEN PortFor(d, n, b) ELSE NoPort
             bound   == changed /\ port # NoPort /\ (n \in available \/ pin # NoNode)
             after   == IF bound THEN [b EXCEPT ![d] = [node |-> n, port |-> port]] ELSE b
             usable  == n \in available /\ (changed => bound)
  <1>1. /\ Resolution(d, pin, available, b).bindings = after
        /\ Resolution(d, pin, available, b).usable = usable
    BY DEF Resolution
  <1>2. n \in Nodes \cup {NoNode}
    BY RendezvousType DEF NodeFor, BindingMaps, Bindings, BoundIn
  <1> DEFINE there == {e \in BoundIn(b) : b[e].node = n}
  <1>3. ASSUME bound
        PROVE  /\ port \in Ports
               /\ \A e \in BoundIn(b) \ {d} : b[e].node = n <=> b[e].port = port
    <2>1. port = PortFor(d, n, b) /\ port # NoPort
      BY <1>3
    <2>2. CASE there # {}
      <3>1. PICK w \in there : port = b[w].port
        BY <2>1, <2>2 DEF PortFor
      <3> QED BY <3>1 DEF BindingMaps, Bindings, BoundIn, Loadable
    <2>3. CASE there = {} /\ b[d] # Unbound /\ ~ PortStaysTaken(d, n, b)
      <3>1. port = b[d].port
        BY <2>1, <2>3 DEF PortFor
      <3> QED BY <3>1, <2>3 DEF BindingMaps, Bindings, BoundIn, PortStaysTaken
    <2>4. CASE there = {} /\ ~ (b[d] # Unbound /\ ~ PortStaysTaken(d, n, b))
      <3>1. port = AllocatePort(b)
        BY <2>1, <2>4 DEF PortFor
      <3> QED BY <3>1, <2>1, <2>4, AllocatePortFree
    <2> QED BY <2>2, <2>3, <2>4
  <1>4. CASE bound
    <2>1. n \in Nodes /\ [node |-> n, port |-> port] \in Bindings
      BY <1>2, <1>3, <1>4 DEF Bindings
    <2> DEFINE new == [node |-> n, port |-> port]
    <2>2. after = [b EXCEPT ![d] = new]
      BY <1>4
    <2>3. after \in BindingMaps /\ after[d] = new /\ \A e \in Deployments \ {d} : after[e] = b[e]
      BY <2>1, <2>2 DEF BindingMaps
    <2>4. new.node = n /\ new.port = port /\ new # Unbound
      BY <2>1, BindingsAssumption
    <2>5. ASSUME NEW e \in BoundIn(after), NEW f \in BoundIn(after)
          PROVE  after[e].node = after[f].node <=> after[e].port = after[f].port
      <3>1. CASE e = d /\ f = d
        BY <3>1
      <3>2. CASE e = d /\ f # d
        BY <3>2, <2>3, <2>4, <1>3, <1>4 DEF BoundIn
      <3>3. CASE e # d /\ f = d
        BY <3>3, <2>3, <2>4, <1>3, <1>4 DEF BoundIn
      <3>4. CASE e # d /\ f # d
        BY <3>4, <2>3 DEF BoundIn, Loadable
      <3> QED BY <3>1, <3>2, <3>3, <3>4
    <2>6. Loadable(after)
      BY <2>5 DEF Loadable
    <2> QED BY <1>1, <2>1, <2>3, <2>6
  <1>5. CASE ~ bound
    <2>1. after = b
      BY <1>5
    <2>2. usable => b[d] # Unbound
      BY <1>2, <1>5, BindingsAssumption
    <2> QED BY <1>1, <2>1, <2>2 DEF BindingMaps
  <1> QED BY <1>4, <1>5

-----------------------------------------------------------------------------
(* The inductive invariant.                                                *)

\* A process the manager still watches has a record to report to.
WatchedHaveRecord ==
    \A c \in Processes :
        (process[c] # Gone /\ process[c].watch \in {"probed", "ready"}) =>
            listener[process[c].node] # NoListener

\* The runtime whose keys are being resolved is there.
WorkHasRuntime == work # Idle => runtime[work.slot] # NoRuntime

StoreInv ==
    /\ TypeOK
    /\ Loadable(bindings)
    /\ FileLoadable
    /\ WatchedHaveRecord
    /\ WorkHasRuntime

\* What a step of the manager keeps.
BoxesOK ==
    /\ listener \in [Nodes -> Listeners \cup {NoListener}]
    /\ process \in [Processes -> ProcessRecords \cup {Gone}]
    /\ WatchedHaveRecord

(* Starting a child keeps the records well formed. *)
LEMMA StartKeepsBoxes ==
  ASSUME BoxesOK, NEW n \in Nodes, NEW port \in Ports, NEW timer \in BOOLEAN,
         Start(n, port, timer)
  PROVE  BoxesOK' /\ listener'[n] \in Listeners
  <1>1. CASE /\ Alive # Processes
             /\ listener' = [listener EXCEPT ![n] =
                    [port |-> port, state |-> "starting", child |-> NextProcess,
                     timer |-> timer]]
             /\ process' = [process EXCEPT ![NextProcess] =
                    [node |-> n, port |-> port, up |-> FALSE, watch |-> "probed"]]
    <2>1. Processes \ Alive # {} /\ Processes \ Alive \in SUBSET Nat
      BY <1>1 DEF Alive, Processes
    <2>2. \E c \in Processes \ Alive : \A e \in Processes \ Alive : c <= e
      BY <2>1, NatMinimum
    <2>3. NextProcess \in Processes
      BY <2>2 DEF NextProcess
    <2>4. [port |-> port, state |-> "starting", child |-> NextProcess, timer |-> timer]
            \in Listeners
      BY <2>3 DEF Listeners
    <2>5. [node |-> n, port |-> port, up |-> FALSE, watch |-> "probed"] \in ProcessRecords
      BY DEF ProcessRecords
    <2> QED BY <1>1, <2>3, <2>4, <2>5, SentinelAssumption DEF BoxesOK, WatchedHaveRecord
  <1>2. CASE /\ listener' = [listener EXCEPT ![n] =
                    [port |-> port, state |-> "error", timer |-> TRUE,
                     child |-> IF HasChild(n) THEN @.child ELSE NoProcess]]
             /\ process' = process
    <2> DEFINE child == IF HasChild(n) THEN listener[n].child ELSE NoProcess
    <2>1. child \in Processes \cup {NoProcess}
      BY DEF HasChild, BoxesOK, Listeners
    <2> DEFINE new == [port |-> port, state |-> "error", timer |-> TRUE, child |-> child]
    <2>2. new \in Listeners
      BY <2>1 DEF Listeners
    <2>3. listener' = [listener EXCEPT ![n] = new]
      BY <1>2 DEF BoxesOK
    <2> HIDE DEF new
    <2>4. /\ listener' \in [Nodes -> Listeners \cup {NoListener}]
          /\ listener'[n] \in Listeners
          /\ \A m \in Nodes : listener[m] # NoListener => listener'[m] # NoListener
      BY <2>2, <2>3, SentinelAssumption DEF BoxesOK
    <2>5. \A c \in Processes : process[c] # Gone => process[c].node \in Nodes
      BY DEF BoxesOK, ProcessRecords
    <2> QED BY <1>2, <2>4, <2>5 DEF BoxesOK, WatchedHaveRecord
  <1> QED BY <1>1, <1>2 DEF Start

(* Asking for a listener leaves a record of it. *)
LEMMA EnsureKeepsBoxes ==
  ASSUME BoxesOK, NEW n \in Nodes, NEW port \in Ports, Ensure(n, port)
  PROVE  BoxesOK' /\ listener'[n] \in Listeners
  <1>1. CASE HasChild(n)
    BY <1>1 DEF Ensure, boxes, BoxesOK, WatchedHaveRecord, HasChild
  <1>2. CASE ~ HasChild(n)
    <2>1. RestartPending(n) \in BOOLEAN
      BY DEF RestartPending, BoxesOK, Listeners
    <2>2. Start(n, port, RestartPending(n))
      BY <1>2 DEF Ensure
    <2> QED BY <2>1, <2>2, StartKeepsBoxes
  <1> QED BY <1>1, <1>2

(* The end of a child keeps the records well formed. *)
LEMMA FinalizedType ==
  ASSUME BoxesOK, NEW c \in Processes, process[c] # Gone,
         process[c].watch \in {"probed", "ready"}
  PROVE  /\ Finalized(c) \in [Nodes -> Listeners \cup {NoListener}]
         /\ \A n \in Nodes : listener[n] # NoListener => Finalized(c)[n] # NoListener
  <1> DEFINE n   == process[c].node
             old == listener[n]
             new == [old EXCEPT !.child = IF @ = c THEN NoProcess ELSE @,
                                !.state = "error", !.timer = TRUE]
  <1>1. n \in Nodes /\ old \in Listeners
    BY DEF BoxesOK, WatchedHaveRecord, ProcessRecords
  <1>2. new \in Listeners
    BY <1>1 DEF Listeners
  <1>3. Finalized(c) = [listener EXCEPT ![n] = new]
    BY <1>1 DEF Finalized, BoxesOK, Listeners
  <1> HIDE DEF n, new
  <1> QED BY <1>1, <1>2, <1>3, SentinelAssumption DEF BoxesOK

(* Every step of the manager keeps them so. *)
LEMMA BoxesStep ==
  ASSUME BoxesOK,
         \/ \E n \in Nodes : RestartTimer(n)
         \/ \E c \in Processes : Exit(c) \/ Listen(c) \/ BecomeReady(c) \/ GiveUp(c)
  PROVE  BoxesOK'
  <1>1. ASSUME NEW n \in Nodes, RestartTimer(n)
        PROVE  BoxesOK'
    <2>1. listener[n].port \in Ports
      BY <1>1 DEF RestartTimer, RestartPending, BoxesOK, Listeners
    <2> QED BY <1>1, <2>1, StartKeepsBoxes DEF RestartTimer
  <1>2. ASSUME NEW c \in Processes, Exit(c)
        PROVE  BoxesOK'
    <2>1. process' \in [Processes -> ProcessRecords \cup {Gone}]
      BY <1>2 DEF Exit, BoxesOK
    <2>2. CASE process[c].watch \in {"probed", "ready"}
      <3>1. /\ listener' \in [Nodes -> Listeners \cup {NoListener}]
            /\ \A n \in Nodes : listener[n] # NoListener => listener'[n] # NoListener
        BY <1>2, <2>2, FinalizedType DEF Exit
      <3>2. \A e \in Processes : process[e] # Gone => process[e].node \in Nodes
        BY DEF BoxesOK, ProcessRecords
      <3>3. \A e \in Processes : process'[e] # Gone => process'[e] = process[e]
        BY <1>2 DEF Exit, BoxesOK
      <3> QED BY <2>1, <3>1, <3>2, <3>3 DEF BoxesOK, WatchedHaveRecord
    <2>3. CASE process[c].watch \notin {"probed", "ready"}
      <3>1. listener' = listener
        BY <1>2, <2>3 DEF Exit
      <3>2. \A e \in Processes : process'[e] # Gone => process'[e] = process[e]
        BY <1>2 DEF Exit, BoxesOK
      <3> QED BY <2>1, <3>1, <3>2 DEF BoxesOK, WatchedHaveRecord
    <2> QED BY <2>2, <2>3
  <1>3. ASSUME NEW c \in Processes, Listen(c)
        PROVE  BoxesOK'
    <2> DEFINE new == [process[c] EXCEPT !.up = TRUE]
    <2>1. process[c] \in ProcessRecords
      BY <1>3 DEF Listen, BoxesOK
    <2>2. new \in ProcessRecords /\ new.watch = process[c].watch /\ new.node = process[c].node
      BY <2>1 DEF ProcessRecords
    <2>3. process' = [process EXCEPT ![c] = new] /\ listener' = listener
      BY <1>3 DEF Listen, BoxesOK
    <2> HIDE DEF new
    <2> QED BY <2>1, <2>2, <2>3, SentinelAssumption DEF BoxesOK, WatchedHaveRecord
  <1>4. ASSUME NEW c \in Processes, Probed(c)
        PROVE  /\ process[c] \in ProcessRecords
               /\ process[c].watch = "probed"
               /\ process[c].node \in Nodes
               /\ listener[process[c].node] \in Listeners
    BY <1>4 DEF Probed, BoxesOK, WatchedHaveRecord, ProcessRecords
  <1>5. ASSUME NEW c \in Processes, BecomeReady(c)
        PROVE  BoxesOK'
    <2> DEFINE n == process[c].node
               newP == [process[c] EXCEPT !.watch = "ready"]
               newL == [listener[n] EXCEPT !.state = "running"]
    <2>1. Probed(c)
      BY <1>5 DEF BecomeReady
    <2>2. newP \in ProcessRecords /\ newP.node = n
      BY <2>1, <1>4 DEF ProcessRecords
    <2>3. newL \in Listeners /\ n \in Nodes
      BY <2>1, <1>4 DEF Listeners
    <2>4. process' = [process EXCEPT ![c] = newP] /\ listener' = [listener EXCEPT ![n] = newL]
      BY <1>5, <2>1, <1>4 DEF BecomeReady, BoxesOK
    <2>5. \A e \in Processes : process[e] # Gone => process[e].node \in Nodes
      BY DEF BoxesOK, ProcessRecords
    <2> HIDE DEF newP, newL, n
    <2>6. /\ listener' \in [Nodes -> Listeners \cup {NoListener}]
          /\ process' \in [Processes -> ProcessRecords \cup {Gone}]
          /\ listener'[n] # NoListener
          /\ \A m \in Nodes : listener[m] # NoListener => listener'[m] # NoListener
          /\ process'[c] = newP
          /\ \A e \in Processes \ {c} : process'[e] = process[e]
      BY <2>2, <2>3, <2>4, SentinelAssumption DEF BoxesOK
    <2> QED BY <2>2, <2>5, <2>6 DEF BoxesOK, WatchedHaveRecord
  <1>6. ASSUME NEW c \in Processes, GiveUp(c)
        PROVE  BoxesOK'
    <2> DEFINE new == [process[c] EXCEPT !.watch = "killed"]
    <2>1. Probed(c)
      BY <1>6 DEF GiveUp
    <2>2. new \in ProcessRecords /\ new.watch = "killed"
      BY <2>1, <1>4 DEF ProcessRecords
    <2>3. /\ listener' \in [Nodes -> Listeners \cup {NoListener}]
          /\ \A n \in Nodes : listener[n] # NoListener => listener'[n] # NoListener
      BY <1>6, <2>1, <1>4, FinalizedType, SentinelAssumption DEF GiveUp, BoxesOK
    <2>4. process' = [process EXCEPT ![c] = new]
      BY <1>6, <2>1, <1>4 DEF GiveUp, BoxesOK
    <2>5. \A e \in Processes : process[e] # Gone => process[e].node \in Nodes
      BY DEF BoxesOK, ProcessRecords
    <2> HIDE DEF new
    <2>6. /\ process' \in [Processes -> ProcessRecords \cup {Gone}]
          /\ process'[c] = new
          /\ \A e \in Processes \ {c} : process'[e] = process[e]
      BY <2>2, <2>4 DEF BoxesOK
    <2> QED BY <2>2, <2>3, <2>5, <2>6 DEF BoxesOK, WatchedHaveRecord
  <1> QED BY <1>1, <1>2, <1>3, <1>5, <1>6

-----------------------------------------------------------------------------
(* The runtimes.                                                           *)

RuntimesOK == runtime \in [Slots -> Runtimes \cup {NoRuntime}]

(* A runtime that has loaded nothing yet. *)
LEMMA NewRuntimeType ==
  ASSUME NEW pin \in PinChoices
  PROVE  NewRuntime(pin) \in Runtimes
  BY DEF NewRuntime, Runtimes

(* What a generation has loaded takes its place among the runtimes. *)
LEMMA SettledType ==
  ASSUME RuntimesOK, NEW slot \in Slots, NEW r \in Runtimes
  PROVE  Settled(slot, r) \in [Slots -> Runtimes \cup {NoRuntime}]
  <1>1. CASE slot = "preparing"
    <2>1. Settled(slot, r) = [runtime EXCEPT !["pending"] = r, !["preparing"] = NoRuntime]
      BY <1>1 DEF Settled
    <2> QED BY <2>1 DEF RuntimesOK
  <1>2. CASE slot # "preparing"
    BY <1>2 DEF Settled, RuntimesOK
  <1> QED BY <1>1, <1>2

(* A load that fails leaves every key of the runtime without a proxy. *)
LEMMA LoadFailsStep ==
  ASSUME StoreInv, NEW slot \in Slots, LoadFails(slot)
  PROVE  StoreInv'
  <1> DEFINE r == [NewRuntime(runtime[slot].pin) EXCEPT !.loaded = TRUE, !.retries = TRUE]
  <1>1. RuntimesOK /\ runtime[slot] \in Runtimes /\ work = Idle
    BY DEF StoreInv, TypeOK, RuntimesOK, LoadFails, MayLoad
  <1>2. r \in Runtimes
    BY <1>1, NewRuntimeType DEF Runtimes, NewRuntime
  <1>3. runtime' = Settled(slot, r)
    BY DEF LoadFails
  <1> HIDE DEF r
  <1>4. runtime' \in [Slots -> Runtimes \cup {NoRuntime}]
    BY <1>1, <1>2, <1>3, SettledType
  <1> QED
    BY <1>1, <1>4 DEF StoreInv, TypeOK, LoadFails, store, boxes, FileLoadable,
                      WatchedHaveRecord, WorkHasRuntime

(* What is read from the file is loadable, or the load fails. *)
LEMMA LoadOnceStep ==
  ASSUME StoreInv, NEW slot \in Slots, NEW available \in SUBSET Nodes,
         LoadOnce(slot, available)
  PROVE  StoreInv'
  <1>1. bindings' \in BindingMaps /\ Loadable(bindings')
    BY DEF StoreInv, TypeOK, LoadOnce
  <1>2. work' \in Works /\ runtime[slot] # NoRuntime
    BY BindingsAssumption DEF LoadOnce, MayLoad, Works, Deployments
  <1>3. Loadable(bindings)'
    BY <1>1 DEF Loadable, BoundIn
  <1> QED
    BY <1>1, <1>2, <1>3, SentinelAssumption
       DEF StoreInv, TypeOK, LoadOnce, boxes, FileLoadable, WatchedHaveRecord,
           WorkHasRuntime

(* One key resolved: the store stays loadable, written or not. *)
LEMMA ResolveNextStep ==
  ASSUME StoreInv, NEW ok \in BOOLEAN, ResolveNext(ok)
  PROVE  StoreInv'
  <1> DEFINE d    == work.next
             r    == runtime[work.slot]
             res  == Resolution(d, r.pin[d], work.available, bindings)
             good == res.usable /\ (res.written => ok)
             node == res.bindings[d].node
             key  == IF good /\ listener'[node].state # "error"
                     THEN [node |-> node, port |-> listener'[node].port]
                     ELSE Unusable
             done == [r EXCEPT !.key[d] = key]
  <1>1. /\ work \in Works
        /\ r \in Runtimes
        /\ RuntimesOK
        /\ BoxesOK
        /\ bindings \in BindingMaps
        /\ Loadable(bindings)
    BY DEF StoreInv, TypeOK, RuntimesOK, BoxesOK, ResolveNext, WorkHasRuntime, Works
  <1>2. /\ d \in Deployments
        /\ work.slot \in Slots
        /\ work.available \in SUBSET Nodes
    BY <1>1 DEF Works
  <1>3. r.pin[d] \in Nodes \cup {NoNode}
    BY <1>1, <1>2, EgressAssumption DEF Runtimes
  <1>4. /\ res.bindings \in BindingMaps
        /\ Loadable(res.bindings)
        /\ res.usable => res.bindings[d] \in Bindings
    BY <1>1, <1>2, <1>3, ResolutionLoadable
  <1>5. /\ bindings' = res.bindings
        /\ file' = IF res.written /\ ok THEN res.bindings ELSE file
        /\ moved' = (moved \/ (res.written /\ (~ ok \/ bindings[d] # Unbound)))
        /\ IF good THEN Ensure(node, res.bindings[d].port) ELSE UNCHANGED boxes
        /\ IF d = NumDeployments
           THEN /\ work' = Idle
                /\ runtime' = Settled(work.slot, [done EXCEPT !.loaded = TRUE])
           ELSE /\ work' = [work EXCEPT !.next = d + 1]
                /\ runtime' = [runtime EXCEPT ![work.slot] = done]
        /\ UNCHANGED changes
    BY DEF ResolveNext
  <1> HIDE DEF res
  <1>6. BoxesOK' /\ key \in Usable \cup {Unusable}
    <2>1. CASE good
      <3>1. node \in Nodes /\ res.bindings[d].port \in Ports
        BY <1>4, <2>1 DEF Bindings
      <3>2. Ensure(node, res.bindings[d].port)
        BY <1>5, <2>1
      <3> HIDE DEF node
      <3>3. BoxesOK' /\ listener'[node] \in Listeners
        BY <1>1, <3>1, <3>2, EnsureKeepsBoxes
      <3> QED BY <3>1, <3>3 DEF Usable, Listeners
    <2>2. CASE ~ good
      BY <1>1, <1>5, <2>2 DEF boxes, BoxesOK, WatchedHaveRecord
    <2> QED BY <2>1, <2>2
  <1> HIDE DEF key, good, node
  <1>7. done \in Runtimes /\ [done EXCEPT !.loaded = TRUE] \in Runtimes
    BY <1>1, <1>2, <1>6 DEF Runtimes
  <1>8. /\ runtime' \in [Slots -> Runtimes \cup {NoRuntime}]
        /\ work' \in Works \cup {Idle}
        /\ work' # Idle => runtime'[work'.slot] # NoRuntime
    <2>1. CASE d = NumDeployments
      BY <1>1, <1>2, <1>5, <1>7, <2>1, SettledType
    <2>2. CASE d # NumDeployments
      <3>1. runtime' = [runtime EXCEPT ![work.slot] = done]
            /\ work' = [work EXCEPT !.next = d + 1]
        BY <1>5, <2>2
      <3> HIDE DEF done
      <3>2. work' \in Works /\ work'.slot = work.slot
        BY <1>1, <1>2, <2>2, <3>1, BindingsAssumption DEF Works, Deployments
      <3> QED BY <1>1, <1>2, <1>7, <3>1, <3>2, SentinelAssumption DEF RuntimesOK
    <2> QED BY <2>1, <2>2
  <1>9. bindings' \in BindingMaps /\ Loadable(bindings)'
    BY <1>4, <1>5 DEF Loadable, BoundIn
  <1>10. file' \in BindingMaps \cup {NoFile} /\ FileLoadable'
    BY <1>4, <1>5 DEF StoreInv, TypeOK, FileLoadable, Loadable, BoundIn
  <1>11. moved' \in BOOLEAN
    BY <1>5 DEF StoreInv, TypeOK
  <1> QED
    BY <1>5, <1>6, <1>8, <1>9, <1>10, <1>11 DEF StoreInv, TypeOK, BoxesOK, WorkHasRuntime

(* Preparing and activating a configuration leave the store alone. *)
LEMMA GenerationStep ==
  ASSUME StoreInv, Activate \/ \E pin \in PinChoices : Prepare(pin)
  PROVE  StoreInv'
  <1>1. RuntimesOK
    BY DEF StoreInv, TypeOK, RuntimesOK
  <1>2. ASSUME NEW pin \in PinChoices, Prepare(pin)
        PROVE  StoreInv'
    <2>1. runtime' \in [Slots -> Runtimes \cup {NoRuntime}]
      <3> DEFINE new == NewRuntime(pin)
      <3>1. new \in Runtimes
        BY NewRuntimeType
      <3>2. runtime' = [runtime EXCEPT !["preparing"] = new]
        BY <1>2 DEF Prepare
      <3> HIDE DEF new
      <3> QED BY <1>1, <3>1, <3>2 DEF RuntimesOK
    <2>2. changes' \in 0 .. MaxChanges
      BY <1>2, EgressAssumption DEF Prepare, StoreInv, TypeOK
    <2> QED
      BY <1>2, <2>1, <2>2 DEF Prepare, store, boxes, StoreInv, TypeOK, FileLoadable,
                              WatchedHaveRecord, WorkHasRuntime
  <1>3. CASE Activate
    <2>1. runtime' \in [Slots -> Runtimes \cup {NoRuntime}]
      <3> DEFINE new == runtime["pending"]
      <3>1. new \in Runtimes \cup {NoRuntime}
        BY <1>1 DEF RuntimesOK, Slots
      <3>2. runtime' = [runtime EXCEPT !["active"] = new, !["pending"] = NoRuntime]
        BY <1>3 DEF Activate
      <3> HIDE DEF new
      <3> QED BY <1>1, <3>1, <3>2 DEF RuntimesOK
    <2> QED
      BY <1>3, <2>1 DEF Activate, store, boxes, StoreInv, TypeOK, FileLoadable,
                        WatchedHaveRecord, WorkHasRuntime
  <1> QED BY <1>2, <1>3

(* A new process starts from an empty store: the file alone carries over. *)
LEMMA BootStep ==
  ASSUME StoreInv, NEW pin \in PinChoices, NEW left \in SUBSET Alive, Boot(pin, left)
  PROVE  StoreInv'
  <1>1. bindings' \in BindingMaps /\ Loadable(bindings)'
    BY DEF Boot, NothingBound, BindingMaps, Loadable, BoundIn
  <1>2. file' \in BindingMaps \cup {NoFile} /\ FileLoadable'
    BY DEF StoreInv, TypeOK, Boot, FileLoadable
  <1>3. runtime' \in [Slots -> Runtimes \cup {NoRuntime}]
    BY NewRuntimeType DEF Boot
  <1> DEFINE old == [c \in Processes |->
                        IF c \in left THEN [process[c] EXCEPT !.watch = "orphaned"] ELSE Gone]
  <1>4. ASSUME NEW c \in left
        PROVE  /\ [process[c] EXCEPT !.watch = "orphaned"] \in ProcessRecords
               /\ [process[c] EXCEPT !.watch = "orphaned"].watch = "orphaned"
    BY DEF StoreInv, TypeOK, ProcessRecords, Alive
  <1>5. /\ old \in [Processes -> ProcessRecords \cup {Gone}]
        /\ \A c \in Processes : old[c] # Gone => old[c].watch = "orphaned"
    BY <1>4
  <1> HIDE DEF old
  <1>6. BoxesOK'
    <2>1. process' = old /\ listener' = [n \in Nodes |-> NoListener]
      BY DEF Boot, old
    <2> QED BY <1>5, <2>1 DEF BoxesOK, WatchedHaveRecord
  <1>7. changes' \in 0 .. MaxChanges
    BY EgressAssumption DEF Boot, StoreInv, TypeOK
  <1> QED
    BY <1>1, <1>2, <1>3, <1>6, <1>7 DEF Boot, StoreInv, TypeOK, BoxesOK, WorkHasRuntime

-----------------------------------------------------------------------------
(* The bindings of sticky-auto deployments.                                *)

\* The bindings that a restart would find, as far as anything was written.
Lasting == IF file = NoFile THEN bindings ELSE file

\* A sticky-auto key in use has a lasting binding to its node.
KeysLast ==
    \A s \in Slots, d \in Unpinned :
        (runtime[s] # NoRuntime /\ runtime[s].key[d] # Unusable) =>
            Lasting[d] # Unbound /\ Lasting[d].node = runtime[s].key[d].node

\* While keys are resolved, memory agrees with the file on what the file binds.
MemoryAgrees ==
    (work # Idle /\ file # NoFile) =>
        \A d \in Unpinned : file[d] # Unbound =>
            bindings[d] # Unbound /\ bindings[d].node = file[d].node

\* A deployment still to be resolved is not bound in memory alone: what a failed
\* write left there is gone, since loading replaces memory by the file.
RestWritten ==
    (work # Idle /\ file # NoFile) =>
        \A d \in Unpinned : (d >= work.next /\ bindings[d] # Unbound) =>
            file[d] = bindings[d]

FollowInv == StoreInv /\ KeysLast /\ MemoryAgrees /\ RestWritten

(* Resolving one deployment leaves the others alone, and a sticky-auto one   *)
(* that is bound too; without a write nothing changes.                       *)
LEMMA ResolutionKeeps ==
  ASSUME NEW d \in Deployments, NEW pin, NEW available, NEW b \in BindingMaps
  PROVE  LET res == Resolution(d, pin, available, b)
         IN  /\ \A e \in Deployments \ {d} : res.bindings[e] = b[e]
             /\ (pin = NoNode /\ b[d] # Unbound) => res.bindings = b /\ ~ res.written
             /\ ~ res.written => res.bindings = b
  <1> DEFINE n       == NodeFor(d, pin, available, b)
             changed == n # NoNode /\ (b[d] = Unbound \/ b[d].node # n)
             port    == IF changed THEN PortFor(d, n, b) ELSE NoPort
             bound   == changed /\ port # NoPort /\ (n \in available \/ pin # NoNode)
             after   == IF bound THEN [b EXCEPT ![d] = [node |-> n, port |-> port]] ELSE b
  <1>1. /\ Resolution(d, pin, available, b).bindings = after
        /\ Resolution(d, pin, available, b).written = bound
    BY DEF Resolution
  <1>2. (pin = NoNode /\ b[d] # Unbound) => n = b[d].node
    BY DEF NodeFor
  <1>3. (pin = NoNode /\ b[d] # Unbound) => ~ bound
    BY <1>2
  <1>4. \A e \in Deployments \ {d} : after[e] = b[e]
    BY DEF BindingMaps
  <1> QED BY <1>1, <1>3, <1>4

(* A step that resolves nothing and keeps the store keeps what keys rest on, *)
(* if every key in use after it was in use before.                           *)
LEMMA KeysLastKept ==
  ASSUME KeysLast, UNCHANGED store,
         \A s \in Slots, d \in Unpinned :
            (runtime'[s] # NoRuntime /\ runtime'[s].key[d] # Unusable) =>
               \E t \in Slots : /\ runtime[t] # NoRuntime
                                /\ runtime[t].key[d] = runtime'[s].key[d]
  PROVE  KeysLast'
  BY DEF KeysLast, Lasting, store

(* Loading. *)
LEMMA FollowLoad ==
  ASSUME FollowInv, Load
  PROVE  KeysLast' /\ MemoryAgrees' /\ RestWritten'
  <1>1. ASSUME NEW slot \in Slots, LoadFails(slot)
        PROVE  KeysLast' /\ MemoryAgrees' /\ RestWritten'
    <2> DEFINE r == [NewRuntime(runtime[slot].pin) EXCEPT !.loaded = TRUE, !.retries = TRUE]
    <2>1. /\ runtime \in [Slots -> Runtimes \cup {NoRuntime}]
          /\ work = Idle /\ UNCHANGED store /\ UNCHANGED work
      BY <1>1 DEF LoadFails, MayLoad, FollowInv, StoreInv, TypeOK
    <2>2. runtime' = Settled(slot, r)
      BY <1>1 DEF LoadFails
    <2>3. \A d \in Unpinned : r.key[d] = Unusable
      BY DEF NewRuntime, Unpinned
    <2> HIDE DEF r
    <2>4. \A s \in Slots : runtime'[s] = r \/ runtime'[s] = NoRuntime \/ runtime'[s] = runtime[s]
      BY <2>1, <2>2 DEF Settled
    <2>5. KeysLast'
      BY <2>1, <2>3, <2>4, KeysLastKept DEF FollowInv
    <2> QED BY <2>1, <2>5 DEF MemoryAgrees, RestWritten
  <1>2. ASSUME NEW slot \in Slots, NEW available \in SUBSET Nodes, LoadOnce(slot, available)
        PROVE  KeysLast' /\ MemoryAgrees' /\ RestWritten'
    <2>1. /\ bindings' = IF file = NoFile THEN bindings ELSE file
          /\ file' = file /\ runtime' = runtime
      BY <1>2 DEF LoadOnce
    <2> QED BY <2>1 DEF FollowInv, KeysLast, MemoryAgrees, RestWritten, Lasting
  <1> QED BY <1>1, <1>2 DEF Load

(* Resolving one key. *)
LEMMA FollowResolve ==
  ASSUME FollowInv, NEW ok \in BOOLEAN, ResolveNext(ok)
  PROVE  /\ KeysLast' /\ MemoryAgrees' /\ RestWritten'
         /\ \A d \in Unpinned : (file # NoFile /\ file[d] # Unbound) =>
               (file' # NoFile /\ file'[d] # Unbound /\ file'[d].node = file[d].node)
  <1> DEFINE d    == work.next
             r    == runtime[work.slot]
             res  == Resolution(d, r.pin[d], work.available, bindings)
             good == res.usable /\ (res.written => ok)
             node == res.bindings[d].node
             key  == IF good /\ listener'[node].state # "error"
                     THEN [node |-> node, port |-> listener'[node].port]
                     ELSE Unusable
             done == [r EXCEPT !.key[d] = key]
  <1>1. /\ work \in Works /\ work # Idle
        /\ r \in Runtimes
        /\ RuntimesOK
        /\ bindings \in BindingMaps
        /\ Loadable(bindings)
        /\ file \in BindingMaps \cup {NoFile}
    BY DEF FollowInv, StoreInv, TypeOK, RuntimesOK, ResolveNext, WorkHasRuntime, Works
  <1>2. /\ d \in Deployments
        /\ work.slot \in Slots
        /\ work.available \in SUBSET Nodes
    BY <1>1 DEF Works
  <1>3. /\ r.pin[d] \in Nodes \cup {NoNode}
        /\ d \in Unpinned => r.pin[d] = NoNode
    BY <1>1, <1>2, EgressAssumption DEF Runtimes, Unpinned
  <1>4. /\ res.bindings \in BindingMaps
        /\ res.usable => res.bindings[d] # Unbound
    BY <1>1, <1>2, <1>3, ResolutionLoadable, BindingsAssumption
  <1>5. /\ \A e \in Deployments \ {d} : res.bindings[e] = bindings[e]
        /\ (d \in Unpinned /\ bindings[d] # Unbound) => res.bindings = bindings /\ ~ res.written
        /\ ~ res.written => res.bindings = bindings
    BY <1>1, <1>2, <1>3, ResolutionKeeps
  <1>6. /\ bindings' = res.bindings
        /\ file' = IF res.written /\ ok THEN res.bindings ELSE file
        /\ IF d = NumDeployments
           THEN /\ work' = Idle
                /\ runtime' = Settled(work.slot, [done EXCEPT !.loaded = TRUE])
           ELSE /\ work' = [work EXCEPT !.next = d + 1]
                /\ runtime' = [runtime EXCEPT ![work.slot] = done]
    BY DEF ResolveNext
  <1> HIDE DEF res
  <1>7. key # Unusable => good /\ key.node = node
    OBVIOUS
  <1>8. \A e \in Unpinned : bindings[e] # Unbound =>
           bindings'[e] = bindings[e]
    BY <1>5, <1>6 DEF Unpinned
  <1> HIDE DEF key, node
  <1>9. /\ \A e \in Deployments \ {d} :
               done.key[e] = r.key[e] /\ [done EXCEPT !.loaded = TRUE].key[e] = r.key[e]
        /\ done.key[d] = key /\ [done EXCEPT !.loaded = TRUE].key[d] = key
    BY <1>1, <1>2 DEF Runtimes
  <1> DEFINE full == [done EXCEPT !.loaded = TRUE]
  <1> HIDE DEF full, done
  <1>10. \A s \in Slots : \/ runtime'[s] \in {done, full}
                          \/ runtime'[s] \in {NoRuntime, runtime[s]}
    BY <1>1, <1>2, <1>6 DEF Settled, RuntimesOK, full
  <1>11. ASSUME NEW s \in Slots, NEW e \in Unpinned,
                runtime'[s] # NoRuntime, runtime'[s].key[e] # Unusable
         PROVE  \/ \E t \in Slots : /\ runtime[t] # NoRuntime
                                    /\ runtime[t].key[e] = runtime'[s].key[e]
                \/ e = d /\ good /\ runtime'[s].key[e].node = node
    <2>1. e \in Deployments
      BY DEF Unpinned
    <2>2. CASE runtime'[s] \in {done, full}
      <3>1. CASE e = d
        BY <1>7, <1>9, <1>11, <2>2, <3>1 DEF full
      <3>2. CASE e # d
        <4>1. runtime'[s].key[e] = r.key[e]
          BY <1>9, <2>1, <2>2, <3>2 DEF full
        <4>2. r # NoRuntime
          BY <1>1, SentinelAssumption
        <4> QED BY <1>2, <4>1, <4>2
      <3> QED BY <3>1, <3>2
    <2>3. CASE runtime'[s] = runtime[s]
      BY <2>3, <1>11
    <2> QED BY <1>10, <1>11, <2>2, <2>3
  <1>12. file' # NoFile => \A e \in Unpinned : file'[e] # Unbound =>
             bindings'[e] # Unbound /\ bindings'[e].node = file'[e].node
    <2>1. CASE res.written /\ ok
      BY <1>6, <2>1
    <2>2. CASE ~ (res.written /\ ok)
      BY <1>1, <1>6, <1>8, <2>2 DEF FollowInv, MemoryAgrees
    <2> QED BY <2>1, <2>2
  <1>13. ASSUME file' # NoFile, NEW e \in Unpinned, e > d \/ (e = d /\ good),
                bindings'[e] # Unbound
         PROVE  file'[e] = bindings'[e]
    <2>1. CASE res.written /\ ok
      BY <1>6, <2>1
    <2>2. CASE ~ (res.written /\ ok)
      <3>1. file' = file /\ e \in Deployments /\ e >= d
        BY <1>6, <1>13, <2>2, <1>2 DEF Unpinned, Deployments
      <3>2. bindings'[e] = bindings[e]
        <4>1. CASE e # d
          BY <1>5, <1>6, <3>1, <4>1
        <4>2. CASE e = d
          <5>1. good
            BY <1>13, <1>2, <4>2 DEF Deployments
          <5> QED BY <1>5, <1>6, <2>2, <5>1
        <4> QED BY <4>1, <4>2
      <3> QED BY <1>1, <1>13, <3>1, <3>2 DEF FollowInv, RestWritten
    <2> QED BY <2>1, <2>2
  <1>14. \A e \in Unpinned : (file # NoFile /\ file[e] # Unbound) =>
            (file' # NoFile /\ file'[e] # Unbound /\ file'[e].node = file[e].node)
    <2>1. CASE res.written /\ ok
      <3>1. file' = res.bindings /\ file' # NoFile
        BY <1>4, <1>6, <2>1, EgressAssumption
      <3> QED BY <1>1, <1>6, <1>8, <3>1 DEF FollowInv, MemoryAgrees
    <2>2. CASE ~ (res.written /\ ok)
      BY <1>6, <2>2
    <2> QED BY <2>1, <2>2
  <1>15. MemoryAgrees'
    BY <1>12 DEF MemoryAgrees
  <1>16. RestWritten'
    <2>1. ASSUME work' # Idle
          PROVE  work'.next = d + 1
      BY <1>1, <1>6, <2>1 DEF Works
    <2>2. ASSUME NEW e \in Unpinned, e >= d + 1
          PROVE  e > d
      BY <1>2, <2>2 DEF Unpinned, Deployments
    <2> QED BY <1>13, <2>1, <2>2 DEF RestWritten
  <1>17. KeysLast'
    <2> SUFFICES ASSUME NEW s \in Slots, NEW e \in Unpinned,
                        runtime'[s] # NoRuntime, runtime'[s].key[e] # Unusable
                 PROVE  Lasting'[e] # Unbound /\ Lasting'[e].node = runtime'[s].key[e].node
      BY DEF KeysLast
    <2>1. CASE e = d /\ good /\ runtime'[s].key[e].node = node
      <3>1. bindings'[e] # Unbound /\ bindings'[e].node = node
        BY <1>4, <1>6, <2>1 DEF node
      <3>2. file' # NoFile => file'[e] = bindings'[e]
        BY <1>13, <2>1, <3>1
      <3> QED BY <2>1, <3>1, <3>2 DEF Lasting
    <2>2. ASSUME NEW t \in Slots, runtime[t] # NoRuntime,
                 runtime[t].key[e] = runtime'[s].key[e]
          PROVE  Lasting'[e] # Unbound /\ Lasting'[e].node = runtime'[s].key[e].node
      <3>1. Lasting[e] # Unbound /\ Lasting[e].node = runtime'[s].key[e].node
        BY <2>2 DEF FollowInv, KeysLast
      <3>2. CASE file # NoFile
        BY <1>14, <3>1, <3>2 DEF Lasting
      <3>3. CASE file = NoFile
        <4>1. bindings'[e] = bindings[e] /\ bindings[e] # Unbound
          BY <1>8, <3>1, <3>3 DEF Lasting
        <4>2. file' = NoFile \/ file' = bindings'
          BY <1>6, <3>3
        <4> QED BY <3>1, <3>3, <4>1, <4>2 DEF Lasting
      <3> QED BY <3>2, <3>3
    <2> QED BY <1>11, <2>1, <2>2
  <1> QED BY <1>14, <1>15, <1>16, <1>17

(* The remaining steps bring no key into use and write nothing. *)
LEMMA FollowOther ==
  ASSUME FollowInv,
         \/ Boxes \/ Activate \/ UNCHANGED vars
         \/ \E pin \in PinChoices : Prepare(pin) \/ Crash(pin) \/ Shutdown(pin)
  PROVE  KeysLast' /\ MemoryAgrees' /\ RestWritten' /\ UNCHANGED file
  <1>1. runtime \in [Slots -> Runtimes \cup {NoRuntime}]
    BY DEF FollowInv, StoreInv, TypeOK
  <1>2. CASE Boxes \/ UNCHANGED vars
    BY <1>2 DEF Boxes, vars, store, FollowInv, KeysLast, MemoryAgrees, RestWritten, Lasting
  <1>3. CASE Activate
    <2>1. UNCHANGED <<bindings, file, work>> /\ work = Idle
      BY <1>3 DEF Activate, store
    <2>2. \A s \in Slots : \/ runtime'[s] = NoRuntime
                           \/ \E t \in Slots : runtime'[s] = runtime[t]
      <3>1. runtime' = [runtime EXCEPT !["active"] = runtime["pending"],
                                       !["pending"] = NoRuntime]
        BY <1>3 DEF Activate
      <3> QED BY <1>1, <3>1 DEF Slots
    <2>3. KeysLast'
      BY <2>1, <2>2, KeysLastKept DEF FollowInv, store
    <2> QED BY <2>1, <2>3 DEF MemoryAgrees, RestWritten
  <1>4. ASSUME NEW pin \in PinChoices, Prepare(pin)
        PROVE  KeysLast' /\ MemoryAgrees' /\ RestWritten' /\ UNCHANGED file
    <2>1. UNCHANGED <<bindings, file, work>> /\ work = Idle
      BY <1>4 DEF Prepare, store
    <2> DEFINE new == NewRuntime(pin)
    <2>2. \A d \in Unpinned : new.key[d] = Unusable
      BY DEF NewRuntime, Unpinned
    <2>3. runtime' = [runtime EXCEPT !["preparing"] = new]
      BY <1>4 DEF Prepare
    <2> HIDE DEF new
    <2>4. \A s \in Slots : runtime'[s] = new \/ runtime'[s] = runtime[s]
      BY <1>1, <2>3
    <2>5. KeysLast'
      BY <2>1, <2>2, <2>4, KeysLastKept DEF FollowInv, store
    <2> QED BY <2>1, <2>5 DEF MemoryAgrees, RestWritten
  <1>5. ASSUME NEW pin \in PinChoices, NEW left, Boot(pin, left)
        PROVE  KeysLast' /\ MemoryAgrees' /\ RestWritten' /\ UNCHANGED file
    <2>1. work' = Idle /\ UNCHANGED file
      BY <1>5 DEF Boot
    <2> DEFINE new == NewRuntime(pin)
    <2>2. \A d \in Unpinned : new.key[d] = Unusable
      BY DEF NewRuntime, Unpinned
    <2>3. runtime' = [s \in Slots |-> IF s = "active" THEN new ELSE NoRuntime]
      BY <1>5 DEF Boot
    <2> HIDE DEF new
    <2>4. KeysLast'
      BY <2>2, <2>3 DEF KeysLast
    <2> QED BY <2>1, <2>4 DEF MemoryAgrees, RestWritten
  <1> QED BY <1>2, <1>3, <1>4, <1>5 DEF Crash, Shutdown

-----------------------------------------------------------------------------
(* The theorems.                                                           *)

LEMMA StoreInvInit == Init => StoreInv
  <1> SUFFICES ASSUME Init
               PROVE  StoreInv
    OBVIOUS
  <1>1. bindings \in BindingMaps /\ Loadable(bindings)
    BY DEF Init, NothingBound, BindingMaps, Loadable, BoundIn
  <1>2. runtime \in [Slots -> Runtimes \cup {NoRuntime}]
    BY NewRuntimeType DEF Init
  <1>3. /\ listener \in [Nodes -> Listeners \cup {NoListener}]
        /\ process \in [Processes -> ProcessRecords \cup {Gone}]
        /\ WatchedHaveRecord
    BY DEF Init, WatchedHaveRecord
  <1>4. changes \in 0 .. MaxChanges
    <2>1. changes = 0
      BY Zenon DEF Init
    <2> QED BY <2>1, EgressAssumption
  <1>6. moved \in BOOLEAN
    <2>1. moved = FALSE
      BY Zenon DEF Init
    <2> QED BY <2>1, Zenon
  <1>5. FileLoadable /\ WorkHasRuntime /\ work = Idle /\ file = NoFile
    BY DEF Init, FileLoadable, WorkHasRuntime
  <1> QED BY <1>1, <1>2, <1>3, <1>4, <1>5, <1>6 DEF StoreInv, TypeOK

LEMMA StoreInvStep == StoreInv /\ [Next]_vars => StoreInv'
  <1> SUFFICES ASSUME StoreInv, [Next]_vars
               PROVE  StoreInv'
    OBVIOUS
  <1>1. CASE Boxes
    <2>1. BoxesOK
      BY DEF StoreInv, TypeOK, BoxesOK
    <2>2. BoxesOK'
      BY <1>1, <2>1, BoxesStep DEF Boxes
    <2> QED BY <1>1, <2>2 DEF Boxes, store, StoreInv, TypeOK, BoxesOK, FileLoadable,
                              WorkHasRuntime
  <1>2. CASE Load
    BY <1>2, LoadFailsStep, LoadOnceStep DEF Load
  <1>3. ASSUME NEW ok \in WriteResults, ResolveNext(ok)
        PROVE  StoreInv'
    BY <1>3, ResolveNextStep, EgressAssumption
  <1>4. ASSUME NEW pin \in PinChoices, Prepare(pin)
        PROVE  StoreInv'
    BY <1>4, GenerationStep
  <1>5. ASSUME NEW pin \in PinChoices, Crash(pin) \/ Shutdown(pin)
        PROVE  StoreInv'
    BY <1>5, BootStep DEF Crash, Shutdown
  <1>6. CASE Activate
    BY <1>6, GenerationStep
  <1>7. CASE UNCHANGED vars
    BY <1>7 DEF vars, StoreInv, TypeOK, FileLoadable, Loadable, BoundIn,
                WatchedHaveRecord, WorkHasRuntime
  <1> QED BY <1>1, <1>2, <1>3, <1>4, <1>5, <1>6, <1>7 DEF Next

(* The variables keep their types: in particular no key is ever given a port *)
(* outside the configured range, and no child a record it cannot report to.  *)
THEOREM EgressTypeCorrect == Spec => []TypeOK
  <1>1. StoreInv => TypeOK
    BY DEF StoreInv
  <1> QED BY <1>1, StoreInvInit, StoreInvStep, PTL DEF Spec

(* proxy-bindings.mjs: whatever pins, reloads, lost nodes, failed writes and *)
(* kills come, the file that resolve leaves is one that load accepts.        *)
THEOREM FileStaysLoadable == Spec => []FileLoadable
  <1>1. StoreInv => FileLoadable
    BY DEF StoreInv
  <1> QED BY <1>1, StoreInvInit, StoreInvStep, PTL DEF Spec

LEMMA FollowInvInit == Init => FollowInv
  <1> SUFFICES ASSUME Init
               PROVE  FollowInv
    OBVIOUS
  <1>1. \A s \in Slots, d \in Unpinned :
           runtime[s] = NoRuntime \/ runtime[s].key[d] = Unusable
    BY DEF Init, NewRuntime, Unpinned
  <1>2. KeysLast
    BY <1>1 DEF KeysLast
  <1>3. work = Idle
    BY DEF Init
  <1> QED BY <1>2, <1>3, StoreInvInit DEF FollowInv, MemoryAgrees, RestWritten

\* One step of BindingStays.
BindingStaysStep ==
    \A d \in Unpinned : (file # NoFile /\ file[d] # Unbound) =>
        (file' # NoFile /\ file'[d] # Unbound /\ file'[d].node = file[d].node)

LEMMA FollowInvStep == FollowInv /\ [Next]_vars => FollowInv' /\ BindingStaysStep
  <1> SUFFICES ASSUME FollowInv, [Next]_vars
               PROVE  FollowInv' /\ BindingStaysStep
    OBVIOUS
  <1>1. StoreInv'
    BY StoreInvStep DEF FollowInv
  <1>2. CASE Load
    <2>1. UNCHANGED file
      BY <1>2 DEF Load, LoadFails, LoadOnce, store
    <2> QED BY <1>1, <1>2, <2>1, FollowLoad DEF FollowInv, BindingStaysStep
  <1>3. ASSUME NEW ok \in WriteResults, ResolveNext(ok)
        PROVE  FollowInv' /\ BindingStaysStep
    <2>1. ok \in BOOLEAN
      BY EgressAssumption
    <2> QED BY <1>1, <1>3, <2>1, FollowResolve DEF FollowInv, BindingStaysStep
  <1>4. CASE \/ Boxes \/ Activate \/ UNCHANGED vars
             \/ \E pin \in PinChoices : Prepare(pin) \/ Crash(pin) \/ Shutdown(pin)
    BY <1>1, <1>4, FollowOther DEF FollowInv, BindingStaysStep
  <1> QED BY <1>2, <1>3, <1>4 DEF Next

(* docs/egress.md: "A binding does not silently move when its node fails."   *)
(* No reload, failed write or kill moves a sticky-auto deployment either.    *)
THEOREM BindingNeverMoves == Spec => BindingStays
  <1>1. FollowInv /\ [Next]_vars => BindingStaysStep
    BY FollowInvStep
  <1>2. BindingStaysStep <=>
          \A d \in Unpinned : (file # NoFile /\ file[d] # Unbound) =>
             (file' # NoFile /\ file'[d] # Unbound /\ file'[d].node = file[d].node)
    BY DEF BindingStaysStep
  <1> QED BY <1>1, <1>2, FollowInvInit, FollowInvStep, PTL DEF Spec, BindingStays

(* A sticky-auto key in use goes through the node its binding on disk names. *)
THEOREM KeysAlwaysFollowFile == Spec => []KeysFollowFile
  <1>1. FollowInv => KeysFollowFile
    BY DEF FollowInv, KeysLast, Lasting, KeysFollowFile
  <1> QED BY <1>1, FollowInvInit, FollowInvStep, PTL DEF Spec

-----------------------------------------------------------------------------
(* The children.  A child that a record names is alive and watched, so its *)
(* end is reported to the record, which schedules a restart.               *)

ChildrenWatched ==
    \A n \in Nodes : HasChild(n) =>
        /\ process[listener[n].child] # Gone
        /\ process[listener[n].child].watch \in {"probed", "ready"}
        /\ process[listener[n].child].node = n

\* The bindings on disk give node n the port p.
Gives(f, n, p) ==
    f # NoFile /\ \E d \in Deployments : f[d] # Unbound /\ f[d].node = n /\ f[d].port = p

FileGrows == \A n \in Nodes, p \in Ports : Gives(file, n, p) => Gives(file', n, p)

\* Processes and records use the ports that the file gives their nodes.
BoxesRegistered ==
    /\ \A c \in Processes : process[c] # Gone => Gives(file, process[c].node, process[c].port)
    /\ \A n \in Nodes : listener[n] # NoListener => Gives(file, n, listener[n].port)

BoxesInv == BoxesOK /\ ListenersRevive /\ ChildrenWatched

\* The child c is started for node n.
Spawned(n, port, c) ==
    /\ process[c] = Gone
    /\ process'[c] = [node |-> n, port |-> port, up |-> FALSE, watch |-> "probed"]
    /\ \A e \in Processes \ {c} : process'[e] = process[e]
    /\ listener'[n].child = c

\* Spawning throws: the record keeps its child, and a restart is scheduled.
SpawnFailed(n) ==
    /\ process' = process
    /\ listener'[n].timer = TRUE
    /\ listener'[n].child = IF HasChild(n) THEN listener[n].child ELSE NoProcess

(* What starting a listener does, whether the child comes up or spawning   *)
(* throws.                                                                 *)
LEMMA StartFacts ==
  ASSUME BoxesInv, NEW n \in Nodes, NEW port \in Ports, NEW timer \in BOOLEAN,
         Start(n, port, timer)
  PROVE  /\ listener'[n] # NoListener /\ listener'[n].port = port
         /\ \A m \in Nodes \ {n} : listener'[m] = listener[m]
         /\ SpawnFailed(n) \/ \E c \in Processes : Spawned(n, port, c)
  <1>0. listener'[n] # NoListener
    BY StartKeepsBoxes, SentinelAssumption DEF BoxesInv
  <1>1. CASE /\ Alive # Processes
             /\ listener' = [listener EXCEPT ![n] =
                    [port |-> port, state |-> "starting", child |-> NextProcess,
                     timer |-> timer]]
             /\ process' = [process EXCEPT ![NextProcess] =
                    [node |-> n, port |-> port, up |-> FALSE, watch |-> "probed"]]
    <2>1. Processes \ Alive # {} /\ Processes \ Alive \in SUBSET Nat
      BY <1>1 DEF Alive, Processes
    <2>2. \E c \in Processes \ Alive : \A e \in Processes \ Alive : c <= e
      BY <2>1, NatMinimum
    <2>3. NextProcess \in Processes /\ process[NextProcess] = Gone
      BY <2>2 DEF NextProcess, Alive
    <2> DEFINE new == [port |-> port, state |-> "starting", child |-> NextProcess,
                       timer |-> timer]
    <2>4. /\ listener'[n] = new /\ new.port = port /\ new.child = NextProcess
          /\ \A m \in Nodes \ {n} : listener'[m] = listener[m]
      BY <1>1 DEF BoxesInv, BoxesOK
    <2>5. /\ process'[NextProcess] = [node |-> n, port |-> port, up |-> FALSE,
                                      watch |-> "probed"]
          /\ \A e \in Processes \ {NextProcess} : process'[e] = process[e]
      BY <1>1, <2>3 DEF BoxesInv, BoxesOK
    <2> HIDE DEF new
    <2>6. Spawned(n, port, NextProcess)
      BY <2>3, <2>4, <2>5 DEF Spawned
    <2> QED BY <1>0, <2>3, <2>4, <2>6
  <1>2. CASE /\ listener' = [listener EXCEPT ![n] =
                    [port |-> port, state |-> "error", timer |-> TRUE,
                     child |-> IF HasChild(n) THEN @.child ELSE NoProcess]]
             /\ process' = process
    <2> DEFINE child == IF HasChild(n) THEN listener[n].child ELSE NoProcess
               new == [port |-> port, state |-> "error", timer |-> TRUE, child |-> child]
    <2>1. listener' = [listener EXCEPT ![n] = new]
      BY <1>2 DEF BoxesInv, BoxesOK
    <2> HIDE DEF child
    <2>2. /\ listener'[n] = new /\ new.port = port /\ new.timer = TRUE /\ new.child = child
          /\ \A m \in Nodes \ {n} : listener'[m] = listener[m]
      BY <2>1 DEF BoxesInv, BoxesOK
    <2> HIDE DEF new
    <2>3. SpawnFailed(n)
      BY <1>2, <2>2 DEF SpawnFailed, child
    <2> QED BY <1>0, <2>2, <2>3
  <1> QED BY <1>1, <1>2 DEF Start

(* Starting a listener leaves it with a child or a restart scheduled.      *)
LEMMA StartRevives ==
  ASSUME BoxesInv, NEW n \in Nodes, NEW port \in Ports, NEW timer \in BOOLEAN,
         Start(n, port, timer)
  PROVE  /\ BoxesInv'
         /\ (BoxesRegistered /\ FileGrows /\ Gives(file', n, port)) => BoxesRegistered'
  <1>1. BoxesOK' /\ BoxesOK
    BY StartKeepsBoxes DEF BoxesInv
  <1>2. ASSUME NEW c \in Processes, Spawned(n, port, c)
        PROVE  /\ BoxesInv'
               /\ (BoxesRegistered /\ FileGrows /\ Gives(file', n, port)) => BoxesRegistered'
    <2>1. /\ process[c] = Gone
          /\ process'[c] = [node |-> n, port |-> port, up |-> FALSE, watch |-> "probed"]
          /\ \A e \in Processes \ {c} : process'[e] = process[e]
          /\ listener'[n].child = c
      BY <1>2 DEF Spawned
    <2>2. /\ listener'[n] # NoListener /\ listener'[n].port = port
          /\ \A m \in Nodes \ {n} : listener'[m] = listener[m]
      BY StartFacts
    <2>3. c # NoProcess /\ process'[c] # Gone
      <3>1. c # NoProcess
        BY DEF Processes, NoProcess
      <3>2. [node |-> n, port |-> port, up |-> FALSE, watch |-> "probed"] \in ProcessRecords
        BY DEF ProcessRecords
      <3> QED BY <2>1, <3>1, <3>2, SentinelAssumption
    <2>4. ListenersRevive'
      BY <2>1, <2>2, <2>3 DEF BoxesInv, ListenersRevive, HasChild
    <2>5. ChildrenWatched'
      <3>1. ASSUME NEW m \in Nodes \ {n}, HasChild(m)'
            PROVE  /\ listener'[m] = listener[m] /\ HasChild(m)
                   /\ process'[listener[m].child] = process[listener[m].child]
        <4>1. listener'[m] = listener[m] /\ HasChild(m)
          BY <2>2, <3>1 DEF HasChild
        <4>2. listener[m].child \in Processes /\ listener[m].child # c
          BY <1>1, <2>1, <4>1 DEF BoxesInv, BoxesOK, ChildrenWatched, HasChild, Listeners
        <4> QED BY <2>1, <4>1, <4>2
      <3> QED BY <2>1, <2>3, <3>1 DEF BoxesInv, ChildrenWatched, HasChild
    <2>6. ASSUME BoxesRegistered, FileGrows, Gives(file', n, port)
          PROVE  BoxesRegistered'
      <3>1. ASSUME NEW e \in Processes, process'[e] # Gone
            PROVE  Gives(file', process'[e].node, process'[e].port)
        <4>1. CASE e = c
          BY <2>1, <2>6, <4>1
        <4>2. CASE e # c
          <5>1. process'[e] = process[e] /\ process[e] \in ProcessRecords
            BY <1>1, <2>1, <3>1, <4>2 DEF BoxesOK
          <5>2. process[e].node \in Nodes /\ process[e].port \in Ports
            BY <5>1 DEF ProcessRecords
          <5> QED BY <2>6, <3>1, <5>1, <5>2 DEF BoxesRegistered, FileGrows
        <4> QED BY <4>1, <4>2
      <3>2. ASSUME NEW m \in Nodes, listener'[m] # NoListener
            PROVE  Gives(file', m, listener'[m].port)
        <4>1. CASE m # n
          <5>1. listener'[m] = listener[m] /\ listener[m].port \in Ports
            BY <1>1, <2>2, <3>2, <4>1 DEF BoxesOK, Listeners
          <5> QED BY <2>6, <3>2, <5>1 DEF BoxesRegistered, FileGrows
        <4> QED BY <2>2, <2>6, <4>1
      <3> QED BY <3>1, <3>2 DEF BoxesRegistered
    <2> QED BY <1>1, <2>4, <2>5, <2>6 DEF BoxesInv
  <1>3. CASE SpawnFailed(n)
    <2>1. /\ process' = process
          /\ listener'[n].timer = TRUE
          /\ listener'[n].child = IF HasChild(n) THEN listener[n].child ELSE NoProcess
      BY <1>3 DEF SpawnFailed
    <2>2. /\ listener'[n] # NoListener /\ listener'[n].port = port
          /\ \A m \in Nodes \ {n} : listener'[m] = listener[m]
      BY StartFacts
    <2>3. ListenersRevive'
      BY <2>1, <2>2 DEF BoxesInv, ListenersRevive, HasChild
    <2>4. \A m \in Nodes : HasChild(m)' => HasChild(m) /\ listener'[m].child = listener[m].child
      BY <2>1, <2>2 DEF HasChild
    <2>5. ChildrenWatched'
      BY <2>1, <2>4 DEF BoxesInv, ChildrenWatched
    <2>6. ASSUME BoxesRegistered, FileGrows, Gives(file', n, port)
          PROVE  BoxesRegistered'
      <3>1. ASSUME NEW e \in Processes, process'[e] # Gone
            PROVE  Gives(file', process'[e].node, process'[e].port)
        <4>1. process'[e] = process[e] /\ process[e].node \in Nodes /\ process[e].port \in Ports
          BY <1>1, <2>1, <3>1 DEF BoxesOK, ProcessRecords
        <4> QED BY <2>6, <3>1, <4>1 DEF BoxesRegistered, FileGrows
      <3>2. ASSUME NEW m \in Nodes, listener'[m] # NoListener
            PROVE  Gives(file', m, listener'[m].port)
        <4>1. CASE m # n
          <5>1. listener'[m] = listener[m] /\ listener[m].port \in Ports
            BY <1>1, <2>2, <3>2, <4>1 DEF BoxesOK, Listeners
          <5> QED BY <2>6, <3>2, <5>1 DEF BoxesRegistered, FileGrows
        <4> QED BY <2>2, <2>6, <4>1
      <3> QED BY <3>1, <3>2 DEF BoxesRegistered
    <2> QED BY <1>1, <2>3, <2>5, <2>6 DEF BoxesInv
  <1> QED BY <1>2, <1>3, StartFacts

(* The same when a listener is asked for. *)
LEMMA EnsureRevives ==
  ASSUME BoxesInv, NEW n \in Nodes, NEW port \in Ports, Ensure(n, port)
  PROVE  /\ BoxesInv'
         /\ (BoxesRegistered /\ FileGrows /\ Gives(file', n, port)) => BoxesRegistered'
         /\ listener'[n] # NoListener
  <1>1. CASE HasChild(n)
    <2>1. UNCHANGED <<listener, process>>
      BY <1>1 DEF Ensure, boxes
    <2>2. BoxesInv'
      BY <2>1 DEF BoxesInv, BoxesOK, WatchedHaveRecord, ListenersRevive, ChildrenWatched, HasChild
    <2>3. /\ \A c \in Processes : process[c] # Gone =>
                 process[c].node \in Nodes /\ process[c].port \in Ports
          /\ \A m \in Nodes : listener[m] # NoListener => listener[m].port \in Ports
      BY DEF BoxesInv, BoxesOK, ProcessRecords, Listeners
    <2>4. (BoxesRegistered /\ FileGrows) => BoxesRegistered'
      BY <2>1, <2>3 DEF BoxesRegistered, FileGrows
    <2> QED BY <1>1, <2>1, <2>2, <2>4 DEF HasChild
  <1>2. CASE ~ HasChild(n)
    <2>1. RestartPending(n) \in BOOLEAN
      BY DEF RestartPending, BoxesInv, BoxesOK, Listeners
    <2>2. Start(n, port, RestartPending(n))
      BY <1>2 DEF Ensure
    <2> QED BY <2>1, <2>2, StartRevives, StartFacts
  <1> QED BY <1>1, <1>2

(* A child that ends or is given up is taken out of its record, which      *)
(* schedules a restart.                                                    *)
LEMMA FinalizedRevives ==
  ASSUME BoxesInv, NEW c \in Processes, process[c] # Gone,
         process[c].watch \in {"probed", "ready"}, listener' = Finalized(c)
  PROVE  /\ \A m \in Nodes :
               /\ listener'[m] # NoListener <=> listener[m] # NoListener
               /\ listener[m] # NoListener => listener'[m].port = listener[m].port
               /\ HasChild(m)' => HasChild(m) /\ listener'[m].child = listener[m].child
                                  /\ listener'[m].child # c
         /\ ListenersRevive'
  <1> DEFINE n   == process[c].node
             old == listener[n]
             new == [old EXCEPT !.child = IF @ = c THEN NoProcess ELSE @,
                                !.state = "error", !.timer = TRUE]
  <1>1. n \in Nodes /\ old \in Listeners /\ old # NoListener
    BY SentinelAssumption DEF BoxesInv, BoxesOK, WatchedHaveRecord, ProcessRecords
  <1>2. /\ new \in Listeners /\ new.timer = TRUE /\ new.port = old.port
        /\ new.child = IF old.child = c THEN NoProcess ELSE old.child
    BY <1>1 DEF Listeners
  <1>3. listener' = [listener EXCEPT ![n] = new]
    BY <1>1 DEF Finalized, BoxesInv, BoxesOK, Listeners
  <1> HIDE DEF new
  <1>4. /\ listener'[n] = new /\ new # NoListener
        /\ \A m \in Nodes \ {n} : listener'[m] = listener[m]
    BY <1>1, <1>2, <1>3, SentinelAssumption DEF BoxesInv, BoxesOK
  <1>5. \A m \in Nodes \ {n} : HasChild(m) => listener[m].child # c
    BY DEF BoxesInv, ChildrenWatched
  <1>6. ASSUME NEW m \in Nodes
        PROVE  /\ listener'[m] # NoListener <=> listener[m] # NoListener
               /\ listener[m] # NoListener => listener'[m].port = listener[m].port
               /\ HasChild(m)' => HasChild(m) /\ listener'[m].child = listener[m].child
                                  /\ listener'[m].child # c
               /\ listener'[m] # NoListener => HasChild(m)' \/ listener'[m].timer
    <2>1. CASE m = n
      BY <1>1, <1>2, <1>4, <2>1 DEF HasChild
    <2>2. CASE m # n
      BY <1>4, <1>5, <2>2 DEF HasChild, BoxesInv, ListenersRevive
    <2> QED BY <2>1, <2>2
  <1> QED BY <1>6 DEF ListenersRevive

(* Every step of the manager keeps a child or a restart for each record,   *)
(* and the ports as the file gives them. *)
LEMMA RevivalStep ==
  ASSUME BoxesInv, file' = file,
         \/ \E n \in Nodes : RestartTimer(n)
         \/ \E c \in Processes : Exit(c) \/ Listen(c) \/ BecomeReady(c) \/ GiveUp(c)
  PROVE  BoxesInv' /\ (BoxesRegistered => BoxesRegistered')
  <1>1. BoxesOK /\ BoxesOK' /\ FileGrows
    BY BoxesStep DEF BoxesInv, FileGrows
  <1>2. ASSUME NEW n \in Nodes, RestartTimer(n)
        PROVE  BoxesInv' /\ (BoxesRegistered => BoxesRegistered')
    <2>1. listener[n].port \in Ports /\ listener[n] # NoListener
      BY <1>1, <1>2 DEF RestartTimer, RestartPending, BoxesOK, Listeners
    <2>2. Start(n, listener[n].port, FALSE)
      BY <1>2 DEF RestartTimer
    <2>3. BoxesRegistered => Gives(file', n, listener[n].port)
      BY <2>1 DEF BoxesRegistered
    <2> QED BY <1>1, <2>1, <2>2, <2>3, StartRevives
  \* Processes that stay keep their node and port; records their port.
  <1>3. ASSUME ListenersRevive',
               \A c \in Processes : process'[c] # Gone =>
                  /\ process[c] # Gone
                  /\ process'[c].node = process[c].node /\ process'[c].port = process[c].port,
               \A m \in Nodes :
                  /\ listener'[m] # NoListener => listener[m] # NoListener
                                                  /\ listener'[m].port = listener[m].port
                  /\ HasChild(m)' =>
                        /\ HasChild(m) /\ listener'[m].child = listener[m].child
                        /\ process'[listener[m].child] # Gone
                        /\ process'[listener[m].child].watch \in {"probed", "ready"}
        PROVE  BoxesInv' /\ (BoxesRegistered => BoxesRegistered')
    <2>1. \A m \in Nodes : HasChild(m) => listener[m].child \in Processes
      BY <1>1 DEF HasChild, BoxesOK, Listeners
    <2>2. ChildrenWatched'
      BY <1>3, <2>1 DEF BoxesInv, ChildrenWatched
    <2>3. BoxesRegistered => BoxesRegistered'
      BY <1>3 DEF BoxesRegistered
    <2> QED BY <1>1, <1>3, <2>2, <2>3 DEF BoxesInv
  <1>4. ASSUME NEW c \in Processes, Exit(c)
        PROVE  BoxesInv' /\ (BoxesRegistered => BoxesRegistered')
    <2>1. process[c] # Gone /\ process'[c] = Gone
          /\ \A e \in Processes \ {c} : process'[e] = process[e]
      BY <1>1, <1>4 DEF Exit, BoxesOK
    <2>2. \A m \in Nodes : HasChild(m) => listener[m].child \in Processes
      BY <1>1 DEF HasChild, BoxesOK, Listeners
    <2>3. CASE process[c].watch \in {"probed", "ready"}
      <3>1. listener' = Finalized(c)
        BY <1>4, <2>3 DEF Exit
      <3> QED BY <1>3, <2>1, <2>2, <2>3, <3>1, FinalizedRevives DEF BoxesInv, ChildrenWatched
    <2>4. CASE process[c].watch \notin {"probed", "ready"}
      <3>1. listener' = listener
        BY <1>4, <2>4 DEF Exit
      <3>2. \A m \in Nodes : HasChild(m) => listener[m].child # c
        BY <2>4 DEF BoxesInv, ChildrenWatched
      <3> QED BY <1>3, <2>1, <2>2, <3>1, <3>2 DEF BoxesInv, ChildrenWatched, ListenersRevive,
                                                   HasChild
    <2> QED BY <2>3, <2>4
  <1>5. ASSUME NEW c \in Processes, Listen(c)
        PROVE  BoxesInv' /\ (BoxesRegistered => BoxesRegistered')
    <2> DEFINE new == [process[c] EXCEPT !.up = TRUE]
    <2>1. process[c] \in ProcessRecords /\ process[c] # Gone
      BY <1>1, <1>5 DEF Listen, BoxesOK
    <2>2. /\ new.watch = process[c].watch /\ new.node = process[c].node
          /\ new.port = process[c].port /\ new \in ProcessRecords
      BY <2>1 DEF ProcessRecords
    <2>3. process' = [process EXCEPT ![c] = new] /\ listener' = listener
      BY <1>1, <1>5 DEF Listen, BoxesOK
    <2> HIDE DEF new
    <2>4. /\ process'[c] = new /\ new # Gone
          /\ \A e \in Processes \ {c} : process'[e] = process[e]
      BY <1>1, <2>2, <2>3, SentinelAssumption DEF BoxesOK
    <2>5. \A m \in Nodes : HasChild(m) => listener[m].child \in Processes
      BY <1>1 DEF HasChild, BoxesOK, Listeners
    <2> QED BY <1>3, <2>1, <2>2, <2>3, <2>4, <2>5
            DEF BoxesInv, ChildrenWatched, ListenersRevive, HasChild
  <1>6. ASSUME NEW c \in Processes, BecomeReady(c)
        PROVE  BoxesInv' /\ (BoxesRegistered => BoxesRegistered')
    <2> DEFINE n == process[c].node
               newP == [process[c] EXCEPT !.watch = "ready"]
               newL == [listener[n] EXCEPT !.state = "running"]
    <2>1. /\ process[c] \in ProcessRecords /\ process[c] # Gone
          /\ n \in Nodes /\ listener[n] \in Listeners /\ listener[n] # NoListener
      BY <1>1, <1>6, SentinelAssumption
         DEF BecomeReady, Probed, BoxesOK, WatchedHaveRecord, ProcessRecords
    <2>2. /\ newP \in ProcessRecords /\ newP.node = n /\ newP.port = process[c].port
          /\ newP.watch = "ready"
      BY <2>1 DEF ProcessRecords
    <2>3. /\ newL \in Listeners /\ newL.port = listener[n].port
          /\ newL.child = listener[n].child /\ newL.timer = listener[n].timer
      BY <2>1 DEF Listeners
    <2>4. process' = [process EXCEPT ![c] = newP] /\ listener' = [listener EXCEPT ![n] = newL]
      BY <1>1, <1>6 DEF BecomeReady, BoxesOK
    <2> HIDE DEF newP, newL, n
    <2>5. /\ process'[c] = newP /\ newP # Gone
          /\ \A e \in Processes \ {c} : process'[e] = process[e]
          /\ listener'[n] = newL /\ newL # NoListener
          /\ \A m \in Nodes \ {n} : listener'[m] = listener[m]
      BY <1>1, <2>1, <2>2, <2>3, <2>4, SentinelAssumption DEF BoxesOK
    <2>6. \A m \in Nodes : HasChild(m) => listener[m].child \in Processes
      BY <1>1 DEF HasChild, BoxesOK, Listeners
    <2>7. ASSUME NEW m \in Nodes
          PROVE  /\ listener'[m] # NoListener => listener[m] # NoListener
                                                 /\ listener'[m].port = listener[m].port
                                                 /\ listener'[m].timer = listener[m].timer
                 /\ HasChild(m)' <=> HasChild(m)
                 /\ HasChild(m) => listener'[m].child = listener[m].child
      BY <2>1, <2>3, <2>5 DEF HasChild
    <2>8. ListenersRevive'
      BY <2>7 DEF BoxesInv, ListenersRevive
    <2>9. ASSUME NEW m \in Nodes, HasChild(m)
          PROVE  /\ process'[listener[m].child] # Gone
                 /\ process'[listener[m].child].watch \in {"probed", "ready"}
      BY <2>2, <2>5, <2>6, <2>9 DEF BoxesInv, ChildrenWatched
    <2>10. ASSUME NEW e \in Processes, process'[e] # Gone
           PROVE  /\ process[e] # Gone
                  /\ process'[e].node = process[e].node /\ process'[e].port = process[e].port
      BY <2>1, <2>2, <2>5, <2>10 DEF n
    <2> QED BY <1>3, <2>7, <2>8, <2>9, <2>10
  <1>7. ASSUME NEW c \in Processes, GiveUp(c)
        PROVE  BoxesInv' /\ (BoxesRegistered => BoxesRegistered')
    <2> DEFINE new == [process[c] EXCEPT !.watch = "killed"]
    <2>1. /\ process[c] \in ProcessRecords /\ process[c] # Gone
          /\ process[c].watch \in {"probed", "ready"} /\ listener' = Finalized(c)
      BY <1>1, <1>7 DEF GiveUp, Probed, BoxesOK
    <2>2. new.node = process[c].node /\ new.port = process[c].port
      BY <2>1 DEF ProcessRecords
    <2>3. process' = [process EXCEPT ![c] = new]
      BY <1>1, <1>7 DEF GiveUp, BoxesOK
    <2> HIDE DEF new
    <2>4. /\ process'[c] = new
          /\ \A e \in Processes \ {c} : process'[e] = process[e]
      BY <1>1, <2>3 DEF BoxesOK
    <2>5. \A m \in Nodes : HasChild(m) => listener[m].child \in Processes
      BY <1>1 DEF HasChild, BoxesOK, Listeners
    <2> QED BY <1>3, <2>1, <2>2, <2>4, <2>5, FinalizedRevives DEF BoxesInv, ChildrenWatched
  <1> QED BY <1>2, <1>4, <1>5, <1>6, <1>7

\* Keys in use have the port that the file gives their node.
KeysRegistered ==
    \A s \in Slots, d \in Deployments :
        (runtime[s] # NoRuntime /\ runtime[s].key[d] # Unusable) =>
            Gives(file, runtime[s].key[d].node, runtime[s].key[d].port)

\* Memory holds nothing that the file lacks, whenever a key is resolved.
MemoryIsFile ==
    /\ file = NoFile => bindings = NothingBound
    /\ (work # Idle /\ file # NoFile) => bindings = file

Registered == BoxesRegistered /\ KeysRegistered /\ MemoryIsFile

ServeInv == /\ StoreInv
            /\ ListenersRevive
            /\ ChildrenWatched
            /\ ~ moved => Registered

(* The manager's part of the invariant. *)
LEMMA ServeInvBoxes == ServeInv => BoxesInv
  BY DEF ServeInv, StoreInv, TypeOK, BoxesInv, BoxesOK

(* A step that leaves the manager and the file alone keeps what rests on   *)
(* them, if it brings no new key into use.                                 *)
LEMMA KeysRegisteredKept ==
  ASSUME KeysRegistered, file' = file,
         \A s \in Slots, d \in Deployments :
            (runtime'[s] # NoRuntime /\ runtime'[s].key[d] # Unusable) =>
               \E t \in Slots : /\ runtime[t] # NoRuntime
                                /\ runtime[t].key[d] = runtime'[s].key[d]
  PROVE  KeysRegistered'
  BY DEF KeysRegistered

LEMMA BoxesKept ==
  ASSUME ListenersRevive, ChildrenWatched, UNCHANGED boxes
  PROVE  /\ ListenersRevive' /\ ChildrenWatched'
         /\ (BoxesRegistered /\ file' = file) => BoxesRegistered'
  <1>1. listener' = listener /\ process' = process
    BY DEF boxes
  <1>2. ListenersRevive' /\ ChildrenWatched'
    BY <1>1 DEF ListenersRevive, ChildrenWatched, HasChild
  <1>3. (BoxesRegistered /\ file' = file) => BoxesRegistered'
    BY <1>1 DEF BoxesRegistered
  <1> QED BY <1>2, <1>3

(* Loading. *)
LEMMA ServeLoad ==
  ASSUME ServeInv, Load
  PROVE  ListenersRevive' /\ ChildrenWatched' /\ (~ moved' => Registered')
  <1>1. UNCHANGED boxes /\ file' = file /\ moved' = moved
    BY DEF Load, LoadFails, LoadOnce, store
  <1>2. /\ ListenersRevive' /\ ChildrenWatched'
        /\ BoxesRegistered => BoxesRegistered'
    BY <1>1, BoxesKept DEF ServeInv
  <1>3. ASSUME NEW slot \in Slots, LoadFails(slot), Registered
        PROVE  KeysRegistered' /\ MemoryIsFile'
    <2> DEFINE r == [NewRuntime(runtime[slot].pin) EXCEPT !.loaded = TRUE, !.retries = TRUE]
    <2>1. /\ runtime \in [Slots -> Runtimes \cup {NoRuntime}]
          /\ work = Idle /\ UNCHANGED store /\ UNCHANGED work
      BY <1>3 DEF LoadFails, MayLoad, ServeInv, StoreInv, TypeOK
    <2>2. runtime' = Settled(slot, r)
      BY <1>3 DEF LoadFails
    <2>3. \A d \in Deployments : r.key[d] = Unusable
      BY DEF NewRuntime
    <2> HIDE DEF r
    <2>4. \A s \in Slots : runtime'[s] = r \/ runtime'[s] = NoRuntime \/ runtime'[s] = runtime[s]
      BY <2>1, <2>2 DEF Settled
    <2>5. KeysRegistered'
      BY <1>1, <1>3, <2>3, <2>4, KeysRegisteredKept DEF Registered
    <2> QED BY <1>3, <2>1, <2>5 DEF Registered, MemoryIsFile, store
  <1>4. ASSUME NEW slot \in Slots, NEW available \in SUBSET Nodes,
               LoadOnce(slot, available), Registered
        PROVE  KeysRegistered' /\ MemoryIsFile'
    <2>1. /\ bindings' = IF file = NoFile THEN bindings ELSE file
          /\ file' = file /\ runtime' = runtime
      BY <1>4 DEF LoadOnce
    <2> QED BY <1>4, <2>1 DEF Registered, KeysRegistered, MemoryIsFile
  <1>5. Load => \/ \E slot \in Slots : LoadFails(slot)
                \/ \E slot \in Slots, available \in SUBSET Nodes : LoadOnce(slot, available)
    BY DEF Load
  <1> QED BY <1>1, <1>2, <1>3, <1>4, <1>5 DEF ServeInv, Registered

(* A write made while nothing has moved only adds a binding to the file.   *)
LEMMA WriteAddsBinding ==
  ASSUME StoreInv, MemoryIsFile, work # Idle, NEW d \in Deployments,
         NEW b \in BindingMaps, bindings[d] = Unbound,
         \A e \in Deployments \ {d} : b[e] = bindings[e]
  PROVE  \A n \in Nodes, p \in Ports : Gives(file, n, p) => Gives(b, n, p)
  <1> SUFFICES ASSUME NEW n \in Nodes, NEW p \in Ports, Gives(file, n, p)
               PROVE  Gives(b, n, p)
    OBVIOUS
  <1>1. bindings = file
    BY DEF Gives, MemoryIsFile
  <1>2. PICK e \in Deployments : file[e] # Unbound /\ file[e].node = n /\ file[e].port = p
    BY DEF Gives
  <1>3. e # d
    BY <1>1, <1>2
  <1> QED BY <1>1, <1>2, <1>3, EgressAssumption DEF Gives

(* Resolving one key. *)
LEMMA ServeResolve ==
  ASSUME ServeInv, NEW ok \in BOOLEAN, ResolveNext(ok)
  PROVE  ListenersRevive' /\ ChildrenWatched' /\ (~ moved' => Registered')
  <1> DEFINE d    == work.next
             r    == runtime[work.slot]
             res  == Resolution(d, r.pin[d], work.available, bindings)
             good == res.usable /\ (res.written => ok)
             node == res.bindings[d].node
             key  == IF good /\ listener'[node].state # "error"
                     THEN [node |-> node, port |-> listener'[node].port]
                     ELSE Unusable
             done == [r EXCEPT !.key[d] = key]
  <1>1. /\ work \in Works /\ work # Idle
        /\ r \in Runtimes
        /\ RuntimesOK
        /\ bindings \in BindingMaps
        /\ Loadable(bindings)
        /\ file \in BindingMaps \cup {NoFile}
        /\ StoreInv
    BY DEF ServeInv, StoreInv, TypeOK, RuntimesOK, ResolveNext, WorkHasRuntime, Works
  <1>2. /\ d \in Deployments
        /\ work.slot \in Slots
        /\ work.available \in SUBSET Nodes
    BY <1>1 DEF Works
  <1>3. r.pin[d] \in Nodes \cup {NoNode}
    BY <1>1, <1>2, EgressAssumption DEF Runtimes
  <1>4. /\ res.bindings \in BindingMaps
        /\ res.usable => res.bindings[d] \in Bindings
    BY <1>1, <1>2, <1>3, ResolutionLoadable
  <1>5. /\ \A e \in Deployments \ {d} : res.bindings[e] = bindings[e]
        /\ ~ res.written => res.bindings = bindings
    BY <1>1, <1>2, <1>3, ResolutionKeeps
  <1>6. /\ bindings' = res.bindings
        /\ file' = IF res.written /\ ok THEN res.bindings ELSE file
        /\ moved' = (moved \/ (res.written /\ (~ ok \/ bindings[d] # Unbound)))
        /\ IF good THEN Ensure(node, res.bindings[d].port) ELSE UNCHANGED boxes
        /\ IF d = NumDeployments
           THEN /\ work' = Idle
                /\ runtime' = Settled(work.slot, [done EXCEPT !.loaded = TRUE])
           ELSE /\ work' = [work EXCEPT !.next = d + 1]
                /\ runtime' = [runtime EXCEPT ![work.slot] = done]
    BY DEF ResolveNext
  <1> HIDE DEF res
  <1>7. BoxesInv
    BY ServeInvBoxes
  <1>8. good => node \in Nodes /\ res.bindings[d].port \in Ports /\ res.bindings[d] # Unbound
    BY <1>4, BindingsAssumption DEF Bindings
  \* What the write does, if nothing has moved.
  <1>9. ASSUME ~ moved'
        PROVE  /\ ~ moved /\ Registered
               /\ res.written => ok /\ bindings[d] = Unbound
               /\ FileGrows
               /\ good => Gives(file', node, res.bindings[d].port)
               /\ MemoryIsFile'
    <2>1. /\ ~ moved /\ Registered
          /\ res.written => ok /\ bindings[d] = Unbound
      BY <1>6, <1>9 DEF ServeInv
    <2>2. FileGrows
      <3>1. CASE res.written
        <4>1. file' = res.bindings
          BY <1>6, <2>1, <3>1
        <4> QED BY <1>1, <1>2, <1>4, <1>5, <2>1, <3>1, <4>1, WriteAddsBinding
                DEF FileGrows, Registered
      <3>2. CASE ~ res.written
        BY <1>6, <3>2 DEF FileGrows
      <3> QED BY <3>1, <3>2
    <2>3. ASSUME good
          PROVE  Gives(file', node, res.bindings[d].port)
      <3>1. file' = res.bindings /\ file' # NoFile
        <4>1. CASE res.written
          BY <1>4, <1>6, <2>1, <4>1, EgressAssumption
        <4>2. CASE ~ res.written
          <5>1. res.bindings = bindings /\ bindings[d] # Unbound
            BY <1>5, <1>8, <2>3, <4>2
          <5>2. file # NoFile
            BY <1>2, <2>1, <5>1 DEF Registered, MemoryIsFile, NothingBound
          <5>3. bindings = file
            BY <1>1, <2>1, <5>2 DEF Registered, MemoryIsFile
          <5> QED BY <1>6, <4>2, <5>1, <5>2, <5>3
        <4> QED BY <4>1, <4>2
      <3> QED BY <1>2, <1>8, <2>3, <3>1 DEF Gives
    <2>4. MemoryIsFile'
      <3>1. CASE res.written
        <4>1. file' = res.bindings /\ file' # NoFile
          BY <1>4, <1>6, <2>1, <3>1, EgressAssumption
        <4> QED BY <1>6, <4>1 DEF MemoryIsFile
      <3>2. CASE ~ res.written
        <4>1. file' = file /\ bindings' = bindings
          BY <1>5, <1>6, <3>2
        <4> QED BY <1>1, <2>1, <4>1 DEF Registered, MemoryIsFile
      <3> QED BY <3>1, <3>2
    <2> QED BY <2>1, <2>2, <2>3, <2>4
  <1>10. /\ BoxesInv'
         /\ ~ moved' => BoxesRegistered'
         /\ good => listener'[node] # NoListener
    <2>1. CASE good
      <3>1. Ensure(node, res.bindings[d].port)
        BY <1>6, <2>1
      <3> HIDE DEF node, good
      <3> QED BY <1>7, <1>8, <1>9, <2>1, <3>1, EnsureRevives DEF Registered
    <2>2. CASE ~ good
      <3>1. UNCHANGED <<listener, process>>
        BY <1>6, <2>2 DEF boxes
      <3>2. BoxesInv'
        BY <1>7, <3>1 DEF BoxesInv, BoxesOK, WatchedHaveRecord, ListenersRevive,
                          ChildrenWatched, HasChild
      <3>3. /\ \A c \in Processes : process[c] # Gone =>
                   process[c].node \in Nodes /\ process[c].port \in Ports
            /\ \A m \in Nodes : listener[m] # NoListener => listener[m].port \in Ports
        BY <1>7 DEF BoxesInv, BoxesOK, ProcessRecords, Listeners
      <3>4. (BoxesRegistered /\ FileGrows) => BoxesRegistered'
        BY <3>1, <3>3 DEF BoxesRegistered, FileGrows
      <3> QED BY <1>9, <2>2, <3>2, <3>4 DEF Registered
    <2> QED BY <2>1, <2>2
  <1>11. ~ moved' => KeysRegistered'
    <2> SUFFICES ASSUME ~ moved', NEW s \in Slots, NEW e \in Deployments,
                        runtime'[s] # NoRuntime, runtime'[s].key[e] # Unusable
                 PROVE  Gives(file', runtime'[s].key[e].node, runtime'[s].key[e].port)
      BY DEF KeysRegistered
    <2>1. key # Unusable => good /\ key.node = node /\ key.port = listener'[node].port
      OBVIOUS
    <2> HIDE DEF key
    <2>2. /\ \A f \in Deployments \ {d} :
                 done.key[f] = r.key[f] /\ [done EXCEPT !.loaded = TRUE].key[f] = r.key[f]
          /\ done.key[d] = key /\ [done EXCEPT !.loaded = TRUE].key[d] = key
      BY <1>1, <1>2 DEF Runtimes
    <2> DEFINE full == [done EXCEPT !.loaded = TRUE]
    <2> HIDE DEF full, done
    <2>3. \/ runtime'[s] \in {done, full}
          \/ runtime'[s] \in {NoRuntime, runtime[s]}
      BY <1>1, <1>2, <1>6 DEF Settled, RuntimesOK, full
    <2>4. CASE runtime'[s].key[e] = key
      <3>1. Gives(file', node, listener'[node].port)
        BY <1>8, <1>10, <2>1, <2>4 DEF BoxesRegistered
      <3> QED BY <2>1, <2>4, <3>1
    <2>5. ASSUME NEW t \in Slots, runtime[t] # NoRuntime, runtime[t].key[e] = runtime'[s].key[e]
          PROVE  Gives(file', runtime'[s].key[e].node, runtime'[s].key[e].port)
      <3>1. Gives(file, runtime[t].key[e].node, runtime[t].key[e].port)
        BY <1>9, <2>5 DEF Registered, KeysRegistered
      <3>2. runtime[t].key[e] \in Usable
        BY <1>1, <2>5 DEF RuntimesOK, Runtimes
      <3>3. runtime[t].key[e].node \in Nodes /\ runtime[t].key[e].port \in Ports
        BY <3>2 DEF Usable
      <3> QED BY <1>9, <2>5, <3>1, <3>3 DEF FileGrows
    <2>6. CASE runtime'[s] \in {done, full} /\ e # d
      <3>1. r # NoRuntime /\ runtime'[s].key[e] = r.key[e]
        BY <1>1, <2>2, <2>6, SentinelAssumption DEF full
      <3> QED BY <1>2, <2>5, <3>1
    <2>7. CASE runtime'[s] \in {done, full} /\ e = d
      BY <2>2, <2>4, <2>7 DEF full
    <2>8. CASE runtime'[s] = runtime[s]
      BY <2>5, <2>8
    <2> QED BY <2>3, <2>6, <2>7, <2>8
  <1> QED BY <1>9, <1>10, <1>11 DEF BoxesInv, Registered

(* The remaining steps bring no key into use and write nothing; a new      *)
(* gateway starts without records, and finds the old children orphaned.    *)
LEMMA ServeOther ==
  ASSUME ServeInv,
         \/ Boxes \/ Activate \/ UNCHANGED vars
         \/ \E pin \in PinChoices : Prepare(pin) \/ Crash(pin) \/ Shutdown(pin)
  PROVE  ListenersRevive' /\ ChildrenWatched' /\ (~ moved' => Registered')
  <1>1. runtime \in [Slots -> Runtimes \cup {NoRuntime}]
    BY DEF ServeInv, StoreInv, TypeOK
  <1>2. CASE Boxes
    <2>1. UNCHANGED <<bindings, file, runtime, work, moved>>
      BY <1>2 DEF Boxes, store
    <2>2. BoxesInv' /\ (BoxesRegistered => BoxesRegistered')
      BY <1>2, <2>1, ServeInvBoxes, RevivalStep DEF Boxes
    <2> QED BY <2>1, <2>2 DEF ServeInv, BoxesInv, Registered, KeysRegistered, MemoryIsFile
  <1>3. CASE UNCHANGED vars
    <2>1. UNCHANGED <<bindings, file, runtime, work, moved>> /\ UNCHANGED boxes
      BY <1>3 DEF vars, boxes
    <2>2. KeysRegistered => KeysRegistered'
      BY <2>1 DEF KeysRegistered
    <2> QED BY <2>1, <2>2, BoxesKept DEF ServeInv, Registered, MemoryIsFile
  <1>4. CASE Activate
    <2>1. UNCHANGED <<bindings, file, work, moved>> /\ UNCHANGED boxes
      BY <1>4 DEF Activate, store
    <2>2. \A s \in Slots : \/ runtime'[s] = NoRuntime
                           \/ \E t \in Slots : runtime'[s] = runtime[t]
      <3>1. runtime' = [runtime EXCEPT !["active"] = runtime["pending"],
                                       !["pending"] = NoRuntime]
        BY <1>4 DEF Activate
      <3> QED BY <1>1, <3>1 DEF Slots
    <2>3. KeysRegistered => KeysRegistered'
      BY <2>1, <2>2, KeysRegisteredKept
    <2> QED BY <2>1, <2>3, BoxesKept DEF ServeInv, Registered, MemoryIsFile
  <1>5. ASSUME NEW pin \in PinChoices, Prepare(pin)
        PROVE  ListenersRevive' /\ ChildrenWatched' /\ (~ moved' => Registered')
    <2>1. UNCHANGED <<bindings, file, work, moved>> /\ UNCHANGED boxes
      BY <1>5 DEF Prepare, store
    <2> DEFINE new == NewRuntime(pin)
    <2>2. \A d \in Deployments : new.key[d] = Unusable
      BY DEF NewRuntime
    <2>3. runtime' = [runtime EXCEPT !["preparing"] = new]
      BY <1>5 DEF Prepare
    <2> HIDE DEF new
    <2>4. \A s \in Slots : runtime'[s] = new \/ runtime'[s] = runtime[s]
      BY <1>1, <2>3
    <2>5. KeysRegistered => KeysRegistered'
      BY <2>1, <2>2, <2>4, KeysRegisteredKept
    <2> QED BY <2>1, <2>5, BoxesKept DEF ServeInv, Registered, MemoryIsFile
  <1>6. ASSUME NEW pin \in PinChoices, NEW left \in SUBSET Alive, Boot(pin, left)
        PROVE  ListenersRevive' /\ ChildrenWatched' /\ (~ moved' => Registered')
    <2>1. /\ work' = Idle /\ file' = file /\ moved' = moved /\ bindings' = NothingBound
          /\ listener' = [n \in Nodes |-> NoListener]
          /\ process' = [c \in Processes |->
                            IF c \in left THEN [process[c] EXCEPT !.watch = "orphaned"]
                            ELSE Gone]
      BY <1>6 DEF Boot
    <2>2. ListenersRevive' /\ ChildrenWatched'
      BY <2>1 DEF ListenersRevive, ChildrenWatched, HasChild
    <2>3. ASSUME ~ moved'
          PROVE  Registered'
      <3> DEFINE new == NewRuntime(pin)
      <3>1. \A d \in Deployments : new.key[d] = Unusable
        BY DEF NewRuntime
      <3>2. runtime' = [s \in Slots |-> IF s = "active" THEN new ELSE NoRuntime]
        BY <1>6 DEF Boot
      <3> HIDE DEF new
      <3>3. KeysRegistered'
        BY <3>1, <3>2 DEF KeysRegistered
      <3>4. MemoryIsFile'
        BY <2>1 DEF MemoryIsFile
      <3>5. ASSUME NEW c \in Processes, process'[c] # Gone
            PROVE  Gives(file', process'[c].node, process'[c].port)
        <4>1. c \in left /\ process'[c] = [process[c] EXCEPT !.watch = "orphaned"]
          BY <2>1, <3>5
        <4>2. process[c] # Gone => process[c] \in ProcessRecords
          BY DEF ServeInv, StoreInv, TypeOK
        <4>3. process[c] # Gone
          BY <4>1 DEF Alive
        <4>4. process'[c].node = process[c].node /\ process'[c].port = process[c].port
          BY <4>1, <4>2, <4>3 DEF ProcessRecords
        <4> QED BY <2>1, <2>3, <4>3, <4>4 DEF ServeInv, Registered, BoxesRegistered
      <3>6. BoxesRegistered'
        BY <2>1, <3>5 DEF BoxesRegistered
      <3> QED BY <3>3, <3>4, <3>6 DEF Registered
    <2> QED BY <2>2, <2>3
  <1> QED BY <1>2, <1>3, <1>4, <1>5, <1>6 DEF Crash, Shutdown

LEMMA ServeInvInit == Init => ServeInv
  <1> SUFFICES ASSUME Init
               PROVE  ServeInv
    OBVIOUS
  <1>1. ListenersRevive /\ ChildrenWatched /\ BoxesRegistered
    BY DEF Init, ListenersRevive, ChildrenWatched, BoxesRegistered, HasChild
  <1>2. KeysRegistered
    BY DEF Init, NewRuntime, KeysRegistered
  <1>3. MemoryIsFile
    BY DEF Init, MemoryIsFile
  <1> QED BY <1>1, <1>2, <1>3, StoreInvInit DEF ServeInv, Registered

LEMMA ServeInvStep == ServeInv /\ [Next]_vars => ServeInv'
  <1> SUFFICES ASSUME ServeInv, [Next]_vars
               PROVE  ServeInv'
    OBVIOUS
  <1>1. StoreInv'
    BY StoreInvStep DEF ServeInv
  <1>2. CASE Load
    BY <1>1, <1>2, ServeLoad DEF ServeInv
  <1>3. ASSUME NEW ok \in WriteResults, ResolveNext(ok)
        PROVE  ServeInv'
    <2>1. ok \in BOOLEAN
      BY EgressAssumption
    <2> QED BY <1>1, <1>3, <2>1, ServeResolve DEF ServeInv
  <1>4. CASE \/ Boxes \/ Activate \/ UNCHANGED vars
             \/ \E pin \in PinChoices : Prepare(pin) \/ Crash(pin) \/ Shutdown(pin)
    BY <1>1, <1>4, ServeOther DEF ServeInv
  <1> QED BY <1>2, <1>3, <1>4 DEF Next

(* sing-box-manager.mjs: whatever the order of exits, probes, timers and     *)
(* failed spawns, a node that was ever asked for has a child or a restart    *)
(* scheduled; the invariant adds that such a child is alive and watched.     *)
THEOREM NodesAlwaysRevive == Spec => []ListenersRevive
  <1>1. ServeInv => ListenersRevive
    BY DEF ServeInv
  <1> QED BY <1>1, ServeInvInit, ServeInvStep, PTL DEF Spec

(* While no bound key changes its node and every binding is written, the     *)
(* process that answers on the port of a key in use is one of the key's own  *)
(* node: a leftover of a crash, a listener started twice or a port taken     *)
(* over cannot send its traffic through another node.                        *)
THEOREM SettledTrafficStaysHome == Spec => []SettledKeysUseOwnNode
  <1>1. ServeInv => SettledKeysUseOwnNode
    <2> SUFFICES ASSUME ServeInv, ~ moved, NEW s \in Slots, NEW key \in UsableKeys(s),
                        NEW c \in Listening(key.port)
                 PROVE  process[c].node = key.node
      BY DEF SettledKeysUseOwnNode, OwnNodeServes
    <2>1. PICK d \in Deployments : /\ runtime[s] # NoRuntime
                                   /\ key = runtime[s].key[d] /\ key # Unusable
      BY DEF UsableKeys
    <2>2. Gives(file, key.node, key.port)
      BY <2>1 DEF ServeInv, Registered, KeysRegistered
    <2>3. c \in Processes /\ process[c] # Gone /\ process[c].port = key.port
      BY DEF Listening, Alive
    <2>4. Gives(file, process[c].node, key.port)
      BY <2>3 DEF ServeInv, Registered, BoxesRegistered
    <2>5. Loadable(file)
      BY <2>2 DEF ServeInv, StoreInv, FileLoadable, Gives
    <2> QED BY <2>2, <2>4, <2>5 DEF Gives, Loadable, BoundIn
  <1> QED BY <1>1, ServeInvInit, ServeInvStep, PTL DEF Spec
=============================================================================
