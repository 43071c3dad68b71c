--------------------------- MODULE ProxyBindings ---------------------------
(***************************************************************************)
(* Which subscription node, and which local port, a sticky deployment is   *)
(* bound to.  A node has one port whatever the number of deployments bound *)
(* to it, and a port belongs to one node: a file that says otherwise is    *)
(* refused as a whole when it is loaded.                                   *)
(***************************************************************************)
EXTENDS Integers

CONSTANTS
    NumDeployments,  \* sticky deployments, numbered in the order of the key pool
    Nodes,           \* node ids
    NoNode,
    Rank,            \* deployment |-> node |-> place of the hash of the pair
                     \*   among those of all nodes, the greatest hash first
    PortStart,
    PortEnd,
    Unbound          \* a deployment without a binding

Deployments == 1 .. NumDeployments
Ports       == PortStart .. PortEnd
NoPort      == 0

Bindings    == [node : Nodes, port : Ports]
BindingMaps == [Deployments -> Bindings \cup {Unbound}]

ASSUME BindingsAssumption ==
    /\ NumDeployments \in Nat \ {0}
    /\ NoNode \notin Nodes
    /\ Rank \in [Deployments -> [Nodes -> Nat]]
    /\ PortStart \in Nat \ {0}
    /\ PortEnd \in Nat
    /\ PortStart <= PortEnd
    /\ Unbound \notin Bindings

NothingBound == [d \in Deployments |-> Unbound]

BoundIn(b) == {d \in Deployments : b[d] # Unbound}

\* validateBindings: different nodes never share a port, a node has one port.
Loadable(b) ==
    \A d, e \in BoundIn(b) : b[d].node = b[e].node <=> b[d].port = b[e].port

\* rendezvousNode
Rendezvous(d, available) ==
    CHOOSE n \in available : \A o \in available : Rank[d][n] <= Rank[d][o]

\* Mutant of NodeFor: a deployment whose node is lost is given another one.
NodeForMoves(d, pin, available, b) ==
    CASE pin # NoNode -> pin
      [] pin = NoNode /\ b[d] # Unbound /\ b[d].node \in available -> b[d].node
      [] pin = NoNode /\ available # {} -> Rendezvous(d, available)
      [] OTHER -> NoNode

\* A pinned deployment follows its pin; any other keeps the node it has.
NodeFor(d, pin, available, b) ==
    CASE pin # NoNode -> pin
      [] pin = NoNode /\ b[d] # Unbound -> b[d].node
      [] pin = NoNode /\ b[d] = Unbound /\ available # {} -> Rendezvous(d, available)
      [] OTHER -> NoNode

FreePorts(b) == Ports \ {b[e].port : e \in BoundIn(b)}

\* Mutant of AllocatePort: it does not look at the ports in use.
AllocatePortFirst(b) == PortStart

\* allocatePort
AllocatePort(b) ==
    IF FreePorts(b) = {} THEN NoPort
    ELSE CHOOSE p \in FreePorts(b) : \A q \in FreePorts(b) : p <= q

\* Another deployment is left on the port of d under another node than n.
PortStaysTaken(d, n, b) ==
    \E e \in BoundIn(b) \ {d} : b[e].node # n /\ b[e].port = b[d].port

\* Mutant of PortFor: a deployment that moves always takes its port along.
PortForKept(d, n, b) ==
    LET there == {e \in BoundIn(b) : b[e].node = n}
    IN  CASE there # {} -> b[CHOOSE e \in there : TRUE].port
          [] there = {} /\ b[d] # Unbound -> b[d].port
          [] OTHER -> AllocatePort(b)

\* The port of node n, for a deployment d that is about to be bound to it: the
\* one n has, else the one d leaves behind, else a free one.
PortFor(d, n, b) ==
    LET there == {e \in BoundIn(b) : b[e].node = n}
    IN  CASE there # {} -> b[CHOOSE e \in there : TRUE].port
          [] there = {} /\ b[d] # Unbound /\ ~ PortStaysTaken(d, n, b) -> b[d].port
          [] OTHER -> AllocatePort(b)

\* resolve, up to the write.  `usable` is false when it throws without one.
Resolution(d, pin, available, b) ==
    LET n       == NodeFor(d, pin, available, b)
        changed == n # NoNode /\ (b[d] = Unbound \/ b[d].node # n)
        port    == IF changed THEN PortFor(d, n, b) ELSE NoPort
        bound   == changed /\ port # NoPort /\ (n \in available \/ pin # NoNode)
    IN  [bindings |-> IF bound THEN [b EXCEPT ![d] = [node |-> n, port |-> port]] ELSE b,
         written  |-> bound,
         usable   |-> n \in available /\ (changed => bound)]
=============================================================================
