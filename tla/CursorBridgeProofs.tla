--------------------------- MODULE CursorBridgeProofs ---------------------------
(***************************************************************************)
(* For every number of requests, places and starts: the bridge loses no    *)
(* place and no child (NothingLeaks), and it is busy only while a request  *)
(* given up still has its place (BusyOnlyBehindGivenUp).  With the types   *)
(* of the state the first is inductive: a handler that leaves gives one    *)
(* place back, and a child outlives its handler only with its kill timer   *)
(* armed.  The second needs the first, and that the gateway waits for no   *)
(* more requests than the bridge has places.                               *)
(***************************************************************************)
EXTENDS CursorBridge, FiniteSetTheorems, TLAPS

Answers == {"none", "busy", "closing", "reset", "invalid", "failed", "text"}

Working == {r \in Requests : UnderWay(r)}

\* A child that lives works for its request, or its kill timer is armed.
ChildrenAccounted == \A r \in Requests : child[r] = "alive" => handler[r] = "running" \/ r \in kill

BridgeInv == TypeOK /\ active = Cardinality(Working) /\ ChildrenAccounted

(* The number of requests under way is a number. *)
LEMMA WorkingFinite ==
  ASSUME handler \in [Requests -> {"none", "reading", "running", "over"}]
  PROVE  IsFiniteSet(Working) /\ Cardinality(Working) \in Nat
  BY BridgeAssumption, FS_Subset, FS_CardinalityType DEF Working

(* A handler that leaves gives its place back. *)
LEMMA LeaveStep ==
  ASSUME BridgeInv, NEW r \in Requests, UnderWay(r), NEW with \in Answers, Leave(r, with)
  PROVE  /\ handler' = [handler EXCEPT ![r] = "over"]
         /\ handler' \in [Requests -> {"none", "reading", "running", "over"}]
         /\ answer' \in [Requests -> Answers]
         /\ call' \in [Requests -> Calls]
         /\ out' \in [Requests -> {"nothing", "result", "error"}]
         /\ active' \in 0 .. MaxConcurrent /\ active' = Cardinality(Working')
  <1>1. /\ handler' = [handler EXCEPT ![r] = "over"]
        /\ handler' \in [Requests -> {"none", "reading", "running", "over"}]
        /\ active' = active - 1
    BY DEF Leave, BridgeInv, TypeOK
  <1>2. answer' \in [Requests -> Answers]
    BY DEF Leave, Delivered, BridgeInv, TypeOK, Answers
  <1>3. /\ call' \in [Requests -> Calls]
        /\ out' \in [Requests -> {"nothing", "result", "error"}]
    BY DEF Leave, BridgeInv, TypeOK, Calls
  <1>4. Working' = Working \ {r} /\ r \in Working
    BY <1>1 DEF Working, UnderWay, BridgeInv, TypeOK
  <1>5. IsFiniteSet(Working) /\ active = Cardinality(Working) /\ active \in 0 .. MaxConcurrent
    BY WorkingFinite DEF BridgeInv, TypeOK
  <1>6. Cardinality(Working \ {r}) = active - 1 /\ Cardinality(Working \ {r}) \in Nat
    BY <1>4, <1>5, FS_RemoveElement, FS_CardinalityType
  <1>7. active' \in 0 .. MaxConcurrent /\ active' = Cardinality(Working')
    BY <1>1, <1>4, <1>5, <1>6, BridgeAssumption
  <1> QED BY <1>1, <1>2, <1>3, <1>7

(* A step that leaves the handlers alone takes and gives no place. *)
LEMMA SameWorking ==
  ASSUME BridgeInv, active' = active,
         \A r \in Requests : UnderWay(r)' = UnderWay(r)
  PROVE  active' = Cardinality(Working')
  <1>1. Working' = Working
    BY DEF Working
  <1> QED BY <1>1 DEF BridgeInv

LEMMA GatewaySteps ==
  ASSUME BridgeInv, NEW r \in Requests, Gateway(r)
  PROVE  BridgeInv'
  <1>1. /\ UNCHANGED <<process, active, handler, agent>>
        /\ gate' \in [Requests -> {"away", "waiting", "gone", "answered"}]
        /\ answer' \in [Requests -> Answers]
    BY DEF Gateway, Send, GiveUp, Answered, BridgeInv, TypeOK, Answers
  <1>2. TypeOK'
    BY <1>1 DEF BridgeInv, TypeOK, process, agent, Answers
  <1>3. active' = Cardinality(Working')
    BY <1>1, SameWorking DEF UnderWay
  <1>4. ChildrenAccounted'
    BY <1>1 DEF BridgeInv, ChildrenAccounted, agent
  <1> QED BY <1>2, <1>3, <1>4 DEF BridgeInv

(* The ways to leave a handler before its child is started. *)
LEMMA EarlyLeave ==
  ASSUME BridgeInv, NEW r \in Requests, handler[r] = "reading", NEW with \in Answers,
         Leave(r, with), UNCHANGED <<process, gate, child, kill>>
  PROVE  BridgeInv'
  <1>1. UnderWay(r)
    BY DEF UnderWay
  <1>2. TypeOK' /\ active' = Cardinality(Working')
    BY <1>1, LeaveStep DEF BridgeInv, TypeOK, process, Answers
  <1>3. ChildrenAccounted'
    BY <1>1, LeaveStep DEF BridgeInv, ChildrenAccounted, TypeOK
  <1> QED BY <1>2, <1>3 DEF BridgeInv

(* The ways to leave it with the child terminated. *)
LEMMA FinishStep ==
  ASSUME BridgeInv, NEW r \in Requests, handler[r] = "running", NEW with \in Answers,
         Finish(r, with), UNCHANGED <<process, gate, child>>
  PROVE  BridgeInv'
  <1>1. UnderWay(r) /\ Leave(r, with) /\ kill' = Terminated(r)
    BY DEF UnderWay, Finish
  <1>2. kill' \subseteq Requests /\ kill \subseteq kill' /\ (child[r] = "alive" => r \in kill')
    BY <1>1 DEF Terminated, BridgeInv, TypeOK
  <1>3. TypeOK' /\ active' = Cardinality(Working')
    BY <1>1, <1>2, LeaveStep DEF BridgeInv, TypeOK, process, Answers
  <1>4. ChildrenAccounted'
    BY <1>1, <1>2, LeaveStep DEF BridgeInv, ChildrenAccounted, TypeOK
  <1> QED BY <1>3, <1>4 DEF BridgeInv

LEMMA RefuseStep ==
  ASSUME BridgeInv, NEW r \in Requests, Refuse(r)
  PROVE  BridgeInv'
  <1>1. /\ handler[r] = "none" /\ handler' = [handler EXCEPT ![r] = "over"]
        /\ answer' \in [Requests -> Answers]
        /\ UNCHANGED <<process, gate, active, agent>>
    BY DEF Refuse, BridgeInv, TypeOK, Answers
  <1>2. TypeOK'
    BY <1>1 DEF BridgeInv, TypeOK, process, agent, Answers
  <1>3. active' = Cardinality(Working')
    BY <1>1, SameWorking DEF UnderWay, BridgeInv, TypeOK
  <1>4. ChildrenAccounted'
    BY <1>1 DEF BridgeInv, TypeOK, ChildrenAccounted, agent
  <1> QED BY <1>2, <1>3, <1>4 DEF BridgeInv

LEMMA AcceptStep ==
  ASSUME BridgeInv, NEW r \in Requests, Accept(r)
  PROVE  BridgeInv'
  <1>1. /\ handler[r] = "none" /\ handler' = [handler EXCEPT ![r] = "reading"]
        /\ active' = active + 1 /\ ~ (active >= MaxConcurrent)
        /\ UNCHANGED <<process, gate, answer, agent>>
    BY DEF Accept, AtCapacity
  <1>2. active' \in 0 .. MaxConcurrent
    BY <1>1, BridgeAssumption DEF BridgeInv, TypeOK
  <1>3. TypeOK'
    BY <1>1, <1>2 DEF BridgeInv, TypeOK, process, agent
  <1>4. Working' = Working \cup {r} /\ r \notin Working
    BY <1>1 DEF Working, UnderWay, BridgeInv, TypeOK
  <1>5. IsFiniteSet(Working) /\ active = Cardinality(Working)
    BY WorkingFinite DEF BridgeInv, TypeOK
  <1>6. active' = Cardinality(Working')
    BY <1>1, <1>4, <1>5, FS_AddElement
  <1>7. ChildrenAccounted'
    BY <1>1 DEF BridgeInv, TypeOK, ChildrenAccounted, agent
  <1> QED BY <1>3, <1>6, <1>7 DEF BridgeInv

LEMMA BodyReadStep ==
  ASSUME BridgeInv, NEW r \in Requests, BodyRead(r)
  PROVE  BridgeInv'
  <1>1. CASE Leave(r, "failed") /\ UNCHANGED child
    BY <1>1, EarlyLeave DEF BodyRead, Answers
  <1>2. CASE /\ handler' = [handler EXCEPT ![r] = "running"]
             /\ \E c \in {"alive", "unborn"} : child' = [child EXCEPT ![r] = c]
             /\ UNCHANGED <<active, answer, call, out>>
    <2>1. handler[r] = "reading" /\ UNCHANGED <<process, gate, kill>>
      BY DEF BodyRead
    <2>2. TypeOK'
      BY <1>2, <2>1 DEF BridgeInv, TypeOK, process
    <2>3. active' = Cardinality(Working')
      BY <1>2, <2>1, SameWorking DEF UnderWay, BridgeInv, TypeOK
    <2>4. ChildrenAccounted'
      BY <1>2, <2>1 DEF BridgeInv, TypeOK, ChildrenAccounted
    <2> QED BY <2>2, <2>3, <2>4 DEF BridgeInv
  <1> QED BY <1>1, <1>2 DEF BodyRead

LEMMA ReadAnswerStep ==
  ASSUME BridgeInv, NEW r \in Requests, ReadAnswer(r)
  PROVE  BridgeInv'
  <1>1. handler[r] = "running" /\ UNCHANGED <<process, gate, child>>
    BY DEF ReadAnswer
  <1>2. CASE /\ out[r] = "result" /\ call[r] # "prompt"
             /\ call' = [call EXCEPT ![r] = Following[@]]
             /\ out' = [out EXCEPT ![r] = "nothing"]
             /\ UNCHANGED <<active, handler, answer, kill>>
    <2>1. Following[call[r]] \in Calls
      BY <1>2 DEF Following, Calls, BridgeInv, TypeOK
    <2>2. call' \in [Requests -> Calls]
      BY <1>2, <2>1 DEF BridgeInv, TypeOK
    <2>3. TypeOK'
      BY <1>1, <1>2, <2>2 DEF BridgeInv, TypeOK, process
    <2>4. active' = Cardinality(Working')
      BY <1>2, SameWorking DEF UnderWay
    <2>5. ChildrenAccounted'
      BY <1>1, <1>2 DEF BridgeInv, ChildrenAccounted
    <2> QED BY <2>3, <2>4, <2>5 DEF BridgeInv
  <1>3. CASE Finish(r, "text") \/ Finish(r, "failed")
    BY <1>1, <1>3, FinishStep DEF Answers
  <1> QED BY <1>2, <1>3 DEF ReadAnswer

LEMMA BridgeSteps ==
  ASSUME BridgeInv, NEW r \in Requests, Bridge(r)
  PROVE  BridgeInv'
  <1>1. CASE BodyUnreadable(r) \/ BodyRefused(r)
    BY <1>1, EarlyLeave DEF BodyUnreadable, BodyRefused, Answers
  <1>2. CASE Disconnect(r)
    BY <1>2, EarlyLeave, FinishStep DEF Disconnect, Answers
  <1>3. CASE TimeOut(r)
    BY <1>3, FinishStep DEF TimeOut, Answers
  <1> QED BY <1>1, <1>2, <1>3, RefuseStep, AcceptStep, BodyReadStep, ReadAnswerStep DEF Bridge

LEMMA AgentSteps ==
  ASSUME BridgeInv, NEW r \in Requests, Agent(r)
  PROVE  BridgeInv'
  <1>1. CASE AgentAnswers(r) \/ ChildExits(r) \/ KillTimer(r)
    <2>1. /\ UNCHANGED <<process, gate, active, handler, answer, call, kill>>
          /\ out' \in [Requests -> {"nothing", "result", "error"}]
          /\ child' \in [Requests -> {"none", "unborn", "alive", "dead", "closed", "orphan"}]
          /\ \A q \in Requests : child'[q] = "alive" => child[q] = "alive"
      BY <1>1 DEF AgentAnswers, ChildExits, KillTimer, BridgeInv, TypeOK
    <2>2. TypeOK'
      BY <2>1 DEF BridgeInv, TypeOK, process
    <2>3. active' = Cardinality(Working')
      BY <2>1, SameWorking DEF UnderWay
    <2>4. ChildrenAccounted'
      BY <2>1 DEF BridgeInv, ChildrenAccounted
    <2> QED BY <2>2, <2>3, <2>4 DEF BridgeInv
  <1>2. CASE ChildClosed(r)
    <2>1. /\ child' = [child EXCEPT ![r] = "closed"] /\ kill' = kill \ {r}
          /\ UNCHANGED <<process, gate>>
      BY <1>2 DEF ChildClosed
    <2>2. CASE handler[r] = "running"
      <3>1. UnderWay(r) /\ Leave(r, "failed")
        BY <1>2, <2>2 DEF ChildClosed, UnderWay
      <3>2. TypeOK' /\ active' = Cardinality(Working')
        BY <2>1, <3>1, LeaveStep DEF BridgeInv, TypeOK, process, Answers
      <3>3. handler' = [handler EXCEPT ![r] = "over"]
        BY <3>1 DEF Leave
      <3>4. ChildrenAccounted'
        BY <2>1, <3>3 DEF BridgeInv, TypeOK, ChildrenAccounted
      <3> QED BY <3>2, <3>4 DEF BridgeInv
    <2>3. CASE handler[r] # "running"
      <3>1. UNCHANGED <<active, handler, answer, call, out>>
        BY <1>2, <2>3 DEF ChildClosed
      <3>2. TypeOK'
        BY <2>1, <3>1 DEF BridgeInv, TypeOK, process
      <3>3. active' = Cardinality(Working')
        BY <3>1, SameWorking DEF UnderWay
      <3>4. ChildrenAccounted'
        BY <2>1, <3>1 DEF BridgeInv, TypeOK, ChildrenAccounted
      <3> QED BY <3>2, <3>3, <3>4 DEF BridgeInv
    <2> QED BY <2>2, <2>3
  <1> QED BY <1>1, <1>2 DEF Agent

(* A process that ends takes every place with it, and its children are no    *)
(* longer its own.                                                           *)
LEMMA EndStep ==
  ASSUME BridgeInv, ProcessEnds
  PROVE  BridgeInv'
  <1>1. /\ handler' \in [Requests -> {"none", "over"}]
        /\ child' \in [Requests -> {"none", "orphan", "closed"}]
        /\ gate' \in [Requests -> {"away", "waiting", "gone", "answered"}]
    <2>1. handler' \in [Requests -> {"none", "over"}]
      BY DEF ProcessEnds
    <2>2. child' \in [Requests -> {"none", "orphan", "closed"}]
      BY DEF ProcessEnds
    <2>3. gate' \in [Requests -> {"away", "waiting", "gone", "answered"}]
      BY DEF ProcessEnds, BridgeInv, TypeOK
    <2> QED BY <2>1, <2>2, <2>3
  <1>2. /\ up' = FALSE /\ closing' = FALSE /\ active' = 0 /\ kill' = {} /\ starts' = starts
        /\ answer' = [r \in Requests |-> "none"]
        /\ call' = [r \in Requests |-> "initialize"] /\ out' = [r \in Requests |-> "nothing"]
    BY DEF ProcessEnds
  <1>3. TypeOK'
    <2>1. up' \in BOOLEAN /\ closing' \in BOOLEAN
      BY <1>2
    <2>2. starts' \in 1 .. MaxStarts /\ active' \in 0 .. MaxConcurrent /\ kill' \subseteq Requests
      BY <1>2, BridgeAssumption DEF BridgeInv, TypeOK
    <2>3. /\ answer' \in [Requests -> Answers]
          /\ call' \in [Requests -> Calls]
          /\ out' \in [Requests -> {"nothing", "result", "error"}]
      BY <1>2 DEF Answers, Calls
    <2> QED BY <1>1, <2>1, <2>2, <2>3 DEF TypeOK, Answers
  <1>4. Working' = {}
    BY <1>1 DEF Working, UnderWay
  <1>5. active' = Cardinality(Working')
    BY <1>2, <1>4, FS_EmptySet
  <1>6. ChildrenAccounted'
    BY <1>1 DEF ChildrenAccounted
  <1> QED BY <1>3, <1>5, <1>6 DEF BridgeInv

LEMMA ShutdownStep ==
  ASSUME BridgeInv, Shutdown
  PROVE  BridgeInv'
  <1>1. /\ UNCHANGED <<up, starts, active, handler, answer, agent>> /\ closing' = TRUE
        /\ gate' \in [Requests -> {"away", "waiting", "gone", "answered"}]
    BY DEF Shutdown, BridgeInv, TypeOK
  <1>2. TypeOK'
    BY <1>1 DEF BridgeInv, TypeOK, agent
  <1>3. active' = Cardinality(Working')
    BY <1>1, SameWorking DEF UnderWay
  <1>4. ChildrenAccounted'
    BY <1>1 DEF BridgeInv, ChildrenAccounted, agent
  <1> QED BY <1>2, <1>3, <1>4 DEF BridgeInv

LEMMA StartStep ==
  ASSUME BridgeInv, Start
  PROVE  BridgeInv'
  <1>1. /\ UNCHANGED <<closing, gate, active, handler, answer, agent>> /\ up' = TRUE
        /\ starts' = starts + 1 /\ starts < MaxStarts
    BY DEF Start
  <1>2. TypeOK'
    BY <1>1, BridgeAssumption DEF BridgeInv, TypeOK, agent
  <1>3. active' = Cardinality(Working')
    BY <1>1, SameWorking DEF UnderWay
  <1>4. ChildrenAccounted'
    BY <1>1 DEF BridgeInv, ChildrenAccounted, agent
  <1> QED BY <1>2, <1>3, <1>4 DEF BridgeInv

LEMMA InitInv == Init => BridgeInv
  <1> SUFFICES ASSUME Init PROVE BridgeInv
    OBVIOUS
  <1>1. TypeOK
    <2>1. up \in BOOLEAN /\ closing \in BOOLEAN
      BY DEF Init
    <2>2. starts \in 1 .. MaxStarts /\ active \in 0 .. MaxConcurrent /\ kill \subseteq Requests
      BY BridgeAssumption DEF Init
    <2>3. /\ gate \in [Requests -> {"away", "waiting", "gone", "answered"}]
          /\ handler \in [Requests -> {"none", "reading", "running", "over"}]
          /\ answer \in [Requests -> Answers]
          /\ call \in [Requests -> Calls]
          /\ out \in [Requests -> {"nothing", "result", "error"}]
          /\ child \in [Requests -> {"none", "unborn", "alive", "dead", "closed", "orphan"}]
      BY DEF Init, Answers, Calls
    <2> QED BY <2>1, <2>2, <2>3 DEF TypeOK, Answers
  <1>2. Working = {}
    BY DEF Init, Working, UnderWay
  <1>3. active = Cardinality(Working)
    BY <1>2, FS_EmptySet DEF Init
  <1>4. ChildrenAccounted
    BY DEF Init, ChildrenAccounted
  <1> QED BY <1>1, <1>3, <1>4 DEF BridgeInv

LEMMA StepInv == BridgeInv /\ [Next]_vars => BridgeInv'
  <1> SUFFICES ASSUME BridgeInv, [Next]_vars PROVE BridgeInv'
    OBVIOUS
  <1>1. ASSUME NEW r \in Requests, Gateway(r) \/ Bridge(r) \/ Agent(r)
        PROVE  BridgeInv'
    BY <1>1, GatewaySteps, BridgeSteps, AgentSteps
  <1>2. ASSUME NEW r \in Requests, BrokenPipe(r)
        PROVE  BridgeInv'
    BY <1>2, EndStep DEF BrokenPipe
  <1>3. CASE Shutdown \/ Exit \/ Start
    BY <1>3, ShutdownStep, EndStep, StartStep DEF Exit
  <1>4. CASE UNCHANGED vars
    BY <1>4 DEF vars, process, agent, BridgeInv, TypeOK, ChildrenAccounted, Working, UnderWay
  <1> QED BY <1>1, <1>2, <1>3, <1>4 DEF Next

(* However the gateway, the bridge and the children of any number of         *)
(* requests interleave, the places taken are those of the requests under     *)
(* way, and a child that lives works for one of them or has its kill timer   *)
(* armed (cursor-acp-bridge.mjs 103-172, 355-366).                           *)
THEOREM PlacesAndChildrenAccounted == Spec => []NothingLeaks
  <1>1. BridgeInv => NothingLeaks
    BY DEF BridgeInv, ChildrenAccounted, Working, NothingLeaks
  <1> QED BY InitInv, StepInv, <1>1, PTL DEF Spec

-----------------------------------------------------------------------------
(* Who is refused as busy, and behind whom.  The gateway and the bridge    *)
(* count the same requests, but not at the same moments: what links the    *)
(* two counts is that a request under way is waited for or given up.       *)

Waiting == {r \in Requests : gate[r] = "waiting"}

\* What the gateway and the bridge know of one request.
Linked(g, h, a) ==
    /\ g = "away" => h = "none"
    /\ h \in {"reading", "running"} => g # "answered"
    /\ a # "none" => h = "over"

LinkInv == Cardinality(Waiting) <= MaxConcurrent
           /\ \A r \in Requests : Linked(gate[r], handler[r], answer[r])

(* A step that adds nobody to those waited for keeps to the slots. *)
LEMMA FewerWaiting ==
  ASSUME Cardinality(Waiting) <= MaxConcurrent, Waiting' \subseteq Waiting
  PROVE  Cardinality(Waiting') <= MaxConcurrent
  <1>1. IsFiniteSet(Waiting)
    BY BridgeAssumption, FS_Subset DEF Waiting
  <1>2. /\ Cardinality(Waiting') <= Cardinality(Waiting)
        /\ Cardinality(Waiting') \in Nat /\ Cardinality(Waiting) \in Nat
    BY <1>1, FS_Subset, FS_CardinalityType
  <1> QED BY <1>2, BridgeAssumption

LEMMA LinkGateway ==
  ASSUME BridgeInv, LinkInv, NEW r \in Requests, Gateway(r)
  PROVE  LinkInv'
  <1>1. /\ gate \in [Requests -> {"away", "waiting", "gone", "answered"}]
        /\ answer \in [Requests -> Answers]
        /\ handler' = handler
    BY DEF BridgeInv, TypeOK, Gateway, Send, GiveUp, Answered, Answers
  <1>2. CASE Send(r)
    <2>1. Waiting' = Waiting \cup {r} /\ r \notin Waiting
      BY <1>1, <1>2 DEF Send, Waiting
    <2>2. IsFiniteSet(Waiting) /\ Cardinality(Waiting) < MaxConcurrent
      BY <1>2, BridgeAssumption, FS_Subset DEF Waiting, Send, SlotFree
    <2>3. Cardinality(Waiting') = Cardinality(Waiting) + 1 /\ Cardinality(Waiting) \in Nat
      BY <2>1, <2>2, FS_AddElement, FS_CardinalityType
    <2>4. \A q \in Requests : Linked(gate'[q], handler'[q], answer'[q])
      BY <1>1, <1>2 DEF Send, LinkInv, Linked
    <2> QED BY <2>2, <2>3, <2>4, BridgeAssumption DEF LinkInv
  <1>3. CASE GiveUp(r) \/ Answered(r)
    <2>1. Waiting' \subseteq Waiting
      BY <1>1, <1>3 DEF GiveUp, Answered, Waiting
    <2>2. \A q \in Requests : Linked(gate'[q], handler'[q], answer'[q])
      BY <1>1, <1>3 DEF GiveUp, Answered, LinkInv, Linked
    <2> QED BY <2>1, <2>2, FewerWaiting DEF LinkInv
  <1> QED BY <1>2, <1>3 DEF Gateway

(* Where a handler that was not over may come to, and what it answers. *)
LEMMA LinkHandler ==
  ASSUME BridgeInv, LinkInv, NEW r \in Requests, gate' = gate,
         \A q \in Requests \ {r} : handler'[q] = handler[q] /\ answer'[q] = answer[q],
         \/ handler'[r] = handler[r] /\ answer'[r] = answer[r]
         \/ /\ gate[r] \in {"waiting", "gone"} \/ UnderWay(r)
            /\ \/ handler'[r] = "over"
               \/ handler'[r] \in {"reading", "running"} /\ answer'[r] = answer[r]
                  /\ handler[r] # "over"
  PROVE  LinkInv'
  <1>1. Waiting' = Waiting
    BY DEF Waiting
  <1>2. \A q \in Requests : Linked(gate'[q], handler'[q], answer'[q])
    BY DEF LinkInv, Linked, UnderWay
  <1> QED BY <1>1, <1>2 DEF LinkInv

(* What a handler that leaves changes. *)
LEMMA LeaveChanges ==
  ASSUME BridgeInv, NEW r \in Requests, NEW with, Leave(r, with)
  PROVE  /\ handler'[r] = "over" /\ answer'[r] \in {with, "none"}
         /\ \A q \in Requests \ {r} : handler'[q] = handler[q] /\ answer'[q] = answer[q]
  BY DEF Leave, Delivered, BridgeInv, TypeOK

LEMMA LinkBridge ==
  ASSUME BridgeInv, LinkInv, NEW r \in Requests, Bridge(r) \/ Agent(r)
  PROVE  LinkInv'
  <1>1. gate' = gate
    BY DEF Bridge, Agent, Refuse, Accept, BodyUnreadable, BodyRefused, BodyRead, Disconnect,
           TimeOut, ReadAnswer, AgentAnswers, ChildExits, KillTimer, ChildClosed
  <1>2. ASSUME UnderWay(r), NEW with, Leave(r, with)
        PROVE  LinkInv'
    BY <1>1, <1>2, LeaveChanges, LinkHandler
  <1>3. ASSUME UNCHANGED <<handler, answer>>
        PROVE  LinkInv'
    BY <1>1, <1>3, LinkHandler
  <1>4. CASE Refuse(r)
    <2>1. /\ handler'[r] = "over" /\ gate[r] \in {"waiting", "gone"}
          /\ \A q \in Requests \ {r} : handler'[q] = handler[q] /\ answer'[q] = answer[q]
      BY <1>4 DEF Refuse, BridgeInv, TypeOK
    <2> QED BY <1>1, <2>1, LinkHandler
  <1>5. CASE Accept(r)
    <2>1. /\ handler'[r] = "reading" /\ gate[r] \in {"waiting", "gone"} /\ handler[r] = "none"
          /\ answer' = answer /\ \A q \in Requests \ {r} : handler'[q] = handler[q]
      BY <1>5 DEF Accept, BridgeInv, TypeOK
    <2> QED BY <1>1, <2>1, LinkHandler
  <1>6. CASE BodyUnreadable(r) \/ BodyRefused(r)
    BY <1>2, <1>6 DEF BodyUnreadable, BodyRefused, UnderWay
  <1>7. CASE BodyRead(r)
    <2>1. UnderWay(r) /\ handler[r] = "reading"
      BY <1>7 DEF BodyRead, UnderWay
    <2>2. CASE handler' = [handler EXCEPT ![r] = "running"] /\ answer' = answer
      <3>1. handler'[r] = "running" /\ \A q \in Requests \ {r} : handler'[q] = handler[q]
        BY <2>2 DEF BridgeInv, TypeOK
      <3> QED BY <1>1, <2>1, <2>2, <3>1, LinkHandler
    <2> QED BY <1>2, <1>7, <2>1, <2>2 DEF BodyRead
  <1>8. CASE Disconnect(r) \/ TimeOut(r) \/ ReadAnswer(r)
    BY <1>2, <1>3, <1>8 DEF Disconnect, TimeOut, ReadAnswer, Finish, UnderWay
  <1>9. CASE AgentAnswers(r) \/ ChildExits(r) \/ KillTimer(r) \/ ChildClosed(r)
    BY <1>2, <1>3, <1>9 DEF AgentAnswers, ChildExits, KillTimer, ChildClosed, UnderWay
  <1> QED BY <1>4, <1>5, <1>6, <1>7, <1>8, <1>9 DEF Bridge, Agent

LEMMA LinkProcess ==
  ASSUME BridgeInv, LinkInv, ProcessEnds \/ Shutdown \/ Start
  PROVE  LinkInv'
  <1>1. gate \in [Requests -> {"away", "waiting", "gone", "answered"}]
    BY DEF BridgeInv, TypeOK
  <1>2. Waiting' \subseteq Waiting
    BY <1>1 DEF ProcessEnds, Shutdown, Start, Waiting
  <1>3. CASE ProcessEnds
    <2>1. \A q \in Requests : Linked(gate'[q], handler'[q], answer'[q])
      BY <1>1, <1>3 DEF ProcessEnds, Linked
    <2> QED BY <1>2, <2>1, FewerWaiting DEF LinkInv
  <1>4. CASE Shutdown
    <2>1. \A q \in Requests : Linked(gate'[q], handler'[q], answer'[q])
      BY <1>1, <1>4 DEF Shutdown, LinkInv, Linked
    <2> QED BY <1>2, <2>1, FewerWaiting DEF LinkInv
  <1>5. CASE Start
    BY <1>2, <1>5, FewerWaiting DEF Start, LinkInv
  <1> QED BY <1>3, <1>4, <1>5

LEMMA LinkInit == Init => LinkInv
  <1> SUFFICES ASSUME Init PROVE LinkInv
    OBVIOUS
  <1>1. Waiting = {}
    BY DEF Init, Waiting
  <1>2. Cardinality(Waiting) <= MaxConcurrent
    BY <1>1, FS_EmptySet, BridgeAssumption
  <1> QED BY <1>2 DEF Init, LinkInv, Linked

LEMMA LinkStep == BridgeInv /\ LinkInv /\ [Next]_vars => LinkInv'
  <1> SUFFICES ASSUME BridgeInv, LinkInv, [Next]_vars PROVE LinkInv'
    OBVIOUS
  <1>1. CASE UNCHANGED vars
    BY <1>1 DEF vars, LinkInv, Waiting
  <1> QED BY <1>1, LinkGateway, LinkBridge, LinkProcess DEF Next, BrokenPipe, Exit

(* Nobody but a full bridge answers busy. *)
LEMMA OnlyRefusalsAreBusy ==
  ASSUME BridgeInv, [Next]_vars, NEW r \in Requests,
         answer[r] # "busy", answer'[r] = "busy"
  PROVE  AtCapacity /\ handler[r] = "none"
  <1>0. answer \in [Requests -> Answers]
    BY DEF BridgeInv, TypeOK, Answers
  <1>1. ASSUME NEW q \in Requests, NEW with, with # "busy", Leave(q, with)
        PROVE  FALSE
    BY <1>1, LeaveChanges
  <1>2. ~ (UNCHANGED answer)
    OBVIOUS
  <1>3. ASSUME NEW q \in Requests, Gateway(q)
        PROVE  FALSE
    BY <1>0, <1>2, <1>3 DEF Gateway, Send, GiveUp, Answered
  <1>4. ASSUME NEW q \in Requests, Bridge(q)
        PROVE  AtCapacity /\ handler[r] = "none"
    <2>1. CASE Refuse(q)
      BY <1>0, <2>1 DEF Refuse
    <2>2. CASE BodyUnreadable(q) \/ BodyRefused(q) \/ BodyRead(q)
      BY <1>1, <1>2, <2>2 DEF BodyUnreadable, BodyRefused, BodyRead
    <2>3. CASE Disconnect(q) \/ TimeOut(q) \/ ReadAnswer(q)
      BY <1>1, <1>2, <2>3 DEF Disconnect, TimeOut, ReadAnswer, Finish
    <2>4. CASE Accept(q)
      BY <1>2, <2>4 DEF Accept
    <2> QED BY <1>4, <2>1, <2>2, <2>3, <2>4 DEF Bridge
  <1>5. ASSUME NEW q \in Requests, Agent(q)
        PROVE  FALSE
    BY <1>1, <1>2, <1>5 DEF Agent, AgentAnswers, ChildExits, KillTimer, ChildClosed
  <1>6. ~ ProcessEnds
    BY DEF ProcessEnds
  <1>7. ~ Shutdown /\ ~ Start /\ ~ UNCHANGED vars
    BY <1>2 DEF Shutdown, Start, vars
  <1> QED BY <1>3, <1>4, <1>5, <1>6, <1>7 DEF Next, BrokenPipe, Exit

(* With the places taken and one more waiting, a request under way has     *)
(* been given up: there are not enough slots for all of them.              *)
LEMMA FullBehindGivenUp ==
  ASSUME BridgeInv, LinkInv, AtCapacity, NEW r \in Requests,
         gate[r] = "waiting", handler[r] = "none"
  PROVE  \E q \in Requests \ {r} : UnderWay(q) /\ gate[q] = "gone"
  <1> SUFFICES ASSUME \A q \in Requests \ {r} : UnderWay(q) => gate[q] # "gone"
               PROVE  FALSE
    OBVIOUS
  <1>1. gate \in [Requests -> {"away", "waiting", "gone", "answered"}] /\ ~ UnderWay(r)
    BY DEF BridgeInv, TypeOK, UnderWay
  <1>2. Working \cup {r} \subseteq Waiting /\ r \notin Working
    BY <1>1 DEF Working, Waiting, LinkInv, Linked, UnderWay
  <1>3. IsFiniteSet(Working) /\ Cardinality(Working) \in Nat /\ IsFiniteSet(Waiting)
    BY WorkingFinite, BridgeAssumption, FS_Subset DEF BridgeInv, TypeOK, Waiting
  <1>4. Cardinality(Working \cup {r}) = Cardinality(Working) + 1
    BY <1>2, <1>3, FS_AddElement
  <1>5. Cardinality(Working \cup {r}) <= Cardinality(Waiting) /\ Cardinality(Waiting) \in Nat
    BY <1>2, <1>3, FS_Subset, FS_CardinalityType
  <1>6. Cardinality(Working) >= MaxConcurrent /\ Cardinality(Waiting) <= MaxConcurrent
    BY DEF BridgeInv, AtCapacity, LinkInv
  <1> QED BY <1>3, <1>4, <1>5, <1>6, BridgeAssumption

(* A request that is waited for is refused as busy only for one that the   *)
(* gateway has given up and the bridge has not noticed yet                 *)
(* (cursor-acp-deployment.mjs 57-59).                                      *)
THEOREM BusyIsTransient == Spec => BusyOnlyBehindGivenUp
  <1> DEFINE Refusals == \A r \in Requests :
                gate[r] = "waiting" /\ answer[r] # "busy" /\ answer'[r] = "busy" =>
                   \E q \in Requests \ {r} : UnderWay(q) /\ gate[q] = "gone"
  <1>1. BridgeInv /\ LinkInv /\ [Next]_vars => [Refusals]_vars
    BY OnlyRefusalsAreBusy, FullBehindGivenUp
  <1> QED BY <1>1, InitInv, StepInv, LinkInit, LinkStep, PTL DEF Spec, BusyOnlyBehindGivenUp
================================================================================
