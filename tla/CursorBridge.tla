------------------------------ MODULE CursorBridge ------------------------------
(***************************************************************************)
(* The Cursor ACP bridge (cursor-acp-bridge.mjs): a server on the loopback *)
(* inside the gateway process that runs one cursor-agent child for each    *)
(* request, and the key of the gateway that leads to it                    *)
(* (cursor-acp-deployment.mjs).                                            *)
(*                                                                         *)
(* Three parties come and go on their own: the gateway, which frees the    *)
(* slot of its key as soon as it gives a request up; the bridge, which     *)
(* notices a lost connection later and counts its own places; the child,   *)
(* which may answer, say nothing, ignore SIGTERM or end at any time.       *)
(* What the agent says is abstracted to whether it answers the pending     *)
(* call and whether there is a text in the end.  A handler runs to its     *)
(* next await in one step.                                                 *)
(***************************************************************************)
EXTENDS Integers, FiniteSets

CONSTANTS
    Requests,
    MaxConcurrent,  \* places of the bridge and slots of the key
    MaxStarts       \* bound on the starts of the gateway process

ASSUME BridgeAssumption ==
    IsFiniteSet(Requests) /\ MaxConcurrent \in Nat \ {0} /\ MaxStarts \in Nat \ {0}

VARIABLES
    up,          \* the gateway process runs
    starts,      \* how often it was started
    closing,     \* the bridge is being closed
    gate,        \* request |-> what it is to the gateway
    active,      \* places taken
    handler,     \* request |-> the handler of the bridge
    answer,      \* request |-> what the bridge answered
    call,        \* request |-> the ACP call that is pending
    out,         \* request |-> the answer to it in the pipe
    child,       \* request |-> its child
    kill         \* requests whose kill timer is armed

process == <<up, starts, closing>>
agent == <<call, out, child, kill>>
vars == <<process, gate, active, handler, answer, agent>>

Calls == {"initialize", "session", "prompt"}
Following == [initialize |-> "session", session |-> "prompt"]

TypeOK ==
    /\ up \in BOOLEAN /\ starts \in 1 .. MaxStarts /\ closing \in BOOLEAN
    /\ gate \in [Requests -> {"away", "waiting", "gone", "answered"}]
    /\ active \in 0 .. MaxConcurrent
    /\ handler \in [Requests -> {"none", "reading", "running", "over"}]
    /\ answer \in [Requests -> {"none", "busy", "closing", "reset", "invalid", "failed", "text"}]
    /\ call \in [Requests -> Calls]
    /\ out \in [Requests -> {"nothing", "result", "error"}]
    /\ child \in [Requests -> {"none", "unborn", "alive", "dead", "closed", "orphan"}]
    /\ kill \subseteq Requests

Init ==
    /\ up = TRUE /\ starts = 1 /\ closing = FALSE
    /\ gate = [r \in Requests |-> "away"]
    /\ active = 0
    /\ handler = [r \in Requests |-> "none"] /\ answer = [r \in Requests |-> "none"]
    /\ call = [r \in Requests |-> "initialize"] /\ out = [r \in Requests |-> "nothing"]
    /\ child = [r \in Requests |-> "none"] /\ kill = {}

-----------------------------------------------------------------------------

(* The gateway. *)

\* The key counts its requests in flight, over all generations: its identity never
\* changes, and a generation is activated only when nothing is in flight.
SlotFree == Cardinality({r \in Requests : gate[r] = "waiting"}) < MaxConcurrent

Send(r) ==
    /\ up /\ ~closing /\ gate[r] = "away" /\ SlotFree
    /\ gate' = [gate EXCEPT ![r] = "waiting"]
    /\ UNCHANGED <<process, active, handler, answer, agent>>

\* The client has gone or the deadline has passed: the connection is closed and
\* the slot freed at once.
GiveUp(r) ==
    /\ gate[r] = "waiting"
    /\ gate' = [gate EXCEPT ![r] = "gone"]
    /\ answer' = [answer EXCEPT ![r] = "none"]
    /\ UNCHANGED <<process, active, handler, agent>>

Answered(r) ==
    /\ gate[r] = "waiting" /\ answer[r] # "none"
    /\ gate' = [gate EXCEPT ![r] = "answered"]
    /\ answer' = [answer EXCEPT ![r] = "none"]
    /\ UNCHANGED <<process, active, handler, agent>>

-----------------------------------------------------------------------------

(* The handler of a request. *)

\* sendJson, sendChatCompletion: a lost connection swallows the answer.
Delivered(r, with) == IF gate[r] = "gone" THEN "none" ELSE with

\* finally: the handler is left with an answer, and its place is free; what is read
\* from the child from now on has no effect.
Leave(r, with) ==
    /\ handler' = [handler EXCEPT ![r] = "over"]
    /\ answer' = [answer EXCEPT ![r] = Delivered(r, with)]
    /\ active' = active - 1
    /\ call' = [call EXCEPT ![r] = "initialize"] /\ out' = [out EXCEPT ![r] = "nothing"]

\* Mutant of AtCapacity: off by one.
AtCapacityEarly == active + 1 >= MaxConcurrent

AtCapacity == active >= MaxConcurrent

Refuse(r) ==
    /\ up /\ handler[r] = "none" /\ gate[r] \in {"waiting", "gone"}
    /\ closing \/ AtCapacity
    /\ handler' = [handler EXCEPT ![r] = "over"]
    /\ answer' = [answer EXCEPT ![r] = IF closing THEN "closing" ELSE "busy"]
    /\ UNCHANGED <<process, gate, active, agent>>

\* The place is taken before the body is awaited.
Accept(r) ==
    /\ up /\ handler[r] = "none" /\ gate[r] \in {"waiting", "gone"}
    /\ ~closing /\ ~AtCapacity
    /\ active' = active + 1
    /\ handler' = [handler EXCEPT ![r] = "reading"]
    /\ UNCHANGED <<process, gate, answer, agent>>

\* readJsonBody: a body that is too large has the connection cut, so that the refusal
\* is lost; one that is no JSON is refused.
BodyUnreadable(r) ==
    /\ handler[r] = "reading"
    /\ Leave(r, "reset") \/ Leave(r, "invalid")
    /\ UNCHANGED <<process, gate, child, kill>>

\* validateChatRequest: no chat request.
BodyRefused(r) ==
    /\ handler[r] = "reading"
    /\ Leave(r, "invalid")
    /\ UNCHANGED <<process, gate, child, kill>>

\* The child is started and the first call written to it; a command that cannot
\* be started is reported in a later turn, other errors of spawn at once.
BodyRead(r) ==
    /\ handler[r] = "reading"
    /\ \/ /\ handler' = [handler EXCEPT ![r] = "running"]
          /\ \E c \in {"alive", "unborn"} : child' = [child EXCEPT ![r] = c]
          /\ UNCHANGED <<active, answer, call, out>>
       \/ Leave(r, "failed") /\ UNCHANGED child
    /\ UNCHANGED <<process, gate, kill>>

\* Mutant of Terminated: a child that has done its work is left to end by itself.
TerminatedIfFailed(r) == IF answer'[r] = "text" THEN kill ELSE kill \cup {r}

\* terminateChild: SIGTERM, which the child may ignore, and a timer for SIGKILL
\* unless it is known to have ended.
Terminated(r) == IF child[r] = "closed" THEN kill ELSE kill \cup {r}

\* The child is terminated and the request settled.
Finish(r, with) ==
    /\ Leave(r, with)
    /\ kill' = Terminated(r)

\* Mutant of Notices: a connection lost while the body comes is not noticed.
NoticesRunning(r) == handler[r] = "running"

\* The handler listens to the end of the connection, in readJsonBody and after.
Notices(r) == handler[r] \in {"reading", "running"}

\* The bridge notices that the gateway has closed the connection.
Disconnect(r) ==
    /\ gate[r] = "gone" /\ Notices(r)
    /\ \/ handler[r] = "reading" /\ Leave(r, "none") /\ UNCHANGED kill
       \/ handler[r] = "running" /\ Finish(r, "none")
    /\ UNCHANGED <<process, gate, child>>

TimeOut(r) ==
    /\ handler[r] = "running"
    /\ Finish(r, "failed")
    /\ UNCHANGED <<process, gate, child>>

\* An answer to the pending call is read.  A result leads to the next call, the
\* one of the prompt to the text, if there is any; an error, a session without
\* an id and a prompt without a text end the request.
ReadAnswer(r) ==
    /\ handler[r] = "running" /\ child[r] \in {"alive", "dead"} /\ out[r] # "nothing"
    /\ \/ /\ out[r] = "result" /\ call[r] # "prompt"
          /\ call' = [call EXCEPT ![r] = Following[@]]
          /\ out' = [out EXCEPT ![r] = "nothing"]
          /\ UNCHANGED <<active, handler, answer, kill>>
       \/ out[r] = "result" /\ call[r] = "prompt" /\ Finish(r, "text")
       \/ (out[r] = "error" \/ call[r] # "initialize") /\ Finish(r, "failed")
    /\ UNCHANGED <<process, gate, child>>

-----------------------------------------------------------------------------

(* The child. *)

AgentAnswers(r) ==
    /\ child[r] = "alive" /\ handler[r] = "running" /\ out[r] = "nothing"
    /\ \E o \in {"result", "error"} : out' = [out EXCEPT ![r] = o]
    /\ UNCHANGED <<process, gate, active, handler, answer, call, child, kill>>

ChildExits(r) ==
    /\ child[r] \in {"alive", "orphan"}
    /\ child' = [child EXCEPT ![r] = IF @ = "alive" THEN "dead" ELSE "closed"]
    /\ UNCHANGED <<process, gate, active, handler, answer, call, out, kill>>

\* SIGKILL, two seconds after SIGTERM.
KillTimer(r) ==
    /\ r \in kill /\ child[r] = "alive"
    /\ child' = [child EXCEPT ![r] = "dead"]
    /\ UNCHANGED <<process, gate, active, handler, answer, call, out, kill>>

\* 'close', or 'error' for a command that could not be started: a request that
\* is not settled fails.
ChildClosed(r) ==
    /\ child[r] \in {"dead", "unborn"}
    /\ child' = [child EXCEPT ![r] = "closed"]
    /\ kill' = kill \ {r}
    /\ IF handler[r] = "running" THEN Leave(r, "failed")
       ELSE UNCHANGED <<active, handler, answer, call, out>>
    /\ UNCHANGED <<process, gate>>

-----------------------------------------------------------------------------

(* The process. *)

\* Whoever waited is told nothing; timers are gone and the children that still
\* live are left to themselves.
ProcessEnds ==
    /\ up' = FALSE /\ closing' = FALSE /\ active' = 0 /\ kill' = {}
    /\ gate' = [r \in Requests |-> IF gate[r] = "waiting" THEN "gone" ELSE gate[r]]
    /\ handler' = [r \in Requests |-> IF gate[r] = "away" THEN "none" ELSE "over"]
    /\ child' = [r \in Requests |-> IF child[r] = "alive" THEN "orphan"
                                    ELSE IF child[r] = "none" THEN "none" ELSE "closed"]
    /\ answer' = [r \in Requests |-> "none"]
    /\ call' = [r \in Requests |-> "initialize"] /\ out' = [r \in Requests |-> "nothing"]
    /\ UNCHANGED <<starts>>

\* A call, or the refusal of a request of the agent, written to a child that has
\* just ended: stdin has no listener for the error, which ends the process.
BrokenPipe(r) ==
    /\ up /\ child[r] = "dead"
    /\ ProcessEnds

\* The gateway gives up what it still waits for; the bridge takes no more.
Shutdown ==
    /\ up /\ ~closing
    /\ closing' = TRUE
    /\ gate' = [r \in Requests |-> IF gate[r] = "waiting" THEN "gone" ELSE gate[r]]
    /\ UNCHANGED <<up, starts, active, handler, answer, agent>>

\* Once no request is under way in the bridge.
Exit ==
    /\ up /\ closing /\ active = 0
    /\ ProcessEnds

Start ==
    /\ ~up /\ starts < MaxStarts
    /\ up' = TRUE /\ starts' = starts + 1
    /\ UNCHANGED <<closing, gate, active, handler, answer, agent>>

Gateway(r) == Send(r) \/ GiveUp(r) \/ Answered(r)
Bridge(r) ==
    \/ Refuse(r) \/ Accept(r) \/ BodyUnreadable(r) \/ BodyRefused(r) \/ BodyRead(r)
    \/ Disconnect(r) \/ TimeOut(r) \/ ReadAnswer(r)
Agent(r) == AgentAnswers(r) \/ ChildExits(r) \/ KillTimer(r) \/ ChildClosed(r)

Next ==
    \/ \E r \in Requests : Gateway(r) \/ Bridge(r) \/ Agent(r) \/ BrokenPipe(r)
    \/ Shutdown \/ Exit \/ Start

\* The loop of the process runs on: timers fire, lost connections and ended
\* children are noticed, and a body of the gateway, which holds it whole, comes
\* through unless the connection is lost.  The child owes nothing.
Fairness ==
    \A r \in Requests :
        /\ WF_vars(Disconnect(r)) /\ WF_vars(TimeOut(r)) /\ WF_vars(KillTimer(r))
        /\ WF_vars(gate[r] # "gone" /\ BodyRead(r))

Spec == Init /\ [][Next]_vars /\ Fairness

-----------------------------------------------------------------------------

UnderWay(r) == handler[r] \in {"reading", "running"}

\* However requests end, the places taken are those of the requests under way,
\* and a child that lives works for one of them or has its kill timer armed: no
\* child is forgotten by a process that lives (cursor-acp-bridge.mjs 103-172,
\* 355-366).
NothingLeaks ==
    /\ active = Cardinality({r \in Requests : UnderWay(r)})
    /\ \A r \in Requests : child[r] = "alive" => handler[r] = "running" \/ r \in kill

\* The key of the gateway has as many slots as the bridge has places
\* (cursor-acp-deployment.mjs 57-59), so a request that is waited for is refused as
\* busy only for one the gateway has given up and the bridge has not noticed yet.
BusyOnlyBehindGivenUp ==
    [][\A r \in Requests : gate[r] = "waiting" /\ answer[r] # "busy" /\ answer'[r] = "busy" =>
          \E q \in Requests \ {r} : UnderWay(q) /\ gate[q] = "gone"]_vars

\* A request that has a place gives it back, whatever its child does, and a child
\* ends, whether it obeys SIGTERM or not, unless the process ends before it.
PlacesComeFree ==
    \A r \in Requests : (UnderWay(r) ~> ~UnderWay(r)) /\ (child[r] = "alive" ~> child[r] # "alive")
================================================================================
