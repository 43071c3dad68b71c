---------------------------- MODULE OrdinaryDispatch ----------------------------
(***************************************************************************)
(* The retry loop of ordinary-dispatch.mjs: a request for a real model     *)
(* picks a key, sends, and after a failure another may serve goes on with  *)
(* a key it has not tried, waits for a key with a short 429 cooldown, or   *)
(* sleeps while a key it has not tried is only busy.                       *)
(*                                                                         *)
(* A turn of the loop runs from one await to the next, so it is one        *)
(* action.  What a failure does to a key is the subject of KeyState; here  *)
(* it rests, for a while the answer decides, or does not.  Any key that    *)
(* may be picked may be the one picked.                                    *)
(***************************************************************************)
EXTENDS Integers, FiniteSets

CONSTANTS
    Requests,
    Keys,          \* the candidates of the route
    Slots,         \* key |-> how many requests it serves at once
    MaxRetries,    \* MAX_RETRIES
    Backoff,       \* attempt |-> RETRY_BACKOFF_MS
    Timeout,       \* requestTimeouts.totalMs
    MaxWait,       \* retryPolicy.waitFor429RecoveryMs, 0 for none
    Rests,         \* lengths of the cooldowns
    LastArrival,   \* bound: no request comes later
    MaxTime        \* bound of the clock

ASSUME OrdinaryAssumption ==
    /\ IsFiniteSet(Keys) /\ Slots \in [Keys -> Nat \ {0}]
    /\ MaxRetries \in Nat /\ MaxWait \in Nat /\ Timeout \in Nat \ {0}
    /\ Backoff \in [0 .. MaxRetries -> Nat]
    /\ Rests \subseteq Nat \ {0}
    /\ LastArrival \in Nat
    /\ MaxTime >= LastArrival + Timeout + MaxWait
    /\ \A i \in 0 .. MaxRetries : MaxTime >= LastArrival + Timeout + Backoff[i]

VARIABLES
    now,
    rest,      \* key |-> [until, is429]: badUntil, and whether quota_429 set it
    req,       \* request |-> the locals of its dispatch (see Init)
    sent,      \* observer: request |-> times it was sent
    due        \* observer: request |-> key |-> times it was sent to the key, less
               \* the cooldowns of the key it slept through

vars == <<now, rest, req, sent, due>>

Phases == {"away", "turn", "sleep", "sent", "answered"}

Init ==
    /\ now = 0
    /\ rest = [k \in Keys |-> [until |-> 0, is429 |-> FALSE]]
    /\ req = [r \in Requests |->
                 [phase |-> "away", attempt |-> 0, excluded |-> {}, waits |-> 0, key |-> {},
                  until |-> 0, deadline |-> 0, aborted |-> FALSE, last |-> "none"]]
    /\ sent = [r \in Requests |-> 0]
    /\ due = [r \in Requests |-> [k \in Keys |-> 0]]

-----------------------------------------------------------------------------

InFlight(k) == Cardinality({r \in Requests : req[r].phase = "sent" /\ req[r].key = {k}})
Pickable(r) == {k \in Keys \ req[r].excluded : rest[k].until <= now /\ InFlight(k) < Slots[k]}

\* nextRoute429Recovery: among all keys of the route, tried or not, one whose
\* short 429 cooldown ends first.
Recoverable == {k \in Keys : rest[k].is429 /\ rest[k].until > now /\ rest[k].until - now <= MaxWait}
NextRecovery == {k \in Recoverable : \A j \in Recoverable : rest[k].until <= rest[j].until}

\* The loop is left: the deadline has passed, the client has gone, or the
\* attempts are used up.
Over(r) == now >= req[r].deadline \/ req[r].aborted \/ req[r].attempt > MaxRetries

\* One request runs at a time: a turn is over at its next await.
Running == {r \in Requests : req[r].phase = "turn"}

Become(r, new) == req' = [req EXCEPT ![r] = new]

\* The dispatch returns; its locals are gone.
Return(r, last) ==
    Become(r, [req[r] EXCEPT !.phase = "answered", !.attempt = 0, !.excluded = {}, !.waits = 0,
                             !.key = {}, !.until = 0, !.deadline = 0, !.aborted = FALSE,
                             !.last = last])

-----------------------------------------------------------------------------

Arrive(r) ==
    /\ req[r].phase = "away" /\ Running = {} /\ now <= LastArrival
    /\ Become(r, [req[r] EXCEPT !.phase = "turn", !.deadline = now + Timeout])
    /\ UNCHANGED <<now, rest, sent, due>>

\* A key is picked and the request sent to it.
Send(r) ==
    /\ req[r].phase = "turn" /\ ~Over(r)
    /\ \E k \in Pickable(r) :
          /\ Become(r, [req[r] EXCEPT !.phase = "sent", !.key = {k}])
          /\ due' = [due EXCEPT ![r][k] = @ + 1]
    /\ sent' = [sent EXCEPT ![r] = @ + 1]
    /\ UNCHANGED <<now, rest>>

\* No key: sleep until a 429 cooldown is over.  The key may be tried again and
\* the attempt does not count.
Wait429(r) ==
    /\ req[r].phase = "turn" /\ ~Over(r)
    /\ Pickable(r) = {} /\ req[r].waits < MaxRetries
    /\ \E k \in NextRecovery :
          /\ Become(r, [req[r] EXCEPT !.phase = "sleep", !.waits = @ + 1,
                                      !.excluded = @ \ {k}, !.until = rest[k].until])
          /\ due' = [due EXCEPT ![r][k] = @ - 1]
    /\ UNCHANGED <<now, rest, sent>>

\* Whether a 429 wait is to be had.
CanWait(r) == req[r].waits < MaxRetries /\ NextRecovery # {}

\* No key now, but one not tried yet, busy or resting: sleep, which uses up an
\* attempt.
BackOff(r) ==
    /\ req[r].phase = "turn" /\ ~Over(r)
    /\ Pickable(r) = {} /\ ~CanWait(r)
    /\ req[r].attempt < MaxRetries /\ Keys \ req[r].excluded # {}
    /\ Become(r, [req[r] EXCEPT !.phase = "sleep", !.until = now + Backoff[req[r].attempt],
                                !.attempt = @ + 1])
    /\ UNCHANGED <<now, rest, sent, due>>

\* No key and nothing to hope for: 503, pool exhausted.
PoolExhausted(r) ==
    /\ req[r].phase = "turn" /\ ~Over(r)
    /\ Pickable(r) = {} /\ ~CanWait(r)
    /\ req[r].attempt = MaxRetries \/ Keys \ req[r].excluded = {}
    /\ Return(r, "exhausted")
    /\ UNCHANGED <<now, rest, sent, due>>

\* After the loop: the last answer of an upstream is delivered, or 502.
GiveUp(r) ==
    /\ req[r].phase = "turn" /\ Over(r)
    /\ Return(r, IF req[r].last = "status" THEN "status" ELSE "network")
    /\ UNCHANGED <<now, rest, sent, due>>

Wake(r) ==
    /\ req[r].phase = "sleep" /\ req[r].until <= now /\ Running = {}
    /\ Become(r, [req[r] EXCEPT !.phase = "turn", !.until = 0])
    /\ UNCHANGED <<now, rest, sent, due>>

-----------------------------------------------------------------------------

(* Answers. *)

\* releaseKey: a 429 lets the key rest, other failures may; a rest in force is
\* not shortened.
Rested(k, length, is429) ==
    [rest EXCEPT ![k] = IF now + length > @.until
                        THEN [until |-> now + length, is429 |-> is429] ELSE @]

\* Mutant of Excluding: only the key that failed last is excluded.
ExcludingLast(r) == req[r].key

\* A failure another key may not share (RETRYABLE_STATUSES, network errors
\* but cancelled and too large): the key is excluded and the loop goes on.
Excluding(r) == req[r].excluded \cup req[r].key

Retryable(r, kind) ==
    Become(r, [req[r] EXCEPT !.phase = "turn", !.attempt = @ + 1, !.key = {},
                             !.excluded = Excluding(r), !.last = kind])

Answer429(r) ==
    /\ req[r].phase = "sent" /\ Running = {}
    /\ \E k \in req[r].key, length \in Rests : rest' = Rested(k, length, TRUE)
    /\ Retryable(r, "status")
    /\ UNCHANGED <<now, sent, due>>

\* 401, 5xx or a failed connection.
AnswerFailure(r) ==
    /\ req[r].phase = "sent" /\ Running = {}
    /\ \E k \in req[r].key, length \in Rests : rest' \in {rest, Rested(k, length, FALSE)}
    /\ \E kind \in {"status", "network"} : Retryable(r, kind)
    /\ UNCHANGED <<now, sent, due>>

\* A success, or a failure of the request itself, which every key would give:
\* it is delivered.
AnswerFinal(r) ==
    /\ req[r].phase = "sent" /\ Running = {}
    /\ Return(r, "final")
    /\ UNCHANGED <<now, rest, sent, due>>

\* Mutant of TimedOut: only connections that were answered once time out.
TimedOutAfterStatus(r) == now >= req[r].deadline /\ req[r].last = "status"

\* The transport gives up at the deadline.
TimedOut(r) == now >= req[r].deadline

AnswerTimeout(r) ==
    /\ req[r].phase = "sent" /\ Running = {} /\ TimedOut(r)
    /\ \E k \in req[r].key, length \in Rests : rest' \in {rest, Rested(k, length, FALSE)}
    /\ Retryable(r, "network")
    /\ UNCHANGED <<now, sent, due>>

\* The client goes: an attempt under way is cancelled, which leaves the loop.
Abort(r) ==
    /\ req[r].phase \in {"sleep", "sent"} /\ ~req[r].aborted /\ Running = {}
    /\ Become(r, IF req[r].phase = "sleep" THEN [req[r] EXCEPT !.aborted = TRUE]
                 ELSE [req[r] EXCEPT !.aborted = TRUE, !.phase = "turn", !.key = {},
                                     !.last = "network"])
    /\ UNCHANGED <<now, rest, sent, due>>

Tick ==
    /\ now < MaxTime /\ Running = {}
    /\ now' = now + 1
    /\ UNCHANGED <<rest, req, sent, due>>

Turn(r) == Send(r) \/ Wait429(r) \/ BackOff(r) \/ PoolExhausted(r) \/ GiveUp(r)
Answer(r) == Answer429(r) \/ AnswerFailure(r) \/ AnswerFinal(r)

Next ==
    \/ \E r \in Requests : Arrive(r) \/ Turn(r) \/ Wake(r) \/ Answer(r) \/ AnswerTimeout(r) \/ Abort(r)
    \/ Tick

\* The event loop runs on, timers fire, time passes; an upstream need not answer.
Fairness ==
    /\ WF_vars(Tick)
    /\ \A r \in Requests : WF_vars(Turn(r)) /\ WF_vars(Wake(r)) /\ WF_vars(AnswerTimeout(r))

Spec == Init /\ [][Next]_vars /\ Fairness

-----------------------------------------------------------------------------

\* A request goes to another key with each retry: it returns to one only after
\* the 429 cooldown of that key was slept through; and however it sleeps, waits
\* and meets the other requests, it sends no more than MAX_RETRIES + 1 times
\* (ordinary-dispatch.mjs 110-258).
RetriesElsewhere ==
    \A r \in Requests :
        /\ \A k \in Keys : due[r][k] <= 1
        /\ sent[r] <= MaxRetries + 1

\* Whatever the upstreams do, the client gets an answer: no sleep, wait or retry
\* goes on for ever, and an upstream that says nothing is given up.
EveryRequestAnswered ==
    \A r \in Requests : req[r].phase # "away" ~> req[r].phase = "answered"
================================================================================
