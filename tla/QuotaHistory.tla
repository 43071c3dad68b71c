---------------------------- MODULE QuotaHistory ----------------------------
(***************************************************************************)
(* The quota windows with a memory of the evidence: what was the last sign *)
(* that a deployment had exhausted its quota, and which probe reopened its *)
(* window.  The history variables never restrict a step.                   *)
(***************************************************************************)
EXTENDS QuotaWindow

VARIABLES
    signalled,  \* deployment |-> first token issued after its last quota signal,
                \* 0 if it never gave one
    opener      \* deployment |-> token of the probe that last opened its window

history == <<signalled, opener>>
hvars   == <<vars, history>>

None == [d \in Deployments |-> 0]

HInit == Init /\ signalled = None /\ opener = None

HFinishExhausted(r, after, ok) ==
    /\ FinishExhausted(r, after, ok)
    /\ signalled' = [signalled EXCEPT ![busy[r]] = issued + 1]
    /\ UNCHANGED opener

HHandleReport(m, ok, heard) ==
    /\ HandleReport(m, ok, heard)
    /\ signalled' = IF Accepted(m) /\ m.verdict = "quota"
                    THEN [signalled EXCEPT ![m.dep] = issued + 1] ELSE signalled
    /\ opener' = IF Accepted(m) /\ m.verdict = "valid"
                 THEN [opener EXCEPT ![m.dep] = m.token] ELSE opener

\* A crash while the last write had failed may forget the evidence: what the
\* older file says then stands as if it had just been established.
HCrash(corrupt, later, ok) ==
    /\ Crash(corrupt, later, ok)
    /\ opener' = [d \in Deployments |->
                     IF ~ healthy /\ win'[d].state \in Dispatchable
                     THEN signalled[d] ELSE opener[d]]
    /\ UNCHANGED signalled

HReload(replaced, ok) ==
    /\ Reload(replaced, ok)
    /\ signalled' = [d \in Deployments |-> IF d \in replaced THEN 0 ELSE signalled[d]]
    /\ opener' = [d \in Deployments |-> IF d \in replaced THEN 0 ELSE opener[d]]

HNext ==
    \/ \E r \in Requests, after \in RetryAfters, ok \in WriteResults :
          HFinishExhausted(r, after, ok)
    \/ \E m \in mail, ok \in WriteResults, heard \in BOOLEAN : HHandleReport(m, ok, heard)
    \/ \E later \in now .. MaxTime, ok \in WriteResults, corrupt \in Corruption :
          HCrash(corrupt, later, ok)
    \/ \E replaced \in SUBSET Deployments, ok \in WriteResults : HReload(replaced, ok)
    \/ /\ \/ \E r \in Requests, d \in Deployments : Dispatch(r, d)
          \/ \E r \in Requests : FinishPlain(r)
          \/ Observe
          \/ \E ok \in WriteResults : PersistRetry(ok)
          \/ \E ok \in WriteResults, heard \in BOOLEAN : ClaimDue(ok, heard)
          \/ \E p \in asking, verdict \in Verdicts, after \in RetryAfters :
                ProbeAnswered(p, verdict, after)
          \/ \E t \in telling : RetryReport(t)
          \/ ProberRestart
          \/ \E later \in now .. MaxTime, ok \in WriteResults : Shutdown(later, ok)
          \/ Tick
       /\ UNCHANGED history

HSpec == HInit /\ [][HNext]_hvars

-----------------------------------------------------------------------------
(* Properties.                                                             *)

\* A window that a quota signal closed opens again only on the valid report of
\* a probe that was claimed after the last signal: not on one already on its
\* way when a late request brought new evidence, not on a repeated or delayed
\* report, and not by a restart or a reload.
ReopenNeedsFreshProbe ==
    \A d \in Deployments :
        win[d].state \in Dispatchable /\ signalled[d] # 0 => opener[d] >= signalled[d]

\* README, "Reserve a quota-only fallback key": "probe failures do not spend the
\* reserve early".  A window counts as closed by quota only if its deployment
\* gave a recognized quota signal.
ReserveNeedsQuota ==
    \A d \in Deployments : win[d].kind = "quota" => signalled[d] # 0
=============================================================================
