---------------------------- MODULE QuotaWindow ----------------------------
(***************************************************************************)
(* The quota windows of the managed deployments: a circuit breaker that    *)
(* quota signals close and only a probe reopens.                           *)
(*                                                                         *)
(* Two processes take part.  The gateway owns the windows, answers the     *)
(* prober over a local socket and writes every change to a file.  The      *)
(* prober claims due windows, asks the upstream, and reports what it saw;  *)
(* its reports may be late, repeated or lost, and either process may       *)
(* restart at any time.                                                    *)
(***************************************************************************)
EXTENDS Integers, FiniteSets

CONSTANTS
    NumDeployments,  \* managed deployments, numbered in the order of their ids
    QuotaPolicy,     \* deployment |-> initial state, probe interval, boost window
    Requests,        \* identities of concurrent requests
    Nobody,          \* the deployment of a request that is not in flight
    NoClaim,
    NoWindow,        \* a deployment the file says nothing of
    RetryAfters,     \* what a quota signal may say, 0 for nothing
    WriteResults,    \* what writing the file may return
    Corruption,      \* whether a loaded file may be unreadable
    ClaimLease,
    ProbeLimit,      \* probes the prober runs at once
    ReportTries,     \* how often it sends a report
    MaxClaims,       \* bound of the claims ever issued
    MaxTime          \* bound of the clock

Deployments == 1 .. NumDeployments

ASSUME QuotaAssumption ==
    /\ NumDeployments \in Nat \ {0}
    /\ QuotaPolicy \in [Deployments -> [initiallyOpen : BOOLEAN,
                                        probeInterval : Nat \ {0},
                                        boostWindow : Nat \ {0}]]
    /\ Nobody \notin Deployments
    /\ RetryAfters \subseteq Nat
    /\ WriteResults \subseteq BOOLEAN
    /\ Corruption \subseteq BOOLEAN
    /\ {ClaimLease, ProbeLimit, ReportTries, MaxClaims, MaxTime} \subseteq Nat \ {0}

Dispatchable == {"open", "boosted"}
States       == Dispatchable \cup {"closed", "half_open"}
Kinds        == {"", "quota", "probe_failure", "state"}

Windows == [state : States, kind : Kinds, nextProbeAt : Nat, boostedUntil : Nat,
            failures : Nat]

Tokens == 1 .. MaxClaims
Claims == [token : Tokens, expiresAt : Nat]

ASSUME QuotaNames == NoClaim \notin Claims /\ NoWindow \notin Windows

Verdicts == {"valid", "failed", "quota"}
Reports  == [dep : Deployments, token : Tokens, verdict : Verdicts,
             retryAfter : RetryAfters \cup {0}, observedAt : Nat]
Asks     == [dep : Deployments, token : Tokens]
Tellings == [report : Reports, tries : 1 .. ReportTries]

VARIABLES
    now,      \* the clock
    win,      \* deployment |-> its window in memory
    claim,    \* deployment |-> the claim its window is probed under
    issued,   \* tokens issued so far
    healthy,  \* the last write of the file succeeded
    file,     \* deployment |-> its window on disk
    busy,     \* request |-> the deployment it was dispatched to
    asking,   \* claims the prober is asking the upstream about
    telling,  \* its reports not yet known to be handled, with their tries
    mail      \* reports on their way to the gateway

prober == <<asking, telling, mail>>
vars   == <<now, win, claim, issued, healthy, file, busy, asking, telling, mail>>

TypeOK ==
    /\ now \in 0 .. MaxTime
    /\ win \in [Deployments -> Windows]
    /\ claim \in [Deployments -> Claims \cup {NoClaim}]
    /\ issued \in 0 .. MaxClaims
    /\ healthy \in BOOLEAN
    /\ file \in [Deployments -> Windows \cup {NoWindow}]
    /\ busy \in [Requests -> Deployments \cup {Nobody}]
    /\ asking \subseteq Asks
    /\ telling \subseteq Tellings
    /\ mail \subseteq Reports

-----------------------------------------------------------------------------
(* Windows.                                                                *)

OpenWindow ==
    [state |-> "open", kind |-> "", nextProbeAt |-> 0, boostedUntil |-> 0, failures |-> 0]

ClosedWindow(at) ==
    [OpenWindow EXCEPT !.state = "closed", !.kind = "state", !.nextProbeAt = at]

FirstWindow(d, at) ==
    IF QuotaPolicy[d].initiallyOpen THEN OpenWindow ELSE ClosedWindow(at)

\* A window loaded from a file or carried over: its claim, if any, is gone.
NormalizeWindow(w, at) ==
    IF w.state = "half_open" THEN [w EXCEPT !.state = "closed", !.nextProbeAt = at] ELSE w

LeaseExpired(d) ==
    /\ win[d].state = "half_open"
    /\ claim[d] # NoClaim
    /\ claim[d].expiresAt <= now

\* advance: what every look at the windows does to them first.
AdvancedWindow(d) ==
    LET w == win[d]
    IN  CASE w.state = "boosted" /\ w.boostedUntil > 0 /\ now > w.boostedUntil ->
                [w EXCEPT !.state = "open", !.boostedUntil = 0]
          [] LeaseExpired(d) ->
                [w EXCEPT !.state = "closed",
                          !.kind = IF @ = "quota" THEN @ ELSE "probe_failure",
                          !.nextProbeAt = now,
                          !.failures = @ + 1]
          [] OTHER -> w

AdvancedWindows == [d \in Deployments |-> AdvancedWindow(d)]
LiveClaims == [d \in Deployments |-> IF LeaseExpired(d) THEN NoClaim ELSE claim[d]]

NextProbeTime(d, retryAfter, at) ==
    at + (IF retryAfter > 0 THEN retryAfter ELSE QuotaPolicy[d].probeInterval)

-----------------------------------------------------------------------------
(* The file.                                                               *)

\* Mutant: a failed write is taken for done.
PersistQuotaStateBlindly(ok) ==
    /\ healthy' = TRUE
    /\ file' = IF ok THEN win' ELSE file

\* persistQuotaState, of the windows this very step leaves.
PersistQuotaState(ok) ==
    /\ healthy' = ok
    /\ file' = IF ok THEN win' ELSE file

PersistRetry(ok) ==
    /\ ~ healthy
    /\ UNCHANGED <<now, win, claim, issued, busy, prober>>
    /\ PersistQuotaState(ok)

-----------------------------------------------------------------------------
(* Requests.                                                               *)

\* quotaCanDispatch: a decision that could not be written is not acted upon.
Dispatch(r, d) ==
    /\ busy[r] = Nobody
    /\ healthy
    /\ AdvancedWindow(d).state \in Dispatchable
    /\ win' = AdvancedWindows
    /\ claim' = LiveClaims
    /\ busy' = [busy EXCEPT ![r] = d]
    /\ UNCHANGED <<now, issued, healthy, file, prober>>

\* No recognized quota signal: nothing is recorded.
FinishPlain(r) ==
    /\ busy[r] # Nobody
    /\ busy' = [busy EXCEPT ![r] = Nobody]
    /\ UNCHANGED <<now, win, claim, issued, healthy, file, prober>>

\* recordRequestResult with a quota signal, whatever the window has become
\* since the request was dispatched.
FinishExhausted(r, retryAfter, ok) ==
    /\ busy[r] # Nobody
    /\ LET d == busy[r]
       IN  /\ win' = [win EXCEPT ![d].state = "closed",
                                 ![d].kind = "quota",
                                 ![d].nextProbeAt = NextProbeTime(d, retryAfter, now),
                                 ![d].boostedUntil = 0]
           /\ claim' = [claim EXCEPT ![d] = NoClaim]
    /\ busy' = [busy EXCEPT ![r] = Nobody]
    /\ PersistQuotaState(ok)
    /\ UNCHANGED <<now, issued, prober>>

\* The status page, a route plan, a fallback decision.
Observe ==
    /\ win' = AdvancedWindows
    /\ claim' = LiveClaims
    /\ UNCHANGED <<now, issued, healthy, file, busy, prober>>

-----------------------------------------------------------------------------
(* Probes.                                                                 *)

Due == {d \in Deployments : /\ AdvancedWindow(d).state = "closed"
                            /\ AdvancedWindow(d).nextProbeAt <= now}

\* Fewer failures first, then the later probe time, then the id.
Before(d, e) ==
    LET v == AdvancedWindow(d)
        w == AdvancedWindow(e)
    IN  \/ v.failures < w.failures
        \/ v.failures = w.failures /\ v.nextProbeAt > w.nextProbeAt
        \/ v.failures = w.failures /\ v.nextProbeAt = w.nextProbeAt /\ d < e

Rank(d) == Cardinality({e \in Due : Before(e, d)})

\* One tick of the prober, which waits for all its probes before the next:
\* claim_due, and the answer if it is written down and reaches the prober.
ClaimDue(ok, heard) ==
    LET chosen == {d \in Due : Rank(d) < ProbeLimit}
        token(d) == issued + 1 + Rank(d)
    IN  /\ asking = {} /\ telling = {}
        /\ chosen # {}
        /\ issued + Cardinality(chosen) <= MaxClaims
        /\ win' = [d \in Deployments |->
                      IF d \in chosen THEN [AdvancedWindow(d) EXCEPT !.state = "half_open"]
                      ELSE AdvancedWindow(d)]
        /\ claim' = [d \in Deployments |->
                        IF d \in chosen
                        THEN [token |-> token(d), expiresAt |-> now + ClaimLease]
                        ELSE LiveClaims[d]]
        /\ issued' = issued + Cardinality(chosen)
        /\ asking' = IF ok /\ heard
                     THEN {[dep |-> d, token |-> token(d)] : d \in chosen} ELSE {}
        /\ PersistQuotaState(ok)
        /\ UNCHANGED <<now, busy, telling, mail>>

\* The upstream answered, or the probe failed: the report is sent.
ProbeAnswered(p, verdict, retryAfter) ==
    LET report == [dep |-> p.dep, token |-> p.token, verdict |-> verdict,
                   retryAfter |-> IF verdict = "quota" THEN retryAfter ELSE 0,
                   observedAt |-> now]
    IN  /\ p \in asking
        /\ asking' = asking \ {p}
        /\ telling' = telling \cup {[report |-> report, tries |-> 1]}
        /\ mail' = mail \cup {report}
        /\ UNCHANGED <<now, win, claim, issued, healthy, file, busy>>

\* No answer in time, or a refusal: the same report once more, or never again.
RetryReport(t) ==
    /\ t \in telling
    /\ telling' = (telling \ {t}) \cup
                  (IF t.tries < ReportTries THEN {[t EXCEPT !.tries = @ + 1]} ELSE {})
    /\ mail' = IF t.tries < ReportTries THEN mail \cup {t.report} ELSE mail
    /\ UNCHANGED <<now, win, claim, issued, healthy, file, busy, asking>>

\* Mutant: any report is accepted while some probe is under way.
AcceptedByState(m) == win[m.dep].state = "half_open"

\* recordProbeResult accepts a report only under the claim of its window.
Accepted(m) ==
    /\ win[m.dep].state = "half_open"
    /\ claim[m.dep] # NoClaim
    /\ claim[m.dep].token = m.token

\* Mutant: every failed probe counts as exhausted quota.
AfterReportAnyFailure(m) ==
    IF m.verdict = "valid"
    THEN [OpenWindow EXCEPT !.state = "boosted",
                            !.boostedUntil = m.observedAt + QuotaPolicy[m.dep].boostWindow]
    ELSE [ClosedWindow(NextProbeTime(m.dep, m.retryAfter, m.observedAt))
              EXCEPT !.kind = "quota", !.failures = win[m.dep].failures + 1]

AfterReport(m) ==
    LET w == win[m.dep]
    IN  IF m.verdict = "valid"
        THEN [state |-> "boosted", kind |-> "", nextProbeAt |-> 0, failures |-> 0,
              boostedUntil |-> m.observedAt + QuotaPolicy[m.dep].boostWindow]
        ELSE [state |-> "closed",
              kind |-> IF m.verdict = "quota" \/ w.kind = "quota"
                       THEN "quota" ELSE "probe_failure",
              nextProbeAt |-> NextProbeTime(m.dep, m.retryAfter, m.observedAt),
              boostedUntil |-> 0, failures |-> w.failures + 1]

\* report_probe: the state changes first, and an answer that is not written
\* down is refused; the prober may or may not hear the answer.
HandleReport(m, ok, heard) ==
    /\ m \in mail
    /\ mail' = mail \ {m}
    /\ win' = IF Accepted(m) THEN [win EXCEPT ![m.dep] = AfterReport(m)] ELSE win
    /\ claim' = IF Accepted(m) THEN [claim EXCEPT ![m.dep] = NoClaim] ELSE claim
    /\ PersistQuotaState(ok)
    /\ telling' = IF ok /\ heard THEN {t \in telling : t.report # m} ELSE telling
    /\ UNCHANGED <<now, issued, busy, asking>>

ProberRestart ==
    /\ asking' = {} /\ telling' = {}
    /\ UNCHANGED <<now, win, claim, issued, healthy, file, busy, mail>>

-----------------------------------------------------------------------------
(* Gateway life.                                                           *)

\* The gateway starts at `later` from a file that holds `saved`, and writes it.
StartFrom(saved, corrupt, later, ok) ==
    /\ now' = later
    /\ win' = [d \in Deployments |->
                  CASE corrupt -> ClosedWindow(later)
                    [] ~ corrupt /\ saved[d] = NoWindow -> FirstWindow(d, later)
                    [] OTHER -> NormalizeWindow(saved[d], later)]
    /\ claim' = [d \in Deployments |-> NoClaim]
    /\ healthy' = ok
    /\ file' = IF ok THEN win' ELSE
               IF corrupt THEN [d \in Deployments |-> NoWindow] ELSE saved
    /\ busy' = [r \in Requests |-> Nobody]
    /\ mail' = {}
    /\ UNCHANGED <<issued, asking, telling>>

Crash(corrupt, later, ok) == StartFrom(file, corrupt, later, ok)

\* SIGTERM writes the windows once more.
Shutdown(later, ok) == StartFrom(win, FALSE, later, ok)

\* A new configuration: the deployments it replaces have new windows and, under
\* their new ids, nothing in the file; the claims of all are dropped.
Reload(replaced, ok) ==
    /\ \A r \in Requests : busy[r] = Nobody
    /\ win' = [d \in Deployments |-> IF d \in replaced THEN FirstWindow(d, now)
                                     ELSE NormalizeWindow(win[d], now)]
    /\ claim' = [d \in Deployments |-> NoClaim]
    /\ healthy' = ok
    /\ file' = IF ok THEN win'
               ELSE [d \in Deployments |-> IF d \in replaced THEN NoWindow ELSE file[d]]
    /\ UNCHANGED <<now, issued, busy, prober>>

Tick ==
    /\ now < MaxTime
    /\ now' = now + 1
    /\ UNCHANGED <<win, claim, issued, healthy, file, busy, prober>>

-----------------------------------------------------------------------------
Init ==
    /\ now = 1
    /\ win = [d \in Deployments |-> FirstWindow(d, 1)]
    /\ claim = [d \in Deployments |-> NoClaim]
    /\ issued = 0
    /\ healthy = TRUE
    /\ file = win
    /\ busy = [r \in Requests |-> Nobody]
    /\ asking = {} /\ telling = {} /\ mail = {}

Next ==
    \/ \E r \in Requests, d \in Deployments : Dispatch(r, d)
    \/ \E r \in Requests : FinishPlain(r)
    \/ \E r \in Requests, after \in RetryAfters, ok \in WriteResults :
          FinishExhausted(r, after, ok)
    \/ Observe
    \/ \E ok \in WriteResults : PersistRetry(ok)
    \/ \E ok \in WriteResults, heard \in BOOLEAN : ClaimDue(ok, heard)
    \/ \E p \in asking, verdict \in Verdicts, after \in RetryAfters :
          ProbeAnswered(p, verdict, after)
    \/ \E t \in telling : RetryReport(t)
    \/ \E m \in mail, ok \in WriteResults, heard \in BOOLEAN : HandleReport(m, ok, heard)
    \/ ProberRestart
    \/ \E later \in now .. MaxTime, ok \in WriteResults :
          \/ \E corrupt \in Corruption : Crash(corrupt, later, ok)
          \/ Shutdown(later, ok)
    \/ \E replaced \in SUBSET Deployments, ok \in WriteResults : Reload(replaced, ok)
    \/ Tick

Spec == Init /\ [][Next]_vars

-----------------------------------------------------------------------------
(* Properties.                                                             *)

\* "quota state is not durable" refuses an answer so that a restart never
\* changes a verdict: whenever the last write succeeded, the file opens exactly
\* the windows that are open in memory.
FileKeepsVerdicts ==
    healthy => \A d \in Deployments :
        /\ file[d] # NoWindow
        /\ file[d].state \in Dispatchable <=> win[d].state \in Dispatchable
=============================================================================
