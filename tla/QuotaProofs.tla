---------------------------- MODULE QuotaProofs -----------------------------
(***************************************************************************)
(* For every number of deployments, requests, claims and lost or repeated  *)
(* reports: the file and the memory agree on what may be dispatched        *)
(* (FileKeepsVerdicts), a window closed by a quota signal reopens only on  *)
(* a probe claimed after the signal (ReopenNeedsFreshProbe), and no window *)
(* counts as exhausted without a signal (ReserveNeedsQuota).               *)
(*                                                                         *)
(* The second rests on the first: a restart takes the windows from the     *)
(* file, and only because the file opens no other windows than the memory  *)
(* did does it not reopen one without a probe.  It is inductive together   *)
(* with what a claim says: it is younger than the last signal of its       *)
(* deployment, for a signal takes the claim away.                          *)
(***************************************************************************)
EXTENDS QuotaHistory, FiniteSetTheorems, TLAPS

HistoryTypes ==
    /\ signalled \in [Deployments -> 0 .. MaxClaims + 1]
    /\ opener \in [Deployments -> Nat]
    /\ \A d \in Deployments : signalled[d] <= issued + 1

\* What the file holds counts as exhausted only by a signal, as in memory.
FileNeedsQuota ==
    \A d \in Deployments :
        file[d] # NoWindow /\ file[d].kind = "quota" => signalled[d] # 0

\* A claim is younger than the last signal of its deployment.
ClaimsAreFresh ==
    \A d \in Deployments : claim[d] # NoClaim => claim[d].token >= signalled[d]

QuotaInv ==
    /\ TypeOK
    /\ HistoryTypes
    /\ FileKeepsVerdicts
    /\ ReserveNeedsQuota
    /\ FileNeedsQuota
    /\ ReopenNeedsFreshProbe
    /\ ClaimsAreFresh

-----------------------------------------------------------------------------
(* Windows.                                                                *)

(* The windows that a start or a reload makes are well formed. *)
LEMMA NewWindowTypes ==
  ASSUME NEW d \in Deployments, NEW at \in Nat
  PROVE  /\ OpenWindow \in Windows
         /\ ClosedWindow(at) \in Windows
         /\ FirstWindow(d, at) \in Windows
         /\ FirstWindow(d, at).kind # "quota"
         /\ ClosedWindow(at).kind # "quota"
         /\ ClosedWindow(at).state \notin Dispatchable
  BY DEF OpenWindow, ClosedWindow, FirstWindow, Windows, States, Dispatchable, Kinds

(* Carrying a window over keeps its verdict and the reason it is closed for. *)
LEMMA NormalizeKeeps ==
  ASSUME NEW w \in Windows, NEW at \in Nat
  PROVE  /\ NormalizeWindow(w, at) \in Windows
         /\ NormalizeWindow(w, at).kind = w.kind
         /\ NormalizeWindow(w, at).state \in Dispatchable <=> w.state \in Dispatchable
  BY DEF NormalizeWindow, Windows, States, Dispatchable, Kinds

(* A look at a window keeps its verdict and whether it counts as exhausted. *)
LEMMA AdvanceKeeps ==
  ASSUME TypeOK, NEW d \in Deployments
  PROVE  /\ AdvancedWindow(d) \in Windows
         /\ AdvancedWindow(d).kind = "quota" <=> win[d].kind = "quota"
         /\ AdvancedWindow(d).state \in Dispatchable <=> win[d].state \in Dispatchable
         /\ LiveClaims[d] \in {claim[d], NoClaim}
  <1>1. win[d] \in Windows /\ now \in Nat
    BY DEF TypeOK
  <1> DEFINE w == win[d]
             reopened == [w EXCEPT !.state = "open", !.boostedUntil = 0]
             expired  == [w EXCEPT !.state = "closed",
                                   !.kind = IF @ = "quota" THEN @ ELSE "probe_failure",
                                   !.nextProbeAt = now,
                                   !.failures = @ + 1]
  <1>2. reopened \in Windows /\ reopened.kind = w.kind /\ reopened.state \in Dispatchable
    BY <1>1 DEF Windows, States, Dispatchable, Kinds
  <1>3. expired \in Windows /\ expired.state \notin Dispatchable
        /\ (expired.kind = "quota" <=> w.kind = "quota")
    <2> DEFINE kind == IF w.kind = "quota" THEN w.kind ELSE "probe_failure"
               failures == w.failures + 1
    <2>1. kind \in Kinds /\ failures \in Nat /\ (kind = "quota" <=> w.kind = "quota")
      <3>1. w.kind \in Kinds /\ w.failures \in Nat
        BY <1>1 DEF Windows
      <3>2. failures \in Nat
        BY <3>1
      <3>3. kind \in Kinds /\ (kind = "quota" <=> w.kind = "quota")
        BY <3>1 DEF Kinds
      <3> QED BY <3>2, <3>3
    <2> HIDE DEF kind, failures
    <2> DEFINE v == [w EXCEPT !.state = "closed", !.kind = kind, !.nextProbeAt = now,
                              !.failures = failures]
    <2>2. v \in Windows
      BY <1>1, <2>1 DEF Windows, States
    <2>3. v.state = "closed" /\ v.kind = kind
      BY <1>1, <2>1 DEF Windows
    <2>4. v = expired
      BY DEF kind, failures
    <2> HIDE DEF v, expired
    <2> QED BY <2>1, <2>2, <2>3, <2>4 DEF Dispatchable
  <1>4. \/ AdvancedWindow(d) = w
        \/ AdvancedWindow(d) = reopened /\ w.state \in Dispatchable
        \/ AdvancedWindow(d) = expired /\ w.state \notin Dispatchable
    <2> DEFINE late == w.state = "boosted" /\ w.boostedUntil > 0 /\ now > w.boostedUntil
    <2>1. CASE late
      <3>1. w.state \in Dispatchable /\ ~ LeaseExpired(d)
        BY <2>1 DEF LeaseExpired, Dispatchable
      <3>2. AdvancedWindow(d) = reopened
        BY <2>1, <3>1 DEF AdvancedWindow
      <3> QED BY <3>1, <3>2
    <2>2. CASE LeaseExpired(d)
      <3>1. w.state \notin Dispatchable /\ ~ late
        BY <2>2 DEF LeaseExpired, Dispatchable
      <3>2. AdvancedWindow(d) = expired
        BY <2>2, <3>1 DEF AdvancedWindow
      <3> QED BY <3>1, <3>2
    <2>3. CASE ~ late /\ ~ LeaseExpired(d)
      BY <2>3 DEF AdvancedWindow
    <2> QED BY <2>1, <2>2, <2>3
  <1>5. LiveClaims[d] \in {claim[d], NoClaim}
    BY DEF LiveClaims
  <1> HIDE DEF w, reopened, expired
  <1>6. w = win[d]
    BY DEF w
  <1> QED BY <1>1, <1>2, <1>3, <1>4, <1>5, <1>6

-----------------------------------------------------------------------------
(* Claims.                                                                 *)

(* The windows due for a probe are ordered: at most one window has each    *)
(* rank, and as many are chosen as the ranks allow.                        *)
LEMMA RanksAreDense ==
  ASSUME TypeOK, NEW d \in Due
  PROVE  LET chosen == {e \in Due : Rank(e) < ProbeLimit}
         IN  /\ Rank(d) \in Nat
             /\ IsFiniteSet(chosen)
             /\ d \in chosen => Rank(d) < Cardinality(chosen)
  <1> DEFINE chosen == {e \in Due : Rank(e) < ProbeLimit}
             ahead(e) == {x \in Due : Before(x, e)}
  <1>1. IsFiniteSet(Deployments)
    BY QuotaAssumption, FS_Interval DEF Deployments
  <1>2. Due \subseteq Deployments /\ IsFiniteSet(Due) /\ IsFiniteSet(chosen)
    BY <1>1, FS_Subset DEF Due
  <1>3. ASSUME NEW e \in Due
        PROVE  IsFiniteSet(ahead(e)) /\ Rank(e) = Cardinality(ahead(e)) /\ Rank(e) \in Nat
    BY <1>2, FS_Subset, FS_CardinalityType DEF Rank
  <1>4. \A e \in Due : AdvancedWindow(e).failures \in Nat /\ AdvancedWindow(e).nextProbeAt \in Nat
    BY <1>2, AdvanceKeeps DEF Windows
  <1>5. Deployments \subseteq Int
    BY QuotaAssumption DEF Deployments
  <1>6. ASSUME NEW e \in ahead(d)
        PROVE  ahead(e) \subseteq ahead(d)
    <2>1. SUFFICES ASSUME NEW x \in ahead(e)
                   PROVE  Before(x, d)
      OBVIOUS
    <2>2. x \in Due /\ e \in Due /\ d \in Due /\ Before(x, e) /\ Before(e, d)
      OBVIOUS
    <2> QED BY <1>2, <1>4, <1>5, <2>2 DEF Before
  <1> HIDE DEF ahead
  <1>8. chosen \subseteq Due /\ (\A e \in Due : e \in chosen <=> Rank(e) < ProbeLimit)
    OBVIOUS
  <1>9. ahead(d) = {x \in Due : Before(x, d)}
    BY DEF ahead
  <1> HIDE DEF chosen
  <1>7. ASSUME d \in chosen
        PROVE  Rank(d) < Cardinality(chosen)
    <2>1. ASSUME NEW e \in ahead(d)
          PROVE  Rank(e) <= Rank(d)
      <3>1. e \in Due /\ ahead(e) \in SUBSET ahead(d)
        BY <1>6, <1>9, <2>1
      <3>2. IsFiniteSet(ahead(d))
        BY <1>3
      <3>3. Cardinality(ahead(e)) <= Cardinality(ahead(d))
        BY <3>1, <3>2, FS_Subset
      <3> QED BY <1>3, <3>1, <3>3
    <2>2. ahead(d) \subseteq chosen
      <3>1. ProbeLimit \in Nat
        BY QuotaAssumption
      <3> QED BY <1>3, <1>7, <1>8, <1>9, <2>1, <3>1
    <2>3. ~ Before(d, d)
      BY <1>2, <1>4, <1>5 DEF Before
    <2>4. ahead(d) \subseteq chosen /\ ahead(d) # chosen
      BY <1>7, <1>9, <2>2, <2>3
    <2>5. Cardinality(ahead(d)) <= Cardinality(chosen)
          /\ Cardinality(ahead(d)) # Cardinality(chosen)
      BY <1>2, <2>4, FS_Subset
    <2>6. Cardinality(chosen) \in Nat
      BY <1>2, FS_CardinalityType
    <2> QED BY <1>3, <2>5, <2>6
  <1> QED BY <1>2, <1>3, <1>7 DEF chosen

-----------------------------------------------------------------------------
(* What every step keeps, by the parts of the state it touches.            *)

\* The requests and the prober, which only their types matter of.
OthersOK ==
    /\ busy \in [Requests -> Deployments \cup {Nobody}]
    /\ asking \subseteq Asks
    /\ telling \subseteq Tellings
    /\ mail \subseteq Reports

(* A time of the next probe is a time. *)
LEMMA NextProbeType ==
  ASSUME NEW d \in Deployments, NEW after \in RetryAfters \cup {0}, NEW at \in Nat
  PROVE  NextProbeTime(d, after, at) \in Nat
  BY QuotaAssumption DEF NextProbeTime

(* Writing the file leaves it typed, in agreement with the memory, and     *)
(* with no window exhausted that was not before or is not in memory.       *)
LEMMA PersistStep ==
  ASSUME QuotaInv, NEW ok \in BOOLEAN, PersistQuotaState(ok),
         win' \in [Deployments -> Windows],
         \A d \in Deployments : win'[d].kind = "quota" => signalled'[d] # 0,
         \A d \in Deployments : signalled[d] # 0 => signalled'[d] # 0
  PROVE  /\ healthy' \in BOOLEAN
         /\ file' \in [Deployments -> Windows \cup {NoWindow}]
         /\ FileKeepsVerdicts'
         /\ FileNeedsQuota'
  <1>1. file \in [Deployments -> Windows \cup {NoWindow}] /\ FileNeedsQuota
    BY DEF QuotaInv, TypeOK
  <1>2. CASE ok
    BY <1>2, QuotaNames DEF PersistQuotaState, FileKeepsVerdicts, FileNeedsQuota
  <1>3. CASE ~ ok
    BY <1>1, <1>3 DEF PersistQuotaState, FileKeepsVerdicts, FileNeedsQuota
  <1> QED BY <1>2, <1>3

(* A step that only looks at the windows, whatever else it does to the     *)
(* requests and the prober.                                                *)
LEMMA LookStep ==
  ASSUME QuotaInv, win' = AdvancedWindows, claim' = LiveClaims,
         UNCHANGED <<now, issued, healthy, file, history>>, OthersOK'
  PROVE  QuotaInv'
  <1>1. \A d \in Deployments :
           /\ win'[d] \in Windows
           /\ win'[d].kind = "quota" <=> win[d].kind = "quota"
           /\ win'[d].state \in Dispatchable <=> win[d].state \in Dispatchable
           /\ claim'[d] \in {claim[d], NoClaim}
    BY AdvanceKeeps DEF QuotaInv, AdvancedWindows
  <1>2. TypeOK'
    <2>1. win' \in [Deployments -> Windows]
      BY <1>1 DEF AdvancedWindows
    <2>2. claim' \in [Deployments -> Claims \cup {NoClaim}]
      BY <1>1 DEF LiveClaims, QuotaInv, TypeOK
    <2> QED BY <2>1, <2>2 DEF QuotaInv, TypeOK, OthersOK
  <1>3. HistoryTypes' /\ FileNeedsQuota'
    BY DEF QuotaInv, HistoryTypes, FileNeedsQuota, history
  <1>4. FileKeepsVerdicts' /\ ReserveNeedsQuota' /\ ReopenNeedsFreshProbe' /\ ClaimsAreFresh'
    BY <1>1 DEF QuotaInv, FileKeepsVerdicts, ReserveNeedsQuota, ReopenNeedsFreshProbe,
                ClaimsAreFresh, history
  <1> QED BY <1>2, <1>3, <1>4 DEF QuotaInv

(* A step that leaves the windows and the file alone. *)
LEMMA ElsewhereStep ==
  ASSUME QuotaInv, UNCHANGED <<win, claim, issued, healthy, file, history>>,
         now' \in 0 .. MaxTime, OthersOK'
  PROVE  QuotaInv'
  <1>1. TypeOK'
    BY DEF QuotaInv, TypeOK, OthersOK
  <1> QED BY <1>1 DEF QuotaInv, HistoryTypes, FileKeepsVerdicts, ReserveNeedsQuota,
                      FileNeedsQuota, ReopenNeedsFreshProbe, ClaimsAreFresh, history

-----------------------------------------------------------------------------
(* The steps, one by one.                                                  *)

LEMMA DispatchStep ==
  ASSUME QuotaInv, NEW r \in Requests, NEW d \in Deployments, Dispatch(r, d), UNCHANGED history
  PROVE  QuotaInv'
  <1>1. OthersOK'
    BY DEF Dispatch, OthersOK, QuotaInv, TypeOK, prober
  <1> QED BY <1>1, LookStep DEF Dispatch

LEMMA ObserveStep ==
  ASSUME QuotaInv, Observe, UNCHANGED history
  PROVE  QuotaInv'
  <1>1. OthersOK'
    BY DEF Observe, OthersOK, QuotaInv, TypeOK, prober
  <1> QED BY <1>1, LookStep DEF Observe

(* Steps of the prober, a plain end of a request, and the clock. *)
LEMMA ProberStep ==
  ASSUME QuotaInv, UNCHANGED history,
         \/ \E r \in Requests : FinishPlain(r)
         \/ \E p \in asking, verdict \in Verdicts, after \in RetryAfters :
               ProbeAnswered(p, verdict, after)
         \/ \E t \in telling : RetryReport(t)
         \/ ProberRestart
         \/ Tick
  PROVE  QuotaInv'
  <1>1. TypeOK /\ now \in Nat /\ MaxTime \in Nat /\ ReportTries \in Nat \ {0}
    BY QuotaAssumption DEF QuotaInv, TypeOK
  <1>2. ASSUME NEW r \in Requests, FinishPlain(r)
        PROVE  QuotaInv'
    <2>1. OthersOK'
      BY <1>1, <1>2 DEF FinishPlain, OthersOK, TypeOK, prober
    <2> QED BY <1>1, <1>2, <2>1, ElsewhereStep DEF FinishPlain, TypeOK
  <1>3. ASSUME NEW p \in asking, NEW verdict \in Verdicts, NEW after \in RetryAfters,
               ProbeAnswered(p, verdict, after)
        PROVE  QuotaInv'
    <2> DEFINE report == [dep |-> p.dep, token |-> p.token, verdict |-> verdict,
                          retryAfter |-> IF verdict = "quota" THEN after ELSE 0,
                          observedAt |-> now]
    <2>1. p \in Asks
      BY <1>1 DEF TypeOK
    <2>2. report \in Reports
      BY <1>1, <2>1 DEF Asks, Reports
    <2>3. [report |-> report, tries |-> 1] \in Tellings
      BY <1>1, <2>2 DEF Tellings
    <2>4. /\ asking' = asking \ {p} /\ mail' = mail \cup {report}
          /\ telling' = telling \cup {[report |-> report, tries |-> 1]}
          /\ busy' = busy
      BY <1>3 DEF ProbeAnswered
    <2> HIDE DEF report
    <2>5. OthersOK'
      BY <1>1, <2>2, <2>3, <2>4 DEF OthersOK, TypeOK
    <2>6. UNCHANGED <<now, win, claim, issued, healthy, file>>
      BY <1>3 DEF ProbeAnswered
    <2> QED BY <1>1, <2>5, <2>6, ElsewhereStep DEF TypeOK
  <1>4. ASSUME NEW t \in telling, RetryReport(t)
        PROVE  QuotaInv'
    <2>1. t \in Tellings
      BY <1>1 DEF TypeOK
    <2>2. t.report \in Reports
          /\ (t.tries < ReportTries => [t EXCEPT !.tries = @ + 1] \in Tellings)
      <3>1. t.report \in Reports /\ t.tries \in 1 .. ReportTries
        BY <2>1 DEF Tellings
      <3> DEFINE tries == t.tries + 1
      <3>2. t.tries < ReportTries => tries \in 1 .. ReportTries
        BY <1>1, <3>1
      <3> HIDE DEF tries
      <3>3. t.tries < ReportTries => [t EXCEPT !.tries = tries] \in Tellings
        BY <2>1, <3>2 DEF Tellings
      <3> QED BY <3>1, <3>3 DEF tries
    <2>3. OthersOK'
      BY <1>1, <1>4, <2>2 DEF RetryReport, OthersOK, TypeOK
    <2> QED BY <1>1, <1>4, <2>3, ElsewhereStep DEF RetryReport, TypeOK
  <1>5. CASE ProberRestart
    <2>1. OthersOK'
      BY <1>1, <1>5 DEF ProberRestart, OthersOK, TypeOK
    <2> QED BY <1>1, <1>5, <2>1, ElsewhereStep DEF ProberRestart, TypeOK
  <1>6. CASE Tick
    <2>1. OthersOK' /\ now' \in 0 .. MaxTime
      BY <1>1, <1>6 DEF Tick, OthersOK, TypeOK, prober
    <2> QED BY <1>6, <2>1, ElsewhereStep DEF Tick
  <1> QED BY <1>2, <1>3, <1>4, <1>5, <1>6

LEMMA PersistRetryStep ==
  ASSUME QuotaInv, NEW ok \in WriteResults, PersistRetry(ok), UNCHANGED history
  PROVE  QuotaInv'
  <1>1. /\ ok \in BOOLEAN /\ PersistQuotaState(ok)
        /\ UNCHANGED <<now, win, claim, issued, busy, asking, telling, mail, signalled, opener>>
    BY QuotaAssumption DEF PersistRetry, prober, history
  <1>2. /\ healthy' \in BOOLEAN
        /\ file' \in [Deployments -> Windows \cup {NoWindow}]
        /\ FileKeepsVerdicts' /\ FileNeedsQuota'
    BY <1>1, PersistStep DEF QuotaInv, TypeOK, ReserveNeedsQuota
  <1>3. TypeOK'
    BY <1>1, <1>2 DEF QuotaInv, TypeOK
  <1> QED BY <1>1, <1>2, <1>3 DEF QuotaInv, HistoryTypes, ReserveNeedsQuota,
                                  ReopenNeedsFreshProbe, ClaimsAreFresh

(* A signal closes the window, takes its claim away and is remembered. *)
LEMMA SignalStep ==
  ASSUME QuotaInv, NEW r \in Requests, NEW after \in RetryAfters, NEW ok \in WriteResults,
         HFinishExhausted(r, after, ok)
  PROVE  QuotaInv'
  <1> DEFINE d == busy[r]
             next == NextProbeTime(d, after, now)
             closed == [win[d] EXCEPT !.state = "closed", !.kind = "quota",
                                      !.nextProbeAt = next, !.boostedUntil = 0]
  <1>1. ok \in BOOLEAN /\ d \in Deployments /\ now \in Nat /\ issued \in 0 .. MaxClaims
    BY QuotaAssumption DEF QuotaInv, TypeOK, HFinishExhausted, FinishExhausted
  <1>2. next \in Nat
    BY <1>1, NextProbeType
  <1>3. /\ win' = [win EXCEPT ![d] = closed]
        /\ claim' = [claim EXCEPT ![d] = NoClaim]
        /\ busy' = [busy EXCEPT ![r] = Nobody]
        /\ PersistQuotaState(ok)
        /\ UNCHANGED <<now, issued, asking, telling, mail, opener>>
        /\ signalled' = [signalled EXCEPT ![d] = issued + 1]
    BY DEF HFinishExhausted, FinishExhausted, prober
  <1> HIDE DEF next
  <1>4. win[d] \in Windows
    BY <1>1 DEF QuotaInv, TypeOK
  <1>5. closed \in Windows /\ closed.state \notin Dispatchable
    BY <1>2, <1>4 DEF Windows, States, Kinds, Dispatchable
  <1> HIDE DEF d, closed
  <1>6. /\ win' \in [Deployments -> Windows]
        /\ win'[d] = closed /\ \A e \in Deployments \ {d} : win'[e] = win[e]
    BY <1>1, <1>3, <1>5 DEF QuotaInv, TypeOK
  <1>7. /\ signalled' \in [Deployments -> 0 .. MaxClaims + 1]
        /\ signalled'[d] = issued + 1 /\ signalled'[d] # 0
        /\ \A e \in Deployments \ {d} : signalled'[e] = signalled[e]
    BY <1>1, <1>3, QuotaAssumption DEF QuotaInv, HistoryTypes
  <1>8. /\ claim' \in [Deployments -> Claims \cup {NoClaim}]
        /\ claim'[d] = NoClaim /\ \A e \in Deployments \ {d} : claim'[e] = claim[e]
    BY <1>1, <1>3 DEF QuotaInv, TypeOK
  <1>9. ReserveNeedsQuota'
    BY <1>1, <1>6, <1>7 DEF QuotaInv, ReserveNeedsQuota
  <1>10. /\ healthy' \in BOOLEAN
         /\ file' \in [Deployments -> Windows \cup {NoWindow}]
         /\ FileKeepsVerdicts' /\ FileNeedsQuota'
    <2>1. \A e \in Deployments : signalled[e] # 0 => signalled'[e] # 0
      BY <1>7
    <2> QED BY <1>1, <1>3, <1>6, <1>9, <2>1, PersistStep DEF ReserveNeedsQuota
  <1>11. TypeOK'
    BY <1>3, <1>6, <1>8, <1>10 DEF QuotaInv, TypeOK
  <1>12. HistoryTypes'
    BY <1>1, <1>3, <1>7 DEF QuotaInv, HistoryTypes
  <1>13. ReopenNeedsFreshProbe'
    BY <1>1, <1>3, <1>5, <1>6, <1>7 DEF QuotaInv, ReopenNeedsFreshProbe
  <1>14. ClaimsAreFresh'
    BY <1>1, <1>7, <1>8 DEF QuotaInv, ClaimsAreFresh
  <1> QED BY <1>9, <1>10, <1>11, <1>12, <1>13, <1>14 DEF QuotaInv

(* A claim gets a token that no signal of the past reaches. *)
LEMMA ClaimStep ==
  ASSUME QuotaInv, NEW ok \in WriteResults, NEW heard \in BOOLEAN, ClaimDue(ok, heard),
         UNCHANGED history
  PROVE  QuotaInv'
  <1> DEFINE chosen == {d \in Due : Rank(d) < ProbeLimit}
             token(d) == issued + 1 + Rank(d)
             probed(d) == [AdvancedWindow(d) EXCEPT !.state = "half_open"]
             lease(d) == [token |-> token(d), expiresAt |-> now + ClaimLease]
  <1>1. /\ issued + Cardinality(chosen) <= MaxClaims
        /\ win' = [d \in Deployments |-> IF d \in chosen THEN probed(d) ELSE AdvancedWindow(d)]
        /\ claim' = [d \in Deployments |-> IF d \in chosen THEN lease(d) ELSE LiveClaims[d]]
        /\ issued' = issued + Cardinality(chosen)
        /\ asking' = IF ok /\ heard
                     THEN {[dep |-> d, token |-> token(d)] : d \in chosen} ELSE {}
        /\ PersistQuotaState(ok)
        /\ UNCHANGED <<now, busy, telling, mail>>
    BY DEF ClaimDue
  <1>2. /\ ok \in BOOLEAN /\ issued \in 0 .. MaxClaims /\ now \in Nat /\ ClaimLease \in Nat
        /\ MaxClaims \in Nat
    BY QuotaAssumption DEF QuotaInv, TypeOK
  <1>3. IsFiniteSet(chosen) /\ Cardinality(chosen) \in Nat
    <2>1. IsFiniteSet(Deployments) /\ chosen \in SUBSET Deployments
      BY QuotaAssumption, FS_Interval DEF Deployments, Due
    <2>2. IsFiniteSet(chosen)
      BY <2>1, FS_Subset
    <2> QED BY <2>2, FS_CardinalityType
  <1>4. ASSUME NEW d \in chosen
        PROVE  d \in Deployments /\ token(d) \in Tokens /\ token(d) >= issued + 1
    <2>1. d \in Deployments
      BY DEF Due
    <2>2. Rank(d) \in Nat /\ Rank(d) < Cardinality(chosen)
      BY RanksAreDense DEF QuotaInv
    <2> QED BY <1>1, <1>2, <1>3, <2>1, <2>2 DEF Tokens
  <1>5. ASSUME NEW d \in chosen
        PROVE  lease(d) \in Claims /\ [dep |-> d, token |-> token(d)] \in Asks
    <2> DEFINE expiry == now + ClaimLease
    <2>1. expiry \in Nat
      BY <1>2
    <2> HIDE DEF expiry, token
    <2>2. [token |-> token(d), expiresAt |-> expiry] \in Claims
      BY <1>4, <2>1 DEF Claims
    <2> QED BY <1>4, <2>2 DEF Asks, expiry
  <1>6. ASSUME NEW d \in chosen
        PROVE  /\ probed(d) \in Windows
               /\ probed(d).state \notin Dispatchable
               /\ probed(d).kind = AdvancedWindow(d).kind
               /\ AdvancedWindow(d).state \notin Dispatchable
    <2>1. AdvancedWindow(d) \in Windows /\ AdvancedWindow(d).state = "closed"
      BY <1>4, AdvanceKeeps DEF QuotaInv, Due
    <2> QED BY <2>1 DEF Windows, States, Dispatchable
  <1> HIDE DEF lease, probed, token, chosen
  <1>7. ASSUME NEW d \in Deployments
        PROVE  /\ win'[d] \in Windows
               /\ win'[d].kind = "quota" <=> win[d].kind = "quota"
               /\ win'[d].state \in Dispatchable <=> win[d].state \in Dispatchable
    BY <1>1, <1>6, AdvanceKeeps DEF QuotaInv
  <1>8. win' \in [Deployments -> Windows] /\ ReserveNeedsQuota' /\ ReopenNeedsFreshProbe'
    <2>1. win' \in [Deployments -> Windows]
      BY <1>1, <1>7
    <2> QED BY <1>7, <2>1 DEF QuotaInv, ReserveNeedsQuota, ReopenNeedsFreshProbe, history
  <1>9. claim' \in [Deployments -> Claims \cup {NoClaim}]
    <2>1. \A d \in Deployments : LiveClaims[d] \in Claims \cup {NoClaim}
      BY AdvanceKeeps DEF QuotaInv, TypeOK
    <2> QED BY <1>1, <1>5, <2>1
  <1>10. ClaimsAreFresh'
    <2>1. ASSUME NEW d \in Deployments, d \in chosen
          PROVE  claim'[d].token >= signalled'[d]
      <3>1. claim'[d].token = token(d) /\ token(d) \in Nat /\ token(d) >= issued + 1
        BY <1>1, <1>2, <1>4, <2>1 DEF lease, Tokens
      <3>2. signalled'[d] \in 0 .. MaxClaims + 1 /\ signalled'[d] <= issued + 1
        BY DEF QuotaInv, HistoryTypes, history
      <3> QED BY <1>2, <3>1, <3>2
    <2>2. ASSUME NEW d \in Deployments, d \notin chosen, claim'[d] # NoClaim
          PROVE  claim'[d].token >= signalled'[d]
      BY <1>1, <2>2, AdvanceKeeps DEF QuotaInv, ClaimsAreFresh, history
    <2> QED BY <2>1, <2>2 DEF ClaimsAreFresh
  <1>11. /\ healthy' \in BOOLEAN
         /\ file' \in [Deployments -> Windows \cup {NoWindow}]
         /\ FileKeepsVerdicts' /\ FileNeedsQuota'
    BY <1>1, <1>2, <1>8, PersistStep DEF ReserveNeedsQuota, history
  <1>12. issued' \in 0 .. MaxClaims /\ HistoryTypes'
    BY <1>1, <1>2, <1>3 DEF QuotaInv, HistoryTypes, history
  <1>13. asking' \subseteq Asks
    BY <1>1, <1>5
  <1>14. TypeOK'
    BY <1>1, <1>8, <1>9, <1>11, <1>12, <1>13 DEF QuotaInv, TypeOK
  <1> QED BY <1>8, <1>10, <1>11, <1>12, <1>14 DEF QuotaInv

(* What an accepted report makes of the window. *)
LEMMA AfterReportType ==
  ASSUME TypeOK, NEW m \in Reports
  PROVE  /\ AfterReport(m) \in Windows
         /\ AfterReport(m).state \in Dispatchable <=> m.verdict = "valid"
         /\ AfterReport(m).kind = "quota" =>
               m.verdict = "quota" \/ win[m.dep].kind = "quota"
  <1> DEFINE boost == m.observedAt + QuotaPolicy[m.dep].boostWindow
             next == NextProbeTime(m.dep, m.retryAfter, m.observedAt)
             failures == win[m.dep].failures + 1
             kind == IF m.verdict = "quota" \/ win[m.dep].kind = "quota"
                     THEN "quota" ELSE "probe_failure"
  <1>1. /\ m.dep \in Deployments /\ m.observedAt \in Nat /\ m.retryAfter \in RetryAfters \cup {0}
        /\ m.verdict \in Verdicts
    BY DEF Reports
  <1>2. win[m.dep].failures \in Nat
    BY <1>1 DEF TypeOK, Windows
  <1>3. boost \in Nat /\ failures \in Nat /\ next \in Nat
    <2>1. QuotaPolicy[m.dep].boostWindow \in Nat
      BY <1>1, QuotaAssumption
    <2>2. boost \in Nat
      BY <1>1, <2>1
    <2>3. failures \in Nat
      BY <1>2
    <2>4. next \in Nat
      BY <1>1, NextProbeType
    <2> QED BY <2>2, <2>3, <2>4
  <1>4. AfterReport(m) =
          IF m.verdict = "valid"
          THEN [state |-> "boosted", kind |-> "", nextProbeAt |-> 0, failures |-> 0,
                boostedUntil |-> boost]
          ELSE [state |-> "closed", kind |-> kind, nextProbeAt |-> next,
                boostedUntil |-> 0, failures |-> failures]
    BY DEF AfterReport
  <1>5. kind \in Kinds /\ (kind = "quota" <=> m.verdict = "quota" \/ win[m.dep].kind = "quota")
    BY DEF Kinds
  <1> HIDE DEF boost, next, failures, kind
  <1> DEFINE opened == [state |-> "boosted", kind |-> "", nextProbeAt |-> 0, failures |-> 0,
                        boostedUntil |-> boost]
             closed == [state |-> "closed", kind |-> kind, nextProbeAt |-> next,
                        boostedUntil |-> 0, failures |-> failures]
  <1>6. opened \in Windows /\ opened.state = "boosted" /\ opened.kind = ""
    BY <1>3 DEF Windows, States, Dispatchable, Kinds
  <1>7. closed \in Windows /\ closed.state = "closed" /\ closed.kind = kind
    BY <1>3, <1>5 DEF Windows, States, Dispatchable
  <1>8. AfterReport(m) = IF m.verdict = "valid" THEN opened ELSE closed
    BY <1>4
  <1> HIDE DEF opened, closed
  <1> QED BY <1>5, <1>6, <1>7, <1>8 DEF Dispatchable

(* Only a report under the claim of the window changes it: the valid one   *)
(* opens it by a token younger than the last signal.                       *)
LEMMA ReportStep ==
  ASSUME QuotaInv, NEW m \in mail, NEW ok \in WriteResults, NEW heard \in BOOLEAN,
         HHandleReport(m, ok, heard)
  PROVE  QuotaInv'
  <1> DEFINE d == m.dep
  <1>1. /\ mail' = mail \ {m}
        /\ win' = IF Accepted(m) THEN [win EXCEPT ![d] = AfterReport(m)] ELSE win
        /\ claim' = IF Accepted(m) THEN [claim EXCEPT ![d] = NoClaim] ELSE claim
        /\ PersistQuotaState(ok)
        /\ telling' = IF ok /\ heard THEN {t \in telling : t.report # m} ELSE telling
        /\ UNCHANGED <<now, issued, busy, asking>>
        /\ signalled' = IF Accepted(m) /\ m.verdict = "quota"
                        THEN [signalled EXCEPT ![d] = issued + 1] ELSE signalled
        /\ opener' = IF Accepted(m) /\ m.verdict = "valid"
                     THEN [opener EXCEPT ![d] = m.token] ELSE opener
    BY DEF HHandleReport, HandleReport
  <1>2. /\ ok \in BOOLEAN /\ m \in Reports /\ issued \in 0 .. MaxClaims /\ MaxClaims \in Nat
        /\ TypeOK
    BY QuotaAssumption DEF QuotaInv, TypeOK
  <1>3. d \in Deployments /\ m.token \in Tokens /\ m.token \in Nat /\ m.verdict \in Verdicts
    BY <1>2 DEF Reports, Tokens
  <1>4. /\ AfterReport(m) \in Windows
        /\ AfterReport(m).state \in Dispatchable <=> m.verdict = "valid"
        /\ AfterReport(m).kind = "quota" => m.verdict = "quota" \/ win[d].kind = "quota"
    BY <1>2, AfterReportType
  <1>5. Accepted(m) => claim[d] # NoClaim /\ claim[d].token = m.token
    BY DEF Accepted
  <1> HIDE DEF d
  <1>6. /\ win' \in [Deployments -> Windows]
        /\ Accepted(m) => win'[d] = AfterReport(m)
        /\ \A e \in Deployments : ~ Accepted(m) \/ e # d => win'[e] = win[e]
    BY <1>1, <1>2, <1>3, <1>4 DEF TypeOK
  <1>7. /\ claim' \in [Deployments -> Claims \cup {NoClaim}]
        /\ \A e \in Deployments : claim'[e] \in {claim[e], NoClaim}
        /\ Accepted(m) => claim'[d] = NoClaim
    BY <1>1, <1>2, <1>3 DEF TypeOK
  <1>8. /\ signalled' \in [Deployments -> 0 .. MaxClaims + 1]
        /\ Accepted(m) /\ m.verdict = "quota" => signalled'[d] = issued + 1
        /\ \A e \in Deployments : ~ (Accepted(m) /\ m.verdict = "quota") \/ e # d =>
              signalled'[e] = signalled[e]
    BY <1>1, <1>2, <1>3 DEF QuotaInv, HistoryTypes
  <1>9. /\ opener' \in [Deployments -> Nat]
        /\ Accepted(m) /\ m.verdict = "valid" => opener'[d] = m.token
        /\ \A e \in Deployments : ~ (Accepted(m) /\ m.verdict = "valid") \/ e # d =>
              opener'[e] = opener[e]
    BY <1>1, <1>2, <1>3 DEF QuotaInv, HistoryTypes
  <1>10. ReserveNeedsQuota'
    BY <1>2, <1>3, <1>4, <1>6, <1>8 DEF QuotaInv, ReserveNeedsQuota
  <1>11. /\ healthy' \in BOOLEAN
         /\ file' \in [Deployments -> Windows \cup {NoWindow}]
         /\ FileKeepsVerdicts' /\ FileNeedsQuota'
    <2>1. \A e \in Deployments : signalled[e] # 0 => signalled'[e] # 0
      BY <1>2, <1>8
    <2> QED BY <1>1, <1>2, <1>6, <1>10, <2>1, PersistStep DEF ReserveNeedsQuota
  <1>12. TypeOK'
    BY <1>1, <1>2, <1>6, <1>7, <1>11 DEF TypeOK
  <1>13. HistoryTypes'
    BY <1>1, <1>2, <1>8, <1>9 DEF QuotaInv, HistoryTypes
  <1>14. ReopenNeedsFreshProbe'
    <2>1. ASSUME NEW e \in Deployments, win'[e].state \in Dispatchable, signalled'[e] # 0
          PROVE  opener'[e] >= signalled'[e]
      <3>1. CASE Accepted(m) /\ e = d
        <4>1. m.verdict = "valid"
          BY <1>4, <1>6, <2>1, <3>1
        <4>2. opener'[e] = m.token /\ signalled'[e] = signalled[e]
          BY <1>8, <1>9, <3>1, <4>1
        <4> QED BY <1>5, <3>1, <4>2 DEF QuotaInv, ClaimsAreFresh
      <3>2. CASE ~ Accepted(m) \/ e # d
        BY <1>6, <1>8, <1>9, <2>1, <3>2 DEF QuotaInv, ReopenNeedsFreshProbe
      <3> QED BY <3>1, <3>2
    <2> QED BY <2>1 DEF ReopenNeedsFreshProbe
  <1>15. ClaimsAreFresh'
    BY <1>7, <1>8 DEF QuotaInv, ClaimsAreFresh
  <1> QED BY <1>10, <1>11, <1>12, <1>13, <1>14, <1>15 DEF QuotaInv

(* A start from windows that open nothing more than the memory does, or    *)
(* whose opening is remembered as such. *)
LEMMA StartStep ==
  ASSUME QuotaInv, NEW later \in now .. MaxTime, NEW ok \in WriteResults,
         NEW corrupt \in BOOLEAN, NEW saved \in [Deployments -> Windows \cup {NoWindow}],
         StartFrom(saved, corrupt, later, ok), signalled' = signalled,
         \A d \in Deployments :
            saved[d] # NoWindow /\ saved[d].kind = "quota" => signalled[d] # 0,
         opener' \in [Deployments -> Nat],
         \A d \in Deployments :
            win'[d].state \in Dispatchable /\ signalled[d] # 0 => opener'[d] >= signalled[d]
  PROVE  QuotaInv'
  <1>1. /\ ok \in BOOLEAN /\ now' = later /\ later \in Nat /\ later \in 0 .. MaxTime
        /\ win' = [d \in Deployments |->
                     CASE corrupt -> ClosedWindow(later)
                       [] ~ corrupt /\ saved[d] = NoWindow -> FirstWindow(d, later)
                       [] OTHER -> NormalizeWindow(saved[d], later)]
        /\ claim' = [d \in Deployments |-> NoClaim]
        /\ healthy' = ok
        /\ file' = IF ok THEN win' ELSE
                   IF corrupt THEN [d \in Deployments |-> NoWindow] ELSE saved
        /\ busy' = [r \in Requests |-> Nobody]
        /\ mail' = {}
        /\ UNCHANGED <<issued, asking, telling>>
    BY QuotaAssumption DEF StartFrom, QuotaInv, TypeOK
  <1>2. ASSUME NEW d \in Deployments
        PROVE  /\ win'[d] \in Windows
               /\ win'[d].kind = "quota" => signalled[d] # 0
    <2>1. CASE corrupt
      BY <1>1, <2>1, NewWindowTypes
    <2>2. CASE ~ corrupt /\ saved[d] = NoWindow
      BY <1>1, <2>2, NewWindowTypes
    <2>3. CASE ~ corrupt /\ saved[d] # NoWindow
      BY <1>1, <2>3, NormalizeKeeps
    <2> QED BY <2>1, <2>2, <2>3
  <1>3. win' \in [Deployments -> Windows] /\ ReserveNeedsQuota' /\ ReopenNeedsFreshProbe'
    <2>1. win' \in [Deployments -> Windows]
      BY <1>1, <1>2
    <2> QED BY <1>2, <2>1 DEF ReserveNeedsQuota, ReopenNeedsFreshProbe
  <1>4. file' \in [Deployments -> Windows \cup {NoWindow}] /\ FileKeepsVerdicts'
    BY <1>1, <1>3, QuotaNames DEF FileKeepsVerdicts
  <1>5. FileNeedsQuota'
    BY <1>1, <1>2 DEF FileNeedsQuota
  <1>6. TypeOK'
    BY <1>1, <1>3, <1>4 DEF QuotaInv, TypeOK
  <1>7. HistoryTypes'
    BY <1>1 DEF QuotaInv, HistoryTypes
  <1>8. ClaimsAreFresh'
    BY <1>1 DEF ClaimsAreFresh
  <1> QED BY <1>3, <1>4, <1>5, <1>6, <1>7, <1>8 DEF QuotaInv

(* After a crash only a file that could not be written opens what the      *)
(* memory had closed.                                                      *)
LEMMA CrashStep ==
  ASSUME QuotaInv, NEW later \in now .. MaxTime, NEW ok \in WriteResults,
         NEW corrupt \in Corruption, HCrash(corrupt, later, ok)
  PROVE  QuotaInv'
  <1>1. /\ corrupt \in BOOLEAN /\ later \in Nat
        /\ StartFrom(file, corrupt, later, ok) /\ signalled' = signalled
        /\ opener' = [d \in Deployments |->
                        IF ~ healthy /\ win'[d].state \in Dispatchable
                        THEN signalled[d] ELSE opener[d]]
    BY QuotaAssumption DEF HCrash, Crash, QuotaInv, TypeOK
  <1>2. file \in [Deployments -> Windows \cup {NoWindow}] /\ opener' \in [Deployments -> Nat]
    BY <1>1 DEF QuotaInv, TypeOK, HistoryTypes
  <1>3. ASSUME NEW d \in Deployments, win'[d].state \in Dispatchable, signalled[d] # 0
        PROVE  opener'[d] >= signalled[d]
    <2>1. CASE ~ healthy
      BY <1>1, <1>3, <2>1 DEF QuotaInv, HistoryTypes
    <2>2. CASE healthy
      <3>1. opener'[d] = opener[d]
        BY <1>1, <2>2
      <3>2. ~ corrupt
        BY <1>1, <1>3, NewWindowTypes DEF StartFrom
      <3>3. file[d] \in Windows /\ win'[d] = NormalizeWindow(file[d], later)
        BY <1>1, <1>2, <2>2, <3>2 DEF StartFrom, QuotaInv, FileKeepsVerdicts
      <3>4. win[d].state \in Dispatchable
        BY <1>1, <1>3, <2>2, <3>3, NormalizeKeeps DEF QuotaInv, FileKeepsVerdicts
      <3> QED BY <1>3, <3>1, <3>4 DEF QuotaInv, ReopenNeedsFreshProbe
    <2> QED BY <2>1, <2>2
  <1> QED BY <1>1, <1>2, <1>3, StartStep DEF QuotaInv, FileNeedsQuota

LEMMA ShutdownStep ==
  ASSUME QuotaInv, NEW later \in now .. MaxTime, NEW ok \in WriteResults,
         Shutdown(later, ok), UNCHANGED history
  PROVE  QuotaInv'
  <1>1. /\ later \in Nat /\ StartFrom(win, FALSE, later, ok)
        /\ signalled' = signalled /\ opener' = opener
    <2>1. later \in Nat
      BY QuotaAssumption DEF QuotaInv, TypeOK
    <2> QED BY <2>1 DEF Shutdown, history
  <1>2. win \in [Deployments -> Windows]
    BY DEF QuotaInv, TypeOK
  <1>3. ASSUME NEW d \in Deployments, win'[d].state \in Dispatchable, signalled[d] # 0
        PROVE  opener'[d] >= signalled[d]
    <2>1. win'[d] = NormalizeWindow(win[d], later)
      BY <1>1, <1>2, QuotaNames DEF StartFrom
    <2> QED BY <1>1, <1>2, <1>3, <2>1, NormalizeKeeps DEF QuotaInv, ReopenNeedsFreshProbe
  <1>4. opener' \in [Deployments -> Nat]
    BY <1>1 DEF QuotaInv, HistoryTypes
  <1> QED BY <1>1, <1>2, <1>3, <1>4, StartStep DEF QuotaInv, ReserveNeedsQuota

LEMMA ReloadStep ==
  ASSUME QuotaInv, NEW replaced \in SUBSET Deployments, NEW ok \in WriteResults,
         HReload(replaced, ok)
  PROVE  QuotaInv'
  <1>1. /\ win' = [d \in Deployments |-> IF d \in replaced THEN FirstWindow(d, now)
                                         ELSE NormalizeWindow(win[d], now)]
        /\ claim' = [d \in Deployments |-> NoClaim]
        /\ healthy' = ok
        /\ file' = IF ok THEN win'
                   ELSE [d \in Deployments |-> IF d \in replaced THEN NoWindow ELSE file[d]]
        /\ UNCHANGED <<now, issued, busy, asking, telling, mail>>
        /\ signalled' = [d \in Deployments |-> IF d \in replaced THEN 0 ELSE signalled[d]]
        /\ opener' = [d \in Deployments |-> IF d \in replaced THEN 0 ELSE opener[d]]
    BY DEF HReload, Reload, prober
  <1>2. /\ ok \in BOOLEAN /\ now \in Nat /\ MaxClaims \in Nat /\ issued \in 0 .. MaxClaims
        /\ win \in [Deployments -> Windows]
        /\ file \in [Deployments -> Windows \cup {NoWindow}]
    BY QuotaAssumption DEF QuotaInv, TypeOK
  <1>3. ASSUME NEW d \in Deployments
        PROVE  /\ win'[d] \in Windows
               /\ d \in replaced => win'[d].kind # "quota" /\ signalled'[d] = 0
               /\ d \notin replaced =>
                     /\ win'[d].kind = win[d].kind
                     /\ win'[d].state \in Dispatchable <=> win[d].state \in Dispatchable
                     /\ signalled'[d] = signalled[d] /\ opener'[d] = opener[d]
    BY <1>1, <1>2, NewWindowTypes, NormalizeKeeps
  <1>4. win' \in [Deployments -> Windows]
    BY <1>1, <1>3
  <1>5. ReserveNeedsQuota' /\ ReopenNeedsFreshProbe'
    BY <1>3, <1>4 DEF QuotaInv, ReserveNeedsQuota, ReopenNeedsFreshProbe
  <1>6. file' \in [Deployments -> Windows \cup {NoWindow}] /\ FileKeepsVerdicts'
    BY <1>1, <1>2, <1>4, QuotaNames DEF FileKeepsVerdicts
  <1>7. FileNeedsQuota'
    BY <1>1, <1>3, <1>5 DEF QuotaInv, FileNeedsQuota, ReserveNeedsQuota
  <1>8. TypeOK'
    BY <1>1, <1>2, <1>4, <1>6 DEF QuotaInv, TypeOK
  <1>9. HistoryTypes'
    BY <1>1, <1>2, <1>3 DEF QuotaInv, HistoryTypes
  <1>10. ClaimsAreFresh'
    BY <1>1 DEF ClaimsAreFresh
  <1> QED BY <1>5, <1>6, <1>7, <1>8, <1>9, <1>10 DEF QuotaInv

-----------------------------------------------------------------------------
(* The invariant of the specification.                                     *)

LEMMA QuotaInit == HInit => QuotaInv
  <1> SUFFICES ASSUME HInit
               PROVE  QuotaInv
    OBVIOUS
  <1>1. \A d \in Deployments : win[d] \in Windows /\ win[d].kind # "quota"
    BY NewWindowTypes DEF HInit, Init
  <1>2. TypeOK
    <2>1. 1 \in 0 .. MaxTime /\ 0 \in 0 .. MaxClaims
      BY QuotaAssumption
    <2>2. win \in [Deployments -> Windows]
      BY <1>1 DEF HInit, Init
    <2> QED BY <2>1, <2>2 DEF HInit, Init, TypeOK
  <1>3. HistoryTypes
    BY QuotaAssumption DEF HInit, Init, HistoryTypes, None
  <1>4. FileKeepsVerdicts /\ ReserveNeedsQuota /\ FileNeedsQuota
    BY <1>1, QuotaNames DEF HInit, Init, FileKeepsVerdicts, ReserveNeedsQuota, FileNeedsQuota
  <1>5. ReopenNeedsFreshProbe /\ ClaimsAreFresh
    BY DEF HInit, Init, ReopenNeedsFreshProbe, ClaimsAreFresh, None
  <1> QED BY <1>2, <1>3, <1>4, <1>5 DEF QuotaInv

LEMMA QuotaStep == QuotaInv /\ [HNext]_hvars => QuotaInv'
  <1> SUFFICES ASSUME QuotaInv, [HNext]_hvars
               PROVE  QuotaInv'
    OBVIOUS
  <1>1. CASE UNCHANGED hvars
    BY <1>1 DEF hvars, vars, history, QuotaInv, TypeOK, HistoryTypes, FileKeepsVerdicts,
                ReserveNeedsQuota, FileNeedsQuota, ReopenNeedsFreshProbe, ClaimsAreFresh
  <1>2. CASE HNext
    BY <1>2, SignalStep, ReportStep, CrashStep, ReloadStep, DispatchStep, ProberStep,
       ObserveStep, PersistRetryStep, ClaimStep, ShutdownStep DEF HNext
  <1> QED BY <1>1, <1>2

(* Every state of the quota windows and of their history is well formed. *)
THEOREM QuotaTypeCorrect == HSpec => []TypeOK
  <1>1. QuotaInv => TypeOK
    BY DEF QuotaInv
  <1> QED BY <1>1, QuotaInit, QuotaStep, PTL DEF HSpec

(* While the last write succeeded, the file opens exactly the windows that *)
(* are open in memory: no restart changes a verdict (persistQuotaState).   *)
THEOREM RestartsKeepVerdicts == HSpec => []FileKeepsVerdicts
  <1>1. QuotaInv => FileKeepsVerdicts
    BY DEF QuotaInv
  <1> QED BY <1>1, QuotaInit, QuotaStep, PTL DEF HSpec

(* A window closed by a quota signal opens only on the valid report of a   *)
(* probe claimed after it (recordProbeResult), whatever is late, lost,     *)
(* repeated or restarted.                                                  *)
THEOREM SignalsOutliveOldProbes == HSpec => []ReopenNeedsFreshProbe
  <1>1. QuotaInv => ReopenNeedsFreshProbe
    BY DEF QuotaInv
  <1> QED BY <1>1, QuotaInit, QuotaStep, PTL DEF HSpec

(* A window counts as closed by quota only if its deployment gave a quota  *)
(* signal: failed probes and expired claims never spend the reserve.       *)
THEOREM ReserveIsForQuotaOnly == HSpec => []ReserveNeedsQuota
  <1>1. QuotaInv => ReserveNeedsQuota
    BY DEF QuotaInv
  <1> QED BY <1>1, QuotaInit, QuotaStep, PTL DEF HSpec
=============================================================================
