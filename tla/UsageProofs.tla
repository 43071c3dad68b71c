------------------------------ MODULE UsageProofs ------------------------------
(***************************************************************************)
(* What was used and what it cost: two machines that share no variable.    *)
(*                                                                         *)
(* The budget.  For every number of requests and vendors, every price, any *)
(* number of days, crashes and failed writes: the credits counted are of   *)
(* today (UsedIsOfToday), what is reserved is what the requests in flight  *)
(* hold (ReservationsExact), and a vendor's cap is exceeded only by        *)
(* charges nothing was reserved for (CapHolds).                            *)
(*                                                                         *)
(* None of them is inductive.  A restart takes over what the file holds,   *)
(* so the file must be known to hold the credits of today when it carries  *)
(* today's date, and nothing may be missing when it does not; the timer    *)
(* puts the counter to nothing whenever it finds another date, so a charge *)
(* of today before that must have been noticed as a gap (BudgetInv).  The  *)
(* file must keep the caps too, a table just made must hold nothing of the *)
(* requests that outlive the old one, and no request may run in a process  *)
(* that has ended (MoneyInv).                                              *)
(*                                                                         *)
(* The usage log.  For every number of rows, every size of a file and of   *)
(* the archives, any retention, and any rotations, clean-ups, failures,    *)
(* kills and readers: the ledger implements the log it promises            *)
(* (ImplementsLog), a finished sync of the index has counted the lines of  *)
(* the files exactly (HistoryExact), and the dashboard counts every row of *)
(* the day (DashboardCounts).  Four parts, each resting on those before:   *)
(*   - bytes, lines and files: what a reader finds in two parts of a file; *)
(*   - the ledger: every row is in one place (an archive, the current      *)
(*     file, the stream, the queue), and the places are in the order of    *)
(*     the rows (LedgerInv); what each step does to the log;               *)
(*   - the dashboard: before and while the scan of the start runs, what is *)
(*     not counted yet is in a file it has still to read (DashboardInv);   *)
(*   - the index: of each file the lines before the offset are counted and *)
(*     no others, and while a sync reads, what is missing is in the names  *)
(*     it has left (IndexInv).                                             *)
(***************************************************************************)
EXTENDS VendorBudget, UsageHistory, FiniteSetTheorems, SequenceTheorems, WellFoundedInduction,
        TLAPS

-----------------------------------------------------------------------------
(* The budget.                                                             *)

RequestRecords == [phase : {"new", "body", "dispatch", "done"}, vendor : Vendors,
                   reserve : Nat, tries : Nat, stale : BOOLEAN]

Audits == [mixed : SUBSET Vendors, extra : [Vendors -> Nat], loaded : [Vendors -> Nat],
           carried : BOOLEAN]

Days == [credits : Nat, gap : BOOLEAN, lost : BOOLEAN]

BudgetTypes == TypeOK /\ audit \in Audits /\ fileAudit \in Audits /\ today \in Days

\* used counts the credits of today, if it counts nothing older.
Counts(used, carried) ==
    ~carried => /\ used <= today.credits
                /\ ~today.gap /\ ~today.lost => used = today.credits

SavedToday == file # NoFile /\ file.updated = day

\* The parts of the inductive invariant.
MemoryCounts == Counts(mem.used, audit.carried)
FileCounts == SavedToday => Counts(file.used, fileAudit.carried)
NothingUnsaved == ~SavedToday /\ ~today.gap /\ ~today.lost => today.credits = 0
SavedInThePast == file # NoFile => file.updated <= day
GapNoticed == resetDay # day /\ ~today.gap => today.credits = 0

BudgetInv ==
    BudgetTypes /\ MemoryCounts /\ FileCounts /\ NothingUnsaved /\ SavedInThePast /\ GapNoticed

-----------------------------------------------------------------------------

(* The operations of the manager keep the spend well-formed; only a charge   *)
(* changes the credits.                                                      *)

LEMMA FreshType ==
  ASSUME NEW d \in Nat
  PROVE  Fresh(d) \in Spends /\ Fresh(d).used = 0
  BY DEF Fresh, Zero, Spends

LEMMA ReserveType ==
  ASSUME NEW m \in Spends, NEW v \in Vendors, NEW amount \in Nat
  PROVE  ReserveVendorCny(m, v, amount) \in Spends /\ ReserveVendorCny(m, v, amount).used = m.used
  BY DEF ReserveVendorCny, Spends

LEMMA ReleaseType ==
  ASSUME NEW m \in Spends, NEW v \in Vendors, NEW amount \in Nat
  PROVE  ReleaseVendorCny(m, v, amount) \in Spends /\ ReleaseVendorCny(m, v, amount).used = m.used
  BY DEF ReleaseVendorCny, Spends

LEMMA ChargedType ==
  ASSUME NEW m \in Spends, day \in Nat,
         NEW v \in Vendors, NEW credits \in Nat, NEW cny \in Nat
  PROVE  Charged(m, v, credits, cny) \in Spends
         /\ Charged(m, v, credits, cny).used = m.used + credits
  <1> DEFINE c == [m EXCEPT !.used = @ + credits]
  <1>1. c \in Spends /\ c.used = m.used + credits
    BY DEF Spends
  <1> HIDE DEF c
  <1>2. ResetDailyVendorSpend(c) \in Spends /\ ResetDailyVendorSpend(c).used = c.used
    BY <1>1 DEF ResetDailyVendorSpend, Spends, Zero
  <1> DEFINE d == ResetDailyVendorSpend(c)
  <1>3. Charged(m, v, credits, cny) = [d EXCEPT !.cny[v] = @ + cny]
    BY DEF Charged, c
  <1> HIDE DEF d
  <1>4. d \in Spends /\ d.used = m.used + credits
    BY <1>1, <1>2 DEF d
  <1> QED BY <1>3, <1>4 DEF Spends

LEMMA SavedType ==
  ASSUME NEW m \in Spends, day \in Nat
  PROVE  /\ Saved(m) \in Saves /\ Saved(m) # NoFile
         /\ Saved(m).used = m.used /\ Saved(m).updated = day
  BY BudgetAssumption DEF Saved, Spends, Saves

LEMMA VendorCostType ==
  ASSUME NEW v \in Vendors, NEW charge \in Charges, NEW estimate \in Nat
  PROVE  VendorCost(v, charge, estimate) \in Nat /\ charge.credits \in Nat
  BY BudgetAssumption DEF VendorCost

-----------------------------------------------------------------------------

(* The observers never turn an amount that counts earlier days into one that *)
(* does not.                                                                 *)

LEMMA TableType ==
  ASSUME NEW a \in Audits
  PROVE  TableOf(a) \in Audits /\ TableOf(a).carried = a.carried
  BY DEF TableOf, NewTable, Audits, Zero

LEMMA AuditChargeType ==
  ASSUME NEW a \in Audits, NEW v \in Vendors, NEW cny \in Nat, NEW covered \in Nat
  PROVE  /\ AuditCharge(a, v, cny, covered) \in Audits
         /\ AuditCharge(a, v, cny, covered).carried = a.carried
  BY DEF AuditCharge, Audits

LEMMA NewAuditType == NewAudit \in Audits /\ ~NewAudit.carried
  BY DEF NewAudit, Audits, Zero

LEMMA RequestsNowType ==
  ASSUME req \in [Requests -> RequestRecords]
  PROVE  RequestsNow \in [Requests -> RequestRecords] /\ Stale(req) \in [Requests -> RequestRecords]
  <1>1. ASSUME NEW r \in Requests
        PROVE  [req[r] EXCEPT !.stale = @ \/ req[r].phase = "dispatch"] \in RequestRecords
    BY DEF RequestRecords
  <1>2. Stale(req) \in [Requests -> RequestRecords]
    BY <1>1 DEF Stale
  <1> QED BY <1>2 DEF RequestsNow

-----------------------------------------------------------------------------

(* What the two parts that the steps share do. *)

LEMMA ReleaseStep ==
  ASSUME NEW r \in Requests, NEW m \in Spends, NEW a \in Audits,
         NEW rs \in [Requests -> RequestRecords], req \in [Requests -> RequestRecords],
         Release(r, m, a, rs)
  PROVE  /\ mem' \in Spends /\ mem'.used = m.used
         /\ audit' \in Audits /\ audit'.carried = a.carried
         /\ req' \in [Requests -> RequestRecords]
  <1>1. req[r].vendor \in Vendors /\ req[r].reserve \in Nat
    BY DEF RequestRecords
  <1>2. mem' \in Spends /\ mem'.used = m.used
    BY <1>1, ReleaseType DEF Release
  <1>3. audit' \in Audits /\ audit'.carried = a.carried
    <2> DEFINE v == req[r].vendor
    <2>1. [a EXCEPT !.mixed = @ \cup {v}] \in Audits
          /\ [a EXCEPT !.mixed = @ \cup {v}].carried = a.carried
      BY <1>1 DEF Audits
    <2> QED BY <2>1 DEF Release
  <1>4. [rs[r] EXCEPT !.phase = "done"] \in RequestRecords
    BY DEF RequestRecords
  <1>5. req' \in [Requests -> RequestRecords]
    BY <1>4 DEF Release
  <1> QED BY <1>2, <1>3, <1>5

LEMMA WriteStep ==
  ASSUME NEW m \in Spends, NEW a \in Audits, NEW saved \in BOOLEAN,
         day \in Nat, file \in Saves \cup {NoFile}, fileAudit \in Audits,
         Write(m, a, saved)
  PROVE  /\ file' \in Saves \cup {NoFile} /\ fileAudit' \in Audits
         /\ saved => /\ file' # NoFile /\ file'.used = m.used /\ file'.updated = day
                     /\ fileAudit' = a
         /\ ~saved => file' = file /\ fileAudit' = fileAudit
  BY SavedType DEF Write

(* Every step within a day that counts credits, none or some, and writes the *)
(* memory or notices that it did not.                                        *)
LEMMA CountingStep ==
  ASSUME BudgetInv, NEW credits \in Nat, NEW saved \in BOOLEAN,
         mem' \in Spends, mem'.used = mem.used + credits,
         audit' \in Audits, audit'.carried = audit.carried,
         file' \in Saves \cup {NoFile}, fileAudit' \in Audits,
         saved => /\ file' # NoFile /\ file'.used = mem'.used /\ file'.updated = day
                  /\ fileAudit'.carried = audit'.carried,
         ~saved => file' = file /\ fileAudit' = fileAudit,
         today' = TodayCharged(credits, saved) \/ (credits = 0 /\ today' = today),
         req' \in [Requests -> RequestRecords], faults' \in Nat,
         up' = up, day' = day, resetDay' = resetDay
  PROVE  BudgetInv'
  <1>1. /\ mem \in Spends /\ mem.used \in Nat /\ day \in Nat /\ resetDay \in Nat /\ up \in BOOLEAN
        /\ today \in Days /\ file \in Saves \cup {NoFile} /\ audit \in Audits
        /\ fileAudit \in Audits
    BY DEF BudgetInv, BudgetTypes, TypeOK, Spends
  <1>2. /\ today' \in Days /\ today'.credits = today.credits + credits
        /\ today.gap => today'.gap
        /\ today.lost => today'.lost
        /\ credits > 0 /\ resetDay # day => today'.gap
        /\ credits > 0 /\ ~saved => today'.lost
    <2>1. CASE today' = TodayCharged(credits, saved)
      <3> DEFINE g == today.gap \/ (credits > 0 /\ resetDay # day)
                 l == IF saved THEN today.lost ELSE today.lost \/ credits > 0
                 c == today.credits + credits
      <3>1. today' = [credits |-> c, gap |-> g, lost |-> l]
        BY <2>1 DEF TodayCharged
      <3>2. /\ g \in BOOLEAN /\ l \in BOOLEAN
            /\ today.gap => g
            /\ today.lost => l
            /\ credits > 0 /\ resetDay # day => g
            /\ credits > 0 /\ ~saved => l
        <4>1. today.gap \in BOOLEAN /\ today.lost \in BOOLEAN
          BY <1>1 DEF Days
        <4> DEFINE some == credits > 0
        <4> HIDE DEF some
        <4>2. /\ g = (today.gap \/ (some /\ resetDay # day))
              /\ l = IF saved THEN today.lost ELSE today.lost \/ some
          BY Zenon DEF g, l, some
        <4>3. /\ g \in BOOLEAN /\ l \in BOOLEAN
              /\ today.gap => g
              /\ today.lost => l
              /\ some /\ resetDay # day => g
              /\ some /\ ~saved => l
          BY <4>1, <4>2, Zenon
        <4> QED BY <4>3, Zenon DEF some
      <3>4. c \in Nat
        BY <1>1 DEF Days
      <3> HIDE DEF g, l
      <3>3. today' \in Days /\ today'.credits = c /\ today'.gap = g /\ today'.lost = l
        BY <3>1, <3>2, <3>4 DEF Days
      <3> QED BY <3>2, <3>3
    <2>2. CASE credits = 0 /\ today' = today
      BY <1>1, <2>2 DEF Days
    <2> QED BY <2>1, <2>2
  <1>3. today.credits \in Nat /\ today'.credits \in Nat
    BY <1>1, <1>2 DEF Days
  <1>4. BudgetTypes'
    BY <1>1, <1>2 DEF BudgetTypes, TypeOK, RequestRecords
  <1>5. MemoryCounts'
    BY <1>1, <1>2, <1>3 DEF BudgetInv, MemoryCounts, Counts
  <1>6. FileCounts'
    <2>1. CASE saved
      BY <1>5, <2>1 DEF FileCounts, MemoryCounts, Counts
    <2>2. CASE ~saved
      <3>1. file' = file /\ fileAudit' = fileAudit /\ (credits = 0 \/ today'.lost)
        BY <1>2, <2>2
      <3>2. CASE SavedToday /\ ~fileAudit.carried
        <4>1. file.used \in Nat /\ file.used <= today.credits
              /\ (~today.gap /\ ~today.lost => file.used = today.credits)
          BY <1>1, <3>2 DEF BudgetInv, FileCounts, Counts, SavedToday, Saves
        <4> QED BY <1>2, <1>3, <3>1, <4>1 DEF FileCounts, Counts
      <3>3. CASE ~(SavedToday /\ ~fileAudit.carried)
        BY <3>1, <3>3 DEF FileCounts, SavedToday, Counts
      <3> QED BY <3>2, <3>3
    <2> QED BY <2>1, <2>2
  <1>7. NothingUnsaved'
    <2>1. CASE saved
      BY <2>1 DEF NothingUnsaved, SavedToday
    <2>2. CASE ~saved
      BY <1>2, <1>3, <2>2 DEF BudgetInv, NothingUnsaved, SavedToday
    <2> QED BY <2>1, <2>2
  <1>8. SavedInThePast'
    BY <1>1 DEF BudgetInv, SavedInThePast
  <1>9. GapNoticed'
    BY <1>2, <1>3 DEF BudgetInv, GapNoticed
  <1> QED BY <1>4, <1>5, <1>6, <1>7, <1>8, <1>9 DEF BudgetInv

-----------------------------------------------------------------------------

(* The steps of a request. *)

LEMMA RequestSteps ==
  ASSUME BudgetInv, NEW r \in Requests,
         \/ \E v \in Vendors : Admit(r, v)
         \/ RefuseBody(r)
         \/ \E estimate \in Reserves : ReadBody(r, estimate)
  PROVE  BudgetInv'
  <1>1. /\ mem \in Spends /\ mem.used \in Nat /\ day \in Nat /\ faults \in Nat
        /\ today \in Days /\ file \in Saves \cup {NoFile} /\ audit \in Audits
        /\ fileAudit \in Audits /\ req \in [Requests -> RequestRecords]
    BY DEF BudgetInv, BudgetTypes, TypeOK, Spends, RequestRecords
  <1>2. req[r].vendor \in Vendors
    BY <1>1 DEF RequestRecords
  <1>3. /\ UNCHANGED <<day, resetDay, up, file, faults, audit, fileAudit, today>>
        /\ mem' \in Spends /\ mem'.used = mem.used
        /\ req' \in [Requests -> RequestRecords]
    <2>1. ASSUME NEW v \in Vendors, Admit(r, v)
          PROVE  <1>3!:
      <3>1. [req[r] EXCEPT !.phase = "body", !.vendor = v] \in RequestRecords
        BY <1>1 DEF RequestRecords
      <3>2. req' = [req EXCEPT ![r] = [req[r] EXCEPT !.phase = "body", !.vendor = v]]
        BY <1>1, <2>1 DEF Admit
      <3> QED BY <1>1, <2>1, <3>1, <3>2 DEF Admit
    <2>2. CASE RefuseBody(r)
      <3>1. [req[r] EXCEPT !.phase = "done"] \in RequestRecords
        BY <1>1 DEF RequestRecords
      <3> QED BY <1>1, <2>2, <3>1 DEF RefuseBody
    <2>3. ASSUME NEW estimate \in Reserves, ReadBody(r, estimate)
          PROVE  <1>3!:
      <3> DEFINE v == req[r].vendor
                 amount == IF Cap[v] = 0 THEN 0 ELSE estimate
      <3>1. amount \in Nat
        BY BudgetAssumption
      <3>2. CASE ReservationFits(v, amount)
        <4>1. [req[r] EXCEPT !.phase = "dispatch", !.reserve = amount] \in RequestRecords
          BY <1>1, <3>1 DEF RequestRecords
        <4>2. /\ mem' = ReserveVendorCny(mem, v, amount)
              /\ req' = [req EXCEPT ![r] = [req[r] EXCEPT !.phase = "dispatch", !.reserve = amount]]
          BY <1>1, <2>3, <3>2 DEF ReadBody
        <4>3. mem' \in Spends /\ mem'.used = mem.used
          BY <1>1, <1>2, <3>1, <4>2, ReserveType
        <4> QED BY <1>1, <2>3, <4>1, <4>2, <4>3 DEF ReadBody
      <3>3. CASE ~ReservationFits(v, amount)
        <4>1. [req[r] EXCEPT !.phase = "done"] \in RequestRecords
          BY <1>1 DEF RequestRecords
        <4>2. mem' = mem /\ req' = [req EXCEPT ![r] = [req[r] EXCEPT !.phase = "done"]]
          BY <1>1, <2>3, <3>3 DEF ReadBody
        <4> QED BY <1>1, <2>3, <4>1, <4>2 DEF ReadBody
      <3> QED BY <3>2, <3>3
    <2> QED BY <2>1, <2>2, <2>3
  <1> DEFINE credits == 0
             saved   == FALSE
  <1>4. /\ credits \in Nat /\ saved \in BOOLEAN /\ ~saved
        /\ mem'.used = mem.used + credits
        /\ credits = 0 /\ today' = today
    BY <1>1, <1>3
  <1> HIDE DEF credits, saved
  <1> QED BY <1>1, <1>3, <1>4, CountingStep

LEMMA EndUnchargedStep ==
  ASSUME BudgetInv, NEW r \in Requests, EndUncharged(r)
  PROVE  BudgetInv'
  <1>1. /\ mem \in Spends /\ mem.used \in Nat /\ day \in Nat /\ faults \in Nat
        /\ today \in Days /\ file \in Saves \cup {NoFile} /\ audit \in Audits
        /\ fileAudit \in Audits /\ req \in [Requests -> RequestRecords]
    BY DEF BudgetInv, BudgetTypes, TypeOK, Spends, RequestRecords
  <1>2. /\ mem' \in Spends /\ mem'.used = mem.used + 0
        /\ audit' \in Audits /\ audit'.carried = audit.carried
        /\ req' \in [Requests -> RequestRecords]
    BY <1>1, ReleaseStep DEF EndUncharged
  <1>3. PICK saved \in BOOLEAN :
           /\ faults' = IF saved THEN faults ELSE faults + 1
           /\ Write(mem', audit', saved /\ req[r].reserve > 0)
    BY DEF EndUncharged
  <1> DEFINE written == saved /\ req[r].reserve > 0
  <1>4. written \in BOOLEAN /\ faults' \in Nat
    BY <1>1, <1>3
  <1>5. Write(mem', audit', written)
    BY <1>3
  <1> HIDE DEF written
  <1>6. /\ file' \in Saves \cup {NoFile} /\ fileAudit' \in Audits
        /\ written => /\ file' # NoFile /\ file'.used = mem'.used /\ file'.updated = day
                      /\ fileAudit' = audit'
        /\ ~written => file' = file /\ fileAudit' = fileAudit
    BY <1>1, <1>2, <1>4, <1>5, WriteStep
  <1>7. UNCHANGED <<day, resetDay, up, today>>
    BY DEF EndUncharged
  <1> QED BY <1>2, <1>4, <1>6, <1>7, CountingStep

(* What a charge makes of the memory, the observer and the requests. *)
LEMMA ChargeTypes ==
  ASSUME BudgetInv, NEW r \in Requests, NEW v \in Vendors,
         NEW credits \in Nat, NEW cny \in Nat, NEW covered \in Nat
  PROVE  /\ Charged(mem, v, credits, cny) \in Spends
         /\ Charged(mem, v, credits, cny).used = mem.used + credits
         /\ AuditCharge(TableOf(audit), v, cny, covered) \in Audits
         /\ AuditCharge(TableOf(audit), v, cny, covered).carried = audit.carried
         /\ TableOf(audit) \in Audits /\ TableOf(audit).carried = audit.carried
         /\ RequestsNow \in [Requests -> RequestRecords]
         /\ Covered(r, v) \in Nat
  <1>1. /\ mem \in Spends /\ day \in Nat /\ audit \in Audits
        /\ req \in [Requests -> RequestRecords]
    BY DEF BudgetInv, BudgetTypes, TypeOK, RequestRecords
  <1>2. RequestsNow \in [Requests -> RequestRecords]
    BY <1>1, RequestsNowType
  <1>3. Covered(r, v) \in Nat
    <2>1. req[r].reserve \in Nat
      BY <1>1 DEF RequestRecords
    <2> QED BY <2>1 DEF Covered
  <1>4. TableOf(audit) \in Audits /\ TableOf(audit).carried = audit.carried
    BY <1>1, TableType
  <1>5. /\ AuditCharge(TableOf(audit), v, cny, covered) \in Audits
        /\ AuditCharge(TableOf(audit), v, cny, covered).carried = audit.carried
    BY <1>4, AuditChargeType
  <1> QED BY <1>1, <1>2, <1>3, <1>4, <1>5, ChargedType

LEMMA EndChargedStep ==
  ASSUME BudgetInv, NEW r \in Requests, NEW v \in Vendors, NEW charge \in Charges,
         EndCharged(r, v, charge)
  PROVE  BudgetInv'
  <1> DEFINE cny == VendorCost(v, charge, req[r].reserve)
             m   == Charged(mem, v, charge.credits, cny)
             a   == AuditCharge(TableOf(audit), v, cny, Covered(r, v))
  <1>1. /\ day \in Nat /\ faults \in Nat /\ mem \in Spends
        /\ file \in Saves \cup {NoFile} /\ fileAudit \in Audits
        /\ req \in [Requests -> RequestRecords]
    BY DEF BudgetInv, BudgetTypes, TypeOK, RequestRecords
  <1>2. req[r].reserve \in Nat
    BY <1>1 DEF RequestRecords
  <1>3. cny \in Nat /\ charge.credits \in Nat
    BY <1>2, VendorCostType
  <1>4. Release(r, m, a, RequestsNow)
    BY DEF EndCharged
  <1>5. PICK saved \in BOOLEAN :
           /\ faults' = IF saved THEN faults ELSE faults + 1
           /\ IF req[r].reserve > 0 THEN Write(mem', audit', TRUE) ELSE Write(m, a, saved)
           /\ today' = TodayCharged(charge.credits, saved \/ req[r].reserve > 0)
    BY Zenon DEF EndCharged
  <1>6. UNCHANGED <<day, resetDay, up>>
    BY DEF EndCharged
  <1> HIDE DEF cny
  <1>7. /\ m \in Spends /\ m.used = mem.used + charge.credits
        /\ a \in Audits /\ a.carried = audit.carried
        /\ RequestsNow \in [Requests -> RequestRecords]
    BY <1>3, ChargeTypes
  <1> HIDE DEF m, a
  <1>8. /\ mem' \in Spends /\ mem'.used = mem.used + charge.credits
        /\ audit' \in Audits /\ audit'.carried = audit.carried
        /\ req' \in [Requests -> RequestRecords]
    BY <1>1, <1>4, <1>7, ReleaseStep
  <1> DEFINE written == saved \/ req[r].reserve > 0
  <1>9. written \in BOOLEAN /\ faults' \in Nat /\ today' = TodayCharged(charge.credits, written)
    BY <1>1, <1>5
  <1>10. /\ file' \in Saves \cup {NoFile} /\ fileAudit' \in Audits
         /\ written => /\ file' # NoFile /\ file'.used = mem'.used /\ file'.updated = day
                       /\ fileAudit'.carried = audit'.carried
         /\ ~written => file' = file /\ fileAudit' = fileAudit
    <2>1. CASE req[r].reserve > 0
      <3>1. Write(mem', audit', TRUE) /\ written
        BY <1>5, <2>1
      <3> QED BY <1>1, <1>8, <3>1, WriteStep
    <2>2. CASE ~(req[r].reserve > 0)
      <3>1. Write(m, a, saved) /\ (written <=> saved)
        BY <1>5, <2>2
      <3> QED BY <1>1, <1>7, <1>8, <3>1, WriteStep
    <2> QED BY <2>1, <2>2
  <1> HIDE DEF written
  <1> QED BY <1>3, <1>6, <1>8, <1>9, <1>10, CountingStep

LEMMA EndUnrecordedStep ==
  ASSUME BudgetInv, NEW r \in Requests, NEW v \in Vendors, NEW charge \in Charges,
         EndUnrecorded(r, v, charge)
  PROVE  BudgetInv'
  <1> DEFINE m == Charged(mem, v, charge.credits, 0)
             a == TableOf(audit)
             written == req[r].reserve > 0
  <1>1. /\ day \in Nat /\ faults \in Nat /\ mem \in Spends
        /\ file \in Saves \cup {NoFile} /\ fileAudit \in Audits
        /\ req \in [Requests -> RequestRecords]
    BY DEF BudgetInv, BudgetTypes, TypeOK, RequestRecords
  <1>2. charge.credits \in Nat
    BY BudgetAssumption
  <1>3. /\ m \in Spends /\ m.used = mem.used + charge.credits
        /\ a \in Audits /\ a.carried = audit.carried
        /\ RequestsNow \in [Requests -> RequestRecords]
    BY <1>2, ChargeTypes
  <1>4. Release(r, m, a, RequestsNow)
    BY DEF EndUnrecorded
  <1>5. /\ Write(mem', audit', written)
        /\ faults' = faults + 1
        /\ today' = TodayCharged(charge.credits, written)
        /\ UNCHANGED <<day, resetDay, up>>
    BY DEF EndUnrecorded
  <1>6. written \in BOOLEAN /\ faults' \in Nat
    BY <1>1, <1>5
  <1> HIDE DEF m, a, written
  <1>7. /\ mem' \in Spends /\ mem'.used = mem.used + charge.credits
        /\ audit' \in Audits /\ audit'.carried = audit.carried
        /\ req' \in [Requests -> RequestRecords]
    BY <1>1, <1>3, <1>4, ReleaseStep
  <1>8. /\ file' \in Saves \cup {NoFile} /\ fileAudit' \in Audits
        /\ written => /\ file' # NoFile /\ file'.used = mem'.used /\ file'.updated = day
                      /\ fileAudit' = audit'
        /\ ~written => file' = file /\ fileAudit' = fileAudit
    BY <1>1, <1>5, <1>6, <1>7, WriteStep
  <1> QED BY <1>2, <1>5, <1>6, <1>7, <1>8, CountingStep

LEMMA AttemptChargedStep ==
  ASSUME BudgetInv, NEW r \in Requests, NEW v \in Vendors, NEW charge \in Charges,
         AttemptCharged(r, v, charge)
  PROVE  BudgetInv'
  <1> DEFINE cny == VendorCost(v, charge, req[r].reserve)
             m   == Charged(mem, v, charge.credits, cny)
             a   == AuditCharge(TableOf(audit), v, cny, 0)
  <1>1. /\ day \in Nat /\ faults \in Nat /\ mem \in Spends
        /\ file \in Saves \cup {NoFile} /\ fileAudit \in Audits
        /\ req \in [Requests -> RequestRecords]
    BY DEF BudgetInv, BudgetTypes, TypeOK, RequestRecords
  <1>2. req[r].reserve \in Nat
    BY <1>1 DEF RequestRecords
  <1>3. cny \in Nat /\ charge.credits \in Nat
    BY <1>2, VendorCostType
  <1>4. /\ mem' = m /\ audit' = a
        /\ req' = [RequestsNow EXCEPT ![r].tries = @ + 1]
        /\ Write(m, a, TRUE)
        /\ today' = TodayCharged(charge.credits, TRUE)
        /\ UNCHANGED <<day, resetDay, up, faults>>
    BY DEF AttemptCharged
  <1> HIDE DEF cny
  <1>5. /\ m \in Spends /\ m.used = mem.used + charge.credits
        /\ a \in Audits /\ a.carried = audit.carried
        /\ RequestsNow \in [Requests -> RequestRecords]
    BY <1>3, ChargeTypes
  <1>6. req' \in [Requests -> RequestRecords]
    <2>1. [RequestsNow[r] EXCEPT !.tries = @ + 1] \in RequestRecords
      BY <1>5 DEF RequestRecords
    <2> QED BY <1>4, <1>5, <2>1
  <1> HIDE DEF m, a
  <1>7. /\ file' \in Saves \cup {NoFile} /\ fileAudit' \in Audits
        /\ file' # NoFile /\ file'.used = m.used /\ file'.updated = day /\ fileAudit' = a
    BY <1>1, <1>4, <1>5, WriteStep
  <1> QED BY <1>1, <1>3, <1>4, <1>5, <1>6, <1>7, CountingStep

-----------------------------------------------------------------------------

(* The day, and the process. *)

LEMMA NextDayStep ==
  ASSUME BudgetInv, NextDay
  PROVE  BudgetInv'
  <1>1. /\ day \in Nat /\ resetDay \in Nat /\ audit \in Audits
        /\ file \in Saves \cup {NoFile}
    BY DEF BudgetInv, BudgetTypes, TypeOK
  <1>2. /\ day' = day + 1
        /\ today' = [credits |-> 0, gap |-> FALSE, lost |-> FALSE]
        /\ audit' = [audit EXCEPT !.carried = TRUE]
        /\ UNCHANGED <<resetDay, up, mem, file, req, faults, fileAudit>>
    BY DEF NextDay
  <1>3. audit' \in Audits /\ audit'.carried
    BY <1>1, <1>2 DEF Audits
  <1>4. today' \in Days /\ today'.credits = 0
    BY <1>2 DEF Days
  <1>5. BudgetTypes'
    BY <1>1, <1>2, <1>3, <1>4 DEF BudgetInv, BudgetTypes, TypeOK
  <1>6. ~SavedToday'
    <2>1. file # NoFile => file.updated \in Nat /\ file.updated <= day
      BY <1>1 DEF BudgetInv, SavedInThePast, Saves
    <2> QED BY <1>1, <1>2, <2>1 DEF SavedToday
  <1>7. SavedInThePast'
    <2>1. file # NoFile => file.updated \in Nat /\ file.updated <= day
      BY <1>1 DEF BudgetInv, SavedInThePast, Saves
    <2> QED BY <1>1, <1>2, <2>1 DEF SavedInThePast
  <1> QED BY <1>3, <1>4, <1>5, <1>6, <1>7
          DEF BudgetInv, MemoryCounts, FileCounts, NothingUnsaved, GapNoticed, Counts

LEMMA ResetTimerStep ==
  ASSUME BudgetInv, ResetTimer
  PROVE  BudgetInv'
  <1>1. /\ day \in Nat /\ resetDay \in Nat /\ today \in Days
        /\ file \in Saves \cup {NoFile} /\ fileAudit \in Audits
        /\ req \in [Requests -> RequestRecords]
    BY DEF BudgetInv, BudgetTypes, TypeOK, RequestRecords
  <1>2. /\ day # resetDay
        /\ mem' = Fresh(day) /\ audit' = NewAudit /\ req' = Stale(req) /\ resetDay' = day
        /\ Write(mem', audit', TRUE)
        /\ UNCHANGED <<day, up, faults, today>>
    BY DEF ResetTimer, ResetState
  <1>3. mem' \in Spends /\ mem'.used = 0
    BY <1>1, <1>2, FreshType
  <1>4. audit' \in Audits /\ ~audit'.carried
    BY <1>2, NewAuditType
  <1>5. /\ file' \in Saves \cup {NoFile} /\ fileAudit' \in Audits
        /\ file' # NoFile /\ file'.used = 0 /\ file'.updated = day
    BY <1>1, <1>2, <1>3, <1>4, WriteStep
  <1>6. req' \in [Requests -> RequestRecords]
    BY <1>1, <1>2, RequestsNowType
  <1>7. today.credits \in Nat /\ (~today.gap => today.credits = 0)
    BY <1>1, <1>2 DEF BudgetInv, GapNoticed, Days
  <1>8. BudgetTypes'
    BY <1>1, <1>2, <1>3, <1>4, <1>5, <1>6
    DEF BudgetInv, BudgetTypes, TypeOK, RequestRecords
  <1>9. MemoryCounts' /\ FileCounts'
    BY <1>2, <1>3, <1>5, <1>7 DEF MemoryCounts, FileCounts, Counts
  <1>10. NothingUnsaved' /\ SavedInThePast' /\ GapNoticed'
    BY <1>1, <1>2, <1>5 DEF NothingUnsaved, SavedInThePast, GapNoticed, SavedToday
  <1> QED BY <1>8, <1>9, <1>10 DEF BudgetInv

LEMMA CrashStep ==
  ASSUME BudgetInv, Crash
  PROVE  BudgetInv'
  <1>1. req \in [Requests -> RequestRecords] /\ faults \in Nat
    BY DEF BudgetInv, BudgetTypes, TypeOK, RequestRecords
  <1>2. ASSUME NEW r \in Requests
        PROVE  [req[r] EXCEPT !.phase = "done"] \in RequestRecords /\ req[r] \in RequestRecords
    BY <1>1 DEF RequestRecords
  <1>3. req' \in [Requests -> RequestRecords] /\ faults' \in Nat /\ up' \in BOOLEAN
    <2> DEFINE ended(r) == IF req[r].phase = "new" THEN req[r]
                           ELSE [req[r] EXCEPT !.phase = "done"]
    <2>1. \A r \in Requests : ended(r) \in RequestRecords
      BY <1>2
    <2>2. req' = [r \in Requests |-> ended(r)] /\ faults' = faults + 1 /\ up' = FALSE
      BY DEF Crash
    <2> HIDE DEF ended
    <2>3. req' \in [Requests -> RequestRecords]
      BY <2>1, <2>2
    <2>4. up' \in BOOLEAN
      BY <2>2
    <2>5. faults' \in Nat
      BY <1>1, <2>2
    <2> QED BY <2>3, <2>4, <2>5
  <1>4. UNCHANGED <<day, resetDay, mem, file, audit, fileAudit, today>>
    BY DEF Crash
  <1>5. BudgetTypes'
    BY <1>3, <1>4 DEF BudgetInv, BudgetTypes, TypeOK, RequestRecords
  <1> QED BY <1>4, <1>5
          DEF BudgetInv, MemoryCounts, FileCounts, NothingUnsaved, SavedInThePast, GapNoticed,
              SavedToday, Counts

(* What is loaded counts the credits of today: those of a file of today, or  *)
(* none, as every charge of today had been saved or noticed as lost.         *)
LEMMA StartStep ==
  ASSUME BudgetInv, Start
  PROVE  BudgetInv'
  <1>1. /\ day \in Nat /\ today \in Days
        /\ file \in Saves \cup {NoFile} /\ fileAudit \in Audits
    BY DEF BudgetInv, BudgetTypes, TypeOK
  <1>2. /\ up' = TRUE /\ mem' = Load /\ resetDay' = day
        /\ audit' = IF SavedToday THEN [fileAudit EXCEPT !.loaded = file.reserved] ELSE NewAudit
        /\ UNCHANGED <<day, file, req, faults, fileAudit, today>>
    BY DEF Start, SavedToday
  <1>3. /\ mem' \in Spends /\ audit' \in Audits
        /\ SavedToday => mem'.used = file.used /\ audit'.carried = fileAudit.carried
        /\ ~SavedToday => mem'.used = 0
    <2>1. CASE SavedToday
      <3>1. file \in Saves
        BY <1>1, <2>1 DEF SavedToday
      <3>2. mem' = [used |-> file.used, date |-> file.date, cny |-> file.cny,
                    reserved |-> file.reserved]
        BY <1>2, <2>1 DEF Load, SavedToday
      <3>3. mem' \in Spends /\ mem'.used = file.used
        BY <3>1, <3>2 DEF Saves, Spends
      <3>4. audit' \in Audits /\ audit'.carried = fileAudit.carried
        BY <1>1, <1>2, <2>1, <3>1 DEF Saves, Audits
      <3> QED BY <2>1, <3>3, <3>4
    <2>2. CASE ~SavedToday
      <3>1. mem' = Fresh(day) /\ audit' = NewAudit
        BY <1>2, <2>2 DEF Load, SavedToday
      <3> QED BY <1>1, <2>2, <3>1, FreshType, NewAuditType
    <2> QED BY <2>1, <2>2
  <1>4. BudgetTypes'
    BY <1>2, <1>3 DEF BudgetInv, BudgetTypes, TypeOK
  <1>5. MemoryCounts'
    <2>1. today.credits \in Nat
      BY <1>1 DEF Days
    <2>2. CASE SavedToday
      BY <1>2, <1>3, <2>2 DEF BudgetInv, MemoryCounts, FileCounts, Counts
    <2>3. CASE ~SavedToday
      BY <1>2, <1>3, <2>1, <2>3 DEF BudgetInv, MemoryCounts, NothingUnsaved, Counts
    <2> QED BY <2>2, <2>3
  <1>6. FileCounts' /\ NothingUnsaved' /\ SavedInThePast' /\ GapNoticed'
    BY <1>1, <1>2
    DEF BudgetInv, FileCounts, NothingUnsaved, SavedInThePast, GapNoticed, SavedToday, Counts
  <1> QED BY <1>4, <1>5, <1>6 DEF BudgetInv

-----------------------------------------------------------------------------

LEMMA InitInv == Init => BudgetInv
  <1> SUFFICES ASSUME Init PROVE BudgetInv
    OBVIOUS
  <1>1. mem \in Spends /\ mem.used = 0
    BY FreshType DEF Init
  <1>2. audit \in Audits /\ fileAudit \in Audits
    BY NewAuditType DEF Init
  <1>3. NoRequest \in RequestRecords
    BY BudgetAssumption DEF NoRequest, RequestRecords
  <1>4. req \in [Requests -> RequestRecords]
    BY <1>3 DEF Init
  <1>5. today \in Days /\ today.credits = 0
    BY DEF Init, Days
  <1>6. BudgetTypes
    BY <1>1, <1>2, <1>4, <1>5 DEF Init, BudgetTypes, TypeOK, RequestRecords
  <1> QED BY <1>1, <1>5, <1>6
          DEF Init, BudgetInv, MemoryCounts, FileCounts, NothingUnsaved, SavedInThePast,
              GapNoticed, SavedToday, Counts

LEMMA StepInv == BudgetInv /\ [Next]_vars => BudgetInv'
  <1> SUFFICES ASSUME BudgetInv, [Next]_vars PROVE BudgetInv'
    OBVIOUS
  <1>1. ASSUME NEW r \in Requests,
               \/ \E v \in Vendors : Admit(r, v)
               \/ RefuseBody(r)
               \/ \E estimate \in Reserves : ReadBody(r, estimate)
        PROVE  BudgetInv'
    BY <1>1, RequestSteps
  <1>2. ASSUME NEW r \in Requests, EndUncharged(r)
        PROVE  BudgetInv'
    BY <1>2, EndUnchargedStep
  <1>3. ASSUME NEW r \in Requests, NEW v \in Vendors, NEW charge \in Charges,
               \/ EndCharged(r, v, charge)
               \/ EndUnrecorded(r, v, charge)
               \/ AttemptCharged(r, v, charge)
        PROVE  BudgetInv'
    BY <1>3, EndChargedStep, EndUnrecordedStep, AttemptChargedStep
  <1>4. ASSUME NextDay \/ ResetTimer \/ Crash \/ Start
        PROVE  BudgetInv'
    BY <1>4, NextDayStep, ResetTimerStep, CrashStep, StartStep
  <1>5. CASE UNCHANGED vars
    BY <1>5 DEF vars, BudgetInv, BudgetTypes, TypeOK, MemoryCounts, FileCounts, NothingUnsaved,
                SavedInThePast, GapNoticed, SavedToday, Counts
  <1> QED BY <1>1, <1>2, <1>3, <1>4, <1>5 DEF Next

(* The state of the budget manager and of the requests it accounts for is    *)
(* well-formed in every reachable state.                                     *)
THEOREM BudgetTypeCorrect == Spec => []TypeOK
  <1>1. BudgetInv => TypeOK
    BY DEF BudgetInv, BudgetTypes
  <1> QED BY InitInv, StepInv, <1>1, PTL DEF Spec

(* However charges, failed writes, crashes, restarts and the two ways to     *)
(* turn the day over interleave, the credits the gate compares with the      *)
(* budget are credits of today, and all of them unless a charge came before  *)
(* the timer noticed midnight or could not be saved (budget-manager.mjs      *)
(* 41-60, 286-313).                                                          *)
THEOREM CreditsAreOfToday == Spec => []UsedIsOfToday
  <1>1. BudgetInv => UsedIsOfToday
    BY DEF BudgetInv, MemoryCounts, Counts, UsedIsOfToday
  <1> QED BY InitInv, StepInv, <1>1, PTL DEF Spec

-----------------------------------------------------------------------------
(* The money.  What is reserved on a vendor is what the requests in flight *)
(* hold, a finite set of units that grows by what one request reserves and *)
(* shrinks by what it releases.                                            *)

HeldIn(rs, v) == Cardinality(HeldUnits(rs, v))

LEMMA UnitsCount ==
  ASSUME NEW r, NEW n \in Nat
  PROVE  IsFiniteSet({r} \X (1 .. n)) /\ Cardinality({r} \X (1 .. n)) = n
  <1> DEFINE I == 1 .. n
  <1>1. 1 \in Int /\ n \in Int
    OBVIOUS
  <1>2. IsFiniteSet(I) /\ Cardinality(I) = IF 1 > n THEN 0 ELSE n - 1 + 1
    BY <1>1, FS_Interval, Zenon
  <1>3. IsFiniteSet({r}) /\ Cardinality({r}) = 1
    BY FS_Singleton, Zenon
  <1> HIDE DEF I
  <1>4. IsFiniteSet({r} \X I) /\ Cardinality({r} \X I) = 1 * Cardinality(I)
    BY <1>2, <1>3, FS_Product, Zenon
  <1> QED BY <1>2, <1>4 DEF I

LEMMA HeldFinite ==
  ASSUME NEW rs \in [Requests -> RequestRecords], NEW v
  PROVE  IsFiniteSet(HeldUnits(rs, v)) /\ HeldIn(rs, v) \in Nat
  <1> DEFINE units(r) == {r} \X (1 .. rs[r].reserve)
             H == Holders(rs, v)
             T == {units(r) : r \in H}
             f == [r \in H |-> units(r)]
  <1>1. IsFiniteSet(H)
    <2>1. H \in SUBSET Requests
      BY DEF Holders
    <2> QED BY <2>1, BudgetAssumption, FS_Subset
  <1>2. ASSUME NEW r \in H
        PROVE  IsFiniteSet(units(r))
    <2>1. rs[r].reserve \in Nat
      BY DEF Holders, RequestRecords
    <2> QED BY <2>1, UnitsCount
  <1> HIDE DEF units, H
  <1>3. f \in Surjection(H, T)
    BY DEF Surjection
  <1> HIDE DEF f
  <1>4. IsFiniteSet(T)
    BY <1>1, <1>3, FS_Surjection
  <1>5. \A S \in T : IsFiniteSet(S)
    BY <1>2
  <1>6. HeldUnits(rs, v) = UNION T
    BY DEF HeldUnits, T, H, units
  <1> HIDE DEF T
  <1>7. IsFiniteSet(HeldUnits(rs, v))
    BY <1>4, <1>5, <1>6, FS_UNION
  <1> QED BY <1>7, FS_CardinalityType DEF HeldIn

(* Nobody holds anything of a table that has just been made.               *)
LEMMA HeldNone ==
  ASSUME NEW rs, NEW v, Holders(rs, v) = {}
  PROVE  HeldIn(rs, v) = 0
  <1>1. HeldUnits(rs, v) = {}
    BY DEF HeldUnits
  <1> QED BY <1>1, FS_EmptySet DEF HeldIn

LEMMA HeldSame ==
  ASSUME NEW rs, NEW ts, NEW v,
         Holders(rs, v) = Holders(ts, v),
         \A q \in Holders(rs, v) : rs[q].reserve = ts[q].reserve
  PROVE  HeldIn(rs, v) = HeldIn(ts, v)
  <1>1. HeldUnits(rs, v) = HeldUnits(ts, v)
    BY DEF HeldUnits
  <1> QED BY <1>1 DEF HeldIn

(* One more holder adds what it has reserved. *)
LEMMA HeldAdds ==
  ASSUME NEW rs \in [Requests -> RequestRecords], NEW ts \in [Requests -> RequestRecords],
         NEW v, NEW r \in Requests, r \notin Holders(rs, v),
         Holders(ts, v) = Holders(rs, v) \cup {r},
         \A q \in Holders(rs, v) : rs[q].reserve = ts[q].reserve
  PROVE  HeldIn(ts, v) = HeldIn(rs, v) + ts[r].reserve
  <1> DEFINE U == {r} \X (1 .. ts[r].reserve)
  <1>1. ts[r].reserve \in Nat
    BY DEF RequestRecords
  <1>2. IsFiniteSet(U) /\ Cardinality(U) = ts[r].reserve
    BY <1>1, UnitsCount
  <1>3. HeldUnits(ts, v) = HeldUnits(rs, v) \cup U
    BY DEF HeldUnits
  <1>4. HeldUnits(rs, v) \cap U = {}
    <2> SUFFICES ASSUME NEW u \in HeldUnits(rs, v), u \in U
                 PROVE  FALSE
      OBVIOUS
    <2>1. PICK q \in Holders(rs, v) : u \in {q} \X (1 .. rs[q].reserve)
      BY DEF HeldUnits
    <2>2. u[1] = q /\ u[1] = r
      BY <2>1
    <2> QED BY <2>2
  <1>5. IsFiniteSet(HeldUnits(rs, v)) /\ HeldIn(rs, v) \in Nat
    BY HeldFinite
  <1> HIDE DEF U
  <1>6. Cardinality(HeldUnits(ts, v)) =
           Cardinality(HeldUnits(rs, v)) + Cardinality(U) - Cardinality({})
    BY <1>2, <1>3, <1>4, <1>5, FS_Union
  <1> QED BY <1>1, <1>2, <1>5, <1>6, FS_EmptySet DEF HeldIn

-----------------------------------------------------------------------------
(* The invariant of the money, of any memory or file m, its observer a and *)
(* the requests rs.                                                        *)

Exact(m, a, rs) ==
    \A v \in Vendors :
        /\ m.reserved[v] <= a.loaded[v] + HeldIn(rs, v)
        /\ v \notin a.mixed => m.reserved[v] = a.loaded[v] + HeldIn(rs, v)

Capped(m, a) ==
    \A v \in Vendors : (Cap[v] > 0 /\ v \notin a.mixed) =>
        m.cny[v] + m.reserved[v] <= Cap[v] + a.extra[v]

\* Only a dispatched request can outlive a table, and a dead process has none.
StaleWereDispatched ==
    \A r \in Requests : req[r].phase \in {"new", "body"} => ~req[r].stale

DeadHoldNothing == ~up => \A r \in Requests : req[r].phase # "dispatch"

MoneyInv ==
    /\ BudgetInv
    /\ up => Exact(mem, audit, req) /\ Capped(mem, audit)
    /\ file # NoFile => Capped(file, fileAudit)
    /\ StaleWereDispatched
    /\ DeadHoldNothing

LEMMA MoneyTypes ==
  ASSUME BudgetInv
  PROVE  /\ mem \in Spends /\ audit \in Audits /\ fileAudit \in Audits
         /\ req \in [Requests -> RequestRecords] /\ day \in Nat /\ up \in BOOLEAN
         /\ file \in Saves \cup {NoFile}
         /\ \A r \in Requests : req[r].vendor \in Vendors /\ req[r].reserve \in Nat
  BY DEF BudgetInv, BudgetTypes, TypeOK, RequestRecords

(* Nothing is spent or reserved in a table that has just been made.        *)
LEMMA FreshMoney ==
  ASSUME NEW m, NEW a, m.cny = Zero, m.reserved = Zero,
         a.extra = Zero, a.loaded = Zero,
         NEW rs, \A v \in Vendors : Holders(rs, v) = {}
  PROVE  Exact(m, a, rs) /\ Capped(m, a)
  <1>1. \A v \in Vendors : HeldIn(rs, v) = 0
    BY HeldNone
  <1>2. \A v \in Vendors : Zero[v] = 0 /\ Cap[v] \in Nat
    BY BudgetAssumption DEF Zero
  <1> QED BY <1>1, <1>2 DEF Exact, Capped

(* A new table makes the requests in flight stale. *)
LEMMA StaleFacts ==
  ASSUME req \in [Requests -> RequestRecords], NEW r \in Requests
  PROVE  /\ Stale(req)[r].phase = req[r].phase
         /\ Stale(req)[r].vendor = req[r].vendor
         /\ Stale(req)[r].reserve = req[r].reserve
         /\ req[r].phase = "dispatch" => Stale(req)[r].stale
         /\ (req[r].phase # "dispatch" /\ ~req[r].stale) => ~Stale(req)[r].stale
  <1> DEFINE s == req[r].stale \/ req[r].phase = "dispatch"
  <1>1. Stale(req)[r] = [req[r] EXCEPT !.stale = s]
    BY DEF Stale
  <1>2. req[r] \in RequestRecords /\ s \in BOOLEAN
    BY DEF RequestRecords
  <1>3. (req[r].phase = "dispatch" => s) /\ ((req[r].phase # "dispatch" /\ ~req[r].stale) => ~s)
    BY Zenon DEF s
  <1> HIDE DEF s
  <1>4. /\ Stale(req)[r].phase = req[r].phase
        /\ Stale(req)[r].vendor = req[r].vendor
        /\ Stale(req)[r].reserve = req[r].reserve
        /\ Stale(req)[r].stale = s
    BY <1>1, <1>2 DEF RequestRecords
  <1> QED BY <1>3, <1>4

(* The table that a charge is booked in: the one there is, or a new one.   *)
LEMMA TurnedMoney ==
  ASSUME MoneyInv, up
  PROVE  /\ Exact(ResetDailyVendorSpend(mem), TableOf(audit), RequestsNow)
         /\ Capped(ResetDailyVendorSpend(mem), TableOf(audit))
         /\ \A r \in Requests : /\ RequestsNow[r].phase = req[r].phase
                                /\ RequestsNow[r].vendor = req[r].vendor
                                /\ RequestsNow[r].reserve = req[r].reserve
                                /\ (req[r].phase # "dispatch" /\ ~req[r].stale)
                                      => ~RequestsNow[r].stale
  <1>1. /\ mem \in Spends /\ audit \in Audits /\ req \in [Requests -> RequestRecords]
    BY MoneyTypes DEF MoneyInv
  <1>2. CASE mem.date = day
    <2>1. /\ ResetDailyVendorSpend(mem) = mem /\ TableOf(audit) = audit /\ RequestsNow = req
      BY <1>2 DEF ResetDailyVendorSpend, TableOf, RequestsNow
    <2> QED BY <2>1 DEF MoneyInv
  <1>3. CASE mem.date # day
    <2>1. RequestsNow = Stale(req) /\ TableOf(audit) = NewTable(audit)
      BY <1>3 DEF RequestsNow, TableOf
    <2>2. ResetDailyVendorSpend(mem).cny = Zero /\ ResetDailyVendorSpend(mem).reserved = Zero
      BY <1>1, <1>3 DEF ResetDailyVendorSpend, Spends
    <2>3. NewTable(audit).extra = Zero /\ NewTable(audit).loaded = Zero
      BY <1>1 DEF NewTable, Audits
    <2>4. \A v \in Vendors : Holders(RequestsNow, v) = {}
      BY <1>1, <2>1, StaleFacts DEF Holders
    <2>5. /\ Exact(ResetDailyVendorSpend(mem), TableOf(audit), RequestsNow)
          /\ Capped(ResetDailyVendorSpend(mem), TableOf(audit))
      BY <2>1, <2>2, <2>3, <2>4, FreshMoney
    <2>6. ASSUME NEW r \in Requests
          PROVE  /\ RequestsNow[r].phase = req[r].phase
                 /\ RequestsNow[r].vendor = req[r].vendor
                 /\ RequestsNow[r].reserve = req[r].reserve
                 /\ (req[r].phase # "dispatch" /\ ~req[r].stale) => ~RequestsNow[r].stale
      BY <1>1, <2>1, StaleFacts
    <2> QED BY <2>5, <2>6
  <1> QED BY <1>2, <1>3

(* What the observer makes of a charge: it adds what nothing covered.      *)
LEMMA AuditAdds ==
  ASSUME NEW b \in Audits, NEW v \in Vendors, NEW cny \in Nat, NEW covered \in Nat
  PROVE  /\ AuditCharge(b, v, cny, covered).mixed = b.mixed
         /\ AuditCharge(b, v, cny, covered).loaded = b.loaded
         /\ \A w \in Vendors \ {v} : AuditCharge(b, v, cny, covered).extra[w] = b.extra[w]
         /\ AuditCharge(b, v, cny, covered).extra[v] \in Nat
         /\ AuditCharge(b, v, cny, covered).extra[v] >= b.extra[v]
         /\ AuditCharge(b, v, cny, covered).extra[v] + covered >= b.extra[v] + cny
  <1> DEFINE over == IF cny > covered THEN cny - covered ELSE 0
             a == AuditCharge(b, v, cny, covered)
  <1>1. over \in Nat /\ over + covered >= cny
    OBVIOUS
  <1>2. a = [b EXCEPT !.extra[v] = @ + over]
    BY DEF AuditCharge
  <1> HIDE DEF a, over
  <1>3. /\ a.mixed = b.mixed /\ a.loaded = b.loaded
        /\ a.extra = [b.extra EXCEPT ![v] = @ + over]
        /\ b.extra \in [Vendors -> Nat]
    BY <1>2 DEF Audits
  <1>4. /\ \A w \in Vendors \ {v} : a.extra[w] = b.extra[w]
        /\ a.extra[v] = b.extra[v] + over /\ b.extra[v] \in Nat
    BY <1>3
  <1>5. /\ a.mixed = b.mixed /\ a.loaded = b.loaded
        /\ \A w \in Vendors \ {v} : a.extra[w] = b.extra[w]
        /\ a.extra[v] \in Nat /\ a.extra[v] >= b.extra[v]
        /\ a.extra[v] + covered >= b.extra[v] + cny
    BY <1>1, <1>3, <1>4
  <1> QED BY <1>5 DEF a

(* What a charge of v makes of them. *)
LEMMA ChargedMoney ==
  ASSUME MoneyInv, up, NEW v \in Vendors, NEW credits \in Nat, NEW cny \in Nat
  PROVE  LET m == Charged(mem, v, credits, cny)
             t == ResetDailyVendorSpend(mem)
         IN  /\ t \in Spends /\ TableOf(audit) \in Audits
             /\ Exact(m, TableOf(audit), RequestsNow)
             /\ m.reserved = t.reserved
             /\ m.cny = [t.cny EXCEPT ![v] = @ + cny]
  <1> DEFINE m == Charged(mem, v, credits, cny)
             t == ResetDailyVendorSpend(mem)
             u == [mem EXCEPT !.used = @ + credits]
             b == TableOf(audit)
  <1>1. mem \in Spends /\ audit \in Audits /\ day \in Nat
    BY MoneyTypes DEF MoneyInv
  <1>2. /\ u \in Spends /\ u.date = mem.date /\ u.cny = mem.cny /\ u.reserved = mem.reserved
    BY <1>1 DEF Spends
  <1>3. t \in Spends
    BY <1>1 DEF ResetDailyVendorSpend, Spends, Zero
  <1> DEFINE d == ResetDailyVendorSpend(u)
  <1>4. m = [d EXCEPT !.cny[v] = @ + cny]
    BY DEF Charged
  <1> HIDE DEF u
  <1>5. d \in Spends /\ d.cny = t.cny /\ d.reserved = t.reserved
    BY <1>1, <1>2 DEF ResetDailyVendorSpend, Spends, Zero
  <1> HIDE DEF d, t, m
  <1>6. m.reserved = t.reserved /\ m.cny = [t.cny EXCEPT ![v] = @ + cny]
    BY <1>4, <1>5 DEF Spends
  <1>7. b \in Audits
    BY <1>1, TableType
  <1>8. Exact(t, b, RequestsNow)
    BY TurnedMoney DEF t
  <1>9. Exact(m, b, RequestsNow)
    BY <1>6, <1>8 DEF Exact
  <1> QED BY <1>3, <1>6, <1>7, <1>9 DEF m, t

(* A charge that nothing covers is part of what exceeds the cap.           *)
LEMMA ChargedCapped ==
  ASSUME MoneyInv, up, NEW v \in Vendors, NEW credits \in Nat, NEW cny \in Nat
  PROVE  LET m == Charged(mem, v, credits, cny)
             a == AuditCharge(TableOf(audit), v, cny, 0)
         IN  Exact(m, a, RequestsNow) /\ Capped(m, a)
  <1> DEFINE m == Charged(mem, v, credits, cny)
             t == ResetDailyVendorSpend(mem)
             b == TableOf(audit)
             a == AuditCharge(b, v, cny, 0)
  <1>0. /\ t \in Spends /\ b \in Audits
        /\ Exact(m, b, RequestsNow)
        /\ m.reserved = t.reserved
        /\ m.cny = [t.cny EXCEPT ![v] = @ + cny]
    BY ChargedMoney
  <1>1. /\ a.mixed = b.mixed /\ a.loaded = b.loaded
        /\ \A w \in Vendors \ {v} : a.extra[w] = b.extra[w]
        /\ a.extra[v] \in Nat
        /\ a.extra[v] + 0 >= b.extra[v] + cny
    <2> HIDE DEF b
    <2> QED BY <1>0, AuditAdds
  <1>2. Capped(t, b)
    BY TurnedMoney
  <1> HIDE DEF m, t, b, a
  <1>3. ASSUME NEW w \in Vendors, Cap[w] > 0, w \notin a.mixed
        PROVE  m.cny[w] + m.reserved[w] <= Cap[w] + a.extra[w]
    <2>1. /\ t.cny[w] \in Nat /\ t.reserved[w] \in Nat /\ b.extra[w] \in Nat /\ Cap[w] \in Nat
          /\ t.cny \in [Vendors -> Nat]
      BY <1>0, <1>1, BudgetAssumption DEF Spends, Audits
    <2>2. t.cny[w] + t.reserved[w] <= Cap[w] + b.extra[w]
      BY <1>1, <1>2, <1>3 DEF Capped
    <2>3. CASE w = v
      BY <1>0, <1>1, <2>1, <2>2, <2>3
    <2>4. CASE w # v
      BY <1>0, <1>1, <2>1, <2>2, <2>4
    <2> QED BY <2>3, <2>4
  <1>4. Capped(m, a)
    BY <1>3 DEF Capped
  <1>5. Exact(m, a, RequestsNow)
    BY <1>0, <1>1 DEF Exact
  <1> QED BY <1>4, <1>5 DEF m, a, b

(* The release of a request takes what it holds out of the table, unless   *)
(* the table is not the one it reserved in.                                *)
LEMMA ReleaseMoney ==
  ASSUME NEW r \in Requests, NEW m \in Spends, NEW a \in Audits,
         NEW rs \in [Requests -> RequestRecords], req \in [Requests -> RequestRecords],
         rs[r].phase = "dispatch", rs[r].vendor = req[r].vendor,
         rs[r].reserve = req[r].reserve,
         Exact(m, a, rs), Release(r, m, a, rs)
  PROVE  /\ Exact(mem', audit', req')
         /\ mem' \in Spends /\ audit' \in Audits
         /\ mem'.cny = m.cny /\ audit'.extra = a.extra
         /\ a.mixed \subseteq audit'.mixed
         /\ \A w \in Vendors : mem'.reserved[w] <= m.reserved[w]
         /\ (~rs[r].stale /\ req[r].vendor \notin a.mixed) =>
               mem'.reserved[req[r].vendor] = m.reserved[req[r].vendor] - req[r].reserve
  <1> DEFINE v == req[r].vendor
             n == req[r].reserve
             left == IF m.reserved[v] > n THEN m.reserved[v] - n ELSE 0
             ended == [rs[r] EXCEPT !.phase = "done"]
  <1>1. v \in Vendors /\ n \in Nat
    BY DEF RequestRecords
  <1>2. mem' = [m EXCEPT !.reserved[v] = left]
    BY DEF Release, ReleaseVendorCny, Spends
  <1>3. m.reserved \in [Vendors -> Nat] /\ left \in Nat /\ left <= m.reserved[v]
    BY <1>1 DEF Spends
  <1>4. req' = [rs EXCEPT ![r] = ended]
    BY DEF Release
  <1>5. ended \in RequestRecords /\ ended.phase = "done"
    BY DEF RequestRecords
  <1>6. audit' = IF rs[r].stale /\ n > 0 THEN [a EXCEPT !.mixed = @ \cup {v}] ELSE a
    BY DEF Release
  <1>7. left = IF m.reserved[v] > n THEN m.reserved[v] - n ELSE 0
    OBVIOUS
  <1> HIDE DEF left, ended
  <1>8. /\ mem'.cny = m.cny /\ mem'.reserved = [m.reserved EXCEPT ![v] = left]
        /\ mem' \in Spends
    BY <1>1, <1>2, <1>3 DEF Spends
  <1>9. /\ audit'.extra = a.extra /\ audit'.loaded = a.loaded /\ audit' \in Audits
        /\ a.mixed \subseteq audit'.mixed
        /\ (rs[r].stale /\ n > 0) => v \in audit'.mixed
        /\ a.loaded \in [Vendors -> Nat]
    <2>1. CASE rs[r].stale /\ n > 0
      BY <1>1, <1>6, <2>1 DEF Audits
    <2>2. CASE ~(rs[r].stale /\ n > 0)
      BY <1>6, <2>2 DEF Audits
    <2> QED BY <2>1, <2>2
  <1>10. /\ req' \in [Requests -> RequestRecords]
         /\ \A q \in Requests \ {r} : req'[q] = rs[q]
         /\ req'[r] = ended /\ req'[r].phase = "done"
    BY <1>4, <1>5
  <1>11. ASSUME NEW w \in Vendors
         PROVE  /\ Holders(req', w) = Holders(rs, w) \ {r}
                /\ \A q \in Holders(req', w) : req'[q].reserve = rs[q].reserve
                /\ HeldIn(rs, w) \in Nat /\ HeldIn(req', w) \in Nat
    <2>1. HeldIn(rs, w) \in Nat /\ HeldIn(req', w) \in Nat
      BY <1>10, HeldFinite
    <2>2. \A q \in Requests : q \in Holders(req', w) <=> q \in Holders(rs, w) /\ q # r
      BY <1>10 DEF Holders
    <2>3. Holders(req', w) \subseteq Requests /\ Holders(rs, w) \subseteq Requests
      BY DEF Holders
    <2>4. Holders(req', w) = Holders(rs, w) \ {r}
      BY <2>2, <2>3
    <2> QED BY <1>10, <2>1, <2>3, <2>4
  <1>12. ASSUME NEW w \in Vendors, r \notin Holders(rs, w)
         PROVE  HeldIn(req', w) = HeldIn(rs, w)
    BY <1>11, <1>12, HeldSame
  <1>13. ASSUME ~rs[r].stale
         PROVE  HeldIn(rs, v) = HeldIn(req', v) + n
    <2>1. r \in Holders(rs, v)
      BY <1>13 DEF Holders
    <2>2. Holders(rs, v) = Holders(req', v) \cup {r} /\ r \notin Holders(req', v)
      BY <1>1, <1>11, <2>1
    <2> QED BY <1>1, <1>10, <1>11, <2>2, HeldAdds
  <1>14. (~rs[r].stale /\ v \notin a.mixed) => mem'.reserved[v] = m.reserved[v] - n
    <2>1. ASSUME ~rs[r].stale, v \notin a.mixed
          PROVE  left = m.reserved[v] - n
      <3>1. /\ m.reserved[v] = a.loaded[v] + HeldIn(rs, v)
            /\ a.loaded[v] \in Nat /\ m.reserved[v] \in Nat /\ HeldIn(req', v) \in Nat
        BY <1>1, <1>3, <1>9, <1>11, <2>1 DEF Exact
      <3> QED BY <1>1, <1>7, <1>13, <2>1, <3>1
    <2> QED BY <1>1, <1>3, <1>8, <2>1
  <1>15. ASSUME NEW w \in Vendors
         PROVE  /\ mem'.reserved[w] <= audit'.loaded[w] + HeldIn(req', w)
                /\ w \notin audit'.mixed =>
                      mem'.reserved[w] = audit'.loaded[w] + HeldIn(req', w)
                /\ mem'.reserved[w] <= m.reserved[w]
    <2>1. /\ m.reserved[w] <= a.loaded[w] + HeldIn(rs, w)
          /\ w \notin a.mixed => m.reserved[w] = a.loaded[w] + HeldIn(rs, w)
          /\ m.reserved[w] \in Nat /\ a.loaded[w] \in Nat
          /\ HeldIn(rs, w) \in Nat /\ HeldIn(req', w) \in Nat
      BY <1>3, <1>9, <1>11 DEF Exact
    <2>2. CASE w # v
      <3>1. mem'.reserved[w] = m.reserved[w] /\ r \notin Holders(rs, w)
        BY <1>3, <1>8, <2>2 DEF Holders
      <3>2. HeldIn(req', w) = HeldIn(rs, w)
        BY <1>12, <3>1
      <3> QED BY <1>9, <2>1, <3>1, <3>2
    <2>3. CASE w = v /\ ~rs[r].stale
      <3>1. mem'.reserved[w] = left /\ HeldIn(rs, w) = HeldIn(req', w) + n
        BY <1>3, <1>8, <1>13, <2>3
      <3> QED BY <1>1, <1>7, <1>9, <2>1, <2>3, <3>1
    <2>4. CASE w = v /\ rs[r].stale
      <3>1. mem'.reserved[w] = left /\ r \notin Holders(rs, w)
        BY <1>3, <1>8, <2>4 DEF Holders
      <3>2. HeldIn(req', w) = HeldIn(rs, w)
        BY <1>12, <3>1
      <3>3. w \notin audit'.mixed => n = 0 /\ w \notin a.mixed
        BY <1>1, <1>9, <2>4
      <3> QED BY <1>1, <1>3, <1>7, <1>9, <2>1, <2>4, <3>1, <3>2, <3>3
    <2> QED BY <2>2, <2>3, <2>4
  <1>16. Exact(mem', audit', req')
    BY <1>15 DEF Exact
  <1> QED BY <1>8, <1>9, <1>14, <1>15, <1>16

(* What is written is what memory holds. *)
LEMMA SavedMoney ==
  ASSUME NEW m \in Spends, NEW a \in Audits, NEW saved \in BOOLEAN,
         Write(m, a, saved), Capped(m, a),
         file # NoFile => Capped(file, fileAudit)
  PROVE  file' # NoFile => Capped(file', fileAudit')
  <1>1. CASE saved
    <2>1. file' = Saved(m) /\ fileAudit' = a
      BY <1>1 DEF Write
    <2>2. Saved(m).cny = m.cny /\ Saved(m).reserved = m.reserved
      BY DEF Saved
    <2> QED BY <2>1, <2>2 DEF Capped
  <1>2. CASE ~saved
    BY <1>2 DEF Write
  <1> QED BY <1>1, <1>2

(* The steps of a request before its dispatch. *)
LEMMA MoneyRequest ==
  ASSUME MoneyInv, BudgetInv', NEW r \in Requests,
         \/ \E v \in Vendors : Admit(r, v)
         \/ RefuseBody(r)
         \/ \E estimate \in Reserves : ReadBody(r, estimate)
  PROVE  MoneyInv'
  <1>1. /\ mem \in Spends /\ audit \in Audits /\ req \in [Requests -> RequestRecords]
        /\ req[r].vendor \in Vendors /\ up /\ Exact(mem, audit, req) /\ Capped(mem, audit)
        /\ req' \in [Requests -> RequestRecords]
        /\ req[r] \in RequestRecords
    BY MoneyTypes DEF MoneyInv, Admit, RefuseBody, ReadBody, BudgetInv, BudgetTypes, TypeOK,
                      RequestRecords
  <1>2. /\ up' = up /\ audit' = audit /\ file' = file /\ fileAudit' = fileAudit
    BY DEF Admit, RefuseBody, ReadBody
  <1>3. ASSUME NEW new \in RequestRecords, new.phase # "dispatch", ~new.stale,
               req[r].phase # "dispatch",
               req' = [req EXCEPT ![r] = new], mem' = mem
        PROVE  MoneyInv'
    <2>1. req'[r] = new /\ \A q \in Requests \ {r} : req'[q] = req[q]
      BY <1>1, <1>3
    <2>2. ASSUME NEW v \in Vendors
          PROVE  HeldIn(req', v) = HeldIn(req, v)
      <3>1. Holders(req', v) = Holders(req, v) /\ r \notin Holders(req, v)
        BY <1>3, <2>1 DEF Holders
      <3>2. \A q \in Holders(req', v) : req'[q].reserve = req[q].reserve
        BY <2>1, <3>1 DEF Holders
      <3> QED BY <3>1, <3>2, HeldSame
    <2>3. Exact(mem', audit', req')
      BY <1>1, <1>2, <1>3, <2>2 DEF Exact
    <2>4. Capped(mem', audit')
      BY <1>1, <1>2, <1>3
    <2>5. StaleWereDispatched'
      BY <1>3, <2>1 DEF MoneyInv, StaleWereDispatched
    <2>6. DeadHoldNothing'
      BY <1>1, <1>2 DEF DeadHoldNothing
    <2> QED BY <1>1, <1>2, <2>3, <2>4, <2>5, <2>6 DEF MoneyInv, Exact, Capped
  <1>4. req[r].phase \in {"new", "body"} /\ ~req[r].stale
    BY DEF Admit, RefuseBody, ReadBody, MoneyInv, StaleWereDispatched
  <1>5. ASSUME NEW v \in Vendors, Admit(r, v)
        PROVE  MoneyInv'
    <2> DEFINE new == [req[r] EXCEPT !.phase = "body", !.vendor = v]
    <2>1. new \in RequestRecords /\ new.phase = "body" /\ new.stale = req[r].stale
      BY <1>1 DEF RequestRecords
    <2>2. req' = [req EXCEPT ![r] = new] /\ mem' = mem
      BY <1>1, <1>5 DEF Admit
    <2> HIDE DEF new
    <2> QED BY <1>3, <1>4, <2>1, <2>2
  <1>6. ASSUME req' = [req EXCEPT ![r].phase = "done"], mem' = mem
        PROVE  MoneyInv'
    <2> DEFINE new == [req[r] EXCEPT !.phase = "done"]
    <2>1. new \in RequestRecords /\ new.phase = "done" /\ new.stale = req[r].stale
      BY <1>1 DEF RequestRecords
    <2>2. req' = [req EXCEPT ![r] = new]
      BY <1>1, <1>6
    <2> HIDE DEF new
    <2> QED BY <1>3, <1>4, <1>6, <2>1, <2>2
  <1>7. ASSUME NEW estimate \in Reserves, ReadBody(r, estimate)
        PROVE  MoneyInv'
    <2> DEFINE v == req[r].vendor
               amount == IF Cap[v] = 0 THEN 0 ELSE estimate
               new == [req[r] EXCEPT !.phase = "dispatch", !.reserve = amount]
    <2>1. amount \in Nat /\ v \in Vendors
      BY <1>1, BudgetAssumption
    <2>2. CASE ~ReservationFits(v, amount)
      <3>1. mem' = mem /\ req' = [req EXCEPT ![r].phase = "done"]
        BY <1>7, <2>2 DEF ReadBody
      <3> QED BY <1>6, <3>1
    <2>3. CASE ReservationFits(v, amount)
      <3>1. mem' = ReserveVendorCny(mem, v, amount) /\ req' = [req EXCEPT ![r] = new]
        BY <1>1, <1>7, <2>3 DEF ReadBody
      <3>2. Cap[v] > 0 /\ amount > 0 => mem.cny[v] + mem.reserved[v] + amount <= Cap[v]
        BY <2>3 DEF ReservationFits
      <3> HIDE DEF amount
      <3>3. /\ new \in RequestRecords /\ new.phase = "dispatch" /\ new.stale = req[r].stale
            /\ new.vendor = v /\ new.reserve = amount
        BY <1>1, <2>1 DEF RequestRecords
      <3> HIDE DEF new, v
      <3>4. req'[r] = new /\ \A q \in Requests \ {r} : req'[q] = req[q]
        BY <1>1, <3>1, <3>3
      <3>5. /\ mem'.cny = mem.cny
            /\ mem'.reserved = [mem.reserved EXCEPT ![v] = @ + amount]
            /\ mem.reserved \in [Vendors -> Nat]
        BY <1>1, <3>1 DEF ReserveVendorCny, Spends
      <3>6. /\ r \notin Holders(req, v)
            /\ Holders(req', v) = Holders(req, v) \cup {r}
            /\ \A q \in Holders(req, v) : req[q].reserve = req'[q].reserve
        BY <1>4, <3>3, <3>4 DEF Holders
      <3>7. HeldIn(req', v) = HeldIn(req, v) + amount
        BY <1>1, <3>3, <3>4, <3>6, HeldAdds
      <3>8. ASSUME NEW w \in Vendors, w # v
            PROVE  HeldIn(req', w) = HeldIn(req, w)
        <4>1. Holders(req', w) = Holders(req, w) /\ r \notin Holders(req, w)
          BY <1>4, <3>3, <3>4, <3>8 DEF Holders
        <4>2. \A q \in Holders(req', w) : req'[q].reserve = req[q].reserve
          BY <3>4, <4>1 DEF Holders
        <4> QED BY <4>1, <4>2, HeldSame
      <3>9. \A w \in Vendors : /\ HeldIn(req, w) \in Nat /\ audit.loaded[w] \in Nat
                               /\ mem.reserved[w] \in Nat /\ mem.cny[w] \in Nat
                               /\ audit.extra[w] \in Nat /\ Cap[w] \in Nat
        BY <1>1, HeldFinite, BudgetAssumption DEF Audits, Spends
      <3>10. Exact(mem', audit', req')
        BY <1>1, <1>2, <2>1, <3>5, <3>7, <3>8, <3>9 DEF Exact
      <3>11. Capped(mem', audit')
        <4> SUFFICES ASSUME NEW w \in Vendors, Cap[w] > 0, w \notin audit.mixed
                     PROVE  mem'.cny[w] + mem'.reserved[w] <= Cap[w] + audit.extra[w]
          BY <1>2 DEF Capped
        <4>1. mem.cny[w] + mem.reserved[w] <= Cap[w] + audit.extra[w]
          BY <1>1 DEF Capped
        <4>2. CASE w = v /\ amount > 0
          BY <2>1, <3>2, <3>5, <3>9, <4>2
        <4>3. CASE w = v /\ amount = 0
          BY <2>1, <3>5, <3>9, <4>1, <4>3
        <4>4. CASE w # v
          BY <3>5, <3>9, <4>1, <4>4
        <4> QED BY <2>1, <4>2, <4>3, <4>4
      <3>12. StaleWereDispatched'
        BY <3>3, <3>4 DEF MoneyInv, StaleWereDispatched
      <3>13. DeadHoldNothing'
        BY <1>1, <1>2 DEF DeadHoldNothing
      <3> QED BY <1>1, <1>2, <3>10, <3>11, <3>12, <3>13 DEF MoneyInv, Exact, Capped
    <2> QED BY <2>2, <2>3
  <1> QED BY <1>5, <1>6, <1>7 DEF RefuseBody

(* What ends a request, or goes on with it, leaves the rest to the money.  *)
LEMMA MoneyRest ==
  ASSUME MoneyInv, BudgetInv', up, up' = up, NEW r \in Requests,
         NEW rs \in {req, RequestsNow},
         \A q \in Requests \ {r} : req'[q] = rs[q],
         req'[r].phase \in {"done", "dispatch"},
         Exact(mem', audit', req'), Capped(mem', audit'),
         file' # NoFile => Capped(file', fileAudit')
  PROVE  MoneyInv'
  <1>1. \A q \in Requests : /\ rs[q].phase = req[q].phase
                            /\ (req[q].phase # "dispatch" /\ ~req[q].stale) => ~rs[q].stale
    BY TurnedMoney
  <1>2. StaleWereDispatched'
    <2> SUFFICES ASSUME NEW q \in Requests, req'[q].phase \in {"new", "body"}
                 PROVE  ~req'[q].stale
      BY DEF StaleWereDispatched
    <2>1. q # r /\ req'[q] = rs[q]
      OBVIOUS
    <2>2. req[q].phase \in {"new", "body"}
      BY <1>1, <2>1
    <2>3. ~req[q].stale
      BY <2>2 DEF MoneyInv, StaleWereDispatched
    <2> QED BY <1>1, <2>1, <2>2, <2>3
  <1>3. DeadHoldNothing'
    BY DEF DeadHoldNothing
  <1> QED BY <1>2, <1>3 DEF MoneyInv, Exact, Capped

(* A released request changes its phase, and nobody else's anything.       *)
LEMMA ReleaseRequests ==
  ASSUME NEW r \in Requests, NEW m, NEW a, NEW rs \in [Requests -> RequestRecords],
         Release(r, m, a, rs)
  PROVE  /\ \A q \in Requests \ {r} : req'[q] = rs[q]
         /\ req'[r].phase = "done"
  <1> DEFINE new == [rs[r] EXCEPT !.phase = "done"]
  <1>1. new.phase = "done" /\ req' = [rs EXCEPT ![r] = new]
    BY DEF Release, RequestRecords
  <1> QED BY <1>1

LEMMA MoneyUncharged ==
  ASSUME MoneyInv, BudgetInv', NEW r \in Requests, EndUncharged(r)
  PROVE  MoneyInv'
  <1>1. /\ mem \in Spends /\ audit \in Audits /\ req \in [Requests -> RequestRecords]
        /\ Exact(mem, audit, req) /\ Capped(mem, audit) /\ up
    BY MoneyTypes DEF MoneyInv, EndUncharged
  <1>2. req[r].phase = "dispatch" /\ Release(r, mem, audit, req) /\ up' = up
    BY DEF EndUncharged
  <1>3. /\ Exact(mem', audit', req')
        /\ mem' \in Spends /\ audit' \in Audits
        /\ mem'.cny = mem.cny /\ audit'.extra = audit.extra
        /\ audit.mixed \subseteq audit'.mixed
        /\ \A w \in Vendors : mem'.reserved[w] <= mem.reserved[w]
    BY <1>1, <1>2, ReleaseMoney
  <1>4. Capped(mem', audit')
    <2> SUFFICES ASSUME NEW w \in Vendors, Cap[w] > 0, w \notin audit'.mixed
                 PROVE  mem'.cny[w] + mem'.reserved[w] <= Cap[w] + audit'.extra[w]
      BY DEF Capped
    <2>1. mem.cny[w] + mem.reserved[w] <= Cap[w] + audit.extra[w]
      BY <1>1, <1>3 DEF Capped
    <2>2. /\ mem.cny[w] \in Nat /\ mem.reserved[w] \in Nat /\ mem'.reserved[w] \in Nat
          /\ audit.extra[w] \in Nat /\ Cap[w] \in Nat
      BY <1>1, <1>3, BudgetAssumption DEF Spends, Audits
    <2> QED BY <1>3, <2>1, <2>2
  <1>5. PICK saved \in BOOLEAN : Write(mem', audit', saved /\ req[r].reserve > 0)
    BY DEF EndUncharged
  <1> DEFINE written == saved /\ req[r].reserve > 0
  <1>6. written \in BOOLEAN /\ Write(mem', audit', written)
    BY <1>5
  <1> HIDE DEF written
  <1>7. file' # NoFile => Capped(file', fileAudit')
    BY <1>3, <1>4, <1>6, SavedMoney DEF MoneyInv
  <1>8. (\A q \in Requests \ {r} : req'[q] = req[q]) /\ req'[r].phase = "done"
    BY <1>1, <1>2, ReleaseRequests
  <1> QED BY <1>1, <1>2, <1>3, <1>4, <1>7, <1>8, MoneyRest

(* What a charge takes from the reservation, and what it adds beyond it.   *)
LEMMA MoneyChargedEnd ==
  ASSUME MoneyInv, up, NEW r \in Requests, NEW v \in Vendors,
         NEW credits \in Nat, NEW cny \in Nat, req[r].phase = "dispatch",
         NEW a \in Audits,
         \/ a = AuditCharge(TableOf(audit), v, cny, Covered(r, v))
         \/ a = TableOf(audit) /\ cny = 0,
         Release(r, Charged(mem, v, credits, cny), a, RequestsNow)
  PROVE  /\ Exact(mem', audit', req') /\ Capped(mem', audit')
         /\ mem' \in Spends /\ audit' \in Audits
  <1> DEFINE m == Charged(mem, v, credits, cny)
             t == ResetDailyVendorSpend(mem)
             b == TableOf(audit)
  <1>1. /\ mem \in Spends /\ audit \in Audits /\ day \in Nat
        /\ req \in [Requests -> RequestRecords] /\ RequestsNow \in [Requests -> RequestRecords]
        /\ req[r].reserve \in Nat /\ req[r].vendor \in Vendors
    BY MoneyTypes, RequestsNowType DEF MoneyInv
  <1>2. Covered(r, v) \in Nat
    BY <1>1 DEF Covered
  <1>3. m \in Spends
    BY <1>1, ChargedType
  <1>4. /\ t \in Spends /\ b \in Audits
        /\ m.reserved = t.reserved
        /\ m.cny = [t.cny EXCEPT ![v] = @ + cny]
        /\ Exact(m, b, RequestsNow)
    BY ChargedMoney
  <1>5. /\ Exact(m, a, RequestsNow) /\ a.mixed = b.mixed
        /\ \A w \in Vendors \ {v} : a.extra[w] = b.extra[w]
        /\ a.extra[v] \in Nat /\ a.extra[v] >= b.extra[v]
        /\ a.extra[v] + Covered(r, v) >= b.extra[v] + cny
    <2> HIDE DEF b, m
    <2>1. /\ a.mixed = b.mixed /\ a.loaded = b.loaded
          /\ \A w \in Vendors \ {v} : a.extra[w] = b.extra[w]
          /\ a.extra[v] \in Nat /\ a.extra[v] >= b.extra[v]
          /\ a.extra[v] + Covered(r, v) >= b.extra[v] + cny
      <3>1. CASE a = AuditCharge(b, v, cny, Covered(r, v))
        <4> DEFINE c == Covered(r, v)
        <4>1. c \in Nat /\ a = AuditCharge(b, v, cny, c)
          BY <1>2, <3>1
        <4> HIDE DEF c
        <4>2. /\ a.mixed = b.mixed /\ a.loaded = b.loaded
              /\ \A w \in Vendors \ {v} : a.extra[w] = b.extra[w]
              /\ a.extra[v] \in Nat /\ a.extra[v] >= b.extra[v]
              /\ a.extra[v] + c >= b.extra[v] + cny
          <5>1. b \in Audits /\ c \in Nat /\ v \in Vendors /\ cny \in Nat
            BY <1>4, <4>1
          <5>2. ASSUME NEW x \in Audits, NEW d \in Nat
                PROVE  LET e == AuditCharge(x, v, cny, d)
                       IN  /\ e.mixed = x.mixed /\ e.loaded = x.loaded
                           /\ \A w \in Vendors \ {v} : e.extra[w] = x.extra[w]
                           /\ e.extra[v] \in Nat /\ e.extra[v] >= x.extra[v]
                           /\ e.extra[v] + d >= x.extra[v] + cny
            BY AuditAdds
          <5> QED BY <4>1, <5>1, <5>2
        <4> QED BY <4>2 DEF c
      <3>2. CASE a = b /\ cny = 0
        <4>1. a.extra[v] \in Nat
          BY DEF Audits
        <4> QED BY <1>2, <3>2, <4>1
      <3> QED BY <3>1, <3>2 DEF b
    <2> QED BY <1>4, <2>1 DEF Exact
  <1>6. Capped(t, b)
    BY TurnedMoney
  <1>7. /\ RequestsNow[r].phase = "dispatch" /\ RequestsNow[r].vendor = req[r].vendor
        /\ RequestsNow[r].reserve = req[r].reserve
    BY TurnedMoney
  <1>8. Release(r, m, a, RequestsNow)
    OBVIOUS
  <1> HIDE DEF m, t, b
  <1>9. /\ Exact(mem', audit', req')
        /\ mem' \in Spends /\ audit' \in Audits
        /\ mem'.cny = m.cny /\ audit'.extra = a.extra
        /\ a.mixed \subseteq audit'.mixed
        /\ \A w \in Vendors : mem'.reserved[w] <= m.reserved[w]
        /\ (~RequestsNow[r].stale /\ req[r].vendor \notin a.mixed) =>
              mem'.reserved[req[r].vendor] = m.reserved[req[r].vendor] - req[r].reserve
    BY <1>1, <1>3, <1>5, <1>7, <1>8, ReleaseMoney
  <1>10. ASSUME NEW w \in Vendors, Cap[w] > 0, w \notin audit'.mixed
         PROVE  mem'.cny[w] + mem'.reserved[w] <= Cap[w] + audit'.extra[w]
    <2>1. t.cny[w] + t.reserved[w] <= Cap[w] + b.extra[w]
      BY <1>5, <1>6, <1>9, <1>10 DEF Capped
    <2>2. /\ t.cny \in [Vendors -> Nat] /\ t.cny[w] \in Nat /\ t.reserved[w] \in Nat
          /\ mem'.reserved[w] \in Nat
          /\ b.extra[w] \in Nat /\ a.extra[w] \in Nat /\ Cap[w] \in Nat
      BY <1>4, <1>9, BudgetAssumption DEF Spends, Audits
    <2>3. CASE w # v
      BY <1>4, <1>5, <1>9, <2>1, <2>2, <2>3
    <2>4. CASE w = v /\ Covered(r, v) = 0
      BY <1>4, <1>5, <1>9, <2>1, <2>2, <2>4
    <2>5. CASE w = v /\ Covered(r, v) # 0
      <3>1. ~RequestsNow[r].stale /\ v = req[r].vendor /\ Covered(r, v) = req[r].reserve
        BY <2>5 DEF Covered
      <3>2. mem'.reserved[w] = t.reserved[w] - req[r].reserve
        BY <1>4, <1>9, <1>10, <2>5, <3>1
      <3> QED BY <1>1, <1>4, <1>5, <1>9, <2>1, <2>2, <2>5, <3>1, <3>2
    <2> QED BY <2>3, <2>4, <2>5
  <1>11. Capped(mem', audit')
    BY <1>10 DEF Capped
  <1> QED BY <1>9, <1>11

(* The dispatch ends with a charge.                                        *)
LEMMA MoneyCharged ==
  ASSUME MoneyInv, BudgetInv', NEW r \in Requests, NEW v \in Vendors, NEW charge \in Charges,
         EndCharged(r, v, charge)
  PROVE  MoneyInv'
  <1> DEFINE cny == VendorCost(v, charge, req[r].reserve)
             m == Charged(mem, v, charge.credits, cny)
             a == AuditCharge(TableOf(audit), v, cny, Covered(r, v))
  <1>1. /\ mem \in Spends /\ audit \in Audits /\ BudgetInv
        /\ up /\ up' = up /\ req[r].phase = "dispatch" /\ req[r].reserve \in Nat
    BY MoneyTypes DEF MoneyInv, EndCharged
  <1>2. charge.credits \in Nat /\ cny \in Nat
    BY <1>1, VendorCostType, BudgetAssumption
  <1> HIDE DEF cny
  <1>3. /\ m \in Spends /\ a \in Audits /\ RequestsNow \in [Requests -> RequestRecords]
    <2> DEFINE c == Covered(r, v)
    <2>1. c \in Nat
      BY <1>1, <1>2, ChargeTypes
    <2> HIDE DEF c
    <2>2. AuditCharge(TableOf(audit), v, cny, c) \in Audits
      BY <1>1, <1>2, <2>1, ChargeTypes
    <2>3. m \in Spends /\ RequestsNow \in [Requests -> RequestRecords]
      BY <1>1, <1>2, <2>1, ChargeTypes
    <2> QED BY <2>2, <2>3 DEF c
  <1>4. Release(r, m, a, RequestsNow)
    BY DEF EndCharged, cny
  <1>5. /\ Exact(mem', audit', req') /\ Capped(mem', audit')
        /\ mem' \in Spends /\ audit' \in Audits
    BY <1>1, <1>2, <1>3, <1>4, MoneyChargedEnd
  <1>6. PICK saved \in BOOLEAN :
            IF req[r].reserve > 0 THEN Write(mem', audit', TRUE) ELSE Write(m, a, saved)
    BY DEF EndCharged, cny
  <1>7. file' # NoFile => Capped(file', fileAudit')
    <2>1. CASE req[r].reserve > 0
      BY <1>5, <1>6, <2>1, SavedMoney DEF MoneyInv
    <2>2. CASE ~(req[r].reserve > 0)
      <3>1. req[r].reserve = 0
        BY <1>1, <2>2
      <3>2. Covered(r, v) = 0
        BY <3>1 DEF Covered
      <3>3. Capped(m, a)
        BY <1>1, <1>2, <3>2, ChargedCapped
      <3>4. Write(m, a, saved)
        BY <1>6, <2>2
      <3> HIDE DEF m, a
      <3> QED BY <1>3, <3>3, <3>4, SavedMoney DEF MoneyInv
    <2> QED BY <2>1, <2>2
  <1> HIDE DEF m, a
  <1>8. (\A q \in Requests \ {r} : req'[q] = RequestsNow[q]) /\ req'[r].phase = "done"
    BY <1>3, <1>4, ReleaseRequests
  <1> QED BY <1>1, <1>5, <1>7, <1>8, MoneyRest

(* The dispatch ends with a charge the vendor's part of which is lost.     *)
LEMMA MoneyUnrecorded ==
  ASSUME MoneyInv, BudgetInv', NEW r \in Requests, NEW v \in Vendors, NEW charge \in Charges,
         EndUnrecorded(r, v, charge)
  PROVE  MoneyInv'
  <1> DEFINE none == 0
             a == TableOf(audit)
  <1>1. /\ mem \in Spends /\ audit \in Audits /\ BudgetInv
        /\ up /\ up' = up /\ req[r].phase = "dispatch" /\ req[r].reserve \in Nat
    BY MoneyTypes DEF MoneyInv, EndUnrecorded
  <1>2. charge.credits \in Nat /\ none \in Nat /\ none = 0
    BY BudgetAssumption
  <1>3. a \in Audits /\ RequestsNow \in [Requests -> RequestRecords]
    BY <1>1, <1>2, ChargeTypes
  <1>4. /\ Release(r, Charged(mem, v, charge.credits, none), a, RequestsNow)
        /\ Write(mem', audit', req[r].reserve > 0)
    BY DEF EndUnrecorded
  <1> HIDE DEF none
  <1>5. /\ Exact(mem', audit', req') /\ Capped(mem', audit')
        /\ mem' \in Spends /\ audit' \in Audits
    BY <1>1, <1>2, <1>3, <1>4, MoneyChargedEnd
  <1> DEFINE written == req[r].reserve > 0
  <1>6. written \in BOOLEAN /\ Write(mem', audit', written)
    BY <1>4
  <1> HIDE DEF written
  <1>7. file' # NoFile => Capped(file', fileAudit')
    BY <1>5, <1>6, SavedMoney DEF MoneyInv
  <1>8. (\A q \in Requests \ {r} : req'[q] = RequestsNow[q]) /\ req'[r].phase = "done"
    <2> DEFINE m == Charged(mem, v, charge.credits, none)
    <2>1. Release(r, m, a, RequestsNow)
      BY <1>4
    <2> HIDE DEF m, a
    <2> QED BY <1>3, <2>1, ReleaseRequests
  <1> QED BY <1>1, <1>5, <1>7, <1>8, MoneyRest

(* A charged attempt leaves what is reserved for its request.              *)
LEMMA MoneyAttempt ==
  ASSUME MoneyInv, BudgetInv', NEW r \in Requests, NEW v \in Vendors, NEW charge \in Charges,
         AttemptCharged(r, v, charge)
  PROVE  MoneyInv'
  <1> DEFINE cny == VendorCost(v, charge, req[r].reserve)
             m == Charged(mem, v, charge.credits, cny)
             a == AuditCharge(TableOf(audit), v, cny, 0)
             new == [RequestsNow[r] EXCEPT !.tries = @ + 1]
  <1>1. /\ mem \in Spends /\ audit \in Audits /\ BudgetInv
        /\ up /\ up' = up /\ req[r].phase = "dispatch" /\ req[r].reserve \in Nat
    BY MoneyTypes DEF MoneyInv, AttemptCharged
  <1>2. charge.credits \in Nat /\ cny \in Nat
    BY <1>1, VendorCostType, BudgetAssumption
  <1>3. /\ mem' = m /\ audit' = a /\ Write(m, a, TRUE)
        /\ req' = [RequestsNow EXCEPT ![r].tries = @ + 1]
    BY DEF AttemptCharged
  <1> HIDE DEF cny
  <1> DEFINE nothing == 0
  <1>4. nothing \in Nat /\ nothing = 0
    OBVIOUS
  <1> HIDE DEF nothing
  <1>5. m \in Spends /\ a \in Audits /\ RequestsNow \in [Requests -> RequestRecords]
    <2>1. /\ m \in Spends /\ AuditCharge(TableOf(audit), v, cny, nothing) \in Audits
          /\ RequestsNow \in [Requests -> RequestRecords]
      BY <1>1, <1>2, <1>4, ChargeTypes
    <2> QED BY <1>4, <2>1
  <1>6. Exact(m, a, RequestsNow) /\ Capped(m, a)
    BY <1>1, <1>2, ChargedCapped
  <1>7. /\ req' = [RequestsNow EXCEPT ![r] = new]
        /\ new.phase = RequestsNow[r].phase /\ new.vendor = RequestsNow[r].vendor
        /\ new.reserve = RequestsNow[r].reserve /\ new.stale = RequestsNow[r].stale
    BY <1>3, <1>5 DEF RequestRecords
  <1> HIDE DEF m, a, new
  <1>8. req'[r] = new /\ \A q \in Requests \ {r} : req'[q] = RequestsNow[q]
    BY <1>5, <1>7
  <1>9. ASSUME NEW w \in Vendors
        PROVE  HeldIn(RequestsNow, w) = HeldIn(req', w)
    <2>1. Holders(RequestsNow, w) = Holders(req', w)
      BY <1>7, <1>8 DEF Holders
    <2>2. \A q \in Holders(RequestsNow, w) : RequestsNow[q].reserve = req'[q].reserve
      BY <1>7, <1>8 DEF Holders
    <2> QED BY <2>1, <2>2, HeldSame
  <1>10. Exact(mem', audit', req') /\ Capped(mem', audit')
    BY <1>3, <1>6, <1>9 DEF Exact
  <1>11. file' # NoFile => Capped(file', fileAudit')
    BY <1>3, <1>5, <1>6, SavedMoney DEF MoneyInv
  <1>12. req'[r].phase = "dispatch"
    <2>1. RequestsNow[r].phase = req[r].phase
      BY <1>1, TurnedMoney
    <2> QED BY <1>1, <1>7, <1>8, <2>1
  <1> QED BY <1>1, <1>8, <1>10, <1>11, <1>12, MoneyRest

-----------------------------------------------------------------------------
(* The day and the process.                                                *)

LEMMA MoneyNextDay ==
  ASSUME MoneyInv, BudgetInv', NextDay
  PROVE  MoneyInv'
  <1>1. audit \in Audits
    BY MoneyTypes DEF MoneyInv
  <1>2. /\ audit'.mixed = audit.mixed /\ audit'.loaded = audit.loaded
        /\ audit'.extra = audit.extra
    BY <1>1 DEF NextDay, Audits
  <1>3. /\ mem' = mem /\ req' = req /\ up' = up /\ file' = file /\ fileAudit' = fileAudit
    BY DEF NextDay
  <1>4. up => Exact(mem', audit', req') /\ Capped(mem', audit')
    BY <1>2, <1>3 DEF MoneyInv, Exact, Capped
  <1>5. StaleWereDispatched' /\ DeadHoldNothing'
    BY <1>3 DEF MoneyInv, StaleWereDispatched, DeadHoldNothing
  <1> QED BY <1>3, <1>4, <1>5 DEF MoneyInv, Exact, Capped

LEMMA MoneyReset ==
  ASSUME MoneyInv, BudgetInv', ResetTimer
  PROVE  MoneyInv'
  <1>1. /\ req \in [Requests -> RequestRecords] /\ mem' \in Spends /\ audit' \in Audits
        /\ up /\ up' = up
    BY MoneyTypes DEF MoneyInv, BudgetInv, BudgetTypes, TypeOK, RequestRecords, ResetTimer
  <1>2. /\ mem' = Fresh(day) /\ audit' = NewAudit /\ req' = Stale(req)
        /\ Write(mem', audit', TRUE)
    BY DEF ResetTimer, ResetState
  <1>3. \A v \in Vendors : Holders(Stale(req), v) = {}
    BY <1>1, StaleFacts DEF Holders
  <1>4. /\ mem'.cny = Zero /\ mem'.reserved = Zero
        /\ audit'.extra = Zero /\ audit'.loaded = Zero
    BY <1>2 DEF Fresh, NewAudit
  <1>5. Exact(mem', audit', req') /\ Capped(mem', audit')
    BY <1>2, <1>3, <1>4, FreshMoney
  <1>6. file' # NoFile => Capped(file', fileAudit')
    BY <1>1, <1>2, <1>5, SavedMoney DEF MoneyInv
  <1>7. StaleWereDispatched'
    <2> SUFFICES ASSUME NEW q \in Requests, req'[q].phase \in {"new", "body"}
                 PROVE  ~req'[q].stale
      BY DEF StaleWereDispatched
    <2>1. req[q].phase \in {"new", "body"}
      BY <1>1, <1>2, StaleFacts
    <2>2. ~req[q].stale
      BY <2>1 DEF MoneyInv, StaleWereDispatched
    <2> QED BY <1>1, <1>2, <2>1, <2>2, StaleFacts
  <1>8. DeadHoldNothing'
    BY <1>1 DEF DeadHoldNothing
  <1> QED BY <1>5, <1>6, <1>7, <1>8 DEF MoneyInv, Exact, Capped

(* Nothing runs in a process that has ended.                               *)
LEMMA MoneyCrash ==
  ASSUME MoneyInv, BudgetInv', Crash
  PROVE  MoneyInv'
  <1>1. req \in [Requests -> RequestRecords]
    BY MoneyTypes DEF MoneyInv
  <1>2. /\ ~up' /\ mem' = mem /\ file' = file /\ fileAudit' = fileAudit
        /\ req' = [r \in Requests |-> IF req[r].phase = "new" THEN req[r]
                                      ELSE [req[r] EXCEPT !.phase = "done"]]
    BY DEF Crash
  <1>3. ASSUME NEW r \in Requests
        PROVE  /\ req'[r].phase # "dispatch"
               /\ req'[r].phase \in {"new", "body"} => ~req'[r].stale
    <2>1. CASE req[r].phase = "new"
      <3>1. req'[r] = req[r]
        BY <1>2, <2>1
      <3> QED BY <2>1, <3>1 DEF MoneyInv, StaleWereDispatched
    <2>2. CASE req[r].phase # "new"
      <3> DEFINE new == [req[r] EXCEPT !.phase = "done"]
      <3>1. new.phase = "done"
        BY <1>1 DEF RequestRecords
      <3>2. req'[r] = new
        BY <1>2, <2>2
      <3> QED BY <3>1, <3>2
    <2> QED BY <2>1, <2>2
  <1>4. StaleWereDispatched' /\ DeadHoldNothing'
    BY <1>3 DEF StaleWereDispatched, DeadHoldNothing
  <1> QED BY <1>2, <1>4 DEF MoneyInv, Capped

(* What the file holds of a dead process's requests is known to be loaded. *)
LEMMA MoneyStart ==
  ASSUME MoneyInv, BudgetInv', Start
  PROVE  MoneyInv'
  <1>1. /\ fileAudit \in Audits /\ file \in Saves \cup {NoFile} /\ ~up
    BY MoneyTypes DEF MoneyInv, Start
  <1>2. /\ up' = TRUE /\ mem' = Load /\ req' = req /\ file' = file /\ fileAudit' = fileAudit
        /\ audit' = IF file # NoFile /\ file.updated = day
                    THEN [fileAudit EXCEPT !.loaded = file.reserved] ELSE NewAudit
    BY DEF Start
  <1>3. \A v \in Vendors : Holders(req', v) = {}
    BY <1>1, <1>2 DEF MoneyInv, DeadHoldNothing, Holders
  <1>4. CASE file # NoFile /\ file.updated = day
    <2>1. /\ mem'.cny = file.cny /\ mem'.reserved = file.reserved
          /\ file.reserved \in [Vendors -> Nat]
      BY <1>1, <1>2, <1>4 DEF Load, Saves
    <2>2. /\ audit'.mixed = fileAudit.mixed /\ audit'.extra = fileAudit.extra
          /\ audit'.loaded = file.reserved
      BY <1>1, <1>2, <1>4 DEF Audits
    <2>3. Capped(mem', audit')
      BY <1>4, <2>1, <2>2 DEF MoneyInv, Capped
    <2>4. \A v \in Vendors : HeldIn(req', v) = 0
      BY <1>3, HeldNone
    <2>5. Exact(mem', audit', req')
      BY <2>1, <2>2, <2>4 DEF Exact
    <2> QED BY <1>2, <2>3, <2>5
          DEF MoneyInv, Exact, Capped, StaleWereDispatched, DeadHoldNothing
  <1>5. CASE ~(file # NoFile /\ file.updated = day)
    <2>1. mem' = Fresh(day) /\ audit' = NewAudit
      BY <1>2, <1>5 DEF Load
    <2>2. /\ mem'.cny = Zero /\ mem'.reserved = Zero
          /\ audit'.extra = Zero /\ audit'.loaded = Zero
      BY <2>1 DEF Fresh, NewAudit
    <2>3. Exact(mem', audit', req') /\ Capped(mem', audit')
      BY <1>3, <2>2, FreshMoney
    <2> QED BY <1>2, <2>3
          DEF MoneyInv, Exact, Capped, StaleWereDispatched, DeadHoldNothing
  <1> QED BY <1>4, <1>5

-----------------------------------------------------------------------------

LEMMA MoneyInit == Init => MoneyInv
  <1> SUFFICES ASSUME Init PROVE MoneyInv
    OBVIOUS
  <1>1. \A r \in Requests : req[r].phase = "new" /\ ~req[r].stale
    BY DEF Init, NoRequest
  <1>2. \A v \in Vendors : Holders(req, v) = {}
    BY <1>1 DEF Holders
  <1>3. /\ mem.cny = Zero /\ mem.reserved = Zero /\ audit.extra = Zero /\ audit.loaded = Zero
    BY DEF Init, Fresh, NewAudit
  <1>4. Exact(mem, audit, req) /\ Capped(mem, audit)
    BY <1>2, <1>3, FreshMoney
  <1> QED BY <1>1, <1>4, InitInv
          DEF Init, MoneyInv, StaleWereDispatched, DeadHoldNothing

LEMMA MoneyStep == MoneyInv /\ [Next]_vars => MoneyInv'
  <1> SUFFICES ASSUME MoneyInv, [Next]_vars PROVE MoneyInv'
    OBVIOUS
  <1>1. BudgetInv'
    BY StepInv DEF MoneyInv
  <1>2. ASSUME NEW r \in Requests,
               \/ \E v \in Vendors : Admit(r, v)
               \/ RefuseBody(r)
               \/ \E estimate \in Reserves : ReadBody(r, estimate)
        PROVE  MoneyInv'
    BY <1>1, <1>2, MoneyRequest
  <1>3. ASSUME NEW r \in Requests, EndUncharged(r)
        PROVE  MoneyInv'
    BY <1>1, <1>3, MoneyUncharged
  <1>4. ASSUME NEW r \in Requests, NEW v \in Vendors, NEW charge \in Charges,
               \/ EndCharged(r, v, charge)
               \/ EndUnrecorded(r, v, charge)
               \/ AttemptCharged(r, v, charge)
        PROVE  MoneyInv'
    BY <1>1, <1>4, MoneyCharged, MoneyUnrecorded, MoneyAttempt
  <1>5. ASSUME NextDay \/ ResetTimer \/ Crash \/ Start
        PROVE  MoneyInv'
    BY <1>1, <1>5, MoneyNextDay, MoneyReset, MoneyCrash, MoneyStart
  <1>6. CASE UNCHANGED vars
    BY <1>1, <1>6 DEF vars, MoneyInv, Exact, Capped, HeldIn, HeldUnits, Holders,
                      StaleWereDispatched, DeadHoldNothing
  <1> QED BY <1>2, <1>3, <1>4, <1>5, <1>6 DEF Next

(* No path through the handler, no turn of the day, no failed write and no   *)
(* crash forgets or repeats a release: what is reserved on a vendor is what  *)
(* the requests in flight hold there and what a crash left in the file, and  *)
(* never more (gateway-request-handler.mjs 175-205).                         *)
THEOREM ReservationsStayExact == Spec => []ReservationsExact
  <1>1. MoneyInv => ReservationsExact
    BY DEF MoneyInv, Exact, ReservationsExact, HeldFor, HeldIn
  <1> QED BY MoneyInit, MoneyStep, <1>1, PTL DEF Spec

(* However requests interleave between the gate, the reservation and the     *)
(* charge, what is spent and reserved on a vendor exceeds its cap by no more *)
(* than the charges nothing was reserved for (budget-manager.mjs 187-196).   *)
THEOREM CapNeverExceeded == Spec => []CapHolds
  <1>1. MoneyInv => CapHolds
    BY DEF MoneyInv, Capped, CapHolds
  <1> QED BY MoneyInit, MoneyStep, <1>1, PTL DEF Spec

-----------------------------------------------------------------------------
(* Bytes and files.                                                        *)

Earlier(a, b) == a[1] < b[1] \/ (a[1] = b[1] /\ a[2] < b[2])

\* Each byte is written once, in the order of the rows.
Ascending(s) == \A i, j \in DOMAIN s : i < j => Earlier(s[i], s[j])

Held(s) == {s[i][1] : i \in DOMAIN s}

(* A set of numbers that is not empty has a least element. *)
LEMMA NatMinimum ==
  ASSUME NEW S \in SUBSET Nat, S # {}
  PROVE  \E x \in S : \A y \in S : x <= y
  <1>1. PICK x \in S : \A y \in S : ~ (<<y, x>> \in OpToRel(<, Nat))
    BY NatLessThanWellFounded, WFMin
  <1>2. ASSUME NEW y \in S
        PROVE  x <= y
    <2>1. <<y, x>> \in Nat \X Nat
      OBVIOUS
    <2>2. ~ (y < x)
      BY <1>1, <2>1 DEF OpToRel
    <2> QED BY <2>2
  <1> QED BY <1>2

(* What two files hold one after the other. *)
LEMMA HeldConcat ==
  ASSUME NEW s \in Seq(Bytes), NEW t \in Seq(Bytes)
  PROVE  /\ s \o t \in Seq(Bytes)
         /\ Len(s \o t) = Len(s) + Len(t)
         /\ \A i \in DOMAIN s : (s \o t)[i] = s[i]
         /\ \A i \in DOMAIN t : Len(s) + i \in DOMAIN (s \o t) /\ (s \o t)[Len(s) + i] = t[i]
         /\ \A i \in DOMAIN (s \o t) : i > Len(s) => i - Len(s) \in DOMAIN t
         /\ DOMAIN s \subseteq DOMAIN (s \o t)
         /\ Held(s \o t) = Held(s) \cup Held(t)
  <1>1. /\ s \o t \in Seq(Bytes)
        /\ Len(s \o t) = Len(s) + Len(t)
        /\ DOMAIN s = 1 .. Len(s) /\ DOMAIN t = 1 .. Len(t)
        /\ DOMAIN (s \o t) = 1 .. Len(s) + Len(t)
        /\ Len(s) \in Nat /\ Len(t) \in Nat
    OBVIOUS
  <1>2. \A i \in DOMAIN s : (s \o t)[i] = s[i]
    OBVIOUS
  <1>3. \A i \in DOMAIN t : (s \o t)[Len(s) + i] = t[i]
    OBVIOUS
  <1>4. \A i \in DOMAIN (s \o t) : i > Len(s) => i - Len(s) \in DOMAIN t
    BY <1>1
  <1>5. \A i \in DOMAIN (s \o t) : i > Len(s) => (s \o t)[i] = t[i - Len(s)]
    BY <1>1
  <1>6. Held(s \o t) \subseteq Held(s) \cup Held(t)
    BY <1>1, <1>2, <1>4, <1>5 DEF Held
  <1>7. Held(s) \subseteq Held(s \o t)
    BY <1>1, <1>2 DEF Held
  <1>8. Held(t) \subseteq Held(s \o t)
    <2>1. SUFFICES ASSUME NEW i \in DOMAIN t
                   PROVE  t[i][1] \in Held(s \o t)
      BY DEF Held
    <2>2. Len(s) + i \in DOMAIN (s \o t)
      BY <1>1, <2>1
    <2> QED BY <1>3, <2>1, <2>2 DEF Held
  <1> QED BY <1>1, <1>2, <1>3, <1>4, <1>6, <1>7, <1>8

(* Two parts in ascending order, the one after the other. *)
LEMMA AscendingConcat ==
  ASSUME NEW s \in Seq(Bytes), NEW t \in Seq(Bytes),
         Ascending(s), Ascending(t), Precede(Held(s), Held(t))
  PROVE  Ascending(s \o t)
  <1> SUFFICES ASSUME NEW i \in DOMAIN (s \o t), NEW j \in DOMAIN (s \o t), i < j
               PROVE  Earlier((s \o t)[i], (s \o t)[j])
    BY DEF Ascending
  <1>1. /\ DOMAIN s = 1 .. Len(s) /\ DOMAIN t = 1 .. Len(t)
        /\ DOMAIN (s \o t) = 1 .. Len(s) + Len(t)
        /\ Len(s) \in Nat /\ Len(t) \in Nat
    OBVIOUS
  <1>2. CASE j <= Len(s)
    BY <1>1, <1>2, HeldConcat DEF Ascending
  <1>3. CASE i > Len(s)
    <2>1. /\ i - Len(s) \in DOMAIN t /\ j - Len(s) \in DOMAIN t
          /\ i - Len(s) < j - Len(s)
          /\ (s \o t)[i] = t[i - Len(s)] /\ (s \o t)[j] = t[j - Len(s)]
      BY <1>1, <1>3
    <2> QED BY <2>1 DEF Ascending
  <1>4. CASE i <= Len(s) /\ j > Len(s)
    <2>1. /\ i \in DOMAIN s /\ j - Len(s) \in DOMAIN t
          /\ (s \o t)[i] = s[i] /\ (s \o t)[j] = t[j - Len(s)]
      BY <1>1, <1>4
    <2>2. s[i][1] \in Held(s) /\ t[j - Len(s)][1] \in Held(t)
      BY <2>1 DEF Held
    <2> QED BY <2>1, <2>2 DEF Precede, Earlier
  <1> QED BY <1>1, <1>2, <1>3, <1>4

(* The parts of what is in ascending order are so too. *)
LEMMA AscendingParts ==
  ASSUME NEW s \in Seq(Bytes), NEW t \in Seq(Bytes), Ascending(s \o t)
  PROVE  Ascending(s) /\ Ascending(t)
  <1>1. Ascending(s)
    BY HeldConcat DEF Ascending
  <1>2. ASSUME NEW i \in DOMAIN t, NEW j \in DOMAIN t, i < j
        PROVE  Earlier(t[i], t[j])
    <2>1. /\ Len(s) + i \in DOMAIN (s \o t) /\ Len(s) + j \in DOMAIN (s \o t)
          /\ Len(s) + i < Len(s) + j
          /\ (s \o t)[Len(s) + i] = t[i] /\ (s \o t)[Len(s) + j] = t[j]
      BY <1>2, HeldConcat
    <2> QED BY <2>1 DEF Ascending
  <1> QED BY <1>1, <1>2 DEF Ascending

(* What a reader finds is what a file holds, in its order. *)
LEMMA ReadableFacts ==
  ASSUME NEW s \in Seq(Bytes)
  PROVE  /\ Readable(s) \subseteq Held(s) /\ Held(s) \subseteq Rows
         /\ Ascending(s) => Sorted(s)
  <1>1. Readable(s) \subseteq Held(s) /\ Held(s) \subseteq Rows
    BY DEF Readable, Held, Bytes
  <1>2. ASSUME Ascending(s), NEW i \in DOMAIN s, NEW j \in DOMAIN s,
               ParsesAt(s, i), ParsesAt(s, j), i < j
        PROVE  s[i][1] < s[j][1]
    BY <1>2 DEF Ascending, Earlier, ParsesAt, Ends, Bytes
  <1> QED BY <1>1, <1>2 DEF Sorted

(* Whether a line parses depends on what is before it. *)
LEMMA ReadableConcat ==
  ASSUME NEW s \in Seq(Bytes), NEW t \in Seq(Bytes)
  PROVE  /\ \A i \in DOMAIN s : ParsesAt(s \o t, i) <=> ParsesAt(s, i)
         /\ Readable(s) \subseteq Readable(s \o t)
         /\ Readable(s \o t) \subseteq Readable(s) \cup Held(t)
  <1>1. ASSUME NEW i \in DOMAIN s
        PROVE  ParsesAt(s \o t, i) <=> ParsesAt(s, i)
    <2>1. (s \o t)[i] = s[i]
      BY HeldConcat
    <2>2. i > 1 => (s \o t)[i - 1] = s[i - 1]
      <3>1. i > 1 => i - 1 \in DOMAIN s
        OBVIOUS
      <3> QED BY <3>1, HeldConcat
    <2>3. i > 2 => (s \o t)[i - 2] = s[i - 2]
      <3>1. i > 2 => i - 2 \in DOMAIN s
        OBVIOUS
      <3> QED BY <3>1, HeldConcat
    <2> QED BY <2>1, <2>2, <2>3 DEF ParsesAt
  <1>2. Readable(s) \subseteq Readable(s \o t)
    BY <1>1, HeldConcat DEF Readable
  <1>3. ASSUME NEW i \in DOMAIN (s \o t), ParsesAt(s \o t, i)
        PROVE  (s \o t)[i][1] \in Readable(s) \cup Held(t)
    <2>1. CASE i <= Len(s)
      <3>1. i \in DOMAIN s
        BY <2>1
      <3> QED BY <1>1, <1>3, <3>1, HeldConcat DEF Readable
    <2>2. CASE i > Len(s)
      <3>1. i - Len(s) \in DOMAIN t /\ (s \o t)[i] = t[i - Len(s)]
        BY <2>2
      <3> QED BY <3>1 DEF Held
    <2> QED BY <2>1, <2>2
  <1> QED BY <1>1, <1>2, <1>3 DEF Readable

-----------------------------------------------------------------------------
(* Lines.                                                                  *)

Increasing(rs) == \A i, j \in DOMAIN rs : i < j => rs[i] < rs[j]
Members(rs) == {rs[i] : i \in DOMAIN rs}

(* The bytes of a line are those of its row. *)
LEMMA LinesFacts ==
  ASSUME NEW rs \in Seq(Rows)
  PROVE  /\ LinesOf(rs) \in Seq(Bytes) /\ Len(LinesOf(rs)) = 2 * Len(rs)
         /\ \A k \in DOMAIN rs : /\ 2 * k - 1 \in DOMAIN LinesOf(rs)
                                 /\ 2 * k \in DOMAIN LinesOf(rs)
                                 /\ LinesOf(rs)[2 * k - 1] = <<rs[k], 1>>
                                 /\ LinesOf(rs)[2 * k] = <<rs[k], 2>>
         /\ \A i \in DOMAIN LinesOf(rs) :
               \E k \in DOMAIN rs : i = 2 * k - 1 \/ i = 2 * k
  <1> DEFINE n == Len(rs)
  <1>1. n \in Nat /\ DOMAIN rs = 1 .. n
    OBVIOUS
  <1>2. ASSUME NEW i \in 1 .. 2 * n
        PROVE  \E k \in 1 .. n : (i = 2 * k - 1 \/ i = 2 * k)
    <2>1. (i + 1) \div 2 \in 1 .. n /\ (i = 2 * ((i + 1) \div 2) - 1 \/ i = 2 * ((i + 1) \div 2))
      BY <1>1
    <2> QED BY <2>1
  <1>3. ASSUME NEW k \in 1 .. n
        PROVE  /\ 2 * k - 1 \in 1 .. 2 * n /\ 2 * k \in 1 .. 2 * n
               /\ ((2 * k - 1) + 1) \div 2 = k /\ (2 * k + 1) \div 2 = k
               /\ 2 - ((2 * k - 1) % 2) = 1 /\ 2 - ((2 * k) % 2) = 2
    BY <1>1
  <1>4. ASSUME NEW i \in 1 .. 2 * n
        PROVE  <<rs[(i + 1) \div 2], 2 - (i % 2)>> \in Bytes
    <2>1. PICK k \in 1 .. n : i = 2 * k - 1 \/ i = 2 * k
      BY <1>2
    <2>2. (i + 1) \div 2 = k /\ 2 - (i % 2) \in {1, 2}
      BY <1>3, <2>1
    <2> QED BY <1>1, <2>2 DEF Bytes
  <1>5. 2 * n \in Nat
    BY <1>1
  <1>6. LinesOf(rs) \in Seq(Bytes) /\ Len(LinesOf(rs)) = 2 * n
        /\ DOMAIN LinesOf(rs) = 1 .. 2 * n
    BY <1>4, <1>5 DEF LinesOf
  <1>7. \A k \in 1 .. n : /\ LinesOf(rs)[2 * k - 1] = <<rs[k], 1>>
                          /\ LinesOf(rs)[2 * k] = <<rs[k], 2>>
    BY <1>3 DEF LinesOf
  <1> QED BY <1>1, <1>2, <1>3, <1>6, <1>7

(* A reader finds each line that was written whole. *)
LEMMA LinesContent ==
  ASSUME NEW rs \in Seq(Rows)
  PROVE  /\ Held(LinesOf(rs)) = Members(rs) /\ Members(rs) \subseteq Rows
         /\ Readable(LinesOf(rs)) = Members(rs)
         /\ Increasing(rs) => Ascending(LinesOf(rs))
  <1> DEFINE s == LinesOf(rs)
  <1>1. /\ s \in Seq(Bytes) /\ DOMAIN s = 1 .. Len(s) /\ Len(s) \in Nat
        /\ DOMAIN rs = 1 .. Len(rs) /\ Len(rs) \in Nat
    BY LinesFacts
  <1>2. \A k \in DOMAIN rs : /\ 2 * k - 1 \in DOMAIN s /\ 2 * k \in DOMAIN s
                             /\ s[2 * k - 1] = <<rs[k], 1>> /\ s[2 * k] = <<rs[k], 2>>
    BY LinesFacts
  <1>3. \A i \in DOMAIN s : \E k \in DOMAIN rs : i = 2 * k - 1 \/ i = 2 * k
    BY LinesFacts
  <1> HIDE DEF s
  <1>4. Held(s) \subseteq Members(rs) /\ Members(rs) \subseteq Rows
    <2>1. ASSUME NEW i \in DOMAIN s
          PROVE  s[i][1] \in Members(rs)
      <3>1. PICK k \in DOMAIN rs : i = 2 * k - 1 \/ i = 2 * k
        BY <1>3
      <3>2. s[i][1] = rs[k]
        BY <1>2, <3>1
      <3> QED BY <3>2 DEF Members
    <2>2. Members(rs) \subseteq Rows
      BY DEF Members
    <2> QED BY <2>1, <2>2 DEF Held
  <1>5. ASSUME NEW k \in DOMAIN rs
        PROVE  ParsesAt(s, 2 * k)
    <2>1. 2 * k > 1 /\ 2 * k \in DOMAIN s /\ s[2 * k] = <<rs[k], 2>> /\ s[2 * k - 1] = <<rs[k], 1>>
      BY <1>1, <1>2
    <2>2. CASE k = 1
      BY <2>1, <2>2 DEF ParsesAt, Ends
    <2>3. CASE k # 1
      <3>1. k - 1 \in DOMAIN rs /\ 2 * (k - 1) = 2 * k - 2
        BY <1>1, <2>3
      <3>2. s[2 * k - 2] = <<rs[k - 1], 2>>
        BY <1>2, <3>1
      <3> QED BY <2>1, <3>2 DEF ParsesAt, Ends
    <2> QED BY <2>2, <2>3
  <1>6. Members(rs) \subseteq Readable(s)
    <2> SUFFICES ASSUME NEW k \in DOMAIN rs
                 PROVE  rs[k] \in Readable(s)
      BY DEF Members
    <2>1. 2 * k \in DOMAIN s /\ s[2 * k][1] = rs[k]
      BY <1>2
    <2> QED BY <1>5, <2>1 DEF Readable
  <1>7. Readable(s) \subseteq Held(s)
    BY <1>1, ReadableFacts
  <1>8. ASSUME Increasing(rs), NEW i \in DOMAIN s, NEW j \in DOMAIN s, i < j
        PROVE  Earlier(s[i], s[j])
    <2>1. PICK k \in DOMAIN rs : i = 2 * k - 1 \/ i = 2 * k
      BY <1>3
    <2>2. PICK l \in DOMAIN rs : j = 2 * l - 1 \/ j = 2 * l
      BY <1>3
    <2>3. s[i][1] = rs[k] /\ s[j][1] = rs[l] /\ (k = l => s[i][2] = 1 /\ s[j][2] = 2) /\ k <= l
      BY <1>1, <1>2, <1>8, <2>1, <2>2
    <2>4. CASE k = l
      BY <2>3, <2>4 DEF Earlier
    <2>5. CASE k < l
      BY <1>8, <2>3, <2>5 DEF Earlier, Increasing
    <2> QED BY <1>1, <2>3, <2>4, <2>5
  <1> QED BY <1>4, <1>6, <1>7, <1>8 DEF Ascending, s

(* One line. *)
LEMMA LineOfOne ==
  ASSUME NEW r \in Rows
  PROVE  /\ <<r>> \in Seq(Rows) /\ Increasing(<<r>>) /\ Members(<<r>>) = {r}
         /\ LinesOf(<<r>>) \in Seq(Bytes) /\ Ascending(LinesOf(<<r>>))
         /\ Held(LinesOf(<<r>>)) = {r} /\ Readable(LinesOf(<<r>>)) = {r}
  <1>1. <<r>> \in Seq(Rows) /\ Increasing(<<r>>) /\ Members(<<r>>) = {r}
    BY DEF Increasing, Members
  <1> QED BY <1>1, LinesContent, LinesFacts

-----------------------------------------------------------------------------
(* The state of the ledger.                                                *)

Ledgers == [open : BOOLEAN, buffer : Seq(Bytes), pending : Seq(Rows), bytes : Nat,
            rotation : {"none", "ending", "cleaning"}, closed : BOOLEAN, healthy : BOOLEAN]

Clocks == [day : Nat, rows : Nat, faults : Nat, renamed : Nat]

LedgerTypes ==
    /\ clock \in Clocks /\ clock.rows <= MaxRows
    /\ ledger \in Ledgers
    /\ live \in LiveFiles \cup {NoLog}
    /\ archives \in SUBSET Archives /\ IsFiniteSet(archives)

\* A destroyed stream holds nothing and has been reported; rows wait in the
\* queue only for a rotation, and none is under way once the ledger is closed.
LedgerShape ==
    /\ ~ ledger.open => ledger.buffer = <<>> /\ ~ ledger.healthy
    /\ ledger.rotation # "ending" => ledger.pending = <<>>
    /\ ledger.closed => ledger.rotation = "none"

\* Names, inodes and dates tell the files apart, and a clean-up takes the oldest.
FilesTold ==
    /\ \A f, g \in archives : f.ino = g.ino \/ f.name = g.name => f = g
    /\ \A f, g \in archives : f.name < g.name => f.day <= g.day
    /\ \A f \in archives : f.name <= clock.renamed /\ f.day <= clock.day
    /\ live # NoLog => /\ live.day <= clock.day
                       /\ \A f \in archives : f.ino # live.ino /\ f.day <= live.day

CleanupOldest ==
    cleanup # NoCleanup =>
        /\ cleanup \subseteq {f.ino : f \in archives}
        /\ \A f, g \in archives : f.name < g.name /\ g.ino \in cleanup => f.ino \in cleanup

\* Every row is in one place, and the places are in the order of the rows: files
\* as, what is written to the current one s, a queue q, and n the next row.
Placed(as, s, q, n) ==
    /\ \A f \in as : Ascending(f.bytes) /\ Precede(Held(f.bytes), Held(s) \cup Members(q) \cup {n})
    /\ \A f, g \in as : f.name < g.name => Precede(Held(f.bytes), Held(g.bytes))
    /\ Ascending(s) /\ Increasing(q)
    /\ Precede(Held(s), Members(q) \cup {n}) /\ Precede(Members(q), {n})

RowsPlaced == Placed(archives, Stream, ledger.pending, NextRow)

LedgerInv == LedgerTypes /\ LedgerShape /\ FilesTold /\ CleanupOldest /\ RowsPlaced

(* A free inode is one that no file has. *)
LEMMA FreeInodeFree ==
  ASSUME LedgerTypes
  PROVE  FreeInode \in Nat \ {0} /\ FreeInode \notin Used
  <1> DEFINE n == Cardinality(Used)
             Free == (1 .. n + 1) \ Used
  <1>1. IsFiniteSet(Used) /\ n \in Nat
    <2>1. IsFiniteSet(Files)
      BY FS_AddElement, FS_EmptySet, FS_Union, FS_Singleton DEF LedgerTypes, Files
    <2>2. Used = {f.ino : f \in Files}
      BY DEF Used
    <2> DEFINE inode == [f \in Files |-> f.ino]
    <2>3. inode \in Surjection(Files, Used)
      BY <2>2 DEF Surjection
    <2> QED BY <2>1, <2>3, FS_Surjection, FS_CardinalityType
  <1>2. Free # {}
    <2> SUFFICES ASSUME Free = {}
                 PROVE  FALSE
      OBVIOUS
    <2>1. 1 .. n + 1 \subseteq Used
      OBVIOUS
    <2>2. Cardinality(1 .. n + 1) = n + 1
      BY <1>1, FS_Interval
    <2>3. Cardinality(1 .. n + 1) <= n
      BY <1>1, <2>1, FS_Subset
    <2> QED BY <1>1, <2>2, <2>3
  <1>3. Free \in SUBSET Nat
    BY <1>1
  <1>4. PICK i \in Free : \A j \in Free : i <= j
    BY <1>2, <1>3, NatMinimum
  <1>5. i \in 1 .. n + 1 /\ i \notin Used /\ \A j \in 1 .. (i - 1) : j \in Used
    BY <1>1, <1>4
  <1>6. FreeInode \in 1 .. n + 1 /\ FreeInode \notin Used
    BY <1>5 DEF FreeInode
  <1> QED BY <1>1, <1>6

-----------------------------------------------------------------------------
(* What the steps of the ledger do to the places of the rows.              *)

(* Nobody holds anything in an empty file or queue. *)
LEMMA NothingHeld ==
  /\ <<>> \in Seq(Bytes) /\ <<>> \in Seq(Rows)
  /\ Held(<<>>) = {} /\ Members(<<>>) = {} /\ Readable(<<>>) = {}
  /\ Ascending(<<>>) /\ Increasing(<<>>) /\ LinesOf(<<>>) = <<>>
  BY DEF Held, Members, Readable, Ascending, Increasing, LinesOf

(* Concatenation is associative. *)
LEMMA BytesAssociate ==
  ASSUME NEW a \in Seq(Bytes), NEW b \in Seq(Bytes), NEW c \in Seq(Bytes)
  PROVE  a \o (b \o c) = (a \o b) \o c
  OBVIOUS

(* What comes first in the one goes to the end of the other. *)
LEMMA HeadMoves ==
  ASSUME NEW a \in Seq(Bytes), NEW b \in Seq(Bytes), b # <<>>
  PROVE  Append(a, Head(b)) \o Tail(b) = a \o b
  <1> DEFINE h == <<Head(b)>>
             t == Tail(b)
  <1>1. h \in Seq(Bytes) /\ t \in Seq(Bytes) /\ b = h \o t /\ Append(a, Head(b)) = a \o h
    OBVIOUS
  <1>2. Append(a, Head(b)) \o Tail(b) = (a \o h) \o t
    BY <1>1
  <1> HIDE DEF h, t
  <1>3. (a \o h) \o t = a \o (h \o t)
    BY <1>1, BytesAssociate
  <1>4. a \o (h \o t) = a \o b
    BY <1>1
  <1> QED BY <1>2, <1>3, <1>4

(* Rows are numbers. *)
LEMMA RowsAreNumbers ==
  /\ Rows \subseteq Nat
  /\ \A s \in Seq(Bytes) : Held(s) \subseteq Nat
  /\ \A q \in Seq(Rows) : Members(q) \subseteq Nat
  /\ \A f \in Archives : f.bytes \in Seq(Bytes) /\ f.name \in Nat /\ Held(f.bytes) \subseteq Nat
  <1>1. Rows \subseteq Nat
    BY LedgerAssumption DEF Rows
  <1>2. ASSUME NEW s \in Seq(Bytes)
        PROVE  Held(s) \subseteq Nat
    BY <1>1, ReadableFacts
  <1>3. ASSUME NEW q \in Seq(Rows)
        PROVE  Members(q) \subseteq Nat
    BY <1>1, LinesContent
  <1>4. ASSUME NEW f \in Archives
        PROVE  f.bytes \in Seq(Bytes) /\ f.name \in Nat
    BY DEF Archives
  <1> QED BY <1>1, <1>2, <1>3, <1>4

(* What is before a row is before the next one. *)
LEMMA PrecedeNext ==
  ASSUME NEW A, A \subseteq Nat, NEW B, NEW n \in Nat, Precede(A, B \cup {n})
  PROVE  Precede(A, B) /\ Precede(A, {n + 1}) /\ Precede(A, B \cup {n + 1})
         /\ Precede(A, B \cup {n} \cup {n + 1})
  <1>1. ASSUME NEW a \in A
        PROVE  a \in Nat /\ a < n /\ \A b \in B : a < b
    <2>1. n \in B \cup {n} /\ \A b \in B : b \in B \cup {n}
      OBVIOUS
    <2> QED BY <2>1 DEF Precede
  <1>2. \A a \in A : a < n + 1
    BY <1>1
  <1> QED BY <1>1, <1>2 DEF Precede

(* A row that is not written anywhere. *)
LEMMA PlacedLost ==
  ASSUME NEW as \in SUBSET Archives, NEW s \in Seq(Bytes), NEW q \in Seq(Rows), NEW n \in Nat,
         Placed(as, s, q, n)
  PROVE  Placed(as, s, q, n + 1)
  <1>1. \A f \in as : Held(f.bytes) \subseteq Nat
    BY RowsAreNumbers
  <1>2. Held(s) \subseteq Nat /\ Members(q) \subseteq Nat
    BY RowsAreNumbers
  <1>3. \A f \in as : Precede(Held(f.bytes), Held(s) \cup Members(q) \cup {n + 1})
    BY <1>1, PrecedeNext DEF Placed
  <1>4. Precede(Held(s), Members(q) \cup {n + 1}) /\ Precede(Members(q), {n + 1})
    BY <1>2, PrecedeNext DEF Placed, Precede
  <1> QED BY <1>3, <1>4 DEF Placed

(* One more row waits. *)
LEMMA QueueGrows ==
  ASSUME NEW q \in Seq(Rows), NEW n \in Rows
  PROVE  /\ Append(q, n) \in Seq(Rows) /\ Members(Append(q, n)) = Members(q) \cup {n}
         /\ DOMAIN q = 1 .. Len(q) /\ DOMAIN Append(q, n) = 1 .. Len(q) + 1 /\ Len(q) \in Nat
         /\ Append(q, n)[Len(q) + 1] = n
         /\ \A i \in 1 .. Len(q) : Append(q, n)[i] = q[i]
  <1>1. /\ Append(q, n) \in Seq(Rows) /\ DOMAIN q = 1 .. Len(q) /\ Len(q) \in Nat
        /\ DOMAIN Append(q, n) = 1 .. Len(q) + 1
        /\ Append(q, n)[Len(q) + 1] = n
        /\ \A i \in 1 .. Len(q) : Append(q, n)[i] = q[i]
    OBVIOUS
  <1> QED BY <1>1 DEF Members

(* A row that waits. *)
LEMMA PlacedQueued ==
  ASSUME NEW as \in SUBSET Archives, NEW s \in Seq(Bytes), NEW q \in Seq(Rows), NEW n \in Rows,
         Placed(as, s, q, n)
  PROVE  Placed(as, s, Append(q, n), n + 1)
  <1>1. /\ DOMAIN q = 1 .. Len(q) /\ Len(q) \in Nat
        /\ DOMAIN Append(q, n) = 1 .. Len(q) + 1
        /\ Append(q, n)[Len(q) + 1] = n
        /\ \A i \in 1 .. Len(q) : Append(q, n)[i] = q[i]
    BY QueueGrows
  <1>2. Members(Append(q, n)) = Members(q) \cup {n}
    BY QueueGrows
  <1>3. Increasing(Append(q, n))
    BY <1>1 DEF Placed, Increasing, Precede, Members
  <1>4. \A f \in as : Held(f.bytes) \subseteq Nat
    BY RowsAreNumbers
  <1>5. Held(s) \subseteq Nat /\ Members(q) \subseteq Nat /\ n \in Nat
    BY RowsAreNumbers
  <1>6. \A f \in as : Precede(Held(f.bytes), Held(s) \cup (Members(q) \cup {n}) \cup {n + 1})
    <2>1. \A f \in as : Precede(Held(f.bytes), (Held(s) \cup Members(q)) \cup {n} \cup {n + 1})
      BY <1>4, <1>5, PrecedeNext DEF Placed
    <2> QED BY <2>1
  <1>7. Precede(Held(s), (Members(q) \cup {n}) \cup {n + 1})
    BY <1>5, PrecedeNext DEF Placed, Precede
  <1>8. Precede(Members(q) \cup {n}, {n + 1})
    BY <1>5, PrecedeNext DEF Placed, Precede
  <1> QED BY <1>1, <1>2, <1>3, <1>6, <1>7, <1>8 DEF Placed

(* A row that is written. *)
LEMMA PlacedWritten ==
  ASSUME NEW as \in SUBSET Archives, NEW s \in Seq(Bytes), NEW n \in Rows,
         Placed(as, s, <<>>, n)
  PROVE  Placed(as, s \o LinesOf(<<n>>), <<>>, n + 1)
  <1> DEFINE t == s \o LinesOf(<<n>>)
  <1>1. Precede(Held(s), Held(LinesOf(<<n>>)))
    BY LineOfOne DEF Placed, Precede
  <1>2. Ascending(t) /\ Held(t) = Held(s) \cup {n}
    BY <1>1, LineOfOne, HeldConcat, AscendingConcat DEF Placed
  <1>4. \A f \in as : Held(f.bytes) \subseteq Nat
    BY RowsAreNumbers
  <1>5. Held(s) \subseteq Nat /\ n \in Nat
    BY RowsAreNumbers
  <1> HIDE DEF t
  <1>6. \A f \in as : Precede(Held(f.bytes), Held(t) \cup {} \cup {n + 1})
    <2>1. \A f \in as : Precede(Held(f.bytes), (Held(s) \cup Members(<<>>)) \cup {n} \cup {n + 1})
      BY <1>4, <1>5, PrecedeNext DEF Placed
    <2>2. Held(t) \cup {} \cup {n + 1} = (Held(s) \cup Members(<<>>)) \cup {n} \cup {n + 1}
      BY <1>2, NothingHeld
    <2> QED BY <2>1, <2>2
  <1>7. Precede(Held(t), {} \cup {n + 1})
    <2>1. Precede(Held(s), Members(<<>>) \cup {n + 1})
      BY <1>5, PrecedeNext DEF Placed
    <2>2. n < n + 1
      BY <1>5
    <2> QED BY <1>2, <2>1, <2>2, NothingHeld DEF Precede
  <1>8. Precede({}, {n + 1})
    BY DEF Precede
  <1>9. Placed(as, t, <<>>, n + 1)
    BY <1>2, <1>6, <1>7, <1>8, NothingHeld DEF Placed
  <1> QED BY <1>9 DEF t

(* What was to be written, or waited, is lost. *)
LEMMA PlacedDropped ==
  ASSUME NEW as \in SUBSET Archives, NEW s \in Seq(Bytes), NEW t \in Seq(Bytes),
         NEW q \in Seq(Rows), NEW n \in Nat,
         Placed(as, s \o t, q, n)
  PROVE  Placed(as, s, q, n) /\ Placed(as, s, <<>>, n)
  <1>1. Ascending(s) /\ Held(s) \subseteq Held(s \o t)
    BY AscendingParts, HeldConcat DEF Placed
  <1> QED BY <1>1, NothingHeld DEF Placed, Precede

(* What waited is written. *)
LEMMA PlacedFlushed ==
  ASSUME NEW as \in SUBSET Archives, NEW s \in Seq(Bytes), NEW q \in Seq(Rows), NEW n \in Nat,
         Placed(as, s, q, n)
  PROVE  /\ s \o LinesOf(q) \in Seq(Bytes)
         /\ Placed(as, s \o LinesOf(q), <<>>, n)
  <1> DEFINE t == s \o LinesOf(q)
  <1>1. LinesOf(q) \in Seq(Bytes) /\ Held(LinesOf(q)) = Members(q) /\ Ascending(LinesOf(q))
    BY LinesFacts, LinesContent DEF Placed
  <1>2. Precede(Held(s), Held(LinesOf(q)))
    BY <1>1 DEF Placed, Precede
  <1>3. t \in Seq(Bytes) /\ Ascending(t) /\ Held(t) = Held(s) \cup Members(q)
    BY <1>1, <1>2, HeldConcat, AscendingConcat DEF Placed
  <1> HIDE DEF t
  <1>4. Placed(as, t, <<>>, n)
    BY <1>3, NothingHeld DEF Placed, Precede
  <1> QED BY <1>3, <1>4 DEF t

(* What is written becomes the last of the files, and what waited comes after. *)
LEMMA PlacedRenamed ==
  ASSUME NEW as \in SUBSET Archives, NEW s \in Seq(Bytes), NEW q \in Seq(Rows), NEW n \in Nat,
         Placed(as, s, q, n),
         NEW last \in Archives, last.bytes = s, \A f \in as : f.name < last.name
  PROVE  Placed(as \cup {last}, LinesOf(q), <<>>, n)
  <1> DEFINE bs == as \cup {last}
             t == LinesOf(q)
  <1>1. t \in Seq(Bytes) /\ Held(t) = Members(q) /\ Ascending(t)
    BY LinesFacts, LinesContent DEF Placed
  <1>2. \A f \in bs : Ascending(f.bytes) /\ Precede(Held(f.bytes), Held(t) \cup {n})
    BY <1>1 DEF Placed, Precede
  <1>3. ASSUME NEW f \in bs, NEW g \in bs, f.name < g.name
        PROVE  Precede(Held(f.bytes), Held(g.bytes))
    <2>1. CASE g \in as /\ f \in as
      BY <1>3, <2>1 DEF Placed
    <2>2. CASE g = last /\ f \in as
      BY <2>2 DEF Placed, Precede
    <2>3. CASE f = last
      <3>1. f.name \in Nat /\ g.name \in Nat
        BY RowsAreNumbers
      <3>2. g = last \/ g.name < f.name
        BY <2>3
      <3> QED BY <1>3, <2>3, <3>1, <3>2
    <2> QED BY <2>1, <2>2, <2>3
  <1>4. Precede(Held(t), {n})
    BY <1>1 DEF Placed, Precede
  <1> HIDE DEF bs, t
  <1>5. Placed(bs, t, <<>>, n)
    BY <1>1, <1>2, <1>3, <1>4, NothingHeld DEF Placed, Precede
  <1> QED BY <1>5 DEF bs, t

(* Some of the files go. *)
LEMMA PlacedRemoved ==
  ASSUME NEW as, NEW bs, bs \subseteq as, NEW s, NEW q, NEW n, Placed(as, s, q, n)
  PROVE  Placed(bs, s, q, n)
  BY DEF Placed

-----------------------------------------------------------------------------
(* The steps of the ledger.                                                *)

(* writeLine leaves the rest of the ledger as it is. *)
LEMMA WrittenFacts ==
  ASSUME NEW l \in Ledgers, NEW rs \in Seq(Rows)
  PROVE  /\ Written(l, rs) \in Ledgers
         /\ Written(l, rs).open = l.open /\ Written(l, rs).pending = l.pending
         /\ Written(l, rs).rotation = l.rotation /\ Written(l, rs).closed = l.closed
         /\ Written(l, rs).buffer = IF l.open THEN l.buffer \o LinesOf(rs) ELSE l.buffer
         /\ Written(l, rs).healthy <=> l.healthy /\ (l.open \/ rs = <<>>)
  <1>1. /\ LinesOf(rs) \in Seq(Bytes) /\ l.bytes + 2 * Len(rs) \in Nat
        /\ (l.healthy /\ (l.open \/ rs = <<>>)) \in BOOLEAN
    BY LinesFacts DEF Ledgers
  <1>2. l.buffer \in Seq(Bytes) /\ l.buffer \o LinesOf(rs) \in Seq(Bytes)
    BY <1>1 DEF Ledgers
  <1>3. Written(l, rs) = [l EXCEPT !.bytes = l.bytes + 2 * Len(rs),
                                   !.buffer = IF l.open THEN l.buffer \o LinesOf(rs) ELSE l.buffer,
                                   !.healthy = l.healthy /\ (l.open \/ rs = <<>>)]
    BY DEF Written
  <1> QED BY <1>1, <1>2, <1>3 DEF Ledgers

(* rotateNow up to its first await only says that a rotation is under way. *)
LEMMA RotatingFacts ==
  ASSUME NEW l \in Ledgers
  PROVE  /\ Rotating(l) \in Ledgers
         /\ Rotating(l).open = l.open /\ Rotating(l).pending = l.pending
         /\ Rotating(l).closed = l.closed /\ Rotating(l).buffer = l.buffer
         /\ Rotating(l).healthy = l.healthy
         /\ Rotating(l).rotation # "ending" => l.rotation # "ending"
         /\ l.closed => Rotating(l).rotation = l.rotation
  BY DEF Rotating, Ledgers

\* What a step that is none of the host leaves alone.
FilesKept == archives' = archives /\ live' = live /\ cleanup' = cleanup

(* What the memory of the ledger is made of. *)
LEMMA LedgerParts ==
  ASSUME LedgerTypes
  PROVE  /\ ledger.buffer \in Seq(Bytes) /\ ledger.pending \in Seq(Rows)
         /\ LiveBytes \in Seq(Bytes) /\ Stream \in Seq(Bytes)
         /\ clock.rows \in Nat /\ NextRow \in Nat
         /\ Queued = Members(ledger.pending)
         /\ archives \in SUBSET Archives
  BY DEF LedgerTypes, Ledgers, LiveBytes, LiveFiles, Stream, Clocks, NextRow, Queued, Members

(* An append writes the row to the stream, or has it wait, or loses it because *)
(* the stream has been destroyed, which has been reported before.              *)
LEMMA AppendFacts ==
  ASSUME LedgerInv, AppendRow
  PROVE  /\ FilesKept /\ NextRow \in Rows
         /\ clock' \in Clocks /\ clock' = [clock EXCEPT !.rows = NextRow] /\ clock'.rows <= MaxRows
         /\ ledger' \in Ledgers /\ LedgerShape'
         /\ ledger'.open = ledger.open /\ ledger'.healthy = ledger.healthy
         /\ \/ /\ ledger'.pending = Append(ledger.pending, NextRow)
               /\ ledger'.buffer = ledger.buffer
            \/ /\ ledger.pending = <<>> /\ ledger'.pending = <<>>
               /\ ledger'.buffer = ledger.buffer \o LinesOf(<<NextRow>>)
            \/ ledger'.pending = ledger.pending /\ ledger'.buffer = ledger.buffer
  <1>1. /\ FilesKept /\ NextRow \in Rows
        /\ clock' \in Clocks /\ clock' = [clock EXCEPT !.rows = NextRow] /\ clock'.rows <= MaxRows
    BY LedgerAssumption DEF LedgerInv, LedgerTypes, AppendRow, FilesKept, NextRow, Rows, Clocks
  <1>2. ledger \in Ledgers /\ ledger.pending \in Seq(Rows) /\ ~ ledger.closed
    BY LedgerParts DEF LedgerInv, LedgerTypes, AppendRow
  <1>3. CASE ledger.rotation = "ending"
    <2>1. ledger' = [ledger EXCEPT !.pending = Append(ledger.pending, NextRow)]
      BY <1>3 DEF AppendRow
    <2>2. Append(ledger.pending, NextRow) \in Seq(Rows)
      BY <1>1, <1>2
    <2> QED BY <1>1, <1>2, <1>3, <2>1, <2>2 DEF LedgerInv, LedgerShape, Ledgers
  <1>4. CASE ledger.rotation # "ending"
    <2> DEFINE l == Written(ledger, <<NextRow>>)
    <2>1. <<NextRow>> \in Seq(Rows) /\ <<NextRow>> # <<>>
      BY <1>1
    <2>2. /\ l \in Ledgers /\ l.open = ledger.open /\ l.pending = ledger.pending
          /\ l.rotation = ledger.rotation /\ l.closed = ledger.closed
          /\ l.buffer = IF ledger.open THEN ledger.buffer \o LinesOf(<<NextRow>>) ELSE ledger.buffer
          /\ l.healthy <=> ledger.healthy /\ (ledger.open \/ <<NextRow>> = <<>>)
      BY <1>2, <2>1, WrittenFacts
    <2>3. ledger' = l \/ ledger' = Rotating(l)
      BY <1>4 DEF AppendRow
    <2>4. ledger.pending = <<>> /\ (~ ledger.open => ledger.buffer = <<>> /\ ~ ledger.healthy)
      BY <1>4 DEF LedgerInv, LedgerShape
    <2> HIDE DEF l
    <2>5. /\ ledger' \in Ledgers /\ ledger'.open = ledger.open /\ ledger'.pending = <<>>
          /\ ledger'.closed = ledger.closed /\ ledger'.buffer = l.buffer
          /\ ledger'.healthy = l.healthy
      BY <2>2, <2>3, <2>4, RotatingFacts
    <2>6. l.healthy \in BOOLEAN /\ ledger.healthy \in BOOLEAN
      BY <1>2, <2>2 DEF Ledgers
    <2>7. ledger'.healthy = ledger.healthy
      BY <2>1, <2>2, <2>4, <2>5, <2>6
    <2> QED BY <1>1, <1>2, <2>2, <2>4, <2>5, <2>7 DEF LedgerShape
  <1> QED BY <1>3, <1>4

(* The stream gets a file, which changes nothing of what is to be found.   *)
LEMMA OpenedFacts ==
  ASSUME LedgerTypes
  PROVE  /\ Opened(live) \in LiveFiles /\ Opened(live).bytes = LiveBytes
         /\ live # NoLog => Opened(live) = live
         /\ live = NoLog => Opened(live).day = clock.day /\ Opened(live).ino = FreeInode
                            /\ \A f \in archives : f.ino # Opened(live).ino
  <1>1. CASE live = NoLog
    <2>1. Opened(live) = [ino |-> FreeInode, bytes |-> <<>>, day |-> clock.day]
      BY <1>1 DEF Opened
    <2>2. \A f \in archives : f.ino # FreeInode
      BY FreeInodeFree DEF Used, Files
    <2> QED BY <1>1, <2>1, <2>2, FreeInodeFree DEF LiveFiles, LiveBytes, LedgerTypes, Clocks
  <1>2. CASE live # NoLog
    BY <1>2 DEF Opened, LiveBytes, LedgerTypes
  <1> QED BY <1>1, <1>2

LEMMA AppendKeeps == ASSUME LedgerInv, AppendRow PROVE LedgerInv'
  <1>1. /\ FilesKept /\ NextRow \in Rows
        /\ clock' = [clock EXCEPT !.rows = NextRow]
        /\ clock' \in Clocks /\ clock'.rows <= MaxRows /\ ledger' \in Ledgers /\ LedgerShape'
    BY AppendFacts
  <1>2. /\ archives \in SUBSET Archives /\ Stream \in Seq(Bytes) /\ LiveBytes \in Seq(Bytes)
        /\ ledger.pending \in Seq(Rows) /\ ledger.buffer \in Seq(Bytes)
        /\ Placed(archives, Stream, ledger.pending, NextRow) /\ NextRow \in Nat
    BY LedgerParts DEF LedgerInv, RowsPlaced
  <1>3. LedgerTypes'
    BY <1>1 DEF LedgerInv, LedgerTypes, FilesKept
  <1>4. FilesTold' /\ CleanupOldest'
    <2>1. clock'.day = clock.day /\ clock'.renamed = clock.renamed
      BY <1>1 DEF LedgerInv, LedgerTypes, Clocks
    <2> QED BY <1>1, <2>1 DEF LedgerInv, FilesTold, CleanupOldest, FilesKept
  <1>5. LiveBytes' = LiveBytes /\ NextRow' = NextRow + 1
    BY <1>1 DEF FilesKept, LiveBytes, NextRow, LedgerInv, LedgerTypes, Clocks
  <1>6. Placed(archives, Stream', ledger'.pending, NextRow + 1)
    <2>1. CASE ledger'.pending = Append(ledger.pending, NextRow) /\ ledger'.buffer = ledger.buffer
      <3>1. Stream' = Stream
        BY <1>5, <2>1 DEF Stream
      <3>2. Placed(archives, Stream, Append(ledger.pending, NextRow), NextRow + 1)
        BY <1>1, <1>2, PlacedQueued
      <3> QED BY <2>1, <3>1, <3>2
    <2>2. CASE /\ ledger.pending = <<>> /\ ledger'.pending = <<>>
               /\ ledger'.buffer = ledger.buffer \o LinesOf(<<NextRow>>)
      <3>1. Stream' = Stream \o LinesOf(<<NextRow>>)
        <4>1. LinesOf(<<NextRow>>) \in Seq(Bytes)
          BY <1>1, LineOfOne
        <4>2. Stream' = LiveBytes \o (ledger.buffer \o LinesOf(<<NextRow>>))
          BY <1>5, <2>2 DEF Stream
        <4>3. Stream \o LinesOf(<<NextRow>>) = (LiveBytes \o ledger.buffer) \o LinesOf(<<NextRow>>)
          BY DEF Stream
        <4>4. LiveBytes \o (ledger.buffer \o LinesOf(<<NextRow>>))
                = (LiveBytes \o ledger.buffer) \o LinesOf(<<NextRow>>)
          BY <1>2, <4>1, BytesAssociate
        <4> QED BY <4>2, <4>3, <4>4
      <3>2. Placed(archives, Stream, <<>>, NextRow)
        BY <1>2, <2>2
      <3>3. Placed(archives, Stream \o LinesOf(<<NextRow>>), <<>>, NextRow + 1)
        BY <1>1, <1>2, <3>2, PlacedWritten
      <3> QED BY <2>2, <3>1, <3>3
    <2>3. CASE ledger'.pending = ledger.pending /\ ledger'.buffer = ledger.buffer
      <3>1. Stream' = Stream
        BY <1>5, <2>3 DEF Stream
      <3> QED BY <1>2, <2>3, <3>1, PlacedLost
    <2> QED BY <2>1, <2>2, <2>3, AppendFacts
  <1> QED BY <1>1, <1>3, <1>4, <1>5, <1>6 DEF LedgerInv, RowsPlaced, FilesKept

(* One byte goes from the stream into the file. *)
LEMMA WriteByteFacts ==
  ASSUME LedgerInv, WriteByte
  PROVE  /\ live' \in LiveFiles /\ live'.ino = live.ino /\ live'.day = clock.day
         /\ live'.bytes = Append(LiveBytes, Head(ledger.buffer)) /\ live \in LiveFiles
         /\ LiveBytes' = live'.bytes /\ live' # NoLog /\ live # NoLog
         /\ Head(ledger.buffer) \in Bytes
         /\ ledger' \in Ledgers /\ ledger' = [ledger EXCEPT !.buffer = Tail(ledger.buffer)]
         /\ Stream' = Stream
  <1>1. /\ ledger.buffer \in Seq(Bytes) /\ ledger.buffer # <<>>
        /\ live \in LiveFiles /\ live # NoLog /\ LiveBytes = live.bytes
        /\ clock.day \in Nat /\ ledger \in Ledgers
    BY LedgerParts DEF LedgerInv, LedgerTypes, WriteByte, LiveBytes, Clocks
  <1>2. /\ Head(ledger.buffer) \in Bytes /\ Tail(ledger.buffer) \in Seq(Bytes)
        /\ live.bytes \in Seq(Bytes) /\ Append(live.bytes, Head(ledger.buffer)) \in Seq(Bytes)
    BY <1>1 DEF LiveFiles
  <1>3. /\ live' = [live EXCEPT !.bytes = Append(live.bytes, Head(ledger.buffer)), !.day = clock.day]
        /\ ledger' = [ledger EXCEPT !.buffer = Tail(ledger.buffer)]
    BY DEF WriteByte
  <1>4. /\ live' \in LiveFiles /\ live'.ino = live.ino /\ live'.day = clock.day
        /\ live'.bytes = Append(LiveBytes, Head(ledger.buffer))
        /\ ledger' \in Ledgers /\ ledger'.buffer = Tail(ledger.buffer)
    BY <1>1, <1>2, <1>3 DEF LiveFiles, Ledgers
  <1>5. live' # NoLog /\ LiveBytes' = live'.bytes
    BY <1>4, LedgerAssumption DEF LiveBytes
  <1>6. Append(live.bytes, Head(ledger.buffer)) \o Tail(ledger.buffer) = live.bytes \o ledger.buffer
    BY <1>1, <1>2, HeadMoves
  <1>7. Stream' = Append(live.bytes, Head(ledger.buffer)) \o Tail(ledger.buffer)
        /\ Stream = live.bytes \o ledger.buffer
    BY <1>1, <1>4, <1>5 DEF Stream
  <1>8. Stream' = Stream
    BY <1>6, <1>7
  <1> QED BY <1>1, <1>2, <1>3, <1>4, <1>5, <1>8

LEMMA WriteByteKeeps == ASSUME LedgerInv, WriteByte PROVE LedgerInv'
  <1>1. /\ live' \in LiveFiles /\ live'.ino = live.ino /\ live'.day = clock.day
        /\ live # NoLog /\ Stream' = Stream
        /\ ledger' \in Ledgers /\ ledger' = [ledger EXCEPT !.buffer = Tail(ledger.buffer)]
        /\ archives' = archives /\ cleanup' = cleanup /\ clock' = clock /\ ledger.open
    BY WriteByteFacts DEF WriteByte
  <1>2. LedgerTypes'
    BY <1>1 DEF LedgerInv, LedgerTypes
  <1>3. /\ ledger'.open = ledger.open /\ ledger'.pending = ledger.pending
        /\ ledger'.rotation = ledger.rotation /\ ledger'.closed = ledger.closed
    BY <1>1 DEF LedgerInv, LedgerTypes, Ledgers
  <1>4. LedgerShape'
    BY <1>1, <1>3 DEF LedgerInv, LedgerShape
  <1>5. FilesTold' /\ CleanupOldest'
    BY <1>1 DEF LedgerInv, LedgerTypes, FilesTold, CleanupOldest, Clocks
  <1>6. RowsPlaced'
    BY <1>1, <1>3 DEF LedgerInv, RowsPlaced, NextRow
  <1> QED BY <1>2, <1>4, <1>5, <1>6 DEF LedgerInv

LEMMA WriteFailsKeeps == ASSUME LedgerInv, WriteFails PROVE LedgerInv'
  <1>1. /\ archives' = archives /\ live' = live /\ cleanup' = cleanup
        /\ clock' = [clock EXCEPT !.faults = clock.faults + 1]
        /\ ledger' = [ledger EXCEPT !.open = FALSE, !.buffer = <<>>, !.healthy = FALSE]
    BY DEF WriteFails
  <1>2. /\ clock' \in Clocks /\ clock'.rows = clock.rows /\ clock'.day = clock.day
        /\ clock'.renamed = clock.renamed
    BY <1>1 DEF LedgerInv, LedgerTypes, Clocks
  <1>3. /\ ledger' \in Ledgers /\ ~ ledger'.open /\ ~ ledger'.healthy /\ ledger'.buffer = <<>>
        /\ ledger'.pending = ledger.pending /\ ledger'.rotation = ledger.rotation
        /\ ledger'.closed = ledger.closed
    BY <1>1, NothingHeld DEF LedgerInv, LedgerTypes, Ledgers
  <1>4. LedgerTypes' /\ LedgerShape' /\ FilesTold' /\ CleanupOldest'
    BY <1>1, <1>2, <1>3 DEF LedgerInv, LedgerTypes, LedgerShape, FilesTold, CleanupOldest
  <1>5. Stream' = LiveBytes /\ NextRow' = NextRow
    <2>1. LiveBytes' = LiveBytes /\ LiveBytes \in Seq(Bytes)
      BY <1>1, LedgerParts DEF LiveBytes, LedgerInv
    <2> QED BY <1>2, <1>3, <2>1 DEF Stream, NextRow
  <1>6. RowsPlaced'
    <2>1. Placed(archives, LiveBytes, ledger.pending, NextRow)
      BY LedgerParts, PlacedDropped DEF LedgerInv, RowsPlaced, Stream
    <2> QED BY <1>1, <1>3, <1>5, <2>1 DEF RowsPlaced
  <1> QED BY <1>4, <1>6 DEF LedgerInv

(* A rename that fails, and the end of a rotation, write what had to wait. *)
LEMMA RotatedFacts ==
  ASSUME LedgerInv, Ended, NEW l \in Ledgers, l.open, l.buffer = <<>>,
         l.pending = ledger.pending, NEW phase \in {"none", "cleaning"},
         ledger' = [Written(l, ledger.pending) EXCEPT !.pending = <<>>, !.rotation = phase],
         ledger.closed => phase = "none", l.closed = ledger.closed
  PROVE  /\ ledger' \in Ledgers /\ LedgerShape' /\ ledger.buffer = <<>> /\ Stream = LiveBytes
         /\ ledger'.open /\ ledger'.pending = <<>> /\ ledger'.buffer = LinesOf(ledger.pending)
         /\ ledger'.healthy = l.healthy
  <1>1. ledger.pending \in Seq(Rows) /\ LinesOf(ledger.pending) \in Seq(Bytes)
        /\ LiveBytes \in Seq(Bytes)
    BY LedgerParts, LinesFacts DEF LedgerInv
  <1> DEFINE w == Written(l, ledger.pending)
  <1>2. /\ w \in Ledgers /\ w.open = l.open /\ w.closed = l.closed
        /\ w.buffer = <<>> \o LinesOf(ledger.pending)
        /\ w.healthy <=> l.healthy
    <2>1. /\ w \in Ledgers /\ w.open = l.open /\ w.closed = l.closed
          /\ w.buffer = IF l.open THEN l.buffer \o LinesOf(ledger.pending) ELSE l.buffer
          /\ w.healthy <=> l.healthy /\ (l.open \/ ledger.pending = <<>>)
      BY <1>1, WrittenFacts
    <2> QED BY <2>1
  <1>3. w.buffer = LinesOf(ledger.pending) /\ w.healthy = l.healthy
    BY <1>1, <1>2 DEF Ledgers
  <1> HIDE DEF w
  <1>4. ledger' = [w EXCEPT !.pending = <<>>, !.rotation = phase]
    BY DEF w
  <1>5. /\ ledger' \in Ledgers /\ ledger'.open = w.open /\ ledger'.pending = <<>>
        /\ ledger'.rotation = phase /\ ledger'.buffer = w.buffer /\ ledger'.closed = w.closed
        /\ ledger'.healthy = w.healthy
    BY <1>2, <1>4, NothingHeld DEF Ledgers
  <1>6. LedgerShape'
    BY <1>2, <1>5 DEF LedgerShape
  <1>7. ledger.buffer = <<>>
    BY DEF Ended, LedgerInv, LedgerShape
  <1>8. Stream = LiveBytes
    BY <1>1, <1>7 DEF Stream
  <1> QED BY <1>2, <1>3, <1>5, <1>6, <1>7, <1>8

(* Every file a clean-up takes is younger than none that it leaves. *)
LEMMA DoomedFacts ==
  ASSUME NEW files \in SUBSET Archives, LedgerTypes,
         \A f, g \in files : f.ino = g.ino => f = g,
         \A f, g \in files : f.name < g.name => f.day <= g.day
  PROVE  /\ Doomed(files) \subseteq {f.ino : f \in files}
         /\ \A f, g \in files : f.name < g.name /\ g.ino \in Doomed(files) => f.ino \in Doomed(files)
  <1> DEFINE Later(n) == {f \in files : f.day >= Cutoff /\ f.name > n}
             Goes(f) == \A n \in 0 .. (f.name - 1) : SizeOf(Later(n)) > MaxArchive
             Gone == {f \in files : f.day < Cutoff \/ Goes(f)}
  <1>1. Doomed(files) = {f.ino : f \in Gone}
    BY DEF Doomed
  <1>2. Cutoff \in Nat
    BY LedgerAssumption DEF Cutoff, LedgerTypes, Clocks
  <1>3. ASSUME NEW f \in files, NEW g \in files, f.name < g.name, g \in Gone
        PROVE  f \in Gone
    <2>1. f.day \in Nat /\ g.day \in Nat /\ f.day <= g.day /\ f.name \in Nat /\ g.name \in Nat
      BY <1>3 DEF Archives
    <2>2. CASE g.day < Cutoff
      BY <1>2, <2>1, <2>2
    <2>3. CASE Goes(g)
      <3>1. 0 .. (f.name - 1) \subseteq 0 .. (g.name - 1)
        BY <1>3, <2>1
      <3>2. Goes(f)
        BY <2>3, <3>1
      <3> QED BY <3>2
    <2> QED BY <1>3, <2>2, <2>3
  <1>4. Gone \subseteq files
    OBVIOUS
  <1> HIDE DEF Gone
  <1>5. ASSUME NEW f \in files, NEW g \in files, f.name < g.name, g.ino \in Doomed(files)
        PROVE  f.ino \in Doomed(files)
    <2>1. PICK h \in Gone : h.ino = g.ino
      BY <1>1, <1>5
    <2>2. g \in Gone
      BY <1>4, <2>1
    <2> QED BY <1>1, <1>3, <1>5, <2>2
  <1> QED BY <1>1, <1>4, <1>5

(* A clean-up that is asked for takes the oldest files. *)
LEMMA CleaningFacts ==
  ASSUME NEW files \in SUBSET Archives, LedgerTypes,
         \A f, g \in files : f.ino = g.ino => f = g,
         \A f, g \in files : f.name < g.name => f.day <= g.day,
         cleanup # NoCleanup =>
            /\ cleanup \subseteq {f.ino : f \in files}
            /\ \A f, g \in files : f.name < g.name /\ g.ino \in cleanup => f.ino \in cleanup
  PROVE  /\ Cleaning(files) \subseteq {f.ino : f \in files}
         /\ \A f, g \in files : f.name < g.name /\ g.ino \in Cleaning(files) => f.ino \in Cleaning(files)
  BY DoomedFacts DEF Cleaning

LEMMA OpenFileKeeps == ASSUME LedgerInv, OpenFile PROVE LedgerInv'
  <1>1. /\ live = NoLog /\ live' \in LiveFiles /\ live'.bytes = LiveBytes /\ live'.day = clock.day
        /\ \A f \in archives : f.ino # live'.ino
        /\ archives' = archives /\ ledger' = ledger /\ cleanup' = cleanup /\ clock' = clock
    BY OpenedFacts DEF OpenFile, LedgerInv
  <1>2. LiveBytes' = LiveBytes
    BY <1>1, LedgerAssumption DEF LiveBytes
  <1>3. LedgerTypes' /\ LedgerShape' /\ CleanupOldest'
    BY <1>1 DEF LedgerInv, LedgerTypes, LedgerShape, CleanupOldest
  <1>4. FilesTold'
    BY <1>1 DEF LedgerInv, LedgerTypes, FilesTold, Clocks
  <1>5. RowsPlaced'
    BY <1>1, <1>2 DEF LedgerInv, RowsPlaced, Stream, NextRow
  <1> QED BY <1>3, <1>4, <1>5 DEF LedgerInv

LEMMA RotateFailsKeeps == ASSUME LedgerInv, RotateFails PROVE LedgerInv'
  <1> DEFINE l == [ledger EXCEPT !.open = TRUE, !.bytes = Len(LiveBytes), !.healthy = FALSE]
  <1>1. /\ archives' = archives /\ live' = live /\ cleanup' = cleanup
        /\ clock' = [clock EXCEPT !.faults = clock.faults + 1] /\ Ended
        /\ ledger' = [Written(l, ledger.pending) EXCEPT !.pending = <<>>, !.rotation = "none"]
    BY DEF RotateFails
  <1>2. /\ clock' \in Clocks /\ clock'.rows = clock.rows /\ clock'.day = clock.day
        /\ clock'.renamed = clock.renamed
    BY <1>1 DEF LedgerInv, LedgerTypes, Clocks
  <1>3. /\ l \in Ledgers /\ l.open /\ l.buffer = <<>> /\ l.pending = ledger.pending
        /\ l.closed = ledger.closed
    <2>1. Len(LiveBytes) \in Nat /\ ledger \in Ledgers /\ ledger.buffer = <<>>
      BY <1>1, LedgerParts DEF LedgerInv, LedgerTypes, Ended, LedgerShape
    <2> QED BY <2>1 DEF Ledgers
  <1> HIDE DEF l
  <1>4. /\ ledger' \in Ledgers /\ LedgerShape' /\ Stream = LiveBytes
        /\ ledger'.pending = <<>> /\ ledger'.buffer = LinesOf(ledger.pending)
    BY <1>1, <1>3, RotatedFacts
  <1>5. LedgerTypes' /\ FilesTold' /\ CleanupOldest'
    BY <1>1, <1>2, <1>4 DEF LedgerInv, LedgerTypes, FilesTold, CleanupOldest
  <1>6. Stream' = Stream \o LinesOf(ledger.pending) /\ NextRow' = NextRow
    BY <1>1, <1>2, <1>4 DEF Stream, LiveBytes, NextRow
  <1>7. Placed(archives, Stream \o LinesOf(ledger.pending), <<>>, NextRow)
    BY LedgerParts, PlacedFlushed DEF LedgerInv, RowsPlaced
  <1>8. RowsPlaced'
    BY <1>1, <1>4, <1>6, <1>7 DEF RowsPlaced
  <1> QED BY <1>4, <1>5, <1>8 DEF LedgerInv

LEMMA RotateKeeps == ASSUME LedgerInv, Rotate PROVE LedgerInv'
  <1> DEFINE l == [ledger EXCEPT !.open = TRUE, !.bytes = 0]
             name == clock.renamed + 1
             last == [ino |-> live.ino, bytes |-> live.bytes, day |-> live.day, name |-> name]
             renamed == archives \cup {last}
  <1>1. /\ Ended /\ live \in LiveFiles /\ live # NoLog /\ LiveBytes = live.bytes
        /\ ledger' = [Written(l, ledger.pending) EXCEPT !.pending = <<>>, !.rotation = "cleaning"]
    BY DEF Rotate, Ended, LedgerInv, LedgerTypes, LiveBytes
  <1>2. /\ l \in Ledgers /\ l.open /\ l.buffer = <<>> /\ l.pending = ledger.pending
        /\ l.closed = ledger.closed
    <2>1. ledger \in Ledgers /\ ledger.buffer = <<>>
      BY <1>1 DEF LedgerInv, LedgerTypes, Ended, LedgerShape
    <2> QED BY <2>1 DEF Ledgers
  <1>3. ~ ledger.closed
    BY <1>1 DEF LedgerInv, LedgerShape, Ended
  <1>4. /\ ledger' \in Ledgers /\ LedgerShape' /\ Stream = LiveBytes /\ Stream \in Seq(Bytes)
        /\ ledger'.pending = <<>> /\ ledger'.buffer = LinesOf(ledger.pending)
    <2> HIDE DEF l
    <2> QED BY <1>1, <1>2, <1>3, RotatedFacts, LedgerParts DEF LedgerInv
  <1>5. CASE live.bytes = <<>>
    <2>1. archives' = archives /\ live' = live /\ clock' = clock /\ cleanup' = Cleaning(archives)
      BY <1>5 DEF Rotate
    <2>2. LedgerTypes' /\ FilesTold'
      BY <1>4, <2>1 DEF LedgerInv, LedgerTypes, FilesTold
    <2>3. CleanupOldest'
      BY <2>1, CleaningFacts DEF LedgerInv, LedgerTypes, FilesTold, CleanupOldest
    <2>4. Stream' = Stream \o LinesOf(ledger.pending) /\ NextRow' = NextRow
      BY <1>4, <2>1 DEF Stream, LiveBytes, NextRow
    <2>5. Placed(archives, Stream \o LinesOf(ledger.pending), <<>>, NextRow)
      BY LedgerParts, PlacedFlushed DEF LedgerInv, RowsPlaced
    <2>6. RowsPlaced'
      BY <1>4, <2>1, <2>4, <2>5 DEF RowsPlaced
    <2> QED BY <1>4, <2>2, <2>3, <2>6 DEF LedgerInv
  <1>6. CASE live.bytes # <<>>
    <2>1. /\ archives' = renamed /\ live' = NoLog /\ clock' = [clock EXCEPT !.renamed = name]
          /\ cleanup' = Cleaning(renamed)
      BY <1>6 DEF Rotate
    <2>2. /\ clock' \in Clocks /\ clock'.rows = clock.rows /\ clock'.day = clock.day
          /\ clock'.renamed = clock.renamed + 1 /\ clock.renamed \in Nat
      BY <2>1 DEF LedgerInv, LedgerTypes, Clocks
    <2>3. /\ last \in Archives /\ last.ino = live.ino /\ last.bytes = Stream /\ last.day = live.day
          /\ last.name = name
      BY <1>1, <1>4, <2>2 DEF LiveFiles, Archives
    <2> HIDE DEF last
    <2>4. LedgerTypes'
      BY <1>4, <2>1, <2>2, <2>3, FS_AddElement DEF LedgerInv, LedgerTypes
    <2>5. /\ archives \in SUBSET Archives /\ last.name > clock.renamed
          /\ \A f \in archives : f.name \in Nat /\ f.name <= clock.renamed /\ f.name < last.name
                                 /\ f.ino # last.ino /\ f.day <= last.day
      BY <1>1, <2>2, <2>3 DEF LedgerInv, LedgerTypes, FilesTold, Archives
    <2>6. /\ \A f, g \in renamed : f.ino = g.ino \/ f.name = g.name => f = g
          /\ \A f, g \in renamed : f.name < g.name => f.day <= g.day
      BY <2>2, <2>3, <2>5 DEF LedgerInv, FilesTold
    <2>7. \A f \in renamed : f.name <= clock'.renamed /\ f.day <= clock'.day
      BY <1>1, <2>2, <2>3, <2>5 DEF LedgerInv, FilesTold
    <2>8. FilesTold'
      BY <2>1, <2>6, <2>7 DEF FilesTold
    <2>9. CleanupOldest'
      <3>1. cleanup # NoCleanup =>
              /\ cleanup \subseteq {f.ino : f \in renamed}
              /\ \A f, g \in renamed : f.name < g.name /\ g.ino \in cleanup => f.ino \in cleanup
        <4> SUFFICES ASSUME cleanup # NoCleanup
                     PROVE  /\ cleanup \subseteq {f.ino : f \in renamed}
                            /\ \A f, g \in renamed : f.name < g.name /\ g.ino \in cleanup
                                                     => f.ino \in cleanup
          OBVIOUS
        <4>1. cleanup \subseteq {f.ino : f \in archives}
          BY DEF LedgerInv, CleanupOldest
        <4>2. last.ino \notin cleanup
          BY <2>5, <4>1
        <4>3. ASSUME NEW f \in renamed, NEW g \in renamed, f.name < g.name, g.ino \in cleanup
              PROVE  f.ino \in cleanup
          <5>1. g \in archives
            BY <4>2, <4>3
          <5>2. f # last
            BY <2>2, <2>3, <2>5, <4>3, <5>1
          <5> QED BY <4>3, <5>1, <5>2 DEF LedgerInv, CleanupOldest
        <4> QED BY <4>1, <4>3
      <3>2. renamed \in SUBSET Archives /\ LedgerTypes
        BY <2>3, <2>5 DEF LedgerInv
      <3> QED BY <2>1, <2>6, <3>1, <3>2, CleaningFacts DEF CleanupOldest
    <2>10. Stream' = LinesOf(ledger.pending) /\ NextRow' = NextRow
      BY <1>4, <2>1, <2>2, LedgerParts, LinesFacts DEF Stream, LiveBytes, NextRow, LedgerInv
    <2>11. Placed(renamed, LinesOf(ledger.pending), <<>>, NextRow)
      BY <2>3, <2>5, LedgerParts, PlacedRenamed DEF LedgerInv, RowsPlaced
    <2>12. RowsPlaced'
      BY <1>4, <2>1, <2>10, <2>11 DEF RowsPlaced
    <2> QED BY <1>4, <2>4, <2>8, <2>9, <2>12 DEF LedgerInv
  <1> QED BY <1>5, <1>6

(* The archive a clean-up removes is the oldest it still has to. *)
LEMMA RemoveArchiveFacts ==
  ASSUME LedgerInv, RemoveArchive
  PROVE  \E first \in archives :
            /\ archives' = archives \ {first} /\ cleanup' = cleanup \ {first.ino}
            /\ first.ino \in cleanup /\ cleanup # NoCleanup
            /\ \A f \in archives : ~ (f.name < first.name)
  <1> DEFINE some == {f \in archives : f.ino \in cleanup}
             names == {f.name : f \in some}
  <1>1. /\ cleanup \notin {NoCleanup, {}} /\ cleanup \subseteq {f.ino : f \in archives}
        /\ \A f, g \in archives : f.name < g.name /\ g.ino \in cleanup => f.ino \in cleanup
        /\ archives \in SUBSET Archives
    BY DEF LedgerInv, LedgerTypes, CleanupOldest, RemoveArchive
  <1>2. names # {} /\ names \in SUBSET Nat
    <2>1. PICK i \in cleanup : TRUE
      BY <1>1
    <2>2. PICK f \in archives : f.ino = i
      BY <1>1, <2>1
    <2>3. \A g \in some : g.name \in Nat
      BY <1>1 DEF Archives
    <2> QED BY <2>1, <2>2, <2>3
  <1>3. PICK m \in names : \A k \in names : m <= k
    BY <1>2, NatMinimum
  <1>4. \E f \in some : \A g \in some : f.name <= g.name
    BY <1>3
  <1>5. Oldest(some) \in some /\ \A g \in some : Oldest(some).name <= g.name
    BY <1>4 DEF Oldest
  <1>6. ASSUME NEW f \in archives, f.name < Oldest(some).name
        PROVE  FALSE
    <2>1. f \in some
      BY <1>1, <1>5, <1>6
    <2>2. f.name \in Nat /\ Oldest(some).name \in Nat
      BY <1>1, <1>5 DEF Archives
    <2> QED BY <1>5, <1>6, <2>1, <2>2
  <1>7. archives' = archives \ {Oldest(some)} /\ cleanup' = cleanup \ {Oldest(some).ino}
    BY DEF RemoveArchive
  <1> QED BY <1>1, <1>5, <1>6, <1>7

LEMMA RemoveArchiveKeeps == ASSUME LedgerInv, RemoveArchive PROVE LedgerInv'
  <1>1. PICK first \in archives :
            /\ archives' = archives \ {first} /\ cleanup' = cleanup \ {first.ino}
            /\ first.ino \in cleanup /\ cleanup # NoCleanup
    BY RemoveArchiveFacts
  <1>2. live' = live /\ ledger' = ledger /\ clock' = clock
    BY DEF RemoveArchive
  <1>3. LedgerTypes' /\ LedgerShape' /\ FilesTold'
    BY <1>1, <1>2, FS_RemoveElement DEF LedgerInv, LedgerTypes, LedgerShape, FilesTold
  <1>4. CleanupOldest'
    BY <1>1 DEF LedgerInv, CleanupOldest, FilesTold
  <1>5. RowsPlaced'
    <2>1. Stream' = Stream /\ NextRow' = NextRow /\ archives' \subseteq archives
      BY <1>1, <1>2 DEF Stream, LiveBytes, NextRow
    <2>2. Placed(archives', Stream, ledger.pending, NextRow)
      BY <2>1, PlacedRemoved DEF LedgerInv, RowsPlaced
    <2> QED BY <1>2, <2>1, <2>2 DEF RowsPlaced
  <1> QED BY <1>3, <1>4, <1>5 DEF LedgerInv

LEMMA EndCleanupKeeps == ASSUME LedgerInv, EndCleanup PROVE LedgerInv'
  <1>1. /\ archives' = archives /\ live' = live /\ clock' = clock /\ cleanup' = NoCleanup
        /\ ledger' = [ledger EXCEPT !.rotation = IF ledger.rotation = "cleaning" THEN "none"
                                                                        ELSE ledger.rotation]
    BY DEF EndCleanup
  <1>2. /\ ledger' \in Ledgers /\ LedgerShape'
        /\ ledger'.buffer = ledger.buffer /\ ledger'.pending = ledger.pending
    BY <1>1 DEF LedgerInv, LedgerTypes, LedgerShape, Ledgers
  <1> QED BY <1>1, <1>2 DEF LedgerInv, LedgerTypes, FilesTold, CleanupOldest, RowsPlaced,
                            Stream, LiveBytes, NextRow

LEMMA MaintainKeeps == ASSUME LedgerInv, Maintain PROVE LedgerInv'
  <1>1. archives' = archives /\ live' = live /\ clock' = clock /\ ~ ledger.closed
    BY DEF Maintain
  <1>2. CASE ledger' = ledger /\ cleanup' = Cleaning(archives)
    <2>1. CleanupOldest'
      BY <1>1, <1>2, CleaningFacts DEF LedgerInv, LedgerTypes, FilesTold, CleanupOldest
    <2> QED BY <1>1, <1>2, <2>1 DEF LedgerInv, LedgerTypes, LedgerShape, FilesTold, RowsPlaced,
                                    Stream, LiveBytes, NextRow
  <1>3. CASE ledger' = Rotating(ledger) /\ cleanup' = cleanup
    <2>1. /\ ledger' \in Ledgers /\ ledger'.buffer = ledger.buffer
          /\ ledger'.pending = ledger.pending /\ LedgerShape'
      BY <1>1, <1>3, RotatingFacts DEF LedgerInv, LedgerTypes, LedgerShape
    <2> QED BY <1>1, <1>3, <2>1 DEF LedgerInv, LedgerTypes, FilesTold, CleanupOldest, RowsPlaced,
                                    Stream, LiveBytes, NextRow
  <1> QED BY <1>2, <1>3 DEF Maintain

LEMMA CloseKeeps == ASSUME LedgerInv, Close PROVE LedgerInv'
  <1>1. /\ archives' = archives /\ live' = live /\ clock' = clock /\ cleanup' = cleanup
        /\ ledger' = [ledger EXCEPT !.closed = TRUE] /\ ledger.rotation = "none"
    BY DEF Close
  <1>2. /\ ledger' \in Ledgers /\ LedgerShape'
        /\ ledger'.buffer = ledger.buffer /\ ledger'.pending = ledger.pending
    BY <1>1 DEF LedgerInv, LedgerTypes, LedgerShape, Ledgers
  <1> QED BY <1>1, <1>2 DEF LedgerInv, LedgerTypes, FilesTold, CleanupOldest, RowsPlaced,
                            Stream, LiveBytes, NextRow

\* What a restart does to the clock: nothing, or one more kill.
Restarts == clock' = clock \/ clock' = [clock EXCEPT !.faults = clock.faults + 1]

(* After a restart the ledger has its files, and nothing else. *)
LEMMA RestartFacts ==
  ASSUME LedgerInv, RestartLedger, Restarts
  PROVE  /\ clock' \in Clocks /\ clock'.rows = clock.rows /\ clock'.day = clock.day
         /\ clock'.renamed = clock.renamed
         /\ ledger' \in Ledgers /\ ledger'.open /\ ledger'.pending = <<>> /\ ledger'.buffer = <<>>
         /\ ledger'.rotation = "none" /\ ledger'.healthy = TRUE /\ ~ ledger'.closed
         /\ live' \in LiveFiles /\ LiveBytes' = LiveBytes /\ Stream' = LiveBytes
         /\ live # NoLog => live' = live
         /\ live = NoLog => live'.day = clock.day /\ \A f \in archives : f.ino # live'.ino
         /\ archives' = archives /\ cleanup' = NoCleanup
  <1>1. /\ clock' \in Clocks /\ clock'.rows = clock.rows /\ clock'.day = clock.day
        /\ clock'.renamed = clock.renamed
    BY DEF Restarts, LedgerInv, LedgerTypes, Clocks
  <1>2. LiveBytes \in Seq(Bytes) /\ Len(LiveBytes) \in Nat
    BY LedgerParts DEF LedgerInv
  <1>3. ledger' = FreshLedger(Len(LiveBytes))
    BY DEF RestartLedger
  <1>4. /\ ledger' \in Ledgers /\ ledger'.open /\ ledger'.pending = <<>> /\ ledger'.buffer = <<>>
        /\ ledger'.rotation = "none" /\ ledger'.healthy = TRUE /\ ~ ledger'.closed
    BY <1>2, <1>3, NothingHeld DEF FreshLedger, Ledgers
  <1>5. /\ live' \in LiveFiles /\ live'.bytes = LiveBytes /\ archives' = archives
        /\ live # NoLog => live' = live /\ cleanup' = NoCleanup
        /\ live = NoLog => live'.day = clock.day /\ \A f \in archives : f.ino # live'.ino
    BY OpenedFacts DEF RestartLedger, LedgerInv
  <1>6. LiveBytes' = LiveBytes
    BY <1>5, LedgerAssumption DEF LiveBytes
  <1>7. Stream' = LiveBytes
    BY <1>2, <1>4, <1>6 DEF Stream
  <1> QED BY <1>1, <1>4, <1>5, <1>6, <1>7 DEF RestartLedger

LEMMA RestartLedgerKeeps == ASSUME LedgerInv, RestartLedger, Restarts PROVE LedgerInv'
  <1>1. /\ clock' \in Clocks /\ clock'.rows = clock.rows /\ clock'.day = clock.day
        /\ clock'.renamed = clock.renamed
        /\ ledger' \in Ledgers /\ ledger'.open /\ ledger'.pending = <<>>
        /\ ledger'.rotation = "none" /\ ~ ledger'.closed
        /\ live' \in LiveFiles /\ Stream' = LiveBytes
        /\ live # NoLog => live' = live
        /\ live = NoLog => live'.day = clock.day /\ \A f \in archives : f.ino # live'.ino
        /\ archives' = archives /\ cleanup' = NoCleanup
    BY RestartFacts
  <1>2. LedgerTypes' /\ LedgerShape' /\ CleanupOldest'
    BY <1>1 DEF LedgerInv, LedgerTypes, LedgerShape, CleanupOldest
  <1>3. FilesTold'
    BY <1>1 DEF LedgerInv, LedgerTypes, FilesTold, Clocks
  <1>4. Placed(archives, LiveBytes, <<>>, NextRow)
    BY LedgerParts, PlacedDropped DEF LedgerInv, RowsPlaced, Stream
  <1>5. RowsPlaced'
    BY <1>1, <1>4 DEF RowsPlaced, NextRow
  <1> QED BY <1>2, <1>3, <1>5 DEF LedgerInv

LEMMA MidnightKeeps == ASSUME LedgerInv, Midnight PROVE LedgerInv'
  <1>1. /\ archives' = archives /\ live' = live /\ ledger' = ledger /\ cleanup' = cleanup
        /\ clock' = [clock EXCEPT !.day = clock.day + 1]
    BY DEF Midnight
  <1>2. /\ clock' \in Clocks /\ clock'.rows = clock.rows /\ clock'.renamed = clock.renamed
        /\ clock'.day = clock.day + 1 /\ clock.day \in Nat
    BY <1>1 DEF LedgerInv, LedgerTypes, Clocks
  <1>3. /\ \A f \in archives : f.day \in Nat
        /\ live # NoLog => live.day \in Nat
    BY DEF LedgerInv, LedgerTypes, Archives, LiveFiles
  <1>4. FilesTold'
    BY <1>1, <1>2, <1>3 DEF LedgerInv, FilesTold
  <1> QED BY <1>1, <1>2, <1>4 DEF LedgerInv, LedgerTypes, LedgerShape, CleanupOldest, RowsPlaced,
                            Stream, LiveBytes, NextRow

LEMMA LedgerBegins == InitLedger => LedgerInv
  <1> SUFFICES ASSUME InitLedger PROVE LedgerInv
    OBVIOUS
  <1>1. /\ archives = {} /\ live = [ino |-> 1, bytes |-> <<>>, day |-> 1]
        /\ ledger = FreshLedger(0) /\ cleanup = NoCleanup
        /\ clock = [day |-> 1, rows |-> 0, faults |-> 0, renamed |-> 0]
    BY DEF InitLedger
  <1>2. live \in LiveFiles /\ live # NoLog /\ LiveBytes = <<>>
    <2>1. live \in LiveFiles /\ live.bytes = <<>>
      BY <1>1, NothingHeld DEF LiveFiles
    <2> QED BY <2>1, LedgerAssumption DEF LiveBytes
  <1>3. /\ ledger \in Ledgers /\ ledger.open /\ ledger.pending = <<>> /\ ledger.buffer = <<>>
        /\ ~ ledger.closed
    BY <1>1, NothingHeld DEF FreshLedger, Ledgers
  <1>4. LedgerTypes
    BY <1>1, <1>2, <1>3, FS_EmptySet, LedgerAssumption DEF LedgerTypes, Clocks
  <1>5. LedgerShape /\ FilesTold /\ CleanupOldest
    BY <1>1, <1>3 DEF LedgerShape, FilesTold, CleanupOldest
  <1>6. Stream = <<>>
    BY <1>2, <1>3 DEF Stream
  <1>7. RowsPlaced
    BY <1>1, <1>3, <1>6, NothingHeld DEF RowsPlaced, Placed, Precede
  <1> QED BY <1>4, <1>5, <1>7 DEF LedgerInv

-----------------------------------------------------------------------------

\* A step of the readers.
ReaderSteps == SyncList \/ SyncStat \/ SyncRead \/ SyncEnd \/ ScanList \/ ScanRead \/ ScanEnd

\* A step of the ledger or of its host.
LedgerSteps ==
    \/ AppendRow \/ WriteByte \/ WriteFails \/ RotateFails \/ EndCleanup \/ Maintain \/ Close
    \/ OpenFile \/ Rotate \/ RemoveArchive \/ Midnight \/ (RestartLedger /\ Restarts)

ledgerVars == <<archives, live, ledger, cleanup, clock>>

LEMMA StepsOfTheLedger ==
  ASSUME [HistoryNext]_historyVars
  PROVE  LedgerSteps \/ UNCHANGED ledgerVars
  <1>1. CASE UNCHANGED historyVars
    BY <1>1 DEF historyVars, ledgerVars
  <1>2. CASE ReaderSteps
    BY <1>2 DEF ReaderSteps, SyncList, SyncStat, SyncRead, SyncEnd, ScanList, ScanRead, ScanEnd,
                ledgerVars
  <1>3. CASE Restart
    BY <1>3 DEF Restart, Restarts, LedgerSteps
  <1>4. CASE Use \/ LedgerWrites \/ FileOpens \/ FileMoves \/ FileGoes \/ DayPasses
    BY <1>4 DEF Use, LedgerWrites, FileOpens, FileMoves, FileGoes, DayPasses, LedgerSteps
  <1> QED BY <1>1, <1>2, <1>3, <1>4 DEF HistoryNext, ReaderSteps

LEMMA LedgerKept ==
  ASSUME LedgerInv, LedgerSteps \/ UNCHANGED ledgerVars
  PROVE  LedgerInv'
  <1>1. CASE UNCHANGED ledgerVars
    BY <1>1 DEF ledgerVars, LedgerInv, LedgerTypes, LedgerShape, FilesTold, CleanupOldest, RowsPlaced,
                Stream, LiveBytes, NextRow
  <1>2. CASE LedgerSteps
    BY <1>2, AppendKeeps, WriteByteKeeps, WriteFailsKeeps, RotateFailsKeeps, EndCleanupKeeps,
       MaintainKeeps, CloseKeeps, OpenFileKeeps, RotateKeeps, RemoveArchiveKeeps, MidnightKeeps,
       RestartLedgerKeeps DEF LedgerSteps
  <1> QED BY <1>1, <1>2

(* Every row usage-ledger.mjs still has is in one place, an archive,       *)
(* usage.log, the buffer of the stream or the queue of a rotation under    *)
(* way, the places are in the order of the appends, and a clean-up has only *)
(* the oldest archives left to remove, whatever rotations (rotateNow),     *)
(* clean-ups, failed writes and renames, kills and restarts come between.  *)
THEOREM LedgerInvariant == HistorySpec => []LedgerInv
  <1>1. HistoryInit => LedgerInv
    BY LedgerBegins DEF HistoryInit
  <1>2. LedgerInv /\ [HistoryNext]_historyVars => LedgerInv'
    BY StepsOfTheLedger, LedgerKept
  <1> QED BY <1>1, <1>2, PTL DEF HistorySpec

-----------------------------------------------------------------------------
(* The ledger implements the log it promises.                              *)

\* What the files, the stream and the queue hold, in their order.
RowsOrdered ==
    /\ InOrder = TRUE
    /\ LogRows = ArchiveRows \cup Readable(Stream) \cup Members(ledger.pending)
    /\ LogRows \subseteq Rows /\ \A r \in LogRows : r < NextRow
    /\ \A f \in archives : Readable(f.bytes) \subseteq Held(f.bytes)
    /\ Readable(Stream) \subseteq Held(Stream)
    /\ \A q \in ArchiveRows, r \in Held(Stream) \cup Members(ledger.pending) : q < r
    /\ \A q \in Readable(Stream), r \in Members(ledger.pending) : q < r

LEMMA RowsInOrder == LedgerInv => RowsOrdered
  <1> SUFFICES ASSUME LedgerInv
               PROVE  RowsOrdered
    OBVIOUS
  <1>1. /\ archives \in SUBSET Archives /\ Stream \in Seq(Bytes) /\ ledger.pending \in Seq(Rows)
        /\ Queued = Members(ledger.pending)
        /\ Placed(archives, Stream, ledger.pending, NextRow)
    BY LedgerParts DEF LedgerInv, RowsPlaced
  <1>2. \A f \in archives : Readable(f.bytes) \subseteq Held(f.bytes) /\ Sorted(f.bytes)
                            /\ Held(f.bytes) \subseteq Rows
    <2> SUFFICES ASSUME NEW f \in archives
                 PROVE  Readable(f.bytes) \subseteq Held(f.bytes) /\ Sorted(f.bytes)
                        /\ Held(f.bytes) \subseteq Rows
      OBVIOUS
    <2>1. f.bytes \in Seq(Bytes) /\ Ascending(f.bytes)
      BY <1>1, RowsAreNumbers DEF Placed
    <2> QED BY <2>1, ReadableFacts
  <1>3. Readable(Stream) \subseteq Held(Stream) /\ Sorted(Stream) /\ Held(Stream) \subseteq Rows
    BY <1>1, ReadableFacts DEF Placed
  <1>4. Members(ledger.pending) \subseteq Rows
    BY <1>1, LinesContent
  <1>5. LogRows = ArchiveRows \cup Readable(Stream) \cup Members(ledger.pending)
    BY <1>1 DEF LogRows, ArchiveRows
  <1>6. ArchiveRows \subseteq Rows
    BY <1>2 DEF ArchiveRows
  <1>7. LogRows \subseteq Rows
    BY <1>3, <1>4, <1>5, <1>6
  <1>8. \A q \in ArchiveRows, r \in Held(Stream) \cup Members(ledger.pending) \cup {NextRow} : q < r
    BY <1>1, <1>2 DEF ArchiveRows, Placed, Precede
  <1>9. \A q \in Readable(Stream), r \in Members(ledger.pending) \cup {NextRow} : q < r
    BY <1>1, <1>3 DEF Placed, Precede
  <1>10. \A q \in Members(ledger.pending) : q < NextRow
    BY <1>1 DEF Placed, Precede
  <1>11. \A r \in LogRows : r < NextRow
    BY <1>5, <1>8, <1>9, <1>10
  <1>12. \A f \in archives :
            /\ Sorted(f.bytes)
            /\ Precede(Readable(f.bytes), Readable(Stream) \cup Queued)
            /\ \A g \in archives : f.name < g.name => Precede(Readable(f.bytes), Readable(g.bytes))
    BY <1>1, <1>2, <1>3 DEF Placed, Precede
  <1>13. Precede(Readable(Stream), Queued)
    BY <1>1, <1>9 DEF Precede
  <1>14. \A i, j \in DOMAIN ledger.pending : i < j => ledger.pending[i] < ledger.pending[j]
    BY <1>1 DEF Placed, Increasing
  <1>15. InOrder = TRUE
    BY <1>3, <1>12, <1>13, <1>14 DEF InOrder
  <1> QED BY <1>2, <1>3, <1>5, <1>7, <1>8, <1>9, <1>11, <1>15 DEF RowsOrdered

(* The same after a step. *)
LEMMA RowsInOrderNext == LedgerInv' => RowsOrdered'
  BY RowsInOrder, PTL

\* What a step that is none of the log leaves alone.
LogStays == LogRows' = LogRows /\ ledger'.healthy = ledger.healthy /\ clock'.faults = clock.faults

(* An append adds a row, or loses it when the stream has been destroyed or when *)
(* the file ends in half a line.                                                *)
LEMMA AppendAdds ==
  ASSUME LedgerInv, AppendRow, LedgerInv'
  PROVE  LogRows' = LogRows \/ LogRows' = LogRows \cup {NextRow}
  <1>1. /\ archives' = archives /\ live' = live /\ NextRow \in Rows
        /\ clock'.faults = clock.faults /\ ledger'.healthy = ledger.healthy
    BY AppendFacts DEF FilesKept, LedgerInv, LedgerTypes, Clocks
  <1>2. /\ Stream \in Seq(Bytes) /\ ledger.pending \in Seq(Rows) /\ ledger.buffer \in Seq(Bytes)
        /\ LiveBytes \in Seq(Bytes) /\ archives \in SUBSET Archives
        /\ Placed(archives, Stream, ledger.pending, NextRow)
    BY LedgerParts DEF LedgerInv, RowsPlaced
  <1>3. LiveBytes' = LiveBytes /\ ArchiveRows' = ArchiveRows
    BY <1>1 DEF LiveBytes, ArchiveRows
  <1>4. /\ LogRows = ArchiveRows \cup Readable(Stream) \cup Members(ledger.pending)
        /\ LogRows' = ArchiveRows \cup Readable(Stream') \cup Members(ledger'.pending)
    BY <1>3, RowsInOrder, RowsInOrderNext DEF LedgerInv, RowsOrdered
  <1>5. LogRows' = LogRows \/ LogRows' = LogRows \cup {NextRow}
    <2>1. CASE ledger'.pending = Append(ledger.pending, NextRow) /\ ledger'.buffer = ledger.buffer
      <3>1. Stream' = Stream
        BY <1>3, <2>1 DEF Stream
      <3>2. Members(ledger'.pending) = Members(ledger.pending) \cup {NextRow}
        <4>1. Members(Append(ledger.pending, NextRow)) = Members(ledger.pending) \cup {NextRow}
          BY <1>1, <1>2, QueueGrows
        <4> QED BY <2>1, <4>1
      <3> QED BY <1>4, <3>1, <3>2
    <2>2. CASE /\ ledger.pending = <<>> /\ ledger'.pending = <<>>
               /\ ledger'.buffer = ledger.buffer \o LinesOf(<<NextRow>>)
      <3>1. LinesOf(<<NextRow>>) \in Seq(Bytes) /\ Held(LinesOf(<<NextRow>>)) = {NextRow}
        BY <1>1, LineOfOne
      <3>2. Stream' = LiveBytes \o (ledger.buffer \o LinesOf(<<NextRow>>))
        BY <1>3, <2>2 DEF Stream
      <3>3. Stream' = Stream \o LinesOf(<<NextRow>>)
        <4>1. LiveBytes \o (ledger.buffer \o LinesOf(<<NextRow>>))
                = (LiveBytes \o ledger.buffer) \o LinesOf(<<NextRow>>)
          BY <1>2, <3>1, BytesAssociate
        <4> QED BY <3>2, <4>1 DEF Stream
      <3>4. /\ Readable(Stream) \subseteq Readable(Stream \o LinesOf(<<NextRow>>))
            /\ Readable(Stream \o LinesOf(<<NextRow>>)) \subseteq Readable(Stream) \cup {NextRow}
        BY <1>2, <3>1, ReadableConcat
      <3> QED BY <1>4, <2>2, <3>3, <3>4
    <2>3. CASE ledger'.pending = ledger.pending /\ ledger'.buffer = ledger.buffer
      <3>1. Stream' = Stream
        BY <1>3, <2>3 DEF Stream
      <3> QED BY <1>4, <2>3, <3>1
    <2> QED BY <2>1, <2>2, <2>3, AppendFacts
  <1> QED BY <1>5

LEMMA AppendAccepts ==
  ASSUME LedgerInv, AppendRow, LedgerInv'
  PROVE  LogStays \/ (\E r \in Rows : Log!Accept(r))
  <1>1. /\ NextRow \in Rows /\ clock'.faults = clock.faults /\ ledger'.healthy = ledger.healthy
    BY AppendFacts DEF LedgerInv, LedgerTypes, Clocks
  <1>2. CASE LogRows' = LogRows
    BY <1>1, <1>2 DEF LogStays
  <1>3. CASE LogRows' = LogRows \cup {NextRow}
    BY <1>1, <1>3, RowsInOrder, RowsInOrderNext DEF Log!Accept, RowsOrdered
  <1> QED BY AppendAdds, <1>2, <1>3

(* The archive that goes holds the oldest rows. *)
LEMMA RemovalExpires ==
  ASSUME LedgerInv, RemoveArchive, LedgerInv'
  PROVE  \E olds \in SUBSET LogRows : Log!Expire(olds)
  <1>1. PICK first \in archives :
            /\ archives' = archives \ {first}
            /\ \A f \in archives : ~ (f.name < first.name)
    BY RemoveArchiveFacts
  <1>2. live' = live /\ ledger' = ledger /\ clock' = clock
    BY DEF RemoveArchive
  <1>3. Stream' = Stream
    BY <1>2 DEF Stream, LiveBytes
  <1> DEFINE olds == Readable(first.bytes)
  <1>4. LogRows = olds \cup LogRows'
    <2>1. ArchiveRows = olds \cup ArchiveRows'
      BY <1>1 DEF ArchiveRows
    <2> QED BY <1>2, <1>3, <2>1, RowsInOrder, RowsInOrderNext DEF RowsOrdered
  <1>5. \A q \in olds, r \in LogRows' : q < r
    <2>1. ASSUME NEW f \in archives', NEW q \in olds, NEW r \in Readable(f.bytes)
          PROVE  q < r
      <3>1. f \in archives /\ f # first /\ f.name \in Nat /\ first.name \in Nat
        BY <1>1, <2>1, LedgerParts DEF LedgerInv, Archives
      <3>2. first.name < f.name
        BY <1>1, <3>1 DEF LedgerInv, FilesTold
      <3> QED BY <2>1, <3>1, <3>2, RowsInOrder DEF LedgerInv, RowsPlaced, Placed, Precede, RowsOrdered
    <2>2. ASSUME NEW q \in olds, NEW r \in Readable(Stream) \cup Members(ledger.pending)
          PROVE  q < r
      BY <2>2, RowsInOrder DEF ArchiveRows, RowsOrdered
    <2>3. LogRows' = ArchiveRows' \cup Readable(Stream) \cup Members(ledger.pending)
      BY <1>2, <1>3, RowsInOrderNext DEF RowsOrdered
    <2> QED BY <2>1, <2>2, <2>3 DEF ArchiveRows
  <1>6. LogRows \subseteq Nat
    BY RowsInOrder, RowsAreNumbers DEF RowsOrdered
  <1>7. LogRows' = LogRows \ olds
    <2>1. \A q \in olds : q \notin LogRows'
      BY <1>4, <1>5, <1>6
    <2> QED BY <1>4, <2>1
  <1> HIDE DEF olds
  <1>8. Log!Expire(olds)
    BY <1>2, <1>5, <1>7, RowsInOrder, RowsInOrderNext DEF Log!Expire, RowsOrdered
  <1> QED BY <1>4, <1>8

(* A rotation that does not fail moves rows and loses none. *)
LEMMA RotationMoves ==
  ASSUME LedgerInv, Rotate, LedgerInv'
  PROVE  LogStays
  <1> DEFINE l == [ledger EXCEPT !.open = TRUE, !.bytes = 0]
             name == clock.renamed + 1
             last == [ino |-> live.ino, bytes |-> live.bytes, day |-> live.day, name |-> name]
  <1>1. /\ Ended /\ live # NoLog /\ LiveBytes = live.bytes
        /\ ledger' = [Written(l, ledger.pending) EXCEPT !.pending = <<>>, !.rotation = "cleaning"]
    BY DEF Rotate, Ended, LiveBytes
  <1>2. /\ l \in Ledgers /\ l.open /\ l.buffer = <<>> /\ l.pending = ledger.pending
        /\ l.closed = ledger.closed /\ l.healthy = ledger.healthy
    <2>1. ledger \in Ledgers /\ ledger.buffer = <<>>
      BY <1>1 DEF LedgerInv, LedgerTypes, Ended, LedgerShape
    <2> QED BY <2>1 DEF Ledgers
  <1>3. ~ ledger.closed
    BY <1>1 DEF LedgerInv, LedgerShape, Ended
  <1>4. /\ Stream = LiveBytes /\ Stream \in Seq(Bytes) /\ ledger.pending \in Seq(Rows)
        /\ ledger'.pending = <<>> /\ ledger'.buffer = LinesOf(ledger.pending)
        /\ ledger'.healthy = ledger.healthy
    <2> HIDE DEF l
    <2> QED BY <1>1, <1>2, <1>3, RotatedFacts, LedgerParts DEF LedgerInv
  <1>5. /\ LinesOf(ledger.pending) \in Seq(Bytes)
        /\ Readable(LinesOf(ledger.pending)) = Members(ledger.pending)
    BY <1>4, LinesFacts, LinesContent
  <1>6. /\ LogRows = ArchiveRows \cup Readable(Stream) \cup Members(ledger.pending)
        /\ LogRows' = ArchiveRows' \cup Readable(Stream') \cup Members(<<>>)
    BY <1>4, RowsInOrder, RowsInOrderNext DEF RowsOrdered
  <1>7. CASE live.bytes = <<>>
    <2>1. archives' = archives /\ live' = live /\ clock' = clock
      BY <1>7 DEF Rotate
    <2>2. ArchiveRows' = ArchiveRows /\ LiveBytes' = <<>>
      BY <1>1, <1>7, <2>1 DEF ArchiveRows, LiveBytes
    <2>3. Stream' = LinesOf(ledger.pending)
      BY <1>4, <1>5, <2>2 DEF Stream
    <2>4. Readable(Stream) = {}
      BY <1>1, <1>4, <1>7, NothingHeld
    <2> QED BY <1>4, <1>5, <1>6, <2>1, <2>2, <2>3, <2>4, NothingHeld DEF LogStays
  <1>8. CASE live.bytes # <<>>
    <2>1. archives' = archives \cup {last} /\ live' = NoLog /\ clock' = [clock EXCEPT !.renamed = name]
      BY <1>8 DEF Rotate
    <2>2. clock'.faults = clock.faults
      BY <2>1 DEF LedgerInv, LedgerTypes, Clocks
    <2>3. last.bytes = Stream
      BY <1>1, <1>4
    <2> HIDE DEF last
    <2>4. ArchiveRows' = ArchiveRows \cup Readable(Stream)
      BY <2>1, <2>3 DEF ArchiveRows
    <2>5. Stream' = LinesOf(ledger.pending)
      BY <1>4, <1>5, <2>1 DEF Stream, LiveBytes
    <2> QED BY <1>4, <1>5, <1>6, <2>2, <2>4, <2>5, NothingHeld DEF LogStays
  <1> QED BY <1>7, <1>8

(* A write that fails takes what was to be written, and is reported. *)
LEMMA WriteFailureFails ==
  ASSUME LedgerInv, WriteFails, LedgerInv'
  PROVE  Log!Fail
  <1>1. /\ archives' = archives /\ live' = live
        /\ clock' = [clock EXCEPT !.faults = clock.faults + 1]
        /\ ledger' = [ledger EXCEPT !.open = FALSE, !.buffer = <<>>, !.healthy = FALSE]
    BY DEF WriteFails
  <1>2. /\ clock'.faults = clock.faults + 1 /\ ledger'.healthy = FALSE
        /\ ledger'.pending = ledger.pending /\ ledger'.buffer = <<>>
    BY <1>1 DEF LedgerInv, LedgerTypes, Clocks, Ledgers
  <1>3. /\ LiveBytes \in Seq(Bytes) /\ ledger.buffer \in Seq(Bytes)
        /\ Stream' = LiveBytes /\ Stream = LiveBytes \o ledger.buffer
    <2>1. LiveBytes' = LiveBytes
      BY <1>1 DEF LiveBytes
    <2> QED BY <1>2, <2>1, LedgerParts DEF LedgerInv, Stream
  <1>4. Readable(LiveBytes) \subseteq Readable(Stream)
    BY <1>3, ReadableConcat
  <1>5. LogRows' \subseteq LogRows
    <2>1. ArchiveRows' = ArchiveRows
      BY <1>1 DEF ArchiveRows
    <2> QED BY <1>2, <1>3, <1>4, <2>1, RowsInOrder, RowsInOrderNext DEF RowsOrdered
  <1> QED BY <1>2, <1>5, RowsInOrder, RowsInOrderNext DEF Log!Fail, RowsOrdered

(* A rename that fails is reported too. *)
LEMMA RenameFailureFails ==
  ASSUME LedgerInv, RotateFails, LedgerInv'
  PROVE  Log!Fail
  <1> DEFINE l == [ledger EXCEPT !.open = TRUE, !.bytes = Len(LiveBytes), !.healthy = FALSE]
  <1>1. /\ archives' = archives /\ live' = live
        /\ clock' = [clock EXCEPT !.faults = clock.faults + 1] /\ Ended
        /\ ledger' = [Written(l, ledger.pending) EXCEPT !.pending = <<>>, !.rotation = "none"]
    BY DEF RotateFails
  <1>2. clock'.faults = clock.faults + 1
    BY <1>1 DEF LedgerInv, LedgerTypes, Clocks
  <1>3. /\ l \in Ledgers /\ l.open /\ l.buffer = <<>> /\ l.pending = ledger.pending
        /\ l.closed = ledger.closed /\ l.healthy = FALSE
    <2>1. Len(LiveBytes) \in Nat /\ ledger \in Ledgers /\ ledger.buffer = <<>>
      BY <1>1, LedgerParts DEF LedgerInv, LedgerTypes, Ended, LedgerShape
    <2> QED BY <2>1 DEF Ledgers
  <1> HIDE DEF l
  <1>4. /\ Stream = LiveBytes /\ ledger'.pending = <<>> /\ ledger'.buffer = LinesOf(ledger.pending)
        /\ ledger'.healthy = FALSE
    BY <1>1, <1>3, RotatedFacts
  <1>5. /\ Stream \in Seq(Bytes) /\ ledger.pending \in Seq(Rows)
        /\ LinesOf(ledger.pending) \in Seq(Bytes)
        /\ Held(LinesOf(ledger.pending)) = Members(ledger.pending)
    BY LedgerParts, LinesFacts, LinesContent DEF LedgerInv
  <1>6. Stream' = Stream \o LinesOf(ledger.pending) /\ ArchiveRows' = ArchiveRows
    BY <1>1, <1>4 DEF Stream, LiveBytes, ArchiveRows
  <1>7. Readable(Stream \o LinesOf(ledger.pending)) \subseteq Readable(Stream) \cup Members(ledger.pending)
    BY <1>5, ReadableConcat
  <1>8. LogRows' \subseteq LogRows
    BY <1>4, <1>6, <1>7, NothingHeld, RowsInOrder, RowsInOrderNext DEF RowsOrdered
  <1> QED BY <1>2, <1>4, <1>8, RowsInOrder, RowsInOrderNext DEF Log!Fail, RowsOrdered

(* What a file holds is before what is written behind it, but for a row of which *)
(* each has a part.                                                              *)
LEMMA WrittenBefore ==
  ASSUME NEW s \in Seq(Bytes), NEW t \in Seq(Bytes), Ascending(s \o t),
         NEW q \in Held(s), NEW r \in Held(t), r # q
  PROVE  q < r
  <1>1. PICK i \in DOMAIN s : s[i][1] = q
    BY DEF Held
  <1>2. PICK j \in DOMAIN t : t[j][1] = r
    BY DEF Held
  <1>3. /\ i \in DOMAIN (s \o t) /\ Len(s) + j \in DOMAIN (s \o t)
        /\ (s \o t)[i] = s[i] /\ (s \o t)[Len(s) + j] = t[j] /\ i < Len(s) + j
    BY <1>1, <1>2, HeldConcat
  <1>4. Earlier(s[i], t[j])
    BY <1>3 DEF Ascending
  <1> QED BY <1>1, <1>2, <1>4 DEF Earlier

(* A kill takes the rows that had not reached the file, which are the last ones. *)
LEMMA KillTakesTheLast ==
  ASSUME LedgerInv, RestartLedger, clock' = [clock EXCEPT !.faults = clock.faults + 1], LedgerInv'
  PROVE  \E news \in SUBSET LogRows : Log!Kill(news)
  <1>1. /\ archives' = archives /\ ledger'.pending = <<>> /\ ledger'.healthy = TRUE
        /\ Stream' = LiveBytes
    BY RestartFacts DEF Restarts
  <1>2. clock'.faults = clock.faults + 1
    BY DEF LedgerInv, LedgerTypes, Clocks
  <1>3. /\ LiveBytes \in Seq(Bytes) /\ ledger.buffer \in Seq(Bytes)
        /\ Stream = LiveBytes \o ledger.buffer /\ Ascending(Stream)
    BY LedgerParts DEF LedgerInv, RowsPlaced, Placed, Stream
  <1>4. /\ Readable(LiveBytes) \subseteq Readable(Stream)
        /\ Readable(Stream) \subseteq Readable(LiveBytes) \cup Held(ledger.buffer)
        /\ Readable(LiveBytes) \subseteq Held(LiveBytes)
    BY <1>3, ReadableConcat, ReadableFacts
  <1>5. /\ LogRows = ArchiveRows \cup Readable(Stream) \cup Members(ledger.pending)
        /\ LogRows' = ArchiveRows \cup Readable(LiveBytes)
    <2>1. ArchiveRows' = ArchiveRows
      BY <1>1 DEF ArchiveRows
    <2> QED BY <1>1, <2>1, NothingHeld, RowsInOrder, RowsInOrderNext DEF RowsOrdered
  <1> DEFINE news == LogRows \ LogRows'
  <1>6. ASSUME NEW q \in LogRows', NEW r \in news
        PROVE  q < r
    <2>1. r \in (Readable(Stream) \ Readable(LiveBytes)) \cup Members(ledger.pending)
      BY <1>5
    <2>2. CASE q \in ArchiveRows
      BY <2>1, <2>2, RowsInOrder DEF RowsOrdered
    <2>3. CASE q \in Readable(LiveBytes)
      <3>1. CASE r \in Members(ledger.pending)
        BY <1>4, <2>3, <3>1, RowsInOrder DEF RowsOrdered
      <3>2. CASE r \in Readable(Stream) \ Readable(LiveBytes)
        <4>1. q \in Held(LiveBytes) /\ r \in Held(ledger.buffer) /\ r # q
          BY <1>4, <2>3, <3>2
        <4> QED BY <1>3, <4>1, WrittenBefore
      <3> QED BY <2>1, <3>1, <3>2
    <2> QED BY <1>5, <2>2, <2>3
  <1>7. LogRows \ news = LogRows'
    BY <1>4, <1>5
  <1> HIDE DEF news
  <1>8. Log!Kill(news)
    BY <1>1, <1>2, <1>6, <1>7, RowsInOrder, RowsInOrderNext DEF Log!Kill, RowsOrdered
  <1> QED BY <1>8 DEF news

(* A process that ends after close has written what it had. *)
LEMMA CleanRestart ==
  ASSUME LedgerInv, RestartLedger, clock' = clock, ledger.closed, ledger.buffer = <<>>, LedgerInv'
  PROVE  Log!Restart
  <1>1. /\ archives' = archives /\ ledger'.pending = <<>> /\ ledger'.healthy = TRUE
        /\ Stream' = LiveBytes
    BY RestartFacts DEF Restarts
  <1>2. ledger.pending = <<>>
    BY DEF LedgerInv, LedgerShape
  <1>3. Stream = LiveBytes
    BY LedgerParts DEF LedgerInv, Stream
  <1>4. ArchiveRows' = ArchiveRows
    BY <1>1 DEF ArchiveRows
  <1>5. LogRows' = LogRows
    BY <1>1, <1>2, <1>3, <1>4, RowsInOrder, RowsInOrderNext DEF RowsOrdered
  <1> QED BY <1>1, <1>5, RowsInOrder, RowsInOrderNext DEF Log!Restart, RowsOrdered

(* The steps of the ledger that leave the log alone. *)
LEMMA QuietSteps ==
  ASSUME LedgerInv, LedgerInv',
         \/ WriteByte \/ EndCleanup \/ Maintain \/ Close \/ OpenFile \/ Midnight
         \/ UNCHANGED ledgerVars
  PROVE  LogStays
  <1>1. /\ archives' = archives /\ Stream' = Stream /\ ledger'.pending = ledger.pending
        /\ ledger'.healthy = ledger.healthy /\ clock'.faults = clock.faults
    <2>1. CASE WriteByte
      <3>1. ledger' = [ledger EXCEPT !.buffer = Tail(ledger.buffer)] /\ Stream' = Stream
        BY <2>1, WriteByteFacts
      <3> QED BY <2>1, <3>1 DEF WriteByte, LedgerInv, LedgerTypes, Ledgers
    <2>2. CASE EndCleanup
      BY <2>2 DEF EndCleanup, LedgerInv, LedgerTypes, Ledgers, Stream, LiveBytes
    <2>3. CASE Maintain
      <3>1. ledger' = ledger \/ ledger' = Rotating(ledger)
        BY <2>3 DEF Maintain
      <3>2. /\ ledger'.pending = ledger.pending /\ ledger'.buffer = ledger.buffer
            /\ ledger'.healthy = ledger.healthy
        BY <3>1, RotatingFacts DEF LedgerInv, LedgerTypes
      <3> QED BY <2>3, <3>2 DEF Maintain, Stream, LiveBytes
    <2>4. CASE Close
      BY <2>4 DEF Close, LedgerInv, LedgerTypes, Ledgers, Stream, LiveBytes
    <2>5. CASE OpenFile
      <3>1. live' \in LiveFiles /\ live'.bytes = LiveBytes
        BY <2>5, OpenedFacts DEF OpenFile, LedgerInv
      <3>2. LiveBytes' = LiveBytes
        BY <3>1, LedgerAssumption DEF LiveBytes
      <3> QED BY <2>5, <3>2 DEF OpenFile, Stream
    <2>6. CASE Midnight
      BY <2>6 DEF Midnight, LedgerInv, LedgerTypes, Clocks, Stream, LiveBytes
    <2>7. CASE UNCHANGED ledgerVars
      BY <2>7 DEF ledgerVars, Stream, LiveBytes
    <2> QED BY <2>1, <2>2, <2>3, <2>4, <2>5, <2>6, <2>7
  <1>2. ArchiveRows' = ArchiveRows
    BY <1>1 DEF ArchiveRows
  <1>3. LogRows' = LogRows
    BY <1>1, <1>2, RowsInOrder, RowsInOrderNext DEF RowsOrdered
  <1> QED BY <1>1, <1>3 DEF LogStays

\* A restart of the whole process.
LogRestart ==
    /\ RestartLedger
    /\ \/ ledger.closed /\ ledger.buffer = <<>> /\ clock' = clock
       \/ clock' = [clock EXCEPT !.faults = clock.faults + 1]

LEMMA LogStep ==
  ASSUME LedgerInv, LedgerInv', [HistoryNext]_historyVars
  PROVE  [Log!Next]_(Log!vars)
  <1>1. \/ WriteByte \/ EndCleanup \/ Maintain \/ Close \/ OpenFile \/ Midnight \/ UNCHANGED ledgerVars
        \/ AppendRow \/ WriteFails \/ RotateFails \/ Rotate \/ RemoveArchive \/ LogRestart
    <2>1. CASE UNCHANGED historyVars
      BY <2>1 DEF historyVars, ledgerVars
    <2>2. CASE ReaderSteps
      BY <2>2 DEF ReaderSteps, SyncList, SyncStat, SyncRead, SyncEnd, ScanList, ScanRead, ScanEnd,
                  ledgerVars
    <2>3. CASE Restart
      BY <2>3 DEF Restart, LogRestart
    <2>4. CASE Use \/ LedgerWrites \/ FileOpens \/ FileMoves \/ FileGoes \/ DayPasses
      BY <2>4 DEF Use, LedgerWrites, FileOpens, FileMoves, FileGoes, DayPasses
    <2> QED BY <2>1, <2>2, <2>3, <2>4 DEF HistoryNext, ReaderSteps
  <1>2. CASE LogStays
    <2>1. InOrder' = InOrder
      BY RowsInOrder, RowsInOrderNext DEF RowsOrdered
    <2> QED BY <1>2, <2>1 DEF LogStays, Log!vars
  <1>3. CASE AppendRow
    BY <1>2, <1>3, AppendAccepts DEF Log!Next
  <1>4. CASE WriteFails \/ RotateFails
    BY <1>4, WriteFailureFails, RenameFailureFails DEF Log!Next
  <1>5. CASE Rotate
    BY <1>2, <1>5, RotationMoves
  <1>6. CASE RemoveArchive
    BY <1>6, RemovalExpires DEF Log!Next
  <1>7. CASE LogRestart
    BY <1>7, KillTakesTheLast, CleanRestart DEF LogRestart, Log!Next
  <1> QED BY <1>1, <1>2, <1>3, <1>4, <1>5, <1>6, <1>7, QuietSteps

LEMMA LogBegins == HistoryInit => Log!Init
  <1> SUFFICES ASSUME HistoryInit PROVE Log!Init
    OBVIOUS
  <1>1. LedgerInv
    BY LedgerBegins DEF HistoryInit
  <1>2. /\ archives = {} /\ live = [ino |-> 1, bytes |-> <<>>, day |-> 1]
        /\ ledger = FreshLedger(0)
        /\ clock = [day |-> 1, rows |-> 0, faults |-> 0, renamed |-> 0]
    BY DEF HistoryInit, InitLedger
  <1>3. /\ ledger.pending = <<>> /\ ledger.buffer = <<>> /\ ledger.healthy = TRUE
        /\ clock.faults = 0 /\ ArchiveRows = {}
    BY <1>2 DEF FreshLedger, ArchiveRows
  <1>4. Stream = <<>>
    <2>1. live \in LiveFiles /\ live.bytes = <<>>
      BY <1>2, NothingHeld DEF LiveFiles
    <2> QED BY <1>3, <2>1, LedgerAssumption DEF LiveBytes, Stream
  <1> QED BY <1>1, <1>3, <1>4, NothingHeld, RowsInOrder DEF RowsOrdered, Log!Init

(* The files of usage-ledger.mjs implement the log they stand for: every   *)
(* append, rotation, clean-up, failure and restart is a step of UsageLog or *)
(* leaves the log as it is.  Rows stay in order and single, expire from the *)
(* front only, and are lost only with healthy FALSE or by a kill, which    *)
(* takes the last ones.                                                    *)
THEOREM LedgerImplementsLog == HistorySpec => ImplementsLog
  <1>1. HistoryInit => Log!Init
    BY LogBegins
  <1>2. LedgerInv /\ LedgerInv' /\ [HistoryNext]_historyVars => [Log!Next]_(Log!vars)
    BY LogStep
  <1> QED BY <1>1, <1>2, LedgerInvariant, PTL DEF HistorySpec, ImplementsLog, Log!Spec

-----------------------------------------------------------------------------
(* What the readers of the files find.                                     *)

\* The rows that have not reached a file whole.
Unread == Held(ledger.buffer) \cup Members(ledger.pending)

\* A name stands for one file, and a row is readable in one file.
FilesNamed ==
    /\ Listing \subseteq Nat /\ (LiveName \in Listing <=> live # NoLog)
    /\ \A f \in archives : f.name \in Listing /\ f.name # LiveName /\ FileAt(f.name) = f
    /\ \A n \in Listing \ {LiveName} : FileAt(n) \in archives /\ FileAt(n).name = n
    /\ \A n \in Listing :
          /\ FileAt(n).ino \in Nat \ {0} /\ FileAt(n).bytes \in Seq(Bytes)
          /\ Ascending(FileAt(n).bytes)
          /\ Readable(FileAt(n).bytes) \subseteq LogRows
          /\ Readable(FileAt(n).bytes) \cap Unread = {}
    /\ \A n, m \in Listing : n # m =>
          /\ FileAt(n).ino # FileAt(m).ino
          /\ Readable(FileAt(n).bytes) \cap Readable(FileAt(m).bytes) = {}
    /\ \A r \in LogRows : r \in Unread \/ \E n \in Listing : r \in Readable(FileAt(n).bytes)
    /\ Unread \subseteq Rows

(* A row whose line is whole in the file is not in the stream. *)
LEMMA WholeLinesWritten ==
  ASSUME NEW s \in Seq(Bytes), NEW t \in Seq(Bytes), Ascending(s \o t),
         NEW r \in Readable(s)
  PROVE  r \notin Held(t)
  <1> SUFFICES ASSUME r \in Held(t)
               PROVE  FALSE
    OBVIOUS
  <1>1. PICK i \in DOMAIN s : ParsesAt(s, i) /\ s[i][1] = r
    BY DEF Readable
  <1>2. PICK j \in DOMAIN t : t[j][1] = r
    BY DEF Held
  <1>3. /\ i \in DOMAIN (s \o t) /\ Len(s) + j \in DOMAIN (s \o t)
        /\ (s \o t)[i] = s[i] /\ (s \o t)[Len(s) + j] = t[j] /\ i < Len(s) + j
    BY <1>1, <1>2, HeldConcat
  <1>4. Earlier(s[i], t[j])
    BY <1>3 DEF Ascending
  <1>5. s[i][2] = 2 /\ t[j] \in Bytes /\ r \in Nat
    <2>1. s[i] \in Bytes /\ t[j] \in Bytes
      BY <1>1, <1>2
    <2> QED BY <1>1, <2>1, RowsAreNumbers DEF ParsesAt, Ends, Bytes
  <1> QED BY <1>1, <1>2, <1>4, <1>5 DEF Earlier, Bytes

LEMMA NamesOfFiles == LedgerInv => FilesNamed
  <1> SUFFICES ASSUME LedgerInv
               PROVE  FilesNamed
    OBVIOUS
  <1>1. /\ archives \in SUBSET Archives /\ Stream \in Seq(Bytes) /\ ledger.pending \in Seq(Rows)
        /\ ledger.buffer \in Seq(Bytes) /\ LiveBytes \in Seq(Bytes)
        /\ Stream = LiveBytes \o ledger.buffer
        /\ live # NoLog => live \in LiveFiles /\ LiveBytes = live.bytes
        /\ live = NoLog => LiveBytes = <<>>
        /\ Placed(archives, Stream, ledger.pending, NextRow)
    BY LedgerParts DEF LedgerInv, LedgerTypes, RowsPlaced, Stream, LiveBytes
  <1>2. \A f \in archives : f.name \in Nat \ {0} /\ f.ino \in Nat \ {0} /\ f.bytes \in Seq(Bytes)
    BY <1>1 DEF Archives
  <1>3. \A f \in archives : f.name \in Listing /\ f.name # LiveName /\ FileAt(f.name) = f
    <2> SUFFICES ASSUME NEW f \in archives
                 PROVE  f.name \in Listing /\ f.name # LiveName /\ FileAt(f.name) = f
      OBVIOUS
    <2>1. f.name \in Listing /\ f.name # LiveName
      BY <1>2 DEF Listing, LiveName
    <2>2. \A g \in archives : g.name = f.name => g = f
      BY DEF LedgerInv, FilesTold
    <2> QED BY <2>1, <2>2 DEF FileAt
  <1>4. /\ Listing \subseteq Nat /\ (LiveName \in Listing <=> live # NoLog)
        /\ \A n \in Listing \ {LiveName} : \E f \in archives : f.name = n
    BY <1>2 DEF Listing, LiveName
  <1>5. \A n \in Listing \ {LiveName} : FileAt(n) \in archives /\ FileAt(n).name = n
    BY <1>3, <1>4
  <1>6. LiveName \in Listing => FileAt(LiveName) = live /\ live \in LiveFiles /\ LiveBytes = live.bytes
    BY <1>1, <1>4 DEF FileAt
  <1>7. /\ Ascending(LiveBytes) /\ Readable(LiveBytes) \subseteq Readable(Stream)
        /\ Readable(LiveBytes) \subseteq Held(LiveBytes) /\ Held(LiveBytes) \subseteq Held(Stream)
        /\ Held(Stream) = Held(LiveBytes) \cup Held(ledger.buffer)
        /\ Readable(Stream) \subseteq Readable(LiveBytes) \cup Held(ledger.buffer)
    BY <1>1, AscendingParts, ReadableConcat, ReadableFacts, HeldConcat DEF Placed
  <1>8. /\ LogRows = ArchiveRows \cup Readable(Stream) \cup Members(ledger.pending)
        /\ LogRows \subseteq Rows
        /\ \A f \in archives : Readable(f.bytes) \subseteq Held(f.bytes)
        /\ \A q \in ArchiveRows, r \in Held(Stream) \cup Members(ledger.pending) : q < r
        /\ \A q \in Readable(Stream), r \in Members(ledger.pending) : q < r
    BY RowsInOrder DEF RowsOrdered
  <1>9. \A f \in archives : Ascending(f.bytes) /\ Readable(f.bytes) \subseteq ArchiveRows
    BY <1>1 DEF Placed, ArchiveRows
  <1>10. Unread \subseteq Rows /\ LogRows \subseteq Nat /\ Unread \subseteq Nat
    BY <1>1, <1>8, ReadableFacts, LinesContent, RowsAreNumbers DEF Unread
  <1>11. ArchiveRows \cap Unread = {} /\ Readable(LiveBytes) \cap Unread = {}
    <2>1. ArchiveRows \cap Unread = {}
      BY <1>7, <1>8, <1>10 DEF Unread
    <2>2. \A r \in Readable(LiveBytes) : r \notin Held(ledger.buffer)
      BY <1>1, WholeLinesWritten DEF Placed
    <2>3. \A r \in Readable(LiveBytes) : r \notin Members(ledger.pending)
      BY <1>7, <1>8, <1>10
    <2> QED BY <2>1, <2>2, <2>3 DEF Unread
  <1>12. \A n \in Listing :
          /\ FileAt(n).ino \in Nat \ {0} /\ FileAt(n).bytes \in Seq(Bytes)
          /\ Ascending(FileAt(n).bytes)
          /\ Readable(FileAt(n).bytes) \subseteq LogRows
          /\ Readable(FileAt(n).bytes) \cap Unread = {}
    <2>1. ASSUME LiveName \in Listing
          PROVE  /\ FileAt(LiveName).ino \in Nat \ {0} /\ FileAt(LiveName).bytes \in Seq(Bytes)
                 /\ Ascending(FileAt(LiveName).bytes)
                 /\ Readable(FileAt(LiveName).bytes) \subseteq LogRows
                 /\ Readable(FileAt(LiveName).bytes) \cap Unread = {}
      <3>1. live.ino \in Nat \ {0}
        BY <1>6, <2>1 DEF LiveFiles
      <3> QED BY <1>1, <1>6, <1>7, <1>8, <1>11, <2>1, <3>1
    <2>2. ASSUME NEW n \in Listing \ {LiveName}
          PROVE  /\ FileAt(n).ino \in Nat \ {0} /\ FileAt(n).bytes \in Seq(Bytes)
                 /\ Ascending(FileAt(n).bytes)
                 /\ Readable(FileAt(n).bytes) \subseteq LogRows
                 /\ Readable(FileAt(n).bytes) \cap Unread = {}
      BY <1>2, <1>5, <1>8, <1>9, <1>11, <2>2
    <2> QED BY <2>1, <2>2
  <1>13. ASSUME NEW n \in Listing, NEW m \in Listing, n # m
         PROVE  /\ FileAt(n).ino # FileAt(m).ino
                /\ Readable(FileAt(n).bytes) \cap Readable(FileAt(m).bytes) = {}
    <2>1. CASE n # LiveName /\ m # LiveName
      <3> DEFINE f == FileAt(n)
                 g == FileAt(m)
      <3>1. f \in archives /\ g \in archives /\ f.name = n /\ g.name = m /\ f # g
        BY <1>5, <1>13, <2>1
      <3>2. f.ino # g.ino
        BY <3>1 DEF LedgerInv, FilesTold
      <3>3. f.name < g.name \/ g.name < f.name
        BY <1>2, <1>13, <3>1
      <3> HIDE DEF f, g
      <3>4. \A q \in Held(f.bytes) : q \notin Held(g.bytes)
        <4>1. Held(f.bytes) \subseteq Nat /\ Held(g.bytes) \subseteq Nat
          BY <1>1, <3>1, RowsAreNumbers
        <4>2. Precede(Held(f.bytes), Held(g.bytes)) \/ Precede(Held(g.bytes), Held(f.bytes))
          BY <1>1, <3>1, <3>3 DEF Placed
        <4> QED BY <4>1, <4>2 DEF Precede
      <3>5. Readable(f.bytes) \cap Readable(g.bytes) = {}
        BY <1>8, <3>1, <3>4
      <3> QED BY <3>2, <3>5 DEF f, g
    <2>2. ASSUME NEW k \in Listing \ {LiveName}, live # NoLog
          PROVE  /\ FileAt(k).ino # live.ino
                 /\ Readable(FileAt(k).bytes) \cap Readable(LiveBytes) = {}
      <3>1. FileAt(k) \in archives
        BY <1>5
      <3>2. FileAt(k).ino # live.ino
        BY <2>2, <3>1 DEF LedgerInv, FilesTold
      <3>3. Readable(FileAt(k).bytes) \subseteq ArchiveRows
        BY <1>9, <3>1
      <3>4. \A q \in ArchiveRows : q \notin Readable(LiveBytes)
        BY <1>7, <1>8, <1>10
      <3> QED BY <3>2, <3>3, <3>4
    <2> QED BY <1>4, <1>6, <1>13, <2>1, <2>2
  <1>14. ASSUME NEW r \in LogRows, r \notin Unread
         PROVE  \E n \in Listing : r \in Readable(FileAt(n).bytes)
    <2>1. CASE r \in ArchiveRows
      <3>1. PICK f \in archives : r \in Readable(f.bytes)
        BY <2>1 DEF ArchiveRows
      <3> QED BY <1>3, <3>1
    <2>2. CASE r \in Readable(LiveBytes)
      <3>1. live # NoLog
        BY <1>1, <2>2, NothingHeld
      <3> QED BY <1>4, <1>6, <2>2, <3>1
    <2> QED BY <1>7, <1>8, <1>14, <2>1, <2>2 DEF Unread
  <1> QED BY <1>3, <1>4, <1>5, <1>10, <1>12, <1>13, <1>14 DEF FilesNamed

(* The same after a step. *)
LEMMA NamesOfFilesNext == LedgerInv' => FilesNamed'
  BY NamesOfFiles, PTL

\* What the ledger does while no file moves or goes: files grow by what was to be
\* written, a missing usage.log is created, and the rows of new come in.
FilesGrow(new) ==
    /\ archives' = archives
    /\ live # NoLog => live' # NoLog /\ live'.ino = live.ino
    /\ \E t \in Seq(Bytes) : LiveBytes' = LiveBytes \o t /\ Held(t) \subseteq Unread
    /\ Unread' \subseteq Unread \cup new
    /\ LogRows' \subseteq LogRows \cup new
    /\ clock'.day = clock.day

\* The steps of the ledger that no reader notices.
GrowingSteps ==
    \/ WriteByte \/ WriteFails \/ RotateFails \/ EndCleanup \/ Maintain \/ Close \/ OpenFile
    \/ UNCHANGED ledgerVars

(* Nothing new, one after the other. *)
LEMMA NothingWritten ==
  ASSUME NEW s \in Seq(Bytes)
  PROVE  s = s \o <<>> /\ Held(<<>>) = {}
  BY NothingHeld

LEMMA AppendGrows ==
  ASSUME LedgerInv, AppendRow, LedgerInv'
  PROVE  FilesGrow({NextRow})
  <1>1. /\ FilesKept /\ NextRow \in Rows /\ clock'.day = clock.day
        /\ \/ /\ ledger'.pending = Append(ledger.pending, NextRow)
              /\ ledger'.buffer = ledger.buffer
           \/ /\ ledger.pending = <<>> /\ ledger'.pending = <<>>
              /\ ledger'.buffer = ledger.buffer \o LinesOf(<<NextRow>>)
           \/ ledger'.pending = ledger.pending /\ ledger'.buffer = ledger.buffer
    BY AppendFacts DEF LedgerInv, LedgerTypes, Clocks
  <1>2. ledger.buffer \in Seq(Bytes) /\ ledger.pending \in Seq(Rows) /\ LiveBytes \in Seq(Bytes)
    BY LedgerParts DEF LedgerInv
  <1>3. LiveBytes' = LiveBytes
    BY <1>1 DEF FilesKept, LiveBytes
  <1>4. Unread' \subseteq Unread \cup {NextRow}
    <2>1. Members(Append(ledger.pending, NextRow)) = Members(ledger.pending) \cup {NextRow}
      BY <1>1, <1>2, QueueGrows
    <2>2. Held(ledger.buffer \o LinesOf(<<NextRow>>)) = Held(ledger.buffer) \cup {NextRow}
      BY <1>1, <1>2, LineOfOne, HeldConcat
    <2> QED BY <1>1, <2>1, <2>2 DEF Unread
  <1>5. LogRows' \subseteq LogRows \cup {NextRow}
    BY AppendAdds
  <1>6. \E t \in Seq(Bytes) : LiveBytes' = LiveBytes \o t /\ Held(t) \subseteq Unread
    BY <1>2, <1>3, NothingWritten, NothingHeld
  <1> QED BY <1>1, <1>4, <1>5, <1>6 DEF FilesGrow, FilesKept

LEMMA StepsGrow ==
  ASSUME LedgerInv, GrowingSteps, LedgerInv'
  PROVE  FilesGrow({})
  <1>1. /\ ledger.buffer \in Seq(Bytes) /\ ledger.pending \in Seq(Rows) /\ LiveBytes \in Seq(Bytes)
        /\ ledger \in Ledgers
    BY LedgerParts DEF LedgerInv, LedgerTypes
  <1>2. LogRows' \subseteq LogRows
    BY WriteFailureFails, RenameFailureFails, QuietSteps DEF GrowingSteps, LogStays, Log!Fail
  <1>3. archives' = archives /\ clock'.day = clock.day
    <2>1. CASE WriteFails \/ RotateFails
      <3>1. archives' = archives /\ clock' = [clock EXCEPT !.faults = clock.faults + 1]
        BY <2>1 DEF WriteFails, RotateFails
      <3> QED BY <3>1 DEF LedgerInv, LedgerTypes, Clocks
    <2>2. CASE ~ (WriteFails \/ RotateFails)
      BY <2>2 DEF GrowingSteps, WriteByte, EndCleanup, Maintain, Close, OpenFile, ledgerVars
    <2> QED BY <2>1, <2>2
  <1>4. /\ Unread' \subseteq Unread /\ (live # NoLog => live' # NoLog /\ live'.ino = live.ino)
        /\ \E t \in Seq(Bytes) : LiveBytes' = LiveBytes \o t /\ Held(t) \subseteq Unread
    <2>1. CASE WriteByte
      <3> DEFINE b == Head(ledger.buffer)
      <3>1. /\ live'.ino = live.ino /\ live' # NoLog
            /\ LiveBytes' = Append(LiveBytes, b) /\ b \in Bytes
            /\ ledger' = [ledger EXCEPT !.buffer = Tail(ledger.buffer)] /\ ledger.buffer # <<>>
        BY <2>1, WriteByteFacts DEF WriteByte
      <3>2. <<b>> \in Seq(Bytes) /\ Tail(ledger.buffer) \in Seq(Bytes)
            /\ ledger.buffer = <<b>> \o Tail(ledger.buffer) /\ Append(LiveBytes, b) = LiveBytes \o <<b>>
        BY <1>1, <3>1
      <3> HIDE DEF b
      <3>3. Held(<<b>> \o Tail(ledger.buffer)) = Held(<<b>>) \cup Held(Tail(ledger.buffer))
        BY <3>2, HeldConcat
      <3>4. Held(<<b>>) \subseteq Unread /\ Held(Tail(ledger.buffer)) \subseteq Held(ledger.buffer)
        BY <3>2, <3>3 DEF Unread
      <3>5. ledger'.buffer = Tail(ledger.buffer) /\ ledger'.pending = ledger.pending
        BY <1>1, <3>1 DEF Ledgers
      <3>6. Unread' \subseteq Unread
        BY <3>4, <3>5 DEF Unread
      <3> QED BY <3>1, <3>2, <3>4, <3>6
    <2>2. CASE WriteFails
      <3>1. /\ live' = live
            /\ ledger' = [ledger EXCEPT !.open = FALSE, !.buffer = <<>>, !.healthy = FALSE]
        BY <2>2 DEF WriteFails
      <3>2. ledger'.buffer = <<>> /\ ledger'.pending = ledger.pending /\ LiveBytes' = LiveBytes
        BY <1>1, <3>1 DEF Ledgers, LiveBytes
      <3> QED BY <1>1, <3>1, <3>2, NothingWritten, NothingHeld DEF Unread
    <2>3. CASE RotateFails
      <3> DEFINE l == [ledger EXCEPT !.open = TRUE, !.bytes = Len(LiveBytes), !.healthy = FALSE]
      <3>1. /\ live' = live /\ Ended
            /\ ledger' = [Written(l, ledger.pending) EXCEPT !.pending = <<>>, !.rotation = "none"]
        BY <2>3 DEF RotateFails
      <3>2. /\ l \in Ledgers /\ l.open /\ l.buffer = <<>> /\ l.pending = ledger.pending
            /\ l.closed = ledger.closed
        <4>1. Len(LiveBytes) \in Nat /\ ledger.buffer = <<>>
          BY <1>1, <3>1 DEF LedgerInv, Ended, LedgerShape
        <4> QED BY <1>1, <4>1 DEF Ledgers
      <3> HIDE DEF l
      <3>3. ledger'.pending = <<>> /\ ledger'.buffer = LinesOf(ledger.pending) /\ LiveBytes' = LiveBytes
        BY <3>1, <3>2, RotatedFacts DEF LiveBytes
      <3>4. Held(LinesOf(ledger.pending)) = Members(ledger.pending)
        BY <1>1, LinesContent
      <3> QED BY <1>1, <3>1, <3>3, <3>4, NothingWritten, NothingHeld DEF Unread
    <2>4. CASE EndCleanup \/ Maintain \/ Close \/ UNCHANGED ledgerVars
      <3>1. ledger'.buffer = ledger.buffer /\ ledger'.pending = ledger.pending /\ live' = live
        BY <1>1, <2>4, RotatingFacts DEF EndCleanup, Maintain, Close, ledgerVars, Ledgers
      <3>2. LiveBytes' = LiveBytes
        BY <3>1 DEF LiveBytes
      <3> QED BY <1>1, <3>1, <3>2, NothingWritten, NothingHeld DEF Unread
    <2>5. CASE OpenFile
      <3>1. live = NoLog /\ live' \in LiveFiles /\ live'.bytes = LiveBytes /\ ledger' = ledger
        BY <2>5, OpenedFacts DEF OpenFile, LedgerInv
      <3>2. LiveBytes' = LiveBytes
        BY <3>1, LedgerAssumption DEF LiveBytes
      <3> QED BY <1>1, <3>1, <3>2, NothingWritten, NothingHeld DEF Unread
    <2> QED BY <2>1, <2>2, <2>3, <2>4, <2>5 DEF GrowingSteps
  <1> QED BY <1>2, <1>3, <1>4 DEF FilesGrow

(* What such a step means to one who opens files by their names. *)
LEMMA NamesGrow ==
  ASSUME LedgerInv, LedgerInv', NEW new, FilesGrow(new)
  PROVE  /\ Listing \subseteq Listing' /\ \A n \in Listing' \ Listing : n = LiveName /\ live = NoLog
         /\ \A n \in Listing :
               /\ FileAt(n)'.ino = FileAt(n).ino
               /\ \E t \in Seq(Bytes) : /\ FileAt(n)'.bytes = FileAt(n).bytes \o t
                                        /\ Held(t) \subseteq Unread
         /\ LiveName \in Listing' /\ live = NoLog => Held(FileAt(LiveName)'.bytes) \subseteq Unread
  <1>1. archives' = archives /\ (live # NoLog => live' # NoLog /\ live'.ino = live.ino)
    BY DEF FilesGrow
  <1>2. PICK t \in Seq(Bytes) : LiveBytes' = LiveBytes \o t /\ Held(t) \subseteq Unread
    BY DEF FilesGrow
  <1>3. FilesNamed /\ FilesNamed'
    BY NamesOfFiles, NamesOfFilesNext
  <1>4. Listing \subseteq Listing' /\ \A n \in Listing' \ Listing : n = LiveName /\ live = NoLog
    BY <1>1 DEF Listing
  <1>5. ASSUME NEW n \in Listing \ {LiveName}
        PROVE  FileAt(n)' = FileAt(n) /\ FileAt(n).bytes \in Seq(Bytes)
    <2>1. FileAt(n)' = FileAt(n)
      BY <1>1, <1>5 DEF FileAt
    <2> QED BY <1>3, <1>5, <2>1 DEF FilesNamed
  <1>6. /\ LiveName \in Listing => FileAt(LiveName) = live /\ live.bytes = LiveBytes /\ live # NoLog
        /\ LiveName \in Listing' => FileAt(LiveName)' = live' /\ live'.bytes = LiveBytes'
    BY <1>3 DEF FilesNamed, LiveBytes, FileAt
  <1>7. ASSUME LiveName \in Listing
        PROVE  /\ FileAt(LiveName)'.ino = FileAt(LiveName).ino
               /\ FileAt(LiveName)'.bytes = FileAt(LiveName).bytes \o t
    BY <1>1, <1>2, <1>4, <1>6, <1>7
  <1>8. ASSUME LiveName \in Listing', live = NoLog
        PROVE  Held(FileAt(LiveName)'.bytes) \subseteq Unread
    <2>1. LiveBytes = <<>>
      BY <1>8 DEF LiveBytes
    <2>2. LiveBytes' = t
      BY <1>2, <2>1
    <2> QED BY <1>2, <1>6, <1>8, <2>2
  <1>9. ASSUME NEW n \in Listing
        PROVE  /\ FileAt(n)'.ino = FileAt(n).ino
               /\ \E s \in Seq(Bytes) : /\ FileAt(n)'.bytes = FileAt(n).bytes \o s
                                        /\ Held(s) \subseteq Unread
    <2>1. CASE n = LiveName
      BY <1>2, <1>7, <1>9, <2>1
    <2>2. CASE n # LiveName
      <3>1. FileAt(n)' = FileAt(n) /\ FileAt(n).bytes \in Seq(Bytes)
        BY <1>5, <1>9, <2>2
      <3>2. FileAt(n)'.bytes = FileAt(n).bytes \o <<>> /\ FileAt(n)'.ino = FileAt(n).ino
        BY <3>1, NothingWritten
      <3> QED BY <3>2, NothingHeld
    <2> QED BY <2>1, <2>2
  <1> QED BY <1>4, <1>8, <1>9

-----------------------------------------------------------------------------
(* The dashboard.                                                          *)

SeenStates == [syncs : Nat, target : SUBSET Rows, ok : BOOLEAN, disturbed : BOOLEAN,
               midScan : SUBSET Rows, scanned : BOOLEAN, dayOf : [Rows -> Nat]]

ScanStates == [phase : {"start"}, moved : BOOLEAN]
              \cup [phase : {"reading"}, names : SUBSET Nat, wanted : Nat, moved : BOOLEAN]

\* The counters are of a day that has come, and no row of a later one.
DashboardTypes ==
    /\ seen \in SeenStates
    /\ counts \in [day : Nat, rows : [Rows -> Nat]]
    /\ scan \in ScanStates \cup {Idle}
    /\ counts.day <= clock.day
    /\ \A r \in Rows : seen.dayOf[r] <= counts.day
    /\ scan # Idle => ~ seen.scanned

Counted(r) == counts.rows[r] >= 1

\* No file has moved under the scan, or it has ended so.
Scanning == scan # Idle /\ ~ scan.moved
Scanned == scan = Idle /\ seen.scanned

CountsSound ==
    (Scanning \/ Scanned) =>
        \A r \in Rows : /\ Counted(r) => seen.dayOf[r] = counts.day /\ r < NextRow
                        /\ counts.rows[r] >= 2 => r \in seen.midScan

CountsComplete ==
    Scanned => \A r \in LogRows : seen.dayOf[r] = counts.day => Counted(r)

\* A row that the scan may still meet is counted only if it came in the meantime,
\* and one of the day that is not counted is in a file that the scan will read.
ScanOnItsWay ==
    Scanning =>
        /\ counts.day = clock.day
        /\ Unread \subseteq seen.midScan
        /\ \A r \in seen.midScan : Counted(r)
        /\ scan.phase = "start" => \A r \in Rows : Counted(r) => r \in seen.midScan
        /\ scan.phase = "reading" =>
              /\ scan.wanted = counts.day
              /\ \A r \in LogRows : seen.dayOf[r] = counts.day =>
                    \/ Counted(r)
                    \/ \E n \in scan.names \cap Listing : r \in Readable(FileAt(n).bytes)
              /\ \A n \in scan.names \cap Listing : \A r \in Readable(FileAt(n).bytes) :
                    Counted(r) => r \in seen.midScan

DashboardInv == DashboardTypes /\ CountsSound /\ CountsComplete /\ ScanOnItsWay

-----------------------------------------------------------------------------
(* The index.                                                              *)

\* The files there are, whatever their names.
Content(f) == [ino |-> f.ino, bytes |-> f.bytes]
Contents == {Content(f) : f \in Files}

\* The rows of the first k bytes.
Parsed(s, k) == {s[i][1] : i \in {i \in 1 .. k : ParsesAt(s, i)}}
LineEnd(s, k) == k = 0 \/ Ends(s[k])

Done(c) == Parsed(c.bytes, Offset(c.ino))
Indexed == {r \in Rows : index[r] = 1}

IndexTypes ==
    /\ seen \in SeenStates
    /\ sync # Idle =>
          /\ ~ seen.ok /\ sync.names \subseteq Nat
          /\ \/ sync = [phase |-> "listed", names |-> sync.names]
             \/ sync = [phase |-> "reading", names |-> sync.names, files |-> sync.files]

\* What has been indexed of a file are the lines before its offset, and what has
\* been indexed at all comes from files that are known by their inodes.
IndexOfFiles ==
    /\ index \in [Rows -> {0, 1}]
    /\ \A i \in DOMAIN sources : sources[i] \in Nat
    /\ Indexed \cap Unread = {}
    /\ \A r \in Indexed : r < NextRow
    /\ \A c \in Contents : /\ Offset(c.ino) \in 0 .. Len(c.bytes)
                           /\ LineEnd(c.bytes, Offset(c.ino))
                           /\ Done(c) \subseteq Indexed
                           /\ Indexed \cap Readable(c.bytes) \subseteq Done(c)
    /\ \A r \in Indexed : \E i \in DOMAIN sources : \A c \in Contents : c.ino = i => r \in Done(c)

\* While a sync reads: the files it has noted are still there, or gone, and the
\* rows it has not indexed yet are before the sizes it has noted.
SyncReading ==
    (sync # Idle /\ sync.phase = "reading") =>
        /\ sync.names \subseteq DOMAIN sync.files
        /\ \A n \in sync.names : sync.files[n].ino \in Nat /\ sync.files[n].size \in Nat
        /\ \A n, m \in sync.names : sync.files[n].ino = sync.files[m].ino => n = m
        /\ LiveName \in sync.names => live # NoLog
        /\ \A n \in sync.names \cap Listing :
              /\ FileAt(n).ino = sync.files[n].ino
              /\ Offset(sync.files[n].ino) <= sync.files[n].size
              /\ sync.files[n].size <= Len(FileAt(n).bytes)
              /\ Parsed(FileAt(n).bytes, sync.files[n].size) \subseteq seen.target
        /\ Indexed \subseteq seen.target
        /\ \A r \in seen.target \ Indexed : \E n \in sync.names :
              /\ Offset(sync.files[n].ino) # sync.files[n].size
              /\ n \in Listing => r \in Parsed(FileAt(n).bytes, sync.files[n].size)

SyncDone == (sync = Idle /\ seen.ok) => Indexed = seen.target

IndexInv == IndexTypes /\ (~ seen.disturbed => IndexOfFiles /\ SyncReading /\ SyncDone)

-----------------------------------------------------------------------------
(* What each step does to the counters.                                    *)

CountStates == [day : Nat, rows : [Rows -> Nat]]

(* record counts each of the rows it is given once more. *)
LEMMA RecordedFacts ==
  ASSUME NEW c \in CountStates, NEW rs \in SUBSET Rows, clock.day \in Nat
  PROVE  /\ Recorded(c, rs) \in CountStates /\ Recorded(c, rs).day = clock.day
         /\ \A r \in Rows : Recorded(c, rs).rows[r] =
                               (IF c.day = clock.day THEN c.rows[r] ELSE 0) + (IF r \in rs THEN 1 ELSE 0)
  <1> DEFINE old == IF c.day = clock.day THEN c.rows ELSE Nothing
  <1>1. old \in [Rows -> Nat] /\ Once(rs) \in [Rows -> Nat]
    BY DEF Nothing, Once, CountStates
  <1>2. \A r \in Rows : /\ old[r] = IF c.day = clock.day THEN c.rows[r] ELSE 0
                        /\ Once(rs)[r] = IF r \in rs THEN 1 ELSE 0
    BY DEF Nothing, Once
  <1> HIDE DEF old
  <1>3. Plus(old, Once(rs)) \in [Rows -> Nat]
        /\ \A r \in Rows : Plus(old, Once(rs))[r] = old[r] + Once(rs)[r]
    BY <1>1 DEF Plus
  <1>4. Recorded(c, rs) = [day |-> clock.day, rows |-> Plus(old, Once(rs))]
    BY DEF Recorded, old
  <1> QED BY <1>2, <1>3, <1>4 DEF CountStates

(* The memory of the observers, after a step that leaves the scan alone.   *)
SeenStays ==
    /\ seen' \in SeenStates
    /\ seen'.midScan = seen.midScan /\ seen'.scanned = seen.scanned /\ seen'.dayOf = seen.dayOf

(* A step that only has the files grow. *)
LEMMA DashboardQuiet ==
  ASSUME LedgerInv, LedgerInv', DashboardInv, FilesGrow({}), NextRow' = NextRow,
         counts' = counts, scan' = scan, SeenStays
  PROVE  DashboardInv'
  <1>1. DashboardTypes'
    BY DEF DashboardInv, DashboardTypes, FilesGrow, SeenStays
  <1>2. /\ Scanning' = Scanning /\ Scanned' = Scanned /\ \A r : Counted(r)' = Counted(r)
    BY DEF Scanning, Scanned, Counted, SeenStays
  <1>3. Unread' \subseteq Unread /\ LogRows' \subseteq LogRows /\ clock'.day = clock.day
    BY DEF FilesGrow
  <1>4. CountsSound' /\ CountsComplete'
    BY <1>2, <1>3 DEF DashboardInv, CountsSound, CountsComplete, SeenStays
  <1>5. ScanOnItsWay'
    <2> SUFFICES ASSUME Scanning'
                 PROVE  /\ counts'.day = clock'.day
                        /\ Unread' \subseteq seen'.midScan
                        /\ \A r \in seen'.midScan : Counted(r)'
                        /\ scan'.phase = "start" => \A r \in Rows : Counted(r)' => r \in seen'.midScan
                        /\ scan'.phase = "reading" =>
                              /\ scan'.wanted = counts'.day
                              /\ \A r \in LogRows' : seen'.dayOf[r] = counts'.day =>
                                    \/ Counted(r)'
                                    \/ \E n \in scan'.names \cap Listing' : r \in Readable(FileAt(n)'.bytes)
                              /\ \A n \in scan'.names \cap Listing' : \A r \in Readable(FileAt(n)'.bytes) :
                                    Counted(r)' => r \in seen'.midScan
      BY DEF ScanOnItsWay
    <2>1. Scanning
      BY <1>2
    <2>2. /\ counts'.day = clock'.day /\ Unread' \subseteq seen'.midScan
          /\ \A r \in seen'.midScan : Counted(r)'
          /\ scan'.phase = "start" => \A r \in Rows : Counted(r)' => r \in seen'.midScan
      BY <1>2, <1>3, <2>1 DEF DashboardInv, ScanOnItsWay, SeenStays
    <2>3. ASSUME scan'.phase = "reading"
          PROVE  /\ scan'.wanted = counts'.day
                 /\ \A r \in LogRows' : seen'.dayOf[r] = counts'.day =>
                       \/ Counted(r)'
                       \/ \E n \in scan'.names \cap Listing' : r \in Readable(FileAt(n)'.bytes)
                 /\ \A n \in scan'.names \cap Listing' : \A r \in Readable(FileAt(n)'.bytes) :
                       Counted(r)' => r \in seen'.midScan
      <3>1. /\ scan.wanted = counts.day
            /\ \A r \in LogRows : seen.dayOf[r] = counts.day =>
                  \/ Counted(r)
                  \/ \E n \in scan.names \cap Listing : r \in Readable(FileAt(n).bytes)
            /\ \A n \in scan.names \cap Listing : \A r \in Readable(FileAt(n).bytes) :
                  Counted(r) => r \in seen.midScan
            /\ Unread \subseteq seen.midScan
        BY <2>1, <2>3 DEF DashboardInv, ScanOnItsWay
      <3>2. FilesNamed /\ FilesNamed'
        BY NamesOfFiles, NamesOfFilesNext
      <3>3. ASSUME NEW n \in Listing
            PROVE  /\ n \in Listing' /\ Readable(FileAt(n).bytes) \subseteq Readable(FileAt(n)'.bytes)
                   /\ Readable(FileAt(n)'.bytes) \subseteq Readable(FileAt(n).bytes) \cup Unread
        <4>1. PICK t \in Seq(Bytes) : FileAt(n)'.bytes = FileAt(n).bytes \o t /\ Held(t) \subseteq Unread
          BY <3>3, NamesGrow
        <4>2. FileAt(n).bytes \in Seq(Bytes)
          BY <3>2, <3>3 DEF FilesNamed
        <4>3. n \in Listing'
          BY <3>3, NamesGrow
        <4> QED BY <4>1, <4>2, <4>3, ReadableConcat
      <3>4. ASSUME NEW n \in Listing' \ Listing
            PROVE  Readable(FileAt(n)'.bytes) \subseteq Unread
        <4>1. n = LiveName /\ live = NoLog /\ Held(FileAt(n)'.bytes) \subseteq Unread
          BY <3>4, NamesGrow
        <4>2. FileAt(n)'.bytes \in Seq(Bytes)
          BY <3>2, <3>4 DEF FilesNamed
        <4> QED BY <4>1, <4>2, ReadableFacts
      <3>5. ASSUME NEW r \in LogRows', seen'.dayOf[r] = counts'.day, ~ Counted(r)'
            PROVE  \E n \in scan'.names \cap Listing' : r \in Readable(FileAt(n)'.bytes)
        <4>1. PICK n \in scan.names \cap Listing : r \in Readable(FileAt(n).bytes)
          BY <1>2, <1>3, <3>1, <3>5 DEF SeenStays
        <4> QED BY <3>3, <4>1
      <3>6. ASSUME NEW n \in scan'.names \cap Listing', NEW r \in Readable(FileAt(n)'.bytes), Counted(r)'
            PROVE  r \in seen'.midScan
        <4>1. CASE n \in Listing
          BY <1>2, <3>1, <3>3, <3>6, <4>1 DEF SeenStays
        <4>2. CASE n \notin Listing
          BY <3>1, <3>4, <3>6, <4>2 DEF SeenStays
        <4> QED BY <4>1, <4>2
      <3> QED BY <3>1, <3>5, <3>6
    <2> QED BY <2>2, <2>3
  <1> QED BY <1>1, <1>4, <1>5 DEF DashboardInv

(* A row is counted when it is appended. *)
LEMMA DashboardUse ==
  ASSUME LedgerInv, LedgerInv', DashboardInv, Use
  PROVE  DashboardInv'
  <1>1. /\ NextRow \in Rows /\ FilesGrow({NextRow}) /\ NextRow' = NextRow + 1 /\ NextRow \in Nat
        /\ clock.day \in Nat /\ clock'.day = clock.day
    BY AppendFacts, AppendGrows, RowsAreNumbers
       DEF Use, LedgerInv, LedgerTypes, Clocks, NextRow
  <1>2. /\ counts' = Recorded(counts, {NextRow}) /\ scan' = scan
        /\ seen' = [seen EXCEPT !.dayOf = [seen.dayOf EXCEPT ![NextRow] = clock.day],
                                !.midScan = IF scan = Idle THEN seen.midScan
                                            ELSE seen.midScan \cup {NextRow}]
    BY DEF Use
  <1>3. /\ seen' \in SeenStates /\ seen'.scanned = seen.scanned
        /\ seen'.midScan = IF scan = Idle THEN seen.midScan ELSE seen.midScan \cup {NextRow}
        /\ seen'.dayOf = [seen.dayOf EXCEPT ![NextRow] = clock.day]
        /\ seen.dayOf \in [Rows -> Nat]
    BY <1>1, <1>2 DEF DashboardInv, DashboardTypes, SeenStates
  <1>4. /\ seen'.dayOf[NextRow] = clock.day
        /\ \A r \in Rows \ {NextRow} : seen'.dayOf[r] = seen.dayOf[r]
    BY <1>1, <1>3
  <1>5. /\ counts' \in CountStates /\ counts'.day = clock.day
        /\ \A r \in Rows : counts'.rows[r] = (IF counts.day = clock.day THEN counts.rows[r] ELSE 0)
                                             + (IF r = NextRow THEN 1 ELSE 0)
    BY <1>1, <1>2, RecordedFacts DEF DashboardInv, DashboardTypes, CountStates
  <1>6. /\ \A r \in Rows : counts.rows[r] \in Nat
        /\ counts.day \in Nat /\ counts.day <= clock.day
        /\ \A r \in Rows : seen.dayOf[r] <= counts.day /\ seen.dayOf[r] \in Nat
    BY <1>3 DEF DashboardInv, DashboardTypes
  <1>7. DashboardTypes'
    <2>1. ASSUME NEW r \in Rows
          PROVE  seen'.dayOf[r] <= counts'.day
      <3>1. CASE r = NextRow
        BY <1>1, <1>4, <1>5, <3>1
      <3>2. CASE r # NextRow
        <4>1. seen'.dayOf[r] = seen.dayOf[r]
          BY <1>4, <3>2
        <4>2. seen.dayOf[r] <= counts.day /\ seen.dayOf[r] \in Nat
          BY <1>6
        <4>3. counts.day \in Nat /\ counts.day <= clock.day /\ counts'.day = clock.day
          BY <1>5, <1>6
        <4> QED BY <1>1, <4>1, <4>2, <4>3
      <3> QED BY <3>1, <3>2
    <2> QED BY <1>1, <1>2, <1>3, <1>5, <2>1 DEF DashboardInv, DashboardTypes, CountStates
  <1>8. (Scanning' <=> Scanning) /\ (Scanned' <=> Scanned)
    BY <1>2, <1>3 DEF Scanning, Scanned
  <1>9. /\ \A r \in Rows : r = NextRow => Counted(r)'
        /\ \A r \in Rows \ {NextRow} : Counted(r)' <=> (counts.day = clock.day /\ Counted(r))
    <2>1. counts'.rows[NextRow] = (IF counts.day = clock.day THEN counts.rows[NextRow] ELSE 0) + 1
          /\ counts.rows[NextRow] \in Nat
      BY <1>1, <1>5, <1>6
    <2>2. ASSUME NEW r \in Rows \ {NextRow}
          PROVE  /\ counts'.rows[r] = (IF counts.day = clock.day THEN counts.rows[r] ELSE 0) + 0
                 /\ counts.rows[r] \in Nat
      BY <1>5, <1>6, <2>2
    <2>3. counts'.rows[NextRow] >= 1
      BY <2>1
    <2>4. ASSUME NEW r \in Rows \ {NextRow}
          PROVE  counts'.rows[r] >= 1 <=> (counts.day = clock.day /\ counts.rows[r] >= 1)
      <3>1. CASE counts.day = clock.day
        BY <2>2, <3>1
      <3>2. CASE counts.day # clock.day
        BY <2>2, <3>2
      <3> QED BY <3>1, <3>2
    <2>5. \A r \in Rows : r = NextRow => Counted(r)'
      BY <2>3 DEF Counted
    <2>6. \A r \in Rows \ {NextRow} : Counted(r)' <=> (counts.day = clock.day /\ Counted(r))
      BY <2>4 DEF Counted
    <2> QED BY <2>5, <2>6
  <1>10. CountsSound'
    <2> SUFFICES ASSUME Scanning \/ Scanned, NEW r \in Rows
                 PROVE  /\ Counted(r)' => seen'.dayOf[r] = counts'.day /\ r < NextRow'
                        /\ counts'.rows[r] >= 2 => r \in seen'.midScan
      BY <1>8 DEF CountsSound
    <2>1. r \in Nat
      BY RowsAreNumbers
    <2>2. /\ Counted(r) => seen.dayOf[r] = counts.day /\ r < NextRow
          /\ counts.rows[r] >= 2 => r \in seen.midScan
      BY DEF DashboardInv, CountsSound
    <2>3. CASE r = NextRow
      <3>1. ~ Counted(r)
        BY <1>1, <2>2, <2>3
      <3>2. counts'.rows[r] <= 1
        BY <1>5, <1>6, <3>1 DEF Counted
      <3> QED BY <1>1, <1>4, <1>5, <1>6, <2>3, <3>2
    <2>4. CASE r # NextRow
      <3>1. counts'.rows[r] = (IF counts.day = clock.day THEN counts.rows[r] ELSE 0)
        BY <1>5, <1>6, <2>4
      <3>2. counts'.rows[r] >= 2 => r \in seen'.midScan
        BY <1>3, <2>2, <3>1
      <3>3. Counted(r)' => seen'.dayOf[r] = counts'.day /\ r < NextRow'
        BY <1>1, <1>4, <1>5, <1>9, <2>1, <2>2, <2>4
      <3> QED BY <3>2, <3>3
    <2> QED BY <2>3, <2>4
  <1>11. LogRows' \subseteq LogRows \cup {NextRow} /\ LogRows' \subseteq Rows
    BY <1>1, RowsInOrderNext DEF FilesGrow, RowsOrdered
  <1>12. ASSUME NEW r \in LogRows', r # NextRow, seen'.dayOf[r] = counts'.day
         PROVE  r \in LogRows /\ seen.dayOf[r] = counts.day /\ counts.day = clock.day
    BY <1>4, <1>5, <1>6, <1>11, <1>12
  <1>13. CountsComplete'
    <2> SUFFICES ASSUME Scanned, NEW r \in LogRows', seen'.dayOf[r] = counts'.day
                 PROVE  Counted(r)'
      BY <1>8 DEF CountsComplete
    <2> QED BY <1>9, <1>11, <1>12 DEF DashboardInv, CountsComplete
  <1>14. ScanOnItsWay'
    <2> SUFFICES ASSUME Scanning
                 PROVE  /\ counts'.day = clock'.day
                        /\ Unread' \subseteq seen'.midScan
                        /\ \A r \in seen'.midScan : Counted(r)'
                        /\ scan.phase = "start" => \A r \in Rows : Counted(r)' => r \in seen'.midScan
                        /\ scan.phase = "reading" =>
                              /\ scan.wanted = counts'.day
                              /\ \A r \in LogRows' : seen'.dayOf[r] = counts'.day =>
                                    \/ Counted(r)'
                                    \/ \E n \in scan.names \cap Listing' : r \in Readable(FileAt(n)'.bytes)
                              /\ \A n \in scan.names \cap Listing' : \A r \in Readable(FileAt(n)'.bytes) :
                                    Counted(r)' => r \in seen'.midScan
      BY <1>2, <1>8 DEF ScanOnItsWay
    <2>1. counts.day = clock.day /\ scan # Idle /\ seen'.midScan = seen.midScan \cup {NextRow}
      BY <1>3 DEF DashboardInv, ScanOnItsWay, Scanning
    <2>2. Unread' \subseteq seen'.midScan
      BY <1>1, <2>1 DEF DashboardInv, ScanOnItsWay, FilesGrow
    <2>3. seen.midScan \subseteq Rows
      BY DEF DashboardInv, DashboardTypes, SeenStates
    <2>4. \A r \in seen'.midScan : Counted(r)'
      BY <1>1, <1>9, <2>1, <2>3 DEF DashboardInv, ScanOnItsWay
    <2>5. scan.phase = "start" => \A r \in Rows : Counted(r)' => r \in seen'.midScan
      BY <1>9, <2>1 DEF DashboardInv, ScanOnItsWay
    <2>6. ASSUME scan.phase = "reading"
          PROVE  /\ scan.wanted = counts'.day
                 /\ \A r \in LogRows' : seen'.dayOf[r] = counts'.day =>
                       \/ Counted(r)'
                       \/ \E n \in scan.names \cap Listing' : r \in Readable(FileAt(n)'.bytes)
                 /\ \A n \in scan.names \cap Listing' : \A r \in Readable(FileAt(n)'.bytes) :
                       Counted(r)' => r \in seen'.midScan
      <3>1. /\ scan.wanted = counts.day
            /\ \A r \in LogRows : seen.dayOf[r] = counts.day =>
                  \/ Counted(r)
                  \/ \E n \in scan.names \cap Listing : r \in Readable(FileAt(n).bytes)
            /\ \A n \in scan.names \cap Listing : \A r \in Readable(FileAt(n).bytes) :
                  Counted(r) => r \in seen.midScan
        BY <2>6 DEF DashboardInv, ScanOnItsWay
      <3>2. Listing' = Listing /\ \A n : FileAt(n)' = FileAt(n)
        BY DEF Use, AppendRow, Listing, FileAt
      <3>3. \A n \in Listing : Readable(FileAt(n).bytes) \subseteq LogRows
        BY NamesOfFiles DEF FilesNamed
      <3>4. LogRows \subseteq Rows
        BY RowsInOrder DEF RowsOrdered
      <3>5. ASSUME NEW r \in LogRows', seen'.dayOf[r] = counts'.day, ~ Counted(r)'
            PROVE  \E n \in scan.names \cap Listing' : r \in Readable(FileAt(n)'.bytes)
        <4>1. r # NextRow /\ r \in Rows
          BY <1>9, <1>11, <3>5
        <4>2. r \in LogRows /\ seen.dayOf[r] = counts.day /\ ~ Counted(r)
          BY <1>9, <1>12, <3>5, <4>1
        <4> QED BY <3>1, <3>2, <4>2
      <3>6. ASSUME NEW n \in scan.names \cap Listing', NEW r \in Readable(FileAt(n)'.bytes), Counted(r)'
            PROVE  r \in seen'.midScan
        <4>1. r \in Readable(FileAt(n).bytes) /\ n \in scan.names \cap Listing /\ r \in Rows
          BY <3>2, <3>3, <3>4, <3>6
        <4> QED BY <1>9, <2>1, <3>1, <3>6, <4>1
      <3> QED BY <1>5, <2>1, <3>1, <3>5, <3>6
    <2> QED BY <1>1, <1>5, <2>2, <2>4, <2>5, <2>6
  <1> QED BY <1>7, <1>10, <1>13, <1>14 DEF DashboardInv

(* A file that moves or goes, and midnight, put an end to the scan's promise. *)
LEMMA DashboardMoved ==
  ASSUME LedgerInv, LedgerInv', DashboardInv, NEW moves \in BOOLEAN, Moved(moves),
         LogRows' \subseteq LogRows, NextRow' = NextRow,
         clock.day \in Nat, clock'.day \in Nat, clock.day <= clock'.day
  PROVE  DashboardInv'
  <1>1. /\ counts' = counts /\ scan' = IF scan = Idle THEN Idle ELSE [scan EXCEPT !.moved = TRUE]
        /\ seen' = [seen EXCEPT !.disturbed = seen.disturbed \/ (moves /\ sync # Idle)]
    BY DEF Moved
  <1>2. SeenStays
    <2>1. (seen.disturbed \/ (moves /\ sync # Idle)) \in BOOLEAN
      BY DEF DashboardInv, DashboardTypes, SeenStates
    <2> QED BY <1>1, <2>1 DEF SeenStays, DashboardInv, DashboardTypes, SeenStates
  <1>3. /\ scan' \in ScanStates \cup {Idle} /\ (scan = Idle => scan' = Idle)
        /\ scan # Idle => scan'.moved /\ ~ seen.scanned
    BY <1>1 DEF DashboardInv, DashboardTypes, ScanStates
  <1>4. DashboardTypes'
    <2>1. counts.day \in Nat /\ counts.day <= clock.day /\ \A r \in Rows : seen.dayOf[r] <= counts.day
      BY DEF DashboardInv, DashboardTypes
    <2>2. counts'.day <= clock'.day /\ \A r \in Rows : seen'.dayOf[r] <= counts'.day
      BY <1>1, <1>2, <2>1 DEF SeenStays
    <2>3. seen' \in SeenStates /\ seen'.scanned = seen.scanned
      BY <1>2 DEF SeenStays
    <2>4. scan' # Idle => ~ seen'.scanned
      BY <1>3, <2>3
    <2>5. counts' \in [day : Nat, rows : [Rows -> Nat]]
      BY <1>1 DEF DashboardInv, DashboardTypes
    <2> QED BY <1>3, <2>2, <2>3, <2>4, <2>5 DEF DashboardTypes
  <1>5. ~ Scanning' /\ (Scanned' => Scanned)
    BY <1>2, <1>3 DEF Scanning, Scanned, SeenStays
  <1>6. CountsSound' /\ CountsComplete' /\ ScanOnItsWay'
    BY <1>1, <1>2, <1>5 DEF DashboardInv, CountsSound, CountsComplete, ScanOnItsWay, Counted, SeenStays
  <1> QED BY <1>4, <1>6 DEF DashboardInv

(* After a start the counters are empty, and so are the stream and the queue. *)
LEMMA DashboardStarts ==
  ASSUME LedgerInv', seen' \in SeenStates, seen'.midScan = {}, ~ seen'.scanned, scan' \in Scans,
         clock'.day \in Nat, counts' = [day |-> clock'.day, rows |-> Nothing],
         \A r \in Rows : seen'.dayOf[r] <= clock'.day,
         ledger'.buffer = <<>>, ledger'.pending = <<>>
  PROVE  DashboardInv'
  <1>1. Nothing \in [Rows -> Nat] /\ \A r \in Rows : Nothing[r] = 0
    BY DEF Nothing
  <1>2. DashboardTypes'
    <2>1. counts' \in [day : Nat, rows : [Rows -> Nat]] /\ counts'.day = clock'.day
      BY <1>1
    <2>2. scan' \in ScanStates \cup {Idle}
      <3>1. [phase |-> "start", moved |-> FALSE] \in [phase : {"start"}, moved : BOOLEAN]
        OBVIOUS
      <3> QED BY <3>1 DEF Scans, ScanStates
    <2>3. counts'.day <= clock'.day /\ \A r \in Rows : seen'.dayOf[r] <= counts'.day
      BY <2>1
    <2> QED BY <2>1, <2>2, <2>3 DEF DashboardTypes
  <1>3. \A r \in Rows : ~ Counted(r)' /\ ~ (counts'.rows[r] >= 2)
    BY <1>1 DEF Counted
  <1>4. ~ Scanned' /\ (scan' # Idle => scan'.phase = "start")
    BY DEF Scanned, Scans
  <1>5. Unread' = {}
    BY NothingHeld DEF Unread
  <1>6. CountsSound' /\ CountsComplete'
    BY <1>3, <1>4 DEF CountsSound, CountsComplete
  <1>7. ScanOnItsWay'
    BY <1>3, <1>4, <1>5 DEF ScanOnItsWay, Scanning
  <1> QED BY <1>2, <1>6, <1>7 DEF DashboardInv

(* The scan lists the files. *)
LEMMA DashboardList ==
  ASSUME LedgerInv, LedgerInv', DashboardInv, ScanList
  PROVE  DashboardInv'
  <1>1. /\ scan # Idle /\ scan.phase = "start"
        /\ scan' = [phase |-> "reading", names |-> Listing, wanted |-> clock.day, moved |-> scan.moved]
        /\ counts' = counts /\ seen' = seen /\ UNCHANGED ledgerVars
    BY DEF ScanList, ledgerVars
  <1>2. /\ Unread' = Unread /\ LogRows' = LogRows /\ NextRow' = NextRow /\ clock' = clock
        /\ Listing' = Listing /\ \A n : FileAt(n)' = FileAt(n)
    BY <1>1 DEF ledgerVars, Unread, LogRows, ArchiveRows, Stream, LiveBytes, Queued, NextRow,
                Listing, FileAt
  <1>3. FilesNamed /\ clock.day \in Nat /\ scan.moved \in BOOLEAN
    BY <1>1, NamesOfFiles DEF LedgerInv, LedgerTypes, Clocks, DashboardInv, DashboardTypes, ScanStates
  <1>4. scan' \in ScanStates /\ scan'.moved = scan.moved /\ scan'.phase = "reading"
        /\ scan'.names = Listing /\ scan'.wanted = clock.day
    BY <1>1, <1>3 DEF ScanStates, FilesNamed
  <1>5. DashboardTypes'
    BY <1>1, <1>2, <1>4 DEF DashboardInv, DashboardTypes
  <1>6. /\ Scanning' => Scanning
        /\ ~ Scanned'
        /\ \A r : Counted(r)' <=> Counted(r)
    BY <1>1, <1>4 DEF DashboardInv, DashboardTypes, Scanning, Scanned, Counted
  <1>7. CountsSound' /\ CountsComplete'
    BY <1>1, <1>2, <1>6 DEF DashboardInv, CountsSound, CountsComplete
  <1>8. ScanOnItsWay'
    <2> SUFFICES ASSUME Scanning
                 PROVE  ScanOnItsWay'
      BY <1>6 DEF ScanOnItsWay
    <2>1. /\ counts.day = clock.day /\ Unread \subseteq seen.midScan
          /\ \A r \in seen.midScan : Counted(r)
          /\ \A r \in Rows : Counted(r) => r \in seen.midScan
      BY <1>1 DEF DashboardInv, ScanOnItsWay
    <2>2. LogRows \subseteq Rows
      BY RowsInOrder DEF RowsOrdered
    <2>3. ASSUME NEW r \in LogRows, ~ Counted(r)
          PROVE  \E n \in Listing : r \in Readable(FileAt(n).bytes)
      BY <1>3, <2>1, <2>3 DEF FilesNamed
    <2>4. \A n \in Listing : \A r \in Readable(FileAt(n).bytes) : Counted(r) => r \in seen.midScan
      BY <1>3, <2>1, <2>2 DEF FilesNamed
    <2> QED BY <1>1, <1>2, <1>4, <1>6, <2>1, <2>3, <2>4 DEF ScanOnItsWay
  <1> QED BY <1>5, <1>7, <1>8 DEF DashboardInv

(* The first of some names, in the order in which they are read. *)
LEMMA FirstOfNames ==
  ASSUME NEW names \in SUBSET Nat, names # {}
  PROVE  First(names) \in names
  <1> SUFFICES \E n \in names : \A m \in names \ {n} : Before(n, m)
    BY DEF First
  <1>1. CASE names = {LiveName}
    BY <1>1
  <1>2. CASE names # {LiveName}
    <2>1. names \ {LiveName} # {} /\ names \ {LiveName} \in SUBSET Nat
      BY <1>2
    <2>2. PICK n \in names \ {LiveName} : \A m \in names \ {LiveName} : n <= m
      BY <2>1, NatMinimum
    <2>3. \A m \in names \ {n} : Before(n, m)
      BY <2>2 DEF Before
    <2> QED BY <2>2, <2>3
  <1> QED BY <1>1, <1>2

(* The scan reads one file, or finds it gone. *)
LEMMA DashboardRead ==
  ASSUME LedgerInv, LedgerInv', DashboardInv, ScanRead
  PROVE  DashboardInv'
  <1> DEFINE name == First(scan.names)
             all == IF name \in Listing THEN Readable(FileAt(name).bytes) ELSE {}
             wanted == {r \in all : seen.dayOf[r] = scan.wanted}
  <1>1. /\ scan # Idle /\ scan.phase = "reading" /\ scan.names # {}
        /\ counts' = IF wanted = {} THEN counts ELSE Recorded(counts, wanted)
        /\ scan' = [scan EXCEPT !.names = scan.names \ {name}]
        /\ seen' = seen /\ UNCHANGED ledgerVars
    BY DEF ScanRead, ledgerVars
  <1>2. /\ Unread' = Unread /\ LogRows' = LogRows /\ NextRow' = NextRow /\ clock' = clock
        /\ Listing' = Listing /\ \A n : FileAt(n)' = FileAt(n)
    BY <1>1 DEF ledgerVars, Unread, LogRows, ArchiveRows, Stream, LiveBytes, Queued, NextRow,
                Listing, FileAt
  <1>3. /\ FilesNamed /\ clock.day \in Nat /\ scan.moved \in BOOLEAN
        /\ scan \in [phase : {"reading"}, names : SUBSET Nat, wanted : Nat, moved : BOOLEAN]
    BY <1>1, NamesOfFiles DEF LedgerInv, LedgerTypes, Clocks, DashboardInv, DashboardTypes, ScanStates
  <1>4. name \in scan.names
    BY <1>1, <1>3, FirstOfNames
  <1> HIDE DEF name
  <1>5. /\ scan' \in ScanStates /\ scan'.moved = scan.moved /\ scan'.phase = "reading"
        /\ scan'.names = scan.names \ {name} /\ scan'.wanted = scan.wanted
    BY <1>1, <1>3 DEF ScanStates
  <1>6. /\ LogRows \subseteq Rows /\ all \subseteq LogRows /\ wanted \subseteq Rows
        /\ \A r \in wanted : r < NextRow
    BY <1>3, RowsInOrder DEF FilesNamed, RowsOrdered
  <1>7. /\ counts \in CountStates /\ counts.day \in Nat /\ counts.day <= clock.day
        /\ \A r \in Rows : counts.rows[r] \in Nat /\ seen.dayOf[r] \in Nat
        /\ \A r \in Rows : seen.dayOf[r] <= counts.day
    BY DEF DashboardInv, DashboardTypes, CountStates, SeenStates
  <1> HIDE DEF wanted
  <1>8. /\ counts' \in CountStates /\ counts.day <= counts'.day /\ counts'.day <= clock.day
        /\ \A r \in Rows : counts'.rows[r] \in Nat
    BY <1>1, <1>3, <1>6, <1>7, RecordedFacts DEF CountStates
  <1>9. DashboardTypes'
    <2>1. \A r \in Rows : seen.dayOf[r] <= counts'.day
      <3>1. counts'.day \in Nat
        BY <1>8 DEF CountStates
      <3> QED BY <1>7, <1>8, <3>1
    <2> QED BY <1>1, <1>2, <1>5, <1>8, <2>1 DEF DashboardInv, DashboardTypes, CountStates
  <1>10. (Scanning' => Scanning) /\ ~ Scanned'
    BY <1>1, <1>5 DEF DashboardInv, DashboardTypes, Scanning, Scanned
  <1>11. CountsComplete'
    BY <1>10 DEF CountsComplete
  <1>12. ASSUME Scanning
         PROVE  /\ \A r \in Rows : Counted(r)' => seen.dayOf[r] = counts'.day /\ r < NextRow
                /\ \A r \in Rows : counts'.rows[r] >= 2 => r \in seen.midScan
                /\ ScanOnItsWay'
    <2>1. /\ counts.day = clock.day /\ scan.wanted = counts.day
          /\ Unread \subseteq seen.midScan
          /\ \A r \in seen.midScan : Counted(r)
          /\ \A r \in LogRows : seen.dayOf[r] = counts.day =>
                \/ Counted(r)
                \/ \E n \in scan.names \cap Listing : r \in Readable(FileAt(n).bytes)
          /\ \A n \in scan.names \cap Listing : \A r \in Readable(FileAt(n).bytes) :
                Counted(r) => r \in seen.midScan
      BY <1>1, <1>12 DEF DashboardInv, ScanOnItsWay
    <2>2. /\ counts'.day = counts.day
          /\ \A r \in Rows : counts'.rows[r] = counts.rows[r] + (IF r \in wanted THEN 1 ELSE 0)
      <3>1. CASE wanted = {}
        BY <1>1, <1>7, <3>1
      <3>2. CASE wanted # {}
        <4>1. counts' = Recorded(counts, wanted)
          BY <1>1, <3>2
        <4> QED BY <1>3, <1>6, <1>7, <2>1, <4>1, RecordedFacts
      <3> QED BY <3>1, <3>2
    <2>3. \A r \in Rows : Counted(r)' <=> (Counted(r) \/ r \in wanted)
      <3> SUFFICES ASSUME NEW r \in Rows
                   PROVE  counts'.rows[r] >= 1 <=> (counts.rows[r] >= 1 \/ r \in wanted)
        BY DEF Counted
      <3>1. counts.rows[r] \in Nat
        BY <1>7
      <3>2. CASE r \in wanted
        BY <2>2, <3>1, <3>2
      <3>3. CASE r \notin wanted
        BY <2>2, <3>1, <3>3
      <3> QED BY <3>2, <3>3
    <2>4. \A r \in wanted : seen.dayOf[r] = counts.day /\ r \in all
      BY <2>1 DEF wanted
    <2>5. \A r \in Rows : Counted(r)' => seen.dayOf[r] = counts'.day /\ r < NextRow
      BY <1>6, <1>12, <2>2, <2>3, <2>4 DEF DashboardInv, CountsSound
    <2>6. \A r \in wanted : Counted(r) => r \in seen.midScan
      BY <1>4, <2>1, <2>4
    <2>7. ASSUME NEW r \in Rows, counts'.rows[r] >= 2
          PROVE  r \in seen.midScan
      <3>1. counts.rows[r] \in Nat
        BY <1>7
      <3>2. CASE r \in wanted
        <4>1. counts.rows[r] >= 1
          BY <2>2, <2>7, <3>1, <3>2
        <4> QED BY <2>6, <3>2, <4>1 DEF Counted
      <3>3. CASE r \notin wanted
        <4>1. counts.rows[r] >= 2
          BY <2>2, <2>7, <3>1, <3>3
        <4> QED BY <1>12, <4>1 DEF DashboardInv, CountsSound
      <3> QED BY <3>2, <3>3
    <2>8. ASSUME NEW r \in LogRows, seen.dayOf[r] = counts.day, ~ Counted(r)'
          PROVE  \E n \in scan'.names \cap Listing : r \in Readable(FileAt(n).bytes)
      <3>1. r \in Rows /\ ~ Counted(r) /\ r \notin wanted
        BY <1>6, <2>3, <2>8
      <3>2. PICK n \in scan.names \cap Listing : r \in Readable(FileAt(n).bytes)
        BY <2>1, <2>8, <3>1
      <3>3. n # name
        BY <2>1, <2>8, <3>1, <3>2 DEF wanted
      <3> QED BY <1>5, <3>2, <3>3
    <2>9. ASSUME NEW n \in scan'.names \cap Listing, NEW r \in Readable(FileAt(n).bytes), Counted(r)'
          PROVE  r \in seen.midScan
      <3>1. n \in scan.names \cap Listing /\ n # name /\ r \in Rows
        BY <1>3, <1>5, <1>6, <2>9 DEF FilesNamed
      <3>2. r \notin all
        BY <1>3, <2>9, <3>1 DEF FilesNamed
      <3>3. Counted(r)
        BY <2>3, <2>4, <2>9, <3>1, <3>2
      <3> QED BY <2>1, <2>9, <3>1, <3>3
    <2>10. seen.midScan \subseteq Rows
      BY DEF DashboardInv, DashboardTypes, SeenStates
    <2>11. \A r \in seen.midScan : Counted(r)'
      BY <2>1, <2>3, <2>10
    <2>12. ScanOnItsWay'
      BY <1>1, <1>2, <1>5, <2>1, <2>2, <2>8, <2>9, <2>11 DEF ScanOnItsWay
    <2> QED BY <2>5, <2>7, <2>12
  <1>13. CountsSound'
    BY <1>1, <1>2, <1>10, <1>12 DEF CountsSound
  <1>14. ScanOnItsWay'
    BY <1>10, <1>12 DEF ScanOnItsWay
  <1> QED BY <1>9, <1>11, <1>13, <1>14 DEF DashboardInv

(* The scan ends. *)
LEMMA DashboardEnd ==
  ASSUME LedgerInv, LedgerInv', DashboardInv, ScanEnd
  PROVE  DashboardInv'
  <1>1. /\ scan # Idle /\ scan.phase = "reading" /\ scan.names = {} /\ scan' = Idle
        /\ counts' = counts /\ seen' = [seen EXCEPT !.scanned = ~ scan.moved] /\ UNCHANGED ledgerVars
    BY DEF ScanEnd, ledgerVars
  <1>2. LogRows' = LogRows /\ NextRow' = NextRow /\ clock' = clock
    BY <1>1 DEF ledgerVars, LogRows, ArchiveRows, Stream, LiveBytes, Queued, NextRow
  <1>3. /\ seen' \in SeenStates /\ seen'.scanned = ~ scan.moved /\ seen'.midScan = seen.midScan
        /\ seen'.dayOf = seen.dayOf
    BY <1>1 DEF DashboardInv, DashboardTypes, SeenStates
  <1>4. DashboardTypes'
    BY <1>1, <1>2, <1>3 DEF DashboardInv, DashboardTypes
  <1>5. ~ Scanning' /\ (Scanned' => Scanning) /\ \A r : Counted(r)' <=> Counted(r)
    BY <1>1, <1>3 DEF Scanning, Scanned, Counted
  <1>6. CountsSound'
    BY <1>1, <1>2, <1>3, <1>5 DEF DashboardInv, CountsSound
  <1>7. CountsComplete'
    BY <1>1, <1>2, <1>3, <1>5 DEF DashboardInv, ScanOnItsWay, CountsComplete
  <1>8. ScanOnItsWay'
    BY <1>5 DEF ScanOnItsWay
  <1> QED BY <1>4, <1>6, <1>7, <1>8 DEF DashboardInv

LEMMA DashboardStep ==
  ASSUME LedgerInv, LedgerInv', DashboardInv, [HistoryNext]_historyVars
  PROVE  DashboardInv'
  <1>1. seen \in SeenStates /\ clock.day \in Nat /\ clock'.day \in Nat
    BY DEF LedgerInv, LedgerTypes, Clocks, DashboardInv, DashboardTypes
  <1>2. CASE UNCHANGED historyVars
    <2>1. UNCHANGED ledgerVars /\ counts' = counts /\ scan' = scan /\ seen' = seen
      BY <1>2 DEF historyVars, ledgerVars
    <2>2. FilesGrow({}) /\ NextRow' = NextRow /\ SeenStays
      BY <1>1, <2>1, StepsGrow DEF GrowingSteps, ledgerVars, NextRow, SeenStays
    <2> QED BY <2>1, <2>2, DashboardQuiet
  <1>3. CASE Use
    BY <1>3, DashboardUse
  <1>4. CASE LedgerWrites \/ FileOpens
    <2>1. GrowingSteps /\ counts' = counts /\ scan' = scan
      BY <1>4 DEF LedgerWrites, FileOpens, GrowingSteps, readers
    <2>2. SeenStays
      <3>1. (seen.disturbed \/ FreeInode \in DOMAIN sources) \in BOOLEAN
        BY <1>1 DEF SeenStates
      <3> QED BY <1>1, <1>4, <3>1 DEF LedgerWrites, FileOpens, readers, SeenStays, SeenStates
    <2>3. NextRow' = NextRow
      BY <1>4 DEF LedgerWrites, FileOpens, WriteByte, WriteFails, RotateFails, EndCleanup, Maintain,
                  Close, OpenFile, NextRow, LedgerInv, LedgerTypes, Clocks
    <2> QED BY <2>1, <2>2, <2>3, StepsGrow, DashboardQuiet
  <1>5. CASE FileMoves \/ FileGoes \/ DayPasses
    <2>1. \E moves \in BOOLEAN : Moved(moves)
      BY <1>5 DEF FileMoves, FileGoes, DayPasses
    <2>2. LogRows' \subseteq LogRows
      BY <1>5, RotationMoves, RemovalExpires, QuietSteps
         DEF FileMoves, FileGoes, DayPasses, LogStays, Log!Expire
    <2>3. NextRow' = NextRow /\ clock.day <= clock'.day
      <3>1. \/ clock' = clock \/ clock' = [clock EXCEPT !.renamed = clock.renamed + 1]
            \/ clock' = [clock EXCEPT !.day = clock.day + 1]
        BY <1>5 DEF FileMoves, FileGoes, DayPasses, Rotate, RemoveArchive, Midnight
      <3>2. clock'.rows = clock.rows /\ (clock'.day = clock.day \/ clock'.day = clock.day + 1)
        BY <3>1 DEF LedgerInv, LedgerTypes, Clocks
      <3> QED BY <1>1, <3>2 DEF NextRow
    <2> QED BY <1>1, <2>1, <2>2, <2>3, DashboardMoved
  <1>6. CASE Restart
    <2>1. /\ RestartLedger /\ Restarts /\ scan' \in Scans
          /\ counts' = [day |-> clock.day, rows |-> Nothing]
          /\ seen' = [seen EXCEPT !.ok = FALSE, !.disturbed = FALSE, !.midScan = {}, !.scanned = FALSE]
      BY <1>6 DEF Restart, Restarts
    <2>2. clock'.day = clock.day /\ ledger'.buffer = <<>> /\ ledger'.pending = <<>>
      BY <2>1, RestartFacts
    <2>3. /\ seen' \in SeenStates /\ seen'.midScan = {} /\ ~ seen'.scanned /\ seen'.dayOf = seen.dayOf
      BY <1>1, <2>1 DEF SeenStates
    <2>4. \A r \in Rows : seen'.dayOf[r] <= clock'.day
      <3>1. \A r \in Rows : seen.dayOf[r] \in Nat /\ seen.dayOf[r] <= counts.day
        BY DEF DashboardInv, DashboardTypes, SeenStates
      <3>2. counts.day \in Nat /\ counts.day <= clock.day
        BY DEF DashboardInv, DashboardTypes
      <3> QED BY <1>1, <2>2, <2>3, <3>1, <3>2
    <2> QED BY <1>1, <2>1, <2>2, <2>3, <2>4, DashboardStarts
  <1>7. CASE SyncList \/ SyncStat \/ SyncRead \/ SyncEnd
    <2>1. UNCHANGED ledgerVars /\ counts' = counts /\ scan' = scan
      BY <1>7 DEF SyncList, SyncStat, SyncRead, SyncEnd, ledgerVars
    <2>2. SeenStays
      <3>1. CASE SyncList
        <4>1. seen' = [seen EXCEPT !.syncs = seen.syncs + 1, !.ok = FALSE, !.target = {}]
          BY <3>1 DEF SyncList
        <4>2. seen.syncs + 1 \in Nat /\ {} \in SUBSET Rows
          BY <1>1 DEF SeenStates
        <4> QED BY <1>1, <4>1, <4>2 DEF SeenStays, SeenStates
      <3>2. CASE SyncStat
        <4>1. PICK some, again : /\ some \subseteq Listing /\ again \in BOOLEAN
                                 /\ seen' = [seen EXCEPT !.target = UNION {Readable(FileAt(n).bytes) : n \in some},
                                                         !.disturbed = ~ again /\ seen.disturbed]
          <5> DEFINE names   == sync.names \cap Listing
                     files   == [n \in names |-> [ino |-> FileAt(n).ino, size |-> Len(FileAt(n).bytes)]]
                     gone    == \E ino \in DOMAIN sources : \A n \in names : files[n].ino # ino
                     shorter == \E n \in names : /\ files[n].ino \in DOMAIN sources
                                                 /\ files[n].size < sources[files[n].ino]
                     again   == gone \/ shorter
          <5>1. /\ names \subseteq Listing /\ again \in BOOLEAN
                /\ seen' = [seen EXCEPT !.target = UNION {Readable(FileAt(n).bytes) : n \in names},
                                        !.disturbed = ~ again /\ seen.disturbed]
            BY <3>2 DEF SyncStat
          <5> HIDE DEF names, files, gone, shorter, again
          <5> QED BY <5>1
        <4>2. UNION {Readable(FileAt(n).bytes) : n \in some} \in SUBSET Rows
          BY <4>1, NamesOfFiles, RowsInOrder DEF FilesNamed, RowsOrdered
        <4>3. (~ again /\ seen.disturbed) \in BOOLEAN
          OBVIOUS
        <4> QED BY <1>1, <4>1, <4>2, <4>3 DEF SeenStays, SeenStates
      <3>3. CASE SyncRead
        <4>1. seen' = seen \/ seen' = [seen EXCEPT !.ok = FALSE]
          BY <3>3 DEF SyncRead
        <4> QED BY <1>1, <4>1 DEF SeenStays, SeenStates
      <3>4. CASE SyncEnd
        BY <1>1, <3>4 DEF SyncEnd, SeenStays, SeenStates
      <3> QED BY <1>7, <3>1, <3>2, <3>3, <3>4
    <2>3. FilesGrow({}) /\ NextRow' = NextRow
      BY <2>1, StepsGrow DEF GrowingSteps, ledgerVars, NextRow
    <2> QED BY <2>1, <2>2, <2>3, DashboardQuiet
  <1>8. CASE ScanList \/ ScanRead \/ ScanEnd
    BY <1>8, DashboardList, DashboardRead, DashboardEnd
  <1> QED BY <1>2, <1>3, <1>4, <1>5, <1>6, <1>7, <1>8 DEF HistoryNext

(* What the observers know at first. *)
LEMMA SeenBegins ==
  ASSUME HistoryInit
  PROVE  /\ seen \in SeenStates /\ seen.midScan = {} /\ ~ seen.scanned /\ seen.dayOf = Nothing
         /\ ~ seen.ok
  <1>1. seen \in [syncs : {0, MaxSyncs}, target : {{}}, ok : {FALSE}, disturbed : {FALSE},
                  midScan : {{}}, scanned : {FALSE}, dayOf : {Nothing}]
    BY DEF HistoryInit
  <1>2. Nothing \in [Rows -> Nat]
    BY DEF Nothing
  <1>3. seen.dayOf \in [Rows -> Nat] /\ seen.dayOf = Nothing
    BY <1>1, <1>2
  <1>4. /\ seen.syncs \in {0, MaxSyncs} /\ seen.target = {} /\ seen.midScan = {}
        /\ seen.ok \in {FALSE} /\ seen.disturbed \in {FALSE} /\ seen.scanned \in {FALSE}
    BY <1>1
  <1>5. seen.syncs \in Nat
    BY <1>4, HistoryAssumption
  <1>6. seen.ok \in BOOLEAN /\ seen.disturbed \in BOOLEAN /\ seen.scanned \in BOOLEAN
        /\ ~ seen.scanned /\ ~ seen.ok
    BY <1>4
  <1>7. seen = [syncs |-> seen.syncs, target |-> seen.target, ok |-> seen.ok,
                disturbed |-> seen.disturbed, midScan |-> seen.midScan,
                scanned |-> seen.scanned, dayOf |-> seen.dayOf]
    BY <1>1
  <1> QED BY <1>3, <1>4, <1>5, <1>6, <1>7 DEF SeenStates

LEMMA DashboardBegins == HistoryInit => DashboardInv
  <1> SUFFICES ASSUME HistoryInit PROVE DashboardInv
    OBVIOUS
  <1>1. /\ counts = [day |-> 1, rows |-> Nothing] /\ scan \in Scans
        /\ clock = [day |-> 1, rows |-> 0, faults |-> 0, renamed |-> 0]
        /\ ledger = FreshLedger(0)
    BY DEF HistoryInit, InitLedger
  <1>2. Nothing \in [Rows -> Nat] /\ \A r \in Rows : Nothing[r] = 0
    BY DEF Nothing
  <1>3. seen \in SeenStates /\ seen.midScan = {} /\ ~ seen.scanned /\ seen.dayOf = Nothing
    BY SeenBegins
  <1>4. clock.day = 1 /\ ledger.buffer = <<>> /\ ledger.pending = <<>>
    BY <1>1 DEF FreshLedger
  <1>5. scan \in ScanStates \cup {Idle} /\ (scan # Idle => scan.phase = "start")
    <2>1. [phase |-> "start", moved |-> FALSE] \in [phase : {"start"}, moved : BOOLEAN]
      OBVIOUS
    <2> QED BY <1>1, <2>1 DEF Scans, ScanStates
  <1>6. counts \in [day : Nat, rows : [Rows -> Nat]] /\ counts.day = 1
        /\ \A r \in Rows : counts.rows[r] = 0
    BY <1>1, <1>2
  <1>7. DashboardTypes
    BY <1>2, <1>3, <1>4, <1>5, <1>6 DEF DashboardTypes
  <1>8. \A r \in Rows : ~ Counted(r) /\ ~ (counts.rows[r] >= 2)
    BY <1>6 DEF Counted
  <1>9. CountsSound /\ CountsComplete
    BY <1>3, <1>8 DEF CountsSound, CountsComplete, Scanned
  <1>10. Unread = {}
    BY <1>4, NothingHeld DEF Unread
  <1>11. ScanOnItsWay
    BY <1>3, <1>4, <1>5, <1>6, <1>8, <1>10 DEF ScanOnItsWay, Scanning
  <1> QED BY <1>7, <1>9, <1>11 DEF DashboardInv

LEMMA DashboardHolds == DashboardInv => DashboardCounts
  <1> SUFFICES ASSUME DashboardInv, scan = Idle, seen.scanned
               PROVE  /\ \A r \in LogRows : (seen.dayOf[r] = counts.day) => counts.rows[r] >= 1
                      /\ \A r \in Rows : /\ counts.rows[r] >= 1 => seen.dayOf[r] = counts.day
                                         /\ counts.rows[r] >= 2 => r \in seen.midScan
    BY DEF DashboardCounts
  <1> QED BY DEF DashboardInv, CountsSound, CountsComplete, Scanned, Counted

(* After the scan of the start (scanTodayFromLog) the counters of          *)
(* usage-dashboard.mjs hold every readable row of their day and none of    *)
(* another, unless a file was renamed or removed or midnight passed while  *)
(* it ran; a row counts twice only if it was appended in that time.        *)
THEOREM DashboardCountsTheDay == HistorySpec => []DashboardCounts
  <1>1. HistoryInit => DashboardInv
    BY DashboardBegins
  <1>2. LedgerInv /\ LedgerInv' /\ DashboardInv /\ [HistoryNext]_historyVars => DashboardInv'
    BY DashboardStep
  <1>3. DashboardInv => DashboardCounts
    BY DashboardHolds
  <1> QED BY <1>1, <1>2, <1>3, LedgerInvariant, PTL DEF HistorySpec

-----------------------------------------------------------------------------
(* The index of the history.                                               *)

(* The rows of the first bytes of a file. *)
LEMMA ParsedFacts ==
  ASSUME NEW s \in Seq(Bytes)
  PROVE  /\ Parsed(s, 0) = {} /\ Parsed(s, Len(s)) = Readable(s)
         /\ \A k \in 0 .. Len(s) : Parsed(s, k) \subseteq Readable(s) /\ Parsed(s, k) \subseteq Rows
         /\ \A k, m \in 0 .. Len(s) : k <= m => Parsed(s, k) \subseteq Parsed(s, m)
  <1>1. DOMAIN s = 1 .. Len(s) /\ Len(s) \in Nat
    OBVIOUS
  <1>2. Parsed(s, 0) = {}
    BY DEF Parsed
  <1>3. Parsed(s, Len(s)) = Readable(s)
    BY <1>1 DEF Parsed, Readable
  <1>4. \A k, m \in 0 .. Len(s) : k <= m => Parsed(s, k) \subseteq Parsed(s, m)
    BY DEF Parsed
  <1>5. \A k \in 0 .. Len(s) : Parsed(s, k) \subseteq Readable(s)
    BY <1>1, <1>3, <1>4
  <1> QED BY <1>2, <1>3, <1>4, <1>5, ReadableFacts

(* What is written behind them does not change them. *)
LEMMA ParsedBefore ==
  ASSUME NEW s \in Seq(Bytes), NEW t \in Seq(Bytes), NEW k \in 0 .. Len(s)
  PROVE  /\ Parsed(s \o t, k) = Parsed(s, k) /\ k \in 0 .. Len(s \o t)
         /\ LineEnd(s \o t, k) <=> LineEnd(s, k)
  <1>1. \A i \in 1 .. k : i \in DOMAIN s
    OBVIOUS
  <1>2. \A i \in 1 .. k : (s \o t)[i] = s[i] /\ (ParsesAt(s \o t, i) <=> ParsesAt(s, i))
    BY <1>1, HeldConcat, ReadableConcat
  <1>3. Parsed(s \o t, k) = Parsed(s, k)
    BY <1>2 DEF Parsed
  <1>4. k # 0 => k \in 1 .. k
    OBVIOUS
  <1>5. LineEnd(s \o t, k) <=> LineEnd(s, k)
    BY <1>2, <1>4 DEF LineEnd
  <1>6. k \in 0 .. Len(s \o t)
    BY HeldConcat
  <1> QED BY <1>3, <1>5, <1>6

(* A set of numbers that is bounded has a greatest element. *)
LEMMA BoundedMaximum ==
  ASSUME NEW n \in Nat, NEW S \in SUBSET (0 .. n), S # {}
  PROVE  Max(S) \in S /\ \A y \in S : y <= Max(S)
  <1> DEFINE T == {n - x : x \in S}
  <1>1. T \in SUBSET Nat /\ T # {}
    <2>1. \A x \in S : n - x \in Nat
      OBVIOUS
    <2>2. T \in SUBSET Nat
      BY <2>1
    <2>3. PICK x \in S : TRUE
      OBVIOUS
    <2>4. n - x \in T
      BY <2>3
    <2> QED BY <2>2, <2>4
  <1>2. PICK z \in T : \A y \in T : z <= y
    BY <1>1, NatMinimum
  <1>3. PICK x \in S : z = n - x
    BY <1>2
  <1>4. \A y \in S : x >= y
    BY <1>2, <1>3
  <1>5. Max(S) \in S /\ \A y \in S : Max(S) >= y
    BY <1>3, <1>4 DEF Max
  <1> QED BY <1>5

(* The lines of the bytes after a line's end, up to m, and where the last of them ends. *)
LEMMA ChunkFacts ==
  ASSUME NEW s \in Seq(Bytes), Ascending(s), NEW k \in 0 .. Len(s), LineEnd(s, k),
         NEW m \in k .. Len(s)
  PROVE  LET chunk == SubSeq(s, k + 1, m)
             end   == m - Unfinished(chunk)
         IN /\ end \in k .. m /\ LineEnd(s, end)
            /\ Parsed(s, end) = Parsed(s, m)
            /\ Parsed(s, m) = Parsed(s, k) \cup Readable(chunk)
            /\ Parsed(s, k) \cap Readable(chunk) = {}
  <1> DEFINE chunk == SubSeq(s, k + 1, m)
             ends  == {0} \cup {i \in DOMAIN chunk : Ends(chunk[i])}
             end   == m - Unfinished(chunk)
  <1>1. /\ DOMAIN s = 1 .. Len(s) /\ Len(s) \in Nat /\ k \in Nat /\ m \in Nat /\ k <= m /\ m <= Len(s)
        /\ m - k \in Nat
    OBVIOUS
  <1>2. /\ chunk \in Seq(Bytes) /\ Len(chunk) = m - k /\ DOMAIN chunk = 1 .. (m - k)
        /\ \A i \in 1 .. (m - k) : chunk[i] = s[k + i]
    <2>1. k + 1 \in Int /\ m \in Int /\ \A i \in (k + 1) .. m : s[i] \in Bytes
      OBVIOUS
    <2>2. /\ chunk \in Seq(Bytes) /\ Len(chunk) = IF k + 1 <= m THEN m - (k + 1) + 1 ELSE 0
          /\ \A i \in 1 .. m - (k + 1) + 1 : chunk[i] = s[k + 1 + i - 1]
      BY <2>1, SubSeqProperties
    <2>3. Len(chunk) = m - k
      BY <1>1, <2>2
    <2>4. \A i \in 1 .. (m - k) : i \in 1 .. m - (k + 1) + 1 /\ k + 1 + i - 1 = k + i
      BY <1>1
    <2> QED BY <2>2, <2>3, <2>4
  <1> HIDE DEF chunk
  <1>3. \A i \in 1 .. (m - k) : s[k + i] \in Bytes /\ k + i \in DOMAIN s
    BY <1>1
  <1>4. ASSUME NEW i \in 1 .. (m - k)
        PROVE  ParsesAt(chunk, i) <=> ParsesAt(s, k + i)
    <2>1. chunk[i] = s[k + i]
      BY <1>2
    <2>2. CASE i = 1
      <3>1. ~ ParsesAt(chunk, i)
        BY <2>2 DEF ParsesAt
      <3>2. k > 0 => Ends(s[k])
        BY <1>1 DEF LineEnd
      <3>3. ASSUME ParsesAt(s, k + 1)
            PROVE  FALSE
        <4>1. k + 1 > 1 /\ s[k + 1 - 1] = <<s[k + 1][1], 1>>
          BY <3>3 DEF ParsesAt
        <4>2. k > 0 /\ k + 1 - 1 = k
          BY <1>1, <4>1
        <4>3. s[k][2] = 1
          BY <4>1, <4>2
        <4> QED BY <3>2, <4>2, <4>3 DEF Ends
      <3> QED BY <2>2, <3>1, <3>3
    <2>3. CASE i = 2
      <3>1. 1 \in 1 .. (m - k) /\ chunk[1] = s[k + 1] /\ k + 2 - 1 = k + 1 /\ k + 2 - 2 = k
        BY <1>1, <1>2, <2>3
      <3>2. k + 2 > 2 => Ends(s[k])
        BY <1>1 DEF LineEnd
      <3>3. ParsesAt(chunk, 2) <=> Ends(chunk[2]) /\ chunk[1] = <<chunk[2][1], 1>>
        BY DEF ParsesAt
      <3>4. ParsesAt(s, k + 2) <=> Ends(s[k + 2]) /\ s[k + 1] = <<s[k + 2][1], 1>>
        BY <1>1, <3>1, <3>2 DEF ParsesAt
      <3> QED BY <2>1, <2>3, <3>1, <3>3, <3>4
    <2>4. CASE i > 2
      <3>1. /\ chunk[i - 1] = s[k + i - 1] /\ chunk[i - 2] = s[k + i - 2]
            /\ i > 1 /\ k + i > 1 /\ k + i > 2
        <4>1. i - 1 \in 1 .. (m - k) /\ i - 2 \in 1 .. (m - k)
              /\ k + (i - 1) = k + i - 1 /\ k + (i - 2) = k + i - 2
          BY <1>1, <2>4
        <4>2. i > 1 /\ k + i > 1 /\ k + i > 2
          BY <1>1, <2>4
        <4> QED BY <1>2, <4>1, <4>2
      <3> QED BY <2>1, <2>4, <3>1 DEF ParsesAt
    <2> QED BY <2>2, <2>3, <2>4
  <1>5. Readable(chunk) = {s[k + i][1] : i \in {i \in 1 .. (m - k) : ParsesAt(s, k + i)}}
    <2>1. ASSUME NEW i \in 1 .. (m - k)
          PROVE  chunk[i][1] = s[k + i][1] /\ (ParsesAt(chunk, i) <=> ParsesAt(s, k + i))
      BY <1>2, <1>4
    <2>2. Readable(chunk) = {chunk[i][1] : i \in {i \in 1 .. (m - k) : ParsesAt(chunk, i)}}
      BY <1>2 DEF Readable
    <2>3. {i \in 1 .. (m - k) : ParsesAt(chunk, i)} = {i \in 1 .. (m - k) : ParsesAt(s, k + i)}
      BY <2>1
    <2> QED BY <2>1, <2>2, <2>3
  <1>6. Parsed(s, m) = Parsed(s, k) \cup Readable(chunk)
    <2>1. ASSUME NEW j \in 1 .. m, ParsesAt(s, j)
          PROVE  s[j][1] \in Parsed(s, k) \cup Readable(chunk)
      <3>1. CASE j <= k
        BY <2>1, <3>1 DEF Parsed
      <3>2. CASE j > k
        <4>1. j - k \in 1 .. (m - k) /\ k + (j - k) = j
          BY <1>1, <3>2
        <4> QED BY <1>5, <2>1, <4>1
      <3> QED BY <1>1, <3>1, <3>2
    <2>2. ASSUME NEW i \in 1 .. (m - k), ParsesAt(s, k + i)
          PROVE  s[k + i][1] \in Parsed(s, m)
      <3>1. k + i \in 1 .. m
        BY <1>1
      <3> QED BY <2>2, <3>1 DEF Parsed
    <2>3. Parsed(s, k) \subseteq Parsed(s, m)
      BY <1>1 DEF Parsed
    <2> QED BY <1>5, <2>1, <2>2, <2>3 DEF Parsed
  <1>7. Parsed(s, k) \cap Readable(chunk) = {}
    <2> SUFFICES ASSUME NEW j \in 1 .. k, ParsesAt(s, j), NEW i \in 1 .. (m - k), ParsesAt(s, k + i),
                        s[j][1] = s[k + i][1]
                 PROVE  FALSE
      BY <1>5 DEF Parsed
    <2>1. j \in DOMAIN s /\ k + i \in DOMAIN s /\ j < k + i
      BY <1>1
    <2>2. Earlier(s[j], s[k + i])
      BY <2>1 DEF Ascending
    <2>3. s[j][2] = 2 /\ s[k + i][2] = 2
      BY DEF ParsesAt, Ends
    <2>4. s[j][1] \in Nat
      <3>1. s[j] \in Bytes
        BY <2>1
      <3> QED BY <3>1, RowsAreNumbers DEF Bytes
    <2> QED BY <2>2, <2>3, <2>4 DEF Earlier
  <1>8. /\ Max(ends) \in ends /\ \A i \in ends : i <= Max(ends)
        /\ Max(ends) \in 0 .. (m - k)
    <2>1. ends \in SUBSET (0 .. (m - k)) /\ ends # {}
      BY <1>1, <1>2
    <2> HIDE DEF ends
    <2>2. Max(ends) \in ends /\ \A i \in ends : i <= Max(ends)
      BY <1>1, <2>1, BoundedMaximum
    <2> QED BY <2>1, <2>2
  <1>9. end = k + Max(ends)
    <2>1. Unfinished(chunk) = (m - k) - Max(ends)
      BY <1>2 DEF Unfinished
    <2> HIDE DEF ends
    <2> QED BY <1>1, <1>8, <2>1
  <1>10. end \in k .. m /\ LineEnd(s, end)
    <2>1. end \in k .. m
      BY <1>1, <1>8, <1>9
    <2>2. CASE Max(ends) = 0
      BY <1>1, <1>9, <2>2
    <2>3. CASE Max(ends) # 0
      <3>1. Max(ends) \in 1 .. (m - k) /\ Ends(chunk[Max(ends)])
        BY <1>2, <1>8, <2>3
      <3>2. Ends(s[k + Max(ends)])
        BY <1>2, <3>1
      <3> QED BY <1>9, <2>1, <3>2 DEF LineEnd
    <2> QED BY <2>1, <2>2, <2>3
  <1>11. Parsed(s, end) = Parsed(s, m)
    <2>1. Parsed(s, end) \subseteq Parsed(s, m)
      BY <1>1, <1>10 DEF Parsed
    <2>2. ASSUME NEW j \in 1 .. m, ParsesAt(s, j)
          PROVE  j \in 1 .. end
      <3>1. CASE j <= k
        BY <1>1, <1>10, <3>1
      <3>2. CASE j > k
        <4>1. j - k \in 1 .. (m - k) /\ k + (j - k) = j
          BY <1>1, <3>2
        <4>2. Ends(chunk[j - k])
          BY <1>2, <2>2, <4>1 DEF ParsesAt
        <4>3. j - k <= Max(ends)
          BY <1>2, <1>8, <4>1, <4>2
        <4> QED BY <1>1, <1>8, <1>9, <3>2, <4>3
      <3> QED BY <1>1, <3>1, <3>2
    <2>3. Parsed(s, m) \subseteq Parsed(s, end)
      BY <2>2 DEF Parsed
    <2> QED BY <2>1, <2>3
  <1> QED BY <1>6, <1>7, <1>10, <1>11 DEF chunk

\* Inodes tell the files apart, whatever their names, and a row is readable in one.
FilesHeld ==
    /\ \A n \in Listing : Content(FileAt(n)) \in Contents
    /\ \A c \in Contents : \E n \in Listing : c = Content(FileAt(n))
    /\ \A c \in Contents :
          /\ c.ino \in Nat \ {0} /\ c.bytes \in Seq(Bytes) /\ Ascending(c.bytes)
          /\ Readable(c.bytes) \subseteq LogRows /\ Readable(c.bytes) \cap Unread = {}
    /\ \A c, d \in Contents : c.ino = d.ino => c = d
    /\ \A c, d \in Contents : c # d => Readable(c.bytes) \cap Readable(d.bytes) = {}

LEMMA FilesByInode == LedgerInv => FilesHeld
  <1> SUFFICES ASSUME LedgerInv
               PROVE  FilesHeld
    OBVIOUS
  <1>1. FilesNamed
    BY NamesOfFiles
  <1>2. \A n \in Listing : FileAt(n) \in Files
    <2> SUFFICES ASSUME NEW n \in Listing
                 PROVE  FileAt(n) \in Files
      OBVIOUS
    <2>1. CASE n = LiveName
      <3>1. live # NoLog /\ FileAt(n) = live
        BY <1>1, <2>1 DEF FilesNamed, FileAt
      <3> QED BY <3>1 DEF Files
    <2>2. CASE n # LiveName
      BY <1>1, <2>2 DEF FilesNamed, Files
    <2> QED BY <2>1, <2>2
  <1>3. \A n \in Listing : Content(FileAt(n)) \in Contents
    BY <1>2 DEF Contents
  <1>4. \A f \in Files : \E n \in Listing : f = FileAt(n)
    <2>1. ASSUME NEW f \in archives
          PROVE  \E n \in Listing : f = FileAt(n)
      BY <1>1 DEF FilesNamed
    <2>2. ASSUME live # NoLog
          PROVE  \E n \in Listing : live = FileAt(n)
      BY <1>1, <2>2 DEF FilesNamed, FileAt
    <2> QED BY <2>1, <2>2 DEF Files
  <1>5. \A c \in Contents : \E n \in Listing : c = Content(FileAt(n))
    BY <1>4 DEF Contents
  <1>6. \A n \in Listing : /\ Content(FileAt(n)).ino = FileAt(n).ino
                           /\ Content(FileAt(n)).bytes = FileAt(n).bytes
    BY DEF Content
  <1>7. ASSUME NEW c \in Contents
        PROVE  /\ c.ino \in Nat \ {0} /\ c.bytes \in Seq(Bytes) /\ Ascending(c.bytes)
               /\ Readable(c.bytes) \subseteq LogRows /\ Readable(c.bytes) \cap Unread = {}
    <2>1. PICK n \in Listing : c = Content(FileAt(n))
      BY <1>5
    <2>2. c.ino = FileAt(n).ino /\ c.bytes = FileAt(n).bytes
      BY <1>6, <2>1
    <2> QED BY <1>1, <2>2 DEF FilesNamed
  <1>8. ASSUME NEW c \in Contents, NEW d \in Contents
        PROVE  /\ c.ino = d.ino => c = d
               /\ c # d => Readable(c.bytes) \cap Readable(d.bytes) = {}
    <2>1. PICK n \in Listing : c = Content(FileAt(n))
      BY <1>5
    <2>2. PICK m \in Listing : d = Content(FileAt(m))
      BY <1>5
    <2>3. /\ c.ino = FileAt(n).ino /\ c.bytes = FileAt(n).bytes
          /\ d.ino = FileAt(m).ino /\ d.bytes = FileAt(m).bytes
      BY <1>6, <2>1, <2>2
    <2>4. n # m => /\ FileAt(n).ino # FileAt(m).ino
                   /\ Readable(FileAt(n).bytes) \cap Readable(FileAt(m).bytes) = {}
      BY <1>1 DEF FilesNamed
    <2>5. n = m => c = d
      BY <2>1, <2>2
    <2> QED BY <2>3, <2>4, <2>5
  <1> QED BY <1>3, <1>5, <1>7, <1>8 DEF FilesHeld

(* The same after a step. *)
LEMMA FilesByInodeNext == LedgerInv' => FilesHeld'
  BY FilesByInode, PTL

(* While the files grow, each of them goes on, or is new with what was to be written. *)
LEMMA ContentsGrow ==
  ASSUME LedgerInv, LedgerInv', NEW new, FilesGrow(new), NEW c \in Contents'
  PROVE  \/ \E d \in Contents : \E t \in Seq(Bytes) :
               c.ino = d.ino /\ c.bytes = d.bytes \o t /\ Held(t) \subseteq Unread
         \/ /\ live = NoLog /\ live' # NoLog /\ c.ino = live'.ino /\ Held(c.bytes) \subseteq Unread
  <1>1. FilesHeld /\ FilesHeld' /\ FilesNamed'
    BY FilesByInode, FilesByInodeNext, NamesOfFilesNext
  <1>2. PICK n \in Listing' : c = Content(FileAt(n))'
    BY <1>1 DEF FilesHeld
  <1>3. c.ino = FileAt(n)'.ino /\ c.bytes = FileAt(n)'.bytes
    BY <1>2 DEF Content
  <1>4. CASE n \in Listing
    <2>1. PICK t \in Seq(Bytes) : FileAt(n)'.bytes = FileAt(n).bytes \o t /\ Held(t) \subseteq Unread
      BY <1>4, NamesGrow
    <2>2. FileAt(n)'.ino = FileAt(n).ino
      BY <1>4, NamesGrow
    <2>3. Content(FileAt(n)) \in Contents
      BY <1>1, <1>4 DEF FilesHeld
    <2>4. Content(FileAt(n)).ino = FileAt(n).ino /\ Content(FileAt(n)).bytes = FileAt(n).bytes
      BY DEF Content
    <2> QED BY <1>3, <2>1, <2>2, <2>3, <2>4
  <1>5. CASE n \notin Listing
    <2>1. n = LiveName /\ live = NoLog /\ Held(FileAt(n)'.bytes) \subseteq Unread
      BY <1>2, <1>5, NamesGrow
    <2>2. live' # NoLog /\ FileAt(n)' = live'
      BY <1>1, <1>2, <2>1 DEF FilesNamed, FileAt
    <2> QED BY <1>3, <2>1, <2>2
  <1> QED BY <1>4, <1>5

\* A step that leaves the index and the sync alone, and what it tells the observers.
IndexStays ==
    /\ index' = index /\ sources' = sources /\ sync' = sync
    /\ seen' \in SeenStates /\ seen'.target = seen.target /\ seen'.ok = seen.ok
    /\ ~ seen'.disturbed => ~ seen.disturbed

(* A step that only has the files grow, unless a new file gets the inode of a known one. *)
LEMMA IndexGrows ==
  ASSUME LedgerInv, LedgerInv', IndexInv, IndexStays, NEW new, FilesGrow(new),
         NextRow <= NextRow', \A r \in new : r = NextRow /\ NextRow < NextRow',
         (live = NoLog /\ live' # NoLog) => seen'.disturbed \/ live'.ino \notin DOMAIN sources
  PROVE  IndexInv'
  <1>1. /\ index' = index /\ sources' = sources /\ sync' = sync
        /\ Indexed' = Indexed /\ \A i : Offset(i)' = Offset(i)
    BY DEF IndexStays, Indexed, Offset
  <1>2. IndexTypes'
    BY <1>1 DEF IndexInv, IndexTypes, IndexStays
  <1> SUFFICES ASSUME ~ seen'.disturbed
               PROVE  IndexOfFiles' /\ SyncReading' /\ SyncDone'
    BY <1>2 DEF IndexInv
  <1>3. IndexOfFiles /\ SyncReading /\ SyncDone
    BY DEF IndexInv, IndexStays
  <1>4. SyncDone'
    BY <1>1, <1>3 DEF SyncDone, IndexStays
  <1>5. FilesHeld /\ FilesHeld' /\ FilesNamed /\ FilesNamed'
    BY FilesByInode, FilesByInodeNext, NamesOfFiles, NamesOfFilesNext
  <1>6. Indexed \subseteq Nat /\ NextRow \in Nat /\ NextRow' \in Nat
    <2>1. Indexed \subseteq Nat
      BY RowsAreNumbers DEF Indexed
    <2>2. clock.rows \in Nat /\ clock'.rows \in Nat
      BY DEF LedgerInv, LedgerTypes, Clocks
    <2> QED BY <2>1, <2>2 DEF NextRow
  <1>7. Indexed \cap Unread' = {} /\ \A r \in Indexed : r < NextRow'
    BY <1>3, <1>6 DEF IndexOfFiles, FilesGrow
  <1>8. ASSUME NEW c \in Contents'
        PROVE  \/ /\ \E d \in Contents : c.ino = d.ino /\ Done(c)' = Done(d)
                  /\ Offset(c.ino) \in 0 .. Len(c.bytes) /\ LineEnd(c.bytes, Offset(c.ino))
                  /\ Done(c)' \subseteq Indexed /\ Indexed \cap Readable(c.bytes) \subseteq Done(c)'
               \/ /\ c.ino \notin DOMAIN sources /\ Offset(c.ino) = 0 /\ Done(c)' = {}
                  /\ Indexed \cap Readable(c.bytes) = {}
    <2>1. c.bytes \in Seq(Bytes)
      BY <1>5 DEF FilesHeld
    <2>2. CASE \E d \in Contents : \E t \in Seq(Bytes) :
                  c.ino = d.ino /\ c.bytes = d.bytes \o t /\ Held(t) \subseteq Unread
      <3>1. PICK d \in Contents : \E t \in Seq(Bytes) :
                    c.ino = d.ino /\ c.bytes = d.bytes \o t /\ Held(t) \subseteq Unread
        BY <2>2
      <3>2. PICK t \in Seq(Bytes) : c.ino = d.ino /\ c.bytes = d.bytes \o t /\ Held(t) \subseteq Unread
        BY <3>1
      <3>3. d.bytes \in Seq(Bytes)
        BY <1>5 DEF FilesHeld
      <3>4. /\ Offset(d.ino) \in 0 .. Len(d.bytes) /\ LineEnd(d.bytes, Offset(d.ino))
            /\ Done(d) \subseteq Indexed /\ Indexed \cap Readable(d.bytes) \subseteq Done(d)
            /\ Indexed \cap Unread = {}
        BY <1>3 DEF IndexOfFiles
      <3>5. /\ Parsed(c.bytes, Offset(d.ino)) = Parsed(d.bytes, Offset(d.ino))
            /\ Offset(d.ino) \in 0 .. Len(c.bytes) /\ LineEnd(c.bytes, Offset(d.ino))
        BY <3>2, <3>3, <3>4, ParsedBefore
      <3>6. Readable(c.bytes) \subseteq Readable(d.bytes) \cup Unread
        BY <3>2, <3>3, ReadableConcat
      <3>7. Done(c)' = Done(d)
        BY <1>1, <3>2, <3>5 DEF Done
      <3> QED BY <3>2, <3>4, <3>5, <3>6, <3>7
    <2>3. CASE live = NoLog /\ live' # NoLog /\ c.ino = live'.ino /\ Held(c.bytes) \subseteq Unread
      <3>1. c.ino \notin DOMAIN sources /\ Offset(c.ino) = 0
        BY <2>3 DEF Offset
      <3>2. Done(c)' = {}
        BY <1>1, <2>1, <3>1, ParsedFacts DEF Done
      <3>3. Readable(c.bytes) \subseteq Unread
        BY <2>1, <2>3, ReadableFacts
      <3> QED BY <1>3, <3>1, <3>2, <3>3 DEF IndexOfFiles
    <2> QED BY <2>2, <2>3, ContentsGrow
  <1>9. IndexOfFiles'
    <2>1. ASSUME NEW c \in Contents'
          PROVE  /\ Offset(c.ino)' \in 0 .. Len(c.bytes) /\ LineEnd(c.bytes, Offset(c.ino)')
                 /\ Done(c)' \subseteq Indexed' /\ Indexed' \cap Readable(c.bytes) \subseteq Done(c)'
      <3>1. c.bytes \in Seq(Bytes)
        BY <1>5 DEF FilesHeld
      <3>2. 0 \in 0 .. Len(c.bytes) /\ LineEnd(c.bytes, 0)
        BY <3>1 DEF LineEnd
      <3> QED BY <1>1, <1>8, <3>2
    <2>2. ASSUME NEW r \in Indexed
          PROVE  \E i \in DOMAIN sources : \A c \in Contents' : c.ino = i => r \in Done(c)'
      <3>1. PICK i \in DOMAIN sources : \A c \in Contents : c.ino = i => r \in Done(c)
        BY <1>3 DEF IndexOfFiles
      <3> QED BY <1>8, <3>1
    <2>3. index' \in [Rows -> {0, 1}] /\ \A i \in DOMAIN sources' : sources'[i] \in Nat
      BY <1>1, <1>3 DEF IndexOfFiles
    <2> QED BY <1>1, <1>7, <2>1, <2>2, <2>3 DEF IndexOfFiles
  <1>10. SyncReading'
    <2> SUFFICES ASSUME sync # Idle, sync.phase = "reading"
                 PROVE  SyncReading'
      BY <1>1 DEF SyncReading
    <2>1. /\ sync.names \subseteq DOMAIN sync.files
          /\ \A n \in sync.names : sync.files[n].ino \in Nat /\ sync.files[n].size \in Nat
          /\ \A n, m \in sync.names : sync.files[n].ino = sync.files[m].ino => n = m
          /\ LiveName \in sync.names => live # NoLog
          /\ Indexed \subseteq seen.target
      BY <1>3 DEF SyncReading
    <2>2. \A n \in sync.names \cap Listing :
              /\ FileAt(n).ino = sync.files[n].ino
              /\ Offset(sync.files[n].ino) <= sync.files[n].size
              /\ sync.files[n].size <= Len(FileAt(n).bytes)
              /\ Parsed(FileAt(n).bytes, sync.files[n].size) \subseteq seen.target
      BY <1>3 DEF SyncReading
    <2>3. ASSUME NEW n \in sync.names \cap Listing'
          PROVE  /\ n \in Listing /\ FileAt(n)'.ino = sync.files[n].ino
                 /\ Offset(sync.files[n].ino) <= sync.files[n].size
                 /\ sync.files[n].size <= Len(FileAt(n)'.bytes)
                 /\ Parsed(FileAt(n)'.bytes, sync.files[n].size) = Parsed(FileAt(n).bytes, sync.files[n].size)
      <3>1. n \in Listing
        <4>1. n \notin Listing => n = LiveName /\ live = NoLog
          BY <2>3, NamesGrow
        <4> QED BY <2>1, <2>3, <4>1
      <3>2. PICK t \in Seq(Bytes) : FileAt(n)'.bytes = FileAt(n).bytes \o t
        BY <3>1, NamesGrow
      <3>3. FileAt(n)'.ino = FileAt(n).ino
        BY <3>1, NamesGrow
      <3>4. FileAt(n).bytes \in Seq(Bytes)
        BY <1>5, <3>1 DEF FilesNamed
      <3>5. sync.files[n].size \in 0 .. Len(FileAt(n).bytes)
        BY <2>1, <2>2, <2>3, <3>1, <3>4
      <3>6. /\ Parsed(FileAt(n)'.bytes, sync.files[n].size) = Parsed(FileAt(n).bytes, sync.files[n].size)
            /\ sync.files[n].size \in 0 .. Len(FileAt(n)'.bytes)
        BY <3>2, <3>4, <3>5, ParsedBefore
      <3> QED BY <2>2, <2>3, <3>1, <3>3, <3>6
    <2>4. \A r \in seen.target \ Indexed : \E n \in sync.names :
              /\ Offset(sync.files[n].ino) # sync.files[n].size
              /\ n \in Listing => r \in Parsed(FileAt(n).bytes, sync.files[n].size)
      BY <1>3 DEF SyncReading
    <2>5. \A r \in seen.target \ Indexed : \E n \in sync.names :
              /\ Offset(sync.files[n].ino) # sync.files[n].size
              /\ n \in Listing' => r \in Parsed(FileAt(n)'.bytes, sync.files[n].size)
      BY <2>3, <2>4
    <2>6. LiveName \in sync.names => live' # NoLog
      BY <2>1 DEF FilesGrow
    <2>7. \A n \in sync.names \cap Listing' :
              Parsed(FileAt(n)'.bytes, sync.files[n].size) \subseteq seen.target
      BY <2>2, <2>3
    <2> QED BY <1>1, <2>1, <2>3, <2>5, <2>6, <2>7 DEF SyncReading, IndexStays
  <1> QED BY <1>4, <1>9, <1>10

(* A step that leaves the files as they are, moves one while no sync is under  *)
(* way, or takes some away.                                                    *)
LEMMA IndexShrinks ==
  ASSUME LedgerInv, LedgerInv', IndexInv, IndexStays, Contents' \subseteq Contents,
         Unread' \subseteq Unread, NextRow' = NextRow,
         \/ seen'.disturbed
         \/ sync = Idle
         \/ /\ live' = live /\ Listing' \subseteq Listing
            /\ \A n \in Listing' : FileAt(n)' = FileAt(n)
  PROVE  IndexInv'
  <1>1. /\ index' = index /\ sources' = sources /\ sync' = sync
        /\ Indexed' = Indexed /\ \A i : Offset(i)' = Offset(i)
        /\ \A c : Done(c)' = Done(c)
    BY DEF IndexStays, Indexed, Offset, Done
  <1>2. IndexTypes'
    BY <1>1 DEF IndexInv, IndexTypes, IndexStays
  <1> SUFFICES ASSUME ~ seen'.disturbed
               PROVE  IndexOfFiles' /\ SyncReading' /\ SyncDone'
    BY <1>2 DEF IndexInv
  <1>3. IndexOfFiles /\ SyncReading /\ SyncDone
    BY DEF IndexInv, IndexStays
  <1>4. SyncDone'
    BY <1>1, <1>3 DEF SyncDone, IndexStays
  <1>5. IndexOfFiles'
    BY <1>1, <1>3 DEF IndexOfFiles
  <1>6. SyncReading'
    <2>1. CASE sync = Idle
      BY <1>1, <2>1 DEF SyncReading
    <2>2. CASE /\ live' = live /\ Listing' \subseteq Listing
               /\ \A n \in Listing' : FileAt(n)' = FileAt(n)
      BY <1>1, <1>3, <2>2 DEF SyncReading, IndexStays
    <2> QED BY <2>1, <2>2
  <1> QED BY <1>4, <1>5, <1>6

(* After a start nothing has been indexed. *)
LEMMA IndexStarts ==
  ASSUME LedgerInv', seen' \in SeenStates, ~ seen'.ok,
         index' = Nothing, sources' = <<>>, sync' = Idle
  PROVE  IndexInv'
  <1>1. /\ Indexed' = {} /\ index' \in [Rows -> {0, 1}]
        /\ DOMAIN sources' = {} /\ \A i : Offset(i)' = 0
    BY DEF Indexed, Nothing, Offset
  <1>2. IndexTypes'
    BY <1>1 DEF IndexTypes
  <1>3. \A c \in Contents' : c.bytes \in Seq(Bytes)
    BY FilesByInodeNext DEF FilesHeld
  <1>4. \A c \in Contents' : /\ Offset(c.ino)' \in 0 .. Len(c.bytes)
                             /\ LineEnd(c.bytes, Offset(c.ino)')
                             /\ Done(c)' = {}
    BY <1>1, <1>3, ParsedFacts DEF LineEnd, Done
  <1>5. IndexOfFiles'
    BY <1>1, <1>4 DEF IndexOfFiles
  <1> QED BY <1>2, <1>5 DEF IndexInv, SyncReading, SyncDone

\* The files and what is written to them do not change.
FilesAsBefore ==
    /\ Listing' = Listing /\ (\A n : FileAt(n)' = FileAt(n)) /\ live' = live
    /\ Contents' = Contents /\ Unread' = Unread /\ NextRow' = NextRow

LEMMA LedgerUnchanged == ASSUME UNCHANGED ledgerVars PROVE FilesAsBefore
  BY DEF ledgerVars, FilesAsBefore, Listing, FileAt, Contents, Files, Unread, NextRow

(* The first step of a sync lists the directory. *)
LEMMA IndexList ==
  ASSUME LedgerInv, LedgerInv', IndexInv, SyncList
  PROVE  IndexInv'
  <1>1. /\ UNCHANGED ledgerVars /\ index' = index /\ sources' = sources
        /\ sync' = [phase |-> "listed", names |-> Listing]
        /\ seen' = [seen EXCEPT !.syncs = seen.syncs + 1, !.ok = FALSE, !.target = {}]
    BY DEF SyncList, ledgerVars
  <1>2. FilesAsBefore
    BY <1>1, LedgerUnchanged
  <1>3. /\ seen' \in SeenStates /\ ~ seen'.ok /\ seen'.disturbed = seen.disturbed
    <2>1. seen \in SeenStates
      BY DEF IndexInv, IndexTypes
    <2>2. seen.syncs + 1 \in Nat /\ {} \in SUBSET Rows
      BY <2>1 DEF SeenStates
    <2> QED BY <1>1, <2>1, <2>2 DEF SeenStates
  <1>4. sync'.phase = "listed" /\ sync' = [phase |-> "listed", names |-> sync'.names] /\ sync'.names = Listing /\ Listing \subseteq Nat
    BY <1>1, NamesOfFiles DEF FilesNamed
  <1>5. IndexTypes'
    BY <1>1, <1>3, <1>4 DEF IndexInv, IndexTypes
  <1>6. IndexOfFiles => IndexOfFiles'
    BY <1>1, <1>2 DEF IndexOfFiles, Indexed, Done, Offset, FilesAsBefore
  <1> QED BY <1>3, <1>4, <1>5, <1>6 DEF IndexInv, SyncReading, SyncDone

(* The last one: nothing is left to read. *)
LEMMA IndexEnd ==
  ASSUME LedgerInv, LedgerInv', IndexInv, SyncEnd
  PROVE  IndexInv'
  <1>1. /\ UNCHANGED ledgerVars /\ index' = index /\ sources' = sources
        /\ sync # Idle /\ sync.phase = "reading" /\ sync.names = {} /\ sync' = Idle
        /\ seen' = [seen EXCEPT !.ok = TRUE]
    BY DEF SyncEnd, ledgerVars
  <1>2. FilesAsBefore
    BY <1>1, LedgerUnchanged
  <1>3. /\ seen' \in SeenStates /\ seen'.disturbed = seen.disturbed /\ seen'.target = seen.target
    BY <1>1 DEF IndexInv, IndexTypes, SeenStates
  <1>4. IndexTypes'
    BY <1>1, <1>3 DEF IndexInv, IndexTypes
  <1>5. IndexOfFiles => IndexOfFiles'
    BY <1>1, <1>2 DEF IndexOfFiles, Indexed, Done, Offset, FilesAsBefore
  <1>6. SyncReading => Indexed' = seen'.target
    BY <1>1, <1>3 DEF SyncReading, Indexed
  <1> QED BY <1>1, <1>3, <1>4, <1>5, <1>6 DEF IndexInv, SyncReading, SyncDone

(* The files that are still there are taken with their sizes; the index starts *)
(* again when a known one is missing or shorter.                               *)
LEMMA IndexStat ==
  ASSUME LedgerInv, LedgerInv', IndexInv, SyncStat
  PROVE  IndexInv'
  <1> DEFINE names   == sync.names \cap Listing
             files   == [n \in names |-> [ino |-> FileAt(n).ino, size |-> Len(FileAt(n).bytes)]]
             gone    == \E ino \in DOMAIN sources : \A n \in names : files[n].ino # ino
             shorter == \E n \in names : /\ files[n].ino \in DOMAIN sources
                                         /\ files[n].size < sources[files[n].ino]
             again   == gone \/ shorter
             target  == UNION {Readable(FileAt(n).bytes) : n \in names}
  <1>1. /\ UNCHANGED ledgerVars /\ sync # Idle
        /\ sync' = [phase |-> "reading", names |-> names, files |-> files]
        /\ sources' = IF again THEN <<>> ELSE sources
        /\ index' = IF again THEN Nothing ELSE index
        /\ seen' = [seen EXCEPT !.target = target, !.disturbed = ~ again /\ seen.disturbed]
    BY DEF SyncStat, ledgerVars
  <1>2. FilesAsBefore /\ FilesNamed /\ FilesHeld
    BY <1>1, LedgerUnchanged, NamesOfFiles, FilesByInode
  <1>3. \A n \in names : files[n].ino = FileAt(n).ino /\ files[n].size = Len(FileAt(n).bytes)
    OBVIOUS
  <1>4. names \subseteq Listing /\ names \subseteq Nat /\ DOMAIN files = names
    BY <1>2 DEF FilesNamed
  <1>5. \A n \in names : n \in Listing /\ FileAt(n).bytes \in Seq(Bytes) /\ FileAt(n).ino \in Nat
    BY <1>2, <1>4 DEF FilesNamed
  <1>6. again \in BOOLEAN
    OBVIOUS
  <1>7. target \in SUBSET Rows /\ \A n \in names : Readable(FileAt(n).bytes) \subseteq target
    <2>1. \A n \in names : Readable(FileAt(n).bytes) \subseteq Rows
      BY <1>5, ReadableFacts
    <2> QED BY <2>1
  <1>8. \A r \in target : \E n \in names : r \in Readable(FileAt(n).bytes)
    OBVIOUS
  <1>9. ~ again => \A i \in DOMAIN sources : \E n \in names : FileAt(n).ino = i
    BY <1>3
  <1> HIDE DEF gone, shorter, again, target, files
  <1>10. /\ seen' \in SeenStates /\ seen'.target = target /\ seen'.ok = seen.ok
         /\ ~ seen'.disturbed => again \/ ~ seen.disturbed
    <2>1. (~ again /\ seen.disturbed) \in BOOLEAN
      OBVIOUS
    <2>2. seen \in SeenStates
      BY DEF IndexInv, IndexTypes
    <2> QED BY <1>1, <1>7, <2>1, <2>2 DEF SeenStates
  <1>11. sync' # Idle => ~ seen'.ok
    BY <1>1, <1>10 DEF IndexInv, IndexTypes
  <1>12. /\ sync'.phase = "reading" /\ sync'.names = names /\ sync'.files = files
    BY <1>1
  <1> HIDE DEF names
  <1>13. IndexTypes'
    <2>1. sync' = [phase |-> "reading", names |-> sync'.names, files |-> sync'.files]
      BY <1>1, <1>12
    <2> QED BY <1>4, <1>10, <1>11, <1>12, <2>1 DEF IndexTypes
  <1> SUFFICES ASSUME ~ seen'.disturbed
               PROVE  IndexOfFiles' /\ SyncReading' /\ SyncDone'
    BY <1>13 DEF IndexInv
  <1>14. ~ again => IndexOfFiles
    BY <1>10 DEF IndexInv
  <1>15. IndexOfFiles' /\ (again => Indexed' = {})
    <2>1. CASE again
      <3>1. /\ Indexed' = {} /\ index' \in [Rows -> {0, 1}]
            /\ DOMAIN sources' = {} /\ \A i : Offset(i)' = 0
        BY <1>1, <2>1 DEF Indexed, Nothing, Offset
      <3>2. \A c \in Contents' : c.bytes \in Seq(Bytes)
        BY FilesByInodeNext DEF FilesHeld
      <3>3. \A c \in Contents' : /\ Offset(c.ino)' \in 0 .. Len(c.bytes)
                                 /\ LineEnd(c.bytes, Offset(c.ino)')
                                 /\ Done(c)' = {}
        BY <3>1, <3>2, ParsedFacts DEF LineEnd, Done
      <3> QED BY <3>1, <3>3 DEF IndexOfFiles
    <2>2. CASE ~ again
      BY <1>1, <1>2, <1>14, <2>2 DEF IndexOfFiles, Indexed, Done, Offset, FilesAsBefore
    <2> QED BY <2>1, <2>2
  <1>16. \A n \in names : /\ Offset(FileAt(n).ino)' \in 0 .. Len(FileAt(n).bytes)
                          /\ Parsed(FileAt(n).bytes, Offset(FileAt(n).ino)') \subseteq Indexed'
    <2> SUFFICES ASSUME NEW n \in names
                 PROVE  /\ Offset(FileAt(n).ino)' \in 0 .. Len(FileAt(n).bytes)
                        /\ Parsed(FileAt(n).bytes, Offset(FileAt(n).ino)') \subseteq Indexed'
      OBVIOUS
    <2>1. Content(FileAt(n)) \in Contents'
      BY <1>2, <1>4 DEF FilesHeld, FilesAsBefore
    <2>2. Content(FileAt(n)).ino = FileAt(n).ino /\ Content(FileAt(n)).bytes = FileAt(n).bytes
      BY DEF Content
    <2>3. FileAt(n)' = FileAt(n)
      BY <1>2 DEF FilesAsBefore
    <2>4. \A c \in Contents' : /\ Offset(c.ino)' \in 0 .. Len(c.bytes)
                               /\ Parsed(c.bytes, Offset(c.ino)') \subseteq Indexed'
      BY <1>15 DEF IndexOfFiles, Done
    <2> QED BY <2>1, <2>2, <2>3, <2>4
  <1>17. Indexed' \subseteq target
    <2>1. CASE again
      BY <1>15, <2>1
    <2>2. CASE ~ again
      <3> SUFFICES ASSUME NEW r \in Indexed'
                   PROVE  r \in target
        OBVIOUS
      <3>1. Indexed' = Indexed
        BY <1>1, <2>2 DEF Indexed
      <3>2. PICK i \in DOMAIN sources : \A c \in Contents : c.ino = i => r \in Done(c)
        BY <1>14, <2>2, <3>1 DEF IndexOfFiles
      <3>3. PICK n \in names : FileAt(n).ino = i
        BY <1>9, <2>2
      <3>4. Content(FileAt(n)) \in Contents
        BY <1>2, <1>4 DEF FilesHeld
      <3>5. Content(FileAt(n)).ino = FileAt(n).ino /\ Content(FileAt(n)).bytes = FileAt(n).bytes
        BY DEF Content
      <3>6. r \in Parsed(FileAt(n).bytes, Offset(i))
        BY <3>2, <3>3, <3>4, <3>5 DEF Done
      <3>7. Offset(i) \in 0 .. Len(FileAt(n).bytes)
        BY <1>14, <2>2, <3>3, <3>4, <3>5 DEF IndexOfFiles
      <3>8. r \in Readable(FileAt(n).bytes)
        BY <1>5, <3>6, <3>7, ParsedFacts
      <3> QED BY <1>7, <3>8
    <2> QED BY <2>1, <2>2
  <1>18. \A r \in target \ Indexed' : \E n \in names :
             Offset(sync.files[n].ino)' # files[n].size /\ r \in Parsed(FileAt(n).bytes, files[n].size)
    <2> SUFFICES ASSUME NEW r \in target, r \notin Indexed'
                 PROVE  \E n \in names : /\ Offset(sync.files[n].ino)' # files[n].size
                                         /\ r \in Parsed(FileAt(n).bytes, files[n].size)
      OBVIOUS
    <2>1. PICK n \in names : r \in Readable(FileAt(n).bytes)
      BY <1>8
    <2>2. r \in Parsed(FileAt(n).bytes, Len(FileAt(n).bytes))
      BY <1>5, <2>1, ParsedFacts
    <2>3. Offset(FileAt(n).ino)' # Len(FileAt(n).bytes)
      BY <1>16, <2>2
    <2>4. sync'.files[n].ino = FileAt(n)'.ino /\ files[n].size = Len(FileAt(n).bytes)
      BY <1>2, <1>3, <1>12 DEF FilesAsBefore
    <2> QED BY <2>2, <2>3, <2>4
  <1>19. SyncReading'
    <2>1. /\ names \subseteq DOMAIN files
          /\ \A n \in names : files[n].ino \in Nat /\ files[n].size \in Nat
          /\ \A n, m \in names : files[n].ino = files[m].ino => n = m
          /\ LiveName \in names => live # NoLog
      <3>1. \A n \in names : Len(FileAt(n).bytes) \in Nat
        BY <1>5
      <3>2. \A n, m \in names : FileAt(n).ino = FileAt(m).ino => n = m
        BY <1>2, <1>4 DEF FilesNamed
      <3>3. LiveName \in names => live # NoLog
        BY <1>2, <1>4 DEF FilesNamed
      <3>4. \A n \in names : files[n].ino \in Nat /\ files[n].size \in Nat
        BY <1>3, <1>5, <3>1
      <3>5. \A n, m \in names : files[n].ino = files[m].ino => n = m
        BY <1>3, <3>2
      <3> QED BY <1>4, <3>3, <3>4, <3>5
    <2>2. \A n \in names : /\ FileAt(n).ino = files[n].ino
                           /\ Offset(sync.files[n].ino)' <= files[n].size
                           /\ files[n].size <= Len(FileAt(n).bytes)
                           /\ Parsed(FileAt(n).bytes, files[n].size) \subseteq target
      <3> SUFFICES ASSUME NEW n \in names
                   PROVE  /\ FileAt(n).ino = files[n].ino
                          /\ Offset(sync.files[n].ino)' <= files[n].size
                          /\ files[n].size <= Len(FileAt(n).bytes)
                          /\ Parsed(FileAt(n).bytes, files[n].size) \subseteq target
        OBVIOUS
      <3>1. files[n].ino = FileAt(n).ino /\ files[n].size = Len(FileAt(n).bytes)
        BY <1>3
      <3>2. Parsed(FileAt(n).bytes, Len(FileAt(n).bytes)) = Readable(FileAt(n).bytes)
        BY <1>5, ParsedFacts
      <3>3. Len(FileAt(n).bytes) \in Nat
        BY <1>5
      <3>4. sync'.files[n].ino = FileAt(n)'.ino
        BY <1>2, <1>12, <3>1 DEF FilesAsBefore
      <3>5. Offset(FileAt(n).ino)' \in 0 .. Len(FileAt(n).bytes)
        BY <1>16
      <3>6. Offset(sync.files[n].ino)' <= files[n].size
        BY <3>1, <3>3, <3>4, <3>5
      <3> QED BY <1>7, <3>1, <3>2, <3>3, <3>6
    <2>3. live' = live /\ Listing' = Listing /\ \A n : FileAt(n)' = FileAt(n)
      BY <1>2 DEF FilesAsBefore
    <2> QED BY <1>10, <1>12, <1>17, <1>18, <2>1, <2>2, <2>3 DEF SyncReading
  <1>20. SyncDone'
    BY <1>1, <1>11 DEF SyncDone, IndexInv, IndexTypes, SeenStates
  <1> QED BY <1>15, <1>19, <1>20

(* The whole lines from the offset of a file up to the size that was noted. *)
LEMMA IndexReadsLines ==
  ASSUME LedgerInv, LedgerInv', FilesAsBefore, IndexOfFiles, SyncReading,
         sync # Idle, sync = [phase |-> "reading", names |-> sync.names, files |-> sync.files],
         NEW name \in sync.names \cap Listing, NEW f, f = FileAt(name),
         NEW size, size = sync.files[name].size, NEW offset, offset = Offset(f.ino), size # offset,
         NEW chunk, chunk = Segment(name, offset, size),
         NEW end, end = size - Unfinished(chunk), sources' = SetSource(f.ino, end),
         index' = Plus(index, Once(Readable(chunk))),
         sync' = [sync EXCEPT !.names = sync.names \ {name}], seen'.target = seen.target
  PROVE  IndexOfFiles' /\ SyncReading'
  <1>1. FilesNamed /\ FilesHeld /\ RowsOrdered
    BY NamesOfFiles, FilesByInode, RowsInOrder
  <1>2. /\ f.bytes \in Seq(Bytes) /\ Ascending(f.bytes) /\ f.ino = sync.files[name].ino
        /\ Readable(f.bytes) \subseteq LogRows /\ Readable(f.bytes) \cap Unread = {}
        /\ offset <= size /\ size \in 0 .. Len(f.bytes)
        /\ Parsed(f.bytes, size) \subseteq seen.target
    <2>1. /\ f.bytes \in Seq(Bytes) /\ Ascending(f.bytes)
          /\ Readable(f.bytes) \subseteq LogRows /\ Readable(f.bytes) \cap Unread = {}
      BY <1>1 DEF FilesNamed
    <2>2. /\ f.ino = sync.files[name].ino /\ offset <= size /\ size <= Len(f.bytes) /\ size \in Nat
          /\ Parsed(f.bytes, size) \subseteq seen.target
      BY DEF SyncReading
    <2>3. Len(f.bytes) \in Nat
      BY <2>1
    <2> QED BY <2>1, <2>2, <2>3
  <1>3. Content(f) \in Contents /\ Content(f).ino = f.ino /\ Content(f).bytes = f.bytes
    BY <1>1 DEF FilesHeld, Content
  <1>4. /\ offset \in 0 .. Len(f.bytes) /\ LineEnd(f.bytes, offset)
        /\ Parsed(f.bytes, offset) \subseteq Indexed
        /\ Indexed \cap Readable(f.bytes) \subseteq Parsed(f.bytes, offset)
    BY <1>3 DEF IndexOfFiles, Done
  <1>5. chunk = SubSeq(f.bytes, offset + 1, size)
    <2>1. (IF size < Len(f.bytes) THEN size ELSE Len(f.bytes)) = size
      BY <1>2
    <2> QED BY <2>1 DEF Segment
  <1>6. /\ end \in offset .. size /\ LineEnd(f.bytes, end)
        /\ Parsed(f.bytes, end) = Parsed(f.bytes, size)
        /\ Parsed(f.bytes, size) = Parsed(f.bytes, offset) \cup Readable(chunk)
        /\ Parsed(f.bytes, offset) \cap Readable(chunk) = {}
    <2>1. size \in offset .. Len(f.bytes)
      BY <1>2, <1>4
    <2>2. /\ f.bytes \in Seq(Bytes) /\ Ascending(f.bytes) /\ offset \in 0 .. Len(f.bytes)
          /\ LineEnd(f.bytes, offset)
      BY <1>2, <1>4
    <2>3. LET chunks == SubSeq(f.bytes, offset + 1, size)
              last   == size - Unfinished(chunks)
          IN /\ last \in offset .. size /\ LineEnd(f.bytes, last)
             /\ Parsed(f.bytes, last) = Parsed(f.bytes, size)
             /\ Parsed(f.bytes, size) = Parsed(f.bytes, offset) \cup Readable(chunks)
             /\ Parsed(f.bytes, offset) \cap Readable(chunks) = {}
      BY <2>1, <2>2, ChunkFacts
    <2> QED BY <1>5, <2>3
  <1>7. /\ end \in Nat /\ end \in 0 .. Len(f.bytes)
    BY <1>2, <1>4, <1>6
  <1>8. /\ Readable(chunk) \subseteq Readable(f.bytes) /\ Readable(chunk) \subseteq Rows
        /\ Readable(chunk) \cap Indexed = {}
    <2>1. Parsed(f.bytes, size) \subseteq Readable(f.bytes) /\ Parsed(f.bytes, size) \subseteq Rows
      BY <1>2, ParsedFacts
    <2> QED BY <1>4, <1>6, <2>1
  <1>9. /\ index' \in [Rows -> {0, 1}] /\ Indexed' = Indexed \cup Readable(chunk)
    <2>1. index \in [Rows -> {0, 1}]
      BY DEF IndexOfFiles
    <2>2. index' = [r \in Rows |-> index[r] + (IF r \in Readable(chunk) THEN 1 ELSE 0)]
      BY DEF Plus, Once
    <2>3. \A r \in Readable(chunk) : index[r] = 0
      BY <1>8, <2>1 DEF Indexed
    <2>4. \A r \in Rows : index'[r] = IF r \in Readable(chunk) THEN 1 ELSE index[r]
      BY <2>1, <2>2, <2>3
    <2>5. index' \in [Rows -> {0, 1}]
      <3>1. \A r \in Rows : index'[r] \in {0, 1}
        BY <2>1, <2>4
      <3>2. index' = [r \in Rows |-> index'[r]]
        BY <2>2
      <3> QED BY <3>1, <3>2
    <2>6. Indexed' = Indexed \cup Readable(chunk)
      BY <1>8, <2>4 DEF Indexed
    <2> QED BY <2>5, <2>6
  <1>10. /\ \A i : Offset(i)' = IF i = f.ino THEN end ELSE Offset(i)
         /\ DOMAIN sources' = DOMAIN sources \cup {f.ino}
         /\ \A i \in DOMAIN sources' : sources'[i] \in Nat
    <2>1. DOMAIN sources' = DOMAIN sources \cup {f.ino}
          /\ \A i \in DOMAIN sources' : sources'[i] = IF i = f.ino THEN end ELSE sources[i]
      BY DEF SetSource
    <2>2. \A i \in DOMAIN sources' : sources'[i] \in Nat
      BY <1>7, <2>1 DEF IndexOfFiles
    <2> QED BY <2>1, <2>2 DEF Offset
  <1>11. ASSUME NEW c \in Contents
         PROVE  /\ c.ino = f.ino => c.bytes = f.bytes
                /\ c.ino # f.ino => Readable(c.bytes) \cap Readable(f.bytes) = {}
                /\ c.bytes \in Seq(Bytes)
    <2>1. c.ino = f.ino => c = Content(f)
      BY <1>1, <1>3 DEF FilesHeld
    <2>2. c # Content(f) => Readable(c.bytes) \cap Readable(f.bytes) = {}
      BY <1>1, <1>3 DEF FilesHeld
    <2>3. c.ino # f.ino => c # Content(f)
      BY <1>3
    <2>4. c.bytes \in Seq(Bytes)
      BY <1>1 DEF FilesHeld
    <2> QED BY <1>3, <2>1, <2>2, <2>3, <2>4
  <1>12. ASSUME NEW c \in Contents
         PROVE  /\ Offset(c.ino)' \in 0 .. Len(c.bytes) /\ LineEnd(c.bytes, Offset(c.ino)')
                /\ Done(c)' \subseteq Indexed' /\ Indexed' \cap Readable(c.bytes) \subseteq Done(c)'
                /\ Done(c) \subseteq Done(c)' /\ (c.ino = f.ino => Readable(chunk) \subseteq Done(c)')
    <2>1. CASE c.ino = f.ino
      <3>1. c.bytes = f.bytes /\ Offset(c.ino)' = end /\ Offset(c.ino) = offset
        BY <1>10, <1>11, <2>1
      <3>2. Done(c)' = Parsed(f.bytes, end) /\ Done(c) = Parsed(f.bytes, offset)
        BY <3>1 DEF Done
      <3> QED BY <1>4, <1>6, <1>7, <1>9, <3>1, <3>2
    <2>2. CASE c.ino # f.ino
      <3>1. Offset(c.ino)' = Offset(c.ino) /\ Done(c)' = Done(c)
        BY <1>10, <2>2 DEF Done
      <3>2. /\ Offset(c.ino) \in 0 .. Len(c.bytes) /\ LineEnd(c.bytes, Offset(c.ino))
            /\ Done(c) \subseteq Indexed /\ Indexed \cap Readable(c.bytes) \subseteq Done(c)
        BY DEF IndexOfFiles
      <3>3. Readable(c.bytes) \cap Readable(chunk) = {}
        BY <1>8, <1>11, <2>2
      <3> QED BY <1>9, <2>2, <3>1, <3>2, <3>3
    <2> QED BY <2>1, <2>2
  <1>13. IndexOfFiles'
    <2>1. Contents' = Contents /\ Unread' = Unread /\ NextRow' = NextRow
      BY DEF FilesAsBefore
    <2>2. Indexed' \cap Unread' = {}
      BY <1>2, <1>8, <1>9, <2>1 DEF IndexOfFiles
    <2>3. \A r \in Indexed' : r < NextRow'
      BY <1>1, <1>2, <1>8, <1>9, <2>1 DEF IndexOfFiles, RowsOrdered
    <2>4. ASSUME NEW r \in Indexed'
          PROVE  \E i \in DOMAIN sources' : \A c \in Contents' : c.ino = i => r \in Done(c)'
      <3>1. CASE r \in Indexed
        <4>1. PICK i \in DOMAIN sources : \A c \in Contents : c.ino = i => r \in Done(c)
          BY <3>1 DEF IndexOfFiles
        <4> QED BY <1>10, <1>12, <2>1, <4>1
      <3>2. CASE r \in Readable(chunk)
        BY <1>10, <1>12, <2>1, <3>2
      <3> QED BY <1>9, <2>4, <3>1, <3>2
    <2> QED BY <1>9, <1>10, <1>12, <2>1, <2>2, <2>3, <2>4 DEF IndexOfFiles
  <1>14. SyncReading'
    <2>1. /\ sync'.names = sync.names \ {name} /\ sync'.files = sync.files
      <3>1. sync' = [phase |-> "reading", names |-> sync.names \ {name}, files |-> sync.files]
        OBVIOUS
      <3> QED BY <3>1
    <2>2. /\ live' = live /\ Listing' = Listing /\ \A n : FileAt(n)' = FileAt(n)
      BY DEF FilesAsBefore
    <2>3. sync.phase = "reading"
      OBVIOUS
    <2>4. /\ \A n \in sync.names : sync.files[n].ino = f.ino => n = name
          /\ \A r \in seen.target \ Indexed : \E n \in sync.names :
                /\ Offset(sync.files[n].ino) # sync.files[n].size
                /\ n \in Listing => r \in Parsed(FileAt(n).bytes, sync.files[n].size)
      BY <1>2, <2>3 DEF SyncReading
    <2>5. \A n \in sync.names \ {name} : Offset(sync.files[n].ino)' = Offset(sync.files[n].ino)
      <3> SUFFICES ASSUME NEW n \in sync.names \ {name}
                   PROVE  Offset(sync.files[n].ino)' = Offset(sync.files[n].ino)
        OBVIOUS
      <3>1. sync'.files[n].ino = sync.files[n].ino /\ sync.files[n].ino # f.ino
        BY <2>1, <2>4
      <3> QED BY <1>10, <3>1
    <2>6. Indexed' \subseteq seen.target
      BY <1>2, <1>6, <1>9, <2>3 DEF SyncReading
    <2>7. ASSUME NEW r \in seen.target \ Indexed'
          PROVE  \E n \in sync.names \ {name} :
                    /\ Offset(sync.files[n].ino) # sync.files[n].size
                    /\ n \in Listing => r \in Parsed(FileAt(n).bytes, sync.files[n].size)
      <3>1. PICK n \in sync.names : /\ Offset(sync.files[n].ino) # sync.files[n].size
                                    /\ n \in Listing => r \in Parsed(FileAt(n).bytes, sync.files[n].size)
        BY <1>9, <2>4
      <3>2. n # name
        BY <1>4, <1>6, <1>9, <3>1
      <3> QED BY <3>1, <3>2
    <2>8. \A r \in seen.target \ Indexed' : \E n \in sync.names \ {name} :
              /\ Offset(sync.files[n].ino)' # sync.files[n].size
              /\ n \in Listing => r \in Parsed(FileAt(n).bytes, sync.files[n].size)
      BY <2>5, <2>7
    <2>9. /\ sync.names \subseteq DOMAIN sync.files
          /\ \A n \in sync.names : sync.files[n].ino \in Nat /\ sync.files[n].size \in Nat
          /\ \A n, m \in sync.names : sync.files[n].ino = sync.files[m].ino => n = m
          /\ LiveName \in sync.names => live # NoLog
      BY <2>3 DEF SyncReading
    <2>10. \A n \in (sync.names \ {name}) \cap Listing :
              /\ FileAt(n).ino = sync.files[n].ino
              /\ Offset(sync.files[n].ino)' <= sync.files[n].size
              /\ sync.files[n].size <= Len(FileAt(n).bytes)
              /\ Parsed(FileAt(n).bytes, sync.files[n].size) \subseteq seen.target
      BY <2>3, <2>5 DEF SyncReading
    <2> QED BY <2>1, <2>2, <2>6, <2>8, <2>9, <2>10 DEF SyncReading
  <1> QED BY <1>13, <1>14

(* A file that is gone, or in which there is nothing to read. *)
LEMMA IndexReadsNothing ==
  ASSUME LedgerInv, FilesAsBefore, IndexOfFiles, SyncReading,
         sync # Idle, sync = [phase |-> "reading", names |-> sync.names, files |-> sync.files],
         NEW name \in sync.names, NEW ino, ino = sync.files[name].ino,
         sources' = SetSource(ino, Offset(ino)), index' = index, seen'.target = seen.target,
         \/ sync' = Idle
         \/ /\ sync' = [sync EXCEPT !.names = sync.names \ {name}]
            /\ sync.files[name].size = Offset(ino)
  PROVE  IndexOfFiles' /\ SyncReading'
  <1>1. /\ \A i : Offset(i)' = Offset(i)
        /\ DOMAIN sources' = DOMAIN sources \cup {ino}
        /\ \A i \in DOMAIN sources' : sources'[i] \in Nat
    <2>1. DOMAIN sources' = DOMAIN sources \cup {ino}
          /\ \A i \in DOMAIN sources' : sources'[i] = IF i = ino THEN Offset(ino) ELSE sources[i]
      BY DEF SetSource
    <2>2. Offset(ino) \in Nat
      BY DEF Offset, IndexOfFiles
    <2>3. \A i \in DOMAIN sources' : sources'[i] \in Nat
      BY <2>1, <2>2 DEF IndexOfFiles
    <2> QED BY <2>1, <2>3 DEF Offset
  <1>2. Indexed' = Indexed /\ \A c : Done(c)' = Done(c)
    BY <1>1 DEF Indexed, Done
  <1>3. IndexOfFiles'
    BY <1>1, <1>2 DEF IndexOfFiles, FilesAsBefore
  <1>4. CASE sync' = Idle
    BY <1>3, <1>4 DEF SyncReading
  <1>5. CASE /\ sync' = [sync EXCEPT !.names = sync.names \ {name}]
             /\ sync.files[name].size = Offset(ino)
    <2>1. /\ sync'.names = sync.names \ {name} /\ sync'.files = sync.files
      <3>1. sync' = [phase |-> "reading", names |-> sync.names \ {name}, files |-> sync.files]
        BY <1>5
      <3> QED BY <3>1
    <2>2. /\ live' = live /\ Listing' = Listing /\ \A n : FileAt(n)' = FileAt(n)
      BY DEF FilesAsBefore
    <2>3. sync.phase = "reading"
      OBVIOUS
    <2>4. \A n : Offset(sync.files[n].ino)' = Offset(sync.files[n].ino)
      BY <1>1, <2>1
    <2>5. /\ sync.names \subseteq DOMAIN sync.files
          /\ \A n \in sync.names : sync.files[n].ino \in Nat /\ sync.files[n].size \in Nat
          /\ \A n, m \in sync.names : sync.files[n].ino = sync.files[m].ino => n = m
          /\ LiveName \in sync.names => live # NoLog
          /\ Indexed \subseteq seen.target
      BY <2>3 DEF SyncReading
    <2>6. \A n \in (sync.names \ {name}) \cap Listing :
              /\ FileAt(n).ino = sync.files[n].ino
              /\ Offset(sync.files[n].ino)' <= sync.files[n].size
              /\ sync.files[n].size <= Len(FileAt(n).bytes)
              /\ Parsed(FileAt(n).bytes, sync.files[n].size) \subseteq seen.target
      BY <2>3, <2>4 DEF SyncReading
    <2>7. \A r \in seen.target \ Indexed : \E n \in sync.names \ {name} :
              /\ Offset(sync.files[n].ino)' # sync.files[n].size
              /\ n \in Listing => r \in Parsed(FileAt(n).bytes, sync.files[n].size)
      BY <1>5, <2>3, <2>4 DEF SyncReading
    <2>8. SyncReading'
      BY <1>2, <2>1, <2>2, <2>5, <2>6, <2>7 DEF SyncReading
    <2> QED BY <1>3, <2>8
  <1> QED BY <1>4, <1>5

(* The index reads one file. *)
LEMMA IndexRead ==
  ASSUME LedgerInv, LedgerInv', IndexInv, SyncRead
  PROVE  IndexInv'
  <1>1. PICK name, ino, size, offset, chunk :
           /\ name = First(sync.names) /\ ino = sync.files[name].ino /\ size = sync.files[name].size
           /\ offset = Offset(ino) /\ chunk = Segment(name, offset, size)
    OBVIOUS
  <1>2. /\ UNCHANGED ledgerVars /\ sync # Idle /\ sync.phase = "reading" /\ sync.names # {}
        /\ \/ /\ size = offset
              /\ sources' = SetSource(ino, offset)
              /\ sync' = [sync EXCEPT !.names = sync.names \ {name}]
              /\ index' = index /\ seen' = seen
           \/ /\ size # offset /\ name \notin Listing
              /\ sources' = SetSource(ino, offset)
              /\ sync' = Idle /\ index' = index
              /\ seen' = [seen EXCEPT !.ok = FALSE]
           \/ /\ size # offset /\ name \in Listing
              /\ sources' = SetSource(ino, size - Unfinished(chunk))
              /\ index' = Plus(index, Once(Readable(chunk)))
              /\ sync' = [sync EXCEPT !.names = sync.names \ {name}]
              /\ seen' = seen
    BY <1>1 DEF SyncRead, ledgerVars
  <1>3. FilesAsBefore /\ seen \in SeenStates /\ ~ seen.ok /\ sync.names \subseteq Nat
        /\ sync = [phase |-> "reading", names |-> sync.names, files |-> sync.files]
    <2>1. seen \in SeenStates /\ ~ seen.ok /\ sync.names \subseteq Nat
          /\ \/ sync = [phase |-> "listed", names |-> sync.names]
             \/ sync = [phase |-> "reading", names |-> sync.names, files |-> sync.files]
      BY <1>2 DEF IndexInv, IndexTypes
    <2> QED BY <1>2, <2>1, LedgerUnchanged
  <1>4. name \in sync.names
    BY <1>1, <1>2, <1>3, FirstOfNames
  <1>5. /\ seen' \in SeenStates /\ ~ seen'.ok /\ seen'.target = seen.target
        /\ seen'.disturbed = seen.disturbed
    <2>1. CASE seen' = seen
      BY <1>3, <2>1
    <2>2. CASE seen' = [seen EXCEPT !.ok = FALSE]
      BY <1>3, <2>2 DEF SeenStates
    <2> QED BY <1>2, <2>1, <2>2
  <1>6. \/ sync' = Idle
        \/ sync' = [phase |-> "reading", names |-> sync.names \ {name}, files |-> sync.files]
    BY <1>2, <1>3
  <1>7. IndexTypes'
    <2>1. CASE sync' = Idle
      BY <1>5, <2>1 DEF IndexTypes
    <2>2. CASE sync' = [phase |-> "reading", names |-> sync.names \ {name}, files |-> sync.files]
      <3>1. /\ sync'.names = sync.names \ {name}
            /\ sync' = [phase |-> "reading", names |-> sync'.names, files |-> sync'.files]
        BY <2>2
      <3> QED BY <1>3, <1>5, <3>1 DEF IndexTypes
    <2> QED BY <1>6, <2>1, <2>2
  <1> SUFFICES ASSUME ~ seen'.disturbed
               PROVE  IndexOfFiles' /\ SyncReading' /\ SyncDone'
    BY <1>7 DEF IndexInv
  <1>8. IndexOfFiles /\ SyncReading
    BY <1>5 DEF IndexInv
  <1>9. SyncDone'
    BY <1>5 DEF SyncDone
  <1>10. CASE sources' = SetSource(ino, offset) /\ index' = index
              /\ (sync' = Idle \/ (size = offset /\ sync' = [sync EXCEPT !.names = sync.names \ {name}]))
    BY <1>1, <1>2, <1>3, <1>4, <1>5, <1>8, <1>9, <1>10, IndexReadsNothing
  <1>11. CASE /\ size # offset /\ name \in Listing
              /\ sources' = SetSource(ino, size - Unfinished(chunk))
              /\ index' = Plus(index, Once(Readable(chunk)))
              /\ sync' = [sync EXCEPT !.names = sync.names \ {name}]
    <2>1. PICK f, end : f = FileAt(name) /\ end = size - Unfinished(chunk)
      OBVIOUS
    <2>2. f.ino = ino
      BY <1>1, <1>2, <1>4, <1>8, <1>11, <2>1 DEF SyncReading
    <2>3. name \in sync.names \cap Listing
      BY <1>4, <1>11
    <2> QED BY <1>1, <1>2, <1>3, <1>5, <1>8, <1>9, <1>11, <2>1, <2>2, <2>3, IndexReadsLines
  <1> QED BY <1>2, <1>10, <1>11

(* A rotation gives a file another name, and nothing is lost of what had to wait. *)
LEMMA RotationKeepsContents ==
  ASSUME LedgerInv, Rotate
  PROVE  Contents' = Contents /\ Unread' = Unread /\ NextRow' = NextRow
  <1> DEFINE l == [ledger EXCEPT !.open = TRUE, !.bytes = 0]
             name == clock.renamed + 1
             last == [ino |-> live.ino, bytes |-> live.bytes, day |-> live.day, name |-> name]
  <1>1. /\ Ended /\ live # NoLog
        /\ ledger' = [Written(l, ledger.pending) EXCEPT !.pending = <<>>, !.rotation = "cleaning"]
    BY DEF Rotate, Ended
  <1>2. /\ l \in Ledgers /\ l.open /\ l.buffer = <<>> /\ l.pending = ledger.pending
        /\ l.closed = ledger.closed
    <2>1. ledger \in Ledgers /\ ledger.buffer = <<>>
      BY <1>1 DEF LedgerInv, LedgerTypes, Ended, LedgerShape
    <2> QED BY <2>1 DEF Ledgers
  <1>3. ~ ledger.closed
    BY <1>1 DEF LedgerInv, LedgerShape, Ended
  <1>4. /\ ledger.buffer = <<>> /\ ledger.pending \in Seq(Rows)
        /\ ledger'.pending = <<>> /\ ledger'.buffer = LinesOf(ledger.pending)
    <2> HIDE DEF l
    <2> QED BY <1>1, <1>2, <1>3, RotatedFacts, LedgerParts DEF LedgerInv
  <1>5. Unread' = Unread
    <2>1. Held(LinesOf(ledger.pending)) = Members(ledger.pending)
      BY <1>4, LinesContent
    <2> QED BY <1>4, <2>1, NothingHeld DEF Unread
  <1>6. CASE live.bytes = <<>>
    <2>1. archives' = archives /\ live' = live /\ clock' = clock
      BY <1>6 DEF Rotate
    <2> QED BY <1>5, <2>1 DEF Contents, Files, NextRow
  <1>7. CASE live.bytes # <<>>
    <2>1. archives' = archives \cup {last} /\ live' = NoLog /\ clock' = [clock EXCEPT !.renamed = name]
      BY <1>7 DEF Rotate
    <2>2. NextRow' = NextRow
      BY <2>1 DEF LedgerInv, LedgerTypes, Clocks, NextRow
    <2>3. Content(last) = Content(live)
      BY DEF Content
    <2> HIDE DEF last
    <2>4. Files = archives \cup {live} /\ Files' = archives \cup {last}
      BY <1>1, <2>1 DEF Files
    <2>5. Contents' = {Content(f) : f \in archives} \cup {Content(last)}
      BY <2>4 DEF Contents
    <2>6. Contents = {Content(f) : f \in archives} \cup {Content(live)}
      BY <2>4 DEF Contents
    <2> QED BY <1>5, <2>2, <2>3, <2>5, <2>6
  <1> QED BY <1>6, <1>7

(* The removal of an archive leaves the others under their names. *)
LEMMA RemovalKeepsTheOthers ==
  ASSUME LedgerInv, RemoveArchive, LedgerInv'
  PROVE  /\ Contents' \subseteq Contents /\ Unread' = Unread /\ NextRow' = NextRow /\ live' = live
         /\ Listing' \subseteq Listing /\ \A n \in Listing' : FileAt(n)' = FileAt(n)
  <1>1. /\ archives' \subseteq archives /\ live' = live /\ ledger' = ledger /\ clock' = clock
    BY DEF RemoveArchive
  <1>2. FilesNamed /\ FilesNamed'
    BY NamesOfFiles, NamesOfFilesNext
  <1>3. Contents' \subseteq Contents /\ Listing' \subseteq Listing /\ Unread' = Unread /\ NextRow' = NextRow
    BY <1>1 DEF Contents, Files, Listing, Unread, NextRow
  <1>4. ASSUME NEW n \in Listing'
        PROVE  FileAt(n)' = FileAt(n)
    <2>1. CASE n = LiveName
      BY <1>1, <2>1 DEF FileAt
    <2>2. CASE n # LiveName
      <3>1. FileAt(n)' \in archives' /\ FileAt(n)'.name = n
        BY <1>2, <1>4, <2>2 DEF FilesNamed
      <3>2. FileAt(FileAt(n)'.name) = FileAt(n)'
        BY <1>1, <1>2, <3>1 DEF FilesNamed
      <3> QED BY <3>1, <3>2
    <2> QED BY <2>1, <2>2
  <1> QED BY <1>1, <1>3, <1>4

LEMMA IndexStep ==
  ASSUME LedgerInv, LedgerInv', IndexInv, [HistoryNext]_historyVars
  PROVE  IndexInv'
  <1>1. seen \in SeenStates
    BY DEF IndexInv, IndexTypes
  <1>2. CASE UNCHANGED historyVars \/ DayPasses \/ ScanList \/ ScanRead \/ ScanEnd
    <2>1. /\ index' = index /\ sources' = sources /\ sync' = sync
          /\ archives' = archives /\ live' = live /\ ledger' = ledger
          /\ clock' = clock \/ clock' = [clock EXCEPT !.day = clock.day + 1]
      BY <1>2 DEF historyVars, DayPasses, Moved, Midnight, ScanList, ScanRead, ScanEnd
    <2>2. /\ seen' \in SeenStates /\ seen'.target = seen.target /\ seen'.ok = seen.ok
          /\ seen'.disturbed = seen.disturbed
      <3>1. CASE seen' = seen
        BY <1>1, <3>1
      <3>2. CASE DayPasses
        <4>1. seen' = [seen EXCEPT !.disturbed = seen.disturbed \/ (FALSE /\ sync # Idle)]
          BY <3>2 DEF DayPasses, Moved
        <4>2. (seen.disturbed \/ (FALSE /\ sync # Idle)) = seen.disturbed
          BY <1>1 DEF SeenStates
        <4>3. seen' = [seen EXCEPT !.disturbed = seen.disturbed]
          BY <4>1, <4>2
        <4> QED BY <1>1, <4>3 DEF SeenStates
      <3>3. CASE ScanEnd
        <4>1. seen' = [seen EXCEPT !.scanned = ~ scan.moved]
          BY <3>3 DEF ScanEnd
        <4>2. (~ scan.moved) \in BOOLEAN
          OBVIOUS
        <4> QED BY <1>1, <4>1, <4>2 DEF SeenStates
      <3> QED BY <1>2, <3>1, <3>2, <3>3 DEF historyVars, ScanList, ScanRead
    <2>3. IndexStays
      BY <2>1, <2>2 DEF IndexStays
    <2>4. clock'.rows = clock.rows
      BY <2>1 DEF LedgerInv, LedgerTypes, Clocks
    <2>5. /\ Contents' = Contents /\ Unread' = Unread /\ NextRow' = NextRow
          /\ Listing' = Listing /\ \A n : FileAt(n)' = FileAt(n)
      BY <2>1, <2>4 DEF Contents, Files, Unread, NextRow, Listing, FileAt
    <2> QED BY <2>1, <2>3, <2>5, IndexShrinks
  <1>3. CASE Use
    <2>1. /\ NextRow \in Rows /\ FilesGrow({NextRow}) /\ NextRow' = NextRow + 1 /\ NextRow \in Nat
          /\ clock.day \in Nat /\ live' = live
      BY <1>3, AppendFacts, AppendGrows, RowsAreNumbers
         DEF Use, LedgerInv, LedgerTypes, Clocks, NextRow, FilesKept
    <2>2. /\ index' = index /\ sources' = sources /\ sync' = sync
          /\ seen' = [seen EXCEPT !.dayOf = [seen.dayOf EXCEPT ![NextRow] = clock.day],
                                  !.midScan = IF scan = Idle THEN seen.midScan
                                              ELSE seen.midScan \cup {NextRow}]
      BY <1>3 DEF Use
    <2>3. /\ [seen.dayOf EXCEPT ![NextRow] = clock.day] \in [Rows -> Nat]
          /\ (IF scan = Idle THEN seen.midScan ELSE seen.midScan \cup {NextRow}) \in SUBSET Rows
      BY <1>1, <2>1 DEF SeenStates
    <2>4. /\ seen' \in SeenStates /\ seen'.target = seen.target /\ seen'.ok = seen.ok
          /\ seen'.disturbed = seen.disturbed
      BY <1>1, <2>2, <2>3 DEF SeenStates
    <2>5. IndexStays
      BY <2>2, <2>4 DEF IndexStays
    <2>6. NextRow < NextRow' /\ NextRow <= NextRow'
      BY <2>1
    <2> QED BY <2>1, <2>5, <2>6, IndexGrows
  <1>4. CASE LedgerWrites \/ FileOpens
    <2>1. GrowingSteps /\ index' = index /\ sources' = sources /\ sync' = sync
      BY <1>4 DEF LedgerWrites, FileOpens, GrowingSteps, readers
    <2>2. FilesGrow({})
      BY <2>1, StepsGrow
    <2>3. /\ seen' \in SeenStates /\ seen'.target = seen.target /\ seen'.ok = seen.ok
          /\ ~ seen'.disturbed => ~ seen.disturbed
      <3>1. (seen.disturbed \/ FreeInode \in DOMAIN sources) \in BOOLEAN
        BY <1>1 DEF SeenStates
      <3>2. \/ seen' = seen
            \/ seen' = [seen EXCEPT !.disturbed = seen.disturbed \/ FreeInode \in DOMAIN sources]
        BY <1>4 DEF LedgerWrites, FileOpens, readers
      <3> QED BY <1>1, <3>1, <3>2 DEF SeenStates
    <2>4. NextRow' = NextRow /\ NextRow \in Nat
      <3>1. clock'.rows = clock.rows /\ clock.rows \in Nat
        BY <1>4 DEF LedgerWrites, FileOpens, WriteByte, WriteFails, RotateFails, EndCleanup, Maintain,
                    Close, OpenFile, LedgerInv, LedgerTypes, Clocks
      <3> QED BY <3>1 DEF NextRow
    <2>5. (live = NoLog /\ live' # NoLog) => seen'.disturbed \/ live'.ino \notin DOMAIN sources
      <3>1. CASE LedgerWrites
        BY <3>1 DEF LedgerWrites, WriteByte, WriteFails, RotateFails, EndCleanup, Maintain, Close
      <3>2. CASE FileOpens
        <4>1. live' = Opened(live) /\ live = NoLog
              /\ seen' = [seen EXCEPT !.disturbed = seen.disturbed \/ FreeInode \in DOMAIN sources]
          BY <3>2 DEF FileOpens, OpenFile
        <4>2. live'.ino = FreeInode
          BY <4>1, OpenedFacts DEF LedgerInv
        <4>3. FreeInode \in DOMAIN sources => seen'.disturbed
          BY <1>1, <4>1 DEF SeenStates
        <4> QED BY <4>2, <4>3
      <3> QED BY <1>4, <3>1, <3>2
    <2>6. IndexStays
      BY <2>1, <2>3 DEF IndexStays
    <2> QED BY <2>2, <2>4, <2>5, <2>6, IndexGrows
  <1>5. CASE FileMoves
    <2>1. /\ Rotate /\ index' = index /\ sources' = sources /\ sync' = sync
          /\ seen' = [seen EXCEPT !.disturbed = seen.disturbed \/ (TRUE /\ sync # Idle)]
      BY <1>5 DEF FileMoves, Moved
    <2>2. (seen.disturbed \/ (TRUE /\ sync # Idle)) \in BOOLEAN
      BY <1>1 DEF SeenStates
    <2>3. /\ seen' \in SeenStates /\ seen'.target = seen.target /\ seen'.ok = seen.ok
          /\ seen'.disturbed <=> (seen.disturbed \/ sync # Idle)
      BY <1>1, <2>1, <2>2 DEF SeenStates
    <2>4. IndexStays /\ (seen'.disturbed \/ sync = Idle)
      BY <2>1, <2>3 DEF IndexStays
    <2> QED BY <2>1, <2>4, RotationKeepsContents, IndexShrinks
  <1>6. CASE FileGoes
    <2>1. /\ RemoveArchive /\ index' = index /\ sources' = sources /\ sync' = sync
          /\ seen' = [seen EXCEPT !.disturbed = seen.disturbed \/ (FALSE /\ sync # Idle)]
      BY <1>6 DEF FileGoes, Moved
    <2>2. (seen.disturbed \/ (FALSE /\ sync # Idle)) \in BOOLEAN
      BY <1>1 DEF SeenStates
    <2>3. /\ seen' \in SeenStates /\ seen'.target = seen.target /\ seen'.ok = seen.ok
          /\ seen'.disturbed <=> seen.disturbed
      BY <1>1, <2>1, <2>2 DEF SeenStates
    <2>4. IndexStays
      BY <2>1, <2>3 DEF IndexStays
    <2> QED BY <2>1, <2>4, RemovalKeepsTheOthers, IndexShrinks
  <1>7. CASE Restart
    <2>1. /\ index' = Nothing /\ sources' = <<>> /\ sync' = Idle
          /\ seen' = [seen EXCEPT !.ok = FALSE, !.disturbed = FALSE, !.midScan = {}, !.scanned = FALSE]
      BY <1>7 DEF Restart
    <2>2. seen' \in SeenStates /\ ~ seen'.ok
      BY <1>1, <2>1 DEF SeenStates
    <2> QED BY <2>1, <2>2, IndexStarts
  <1> QED BY <1>2, <1>3, <1>4, <1>5, <1>6, <1>7, IndexList, IndexStat, IndexRead, IndexEnd DEF HistoryNext

LEMMA IndexBegins == HistoryInit => IndexInv
  <1> SUFFICES ASSUME HistoryInit PROVE IndexInv
    OBVIOUS
  <1>1. /\ index = Nothing /\ sources = <<>> /\ sync = Idle /\ archives = {}
        /\ live = [ino |-> 1, bytes |-> <<>>, day |-> 1] /\ ledger = FreshLedger(0)
    BY DEF HistoryInit, InitLedger
  <1>2. seen \in SeenStates /\ ~ seen.ok
    BY SeenBegins
  <1>3. LedgerInv
    BY LedgerBegins DEF HistoryInit
  <1>4. /\ Indexed = {} /\ index \in [Rows -> {0, 1}]
        /\ DOMAIN sources = {} /\ \A i : Offset(i) = 0
    BY <1>1 DEF Indexed, Nothing, Offset
  <1>5. IndexTypes
    BY <1>1, <1>2 DEF IndexTypes
  <1>6. \A c \in Contents : c.bytes \in Seq(Bytes)
    BY <1>3, FilesByInode DEF FilesHeld
  <1>7. \A c \in Contents : /\ Offset(c.ino) \in 0 .. Len(c.bytes)
                            /\ LineEnd(c.bytes, Offset(c.ino)) /\ Done(c) = {}
    BY <1>4, <1>6, ParsedFacts DEF LineEnd, Done
  <1>8. IndexOfFiles
    BY <1>4, <1>7 DEF IndexOfFiles
  <1> QED BY <1>1, <1>2, <1>5, <1>8 DEF IndexInv, SyncReading, SyncDone

LEMMA IndexHolds == IndexInv => HistoryExact
  <1> SUFFICES ASSUME IndexInv, sync = Idle, seen.ok, ~ seen.disturbed
               PROVE  index = [r \in Rows |-> IF r \in seen.target THEN 1 ELSE 0]
    BY DEF HistoryExact
  <1>1. index \in [Rows -> {0, 1}] /\ Indexed = seen.target
    BY DEF IndexInv, IndexOfFiles, SyncDone
  <1>2. \A r \in Rows : index[r] = IF r \in seen.target THEN 1 ELSE 0
    BY <1>1 DEF Indexed
  <1> QED BY <1>1, <1>2

(* A finished sync of usage-history.mjs has counted exactly the whole lines *)
(* of the files it looked at, each once, over any number of syncs and of   *)
(* appends between its awaits, with half lines and removed archives, unless *)
(* a rotation passed under it or a new file got the inode of a read one.   *)
THEOREM IndexCountsEachLineOnce == HistorySpec => []HistoryExact
  <1>1. HistoryInit => IndexInv
    BY IndexBegins
  <1>2. LedgerInv /\ LedgerInv' /\ IndexInv /\ [HistoryNext]_historyVars => IndexInv'
    BY IndexStep
  <1>3. IndexInv => HistoryExact
    BY IndexHolds
  <1> QED BY <1>1, <1>2, <1>3, LedgerInvariant, PTL DEF HistorySpec
===============================================================================
