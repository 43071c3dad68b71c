------------------------------ MODULE VendorBudget ------------------------------
(***************************************************************************)
(* The daily budget of budget-manager.mjs as the gateway request handler   *)
(* and the request accounting use it: the gates a request passes, the      *)
(* amount reserved for it while it is dispatched, the charges its answers  *)
(* cause, the two ways the day is turned over (a timer within the minute,  *)
(* and lazily by the first charge), and the file the manager is loaded     *)
(* from after a crash.                                                     *)
(*                                                                         *)
(* An action is one turn of the event loop.  The amounts are the ones the  *)
(* price lists give; what a request is sent to is the subject of           *)
(* OrdinaryDispatch and LogicalDispatch.                                   *)
(***************************************************************************)
EXTENDS Integers, FiniteSets

CONSTANTS
    Requests,    \* identities of requests, each used once
    Logical,     \* those whose model is a logical one
    Vendors,
    Cap,         \* vendor |-> dailyCnyCap, 0 for none
    Total,       \* daily credit budget
    Reserves,    \* what estimateRequestReserveCny may give
    Charges,     \* [credits, cny] an answer may cost
    NoFile,
    MaxDay,      \* bound of the days
    MaxFaults,   \* bound of the writes that fail and the crashes
    MaxAttempts  \* bound of the charged attempts of one logical request

\* What the file may hold.
Saves == [used : Nat, date : Nat, cny : [Vendors -> Nat], reserved : [Vendors -> Nat],
          updated : Nat]

ASSUME BudgetAssumption ==
    /\ IsFiniteSet(Requests) /\ Logical \subseteq Requests
    /\ Vendors # {} /\ NoFile \notin Saves
    /\ Cap \in [Vendors -> Nat]
    /\ Total \in Nat \ {0}
    /\ Reserves \subseteq Nat
    /\ Charges \subseteq [credits : Nat, cny : Nat]
    /\ MaxDay \in Nat /\ MaxFaults \in Nat /\ MaxAttempts \in Nat

VARIABLES
    day,        \* the UTC date
    resetDay,   \* resetDate: the date the timer knows
    up,         \* the process runs
    mem,        \* [used, date, cny, reserved]: budget and vendor_spend_today
    file,       \* NoFile, or what was saved with the date it was saved on
    req,        \* request |-> [phase, vendor, reserve, tries, stale]
    faults,     \* writes that failed and crashes so far
    audit,      \* observer of mem, and of the file (see below)
    fileAudit,
    today       \* observer: [credits, gap, lost] of the day

vars == <<day, resetDay, up, mem, file, req, faults, audit, fileAudit, today>>

Zero == [v \in Vendors |-> 0]
Fresh(d) == [used |-> 0, date |-> d, cny |-> Zero, reserved |-> Zero]

\* What the observer knows of a memory or a file: vendors a reservation of
\* another spend table was released to, charges no reservation stood for,
\* reservations loaded from the file, and whether used counts an earlier day.
NewAudit == [mixed |-> {}, extra |-> Zero, loaded |-> Zero, carried |-> FALSE]

NoRequest == [phase |-> "new", vendor |-> CHOOSE v \in Vendors : TRUE,
              reserve |-> 0, tries |-> 0, stale |-> FALSE]

Init ==
    /\ day = 1 /\ resetDay = 1 /\ up = TRUE
    /\ mem = Fresh(1)
    /\ file = NoFile
    /\ req = [r \in Requests |-> NoRequest]
    /\ faults = 0
    /\ audit = NewAudit /\ fileAudit = NewAudit
    /\ today = [credits |-> 0, gap |-> FALSE, lost |-> FALSE]

-----------------------------------------------------------------------------

(* The operations of the manager. *)

\* saveBudget: a temporary file renamed over the old one, stamped with the date.
Saved(m) == [used |-> m.used, date |-> m.date, cny |-> m.cny, reserved |-> m.reserved,
             updated |-> day]

\* Mutant of Load: it does not ask when the file was saved.
LoadAnyDay == IF file = NoFile THEN Fresh(day)
              ELSE [used |-> file.used, date |-> file.date, cny |-> file.cny,
                    reserved |-> file.reserved]

\* loadBudget: the file counts only when it was saved today.
Load == IF file # NoFile /\ file.updated = day
        THEN [used |-> file.used, date |-> file.date, cny |-> file.cny, reserved |-> file.reserved]
        ELSE Fresh(day)

\* Mutant of ResetDailyVendorSpend: the reservations are carried over.
ResetKeepsReserved(m) == IF m.date = day THEN m ELSE [m EXCEPT !.date = day, !.cny = Zero]

\* resetDailyVendorSpend: only the table of the vendors turns over.
ResetDailyVendorSpend(m) ==
    IF m.date = day THEN m ELSE [m EXCEPT !.date = day, !.cny = Zero, !.reserved = Zero]

\* resetState of the timer.
ResetState == Fresh(day)

\* checkVendorConstraints, the part about money.
VendorExhausted(v) == Cap[v] > 0 /\ mem.cny[v] + mem.reserved[v] >= Cap[v]

\* Mutant of ReservationFits: it forgets what others have reserved.
FitsAlone(v, amount) == Cap[v] > 0 /\ amount > 0 => mem.cny[v] + amount <= Cap[v]

\* checkVendorCnyReservation: nothing to reserve is never refused.
ReservationFits(v, amount) ==
    Cap[v] > 0 /\ amount > 0 => mem.cny[v] + mem.reserved[v] + amount <= Cap[v]

ReserveVendorCny(m, v, amount) == [m EXCEPT !.reserved[v] = @ + amount]
ReleaseVendorCny(m, v, amount) ==
    [m EXCEPT !.reserved[v] = IF @ > amount THEN @ - amount ELSE 0]

\* vendorCost: an answer without usage costs what would be reserved for it.
VendorCost(v, charge, estimate) ==
    IF charge.cny = 0 /\ Cap[v] > 0 THEN estimate ELSE charge.cny

\* recordCharge, in memory.
Charged(m, v, credits, cny) ==
    [ResetDailyVendorSpend([m EXCEPT !.used = @ + credits]) EXCEPT !.cny[v] = @ + cny]

-----------------------------------------------------------------------------

(* The observers. *)

\* The table of the vendors is a new one: the reservations of the requests in
\* flight are not in it.
Stale(rs) == [r \in Requests |-> [rs[r] EXCEPT !.stale = @ \/ rs[r].phase = "dispatch"]]
NewTable(a) == [a EXCEPT !.mixed = {}, !.extra = Zero, !.loaded = Zero]

\* A charge of request r on vendor v; the last charge of a request may use what
\* is reserved for it, as it is released in the same turn.
AuditCharge(a, v, cny, covered) ==
    [a EXCEPT !.extra[v] = @ + (IF cny > covered THEN cny - covered ELSE 0)]

TodayCharged(credits, saved) ==
    [credits |-> today.credits + credits,
     gap     |-> today.gap \/ (credits > 0 /\ resetDay # day),
     lost    |-> IF saved THEN today.lost ELSE today.lost \/ credits > 0]

\* A write of the file, or none.
Write(m, a, saved) ==
    /\ file' = IF saved THEN Saved(m) ELSE file
    /\ fileAudit' = IF saved THEN a ELSE fileAudit

-----------------------------------------------------------------------------

(* A request. *)

\* The gates before the body is read: the window and the peak hours, which are
\* not modelled, may refuse; the credits and the vendor's money do.
Admit(r, v) ==
    /\ up /\ req[r].phase = "new"
    /\ mem.used < Total
    /\ ~VendorExhausted(v)
    /\ req' = [req EXCEPT ![r].phase = "body", ![r].vendor = v]
    /\ UNCHANGED <<day, resetDay, up, mem, file, faults, audit, fileAudit, today>>

\* A body that cannot be read, or a model without a price: refused.
RefuseBody(r) ==
    /\ up /\ req[r].phase = "body"
    /\ req' = [req EXCEPT ![r].phase = "done"]
    /\ UNCHANGED <<day, resetDay, up, mem, file, faults, audit, fileAudit, today>>

\* The body is read: the reservation is checked and made in the same turn.  A
\* vendor without a cap reserves nothing.
ReadBody(r, estimate) ==
    LET v == req[r].vendor
        amount == IF Cap[v] = 0 THEN 0 ELSE estimate
    IN /\ up /\ req[r].phase = "body"
       /\ IF ReservationFits(v, amount)
          THEN /\ mem' = ReserveVendorCny(mem, v, amount)
               /\ req' = [req EXCEPT ![r].phase = "dispatch", ![r].reserve = amount]
          ELSE /\ req' = [req EXCEPT ![r].phase = "done"]
               /\ UNCHANGED mem
       /\ UNCHANGED <<day, resetDay, up, file, faults, audit, fileAudit, today>>

\* The finally of the handler: the reservation is released and, unless it was
\* nothing, the state saved.  m, a and rs are memory, observer and requests so far.
Release(r, m, a, rs) ==
    LET v  == req[r].vendor
        m2 == ReleaseVendorCny(m, v, req[r].reserve)
        a2 == IF rs[r].stale /\ req[r].reserve > 0 THEN [a EXCEPT !.mixed = @ \cup {v}] ELSE a
    IN /\ mem' = m2 /\ audit' = a2
       /\ req' = [rs EXCEPT ![r].phase = "done"]

\* A dispatch that ends without a charge.
EndUncharged(r) ==
    /\ up /\ req[r].phase = "dispatch"
    /\ Release(r, mem, audit, req)
    /\ \E saved \in BOOLEAN :
          /\ ~saved => faults < MaxFaults /\ req[r].reserve > 0
          /\ faults' = IF saved THEN faults ELSE faults + 1
          /\ Write(mem', audit', saved /\ req[r].reserve > 0)
    /\ UNCHANGED <<day, resetDay, up, today>>

\* The observers and requests once a charge has met a table of an earlier date.
TableOf(a) == IF mem.date = day THEN a ELSE NewTable(a)
RequestsNow == IF mem.date = day THEN req ELSE Stale(req)

\* What of the reservation of r still stands for its last charge on v.
Covered(r, v) == IF RequestsNow[r].stale \/ v # req[r].vendor THEN 0 ELSE req[r].reserve

\* An answer that is charged ends the dispatch: a success, of a logical request
\* maybe on another vendor.  When the save of the charge fails, the exception
\* ends the dispatch too, and the release saves again.
EndCharged(r, v, charge) ==
    LET cny == VendorCost(v, charge, req[r].reserve)
        m   == Charged(mem, v, charge.credits, cny)
        a   == AuditCharge(TableOf(audit), v, cny, Covered(r, v))
    IN /\ up /\ req[r].phase = "dispatch"
       /\ r \in Logical \/ v = req[r].vendor
       /\ charge.credits + cny > 0
       /\ Release(r, m, a, RequestsNow)
       /\ \E saved \in BOOLEAN :
             /\ ~saved => faults < MaxFaults
             /\ faults' = IF saved THEN faults ELSE faults + 1
             /\ IF req[r].reserve > 0 THEN Write(mem', audit', TRUE) ELSE Write(m, a, saved)
             /\ today' = TodayCharged(charge.credits, saved \/ req[r].reserve > 0)
       /\ UNCHANGED <<day, resetDay, up>>

\* The charge that turns the table over saves twice; when the first save fails
\* the vendor's part of the charge is not recorded.
EndUnrecorded(r, v, charge) ==
    /\ up /\ req[r].phase = "dispatch" /\ faults < MaxFaults
    /\ r \in Logical \/ v = req[r].vendor
    /\ mem.date # day
    /\ charge.credits + VendorCost(v, charge, req[r].reserve) > 0
    /\ Release(r, Charged(mem, v, charge.credits, 0), TableOf(audit), RequestsNow)
    /\ Write(mem', audit', req[r].reserve > 0)
    /\ faults' = faults + 1
    /\ today' = TodayCharged(charge.credits, req[r].reserve > 0)
    /\ UNCHANGED <<day, resetDay, up>>

\* A failed attempt of a logical request that used tokens is charged; the
\* dispatch goes on with what it has reserved.
AttemptCharged(r, v, charge) ==
    LET cny == VendorCost(v, charge, req[r].reserve)
        m   == Charged(mem, v, charge.credits, cny)
        a   == AuditCharge(TableOf(audit), v, cny, 0)
    IN /\ up /\ req[r].phase = "dispatch"
       /\ r \in Logical /\ req[r].tries < MaxAttempts
       /\ charge.credits + cny > 0
       /\ mem' = m /\ audit' = a
       /\ req' = [RequestsNow EXCEPT ![r].tries = @ + 1]
       /\ Write(m, a, TRUE)
       /\ today' = TodayCharged(charge.credits, TRUE)
       /\ UNCHANGED <<day, resetDay, up, faults>>

-----------------------------------------------------------------------------

(* The day, and the process. *)

NextDay ==
    /\ day < MaxDay
    /\ day' = day + 1
    /\ today' = [credits |-> 0, gap |-> FALSE, lost |-> FALSE]
    /\ audit' = [audit EXCEPT !.carried = TRUE]
    /\ UNCHANGED <<resetDay, up, mem, file, req, faults, fileAudit>>

\* The interval of 60 s finds another date.
ResetTimer ==
    /\ up /\ day # resetDay
    /\ mem' = ResetState
    /\ audit' = NewAudit
    /\ req' = Stale(req)
    /\ resetDay' = day
    /\ Write(mem', audit', TRUE)
    /\ UNCHANGED <<day, up, faults, today>>

\* The process ends with what is on disk; a reset that cannot be saved throws
\* in the timer and ends it the same way.
Crash ==
    /\ up /\ faults < MaxFaults
    /\ up' = FALSE
    /\ faults' = faults + 1
    /\ req' = [r \in Requests |-> IF req[r].phase = "new" THEN req[r]
                                  ELSE [req[r] EXCEPT !.phase = "done"]]
    /\ UNCHANGED <<day, resetDay, mem, file, audit, fileAudit, today>>

Start ==
    /\ ~up
    /\ up' = TRUE
    /\ mem' = Load
    /\ resetDay' = day
    /\ audit' = IF file # NoFile /\ file.updated = day
                THEN [fileAudit EXCEPT !.loaded = file.reserved] ELSE NewAudit
    /\ UNCHANGED <<day, file, req, faults, fileAudit, today>>

Next ==
    \/ \E r \in Requests :
          \/ \E v \in Vendors : Admit(r, v)
          \/ RefuseBody(r)
          \/ \E estimate \in Reserves : ReadBody(r, estimate)
          \/ EndUncharged(r)
          \/ \E v \in Vendors, charge \in Charges :
                \/ EndCharged(r, v, charge)
                \/ EndUnrecorded(r, v, charge)
                \/ AttemptCharged(r, v, charge)
    \/ NextDay \/ ResetTimer \/ Crash \/ Start

Spec == Init /\ [][Next]_vars

-----------------------------------------------------------------------------

Spends == [used : Nat, date : Nat, cny : [Vendors -> Nat], reserved : [Vendors -> Nat]]

TypeOK ==
    /\ day \in Nat /\ resetDay \in Nat /\ up \in BOOLEAN
    /\ mem \in Spends
    /\ file \in Saves \cup {NoFile}
    /\ faults \in Nat
    /\ req \in [Requests -> [phase : {"new", "body", "dispatch", "done"}, vendor : Vendors,
                             reserve : Nat, tries : Nat, stale : BOOLEAN]]

\* The requests rs in flight that hold a reservation in the present table of v.
Holders(rs, v) ==
    {r \in Requests : rs[r].phase = "dispatch" /\ rs[r].vendor = v /\ ~rs[r].stale}

\* What they hold, unit by unit of money.
HeldUnits(rs, v) == UNION {{r} \X (1 .. rs[r].reserve) : r \in Holders(rs, v)}

HeldFor(v) == Cardinality(HeldUnits(req, v))

\* What is reserved on a vendor is what the requests in flight hold, and what a
\* crash left in the file: no path through the handler forgets or repeats a
\* release (gateway-request-handler.mjs 175-205).  A request that outlives its
\* table releases from the next one what another request holds there; from then
\* on less may be reserved, never more.
ReservationsExact ==
    up => \A v \in Vendors :
        /\ mem.reserved[v] <= audit.loaded[v] + HeldFor(v)
        /\ v \notin audit.mixed => mem.reserved[v] = audit.loaded[v] + HeldFor(v)

\* However requests interleave between the gate, the reservation and the charge,
\* the money spent and reserved on a vendor exceeds its cap by no more than the
\* charges for which nothing was reserved: attempts of logical requests, answers
\* dearer than their estimate (budget-manager.mjs 187-196).
CapHolds ==
    up => \A v \in Vendors :
        Cap[v] > 0 /\ v \notin audit.mixed
            => mem.cny[v] + mem.reserved[v] <= Cap[v] + audit.extra[v]

\* The credits counted are credits of today, across midnight, crashes and saves:
\* all of them, unless a charge came in the minute before the timer noticed the
\* date, or could not be saved.  (A file saved in that minute carries yesterday's
\* credits under today's date, see carried; budget-manager.mjs 41-60, 286-313.)
UsedIsOfToday ==
    up /\ ~audit.carried =>
        /\ mem.used <= today.credits
        /\ ~today.gap /\ ~today.lost => mem.used = today.credits
================================================================================
