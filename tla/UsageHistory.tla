----------------------------- MODULE UsageHistory -----------------------------
(***************************************************************************)
(* The readers of usage.log in the process that writes it: the incremental *)
(* index of usage-history.mjs and the counters of the day of               *)
(* usage-dashboard.mjs, which are filled by the rows as they are appended  *)
(* and, once after the start, from the files.  Each read lists the files,  *)
(* then opens them one by one by name, with the ledger at work in between. *)
(***************************************************************************)
EXTENDS UsageLedger

CONSTANTS MaxSyncs,      \* bound: calls of sync
          Idle           \* no sync is under way, or no scan

ASSUME HistoryAssumption == MaxSyncs \in Nat

VARIABLES index,         \* byDate: how often each row has been counted
          sources,       \* identity of a file -> offset read so far
          sync,          \* Idle, or the sync under way
          counts,        \* the counters of the dashboard: times each row counts
          scan,          \* Idle, or the scan of the start
          seen           \* [syncs, target, ok, disturbed, midScan, dayOf]: observers

readers == <<index, sources, sync, counts, scan, seen>>
historyVars == <<archives, live, ledger, cleanup, clock, index, sources, sync, counts, scan, seen>>

\* The name of usage.log itself: it sorts after every archive.
LiveName == 0
Nothing == [r \in Rows |-> 0]

\* The scan of the start, or none when the directory could not be listed.
Scans == {[phase |-> "start", moved |-> FALSE], Idle}

\* listUsageLogFiles: the names of the archives, and that of usage.log.
Listing == {f.name : f \in archives} \cup (IF live = NoLog THEN {} ELSE {LiveName})

\* Their order: the archives by name, usage.log last.
Before(n, m) == n # LiveName /\ (m = LiveName \/ n < m)
First(names) == CHOOSE n \in names : \A m \in names \ {n} : Before(n, m)

\* What opening a name finds now.
FileAt(name) == IF name = LiveName THEN live ELSE CHOOSE f \in archives : f.name = name

Once(rs) == [r \in Rows |-> IF r \in rs THEN 1 ELSE 0]
Plus(f, g) == [r \in Rows |-> f[r] + g[r]]

-----------------------------------------------------------------------------

\* sync: single-flight; the first step lists the directory.
SyncList ==
    /\ sync = Idle /\ seen.syncs < MaxSyncs
    /\ sync' = [phase |-> "listed", names |-> Listing]
    /\ seen' = [seen EXCEPT !.syncs = @ + 1, !.ok = FALSE, !.target = {}]
    /\ UNCHANGED <<archives, live, ledger, cleanup, clock, index, sources, counts, scan>>

\* The files that still exist are taken with their identity and size; a known
\* identity that is gone or shorter makes the index start again.
SyncStat ==
    /\ sync # Idle /\ sync.phase = "listed"
    /\ LET names   == sync.names \cap Listing
           files   == [n \in names |-> [ino |-> FileAt(n).ino, size |-> Len(FileAt(n).bytes)]]
           gone    == \E ino \in DOMAIN sources : \A n \in names : files[n].ino # ino
           shorter == \E n \in names : /\ files[n].ino \in DOMAIN sources
                                       /\ files[n].size < sources[files[n].ino]
           again   == gone \/ shorter
       IN /\ sync' = [phase |-> "reading", names |-> names, files |-> files]
          /\ sources' = IF again THEN <<>> ELSE sources
          /\ index' = IF again THEN Nothing ELSE index
          /\ seen' = [seen EXCEPT !.target = UNION {Readable(FileAt(n).bytes) : n \in names},
                                  !.disturbed = ~again /\ seen.disturbed]
    /\ UNCHANGED <<archives, live, ledger, cleanup, clock, counts, scan>>

Offset(ino) == IF ino \in DOMAIN sources THEN sources[ino] ELSE 0
SetSource(ino, offset) == [k \in DOMAIN sources \cup {ino} |-> IF k = ino THEN offset ELSE sources[k]]

\* The bytes of the stream createReadStream(path, { start, end }).
Segment(name, from, to) ==
    LET bytes == FileAt(name).bytes
    IN SubSeq(bytes, from + 1, IF to < Len(bytes) THEN to ELSE Len(bytes))

\* One file: the whole lines from its offset up to the size it had, opened by name.
SyncRead ==
    /\ sync # Idle /\ sync.phase = "reading" /\ sync.names # {}
    /\ LET name   == First(sync.names)
           file   == sync.files[name]
           offset == Offset(file.ino)
           chunk  == Segment(name, offset, file.size)
       IN IF file.size = offset
          THEN /\ sources' = SetSource(file.ino, offset)
               /\ sync' = [sync EXCEPT !.names = @ \ {name}]
               /\ UNCHANGED <<index, seen>>
          ELSE IF name \notin Listing
          THEN /\ sources' = SetSource(file.ino, offset)
               /\ sync' = Idle
               /\ seen' = [seen EXCEPT !.ok = FALSE]
               /\ UNCHANGED index
          ELSE /\ sources' = SetSource(file.ino, file.size - Unfinished(chunk))
               /\ index' = Plus(index, Once(Readable(chunk)))
               /\ sync' = [sync EXCEPT !.names = @ \ {name}]
               /\ UNCHANGED seen
    /\ UNCHANGED <<archives, live, ledger, cleanup, clock, counts, scan>>

SyncEnd ==
    /\ sync # Idle /\ sync.phase = "reading" /\ sync.names = {}
    /\ sync' = Idle
    /\ seen' = [seen EXCEPT !.ok = TRUE]
    /\ UNCHANGED <<archives, live, ledger, cleanup, clock, index, sources, counts, scan>>

-----------------------------------------------------------------------------

\* Mutant of Recorded: the counters are not emptied at midnight.
RecordedOnTop(c, rs) == [day |-> clock.day, rows |-> Plus(c.rows, Once(rs))]

\* record: a new day empties the counters first.
Recorded(c, rs) ==
    [day |-> clock.day, rows |-> Plus(IF c.day = clock.day THEN c.rows ELSE Nothing, Once(rs))]

\* appendUsage: the ledger and the dashboard get the row in one step.
Use ==
    /\ AppendRow
    /\ counts' = Recorded(counts, {NextRow})
    /\ seen' = [seen EXCEPT !.dayOf[NextRow] = clock.day,
                            !.midScan = IF scan = Idle THEN @ ELSE @ \cup {NextRow}]
    /\ UNCHANGED <<index, sources, sync, scan>>

\* After listen: list the files, then read them one by one to their end.
ScanList ==
    /\ scan # Idle /\ scan.phase = "start"
    /\ scan' = [phase |-> "reading", names |-> Listing, wanted |-> clock.day,
                moved |-> scan.moved]
    /\ UNCHANGED <<archives, live, ledger, cleanup, clock, index, sources, sync, counts, seen>>

\* scanTodayFromLog: the rows of the day the scan began on are recorded.
ScanRead ==
    /\ scan # Idle /\ scan.phase = "reading" /\ scan.names # {}
    /\ LET name   == First(scan.names)
           all    == IF name \in Listing THEN Readable(FileAt(name).bytes) ELSE {}
           wanted == {r \in all : seen.dayOf[r] = scan.wanted}
       IN /\ counts' = IF wanted = {} THEN counts ELSE Recorded(counts, wanted)
          /\ scan' = [scan EXCEPT !.names = @ \ {name}]
    /\ UNCHANGED <<archives, live, ledger, cleanup, clock, index, sources, sync, seen>>

ScanEnd ==
    /\ scan # Idle /\ scan.phase = "reading" /\ scan.names = {}
    /\ scan' = Idle
    /\ seen' = [seen EXCEPT !.scanned = ~scan.moved]
    /\ UNCHANGED <<archives, live, ledger, cleanup, clock, index, sources, sync, counts>>

-----------------------------------------------------------------------------

\* A file moves or goes under a reader that has listed it, or midnight passes
\* during the scan: the readers meet another file, or another day, than they
\* have noted.  An inode that comes back is the same identity to the index.
Moved(file) ==
    /\ seen' = [seen EXCEPT !.disturbed = @ \/ (file /\ sync # Idle)]
    /\ scan' = IF scan = Idle THEN Idle ELSE [scan EXCEPT !.moved = TRUE]
    /\ UNCHANGED <<index, sources, sync, counts>>

LedgerWrites ==
    /\ \/ WriteByte \/ WriteFails \/ RotateFails \/ EndCleanup \/ Maintain \/ Close
    /\ UNCHANGED readers

FileOpens ==
    /\ OpenFile
    /\ seen' = [seen EXCEPT !.disturbed = @ \/ FreeInode \in DOMAIN sources]
    /\ UNCHANGED <<index, sources, sync, counts, scan>>

FileMoves == Rotate /\ Moved(TRUE)
FileGoes == RemoveArchive /\ Moved(FALSE)
DayPasses == Midnight /\ Moved(FALSE)

\* The process ends and starts again.  A kill loses what the stream holds.
Restart ==
    /\ \/ /\ ledger.closed /\ ledger.buffer = <<>>
          /\ UNCHANGED clock
       \/ /\ clock.faults < MaxFailures
          /\ clock' = [clock EXCEPT !.faults = @ + 1]
    /\ RestartLedger
    /\ index' = Nothing /\ sources' = <<>> /\ sync' = Idle
    /\ counts' = [day |-> clock.day, rows |-> Nothing]
    /\ scan' \in Scans
    /\ seen' = [seen EXCEPT !.ok = FALSE, !.disturbed = FALSE, !.midScan = {}, !.scanned = FALSE]

HistoryInit ==
    /\ InitLedger
    /\ index = Nothing /\ sources = <<>> /\ sync = Idle
    /\ counts = [day |-> 1, rows |-> Nothing]
    /\ scan \in Scans
    /\ seen \in [syncs : {0, MaxSyncs}, target : {{}}, ok : {FALSE}, disturbed : {FALSE},
                 midScan : {{}}, scanned : {FALSE}, dayOf : {Nothing}]

HistoryNext ==
    \/ Use \/ LedgerWrites \/ FileOpens \/ FileMoves \/ FileGoes \/ DayPasses \/ Restart
    \/ SyncList \/ SyncStat \/ SyncRead \/ SyncEnd
    \/ ScanList \/ ScanRead \/ ScanEnd

HistorySpec == HistoryInit /\ [][HistoryNext]_historyVars

-----------------------------------------------------------------------------

\* The ledger implements the log it promises: whatever rotation, clean-up,
\* timer, close and appends do to each other, the rows stay in order and single,
\* leave only from the front by expiry, and are lost only by a failed write or
\* rename, with healthy FALSE, or by a kill.
ImplementsLog == Log!Spec

\* A finished sync has counted exactly the whole lines the files held when it
\* looked at them, each once, half lines and expired archives included, unless
\* a rotation passed under a sync or a new file got the inode of a read one.
HistoryExact ==
    (sync = Idle /\ seen.ok /\ ~seen.disturbed) =>
        index = [r \in Rows |-> IF r \in seen.target THEN 1 ELSE 0]

\* Once the scan of the start has finished without a file moving under it, the
\* counters hold every row of the day that can be read, and none of another
\* day; twice only those appended while the scan ran.
DashboardCounts ==
    (scan = Idle /\ seen.scanned) =>
        /\ \A r \in LogRows :
               (seen.dayOf[r] = counts.day) => counts.rows[r] >= 1
        /\ \A r \in Rows :
               /\ counts.rows[r] >= 1 => seen.dayOf[r] = counts.day
               /\ counts.rows[r] >= 2 => r \in seen.midScan
===============================================================================
