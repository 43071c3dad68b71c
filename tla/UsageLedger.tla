----------------------------- MODULE UsageLedger -----------------------------
(***************************************************************************)
(* usage-ledger.mjs: the append-only usage.log, its rotation into archives *)
(* and the clean-up of the archives.  A file is its inode, its bytes and   *)
(* the day of its last write; a row is two bytes long, so that a reader or *)
(* a kill can meet half a line.  The second half ends with the newline.    *)
(***************************************************************************)
EXTENDS Naturals, Sequences, FiniteSets, FiniteSetsExt

CONSTANTS MaxRows,       \* bound: rows appended in a behaviour
          MaxFileBytes,  \* TOMATO_TAP_USAGE_LOG_MAX_SIZE
          MaxArchive,    \* TOMATO_TAP_USAGE_ARCHIVE_MAX_SIZE
          Retention,     \* TOMATO_TAP_USAGE_RETENTION, in days
          LastDay,       \* bound: days that pass
          MaxFailures,   \* bound: failed writes and renames, and kills
          NoLog,         \* no usage.log at the moment
          NoCleanup      \* no clean-up is under way

Rows == 1 .. MaxRows
Bytes == Rows \X {1, 2}

\* What usage.log may be, and what an archive may be.
LiveFiles == [ino : Nat \ {0}, bytes : Seq(Bytes), day : Nat]
Archives == [ino : Nat \ {0}, bytes : Seq(Bytes), day : Nat, name : Nat \ {0}]

ASSUME LedgerAssumption ==
    /\ MaxRows \in Nat /\ MaxFileBytes \in Nat \ {0} /\ MaxArchive \in Nat
    /\ Retention \in Nat /\ LastDay \in Nat \ {0} /\ MaxFailures \in Nat
    /\ NoLog \notin LiveFiles

VARIABLES archives,      \* the rotated files, named in the order of their renames
          live,          \* usage.log, or NoLog
          ledger,        \* the memory of the ledger
          cleanup,       \* inodes a clean-up still has to remove, or NoCleanup
          clock          \* [day, rows, faults, renamed]: the host

Ends(byte) == byte[2] = 2

\* The two halves of each row, one after the other.
LinesOf(rs) == [i \in 1 .. 2 * Len(rs) |-> <<rs[(i + 1) \div 2], 2 - (i % 2)>>]

\* Byte i ends a line that parses: both halves of one row and nothing before them.
ParsesAt(bytes, i) ==
    /\ Ends(bytes[i])
    /\ i > 1
    /\ bytes[i - 1] = <<bytes[i][1], 1>>
    /\ i > 2 => Ends(bytes[i - 2])

\* The rows of the complete lines that parse.
Readable(bytes) == {bytes[i][1] : i \in {i \in DOMAIN bytes : ParsesAt(bytes, i)}}

\* Mutant of Unfinished: the offset is the end of the segment, half a line or not.
UnfinishedIgnored(bytes) == 0

\* The number of bytes after the last newline.
Unfinished(bytes) == Len(bytes) - Max({0} \cup {i \in DOMAIN bytes : Ends(bytes[i])})

\* The files there are: usage.log has no name among the archives.
Files == archives \cup (IF live = NoLog THEN {} ELSE {live})
Used == {f.ino : f \in Files}

\* The file system gives a new file the lowest free inode, used before or not.
FreeInode == CHOOSE i \in 1 .. Cardinality(Used) + 1 :
                i \notin Used /\ \A j \in 1 .. (i - 1) : j \in Used

LiveBytes == IF live = NoLog THEN <<>> ELSE live.bytes

FreshLedger(bytes) ==
    [open |-> TRUE, buffer |-> <<>>, pending |-> <<>>, bytes |-> bytes,
     rotation |-> "none", closed |-> FALSE, healthy |-> TRUE]

-----------------------------------------------------------------------------

\* openStream: the open of the stream creates a missing file.
Opened(file) == IF file = NoLog
                THEN [ino |-> FreeInode, bytes |-> <<>>, day |-> clock.day]
                ELSE file

OpenFile ==
    /\ ledger.open /\ live = NoLog
    /\ live' = Opened(live)
    /\ UNCHANGED <<archives, ledger, cleanup, clock>>

\* writeLine: the bytes count at once and reach the file later, or never when
\* the stream has been destroyed by an earlier error.
Written(l, rs) ==
    [l EXCEPT !.bytes = @ + 2 * Len(rs),
              !.buffer = IF l.open THEN @ \o LinesOf(rs) ELSE @,
              !.healthy = l.healthy /\ (l.open \/ rs = <<>>)]

\* rotateNow up to its first await.
Rotating(l) ==
    IF l.closed \/ l.rotation # "none" THEN l ELSE [l EXCEPT !.rotation = "ending"]

NextRow == clock.rows + 1

\* append.
AppendRow ==
    /\ clock.rows < MaxRows
    /\ ~ledger.closed
    /\ clock' = [clock EXCEPT !.rows = NextRow]
    /\ IF ledger.rotation = "ending"
       THEN ledger' = [ledger EXCEPT !.pending = Append(@, NextRow)]
       ELSE LET l == Written(ledger, <<NextRow>>)
            IN ledger' = IF l.bytes >= MaxFileBytes THEN Rotating(l) ELSE l
    /\ UNCHANGED <<archives, live, cleanup>>

\* The stream writes what it has been given, in order and in pieces.
WriteByte ==
    /\ ledger.open /\ ledger.buffer # <<>> /\ live # NoLog
    /\ live' = [live EXCEPT !.bytes = Append(@, Head(ledger.buffer)), !.day = clock.day]
    /\ ledger' = [ledger EXCEPT !.buffer = Tail(@)]
    /\ UNCHANGED <<archives, cleanup, clock>>

\* A write fails: the stream is destroyed with what it held.
WriteFails ==
    /\ clock.faults < MaxFailures
    /\ ledger.open /\ ledger.buffer # <<>> /\ live # NoLog
    /\ clock' = [clock EXCEPT !.faults = @ + 1]
    /\ ledger' = [ledger EXCEPT !.open = FALSE, !.buffer = <<>>, !.healthy = FALSE]
    /\ UNCHANGED <<archives, live, cleanup>>

Cutoff == IF clock.day > Retention THEN clock.day - Retention ELSE 0
SizeOf(files) == MapThenSumSet(LAMBDA f : Len(f.bytes), files)

\* The oldest of the archives is the one that was renamed first.
Oldest(files) == CHOOSE f \in files : \A g \in files : f.name <= g.name

\* Mutant of Doomed: the newest of the others go first.
DoomedNewest(files) ==
    LET Fits(n) == SizeOf({f \in files : f.name <= n}) <= MaxArchive
        cut == CHOOSE n \in 0 .. clock.renamed + 1 :
                    Fits(n) /\ \A m \in (n + 1) .. clock.renamed + 1 : ~Fits(m)
    IN {f.ino : f \in {f \in files : f.name > cut}}

\* cleanupUsageArchives: the expired files, then the oldest until the rest fits:
\* a file goes when no cut before it leaves few enough bytes.
Doomed(files) ==
    LET Later(n) == {f \in files : f.day >= Cutoff /\ f.name > n}
        Goes(f) == \A n \in 0 .. (f.name - 1) : SizeOf(Later(n)) > MaxArchive
    IN {f.ino : f \in {f \in files : f.day < Cutoff \/ Goes(f)}}

\* cleanupNow: one at a time; a second caller waits for the first one's result.
Cleaning(files) == IF cleanup = NoCleanup THEN Doomed(files) ELSE cleanup

\* The stream has ended: rename, open a new file, write what had to wait, clean up.
Ended == ledger.rotation = "ending" /\ live # NoLog /\ (~ledger.open \/ ledger.buffer = <<>>)

Rotate ==
    /\ Ended
    /\ IF live.bytes = <<>>
       THEN /\ UNCHANGED <<archives, live, clock>>
            /\ cleanup' = Cleaning(archives)
       ELSE LET name    == clock.renamed + 1
                renamed == archives \cup {[ino |-> live.ino, bytes |-> live.bytes,
                                           day |-> live.day, name |-> name]}
            IN /\ archives' = renamed
               /\ cleanup' = Cleaning(renamed)
               /\ live' = NoLog
               /\ clock' = [clock EXCEPT !.renamed = name]
    /\ ledger' = [Written([ledger EXCEPT !.open = TRUE, !.bytes = 0], ledger.pending)
                     EXCEPT !.pending = <<>>, !.rotation = "cleaning"]

\* The rename fails: go on with the file there is.
RotateFails ==
    /\ clock.faults < MaxFailures
    /\ Ended /\ live.bytes # <<>>
    /\ clock' = [clock EXCEPT !.faults = @ + 1]
    /\ ledger' = [Written([ledger EXCEPT !.open = TRUE, !.bytes = Len(LiveBytes),
                                         !.healthy = FALSE], ledger.pending)
                     EXCEPT !.pending = <<>>, !.rotation = "none"]
    /\ UNCHANGED <<archives, live, cleanup>>

\* unlink of one archive, in the order of cleanupUsageArchives.
RemoveArchive ==
    /\ cleanup \notin {NoCleanup, {}}
    /\ LET first == Oldest({f \in archives : f.ino \in cleanup})
       IN /\ archives' = archives \ {first}
          /\ cleanup' = cleanup \ {first.ino}
    /\ UNCHANGED <<live, ledger, clock>>

\* The clean-up ends, and with it a rotation that waits for it.  The rotation
\* its last line queues finds rotationPromise still set and does nothing.
EndCleanup ==
    /\ cleanup = {}
    /\ cleanup' = NoCleanup
    /\ ledger' = [ledger EXCEPT !.rotation = IF @ = "cleaning" THEN "none" ELSE @]
    /\ UNCHANGED <<archives, live, clock>>

\* The maintenance timer, which also runs once at the start.
Maintain ==
    /\ ~ledger.closed
    /\ IF ledger.bytes >= MaxFileBytes
       THEN ledger' = Rotating(ledger) /\ UNCHANGED cleanup
       ELSE cleanup' = Cleaning(archives) /\ UNCHANGED ledger
    /\ UNCHANGED <<archives, live, clock>>

\* close: waits for a rotation; the stream then ends by itself.
Close ==
    /\ ~ledger.closed
    /\ ledger.rotation = "none"
    /\ ledger' = [ledger EXCEPT !.closed = TRUE]
    /\ UNCHANGED <<archives, live, cleanup, clock>>

\* The process ends, by a kill or after close, and starts again.
RestartLedger ==
    /\ ledger' = FreshLedger(Len(LiveBytes))
    /\ live' = Opened(live)
    /\ cleanup' = NoCleanup
    /\ UNCHANGED archives

Midnight ==
    /\ clock.day < LastDay
    /\ clock' = [clock EXCEPT !.day = @ + 1]
    /\ UNCHANGED <<archives, live, ledger, cleanup>>

InitLedger ==
    /\ archives = {}
    /\ live = [ino |-> 1, bytes |-> <<>>, day |-> 1]
    /\ ledger = FreshLedger(0)
    /\ cleanup = NoCleanup
    /\ clock = [day |-> 1, rows |-> 0, faults |-> 0, renamed |-> 0]

-----------------------------------------------------------------------------

\* What has been written or will be, if nothing fails.
Stream == LiveBytes \o ledger.buffer

Queued == {ledger.pending[i] : i \in DOMAIN ledger.pending}

\* What the ledger stands for: the rows in its files, its stream and its queue.
ArchiveRows == UNION {Readable(f.bytes) : f \in archives}
LogRows == ArchiveRows \cup Readable(Stream) \cup Queued

Precede(olds, news) == \A q \in olds, r \in news : q < r

\* The rows of a file are in the order of their appends.
Sorted(bytes) == \A i, j \in DOMAIN bytes :
    (ParsesAt(bytes, i) /\ ParsesAt(bytes, j) /\ i < j) => bytes[i][1] < bytes[j][1]

\* So are those of all files, read in the order of their names, usage.log last.
InOrder ==
    /\ \A f \in archives :
          /\ Sorted(f.bytes)
          /\ Precede(Readable(f.bytes), Readable(Stream) \cup Queued)
          /\ \A g \in archives : f.name < g.name => Precede(Readable(f.bytes), Readable(g.bytes))
    /\ Sorted(Stream)
    /\ Precede(Readable(Stream), Queued)
    /\ \A i, j \in DOMAIN ledger.pending : i < j => ledger.pending[i] < ledger.pending[j]

Log == INSTANCE UsageLog
       WITH Rows <- Rows, rows <- LogRows, ordered <- InOrder,
            healthy <- ledger.healthy, faults <- clock.faults
===============================================================================
