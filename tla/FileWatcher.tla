----------------------------- MODULE FileWatcher -----------------------------
(***************************************************************************)
(* The directory that is watched for files to import.  One goroutine scans *)
(* it, sleeps and scans again; whoever writes the files knows nothing of   *)
(* it.  A file whose size or time differ from those seen when it was last  *)
(* imported replaces the contents of the table named after it.             *)
(*                                                                         *)
(* Definitions whose name says what they leave out are mutations of the    *)
(* definition that follows them; the model does not use them.              *)
(***************************************************************************)
EXTENDS Naturals

CONSTANTS
    File,       \* files an import is tried for, as numbers in the order of their names
    Table(_),   \* the table a file's name maps to
    MaxStamp,   \* bound: states of the files
    MaxFails    \* bound: imports that fail or lose rows, and restarts

Absent == 0

\* What a file holds that has no records to import.
Empty == 0

VARIABLES
    files,   \* files[f]: [stamp, data], its size and time and what it holds, or NoFile
    last,    \* the number of states there were
    tables,  \* tables[t]: the file and the data its rows are from, whole if no row is missing
    seen,    \* seen[f]: the stamp its last import is noted under
    scan,    \* what the watcher is doing
    fails,
    blurred  \* files changed without a new size or time (history variable)

vars == <<files, last, tables, seen, scan, fails, blurred>>

NoFile == [stamp |-> Absent, data |-> Empty]

Present(f) == files[f] # NoFile

Sleeping == [at |-> "sleep", left |-> {}]

At(step) == scan.at = step

\* The files a scan has left, and the next of them.
Next1(left) == CHOOSE f \in left : \A g \in left : f <= g

\* Skips the file at hand.
GoesOn == scan' = IF scan.left = {} THEN Sleeping ELSE [at |-> "stat", left |-> scan.left]

----------------------------------------------------------------------------
(* The directory *)

\* A file is created, appended to or overwritten.  It has a new size or time, or again
\* those of an earlier state: of the same size, within a tick of the file system's clock.
WriteFile(f) ==
    /\ last < MaxStamp /\ last' = last + 1
    /\ \E stamp \in 1..last', data \in {last', Empty} :
          /\ files' = [files EXCEPT ![f] = [stamp |-> stamp, data |-> data]]
          /\ blurred' = IF stamp = last' THEN blurred ELSE blurred \cup {f}
    /\ UNCHANGED <<tables, seen, scan, fails>>

RemoveFile(f) ==
    /\ Present(f)
    /\ files' = [files EXCEPT ![f] = NoFile]
    /\ UNCHANGED <<last, tables, seen, scan, fails, blurred>>

----------------------------------------------------------------------------
(* The watcher *)

\* startAutoImportWatcher: the first scan, and one every tick; scanAutoImportDir reads
\* the directory.
Scan ==
    /\ At("sleep")
    /\ \E f \in File : Present(f)
    /\ scan' = [at |-> "stat", left |-> {f \in File : Present(f)}]
    /\ UNCHANGED <<files, last, tables, seen, fails, blurred>>

\* One entry: it may be gone by now, or be as it was when it was imported.
Stat ==
    /\ At("stat")
    /\ LET f == Next1(scan.left)
           left == scan.left \ {f}
       IN  scan' = IF Present(f) /\ files[f].stamp # seen[f]
                   THEN [at |-> "read", left |-> left, f |-> f, stamp |-> files[f].stamp]
                   ELSE IF left = {} THEN Sleeping ELSE [at |-> "stat", left |-> left]
    /\ UNCHANGED <<files, last, tables, seen, fails, blurred>>

\* readAutoImportContent: what the file holds now.
Read ==
    /\ At("read")
    /\ IF ~Present(scan.f) THEN GoesOn
       ELSE scan' = [at |-> "import", left |-> scan.left, f |-> scan.f,
                     stamp |-> scan.stamp, data |-> files[scan.f].data]
    /\ UNCHANGED <<files, last, tables, seen, fails, blurred>>

NotedAsRead == files[scan.f].stamp

\* The stamp an import is noted under: the one the file had before it was read.
Noted == scan.stamp

\* importRecords with Truncate: the table is what was read or, if INSERTs were refused,
\* a part of it; without a record to import, it is left as it is.
Fills(whole) ==
    /\ tables' = IF scan.data = Empty THEN tables
                 ELSE [tables EXCEPT ![Table(scan.f)] =
                         [f |-> scan.f, data |-> scan.data, whole |-> whole]]
    /\ seen' = [seen EXCEPT ![scan.f] = Noted]
    /\ GoesOn

\* autoImportFile
Import ==
    /\ At("import")
    /\ Fills(TRUE)
    /\ UNCHANGED <<files, last, fails, blurred>>

\* INSERTs are refused, or the query timeout passes: these rows are skipped and counted,
\* which is no error.
ImportSkips ==
    /\ At("import") /\ scan.data # Empty
    /\ fails < MaxFails /\ fails' = fails + 1
    /\ Fills(FALSE)
    /\ UNCHANGED <<files, last, blurred>>

\* The file is too large or not of its format, or the statement fails that creates or
\* truncates the table: the file stays unseen.
ImportFails ==
    /\ At("import")
    /\ fails < MaxFails /\ fails' = fails + 1
    /\ GoesOn
    /\ UNCHANGED <<files, last, tables, seen, blurred>>

Watch == Scan \/ Stat \/ Read \/ Import

\* The server stops and starts again: what was seen is forgotten, the tables are kept.
Restart ==
    /\ scan' = Sleeping /\ seen' = [f \in File |-> Absent]
    /\ ~(\A f \in File : seen[f] = Absent)
    /\ fails < MaxFails /\ fails' = fails + 1
    /\ UNCHANGED <<files, last, tables, blurred>>

Init ==
    /\ files = [f \in File |-> NoFile] /\ seen = [f \in File |-> Absent] /\ last = 0
    /\ tables = [t \in {Table(f) : f \in File} |-> [f |-> 0, data |-> Empty, whole |-> TRUE]]
    /\ scan = Sleeping /\ fails = 0 /\ blurred = {}

Next ==
    \/ \E f \in File : WriteFile(f) \/ RemoveFile(f)
    \/ Watch \/ ImportSkips \/ ImportFails \/ Restart

Spec == Init /\ [][Next]_vars

\* The watcher is a loop of its own with a ticker, and an import is bounded by the query
\* timeout.
Fairness == WF_vars(Watch)

FairSpec == Spec /\ Fairness

----------------------------------------------------------------------------
(* What makes it correct *)

\* A file that has records, none of whose changes the watcher could miss.
Watchable(f) == Present(f) /\ files[f].data # Empty /\ f \notin blurred

\* The rows of the table are from one of its files as it is, unless that is gone, or not
\* one that can be watched.
UpToDate(t) ==
    tables[t].f # 0 /\ (Watchable(tables[t].f) => tables[t].data = files[tables[t].f].data)

\* Once the files are left alone, the rows of every table are of one of the files that map
\* to it as it is, and of no earlier state of one, though it may have changed while it was
\* read: unless it was emptied, or changed within its size and time
\* (startAutoImportWatcher).
CatchesUp ==
    \A t \in {Table(f) : f \in File} :
        <>[](UpToDate(t) \/ \A f \in File : Table(f) = t => ~Watchable(f))

\* "-watch-dir imports supported ... files ... whenever their size or modification time
\* changes; the table ... refreshed on update" (README.md 277): it comes to hold the file.
ComesToHold ==
    \A f \in File :
        <>[](Watchable(f) => tables[Table(f)].data = files[f].data /\ tables[Table(f)].whole)
=============================================================================
