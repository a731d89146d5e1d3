------------------------------ MODULE Snapshot ------------------------------
(***************************************************************************)
(* The database of a server in the memory storage mode, its file, and the  *)
(* export and restore of snapshots.                                        *)
(*                                                                         *)
(* The file is written at a clean stop only; a restore replaces it under   *)
(* the running server.  The gate of the write routes is read when a        *)
(* request comes in, and scheduled jobs do not read it at all.             *)
(*                                                                         *)
(* Definitions whose name says what they leave out are mutations of the    *)
(* definition that follows them; the model does not use them.              *)
(***************************************************************************)
EXTENDS Naturals

CONSTANTS
    Req,        \* requests
    Jobs,       \* the requests that are scheduled jobs
    MaxWrites,  \* bound: writes
    MaxStops    \* bound: stops, clean or not

\* A database is the set of writes it holds.  One that was exported from another server
\* holds a write of its own, and a torn file is no database.
Elsewhere == {0}
Torn == {MaxWrites + 1}

VARIABLES
    memory,    \* the database of the process
    file,      \* what the snapshot file holds
    backups,   \* the .pre-restore files
    exported,  \* snapshots the operator has
    readOnly,  \* maintenance mode
    op,        \* op[r]: what request r is doing
    up,        \* the process runs
    opened,    \* the database that was loaded at the last start (history variable)
    restored,  \* the uploads of the successful restores since (history variable)
    writes,    \* writes and stops so far
    stops

vars == <<memory, file, backups, exported, readOnly, op, up, opened, restored, writes, stops>>

Idle == [at |-> "idle"]

At(r, step) == up /\ op[r].at = step

Goes(r, o) == op' = [op EXCEPT ![r] = o]

----------------------------------------------------------------------------
(* Writing *)

\* requireWritable lets a write in; a job asks nobody.
Admit(r) ==
    /\ At(r, "idle")
    /\ r \notin Jobs => ~readOnly
    /\ writes < MaxWrites /\ writes' = writes + 1
    /\ Goes(r, [at |-> "write", w |-> writes'])
    /\ UNCHANGED <<memory, file, backups, exported, readOnly, up, opened, restored, stops>>

Write(r) ==
    /\ At(r, "write")
    /\ memory' = memory \cup {op[r].w}
    /\ Goes(r, Idle)
    /\ UNCHANGED <<file, backups, exported, readOnly, up, opened, restored, writes, stops>>

\* apiAdminMaintenanceHandler and adminToggleMaintenanceHandler (see Settings).
SetMaintenance(on) ==
    /\ up /\ readOnly' = on
    /\ UNCHANGED <<memory, file, backups, exported, op, up, opened, restored, writes, stops>>

----------------------------------------------------------------------------
(* Export and restore *)

\* apiSnapshotExportHandler; the mode does not matter.
Export ==
    /\ up /\ exported' = exported \cup {memory}
    /\ UNCHANGED <<memory, file, backups, readOnly, op, up, opened, restored, writes, stops>>

\* apiSnapshotRestoreHandler up to its validation: the mode is read once, the upload
\* staged in a file of its own and loaded as a trial.
Stage(r, upload) ==
    /\ At(r, "idle") /\ readOnly
    /\ upload \in exported \cup {Elsewhere, Torn}
    /\ upload # Torn
    /\ Goes(r, [at |-> "backup", upload |-> upload])
    /\ UNCHANGED <<memory, file, backups, exported, readOnly, up, opened, restored, writes, stops>>

BackupIgnoringErrors(r) ==
    /\ At(r, "backup")
    /\ backups' \in {backups, backups \cup {file}}
    /\ Goes(r, [op[r] EXCEPT !.at = "replace"])
    /\ UNCHANGED <<memory, file, exported, readOnly, up, opened, restored, writes, stops>>

\* The file is copied away; if that fails the restore is over.
Backup(r) ==
    /\ At(r, "backup")
    /\ \/ /\ backups' = backups \cup {file}
          /\ Goes(r, [op[r] EXCEPT !.at = "replace"])
       \/ /\ Goes(r, Idle) /\ UNCHANGED backups
    /\ UNCHANGED <<memory, file, exported, readOnly, up, opened, restored, writes, stops>>

\* The rename, which happens as a whole or fails.
Replace(r) ==
    /\ At(r, "replace")
    /\ \/ /\ file' = op[r].upload
          /\ restored' = restored \cup {file'}
       \/ UNCHANGED <<file, restored>>
    /\ Goes(r, Idle)
    /\ UNCHANGED <<memory, backups, exported, readOnly, up, opened, writes, stops>>

----------------------------------------------------------------------------
(* Stopping and starting *)

Down ==
    /\ up /\ stops < MaxStops /\ stops' = stops + 1
    /\ up' = FALSE
    /\ op' = [r \in Req |-> Idle]
    /\ UNCHANGED <<memory, backups, exported, readOnly, opened, restored, writes>>

\* A signal: requests are drained for a while, then Close writes the database back.
CleanStop == Down /\ file' = memory

Crash == Down /\ UNCHANGED file

\* openNativeDB loads the file.  Maintenance mode is a setting, stored in the database
\* with the others; here it comes back either way.
Start ==
    /\ ~up /\ up' = TRUE
    /\ memory' = file /\ opened' = file /\ restored' = {}
    /\ readOnly' \in BOOLEAN
    /\ UNCHANGED <<file, backups, exported, op, writes, stops>>

Init ==
    /\ memory = {} /\ file = {} /\ opened = {} /\ backups = {} /\ exported = {}
    /\ readOnly = FALSE /\ up = TRUE /\ restored = {}
    /\ op = [r \in Req |-> Idle]
    /\ writes = 0 /\ stops = 0

Next ==
    \/ \E r \in Req :
        \/ Admit(r) \/ Write(r)
        \/ \E upload \in exported \cup {Elsewhere, Torn} : Stage(r, upload)
        \/ Backup(r) \/ Replace(r)
    \/ \E on \in BOOLEAN : SetMaintenance(on)
    \/ Export \/ CleanStop \/ Crash \/ Start

Spec == Init /\ [][Next]_vars

----------------------------------------------------------------------------
(* What makes it correct *)

\* The database the server was started from is never lost to restores, however many
\* overlap or fail: it is in the file or in a backup as long as the process lives
\* (copyFile, snapshot_restore.go 146).
OpenedKept == up => opened \in backups \cup {file}

\* "Restart DataDock to load the restored data" (snapshot_restore.go 171): after
\* successful restores the next start loads one of them.
RestoredIsLoaded == [][~up /\ up' /\ restored # {} => memory' \in restored]_vars
=============================================================================
