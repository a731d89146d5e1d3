------------------------------ MODULE Background ------------------------------
(***************************************************************************)
(* What goes on behind the requests, side by side: scheduled matches       *)
(* (which this module extends), the watched directory and the search       *)
(* index.  They share no state.                                            *)
(***************************************************************************)
EXTENDS MatchSchedule

scheduling == vars

----------------------------------------------------------------------------
(* Files *)

CONSTANTS File, Table(_), MaxStamp, MaxImportFails

VARIABLES files, last, fileTables, seen, scan, importFails, blurred

Files == INSTANCE FileWatcher WITH
    MaxFails <- MaxImportFails, tables <- fileTables, fails <- importFails

watching == <<files, last, fileTables, seen, scan, importFails, blurred>>

----------------------------------------------------------------------------
(* The search index *)

CONSTANTS Task, Object, Text, Model, MaxChanges

VARIABLES catalog, model, registered, running, indexRows, indexOp, exact, changes

Index == INSTANCE LogicIndex WITH rows <- indexRows, op <- indexOp

indexing == <<catalog, model, registered, running, indexRows, indexOp, exact, changes>>

\* There is a definition to embed, and a model to embed it with.
ASSUME IndexAssumption == Text # {} /\ Model # {}

----------------------------------------------------------------------------
(* The properties of FileWatcher and LogicIndex, by their names; those of  *)
(* MatchSchedule this module extends.                                      *)

\* Once the files are left alone, the rows of each table are of one of its files as it is,
\* if the watcher can see that it changed (startAutoImportWatcher).
CatchesUp == Files!CatchesUp

\* What the README says of it (README.md 277): a file that changed is imported, whole.
ComesToHold == Files!ComesToHold

\* After a reindex in which nothing failed or changed the index is what the catalog holds
\* (applyLogicIndex).
IndexExact == Index!IndexExact
=============================================================================
