------------------------------- MODULE Services -------------------------------
(***************************************************************************)
(* The services behind the handlers, side by side: the records of a table  *)
(* with a row policy (which this module extends), the pipeline store, the  *)
(* BI objects, the settings, the snapshots and the login lockout.  They    *)
(* share no state; records and BI objects have the requests and the users  *)
(* of Records in common.                                                   *)
(***************************************************************************)
EXTENDS Records, Integers, Sequences

records == vars

----------------------------------------------------------------------------
(* Pipelines *)

CONSTANTS PipelineReq, Writers, PipelineName, Candidate, Bundle,
          MaxParallelism, MaxSteps, MaxVersions, MaxRuns, MaxDeletes

VARIABLES pipelineRows, runs, bundle, pipelineOp, deletes

Pipes == INSTANCE PipelineStore WITH
    Req <- PipelineReq, Name <- PipelineName, MaxRows <- MaxVersions,
    rows <- pipelineRows, op <- pipelineOp

pipelines == <<pipelineRows, runs, bundle, pipelineOp, deletes>>

\* What the handlers decode from a request body is a definition, or a bundle of them.
ASSUME PipelineAssumption ==
    /\ Candidate \subseteq Pipes!Definition
    /\ Bundle \subseteq Seq(Pipes!Definition)

----------------------------------------------------------------------------
(* BI objects *)

CONSTANT Id

VARIABLES table, biOp

Objects == INSTANCE BI WITH op <- biOp

objects == <<table, biOp>>

----------------------------------------------------------------------------
(* Settings *)

CONSTANTS Startup, Value, Inputs, Orders, MaxRequests, MaxCrashes

VARIABLES memory, stored, settingsOp, synced, lost, requests, crashes

Tuning == INSTANCE Settings WITH op <- settingsOp

settings == <<memory, stored, settingsOp, synced, lost, requests, crashes>>

\* The forms have the fields the handlers read; the texts of settings are not the text
\* of a setting that is missing; a save ranges over all settings; main is no request.
ASSUME SettingsAssumption ==
    /\ Inputs \subseteq [llm : Value \cup {Tuning!Unset}, embedding : Value \cup {Tuning!Unset},
                         index : {"flat", "hnsw", "odd"}, warm : BOOLEAN]
    /\ Tuning!Unset \notin Value
    /\ Orders \subseteq Seq(Tuning!Setting)
    /\ \A order \in Orders, k \in Tuning!Setting : \E i \in DOMAIN order : order[i] = k
    /\ Startup \notin Req

----------------------------------------------------------------------------
(* Snapshots *)

CONSTANTS SnapshotReq, Jobs, MaxWrites, MaxStops

VARIABLES data, file, backups, exported, readOnly, snapshotOp, up, opened, restored, writes, stops

Restores == INSTANCE Snapshot WITH Req <- SnapshotReq, memory <- data, op <- snapshotOp

snapshots == <<data, file, backups, exported, readOnly, snapshotOp, up, opened, restored, writes, stops>>

----------------------------------------------------------------------------
(* Logins *)

CONSTANTS LoginReq, LoginAccount, MaxFailures, LockTime, MaxTime

VARIABLES now, attempts, loginOp, wrong

Logins == INSTANCE LoginLockout WITH Req <- LoginReq, Account <- LoginAccount, op <- loginOp

logins == <<now, attempts, loginOp, wrong>>

----------------------------------------------------------------------------
(* The properties of the services, by their names; those of Records this   *)
(* module extends.                                                         *)

\* Until its pipeline is deleted, a run names the definition it ran (savePipeline).
RunTraceable == Pipes!RunTraceable

\* An import stores no definition again (readPipelineBundle).
ImportAddsNew == Pipes!ImportAddsNew

\* Who found an object with an owner removes no row of another one, unless somebody who
\* did not has stored one since (biOwnershipAllowed).
OwnersDecide == Objects!OwnersDecide

\* Changes of the settings that were saved by requests one at a time are stored as they are
\* in memory (saveRuntimeSettings).
SavedWhenAlone == Tuning!SavedWhenAlone

\* A restart brings back the settings that were stored (loadRuntimeSettings).
RestartKeeps == Tuning!RestartKeeps

\* No form wipes the administrator's password (adminSettingsHandler).
PasswordKept == Tuning!PasswordKept

\* What the last start loaded is in the file or in a backup, whatever was restored and
\* however the server stopped (apiSnapshotRestoreHandler).
OpenedKept == Restores!OpenedKept

\* The wrong passwords that are compared for a name as it is typed are bounded by the
\* limit and the logins that are under way at once (recordLoginFailure).
GuessesBounded == Logins!GuessesBounded
=============================================================================
