----------------------------- MODULE MCBackground -----------------------------
(***************************************************************************)
(* Background, for TLC.  As its parts share no state, a behaviour moves    *)
(* one of them, the one that the variable part names.                      *)
(***************************************************************************)
EXTENDS Background

VARIABLE part

----------------------------------------------------------------------------
(* Schedules: one configuration, two requests, one run and one failure.    *)
(* Files: the first two map to one table; three states, a failing import.  *)
(* Index: two objects, texts and models, two reindexes, three changes.     *)

TableOf(f) == IF f = 3 THEN 2 ELSE 1

----------------------------------------------------------------------------

BackgroundInit ==
    /\ part \in {"schedules", "files", "index"}
    /\ Init /\ Files!Init
    /\ Index!Init /\ (part # "index" => \A o \in Object : catalog[o] # "no text")

ScheduleMoves == part = "schedules" /\ Next /\ UNCHANGED <<part, watching, indexing>>

FilesMove == part = "files" /\ Files!Next /\ UNCHANGED <<part, scheduling, indexing>>

IndexMoves == part = "index" /\ Index!Next /\ UNCHANGED <<part, scheduling, watching>>

BackgroundNext == ScheduleMoves \/ FilesMove \/ IndexMoves

background == <<part, scheduling, watching, indexing>>

Waits(r) == part = "schedules" /\ (ConfigLock(r) \/ ScheduleLock(r))

GoesOn(r) == part = "schedules" /\ RequestStep(r)

\* The fairness of MatchSchedule and of FileWatcher, each while its part moves.
BackgroundFairness ==
    /\ \A r \in Req : SF_scheduling(Waits(r)) /\ WF_scheduling(GoesOn(r))
    /\ WF_watching(part = "files" /\ Files!Watch)

BackgroundSpec == BackgroundInit /\ [][BackgroundNext]_background /\ BackgroundFairness
=============================================================================
