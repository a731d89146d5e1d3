---------------------------- MODULE MatchSchedule ----------------------------
(***************************************************************************)
(* Saved match configurations, their schedules and the cron entries made   *)
(* of them.  Saving takes namedConfigMu; deleting takes no lock, and goes  *)
(* on from the configuration to the cron entry to the schedule's row.  A   *)
(* run reads the mode, then the configuration, matches for minutes, looks  *)
(* the save connection up, writes and records the outcome.                 *)
(*                                                                         *)
(* Definitions whose name says what they leave out are mutations of the    *)
(* definition that follows them; the model does not use them.              *)
(***************************************************************************)
EXTENDS Naturals, Sequences

CONSTANTS
    Req,       \* requests
    Run,       \* scheduled runs under way at once
    Config,    \* configuration names
    MaxFails   \* bound: failing statements

None == "none"

VARIABLES
    configs,   \* configs[c]: rows of configuration c, each the version it holds
    schedules, \* schedules[c]: rows of its schedule, [enabled, last]
    entries,   \* the configurations with a cron entry (matchCronEntries)
    holder,    \* who holds namedConfigMu
    readOnly,  \* maintenance mode
    shared,    \* the save connection is there and shared
    results,   \* results[c]: the result table was written at least once
    op,        \* op[r]: what request or run r is doing
    fails      \* failed statements so far

vars == <<configs, schedules, entries, holder, readOnly, shared, results, op, fails>>

tables == <<configs, schedules, entries, results>>

Actor == Req \cup Run

Idle == [at |-> "idle"]

At(r, step) == op[r].at = step

Goes(r, o) == op' = [op EXCEPT ![r] = o]

GoesTo(r, step) == Goes(r, [op[r] EXCEPT !.at = step])

----------------------------------------------------------------------------
(* Saving *)

LockNothing(r, step) ==
    /\ GoesTo(r, step) /\ UNCHANGED holder

Lock(r, step) ==
    /\ holder = None /\ holder' = r
    /\ GoesTo(r, step)

Unlock(r) ==
    /\ holder' = IF holder = r THEN None ELSE holder
    /\ Goes(r, Idle)

\* saveMatchConfig: rows of the name are deleted and the new one inserted.
SaveConfig(r, c) ==
    /\ At(r, "idle")
    /\ Goes(r, [at |-> "config lock", c |-> c])
    /\ UNCHANGED <<tables, holder, readOnly, shared, fails>>

ConfigLock(r) ==
    /\ At(r, "config lock") /\ Lock(r, "config delete")
    /\ UNCHANGED <<tables, readOnly, shared, fails>>

ConfigDelete(r) ==
    /\ At(r, "config delete")
    /\ configs' = [configs EXCEPT ![op[r].c] = 0]
    /\ GoesTo(r, "config insert")
    /\ UNCHANGED <<schedules, entries, results, holder, readOnly, shared, fails>>

ConfigInsert(r) ==
    /\ At(r, "config insert")
    /\ configs' = [configs EXCEPT ![op[r].c] = @ + 1]
    /\ Unlock(r)
    /\ UNCHANGED <<schedules, entries, results, readOnly, shared, fails>>

\* saveMatchSchedule: what its row says of the last run is kept.
SaveSchedule(r, c, enabled) ==
    /\ At(r, "idle")
    /\ Goes(r, [at |-> "schedule lock", c |-> c, enabled |-> enabled])
    /\ UNCHANGED <<tables, holder, readOnly, shared, fails>>

ScheduleLock(r) ==
    /\ At(r, "schedule lock") /\ Lock(r, "schedule load")
    /\ UNCHANGED <<tables, readOnly, shared, fails>>

ScheduleLoad(r) ==
    /\ At(r, "schedule load")
    /\ LET rows == schedules[op[r].c]
       IN  Goes(r, [at |-> "schedule delete", c |-> op[r].c,
                    row |-> [enabled |-> op[r].enabled,
                             last |-> IF rows = <<>> THEN "never" ELSE Head(rows).last]])
    /\ UNCHANGED <<tables, holder, readOnly, shared, fails>>

ScheduleDelete(r) ==
    /\ At(r, "schedule delete")
    /\ schedules' = [schedules EXCEPT ![op[r].c] = <<>>]
    /\ GoesTo(r, "schedule insert")
    /\ UNCHANGED <<configs, entries, results, holder, readOnly, shared, fails>>

ScheduleInsert(r) ==
    /\ At(r, "schedule insert")
    /\ schedules' = [schedules EXCEPT ![op[r].c] = Append(@, op[r].row)]
    /\ GoesTo(r, "register")
    /\ UNCHANGED <<configs, entries, results, holder, readOnly, shared, fails>>

\* registerMatchScheduleEntry: the old entry goes, an enabled schedule gets a new one.
Register(r) ==
    /\ At(r, "register")
    /\ entries' = IF op[r].row.enabled THEN entries \cup {op[r].c} ELSE entries \ {op[r].c}
    /\ Unlock(r)
    /\ UNCHANGED <<configs, schedules, results, readOnly, shared, fails>>

----------------------------------------------------------------------------
(* Deleting *)

\* deleteMatchConfigHandler: the configuration, then its cron entry, then the row of
\* its schedule.
DeleteConfig(r, c) ==
    /\ At(r, "idle")
    /\ configs' = [configs EXCEPT ![c] = 0]
    /\ Goes(r, [at |-> "unregister", c |-> c])
    /\ UNCHANGED <<schedules, entries, results, holder, readOnly, shared, fails>>

DeleteRowFirst(r) ==
    /\ At(r, "unregister")
    /\ schedules' = [schedules EXCEPT ![op[r].c] = <<>>]
    /\ GoesTo(r, "then unregister")
    /\ UNCHANGED <<configs, entries, results, holder, readOnly, shared, fails>>

UnregisterLast(r) ==
    /\ At(r, "then unregister")
    /\ entries' = entries \ {op[r].c}
    /\ Goes(r, Idle)
    /\ UNCHANGED <<configs, schedules, results, holder, readOnly, shared, fails>>

DeleteInOtherOrder(r) == DeleteRowFirst(r) \/ UnregisterLast(r)

\* deleteMatchSchedule, without namedConfigMu.
Unregister(r) ==
    /\ At(r, "unregister")
    /\ entries' = entries \ {op[r].c}
    /\ GoesTo(r, "drop")
    /\ UNCHANGED <<configs, schedules, results, holder, readOnly, shared, fails>>

Drop(r) ==
    /\ At(r, "drop")
    /\ schedules' = [schedules EXCEPT ![op[r].c] = <<>>]
    /\ Goes(r, Idle)
    /\ UNCHANGED <<configs, entries, results, holder, readOnly, shared, fails>>

DeleteSchedule(r) == Unregister(r) \/ Drop(r)

FailKeepingLock(r) ==
    /\ fails < MaxFails /\ fails' = fails + 1
    /\ op[r].at \in {"config delete", "config insert", "schedule load", "schedule delete",
                     "schedule insert", "drop"}
    /\ Goes(r, Idle)
    /\ UNCHANGED <<tables, holder, readOnly, shared>>

\* A statement fails: the request ends there, and releases the lock.
Fail(r) ==
    /\ fails < MaxFails /\ fails' = fails + 1
    /\ op[r].at \in {"config delete", "config insert", "schedule load", "schedule delete",
                     "schedule insert", "drop"}
    /\ Unlock(r)
    /\ UNCHANGED <<tables, readOnly, shared>>

----------------------------------------------------------------------------
(* Runs *)

\* The cron entry of c fires: runScheduledMatch asks for the mode first.
Fire(n, c) ==
    /\ At(n, "idle") /\ c \in entries
    /\ Goes(n, IF readOnly THEN [at |-> "record", c |-> c, outcome |-> "skipped"]
                           ELSE [at |-> "load", c |-> c])
    /\ UNCHANGED <<tables, holder, readOnly, shared, fails>>

\* loadMatchConfig, runMatch as a session without an ID, and GetFor("").
Match(n) ==
    /\ At(n, "load")
    /\ \/ /\ configs[op[n].c] > 0
          /\ Goes(n, [at |-> "resolve", c |-> op[n].c])
       \/ Goes(n, [at |-> "record", c |-> op[n].c, outcome |-> "error"])
    /\ UNCHANGED <<tables, holder, readOnly, shared, fails>>

WriteResults(n) ==
    /\ At(n, "resolve")
    /\ IF shared
       THEN /\ results' = results \cup {op[n].c}
            /\ Goes(n, [at |-> "record", c |-> op[n].c, outcome |-> "ok"])
       ELSE /\ Goes(n, [at |-> "record", c |-> op[n].c, outcome |-> "error"])
            /\ UNCHANGED results
    /\ UNCHANGED <<configs, schedules, entries, holder, readOnly, shared, fails>>

\* recordMatchScheduleRun: an UPDATE of the rows that are there.
Record(n) ==
    /\ At(n, "record")
    /\ schedules' = [schedules EXCEPT ![op[n].c] =
                        [i \in DOMAIN @ |-> [@[i] EXCEPT !.last = op[n].outcome]]]
    /\ Goes(n, Idle)
    /\ UNCHANGED <<configs, entries, results, holder, readOnly, shared, fails>>

----------------------------------------------------------------------------
(* The rest of the server *)

SetMaintenance == readOnly' = ~readOnly /\ UNCHANGED <<tables, holder, shared, op, fails>>

ShareConnection == shared' = ~shared /\ UNCHANGED <<tables, holder, readOnly, op, fails>>

\* startMatchScheduler after a stop or a crash: an entry for every enabled schedule.
Restart ==
    /\ entries' = {c \in Config : \E i \in DOMAIN schedules[c] : schedules[c][i].enabled}
    /\ op' = [r \in Actor |-> Idle] /\ holder' = None
    /\ UNCHANGED <<configs, schedules, results, readOnly, shared, fails>>

Init ==
    /\ configs = [c \in Config |-> 0] /\ schedules = [c \in Config |-> <<>>]
    /\ entries = {} /\ results = {} /\ holder = None
    /\ readOnly = FALSE /\ shared = TRUE
    /\ op = [r \in Actor |-> Idle] /\ fails = 0

RequestStep(r) ==
    \/ ConfigLock(r) \/ ConfigDelete(r) \/ ConfigInsert(r)
    \/ ScheduleLock(r) \/ ScheduleLoad(r) \/ ScheduleDelete(r) \/ ScheduleInsert(r)
    \/ Register(r) \/ DeleteSchedule(r)

Next ==
    \/ \E r \in Req :
        \/ \E c \in Config : \/ SaveConfig(r, c) \/ DeleteConfig(r, c)
                             \/ \E enabled \in BOOLEAN : SaveSchedule(r, c, enabled)
        \/ RequestStep(r) \/ Fail(r)
    \/ \E n \in Run : \/ \E c \in Config : Fire(n, c)
                      \/ Match(n) \/ WriteResults(n) \/ Record(n)
    \/ SetMaintenance \/ ShareConnection \/ Restart

Spec == Init /\ [][Next]_vars

\* Every goroutine goes on; nobody has to call, to fail or to stop.  A goroutine that
\* waits for the lock gets it if it is free again and again (sync.Mutex hands it to a
\* waiter that has waited for a millisecond).
Fairness == \A r \in Req : SF_vars(ConfigLock(r) \/ ScheduleLock(r)) /\ WF_vars(RequestStep(r))

FairSpec == Spec /\ Fairness

----------------------------------------------------------------------------
(* What makes it correct *)

\* No name ever has two rows, whatever saves overlap ("could interleave and leave
\* duplicate rows", match_schedule.go 214-217 and match_config.go 61-63).
OneRowPerName == \A c \in Config : configs[c] <= 1 /\ Len(schedules[c]) <= 1

\* When no request is going on and none has failed, an enabled schedule has its cron
\* entry: a delete that overlaps a save never leaves a schedule that looks enabled and
\* does not run (deleteMatchSchedule unregisters before it deletes).
EnabledIsRegistered ==
    (\A r \in Req : At(r, "idle")) /\ fails = 0
    => \A c \in Config : \A i \in DOMAIN schedules[c] : schedules[c][i].enabled => c \in entries

\* Every request ends, whoever holds the lock and whatever fails.
RequestsEnd == \A r \in Req : []<>At(r, "idle")
=============================================================================
