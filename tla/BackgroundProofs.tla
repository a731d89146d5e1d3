---------------------------- MODULE BackgroundProofs ----------------------------
(***************************************************************************)
(* Proofs about what goes on behind the requests, for any number of        *)
(* requests, runs, configurations, reindexes and objects: that the lock    *)
(* keeps names unique, that no overlap of saves and deletes leaves an      *)
(* enabled schedule without its cron entry, and that an undisturbed        *)
(* reindex leaves an exact index.                                          *)
(***************************************************************************)
EXTENDS Background, TLAPS

----------------------------------------------------------------------------
(* Schedules *)

Outcome == {"skipped", "error", "ok"}

Row == [enabled : BOOLEAN, last : {"never"} \cup Outcome]

ConfigSteps == {"config lock", "config delete", "config insert", "unregister", "drop",
                "load", "resolve"}

WaitSteps == {"schedule lock", "schedule load"}

SaveSteps == {"schedule delete", "schedule insert", "register"}

ConfigPlace == [at : ConfigSteps, c : Config]

WaitPlace == [at : WaitSteps, c : Config, enabled : BOOLEAN]

SavePlace == [at : SaveSteps, c : Config, row : Row]

RecordPlace == [at : {"record"}, c : Config, outcome : Outcome]

Doing == {Idle} \cup ConfigPlace \cup WaitPlace \cup SavePlace \cup RecordPlace

\* The steps between Lock and Unlock.
Locked == {"config delete", "config insert", "schedule load", "schedule delete",
           "schedule insert", "register"}

TypeInv ==
    /\ configs \in [Config -> Nat]
    /\ schedules \in [Config -> Seq(Row)]
    /\ op \in [Actor -> Doing]
    /\ fails \in Nat

\* Who is between Lock and Unlock holds the lock.
LockHeld == \A a \in Actor : op[a].at \in Locked => holder = a

\* What is about to be inserted is not there: only the holder inserts.
RoomToInsert ==
    \A a \in Actor :
        /\ op[a].at = "config insert" => configs[op[a].c] = 0
        /\ op[a].at = "schedule insert" => schedules[op[a].c] = <<>>

HasEnabled(c) == \E i \in DOMAIN schedules[c] : schedules[c][i].enabled

\* Between a schedule's row and its cron entry, an enabled row is the one that was saved.
RowSaved ==
    \A a \in Actor : op[a].at = "register" => (HasEnabled(op[a].c) => op[a].row.enabled)

\* An enabled schedule has its entry, or somebody is about to register it or to delete
\* its row.
Accounted(c) ==
    \/ c \in entries
    \/ \E r \in Req : op[r].at \in {"register", "drop"} /\ op[r].c = c

EnabledAccounted ==
    fails = 0 => \A c \in Config : HasEnabled(c) => Accounted(c)

ScheduleInv ==
    TypeInv /\ OneRowPerName /\ LockHeld /\ RoomToInsert /\ RowSaved /\ EnabledAccounted

----------------------------------------------------------------------------
(* Tables *)

\* A change of one name's rows leaves those of the others.
LEMMA ExceptFacts ==
    ASSUME NEW S, NEW T, NEW f \in [S -> T], NEW c \in S, NEW v \in T
    PROVE  /\ [f EXCEPT ![c] = v] \in [S -> T]
           /\ \A d \in S : [f EXCEPT ![c] = v][d] = IF d = c THEN v ELSE f[d]
OBVIOUS

\* The rows of a schedule become none or one.
LEMMA ScheduleFacts ==
    ASSUME TypeInv, OneRowPerName, NEW c \in Config, NEW s \in Seq(Row), Len(s) <= 1,
           schedules' = [schedules EXCEPT ![c] = s]
    PROVE  /\ schedules' \in [Config -> Seq(Row)]
           /\ \A d \in Config : Len(schedules'[d]) <= 1
           /\ \A d \in Config : schedules'[d] = IF d = c THEN s ELSE schedules[d]
           /\ \A d \in Config : d # c => (HasEnabled(d)' <=> HasEnabled(d))
<1>1. /\ schedules' \in [Config -> Seq(Row)]
      /\ \A d \in Config : schedules'[d] = IF d = c THEN s ELSE schedules[d]
  BY ExceptFacts DEF TypeInv
<1>2. \A d \in Config : Len(schedules'[d]) <= 1
  BY <1>1 DEF OneRowPerName
<1>3. \A d \in Config : d # c => (HasEnabled(d)' <=> HasEnabled(d))
  BY <1>1 DEF HasEnabled
<1> QED BY <1>1, <1>2, <1>3

\* No rows: none is enabled.
LEMMA NoRow ==
    /\ <<>> \in Seq(Row) /\ Len(<<>>) = 0
    /\ \A c \in Config : schedules[c] = <<>> => ~HasEnabled(c)
BY DEF HasEnabled

\* One row.
LEMMA OneRow ==
    ASSUME NEW row \in Row
    PROVE  Append(<<>>, row) \in Seq(Row) /\ Len(Append(<<>>, row)) = 1
           /\ \A i \in DOMAIN Append(<<>>, row) : Append(<<>>, row)[i] = row
OBVIOUS

----------------------------------------------------------------------------
(* Places and steps *)

\* Requests are actors.
LEMMA ReqFacts == \A r \in Req : r \in Actor
BY DEF Actor

\* Who goes on leaves the others where they are.
LEMMA GoesFacts ==
    ASSUME op \in [Actor -> Doing], NEW a \in Actor, NEW o \in Doing, Goes(a, o)
    PROVE  /\ op' \in [Actor -> Doing]
           /\ op'[a] = o
           /\ \A b \in Actor : b # a => op'[b] = op[b]
BY DEF Goes

\* Where somebody is tells what he carries.
LEMMA PlaceFacts ==
    ASSUME NEW o \in Doing
    PROVE  /\ o.at \in ConfigSteps => o \in ConfigPlace
           /\ o.at \in WaitSteps => o \in WaitPlace
           /\ o.at \in SaveSteps => o \in SavePlace
           /\ o.at = "record" => o \in RecordPlace
<1>1. Idle.at = "idle"
  BY DEF Idle
<1>2. o \in ConfigPlace => o.at \in ConfigSteps
  BY DEF ConfigPlace
<1>3. o \in WaitPlace => o.at \in WaitSteps
  BY DEF WaitPlace
<1>4. o \in SavePlace => o.at \in SaveSteps
  BY DEF SavePlace
<1>5. o \in RecordPlace => o.at = "record"
  BY DEF RecordPlace
<1>6. o = Idle \/ o \in ConfigPlace \/ o \in WaitPlace \/ o \in SavePlace \/ o \in RecordPlace
  BY DEF Doing
<1> QED BY <1>1, <1>2, <1>3, <1>4, <1>5, <1>6 DEF ConfigSteps, WaitSteps, SaveSteps

\* A request between two steps keeps what it carries.
LEMMA ConfigPlaces ==
    ASSUME NEW o \in Doing, o.at \in ConfigSteps, NEW step \in ConfigSteps
    PROVE  /\ o.c \in Config
           /\ [o EXCEPT !.at = step] \in Doing
           /\ [o EXCEPT !.at = step].at = step
           /\ [o EXCEPT !.at = step].c = o.c
<1>1. o \in ConfigPlace
  BY PlaceFacts
<1>2. /\ o.c \in Config
      /\ [o EXCEPT !.at = step] \in ConfigPlace
      /\ [o EXCEPT !.at = step].at = step
      /\ [o EXCEPT !.at = step].c = o.c
  BY <1>1 DEF ConfigPlace
<1> QED BY <1>2 DEF Doing

\* The same of a request that waits to save a schedule.
LEMMA WaitPlaces ==
    ASSUME NEW o \in Doing, o.at \in WaitSteps
    PROVE  /\ o.c \in Config /\ o.enabled \in BOOLEAN
           /\ [o EXCEPT !.at = "schedule load"] \in Doing
           /\ [o EXCEPT !.at = "schedule load"].at = "schedule load"
<1>1. o \in WaitPlace
  BY PlaceFacts
<1>2. /\ o.c \in Config /\ o.enabled \in BOOLEAN
      /\ [o EXCEPT !.at = "schedule load"] \in WaitPlace
      /\ [o EXCEPT !.at = "schedule load"].at = "schedule load"
  BY <1>1 DEF WaitPlace, WaitSteps
<1> QED BY <1>2 DEF Doing

\* The same of a request that saves one.
LEMMA SavePlaces ==
    ASSUME NEW o \in Doing, o.at \in SaveSteps, NEW step \in SaveSteps
    PROVE  /\ o.c \in Config /\ o.row \in Row
           /\ [o EXCEPT !.at = step] \in Doing
           /\ [o EXCEPT !.at = step].at = step
           /\ [o EXCEPT !.at = step].c = o.c
           /\ [o EXCEPT !.at = step].row = o.row
<1>1. o \in SavePlace
  BY PlaceFacts
<1>2. /\ o.c \in Config /\ o.row \in Row
      /\ [o EXCEPT !.at = step] \in SavePlace
      /\ [o EXCEPT !.at = step].at = step
      /\ [o EXCEPT !.at = step].c = o.c
      /\ [o EXCEPT !.at = step].row = o.row
  BY <1>1 DEF SavePlace
<1> QED BY <1>2 DEF Doing

\* And of a run.
LEMMA RunPlaces ==
    ASSUME NEW o \in Doing, o.at \in {"load", "resolve", "record"}
    PROVE  /\ o.c \in Config
           /\ o.at = "record" => o.outcome \in Outcome
<1>1. o \in ConfigPlace \/ o \in RecordPlace
  BY PlaceFacts DEF ConfigSteps
<1> QED BY <1>1 DEF ConfigPlace, RecordPlace, ConfigSteps

\* Where requests and runs start.
LEMMA FirstPlaces ==
    /\ Idle \in Doing /\ Idle.at = "idle"
    /\ \A c \in Config :
        /\ \A step \in {"config lock", "unregister", "load", "resolve"} :
              [at |-> step, c |-> c] \in Doing /\ [at |-> step, c |-> c].at = step
        /\ \A enabled \in BOOLEAN :
              /\ [at |-> "schedule lock", c |-> c, enabled |-> enabled] \in Doing
              /\ [at |-> "schedule lock", c |-> c, enabled |-> enabled].at = "schedule lock"
        /\ \A row \in Row :
              /\ [at |-> "schedule delete", c |-> c, row |-> row] \in Doing
              /\ [at |-> "schedule delete", c |-> c, row |-> row].at = "schedule delete"
        /\ \A outcome \in Outcome :
              /\ [at |-> "record", c |-> c, outcome |-> outcome] \in Doing
              /\ [at |-> "record", c |-> c, outcome |-> outcome].at = "record"
<1>1. Idle \in Doing /\ Idle.at = "idle"
  BY DEF Doing, Idle
<1>2. ASSUME NEW c \in Config, NEW step \in {"config lock", "unregister", "load", "resolve"}
      PROVE  [at |-> step, c |-> c] \in Doing /\ [at |-> step, c |-> c].at = step
  <2>1. [at |-> step, c |-> c] \in ConfigPlace
    BY DEF ConfigPlace, ConfigSteps
  <2> QED BY <2>1 DEF Doing
<1>3. ASSUME NEW c \in Config, NEW enabled \in BOOLEAN
      PROVE  /\ [at |-> "schedule lock", c |-> c, enabled |-> enabled] \in Doing
             /\ [at |-> "schedule lock", c |-> c, enabled |-> enabled].at = "schedule lock"
  <2>1. [at |-> "schedule lock", c |-> c, enabled |-> enabled] \in WaitPlace
    BY DEF WaitPlace, WaitSteps
  <2> QED BY <2>1 DEF Doing
<1>4. ASSUME NEW c \in Config, NEW row \in Row
      PROVE  /\ [at |-> "schedule delete", c |-> c, row |-> row] \in Doing
             /\ [at |-> "schedule delete", c |-> c, row |-> row].at = "schedule delete"
  <2>1. [at |-> "schedule delete", c |-> c, row |-> row] \in SavePlace
    BY DEF SavePlace, SaveSteps
  <2> QED BY <2>1 DEF Doing
<1>5. ASSUME NEW c \in Config, NEW outcome \in Outcome
      PROVE  /\ [at |-> "record", c |-> c, outcome |-> outcome] \in Doing
             /\ [at |-> "record", c |-> c, outcome |-> outcome].at = "record"
  <2>1. [at |-> "record", c |-> c, outcome |-> outcome] \in RecordPlace
    BY DEF RecordPlace
  <2> QED BY <2>1 DEF Doing
<1> QED BY <1>1, <1>2, <1>3, <1>4, <1>5

\* The lock is held by one at a time.
LEMMA Alone ==
    ASSUME LockHeld, NEW a \in Actor, NEW b \in Actor, op[a].at \in Locked, op[b].at \in Locked
    PROVE  a = b
BY DEF LockHeld

----------------------------------------------------------------------------
(* The steps *)

\* A step that touches no table and not the lock, and neither promises nor breaks a
\* promise.
LEMMA QuietStep ==
    ASSUME ScheduleInv, NEW a \in Actor, NEW o \in Doing, Goes(a, o),
           UNCHANGED <<configs, schedules, entries, holder, fails>>,
           o.at \in Locked => op[a].at \in Locked,
           o.at \notin {"config insert", "schedule insert", "register"},
           op[a].at \notin {"register", "drop"}
    PROVE  ScheduleInv'
<1>1. /\ op' \in [Actor -> Doing] /\ op'[a] = o
      /\ \A b \in Actor : b # a => op'[b] = op[b]
  BY GoesFacts DEF ScheduleInv, TypeInv
<1>2. TypeInv' /\ OneRowPerName'
  BY <1>1 DEF ScheduleInv, TypeInv, OneRowPerName
<1>3. LockHeld'
  BY <1>1 DEF ScheduleInv, LockHeld
<1>4. RoomToInsert' /\ RowSaved'
  BY <1>1 DEF ScheduleInv, RoomToInsert, RowSaved, HasEnabled
<1>5. EnabledAccounted'
  <2>1. \A d \in Config : Accounted(d) => Accounted(d)'
    BY <1>1, ReqFacts DEF Accounted
  <2> QED BY <2>1 DEF ScheduleInv, EnabledAccounted, HasEnabled
<1> QED BY <1>2, <1>3, <1>4, <1>5 DEF ScheduleInv

\* Taking the lock: nobody was between Lock and Unlock.
LEMMA LockStep ==
    ASSUME None \notin Actor, ScheduleInv, NEW r \in Req, ConfigLock(r) \/ ScheduleLock(r)
    PROVE  ScheduleInv'
<1>1. /\ r \in Actor /\ op \in [Actor -> Doing] /\ op[r] \in Doing
      /\ holder = None /\ holder' = r
      /\ UNCHANGED <<configs, schedules, entries, fails>>
      /\ op[r].at \in {"config lock", "schedule lock"}
  BY ReqFacts DEF ConfigLock, ScheduleLock, Lock, At, tables, ScheduleInv, TypeInv
<1>2. PICK o \in Doing : Goes(r, o) /\ o.at \in {"config delete", "schedule load"}
  <2>1. CASE ConfigLock(r)
    <3>1. op[r].at = "config lock" /\ Goes(r, [op[r] EXCEPT !.at = "config delete"])
      BY <2>1 DEF ConfigLock, Lock, GoesTo, At
    <3>2. /\ [op[r] EXCEPT !.at = "config delete"] \in Doing
          /\ [op[r] EXCEPT !.at = "config delete"].at = "config delete"
      BY <1>1, <3>1, ConfigPlaces DEF ConfigSteps
    <3> QED BY <3>1, <3>2
  <2>2. CASE ScheduleLock(r)
    <3>1. op[r].at = "schedule lock" /\ Goes(r, [op[r] EXCEPT !.at = "schedule load"])
      BY <2>2 DEF ScheduleLock, Lock, GoesTo, At
    <3>2. /\ [op[r] EXCEPT !.at = "schedule load"] \in Doing
          /\ [op[r] EXCEPT !.at = "schedule load"].at = "schedule load"
      BY <1>1, <3>1, WaitPlaces DEF WaitSteps
    <3> QED BY <3>1, <3>2
  <2> QED BY <2>1, <2>2
<1>3. /\ op' \in [Actor -> Doing] /\ op'[r] = o
      /\ \A b \in Actor : b # r => op'[b] = op[b]
  BY <1>1, <1>2, GoesFacts
<1>4. \A b \in Actor : op[b].at \notin Locked
  BY <1>1 DEF ScheduleInv, LockHeld
<1>5. TypeInv' /\ OneRowPerName'
  BY <1>1, <1>3 DEF ScheduleInv, TypeInv, OneRowPerName
<1>6. LockHeld'
  BY <1>1, <1>3, <1>4 DEF LockHeld
<1>7. RoomToInsert' /\ RowSaved'
  BY <1>1, <1>2, <1>3 DEF ScheduleInv, RoomToInsert, RowSaved, HasEnabled
<1>8. EnabledAccounted'
  <2>1. \A d \in Config : Accounted(d) => Accounted(d)'
    BY <1>1, <1>3, ReqFacts DEF Accounted
  <2> QED BY <1>1, <2>1 DEF ScheduleInv, EnabledAccounted, HasEnabled
<1> QED BY <1>5, <1>6, <1>7, <1>8 DEF ScheduleInv

\* A configuration is deleted and inserted under the lock.
LEMMA ConfigStep ==
    ASSUME None \notin Actor, ScheduleInv, NEW r \in Req, ConfigDelete(r) \/ ConfigInsert(r)
    PROVE  ScheduleInv'
<1>1. /\ r \in Actor /\ op \in [Actor -> Doing] /\ op[r] \in Doing
      /\ op[r].at \in {"config delete", "config insert"} /\ op[r].c \in Config
      /\ configs \in [Config -> Nat]
      /\ UNCHANGED <<schedules, entries, fails>>
  BY ReqFacts, ConfigPlaces DEF ConfigDelete, ConfigInsert, At, ScheduleInv, TypeInv, ConfigSteps
<1>2. PICK o \in Doing :
         /\ Goes(r, o) /\ o.at \in {"config insert", "idle"}
         /\ o.at = "config insert" =>
               holder' = holder /\ o.c = op[r].c /\ configs' = [configs EXCEPT ![op[r].c] = 0]
  <2>1. CASE ConfigDelete(r)
    <3> DEFINE o == [op[r] EXCEPT !.at = "config insert"]
    <3>1. o \in Doing /\ o.at = "config insert" /\ o.c = op[r].c
      BY <1>1, ConfigPlaces DEF ConfigSteps
    <3>2. Goes(r, o) /\ holder' = holder /\ configs' = [configs EXCEPT ![op[r].c] = 0]
      BY <2>1 DEF ConfigDelete, GoesTo
    <3> QED BY <3>1, <3>2
  <2>2. CASE ConfigInsert(r)
    BY <2>2, FirstPlaces DEF ConfigInsert, Unlock
  <2> QED BY <2>1, <2>2
<1>3. /\ op' \in [Actor -> Doing] /\ op'[r] = o
      /\ \A b \in Actor : b # r => op'[b] = op[b]
  BY <1>1, <1>2, GoesFacts
<1>4. PICK v \in {0, 1} : configs' = [configs EXCEPT ![op[r].c] = v]
  <2>1. CASE ConfigDelete(r)
    BY <2>1 DEF ConfigDelete
  <2>2. CASE ConfigInsert(r)
    <3>1. configs[op[r].c] = 0
      BY <1>1, <2>2 DEF ConfigInsert, At, ScheduleInv, RoomToInsert
    <3>2. configs' = [configs EXCEPT ![op[r].c] = configs[op[r].c] + 1]
      BY <2>2 DEF ConfigInsert
    <3> QED BY <3>1, <3>2
  <2> QED BY <2>1, <2>2
<1>9. /\ configs' \in [Config -> Nat]
      /\ \A c \in Config : configs'[c] = IF c = op[r].c THEN v ELSE configs[c]
  <2>1. v \in Nat
    BY <1>4
  <2> QED BY <1>1, <1>4, <2>1, ExceptFacts
<1>10. OneRowPerName'
  <2>1. \A c \in Config : configs[c] <= 1 /\ Len(schedules[c]) <= 1
    BY DEF ScheduleInv, OneRowPerName
  <2>2. v <= 1
    OBVIOUS
  <2>3. schedules' = schedules
    BY <1>1
  <2> QED BY <1>9, <2>1, <2>2, <2>3 DEF OneRowPerName
<1>11. o.at = "config insert" => configs'[o.c] = 0
  <2> SUFFICES ASSUME o.at = "config insert" PROVE configs'[o.c] = 0
    OBVIOUS
  <2>1. o.c = op[r].c /\ configs' = [configs EXCEPT ![op[r].c] = 0]
    BY <1>2
  <2>2. op[r].c \in Config /\ DOMAIN configs = Config
    BY <1>1
  <2> QED BY <2>1, <2>2
<1>5. \A b \in Actor : b # r => op[b].at \notin Locked
  BY <1>1, Alone DEF ScheduleInv, Locked
<1>6. LockHeld'
  BY <1>1, <1>2, <1>3, <1>5 DEF ScheduleInv, LockHeld, Locked
<1>7. RoomToInsert' /\ RowSaved'
  BY <1>1, <1>2, <1>3, <1>5, <1>11 DEF RoomToInsert, RowSaved, Locked
<1>8. EnabledAccounted'
  <2>1. \A d \in Config : Accounted(d) => Accounted(d)'
    BY <1>1, <1>3, ReqFacts DEF Accounted
  <2> QED BY <1>1, <2>1 DEF ScheduleInv, EnabledAccounted, HasEnabled
<1> QED BY <1>1, <1>3, <1>6, <1>7, <1>8, <1>9, <1>10 DEF ScheduleInv, TypeInv

\* The row of a schedule is deleted under the lock.
LEMMA ScheduleDeleteStep ==
    ASSUME None \notin Actor, ScheduleInv, NEW r \in Req, ScheduleDelete(r)
    PROVE  ScheduleInv'
<1> DEFINE o == [op[r] EXCEPT !.at = "schedule insert"]
<1>1. /\ r \in Actor /\ op \in [Actor -> Doing] /\ op[r] \in Doing
      /\ op[r].at = "schedule delete" /\ schedules \in [Config -> Seq(Row)]
      /\ UNCHANGED <<configs, entries, holder, fails>>
  BY ReqFacts DEF ScheduleDelete, At, ScheduleInv, TypeInv
<1>2. op[r].c \in Config /\ o \in Doing /\ o.at = "schedule insert" /\ o.c = op[r].c
  BY <1>1, SavePlaces DEF SaveSteps
<1>3. /\ op' \in [Actor -> Doing] /\ op'[r] = o
      /\ \A b \in Actor : b # r => op'[b] = op[b]
  <2> HIDE DEF o
  <2>1. Goes(r, o)
    BY DEF ScheduleDelete, GoesTo, o
  <2> QED BY <1>1, <1>2, <2>1, GoesFacts
<1> HIDE DEF o
<1> PICK c \in Config : c = op[r].c
  BY <1>2
<1>4. schedules' = [schedules EXCEPT ![c] = <<>>]
  BY DEF ScheduleDelete
<1>5. /\ schedules' \in [Config -> Seq(Row)]
      /\ \A d \in Config : Len(schedules'[d]) <= 1
      /\ \A d \in Config : HasEnabled(d)' => HasEnabled(d)
      /\ schedules'[c] = <<>>
  <2>1. schedules'[c] = <<>> => ~HasEnabled(c)'
    BY DEF HasEnabled
  <2>2. <<>> \in Seq(Row) /\ Len(<<>>) <= 1
    BY NoRow
  <2>3. TypeInv /\ OneRowPerName
    BY DEF ScheduleInv
  <2> QED BY <1>4, <2>1, <2>2, <2>3, ScheduleFacts
<1>6. \A b \in Actor : b # r => op[b].at \notin Locked
  BY <1>1, Alone DEF ScheduleInv, Locked
<1>7. OneRowPerName'
  BY <1>1, <1>5 DEF ScheduleInv, OneRowPerName
<1>8. LockHeld' /\ RoomToInsert' /\ RowSaved'
  <2>1. \A b \in Actor : b # r => op'[b].at \notin Locked
    BY <1>3, <1>6
  <2>2. op'[r].at = "schedule insert" /\ op'[r].c = c
    BY <1>2, <1>3
  <2>3. holder = r
    BY <1>1 DEF ScheduleInv, LockHeld, Locked
  <2>4. LockHeld'
    BY <1>1, <2>1, <2>3 DEF LockHeld
  <2>5. RoomToInsert'
    BY <1>5, <2>1, <2>2 DEF RoomToInsert, Locked
  <2>6. RowSaved'
    BY <2>1, <2>2 DEF RowSaved, Locked
  <2> QED BY <2>4, <2>5, <2>6
<1>9. EnabledAccounted'
  <2>1. \A d \in Config : Accounted(d) => Accounted(d)'
    BY <1>1, <1>3, ReqFacts DEF Accounted
  <2> QED BY <1>1, <1>5, <2>1 DEF ScheduleInv, EnabledAccounted
<1> QED BY <1>1, <1>3, <1>5, <1>7, <1>8, <1>9 DEF ScheduleInv, TypeInv

\* A row is inserted where none is, and its entry is on the way.
LEMMA ScheduleInsertStep ==
    ASSUME None \notin Actor, ScheduleInv, NEW r \in Req, ScheduleInsert(r)
    PROVE  ScheduleInv'
<1> DEFINE o == [op[r] EXCEPT !.at = "register"]
<1>1. /\ r \in Actor /\ op \in [Actor -> Doing] /\ op[r] \in Doing
      /\ op[r].at = "schedule insert" /\ schedules \in [Config -> Seq(Row)]
      /\ UNCHANGED <<configs, entries, holder, fails>>
  BY ReqFacts DEF ScheduleInsert, At, ScheduleInv, TypeInv
<1>2. /\ op[r].c \in Config /\ op[r].row \in Row
      /\ o \in Doing /\ o.at = "register" /\ o.c = op[r].c /\ o.row = op[r].row
  BY <1>1, SavePlaces DEF SaveSteps
<1>3. /\ op' \in [Actor -> Doing] /\ op'[r] = o
      /\ \A b \in Actor : b # r => op'[b] = op[b]
  <2> HIDE DEF o
  <2>1. Goes(r, o)
    BY DEF ScheduleInsert, GoesTo, o
  <2> QED BY <1>1, <1>2, <2>1, GoesFacts
<1> HIDE DEF o
<1> PICK c \in Config : c = op[r].c
  BY <1>2
<1> DEFINE s == Append(<<>>, op[r].row)
<1>4. schedules' = [schedules EXCEPT ![c] = s]
  <2>1. schedules' = [schedules EXCEPT ![c] = Append(schedules[c], op[r].row)] /\ schedules[c] = <<>>
    BY <1>1 DEF ScheduleInsert, ScheduleInv, RoomToInsert
  <2> QED BY <2>1
<1>5. s \in Seq(Row) /\ Len(s) <= 1 /\ \A i \in DOMAIN s : s[i] = op[r].row
  BY <1>2, OneRow
<1> HIDE DEF s
<1>6. /\ schedules' \in [Config -> Seq(Row)]
      /\ \A d \in Config : Len(schedules'[d]) <= 1
      /\ \A d \in Config : d # c => (HasEnabled(d)' <=> HasEnabled(d))
      /\ schedules'[c] = s
  <2>1. TypeInv /\ OneRowPerName
    BY DEF ScheduleInv
  <2> QED BY <1>4, <1>5, <2>1, ScheduleFacts
<1>7. \A b \in Actor : b # r => op[b].at \notin Locked
  BY <1>1, Alone DEF ScheduleInv, Locked
<1>8. OneRowPerName'
  BY <1>1, <1>6 DEF ScheduleInv, OneRowPerName
<1>9. LockHeld' /\ RoomToInsert'
  BY <1>1, <1>2, <1>3, <1>7 DEF ScheduleInv, LockHeld, RoomToInsert, Locked
<1>10. RowSaved'
  <2>1. HasEnabled(c)' => op[r].row.enabled
    BY <1>5, <1>6 DEF HasEnabled
  <2>2. \A b \in Actor : b # r => op'[b].at # "register"
    BY <1>3, <1>7 DEF Locked
  <2>3. op'[r].c = c /\ op'[r].row = op[r].row
    BY <1>2, <1>3
  <2>4. HasEnabled(op[r].c)' => op'[r].row.enabled
    BY <2>1, <2>3 DEF HasEnabled
  <2> QED BY <2>2, <2>4 DEF RowSaved
<1>11. EnabledAccounted'
  <2>1. \A d \in Config : Accounted(d) => Accounted(d)'
    BY <1>1, <1>3, ReqFacts DEF Accounted
  <2>2. Accounted(c)'
    BY <1>1, <1>2, <1>3 DEF Accounted
  <2> QED BY <1>1, <1>6, <2>1, <2>2 DEF ScheduleInv, EnabledAccounted
<1> QED BY <1>1, <1>3, <1>6, <1>8, <1>9, <1>10, <1>11 DEF ScheduleInv, TypeInv

\* The entry follows the row.
LEMMA RegisterStep ==
    ASSUME None \notin Actor, ScheduleInv, NEW r \in Req, Register(r)
    PROVE  ScheduleInv'
<1>1. /\ r \in Actor /\ op \in [Actor -> Doing] /\ op[r] \in Doing /\ op[r].at = "register"
      /\ holder = r /\ UNCHANGED <<configs, schedules, fails>>
  BY ReqFacts DEF Register, At, ScheduleInv, TypeInv, LockHeld, Locked
<1>2. op[r].c \in Config /\ op[r].row \in Row
  BY <1>1, SavePlaces DEF SaveSteps
<1>3. /\ op' \in [Actor -> Doing] /\ op'[r] = Idle /\ Idle.at = "idle"
      /\ \A b \in Actor : b # r => op'[b] = op[b]
  BY <1>1, FirstPlaces, GoesFacts DEF Register, Unlock
<1>4. \A b \in Actor : b # r => op[b].at \notin Locked
  BY <1>1, Alone DEF ScheduleInv, Locked
<1>5. TypeInv' /\ OneRowPerName'
  BY <1>1, <1>3 DEF ScheduleInv, TypeInv, OneRowPerName
<1>6. LockHeld' /\ RoomToInsert' /\ RowSaved'
  <2>1. \A b \in Actor : op'[b].at \notin Locked
    BY <1>3, <1>4 DEF Locked
  <2> QED BY <2>1 DEF LockHeld, RoomToInsert, RowSaved, Locked
<1>7. EnabledAccounted'
  <2> SUFFICES ASSUME fails = 0, NEW c \in Config, HasEnabled(c) PROVE Accounted(c)'
    BY <1>1 DEF EnabledAccounted, HasEnabled
  <2>1. CASE c = op[r].c
    <3>1. op[r].row.enabled
      BY <1>1, <2>1 DEF ScheduleInv, RowSaved
    <3> QED BY <2>1, <3>1 DEF Register, Accounted
  <2>2. CASE c # op[r].c
    <3>1. CASE c \in entries
      BY <2>2, <3>1 DEF Register, Accounted
    <3>2. CASE \E q \in Req : op[q].at \in {"register", "drop"} /\ op[q].c = c
      BY <1>1, <1>3, <2>2, <3>2, ReqFacts DEF Accounted
    <3> QED BY <3>1, <3>2 DEF ScheduleInv, EnabledAccounted, Accounted
  <2> QED BY <2>1, <2>2
<1> QED BY <1>5, <1>6, <1>7 DEF ScheduleInv

\* A configuration is deleted without the lock.
LEMMA DeleteConfigStep ==
    ASSUME ScheduleInv, NEW r \in Req, NEW c \in Config, DeleteConfig(r, c)
    PROVE  ScheduleInv'
<1> DEFINE o == [at |-> "unregister", c |-> c]
<1>1. /\ r \in Actor /\ op \in [Actor -> Doing] /\ op[r].at = "idle"
      /\ configs \in [Config -> Nat] /\ configs' = [configs EXCEPT ![c] = 0]
      /\ UNCHANGED <<schedules, entries, holder, fails>>
      /\ Goes(r, o)
  BY ReqFacts DEF DeleteConfig, At, ScheduleInv, TypeInv
<1>2. o \in Doing /\ o.at = "unregister"
  BY FirstPlaces
<1> HIDE DEF o
<1>3. /\ op' \in [Actor -> Doing] /\ op'[r] = o
      /\ \A b \in Actor : b # r => op'[b] = op[b]
  BY <1>1, <1>2, GoesFacts
<1>4. /\ configs' \in [Config -> Nat]
      /\ \A d \in Config : configs'[d] = IF d = c THEN 0 ELSE configs[d]
  BY <1>1, ExceptFacts
<1>5. OneRowPerName'
  <2>1. \A d \in Config : configs[d] <= 1 /\ Len(schedules[d]) <= 1
    BY DEF ScheduleInv, OneRowPerName
  <2>2. schedules' = schedules
    BY <1>1
  <2> QED BY <1>4, <2>1, <2>2 DEF OneRowPerName
<1>6. LockHeld'
  BY <1>1, <1>2, <1>3 DEF ScheduleInv, LockHeld, Locked
<1>7. RoomToInsert'
  <2>1. \A b \in Actor : op[b].at = "config insert" => op[b].c \in Config
    BY ConfigPlaces DEF ScheduleInv, TypeInv, ConfigSteps
  <2>2. ASSUME NEW b \in Actor, op'[b].at = "config insert"
        PROVE  configs'[op'[b].c] = 0
    <3>1. op'[b] = op[b] /\ op[b].c \in Config
      BY <1>2, <1>3, <2>1, <2>2
    <3>2. configs[op[b].c] = 0
      BY <2>2, <3>1 DEF ScheduleInv, RoomToInsert
    <3> QED BY <1>4, <3>1, <3>2
  <2>3. ASSUME NEW b \in Actor, op'[b].at = "schedule insert"
        PROVE  schedules'[op'[b].c] = <<>>
    <3>1. op'[b] = op[b] /\ schedules' = schedules
      BY <1>1, <1>2, <1>3, <2>3
    <3>2. schedules[op[b].c] = <<>>
      BY <2>3, <3>1 DEF ScheduleInv, RoomToInsert
    <3> QED BY <3>1, <3>2
  <2> QED BY <2>2, <2>3 DEF RoomToInsert
<1>8. RowSaved'
  BY <1>1, <1>2, <1>3 DEF ScheduleInv, RowSaved, HasEnabled
<1>9. EnabledAccounted'
  <2>1. \A d \in Config : Accounted(d) => Accounted(d)'
    BY <1>1, <1>3, ReqFacts DEF Accounted
  <2> QED BY <1>1, <2>1 DEF ScheduleInv, EnabledAccounted, HasEnabled
<1> QED BY <1>1, <1>3, <1>4, <1>5, <1>6, <1>7, <1>8, <1>9 DEF ScheduleInv, TypeInv

\* A cron entry goes, without the lock: its row is going.
LEMMA UnregisterStep ==
    ASSUME ScheduleInv, NEW r \in Req, Unregister(r)
    PROVE  ScheduleInv'
<1> DEFINE o == [op[r] EXCEPT !.at = "drop"]
<1>1. /\ r \in Actor /\ op \in [Actor -> Doing] /\ op[r] \in Doing
      /\ op[r].at = "unregister" /\ entries' = entries \ {op[r].c}
      /\ UNCHANGED <<configs, schedules, holder, fails>>
      /\ Goes(r, o)
  BY ReqFacts DEF Unregister, GoesTo, At, ScheduleInv, TypeInv
<1>2. o \in Doing /\ o.at = "drop" /\ o.c = op[r].c
  BY <1>1, ConfigPlaces DEF ConfigSteps
<1> HIDE DEF o
<1>3. /\ op' \in [Actor -> Doing] /\ op'[r] = o
      /\ \A b \in Actor : b # r => op'[b] = op[b]
  BY <1>1, <1>2, GoesFacts
<1>4. TypeInv' /\ OneRowPerName'
  BY <1>1, <1>3 DEF ScheduleInv, TypeInv, OneRowPerName
<1>5. LockHeld' /\ RoomToInsert' /\ RowSaved'
  <2>1. LockHeld'
    BY <1>1, <1>2, <1>3 DEF ScheduleInv, LockHeld, Locked
  <2>2. RoomToInsert'
    BY <1>1, <1>2, <1>3 DEF ScheduleInv, RoomToInsert
  <2>3. RowSaved'
    BY <1>1, <1>2, <1>3 DEF ScheduleInv, RowSaved, HasEnabled
  <2> QED BY <2>1, <2>2, <2>3
<1>6. EnabledAccounted'
  <2>1. ASSUME NEW c \in Config, Accounted(c) PROVE Accounted(c)'
    <3>1. CASE c = op[r].c
      BY <1>1, <1>2, <1>3, <3>1 DEF Accounted
    <3>2. CASE c # op[r].c
      BY <1>1, <1>3, <2>1, <3>2, ReqFacts DEF Accounted
    <3> QED BY <3>1, <3>2
  <2> QED BY <1>1, <2>1 DEF ScheduleInv, EnabledAccounted, HasEnabled
<1> QED BY <1>4, <1>5, <1>6 DEF ScheduleInv

\* The row of a deleted schedule goes, without the lock.
LEMMA DropStep ==
    ASSUME ScheduleInv, NEW r \in Req, Drop(r)
    PROVE  ScheduleInv'
<1>1. /\ r \in Actor /\ op \in [Actor -> Doing] /\ op[r] \in Doing /\ op[r].at = "drop"
      /\ UNCHANGED <<configs, entries, holder, fails>> /\ Goes(r, Idle)
  BY ReqFacts DEF Drop, At, ScheduleInv, TypeInv
<1>2. op[r].c \in Config
  BY <1>1, ConfigPlaces DEF ConfigSteps
<1>3. /\ op' \in [Actor -> Doing] /\ op'[r] = Idle /\ Idle.at = "idle"
      /\ \A b \in Actor : b # r => op'[b] = op[b]
  BY <1>1, FirstPlaces, GoesFacts
<1> PICK c \in Config : c = op[r].c
  BY <1>2
<1>4. schedules' = [schedules EXCEPT ![c] = <<>>]
  BY DEF Drop
<1>5. /\ schedules' \in [Config -> Seq(Row)]
      /\ \A d \in Config : Len(schedules'[d]) <= 1
      /\ \A d \in Config : schedules'[d] = IF d = c THEN <<>> ELSE schedules[d]
      /\ \A d \in Config : HasEnabled(d)' => HasEnabled(d) /\ d # c
  <2>1. schedules'[c] = <<>> => ~HasEnabled(c)'
    BY DEF HasEnabled
  <2>2. <<>> \in Seq(Row) /\ Len(<<>>) <= 1
    BY NoRow
  <2>3. TypeInv /\ OneRowPerName
    BY DEF ScheduleInv
  <2> QED BY <1>4, <2>1, <2>2, <2>3, ScheduleFacts
<1>6. OneRowPerName'
  BY <1>1, <1>5 DEF ScheduleInv, OneRowPerName
<1>7. LockHeld'
  BY <1>1, <1>3 DEF ScheduleInv, LockHeld, Locked
<1>8. RoomToInsert' /\ RowSaved'
  <2>1. \A b \in Actor : op[b].at \in SaveSteps => op[b].c \in Config
    BY SavePlaces DEF ScheduleInv, TypeInv
  <2>2. RoomToInsert'
    <3>1. ASSUME NEW b \in Actor, op'[b].at \in {"config insert", "schedule insert"}
          PROVE  op'[b] = op[b]
      BY <1>3, <3>1
    <3>2. ASSUME NEW b \in Actor, op'[b].at = "config insert"
          PROVE  configs'[op'[b].c] = 0
      BY <1>1, <3>1, <3>2 DEF ScheduleInv, RoomToInsert
    <3>3. ASSUME NEW b \in Actor, op'[b].at = "schedule insert"
          PROVE  schedules'[op'[b].c] = <<>>
      <4>1. op'[b] = op[b] /\ op[b].c \in Config
        BY <2>1, <3>1, <3>3 DEF SaveSteps
      <4>2. schedules[op[b].c] = <<>>
        BY <3>3, <4>1 DEF ScheduleInv, RoomToInsert
      <4> QED BY <1>5, <4>1, <4>2
    <3> QED BY <3>2, <3>3 DEF RoomToInsert
  <2>3. ASSUME NEW b \in Actor, op'[b].at = "register", HasEnabled(op[b].c)'
        PROVE  op'[b].row.enabled
    <3>1. op'[b] = op[b] /\ op[b].at = "register"
      BY <1>3, <2>3
    <3>2. PICK d \in Config : d = op[b].c
      BY <2>1, <3>1 DEF SaveSteps
    <3>3. HasEnabled(d)'
      BY <2>3, <3>1, <3>2 DEF HasEnabled
    <3>4. HasEnabled(op[b].c)
      BY <1>5, <3>2, <3>3
    <3> QED BY <3>1, <3>4 DEF ScheduleInv, RowSaved
  <2> QED BY <2>2, <2>3 DEF RowSaved
<1>9. EnabledAccounted'
  <2>1. \A d \in Config : d # c /\ Accounted(d) => Accounted(d)'
    BY <1>1, <1>3, ReqFacts DEF Accounted
  <2> QED BY <1>1, <1>5, <2>1 DEF ScheduleInv, EnabledAccounted
<1> QED BY <1>1, <1>3, <1>5, <1>6, <1>7, <1>8, <1>9 DEF ScheduleInv, TypeInv

\* A statement fails: the lock is free again, and no promise about entries is left.
LEMMA FailStep ==
    ASSUME ScheduleInv, NEW r \in Req, Fail(r)
    PROVE  ScheduleInv'
<1>1. /\ r \in Actor /\ op \in [Actor -> Doing]
      /\ UNCHANGED <<configs, schedules, entries>> /\ Goes(r, Idle)
      /\ holder' = IF holder = r THEN None ELSE holder
      /\ fails \in Nat /\ fails' = fails + 1
  BY ReqFacts DEF Fail, Unlock, tables, ScheduleInv, TypeInv
<1>2. /\ op' \in [Actor -> Doing] /\ op'[r] = Idle /\ Idle.at = "idle"
      /\ \A b \in Actor : b # r => op'[b] = op[b]
  BY <1>1, FirstPlaces, GoesFacts
<1>3. TypeInv' /\ OneRowPerName'
  BY <1>1, <1>2 DEF ScheduleInv, TypeInv, OneRowPerName
<1>4. LockHeld'
  BY <1>1, <1>2 DEF ScheduleInv, LockHeld, Locked
<1>5. RoomToInsert' /\ RowSaved'
  BY <1>1, <1>2 DEF ScheduleInv, RoomToInsert, RowSaved, HasEnabled
<1>6. EnabledAccounted'
  <2>1. fails' # 0
    BY <1>1
  <2> QED BY <2>1 DEF EnabledAccounted
<1> QED BY <1>3, <1>4, <1>5, <1>6 DEF ScheduleInv

\* A run is recorded: an UPDATE adds no row and enables none.
LEMMA RecordStep ==
    ASSUME ScheduleInv, NEW n \in Run, Record(n)
    PROVE  ScheduleInv'
<1>1. /\ n \in Actor /\ op \in [Actor -> Doing] /\ op[n] \in Doing /\ op[n].at = "record"
      /\ UNCHANGED <<configs, entries, holder, fails>> /\ Goes(n, Idle)
  BY DEF Record, At, ScheduleInv, TypeInv, Actor
<1>2. op[n].c \in Config /\ op[n].outcome \in Outcome
  BY <1>1, RunPlaces
<1>3. /\ op' \in [Actor -> Doing] /\ op'[n] = Idle /\ Idle.at = "idle"
      /\ \A b \in Actor : b # n => op'[b] = op[b]
  BY <1>1, FirstPlaces, GoesFacts
<1> PICK c \in Config : c = op[n].c
  BY <1>2
<1> DEFINE s == schedules[c]
           t == [i \in DOMAIN s |-> [s[i] EXCEPT !.last = op[n].outcome]]
<1>4. schedules' = [schedules EXCEPT ![c] = t]
  BY DEF Record
<1>5. s \in Seq(Row) /\ Len(s) <= 1
  BY DEF ScheduleInv, TypeInv, OneRowPerName
<1>6. t \in Seq(Row) /\ Len(t) = Len(s) /\ DOMAIN t = DOMAIN s
  <2>1. \A i \in 1..Len(s) : [s[i] EXCEPT !.last = op[n].outcome] \in Row
    <3>1. \A i \in 1..Len(s) : s[i] \in Row
      BY <1>5
    <3>2. \A row \in Row : [row EXCEPT !.last = op[n].outcome] \in Row
      BY <1>2 DEF Row
    <3> QED BY <3>1, <3>2
  <2>2. DOMAIN s = 1..Len(s) /\ Len(s) \in Nat
    BY <1>5
  <2>3. t = [i \in 1..Len(s) |-> [s[i] EXCEPT !.last = op[n].outcome]]
    BY <2>2
  <2> HIDE DEF s
  <2> QED BY <2>1, <2>2, <2>3
<1>7. \A i \in DOMAIN s : t[i].enabled = s[i].enabled
  <2>1. \A i \in DOMAIN s : s[i] \in Row
    BY <1>5
  <2> QED BY <2>1 DEF Row
<1> HIDE DEF t
<1>8. /\ schedules' \in [Config -> Seq(Row)]
      /\ \A d \in Config : Len(schedules'[d]) <= 1
      /\ \A d \in Config : schedules'[d] = IF d = c THEN t ELSE schedules[d]
      /\ \A d \in Config : d # c => (HasEnabled(d)' <=> HasEnabled(d))
  <2>1. TypeInv /\ OneRowPerName
    BY DEF ScheduleInv
  <2>2. Len(t) <= 1
    BY <1>5, <1>6
  <2> QED BY <1>4, <1>6, <2>1, <2>2, ScheduleFacts
<1>9. \A d \in Config : HasEnabled(d)' <=> HasEnabled(d)
  <2>1. HasEnabled(c)' <=> HasEnabled(c)
    BY <1>6, <1>7, <1>8 DEF HasEnabled
  <2> QED BY <1>8, <2>1
<1>10. \A d \in Config : schedules[d] = <<>> => schedules'[d] = <<>>
  <2>1. s = <<>> => t = <<>>
    BY <1>6
  <2> QED BY <1>8, <2>1
<1>11. OneRowPerName'
  BY <1>1, <1>8 DEF ScheduleInv, OneRowPerName
<1>12. LockHeld'
  BY <1>1, <1>3 DEF ScheduleInv, LockHeld, Locked
<1>13. \A b \in Actor : op[b].at \in SaveSteps => op[b].c \in Config
  BY SavePlaces DEF ScheduleInv, TypeInv
<1>14. RoomToInsert'
  <2>1. ASSUME NEW b \in Actor, op'[b].at = "config insert"
        PROVE  configs'[op'[b].c] = 0
    BY <1>1, <1>3, <2>1 DEF ScheduleInv, RoomToInsert
  <2>2. ASSUME NEW b \in Actor, op'[b].at = "schedule insert"
        PROVE  schedules'[op'[b].c] = <<>>
    <3>1. op'[b] = op[b] /\ op[b].c \in Config
      BY <1>3, <1>13, <2>2 DEF SaveSteps
    <3>2. schedules[op[b].c] = <<>>
      BY <2>2, <3>1 DEF ScheduleInv, RoomToInsert
    <3> QED BY <1>10, <3>1, <3>2
  <2> QED BY <2>1, <2>2 DEF RoomToInsert
<1>15. RowSaved'
  <2>1. ASSUME NEW b \in Actor, op'[b].at = "register", HasEnabled(op[b].c)'
        PROVE  op'[b].row.enabled
    <3>1. op'[b] = op[b] /\ op[b].at = "register"
      BY <1>3, <2>1
    <3>2. PICK d \in Config : d = op[b].c
      BY <1>13, <3>1 DEF SaveSteps
    <3>3. HasEnabled(d)'
      BY <2>1, <3>1, <3>2 DEF HasEnabled
    <3>4. HasEnabled(op[b].c)
      BY <1>9, <3>2, <3>3
    <3> QED BY <3>1, <3>4 DEF ScheduleInv, RowSaved
  <2> QED BY <2>1 DEF RowSaved
<1>16. EnabledAccounted'
  <2>1. \A d \in Config : Accounted(d) => Accounted(d)'
    BY <1>1, <1>3, ReqFacts DEF Accounted
  <2> QED BY <1>1, <1>9, <2>1 DEF ScheduleInv, EnabledAccounted
<1> QED BY <1>1, <1>3, <1>8, <1>11, <1>12, <1>14, <1>15, <1>16 DEF ScheduleInv, TypeInv

\* A restart makes entries of the enabled schedules.
LEMMA RestartStep ==
    ASSUME ScheduleInv, Restart
    PROVE  ScheduleInv'
<1>1. /\ op' = [r \in Actor |-> Idle] /\ UNCHANGED <<configs, schedules, fails>>
      /\ entries' = {c \in Config : HasEnabled(c)}
  BY DEF Restart, HasEnabled
<1>2. op' \in [Actor -> Doing] /\ \A a \in Actor : op'[a].at = "idle"
  BY <1>1, FirstPlaces
<1>3. TypeInv' /\ OneRowPerName'
  BY <1>1, <1>2 DEF ScheduleInv, TypeInv, OneRowPerName
<1>4. LockHeld' /\ RoomToInsert' /\ RowSaved'
  BY <1>2 DEF LockHeld, RoomToInsert, RowSaved, Locked
<1>5. EnabledAccounted'
  BY <1>1 DEF EnabledAccounted, Accounted, HasEnabled
<1> QED BY <1>3, <1>4, <1>5 DEF ScheduleInv

----------------------------------------------------------------------------
(* The theorems *)

\* The steps before the lock, and those of a run before it is recorded.
LEMMA BeginStep ==
    ASSUME ScheduleInv, NEW r \in Req, NEW c \in Config, NEW enabled \in BOOLEAN,
           SaveConfig(r, c) \/ SaveSchedule(r, c, enabled)
    PROVE  ScheduleInv'
<1>1. /\ r \in Actor /\ op[r].at = "idle"
      /\ UNCHANGED <<configs, schedules, entries, holder, fails>>
  BY ReqFacts DEF SaveConfig, SaveSchedule, At, tables
<1>2. PICK o \in Doing : Goes(r, o) /\ o.at \in {"config lock", "schedule lock"}
  <2>1. CASE SaveConfig(r, c)
    BY <2>1, FirstPlaces DEF SaveConfig
  <2>2. CASE SaveSchedule(r, c, enabled)
    BY <2>2, FirstPlaces DEF SaveSchedule
  <2> QED BY <2>1, <2>2
<1> QED BY <1>1, <1>2, QuietStep DEF Locked

\* What the row says of the last run is read under the lock.
LEMMA LoadStep ==
    ASSUME ScheduleInv, NEW r \in Req, ScheduleLoad(r)
    PROVE  ScheduleInv'
<1>1. /\ r \in Actor /\ op[r] \in Doing /\ op[r].at = "schedule load"
      /\ UNCHANGED <<configs, schedules, entries, holder, fails>>
  BY ReqFacts DEF ScheduleLoad, At, tables, ScheduleInv, TypeInv
<1>2. op[r].c \in Config /\ op[r].enabled \in BOOLEAN
  BY <1>1, WaitPlaces DEF WaitSteps
<1> DEFINE rows == schedules[op[r].c]
           row == [enabled |-> op[r].enabled,
                   last |-> IF rows = <<>> THEN "never" ELSE Head(rows).last]
<1>3. row \in Row
  <2>1. rows \in Seq(Row)
    BY <1>2 DEF ScheduleInv, TypeInv
  <2>2. rows # <<>> => Head(rows) \in Row
    BY <2>1
  <2>3. rows # <<>> => Head(rows).last \in {"never"} \cup Outcome
    BY <2>2 DEF Row
  <2> HIDE DEF rows
  <2> QED BY <1>2, <2>3 DEF Row
<1>4. Goes(r, [at |-> "schedule delete", c |-> op[r].c, row |-> row])
  BY DEF ScheduleLoad
<1> HIDE DEF row
<1>5. /\ [at |-> "schedule delete", c |-> op[r].c, row |-> row] \in Doing
      /\ [at |-> "schedule delete", c |-> op[r].c, row |-> row].at = "schedule delete"
  BY <1>2, <1>3, FirstPlaces
<1> QED BY <1>1, <1>4, <1>5, QuietStep DEF Locked

\* A run fires, matches and writes its results.
LEMMA RunStep ==
    ASSUME ScheduleInv, NEW n \in Run,
           (\E c \in Config : Fire(n, c)) \/ Match(n) \/ WriteResults(n)
    PROVE  ScheduleInv'
<1>1. /\ n \in Actor /\ op[n] \in Doing /\ op[n].at \in {"idle", "load", "resolve"}
      /\ UNCHANGED <<configs, schedules, entries, holder, fails>>
  BY DEF Fire, Match, WriteResults, At, tables, Actor, ScheduleInv, TypeInv
<1>2. PICK o \in Doing : Goes(n, o) /\ o.at \in {"record", "load", "resolve"}
  <2>1. ASSUME NEW c \in Config, Fire(n, c)
        PROVE  \E o \in Doing : Goes(n, o) /\ o.at \in {"record", "load", "resolve"}
    BY <2>1, FirstPlaces DEF Fire, Outcome
  <2>2. CASE Match(n)
    <3>1. op[n].c \in Config
      BY <1>1, <2>2, RunPlaces DEF Match, At
    <3> QED BY <2>2, <3>1, FirstPlaces DEF Match, Outcome
  <2>3. CASE WriteResults(n)
    <3>1. op[n].c \in Config
      BY <1>1, <2>3, RunPlaces DEF WriteResults, At
    <3> QED BY <2>3, <3>1, FirstPlaces DEF WriteResults, Outcome
  <2> QED BY <2>1, <2>2, <2>3
<1> QED BY <1>1, <1>2, QuietStep DEF Locked

\* Every step keeps the invariant.
LEMMA ScheduleInvStep ==
    ASSUME None \notin Actor
    PROVE  ScheduleInv /\ [Next]_vars => ScheduleInv'
<1> SUFFICES ASSUME ScheduleInv, [Next]_vars PROVE ScheduleInv'
  OBVIOUS
<1>1. ASSUME NEW r \in Req, NEW c \in Config, NEW enabled \in BOOLEAN,
             SaveConfig(r, c) \/ SaveSchedule(r, c, enabled)
      PROVE  ScheduleInv'
  BY <1>1, BeginStep
<1>2. ASSUME NEW r \in Req, NEW c \in Config, DeleteConfig(r, c) PROVE ScheduleInv'
  BY <1>2, DeleteConfigStep
<1>3. ASSUME NEW r \in Req, RequestStep(r) PROVE ScheduleInv'
  <2>1. CASE ConfigLock(r) \/ ScheduleLock(r)
    BY <2>1, LockStep
  <2>2. CASE ConfigDelete(r) \/ ConfigInsert(r)
    BY <2>2, ConfigStep
  <2>3. CASE ScheduleLoad(r)
    BY <2>3, LoadStep
  <2>4. CASE ScheduleDelete(r)
    BY <2>4, ScheduleDeleteStep
  <2>5. CASE ScheduleInsert(r)
    BY <2>5, ScheduleInsertStep
  <2>6. CASE Register(r)
    BY <2>6, RegisterStep
  <2>7. CASE Unregister(r)
    BY <2>7, UnregisterStep
  <2>8. CASE Drop(r)
    BY <2>8, DropStep
  <2> QED BY <1>3, <2>1, <2>2, <2>3, <2>4, <2>5, <2>6, <2>7, <2>8 DEF RequestStep, DeleteSchedule
<1>4. ASSUME NEW r \in Req, Fail(r) PROVE ScheduleInv'
  BY <1>4, FailStep
<1>5. ASSUME NEW n \in Run, (\E c \in Config : Fire(n, c)) \/ Match(n) \/ WriteResults(n)
      PROVE  ScheduleInv'
  BY <1>5, RunStep
<1>6. ASSUME NEW n \in Run, Record(n) PROVE ScheduleInv'
  BY <1>6, RecordStep
<1>7. ASSUME SetMaintenance \/ ShareConnection \/ UNCHANGED vars PROVE ScheduleInv'
  <2>1. UNCHANGED <<configs, schedules, entries, holder, op, fails>>
    BY <1>7 DEF SetMaintenance, ShareConnection, vars, tables
  <2>2. TypeInv' /\ OneRowPerName' /\ LockHeld'
    BY <2>1 DEF ScheduleInv, TypeInv, OneRowPerName, LockHeld
  <2>3. RoomToInsert' /\ RowSaved'
    BY <2>1 DEF ScheduleInv, RoomToInsert, RowSaved, HasEnabled
  <2>4. EnabledAccounted'
    BY <2>1 DEF ScheduleInv, EnabledAccounted, Accounted, HasEnabled
  <2> QED BY <2>2, <2>3, <2>4 DEF ScheduleInv
<1>8. ASSUME Restart PROVE ScheduleInv'
  BY <1>8, RestartStep
<1>9. CASE UNCHANGED vars
  BY <1>7, <1>9
<1>10. CASE Next
  <2>1. CASE \E r \in Req : \/ \E c \in Config : \/ SaveConfig(r, c) \/ DeleteConfig(r, c)
                                                 \/ \E enabled \in BOOLEAN : SaveSchedule(r, c, enabled)
                            \/ RequestStep(r) \/ Fail(r)
    BY <1>1, <1>2, <1>3, <1>4, <2>1
  <2>2. CASE \E n \in Run : \/ \E c \in Config : Fire(n, c)
                            \/ Match(n) \/ WriteResults(n) \/ Record(n)
    BY <1>5, <1>6, <2>2
  <2> QED BY <1>7, <1>8, <1>10, <2>1, <2>2 DEF Next
<1> QED BY <1>9, <1>10

\* The server starts without configurations and schedules.
LEMMA ScheduleInvInit == Init => ScheduleInv
<1> SUFFICES ASSUME Init PROVE ScheduleInv
  OBVIOUS
<1>1. op \in [Actor -> Doing] /\ \A a \in Actor : op[a].at = "idle"
  BY FirstPlaces DEF Init
<1>2. /\ configs = [c \in Config |-> 0] /\ schedules = [c \in Config |-> <<>>] /\ fails = 0
  BY DEF Init
<1>3. \A c \in Config : schedules[c] = <<>> /\ ~HasEnabled(c)
  BY <1>2, NoRow
<1>4. schedules \in [Config -> Seq(Row)] /\ configs \in [Config -> Nat]
  BY <1>2, NoRow
<1>5. OneRowPerName
  BY <1>2, <1>3, NoRow DEF OneRowPerName
<1>6. LockHeld /\ RoomToInsert /\ RowSaved
  BY <1>1 DEF LockHeld, RoomToInsert, RowSaved, Locked
<1> QED BY <1>1, <1>2, <1>3, <1>4, <1>5, <1>6 DEF ScheduleInv, TypeInv, EnabledAccounted

\* Saved configurations and schedules keep one row per name, whatever saves, deletes and
\* failures overlap (the work of namedConfigMu): for any number of requests, runs and
\* names, as long as the free lock is nobody.
THEOREM NamesUnique ==
    ASSUME None \notin Actor
    PROVE  Spec => []OneRowPerName
<1>1. ScheduleInv => OneRowPerName
  BY DEF ScheduleInv
<1> QED BY <1>1, ScheduleInvInit, ScheduleInvStep, PTL DEF Spec

\* When all requests have ended and none has failed, an enabled schedule has its cron
\* entry (deleteMatchSchedule takes no lock, and unregisters before it deletes).
THEOREM SchedulesRegistered ==
    ASSUME None \notin Actor
    PROVE  Spec => []EnabledIsRegistered
<1>1. ScheduleInv => EnabledIsRegistered
  <2> SUFFICES ASSUME ScheduleInv, \A r \in Req : op[r].at = "idle", fails = 0,
                      NEW c \in Config, NEW i \in DOMAIN schedules[c], schedules[c][i].enabled
               PROVE  c \in entries
    BY DEF EnabledIsRegistered, At
  <2>1. HasEnabled(c)
    BY DEF HasEnabled
  <2>2. Accounted(c)
    BY <2>1 DEF ScheduleInv, EnabledAccounted
  <2> QED BY <2>2 DEF Accounted
<1> QED BY <1>1, ScheduleInvInit, ScheduleInvStep, PTL DEF Spec

----------------------------------------------------------------------------
(* The search index *)

\* What a reindex carries: nothing but whether it is sound, definitions it fetches, or
\* definitions it stores.
IndexText == Text \cup {Index!NoText}

IndexDefinition == [object : Object, text : IndexText]

IndexRow == [object : Object, text : IndexText, model : Model]

Between == [at : {"idle", "resolve", "end"}, sound : BOOLEAN]

Fetching == [at : {"fetch"}, sound : BOOLEAN, defs : SUBSET IndexDefinition, left : SUBSET Object]

Storing == [at : {"delete", "insert"}, sound : BOOLEAN, model : Model, seen : SUBSET Object,
            todo : SUBSET IndexDefinition, d : IndexDefinition \cup {Index!None}]

IndexDoing == Between \cup Fetching \cup Storing

IndexTypes ==
    /\ catalog \in [Object -> IndexText]
    /\ model \in Model
    /\ indexRows \subseteq IndexRow
    /\ indexOp \in [Task -> IndexDoing]
    /\ exact \in BOOLEAN

\* One reindex at a time: the flag says whether there is one.
OneReindex ==
    /\ running \in {0, 1}
    /\ \A t \in Task : indexOp[t].at # "idle" => running = 1
    /\ \A t, u \in Task : indexOp[t].at # "idle" /\ indexOp[u].at # "idle" => t = u

Single(rows) == \A a, b \in rows : a.object = b.object => a = b

Awaited(d, rows) == d \in IndexDefinition /\ \A row \in rows : row.object # d.object

\* An object has one row, and none between the delete and the insert of its new one.
OneRowPerObject ==
    /\ Single(indexRows)
    /\ \A t \in Task : indexOp[t].at = "insert" => Awaited(indexOp[t].d, indexRows)

\* The objects there are, what is fetched of one, and its row in an exact index.
Live == {o \in Object : catalog[o] # Index!NoText}

DefinitionOf(o) == [object |-> o, text |-> catalog[o]]

RowOf(o) == [object |-> o, text |-> catalog[o], model |-> model]

\* How far a reindex has come that nothing disturbed.
Undisturbed(r, rows) ==
    /\ r.at = "fetch" =>
          r.left \subseteq Live /\ r.defs = {DefinitionOf(o) : o \in Live \ r.left}
    /\ r.at \in {"delete", "insert"} =>
          /\ r.model = model /\ r.seen = Live
          /\ r.todo \subseteq {DefinitionOf(o) : o \in Live}
          /\ \A o \in Live : \/ DefinitionOf(o) \in r.todo
                             \/ r.at = "insert" /\ r.d = DefinitionOf(o)
                             \/ RowOf(o) \in rows
    /\ r.at = "insert" => r.d \in {DefinitionOf(o) : o \in Live}
    /\ r.at = "end" => rows = {RowOf(o) : o \in Live}

IndexSound ==
    /\ \A t \in Task : indexOp[t].sound =>
          indexOp[t].at # "idle" /\ Undisturbed(indexOp[t], indexRows)
    /\ exact => /\ \A t \in Task : indexOp[t].at = "idle"
                /\ indexRows = {RowOf(o) : o \in Live}

IndexInv == IndexTypes /\ OneReindex /\ OneRowPerObject /\ IndexSound

\* What each form of operation has.
LEMMA IndexFields ==
    ASSUME NEW o \in IndexDoing
    PROVE  /\ o.at \in {"idle", "resolve", "end", "fetch", "delete", "insert"}
           /\ o.sound \in BOOLEAN
           /\ o.at \in {"idle", "resolve", "end"} => o \in Between
           /\ o.at = "fetch" => o \in Fetching
           /\ o.at \in {"delete", "insert"} => o \in Storing
  BY DEF IndexDoing, Between, Fetching, Storing

\* An operation that is no longer sound is otherwise what it was.
LEMMA IndexUnsound ==
    ASSUME NEW o \in IndexDoing
    PROVE  /\ [o EXCEPT !.sound = FALSE] \in IndexDoing
           /\ [o EXCEPT !.sound = FALSE].sound = FALSE
           /\ [o EXCEPT !.sound = FALSE].at = o.at
           /\ o.at = "insert" => [o EXCEPT !.sound = FALSE].d = o.d
  <1> DEFINE c == [o EXCEPT !.sound = FALSE]
  <1>1. CASE o \in Between
    <2>1. c \in Between /\ c.at = o.at /\ c.sound = FALSE /\ o.at # "insert"
      BY <1>1 DEF Between
    <2> QED BY <2>1 DEF IndexDoing
  <1>2. CASE o \in Fetching
    <2>1. c \in Fetching /\ c.at = o.at /\ c.sound = FALSE /\ o.at # "insert"
      BY <1>2 DEF Fetching
    <2> QED BY <2>1 DEF IndexDoing
  <1>3. CASE o \in Storing
    <2>1. c \in Storing /\ c.at = o.at /\ c.sound = FALSE /\ c.d = o.d
      BY <1>3 DEF Storing
    <2> QED BY <2>1 DEF IndexDoing
  <1> QED BY <1>1, <1>2, <1>3 DEF IndexDoing

\* A step of others leaves no reindex, and no result of one, sound.
LEMMA IndexDisturbed ==
    ASSUME IndexInv, catalog' \in [Object -> IndexText], model' \in Model,
           indexRows' \subseteq indexRows, running' = running, exact' = FALSE,
           indexOp' = [t \in Task |-> [indexOp[t] EXCEPT !.sound = FALSE]]
    PROVE  IndexInv'
  <1>1. \A t \in Task : indexOp[t] \in IndexDoing
    BY DEF IndexInv, IndexTypes
  <1>2. /\ indexOp' \in [Task -> IndexDoing]
        /\ \A t \in Task : /\ indexOp'[t].at = indexOp[t].at
                           /\ indexOp'[t].sound = FALSE
                           /\ indexOp[t].at = "insert" => indexOp'[t].d = indexOp[t].d
    BY <1>1, IndexUnsound
  <1>3. IndexTypes'
    BY <1>2 DEF IndexInv, IndexTypes
  <1>4. OneReindex'
    BY <1>2 DEF IndexInv, OneReindex
  <1>5. OneRowPerObject'
    BY <1>2 DEF IndexInv, OneRowPerObject, Single, Awaited
  <1>6. IndexSound'
    BY <1>2 DEF IndexSound
  <1> QED BY <1>3, <1>4, <1>5, <1>6 DEF IndexInv

\* A step of a reindex: what it needs to show of the rows and of itself.
LEMMA IndexStep ==
    ASSUME IndexInv, NEW t \in Task, indexOp[t].at # "idle",
           NEW o \in IndexDoing, o.at # "idle", Index!Goes(t, o),
           indexRows' \subseteq IndexRow, Single(indexRows'),
           o.at = "insert" => Awaited(o.d, indexRows'),
           o.sound => Undisturbed(o, indexRows'),
           UNCHANGED <<catalog, model, running, exact>>
    PROVE  IndexInv'
  <1>1. /\ indexOp' \in [Task -> IndexDoing]
        /\ indexOp'[t] = o
        /\ \A u \in Task \ {t} : indexOp'[u] = indexOp[u]
    BY DEF Index!Goes, IndexInv, IndexTypes
  <1>2. \A u \in Task \ {t} : indexOp[u].at = "idle"
    BY DEF IndexInv, OneReindex
  <1>3. IndexTypes'
    BY <1>1 DEF IndexInv, IndexTypes
  <1>4. OneReindex'
    <2>1. running = 1
      BY DEF IndexInv, OneReindex
    <2>2. \A u \in Task : indexOp'[u].at # "idle" => u = t
      BY <1>1, <1>2
    <2> QED BY <2>1, <2>2 DEF OneReindex
  <1>5. OneRowPerObject'
    BY <1>1, <1>2 DEF OneRowPerObject, Single, Awaited
  <1>6. exact' = FALSE
    BY DEF IndexInv, IndexSound, IndexTypes
  <1>7. ASSUME NEW u \in Task, indexOp'[u].sound
        PROVE  indexOp'[u].at # "idle" /\ Undisturbed(indexOp'[u], indexRows')
    <2>1. CASE u = t
      BY <1>1, <1>7, <2>1
    <2>2. CASE u # t
      BY <1>1, <1>2, <1>7, <2>2 DEF IndexInv, IndexSound
    <2> QED BY <2>1, <2>2
  <1>8. Live' = Live /\ \A x : DefinitionOf(x)' = DefinitionOf(x) /\ RowOf(x)' = RowOf(x)
    BY DEF Live, DefinitionOf, RowOf
  <1>9. ASSUME NEW u \in Task, indexOp'[u].sound
        PROVE  indexOp'[u].at # "idle" /\ Undisturbed(indexOp[u], indexRows)'
    BY <1>7, <1>8, <1>9 DEF Undisturbed
  <1>10. IndexSound'
    BY <1>6, <1>9 DEF IndexSound
  <1> QED BY <1>3, <1>4, <1>5, <1>10 DEF IndexInv

\* An empty index, no reindex: whatever the catalog and the model.
LEMMA IndexInit == Index!Init => IndexInv
  <1> SUFFICES ASSUME Index!Init PROVE IndexInv
    OBVIOUS
  <1>1. (CHOOSE text \in Text : TRUE) \in Text /\ (CHOOSE m \in Model : TRUE) \in Model
    BY IndexAssumption
  <1>2. catalog \in [Object -> {CHOOSE text \in Text : TRUE, Index!NoText}]
    BY DEF Index!Init
  <1>3. /\ model = CHOOSE m \in Model : TRUE
        /\ running = 0 /\ indexRows = {} /\ exact = FALSE
        /\ indexOp = [t \in Task |-> Index!Idle]
    BY DEF Index!Init
  <1>4. Index!Idle \in IndexDoing /\ Index!Idle.at = "idle" /\ Index!Idle.sound = FALSE
    BY DEF Index!Idle, IndexDoing, Between
  <1>5. catalog \in [Object -> IndexText]
    BY <1>1, <1>2 DEF IndexText
  <1>6. IndexTypes
    BY <1>1, <1>3, <1>4, <1>5 DEF IndexTypes
  <1>7. OneReindex /\ OneRowPerObject /\ IndexSound
    BY <1>3, <1>4 DEF OneReindex, OneRowPerObject, Single, IndexSound
  <1> QED BY <1>6, <1>7 DEF IndexInv

\* The flag keeps a second reindex from starting.
LEMMA IndexStart ==
    ASSUME IndexInv, NEW t \in Task, Index!Start(t)
    PROVE  IndexInv'
  <1> DEFINE o == [at |-> "resolve", sound |-> TRUE]
  <1>1. o \in IndexDoing /\ o.at = "resolve"
    BY DEF IndexDoing, Between
  <1>2. /\ running = 0 /\ running' = running + 1 /\ exact' = FALSE
        /\ indexOp' = [indexOp EXCEPT ![t] = o]
        /\ UNCHANGED <<catalog, model, indexRows>>
    BY DEF Index!Start, Index!Admits, Index!Goes
  <1> HIDE DEF o
  <1>3. \A u \in Task : indexOp[u].at = "idle"
    BY <1>2 DEF IndexInv, OneReindex
  <1>4. /\ indexOp' \in [Task -> IndexDoing] /\ indexOp'[t] = o
        /\ \A u \in Task \ {t} : indexOp'[u] = indexOp[u]
    BY <1>1, <1>2 DEF IndexInv, IndexTypes
  <1>5. IndexTypes'
    BY <1>2, <1>4 DEF IndexInv, IndexTypes
  <1>6. OneReindex'
    BY <1>2, <1>3, <1>4 DEF OneReindex
  <1>7. OneRowPerObject'
    BY <1>1, <1>2, <1>3, <1>4 DEF IndexInv, OneRowPerObject
  <1>8. ASSUME NEW u \in Task, indexOp'[u].sound
        PROVE  indexOp'[u].at # "idle" /\ Undisturbed(indexOp[u], indexRows)'
    BY <1>1, <1>3, <1>4, <1>8 DEF IndexInv, IndexSound, Undisturbed
  <1>9. IndexSound'
    BY <1>2, <1>8 DEF IndexSound
  <1> QED BY <1>5, <1>6, <1>7, <1>9 DEF IndexInv

\* A reindex lists what the catalog has, or finds the connection gone.
LEMMA IndexResolve ==
    ASSUME IndexInv, NEW t \in Task, Index!Resolve(t)
    PROVE  IndexInv'
  <1>1. indexOp[t] \in IndexDoing /\ indexOp[t].at = "resolve" /\ indexOp[t].sound \in BOOLEAN
    BY IndexFields DEF Index!Resolve, Index!At, IndexInv, IndexTypes
  <1>2. /\ UNCHANGED <<catalog, model, running, indexRows, exact>>
        /\ indexRows' \subseteq IndexRow /\ Single(indexRows')
    BY DEF Index!Resolve, IndexInv, IndexTypes, OneRowPerObject
  <1>3. CASE registered
    <2> DEFINE o == [at |-> "fetch", sound |-> indexOp[t].sound, defs |-> {}, left |-> Live]
    <2>1. o \in Fetching
      BY <1>1 DEF Fetching, Live
    <2>2. o \in IndexDoing /\ o.at = "fetch" /\ o.left = Live /\ o.defs = {}
      BY <2>1 DEF IndexDoing
    <2>3. Index!Goes(t, o)
      BY <1>3 DEF Index!Resolve, Live
    <2> HIDE DEF o
    <2>4. Undisturbed(o, indexRows')
      BY <2>2 DEF Undisturbed
    <2> QED BY <1>1, <1>2, <2>2, <2>3, <2>4, IndexStep
  <1>4. CASE ~registered
    <2> DEFINE o == [at |-> "end", sound |-> FALSE]
    <2>1. o \in IndexDoing /\ o.at = "end" /\ o.sound = FALSE
      BY DEF IndexDoing, Between
    <2>2. Index!Goes(t, o)
      BY <1>4 DEF Index!Resolve
    <2> HIDE DEF o
    <2> QED BY <1>1, <1>2, <2>1, <2>2, IndexStep
  <1> QED BY <1>3, <1>4

\* One definition more, of an object there is.
LEMMA IndexFetch ==
    ASSUME IndexInv, NEW t \in Task, Index!Fetch(t)
    PROVE  IndexInv'
  <1> DEFINE r == indexOp[t]
  <1>1. r \in Fetching /\ r.at = "fetch"
    BY IndexFields DEF Index!Fetch, Index!At, IndexInv, IndexTypes
  <1>2. r.sound \in BOOLEAN /\ r.defs \subseteq IndexDefinition /\ r.left \subseteq Object
    BY <1>1 DEF Fetching
  <1>3. /\ UNCHANGED <<catalog, model, running, indexRows, exact>>
        /\ indexRows' \subseteq IndexRow /\ Single(indexRows')
    BY DEF Index!Fetch, IndexInv, IndexTypes, OneRowPerObject
  <1>4. PICK x \in r.left :
          Index!Goes(t, IF catalog[x] = Index!NoText
                        THEN [r EXCEPT !.left = r.left \ {x}, !.sound = FALSE]
                        ELSE [r EXCEPT !.left = r.left \ {x},
                                       !.defs = @ \cup {[object |-> x, text |-> catalog[x]]}])
    BY DEF Index!Fetch
  <1>5. CASE catalog[x] = Index!NoText
    <2> DEFINE o == [r EXCEPT !.left = r.left \ {x}, !.sound = FALSE]
    <2>1. o \in Fetching /\ o.at = "fetch" /\ o.sound = FALSE
      BY <1>1 DEF Fetching
    <2>2. o \in IndexDoing
      BY <2>1 DEF IndexDoing
    <2>3. Index!Goes(t, o)
      BY <1>4, <1>5
    <2> HIDE DEF o
    <2> QED BY <1>1, <1>3, <2>1, <2>2, <2>3, IndexStep
  <1>6. CASE catalog[x] # Index!NoText
    <2> DEFINE o == [r EXCEPT !.left = r.left \ {x}, !.defs = @ \cup {DefinitionOf(x)}]
    <2>1. x \in Object /\ catalog[x] \in IndexText
      BY <1>2 DEF IndexInv, IndexTypes
    <2>2. DefinitionOf(x) \in IndexDefinition
      BY <2>1 DEF DefinitionOf, IndexDefinition
    <2>3. o \in Fetching
      BY <1>1, <2>2 DEF Fetching
    <2>4. /\ o.at = "fetch" /\ o.sound = r.sound
          /\ o.left = r.left \ {x} /\ o.defs = r.defs \cup {DefinitionOf(x)}
      BY <1>1 DEF Fetching
    <2>5. o \in IndexDoing
      BY <2>3 DEF IndexDoing
    <2>6. Index!Goes(t, o)
      BY <1>4, <1>6 DEF DefinitionOf
    <2> HIDE DEF o
    <2>7. ASSUME o.sound PROVE Undisturbed(o, indexRows')
      <3>1. r.left \subseteq Live /\ r.defs = {DefinitionOf(y) : y \in Live \ r.left}
        BY <1>1, <2>4, <2>7 DEF IndexInv, IndexSound, Undisturbed
      <3>2. o.defs = {DefinitionOf(y) : y \in Live \ o.left}
        BY <2>4, <3>1
      <3> QED BY <2>4, <3>1, <3>2 DEF Undisturbed
    <2> QED BY <1>1, <1>3, <2>4, <2>5, <2>6, <2>7, IndexStep
  <1> QED BY <1>5, <1>6

\* What is stored under the model as it was fetched need not be embedded again.
LEMMA IndexCompare ==
    ASSUME IndexInv, NEW t \in Task, Index!Compare(t)
    PROVE  IndexInv'
  <1> DEFINE r == indexOp[t]
             kept == Index!Unchanged(r.defs)
             o == [at |-> "delete", sound |-> r.sound, model |-> model,
                   todo |-> r.defs \ kept, d |-> Index!None,
                   seen |-> {d.object : d \in r.defs}]
  <1>1. r \in Fetching /\ r.at = "fetch" /\ r.left = {}
    BY IndexFields DEF Index!Compare, Index!At, IndexInv, IndexTypes
  <1>2. r.sound \in BOOLEAN /\ r.defs \subseteq IndexDefinition
    BY <1>1 DEF Fetching
  <1>3. /\ UNCHANGED <<catalog, model, running, indexRows, exact>>
        /\ indexRows' \subseteq IndexRow /\ Single(indexRows')
    BY DEF Index!Compare, IndexInv, IndexTypes, OneRowPerObject
  <1>4. {d.object : d \in r.defs} \subseteq Object
    BY <1>2 DEF IndexDefinition
  <1>5. o \in Storing
    BY <1>2, <1>4 DEF Storing, IndexInv, IndexTypes
  <1>6. /\ o \in IndexDoing /\ o.at = "delete" /\ o.sound = r.sound /\ o.model = model
        /\ o.todo = r.defs \ kept /\ o.seen = {d.object : d \in r.defs}
    BY <1>5 DEF IndexDoing
  <1>7. Index!Goes(t, o)
    BY DEF Index!Compare
  <1> HIDE DEF o, kept
  <1>8. ASSUME o.sound PROVE Undisturbed(o, indexRows')
    <2>1. r.defs = {DefinitionOf(x) : x \in Live}
      <3>1. Undisturbed(r, indexRows)
        BY <1>6, <1>8 DEF IndexInv, IndexSound
      <3> QED BY <1>1, <3>1 DEF Undisturbed
    <2>2. o.seen = Live
      <3>1. \A x \in Live : DefinitionOf(x) \in r.defs /\ DefinitionOf(x).object = x
        BY <2>1 DEF DefinitionOf
      <3>2. \A d \in r.defs : d.object \in Live
        BY <2>1 DEF DefinitionOf
      <3>3. Live \subseteq o.seen
        BY <1>6, <3>1
      <3>4. o.seen \subseteq Live
        BY <1>6, <3>2
      <3> QED BY <3>3, <3>4
    <2>3. ASSUME NEW x \in Live, DefinitionOf(x) \notin o.todo
          PROVE  RowOf(x) \in indexRows
      <3>1. DefinitionOf(x) \in kept
        BY <1>6, <2>1, <2>3
      <3>2. PICK row \in indexRows : /\ row.object = DefinitionOf(x).object
                                     /\ row.text = DefinitionOf(x).text /\ row.model = model
        BY <3>1 DEF kept, Index!Unchanged
      <3>3. row \in IndexRow
        BY DEF IndexInv, IndexTypes
      <3>4. row = RowOf(x)
        BY <3>2, <3>3 DEF IndexRow, RowOf, DefinitionOf
      <3> QED BY <3>4
    <2>4. o.todo \subseteq {DefinitionOf(x) : x \in Live}
      BY <1>6, <2>1
    <2> QED BY <1>3, <1>6, <2>2, <2>3, <2>4 DEF Undisturbed
  <1> QED BY <1>1, <1>3, <1>6, <1>7, <1>8, IndexStep

\* The old row of an object goes; the new one is to come.
LEMMA IndexDelete ==
    ASSUME IndexInv, NEW t \in Task, Index!Delete(t)
    PROVE  IndexInv'
  <1> DEFINE r == indexOp[t]
  <1>1. r \in Storing /\ r.at = "delete"
    BY IndexFields DEF Index!Delete, Index!At, IndexInv, IndexTypes
  <1>2. PICK d \in r.todo :
          /\ indexRows' = {row \in indexRows : row.object # d.object}
          /\ Index!Goes(t, [r EXCEPT !.at = "insert", !.todo = @ \ {d}, !.d = d])
    BY DEF Index!Delete
  <1>3. d \in IndexDefinition
    BY <1>1, <1>2 DEF Storing
  <1> DEFINE o == [r EXCEPT !.at = "insert", !.todo = @ \ {d}, !.d = d]
  <1>4. o \in Storing
    BY <1>1, <1>3 DEF Storing
  <1>5. /\ o.at = "insert" /\ o.sound = r.sound /\ o.model = r.model /\ o.seen = r.seen
        /\ o.todo = r.todo \ {d} /\ o.d = d
    BY <1>1 DEF Storing
  <1>6. o \in IndexDoing
    BY <1>4 DEF IndexDoing
  <1>7. Index!Goes(t, o)
    BY <1>2
  <1> HIDE DEF o
  <1>8. UNCHANGED <<catalog, model, running, exact>>
    BY DEF Index!Delete
  <1>9. /\ indexRows' \subseteq IndexRow /\ Single(indexRows') /\ Awaited(o.d, indexRows')
    BY <1>2, <1>3, <1>5 DEF IndexInv, IndexTypes, OneRowPerObject, Single, Awaited
  <1>10. ASSUME o.sound PROVE Undisturbed(o, indexRows')
    <2>1. /\ r.model = model /\ r.seen = Live
          /\ r.todo \subseteq {DefinitionOf(x) : x \in Live}
          /\ \A x \in Live : DefinitionOf(x) \in r.todo \/ RowOf(x) \in indexRows
      BY <1>1, <1>5, <1>10 DEF IndexInv, IndexSound, Undisturbed
    <2>2. PICK y \in Live : d = DefinitionOf(y)
      BY <1>2, <2>1
    <2>3. ASSUME NEW x \in Live
          PROVE  \/ DefinitionOf(x) \in o.todo \/ o.d = DefinitionOf(x)
                 \/ RowOf(x) \in indexRows'
      <3>1. CASE x = y
        BY <1>5, <2>2, <3>1
      <3>2. CASE x # y
        <4>1. RowOf(x).object # d.object /\ DefinitionOf(x) # d
          BY <2>2, <3>2 DEF RowOf, DefinitionOf
        <4> QED BY <1>2, <1>5, <2>1, <4>1
      <3> QED BY <3>1, <3>2
    <2>4. o.d \in {DefinitionOf(x) : x \in Live}
      BY <1>5, <2>2
    <2> QED BY <1>5, <2>1, <2>3, <2>4 DEF Undisturbed
  <1> QED BY <1>1, <1>5, <1>6, <1>7, <1>8, <1>9, <1>10, IndexStep

\* The new row comes.
LEMMA IndexInsert ==
    ASSUME IndexInv, NEW t \in Task, Index!Insert(t)
    PROVE  IndexInv'
  <1> DEFINE r == indexOp[t]
             new == [object |-> r.d.object, text |-> r.d.text, model |-> r.model]
             o == [r EXCEPT !.at = "delete", !.d = Index!None]
  <1>1. r \in Storing /\ r.at = "insert"
    BY IndexFields DEF Index!Insert, Index!At, IndexInv, IndexTypes
  <1>2. r.d \in IndexDefinition /\ r.model \in Model
    BY <1>1 DEF Storing, IndexInv, OneRowPerObject, Awaited
  <1>3. o \in Storing
    BY <1>1 DEF Storing
  <1>4. /\ o.at = "delete" /\ o.sound = r.sound /\ o.model = r.model /\ o.seen = r.seen
        /\ o.todo = r.todo
    BY <1>1 DEF Storing
  <1>5. o \in IndexDoing
    BY <1>3 DEF IndexDoing
  <1>6. /\ Index!Goes(t, o) /\ indexRows' = indexRows \cup {new}
        /\ UNCHANGED <<catalog, model, running, exact>>
    BY DEF Index!Insert
  <1>7. new \in IndexRow /\ new.object = r.d.object
    BY <1>2 DEF IndexRow, IndexDefinition
  <1>8. \A row \in indexRows : row.object # r.d.object
    BY <1>1 DEF IndexInv, OneRowPerObject, Awaited
  <1> HIDE DEF o
  <1>9. ASSUME o.sound PROVE Undisturbed(o, indexRows')
    <2>1. /\ r.model = model /\ r.seen = Live
          /\ r.todo \subseteq {DefinitionOf(x) : x \in Live}
          /\ \A x \in Live : \/ DefinitionOf(x) \in r.todo \/ r.d = DefinitionOf(x)
                             \/ RowOf(x) \in indexRows
      BY <1>1, <1>4, <1>9 DEF IndexInv, IndexSound, Undisturbed
    <2>2. ASSUME NEW x \in Live
          PROVE  DefinitionOf(x) \in o.todo \/ RowOf(x) \in indexRows'
      <3>1. CASE r.d = DefinitionOf(x)
        <4>1. new = RowOf(x)
          BY <2>1, <3>1 DEF DefinitionOf, RowOf
        <4> QED BY <1>6, <4>1
      <3>2. CASE r.d # DefinitionOf(x)
        BY <1>4, <1>6, <2>1, <3>2
      <3> QED BY <3>1, <3>2
    <2> QED BY <1>4, <2>1, <2>2 DEF Undisturbed
  <1> HIDE DEF new
  <1>10. indexRows' \subseteq IndexRow /\ Single(indexRows')
    BY <1>6, <1>7, <1>8 DEF IndexInv, IndexTypes, OneRowPerObject, Single
  <1> QED BY <1>1, <1>4, <1>5, <1>6, <1>9, <1>10, IndexStep

\* A failure is reported: the reindex is no longer sound.
LEMMA IndexFail ==
    ASSUME IndexInv, NEW t \in Task, Index!Fail(t)
    PROVE  IndexInv'
  <1> DEFINE r == indexOp[t]
  <1>1. r \in Storing /\ r.at \in {"delete", "insert"}
    BY IndexFields DEF Index!Fail, Index!At, IndexInv, IndexTypes
  <1>2. /\ UNCHANGED <<catalog, model, running, indexRows, exact>>
        /\ indexRows' \subseteq IndexRow /\ Single(indexRows')
    BY DEF Index!Fail, IndexInv, IndexTypes, OneRowPerObject
  <1>3. CASE Index!Goes(t, [r EXCEPT !.at = "delete", !.d = Index!None, !.sound = FALSE])
    <2> DEFINE o == [r EXCEPT !.at = "delete", !.d = Index!None, !.sound = FALSE]
    <2>1. o \in Storing /\ o.at = "delete" /\ o.sound = FALSE
      BY <1>1 DEF Storing
    <2>2. o \in IndexDoing
      BY <2>1 DEF IndexDoing
    <2> HIDE DEF o
    <2>3. Index!Goes(t, o)
      BY <1>3 DEF o
    <2> QED BY <1>1, <1>2, <2>1, <2>2, <2>3, IndexStep
  <1>4. ASSUME NEW d \in r.todo, r.at = "delete",
               Index!Goes(t, [r EXCEPT !.todo = @ \ {d}, !.sound = FALSE])
        PROVE  IndexInv'
    <2> DEFINE o == [r EXCEPT !.todo = @ \ {d}, !.sound = FALSE]
    <2>1. o \in Storing
      BY <1>1 DEF Storing
    <2>2. o.at = "delete" /\ o.sound = FALSE
      BY <1>1, <1>4 DEF Storing
    <2>3. o \in IndexDoing
      BY <2>1 DEF IndexDoing
    <2> HIDE DEF o
    <2>4. Index!Goes(t, o)
      BY <1>4 DEF o
    <2> QED BY <1>1, <1>2, <2>2, <2>3, <2>4, IndexStep
  <1> QED BY <1>3, <1>4 DEF Index!Fail, Index!At

\* Without a row of what is gone the rows are those of what there is.
LEMMA IndexPrune ==
    ASSUME IndexInv, NEW t \in Task, Index!Prune(t)
    PROVE  IndexInv'
  <1> DEFINE r == indexOp[t]
             stale == {row \in indexRows : row.object \notin r.seen}
  <1>1. r \in Storing /\ r.at = "delete" /\ r.todo = {} /\ r.sound \in BOOLEAN
    BY IndexFields DEF Index!Prune, Index!At, IndexInv, IndexTypes
  <1>2. PICK kept \in SUBSET stale :
          /\ indexRows' = (indexRows \ stale) \cup kept
          /\ Index!Goes(t, [at |-> "end", sound |-> r.sound /\ kept = {}])
    BY DEF Index!Prune
  <1> DEFINE o == [at |-> "end", sound |-> r.sound /\ kept = {}]
  <1>3. (r.sound /\ kept = {}) \in BOOLEAN
    BY <1>1
  <1>4. o \in Between
    BY <1>3 DEF Between
  <1>5. o \in IndexDoing /\ o.at = "end" /\ (o.sound => r.sound /\ kept = {})
    BY <1>4 DEF IndexDoing
  <1>6. Index!Goes(t, o) /\ UNCHANGED <<catalog, model, running, exact>>
    BY <1>2 DEF Index!Prune
  <1> HIDE DEF o
  <1>7. indexRows' \subseteq indexRows
    BY <1>2
  <1>8. indexRows' \subseteq IndexRow /\ Single(indexRows')
    BY <1>7 DEF IndexInv, IndexTypes, OneRowPerObject, Single
  <1>9. ASSUME o.sound PROVE Undisturbed(o, indexRows')
    <2>1. r.sound /\ indexRows' = indexRows \ stale
      BY <1>2, <1>5, <1>9
    <2>2. r.seen = Live /\ \A x \in Live : RowOf(x) \in indexRows
      BY <1>1, <2>1 DEF IndexInv, IndexSound, Undisturbed
    <2>3. \A x : RowOf(x).object = x
      BY DEF RowOf
    <2>4. {RowOf(x) : x \in Live} \subseteq indexRows'
      BY <2>1, <2>2, <2>3
    <2>5. ASSUME NEW row \in indexRows'
          PROVE  row \in {RowOf(x) : x \in Live}
      <3>1. row.object \in Live /\ row \in indexRows
        BY <2>1, <2>2
      <3>2. row = RowOf(row.object)
        BY <2>2, <2>3, <3>1 DEF IndexInv, OneRowPerObject, Single
      <3> QED BY <3>1, <3>2
    <2>6. indexRows' = {RowOf(x) : x \in Live}
      BY <2>4, <2>5
    <2> QED BY <1>5, <2>6 DEF Undisturbed
  <1> QED BY <1>1, <1>5, <1>6, <1>8, <1>9, IndexStep

\* The reindex that ends was the only one; what it left is exact if it was sound.
LEMMA IndexEnd ==
    ASSUME IndexInv, NEW t \in Task, Index!End(t)
    PROVE  IndexInv'
  <1>1. /\ indexOp[t] \in IndexDoing /\ indexOp[t].at = "end" /\ indexOp[t].sound \in BOOLEAN
    BY IndexFields DEF Index!End, Index!At, IndexInv, IndexTypes
  <1>2. /\ running' = running - 1 /\ exact' = indexOp[t].sound
        /\ indexOp' = [indexOp EXCEPT ![t] = Index!Idle]
        /\ UNCHANGED <<catalog, model, indexRows>>
    BY DEF Index!End, Index!Goes
  <1>3. Index!Idle \in IndexDoing /\ Index!Idle.at = "idle" /\ Index!Idle.sound = FALSE
    BY DEF Index!Idle, IndexDoing, Between
  <1>4. running = 1 /\ \A u \in Task \ {t} : indexOp[u].at = "idle"
    BY <1>1 DEF IndexInv, OneReindex
  <1>5. indexOp' \in [Task -> IndexDoing] /\ \A u \in Task : indexOp'[u].at = "idle"
    BY <1>2, <1>3, <1>4 DEF IndexInv, IndexTypes
  <1>6. \A u \in Task : indexOp'[u].sound = FALSE
    <2>1. \A u \in Task \ {t} : indexOp[u].sound = FALSE
      BY <1>4, IndexFields DEF IndexInv, IndexTypes, IndexSound
    <2> QED BY <1>2, <1>3, <2>1 DEF IndexInv, IndexTypes
  <1>7. IndexTypes'
    BY <1>1, <1>2, <1>5 DEF IndexInv, IndexTypes
  <1>8. OneReindex'
    BY <1>2, <1>4, <1>5 DEF OneReindex
  <1>9. OneRowPerObject'
    BY <1>2, <1>5 DEF IndexInv, OneRowPerObject
  <1>10. indexOp[t].sound => indexRows = {RowOf(x) : x \in Live}
    BY <1>1 DEF IndexInv, IndexSound, Undisturbed
  <1>11. exact' => (indexRows = {RowOf(x) : x \in Live})'
    BY <1>2, <1>10 DEF RowOf, Live
  <1>12. IndexSound'
    BY <1>5, <1>6, <1>11 DEF IndexSound
  <1> QED BY <1>7, <1>8, <1>9, <1>12 DEF IndexInv

\* Every step keeps the invariant.
LEMMA IndexNext == IndexInv /\ [Index!Next]_(Index!vars) => IndexInv'
  <1> SUFFICES ASSUME IndexInv, [Index!Next]_(Index!vars) PROVE IndexInv'
    OBVIOUS
  <1>1. ASSUME NEW t \in Task,
               \/ Index!Start(t) \/ Index!Resolve(t) \/ Index!Fetch(t) \/ Index!Compare(t)
               \/ Index!Delete(t) \/ Index!Insert(t) \/ Index!Fail(t) \/ Index!Prune(t)
               \/ Index!End(t)
        PROVE  IndexInv'
    BY <1>1, IndexStart, IndexResolve, IndexFetch, IndexCompare, IndexDelete, IndexInsert,
       IndexFail, IndexPrune, IndexEnd
  <1>2. catalog \in [Object -> IndexText] /\ model \in Model
    BY DEF IndexInv, IndexTypes
  <1>3. ASSUME NEW o \in Object, NEW text \in Text \cup {Index!NoText}, Index!Alter(o, text)
        PROVE  IndexInv'
    <2>1. catalog' \in [Object -> IndexText]
      BY <1>2, <1>3 DEF Index!Alter, IndexText
    <2> QED BY <1>2, <1>3, <2>1, IndexDisturbed DEF Index!Alter, Index!Changes
  <1>4. ASSUME NEW m \in Model, Index!ChangeModel(m) PROVE IndexInv'
    BY <1>2, <1>4, IndexDisturbed DEF Index!ChangeModel, Index!Changes
  <1>5. CASE Index!Register
    BY <1>2, <1>5, IndexDisturbed DEF Index!Register, Index!Changes
  <1>6. CASE Index!Forget
    BY <1>2, <1>6, IndexDisturbed DEF Index!Forget, Index!Changes
  <1>7. CASE UNCHANGED Index!vars
    BY <1>7 DEF Index!vars, IndexInv, IndexTypes, OneReindex, OneRowPerObject, IndexSound,
                Undisturbed, Live, DefinitionOf, RowOf
  <1> QED BY <1>1, <1>3, <1>4, <1>5, <1>6, <1>7 DEF Index!Next

\* After a reindex in which nothing failed or changed, the index holds exactly one row of
\* every object of the catalog, under the present model, whatever was in it before
\* (applyLogicIndex): for any number of reindexes, objects, texts and models.
THEOREM IndexIsExact == Index!Spec => []IndexExact
  <1>1. IndexInv => IndexExact
    BY DEF IndexInv, IndexSound, RowOf, Live, IndexExact, Index!IndexExact
  <1> QED BY <1>1, IndexInit, IndexNext, PTL DEF Index!Spec
===============================================================================
