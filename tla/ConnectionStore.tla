-------------------------- MODULE ConnectionStore --------------------------
(***************************************************************************)
(* The admin handlers that write the registry's shared connections to the  *)
(* settings table ("Save for everyone", "Forget", "Make default"), and the *)
(* startup that reads them back.                                           *)
(*                                                                         *)
(* The handlers compose ConnectionManager methods, each atomic, with       *)
(* saveManagedConnections, which reads StoredConfigs and then deletes and  *)
(* re-inserts the settings row in two statements.  No lock spans them, so  *)
(* the requests of two admins interleave at every arrow of the handler.    *)
(***************************************************************************)
EXTENDS Connections

CONSTANTS
    Admin,         \* admin requests that may be in flight at once
    EnvIDs,        \* connections discoverEnvironmentConnections finds
    Rank,          \* the order StoredConfigs sorts IDs in, and startup opens them
    SaveMayFail,   \* the storage modes in which a settings statement may fail
    OpenMayFail,   \* those in which a database may be unreachable at startup
    MayCrash,      \* may the process die with requests in flight?
    StorageModes   \* TRUE for the modes that write statements as they are executed
                   \* (disk), FALSE for those that write when the process stops

ASSUME StoreAssumption ==
    /\ EnvIDs \subseteq ConnID \ {DefaultID}
    /\ Rank \in [ConnID -> Nat]
    /\ \A x, y \in ConnID : Rank[x] = Rank[y] => x = y
    /\ SaveMayFail \cup OpenMayFail \cup StorageModes \cup {MayCrash} \subseteq BOOLEAN

VARIABLES
    stored,     \* the values of the rows under managedConnectionsSettingKey
    starting,   \* the statement of startup's own save that comes next, or "no"
    op,         \* op[a]: the admin request a, at the step named by its pc
    promised,   \* history: IDs reported saved, and not asked to be forgotten
    forgotten,  \* history: IDs reported forgotten, and not saved again
    degraded,   \* history: has a save failed, a startup been partial or a crash cut a
                \* request short: "now", until the next save, then "before"
    snapshot,   \* stored, promised and forgotten when the process last stopped
                \* cleanly: what a crash leaves in memory mode
    writeThrough  \* the storage mode

storeVars ==
    <<stored, starting, op, promised, forgotten, degraded, snapshot, writeThrough>>
vars == <<connVars, storeVars>>

Config == [id : ConnID, default : BOOLEAN]

Idle == [kind |-> "none", id |-> DefaultID, pc |-> "idle", value |-> {}]

IDs(value) == {c.id : c \in value}

\* loadSetting returns the first matching row.
FirstIDs(rows) == IF rows = << >> THEN {} ELSE IDs(rows[1])

StoredIDs == FirstIDs(stored)

StoredConfigs ==
    {[id |-> id, default |-> id = defaultID] :
        id \in {x \in persisted : Registered(x) /\ x # DefaultID}}

At(a, pc) == op[a].pc = pc

Goto(a, pc) == op' = [op EXCEPT ![a].pc = pc]

Done(a) == op' = [op EXCEPT ![a] = Idle]

Begin(a, kind, id, pc) ==
    op' = [op EXCEPT ![a] = [kind |-> kind, id |-> id, pc |-> pc, value |-> {}]]

\* A request to save id has overtaken the one to forget it.
Resaved(id) ==
    id \in promised \/ \E b \in Admin : op[b].kind = "persist" /\ op[b].id = id

Quiet == starting = "no" /\ \A a \in Admin : At(a, "idle")

\* Some save has deleted the row and not inserted it again.
MidSave == starting = "insert" \/ \E a \in Admin : At(a, "insert")

----------------------------------------------------------------------------
(* adminPersistConnectionHandler: check, mark, save, or unmark again *)

PersistCheck(a, id) ==
    /\ At(a, "idle")
    /\ Registered(id)
    /\ Begin(a, "persist", id, "mark")
    /\ forgotten' = forgotten \ {id}
    /\ UNCHANGED <<connVars, stored, promised, degraded, snapshot, writeThrough>>

PersistMark(a) ==
    /\ At(a, "mark")
    /\ IF Registered(op[a].id) THEN MarkPersisted(op[a].id) ELSE UNCHANGED connVars
    /\ Goto(a, "read")
    /\ UNCHANGED <<stored, promised, forgotten, degraded, snapshot, writeThrough>>

PersistUndo(a) ==
    /\ At(a, "undo")
    /\ UnmarkPersisted(op[a].id)
    /\ Done(a)
    /\ UNCHANGED <<stored, promised, forgotten, degraded, snapshot, writeThrough>>

(* adminForgetConnectionHandler: unmark, save, and only then remove *)

ForgetStillMarked(a, id) ==
    /\ At(a, "idle")
    /\ Begin(a, "forget", id, "read")
    /\ promised' = promised \ {id}
    /\ UNCHANGED <<connVars, stored, forgotten, degraded, snapshot, writeThrough>>

ForgetUnmark(a, id) ==
    /\ At(a, "idle")
    /\ UnmarkPersisted(id)
    /\ Begin(a, "forget", id, "read")
    /\ promised' = promised \ {id}
    /\ UNCHANGED <<stored, forgotten, degraded, snapshot, writeThrough>>

ForgetRemove(a) ==
    /\ At(a, "remove")
    /\ \/ /\ Remove(op[a].id)
          /\ forgotten' = IF Resaved(op[a].id) THEN forgotten
                          ELSE forgotten \cup {op[a].id}
       \/ /\ op[a].id = DefaultID \/ ~Registered(op[a].id)
          /\ UNCHANGED <<connVars, forgotten>>
    /\ Done(a)
    /\ UNCHANGED <<stored, promised, degraded, snapshot, writeThrough>>

(* adminSetDefaultConnectionHandler: set, then save *)

DefaultSet(a, id) ==
    /\ At(a, "idle")
    /\ SetDefault(id)
    /\ Begin(a, "default", id, "read")
    /\ UNCHANGED <<stored, promised, forgotten, degraded, snapshot, writeThrough>>

(* saveManagedConnections, called by all three *)

ReadConfigs(a) ==
    /\ At(a, "read")
    /\ op' = [op EXCEPT ![a].value = StoredConfigs, ![a].pc = "delete"]
    /\ UNCHANGED <<connVars, stored, promised, forgotten, degraded, snapshot, writeThrough>>

SaveDelete(a) ==
    /\ At(a, "delete")
    /\ stored' = << >>
    /\ Goto(a, "insert")
    /\ UNCHANGED <<connVars, promised, forgotten, degraded, snapshot, writeThrough>>

SaveInsert(a) ==
    /\ At(a, "insert")
    /\ stored' = Append(stored, op[a].value)
    /\ degraded' = IF degraded = "now" THEN "before" ELSE degraded
    /\ IF op[a].kind = "forget" THEN Goto(a, "remove") ELSE Done(a)
    /\ promised' = IF op[a].kind = "persist" /\ op[a].id \in IDs(op[a].value)
                   THEN promised \cup {op[a].id} ELSE promised
    /\ UNCHANGED <<connVars, forgotten, snapshot, writeThrough>>

SaveFail(a) ==
    /\ writeThrough \in SaveMayFail
    /\ op[a].pc \in {"delete", "insert"}
    /\ degraded' = "now"
    /\ IF op[a].kind = "persist" THEN Goto(a, "undo") ELSE Done(a)
    /\ UNCHANGED <<connVars, stored, promised, forgotten, snapshot, writeThrough>>

----------------------------------------------------------------------------
(* Startup: loadManagedConnections, then autoDetectManagedConnections.      *)
(* openManagedConnectionConfigs gives up at the first database that cannot  *)
(* be opened; unless that was a discovered one, a server with discovered    *)
(* connections then saves, in two statements, before it serves a request.   *)

\* The IDs opened before the unreachable one (None: all could be opened).
OpenedBefore(ids, bad) ==
    IF bad \in ids THEN {id \in ids : Rank[id] < Rank[bad]} ELSE ids

RebootUnmarked(ids, d) ==
    /\ \E f \in Injections(ids) : conns' = BootConns(ids, f) /\ conn' = BootConn(ids, f)
    /\ active' = d /\ defaultID' = d
    /\ activeBySession' = NoChoice /\ adding' = NoneAdding
    /\ persisted' = {} /\ overwritten' = {}

Reboot(ids, d) ==
    /\ \E f \in Injections(ids) : conns' = BootConns(ids, f) /\ conn' = BootConn(ids, f)
    /\ active' = d /\ defaultID' = d
    /\ activeBySession' = NoChoice /\ adding' = NoneAdding
    /\ persisted' = ids /\ overwritten' = {}

\* troubled: did the process stop between the two statements of a save?
StartFrom(rows, troubled) ==
    \E bad \in (IF writeThrough \in OpenMayFail THEN FirstIDs(rows) \cup EnvIDs ELSE {}) \cup {None} :
       LET loaded == OpenedBefore(FirstIDs(rows), bad)
           found == OpenedBefore(EnvIDs \ loaded, bad)
           ids == loaded \cup found
           d == IF \E c \in loaded : [id |-> c, default |-> TRUE] \in rows[1]
                THEN CHOOSE c \in loaded : [id |-> c, default |-> TRUE] \in rows[1]
                ELSE DefaultID
       IN  /\ Reboot(ids, d)
           /\ stored' = rows
           /\ starting' = IF EnvIDs # {} /\ bad \notin EnvIDs \ loaded
                          THEN "delete" ELSE "no"
           /\ degraded' = IF bad # None THEN "now"
                          ELSE IF troubled /\ degraded = "never" THEN "before" ELSE degraded
           /\ op' = [a \in Admin |-> Idle]

StartupDelete ==
    /\ starting = "delete"
    /\ stored' = << >>
    /\ starting' = "insert"
    /\ UNCHANGED <<connVars, op, promised, forgotten, degraded, snapshot, writeThrough>>

StartupInsert ==
    /\ starting = "insert"
    /\ stored' = Append(stored, StoredConfigs)
    /\ starting' = "no"
    /\ degraded' = IF degraded = "now" THEN "before" ELSE degraded
    /\ UNCHANGED <<connVars, op, promised, forgotten, snapshot, writeThrough>>

\* Either statement fails, or the startup's deadline passes; it is logged only.
StartupFail ==
    /\ starting # "no"
    /\ writeThrough \in SaveMayFail
    /\ starting' = "no"
    /\ degraded' = "now"
    /\ UNCHANGED <<connVars, stored, op, promised, forgotten, snapshot, writeThrough>>

\* The server drains its requests, and closing the database writes it out.
Restart ==
    /\ Quiet
    /\ StartFrom(stored, FALSE)
    /\ forgotten' = forgotten \ EnvIDs
    /\ promised' = promised
    /\ snapshot' = IF writeThrough THEN snapshot
                   ELSE [rows |-> stored, promised |-> promised, forgotten |-> forgotten]
    /\ UNCHANGED writeThrough

Crash ==
    /\ MayCrash
    /\ \/ /\ writeThrough
          /\ StartFrom(stored, MidSave)
          /\ promised' = promised
          /\ forgotten' = forgotten \ EnvIDs
       \/ /\ ~writeThrough
          /\ StartFrom(snapshot.rows, FALSE)
          /\ promised' = snapshot.promised
          /\ forgotten' = snapshot.forgotten \ EnvIDs
    /\ UNCHANGED <<snapshot, writeThrough>>

----------------------------------------------------------------------------
NothingStored ==
    /\ stored = << >>
    /\ starting = "no"
    /\ op = [a \in Admin |-> Idle]
    /\ promised = {}
    /\ forgotten = {}
    /\ writeThrough \in StorageModes
    /\ snapshot = [rows |-> << >>, promised |-> {}, forgotten |-> {}]

StoreInit == Booted({}, DefaultID) /\ NothingStored /\ degraded = "never"

AdminStep(a) ==
    \/ \E id \in ConnID : PersistCheck(a, id) \/ ForgetUnmark(a, id) \/ DefaultSet(a, id)
    \/ PersistMark(a) \/ PersistUndo(a) \/ ForgetRemove(a)
    \/ ReadConfigs(a) \/ SaveDelete(a) \/ SaveInsert(a) \/ SaveFail(a)

StoreNext ==
    \/ \E a \in Admin : starting = "no" /\ AdminStep(a) /\ UNCHANGED starting
    \/ starting = "no" /\ SessionNext /\ UNCHANGED storeVars
    \/ StartupDelete \/ StartupInsert \/ StartupFail
    \/ Restart \/ Crash

StoreSpec == StoreInit /\ [][StoreNext]_vars

----------------------------------------------------------------------------
(* Safety *)

\* Between requests the stored row says exactly what a save would write now:
\* the persisted IDs and which of them is the default. A failed save, or a
\* startup that could not open everything, is made good by the next save.
StoredInSync ==
    Quiet /\ degraded # "now" =>
        \/ stored = <<StoredConfigs>>
        \/ stored = << >> /\ StoredConfigs = {}

\* A connection an admin was told is saved for everyone is stored at every moment
\* but between the two statements of a save, through any number of restarts and
\* crashes, until someone asks to forget it ("survive a restart",
\* templates/connections.html:39), as long as no save fails or is cut short
\* between its statements and every stored database can be opened at startup.
SavedSurvives == degraded = "never" /\ ~MidSave => promised \subseteq StoredIDs

\* A connection an admin was told is forgotten is gone from the stored settings
\* ("deletes it from the server's stored settings", templates/connections.html:68).
ForgottenStaysGone == Quiet => forgotten \cap StoredIDs = {}

=============================================================================
