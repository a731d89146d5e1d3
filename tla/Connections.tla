---------------------------- MODULE Connections ----------------------------
(***************************************************************************)
(* The ConnectionManager of connections.go: the registry of named database *)
(* connections shared by every browser session of one DataDock process,    *)
(* together with the session-level handlers that call it.                  *)
(*                                                                         *)
(* Every method takes m.mu for its whole body, so each is one action.  A   *)
(* *DBConnection is an object with identity: its Owner field is mutated in *)
(* place, a registry entry can be replaced by another object under the     *)
(* same ID, and replaced or removed objects have their *sql.DB closed.     *)
(***************************************************************************)
EXTENDS Naturals, Sequences

CONSTANTS
    Session,      \* session IDs a browser cookie may carry
    ConnID,       \* connection IDs, as sanitized by sanitizeConnectionID
    DefaultID,    \* defaultConnectionID, the built-in tinySQL connection
    Obj,          \* the *DBConnection objects the process may allocate
    BuiltIn,      \* the object NewConnectionManager is given
    None,         \* a nil pointer, or an absent map entry
    Shared,       \* the empty Owner
    Candidates    \* Candidates[s][id]: id-suffix, id-suffix-2, ... tried for s

Owner == Session \cup {Shared}

ASSUME ConnectionsAssumption ==
    /\ DefaultID \in ConnID
    /\ BuiltIn \in Obj
    /\ None \notin ConnID
    /\ None \notin Obj
    /\ Shared \notin Session
    /\ Candidates \in [Session -> [ConnID -> Seq(ConnID)]]

VARIABLES
    conns,            \* conns[id]: the object registered under id, or None
    conn,             \* conn[o]: the fields of object o
    active,           \* m.active, what a session without a choice falls back to
    defaultID,        \* m.defaultID
    activeBySession,  \* activeBySession[s]: the ID session s chose, or None
    persisted,        \* the IDs with persisted[id] = true
    adding,           \* adding[s]: where s's addConnectionHandler stands
    overwritten       \* history: the IDs under which a session's private
                      \* connection has replaced a shared one

connVars ==
    <<conns, conn, active, defaultID, activeBySession, persisted, adding, overwritten>>

\* "opening": the submitted DSN is being opened; "added": Add has returned, and
\* SetActiveFor has not been called.
Adding == [at : {"idle", "opening", "added"}, id : ConnID]

NotAdding == [at |-> "idle", id |-> DefaultID]

Fields == [id : ConnID, owner : Owner, open : BOOLEAN]

\* The fields of an object nobody reads any more, or not allocated yet.
Dropped == [id |-> DefaultID, owner |-> Shared, open |-> FALSE]

----------------------------------------------------------------------------
(* Lookups *)

Registered(id) == conns[id] # None

VisibleTo(s, o) == conn[o].owner \in {Shared, s}

ResolvesAnyOwner(s, id) == Registered(id)

\* GetFor: nil for a connection another session owns.
Resolves(s, id) == Registered(id) /\ VisibleTo(s, conns[id])

\* The connection a request of session s runs on: the session's choice while it
\* is registered, or the fallback.
ActiveIDFor(s) ==
    IF activeBySession[s] # None /\ Registered(activeBySession[s])
    THEN activeBySession[s]
    ELSE active

ActiveFor(s) == conns[ActiveIDFor(s)]

\* An object the process has not allocated yet, or has closed and dropped.
Fresh(o) == ~conn[o].open /\ \A id \in ConnID : conns[id] # o

FreeForEveryone(s, id) == TRUE

\* disambiguateIDLocked looks for an ID that is unused or visible to s.
FreeFor(s, id) == Registered(id) => VisibleTo(s, conns[id])

IsDisambiguated(s, typed, id) ==
    \/ FreeFor(s, typed) /\ id = typed
    \/ /\ ~FreeFor(s, typed)
       /\ \E i \in DOMAIN Candidates[s][typed] :
             /\ id = Candidates[s][typed][i]
             /\ FreeFor(s, id)
             /\ \A j \in 1 .. (i - 1) : ~FreeFor(s, Candidates[s][typed][j])

----------------------------------------------------------------------------
(* Methods of ConnectionManager.  A definition whose name says what it leaves *)
(* out (AddLeaksOld, RemoveKeepsEntry, ...) is not part of the model: it is a *)
(* mutation of the definition that follows it, which the checks must notice.  *)

AddLeaksOld(o, id, owner) ==
    /\ conns' = [conns EXCEPT ![id] = o]
    /\ conn' = [conn EXCEPT ![o] = [id |-> id, owner |-> owner, open |-> TRUE]]

Add(o, id, owner) ==
    /\ conns' = [conns EXCEPT ![id] = o]
    /\ conn' = [x \in Obj |->
                  IF x = o THEN [id |-> id, owner |-> owner, open |-> TRUE]
                  ELSE IF x = conns[id] /\ conn[x].id # DefaultID
                       THEN Dropped
                       ELSE conn[x]]

SetActiveFor(s, id) ==
    activeBySession' = IF Resolves(s, id)
                       THEN [activeBySession EXCEPT ![s] = id]
                       ELSE activeBySession

MarkPersisted(id) ==
    /\ Registered(id)
    /\ persisted' = persisted \cup {id}
    /\ conn' = [conn EXCEPT ![conns[id]].owner = Shared]
    /\ overwritten' = overwritten \ {id}
    /\ UNCHANGED <<conns, active, defaultID, activeBySession, adding>>

UnmarkPersisted(id) ==
    /\ persisted' = persisted \ {id}
    /\ UNCHANGED <<conns, conn, active, defaultID, activeBySession, adding, overwritten>>

NoFallback(x, id) == IF x = id THEN None ELSE x

\* What active, or defaultID, becomes when the connection id goes.
FallbackFrom(x, id) == IF x = id THEN DefaultID ELSE x

ChoicesKept(id) == activeBySession

ChoicesWithout(id) ==
    [s \in Session |-> IF activeBySession[s] = id THEN None ELSE activeBySession[s]]

Remove(id) ==
    /\ id # DefaultID
    /\ Registered(id)
    /\ conn' = [conn EXCEPT ![conns[id]] = Dropped]
    /\ conns' = [conns EXCEPT ![id] = None]
    /\ persisted' = persisted \ {id}
    /\ active' = FallbackFrom(active, id)
    /\ defaultID' = FallbackFrom(defaultID, id)
    /\ activeBySession' = ChoicesWithout(id)
    /\ overwritten' = overwritten \ {id}
    /\ UNCHANGED adding

SetDefault(id) ==
    /\ Registered(id)
    /\ conn[conns[id]].owner = Shared
    /\ defaultID' = id
    /\ active' = id
    /\ UNCHANGED <<conns, conn, activeBySession, persisted, adding, overwritten>>

\* Called by rotateSessionOnAuth with an ID newSessionID has just minted.
RebindSession(old, new) ==
    /\ old # new
    /\ activeBySession[new] = None /\ adding[new] = NotAdding
    /\ \A id \in ConnID : Registered(id) => conn[conns[id]].owner # new
    /\ activeBySession' = [activeBySession EXCEPT ![new] = activeBySession[old],
                                                  ![old] = None]
    /\ conn' = [o \in Obj |->
                  IF conn[o].owner = old /\ conns[conn[o].id] = o
                  THEN [conn[o] EXCEPT !.owner = new]
                  ELSE conn[o]]
    /\ UNCHANGED <<conns, active, defaultID, persisted, adding, overwritten>>

----------------------------------------------------------------------------
(* Session handlers *)

\* addConnectionHandler: the form is read, and its DSN opened without any lock.
SubmitConnection(s, typed) ==
    /\ adding[s] = NotAdding
    /\ adding' = [adding EXCEPT ![s] = [at |-> "opening", id |-> typed]]
    /\ UNCHANGED <<conns, conn, active, defaultID, activeBySession, persisted, overwritten>>

OpenFails(s) ==
    /\ adding[s].at = "opening"
    /\ adding' = [adding EXCEPT ![s] = NotAdding]
    /\ UNCHANGED <<conns, conn, active, defaultID, activeBySession, persisted, overwritten>>

\* The DSN is open: Add with the session as the owner, under the lock.
AddConnection(s) ==
    /\ adding[s].at = "opening"
    /\ \E o \in Obj, id \in ConnID :
          /\ Fresh(o)
          /\ IsDisambiguated(s, adding[s].id, id)
          /\ Add(o, id, s)
          /\ adding' = [adding EXCEPT ![s] = [at |-> "added", id |-> id]]
          /\ overwritten' = IF Registered(id) /\ conn[conns[id]].owner = Shared
                            THEN overwritten \cup {id} ELSE overwritten
    /\ UNCHANGED <<active, defaultID, activeBySession, persisted>>

\* ... and its second call, under a lock of its own, whose error is ignored.
FinishAdd(s) ==
    /\ adding[s].at = "added"
    /\ SetActiveFor(s, adding[s].id)
    /\ adding' = [adding EXCEPT ![s] = NotAdding]
    /\ UNCHANGED <<conns, conn, active, defaultID, persisted, overwritten>>

\* setActiveConnectionHandler
UseConnection(s, id) ==
    /\ Resolves(s, id)
    /\ SetActiveFor(s, id)
    /\ UNCHANGED <<conns, conn, active, defaultID, persisted, adding, overwritten>>

----------------------------------------------------------------------------
(* A process about to serve its first request: NewConnectionManager, then   *)
(* openManagedConnectionConfigs over the stored configurations it could open.*)

Injections(ids) == {f \in [ids -> Obj \ {BuiltIn}] :
                      \A x, y \in ids : x # y => f[x] # f[y]}

BootConns(ids, f) ==
    [id \in ConnID |-> IF id \in ids THEN f[id]
                      ELSE IF id = DefaultID THEN BuiltIn ELSE None]

BootConn(ids, f) ==
    [o \in Obj |->
       IF o = BuiltIn THEN [id |-> DefaultID, owner |-> Shared, open |-> TRUE]
       ELSE IF \E id \in ids : f[id] = o
       THEN [id |-> CHOOSE id \in ids : f[id] = o, owner |-> Shared, open |-> TRUE]
       ELSE Dropped]

NoChoice == [s \in Session |-> None]

NoneAdding == [s \in Session |-> NotAdding]

Booted(ids, d) ==
    /\ \E f \in Injections(ids) : conns = BootConns(ids, f) /\ conn = BootConn(ids, f)
    /\ active = d /\ defaultID = d
    /\ activeBySession = NoChoice /\ adding = NoneAdding
    /\ persisted = ids /\ overwritten = {}

Init ==
    \E ids \in SUBSET (ConnID \ {DefaultID}) : \E d \in ids \cup {DefaultID} :
        Booted(ids, d)

SessionNext ==
    \E s \in Session :
        \/ OpenFails(s) \/ AddConnection(s) \/ FinishAdd(s)
        \/ \E id \in ConnID : SubmitConnection(s, id) \/ UseConnection(s, id)
        \/ \E new \in Session : RebindSession(s, new)

Next ==
    \/ SessionNext
    \/ \E id \in ConnID :
          MarkPersisted(id) \/ UnmarkPersisted(id) \/ Remove(id) \/ SetDefault(id)

Spec == Init /\ [][Next]_connVars

----------------------------------------------------------------------------
(* Type *)

\* The registry maps IDs to objects, each session to an ID it chose or none.
TypeOK ==
    /\ conns \in [ConnID -> Obj \cup {None}]
    /\ conn \in [Obj -> Fields]
    /\ active \in ConnID
    /\ defaultID \in ConnID
    /\ activeBySession \in [Session -> ConnID \cup {None}]
    /\ persisted \subseteq ConnID
    /\ adding \in [Session -> Adding]
    /\ overwritten \subseteq ConnID

----------------------------------------------------------------------------
(* Safety, whatever IDs the sessions submit *)

\* No pointer of the manager dangles: the fallback, every session's choice and
\* every persisted mark name a registered connection, so ActiveFor never
\* returns nil (connections.go: Remove's purge, Add's replacement in place).
NothingDangles ==
    /\ Registered(active)
    /\ Registered(defaultID)
    /\ \A s \in Session : activeBySession[s] # None => Registered(activeBySession[s])
    /\ \A id \in persisted : Registered(id)

\* The connection sessions fall back to is the one the connections page flags
\* as the default (ListFor reads defaultID, ActiveFor reads active).
FallbackIsDefault == active = defaultID

\* A request is never handed a closed *sql.DB by the registry, and no object
\* is registered under two IDs or under an ID that is not its own.
RegisteredOpen ==
    \A id \in ConnID : Registered(id) => conn[conns[id]].open /\ conn[conns[id]].id = id

\* An object that left the registry has been closed; only an object that held
\* the built-in ID is spared by Add (connections.go:343).
DroppedClosed ==
    \A o \in Obj : conn[o].open => conns[conn[o].id] = o \/ conn[o].id = DefaultID

\* A session never displaces another session's private connection: whatever
\* takes over the ID of a private connection belongs to the same owner (the
\* promise of Add and disambiguateIDLocked).
PrivateNotDisplaced ==
    [][\A id \in ConnID :
          (/\ Registered(id) /\ conn[conns[id]].owner # Shared
           /\ conns'[id] \notin {conns[id], None}
           /\ conn'[conns'[id]].owner # Shared)
            => conn'[conns'[id]].owner = conn[conns[id]].owner]_connVars

----------------------------------------------------------------------------
(* Isolation: what the Owner model promises *)

\* No session's requests run on a connection that is private to another: "other
\* concurrent users on the same running server neither see nor can switch to it
\* until an admin explicitly shares it" (handlers.go:1230).
ActiveIsVisible == \A s \in Session : VisibleTo(s, ActiveFor(s))

\* The one way it happens: Add lets a session replace a shared connection under
\* its ID (connections.go:331 calls that an update), with a private one.  Every
\* other session's choice, the server-wide fallback and the mark for the stored
\* settings still name the ID.  Any other foreign connection a session works on,
\* private fallback or private connection marked to be stored would be a leak.
OnlyOverwrittenLeak ==
    /\ \A s \in Session :
          ActiveIDFor(s) \notin overwritten => VisibleTo(s, ActiveFor(s))
    /\ active \notin overwritten => conn[conns[active]].owner = Shared
    /\ \A id \in persisted \ overwritten : conn[conns[id]].owner = Shared

=============================================================================
