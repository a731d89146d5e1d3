------------------------- MODULE ConnectionsProofs -------------------------
(***************************************************************************)
(* Proofs about connections.go, for every set of sessions, IDs, objects    *)
(* and administrators.                                                     *)
(*                                                                         *)
(* The registry alone: its pointers never dangle, what left it is closed,  *)
(* sessions do not displace one another's private connections, and the     *)
(* Owner model isolates them but for the shared connections one of them    *)
(* has replaced with a private one.                                        *)
(*                                                                         *)
(* The registry beside the settings table: every step of ConnectionStore   *)
(* is a step of the registry or a process that starts, so those promises   *)
(* survive failing saves, crashes and restarts; and with one request of an *)
(* administrator at a time what is stored is what is marked, what was      *)
(* promised stays and what was forgotten is gone.                          *)
(***************************************************************************)
EXTENDS ConnectionStore, TLAPS

\* The inductive invariant: the built-in ID always has an entry to fall back
\* to, and each object knows the one ID it is registered under, which makes
\* the map from registered IDs to objects injective.
RegistryInv ==
    /\ TypeOK
    /\ Registered(DefaultID)
    /\ NothingDangles
    /\ FallbackIsDefault
    /\ RegisteredOpen
    /\ DroppedClosed

\* A connection no private one has replaced is shared where everybody may fall
\* back to it or where it is to be stored, and visible to those who chose it:
\* inductive, unlike OnlyOverwrittenLeak, which follows from it.
ChoiceVisible ==
    \A s \in Session :
        activeBySession[s] # None /\ activeBySession[s] \notin overwritten
          => VisibleTo(s, conns[activeBySession[s]])

\* What Remove makes the fallback when the fallback itself is removed.
BuiltInShared == DefaultID \notin overwritten => conn[conns[DefaultID]].owner = Shared

FallbackShared == active \notin overwritten => conn[conns[active]].owner = Shared

PersistedShared == \A id \in persisted \ overwritten : conn[conns[id]].owner = Shared

IsolationInv ==
    /\ RegistryInv
    /\ BuiltInShared
    /\ ChoiceVisible
    /\ FallbackShared
    /\ PersistedShared

----------------------------------------------------------------------------
\* A booted process has the built-in entry and one open, shared object per
\* configuration loaded.
LEMMA BootedInv ==
    ASSUME NEW ids \in SUBSET (ConnID \ {DefaultID}), NEW d \in ids \cup {DefaultID},
           Booted(ids, d)
    PROVE  RegistryInv /\ IsolationInv
<1> USE ConnectionsAssumption
<1>1. PICK f \in Injections(ids) :
        /\ conns = [id \in ConnID |-> IF id \in ids THEN f[id]
                                      ELSE IF id = DefaultID THEN BuiltIn ELSE None]
        /\ conn = [o \in Obj |->
                     IF o = BuiltIn THEN [id |-> DefaultID, owner |-> Shared, open |-> TRUE]
                     ELSE IF \E id \in ids : f[id] = o
                     THEN [id |-> CHOOSE id \in ids : f[id] = o,
                           owner |-> Shared, open |-> TRUE]
                     ELSE Dropped]
  BY DEF Booted, BootConns, BootConn
<1>2. /\ f \in [ids -> Obj \ {BuiltIn}]
      /\ \A x, y \in ids : x # y => f[x] # f[y]
  BY DEF Injections
<1>3. ASSUME NEW o \in Obj, \E id \in ids : f[id] = o
      PROVE  LET c == CHOOSE id \in ids : f[id] = o
             IN  c \in ids /\ f[c] = o /\ \A id \in ids : f[id] = o => id = c
  BY <1>2, <1>3
<1>4. /\ conn[BuiltIn] = [id |-> DefaultID, owner |-> Shared, open |-> TRUE]
      /\ \A id \in ids : conn[f[id]] = [id |-> id, owner |-> Shared, open |-> TRUE]
  BY ZenonT(60), <1>1, <1>2, <1>3 DEF Dropped
<1>5. TypeOK
  <2>1. conn \in [Obj -> Fields]
    BY <1>1, <1>2, <1>3 DEF Fields, Dropped, Owner
  <2> QED
    BY <1>1, <1>2, <2>1 DEF Booted, NoChoice, NoneAdding, Adding, NotAdding, TypeOK
<1>6. NothingDangles /\ Registered(DefaultID) /\ FallbackIsDefault
  BY <1>1, <1>2 DEF Booted, NoChoice, NothingDangles, Registered, FallbackIsDefault
<1>7. RegisteredOpen
  BY <1>1, <1>2, <1>4 DEF RegisteredOpen, Registered
<1>8. DroppedClosed
  <2> SUFFICES ASSUME NEW o \in Obj, conn[o].open
               PROVE  conns[conn[o].id] = o \/ conn[o].id = DefaultID
    BY DEF DroppedClosed
  <2>1. CASE o = BuiltIn
    BY <2>1, <1>4
  <2>2. CASE o # BuiltIn
    BY <2>2, <1>1, <1>2, <1>3 DEF Dropped
  <2> QED BY <2>1, <2>2
<1>9. BuiltInShared /\ ChoiceVisible /\ FallbackShared /\ PersistedShared
  BY <1>1, <1>2, <1>4 DEF Booted, NoChoice, BuiltInShared, ChoiceVisible, FallbackShared, PersistedShared
<1> QED
  BY <1>5, <1>6, <1>7, <1>8, <1>9 DEF RegistryInv, IsolationInv

----------------------------------------------------------------------------
\* What every step but AddConnection leaves to show: none of them registers an
\* object, so an entry either stays or disappears together with its object.
LEMMA AddRegistry ==
    ASSUME RegistryInv, NEW s \in Session, AddConnection(s)
    PROVE  RegistryInv'
<1> USE ConnectionsAssumption
<1>1. PICK o \in Obj, id \in ConnID :
        /\ Fresh(o) /\ IsDisambiguated(s, adding[s].id, id)
        /\ Add(o, id, s)
        /\ adding' = [adding EXCEPT ![s] = [at |-> "added", id |-> id]]
        /\ overwritten' \in {overwritten, overwritten \cup {id}}
  BY DEF AddConnection
<1>2. UNCHANGED <<active, defaultID, activeBySession, persisted>>
  BY DEF AddConnection
<1>3. \A x \in ConnID : conns'[x] = IF x = id THEN o ELSE conns[x]
  BY <1>1 DEF Add, RegistryInv, TypeOK
<1>4. \A x \in ConnID : x # id => conns[x] # o /\ (Registered(x) => conns[x] # conns[id])
  BY <1>1 DEF Fresh, RegistryInv, TypeOK, RegisteredOpen, Registered
<1>5. TypeOK'
  BY <1>1, <1>2 DEF Add, RegistryInv, TypeOK, Adding, Fields, Owner, Dropped
<1>6. (Registered(DefaultID) /\ NothingDangles /\ FallbackIsDefault)'
  BY <1>2, <1>3 DEF RegistryInv, TypeOK, NothingDangles, FallbackIsDefault, Registered
<1>7. RegisteredOpen'
  BY <1>1, <1>3, <1>4 DEF Add, RegistryInv, TypeOK, RegisteredOpen, Registered
<1>8. DroppedClosed'
  BY <1>1, <1>3 DEF Add, RegistryInv, TypeOK, Fields, DroppedClosed, Dropped
<1> QED
  BY <1>5, <1>6, <1>7, <1>8 DEF RegistryInv

\* No step leads out of the registry invariant.
LEMMA RegistryStep ==
    ASSUME RegistryInv, [Next]_connVars
    PROVE  RegistryInv'
<1> USE ConnectionsAssumption
<1>1. ASSUME NEW s \in Session, FinishAdd(s)
      PROVE  RegistryInv'
  <2>1. adding[s].id \in ConnID /\ adding' \in [Session -> Adding]
    BY <1>1 DEF FinishAdd, NotAdding, Adding, RegistryInv, TypeOK
  <2> QED
    BY <1>1, <2>1 DEF FinishAdd, SetActiveFor, Resolves, RegistryInv, TypeOK, NothingDangles,
       FallbackIsDefault, RegisteredOpen, DroppedClosed, Registered
<1>2. ASSUME NEW s \in Session,
             AddConnection(s) \/ OpenFails(s) \/ \E id \in ConnID : SubmitConnection(s, id)
      PROVE  RegistryInv'
  <2>1. CASE OpenFails(s) \/ \E id \in ConnID : SubmitConnection(s, id)
    <3>1. adding' \in [Session -> Adding]
      <4>1. /\ NotAdding \in Adding
            /\ \A id \in ConnID : [at |-> "opening", id |-> id] \in Adding
        BY DEF NotAdding, Adding
      <4>2. \E a \in Adding : adding' = [adding EXCEPT ![s] = a]
        BY <2>1, <4>1 DEF OpenFails, SubmitConnection
      <4> QED BY <4>2 DEF RegistryInv, TypeOK
    <3> QED
      BY <2>1, <3>1 DEF OpenFails, SubmitConnection, RegistryInv, TypeOK, NothingDangles,
         FallbackIsDefault, RegisteredOpen, DroppedClosed, Registered
  <2> QED BY <1>2, <2>1, AddRegistry
<1>3. ASSUME NEW s \in Session, NEW id \in ConnID, UseConnection(s, id)
      PROVE  RegistryInv'
  BY <1>3 DEF UseConnection, SetActiveFor, Resolves, RegistryInv, TypeOK, NothingDangles,
     FallbackIsDefault, RegisteredOpen, DroppedClosed, Registered
<1>4. ASSUME NEW s \in Session, NEW new \in Session, RebindSession(s, new)
      PROVE  RegistryInv'
  <2>1. TypeOK'
    BY ZenonT(60), <1>4 DEF RebindSession, RegistryInv, TypeOK, Fields, Owner
  <2>2. (Registered(DefaultID) /\ NothingDangles /\ FallbackIsDefault)'
    BY <1>4 DEF RebindSession, RegistryInv, TypeOK, NothingDangles, FallbackIsDefault, Registered
  <2>3. RegisteredOpen' /\ DroppedClosed'
    BY <1>4 DEF RebindSession, RegistryInv, TypeOK, Fields, RegisteredOpen, DroppedClosed, Registered
  <2> QED BY <2>1, <2>2, <2>3 DEF RegistryInv
<1>5. ASSUME NEW id \in ConnID, MarkPersisted(id)
      PROVE  RegistryInv'
  <2>1. TypeOK'
    BY <1>5 DEF MarkPersisted, RegistryInv, TypeOK, Fields, Owner
  <2>2. (Registered(DefaultID) /\ NothingDangles /\ FallbackIsDefault)'
    BY <1>5 DEF MarkPersisted, RegistryInv, TypeOK, NothingDangles, FallbackIsDefault, Registered
  <2>3. RegisteredOpen' /\ DroppedClosed'
    BY <1>5 DEF MarkPersisted, RegistryInv, TypeOK, Fields, RegisteredOpen, DroppedClosed, Registered
  <2> QED BY <2>1, <2>2, <2>3 DEF RegistryInv
<1>6. ASSUME NEW id \in ConnID, UnmarkPersisted(id)
      PROVE  RegistryInv'
  BY <1>6 DEF UnmarkPersisted, RegistryInv, TypeOK, NothingDangles,
     FallbackIsDefault, RegisteredOpen, DroppedClosed, Registered
<1>7. ASSUME NEW id \in ConnID, Remove(id)
      PROVE  RegistryInv'
  <2>1. \A x \in ConnID : x # id /\ Registered(x) => conns[x] # conns[id]
    BY ZenonT(60), <1>7 DEF RegistryInv, TypeOK, RegisteredOpen, Registered, Remove, FallbackFrom, ChoicesWithout
  <2>2. TypeOK'
    BY <1>7 DEF Remove, FallbackFrom, ChoicesWithout, RegistryInv, TypeOK, Fields, Owner, Dropped
  <2>3. (Registered(DefaultID) /\ NothingDangles /\ FallbackIsDefault)'
    BY <1>7 DEF Remove, FallbackFrom, ChoicesWithout, RegistryInv, TypeOK, NothingDangles, FallbackIsDefault, Registered
  <2>4. RegisteredOpen' /\ DroppedClosed'
    BY <1>7, <2>1 DEF Remove, FallbackFrom, ChoicesWithout, RegistryInv, TypeOK, Fields, Dropped, RegisteredOpen,
       DroppedClosed, Registered
  <2> QED BY <2>2, <2>3, <2>4 DEF RegistryInv
<1>8. ASSUME NEW id \in ConnID, SetDefault(id)
      PROVE  RegistryInv'
  BY <1>8 DEF SetDefault, RegistryInv, TypeOK, NothingDangles,
     FallbackIsDefault, RegisteredOpen, DroppedClosed, Registered
<1>9. CASE UNCHANGED connVars
  BY <1>9 DEF connVars, RegistryInv, TypeOK, NothingDangles,
     FallbackIsDefault, RegisteredOpen, DroppedClosed, Registered
<1> QED
  BY <1>1, <1>2, <1>3, <1>4, <1>5, <1>6, <1>7, <1>8, <1>9 DEF Next, SessionNext

\* A process serves its first request in a state of both invariants.
LEMMA InitInv == Init => RegistryInv /\ IsolationInv
  BY BootedInv DEF Init

\* The registry's state keeps its shape through every method of the manager.
THEOREM RegistryTypes == Spec => []TypeOK
<1>1. RegistryInv => TypeOK
  BY DEF RegistryInv
<1> QED
  BY <1>1, InitInv, RegistryStep, PTL DEF Spec

\* No pointer of the ConnectionManager ever dangles, its two notions of the
\* default agree, and a registered connection is open under its own ID only.
THEOREM RegistrySafe == Spec => [](NothingDangles /\ FallbackIsDefault /\ RegisteredOpen)
<1>1. RegistryInv => NothingDangles /\ FallbackIsDefault /\ RegisteredOpen
  BY DEF RegistryInv
<1> QED
  BY <1>1, InitInv, RegistryStep, PTL DEF Spec

\* A connection that left the registry, by Remove or by another Add under its
\* ID, has been closed: none leaks but the built-in one.
THEOREM DroppedAreClosed == Spec => []DroppedClosed
<1>1. RegistryInv => DroppedClosed
  BY DEF RegistryInv
<1> QED
  BY <1>1, InitInv, RegistryStep, PTL DEF Spec

----------------------------------------------------------------------------
\* addConnectionHandler takes over no private connection of another session,
\* because FreeFor and the replacement happen in one critical section; no
\* other step registers an object at all.
LEMMA NotDisplacedStep ==
    ASSUME RegistryInv, [Next]_connVars, NEW id \in ConnID,
           Registered(id), conn[conns[id]].owner # Shared,
           conns'[id] \notin {conns[id], None}
    PROVE  conn'[conns'[id]].owner = conn[conns[id]].owner
<1> USE ConnectionsAssumption
<1>1. ASSUME NEW s \in Session, AddConnection(s)
      PROVE  conn'[conns'[id]].owner = conn[conns[id]].owner
  <2>1. PICK o \in Obj, to \in ConnID : IsDisambiguated(s, adding[s].id, to) /\ Add(o, to, s)
    BY <1>1 DEF AddConnection
  <2>2. to = id
    BY <2>1 DEF Add, RegistryInv, TypeOK
  <2>3. conn[conns[id]].owner = s
    BY <2>1, <2>2 DEF IsDisambiguated, FreeFor, VisibleTo
  <2>4. conn'[conns'[id]].owner = s
    BY <2>1, <2>2 DEF Add, RegistryInv, TypeOK
  <2> QED BY <2>3, <2>4
<1>2. CASE \E s \in Session :
             \/ OpenFails(s) \/ FinishAdd(s)
             \/ \E x \in ConnID : SubmitConnection(s, x) \/ UseConnection(s, x)
             \/ \E new \in Session : RebindSession(s, new)
  BY <1>2 DEF OpenFails, SubmitConnection, FinishAdd, UseConnection, RebindSession
<1>3. CASE \E x \in ConnID : MarkPersisted(x) \/ UnmarkPersisted(x) \/ Remove(x) \/ SetDefault(x)
  BY <1>3 DEF MarkPersisted, UnmarkPersisted, Remove, FallbackFrom, ChoicesWithout, SetDefault, RegistryInv, TypeOK
<1>4. CASE UNCHANGED connVars
  BY <1>4 DEF connVars
<1> QED
  BY <1>1, <1>2, <1>3, <1>4 DEF Next, SessionNext

\* A session's private connection is never displaced by another session.
THEOREM NotDisplaced == Spec => PrivateNotDisplaced
<1>1. RegistryInv /\ [Next]_connVars =>
        [\A id \in ConnID :
           (/\ Registered(id) /\ conn[conns[id]].owner # Shared
            /\ conns'[id] \notin {conns[id], None}
            /\ conn'[conns'[id]].owner # Shared)
             => conn'[conns'[id]].owner = conn[conns[id]].owner]_connVars
  BY NotDisplacedStep
<1> QED
  BY <1>1, InitInv, RegistryStep, PTL DEF Spec, PrivateNotDisplaced

----------------------------------------------------------------------------
\* Adding under an ID that is unused or the session's own disturbs nobody: the
\* fallback, other sessions' choices and persisted marks are elsewhere, or at an
\* ID already overwritten; adding under a shared ID overwrites it.
LEMMA AddIsolation ==
    ASSUME IsolationInv, NEW s \in Session, AddConnection(s)
    PROVE  (BuiltInShared /\ ChoiceVisible /\ FallbackShared /\ PersistedShared)'
<1> USE ConnectionsAssumption DEF IsolationInv, RegistryInv
<1>1. PICK o \in Obj, id \in ConnID :
        /\ Fresh(o) /\ IsDisambiguated(s, adding[s].id, id)
        /\ Add(o, id, s)
        /\ overwritten' = IF Registered(id) /\ conn[conns[id]].owner = Shared
                          THEN overwritten \cup {id} ELSE overwritten
  BY DEF AddConnection
<1>2. UNCHANGED <<active, defaultID, activeBySession, persisted>>
  BY DEF AddConnection
<1>3. overwritten \subseteq overwritten' /\ overwritten' \subseteq overwritten \cup {id}
  BY <1>1
<1>4. id \notin overwritten' /\ Registered(id) => conn[conns[id]].owner = s
  BY <1>1 DEF IsDisambiguated, FreeFor, VisibleTo
<1>5. \A x \in ConnID : x # id /\ Registered(x) =>
        conns'[x] = conns[x] /\ conn'[conns'[x]] = conn[conns[x]]
  BY <1>1 DEF Add, Fresh, TypeOK, RegisteredOpen, Registered
<1>6. conn'[conns'[id]].owner = s
  BY <1>1 DEF Add, TypeOK
<1>7. id \notin overwritten' => active # id /\ id # DefaultID /\ id \notin persisted
  BY <1>3, <1>4 DEF BuiltInShared, FallbackShared, PersistedShared, NothingDangles
<1>8. BuiltInShared' /\ FallbackShared' /\ PersistedShared'
  BY <1>2, <1>3, <1>5, <1>7 DEF BuiltInShared, FallbackShared, PersistedShared, NothingDangles, TypeOK
<1>9. ChoiceVisible'
  <2> SUFFICES ASSUME NEW t \in Session, activeBySession[t] # None,
                      activeBySession[t] \notin overwritten'
               PROVE  VisibleTo(t, conns[activeBySession[t]])'
    BY <1>2 DEF ChoiceVisible
  <2>1. CASE activeBySession[t] = id
    BY <2>1, <1>2, <1>3, <1>4, <1>6 DEF ChoiceVisible, VisibleTo, NothingDangles
  <2>2. CASE activeBySession[t] # id
    BY ZenonT(60), <2>2, <1>2, <1>3, <1>5 DEF ChoiceVisible, VisibleTo, NothingDangles, TypeOK
  <2> QED BY <2>1, <2>2
<1> QED BY <1>8, <1>9

\* No step leads out of the isolation invariant.
LEMMA IsolationStep ==
    ASSUME IsolationInv, [Next]_connVars
    PROVE  IsolationInv'
<1> USE ConnectionsAssumption
<1>0. RegistryInv'
  BY RegistryStep DEF IsolationInv
<1> SUFFICES (BuiltInShared /\ ChoiceVisible /\ FallbackShared /\ PersistedShared)'
  BY <1>0 DEF IsolationInv
<1> USE DEF IsolationInv, RegistryInv, BuiltInShared, ChoiceVisible, FallbackShared,
         PersistedShared, VisibleTo
<1>1. ASSUME NEW s \in Session,
             \/ OpenFails(s) \/ FinishAdd(s)
             \/ \E id \in ConnID : SubmitConnection(s, id) \/ UseConnection(s, id)
      PROVE  (BuiltInShared /\ ChoiceVisible /\ FallbackShared /\ PersistedShared)'
  BY <1>1 DEF OpenFails, SubmitConnection, FinishAdd, UseConnection, SetActiveFor, Resolves, TypeOK
<1>2. ASSUME NEW s \in Session, AddConnection(s)
      PROVE  (BuiltInShared /\ ChoiceVisible /\ FallbackShared /\ PersistedShared)'
  BY <1>2, AddIsolation
<1>3. ASSUME NEW s \in Session, NEW new \in Session, RebindSession(s, new)
      PROVE  (BuiltInShared /\ ChoiceVisible /\ FallbackShared /\ PersistedShared)'
  <2>1. /\ \A o \in Obj : conn[o].owner # s => conn'[o] = conn[o]
        /\ \A id \in ConnID : Registered(id) /\ conn[conns[id]].owner = s
             => conn'[conns[id]].owner = new
        /\ conns' = conns /\ active' = active /\ persisted' = persisted
        /\ overwritten' = overwritten
    BY <1>3 DEF RebindSession, TypeOK, RegisteredOpen, Registered, Fields
  <2>2. BuiltInShared' /\ FallbackShared' /\ PersistedShared'
    BY ZenonT(60), <2>1 DEF NothingDangles, Registered, TypeOK
  <2>3. ChoiceVisible'
    <3>1. activeBySession' = [activeBySession EXCEPT ![new] = activeBySession[s],
                                                     ![s] = None]
          /\ s # new
      BY <1>3 DEF RebindSession
    <3> SUFFICES ASSUME NEW t \in Session, activeBySession'[t] # None,
                        activeBySession'[t] \notin overwritten'
                 PROVE  conn'[conns'[activeBySession'[t]]].owner \in {Shared, t}
      OBVIOUS
    <3>2. CASE t = new
      <4>1. activeBySession'[t] = activeBySession[s]
        BY <3>1, <3>2 DEF TypeOK
      <4>2. conn[conns[activeBySession[s]]].owner \in {Shared, s}
        BY <2>1, <4>1
      <4> QED
        BY <2>1, <3>2, <4>1, <4>2 DEF NothingDangles, Registered, TypeOK
    <3>3. CASE t # new
      <4>1. t # s /\ activeBySession'[t] = activeBySession[t]
        BY <3>1, <3>3 DEF TypeOK
      <4> QED
        BY ZenonT(60), <2>1, <4>1 DEF NothingDangles, Registered, TypeOK
    <3> QED BY <3>2, <3>3
  <2> QED BY <2>2, <2>3
<1>4. ASSUME NEW id \in ConnID, MarkPersisted(id)
      PROVE  (BuiltInShared /\ ChoiceVisible /\ FallbackShared /\ PersistedShared)'
  <2>1. /\ conn'[conns[id]].owner = Shared
        /\ \A o \in Obj : o # conns[id] => conn'[o] = conn[o]
        /\ conns' = conns /\ active' = active /\ activeBySession' = activeBySession
        /\ persisted' = persisted \cup {id} /\ overwritten' = overwritten \ {id}
    BY <1>4 DEF MarkPersisted, TypeOK, Fields, Registered
  <2>2. ASSUME NEW x \in ConnID, Registered(x), x \notin overwritten'
        PROVE  \/ conn'[conns[x]].owner = Shared
               \/ x \notin overwritten /\ conn'[conns[x]] = conn[conns[x]]
    <3>1. CASE conns[x] = conns[id]
      BY <2>1, <3>1
    <3>2. CASE conns[x] # conns[id]
      BY <2>1, <2>2, <3>2 DEF Registered, TypeOK
    <3> QED BY <3>1, <3>2
  <2>3. BuiltInShared' /\ FallbackShared' /\ PersistedShared'
    BY ZenonT(60), <2>1, <2>2 DEF NothingDangles, Registered, TypeOK
  <2>4. ChoiceVisible'
    BY ZenonT(60), <2>1, <2>2 DEF NothingDangles, Registered, TypeOK
  <2> QED BY <2>3, <2>4
<1>5. ASSUME NEW id \in ConnID, UnmarkPersisted(id) \/ SetDefault(id)
      PROVE  (BuiltInShared /\ ChoiceVisible /\ FallbackShared /\ PersistedShared)'
  BY <1>5 DEF UnmarkPersisted, SetDefault
<1>6. ASSUME NEW id \in ConnID, Remove(id)
      PROVE  (BuiltInShared /\ ChoiceVisible /\ FallbackShared /\ PersistedShared)'
  <2>1. \A x \in ConnID : x # id /\ Registered(x) =>
          conns'[x] = conns[x] /\ conn'[conns[x]] = conn[conns[x]]
    <3>1. Registered(id) /\ conns' = [conns EXCEPT ![id] = None]
          /\ conn' = [conn EXCEPT ![conns[id]] = Dropped]
      BY <1>6 DEF Remove
    <3>2. ASSUME NEW x \in ConnID, x # id, Registered(x)
          PROVE  conns[x] # conns[id]
      BY <3>1, <3>2 DEF RegisteredOpen
    <3> QED BY <3>1, <3>2 DEF TypeOK, Registered
  <2>2. BuiltInShared' /\ FallbackShared' /\ PersistedShared'
    <3>1. /\ id # DefaultID /\ persisted' = persisted \ {id}
          /\ overwritten' = overwritten \ {id}
          /\ active' = IF active = id THEN DefaultID ELSE active
      BY <1>6 DEF Remove, FallbackFrom
    <3>2. active \in ConnID /\ persisted \subseteq ConnID
      BY DEF TypeOK
    <3>3. BuiltInShared'
      BY <2>1, <3>1
    <3>4. FallbackShared'
      BY <2>1, <3>1, <3>2, <3>3 DEF NothingDangles
    <3>5. PersistedShared'
      BY <2>1, <3>1, <3>2 DEF NothingDangles
    <3> QED BY <3>3, <3>4, <3>5
  <2>3. ChoiceVisible'
    BY <1>6, <2>1 DEF Remove, FallbackFrom, ChoicesWithout, NothingDangles, TypeOK
  <2> QED BY <2>2, <2>3
<1>7. CASE UNCHANGED connVars
  BY <1>7 DEF connVars
<1> QED
  BY <1>1, <1>2, <1>3, <1>4, <1>5, <1>6, <1>7 DEF Next, SessionNext

\* Whatever sessions submit and administrators share in the meantime: but for the
\* shared connections that a session has replaced with a private one, no session
\* works on a connection private to another one, the server-wide fallback is
\* shared, and nothing private is marked for the stored settings.
THEOREM Isolation == Spec => []OnlyOverwrittenLeak
<1>1. IsolationInv => OnlyOverwrittenLeak
  BY DEF IsolationInv, RegistryInv, NothingDangles, ChoiceVisible, ActiveFor, ActiveIDFor,
     FallbackShared, PersistedShared, VisibleTo, OnlyOverwrittenLeak
<1>2. IsolationInv /\ [Next]_connVars => IsolationInv'
  BY IsolationStep
<1> QED
  BY <1>1, <1>2, InitInv, PTL DEF Spec

----------------------------------------------------------------------------
(* The stored connections, with one administrator's request at a time *)

\* No two administrators' requests are in flight at once.
OneAdmin == \A a, b \in Admin : a = b

\* A value saveManagedConnections may have written: no built-in connection, each
\* connection once, at most one of them the default.
Saved(v) ==
    \E ids \in SUBSET (ConnID \ {DefaultID}), d \in ConnID :
        v = {[id |-> x, default |-> x = d] : x \in ids}

\* The settings table holds one row or, before the first save and between the
\* two statements of a save, none.
SavedRows(rows) == rows = << >> \/ (rows = <<rows[1]>> /\ Saved(rows[1]))

\* Several administrators' saves may leave more than one row.
AllSaved(rows) == rows \in Seq(SUBSET Config) /\ \A i \in 1 .. Len(rows) : Saved(rows[i])

OpType ==
    [kind : {"none", "persist", "forget", "default"}, id : ConnID,
     pc : {"idle", "mark", "read", "delete", "insert", "undo", "remove"},
     value : SUBSET Config]

StoreTypes ==
    /\ op \in [Admin -> OpType]
    /\ promised \subseteq ConnID /\ forgotten \subseteq ConnID
    /\ snapshot.promised \subseteq ConnID /\ snapshot.forgotten \subseteq ConnID
    /\ SavedRows(stored) /\ SavedRows(snapshot.rows)
    /\ degraded \in {"never", "now", "before"}
    /\ starting \in {"no", "delete", "insert"}

\* Startup's own save has the settings table to itself.
StartupAlone ==
    /\ starting # "no" => \A a \in Admin : At(a, "idle")
    /\ starting = "insert" => stored = << >>

\* What is stored is what a save would write now.
InSync == stored = <<StoredConfigs>> \/ (stored = << >> /\ StoredConfigs = {})

\* The save of a request in flight writes what was there when it began, and a
\* request to forget a connection has unmarked it.
Saving(o) ==
    /\ o.pc \in {"delete", "insert"} => o.value = StoredConfigs
    /\ o.pc = "insert" => stored = << >>
    /\ o.pc = "remove" => stored = <<StoredConfigs>>
    /\ o.pc = "undo" => degraded = "now"
    /\ o.kind = "forget" => o.id \notin persisted
    /\ o.kind = "persist" => o.id \notin forgotten
    /\ o.pc \in {"mark", "undo"} => o.kind = "persist"
    /\ o.pc = "remove" => o.kind = "forget"
    /\ o.pc = "idle" <=> o.kind = "none"

\* No forgotten connection is marked, or stored.
StaysForgotten ==
    /\ forgotten \cap persisted = {}
    /\ forgotten \cap StoredIDs = {}
    /\ snapshot.forgotten \cap FirstIDs(snapshot.rows) = {}

\* Every promised connection is marked, as long as nothing has gone wrong.
StaysPromised ==
    degraded = "never" =>
        /\ promised \subseteq persisted \ {DefaultID}
        /\ snapshot.promised \subseteq FirstIDs(snapshot.rows)

\* What holds for any number of administrators' requests at once.
RequestsInv ==
    /\ op \in [Admin -> OpType]
    /\ \A a \in Admin : op[a].pc \in {"delete", "insert"} => Saved(op[a].value)
    /\ AllSaved(stored) /\ AllSaved(snapshot.rows)

StoreInv ==
    /\ RegistryInv
    /\ StoreTypes
    /\ Quiet /\ degraded # "now" => InSync
    /\ \A a \in Admin : Saving(op[a])
    /\ StartupAlone
    /\ StaysForgotten
    /\ StaysPromised
    /\ SavedSurvives

----------------------------------------------------------------------------
(* What a save writes *)

\* The configurations of the connections ids, of which d is the default.
ConfigsOf(ids, d) == {[id |-> x, default |-> x = d] : x \in ids}

\* A stored value names exactly the IDs it was made of.
LEMMA ConfigIDs ==
    ASSUME NEW ids, NEW d
    PROVE  IDs(ConfigsOf(ids, d)) = ids
<1>1. ASSUME NEW x \in ids
      PROVE  x \in IDs(ConfigsOf(ids, d))
  <2>1. [id |-> x, default |-> x = d] \in ConfigsOf(ids, d)
    BY DEF ConfigsOf
  <2>2. [id |-> x, default |-> x = d].id = x
    OBVIOUS
  <2> QED BY <2>1, <2>2 DEF IDs
<1>2. ASSUME NEW x \in IDs(ConfigsOf(ids, d))
      PROVE  x \in ids
  <2>1. PICK c \in ConfigsOf(ids, d) : x = c.id
    BY <1>2 DEF IDs
  <2>2. PICK y \in ids : c = [id |-> y, default |-> y = d]
    BY <2>1 DEF ConfigsOf
  <2> QED BY <2>1, <2>2
<1> QED BY <1>1, <1>2

\* ... and is a value of the settings row.
LEMMA ConfigsSaved ==
    ASSUME NEW ids \in SUBSET (ConnID \ {DefaultID}), NEW d \in ConnID
    PROVE  Saved(ConfigsOf(ids, d))
  BY DEF Saved, ConfigsOf

\* ... and says of each whether it is the default.
LEMMA SameConfigs ==
    ASSUME NEW ids, NEW d, NEW e, \A x \in ids : x = d <=> x = e
    PROVE  ConfigsOf(ids, d) = ConfigsOf(ids, e)
<1>1. \A x \in ids : [id |-> x, default |-> x = d] = [id |-> x, default |-> x = e]
  OBVIOUS
<1> QED BY <1>1 DEF ConfigsOf

\* Every marked connection is registered, so a save writes all of them but the
\* built-in one.
LEMMA StoredConfigsAre ==
    ASSUME RegistryInv
    PROVE  /\ StoredConfigs = ConfigsOf(persisted \ {DefaultID}, defaultID)
           /\ Saved(StoredConfigs)
           /\ IDs(StoredConfigs) = persisted \ {DefaultID}
<1>1. persisted \subseteq ConnID /\ defaultID \in ConnID
      /\ \A x \in persisted : Registered(x)
  BY DEF RegistryInv, TypeOK, NothingDangles
<1>2. {x \in persisted : Registered(x) /\ x # DefaultID} = persisted \ {DefaultID}
  BY <1>1
<1>3. StoredConfigs = ConfigsOf(persisted \ {DefaultID}, defaultID)
  BY <1>2 DEF StoredConfigs, ConfigsOf
<1>4. Saved(StoredConfigs)
  BY <1>1, <1>3, ConfigsSaved
<1> QED BY <1>3, <1>4, ConfigIDs

\* The same of the state a step leads to.
LEMMA StoredConfigsNext ==
    ASSUME RegistryInv'
    PROVE  /\ StoredConfigs' = ConfigsOf(persisted' \ {DefaultID}, defaultID')
           /\ IDs(StoredConfigs') = persisted' \ {DefaultID}
<1>1. persisted' \subseteq ConnID /\ defaultID' \in ConnID
      /\ \A x \in persisted' : Registered(x)'
  BY DEF RegistryInv, TypeOK, NothingDangles
<1>2. {x \in persisted' : Registered(x)' /\ x # DefaultID} = persisted' \ {DefaultID}
  BY <1>1
<1>3. StoredConfigs' = ConfigsOf(persisted' \ {DefaultID}, defaultID')
  BY <1>2 DEF StoredConfigs, ConfigsOf
<1> QED BY <1>3, ConfigIDs

\* A step that changes neither the marks nor which of the marked connections is
\* the default changes nothing of what a save would write.
LEMMA ConfigsKept ==
    ASSUME RegistryInv, RegistryInv',
           persisted' \ {DefaultID} = persisted \ {DefaultID},
           \A x \in persisted \ {DefaultID} : x = defaultID' <=> x = defaultID
    PROVE  StoredConfigs' = StoredConfigs
<1>1. PICK d : d = defaultID'
  OBVIOUS
<1>2. ConfigsOf(persisted \ {DefaultID}, d) = ConfigsOf(persisted \ {DefaultID}, defaultID)
  BY <1>1, SameConfigs
<1> QED BY <1>1, <1>2, StoredConfigsAre, StoredConfigsNext

\* Sessions mark nothing, unmark nothing and set no default.
LEMMA SessionsKeepConfigs ==
    ASSUME RegistryInv, RegistryInv', SessionNext
    PROVE  persisted' = persisted /\ StoredConfigs' = StoredConfigs
<1>1. persisted' = persisted /\ defaultID' = defaultID
  BY DEF SessionNext, SubmitConnection, OpenFails, AddConnection, FinishAdd, UseConnection,
     RebindSession
<1> QED BY <1>1, ConfigsKept

----------------------------------------------------------------------------
(* Startup *)

\* The first states are states of the registry invariant in the next state too.
LEMMA BootedNext ==
    ASSUME NEW ids \in SUBSET (ConnID \ {DefaultID}), NEW d \in ids \cup {DefaultID}
    PROVE  Booted(ids, d)' => RegistryInv'
<1>1. Booted(ids, d) => RegistryInv
  BY BootedInv
<1> QED BY <1>1, PTL

\* What loadManagedConnections and autoDetectManagedConnections leave behind,
\* starting from the rows found.
StartedWith(rows, ids, d, troubled) ==
    /\ Reboot(ids, d)
    /\ ids \subseteq FirstIDs(rows) \cup EnvIDs
    /\ stored' = rows
    /\ starting' \in {"no", "delete"}
    /\ degraded' # "now" =>
         /\ FirstIDs(rows) \subseteq ids
         /\ SavedRows(rows) /\ starting' = "no" =>
              rows = <<ConfigsOf(ids, d)>> \/ (rows = << >> /\ ids = {})
    /\ degraded' \in {"now", "before", degraded}
    /\ degraded' = "never" => degraded = "never" /\ ~troubled
    /\ op' = [a \in Admin |-> Idle]

\* Startup opens known connections only, and one of them or the built-in one is
\* the default; if all could be opened, what is stored is what was loaded.
LEMMA Starts ==
    ASSUME NEW rows, NEW troubled, rows = << >> \/ Saved(rows[1]), StartFrom(rows, troubled)
    PROVE  \E ids \in SUBSET (ConnID \ {DefaultID}) : \E d \in ids \cup {DefaultID} :
              StartedWith(rows, ids, d, troubled)
<1> USE StoreAssumption, ConnectionsAssumption
<1>1. PICK bad :
        LET loaded == OpenedBefore(FirstIDs(rows), bad)
            found == OpenedBefore(EnvIDs \ loaded, bad)
            ids == loaded \cup found
            d == IF \E c \in loaded : [id |-> c, default |-> TRUE] \in rows[1]
                 THEN CHOOSE c \in loaded : [id |-> c, default |-> TRUE] \in rows[1]
                 ELSE DefaultID
        IN  /\ Reboot(ids, d)
            /\ stored' = rows
            /\ starting' = IF EnvIDs # {} /\ bad \notin EnvIDs \ loaded
                           THEN "delete" ELSE "no"
            /\ degraded' = IF bad # None THEN "now"
                           ELSE IF troubled /\ degraded = "never" THEN "before" ELSE degraded
            /\ op' = [a \in Admin |-> Idle]
  BY DEF StartFrom
<1> DEFINE loaded == OpenedBefore(FirstIDs(rows), bad)
           found == OpenedBefore(EnvIDs \ loaded, bad)
           ids == loaded \cup found
           flagged(c) == [id |-> c, default |-> TRUE] \in rows[1]
           d == IF \E c \in loaded : flagged(c) THEN CHOOSE c \in loaded : flagged(c)
                ELSE DefaultID
<1>2. /\ Reboot(ids, d)
      /\ stored' = rows
      /\ starting' = IF EnvIDs # {} /\ bad \notin EnvIDs \ loaded
                     THEN "delete" ELSE "no"
      /\ degraded' = IF bad # None THEN "now"
                     ELSE IF troubled /\ degraded = "never" THEN "before" ELSE degraded
      /\ op' = [a \in Admin |-> Idle]
  BY <1>1
<1>3. PICK known \in SUBSET (ConnID \ {DefaultID}), e \in ConnID :
        FirstIDs(rows) = known
        /\ ((rows = << >> /\ known = {}) \/ (rows # << >> /\ rows[1] = ConfigsOf(known, e)))
  <2>1. CASE rows = << >>
    BY <2>1 DEF FirstIDs
  <2>2. CASE rows # << >> /\ Saved(rows[1])
    <3>1. PICK i \in SUBSET (ConnID \ {DefaultID}), e \in ConnID : rows[1] = ConfigsOf(i, e)
      BY <2>2 DEF Saved, ConfigsOf
    <3>2. FirstIDs(rows) = i
      BY <2>2, <3>1, ConfigIDs DEF FirstIDs
    <3> QED BY <2>2, <3>1, <3>2
  <2> QED BY <2>1, <2>2
<1>4. loaded \subseteq known /\ found \subseteq EnvIDs \ loaded
  BY <1>3 DEF OpenedBefore
<1>5. ids \in SUBSET (ConnID \ {DefaultID}) /\ ids \subseteq FirstIDs(rows) \cup EnvIDs
  BY <1>3, <1>4
<1>6. d \in ids \cup {DefaultID}
  BY <1>4
<1>7. bad = None => loaded = known /\ found = EnvIDs \ known
  BY <1>3 DEF OpenedBefore
<1>8. ASSUME degraded' # "now"
      PROVE  /\ FirstIDs(rows) \subseteq ids
             /\ SavedRows(rows) /\ starting' = "no" =>
                  rows = <<ConfigsOf(ids, d)>> \/ (rows = << >> /\ ids = {})
  <2>1. bad = None
    BY <1>2, <1>8
  <2>2. loaded = known /\ ids = known \cup EnvIDs
    BY <1>7, <2>1
  <2>3. bad \notin EnvIDs \ loaded
    BY <2>1
  <2>4. CASE EnvIDs # {}
    BY <1>2, <1>3, <2>2, <2>3, <2>4
  <2>5. CASE EnvIDs = {}
    <3>1. ids = known
      BY <2>2, <2>5
    <3>2. CASE rows = << >> /\ known = {}
      BY <1>3, <3>1, <3>2
    <3>3. CASE rows # << >> /\ rows[1] = ConfigsOf(known, e)
      <4>1. \A c \in known : flagged(c) <=> c = e
        <5> TAKE c \in known
        <5>1. flagged(c) <=> [id |-> c, default |-> TRUE] \in ConfigsOf(known, e)
          BY <3>3
        <5>2. (\E x \in known : [id |-> c, default |-> TRUE] = [id |-> x, default |-> x = e])
                <=> c = e
          <6>1. ASSUME NEW x \in known, [id |-> c, default |-> TRUE] = [id |-> x, default |-> x = e]
                PROVE  c = e
            <7>1. [id |-> c, default |-> TRUE].id = [id |-> x, default |-> x = e].id
              BY <6>1
            <7>2. [id |-> c, default |-> TRUE].default = [id |-> x, default |-> x = e].default
              BY <6>1
            <7> QED BY <7>1, <7>2
          <6>2. ASSUME c = e
                PROVE  [id |-> c, default |-> TRUE] = [id |-> c, default |-> c = e]
            BY <6>2
          <6> QED BY <6>1, <6>2
        <5> QED BY <5>1, <5>2 DEF ConfigsOf
      <4>2. \A c \in known : c = d <=> c = e
        BY <4>1, <2>2
      <4>3. ConfigsOf(known, d) = ConfigsOf(known, e)
        <5> HIDE DEF d
        <5> QED BY <4>2, SameConfigs
      <4> QED BY <1>3, <3>1, <3>3, <4>3 DEF SavedRows
    <3> QED BY <1>3, <3>2, <3>3
  <2> QED BY <2>4, <2>5
<1>9. stored' = rows /\ starting' \in {"no", "delete"} /\ degraded' \in {"now", "before", degraded}
      /\ (degraded' = "never" => degraded = "never" /\ ~troubled)
  BY <1>2
<1>10. StartedWith(rows, ids, d, troubled)
  BY <1>2, <1>5, <1>8, <1>9 DEF StartedWith
<1> QED BY <1>5, <1>6, <1>10

----------------------------------------------------------------------------
(* The steps of a request *)

\* What holds of the state a step of the only request a leads to.
LEMMA AdminConcludes ==
    ASSUME OneAdmin, NEW a \in Admin, RegistryInv', StoreTypes', starting' = "no",
           At(a, "idle")' /\ degraded' # "now" => InSync',
           degraded' = "never" /\ op'[a].pc # "insert" => promised' \subseteq StoredIDs',
           Saving(op[a])', StaysForgotten', StaysPromised'
    PROVE  StoreInv'
<1>1. \A b \in Admin : b = a
  BY DEF OneAdmin
<1>2. (Quiet /\ degraded # "now" => InSync)'
  BY <1>1 DEF Quiet
<1>3. (\A b \in Admin : Saving(op[b]))'
  BY <1>1
<1>4. SavedSurvives'
  BY <1>1 DEF SavedSurvives, MidSave, At
<1> QED BY <1>2, <1>3, <1>4 DEF StoreInv, StartupAlone

\* Outside of its save, the only request finds what was promised stored.
LEMMA StoredSoFar ==
    ASSUME OneAdmin, StoreInv, NEW a \in Admin, starting = "no", op[a].pc # "insert",
           degraded = "never"
    PROVE  promised \subseteq StoredIDs
<1>1. \A b \in Admin : b = a
  BY DEF OneAdmin
<1> QED BY <1>1 DEF StoreInv, SavedSurvives, MidSave, At

\* A step that leaves the registry alone leaves what a save would write alone.
LEMMA RegistryKept ==
    ASSUME RegistryInv, UNCHANGED connVars
    PROVE  RegistryInv' /\ StoredConfigs' = StoredConfigs /\ persisted' = persisted
<1>1. RegistryInv'
  BY RegistryStep
<1> QED BY <1>1, ConfigsKept DEF connVars

\* A value read by a save is a value of the settings row.
LEMMA ConfigsAreConfig ==
    ASSUME RegistryInv
    PROVE  StoredConfigs \in SUBSET Config
<1>1. persisted \subseteq ConnID
  BY DEF RegistryInv, TypeOK
<1>2. ASSUME NEW x \in ConnID
      PROVE  [id |-> x, default |-> x = defaultID] \in Config
  <2>1. (x = defaultID) \in BOOLEAN
    OBVIOUS
  <2> QED BY <2>1 DEF Config
<1> QED BY <1>1, <1>2 DEF StoredConfigs

\* What a beginning request, a finished one and one going on look like.
LEMMA Shapes ==
    ASSUME op \in [Admin -> OpType], NEW a \in Admin
    PROVE  /\ \A kind \in {"persist", "forget", "default"}, id \in ConnID, pc \in {"mark", "read"} :
                Begin(a, kind, id, pc) =>
                  /\ op' \in [Admin -> OpType]
                  /\ op'[a].kind = kind /\ op'[a].id = id /\ op'[a].pc = pc
           /\ Done(a) => /\ op' \in [Admin -> OpType]
                         /\ op'[a].kind = "none" /\ op'[a].pc = "idle"
           /\ \A pc \in {"mark", "read", "delete", "insert", "undo", "remove"} :
                Goto(a, pc) =>
                  /\ op' \in [Admin -> OpType]
                  /\ op'[a].kind = op[a].kind /\ op'[a].id = op[a].id
                  /\ op'[a].value = op[a].value /\ op'[a].pc = pc
<1> USE ConnectionsAssumption
<1>1. op \in [Admin -> OpType] /\ op[a] \in OpType
  OBVIOUS
<1>2. ASSUME NEW kind \in {"persist", "forget", "default"}, NEW id \in ConnID,
             NEW pc \in {"mark", "read"}, Begin(a, kind, id, pc)
      PROVE  /\ op' \in [Admin -> OpType]
             /\ op'[a].kind = kind /\ op'[a].id = id /\ op'[a].pc = pc
  <2>1. [kind |-> kind, id |-> id, pc |-> pc, value |-> {}] \in OpType
    BY DEF OpType
  <2>2. op'[a] = [kind |-> kind, id |-> id, pc |-> pc, value |-> {}]
    BY <1>1, <1>2 DEF Begin
  <2> QED BY <1>1, <1>2, <2>1, <2>2 DEF Begin
<1>3. ASSUME Done(a)
      PROVE  op' \in [Admin -> OpType] /\ op'[a].kind = "none" /\ op'[a].pc = "idle"
  <2>1. Idle \in OpType
    BY DEF OpType, Idle
  <2>2. op'[a] = Idle
    BY <1>1, <1>3 DEF Done
  <2>3. op' \in [Admin -> OpType]
    BY <1>1, <1>3, <2>1 DEF Done
  <2> QED BY <2>2, <2>3 DEF Idle
<1>4. ASSUME NEW pc \in {"mark", "read", "delete", "insert", "undo", "remove"}, Goto(a, pc)
      PROVE  /\ op' \in [Admin -> OpType]
             /\ op'[a].kind = op[a].kind /\ op'[a].id = op[a].id
             /\ op'[a].value = op[a].value /\ op'[a].pc = pc
  <2>1. op'[a] = [op[a] EXCEPT !.pc = pc]
    BY <1>1, <1>4 DEF Goto
  <2>2. op'[a] \in OpType
    BY <1>1, <2>1 DEF OpType
  <2>3. op' \in [Admin -> OpType]
    BY <1>1, <1>4, <2>1, <2>2 DEF Goto
  <2> QED BY <1>1, <2>1, <2>3 DEF OpType
<1> QED BY <1>2, <1>3, <1>4

\* adminPersistConnectionHandler keeps the invariant.
LEMMA PersistSteps ==
    ASSUME OneAdmin, StoreInv, NEW a \in Admin, starting = "no", UNCHANGED starting,
           (\E id \in ConnID : PersistCheck(a, id)) \/ PersistMark(a) \/ PersistUndo(a)
    PROVE  StoreInv'
<1>0. /\ RegistryInv /\ StoreTypes /\ StaysForgotten /\ StaysPromised
      /\ op \in [Admin -> OpType] /\ op[a] \in OpType /\ Saving(op[a])
  BY DEF StoreInv, StoreTypes
<1>1. ASSUME NEW id \in ConnID, PersistCheck(a, id)
      PROVE  StoreInv'
  <2>1. UNCHANGED <<connVars, stored, promised, degraded, snapshot>> /\ forgotten' = forgotten \ {id}
    BY <1>1 DEF PersistCheck
  <2>2. RegistryInv' /\ persisted' = persisted
    BY <1>0, <2>1, RegistryKept
  <2>3. /\ op' \in [Admin -> OpType]
        /\ op'[a].kind = "persist" /\ op'[a].id = id /\ op'[a].pc = "mark"
    BY <1>0, <1>1, Shapes DEF PersistCheck
  <2>4. StoreTypes'
    BY <1>0, <2>1, <2>3 DEF StoreTypes
  <2>5. StaysForgotten' /\ StaysPromised'
    BY <1>0, <2>1, <2>2 DEF StaysForgotten, StaysPromised, StoredIDs
  <2>6. Saving(op[a])'
    BY <2>1, <2>3 DEF Saving
  <2>20. degraded' = "never" /\ op'[a].pc # "insert" => promised' \subseteq StoredIDs'
    BY <1>1, <2>1, StoredSoFar DEF PersistCheck, At, StoredIDs
  <2> QED BY <2>2, <2>3, <2>4, <2>5, <2>6, <2>20, AdminConcludes DEF At
<1>2. CASE PersistMark(a)
  <2>1. UNCHANGED <<stored, promised, forgotten, degraded, snapshot>>
    BY <1>2 DEF PersistMark
  <2>2. op[a].kind = "persist" /\ op[a].id \in ConnID /\ op[a].id \notin forgotten
    BY <1>0, <1>2 DEF PersistMark, At, Saving, OpType
  <2>3. RegistryInv'
    <3>1. MarkPersisted(op[a].id) \/ UNCHANGED connVars
      BY <1>2 DEF PersistMark
    <3> QED BY <1>0, <2>2, <3>1, RegistryStep DEF Next
  <2>4. persisted \subseteq persisted' /\ persisted' \subseteq persisted \cup {op[a].id}
    BY <1>2 DEF PersistMark, MarkPersisted, connVars
  <2>5. /\ op' \in [Admin -> OpType]
        /\ op'[a].kind = "persist" /\ op'[a].id = op[a].id /\ op'[a].pc = "read"
    BY <1>0, <1>2, <2>2, Shapes DEF PersistMark
  <2>6. StoreTypes'
    BY <1>0, <2>1, <2>5 DEF StoreTypes
  <2>7. StaysForgotten' /\ StaysPromised'
    BY <1>0, <2>1, <2>2, <2>4 DEF StaysForgotten, StaysPromised, StoredIDs
  <2>8. Saving(op[a])'
    BY <2>1, <2>2, <2>5 DEF Saving
  <2>20. degraded' = "never" /\ op'[a].pc # "insert" => promised' \subseteq StoredIDs'
    BY <1>2, <2>1, StoredSoFar DEF PersistMark, At, StoredIDs
  <2> QED BY <2>3, <2>5, <2>6, <2>7, <2>8, <2>20, AdminConcludes DEF At
<1>3. CASE PersistUndo(a)
  <2>1. UNCHANGED <<stored, promised, forgotten, degraded, snapshot>>
    BY <1>3 DEF PersistUndo
  <2>2. op[a].id \in ConnID /\ degraded = "now"
    BY <1>0, <1>3 DEF PersistUndo, At, Saving, OpType
  <2>3. RegistryInv'
    <3>1. UnmarkPersisted(op[a].id)
      BY <1>3 DEF PersistUndo
    <3> QED BY <1>0, <2>2, <3>1, RegistryStep DEF Next
  <2>4. persisted' \subseteq persisted
    BY <1>3 DEF PersistUndo, UnmarkPersisted
  <2>5. op' \in [Admin -> OpType] /\ op'[a].kind = "none" /\ op'[a].pc = "idle"
    BY <1>0, <1>3, Shapes DEF PersistUndo
  <2>6. StoreTypes'
    BY <1>0, <2>1, <2>5 DEF StoreTypes
  <2>7. StaysForgotten' /\ StaysPromised'
    BY <1>0, <2>1, <2>2, <2>4 DEF StaysForgotten, StaysPromised, StoredIDs
  <2>8. Saving(op[a])'
    BY <2>5 DEF Saving
  <2>20. degraded' = "never" /\ op'[a].pc # "insert" => promised' \subseteq StoredIDs'
    BY <2>1, <2>2
  <2> QED BY <2>1, <2>2, <2>3, <2>6, <2>7, <2>8, <2>20, AdminConcludes
<1> QED BY <1>1, <1>2, <1>3

\* adminForgetConnectionHandler keeps the invariant: what it removes is neither
\* marked nor stored any more, so a save would write the same without it.
LEMMA ForgetSteps ==
    ASSUME OneAdmin, StoreInv, NEW a \in Admin, starting = "no", UNCHANGED starting,
           (\E id \in ConnID : ForgetUnmark(a, id)) \/ ForgetRemove(a)
    PROVE  StoreInv'
<1>0. /\ RegistryInv /\ StoreTypes /\ StaysForgotten /\ StaysPromised
      /\ op \in [Admin -> OpType] /\ op[a] \in OpType /\ Saving(op[a])
  BY DEF StoreInv, StoreTypes
<1>1. ASSUME NEW id \in ConnID, ForgetUnmark(a, id)
      PROVE  StoreInv'
  <2>1. UNCHANGED <<stored, forgotten, degraded, snapshot>> /\ promised' = promised \ {id}
        /\ persisted' = persisted \ {id}
    BY <1>1 DEF ForgetUnmark, UnmarkPersisted
  <2>2. RegistryInv'
    BY <1>0, <1>1, RegistryStep DEF ForgetUnmark, Next
  <2>3. /\ op' \in [Admin -> OpType]
        /\ op'[a].kind = "forget" /\ op'[a].id = id /\ op'[a].pc = "read"
    BY <1>0, <1>1, Shapes DEF ForgetUnmark
  <2>4. StoreTypes'
    BY <1>0, <2>1, <2>3 DEF StoreTypes
  <2>5. StaysForgotten' /\ StaysPromised'
    BY <1>0, <2>1 DEF StaysForgotten, StaysPromised, StoredIDs
  <2>6. Saving(op[a])'
    BY <2>1, <2>3 DEF Saving
  <2>20. degraded' = "never" /\ op'[a].pc # "insert" => promised' \subseteq StoredIDs'
    BY <1>1, <2>1, StoredSoFar DEF ForgetUnmark, At, StoredIDs
  <2> QED BY <2>2, <2>3, <2>4, <2>5, <2>6, <2>20, AdminConcludes DEF At
<1>2. CASE ForgetRemove(a)
  <2> DEFINE id == op[a].id
  <2>1. UNCHANGED <<stored, promised, degraded, snapshot>>
    BY <1>2 DEF ForgetRemove
  <2>2. stored = <<StoredConfigs>> /\ id \notin persisted /\ id \in ConnID
    BY <1>0, <1>2 DEF ForgetRemove, At, Saving, OpType
  <2>3. Remove(id) \/ UNCHANGED connVars
    BY <1>2 DEF ForgetRemove
  <2>4. RegistryInv'
    BY <1>0, <2>2, <2>3, RegistryStep DEF Next
  <2>5. persisted' = persisted /\ (defaultID' = defaultID \/ (defaultID = id /\ defaultID' = DefaultID))
    BY <2>2, <2>3 DEF Remove, FallbackFrom, connVars
  <2>6. StoredConfigs' = StoredConfigs
    BY <1>0, <2>2, <2>4, <2>5, ConfigsKept
  <2>7. StoredIDs = persisted \ {DefaultID}
    <3>1. PICK v : v = StoredConfigs /\ stored = <<v>>
      BY <2>2
    <3>2. FirstIDs(stored) = IDs(v)
      BY <3>1 DEF FirstIDs
    <3> QED BY <1>0, <3>1, <3>2, StoredConfigsAre DEF StoredIDs
  <2>8. forgotten' \subseteq forgotten \cup {id}
    BY <1>2 DEF ForgetRemove
  <2>9. op' \in [Admin -> OpType] /\ op'[a].kind = "none" /\ op'[a].pc = "idle"
    BY <1>0, <1>2, Shapes DEF ForgetRemove
  <2>10. StoreTypes'
    BY <1>0, <2>1, <2>2, <2>8, <2>9 DEF StoreTypes
  <2>11. StaysForgotten' /\ StaysPromised'
    BY <1>0, <2>1, <2>2, <2>5, <2>7, <2>8 DEF StaysForgotten, StaysPromised, StoredIDs
  <2>12. Saving(op[a])'
    BY <2>9 DEF Saving
  <2>13. InSync'
    BY <2>1, <2>2, <2>6 DEF InSync
  <2>20. degraded' = "never" /\ op'[a].pc # "insert" => promised' \subseteq StoredIDs'
    BY <1>2, <2>1, StoredSoFar DEF ForgetRemove, At, StoredIDs
  <2> QED BY <2>4, <2>10, <2>11, <2>12, <2>13, <2>20, AdminConcludes
<1> QED BY <1>1, <1>2

\* adminSetDefaultConnectionHandler and the failure of a save keep the invariant.
LEMMA DefaultSteps ==
    ASSUME OneAdmin, StoreInv, NEW a \in Admin, starting = "no", UNCHANGED starting,
           (\E id \in ConnID : DefaultSet(a, id)) \/ SaveFail(a)
    PROVE  StoreInv'
<1>0. /\ RegistryInv /\ StoreTypes /\ StaysForgotten /\ StaysPromised
      /\ op \in [Admin -> OpType] /\ op[a] \in OpType /\ Saving(op[a])
  BY DEF StoreInv, StoreTypes
<1>1. ASSUME NEW id \in ConnID, DefaultSet(a, id)
      PROVE  StoreInv'
  <2>1. UNCHANGED <<stored, promised, forgotten, degraded, snapshot, persisted>>
    BY <1>1 DEF DefaultSet, SetDefault
  <2>2. RegistryInv'
    BY <1>0, <1>1, RegistryStep DEF DefaultSet, Next
  <2>3. op' \in [Admin -> OpType] /\ op'[a].kind = "default" /\ op'[a].pc = "read"
    BY <1>0, <1>1, Shapes DEF DefaultSet
  <2>4. StoreTypes'
    BY <1>0, <2>1, <2>3 DEF StoreTypes
  <2>5. StaysForgotten' /\ StaysPromised'
    BY <1>0, <2>1 DEF StaysForgotten, StaysPromised, StoredIDs
  <2>6. Saving(op[a])'
    BY <2>1, <2>3 DEF Saving
  <2>20. degraded' = "never" /\ op'[a].pc # "insert" => promised' \subseteq StoredIDs'
    BY <1>1, <2>1, StoredSoFar DEF DefaultSet, At, StoredIDs
  <2> QED BY <2>2, <2>3, <2>4, <2>5, <2>6, <2>20, AdminConcludes DEF At
<1>2. CASE SaveFail(a)
  <2>1. UNCHANGED <<connVars, stored, promised, forgotten, snapshot>> /\ degraded' = "now"
    BY <1>2 DEF SaveFail
  <2>2. RegistryInv' /\ persisted' = persisted
    BY <1>0, <2>1, RegistryKept
  <2>3. /\ op' \in [Admin -> OpType]
        /\ \/ op'[a].kind = "none" /\ op'[a].pc = "idle"
           \/ /\ op[a].kind = "persist" /\ op'[a].kind = op[a].kind
              /\ op'[a].pc = "undo" /\ op'[a].id = op[a].id
    <3>1. Done(a) \/ (op[a].kind = "persist" /\ Goto(a, "undo"))
      BY <1>2 DEF SaveFail
    <3> QED BY <1>0, <3>1, Shapes
  <2>4. StoreTypes'
    BY <1>0, <2>1, <2>3 DEF StoreTypes
  <2>5. StaysForgotten' /\ StaysPromised'
    BY <1>0, <2>1, <2>2 DEF StaysForgotten, StaysPromised, StoredIDs
  <2>6. Saving(op[a])'
    BY <1>0, <2>1, <2>3 DEF Saving
  <2>20. degraded' = "never" /\ op'[a].pc # "insert" => promised' \subseteq StoredIDs'
    BY <2>1
  <2> QED BY <2>1, <2>2, <2>4, <2>5, <2>6, <2>20, AdminConcludes
<1> QED BY <1>1, <1>2

\* saveManagedConnections keeps the invariant: it stores what it read, which is
\* still what is marked.
LEMMA SaveSteps ==
    ASSUME OneAdmin, StoreInv, NEW a \in Admin, starting = "no", UNCHANGED starting,
           ReadConfigs(a) \/ SaveDelete(a) \/ SaveInsert(a)
    PROVE  StoreInv'
<1>0. /\ RegistryInv /\ StoreTypes /\ StaysForgotten /\ StaysPromised
      /\ op \in [Admin -> OpType] /\ op[a] \in OpType /\ Saving(op[a])
  BY DEF StoreInv, StoreTypes
<1>1. UNCHANGED <<connVars, forgotten, snapshot>>
  BY DEF ReadConfigs, SaveDelete, SaveInsert
<1>2. RegistryInv' /\ StoredConfigs' = StoredConfigs /\ persisted' = persisted
  BY <1>0, <1>1, RegistryKept
<1>3. CASE ReadConfigs(a)
  <2>1. UNCHANGED <<stored, promised, degraded>>
    BY <1>3 DEF ReadConfigs
  <2>2. PICK v : v = StoredConfigs
    OBVIOUS
  <2>3. op'[a] = [op[a] EXCEPT !.value = v, !.pc = "delete"]
    BY <1>0, <1>3, <2>2 DEF ReadConfigs, StoreTypes
  <2>4. v \in SUBSET Config
    BY <1>0, <2>2, ConfigsAreConfig
  <2>5. op'[a] \in OpType
    BY <1>0, <2>3, <2>4 DEF OpType
  <2>6. op' \in [Admin -> OpType]
    BY <1>0, <1>3, <2>2, <2>3, <2>5 DEF ReadConfigs, StoreTypes
  <2>7. /\ op'[a].kind = op[a].kind /\ op'[a].id = op[a].id
        /\ op'[a].value = v /\ op'[a].pc = "delete"
    BY <1>0, <2>3 DEF OpType
  <2>8. StoreTypes'
    BY <1>0, <1>1, <2>1, <2>6 DEF StoreTypes
  <2>9. StaysForgotten' /\ StaysPromised'
    BY <1>0, <1>1, <1>2, <2>1 DEF StaysForgotten, StaysPromised, StoredIDs
  <2>10. op[a].kind # "none"
    BY <1>0, <1>3 DEF ReadConfigs, At, Saving
  <2>11. Saving(op[a])'
    BY <1>0, <1>1, <1>2, <2>2, <2>7, <2>10 DEF Saving
  <2>20. degraded' = "never" /\ op'[a].pc # "insert" => promised' \subseteq StoredIDs'
    BY <1>3, <2>1, StoredSoFar DEF ReadConfigs, At, StoredIDs
  <2> QED BY <1>2, <2>7, <2>8, <2>9, <2>11, <2>20, AdminConcludes DEF At
<1>4. CASE SaveDelete(a)
  <2>1. UNCHANGED <<promised, degraded>> /\ stored' = << >>
    BY <1>4 DEF SaveDelete
  <2>2. /\ op' \in [Admin -> OpType]
        /\ op'[a].kind = op[a].kind /\ op'[a].id = op[a].id
        /\ op'[a].value = op[a].value /\ op'[a].pc = "insert"
    BY <1>0, <1>4, Shapes DEF SaveDelete
  <2>3. op[a].kind # "none" /\ op[a].value = StoredConfigs
    BY <1>0, <1>4 DEF SaveDelete, At, Saving
  <2>4. StoreTypes'
    BY <1>0, <1>1, <2>1, <2>2 DEF StoreTypes, SavedRows
  <2>5. StaysForgotten' /\ StaysPromised'
    BY <1>0, <1>1, <1>2, <2>1 DEF StaysForgotten, StaysPromised, StoredIDs, FirstIDs
  <2>6. Saving(op[a])'
    BY <1>0, <1>1, <1>2, <2>1, <2>2, <2>3 DEF Saving
  <2>20. degraded' = "never" /\ op'[a].pc # "insert" => promised' \subseteq StoredIDs'
    BY <2>2
  <2> QED BY <1>2, <2>2, <2>4, <2>5, <2>6, <2>20, AdminConcludes DEF At
<1>5. CASE SaveInsert(a)
  <2>1. stored = << >> /\ op[a].value = StoredConfigs /\ op[a].kind # "none"
    BY <1>0, <1>5 DEF SaveInsert, At, Saving
  <2>2. PICK v : v = StoredConfigs
    OBVIOUS
  <2>3. stored' = <<v>>
    BY <1>5, <2>1, <2>2 DEF SaveInsert
  <2>4. Saved(v) /\ IDs(v) = persisted \ {DefaultID}
    BY <1>0, <2>2, StoredConfigsAre
  <2>5. FirstIDs(stored') = persisted \ {DefaultID} /\ SavedRows(stored')
    BY <2>3, <2>4 DEF FirstIDs, SavedRows
  <2>6. InSync' /\ stored' = <<StoredConfigs'>>
    BY <1>2, <2>2, <2>3 DEF InSync
  <2>7. degraded' = IF degraded = "now" THEN "before" ELSE degraded
    BY <1>5 DEF SaveInsert
  <2>8. promised' \subseteq promised \cup (persisted \ {DefaultID})
    <3>1. promised' = IF op[a].kind = "persist" /\ op[a].id \in IDs(op[a].value)
                      THEN promised \cup {op[a].id} ELSE promised
      BY <1>5 DEF SaveInsert
    <3> QED BY <2>1, <2>2, <2>4, <3>1
  <2>9. /\ op' \in [Admin -> OpType]
        /\ \/ op'[a].kind = "none" /\ op'[a].pc = "idle"
           \/ /\ op[a].kind = "forget" /\ op'[a].kind = op[a].kind
              /\ op'[a].pc = "remove" /\ op'[a].id = op[a].id
    <3>1. Done(a) \/ (op[a].kind = "forget" /\ Goto(a, "remove"))
      BY <1>5 DEF SaveInsert
    <3> QED BY <1>0, <3>1, Shapes
  <2>10. StoreTypes'
    <3>1. promised' \subseteq ConnID
      BY <1>0, <2>8 DEF StoreTypes, RegistryInv, TypeOK
    <3> QED BY <1>0, <1>1, <2>5, <2>7, <2>9, <3>1 DEF StoreTypes
  <2>11. StaysForgotten' /\ StaysPromised'
    BY <1>0, <1>1, <1>2, <2>5, <2>7, <2>8 DEF StaysForgotten, StaysPromised, StoredIDs
  <2>12. Saving(op[a])'
    BY <1>0, <1>1, <1>2, <2>6, <2>9 DEF Saving
  <2>20. degraded' = "never" /\ op'[a].pc # "insert" => promised' \subseteq StoredIDs'
    <3>1. degraded' = "never" => promised' \subseteq persisted \ {DefaultID}
      BY <1>2, <2>11 DEF StaysPromised
    <3> QED BY <2>5, <3>1 DEF StoredIDs
  <2> QED BY <1>2, <2>6, <2>10, <2>11, <2>12, <2>20, AdminConcludes
<1> QED BY <1>3, <1>4, <1>5

----------------------------------------------------------------------------
(* Every step of the store *)

\* A process that starts from rows a save wrote has forgotten nothing it stores
\* and, unless something went wrong, has marked all it promised.
LEMMA StartSteps ==
    ASSUME OneAdmin, NEW rows, NEW troubled, SavedRows(rows), StartFrom(rows, troubled),
           SavedRows(stored), degraded \in {"never", "now", "before"},
           forgotten' \cap (FirstIDs(rows) \cup EnvIDs) = {}, forgotten' \subseteq ConnID,
           promised' \subseteq ConnID,
           degraded = "never" /\ ~troubled => promised' \subseteq FirstIDs(rows),
           SavedRows(snapshot'.rows),
           snapshot'.promised \subseteq ConnID, snapshot'.forgotten \subseteq ConnID,
           snapshot'.forgotten \cap FirstIDs(snapshot'.rows) = {},
           degraded = "never" /\ ~troubled => snapshot'.promised \subseteq FirstIDs(snapshot'.rows)
    PROVE  StoreInv'
<1> USE ConnectionsAssumption
<1>0. PICK ids \in SUBSET (ConnID \ {DefaultID}) :
        \E d \in ids \cup {DefaultID} : StartedWith(rows, ids, d, troubled)
  BY Starts DEF SavedRows
<1>1. PICK d \in ids \cup {DefaultID} : StartedWith(rows, ids, d, troubled)
  BY <1>0
<1>2. persisted' = ids /\ defaultID' = d
  BY <1>1 DEF StartedWith, Reboot
<1>3. RegistryInv'
  <2>1. Booted(ids, d)'
    BY <1>1 DEF StartedWith, Reboot, Booted
  <2> QED BY <2>1, BootedNext
<1>4. StoredConfigs' = ConfigsOf(ids, d)
  <2>1. ids \ {DefaultID} = ids
    OBVIOUS
  <2> QED BY <1>2, <1>3, <2>1, StoredConfigsNext
<1>5. PICK v : v = ConfigsOf(ids, d)
  OBVIOUS
<1>6. Saved(v) /\ IDs(v) = ids /\ (ids = {} => v = {})
  <2>1. d \in ConnID
    OBVIOUS
  <2>2. Saved(v)
    BY <1>5, <2>1, ConfigsSaved
  <2>3. IDs(v) = ids
    BY <1>5, ConfigIDs
  <2>4. ids = {} => v = {}
    BY <1>5 DEF ConfigsOf
  <2> QED BY <2>2, <2>3, <2>4
<1>7. /\ stored' = rows /\ ids \subseteq FirstIDs(rows) \cup EnvIDs
      /\ starting' \in {"no", "delete"}
      /\ degraded' # "now" => /\ FirstIDs(rows) \subseteq ids
                              /\ starting' = "no" =>
                                   rows = <<v>> \/ (rows = << >> /\ ids = {})
      /\ degraded' \in {"now", "before", degraded}
      /\ degraded' = "never" => degraded = "never" /\ ~troubled
  BY <1>1, <1>5 DEF StartedWith
<1>8. SavedRows(stored') /\ FirstIDs(stored') = FirstIDs(rows)
  BY <1>7
<1>10. op' = [a \in Admin |-> Idle]
  BY <1>1 DEF StartedWith
<1>11. op' \in [Admin -> OpType]
  <2>1. Idle \in OpType
    BY DEF OpType, Idle
  <2> QED BY <1>10, <2>1
<1>12. StoreTypes'
  BY <1>7, <1>8, <1>11 DEF StoreTypes
<1>13. (\A a \in Admin : Saving(op[a]))'
  <2> SUFFICES ASSUME NEW a \in Admin
               PROVE  Saving(op[a])'
    OBVIOUS
  <2>1. op'[a].kind = "none" /\ op'[a].pc = "idle"
    BY <1>10 DEF Idle
  <2> QED BY <2>1 DEF Saving
<1>14. degraded' # "now" /\ starting' = "no" => InSync'
  BY <1>4, <1>5, <1>6, <1>7 DEF InSync
<1>15. StaysForgotten'
  BY <1>2, <1>7, <1>8 DEF StaysForgotten, StoredIDs
<1>16. StaysPromised'
  BY <1>2, <1>7 DEF StaysPromised
<1>17. SavedSurvives'
  BY <1>7, <1>8 DEF SavedSurvives, StoredIDs
<1>18. StartupAlone'
  BY <1>7, <1>10 DEF StartupAlone, At, Idle
<1>19. (Quiet /\ degraded # "now" => InSync)'
  BY <1>14 DEF Quiet
<1> QED BY <1>3, <1>12, <1>13, <1>15, <1>16, <1>17, <1>18, <1>19 DEF StoreInv

\* Startup's own save keeps the invariant: nothing else writes in the meantime.
LEMMA StartupSteps ==
    ASSUME StoreInv, StartupDelete \/ StartupInsert \/ StartupFail
    PROVE  StoreInv'
<1>0. /\ RegistryInv /\ StoreTypes /\ StaysForgotten /\ StaysPromised
      /\ \A a \in Admin : At(a, "idle")
      /\ \A a \in Admin : Saving(op[a])
      /\ starting = "insert" => stored = << >>
  BY DEF StoreInv, StartupAlone, StartupDelete, StartupInsert, StartupFail
<1>1. UNCHANGED <<connVars, op, promised, forgotten, snapshot>>
  BY DEF StartupDelete, StartupInsert, StartupFail
<1>2. RegistryInv' /\ StoredConfigs' = StoredConfigs /\ persisted' = persisted
  BY <1>0, <1>1, RegistryKept
<1>3. /\ (\A a \in Admin : At(a, "idle"))'
      /\ (\A a \in Admin : Saving(op[a]))'
  BY <1>0, <1>1, <1>2 DEF At, Saving
<1>4. CASE StartupDelete
  <2>1. stored' = << >> /\ starting' = "insert" /\ degraded' = degraded
    BY <1>4 DEF StartupDelete
  <2>2. StoreTypes' /\ StaysForgotten' /\ StaysPromised'
    BY <1>0, <1>1, <1>2, <2>1 DEF StoreTypes, SavedRows, StaysForgotten, StaysPromised,
       StoredIDs, FirstIDs
  <2> QED
    BY <1>2, <1>3, <2>1, <2>2 DEF StoreInv, StartupAlone, SavedSurvives, MidSave, Quiet
<1>5. CASE StartupInsert
  <2>1. PICK v : v = StoredConfigs
    OBVIOUS
  <2>2. stored' = <<v>> /\ starting' = "no"
        /\ degraded' = (IF degraded = "now" THEN "before" ELSE degraded)
    BY <1>0, <1>5, <2>1 DEF StartupInsert
  <2>3. Saved(v) /\ IDs(v) = persisted \ {DefaultID}
    BY <1>0, <2>1, StoredConfigsAre
  <2>4. FirstIDs(stored') = persisted \ {DefaultID} /\ SavedRows(stored')
    BY <2>2, <2>3 DEF FirstIDs, SavedRows
  <2>5. StoreTypes' /\ StaysForgotten' /\ StaysPromised'
    BY <1>0, <1>1, <1>2, <2>2, <2>4 DEF StoreTypes, StaysForgotten, StaysPromised, StoredIDs
  <2>6. InSync'
    BY <1>2, <2>1, <2>2 DEF InSync
  <2>7. SavedSurvives'
    BY <1>0, <1>1, <2>2, <2>4 DEF SavedSurvives, StaysPromised, StoredIDs
  <2> QED BY <1>2, <1>3, <2>2, <2>5, <2>6, <2>7 DEF StoreInv, StartupAlone
<1>6. CASE StartupFail
  <2>1. stored' = stored /\ starting' = "no" /\ degraded' = "now"
    BY <1>6 DEF StartupFail
  <2>2. StoreTypes' /\ StaysForgotten' /\ StaysPromised'
    BY <1>0, <1>1, <1>2, <2>1 DEF StoreTypes, StaysForgotten, StaysPromised, StoredIDs
  <2> QED BY <1>2, <1>3, <2>1, <2>2 DEF StoreInv, StartupAlone, SavedSurvives
<1> QED BY <1>4, <1>5, <1>6

\* Restarts and crashes keep the invariant.
LEMMA RestartSteps ==
    ASSUME OneAdmin, StoreInv, Restart \/ Crash
    PROVE  StoreInv'
<1>0. RegistryInv /\ StoreTypes /\ StaysForgotten /\ StaysPromised
  BY DEF StoreInv
<1>1. /\ degraded = "never" /\ ~MidSave => promised \subseteq FirstIDs(stored)
      /\ Quiet => ~MidSave
  BY DEF StoreInv, SavedSurvives, StoredIDs, Quiet, MidSave, At
<1>2. CASE Restart
  <2>1. PICK rows : rows = stored
    OBVIOUS
  <2>2. Quiet /\ StartFrom(rows, FALSE) /\ forgotten' = forgotten \ EnvIDs /\ promised' = promised
    BY <1>2, <2>1 DEF Restart
  <2>3. snapshot' = snapshot
        \/ (/\ snapshot'.rows = rows
            /\ snapshot'.promised = promised /\ snapshot'.forgotten = forgotten)
    BY <1>2, <2>1 DEF Restart
  <2>4. SavedRows(rows) /\ forgotten \cap FirstIDs(rows) = {}
    BY <1>0, <2>1 DEF StoreTypes, StaysForgotten, StoredIDs
  <2>5. SavedRows(snapshot'.rows) /\ snapshot'.forgotten \cap FirstIDs(snapshot'.rows) = {}
    BY <1>0, <2>3, <2>4 DEF StoreTypes, StaysForgotten
  <2>6. degraded = "never" =>
          promised' \subseteq FirstIDs(rows) /\ snapshot'.promised \subseteq FirstIDs(snapshot'.rows)
    BY <1>0, <1>1, <2>1, <2>2, <2>3 DEF StaysPromised
  <2>7. /\ SavedRows(stored) /\ degraded \in {"never", "now", "before"}
        /\ forgotten' \subseteq ConnID /\ promised' \subseteq ConnID
        /\ snapshot'.promised \subseteq ConnID /\ snapshot'.forgotten \subseteq ConnID
    BY <1>0, <2>2, <2>3 DEF StoreTypes
  <2>8. forgotten' \cap (FirstIDs(rows) \cup EnvIDs) = {}
    BY <2>2, <2>4
  <2> QED BY <2>2, <2>4, <2>5, <2>6, <2>7, <2>8, StartSteps
<1>3. CASE Crash
  <2>1. snapshot' = snapshot
    BY <1>3 DEF Crash
  <2>2. SavedRows(stored) /\ degraded \in {"never", "now", "before"}
        /\ SavedRows(snapshot'.rows) /\ snapshot'.forgotten \cap FirstIDs(snapshot'.rows) = {}
        /\ (degraded = "never" => snapshot'.promised \subseteq FirstIDs(snapshot'.rows))
        /\ snapshot'.promised \subseteq ConnID /\ snapshot'.forgotten \subseteq ConnID
    BY <1>0, <2>1 DEF StoreTypes, StaysForgotten, StaysPromised
  <2>3. CASE StartFrom(stored, MidSave) /\ promised' = promised /\ forgotten' = forgotten \ EnvIDs
    <3>1. PICK rows, troubled : rows = stored /\ troubled = MidSave
      OBVIOUS
    <3>2. StartFrom(rows, troubled)
      BY <2>3, <3>1
    <3>3. SavedRows(rows) /\ forgotten \cap FirstIDs(rows) = {}
      BY <1>0, <3>1 DEF StoreTypes, StaysForgotten, StoredIDs
    <3>4. degraded = "never" /\ ~troubled => promised' \subseteq FirstIDs(rows)
      BY <1>1, <2>3, <3>1
    <3>5. forgotten' \subseteq ConnID /\ promised' \subseteq ConnID
      BY <1>0, <2>3 DEF StoreTypes
    <3>6. forgotten' \cap (FirstIDs(rows) \cup EnvIDs) = {}
      BY <2>3, <3>3
    <3> QED BY <2>2, <3>2, <3>3, <3>4, <3>5, <3>6, StartSteps
  <2>4. CASE /\ StartFrom(snapshot.rows, FALSE)
             /\ promised' = snapshot.promised /\ forgotten' = snapshot.forgotten \ EnvIDs
    <3>1. PICK rows : rows = snapshot.rows
      OBVIOUS
    <3>2. StartFrom(rows, FALSE)
      BY <2>4, <3>1
    <3>3. SavedRows(rows) /\ snapshot.forgotten \cap FirstIDs(rows) = {}
      BY <1>0, <3>1 DEF StoreTypes, StaysForgotten
    <3>4. degraded = "never" => promised' \subseteq FirstIDs(rows)
      BY <1>0, <2>4, <3>1 DEF StaysPromised
    <3>5. forgotten' \subseteq ConnID /\ promised' \subseteq ConnID
      BY <1>0, <2>4 DEF StoreTypes
    <3>6. forgotten' \cap (FirstIDs(rows) \cup EnvIDs) = {}
      BY <2>4, <3>3
    <3> QED BY <2>2, <3>2, <3>3, <3>4, <3>5, <3>6, StartSteps
  <2> QED BY <1>3, <2>3, <2>4 DEF Crash
<1> QED BY <1>2, <1>3

\* A server that has stored nothing yet starts in the invariant.
LEMMA StoreInitInv == StoreInit => StoreInv
<1> SUFFICES ASSUME StoreInit
             PROVE  StoreInv
  OBVIOUS
<1> USE ConnectionsAssumption
<1>1. RegistryInv /\ persisted = {}
  <2>1. Booted({}, DefaultID)
    BY DEF StoreInit
  <2> QED BY <2>1, BootedInv DEF Booted
<1>2. StoredConfigs = {}
  BY <1>1 DEF StoredConfigs
<1>3. /\ stored = << >> /\ promised = {} /\ forgotten = {} /\ degraded = "never"
      /\ snapshot = [rows |-> << >>, promised |-> {}, forgotten |-> {}]
      /\ op = [a \in Admin |-> Idle] /\ starting = "no"
  BY DEF StoreInit, NothingStored
<1>4. snapshot.rows = << >> /\ snapshot.promised = {} /\ snapshot.forgotten = {}
  BY <1>3
<1>5. Idle \in OpType /\ Idle.pc = "idle" /\ Idle.kind = "none"
  BY DEF OpType, Idle
<1>6. StoreTypes
  BY <1>3, <1>4, <1>5 DEF StoreTypes, SavedRows
<1>7. \A a \in Admin : Saving(op[a])
  BY <1>3, <1>5 DEF Saving
<1>8. StaysForgotten /\ StaysPromised
  BY <1>3, <1>4 DEF StaysForgotten, StaysPromised
<1>9. StartupAlone /\ SavedSurvives
  BY <1>3 DEF StartupAlone, SavedSurvives
<1> QED BY <1>1, <1>2, <1>3, <1>6, <1>7, <1>8, <1>9 DEF StoreInv, InSync

\* No step leads out of the invariant of the stored connections.
LEMMA StoreStep ==
    ASSUME OneAdmin, StoreInv, [StoreNext]_vars
    PROVE  StoreInv'
<1>1. ASSUME NEW a \in Admin, starting = "no", AdminStep(a), UNCHANGED starting
      PROVE  StoreInv'
  BY <1>1, PersistSteps, ForgetSteps, DefaultSteps, SaveSteps DEF AdminStep
<1>2. CASE (starting = "no" /\ SessionNext /\ UNCHANGED storeVars) \/ UNCHANGED vars
  <2>1. UNCHANGED storeVars
    BY <1>2 DEF vars
  <2>2. UNCHANGED <<stored, starting, op, promised, forgotten, degraded, snapshot>>
    BY <2>1 DEF storeVars
  <2>3. RegistryInv /\ StoreTypes /\ StaysForgotten /\ StaysPromised
        /\ (Quiet /\ degraded # "now" => InSync) /\ (\A a \in Admin : Saving(op[a]))
        /\ StartupAlone /\ SavedSurvives
    BY DEF StoreInv
  <2>4. RegistryInv' /\ StoredConfigs' = StoredConfigs /\ persisted' = persisted
    <3>1. CASE SessionNext
      <4>1. RegistryInv'
        BY <2>3, <3>1, RegistryStep DEF Next
      <4> QED BY <2>3, <3>1, <4>1, SessionsKeepConfigs
    <3>2. CASE UNCHANGED connVars
      BY <2>3, <3>2, RegistryKept
    <3> QED BY <1>2, <3>1, <3>2 DEF vars
  <2>5. StoreTypes' /\ StaysForgotten' /\ StaysPromised'
    BY <2>2, <2>3, <2>4 DEF StoreTypes, StaysForgotten, StaysPromised, StoredIDs
  <2>6. (Quiet /\ degraded # "now" => InSync)'
    BY <2>2, <2>3, <2>4 DEF Quiet, At, InSync
  <2>7. (\A a \in Admin : Saving(op[a]))'
    BY <2>2, <2>3, <2>4 DEF Saving
  <2>8. StartupAlone' /\ SavedSurvives'
    BY <2>2, <2>3 DEF StartupAlone, SavedSurvives, MidSave, At, StoredIDs
  <2> QED BY <2>4, <2>5, <2>6, <2>7, <2>8 DEF StoreInv
<1> QED BY <1>1, <1>2, StartupSteps, RestartSteps DEF StoreNext

\* With one administrator at a time, the settings row says between requests
\* exactly what a save would write, whatever sessions do, whichever saves fail
\* and however often the process stops: saveManagedConnections stores what is
\* marked, and startup marks what is stored.
THEOREM StoredMatches ==
    ASSUME OneAdmin
    PROVE  StoreSpec => []StoredInSync
<1>1. StoreInv => StoredInSync
  BY DEF StoreInv, StoredInSync, InSync
<1>2. StoreInv /\ [StoreNext]_vars => StoreInv'
  BY StoreStep
<1> QED BY <1>1, <1>2, StoreInitInv, PTL DEF StoreSpec

\* With one administrator at a time, what adminPersistConnectionHandler reported
\* saved is stored through any number of restarts and crashes until someone asks
\* to forget it, as long as no save, an administrator's or startup's own, fails or
\* is cut short between its two statements and all stored databases can be opened.
THEOREM SavedStay ==
    ASSUME OneAdmin
    PROVE  StoreSpec => []SavedSurvives
<1>1. StoreInv => SavedSurvives
  BY DEF StoreInv
<1>2. StoreInv /\ [StoreNext]_vars => StoreInv'
  BY StoreStep
<1> QED BY <1>1, <1>2, StoreInitInv, PTL DEF StoreSpec

\* With one administrator at a time, what adminForgetConnectionHandler reported
\* forgotten is stored by no later save and no later process, even where saves
\* fail and processes crash.
THEOREM ForgottenGone ==
    ASSUME OneAdmin
    PROVE  StoreSpec => []ForgottenStaysGone
<1>1. StoreInv => ForgottenStaysGone
  BY DEF StoreInv, ForgottenStaysGone, StaysForgotten
<1>2. StoreInv /\ [StoreNext]_vars => StoreInv'
  BY StoreStep
<1> QED BY <1>1, <1>2, StoreInitInv, PTL DEF StoreSpec

----------------------------------------------------------------------------
(* The registry underneath, for any number of administrators *)

\* Seen from the registry, every step of the store is a step of the registry, or
\* a process that starts.
LEMMA StoreImplements ==
    ASSUME RegistryInv, RequestsInv, [StoreNext]_vars
    PROVE  \/ [Next]_connVars
           \/ \E ids \in SUBSET (ConnID \ {DefaultID}) : \E d \in ids \cup {DefaultID} :
                 Booted(ids, d)'
<1>1. ASSUME NEW a \in Admin, AdminStep(a)
      PROVE  [Next]_connVars
  <2>1. op[a].id \in ConnID
    BY DEF RequestsInv, OpType
  <2>2. ASSUME NEW id \in ConnID, PersistCheck(a, id) \/ ForgetUnmark(a, id) \/ DefaultSet(a, id)
        PROVE  [Next]_connVars
    BY <2>2 DEF PersistCheck, ForgetUnmark, DefaultSet, Next
  <2>3. PersistMark(a) \/ PersistUndo(a) \/ ForgetRemove(a) => [Next]_connVars
    BY <2>1 DEF PersistMark, PersistUndo, ForgetRemove, Next
  <2>4. ReadConfigs(a) \/ SaveDelete(a) \/ SaveInsert(a) \/ SaveFail(a) => UNCHANGED connVars
    BY DEF ReadConfigs, SaveDelete, SaveInsert, SaveFail
  <2> QED BY <1>1, <2>2, <2>3, <2>4 DEF AdminStep
<1>2. SessionNext \/ StartupDelete \/ StartupInsert \/ StartupFail \/ UNCHANGED vars
        => [Next]_connVars
  BY DEF Next, vars, StartupDelete, StartupInsert, StartupFail
<1>3. ASSUME NEW rows, NEW troubled, AllSaved(rows), StartFrom(rows, troubled)
      PROVE  \E ids \in SUBSET (ConnID \ {DefaultID}) : \E d \in ids \cup {DefaultID} :
                Booted(ids, d)'
  <2>1. rows = << >> \/ Saved(rows[1])
    BY <1>3 DEF AllSaved
  <2>2. PICK ids \in SUBSET (ConnID \ {DefaultID}) :
          \E d \in ids \cup {DefaultID} : StartedWith(rows, ids, d, troubled)
    BY <1>3, <2>1, Starts
  <2>3. PICK d \in ids \cup {DefaultID} : StartedWith(rows, ids, d, troubled)
    BY <2>2
  <2>4. Booted(ids, d)'
    BY <2>3 DEF StartedWith, Reboot, Booted
  <2> QED BY <2>4
<1>4. ASSUME Restart \/ Crash
      PROVE  \E ids \in SUBSET (ConnID \ {DefaultID}) : \E d \in ids \cup {DefaultID} :
                Booted(ids, d)'
  <2>1. PICK rows, troubled : AllSaved(rows) /\ StartFrom(rows, troubled)
    <3>1. CASE Restart
      BY <3>1 DEF Restart, RequestsInv
    <3>2. CASE Crash
      BY <3>2 DEF Crash, RequestsInv
    <3> QED BY <1>4, <3>1, <3>2
  <2> QED BY <1>3, <2>1
<1> QED BY <1>1, <1>2, <1>4 DEF StoreNext

\* Whatever the requests' order, every row written is a value a save read, and
\* every value names connections that were marked.
LEMMA RequestsStep ==
    ASSUME RegistryInv, RequestsInv, [StoreNext]_vars
    PROVE  RequestsInv'
<1> USE ConnectionsAssumption, StoreAssumption
<1>0. /\ op \in [Admin -> OpType]
      /\ \A a \in Admin : op[a].pc \in {"delete", "insert"} => Saved(op[a].value)
      /\ AllSaved(stored) /\ AllSaved(snapshot.rows)
  BY DEF RequestsInv
<1>1. ASSUME NEW v \in SUBSET Config, NEW rows, AllSaved(rows), Saved(v)
      PROVE  AllSaved(Append(rows, v))
  BY <1>1 DEF AllSaved
<1>2. AllSaved(<< >>)
  BY DEF AllSaved
<1>3. ASSUME NEW a \in Admin,
             \/ \E id \in ConnID : PersistCheck(a, id) \/ ForgetUnmark(a, id) \/ DefaultSet(a, id)
             \/ PersistMark(a) \/ PersistUndo(a) \/ ForgetRemove(a) \/ SaveFail(a)
      PROVE  RequestsInv'
  <2>1. UNCHANGED <<stored, snapshot>>
    BY <1>3 DEF PersistCheck, ForgetUnmark, DefaultSet, PersistMark, PersistUndo, ForgetRemove,
       SaveFail
  <2>2. \/ \E kind \in {"persist", "forget", "default"}, id \in ConnID, pc \in {"mark", "read"} :
              Begin(a, kind, id, pc)
        \/ Done(a) \/ Goto(a, "read") \/ Goto(a, "undo")
    BY <1>3 DEF PersistCheck, ForgetUnmark, DefaultSet, PersistMark, PersistUndo, ForgetRemove,
       SaveFail
  <2>3. op' \in [Admin -> OpType] /\ op'[a].pc \in {"mark", "read", "undo", "idle"}
    <3>1. CASE \E kind \in {"persist", "forget", "default"}, id \in ConnID, pc \in {"mark", "read"} :
                  Begin(a, kind, id, pc)
      <4>1. PICK kind \in {"persist", "forget", "default"}, id \in ConnID, pc \in {"mark", "read"} :
              Begin(a, kind, id, pc)
        BY <3>1
      <4> QED BY <1>0, <4>1, Shapes
    <3>2. CASE Done(a)
      BY <1>0, <3>2, Shapes
    <3>3. CASE Goto(a, "read") \/ Goto(a, "undo")
      BY <1>0, <3>3, Shapes
    <3> QED BY <2>2, <3>1, <3>2, <3>3
  <2>4. \A b \in Admin : b # a => op'[b] = op[b]
    BY <1>0, <2>2 DEF Begin, Done, Goto
  <2>5. \A b \in Admin : op'[b].pc \in {"delete", "insert"} => Saved(op'[b].value)
    BY <1>0, <2>3, <2>4
  <2> QED BY <1>0, <2>1, <2>3, <2>5 DEF RequestsInv
<1>4. ASSUME NEW a \in Admin, ReadConfigs(a)
      PROVE  RequestsInv'
  <2>1. UNCHANGED <<stored, snapshot>>
    BY <1>4 DEF ReadConfigs
  <2>2. PICK v : v = StoredConfigs
    OBVIOUS
  <2>3. v \in SUBSET Config /\ Saved(v)
    BY <2>2, ConfigsAreConfig, StoredConfigsAre
  <2>4. op' = [op EXCEPT ![a].value = v, ![a].pc = "delete"]
    BY <1>4, <2>2 DEF ReadConfigs
  <2>5. op'[a] = [op[a] EXCEPT !.value = v, !.pc = "delete"]
    BY <1>0, <2>4
  <2>6. op[a] \in OpType
    BY <1>0
  <2>7. op'[a] \in OpType /\ op'[a].value = v
    BY <2>3, <2>5, <2>6 DEF OpType
  <2>8. \A b \in Admin : b # a => op'[b] = op[b]
    BY <1>0, <2>4
  <2>9. op' \in [Admin -> OpType]
    BY <1>0, <2>4, <2>7, <2>8
  <2>10. \A b \in Admin : op'[b].pc \in {"delete", "insert"} => Saved(op'[b].value)
    BY <1>0, <2>3, <2>7, <2>8
  <2> QED BY <1>0, <2>1, <2>9, <2>10 DEF RequestsInv
<1>5. ASSUME NEW a \in Admin, SaveDelete(a) \/ SaveInsert(a)
      PROVE  RequestsInv'
  <2>1. UNCHANGED snapshot /\ op[a].pc \in {"delete", "insert"}
        /\ (stored' = << >> \/ stored' = Append(stored, op[a].value))
    BY <1>5 DEF SaveDelete, SaveInsert, At
  <2>2. op[a] \in OpType /\ op[a].value \in SUBSET Config /\ Saved(op[a].value)
    BY <1>0, <2>1 DEF OpType
  <2>3. AllSaved(stored')
    <3>1. PICK v, rows : v = op[a].value /\ rows = stored
      OBVIOUS
    <3>2. AllSaved(Append(rows, v))
      BY <1>0, <1>1, <2>2, <3>1
    <3> QED BY <1>2, <2>1, <3>1, <3>2
  <2>4. Goto(a, "insert") \/ Goto(a, "remove") \/ Done(a)
    BY <1>5 DEF SaveDelete, SaveInsert
  <2>5. op' \in [Admin -> OpType] /\ (op'[a].pc \in {"remove", "idle"} \/ op'[a].value = op[a].value)
    BY <1>0, <2>4, Shapes
  <2>6. \A b \in Admin : b # a => op'[b] = op[b]
    BY <1>0, <2>4 DEF Done, Goto
  <2>7. \A b \in Admin : op'[b].pc \in {"delete", "insert"} => Saved(op'[b].value)
    BY <1>0, <2>2, <2>5, <2>6
  <2> QED BY <1>0, <2>1, <2>3, <2>5, <2>7 DEF RequestsInv
<1>6. CASE \/ SessionNext /\ UNCHANGED storeVars
           \/ StartupDelete \/ StartupInsert \/ StartupFail
           \/ UNCHANGED vars
  <2>1. UNCHANGED <<op, snapshot>>
    BY <1>6 DEF vars, storeVars, StartupDelete, StartupInsert, StartupFail
  <2>2. PICK v, rows : v = StoredConfigs /\ rows = stored
    OBVIOUS
  <2>3. stored' \in {rows, << >>, Append(rows, v)}
    BY <1>6, <2>2 DEF vars, storeVars, StartupDelete, StartupInsert, StartupFail
  <2>4. AllSaved(rows) /\ AllSaved(Append(rows, v))
    BY <1>0, <1>1, <2>2, ConfigsAreConfig, StoredConfigsAre
  <2>5. AllSaved(stored')
    BY <1>2, <2>3, <2>4
  <2> QED BY <1>0, <2>1, <2>5 DEF RequestsInv
<1>7. ASSUME NEW rows, NEW troubled, AllSaved(rows), StartFrom(rows, troubled),
             AllSaved(snapshot'.rows)
      PROVE  RequestsInv'
  <2>1. rows = << >> \/ Saved(rows[1])
    BY <1>7 DEF AllSaved
  <2>2. PICK ids \in SUBSET (ConnID \ {DefaultID}) :
          \E d \in ids \cup {DefaultID} : StartedWith(rows, ids, d, troubled)
    BY <1>7, <2>1, Starts
  <2>3. PICK d \in ids \cup {DefaultID} : StartedWith(rows, ids, d, troubled)
    BY <2>2
  <2>7. AllSaved(stored')
    BY <1>7, <2>3 DEF StartedWith
  <2>8. op' = [a \in Admin |-> Idle]
    BY <2>3 DEF StartedWith
  <2>9. Idle \in OpType /\ Idle.pc = "idle"
    BY DEF OpType, Idle
  <2> QED BY <1>7, <2>7, <2>8, <2>9 DEF RequestsInv
<1>8. CASE Restart
  <2>1. StartFrom(stored, FALSE) /\ (snapshot' = snapshot \/ snapshot'.rows = stored)
    BY <1>8 DEF Restart
  <2>2. PICK rows : rows = stored
    OBVIOUS
  <2>3. StartFrom(rows, FALSE) /\ AllSaved(rows) /\ AllSaved(snapshot'.rows)
    BY <1>0, <2>1, <2>2
  <2> QED BY <1>7, <2>3
<1>9. CASE Crash
  <2>1. PICK rows, troubled : (rows = stored \/ rows = snapshot.rows) /\ StartFrom(rows, troubled)
    BY <1>9 DEF Crash
  <2>2. AllSaved(rows) /\ AllSaved(snapshot'.rows)
    BY <1>0, <1>9, <2>1 DEF Crash
  <2> QED BY <1>7, <2>1, <2>2
<1> QED BY <1>3, <1>4, <1>5, <1>6, <1>8, <1>9 DEF StoreNext, AdminStep

\* A server that has stored nothing yet has no request in flight.
LEMMA RequestsInit == StoreInit => RequestsInv /\ RegistryInv /\ IsolationInv
<1> SUFFICES ASSUME StoreInit
             PROVE  RequestsInv /\ RegistryInv /\ IsolationInv
  OBVIOUS
<1> USE ConnectionsAssumption
<1>1. RegistryInv /\ IsolationInv
  BY BootedInv DEF StoreInit
<1>2. Idle \in OpType /\ Idle.pc = "idle"
  BY DEF OpType, Idle
<1>3. stored = << >> /\ snapshot.rows = << >> /\ op = [a \in Admin |-> Idle]
  BY DEF StoreInit, NothingStored
<1>4. AllSaved(<< >>)
  BY DEF AllSaved
<1> QED BY <1>1, <1>2, <1>3, <1>4 DEF RequestsInv

\* The first states of a process are isolated in the next state too.
LEMMA BootedIsolated ==
    ASSUME NEW ids \in SUBSET (ConnID \ {DefaultID}), NEW d \in ids \cup {DefaultID}
    PROVE  Booted(ids, d)' => IsolationInv'
<1>1. Booted(ids, d) => IsolationInv
  BY BootedInv
<1> QED BY <1>1, PTL

\* The registry's promises hold beside any number of administrators saving,
\* forgetting and choosing defaults at once, across failing saves, crashes and
\* restarts, even where their interleaved saves leave the settings table wrong.
THEOREM RegistryEndures ==
    StoreSpec => [](TypeOK /\ NothingDangles /\ FallbackIsDefault /\ RegisteredOpen /\ DroppedClosed)
<1>1. RegistryInv => TypeOK /\ NothingDangles /\ FallbackIsDefault /\ RegisteredOpen /\ DroppedClosed
  BY DEF RegistryInv
<1>2. RegistryInv /\ RequestsInv /\ [StoreNext]_vars => RegistryInv' /\ RequestsInv'
  BY StoreImplements, RequestsStep, RegistryStep, BootedNext
<1> QED BY <1>1, <1>2, RequestsInit, PTL DEF StoreSpec

\* So do the promises about owners: a restart brings back shared connections only,
\* and no administrator's request makes a private one the fallback or a stored one.
THEOREM IsolationEndures == StoreSpec => []OnlyOverwrittenLeak
<1>1. IsolationInv => OnlyOverwrittenLeak
  BY DEF IsolationInv, RegistryInv, NothingDangles, ChoiceVisible, ActiveFor, ActiveIDFor,
     FallbackShared, PersistedShared, VisibleTo, OnlyOverwrittenLeak
<1>2. IsolationInv /\ RequestsInv /\ [StoreNext]_vars => IsolationInv' /\ RequestsInv'
  <2> SUFFICES ASSUME IsolationInv, RequestsInv, [StoreNext]_vars
               PROVE  IsolationInv' /\ RequestsInv'
    OBVIOUS
  <2>1. RegistryInv
    BY DEF IsolationInv
  <2> QED BY <2>1, StoreImplements, RequestsStep, IsolationStep, BootedIsolated
<1> QED BY <1>1, <1>2, RequestsInit, PTL DEF StoreSpec

=============================================================================
