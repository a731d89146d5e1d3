------------------------------ MODULE Accounts ------------------------------
(***************************************************************************)
(* The local accounts of DataDock: the rows of __datadock_users, the       *)
(* sessions signed in with them, the legacy administrator password kept in *)
(* the settings, and the mirror of the accounts in tinySQL's RBAC catalog. *)
(*                                                                         *)
(* A request is an op that takes the steps of its handler.  Each statement *)
(* on the users table, each critical section of adminAuthMu and each       *)
(* mirror call is a step of its own; no lock spans two of them.  A bcrypt  *)
(* hash is modelled by the password it verifies.                           *)
(*                                                                         *)
(* Definitions whose name says what they leave out or mix up are mutations *)
(* of the definition that follows them; the model does not use them.       *)
(***************************************************************************)
EXTENDS Naturals, FiniteSets

CONSTANTS
    Name,        \* account names
    AdminName,   \* "admin", the account the legacy password belongs to
    Role,        \* RoleAdmin and others
    Pw,          \* passwords
    Key,         \* rows the users table may hold
    Session,     \* session IDs, fresh ones for rotation included
    Req,         \* requests in flight at once
    None,        \* no row, no signed-in account, no password
    MayRunOpen,  \* may the process run with auth-mode none?
    MayFail,     \* may a statement fail?
    MirrorWorks  \* do calls of the RBAC catalog succeed?  (Errors are logged.)

ASSUME AccountsAssumption ==
    /\ AdminName \in Name
    /\ "admin" \in Role
    /\ IsFiniteSet(Key)
    /\ None \notin Name \cup Pw \cup Session
    /\ {MayRunOpen, MayFail, MirrorWorks} \subseteq BOOLEAN

Row == [name : Name, role : Role, disabled : BOOLEAN, pw : Pw]

\* overtaken is a history: did someone change the account's row between this
\* session's login reading it and the session being marked authenticated, or was
\* a change of the account reported as failed after the row had been changed?
Auth == [name : Name, role : Role, pw : Pw, overtaken : BOOLEAN]

ASSUME NoneAssumption ==
    None \notin Row /\ None \notin Auth /\ None \notin [write : BOOLEAN, disabled : BOOLEAN]

VARIABLES
    users,     \* users[k]: a row of __datadock_users, or None
    authed,    \* adminAuthedSessions
    legacy,    \* adminPasswordHash
    stored,    \* the settings row that holds it
    open,      \* auth-mode is none
    mirror,    \* mirror[n]: [write, disabled] of the tinySQL user n, or None
    op,        \* op[r]: the request r, at the step named by its pc
    ranOpen    \* history: the process has run with auth-mode none

vars == <<users, authed, legacy, stored, open, mirror, op, ranOpen>>

Kind == {"login", "setup", "create", "role", "disable", "enable", "reset", "delete", "change"}

Step == {"idle", "read", "hash", "check", "insert", "count", "update", "mirror",
         "rotate", "revoke", "legacy", "revokeOthers"}

\* row is the copy of the account a login or an admin request works with.
Op == [kind : Kind, sid : Session \cup {None}, name : Name, role : Role,
       pw : Pw \cup {None}, row : Row \cup {None}, pc : Step, overtaken : BOOLEAN]

IdleOp == [kind |-> "login", sid |-> None, name |-> AdminName, role |-> "admin",
           pw |-> None, row |-> None, pc |-> "idle", overtaken |-> FALSE]

----------------------------------------------------------------------------
(* Lookups *)

Rows(n) == {k \in Key : users[k] # None /\ users[k].name = n}

UsersExist == \E k \in Key : users[k] # None

IsEnabledAdmin(row) == row.role = "admin" /\ ~row.disabled

EnabledAdmins == {k \in Key : users[k] # None /\ IsEnabledAdmin(users[k])}

\* authConfigured
Configured == UsersExist \/ legacy # None

\* requireAdmin
Gate(s) ==
    \/ open
    \/ Configured /\ authed[s] # None /\ authed[s].role = "admin"

\* The name the session is signed in with, None without one.
CurrentName(s) == IF authed[s] = None THEN None ELSE authed[s].name

At(r, pc) == op[r].pc = pc

\* op' when request r goes on to pc, and when it ends.
Goto(r, pc) == op' = [op EXCEPT ![r].pc = pc]

\* op' when r takes a copy of the account's row along.
GotoWith(r, row, pc) == op' = [op EXCEPT ![r].row = row, ![r].pc = pc]

Done(r) == op' = [op EXCEPT ![r] = IdleOp]

Signing(q) == op[q].kind \in {"login", "setup"} /\ op[q].pc \notin {"idle", "read", "hash"}

\* op' when r changes the rows of its account and goes on to pc: logins that
\* work with a copy read earlier are overtaken.
GotoChanging(r, pc) ==
    op' = [q \in Req |->
             IF q = r THEN [op[q] EXCEPT !.pc = pc]
             ELSE IF Signing(q) /\ op[q].name = op[r].name
                  THEN [op[q] EXCEPT !.overtaken = TRUE]
                  ELSE op[q]]

----------------------------------------------------------------------------
(* Requests begin *)

Begin(r, kind, s, n, role, p, pc) ==
    /\ At(r, "idle")
    /\ op' = [op EXCEPT ![r] = [kind |-> kind, sid |-> s, name |-> n, role |-> role,
                                pw |-> p, row |-> None, pc |-> pc, overtaken |-> FALSE]]

\* A session that is not signed in has nothing to clear when it is rotated: such
\* sessions are all represented by None.
SignedInOrNone(s) == s # None => authed[s] # None

LoginBegin(r, s, n, p) ==
    /\ ~open
    /\ SignedInOrNone(s)
    /\ Begin(r, "login", s, n, "admin", p, "read")
    /\ UNCHANGED <<users, authed, legacy, stored, open, mirror, ranOpen>>

SetupBegin(r, s, n, p) ==
    /\ ~open /\ ~Configured
    /\ SignedInOrNone(s)
    /\ Begin(r, "setup", s, n, "admin", p, "hash")
    /\ UNCHANGED <<users, authed, legacy, stored, open, mirror, ranOpen>>

CreateBegin(r, s, n, role, p) ==
    /\ Gate(s)
    /\ Begin(r, "create", None, n, role, p, "check")
    /\ UNCHANGED <<users, authed, legacy, stored, open, mirror, ranOpen>>

RoleBegin(r, s, n, role) ==
    /\ Gate(s)
    /\ Begin(r, "role", None, n, role, None, "read")
    /\ UNCHANGED <<users, authed, legacy, stored, open, mirror, ranOpen>>

\* Enabling does not look the account up.
DisableBegin(r, s, n) ==
    /\ Gate(s)
    /\ \/ Begin(r, "disable", None, n, "admin", None, "read")
       \/ Begin(r, "enable", None, n, "admin", None, "update")
    /\ UNCHANGED <<users, authed, legacy, stored, open, mirror, ranOpen>>

DeleteBegin(r, s, n) ==
    /\ Gate(s)
    /\ n # CurrentName(s)
    /\ Begin(r, "delete", None, n, "admin", None, "read")
    /\ UNCHANGED <<users, authed, legacy, stored, open, mirror, ranOpen>>

ResetBegin(r, s, n, p) ==
    /\ Gate(s)
    /\ Begin(r, "reset", None, n, "admin", p, "update")
    /\ UNCHANGED <<users, authed, legacy, stored, open, mirror, ranOpen>>

\* The current password is verified against what is read here.  A session
\* without an account (auth-mode none) changes the legacy password only.
ChangeBegin(r, s, p) ==
    /\ Gate(s)
    /\ IF authed[s] = None
       THEN legacy # None /\ Begin(r, "change", s, AdminName, "admin", p, "legacy")
       ELSE /\ Rows(authed[s].name) # {} \/ legacy # None
            /\ Begin(r, "change", s, authed[s].name, "admin", p, "update")
    /\ UNCHANGED <<users, authed, legacy, stored, open, mirror, ranOpen>>

----------------------------------------------------------------------------
(* Signing in *)

\* The account a setup, or a login with the legacy password, is about to create.
FirstAdmin(n, p) == [name |-> n, role |-> "admin", disabled |-> FALSE, pw |-> p]

\* getUserByUsername, the legacy password's account, the password check.
LoginRead(r) ==
    /\ At(r, "read") /\ op[r].kind = "login"
    /\ \/ \E k \in Rows(op[r].name) :
            IF ~users[k].disabled /\ users[k].pw = op[r].pw
            THEN GotoWith(r, users[k], "rotate")
            ELSE Done(r)
       \/ /\ Rows(op[r].name) = {}
          /\ IF op[r].name = AdminName /\ legacy = op[r].pw
             THEN GotoWith(r, FirstAdmin(AdminName, legacy), "check")
             ELSE Done(r)
    /\ UNCHANGED <<users, authed, legacy, stored, open, mirror, ranOpen>>

\* adminSetupSubmitHandler stores the password's hash in the settings first.
SetupHash(r) ==
    /\ At(r, "hash")
    /\ legacy' = op[r].pw /\ stored' = op[r].pw
    /\ GotoWith(r, FirstAdmin(op[r].name, op[r].pw), "check")
    /\ UNCHANGED <<users, authed, open, mirror, ranOpen>>

\* createUser looks the name up; a login ignores ErrUserExists.
CreateCheck(r) ==
    /\ At(r, "check")
    /\ IF Rows(op[r].name) = {} THEN Goto(r, "insert")
       ELSE IF op[r].kind = "login" THEN Goto(r, "rotate")
       ELSE Done(r)
    /\ UNCHANGED <<users, authed, legacy, stored, open, mirror, ranOpen>>

\* The INSERT binds its parameters in the wrong order.
NewRowSwapped(r) ==
    [name |-> op[r].role, role |-> op[r].name, disabled |-> FALSE, pw |-> op[r].pw]

NewRow(r) == [name |-> op[r].name, role |-> op[r].role, disabled |-> FALSE, pw |-> op[r].pw]

CreateInsert(r) ==
    /\ At(r, "insert")
    /\ \E k \in Key :
          /\ users[k] = None
          /\ users' = [users EXCEPT ![k] = NewRow(r)]
    /\ GotoChanging(r, "mirror")
    /\ UNCHANGED <<authed, legacy, stored, open, mirror, ranOpen>>

\* rotateSessionOnAuth: mark a new session ID, clear the old one.  The two
\* critical sections touch different entries, so they are one step.
Rotate(r) ==
    /\ At(r, "rotate")
    /\ \E new \in Session :
          /\ authed[new] = None
          /\ \A q \in Req : op[q].sid # new
          /\ authed' = [s \in Session |->
                IF s = new
                THEN [name |-> op[r].row.name, role |-> op[r].row.role,
                      pw |-> op[r].row.pw, overtaken |-> op[r].overtaken]
                ELSE IF s = op[r].sid THEN None ELSE authed[s]]
    /\ Done(r)
    /\ UNCHANGED <<users, legacy, stored, open, mirror, ranOpen>>

\* Logout, or currentSessionUser finding the deadline passed.
SignOut(s) ==
    /\ authed[s] # None
    /\ authed' = [authed EXCEPT ![s] = None]
    /\ UNCHANGED <<users, legacy, stored, open, mirror, op, ranOpen>>

----------------------------------------------------------------------------
(* Administering accounts *)

\* getUserByUsername, and assertNotLastEnabledAdmin's look at the copy.
AdminRead(r) ==
    /\ At(r, "read") /\ op[r].kind \in {"role", "disable", "delete"}
    /\ \/ \E k \in Rows(op[r].name) :
            Goto(r, IF IsEnabledAdmin(users[k]) THEN "count" ELSE "update")
       \/ Rows(op[r].name) = {} /\ Done(r)
    /\ UNCHANGED <<users, authed, legacy, stored, open, mirror, ranOpen>>

\* Off by one.
CountAdminsOneIsEnough(r) ==
    /\ At(r, "count")
    /\ IF Cardinality(EnabledAdmins) >= 1 THEN Goto(r, "update") ELSE Done(r)
    /\ UNCHANGED <<users, authed, legacy, stored, open, mirror, ranOpen>>

\* assertNotLastEnabledAdmin counts.
CountAdmins(r) ==
    /\ At(r, "count")
    /\ IF Cardinality(EnabledAdmins) > 1 THEN Goto(r, "update") ELSE Done(r)
    /\ UNCHANGED <<users, authed, legacy, stored, open, mirror, ranOpen>>

UpdateUserRole(r) ==
    /\ At(r, "update") /\ op[r].kind = "role"
    /\ users' = [k \in Key |-> IF k \in Rows(op[r].name)
                           THEN [users[k] EXCEPT !.role = op[r].role] ELSE users[k]]
    /\ GotoChanging(r, "mirror")
    /\ UNCHANGED <<authed, legacy, stored, open, mirror, ranOpen>>

SetUserDisabled(r) ==
    /\ At(r, "update") /\ op[r].kind \in {"disable", "enable"}
    /\ users' = [k \in Key |-> IF k \in Rows(op[r].name)
                           THEN [users[k] EXCEPT !.disabled = op[r].kind = "disable"] ELSE users[k]]
    /\ GotoChanging(r, "mirror")
    /\ UNCHANGED <<authed, legacy, stored, open, mirror, ranOpen>>

DeleteUser(r) ==
    /\ At(r, "update") /\ op[r].kind = "delete"
    /\ users' = [k \in Key |-> IF k \in Rows(op[r].name) THEN None ELSE users[k]]
    /\ GotoChanging(r, "mirror")
    /\ UNCHANGED <<authed, legacy, stored, open, mirror, ranOpen>>

\* The session that changes its own password knows the new one.
SetUserPasswordHash(r) ==
    /\ At(r, "update") /\ op[r].kind \in {"reset", "change"}
    /\ users' = [k \in Key |-> IF k \in Rows(op[r].name)
                              THEN [users[k] EXCEPT !.pw = op[r].pw] ELSE users[k]]
    /\ authed' = [s \in Session |->
                    IF /\ op[r].kind = "change" /\ s = op[r].sid
                       /\ CurrentName(s) = op[r].name
                    THEN [authed[s] EXCEPT !.pw = op[r].pw] ELSE authed[s]]
    /\ GotoChanging(r, IF op[r].kind = "reset" THEN "revoke" ELSE "legacy")
    /\ UNCHANGED <<legacy, stored, open, mirror, ranOpen>>

\* A changed role is granted, the other one is not taken away.
MirrorAfterGrantOnly(kind, n, role) ==
    IF kind \in {"setup", "login", "create", "role"}
    THEN [write |-> role # "readonly" \/ (mirror[n] # None /\ mirror[n].write), disabled |-> FALSE]
    ELSE IF mirror[n] = None \/ kind = "delete" THEN None
    ELSE [mirror[n] EXCEPT !.disabled = kind = "disable"]

\* mirrorNativeRBACUser, ...Disabled and ...Deleted.
MirrorAfter(kind, n, role) ==
    IF kind \in {"setup", "login", "create", "role"}
    THEN [write |-> role # "readonly", disabled |-> FALSE]
    ELSE IF mirror[n] = None \/ kind = "delete" THEN None
    ELSE [mirror[n] EXCEPT !.disabled = kind = "disable"]

\* Disabling an account does not revoke its sessions.
AfterMirrorDisableKeeps(kind) ==
    IF kind \in {"setup", "login"} THEN "rotate"
    ELSE IF kind \in {"role", "delete"} THEN "revoke"
    ELSE "idle"

\* What the handler does once the statement and its mirror call are done.
AfterMirror(kind) ==
    IF kind \in {"setup", "login"} THEN "rotate"
    ELSE IF kind \in {"role", "disable", "delete"} THEN "revoke"
    ELSE "idle"

Mirror(r) ==
    /\ At(r, "mirror")
    /\ mirror' = IF MirrorWorks
                 THEN [mirror EXCEPT ![op[r].name] =
                         MirrorAfter(op[r].kind, op[r].name, op[r].role)]
                 ELSE mirror
    /\ LET next == AfterMirror(op[r].kind) IN
       IF next = "idle" THEN Done(r) ELSE Goto(r, next)
    /\ UNCHANGED <<users, authed, legacy, stored, open, ranOpen>>

\* The sessions of the account are left alone.
RevokeNobody(r) ==
    /\ At(r, "revoke")
    /\ Done(r)
    /\ UNCHANGED <<users, authed, legacy, stored, open, mirror, ranOpen>>

\* revokeSessionsForUsername
Revoke(r) ==
    /\ At(r, "revoke")
    /\ authed' = [s \in Session |-> IF CurrentName(s) = op[r].name THEN None ELSE authed[s]]
    /\ Done(r)
    /\ UNCHANGED <<users, legacy, stored, open, mirror, ranOpen>>

\* A changed password becomes the legacy password too, whoever's it is.
ChangeLegacy(r) ==
    /\ At(r, "legacy")
    /\ legacy' = op[r].pw /\ stored' = op[r].pw
    /\ Goto(r, "revokeOthers")
    /\ UNCHANGED <<users, authed, open, mirror, ranOpen>>

\* Only the session that changed the password is signed out.
RevokeOwnOnly(r) ==
    /\ At(r, "revokeOthers")
    /\ authed' = [s \in Session |-> IF s = op[r].sid THEN None ELSE authed[s]]
    /\ Done(r)
    /\ UNCHANGED <<users, legacy, stored, open, mirror, ranOpen>>

\* revokeOtherSessionsForUsername
RevokeOthers(r) ==
    /\ At(r, "revokeOthers")
    /\ authed' = [s \in Session |->
                    IF CurrentName(s) = op[r].name /\ s # op[r].sid THEN None ELSE authed[s]]
    /\ Done(r)
    /\ UNCHANGED <<users, legacy, stored, open, mirror, ranOpen>>

\* A statement on the users table or on the settings fails: the handler answers
\* with an error and goes no further.  applyRuntimeSettings comes before the save,
\* and a password change that fails there leaves the other sessions signed in.
StatementFails(r) ==
    /\ MayFail
    /\ op[r].pc \in {"read", "hash", "check", "insert", "count", "update", "legacy"}
    /\ legacy' = IF op[r].pc \in {"hash", "legacy"} THEN op[r].pw ELSE legacy
    /\ authed' = IF op[r].pc # "legacy" THEN authed
                 ELSE [s \in Session |-> IF CurrentName(s) # op[r].name THEN authed[s]
                                         ELSE [authed[s] EXCEPT !.overtaken = TRUE]]
    /\ Done(r)
    /\ UNCHANGED <<users, stored, open, mirror, ranOpen>>

\* Every other handler that saves the settings writes the hash with them.
SaveSettings ==
    /\ stored # legacy
    /\ stored' = legacy
    /\ UNCHANGED <<users, authed, legacy, open, mirror, op, ranOpen>>

----------------------------------------------------------------------------
(* The process *)

\* adminSetupModeHandler: "just me, no login", while nothing is configured.
SetupMode ==
    /\ MayRunOpen
    /\ ~open /\ ~Configured
    /\ open' = TRUE /\ ranOpen' = TRUE
    /\ UNCHANGED <<users, authed, legacy, stored, mirror, op>>

Quiet == \A r \in Req : At(r, "idle")

\* What bootstrapNativeRBACMirror leaves for an account with this row.
MirrorOf(row) == [write |-> row.role # "readonly", disabled |-> row.disabled]

\* migrateLegacyAdminPassword makes the legacy password an account if there is
\* none; the bootstrap copies every account into the mirror, the last row of a
\* name winning.
Restart ==
    /\ Quiet
    /\ open' \in (IF MayRunOpen THEN BOOLEAN ELSE {FALSE})
    /\ ranOpen' = (ranOpen \/ open')
    /\ authed' = [s \in Session |-> None]
    /\ legacy' = stored
    /\ IF ~UsersExist /\ stored # None
       THEN \E k \in Key : users' = [users EXCEPT ![k] =
              FirstAdmin(AdminName, stored)]
       ELSE users' = users
    /\ \E last \in [Name -> Key] :
          /\ \A n \in Name : Rows(n) # {} => last[n] \in Rows(n)
          /\ mirror' = [n \in Name |->
                IF ~MirrorWorks THEN mirror[n]
                ELSE IF Rows(n) # {} THEN MirrorOf(users[last[n]])
                ELSE IF ~UsersExist /\ stored # None /\ n = AdminName
                THEN [write |-> TRUE, disabled |-> FALSE]
                ELSE mirror[n]]
    /\ UNCHANGED <<stored, op>>

Init ==
    /\ users = [k \in Key |-> None]
    /\ authed = [s \in Session |-> None]
    /\ legacy = None /\ stored = None
    /\ open = FALSE
    /\ mirror = [n \in Name |-> None]
    /\ op = [r \in Req |-> IdleOp]
    /\ ranOpen = FALSE

Starts(r) ==
    \/ \E s \in Session \cup {None}, n \in Name, p \in Pw :
          LoginBegin(r, s, n, p) \/ SetupBegin(r, s, n, p)
    \/ \E s \in Session, n \in Name :
        \/ \E p \in Pw : ResetBegin(r, s, n, p) \/ ChangeBegin(r, s, p)
        \/ \E p \in Pw, role \in Role : CreateBegin(r, s, n, role, p)
        \/ \E role \in Role : RoleBegin(r, s, n, role)
        \/ DisableBegin(r, s, n)
        \/ DeleteBegin(r, s, n)

Proceeds(r) ==
    \/ LoginRead(r) \/ SetupHash(r) \/ CreateCheck(r) \/ CreateInsert(r) \/ Rotate(r)
    \/ AdminRead(r) \/ CountAdmins(r) \/ UpdateUserRole(r) \/ SetUserDisabled(r)
    \/ DeleteUser(r) \/ SetUserPasswordHash(r) \/ Mirror(r) \/ Revoke(r)
    \/ ChangeLegacy(r) \/ RevokeOthers(r) \/ StatementFails(r)

Next ==
    \/ \E r \in Req : Starts(r) \/ Proceeds(r)
    \/ \E s \in Session : SignOut(s)
    \/ SaveSettings
    \/ SetupMode
    \/ Restart

Spec == Init /\ [][Next]_vars

----------------------------------------------------------------------------
(* Type *)

\* Requests stand at a step of their handler; rows, sessions and the mirror
\* hold one record per slot.
TypeOK ==
    /\ users \in [Key -> Row \cup {None}]
    /\ authed \in [Session -> Auth \cup {None}]
    /\ legacy \in Pw \cup {None} /\ stored \in Pw \cup {None}
    /\ open \in BOOLEAN /\ ranOpen \in BOOLEAN
    /\ mirror \in [Name -> [write : BOOLEAN, disabled : BOOLEAN] \cup {None}]
    /\ op \in [Req -> Op]

----------------------------------------------------------------------------
(* Safety *)

\* A DataDock that has always required a login can be administered: there is an
\* enabled administrator, or no account yet and a password for the first one
\* (countEnabledAdmins: "so the UI can never be used to lock every admin out").
NobodyLockedOut ==
    Configured /\ ~ranOpen => EnabledAdmins # {} \/ (~UsersExist /\ legacy # None)

\* r has changed an account but not yet revoked the account's sessions.
Revoking(n) ==
    \E r \in Req : /\ op[r].name = n
                   /\ \/ op[r].kind \in {"role", "disable", "delete", "reset"}
                         /\ op[r].pc \in {"mirror", "revoke"}
                      \/ op[r].kind = "change" /\ op[r].pc \in {"legacy", "revokeOthers"}

\* A session's rights are those of an enabled account of its name, unless a
\* change of the account is about to revoke it, or overtook its login.
SessionsFollow ==
    \A s \in Session :
        authed[s] # None /\ ~authed[s].overtaken /\ ~Revoking(authed[s].name) =>
            \E k \in Rows(authed[s].name) : ~users[k].disabled /\ users[k].role = authed[s].role

\* Likewise the password the session was opened with is the account's, so that
\* changing or resetting a password ends the sessions opened with the old one.
OldPasswordOut ==
    \A s \in Session :
        authed[s] # None /\ ~authed[s].overtaken /\ ~Revoking(authed[s].name) =>
            \E k \in Rows(authed[s].name) : users[k].pw = authed[s].pw

\* With no request in flight every session has the role its account has now
\* (admin_users.go:93: "A role change must take effect immediately").
RoleTakesEffect ==
    Quiet => \A s \in Session : authed[s] # None =>
                \E k \in Rows(authed[s].name) : users[k].role = authed[s].role

\* The mirror knows exactly the accounts and grants an enabled one what its
\* role grants, so sessionCanWriteSQL's second opinion never refuses it.
MirrorFollows ==
    Quiet => \A n \in Name :
        /\ Rows(n) = {} => mirror[n] = None
        /\ \A k \in Rows(n) : ~users[k].disabled => mirror[n] = MirrorOf(users[k])

=============================================================================
