--------------------------- MODULE AccountsProofs ---------------------------
(***************************************************************************)
(* Proofs, for any number of sessions, accounts, roles and passwords.      *)
(*                                                                         *)
(* With any number of requests at once the sessions follow the accounts:   *)
(* whatever statements fail, whenever the process restarts and with or     *)
(* without a login, a session has the rights, and was opened with the      *)
(* password, of an account unless a change of that account overtook its    *)
(* login or is about to revoke it.                                         *)
(*                                                                         *)
(* With one request at a time, in any order, the accounts also keep an     *)
(* enabled administrator, changed roles take effect, and the mirror in the *)
(* RBAC catalog knows exactly the accounts.                                *)
(***************************************************************************)
EXTENDS Accounts, FiniteSetTheorems, TLAPS

\* An enabled account of this name has this role.
Matches(n, role) == \E k \in Rows(n) : ~users[k].disabled /\ users[k].role = role

\* A request that may have taken a right away has not revoked the sessions yet.
Demoting(n) ==
    \E r \in Req : /\ op[r].name = n
                   /\ op[r].kind \in {"role", "disable", "delete"}
                   /\ op[r].pc \in {"mirror", "revoke"}

\* The requests that change an account somebody else made, and need no password.
Administering == {"role", "disable", "enable", "delete"}

\* A login or a setup never stands at a step of the account administration, nor
\* that at a step of theirs; every other request carries a password, and a login
\* that has found its account a copy of it.
StepFits(o) ==
    /\ o.kind \in {"login", "setup"} =>
          o.pc \in {"idle", "read", "hash", "check", "insert", "mirror", "rotate"}
    /\ o.kind \in {"login", "setup"} =>
          o.role = "admin" /\ (o.pc \notin {"idle", "read", "hash"} => o.row # None)
    /\ o.kind = "login" => o.pc # "hash"
    /\ o.kind \notin {"login", "setup"} => o.pc # "rotate"
    /\ o.kind \in Administering => o.pc \in {"read", "count", "update", "mirror", "revoke"}
    /\ o.kind \notin Administering /\ o.pc # "idle" => o.pw # None

StepsFit == \A r \in Req : StepFits(op[r])

TypeInv == TypeOK /\ StepsFit

\* The copy of the account a login or a setup works with is still the account,
\* as long as nobody has changed it; the one it is about to create is missing.
Current(o) ==
    /\ o.row.name = o.name
    /\ o.pc \in {"check", "insert", "mirror"} => o.row.role = o.role
    /\ ~o.overtaken /\ o.pc \in {"mirror", "rotate"} => Matches(o.name, o.row.role)
    /\ ~o.overtaken /\ o.pc = "check" /\ o.kind = "login" => Rows(o.name) = {}

CopiesCurrent == \A r \in Req : Signing(r) => Current(op[r])

\* SessionsFollow with the narrower excuse: a change of the password is none.
SessionsMatch ==
    \A s \in Session :
        authed[s] # None /\ ~authed[s].overtaken /\ ~Demoting(authed[s].name) =>
            Matches(authed[s].name, authed[s].role)

SessionInv == TypeInv /\ CopiesCurrent /\ SessionsMatch

----------------------------------------------------------------------------
(* What a step does to the requests in flight *)

\* Request q is still the same request, wherever it stands now.
Kept(q) == /\ op'[q].kind = op[q].kind /\ op'[q].name = op[q].name
           /\ op'[q].role = op[q].role /\ op'[q].row = op[q].row
           /\ op'[q].pw = op[q].pw

\* Going on changes where the request stands and nothing else (Goto).
LEMMA GotoOp ==
    ASSUME TypeOK, NEW r \in Req, NEW pc \in Step, Goto(r, pc)
    PROVE  /\ op' \in [Req -> Op]
           /\ \A q \in Req : /\ Kept(q) /\ op'[q].overtaken = op[q].overtaken
                             /\ op'[q].pc = IF q = r THEN pc ELSE op[q].pc
BY DEF TypeOK, Goto, Op, Kept

\* A request that ends leaves the others alone (Done).
LEMMA DoneOp ==
    ASSUME TypeOK, NEW r \in Req, Done(r)
    PROVE  /\ op' \in [Req -> Op]
           /\ op'[r].kind = "login" /\ op'[r].pc = "idle" /\ op'[r].role = "admin"
           /\ \A q \in Req : q # r => op'[q] = op[q]
BY AccountsAssumption DEF TypeOK, Done, Op, IdleOp, Kind, Step

\* A login or a setup that takes a copy of the account (LoginRead, SetupHash).
LEMMA CopyOp ==
    ASSUME TypeOK, NEW r \in Req, NEW row \in Row, NEW pc \in Step,
           GotoWith(r, row, pc)
    PROVE  /\ op' \in [Req -> Op]
           /\ op'[r].row = row /\ op'[r].pc = pc /\ op'[r].name = op[r].name
           /\ op'[r].kind = op[r].kind /\ op'[r].role = op[r].role /\ op'[r].pw = op[r].pw
           /\ op'[r].overtaken = op[r].overtaken
           /\ \A q \in Req : q # r => op'[q] = op[q]
<1>1. op[r] \in Op
  BY DEF TypeOK
<1>2. [op EXCEPT ![r].row = row] \in [Req -> Op]
  BY <1>1 DEF TypeOK, Op
<1> QED
  BY <1>1, <1>2 DEF GotoWith, TypeOK, Op

\* A request that begins stands at its first step (Begin).
LEMMA BeginOp ==
    ASSUME TypeOK, NEW r \in Req, NEW kind \in Kind, NEW s \in Session \cup {None},
           NEW n \in Name, NEW role \in Role, NEW p \in Pw \cup {None}, NEW pc \in Step,
           Begin(r, kind, s, n, role, p, pc)
    PROVE  /\ op' \in [Req -> Op]
           /\ op[r].pc = "idle"
           /\ op'[r].kind = kind /\ op'[r].pc = pc /\ op'[r].pw = p
           /\ op'[r].role = role /\ op'[r].row = None
           /\ \A q \in Req : q # r => op'[q] = op[q]
BY DEF TypeOK, Begin, At, Op

\* Changing the rows of an account also overtakes the logins that read them
\* (GotoChanging).
LEMMA GotoChangingOp ==
    ASSUME TypeOK, NEW r \in Req, NEW pc \in Step, GotoChanging(r, pc)
    PROVE  /\ op' \in [Req -> Op]
           /\ \A q \in Req :
                /\ Kept(q)
                /\ op'[q].pc = IF q = r THEN pc ELSE op[q].pc
                /\ op'[q].overtaken = IF q # r /\ Signing(q) /\ op[q].name = op[r].name
                                      THEN TRUE ELSE op[q].overtaken
<1>1. ASSUME NEW q \in Req
      PROVE  /\ op'[q] \in Op
             /\ Kept(q)
             /\ op'[q].pc = IF q = r THEN pc ELSE op[q].pc
             /\ op'[q].overtaken = IF q # r /\ Signing(q) /\ op[q].name = op[r].name
                                   THEN TRUE ELSE op[q].overtaken
  <2>1. op[q] \in Op
    BY DEF TypeOK
  <2>2. CASE q = r
    BY <2>1, <2>2 DEF GotoChanging, Op, Kept
  <2>3. CASE q # r /\ Signing(q) /\ op[q].name = op[r].name
    BY <2>1, <2>3 DEF GotoChanging, Op, Kept
  <2>4. CASE q # r /\ ~(Signing(q) /\ op[q].name = op[r].name)
    BY <2>1, <2>4 DEF GotoChanging, Op, Kept
  <2> QED BY <2>2, <2>3, <2>4
<1>2. op' = [q \in Req |-> op'[q]]
  BY DEF GotoChanging
<1> QED BY <1>1, <1>2

----------------------------------------------------------------------------
(* Steps that change no account *)

\* A request that stands outside the steps the invariant speaks of, before and
\* after a step that changes neither accounts nor sessions, disturbs nothing.
LEMMA Aside ==
    ASSUME SessionInv, NEW r \in Req, TypeInv', users' = users, authed' = authed,
           \A q \in Req : q # r => op'[q] = op[q],
           op[r].pc \notin {"mirror", "revoke"}, op'[r].pc \notin {"mirror", "revoke"},
           op'[r].kind \in {"login", "setup"} => op'[r].pc \in {"idle", "read", "hash"}
    PROVE  SessionInv'
<1>1. \A n : Demoting(n)' = Demoting(n)
  BY DEF Demoting
<1>2. \A n : Rows(n)' = Rows(n)
  BY DEF Rows
<1>3. CopiesCurrent'
  <2> SUFFICES ASSUME NEW q \in Req, Signing(q)'
               PROVE  q # r
    BY <1>2 DEF SessionInv, CopiesCurrent, Current, Signing, Matches
  <2> QED BY DEF Signing
<1>4. SessionsMatch'
  BY <1>1, <1>2 DEF SessionInv, SessionsMatch, Matches
<1> QED BY <1>3, <1>4 DEF SessionInv
----------------------------------------------------------------------------
(* Types *)

\* What a beginning request leaves behind: an op that fits its first step.
Started(r) == /\ op' \in [Req -> Op]
              /\ \A q \in Req : q # r => op'[q] = op[q]
              /\ StepFits(op'[r])
              /\ op[r].pc = "idle" /\ op'[r].pc \notin {"mirror", "revoke"}
              /\ op'[r].kind \in {"login", "setup"} => op'[r].pc \in {"read", "hash"}

\* A first step that fits the kind of the request starts it (Begin).
LEMMA StartedBy ==
    ASSUME TypeInv, NEW r \in Req, NEW kind \in Kind, NEW s \in Session \cup {None},
           NEW n \in Name, NEW role \in Role, NEW p \in Pw \cup {None}, NEW pc \in Step,
           Begin(r, kind, s, n, role, p, pc),
           pc \notin {"mirror", "revoke", "rotate"},
           kind \in {"login", "setup"} => pc \in {"read", "hash"} /\ role = "admin",
           kind = "login" => pc # "hash",
           kind \in Administering => pc \in {"read", "count", "update"},
           kind \notin Administering => p # None
    PROVE  Started(r)
<1>1. /\ op' \in [Req -> Op]
      /\ op[r].pc = "idle"
      /\ op'[r].kind = kind /\ op'[r].pc = pc /\ op'[r].pw = p
      /\ op'[r].role = role /\ op'[r].row = None
      /\ \A q \in Req : q # r => op'[q] = op[q]
  BY BeginOp DEF TypeInv
<1>2. StepFits(op'[r])
  BY <1>1 DEF StepFits
<1> QED BY <1>1, <1>2 DEF Started

\* Every beginning request gets an op of its kind.
LEMMA StartTypes ==
    ASSUME TypeInv, NEW r \in Req, Starts(r)
    PROVE  /\ TypeInv' /\ users' = users /\ authed' = authed
           /\ \A q \in Req : q # r => op'[q] = op[q]
           /\ op[r].pc = "idle" /\ op'[r].pc \notin {"mirror", "revoke"}
           /\ op'[r].kind \in {"login", "setup"} => op'[r].pc \in {"read", "hash"}
<1> DEFINE Plain == {"login", "setup", "create", "reset", "change"}
<1>0. /\ Kind = Administering \cup Plain /\ Administering \cap Plain = {}
      /\ {"read", "hash", "check", "update", "legacy"} \subseteq Step
      /\ "admin" \in Role /\ None \notin Pw
  BY AccountsAssumption DEF Kind, Step, Administering
<1>1. ASSUME NEW s \in Session \cup {None}, NEW n \in Name, NEW p \in Pw, LoginBegin(r, s, n, p)
      PROVE  Started(r)
  <2>1. Begin(r, "login", s, n, "admin", p, "read")
    BY <1>1 DEF LoginBegin
  <2> QED BY <1>0, <2>1, StartedBy DEF Administering
<1>2. ASSUME NEW s \in Session \cup {None}, NEW n \in Name, NEW p \in Pw, SetupBegin(r, s, n, p)
      PROVE  Started(r)
  <2>1. Begin(r, "setup", s, n, "admin", p, "hash")
    BY <1>2 DEF SetupBegin
  <2> QED BY <1>0, <2>1, StartedBy
<1>3. ASSUME NEW s \in Session, NEW n \in Name, NEW role \in Role, NEW p \in Pw,
             CreateBegin(r, s, n, role, p)
      PROVE  Started(r)
  <2>1. Begin(r, "create", None, n, role, p, "check")
    BY <1>3 DEF CreateBegin
  <2> QED BY <1>0, <2>1, StartedBy DEF Administering
<1>4. ASSUME NEW s \in Session, NEW n \in Name, NEW role \in Role, RoleBegin(r, s, n, role)
      PROVE  Started(r)
  <2>1. Begin(r, "role", None, n, role, None, "read")
    BY <1>4 DEF RoleBegin
  <2> QED BY <1>0, <2>1, StartedBy DEF Administering
<1>5. ASSUME NEW s \in Session, NEW n \in Name, DisableBegin(r, s, n)
      PROVE  Started(r)
  <2>1. CASE Begin(r, "disable", None, n, "admin", None, "read")
    BY <1>0, <2>1, StartedBy DEF Administering
  <2>2. CASE Begin(r, "enable", None, n, "admin", None, "update")
    BY <1>0, <2>2, StartedBy DEF Administering
  <2> QED BY <1>5, <2>1, <2>2 DEF DisableBegin
<1>6. ASSUME NEW s \in Session, NEW n \in Name, DeleteBegin(r, s, n)
      PROVE  Started(r)
  <2>1. Begin(r, "delete", None, n, "admin", None, "read")
    BY <1>6 DEF DeleteBegin
  <2> QED BY <1>0, <2>1, StartedBy DEF Administering
<1>7. ASSUME NEW s \in Session, NEW n \in Name, NEW p \in Pw, ResetBegin(r, s, n, p)
      PROVE  Started(r)
  <2>1. Begin(r, "reset", None, n, "admin", p, "update")
    BY <1>7 DEF ResetBegin
  <2> QED BY <1>0, <2>1, StartedBy DEF Administering
<1>8. ASSUME NEW s \in Session, NEW p \in Pw, ChangeBegin(r, s, p)
      PROVE  Started(r)
  <2>1. CASE authed[s] = None
    <3>1. Begin(r, "change", s, AdminName, "admin", p, "legacy")
      BY <1>8, <2>1 DEF ChangeBegin
    <3>2. AdminName \in Name /\ p \in Pw \cup {None} /\ "change" \notin Administering
      BY <1>0, AccountsAssumption DEF Administering
    <3> QED BY <1>0, <3>1, <3>2, StartedBy DEF Kind
  <2>2. CASE authed[s] # None
    <3>1. authed[s].name \in Name
      BY <2>2 DEF TypeInv, TypeOK, Auth
    <3>2. Begin(r, "change", s, authed[s].name, "admin", p, "update")
      BY <1>8, <2>2 DEF ChangeBegin
    <3>3. p \in Pw \cup {None} /\ "change" \notin Administering
      BY <1>0 DEF Administering
    <3> QED BY <1>0, <3>1, <3>2, <3>3, StartedBy DEF Kind
  <2> QED BY <2>1, <2>2
<1>9. Started(r)
  BY <1>1, <1>2, <1>3, <1>4, <1>5, <1>6, <1>7, <1>8 DEF Starts
<1>10. UNCHANGED <<users, authed, legacy, stored, open, mirror, ranOpen>>
  BY DEF Starts, LoginBegin, SetupBegin, CreateBegin, RoleBegin, DisableBegin, DeleteBegin,
     ResetBegin, ChangeBegin
<1>11. TypeOK'
  BY <1>9, <1>10 DEF Started, TypeInv, TypeOK
<1>12. StepsFit'
  BY <1>9 DEF Started, TypeInv, StepsFit, StepFits
<1> QED
  BY <1>9, <1>10, <1>11, <1>12 DEF TypeInv, Started

\* The op of request r still fits its step, and the others' are as they were.
Stepped(r) == /\ op' \in [Req -> Op]
              /\ StepFits(op'[r])
              /\ \A q \in Req : q # r => /\ op'[q].kind = op[q].kind
                                         /\ op'[q].pc = op[q].pc /\ op'[q].pw = op[q].pw
                                         /\ op'[q].row = op[q].row /\ op'[q].role = op[q].role

\* Going on to a step that fits the request (Goto and GotoChanging).
LEMMA SteppedGoing ==
    ASSUME TypeInv, NEW r \in Req, NEW pc \in Step, Goto(r, pc) \/ GotoChanging(r, pc),
           op[r].pc # "idle",
           op[r].kind \in {"login", "setup"} =>
              op[r].pc \in {"check", "insert", "mirror"} /\ pc \in {"insert", "mirror", "rotate"},
           op[r].kind \notin {"login", "setup"} => pc # "rotate",
           op[r].kind \in Administering => pc \in {"count", "update", "mirror", "revoke"}
    PROVE  Stepped(r)
<1>1. CASE Goto(r, pc)
  BY <1>1, GotoOp DEF TypeInv, StepsFit, StepFits, Stepped, Kept
<1>2. CASE GotoChanging(r, pc)
  <2>1. /\ op' \in [Req -> Op]
        /\ \A q \in Req : Kept(q) /\ op'[q].pc = IF q = r THEN pc ELSE op[q].pc
    BY <1>2, GotoChangingOp DEF TypeInv
  <2>2. StepFits(op[r]) /\ Kept(r) /\ op'[r].pc = pc
    BY <2>1 DEF TypeInv, StepsFit
  <2>3. StepFits(op'[r])
    BY <2>2 DEF StepFits, Kept
  <2>4. ASSUME NEW q \in Req, q # r
        PROVE  /\ op'[q].kind = op[q].kind
               /\ op'[q].pc = op[q].pc /\ op'[q].pw = op[q].pw
               /\ op'[q].row = op[q].row /\ op'[q].role = op[q].role
    BY <2>1, <2>4 DEF Kept
  <2> QED BY <2>1, <2>3, <2>4 DEF Stepped
<1> QED BY <1>1, <1>2

\* Ending (Done).
LEMMA SteppedDone ==
    ASSUME TypeInv, NEW r \in Req, Done(r)
    PROVE  Stepped(r)
BY DoneOp DEF TypeInv, StepFits, Stepped, Administering

\* Taking a copy of the account.
LEMMA SteppedCopy ==
    ASSUME TypeInv, NEW r \in Req, NEW row \in Row, NEW pc \in {"check", "rotate"},
           op[r].kind \notin Administering, op[r].pc # "idle",
           op[r].kind \notin {"login", "setup"} => pc = "check",
           GotoWith(r, row, pc)
    PROVE  Stepped(r)
<1>1. TypeOK /\ StepFits(op[r]) /\ pc \in Step
  BY DEF TypeInv, StepsFit, Step
<1>2. /\ op' \in [Req -> Op]
      /\ op'[r].pc = pc /\ op'[r].kind = op[r].kind /\ op'[r].pw = op[r].pw /\ op'[r].row = row
      /\ op'[r].role = op[r].role
      /\ \A q \in Req : q # r => op'[q] = op[q]
  BY <1>1, CopyOp
<1> QED BY <1>1, <1>2, NoneAssumption DEF StepFits, Stepped, Administering

\* A step of a request in flight fits its kind.
LEMMA ProceedSteps ==
    ASSUME TypeInv, NEW r \in Req, Proceeds(r)
    PROVE  Stepped(r)
<1> USE SteppedGoing, SteppedDone DEF Step, Administering
<1>0. StepFits(op[r]) /\ op[r] \in Op /\ TypeOK
  BY DEF TypeInv, StepsFit, TypeOK
<1>1. CASE LoginRead(r)
  <2>1. ASSUME NEW k \in Rows(op[r].name), GotoWith(r, users[k], "rotate")
        PROVE  Stepped(r)
    <3>1. users[k] \in Row
      BY <2>1 DEF TypeInv, TypeOK, Rows
    <3> QED BY <1>1, <2>1, <3>1, SteppedCopy DEF LoginRead, At
  <2>2. ASSUME legacy = op[r].pw, GotoWith(r, FirstAdmin(AdminName, legacy), "check")
        PROVE  Stepped(r)
    <3>1. FirstAdmin(AdminName, legacy) \in Row
      BY <1>0, <1>1, <2>2, AccountsAssumption DEF LoginRead, At, Op, Row, StepFits, FirstAdmin
    <3> QED BY <1>1, <2>2, <3>1, SteppedCopy DEF LoginRead, At
  <2> QED BY <1>1, <2>1, <2>2 DEF LoginRead
<1>2. CASE SetupHash(r)
  <2>1. op[r].kind \notin Administering /\ op[r].pc = "hash"
    BY <1>0, <1>2 DEF SetupHash, At, StepFits
  <2>2. FirstAdmin(op[r].name, op[r].pw) \in Row
    BY <1>0, <2>1, AccountsAssumption DEF Op, Row, StepFits, FirstAdmin
  <2> QED BY <1>2, <2>1, <2>2, SteppedCopy DEF SetupHash
<1>3. CASE CreateCheck(r)
  BY <1>0, <1>3 DEF CreateCheck, At, StepFits
<1>4. CASE CreateInsert(r)
  BY <1>0, <1>4 DEF CreateInsert, At, StepFits
<1>5. CASE Rotate(r)
  BY <1>5 DEF Rotate
<1>6. CASE AdminRead(r)
  BY <1>0, <1>6 DEF AdminRead, At
<1>7. CASE CountAdmins(r)
  BY <1>0, <1>7 DEF CountAdmins, At, StepFits
<1>8. CASE UpdateUserRole(r) \/ SetUserDisabled(r) \/ DeleteUser(r)
  BY <1>0, <1>8 DEF UpdateUserRole, SetUserDisabled, DeleteUser, At
<1>9. CASE SetUserPasswordHash(r)
  BY <1>0, <1>9 DEF SetUserPasswordHash, At
<1>10. CASE Mirror(r)
  BY <1>0, <1>10 DEF Mirror, AfterMirror, At, StepFits
<1>11. CASE Revoke(r) \/ RevokeOthers(r) \/ StatementFails(r)
  BY <1>11 DEF Revoke, RevokeOthers, StatementFails
<1>12. CASE ChangeLegacy(r)
  BY <1>0, <1>12 DEF ChangeLegacy, At, StepFits
<1> QED
  BY <1>1, <1>2, <1>3, <1>4, <1>5, <1>6, <1>7, <1>8, <1>9, <1>10, <1>11, <1>12 DEF Proceeds
\* A step of a request in flight keeps the types.
LEMMA ProceedTypes ==
    ASSUME TypeInv, NEW r \in Req, Proceeds(r)
    PROVE  TypeInv'
<1> USE AccountsAssumption
<1>0. TypeOK /\ StepFits(op[r]) /\ op[r] \in Op /\ Stepped(r)
  BY ProceedSteps DEF TypeInv, StepsFit, TypeOK
<1>1. StepsFit' /\ op' \in [Req -> Op]
  BY <1>0 DEF TypeInv, StepsFit, StepFits, Stepped
<1>2. CASE LoginRead(r) \/ CreateCheck(r) \/ AdminRead(r) \/ CountAdmins(r)
  BY <1>0, <1>1, <1>2 DEF LoginRead, CreateCheck, AdminRead, CountAdmins, TypeInv, TypeOK
<1>3. CASE SetupHash(r)
  BY <1>0, <1>1, <1>3 DEF SetupHash, Op, TypeInv, TypeOK
<1>4. CASE CreateInsert(r)
  <2>1. NewRow(r) \in Row
    BY <1>0, <1>4 DEF CreateInsert, At, NewRow, StepFits, Administering, Op, Row
  <2> QED BY <1>0, <1>1, <1>4, <2>1 DEF CreateInsert, TypeInv, TypeOK
<1>5. CASE Rotate(r)
  <2>1. [name |-> op[r].row.name, role |-> op[r].row.role,
                             pw |-> op[r].row.pw, overtaken |-> op[r].overtaken] \in Auth
    BY <1>0, <1>5 DEF Rotate, At, StepFits, Op, Row, Auth
  <2>2. authed' \in [Session -> Auth \cup {None}]
    BY <1>0, <1>5, <2>1 DEF Rotate, TypeOK
  <2> QED BY <1>0, <1>1, <1>5, <2>2 DEF Rotate, TypeInv, TypeOK
<1>6. CASE SetUserPasswordHash(r) \/ UpdateUserRole(r) \/ SetUserDisabled(r) \/ DeleteUser(r)
  <2>1. op[r].role \in Role /\ op[r].pw \in Pw \cup {None}
    BY <1>0 DEF Op
  <2>2. CASE SetUserPasswordHash(r)
    <3>1. op[r].pw \in Pw
      BY <1>0, <2>2 DEF SetUserPasswordHash, At, StepFits, Administering, Op
    <3>2. users' \in [Key -> Row \cup {None}]
      BY <1>0, <2>2, <3>1 DEF SetUserPasswordHash, TypeOK, Row, Rows
    <3>3. ASSUME NEW s \in Session, CurrentName(s) = op[r].name
          PROVE  [authed[s] EXCEPT !.pw = op[r].pw] \in Auth
      <4>1. authed[s] \in Auth
        BY <1>0, <3>3 DEF CurrentName, TypeOK, Op
      <4> QED BY <3>1, <4>1 DEF Auth
    <3>4. authed' \in [Session -> Auth \cup {None}]
      BY <1>0, <2>2, <3>3 DEF SetUserPasswordHash, TypeOK
    <3> QED BY <1>0, <1>1, <2>2, <3>2, <3>4 DEF SetUserPasswordHash, TypeInv, TypeOK
  <2>3. CASE UpdateUserRole(r)
    <3>1. users' \in [Key -> Row \cup {None}]
      BY <1>0, <2>1, <2>3 DEF UpdateUserRole, TypeOK, Row, Rows
    <3> QED BY <1>0, <1>1, <2>3, <3>1 DEF UpdateUserRole, TypeInv, TypeOK
  <2>4. CASE SetUserDisabled(r)
    <3>1. ASSUME NEW k \in Rows(op[r].name), NEW b \in BOOLEAN
          PROVE  [users[k] EXCEPT !.disabled = b] \in Row
      <4>1. users[k] \in Row
        BY <1>0 DEF TypeOK, Rows
      <4> QED BY <4>1 DEF Row
    <3>2. users' \in [Key -> Row \cup {None}]
      BY <1>0, <2>4, <3>1 DEF SetUserDisabled, TypeOK
    <3> QED BY <1>0, <1>1, <2>4, <3>2 DEF SetUserDisabled, TypeInv, TypeOK
  <2>5. CASE DeleteUser(r)
    BY <1>0, <1>1, <2>5 DEF DeleteUser, TypeInv, TypeOK
  <2> QED BY <1>6, <2>2, <2>3, <2>4, <2>5
<1>7. CASE Mirror(r)
  <2> DEFINE Entry == [write : BOOLEAN, disabled : BOOLEAN] \cup {None}
  <2>1. MirrorAfter(op[r].kind, op[r].name, op[r].role) \in Entry
    <3>1. op[r].name \in Name
      BY <1>0 DEF Op
    <3>2. mirror[op[r].name] \in Entry
      BY <1>0, <3>1 DEF TypeOK
    <3> QED BY <3>2 DEF MirrorAfter
  <2> QED BY <1>0, <1>1, <1>7, <2>1 DEF Mirror, Op, TypeInv, TypeOK
<1>8. CASE Revoke(r) \/ RevokeOthers(r)
  BY <1>0, <1>1, <1>8 DEF Revoke, RevokeOthers, TypeInv, TypeOK
<1>9. CASE ChangeLegacy(r)
  BY <1>0, <1>1, <1>9 DEF ChangeLegacy, Op, TypeInv, TypeOK
<1>10. CASE StatementFails(r)
  <2>1. legacy' \in Pw \cup {None}
    BY <1>0, <1>10 DEF StatementFails, Op, TypeOK
  <2>2. ASSUME NEW s \in Session, CurrentName(s) = op[r].name
        PROVE  [authed[s] EXCEPT !.overtaken = TRUE] \in Auth
    <3>1. authed[s] \in Auth
      BY <1>0, <2>2 DEF CurrentName, TypeOK, Op
    <3> QED BY <3>1 DEF Auth
  <2>3. authed' \in [Session -> Auth \cup {None}]
    BY <1>0, <1>10, <2>2 DEF StatementFails, TypeOK
  <2> QED BY <1>0, <1>1, <1>10, <2>1, <2>3 DEF StatementFails, TypeInv, TypeOK
<1> QED
  BY <1>1, <1>2, <1>3, <1>4, <1>5, <1>6, <1>7, <1>8, <1>9, <1>10 DEF Proceeds
\* So does a restart, which creates the legacy password's account if need be.
LEMMA RestartTypes ==
    ASSUME TypeInv, Restart
    PROVE  TypeInv'
<1> USE AccountsAssumption DEF TypeInv
<1>1. users' \in [Key -> Row \cup {None}]
  <2>1. stored # None => FirstAdmin(AdminName, stored) \in Row
    BY DEF TypeOK, FirstAdmin, Row
  <2> QED BY <2>1 DEF Restart, TypeOK
<1>2. mirror' \in [Name -> [write : BOOLEAN, disabled : BOOLEAN] \cup {None}]
  <2>1. \A k \in Key : users[k] # None =>
           MirrorOf(users[k]) \in [write : BOOLEAN, disabled : BOOLEAN]
    BY DEF TypeOK, Row, MirrorOf
  <2>2. PICK last \in [Name -> Key] :
          /\ \A n \in Name : Rows(n) # {} => last[n] \in Rows(n)
          /\ mirror' = [n \in Name |->
                IF ~MirrorWorks THEN mirror[n]
                ELSE IF Rows(n) # {} THEN MirrorOf(users[last[n]])
                ELSE IF ~UsersExist /\ stored # None /\ n = AdminName
                THEN [write |-> TRUE, disabled |-> FALSE]
                ELSE mirror[n]]
    BY DEF Restart
  <2>3. ASSUME NEW n \in Name, Rows(n) # {}
        PROVE  MirrorOf(users[last[n]]) \in [write : BOOLEAN, disabled : BOOLEAN]
    BY <2>1, <2>2, <2>3 DEF Rows
  <2> QED BY <2>2, <2>3 DEF TypeOK
<1>3. open' \in BOOLEAN /\ ranOpen' \in BOOLEAN
  BY DEF Restart, TypeOK
<1> QED
  BY <1>1, <1>2, <1>3 DEF Restart, TypeOK, StepsFit

\* No step leads out of the types.
LEMMA TypeStep ==
    ASSUME TypeInv, [Next]_vars
    PROVE  TypeInv'
<1> USE DEF TypeInv
<1>1. ASSUME NEW r \in Req, Starts(r) PROVE TypeInv'
  BY <1>1, StartTypes
<1>2. ASSUME NEW r \in Req, Proceeds(r) PROVE TypeInv'
  BY <1>2, ProceedTypes
<1>3. ASSUME NEW s \in Session, SignOut(s) PROVE TypeInv'
  BY <1>3 DEF SignOut, TypeOK, StepsFit
<1>4. CASE SaveSettings \/ SetupMode
  BY <1>4 DEF SaveSettings, SetupMode, TypeOK, StepsFit
<1>5. CASE Restart
  BY <1>5, RestartTypes
<1>6. CASE UNCHANGED vars
  BY <1>6 DEF vars, TypeOK, StepsFit
<1> QED
  BY <1>1, <1>2, <1>3, <1>4, <1>5, <1>6 DEF Next

\* Nothing is in flight when the process starts for the first time.
LEMMA TypeInit == Init => TypeInv
<1>1. IdleOp \in Op /\ StepFits(IdleOp)
  BY AccountsAssumption DEF IdleOp, Op, Kind, Step, StepFits, Administering
<1> QED
  BY <1>1, AccountsAssumption DEF Init, TypeInv, TypeOK, StepsFit

\* Types: rows, sessions, the mirror and the requests in flight keep their shape
\* through every handler of users.go, admin_users.go and admin_auth.go.
THEOREM Types == Spec => []TypeOK
<1>1. TypeInv => TypeOK
  BY DEF TypeInv
<1> QED
  BY <1>1, TypeInit, TypeStep, PTL DEF Spec

----------------------------------------------------------------------------
(* Sessions follow accounts *)

\* Copying an account that is there, or announcing one that is not.
LEMMA CopyingFollows ==
    ASSUME SessionInv, NEW r \in Req, LoginRead(r) \/ SetupHash(r)
    PROVE  CopiesCurrent' /\ SessionsMatch'
<1> USE DEF SessionInv, TypeInv
<1>1. StepFits(op[r]) /\ TypeOK /\ users' = users /\ authed' = authed
  BY DEF StepsFit, LoginRead, SetupHash
<1>2. op[r].pc \in {"read", "hash"}
  BY DEF LoginRead, SetupHash, At
<1> DEFINE Good == /\ \A q \in Req : q # r => op'[q] = op[q]
                   /\ op'[r].pc \notin {"mirror", "revoke"}
                   /\ Signing(r)' => Current(op'[r])
<1>3. Good
  <2>1. ASSUME NEW k \in Rows(op[r].name), ~users[k].disabled, GotoWith(r, users[k], "rotate")
        PROVE  Good
    <3>1. users[k] \in Row /\ users[k].name = op[r].name
      BY <2>1, <1>1 DEF TypeOK, Rows
    <3>2. /\ op'[r].row = users[k] /\ op'[r].pc = "rotate" /\ op'[r].name = op[r].name
          /\ \A q \in Req : q # r => op'[q] = op[q]
      BY <1>1, <2>1, <3>1, CopyOp DEF Step
    <3> QED BY <1>1, <2>1, <3>1, <3>2 DEF Current, Matches, Rows
  <2>2. ASSUME op[r].kind = "login", op[r].pc = "read", op[r].name = AdminName, legacy = op[r].pw,
               Rows(op[r].name) = {}, GotoWith(r, FirstAdmin(AdminName, legacy), "check")
        PROVE  Good
    <3>1. FirstAdmin(AdminName, legacy) \in Row
      BY <1>1, <2>2, AccountsAssumption DEF TypeOK, Op, Row, StepFits, Administering, FirstAdmin
    <3>2. /\ op'[r].row = FirstAdmin(AdminName, legacy) /\ op'[r].pc = "check"
          /\ op'[r].name = op[r].name /\ op'[r].role = op[r].role
          /\ \A q \in Req : q # r => op'[q] = op[q]
      BY <1>1, <2>2, <3>1, CopyOp DEF Step
    <3> QED BY <1>1, <2>2, <3>2 DEF Current, FirstAdmin, Rows, StepFits
  <2>3. CASE SetupHash(r)
    <3>1. FirstAdmin(op[r].name, op[r].pw) \in Row
      BY <1>1, <2>3, AccountsAssumption DEF SetupHash, At, TypeOK, Op, Row, StepFits,
         Administering, FirstAdmin
    <3>2. /\ op'[r].row = FirstAdmin(op[r].name, op[r].pw) /\ op'[r].pc = "check"
          /\ op'[r].name = op[r].name /\ op'[r].role = op[r].role /\ op'[r].kind = op[r].kind
          /\ \A q \in Req : q # r => op'[q] = op[q]
      BY <1>1, <2>3, <3>1, CopyOp DEF SetupHash, Step
    <3>3. op[r].kind # "login"
      BY <1>1, <2>3 DEF SetupHash, At, StepFits
    <3> QED BY <1>1, <3>2, <3>3 DEF Current, FirstAdmin, Signing, StepFits
  <2>4. CASE Done(r)
    BY <1>1, <2>4, DoneOp DEF Signing
  <2> QED BY <2>1, <2>2, <2>3, <2>4 DEF LoginRead, At
<1>4. CopiesCurrent'
  <2> SUFFICES ASSUME NEW q \in Req, Signing(q)'
               PROVE  Current(op[q])'
    BY DEF CopiesCurrent
  <2>1. CASE q = r
    BY <1>1, <1>3, <2>1 DEF Current, Matches, Rows
  <2>2. CASE q # r
    BY <1>1, <1>3, <2>2 DEF CopiesCurrent, Current, Signing, Matches, Rows
  <2> QED BY <2>1, <2>2
<1>5. SessionsMatch'
  BY <1>1, <1>2, <1>3 DEF SessionsMatch, Demoting, Matches, Rows
<1> QED BY <1>4, <1>5
\* Session s is signed in as before, whatever it knows of the password.
SignInKept(s) == authed'[s] # None => /\ authed[s] # None
                                      /\ authed'[s].name = authed[s].name
                                      /\ authed'[s].role = authed[s].role
                                      /\ authed'[s].overtaken = authed[s].overtaken

\* A request that changes the rows of its account: everything about the other
\* accounts stays, the logins of this one are overtaken, and whoever may have
\* lost a right is about to be signed out.
LEMMA ChangeFollows ==
    ASSUME SessionInv, NEW r \in Req, NEW pc \in Step, GotoChanging(r, pc),
           NEW m \in Name, op[r].name = m, NEW given \in Role, op[r].role = given,
           \A s \in Session : SignInKept(s),
           \A n \in Name, role \in Role : n # m =>
              /\ Rows(n)' = Rows(n)
              /\ Matches(n, role)' <=> Matches(n, role),
           \/ op[r].kind \in {"role", "disable", "delete"} /\ pc = "mirror"
           \/ /\ op[r].kind \notin {"role", "disable", "delete"}
              /\ \A role \in Role : Matches(m, role) => Matches(m, role)',
           Signing(r) => pc = "mirror" /\ op[r].pc \in {"check", "insert"}
                         /\ Matches(m, given)',
           ~Signing(r) => op[r].kind \notin {"login", "setup"}
    PROVE  CopiesCurrent' /\ SessionsMatch'
<1> USE DEF SessionInv, TypeInv
<1>1. /\ op' \in [Req -> Op]
      /\ \A q \in Req :
           /\ Kept(q)
           /\ op'[q].pc = IF q = r THEN pc ELSE op[q].pc
           /\ op'[q].overtaken = IF q # r /\ Signing(q) /\ op[q].name = op[r].name
                                 THEN TRUE ELSE op[q].overtaken
  BY GotoChangingOp
<1>2. CopiesCurrent'
  <2> SUFFICES ASSUME NEW q \in Req, Signing(q)'
               PROVE  Current(op[q])'
    BY DEF CopiesCurrent
  <2>1. CASE q = r
    <3>1. Signing(r)
      BY <1>1, <2>1 DEF Signing, Kept
    <3>2. op'[r].name = m /\ op'[r].row.name = m /\ op'[r].row.role = given /\ op'[r].role = given
      BY <1>1, <3>1 DEF CopiesCurrent, Current, Kept
    <3> QED BY <1>1, <2>1, <3>1, <3>2 DEF Current
  <2>2. CASE q # r /\ op[q].name = op[r].name
    <3>1. Signing(q)
      BY <1>1, <2>2 DEF Signing, Kept
    <3> QED BY ZenonT(60), <1>1, <2>2, <3>1 DEF CopiesCurrent, Current, Kept
  <2>3. CASE q # r /\ op[q].name # op[r].name
    <3>1. Signing(q) /\ Current(op[q]) /\ op[q].row \in Row /\ op[q].name \in Name
      <4>1. Signing(q) /\ Current(op[q])
        BY <1>1, <2>3 DEF Signing, Kept, CopiesCurrent
      <4>2. op[q] \in Op /\ StepFits(op[q])
        BY DEF TypeOK, StepsFit
      <4>3. op[q].row # None /\ op[q].row \in Row \cup {None} /\ op[q].name \in Name
        BY <4>1, <4>2 DEF Signing, StepFits, Op
      <4> QED BY <4>1, <4>3
    <3> QED BY <1>1, <2>3, <3>1 DEF Current, Kept, Row
  <2> QED BY <2>1, <2>2, <2>3
<1>3. ASSUME NEW s \in Session, authed'[s] # None
      PROVE  /\ authed[s] # None /\ authed[s].name \in Name /\ authed[s].role \in Role
             /\ authed'[s].name = authed[s].name /\ authed'[s].role = authed[s].role
             /\ authed'[s].overtaken = authed[s].overtaken
  <2>1. authed[s] # None /\ authed[s] \in Auth \cup {None}
    BY <1>3 DEF SignInKept, TypeOK
  <2> QED BY <1>3, <2>1 DEF SignInKept, Auth
<1>4. SessionsMatch'
  <2> SUFFICES ASSUME NEW s \in Session, NEW n \in Name, NEW role \in Role,
                      authed[s] # None, authed[s].name = n, authed[s].role = role,
                      ~authed[s].overtaken, ~Demoting(n)'
               PROVE  Matches(n, role)'
    BY <1>3 DEF SessionsMatch
  <2>1. ~Demoting(n)
    BY <1>1 DEF Demoting, Kept
  <2>2. Matches(n, role)
    BY <2>1 DEF SessionsMatch
  <2>3. CASE n # m
    BY <2>2, <2>3
  <2>4. CASE n = m
    <3>1. op[r].kind \notin {"role", "disable", "delete"}
      BY <1>1, <2>4 DEF Demoting, Kept
    <3> QED BY <2>2, <2>4, <3>1
  <2> QED BY <2>3, <2>4
<1> QED BY <1>2, <1>4
\* The statements on the users table: an inserted row is new, an updated or
\* deleted one is found by its name.
LEMMA StatementFollows ==
    ASSUME SessionInv, NEW r \in Req,
           \/ CreateInsert(r) \/ UpdateUserRole(r) \/ SetUserDisabled(r)
           \/ DeleteUser(r) \/ SetUserPasswordHash(r)
    PROVE  CopiesCurrent' /\ SessionsMatch'
<1> USE DEF SessionInv, TypeInv
<1> DEFINE m == op[r].name
           given == op[r].role
<1>1. TypeOK /\ StepFits(op[r]) /\ m \in Name /\ given \in Role
  BY DEF TypeOK, Op, StepsFit
<1>2. \A k \in Key : users[k] # None => users[k] \in Row
  BY DEF TypeOK
<1>3. CASE CreateInsert(r)
  <2>1. PICK k \in Key : users[k] = None /\ users' = [users EXCEPT ![k] = NewRow(r)]
    BY <1>3 DEF CreateInsert
  <2>2. /\ users'[k] = [name |-> m, role |-> given, disabled |-> FALSE, pw |-> op[r].pw]
        /\ \A j \in Key : j # k => users'[j] = users[j]
        /\ users'[k] # None
    <3>1. NewRow(r) \in Row
      BY <1>1, <1>3 DEF CreateInsert, At, NewRow, StepFits, Administering, TypeOK, Op, Row
    <3> QED BY <2>1, <3>1, NoneAssumption DEF TypeOK, NewRow
  <2>3. /\ \A n \in Name : n # m => Rows(n)' = Rows(n)
        /\ \A n \in Name, role \in Role : n # m => (Matches(n, role)' <=> Matches(n, role))
        /\ \A n \in Name, role \in Role : Matches(n, role) => Matches(n, role)'
        /\ \A n \in Name, role \in Role : n = m /\ role = given => Matches(n, role)'
    BY <2>1, <2>2 DEF Matches, Rows
  <2>4. \A s \in Session : SignInKept(s)
    BY <1>3 DEF CreateInsert, SignInKept
  <2>5. /\ GotoChanging(r, "mirror") /\ "mirror" \in Step /\ op[r].pc = "insert"
        /\ op[r].kind \notin {"role", "disable", "delete"}
        /\ ~Signing(r) => op[r].kind \notin {"login", "setup"}
    BY <1>1, <1>3 DEF CreateInsert, At, Step, StepFits, Administering, Signing
  <2> HIDE DEF SessionInv, m, given
  <2> QED BY <1>1, <2>3, <2>4, <2>5, ChangeFollows DEF m, given
<1>4. ASSUME NEW new \in [Key -> Row \cup {None}], users' = new,
             \A k \in Key : k \notin Rows(m) => new[k] = users[k],
             \A k \in Rows(m) : new[k] = None \/ new[k].name = m
      PROVE  /\ \A n \in Name : n # m => Rows(n)' = Rows(n)
             /\ \A n \in Name, role \in Role : n # m => (Matches(n, role)' <=> Matches(n, role))
  <2>1. \A n \in Name : n # m => Rows(n)' = Rows(n)
    BY <1>4 DEF Rows
  <2>2. \A n \in Name, k \in Key : n # m /\ k \in Rows(n) => new[k] = users[k]
    BY <1>4 DEF Rows
  <2> QED BY <1>4, <2>1, <2>2 DEF Matches, Rows
<1>5. CASE UpdateUserRole(r)
  <2>1. /\ users' \in [Key -> Row \cup {None}]
        /\ \A k \in Key : k \notin Rows(m) => users'[k] = users[k]
        /\ \A k \in Rows(m) : users'[k].name = m
    BY <1>1, <1>2, <1>5 DEF UpdateUserRole, Rows, TypeOK, Row
  <2>2. /\ GotoChanging(r, "mirror") /\ "mirror" \in Step /\ op[r].kind = "role" /\ ~Signing(r)
        /\ \A s \in Session : SignInKept(s)
    BY <1>5 DEF UpdateUserRole, At, Step, Signing, SignInKept
  <2> QED BY <1>1, <1>4, <2>1, <2>2, ChangeFollows
<1>6. CASE SetUserDisabled(r)
  <2>1. /\ users' \in [Key -> Row \cup {None}]
        /\ \A k \in Key : k \notin Rows(m) => users'[k] = users[k]
        /\ \A k \in Rows(m) : /\ users'[k].name = m /\ users'[k].role = users[k].role
                               /\ users'[k].disabled = (op[r].kind = "disable")
                               /\ users'[k] # None
    <3>1. \A k \in Rows(m) : [users[k] EXCEPT !.disabled = op[r].kind = "disable"] \in Row
      BY <1>2 DEF Rows, Row
    <3> QED BY <1>1, <1>2, <1>6, <3>1, NoneAssumption DEF SetUserDisabled, Rows, TypeOK, Row
  <2>2. /\ GotoChanging(r, "mirror") /\ "mirror" \in Step /\ op[r].kind \in {"disable", "enable"}
        /\ ~Signing(r) /\ \A s \in Session : SignInKept(s)
    BY <1>6 DEF SetUserDisabled, At, Step, Signing, SignInKept
  <2>3. op[r].kind = "enable" =>
           \A n \in Name, role \in Role : n = m => (Matches(n, role) => Matches(n, role)')
    BY <2>1 DEF Matches, Rows
  <2> HIDE DEF SessionInv, m, given
  <2> QED BY <1>1, <1>4, <2>1, <2>2, <2>3, ChangeFollows DEF m, given
<1>7. CASE DeleteUser(r)
  <2>1. /\ users' \in [Key -> Row \cup {None}]
        /\ \A k \in Key : k \notin Rows(m) => users'[k] = users[k]
        /\ \A k \in Rows(m) : users'[k] = None
    BY <1>1, <1>7 DEF DeleteUser, Rows, TypeOK
  <2>2. /\ GotoChanging(r, "mirror") /\ "mirror" \in Step /\ op[r].kind = "delete" /\ ~Signing(r)
        /\ \A s \in Session : SignInKept(s)
    BY <1>7 DEF DeleteUser, At, Step, Signing, SignInKept
  <2> QED BY <1>1, <1>4, <2>1, <2>2, ChangeFollows
<1>8. CASE SetUserPasswordHash(r)
  <2> DEFINE pc == IF op[r].kind = "reset" THEN "revoke" ELSE "legacy"
  <2>1. /\ GotoChanging(r, pc) /\ pc \in Step /\ op[r].kind \in {"reset", "change"}
        /\ ~Signing(r) /\ op[r].pw \in Pw
    BY <1>1, <1>8 DEF SetUserPasswordHash, At, Step, Signing, StepFits, Administering, TypeOK, Op
  <2>2. /\ users' \in [Key -> Row \cup {None}]
        /\ \A k \in Key : k \notin Rows(m) => users'[k] = users[k]
        /\ \A k \in Rows(m) : /\ users'[k].name = m /\ users'[k].role = users[k].role
                               /\ users'[k].disabled = users[k].disabled
                               /\ users'[k] # None
    <3>1. \A k \in Rows(m) : [users[k] EXCEPT !.pw = op[r].pw] \in Row
      BY <1>2, <2>1 DEF Rows, Row
    <3> QED BY <1>1, <1>2, <1>8, <3>1, NoneAssumption DEF SetUserPasswordHash, Rows, TypeOK, Row
  <2>3. \A n \in Name, role \in Role : n = m => (Matches(n, role) => Matches(n, role)')
    BY <2>2 DEF Matches, Rows
  <2>4. ASSUME NEW s \in Session
        PROVE  SignInKept(s)
    <3>1. CurrentName(s) = m => authed[s] # None /\ authed[s] \in Auth
      BY <1>1, AccountsAssumption DEF CurrentName, TypeOK
    <3> QED BY <1>8, <3>1, AccountsAssumption DEF SetUserPasswordHash, SignInKept, Auth
  <2> HIDE DEF SessionInv, m, given, pc
  <2> QED BY <1>1, <1>4, <2>1, <2>2, <2>3, <2>4, ChangeFollows DEF m, given, pc
<1> QED
  BY <1>3, <1>5, <1>6, <1>7, <1>8

\* A request that only goes on (Goto).
LEMMA GoingFollows ==
    ASSUME SessionInv, NEW r \in Req, NEW pc \in Step, Goto(r, pc),
           users' = users, authed' = authed,
           op[r].kind \in {"role", "disable", "delete"} /\ op[r].pc \in {"mirror", "revoke"} =>
              pc = "revoke",
           op[r].kind \in {"login", "setup"} =>
              /\ op[r].pc \in {"check", "insert", "mirror"}
              /\ \/ pc = "insert"
                 \/ pc = "rotate" /\ (op[r].overtaken \/ Matches(op[r].name, op[r].row.role))
    PROVE  CopiesCurrent' /\ SessionsMatch'
<1> USE DEF SessionInv, TypeInv
<1>1. \A q \in Req : /\ Kept(q) /\ op'[q].overtaken = op[q].overtaken
                     /\ op'[q].pc = IF q = r THEN pc ELSE op[q].pc
  BY GotoOp
<1>2. CopiesCurrent'
  <2> SUFFICES ASSUME NEW q \in Req, Signing(q)'
               PROVE  Current(op[q])'
    BY DEF CopiesCurrent
  <2>1. CASE q = r
    <3>1. Signing(r) /\ Current(op[r])
      BY <1>1, <2>1 DEF Signing, Kept, CopiesCurrent
    <3> QED BY <1>1, <2>1, <3>1 DEF Current, Matches, Rows, Kept, Signing
  <2>2. CASE q # r
    BY <1>1, <2>2 DEF CopiesCurrent, Current, Signing, Matches, Rows, Kept
  <2> QED BY <2>1, <2>2
<1>3. \A n : Demoting(n) => Demoting(n)'
  BY <1>1 DEF Demoting, Kept
<1>4. SessionsMatch'
  BY <1>3 DEF SessionsMatch, Matches, Rows
<1> QED BY <1>2, <1>4

\* Session s is signed in as before or not at all; it may count as overtaken.
Fewer(s) == authed'[s] # None => /\ authed[s] # None
                                 /\ authed'[s].name = authed[s].name
                                 /\ authed'[s].role = authed[s].role
                                 /\ authed[s].overtaken => authed'[s].overtaken

\* A request that ends without having signed anybody in (Done).
LEMMA EndingFollows ==
    ASSUME SessionInv, NEW r \in Req, Done(r), users' = users,
           \A s \in Session : Fewer(s),
           op[r].kind \in {"role", "disable", "delete"} /\ op[r].pc \in {"mirror", "revoke"} =>
              \A s \in Session : authed'[s] # None => authed'[s].name # op[r].name
    PROVE  CopiesCurrent' /\ SessionsMatch'
<1> USE DEF SessionInv, TypeInv
<1>1. /\ op'[r].kind = "login" /\ op'[r].pc = "idle"
      /\ \A q \in Req : q # r => op'[q] = op[q]
  BY DoneOp
<1>2. CopiesCurrent'
  <2> SUFFICES ASSUME NEW q \in Req, Signing(q)'
               PROVE  q # r
    BY <1>1 DEF CopiesCurrent, Current, Signing, Matches, Rows
  <2> QED BY <1>1 DEF Signing
<1>3. SessionsMatch'
  <2> SUFFICES ASSUME NEW s \in Session, authed'[s] # None, ~authed'[s].overtaken,
                      NEW n, NEW role, authed'[s].name = n, authed'[s].role = role,
                      ~Demoting(n)'
               PROVE  Matches(n, role)'
    BY DEF SessionsMatch
  <2>1. /\ authed[s] # None /\ authed[s].name = n /\ authed[s].role = role
        /\ ~authed[s].overtaken
    BY DEF Fewer
  <2>2. ~Demoting(n)
    BY <1>1 DEF Demoting
  <2>3. Matches(n, role)
    BY <2>1, <2>2 DEF SessionsMatch
  <2> QED BY <2>3 DEF Matches, Rows
<1> QED BY <1>2, <1>3

\* The last step of a login or a setup: the session gets the rights of the copy.
LEMMA RotateFollows ==
    ASSUME SessionInv, NEW r \in Req, Rotate(r)
    PROVE  CopiesCurrent' /\ SessionsMatch'
<1> USE DEF SessionInv, TypeInv
<1>1. /\ op'[r].kind = "login" /\ op'[r].pc = "idle"
      /\ \A q \in Req : q # r => op'[q] = op[q]
  BY DoneOp DEF Rotate
<1>2. StepFits(op[r]) /\ op[r].pc = "rotate" /\ op[r].kind \in {"login", "setup"} /\ users' = users
  BY DEF StepsFit, StepFits, Rotate, At
<1>3. Signing(r) /\ Current(op[r])
  BY <1>2 DEF Signing, CopiesCurrent
<1>4. CopiesCurrent'
  <2> SUFFICES ASSUME NEW q \in Req, Signing(q)'
               PROVE  q # r
    BY <1>1, <1>2 DEF CopiesCurrent, Current, Signing, Matches, Rows
  <2> QED BY <1>1 DEF Signing
<1>5. \A n : Demoting(n) => Demoting(n)'
  BY <1>1, <1>2 DEF Demoting
<1>6. PICK new \in Session :
        authed' = [s \in Session |->
                     IF s = new
                     THEN [name |-> op[r].row.name, role |-> op[r].row.role,
                           pw |-> op[r].row.pw, overtaken |-> op[r].overtaken]
                     ELSE IF s = op[r].sid THEN None ELSE authed[s]]
  BY DEF Rotate
<1>7. SessionsMatch'
  <2> SUFFICES ASSUME NEW s \in Session, authed'[s] # None, ~authed'[s].overtaken,
                      NEW n, NEW role, authed'[s].name = n, authed'[s].role = role,
                      ~Demoting(n)'
               PROVE  Matches(n, role)'
    BY DEF SessionsMatch
  <2>1. Matches(n, role)
    <3>1. CASE s = new
      BY <1>2, <1>3, <1>6, <3>1 DEF Current
    <3>2. CASE s # new
      BY <1>5, <1>6, <3>2 DEF SessionsMatch
    <3> QED BY <3>1, <3>2
  <2> QED BY <1>2, <2>1 DEF Matches, Rows
<1> QED BY <1>4, <1>7

\* No step of a request in flight leaves a session with rights it should not have.
LEMMA ProceedFollows ==
    ASSUME SessionInv, NEW r \in Req, Proceeds(r)
    PROVE  CopiesCurrent' /\ SessionsMatch'
<1> DEFINE Follows == CopiesCurrent' /\ SessionsMatch'
<1>1. TypeOK /\ StepFits(op[r]) /\ op[r].name \in Name
  BY DEF SessionInv, TypeInv, StepsFit, TypeOK, Op
<1>2. Signing(r) => Current(op[r])
  BY DEF SessionInv, CopiesCurrent
<1>3. CASE LoginRead(r) \/ SetupHash(r)
  BY <1>3, CopyingFollows
<1>4. CASE \/ CreateInsert(r) \/ UpdateUserRole(r) \/ SetUserDisabled(r)
           \/ DeleteUser(r) \/ SetUserPasswordHash(r)
  BY <1>4, StatementFollows
<1>5. CASE Rotate(r)
  BY <1>5, RotateFollows
<1>6. authed' = authed => \A s \in Session : Fewer(s)
  BY DEF Fewer
<1>7. CASE CreateCheck(r)
  <2>1. op[r].pc = "check" /\ users' = users /\ authed' = authed
    BY <1>7 DEF CreateCheck, At
  <2>2. CASE Goto(r, "insert")
    BY <2>1, <2>2, GoingFollows DEF Step
  <2>3. CASE op[r].kind = "login" /\ Rows(op[r].name) # {} /\ Goto(r, "rotate")
    <3>1. op[r].overtaken
      BY <1>2, <2>1, <2>3 DEF Current, Signing
    <3> QED BY <2>1, <2>3, <3>1, GoingFollows DEF Step
  <2>4. CASE Done(r)
    BY <1>6, <2>1, <2>4, EndingFollows
  <2> QED BY <1>7, <2>2, <2>3, <2>4 DEF CreateCheck
<1>8. CASE AdminRead(r) \/ CountAdmins(r)
  <2>1. /\ op[r].pc \in {"read", "count"} /\ users' = users /\ authed' = authed
        /\ op[r].kind \notin {"login", "setup"}
    BY <1>1, <1>8 DEF AdminRead, CountAdmins, At, StepFits
  <2>2. CASE Goto(r, "count") \/ Goto(r, "update")
    BY <2>1, <2>2, GoingFollows DEF Step
  <2>3. CASE Done(r)
    BY <1>6, <2>1, <2>3, EndingFollows
  <2> QED BY <1>8, <2>2, <2>3 DEF AdminRead, CountAdmins
<1>9. CASE Mirror(r)
  <2>1. op[r].pc = "mirror" /\ users' = users /\ authed' = authed
    BY <1>9 DEF Mirror, At
  <2>2. CASE op[r].kind \in {"login", "setup"}
    <3>1. Goto(r, "rotate")
      BY <1>9, <2>2 DEF Mirror, AfterMirror
    <3>2. op[r].overtaken \/ Matches(op[r].name, op[r].row.role)
      BY <1>2, <2>1, <2>2 DEF Current, Signing
    <3> QED BY <2>1, <2>2, <3>1, <3>2, GoingFollows DEF Step
  <2>3. CASE op[r].kind \in {"role", "disable", "delete"}
    <3>1. Goto(r, "revoke")
      BY <1>9, <2>3 DEF Mirror, AfterMirror
    <3> QED BY <2>1, <2>3, <3>1, GoingFollows DEF Step
  <2>4. CASE op[r].kind \notin {"login", "setup", "role", "disable", "delete"}
    <3>1. Done(r)
      BY <1>9, <2>4 DEF Mirror, AfterMirror
    <3> QED BY <1>6, <2>1, <2>4, <3>1, EndingFollows
  <2> QED BY <2>2, <2>3, <2>4
<1>10. CASE Revoke(r) \/ RevokeOthers(r)
  <2>1. Done(r) /\ users' = users
    BY <1>10 DEF Revoke, RevokeOthers
  <2>2. \A s \in Session : authed'[s] # None => authed'[s] = authed[s]
    BY <1>10 DEF Revoke, RevokeOthers
  <2>3. \A s \in Session : Fewer(s)
    BY <2>2 DEF Fewer
  <2>4. Revoke(r) => \A s \in Session : authed'[s] # None => authed'[s].name # op[r].name
    BY DEF Revoke, CurrentName
  <2>5. RevokeOthers(r) => op[r].pc = "revokeOthers"
    BY DEF RevokeOthers, At
  <2> QED BY <1>10, <2>1, <2>3, <2>4, <2>5, EndingFollows
<1>11. CASE ChangeLegacy(r)
  <2>1. /\ op[r].pc = "legacy" /\ op[r].kind \notin {"login", "setup"}
        /\ Goto(r, "revokeOthers") /\ users' = users /\ authed' = authed
    BY <1>1, <1>11 DEF ChangeLegacy, At, StepFits
  <2> QED BY <2>1, GoingFollows DEF Step
<1>12. CASE StatementFails(r)
  <2>1. /\ Done(r) /\ users' = users
        /\ op[r].pc \notin {"mirror", "revoke"}
    BY <1>12 DEF StatementFails
  <2>2. ASSUME NEW s \in Session
        PROVE  Fewer(s)
    <3>1. CurrentName(s) = op[r].name => authed[s] # None /\ authed[s] \in Auth
      BY <1>1, AccountsAssumption DEF CurrentName, TypeOK
    <3>2. authed[s] \in Auth => [authed[s] EXCEPT !.overtaken = TRUE] \in Auth
      BY DEF Auth
    <3> QED BY <1>12, <3>1, <3>2, NoneAssumption DEF StatementFails, Fewer, Auth
  <2> QED BY <2>1, <2>2, EndingFollows
<1> QED
  BY <1>3, <1>4, <1>5, <1>7, <1>8, <1>9, <1>10, <1>11, <1>12 DEF Proceeds

\* Nor does a step of anything else, a restart included.
LEMMA SessionStep ==
    ASSUME SessionInv, [Next]_vars
    PROVE  SessionInv'
<1>1. TypeInv'
  BY TypeStep DEF SessionInv
<1>2. ASSUME NEW r \in Req, Starts(r)
      PROVE  SessionInv'
  BY <1>2, StartTypes, Aside DEF SessionInv
<1>3. ASSUME NEW r \in Req, Proceeds(r)
      PROVE  SessionInv'
  BY <1>1, <1>3, ProceedFollows DEF SessionInv
<1>4. CASE (\E s \in Session : SignOut(s)) \/ SaveSettings \/ SetupMode \/ UNCHANGED vars
  <2>1. /\ op' = op /\ users' = users
        /\ \A s \in Session : authed'[s] # None => authed'[s] = authed[s]
    BY <1>4 DEF SignOut, SaveSettings, SetupMode, vars, SessionInv, TypeInv, TypeOK
  <2>2. CopiesCurrent' /\ SessionsMatch'
    BY <2>1 DEF SessionInv, CopiesCurrent, Current, Signing, SessionsMatch, Demoting, Matches, Rows
  <2> QED BY <1>1, <2>2 DEF SessionInv
<1>5. CASE Restart
  BY <1>1, <1>5 DEF Restart, Quiet, At, SessionInv, CopiesCurrent, SessionsMatch, Signing
<1> QED
  BY <1>2, <1>3, <1>4, <1>5 DEF Next

\* SessionsFollow: for any number of administrators, logins and setups at once,
\* whatever statements fail and whenever the process restarts, a session has the
\* rights of an enabled account of its name, once the handlers of admin_users.go
\* have revoked the sessions they mean to and unless a change overtook its login.
THEOREM SessionsFollowAccounts == Spec => []SessionsFollow
<1>1. Init => SessionInv
  BY TypeInit DEF Init, SessionInv, CopiesCurrent, SessionsMatch, Signing, IdleOp
<1>2. SessionInv => SessionsFollow
  <2>1. \A n : Demoting(n) => Revoking(n)
    BY DEF Demoting, Revoking
  <2> QED BY <2>1 DEF SessionInv, SessionsMatch, SessionsFollow, Matches
<1> QED
  BY <1>1, <1>2, SessionStep, PTL DEF Spec

----------------------------------------------------------------------------
(* One request at a time *)

\* There are never two requests in flight: with it the accounts keep what two
\* overlapping requests can break (last_admin_race).
Serial == \A q, r \in Req : q = r

\* No two rows have the same name.
OneRow == \A i, j \in Key : users[i] # None /\ users[j] # None /\ users[i].name = users[j].name => i = j

\* An account that r read before is still there, one that r found missing is not.
Undisturbed(o) ==
    /\ ~o.overtaken
    /\ o.pc = "insert" => Rows(o.name) = {}
    /\ o.kind \in {"role", "disable", "delete"} /\ o.pc \in {"count", "update"} => Rows(o.name) # {}

\* The steps of createUser, resetUserPassword and adminChangePassword.
OnCourse(o) ==
    /\ o.kind = "create" => o.pc \in {"check", "insert", "mirror"}
    /\ o.kind = "reset" => o.pc \in {"update", "revoke"}
    /\ o.kind = "change" => o.pc \in {"update", "legacy", "revokeOthers"}

SerialInv ==
    /\ SessionInv /\ OneRow
    /\ \A r \in Req : Undisturbed(op[r]) /\ OnCourse(op[r])

\* RoleTakesEffect with the narrower excuse of SessionsMatch: whatever was
\* reported as failed, a session's role is that of an enabled account of its name.
RolesMatch ==
    \A s \in Session :
        authed[s] # None /\ ~Demoting(authed[s].name) => Matches(authed[s].name, authed[s].role)

\* Whoever may create an account was let in by an administrator, and the rows a
\* request is about to change leave one over.
Guarded(o) ==
    /\ o.kind = "create" /\ o.pc \in {"check", "insert"} => EnabledAdmins # {}
    /\ o.kind \in {"role", "disable", "delete"} /\ o.pc = "update" => EnabledAdmins \ Rows(o.name) # {}

AdminsKept ==
    /\ open => ranOpen
    /\ ~ranOpen => /\ UsersExist => EnabledAdmins # {}
                   /\ \A r \in Req : Guarded(op[r])

AdminInv == SerialInv /\ RolesMatch /\ AdminsKept

\* The entry m of the mirror fits the rows of the name n.
Fits(m, n) ==
    /\ Rows(n) = {} => m = None
    /\ \A k \in Rows(n) : /\ m # None
                          /\ m.write = (users[k].role # "readonly")
                          /\ ~users[k].disabled => ~m.disabled

\* What the mirror holds of n once the request under way has told it.
Told(n) ==
    \A r \in Req : op[r].pc = "mirror" /\ op[r].name = n => Fits(MirrorAfter(op[r].kind, n, op[r].role), n)

Telling(n) == \E r \in Req : op[r].pc = "mirror" /\ op[r].name = n

MirrorInv == SerialInv /\ \A n \in Name : Told(n) /\ (~Telling(n) => Fits(mirror[n], n))

----------------------------------------------------------------------------
(* What the statements do to the rows *)

\* CreateInsert: one row that was free is the new account.
LEMMA InsertedRow ==
    ASSUME TypeInv, NEW r \in Req, CreateInsert(r)
    PROVE  \E k \in Key :
             /\ users[k] = None
             /\ users'[k] # None /\ users'[k].name = op[r].name /\ users'[k].role = op[r].role
             /\ ~users'[k].disabled /\ users'[k].pw = op[r].pw
             /\ \A j \in Key : j # k => users'[j] = users[j]
<1>1. PICK k \in Key : users[k] = None /\ users' = [users EXCEPT ![k] = NewRow(r)]
  BY DEF CreateInsert
<1>2. NewRow(r) \in Row
  BY DEF TypeInv, TypeOK, StepsFit, CreateInsert, At, NewRow, StepFits, Administering, Op, Row
<1>3. users'[k] = NewRow(r) /\ \A j \in Key : j # k => users'[j] = users[j]
  BY <1>1 DEF TypeInv, TypeOK
<1>4. /\ users'[k] # None /\ users'[k].name = op[r].name /\ users'[k].role = op[r].role
      /\ ~users'[k].disabled /\ users'[k].pw = op[r].pw
  <2>1. users'[k] # None
    BY <1>2, <1>3, NoneAssumption
  <2>2. users'[k] = [name |-> op[r].name, role |-> op[r].role, disabled |-> FALSE, pw |-> op[r].pw]
    BY <1>3 DEF NewRow
  <2> QED BY <2>1, <2>2
<1> QED BY <1>1, <1>3, <1>4

\* The row of an updated account differs in the column of the statement.
Rewritten(r, k) ==
    /\ users'[k] # None /\ users'[k].name = op[r].name
    /\ users'[k].role = IF op[r].kind = "role" THEN op[r].role ELSE users[k].role
    /\ users'[k].disabled = IF op[r].kind \in {"disable", "enable"} THEN op[r].kind = "disable"
                            ELSE users[k].disabled
    /\ users'[k].pw = IF op[r].kind \in {"reset", "change"} THEN op[r].pw ELSE users[k].pw

\* UpdateUserRole, SetUserDisabled and SetUserPasswordHash find rows by name.
LEMMA UpdatedRows ==
    ASSUME TypeInv, NEW r \in Req,
           UpdateUserRole(r) \/ SetUserDisabled(r) \/ SetUserPasswordHash(r)
    PROVE  /\ \A k \in Rows(op[r].name) : Rewritten(r, k)
           /\ \A k \in Key : k \notin Rows(op[r].name) => users'[k] = users[k]
           /\ \A n : Rows(n)' = Rows(n)
<1>1. /\ op[r].role \in Role /\ op[r].pw \in Pw \cup {None}
      /\ op[r].kind \in {"reset", "change"} => op[r].pw \in Pw
  BY DEF TypeInv, TypeOK, Op, StepsFit, StepFits, Administering,
     UpdateUserRole, SetUserDisabled, SetUserPasswordHash, At
<1>2. ASSUME NEW k \in Rows(op[r].name)
      PROVE  users[k] \in Row /\ users[k].name = op[r].name
  BY <1>2 DEF TypeInv, TypeOK, Rows
<1>3. ASSUME NEW k \in Rows(op[r].name)
      PROVE  Rewritten(r, k)
  <2>1. CASE UpdateUserRole(r)
    <3>1. users'[k] = [users[k] EXCEPT !.role = op[r].role] /\ op[r].kind = "role"
      BY <2>1 DEF UpdateUserRole, Rows
    <3>2. users'[k] \in Row
      BY <1>1, <1>2, <3>1 DEF Row
    <3> QED BY <1>2, <3>1, <3>2, NoneAssumption DEF Rewritten, Row
  <2>2. CASE SetUserDisabled(r)
    <3>1. /\ users'[k] = [users[k] EXCEPT !.disabled = op[r].kind = "disable"]
          /\ op[r].kind \in {"disable", "enable"}
      BY <2>2 DEF SetUserDisabled, Rows
    <3>2. users'[k] \in Row
      BY <1>2, <3>1 DEF Row
    <3> QED BY <1>2, <3>1, <3>2, NoneAssumption DEF Rewritten, Row
  <2>3. CASE SetUserPasswordHash(r)
    <3>1. /\ users'[k] = [users[k] EXCEPT !.pw = op[r].pw]
          /\ op[r].kind \in {"reset", "change"}
      BY <2>3 DEF SetUserPasswordHash, Rows
    <3>2. users'[k] \in Row
      BY <1>1, <1>2, <3>1 DEF Row
    <3> QED BY <1>2, <3>1, <3>2, NoneAssumption DEF Rewritten, Row
  <2> QED BY <2>1, <2>2, <2>3
<1>4. \A k \in Key : k \notin Rows(op[r].name) => users'[k] = users[k]
  BY DEF UpdateUserRole, SetUserDisabled, SetUserPasswordHash
<1>5. \A k \in Key : /\ users'[k] # None <=> users[k] # None
                     /\ users[k] # None => users'[k].name = users[k].name
  BY <1>2, <1>3, <1>4 DEF Rewritten, Rows
<1>6. ASSUME NEW n
      PROVE  Rows(n)' = Rows(n)
  BY <1>5 DEF Rows
<1> QED BY <1>3, <1>4, <1>6

\* DeleteUser removes every row of the name.
LEMMA DeletedRows ==
    ASSUME NEW r \in Req, DeleteUser(r)
    PROVE  /\ \A k \in Key : users'[k] = IF k \in Rows(op[r].name) THEN None ELSE users[k]
           /\ \A n : Rows(n)' = IF n = op[r].name THEN {} ELSE Rows(n)
BY DEF DeleteUser, Rows

----------------------------------------------------------------------------
(* Where a step takes its own request *)

\* What beginning does to the request itself (Begin).
LEMMA BeginRecord ==
    ASSUME TypeOK, NEW r \in Req, NEW kind, NEW s, NEW n, NEW role, NEW p, NEW pc,
           Begin(r, kind, s, n, role, p, pc)
    PROVE  /\ op'[r].kind = kind /\ op'[r].sid = s /\ op'[r].name = n /\ op'[r].role = role
           /\ op'[r].pw = p /\ op'[r].pc = pc /\ op'[r].overtaken = FALSE
BY DEF TypeOK, Begin

\* A request that has just begun stands at the first step of its handler; one
\* that administers accounts was let in.
Fresh(o) ==
    /\ o.overtaken = FALSE
    /\ o.pc \in {"read", "hash", "check", "update", "legacy"}
    /\ o.kind \in {"login", "setup"} => o.pc \in {"read", "hash"}
    /\ o.kind \in {"role", "disable", "delete"} => o.pc = "read"
    /\ o.kind = "create" => \E s \in Session : Gate(s)
    /\ o.kind = "change" /\ o.pc = "legacy" => o.sid \in Session /\ authed[o.sid] = None
    /\ OnCourse(o)

\* Beginning changes nothing but the request (the handlers' first lines).
LEMMA StartsFresh ==
    ASSUME TypeInv, NEW r \in Req, Starts(r)
    PROVE  /\ Fresh(op'[r]) /\ op[r].pc = "idle"
           /\ UNCHANGED <<users, authed, legacy, stored, open, mirror, ranOpen>>
<1> USE BeginRecord DEF TypeInv
<1>1. ASSUME NEW s, NEW n, NEW p, LoginBegin(r, s, n, p) \/ SetupBegin(r, s, n, p)
      PROVE  Fresh(op'[r])
  <2>1. \/ Begin(r, "login", s, n, "admin", p, "read")
        \/ Begin(r, "setup", s, n, "admin", p, "hash")
    BY <1>1 DEF LoginBegin, SetupBegin
  <2>2. /\ op'[r].kind \in {"login", "setup"} /\ op'[r].pc \in {"read", "hash"}
        /\ op'[r].overtaken = FALSE
    BY <2>1
  <2> QED BY <2>2 DEF Fresh, OnCourse
<1>2. ASSUME NEW s \in Session, NEW n, NEW role, NEW p, CreateBegin(r, s, n, role, p)
      PROVE  Fresh(op'[r])
  <2>1. Begin(r, "create", None, n, role, p, "check") /\ Gate(s)
    BY <1>2 DEF CreateBegin
  <2>2. op'[r].kind = "create" /\ op'[r].pc = "check" /\ op'[r].overtaken = FALSE
    BY <2>1
  <2> QED BY <2>1, <2>2 DEF Fresh, OnCourse
<1>3. ASSUME NEW s, NEW n, NEW role,
             RoleBegin(r, s, n, role) \/ DisableBegin(r, s, n) \/ DeleteBegin(r, s, n)
      PROVE  Fresh(op'[r])
  <2>1. CASE Begin(r, "role", None, n, role, None, "read")
    <3>1. op'[r].kind = "role" /\ op'[r].pc = "read" /\ op'[r].overtaken = FALSE
      BY <2>1
    <3> QED BY <3>1 DEF Fresh, OnCourse
  <2>2. CASE \/ Begin(r, "disable", None, n, "admin", None, "read")
             \/ Begin(r, "delete", None, n, "admin", None, "read")
    <3>1. /\ op'[r].kind \in {"disable", "delete"} /\ op'[r].pc = "read"
          /\ op'[r].overtaken = FALSE
      BY <2>2
    <3> QED BY <3>1 DEF Fresh, OnCourse
  <2>3. CASE Begin(r, "enable", None, n, "admin", None, "update")
    <3>1. op'[r].kind = "enable" /\ op'[r].pc = "update" /\ op'[r].overtaken = FALSE
      BY <2>3
    <3> QED BY <3>1 DEF Fresh, OnCourse
  <2> QED BY <1>3, <2>1, <2>2, <2>3 DEF RoleBegin, DisableBegin, DeleteBegin
<1>4. ASSUME NEW s \in Session, NEW n, NEW p, ResetBegin(r, s, n, p) \/ ChangeBegin(r, s, p)
      PROVE  Fresh(op'[r])
  <2>1. CASE Begin(r, "reset", None, n, "admin", p, "update")
    <3>1. op'[r].kind = "reset" /\ op'[r].pc = "update" /\ op'[r].overtaken = FALSE
      BY <2>1
    <3> QED BY <3>1 DEF Fresh, OnCourse
  <2>2. CASE Begin(r, "change", s, authed[s].name, "admin", p, "update")
    <3>1. op'[r].kind = "change" /\ op'[r].pc = "update" /\ op'[r].overtaken = FALSE
      <4>1. PICK name : name = authed[s].name
        OBVIOUS
      <4> QED BY <2>2, <4>1
    <3> QED BY <3>1 DEF Fresh, OnCourse
  <2>3. CASE authed[s] = None /\ Begin(r, "change", s, AdminName, "admin", p, "legacy")
    <3>1. /\ op'[r].kind = "change" /\ op'[r].pc = "legacy" /\ op'[r].sid = s
          /\ op'[r].overtaken = FALSE
      BY <2>3
    <3> QED BY <2>3, <3>1 DEF Fresh, OnCourse
  <2> QED BY <1>4, <2>1, <2>2, <2>3 DEF ResetBegin, ChangeBegin
<1>5. Fresh(op'[r])
  BY <1>1, <1>2, <1>3, <1>4 DEF Starts
<1>6. UNCHANGED <<users, authed, legacy, stored, open, mirror, ranOpen>> /\ op[r].pc = "idle"
  BY DEF Starts, LoginBegin, SetupBegin, CreateBegin, RoleBegin, DisableBegin, DeleteBegin,
     ResetBegin, ChangeBegin, Begin, At
<1> QED BY <1>5, <1>6

\* Writing the users table changes nothing of the request but its step.
LEMMA ChangingStep ==
    ASSUME TypeOK, NEW r \in Req, NEW pc, GotoChanging(r, pc)
    PROVE  /\ op'[r].pc = pc /\ op'[r].kind = op[r].kind /\ op'[r].name = op[r].name
           /\ op'[r].role = op[r].role /\ op'[r].pw = op[r].pw /\ op'[r].sid = op[r].sid
           /\ op'[r].row = op[r].row
<1>1. op[r] \in Op /\ op'[r] = [op[r] EXCEPT !.pc = pc]
  BY DEF TypeOK, GotoChanging
<1> QED BY <1>1 DEF Op

\* A request in flight ends or stays the request it is, and which step it stands
\* at says by which statement or call it came there.
Came(r) ==
    \/ op'[r] = IdleOp
    \/ /\ Kept(r) \/ LoginRead(r) \/ SetupHash(r)
       /\ op'[r].kind = op[r].kind /\ op'[r].name = op[r].name /\ op'[r].role = op[r].role
       /\ op'[r].pw = op[r].pw /\ op'[r].sid = op[r].sid /\ op'[r].overtaken = op[r].overtaken
       /\ \/ op'[r].pc = "check" /\ (LoginRead(r) \/ SetupHash(r))
          \/ op'[r].pc = "insert" /\ CreateCheck(r)
          \/ op'[r].pc = "count" /\ AdminRead(r)
          \/ op'[r].pc = "update" /\ (AdminRead(r) \/ CountAdmins(r))
          \/ /\ op'[r].pc = "mirror"
             /\ CreateInsert(r) \/ UpdateUserRole(r) \/ SetUserDisabled(r) \/ DeleteUser(r)
          \/ op'[r].pc = "rotate" /\ (LoginRead(r) \/ CreateCheck(r) \/ Mirror(r))
          \/ op'[r].pc = "revoke" /\ (SetUserPasswordHash(r) \/ Mirror(r))
          \/ op'[r].pc = "legacy" /\ SetUserPasswordHash(r)
          \/ op'[r].pc = "revokeOthers" /\ ChangeLegacy(r)

\* No step of a handler does anything else to its own request.
LEMMA ProceedsCame ==
    ASSUME TypeInv, NEW r \in Req, Proceeds(r)
    PROVE  Came(r)
<1>1. TypeOK /\ op[r] \in Op
  BY DEF TypeInv, TypeOK
<1>2. Done(r) => op'[r] = IdleOp
  BY <1>1 DEF TypeOK, Done
<1>3. ASSUME NEW pc, Goto(r, pc) \/ GotoChanging(r, pc)
      PROVE  op'[r] = [op[r] EXCEPT !.pc = pc]
  BY <1>1, <1>3 DEF TypeOK, Goto, GotoChanging
<1>4. ASSUME NEW row, NEW pc, GotoWith(r, row, pc)
      PROVE  /\ op'[r].kind = op[r].kind /\ op'[r].name = op[r].name /\ op'[r].role = op[r].role
             /\ op'[r].pw = op[r].pw /\ op'[r].sid = op[r].sid
             /\ op'[r].overtaken = op[r].overtaken /\ op'[r].pc = pc
  BY <1>1, <1>4 DEF TypeOK, GotoWith, Op
<1>5. ASSUME NEW pc, op'[r] = [op[r] EXCEPT !.pc = pc]
      PROVE  /\ Kept(r) /\ op'[r].kind = op[r].kind /\ op'[r].name = op[r].name
             /\ op'[r].role = op[r].role /\ op'[r].pw = op[r].pw /\ op'[r].sid = op[r].sid
             /\ op'[r].overtaken = op[r].overtaken /\ op'[r].pc = pc
  BY <1>1, <1>5 DEF Kept, Op
<1>6. CASE LoginRead(r) \/ SetupHash(r)
  BY <1>2, <1>4, <1>6 DEF LoginRead, SetupHash, Came
<1>7. CASE CreateCheck(r) \/ AdminRead(r) \/ CountAdmins(r) \/ ChangeLegacy(r)
  BY <1>2, <1>3, <1>5, <1>7 DEF CreateCheck, AdminRead, CountAdmins, ChangeLegacy, Came
<1>8. CASE CreateInsert(r) \/ UpdateUserRole(r) \/ SetUserDisabled(r) \/ DeleteUser(r)
  BY <1>3, <1>5, <1>8 DEF CreateInsert, UpdateUserRole, SetUserDisabled, DeleteUser, Came
<1>9. CASE SetUserPasswordHash(r)
  BY <1>3, <1>5, <1>9 DEF SetUserPasswordHash, Came
<1>10. CASE Mirror(r)
  BY <1>2, <1>3, <1>5, <1>10 DEF Mirror, AfterMirror, Came
<1>11. CASE Rotate(r) \/ Revoke(r) \/ RevokeOthers(r) \/ StatementFails(r)
  BY <1>2, <1>11 DEF Rotate, Revoke, RevokeOthers, StatementFails, Came
<1> QED BY <1>6, <1>7, <1>8, <1>9, <1>10, <1>11 DEF Proceeds

\* Five statements write the users table (CreateInsert to SetUserPasswordHash).
LEMMA RowsStay ==
    ASSUME NEW r \in Req, Proceeds(r)
    PROVE  \/ users' = users /\ \A n : Rows(n)' = Rows(n)
           \/ CreateInsert(r) \/ DeleteUser(r)
           \/ UpdateUserRole(r) \/ SetUserDisabled(r) \/ SetUserPasswordHash(r)
<1>1. users' = users => \A n : Rows(n)' = Rows(n)
  BY DEF Rows
<1> QED
  BY <1>1 DEF Proceeds, LoginRead, SetupHash, CreateCheck, Rotate, AdminRead, CountAdmins, Mirror,
     Revoke, ChangeLegacy, RevokeOthers, StatementFails

\* With one request at a time no statement gives a name a second row.
LEMMA NoSecondRow ==
    ASSUME SerialInv, NEW r \in Req, Proceeds(r)
    PROVE  OneRow'
<1>1. TypeInv
  BY DEF SerialInv, SessionInv
<1>2. CASE CreateInsert(r)
  <2>1. PICK k \in Key : /\ users[k] = None /\ users'[k].name = op[r].name
                         /\ \A j \in Key : j # k => users'[j] = users[j]
    BY <1>1, <1>2, InsertedRow
  <2>2. \A j \in Key : users[j] # None => users[j].name # op[r].name
    BY <1>2 DEF CreateInsert, At, SerialInv, Undisturbed, Rows
  <2> QED BY <2>1, <2>2 DEF SerialInv, OneRow
<1>3. CASE ~CreateInsert(r)
  <2>1. \A k \in Key : users'[k] # None =>
           users[k] # None /\ users'[k].name = users[k].name
    BY <1>1, <1>3, RowsStay, UpdatedRows, DeletedRows DEF Rewritten, Rows
  <2> QED BY <2>1 DEF SerialInv, OneRow
<1> QED BY <1>2, <1>3

\* Nor does it find the account it looked up changed.
LEMMA StaysUndisturbed ==
    ASSUME SerialInv, NEW r \in Req, Proceeds(r)
    PROVE  Undisturbed(op[r])'
<1>1. TypeInv /\ Undisturbed(op[r])
  BY DEF SerialInv, SessionInv
<1>2. Came(r)
  BY <1>1, ProceedsCame
<1>3. CASE op'[r] = IdleOp
  BY <1>3 DEF IdleOp, Undisturbed
<1>4. CASE op'[r] # IdleOp
  <2>1. op'[r].kind = op[r].kind /\ op'[r].name = op[r].name /\ ~op'[r].overtaken
    BY <1>1, <1>2, <1>4 DEF Came, Undisturbed
  <2>2. CASE op'[r].pc = "insert"
    <3>1. CreateCheck(r)
      BY <1>2, <1>4, <2>2 DEF Came
    <3>2. op[r] \in Op
      BY <1>1 DEF TypeInv, TypeOK
    <3>3. ~Goto(r, "rotate") /\ ~Done(r)
      BY <1>1, <1>4, <2>2, GotoOp DEF Done, TypeInv, TypeOK, Step
    <3>4. Rows(op[r].name) = {} /\ users' = users
      BY <3>1, <3>3 DEF CreateCheck
    <3> QED BY <2>1, <2>2, <3>4 DEF Undisturbed, Rows
  <2>3. CASE op'[r].pc \in {"count", "update"}
    <3>1. AdminRead(r) \/ CountAdmins(r)
      BY <1>2, <1>4, <2>3 DEF Came
    <3>2. ~Done(r)
      BY <1>1, <1>4 DEF Done, TypeInv, TypeOK
    <3>3. users' = users
      BY <3>1 DEF AdminRead, CountAdmins
    <3>4. AdminRead(r) => Rows(op[r].name) # {}
      BY <3>2 DEF AdminRead
    <3>5. CountAdmins(r) => op[r].pc = "count"
      BY DEF CountAdmins, At
    <3> QED BY <1>1, <2>1, <2>3, <3>1, <3>3, <3>4, <3>5 DEF Undisturbed, Rows
  <2> QED BY <2>1, <2>2, <2>3 DEF Undisturbed
<1> QED BY <1>3, <1>4

\* It goes through the steps of its handler.
LEMMA StaysOnCourse ==
    ASSUME SerialInv, NEW r \in Req, Proceeds(r)
    PROVE  OnCourse(op'[r])
<1>1. TypeInv /\ OnCourse(op[r]) /\ StepFits(op[r])
  BY DEF SerialInv, SessionInv, TypeInv, StepsFit
<1>2. Came(r)
  BY <1>1, ProceedsCame
<1>3. CASE op'[r] = IdleOp
  BY <1>3 DEF IdleOp, OnCourse
<1>4. CASE op'[r] # IdleOp
  <2>1. op'[r].kind = op[r].kind
    BY <1>2, <1>4 DEF Came
  <2>2. CASE op[r].kind = "create"
    <3>1. op[r].pc \in {"check", "insert", "mirror"} /\ AfterMirror(op[r].kind) = "idle"
      BY <1>1, <2>2 DEF OnCourse, AfterMirror
    <3>2. ~Mirror(r)
      BY <1>1, <1>4, <3>1 DEF Mirror, Done, TypeInv, TypeOK
    <3>3. op'[r].pc # "rotate"
      <4>1. op'[r].pc = "rotate" => LoginRead(r) \/ CreateCheck(r)
        BY <1>2, <1>4, <3>2 DEF Came
      <4>2. ~LoginRead(r)
        BY <2>2 DEF LoginRead
      <4>3. CreateCheck(r) => Goto(r, "insert") \/ Done(r)
        BY <2>2 DEF CreateCheck
      <4>4. CreateCheck(r) => op'[r].pc = "insert"
        BY <1>1, <1>4, <4>3, GotoOp DEF Done, TypeInv, TypeOK, Step
      <4> QED BY <4>1, <4>2, <4>4
    <3>4. /\ ~AdminRead(r) /\ ~CountAdmins(r) /\ ~SetUserPasswordHash(r) /\ ~ChangeLegacy(r)
      BY <3>1 DEF AdminRead, CountAdmins, SetUserPasswordHash, ChangeLegacy, At
    <3> QED BY <1>2, <1>4, <2>1, <2>2, <3>2, <3>3, <3>4 DEF Came, OnCourse
  <2>3. CASE op[r].kind \in {"reset", "change"}
    <3>1. /\ op[r].pc \in {"update", "revoke", "legacy", "revokeOthers"}
          /\ op[r].kind = "reset" => op[r].pc \in {"update", "revoke"}
          /\ op[r].kind = "change" => op[r].pc # "revoke"
      BY <1>1, <2>3 DEF OnCourse
    <3>2. \/ SetUserPasswordHash(r)
          \/ ChangeLegacy(r) /\ op[r].kind = "change"
      BY <1>2, <1>4, <2>3, <3>1 DEF Came, LoginRead, SetupHash, CreateCheck, AdminRead, CountAdmins,
         CreateInsert, UpdateUserRole, SetUserDisabled, DeleteUser, Mirror, ChangeLegacy, At
    <3>3. SetUserPasswordHash(r) =>
             op'[r].pc = IF op[r].kind = "reset" THEN "revoke" ELSE "legacy"
      <4>1. SetUserPasswordHash(r) => \/ op[r].kind = "reset" /\ GotoChanging(r, "revoke")
                                      \/ op[r].kind # "reset" /\ GotoChanging(r, "legacy")
        BY DEF SetUserPasswordHash
      <4> QED BY <1>1, <4>1, ChangingStep DEF TypeInv
    <3>4. ChangeLegacy(r) => op'[r].pc = "revokeOthers"
      BY <1>1, GotoOp DEF ChangeLegacy, TypeInv, Step
    <3> QED BY <2>1, <2>3, <3>2, <3>3, <3>4 DEF OnCourse
  <2> QED BY <2>1, <2>2, <2>3 DEF OnCourse
<1> QED BY <1>3, <1>4

\* No step takes two rows of one name or a stale lookup out of one request.
LEMMA SerialStep ==
    ASSUME Serial, SerialInv, [Next]_vars
    PROVE  SerialInv'
<1>1. SessionInv'
  BY SessionStep DEF SerialInv
<1>2. TypeInv
  BY DEF SerialInv, SessionInv
<1>3. ASSUME NEW r \in Req, Starts(r)
      PROVE  SerialInv'
  <2>1. Fresh(op'[r]) /\ users' = users /\ \A q \in Req : q = r
    BY <1>2, <1>3, StartsFresh DEF Serial
  <2>2. Undisturbed(op[r])' /\ OnCourse(op'[r])
    BY <2>1 DEF Fresh, Undisturbed
  <2> QED BY <1>1, <2>1, <2>2 DEF SerialInv, OneRow
<1>4. ASSUME NEW r \in Req, Proceeds(r)
      PROVE  SerialInv'
  BY <1>1, <1>4, NoSecondRow, StaysUndisturbed, StaysOnCourse DEF SerialInv, Serial
<1>5. CASE (\E s \in Session : SignOut(s)) \/ SaveSettings \/ SetupMode \/ UNCHANGED vars
  <2>1. users' = users /\ op' = op
    BY <1>5 DEF SignOut, SaveSettings, SetupMode, vars
  <2> QED BY <1>1, <2>1 DEF SerialInv, OneRow, Undisturbed, Rows
<1>6. CASE Restart
  <2>1. OneRow'
    <3>1. CASE ~UsersExist /\ stored # None
      <4>1. PICK k \in Key : users' = [users EXCEPT ![k] = FirstAdmin(AdminName, stored)]
        BY <1>6, <3>1 DEF Restart
      <4> QED BY <3>1, <4>1 DEF UsersExist, OneRow
    <3>2. CASE ~(~UsersExist /\ stored # None)
      BY <1>6, <3>2 DEF Restart, SerialInv, OneRow
    <3> QED BY <3>1, <3>2
  <2>2. ASSUME NEW r \in Req
        PROVE  Undisturbed(op[r])'
    BY <1>6 DEF Restart, Quiet, At, SerialInv, Undisturbed
  <2>3. op' = op
    BY <1>6 DEF Restart
  <2> QED BY <1>1, <2>1, <2>2, <2>3 DEF SerialInv
<1> QED BY <1>3, <1>4, <1>5, <1>6 DEF Next

\* The first start has no row and no request.
LEMMA SerialInit == Init => SerialInv
<1>1. Init => SessionInv
  BY TypeInit DEF Init, SessionInv, CopiesCurrent, SessionsMatch, Signing, IdleOp
<1> QED BY <1>1 DEF Init, SerialInv, OneRow, Undisturbed, OnCourse, IdleOp

----------------------------------------------------------------------------
(* Administrators *)

\* What a session may do stays true of the account's rows, or the account's
\* sessions are about to be revoked.
LEMMA MatchesStay ==
    ASSUME SerialInv, NEW r \in Req, Proceeds(r), NEW n, NEW role, Matches(n, role)
    PROVE  Matches(n, role)' \/ Demoting(n)'
<1>1. TypeInv
  BY DEF SerialInv, SessionInv
<1>2. PICK k \in Rows(n) : ~users[k].disabled /\ users[k].role = role
  BY DEF Matches
<1>3. k \in Key /\ users[k] # None /\ users[k].name = n
  BY DEF Rows
<1>4. CASE users'[k] = users[k]
  BY <1>2, <1>3, <1>4 DEF Matches, Rows
<1>5. CASE users'[k] # users[k]
  <2>1. ~CreateInsert(r)
    BY <1>1, <1>3, <1>5, InsertedRow
  <2>2. n = op[r].name /\ (DeleteUser(r) \/ Rewritten(r, k))
    <3>1. CASE DeleteUser(r)
      <4>1. users'[k] = IF k \in Rows(op[r].name) THEN None ELSE users[k]
        BY <1>3, <3>1, DeletedRows
      <4> QED BY <1>3, <1>5, <3>1, <4>1 DEF Rows
    <3>2. CASE UpdateUserRole(r) \/ SetUserDisabled(r) \/ SetUserPasswordHash(r)
      <4>1. k \in Rows(op[r].name)
        BY <1>1, <1>3, <1>5, <3>2, UpdatedRows
      <4> QED BY <1>1, <1>3, <3>2, <4>1, UpdatedRows DEF Rows
    <3> QED BY <1>5, <2>1, <3>1, <3>2, RowsStay
  <2>3. CASE UpdateUserRole(r) \/ DeleteUser(r) \/ (SetUserDisabled(r) /\ op[r].kind = "disable")
    <3>1. GotoChanging(r, "mirror") /\ op[r].kind \in {"role", "disable", "delete"}
      BY <2>3 DEF UpdateUserRole, DeleteUser, SetUserDisabled
    <3>2. /\ op'[r].pc = "mirror" /\ op'[r].kind \in {"role", "disable", "delete"}
          /\ op'[r].name = n
      BY <1>1, <2>2, <3>1, ChangingStep DEF TypeInv
    <3> QED BY <3>2 DEF Demoting
  <2>4. CASE ~UpdateUserRole(r) /\ ~DeleteUser(r) /\ ~(SetUserDisabled(r) /\ op[r].kind = "disable")
    <3>1. SetUserPasswordHash(r) \/ (SetUserDisabled(r) /\ op[r].kind = "enable")
      BY <1>5, <2>1, <2>4, RowsStay DEF SetUserDisabled
    <3>2. op[r].kind \in {"reset", "change", "enable"}
      BY <3>1 DEF SetUserPasswordHash
    <3>3. /\ users'[k] # None /\ users'[k].name = n /\ users'[k].role = role
          /\ ~users'[k].disabled
      BY <1>2, <2>2, <2>4, <3>2 DEF Rewritten
    <3> QED BY <1>3, <3>3 DEF Matches, Rows
  <2> QED BY <2>3, <2>4
<1> QED BY <1>4, <1>5

\* The request that may have taken a right away goes on until it has revoked the
\* sessions (mirrorNativeRBAC... and then revokeSessionsForUsername).
LEMMA DemotingStays ==
    ASSUME Serial, SerialInv, NEW r \in Req, Proceeds(r), NEW n, Demoting(n)
    PROVE  Demoting(n)' \/ (Revoke(r) /\ op[r].name = n)
<1>1. TypeInv
  BY DEF SerialInv, SessionInv
<1>2. /\ op[r].name = n /\ op[r].kind \in {"role", "disable", "delete"}
      /\ op[r].pc \in {"mirror", "revoke"}
  BY DEF Demoting, Serial
<1>3. CASE Mirror(r)
  <2>1. Goto(r, "revoke")
    BY <1>2, <1>3 DEF Mirror, AfterMirror
  <2>2. /\ op'[r].name = n /\ op'[r].kind \in {"role", "disable", "delete"}
        /\ op'[r].pc = "revoke"
    BY <1>1, <1>2, <2>1, GotoOp DEF TypeInv, Kept, Step
  <2> QED BY <2>2 DEF Demoting
<1>4. CASE ~Mirror(r)
  <2>1. Revoke(r)
    BY <1>2, <1>4 DEF Proceeds, At, LoginRead, SetupHash, CreateCheck, CreateInsert, Rotate,
       AdminRead, CountAdmins, UpdateUserRole, SetUserDisabled, DeleteUser,
       SetUserPasswordHash, ChangeLegacy, RevokeOthers, StatementFails
  <2> QED BY <1>2, <2>1
<1> QED BY <1>3, <1>4

\* A session is signed in by Rotate only, and stays who it is.
SignedInBefore(s) == /\ authed[s] # None
                     /\ authed'[s].name = authed[s].name /\ authed'[s].role = authed[s].role

LEMMA SessionsStay ==
    ASSUME TypeInv, NEW r \in Req, Proceeds(r), NEW s \in Session, authed'[s] # None
    PROVE  \/ SignedInBefore(s)
           \/ /\ Rotate(r)
              /\ authed'[s].name = op[r].row.name /\ authed'[s].role = op[r].row.role
<1>1. authed[s] \in Auth \cup {None} /\ op[r].name \in Name
  BY DEF TypeInv, TypeOK, Op
<1>2. CurrentName(s) = op[r].name => authed[s] # None /\ authed[s] \in Auth
  BY <1>1, AccountsAssumption DEF CurrentName
<1>3. CASE Rotate(r)
  BY <1>3 DEF Rotate, SignedInBefore
<1>4. CASE SetUserPasswordHash(r)
  BY <1>2, <1>4, AccountsAssumption DEF SetUserPasswordHash, SignedInBefore, Auth
<1>5. CASE StatementFails(r)
  BY <1>1, <1>2, <1>5, AccountsAssumption DEF StatementFails, SignedInBefore, Auth
<1>6. CASE Revoke(r) \/ RevokeOthers(r)
  BY <1>6 DEF Revoke, RevokeOthers, SignedInBefore
<1>7. CASE authed' = authed
  BY <1>7 DEF SignedInBefore
<1> QED
  BY <1>3, <1>4, <1>5, <1>6, <1>7 DEF Proceeds, LoginRead, SetupHash, CreateCheck, CreateInsert,
     AdminRead, CountAdmins, UpdateUserRole, SetUserDisabled, DeleteUser, Mirror, ChangeLegacy

\* No handler leaves a session with another role than its account's.
LEMMA ProceedMatches ==
    ASSUME Serial, SerialInv, RolesMatch, NEW r \in Req, Proceeds(r)
    PROVE  RolesMatch'
<1>1. TypeInv
  BY DEF SerialInv, SessionInv
<1> SUFFICES ASSUME NEW s \in Session, authed'[s] # None, NEW n, NEW role,
                    authed'[s].name = n, authed'[s].role = role, ~Demoting(n)'
             PROVE  Matches(n, role)'
  BY DEF RolesMatch
<1>2. CASE SignedInBefore(s)
  <2>1. authed[s] # None /\ authed[s].name = n /\ authed[s].role = role
    BY <1>2 DEF SignedInBefore
  <2>2. Revoke(r) => authed'[s] = authed[s] /\ n # op[r].name
    BY <2>1 DEF Revoke, CurrentName
  <2>3. ~Demoting(n)
    BY <2>2, DemotingStays
  <2> QED BY <2>1, <2>3, MatchesStay DEF RolesMatch
<1>3. CASE Rotate(r) /\ op[r].row.name = n /\ op[r].row.role = role
  <2>1. Signing(r) /\ op[r].pc = "rotate" /\ ~op[r].overtaken
    BY <1>1, <1>3 DEF Rotate, At, Signing, TypeInv, StepsFit, StepFits, SerialInv, Undisturbed
  <2>2. Current(op[r])
    BY <2>1 DEF SerialInv, SessionInv, CopiesCurrent
  <2>3. Matches(n, role)
    BY <1>3, <2>1, <2>2 DEF Current
  <2> QED BY <2>3, MatchesStay
<1> QED BY <1>1, <1>2, <1>3, SessionsStay

\* The rows of one name are one row at most, so two administrators are not both
\* of the name about to lose its right (assertNotLastEnabledAdmin).
LEMMA OneIsLeft ==
    ASSUME SerialInv, NEW n, Cardinality(EnabledAdmins) > 1
    PROVE  EnabledAdmins \ Rows(n) # {}
<1> SUFFICES ASSUME EnabledAdmins \subseteq Rows(n)
             PROVE  FALSE
  OBVIOUS
<1>1. \A i, j \in EnabledAdmins : i = j
  BY DEF SerialInv, OneRow, Rows
<1>2. EnabledAdmins = {} \/ \E k \in EnabledAdmins : EnabledAdmins = {k}
  BY <1>1
<1>3. Cardinality(EnabledAdmins) \in {0, 1}
  BY <1>2, FS_EmptySet, FS_Singleton
<1> QED BY <1>3

\* No statement of a request takes the last enabled administrator away.
LEMMA AdminStays ==
    ASSUME AdminInv, ~ranOpen, NEW r \in Req, Proceeds(r), UsersExist'
    PROVE  EnabledAdmins' # {}
<1>1. TypeInv /\ StepFits(op[r]) /\ OnCourse(op[r]) /\ Guarded(op[r])
  BY DEF AdminInv, SerialInv, SessionInv, TypeInv, StepsFit, AdminsKept
<1>2. ASSUME NEW k \in EnabledAdmins, users'[k] = users[k]
      PROVE  EnabledAdmins' # {}
  BY <1>2 DEF EnabledAdmins
<1>3. CASE CreateInsert(r)
  <2>1. op[r].pc = "insert" /\ op[r].kind \in {"login", "setup", "create"}
    <3>1. op[r].pc = "insert" /\ op[r].kind \in Kind
      BY <1>1, <1>3 DEF CreateInsert, At, TypeInv, TypeOK, Op
    <3> QED BY <1>1, <3>1 DEF StepFits, OnCourse, Administering, Kind
  <2>2. PICK k \in Key : /\ users[k] = None
                         /\ users'[k] # None /\ users'[k].role = op[r].role /\ ~users'[k].disabled
                         /\ \A j \in Key : j # k => users'[j] = users[j]
    BY <1>1, <1>3, InsertedRow
  <2>3. CASE op[r].kind = "create"
    <3>1. PICK j \in EnabledAdmins : TRUE
      BY <1>1, <2>1, <2>3 DEF Guarded
    <3>2. users'[j] = users[j]
      BY <2>2, <3>1 DEF EnabledAdmins
    <3> QED BY <1>2, <3>1, <3>2
  <2>4. CASE op[r].kind # "create"
    <3>1. op[r].role = "admin"
      BY <1>1, <2>1, <2>4 DEF StepFits
    <3> QED BY <2>2, <3>1 DEF EnabledAdmins, IsEnabledAdmin
  <2> QED BY <2>3, <2>4
<1>4. CASE op[r].pc = "update" /\ op[r].kind \in {"role", "disable", "delete"} /\ ~CreateInsert(r)
  <2>1. PICK k \in EnabledAdmins : k \notin Rows(op[r].name)
    BY <1>1, <1>4 DEF Guarded
  <2>2. users'[k] = users[k]
    BY <1>1, <1>4, <2>1, RowsStay, UpdatedRows, DeletedRows DEF EnabledAdmins
  <2> QED BY <1>2, <2>1, <2>2
<1>5. CASE ~CreateInsert(r) /\ ~(op[r].pc = "update" /\ op[r].kind \in {"role", "disable", "delete"})
  <2>1. \/ users' = users
        \/ /\ SetUserDisabled(r) \/ SetUserPasswordHash(r)
           /\ op[r].kind \in {"enable", "reset", "change"}
    BY <1>5, RowsStay DEF DeleteUser, UpdateUserRole, SetUserDisabled, SetUserPasswordHash, At
  <2>2. \A k \in Key : users'[k] = users[k] \/ (k \in Rows(op[r].name) /\ Rewritten(r, k))
    BY <1>1, <2>1, UpdatedRows
  <2>3. UsersExist
    BY <2>2 DEF UsersExist, Rows
  <2>4. PICK k \in EnabledAdmins : TRUE
    BY <2>3 DEF AdminInv, AdminsKept
  <2>5. CASE users'[k] = users[k]
    BY <1>2, <2>5
  <2>6. CASE users'[k] # users[k]
    <3>1. Rewritten(r, k) /\ op[r].kind \in {"enable", "reset", "change"}
      BY <2>1, <2>2, <2>4, <2>6 DEF EnabledAdmins
    <3> QED BY <2>4, <3>1 DEF Rewritten, EnabledAdmins, IsEnabledAdmin
  <2> QED BY <2>5, <2>6
<1> QED BY <1>3, <1>4, <1>5

\* A request that goes on to change an account leaves an administrator over.
LEMMA StaysGuarded ==
    ASSUME AdminInv, ~ranOpen, NEW r \in Req, Proceeds(r)
    PROVE  Guarded(op[r])'
<1>1. TypeInv /\ OnCourse(op[r]) /\ Guarded(op[r]) /\ Came(r) /\ SerialInv
  BY ProceedsCame DEF AdminInv, SerialInv, SessionInv, AdminsKept
<1>2. CASE op'[r] = IdleOp
  BY <1>2 DEF IdleOp, Guarded
<1>3. CASE op'[r] # IdleOp
  <2>0. ~Done(r) /\ op'[r].kind = op[r].kind /\ op'[r].name = op[r].name
    BY <1>1, <1>3 DEF Came, Done, TypeInv, TypeOK
  <2>1. CASE op'[r].pc \in {"check", "insert"} /\ op[r].kind = "create"
    <3>1. ~LoginRead(r) /\ ~SetupHash(r)
      BY <1>1, <2>1 DEF LoginRead, SetupHash, At, OnCourse
    <3>2. CreateCheck(r)
      BY <1>1, <1>3, <2>1, <3>1 DEF Came
    <3>3. EnabledAdmins # {} /\ users' = users
      BY <1>1, <2>1, <3>2 DEF CreateCheck, At, Guarded
    <3> QED BY <2>0, <2>1, <3>3 DEF Guarded, EnabledAdmins
  <2>2. CASE op'[r].pc = "update" /\ op[r].kind \in {"role", "disable", "delete"}
    <3>1. AdminRead(r) \/ CountAdmins(r)
      BY <1>1, <1>3, <2>2 DEF Came
    <3>2. users' = users
      BY <3>1 DEF AdminRead, CountAdmins
    <3>3. EnabledAdmins \ Rows(op[r].name) # {}
      <4>1. CASE CountAdmins(r)
        BY <1>1, <2>0, <4>1, OneIsLeft DEF CountAdmins
      <4>2. CASE AdminRead(r)
        <5>1. PICK k \in Rows(op[r].name) :
                 Goto(r, IF IsEnabledAdmin(users[k]) THEN "count" ELSE "update")
          BY <2>0, <4>2 DEF AdminRead
        <5>2. ~IsEnabledAdmin(users[k])
          <6>1. SUFFICES ASSUME Goto(r, "count") PROVE FALSE
            BY <5>1
          <6> QED BY <1>1, <2>2, <6>1, GotoOp DEF TypeInv, Step
        <5>3. Rows(op[r].name) = {k} /\ k \notin EnabledAdmins /\ UsersExist
          BY <1>1, <5>1, <5>2 DEF SerialInv, OneRow, Rows, EnabledAdmins, UsersExist
        <5> QED BY <5>3 DEF AdminInv, AdminsKept
      <4> QED BY <3>1, <4>1, <4>2
    <3> QED BY <2>0, <2>2, <3>2, <3>3 DEF Guarded, EnabledAdmins, Rows
  <2> QED BY <2>0, <2>1, <2>2 DEF Guarded
<1> QED BY <1>2, <1>3

\* Whoever may administer has an account that is an administrator's (requireAdmin).
LEMMA GateGuards ==
    ASSUME Serial, AdminInv, ~ranOpen, NEW r \in Req, op[r].pc = "idle",
           NEW s \in Session, Gate(s)
    PROVE  EnabledAdmins # {}
<1>1. authed[s] # None /\ authed[s].role = "admin"
  BY DEF Gate, AdminInv, AdminsKept
<1>2. ~Demoting(authed[s].name)
  BY DEF Serial, Demoting
<1>3. Matches(authed[s].name, "admin")
  BY <1>1, <1>2 DEF AdminInv, RolesMatch
<1> QED BY <1>3 DEF Matches, Rows, EnabledAdmins, IsEnabledAdmin

\* With one request at a time an installation that has always required a login
\* keeps an administrator, and its sessions the roles of their accounts.
LEMMA AdminStep ==
    ASSUME Serial, AdminInv, [Next]_vars
    PROVE  AdminInv'
<1>1. SerialInv' /\ TypeInv
  BY SerialStep DEF AdminInv, SerialInv, SessionInv
<1>2. ASSUME NEW r \in Req, Starts(r)
      PROVE  AdminInv'
  <2>1. /\ Fresh(op'[r]) /\ op[r].pc = "idle" /\ \A q \in Req : q = r
        /\ UNCHANGED <<users, authed, open, ranOpen>>
    BY <1>1, <1>2, StartsFresh DEF Serial
  <2>2. ~ranOpen => Guarded(op[r])'
    <3>1. ASSUME ~ranOpen, op'[r].kind = "create"
          PROVE  EnabledAdmins # {}
      BY <2>1, <3>1, GateGuards DEF Fresh
    <3> QED BY <2>1, <3>1 DEF Fresh, Guarded, EnabledAdmins
  <2>3. \A n : ~Demoting(n)
    BY <2>1 DEF Demoting
  <2>4. RolesMatch'
    BY <2>1, <2>3 DEF AdminInv, RolesMatch, Matches, Rows
  <2> QED BY <1>1, <2>1, <2>2, <2>4 DEF AdminInv, AdminsKept, UsersExist, EnabledAdmins
<1>3. ASSUME NEW r \in Req, Proceeds(r)
      PROVE  AdminInv'
  <2>1. UNCHANGED <<open, ranOpen>>
    BY <1>3 DEF Proceeds, LoginRead, SetupHash, CreateCheck, CreateInsert, Rotate, AdminRead,
       CountAdmins, UpdateUserRole, SetUserDisabled, DeleteUser, SetUserPasswordHash, Mirror,
       Revoke, ChangeLegacy, RevokeOthers, StatementFails
  <2>2. RolesMatch'
    BY <1>3, ProceedMatches DEF AdminInv
  <2>3. ~ranOpen => Guarded(op[r])' /\ (UsersExist' => EnabledAdmins' # {})
    BY <1>3, StaysGuarded, AdminStays
  <2> QED BY <1>1, <1>3, <2>1, <2>2, <2>3 DEF AdminInv, AdminsKept, Serial
<1>4. CASE (\E s \in Session : SignOut(s)) \/ SaveSettings \/ SetupMode \/ UNCHANGED vars
  <2>1. /\ users' = users /\ op' = op
        /\ \A s \in Session : authed'[s] = authed[s] \/ authed'[s] = None
        /\ (open' = open /\ ranOpen' = ranOpen) \/ ranOpen' = TRUE
    BY <1>1, <1>4 DEF SignOut, SaveSettings, SetupMode, vars, TypeInv, TypeOK
  <2>2. RolesMatch'
    BY <2>1 DEF AdminInv, RolesMatch, Demoting, Matches, Rows
  <2>3. AdminsKept'
    BY <2>1 DEF AdminInv, AdminsKept, UsersExist, EnabledAdmins, Guarded, Rows
  <2> QED BY <1>1, <2>2, <2>3 DEF AdminInv
<1>5. CASE Restart
  <2>1. /\ op' = op /\ \A r \in Req : op[r].pc = "idle"
        /\ \A s \in Session : authed'[s] = None
        /\ ranOpen' = (ranOpen \/ open')
    BY <1>5 DEF Restart, Quiet, At
  <2>2. RolesMatch'
    BY <2>1 DEF RolesMatch
  <2>3. ASSUME ~ranOpen, UsersExist'
        PROVE  EnabledAdmins' # {}
    <3>1. CASE ~UsersExist /\ stored # None
      <4>1. PICK k \in Key : users' = [users EXCEPT ![k] = FirstAdmin(AdminName, stored)]
        BY <1>5, <3>1 DEF Restart
      <4>2. FirstAdmin(AdminName, stored) \in Row
        BY <1>1, <3>1, AccountsAssumption DEF TypeInv, TypeOK, FirstAdmin, Row
      <4>3. users'[k] = FirstAdmin(AdminName, stored) /\ users'[k] # None
        BY <1>1, <4>1, <4>2, NoneAssumption DEF TypeInv, TypeOK
      <4> QED BY <4>3 DEF EnabledAdmins, IsEnabledAdmin, FirstAdmin
    <3>2. CASE ~(~UsersExist /\ stored # None)
      <4>1. users' = users
        BY <1>5, <3>2 DEF Restart
      <4> QED BY <2>3, <4>1 DEF AdminInv, AdminsKept, UsersExist, EnabledAdmins
    <3> QED BY <3>1, <3>2
  <2>4. AdminsKept'
    BY <1>1, <2>1, <2>3 DEF AdminsKept, Guarded, AdminInv, TypeInv, TypeOK
  <2> QED BY <1>1, <2>2, <2>4 DEF AdminInv
<1> QED BY <1>2, <1>3, <1>4, <1>5 DEF Next

\* At the first start there is no session and no account.
LEMMA AdminInit == Init => AdminInv
BY SerialInit DEF Init, AdminInv, RolesMatch, AdminsKept, UsersExist, Guarded, IdleOp

\* NobodyLockedOut: as long as no two requests overlap, assertNotLastEnabledAdmin
\* keeps an enabled administrator, whatever statements fail and whenever the
\* process restarts; two requests at once can remove both (last_admin_race).
THEOREM AdminsRemain ==
    ASSUME Serial PROVE Spec => []NobodyLockedOut
<1>1. AdminInv => NobodyLockedOut
  BY DEF AdminInv, AdminsKept, NobodyLockedOut, Configured
<1>2. AdminInv /\ [Next]_vars => AdminInv'
  BY AdminStep
<1> QED
  BY <1>1, <1>2, AdminInit, PTL DEF Spec

\* RoleTakesEffect: once no request is under way every session has the role its
\* account has now, if requests came one at a time (admin_users.go:93).
THEOREM RolesInEffect ==
    ASSUME Serial PROVE Spec => []RoleTakesEffect
<1>1. AdminInv => RoleTakesEffect
  <2>1. Quiet => \A n : ~Demoting(n)
    BY DEF Quiet, At, Demoting
  <2> QED BY <2>1 DEF AdminInv, RolesMatch, RoleTakesEffect, Matches
<1>2. AdminInv /\ [Next]_vars => AdminInv'
  BY AdminStep
<1> QED
  BY <1>1, <1>2, AdminInit, PTL DEF Spec

----------------------------------------------------------------------------
(* Passwords, for any number of requests *)

\* The password p opens an account of this name.
Opens(n, p) == \E k \in Rows(n) : users[k].pw = p

\* Request q is about to end session s, as its account has a new password or is gone.
Ending(q, s) ==
    /\ op[q].name = authed[s].name
    /\ \/ op[q].kind = "delete" /\ op[q].pc \in {"mirror", "revoke"}
       \/ op[q].kind = "reset" /\ op[q].pc = "revoke"
       \/ op[q].kind = "change" /\ op[q].pc \in {"legacy", "revokeOthers"} /\ op[q].sid # s

\* OldPasswordOut with the narrower excuse: a change that spares the session is none.
PasswordsMatch ==
    \A s \in Session :
        authed[s] # None /\ ~authed[s].overtaken =>
            Opens(authed[s].name, authed[s].pw) \/ \E q \in Req : Ending(q, s)

\* A login carries the password of the account it is about to sign in.
Knows(o) ==
    o.kind \in {"login", "setup"} =>
        /\ o.pc \in {"check", "insert", "mirror", "rotate"} => o.row.pw = o.pw
        /\ ~o.overtaken /\ o.pc \in {"mirror", "rotate"} => Opens(o.name, o.pw)

PasswordInv == SessionInv /\ PasswordsMatch /\ \A r \in Req : Knows(op[r])

\* A password that opens an account goes on opening it until the account is deleted
\* or gets another one.
LEMMA OpensStay ==
    ASSUME TypeInv, NEW r \in Req, Proceeds(r), NEW n, NEW p, Opens(n, p)
    PROVE  Opens(n, p)' \/ (op[r].name = n /\ (DeleteUser(r) \/ SetUserPasswordHash(r)))
<1>1. PICK k \in Rows(n) : users[k].pw = p
  BY DEF Opens
<1>2. k \in Key /\ users[k] # None /\ users[k].name = n
  BY <1>1 DEF Rows
<1>3. CASE CreateInsert(r)
  BY <1>1, <1>2, <1>3, InsertedRow DEF Opens, Rows
<1>4. CASE DeleteUser(r) /\ op[r].name # n
  <2>1. users'[k] = users[k] /\ k \in Rows(n)'
    BY <1>2, <1>4, DeletedRows DEF Rows
  <2> QED BY <1>1, <2>1 DEF Opens
<1>5. CASE UpdateUserRole(r) \/ SetUserDisabled(r) \/ (SetUserPasswordHash(r) /\ op[r].name # n)
  <2>1. users'[k] = users[k] \/ (Rewritten(r, k) /\ n = op[r].name)
    BY <1>2, <1>5, UpdatedRows DEF Rows
  <2>2. n = op[r].name => op[r].kind \in {"role", "disable", "enable"}
    BY <1>5 DEF UpdateUserRole, SetUserDisabled
  <2>3. users'[k] # None /\ users'[k].name = n /\ users'[k].pw = p
    BY <1>1, <1>2, <2>1, <2>2 DEF Rewritten
  <2> QED BY <1>2, <2>3 DEF Opens, Rows
<1>6. CASE users' = users
  BY <1>1, <1>6 DEF Opens, Rows
<1> QED BY <1>3, <1>4, <1>5, <1>6, RowsStay

\* A step of a request leaves the others where they are, and at most overtakes them.
LEMMA OthersStay ==
    ASSUME TypeInv, NEW r \in Req, Proceeds(r), NEW q \in Req, q # r
    PROVE  /\ op'[q].kind = op[q].kind /\ op'[q].name = op[q].name /\ op'[q].pc = op[q].pc
           /\ op'[q].sid = op[q].sid /\ op'[q].pw = op[q].pw /\ op'[q].row = op[q].row
           /\ ~op'[q].overtaken => ~op[q].overtaken
           /\ (DeleteUser(r) \/ SetUserPasswordHash(r)) /\ Signing(q) /\ op[q].name = op[r].name
              => op'[q].overtaken
<1>1. TypeOK /\ op[q] \in Op
  BY DEF TypeInv, TypeOK
<1>2. ASSUME NEW pc, GotoChanging(r, pc)
      PROVE  op'[q] = IF Signing(q) /\ op[q].name = op[r].name
                      THEN [op[q] EXCEPT !.overtaken = TRUE] ELSE op[q]
  BY <1>2 DEF GotoChanging
<1>3. ASSUME NEW pc, NEW row, Goto(r, pc) \/ GotoWith(r, row, pc) \/ Done(r)
      PROVE  op'[q] = op[q]
  BY <1>1, <1>3 DEF Goto, GotoWith, Done, TypeOK
<1>4. CASE \E pc : GotoChanging(r, pc)
  <2>1. op'[q] = IF Signing(q) /\ op[q].name = op[r].name
                 THEN [op[q] EXCEPT !.overtaken = TRUE] ELSE op[q]
    BY <1>2, <1>4
  <2> QED BY <1>1, <2>1 DEF Op
<1>5. CASE ~\E pc : GotoChanging(r, pc)
  <2>1. ~DeleteUser(r) /\ ~SetUserPasswordHash(r)
    BY <1>5 DEF DeleteUser, SetUserPasswordHash
  <2>2. \E pc, row : Goto(r, pc) \/ GotoWith(r, row, pc) \/ Done(r)
    <3>1. ~CreateInsert(r) /\ ~UpdateUserRole(r) /\ ~SetUserDisabled(r)
      BY <1>5 DEF CreateInsert, UpdateUserRole, SetUserDisabled
    <3> QED
      BY <2>1, <3>1 DEF Proceeds, LoginRead, SetupHash, CreateCheck, Rotate, AdminRead,
         CountAdmins, Mirror, Revoke, ChangeLegacy, RevokeOthers, StatementFails
  <2>3. op'[q] = op[q]
    BY <1>3, <2>2
  <2> QED BY <2>1, <2>3
<1> QED BY <1>4, <1>5

\* What becomes of the password a session was opened with, and of its history.
LEMMA PasswordsStay ==
    ASSUME TypeInv, NEW r \in Req, Proceeds(r), NEW s \in Session, authed'[s] # None
    PROVE  \/ /\ SignedInBefore(s) /\ authed'[s].pw = authed[s].pw
              /\ ~authed'[s].overtaken => ~authed[s].overtaken
           \/ /\ SignedInBefore(s) /\ SetUserPasswordHash(r) /\ op[r].kind = "change"
              /\ s = op[r].sid /\ authed[s].name = op[r].name /\ authed'[s].pw = op[r].pw
              /\ ~authed'[s].overtaken => ~authed[s].overtaken
           \/ /\ Rotate(r)
              /\ authed'[s].name = op[r].row.name /\ authed'[s].pw = op[r].row.pw
              /\ authed'[s].overtaken = op[r].overtaken
<1>1. authed[s] \in Auth \cup {None} /\ op[r].name \in Name
  BY DEF TypeInv, TypeOK, Op
<1>2. CurrentName(s) = op[r].name =>
         authed[s] # None /\ authed[s] \in Auth /\ authed[s].name = op[r].name
  BY <1>1, AccountsAssumption DEF CurrentName
<1>3. CASE Rotate(r)
  BY <1>3 DEF Rotate, SignedInBefore
<1>4. CASE SetUserPasswordHash(r)
  <2>1. CASE op[r].kind = "change" /\ s = op[r].sid /\ CurrentName(s) = op[r].name
    <3>1. authed'[s] = [authed[s] EXCEPT !.pw = op[r].pw]
      BY <1>4, <2>1 DEF SetUserPasswordHash
    <3> QED BY <1>2, <1>4, <2>1, <3>1 DEF SignedInBefore, Auth
  <2>2. CASE ~(op[r].kind = "change" /\ s = op[r].sid /\ CurrentName(s) = op[r].name)
    BY <1>4, <2>2 DEF SetUserPasswordHash, SignedInBefore
  <2> QED BY <2>1, <2>2
<1>5. CASE StatementFails(r)
  <2>1. authed'[s] = authed[s] \/ (/\ CurrentName(s) = op[r].name
                                    /\ authed'[s] = [authed[s] EXCEPT !.overtaken = TRUE])
    BY <1>5 DEF StatementFails
  <2> QED BY <1>2, <2>1 DEF SignedInBefore, Auth
<1>6. CASE Revoke(r) \/ RevokeOthers(r)
  BY <1>6 DEF Revoke, RevokeOthers, SignedInBefore
<1>7. CASE authed' = authed
  BY <1>7 DEF SignedInBefore
<1> QED
  BY <1>3, <1>4, <1>5, <1>6, <1>7 DEF Proceeds, LoginRead, SetupHash, CreateCheck, CreateInsert,
     AdminRead, CountAdmins, UpdateUserRole, SetUserDisabled, DeleteUser, Mirror, ChangeLegacy

\* Who is about to end a session ends it in the end, or says that it failed.
LEMMA EndingStays ==
    ASSUME TypeInv, NEW r \in Req, Proceeds(r), NEW s \in Session, NEW q \in Req, Ending(q, s),
           authed[s] # None, authed'[s] # None, authed'[s].name = authed[s].name,
           ~authed'[s].overtaken
    PROVE  Ending(q, s)'
<1>1. TypeOK /\ authed[s] \in Auth /\ CurrentName(s) = authed[s].name
  BY DEF TypeInv, TypeOK, CurrentName
<1>2. CASE q # r
  BY <1>2, OthersStay DEF Ending
<1>3. CASE q = r /\ Mirror(r)
  <2>1. op[r].kind = "delete" /\ Goto(r, "revoke")
    BY <1>3 DEF Mirror, At, AfterMirror, Ending
  <2>2. op'[r].name = op[r].name /\ op'[r].kind = "delete" /\ op'[r].pc = "revoke"
    BY <1>1, <2>1, GotoOp DEF Kept, Step
  <2> QED BY <1>3, <2>2 DEF Ending
<1>4. CASE q = r /\ ChangeLegacy(r)
  <2>1. op[r].kind = "change" /\ op[r].sid # s /\ Goto(r, "revokeOthers")
    BY <1>4 DEF ChangeLegacy, At, Ending
  <2>2. op[r] \in Op /\ op'[r] = [op[r] EXCEPT !.pc = "revokeOthers"]
    BY <1>1, <2>1 DEF Goto, TypeOK
  <2> QED BY <1>4, <2>1, <2>2 DEF Ending, Op
<1>5. CASE q = r /\ ~Mirror(r) /\ ~ChangeLegacy(r)
  <2>1. Revoke(r) \/ RevokeOthers(r) \/ StatementFails(r)
    BY <1>5 DEF Ending, Proceeds, At, LoginRead, SetupHash, CreateCheck, CreateInsert, Rotate,
       AdminRead, CountAdmins, UpdateUserRole, SetUserDisabled, DeleteUser, SetUserPasswordHash
  <2>2. ~Revoke(r)
    BY <1>1, <1>5 DEF Revoke, Ending
  <2>3. ~RevokeOthers(r)
    BY <1>1, <1>5 DEF RevokeOthers, At, Ending
  <2>4. SUFFICES ASSUME StatementFails(r) PROVE FALSE
    BY <2>1, <2>2, <2>3
  <2>5. op[r].pc = "legacy"
    BY <1>5, <2>4 DEF StatementFails, Ending
  <2>6. authed'[s] = [authed[s] EXCEPT !.overtaken = TRUE]
    BY <1>1, <1>5, <2>4, <2>5 DEF StatementFails, Ending
  <2> QED BY <1>1, <2>6 DEF Auth
<1> QED BY <1>2, <1>3, <1>4, <1>5

\* No handler leaves a session opened with a password the account no longer has.
LEMMA ProceedPasswords ==
    ASSUME PasswordInv, NEW r \in Req, Proceeds(r)
    PROVE  PasswordsMatch'
<1>1. TypeInv /\ TypeOK /\ Knows(op[r])
  BY DEF PasswordInv, SessionInv, TypeInv
<1> SUFFICES ASSUME NEW s \in Session, authed'[s] # None, NEW n, NEW p,
                    authed'[s].name = n, authed'[s].pw = p,
                    ~authed'[s].overtaken, ~Opens(n, p)'
             PROVE  \E q \in Req : Ending(q, s)'
  BY DEF PasswordsMatch
<1>2. CASE SignedInBefore(s) /\ authed'[s].pw = authed[s].pw /\ ~authed[s].overtaken
  <2>1. authed[s] # None /\ authed[s].name = n /\ authed[s].pw = p /\ CurrentName(s) = n
    BY <1>2 DEF SignedInBefore, CurrentName
  <2>2. CASE ~Opens(n, p)
    <3>1. PICK q \in Req : Ending(q, s)
      BY <1>2, <2>1, <2>2 DEF PasswordInv, PasswordsMatch
    <3> QED BY <1>1, <2>1, <3>1, EndingStays
  <2>3. CASE Opens(n, p)
    <3>1. op[r].name = n /\ (DeleteUser(r) \/ SetUserPasswordHash(r))
      BY <1>1, <2>3, OpensStay
    <3>2. CASE DeleteUser(r)
      <4>1. op'[r].kind = "delete" /\ op'[r].pc = "mirror" /\ op'[r].name = n
        BY <1>1, <3>1, <3>2, ChangingStep DEF DeleteUser
      <4> QED BY <4>1 DEF Ending
    <3>3. CASE SetUserPasswordHash(r) /\ op[r].kind = "reset"
      <4>1. GotoChanging(r, "revoke")
        BY <3>3 DEF SetUserPasswordHash
      <4>2. op'[r].kind = "reset" /\ op'[r].pc = "revoke" /\ op'[r].name = n
        BY <1>1, <3>1, <3>3, <4>1, ChangingStep
      <4> QED BY <4>2 DEF Ending
    <3>4. CASE SetUserPasswordHash(r) /\ op[r].kind = "change"
      <4>1. GotoChanging(r, "legacy")
        BY <3>4 DEF SetUserPasswordHash
      <4>2. /\ op'[r].kind = "change" /\ op'[r].pc = "legacy" /\ op'[r].name = n
            /\ op'[r].sid = op[r].sid
        BY <1>1, <3>1, <3>4, <4>1, ChangingStep
      <4>3. op[r].sid # s
        <5>1. SUFFICES ASSUME op[r].sid = s PROVE FALSE
          OBVIOUS
        <5>2. p = op[r].pw
          <6>1. authed'[s] = [authed[s] EXCEPT !.pw = op[r].pw]
            BY <2>1, <3>1, <3>4, <5>1 DEF SetUserPasswordHash
          <6>2. authed[s] \in Auth
            BY <1>1, <2>1 DEF TypeOK
          <6> QED BY <6>1, <6>2 DEF Auth
        <5>3. PICK k \in Rows(n) : TRUE
          BY <2>3 DEF Opens
        <5>4. Rewritten(r, k) /\ k \in Rows(n)'
          BY <1>1, <3>1, <3>4, <5>3, UpdatedRows
        <5>5. users'[k].pw = p
          BY <3>4, <5>2, <5>4 DEF Rewritten
        <5> QED BY <5>4, <5>5 DEF Opens
      <4> QED BY <4>2, <4>3 DEF Ending
    <3> QED BY <3>1, <3>2, <3>3, <3>4 DEF SetUserPasswordHash
  <2> QED BY <2>2, <2>3
<1>3. CASE /\ SignedInBefore(s) /\ SetUserPasswordHash(r) /\ op[r].kind = "change"
           /\ s = op[r].sid /\ authed[s].name = op[r].name /\ p = op[r].pw
           /\ ~authed[s].overtaken
  <2>1. authed[s] # None /\ authed[s].name = n /\ op[r].name = n
    BY <1>3 DEF SignedInBefore
  <2>2. Rows(n) = {}
    <3>1. SUFFICES ASSUME NEW k \in Rows(n) PROVE FALSE
      OBVIOUS
    <3>2. Rewritten(r, k) /\ k \in Rows(n)'
      BY <1>1, <1>3, <2>1, UpdatedRows
    <3>3. users'[k].pw = p
      BY <1>3, <3>2 DEF Rewritten
    <3> QED BY <3>2, <3>3 DEF Opens
  <2>3. PICK q \in Req : Ending(q, s)
    BY <1>3, <2>1, <2>2 DEF PasswordInv, PasswordsMatch, Opens
  <2> QED BY <1>1, <2>1, <2>3, EndingStays
<1>4. CASE Rotate(r) /\ op[r].row.name = n /\ op[r].row.pw = p /\ ~op[r].overtaken
  <2>1. op[r].pc = "rotate" /\ op[r].kind \in {"login", "setup"} /\ users' = users
    BY <1>1, <1>4 DEF Rotate, At, TypeInv, StepsFit, StepFits
  <2>2. op[r].row.name = op[r].name
    BY <2>1 DEF Signing, PasswordInv, SessionInv, CopiesCurrent, Current
  <2>3. Opens(n, p)
    BY <1>1, <1>4, <2>1, <2>2 DEF Knows
  <2> QED BY <2>1, <2>3 DEF Opens, Rows
<1> QED BY <1>1, <1>2, <1>3, <1>4, PasswordsStay DEF SignedInBefore

\* A login goes on with the password it was given, whoever changes accounts meanwhile.
LEMMA ProceedKnows ==
    ASSUME PasswordInv, NEW r \in Req, Proceeds(r), NEW q \in Req
    PROVE  Knows(op[q])'
<1>1. /\ TypeInv /\ TypeOK /\ Knows(op[r]) /\ Knows(op[q]) /\ Came(r) /\ op[r] \in Op
  BY ProceedsCame DEF PasswordInv, SessionInv, TypeInv, TypeOK
<1>2. CASE q # r
  <2>1. /\ op'[q].kind = op[q].kind /\ op'[q].name = op[q].name /\ op'[q].pc = op[q].pc
        /\ op'[q].pw = op[q].pw /\ op'[q].row = op[q].row
        /\ ~op'[q].overtaken => ~op[q].overtaken
    BY <1>1, <1>2, OthersStay
  <2>2. ASSUME op[q].kind \in {"login", "setup"}, op[q].pc \in {"mirror", "rotate"},
               ~op'[q].overtaken, NEW n, op[q].name = n, NEW p, op[q].pw = p
        PROVE  Opens(n, p)'
    <3>1. Signing(q) /\ Opens(n, p)
      BY <1>1, <2>1, <2>2 DEF Signing, Knows
    <3>2. ~(op[r].name = n /\ (DeleteUser(r) \/ SetUserPasswordHash(r)))
      BY <1>1, <1>2, <2>2, <3>1, OthersStay
    <3> QED BY <1>1, <3>1, <3>2, OpensStay
  <2> QED BY <1>1, <2>1, <2>2 DEF Knows
<1>3. CASE q = r /\ op'[r] = IdleOp
  BY <1>3 DEF IdleOp, Knows
<1>4. CASE q = r /\ op'[r] # IdleOp /\ op[r].kind \in {"login", "setup"}
  <2>1. /\ op'[r].kind = op[r].kind /\ op'[r].name = op[r].name /\ op'[r].pw = op[r].pw
        /\ ~Done(r)
    BY <1>1, <1>4 DEF Came, Done, TypeInv, TypeOK
  <2>2. CASE LoginRead(r)
    <3>1. CASE \E k \in Rows(op[r].name) : users[k].pw = op[r].pw /\ GotoWith(r, users[k], "rotate")
      <4>1. PICK k \in Rows(op[r].name) : users[k].pw = op[r].pw /\ GotoWith(r, users[k], "rotate")
        BY <3>1
      <4>2. op'[r].row = users[k]
        BY <1>1, <4>1 DEF GotoWith, TypeInv, TypeOK, Op
      <4>3. Opens(op[r].name, op[r].pw)'
        BY <2>1, <2>2, <4>1 DEF LoginRead, Opens, Rows
      <4> QED BY <1>4, <2>1, <4>1, <4>2, <4>3 DEF Knows
    <3>2. CASE GotoWith(r, FirstAdmin(AdminName, legacy), "check") /\ legacy = op[r].pw
      <4>1. op'[r].row = FirstAdmin(AdminName, legacy) /\ op'[r].pc = "check"
        BY <1>1, <3>2 DEF GotoWith, TypeInv, TypeOK, Op
      <4> QED BY <1>4, <2>1, <3>2, <4>1 DEF Knows, FirstAdmin
    <3> QED BY <2>1, <2>2, <3>1, <3>2 DEF LoginRead
  <2>3. CASE SetupHash(r)
    <3>1. op'[r].row = FirstAdmin(op[r].name, op[r].pw) /\ op'[r].pc = "check"
      BY <1>1, <2>3 DEF SetupHash, GotoWith, TypeInv, TypeOK, Op
    <3> QED BY <1>4, <2>1, <3>1 DEF Knows, FirstAdmin
  <2>4. CASE CreateCheck(r)
    <3>1. op[r].pc = "check" /\ Signing(r)
      BY <1>4, <2>4 DEF CreateCheck, At, Signing
    <3>2. op[r].kind = "login" /\ ~op[r].overtaken => Rows(op[r].name) = {}
      BY <3>1 DEF PasswordInv, SessionInv, CopiesCurrent, Current
    <3>3. \/ Goto(r, "insert")
          \/ Goto(r, "rotate") /\ op[r].overtaken
      BY <2>1, <2>4, <3>2 DEF CreateCheck
    <3>4. /\ op'[r].pc = "insert" \/ (op'[r].pc = "rotate" /\ op'[r].overtaken)
          /\ op'[r].row = op[r].row
      BY <1>1, <3>3, GotoOp DEF Kept, Step
    <3> QED BY <1>1, <1>4, <2>1, <3>1, <3>4 DEF Knows
  <2>5. CASE CreateInsert(r)
    <3>1. op'[r].row = op[r].row /\ op[r].pc = "insert"
      BY <1>1, <2>5, ChangingStep DEF CreateInsert, At, TypeInv
    <3>2. Opens(op[r].name, op[r].pw)'
      <4>1. PICK k \in Key : users'[k] # None /\ users'[k].name = op[r].name /\ users'[k].pw = op[r].pw
        BY <1>1, <2>5, InsertedRow
      <4> QED BY <2>1, <4>1 DEF Opens, Rows
    <3>3. op[r].row.pw = op[r].pw
      BY <1>1, <1>4, <3>1 DEF Knows
    <3> QED BY <1>4, <2>1, <3>1, <3>2, <3>3 DEF Knows
  <2>6. CASE Mirror(r)
    <3>1. op[r].pc = "mirror" /\ Goto(r, "rotate") /\ users' = users
      BY <1>4, <2>6 DEF Mirror, At, AfterMirror
    <3>2. op'[r].row = op[r].row
      BY <1>1, <3>1, GotoOp DEF TypeInv, Kept, Step
    <3>3. op[r].row.pw = op[r].pw /\ (~op[r].overtaken => Opens(op[r].name, op[r].pw))
      BY <1>1, <1>4, <3>1 DEF Knows
    <3>4. ~op'[r].overtaken => Opens(op[r].name, op[r].pw)'
      BY <1>1, <1>4, <2>1, <3>1, <3>3 DEF Opens, Rows, Came
    <3> QED BY <1>4, <2>1, <3>2, <3>3, <3>4 DEF Knows
  <2>7. ~(LoginRead(r) \/ SetupHash(r) \/ CreateCheck(r) \/ CreateInsert(r) \/ Mirror(r)) =>
           op'[r].pc \notin {"check", "insert", "mirror", "rotate"}
    <3>1. ~UpdateUserRole(r) /\ ~SetUserDisabled(r) /\ ~DeleteUser(r)
      BY <1>4 DEF UpdateUserRole, SetUserDisabled, DeleteUser
    <3> QED BY <1>1, <1>4, <3>1 DEF Came
  <2> QED BY <1>4, <2>1, <2>2, <2>3, <2>4, <2>5, <2>6, <2>7 DEF Knows
<1>5. CASE q = r /\ op'[r] # IdleOp /\ op[r].kind \notin {"login", "setup"}
  BY <1>1, <1>5 DEF Came, Knows
<1> QED BY <1>2, <1>3, <1>4, <1>5

\* However requests overlap, the sessions keep up with the passwords.
LEMMA PasswordStep ==
    ASSUME PasswordInv, [Next]_vars
    PROVE  PasswordInv'
<1>1. SessionInv' /\ TypeInv
  BY SessionStep DEF PasswordInv, SessionInv
<1>2. ASSUME NEW r \in Req, Starts(r)
      PROVE  PasswordInv'
  <2>1. /\ op[r].pc = "idle" /\ \A q \in Req : q # r => op'[q] = op[q]
        /\ op'[r].kind \in {"login", "setup"} => op'[r].pc \in {"read", "hash"}
    BY <1>1, <1>2, StartTypes
  <2>2. UNCHANGED <<users, authed>>
    BY <1>1, <1>2, StartsFresh
  <2>3. ASSUME NEW q \in Req, NEW s \in Session, Ending(q, s)
        PROVE  Ending(q, s)'
    BY <2>1, <2>2, <2>3 DEF Ending
  <2>4. PasswordsMatch'
    BY <2>2, <2>3 DEF PasswordInv, PasswordsMatch, Opens, Rows
  <2>5. \A q \in Req : Knows(op[q])'
    BY <2>1, <2>2 DEF PasswordInv, Knows, Opens, Rows
  <2> QED BY <1>1, <2>4, <2>5 DEF PasswordInv
<1>3. ASSUME NEW r \in Req, Proceeds(r)
      PROVE  PasswordInv'
  BY <1>1, <1>3, ProceedPasswords, ProceedKnows DEF PasswordInv
<1>4. CASE (\E s \in Session : SignOut(s)) \/ SaveSettings \/ SetupMode \/ UNCHANGED vars
  <2>1. /\ users' = users /\ op' = op
        /\ \A s \in Session : authed'[s] = authed[s] \/ authed'[s] = None
    BY <1>1, <1>4 DEF SignOut, SaveSettings, SetupMode, vars, TypeInv, TypeOK
  <2>2. PasswordsMatch'
    BY <2>1 DEF PasswordInv, PasswordsMatch, Ending, Opens, Rows
  <2>3. \A r \in Req : Knows(op[r])'
    BY <2>1 DEF PasswordInv, Knows, Opens, Rows
  <2> QED BY <1>1, <2>2, <2>3 DEF PasswordInv
<1>5. CASE Restart
  <2>1. /\ \A r \in Req : op'[r].pc = "idle"
        /\ \A s \in Session : authed'[s] = None
    BY <1>5 DEF Restart, Quiet, At
  <2>2. PasswordsMatch' /\ \A r \in Req : Knows(op[r])'
    BY <2>1 DEF PasswordsMatch, Knows
  <2> QED BY <1>1, <2>2 DEF PasswordInv
<1> QED BY <1>2, <1>3, <1>4, <1>5 DEF Next

\* OldPasswordOut, for any number of requests: a session opened with an old password
\* has ended once the change or the reset has, unless it was reported as failed
\* (revokeSessionsForUsername, revokeOtherSessionsForUsername).
THEOREM OldPasswordsOut == Spec => []OldPasswordOut
<1>1. Init => PasswordInv
  BY SerialInit DEF Init, SerialInv, PasswordInv, PasswordsMatch, Knows, IdleOp
<1>2. PasswordInv => OldPasswordOut
  <2>1. ASSUME NEW s \in Session, NEW q \in Req, Ending(q, s)
        PROVE  Revoking(authed[s].name)
    BY <2>1 DEF Ending, Revoking
  <2> QED BY <2>1 DEF PasswordInv, PasswordsMatch, OldPasswordOut, Opens
<1>3. PasswordInv /\ [Next]_vars => PasswordInv'
  BY PasswordStep
<1> QED
  BY <1>1, <1>2, <1>3, PTL DEF Spec

----------------------------------------------------------------------------
(* The mirror *)

\* The mirror looks at the names, the roles and which accounts are disabled.
LEMMA FitsStays ==
    ASSUME NEW n, NEW m, Rows(n)' = Rows(n),
           \A k \in Rows(n) : /\ users'[k].role = users[k].role
                              /\ users'[k].disabled = users[k].disabled
    PROVE  Fits(m, n)' <=> Fits(m, n)
BY DEF Fits

\* A step that writes no account, or none of what the mirror looks at.
LEMMA MirrorUnaware ==
    ASSUME TypeInv, NEW r \in Req, users' = users \/ SetUserPasswordHash(r), NEW n, NEW m
    PROVE  Fits(m, n)' <=> Fits(m, n)
<1>1. CASE users' = users
  BY <1>1, FitsStays DEF Rows
<1>2. CASE SetUserPasswordHash(r)
  <2>1. Rows(n)' = Rows(n)
    BY <1>2, UpdatedRows
  <2>2. \A k \in Rows(n) : users'[k] = users[k] \/ Rewritten(r, k)
    BY <1>2, UpdatedRows DEF Rows
  <2>3. op[r].kind \in {"reset", "change"}
    BY <1>2 DEF SetUserPasswordHash
  <2> QED BY <2>1, <2>2, <2>3, FitsStays DEF Rewritten
<1> QED BY <1>1, <1>2

\* An entry of the mirror is none of the missing things None stands for.
LEMMA EntryThere ==
    ASSUME NEW write \in BOOLEAN, NEW disabled \in BOOLEAN
    PROVE  [write |-> write, disabled |-> disabled] # None
<1>1. [write |-> write, disabled |-> disabled] \in [write : BOOLEAN, disabled : BOOLEAN]
  OBVIOUS
<1> QED BY <1>1, NoneAssumption

\* The statements whose handler tells the mirror next.
Mirrored(r) == CreateInsert(r) \/ UpdateUserRole(r) \/ SetUserDisabled(r) \/ DeleteUser(r)

\* They leave the rows of the other names alone.
LEMMA OthersFit ==
    ASSUME TypeInv, NEW r \in Req, Mirrored(r), NEW n, n # op[r].name, NEW m
    PROVE  Fits(m, n)' <=> Fits(m, n)
<1>1. CASE CreateInsert(r)
  <2>1. PICK k \in Key : /\ users[k] = None /\ users'[k].name = op[r].name
                         /\ \A j \in Key : j # k => users'[j] = users[j]
    BY <1>1, InsertedRow
  <2>2. Rows(n)' = Rows(n) /\ \A j \in Rows(n) : users'[j] = users[j]
    BY <2>1 DEF Rows
  <2> QED BY <2>2, FitsStays
<1>2. CASE DeleteUser(r)
  <2>1. Rows(n)' = Rows(n) /\ \A j \in Rows(n) : users'[j] = users[j]
    BY <1>2, DeletedRows DEF Rows
  <2> QED BY <2>1, FitsStays
<1>3. CASE UpdateUserRole(r) \/ SetUserDisabled(r)
  <2>1. Rows(n)' = Rows(n) /\ \A j \in Rows(n) : users'[j] = users[j]
    BY <1>3, UpdatedRows DEF Rows
  <2> QED BY <2>1, FitsStays
<1> QED BY <1>1, <1>2, <1>3 DEF Mirrored

\* What the handler is about to tell the mirror fits the rows it has written
\* (mirrorNativeRBACUser, ...Disabled, ...Deleted).
LEMMA ToldFits ==
    ASSUME SerialInv, NEW r \in Req, Mirrored(r), NEW n, op[r].name = n,
           NEW before, mirror[n] = before, Fits(before, n),
           NEW m, MirrorAfter(op[r].kind, n, op[r].role) = m
    PROVE  Fits(m, n)'
<1>1. TypeInv /\ StepFits(op[r]) /\ OnCourse(op[r]) /\ Undisturbed(op[r])
  BY DEF SerialInv, SessionInv, TypeInv, StepsFit
<1>2. before \in [write : BOOLEAN, disabled : BOOLEAN] \cup {None} /\ op[r].kind \in Kind
  BY <1>1 DEF TypeInv, TypeOK, Op
<1>3. CASE CreateInsert(r)
  <2>1. op[r].pc = "insert" /\ op[r].kind \in {"login", "setup", "create"}
    <3>1. op[r].pc = "insert" /\ op[r].kind \in Kind
      BY <1>2, <1>3 DEF CreateInsert, At
    <3> QED BY <1>1, <3>1 DEF StepFits, OnCourse, Administering, Kind
  <2>2. m = [write |-> op[r].role # "readonly", disabled |-> FALSE] /\ Rows(n) = {}
    BY <1>1, <2>1 DEF MirrorAfter, Undisturbed
  <2>3. PICK k \in Key : /\ users[k] = None
                         /\ users'[k] # None /\ users'[k].name = n /\ users'[k].role = op[r].role
                         /\ \A j \in Key : j # k => users'[j] = users[j]
    BY <1>1, <1>3, InsertedRow
  <2>4. Rows(n)' = {k}
    BY <2>2, <2>3 DEF Rows
  <2>5. m # None
    BY <2>2, EntryThere
  <2> QED BY <2>2, <2>3, <2>4, <2>5 DEF Fits
<1>4. CASE UpdateUserRole(r)
  <2>1. op[r].kind = "role" /\ Rows(n) # {}
    BY <1>1, <1>4 DEF UpdateUserRole, At, Undisturbed
  <2>2. m = [write |-> op[r].role # "readonly", disabled |-> FALSE]
    BY <2>1 DEF MirrorAfter
  <2>3. Rows(n)' = Rows(n) /\ \A k \in Rows(n) : users'[k].role = op[r].role
    BY <1>1, <1>4, <2>1, UpdatedRows DEF Rewritten
  <2>4. m # None
    BY <2>2, EntryThere
  <2> QED BY <2>1, <2>2, <2>3, <2>4 DEF Fits
<1>5. CASE SetUserDisabled(r)
  <2>1. op[r].kind \in {"disable", "enable"}
    BY <1>5 DEF SetUserDisabled
  <2>2. m = IF before = None THEN None ELSE [before EXCEPT !.disabled = op[r].kind = "disable"]
    BY <2>1 DEF MirrorAfter
  <2>3. /\ Rows(n)' = Rows(n)
        /\ \A k \in Rows(n) : /\ users'[k].role = users[k].role
                              /\ users'[k].disabled = (op[r].kind = "disable")
    BY <1>1, <1>5, <2>1, UpdatedRows DEF Rewritten
  <2>4. CASE before = None
    BY <2>2, <2>3, <2>4 DEF Fits
  <2>5. CASE before # None
    <3>1. m.write = before.write /\ m.disabled = (op[r].kind = "disable")
      BY <1>2, <2>2, <2>5
    <3>2. m # None
      <4>1. m \in [write : BOOLEAN, disabled : BOOLEAN]
        BY <1>2, <2>2, <2>5
      <4> QED BY <4>1, NoneAssumption
    <3> QED BY <2>3, <2>5, <3>1, <3>2 DEF Fits
  <2> QED BY <2>4, <2>5
<1>6. CASE DeleteUser(r)
  <2>1. m = None /\ Rows(n)' = {}
    BY <1>6, DeletedRows DEF DeleteUser, MirrorAfter
  <2> QED BY <2>1 DEF Fits
<1> QED BY <1>3, <1>4, <1>5, <1>6 DEF Mirrored

\* A handler tells the mirror what it has done to the account before it goes on.
LEMMA MirrorKept ==
    ASSUME Serial, MirrorWorks, MirrorInv, NEW r \in Req, Proceeds(r)
    PROVE  \A n \in Name : Told(n)' /\ (~Telling(n)' => Fits(mirror[n], n)')
<1>1. /\ SerialInv /\ TypeInv /\ Came(r) /\ op[r].name \in Name
      /\ OnCourse(op[r])
  BY ProceedsCame DEF MirrorInv, SerialInv, SessionInv, TypeInv, TypeOK, Op
<1>2. CASE Mirrored(r)
  <2>1. mirror' = mirror /\ op[r].pc # "mirror" /\ GotoChanging(r, "mirror")
    BY <1>2 DEF Mirrored, CreateInsert, UpdateUserRole, SetUserDisabled, DeleteUser, At
  <2>2. /\ op'[r].pc = "mirror" /\ op'[r].name = op[r].name
        /\ op'[r].kind = op[r].kind /\ op'[r].role = op[r].role
    BY <1>1, <2>1, ChangingStep DEF TypeInv
  <2>3. \A n : ~Telling(n)
    BY <2>1 DEF Telling, Serial
  <2> SUFFICES ASSUME NEW n \in Name
               PROVE  Told(n)' /\ (~Telling(n)' => Fits(mirror[n], n)')
    OBVIOUS
  <2>4. PICK before : mirror[n] = before
    OBVIOUS
  <2>5. Fits(before, n)
    BY <2>3, <2>4 DEF MirrorInv
  <2>6. CASE op[r].name = n
    <3>1. PICK m : MirrorAfter(op[r].kind, n, op[r].role) = m
      OBVIOUS
    <3>2. Fits(m, n)'
      BY <1>1, <1>2, <2>4, <2>5, <2>6, <3>1, ToldFits
    <3>3. (MirrorAfter(op[r].kind, n, op[r].role))' = m
      BY <2>1, <2>2, <3>1 DEF MirrorAfter
    <3>4. Told(n)'
      BY <3>2, <3>3 DEF Told, Serial
    <3>5. Telling(n)'
      BY <2>2, <2>6 DEF Telling
    <3> QED BY <3>4, <3>5
  <2>7. CASE op[r].name # n
    <3>1. Fits(before, n)'
      BY <1>1, <1>2, <2>5, <2>7, OthersFit
    <3>2. Told(n)'
      BY <2>2, <2>7 DEF Told, Serial
    <3> QED BY <2>1, <2>4, <3>1, <3>2
  <2> QED BY <2>6, <2>7
<1>3. CASE Mirror(r)
  <2>1. op[r].pc = "mirror" /\ users' = users
    BY <1>3 DEF Mirror, At
  <2>2. op'[r].pc # "mirror"
    <3>1. \/ op'[r] = IdleOp
          \/ AfterMirror(op[r].kind) \in {"rotate", "revoke"} /\ Goto(r, AfterMirror(op[r].kind))
      BY <1>1, <1>3 DEF Mirror, AfterMirror, Done, TypeInv, TypeOK
    <3>2. CASE op'[r] = IdleOp
      BY <3>2 DEF IdleOp
    <3>3. CASE Goto(r, "rotate") \/ Goto(r, "revoke")
      BY <1>1, <3>3, GotoOp DEF TypeInv, Step
    <3> QED BY <3>1, <3>2, <3>3
  <2>3. \A n : Told(n)' /\ ~Telling(n)'
    BY <2>2 DEF Told, Telling, Serial
  <2> SUFFICES ASSUME NEW n \in Name
               PROVE  Fits(mirror[n], n)'
    BY <2>3
  <2>4. PICK m : mirror'[n] = m
    OBVIOUS
  <2>5. Fits(m, n)
    <3>1. mirror' = [mirror EXCEPT ![op[r].name] = MirrorAfter(op[r].kind, op[r].name, op[r].role)]
      BY <1>3 DEF Mirror
    <3>2. CASE op[r].name = n
      <4>1. m = MirrorAfter(op[r].kind, n, op[r].role)
        BY <1>1, <2>4, <3>1, <3>2 DEF TypeInv, TypeOK
      <4> QED BY <2>1, <3>2, <4>1 DEF MirrorInv, Told
    <3>3. CASE op[r].name # n
      <4>1. m = mirror[n] /\ ~Telling(n)
        BY <1>1, <2>4, <3>1, <3>3 DEF TypeInv, TypeOK, Telling, Serial
      <4> QED BY <4>1 DEF MirrorInv
    <3> QED BY <3>2, <3>3
  <2>6. Fits(m, n)'
    BY <1>1, <2>1, <2>5, MirrorUnaware
  <2> QED BY <2>4, <2>6
<1>4. CASE ~Mirrored(r) /\ ~Mirror(r)
  <2>1. users' = users \/ SetUserPasswordHash(r)
    BY <1>4, RowsStay DEF Mirrored
  <2>2. mirror' = mirror /\ op[r].pc # "mirror"
    BY <1>4 DEF Mirrored, Proceeds, At, LoginRead, SetupHash, CreateCheck, Rotate, AdminRead,
       CountAdmins, SetUserPasswordHash, Revoke, ChangeLegacy, RevokeOthers, StatementFails
  <2>3. op'[r].pc # "mirror"
    BY <1>1, <1>4 DEF Came, Mirrored, IdleOp
  <2>4. \A n : Told(n)' /\ ~Telling(n) /\ ~Telling(n)'
    BY <2>2, <2>3 DEF Told, Telling, Serial
  <2> SUFFICES ASSUME NEW n \in Name
               PROVE  Fits(mirror[n], n)'
    BY <2>4
  <2>5. PICK m : mirror[n] = m
    OBVIOUS
  <2>6. Fits(m, n)
    BY <2>4, <2>5 DEF MirrorInv
  <2>7. Fits(m, n)'
    BY <1>1, <2>1, <2>6, MirrorUnaware
  <2> QED BY <2>2, <2>5, <2>7
<1> QED BY <1>2, <1>3, <1>4

\* The bootstrap copies the accounts (bootstrapNativeRBACMirror).
LEMMA RestartFits ==
    ASSUME MirrorWorks, MirrorInv, Restart, NEW n \in Name
    PROVE  Fits(mirror[n], n)'
<1>1. SerialInv /\ TypeInv
  BY DEF MirrorInv, SerialInv, SessionInv
<1>2. ~Telling(n)
  BY DEF Restart, Quiet, At, Telling
<1>3. Fits(mirror[n], n)
  BY <1>2 DEF MirrorInv
<1>4. PICK last \in [Name -> Key] :
        /\ Rows(n) # {} => last[n] \in Rows(n)
        /\ mirror'[n] = IF Rows(n) # {} THEN MirrorOf(users[last[n]])
                        ELSE IF ~UsersExist /\ stored # None /\ n = AdminName
                        THEN [write |-> TRUE, disabled |-> FALSE]
                        ELSE mirror[n]
  BY DEF Restart
<1>5. CASE ~UsersExist /\ stored # None
  <2>1. PICK k \in Key : users' = [users EXCEPT ![k] = FirstAdmin(AdminName, stored)]
    BY <1>5 DEF Restart
  <2>2. FirstAdmin(AdminName, stored) \in Row
    BY <1>1, <1>5, AccountsAssumption DEF TypeInv, TypeOK, FirstAdmin, Row
  <2>3. /\ users'[k] # None /\ users'[k].name = AdminName /\ users'[k].role = "admin"
        /\ \A j \in Key : j # k => users'[j] = None
    BY <1>1, <1>5, <2>1, <2>2, NoneAssumption DEF TypeInv, TypeOK, FirstAdmin, UsersExist
  <2>4. Rows(n) = {} /\ mirror[n] = None
    BY <1>3, <1>5 DEF UsersExist, Rows, Fits
  <2>5. CASE n = AdminName
    <3>1. mirror'[n] = [write |-> TRUE, disabled |-> FALSE]
      BY <1>4, <1>5, <2>4, <2>5
    <3>2. mirror'[n] # None /\ mirror'[n].write = TRUE /\ mirror'[n].disabled = FALSE
      <4>1. [write |-> TRUE, disabled |-> FALSE] # None
        BY EntryThere
      <4>2. mirror'[n].write = TRUE /\ mirror'[n].disabled = FALSE
        BY <3>1
      <4> QED BY <3>1, <4>1, <4>2
    <3>3. Rows(n)' = {k}
      BY <2>3, <2>5 DEF Rows
    <3> QED BY <2>3, <3>2, <3>3 DEF Fits
  <2>6. CASE n # AdminName
    <3>1. mirror'[n] = None /\ Rows(n)' = {}
      BY <1>4, <2>3, <2>4, <2>6 DEF Rows
    <3> QED BY <3>1 DEF Fits
  <2> QED BY <2>5, <2>6
<1>6. CASE ~(~UsersExist /\ stored # None)
  <2>1. users' = users /\ Rows(n)' = Rows(n)
    BY <1>6 DEF Restart, Rows
  <2>2. CASE Rows(n) = {}
    <3>1. mirror'[n] = None
      BY <1>3, <1>4, <1>6, <2>2 DEF Fits
    <3> QED BY <2>1, <2>2, <3>1 DEF Fits
  <2>3. CASE Rows(n) # {}
    <3>1. PICK k \in Key : k \in Rows(n) /\ mirror'[n] = MirrorOf(users[k])
      BY <1>4, <2>3 DEF Rows
    <3>2. \A j \in Rows(n) : j = k
      BY <1>1, <3>1 DEF SerialInv, OneRow, Rows
    <3>3. users[k] \in Row
      BY <1>1, <3>1 DEF TypeInv, TypeOK, Rows
    <3>4. /\ mirror'[n] # None /\ mirror'[n].write = (users[k].role # "readonly")
          /\ mirror'[n].disabled = users[k].disabled
      <4>1. MirrorOf(users[k]) \in [write : BOOLEAN, disabled : BOOLEAN]
        BY <3>3 DEF MirrorOf, Row
      <4> QED BY <3>1, <4>1, NoneAssumption DEF MirrorOf
    <3> QED BY <2>1, <2>3, <3>2, <3>4 DEF Fits
  <2> QED BY <2>2, <2>3
<1> QED BY <1>5, <1>6

\* With one request at a time, and calls that succeed, the mirror keeps up.
LEMMA MirrorStep ==
    ASSUME Serial, MirrorWorks, MirrorInv, [Next]_vars
    PROVE  MirrorInv'
<1>1. SerialInv' /\ TypeInv
  BY SerialStep DEF MirrorInv, SerialInv, SessionInv
<1>2. ASSUME NEW r \in Req, Starts(r)
      PROVE  MirrorInv'
  <2>1. /\ Fresh(op'[r]) /\ op[r].pc = "idle" /\ \A q \in Req : q = r
        /\ UNCHANGED <<users, mirror>>
    BY <1>1, <1>2, StartsFresh DEF Serial
  <2>2. op'[r].pc # "mirror"
    BY <2>1 DEF Fresh
  <2>3. \A n : Told(n)' /\ ~Telling(n)
    BY <2>1, <2>2 DEF Told, Telling
  <2> QED BY <1>1, <2>1, <2>3 DEF MirrorInv, Fits, Rows
<1>3. ASSUME NEW r \in Req, Proceeds(r)
      PROVE  MirrorInv'
  BY <1>1, <1>3, MirrorKept DEF MirrorInv
<1>4. CASE (\E s \in Session : SignOut(s)) \/ SaveSettings \/ SetupMode \/ UNCHANGED vars
  <2>1. users' = users /\ op' = op /\ mirror' = mirror
    BY <1>4 DEF SignOut, SaveSettings, SetupMode, vars
  <2> QED BY <1>1, <2>1 DEF MirrorInv, Told, Telling, Fits, Rows, MirrorAfter
<1>5. CASE Restart
  <2>1. \A n \in Name : Told(n)'
    BY <1>5 DEF Restart, Quiet, At, Told
  <2> QED BY <1>1, <1>5, <2>1, RestartFits DEF MirrorInv
<1> QED BY <1>2, <1>3, <1>4, <1>5 DEF Next

\* MirrorFollows: as long as requests come one at a time and the catalog takes
\* what it is told, it knows exactly the accounts and never refuses an enabled
\* account what its role grants (native_rbac.go).
THEOREM MirrorInStep ==
    ASSUME Serial, MirrorWorks PROVE Spec => []MirrorFollows
<1>1. Init => MirrorInv
  BY SerialInit DEF Init, MirrorInv, Told, Fits, Rows, IdleOp
<1>2. MirrorInv => MirrorFollows
  <2> SUFFICES ASSUME MirrorInv, Quiet, NEW n \in Name
               PROVE  /\ Rows(n) = {} => mirror[n] = None
                      /\ \A k \in Rows(n) : ~users[k].disabled => mirror[n] = MirrorOf(users[k])
    BY DEF MirrorFollows
  <2>1. Fits(mirror[n], n)
    BY DEF MirrorInv, Quiet, At, Telling
  <2>2. ASSUME NEW k \in Rows(n), ~users[k].disabled
        PROVE  mirror[n] = MirrorOf(users[k])
    <3>1. /\ mirror[n] \in [write : BOOLEAN, disabled : BOOLEAN]
          /\ users[k].disabled = FALSE
      BY <2>1, <2>2 DEF MirrorInv, SerialInv, SessionInv, TypeInv, TypeOK, Row, Rows, Fits
    <3>2. mirror[n].write = (users[k].role # "readonly") /\ mirror[n].disabled = FALSE
      BY <2>1, <2>2, <3>1 DEF Fits
    <3> QED BY <3>1, <3>2 DEF MirrorOf
  <2> QED BY <2>1, <2>2 DEF Fits
<1>3. MirrorWorks => (MirrorInv /\ [Next]_vars => MirrorInv')
  BY MirrorStep
<1> QED
  BY <1>1, <1>2, <1>3, PTL DEF Spec

=============================================================================
