-------------------------------- MODULE Gates --------------------------------
(***************************************************************************)
(* Which requests reach the code that writes.  Most routes are wrapped in  *)
(* gates when they are registered; some ask inside, because only one of    *)
(* their branches writes; the editor asks per statement.                   *)
(*                                                                         *)
(* A situation s is what the gates read: the authentication mode, whether  *)
(* there is an account, the role of the session or Nobody, maintenance     *)
(* mode, the setting that reads need a login, and what the mirror of the   *)
(* permissions says.                                                       *)
(*                                                                         *)
(* Definitions whose name says what they leave out are mutations of the    *)
(* definition that follows them; the model does not use them.              *)
(***************************************************************************)
EXTENDS FiniteSets

Nobody == "nobody"
Role == {"admin", "user", "readonly"}

\* There is no session of an account before there is an account.
Situation ==
    {s \in [auth : {"local", "none"}, configured : BOOLEAN, role : Role \cup {Nobody},
            readOnly : BOOLEAN, readsNeedLogin : BOOLEAN,
            mirror : {"off", "agrees", "denies"}] :
        s.role # Nobody => s.configured}

----------------------------------------------------------------------------
(* The gates *)

RequireRole(s, allowed) == s.auth = "none" \/ (s.configured /\ s.role \in allowed)

RequireLogin(s) == RequireRole(s, Role)

RequireAdmin(s) == RequireRole(s, {"admin"})

RequireReadAuth(s) == s.readsNeedLogin => RequireLogin(s)

RequireWritable(s) == ~s.readOnly /\ ~(s.auth # "none" /\ s.role = "readonly")

LoginRequiredForWrite(s) == s.auth # "none" /\ s.role = Nobody

RoleBlocksWrite(s) == s.auth # "none" /\ s.role = "readonly"

WriteGateBlockedInMaintenance(s) == s.readOnly \/ RoleBlocksWrite(s)

\* writeGateBlocked, for the branches that write of routes that are open for reading.
WriteGateBlocked(s) == s.readOnly \/ LoginRequiredForWrite(s) \/ RoleBlocksWrite(s)

\* sessionCanWriteSQL: the mirror can only take away.
SessionCanWriteSQL(s) ==
    \/ s.auth = "none"
    \/ s.role \in {"admin", "user"} /\ s.mirror # "denies"

\* writeSQLBlocked and executeSQL, for a statement of the given class.
EditorExecutes(s, class) ==
    \/ class = "read_query"
    \/ SessionCanWriteSQL(s) /\ ~s.readOnly

Passes(s, gate) ==
    CASE gate = "login"    -> RequireLogin(s)
      [] gate = "admin"    -> RequireAdmin(s)
      [] gate = "reads"    -> RequireReadAuth(s)
      [] gate = "writable" -> RequireWritable(s)
      [] gate = "inline"   -> ~WriteGateBlocked(s)
      [] gate = "editor"   -> EditorExecutes(s, "write_dml")

----------------------------------------------------------------------------
(* registerRoutes: the gates of each kind of route, and what lies behind them.  Like      *)
(* "browse" are schema, tiles, routing, export and LLM, like "records" tables, imports,   *)
(* migration, BI, schedules and connections, like "operations" users, shared connections, *)
(* jobs, pipelines and demo data, like "settings" maintenance, restore, row policies and  *)
(* the password, like "login" setup, logout and the guide.                                *)

Routes ==
    { [kind |-> "browse", gates |-> {"reads"}, effect |-> "read"],
      \* Of /match, the branches that save and upload.
      [kind |-> "match", gates |-> {"reads", "inline"}, effect |-> "write"],
      [kind |-> "records", gates |-> {"writable", "login"}, effect |-> "write"],
      [kind |-> "query", gates |-> {"reads", "editor"}, effect |-> "writeBySQL"],
      [kind |-> "operations", gates |-> {"admin", "writable"}, effect |-> "administer"],
      [kind |-> "settings", gates |-> {"admin"}, effect |-> "configure"],
      [kind |-> "login", gates |-> {}, effect |-> "none"] }

Open(s, route) == \A gate \in route.gates : Passes(s, gate)

----------------------------------------------------------------------------
(* What makes it correct *)

\* Who may write: in local mode an account that is not read-only, and nobody in
\* maintenance mode.
MayWrite(s) == ~s.readOnly /\ (s.auth = "local" => s.role \in {"admin", "user"})

\* All ways to write apply the same rule, though three pieces of code state it, and only
\* the mirror makes the editor stricter ("so a future fix to this gate can't be applied
\* to one call site and missed at another", handlers.go 2908-2910); maintenance mode never
\* locks out the administrator who is to end it (handlers.go 112-117).
SameRule(s) ==
    \A route \in Routes :
        CASE route.effect = "write" -> Open(s, route) = MayWrite(s)
          [] route.effect = "writeBySQL" ->
                Open(s, route) = (MayWrite(s) /\ (s.auth = "local" => s.mirror # "denies"))
          [] route.effect = "administer" ->
                Open(s, route) = (MayWrite(s) /\ (s.auth = "local" => s.role = "admin"))
          [] route.effect = "configure" -> MayWrite([s EXCEPT !.readOnly = FALSE]) /\ s.role = "admin"
                                           => Open(s, route)
          [] route.effect = "read" ->
                Open(s, route) = (s.auth = "none" \/ s.role # Nobody \/ ~s.readsNeedLogin)
          [] OTHER -> Open(s, route)
=============================================================================
