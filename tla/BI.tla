--------------------------------- MODULE BI ---------------------------------
(***************************************************************************)
(* Saved queries, charts and dashboards: three metadata tables kept alike. *)
(* A save looks the object up, checks its owner, deletes the rows of its   *)
(* id and inserts the new one, a statement at a time and without a lock; a *)
(* removal looks up, checks and deletes.  Who finds no row is not checked. *)
(* What an object consists of beside its owner is left out.                *)
(*                                                                         *)
(* Definitions whose name says what they leave out are mutations of the    *)
(* definition that follows them; the model does not use them.              *)
(***************************************************************************)
CONSTANTS
    Req,       \* requests
    User,      \* user names of sessions
    Admin,     \* those with an administrator session
    Nobody,    \* the empty name: of an unowned object, or of a session without one
    Id         \* identifiers, sent or made up

Kind == {"saved_query", "chart", "dashboard"}

Row == [id : Id, owner : User \cup {Nobody}]

VARIABLES
    table,   \* table[k]: rows [id, owner]; of equal ones, one stands for all
    op       \* op[r]: what request r is doing

vars == <<table, op>>

Idle == [at |-> "idle"]

At(r, step) == op[r].at = step

Goes(r, o) == op' = [op EXCEPT ![r] = o]

----------------------------------------------------------------------------
(* Rows *)

Found(k, id) == {row \in table[k] : row.id = id}

\* What a load returns: a row of that id, or none if there is none, as a set.
Loaded(k, id) == IF Found(k, id) = {} THEN {{}} ELSE {{row} : row \in Found(k, id)}

Without(k, id) == table[k] \ Found(k, id)

\* biOwnershipAllowed: the owner, an administrator, or anyone if there is no owner.
MayChange(u, owner) == owner = Nobody \/ u \in Admin \/ u = owner

OwnerAsSent(u, sent, found) == IF sent = Nobody THEN u ELSE sent

\* The owner a save stores: the one found or, of a new object, the one sent; the
\* user who saves, where that is nobody.
OwnerAfter(u, sent, found) ==
    LET owner == IF found = {} THEN sent ELSE (CHOOSE row \in found : TRUE).owner
    IN  IF owner = Nobody THEN u ELSE owner

\* The object is there, and all its rows have one and the same named owner.
Owned(k, id) ==
    \E u \in User \ {Nobody} :
        Found(k, id) # {} /\ \A row \in Found(k, id) : row.owner = u

----------------------------------------------------------------------------
(* Requests.  History: o.sure says that the request o found the object with *)
(* an owner, and that nobody who did not has stored a row of it since.      *)

\* The lookup and the check that every save of an object begins with.
Post(r, u, k, id, sent) ==
    /\ At(r, "idle")
    /\ \E found \in Loaded(k, id) :
          /\ \A row \in found : MayChange(u, row.owner)
          /\ Goes(r, [at |-> "delete", by |-> u, kind |-> k, id |-> id,
                      owner |-> OwnerAfter(u, sent, found), sure |-> Owned(k, id)])
    /\ UNCHANGED table

PostSavedQuery(r, u, id, sent) == Post(r, u, "saved_query", id, sent)
PostChart(r, u, id, sent) == Post(r, u, "chart", id, sent)
PostDashboard(r, u, id, sent) == Post(r, u, "dashboard", id, sent)

\* The delete and the insert of saveSavedQuery, saveChart and saveDashboard.
DeleteOld(r) ==
    /\ At(r, "delete")
    /\ table' = [table EXCEPT ![op[r].kind] = Without(op[r].kind, op[r].id)]
    /\ Goes(r, [op[r] EXCEPT !.at = "insert"])

\* Does request q work on the object that r works on?
Beside(q, r) == ~At(q, "idle") /\ op[q].kind = op[r].kind /\ op[q].id = op[r].id

InsertRow(r, k) ==
    /\ At(r, "insert") /\ op[r].kind = k
    /\ table' = [table EXCEPT ![k] = @ \cup {[id |-> op[r].id, owner |-> op[r].owner]}]
    /\ op' = [q \in Req |-> IF q = r THEN Idle
                            ELSE IF ~op[r].sure /\ Beside(q, r)
                                 THEN [op[q] EXCEPT !.sure = FALSE]
                                 ELSE op[q]]

InsertSavedQuery(r) == InsertRow(r, "saved_query")
InsertChart(r) == InsertRow(r, "chart")
InsertDashboard(r) == InsertRow(r, "dashboard")

\* A statement fails, or the query timeout passes between two of them.
Fail(r) ==
    /\ op[r].at \in {"delete", "insert", "drop"}
    /\ Goes(r, Idle)
    /\ UNCHANGED table

\* The lookup and the check that every removal begins with.
Remove(r, u, k, id) ==
    /\ At(r, "idle")
    /\ \E found \in Loaded(k, id) :
          /\ \A row \in found : MayChange(u, row.owner)
          /\ Goes(r, [at |-> "drop", by |-> u, kind |-> k, id |-> id, sure |-> Owned(k, id)])
    /\ UNCHANGED table

RemoveSavedQuery(r, u, id) == Remove(r, u, "saved_query", id)
RemoveChart(r, u, id) == Remove(r, u, "chart", id)
RemoveDashboard(r, u, id) == Remove(r, u, "dashboard", id)

\* deleteSavedQuery, deleteChart, deleteDashboard; what refers to it stays.
Drop(r) ==
    /\ At(r, "drop")
    /\ table' = [table EXCEPT ![op[r].kind] = Without(op[r].kind, op[r].id)]
    /\ Goes(r, Idle)

----------------------------------------------------------------------------

\* Unowned objects may be left from before there were owners, or accounts.
Init ==
    /\ table \in [Kind -> SUBSET {row \in Row : row.owner = Nobody}]
    /\ op = [r \in Req |-> Idle]

Next ==
    \E r \in Req :
        \/ \E u \in User, id \in Id, sent \in User \cup {Nobody} :
              PostSavedQuery(r, u, id, sent) \/ PostChart(r, u, id, sent)
              \/ PostDashboard(r, u, id, sent)
        \/ \E u \in User, id \in Id :
              RemoveSavedQuery(r, u, id) \/ RemoveChart(r, u, id) \/ RemoveDashboard(r, u, id)
        \/ DeleteOld(r) \/ Drop(r) \/ Fail(r)
        \/ InsertSavedQuery(r) \/ InsertChart(r) \/ InsertDashboard(r)

Spec == Init /\ [][Next]_vars

----------------------------------------------------------------------------
(* What makes it correct *)

\* May request r, whose delete statement is next, remove what that would remove?
RemovesItsOwn(r) ==
    \A row \in Found(op[r].kind, op[r].id) : MayChange(op[r].by, row.owner)

\* "Only the owner or an admin may modify", or "delete", an object
\* (handlers.go:3953 and 3987): no delete statement removes a row of an owner that
\* the one who asked for it may not touch.
OnlyOwnersChange ==
    [][\A r \in Req :
         op[r].at \in {"delete", "drop"} /\ op'[r].at # op[r].at
           => RemovesItsOwn(r) \/ UNCHANGED table]_vars

\* What holds of it: who found the object with an owner removes no row of another
\* one, although the check lies long before the delete and other saves and
\* removals of the object come in between, unless somebody who found no object, or
\* an unowned one, has stored a row there since.  It takes that a save keeps the
\* owner it found (handlers.go 3956, 4028 and 4117).
OwnersDecide ==
    [][\A r \in Req :
         op[r].at \in {"delete", "drop"} /\ op[r].sure /\ op'[r].at # op[r].at
           => RemovesItsOwn(r) \/ UNCHANGED table]_vars
=============================================================================
