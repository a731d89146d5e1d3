-------------------------------- MODULE Records --------------------------------
(***************************************************************************)
(* The records of one table and its row policy.                            *)
(*                                                                         *)
(* A request loads the policy, looks at its session and then runs its      *)
(* statement; identifiers are given by the program, under a lock.  The     *)
(* policy is saved with a delete and an insert, under none.                *)
(*                                                                         *)
(* Definitions whose name says what they leave out are mutations of the    *)
(* definition that follows them; the model does not use them.              *)
(***************************************************************************)
EXTENDS Naturals

CONSTANTS
    Req,        \* requests
    User,       \* account names
    Admin,      \* those of administrators
    Nobody,     \* the name of a session without an account, and an empty owner field
    MaxRows,    \* bound: rows inserted
    MaxEvents   \* bound: failing statements, logouts and changes of the policy

VARIABLES
    rows,     \* the table: rows[n] is the row of the n-th insert, [id, owner]
    policies, \* the number of rows that name the table's policy
    holder,   \* who holds recordIDMu
    op,       \* op[r]: what request r is doing
    touched,  \* rows that requests read or wrote (history variable)
    misread,  \* a highest identifier could not be read (history variable)
    inserts, events

vars == <<rows, policies, holder, op, touched, misread, inserts, events>>

Idle == [at |-> "idle", user |-> Nobody, sure |-> FALSE]

At(r, step) == op[r].at = step

\* Where a request goes when it knows what it may: an insert first takes the lock.
Ready(kind) == IF kind = "insert" THEN "max" ELSE "statement"

Goes(r, o) == op' = [op EXCEPT ![r] = o]

Ends(r) ==
    /\ Goes(r, Idle)
    /\ holder' = IF holder = r THEN Nobody ELSE holder

Ids(s) == {s[i].id : i \in DOMAIN s}

Happens == events < MaxEvents /\ events' = events + 1

----------------------------------------------------------------------------
(* A request for a record *)

\* A session of user u asks for kind, of the record id where there is one; owner is what
\* the form says.  The handler loads the policy first (loadRowPolicy): a session that is
\* not an administrator's is sure to be restricted if the policy is there from now on.
Ask(r, u, kind, id, owner) ==
    /\ At(r, "idle")
    /\ kind # "get" => u # Nobody
    /\ kind = "insert" => inserts < MaxRows
    /\ inserts' = IF kind = "insert" THEN inserts + 1 ELSE inserts
    /\ Goes(r, [at |-> IF policies > 0 THEN "resolve" ELSE Ready(kind), user |-> u,
                kind |-> kind, row |-> IF kind = "insert" THEN inserts' ELSE 0,
                id |-> id, owner |-> owner,
                sure |-> policies > 0 /\ u \notin Admin, restricted |-> FALSE])
    /\ UNCHANGED <<rows, policies, holder, touched, misread, events>>

\* rowPolicyAppliesToSession: administrators are exempt, a restricted session owns what
\* it writes.
Resolve(r) ==
    /\ At(r, "resolve")
    /\ Goes(r, [op[r] EXCEPT !.at = Ready(op[r].kind),
                             !.restricted = op[r].user \notin Admin,
                             !.owner = IF op[r].user \in Admin THEN @ ELSE op[r].user])
    /\ UNCHANGED <<rows, policies, holder, touched, misread, inserts, events>>

LockNothing(r) == UNCHANGED holder

\* recordIDMu.
Lock(r) == holder = Nobody /\ holder' = r

\* Under the lock, the highest identifier and one more; if it cannot be read, one.
ReadMax(r) ==
    /\ At(r, "max")
    /\ Lock(r)
    /\ \/ /\ Goes(r, [op[r] EXCEPT !.at = "statement",
                        !.id = IF Ids(rows) = {} THEN 1
                               ELSE 1 + CHOOSE m \in Ids(rows) : \A k \in Ids(rows) : k <= m])
          /\ UNCHANGED <<misread, events>>
       \/ /\ Happens /\ misread' = TRUE
          /\ Goes(r, [op[r] EXCEPT !.at = "statement", !.id = 1])
    /\ UNCHANGED <<rows, policies, touched, inserts>>

\* Only what a session that is sure to be restricted touches is of interest.
Touches(r, owners) ==
    touched' = IF op[r].sure
               THEN touched \cup {[by |-> op[r].user, owner |-> o] : o \in owners}
               ELSE touched

HitsAnyOwner(r, row) == row.id = op[r].id

\* The WHERE clause of the record statements.
Hits(r, row) == row.id = op[r].id /\ (op[r].restricted => row.owner = op[r].owner)

HitOwners(r) == {rows[i].owner : i \in {j \in DOMAIN rows : Hits(r, rows[j])}}

Get(r) ==
    /\ At(r, "statement") /\ op[r].kind = "get"
    /\ Touches(r, HitOwners(r))
    /\ Ends(r)
    /\ UNCHANGED <<rows, policies, misread, inserts, events>>

Insert(r) ==
    /\ At(r, "statement") /\ op[r].kind = "insert"
    /\ rows' = [n \in DOMAIN rows \cup {op[r].row} |->
                  IF n = op[r].row THEN [id |-> op[r].id, owner |-> op[r].owner] ELSE rows[n]]
    /\ Touches(r, {op[r].owner})
    /\ Ends(r)
    /\ UNCHANGED <<policies, misread, inserts, events>>

Update(r) ==
    /\ At(r, "statement") /\ op[r].kind = "update"
    /\ rows' = [i \in DOMAIN rows |->
                  IF Hits(r, rows[i]) THEN [rows[i] EXCEPT !.owner = op[r].owner] ELSE rows[i]]
    /\ Touches(r, HitOwners(r) \cup {rows'[i].owner : i \in {j \in DOMAIN rows : Hits(r, rows[j])}})
    /\ Ends(r)
    /\ UNCHANGED <<policies, misread, inserts, events>>

Delete(r) ==
    /\ At(r, "statement") /\ op[r].kind = "delete"
    /\ rows' = [n \in {m \in DOMAIN rows : ~Hits(r, rows[m])} |-> rows[n]]
    /\ Touches(r, HitOwners(r))
    /\ Ends(r)
    /\ UNCHANGED <<policies, misread, inserts, events>>

\* A statement fails or times out: the request ends, and the lock is free.
Fail(r) ==
    /\ Happens
    /\ op[r].at \in {"statement", "policy insert"}
    /\ Ends(r)
    /\ UNCHANGED <<rows, policies, touched, misread, inserts>>

\* The session of a request ends while it is under way: it is nobody's from now on.
Logout(r) ==
    /\ Happens
    /\ op[r].user # Nobody
    /\ Goes(r, [op[r] EXCEPT !.user = Nobody, !.sure = FALSE])
    /\ UNCHANGED <<rows, policies, holder, touched, misread, inserts>>

----------------------------------------------------------------------------
(* The policy *)

\* While it is gone, requests are not sure to be restricted any more.
PolicyGone(o) == [r \in Req |-> [o[r] EXCEPT !.sure = FALSE]]

\* saveRowPolicy deletes ...
SavePolicy(r) ==
    /\ At(r, "idle") /\ Happens
    /\ policies' = 0
    /\ op' = [PolicyGone(op) EXCEPT ![r].at = "policy insert"]
    /\ UNCHANGED <<rows, holder, touched, misread, inserts>>

\* ... and inserts; two saves at once leave two rows.
InsertPolicy(r) ==
    /\ At(r, "policy insert")
    /\ policies' = policies + 1
    /\ Ends(r)
    /\ UNCHANGED <<rows, touched, misread, inserts, events>>

DeletePolicy ==
    /\ Happens /\ policies # 0 /\ policies' = 0
    /\ op' = PolicyGone(op)
    /\ UNCHANGED <<rows, holder, touched, misread, inserts>>

Init ==
    /\ rows = <<>> /\ policies = 1 /\ holder = Nobody
    /\ op = [r \in Req |-> Idle]
    /\ touched = {} /\ misread = FALSE /\ inserts = 0 /\ events = 0

Next ==
    \/ \E r \in Req :
        \/ \E u \in User \cup {Nobody}, owner \in User \cup {Nobody} : Ask(r, u, "insert", 0, owner)
        \/ \E u \in User \cup {Nobody}, kind \in {"get", "delete"}, id \in Ids(rows) :
              Ask(r, u, kind, id, Nobody)
        \/ \E u, owner \in User, id \in Ids(rows) : Ask(r, u, "update", id, owner)
        \/ Resolve(r) \/ ReadMax(r)
        \/ Get(r) \/ Insert(r) \/ Update(r) \/ Delete(r)
        \/ Fail(r) \/ Logout(r) \/ SavePolicy(r) \/ InsertPolicy(r)
    \/ DeletePolicy

Spec == Init /\ [][Next]_vars

----------------------------------------------------------------------------
(* What makes it correct *)

\* Two rows never get one identifier, however inserts, deletes and failures interleave,
\* as long as the highest one can be read (insertRecord, "two requests can compute and
\* insert the same id", db.go 671-674).
IdsUnique ==
    ~misread => \A i, j \in DOMAIN rows : rows[i].id = rows[j].id => i = j

\* While a table's policy is in force, a session that is not an administrator's reads,
\* changes and deletes rows of its own only, and leaves them its own, whatever the form
\* says and whoever writes at the same time (db.go 605-608, 654-659, 712-718, 757-760).
\* Rows whose owner column is empty count as those of a session without an account.
OwnRowsOnly == \A t \in touched : t.owner = t.by

\* Such a session "never matches any row, correctly denying access to a
\* policy-protected table" (row_policy.go 144).
AnonymousDenied == \A t \in touched : t.by # Nobody
=============================================================================
