---------------------------- MODULE MCAccounts ----------------------------
(* The administrator and a second account, with as many rows as the runs'   *)
(* requests can insert.                                                     *)
EXTENDS Accounts, TLC

CONSTANTS admin, ann

MCName == {admin, ann}
AllRoles == {"admin", "user", "readonly"}
TwoRoles == {"admin", "readonly"}

\* An installation that was set up as admin, who then created ann as a second
\* administrator: the start of the runs that are about two requests at once.
TwoAdminsInit ==
    /\ \E k \in Key, s \in Session, p \in Pw :
          /\ users \in [Key -> {[name |-> n, role |-> "admin", disabled |-> FALSE, pw |-> p] :
                               n \in Name}]
          /\ users[k].name = admin /\ \A other \in Key \ {k} : users[other].name = ann
          /\ authed = [t \in Session |->
                IF t # s THEN None
                ELSE [name |-> admin, role |-> "admin", pw |-> p, overtaken |-> FALSE]]
          /\ legacy = p /\ stored = p
    /\ open = FALSE
    /\ mirror = [n \in Name |-> IF MirrorWorks THEN [write |-> TRUE, disabled |-> FALSE] ELSE None]
    /\ op = [r \in Req |-> IdleOp]
    /\ ranOpen = FALSE

TwoAdminsSpec == TwoAdminsInit /\ [][Next]_vars

\* Sessions, rows, passwords and requests are interchangeable.
Symmetry == Permutations(Session) \cup Permutations(Key) \cup Permutations(Pw)
            \cup Permutations(Req)
=============================================================================
