------------------------------ MODULE MCServices ------------------------------
(***************************************************************************)
(* Services, for TLC.  As they share no state, a behaviour moves one of    *)
(* them, the one that the variable part names.  The three kinds of BI      *)
(* objects share none either, and are parts of their own.                  *)
(***************************************************************************)
EXTENDS Services

VARIABLE part

----------------------------------------------------------------------------
(* Records: two requests, of an administrator, a user or nobody; two       *)
(* inserts and one failure, logout or change of the policy.                *)

----------------------------------------------------------------------------
(* Pipelines: two of them, one in two definitions (one sent without a      *)
(* parallelism, which is 1), and a bundle from elsewhere that ends in a    *)
(* definition the validation refuses.  One request writes, one runs.       *)

CONSTANTS pipe1, pipe2

Reading(name) == [name |-> name, reads |-> TRUE]

Plain == [name |-> pipe1, parallel |-> 0, steps |-> <<Reading("load")>>]
Explicit == [Plain EXCEPT !.parallel = 1]
Wider == [Plain EXCEPT !.parallel = 2, !.steps = <<Reading("load"), Reading("join")>>]
Other == [Plain EXCEPT !.name = pipe2]

TwoNames == [Wider EXCEPT !.steps = <<Reading("load"), Reading("load")>>]
Writing == [Other EXCEPT !.steps = <<[name |-> "load", reads |-> FALSE]>>]
TooWide == [Plain EXCEPT !.parallel = 5]

MCCandidate == {Plain, Wider, TwoNames, Writing, TooWide}
MCBundle == {<<Plain, Explicit, Other, Writing>>, <<Wider, Writing>>}

----------------------------------------------------------------------------
(* BI objects of one kind: two requests, of an administrator or a user,    *)
(* about two identifiers.                                                  *)

----------------------------------------------------------------------------
(* Settings: two requests and one crash.  A save writes the rows in one    *)
(* order; a form may leave its keys empty or name an index there is not.   *)

CONSTANT key

MCInputs ==
    {[llm |-> key, embedding |-> key, index |-> "odd", warm |-> FALSE],
     [llm |-> key, embedding |-> "unset", index |-> "flat", warm |-> TRUE]}

MCOrders == {<<"llm", "embedding", "index", "warm", "maintenance", "password">>}

----------------------------------------------------------------------------
(* Snapshots: a request and a job, one write, two stops.  Logins: three at *)
(* once, of an account with two spellings; three failures lock one.        *)

----------------------------------------------------------------------------

ServicesInit ==
    /\ part \in {"pipelines", "settings", "snapshots", "logins", "records"} \cup Objects!Kind
    /\ Pipes!Init /\ (part # "pipelines" => bundle = <<>>)
    /\ Tuning!Init /\ (part # "settings" => memory.index = "flat")
    /\ Objects!Init /\ \A k \in Objects!Kind \ {part} : table[k] = {}
    /\ Restores!Init /\ Logins!Init /\ Init

Pipelines == /\ part = "pipelines" /\ Pipes!Next
             /\ UNCHANGED <<objects, settings, snapshots, logins, records>>

BIObjects == /\ part \in Objects!Kind /\ Objects!Next
             /\ \A r \in Req : biOp'[r] # Objects!Idle => biOp'[r].kind = part
             /\ UNCHANGED <<pipelines, settings, snapshots, logins, records>>

RuntimeSettings == /\ part = "settings" /\ Tuning!Next
                   /\ UNCHANGED <<pipelines, objects, snapshots, logins, records>>

Snapshots == /\ part = "snapshots" /\ Restores!Next
             /\ UNCHANGED <<pipelines, objects, settings, logins, records>>

LoginForm == /\ part = "logins" /\ Logins!Next
             /\ UNCHANGED <<pipelines, objects, settings, snapshots, records>>

RecordForms == /\ part = "records" /\ Next
               /\ UNCHANGED <<pipelines, objects, settings, snapshots, logins>>

ServicesNext ==
    /\ UNCHANGED part
    /\ Pipelines \/ BIObjects \/ RuntimeSettings \/ Snapshots \/ LoginForm \/ RecordForms

ServicesSpec ==
    ServicesInit /\ [][ServicesNext]_<<part, pipelines, objects, settings, snapshots, logins, records>>
=============================================================================
