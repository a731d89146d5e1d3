------------------------------ MODULE Settings ------------------------------
(***************************************************************************)
(* The runtime settings: the copy in memory, which one lock guards, and    *)
(* the row of each setting, which every statement writes through.          *)
(*                                                                         *)
(* A handler copies the settings, or reads those its form does not have    *)
(* one at a time, applies the result under the lock and saves whatever is  *)
(* in memory by then, row by row.  Only the applying is atomic.            *)
(*                                                                         *)
(* Definitions whose name says what they leave out are mutations of the    *)
(* definition that follows them; the model does not use them.              *)
(***************************************************************************)
EXTENDS Naturals, Sequences

CONSTANTS
    Req,          \* requests
    Startup,      \* main, before it serves requests
    Value,        \* texts of settings: models, API keys, password hashes
    Inputs,       \* what the settings forms send
    Orders,       \* bound: orders in which a save ranges over its map of settings
    MaxRequests,  \* bound: requests
    MaxCrashes    \* bound: crashes

Unset == "unset"

\* The settings told apart: the LLM's and those of its kind, which both forms have;
\* the embedding provider's; the vector index; what has handlers of its own.
Setting == {"llm", "embedding", "index", "warm", "maintenance", "password"}

Actor == Req \cup {Startup}

VARIABLES
    memory,   \* the settings in App
    stored,   \* stored[k]: the rows of setting k, in insertion order
    op,       \* op[r]: what request r, or main, is doing
    synced,   \* the last change was stored to the end by a request that ran alone
    lost,     \* a restart found no row of the password (history variables)
    requests, \* requests and crashes so far
    crashes

vars == <<memory, stored, op, synced, lost, requests, crashes>>

Idle == [at |-> "idle", alone |-> FALSE]

At(r, step) == op[r].at = step

Goes(r, o) == op' = [op EXCEPT ![r] = o]

----------------------------------------------------------------------------
(* Values *)

\* What applyRuntimeSettings refuses, and what it makes of the rest.
IsRefused(s) == s.index = "odd"

Applied(s) == [s EXCEPT !.index = IF @ = Unset THEN "flat" ELSE @,
                        !.warm = @ /\ s.index = "hnsw"]

\* The settings main starts with before it has read any.
Flags == [llm |-> Unset, embedding |-> Unset, index |-> Unset, warm |-> FALSE,
          maintenance |-> FALSE, password |-> Unset]

\* What a missing row reads as, and the value of a setting in the rows: of two
\* rows the later one counts.
Missing(k) == IF k \in {"warm", "maintenance"} THEN FALSE ELSE Unset

FromRow(k) == IF stored[k] = <<>> THEN Missing(k) ELSE stored[k][Len(stored[k])]

FromStoredWithoutIndex ==
    [k \in Setting |-> IF k = "index" THEN Unset ELSE FromRow(k)]

\* runtimeSettingsFromStoredValues, merged with flags that are not set.
FromStored == IF \A k \in Setting : stored[k] = <<>>
              THEN Flags ELSE [k \in Setting |-> FromRow(k)]

----------------------------------------------------------------------------
(* Reading and applying *)

Alone(r) == \A p \in Req \ {r} : At(p, "idle")

\* A request begins; those that are going on have company from now on.
Begin(r, o) ==
    /\ At(Startup, "idle") /\ At(r, "idle")
    /\ requests < MaxRequests /\ requests' = requests + 1
    /\ op' = [q \in Actor |->
                IF q = r THEN o ELSE [op[q] EXCEPT !.alone = FALSE]]

\* The handlers that copy all settings and change some.
Copy(r, s) ==
    /\ Begin(r, [at |-> "apply", s |-> s, alone |-> Alone(r)])
    /\ UNCHANGED <<memory, stored, synced, lost, crashes>>

ToggleMaintenance(r) == Copy(r, [memory EXCEPT !.maintenance = ~@])

SetMaintenance(r, on) == Copy(r, [memory EXCEPT !.maintenance = on])

ChangePassword(r, hash) == Copy(r, [memory EXCEPT !.password = hash])

AutoConfigure(r, llm) == Copy(r, [memory EXCEPT !.llm = llm])

\* The key that the HTML form keeps if its field is left empty.
KeptKey(form, in) == IF form = "html" /\ in.embedding = Unset THEN <<"embedding">> ELSE <<>>

CarriedWithoutPassword(form, in) == KeptKey(form, in) \o <<"maintenance">>

\* What a form carries over, in this order: a key it leaves empty, and what it has
\* no field for.  The JSON form has no embedding field and forgets to carry it.
Carried(form, in) == KeptKey(form, in) \o <<"password", "maintenance">>

\* What a form sends; the JSON form has neither embedding nor index fields.
Sent(form, in) ==
    LET s == [k \in Setting |-> IF k \in DOMAIN in THEN in[k] ELSE Missing(k)]
    IN  IF form = "html" THEN s
        ELSE [s EXCEPT !.embedding = Unset, !.index = Unset, !.warm = FALSE]

\* adminSettingsHandler ("html") and apiAdminSettingsHandler ("json").
Submit(r, form, in) ==
    /\ Begin(r, [at |-> "carry", s |-> Sent(form, in), todo |-> Carried(form, in),
                 alone |-> Alone(r)])
    /\ UNCHANGED <<memory, stored, synced, lost, crashes>>

Carry(r) ==
    /\ At(r, "carry")
    /\ IF op[r].todo = <<>>
       THEN Goes(r, [at |-> "apply", s |-> op[r].s, alone |-> op[r].alone])
       ELSE LET k == Head(op[r].todo)
            IN  Goes(r, [op[r] EXCEPT !.s[k] = memory[k], !.todo = Tail(@)])
    /\ UNCHANGED <<memory, stored, synced, lost, requests, crashes>>

\* applyRuntimeSettings: refused, or all of it under the lock.
Apply(r) ==
    /\ At(r, "apply")
    /\ IF IsRefused(op[r].s)
       THEN Goes(r, Idle) /\ UNCHANGED <<memory, synced>>
       ELSE /\ memory' = Applied(op[r].s)
            /\ Goes(r, [at |-> "save", alone |-> op[r].alone])
            /\ synced' = FALSE
    /\ UNCHANGED <<stored, lost, requests, crashes>>

----------------------------------------------------------------------------
(* Saving *)

\* saveRuntimeSettings reads the settings again and ranges over its map of them.
SaveBegin(r) ==
    /\ At(r, "save")
    /\ \E order \in Orders :
          Goes(r, [at |-> "delete", s |-> memory, todo |-> order, alone |-> op[r].alone])
    /\ UNCHANGED <<memory, stored, synced, lost, requests, crashes>>

DeleteNothing(r) ==
    /\ At(r, "delete")
    /\ Goes(r, [op[r] EXCEPT !.at = "insert"])
    /\ UNCHANGED <<memory, stored, synced, lost, requests, crashes>>

\* saveSetting deletes the rows of one setting ...
Delete(r) ==
    /\ At(r, "delete")
    /\ stored' = [stored EXCEPT ![Head(op[r].todo)] = <<>>]
    /\ Goes(r, [op[r] EXCEPT !.at = "insert"])
    /\ UNCHANGED <<memory, synced, lost, requests, crashes>>

\* ... and inserts the new one; after the last one the request is over.
Insert(r) ==
    /\ At(r, "insert")
    /\ LET k == Head(op[r].todo)
       IN  stored' = [stored EXCEPT ![k] = Append(@, op[r].s[k])]
    /\ IF Len(op[r].todo) = 1
       THEN Goes(r, Idle) /\ synced' = op[r].alone
       ELSE /\ Goes(r, [op[r] EXCEPT !.at = "delete", !.todo = Tail(@)])
            /\ UNCHANGED synced
    /\ UNCHANGED <<memory, lost, requests, crashes>>

\* A statement fails: the request ends with an error, what it did so far stays.
\* At startup that is fatal.
SaveFail(r) ==
    /\ r # Startup /\ op[r].at \in {"delete", "insert"}
    /\ Goes(r, Idle)
    /\ UNCHANGED <<memory, stored, synced, lost, requests, crashes>>

----------------------------------------------------------------------------
(* Starting *)

\* The process ends, at any point, and starts again: main loads the rows, applies
\* them and saves them before it serves.
Restart ==
    /\ crashes < MaxCrashes /\ crashes' = crashes + 1
    /\ memory' = Applied(FromStored)
    /\ op' = [r \in Actor |-> IF r = Startup THEN [at |-> "save", alone |-> TRUE] ELSE Idle]
    /\ synced' = FALSE
    /\ lost' = (lost \/ stored.password = <<>>)
    /\ UNCHANGED <<stored, requests>>

\* A server that has been set up, with its settings stored.
Init ==
    /\ \E hash \in Value, key \in Value, i \in {"flat", "hnsw"} :
          memory = [Applied(Flags) EXCEPT !.password = hash, !.embedding = key,
                                          !.index = i, !.warm = (i = "hnsw")]
    /\ stored = [k \in Setting |-> <<memory[k]>>]
    /\ op = [r \in Actor |-> Idle]
    /\ synced = TRUE /\ lost = FALSE /\ requests = 0 /\ crashes = 0

Next ==
    \/ \E r \in Req :
        \/ ToggleMaintenance(r)
        \/ \E on \in BOOLEAN : SetMaintenance(r, on)
        \/ \E hash \in Value : ChangePassword(r, hash)
        \/ \E llm \in Value : AutoConfigure(r, llm)
        \/ \E form \in {"html", "json"}, in \in Inputs : Submit(r, form, in)
        \/ Carry(r) \/ Apply(r)
    \/ \E r \in Actor : SaveBegin(r) \/ Delete(r) \/ Insert(r) \/ SaveFail(r)
    \/ Restart

Spec == Init /\ [][Next]_vars

----------------------------------------------------------------------------
(* What makes it correct *)

\* After a request that ran alone and stored its settings, the rows are what memory
\* holds, one row each: no setting is forgotten or doubled by the row-by-row save
\* (saveRuntimeSettings), whatever earlier requests left behind when they failed.
SavedWhenAlone == synced => \A k \in Setting : stored[k] = <<memory[k]>>

\* What was stored like that is what the next start works with: reading the rows,
\* merging the flags and applying changes nothing (loadRuntimeSettings, main).
RestartKeeps == [][crashes' > crashes /\ synced => memory' = memory]_vars

\* However the forms, the toggles and the password change interleave, and however often
\* the server restarts, the password hash is never wiped; "saving any other setting here
\* would silently wipe it" if it were not carried over (handlers.go 1038-1041).  Only a
\* restart between the delete and the insert of its row loses it.
PasswordKept == ~lost => memory.password # Unset
=============================================================================
