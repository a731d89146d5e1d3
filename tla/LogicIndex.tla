----------------------------- MODULE LogicIndex -----------------------------
(***************************************************************************)
(* The search index over the views and routines of a connection.  A        *)
(* reindex is a goroutine that outlives the request: it reads the catalog  *)
(* and the definitions, embeds those that changed and replaces their rows, *)
(* a statement at a time, while definitions and settings change and the    *)
(* connection may be forgotten.                                            *)
(*                                                                         *)
(* Definitions whose name says what they leave out are mutations of the    *)
(* definition that follows them; the model does not use them.              *)
(***************************************************************************)
EXTENDS Naturals

CONSTANTS
    Task,       \* reindexes that may be started
    Object,     \* views and routines
    Text,       \* definitions, as their hashes
    Model,      \* embedding models
    MaxChanges  \* bound: changes of anything by others

NoText == "no text"
None == [object |-> "none", text |-> NoText]

VARIABLES
    catalog,    \* catalog[o]: the definition of o in the database, or NoText
    model,      \* the embedding model of the settings
    registered, \* the connection is registered
    running,    \* logicIndexing: the number of tasks that set its flag
    rows,       \* the stored rows: object, text, and the model they are stored under
    op,         \* op[t]: what task t is doing
    exact,      \* nothing failed or changed while the last reindex ran, nor since
                \* (history variable, as are the fields sound)
    changes

vars == <<catalog, model, registered, running, rows, op, exact, changes>>

Idle == [at |-> "idle", sound |-> FALSE]

At(t, step) == op[t].at = step

Goes(t, o) == op' = [op EXCEPT ![t] = o]

----------------------------------------------------------------------------
(* Others *)

Changes ==
    /\ changes < MaxChanges /\ changes' = changes + 1
    /\ exact' = FALSE
    /\ op' = [t \in Task |-> [op[t] EXCEPT !.sound = FALSE]]

\* A view or routine is created, altered or dropped, or the ID comes to name another
\* database.
Alter(o, text) ==
    /\ catalog[o] # text
    /\ catalog' = [catalog EXCEPT ![o] = text]
    /\ Changes
    /\ UNCHANGED <<model, registered, running, rows>>

ChangeModel(m) ==
    /\ model # m /\ model' = m
    /\ Changes
    /\ UNCHANGED <<catalog, registered, running, rows>>

Register ==
    /\ ~registered /\ registered' = TRUE
    /\ Changes
    /\ UNCHANGED <<catalog, model, running, rows>>

\* adminForgetConnectionHandler: the connection goes, and then its rows do, unless that
\* fails.
Forget ==
    /\ registered /\ registered' = FALSE
    /\ rows' \in {{}, rows}
    /\ Changes
    /\ UNCHANGED <<catalog, model, running>>

----------------------------------------------------------------------------
(* A reindex *)

\* startReindexConnectionLogic refuses while the flag of the connection is set.
Admits == running = 0

Start(t) ==
    /\ At(t, "idle") /\ registered /\ Admits
    /\ running' = running + 1
    /\ Goes(t, [at |-> "resolve", sound |-> TRUE])
    /\ exact' = FALSE
    /\ UNCHANGED <<catalog, model, registered, rows, changes>>

\* reindexConnectionLogic resolves the connection again, takes the client of the model
\* and lists the catalog.
Resolve(t) ==
    /\ At(t, "resolve")
    /\ IF registered
       THEN Goes(t, [at |-> "fetch", sound |-> op[t].sound, defs |-> {},
                     left |-> {o \in Object : catalog[o] # NoText}])
       ELSE Goes(t, [at |-> "end", sound |-> FALSE])
    /\ UNCHANGED <<catalog, model, registered, running, rows, exact, changes>>

\* One definition; one that cannot be fetched is left out, and its row will go.
Fetch(t) ==
    /\ At(t, "fetch") /\ op[t].left # {}
    /\ \E o \in op[t].left :
          LET left == op[t].left \ {o}
          IN  Goes(t, IF catalog[o] = NoText
                      THEN [op[t] EXCEPT !.left = left, !.sound = FALSE]
                      ELSE [op[t] EXCEPT !.left = left,
                                         !.defs = @ \cup {[object |-> o, text |-> catalog[o]]}])
    /\ UNCHANGED <<catalog, model, registered, running, rows, exact, changes>>

UnchangedUnderAnyModel(defs) ==
    {d \in defs : \E row \in rows : row.object = d.object /\ row.text = d.text}

\* The definitions whose hash is stored under the model.
Unchanged(defs) ==
    {d \in defs : \E row \in rows : /\ row.object = d.object /\ row.text = d.text
                                    /\ row.model = model}

\* applyLogicIndex, with the model as it is now: what is to be embedded.
Compare(t) ==
    /\ At(t, "fetch") /\ op[t].left = {}
    /\ Goes(t, [at |-> "delete", sound |-> op[t].sound, model |-> model,
                todo |-> op[t].defs \ Unchanged(op[t].defs), d |-> None,
                seen |-> {d.object : d \in op[t].defs}])
    /\ UNCHANGED <<catalog, model, registered, running, rows, exact, changes>>

\* One of a batch: its old row goes, under whatever model, and the new one comes.
Delete(t) ==
    /\ At(t, "delete")
    /\ \E d \in op[t].todo :
          /\ rows' = {row \in rows : row.object # d.object}
          /\ Goes(t, [op[t] EXCEPT !.at = "insert", !.todo = @ \ {d}, !.d = d])
    /\ UNCHANGED <<catalog, model, registered, running, exact, changes>>

Insert(t) ==
    /\ At(t, "insert")
    /\ rows' = rows \cup {[object |-> op[t].d.object, text |-> op[t].d.text,
                            model |-> op[t].model]}
    /\ Goes(t, [op[t] EXCEPT !.at = "delete", !.d = None])
    /\ UNCHANGED <<catalog, model, registered, running, exact, changes>>

\* The provider fails for a batch, or a statement does: the error is reported and the
\* next object taken.
Fail(t) ==
    /\ op[t].at \in {"delete", "insert"}
    /\ \/ /\ At(t, "insert") /\ Goes(t, [op[t] EXCEPT !.at = "delete", !.d = None, !.sound = FALSE])
       \/ \E d \in op[t].todo :
             /\ At(t, "delete")
             /\ Goes(t, [op[t] EXCEPT !.todo = @ \ {d}, !.sound = FALSE])
    /\ UNCHANGED <<catalog, model, registered, running, rows, exact, changes>>

\* The rows of objects that are no longer there; one whose deletion fails stays, and
\* nothing is reported.
Prune(t) ==
    /\ At(t, "delete") /\ op[t].todo = {}
    /\ LET stale == {row \in rows : row.object \notin op[t].seen}
       IN  \E kept \in SUBSET stale :
              /\ rows' = (rows \ stale) \cup kept
              /\ Goes(t, [at |-> "end", sound |-> op[t].sound /\ kept = {}])
    /\ UNCHANGED <<catalog, model, registered, running, exact, changes>>

\* The goroutine clears the flag and stores its report.
End(t) ==
    /\ At(t, "end")
    /\ running' = running - 1
    /\ exact' = op[t].sound
    /\ Goes(t, Idle)
    /\ UNCHANGED <<catalog, model, registered, rows, changes>>

Init ==
    /\ catalog \in [Object -> {CHOOSE text \in Text : TRUE, NoText}]
    /\ model = CHOOSE m \in Model : TRUE
    /\ registered = TRUE /\ running = 0 /\ rows = {}
    /\ op = [t \in Task |-> Idle] /\ exact = FALSE /\ changes = 0

Next ==
    \/ \E t \in Task : \/ Start(t) \/ Resolve(t) \/ Fetch(t) \/ Compare(t)
                       \/ Delete(t) \/ Insert(t) \/ Fail(t) \/ Prune(t) \/ End(t)
    \/ \E o \in Object, text \in Text \cup {NoText} : Alter(o, text)
    \/ \E m \in Model : ChangeModel(m)
    \/ Register \/ Forget

Spec == Init /\ [][Next]_vars

----------------------------------------------------------------------------
(* What makes it correct *)

\* After a reindex without errors in which nothing changed, the index is what the catalog
\* holds, under the present model and with one row each, whatever earlier reindexes, other
\* models and failures left in it (applyLogicIndex).
IndexExact ==
    exact => rows
             = {[object |-> o, text |-> catalog[o], model |-> model]
                : o \in {x \in Object : catalog[x] # NoText}}

=============================================================================
