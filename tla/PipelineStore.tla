--------------------------- MODULE PipelineStore ---------------------------
(***************************************************************************)
(* The saved pipelines: their versions, the bundles that carry them from   *)
(* one installation to another, and the history of their runs.             *)
(*                                                                         *)
(* Every statement against the metadata tables is a step of its own: a     *)
(* save reads the history and then inserts, an import does so once per     *)
(* definition, a run loads its definition and is recorded when it is over. *)
(* No lock is held in between.                                             *)
(*                                                                         *)
(* Definitions whose name says what they leave out are mutations of the    *)
(* definition that follows them; the model does not use them.              *)
(***************************************************************************)
EXTENDS Integers, Sequences, FiniteSets

CONSTANTS
    Req,             \* requests
    Writers,         \* those that save or import; the others run pipelines
    Name,            \* pipeline names, trimmed
    Candidate,       \* definitions as they are sent: [name, parallel, steps], each step
                     \* a name and whether its query only reads
    Bundle,          \* bundles written elsewhere, as sequences of definitions
    MaxParallelism,  \* maxPipelineParallelism
    MaxSteps,        \* maxPipelineSteps
    MaxRows,         \* bound: definition rows
    MaxRuns,         \* bound: recorded runs
    MaxDeletes       \* bound: deletions of one name

VARIABLES
    rows,     \* __datadock_pipelines: [name, version, def]; of equal ones, one stands for all
    runs,     \* __datadock_pipeline_runs: [name, version], and what they ran
    bundle,   \* the definitions of the last exported bundle, or one from elsewhere
    op,       \* op[r]: what request r is doing
    deletes   \* deletes[n]: how often pipeline n was deleted (history variable)

vars == <<rows, runs, bundle, op, deletes>>

Idle == [at |-> "idle"]

At(r, step) == op[r].at = step

Goes(r, o) == op' = [op EXCEPT ![r] = o]

----------------------------------------------------------------------------
(* Definitions *)

Definition == [name : Name, parallel : Int, steps : Seq([name : STRING, reads : BOOLEAN])]

\* validatePipelineDefinition accepts it.
IsValid(d) ==
    /\ d.parallel <= MaxParallelism
    /\ Len(d.steps) \in 1..MaxSteps
    /\ \A i, j \in DOMAIN d.steps : i # j => d.steps[i].name # d.steps[j].name
    /\ \A i \in DOMAIN d.steps : d.steps[i].reads

\* What validatePipelineDefinition makes of a valid one.
Normalised(d) == [d EXCEPT !.parallel = IF @ <= 0 THEN 1 ELSE @]

DigestAsSent(d) == d

\* The digest covers the normalised definition; version and times are left out.
Digest(d) == Normalised(d)

----------------------------------------------------------------------------
(* History *)

\* The rows of one pipeline (listPipelineVersions), and those of its latest version.
History(n) == {row \in rows : row.name = n}

Latest(n) == {row \in History(n) : \A other \in History(n) : other.version <= row.version}

VersionByCount(n) == Cardinality(History(n)) + 1

\* The version a save gives.
NextVersion(n) ==
    IF History(n) = {} THEN 1 ELSE (CHOOSE row \in Latest(n) : TRUE).version + 1

\* The rows a load may return; a version of 0 or less asks for the latest.
Loaded(n, version) ==
    IF version <= 0 THEN Latest(n) ELSE {row \in History(n) : row.version = version}

Saved(n) == {Digest(row.def) : row \in History(n)}

----------------------------------------------------------------------------
(* Saving *)

\* savePipeline up to its insert; rest is what an import has left to do.
ReadVersion(r, d, importing, rest, known) ==
    Goes(r, [at |-> "insert", def |-> Normalised(d), version |-> NextVersion(d.name),
             importing |-> importing, rest |-> rest, known |-> known])

Save(r, d) ==
    /\ At(r, "idle") /\ r \in Writers
    /\ IsValid(d)
    /\ ReadVersion(r, d, FALSE, <<>>, {})
    /\ UNCHANGED <<rows, runs, bundle, deletes>>

\* The insert of savePipeline: the end of a save, one definition of an import.
Insert(r) ==
    /\ At(r, "insert") /\ Cardinality(rows) < MaxRows
    /\ rows' = rows \cup {[name |-> op[r].def.name, version |-> op[r].version,
                           def |-> op[r].def]}
    /\ IF op[r].rest = <<>>
       THEN Goes(r, Idle)
       ELSE Goes(r, [at |-> "check", rest |-> op[r].rest,
                     known |-> op[r].known \cup {Digest(op[r].def)}])
    /\ UNCHANGED <<runs, bundle, deletes>>

\* The statement fails or the query timeout passes: what has been inserted stays.
Fail(r) ==
    /\ op[r].at \in {"insert", "check", "version"}
    /\ Goes(r, Idle)
    /\ UNCHANGED <<rows, runs, bundle, deletes>>

\* deletePipeline removes every version; the runs stay.
Delete(n) ==
    /\ deletes[n] < MaxDeletes
    /\ rows' = rows \ History(n)
    /\ deletes' = [deletes EXCEPT ![n] = @ + 1]
    /\ UNCHANGED <<runs, bundle, op>>

----------------------------------------------------------------------------
(* Bundles *)

\* The rows in an order of names and, within a name, versions; which of the names comes
\* first does not matter here.
Listings ==
    {s \in [1..Cardinality(rows) -> rows] :
        \A i, j \in DOMAIN s : i < j =>
            /\ s[i] # s[j]
            /\ s[i].name = s[j].name =>
                  /\ s[i].version <= s[j].version
                  /\ \A k \in i..j : s[k].name = s[i].name}

\* writePipelineBundle: every version of every pipeline.
Export ==
    /\ \E s \in Listings : bundle' = [i \in DOMAIN s |-> s[i].def]
    /\ UNCHANGED <<rows, runs, op, deletes>>

ImportBegin(r) ==
    /\ At(r, "idle") /\ r \in Writers
    /\ bundle # <<>>
    /\ Goes(r, [at |-> "check", rest |-> bundle, known |-> {}])
    /\ UNCHANGED <<rows, runs, bundle, deletes>>

\* What is known of the pipeline of the next definition: the history is read when
\* its name comes up first, as the digests already known then all bear other names.
KnownFor(r, n) ==
    IF \E k \in op[r].known : k.name = n THEN op[r].known ELSE op[r].known \cup Saved(n)

\* One definition of a bundle: refused (which ends the import), skipped, or saved.
ImportCheck(r) ==
    /\ At(r, "check")
    /\ LET d == Head(op[r].rest)
           known == KnownFor(r, d.name)
           rest == Tail(op[r].rest)
       IN  Goes(r, IF ~IsValid(d) THEN Idle
                   ELSE IF Digest(d) \notin known
                        THEN [at |-> "version", def |-> d, rest |-> rest, known |-> known]
                   ELSE IF rest = <<>> THEN Idle
                   ELSE [at |-> "check", rest |-> rest, known |-> known])
    /\ UNCHANGED <<rows, runs, bundle, deletes>>

\* savePipeline on behalf of an import reads the history again.
ImportVersion(r) ==
    /\ At(r, "version")
    /\ ReadVersion(r, op[r].def, TRUE, op[r].rest, op[r].known)
    /\ UNCHANGED <<rows, runs, bundle, deletes>>

----------------------------------------------------------------------------
(* Running *)

\* runPipeline loads the definition, validates it again and executes it.
RunLoad(r, n, version) ==
    /\ At(r, "idle") /\ r \notin Writers
    /\ \E row \in Loaded(n, version) :
          /\ IsValid(row.def)
          /\ Goes(r, [at |-> "run", name |-> n, version |-> row.version,
                      ran |-> row.def, deletes |-> deletes[n]])
    /\ UNCHANGED <<rows, runs, bundle, deletes>>

\* recordPipelineRun, or its failure.
RunEnd(r) ==
    /\ At(r, "run")
    /\ \/ /\ Cardinality(runs) < MaxRuns
          /\ runs' = runs \cup {[name |-> op[r].name, version |-> op[r].version,
                                 ran |-> op[r].ran, deletes |-> op[r].deletes]}
       \/ UNCHANGED runs
    /\ Goes(r, Idle)
    /\ UNCHANGED <<rows, bundle, deletes>>

----------------------------------------------------------------------------

Init ==
    /\ rows = {} /\ runs = {}
    /\ bundle \in Bundle \cup {<<>>}
    /\ op = [r \in Req |-> Idle]
    /\ deletes = [n \in Name |-> 0]

Next ==
    \/ \E r \in Req :
        \/ \E d \in Candidate : Save(r, d)
        \/ Insert(r) \/ Fail(r)
        \/ ImportBegin(r) \/ ImportCheck(r) \/ ImportVersion(r)
        \/ \E n \in Name, version \in 0..MaxRows : RunLoad(r, n, version)
        \/ RunEnd(r)
    \/ \E n \in Name : Delete(n)
    \/ Export

Spec == Init /\ [][Next]_vars

----------------------------------------------------------------------------
(* What makes it correct *)

\* The definitions stored under the version a run names.
Named(run) == {row.def : row \in {row \in rows : row.name = run.name /\ row.version = run.version}}

\* Until its pipeline is deleted, a recorded run names exactly the definition it
\* ran, whatever was saved, imported or deleted while it was on (savePipeline
\* appends, it never reuses a version: pipelines.go 179-180).
RunTraceable == \A run \in runs : run.deletes = deletes[run.name] => Named(run) = {run.ran}

\* Importing never stores again what is stored already, also when an earlier
\* import of the same bundle stopped half way (readPipelineBundle deduplicates by
\* digest, "for idempotent imports").
ImportAddsNew ==
    [][\A r \in Req :
         At(r, "insert") /\ op[r].importing /\ op'[r] # op[r]
         => \A new \in rows' \ rows, old \in rows : Normalised(old.def) # new.def]_vars
=============================================================================
