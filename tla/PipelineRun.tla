---------------------------- MODULE PipelineRun ----------------------------
(***************************************************************************)
(* One run of a pipeline: the worker pool of executePipelineSteps, its     *)
(* channels, its cancellation, and the record of the run (runPipeline).    *)
(*                                                                         *)
(* Goroutines interleave at their channel operations.  The jobs channel is *)
(* unbuffered, so handing a step over is one step of the producer and of   *)
(* the worker together; the results channel has room for every step.  A    *)
(* select with several cases ready may take any of them.                   *)
(*                                                                         *)
(* Definitions whose name says what they leave out are mutations of the    *)
(* definition that follows them; the model does not use them.              *)
(***************************************************************************)
EXTENDS Naturals, Sequences, FiniteSets

CONSTANTS
    StepCount,      \* steps of the pipeline
    MaxParallelism  \* maxPipelineParallelism

ASSUME RunAssumption == StepCount \in Nat \ {0} /\ MaxParallelism \in Nat \ {0}

Steps == 1..StepCount

Workers == 1..MaxParallelism

VARIABLES
    parallel,     \* pipeline.MaxParallelism, as validated
    interrupted,  \* ctx is done: the query timeout has passed, or the client is gone
    cancelled,    \* cancel has been called
    next,         \* the step the producer offers next
    jobsOpen,     \* the producer has not closed the jobs channel
    worker,       \* worker[w]: where the goroutine is, its step and its outcome
    results,      \* what the results channel holds
    resultsOpen,  \* it has not been closed
    outcome,      \* completed and lineageByIndex of the collector
    firstErr,     \* the step firstErr is about, 0 if it is nil
    status,       \* run.Status once the pool is done
    lineage,      \* the outcomes runPipeline records
    recordable,   \* recordCtx is not done
    recorded      \* the record has been stored, "lost", or "no" so far

pool == <<parallel, cancelled, next, jobsOpen, worker, results, resultsOpen, outcome, firstErr>>
vars == <<pool, interrupted, status, lineage, recordable, recorded>>

\* workCtx is derived from the background, not from the request.
StoppedByFailureOnly == cancelled

\* workCtx is done.
Stopped == cancelled \/ interrupted

\* As many workers as there are steps to run at once.
WorkerCount == IF parallel > StepCount THEN StepCount ELSE parallel

AtWork(w) == worker[w].at # "gone"

Goes(w, at, i, o) == worker' = [worker EXCEPT ![w] = [at |-> at, step |-> i, outcome |-> o]]

----------------------------------------------------------------------------
(* The producer *)

\* A worker that is waiting takes the next step, even if the run has been
\* cancelled by now.
Handover(w) ==
    /\ worker[w].at = "waiting"
    /\ jobsOpen /\ next <= StepCount
    /\ Goes(w, "running", next, "none")
    /\ next' = next + 1
    /\ UNCHANGED <<parallel, interrupted, cancelled, jobsOpen, results, resultsOpen, outcome,
                   firstErr, status, lineage, recordable, recorded>>

\* The producer only looks at the workers, never at the context.
ProducerEndsOnlyWhenDone ==
    /\ jobsOpen
    /\ next > StepCount
    /\ jobsOpen' = FALSE
    /\ UNCHANGED <<parallel, interrupted, cancelled, next, worker, results, resultsOpen,
                   outcome, firstErr, status, lineage, recordable, recorded>>

\* Everything has been offered, or the run is cancelled: defer close(jobs).
ProducerEnds ==
    /\ jobsOpen
    /\ next > StepCount \/ Stopped
    /\ jobsOpen' = FALSE
    /\ UNCHANGED <<parallel, interrupted, cancelled, next, worker, results, resultsOpen,
                   outcome, firstErr, status, lineage, recordable, recorded>>

----------------------------------------------------------------------------
(* The workers *)

\* executePipelineStep: the statement ends, well or not.
StepEnds(w) ==
    /\ worker[w].at = "running"
    /\ \E o \in {"succeeded", "failed"} : Goes(w, "reporting", worker[w].step, o)
    /\ UNCHANGED <<parallel, interrupted, cancelled, next, jobsOpen, results, resultsOpen,
                   outcome, firstErr, status, lineage, recordable, recorded>>

\* make(chan pipelineWorkResult, len(pipeline.Steps))
Room == StepCount

Report(w) ==
    /\ worker[w].at = "reporting"
    /\ Len(results) < Room
    /\ results' = Append(results, [step |-> worker[w].step, outcome |-> worker[w].outcome])
    /\ Goes(w, "waiting", 0, "none")
    /\ UNCHANGED <<parallel, interrupted, cancelled, next, jobsOpen, resultsOpen,
                   outcome, firstErr, status, lineage, recordable, recorded>>

WorkerStops(w) ==
    /\ worker[w].at = "waiting"
    /\ Stopped \/ ~jobsOpen
    /\ Goes(w, "gone", 0, "none")
    /\ UNCHANGED <<parallel, interrupted, cancelled, next, jobsOpen, results, resultsOpen,
                   outcome, firstErr, status, lineage, recordable, recorded>>

\* The results are closed when there is no more work.
CloseResultsWithJobs ==
    /\ resultsOpen
    /\ ~jobsOpen
    /\ resultsOpen' = FALSE
    /\ UNCHANGED <<parallel, interrupted, cancelled, next, jobsOpen, worker, results,
                   outcome, firstErr, status, lineage, recordable, recorded>>

\* workers.Wait(); close(results)
CloseResults ==
    /\ resultsOpen
    /\ \A w \in Workers : ~AtWork(w)
    /\ resultsOpen' = FALSE
    /\ UNCHANGED <<parallel, interrupted, cancelled, next, jobsOpen, worker, results,
                   outcome, firstErr, status, lineage, recordable, recorded>>

----------------------------------------------------------------------------
(* The collector *)

\* for result := range results; the first failure cancels the others.
Collect ==
    /\ status = "running" /\ results # <<>>
    /\ LET r == Head(results) IN
       /\ outcome' = [outcome EXCEPT ![r.step] = r.outcome]
       /\ IF r.outcome = "failed" /\ firstErr = 0
          THEN firstErr' = r.step /\ cancelled' = TRUE
          ELSE UNCHANGED <<firstErr, cancelled>>
    /\ results' = Tail(results)
    /\ UNCHANGED <<parallel, interrupted, next, jobsOpen, worker, resultsOpen, status,
                   lineage, recordable, recorded>>

\* The collector stops at the first error.
NothingMoreAfterError == results = <<>> /\ (~resultsOpen \/ firstErr # 0)

\* The range over the channel is over.
NothingMore == results = <<>> /\ ~resultsOpen

\* The lineage in definition order, and the deferred cancel.
Settle ==
    /\ status = "running" /\ NothingMore
    /\ status' = IF firstErr # 0 \/ interrupted THEN "failed" ELSE "succeeded"
    /\ lineage' = [i \in Steps |-> IF outcome[i] # "none" THEN outcome[i]
                                   ELSE IF status' = "failed" THEN "skipped" ELSE "missing"]
    /\ cancelled' = TRUE
    /\ UNCHANGED <<parallel, interrupted, next, jobsOpen, worker, results, resultsOpen,
                   outcome, firstErr, recordable, recorded>>

\* recordPipelineRun: a statement with an expired context does not run.
Record ==
    /\ status # "running" /\ recorded = "no"
    /\ recorded' = IF recordable THEN "stored" ELSE "lost"
    /\ UNCHANGED <<pool, interrupted, status, lineage, recordable>>

----------------------------------------------------------------------------
(* Time, and the client *)

Interrupt ==
    /\ ~interrupted /\ recorded = "no"
    /\ interrupted' = TRUE
    /\ UNCHANGED <<pool, status, lineage, recordable, recorded>>

\* recordCtx starts with the run, not with the recording: five seconds later it
\* is done, whatever the query timeout is.
RecordExpires ==
    /\ recordable /\ recorded = "no"
    /\ recordable' = FALSE
    /\ UNCHANGED <<pool, interrupted, status, lineage, recorded>>

Init ==
    /\ parallel \in 1..MaxParallelism
    /\ interrupted = FALSE /\ cancelled = FALSE
    /\ next = 1 /\ jobsOpen = TRUE
    /\ worker = [w \in Workers |-> [at |-> IF w <= WorkerCount THEN "waiting" ELSE "gone",
                                    step |-> 0, outcome |-> "none"]]
    /\ results = <<>> /\ resultsOpen = TRUE
    /\ outcome = [i \in Steps |-> "none"]
    /\ firstErr = 0
    /\ status = "running"
    /\ lineage = [i \in Steps |-> "none"]
    /\ recordable = TRUE /\ recorded = "no"

\* The run is over and its goroutines are gone.
Over == recorded # "no" /\ ~jobsOpen /\ UNCHANGED vars

Next ==
    \/ \E w \in Workers : Handover(w) \/ StepEnds(w) \/ Report(w) \/ WorkerStops(w)
    \/ ProducerEnds \/ CloseResults
    \/ Collect \/ Settle \/ Record
    \/ Interrupt \/ RecordExpires
    \/ Over

\* Every goroutine that can go on does.  A statement may take for ever, but not
\* beyond the end of its context (tinySQL checks it); the query timeout, when one
\* is set, ends the context.
Fairness ==
    /\ \A w \in Workers : /\ WF_vars(Handover(w) \/ WorkerStops(w))
                          /\ WF_vars(Report(w))
                          /\ WF_vars(Stopped /\ StepEnds(w))
    /\ WF_vars(ProducerEnds) /\ WF_vars(CloseResults)
    /\ WF_vars(Collect) /\ WF_vars(Settle) /\ WF_vars(Record)
    /\ WF_vars(Interrupt)

Spec == Init /\ [][Next]_vars

FairSpec == Spec /\ Fairness

----------------------------------------------------------------------------
(* Type *)

Outcomes == {"none", "succeeded", "failed"}

\* Workers hold one step each, results name steps, and counters stay in range.
TypeOK ==
    /\ parallel \in 1..MaxParallelism
    /\ interrupted \in BOOLEAN /\ cancelled \in BOOLEAN /\ recordable \in BOOLEAN
    /\ jobsOpen \in BOOLEAN /\ resultsOpen \in BOOLEAN
    /\ next \in 1..(StepCount + 1)
    /\ worker \in [Workers -> [at : {"waiting", "running", "reporting", "gone"},
                               step : 0..StepCount, outcome : Outcomes]]
    /\ results \in Seq([step : Steps, outcome : Outcomes \ {"none"}])
    /\ outcome \in [Steps -> Outcomes]
    /\ firstErr \in 0..StepCount
    /\ status \in {"running", "succeeded", "failed"}
    /\ lineage \in [Steps -> Outcomes \cup {"skipped", "missing"}]
    /\ recorded \in {"no", "stored", "lost"}

----------------------------------------------------------------------------
(* Safety *)

\* A worker never waits to report ("so a worker can always report its terminal
\* outcome even when another worker cancelled", pipelines.go:530).
AlwaysRoom == \A w \in Workers : worker[w].at = "reporting" => Len(results) < Room

\* Nobody sends on the closed results channel, which would panic.
NoSendOnClosed == \A w \in Workers : AtWork(w) => resultsOpen

\* What becomes of step i, as far as the goroutines know together.
Fate(i) ==
    IF status # "running" THEN lineage[i]
    ELSE IF outcome[i] # "none" THEN outcome[i]
    ELSE IF \E k \in DOMAIN results : results[k].step = i
    THEN results[CHOOSE k \in DOMAIN results : results[k].step = i].outcome
    ELSE IF \E w \in Workers : worker[w].step = i
    THEN LET w == CHOOSE w \in Workers : worker[w].step = i IN
         IF worker[w].at = "running" THEN "running" ELSE worker[w].outcome
    ELSE "pending"

Promise == INSTANCE PipelinePromise WITH
    outcome <- [i \in Steps |-> Fate(i)],
    verdict <- status

\* The pool keeps the promise of README.md:465-469: the declared order, the
\* bound, one outcome per step, and an honest status.
KeepsPromise == Promise!Spec

\* Every run leaves a record, also one that was cancelled or timed out
\* (pipelines.go:479, "losing its status record at exactly that moment would
\* defeat the point of run lineage").
EveryRunRecorded == recorded # "lost"

----------------------------------------------------------------------------
(* Liveness *)

\* With a query timeout every run ends and its handler gets to record it.
RunEnds == <>(recorded # "no")

\* No goroutine outlives the run for ever.
GoroutinesEnd == <>[](~jobsOpen /\ ~resultsOpen /\ \A w \in Workers : ~AtWork(w))
=============================================================================
