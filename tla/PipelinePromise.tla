--------------------------- MODULE PipelinePromise ---------------------------
(***************************************************************************)
(* What a run of a pipeline promises its caller: the steps start in the    *)
(* declared order, a bounded number of them at once, every step ends up    *)
(* with exactly one outcome, only a step that never started counts as      *)
(* skipped, and the run has succeeded only if every step has.              *)
(***************************************************************************)
EXTENDS Naturals, FiniteSets

CONSTANTS
    StepCount,      \* steps of the pipeline
    MaxParallelism  \* maxPipelineParallelism

VARIABLES
    parallel,     \* the pipeline's MaxParallelism
    interrupted,  \* the query timeout has passed, or the client is gone
    outcome,      \* outcome[i] of step i
    verdict       \* the run's status

promised == <<parallel, interrupted, outcome, verdict>>

Steps == 1..StepCount

Init ==
    /\ parallel \in 1..MaxParallelism
    /\ interrupted = FALSE
    /\ outcome = [i \in Steps |-> "pending"]
    /\ verdict = "running"

Start(i) ==
    /\ verdict = "running"
    /\ outcome[i] = "pending"
    /\ \A j \in 1..(i - 1) : outcome[j] # "pending"
    /\ Cardinality({j \in Steps : outcome[j] = "running"}) < parallel
    /\ outcome' = [outcome EXCEPT ![i] = "running"]
    /\ UNCHANGED <<parallel, interrupted, verdict>>

End(i) ==
    /\ outcome[i] = "running"
    /\ \E o \in {"succeeded", "failed"} : outcome' = [outcome EXCEPT ![i] = o]
    /\ UNCHANGED <<parallel, interrupted, verdict>>

Interrupt ==
    /\ interrupted' = TRUE
    /\ UNCHANGED <<parallel, outcome, verdict>>

\* Only a failed step or an interruption makes a run fail.
Settle ==
    /\ verdict = "running"
    /\ \A i \in Steps : outcome[i] # "running"
    /\ outcome' = [i \in Steps |-> IF outcome[i] = "pending" THEN "skipped" ELSE outcome[i]]
    /\ IF interrupted \/ \E i \in Steps : outcome[i] = "failed"
       THEN verdict' = "failed"
       ELSE verdict' = "succeeded" /\ \A i \in Steps : outcome[i] = "succeeded"
    /\ UNCHANGED <<parallel, interrupted>>

Next ==
    \/ \E i \in Steps : Start(i) \/ End(i)
    \/ Interrupt
    \/ Settle

Spec == Init /\ [][Next]_promised
=============================================================================
