------------------------- MODULE PipelineRunProofs -------------------------
(***************************************************************************)
(* Proof, for any number of steps and workers, that the worker pool keeps  *)
(* the promise of PipelinePromise, that no goroutine sends on the closed   *)
(* channel and that no worker waits to report.                             *)
(***************************************************************************)
EXTENDS PipelineRun, FiniteSetTheorems, TLAPS

Busy(w) == worker[w].at \in {"running", "reporting"}

Reported(i) == \E k \in DOMAIN results : results[k].step = i

Held(i) == \E w \in Workers : Busy(w) /\ worker[w].step = i

\* A worker has a step while it works on it, and an outcome once it has ended.
WorkersFit ==
    \A w \in Workers :
        /\ Busy(w) => worker[w].step \in 1..(next - 1)
        /\ ~Busy(w) => worker[w].step = 0
        /\ worker[w].at = "reporting" => worker[w].outcome # "none"
        /\ w > WorkerCount => worker[w].at = "gone"

\* A step that was handed over is at one place: a worker, the channel or the
\* collector.
OnePlace ==
    /\ \A v, w \in Workers : Busy(v) /\ Busy(w) /\ worker[v].step = worker[w].step => v = w
    /\ \A j, k \in DOMAIN results : results[j].step = results[k].step => j = k
    /\ \A i \in Steps : Reported(i) => i < next /\ ~Held(i)
    /\ \A i \in Steps : outcome[i] # "none" => i < next /\ ~Held(i) /\ ~Reported(i)
    /\ \A i \in Steps : i < next => Held(i) \/ Reported(i) \/ outcome[i] # "none"

\* Work only stops early for a reason the collector knows.
StopsForAReason ==
    /\ ~resultsOpen => \A w \in Workers : ~AtWork(w)
    /\ (\E w \in 1..WorkerCount : ~AtWork(w)) /\ ~Stopped => ~jobsOpen
    /\ ~jobsOpen /\ ~Stopped => next > StepCount
    /\ cancelled => firstErr # 0 \/ status # "running"
    /\ firstErr # 0 <=> \E i \in Steps : outcome[i] = "failed"
    /\ status # "running" => ~resultsOpen /\ results = <<>>

RunInv == TypeOK /\ WorkersFit /\ OnePlace /\ StopsForAReason

----------------------------------------------------------------------------
(* The results channel *)

\* What is sent comes last.
LEMMA SendFacts ==
    ASSUME NEW S, NEW s \in Seq(S), NEW e \in S
    PROVE  /\ Append(s, e) \in Seq(S)
           /\ DOMAIN Append(s, e) = DOMAIN s \cup {Len(s) + 1}
           /\ Len(s) + 1 \notin DOMAIN s
           /\ \A k \in DOMAIN s : Append(s, e)[k] = s[k]
           /\ Append(s, e)[Len(s) + 1] = e
OBVIOUS

\* What is received was first.
LEMMA ReceiveFacts ==
    ASSUME NEW S, NEW s \in Seq(S), s # <<>>
    PROVE  /\ Tail(s) \in Seq(S) /\ Head(s) \in S
           /\ 1 \in DOMAIN s /\ Head(s) = s[1]
           /\ \A k \in DOMAIN Tail(s) : k + 1 \in DOMAIN s /\ k + 1 # 1 /\ Tail(s)[k] = s[k + 1]
           /\ \A k \in DOMAIN s : k # 1 =>
                 k - 1 \in DOMAIN Tail(s) /\ Tail(s)[k - 1] = s[k]
OBVIOUS

\* A sequence is a function on its indices.
LEMMA IndexFacts ==
    ASSUME NEW S, NEW s \in Seq(S)
    PROVE  Len(s) \in Nat /\ DOMAIN s = 1..Len(s) /\ \A k \in DOMAIN s : s[k] \in S
OBVIOUS

\* One to n are n numbers.
LEMMA CountTo ==
    ASSUME NEW n \in Nat
    PROVE  IsFiniteSet(1..n) /\ Cardinality(1..n) = n
<1>1. IsFiniteSet(1..n) /\ Cardinality(1..n) = IF 1 > n THEN 0 ELSE n - 1 + 1
  BY FS_Interval
<1> QED BY <1>1

\* What is in the channel names steps and says how they ended.
LEMMA ResultFacts ==
    ASSUME TypeOK
    PROVE  \A k \in DOMAIN results :
              results[k].step \in Steps /\ results[k].outcome \in {"succeeded", "failed"}
<1>1. results \in Seq([step : Steps, outcome : Outcomes \ {"none"}])
  BY DEF TypeOK
<1>2. \A k \in DOMAIN results : results[k] \in [step : Steps, outcome : Outcomes \ {"none"}]
  BY <1>1, IndexFacts, Zenon
<1> QED BY <1>2 DEF Outcomes

----------------------------------------------------------------------------
(* The invariant *)

Places == [at : {"waiting", "running", "reporting", "gone"}, step : 0..StepCount,
           outcome : Outcomes]

\* A goroutine's own step leaves the other goroutines where they are (Goes).
LEMMA GoesFacts ==
    ASSUME TypeOK, NEW w \in Workers, NEW at \in {"waiting", "running", "reporting", "gone"},
           NEW i \in 0..StepCount, NEW o \in Outcomes, Goes(w, at, i, o)
    PROVE  /\ worker' \in [Workers -> Places]
           /\ worker'[w].at = at /\ worker'[w].step = i /\ worker'[w].outcome = o
           /\ \A v \in Workers : v # w => worker'[v] = worker[v]
BY DEF TypeOK, Goes, Places

\* Taking a step: it was offered to nobody before.
LEMMA HandoverInv ==
    ASSUME RunInv, NEW w \in Workers, Handover(w)
    PROVE  RunInv'
<1> USE RunAssumption DEF RunInv, Handover, Steps, Workers, Outcomes
<1>1. next \in Steps /\ next \in 0..StepCount /\ next' = next + 1 /\ TypeOK
  BY DEF TypeOK
<1>2. /\ worker' \in [Workers -> Places]
      /\ worker'[w].at = "running" /\ worker'[w].step = next /\ worker'[w].outcome = "none"
      /\ \A v \in Workers : v # w => worker'[v] = worker[v]
  BY <1>1, GoesFacts
<1>3. TypeOK'
  BY <1>1, <1>2 DEF TypeOK, Places
<1>4. \A i \in Steps : Held(i)' <=> Held(i) \/ i = next
  BY <1>1, <1>2 DEF Held, Busy
<1>5. \A i \in Steps : Reported(i)' <=> Reported(i)
  BY DEF Reported
<1>6. WorkersFit'
  <2> SUFFICES ASSUME NEW v \in Workers
               PROVE  /\ Busy(v)' => worker'[v].step \in 1..(next' - 1)
                      /\ ~Busy(v)' => worker'[v].step = 0
                      /\ worker'[v].at = "reporting" => worker'[v].outcome # "none"
                      /\ v > WorkerCount' => worker'[v].at = "gone"
    BY DEF WorkersFit
  <2>1. WorkerCount' = WorkerCount
    BY DEF WorkerCount
  <2>2. CASE v = w
    BY <1>1, <1>2, <2>1, <2>2 DEF WorkersFit, Busy
  <2>3. CASE v # w
    BY <1>1, <1>2, <2>1, <2>3 DEF WorkersFit, Busy
  <2> QED BY <2>2, <2>3
<1>7. OnePlace'
  <2>1. \A u, v \in Workers :
           Busy(u)' /\ Busy(v)' /\ worker'[u].step = worker'[v].step => u = v
    BY <1>1, <1>2 DEF OnePlace, WorkersFit, Busy
  <2>2. /\ \A j, k \in DOMAIN results' : results'[j].step = results'[k].step => j = k
        /\ \A i \in Steps : i < next' <=> i < next \/ i = next
    BY <1>1 DEF OnePlace
  <2>3. ~Reported(next) /\ outcome[next] = "none"
    BY <1>1 DEF OnePlace
  <2> QED BY <1>1, <1>4, <1>5, <2>1, <2>2, <2>3 DEF OnePlace
<1>8. StopsForAReason'
  <2>1. \A v \in Workers : AtWork(v)' <=> AtWork(v)
    BY <1>2 DEF AtWork
  <2>2. AtWork(w)
    BY DEF AtWork
  <2>3. 1..WorkerCount \subseteq Workers /\ WorkerCount' = WorkerCount
    BY <1>1 DEF WorkerCount, TypeOK
  <2>4. /\ ~resultsOpen' => \A v \in Workers : ~AtWork(v)'
        /\ (\E v \in 1..WorkerCount' : ~AtWork(v)') /\ ~Stopped' => ~jobsOpen'
    BY <2>1, <2>2, <2>3 DEF StopsForAReason, Stopped
  <2> QED BY <1>1, <2>4 DEF StopsForAReason, Stopped
<1> QED BY <1>3, <1>6, <1>7, <1>8

\* A statement that ends stays with its worker until it is reported.
LEMMA StepEndsInv ==
    ASSUME RunInv, NEW w \in Workers, StepEnds(w)
    PROVE  RunInv'
<1> USE RunAssumption DEF RunInv, StepEnds, Steps, Workers, Outcomes
<1>1. PICK o \in {"succeeded", "failed"} : Goes(w, "reporting", worker[w].step, o)
  OBVIOUS
<1>2. TypeOK /\ worker[w].step \in 0..StepCount
  BY DEF TypeOK
<1>3. /\ worker' \in [Workers -> Places]
      /\ worker'[w].at = "reporting" /\ worker'[w].step = worker[w].step /\ worker'[w].outcome = o
      /\ \A v \in Workers : v # w => worker'[v] = worker[v]
  BY <1>1, <1>2, GoesFacts
<1>4. TypeOK'
  BY <1>3 DEF TypeOK, Places
<1>5. \A v \in Workers : (Busy(v)' <=> Busy(v)) /\ worker'[v].step = worker[v].step
                         /\ (AtWork(v)' <=> AtWork(v))
  BY <1>3 DEF Busy, AtWork
<1>6. \A i \in Steps : (Held(i)' <=> Held(i)) /\ (Reported(i)' <=> Reported(i))
  BY <1>5 DEF Held, Reported
<1>7. WorkersFit'
  BY <1>3, <1>5 DEF WorkersFit, WorkerCount, Busy
<1>8. OnePlace'
  BY <1>5, <1>6 DEF OnePlace
<1>9. StopsForAReason'
  BY <1>5, <1>2 DEF StopsForAReason, WorkerCount, Stopped, TypeOK
<1> QED BY <1>4, <1>7, <1>8, <1>9

\* Reporting moves the step from the worker to the channel.
LEMMA ReportInv ==
    ASSUME RunInv, NEW w \in Workers, Report(w)
    PROVE  RunInv'
<1> USE RunAssumption DEF RunInv, Report, Steps, Workers, Outcomes
<1> DEFINE result == [step |-> worker[w].step, outcome |-> worker[w].outcome]
<1>1. TypeOK /\ Busy(w) /\ result \in [step : Steps, outcome : Outcomes \ {"none"}]
  BY DEF TypeOK, WorkersFit, Busy
<1>2. /\ worker' \in [Workers -> Places]
      /\ worker'[w].at = "waiting" /\ worker'[w].step = 0 /\ worker'[w].outcome = "none"
      /\ \A v \in Workers : v # w => worker'[v] = worker[v]
  BY <1>1, GoesFacts
<1>3. /\ results' \in Seq([step : Steps, outcome : Outcomes \ {"none"}])
      /\ DOMAIN results' = DOMAIN results \cup {Len(results) + 1}
      /\ Len(results) + 1 \notin DOMAIN results
      /\ \A k \in DOMAIN results : results'[k] = results[k]
      /\ results'[Len(results) + 1].step = worker[w].step
  <2>1. /\ results \in Seq([step : Steps, outcome : Outcomes \ {"none"}])
        /\ results' = Append(results, result)
    BY DEF TypeOK
  <2>2. result.step = worker[w].step
    OBVIOUS
  <2> HIDE DEF result
  <2> QED BY <1>1, <2>1, <2>2, SendFacts
<1>4. TypeOK'
  BY <1>2, <1>3 DEF TypeOK, Places
<1>5. \A i \in Steps : /\ Held(i)' <=> Held(i) /\ i # worker[w].step
                       /\ Reported(i)' <=> Reported(i) \/ i = worker[w].step
  <2> SUFFICES ASSUME NEW i \in Steps
               PROVE  /\ Held(i)' <=> Held(i) /\ i # worker[w].step
                      /\ Reported(i)' <=> Reported(i) \/ i = worker[w].step
    OBVIOUS
  <2>1. Held(i)' <=> Held(i) /\ i # worker[w].step
    <3>1. /\ ~Busy(w)'
          /\ \A v \in Workers : v # w => (Busy(v)' <=> Busy(v)) /\ worker'[v].step = worker[v].step
      BY <1>2 DEF Busy
    <3>2. \A v \in Workers : v # w /\ Busy(v) => worker[v].step # worker[w].step
      BY <1>1 DEF OnePlace
    <3> QED BY <1>1, <3>1, <3>2 DEF Held
  <2>2. Reported(i)' <=> Reported(i) \/ i = worker[w].step
    BY <1>3 DEF Reported
  <2> QED BY <2>1, <2>2
<1>6. ~Reported(worker[w].step) /\ outcome[worker[w].step] = "none" /\ worker[w].step < next
  BY <1>1 DEF OnePlace, Held, WorkersFit, TypeOK
<1>7. WorkersFit'
  BY SMTT(60), <1>1, <1>2 DEF WorkersFit, WorkerCount, Busy
<1>8. OnePlace'
  <2>1. \A j, k \in DOMAIN results' : results'[j].step = results'[k].step => j = k
    BY <1>3, <1>6 DEF OnePlace, Reported
  <2>2. \A u, v \in Workers :
           Busy(u)' /\ Busy(v)' /\ worker'[u].step = worker'[v].step => u = v
    BY <1>2 DEF OnePlace, Busy
  <2> QED BY <1>5, <1>6, <2>1, <2>2 DEF OnePlace
<1>9. StopsForAReason'
  <2>1. \A v \in Workers : AtWork(v)' <=> AtWork(v)
    BY <1>2 DEF AtWork
  <2>2. AtWork(w)
    BY DEF AtWork
  <2> QED BY <1>1, <2>1, <2>2 DEF StopsForAReason, WorkerCount, Stopped, TypeOK
<1> QED BY <1>4, <1>7, <1>8, <1>9

\* A worker that stops has seen the end of the jobs or of the context.
LEMMA WorkerStopsInv ==
    ASSUME RunInv, NEW w \in Workers, WorkerStops(w)
    PROVE  RunInv'
<1> USE RunAssumption DEF RunInv, WorkerStops, Steps, Workers, Outcomes
<1>1. TypeOK /\ ~Busy(w) /\ WorkerCount' = WorkerCount
  BY DEF Busy, WorkerCount
<1>2. /\ worker' \in [Workers -> Places]
      /\ worker'[w].at = "gone" /\ worker'[w].step = 0 /\ worker'[w].outcome = "none"
      /\ \A v \in Workers : v # w => worker'[v] = worker[v]
  BY <1>1, GoesFacts
<1>3. TypeOK'
  BY <1>2 DEF TypeOK, Places
<1>4. \A v \in Workers : (Busy(v)' <=> Busy(v)) /\ (Busy(v) => worker'[v] = worker[v])
  BY <1>1, <1>2 DEF Busy
<1>5. \A i \in Steps : (Held(i)' <=> Held(i)) /\ (Reported(i)' <=> Reported(i))
  BY <1>4 DEF Held, Reported
<1>6. WorkersFit'
  BY <1>1, <1>2 DEF WorkersFit, Busy
<1>7. OnePlace'
  BY <1>4, <1>5 DEF OnePlace
<1>8. StopsForAReason'
  <2>1. \A v \in Workers : ~AtWork(v) => ~AtWork(v)'
    BY <1>2 DEF AtWork
  <2>2. AtWork(w)
    BY DEF AtWork
  <2> QED BY <2>1, <2>2 DEF StopsForAReason, Stopped
<1> QED BY <1>3, <1>6, <1>7, <1>8

\* Collecting moves the step from the channel to the collector.
LEMMA CollectInv ==
    ASSUME RunInv, Collect
    PROVE  RunInv'
<1> USE RunAssumption DEF RunInv, Collect, Steps, Workers, Outcomes
<1> DEFINE first == Head(results)
<1>1. /\ TypeOK /\ WorkerCount' = WorkerCount /\ first = results[1] /\ 1 \in DOMAIN results
      /\ first \in [step : Steps, outcome : {"succeeded", "failed"}]
  BY ReceiveFacts DEF TypeOK, WorkerCount
<1>2. /\ results' \in Seq([step : Steps, outcome : Outcomes \ {"none"}])
      /\ \A k \in DOMAIN results' : k + 1 \in DOMAIN results /\ k + 1 # 1
                                   /\ results'[k] = results[k + 1]
      /\ \A k \in DOMAIN results : k # 1 =>
            k - 1 \in DOMAIN results' /\ results'[k - 1] = results[k]
  BY ReceiveFacts DEF TypeOK
<1>3. outcome' = [outcome EXCEPT ![first.step] = first.outcome]
  OBVIOUS
<1>4. TypeOK'
  <2>1. outcome' \in [Steps -> Outcomes]
    BY <1>1, <1>3 DEF TypeOK
  <2>2. \/ firstErr' = first.step /\ cancelled' = TRUE
        \/ firstErr' = firstErr /\ cancelled' = cancelled
    OBVIOUS
  <2>3. UNCHANGED <<parallel, interrupted, next, jobsOpen, worker, resultsOpen, status,
                    lineage, recordable, recorded>>
    OBVIOUS
  <2>4. /\ first.step \in 0..StepCount
        /\ firstErr \in 0..StepCount /\ cancelled \in BOOLEAN
    BY <1>1 DEF TypeOK
  <2>5. firstErr' \in 0..StepCount /\ cancelled' \in BOOLEAN
    <3> HIDE DEF Collect, first, RunInv
    <3>1. CASE firstErr' = first.step /\ cancelled' = TRUE
      BY <2>4, <3>1, Zenon
    <3>2. CASE firstErr' = firstErr /\ cancelled' = cancelled
      BY <2>4, <3>2, Zenon
    <3> QED BY <2>2, <3>1, <3>2
  <2> HIDE DEF Collect, first
  <2> QED BY <1>1, <1>2, <2>1, <2>3, <2>5 DEF TypeOK
<1>5. Reported(first.step) /\ outcome[first.step] = "none"
  BY <1>1 DEF Reported, OnePlace
<1>6. \A i \in Steps : /\ Held(i)' <=> Held(i)
                       /\ Reported(i)' <=> Reported(i) /\ i # first.step
                       /\ outcome'[i] # "none" <=> outcome[i] # "none" \/ i = first.step
  <2> SUFFICES ASSUME NEW i \in Steps
               PROVE  /\ Held(i)' <=> Held(i)
                      /\ Reported(i)' <=> Reported(i) /\ i # first.step
                      /\ outcome'[i] # "none" <=> outcome[i] # "none" \/ i = first.step
    OBVIOUS
  <2>1. Held(i)' <=> Held(i)
    BY DEF Held, Busy
  <2>2. Reported(i)' => Reported(i) /\ i # first.step
    BY <1>1, <1>2 DEF Reported, OnePlace, TypeOK
  <2>3. Reported(i) /\ i # first.step => Reported(i)'
    BY <1>1, <1>2 DEF Reported
  <2>4. outcome'[i] # "none" <=> outcome[i] # "none" \/ i = first.step
    BY <1>1, <1>3 DEF TypeOK
  <2> QED BY <2>1, <2>2, <2>3, <2>4
<1>7. WorkersFit'
  BY <1>1 DEF WorkersFit, Busy
<1>8. OnePlace'
  <2>1. \A j, k \in DOMAIN results' : results'[j].step = results'[k].step => j = k
    BY <1>2 DEF OnePlace, TypeOK
  <2> QED BY <1>1, <1>5, <1>6, <2>1 DEF OnePlace, Busy
<1>9. StopsForAReason'
  <2>1. firstErr' # 0 <=> \E i \in Steps : outcome'[i] = "failed"
    BY <1>1, <1>3, <1>5 DEF StopsForAReason, TypeOK
  <2> QED BY <1>1, <2>1 DEF StopsForAReason, AtWork, Stopped, TypeOK
<1> QED BY <1>4, <1>7, <1>8, <1>9

\* Steps that leave the workers, the channel and the collector alone.
LEMMA OtherInv ==
    ASSUME RunInv, \/ ProducerEnds \/ CloseResults \/ Settle \/ Record
                   \/ Interrupt \/ RecordExpires \/ UNCHANGED vars
    PROVE  RunInv'
<1> USE RunAssumption DEF RunInv, Steps, Workers, Outcomes
<1>1. UNCHANGED <<parallel, next, worker, results, outcome, firstErr>>
  BY DEF ProducerEnds, CloseResults, Settle, Record, Interrupt, RecordExpires, pool, vars
<1>2. TypeOK'
  <2>1. lineage' \in [Steps -> Outcomes \cup {"skipped", "missing"}]
    BY DEF ProducerEnds, CloseResults, Settle, Record, Interrupt, RecordExpires, pool, vars, TypeOK
  <2> QED BY ZenonT(60), <1>1, <2>1 DEF ProducerEnds, CloseResults, Settle, Record, Interrupt,
             RecordExpires, pool, vars, TypeOK
<1>3. WorkersFit' /\ OnePlace'
  BY <1>1 DEF WorkersFit, OnePlace, Busy, Held, Reported, WorkerCount
<1>4. /\ WorkerCount' = WorkerCount /\ 1..WorkerCount \subseteq Workers
      /\ \A w \in Workers : AtWork(w)' <=> AtWork(w)
  BY <1>1 DEF WorkerCount, AtWork, TypeOK
<1>5. /\ Stopped => Stopped'
      /\ ~jobsOpen => ~jobsOpen'
      /\ ~resultsOpen => ~resultsOpen'
      /\ jobsOpen /\ ~jobsOpen' => next > StepCount \/ Stopped
      /\ resultsOpen /\ ~resultsOpen' => \A w \in Workers : ~AtWork(w)
      /\ cancelled' /\ ~cancelled => status' # "running"
      /\ status # "running" => status' # "running"
      /\ status' # "running" /\ status = "running" => ~resultsOpen /\ results = <<>>
  BY SMTT(60) DEF ProducerEnds, CloseResults, Settle, Record, Interrupt, RecordExpires, pool, vars,
     Stopped, NothingMore, TypeOK
<1>6. StopsForAReason'
  BY <1>1, <1>4, <1>5 DEF StopsForAReason
<1> QED BY <1>2, <1>3, <1>6

\* When the pool starts nobody has a step.
LEMMA RunInit == Init => RunInv
<1> SUFFICES ASSUME Init PROVE RunInv
  OBVIOUS
<1> USE RunAssumption DEF Init, Steps, Workers, Outcomes
<1> DEFINE At(w) == IF w <= WorkerCount THEN "waiting" ELSE "gone"
<1>1. \A w \in Workers : worker[w].at = At(w) /\ worker[w].step = 0 /\ worker[w].outcome = "none"
  OBVIOUS
<1>2. TypeOK
  <2>1. \A w \in Workers : [at |-> At(w), step |-> 0, outcome |-> "none"] \in Places
    BY DEF Places
  <2>2. worker \in [Workers -> Places]
    BY <2>1
  <2>3. results \in Seq([step : Steps, outcome : Outcomes \ {"none"}])
    OBVIOUS
  <2>4. /\ next \in 1..(StepCount + 1) /\ firstErr \in 0..StepCount
        /\ outcome \in [Steps -> Outcomes]
        /\ lineage \in [Steps -> Outcomes \cup {"skipped", "missing"}]
    OBVIOUS
  <2> HIDE DEF At
  <2> QED BY <2>2, <2>3, <2>4 DEF TypeOK, Places
<1>3. WorkersFit
  <2>1. WorkerCount \in Nat
    BY DEF WorkerCount
  <2> QED BY <1>1, <2>1 DEF WorkersFit, Busy
<1>4. OnePlace
  BY DEF OnePlace, Busy, Held, Reported
<1>5. StopsForAReason
  BY DEF StopsForAReason, AtWork, Stopped, WorkerCount
<1> QED BY <1>2, <1>3, <1>4, <1>5 DEF RunInv

\* Every step keeps the invariant.
LEMMA RunStep == RunInv /\ [Next]_vars => RunInv'
BY HandoverInv, StepEndsInv, ReportInv, WorkerStopsInv, CollectInv, OtherInv DEF Next, Over

\* The invariant holds in every reachable state.
LEMMA RunAlways == Spec => []RunInv
BY RunInit, RunStep, PTL DEF Spec

\* The state of a run is always of its type, for any number of steps and workers.
THEOREM Types == Spec => []TypeOK
BY RunAlways, PTL DEF RunInv

\* No goroutine sends on the results channel after it was closed
\* (pipelines.go:551), for any number of steps and workers.
THEOREM NoSend == Spec => []NoSendOnClosed
<1>1. RunInv => NoSendOnClosed
  BY DEF RunInv, StopsForAReason, NoSendOnClosed
<1> QED BY <1>1, RunAlways, PTL

\* The steps in the channel are distinct and differ from the one a worker is
\* about to report, so there are fewer of them than steps.
LEMMA RoomLeft == RunInv => AlwaysRoom
<1> SUFFICES ASSUME RunInv, NEW w \in Workers, worker[w].at = "reporting"
             PROVE  Len(results) < StepCount
  BY DEF AlwaysRoom, Room
<1> USE RunAssumption DEF RunInv
<1> DEFINE mine == worker[w].step
           places == 1..Len(results)
           f == [k \in places |-> results[k].step]
<1>1. /\ mine \in Steps /\ Len(results) \in Nat /\ places = DOMAIN results
      /\ \A k \in DOMAIN results : results[k].step \in Steps
  <2>1. results \in Seq([step : Steps, outcome : Outcomes \ {"none"}])
    BY DEF TypeOK
  <2>2. /\ Len(results) \in Nat /\ places = DOMAIN results
        /\ \A k \in DOMAIN results : results[k] \in [step : Steps, outcome : Outcomes \ {"none"}]
    BY <2>1, IndexFacts, ZenonT(60)
  <2>3. mine \in 1..(next - 1) /\ next \in 1..(StepCount + 1)
    BY DEF TypeOK, WorkersFit, Busy
  <2>4. mine \in Steps
    BY <2>3 DEF Steps
  <2> QED BY <2>2, <2>4
<1>2. ~Reported(mine)
  BY <1>1 DEF OnePlace, Held, Busy
<1>3. \A j, k \in places : results[j].step = results[k].step => j = k
  BY <1>1 DEF OnePlace
<1>4. f \in Injection(places, Steps \ {mine})
  BY <1>1, <1>2, <1>3 DEF Injection, IsInjective, Reported
<1>5. IsFiniteSet(Steps) /\ Cardinality(Steps) = StepCount
  BY CountTo DEF Steps
<1>6. IsFiniteSet(Steps \ {mine}) /\ Cardinality(Steps \ {mine}) = StepCount - 1
  BY <1>1, <1>5, FS_RemoveElement
<1>7. IsFiniteSet(places) /\ Cardinality(places) = Len(results)
  BY <1>1, CountTo
<1> HIDE DEF f, mine, places
<1>8. Cardinality(places) <= Cardinality(Steps \ {mine})
  BY <1>4, <1>6, FS_Injection
<1> QED BY <1>1, <1>6, <1>7, <1>8

\* A worker can always report its outcome without waiting (pipelines.go:530),
\* for any number of steps and workers.
THEOREM RoomForResults == Spec => []AlwaysRoom
BY RoomLeft, RunAlways, PTL

----------------------------------------------------------------------------
(* The promise *)

\* Where a step is decides its fate.
FateFacts ==
    \A i \in Steps :
        /\ status # "running" => Fate(i) = lineage[i]
        /\ status = "running" =>
            /\ outcome[i] # "none" => Fate(i) = outcome[i]
            /\ \A k \in DOMAIN results : results[k].step = i => Fate(i) = results[k].outcome
            /\ \A w \in Workers : Busy(w) /\ worker[w].step = i =>
                  Fate(i) = IF worker[w].at = "running" THEN "running" ELSE worker[w].outcome
            /\ i >= next => Fate(i) = "pending"

\* The choices Fate makes have one candidate.
LEMMA FateIs == RunInv => FateFacts
<1> SUFFICES ASSUME RunInv, NEW i \in Steps, status = "running"
             PROVE  /\ outcome[i] # "none" => Fate(i) = outcome[i]
                    /\ \A k \in DOMAIN results : results[k].step = i => Fate(i) = results[k].outcome
                    /\ \A w \in Workers : Busy(w) /\ worker[w].step = i =>
                          Fate(i) = IF worker[w].at = "running" THEN "running"
                                    ELSE worker[w].outcome
                    /\ i >= next => Fate(i) = "pending"
  BY DEF FateFacts, Fate
<1> USE RunAssumption DEF RunInv, Steps
<1>0. next \in Nat /\ i \in Nat
  BY DEF TypeOK
<1>1. outcome[i] # "none" => Fate(i) = outcome[i]
  BY DEF Fate
<1>2. ASSUME NEW k \in DOMAIN results, results[k].step = i
      PROVE  Fate(i) = results[k].outcome
  <2> DEFINE c == CHOOSE j \in DOMAIN results : results[j].step = i
  <2>1. outcome[i] = "none"
    BY <1>2 DEF OnePlace, Reported
  <2>2. c = k
    BY <1>2 DEF OnePlace
  <2> QED BY <1>2, <2>1, <2>2 DEF Fate
<1>3. ASSUME NEW w \in Workers, Busy(w), worker[w].step = i
      PROVE  Fate(i) = IF worker[w].at = "running" THEN "running" ELSE worker[w].outcome
  <2> DEFINE c == CHOOSE v \in Workers : worker[v].step = i
  <2>1. outcome[i] = "none" /\ ~Reported(i)
    BY <1>3 DEF OnePlace, Held
  <2>2. \A v \in Workers : worker[v].step = i => Busy(v)
    BY DEF WorkersFit
  <2>3. c = w
    BY <1>3, <2>2 DEF OnePlace
  <2> QED BY <1>3, <2>1, <2>3 DEF Fate, Reported
<1>4. ASSUME i >= next
      PROVE  Fate(i) = "pending"
  <2>1. outcome[i] = "none" /\ ~Reported(i)
    BY <1>0, <1>4 DEF OnePlace
  <2>2. \A w \in Workers : worker[w].step # i
    BY <1>0, <1>4 DEF WorkersFit
  <2> QED BY <2>1, <2>2 DEF Fate, Reported
<1> QED BY <1>1, <1>2, <1>3, <1>4

\* Steps that run are held by different workers, and one worker waits.
LEMMA SlotFree ==
    ASSUME RunInv, FateFacts, status = "running",
           NEW w \in Workers, worker[w].at = "waiting"
    PROVE  Cardinality({i \in Steps : Fate(i) = "running"}) < parallel
<1> USE RunAssumption DEF RunInv
<1> DEFINE running == {i \in Steps : Fate(i) = "running"}
           others == (1..WorkerCount) \ {w}
           Holder(i) == CHOOSE v \in others : worker[v].at = "running" /\ worker[v].step = i
           f == [i \in running |-> Holder(i)]
<1>1. /\ WorkerCount \in Nat /\ WorkerCount <= parallel /\ 1..WorkerCount \subseteq Workers
      /\ parallel \in Nat
  BY DEF WorkerCount, Workers, TypeOK
<1>2. w \in 1..WorkerCount
  BY <1>1 DEF WorkersFit, Workers
<1>3. ASSUME NEW i \in running
      PROVE  \E v \in others : worker[v].at = "running" /\ worker[v].step = i
  <2>1. i \in Steps /\ Fate(i) = "running"
    OBVIOUS
  <2>2. outcome[i] = "none"
    BY <2>1 DEF FateFacts, TypeOK, Outcomes
  <2>3. ~Reported(i)
    <3> SUFFICES ASSUME NEW k \in DOMAIN results, results[k].step = i
                 PROVE  FALSE
      BY DEF Reported
    <3>1. Fate(i) = results[k].outcome
      BY <2>1 DEF FateFacts
    <3>3. results[k].outcome # "running"
      BY ResultFacts
    <3> QED BY <2>1, <3>1, <3>3
  <2>4. i < next
    <3>1. next \in Nat /\ i \in Nat
      BY <2>1 DEF TypeOK, Steps
    <3>2. ~(i >= next)
      BY <2>1 DEF FateFacts
    <3> HIDE DEF RunInv
    <3> QED BY <3>1, <3>2
  <2>5. PICK v \in Workers : Busy(v) /\ worker[v].step = i
    BY <2>1, <2>2, <2>3, <2>4 DEF OnePlace, Held
  <2>6. worker[v].at = "running"
    BY <2>1, <2>5 DEF FateFacts, TypeOK, Outcomes
  <2>7. v \in 1..WorkerCount /\ v # w
    BY <1>1, <2>6 DEF WorkersFit, Workers
  <2> QED BY <2>5, <2>6, <2>7
<1>4. \A i \in running : Holder(i) \in others /\ worker[Holder(i)].step = i
  BY <1>3
<1>5. f \in Injection(running, others)
  BY <1>4 DEF Injection, IsInjective
<1>6. IsFiniteSet(1..WorkerCount) /\ Cardinality(1..WorkerCount) = WorkerCount
  BY <1>1, CountTo
<1>7. IsFiniteSet(others) /\ Cardinality(others) = WorkerCount - 1
  BY ZenonT(60), <1>2, <1>6, FS_RemoveElement
<1>8. IsFiniteSet(running) /\ Cardinality(running) <= Cardinality(others)
  <2> HIDE DEF f, running, others
  <2> QED BY <1>5, <1>7, FS_Injection
<1>9. Cardinality(running) \in Nat
  BY <1>8, FS_CardinalityType
<1> HIDE DEF running, others
<1>10. Cardinality(running) < parallel
  BY <1>1, <1>7, <1>8, <1>9
<1> QED BY <1>10 DEF running

\* The promise counts as the pool does.
LEMMA SameCount == \A S : Promise!Cardinality(S) = Cardinality(S)
BY DEF Promise!Cardinality, Cardinality

\* Handing a step over starts it.
LEMMA HandoverStarts ==
    ASSUME RunInv, RunInv', FateFacts, FateFacts', NEW w \in Workers, Handover(w),
           NEW n, n = next
    PROVE  n \in Steps /\ Promise!Start(n)
<1> USE RunAssumption DEF RunInv
<1>1. status = "running" /\ status' = "running" /\ UNCHANGED <<parallel, interrupted, outcome, results>>
  BY DEF Handover, StopsForAReason, AtWork
<1>2. /\ n \in Steps /\ n \in Nat /\ next' = n + 1 /\ worker[w].at = "waiting"
      /\ worker'[w].at = "running" /\ worker'[w].step = n
      /\ \A v \in Workers : v # w => worker'[v] = worker[v]
  BY DEF Handover, TypeOK, Goes, Steps, Outcomes
<1>3. Fate(n) = "pending"
  BY <1>1, <1>2 DEF FateFacts, Steps
<1>4. Fate(n)' = "running"
  BY <1>1, <1>2 DEF FateFacts, Busy
<1>5. ASSUME NEW i \in Steps, i # n
      PROVE  /\ Fate(i)' = Fate(i)
             /\ i < n => Fate(i) # "pending"
  <2>1. CASE outcome[i] # "none"
    BY <1>1, <2>1 DEF FateFacts, TypeOK, Outcomes
  <2>2. ASSUME NEW k \in DOMAIN results, results[k].step = i
        PROVE  Fate(i)' = Fate(i) /\ Fate(i) # "pending"
    <3>1. results[k].outcome # "pending"
      BY <2>2, ResultFacts
    <3>2. Fate(i) = results[k].outcome /\ Fate(i)' = results'[k].outcome
      BY <1>1, <2>2 DEF FateFacts
    <3> QED BY <1>1, <3>1, <3>2
  <2>3. ASSUME NEW v \in Workers, Busy(v), worker[v].step = i
        PROVE  Fate(i)' = Fate(i) /\ Fate(i) # "pending"
    <3>1. v # w /\ worker'[v] = worker[v]
      BY <1>2, <2>3 DEF Busy
    <3>2. Fate(i)' = Fate(i)
      BY <1>1, <2>3, <3>1 DEF FateFacts, Busy
    <3>3. Fate(i) # "pending"
      BY SMTT(60), <1>1, <2>3 DEF FateFacts, TypeOK, Outcomes
    <3> QED BY <3>2, <3>3
  <2>4. CASE i > n
    BY <1>1, <1>2, <2>4 DEF FateFacts, Steps
  <2>5. i < n => outcome[i] # "none" \/ Reported(i) \/ Held(i)
    BY DEF OnePlace
  <2>6. i < n \/ i > n
    BY <1>2, <1>5 DEF Steps
  <2>7. CASE i < n
    BY <2>1, <2>2, <2>3, <2>5, <2>7 DEF Reported, Held
  <2> QED BY <1>2, <2>4, <2>6, <2>7 DEF Steps
<1>6. Cardinality({i \in Steps : Fate(i) = "running"}) < parallel
  BY <1>1, <1>2, SlotFree
<1>7. Promise!Steps = Steps
  BY DEF Promise!Steps, Steps
<1>8. \A j \in 1..(n - 1) : j \in Steps /\ Fate(j) # "pending"
  BY <1>2, <1>5 DEF Steps
<1>9. [i \in Steps |-> Fate(i)]' = [[i \in Steps |-> Fate(i)] EXCEPT ![n] = "running"]
  BY <1>2, <1>4, <1>5
<1> DEFINE F == [i \in Steps |-> Fate(i)]
<1> HIDE DEF RunInv
<1>10. F[n] = "pending" /\ \A j \in 1..(n - 1) : F[j] # "pending"
  BY <1>2, <1>3, <1>8
<1>11. {j \in Promise!Steps : F[j] = "running"} = {i \in Steps : Fate(i) = "running"}
  BY <1>7
<1>12. F' = [F EXCEPT ![n] = "running"]
  BY <1>9
<1>13. Cardinality({j \in Promise!Steps : F[j] = "running"}) < parallel
  BY <1>6, <1>11
<1>14. Promise!Start(n) <=>
         /\ status = "running"
         /\ F[n] = "pending"
         /\ \A j \in 1..(n - 1) : F[j] # "pending"
         /\ Cardinality({j \in Promise!Steps : F[j] = "running"}) < parallel
         /\ F' = [F EXCEPT ![n] = "running"]
         /\ UNCHANGED <<parallel, interrupted, status>>
  BY SameCount, Zenon DEF Promise!Start
<1> HIDE DEF F
<1> QED BY <1>1, <1>2, <1>10, <1>12, <1>13, <1>14

\* A statement that ends ends its step.
LEMMA StepEndsEnds ==
    ASSUME RunInv, RunInv', FateFacts, FateFacts', NEW w \in Workers, StepEnds(w),
           NEW n, n = worker[w].step
    PROVE  n \in Steps /\ Promise!End(n)
<1> USE RunAssumption DEF RunInv
<1>1. PICK o \in {"succeeded", "failed"} : Goes(w, "reporting", worker[w].step, o)
  BY DEF StepEnds
<1>2. /\ status = "running" /\ UNCHANGED <<parallel, interrupted, status, outcome, results, next>>
      /\ worker[w].at = "running"
  BY DEF StepEnds, StopsForAReason, AtWork
<1>3. /\ worker'[w].at = "reporting" /\ worker'[w].step = n /\ worker'[w].outcome = o
      /\ \A v \in Workers : v # w => worker'[v] = worker[v]
  BY <1>1, <1>2, GoesFacts DEF StepEnds, TypeOK, Outcomes
<1>4. n \in Steps
  BY <1>2 DEF WorkersFit, Busy, TypeOK, Steps
<1>5. Fate(n) = "running"
  BY <1>2, <1>4 DEF FateFacts, Busy
<1>6. Fate(n)' = o
  BY <1>2, <1>3, <1>4 DEF FateFacts, Busy
<1>7. ASSUME NEW i \in Steps, i # n
      PROVE  Fate(i)' = Fate(i)
  <2>1. CASE outcome[i] # "none"
    BY <1>2, <2>1 DEF FateFacts
  <2>2. ASSUME NEW k \in DOMAIN results, results[k].step = i
        PROVE  Fate(i)' = Fate(i)
    BY <1>2, <2>2 DEF FateFacts
  <2>3. ASSUME NEW v \in Workers, Busy(v), worker[v].step = i
        PROVE  Fate(i)' = Fate(i)
    <3>1. v # w /\ worker'[v] = worker[v]
      BY <1>3, <1>7, <2>3
    <3> QED BY <1>2, <2>3, <3>1 DEF FateFacts, Busy
  <2>4. CASE i >= next
    BY <1>2, <2>4 DEF FateFacts
  <2>5. i < next => outcome[i] # "none" \/ Reported(i) \/ Held(i)
    BY DEF OnePlace
  <2>6. i < next \/ i >= next
    BY DEF TypeOK, Steps
  <2> QED BY <2>1, <2>2, <2>3, <2>4, <2>5, <2>6 DEF Reported, Held
<1> DEFINE F == [i \in Steps |-> Fate(i)]
<1>8. F[n] = "running" /\ F' = [F EXCEPT ![n] = o]
  BY <1>4, <1>5, <1>6, <1>7
<1> HIDE DEF RunInv
<1>9. Promise!End(n) <=>
         /\ F[n] = "running"
         /\ \E r \in {"succeeded", "failed"} : F' = [F EXCEPT ![n] = r]
         /\ UNCHANGED <<parallel, interrupted, status>>
  BY Zenon DEF Promise!End
<1> HIDE DEF F
<1> QED BY <1>2, <1>4, <1>8, <1>9

\* A report carries the outcome of its step on.
LEMMA ReportKeepsFate ==
    ASSUME RunInv, RunInv', FateFacts, FateFacts', NEW w \in Workers, Report(w),
           NEW i \in Steps
    PROVE  Fate(i)' = Fate(i)
<1> USE RunAssumption DEF RunInv
<1>1. /\ status = "running" /\ UNCHANGED <<status, outcome, next>>
      /\ worker[w].at = "reporting" /\ Busy(w)
  BY DEF Report, StopsForAReason, AtWork, Busy
<1>2. \A v \in Workers : v # w => worker'[v] = worker[v]
  BY GoesFacts DEF Report, TypeOK, Outcomes
<1>3. /\ DOMAIN results' = DOMAIN results \cup {Len(results) + 1}
      /\ \A k \in DOMAIN results : results'[k] = results[k]
      /\ results'[Len(results) + 1].step = worker[w].step
      /\ results'[Len(results) + 1].outcome = worker[w].outcome
  <2> DEFINE result == [step |-> worker[w].step, outcome |-> worker[w].outcome]
             S == [step : Steps, outcome : Outcomes \ {"none"}]
  <2>1. results \in Seq(S) /\ result \in S /\ results' = Append(results, result)
    BY DEF Report, TypeOK, WorkersFit, Busy, Outcomes, Steps
  <2>2. result.step = worker[w].step /\ result.outcome = worker[w].outcome
    OBVIOUS
  <2> HIDE DEF result, S
  <2> QED BY <2>1, <2>2, SendFacts
<1>4. CASE outcome[i] # "none"
  BY <1>1, <1>4 DEF FateFacts
<1>5. ASSUME NEW k \in DOMAIN results, results[k].step = i
      PROVE  Fate(i)' = Fate(i)
  BY <1>1, <1>3, <1>5 DEF FateFacts
<1>6. ASSUME NEW v \in Workers, Busy(v), worker[v].step = i
      PROVE  Fate(i)' = Fate(i)
  <2>1. CASE v = w
    BY <1>1, <1>3, <1>6, <2>1 DEF FateFacts
  <2>2. CASE v # w
    BY <1>1, <1>2, <1>6, <2>2 DEF FateFacts, Busy
  <2> QED BY <2>1, <2>2
<1>7. CASE i >= next
  BY <1>1, <1>7 DEF FateFacts
<1>8. i < next => outcome[i] # "none" \/ Reported(i) \/ Held(i)
  BY DEF OnePlace
<1>9. i < next \/ i >= next
  BY DEF TypeOK, Steps
<1> QED BY <1>4, <1>5, <1>6, <1>7, <1>8, <1>9 DEF Reported, Held

\* The collector keeps the outcome it receives.
LEMMA CollectKeepsFate ==
    ASSUME RunInv, RunInv', FateFacts, FateFacts', Collect, NEW i \in Steps
    PROVE  Fate(i)' = Fate(i)
<1> USE RunAssumption DEF RunInv
<1> DEFINE first == Head(results)
<1>1. /\ status = "running" /\ UNCHANGED <<status, worker, next>>
      /\ first = results[1] /\ 1 \in DOMAIN results
      /\ first.step \in Steps /\ first.outcome # "none"
      /\ \A k \in DOMAIN results : k # 1 => k - 1 \in DOMAIN results' /\ results'[k - 1] = results[k]
  <2>1. results \in Seq([step : Steps, outcome : Outcomes \ {"none"}]) /\ results # <<>>
        /\ results' = Tail(results)
    BY DEF Collect, TypeOK
  <2>2. /\ first = results[1] /\ 1 \in DOMAIN results
        /\ \A k \in DOMAIN results : k # 1 => k - 1 \in DOMAIN results' /\ results'[k - 1] = results[k]
    BY <2>1, ReceiveFacts
  <2>3. first.step \in Steps /\ first.outcome # "none"
    BY <2>2, ResultFacts
  <2>4. status = "running" /\ UNCHANGED <<status, worker, next>>
    BY DEF Collect
  <2> QED BY <2>2, <2>3, <2>4
<1>2. outcome' = [outcome EXCEPT ![first.step] = first.outcome]
  BY DEF Collect
<1>3. CASE i = first.step
  <2>1. Fate(i) = first.outcome
    BY <1>1, <1>3 DEF FateFacts
  <2>2. outcome'[i] = first.outcome
    BY <1>1, <1>2, <1>3 DEF TypeOK
  <2>3. Fate(i)' = outcome'[i]
    BY <1>1, <2>2 DEF FateFacts
  <2> QED BY <2>1, <2>2, <2>3
<1>4. CASE i # first.step
  <2>1. outcome'[i] = outcome[i]
    BY <1>1, <1>2, <1>4 DEF TypeOK
  <2>2. CASE outcome[i] # "none"
    BY <1>1, <2>1, <2>2 DEF FateFacts
  <2>3. ASSUME NEW k \in DOMAIN results, results[k].step = i
        PROVE  Fate(i)' = Fate(i)
    <3>1. k - 1 \in DOMAIN results' /\ results'[k - 1] = results[k]
      BY <1>1, <1>4, <2>3
    <3> QED BY <1>1, <2>3, <3>1 DEF FateFacts
  <2>4. ASSUME NEW v \in Workers, Busy(v), worker[v].step = i
        PROVE  Fate(i)' = Fate(i)
    BY <1>1, <2>4 DEF FateFacts, Busy
  <2>5. CASE i >= next
    BY <1>1, <2>5 DEF FateFacts
  <2>6. i < next => outcome[i] # "none" \/ Reported(i) \/ Held(i)
    BY DEF OnePlace
  <2>7. i < next \/ i >= next
    BY DEF TypeOK, Steps
  <2> QED BY <2>2, <2>3, <2>4, <2>5, <2>6, <2>7 DEF Reported, Held
<1> QED BY <1>3, <1>4

\* The steps that change no outcome.
LEMMA QuietKeepsFate ==
    ASSUME RunInv, NEW i \in Steps,
           \/ \E w \in Workers : WorkerStops(w)
           \/ ProducerEnds \/ CloseResults \/ Record \/ Interrupt \/ RecordExpires
           \/ UNCHANGED vars
    PROVE  Fate(i)' = Fate(i)
<1>1. CASE \E w \in Workers : WorkerStops(w)
  <2> USE RunAssumption DEF RunInv
  <2>1. PICK w \in Workers : WorkerStops(w)
    BY <1>1
  <2>2. worker[w].step = 0 /\ worker'[w].step = 0 /\ i # 0
        /\ \A v \in Workers : v # w => worker'[v] = worker[v]
    BY <2>1, GoesFacts DEF WorkerStops, WorkersFit, Busy, TypeOK, Outcomes, Steps
  <2>3. \A v \in Workers : worker'[v].step = i <=> worker[v].step = i
    BY <2>2
  <2>4. (CHOOSE v \in Workers : worker'[v].step = i) = (CHOOSE v \in Workers : worker[v].step = i)
    BY <2>3
  <2>5. \A v \in Workers : worker[v].step = i => worker'[v] = worker[v]
    BY <2>2
  <2>6. UNCHANGED <<status, lineage, outcome, results>>
    BY <2>1 DEF WorkerStops
  <2> HIDE DEF RunInv
  <2> QED BY <2>3, <2>4, <2>5, <2>6 DEF Fate
<1>2. CASE ~\E w \in Workers : WorkerStops(w)
  <2>1. CASE Record
    <3>1. UNCHANGED <<status, lineage, outcome, results, worker>>
      BY <2>1 DEF Record, pool
    <3> QED BY <3>1 DEF Fate
  <2>2. CASE ~Record
    <3>1. UNCHANGED <<status, lineage, outcome, results, worker>>
      BY <1>2, <2>2 DEF ProducerEnds, CloseResults, Interrupt, RecordExpires, vars, pool
    <3> QED BY <3>1 DEF Fate
  <2> QED BY <2>1, <2>2
<1> QED BY <1>1, <1>2

\* The verdict says what became of the steps.
LEMMA SettleSettles ==
    ASSUME RunInv, RunInv', FateFacts, FateFacts', Settle
    PROVE  Promise!Settle
<1> USE RunAssumption DEF RunInv
<1> DEFINE F == [i \in Steps |-> Fate(i)]
<1>1. /\ status = "running" /\ status' # "running" /\ results = <<>> /\ ~resultsOpen
      /\ status' = IF firstErr # 0 \/ interrupted THEN "failed" ELSE "succeeded"
      /\ lineage' = [i \in Steps |-> IF outcome[i] # "none" THEN outcome[i]
                                     ELSE IF status' = "failed" THEN "skipped" ELSE "missing"]
      /\ UNCHANGED <<parallel, interrupted>>
  BY DEF Settle, NothingMore
<1>2. \A i \in Steps : ~Held(i) /\ ~Reported(i)
  BY <1>1 DEF StopsForAReason, AtWork, Held, Busy, Reported
<1>3. \A i \in Steps : i < next <=> outcome[i] # "none"
  BY <1>2 DEF OnePlace
<1>4. \A i \in Steps : Fate(i) = IF outcome[i] # "none" THEN outcome[i] ELSE "pending"
  BY <1>1, <1>3 DEF FateFacts, TypeOK, Steps
<1>5. (\E i \in Steps : Fate(i) = "failed") <=> firstErr # 0
  BY <1>4 DEF StopsForAReason
<1>6. status' = "succeeded" => \A i \in Steps : outcome[i] = "succeeded"
  <2> SUFFICES ASSUME firstErr = 0, ~interrupted
               PROVE  \A i \in Steps : outcome[i] = "succeeded"
    BY <1>1
  <2>1. ~Stopped
    BY <1>1 DEF StopsForAReason, Stopped
  <2>2. 1 \in 1..WorkerCount /\ ~AtWork(1)
    BY <1>1 DEF StopsForAReason, WorkerCount, TypeOK, Workers
  <2>3. next > StepCount
    BY <2>1, <2>2 DEF StopsForAReason
  <2>4. \A i \in Steps : outcome[i] # "none"
    BY <1>3, <2>3 DEF Steps, TypeOK
  <2> QED BY <2>4 DEF StopsForAReason, TypeOK, Outcomes
<1>7. \A i \in Steps : Fate(i)' = lineage'[i]
  BY <1>1 DEF FateFacts
<1>8. \A i \in Steps : Fate(i) # "running" /\ Fate(i)' = IF Fate(i) = "pending" THEN "skipped" ELSE Fate(i)
  BY <1>1, <1>4, <1>6, <1>7 DEF TypeOK, Outcomes
<1>9. /\ \A i \in Steps : F[i] # "running"
      /\ F' = [i \in Steps |-> IF F[i] = "pending" THEN "skipped" ELSE F[i]]
  BY <1>8
<1>10. IF interrupted \/ \E i \in Steps : F[i] = "failed"
       THEN status' = "failed"
       ELSE status' = "succeeded" /\ \A i \in Steps : F[i] = "succeeded"
  BY <1>1, <1>4, <1>5, <1>6
<1>11. Promise!Steps = Steps
  BY DEF Promise!Steps, Steps
<1> HIDE DEF RunInv
<1>12. Promise!Settle <=>
         /\ status = "running"
         /\ \A i \in Promise!Steps : F[i] # "running"
         /\ F' = [i \in Promise!Steps |-> IF F[i] = "pending" THEN "skipped" ELSE F[i]]
         /\ IF interrupted \/ \E i \in Promise!Steps : F[i] = "failed"
            THEN status' = "failed"
            ELSE status' = "succeeded" /\ \A i \in Promise!Steps : F[i] = "succeeded"
         /\ UNCHANGED <<parallel, interrupted>>
  BY Zenon DEF Promise!Settle
<1> HIDE DEF F
<1> QED BY <1>1, <1>9, <1>10, <1>11, <1>12

\* A pool that starts has promised nothing but its parallelism.
LEMMA PromiseInit == Init => Promise!Init
<1> SUFFICES ASSUME Init PROVE Promise!Init
  OBVIOUS
<1>1. RunInv /\ FateFacts
  BY RunInit, FateIs
<1>2. \A i \in Steps : Fate(i) = "pending"
  BY <1>1, RunAssumption DEF FateFacts, Init, Steps
<1>3. Promise!Steps = Steps
  BY DEF Promise!Steps, Steps
<1>4. parallel \in 1..MaxParallelism /\ interrupted = FALSE /\ status = "running"
  BY DEF Init
<1>5. [i \in Steps |-> Fate(i)] = [i \in Promise!Steps |-> "pending"]
  BY <1>2, <1>3
<1> QED BY <1>4, <1>5, Zenon DEF Promise!Init

\* Every step of the pool is a step of the promise, or changes nothing it is about.
LEMMA PromiseStep ==
    RunInv /\ RunInv' /\ FateFacts /\ FateFacts' /\ [Next]_vars
        => [Promise!Next]_(Promise!promised)
<1> SUFFICES ASSUME RunInv, RunInv', FateFacts, FateFacts', [Next]_vars
             PROVE  [Promise!Next]_(Promise!promised)
  OBVIOUS
<1> DEFINE F == [i \in Steps |-> Fate(i)]
<1>1. Promise!Steps = Steps
  BY DEF Promise!Steps, Steps
<1>2. ASSUME NEW w \in Workers, Handover(w)
      PROVE  Promise!Next
  <2>1. \A n : n = next => n \in Steps /\ Promise!Start(n)
    BY <1>2, HandoverStarts
  <2>2. \E n : n = next
    OBVIOUS
  <2> QED BY <2>1, <2>2, <1>1 DEF Promise!Next
<1>3. ASSUME NEW w \in Workers, StepEnds(w)
      PROVE  Promise!Next
  <2>1. \A n : n = worker[w].step => n \in Steps /\ Promise!End(n)
    BY <1>3, StepEndsEnds
  <2>2. \E n : n = worker[w].step
    OBVIOUS
  <2> QED BY <2>1, <2>2, <1>1 DEF Promise!Next
<1>4. ASSUME Settle
      PROVE  Promise!Next
  BY <1>4, SettleSettles DEF Promise!Next
<1>5. ASSUME \/ \E w \in Workers : Report(w) \/ WorkerStops(w)
             \/ Collect \/ ProducerEnds \/ CloseResults \/ Record \/ Interrupt \/ RecordExpires
             \/ UNCHANGED vars
      PROVE  F' = F
  <2>1. \A i \in Steps : Fate(i)' = Fate(i)
    BY <1>5, ReportKeepsFate, CollectKeepsFate, QuietKeepsFate
  <2> QED BY <2>1
<1>6. ASSUME \/ \E w \in Workers : Report(w) \/ WorkerStops(w)
             \/ Collect \/ ProducerEnds \/ CloseResults \/ Record \/ RecordExpires
             \/ UNCHANGED vars
      PROVE  UNCHANGED Promise!promised
  <2>1. F' = F
    BY <1>5, <1>6
  <2>2. UNCHANGED <<parallel, interrupted, status>>
    BY <1>6 DEF Report, WorkerStops, Collect, ProducerEnds, CloseResults, Record, RecordExpires,
       pool, vars
  <2>3. UNCHANGED Promise!promised <=> F' = F /\ UNCHANGED <<parallel, interrupted, status>>
    BY Zenon DEF Promise!promised
  <2> QED BY <2>1, <2>2, <2>3
<1>7. ASSUME Interrupt
      PROVE  Promise!Next
  <2>1. F' = F
    BY <1>5, <1>7
  <2>2. interrupted' = TRUE /\ UNCHANGED <<parallel, status>>
    BY <1>7 DEF Interrupt, pool
  <2>3. Promise!Interrupt <=> interrupted' = TRUE /\ F' = F /\ UNCHANGED <<parallel, status>>
    BY Zenon DEF Promise!Interrupt
  <2> QED BY <2>1, <2>2, <2>3 DEF Promise!Next
<1> QED BY <1>2, <1>3, <1>4, <1>6, <1>7 DEF Next, Over

\* For any number of steps and workers the pool keeps the promise of
\* README.md:465-469: the steps start in the declared order and no more of them
\* at once than was asked for, each has one outcome, and the run has succeeded
\* only if all of them have.
THEOREM PoolKeepsPromise == Spec => KeepsPromise
<1>1. FateFacts /\ RunInv /\ [Next]_vars /\ RunInv' /\ FateFacts' => [Promise!Next]_(Promise!promised)
  BY PromiseStep
<1>2. RunInv' => FateFacts'
  BY FateIs, PTL
<1> QED BY <1>1, <1>2, PromiseInit, FateIs, RunAlways, PTL DEF Spec, KeepsPromise, Promise!Spec

=============================================================================
