--------------------------- MODULE AutoscalerProofs ---------------------------
(***************************************************************************)
(* What holds of the scaling loop for every configuration of it: the       *)
(* service is never asked for a size outside its limits, and changes are   *)
(* spaced by the cooldown less the time of one invocation.                 *)
(*                                                                         *)
(* The inductive invariant, ScalingInv, adds to the types what has been    *)
(* read at which step (Readings), that a running handler has its heartbeat *)
(* in the queue (BeatHeld), and how the three clocks relate (Clocks): the  *)
(* age an invocation has read does not exceed that of _last_scale_time     *)
(* until it scales itself, and that one is ahead of the last confirmed     *)
(* change by no more than an invocation can take.                          *)
(***************************************************************************)
EXTENDS Autoscaler, TLAPS

\* The handler deletes its heartbeat only at its end.
BeatHeld == step # "idle" => beats > 0

\* What has been read at which step.
Readings ==
    /\ step \in {"service", "metrics", "update", "report"} => read.rate # None
    /\ step \in {"metrics", "update", "report"} =>
         read.current # None /\ read.target # None

\* The steps of an invocation that has not scaled (yet).
Deciding == {"backlog", "rate", "service", "metrics", "update"}

Clocks ==
    /\ step \in Deciding => read.elapsed <= lastScale
    /\ replaced \/ lastScale <= sinceUpdate + HandlerTimeout
    /\ step = "update" => read.elapsed >= Cooldown(read.target, read.current)

ScalingInv ==
    /\ TypeOK
    /\ BeatHeld
    /\ Readings
    /\ Clocks

-----------------------------------------------------------------------------
(* The operators *)

\* Whatever is asked for, the limits are kept.
LEMMA ClipBounds ==
    ASSUME NEW n \in Int
    PROVE  Clip(n) \in WorkerMin .. WorkerMax
  BY AutoscalerAssumption DEF Clip, larger, smaller

\* The formula, for any readings.
LEMMA WantedBounds ==
    ASSUME NEW b \in Nat, NEW r \in Nat, NEW g \in Int
    PROVE  Wanted(b, r, g) \in WorkerMin .. WorkerMax
  <1>1. /\ CapacityPerWorker \in Nat /\ CapacityPerWorker > 0
        /\ TargetBacklog \in Nat /\ TargetBacklog > 0
    BY AutoscalerAssumption
  <1>2. workers_for_rate(r) \in Int
    BY <1>1 DEF workers_for_rate, larger
  <1>3. workers_for_backlog(b) \in Int
    BY <1>1 DEF workers_for_backlog
  <1>4. workers_for_growth(g) \in Int
    BY <1>1 DEF workers_for_growth
  <1>5. workers_for_rate(r) + workers_for_backlog(b) + workers_for_growth(g) \in Int
    BY <1>2, <1>3, <1>4
  <1> QED
    BY <1>5, ClipBounds DEF Wanted

LEMMA OlderAge ==
    ASSUME NEW age \in Age
    PROVE  /\ Older(age) \in Age
           /\ age <= Older(age)
           /\ \A other \in Age : age <= other + HandlerTimeout =>
                                   Older(age) <= Older(other) + HandlerTimeout
  BY AutoscalerAssumption DEF Age, Older, MaxAge

-----------------------------------------------------------------------------
(* The steps *)

LEMMA ScalingInit == Init => ScalingInv
  <1> SUFFICES ASSUME Init
               PROVE  ScalingInv
    OBVIOUS
  <1>1. NoReading \in Reading
    BY AutoscalerAssumption DEF NoReading, Reading, Age, MaxAge
  <1>2. TypeOK
    <2>1. /\ desired \in WorkerMin .. WorkerMax /\ running \in 0 .. WorkerMax
          /\ beats \in 0 .. MaxBeats /\ began \in 0 .. HandlerTimeout
          /\ lastScale \in Age /\ sinceUpdate \in Age
      BY AutoscalerAssumption DEF Init, Age, MaxAge
    <2> QED
      BY <1>1, <2>1 DEF Init, TypeOK, HandlerStep
  <1>3. BeatHeld /\ Readings /\ Clocks
    BY AutoscalerAssumption DEF Init, BeatHeld, Readings, Clocks, Deciding, MaxAge
  <1> QED
    BY <1>2, <1>3 DEF ScalingInv

\* Load, tasks, heartbeats and operators move beside the handler.
LEMMA SurroundingsStep ==
    ASSUME ScalingInv,
           \/ LoadChanges \/ Heartbeat \/ Reconcile \/ TaskDies \/ ScaleByHand
           \/ UNCHANGED vars
    PROVE  ScalingInv'
  <1>1. UNCHANGED <<step, read, began, globals, history>>
    BY DEF LoadChanges, Heartbeat, Reconcile, TaskDies, ScaleByHand, vars
  <1>2. /\ backlog' \in Backlogs /\ rate' \in Rates
        /\ desired' \in WorkerMin .. WorkerMax /\ running' \in 0 .. WorkerMax
        /\ beats' \in 0 .. MaxBeats /\ beats' >= beats
    BY AutoscalerAssumption DEF ScalingInv, TypeOK, LoadChanges, Heartbeat, Reconcile,
       TaskDies, ScaleByHand, vars, loadVars, ecsVars
  <1>3. TypeOK'
    BY <1>1, <1>2 DEF ScalingInv, TypeOK, globals, history
  <1>4. BeatHeld'
    BY <1>1, <1>2 DEF ScalingInv, TypeOK, BeatHeld
  <1>5. Readings' /\ Clocks'
    BY <1>1 DEF ScalingInv, Readings, Clocks, globals, history
  <1> QED
    BY <1>3, <1>4, <1>5 DEF ScalingInv

LEMMA TickStep ==
    ASSUME ScalingInv, Tick
    PROVE  ScalingInv'
  <1>1. UNCHANGED <<loadVars, ecsVars, beats, step, read, prevBacklog, replaced>>
    BY DEF Tick
  <1>2. lastScale \in Age /\ sinceUpdate \in Age /\ began \in 0 .. HandlerTimeout
    BY DEF ScalingInv, TypeOK
  <1>3. began' \in 0 .. HandlerTimeout
    BY <1>2, AutoscalerAssumption DEF Tick
  <1>4. /\ lastScale' \in Age /\ sinceUpdate' \in Age
        /\ lastScale <= lastScale'
        /\ lastScale <= sinceUpdate + HandlerTimeout =>
             lastScale' <= sinceUpdate' + HandlerTimeout
    BY <1>2, OlderAge DEF Tick
  <1>5. TypeOK'
    BY <1>1, <1>3, <1>4 DEF ScalingInv, TypeOK, loadVars, ecsVars
  <1>6. BeatHeld' /\ Readings'
    BY <1>1 DEF ScalingInv, BeatHeld, Readings
  <1>7. Clocks'
    <2>1. read.elapsed \in Age
      BY DEF ScalingInv, TypeOK, Reading
    <2>2. step \in Deciding => read.elapsed <= lastScale'
      BY <1>2, <1>4, <2>1, AutoscalerAssumption DEF ScalingInv, Clocks, Age, MaxAge
    <2> QED
      BY <1>1, <1>4, <2>2 DEF ScalingInv, Clocks
  <1> QED
    BY <1>5, <1>6, <1>7 DEF ScalingInv

\* A handler that ends, or is replaced, leaves nothing behind to decide on.
LEMMA EndStep ==
    ASSUME ScalingInv,
           \/ ColdStart \/ SkipWithoutMetrics \/ Return \/ put_metric_raises
    PROVE  ScalingInv'
  <1>1. /\ step' = "idle" /\ read' = NoReading /\ began' = 0
        /\ beats' \in {beats, beats - 1} /\ (step = "idle" => beats' = beats)
        /\ UNCHANGED <<loadVars, ecsVars, sinceUpdate>>
        /\ \/ UNCHANGED <<lastScale, prevBacklog, replaced>>
           \/ lastScale' = MaxAge /\ prevBacklog' = None /\ replaced' = TRUE
    BY DEF ColdStart, SkipWithoutMetrics, Return, put_metric_raises, Finish, globals, history
  <1>2. NoReading \in Reading
    BY AutoscalerAssumption DEF NoReading, Reading, Age, MaxAge
  <1>3. beats' \in 0 .. MaxBeats
    BY <1>1, AutoscalerAssumption DEF ScalingInv, TypeOK, BeatHeld
  <1>4. TypeOK'
    <2>1. /\ began' \in 0 .. HandlerTimeout /\ MaxAge \in Age
      BY <1>1, AutoscalerAssumption DEF Age, MaxAge
    <2> QED
      BY <1>1, <1>2, <1>3, <2>1 DEF ScalingInv, TypeOK, loadVars, ecsVars, HandlerStep
  <1>5. BeatHeld' /\ Readings' /\ Clocks'
    BY <1>1 DEF ScalingInv, BeatHeld, Readings, Clocks, Deciding
  <1> QED
    BY <1>4, <1>5 DEF ScalingInv

\* Invoke and the readings up to the service.
LEMMA ReadStep ==
    ASSUME ScalingInv,
           \/ Invoke \/ get_rabbitmq_backlog \/ get_rabbitmq_arrival_rate \/ RabbitFails
    PROVE  ScalingInv'
  <1>1. /\ UNCHANGED <<loadVars, ecsVars, beats, began, globals, history>>
        /\ step' \in {"backlog", "rate", "service"} /\ beats > 0
    BY DEF Invoke, get_rabbitmq_backlog, get_rabbitmq_arrival_rate, RabbitFails,
       ScalingInv, BeatHeld
  <1>2. read' \in Reading
    BY AutoscalerAssumption DEF Invoke, get_rabbitmq_backlog, get_rabbitmq_arrival_rate,
       RabbitFails, ScalingInv, TypeOK, Reading
  <1>3. TypeOK'
    BY <1>1, <1>2 DEF ScalingInv, TypeOK, loadVars, ecsVars, globals, history, HandlerStep
  <1>4. read'.elapsed <= lastScale
    BY AutoscalerAssumption DEF Invoke, get_rabbitmq_backlog, get_rabbitmq_arrival_rate,
       RabbitFails, ScalingInv, TypeOK, Reading, Clocks, Deciding, Age
  <1>5. step' = "service" => read'.rate # None
    BY AutoscalerAssumption DEF Invoke, get_rabbitmq_backlog, get_rabbitmq_arrival_rate,
       RabbitFails, ScalingInv, TypeOK, Reading
  <1>6. BeatHeld' /\ Readings' /\ Clocks'
    BY <1>1, <1>4, <1>5 DEF ScalingInv, BeatHeld, Readings, Clocks, globals, history
  <1> QED
    BY <1>3, <1>6 DEF ScalingInv

\* The target is computed from what was read.
LEMMA ComputeStep ==
    ASSUME ScalingInv, get_worker_count
    PROVE  ScalingInv'
  <1>1. read.backlog \in Backlogs /\ read.rate \in Nat /\ read.backlog \in Nat
    BY AutoscalerAssumption DEF get_worker_count, ScalingInv, TypeOK, Readings, Reading
  <1>2. Growth(read.backlog) \in Int
    <2>1. prevBacklog # None => prevBacklog \in Nat
      BY AutoscalerAssumption DEF ScalingInv, TypeOK
    <2> QED
      BY <1>1, <2>1 DEF Growth, larger
  <1> DEFINE t == Wanted(read.backlog, read.rate, Growth(read.backlog))
  <1>3. t \in WorkerMin .. WorkerMax
    BY <1>1, <1>2, WantedBounds
  <1> HIDE DEF t
  <1>4. /\ read' = [read EXCEPT !.current = desired, !.target = t]
        /\ prevBacklog' = read.backlog
        /\ step = "service" /\ step' = "metrics"
        /\ UNCHANGED <<loadVars, ecsVars, beats, began, lastScale, history>>
    BY DEF get_worker_count, t
  <1>5. /\ read' \in Reading /\ read'.rate = read.rate /\ read'.elapsed = read.elapsed
        /\ read'.current = desired /\ read'.target = t
    BY <1>3, <1>4 DEF ScalingInv, TypeOK, Reading
  <1>6. TypeOK'
    BY <1>1, <1>4, <1>5 DEF ScalingInv, TypeOK, loadVars, ecsVars, history, HandlerStep
  <1>7. BeatHeld' /\ Readings' /\ Clocks'
    BY <1>1, <1>3, <1>4, <1>5, AutoscalerAssumption
       DEF ScalingInv, TypeOK, BeatHeld, Readings, Clocks, Deciding, history
  <1> QED
    BY <1>6, <1>7 DEF ScalingInv

LEMMA DecideStep ==
    ASSUME ScalingInv, put_metrics
    PROVE  ScalingInv'
  <1>1. /\ UNCHANGED <<loadVars, ecsVars, beats, read, began, globals, history>>
        /\ step = "metrics" /\ step' \in {"update", "report"}
        /\ step' = "update" => read.elapsed >= Cooldown(read.target, read.current)
    BY DEF put_metrics, MayScale
  <1>2. TypeOK'
    BY <1>1 DEF ScalingInv, TypeOK, loadVars, ecsVars, globals, history, HandlerStep
  <1>3. BeatHeld' /\ Readings' /\ Clocks'
    BY <1>1 DEF ScalingInv, BeatHeld, Readings, Clocks, Deciding, Cooldown, globals, history
  <1> QED
    BY <1>2, <1>3 DEF ScalingInv

LEMMA UpdateStep ==
    ASSUME ScalingInv, update_service \/ update_service_raises
    PROVE  ScalingInv'
  <1>1. /\ desired' \in {desired, read.target}
        /\ step = "update" /\ step' = "report"
        /\ UNCHANGED <<loadVars, running, beats, read, began, prevBacklog>>
        /\ \/ lastScale' = smaller(began, MaxAge) /\ sinceUpdate' = 0 /\ replaced' = FALSE
           \/ UNCHANGED <<lastScale, history>>
    BY DEF update_service, update_service_raises, globals
  <1>2. desired' \in WorkerMin .. WorkerMax
    BY <1>1 DEF ScalingInv, TypeOK, Readings, Reading
  <1>3. /\ lastScale' \in Age /\ sinceUpdate' \in Age /\ replaced' \in BOOLEAN
        /\ replaced' \/ lastScale' <= sinceUpdate' + HandlerTimeout
    <2>1. CASE lastScale' = smaller(began, MaxAge) /\ sinceUpdate' = 0 /\ replaced' = FALSE
      <3>1. /\ began \in 0 .. HandlerTimeout /\ MaxAge \in Nat
            /\ lastScale' \in 0 .. MaxAge /\ lastScale' <= HandlerTimeout
        BY <2>1, AutoscalerAssumption DEF ScalingInv, TypeOK, MaxAge, smaller
      <3>2. sinceUpdate' \in 0 .. MaxAge
        BY <2>1, <3>1
      <3>3. lastScale' <= sinceUpdate' + HandlerTimeout
        <4>1. \A a, b, c \in Nat : a <= c => a <= b + c
          OBVIOUS
        <4>2. lastScale' \in Nat /\ sinceUpdate' \in Nat /\ HandlerTimeout \in Nat
          BY <3>1, <3>2, AutoscalerAssumption
        <4> QED
          BY <3>1, <4>1, <4>2
      <3> QED
        BY <2>1, <3>1, <3>2, <3>3 DEF Age
    <2>2. CASE UNCHANGED <<lastScale, history>>
      BY <2>2 DEF ScalingInv, TypeOK, Clocks, history
    <2> QED
      BY <1>1, <2>1, <2>2
  <1>4. TypeOK'
    BY <1>1, <1>2, <1>3 DEF ScalingInv, TypeOK, loadVars, HandlerStep
  <1>5. BeatHeld' /\ Readings' /\ Clocks'
    BY <1>1, <1>3 DEF ScalingInv, BeatHeld, Readings, Clocks, Deciding
  <1> QED
    BY <1>4, <1>5 DEF ScalingInv

LEMMA ScalingStep == ScalingInv /\ [Next]_vars => ScalingInv'
  BY SurroundingsStep, TickStep, EndStep, ReadStep, ComputeStep, DecideStep, UpdateStep
     DEF Next, Handler, HandlerFault

LEMMA ScalingInvariant == Spec => []ScalingInv
  BY ScalingInit, ScalingStep, PTL DEF Spec

-----------------------------------------------------------------------------
(* What follows *)

\* The variables of Autoscaler keep to their types: above all the handler never
\* asks ECS for fewer tasks than WORKER_MIN or more than WORKER_MAX, whatever
\* it has read or failed to read.
THEOREM ScalingTypes == Spec => []TypeOK
  <1>1. ScalingInv => TypeOK
    BY DEF ScalingInv
  <1> QED
    BY <1>1, ScalingInvariant, PTL

\* A step from which the service gets another size comes after the cooldown,
\* but for the time of one invocation.
LEMMA SpacedStep ==
    ScalingInv /\ [Next]_vars =>
      [step = "update" /\ step' = "report" /\ desired' # desired =>
         \/ replaced
         \/ sinceUpdate >= Cooldown(desired', read.current) - HandlerTimeout]_vars
  <1> SUFFICES ASSUME ScalingInv, Next, step = "update", step' = "report",
                      desired' # desired, ~replaced
               PROVE  sinceUpdate >= Cooldown(desired', read.current) - HandlerTimeout
    BY DEF vars, ecsVars
  <1>1. desired' = read.target
    BY DEF Next, Handler, HandlerFault, LoadChanges, Heartbeat, Reconcile, TaskDies,
       ScaleByHand, Tick, ColdStart, Invoke, get_rabbitmq_backlog,
       get_rabbitmq_arrival_rate, get_worker_count, SkipWithoutMetrics, put_metrics,
       update_service, Return, RabbitFails, update_service_raises, put_metric_raises,
       Finish
  <1>2. /\ read.elapsed <= lastScale
        /\ lastScale <= sinceUpdate + HandlerTimeout
        /\ read.elapsed >= Cooldown(read.target, read.current)
    BY DEF ScalingInv, Clocks, Deciding
  <1>3. /\ read.elapsed \in Nat /\ lastScale \in Nat /\ sinceUpdate \in Nat
        /\ HandlerTimeout \in Nat /\ Cooldown(read.target, read.current) \in Nat
    BY AutoscalerAssumption DEF ScalingInv, TypeOK, Reading, Age, MaxAge, Cooldown
  <1> QED
    BY <1>1, <1>2, <1>3

\* While one Lambda environment lives, the handler does not flap: a change
\* follows the last confirmed one after the cooldown of its direction, less
\* the time one invocation can take.
THEOREM ScalingIsSpaced == Spec => ScalingSpaced
  BY SpacedStep, ScalingInvariant, PTL DEF Spec, ScalingSpaced
=============================================================================
