----------------------------- MODULE Autoscaler -----------------------------
(***************************************************************************)
(* The scaling loop: every running worker sends a heartbeat to an SQS      *)
(* queue, each heartbeat invokes the Lambda handler of                     *)
(* infra/modules/autoscaling/controller.py (one at a time), and the        *)
(* handler reads the backlog, the arrival rate and the service, computes   *)
(* the number of workers it wants and asks ECS for it, unless the cooldown *)
(* since its last change forbids it.                                       *)
(*                                                                         *)
(* Every network call of the handler is a step of its own, so load, time   *)
(* and tasks go on between two of them.  Time is counted in ticks; ages    *)
(* are cut off at MaxAge, from where on no cooldown distinguishes them.    *)
(***************************************************************************)
EXTENDS Integers

CONSTANTS
    WorkerMin, WorkerMax,           \* WORKER_MIN, WORKER_MAX
    CapacityPerWorker,              \* CAPACITY_PER_WORKER
    TargetBacklog,                  \* TARGET_BACKLOG
    UpCooldown, DownCooldown,       \* SCALE_UP_COOLDOWN, SCALE_DOWN_COOLDOWN
    HandlerTimeout,                 \* the Lambda's timeout
    Backlogs, Rates,                \* the loads considered
    MaxBeats,                       \* bound on the heartbeats in the queue
    Faults,
    None

\* rabbit:   a call of the RabbitMQ management API fails
\* ecs:      describe_services or update_service raises
\* metric:   put_metric_data raises
\* cold:     the Lambda environment is replaced, its globals start afresh
\* task:     a worker task dies
\* operator: scale_workers of the benchmark scripts sets the size by hand
FaultKind == {"rabbit", "ecs", "metric", "cold", "task", "operator"}

ASSUME AutoscalerAssumption ==
    /\ WorkerMin \in Nat \ {0} /\ WorkerMax \in Nat /\ WorkerMin <= WorkerMax
    /\ CapacityPerWorker \in Nat \ {0} /\ TargetBacklog \in Nat \ {0}
    /\ UpCooldown \in Nat /\ DownCooldown \in Nat /\ UpCooldown <= DownCooldown
    /\ HandlerTimeout \in Nat
    /\ Backlogs \subseteq Nat /\ Rates \subseteq Nat
    /\ MaxBeats \in Nat \ {0}
    /\ Faults \subseteq FaultKind
    /\ None \notin Nat

VARIABLES
    backlog, rate,      \* messages_ready and publish rate of tickets.buy
    desired, running,   \* desiredCount and runningCount of the ECS service
    beats,              \* heartbeats in the SQS queue
    step,               \* where the handler stands
    read,               \* what this invocation has read and computed
    began,              \* age of this invocation (its variable now)
    lastScale,          \* age of _last_scale_time
    prevBacklog,        \* _prev_backlog (_prev_arrival_rate is set with it)
    sinceUpdate,        \* time since the last update_service that returned
    replaced            \* has the Lambda environment been replaced since?

loadVars == <<backlog, rate>>
ecsVars == <<desired, running>>
globals == <<lastScale, prevBacklog>>
history == <<sinceUpdate, replaced>>
vars == <<loadVars, ecsVars, beats, step, read, began, globals, history>>

MaxAge == DownCooldown
Age == 0 .. MaxAge
Older(age) == IF age < MaxAge THEN age + 1 ELSE MaxAge

HandlerStep == {"idle", "backlog", "rate", "service", "metrics", "update", "report"}

NoReading == [backlog |-> None, rate |-> None, current |-> None,
              elapsed |-> 0, target |-> None]

Init ==
    /\ backlog \in Backlogs
    /\ rate \in Rates
    /\ desired = WorkerMin
    /\ running = 0
    /\ beats = 0
    /\ step = "idle"
    /\ read = NoReading
    /\ began = 0
    /\ lastScale = MaxAge
    /\ prevBacklog = None
    /\ sinceUpdate = MaxAge
    /\ replaced = FALSE

-----------------------------------------------------------------------------
(* The formula *)

\* Greatest and least of two numbers, as Python's max and min.
larger(a, b) == IF a >= b THEN a ELSE b
smaller(a, b) == IF a <= b THEN a ELSE b

workers_for_rate(r) == larger(1, (r + CapacityPerWorker - 1) \div CapacityPerWorker)
workers_for_backlog(b) == b \div TargetBacklog
workers_for_growth(g) == g \div CapacityPerWorker

\* MUTANT of Clip: the upper limit is missing.
ClipBelow(n) == larger(WorkerMin, n)

Clip(n) == larger(WorkerMin, smaller(WorkerMax, n))

Wanted(b, r, growth) ==
    Clip(workers_for_rate(r) + workers_for_backlog(b) + workers_for_growth(growth))

Cooldown(target, current) == IF target > current THEN UpCooldown ELSE DownCooldown

-----------------------------------------------------------------------------
(* The surroundings *)

\* Producers and workers change the queue.
LoadChanges ==
    /\ backlog' \in Backlogs
    /\ rate' \in Rates
    /\ loadVars' # loadVars
    /\ UNCHANGED <<ecsVars, beats, step, read, began, globals, history>>

\* sqs_scaling_publisher of some worker.
Heartbeat ==
    /\ running > 0
    /\ beats < MaxBeats
    /\ beats' = beats + 1
    /\ UNCHANGED <<loadVars, ecsVars, step, read, began, globals, history>>

\* ECS starts or stops tasks until there are as many as desired.
Reconcile ==
    /\ running # desired
    /\ running' = IF running < desired THEN running + 1 ELSE running - 1
    /\ UNCHANGED <<loadVars, desired, beats, step, read, began, globals, history>>

TaskDies ==
    /\ "task" \in Faults
    /\ running > 0
    /\ running' = running - 1
    /\ UNCHANGED <<loadVars, desired, beats, step, read, began, globals, history>>

\* scale_workers of run_all_benchmarks.sh: the same request to ECS as the
\* handler's, which knows nothing of it.
ScaleByHand ==
    /\ "operator" \in Faults
    /\ desired' \in (WorkerMin .. WorkerMax) \ {desired}
    /\ UNCHANGED <<loadVars, running, beats, step, read, began, globals, history>>

\* Time passes, in a handler only until its timeout.
Tick ==
    /\ step = "idle" \/ began < HandlerTimeout
    /\ began' = IF step = "idle" THEN began ELSE began + 1
    /\ lastScale' = Older(lastScale)
    /\ sinceUpdate' = Older(sinceUpdate)
    /\ UNCHANGED <<loadVars, ecsVars, beats, step, read, prevBacklog, replaced>>

\* Replaced while idle, or killed by the timeout: the module is loaded again.
ColdStart ==
    /\ "cold" \in Faults
    /\ step = "idle" \/ began = HandlerTimeout
    /\ lastScale' = MaxAge
    /\ prevBacklog' = None
    /\ step' = "idle"
    /\ read' = NoReading
    /\ began' = 0
    /\ replaced' = TRUE
    /\ UNCHANGED <<loadVars, ecsVars, beats, sinceUpdate>>

-----------------------------------------------------------------------------
(* handler *)

\* The handler ends and is idle again; SQS deletes the heartbeat unless the
\* handler raised.
Finish(deleted) ==
    /\ step' = "idle"
    /\ read' = NoReading
    /\ began' = 0
    /\ beats' = IF deleted THEN beats - 1 ELSE beats

Invoke ==
    /\ step = "idle"
    /\ beats > 0
    /\ step' = "backlog"
    /\ read' = [read EXCEPT !.elapsed = lastScale]
    /\ UNCHANGED <<loadVars, ecsVars, beats, began, globals, history>>

get_rabbitmq_backlog ==
    /\ step = "backlog"
    /\ read' = [read EXCEPT !.backlog = backlog]
    /\ step' = "rate"
    /\ UNCHANGED <<loadVars, ecsVars, beats, began, globals, history>>

get_rabbitmq_arrival_rate ==
    /\ step = "rate"
    /\ read' = [read EXCEPT !.rate = rate]
    /\ step' = "service"
    /\ UNCHANGED <<loadVars, ecsVars, beats, began, globals, history>>

\* _api_get returns None: no backlog is read, but a rate of zero.
RabbitFails ==
    /\ "rabbit" \in Faults
    /\ \/ step = "backlog" /\ step' = "rate" /\ UNCHANGED read
       \/ step = "rate" /\ step' = "service" /\ read' = [read EXCEPT !.rate = 0]
    /\ UNCHANGED <<loadVars, ecsVars, beats, began, globals, history>>

Growth(b) == IF prevBacklog = None THEN 0 ELSE larger(0, b - prevBacklog)

\* MUTANT of get_worker_count: _prev_backlog keeps its first value.
get_worker_count_keeps_prev ==
    /\ step = "service"
    /\ read.backlog # None
    /\ read' = [read EXCEPT
                  !.current = desired,
                  !.target = Wanted(read.backlog, read.rate, Growth(read.backlog))]
    /\ prevBacklog' = IF prevBacklog = None THEN read.backlog ELSE prevBacklog
    /\ step' = "metrics"
    /\ UNCHANGED <<loadVars, ecsVars, beats, began, lastScale, history>>

\* With all readings at hand the target is computed ...
get_worker_count ==
    /\ step = "service"
    /\ read.backlog # None
    /\ read' = [read EXCEPT
                  !.current = desired,
                  !.target = Wanted(read.backlog, read.rate, Growth(read.backlog))]
    /\ prevBacklog' = read.backlog
    /\ step' = "metrics"
    /\ UNCHANGED <<loadVars, ecsVars, beats, began, lastScale, history>>

\* ... and without the backlog or the service the handler returns.
SkipWithoutMetrics ==
    /\ step = "service"
    /\ read.backlog = None \/ "ecs" \in Faults
    /\ Finish(TRUE)
    /\ UNCHANGED <<loadVars, ecsVars, globals, history>>

MayScale ==
    /\ read.target # read.current
    /\ read.elapsed >= Cooldown(read.target, read.current)

put_metrics ==
    /\ step = "metrics"
    /\ step' = IF MayScale THEN "update" ELSE "report"
    /\ UNCHANGED <<loadVars, ecsVars, beats, read, began, globals, history>>

\* MUTANT of update_service: _last_scale_time is not assigned.
update_service_forgets ==
    /\ step = "update"
    /\ desired' = read.target
    /\ sinceUpdate' = 0
    /\ replaced' = FALSE
    /\ step' = "report"
    /\ UNCHANGED <<loadVars, running, beats, read, began, globals>>

\* _last_scale_time becomes the time this invocation started.
update_service ==
    /\ step = "update"
    /\ desired' = read.target
    /\ lastScale' = smaller(began, MaxAge)
    /\ sinceUpdate' = 0
    /\ replaced' = FALSE
    /\ step' = "report"
    /\ UNCHANGED <<loadVars, running, beats, read, began, prevBacklog>>

\* It raises, and ECS may have accepted the change all the same.
update_service_raises ==
    /\ "ecs" \in Faults
    /\ step = "update"
    /\ desired' \in {desired, read.target}
    /\ step' = "report"
    /\ UNCHANGED <<loadVars, running, beats, read, began, globals, history>>

Return ==
    /\ step = "report"
    /\ Finish(TRUE)
    /\ UNCHANGED <<loadVars, ecsVars, globals, history>>

\* put_metric_data raises before or after the decision; the heartbeat becomes
\* visible again and the handler runs once more.
put_metric_raises ==
    /\ "metric" \in Faults
    /\ step \in {"metrics", "report"}
    /\ Finish(FALSE)
    /\ UNCHANGED <<loadVars, ecsVars, globals, history>>

Handler ==
    \/ Invoke \/ get_rabbitmq_backlog \/ get_rabbitmq_arrival_rate
    \/ get_worker_count \/ SkipWithoutMetrics \/ put_metrics
    \/ update_service \/ Return

HandlerFault == RabbitFails \/ update_service_raises \/ put_metric_raises

Next ==
    \/ LoadChanges \/ Heartbeat \/ Reconcile \/ TaskDies \/ ScaleByHand
    \/ Tick \/ ColdStart
    \/ Handler \/ HandlerFault

Spec == Init /\ [][Next]_vars

\* The publisher thread of a running worker beats on, ECS reconciles, time
\* passes, and the event source mapping invokes the handler.
Fairness ==
    /\ WF_vars(Heartbeat) /\ WF_vars(Reconcile) /\ WF_vars(Tick)
    /\ WF_vars(Handler \/ HandlerFault)

FairSpec == Spec /\ Fairness
-----------------------------------------------------------------------------
(* Properties *)

Reading == [backlog : Backlogs \cup {None}, rate : Rates \cup {0, None},
            current : WorkerMin .. WorkerMax \cup {None}, elapsed : Age,
            target : WorkerMin .. WorkerMax \cup {None}]

\* Types; above all the service is never asked for a number of tasks outside
\* WORKER_MIN .. WORKER_MAX, whatever was read.
TypeOK ==
    /\ backlog \in Backlogs /\ rate \in Rates
    /\ desired \in WorkerMin .. WorkerMax
    /\ running \in 0 .. WorkerMax
    /\ beats \in 0 .. MaxBeats
    /\ step \in HandlerStep
    /\ read \in Reading
    /\ began \in 0 .. HandlerTimeout
    /\ lastScale \in Age /\ sinceUpdate \in Age
    /\ prevBacklog \in Backlogs \cup {None}
    /\ replaced \in BOOLEAN

\* Scaling does not flap: while one Lambda environment lives, a change follows
\* the last confirmed one after the cooldown of its direction, less the time
\* one invocation can take (the cooldown is counted from the start of the
\* invocation that scaled, the change comes somewhere within it).  Heartbeats
\* that are delivered again after an exception make no second change.  The
\* direction is that of the size it has read, which may be out of date.
ScalingSpaced ==
    [][step = "update" /\ step' = "report" /\ desired' # desired =>
         \/ replaced
         \/ sinceUpdate >= Cooldown(desired', read.current) - HandlerTimeout]_vars

\* A decision is taken on a rate the queue really had: the handler says it
\* skips the evaluation when it fails to get its metrics.  False: a failed
\* call for the rate is read as zero.
DecidesOnRealRate == step = "update" => read.rate \in Rates

\* From some time on the load is steady, tasks live and calls succeed (a failed
\* call for a rate of zero is none: it leaves what a successful one leaves).
Steady ==
    <>[][~(\/ LoadChanges \/ TaskDies \/ ScaleByHand \/ ColdStart
           \/ HandlerFault /\ ~Handler
           \/ SkipWithoutMetrics /\ read.backlog # None)]_vars

\* Under a steady load the service settles at the size the formula gives for
\* that load, with no growth: whatever the cooldowns held back, whatever the
\* controller last remembered, and although only running workers wake it.
Converges ==
    Steady => <>[](desired = Wanted(backlog, rate, 0) /\ running = desired)
=============================================================================
