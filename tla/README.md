# A verification project for awsticketmaster

The repository is a ticket shop on AWS: a load generator publishes purchase
requests to RabbitMQ, a service of ECS workers sells seats and tickets in
PostgreSQL, a Lambda function changes the number of workers with the load, and
a cleanup script empties queues and tables between two experiments.
This directory holds TLA+ models of it, their TLC configurations, and theorems
about them checked by TLAPS. Paths below are relative to the repository's root.

## 1. Inventory

| Component | State | Operations | Interacts with |
|---|---|---|---|
| Ticket worker (`worker/app/main.py`, `models.py`) | the message under the callback, its result so far, deliveries buffered by pika, `running` | `process_message` (parse, idempotence check, payment delay, sale, result, ack / nack / retry), `main` (connect, reconnect), `sqs_scaling_publisher`, `signal_handler` | broker (deliveries, ack, nack, publish), database, SQS |
| Database (`worker/app/db.py`, `infra/modules/postgres/user_data.sh`) | tables `seats`, `inventory`, `processed`, `results`; row locks; a connection pool per worker | `check_idempotent`, `sell_seat`, `decrement_inventory`, `mark_processed`, commit, rollback | workers, cleanup, export |
| Broker (`infra/modules/rabbitmq/user_data.sh`) | quorum queues `tickets.buy` and `tickets.dlq`, unacknowledged deliveries, connections, policy `dlx-tickets` | deliver within the prefetch window, ack, dead-letter, requeue when a connection ends | load generator, workers, autoscaler (management API), cleanup |
| Autoscaler (`infra/modules/autoscaling/controller.py`, `main.tf`) | module globals `_last_scale_time`, `_prev_backlog`, `_prev_arrival_rate` | `handler`: read backlog, rate and service, compute the target, publish metrics, `update_service` | SQS heartbeats, management API, ECS, CloudWatch |
| Load generator (`loadgen/app/main.py`, `config.py`) | hot seats, one connection, `running` | `publish_batch`, `run_zt`, `_pick_seat`, `signal_handler` | broker |
| Cleanup (`benchmarks/cleanup.py`) | none of its own | wait for drain, purge the queues, reset and verify the tables, kill connections | broker, database |
| Benchmark scripts (`benchmarks/run_*.py`, `run_*.sh`) | result directories | scale the service, run load, wait for drain, export | all of the above |
| Export and analysis (`benchmarks/analysis`, `collect_results.py`) | CSV files | queries by time window, plots | database |
| Tests (`benchmarks/tests`) | their own event and requests | oversell and fault-tolerance scenarios against a deployment | all of the above |
| Terraform (`infra`) | none | declarative | sets the constants: timeouts, concurrency, limits |

What is hard in it:

* **Workers run concurrently** on the same rows, and a worker that has lost its
  connection goes on with a message another worker receives too.
* **The handler is not one transaction.** The sale commits first, the result in
  a second transaction, the acknowledgement follows. A crash, a lost connection
  or a failing statement can fall between any two.
* **A commit that raises may have been done**; `update_service` likewise.
* **A retry is an ack followed by a publish** of a copy, without confirms.
* **Row locks** are held by open transactions of workers that may die.
* **Connections die unnoticed.** The server ends sessions (a restart, or the
  cleanup); the pool hands them out all the same, and returning one may raise.
* **The cleanup runs beside the workers.** It polls, purges and resets step by
  step while they deliver, retry, die and commit.
* **The controller's memory** (cooldown, previous backlog) is in globals of a
  Lambda environment that may be replaced, its readings are separate calls, and
  it is only woken by the workers it scales.

What makes each part correct:

* worker and database: a seat is sold to one request for good, no more tickets
  than the capacity, one answer per request and that answer true; no request
  without an answer or a dead letter; every request settles in the end;
* broker and worker: one live copy of a request at a time, every delivery
  accounted for across reconnections;
* autoscaler: the size asked for stays in its limits, changes keep their
  distance, a steady load leads to the size the formula gives for it;
* worker process: a callback gives back what it took whatever raised, the number
  of sessions and of leaked slots is bounded, and it recovers from outages;
* load generator: the rate of a batch is kept when it catches up, the total it
  reports is right but for one message, a signal is heeded, the schedule ends;
* cleanup: it ends, it forgets sales and answers together, and after a queue
  that was seen empty, with no work beside it, the next experiment starts fresh.

`PROJECT.json` lists the hazards line by line with the properties that watch
them.

## 2. Modules

| Module | What it models |
|---|---|
| `Orders` | workers, requests, what a message body says, possible answers |
| `TicketSales` | abstract specification: what the shop promises, without queue, workers or faults |
| `Database` | the tables and the four statements, row locks, commit, rollback |
| `Broker` | queues, deliveries, connections, dead letters |
| `TicketWorker` | the workers, composed with `Broker` and `Database`; all properties of this part |
| `DlxPolicy` | whether the deployed policy pattern matches the queue name, through JSON and regex escapes |
| `Autoscaler` | the control loop: heartbeats, the Lambda handler call by call, ECS, scaling by hand |
| `WorkerProcess` | one worker process seen from its connections: the pool, the two connections of a callback, outages of the server, signal, end of `main` |
| `LoadGenerator` | the schedule of `run_zt`, pacing, confirms and publish errors, hot seats, signal |
| `Cleanup` | `cleanup.py`, composed with the workers, the broker and the tables |
| `MCTicketWorker`, `MCAutoscaler`, `MCLoadGenerator`, `MCCleanup` | instances for TLC (`WorkerProcess` needs none) |
| `TicketWorkerProofs`, `SalesProofs`, `DeliveryProofs`, `ExactlyOnceProofs` | theorems about `TicketWorker`: types; sales and refinement; messages; where exactly-once ends |
| `CleanupProofs`, `WorkerProcessProofs`, `AutoscalerProofs`, `LoadGeneratorProofs` | theorems about the module each is named after |

`TicketWorker` EXTENDS `Broker` and `Database`, both EXTEND `Orders`;
`TicketWorker` instantiates `TicketSales` with `answer <- processed`. `Cleanup`
EXTENDS `TicketWorker`. `WorkerProcess` looks at the same handler as
`TicketWorker`, which keeps what it writes and leaves its connections to SQL
faults; `WorkerProcess` keeps the connections and leaves out the messages. Each
proof module EXTENDS what it is about; `DeliveryProofs` and `SalesProofs` both
build on `TicketWorkerProofs`, `CleanupProofs` on `DeliveryProofs`, and
`ExactlyOnceProofs` on both.

### How TicketWorker corresponds to the code

`pc[w]` is the place of worker `w` in `process_message`; every call that another
process can tell apart is one action: `Take` (parse), `CheckIdempotent`, `Pay`
(payment delay), `SellNumbered` / `SellUnnumbered` (the conditional UPDATE,
which takes the row lock), `Commit`, `MarkProcessed` (both INSERTs and their
commit), `Ack`, `Reject`, and for the except handler `SqlFails` or
`CommitUnconfirmed`, then `RetryAck` and `PublishRetry` or `RetriesExhausted`.
`main` is `Start`, `Connect` and `Reconnect`. A definition marked MUTANT is a
plausible wrong version of the one after it; no specification uses it.

Abstractions, and why they lose nothing the properties look at:

* Queues are sets, so any waiting message may be delivered next. A set cannot
  hold two equal copies; `SingleLiveCopy` shows that there never are any.
* pika runs the callbacks of one connection one after the other. The prefetch of
  10 (said in `informe_final.md` to overlap the payment delays) only fills the
  buffer `inbox[w]`; a worker handles one message at a time.
* An UPDATE is enabled only while its row is not locked. That is how PostgreSQL
  treats a second writer under READ COMMITTED: it waits and then re-evaluates
  the WHERE clause on the committed row. The INSERTs commit in the same step.
* The payment delay and the retry backoff are time without effect: an action
  whose duration is left open. The backoff is the delay of `Take`.
* A broken connection is noticed at the next channel call. Until then the worker
  goes on (`link[w] = "lost"`), while the broker has requeued its deliveries. A
  frame written in that state reaches nobody, or the call raises (`Reconnect`).
* `get_conn` raises in two ways. The one at the top of `process_message` is
  outside the `try` and ends the process (fault kind "pool", `GetConnFails`);
  those of the sale and of the result are failures of the message like those of
  a statement, and belong to "sql" (`SqlFails`). Why they are that rare, a
  connection leaked or a server that is down, is the subject of `WorkerProcess`.
* When a client dies PostgreSQL rolls its transaction back and RabbitMQ requeues
  in the same step; both happen without the program.
* Seats that requests name exist (the generator draws from `1..total_seats`),
  and there is one event of each kind, as the schema creates them.

### How Autoscaler corresponds to the code

Each network call of `handler` is an action, named after the function that makes
it; `read` holds the handler's local variables, `lastScale` and `prevBacklog`
its globals (`_prev_arrival_rate` is only compared with None and is set together
with `_prev_backlog`; `_last_scale_direction` is never read). The Lambda has a
reserved concurrency of 1 and batches of one record, so there is one invocation
at a time, and a heartbeat whose invocation raises comes back. `running` and the
metrics do not enter the decision, so `read` has no place for them. Time is counted in
ticks, ages up to the longest cooldown, after which no comparison tells them
apart. `sinceUpdate` and `replaced` are history variables for the properties.
`ScaleByHand` is `scale_workers` of `run_all_benchmarks.sh`: it sets the desired
count at any moment, also between a handler's reading and its update.

### How WorkerProcess corresponds to the code

`pool` is the list of idle connections of psycopg2's `ThreadedConnectionPool`,
`outer` is `conn` of `process_message`, `inner` the connection of the sale or of
`mark_processed`. `Getconn` and `Putconn` are the library's rules as `db.py` uses
them: the last idle connection first, untested; a new one if there is none and
`maxconn` allows it; on return a closed connection is dropped, one beyond
`minconn` closed, one in a transaction rolled back. A rollback on a session the
server has ended raises before the slot is freed; that is `leaked`. A statement
is what notices a dead session. `get_conn` at the top of `process_message` is
outside its `try`, so what it raises ends the process, while the nested one
counts as a failure of the message. `signal_handler` clears `running`, which only
the loop of `main` reads: `start_consuming` never does, so the process ends only
when its connection to the broker does, or by SIGKILL.

Which message is handled is left open: after `CheckIdempotent` any branch may
be taken. That admits every sequence of messages, and is all the connections
depend on.

### How LoadGenerator corresponds to the code

`Schedule` is the list of `publish_batch` calls of `run_zt`, one function for
each of its loops (`RampUp`, `Bursts`, `Cooldown`) joined in order; `Following`
is the next call, given that a `break` leaves one loop and not `run_zt`. One message goes through `BuildMessage`, `PickHot` or `PickAny`
and `DrawCold`, `Publish` or `PublishError`, and `pace`, where the loop sleeps
until `batch_start + (count + 1) * interval`. Time is in seconds and rates are
fractions, so that target times are compared exactly. A publish takes any time;
one that hangs is cut off by `MaxStall` seconds past its deadline. When the
connection breaks under a publish the message may have arrived. A batch
publishes one message fewer than rate times duration, as the code does.

### How Cleanup corresponds to the code

`cl` is the place in `cleanup.py`. Each poll, purge, SQL statement and commit is
an action; workers step in between. `gone` is what the open transaction has
deleted or reset, applied at `CommitReset`: a statement sees what is committed
when it starts, workers that need its rows wait (`HeldBack`), and what they
commit after it is not touched. `killed` counts the terminated sessions a worker
has yet to notice, each of which costs it one statement
(`StatementOnKilled`, justified by `StaleCost` of `WorkerProcess`; with the
default of two sessions). The depth the management API reports is taken to be
current; it includes unacknowledged messages, as `messages` does. `unseen` is a
history variable: whether some worker had work at that moment that is in no
queue (`Uncounted`). A commit of the reset that raises may have been done
(`ResetUnconfirmed`). Since
each kill costs a worker two failures, a cleanup with retries can use up the
retries of a message and dead-letter it.

## 3. Runs

| Run | Configuration | What it shows |
|---|---|---|
| `all_faults` | 2 workers, 2 buyers of 1 seat, all fault kinds, prefetch 2, 1 retry | the safety of the whole handler: `DeliveriesAccounted`, `SingleLiveCopy`, `AnswersTruthful`, its inductive form `SalesInv`, `LossOnlyInRetryWindow`, and refinement of `TicketSales` |
| `lost_workers` | 2 workers, 2 ticket buyers, 2 tickets, crashes and lost connections | without SQL errors no request is lost at all; promised tickets are backed; requests settle once the workers are stable |
| `sql_errors` | 2 workers, 4 requests: a good one, one without a seat, an unknown mode, an unparsable body; SQL errors, those of the nested `get_conn` included, and deaths at the outer one | retries are bounded and end in an answer or a dead letter even if every statement fails; no answered request is sold for again |
| `autoscaler_cooldowns` | backlog 0 or 20, rate 0 or 25, 1 to 4 workers, all faults, scaling by hand | limits, distance of changes, convergence |
| `worker_pool` | pool of 2 to 4, three outages, any number of other faults | the handler leaves nothing checked out and no transaction open over the payment; sessions, leaks and the cost of stale sessions are bounded; recovery |
| `load_schedule` | two schedules, three choices of seats, refused messages, a lost connection, a signal | rates while catching up, the reported total, the signal in every loop, the end |
| `cleanup_beside_workers` | 1 worker that may die and whose statements may fail, an order of each kind, one retry, failing API calls and statements | deliveries stay accounted for across purges, a fresh start after an empty queue, sales and answers forgotten together, the script ends |
| `exactly_once` (violation) | crashes | a sale whose result was not recorded is made again or answered "rejected" |
| `lost_retry` (violation) | crashes and SQL errors | a request lost between ack and republish |
| `dead_letter` (violation) | SQL errors, the policy as deployed by Terraform | exhausted messages are dropped |
| `cleanup_fresh` (violation) | 2 workers, no faults, a drain that times out, `--force` | workers sell into the tables after "Ready for next experiment" |
| `autoscaler_blind` (violation) | a failing management API | a decision on an arrival rate the queue never had |

The violations are disagreements between the code and what its own roadmap and
comments say; `PROJECT.json` quotes the lines under `findings`. `AnswersTruthful`
and `ImplementsSales` state what the code does guarantee instead of exactly-once:
an answer never contradicts the tables, but it need not be the answer of the
sale the request itself made (a request may own a seat and be told "rejected").

### Bounds

* Two workers: every hazard listed is between a worker and one other (or itself
  after a restart). The theorems hold for any number.
* Two requests compete for one seat or one counter; four in `sql_errors`, one of
  each kind, which keeps every branch of the handler in one run.
* `MaxRetries = 1` has a first attempt, a retry, and the exhausted case; the code
  compares the count with the limit and nothing else. The code's default is 3.
* `Capacity = 2` with two ticket buyers: a third decrement, after a crash, meets
  the guard `sold < capacity`. Prefetch 2 lets a worker hold a second delivery.
* Autoscaler: ticks of 15 seconds (the heartbeat interval) make the cooldowns 2
  and 6 ticks and the Lambda timeout 2. The loads ask for 1, 3 and more workers
  than the limit, and the backlog's jump asks for two more on top. One heartbeat
  waits in the queue at a time: a second one would start the same handler again.
* Pool: `MinConn = 2` is the default; `MaxConn = 4` instead of 10, so that three
  outages can leak the slots that leave no room. Leaks need an outage each, so
  more of them show nothing new.
* Load generator: two steps of ramp and cooldown instead of 20 and 10, rates of
  0 to 3 a second and phases of 0 to 2 seconds, which has every batch empty,
  short and long; a stall of one second forces catching up.
* Cleanup: the passing run has one worker, which with its faults is what TLC
  finishes in a few minutes; the script's races are with one worker at a time, but
  for workers that take the inventory row in turn. The violation needs two. One
  poll and one retry have the timeout, the retry and its failure. Lost
  connections of the worker are left out, for they double the states; the
  theorems `DrainedStartIsFresh` and `ResetForgetsWhole` cover them.
  `DrainedStart` excepts a depth of zero read while a message is between
  acknowledgement and republication, or with a worker that was cut off
  (`unseen`): in both cases work goes on after it that sells into fresh tables.
* Runs under `CHECK_DEADLOCK FALSE` really may stop: with a finite number of
  requests and no crash to come, idle workers wait for ever; a load generator
  and a cleanup end.

### Fairness and liveness

`FairSpec` of `TicketWorker` has weak fairness for each process and for the
delivery to each consumer. The code justifies it: the handler waits for nothing
without a bound but a row lock, whose holder commits, fails or dies; ECS restarts
tasks; `main` reconnects for ever; the broker fills open prefetch windows. No
fairness is assumed of load, faults or the choice of a message.
`EveryRequestSettles` is conditional on `Stabilises`: from some time on no
process dies and no connection breaks. Otherwise a message can go from one dying
worker to the next for ever, since crashes are not counted as retries
(`get_conn` is outside the `try`). SQL errors may go on for ever.

`FairSpec` of `Autoscaler` has weak fairness for the heartbeat (the publisher
thread of a running worker loops for ever), for ECS, for time and for the
handler (SQS invokes it while a heartbeat waits). `Converges` is conditional on
`Steady`: in the end the load is constant, tasks live and calls succeed.

`FairSpec` of `WorkerProcess`: the process goes on, messages keep coming, ECS
restarts it, and a database that is down comes up again. `Recovers` is
conditional on the end of faults and signals, and on room in the pool:
`leaked + 2 <= MaxConn`. Without the second condition it is false: slots leaked
in several outages leave one connection, every message then fails in its nested
`get_conn`, and nothing restarts the worker.

`FairSpec` of `LoadGenerator`: the process runs, a publish returns or raises,
time passes. `Finishes` excepts the draw of a cold seat when all are hot, which
really never ends (`_pick_seat`); no property watches that hazard.

`CleanFairSpec`: the workers as above, `cleanup.py` runs on, and its UPDATE of
the inventory is strongly fair, because PostgreSQL queues those who wait for a
row. `CleanupEnds` needs no assumption about faults.

`ScalingSpaced` is about the controller's own changes. It has to
concede one Lambda timeout, because the cooldown is counted from the start of the invocation that scaled, and an exception after a
replaced environment, whose globals start afresh. With the deployed numbers (30
seconds for scaling up and a timeout of 30 seconds) nothing is left of the
guarantee upwards; downwards 60 of the 90 seconds remain.

## 4. Theorems

Every safety invariant and action property of the passing runs is also a theorem,
and so is the refinement. They hold for any finite set of requests, any sets of
workers and seats, every capacity, prefetch, retry limit, pool size, cooldown,
schedule and so on, and rest on nothing but the named assumptions about the
constants in the module that declares them, which TLC evaluates in every run,
and on what a theorem's own ASSUME says.

All follow one pattern: an inductive invariant that contains the property, a
lemma for each kind of step, and temporal logic at the end. What the invariant
adds is the argument.

**Workers** (`Spec` of `TicketWorker`, under any set of fault kinds unless said
otherwise)

* `TypeCorrect` (`TypeOK`). Types alone are not inductive: `Req(w)` is only
  defined while `w` holds a message, and a retry count only stays in its range
  because `republish` is entered below the limit. `TypeInv` adds `HandlesOrder`
  for every worker.
* `AnswersAreTruthful` (`AnswersTruthful`) and `SalesConsistent` (`SalesInv`).
  When a result is recorded, nothing in `processed` says why it is true; the
  reason is in the worker's hands. `IInv` (`TypeInv` and `SalesInv`) says that an
  open transaction is the sale its worker is about to commit on a row still for
  sale (`OpenSale`), that no two workers hold one row (`RowsLockedOnce`), that a
  result not yet recorded is already true (`ResultTruthful`), and that tickets
  promised and tickets in hand together never outnumber the inventory's
  (`TicketsBacked`).
* `WorkersImplementSales` (`ImplementsSales`). Only `CommitSale` and
  `mark_processed` are visible through the mapping; under `IInv` the one is
  `SellSeat`, `SellTicket` or a stutter, the other `RecordAnswer` or a stutter.
* `DeliveriesAreAccounted` and `OneLiveCopy`. `DeliveryInv` compares the places a
  message can be in two by two (`OneCopy`), ties the connection to the place in
  the handler (`Linked`), and says that only published requests have copies
  (`Known`), so that a publication adds the first one. Most steps move no
  message; each other step moves one from one place to the next.
* `LossesOnlyInRetryWindow`, with the dead-letter policy in place. `AckAnswered`
  is what it needs beside `DeliveryInv`: whoever is about to acknowledge has
  seen or recorded the answer. Without the policy an
  exhausted message is such a loss too (`dead_letter`).
* `NothingIsLost`, with the policy, and SQL errors (the nested `get_conn`
  included) or else crashes and lost connections, not both: without the first nobody retries (`NoRetry`), without
  the others nothing falls into the window. Both together do lose a request
  (`lost_retry`).
* `NoSecondSale` (`NoSaleOnceAnswered`), if no connection is lost: then who
  handles a message has the only copy, so nobody else can answer it.
* `ExactlyOnceWithoutFaults` (`SoldExactlyOnce`), if no process crashes, no
  connection is lost and no statement raises, nor the `get_conn` of a sale or a
  result. It is the other half of the
  violation `exactly_once`; no passing run checks it. A process may still die
  where the outer `get_conn` raises, before anything is sold.
  `ExactInv` says that every seat and every ticket that is gone is answered for
  or about to be, and that answers belong to published requests.

**Cleanup** (`CleanSpec`; a step of a worker beside the script is one of
`TicketWorker`, so the lemmas carry over)

* `CleanTypes` and `AccountsSurviveCleanup` (`CleanTypeOK`,
  `DeliveriesAccounted`): the invariants of above survive purges, killed sessions
  and the reset.
* `DrainedStartIsFresh` (`DrainedStart`), under all faults. `RestInv` says that
  once the queue was seen empty, with nothing that no queue counts, everybody is
  at rest for good (`AtRest`): everything was published, and nothing is queued or
  in somebody's hands. Then the tables verified one after the other stay empty.
* `ResetForgetsWhole` (`ForgottenWhole`), under all faults, killed sessions,
  cut-off workers and failing resets included. `Forgetting` says what the open
  transaction holds: the seats of every request whose answer it has deleted, once
  it has come to the seats. What could break it is a sale for a request that has
  its answer. There may be one in general; but while the script can be deleting,
  a worker with a live session knows no state older than the last reset
  (`Fresh`), and then an answer implies that the seat is gone (`Taken`). A worker
  that does remember the tables of before the reset has its sessions terminated
  at the start of the next attempt, before the first DELETE: this is what the
  order of the code is for.

**Worker process** (`Spec` of `WorkerProcess`)

* `ProcessTypes`, `CallbackLeavesNothing`, `SessionsAreBounded`,
  `LeaksAreBounded`, `OutagesAreBounded` (`TypeOK`, `HandlerLeavesNothing`,
  `SessionsBounded`, `LeakBounded`, `StaleCost`). `ProcessInv` adds which state
  each of the two connections can be in at each step (`Hands`), that no slot is
  used twice (`Slots`), and two accounts: a leak, or a connection about to be
  leaked, is paid by an outage (`LeaksPaid`), and failures since the last outage
  together with the severed sessions still around never exceed the sessions there
  can be (`StalePaid`). The lemmas about `DeadIn` count severed sessions in a
  sequence.

**Autoscaler** (`Spec` of `Autoscaler`)

* `ScalingTypes` (`TypeOK`, with the limits of the service) and `ScalingIsSpaced`
  (`ScalingSpaced`). `ScalingInv` adds what has been read at which step, that a
  running handler has its heartbeat in the queue, and how the clocks relate: the
  age the invocation has read, that of `_last_scale_time`, and the time since the
  last confirmed change (`Clocks`).

**Load generator** (`Spec` of `LoadGenerator`)

* `LoadTypes`, `RateIsKept`, `OneIsUncounted`, `StopIsQuiet` (`TypeOK`,
  `RateKept`, `AtMostOneUncounted`, `QuietAfterStop`). `ScheduleShape` says where
  the phases lie in the schedule for any numbers of steps and bursts, so that a
  `break` leads to a batch there is. `LoadInv` adds when a message may be built
  (`Paced`), that the count is exact while the connection lives (`Counted`), and
  that nobody builds a message once one has followed the signal (`Quiet`).

Only model-checked:

* liveness: `EveryRequestSettles`, `Converges`, `Recovers`, `Finishes`,
  `CleanupEnds`. It needs fairness, hence ENABLED, which is outside the prover's
  reach; so is induction over data, and with it what the recursive functions of
  `DlxPolicy` compute;
* the violations, each of which is one counterexample.

## 5. What the models say that the documents do not

* A worker never uses more than `max(minconn, 2)` sessions (`SessionsBounded`):
  callbacks of a connection run one after the other. `results.md:110` reckons
  with "8 workers x pool=10 = 80 conexiones"; it is 16.
* SIGTERM does not stop a worker that consumes; ECS kills it.
* Leaked pool slots can leave a worker that fails every message and lives on.
* A session that was killed or whose server restarted costs the message that
  meets it a retry, so a forced cleanup spends retries of live messages.

## 6. Not modelled, and the plan

What is left to prove: that the hypotheses of the theorems of section 4 cannot be
dropped is shown by a run for `NothingLost` and `SoldExactlyOnce`, and stated
without one for `LossOnlyInRetryWindow` (the policy) and `NoSaleOnceAnswered`
(connections). Worth stating beyond what the
runs check: what a client of `TicketSales` may conclude from it (an answer never
changes, a seat is never sold twice), carried over to the workers by
`WorkersImplementSales`; and that until the first reset commits, the workers
beside `cleanup.py` still implement `TicketSales`.

Not modelled:

* the experiment runner and the benchmark scripts: one sequential script after
  the other; what they do beside running processes (scaling by hand, the drain
  check, the cleanup) is in `Autoscaler` and `Cleanup`;
* export, analysis and plots: queries of finished tables and formatting. That
  `export_results.py` bounds the rows by a time taken before the queue is drained
  is listed under the hazards;
* the tests against a deployment, and Terraform (declarative; its values are the
  constants of the models);
* how long things take: retry backoff, payment delay and reconnection are delays
  of open length, except in `Autoscaler` and `LoadGenerator`, which are about time;
* logging and the values of metrics.
