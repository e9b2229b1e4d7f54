---------------------------- MODULE TicketWorker ----------------------------
(***************************************************************************)
(* The worker (worker/app/main.py): several processes that consume         *)
(* tickets.buy, sell seats and tickets in PostgreSQL, record one result    *)
(* per request and acknowledge, retry or dead-letter the message.          *)
(*                                                                         *)
(* pika runs the callbacks of a BlockingConnection one after the other, so *)
(* a worker handles one message at a time and the next ones wait in its    *)
(* inbox.  pc[w] is where worker w stands:                                 *)
(*                                                                         *)
(*   down        no process                                                *)
(*   connecting  in the loop of main, without a connection                 *)
(*   idle        in start_consuming, between two callbacks                 *)
(*   check       before get_conn and check_idempotent                      *)
(*   pay         in the payment delay                                      *)
(*   sell        before sell_seat or decrement_inventory                   *)
(*   commit      before the commit of the sale                             *)
(*   mark        before mark_processed                                     *)
(*   ack         before basic_ack of an answered request                   *)
(*   reject      before basic_nack of a message that is not a request      *)
(*   failed      in the except handler of process_message                  *)
(*   republish   acknowledged, before _publish_retry                       *)
(***************************************************************************)
EXTENDS Broker, Database

CONSTANT Faults         \* the kinds of fault that may occur

\* crash: the process dies (a bug, SIGKILL, the end of its host)
\* link:  the connection to RabbitMQ is lost
\* sql:   a statement, a commit or the get_conn of a sale or a result raises
\* pool:  the get_conn at the top of process_message raises
FaultKind == {"crash", "link", "sql", "pool"}

ASSUME FaultsAssumption == Faults \subseteq FaultKind

VARIABLES
    pc,
    cur,                \* cur[w]: the message w handles, or None
    result,             \* result[w]: its result so far, or None
    inbox               \* inbox[w]: delivered to w, not yet handled

workerVars == <<pc, cur, result, inbox>>
vars == <<brokerVars, dbVars, workerVars>>

Step == {"down", "connecting", "idle", "check", "pay", "sell", "commit",
         "mark", "ack", "reject", "failed", "republish"}

\* Statements that run against the database, and calls on the channel.
SqlStep == {"check", "sell", "commit", "mark"}
ChannelStep == {"ack", "reject", "failed", "republish"}

TypeOK ==
    /\ BrokerTypeOK
    /\ DbTypeOK
    /\ pc \in [Worker -> Step]
    /\ cur \in [Worker -> Message \cup {None}]
    /\ result \in [Worker -> Outcome \cup {None}]
    /\ inbox \in [Worker -> SUBSET Message]

Init ==
    /\ BrokerInit
    /\ DbInit
    /\ pc = [w \in Worker |-> "down"]
    /\ cur = [w \in Worker |-> None]
    /\ result = [w \in Worker |-> None]
    /\ inbox = [w \in Worker |-> {}]

-----------------------------------------------------------------------------
(* The load generator, the life of a process and its connection. *)

Publish(r) ==
    /\ BrokerPublish(r)
    /\ UNCHANGED <<dbVars, workerVars>>

Goto(w, step) == pc' = [pc EXCEPT ![w] = step]

\* MUTANT of Forget: buffered deliveries survive the connection.
ForgetKeepsInbox(w) ==
    /\ cur' = [cur EXCEPT ![w] = None]
    /\ result' = [result EXCEPT ![w] = None]
    /\ UNCHANGED inbox

\* Nothing of the handler or of the client library's buffers is left.
Forget(w) ==
    /\ cur' = [cur EXCEPT ![w] = None]
    /\ result' = [result EXCEPT ![w] = None]
    /\ inbox' = [inbox EXCEPT ![w] = {}]

\* ECS keeps the service at its desired count.
Start(w) ==
    /\ pc[w] = "down"
    /\ Goto(w, "connecting")
    /\ UNCHANGED <<brokerVars, dbVars, cur, result, inbox>>

\* A failed attempt sleeps five seconds and changes nothing.
Connect(w) ==
    /\ pc[w] = "connecting"
    /\ OpenLink(w)
    /\ Goto(w, "idle")
    /\ UNCHANGED <<dbVars, cur, result, inbox>>

Receive(w, m) ==
    /\ BrokerDeliver(w, m)
    /\ inbox' = [inbox EXCEPT ![w] = @ \cup {m}]
    /\ UNCHANGED <<dbVars, pc, cur, result>>

LinkLost(w) ==
    /\ "link" \in Faults
    /\ link[w] = "up"
    /\ EndLink(w, "lost")
    /\ UNCHANGED <<dbVars, workerVars>>

\* A channel call, or the wait for the next delivery, raises; the exception
\* leaves process_message and main reconnects.
Reconnect(w) ==
    /\ link[w] = "lost"
    /\ pc[w] \in ChannelStep \cup {"idle"}
    /\ EndLink(w, "closed")
    /\ Goto(w, "connecting")
    /\ Forget(w)
    /\ UNCHANGED dbVars

\* MUTANT of Die: the transaction of a dead client keeps its row lock.
DieHoldingLock(w) ==
    /\ EndLink(w, "closed")
    /\ Goto(w, "down")
    /\ Forget(w)
    /\ UNCHANGED dbVars

\* The process dies: the broker requeues, PostgreSQL rolls back.
Die(w) ==
    /\ EndLink(w, "closed")
    /\ RollbackSale(w)
    /\ Goto(w, "down")
    /\ Forget(w)

Crash(w) ==
    /\ "crash" \in Faults
    /\ pc[w] # "down"
    /\ Die(w)

-----------------------------------------------------------------------------
(* process_message *)

Req(w) == cur[w].req

\* The callback returns.
Return(w) ==
    /\ Goto(w, "idle")
    /\ cur' = [cur EXCEPT ![w] = None]
    /\ result' = [result EXCEPT ![w] = None]
    /\ UNCHANGED inbox

\* The callback starts; a body that does not parse is rejected at once.
Take(w, m) ==
    /\ pc[w] = "idle"
    /\ m \in inbox[w]
    /\ inbox' = [inbox EXCEPT ![w] = @ \ {m}]
    /\ cur' = [cur EXCEPT ![w] = m]
    /\ Goto(w, IF Order[m.req].mode = "malformed" THEN "reject" ELSE "check")
    /\ UNCHANGED <<brokerVars, dbVars, result>>

\* This get_conn is outside the try: what it raises ends the process.
GetConnFails(w) ==
    /\ "pool" \in Faults
    /\ pc[w] = "check"
    /\ Die(w)

\* check_idempotent, and what the mode asks for if there is no result yet.
CheckIdempotent(w) ==
    /\ pc[w] = "check"
    /\ LET r == Req(w)
           existing == check_idempotent(r)
       IN  \/ /\ existing # None
              /\ Goto(w, "ack")
              /\ UNCHANGED result
           \/ /\ existing = None
              /\ r \in Unnumbered \/ (r \in Numbered /\ SeatOf(r) # None)
              /\ Goto(w, "pay")
              /\ UNCHANGED result
           \/ /\ existing = None
              /\ r \in Numbered /\ SeatOf(r) = None
              /\ result' = [result EXCEPT ![w] = "error"]
              /\ Goto(w, "mark")
           \/ /\ existing = None
              /\ r \notin Numbered \cup Unnumbered
              /\ Goto(w, "reject")
              /\ UNCHANGED result
    /\ UNCHANGED <<brokerVars, dbVars, cur, inbox>>

Pay(w) ==
    /\ pc[w] = "pay"
    /\ Goto(w, "sell")
    /\ UNCHANGED <<brokerVars, dbVars, cur, result, inbox>>

\* MUTANT of SellNumbered: the row count is not looked at.
SellNumberedUnchecked(w) ==
    /\ pc[w] = "sell"
    /\ Req(w) \in Numbered
    /\ \E rows \in {0, 1} : sell_seat(w, SeatOf(Req(w)), rows)
    /\ result' = [result EXCEPT ![w] = "sold"]
    /\ Goto(w, "commit")
    /\ UNCHANGED <<brokerVars, cur, inbox>>

\* The UPDATE of process_numbered; it waits while the row is locked.
SellNumbered(w) ==
    /\ pc[w] = "sell"
    /\ Req(w) \in Numbered
    /\ \E rows \in {0, 1} :
         /\ sell_seat(w, SeatOf(Req(w)), rows)
         /\ result' = [result EXCEPT ![w] =
                          IF rows > 0 THEN "sold" ELSE "rejected"]
    /\ Goto(w, "commit")
    /\ UNCHANGED <<brokerVars, cur, inbox>>

\* The UPDATE of process_unnumbered.
SellUnnumbered(w) ==
    /\ pc[w] = "sell"
    /\ Req(w) \in Unnumbered
    /\ \E rows \in {0, 1} :
         /\ decrement_inventory(w, rows)
         /\ result' = [result EXCEPT ![w] =
                          IF rows = 0 THEN "sold_out" ELSE "sold"]
    /\ Goto(w, "commit")
    /\ UNCHANGED <<brokerVars, cur, inbox>>

Commit(w) ==
    /\ pc[w] = "commit"
    /\ CommitSale(w, Req(w))
    /\ Goto(w, "mark")
    /\ UNCHANGED <<brokerVars, cur, result, inbox>>

MarkProcessed(w) ==
    /\ pc[w] = "mark"
    /\ mark_processed(Req(w), result[w])
    /\ Goto(w, "ack")
    /\ UNCHANGED <<brokerVars, cur, result, inbox>>

Ack(w) ==
    /\ pc[w] = "ack"
    /\ basic_ack(w, cur[w])
    /\ Return(w)
    /\ UNCHANGED dbVars

Reject(w) ==
    /\ pc[w] = "reject"
    /\ basic_nack(w, cur[w])
    /\ Return(w)
    /\ UNCHANGED dbVars

-----------------------------------------------------------------------------
(* The except handler of process_message. *)

\* The statement raises and nothing of the transaction survives.
SqlFails(w) ==
    /\ "sql" \in Faults
    /\ pc[w] \in SqlStep
    /\ RollbackSale(w)
    /\ Goto(w, "failed")
    /\ result' = [result EXCEPT ![w] = None]
    /\ UNCHANGED <<brokerVars, cur, inbox>>

\* A commit that raises may have been done all the same.
CommitUnconfirmed(w) ==
    /\ "sql" \in Faults
    /\ \/ pc[w] = "commit" /\ CommitSale(w, Req(w))
       \/ pc[w] = "mark" /\ mark_processed(Req(w), result[w])
    /\ Goto(w, "failed")
    /\ result' = [result EXCEPT ![w] = None]
    /\ UNCHANGED <<brokerVars, cur, inbox>>

\* MUTANT of RetryAck: one retry too many.
RetryAckOffByOne(w) ==
    /\ pc[w] = "failed"
    /\ cur[w].retry <= MaxRetries
    /\ basic_ack(w, cur[w])
    /\ Goto(w, "republish")
    /\ UNCHANGED <<dbVars, cur, result, inbox>>

\* MUTANT of RetryAck: the original is not acknowledged.
RetryWithoutAck(w) ==
    /\ pc[w] = "failed"
    /\ cur[w].retry < MaxRetries
    /\ Goto(w, "republish")
    /\ UNCHANGED <<brokerVars, dbVars, cur, result, inbox>>

\* The original is acknowledged first and its copy published afterwards.
RetryAck(w) ==
    /\ pc[w] = "failed"
    /\ cur[w].retry < MaxRetries
    /\ basic_ack(w, cur[w])
    /\ Goto(w, "republish")
    /\ UNCHANGED <<dbVars, cur, result, inbox>>

\* MUTANT of PublishRetry: x-retry-count is not incremented.
PublishRetryUncounted(w) ==
    /\ pc[w] = "republish"
    /\ basic_publish(w, cur[w])
    /\ Return(w)
    /\ UNCHANGED dbVars

PublishRetry(w) ==
    /\ pc[w] = "republish"
    /\ basic_publish(w, [req |-> Req(w), retry |-> cur[w].retry + 1])
    /\ Return(w)
    /\ UNCHANGED dbVars

\* MUTANT of RetriesExhausted: acknowledged instead of dead-lettered.
RetriesExhaustedAck(w) ==
    /\ pc[w] = "failed"
    /\ cur[w].retry >= MaxRetries
    /\ basic_ack(w, cur[w])
    /\ Return(w)
    /\ UNCHANGED dbVars

RetriesExhausted(w) ==
    /\ pc[w] = "failed"
    /\ cur[w].retry >= MaxRetries
    /\ basic_nack(w, cur[w])
    /\ Return(w)
    /\ UNCHANGED dbVars

-----------------------------------------------------------------------------

\* What a process does by itself, one step at a time.
WorkerStep(w) ==
    \/ Start(w) \/ Connect(w) \/ Reconnect(w)
    \/ \E m \in inbox[w] : Take(w, m)
    \/ CheckIdempotent(w) \/ Pay(w) \/ SellNumbered(w) \/ SellUnnumbered(w)
    \/ Commit(w) \/ MarkProcessed(w) \/ Ack(w) \/ Reject(w)
    \/ RetryAck(w) \/ PublishRetry(w) \/ RetriesExhausted(w)

Fault(w) ==
    \/ LinkLost(w) \/ Crash(w) \/ GetConnFails(w)
    \/ SqlFails(w) \/ CommitUnconfirmed(w)

Next ==
    \/ \E r \in Request : Publish(r)
    \/ \E w \in Worker :
         \/ \E m \in ready : Receive(w, m)
         \/ WorkerStep(w)
         \/ Fault(w)

Spec == Init /\ [][Next]_vars

\* A process that can take a step takes it (the handler has no unbounded
\* wait but the row lock, whose holder commits), ECS restarts tasks, the loop
\* of main reconnects and the broker fills every prefetch window.
Fairness ==
    \A w \in Worker : /\ WF_vars(WorkerStep(w))
                      /\ WF_vars(\E m \in ready : Receive(w, m))

FairSpec == Spec /\ Fairness
-----------------------------------------------------------------------------
(* Safety *)

\* Steps at which w handles a delivery the broker still waits for.
Handling == {"check", "pay", "sell", "commit", "mark", "ack", "reject", "failed"}

\* Every delivery the broker waits for is in its worker's buffer or under its
\* callback, and every acknowledgement a worker may still send is for such a
\* delivery: no prefetch slot is leaked, no unknown delivery tag is used
\* (a channel error), even across the reconnections of main.
DeliveriesAccounted ==
    \A w \in Worker :
        /\ pc[w] \in Handling /\ link[w] = "up" => cur[w] \notin inbox[w]
        /\ link[w] = "up" =>
             unacked[w] = inbox[w] \cup {m \in {cur[w]} : pc[w] \in Handling}

\* The retry that w has not published yet, on a connection that still works.
PendingRetry(w) ==
    {m \in {cur[w]} : pc[w] = "republish" /\ link[w] = "up"}

\* Where the copies of all messages are.
Copies ==
    {<<"ready", m>> : m \in ready} \cup {<<"dlq", m>> : m \in dlq}
        \cup UNION {{<<w, m>> : m \in unacked[w] \cup PendingRetry(w)} : w \in Worker}

\* At-least-once delivery and retries by copy never leave two copies of a
\* request around: queued, with a worker, about to be republished and
\* dead-lettered exclude each other.
SingleLiveCopy ==
    \A c, d \in Copies : c[2].req = d[2].req => c = d

\* Somebody will still work on r, or a person can find it in the DLQ.
Held(r) == \E c \in Copies : c[2].req = r

Settled(r) == processed[r] # None \/ \E m \in dlq : m.req = r

\* No published request disappears without an answer (roadmap.txt: never ack
\* away real work).  False when both SQL errors and crashes or lost
\* connections occur, see LossOnlyInRetryWindow.
NothingLost == \A r \in published : Held(r) \/ Settled(r)

\* Under all faults, the one moment at which a request can be lost is between
\* the basic_ack and the basic_publish of a retry.
LossOnlyInRetryWindow ==
    [][\A r \in published :
         (Held(r) \/ Settled(r)) /\ ~(Held(r) \/ Settled(r))'
           => \E w \in Worker : pc[w] = "republish" /\ Req(w) = r]_vars

\* A recorded answer is true, whatever was redelivered, retried or half done:
\* who was told "sold" owns the seat, who was told "rejected" met a sold seat,
\* nobody is told "sold_out" while tickets are left, and the tickets promised
\* never outnumber those taken from the inventory, nor those the capacity.
TicketHolders == {r \in Unnumbered : processed[r] = "sold"}

AnswersTruthful ==
    /\ \A r \in Numbered :
         /\ processed[r] = "sold" => SeatOf(r) # None /\ seats[SeatOf(r)] = r
         /\ processed[r] = "rejected" => SeatOf(r) # None /\ seats[SeatOf(r)] # None
         /\ processed[r] = "error" => SeatOf(r) = None
         /\ processed[r] # "sold_out"
    /\ \A r \in Unnumbered :
         /\ processed[r] = "sold_out" => inventory = Capacity
         /\ processed[r] \notin {"rejected", "error"}
    /\ Cardinality(TicketHolders) <= inventory
    /\ inventory <= Capacity

\* Idempotence: no worker is selling for a request that already has its answer.
\* It holds as long as no connection is lost: a worker cut off from the broker
\* goes on with a message that another worker receives too.
NoSaleOnceAnswered ==
    \A w \in Worker :
        pc[w] \in {"pay", "sell", "commit", "mark"} => processed[Req(w)] = None

\* What the project's roadmap says of redelivery: the answer of a request is
\* the answer of the sale it made, and a ticket leaves the inventory once per
\* request (effectively exactly once).  False: the sale is committed before
\* its result is recorded, and a crash in between makes the next worker sell
\* again.  True while nothing fails there (ExactlyOnceProofs).
SoldExactlyOnce ==
    /\ \A r \in Numbered :
         (\E s \in Seat : seats[s] = r) => processed[r] \in {None, "sold"}
    /\ inventory <= Cardinality(published \cap Unnumbered)

\* The strengthening of AnswersTruthful that the steps preserve.

\* An open transaction is the sale its worker is about to commit, and the row
\* is still for sale; no two workers hold one row.
OpenSale(w) ==
    /\ tx[w] # None => pc[w] = "commit" /\ result[w] = "sold"
    /\ tx[w] \in Seat => /\ Req(w) \in Numbered
                         /\ tx[w] = SeatOf(Req(w))
                         /\ seats[tx[w]] = None
    /\ tx[w] = InventoryRow => Req(w) \in Unnumbered /\ inventory < Capacity
    /\ pc[w] = "commit" /\ result[w] = "sold" => tx[w] # None

RowsLockedOnce == \A v, w \in Worker : tx[v] # None /\ tx[v] = tx[w] => v = w

\* What a worker holds in its hands is what the database says.
HandlesOrder(w) ==
    /\ pc[w] \in Handling \cup {"republish"} => cur[w] # None
    /\ pc[w] \in {"pay", "sell", "commit", "mark"} =>
         Req(w) \in Numbered \cup Unnumbered
    /\ pc[w] \in {"pay", "sell"} => Req(w) \in Unnumbered \/ SeatOf(Req(w)) # None
    /\ pc[w] \in {"commit", "mark"} => result[w] # None
    /\ pc[w] = "republish" => cur[w].retry < MaxRetries

ResultTruthful(w) ==
    /\ result[w] = "sold" => Req(w) \in Unnumbered \/ SeatOf(Req(w)) # None
    /\ result[w] = "sold" /\ pc[w] = "mark" /\ Req(w) \in Numbered =>
         seats[SeatOf(Req(w))] = Req(w)
    /\ result[w] = "rejected" => /\ Req(w) \in Numbered
                                /\ SeatOf(Req(w)) # None
                                /\ seats[SeatOf(Req(w))] # None
    /\ result[w] = "sold_out" => Req(w) \in Unnumbered /\ inventory = Capacity
    /\ result[w] = "error" => Req(w) \in Numbered /\ SeatOf(Req(w)) = None
    /\ result[w] # None => pc[w] \in {"commit", "mark", "ack"}

\* Requests with a ticket taken for them whose answer is not recorded yet.
TicketInHand ==
    {r \in Unnumbered : \E w \in Worker :
        pc[w] = "mark" /\ result[w] = "sold" /\ Req(w) = r}

TicketsBacked == Cardinality(TicketHolders \cup TicketInHand) <= inventory

SalesInv ==
    /\ \A w \in Worker : OpenSale(w) /\ HandlesOrder(w) /\ ResultTruthful(w)
    /\ RowsLockedOnce
    /\ TicketsBacked
    /\ AnswersTruthful

\* The worker implements the abstract service under all faults.
Sales == INSTANCE TicketSales WITH answer <- processed
ImplementsSales == Sales!SalesSpec

-----------------------------------------------------------------------------
(* Liveness *)

\* From some time on no process dies and no connection breaks.
Stabilises ==
    <>[][\A w \in Worker : ~(LinkLost(w) \/ Crash(w) \/ GetConnFails(w))]_vars

\* Once the processes are stable every published request gets its answer or
\* ends in the dead-letter queue, however often its SQL fails.
EveryRequestSettles ==
    Stabilises => \A r \in Request : r \in published ~> Settled(r)
=============================================================================
