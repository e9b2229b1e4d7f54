------------------------------- MODULE Cleanup -------------------------------
(***************************************************************************)
(* benchmarks/cleanup.py, run between two experiments against the workers  *)
(* of TicketWorker: wait until the queue is drained or a timeout, purge    *)
(* the queues, empty the tables in one transaction, look whether they are  *)
(* empty, and try again if they are not.                                   *)
(*                                                                         *)
(* Nothing stops the workers meanwhile.  Under READ COMMITTED every        *)
(* statement of the reset sees what is committed when it starts; what      *)
(* workers write to rows it has touched waits for the end of the           *)
(* transaction, and what it did not see escapes it.                        *)
(***************************************************************************)
EXTENDS TicketWorker, Sequences

CONSTANTS
    ForceKill,              \* --force: terminate the sessions of the workers
    DrainTimeout,       \* --drain-timeout, in polls
    Retry,              \* --retry
    CleanerFaults       \* "api": a management call fails, "sql": a statement

ASSUME CleanupAssumption ==
    /\ ForceKill \in BOOLEAN
    /\ DrainTimeout \in Nat /\ Retry \in Nat
    /\ CleanerFaults \subseteq {"api", "sql"}

VARIABLES
    cl,         \* where cleanup.py stands
    polls,      \* polls of the queue depth so far
    drained,    \* has it seen a depth of zero?
    attempt,    \* retries of the reset so far
    at,         \* the next statement of the reset or of the verification
    gone,       \* what the open transaction has deleted or reset
    dirty,      \* has the verification found rows?
    killed,     \* sessions of each worker that were terminated under it
    unseen      \* history: did the depth it read miss work that goes on?

cleanerVars == <<cl, polls, drained, unseen, attempt, at, gone, dirty>>
allVars == <<vars, cleanerVars, killed>>

\* Every worker process has two sessions (SessionsBounded of WorkerProcess).
SessionsPerWorker == 2

Nothing == [results |-> {}, processed |-> {}, seats |-> {}, inventory |-> FALSE]

\* MUTANT of Tables: the seats are reset first.
TablesSeatsFirst == <<"seats", "results", "processed", "inventory">>

\* The order of the statements of the reset, and of the checks.
Tables == <<"results", "processed", "seats", "inventory">>

CleanInit ==
    /\ Init
    /\ cl = "off"
    /\ polls = 0
    /\ drained = FALSE
    /\ attempt = 0
    /\ at = 1
    /\ gone = Nothing
    /\ dirty = FALSE
    /\ killed = [w \in Worker |-> 0]
    /\ unseen = FALSE

-----------------------------------------------------------------------------
(* wait_for_drain and purge_rabbitmq *)

\* The load generator has ended before cleanup.py is started.
Begin ==
    /\ cl = "off"
    /\ published = Request
    /\ cl' = "drain"
    /\ UNCHANGED <<vars, polls, drained, unseen, attempt, at, gone, dirty, killed>>

\* MUTANT of QueueEmpty: messages_ready instead of messages.
QueueEmptyReadyOnly == ready = {}

\* get_queue_depth: messages counts those delivered and not acknowledged too.
QueueEmpty == ready = {} /\ \A w \in Worker : unacked[w] = {}

\* Work of w that no queue counts: a retry acknowledged and not yet published,
\* and what a worker goes on with that was cut off from the broker.
Uncounted(w) ==
    \/ PendingRetry(w) # {}
    \/ link[w] = "lost" /\ (pc[w] \in Handling \/ inbox[w] # {})

\* MUTANT of PollDepth: the time waited is not added up.
PollDepthForever ==
    /\ cl = "drain"
    /\ polls < DrainTimeout
    /\ drained' = QueueEmpty /\ unseen' = \E w \in Worker : Uncounted(w)
    /\ cl' = IF QueueEmpty THEN "purge" ELSE "drain"
    /\ UNCHANGED <<vars, polls, attempt, at, gone, dirty, killed>>

PollDepth ==
    /\ cl = "drain"
    /\ polls < DrainTimeout
    /\ drained' = QueueEmpty /\ unseen' = \E w \in Worker : Uncounted(w)
    /\ cl' = IF QueueEmpty THEN "purge" ELSE "drain"
    /\ polls' = IF QueueEmpty THEN polls ELSE polls + 1
    /\ UNCHANGED <<vars, attempt, at, gone, dirty, killed>>

Proceed ==
    /\ cl' = "purge" /\ polls' = 0
    /\ UNCHANGED <<vars, drained, unseen, attempt, at, gone, dirty, killed>>

\* It proceeds with messages still queued, or if it cannot read the depth.
DrainTimesOut == cl = "drain" /\ polls = DrainTimeout /\ Proceed
DepthUnknown == "api" \in CleanerFaults /\ cl = "drain" /\ Proceed

\* MUTANT of PurgeBuy: deliveries that wait for an acknowledgement go as well.
PurgeBuyUnacked ==
    /\ cl = "purge"
    /\ ready' = {}
    /\ unacked' = [w \in Worker |-> {}]
    /\ cl' = "purgeDlq"
    /\ UNCHANGED <<published, dlq, link, dbVars, workerVars,
                   polls, drained, unseen, attempt, at, gone, dirty, killed>>

\* A purge removes waiting messages, not those a worker has in its hands.
PurgeBuy ==
    /\ cl = "purge"
    /\ ready' = {}
    /\ cl' = "purgeDlq"
    /\ UNCHANGED <<published, unacked, dlq, link, dbVars, workerVars,
                   polls, drained, unseen, attempt, at, gone, dirty, killed>>

PurgeDlq ==
    /\ cl = "purgeDlq"
    /\ dlq' = {}
    /\ cl' = "connect"
    /\ UNCHANGED <<published, ready, unacked, link, dbVars, workerVars,
                   polls, drained, unseen, attempt, at, gone, dirty, killed>>

\* An HTTP error skips one queue, a connection error both.
PurgeFails ==
    /\ "api" \in CleanerFaults
    /\ cl \in {"purge", "purgeDlq"}
    /\ cl' \in {"purgeDlq", "connect"} \ {cl}
    /\ UNCHANGED <<vars, polls, drained, unseen, attempt, at, gone, dirty, killed>>

-----------------------------------------------------------------------------
(* reset_postgres and the retries of main *)

\* Connect and, if asked to or on a retry, kill_all_app_connections: the
\* server rolls back what the sessions had open.
ConnectAndKill ==
    /\ cl = "connect"
    /\ IF ForceKill \/ attempt > 0
       THEN /\ tx' = [w \in Worker |-> None]
            /\ killed' = [w \in Worker |-> IF pc[w] = "down" THEN 0
                                           ELSE SessionsPerWorker]
       ELSE UNCHANGED <<tx, killed>>
    /\ cl' = "reset"
    /\ UNCHANGED <<brokerVars, seats, inventory, processed, results, workerVars,
                   polls, drained, unseen, attempt, at, gone, dirty>>

Recorded(table) == {r \in Request : table[r] # None}

\* results.request_id references processed: a result that was committed after
\* DELETE FROM results keeps its processed row from being deleted.
ForeignKeyHolds == Recorded(processed) \cap Recorded(results) \subseteq gone.results

\* DELETE, DELETE, UPDATE of the seats not available, UPDATE of the inventory,
\* the last of which waits for the sale that has the row locked.
ResetTable ==
    /\ cl = "reset" /\ at <= Len(Tables)
    /\ LET t == Tables[at]
       IN  \/ t = "results" /\ gone' = [gone EXCEPT !.results = Recorded(results)]
           \/ /\ t = "processed" /\ ForeignKeyHolds
              /\ gone' = [gone EXCEPT !.processed = Recorded(processed)]
           \/ /\ t = "seats"
              /\ gone' = [gone EXCEPT !.seats = {s \in Seat : seats[s] # None}]
           \/ /\ t = "inventory" /\ ~Locked(InventoryRow)
              /\ gone' = [gone EXCEPT !.inventory = TRUE]
    /\ at' = at + 1
    /\ UNCHANGED <<vars, cl, polls, drained, unseen, attempt, dirty, killed>>

ResetTables ==
    /\ cl = "reset" /\ at > Len(Tables)
    /\ results' = [r \in Request |-> IF r \in gone.results THEN None ELSE results[r]]
    /\ processed' = [r \in Request |->
                       IF r \in gone.processed THEN None ELSE processed[r]]
    /\ seats' = [s \in Seat |-> IF s \in gone.seats THEN None ELSE seats[s]]
    /\ inventory' = 0
    /\ UNCHANGED <<brokerVars, tx, workerVars>>

CommitReset ==
    /\ ResetTables
    /\ gone' = Nothing
    /\ cl' = "verify"
    /\ at' = 1
    /\ UNCHANGED <<polls, drained, unseen, attempt, dirty, killed>>

Empty(t) ==
    CASE t = "results" -> Recorded(results) = {}
      [] t = "processed" -> Recorded(processed) = {}
      [] t = "seats" -> \A s \in Seat : seats[s] = None
      [] t = "inventory" -> inventory = 0

\* verify_clean: four queries, each of which sees the table of its moment.
VerifyTable ==
    /\ cl = "verify" /\ at <= Len(Tables)
    /\ dirty' = (dirty \/ ~Empty(Tables[at]))
    /\ at' = at + 1
    /\ UNCHANGED <<vars, cl, polls, drained, unseen, attempt, gone, killed>>

Succeed ==
    /\ cl = "verify" /\ at > Len(Tables)
    /\ ~dirty
    /\ cl' = "ready" /\ at' = 1
    /\ UNCHANGED <<vars, polls, drained, unseen, attempt, gone, dirty, killed>>

\* MUTANT of TryAgain: one attempt too many.
TryAgainOnceMore ==
    /\ cl' = IF attempt <= Retry THEN "connect" ELSE "failed"
    /\ attempt' = IF attempt <= Retry THEN attempt + 1 ELSE attempt
    /\ gone' = Nothing /\ at' = 1 /\ dirty' = FALSE
    /\ UNCHANGED <<polls, drained, unseen, killed>>

\* Again, with force, or exit 1.  An exception rolls the reset back.
TryAgain ==
    /\ cl' = IF attempt < Retry THEN "connect" ELSE "failed"
    /\ attempt' = IF attempt < Retry THEN attempt + 1 ELSE attempt
    /\ gone' = Nothing /\ at' = 1 /\ dirty' = FALSE
    /\ UNCHANGED <<polls, drained, unseen, killed>>

\* The foreign key stops the reset, or a table is not empty after it.
Unclean ==
    /\ \/ cl = "reset" /\ at <= Len(Tables) /\ Tables[at] = "processed"
            /\ ~ForeignKeyHolds
       \/ cl = "verify" /\ at > Len(Tables) /\ dirty
    /\ TryAgain
    /\ UNCHANGED vars

StatementRaises ==
    /\ "sql" \in CleanerFaults
    /\ cl \in {"connect", "reset", "verify"}
    /\ TryAgain
    /\ UNCHANGED vars

\* The commit raises although the server has done it.
ResetUnconfirmed ==
    /\ "sql" \in CleanerFaults
    /\ ResetTables
    /\ TryAgain

Cleaner ==
    \/ PollDepth \/ DrainTimesOut \/ PurgeBuy \/ PurgeDlq \/ ConnectAndKill
    \/ ResetTable \/ CommitReset \/ VerifyTable \/ Succeed \/ Unclean

CleanerFault == DepthUnknown \/ PurgeFails \/ StatementRaises \/ ResetUnconfirmed

-----------------------------------------------------------------------------
(* The workers beside it *)

\* A statement of w that meets a terminated session, or a row that the open
\* reset has deleted or updated, does not succeed now.  An UPDATE waits only for
\* a row whose committed version it wants: it passes over a sold seat, and over
\* an inventory sold out, though both are about to be available again.
HeldBack(w) ==
    /\ pc[w] \in SqlStep
    /\ \/ killed[w] > 0
       \/ pc[w] = "mark" /\ Req(w) \in gone.processed \cup gone.results
       \/ /\ pc[w] = "sell" /\ Req(w) \in Unnumbered
          /\ gone.inventory /\ inventory < Capacity

\* A new process has new sessions.
WorkerBeside(w, Action) ==
    /\ Action
    /\ HeldBack(w) => pc'[w] \in {pc[w], "down"}
    /\ killed' = [killed EXCEPT ![w] = IF pc'[w] = "down" THEN 0 ELSE @]
    /\ UNCHANGED cleanerVars

\* Each terminated session costs its worker one statement.
StatementOnKilled(w) ==
    /\ pc[w] \in SqlStep
    /\ killed[w] > 0
    /\ RollbackSale(w)
    /\ Goto(w, "failed")
    /\ result' = [result EXCEPT ![w] = None]
    /\ killed' = [killed EXCEPT ![w] = @ - 1]
    /\ UNCHANGED <<brokerVars, cur, inbox, cleanerVars>>

WorkerGoesOn(w) == WorkerBeside(w, WorkerStep(w)) \/ StatementOnKilled(w)
Consumes(w) == \E m \in ready : WorkerBeside(w, Receive(w, m))

CleanNext ==
    \/ \E r \in Request : cl = "off" /\ Publish(r) /\ UNCHANGED <<cleanerVars, killed>>
    \/ Begin
    \/ Cleaner \/ CleanerFault
    \/ \E w \in Worker :
         WorkerGoesOn(w) \/ Consumes(w) \/ WorkerBeside(w, Fault(w))

CleanSpec == CleanInit /\ [][CleanNext]_allVars

\* The workers as in TicketWorker; cleanup.py runs on, and its UPDATE of the
\* inventory gets the row in the end: PostgreSQL queues those who wait for it.
CleanFairSpec ==
    /\ CleanSpec
    /\ WF_allVars(Cleaner) /\ SF_allVars(ResetTable)
    /\ \A w \in Worker : WF_allVars(WorkerGoesOn(w)) /\ WF_allVars(Consumes(w))

-----------------------------------------------------------------------------
(* Properties *)

CleanTypeOK ==
    /\ TypeOK
    /\ cl \in {"off", "drain", "purge", "purgeDlq", "connect", "reset", "verify",
               "ready", "failed"}
    /\ polls \in 0 .. DrainTimeout
    /\ drained \in BOOLEAN /\ unseen \in BOOLEAN /\ dirty \in BOOLEAN
    /\ attempt \in 0 .. Retry
    /\ at \in 1 .. Len(Tables) + 1
    /\ gone \in [results : SUBSET Request, processed : SUBSET Request,
                 seats : SUBSET Seat, inventory : BOOLEAN]
    /\ killed \in [Worker -> 0 .. SessionsPerWorker]

\* "Ready for next experiment": the tables are empty and nothing the previous
\* experiment left behind writes to them any more.  False: after the timeout of
\* the drain, workers still have messages in their hands.
FreshStart == cl = "ready" => \A i \in 1 .. Len(Tables) : Empty(Tables[i])

\* It holds once the queue was seen empty, unacknowledged deliveries included,
\* whatever fails: workers may retry, die, or be cut off at any time and are
\* never stopped.  The one exception is work that no queue counted at that moment.
DrainedStart == drained /\ ~unseen => FreshStart

\* The reset forgets answers and sales together: no request whose answer was
\* deleted still owns a seat, whatever workers commit between the statements
\* of the reset (answers follow their sales, so they must be deleted first).
ForgottenWhole ==
    [][\A r \in Request : processed[r] # None /\ processed'[r] = None =>
         \A s \in Seat : seats'[s] # r]_allVars

\* The script ends, ready or not: neither a queue that workers keep filling
\* again by dying, nor a row they hold, nor a reset that fails keeps it for ever.
CleanupEnds == cl = "drain" ~> cl \in {"ready", "failed"}
=============================================================================
