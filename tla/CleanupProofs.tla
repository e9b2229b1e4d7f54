---------------------------- MODULE CleanupProofs ----------------------------
(***************************************************************************)
(* cleanup.py beside the workers: what it does to the queues and the       *)
(* tables keeps the types and the accounts of the deliveries, a start that *)
(* saw the queue empty is clean, and the reset never forgets an answer     *)
(* without its sale.                                                       *)
(*                                                                         *)
(* A step of a worker beside the script is a step of TicketWorker, so the  *)
(* lemmas about those carry over.  New are the statements that meet a      *)
(* terminated session and the steps of the script.                         *)
(***************************************************************************)
EXTENDS Cleanup, DeliveryProofs

-----------------------------------------------------------------------------
(* The steps, by who takes them *)

CleanerTypeOK ==
    /\ cl \in {"off", "drain", "purge", "purgeDlq", "connect", "reset", "verify",
               "ready", "failed"}
    /\ polls \in 0 .. DrainTimeout
    /\ drained \in BOOLEAN /\ unseen \in BOOLEAN /\ dirty \in BOOLEAN
    /\ attempt \in 0 .. Retry
    /\ at \in 1 .. Len(Tables) + 1
    /\ gone \in [results : SUBSET Request, processed : SUBSET Request,
                 seats : SUBSET Seat, inventory : BOOLEAN]
    /\ killed \in [Worker -> 0 .. SessionsPerWorker]

\* Something happens to a worker; a terminated session stops its statements.
Moves(w) ==
    /\ WorkerStep(w) \/ Fault(w) \/ \E m \in ready : Receive(w, m)
    /\ HeldBack(w) => pc'[w] \in {pc[w], "down"}
    /\ killed' = [killed EXCEPT ![w] = IF pc'[w] = "down" THEN 0 ELSE @]

\* A worker, the broker or the load generator moves, or nobody does.
Beside ==
    /\ [Next]_vars
    /\ UNCHANGED cleanerVars
    /\ \/ UNCHANGED killed /\ UNCHANGED <<dbVars, workerVars>>
       \/ \E w \in Worker : Moves(w)

ByScript == Begin \/ Cleaner \/ CleanerFault

LEMMA FourTables ==
    /\ Len(Tables) = 4
    /\ Tables[1] = "results" /\ Tables[2] = "processed"
    /\ Tables[3] = "seats" /\ Tables[4] = "inventory"
  BY DEF Tables

LEMMA StepsByActor ==
    ASSUME [CleanNext]_allVars
    PROVE  Beside \/ ByScript \/ \E w \in Worker : StatementOnKilled(w)
  <1>1. CASE UNCHANGED allVars
    BY <1>1 DEF allVars, vars, Beside
  <1>2. ASSUME NEW r \in Request, cl = "off", Publish(r),
               UNCHANGED <<cleanerVars, killed>>
        PROVE  Beside
    BY <1>2 DEF Beside, Next, Publish
  <1>3. ASSUME NEW w \in Worker, NEW m \in ready, WorkerBeside(w, Receive(w, m))
        PROVE  Beside
    BY <1>3 DEF Beside, Next, WorkerBeside, Moves
  <1>4. ASSUME NEW w \in Worker, WorkerBeside(w, WorkerStep(w))
        PROVE  Beside
    BY <1>4 DEF Beside, Next, WorkerBeside, Moves
  <1>5. ASSUME NEW w \in Worker, WorkerBeside(w, Fault(w))
        PROVE  Beside
    BY <1>5 DEF Beside, Next, WorkerBeside, Moves
  <1> QED
    BY <1>1, <1>2, <1>3, <1>4, <1>5 DEF CleanNext, ByScript, WorkerGoesOn, Consumes

\* The script touches no worker and removes messages that wait in a queue.
LEMMA ScriptStep ==
    ASSUME ByScript
    PROVE  /\ UNCHANGED workerVars /\ UNCHANGED <<published, unacked, link>>
           /\ ready' \subseteq ready /\ dlq' \subseteq dlq
  <1> USE DEF vars, brokerVars
  <1>1. CASE Begin \/ PollDepth \/ DrainTimesOut \/ DepthUnknown \/ PurgeFails
    BY <1>1 DEF Begin, PollDepth, DrainTimesOut, DepthUnknown, Proceed, PurgeFails,
                workerVars
  <1>2. CASE PurgeBuy \/ PurgeDlq
    BY <1>2 DEF PurgeBuy, PurgeDlq
  <1>3. CASE ConnectAndKill \/ CommitReset \/ ResetUnconfirmed
    BY <1>3 DEF ConnectAndKill, CommitReset, ResetUnconfirmed, ResetTables
  <1>4. CASE ResetTable \/ VerifyTable \/ Succeed \/ Unclean \/ StatementRaises
    BY <1>4 DEF ResetTable, VerifyTable, Succeed, Unclean, StatementRaises, TryAgain,
                workerVars
  <1> QED
    BY <1>1, <1>2, <1>3, <1>4 DEF ByScript, Cleaner, CleanerFault

-----------------------------------------------------------------------------
(* Types and accounts *)

CleanInv == TypeInv /\ CleanerTypeOK /\ DeliveryInv

LEMMA ScriptTypes ==
    ASSUME CleanerTypeOK, DbTypeOK, ByScript
    PROVE  CleanerTypeOK' /\ DbTypeOK'
  <1> USE CleanupAssumption, FourTables
  <1>a. /\ 1 \in 1 .. Len(Tables)' + 1
        /\ attempt + 1 \in Nat
        /\ attempt < Retry => attempt + 1 \in 0 .. Retry
        /\ polls < DrainTimeout => polls + 1 \in 0 .. DrainTimeout
        /\ 0 \in 0 .. DrainTimeout
        /\ at <= Len(Tables) => at + 1 \in 1 .. Len(Tables)' + 1
        /\ Len(Tables)' = Len(Tables)
    BY DEF CleanerTypeOK, Tables
  <1>b. Nothing \in [results : SUBSET Request, processed : SUBSET Request,
                     seats : SUBSET Seat, inventory : BOOLEAN]
    BY DEF Nothing
  <1>c. ASSUME UNCHANGED vars PROVE DbTypeOK'
    BY <1>c DEF vars, dbVars, DbTypeOK
  <1>d. ASSUME TryAgain PROVE CleanerTypeOK'
    BY <1>a, <1>b, <1>d DEF TryAgain, CleanerTypeOK
  <1>1. CASE Begin \/ PollDepth \/ DrainTimesOut \/ DepthUnknown \/ PurgeFails
    <2>1. QueueEmpty \in BOOLEAN /\ (\E w \in Worker : Uncounted(w)) \in BOOLEAN
      BY DEF QueueEmpty
    <2>2. CleanerTypeOK'
      BY <1>1, <1>a, <2>1 DEF CleanerTypeOK, Begin, PollDepth, DrainTimesOut,
                              DepthUnknown, Proceed, PurgeFails
    <2> QED
      BY <1>1, <1>c, <2>2 DEF Begin, PollDepth, DrainTimesOut, DepthUnknown, Proceed,
                              PurgeFails
  <1>2. CASE PurgeBuy \/ PurgeDlq
    BY <1>2, <1>a DEF PurgeBuy, PurgeDlq, CleanerTypeOK, DbTypeOK, dbVars
  <1>3. CASE ConnectAndKill
    <2>1. CleanerTypeOK'
      BY <1>3, <1>a DEF ConnectAndKill, CleanerTypeOK, SessionsPerWorker
    <2> QED
      BY <1>3, <2>1 DEF ConnectAndKill, DbTypeOK
  <1>4. CASE CommitReset \/ ResetUnconfirmed
    <2>1. ResetTables
      BY <1>4 DEF CommitReset, ResetUnconfirmed
    <2>2. CleanerTypeOK'
      BY <1>4, <1>a, <1>b, <1>d DEF CommitReset, ResetUnconfirmed, CleanerTypeOK
    <2> QED
      BY <2>1, <2>2 DEF ResetTables, DbTypeOK
  <1>5. CASE ResetTable
    <2>1. /\ Recorded(results) \subseteq Request /\ Recorded(processed) \subseteq Request
          /\ {s \in Seat : seats[s] # None} \subseteq Seat
      BY DEF Recorded
    <2>2. gone' \in [results : SUBSET Request, processed : SUBSET Request,
                     seats : SUBSET Seat, inventory : BOOLEAN]
      BY <1>5, <2>1 DEF ResetTable, CleanerTypeOK
    <2>3. CleanerTypeOK'
      BY <1>5, <1>a, <2>2 DEF ResetTable, CleanerTypeOK
    <2> QED
      BY <1>5, <1>c, <2>3 DEF ResetTable
  <1>6. CASE VerifyTable
    <2>1. dirty' \in BOOLEAN
      BY <1>6 DEF VerifyTable
    <2> QED
      BY <1>6, <1>a, <1>c, <2>1 DEF VerifyTable, CleanerTypeOK
  <1>7. CASE Succeed
    BY <1>7, <1>a, <1>c DEF Succeed, CleanerTypeOK
  <1>8. CASE Unclean \/ StatementRaises
    BY <1>8, <1>c, <1>d DEF Unclean, StatementRaises
  <1> QED
    BY <1>1, <1>2, <1>3, <1>4, <1>5, <1>6, <1>7, <1>8 DEF ByScript, Cleaner, CleanerFault

\* A statement that meets a terminated session is one that fails.
LEMMA KilledStep ==
    ASSUME CleanInv, NEW w \in Worker, StatementOnKilled(w)
    PROVE  /\ CleanInv'
           /\ pc[w] \in SqlStep /\ pc' = [pc EXCEPT ![w] = "failed"]
           /\ UNCHANGED <<brokerVars, seats, inventory, processed, results, cur, inbox>>
           /\ UNCHANGED cleanerVars
  <1>1. /\ pc[w] \in SqlStep /\ pc' = [pc EXCEPT ![w] = "failed"]
        /\ UNCHANGED <<brokerVars, seats, inventory, processed, results, cur, inbox>>
        /\ UNCHANGED cleanerVars
    BY DEF StatementOnKilled, RollbackSale, Goto
  <1>2. BrokerTypeOK' /\ DbTypeOK'
    BY <1>1 DEF StatementOnKilled, RollbackSale, CleanInv, TypeInv, TypeOK, BrokerTypeOK,
                DbTypeOK, brokerVars
  <1>3. TypeInv'
    BY <1>1, <1>2 DEF StatementOnKilled, SqlStep, Step, Handling, CleanInv, TypeInv, TypeOK,
                      HandlesOrder, Req
  <1>4. DeliveryInv'
    BY <1>1, HandlerStep DEF CleanInv, SqlStep, Handling
  <1>5. CleanerTypeOK'
    <2>1. killed[w] - 1 \in 0 .. SessionsPerWorker
      BY DEF StatementOnKilled, CleanInv, CleanerTypeOK, SessionsPerWorker
    <2>2. killed' \in [Worker -> 0 .. SessionsPerWorker]
      BY <2>1 DEF StatementOnKilled, CleanInv, CleanerTypeOK
    <2> QED
      BY <1>1, <2>2 DEF CleanInv, CleanerTypeOK, cleanerVars, Tables
  <1> QED
    BY <1>1, <1>3, <1>4, <1>5 DEF CleanInv

LEMMA BesideTypes ==
    ASSUME CleanInv, Beside
    PROVE  CleanInv'
  <1>1. TypeInv' /\ DeliveryInv'
    <2>1. [Next]_<<brokerVars, workerVars>>
      BY DEF Beside, vars
    <2> QED
      BY <2>1, TypeInvStep, DeliveryStep DEF Beside, CleanInv
  <1>2. CleanerTypeOK'
    <2>1. 0 \in 0 .. SessionsPerWorker
      BY DEF SessionsPerWorker
    <2>2. killed' \in [Worker -> 0 .. SessionsPerWorker]
      BY <2>1 DEF Beside, Moves, CleanInv, CleanerTypeOK
    <2> QED
      BY <2>2 DEF Beside, CleanInv, CleanerTypeOK, cleanerVars, Tables
  <1> QED
    BY <1>1, <1>2 DEF CleanInv

LEMMA ScriptAccounts ==
    ASSUME CleanInv, ByScript
    PROVE  CleanInv'
  <1>1. /\ UNCHANGED <<pc, cur, result, inbox, published, unacked, link>>
        /\ ready' \subseteq ready /\ dlq' \subseteq dlq
    BY ScriptStep DEF workerVars
  <1>2. CleanerTypeOK' /\ DbTypeOK'
    BY ScriptTypes DEF CleanInv, TypeInv, TypeOK
  <1>3. BrokerTypeOK'
    BY <1>1 DEF CleanInv, TypeInv, TypeOK, BrokerTypeOK
  <1>4. TypeInv'
    BY <1>1, <1>2, <1>3 DEF CleanInv, TypeInv, TypeOK, HandlesOrder, Req
  <1>5. \A w \in Worker : /\ PendingRetry(w)' = PendingRetry(w)
                          /\ Live(w)' = Live(w)
                          /\ Linked(w)' /\ Accounted(w)'
    BY <1>1 DEF PendingRetry, Live, CleanInv, DeliveryInv, Linked, Accounted
  <1>6. OneCopy' /\ Known'
    BY <1>1, <1>5 DEF CleanInv, DeliveryInv, OneCopy, Unique, Apart, Known
  <1> QED
    BY <1>2, <1>4, <1>5, <1>6 DEF CleanInv, DeliveryInv

LEMMA CleanStep == CleanInv /\ [CleanNext]_allVars => CleanInv'
  BY StepsByActor, KilledStep, BesideTypes, ScriptAccounts

LEMMA CleanStart == CleanInit => CleanInv
  <1>1. CleanInit => TypeInv /\ DeliveryInv
    BY InitTypes, DeliveryInit DEF CleanInit
  <1>2. CleanInit => CleanerTypeOK
    <2>1. 0 \in 0 .. DrainTimeout /\ 0 \in 0 .. Retry /\ 0 \in 0 .. SessionsPerWorker
      BY CleanupAssumption DEF SessionsPerWorker
    <2>2. 1 \in 1 .. Len(Tables) + 1
      BY FourTables
    <2>3. Nothing \in [results : SUBSET Request, processed : SUBSET Request,
                       seats : SUBSET Seat, inventory : BOOLEAN]
      BY DEF Nothing
    <2> QED
      BY <2>1, <2>2, <2>3 DEF CleanInit, CleanerTypeOK
  <1> QED
    BY <1>1, <1>2 DEF CleanInv

LEMMA CleanInvariant == CleanSpec => []CleanInv
  BY CleanStart, CleanStep, PTL DEF CleanSpec

\* cleanup.py and the workers beside it keep every variable in its type: the
\* retries, polls and statements of the script stay within their bounds, and no
\* worker loses more sessions than it has.
THEOREM CleanTypes == CleanSpec => []CleanTypeOK
  <1>1. CleanInv => CleanTypeOK
    BY DEF CleanInv, TypeInv, CleanTypeOK, CleanerTypeOK
  <1> QED
    BY <1>1, CleanInvariant, PTL

\* A purge takes nothing a worker has in its hands, and a terminated session
\* leaves its delivery to the handler: the accounts hold beside the script too.
THEOREM AccountsSurviveCleanup == CleanSpec => []DeliveriesAccounted
  <1>1. CleanInv => DeliveriesAccounted
    BY DEF CleanInv, DeliveryInv, Accounted, DeliveriesAccounted
  <1> QED
    BY <1>1, CleanInvariant, PTL

-----------------------------------------------------------------------------
(* A start that saw the queue empty *)

\* Everything was published, nothing is queued, and nobody has a message it may
\* still do something about.
AtRest ==
    /\ published = Request /\ ready = {}
    /\ \A w \in Worker :
         /\ unacked[w] = {} /\ inbox[w] = {}
         /\ \/ pc[w] \in {"down", "connecting", "idle"}
            \/ pc[w] = "republish" /\ link[w] = "lost"

\* The tables the verification has passed are empty.
Verified ==
    /\ cl = "verify" /\ ~dirty =>
         \A i \in 1 .. Len(Tables) : i < at => Empty(Tables[i])
    /\ FreshStart

RestInv ==
    /\ cl # "off" => published = Request
    /\ drained /\ ~unseen => AtRest /\ Verified

\* Nobody who is at rest takes a message, and the tables stay as they are.
LEMMA RestStays ==
    ASSUME CleanInv, AtRest, [Next]_vars
    PROVE  AtRest' /\ UNCHANGED <<seats, inventory, processed, results>>
  <1> USE DEF AtRest, CleanInv, TypeInv, TypeOK, BrokerTypeOK
  <1>1. CASE UNCHANGED vars
    BY <1>1 DEF vars, brokerVars, dbVars, workerVars
  <1>2. ASSUME NEW r \in Request, Publish(r)
        PROVE  FALSE
    BY <1>2 DEF Publish, BrokerPublish
  <1>3. ASSUME NEW w \in Worker, WorkerStep(w)
        PROVE  AtRest' /\ UNCHANGED <<seats, inventory, processed, results>>
    <2>1. CASE Start(w) \/ Connect(w)
      BY <2>1 DEF Start, Connect, OpenLink, Goto, brokerVars, dbVars
    <2>2. CASE Reconnect(w)
      BY <2>2 DEF Reconnect, EndLink, Forget, Goto, dbVars
    <2>3. CASE PublishRetry(w)
      BY <2>3 DEF PublishRetry, basic_publish, Return, Goto, dbVars, brokerVars
    <2> QED
      BY <1>3, <2>1, <2>2, <2>3 DEF WorkerStep, Take, CheckIdempotent, Pay, SellNumbered,
                        SellUnnumbered, Commit, MarkProcessed, Ack, Reject, RetryAck,
                        RetriesExhausted
  <1>4. ASSUME NEW w \in Worker, Fault(w)
        PROVE  AtRest' /\ UNCHANGED <<seats, inventory, processed, results>>
    <2>1. CASE Die(w)
      BY <2>1 DEF Die, EndLink, RollbackSale, Goto, Forget
    <2>2. CASE LinkLost(w)
      BY <2>2 DEF LinkLost, EndLink, dbVars, workerVars
    <2> QED
      BY <1>4, <2>1, <2>2 DEF Fault, Crash, GetConnFails, SqlFails, CommitUnconfirmed, SqlStep
  <1> QED
    BY <1>1, <1>2, <1>3, <1>4 DEF Next, Receive, BrokerDeliver

\* What a check of a table says depends on the tables alone.
LEMMA SameTables ==
    ASSUME UNCHANGED <<seats, inventory, processed, results>>
    PROVE  \A i \in 1 .. Len(Tables) : Empty(Tables[i])' <=> Empty(Tables[i])
  BY DEF Empty, Recorded, Tables

LEMMA RestBeside ==
    ASSUME CleanInv, CleanInv', RestInv, Beside
    PROVE  RestInv'
  <1>1. [Next]_vars /\ UNCHANGED cleanerVars
    BY DEF Beside
  <1>2. cl' # "off" => published' = Request
    <2>1. published \subseteq published' /\ published' \subseteq Request
      BY <1>1, PublishedStays DEF CleanInv, TypeInv, TypeOK, BrokerTypeOK
    <2> QED
      BY <1>1, <2>1 DEF RestInv, cleanerVars
  <1>3. ASSUME drained, ~unseen PROVE AtRest' /\ Verified'
    <2>1. AtRest' /\ UNCHANGED <<seats, inventory, processed, results>>
      BY <1>1, <1>3, RestStays DEF RestInv
    <2>2. \A i \in 1 .. Len(Tables) : Empty(Tables[i])' <=> Empty(Tables[i])
      BY <2>1, SameTables
    <2> QED
      BY <1>1, <1>3, <2>1, <2>2 DEF RestInv, Verified, FreshStart, cleanerVars, Tables
  <1> QED
    BY <1>1, <1>2, <1>3 DEF RestInv, cleanerVars

LEMMA RestKilled ==
    ASSUME CleanInv, RestInv, NEW w \in Worker, StatementOnKilled(w)
    PROVE  RestInv'
  <1>1. /\ pc[w] \in SqlStep /\ UNCHANGED brokerVars /\ UNCHANGED cleanerVars
    BY KilledStep
  <1>2. ~(drained /\ ~unseen)
    BY <1>1 DEF RestInv, AtRest, SqlStep
  <1> QED
    BY <1>1, <1>2 DEF RestInv, brokerVars, cleanerVars

\* A depth of zero says that nobody holds a delivery; who goes on all the same
\* is uncounted.
LEMMA EmptyMeansRest ==
    ASSUME CleanInv, RestInv, cl = "drain", QueueEmpty,
           \A w \in Worker : ~Uncounted(w)
    PROVE  AtRest
  <1>1. published = Request /\ ready = {} /\ \A w \in Worker : unacked[w] = {}
    BY DEF RestInv, QueueEmpty
  <1>2. ASSUME NEW w \in Worker
        PROVE  /\ inbox[w] = {}
               /\ \/ pc[w] \in {"down", "connecting", "idle"}
                  \/ pc[w] = "republish" /\ link[w] = "lost"
    <2>1. /\ pc[w] \in Step /\ link[w] \in LinkState
          /\ Linked(w) /\ Accounted(w) /\ ~Uncounted(w)
      BY DEF CleanInv, TypeInv, TypeOK, BrokerTypeOK, DeliveryInv
    <2>2. inbox[w] = {} /\ pc[w] \notin Handling
      BY <1>1, <2>1 DEF LinkState, Linked, Accounted, Uncounted, Handling
    <2>3. pc[w] = "republish" => link[w] = "lost"
      BY <2>1 DEF LinkState, Linked, Uncounted, PendingRetry
    <2> QED
      BY <2>1, <2>2, <2>3 DEF Step, Handling
  <1> QED
    BY <1>1, <1>2 DEF AtRest

LEMMA RestScript ==
    ASSUME CleanInv, CleanInv', RestInv, ByScript
    PROVE  RestInv'
  <1>1. UNCHANGED <<pc, published, unacked, link, inbox>> /\ ready' \subseteq ready
    BY ScriptStep DEF workerVars
  <1>2. AtRest => AtRest'
    BY <1>1 DEF AtRest
  \* It is enough to look at where the script is and what it knows.
  <1>a. ASSUME cl' # "off" => cl # "off" \/ published = Request,
               drained' /\ ~unseen' => AtRest /\ Verified'
        PROVE  RestInv'
    BY <1>a, <1>1, <1>2 DEF RestInv
  <1>b. ASSUME cl # "off", UNCHANGED <<drained, unseen>>, cl' \notin {"verify", "ready"}
        PROVE  RestInv'
    BY <1>a, <1>b DEF RestInv, Verified, FreshStart
  <1>3. CASE Begin
    BY <1>3, <1>a DEF Begin, RestInv, Verified, FreshStart
  <1>4. CASE PollDepth
    <2>1. drained' /\ ~unseen' => AtRest
      BY <1>4, EmptyMeansRest DEF PollDepth
    <2> QED
      BY <1>4, <1>a, <2>1 DEF PollDepth, Verified, FreshStart
  <1>5. CASE DrainTimesOut \/ DepthUnknown
    BY <1>5, <1>b DEF DrainTimesOut, DepthUnknown, Proceed, RestInv, Verified, FreshStart
  <1>6. CASE PurgeBuy \/ PurgeDlq \/ PurgeFails
    BY <1>6, <1>b DEF PurgeBuy, PurgeDlq, PurgeFails
  <1>7. CASE ConnectAndKill \/ ResetTable
    BY <1>7, <1>b DEF ConnectAndKill, ResetTable
  <1>8. CASE CommitReset
    <2>1. /\ cl' = "verify" /\ at' = 1 /\ cl = "reset"
          /\ UNCHANGED <<drained, unseen>>
      BY <1>8 DEF CommitReset, ResetTables
    <2>2. drained /\ ~unseen => AtRest /\ Verified'
      BY <2>1, FourTables DEF RestInv, Verified, FreshStart, Tables
    <2> QED
      BY <1>a, <2>1, <2>2
  <1>9. CASE VerifyTable
    <2>1. /\ cl = "verify" /\ cl' = "verify" /\ at' = at + 1 /\ UNCHANGED <<drained, unseen>>
          /\ dirty' = (dirty \/ ~Empty(Tables[at])) /\ at \in 1 .. Len(Tables)
          /\ UNCHANGED <<seats, inventory, processed, results>>
      BY <1>9 DEF VerifyTable, vars, dbVars, CleanInv, CleanerTypeOK
    <2>2. \A i \in 1 .. Len(Tables) : Empty(Tables[i])' <=> Empty(Tables[i])
      BY <2>1, SameTables
    <2>3. \A i \in 1 .. Len(Tables) : i < at + 1 <=> i < at \/ i = at
      BY <2>1, FourTables
    <2>4. drained /\ ~unseen => AtRest /\ Verified'
      BY <2>1, <2>2, <2>3 DEF RestInv, Verified, FreshStart, Tables
    <2> QED
      BY <1>a, <2>1, <2>4
  <1>10. CASE Succeed
    <2>1. /\ cl = "verify" /\ cl' = "ready" /\ at > Len(Tables) /\ ~dirty
          /\ UNCHANGED <<drained, unseen>>
          /\ UNCHANGED <<seats, inventory, processed, results>>
      BY <1>10 DEF Succeed, vars, dbVars
    <2>2. \A i \in 1 .. Len(Tables) : i < at
      BY <2>1, FourTables DEF CleanInv, CleanerTypeOK
    <2>3. \A i \in 1 .. Len(Tables) : Empty(Tables[i])' <=> Empty(Tables[i])
      BY <2>1, SameTables
    <2>4. drained /\ ~unseen => AtRest /\ Verified'
      BY <2>1, <2>2, <2>3 DEF RestInv, Verified, FreshStart, Tables
    <2> QED
      BY <1>a, <2>1, <2>4
  <1>11. CASE Unclean \/ StatementRaises \/ ResetUnconfirmed
    BY <1>11, <1>b DEF Unclean, StatementRaises, ResetUnconfirmed, ResetTables, TryAgain
  <1> QED
    BY <1>3, <1>4, <1>5, <1>6, <1>7, <1>8, <1>9, <1>10, <1>11
       DEF ByScript, Cleaner, CleanerFault

\* If the script saw the queue empty and says that it is ready, the tables are
\* empty, whatever failed meanwhile, unless there was work at that moment that
\* no queue counts: a retry acknowledged and not yet published, or a worker cut
\* off with a message in its hands.
THEOREM DrainedStartIsFresh == CleanSpec => []DrainedStart
  <1>1. CleanInit => RestInv
    BY DEF CleanInit, RestInv
  <1>2. CleanInv /\ CleanInv' /\ RestInv /\ [CleanNext]_allVars => RestInv'
    BY StepsByActor, RestBeside, RestKilled, RestScript
  <1>3. RestInv => DrainedStart
    BY DEF RestInv, Verified, DrainedStart
  <1> QED
    BY <1>1, <1>2, <1>3, CleanInvariant, PTL DEF CleanSpec

-----------------------------------------------------------------------------
(* Answers and their sales are forgotten together *)

\* What the open transaction has deleted or reset is in its order, the answers
\* it has deleted are still there for everybody else, and once it has reset the
\* seats, every seat sold to a request whose answer it deleted is among them.
Forgetting ==
    /\ cl # "reset" => gone = Nothing
    /\ cl \notin {"reset", "verify"} => at = 1
    /\ at <= 2 => gone.processed = {}
    /\ gone.processed \subseteq Recorded(processed)
    /\ at > 3 => \A s \in Seat : seats[s] \in gone.processed => s \in gone.seats

\* The seat of request r, if it names one, is not for sale.
Taken(r) == SeatOf(r) # None => seats[SeatOf(r)] # None

\* An open transaction on a seat is its worker's own sale of a free seat.
OwnSale(w) ==
    /\ tx[w] # None => killed[w] = 0 /\ pc[w] = "commit" /\ result[w] = "sold"
    /\ tx[w] \in Seat => /\ Req(w) \in Numbered
                         /\ tx[w] = SeatOf(Req(w))
                         /\ seats[tx[w]] = None
    /\ killed[w] = 0 /\ pc[w] = "commit" /\ result[w] = "sold" /\ Req(w) \in Numbered =>
         tx[w] = SeatOf(Req(w))

\* What a worker with a live session holds is not older than the last reset:
\* whose request is answered, or whose result is known, has no free seat.
Fresh(w) ==
    killed[w] = 0 /\ Req(w) \in Numbered =>
        /\ pc[w] \in {"pay", "sell", "commit"} /\ processed[Req(w)] # None => Taken(Req(w))
        /\ pc[w] = "commit" /\ result[w] # "sold" => Taken(Req(w))
        /\ pc[w] = "mark" => Taken(Req(w))

\* That holds until the tables are reset, and again once the next attempt has
\* terminated the sessions that remember the tables of before.
Early ==
    \/ cl \in {"off", "drain", "purge", "purgeDlq", "reset"}
    \/ cl = "connect" /\ attempt = 0

SaleInv ==
    /\ \A w \in Worker : OwnSale(w)
    /\ RowsLockedOnce
    /\ Early => \A w \in Worker : Fresh(w)

ForgetInv == SaleInv /\ Forgetting

\* A seat is given away by the commit of the worker that sells it.
LEMMA SeatComesFromCommit ==
    ASSUME TypeInv, [Next]_vars, NEW s \in Seat, seats'[s] # seats[s]
    PROVE  \E w \in Worker : /\ pc[w] = "commit" /\ pc'[w] \in {"mark", "failed"}
                             /\ tx[w] = s /\ seats'[s] = Req(w)
  <1> USE DEF TypeInv, TypeOK, DbTypeOK, dbVars
  <1>1. CASE UNCHANGED vars
    BY <1>1 DEF vars
  <1>2. ASSUME NEW q \in Request, Publish(q)
        PROVE  seats' = seats
    BY <1>2 DEF Publish
  <1>3. ASSUME NEW w \in Worker, NEW m \in ready, Receive(w, m)
        PROVE  seats' = seats
    BY <1>3 DEF Receive
  <1>4. ASSUME NEW w \in Worker, WorkerStep(w) \/ Fault(w)
        PROVE  \/ seats' = seats
               \/ /\ pc[w] = "commit" /\ pc'[w] \in {"mark", "failed"}
                  /\ tx[w] = s /\ seats'[s] = Req(w)
    <2>1. CASE \/ Start(w) \/ Connect(w) \/ Reconnect(w)
               \/ \E m \in inbox[w] : Take(w, m)
               \/ CheckIdempotent(w) \/ Pay(w) \/ Ack(w) \/ Reject(w)
               \/ RetryAck(w) \/ PublishRetry(w) \/ RetriesExhausted(w)
               \/ LinkLost(w)
      BY <2>1 DEF Start, Connect, Reconnect, Take, CheckIdempotent, Pay, Ack, Reject,
                  RetryAck, PublishRetry, RetriesExhausted, LinkLost
    <2>2. CASE \/ SellNumbered(w) \/ SellUnnumbered(w) \/ MarkProcessed(w)
               \/ Crash(w) \/ GetConnFails(w) \/ SqlFails(w)
      BY <2>2 DEF SellNumbered, SellUnnumbered, sell_seat, decrement_inventory,
                  MarkProcessed, mark_processed, Crash, GetConnFails, SqlFails, Die,
                  RollbackSale
    <2>3. CASE Commit(w) \/ CommitUnconfirmed(w)
      BY <2>3 DEF Commit, CommitUnconfirmed, mark_processed, CommitSale, Goto
    <2> QED
      BY <1>4, <2>1, <2>2, <2>3 DEF WorkerStep, Fault
  <1> QED
    BY <1>1, <1>2, <1>3, <1>4 DEF Next

LEMMA TakenStays ==
    ASSUME TypeInv, [Next]_vars, NEW r \in Request, Taken(r)
    PROVE  Taken(r)'
  <1>1. SeatOf(r) \in Seat \cup {None}
    BY OrdersAssumption DEF SeatOf, BuyRequest
  <1>2. ASSUME NEW s \in Seat, seats[s] # None
        PROVE  seats'[s] # None
    <2>1. CASE seats'[s] = seats[s]
      BY <1>2, <2>1
    <2>2. CASE seats'[s] # seats[s]
      <3>1. PICK w \in Worker : pc[w] = "commit" /\ seats'[s] = Req(w)
        BY <2>2, SeatComesFromCommit
      <3>2. Req(w) \in Request
        BY <3>1, MessageInHand DEF TypeInv, HandlesOrder, Handling
      <3> QED
        BY <3>1, <3>2, OrdersAssumption
    <2> QED
      BY <2>1, <2>2
  <1> QED
    BY <1>1, <1>2 DEF Taken

\* What one worker does leaves the handlers of the others alone.
LEMMA OthersStay ==
    ASSUME TypeInv, NEW w \in Worker,
           WorkerStep(w) \/ Fault(w) \/ \E m \in ready : Receive(w, m)
    PROVE  /\ \A v \in Worker : v # w =>
                 /\ pc'[v] = pc[v] /\ cur'[v] = cur[v] /\ result'[v] = result[v]
                 /\ tx'[v] = tx[v]
           /\ tx'[w] \in {tx[w], None} \/ \A v \in Worker : tx[v] # tx'[w]
  <1> USE DEF TypeInv, TypeOK, DbTypeOK, dbVars, workerVars, Goto
  <1>1. CASE \/ Start(w) \/ Connect(w) \/ Reconnect(w)
             \/ \E m \in inbox[w] : Take(w, m)
             \/ CheckIdempotent(w) \/ Pay(w) \/ LinkLost(w)
             \/ \E m \in ready : Receive(w, m)
    BY <1>1 DEF Start, Connect, Reconnect, Forget, Take, CheckIdempotent, Pay, LinkLost,
                Receive
  <1>2. CASE SellNumbered(w) \/ SellUnnumbered(w)
    BY <1>2 DEF SellNumbered, SellUnnumbered, sell_seat, decrement_inventory, Locked
  <1>3. CASE Commit(w) \/ MarkProcessed(w) \/ CommitUnconfirmed(w)
    BY <1>3 DEF Commit, MarkProcessed, CommitUnconfirmed, CommitSale, mark_processed
  <1>4. CASE \/ Ack(w) \/ Reject(w) \/ RetryAck(w) \/ PublishRetry(w)
             \/ RetriesExhausted(w)
    BY <1>4 DEF Ack, Reject, RetryAck, PublishRetry, RetriesExhausted, Return
  <1>5. CASE Crash(w) \/ GetConnFails(w) \/ SqlFails(w)
    BY <1>5 DEF Crash, GetConnFails, Die, Forget, SqlFails, RollbackSale
  <1> QED
    BY <1>1, <1>2, <1>3, <1>4, <1>5 DEF WorkerStep, Fault

\* Apart from the steps of a sale, a worker stays where it is or leaves the sale.
LEMMA OutsideSale ==
    ASSUME TypeInv, NEW w \in Worker,
           WorkerStep(w) \/ Fault(w) \/ \E m \in ready : Receive(w, m)
    PROVE  \/ /\ UNCHANGED <<seats, processed>>
              /\ pc'[w] = pc[w] /\ cur'[w] = cur[w] /\ result'[w] = result[w]
              /\ tx'[w] = tx[w]
           \/ /\ pc'[w] \notin {"pay", "sell", "commit", "mark"}
              /\ tx'[w] = None \/ (tx'[w] = tx[w] /\ pc[w] # "commit")
           \/ CheckIdempotent(w) \/ Pay(w) \/ SellNumbered(w) \/ SellUnnumbered(w)
           \/ Commit(w)
  <1> USE DEF TypeInv, TypeOK, DbTypeOK, dbVars, workerVars, Goto
  <1>1. CASE LinkLost(w) \/ \E m \in ready : Receive(w, m)
    BY <1>1 DEF LinkLost, Receive
  <1>2. CASE Start(w) \/ Connect(w) \/ Reconnect(w) \/ \E m \in inbox[w] : Take(w, m)
    BY <1>2 DEF Start, Connect, Reconnect, ChannelStep, Take
  <1>3. CASE MarkProcessed(w) \/ CommitUnconfirmed(w)
    BY <1>3 DEF MarkProcessed, CommitUnconfirmed, CommitSale, mark_processed
  <1>4. CASE \/ Ack(w) \/ Reject(w) \/ RetryAck(w) \/ PublishRetry(w)
             \/ RetriesExhausted(w)
    BY <1>4 DEF Ack, Reject, RetryAck, PublishRetry, RetriesExhausted, Return
  <1>5. CASE Crash(w) \/ GetConnFails(w) \/ SqlFails(w)
    BY <1>5 DEF Crash, GetConnFails, Die, SqlFails, RollbackSale
  <1> QED
    BY <1>1, <1>2, <1>3, <1>4, <1>5 DEF WorkerStep, Fault

\* A statement that takes effect is one of a worker whose sessions live.
LEMMA StatementNeedsSession ==
    ASSUME CleanInv, NEW w \in Worker, Moves(w), pc[w] \in SqlStep,
           pc'[w] \notin {pc[w], "down"}
    PROVE  killed[w] = 0 /\ killed'[w] = 0
  <1>1. killed[w] \in 0 .. SessionsPerWorker /\ killed'[w] = killed[w]
    BY DEF Moves, CleanInv, CleanerTypeOK
  <1>2. ~(killed[w] > 0)
    BY DEF Moves, HeldBack
  <1> QED
    BY <1>1, <1>2 DEF SessionsPerWorker

\* What the worker that moves holds stays its own and fresh.
LEMMA ActorStep ==
    ASSUME CleanInv, SaleInv, NEW w \in Worker, Moves(w)
    PROVE  OwnSale(w)' /\ (Early => Fresh(w)')
  <1>t. /\ TypeInv /\ TypeOK /\ DbTypeOK /\ OwnSale(w) /\ (Early => Fresh(w))
        /\ WorkerStep(w) \/ Fault(w) \/ \E m \in ready : Receive(w, m)
    BY DEF CleanInv, TypeInv, TypeOK, SaleInv, Moves
  <1>k. killed'[w] = IF pc'[w] = "down" THEN 0 ELSE killed[w]
    BY DEF Moves, CleanInv, CleanerTypeOK
  <1>1. CASE /\ UNCHANGED <<seats, processed>>
             /\ pc'[w] = pc[w] /\ cur'[w] = cur[w] /\ result'[w] = result[w]
             /\ tx'[w] = tx[w]
    <2>1. Req(w)' = Req(w) /\ Taken(Req(w))' = Taken(Req(w))
      BY <1>1 DEF Req, Taken
    <2>2. OwnSale(w)'
      BY <1>1, <1>t, <1>k, <2>1 DEF OwnSale
    <2>3. Early => Fresh(w)'
      BY <1>1, <1>t, <1>k, <2>1 DEF Fresh
    <2> QED
      BY <2>2, <2>3
  <1>2. CASE /\ pc'[w] \notin {"pay", "sell", "commit", "mark"}
             /\ tx'[w] = None \/ (tx'[w] = tx[w] /\ pc[w] # "commit")
    <2>1. tx'[w] = None
      BY <1>2, <1>t DEF OwnSale
    <2>2. OwnSale(w)'
      BY <1>2, <2>1, OrdersAssumption DEF OwnSale
    <2>3. Fresh(w)'
      BY <1>2 DEF Fresh
    <2> QED
      BY <2>2, <2>3
  <1>3. CASE CheckIdempotent(w) \/ Pay(w)
    <2>1. /\ pc[w] \in {"check", "pay"} /\ pc'[w] # "commit"
          /\ UNCHANGED <<seats, processed, cur>> /\ tx'[w] = None
      BY <1>3, <1>t DEF CheckIdempotent, Pay, Goto, TypeOK, dbVars, OwnSale
    <2>2. OwnSale(w)'
      BY <2>1, OrdersAssumption DEF OwnSale
    <2>3. Req(w)' = Req(w) /\ Taken(Req(w))' = Taken(Req(w))
      BY <2>1 DEF Req, Taken
    <2>4. CASE CheckIdempotent(w)
      <3>1. \/ pc'[w] = "pay" /\ processed[Req(w)] = None
            \/ pc'[w] = "mark" /\ Taken(Req(w))
            \/ pc'[w] \in {"ack", "reject"}
        BY <1>t, <2>4 DEF CheckIdempotent, check_idempotent, Goto, TypeOK, Taken
      <3> QED
        BY <2>1, <2>2, <2>3, <3>1 DEF Fresh
    <2>5. CASE Pay(w)
      BY <1>t, <1>k, <2>1, <2>2, <2>3, <2>5 DEF Pay, Goto, TypeOK, Fresh
    <2> QED
      BY <1>3, <2>2, <2>4, <2>5
  <1>4. CASE SellNumbered(w) \/ SellUnnumbered(w)
    <2>1. /\ pc[w] = "sell" /\ pc'[w] = "commit" /\ UNCHANGED <<seats, processed, cur>>
      BY <1>4, <1>t DEF SellNumbered, SellUnnumbered, sell_seat, decrement_inventory, Goto,
                        TypeOK
    <2>2. killed[w] = 0 /\ killed'[w] = 0
      BY <2>1, StatementNeedsSession DEF SqlStep
    <2>3. Req(w)' = Req(w) /\ Taken(Req(w))' = Taken(Req(w))
      BY <2>1 DEF Req, Taken
    <2>4. CASE SellNumbered(w)
      <3>1. /\ Req(w) \in Numbered /\ SeatOf(Req(w)) \in Seat
        BY <2>1, <2>4, <1>t, MessageInHand
           DEF SellNumbered, TypeInv, HandlesOrder, Handling, Numbered, Unnumbered
      <3>2. \/ /\ seats[SeatOf(Req(w))] = None
               /\ tx'[w] = SeatOf(Req(w)) /\ result'[w] = "sold"
            \/ /\ seats[SeatOf(Req(w))] # None
               /\ tx'[w] = None /\ result'[w] = "rejected"
        BY <2>4, <1>t DEF SellNumbered, sell_seat, TypeOK, DbTypeOK
      <3>3. OwnSale(w)'
        BY <2>1, <2>2, <2>3, <3>1, <3>2, OrdersAssumption DEF OwnSale
      <3>4. Early => Fresh(w)'
        BY <1>t, <2>1, <2>2, <2>3, <3>2 DEF Fresh, Taken
      <3> QED
        BY <3>3, <3>4
    <2>5. CASE SellUnnumbered(w)
      <3>1. Req(w)' \notin Numbered
        BY <2>3, <2>5 DEF SellUnnumbered, Numbered, Unnumbered
      <3>2. tx'[w] = None \/ (tx'[w] = InventoryRow /\ result'[w] = "sold")
        BY <2>5, <1>t DEF SellUnnumbered, decrement_inventory, TypeOK, DbTypeOK
      <3> QED
        BY <2>1, <2>2, <3>1, <3>2, OrdersAssumption, DatabaseAssumption DEF OwnSale, Fresh
    <2> QED
      BY <1>4, <2>4, <2>5
  <1>5. CASE Commit(w)
    <2>1. /\ pc[w] = "commit" /\ pc'[w] = "mark" /\ tx'[w] = None
          /\ UNCHANGED <<processed, cur, result>>
          /\ seats' = [s \in Seat |-> IF tx[w] = s THEN Req(w) ELSE seats[s]]
      BY <1>5, <1>t DEF Commit, CommitSale, Goto, TypeOK, DbTypeOK
    <2>2. killed[w] = 0
      BY <2>1, StatementNeedsSession DEF SqlStep
    <2>3. Req(w)' = Req(w) /\ Req(w) \in Request
          /\ SeatOf(Req(w)) \in Seat \cup {None}
      BY <2>1, <1>t, MessageInHand DEF Req, TypeInv, HandlesOrder, Handling
    <2>4. OwnSale(w)'
      BY <2>1, OrdersAssumption DEF OwnSale
    <2>5. ASSUME Early, Req(w) \in Numbered
          PROVE  Taken(Req(w))'
      <3>1. CASE result[w] = "sold"
        BY <1>t, <2>1, <2>2, <2>3, <2>5, <3>1, OrdersAssumption DEF OwnSale, Taken
      <3>2. CASE result[w] # "sold"
        <4>1. Taken(Req(w))
          BY <1>t, <2>1, <2>2, <2>5, <3>2 DEF Fresh
        <4> QED
          BY <2>1, <2>3, <4>1, OrdersAssumption DEF Taken
      <3> QED
        BY <3>1, <3>2
    <2> QED
      BY <2>1, <2>3, <2>4, <2>5 DEF Fresh
  <1> QED
    BY <1>t, <1>1, <1>2, <1>3, <1>4, <1>5, OutsideSale

\* What a worker that does nothing holds stays its own and fresh: others sell
\* other seats, and give answers whose seat is taken.
LEMMA BystanderStep ==
    ASSUME CleanInv, SaleInv, [Next]_vars, NEW w \in Worker, Moves(w),
           NEW v \in Worker, v # w
    PROVE  OwnSale(v)' /\ (Early => Fresh(v)')
  <1>t. /\ TypeInv /\ TypeOK /\ DbTypeOK /\ OwnSale(v) /\ (Early => Fresh(v))
        /\ WorkerStep(w) \/ Fault(w) \/ \E m \in ready : Receive(w, m)
        /\ RowsLockedOnce
    BY DEF CleanInv, TypeInv, TypeOK, SaleInv, Moves
  <1>1. /\ pc'[v] = pc[v] /\ cur'[v] = cur[v] /\ result'[v] = result[v]
        /\ tx'[v] = tx[v] /\ killed'[v] = killed[v] /\ Req(v)' = Req(v)
    BY <1>t, OthersStay DEF Moves, CleanInv, CleanerTypeOK, Req
  <1>2. ASSUME tx[v] \in Seat
        PROVE  seats'[tx[v]] = seats[tx[v]]
    <2>1. SUFFICES ASSUME seats'[tx[v]] # seats[tx[v]]
                   PROVE  FALSE
      OBVIOUS
    <2>2. PICK u \in Worker : /\ pc[u] = "commit" /\ pc'[u] \in {"mark", "failed"}
                             /\ tx[u] = tx[v]
      BY <1>2, <1>t, <2>1, SeatComesFromCommit
    <2>3. u = v
      BY <1>2, <1>t, <2>2, OrdersAssumption DEF RowsLockedOnce
    <2> QED
      BY <1>1, <2>2, <2>3
  <1>3. OwnSale(v)'
    BY <1>1, <1>2, <1>t DEF OwnSale
  <1>4. ASSUME Early, killed[v] = 0, Req(v) \in Numbered
        PROVE  /\ Taken(Req(v)) => Taken(Req(v))'
               /\ processed'[Req(v)] # None => processed[Req(v)] # None \/ Taken(Req(v))
    <2>1. Req(v) \in Request
      BY <1>4 DEF Numbered
    <2>2. ASSUME processed[Req(v)] = None, processed'[Req(v)] # None
          PROVE  Taken(Req(v))
      <3>1. PICK u \in Worker : /\ pc[u] = "mark" /\ Req(u) = Req(v)
                               /\ pc'[u] \in {"ack", "failed"}
        BY <1>t, <2>1, <2>2, AnswerComesFromMark
      <3>2. u = w
        BY <1>t, <3>1, OthersStay
      <3>3. killed[w] = 0
        BY <3>1, <3>2, StatementNeedsSession DEF SqlStep
      <3>4. Fresh(w)
        BY <1>4 DEF SaleInv
      <3> QED
        BY <1>4, <3>1, <3>2, <3>3, <3>4 DEF Fresh
    <2> QED
      BY <1>t, <1>1, <2>1, <2>2, TakenStays DEF Taken
  <1>5. Early => Fresh(v)'
    BY <1>t, <1>1, <1>4 DEF Fresh
  <1> QED
    BY <1>3, <1>5

LEMMA SaleBeside ==
    ASSUME CleanInv, SaleInv, Beside
    PROVE  SaleInv'
  <1>1. [Next]_vars /\ Early' = Early
    BY DEF Beside, cleanerVars, Early
  <1>2. CASE UNCHANGED killed /\ UNCHANGED <<dbVars, workerVars>>
    BY <1>1, <1>2 DEF SaleInv, OwnSale, RowsLockedOnce, Fresh, Taken, Req, dbVars, workerVars
  <1>3. ASSUME NEW w \in Worker, Moves(w)
        PROVE  SaleInv'
    <2>1. \A v \in Worker : OwnSale(v)' /\ (Early => Fresh(v)')
      BY <1>1, <1>3, ActorStep, BystanderStep
    <2>2. /\ \A v \in Worker : v # w => tx'[v] = tx[v]
          /\ tx'[w] \in {tx[w], None} \/ \A v \in Worker : tx[v] # tx'[w]
      BY <1>3, OthersStay DEF Moves, CleanInv
    <2>3. RowsLockedOnce'
      BY <2>2 DEF SaleInv, RowsLockedOnce
    <2> QED
      BY <1>1, <2>1, <2>3 DEF SaleInv
  <1> QED
    BY <1>2, <1>3 DEF Beside

LEMMA SaleKilled ==
    ASSUME CleanInv, SaleInv, NEW w \in Worker, StatementOnKilled(w)
    PROVE  SaleInv'
  <1>1. /\ pc[w] \in SqlStep /\ pc' = [pc EXCEPT ![w] = "failed"]
        /\ UNCHANGED <<seats, processed, cur>> /\ UNCHANGED cleanerVars
        /\ tx' = [tx EXCEPT ![w] = None] /\ result' = [result EXCEPT ![w] = None]
        /\ killed' = [killed EXCEPT ![w] = @ - 1]
    BY KilledStep DEF StatementOnKilled, RollbackSale
  <1>2. /\ TypeOK /\ DbTypeOK /\ Early' = Early
        /\ killed \in [Worker -> 0 .. SessionsPerWorker]
    BY <1>1 DEF CleanInv, TypeInv, TypeOK, CleanerTypeOK, cleanerVars, Early
  <1>3. OwnSale(w)' /\ Fresh(w)'
    BY <1>1, <1>2, OrdersAssumption DEF OwnSale, Fresh, TypeOK, DbTypeOK
  <1>4. ASSUME NEW v \in Worker, v # w
        PROVE  OwnSale(v)' /\ (Early => Fresh(v)')
    <2>1. /\ pc'[v] = pc[v] /\ result'[v] = result[v] /\ tx'[v] = tx[v]
          /\ killed'[v] = killed[v] /\ Req(v)' = Req(v)
      BY <1>1, <1>2, <1>4 DEF TypeOK, DbTypeOK, Req
    <2> QED
      BY <1>1, <2>1 DEF SaleInv, OwnSale, Fresh, Taken
  <1>5. RowsLockedOnce'
    BY <1>1, <1>2 DEF SaleInv, RowsLockedOnce, DbTypeOK
  <1> QED
    BY <1>2, <1>3, <1>4, <1>5 DEF SaleInv

\* The script starts every attempt but the first by terminating the sessions
\* that remember the tables of before, and only its commit touches a table.
LEMMA SaleScript ==
    ASSUME CleanInv, SaleInv, ByScript
    PROVE  SaleInv'
  <1>1. UNCHANGED <<pc, cur, result>> /\ \A w \in Worker : Req(w)' = Req(w)
    BY ScriptStep DEF workerVars, Req
  <1>2. ASSUME UNCHANGED <<seats, processed, tx, killed>>, Early' => Early
        PROVE  SaleInv'
    BY <1>1, <1>2 DEF SaleInv, OwnSale, RowsLockedOnce, Fresh, Taken
  <1>3. CASE Begin \/ PollDepth \/ DrainTimesOut \/ DepthUnknown
    BY <1>2, <1>3 DEF Begin, PollDepth, DrainTimesOut, DepthUnknown, Proceed, vars, dbVars,
                      Early
  <1>4. CASE PurgeBuy \/ PurgeDlq \/ PurgeFails
    BY <1>2, <1>4 DEF PurgeBuy, PurgeDlq, PurgeFails, vars, dbVars, Early
  <1>5. CASE ResetTable \/ VerifyTable \/ Succeed
    BY <1>2, <1>5 DEF ResetTable, VerifyTable, Succeed, vars, dbVars, Early
  <1>b. ASSUME TryAgain
        PROVE  ~Early' /\ UNCHANGED killed
    <2>1. attempt \in 0 .. Retry /\ Retry \in Nat
      BY CleanupAssumption DEF CleanInv, CleanerTypeOK
    <2> QED
      BY <1>b, <2>1 DEF TryAgain, Early
  <1>6. CASE Unclean \/ StatementRaises
    BY <1>2, <1>6, <1>b DEF Unclean, StatementRaises, vars, dbVars
  <1>7. CASE ConnectAndKill
    <2>1. CASE ForceKill \/ attempt > 0
      <3>1. /\ UNCHANGED <<seats, processed>>
            /\ tx' = [w \in Worker |-> None]
            /\ killed' = [w \in Worker |-> IF pc[w] = "down" THEN 0
                                           ELSE SessionsPerWorker]
        BY <1>7, <2>1 DEF ConnectAndKill
      <3>2. \A w \in Worker : killed'[w] = 0 => pc[w] = "down"
        BY <3>1 DEF SessionsPerWorker
      <3>3. \A w \in Worker : OwnSale(w)' /\ Fresh(w)'
        BY <1>1, <3>1, <3>2, OrdersAssumption DEF OwnSale, Fresh
      <3>4. RowsLockedOnce'
        BY <3>1 DEF RowsLockedOnce
      <3> QED
        BY <3>3, <3>4 DEF SaleInv
    <2>2. CASE ~(ForceKill \/ attempt > 0)
      <3>1. /\ UNCHANGED <<seats, processed, tx, killed, attempt>>
            /\ cl = "connect" /\ attempt = 0
        BY <1>7, <2>2 DEF ConnectAndKill, CleanInv, CleanerTypeOK
      <3> QED
        BY <1>2, <3>1 DEF Early
    <2> QED
      BY <2>1, <2>2
  <1>8. CASE CommitReset \/ ResetUnconfirmed
    <2>1. /\ UNCHANGED tx
          /\ \A s \in Seat : seats[s] = None => seats'[s] = None
      BY <1>8 DEF CommitReset, ResetUnconfirmed, ResetTables
    <2>2. ~Early' /\ UNCHANGED killed
      BY <1>8, <1>b DEF CommitReset, ResetUnconfirmed, Early
    <2> QED
      BY <1>1, <2>1, <2>2 DEF SaleInv, OwnSale, RowsLockedOnce
  <1> QED
    BY <1>3, <1>4, <1>5, <1>6, <1>7, <1>8 DEF ByScript, Cleaner, CleanerFault

LEMMA ForgetBeside ==
    ASSUME CleanInv, ForgetInv, Beside
    PROVE  ForgetInv'
  <1>1. /\ [Next]_vars /\ TypeInv /\ DeliveryInv
        /\ UNCHANGED <<cl, at, gone>>
    BY DEF Beside, CleanInv, cleanerVars
  <1>2. SaleInv'
    BY SaleBeside DEF ForgetInv
  <1>3. gone'.processed \subseteq Recorded(processed)'
    BY <1>1, AnswersStay DEF ForgetInv, Forgetting, Recorded
  <1>4. ASSUME at > 3, NEW s \in Seat, seats'[s] \in gone.processed
        PROVE  s \in gone.seats
    <2>1. CASE seats'[s] = seats[s]
      BY <1>4, <2>1 DEF ForgetInv, Forgetting
    <2>2. CASE seats'[s] # seats[s]
      <3>1. PICK w \in Worker : /\ pc[w] = "commit" /\ pc'[w] \in {"mark", "failed"}
                               /\ tx[w] = s /\ seats'[s] = Req(w)
        BY <1>1, <2>2, SeatComesFromCommit
      <3>2. PICK u \in Worker : Moves(u)
        BY <2>2 DEF Beside, dbVars
      <3>3. u = w
        BY <1>1, <3>1, <3>2, OthersStay DEF Moves
      <3>4. killed[w] = 0
        BY <3>1, <3>2, <3>3, StatementNeedsSession DEF SqlStep
      \* The answer is there already: its seat, which is s, cannot be free.
      <3>5. processed[Req(w)] # None /\ Early
        BY <1>4, <3>1 DEF ForgetInv, Forgetting, Recorded, Early, Nothing
      <3>6. OwnSale(w) /\ Fresh(w)
        BY <3>5 DEF ForgetInv, SaleInv
      <3> QED
        BY <3>1, <3>4, <3>5, <3>6, OrdersAssumption DEF OwnSale, Fresh, Taken
    <2> QED
      BY <2>1, <2>2
  <1> QED
    BY <1>1, <1>2, <1>3, <1>4 DEF ForgetInv, Forgetting, Nothing

LEMMA ForgetKilled ==
    ASSUME CleanInv, ForgetInv, NEW w \in Worker, StatementOnKilled(w)
    PROVE  ForgetInv'
  <1>1. UNCHANGED <<seats, processed>> /\ UNCHANGED cleanerVars
    BY KilledStep
  <1>2. SaleInv'
    BY SaleKilled DEF ForgetInv
  <1> QED
    BY <1>1, <1>2 DEF ForgetInv, Forgetting, Recorded, Nothing, cleanerVars

LEMMA ForgetScript ==
    ASSUME CleanInv, CleanInv', ForgetInv, ByScript
    PROVE  ForgetInv'
  <1>1. SaleInv'
    BY SaleScript DEF ForgetInv
  <1>4. ASSUME gone' = Nothing, cl' \notin {"reset", "verify"} => at' = 1
        PROVE  Forgetting'
    BY <1>4 DEF Forgetting, Nothing
  <1>5. ASSUME gone = Nothing, UNCHANGED gone,
               cl' \notin {"reset", "verify"} => at' = 1
        PROVE  ForgetInv'
    BY <1>1, <1>4, <1>5 DEF ForgetInv
  <1>6. CASE Begin \/ PollDepth \/ DrainTimesOut \/ DepthUnknown
    BY <1>5, <1>6 DEF Begin, PollDepth, DrainTimesOut, DepthUnknown, Proceed, vars, dbVars,
                      ForgetInv, Forgetting
  <1>7. CASE PurgeBuy \/ PurgeDlq \/ PurgeFails \/ ConnectAndKill
    BY <1>5, <1>7 DEF PurgeBuy, PurgeDlq, PurgeFails, ConnectAndKill, vars, dbVars,
                      ForgetInv, Forgetting
  <1>8. CASE ResetTable
    <2>1. /\ cl = "reset" /\ UNCHANGED cl /\ at' = at + 1 /\ at \in 1 .. 4
          /\ UNCHANGED <<seats, processed>>
      BY <1>8, FourTables DEF ResetTable, vars, dbVars, CleanInv, CleanerTypeOK
    <2>2. /\ gone.processed \subseteq Request
          /\ gone \in [results : SUBSET Request, processed : SUBSET Request,
                       seats : SUBSET Seat, inventory : BOOLEAN]
      BY DEF CleanInv, CleanerTypeOK
    <2>3. Recorded(processed)' = Recorded(processed)
      BY <2>1 DEF Recorded
    <2>4. CASE at = 1
      <3>1. gone'.processed = gone.processed
        BY <1>8, <2>2, <2>4, FourTables DEF ResetTable
      <3> QED
        BY <2>1, <2>3, <2>4, <3>1, <1>1 DEF ForgetInv, Forgetting
    <2>5. CASE at = 2
      <3>1. gone'.processed = Recorded(processed)
        BY <1>8, <2>2, <2>5, FourTables DEF ResetTable
      <3> QED
        BY <2>1, <2>3, <2>5, <3>1, <1>1 DEF ForgetInv, Forgetting
    <2>6. CASE at = 3
      <3>1. /\ gone'.processed = gone.processed
            /\ gone'.seats = {s \in Seat : seats[s] # None}
        BY <1>8, <2>2, <2>6, FourTables DEF ResetTable
      <3>2. \A s \in Seat : seats[s] \in gone.processed => s \in gone'.seats
        BY <2>2, <3>1, OrdersAssumption
      <3> QED
        BY <2>1, <2>3, <2>6, <3>1, <3>2, <1>1 DEF ForgetInv, Forgetting
    <2>7. CASE at = 4
      <3>1. gone'.processed = gone.processed /\ gone'.seats = gone.seats
        BY <1>8, <2>2, <2>7, FourTables DEF ResetTable
      <3> QED
        BY <2>1, <2>3, <2>7, <3>1, <1>1 DEF ForgetInv, Forgetting
    <2> QED
      BY <2>1, <2>4, <2>5, <2>6, <2>7
  <1>9. CASE CommitReset
    BY <1>1, <1>4, <1>9 DEF CommitReset, ForgetInv
  <1>10. CASE VerifyTable
    BY <1>5, <1>10 DEF VerifyTable, vars, dbVars, ForgetInv, Forgetting
  <1>11. CASE Succeed
    BY <1>5, <1>11 DEF Succeed, vars, dbVars, ForgetInv, Forgetting
  <1>12. CASE Unclean \/ StatementRaises \/ ResetUnconfirmed
    BY <1>1, <1>4, <1>12 DEF Unclean, StatementRaises, ResetUnconfirmed, TryAgain, ForgetInv
  <1> QED
    BY <1>6, <1>7, <1>8, <1>9, <1>10, <1>11, <1>12 DEF ByScript, Cleaner, CleanerFault

\* Only the commit of the reset takes an answer away, and it takes the seat too.
LEMMA ForgetsWhole ==
    ASSUME CleanInv, ForgetInv, [CleanNext]_allVars, NEW r \in Request,
           processed[r] # None, processed'[r] = None, NEW s \in Seat
    PROVE  seats'[s] # r
  <1>1. ~Beside
    BY AnswersStay DEF Beside, CleanInv
  <1>2. \A w \in Worker : ~StatementOnKilled(w)
    BY KilledStep
  <1>3. ResetTables
    <2>1. ByScript /\ processed' # processed
      BY <1>1, <1>2, StepsByActor
    <2> QED
      BY <2>1 DEF ByScript, Cleaner, CleanerFault, Begin, PollDepth, DrainTimesOut,
                  DepthUnknown, Proceed, PurgeBuy, PurgeDlq, PurgeFails, ConnectAndKill,
                  ResetTable, VerifyTable, Succeed, Unclean, StatementRaises,
                  CommitReset, ResetUnconfirmed, vars, dbVars
  <1>4. r \in gone.processed /\ at > 3
    <2>1. at > 4 /\ at \in Nat
      BY <1>3, FourTables DEF ResetTables, CleanInv, CleanerTypeOK
    <2>2. processed'[r] = IF r \in gone.processed THEN None ELSE processed[r]
      BY <1>3 DEF ResetTables
    <2> QED
      BY <2>1, <2>2
  <1>5. seats'[s] = IF s \in gone.seats THEN None ELSE seats[s]
    BY <1>3 DEF ResetTables
  <1> QED
    BY <1>4, <1>5, OrdersAssumption DEF ForgetInv, Forgetting

\* The reset forgets answers and sales together, whatever the workers commit
\* between its statements and whatever fails: nobody sells a seat for who has
\* an answer, unless its session remembers the tables of before the last reset,
\* and those are terminated before the next.
THEOREM ResetForgetsWhole == CleanSpec => ForgottenWhole
  <1> DEFINE Forgets == \A r \in Request : processed[r] # None /\ processed'[r] = None =>
                          \A s \in Seat : seats'[s] # r
  <1>1. CleanInit => ForgetInv
    <2>1. CleanInit => SaleInv
      BY OrdersAssumption
         DEF CleanInit, Init, BrokerInit, DbInit, SaleInv, OwnSale, Fresh, RowsLockedOnce
    <2> QED
      BY <2>1 DEF CleanInit, Init, BrokerInit, ForgetInv, Forgetting, Nothing
  <1>2. CleanInv /\ CleanInv' /\ ForgetInv /\ [CleanNext]_allVars => ForgetInv'
    BY StepsByActor, ForgetBeside, ForgetKilled, ForgetScript
  <1>3. CleanInv /\ ForgetInv /\ [CleanNext]_allVars => [Forgets]_allVars
    BY ForgetsWhole
  <1> QED
    BY <1>1, <1>2, <1>3, CleanInvariant, PTL DEF CleanSpec, ForgottenWhole
=============================================================================
