------------------------- MODULE TicketWorkerProofs -------------------------
(***************************************************************************)
(* What holds of TicketWorker for every number of workers, requests,       *)
(* seats and tickets, every prefetch and retry limit and every kind of     *)
(* fault.                                                                  *)
(***************************************************************************)
EXTENDS TicketWorker, FiniteSetTheorems, TLAPS

-----------------------------------------------------------------------------
(* Type correctness *)

LEMMA BrokerTypes ==
    ASSUME BrokerTypeOK, NEW w \in Worker
    PROVE  /\ OpenLink(w) => BrokerTypeOK'
           /\ \A m \in Message :
                \/ BrokerDeliver(w, m)
                \/ basic_ack(w, m)
                \/ basic_nack(w, m)
                \/ basic_publish(w, m)
                => BrokerTypeOK'
           /\ \A state \in LinkState : EndLink(w, state) => BrokerTypeOK'
           /\ \A r \in Request : BrokerPublish(r) => BrokerTypeOK'
           /\ UNCHANGED brokerVars => BrokerTypeOK'
  <1> USE DEF BrokerTypeOK
  <1>1. OpenLink(w) => BrokerTypeOK'
    BY DEF OpenLink, LinkState
  <1>2. ASSUME NEW m \in Message
        PROVE  BrokerDeliver(w, m) \/ basic_ack(w, m) \/ basic_nack(w, m)
                 \/ basic_publish(w, m) => BrokerTypeOK'
    <2>1. BrokerDeliver(w, m) => BrokerTypeOK'
      BY DEF BrokerDeliver
    <2>2. basic_ack(w, m) => BrokerTypeOK'
      BY DEF basic_ack
    <2>3. basic_nack(w, m) => BrokerTypeOK'
      BY DEF basic_nack
    <2>4. basic_publish(w, m) => BrokerTypeOK'
      BY DEF basic_publish
    <2> QED
      BY <2>1, <2>2, <2>3, <2>4
  <1>3. ASSUME NEW state \in LinkState
        PROVE  EndLink(w, state) => BrokerTypeOK'
    BY DEF EndLink
  <1>4. ASSUME NEW r \in Request
        PROVE  BrokerPublish(r) => BrokerTypeOK'
    <2>1. [req |-> r, retry |-> 0] \in Message
      BY BrokerAssumption DEF Message
    <2> QED
      BY <2>1 DEF BrokerPublish
  <1>5. UNCHANGED brokerVars => BrokerTypeOK'
    BY DEF brokerVars
  <1> QED
    BY <1>1, <1>2, <1>3, <1>4, <1>5

LEMMA DbTypes ==
    ASSUME DbTypeOK, NEW w \in Worker
    PROVE  /\ \A s \in Seat, rows \in {0, 1} : sell_seat(w, s, rows) => DbTypeOK'
           /\ \A rows \in {0, 1} : decrement_inventory(w, rows) => DbTypeOK'
           /\ \A r \in Request :
                /\ CommitSale(w, r) => DbTypeOK'
                /\ \A o \in Outcome : mark_processed(r, o) => DbTypeOK'
           /\ RollbackSale(w) => DbTypeOK'
           /\ UNCHANGED dbVars => DbTypeOK'
  <1> USE DEF DbTypeOK, Row
  <1>1. ASSUME NEW s \in Seat, NEW rows \in {0, 1}
        PROVE  sell_seat(w, s, rows) => DbTypeOK'
    BY DEF sell_seat
  <1>2. ASSUME NEW rows \in {0, 1}
        PROVE  decrement_inventory(w, rows) => DbTypeOK'
    BY DEF decrement_inventory
  <1>3. ASSUME NEW r \in Request
        PROVE  CommitSale(w, r) => DbTypeOK'
    BY DEF CommitSale
  <1>4. ASSUME NEW r \in Request, NEW o \in Outcome
        PROVE  mark_processed(r, o) => DbTypeOK'
    BY DEF mark_processed
  <1>5. RollbackSale(w) => DbTypeOK'
    BY DEF RollbackSale
  <1>6. UNCHANGED dbVars => DbTypeOK'
    BY DEF dbVars
  <1> QED
    BY <1>1, <1>2, <1>3, <1>4, <1>5, <1>6

\* Where a message is handled there is one, and its parts have their types.
LEMMA MessageInHand ==
    ASSUME TypeOK, NEW w \in Worker, cur[w] # None
    PROVE  /\ cur[w] \in Message
           /\ Req(w) \in Request
           /\ cur[w].retry \in 0 .. MaxRetries
           /\ SeatOf(Req(w)) \in Seat \cup {None}
  <1>1. cur[w] \in Message
    BY DEF TypeOK
  <1>2. Req(w) \in Request /\ cur[w].retry \in 0 .. MaxRetries
    BY <1>1 DEF Message, Req
  <1> QED
    BY <1>1, <1>2, OrdersAssumption DEF SeatOf, BuyRequest

TypeInv == TypeOK /\ \A w \in Worker : HandlesOrder(w)

WorkerTypeOK ==
    /\ pc \in [Worker -> Step]
    /\ cur \in [Worker -> Message \cup {None}]
    /\ result \in [Worker -> Outcome \cup {None}]
    /\ inbox \in [Worker -> SUBSET Message]

LEMMA TypeInvStep == TypeInv /\ [Next]_vars => TypeInv'
  <1> SUFFICES ASSUME TypeInv, [Next]_vars
               PROVE  TypeInv'
    OBVIOUS
  <1>a. TypeOK /\ BrokerTypeOK /\ DbTypeOK /\ WorkerTypeOK
    BY DEF TypeInv, TypeOK, WorkerTypeOK
  \* It is enough to show the three parts of the state in order.
  <1>b. ASSUME BrokerTypeOK', DbTypeOK', WorkerTypeOK',
               \A v \in Worker : HandlesOrder(v)'
        PROVE  TypeInv'
    BY <1>b DEF TypeInv, TypeOK, WorkerTypeOK
  <1>c. ASSUME UNCHANGED workerVars
        PROVE  WorkerTypeOK' /\ \A v \in Worker : HandlesOrder(v)'
    BY <1>c, <1>a DEF workerVars, WorkerTypeOK, TypeInv, HandlesOrder, Req
  <1>1. CASE UNCHANGED vars
    <2>1. UNCHANGED brokerVars /\ UNCHANGED dbVars /\ UNCHANGED workerVars
      BY <1>1 DEF vars
    <2>2. BrokerTypeOK' /\ DbTypeOK'
      BY <2>1, <1>a DEF BrokerTypeOK, DbTypeOK, brokerVars, dbVars
    <2> QED
      BY <2>1, <2>2, <1>b, <1>c
  <1>2. ASSUME NEW r \in Request, Publish(r)
        PROVE  TypeInv'
    <2>1. BrokerTypeOK'
      <3>1. [req |-> r, retry |-> 0] \in Message
        BY BrokerAssumption DEF Message
      <3> QED
        BY <1>2, <1>a, <3>1 DEF Publish, BrokerPublish, BrokerTypeOK
    <2>2. DbTypeOK'
      BY <1>2, <1>a DEF Publish, dbVars, DbTypeOK
    <2> QED
      BY <2>1, <2>2, <1>b, <1>c, <1>2 DEF Publish
  <1>3. ASSUME NEW w \in Worker, NEW m \in ready, Receive(w, m)
        PROVE  TypeInv'
    <2>1. m \in Message
      BY <1>a DEF BrokerTypeOK
    <2>2. BrokerTypeOK' /\ DbTypeOK'
      BY <1>3, <2>1, <1>a, BrokerTypes, DbTypes DEF Receive
    <2>3. WorkerTypeOK' /\ \A v \in Worker : HandlesOrder(v)'
      BY <1>3, <2>1, <1>a DEF Receive, WorkerTypeOK, TypeInv, HandlesOrder, Req
    <2> QED
      BY <2>2, <2>3, <1>b
  <1>4. ASSUME NEW w \in Worker, WorkerStep(w)
        PROVE  TypeInv'
    <2>1. CASE Start(w)
      <3>1. BrokerTypeOK'
        BY <2>1, <1>a, BrokerTypes DEF Start
      <3>2. DbTypeOK'
        BY <2>1, <1>a, DbTypes DEF Start
      <3>3. WorkerTypeOK' /\ \A v \in Worker : HandlesOrder(v)'
        BY <2>1, <1>a DEF Start, Goto, Step, WorkerTypeOK, HandlesOrder, Handling, Req, TypeInv
      <3> QED
        BY <3>1, <3>2, <3>3, <1>b
    <2>2. CASE Connect(w)
      <3>1. BrokerTypeOK'
        BY <2>2, <1>a, BrokerTypes DEF Connect
      <3>2. DbTypeOK'
        BY <2>2, <1>a, DbTypes DEF Connect
      <3>3. WorkerTypeOK' /\ \A v \in Worker : HandlesOrder(v)'
        BY <2>2, <1>a DEF Connect, Goto, Step, WorkerTypeOK, HandlesOrder, Handling, Req, TypeInv
      <3> QED
        BY <3>1, <3>2, <3>3, <1>b
    <2>3. CASE Reconnect(w)
      <3>1. BrokerTypeOK'
        BY <2>3, <1>a, BrokerTypes DEF Reconnect, LinkState
      <3>2. DbTypeOK'
        BY <2>3, <1>a, DbTypes DEF Reconnect
      <3>3. WorkerTypeOK' /\ \A v \in Worker : HandlesOrder(v)'
        BY <2>3, <1>a DEF Reconnect, Forget, Goto, Step, WorkerTypeOK, HandlesOrder, Handling, Req, TypeInv
      <3> QED
        BY <3>1, <3>2, <3>3, <1>b
    <2>4. ASSUME NEW m \in inbox[w], Take(w, m)
          PROVE  TypeInv'
      <3>0. m \in Message
        BY <1>a DEF WorkerTypeOK
      <3>1. BrokerTypeOK'
        BY <2>4, <1>a, BrokerTypes DEF Take
      <3>2. DbTypeOK'
        BY <2>4, <1>a, DbTypes DEF Take
      <3>3. WorkerTypeOK' /\ \A v \in Worker : HandlesOrder(v)'
        BY <2>4, <3>0, <1>a, BrokerAssumption DEF Take, Goto, Step, WorkerTypeOK, HandlesOrder, Handling, Req, TypeInv
      <3> QED
        BY <3>1, <3>2, <3>3, <1>b
    <2>5. CASE CheckIdempotent(w)
      <3>0. /\ cur[w] \in Message /\ Req(w) \in Request
            /\ cur[w].retry \in 0 .. MaxRetries
            /\ SeatOf(Req(w)) \in Seat \cup {None}
        BY <2>5, <1>a, MessageInHand DEF CheckIdempotent, TypeInv, HandlesOrder, Handling
      <3>1. BrokerTypeOK'
        BY <2>5, <1>a, <3>0, BrokerTypes DEF CheckIdempotent
      <3>2. DbTypeOK'
        BY <2>5, <1>a, <3>0, DbTypes DEF CheckIdempotent
      <3>3. WorkerTypeOK' /\ \A v \in Worker : HandlesOrder(v)'
        BY <2>5, <1>a, <3>0, OrdersAssumption DEF CheckIdempotent, Outcome, Goto, Step, WorkerTypeOK, HandlesOrder, Handling, Req, TypeInv
      <3> QED
        BY <3>1, <3>2, <3>3, <1>b
    <2>6. CASE Pay(w)
      <3>0. /\ cur[w] \in Message /\ Req(w) \in Request
            /\ cur[w].retry \in 0 .. MaxRetries
            /\ SeatOf(Req(w)) \in Seat \cup {None}
        BY <2>6, <1>a, MessageInHand DEF Pay, TypeInv, HandlesOrder, Handling
      <3>1. BrokerTypeOK'
        BY <2>6, <1>a, <3>0, BrokerTypes DEF Pay
      <3>2. DbTypeOK'
        BY <2>6, <1>a, <3>0, DbTypes DEF Pay
      <3>3. WorkerTypeOK' /\ \A v \in Worker : HandlesOrder(v)'
        BY <2>6, <1>a, <3>0 DEF Pay, Goto, Step, WorkerTypeOK, HandlesOrder, Handling, Req, TypeInv
      <3> QED
        BY <3>1, <3>2, <3>3, <1>b
    <2>7. CASE SellNumbered(w)
      <3>0. /\ cur[w] \in Message /\ Req(w) \in Request
            /\ cur[w].retry \in 0 .. MaxRetries
            /\ SeatOf(Req(w)) \in Seat \cup {None}
        BY <2>7, <1>a, MessageInHand DEF SellNumbered, TypeInv, HandlesOrder, Handling
      <3>1. BrokerTypeOK'
        BY <2>7, <1>a, <3>0, BrokerTypes DEF SellNumbered
      <3>2. DbTypeOK'
        BY <2>7, <1>a, <3>0, DbTypes DEF SellNumbered, TypeInv, HandlesOrder, Numbered, Unnumbered
      <3>3. WorkerTypeOK' /\ \A v \in Worker : HandlesOrder(v)'
        BY <2>7, <1>a, <3>0, OrdersAssumption DEF SellNumbered, Outcome, Goto, Step, WorkerTypeOK, HandlesOrder, Handling, Req, TypeInv
      <3> QED
        BY <3>1, <3>2, <3>3, <1>b
    <2>8. CASE SellUnnumbered(w)
      <3>0. /\ cur[w] \in Message /\ Req(w) \in Request
            /\ cur[w].retry \in 0 .. MaxRetries
            /\ SeatOf(Req(w)) \in Seat \cup {None}
        BY <2>8, <1>a, MessageInHand DEF SellUnnumbered, TypeInv, HandlesOrder, Handling
      <3>1. BrokerTypeOK'
        BY <2>8, <1>a, <3>0, BrokerTypes DEF SellUnnumbered
      <3>2. DbTypeOK'
        BY <2>8, <1>a, <3>0, DbTypes DEF SellUnnumbered
      <3>3. WorkerTypeOK' /\ \A v \in Worker : HandlesOrder(v)'
        BY <2>8, <1>a, <3>0, OrdersAssumption DEF SellUnnumbered, Outcome, Goto, Step, WorkerTypeOK, HandlesOrder, Handling, Req, TypeInv
      <3> QED
        BY <3>1, <3>2, <3>3, <1>b
    <2>9. CASE Commit(w)
      <3>0. /\ cur[w] \in Message /\ Req(w) \in Request
            /\ cur[w].retry \in 0 .. MaxRetries
            /\ SeatOf(Req(w)) \in Seat \cup {None}
        BY <2>9, <1>a, MessageInHand DEF Commit, TypeInv, HandlesOrder, Handling
      <3>1. BrokerTypeOK'
        BY <2>9, <1>a, <3>0, BrokerTypes DEF Commit
      <3>2. DbTypeOK'
        BY <2>9, <1>a, <3>0, DbTypes DEF Commit
      <3>3. WorkerTypeOK' /\ \A v \in Worker : HandlesOrder(v)'
        BY <2>9, <1>a, <3>0 DEF Commit, Goto, Step, WorkerTypeOK, HandlesOrder, Handling, Req, TypeInv
      <3> QED
        BY <3>1, <3>2, <3>3, <1>b
    <2>10. CASE MarkProcessed(w)
      <3>0. /\ cur[w] \in Message /\ Req(w) \in Request
            /\ cur[w].retry \in 0 .. MaxRetries
            /\ SeatOf(Req(w)) \in Seat \cup {None}
        BY <2>10, <1>a, MessageInHand DEF MarkProcessed, TypeInv, HandlesOrder, Handling
      <3>1. BrokerTypeOK'
        BY <2>10, <1>a, <3>0, BrokerTypes DEF MarkProcessed
      <3>2. DbTypeOK'
        BY <2>10, <1>a, <3>0, DbTypes DEF MarkProcessed, TypeInv, HandlesOrder, WorkerTypeOK
      <3>3. WorkerTypeOK' /\ \A v \in Worker : HandlesOrder(v)'
        BY <2>10, <1>a, <3>0 DEF MarkProcessed, Goto, Step, WorkerTypeOK, HandlesOrder, Handling, Req, TypeInv
      <3> QED
        BY <3>1, <3>2, <3>3, <1>b
    <2>11. CASE Ack(w)
      <3>0. /\ cur[w] \in Message /\ Req(w) \in Request
            /\ cur[w].retry \in 0 .. MaxRetries
            /\ SeatOf(Req(w)) \in Seat \cup {None}
        BY <2>11, <1>a, MessageInHand DEF Ack, TypeInv, HandlesOrder, Handling
      <3>1. BrokerTypeOK'
        BY <2>11, <1>a, <3>0, BrokerTypes DEF Ack
      <3>2. DbTypeOK'
        BY <2>11, <1>a, <3>0, DbTypes DEF Ack
      <3>3. WorkerTypeOK' /\ \A v \in Worker : HandlesOrder(v)'
        BY <2>11, <1>a, <3>0 DEF Ack, Return, Goto, Step, WorkerTypeOK, HandlesOrder, Handling, Req, TypeInv
      <3> QED
        BY <3>1, <3>2, <3>3, <1>b
    <2>12. CASE Reject(w)
      <3>0. /\ cur[w] \in Message /\ Req(w) \in Request
            /\ cur[w].retry \in 0 .. MaxRetries
            /\ SeatOf(Req(w)) \in Seat \cup {None}
        BY <2>12, <1>a, MessageInHand DEF Reject, TypeInv, HandlesOrder, Handling
      <3>1. BrokerTypeOK'
        BY <2>12, <1>a, <3>0, BrokerTypes DEF Reject
      <3>2. DbTypeOK'
        BY <2>12, <1>a, <3>0, DbTypes DEF Reject
      <3>3. WorkerTypeOK' /\ \A v \in Worker : HandlesOrder(v)'
        BY <2>12, <1>a, <3>0 DEF Reject, Return, Goto, Step, WorkerTypeOK, HandlesOrder, Handling, Req, TypeInv
      <3> QED
        BY <3>1, <3>2, <3>3, <1>b
    <2>13. CASE RetryAck(w)
      <3>0. /\ cur[w] \in Message /\ Req(w) \in Request
            /\ cur[w].retry \in 0 .. MaxRetries
            /\ SeatOf(Req(w)) \in Seat \cup {None}
        BY <2>13, <1>a, MessageInHand DEF RetryAck, TypeInv, HandlesOrder, Handling
      <3>1. BrokerTypeOK'
        BY <2>13, <1>a, <3>0, BrokerTypes DEF RetryAck
      <3>2. DbTypeOK'
        BY <2>13, <1>a, <3>0, DbTypes DEF RetryAck
      <3>3. WorkerTypeOK' /\ \A v \in Worker : HandlesOrder(v)'
        BY <2>13, <1>a, <3>0 DEF RetryAck, Goto, Step, WorkerTypeOK, HandlesOrder, Handling, Req, TypeInv
      <3> QED
        BY <3>1, <3>2, <3>3, <1>b
    <2>14. CASE PublishRetry(w)
      <3>0. /\ cur[w] \in Message /\ Req(w) \in Request
            /\ cur[w].retry \in 0 .. MaxRetries
            /\ SeatOf(Req(w)) \in Seat \cup {None}
        BY <2>14, <1>a, MessageInHand DEF PublishRetry, TypeInv, HandlesOrder, Handling
      <3>1. BrokerTypeOK'
        BY <2>14, <1>a, <3>0, BrokerTypes, BrokerAssumption DEF PublishRetry, TypeInv, HandlesOrder, Message
      <3>2. DbTypeOK'
        BY <2>14, <1>a, <3>0, DbTypes DEF PublishRetry
      <3>3. WorkerTypeOK' /\ \A v \in Worker : HandlesOrder(v)'
        BY <2>14, <1>a, <3>0 DEF PublishRetry, Return, Goto, Step, WorkerTypeOK, HandlesOrder, Handling, Req, TypeInv
      <3> QED
        BY <3>1, <3>2, <3>3, <1>b
    <2>15. CASE RetriesExhausted(w)
      <3>0. /\ cur[w] \in Message /\ Req(w) \in Request
            /\ cur[w].retry \in 0 .. MaxRetries
            /\ SeatOf(Req(w)) \in Seat \cup {None}
        BY <2>15, <1>a, MessageInHand DEF RetriesExhausted, TypeInv, HandlesOrder, Handling
      <3>1. BrokerTypeOK'
        BY <2>15, <1>a, <3>0, BrokerTypes DEF RetriesExhausted
      <3>2. DbTypeOK'
        BY <2>15, <1>a, <3>0, DbTypes DEF RetriesExhausted
      <3>3. WorkerTypeOK' /\ \A v \in Worker : HandlesOrder(v)'
        BY <2>15, <1>a, <3>0 DEF RetriesExhausted, Return, Goto, Step, WorkerTypeOK, HandlesOrder, Handling, Req, TypeInv
      <3> QED
        BY <3>1, <3>2, <3>3, <1>b
    <2> QED
      BY <1>4, <2>1, <2>2, <2>3, <2>4, <2>5, <2>6, <2>7, <2>8, <2>9, <2>10,
         <2>11, <2>12, <2>13, <2>14, <2>15 DEF WorkerStep
  <1>5. ASSUME NEW w \in Worker, Fault(w)
        PROVE  TypeInv'
    <2>1. CASE LinkLost(w)
      BY <2>1, <1>a, <1>b, <1>c, BrokerTypes, DbTypes DEF LinkLost, LinkState
    <2>2. ASSUME Die(w)
          PROVE  TypeInv'
      <3>1. BrokerTypeOK' /\ DbTypeOK'
        BY <2>2, <1>a, BrokerTypes, DbTypes DEF Die, LinkState
      <3>2. WorkerTypeOK' /\ \A v \in Worker : HandlesOrder(v)'
        BY <2>2, <1>a DEF Die, Forget, Goto, Step, WorkerTypeOK, HandlesOrder, Handling, Req, TypeInv
      <3> QED
        BY <3>1, <3>2, <1>b
    <2>3. CASE Crash(w) \/ GetConnFails(w)
      BY <2>2, <2>3 DEF Crash, GetConnFails
    <2>4. CASE SqlFails(w)
      <3>1. BrokerTypeOK'
        BY <2>4, <1>a, BrokerTypes DEF SqlFails
      <3>2. DbTypeOK'
        BY <2>4, <1>a, DbTypes DEF SqlFails
      <3>3. WorkerTypeOK' /\ \A v \in Worker : HandlesOrder(v)'
        BY <2>4, <1>a DEF SqlFails, SqlStep, Goto, Step, WorkerTypeOK, HandlesOrder, Handling, Req, TypeInv
      <3> QED
        BY <3>1, <3>2, <3>3, <1>b
    <2>5. CASE CommitUnconfirmed(w)
      <3>0. /\ cur[w] \in Message /\ Req(w) \in Request
            /\ cur[w].retry \in 0 .. MaxRetries
            /\ SeatOf(Req(w)) \in Seat \cup {None}
        BY <2>5, <1>a, MessageInHand DEF CommitUnconfirmed, TypeInv, HandlesOrder, Handling
      <3>1. BrokerTypeOK'
        BY <2>5, <1>a, <3>0, BrokerTypes DEF CommitUnconfirmed
      <3>2. DbTypeOK'
        BY <2>5, <1>a, <3>0, DbTypes DEF CommitUnconfirmed, TypeInv, HandlesOrder, WorkerTypeOK
      <3>3. WorkerTypeOK' /\ \A v \in Worker : HandlesOrder(v)'
        BY <2>5, <1>a, <3>0 DEF CommitUnconfirmed, Goto, Step, WorkerTypeOK, HandlesOrder, Handling, Req, TypeInv
      <3> QED
        BY <3>1, <3>2, <3>3, <1>b
    <2> QED
      BY <1>5, <2>1, <2>3, <2>4, <2>5 DEF Fault
  <1> QED
    BY <1>1, <1>2, <1>3, <1>4, <1>5 DEF Next

LEMMA InitTypes == Init => TypeInv
  BY DEF Init, BrokerInit, DbInit, TypeInv, TypeOK, BrokerTypeOK, DbTypeOK,
         LinkState, Step, HandlesOrder, Handling

\* Every variable keeps its type in every state the service can reach.
THEOREM TypeCorrect == Spec => []TypeOK
  <1>1. Init => TypeInv
    BY InitTypes
  <1>2. TypeInv /\ [Next]_vars => TypeInv'
    BY TypeInvStep
  <1>3. TypeInv => TypeOK
    BY DEF TypeInv
  <1> QED
    BY <1>1, <1>2, <1>3, PTL DEF Spec
=============================================================================
