--------------------------- MODULE DeliveryProofs ---------------------------
(***************************************************************************)
(* What happens to the messages: every delivery is accounted for, a        *)
(* request never has two live copies, and no step but the end of a         *)
(* connection between the acknowledgement and the publication of a retry   *)
(* loses the last copy of a request without an answer.                     *)
(*                                                                         *)
(* The inductive invariant, DeliveryInv, compares the places a message can *)
(* be in two by two.  Most steps of a handler leave all of them alone      *)
(* (lemma HandlerStep); the others move one message from one place to the  *)
(* next one, and OneCopy says that the next place had none of that request.*)
(***************************************************************************)
EXTENDS TicketWorkerProofs

-----------------------------------------------------------------------------
(* The inductive invariant *)

\* At most one message per request in a place; no request in two places.
Unique(S) == \A m, n \in S : m.req = n.req => m = n
Apart(S, T) == \A m \in S, n \in T : m.req # n.req

Live(w) == unacked[w] \cup PendingRetry(w)

\* A worker has a connection exactly when it is past connecting, and the
\* broker waits for acknowledgements only on connections that work.
Linked(w) ==
    /\ link[w] = "closed" <=> pc[w] \in {"down", "connecting"}
    /\ link[w] # "up" => unacked[w] = {}
    /\ link[w] = "closed" => inbox[w] = {}

\* The two conjuncts of DeliveriesAccounted.
Accounted(w) ==
    /\ pc[w] \in Handling /\ link[w] = "up" => cur[w] \notin inbox[w]
    /\ link[w] = "up" =>
         unacked[w] = inbox[w] \cup {m \in {cur[w]} : pc[w] \in Handling}

OneCopy ==
    /\ Unique(ready) /\ Unique(dlq) /\ Apart(ready, dlq)
    /\ \A w \in Worker : /\ Unique(unacked[w])
                         /\ Apart(unacked[w], PendingRetry(w))
                         /\ Apart(Live(w), ready \cup dlq)
    /\ \A v, w \in Worker : v # w => Apart(Live(v), Live(w))

\* Only published requests have copies.
Known ==
    /\ \A m \in ready \cup dlq : m.req \in published
    /\ \A w \in Worker : \A m \in Live(w) : m.req \in published

DeliveryInv ==
    /\ \A w \in Worker : Linked(w) /\ Accounted(w)
    /\ OneCopy
    /\ Known

-----------------------------------------------------------------------------
(* The steps *)

\* A step of one handler that touches no message.
LEMMA HandlerStep ==
    ASSUME TypeInv, DeliveryInv, NEW w \in Worker,
           pc[w] \in Handling, NEW step \in Handling,
           pc' = [pc EXCEPT ![w] = step],
           UNCHANGED <<brokerVars, cur, inbox>>
    PROVE  DeliveryInv'
  <1>1. /\ pc'[w] = step
        /\ \A v \in Worker : v # w => pc'[v] = pc[v]
    BY DEF TypeInv, TypeOK
  <1>2. \A v \in Worker : PendingRetry(v)' = PendingRetry(v)
    BY <1>1 DEF PendingRetry, brokerVars, Handling
  <1>3. \A v \in Worker : Live(v)' = Live(v)
    BY <1>2 DEF Live, brokerVars
  <1>4. \A v \in Worker : Linked(v)' /\ Accounted(v)'
    BY <1>1 DEF DeliveryInv, Linked, Accounted, brokerVars, Handling
  <1>5. OneCopy'
    BY <1>2, <1>3 DEF DeliveryInv, OneCopy, Unique, Apart, brokerVars
  <1>6. Known'
    BY <1>3 DEF DeliveryInv, Known, brokerVars
  <1> QED
    BY <1>4, <1>5, <1>6 DEF DeliveryInv

\* Where the message of a handler is.
LEMMA MessageHandled ==
    ASSUME TypeInv, DeliveryInv, NEW w \in Worker, pc[w] \in Handling
    PROVE  /\ cur[w] \in Message /\ cur[w] # None
           /\ link[w] \in {"up", "lost"}
           /\ link[w] = "up" => cur[w] \in unacked[w]
           /\ PendingRetry(w) = {} /\ Live(w) = unacked[w]
  <1>1. cur[w] # None /\ cur[w] \in Message
    BY MessageInHand DEF TypeInv, HandlesOrder
  <1>2. link[w] \in {"up", "lost"}
    BY DEF TypeInv, TypeOK, BrokerTypeOK, LinkState, DeliveryInv, Linked, Handling
  <1>3. link[w] = "up" => cur[w] \in unacked[w]
    BY DEF DeliveryInv, Accounted
  <1>4. PendingRetry(w) = {}
    BY DEF PendingRetry, Handling
  <1> QED
    BY <1>1, <1>2, <1>3, <1>4 DEF Live

\* The connection of a worker ends, with or without its process: what it had
\* not settled is queued again, and a retry it was about to publish is gone.
LEMMA EndStep ==
    ASSUME TypeInv, DeliveryInv, NEW w \in Worker,
           NEW state \in {"closed", "lost"}, NEW step \in Step,
           EndLink(w, state),
           pc' = [pc EXCEPT ![w] = step],
           state = "closed" => /\ step \in {"down", "connecting"} 
                               /\ Forget(w),
           state = "lost" => link[w] = "up" /\ UNCHANGED workerVars
    PROVE  DeliveryInv'
  <1>1. /\ pc'[w] = step /\ link'[w] = state /\ unacked'[w] = {}
        /\ \A v \in Worker : v # w => /\ pc'[v] = pc[v] /\ link'[v] = link[v]
                                      /\ unacked'[v] = unacked[v]
                                      /\ cur'[v] = cur[v] /\ inbox'[v] = inbox[v]
        /\ state = "closed" => inbox'[w] = {}
    BY DEF TypeInv, TypeOK, BrokerTypeOK, EndLink, Forget, workerVars
  <1>2. /\ PendingRetry(w)' = {} /\ Live(w)' = {}
        /\ \A v \in Worker : v # w => /\ PendingRetry(v)' = PendingRetry(v)
                                      /\ Live(v)' = Live(v)
    BY <1>1 DEF PendingRetry, Live
  <1>3. /\ ready' = ready \cup unacked[w] /\ unacked[w] \subseteq Live(w)
        /\ UNCHANGED <<dlq, published>>
    BY DEF EndLink, Live
  <1>4. \A v \in Worker : Linked(v)' /\ Accounted(v)'
    <2>1. Linked(w)' /\ Accounted(w)'
      BY <1>1 DEF DeliveryInv, Linked, Accounted, workerVars
    <2>2. \A v \in Worker : v # w => Linked(v)' /\ Accounted(v)'
      BY <1>1 DEF DeliveryInv, Linked, Accounted
    <2> QED
      BY <2>1, <2>2
  <1>5. OneCopy'
    <2>1. Unique(ready)' /\ Unique(dlq)' /\ Apart(ready, dlq)'
      BY <1>3 DEF DeliveryInv, OneCopy, Unique, Apart
    <2>2. \A v \in Worker : /\ Unique(unacked[v])'
                            /\ Apart(unacked[v], PendingRetry(v))'
                            /\ Apart(Live(v), ready \cup dlq)'
      BY <1>1, <1>2, <1>3 DEF DeliveryInv, OneCopy, Unique, Apart
    <2>3. \A u, v \in Worker : u # v => Apart(Live(u), Live(v))'
      BY <1>2 DEF DeliveryInv, OneCopy, Apart
    <2> QED
      BY <2>1, <2>2, <2>3 DEF OneCopy
  <1>6. Known'
    BY <1>2, <1>3 DEF DeliveryInv, Known
  <1> QED
    BY <1>4, <1>5, <1>6 DEF DeliveryInv

\* A callback returns and its delivery is settled, dead-lettered or not.
LEMMA SettleStep ==
    ASSUME TypeInv, DeliveryInv, NEW w \in Worker, pc[w] \in Handling,
           basic_ack(w, cur[w]) \/ basic_nack(w, cur[w]),
           Return(w)
    PROVE  DeliveryInv'
  <1> DEFINE moved == IF dlq' = dlq THEN {} ELSE {cur[w]}
  <1>1. /\ pc'[w] = "idle" /\ unacked'[w] = unacked[w] \ {cur[w]}
        /\ inbox' = inbox
        /\ \A v \in Worker : v # w => /\ pc'[v] = pc[v] /\ cur'[v] = cur[v]
                                      /\ unacked'[v] = unacked[v]
    BY DEF TypeInv, TypeOK, BrokerTypeOK, basic_ack, basic_nack, Return, Goto
  <1>2. /\ dlq' = dlq \cup moved /\ moved \subseteq unacked[w]
        /\ UNCHANGED <<published, ready, link>>
    BY MessageHandled DEF basic_ack, basic_nack
  <1> HIDE DEF moved
  <1>3. /\ PendingRetry(w) = {} /\ Live(w) = unacked[w]
        /\ PendingRetry(w)' = {} /\ Live(w)' = Live(w) \ {cur[w]}
        /\ \A v \in Worker : v # w => /\ PendingRetry(v)' = PendingRetry(v)
                                      /\ Live(v)' = Live(v)
    BY <1>1, <1>2, MessageHandled DEF PendingRetry, Live
  <1>4. \A v \in Worker : Linked(v)' /\ Accounted(v)'
    <2>1. Linked(w)' /\ Accounted(w)'
      BY <1>1, <1>2 DEF DeliveryInv, Linked, Accounted, Handling
    <2>2. \A v \in Worker : v # w => Linked(v)' /\ Accounted(v)'
      BY <1>1, <1>2 DEF DeliveryInv, Linked, Accounted
    <2> QED
      BY <2>1, <2>2
  <1>5. moved # {} => moved = {cur[w]}
    BY DEF moved
  <1>6. OneCopy'
    <2>1. Unique(ready)' /\ Unique(dlq)' /\ Apart(ready, dlq)'
      BY <1>2, <1>3 DEF DeliveryInv, OneCopy, Unique, Apart
    <2>2. \A v \in Worker : /\ Unique(unacked[v])'
                            /\ Apart(unacked[v], PendingRetry(v))'
      BY <1>1, <1>3 DEF DeliveryInv, OneCopy, Unique, Apart
    <2>3. Apart(Live(w), ready \cup dlq)'
      BY <1>2, <1>3, <1>5 DEF DeliveryInv, OneCopy, Unique, Apart
    <2>4. \A v \in Worker : v # w => Apart(Live(v), ready \cup dlq)'
      BY <1>2, <1>3 DEF DeliveryInv, OneCopy, Apart
    <2>5. \A u, v \in Worker : u # v => Apart(Live(u), Live(v))'
      BY <1>3 DEF DeliveryInv, OneCopy, Apart
    <2> QED
      BY <2>1, <2>2, <2>3, <2>4, <2>5 DEF OneCopy
  <1>7. Known'
    BY <1>2, <1>3 DEF DeliveryInv, Known
  <1> QED
    BY <1>4, <1>6, <1>7 DEF DeliveryInv

\* The acknowledgement of a retry: the message stays with the worker.
LEMMA RetryAckStep ==
    ASSUME TypeInv, DeliveryInv, NEW w \in Worker, RetryAck(w)
    PROVE  DeliveryInv'
  <1>1. /\ pc[w] = "failed" /\ pc'[w] = "republish"
        /\ unacked'[w] = unacked[w] \ {cur[w]}
        /\ \A v \in Worker : v # w => pc'[v] = pc[v] /\ unacked'[v] = unacked[v]
        /\ UNCHANGED <<published, ready, dlq, link, cur, inbox>>
    BY DEF TypeInv, TypeOK, BrokerTypeOK, RetryAck, Goto, basic_ack
  <1>2. /\ link[w] = "up" => cur[w] \in unacked[w]
        /\ link[w] # "up" => unacked[w] = {}
    BY <1>1, MessageHandled DEF Handling, DeliveryInv, Linked
  <1>3. /\ PendingRetry(w)' = {m \in {cur[w]} : link[w] = "up"}
        /\ Live(w)' = Live(w)
        /\ \A v \in Worker : v # w => /\ PendingRetry(v)' = PendingRetry(v)
                                      /\ Live(v)' = Live(v)
    <2>1. PendingRetry(w) = {} /\ Live(w) = unacked[w]
      BY <1>1, MessageHandled DEF Handling
    <2>2. PendingRetry(w)' = {m \in {cur[w]} : link[w] = "up"}
      BY <1>1 DEF PendingRetry
    <2>3. Live(w)' = Live(w)
      BY <1>1, <1>2, <2>1, <2>2 DEF Live
    <2>4. \A v \in Worker : v # w => PendingRetry(v)' = PendingRetry(v)
      BY <1>1 DEF PendingRetry
    <2> QED
      BY <1>1, <2>2, <2>3, <2>4 DEF Live
  <1>4. \A v \in Worker : Linked(v)' /\ Accounted(v)'
    <2>1. Linked(w)' /\ Accounted(w)'
      BY <1>1 DEF DeliveryInv, Linked, Accounted, Handling
    <2>2. \A v \in Worker : v # w => Linked(v)' /\ Accounted(v)'
      BY <1>1 DEF DeliveryInv, Linked, Accounted
    <2> QED
      BY <2>1, <2>2
  <1>5. OneCopy'
    <2>1. /\ Unique(ready)' /\ Unique(dlq)' /\ Apart(ready, dlq)'
          /\ \A v \in Worker : Apart(Live(v), ready \cup dlq)'
          /\ \A u, v \in Worker : u # v => Apart(Live(u), Live(v))'
      BY <1>1, <1>3 DEF DeliveryInv, OneCopy, Unique, Apart
    <2>2. Unique(unacked[w])' /\ Apart(unacked[w], PendingRetry(w))'
      BY <1>1, <1>2, <1>3 DEF DeliveryInv, OneCopy, Unique, Apart
    <2>3. \A v \in Worker : v # w => /\ Unique(unacked[v])'
                                     /\ Apart(unacked[v], PendingRetry(v))'
      BY <1>1, <1>3 DEF DeliveryInv, OneCopy, Unique, Apart
    <2> QED
      BY <2>1, <2>2, <2>3 DEF OneCopy
  <1>6. Known'
    BY <1>1, <1>3 DEF DeliveryInv, Known
  <1> QED
    BY <1>4, <1>5, <1>6 DEF DeliveryInv

\* Its publication: the copy takes the place of the pending retry.
LEMMA PublishRetryStep ==
    ASSUME TypeInv, DeliveryInv, NEW w \in Worker, PublishRetry(w)
    PROVE  DeliveryInv'
  <1> DEFINE copy == [req |-> Req(w), retry |-> cur[w].retry + 1]
             sent == IF link[w] = "up" THEN {copy} ELSE {}
  <1>1. /\ pc[w] = "republish" /\ pc'[w] = "idle"
        /\ \A v \in Worker : v # w => pc'[v] = pc[v] /\ cur'[v] = cur[v]
        /\ UNCHANGED <<published, unacked, dlq, link, inbox>>
    BY DEF TypeInv, TypeOK, PublishRetry, Return, Goto, basic_publish
  <1>2. /\ ready' = ready \cup sent
        /\ \A m \in sent : cur[w] \in PendingRetry(w) /\ m.req = cur[w].req
        /\ \A m, n \in sent : m = n
    BY <1>1 DEF PublishRetry, basic_publish, PendingRetry, Req
  <1> HIDE DEF sent
  <1>3. /\ PendingRetry(w)' = {} /\ Live(w)' = unacked[w]
        /\ \A v \in Worker : v # w => /\ PendingRetry(v)' = PendingRetry(v)
                                      /\ Live(v)' = Live(v)
    BY <1>1 DEF PendingRetry, Live
  <1>4. unacked[w] \subseteq Live(w) /\ PendingRetry(w) \subseteq Live(w)
    BY DEF Live
  <1>5. \A v \in Worker : Linked(v)' /\ Accounted(v)'
    <2>1. Linked(w)' /\ Accounted(w)'
      BY <1>1 DEF DeliveryInv, Linked, Accounted, Handling
    <2>2. \A v \in Worker : v # w => Linked(v)' /\ Accounted(v)'
      BY <1>1 DEF DeliveryInv, Linked, Accounted
    <2> QED
      BY <2>1, <2>2
  <1>6. OneCopy'
    <2>1. Unique(ready)' /\ Unique(dlq)' /\ Apart(ready, dlq)'
      BY <1>1, <1>2, <1>4 DEF DeliveryInv, OneCopy, Unique, Apart
    <2>2. \A v \in Worker : /\ Unique(unacked[v])'
                            /\ Apart(unacked[v], PendingRetry(v))'
      BY <1>1, <1>3 DEF DeliveryInv, OneCopy, Unique, Apart
    <2>3. Apart(Live(w), ready \cup dlq)'
      BY <1>1, <1>2, <1>3, <1>4 DEF DeliveryInv, OneCopy, Apart
    <2>4. \A v \in Worker : v # w => Apart(Live(v), ready \cup dlq)'
      BY <1>1, <1>2, <1>3, <1>4 DEF DeliveryInv, OneCopy, Apart
    <2>5. \A u, v \in Worker : u # v => Apart(Live(u), Live(v))'
      BY <1>3, <1>4 DEF DeliveryInv, OneCopy, Apart
    <2> QED
      BY <2>1, <2>2, <2>3, <2>4, <2>5 DEF OneCopy
  <1>7. Known'
    BY <1>1, <1>2, <1>3, <1>4 DEF DeliveryInv, Known
  <1> QED
    BY <1>5, <1>6, <1>7 DEF DeliveryInv

LEMMA ReceiveStep ==
    ASSUME TypeInv, DeliveryInv, NEW w \in Worker, NEW m \in ready, Receive(w, m)
    PROVE  DeliveryInv'
  <1>1. /\ link[w] = "up" /\ ready' = ready \ {m}
        /\ unacked'[w] = unacked[w] \cup {m} /\ inbox'[w] = inbox[w] \cup {m}
        /\ \A v \in Worker : v # w => unacked'[v] = unacked[v] /\ inbox'[v] = inbox[v]
        /\ UNCHANGED <<published, dlq, link, pc, cur>>
    BY DEF TypeInv, TypeOK, BrokerTypeOK, Receive, BrokerDeliver
  <1>2. /\ \A v \in Worker : PendingRetry(v)' = PendingRetry(v)
        /\ Live(w)' = Live(w) \cup {m}
        /\ \A v \in Worker : v # w => Live(v)' = Live(v)
    BY <1>1 DEF PendingRetry, Live
  <1>3. /\ \A n \in ready : n.req = m.req => n = m
        /\ \A n \in dlq : n.req # m.req
        /\ \A v \in Worker : \A n \in Live(v) : n.req # m.req
    BY DEF DeliveryInv, OneCopy, Unique, Apart
  <1>4. \A v \in Worker : Linked(v)' /\ Accounted(v)'
    <2>1. pc[w] \in Handling => cur[w] # m
      BY <1>1, <1>3, MessageHandled
    <2>2. Linked(w)' /\ Accounted(w)'
      BY <1>1, <2>1 DEF DeliveryInv, Linked, Accounted
    <2>3. \A v \in Worker : v # w => Linked(v)' /\ Accounted(v)'
      BY <1>1 DEF DeliveryInv, Linked, Accounted
    <2> QED
      BY <2>2, <2>3
  <1>5. OneCopy'
    <2>1. Unique(ready)' /\ Unique(dlq)' /\ Apart(ready, dlq)'
      BY <1>1 DEF DeliveryInv, OneCopy, Unique, Apart
    <2>2. \A v \in Worker : /\ Unique(unacked[v])'
                            /\ Apart(unacked[v], PendingRetry(v))'
      BY <1>1, <1>2, <1>3 DEF DeliveryInv, OneCopy, Unique, Apart, Live
    <2>3. \A v \in Worker : Apart(Live(v), ready \cup dlq)'
      BY <1>1, <1>2, <1>3 DEF DeliveryInv, OneCopy, Apart
    <2>4. \A u, v \in Worker : u # v => Apart(Live(u), Live(v))'
      BY <1>2, <1>3 DEF DeliveryInv, OneCopy, Apart
    <2> QED
      BY <2>1, <2>2, <2>3, <2>4 DEF OneCopy
  <1>6. Known'
    BY <1>1, <1>2 DEF DeliveryInv, Known
  <1> QED
    BY <1>4, <1>5, <1>6 DEF DeliveryInv

LEMMA PublishStep ==
    ASSUME TypeInv, DeliveryInv, NEW r \in Request, Publish(r)
    PROVE  DeliveryInv'
  <1> DEFINE m == [req |-> r, retry |-> 0]
  <1>1. /\ r \notin published /\ published' = published \cup {r}
        /\ ready' = ready \cup {m} /\ m.req = r
        /\ UNCHANGED <<unacked, dlq, link, pc, cur, inbox>>
    BY DEF Publish, BrokerPublish, workerVars
  <1> HIDE DEF m
  <1>2. \A v \in Worker : /\ PendingRetry(v)' = PendingRetry(v)
                          /\ Live(v)' = Live(v)
    BY <1>1 DEF PendingRetry, Live
  <1>3. \A v \in Worker : Linked(v)' /\ Accounted(v)'
    BY <1>1 DEF DeliveryInv, Linked, Accounted
  <1>4. OneCopy'
    BY <1>1, <1>2 DEF DeliveryInv, OneCopy, Known, Unique, Apart
  <1>5. Known'
    BY <1>1, <1>2 DEF DeliveryInv, Known
  <1> QED
    BY <1>3, <1>4, <1>5 DEF DeliveryInv

\* A step of one process outside its handler that moves no message.
LEMMA ProcessStep ==
    ASSUME TypeInv, DeliveryInv, NEW w \in Worker,
           Start(w) \/ Connect(w) \/ \E m \in inbox[w] : Take(w, m)
    PROVE  DeliveryInv'
  <1>1. /\ pc[w] \notin Handling \cup {"republish"} /\ pc'[w] # "republish"
        /\ \A v \in Worker : v # w => /\ pc'[v] = pc[v] /\ cur'[v] = cur[v]
                                      /\ inbox'[v] = inbox[v] /\ link'[v] = link[v]
        /\ UNCHANGED <<published, ready, unacked, dlq>>
    BY DEF TypeInv, TypeOK, BrokerTypeOK, Start, Connect, Take, Goto, OpenLink,
           brokerVars, Handling
  <1>2. \A v \in Worker : /\ PendingRetry(v)' = PendingRetry(v)
                          /\ Live(v)' = Live(v)
    BY <1>1 DEF PendingRetry, Live
  <1>3. Linked(w)' /\ Accounted(w)'
    <2> USE DEF TypeInv, TypeOK, BrokerTypeOK, Goto, DeliveryInv, Linked, Accounted,
                Handling, brokerVars
    <2>1. CASE Start(w)
      BY <2>1 DEF Start
    <2>2. CASE Connect(w)
      BY <2>2 DEF Connect, OpenLink
    <2>3. ASSUME NEW m \in inbox[w], Take(w, m)
          PROVE  Linked(w)' /\ Accounted(w)'
      BY <2>3 DEF Take
    <2> QED
      BY <2>1, <2>2, <2>3
  <1>4. \A v \in Worker : v # w => Linked(v)' /\ Accounted(v)'
    BY <1>1 DEF DeliveryInv, Linked, Accounted
  <1>5. OneCopy'
    BY <1>1, <1>2 DEF DeliveryInv, OneCopy, Unique, Apart
  <1>6. Known'
    BY <1>1, <1>2 DEF DeliveryInv, Known
  <1> QED
    BY <1>3, <1>4, <1>5, <1>6 DEF DeliveryInv

\* Every step of the system is of one of these kinds.
LEMMA DeliveryStep ==
    TypeInv /\ DeliveryInv /\ [Next]_<<brokerVars, workerVars>> => DeliveryInv'
  <1> SUFFICES ASSUME TypeInv, DeliveryInv, [Next]_<<brokerVars, workerVars>>
               PROVE  DeliveryInv'
    OBVIOUS
  <1>1. CASE UNCHANGED <<brokerVars, workerVars>>
    BY <1>1 DEF brokerVars, workerVars, DeliveryInv, Linked, Accounted, OneCopy, Known,
                Unique, Apart, Live, PendingRetry
  <1>2. ASSUME NEW r \in Request, Publish(r)
        PROVE  DeliveryInv'
    BY <1>2, PublishStep
  <1>3. ASSUME NEW w \in Worker, NEW m \in ready, Receive(w, m)
        PROVE  DeliveryInv'
    BY <1>3, ReceiveStep
  <1>4. ASSUME NEW w \in Worker, WorkerStep(w)
        PROVE  DeliveryInv'
    <2>1. CASE Start(w) \/ Connect(w) \/ \E m \in inbox[w] : Take(w, m)
      BY <2>1, ProcessStep
    <2>2. CASE Reconnect(w)
      BY <2>2, EndStep DEF Reconnect, Goto, Step
    <2>3. CASE CheckIdempotent(w) \/ Pay(w) \/ SellNumbered(w) \/ SellUnnumbered(w)
                 \/ Commit(w) \/ MarkProcessed(w)
      <3>1. /\ pc[w] \in Handling
            /\ UNCHANGED <<brokerVars, cur, inbox>>
        BY <2>3 DEF CheckIdempotent, Pay, SellNumbered, SellUnnumbered, Commit,
                    MarkProcessed, Handling
      <3>2. \E step \in Handling : pc' = [pc EXCEPT ![w] = step]
        BY <2>3 DEF CheckIdempotent, Pay, SellNumbered, SellUnnumbered, Commit,
                    MarkProcessed, Handling, Goto
      <3> QED
        BY <3>1, <3>2, HandlerStep
    <2>4. CASE Ack(w) \/ Reject(w) \/ RetriesExhausted(w)
      BY <2>4, SettleStep DEF Ack, Reject, RetriesExhausted, Handling
    <2>5. CASE RetryAck(w)
      BY <2>5, RetryAckStep
    <2>6. CASE PublishRetry(w)
      BY <2>6, PublishRetryStep
    <2> QED
      BY <1>4, <2>1, <2>2, <2>3, <2>4, <2>5, <2>6 DEF WorkerStep
  <1>5. ASSUME NEW w \in Worker, Fault(w)
        PROVE  DeliveryInv'
    <2>1. CASE LinkLost(w)
      <3>1. pc' = [pc EXCEPT ![w] = pc[w]] /\ pc[w] \in Step
        BY <2>1 DEF LinkLost, workerVars, TypeInv, TypeOK
      <3> QED
        BY <2>1, <3>1, EndStep DEF LinkLost
    <2>2. CASE Crash(w) \/ GetConnFails(w)
      BY <2>2, EndStep DEF Crash, GetConnFails, Die, Goto, Step
    <2>3. CASE SqlFails(w) \/ CommitUnconfirmed(w)
      BY <2>3, HandlerStep
         DEF SqlFails, CommitUnconfirmed, SqlStep, Handling, Goto
    <2> QED
      BY <1>5, <2>1, <2>2, <2>3 DEF Fault
  <1> QED
    BY <1>1, <1>2, <1>3, <1>4, <1>5 DEF Next

LEMMA DeliveryInit == Init => DeliveryInv
  BY DEF Init, BrokerInit, DeliveryInv, Linked, Accounted, OneCopy, Known, Unique,
         Apart, Live, PendingRetry, Handling

LEMMA DeliveryInvariant == Spec => [](TypeInv /\ DeliveryInv)
  <1>1. Init => TypeInv /\ DeliveryInv
    BY InitTypes, DeliveryInit
  <1>2. TypeInv /\ DeliveryInv /\ [Next]_vars => (TypeInv /\ DeliveryInv)'
    <2>1. [Next]_vars => [Next]_<<brokerVars, workerVars>>
      BY DEF vars
    <2> QED
      BY <2>1, TypeInvStep, DeliveryStep
  <1> QED
    BY <1>1, <1>2, PTL DEF Spec

\* Every delivery the broker waits for is in its worker's buffer or under its
\* callback, and every acknowledgement a worker may still send is for such a
\* delivery, across crashes, lost connections and reconnections.
THEOREM DeliveriesAreAccounted == Spec => []DeliveriesAccounted
  <1>1. DeliveryInv => DeliveriesAccounted
    BY DEF DeliveryInv, Accounted, DeliveriesAccounted
  <1> QED
    BY <1>1, DeliveryInvariant, PTL

\* Redeliveries and retries by copy never leave two copies of a request
\* around: neither queued, nor with a worker, nor dead-lettered.
THEOREM OneLiveCopy == Spec => []SingleLiveCopy
  <1>1. DeliveryInv => SingleLiveCopy
    <2> SUFFICES ASSUME DeliveryInv, NEW c \in Copies, NEW d \in Copies,
                        c[2].req = d[2].req
                 PROVE  c = d
      BY DEF SingleLiveCopy
    <2>1. ASSUME NEW e \in Copies
          PROVE  \/ e = <<"ready", e[2]>> /\ e[2] \in ready
                 \/ e = <<"dlq", e[2]>> /\ e[2] \in dlq
                 \/ \E w \in Worker : /\ e = <<w, e[2]>>
                                      /\ e[2] \in unacked[w] \cup PendingRetry(w)
      BY DEF Copies
    <2>2. CASE c[2] \in ready
      BY <2>1, <2>2 DEF DeliveryInv, OneCopy, Unique, Apart, Live
    <2>3. CASE c[2] \in dlq
      BY <2>1, <2>3 DEF DeliveryInv, OneCopy, Unique, Apart, Live
    <2>4. ASSUME NEW w \in Worker, c = <<w, c[2]>>,
                 c[2] \in unacked[w] \cup PendingRetry(w)
          PROVE  c = d
      <3>1. d[2] \notin ready \cup dlq
        BY <2>4 DEF DeliveryInv, OneCopy, Apart, Live
      <3>2. PICK v \in Worker : d = <<v, d[2]>> /\ d[2] \in unacked[v] \cup PendingRetry(v)
        BY <2>1, <3>1
      <3>3. v = w
        BY <2>4, <3>2 DEF DeliveryInv, OneCopy, Apart, Live
      <3>4. c[2] = d[2]
        BY <2>4, <3>2, <3>3 DEF DeliveryInv, OneCopy, Unique, Apart, PendingRetry
      <3> QED
        BY <2>4, <3>2, <3>3, <3>4
    <2> QED
      BY <2>1, <2>2, <2>3, <2>4
  <1> QED
    BY <1>1, DeliveryInvariant, PTL

-----------------------------------------------------------------------------
(* What may be lost *)

LEMMA HeldMeans ==
    \A r \in Request : Held(r) <=> \/ \E m \in ready \cup dlq : m.req = r
                                  \/ \E w \in Worker : \E m \in Live(w) : m.req = r
  <1> SUFFICES ASSUME NEW r \in Request
               PROVE  Held(r) <=> \/ \E m \in ready \cup dlq : m.req = r
                                  \/ \E w \in Worker : \E m \in Live(w) : m.req = r
    OBVIOUS
  <1>1. Held(r) => \/ \E m \in ready \cup dlq : m.req = r
                   \/ \E w \in Worker : \E m \in Live(w) : m.req = r
    BY DEF Held, Copies, Live
  <1>2. ASSUME NEW m \in ready \cup dlq, m.req = r
        PROVE  Held(r)
    <2>1. <<"ready", m>> \in Copies \/ <<"dlq", m>> \in Copies
      BY DEF Copies
    <2> QED
      BY <1>2, <2>1 DEF Held
  <1>3. ASSUME NEW w \in Worker, NEW m \in Live(w), m.req = r
        PROVE  Held(r)
    <2>1. <<w, m>> \in Copies
      BY DEF Copies, Live
    <2> QED
      BY <1>3, <2>1 DEF Held
  <1> QED
    BY <1>1, <1>2, <1>3

\* An answer is never changed nor deleted.
LEMMA AnswersStay ==
    ASSUME TypeInv, [Next]_vars, NEW r \in Request, processed[r] # None
    PROVE  processed'[r] = processed[r]
  <1> USE DEF TypeInv, TypeOK, DbTypeOK, dbVars
  <1>1. CASE UNCHANGED vars
    BY <1>1 DEF vars
  <1>2. ASSUME NEW q \in Request, Publish(q)
        PROVE  processed'[r] = processed[r]
    BY <1>2 DEF Publish
  <1>3. ASSUME NEW w \in Worker, NEW m \in ready, Receive(w, m)
        PROVE  processed'[r] = processed[r]
    BY <1>3 DEF Receive
  <1>4. ASSUME NEW w \in Worker, WorkerStep(w) \/ Fault(w)
        PROVE  processed'[r] = processed[r]
    <2>1. CASE \/ Start(w) \/ Connect(w) \/ Reconnect(w)
               \/ \E m \in inbox[w] : Take(w, m)
               \/ CheckIdempotent(w) \/ Pay(w) \/ Ack(w) \/ Reject(w)
               \/ RetryAck(w) \/ PublishRetry(w) \/ RetriesExhausted(w)
               \/ LinkLost(w)
      BY <2>1 DEF Start, Connect, Reconnect, Take, CheckIdempotent, Pay, Ack, Reject,
                  RetryAck, PublishRetry, RetriesExhausted, LinkLost
    <2>2. CASE \/ SellNumbered(w) \/ SellUnnumbered(w) \/ Commit(w)
               \/ Crash(w) \/ GetConnFails(w) \/ SqlFails(w)
      BY <2>2 DEF SellNumbered, SellUnnumbered, sell_seat, decrement_inventory,
                  Commit, CommitSale, Crash, GetConnFails, SqlFails, Die, RollbackSale
    <2>3. CASE MarkProcessed(w) \/ CommitUnconfirmed(w)
      BY <2>3 DEF MarkProcessed, CommitUnconfirmed, mark_processed, CommitSale
    <2> QED
      BY <1>4, <2>1, <2>2, <2>3 DEF WorkerStep, Fault
  <1> QED
    BY <1>1, <1>2, <1>3, <1>4 DEF Next

\* Whoever is about to acknowledge a message has seen or recorded its answer.
AckAnswered == \A w \in Worker : pc[w] = "ack" => processed[Req(w)] # None

LEMMA AckAnsweredStep ==
    TypeInv /\ AckAnswered /\ [Next]_vars => AckAnswered'
  <1> SUFFICES ASSUME TypeInv, AckAnswered, [Next]_vars,
                      NEW w \in Worker, pc'[w] = "ack"
               PROVE  processed'[Req(w)'] # None
    BY DEF AckAnswered
  <1>1. CASE pc[w] = "ack" /\ cur'[w] = cur[w]
    <2>1. Req(w) \in Request /\ processed[Req(w)] # None /\ Req(w)' = Req(w)
      BY <1>1, MessageInHand DEF AckAnswered, TypeInv, HandlesOrder, Handling, Req
    <2> QED
      BY <2>1, AnswersStay
  <1>2. CASE CheckIdempotent(w) \/ MarkProcessed(w)
    <2>1. Req(w) \in Request /\ Req(w)' = Req(w)
      BY <1>2, MessageInHand
         DEF CheckIdempotent, MarkProcessed, TypeInv, HandlesOrder, Handling, Req
    <2>2. CASE CheckIdempotent(w)
      <3>1. processed[Req(w)] # None
        BY <2>2 DEF CheckIdempotent, check_idempotent, Goto, TypeInv, TypeOK
      <3> QED
        BY <2>1, <3>1, AnswersStay
    <2>3. CASE MarkProcessed(w)
      BY <2>1, <2>3 DEF MarkProcessed, mark_processed, TypeInv, TypeOK, DbTypeOK,
                        HandlesOrder
    <2> QED
      BY <1>2, <2>2, <2>3
  <1>3. \/ pc[w] = "ack" /\ cur'[w] = cur[w]
        \/ CheckIdempotent(w) \/ MarkProcessed(w)
    <2> USE DEF TypeInv, TypeOK, Goto, workerVars
    <2>1. CASE UNCHANGED vars
      BY <2>1 DEF vars
    <2>2. ASSUME NEW r \in Request, Publish(r)
          PROVE  pc[w] = "ack" /\ cur'[w] = cur[w]
      BY <2>2 DEF Publish
    <2>3. ASSUME NEW v \in Worker, NEW m \in ready, Receive(v, m)
          PROVE  pc[w] = "ack" /\ cur'[w] = cur[w]
      BY <2>3 DEF Receive
    <2>4. ASSUME NEW v \in Worker, WorkerStep(v)
          PROVE  \/ pc[w] = "ack" /\ cur'[w] = cur[w]
                 \/ CheckIdempotent(w) \/ MarkProcessed(w)
      <3>1. CASE Start(v) \/ Connect(v) \/ Reconnect(v) \/ Pay(v) \/ SellNumbered(v)
                   \/ SellUnnumbered(v) \/ Commit(v) \/ \E m \in inbox[v] : Take(v, m)
        BY <3>1 DEF Start, Connect, Reconnect, Forget, Take, Pay, SellNumbered,
                    SellUnnumbered, Commit
      <3>2. CASE Ack(v) \/ Reject(v) \/ RetryAck(v) \/ PublishRetry(v)
                   \/ RetriesExhausted(v)
        BY <3>2 DEF Ack, Reject, RetryAck, PublishRetry, RetriesExhausted, Return
      <3>3. CASE CheckIdempotent(v) \/ MarkProcessed(v)
        BY <3>3 DEF CheckIdempotent, MarkProcessed
      <3> QED
        BY <2>4, <3>1, <3>2, <3>3 DEF WorkerStep
    <2>5. ASSUME NEW v \in Worker, Fault(v)
          PROVE  pc[w] = "ack" /\ cur'[w] = cur[w]
      BY <2>5 DEF Fault, LinkLost, Crash, GetConnFails, Die, Forget, SqlFails,
                  CommitUnconfirmed
    <2> QED
      BY <2>1, <2>2, <2>3, <2>4, <2>5 DEF Next
  <1> QED
    BY <1>1, <1>2, <1>3

\* The moment at which the last copy of a request can disappear.
RetryDropped(r) ==
    \E w \in Worker : /\ pc[w] = "republish" /\ link[w] = "up" /\ Req(w) = r
                      /\ LinkLost(w) \/ Crash(w)

\* A queued or dead-lettered copy stays, or is delivered.
LEMMA QueuedStays ==
    ASSUME TypeInv, Next, NEW m \in ready \cup dlq
    PROVE  m \in ready' \cup dlq' \/ \E w \in Worker : m \in Live(w)'
  <1>1. ASSUME NEW r \in Request, Publish(r)
        PROVE  m \in ready' \cup dlq'
    BY <1>1 DEF Publish, BrokerPublish
  <1>2. ASSUME NEW w \in Worker, NEW n \in ready, Receive(w, n)
        PROVE  m \in ready' \cup dlq' \/ m \in Live(w)'
    BY <1>2 DEF Receive, BrokerDeliver, Live, TypeInv, TypeOK, BrokerTypeOK
  <1>3. ASSUME NEW w \in Worker, WorkerStep(w)
        PROVE  m \in ready' \cup dlq'
    <2>1. CASE Ack(w) \/ Reject(w) \/ RetryAck(w) \/ PublishRetry(w) \/ RetriesExhausted(w)
      BY <2>1 DEF Ack, Reject, RetryAck, PublishRetry, RetriesExhausted,
                  basic_ack, basic_nack, basic_publish
    <2>2. CASE \/ Start(w) \/ Connect(w) \/ Reconnect(w)
               \/ \E n \in inbox[w] : Take(w, n)
               \/ CheckIdempotent(w) \/ Pay(w) \/ SellNumbered(w) \/ SellUnnumbered(w)
               \/ Commit(w) \/ MarkProcessed(w)
      BY <2>2 DEF Start, Connect, OpenLink, Reconnect, EndLink, Take, CheckIdempotent,
                  Pay, SellNumbered, SellUnnumbered, Commit, MarkProcessed, brokerVars
    <2> QED
      BY <1>3, <2>1, <2>2 DEF WorkerStep
  <1>4. ASSUME NEW w \in Worker, Fault(w)
        PROVE  m \in ready' \cup dlq'
    BY <1>4 DEF Fault, LinkLost, Crash, GetConnFails, Die, EndLink, SqlFails,
                CommitUnconfirmed, brokerVars
  <1> QED
    BY <1>1, <1>2, <1>3, <1>4 DEF Next

\* A copy a worker holds stays, is requeued, republished, dead-lettered or
\* acknowledged with its answer recorded; else it was a pending retry.
LEMMA LiveStays ==
    ASSUME DeadLetterBound, TypeInv, DeliveryInv, AckAnswered,
           NEW w \in Worker, NEW m \in Live(w),
           WorkerStep(w) \/ Fault(w)
    PROVE  \/ \E n \in ready' \cup dlq' \cup Live(w)' : n.req = m.req
           \/ processed[m.req] # None
           \/ RetryDropped(m.req)
  <1> DEFINE Kept == \E n \in ready' \cup dlq' \cup Live(w)' : n.req = m.req
  <1> USE DEF TypeInv, TypeOK, BrokerTypeOK
  <1>1. link[w] = "up" /\ (m \in unacked[w] \/ (m = cur[w] /\ pc[w] = "republish"))
    BY DEF Live, PendingRetry, DeliveryInv, Linked
  <1>2. ASSUME NEW state, EndLink(w, state), m \in unacked[w]
        PROVE  Kept
    BY <1>2 DEF EndLink
  <1>3. CASE LinkLost(w) \/ Crash(w)
    <2>1. CASE m \in unacked[w]
      BY <1>2, <1>3, <2>1 DEF LinkLost, Crash, Die
    <2>2. CASE m = cur[w] /\ pc[w] = "republish"
      BY <1>1, <1>3, <2>2 DEF RetryDropped, Req
    <2> QED
      BY <1>1, <2>1, <2>2
  <1>4. CASE GetConnFails(w)
    BY <1>1, <1>2, <1>4 DEF GetConnFails, Die
  <1>5. CASE Start(w) \/ Connect(w) \/ Reconnect(w)
    BY <1>1, <1>5 DEF Start, Connect, Reconnect, DeliveryInv, Linked
  <1>6. CASE \/ \E n \in inbox[w] : Take(w, n)
             \/ CheckIdempotent(w) \/ Pay(w) \/ SellNumbered(w) \/ SellUnnumbered(w)
             \/ Commit(w) \/ MarkProcessed(w) \/ SqlFails(w) \/ CommitUnconfirmed(w)
    <2>1. unacked' = unacked /\ pc[w] # "republish"
      BY <1>6 DEF Take, CheckIdempotent, Pay, SellNumbered, SellUnnumbered, Commit,
                  MarkProcessed, SqlFails, SqlStep, CommitUnconfirmed, brokerVars
    <2> QED
      BY <1>1, <2>1 DEF Live
  <1>7. CASE Ack(w)
    <2>1. CASE m = cur[w]
      BY <1>7, <2>1 DEF Ack, AckAnswered, Req
    <2>2. CASE m # cur[w]
      BY <1>1, <1>7, <2>2 DEF Ack, basic_ack, Live
    <2> QED
      BY <2>1, <2>2
  <1>8. CASE Reject(w) \/ RetriesExhausted(w)
    <2>1. m \in unacked[w] /\ basic_nack(w, cur[w])
      BY <1>1, <1>8 DEF Reject, RetriesExhausted
    <2>2. m \in unacked'[w] \/ m \in dlq'
      BY <1>1, <2>1 DEF basic_nack
    <2> QED
      BY <2>2 DEF Live
  <1>9. CASE RetryAck(w)
    <2>1. m \in unacked'[w] \/ m \in PendingRetry(w)'
      BY <1>1, <1>9 DEF RetryAck, basic_ack, Goto, PendingRetry
    <2> QED
      BY <2>1 DEF Live
  <1>10. CASE PublishRetry(w)
    <2>1. CASE m \in unacked[w]
      BY <1>10, <2>1 DEF PublishRetry, basic_publish, Live
    <2>2. CASE m = cur[w]
      <3> DEFINE copy == [req |-> Req(w), retry |-> cur[w].retry + 1]
      <3>1. copy \in ready'
        BY <1>1, <1>10 DEF PublishRetry, basic_publish
      <3>2. copy.req = m.req
        BY <2>2 DEF Req
      <3> HIDE DEF copy
      <3> QED
        BY <3>1, <3>2
    <2> QED
      BY <1>1, <2>1, <2>2
  <1> QED
    BY <1>3, <1>4, <1>5, <1>6, <1>7, <1>8, <1>9, <1>10 DEF WorkerStep, Fault

\* No step of anybody else touches what a worker holds.
LEMMA LiveUndisturbed ==
    ASSUME TypeInv, Next, NEW w \in Worker, NEW m \in Live(w),
           ~(WorkerStep(w) \/ Fault(w))
    PROVE  m \in Live(w)'
  <1> SUFFICES /\ unacked[w] \subseteq unacked'[w]
               /\ pc'[w] = pc[w] /\ link'[w] = link[w] /\ cur'[w] = cur[w]
    BY DEF Live, PendingRetry
  <1> USE DEF TypeInv, TypeOK, BrokerTypeOK
  <1>1. ASSUME NEW r \in Request, Publish(r)
        PROVE  UNCHANGED <<unacked, pc, link, cur>>
    BY <1>1 DEF Publish, BrokerPublish, workerVars
  <1>2. ASSUME NEW v \in Worker, NEW n \in ready, Receive(v, n)
        PROVE  unacked[w] \subseteq unacked'[w] /\ UNCHANGED <<pc, link, cur>>
    BY <1>2 DEF Receive, BrokerDeliver
  <1>3. ASSUME NEW v \in Worker, v # w, WorkerStep(v)
        PROVE  /\ unacked'[w] = unacked[w]
               /\ pc'[w] = pc[w] /\ link'[w] = link[w] /\ cur'[w] = cur[w]
    <2> USE DEF Goto, brokerVars
    <2>1. CASE Ack(v) \/ Reject(v) \/ RetryAck(v) \/ PublishRetry(v) \/ RetriesExhausted(v)
      BY <1>3, <2>1 DEF Ack, Reject, RetryAck, PublishRetry, RetriesExhausted, Return,
                        basic_ack, basic_nack, basic_publish
    <2>2. CASE \/ Start(v) \/ Connect(v) \/ Reconnect(v)
               \/ \E n \in inbox[v] : Take(v, n)
               \/ CheckIdempotent(v) \/ Pay(v) \/ SellNumbered(v) \/ SellUnnumbered(v)
               \/ Commit(v) \/ MarkProcessed(v)
      BY <1>3, <2>2 DEF Start, Connect, OpenLink, Reconnect, EndLink, Forget, Take,
           CheckIdempotent, Pay, SellNumbered, SellUnnumbered, Commit, MarkProcessed
    <2> QED
      BY <1>3, <2>1, <2>2 DEF WorkerStep
  <1>4. ASSUME NEW v \in Worker, v # w, Fault(v)
        PROVE  /\ unacked'[w] = unacked[w]
               /\ pc'[w] = pc[w] /\ link'[w] = link[w] /\ cur'[w] = cur[w]
    BY <1>4 DEF Fault, LinkLost, Crash, GetConnFails, Die, EndLink, Forget, SqlFails,
                CommitUnconfirmed, Goto, brokerVars, workerVars
  <1> QED
    BY <1>1, <1>2, <1>3, <1>4 DEF Next

LEMMA LossStep ==
    ASSUME DeadLetterBound, TypeInv, DeliveryInv, AckAnswered, Next,
           NEW r \in published, Held(r) \/ Settled(r)
    PROVE  (Held(r) \/ Settled(r))' \/ RetryDropped(r)
  <1>1. r \in Request
    BY DEF TypeInv, TypeOK, BrokerTypeOK
  <1>2. CASE processed[r] # None
    <2>1. processed'[r] # None
      BY <1>1, <1>2, AnswersStay
    <2> QED
      BY <2>1 DEF Settled
  <1>3. Held(r)' <=> \/ \E m \in ready' \cup dlq' : m.req = r
                     \/ \E w \in Worker : \E m \in Live(w)' : m.req = r
    <2>1. HeldMeans'
      BY HeldMeans, PTL
    <2> QED
      BY <1>1, <2>1
  <1>4. ASSUME NEW m \in ready \cup dlq, m.req = r
        PROVE  Held(r)'
    BY <1>3, <1>4, QueuedStays
  <1>5. ASSUME NEW w \in Worker, NEW m \in Live(w), m.req = r, processed[r] = None
        PROVE  Held(r)' \/ RetryDropped(r)
    BY <1>3, <1>5, LiveStays, LiveUndisturbed
  <1> QED
    BY <1>1, <1>2, <1>4, <1>5, HeldMeans DEF Settled

LEMMA AnsweredInvariant == Spec => [](TypeInv /\ DeliveryInv /\ AckAnswered)
  <1>1. Init => AckAnswered
    BY DEF Init, AckAnswered
  <1>2. AckAnswered /\ TypeInv /\ [Next]_vars => AckAnswered'
    BY AckAnsweredStep
  <1> QED
    BY <1>1, <1>2, DeliveryInvariant, PTL DEF Spec

\* With the dead-letter policy in place the last copy of a request without
\* an answer is lost, if ever, by a worker between the basic_ack and the
\* basic_publish of its retry.
THEOREM LossesOnlyInRetryWindow ==
    ASSUME DeadLetterBound
    PROVE  Spec => LossOnlyInRetryWindow
  <1> DEFINE Loss(r) ==
        (Held(r) \/ Settled(r)) /\ ~(Held(r) \/ Settled(r))'
          => \E w \in Worker : pc[w] = "republish" /\ Req(w) = r
  <1>1. TypeInv /\ DeliveryInv /\ AckAnswered /\ [Next]_vars
          => [\A r \in published : Loss(r)]_vars
    <2> SUFFICES ASSUME TypeInv, DeliveryInv, AckAnswered, Next, NEW r \in published
                 PROVE  Loss(r)
      OBVIOUS
    <2> QED
      BY LossStep DEF RetryDropped
  <1> QED
    BY <1>1, AnsweredInvariant, PTL DEF Spec, LossOnlyInRetryWindow

\* What the error handler needs to be reached, and a delivery to outlive its
\* connection.
NoRetry == \A w \in Worker : pc[w] \notin {"failed", "republish"}
NoLostLink == \A w \in Worker : link[w] # "lost"

LEMMA NoRetryStep ==
    ASSUME "sql" \notin Faults
    PROVE  TypeInv /\ NoRetry /\ [Next]_vars => NoRetry'
  <1> SUFFICES ASSUME TypeInv, NoRetry, [Next]_vars
               PROVE  NoRetry'
    OBVIOUS
  <1> USE DEF TypeInv, TypeOK, NoRetry, Goto, workerVars
  <1>1. CASE UNCHANGED vars
    BY <1>1 DEF vars
  <1>2. ASSUME NEW r \in Request, Publish(r)
        PROVE  NoRetry'
    BY <1>2 DEF Publish
  <1>3. ASSUME NEW w \in Worker, NEW m \in ready, Receive(w, m)
        PROVE  NoRetry'
    BY <1>3 DEF Receive
  <1>4. ASSUME NEW w \in Worker, WorkerStep(w)
        PROVE  NoRetry'
    BY <1>4 DEF WorkerStep, Start, Connect, Reconnect, Take, CheckIdempotent, Pay,
                SellNumbered, SellUnnumbered, Commit, MarkProcessed, Ack, Reject,
                RetryAck, PublishRetry, RetriesExhausted, Return
  <1>5. ASSUME NEW w \in Worker, Fault(w)
        PROVE  NoRetry'
    BY <1>5 DEF Fault, LinkLost, Crash, GetConnFails, Die, SqlFails, CommitUnconfirmed
  <1> QED
    BY <1>1, <1>2, <1>3, <1>4, <1>5 DEF Next

LEMMA NoLostLinkStep ==
    ASSUME "link" \notin Faults
    PROVE  TypeInv /\ NoLostLink /\ [Next]_vars => NoLostLink'
  <1> SUFFICES ASSUME TypeInv, NoLostLink, [Next]_vars
               PROVE  NoLostLink'
    OBVIOUS
  <1> USE DEF TypeInv, TypeOK, BrokerTypeOK, NoLostLink, brokerVars
  <1>1. CASE UNCHANGED vars
    BY <1>1 DEF vars
  <1>2. ASSUME NEW r \in Request, Publish(r)
        PROVE  NoLostLink'
    BY <1>2 DEF Publish, BrokerPublish
  <1>3. ASSUME NEW w \in Worker, NEW m \in ready, Receive(w, m)
        PROVE  NoLostLink'
    BY <1>3 DEF Receive, BrokerDeliver
  <1>4. ASSUME NEW w \in Worker, WorkerStep(w)
        PROVE  NoLostLink'
    BY <1>4 DEF WorkerStep, Start, Connect, OpenLink, Reconnect, EndLink, Take,
                CheckIdempotent, Pay, SellNumbered, SellUnnumbered, Commit, MarkProcessed,
                Ack, Reject, RetryAck, PublishRetry, RetriesExhausted,
                basic_ack, basic_nack, basic_publish
  <1>5. ASSUME NEW w \in Worker, Fault(w)
        PROVE  NoLostLink'
    BY <1>5 DEF Fault, LinkLost, Crash, GetConnFails, Die, EndLink, SqlFails,
                CommitUnconfirmed
  <1> QED
    BY <1>1, <1>2, <1>3, <1>4, <1>5 DEF Next

LEMMA PublishedStays == [Next]_vars => published \subseteq published'
  <1> SUFFICES ASSUME [Next]_vars PROVE published \subseteq published'
    OBVIOUS
  <1>1. CASE UNCHANGED vars
    BY <1>1 DEF vars, brokerVars
  <1>2. ASSUME NEW r \in Request, Publish(r)
        PROVE  published \subseteq published'
    BY <1>2 DEF Publish, BrokerPublish
  <1>3. ASSUME NEW w \in Worker,
               WorkerStep(w) \/ Fault(w) \/ \E m \in ready : Receive(w, m)
        PROVE  published' = published
    BY <1>3 DEF WorkerStep, Start, Connect, OpenLink, Reconnect, EndLink, Take,
                CheckIdempotent, Pay, SellNumbered, SellUnnumbered, Commit, MarkProcessed,
                Ack, Reject, RetryAck, PublishRetry, RetriesExhausted,
                basic_ack, basic_nack, basic_publish, Fault, LinkLost, Crash,
                GetConnFails, Die, SqlFails, CommitUnconfirmed, Receive, BrokerDeliver,
                brokerVars
  <1> QED
    BY <1>1, <1>2, <1>3 DEF Next

\* A request that has just been published is queued.
LEMMA PublishedIsQueued ==
    ASSUME [Next]_vars, NEW r \in published', r \notin published
    PROVE  \E m \in ready' : m.req = r
  <1>1. CASE \E q \in Request : Publish(q)
    <2> DEFINE m == [req |-> r, retry |-> 0]
    <2>1. m \in ready'
      BY <1>1 DEF Publish, BrokerPublish
    <2> QED
      BY <2>1
  <1>2. CASE UNCHANGED vars
    BY <1>2 DEF vars, brokerVars
  <1>3. ASSUME NEW w \in Worker,
               WorkerStep(w) \/ Fault(w) \/ \E m \in ready : Receive(w, m)
        PROVE  published' = published
    BY <1>3 DEF WorkerStep, Start, Connect, OpenLink, Reconnect, EndLink, Take,
                CheckIdempotent, Pay, SellNumbered, SellUnnumbered, Commit, MarkProcessed,
                Ack, Reject, RetryAck, PublishRetry, RetriesExhausted,
                basic_ack, basic_nack, basic_publish, Fault, LinkLost, Crash,
                GetConnFails, Die, SqlFails, CommitUnconfirmed, Receive, BrokerDeliver,
                brokerVars
  <1> QED
    BY <1>1, <1>2, <1>3 DEF Next

\* No request disappears without an answer unless both a statement (or a
\* get_conn within the try) can raise, which makes a worker retry, and a worker
\* can die or be cut off meanwhile, but for deaths at the top of process_message.
\* (MCTicketWorker_LostRetry.cfg shows that both together do lose one.)
THEOREM NothingIsLost ==
    ASSUME DeadLetterBound,
           "sql" \notin Faults \/ Faults \cap {"crash", "link"} = {}
    PROVE  Spec => []NothingLost
  <1> DEFINE Safe == "sql" \notin Faults => NoRetry
             Inv == TypeInv /\ DeliveryInv /\ AckAnswered
  <1>1. Init => Safe /\ NothingLost
    BY DEF Init, BrokerInit, NoRetry, NothingLost
  <1>2. Safe /\ TypeInv /\ [Next]_vars => Safe'
    BY NoRetryStep
  <1>3. NothingLost /\ Inv /\ Inv' /\ Safe /\ [Next]_vars => NothingLost'
    <2> SUFFICES ASSUME NothingLost, Inv, Inv', Safe, [Next]_vars,
                        NEW r \in published'
                 PROVE  (Held(r) \/ Settled(r))'
      BY DEF NothingLost
    <2>1. CASE r \notin published
      <3>1. \E m \in ready' : m.req = r
        BY <2>1, PublishedIsQueued
      <3>2. HeldMeans'
        BY HeldMeans, PTL
      <3>3. r \in Request
        BY DEF TypeInv, TypeOK, BrokerTypeOK
      <3> QED
        BY <3>1, <3>2, <3>3
    <2>2. CASE r \in published /\ Next
      <3>1. (Held(r) \/ Settled(r))' \/ RetryDropped(r)
        BY <2>2, LossStep DEF NothingLost
      <3>2. ~RetryDropped(r)
        BY DEF RetryDropped, NoRetry, LinkLost, Crash
      <3> QED
        BY <3>1, <3>2
    <2>3. CASE r \in published /\ UNCHANGED vars
      BY <2>3 DEF NothingLost, Held, Copies, Settled, PendingRetry, vars, brokerVars,
                  dbVars, workerVars
    <2> QED
      BY <2>1, <2>2, <2>3
  <1> QED
    BY <1>1, <1>2, <1>3, AnsweredInvariant, PTL DEF Spec

\* An answer comes from a worker that was about to record it.
LEMMA AnswerComesFromMark ==
    ASSUME TypeInv, [Next]_vars, NEW r \in Request,
           processed[r] = None, processed'[r] # None
    PROVE  \E w \in Worker : /\ pc[w] = "mark" /\ Req(w) = r
                             /\ pc'[w] \in {"ack", "failed"}
  <1> USE DEF TypeInv, TypeOK, DbTypeOK, dbVars, Goto
  <1>1. CASE UNCHANGED vars
    BY <1>1 DEF vars
  <1>2. ASSUME NEW q \in Request, Publish(q)
        PROVE  processed' = processed
    BY <1>2 DEF Publish
  <1>3. ASSUME NEW w \in Worker, NEW m \in ready, Receive(w, m)
        PROVE  processed' = processed
    BY <1>3 DEF Receive
  <1>4. ASSUME NEW w \in Worker, WorkerStep(w) \/ Fault(w)
        PROVE  \/ processed' = processed
               \/ /\ pc[w] = "mark" /\ Req(w) = r
                  /\ pc'[w] \in {"ack", "failed"}
    <2>1. CASE \/ Start(w) \/ Connect(w) \/ Reconnect(w)
               \/ \E m \in inbox[w] : Take(w, m)
               \/ CheckIdempotent(w) \/ Pay(w) \/ Ack(w) \/ Reject(w)
               \/ RetryAck(w) \/ PublishRetry(w) \/ RetriesExhausted(w)
               \/ LinkLost(w)
      BY <2>1 DEF Start, Connect, Reconnect, Take, CheckIdempotent, Pay, Ack, Reject,
                  RetryAck, PublishRetry, RetriesExhausted, LinkLost
    <2>2. CASE \/ SellNumbered(w) \/ SellUnnumbered(w) \/ Commit(w)
               \/ Crash(w) \/ GetConnFails(w) \/ SqlFails(w)
      BY <2>2 DEF SellNumbered, SellUnnumbered, sell_seat, decrement_inventory,
                  Commit, CommitSale, Crash, GetConnFails, SqlFails, Die, RollbackSale
    <2>3. CASE MarkProcessed(w) \/ CommitUnconfirmed(w)
      BY <2>3 DEF MarkProcessed, CommitUnconfirmed, mark_processed, CommitSale
    <2> QED
      BY <1>4, <2>1, <2>2, <2>3 DEF WorkerStep, Fault
  <1> QED
    BY <1>1, <1>2, <1>3, <1>4 DEF Next

Selling == {"pay", "sell", "commit", "mark"}

\* Who is selling was selling before or has just looked for an answer.
LEMMA SellingComesFromCheck ==
    ASSUME TypeInv, [Next]_vars, NEW w \in Worker, pc'[w] \in Selling
    PROVE  \/ pc[w] \in Selling /\ cur'[w] = cur[w]
           \/ /\ pc[w] = "check" /\ cur'[w] = cur[w]
              /\ processed[Req(w)] = None /\ processed' = processed
  <1> USE DEF TypeInv, TypeOK, Goto, workerVars, dbVars, Selling
  <1>1. CASE UNCHANGED vars
    BY <1>1 DEF vars
  <1>2. ASSUME NEW r \in Request, Publish(r)
        PROVE  pc[w] \in Selling /\ cur'[w] = cur[w]
    BY <1>2 DEF Publish
  <1>3. ASSUME NEW v \in Worker, NEW m \in ready, Receive(v, m)
        PROVE  pc[w] \in Selling /\ cur'[w] = cur[w]
    BY <1>3 DEF Receive
  <1>4. ASSUME NEW v \in Worker, WorkerStep(v)
        PROVE  \/ pc[w] \in Selling /\ cur'[w] = cur[w]
               \/ /\ pc[w] = "check" /\ cur'[w] = cur[w]
                  /\ processed[Req(w)] = None /\ processed' = processed
    <2>1. CASE \/ Start(v) \/ Connect(v) \/ Reconnect(v)
               \/ \E m \in inbox[v] : Take(v, m)
               \/ Ack(v) \/ Reject(v) \/ RetryAck(v) \/ PublishRetry(v)
               \/ RetriesExhausted(v)
      BY <2>1 DEF Start, Connect, Reconnect, Forget, Take, Ack, Reject, RetryAck,
                  PublishRetry, RetriesExhausted, Return
    <2>2. CASE Pay(v) \/ SellNumbered(v) \/ SellUnnumbered(v) \/ Commit(v)
                 \/ MarkProcessed(v)
      BY <2>2 DEF Pay, SellNumbered, SellUnnumbered, Commit, MarkProcessed
    <2>3. CASE CheckIdempotent(v)
      BY <2>3 DEF CheckIdempotent, check_idempotent
    <2> QED
      BY <1>4, <2>1, <2>2, <2>3 DEF WorkerStep
  <1>5. ASSUME NEW v \in Worker, Fault(v)
        PROVE  pc[w] \in Selling /\ cur'[w] = cur[w]
    BY <1>5 DEF Fault, LinkLost, Crash, GetConnFails, Die, Forget, SqlFails,
                CommitUnconfirmed
  <1> QED
    BY <1>1, <1>2, <1>3, <1>4, <1>5 DEF Next

\* The message a worker handles on a connection that works is its only copy, so
\* nobody else can record an answer under its hands.
LEMMA NoSecondSaleStep ==
    TypeInv /\ DeliveryInv /\ NoLostLink /\ NoSaleOnceAnswered /\ [Next]_vars
      => NoSaleOnceAnswered'
  <1> SUFFICES ASSUME TypeInv, DeliveryInv, NoLostLink, NoSaleOnceAnswered,
                      [Next]_vars, NEW w \in Worker, pc'[w] \in Selling
               PROVE  processed'[Req(w)'] = None
    BY DEF NoSaleOnceAnswered, Selling
  <1>1. CASE pc[w] = "check" /\ cur'[w] = cur[w]
               /\ processed[Req(w)] = None /\ processed' = processed
    BY <1>1 DEF Req
  <1>2. CASE pc[w] \in Selling /\ cur'[w] = cur[w]
    <2> SUFFICES ASSUME processed'[Req(w)] # None
                 PROVE  FALSE
      BY <1>2 DEF Req
    <2>1. processed[Req(w)] = None /\ Req(w) \in Request
      BY <1>2, MessageHandled, MessageInHand DEF NoSaleOnceAnswered, Selling, Handling,
                                                 TypeInv
    <2>2. PICK v \in Worker : /\ pc[v] = "mark" /\ Req(v) = Req(w)
                              /\ pc'[v] \in {"ack", "failed"}
      BY <2>1, AnswerComesFromMark
    <2>3. v # w
      BY <2>2 DEF Selling
    <2>4. \A u \in {v, w} : cur[u] \in Live(u)
      BY <1>2, <2>2, MessageHandled DEF NoLostLink, Selling, Handling
    <2> QED
      BY <2>2, <2>3, <2>4 DEF DeliveryInv, OneCopy, Apart, Req
  <1> QED
    BY <1>1, <1>2, SellingComesFromCheck

\* Idempotence without lost connections: no worker is selling for a request
\* that has its answer.
THEOREM NoSecondSale ==
    ASSUME "link" \notin Faults
    PROVE  Spec => []NoSaleOnceAnswered
  <1>1. Init => NoLostLink /\ NoSaleOnceAnswered
    BY DEF Init, BrokerInit, NoLostLink, NoSaleOnceAnswered
  <1>2. TypeInv /\ NoLostLink /\ [Next]_vars => NoLostLink'
    BY NoLostLinkStep
  <1> QED
    BY <1>1, <1>2, NoSecondSaleStep, DeliveryInvariant, PTL DEF Spec
=============================================================================
