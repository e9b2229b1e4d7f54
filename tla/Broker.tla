------------------------------- MODULE Broker -------------------------------
(***************************************************************************)
(* The RabbitMQ node as the workers see it: the queue tickets.buy, the     *)
(* deliveries that wait for an acknowledgement, the dead-letter queue and  *)
(* one connection per worker (infra/modules/rabbitmq/user_data.sh and the  *)
(* channel calls of worker/app/main.py).                                   *)
(*                                                                         *)
(* Queues are sets: which waiting message is delivered next is left open,  *)
(* so every order the queue can take is covered (a retry goes to the tail, *)
(* a redelivery to the head).  A set cannot hold two equal copies of a     *)
(* message; the invariant SingleLiveCopy of TicketWorker shows there never *)
(* are any.                                                                *)
(***************************************************************************)
EXTENDS Orders

CONSTANTS
    Prefetch,           \* basic_qos(prefetch_count)
    MaxRetries,         \* Config.max_retries
    DeadLetterBound     \* does the dead-letter policy apply to tickets.buy?

\* A message: the body of request req with its x-retry-count.
Message == [req : Request, retry : 0 .. MaxRetries]

ASSUME BrokerAssumption ==
    /\ Prefetch \in Nat \ {0}
    /\ MaxRetries \in Nat
    /\ DeadLetterBound \in BOOLEAN
    /\ None \notin Message

VARIABLES
    published,          \* requests the load generator has published
    ready,              \* messages waiting in tickets.buy
    unacked,            \* unacked[w]: delivered to w, not acknowledged
    dlq,                \* messages in tickets.dlq
    link                \* link[w]: the connection of w

brokerVars == <<published, ready, unacked, dlq, link>>

\* "lost": the broker has closed the connection, the worker does not know.
LinkState == {"closed", "up", "lost"}

BrokerTypeOK ==
    /\ published \subseteq Request
    /\ ready \subseteq Message
    /\ unacked \in [Worker -> SUBSET Message]
    /\ dlq \subseteq Message
    /\ link \in [Worker -> LinkState]

BrokerInit ==
    /\ published = {}
    /\ ready = {}
    /\ unacked = [w \in Worker |-> {}]
    /\ dlq = {}
    /\ link = [w \in Worker |-> "closed"]

\* The load generator publishes every request id once.
BrokerPublish(r) ==
    /\ r \notin published
    /\ published' = published \cup {r}
    /\ ready' = ready \cup {[req |-> r, retry |-> 0]}
    /\ UNCHANGED <<unacked, dlq, link>>

\* BlockingConnection, basic_qos and basic_consume.
OpenLink(w) ==
    /\ link' = [link EXCEPT ![w] = "up"]
    /\ UNCHANGED <<published, ready, unacked, dlq>>

\* MUTANT of BrokerDeliver: consuming with auto_ack=True.
BrokerDeliverAutoAck(w, m) ==
    /\ link[w] = "up"
    /\ m \in ready
    /\ ready' = ready \ {m}
    /\ UNCHANGED <<published, unacked, dlq, link>>

\* The broker pushes a message to a consumer with room in its prefetch window.
BrokerDeliver(w, m) ==
    /\ link[w] = "up"
    /\ m \in ready
    /\ Cardinality(unacked[w]) < Prefetch
    /\ ready' = ready \ {m}
    /\ unacked' = [unacked EXCEPT ![w] = @ \cup {m}]
    /\ UNCHANGED <<published, dlq, link>>

\* A frame written to a lost connection reaches nobody: its broker has no
\* delivery left to acknowledge (unacked[w] is empty) and gets no message.
basic_ack(w, m) ==
    /\ unacked' = [unacked EXCEPT ![w] = @ \ {m}]
    /\ UNCHANGED <<published, ready, dlq, link>>

\* basic_nack(requeue=False): dead-lettered if a policy says where to.
basic_nack(w, m) ==
    /\ unacked' = [unacked EXCEPT ![w] = @ \ {m}]
    /\ dlq' = IF link[w] = "up" /\ DeadLetterBound THEN dlq \cup {m} ELSE dlq
    /\ UNCHANGED <<published, ready, link>>

basic_publish(w, m) ==
    /\ ready' = IF link[w] = "up" THEN ready \cup {m} ELSE ready
    /\ UNCHANGED <<published, unacked, dlq, link>>

\* MUTANT of EndLink: what was not settled is dropped.
EndLinkDrops(w, state) ==
    /\ link' = [link EXCEPT ![w] = state]
    /\ unacked' = [unacked EXCEPT ![w] = {}]
    /\ UNCHANGED <<published, ready, dlq>>

\* However a connection ends, the broker requeues what it had not settled.
EndLink(w, state) ==
    /\ link' = [link EXCEPT ![w] = state]
    /\ ready' = ready \cup unacked[w]
    /\ unacked' = [unacked EXCEPT ![w] = {}]
    /\ UNCHANGED <<published, dlq>>
=============================================================================
