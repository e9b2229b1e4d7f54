-------------------------- MODULE ExactlyOnceProofs --------------------------
(***************************************************************************)
(* Where exactly-once ends.  The roadmap promises that every request is    *)
(* sold exactly once; MCTicketWorker_ExactlyOnce.cfg shows that a crash    *)
(* between the commit of a sale and that of its result breaks it.  Here is *)
(* the other half: as long as nothing fails between the two, and no worker *)
(* is cut off, the promise holds.  A process may still die at the top of   *)
(* process_message, where get_conn raises, with everything it has buffered.*)
(***************************************************************************)
EXTENDS SalesProofs, DeliveryProofs

\* A worker between the commit of a sale and that of its result.
HoldsSale(w) == pc[w] = "mark" /\ result[w] = "sold"

\* Every seat and every ticket that is gone is answered for, or about to be.
SeatsAnswered ==
    \A s \in Seat, r \in Request : seats[s] = r =>
        processed[r] = "sold" \/ \E w \in Worker : HoldsSale(w) /\ Req(w) = r

TicketsAnswered == inventory <= Cardinality(TicketHolders \cup TicketInHand)

AnswersArePublished == \A r \in Request : processed[r] # None => r \in published

\* What the other invariants give, without lost connections.
Sound == IInv /\ DeliveryInv /\ NoLostLink /\ NoSaleOnceAnswered

ExactInv == SeatsAnswered /\ TicketsAnswered /\ AnswersArePublished

LEMMA InHand ==
    ASSUME Sound, NEW w \in Worker, pc[w] \in {"commit", "mark"}
    PROVE  /\ Req(w) \in Request /\ Req(w) \in published
           /\ processed[Req(w)] = None
           /\ \A v \in Worker : pc[v] \in Handling /\ Req(v) = Req(w) => v = w
  <1>1. Req(w) \in Request
    BY MessageInHand DEF Sound, IInv, TypeInv, HandlesOrder, Handling
  <1>2. \A v \in Worker : pc[v] \in Handling => cur[v] \in Live(v)
    BY MessageHandled DEF Sound, IInv, NoLostLink
  <1>3. cur[w] \in Live(w)
    BY <1>2 DEF Handling
  <1>4. Req(w) \in published
    BY <1>3 DEF Sound, DeliveryInv, Known, Req
  <1>5. processed[Req(w)] = None
    BY DEF Sound, NoSaleOnceAnswered
  <1>6. \A v \in Worker : pc[v] \in Handling /\ Req(v) = Req(w) => v = w
    BY <1>2, <1>3 DEF Sound, DeliveryInv, OneCopy, Apart, Req
  <1> QED
    BY <1>1, <1>4, <1>5, <1>6

\* Only two kinds of step touch what the invariant is about.
LEMMA SaleSteps ==
    ASSUME Faults \subseteq {"pool"}, TypeInv, [Next]_vars
    PROVE  \/ \E w \in Worker : Commit(w) \/ MarkProcessed(w)
           \/ /\ UNCHANGED <<seats, inventory, processed>>
              /\ \A w \in Worker : HoldsSale(w) => HoldsSale(w)' /\ Req(w)' = Req(w)
  <1> DEFINE Quiet == /\ UNCHANGED <<seats, inventory, processed>>
                      /\ \A w \in Worker : HoldsSale(w) =>
                             HoldsSale(w)' /\ Req(w)' = Req(w)
  <1> USE DEF TypeInv, TypeOK, dbVars, workerVars, HoldsSale, Req, Goto
  <1>1. CASE UNCHANGED vars
    BY <1>1 DEF vars
  <1>2. ASSUME NEW r \in Request, Publish(r)
        PROVE  Quiet
    BY <1>2 DEF Publish
  <1>3. ASSUME NEW w \in Worker, NEW m \in ready, Receive(w, m)
        PROVE  Quiet
    BY <1>3 DEF Receive
  <1>4. ASSUME NEW w \in Worker, WorkerStep(w), ~Commit(w), ~MarkProcessed(w)
        PROVE  Quiet
    <2>1. CASE \/ Start(w) \/ Connect(w) \/ Reconnect(w)
               \/ \E m \in inbox[w] : Take(w, m)
      BY <2>1 DEF Start, Connect, Reconnect, Forget, ChannelStep, Take
    <2>2. CASE CheckIdempotent(w) \/ Pay(w)
      BY <2>2 DEF CheckIdempotent, Pay
    <2>3. CASE SellNumbered(w) \/ SellUnnumbered(w)
      BY <2>3 DEF SellNumbered, SellUnnumbered, sell_seat, decrement_inventory
    <2>4. CASE \/ Ack(w) \/ Reject(w) \/ RetryAck(w) \/ PublishRetry(w)
               \/ RetriesExhausted(w)
      BY <2>4 DEF Ack, Reject, RetryAck, PublishRetry, RetriesExhausted, Return
    <2> QED
      BY <1>4, <2>1, <2>2, <2>3, <2>4 DEF WorkerStep
  <1>5. ASSUME NEW w \in Worker, Fault(w)
        PROVE  Quiet
    <2>1. GetConnFails(w)
      BY <1>5 DEF Fault, LinkLost, Crash, SqlFails, CommitUnconfirmed
    <2> QED
      BY <2>1 DEF GetConnFails, Die, RollbackSale, Forget
  <1> QED
    BY <1>1, <1>2, <1>3, <1>4, <1>5 DEF Next

LEMMA QuietKeepsExact ==
    ASSUME ExactInv, TypeInv, UNCHANGED <<seats, inventory, processed>>,
           \A w \in Worker : HoldsSale(w) => HoldsSale(w)' /\ Req(w)' = Req(w)
    PROVE  SeatsAnswered' /\ TicketsAnswered'
  <1>1. SeatsAnswered'
    BY DEF ExactInv, SeatsAnswered
  <1>2. TicketHolders' = TicketHolders /\ TicketInHand \subseteq TicketInHand'
    BY DEF TicketHolders, TicketInHand, HoldsSale
  <1>3. inventory \in Nat /\ inventory' = inventory
    BY DEF TypeInv, TypeOK, DbTypeOK
  <1> DEFINE T == TicketHolders \cup TicketInHand
             U == (TicketHolders \cup TicketInHand)'
  <1>4. U \in SUBSET Request /\ T \in SUBSET U
    BY <1>2 DEF TicketHolders, TicketInHand, Unnumbered
  <1>5. inventory <= Cardinality(T)
    BY DEF ExactInv, TicketsAnswered
  <1> HIDE DEF T, U
  <1>6. Cardinality(T) \in Nat /\ Cardinality(U) \in Nat /\ Cardinality(T) <= Cardinality(U)
    BY <1>4, Counting
  <1>7. inventory' <= Cardinality(U)
    BY <1>3, <1>5, <1>6
  <1> QED
    BY <1>1, <1>7 DEF TicketsAnswered, U

\* A commit adds the sale of a request that had none.
LEMMA CommitKeepsExact ==
    ASSUME Sound, ExactInv, NEW w \in Worker, Commit(w)
    PROVE  SeatsAnswered' /\ TicketsAnswered'
  <1> DEFINE r == Req(w)
             T == TicketHolders \cup TicketInHand
             U == (TicketHolders \cup TicketInHand)'
  <1>1. /\ pc[w] = "commit" /\ pc' = [pc EXCEPT ![w] = "mark"]
        /\ seats' = [s \in Seat |-> IF tx[w] = s THEN r ELSE seats[s]]
        /\ inventory' = IF tx[w] = InventoryRow THEN inventory + 1 ELSE inventory
        /\ UNCHANGED <<processed, cur, result>>
    BY DEF Commit, CommitSale, Goto
  <1>2. /\ TypeOK /\ OpenSale(w)
        /\ pc'[w] = "mark" /\ \A v \in Worker : v # w => pc'[v] = pc[v]
    BY <1>1 DEF Sound, IInv, TypeInv, TypeOK, SalesInv
  <1>3. /\ r \in Request /\ processed[r] = None
        /\ \A v \in Worker : pc[v] \in Handling /\ Req(v) = r => v = w
    BY <1>1, InHand
  <1>4. \A v \in Worker : HoldsSale(v) => HoldsSale(v)' /\ Req(v)' = Req(v)
    BY <1>1, <1>2 DEF HoldsSale, Req
  <1>5. tx[w] # None => HoldsSale(w)' /\ Req(w)' = r
    BY <1>1, <1>2 DEF HoldsSale, OpenSale, Req
  <1>6. SeatsAnswered'
    <2> SUFFICES ASSUME NEW s \in Seat, NEW q \in Request, seats'[s] = q
                 PROVE  \/ processed'[q] = "sold"
                        \/ \E v \in Worker : HoldsSale(v)' /\ Req(v)' = q
      BY DEF SeatsAnswered
    <2>1. CASE tx[w] = s
      <3>1. tx[w] # None /\ q = r
        BY <1>1, <2>1, OrdersAssumption
      <3> QED
        BY <1>5, <3>1
    <2>2. CASE tx[w] # s
      BY <1>1, <1>4, <2>2 DEF ExactInv, SeatsAnswered
    <2> QED
      BY <2>1, <2>2
  <1>7. U \in SUBSET Request /\ T \in SUBSET U
    BY <1>1, <1>4 DEF TicketHolders, TicketInHand, Unnumbered, HoldsSale
  <1>8. tx[w] = InventoryRow => r \notin T /\ T \cup {r} \in SUBSET U
    <2> SUFFICES ASSUME tx[w] = InventoryRow
                 PROVE  r \notin T /\ T \cup {r} \in SUBSET U
      OBVIOUS
    <2>1. tx[w] # None
      BY DatabaseAssumption
    <2>2. r \in Unnumbered
      BY <1>2 DEF OpenSale
    <2>3. r \notin TicketHolders
      BY <1>3, OrdersAssumption DEF TicketHolders, Outcome
    <2>4. r \notin TicketInHand
      BY <1>1, <1>3 DEF TicketInHand, Handling
    <2>5. r \in TicketInHand'
      BY <1>5, <2>1, <2>2 DEF TicketInHand, HoldsSale
    <2> QED
      BY <1>7, <2>3, <2>4, <2>5
  <1>9. inventory \in Nat /\ inventory <= Cardinality(T)
    BY <1>2 DEF TypeOK, DbTypeOK, ExactInv, TicketsAnswered
  <1> HIDE DEF T, U, r
  <1>10. /\ Cardinality(T) \in Nat /\ Cardinality(U) \in Nat
         /\ Cardinality(T) <= Cardinality(U)
         /\ r \notin T => Cardinality(T \cup {r}) = Cardinality(T) + 1
    BY <1>7, Counting
  <1>11. tx[w] = InventoryRow => Cardinality(T \cup {r}) <= Cardinality(U)
    BY <1>7, <1>8, Counting
  <1>12. inventory' <= Cardinality(U)
    <2>1. CASE tx[w] = InventoryRow
      BY <1>1, <1>8, <1>9, <1>10, <1>11, <2>1
    <2>2. CASE tx[w] # InventoryRow
      BY <1>1, <1>9, <1>10, <2>2
    <2> QED
      BY <2>1, <2>2
  <1> QED
    BY <1>6, <1>12 DEF TicketsAnswered, U

\* The result of a sale becomes its answer.
LEMMA MarkKeepsExact ==
    ASSUME Sound, ExactInv, NEW w \in Worker, MarkProcessed(w)
    PROVE  SeatsAnswered' /\ TicketsAnswered'
  <1> DEFINE T == TicketHolders \cup TicketInHand
             U == (TicketHolders \cup TicketInHand)'
  <1>1. /\ pc[w] = "mark" /\ UNCHANGED <<seats, inventory, cur, result>>
        /\ processed' = [processed EXCEPT ![Req(w)] =
                           IF @ = None THEN result[w] ELSE @]
        /\ \A v \in Worker : v # w => pc'[v] = pc[v]
    BY DEF MarkProcessed, mark_processed, Goto, Sound, IInv, TypeInv, TypeOK
  <1>2. TypeOK /\ DbTypeOK
    BY DEF Sound, IInv, TypeInv, TypeOK
  <1>3. /\ processed'[Req(w)] = result[w] /\ processed[Req(w)] = None
        /\ \A q \in Request : q # Req(w) => processed'[q] = processed[q]
    BY <1>1, <1>2, InHand DEF DbTypeOK
  <1>4. \A v \in Worker : HoldsSale(v) =>
           IF v = w THEN processed'[Req(v)] = "sold"
                    ELSE HoldsSale(v)' /\ Req(v)' = Req(v)
    BY <1>1, <1>3 DEF HoldsSale, Req
  <1>5. \A q \in Request : processed[q] = "sold" => processed'[q] = "sold"
    BY <1>3, OrdersAssumption DEF Outcome
  <1>6. SeatsAnswered'
    BY <1>1, <1>4, <1>5 DEF ExactInv, SeatsAnswered
  <1>7. U \in SUBSET Request /\ T \in SUBSET U
    BY <1>4, <1>5 DEF TicketHolders, TicketInHand, Unnumbered, HoldsSale
  <1>8. inventory \in Nat /\ inventory' = inventory /\ inventory <= Cardinality(T)
    BY <1>1, <1>2 DEF DbTypeOK, ExactInv, TicketsAnswered
  <1> HIDE DEF T, U
  <1>9. Cardinality(T) \in Nat /\ Cardinality(U) \in Nat /\ Cardinality(T) <= Cardinality(U)
    BY <1>7, Counting
  <1>10. inventory' <= Cardinality(U)
    BY <1>8, <1>9
  <1> QED
    BY <1>6, <1>10 DEF TicketsAnswered, U

LEMMA AnswersArePublishedStep ==
    Sound /\ AnswersArePublished /\ [Next]_vars => AnswersArePublished'
  <1> SUFFICES ASSUME Sound, AnswersArePublished, [Next]_vars,
                      NEW r \in Request, processed'[r] # None
               PROVE  r \in published'
    BY DEF AnswersArePublished
  <1>1. published \subseteq published'
    BY PublishedStays
  <1>2. CASE processed[r] = None
    <2>1. PICK w \in Worker : pc[w] = "mark" /\ Req(w) = r
      BY <1>2, AnswerComesFromMark DEF Sound, IInv
    <2> QED
      BY <1>1, <2>1, InHand
  <1>3. CASE processed[r] # None
    BY <1>1, <1>3 DEF AnswersArePublished
  <1> QED
    BY <1>2, <1>3

LEMMA ExactStep ==
    ASSUME Faults \subseteq {"pool"}, Sound, ExactInv, [Next]_vars
    PROVE  ExactInv'
  <1>1. AnswersArePublished'
    BY AnswersArePublishedStep DEF ExactInv
  <1>2. SeatsAnswered' /\ TicketsAnswered'
    BY SaleSteps, QuietKeepsExact, CommitKeepsExact, MarkKeepsExact DEF Sound, IInv
  <1> QED
    BY <1>1, <1>2 DEF ExactInv

LEMMA ExactImplies ==
    Sound /\ ExactInv => SoldExactlyOnce
  <1> SUFFICES ASSUME Sound, ExactInv PROVE SoldExactlyOnce
    OBVIOUS
  <1>1. ASSUME NEW r \in Numbered, NEW s \in Seat, seats[s] = r
        PROVE  processed[r] \in {None, "sold"}
    <2>1. r \in Request
      BY DEF Numbered
    <2> QED
      BY <1>1, <2>1, InHand DEF ExactInv, SeatsAnswered, HoldsSale
  <1> DEFINE T == TicketHolders \cup TicketInHand
             U == published \cap Unnumbered
  <1>2. U \in SUBSET Request /\ T \in SUBSET U
    <2>1. TicketHolders \subseteq U
      BY OrdersAssumption DEF TicketHolders, ExactInv, AnswersArePublished, Unnumbered,
                              Outcome
    <2>2. TicketInHand \subseteq U
      BY InHand DEF TicketInHand
    <2> QED
      BY <2>1, <2>2 DEF Unnumbered
  <1>3. inventory \in Nat /\ inventory <= Cardinality(T)
    BY DEF Sound, IInv, TypeInv, TypeOK, DbTypeOK, ExactInv, TicketsAnswered
  <1> HIDE DEF T, U
  <1>4. Cardinality(T) \in Nat /\ Cardinality(U) \in Nat /\ Cardinality(T) <= Cardinality(U)
    BY <1>2, Counting
  <1>5. inventory <= Cardinality(U)
    BY <1>3, <1>4
  <1> QED
    BY <1>1, <1>5 DEF SoldExactlyOnce, U

\* As long as no process dies between the commit of a sale and that of its
\* result, no statement and no get_conn within the try raises and no worker is
\* cut off, every request is sold exactly once: who owns a seat is told so, and a ticket leaves the inventory
\* once per request.
THEOREM ExactlyOnceWithoutFaults ==
    ASSUME Faults \subseteq {"pool"}
    PROVE  Spec => []SoldExactlyOnce
  <1>1. Init => ExactInv
    <2>1. Init => SeatsAnswered /\ AnswersArePublished
      BY OrdersAssumption DEF Init, DbInit, SeatsAnswered, AnswersArePublished
    <2>2. Init => TicketsAnswered
      <3>1. TicketHolders \cup TicketInHand \in SUBSET Request
        BY DEF TicketHolders, TicketInHand, Unnumbered
      <3>2. Cardinality(TicketHolders \cup TicketInHand) \in Nat
        BY <3>1, Counting
      <3> QED
        BY <3>2 DEF Init, DbInit, TicketsAnswered
    <2> QED
      BY <2>1, <2>2 DEF ExactInv
  <1>2. Spec => []NoSaleOnceAnswered
    BY NoSecondSale
  <1>3. Init => NoLostLink
    BY DEF Init, BrokerInit, NoLostLink
  <1>4. TypeInv /\ NoLostLink /\ [Next]_vars => NoLostLink'
    BY NoLostLinkStep
  <1>5. ASSUME Sound, ExactInv, [Next]_vars PROVE ExactInv'
    BY <1>5, ExactStep
  <1>6. IInv /\ DeliveryInv /\ NoLostLink /\ NoSaleOnceAnswered /\ ExactInv /\ [Next]_vars
          => ExactInv'
    BY <1>5 DEF Sound
  <1>7. IInv /\ DeliveryInv /\ NoLostLink /\ NoSaleOnceAnswered /\ ExactInv
          => SoldExactlyOnce
    BY ExactImplies DEF Sound
  <1> QED
    BY <1>1, <1>2, <1>3, <1>4, <1>6, <1>7, IInvInit, IInvStep, DeliveryInvariant, PTL
       DEF Spec
=============================================================================
