----------------------------- MODULE SalesProofs -----------------------------
(***************************************************************************)
(* Whatever fails, a recorded answer is true and no ticket is promised     *)
(* twice: SalesInv is an invariant of TicketWorker, and TicketWorker       *)
(* implements TicketSales.                                                 *)
(*                                                                         *)
(* SalesInv relates what a worker has in its hands to the tables.  Most    *)
(* steps are quiet: they touch neither the tables nor a result (lemma      *)
(* QuietStep).  The others are the two UPDATEs, the commit of a sale and   *)
(* the recording of a result.                                              *)
(***************************************************************************)
EXTENDS TicketWorkerProofs

LEMMA Counting ==
    ASSUME NEW S \in SUBSET Request, NEW T \in SUBSET S
    PROVE  /\ Cardinality(S) \in Nat /\ Cardinality(T) \in Nat
           /\ Cardinality(T) <= Cardinality(S)
           /\ \A x : Cardinality(S \cup {x}) <= Cardinality(S) + 1
           /\ \A x : x \notin T => Cardinality(T \cup {x}) = Cardinality(T) + 1
  <1>1. IsFiniteSet(S) /\ IsFiniteSet(T)
    BY OrdersAssumption, FS_Subset
  <1>2. Cardinality(S) \in Nat /\ Cardinality(T) \in Nat
    BY <1>1, FS_CardinalityType
  <1>3. Cardinality(T) <= Cardinality(S)
    BY <1>1, FS_Subset
  <1>4. \A x : Cardinality(S \cup {x}) <= Cardinality(S) + 1
    <2> SUFFICES ASSUME NEW x PROVE Cardinality(S \cup {x}) <= Cardinality(S) + 1
      OBVIOUS
    <2> QED
      BY <1>1, <1>2, FS_AddElement
  <1>5. \A x : x \notin T => Cardinality(T \cup {x}) = Cardinality(T) + 1
    BY <1>1, FS_AddElement
  <1> QED
    BY <1>2, <1>3, <1>4, <1>5

IInv == TypeInv /\ SalesInv

LEMMA QuietStep ==
    ASSUME IInv, NEW w \in Worker,
           NEW step \in Step \ {"commit", "mark"}, NEW m,
           pc' = [pc EXCEPT ![w] = step],
           cur' = [cur EXCEPT ![w] = m],
           result' = [result EXCEPT ![w] = None],
           tx' = [tx EXCEPT ![w] = None],
           UNCHANGED <<seats, inventory, processed>>,
           TypeInv'
    PROVE  SalesInv'
  <1>1. /\ pc'[w] = step /\ result'[w] = None /\ tx'[w] = None
        /\ \A v \in Worker \ {w} : /\ pc'[v] = pc[v] /\ cur'[v] = cur[v]
                                   /\ result'[v] = result[v] /\ tx'[v] = tx[v]
    BY DEF IInv, TypeInv, TypeOK, DbTypeOK
  <1>2. ASSUME NEW v \in Worker
        PROVE  OpenSale(v)' /\ HandlesOrder(v)' /\ ResultTruthful(v)'
    <2>1. CASE v = w
      BY <1>1, <2>1, OrdersAssumption, DatabaseAssumption
         DEF OpenSale, ResultTruthful, Outcome, Req, TypeInv
    <2>2. CASE v # w
      BY <1>1, <2>2 DEF IInv, SalesInv, OpenSale, ResultTruthful, Req, TypeInv
    <2> QED
      BY <2>1, <2>2
  <1>3. RowsLockedOnce'
    BY <1>1 DEF IInv, SalesInv, RowsLockedOnce
  <1>4. TicketsBacked'
    <2>1. TicketHolders' = TicketHolders
      BY DEF TicketHolders
    <2>2. TicketInHand' \subseteq TicketInHand
      BY <1>1 DEF TicketInHand, Req
    <2>3. (TicketHolders \cup TicketInHand)' \subseteq TicketHolders \cup TicketInHand
      BY <2>1, <2>2
    <2>4. TicketHolders \cup TicketInHand \subseteq Request
      BY DEF TicketHolders, TicketInHand, Unnumbered
    <2> QED
      BY <2>3, <2>4, Counting DEF IInv, SalesInv, TicketsBacked, TypeInv, TypeOK, DbTypeOK
  <1>5. AnswersTruthful'
    BY DEF IInv, SalesInv, AnswersTruthful, TicketHolders
  <1> QED
    BY <1>2, <1>3, <1>4, <1>5 DEF SalesInv

\* An order without its seat gets the result "error" and no sale.
LEMMA ErrorStep ==
    ASSUME IInv, TypeInv', NEW w \in Worker, pc[w] = "check",
           Req(w) \in Numbered, SeatOf(Req(w)) = None,
           pc' = [pc EXCEPT ![w] = "mark"],
           result' = [result EXCEPT ![w] = "error"],
           UNCHANGED <<cur, dbVars>>
    PROVE  SalesInv'
  <1>1. /\ pc'[w] = "mark" /\ result'[w] = "error" /\ tx[w] = None
        /\ \A v \in Worker \ {w} : pc'[v] = pc[v] /\ result'[v] = result[v]
        /\ UNCHANGED <<cur, tx, seats, inventory, processed>>
    BY DEF IInv, TypeInv, TypeOK, SalesInv, OpenSale, dbVars
  <1>2. ASSUME NEW v \in Worker
        PROVE  OpenSale(v)' /\ HandlesOrder(v)' /\ ResultTruthful(v)'
    <2>1. CASE v = w
      BY <1>1, <2>1, OrdersAssumption, DatabaseAssumption DEF OpenSale, ResultTruthful, Req, TypeInv
    <2>2. CASE v # w
      BY <1>1, <2>2 DEF IInv, SalesInv, OpenSale, ResultTruthful, Req, TypeInv
    <2> QED
      BY <2>1, <2>2
  <1>3. RowsLockedOnce'
    BY <1>1 DEF IInv, SalesInv, RowsLockedOnce
  <1>4. TicketsBacked'
    <2>1. TicketHolders' = TicketHolders /\ TicketInHand' \subseteq TicketInHand
      BY <1>1 DEF TicketHolders, TicketInHand, Req
    <2>2. (TicketHolders \cup TicketInHand)' \subseteq TicketHolders \cup TicketInHand
      BY <2>1
    <2>3. TicketHolders \cup TicketInHand \subseteq Request
      BY DEF TicketHolders, TicketInHand, Unnumbered
    <2> QED
      BY <1>1, <2>2, <2>3, Counting DEF IInv, SalesInv, TicketsBacked, TypeInv, TypeOK, DbTypeOK
  <1>5. AnswersTruthful'
    BY <1>1 DEF IInv, SalesInv, AnswersTruthful, TicketHolders
  <1> QED
    BY <1>2, <1>3, <1>4, <1>5 DEF SalesInv

\* The UPDATE of a sale that found its row for sale (row is that row) or not
\* (row is None); the row was not locked.
LEMMA UpdateStep ==
    ASSUME IInv, TypeInv', NEW w \in Worker, pc[w] = "sell",
           NEW row \in Row \cup {None}, NEW o \in Outcome,
           pc' = [pc EXCEPT ![w] = "commit"],
           result' = [result EXCEPT ![w] = o],
           tx' = [tx EXCEPT ![w] = row],
           UNCHANGED <<cur, seats, inventory, processed>>,
           row # None => ~Locked(row),
           OpenSale(w)', ResultTruthful(w)'
    PROVE  SalesInv'
  <1>1. /\ pc'[w] = "commit" /\ tx'[w] = row
        /\ \A v \in Worker \ {w} : /\ pc'[v] = pc[v] /\ result'[v] = result[v]
                                   /\ tx'[v] = tx[v]
    BY DEF IInv, TypeInv, TypeOK, DbTypeOK
  <1>2. ASSUME NEW v \in Worker
        PROVE  OpenSale(v)' /\ HandlesOrder(v)' /\ ResultTruthful(v)'
    BY <1>1 DEF IInv, SalesInv, OpenSale, ResultTruthful, Req, TypeInv
  <1>3. RowsLockedOnce'
    BY <1>1 DEF IInv, SalesInv, RowsLockedOnce, Locked
  <1>4. TicketsBacked'
    <2>1. TicketHolders' = TicketHolders /\ TicketInHand' \subseteq TicketInHand
      BY <1>1 DEF TicketHolders, TicketInHand, Req
    <2>2. (TicketHolders \cup TicketInHand)' \subseteq TicketHolders \cup TicketInHand
      BY <2>1
    <2>3. TicketHolders \cup TicketInHand \subseteq Request
      BY DEF TicketHolders, TicketInHand, Unnumbered
    <2> QED
      BY <2>2, <2>3, Counting DEF IInv, SalesInv, TicketsBacked, TypeInv, TypeOK, DbTypeOK
  <1>5. AnswersTruthful'
    BY DEF IInv, SalesInv, AnswersTruthful, TicketHolders
  <1> QED
    BY <1>2, <1>3, <1>4, <1>5 DEF SalesInv

LEMMA CommitSaleStep ==
    ASSUME IInv, TypeInv', NEW w \in Worker, pc[w] = "commit",
           CommitSale(w, Req(w)), UNCHANGED cur,
           \/ pc' = [pc EXCEPT ![w] = "mark"] /\ UNCHANGED result
           \/ /\ pc' = [pc EXCEPT ![w] = "failed"]
              /\ result' = [result EXCEPT ![w] = None]
    PROVE  SalesInv'
  <1>t. TypeOK /\ DbTypeOK /\ OpenSale(w) /\ ResultTruthful(w) /\ Req(w) \in Request
    <2>1. cur[w] # None
      BY DEF IInv, TypeInv, HandlesOrder, Handling
    <2> QED
      BY <2>1, MessageInHand DEF IInv, TypeInv, TypeOK, SalesInv
  <1>1. /\ tx'[w] = None /\ pc'[w] # "commit"
        /\ \A v \in Worker \ {w} : /\ pc'[v] = pc[v] /\ result'[v] = result[v]
                                   /\ tx'[v] = tx[v]
        /\ \/ pc'[w] = "mark" /\ result'[w] = result[w]
           \/ pc'[w] = "failed" /\ result'[w] = None
    BY <1>t DEF CommitSale, TypeOK, DbTypeOK
  \* What the commit does to the tables.
  <1>2. \A s \in Seat : /\ tx[w] = s => seats[s] = None /\ seats'[s] = Req(w)
                        /\ tx[w] # s => seats'[s] = seats[s]
    BY <1>t DEF CommitSale, OpenSale
  <1>3. /\ inventory \in Nat
        /\ tx[w] = InventoryRow => inventory' = inventory + 1 /\ inventory < Capacity
        /\ tx[w] # InventoryRow => inventory' = inventory
    BY <1>t DEF CommitSale, OpenSale, DbTypeOK
  \* The row of any other open transaction is a different one.
  <1>4. \A v \in Worker \ {w} : tx[v] # None => tx[v] # tx[w]
    BY DEF IInv, SalesInv, RowsLockedOnce
  <1>5. ASSUME NEW v \in Worker, v # w
        PROVE  OpenSale(v)' /\ ResultTruthful(v)'
    <2>1. OpenSale(v) /\ ResultTruthful(v)
      BY DEF IInv, SalesInv
    <2>2. Req(v)' = Req(v)
      BY DEF Req
    <2>3. OpenSale(v)'
      BY <1>1, <1>2, <1>3, <1>4, <1>5, <2>1, <2>2, OrdersAssumption,
         DatabaseAssumption DEF OpenSale
    <2>4. ASSUME result[v] # None
          PROVE  SeatOf(Req(v)) \in Seat \cup {None} /\ Req(v) \in Request
      <3>1. cur[v] # None
        BY <2>1, <2>4 DEF ResultTruthful, IInv, TypeInv, HandlesOrder, Handling
      <3> QED
        BY <1>t, <3>1, MessageInHand
    <2>5. ResultTruthful(v)'
      <3>1. CASE result[v] = None
        BY <1>1, <1>5, <3>1, OrdersAssumption DEF ResultTruthful, Outcome
      <3>2. CASE result[v] # None
        <4>1. /\ pc'[v] = pc[v] /\ result'[v] = result[v]
              /\ SeatOf(Req(v)) \in Seat \cup {None} /\ Req(v) \in Request
          BY <1>1, <1>5, <2>4, <3>2
        <4>2. ASSUME SeatOf(Req(v)) # None, seats[SeatOf(Req(v))] # None
              PROVE  seats'[SeatOf(Req(v))] = seats[SeatOf(Req(v))]
          BY <1>2, <4>1, <4>2
        <4>3. inventory = Capacity => inventory' = Capacity
          BY <1>3, DatabaseAssumption
        <4>4. Req(v) \in Numbered => Req(v) \notin Unnumbered
          BY DEF Numbered, Unnumbered
        <4> QED
          BY <2>1, <2>2, <4>1, <4>2, <4>3, <4>4, OrdersAssumption DEF ResultTruthful
      <3> QED
        BY <3>1, <3>2
    <2> QED
      BY <2>3, <2>5
  <1>6. OpenSale(w)' /\ ResultTruthful(w)'
    <2>1. OpenSale(w)'
      BY <1>1, OrdersAssumption, DatabaseAssumption DEF OpenSale
    <2>2. CASE pc'[w] = "failed"
      BY <1>1, <2>1, <2>2, OrdersAssumption DEF ResultTruthful, Outcome
    <2>3. CASE pc'[w] = "mark"
      <3>1. /\ result'[w] = result[w] /\ Req(w)' = Req(w)
            /\ SeatOf(Req(w)) \in Seat \cup {None}
        BY <1>t, <1>1, <2>3, OrdersAssumption DEF Req, SeatOf, BuyRequest
      <3>2. Req(w) \in Numbered => Req(w) \notin Unnumbered
        BY DEF Numbered, Unnumbered
      <3>3. result[w] = "sold" /\ Req(w) \in Numbered =>
              tx[w] = SeatOf(Req(w)) /\ tx[w] \in Seat
        BY <1>t, <3>2 DEF OpenSale, DbTypeOK, Row
      <3>4. result[w] = "rejected" /\ SeatOf(Req(w)) # None /\ seats[SeatOf(Req(w))] # None
              => seats'[SeatOf(Req(w))] # None
        BY <1>t, <1>2, <3>1, OrdersAssumption
      <3>5. inventory = Capacity => inventory' = Capacity
        BY <1>3, DatabaseAssumption
      <3> QED
        BY <1>t, <1>1, <1>2, <2>1, <2>3, <3>1, <3>2, <3>3, <3>4, <3>5, OrdersAssumption
           DEF ResultTruthful
    <2> QED
      BY <1>1, <2>1, <2>2, <2>3
  <1>7. RowsLockedOnce'
    BY <1>1, <1>4 DEF IInv, SalesInv, RowsLockedOnce
  <1>8. TicketsBacked'
    <2> DEFINE S == TicketHolders \cup TicketInHand
    <2>1. S \subseteq Request /\ Cardinality(S) <= inventory /\ Cardinality(S) \in Nat
      BY Counting DEF TicketHolders, TicketInHand, Unnumbered, IInv, SalesInv, TicketsBacked
    <2>2. TicketHolders' = TicketHolders
      BY DEF TicketHolders, CommitSale
    <2>3. CASE tx[w] = InventoryRow
      <3>1. TicketInHand' \subseteq TicketInHand \cup {Req(w)}
        BY <1>1 DEF TicketInHand, Req
      <3>2. S \cup {Req(w)} \subseteq Request
        BY <2>1, <1>t
      <3>3. S' \subseteq S \cup {Req(w)}
        BY <2>2, <3>1
      <3>4. Cardinality(S') <= Cardinality(S \cup {Req(w)})
             /\ Cardinality(S') \in Nat /\ Cardinality(S \cup {Req(w)}) \in Nat
        BY <3>2, <3>3, Counting
      <3>5. Cardinality(S \cup {Req(w)}) <= Cardinality(S) + 1
        BY <2>1, Counting
      <3> QED
        BY <2>1, <2>3, <3>4, <3>5, <1>3 DEF TicketsBacked
    <2>4. CASE tx[w] # InventoryRow
      <3>1. TicketInHand' \subseteq TicketInHand
        <4>1. ~(pc'[w] = "mark" /\ result'[w] = "sold" /\ Req(w) \in Unnumbered)
          BY <1>t, <1>1, <2>4 DEF OpenSale, DbTypeOK, Row, Numbered, Unnumbered
        <4> QED
          BY <1>1, <4>1 DEF TicketInHand, Req
      <3>2. S' \subseteq S
        BY <2>2, <3>1
      <3>3. Cardinality(S') <= Cardinality(S) /\ Cardinality(S') \in Nat
        BY <2>1, <3>2, Counting
      <3> QED
        BY <2>1, <2>4, <3>3, <1>3 DEF TicketsBacked
    <2> QED
      BY <2>3, <2>4
  <1>9. AnswersTruthful'
    <2>1. AnswersTruthful /\ processed' = processed
      BY DEF IInv, SalesInv, CommitSale
    <2>2. \A r \in Request : SeatOf(r) \in Seat \cup {None}
      BY OrdersAssumption DEF SeatOf, BuyRequest
    <2>3. TicketHolders' = TicketHolders /\ Cardinality(TicketHolders) \in Nat
      BY <2>1, Counting DEF TicketHolders, Unnumbered
    <2>4. \A r \in Numbered : r \in Request
      BY DEF Numbered
    <2>5. ASSUME NEW r \in Numbered
          PROVE  /\ processed'[r] = "sold" => SeatOf(r) # None /\ seats'[SeatOf(r)] = r
                 /\ processed'[r] = "rejected" =>
                      SeatOf(r) # None /\ seats'[SeatOf(r)] # None
                 /\ processed'[r] = "error" => SeatOf(r) = None
                 /\ processed'[r] # "sold_out"
      BY <1>t, <1>2, <2>1, <2>2, <2>4, <2>5, OrdersAssumption DEF AnswersTruthful
    <2>6. ASSUME NEW r \in Unnumbered
          PROVE  /\ processed'[r] = "sold_out" => inventory' = Capacity
                 /\ processed'[r] \notin {"rejected", "error"}
      BY <1>3, <2>1, <2>6, DatabaseAssumption DEF AnswersTruthful
    <2>7. Cardinality(TicketHolders') <= inventory' /\ inventory' <= Capacity
      BY <1>3, <2>1, <2>3, DatabaseAssumption DEF AnswersTruthful
    <2> QED
      BY <2>5, <2>6, <2>7 DEF AnswersTruthful
  <1> QED
    BY <1>5, <1>6, <1>7, <1>8, <1>9 DEF SalesInv, TypeInv

LEMMA MarkStep ==
    ASSUME IInv, TypeInv', NEW w \in Worker, pc[w] = "mark",
           mark_processed(Req(w), result[w]), UNCHANGED cur,
           \/ pc' = [pc EXCEPT ![w] = "ack"] /\ UNCHANGED result
           \/ /\ pc' = [pc EXCEPT ![w] = "failed"]
              /\ result' = [result EXCEPT ![w] = None]
    PROVE  SalesInv'
  <1>t. /\ TypeOK /\ DbTypeOK /\ OpenSale(w) /\ ResultTruthful(w)
        /\ Req(w) \in Request /\ result[w] \in Outcome
    <2>1. cur[w] # None /\ result[w] # None
      BY DEF IInv, TypeInv, HandlesOrder, Handling
    <2> QED
      BY <2>1, MessageInHand DEF IInv, TypeInv, TypeOK, SalesInv
  <1>1. /\ UNCHANGED <<tx, seats, inventory>> /\ tx[w] = None
        /\ \A v \in Worker \ {w} : pc'[v] = pc[v] /\ result'[v] = result[v]
        /\ \/ pc'[w] = "ack" /\ result'[w] = result[w]
           \/ pc'[w] = "failed" /\ result'[w] = None
    BY <1>t DEF mark_processed, TypeOK, OpenSale
  <1>2. /\ processed'[Req(w)] =
             IF processed[Req(w)] = None THEN result[w] ELSE processed[Req(w)]
        /\ \A r \in Request \ {Req(w)} : processed'[r] = processed[r]
    BY <1>t DEF mark_processed, DbTypeOK
  <1>3. ASSUME NEW v \in Worker
        PROVE  OpenSale(v)' /\ ResultTruthful(v)'
    <2>1. OpenSale(v) /\ ResultTruthful(v) /\ Req(v)' = Req(v)
      BY DEF IInv, SalesInv, Req
    <2>2. CASE v = w
      BY <1>1, <2>1, <2>2, OrdersAssumption, DatabaseAssumption
         DEF OpenSale, ResultTruthful, Outcome
    <2>3. CASE v # w
      BY <1>1, <2>1, <2>3 DEF OpenSale, ResultTruthful
    <2> QED
      BY <2>2, <2>3
  <1>4. RowsLockedOnce'
    BY <1>1 DEF IInv, SalesInv, RowsLockedOnce
  \* A ticket in hand becomes a ticket held.
  <1>5. (TicketHolders \cup TicketInHand)' \subseteq TicketHolders \cup TicketInHand
    <2>1. TicketInHand' \subseteq TicketInHand
      BY <1>1 DEF TicketInHand, Req
    <2>2. ASSUME NEW r \in TicketHolders', r \notin TicketHolders
          PROVE  r \in TicketInHand
      BY <1>2, <2>2 DEF TicketHolders, TicketInHand, Unnumbered
    <2> QED
      BY <2>1, <2>2
  <1>6. TicketsBacked'
    <2>1. TicketHolders \cup TicketInHand \subseteq Request
      BY DEF TicketHolders, TicketInHand, Unnumbered
    <2> QED
      BY <1>1, <1>5, <2>1, Counting DEF IInv, SalesInv, TicketsBacked, TypeInv, TypeOK, DbTypeOK
  <1>7. AnswersTruthful'
    <2>1. AnswersTruthful /\ ResultTruthful(w)
      BY DEF IInv, SalesInv
    <2>2. ASSUME NEW r \in Numbered
          PROVE  /\ processed'[r] = "sold" => SeatOf(r) # None /\ seats'[SeatOf(r)] = r
                 /\ processed'[r] = "rejected" =>
                      SeatOf(r) # None /\ seats'[SeatOf(r)] # None
                 /\ processed'[r] = "error" => SeatOf(r) = None
                 /\ processed'[r] # "sold_out"
      <3>1. r \in Request /\ r \notin Unnumbered
        BY DEF Numbered, Unnumbered
      <3> QED
        BY <1>1, <1>2, <2>1, <3>1 DEF AnswersTruthful, ResultTruthful
    <2>3. ASSUME NEW r \in Unnumbered
          PROVE  /\ processed'[r] = "sold_out" => inventory' = Capacity
                 /\ processed'[r] \notin {"rejected", "error"}
      <3>1. r \in Request /\ r \notin Numbered
        BY DEF Numbered, Unnumbered
      <3> QED
        BY <1>1, <1>2, <2>1, <3>1 DEF AnswersTruthful, ResultTruthful
    <2>4. Cardinality(TicketHolders') <= inventory' /\ inventory' <= Capacity
      <3>1. /\ TicketHolders' \subseteq (TicketHolders \cup TicketInHand)'
            /\ (TicketHolders \cup TicketInHand)' \subseteq Request
        BY DEF TicketHolders, TicketInHand, Unnumbered
      <3>2. /\ Cardinality(TicketHolders') <= Cardinality((TicketHolders \cup TicketInHand)')
            /\ Cardinality(TicketHolders') \in Nat
            /\ Cardinality((TicketHolders \cup TicketInHand)') \in Nat
        BY <3>1, Counting
      <3> QED
        BY <1>t, <1>1, <1>6, <2>1, <3>2 DEF TicketsBacked, AnswersTruthful, DbTypeOK
    <2> QED
      BY <2>2, <2>3, <2>4 DEF AnswersTruthful
  <1> QED
    BY <1>3, <1>4, <1>6, <1>7 DEF SalesInv, TypeInv

LEMMA FramedStep ==
    ASSUME SalesInv, UNCHANGED <<pc, cur, result, tx, seats, inventory, processed>>
    PROVE  SalesInv'
  BY DEF SalesInv, OpenSale, HandlesOrder, ResultTruthful, RowsLockedOnce,
         TicketsBacked, AnswersTruthful, TicketHolders, TicketInHand, Req

LEMMA IInvStep == IInv /\ [Next]_vars => IInv'
  <1> SUFFICES ASSUME IInv, [Next]_vars
               PROVE  SalesInv'
    BY TypeInvStep DEF IInv
  <1>t. TypeInv' /\ TypeInv /\ TypeOK /\ DbTypeOK /\ SalesInv
    BY TypeInvStep DEF IInv, TypeInv, TypeOK
  \* No transaction is open and no result is known outside its steps.
  <1>q. ASSUME NEW w \in Worker
        PROVE  /\ pc[w] # "commit" /\ tx' = tx => tx' = [tx EXCEPT ![w] = None]
               /\ pc[w] \notin {"commit", "mark", "ack"} /\ result' = result =>
                    result' = [result EXCEPT ![w] = None]
               /\ cur' = cur => cur' = [cur EXCEPT ![w] = cur[w]]
    BY <1>t DEF SalesInv, OpenSale, ResultTruthful, TypeOK, DbTypeOK
  <1>1. CASE UNCHANGED vars
    BY <1>1, <1>t, FramedStep DEF vars, brokerVars, dbVars, workerVars
  <1>2. ASSUME NEW r \in Request, Publish(r)
        PROVE  SalesInv'
    BY <1>2, <1>t, FramedStep DEF Publish, dbVars, workerVars
  <1>3. ASSUME NEW w \in Worker, NEW m \in ready, Receive(w, m)
        PROVE  SalesInv'
    BY <1>3, <1>t, FramedStep DEF Receive, dbVars
  <1>4. ASSUME NEW w \in Worker, Die(w)
        PROVE  SalesInv'
    <2>1. "down" \in Step \ {"commit", "mark"}
      BY DEF Step
    <2> QED
      BY <1>4, <1>t, <2>1, QuietStep DEF Die, Forget, Goto, RollbackSale
  <1>5. ASSUME NEW w \in Worker, Fault(w)
        PROVE  SalesInv'
    <2>1. CASE LinkLost(w)
      BY <2>1, <1>t, FramedStep DEF LinkLost, dbVars, workerVars
    <2>2. CASE Crash(w) \/ GetConnFails(w)
      BY <2>2, <1>4 DEF Crash, GetConnFails
    <2>3. CASE SqlFails(w)
      <3>1. "failed" \in Step \ {"commit", "mark"}
        BY DEF Step
      <3>2. cur' = [cur EXCEPT ![w] = cur[w]]
        BY <2>3, <1>q DEF SqlFails
      <3> QED
        BY <2>3, <1>t, <3>1, <3>2, QuietStep DEF SqlFails, Goto, RollbackSale
    <2>4. CASE CommitUnconfirmed(w)
      BY <2>4, <1>t, CommitSaleStep, MarkStep DEF CommitUnconfirmed, Goto
    <2> QED
      BY <1>5, <2>1, <2>2, <2>3, <2>4 DEF Fault
  <1>6. ASSUME NEW w \in Worker, WorkerStep(w)
        PROVE  SalesInv'
    <2>1. CASE Start(w)
      <3>1. /\ tx' = [tx EXCEPT ![w] = None] /\ cur' = [cur EXCEPT ![w] = cur[w]]
            /\ result' = [result EXCEPT ![w] = None]
            /\ UNCHANGED <<seats, inventory, processed>>
        BY <2>1, <1>q DEF Start, dbVars
      <3>2. PICK step \in Step \ {"commit", "mark"} : pc' = [pc EXCEPT ![w] = step]
        BY <2>1 DEF Start, Goto, Step
      <3> QED
        BY <1>t, <3>1, <3>2, QuietStep
    <2>2. CASE Connect(w)
      <3>1. /\ tx' = [tx EXCEPT ![w] = None] /\ cur' = [cur EXCEPT ![w] = cur[w]]
            /\ result' = [result EXCEPT ![w] = None]
            /\ UNCHANGED <<seats, inventory, processed>>
        BY <2>2, <1>q DEF Connect, dbVars
      <3>2. PICK step \in Step \ {"commit", "mark"} : pc' = [pc EXCEPT ![w] = step]
        BY <2>2 DEF Connect, Goto, Step
      <3> QED
        BY <1>t, <3>1, <3>2, QuietStep
    <2>3. CASE Reconnect(w)
      <3>1. /\ tx' = [tx EXCEPT ![w] = None] /\ cur' = [cur EXCEPT ![w] = None]
            /\ result' = [result EXCEPT ![w] = None]
            /\ UNCHANGED <<seats, inventory, processed>>
        BY <2>3, <1>q DEF Reconnect, Forget, ChannelStep, dbVars
      <3>2. PICK step \in Step \ {"commit", "mark"} : pc' = [pc EXCEPT ![w] = step]
        BY <2>3 DEF Reconnect, Forget, ChannelStep, Goto, Step
      <3> QED
        BY <1>t, <3>1, <3>2, QuietStep
    <2>4. ASSUME NEW m \in inbox[w], Take(w, m)
          PROVE  SalesInv'
      <3>1. /\ tx' = [tx EXCEPT ![w] = None] /\ cur' = [cur EXCEPT ![w] = m]
            /\ result' = [result EXCEPT ![w] = None]
            /\ UNCHANGED <<seats, inventory, processed>>
        BY <2>4, <1>q DEF Take, dbVars
      <3>2. PICK step \in Step \ {"commit", "mark"} : pc' = [pc EXCEPT ![w] = step]
        BY <2>4 DEF Take, Goto, Step
      <3> QED
        BY <1>t, <3>1, <3>2, QuietStep
    <2>5. CASE CheckIdempotent(w)
      <3>1. CASE UNCHANGED result
        <4>1. /\ tx' = [tx EXCEPT ![w] = None] /\ cur' = [cur EXCEPT ![w] = cur[w]]
              /\ result' = [result EXCEPT ![w] = None]
              /\ UNCHANGED <<seats, inventory, processed>>
          BY <2>5, <3>1, <1>q DEF CheckIdempotent, dbVars
        <4>2. result[w] = None
          BY <2>5, <1>t, <1>q DEF CheckIdempotent, SalesInv, ResultTruthful
        <4>3. PICK step \in Step \ {"commit", "mark"} : pc' = [pc EXCEPT ![w] = step]
          <5>1. result'[w] = None
            BY <3>1, <4>2
          <5> QED
            BY <2>5, <5>1, <1>t, OrdersAssumption DEF CheckIdempotent, Goto, Step, Outcome, TypeOK
        <4> QED
          BY <1>t, <4>1, <4>3, QuietStep
      <3>2. CASE ~ UNCHANGED result
        BY <2>5, <3>2, <1>t, ErrorStep DEF CheckIdempotent, Goto
      <3> QED
        BY <3>1, <3>2
    <2>6. CASE Pay(w)
      <3>1. /\ tx' = [tx EXCEPT ![w] = None] /\ cur' = [cur EXCEPT ![w] = cur[w]]
            /\ result' = [result EXCEPT ![w] = None]
            /\ UNCHANGED <<seats, inventory, processed>>
        BY <2>6, <1>q DEF Pay, dbVars
      <3>2. PICK step \in Step \ {"commit", "mark"} : pc' = [pc EXCEPT ![w] = step]
        BY <2>6 DEF Pay, Goto, Step
      <3> QED
        BY <1>t, <3>1, <3>2, QuietStep
    <2>7. CASE SellNumbered(w)
      <3>1. SeatOf(Req(w)) \in Seat /\ Req(w) \notin Unnumbered
        <4>1. cur[w] # None
          BY <2>7, <1>t DEF SellNumbered, TypeInv, HandlesOrder, Handling
        <4> QED
          BY <2>7, <4>1, <1>t, MessageInHand
             DEF SellNumbered, TypeInv, HandlesOrder, Numbered, Unnumbered
      <3> DEFINE s == SeatOf(Req(w))
      <3>2. PICK rows \in {0, 1} :
               /\ sell_seat(w, s, rows)
               /\ result' = [result EXCEPT ![w] = IF rows > 0 THEN "sold" ELSE "rejected"]
        BY <2>7 DEF SellNumbered
      <3>3. /\ pc' = [pc EXCEPT ![w] = "commit"] /\ pc[w] = "sell"
            /\ UNCHANGED <<cur, seats, inventory, processed>>
            /\ ~Locked(s)
        BY <2>7, <3>2 DEF SellNumbered, Goto, sell_seat
      <3>4. /\ pc'[w] = "commit" /\ Req(w)' = Req(w)
            /\ tx'[w] = IF rows = 1 THEN s ELSE None
            /\ result'[w] = IF rows = 1 THEN "sold" ELSE "rejected"
            /\ rows = 1 <=> seats[s] = None
        BY <3>2, <3>3, <1>t DEF sell_seat, TypeOK, DbTypeOK, Req
      <3>5. OpenSale(w)' /\ ResultTruthful(w)'
        BY <2>7, <3>1, <3>3, <3>4, OrdersAssumption, DatabaseAssumption
           DEF OpenSale, ResultTruthful, SellNumbered, Outcome
      <3> DEFINE row == IF rows = 1 THEN s ELSE None
      <3>6. /\ tx' = [tx EXCEPT ![w] = row] /\ row \in Row \cup {None}
            /\ row # None => ~Locked(row)
        BY <3>1, <3>2, <3>3 DEF sell_seat, Row
      <3>7. PICK o \in Outcome : result' = [result EXCEPT ![w] = o]
        BY <3>2 DEF Outcome
      <3> HIDE DEF row, s
      <3> QED
        BY <1>t, <3>3, <3>5, <3>6, <3>7, UpdateStep
    <2>8. CASE SellUnnumbered(w)
      <3>1. PICK rows \in {0, 1} :
               /\ decrement_inventory(w, rows)
               /\ result' = [result EXCEPT ![w] = IF rows = 0 THEN "sold_out" ELSE "sold"]
        BY <2>8 DEF SellUnnumbered
      <3>2. /\ pc' = [pc EXCEPT ![w] = "commit"] /\ pc[w] = "sell"
            /\ UNCHANGED <<cur, seats, inventory, processed>>
            /\ ~Locked(InventoryRow)
        BY <2>8, <3>1 DEF SellUnnumbered, Goto, decrement_inventory
      <3>3. /\ pc'[w] = "commit" /\ Req(w)' = Req(w) /\ Req(w) \notin Numbered
            /\ tx'[w] = IF rows = 1 THEN InventoryRow ELSE None
            /\ result'[w] = IF rows = 1 THEN "sold" ELSE "sold_out"
            /\ rows = 1 <=> inventory < Capacity
        BY <2>8, <3>1, <3>2, <1>t
           DEF SellUnnumbered, decrement_inventory, TypeOK, DbTypeOK, Req, Numbered, Unnumbered
      <3>4. inventory \in Nat /\ inventory <= Capacity /\ Capacity \in Nat
        BY <1>t, DatabaseAssumption DEF SalesInv, AnswersTruthful, DbTypeOK
      <3>5. OpenSale(w)' /\ ResultTruthful(w)'
        BY <2>8, <3>2, <3>3, <3>4, OrdersAssumption, DatabaseAssumption
           DEF OpenSale, ResultTruthful, SellUnnumbered, Outcome
      <3> DEFINE row == IF rows = 1 THEN InventoryRow ELSE None
      <3>6. /\ tx' = [tx EXCEPT ![w] = row] /\ row \in Row \cup {None}
            /\ row # None => ~Locked(row)
        BY <3>1, <3>2 DEF decrement_inventory, Row
      <3>7. PICK o \in Outcome : result' = [result EXCEPT ![w] = o]
        BY <3>1 DEF Outcome
      <3> HIDE DEF row
      <3> QED
        BY <1>t, <3>2, <3>5, <3>6, <3>7, UpdateStep
    <2>9. CASE Commit(w)
      BY <2>9, <1>t, CommitSaleStep DEF Commit, Goto
    <2>10. CASE MarkProcessed(w)
      BY <2>10, <1>t, MarkStep DEF MarkProcessed, Goto
    <2>11. CASE Ack(w)
      <3>1. /\ tx' = [tx EXCEPT ![w] = None] /\ cur' = [cur EXCEPT ![w] = None]
            /\ result' = [result EXCEPT ![w] = None]
            /\ UNCHANGED <<seats, inventory, processed>>
        BY <2>11, <1>q DEF Ack, Return, dbVars
      <3>2. PICK step \in Step \ {"commit", "mark"} : pc' = [pc EXCEPT ![w] = step]
        BY <2>11 DEF Ack, Return, Goto, Step
      <3> QED
        BY <1>t, <3>1, <3>2, QuietStep
    <2>12. CASE Reject(w)
      <3>1. /\ tx' = [tx EXCEPT ![w] = None] /\ cur' = [cur EXCEPT ![w] = None]
            /\ result' = [result EXCEPT ![w] = None]
            /\ UNCHANGED <<seats, inventory, processed>>
        BY <2>12, <1>q DEF Reject, Return, dbVars
      <3>2. PICK step \in Step \ {"commit", "mark"} : pc' = [pc EXCEPT ![w] = step]
        BY <2>12 DEF Reject, Return, Goto, Step
      <3> QED
        BY <1>t, <3>1, <3>2, QuietStep
    <2>13. CASE RetryAck(w)
      <3>1. /\ tx' = [tx EXCEPT ![w] = None] /\ cur' = [cur EXCEPT ![w] = cur[w]]
            /\ result' = [result EXCEPT ![w] = None]
            /\ UNCHANGED <<seats, inventory, processed>>
        BY <2>13, <1>q DEF RetryAck, dbVars
      <3>2. PICK step \in Step \ {"commit", "mark"} : pc' = [pc EXCEPT ![w] = step]
        BY <2>13 DEF RetryAck, Goto, Step
      <3> QED
        BY <1>t, <3>1, <3>2, QuietStep
    <2>14. CASE PublishRetry(w)
      <3>1. /\ tx' = [tx EXCEPT ![w] = None] /\ cur' = [cur EXCEPT ![w] = None]
            /\ result' = [result EXCEPT ![w] = None]
            /\ UNCHANGED <<seats, inventory, processed>>
        BY <2>14, <1>q DEF PublishRetry, Return, dbVars
      <3>2. PICK step \in Step \ {"commit", "mark"} : pc' = [pc EXCEPT ![w] = step]
        BY <2>14 DEF PublishRetry, Return, Goto, Step
      <3> QED
        BY <1>t, <3>1, <3>2, QuietStep
    <2>15. CASE RetriesExhausted(w)
      <3>1. /\ tx' = [tx EXCEPT ![w] = None] /\ cur' = [cur EXCEPT ![w] = None]
            /\ result' = [result EXCEPT ![w] = None]
            /\ UNCHANGED <<seats, inventory, processed>>
        BY <2>15, <1>q DEF RetriesExhausted, Return, dbVars
      <3>2. PICK step \in Step \ {"commit", "mark"} : pc' = [pc EXCEPT ![w] = step]
        BY <2>15 DEF RetriesExhausted, Return, Goto, Step
      <3> QED
        BY <1>t, <3>1, <3>2, QuietStep
    <2> QED
      BY <1>6, <2>1, <2>2, <2>3, <2>4, <2>5, <2>6, <2>7, <2>8, <2>9, <2>10,
         <2>11, <2>12, <2>13, <2>14, <2>15 DEF WorkerStep
  <1> QED
    BY <1>1, <1>2, <1>3, <1>5, <1>6 DEF Next

LEMMA IInvInit == Init => IInv
  <1> SUFFICES ASSUME Init PROVE IInv
    OBVIOUS
  <1>1. TypeInv
    BY InitTypes
  <1>2. TicketHolders = {} /\ TicketInHand = {}
    BY OrdersAssumption
       DEF Init, DbInit, TicketHolders, TicketInHand, Unnumbered, Outcome
  <1>3. Cardinality({}) = 0
    BY FS_EmptySet
  <1>4. TicketsBacked /\ AnswersTruthful
    BY <1>2, <1>3, OrdersAssumption, DatabaseAssumption
       DEF Init, DbInit, TicketsBacked, AnswersTruthful, Numbered, Unnumbered, Outcome
  <1>5. ASSUME NEW w \in Worker
        PROVE  OpenSale(w) /\ HandlesOrder(w) /\ ResultTruthful(w)
    BY <1>1, OrdersAssumption, DatabaseAssumption
       DEF Init, DbInit, OpenSale, ResultTruthful, TypeInv, Outcome
  <1>6. RowsLockedOnce
    BY DEF Init, DbInit, RowsLockedOnce
  <1> QED
    BY <1>1, <1>4, <1>5, <1>6 DEF IInv, SalesInv

\* What the workers hold in their hands agrees with the tables in every state:
\* an open transaction is its worker's own sale and locks its row alone, a
\* result is true before it is recorded, and every ticket that was or will be
\* promised has left the inventory.
THEOREM SalesConsistent == Spec => []SalesInv
  <1>1. IInv => SalesInv
    BY DEF IInv
  <1> QED
    BY <1>1, IInvInit, IInvStep, PTL DEF Spec

\* No fault, redelivery or retry makes a recorded answer false, sells a seat
\* that is somebody else's or promises more tickets than were taken from the
\* inventory or than the event has.
THEOREM AnswersAreTruthful == Spec => []AnswersTruthful
  <1>1. IInv => AnswersTruthful
    BY DEF IInv, SalesInv
  <1> QED
    BY <1>1, IInvInit, IInvStep, PTL DEF Spec

-----------------------------------------------------------------------------
(* Refinement *)

\* A committed sale is a sale of the abstract service, or nothing if its
\* UPDATE had found no row.
LEMMA CommitRefines ==
    ASSUME IInv, NEW w \in Worker, pc[w] = "commit", CommitSale(w, Req(w))
    PROVE  Sales!SalesNext \/ UNCHANGED Sales!salesVars
  <1>1. DbTypeOK /\ OpenSale(w) /\ Req(w) \in Request
    <2>1. cur[w] # None
      BY DEF IInv, TypeInv, HandlesOrder, Handling
    <2> QED
      BY <2>1, MessageInHand DEF IInv, TypeInv, TypeOK, SalesInv
  <1>2. CASE tx[w] = None
    BY <1>1, <1>2, OrdersAssumption, DatabaseAssumption
       DEF CommitSale, DbTypeOK, Sales!salesVars
  <1>3. CASE tx[w] = InventoryRow
    <2>1. Sales!SellTicket
      BY <1>1, <1>3, DatabaseAssumption
         DEF CommitSale, OpenSale, DbTypeOK, Sales!SellTicket
    <2> QED
      BY <2>1 DEF Sales!SalesNext
  <1>4. CASE tx[w] \in Seat
    <2>1. Sales!SellSeat(Req(w))
      BY <1>1, <1>4, DatabaseAssumption
         DEF CommitSale, OpenSale, DbTypeOK, Sales!SellSeat, Sales!SeatOf,
             Sales!Numbered, SeatOf, Numbered
    <2> QED
      BY <1>1, <2>1 DEF Sales!SalesNext
  <1> QED
    BY <1>1, <1>2, <1>3, <1>4 DEF DbTypeOK, Row

\* The first result recorded for a request is a truthful answer; the
\* following ones change nothing.
LEMMA MarkRefines ==
    ASSUME IInv, NEW w \in Worker, pc[w] = "mark",
           mark_processed(Req(w), result[w])
    PROVE  Sales!SalesNext \/ UNCHANGED Sales!salesVars
  <1> DEFINE r == Req(w)
             a == result[w]
  <1>1. /\ DbTypeOK /\ OpenSale(w) /\ ResultTruthful(w) /\ r \in Request
        /\ a \in Outcome /\ r \in Numbered \cup Unnumbered
        /\ SeatOf(r) \in Seat \cup {None}
    <2>1. cur[w] # None /\ result[w] # None
      BY DEF IInv, TypeInv, HandlesOrder, Handling
    <2> QED
      BY <2>1, MessageInHand DEF IInv, TypeInv, TypeOK, SalesInv, HandlesOrder
  <1>2. CASE processed[r] # None
    BY <1>1, <1>2 DEF mark_processed, DbTypeOK, Sales!salesVars
  <1>3. CASE processed[r] = None
    <2>1. r \in Unnumbered /\ a = "sold" => Cardinality(TicketHolders) < inventory
      <3> SUFFICES ASSUME r \in Unnumbered, a = "sold"
                   PROVE  Cardinality(TicketHolders) < inventory
        OBVIOUS
      <3> DEFINE S == TicketHolders \cup TicketInHand
      <3>1. r \in TicketInHand
        BY DEF TicketInHand
      <3>2. r \notin TicketHolders
        BY <1>3, OrdersAssumption DEF TicketHolders, Outcome
      <3>3. S \in SUBSET Request /\ TicketHolders \cup {r} \in SUBSET S
            /\ TicketHolders \in SUBSET S
        BY <3>1 DEF TicketHolders, TicketInHand, Unnumbered
      <3>4. /\ Cardinality(TicketHolders \cup {r}) = Cardinality(TicketHolders) + 1
            /\ Cardinality(TicketHolders) \in Nat
        BY <3>2, <3>3, Counting
      <3>5. /\ Cardinality(TicketHolders \cup {r}) <= Cardinality(S)
            /\ Cardinality(S) \in Nat
        BY <3>3, Counting
      <3>6. Cardinality(S) <= inventory /\ inventory \in Nat
        BY <1>1 DEF IInv, SalesInv, TicketsBacked, DbTypeOK
      <3> QED
        BY <3>4, <3>5, <3>6
    <2>2. /\ Sales!TicketHolders = TicketHolders /\ Sales!Numbered = Numbered
          /\ Sales!Unnumbered = Unnumbered /\ Sales!SeatOf(r) = SeatOf(r)
          /\ Sales!Outcome = Outcome
      BY DEF Sales!TicketHolders, TicketHolders, Sales!Numbered, Numbered,
             Sales!Unnumbered, Unnumbered, Sales!SeatOf, SeatOf, Sales!Outcome, Outcome
    <2>c. Sales!Cardinality(TicketHolders) = Cardinality(TicketHolders)
      BY Zenon DEF Sales!Cardinality, Cardinality
    <2>3. Sales!Truthful(r, a)
      BY <1>1, <2>1, <2>2, <2>c DEF Sales!Truthful, ResultTruthful, Outcome, Numbered, Unnumbered
    <2>4. Sales!RecordAnswer(r, a)
      BY <1>1, <1>3, <2>3 DEF Sales!RecordAnswer, mark_processed, DbTypeOK
    <2> QED
      BY <1>1, <2>2, <2>4 DEF Sales!SalesNext
  <1> QED
    BY <1>2, <1>3

LEMMA StepRefines == IInv /\ [Next]_vars => [Sales!SalesNext]_Sales!salesVars
  <1> SUFFICES ASSUME IInv, [Next]_vars
               PROVE  Sales!SalesNext \/ UNCHANGED Sales!salesVars
    OBVIOUS
  <1> USE DEF Sales!salesVars
  <1>1. CASE UNCHANGED vars
    BY <1>1 DEF vars, dbVars
  <1>2. ASSUME NEW r \in Request, Publish(r)
        PROVE  UNCHANGED Sales!salesVars
    BY <1>2 DEF Publish, dbVars
  <1>3. ASSUME NEW w \in Worker, NEW m \in ready, Receive(w, m)
        PROVE  UNCHANGED Sales!salesVars
    BY <1>3 DEF Receive, dbVars
  <1>4. ASSUME NEW w \in Worker, Fault(w)
        PROVE  Sales!SalesNext \/ UNCHANGED Sales!salesVars
    <2>1. CASE CommitUnconfirmed(w)
      BY <2>1, CommitRefines, MarkRefines DEF CommitUnconfirmed
    <2>2. CASE LinkLost(w) \/ Crash(w) \/ GetConnFails(w) \/ SqlFails(w)
      BY <2>2 DEF LinkLost, Crash, GetConnFails, SqlFails, Die, RollbackSale, dbVars
    <2> QED
      BY <1>4, <2>1, <2>2 DEF Fault
  <1>5. ASSUME NEW w \in Worker, WorkerStep(w)
        PROVE  Sales!SalesNext \/ UNCHANGED Sales!salesVars
    <2>1. CASE Commit(w)
      BY <2>1, CommitRefines DEF Commit
    <2>2. CASE MarkProcessed(w)
      BY <2>2, MarkRefines DEF MarkProcessed
    <2>3. CASE SellNumbered(w) \/ SellUnnumbered(w)
      BY <2>3 DEF SellNumbered, SellUnnumbered, sell_seat, decrement_inventory
    <2>4. CASE \/ Start(w) \/ Connect(w) \/ Reconnect(w)
               \/ \E m \in inbox[w] : Take(w, m)
               \/ CheckIdempotent(w) \/ Pay(w) \/ Ack(w) \/ Reject(w)
               \/ RetryAck(w) \/ PublishRetry(w) \/ RetriesExhausted(w)
      BY <2>4 DEF Start, Connect, Reconnect, Take, CheckIdempotent, Pay, Ack, Reject,
                  RetryAck, PublishRetry, RetriesExhausted, dbVars
    <2> QED
      BY <1>5, <2>1, <2>2, <2>3, <2>4 DEF WorkerStep
  <1> QED
    BY <1>1, <1>2, <1>3, <1>4, <1>5 DEF Next

\* TicketWorker implements the abstract service: whatever fails, seats are
\* sold once, tickets within the capacity, and the first answer recorded for
\* a request is true and stays.
THEOREM WorkersImplementSales == Spec => ImplementsSales
  <1>1. Init => Sales!SalesInit
    BY DEF Init, DbInit, Sales!SalesInit
  <1> QED
    BY <1>1, IInvInit, IInvStep, StepRefines, PTL
       DEF Spec, ImplementsSales, Sales!SalesSpec
=============================================================================
