------------------------- MODULE WorkerProcessProofs -------------------------
(***************************************************************************)
(* What holds of a worker process for every pool size and every number of  *)
(* outages: a callback gives back what it took, the sessions are bounded   *)
(* by the pool's minimum or the two of a callback, and what an outage can  *)
(* cost is bounded too.                                                    *)
(*                                                                         *)
(* The inductive invariant, ProcessInv, adds to these properties where     *)
(* each connection can be in which state (Hands), that no slot is used     *)
(* twice (Slots), and two accounts: every leak is paid by an outage        *)
(* (LeaksPaid), and the failures since the last outage together with the   *)
(* severed sessions still around never exceed the sessions there can be    *)
(* (StalePaid).                                                            *)
(***************************************************************************)
EXTENDS WorkerProcess, FiniteSetTheorems, SequenceTheorems, TLAPS

-----------------------------------------------------------------------------
(* Counting severed sessions *)

Severed(conn) == IF conn \in {"dead", "deadtx"} THEN 1 ELSE 0

DeadAt(s) == {i \in 1 .. Len(s) : s[i] = "dead"}
DeadIn(s) == Cardinality(DeadAt(s))

Idle == {"idle", "dead"}

LEMMA DeadInBounds ==
    ASSUME NEW s \in Seq(Idle)
    PROVE  IsFiniteSet(DeadAt(s)) /\ DeadIn(s) \in 0 .. Len(s)
  <1>1. Len(s) \in Nat /\ DeadAt(s) \subseteq 1 .. Len(s)
    BY DEF DeadAt
  <1>2. IsFiniteSet(1 .. Len(s)) /\ Cardinality(1 .. Len(s)) = Len(s)
    <2> SUFFICES ASSUME NEW n \in Nat
                 PROVE  IsFiniteSet(1 .. n) /\ Cardinality(1 .. n) = n
      BY <1>1
    <2>1. 1 \in Int /\ n \in Int
      OBVIOUS
    <2>2. /\ IsFiniteSet(1 .. n)
          /\ Cardinality(1 .. n) = IF 1 > n THEN 0 ELSE n - 1 + 1
      BY <2>1, FS_Interval
    <2> QED
      BY <2>2
  <1>3. /\ IsFiniteSet(DeadAt(s))
        /\ Cardinality(DeadAt(s)) <= Len(s)
    BY <1>1, <1>2, FS_Subset
  <1>4. DeadIn(s) \in Nat
    BY <1>3, FS_CardinalityType DEF DeadIn
  <1> QED
    BY <1>1, <1>3, <1>4 DEF DeadIn

LEMMA DeadInAppend ==
    ASSUME NEW s \in Seq(Idle), NEW conn \in Idle
    PROVE  DeadIn(Append(s, conn)) = DeadIn(s) + Severed(conn)
  <1> DEFINE t == Append(s, conn)
             n == Len(s) + 1
  <1>1. /\ Len(s) \in Nat /\ Len(t) = n /\ t[n] = conn
        /\ \A i \in 1 .. Len(s) : t[i] = s[i]
    OBVIOUS
  <1>2. IsFiniteSet(DeadAt(s)) /\ DeadIn(s) \in Nat /\ n \notin DeadAt(s)
    BY <1>1, DeadInBounds DEF DeadAt
  <1> HIDE DEF t
  <1>3. CASE conn = "dead"
    <2>1. DeadAt(t) = DeadAt(s) \cup {n}
      BY <1>1, <1>3 DEF DeadAt
    <2> QED
      BY <1>2, <1>3, <2>1, FS_AddElement DEF DeadIn, Severed, t
  <1>4. CASE conn = "idle"
    <2>1. DeadAt(t) = DeadAt(s)
      BY <1>1, <1>4 DEF DeadAt
    <2> QED
      BY <1>2, <1>4, <2>1 DEF DeadIn, Severed, t
  <1> QED
    BY <1>3, <1>4 DEF Idle

\* Taking the last element away; used on the pool with Front(s) = SubSeq(...).
LEMMA DeadInFront ==
    ASSUME NEW s \in Seq(Idle), s # <<>>,
           NEW front, front = SubSeq(s, 1, Len(s) - 1)
    PROVE  /\ s[Len(s)] \in Idle
           /\ front \in Seq(Idle) /\ Len(front) = Len(s) - 1
           /\ DeadIn(s) = DeadIn(front) + Severed(s[Len(s)])
  <1>1. PICK n \in Nat : Len(s) = n + 1
    <2>1. Len(s) \in Nat \ {0}
      BY EmptySeq
    <2>2. Len(s) - 1 \in Nat /\ Len(s) = (Len(s) - 1) + 1
      BY <2>1
    <2> QED
      BY <2>2
  <1>2. \A i \in 1 .. n + 1 : s[i] \in Idle
    BY <1>1, ElementOfSeq
  <1>3. Len(s) - 1 = n
    BY <1>1
  <1>4. /\ front \in Seq(Idle) /\ Len(front) = n
        /\ \A i \in 1 .. n : front[i] = s[i]
    <2>1. \A i \in 1 .. n : s[i] \in Idle
      BY <1>2
    <2>2. /\ front \in Seq(Idle)
          /\ Len(front) = IF 1 <= n THEN n - 1 + 1 ELSE 0
          /\ \A i \in 1 .. n - 1 + 1 : front[i] = s[1 + i - 1]
      BY <1>3, <2>1, SubSeqProperties
    <2>3. \A i \in 1 .. n : front[i] = s[i]
      <3> SUFFICES ASSUME NEW i \in 1 .. n
                   PROVE  front[i] = s[i]
        OBVIOUS
      <3>1. i \in 1 .. n - 1 + 1 /\ 1 + i - 1 = i
        OBVIOUS
      <3> QED
        BY <2>2, <3>1
    <2> QED
      BY <2>2, <2>3
  <1>5. IsFiniteSet(DeadAt(front)) /\ DeadIn(front) \in Nat
    <2>1. IsFiniteSet(DeadAt(front)) /\ DeadIn(front) \in 0 .. Len(front)
      BY <1>4, DeadInBounds
    <2> QED
      BY <1>4, <2>1
  <1>6. n + 1 \notin DeadAt(front) /\ s[n + 1] \in Idle
    BY <1>2, <1>4 DEF DeadAt
  <1>7. CASE s[n + 1] = "dead"
    <2>1. DeadAt(s) = DeadAt(front) \cup {n + 1}
      BY <1>1, <1>4, <1>7 DEF DeadAt
    <2>2. DeadIn(s) = DeadIn(front) + 1
      BY <1>5, <1>6, <2>1, FS_AddElement DEF DeadIn
    <2> QED
      BY <1>1, <1>3, <1>4, <1>6, <1>7, <2>2 DEF Severed
  <1>8. CASE s[n + 1] = "idle"
    <2>1. DeadAt(s) = DeadAt(front)
      BY <1>1, <1>4, <1>8 DEF DeadAt
    <2> QED
      BY <1>1, <1>3, <1>4, <1>5, <1>6, <1>8, <2>1 DEF DeadIn, Severed
  <1> QED
    BY <1>6, <1>7, <1>8 DEF Idle

LEMMA DeadInNone ==
    ASSUME NEW n \in Nat, NEW s, s = [i \in 1 .. n |-> "idle"]
    PROVE  s \in Seq(Idle) /\ Len(s) = n /\ DeadIn(s) = 0
  <1>1. s \in Seq(Idle) /\ Len(s) = n
    BY DEF Idle
  <1>2. DeadAt(s) = {}
    BY <1>1 DEF DeadAt
  <1> QED
    BY <1>1, <1>2, FS_EmptySet DEF DeadIn

-----------------------------------------------------------------------------
(* The inductive invariant *)

\* Which connections a handler has checked out, and in which state.
Hands ==
    /\ pc \in {"down", "connecting", "idle", "get"} <=> outer = None
    /\ pc \in {"sell", "commit", "putSale", "mark", "putMark"} <=> inner # None
    /\ outer \in {"intrans", "deadtx"} => pc = "failed"
    /\ outer = "closed" => pc \in {"failed", "release"}
    /\ inner \in {"intrans", "deadtx"} => pc \in {"commit", "putSale", "putMark"}
    /\ inner = "closed" => pc \in {"putSale", "putMark"}
    /\ pc = "commit" => inner \in {"intrans", "deadtx"}
    /\ pc = "down" => pool = <<>> /\ leaked = 0 /\ stale = 0

\* The pool never has more slots in use than it may have.
Slots == InUse + Len(pool) <= MaxConn

Taken(conn) == IF conn = None THEN 0 ELSE 1
Owed(conn) == IF conn = "deadtx" THEN 1 ELSE 0

\* A slot that leaks was in a transaction when an outage severed it.
LeaksPaid == leaked + (IF inner = "deadtx" THEN 1 ELSE 0) <= outages

Most == IF MinConn > 2 THEN MinConn ELSE 2

\* Every further failure on a dead session uses up a severed one.
StalePaid == stale + DeadIn(pool) + Severed(outer) + Severed(inner) <= Most

ProcessInv ==
    /\ TypeOK
    /\ Hands
    /\ Slots
    /\ SessionsBounded
    /\ LeaksPaid
    /\ StalePaid

-----------------------------------------------------------------------------
(* The pool *)

\* What getconn hands out comes from the pool or, if that is empty and has a
\* slot left, is new.
LEMMA GetconnTakes ==
    ASSUME TypeOK, NEW conn, Getconn(conn)
    PROVE  /\ conn \in Idle
           /\ pool' \in Seq(Idle) /\ Len(pool') \in Nat
           /\ \/ Len(pool) = Len(pool') + 1
              \/ Len(pool) = 0 /\ Len(pool') = 0 /\ InUse < MaxConn
           /\ DeadIn(pool') + Severed(conn) = DeadIn(pool)
           /\ DeadIn(pool') \in Nat
  <1>1. pool \in Seq(Idle)
    BY DEF TypeOK, Idle
  <1>2. CASE /\ pool # <<>> /\ conn = pool[Len(pool)]
             /\ pool' = SubSeq(pool, 1, Len(pool) - 1)
    <2>1. /\ conn \in Idle /\ pool' \in Seq(Idle) /\ Len(pool') = Len(pool) - 1
          /\ DeadIn(pool) = DeadIn(pool') + Severed(conn)
      BY <1>1, <1>2, DeadInFront
    <2>2. Len(pool) \in Nat /\ Len(pool') \in Nat
      BY <1>1, <2>1, LenProperties
    <2>3. DeadIn(pool') \in 0 .. Len(pool')
      BY <2>1, DeadInBounds
    <2> QED
      BY <2>1, <2>2, <2>3
  <1>3. CASE pool = <<>> /\ InUse < MaxConn /\ conn = "idle" /\ pool' = pool
    <2>1. Len(pool) = 0
      BY <1>3
    <2>2. DeadIn(pool) \in 0 .. Len(pool)
      BY <1>1, DeadInBounds
    <2>3. DeadIn(pool) = 0
      BY <2>1, <2>2
    <2> QED
      BY <1>1, <1>3, <2>1, <2>3 DEF Severed, Idle
  <1> QED
    BY <1>2, <1>3 DEF Getconn

\* What putconn is given goes to the pool, is closed or leaks; it leaks only
\* out of a severed transaction.
LEMMA PutconnGives ==
    ASSUME TypeOK, NEW conn \in Conn, Putconn(conn)
    PROVE  /\ pool' \in Seq(Idle) /\ Len(pool') \in Nat /\ Len(pool') <= MinConn
           /\ \/ Len(pool') = Len(pool) /\ leaked' = leaked
              \/ Len(pool') = Len(pool) + 1 /\ leaked' = leaked
              \/ Len(pool') = Len(pool) /\ leaked' = leaked + 1 /\ conn = "deadtx"
           /\ DeadIn(pool') <= DeadIn(pool) + Severed(conn)
           /\ DeadIn(pool') \in Nat
  <1>1. pool \in Seq(Idle) /\ Len(pool) \in Nat /\ Len(pool) <= MinConn
    BY LenProperties DEF TypeOK, Idle
  <1>2. DeadIn(pool) \in Nat
    <2>1. DeadIn(pool) \in 0 .. Len(pool)
      BY <1>1, DeadInBounds
    <2> QED
      BY <1>1, <2>1
  <1>3. CASE pool' = pool
    BY <1>1, <1>2, <1>3 DEF Putconn, Severed
  <1>4. CASE pool' # pool
    <2> DEFINE back == IF conn = "intrans" THEN "idle" ELSE conn
    <2>1. /\ pool' = Append(pool, back) /\ back \in Idle /\ leaked' = leaked
          /\ Len(pool) < MinConn /\ Severed(back) = Severed(conn)
      BY <1>4 DEF Putconn, Conn, Idle, Severed
    <2> HIDE DEF back
    <2>2. pool' \in Seq(Idle) /\ Len(pool') = Len(pool) + 1
      BY <1>1, <2>1, AppendProperties
    <2>3. DeadIn(pool') = DeadIn(pool) + Severed(back)
      BY <1>1, <2>1, DeadInAppend
    <2>4. Severed(back) \in {0, 1}
      BY DEF Severed
    <2> QED
      BY <1>1, <1>2, <2>1, <2>2, <2>3, <2>4, PoolAssumption
  <1> QED
    BY <1>3, <1>4

\* An outage severs all there is.
LEMMA PoolSevered ==
    ASSUME TypeOK, pool' = [i \in 1 .. Len(pool) |-> Sever(pool[i])]
    PROVE  /\ pool' \in Seq(Idle) /\ Len(pool') = Len(pool)
           /\ DeadIn(pool') \in 0 .. Len(pool)
  <1>1. pool \in Seq(Idle) /\ Len(pool) \in Nat
    BY LenProperties DEF TypeOK, Idle
  <1>2. \A i \in 1 .. Len(pool) : Sever(pool[i]) \in Idle
    BY <1>1, ElementOfSeq DEF Sever, Idle
  <1>3. pool' \in Seq(Idle) /\ Len(pool') = Len(pool)
    BY <1>1, <1>2
  <1> QED
    BY <1>3, DeadInBounds

-----------------------------------------------------------------------------
(* The steps *)

LEMMA Amounts ==
    ASSUME ProcessInv
    PROVE  /\ Len(pool) \in Nat /\ DeadIn(pool) \in Nat /\ Most \in Nat /\ Most >= 2
           /\ leaked \in Nat /\ stale \in Nat /\ outages \in Nat
           /\ Severed(outer) \in 0 .. 1 /\ Severed(inner) \in 0 .. 1
           /\ Taken(outer) \in 0 .. 1 /\ Taken(inner) \in 0 .. 1
           /\ Owed(inner) \in 0 .. 1
           /\ Len(pool) <= MinConn
           /\ InUse = leaked + Taken(outer) + Taken(inner)
           /\ leaked + Taken(outer) + Taken(inner) + Len(pool) <= MaxConn
           /\ Len(pool) + Taken(outer) + Taken(inner) <= Most
           /\ leaked + Owed(inner) <= outages
           /\ stale + DeadIn(pool) + Severed(outer) + Severed(inner) <= Most
  <1>1. pool \in Seq(Idle) /\ Len(pool) \in Nat /\ Len(pool) <= MinConn
    BY LenProperties DEF ProcessInv, TypeOK, Idle
  <1>2. DeadIn(pool) \in 0 .. Len(pool)
    BY <1>1, DeadInBounds
  <1>3. DeadIn(pool) \in Nat
    BY <1>1, <1>2
  <1>4. /\ leaked \in Nat /\ stale \in Nat /\ outages \in Nat
        /\ Most \in Nat /\ Most >= 2
        /\ Severed(outer) \in 0 .. 1 /\ Severed(inner) \in 0 .. 1
        /\ Taken(outer) \in 0 .. 1 /\ Taken(inner) \in 0 .. 1
        /\ Owed(inner) \in 0 .. 1
    BY PoolAssumption DEF ProcessInv, TypeOK, Most, Severed, Taken, Owed
  <1>5. InUse = leaked + Taken(outer) + Taken(inner)
    BY DEF InUse, Taken
  <1>6. leaked + Taken(outer) + Taken(inner) + Len(pool) <= MaxConn
    BY <1>5 DEF ProcessInv, Slots
  <1>7. Len(pool) + Taken(outer) + Taken(inner) <= Most
    BY DEF ProcessInv, SessionsBounded, Sessions, Taken, Most
  <1>8. leaked + Owed(inner) <= outages
    BY DEF ProcessInv, LeaksPaid, Owed
  <1>9. stale + DeadIn(pool) + Severed(outer) + Severed(inner) <= Most
    BY DEF ProcessInv, StalePaid
  <1> QED
    BY <1>1, <1>3, <1>4, <1>5, <1>6, <1>7, <1>8, <1>9

LEMMA AmountsKept ==
    ASSUME TypeOK', Hands',
           leaked' + Taken(outer)' + Taken(inner)' + Len(pool') <= MaxConn,
           Len(pool') + Taken(outer)' + Taken(inner)' <= Most,
           leaked' + Owed(inner)' <= outages',
           stale' + DeadIn(pool)' + Severed(outer)' + Severed(inner)' <= Most
    PROVE  ProcessInv'
  <1>1. Slots'
    BY DEF Slots, InUse, Taken
  <1>2. SessionsBounded'
    BY DEF SessionsBounded, Sessions, Taken, Most
  <1>3. LeaksPaid'
    BY DEF LeaksPaid, Owed
  <1>4. StalePaid'
    BY DEF StalePaid, Most
  <1> QED
    BY <1>1, <1>2, <1>3, <1>4 DEF ProcessInv

\* A step that leaves connections and counts alone, or makes them no worse.
LEMMA QuietStep ==
    ASSUME ProcessInv, TypeOK', Hands', UNCHANGED <<pool, leaked, outages, stale>>,
           (outer' = None) <=> (outer = None), (inner' = None) <=> (inner = None),
           Severed(outer)' <= Severed(outer), Severed(inner)' <= Severed(inner),
           inner' = "deadtx" => inner = "deadtx"
    PROVE  ProcessInv'
  <1>1. Slots' /\ SessionsBounded'
    BY DEF ProcessInv, Slots, InUse, SessionsBounded, Sessions
  <1>2. LeaksPaid'
    BY Amounts DEF ProcessInv, LeaksPaid
  <1>3. StalePaid'
    <2>1. /\ DeadIn(pool)' = DeadIn(pool) /\ Severed(outer)' \in {0, 1}
          /\ Severed(inner)' \in {0, 1} /\ Most' = Most
      BY DEF DeadIn, DeadAt, Severed, Most
    <2> QED
      BY <2>1, Amounts DEF ProcessInv, StalePaid
  <1> QED
    BY <1>1, <1>2, <1>3 DEF ProcessInv

LEMMA DieStep ==
    ASSUME ProcessInv, Die, UNCHANGED outages, db' \in BOOLEAN
    PROVE  ProcessInv'
  <1>1. TypeOK' /\ Hands'
    <2>1. pool' \in Seq({"idle", "dead"}) /\ Len(pool') = 0
      BY EmptySeq DEF Die
    <2>2. /\ pc' = "down" /\ running' = FALSE /\ outer' = None /\ inner' = None
          /\ leaked' = 0 /\ stale' = 0
      BY DEF Die
    <2>3. TypeOK'
      <3>1. pc' \in Step /\ running' \in BOOLEAN
        BY <2>2 DEF Step
      <3>2. Len(pool') <= MinConn
        BY <2>1, PoolAssumption
      <3>3. outer' \in Conn \cup {None} /\ inner' \in Conn \cup {None}
        BY <2>2
      <3>4. leaked' \in 0 .. MaxConn /\ outages' \in 0 .. MaxOutages /\ stale' \in Nat
        BY <2>2, PoolAssumption DEF ProcessInv, TypeOK
      <3> QED
        BY <2>1, <3>1, <3>2, <3>3, <3>4 DEF TypeOK
    <2>4. Hands'
      BY PoolAssumption DEF Hands, Die, Conn
    <2> QED
      BY <2>3, <2>4
  <1>2. Slots' /\ SessionsBounded' /\ LeaksPaid'
    BY PoolAssumption DEF ProcessInv, TypeOK, Die, Slots, InUse, SessionsBounded, Sessions,
                          LeaksPaid, Conn
  <1>3. StalePaid'
    <2>1. DeadIn(pool)' = 0
      <3>1. DeadIn(pool)' \in 0 .. Len(pool')
        BY <1>1, DeadInBounds DEF TypeOK, Idle, DeadIn, DeadAt
      <3> QED
        BY <3>1 DEF Die
    <2> QED
      BY <2>1, PoolAssumption DEF Die, StalePaid, Severed, Most, Conn
  <1> QED
    BY <1>1, <1>2, <1>3 DEF ProcessInv

LEMMA StartStep ==
    ASSUME ProcessInv, Start
    PROVE  ProcessInv'
  <1>1. outer = None /\ inner = None /\ leaked = 0 /\ stale = 0 /\ pc = "down"
    BY DEF ProcessInv, Hands, Start
  <1>2. pool' \in Seq(Idle) /\ Len(pool') = MinConn /\ DeadIn(pool') = 0
    BY DeadInNone, PoolAssumption DEF Start
  <1>3. TypeOK' /\ Hands'
    BY <1>1, <1>2, PoolAssumption DEF ProcessInv, TypeOK, Hands, Start, Step, Idle, Conn
  <1>4. Slots' /\ SessionsBounded' /\ LeaksPaid'
    BY <1>1, <1>2, PoolAssumption DEF ProcessInv, TypeOK, Start, Slots, InUse,
       SessionsBounded, Sessions, LeaksPaid, Conn
  <1>5. StalePaid'
    BY <1>1, <1>2, PoolAssumption DEF Start, StalePaid, DeadIn, DeadAt, Severed, Most, Conn
  <1> QED
    BY <1>3, <1>4, <1>5 DEF ProcessInv

LEMMA OutageStep ==
    ASSUME ProcessInv, Outage
    PROVE  ProcessInv'
  <1>1. /\ pool' \in Seq(Idle) /\ Len(pool') = Len(pool)
        /\ DeadIn(pool') \in 0 .. Len(pool)
    BY PoolSevered DEF ProcessInv, Outage
  <1>2. \A conn \in Conn \cup {None} :
          /\ Sever(conn) \in Conn \cup {None}
          /\ Sever(conn) = None <=> conn = None
          /\ Sever(conn) = "closed" <=> conn = "closed"
          /\ Sever(conn) \in {"intrans", "deadtx"} <=> conn \in {"intrans", "deadtx"}
    BY PoolAssumption DEF Sever, Conn
  <1>3. TypeOK' /\ Hands'
    <2>1. outer \in Conn \cup {None} /\ inner \in Conn \cup {None}
      BY DEF ProcessInv, TypeOK
    <2>2. TypeOK'
      BY <1>1, <1>2, <2>1, PoolAssumption DEF ProcessInv, TypeOK, Outage, procVars, Idle
    <2>3. pool = <<>> => pool' = <<>>
      BY <1>1, EmptySeq
    <2>4. Hands'
      BY <1>2, <2>1, <2>3 DEF ProcessInv, Hands, Outage, procVars
    <2> QED
      BY <2>2, <2>4
  <1>4. outer' = None <=> outer = None
    BY <1>2 DEF ProcessInv, TypeOK, Outage
  <1>5. inner' = None <=> inner = None
    BY <1>2 DEF ProcessInv, TypeOK, Outage
  <1>6. Slots' /\ SessionsBounded'
    BY <1>1, <1>4, <1>5 DEF ProcessInv, Outage, Slots, InUse, SessionsBounded, Sessions
  <1>7. LeaksPaid'
    BY Amounts DEF ProcessInv, Outage, LeaksPaid
  <1>8. StalePaid'
    <2> DEFINE o == IF outer' = None THEN 0 ELSE 1
               i == IF inner' = None THEN 0 ELSE 1
    <2>1. /\ Severed(outer)' <= o /\ Severed(inner)' <= i
          /\ o \in {0, 1} /\ i \in {0, 1}
          /\ Severed(outer)' \in {0, 1} /\ Severed(inner)' \in {0, 1}
      BY PoolAssumption DEF Severed, Conn
    <2>2. DeadIn(pool)' <= Len(pool') /\ DeadIn(pool)' \in Nat /\ Len(pool') \in Nat
      BY <1>1, Amounts DEF DeadIn, DeadAt
    <2>3. Len(pool') + o + i <= Most
      BY <1>6 DEF SessionsBounded, Sessions, Most
    <2> HIDE DEF o, i
    <2>4. DeadIn(pool)' + Severed(outer)' + Severed(inner)' <= Most
      BY <2>1, <2>2, <2>3, Amounts
    <2>5. stale' = 0 /\ Most' = Most
      BY DEF Outage, Most
    <2> QED
      BY <2>1, <2>2, <2>4, <2>5 DEF StalePaid
  <1> QED
    BY <1>3, <1>6, <1>7, <1>8 DEF ProcessInv

\* A connection more in the handler's hands; it can be the second one.
LEMMA GetStep ==
    ASSUME ProcessInv, GetOuter \/ GetInner
    PROVE  ProcessInv'
  <1>1. PICK conn \in Conn :
          /\ Getconn(conn)
          /\ \/ /\ pc = "get" /\ pc' = "check" /\ outer = None
                /\ outer' = conn /\ inner' = inner /\ inner = None
             \/ /\ pc \in {"getSale", "getMark"} /\ pc' \in {"sell", "mark"}
                /\ inner = None /\ inner' = conn /\ outer' = outer
          /\ UNCHANGED <<running, leaked, db, outages, stale>>
    BY DEF GetOuter, GetInner, ProcessInv, Hands
  <1>2. /\ conn \in Idle /\ conn # None
        /\ pool' \in Seq(Idle) /\ Len(pool') \in Nat
        /\ \/ Len(pool) = Len(pool') + 1
           \/ Len(pool) = 0 /\ Len(pool') = 0 /\ InUse < MaxConn
        /\ DeadIn(pool') + Severed(conn) = DeadIn(pool)
        /\ DeadIn(pool') \in Nat
    BY <1>1, GetconnTakes, PoolAssumption DEF ProcessInv, Idle, Conn
  <1>3. TypeOK' /\ Hands'
    <2>1. Len(pool') <= MinConn
      BY <1>2, Amounts, PoolAssumption
    <2>2. TypeOK'
      BY <1>1, <1>2, <2>1 DEF ProcessInv, TypeOK, Idle, Step
    <2>3. Hands'
      BY <1>1, <1>2 DEF ProcessInv, Hands, Idle
    <2> QED
      BY <2>2, <2>3
  <1>4. /\ Taken(outer)' + Taken(inner)' = Taken(outer) + Taken(inner) + 1
        /\ Taken(outer)' \in 0 .. 1 /\ Taken(inner)' \in 0 .. 1
    BY <1>1, <1>2 DEF Taken
  <1>5. /\ Severed(outer)' + Severed(inner)' = Severed(outer) + Severed(inner) + Severed(conn)
        /\ Severed(outer)' \in 0 .. 1 /\ Severed(inner)' \in 0 .. 1
        /\ Severed(conn) \in 0 .. 1
    BY <1>1, PoolAssumption DEF Severed, Conn
  <1>6. Owed(inner)' = Owed(inner)
    BY <1>1, <1>2, PoolAssumption DEF Owed, Idle, Conn
  <1>7. DeadIn(pool)' + Severed(conn) = DeadIn(pool) /\ DeadIn(pool)' \in Nat
    BY <1>2 DEF DeadIn, DeadAt
  <1>8. leaked' = leaked /\ stale' = stale /\ outages' = outages
    BY <1>1
  <1>9. /\ leaked' + Taken(outer)' + Taken(inner)' + Len(pool') <= MaxConn
        /\ Len(pool') + Taken(outer)' + Taken(inner)' <= Most
    <2>1. /\ Taken(outer) \in 0 .. 1 /\ Taken(inner) \in 0 .. 1 /\ leaked \in Nat
          /\ InUse = leaked + Taken(outer) + Taken(inner)
          /\ leaked + Taken(outer) + Taken(inner) + Len(pool) <= MaxConn
          /\ Len(pool) + Taken(outer) + Taken(inner) <= Most
          /\ Most \in Nat /\ Most >= 2 /\ MaxConn \in Nat /\ Len(pool') \in Nat
      BY <1>2, Amounts, PoolAssumption
    <2>2. CASE Len(pool) = Len(pool') + 1
      BY <1>4, <1>8, <2>1, <2>2
    <2>3. CASE Len(pool) = 0 /\ Len(pool') = 0 /\ InUse < MaxConn
      BY <1>4, <1>8, <2>1, <2>3
    <2> QED
      BY <1>2, <2>2, <2>3
  <1>10. leaked' + Owed(inner)' <= outages'
    BY <1>6, <1>8, Amounts
  <1>11. stale' + DeadIn(pool)' + Severed(outer)' + Severed(inner)' <= Most
    <2>1. /\ stale + DeadIn(pool) + Severed(outer) + Severed(inner) <= Most
          /\ stale \in Nat /\ DeadIn(pool) \in Nat /\ Most \in Nat
          /\ Severed(outer) \in 0 .. 1 /\ Severed(inner) \in 0 .. 1
      BY Amounts
    <2> QED
      BY <1>5, <1>7, <1>8, <2>1
  <1> QED
    BY <1>3, <1>9, <1>10, <1>11, AmountsKept

\* A connection less; a severed transaction of a sale may leak its slot.
LEMMA PutStep ==
    ASSUME ProcessInv, PutInner \/ Release
    PROVE  ProcessInv'
  <1>1. PICK conn \in Conn :
          /\ Putconn(conn)
          /\ \/ /\ pc \in {"putSale", "putMark"} /\ pc' \in {"failed", "getMark", "ack"}
                /\ conn = inner /\ inner' = None /\ outer' = outer
             \/ /\ pc = "release" /\ pc' = "idle" /\ conn # "deadtx"
                /\ conn = outer /\ outer' = None /\ inner = None /\ inner' = None
          /\ UNCHANGED <<running, db, outages, stale>>
    BY DEF PutInner, Release, ProcessInv, TypeOK, Hands
  <1>2. /\ pool' \in Seq(Idle) /\ Len(pool') \in Nat /\ Len(pool') <= MinConn
        /\ \/ Len(pool') = Len(pool) /\ leaked' = leaked
           \/ Len(pool') = Len(pool) + 1 /\ leaked' = leaked
           \/ Len(pool') = Len(pool) /\ leaked' = leaked + 1 /\ conn = "deadtx"
        /\ DeadIn(pool') <= DeadIn(pool) + Severed(conn)
        /\ DeadIn(pool') \in Nat
    BY <1>1, PutconnGives DEF ProcessInv
  <1>3. /\ conn # None
        /\ Taken(outer)' + Taken(inner)' + 1 = Taken(outer) + Taken(inner)
        /\ Taken(outer)' \in 0 .. 1 /\ Taken(inner)' \in 0 .. 1
    BY <1>1, PoolAssumption DEF Taken
  <1>4. /\ Severed(outer)' + Severed(inner)' + Severed(conn) = Severed(outer) + Severed(inner)
        /\ Severed(outer)' \in 0 .. 1 /\ Severed(inner)' \in 0 .. 1
        /\ Severed(conn) \in 0 .. 1
    BY <1>1, PoolAssumption DEF Severed, Conn
  <1>5. Owed(inner)' \in Nat /\ Owed(inner)' <= 0
    BY <1>1, PoolAssumption DEF Owed, Conn
  <1>6. DeadIn(pool)' <= DeadIn(pool) + Severed(conn) /\ DeadIn(pool)' \in Nat
    BY <1>2 DEF DeadIn, DeadAt
  <1>7. leaked' <= leaked + Owed(inner) /\ leaked' \in Nat
    BY <1>1, <1>2, Amounts, PoolAssumption DEF Owed, Conn
  <1>8. stale' = stale /\ outages' = outages
    BY <1>1
  <1>9. /\ leaked' + Taken(outer)' + Taken(inner)' + Len(pool') <= MaxConn
        /\ Len(pool') + Taken(outer)' + Taken(inner)' <= Most
    <2>1. /\ Taken(outer) \in 0 .. 1 /\ Taken(inner) \in 0 .. 1 /\ leaked \in Nat
          /\ leaked + Taken(outer) + Taken(inner) + Len(pool) <= MaxConn
          /\ Len(pool) + Taken(outer) + Taken(inner) <= Most
          /\ Most \in Nat /\ MaxConn \in Nat /\ Len(pool) \in Nat /\ Len(pool') \in Nat
      BY <1>2, Amounts, PoolAssumption
    <2>2. \/ Len(pool') = Len(pool) /\ leaked' = leaked
          \/ Len(pool') = Len(pool) + 1 /\ leaked' = leaked
          \/ Len(pool') = Len(pool) /\ leaked' = leaked + 1
      BY <1>2
    <2> QED
      BY <1>3, <2>1, <2>2
  <1>10. leaked' + Owed(inner)' <= outages'
    <2>1. /\ leaked + Owed(inner) <= outages
          /\ leaked \in Nat /\ Owed(inner) \in 0 .. 1 /\ outages \in Nat
      BY Amounts
    <2> QED
      BY <1>5, <1>7, <1>8, <2>1
  <1>11. stale' + DeadIn(pool)' + Severed(outer)' + Severed(inner)' <= Most
    <2>1. /\ stale + DeadIn(pool) + Severed(outer) + Severed(inner) <= Most
          /\ stale \in Nat /\ DeadIn(pool) \in Nat /\ Most \in Nat
          /\ Severed(outer) \in 0 .. 1 /\ Severed(inner) \in 0 .. 1
      BY Amounts
    <2> QED
      BY <1>4, <1>6, <1>8, <2>1
  <1>12. TypeOK' /\ Hands'
    <2>1. leaked' \in 0 .. MaxConn
      BY <1>2, <1>3, <1>7, <1>9, PoolAssumption
    <2>2. TypeOK'
      BY <1>1, <1>2, <2>1 DEF ProcessInv, TypeOK, Idle, Step
    <2>3. Hands'
      BY <1>1, <1>3, PoolAssumption DEF ProcessInv, Hands, Conn
    <2> QED
      BY <2>2, <2>3
  <1> QED
    BY <1>9, <1>10, <1>11, <1>12, AmountsKept

\* A failure on a dead session: the session is closed and no longer severed.
LEMMA StaleStep ==
    ASSUME ProcessInv, StatementOnDead
    PROVE  ProcessInv'
  <1>1. PICK conn \in {"dead", "deadtx"} :
          /\ \/ /\ pc = "check" /\ pc' = "failed" /\ outer = conn /\ outer' = "closed"
                /\ inner' = inner
             \/ /\ pc \in {"sell", "commit", "mark"} /\ pc' \in {"putSale", "putMark"}
                /\ inner = conn /\ inner' = "closed" /\ outer' = outer
          /\ stale' = stale + 1
          /\ UNCHANGED <<running, pool, leaked, db, outages>>
    BY DEF StatementOnDead, AfterFailure, ProcessInv, Hands
  <1>2. TypeOK' /\ Hands'
    <2>1. TypeOK'
      BY <1>1 DEF ProcessInv, TypeOK, Step, Conn
    <2>2. Hands'
      BY <1>1, PoolAssumption DEF ProcessInv, Hands, Conn
    <2> QED
      BY <2>1, <2>2
  <1>3. Taken(outer)' = Taken(outer) /\ Taken(inner)' = Taken(inner)
    BY <1>1, PoolAssumption DEF Taken, Conn
  <1>4. Owed(inner)' <= Owed(inner) /\ Owed(inner)' \in 0 .. 1
    BY <1>1 DEF Owed
  <1>5. /\ Severed(outer)' + Severed(inner)' + 1 = Severed(outer) + Severed(inner)
        /\ Severed(outer)' \in 0 .. 1 /\ Severed(inner)' \in 0 .. 1
    BY <1>1 DEF Severed
  <1>6. DeadIn(pool)' = DeadIn(pool) /\ Len(pool') = Len(pool)
    BY <1>1 DEF DeadIn, DeadAt
  <1>7. leaked' = leaked /\ stale' = stale + 1 /\ outages' = outages
    BY <1>1
  <1>8. /\ leaked' + Taken(outer)' + Taken(inner)' + Len(pool') <= MaxConn
        /\ Len(pool') + Taken(outer)' + Taken(inner)' <= Most
    BY <1>3, <1>6, <1>7, Amounts
  <1>9. /\ leaked' + Owed(inner)' <= outages'
        /\ stale' + DeadIn(pool)' + Severed(outer)' + Severed(inner)' <= Most
    BY <1>4, <1>5, <1>6, <1>7, Amounts
  <1> QED
    BY <1>2, <1>8, <1>9, AmountsKept

\* Every step of the process, of the server and of the signal handler.
LEMMA ProcessStep == ProcessInv /\ [Next]_vars => ProcessInv'
  <1> SUFFICES ASSUME ProcessInv, [Next]_vars
               PROVE  ProcessInv'
    OBVIOUS
  <1> USE DEF ProcessInv
  <1>1. CASE \/ signal_handler \/ Connect \/ LinkLost \/ Deliver \/ CheckIdempotent
             \/ Pay \/ GetInnerRaises \/ Settle \/ ChannelRaises \/ Recover
             \/ UNCHANGED vars
    <2>1. UNCHANGED <<connVars, outages, stale>>
      BY <1>1 DEF signal_handler, Connect, LinkLost, Deliver, CheckIdempotent, Pay,
         GetInnerRaises, Settle, ChannelRaises, Recover, Goto, connVars, vars
    <2>2. pc' \in Step /\ running' \in BOOLEAN /\ db' \in BOOLEAN
      BY <1>1 DEF TypeOK, Step, signal_handler, Connect, LinkLost, Deliver,
         CheckIdempotent, Pay, GetInnerRaises, Settle, ChannelRaises, Recover, Goto,
         procVars, vars
    <2>3. TypeOK'
      BY <2>1, <2>2 DEF TypeOK, connVars
    <2>4. Hands'
      BY <1>1 DEF Hands, TypeOK, Conn, signal_handler, Connect, LinkLost, Deliver,
         CheckIdempotent, Pay, GetInnerRaises, Settle, ChannelRaises, Recover, Goto,
         connVars, procVars, vars
    <2> QED
      BY <2>1, <2>3, <2>4, QuietStep, Amounts DEF connVars
  <1>2. CASE Sell \/ Commit \/ MarkProcessed \/ SqlFails \/ Failed
    <2>1. UNCHANGED <<running, pool, leaked, db, outages, stale>>
      BY <1>2 DEF Sell, Commit, MarkProcessed, SqlFails, Failed, InnerAt
    <2>2. /\ pc' \in Step /\ pc' \notin {"down", "connecting", "idle", "get"}
          /\ outer' \in Conn \cup {None} /\ inner' \in Conn \cup {None}
          /\ outer' = None <=> outer = None
          /\ inner' = None <=> inner = None
          /\ inner' = "deadtx" => inner = "deadtx"
          /\ outer' = outer \/ outer' \in {"idle", "intrans", "closed"}
          /\ inner' = inner \/ inner' \in {"idle", "intrans"}
      BY <1>2, PoolAssumption DEF TypeOK, Step, Conn, Sell, Commit, MarkProcessed,
         SqlFails, Failed, InnerAt, AfterFailure
    <2>3. TypeOK'
      BY <2>1, <2>2 DEF TypeOK
    <2>4. Hands'
      BY <1>2, PoolAssumption DEF Hands, TypeOK, Conn, Sell, Commit, MarkProcessed,
         SqlFails, Failed, InnerAt, AfterFailure
    <2>5. Severed(outer)' <= Severed(outer) /\ Severed(inner)' <= Severed(inner)
      BY <2>2 DEF Severed
    <2> QED
      BY <2>1, <2>2, <2>3, <2>4, <2>5, QuietStep
  <1>3. CASE Stop \/ Killed \/ GetOuterRaises
    BY <1>3, DieStep DEF Stop, Killed, GetOuterRaises, TypeOK
  <1>4. CASE Start
    BY <1>4, StartStep
  <1>5. CASE Outage
    BY <1>5, OutageStep
  <1>6. CASE GetOuter \/ GetInner
    BY <1>6, GetStep
  <1>7. CASE PutInner \/ Release
    BY <1>7, PutStep
  <1>8. CASE StatementOnDead
    BY <1>8, StaleStep
  <1> QED
    BY <1>1, <1>2, <1>3, <1>4, <1>5, <1>6, <1>7, <1>8 DEF Next, Progress, Fault

LEMMA ProcessInit == Init => ProcessInv
  <1> SUFFICES ASSUME Init
               PROVE  ProcessInv
    OBVIOUS
  <1>1. pool \in Seq(Idle) /\ Len(pool) = 0
    BY EmptySeq DEF Init
  <1>2. DeadIn(pool) = 0
    <2>1. DeadIn(pool) \in 0 .. Len(pool)
      BY <1>1, DeadInBounds
    <2> QED
      BY <1>1, <2>1
  <1>3. TypeOK
    <2>1. Len(pool) <= MinConn /\ leaked \in 0 .. MaxConn /\ outages \in 0 .. MaxOutages
      BY <1>1, PoolAssumption DEF Init
    <2>2. stale \in Nat /\ pc \in Step /\ running \in BOOLEAN /\ db \in BOOLEAN
      BY DEF Init, Step
    <2> QED
      BY <1>1, <2>1, <2>2 DEF Init, TypeOK, Idle
  <1>4. Hands
    BY PoolAssumption DEF Init, Hands, Conn
  <1>5. InUse = 0 /\ Sessions = 0
    BY <1>1 DEF Init, InUse, Sessions
  <1>6. Slots /\ SessionsBounded /\ LeaksPaid
    BY <1>1, <1>5, PoolAssumption DEF Init, Slots, SessionsBounded, LeaksPaid, Conn
  <1>7. StalePaid
    BY <1>2, PoolAssumption DEF Init, StalePaid, Severed, Most, Conn
  <1> QED
    BY <1>3, <1>4, <1>6, <1>7 DEF ProcessInv

LEMMA ProcessInvariant == Spec => []ProcessInv
  BY ProcessInit, ProcessStep, PTL DEF Spec

-----------------------------------------------------------------------------
(* What follows *)

\* The variables of WorkerProcess keep to their types: above all, what the pool
\* keeps for the next caller is never in a transaction and never known to be
\* closed, and the pool's slots are not overdrawn.
THEOREM ProcessTypes == Spec => []TypeOK
  <1>1. ProcessInv => TypeOK
    BY DEF ProcessInv
  <1> QED
    BY <1>1, ProcessInvariant, PTL

\* Whatever raised in a callback and wherever an outage hit it, a callback that
\* is over holds no connection, and only the sale's update, or a statement that
\* has just failed, leaves a transaction open: the finally clauses of main.py
\* and the rollback of check_idempotent are enough.
THEOREM CallbackLeavesNothing == Spec => []HandlerLeavesNothing
  <1>1. ProcessInv => HandlerLeavesNothing
    <2> SUFFICES ASSUME ProcessInv
                 PROVE  HandlerLeavesNothing
      OBVIOUS
    <2>1. \A i \in 1 .. Len(pool) : pool[i] # "intrans"
      BY ElementOfSeq, LenProperties DEF ProcessInv, TypeOK
    <2> QED
      BY <2>1, PoolAssumption DEF ProcessInv, Hands, HandlerLeavesNothing, Conn
  <1> QED
    BY <1>1, ProcessInvariant, PTL

\* A worker's sessions with the server, those in the pool and those checked
\* out, number at most postgres_min_conn, or two if that is less: getconn
\* reuses before it opens, and a callback never holds more than two.
THEOREM SessionsAreBounded == Spec => []SessionsBounded
  <1>1. ProcessInv => SessionsBounded
    BY DEF ProcessInv
  <1> QED
    BY <1>1, ProcessInvariant, PTL

\* putconn loses at most one of the pool's slots for each outage: only the
\* transaction of a sale can be severed, and there is one at a time.
THEOREM LeaksAreBounded == Spec => []LeakBounded
  <1>1. ProcessInv => LeakBounded
    BY Amounts DEF LeakBounded
  <1> QED
    BY <1>1, ProcessInvariant, PTL

\* An outage makes at most as many statements fail as there can be sessions:
\* the client drops a session it has seen fail.
THEOREM OutagesAreBounded == Spec => []StaleCost
  <1>1. ProcessInv => StaleCost
    BY Amounts DEF StaleCost, Most
  <1> QED
    BY <1>1, ProcessInvariant, PTL
=============================================================================
