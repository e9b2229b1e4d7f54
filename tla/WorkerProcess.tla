---------------------------- MODULE WorkerProcess ----------------------------
(***************************************************************************)
(* One worker process seen from its connections: the pool of db.py, the    *)
(* two connections a callback of worker/app/main.py has checked out at a   *)
(* time, what the database server does to them, the loop of main and the   *)
(* flag the signal handler clears.                                         *)
(*                                                                         *)
(* TicketWorker models what the handler writes, this module what it holds. *)
(* The messages themselves are left out: any branch may be taken.          *)
(*                                                                         *)
(*   down, connecting, idle    no process; in the loop of main; consuming  *)
(*   get, check                outer get_conn, check_idempotent            *)
(*   pay                       payment delay                               *)
(*   getSale, sell, commit, putSale    the sale's own connection           *)
(*   getMark, mark, putMark            the connection of mark_processed    *)
(*   ack, reject               the answer to the broker                    *)
(*   failed                    the except handler                          *)
(*   release                   the outer finally                           *)
(***************************************************************************)
EXTENDS Integers, Sequences

CONSTANTS
    MinConn, MaxConn,   \* Config.postgres_min_conn, postgres_max_conn
    MaxOutages,         \* bound: how often the server ends all its sessions
    None

\* dead, deadtx: the server has ended the session, the client does not know.
Conn == {"idle", "intrans", "dead", "deadtx", "closed"}

ASSUME PoolAssumption ==
    /\ MinConn \in Nat \ {0} /\ MaxConn \in Nat /\ MinConn <= MaxConn
    /\ MaxOutages \in Nat
    /\ None \notin Conn

VARIABLES
    pc,
    running,    \* the flag of main.py
    pool,       \* the pool's idle connections, the last one is taken next
    outer,      \* conn of process_message
    inner,      \* conn of process_numbered / _unnumbered, or conn2
    leaked,     \* slots of the pool's _used that nobody will give back
    db,         \* does the server accept connections?
    outages,    \* outages so far
    stale       \* statements that failed on a dead session since the last one

procVars == <<pc, running>>
connVars == <<pool, outer, inner, leaked>>
vars == <<procVars, connVars, db, outages, stale>>

Step == {"down", "connecting", "idle", "get", "check", "pay",
         "getSale", "sell", "commit", "putSale", "getMark", "mark", "putMark",
         "ack", "reject", "failed", "release"}

Init ==
    /\ pc = "down"
    /\ running = FALSE
    /\ pool = <<>>
    /\ outer = None
    /\ inner = None
    /\ leaked = 0
    /\ db = TRUE
    /\ outages = 0
    /\ stale = 0

-----------------------------------------------------------------------------
(* ThreadedConnectionPool: getconn and putconn of psycopg2 *)

InUse == leaked + (IF outer = None THEN 0 ELSE 1) + (IF inner = None THEN 0 ELSE 1)

\* MUTANT of Getconn: idle connections are used only once the pool is full.
GetconnOpensFirst(conn) ==
    \/ /\ InUse + Len(pool) < MaxConn /\ db
       /\ conn = "idle"
       /\ UNCHANGED pool
    \/ /\ InUse + Len(pool) >= MaxConn /\ pool # <<>>
       /\ conn = pool[Len(pool)]
       /\ pool' = SubSeq(pool, 1, Len(pool) - 1)

\* An idle connection as it is, dead or alive; a new one if there is none.
Getconn(conn) ==
    \/ /\ pool # <<>>
       /\ conn = pool[Len(pool)]
       /\ pool' = SubSeq(pool, 1, Len(pool) - 1)
    \/ /\ pool = <<>> /\ InUse < MaxConn /\ db
       /\ conn = "idle"
       /\ UNCHANGED pool

GetconnRaises == pool = <<>> /\ (InUse >= MaxConn \/ ~db)

\* MUTANT of Putconn: the state of the connection is not looked at.
PutconnAsIs(conn) ==
    /\ pool' = IF Len(pool) < MinConn THEN Append(pool, conn) ELSE pool
    /\ UNCHANGED leaked

\* MUTANT of Putconn: it is not called after an exception.
PutconnOnSuccess(conn) ==
    /\ pool' = IF Len(pool) < MinConn /\ conn \in {"idle", "dead"}
               THEN Append(pool, conn) ELSE pool
    /\ leaked' = IF conn \in {"idle", "dead"} THEN leaked ELSE leaked + 1

\* Closed connections are dropped, surplus ones closed, open transactions
\* rolled back.  A rollback that raises leaves the slot in _used for ever.
Putconn(conn) ==
    LET room == Len(pool) < MinConn
    IN  /\ pool' = IF ~room \/ conn \in {"closed", "deadtx"} THEN pool
                   ELSE Append(pool, IF conn = "intrans" THEN "idle" ELSE conn)
        /\ leaked' = IF room /\ conn = "deadtx" THEN leaked + 1 ELSE leaked

-----------------------------------------------------------------------------
(* The life of the process *)

\* The process is gone, and its connections with it.
Die ==
    /\ pc' = "down"
    /\ running' = FALSE
    /\ pool' = <<>> /\ outer' = None /\ inner' = None /\ leaked' = 0
    /\ stale' = 0

\* Database() opens its minimum of connections before anything else.
Start ==
    /\ pc = "down"
    /\ db
    /\ pc' = "connecting"
    /\ running' = TRUE
    /\ pool' = [i \in 1 .. MinConn |-> "idle"]
    /\ UNCHANGED <<outer, inner, leaked, db, outages, stale>>

\* SIGTERM or SIGINT: whatever main is doing, it goes on doing.
signal_handler ==
    /\ running
    /\ running' = FALSE
    /\ UNCHANGED <<pc, connVars, db, outages, stale>>

Goto(step) ==
    /\ pc' = step
    /\ UNCHANGED <<running, connVars, db, outages, stale>>

\* while running: connect and consume (a failed attempt changes nothing) ...
Connect == pc = "connecting" /\ running /\ Goto("idle")

\* ... or close_all and the end of main.
Stop ==
    /\ pc = "connecting" /\ ~running
    /\ Die
    /\ UNCHANGED <<db, outages>>

\* The broker's connection ends; what a callback makes of it see ChannelRaises.
LinkLost == pc = "idle" /\ Goto("connecting")

\* A crash, or the SIGKILL that follows an unheeded SIGTERM.
Killed ==
    /\ pc # "down"
    /\ Die
    /\ UNCHANGED <<db, outages>>

-----------------------------------------------------------------------------
(* The database server *)

Sever(conn) ==
    CASE conn = "idle" -> "dead" [] conn = "intrans" -> "deadtx" [] OTHER -> conn

\* A restart of the server, or pg_terminate_backend for every session of the
\* application (benchmarks/cleanup.py --force), which leaves it up.
Outage ==
    /\ db
    /\ outages < MaxOutages
    /\ outages' = outages + 1
    /\ db' \in BOOLEAN
    /\ pool' = [i \in 1 .. Len(pool) |-> Sever(pool[i])]
    /\ outer' = Sever(outer)
    /\ inner' = Sever(inner)
    /\ stale' = 0
    /\ UNCHANGED <<procVars, leaked>>

Recover ==
    /\ ~db
    /\ db' = TRUE
    /\ UNCHANGED <<procVars, connVars, outages, stale>>

-----------------------------------------------------------------------------
(* process_message *)

\* A delivery; a retry sleeps out its backoff before anything else.
Deliver == pc = "idle" /\ Goto("get")

GetOuter ==
    /\ pc = "get"
    /\ \E conn \in Conn : Getconn(conn) /\ outer' = conn
    /\ pc' = "check"
    /\ UNCHANGED <<running, inner, leaked, db, outages, stale>>

\* Outside the try: the exception leaves main too.
GetOuterRaises ==
    /\ pc = "get"
    /\ GetconnRaises
    /\ Die
    /\ UNCHANGED <<db, outages>>

\* MUTANT of CheckIdempotent: the transaction of the SELECT stays open.
CheckKeepsTransaction ==
    /\ pc = "check"
    /\ outer = "idle"
    /\ outer' = "intrans"
    /\ pc' \in {"ack", "reject", "pay", "getMark"}
    /\ UNCHANGED <<running, pool, inner, leaked, db, outages, stale>>

\* The SELECT and its rollback; then a duplicate, an unknown mode, an order,
\* or an order for a seat that names none.
CheckIdempotent ==
    /\ pc = "check"
    /\ outer = "idle"
    /\ \E step \in {"ack", "reject", "pay", "getMark"} : Goto(step)

Pay == pc = "pay" /\ Goto("getSale")

GetInner ==
    /\ pc \in {"getSale", "getMark"}
    /\ \E conn \in Conn : Getconn(conn) /\ inner' = conn
    /\ pc' = IF pc = "getSale" THEN "sell" ELSE "mark"
    /\ UNCHANGED <<running, outer, leaked, db, outages, stale>>

GetInnerRaises ==
    /\ pc \in {"getSale", "getMark"}
    /\ GetconnRaises
    /\ Goto("failed")

\* The inner connection ends a statement in state conn.
InnerAt(conn, step) ==
    /\ inner' = conn
    /\ pc' = step
    /\ UNCHANGED <<running, pool, outer, leaked, db, outages, stale>>

Sell == pc = "sell" /\ inner = "idle" /\ InnerAt("intrans", "commit")
Commit == pc = "commit" /\ inner = "intrans" /\ InnerAt("idle", "putSale")
MarkProcessed == pc = "mark" /\ inner = "idle" /\ InnerAt("idle", "putMark")

\* The connection a statement or commit would now use, where it fails to.
AfterFailure ==
    CASE pc = "check" -> "failed" [] pc \in {"sell", "commit"} -> "putSale"
      [] pc = "mark" -> "putMark"

\* A statement on a session the server has ended raises; only now does the
\* client mark the connection closed.
StatementOnDead ==
    /\ pc \in {"check", "sell", "commit", "mark"}
    /\ LET conn == IF pc = "check" THEN outer ELSE inner
       IN  conn \in {"dead", "deadtx", "closed"}
    /\ IF pc = "check" THEN outer' = "closed" /\ UNCHANGED inner
                       ELSE inner' = "closed" /\ UNCHANGED outer
    /\ pc' = AfterFailure
    /\ stale' = stale + 1
    /\ UNCHANGED <<running, pool, leaked, db, outages>>

\* A statement raises for a reason of its own; its transaction stays open.
SqlFails ==
    /\ pc \in {"check", "sell", "mark"}
    /\ IF pc = "check" THEN outer = "idle" /\ outer' = "intrans" /\ UNCHANGED inner
                       ELSE inner = "idle" /\ inner' = "intrans" /\ UNCHANGED outer
    /\ pc' = AfterFailure
    /\ UNCHANGED <<running, pool, leaked, db, outages, stale>>

\* The inner finally; after a statement that raised, or if put_conn raises
\* itself, the exception goes on to the handler.
PutInner ==
    /\ pc \in {"putSale", "putMark"}
    /\ Putconn(inner)
    /\ inner' = None
    /\ pc' = CASE inner \notin {"idle", "dead"} -> "failed"
               [] pc = "putSale" -> "getMark"
               [] OTHER -> "ack"
    /\ UNCHANGED <<running, outer, db, outages, stale>>

Settle == pc \in {"ack", "reject"} /\ Goto("release")

\* basic_ack or basic_nack on a broken channel: inside the try, so it counts as
\* a failure of the message.
ChannelRaises == pc \in {"ack", "reject"} /\ Goto("failed")

\* conn.rollback() is for the outer connection alone, and what it raises is
\* ignored; then a retry or a dead letter.
Failed ==
    /\ pc = "failed"
    /\ outer' = CASE outer = "intrans" -> "idle" [] outer = "deadtx" -> "closed"
                  [] OTHER -> outer
    /\ pc' = "release"
    /\ UNCHANGED <<running, pool, inner, leaked, db, outages, stale>>

Release ==
    /\ pc = "release"
    /\ Putconn(outer)
    /\ outer' = None
    /\ pc' = "idle"
    /\ UNCHANGED <<running, inner, db, outages, stale>>

Progress ==
    \/ Start \/ Connect \/ Stop \/ Deliver \/ GetOuter \/ GetOuterRaises
    \/ CheckIdempotent \/ Pay \/ GetInner \/ GetInnerRaises \/ Sell \/ Commit
    \/ MarkProcessed \/ StatementOnDead \/ PutInner \/ Settle \/ Failed \/ Release

Fault == LinkLost \/ Killed \/ Outage \/ SqlFails \/ ChannelRaises

Next == Progress \/ Fault \/ signal_handler \/ Recover

Spec == Init /\ [][Next]_vars

\* The process runs, messages keep coming, ECS restarts it, and a server that
\* is down is brought up again.
FairSpec == Spec /\ WF_vars(Progress) /\ WF_vars(Recover)
-----------------------------------------------------------------------------
(* Properties *)

TypeOK ==
    /\ pc \in Step
    /\ running \in BOOLEAN /\ db \in BOOLEAN
    /\ pool \in Seq({"idle", "dead"}) /\ Len(pool) <= MinConn
    /\ outer \in Conn \cup {None} /\ inner \in Conn \cup {None}
    /\ leaked \in 0 .. MaxConn
    /\ outages \in 0 .. MaxOutages
    /\ stale \in Nat

\* Whatever raised, a callback that is over has given back both connections
\* (an idle worker, or one that close_all is about to stop, holds none), and
\* no transaction is left open: only the sale's update, or a statement that has
\* just failed, has one, and above all not the payment delay.
HandlerLeavesNothing ==
    /\ pc \in {"down", "connecting", "idle", "get"} => outer = None /\ inner = None
    /\ "intrans" \in {outer, inner} \cup {pool[i] : i \in 1 .. Len(pool)} =>
         pc \in {"commit", "putSale", "putMark", "failed"}

\* A worker never has more sessions than its minimum, or the two of a callback:
\* the maximum of ten is never used, with any prefetch.
Sessions ==
    Len(pool) + (IF outer = None THEN 0 ELSE 1) + (IF inner = None THEN 0 ELSE 1)

SessionsBounded == Sessions <= IF MinConn > 2 THEN MinConn ELSE 2

\* A slot of the pool is lost at most once per outage.
LeakBounded == leaked <= outages

\* An outage costs a worker at most one failed message per session it had,
\* though the pool never tests what it hands out.
StaleCost == stale <= IF MinConn > 2 THEN MinConn ELSE 2

Stable == <>[][~Fault /\ ~signal_handler]_vars

\* Once the faults are over the worker handles messages without failing, unless
\* leaks have left the pool no room for a second connection.
Recovers ==
    Stable /\ [](leaked + 2 <= MaxConn) =>
        /\ <>[](pc # "failed")
        /\ []<>(pc \in {"ack", "reject"})
=============================================================================
