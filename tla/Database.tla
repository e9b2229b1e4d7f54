------------------------------ MODULE Database ------------------------------
(***************************************************************************)
(* The PostgreSQL tables of the service (infra/modules/postgres/           *)
(* user_data.sh) and the statements the workers run on them                *)
(* (worker/app/db.py).                                                     *)
(*                                                                         *)
(* sell_seat and decrement_inventory leave an open transaction that holds  *)
(* the lock of the row it updated until commit or rollback; a second       *)
(* UPDATE of that row waits and then sees the committed row (READ          *)
(* COMMITTED).  mark_processed commits what it inserts before it returns.  *)
(***************************************************************************)
EXTENDS Orders

CONSTANTS
    Capacity,           \* inventory.capacity of the unnumbered event
    InventoryRow        \* names the one row of table inventory

ASSUME DatabaseAssumption ==
    /\ Capacity \in Nat
    /\ InventoryRow \notin Seat
    /\ None # InventoryRow

VARIABLES
    seats,              \* seats[s]: seats.request_id, None while 'available'
    inventory,          \* inventory.sold
    processed,          \* processed[r]: processed.result, None without a row
    results,            \* results[r]: results.outcome, None without a row
    tx                  \* tx[w]: the row w has updated and not committed

dbVars == <<seats, inventory, processed, results, tx>>

Row == Seat \cup {InventoryRow}

DbTypeOK ==
    /\ seats \in [Seat -> Request \cup {None}]
    /\ inventory \in Nat
    /\ processed \in [Request -> Outcome \cup {None}]
    /\ results \in [Request -> Outcome \cup {None}]
    /\ tx \in [Worker -> Row \cup {None}]

DbInit ==
    /\ seats = [s \in Seat |-> None]
    /\ inventory = 0
    /\ processed = [r \in Request |-> None]
    /\ results = [r \in Request |-> None]
    /\ tx = [w \in Worker |-> None]

Locked(row) == \E w \in Worker : tx[w] = row

\* MUTANT of check_idempotent: the lookup is skipped.
check_idempotent_skipped(r) == None

\* SELECT result FROM processed; None if the request has no result yet.
check_idempotent(r) == processed[r]

\* MUTANT of sell_seat: without AND status = 'available'.
sell_seat_unconditional(w, s, rows) ==
    /\ ~Locked(s)
    /\ rows = 1
    /\ tx' = [tx EXCEPT ![w] = s]
    /\ UNCHANGED <<seats, inventory, processed, results>>

\* UPDATE seats ... WHERE status = 'available'; rows is cur.rowcount.
sell_seat(w, s, rows) ==
    /\ ~Locked(s)
    /\ rows = IF seats[s] = None THEN 1 ELSE 0
    /\ tx' = [tx EXCEPT ![w] = IF rows = 1 THEN s ELSE None]
    /\ UNCHANGED <<seats, inventory, processed, results>>

\* MUTANT of decrement_inventory: the guard reads sold <= capacity.
decrement_inventory_off_by_one(w, rows) ==
    /\ ~Locked(InventoryRow)
    /\ rows = IF inventory <= Capacity THEN 1 ELSE 0
    /\ tx' = [tx EXCEPT ![w] = IF rows = 1 THEN InventoryRow ELSE None]
    /\ UNCHANGED <<seats, inventory, processed, results>>

\* UPDATE inventory ... WHERE sold < capacity; rows is cur.rowcount.
decrement_inventory(w, rows) ==
    /\ ~Locked(InventoryRow)
    /\ rows = IF inventory < Capacity THEN 1 ELSE 0
    /\ tx' = [tx EXCEPT ![w] = IF rows = 1 THEN InventoryRow ELSE None]
    /\ UNCHANGED <<seats, inventory, processed, results>>

\* COMMIT of w's sale transaction, made on behalf of request r.
CommitSale(w, r) ==
    /\ seats' = [s \in Seat |-> IF tx[w] = s THEN r ELSE seats[s]]
    /\ inventory' = IF tx[w] = InventoryRow THEN inventory + 1 ELSE inventory
    /\ tx' = [tx EXCEPT ![w] = None]
    /\ UNCHANGED <<processed, results>>

\* Rollback by the client, or by the server once the client is gone.
RollbackSale(w) ==
    /\ tx' = [tx EXCEPT ![w] = None]
    /\ UNCHANGED <<seats, inventory, processed, results>>

\* Both INSERTs with ON CONFLICT DO NOTHING, and their COMMIT.
mark_processed(r, outcome) ==
    /\ processed' = [processed EXCEPT ![r] = IF @ = None THEN outcome ELSE @]
    /\ results' = [results EXCEPT ![r] =
                     IF @ = None /\ Order[r].timed THEN outcome ELSE @]
    /\ UNCHANGED <<seats, inventory, tx>>
=============================================================================
