----------------------------- MODULE TicketSales -----------------------------
(***************************************************************************)
(* What the ticket service promises, without queue, workers or failures:   *)
(* a seat is sold to one request and stays sold, no more tickets than the  *)
(* capacity leave the inventory, and the one answer a request ever gets is *)
(* true at the moment it is recorded.                                      *)
(*                                                                         *)
(* TicketWorker implements this specification whatever crashes, lost       *)
(* connections and database errors occur.  What it does NOT promise is     *)
(* that an answer is the answer of the sale the request itself caused: a   *)
(* request may own a seat and be answered "rejected".                      *)
(***************************************************************************)
EXTENDS Orders

CONSTANT Capacity       \* inventory.capacity of the unnumbered event

VARIABLES
    seats,              \* seats[s]: the request that bought s, or None
    inventory,          \* tickets that left the inventory
    answer              \* answer[r]: the recorded result of r, or None

salesVars == <<seats, inventory, answer>>

\* Unnumbered requests that have been told they got a ticket.
TicketHolders == {r \in Unnumbered : answer[r] = "sold"}

SalesInit ==
    /\ seats = [s \in Seat |-> None]
    /\ inventory = 0
    /\ answer = [r \in Request |-> None]

SellSeat(r) ==
    /\ r \in Numbered
    /\ SeatOf(r) \in Seat
    /\ seats[SeatOf(r)] = None
    /\ seats' = [seats EXCEPT ![SeatOf(r)] = r]
    /\ UNCHANGED <<inventory, answer>>

SellTicket ==
    /\ inventory < Capacity
    /\ inventory' = inventory + 1
    /\ UNCHANGED <<seats, answer>>

\* The answers that are true of request r in the present state.
Truthful(r, a) ==
    \/ a = "sold" /\ r \in Numbered /\ SeatOf(r) \in Seat /\ seats[SeatOf(r)] = r
    \/ a = "sold" /\ r \in Unnumbered /\ Cardinality(TicketHolders) < inventory
    \/ a = "rejected" /\ r \in Numbered /\ SeatOf(r) \in Seat /\ seats[SeatOf(r)] # None
    \/ a = "sold_out" /\ r \in Unnumbered /\ inventory = Capacity
    \/ a = "error" /\ r \in Numbered /\ SeatOf(r) = None

RecordAnswer(r, a) ==
    /\ answer[r] = None
    /\ Truthful(r, a)
    /\ answer' = [answer EXCEPT ![r] = a]
    /\ UNCHANGED <<seats, inventory>>

SalesNext ==
    \/ \E r \in Request : SellSeat(r)
    \/ SellTicket
    \/ \E r \in Request, a \in Outcome : RecordAnswer(r, a)

SalesSpec == SalesInit /\ [][SalesNext]_salesVars
=============================================================================
