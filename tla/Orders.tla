------------------------------- MODULE Orders -------------------------------
(***************************************************************************)
(* The workers, the purchase requests they receive (worker/app/models.py)  *)
(* and the answers they may record for them (column processed.result).     *)
(*                                                                         *)
(* A request is a member of Request (its UUID); Order[r] is what its       *)
(* message body says.  Mode "malformed" stands for every body on which     *)
(* json.loads or BuyRequest.from_dict raises, "other" for a body whose     *)
(* mode is neither of the two the worker knows.                            *)
(***************************************************************************)
EXTENDS Naturals, FiniteSets

CONSTANTS
    Request,    \* request ids
    Seat,       \* the seats of the event with numbered seats
    Order,      \* Order[r]: the body of the message of request r
    None,       \* Python's None and SQL's NULL
    Worker      \* the worker tasks of the ECS service

Mode == {"numbered", "unnumbered", "other", "malformed"}

\* The fields of BuyRequest the worker looks at; "timed" tells whether the
\* body carries an enqueue_ts.
BuyRequest == [mode : Mode, seat : Seat \cup {None}, timed : BOOLEAN]

\* The values process_numbered and process_unnumbered return.
Outcome == {"sold", "rejected", "sold_out", "error"}

ASSUME OrdersAssumption ==
    /\ IsFiniteSet(Request)
    /\ Order \in [Request -> BuyRequest]
    /\ None \notin Request \cup Seat \cup Outcome

SeatOf(r) == Order[r].seat

Numbered == {r \in Request : Order[r].mode = "numbered"}
Unnumbered == {r \in Request : Order[r].mode = "unnumbered"}
=============================================================================
