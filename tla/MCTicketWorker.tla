--------------------------- MODULE MCTicketWorker ---------------------------
(* Small instances of TicketWorker for TLC. *)
EXTENDS TicketWorker, DlxPolicy, TLC

CONSTANTS r1, r2, r3, r4, s1, w1, w2

\* Two buyers of one seat.
SeatRace ==
    (r1 :> [mode |-> "numbered", seat |-> s1, timed |-> TRUE]) @@
    (r2 :> [mode |-> "numbered", seat |-> s1, timed |-> FALSE])

\* Two buyers of tickets.
TicketRace ==
    (r1 :> [mode |-> "unnumbered", seat |-> None, timed |-> TRUE]) @@
    (r2 :> [mode |-> "unnumbered", seat |-> None, timed |-> FALSE])

\* A proper order, one without its seat, one of an unknown mode and a body
\* that does not parse.
OddOrders ==
    (r1 :> [mode |-> "numbered", seat |-> s1, timed |-> TRUE]) @@
    (r2 :> [mode |-> "numbered", seat |-> None, timed |-> TRUE]) @@
    (r3 :> [mode |-> "other", seat |-> None, timed |-> FALSE]) @@
    (r4 :> [mode |-> "malformed", seat |-> None, timed |-> FALSE])

\* One order of each kind.
OneOfEach ==
    (r1 :> [mode |-> "numbered", seat |-> s1, timed |-> TRUE]) @@
    (r2 :> [mode |-> "unnumbered", seat |-> None, timed |-> TRUE])

\* The dead-letter policy as the infrastructure code installs it.
DeadLetterDeployed == PolicyApplies

WorkerSymmetry == Permutations(Worker)
=============================================================================
