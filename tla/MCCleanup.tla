------------------------------ MODULE MCCleanup ------------------------------
(* Small instances of Cleanup for TLC. *)
EXTENDS Cleanup, TLC

CONSTANTS r1, r2, s1, w1, w2

\* One order of each kind: a seat, and a ticket of the inventory.
OneOfEach ==
    (r1 :> [mode |-> "numbered", seat |-> s1, timed |-> TRUE]) @@
    (r2 :> [mode |-> "unnumbered", seat |-> None, timed |-> TRUE])
=============================================================================
