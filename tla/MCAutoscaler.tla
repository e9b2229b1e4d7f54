---------------------------- MODULE MCAutoscaler ----------------------------
(***************************************************************************)
(* Instances of Autoscaler for TLC.  A tick is 15 seconds, the interval of *)
(* the heartbeats: the cooldowns of 30 and 90 seconds are 2 and 6 ticks,   *)
(* the Lambda timeout of 30 seconds is 2.                                  *)
(***************************************************************************)
EXTENDS Autoscaler

\* Loads that ask for 1, 3 and more than WORKER_MAX workers; the jump of the
\* backlog asks for two more on top, which the next evaluation takes back.
QuietOrPeak == {0, 20}
FewOrManyArrivals == {0, 25}

\* Arrivals never stop.
EmptyQueue == {0}
SteadyArrivals == {25}
=============================================================================
