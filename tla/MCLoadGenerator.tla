--------------------------- MODULE MCLoadGenerator ---------------------------
(* Instances of LoadGenerator for TLC. *)
EXTENDS LoadGenerator

\* Every phase with a batch of its own; the second one starts from silence.
Phases == {
    [low_rate |-> 1, high_rate |-> 2, spike_rate |-> 3,
     t1_low_s |-> 2, t2_ramp_s |-> 2, t3_spike_s |-> 2,
     t4_sustained_s |-> 2, t5_cooldown_s |-> 1, spike_bursts |-> 1],
    [low_rate |-> 0, high_rate |-> 1, spike_rate |-> 2,
     t1_low_s |-> 1, t2_ramp_s |-> 2, t3_spike_s |-> 1,
     t4_sustained_s |-> 0, t5_cooldown_s |-> 2, spike_bursts |-> 2]}

\* Some seats hot, all of them hot with part of the traffic, no picking at all.
SeatChoices == {
    [mode |-> "numbered", hotspot_pct_seats |-> 5, hotspot_pct_traffic |-> 80,
     total_seats |-> 4],
    [mode |-> "numbered", hotspot_pct_seats |-> 100, hotspot_pct_traffic |-> 80,
     total_seats |-> 2],
    [mode |-> "unnumbered", hotspot_pct_seats |-> 100, hotspot_pct_traffic |-> 0,
     total_seats |-> 2]}

AllConfigs ==
    {[mode |-> c.mode, hotspot_pct_seats |-> c.hotspot_pct_seats,
      hotspot_pct_traffic |-> c.hotspot_pct_traffic,
      total_seats |-> c.total_seats, phase |-> p] : c \in SeatChoices, p \in Phases}
=============================================================================
