---------------------------- MODULE LoadGenerator ----------------------------
(***************************************************************************)
(* The load generator (loadgen/app/main.py and config.py): one process     *)
(* that publishes purchase requests batch after batch, at the rates and    *)
(* for the durations of the schedule run_zt, over one connection that it   *)
(* never opens again.                                                      *)
(*                                                                         *)
(* A tick is a second.  A rate is the fraction rate / over (messages per   *)
(* second), since run_zt interpolates rates; target times are compared     *)
(* without division.  Of a message only its arrival counts; which seat it  *)
(* names matters only in that drawing one may not end.                     *)
(***************************************************************************)
EXTENDS Integers, Sequences

CONSTANTS
    Configs,                    \* the values of LoadConfig considered
    RampSteps, CooldownSteps,   \* ramp_steps, cooldown_steps (20 and 10)
    MaxStall,                   \* bound: seconds a publish lasts past a deadline
    Faults

\* nack: the broker refuses a message
\* link: the connection is lost
FaultKind == {"nack", "link"}

PhaseConfig == [low_rate : Nat, high_rate : Nat, spike_rate : Nat,
                t1_low_s : Nat, t2_ramp_s : Nat, t3_spike_s : Nat,
                t4_sustained_s : Nat, t5_cooldown_s : Nat, spike_bursts : Nat]

LoadConfig == [mode : {"numbered", "unnumbered"}, hotspot_pct_seats : 0 .. 100,
               hotspot_pct_traffic : 0 .. 100, total_seats : Nat \ {0},
               phase : PhaseConfig]

ASSUME LoadAssumption ==
    /\ Configs \subseteq LoadConfig
    /\ RampSteps \in Nat \ {0} /\ CooldownSteps \in Nat \ {0}
    /\ MaxStall \in Nat
    /\ Faults \subseteq FaultKind

VARIABLES
    cfg,        \* the configuration of this process
    pc,         \* where it stands
    batch,      \* number of the call of publish_batch in Schedule
    elapsed,    \* seconds since batch_start
    count,      \* messages of this batch that were confirmed
    total,      \* messages of the batches before
    running,    \* the flag signal_handler clears
    link,       \* is the connection alive?
    arrived,    \* messages the broker has got
    late        \* how many of them after the signal

vars == <<cfg, pc, batch, elapsed, count, total, running, link, arrived, late>>

-----------------------------------------------------------------------------
(* The schedule *)

\* publish_batch(rate / over, seconds / parts); "breaks" marks the calls after
\* which a loop of run_zt looks at running.
Batch(phase, rate, over, seconds, parts, breaks) ==
    [phase |-> phase, rate |-> rate, over |-> over,
     ticks |-> (seconds + parts - 1) \div parts, breaks |-> breaks]

\* The rate that has come k of n steps from one rate to another.
Between(from, to, k, n) == from * n + (to - from) * k

\* The loops of phases 2, 3 (two calls a turn) and 5.
RampUp(p) ==
    [k \in 1 .. RampSteps |->
       Batch(2, Between(p.low_rate, p.high_rate, k, RampSteps),
             RampSteps, p.t2_ramp_s, RampSteps, TRUE)]
Bursts(p) ==
    [k \in 1 .. 2 * p.spike_bursts |->
       Batch(3, IF k % 2 = 1 THEN p.spike_rate ELSE p.high_rate,
             1, p.t3_spike_s, 1, k % 2 = 0)]
Cooldown(p) ==
    [k \in 1 .. CooldownSteps |->
       Batch(5, Between(p.high_rate, p.low_rate, k, CooldownSteps),
             CooldownSteps, p.t5_cooldown_s, CooldownSteps, TRUE)]

\* Phases 1 to 5 of run_zt, loops unrolled.
Schedule ==
    LET p == cfg.phase
    IN  <<Batch(1, p.low_rate, 1, p.t1_low_s, 1, FALSE)>> \o RampUp(p) \o Bursts(p)
          \o <<Batch(4, p.high_rate, 1, p.t4_sustained_s, 1, FALSE)>> \o Cooldown(p)

Now == Schedule[batch]
LastBatch == Len(Schedule)

\* MUTANT of Following: a break skips one batch more than it should.
FollowingSkips == IF running \/ ~Now.breaks THEN batch + 1 ELSE batch + 2

\* The call after this one: a break leaves the loop, not run_zt.
Following ==
    IF running \/ ~Now.breaks THEN batch + 1
    ELSE CHOOSE b \in batch + 1 .. LastBatch + 1 :
            /\ b = LastBatch + 1 \/ Schedule[b].phase > Now.phase
            /\ \A c \in batch + 1 .. b - 1 : Schedule[c].phase = Now.phase

-----------------------------------------------------------------------------
(* _build_hotspot_pool and _pick_seat *)

HotSeats ==
    LET n == (cfg.total_seats * cfg.hotspot_pct_seats) \div 100
    IN  IF n > 1 THEN n ELSE 1

Init ==
    /\ cfg \in Configs
    /\ pc = "connect"
    /\ batch = 1
    /\ elapsed = 0
    /\ count = 0
    /\ total = 0
    /\ running = TRUE
    /\ link = TRUE
    /\ arrived = 0
    /\ late = 0

\* BlockingConnection and confirm_delivery, or their exception ends it all.
Connect ==
    /\ pc = "connect"
    /\ \/ pc' = "loop"
       \/ "link" \in Faults /\ pc' = "failed"
    /\ UNCHANGED <<cfg, batch, elapsed, count, total, running, link, arrived, late>>

Goto(step) ==
    /\ pc' = step
    /\ UNCHANGED <<cfg, batch, elapsed, count, total, running, link, arrived, late>>

\* Share hotspot_pct_traffic of the messages goes to the hot seats ...
PickHot ==
    /\ pc = "pick"
    /\ cfg.hotspot_pct_traffic > 0
    /\ Goto("publish")

\* ... the others draw a seat, again and again until it is not a hot one (a
\* draw that hits a hot seat changes nothing).
PickAny ==
    /\ pc = "pick"
    /\ cfg.hotspot_pct_traffic < 100
    /\ Goto("draw")

DrawCold ==
    /\ pc = "draw"
    /\ HotSeats < cfg.total_seats
    /\ Goto("publish")

-----------------------------------------------------------------------------
(* publish_batch *)

\* MUTANT of MayPublish: the flag is not part of the loop's condition.
MayPublishUntilDeadline == Now.rate > 0 /\ elapsed < Now.ticks

MayPublish == Now.rate > 0 /\ elapsed < Now.ticks /\ running

BuildMessage ==
    /\ pc = "loop"
    /\ batch <= LastBatch
    /\ MayPublish
    /\ Goto(IF cfg.mode = "numbered" THEN "pick" ELSE "publish")

\* A batch is over (or was not to start); run_zt goes on with the next one.
EndBatch ==
    /\ pc = "loop"
    /\ batch <= LastBatch
    /\ ~MayPublish
    /\ batch' = Following
    /\ total' = total + count
    /\ count' = 0
    /\ elapsed' = 0
    /\ UNCHANGED <<cfg, pc, running, link, arrived, late>>

\* close: on a connection that is gone it may raise.
Close ==
    /\ pc = "loop"
    /\ batch > LastBatch
    /\ \/ Goto("done")
       \/ ~link /\ Goto("failed")

\* n more messages are in the queue.
Arrive(n) ==
    /\ arrived' = arrived + n
    /\ late' = IF running THEN late ELSE late + n

\* basic_publish returns once the broker has confirmed the message.
Publish ==
    /\ pc = "publish"
    /\ link
    /\ Arrive(1)
    /\ count' = count + 1
    /\ pc' = "pace"
    /\ UNCHANGED <<cfg, batch, elapsed, total, running, link>>

\* MUTANT of PublishError: a broken connection is opened again.
PublishErrorReconnects ==
    /\ pc = "publish"
    /\ \/ "nack" \in Faults /\ UNCHANGED <<arrived, late>>
       \/ "link" \in Faults /\ \E n \in {0, 1} : Arrive(n)
       \/ ~link /\ UNCHANGED <<arrived, late>>
    /\ link' = TRUE
    /\ pc' = "nap"
    /\ UNCHANGED <<cfg, batch, elapsed, count, total, running>>

\* MUTANT of PublishError: the message is published again until it succeeds.
PublishErrorRepeats ==
    /\ pc = "publish"
    /\ \/ "nack" \in Faults /\ link /\ UNCHANGED <<link, arrived, late>>
       \/ "link" \in Faults /\ link /\ link' = FALSE /\ \E n \in {0, 1} : Arrive(n)
       \/ ~link /\ UNCHANGED <<link, arrived, late>>
    /\ UNCHANGED <<cfg, pc, batch, elapsed, count, total, running>>

\* It raises: refused, or the connection breaks before the confirmation (the
\* message may have arrived), or it was broken already.
PublishError ==
    /\ pc = "publish"
    /\ \/ "nack" \in Faults /\ link /\ UNCHANGED <<link, arrived, late>>
       \/ "link" \in Faults /\ link /\ link' = FALSE /\ \E n \in {0, 1} : Arrive(n)
       \/ ~link /\ UNCHANGED <<link, arrived, late>>
    /\ pc' = "nap"
    /\ UNCHANGED <<cfg, batch, elapsed, count, total, running>>

\* MUTANT of OnTarget: the message just sent is not counted.
OnTargetEarly == elapsed * Now.rate >= count * Now.over

\* target_time = batch_start + (count + 1) * interval has come.
OnTarget == elapsed * Now.rate >= (count + 1) * Now.over

WakeUp ==
    /\ pc = "pace"
    /\ OnTarget
    /\ Goto("loop")

\* time.sleep, until the target time or for a second after an error; and time
\* spent in a publish.
Tick ==
    /\ \/ pc = "pace" /\ ~OnTarget
       \/ pc = "nap"
       \/ pc = "publish" /\ elapsed < Now.ticks + MaxStall
    /\ elapsed' = elapsed + 1
    /\ pc' = IF pc = "nap" THEN "pace" ELSE pc
    /\ UNCHANGED <<cfg, batch, count, total, running, link, arrived, late>>

\* Nothing reads the connection between two publishes.
LinkLost ==
    /\ "link" \in Faults
    /\ link
    /\ pc \notin {"connect", "done", "failed"}
    /\ link' = FALSE
    /\ UNCHANGED <<cfg, pc, batch, elapsed, count, total, running, arrived, late>>

signal_handler ==
    /\ running
    /\ pc \notin {"done", "failed"}
    /\ running' = FALSE
    /\ UNCHANGED <<cfg, pc, batch, elapsed, count, total, link, arrived, late>>

Step ==
    \/ Connect \/ PickHot \/ PickAny \/ DrawCold \/ BuildMessage \/ EndBatch
    \/ Close \/ Publish \/ PublishError \/ WakeUp

Next == Step \/ Tick \/ LinkLost \/ signal_handler

Spec == Init /\ [][Next]_vars

\* The process runs, a publish returns or raises, and time passes.
FairSpec == Spec /\ WF_vars(Step) /\ WF_vars(Tick)
-----------------------------------------------------------------------------
(* Properties *)

TypeOK ==
    /\ cfg \in Configs
    /\ pc \in {"connect", "loop", "pick", "draw", "publish", "pace", "nap",
               "done", "failed"}
    /\ batch \in 1 .. LastBatch + 1
    /\ {elapsed, count, total, arrived, late} \subseteq Nat
    /\ running \in BOOLEAN /\ link \in BOOLEAN

\* A generator that was held up (a slow confirm, the second after an error)
\* catches up, but never goes over the rate of the batch counted from its
\* start: only the very first message comes before its time.
RateKept ==
    batch <= LastBatch => count <= 1 \/ count * Now.over <= elapsed * Now.rate

\* "Total messages" never claims more than the broker has got, and falls short
\* of it by the one message whose confirmation was lost with the connection:
\* a second such message would need a second connection.
AtMostOneUncounted == arrived - (total + count) \in {0, 1}

\* After the signal no message follows but the one under construction, through
\* all the batches and loops run_zt still walks through.
QuietAfterStop == late <= 1

\* A draw that can never end: every seat is hot.
Hung == pc = "draw" /\ HotSeats = cfg.total_seats

\* The schedule ends whatever the broker does, and a signal ends it too, unless
\* the draw of a cold seat is left without one.
Finishes == <>(pc \in {"done", "failed"} \/ Hung)
=============================================================================
