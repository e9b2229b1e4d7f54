------------------------- MODULE LoadGeneratorProofs -------------------------
(***************************************************************************)
(* What holds of the load generator for every configuration, number of     *)
(* steps and kind of fault: it walks through its schedule and never past   *)
(* it, keeps to the rate of each batch, counts what the broker has got to  *)
(* within one message, and after the signal sends at most one more.        *)
(*                                                                         *)
(* The inductive invariant, LoadInv, adds to these properties when a       *)
(* message may be built (Paced: its target time has come), that the count  *)
(* is exact as long as the connection lives (Counted), and that nobody     *)
(* builds a message any more once one has followed the signal (Quiet).     *)
(***************************************************************************)
EXTENDS LoadGenerator, SequenceTheorems, TLAPS

-----------------------------------------------------------------------------
(* The schedule *)

Calls == [phase : 1 .. 5, rate : Nat, over : Nat \ {0}, ticks : Int, breaks : BOOLEAN]

LEMMA BatchType ==
    ASSUME NEW phase \in 1 .. 5, NEW rate \in Nat, NEW over \in Nat \ {0},
           NEW seconds \in Nat, NEW parts \in Nat \ {0}, NEW breaks \in BOOLEAN
    PROVE  /\ Batch(phase, rate, over, seconds, parts, breaks) \in Calls
           /\ Batch(phase, rate, over, seconds, parts, breaks).phase = phase
           /\ Batch(phase, rate, over, seconds, parts, breaks).breaks = breaks
  <1>1. (seconds + parts - 1) \div parts \in Int
    OBVIOUS
  <1> QED
    BY <1>1 DEF Batch, Calls

\* A rate between two rates is no less than zero.
LEMMA BetweenType ==
    ASSUME NEW from \in Nat, NEW to \in Nat, NEW n \in Nat, NEW k \in 1 .. n
    PROVE  Between(from, to, k, n) \in Nat
  <1>1. PICK rest \in Nat : n = k + rest
    <2>1. n - k \in Nat /\ n = k + (n - k)
      OBVIOUS
    <2> QED
      BY <2>1
  <1>2. from * n + (to - from) * k = from * rest + to * k
    BY <1>1
  <1>3. from * rest \in Nat /\ to * k \in Nat
    OBVIOUS
  <1> QED
    BY <1>2, <1>3 DEF Between

LEMMA Single ==
    ASSUME NEW call \in Calls
    PROVE  <<call>> \in Seq(Calls) /\ Len(<<call>>) = 1 /\ <<call>>[1] = call
  OBVIOUS

\* r is a sequence s of length m followed by a sequence t of length n.
IsJoined(r, s, m, t, n) ==
    /\ r \in Seq(Calls)
    /\ Len(r) = m + n
    /\ \A b \in 1 .. m + n :
         \/ b \in 1 .. m /\ r[b] = s[b]
         \/ \E k \in 1 .. n : b = m + k /\ r[b] = t[k]

LEMMA Joined ==
    ASSUME NEW s \in Seq(Calls), NEW t \in Seq(Calls), NEW m \in Nat, NEW n \in Nat,
           Len(s) = m, Len(t) = n
    PROVE  IsJoined(s \o t, s, m, t, n)
  <1>1. /\ s \o t \in Seq(Calls) /\ Len(s \o t) = m + n
        /\ \A b \in 1 .. m + n : (s \o t)[b] = IF b <= m THEN s[b] ELSE t[b - m]
    BY ConcatProperties
  <1> SUFFICES ASSUME NEW b \in 1 .. m + n
               PROVE  \/ b \in 1 .. m /\ (s \o t)[b] = s[b]
                      \/ \E k \in 1 .. n : b = m + k /\ (s \o t)[b] = t[k]
    BY <1>1 DEF IsJoined
  <1>2. CASE b <= m
    BY <1>1, <1>2
  <1>3. CASE b > m
    <2>1. b - m \in 1 .. n /\ b = m + (b - m)
      BY <1>3
    <2> QED
      BY <1>1, <1>3, <2>1
  <1> QED
    BY <1>2, <1>3

\* Where the phases of the schedule begin.
RampAt == 2
BurstsAt == RampSteps + 2
SustainAt == RampSteps + 2 * cfg.phase.spike_bursts + 2
CooldownAt == RampSteps + 2 * cfg.phase.spike_bursts + 3
EndAt == RampSteps + 2 * cfg.phase.spike_bursts + CooldownSteps + 3

PhaseAt(b) ==
    IF b < RampAt THEN 1 ELSE IF b < BurstsAt THEN 2 ELSE IF b < SustainAt THEN 3
    ELSE IF b < CooldownAt THEN 4 ELSE 5

LEMMA ScheduleShape ==
    ASSUME cfg \in Configs
    PROVE  /\ Schedule \in Seq(Calls)
           /\ LastBatch + 1 = EndAt /\ LastBatch \in Nat
           /\ \A b \in 1 .. LastBatch : Schedule[b].phase = PhaseAt(b)
           /\ \A b \in 1 .. LastBatch : Schedule[b].breaks => PhaseAt(b) \in {2, 3, 5}
  <1> DEFINE p == cfg.phase
             R == RampSteps
             B == 2 * p.spike_bursts
             C == CooldownSteps
             one == <<Batch(1, p.low_rate, 1, p.t1_low_s, 1, FALSE)>>
             four == <<Batch(4, p.high_rate, 1, p.t4_sustained_s, 1, FALSE)>>
             s2 == one \o RampUp(p)
             s3 == s2 \o Bursts(p)
             s4 == s3 \o four
             s5 == s4 \o Cooldown(p)
  <1>1. /\ p.low_rate \in Nat /\ p.high_rate \in Nat /\ p.spike_rate \in Nat
        /\ p.t1_low_s \in Nat /\ p.t2_ramp_s \in Nat /\ p.t3_spike_s \in Nat
        /\ p.t4_sustained_s \in Nat /\ p.t5_cooldown_s \in Nat /\ p.spike_bursts \in Nat
    BY LoadAssumption DEF LoadConfig, PhaseConfig
  <1>2. R \in Nat \ {0} /\ C \in Nat \ {0} /\ B \in Nat
    BY <1>1, LoadAssumption
  <1> HIDE DEF p, R, B, C
  <1>a. /\ 1 \in 1 .. 5 /\ 2 \in 1 .. 5 /\ 3 \in 1 .. 5 /\ 4 \in 1 .. 5 /\ 5 \in 1 .. 5
        /\ 1 \in Nat \ {0} /\ FALSE \in BOOLEAN /\ TRUE \in BOOLEAN
        /\ R \in Nat /\ C \in Nat
    BY <1>2
  <1>3. /\ one \in Seq(Calls) /\ Len(one) = 1
        /\ one[1].phase = 1 /\ one[1].breaks = FALSE
    <2>1. /\ Batch(1, p.low_rate, 1, p.t1_low_s, 1, FALSE) \in Calls
          /\ Batch(1, p.low_rate, 1, p.t1_low_s, 1, FALSE).phase = 1
          /\ Batch(1, p.low_rate, 1, p.t1_low_s, 1, FALSE).breaks = FALSE
      BY <1>1, <1>a, BatchType, Zenon
    <2> QED
      BY <2>1, Single, Zenon
  <1>4. /\ four \in Seq(Calls) /\ Len(four) = 1
        /\ four[1].phase = 4 /\ four[1].breaks = FALSE
    <2>1. /\ Batch(4, p.high_rate, 1, p.t4_sustained_s, 1, FALSE) \in Calls
          /\ Batch(4, p.high_rate, 1, p.t4_sustained_s, 1, FALSE).phase = 4
          /\ Batch(4, p.high_rate, 1, p.t4_sustained_s, 1, FALSE).breaks = FALSE
      BY <1>1, <1>a, BatchType, Zenon
    <2> QED
      BY <2>1, Single, Zenon
  <1>5. /\ RampUp(p) \in Seq(Calls) /\ Len(RampUp(p)) = R
        /\ \A k \in 1 .. R : RampUp(p)[k].phase = 2 /\ RampUp(p)[k].breaks = TRUE
    <2> DEFINE call(k) == Batch(2, Between(p.low_rate, p.high_rate, k, R),
                                R, p.t2_ramp_s, R, TRUE)
    <2>1. \A k \in 1 .. R : /\ call(k) \in Calls
                            /\ call(k).phase = 2 /\ call(k).breaks = TRUE
      <3> SUFFICES ASSUME NEW k \in 1 .. R
                   PROVE  /\ call(k) \in Calls
                          /\ call(k).phase = 2 /\ call(k).breaks = TRUE
        OBVIOUS
      <3>1. Between(p.low_rate, p.high_rate, k, R) \in Nat
        BY <1>1, <1>2, BetweenType
      <3> QED
        BY <1>1, <1>2, <1>a, <3>1, BatchType, Zenon
    <2>2. RampUp(p) = [k \in 1 .. R |-> call(k)]
      BY DEF RampUp, R
    <2> HIDE DEF call
    <2> QED
      BY <1>2, <2>1, <2>2
  <1>6. /\ Cooldown(p) \in Seq(Calls) /\ Len(Cooldown(p)) = C
        /\ \A k \in 1 .. C : Cooldown(p)[k].phase = 5 /\ Cooldown(p)[k].breaks = TRUE
    <2> DEFINE call(k) == Batch(5, Between(p.high_rate, p.low_rate, k, C),
                                C, p.t5_cooldown_s, C, TRUE)
    <2>1. \A k \in 1 .. C : /\ call(k) \in Calls
                            /\ call(k).phase = 5 /\ call(k).breaks = TRUE
      <3> SUFFICES ASSUME NEW k \in 1 .. C
                   PROVE  /\ call(k) \in Calls
                          /\ call(k).phase = 5 /\ call(k).breaks = TRUE
        OBVIOUS
      <3>1. Between(p.high_rate, p.low_rate, k, C) \in Nat
        BY <1>1, <1>2, BetweenType
      <3> QED
        BY <1>1, <1>2, <1>a, <3>1, BatchType, Zenon
    <2>2. Cooldown(p) = [k \in 1 .. C |-> call(k)]
      BY DEF Cooldown, C
    <2> HIDE DEF call
    <2> QED
      BY <1>2, <2>1, <2>2
  <1>7. /\ Bursts(p) \in Seq(Calls) /\ Len(Bursts(p)) = B
        /\ \A k \in 1 .. B : Bursts(p)[k].phase = 3
    <2> DEFINE call(k) == Batch(3, IF k % 2 = 1 THEN p.spike_rate ELSE p.high_rate,
                                1, p.t3_spike_s, 1, k % 2 = 0)
    <2>1. \A k \in 1 .. B : call(k) \in Calls /\ call(k).phase = 3
      <3> SUFFICES ASSUME NEW k \in 1 .. B
                   PROVE  call(k) \in Calls /\ call(k).phase = 3
        OBVIOUS
      <3>1. \A r \in Nat : \A even \in BOOLEAN :
              /\ Batch(3, r, 1, p.t3_spike_s, 1, even) \in Calls
              /\ Batch(3, r, 1, p.t3_spike_s, 1, even).phase = 3
        <4>1. (p.t3_spike_s + 1 - 1) \div 1 \in Int
          BY <1>1
        <4> QED
          BY <4>1 DEF Batch, Calls
      <3>2. /\ (IF k % 2 = 1 THEN p.spike_rate ELSE p.high_rate) \in Nat
            /\ (k % 2 = 0) \in BOOLEAN
        BY <1>1
      <3> QED
        BY <3>1, <3>2, Zenon
    <2>2. Bursts(p) = [k \in 1 .. B |-> call(k)]
      BY DEF Bursts, B
    <2> HIDE DEF call
    <2> QED
      BY <1>2, <2>1, <2>2
  <1> HIDE DEF one, four
  <1>8. IsJoined(s2, one, 1, RampUp(p), R)
    BY <1>3, <1>5, <1>a, Joined
  <1> HIDE DEF s2
  <1>9. \A b \in 1 .. 1 + R :
          \/ b = 1 /\ s2[b].phase = 1 /\ s2[b].breaks = FALSE
          \/ b > 1 /\ s2[b].phase = 2
    BY <1>2, <1>3, <1>5, <1>8 DEF IsJoined
  <1>10. IsJoined(s3, s2, 1 + R, Bursts(p), B)
    <2>1. s2 \in Seq(Calls) /\ Len(s2) = 1 + R /\ 1 + R \in Nat /\ B \in Nat
      BY <1>2, <1>8 DEF IsJoined
    <2> QED
      BY <1>7, <2>1, Joined
  <1> HIDE DEF s3
  <1>11. \A b \in 1 .. 1 + R + B :
           \/ b = 1 /\ s3[b].phase = 1 /\ s3[b].breaks = FALSE
           \/ b > 1 /\ b <= 1 + R /\ s3[b].phase = 2
           \/ b > 1 + R /\ s3[b].phase = 3
    BY <1>2, <1>7, <1>9, <1>10 DEF IsJoined
  <1>12. IsJoined(s4, s3, 1 + R + B, four, 1)
    <2>1. s3 \in Seq(Calls) /\ Len(s3) = 1 + R + B /\ 1 + R + B \in Nat /\ 1 \in Nat
      BY <1>2, <1>10 DEF IsJoined
    <2> QED
      BY <1>4, <2>1, Joined
  <1> HIDE DEF s4
  <1>13. \A b \in 1 .. 1 + R + B + 1 :
           \/ b = 1 /\ s4[b].phase = 1 /\ s4[b].breaks = FALSE
           \/ b > 1 /\ b <= 1 + R /\ s4[b].phase = 2
           \/ b > 1 + R /\ b <= 1 + R + B /\ s4[b].phase = 3
           \/ b > 1 + R + B /\ s4[b].phase = 4 /\ s4[b].breaks = FALSE
    BY <1>2, <1>4, <1>11, <1>12 DEF IsJoined
  <1>14. IsJoined(s5, s4, 1 + R + B + 1, Cooldown(p), C)
    <2>1. /\ s4 \in Seq(Calls) /\ Len(s4) = 1 + R + B + 1
          /\ 1 + R + B + 1 \in Nat /\ C \in Nat
      BY <1>2, <1>12 DEF IsJoined
    <2> QED
      BY <1>6, <2>1, Joined
  <1> HIDE DEF s5
  <1>15. \A b \in 1 .. 1 + R + B + 1 + C :
           \/ b = 1 /\ s5[b].phase = 1 /\ s5[b].breaks = FALSE
           \/ b > 1 /\ b <= 1 + R /\ s5[b].phase = 2
           \/ b > 1 + R /\ b <= 1 + R + B /\ s5[b].phase = 3
           \/ b = 1 + R + B + 1 /\ s5[b].phase = 4 /\ s5[b].breaks = FALSE
           \/ b > 1 + R + B + 1 /\ s5[b].phase = 5
    BY <1>2, <1>6, <1>13, <1>14 DEF IsJoined
  <1>16. Schedule = s5
    BY DEF Schedule, p, s5, s4, s3, s2, one, four
  <1>17. LastBatch = 1 + R + B + 1 + C
    BY <1>14, <1>16 DEF IsJoined, LastBatch
  <1>18. LastBatch + 1 = EndAt /\ LastBatch \in Nat
    BY <1>2, <1>17 DEF EndAt, R, B, C, p
  <1>19. \A b \in 1 .. LastBatch : Schedule[b].phase = PhaseAt(b)
    BY <1>2, <1>15, <1>16, <1>17
       DEF PhaseAt, RampAt, BurstsAt, SustainAt, CooldownAt, R, B, p
  <1>20. \A b \in 1 .. LastBatch : Schedule[b].breaks => Schedule[b].phase \in {2, 3, 5}
    BY <1>15, <1>16, <1>17
  <1> QED
    BY <1>14, <1>16, <1>18, <1>19, <1>20 DEF IsJoined

\* A break of a loop leads to the first call of the next phase, or to the end.
LEMMA FollowingType ==
    ASSUME cfg \in Configs, batch \in 1 .. LastBatch, running \in BOOLEAN
    PROVE  Following \in 1 .. LastBatch + 1
  <1>1. CASE running \/ ~Now.breaks
    <2>1. LastBatch \in Nat
      BY ScheduleShape
    <2> QED
      BY <1>1, <2>1 DEF Following
  <1>2. CASE ~(running \/ ~Now.breaks)
    <2> DEFINE Leads(b) == /\ b = LastBatch + 1 \/ Schedule[b].phase > Now.phase
                           /\ \A c \in batch + 1 .. b - 1 : Schedule[c].phase = Now.phase
               next == IF PhaseAt(batch) = 2 THEN BurstsAt
                       ELSE IF PhaseAt(batch) = 3 THEN SustainAt ELSE EndAt
    <2>1. /\ LastBatch \in Nat /\ LastBatch + 1 = EndAt
          /\ \A b \in 1 .. LastBatch : Schedule[b].phase = PhaseAt(b)
          /\ PhaseAt(batch) \in {2, 3, 5}
      BY <1>2, ScheduleShape DEF Now
    <2>2. /\ RampSteps \in Nat \ {0} /\ CooldownSteps \in Nat \ {0}
          /\ 2 * cfg.phase.spike_bursts \in Nat
      BY LoadAssumption DEF LoadConfig, PhaseConfig
    <2>3. /\ next \in batch + 1 .. LastBatch + 1
          /\ next = LastBatch + 1 \/ PhaseAt(next) > PhaseAt(batch)
          /\ \A c \in batch + 1 .. next - 1 : PhaseAt(c) = PhaseAt(batch)
      BY <2>1, <2>2
         DEF PhaseAt, RampAt, BurstsAt, SustainAt, CooldownAt, EndAt
    <2> HIDE DEF next
    <2>4. Leads(next)
      <3>1. Now.phase = PhaseAt(batch)
        BY <2>1 DEF Now
      <3>2. next # LastBatch + 1 => Schedule[next].phase = PhaseAt(next)
        BY <2>1, <2>3
      <3>3. \A c \in batch + 1 .. next - 1 : Schedule[c].phase = PhaseAt(c)
        BY <2>1, <2>3
      <3> QED
        BY <2>3, <3>1, <3>2, <3>3
    <2> HIDE DEF Leads
    <2>5. \E b \in batch + 1 .. LastBatch + 1 : Leads(b)
      BY <2>3, <2>4
    <2>6. (CHOOSE b \in batch + 1 .. LastBatch + 1 : Leads(b)) \in batch + 1 .. LastBatch + 1
      BY <2>5
    <2>7. Following = CHOOSE b \in batch + 1 .. LastBatch + 1 : Leads(b)
      BY <1>2 DEF Following, Leads
    <2> QED
      BY <2>1, <2>6, <2>7
  <1> QED
    BY <1>1, <1>2

-----------------------------------------------------------------------------
(* The inductive invariant *)

\* The count is exact until the connection is lost, and then off by one if the
\* message it was lost with has arrived.
Counted ==
    \/ arrived = total + count
    \/ ~link /\ arrived = total + count + 1

\* Only a message that was under construction follows the signal.
Quiet ==
    /\ running => late = 0
    /\ pc \in {"pick", "draw", "publish"} /\ ~running => late = 0
    /\ late <= 1

\* A message after the first is built once its target time has come.
Paced ==
    batch <= LastBatch =>
      /\ count <= 1 \/ count * Now.over <= elapsed * Now.rate
      /\ pc \in {"connect", "loop", "pick", "draw", "publish"} =>
           count = 0 \/ (count + 1) * Now.over <= elapsed * Now.rate

LoadInv ==
    /\ TypeOK
    /\ Counted
    /\ Quiet
    /\ Paced

LEMMA NowType ==
    ASSUME TypeOK, batch <= LastBatch
    PROVE  Now.rate \in Nat /\ Now.over \in Nat /\ batch \in 1 .. LastBatch
  <1>1. Schedule \in Seq(Calls) /\ LastBatch \in Nat /\ LastBatch = Len(Schedule)
    BY ScheduleShape DEF TypeOK, LastBatch
  <1>2. batch \in 1 .. LastBatch
    BY <1>1 DEF TypeOK
  <1>3. Schedule[batch] \in Calls
    BY <1>1, <1>2, ElementOfSeq
  <1> QED
    BY <1>2, <1>3 DEF Now, Calls

\* The schedule is fixed by the configuration.
LEMMA ScheduleKept ==
    ASSUME UNCHANGED cfg
    PROVE  Schedule' = Schedule /\ LastBatch' = LastBatch
  <1>1. Schedule' = Schedule
    BY DEF Schedule, RampUp, Bursts, Cooldown
  <1> QED
    BY <1>1 DEF LastBatch

-----------------------------------------------------------------------------
(* The steps *)

LEMMA LoadInit == Init => LoadInv
  <1> SUFFICES ASSUME Init
               PROVE  LoadInv
    OBVIOUS
  <1>1. LastBatch \in Nat
    BY ScheduleShape DEF Init
  <1>2. TypeOK
    BY <1>1 DEF Init, TypeOK
  <1>3. Counted /\ Quiet /\ Paced
    BY DEF Init, Counted, Quiet, Paced
  <1> QED
    BY <1>2, <1>3 DEF LoadInv

\* Steps that send nothing and take no time.
LEMMA MoveStep ==
    ASSUME LoadInv,
           \/ Connect \/ PickHot \/ PickAny \/ DrawCold \/ BuildMessage \/ Close
           \/ WakeUp \/ LinkLost \/ signal_handler \/ UNCHANGED vars
    PROVE  LoadInv'
  <1>1. /\ UNCHANGED <<cfg, batch, elapsed, count, total, arrived, late>>
        /\ running' = running \/ (running' = FALSE /\ running)
        /\ link' = link \/ link' = FALSE
    BY DEF Connect, PickHot, PickAny, DrawCold, BuildMessage, Close, WakeUp, LinkLost,
       signal_handler, Goto, vars
  <1>2. pc' \in {"connect", "loop", "pick", "draw", "publish", "pace", "nap",
                 "done", "failed"}
    BY DEF LoadInv, TypeOK, Connect, PickHot, PickAny, DrawCold, BuildMessage, Close,
       WakeUp, LinkLost, signal_handler, Goto, vars
  <1>3. Schedule' = Schedule /\ LastBatch' = LastBatch /\ Now' = Now
    BY <1>1, ScheduleKept DEF Now
  <1>4. TypeOK'
    BY <1>1, <1>2, <1>3 DEF LoadInv, TypeOK
  <1>5. Counted'
    BY <1>1 DEF LoadInv, Counted
  <1>6. Quiet'
    BY <1>1 DEF LoadInv, Quiet, MayPublish, Connect, PickHot, PickAny, DrawCold,
       BuildMessage, Close, WakeUp, LinkLost, signal_handler, Goto, vars
  <1>7. Paced'
    <2>1. pc' \in {"connect", "loop", "pick", "draw", "publish"} =>
            \/ pc \in {"connect", "loop", "pick", "draw", "publish"}
            \/ elapsed * Now.rate >= (count + 1) * Now.over
      BY DEF Connect, PickHot, PickAny, DrawCold, BuildMessage, Close, WakeUp, OnTarget,
         LinkLost, signal_handler, Goto, vars
    <2> SUFFICES ASSUME batch <= LastBatch
                 PROVE  /\ count <= 1 \/ count * Now.over <= elapsed * Now.rate
                        /\ pc' \in {"connect", "loop", "pick", "draw", "publish"} =>
                             count = 0 \/ (count + 1) * Now.over <= elapsed * Now.rate
      BY <1>1, <1>3 DEF Paced
    <2>2. /\ Now.rate \in Nat /\ Now.over \in Nat /\ elapsed \in Nat /\ count \in Nat
          /\ elapsed * Now.rate \in Nat /\ (count + 1) * Now.over \in Nat
      BY NowType DEF LoadInv, TypeOK
    <2> QED
      BY <2>1, <2>2 DEF LoadInv, Paced
  <1> QED
    BY <1>4, <1>5, <1>6, <1>7 DEF LoadInv

LEMMA EndBatchStep ==
    ASSUME LoadInv, EndBatch
    PROVE  LoadInv'
  <1>1. /\ batch' = Following /\ total' = total + count /\ count' = 0 /\ elapsed' = 0
        /\ UNCHANGED <<cfg, pc, running, link, arrived, late>>
        /\ pc = "loop" /\ batch <= LastBatch
    BY DEF EndBatch
  <1>2. Schedule' = Schedule /\ LastBatch' = LastBatch
    BY <1>1, ScheduleKept
  <1>3. batch' \in 1 .. LastBatch + 1
    BY <1>1, NowType, FollowingType DEF LoadInv, TypeOK
  <1>4. TypeOK'
    BY <1>1, <1>2, <1>3 DEF LoadInv, TypeOK
  <1>5. Counted'
    <2>1. /\ count \in Nat /\ total \in Nat /\ total + count \in Nat
          /\ total' + count' = total + count
      BY <1>1 DEF LoadInv, TypeOK
    <2> QED
      BY <1>1, <2>1 DEF LoadInv, Counted
  <1>6. Quiet' /\ Paced'
    BY <1>1 DEF LoadInv, Quiet, Paced
  <1> QED
    BY <1>4, <1>5, <1>6 DEF LoadInv

LEMMA PublishStep ==
    ASSUME LoadInv, Publish
    PROVE  LoadInv'
  <1>1. /\ pc = "publish" /\ pc' = "pace" /\ link
        /\ arrived' = arrived + 1 /\ count' = count + 1
        /\ late' = IF running THEN late ELSE late + 1
        /\ UNCHANGED <<cfg, batch, elapsed, total, running, link>>
    BY DEF Publish, Arrive
  <1>2. Schedule' = Schedule /\ LastBatch' = LastBatch /\ Now' = Now
    BY <1>1, ScheduleKept DEF Now
  <1>3. TypeOK'
    BY <1>1, <1>2 DEF LoadInv, TypeOK
  <1>4. Counted'
    BY <1>1 DEF LoadInv, TypeOK, Counted
  <1>5. Quiet'
    BY <1>1 DEF LoadInv, Quiet
  <1>6. Paced'
    BY <1>1, <1>2 DEF LoadInv, TypeOK, Paced
  <1> QED
    BY <1>3, <1>4, <1>5, <1>6 DEF LoadInv

LEMMA PublishErrorStep ==
    ASSUME LoadInv, PublishError
    PROVE  LoadInv'
  <1>1. /\ pc = "publish" /\ pc' = "nap"
        /\ UNCHANGED <<cfg, batch, elapsed, count, total, running>>
        /\ \/ UNCHANGED <<link, arrived, late>>
           \/ /\ link /\ link' = FALSE
              /\ \/ UNCHANGED <<arrived, late>>
                 \/ /\ arrived' = arrived + 1
                    /\ late' = IF running THEN late ELSE late + 1
    <2>1. arrived \in Nat /\ late \in Nat
      BY DEF LoadInv, TypeOK
    <2> QED
      BY <2>1 DEF PublishError, Arrive
  <1>2. Schedule' = Schedule /\ LastBatch' = LastBatch /\ Now' = Now
    BY <1>1, ScheduleKept DEF Now
  <1>3. TypeOK'
    <2>1. arrived' \in Nat /\ late' \in Nat
      <3>1. arrived \in Nat /\ late \in Nat /\ arrived + 1 \in Nat /\ late + 1 \in Nat
        BY DEF LoadInv, TypeOK
      <3> QED
        BY <1>1, <3>1
    <2>2. link' \in BOOLEAN
      BY <1>1 DEF LoadInv, TypeOK
    <2> QED
      BY <1>1, <1>2, <2>1, <2>2 DEF LoadInv, TypeOK
  <1>4. Counted'
    BY <1>1 DEF LoadInv, TypeOK, Counted
  <1>5. Quiet'
    BY <1>1 DEF LoadInv, Quiet
  <1>6. Paced'
    BY <1>1, <1>2 DEF LoadInv, TypeOK, Paced
  <1> QED
    BY <1>3, <1>4, <1>5, <1>6 DEF LoadInv

LEMMA TickStep ==
    ASSUME LoadInv, Tick
    PROVE  LoadInv'
  <1>1. /\ elapsed' = elapsed + 1 /\ pc' \in {"pace", "publish"}
        /\ pc' = "publish" => pc = "publish"
        /\ UNCHANGED <<cfg, batch, count, total, running, link, arrived, late>>
    BY DEF Tick
  <1>2. Schedule' = Schedule /\ LastBatch' = LastBatch /\ Now' = Now
    BY <1>1, ScheduleKept DEF Now
  <1>3. TypeOK'
    BY <1>1, <1>2 DEF LoadInv, TypeOK
  <1>4. Counted' /\ Quiet'
    BY <1>1 DEF LoadInv, Counted, Quiet
  <1>5. Paced'
    <2> SUFFICES ASSUME batch <= LastBatch
                 PROVE  Paced'
      BY <1>1, <1>2 DEF Paced
    <2>1. Now.rate \in Nat /\ Now.over \in Nat /\ elapsed \in Nat /\ count \in Nat
      BY NowType DEF LoadInv, TypeOK
    <2>2. /\ elapsed * Now.rate <= elapsed' * Now.rate
          /\ elapsed * Now.rate \in Nat /\ elapsed' * Now.rate \in Nat
          /\ count * Now.over \in Nat /\ (count + 1) * Now.over \in Nat
      <3>1. elapsed * Now.rate \in Nat /\ (elapsed + 1) * Now.rate = elapsed * Now.rate + Now.rate
        BY <2>1
      <3>2. count * Now.over \in Nat /\ (count + 1) * Now.over \in Nat
        BY <2>1
      <3> QED
        BY <1>1, <2>1, <3>1, <3>2
    <2> QED
      BY <1>1, <1>2, <2>1, <2>2 DEF LoadInv, Paced
  <1> QED
    BY <1>3, <1>4, <1>5 DEF LoadInv

LEMMA LoadStep == LoadInv /\ [Next]_vars => LoadInv'
  BY MoveStep, EndBatchStep, PublishStep, PublishErrorStep, TickStep DEF Next, Step

LEMMA LoadInvariant == Spec => []LoadInv
  BY LoadInit, LoadStep, PTL DEF Spec

-----------------------------------------------------------------------------
(* What follows *)

\* The variables of LoadGenerator keep to their types: above all run_zt never
\* leaves its schedule, however its loops are broken.
THEOREM LoadTypes == Spec => []TypeOK
  <1>1. LoadInv => TypeOK
    BY DEF LoadInv
  <1> QED
    BY <1>1, LoadInvariant, PTL

\* publish_batch never goes over the rate of its batch, however long it was
\* held up before; only the first message of a batch comes before its time.
THEOREM RateIsKept == Spec => []RateKept
  <1>1. LoadInv => RateKept
    BY DEF LoadInv, Paced, RateKept
  <1> QED
    BY <1>1, LoadInvariant, PTL

\* What publish_batch counts is what the broker has got, but for the one
\* message whose confirmation was lost with the connection.
THEOREM OneIsUncounted == Spec => []AtMostOneUncounted
  <1>1. LoadInv => AtMostOneUncounted
    <2> SUFFICES ASSUME LoadInv
                 PROVE  arrived - (total + count) \in {0, 1}
      BY DEF AtMostOneUncounted
    <2>1. PICK n \in Nat : n = total + count
      BY DEF LoadInv, TypeOK
    <2>2. arrived = n \/ arrived = n + 1
      BY <2>1 DEF LoadInv, Counted
    <2>3. arrived - n \in {0, 1}
      BY <2>2
    <2> QED
      BY <2>1, <2>3
  <1> QED
    BY <1>1, LoadInvariant, PTL

\* signal_handler stops the generator with at most one message more, through
\* every batch and loop of run_zt that is still walked through.
THEOREM StopIsQuiet == Spec => []QuietAfterStop
  <1>1. LoadInv => QuietAfterStop
    BY DEF LoadInv, Quiet, QuietAfterStop
  <1> QED
    BY <1>1, LoadInvariant, PTL
=============================================================================
