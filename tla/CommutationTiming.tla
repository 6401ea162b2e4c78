-------------------------- MODULE CommutationTiming --------------------------
(***************************************************************************)
(* How a driven motor measures its rotor: the comparator samples of        *)
(* polling and their filter, the commutation interval and its two          *)
(* averages, the wait before the next step, the six intervals of a turn    *)
(* and the changeover between polling and interrupts (isr_logic.rs,        *)
(* BemfState, Commutation).  Times are ticks of the 2 MHz interval timer;  *)
(* the rotor is given by the interval it would be measured with.           *)
(*                                                                         *)
(* What disturbs a run (noise, stalls, desyncs, stops, a load) is counted, *)
(* so that every behaviour ends with a rotor that turns steadily.          *)
(***************************************************************************)
EXTENDS Numeric

CONSTANTS
  Rotors,           \* intervals of the rotor
  Reversible,       \* bi_direction: the changeover is at half the interval
  StrictChangeover,
  SineStarts,       \* use_sine_start
  Advance,          \* temp_advance
  TargetCounts,     \* target_min_bemf_counts
  BadThreshold,     \* bad_count_threshold
  Disturbances

ASSUME TimingAssumption ==
  /\ Rotors \subseteq 1 .. 65535
  /\ {Reversible, StrictChangeover, SineStarts} \subseteq BOOLEAN
  /\ Advance \in 0 .. 42 /\ TargetCounts \in 1 .. 127 /\ BadThreshold \in 0 .. 254
  /\ Disturbances \in Nat

VARIABLES
  driveMode,        \* "armed", "old" or "running"
  rotor,
  passed,       \* the rotor has crossed zero since the last step
  interval,     \* commutation_interval
  zcTimes,      \* last_zc_time and this_zc_time
  wait,         \* wait_time
  comOn,        \* the commutation timer is armed
  compOn,       \* the comparator's interrupt is enabled
  filter,       \* counter, bad_count and zc_found
  minCounts,    \* min_counts_up and min_counts_down
  turn,         \* step, intervals and interval_sum
  crossings,    \* zero_crosses, up to OLD_ROUTINE_EXIT_ZC
  disturbed

timingVars == <<driveMode, rotor, passed, interval, zcTimes, wait, comOn, compOn, filter,
                minCounts, turn, crossings, disturbed>>

KHz == 2000

InitialCommutationInterval == UsToTicks(6250, KHz)
StartupCommutationInterval == UsToTicks(5000, KHz)
SineChangeoverInterval     == UsToTicks(4500, KHz)
DesyncResetInterval        == UsToTicks(2500, KHz)
OldRoutineReentryMargin    == UsToTicks(250, KHz)
StallCount                 == UsToTicks(22500, KHz)

ExitInterval == UsToTicks(1000, KHz) \div IF Reversible THEN 2 ELSE 1

MinZcForAdvance  == 5
OldRoutineExitZc == 20

Unfiltered == [counter |-> 0, bad |-> 0, found |-> FALSE]

TimingInit ==
  /\ driveMode = "armed" /\ rotor \in Rotors /\ passed = FALSE
  /\ interval = InitialCommutationInterval
  /\ zcTimes = [last |-> 0, this |-> 0] /\ wait = 0 /\ comOn = FALSE /\ compOn = FALSE
  /\ filter = Unfiltered /\ minCounts = 2
  /\ turn = [step |-> 1, intervals |-> [k \in 1 .. 6 |-> 0], sum |-> 0]
  /\ crossings = 0 /\ disturbed = 0

------------------------------------------------------------------------------
(* BemfState *)

\* update: a sample that shows the crossing, or does not.  The bad samples count as far
\* as their threshold, and none counts once the crossing is found.
Sampled(crossed) ==
  IF filter.found THEN filter
  ELSE IF crossed THEN [filter EXCEPT !.counter = @ + 1]
  ELSE LET bad == IF filter.bad > BadThreshold THEN filter.bad ELSE filter.bad + 1
       IN [filter EXCEPT !.bad = bad, !.counter = IF bad > BadThreshold THEN 0 ELSE @]

\* Mutation: the crossing of the last step stays found.
FoundKept == [Unfiltered EXCEPT !.found = filter.found]

\* reset_after_commutation
FilterAfterStep == Unfiltered

\* zero_cross_detected
CrossingDetected(f) == ~f.found /\ f.counter > minCounts

\* record_zc_timing
Shifted(count) == [last |-> zcTimes.this, this |-> count]

WaitFor(new) ==
  LET half    == new \div 2
      advance == (Advance * new) \div 64
  IN IF half > advance THEN half - advance ELSE 0

\* The new interval of record_zero_cross, and of update_timing_from_timer.
PolledInterval(count) == (count + 3 * interval) \div 4
TimerInterval == (interval + (zcTimes.last + zcTimes.this) \div 2) \div 2

------------------------------------------------------------------------------
(* Commutation *)

NextStep(s) == IF s = 6 THEN 1 ELSE s + 1

\* advance and record_interval
Advanced(ci) ==
  LET k == NextStep(turn.step)
  IN [step      |-> k,
      intervals |-> [turn.intervals EXCEPT ![k] = Wrap(ci, 16)],
      sum       |-> turn.sum - turn.intervals[k] + Wrap(ci, 16)]

\* e_com_us_to_avg_ticks of e_com_time
AverageOf(t) == PeriodToAverage(SixIntervalsToUs(t.sum, KHz), KHz)

CrossingCounted ==
  crossings' = IF crossings < OldRoutineExitZc THEN crossings + 1 ELSE crossings

------------------------------------------------------------------------------
(* The control tick *)

\* bemf_polling, on a comparator that tells the truth or not.
Poll(crossed) ==
  LET sampled == Sampled(crossed)
      new     == PolledInterval(rotor)
  IN /\ driveMode = "old"
     /\ compOn' = FALSE
     /\ IF ~CrossingDetected(sampled)
        THEN filter' = sampled /\ UNCHANGED <<interval, zcTimes, wait, turn, crossings,
                                              passed, comOn>>
        ELSE /\ interval' = new /\ zcTimes' = Shifted(rotor) /\ wait' = WaitFor(new)
             /\ IF crossings < MinZcForAdvance
                THEN /\ turn' = Advanced(new) /\ filter' = Unfiltered /\ passed' = FALSE
                     /\ CrossingCounted /\ UNCHANGED comOn
                ELSE /\ comOn' = TRUE /\ filter' = [sampled EXCEPT !.found = TRUE]
                     /\ UNCHANGED <<turn, passed, crossings>>
     /\ UNCHANGED <<driveMode, rotor, minCounts, disturbed>>

PollTick == Poll(passed)

\* The tick that finds throttle on an armed motor; it polls in the same run.
StartTick ==
  /\ driveMode = "armed" /\ driveMode' = "old"
  /\ turn' = Advanced(interval)
  /\ interval' = StartupCommutationInterval
  /\ passed' = FALSE /\ filter' = Sampled(FALSE) /\ compOn' = FALSE
  /\ UNCHANGED <<rotor, zcTimes, wait, comOn, minCounts, crossings, disturbed>>

\* An armed tick without throttle.
IdleTick ==
  /\ driveMode = "armed" /\ crossings' = 0 /\ filter' = Unfiltered /\ compOn' = FALSE
  /\ UNCHANGED <<driveMode, rotor, passed, interval, zcTimes, wait, comOn, minCounts, turn,
                 disturbed>>

\* Out of sine: apply_sine_changeover, and the tick that takes it.
HandoffTick ==
  /\ SineStarts /\ driveMode = "armed" /\ driveMode' = "old"
  /\ interval' = SineChangeoverInterval /\ crossings' = OldRoutineExitZc
  /\ turn' = [turn EXCEPT !.step = 5]
  /\ filter' = Unfiltered /\ passed' = FALSE /\ comOn' = TRUE /\ compOn' = FALSE
  /\ UNCHANGED <<rotor, zcTimes, wait, minCounts, disturbed>>

------------------------------------------------------------------------------
(* The commutation timer and the comparator *)

ChangeoverMet(zc) ==
  IF StrictChangeover THEN zc >= OldRoutineExitZc /\ interval <= ExitInterval
                      ELSE interval < ExitInterval

\* commutation_timer_expired
ComTimerExpires ==
  /\ comOn /\ comOn' = FALSE
  /\ IF driveMode = "armed"
     THEN /\ compOn' = FALSE
          /\ UNCHANGED <<driveMode, passed, interval, wait, filter, turn, crossings>>
     ELSE /\ turn' = Advanced(interval) /\ passed' = FALSE
          /\ filter' = FilterAfterStep /\ CrossingCounted
          /\ IF driveMode = "running"
             THEN LET toOld == AverageOf(turn') > ExitInterval + OldRoutineReentryMargin
                  IN /\ driveMode' = IF toOld THEN "old" ELSE driveMode
                     /\ interval' = TimerInterval /\ wait' = WaitFor(TimerInterval)
                     /\ compOn' = (compOn \/ ~toOld)
             ELSE LET met == ChangeoverMet(crossings')
                  IN /\ driveMode' = IF met THEN "running" ELSE driveMode
                     /\ compOn' = (compOn \/ met)
                     /\ UNCHANGED <<interval, wait>>
  /\ UNCHANGED <<rotor, zcTimes, minCounts, disturbed>>

\* bemf_zero_cross on a crossing that persists.
ComparatorFires ==
  /\ compOn /\ passed /\ compOn' = FALSE
  /\ IF driveMode = "running" THEN zcTimes' = Shifted(rotor) /\ comOn' = TRUE
                          ELSE UNCHANGED <<zcTimes, comOn>>
  /\ UNCHANGED <<driveMode, rotor, passed, interval, wait, filter, minCounts, turn, crossings,
                 disturbed>>

------------------------------------------------------------------------------
(* The main loop and the rotor *)

MinCounts == IF crossings >= 5 THEN TargetCounts
             ELSE IF Reversible THEN TargetCounts + 1 ELSE 2 * TargetCounts

\* A pass publishes the count that the next tick copies.
MainPass ==
  /\ minCounts # MinCounts /\ minCounts' = MinCounts
  /\ UNCHANGED <<driveMode, rotor, passed, interval, zcTimes, wait, comOn, compOn, filter,
                 turn, crossings, disturbed>>

RotorPasses ==
  /\ driveMode # "armed" /\ ~passed /\ passed' = TRUE
  /\ UNCHANGED <<driveMode, rotor, interval, zcTimes, wait, comOn, compOn, filter, minCounts,
                 turn, crossings, disturbed>>

Blind == driveMode # "armed" /\ filter.found /\ ~comOn

\* A stall: the main loop falls back to polling, and the tick records the late
\* crossing and kicks.
StallKick ==
  /\ driveMode # "armed" /\ driveMode' = "old" /\ crossings' = 0
  /\ interval' = PolledInterval(StallCount) /\ zcTimes' = Shifted(StallCount)
  /\ wait' = WaitFor(PolledInterval(StallCount))
  /\ filter' = [filter EXCEPT !.found = TRUE] /\ comOn' = TRUE
  /\ UNCHANGED <<rotor, passed, compOn, minCounts, turn>>

StallFound == Blind /\ StallKick /\ UNCHANGED disturbed

Disturb(A) == disturbed < Disturbances /\ disturbed' = disturbed + 1 /\ A

\* A load on the rotor, noise in polling, a rotor held, a desync, a stop.
Disturbance ==
  \/ /\ Disturb(rotor' \in Rotors)
     /\ UNCHANGED <<driveMode, passed, interval, zcTimes, wait, comOn, compOn, filter,
                    minCounts, turn, crossings>>
  \/ disturbed < Disturbances /\ driveMode = "old" /\ filter' = Sampled(~passed)
       /\ ~CrossingDetected(filter') /\ disturbed' = disturbed + 1
       /\ compOn' = FALSE
       /\ UNCHANGED <<driveMode, rotor, passed, interval, zcTimes, wait, comOn, minCounts,
                      turn, crossings>>
  \/ Disturb(StallKick)
  \/ /\ Disturb(driveMode = "running" /\ driveMode' \in {"old", "armed"} /\ crossings' = 0)
     /\ UNCHANGED <<rotor, passed, interval, zcTimes, wait, comOn, compOn, filter,
                    minCounts, turn>>
  \/ /\ Disturb(driveMode = "old" /\ driveMode' = "armed" /\ crossings' = 0
                  /\ interval' = DesyncResetInterval)
     /\ UNCHANGED <<rotor, passed, zcTimes, wait, comOn, compOn, filter, minCounts, turn>>

TimingNext ==
  \/ PollTick \/ StartTick \/ IdleTick \/ HandoffTick
  \/ ComTimerExpires \/ ComparatorFires
  \/ MainPass \/ RotorPasses \/ StallFound \/ Disturbance

\* Interrupts come, the main loop runs, and the rotor is not held for ever.
TimingFairness ==
  /\ WF_timingVars(PollTick) /\ WF_timingVars(ComTimerExpires)
  /\ WF_timingVars(ComparatorFires) /\ WF_timingVars(MainPass)
  /\ WF_timingVars(RotorPasses) /\ WF_timingVars(StallFound)

TimingSpec == TimingInit /\ [][TimingNext]_timingVars /\ TimingFairness

------------------------------------------------------------------------------

(* The timing finds its rotor.  A motor that stays driven by a rotor that  *)
(* turns steadily ends with an interval within three ticks of the rotor's, *)
(* in interrupt mode when the rotor is faster than the changeover and in   *)
(* polling when it is slower than the return.  Averages of an earlier run, *)
(* a sum that forgets to drop what it replaces, or a filter that is not    *)
(* reset would leave the motor hunting between the two modes, or on an     *)
(* interval that is not its rotor's.                                       *)
RotorFollowed ==
  <>[](driveMode # "armed" =>
         /\ interval \in rotor - 3 .. rotor
         /\ rotor < ExitInterval => driveMode = "running"
         /\ rotor > ExitInterval + OldRoutineReentryMargin + 3 => driveMode = "old")
==============================================================================
