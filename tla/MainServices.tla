---------------------------- MODULE MainServices ----------------------------
(***************************************************************************)
(* The periodic work of the main loop that hangs on the control clock      *)
(* (MainState::tick, shared_state.rs, current.rs): the charge drawn from   *)
(* the battery, the phase of the LED, the 1 kHz measurements, the interval *)
(* telemetry, and what is published for the interrupt handlers in the same *)
(* pass: duty ceiling, PWM period, filter level, confirmations.            *)
(*                                                                         *)
(* The control interrupt counts; the main loop is late by any number of    *)
(* ticks up to one wrap of the clock.                                      *)
(***************************************************************************)
EXTENDS Integers, Numeric

CONSTANTS
  ClockMod,        \* the clock counts modulo this (2^32)
  LedHalf,         \* LED_BLINK_HALF_PERIOD
  PerMeasure,         \* PID_LOOP_DIVIDER: control ticks per measurement
  CounterLimit,    \* the largest value of one_khz_counter (255)
  TelemetryEvery,  \* telemetry_interval_ticks, 0 when it is off
  FullCharge,      \* the charge that fills the telemetry field
  Currents,        \* what the current filter may read, in centiamps
  Speeds,          \* what the handlers have published: a set of records
  Degrees,         \* temperatures
  Rating            \* [kv, poles, limit, bidirectional, counts, reload, cpuMhz, variable]

ASSUME ServicesAssumption ==
  /\ ClockMod \in Nat \ {0, 1} /\ LedHalf \in Nat \ {0} /\ PerMeasure \in Nat \ {0}
  /\ CounterLimit \in Nat /\ CounterLimit >= PerMeasure
  /\ TelemetryEvery \in Nat /\ FullCharge \in Nat /\ Currents \subseteq Int
  /\ Rating.counts <= 127

VARIABLES
  clock,           \* shared.control_ticks
  kiloHertz,       \* shared.one_khz_counter
  sinceTelemetry,  \* shared.telem_counter
  telemetryDue,    \* shared.send_telemetry
  seen,            \* last_control_tick; -1 before the first pass
  ledPhase,        \* led_phase
  charge,          \* consumed_charge.centiamp_ticks
  current,         \* measurements.actual_current
  celsius,         \* measurements.degrees_celsius
  published,       \* duty_maximum, tim1_arr, filter_level, min_bemf_counts
  total,           \* history: ticks since the first pass, modulo a LED period
  drawn,           \* history: the charge those ticks drew
  sinceMeasured    \* history: ticks since the last measurement, up to PerMeasure

clockVars    == <<clock, kiloHertz, sinceTelemetry, telemetryDue>>
measureVars  == <<seen, ledPhase, charge, current, celsius, published>>
clockHistory == <<total, drawn, sinceMeasured>>
serviceVars  == <<clockVars, measureVars, clockHistory>>

------------------------------------------------------------------------------
(* What a pass publishes *)

Clamp(x, low, high) == IF x < low THEN low ELSE IF x > high THEN high ELSE x
Larger(a, b) == IF a >= b THEN a ELSE b

\* The speed part of duty_ceiling: slow motors of a known speed get less.
SpeedCeiling(eCom) ==
  LET kErpm == IF eCom > 0 THEN (600000 \div eCom) \div 10 ELSE 0
      pairs == Larger(32 \div Larger(Rating.poles, 1), 1)
      low   == (Rating.kv \div 100) \div pairs
      high  == (Rating.kv \div 12) \div pairs
  IN IF Rating.kv < 300 \/ kErpm = 0 \/ high <= low THEN 2000
     ELSE Clamp(Interp(kErpm, low, high, 400, 2000), 1, 2000)

\* The temperature part: from the limit on, falling to 1.
HeatCeiling(degrees) ==
  IF degrees <= Rating.limit THEN 2000
  ELSE Clamp(Interp(degrees, Rating.limit - 10, Rating.limit + 10, 1000, 1), 1, 2000)

DutyCeiling(eCom, degrees) ==
  IF SpeedCeiling(eCom) <= HeatCeiling(degrees) THEN SpeedCeiling(eCom) ELSE HeatCeiling(degrees)

\* variable_pwm_mode1: half the period for a fast motor, all of it for a slow one.
PeriodByInterval(interval) ==
  Clamp(Interp(interval, 96, 200, Rating.reload \div 2, Rating.reload),
        Rating.reload \div 2, Rating.reload)

\* variable_pwm_mode2: proportional to the average interval, between 50 and 125 us
\* at 2 MHz.
PeriodByAverage(average) ==
  Wrap((IF average = 0 THEN 250 ELSE Clamp(average, 100, 250)) * (Rating.cpuMhz \div 9), 16)

Period(s) ==
  CASE Rating.variable = 1 -> PeriodByInterval(s.interval)
    [] Rating.variable = 2 -> PeriodByAverage(s.average)
    [] OTHER -> Rating.reload

\* Confirmations a crossing needs: more while the motor starts.
Counts(crossings) ==
  IF crossings >= 5 THEN Rating.counts
  ELSE IF Rating.bidirectional THEN Rating.counts + 1 ELSE 2 * Rating.counts

FilterLevel(s) ==
  IF s.crossings < 100 /\ s.interval > 500 THEN 12
  ELSE IF s.interval < 50 THEN 2
  ELSE Interp(s.average, 100, 500, 3, 12)

Published(s, degrees) ==
  [ceiling |-> DutyCeiling(s.eCom, degrees), period |-> Period(s),
   counts |-> Counts(s.crossings), filter |-> FilterLevel(s)]

------------------------------------------------------------------------------
(* The clock *)

ServicesInit ==
  /\ clock \in {0, ClockMod - 2} /\ kiloHertz = 0 /\ sinceTelemetry = 0 /\ telemetryDue = FALSE
  /\ seen = -1 /\ ledPhase = 0 /\ charge = 0 /\ current = 0
  /\ celsius \in Degrees
  /\ published = [ceiling |-> 2000, period |-> Rating.reload, counts |-> Rating.counts,
                  filter |-> 5]
  /\ total = 0 /\ drawn = 0 /\ sinceMeasured = 0

Saturated(n, limit) == IF n >= limit THEN limit ELSE n + 1

\* The counters at the start of every control tick.
ClockTick ==
  /\ clock' = (clock + 1) % ClockMod
  /\ kiloHertz' = Saturated(kiloHertz, CounterLimit)
  /\ LET due == TelemetryEvery # 0 /\ sinceTelemetry + 1 >= TelemetryEvery
     IN /\ sinceTelemetry' = IF TelemetryEvery = 0 THEN sinceTelemetry
                             ELSE IF due THEN 0 ELSE sinceTelemetry + 1
        /\ telemetryDue' = (telemetryDue \/ due)
  /\ IF seen = -1 THEN UNCHANGED <<total, drawn>>
     ELSE /\ total' = (total + 1) % (2 * LedHalf)
          /\ drawn' = Clamp(drawn + Larger(current, 0), 0, FullCharge)
  /\ sinceMeasured' = Saturated(sinceMeasured, PerMeasure)
  /\ UNCHANGED measureVars

------------------------------------------------------------------------------
(* A pass of the main loop *)

\* Mutation: a clock that wrapped counts as no time.
PlainElapsed == IF clock < seen THEN 0 ELSE clock - seen

Elapsed == (clock - seen) % ClockMod

\* ConsumedCharge::accumulate with the current held since the last pass.
ChargeAfter(elapsed) ==
  IF elapsed = 0 \/ current <= 0 \/ charge = FullCharge THEN charge
  ELSE Clamp(charge + current * elapsed, 0, FullCharge)

\* The LED's phase: one period is taken off at most.
LedAfter(elapsed) ==
  LET phase == ledPhase + (elapsed % (2 * LedHalf))
  IN IF phase >= 2 * LedHalf THEN phase - 2 * LedHalf ELSE phase

\* The measurements, if a millisecond has passed by the clock.
Measure ==
  IF kiloHertz >= PerMeasure
  THEN /\ kiloHertz' = 0 /\ sinceMeasured' = 0
       /\ current' \in Currents /\ celsius' \in Degrees
  ELSE UNCHANGED <<kiloHertz, sinceMeasured, current, celsius>>

MainPassServices ==
  /\ LET elapsed == IF seen = -1 THEN 0 ELSE Elapsed
     IN charge' = ChargeAfter(elapsed) /\ ledPhase' = LedAfter(elapsed)
  /\ seen' = clock
  /\ Measure
  /\ telemetryDue' = FALSE
  /\ \E s \in Speeds : published' = Published(s, celsius')
  /\ UNCHANGED <<clock, sinceTelemetry, total, drawn>>

\* Main comes round before the clock has gone round once.
InTime == seen # -1 => (clock + 1 - seen) % ClockMod # 0

ServicesNext == (InTime /\ ClockTick) \/ MainPassServices

ServicesSpec == ServicesInit /\ [][ServicesNext]_serviceVars

------------------------------------------------------------------------------
(* Properties *)

\* However late the main loop is and wherever the clock wraps, no tick is lost or
\* counted twice: after a pass the charge is what the ticks so far drew at the
\* current known at each of them, the LED stands where the ticks put it, and
\* measurements are a millisecond or more apart (MainState::tick, "Delayed
\* servicing retains elapsed time").
ClockAccounts ==
  [][MainPassServices =>
       /\ charge' = drawn /\ ledPhase' = total
       /\ current' # current => sinceMeasured >= PerMeasure]_serviceVars
==============================================================================
