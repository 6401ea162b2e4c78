----------------------------- MODULE DutyControl -----------------------------
(***************************************************************************)
(* The duty cycle: what the control tick makes of the throttle, the ramp,  *)
(* the startup window, the kick-down after a lost rotor and the ceilings   *)
(* the main loop publishes.  The full tick and the steady one compute the  *)
(* same duty and are one action here; the mode is kept as far as the duty  *)
(* depends on it, and what the main loop publishes is free.                *)
(*                                                                         *)
(* Publications are counted, so that a behaviour ends with ticks alone.    *)
(***************************************************************************)
EXTENDS MotorConfig, Numeric

CONSTANTS
  DutyPages,      \* normalised settings pages
  DutyBoard,      \* the board's record
  DutyThrottles,  \* adjusted_input
  DutyCeilings,   \* duty_maximum, current_limit_adjust
  StallBoosts,    \* stall_protection_adjust
  Publications    \* how often the main loop publishes something new

ASSUME DutyAssumption ==
  /\ DutyPages \subseteq Pages /\ DutyBoard \in Boards
  /\ DutyThrottles \subseteq 0 .. 2047 /\ DutyCeilings \subseteq 0 .. 2000
  /\ StallBoosts \subseteq 0 .. 150 /\ Publications \in Nat

VARIABLES
  page,
  byVoltage,     \* voltage_based_ramp
  dutyMode,      \* "off" (disarmed), "idle" (armed), "sine" or "running"
  adjustedInput,
  crosses,       \* zero_crosses: 0, the end of the startup window, or of the slow ramp
  pace,          \* the commutation and the average interval, us
  ceiling,       \* the two ceilings
  stallBoost,
  kick,          \* a kick-down is requested
  setpoint,      \* duty_cycle_setpoint
  duty,          \* last, the duty the tick has put out
  rampCount,
  published

dutyVars == <<page, byVoltage, dutyMode, adjustedInput, crosses, pace, ceiling,
              stallBoost, kick, setpoint, duty, rampCount, published>>

DutyScaleMax == 2000
StartupZcBase == 30
RampStartupThreshold == 150

Crosses == {0, StartupZcBase, RampStartupThreshold}
Paces   == {50, 200, 5000}

Profile == RampProfile(page["maxRamp"])
Limits  == DutyLimits(page, DutyBoard)
Sine    == page["sineStart"] # 0

StartsAt == IF Sine THEN 127 ELSE 47

DutyInit ==
  /\ page \in DutyPages /\ byVoltage \in BOOLEAN
  /\ dutyMode = "idle" /\ adjustedInput = 0 /\ crosses = 0 /\ pace = 5000
  /\ ceiling = [maximum |-> DutyScaleMax, current |-> DutyScaleMax]
  /\ stallBoost = 0 /\ kick = FALSE
  /\ setpoint = 0 /\ duty = 0 /\ rampCount = 0 /\ published = 0

------------------------------------------------------------------------------
(* The tick's arithmetic *)

Within(n, low, high) == IF n < low THEN low ELSE AtMost(n, high)

\* compute_setpoint; startup ends sooner with a stronger stall protection.
SetpointFor(input, passed) ==
  LET inMin   == IF Sine THEN 137 ELSE 47
      dutyMin == IF Sine THEN AtMost(Limits.minimum + 40, DutyScaleMax) ELSE Limits.minimum
      mapped  == Interp(input, inMin, 2047, dutyMin, DutyScaleMax)
      startup == StartupZcBase \div 2^AtMost(page["stallProtection"], 5)
  IN IF passed < startup THEN Within(mapped, Limits.minStartup, Limits.startupMax)
                         ELSE mapped

\* At rest the filtered battery voltage is one of three: 8, 12 and 22 V.
VoltageChange == {Interp(v, 800, 2200, 10, 1) : v \in {800, 1200, 2200}}

\* The largest change of one ramp step.
RampChanges(from, passed) ==
  IF byVoltage THEN {IF pace > 100 THEN v ELSE AtMost(3 * v, 255) : v \in VoltageChange}
  ELSE IF passed < RampStartupThreshold \/ from < RampStartupThreshold THEN {Profile.startup}
  ELSE IF pace > 250 THEN {Profile.low} ELSE {Profile.high}

RampDue(count) == count > Profile.divider

\* Mutation: the counter starts anew at every tick.
CountForgotten(count) == 0

CountAfter(count) == IF RampDue(count) THEN 0 ELSE count

Ramped(from, to, change) ==
  IF to > from + change THEN from + change
  ELSE IF from > to + change THEN from - change ELSE to

\* kick_down
KickedDown(from) == AtMost(from, Limits.minStartup \div 2)

\* From a starting duty towards a setpoint: ramp, boost, ceilings, finalize.
RampedDuty(from, to, boost, passed) ==
  LET count == rampCount + 1
  IN \E change \in RampChanges(from, passed) :
       LET cycle == IF RampDue(count) THEN Ramped(from, to, change) ELSE from
       IN /\ rampCount' = CountAfter(count)
          /\ duty' = AtMost(AtMost(cycle + boost, ceiling.maximum), ceiling.current)

------------------------------------------------------------------------------
(* The control tick *)

\* What the first half of the tick decides: mode, setpoint and zero crosses.
Ticked(mode, target, passed) ==
  LET starts == dutyMode = "idle" /\ mode = "running"
      origin == IF starts THEN Limits.minStartup ELSE duty
      from   == IF kick /\ mode = "running" THEN KickedDown(origin) ELSE origin
  IN /\ dutyMode' = mode /\ setpoint' = target /\ crosses' = passed
     /\ kick' = FALSE
     /\ RampedDuty(from, target, IF mode = "running" THEN stallBoost ELSE 0, passed)

\* A handoff is queued by the main loop and taken above SINE_CHANGEOVER_THROTTLE.
DutyTick ==
  /\ \/ dutyMode = "off" /\ Ticked("off", setpoint, crosses)
     \/ /\ dutyMode # "off" /\ Sine /\ adjustedInput < StartsAt
        /\ Ticked("sine", 0, 0)
     \/ /\ dutyMode = "sine" /\ adjustedInput >= StartsAt
        /\ \/ Ticked("sine", setpoint, crosses)
           \/ adjustedInput > 200 /\ Ticked("running", SetpointFor(adjustedInput, crosses), crosses)
     \/ /\ dutyMode \in {"idle", "running"} /\ adjustedInput >= StartsAt
        /\ Ticked("running", SetpointFor(adjustedInput, crosses), crosses)
     \/ /\ dutyMode \in {"idle", "running"} /\ ~Sine /\ adjustedInput < StartsAt
        /\ Ticked(dutyMode, 0, IF dutyMode = "idle" THEN 0 ELSE crosses)
  /\ UNCHANGED <<page, byVoltage, adjustedInput, pace, ceiling, stallBoost, published>>

\* A tick that finds AllOff does nothing else, and drops the kick-down.
AllOffTick ==
  /\ kick' = FALSE
  /\ UNCHANGED <<page, byVoltage, dutyMode, adjustedInput, crosses, pace, ceiling, stallBoost,
                 setpoint, duty, rampCount, published>>

------------------------------------------------------------------------------
(* The main loop and the commutation *)

Publish(A) == published < Publications /\ published' = published + 1 /\ A

\* process_input, duty_ceiling, the current limit and the stall boost.
Shape ==
  /\ Publish(\/ adjustedInput' \in DutyThrottles /\ UNCHANGED <<ceiling, stallBoost>>
             \/ /\ \E limit \in DutyCeilings, which \in DOMAIN ceiling :
                     ceiling' = [ceiling EXCEPT ![which] = limit]
                /\ UNCHANGED <<adjustedInput, stallBoost>>
             \/ /\ page["stallProtection"] # 0 /\ dutyMode = "running"
                /\ stallBoost' \in StallBoosts /\ UNCHANGED <<adjustedInput, ceiling>>)
  /\ UNCHANGED <<page, byVoltage, dutyMode, crosses, pace, kick, setpoint, duty, rampCount>>

\* Zero crossings accepted, or a stall that sets them back.
Turning ==
  /\ dutyMode = "running"
  /\ Publish(crosses' \in Crosses /\ pace' \in Paces)
  /\ UNCHANGED <<page, byVoltage, dutyMode, adjustedInput, ceiling, stallBoost, kick, setpoint,
                 duty, rampCount>>

\* Desync: the kick-down is requested before the motor is stopped.
Desync ==
  /\ dutyMode = "running" /\ Publish(kick' = TRUE) /\ crosses' = 0
  /\ UNCHANGED <<page, byVoltage, dutyMode, adjustedInput, pace, ceiling, stallBoost, setpoint,
                 duty, rampCount>>

\* StopMotor, Disarm and Arm.
Switch ==
  /\ Publish(\/ dutyMode = "running" /\ dutyMode' = "idle"
             \/ dutyMode # "off" /\ dutyMode' = "off"
             \/ dutyMode = "off" /\ adjustedInput = 0 /\ dutyMode' = "idle")
  /\ UNCHANGED <<page, byVoltage, adjustedInput, crosses, pace, ceiling, stallBoost, kick, setpoint,
                 duty, rampCount>>

DutyNext == DutyTick \/ AllOffTick \/ Shape \/ Turning \/ Desync \/ Switch

\* The timer's interrupt always comes, and does not always find AllOff.
DutySpec == DutyInit /\ [][DutyNext]_dutyVars /\ WF_dutyVars(DutyTick)

------------------------------------------------------------------------------

(* The ramp gets there: once the main loop publishes nothing new, the duty *)
(* of a driven motor reaches its setpoint, or the lower of the ceilings,   *)
(* and stays.  It is the ramp's divider and its two comparisons that could *)
(* leave it short, or swinging around the target; a settled duty is what   *)
(* the speed of the motor and the timing of the commutation rest on.       *)
DutySettles ==
  <>[](dutyMode = "running" /\ stallBoost = 0 =>
         duty = AtMost(AtMost(setpoint, ceiling.maximum), ceiling.current))
==============================================================================
