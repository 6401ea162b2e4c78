------------------------------ MODULE Regulators ------------------------------
(***************************************************************************)
(* The three integer regulators of the main loop (pid.rs, PidState): the   *)
(* current limit, which pulls the duty's ceiling down, the stall boost,    *)
(* and the speed control, which overrides the throttle.  Each has a PID    *)
(* with a bounded integral and output, and accumulates that output in a    *)
(* bounded sum of its own.  One of them is examined in a behaviour.        *)
(***************************************************************************)
EXTENDS Integers

CONSTANTS
  CurrentGains,  \* the configured gains: records kp, ki, kd
  FloorDuty,     \* minimum_duty
  Readings,      \* by regulator: what it measures
  Targets,       \* by regulator: what it compares that with
  Loads          \* how often the reading changes or the motor stops or starts

Loops == {"current", "stall", "speed"}

ASSUME RegulatorAssumption ==
  /\ \A g \in CurrentGains : {g.kp, g.ki, g.kd} \subseteq Nat
  /\ FloorDuty \in 0 .. 2000
  /\ \A l \in Loops : Readings[l] \subseteq Int /\ Targets[l] \in Int
  /\ Loads \in Nat

VARIABLES
  loop, gains,
  integral, lastError,
  sum,        \* current_limit_adjust, stall_adjust or input_override
  engaged,    \* the motor runs
  reading,
  loaded

regVars == <<loop, gains, integral, lastError, sum, engaged, reading, loaded>>

IntegralLimit == IF loop = "current" THEN 20000 ELSE 10000
OutputLimit   == IF loop = "current" THEN 100000 ELSE 50000

FixedGains(l) == IF l = "stall" THEN [kp |-> 1, ki |-> 0, kd |-> 50]
                                ELSE [kp |-> 10, ki |-> 0, kd |-> 100]

\* The bounds of the sum.
Least == IF loop = "current" THEN FloorDuty ELSE 0
Most  == IF loop = "current" THEN 2000
         ELSE IF loop = "stall" THEN 150 * 10000 ELSE 2047 * 10000

Between(n, least, most) == IF n < least THEN least ELSE IF n > most THEN most ELSE n

\* Integer division that rounds towards zero.
Quotient(n, by) == IF n < 0 THEN -((-n) \div by) ELSE n \div by

RegInit ==
  /\ loop \in Loops
  /\ gains \in IF loop = "current" THEN CurrentGains ELSE {FixedGains(loop)}
  /\ integral = 0 /\ lastError = 0
  /\ sum = IF loop = "current" THEN 2000 ELSE 0
  /\ engaged = FALSE /\ reading \in Readings[loop] /\ loaded = 0

------------------------------------------------------------------------------

Error == reading - Targets[loop]


Bounded(n) == Between(n, -IntegralLimit, IntegralLimit)

PidOutput ==
  Between(Error * gains.kp + Bounded(integral + Error * gains.ki)
            + gains.kd * (Error - lastError),
          -OutputLimit, OutputLimit)

\* Mutation: the current limit is moved with the error instead of against it.
MovedAlong(out) == Between(sum + Quotient(out, 10000), Least, Most)

Moved(out) ==
  Between(IF loop = "current" THEN sum - Quotient(out, 10000) ELSE sum + out, Least, Most)

\* tick_current_limit, tick_stall or tick_speed_control, once in a millisecond.  Idle,
\* the current limit is lifted and the other two keep what they have.
Regulate ==
  /\ IF engaged
     THEN /\ integral' = Bounded(integral + Error * gains.ki)
          /\ lastError' = Error
          /\ sum' = Moved(PidOutput)
     ELSE /\ sum' = IF loop = "current" THEN 2000 ELSE sum
          /\ UNCHANGED <<integral, lastError>>
  /\ UNCHANGED <<loop, gains, engaged, reading, loaded>>

\* The motor starts or stops, or its load changes.
LoadChanges ==
  /\ loaded < Loads /\ loaded' = loaded + 1
  /\ \/ engaged' = ~engaged /\ UNCHANGED reading
     \/ reading' \in Readings[loop] /\ UNCHANGED engaged
  /\ UNCHANGED <<loop, gains, integral, lastError, sum>>

RegNext == Regulate \/ LoadChanges

RegSpec == RegInit /\ [][RegNext]_regVars /\ WF_regVars(Regulate)

------------------------------------------------------------------------------

\* An error that moves the sum in the end; a weaker one is lost in the division.
Telling == IF loop = "current" THEN (Error * gains.kp) \notin -9999 .. 9999 ELSE Error # 0

(* Under a load that stays, a regulator goes to the end that load asks for *)
(* and stays there, whatever it had accumulated under earlier loads: too   *)
(* much current brings the ceiling down to the minimum duty and too little *)
(* lifts it altogether, a slow rotor gets the whole boost or throttle and  *)
(* a fast one none.  An integral that winds up, a wrong sign or a bound    *)
(* that sticks would leave the motor limited for good.                     *)
RegulatorsSettle ==
  <>[](engaged /\ Telling =>
         sum = IF (Error > 0) = (loop = "current") THEN Least ELSE Most)
==============================================================================
