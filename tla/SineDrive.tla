------------------------------ MODULE SineDrive ------------------------------
(***************************************************************************)
(* The sinusoidal start: three positions in a sine table that the main     *)
(* loop turns by one degree a pass (sine.rs), the compare values they give *)
(* the three timer channels, the delay until the next step, and the        *)
(* handoff to six-step drive (service_sine, tick_sine of system.rs).       *)
(*                                                                         *)
(* The mode machine around it is in MotorControl; here the motor is in     *)
(* sine mode, and what a handler may do to it is one step: the throttle or *)
(* the direction changes, or a handoff is taken and six-step drive leaves  *)
(* some step behind.                                                       *)
(***************************************************************************)
EXTENDS Integers, Sequences, Numeric

CONSTANTS
  SineThrottles,   \* the values of adjusted_input
  Poles,           \* config.motor_poles
  SinePower,       \* config.sine_mode_power
  GateOffset,      \* the dead time override, added to every compare
  SinePeriod       \* the timer's auto-reload

THROTTLE_MIN_SIGNAL      == 47
SINE_SLOW_STEP_THROTTLE  == 137
SINE_CHANGEOVER_THROTTLE == 200
SINE_CHANGEOVER_STEP     == 5
SINE_MEDIUM_STEP_DELAY   == 120

ASSUME SineAssumption ==
  /\ SineThrottles \subseteq 0 .. 2047
  /\ Poles \in 0 .. 255 /\ SinePower \in 0 .. 255
  /\ GateOffset \in Nat /\ SinePeriod \in Nat

VARIABLES
  phases,        \* sine_positions: degrees of the three channels
  driving,       \* duty.sine_outputs_on
  sineInput,         \* shared.adjusted_input
  sineForward,           \* shared.forward
  lastStep,      \* the commutation step six-step drive left behind
  queued,        \* shared.changeover_step: 0, or the step to hand over to
  pause          \* the delay after this pass, in us; 0 for none

sineVars == <<phases, driving, sineInput, sineForward, lastStep, queued, pause>>

Bridge == INSTANCE PhaseDriver

------------------------------------------------------------------------------
(* The table *)

\* PWM_SIN from 0 to 90 degrees.
QuarterWave == <<
  180, 183, 186, 189, 193, 196, 199, 202, 205, 208, 211, 214, 217, 220, 224, 227, 230, 233,
  236, 239, 242, 245, 247, 250, 253, 256, 259, 262, 265, 267, 270, 273, 275, 278, 281, 283,
  286, 288, 291, 293, 296, 298, 300, 303, 305, 307, 309, 312, 314, 316, 318, 320, 322, 324,
  326, 327, 329, 331, 333, 334, 336, 337, 339, 340, 342, 343, 344, 346, 347, 348, 349, 350,
  351, 352, 353, 354, 355, 355, 356, 357, 357, 358, 358, 359, 359, 359, 360, 360, 360, 360,
  360>>

\* The other three quarters mirror the first.
PwmSin(degree) ==
  LET half == degree % 180
      up   == QuarterWave[1 + (IF half <= 90 THEN half ELSE 180 - half)]
  IN IF degree < 180 THEN up ELSE 360 - up

\* sine_drive for one phase of a sine start.
Compare(degree) ==
  LET power == IF SinePower = 0 THEN 1 ELSE SinePower
  IN ((((PwmSin(degree) + GateOffset) * SinePeriod) \div 2000) * power) \div 10

------------------------------------------------------------------------------
(* Positions *)

Channels == {"a", "b", "c"}

\* PhasePositions::new
StandardPhases == [a |-> 0, b |-> 120, c |-> 240]

\* PhasePositions::from_step
FromStep(step) ==
  LET a == ((step - 1) * 60 + 180) % 360
  IN [a |-> a, b |-> (a + 119) % 360, c |-> (a + 239) % 360]

\* Mutation: forward increments.
WalkedBack(p, forward) == [ch \in Channels |-> (p[ch] + (IF forward THEN 1 ELSE 359)) % 360]

\* PhasePositions::advance
Turned(p, forward) == [ch \in Channels |-> (p[ch] + (IF forward THEN 359 ELSE 1)) % 360]

\* The changeover moves phase a to 0 and the other two along with it.
Rebased(p) == [ch \in Channels |-> (p[ch] - p["a"]) % 360]

\* The delay of a slow step falls with the throttle; a pole count of 0 means 14.
SlowDelay(throttle) ==
  LET poles == IF Poles = 0 THEN 14 ELSE Poles
      most  == IF throttle < 120 THEN throttle ELSE 120
  IN Interp(most, 48, 120, 7000 \div poles, 810 \div poles)

------------------------------------------------------------------------------
(* The service *)

SineInit ==
  /\ phases = StandardPhases /\ driving = FALSE
  /\ sineInput \in SineThrottles /\ sineForward \in BOOLEAN /\ lastStep \in 1 .. 6
  /\ queued = 0 /\ pause = 0

\* The first pass starts where six-step drive stopped.
EntryPhases == IF driving THEN phases ELSE FromStep(lastStep)

\* A throttle at rest lets go of the bridge.
SineIdle ==
  /\ queued = 0 /\ sineInput <= THROTTLE_MIN_SIGNAL
  /\ driving' = FALSE /\ pause' = 0
  /\ UNCHANGED <<phases, sineInput, sineForward, lastStep, queued>>

\* sine_step below the changeover throttle.
SineStep ==
  /\ queued = 0 /\ sineInput > THROTTLE_MIN_SIGNAL /\ sineInput <= SINE_CHANGEOVER_THROTTLE
  /\ phases' = Turned(EntryPhases, sineForward) /\ driving' = TRUE
  /\ pause' = IF sineInput < SINE_SLOW_STEP_THROTTLE THEN SlowDelay(sineInput)
                                                 ELSE SINE_MEDIUM_STEP_DELAY
  /\ UNCHANGED <<sineInput, sineForward, lastStep, queued>>

\* sine_step above it: one step, the shift to 0, and the handoff in the same pass.
SineChangeover ==
  /\ queued = 0 /\ sineInput > SINE_CHANGEOVER_THROTTLE
  /\ phases' = Rebased(Turned(EntryPhases, sineForward)) /\ driving' = FALSE
  /\ queued' = SINE_CHANGEOVER_STEP /\ pause' = 0
  /\ UNCHANGED <<sineInput, sineForward, lastStep>>

\* The tick takes the handoff; six-step drive ends in some step.
HandoffTaken ==
  /\ queued # 0
  /\ queued' = 0 /\ lastStep' \in 1 .. 6
  /\ UNCHANGED <<phases, driving, sineInput, sineForward, pause>>

\* The tick cancels it: the throttle was released or the motor disarmed.
HandoffCancelled ==
  /\ queued # 0 /\ queued' = 0
  /\ UNCHANGED <<phases, driving, sineInput, sineForward, lastStep, pause>>

\* The throttle or the direction changes.
SineAsked ==
  /\ \/ sineInput' \in SineThrottles \ {sineInput} /\ UNCHANGED sineForward
     \/ sineForward' = ~sineForward /\ UNCHANGED sineInput
  /\ UNCHANGED <<phases, driving, lastStep, queued, pause>>

SineNext == SineIdle \/ SineStep \/ SineChangeover \/ HandoffTaken \/ HandoffCancelled
              \/ SineAsked

SineSpec == SineInit /\ [][SineNext]_sineVars

------------------------------------------------------------------------------
(* The field *)

\* Leg A is switched by channel 3 of the timer and leg C by channel 1.
ChannelOf == [A |-> "c", B |-> "b", C |-> "a"]

\* The steps of the six-step table whose driven leg has the highest compare
\* value and whose sinking leg the lowest: where a field stands in that table.
Sectors(p) ==
  LET level == [leg \in Bridge!Legs |-> Compare(p[ChannelOf[leg]])]
  IN {s \in 1 .. 6 : \A leg \in Bridge!Legs :
        /\ level[leg] <= level[Bridge!Driven(s)]
        /\ level[leg] >= level[Bridge!Sinking(s)]}

\* However the throttle and the direction change, a turning field walks through
\* the sectors of the six-step table in the table's own order, sector by sector,
\* three phases a third of a turn apart; and at the handoff of a forward start
\* it stands in the sector just before the step it hands over to.  The table is
\* walked by interrupt handlers and the field by the main loop, with two tables
\* and two wirings.
FieldWalksTable ==
  [][/\ SineStep => \A s \in Sectors(phases') :
          s \in Sectors(EntryPhases) \cup {Bridge!StepAfter(q, sineForward) : q \in Sectors(EntryPhases)}
     /\ SineChangeover /\ sineForward =>
          \A s \in Sectors(phases') : Bridge!StepAfter(s, sineForward) = queued'
     /\ driving' => \A s \in Sectors(phases') : Sectors(phases') \subseteq
          {s, Bridge!StepAfter(s, TRUE), Bridge!StepAfter(s, FALSE)}]_sineVars
==============================================================================
