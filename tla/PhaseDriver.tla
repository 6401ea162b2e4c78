----------------------------- MODULE PhaseDriver -----------------------------
(***************************************************************************)
(* The six gate pins of the bridge and the PWM timer behind them.  A pin   *)
(* is an output, at the level of its latch, or is given to the timer       *)
(* (alternate mode).  Every operation of the driver is the sequence of its *)
(* register writes: the gates see each of them, in that order.             *)
(*                                                                         *)
(* Pure operators, for the pins of the supported boards: the low pins of   *)
(* phases A and B are on one port, the other four on the other.            *)
(***************************************************************************)
EXTENDS Naturals, Sequences

Legs  == {"A", "B", "C"}
High(leg) == <<leg, "high">>
Low(leg)  == <<leg, "low">>
Pins  == Legs \X {"high", "low"}
PortB == {Low("A"), Low("B")}
PortA == Pins \ PortB

------------------------------------------------------------------------------
(* The six-step table *)

\* step_legs: the driven leg and the leg that sinks, of each step.
Driven(step)  == CASE step \in {1, 6} -> "A" [] step \in {4, 5} -> "B" [] OTHER -> "C"
Sinking(step) == CASE step \in {3, 4} -> "A" [] step \in {1, 2} -> "B" [] OTHER -> "C"

\* Commutation::advance and its edge.
StepAfter(step, forward) ==
  IF forward THEN IF step = 6 THEN 1 ELSE step + 1
             ELSE IF step = 1 THEN 6 ELSE step - 1
Rising(step, forward) == (step % 2 = 1) = forward

------------------------------------------------------------------------------
(* Register writes *)

\* One write: latches that go high and low, pins that become outputs or are
\* given to the timer, and what becomes of the timer's registers.
Pin(up, down, out, alt) ==
  [up |-> up, down |-> down, out |-> out, alt |-> alt, timer |-> "none"]
Timer(what) == [up |-> {}, down |-> {}, out |-> {}, alt |-> {}, timer |-> what]

Bsrr(up, down)  == Pin(up, down, {}, {})
Moder(out, alt) == Pin({}, {}, out, alt)

\* The pins that are given to the timer when a leg is driven.
Timed(leg, mode) ==
  IF mode = "complementary" THEN {High(leg), Low(leg)} ELSE {High(leg)}

\* plan_step: the pins it sets and gives away; every other pin of the bridge is
\* reset and becomes an output.
StepUp(step)        == {Low(Sinking(step))}
StepAlt(step, mode) == Timed(Driven(step), mode)

BsrrOf(port, step) == Bsrr(StepUp(step) \cap port, port \ StepUp(step))
ModerOf(port, step, mode) ==
  Moder(port \ StepAlt(step, mode), StepAlt(step, mode) \cap port)

Ordered(first, second, swap) == IF swap THEN <<second, first>> ELSE <<first, second>>

\* com_step by apply_plan: a port whose gate is cleared goes first, and so does
\* one that takes no pin for the timer.  Other steps change nothing.
ComStep(step, mode) ==
  IF step \notin 1 .. 6 THEN <<>>
  ELSE Ordered(BsrrOf(PortA, step), BsrrOf(PortB, step), StepUp(step) \subseteq PortA)
       \o Ordered(ModerOf(PortA, step, mode), ModerOf(PortB, step, mode),
                  StepAlt(step, mode) \cap PortB = {})

\* phase_float
Float(leg) ==
  <<Bsrr({}, {Low(leg)}), Moder({Low(leg)}, {}),
    Bsrr({}, {High(leg)}), Moder({High(leg)}, {})>>

AllOff == Float("A") \o Float("B") \o Float("C")

\* phase_pwm
LegPwm(leg, mode) ==
  IF mode = "diode"
  THEN <<Moder({Low(leg)}, {}), Bsrr({}, {Low(leg)}), Moder({}, {High(leg)})>>
  ELSE <<Moder({}, {Low(leg)}), Bsrr({}, {Low(leg)}), Moder({}, {High(leg)})>>

AllPwm(mode) == LegPwm("A", mode) \o LegPwm("B", mode) \o LegPwm("C", mode)

\* proportional_brake
HighOff(leg) == <<Moder({High(leg)}, {}), Bsrr({}, {High(leg)})>>
LowTimed(leg) == <<Moder({}, {Low(leg)})>>
ProportionalBrake ==
  HighOff("A") \o HighOff("B") \o HighOff("C")
    \o LowTimed("A") \o LowTimed("B") \o LowTimed("C")

\* The timer: a compare value is buffered until the period ends or it is latched.
Duty(amount)  == <<Timer(amount)>>
Latch         == <<Timer("latch")>>

\* Mutation: the zero compare is left to the end of the period.
DutyAtPeriodEnd == Duty("zero")

DutyOff       == Duty("zero") \o Latch
Divider(what) == <<Timer(what)>>
==============================================================================
