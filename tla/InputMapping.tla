---------------------------- MODULE InputMapping ----------------------------
(***************************************************************************)
(* How a stick position of a bidirectional input becomes a throttle and a  *)
(* direction (input_mapping.rs).  The four functions of the source are two *)
(* scales, the DShot and the servo one, under two disciplines: reversal    *)
(* gated on the motor's speed, and the RC-car handshake.                   *)
(***************************************************************************)
EXTENDS Numeric

ThrottleMinSignal    == 47
DshotMaxThrottle     == 2047
DshotBidirBrakeLimit == 1047
BidirMidpoint        == 1048
ServoCenter          == 1000
SineDeadBand         == 30
SineMidThrottle      == 160

------------------------------------------------------------------------------
(* The two scales: which way a position points, and how far *)

DshotSide(n) ==
  IF n > DshotBidirBrakeLimit THEN "forward"
  ELSE IF n > ThrottleMinSignal THEN "backward" ELSE "center"

DshotAmount(n) ==
  LET steps == IF n > DshotBidirBrakeLimit THEN n - BidirMidpoint
                                           ELSE n - (ThrottleMinSignal + 1)
  IN 2 * steps + ThrottleMinSignal - 1

ServoSide(n, deadBand) ==
  IF n > ServoCenter + 2 * deadBand THEN "forward"
  ELSE IF n < ServoCenter - 2 * deadBand THEN "backward" ELSE "center"

ServoAmount(n, deadBand) ==
  IF n > ServoCenter + 2 * deadBand
  THEN Interp(n, ServoCenter + 2 * deadBand, 2000, ThrottleMinSignal, DshotMaxThrottle)
  ELSE Interp(n, 0, ServoCenter - 2 * deadBand, DshotMaxThrottle, ThrottleMinSignal)

\* The direction that a side stands for, under the reversal setting.
Wanted(side, reversed) == (side = "forward") # reversed

------------------------------------------------------------------------------
(* The two disciplines.  A result: throttle, reverse now, brake. *)

Result(adjusted, reverse, brake) ==
  [adjusted |-> adjusted, reverse |-> reverse, brake |-> brake]

Idle    == Result(0, FALSE, FALSE)
Drive(t) == Result(t, FALSE, FALSE)
Turn(t) == Result(t, TRUE, FALSE)
Brake   == Result(0, FALSE, TRUE)

\* Mutation: the gate is not consulted.
UngatedReversal(side, amount, forward, want, can) ==
  IF side = "center" THEN Idle
  ELSE IF forward = want THEN Drive(amount) ELSE Turn(amount)

\* Mutation: a motor too fast to reverse is driven on instead of let coast.
BlockedDrives(side, amount, forward, want, can) ==
  IF side = "center" THEN Idle
  ELSE IF forward = want \/ ~can THEN Drive(amount) ELSE Turn(amount)

SpeedGated(side, amount, forward, want, can) ==
  IF side = "center" THEN Idle
  ELSE IF forward = want THEN Drive(amount)
  ELSE IF can THEN Turn(amount) ELSE Idle

RcCar(side, amount, forward, want, braking, returned) ==
  IF side = "center" THEN Idle
  ELSE IF forward # want THEN IF returned THEN Turn(amount) ELSE Brake
  ELSE IF braking THEN Brake ELSE Drive(amount)

------------------------------------------------------------------------------
(* Sine start *)

\* sine_start_map: a slow first part up to the changeover, then the rest.
SineStartMap(adjusted, level) ==
  LET changeover == 20 * level
  IN IF adjusted < SineDeadBand THEN 0
     ELSE IF adjusted < changeover
     THEN Interp(adjusted, SineDeadBand, changeover, ThrottleMinSignal, SineMidThrottle)
     ELSE Interp(adjusted, changeover, DshotMaxThrottle, SineMidThrottle, DshotMaxThrottle)
==============================================================================
