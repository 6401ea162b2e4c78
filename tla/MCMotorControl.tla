---------------------------- MODULE MCMotorControl ----------------------------
(***************************************************************************)
(* Instances of MotorControl for TLC.                                      *)
(***************************************************************************)
EXTENDS MotorControl, TLC

\* Released, and enough to run.
PlainThrottle == {0, 300}
PlainMap == [t \in PlainThrottle |-> t]

\* Released, a throttle whose raw value starts the motor but whose mapping
\* keeps it in sine, and one past the changeover (changeover level 20).
SineThrottle == {0, 150, 600}
SineStartMap == 0 :> 0 @@ 150 :> 82 @@ 600 :> 387
===============================================================================
