------------------------------ MODULE MotorMode ------------------------------
(***************************************************************************)
(* The motor's mode machine and the priority order of the requests the     *)
(* main loop posts to the control tick.  Everything here is a pure         *)
(* operator: the modules that hold state EXTEND this one.                  *)
(***************************************************************************)
EXTENDS Naturals

Modes == {"Disarmed", "Armed", "StepperSine", "OldRoutine", "Running"}

IsArmed(m)       == m # "Disarmed"
IsRunning(m)     == m \in {"OldRoutine", "Running"}
IsStepperSine(m) == m = "StepperSine"

Stoppable(m) == IsRunning(m)

\* A pair that the table does not name leaves the mode alone.
Transition(m, event) ==
  CASE event = "Disarm"                                -> "Disarmed"
    [] event = "Arm"            /\ m = "Disarmed"      -> "Armed"
    [] event = "StartMotor"     /\ m = "Armed"         -> "OldRoutine"
    [] event = "StopMotor"      /\ Stoppable(m)        -> "Armed"
    [] event = "EnterSine"      /\ m = "Armed"         -> "StepperSine"
    [] event = "ExitSine"       /\ m = "StepperSine"   -> "OldRoutine"
    [] event = "BemfLocked"     /\ m = "OldRoutine"    -> "Running"
    [] event = "DesyncFallback" /\ m = "Running"       -> "OldRoutine"
    [] OTHER                                           -> m

\* Mutation: a plain store where the code compares and swaps.
StoreOldRoutine(m) == "OldRoutine"

\* The commutation handlers and the stall check write this flag rather than
\* an event: a running motor falls back to polling, any other mode is kept.
SetOldRoutine(m) == IF IsRunning(m) THEN "OldRoutine" ELSE m

(***************************************************************************)
(* IsrAction.  The numbers are the code's discriminants: a request is a    *)
(* fetch_max on them, so their order is the priority order.                *)
(***************************************************************************)
None               == 0
ResetIntervalTimer == 1
CommutateKick      == 2
AllOff             == 3

IsrActions == None .. AllOff

Request(pending, action) == IF action > pending THEN action ELSE pending
==============================================================================
