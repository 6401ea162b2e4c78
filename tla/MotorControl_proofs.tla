-------------------------- MODULE MotorControl_proofs --------------------------
(***************************************************************************)
(* Theorems about MotorControl for every configuration, throttle set and   *)
(* counter limit: type correctness, then the safety properties, then the   *)
(* action properties, what no step of any handler may do.                  *)
(***************************************************************************)
EXTENDS MotorControl, TLAPS

\* Between the main loop's first store of adjusted_input and its second one
\* the atomic holds a raw frame value, the argument of the sine mapping.
RawInLatch == pc = "latch" => input \in Throttle

\* TypeOK in two parts, for two provers: the flags, and everything else.
Flags ==
  /\ changeover \in BOOLEAN
  /\ intervalPub \in BOOLEAN /\ gateAvg \in BOOLEAN /\ eComTime \in BOOLEAN
  /\ propBrake \in BOOLEAN /\ desyncPending \in BOOLEAN
  /\ zcFound \in BOOLEAN /\ sineOn \in BOOLEAN /\ brakeOn \in BOOLEAN
  /\ desyncCheck \in BOOLEAN /\ desyncing \in BOOLEAN
  /\ needsReset \in BOOLEAN

Data ==
  /\ mode \in Modes /\ action \in IsrActions
  /\ newinput \in Throttle /\ input \in Inputs
  /\ zeroCrosses \in 0..ExitZc
  /\ com \in {"off", "armed", "expired"}
  /\ comp \in {"masked", "on", "pending"}
  /\ interval \in {Early, PastGate, PastStall}
  /\ pattern \in Patterns
  /\ tick \in {"idle", "steady"}
  /\ pc \in MainSteps
  /\ stalls \in 0..Latched
  /\ limit \in {StrictLimit, LenientLimit}
  /\ RawInLatch

USE DEF Early, PastGate, PastStall, None, ResetIntervalTimer, CommutateKick,
        AllOff, IsrActions

\* The transition table never leaves the set of modes.
LEMMA TransitionType ==
  ASSUME NEW m \in Modes, NEW e
  PROVE  Transition(m, e) \in Modes
BY DEF Transition, Modes, Stoppable, IsRunning

\* The state after boot has its types ...
LEMMA DataInit == Init => Data
<1> SUFFICES ASSUME Init PROVE Data
  OBVIOUS
<1>1. 0 \in Inputs /\ 0 \in Throttle
  BY ThrottleAssumption DEF Inputs
<1>2. ExitZc \in Nat /\ Latched \in Nat
  BY CounterAssumption
<1> QED
  BY <1>1, <1>2 DEF Init, Data, RawInLatch, Modes, Patterns, MainSteps

\* ... and every step keeps them: one leaf per action.
LEMMA DataNext == Data /\ [Next]_vars => Data'
<1> SUFFICES ASSUME Data, [Next]_vars PROVE Data'
  OBVIOUS
<1>c. /\ ExitZc \in Nat /\ Latched \in Nat /\ AdvanceZc \in Nat
      /\ StrictLimit \in Nat /\ LenientLimit \in Nat
  BY CounterAssumption
<1>i. /\ 0 \in Inputs /\ 0 \in Throttle /\ Throttle \subseteq Inputs
      /\ \A t \in Throttle : SineMap[t] \in Inputs
  BY ThrottleAssumption DEF Inputs
<1>t. \A m \in Modes : \A e : Transition(m, e) \in Modes
  BY TransitionType
<1>o. \A m \in Modes : SetOldRoutine(m) \in Modes
  BY DEF SetOldRoutine, Modes
<1>z. \A zc \in 0..ExitZc : Bumped(zc) \in 0..ExitZc
  BY <1>c DEF Bumped
<1> USE DEF Data, RawInLatch
<1>1. CASE World
  <2>1. CASE Frame
    BY <2>1 DEF Frame, devices, cells, locals, protection
  <2>2. CASE CompEdge
    BY <2>2 DEF CompEdge, shared, cells, locals, protection
  <2>3. CASE ComTimerExpires
    BY <2>3 DEF ComTimerExpires, shared, cells, locals, protection
  <2>4. CASE IntervalAdvances
    BY <2>4 DEF IntervalAdvances, shared, cells, locals, protection
  <2>5. CASE IntervalWraps
    BY <2>5 DEF IntervalWraps, shared, cells, locals, protection
  <2> QED
    BY <1>1, <2>1, <2>2, <2>3, <2>4, <2>5 DEF World
<1>2. CASE Interrupt
  <2>1. CASE CompStale
    BY <2>1 DEF CompStale, shared, cells, locals, protection
  <2>2. CASE CompAccept
    BY <2>2 DEF CompAccept, shared, cells, locals, protection
  <2>3. CASE CompNoise
    BY <2>3 DEF CompNoise, shared, cells, locals, protection
  <2>4. CASE ComTimerStale
    BY <2>4 DEF ComTimerStale, shared, cells, locals, protection
  <2>5. CASE CommutateRunning
    BY <2>5, <1>z, <1>o DEF CommutateRunning, Commutate, Enabled, locals,
       protection, Patterns
  <2>6. CASE CommutatePolling
    BY <2>6, <1>z, <1>t DEF CommutatePolling, Commutate, Enabled, GateAtLock,
                            locals, protection, Patterns
  <2> QED
    BY <1>2, <2>1, <2>2, <2>3, <2>4, <2>5, <2>6 DEF Interrupt
<1>3. CASE Tick
  <2>f. FullTick => /\ action' \in IsrActions
                    /\ UNCHANGED <<newinput, input, propBrake, desyncPending,
                                   tick, pc, stalls, limit, desyncing,
                                   needsReset>>
    BY DEF FullTick, locals, protection
  <2>a. IntervalActed \in {Early, PastGate, PastStall}
    BY DEF IntervalActed
  <2>b. \A a \in BOOLEAN : \A c \in {"off", "armed", "expired"} :
          \A q \in Patterns :
            IdleBridge(a, c, q) => /\ com' \in {"off", "armed", "expired"}
                                   /\ pattern' \in Patterns
    BY DEF IdleBridge, ComUnderBrake, IdlePhases, Patterns
  <2>1. CASE SteadyBegin
    BY <2>1 DEF SteadyBegin, FlagsDropped, devices, locals, protection
  <2>2. CASE SteadyEnd
    BY <2>2 DEF SteadyEnd, devices, locals, protection
  <2>3. CASE TickAllOff
    BY <2>3 DEF TickAllOff, FlagsDropped, locals, protection, Patterns
  <2>4. CASE TickHandoff
    BY <2>4, <2>f, <1>t DEF TickHandoff, FlagsDropped, Patterns
  <2>5. CASE TickSineEntry
    <3>1. mode' \in Modes /\ zeroCrosses' \in 0..ExitZc
      BY <2>5, <1>t, <1>c DEF TickSineEntry
    <3>2. com' \in {"off", "armed", "expired"} /\ pattern' \in Patterns
      BY <2>5 DEF TickSineEntry, EntryPhases, IdleBridge, ComUnderBrake,
                  IdlePhases, Patterns
    <3> QED
      BY <3>1, <3>2, <2>5, <2>f, <2>a DEF TickSineEntry
  <2>6. CASE TickSineDrive
    BY <2>6, <2>f, <2>a DEF TickSineDrive
  <2>7. \A s \in BOOLEAN : Polling(s) =>
          /\ comp' \in {"masked", "on", "pending"}
          /\ com' \in {"off", "armed", "expired"}
          /\ interval' \in {Early, PastGate, PastStall}
          /\ pattern' \in Patterns /\ zeroCrosses' \in 0..ExitZc
    BY <2>a, <1>z DEF Polling, ComActed, ZcFoundActed, Kicked, Patterns
  <2>8. CASE TickStart
    BY <2>8, <2>7, <2>f, <1>t DEF TickStart, FlagsDropped
  <2>9. CASE TickIdle
    <3>1. com' \in {"off", "armed", "expired"} /\ pattern' \in Patterns
      BY <2>9 DEF TickIdle, IdleBridge, ComUnderBrake, IdlePhases, Patterns
    <3> QED
      BY <3>1, <2>9, <2>f, <2>a, <1>c DEF TickIdle
  <2>10. CASE TickPolling
    BY <2>10, <2>7, <2>f DEF TickPolling, RunningTick, FlagsDropped
  <2>11. CASE TickRunning
    BY <2>11, <2>f, <2>a
       DEF TickRunning, RunningTick, FlagsDropped, ComActed, ZcFoundActed, Kicked
  <2>12. CASE TickDisarmed
    BY <2>12, <2>f, <2>a, <2>b, <1>t DEF TickDisarmed, IsArmed
  <2> QED
    BY <1>3, <2>1, <2>2, <2>3, <2>4, <2>5, <2>6, <2>8, <2>9, <2>10, <2>11,
       <2>12 DEF Tick
<1>4. CASE Main
  <2> USE DEF MainOnly, Goto, MainSteps, devices, cells, protection
  <2>1. CASE MainSine
    <3>2. CASE SineNotWanted \/ SineHandoffQueued
      BY <2>1, <3>2 DEF MainSine, SineNotWanted, SineHandoffQueued, shared
    <3>3. CASE SineIdle
      BY <2>1, <3>3 DEF MainSine, SineIdle
    <3>4. CASE SineStep
      BY <2>1, <3>4, <1>c DEF MainSine, SineStep, Patterns
    <3> QED
      BY <2>1, <3>2, <3>3, <3>4 DEF MainSine
  <2>2. CASE MainMap
    BY <2>2, <1>i DEF MainMap
  <2>3. CASE MainLatch
    BY <2>3, <1>i DEF MainLatch, At
  <2>4. CASE MainAllOff
    BY <2>4, <1>c DEF MainAllOff, Request
  <2>5. CASE MainBrake
    BY <2>5 DEF MainBrake
  <2>6. CASE MainSnapshot
    BY <2>6, <1>c DEF MainSnapshot
  <2>7. CASE MainStall
    BY <2>7, <1>c DEF MainStall, Counted
  <2>8. CASE MainPoll
    BY <2>8, <1>o DEF MainPoll
  <2>9. CASE MainRecover
    BY <2>9 DEF MainRecover, Request
  <2>10. CASE MainStop
    BY <2>10, <1>t DEF MainStop
  <2>11. CASE MainZeroZc
    BY <2>11, <1>c DEF MainZeroZc
  <2>12. CASE MainDesync
    BY <2>12, <1>c DEF MainDesync
  <2>13. CASE MainFallback
    BY <2>13, <1>t DEF MainFallback
  <2>14. CASE MainDesyncStop
    BY <2>14, <1>t DEF MainDesyncStop
  <2>15. CASE MainTimeout
    BY <2>15, <1>t DEF MainTimeout
  <2>16. CASE MainLvc
    BY <2>16 DEF MainLvc, Request
  <2>17. CASE MainLvcDisarm
    BY <2>17, <1>t DEF MainLvcDisarm
  <2>18. CASE Reset
    BY <2>18, <1>c, <1>i DEF Reset, Modes, Patterns
  <2> QED
    BY <1>4, <2>1, <2>2, <2>3, <2>4, <2>5, <2>6, <2>7, <2>8, <2>9, <2>10,
       <2>11, <2>12, <2>13, <2>14, <2>15, <2>16, <2>17, <2>18 DEF Main
<1>5. CASE UNCHANGED vars
  BY <1>5 DEF vars, shared, devices, cells, locals, protection
<1> QED
  BY <1>1, <1>2, <1>3, <1>4, <1>5 DEF Next

\* The Boolean-valued part of the type invariant at boot, and after a step.
LEMMA FlagsInit == Init => Flags
BY Zenon DEF Init, Flags

\* Every handler and every main loop step writes truth values to the flags.
LEMMA FlagsNext == Flags /\ [Next]_vars => Flags'
<1> SUFFICES ASSUME Flags, [Next]_vars PROVE Flags'
  OBVIOUS
<1> USE DEF Flags
<1>1. CASE World
  <2>1. CASE Frame
    BY <2>1, ZenonT(30) DEF Frame, cells, locals, protection
  <2>2. CASE CompEdge
    BY <2>2, ZenonT(30) DEF CompEdge, shared, cells, locals, protection
  <2>3. CASE ComTimerExpires
    BY <2>3, ZenonT(30) DEF ComTimerExpires, shared, cells, locals, protection
  <2>4. CASE IntervalAdvances
    BY <2>4, ZenonT(30) DEF IntervalAdvances, shared, cells, locals, protection
  <2>5. CASE IntervalWraps
    BY <2>5, ZenonT(30) DEF IntervalWraps, shared, cells, locals, protection
  <2> QED
    BY <1>1, <2>1, <2>2, <2>3, <2>4, <2>5 DEF World
<1>2. CASE Interrupt
  <2>1. CASE CompStale
    BY <2>1, ZenonT(30) DEF CompStale, shared, cells, locals, protection
  <2>4. CASE CompAccept
    BY <2>4, ZenonT(30) DEF CompAccept, shared, cells, locals, protection
  <2>5. CASE CompNoise
    BY <2>5, ZenonT(30) DEF CompNoise, shared, cells, locals, protection
  <2>6. CASE ComTimerStale
    BY <2>6, ZenonT(30) DEF ComTimerStale, shared, cells, locals, protection
  <2>2. CASE CommutateRunning
    BY <2>2, ZenonT(30) DEF CommutateRunning, Commutate, locals, protection
  <2>3. CASE CommutatePolling
    BY <2>3, ZenonT(30) DEF CommutatePolling, Commutate, GateAtLock, locals,
       protection
  <2> QED
    BY <1>2, <2>1, <2>2, <2>3, <2>4, <2>5, <2>6 DEF Interrupt
<1>3. CASE Tick
  <2>f. FullTick => /\ changeover' \in BOOLEAN
                    /\ UNCHANGED <<propBrake, desyncPending, desyncCheck,
                                   desyncing, needsReset>>
    BY Zenon DEF FullTick, locals, protection
  <2>p. Publish /\ eComTime' \in BOOLEAN
          => gateAvg' \in BOOLEAN /\ intervalPub' \in BOOLEAN
    BY Zenon DEF Publish
  <2>d. FlagsDropped => sineOn' \in BOOLEAN /\ brakeOn' \in BOOLEAN
    BY Zenon DEF FlagsDropped
  <2>b. \A a \in BOOLEAN : \A c, q : IdleBridge(a, c, q) => brakeOn' \in BOOLEAN
    BY Zenon DEF IdleBridge
  <2>k. /\ \A s \in BOOLEAN :
             Polling(s) => zcFound' \in BOOLEAN /\ eComTime' \in BOOLEAN
        /\ ZcFoundActed \in BOOLEAN
    BY Zenon DEF Polling, ZcFoundActed, Kicked
  <2>1. CASE SteadyBegin
    BY <2>1, <2>d, ZenonT(30) DEF SteadyBegin, locals, protection
  <2>10. CASE SteadyEnd
    BY <2>10, ZenonT(30) DEF SteadyEnd, locals, protection
  <2>11. CASE TickAllOff
    BY <2>11, <2>d, ZenonT(30) DEF TickAllOff, locals, protection
  <2>2. CASE TickHandoff
    BY <2>2, <2>f, <2>p, <2>d, ZenonT(30) DEF TickHandoff
  <2>3. CASE TickSineEntry
    BY <2>3, <2>f, <2>p, <2>b, ZenonT(30) DEF TickSineEntry
  <2>4. CASE TickSineDrive
    BY <2>4, <2>f, <2>p, ZenonT(30) DEF TickSineDrive
  <2>5. CASE TickStart
    BY <2>5, <2>f, <2>p, <2>d, <2>k, ZenonT(30) DEF TickStart
  <2>6. CASE TickIdle
    BY <2>6, <2>f, <2>p, <2>b, ZenonT(30) DEF TickIdle
  <2>7. CASE TickPolling
    BY <2>7, <2>f, <2>p, <2>d, <2>k, ZenonT(30) DEF TickPolling, RunningTick
  <2>8. CASE TickRunning
    BY <2>8, <2>f, <2>p, <2>d, <2>k, ZenonT(30) DEF TickRunning, RunningTick
  <2>9. CASE TickDisarmed
    BY <2>9, <2>f, <2>p, <2>b, ZenonT(30) DEF TickDisarmed, IsArmed
  <2> QED
    BY <1>3, <2>1, <2>2, <2>3, <2>4, <2>5, <2>6, <2>7, <2>8, <2>9, <2>10,
       <2>11 DEF Tick
<1>4. CASE Main
  <2> USE DEF MainOnly, devices, cells, shared, protection
  <2>1. CASE MainSine
    <3>1. CASE SineNotWanted \/ SineHandoffQueued
      BY <2>1, <3>1, ZenonT(30) DEF MainSine, SineNotWanted, SineHandoffQueued
    <3>2. CASE SineIdle
      BY <2>1, <3>2, ZenonT(30) DEF MainSine, SineIdle
    <3>3. CASE SineStep
      BY <2>1, <3>3, ZenonT(30) DEF MainSine, SineStep
    <3> QED
      BY <2>1, <3>1, <3>2, <3>3 DEF MainSine
  <2>2. CASE MainMap
    BY <2>2, ZenonT(30) DEF MainMap
  <2>3. CASE MainLatch
    BY <2>3, ZenonT(30) DEF MainLatch
  <2>4. CASE MainAllOff
    BY <2>4, ZenonT(30) DEF MainAllOff
  <2>5. CASE MainBrake
    BY <2>5, ZenonT(30) DEF MainBrake
  <2>6. CASE MainSnapshot
    BY <2>6, ZenonT(30) DEF MainSnapshot
  <2>7. CASE MainStall
    BY <2>7, ZenonT(30) DEF MainStall
  <2>8. CASE MainPoll
    BY <2>8, ZenonT(30) DEF MainPoll
  <2>9. CASE MainRecover
    BY <2>9, ZenonT(30) DEF MainRecover
  <2>10. CASE MainStop
    BY <2>10, ZenonT(30) DEF MainStop
  <2>11. CASE MainZeroZc
    BY <2>11, ZenonT(30) DEF MainZeroZc
  <2>12. CASE MainDesync
    BY <2>12, ZenonT(30) DEF MainDesync
  <2>13. CASE MainFallback
    BY <2>13, ZenonT(30) DEF MainFallback
  <2>14. CASE MainDesyncStop
    BY <2>14, ZenonT(30) DEF MainDesyncStop
  <2>15. CASE MainTimeout
    BY <2>15, ZenonT(30) DEF MainTimeout
  <2>16. CASE MainLvc
    BY <2>16, ZenonT(30) DEF MainLvc
  <2>17. CASE MainLvcDisarm
    BY <2>17, ZenonT(30) DEF MainLvcDisarm
  <2>18. CASE Reset
    BY <2>18, ZenonT(30) DEF Reset
  <2> QED
    BY <1>4, <2>1, <2>2, <2>3, <2>4, <2>5, <2>6, <2>7, <2>8, <2>9, <2>10,
       <2>11, <2>12, <2>13, <2>14, <2>15, <2>16, <2>17, <2>18 DEF Main
<1>5. CASE UNCHANGED vars
  BY <1>5, ZenonT(30) DEF vars, shared, devices, cells, locals, protection
<1> QED
  BY <1>1, <1>2, <1>3, <1>4, <1>5 DEF Next

\* Every variable keeps its type: in particular the capped counters stay
\* within their caps, and adjusted_input holds a frame's value, its mapping
\* or zero, whatever the handlers interleave.
THEOREM TypeCorrect == Spec => []TypeOK
<1>1. Flags /\ Data => TypeOK
  BY DEF Flags, Data, TypeOK
<1> QED
  BY <1>1, DataInit, DataNext, FlagsInit, FlagsNext, PTL DEF Spec

--------------------------------------------------------------------------------
(* Safety *)

(***************************************************************************)
(* Who may hold the bridge.  The two ownership properties are not          *)
(* inductive: a commutation leaves its mark on the phases of any running   *)
(* motor, so what a running motor and a motor in sine can find there has   *)
(* to be carried along.                                                    *)
(***************************************************************************)
Silent == com = "off" /\ comp = "masked"

RunningPhases == IsRunning(mode) => pattern \in {"sixstep", "off"}
SinePhases    == IsStepperSine(mode) => pattern # "sixstep"
BrakePhases   == brakeOn => /\ pattern \in {"brake", "off"} /\ Silent
                            /\ ~IsRunning(mode)
SineOutputs   == sineOn => pattern = "sine" /\ Silent

BridgeInv == RunningPhases /\ SinePhases /\ BrakePhases /\ SineOutputs

\* What the next tick will latch is carried along with what the last one did.
GateInv == mode = "Running" => gateAvg /\ eComTime

ModeFacts ==
  /\ mode \in Modes
  /\ Transition(mode, "Disarm") = "Disarmed"
  /\ Transition(mode, "Arm") = IF mode = "Disarmed" THEN "Armed" ELSE mode
  /\ Transition(mode, "StartMotor") =
       IF mode = "Armed" THEN "OldRoutine" ELSE mode
  /\ Transition(mode, "StopMotor") = IF IsRunning(mode) THEN "Armed" ELSE mode
  /\ Transition(mode, "ExitSine") =
       IF mode = "StepperSine" THEN "OldRoutine" ELSE mode
  /\ Transition(mode, "BemfLocked") =
       IF mode = "OldRoutine" THEN "Running" ELSE mode
  /\ Transition(mode, "DesyncFallback") =
       IF mode = "Running" THEN "OldRoutine" ELSE mode
  /\ IsArmed(mode) => Transition(Transition(mode, "StopMotor"), "EnterSine")
                        = "StepperSine"

\* The transition table, one event at a time.
LEMMA TransitionTable == mode \in Modes => ModeFacts
<1> SUFFICES ASSUME mode \in Modes PROVE ModeFacts
  OBVIOUS
<1>1. Transition(Transition(mode, "StopMotor"), "EnterSine") =
        IF mode = "Disarmed" THEN "Disarmed" ELSE "StepperSine"
  BY DEF Modes, Transition, Stoppable, IsRunning
<1> QED
  BY <1>1 DEF ModeFacts, Modes, Transition, Stoppable, IsRunning, IsArmed

\* What a main loop step can do to the mode.
LEMMA MainModes ==
  ASSUME ModeFacts, Main
  PROVE  \/ mode' = mode \/ mode' \in {"Disarmed", "Armed"}
         \/ mode' = "OldRoutine" /\ IsRunning(mode)
<1>1. CASE MainSine
  BY <1>1 DEF MainSine, SineNotWanted, SineHandoffQueued, SineIdle, SineStep,
     shared
<1>2. CASE Reset
  BY <1>2 DEF Reset
<1>3. CASE ~MainSine /\ ~Reset
  BY <1>3 DEF Main, MainMap, MainLatch, MainAllOff, MainBrake, MainSnapshot,
     MainStall, MainPoll, MainRecover, MainStop, MainZeroZc, MainDesync,
     MainFallback, MainDesyncStop, MainTimeout, MainLvc, MainLvcDisarm,
     ModeFacts, SetOldRoutine, IsRunning
<1> QED
  BY <1>1, <1>2, <1>3

-------------------------------------------------------------------------------
\* At boot the bridge is off and both commutation interrupts are silent.
LEMMA BridgeInit == Init => BridgeInv
BY DEF Init, BridgeInv, RunningPhases, SinePhases, BrakePhases, SineOutputs,
       Silent, IsRunning, IsStepperSine

\* Every step keeps the phases in agreement with the mode and the flags.
LEMMA BridgeNext == TypeOK /\ BridgeInv /\ [Next]_vars => BridgeInv'
<1> SUFFICES ASSUME TypeOK, BridgeInv, [Next]_vars PROVE BridgeInv'
  OBVIOUS
<1>m. ModeFacts
  BY TransitionTable DEF TypeOK
<1>b. /\ changeover \in BOOLEAN /\ sineOn \in BOOLEAN /\ brakeOn \in BOOLEAN
      /\ propBrake \in BOOLEAN
  BY DEF TypeOK
<1> USE DEF BridgeInv, RunningPhases, SinePhases, BrakePhases, SineOutputs,
            Silent, IsRunning, IsStepperSine
<1>1. CASE World
  <2>1. CASE Frame
    BY <2>1 DEF Frame, devices, cells
  <2>2. CASE CompEdge
    BY <2>2 DEF CompEdge, shared, cells
  <2>3. CASE ComTimerExpires
    BY <2>3 DEF ComTimerExpires, shared, cells
  <2>4. CASE IntervalAdvances
    BY <2>4 DEF IntervalAdvances, shared, cells
  <2>5. CASE IntervalWraps
    BY <2>5 DEF IntervalWraps, shared, cells
  <2> QED
    BY <1>1, <2>1, <2>2, <2>3, <2>4, <2>5 DEF World
<1>2. CASE Interrupt
  <2>1. CASE CompStale
    BY <2>1 DEF CompStale, shared, cells
  <2>2. CASE CompAccept
    BY <2>2 DEF CompAccept, shared, cells
  <2>3. CASE CompNoise
    BY <2>3 DEF CompNoise, shared, cells
  <2>4. CASE ComTimerStale
    BY <2>4 DEF ComTimerStale, shared, cells
  <2>5. CASE CommutateRunning
    BY <2>5 DEF CommutateRunning, Commutate, SetOldRoutine
  <2>6. CASE CommutatePolling
    BY <2>6, <1>m DEF CommutatePolling, Commutate, ModeFacts
  <2> QED
    BY <1>2, <2>1, <2>2, <2>3, <2>4, <2>5, <2>6 DEF Interrupt
<1>3. CASE Tick
  <2>1. CASE SteadyBegin
    BY <2>1 DEF SteadyBegin, FlagsDropped, devices
  <2>2. CASE SteadyEnd
    BY <2>2 DEF SteadyEnd, devices
  <2>3. CASE TickAllOff
    BY <2>3 DEF TickAllOff, FlagsDropped
  <2>4. CASE TickHandoff
    BY <2>4, <1>m DEF TickHandoff, FlagsDropped, ModeFacts
  <2>5. CASE TickSineEntry
    <3>1. mode' = "StepperSine" /\ comp' = "masked"
      BY <2>5, <1>m DEF TickSineEntry, ModeFacts
    <3>2. CASE SineDrive(mode')
      BY <2>5, <3>1, <3>2 DEF TickSineEntry, EntryPhases
    <3>3. CASE ~SineDrive(mode')
      BY <2>5, <3>1, <3>3, <1>b
         DEF TickSineEntry, EntryPhases, IdleBridge, ComUnderBrake, IdlePhases
    <3> QED
      BY <3>2, <3>3
  <2>6. CASE TickSineDrive
    BY <2>6 DEF TickSineDrive
  <2>7. CASE TickStart
    BY <2>7, <1>m DEF TickStart, Polling, FlagsDropped, ModeFacts
  <2>8. CASE TickIdle
    BY <2>8, <1>b DEF TickIdle, IdleBridge, ComUnderBrake, IdlePhases
  <2>9. CASE TickPolling
    BY <2>9 DEF TickPolling, RunningTick, Polling, FlagsDropped
  <2>10. CASE TickRunning
    BY <2>10 DEF TickRunning, RunningTick, FlagsDropped
  <2>11. CASE TickDisarmed
    <3>1. mode' \in {"Disarmed", "Armed"}
      BY <2>11, <1>m DEF TickDisarmed, ModeFacts
    <3> QED
      BY <2>11, <3>1, <1>b
         DEF TickDisarmed, IdleBridge, ComUnderBrake, IdlePhases
  <2> QED
    BY <1>3, <2>1, <2>2, <2>3, <2>4, <2>5, <2>6, <2>7, <2>8, <2>9, <2>10,
       <2>11 DEF Tick
<1>4. CASE Main
  <2>1. CASE MainSine
    <3>1. CASE SineNotWanted
      BY <2>1, <3>1 DEF MainSine, SineNotWanted, shared, devices
    <3>2. CASE SineHandoffQueued
      BY <2>1, <3>2 DEF MainSine, SineHandoffQueued, shared, devices
    <3>3. CASE SineIdle
      BY <2>1, <3>3 DEF MainSine, SineIdle, devices
    <3>4. CASE SineStep
      BY <2>1, <3>4 DEF MainSine, SineStep, SineActive
    <3> QED
      BY <2>1, <3>1, <3>2, <3>3, <3>4 DEF MainSine
  <2>2. CASE Reset
    BY <2>2 DEF Reset
  <2>3. CASE Main /\ ~MainSine /\ ~Reset
    <3>1. UNCHANGED <<com, comp, pattern, sineOn, brakeOn>>
      BY <2>3 DEF Main, MainMap, MainLatch, MainAllOff, MainBrake,
         MainSnapshot, MainStall, MainPoll, MainRecover, MainStop, MainZeroZc,
         MainDesync, MainFallback, MainDesyncStop, MainTimeout, MainLvc,
         MainLvcDisarm, MainOnly, devices, cells
    <3>2. \/ mode' = mode \/ mode' \in {"Disarmed", "Armed"}
          \/ mode' = "OldRoutine" /\ IsRunning(mode)
      BY <2>3, <1>m, MainModes
    <3> QED
      BY <3>1, <3>2
  <2> QED
    BY <1>4, <2>1, <2>2, <2>3
<1>5. CASE UNCHANGED vars
  BY <1>5 DEF vars, shared, devices, cells
<1> QED
  BY <1>1, <1>2, <1>3, <1>4, <1>5 DEF Next

\* The phases always agree with the mode, and each of the two flags that claim
\* the bridge (sine_outputs_on, active_brake_on) implies silent commutation
\* interrupts, across every interleaving of the handlers with the main loop.
THEOREM BridgeInvariant == Spec => []BridgeInv
BY BridgeInit, BridgeNext, TypeCorrect, PTL DEF Spec

\* Sine output has the bridge to itself, and no commutation interrupt can
\* take it over: main loop and tick set the flag and the phases in different
\* steps, with the handlers in between.
THEOREM SineOwnership == Spec => []SineOwnsBridge
<1>1. BridgeInv => SineOwnsBridge
  BY DEF BridgeInv, SineOutputs, SineOwnsBridge, Silent
<1> QED
  BY <1>1, BridgeInvariant, PTL

\* An active brake is never disturbed by a commutation interrupt.
THEOREM BrakeOwnership == Spec => []BrakeUndisturbed
<1>1. BridgeInv => BrakeUndisturbed
  BY DEF BridgeInv, BrakePhases, BrakeUndisturbed, Silent
<1> QED
  BY <1>1, BridgeInvariant, PTL

\* A full tick settles the bridge for the mode it ends in.
THEOREM TicksSettleBridge == Spec => TickSettlesBridge
<1>1. ASSUME TypeOK, BridgeInv, Tick, tick' = "idle", tick = "idle"
      PROVE  /\ pattern' = "sixstep" => IsRunning(mode')
             /\ pattern' = "sine"    => IsStepperSine(mode')
             /\ pattern' = "brake"   => IsArmed(mode')
  <2> USE <1>1 DEF IsRunning, IsStepperSine, IsArmed
  <2>m. ModeFacts
    BY TransitionTable DEF TypeOK
  <2>b. sineOn \in BOOLEAN /\ brakeOn \in BOOLEAN /\ propBrake \in BOOLEAN
    BY DEF TypeOK
  <2>p. /\ RunningPhases /\ SinePhases /\ BrakePhases
        /\ pattern \in Patterns
    BY DEF BridgeInv, TypeOK
  <2> USE DEF RunningPhases, SinePhases, BrakePhases
  <2>1. CASE SteadyBegin \/ SteadyEnd
    BY <2>1 DEF SteadyBegin, SteadyEnd
  <2>2. CASE TickAllOff
    BY <2>2 DEF TickAllOff
  <2>3. CASE TickHandoff
    BY <2>3, <2>m DEF TickHandoff, ModeFacts
  <2>4. CASE TickSineEntry
    <3>1. mode' = "StepperSine"
      BY <2>4, <2>m DEF TickSineEntry, ModeFacts
    <3>2. pattern' # "sixstep"
      BY <2>4, <2>b, <2>p DEF TickSineEntry, EntryPhases, IdleBridge, IdlePhases
    <3> QED
      BY <3>1, <3>2
  <2>5. CASE TickSineDrive
    BY <2>5, <2>p DEF TickSineDrive
  <2>6. CASE TickStart
    BY <2>6, <2>m, <2>p DEF TickStart, Polling, ModeFacts
  <2>7. CASE TickIdle
    <3>1. pattern' \in {"brake", "prop", "off"}
      BY <2>7, <2>b, <2>p DEF TickIdle, IdleBridge, IdlePhases
    <3> QED
      BY <3>1, <2>7 DEF TickIdle
  <2>8. CASE TickPolling
    BY <2>8, <2>p DEF TickPolling, RunningTick, Polling
  <2>9. CASE TickRunning
    BY <2>9, <2>p DEF TickRunning, RunningTick
  <2>10. CASE TickDisarmed
    <3>1. pattern' \in {"brake", "prop", "off"}
      BY <2>10, <2>b, <2>p DEF TickDisarmed, IdleBridge, IdlePhases
    <3>2. pattern' = "brake" => IsArmed(mode')
      BY <2>10, <2>b, <2>p DEF TickDisarmed, IdleBridge, IdlePhases
    <3> QED
      BY <3>1, <3>2
  <2> QED
    BY <2>1, <2>2, <2>3, <2>4, <2>5, <2>6, <2>7, <2>8, <2>9, <2>10 DEF Tick
<1>2. TypeOK /\ BridgeInv /\ [Next]_vars =>
        [Tick /\ tick' = "idle" /\ tick = "idle" =>
           /\ pattern' = "sixstep" => IsRunning(mode')
           /\ pattern' = "sine"    => IsStepperSine(mode')
           /\ pattern' = "brake"   => IsArmed(mode')]_vars
  BY <1>1
<1> QED
  BY <1>2, BridgeInvariant, TypeCorrect, PTL DEF Spec, TickSettlesBridge
-------------------------------------------------------------------------------
(***************************************************************************)
(* What keeps a running motor running.                                     *)
(***************************************************************************)
RunInv == GateInv /\ RunningIsDriven /\ SteadyStillHolds

\* Neither the main loop nor the tick puts a motor into interrupt
\* commutation: a motor that is there after their step was there before it.
LEMMA RunningEntered ==
  ASSUME TypeOK, Main \/ Tick, ~SteadyBegin, ~SteadyEnd, mode' = "Running"
  PROVE  TickAllOff \/ TickRunning \/ (Main /\ mode' = mode)
<1>m. ModeFacts
  BY TransitionTable DEF TypeOK
<1>1. CASE Tick
  <2>1. CASE TickHandoff \/ TickSineEntry \/ TickStart \/ TickDisarmed
    <3>1. mode' # "Running"
      BY <2>1, <1>m DEF TickHandoff, TickSineEntry, TickStart, TickDisarmed,
         ModeFacts, IsStepperSine
    <3> QED
      BY <3>1
  <2>2. CASE TickSineDrive \/ TickIdle \/ TickPolling
    BY <2>2 DEF TickSineDrive, TickIdle, TickPolling, RunningTick,
       IsStepperSine
  <2> QED
    BY <1>1, <2>1, <2>2 DEF Tick
<1>2. CASE Main
  <2>1. mode' = mode
    BY <1>2, <1>m, MainModes
  <2> QED
    BY <1>2, <2>1
<1> QED
  BY <1>1, <1>2

\* No motor runs at boot.
LEMMA RunInit == Init => RunInv
BY DEF Init, RunInv, GateInv, RunningIsDriven, SteadyStillHolds

\* Every step keeps a Running motor gated, its next commutation coming and a
\* steady tick's decision valid.
LEMMA RunNext == TypeOK /\ RunInv /\ [Next]_vars => RunInv'
<1> SUFFICES ASSUME TypeOK, RunInv, [Next]_vars PROVE RunInv'
  OBVIOUS
<1>m. ModeFacts
  BY TransitionTable DEF TypeOK
<1>u. StartThreshold' = StartThreshold
  BY DEF StartThreshold
<1> USE DEF RunInv, GateInv, RunningIsDriven, SteadyStillHolds, IsRunning
<1>1. CASE World
  <2>1. CASE Frame
    BY <2>1, <1>u DEF Frame, devices, cells
  <2>2. CASE CompEdge
    BY <2>2, <1>u DEF CompEdge, shared, cells
  <2>3. CASE ComTimerExpires
    BY <2>3, <1>u DEF ComTimerExpires, shared, cells
  <2>4. CASE IntervalAdvances
    BY <2>4, <1>u DEF IntervalAdvances, shared, cells
  <2>5. CASE IntervalWraps
    BY <2>5, <1>u DEF IntervalWraps, shared, cells
  <2> QED
    BY <1>1, <2>1, <2>2, <2>3, <2>4, <2>5 DEF World
<1>2. CASE Interrupt
  <2>1. CASE CompStale
    BY <2>1, <1>u DEF CompStale, shared, cells
  <2>2. CASE CompAccept
    BY <2>2, <1>u DEF CompAccept, shared, cells
  <2>3. CASE CompNoise
    BY <2>3, <1>u DEF CompNoise, shared, cells
  <2>4. CASE ComTimerStale
    BY <2>4, <1>u DEF ComTimerStale, shared, cells
  <2>5. CASE CommutateRunning
    BY <2>5, <1>u DEF CommutateRunning, Commutate, SetOldRoutine, Enabled
  <2>6. CASE CommutatePolling
    BY <2>6, <1>m, <1>u
       DEF CommutatePolling, Commutate, ModeFacts, Enabled, GateAtLock
  <2> QED
    BY <1>2, <2>1, <2>2, <2>3, <2>4, <2>5, <2>6 DEF Interrupt
<1>3. CASE SteadyBegin
  BY <1>3, <1>u DEF SteadyBegin, SteadyTick, FlagsDropped, TickReady, devices
<1>4. CASE SteadyEnd
  BY <1>4 DEF SteadyEnd, devices
<1>5. CASE (Main \/ Tick) /\ ~SteadyBegin /\ ~SteadyEnd
  <2>1. tick' = "idle"
    <3>1. CASE TickAllOff
      BY <3>1 DEF TickAllOff, TickReady
    <3>2. CASE FullTick
      BY <3>2 DEF FullTick, TickReady
    <3>3. CASE Main
      BY <3>3 DEF Main, At, TickReady, MainOnly, cells, MainSine, MainMap,
         MainLatch, MainAllOff, MainBrake, MainSnapshot, MainStall, MainPoll,
         MainRecover, MainStop, MainZeroZc, MainDesync, MainFallback,
         MainDesyncStop, MainTimeout, MainLvc, MainLvcDisarm, Reset
    <3> QED
      BY <1>5, <3>1, <3>2, <3>3 DEF Tick, TickHandoff, TickSineEntry,
         TickSineDrive, TickStart, TickIdle, TickPolling, TickRunning,
         TickDisarmed, RunningTick
  <2>2. CASE mode' # "Running"
    BY <2>1, <2>2
  <2>3. CASE TickAllOff
    BY <2>1, <2>3 DEF TickAllOff
  <2>4. CASE TickRunning
    BY <2>1, <2>4 DEF TickRunning, RunningTick, Publish, ComActed
  <2>5. CASE Main /\ mode' = mode /\ mode' = "Running"
    <3>1. UNCHANGED <<com, comp, pattern, gateAvg, eComTime>>
      BY <2>5 DEF Main, MainOnly, devices, shared, MainSine, SineNotWanted,
         SineHandoffQueued, SineActive, SineIdle, SineStep, IsStepperSine,
         MainMap, MainLatch, MainAllOff, MainBrake, MainSnapshot, MainStall,
         MainPoll, MainRecover, MainStop, MainZeroZc, MainDesync,
         MainFallback, MainDesyncStop, MainTimeout, MainLvc, MainLvcDisarm,
         Reset
    <3> QED
      BY <2>1, <2>5, <3>1
  <2> QED
    BY <1>5, <2>2, <2>3, <2>4, <2>5, RunningEntered
<1>6. CASE UNCHANGED vars
  BY <1>6, <1>u DEF vars, shared, devices, cells
<1> QED
  BY <1>1, <1>2, <1>3, <1>4, <1>5, <1>6 DEF Next

\* What keeps a running motor running holds after any mix of kicks, stops,
\* restarts, kills and handovers between polling and the comparator.
THEOREM RunInvariant == Spec => []RunInv
BY RunInit, RunNext, TypeCorrect, PTL DEF Spec

\* The comparator handler always has an average to gate on.
THEOREM GateAlwaysLatched == Spec => []GateLatched
<1>1. RunInv => GateLatched
  BY DEF RunInv, GateInv, GateLatched
<1> QED
  BY <1>1, RunInvariant, PTL

\* A driven Running motor always has its next commutation coming.
THEOREM ChainUnbroken == Spec => []RunningIsDriven
<1>1. RunInv => RunningIsDriven
  BY DEF RunInv
<1> QED
  BY <1>1, RunInvariant, PTL

\* The steady tick's decision outlives its unmasked part.
THEOREM SteadyDecisionHolds == Spec => []SteadyStillHolds
<1>1. RunInv => SteadyStillHolds
  BY DEF RunInv
<1> QED
  BY <1>1, RunInvariant, PTL

--------------------------------------------------------------------------------
(* Steps *)

\* What a main loop step other than the sine service leaves alone.
LEMMA MainKeeps ==
  ASSUME Main, ~MainSine, ~Reset
  PROVE  /\ UNCHANGED <<com, comp, interval, pattern, zcFound, sineOn,
                        brakeOn, tick>>
         /\ UNCHANGED changeover
         /\ action' \in {action, Request(action, ResetIntervalTimer),
                         Request(action, CommutateKick),
                         Request(action, AllOff)}
BY DEF Main, MainMap, MainLatch, MainAllOff, MainBrake, MainSnapshot,
   MainStall, MainPoll, MainRecover, MainStop, MainZeroZc, MainDesync,
   MainFallback, MainDesyncStop, MainTimeout, MainLvc, MainLvcDisarm,
   MainOnly, devices, cells

\* The ticks that run the full control path.
LEMMA FullTicks ==
  ASSUME Tick, ~SteadyBegin, ~SteadyEnd, ~TickAllOff
  PROVE  FullTick
BY DEF Tick, TickHandoff, TickSineEntry, TickSineDrive, TickStart, TickIdle,
   TickPolling, TickRunning, TickDisarmed, RunningTick

-------------------------------------------------------------------------------
\* A kill request is acknowledged only by a tick that has switched the bridge
\* off and silenced both commutation interrupts, or by a reset.
THEOREM KillsAcknowledged == Spec => KillAcknowledged
<1>1. ASSUME Next, action = AllOff, action' # AllOff
      PROVE  pattern' = "off" /\ com' = "off" /\ comp' = "masked"
  <2> USE <1>1
  <2>1. CASE World
    BY <2>1 DEF World, Frame, CompEdge, ComTimerExpires, IntervalAdvances,
       IntervalWraps, shared
  <2>2. CASE Interrupt
    BY <2>2 DEF Interrupt, CompStale, CompAccept, CompNoise, ComTimerStale,
       CommutateRunning, CommutatePolling, Commutate, shared
  <2>3. CASE Tick
    <3>1. CASE SteadyBegin \/ SteadyEnd
      BY <3>1 DEF SteadyBegin, SteadyEnd
    <3>2. CASE TickAllOff
      BY <3>2 DEF TickAllOff
    <3>3. CASE FullTick
      BY <3>3 DEF FullTick
    <3> QED
      BY <2>3, <3>1, <3>2, <3>3, FullTicks
  <2>4. CASE MainSine
    BY <2>4 DEF MainSine, SineNotWanted, SineHandoffQueued, SineIdle,
       SineStep, shared
  <2>5. CASE Reset
    BY <2>5 DEF Reset
  <2>6. CASE Main /\ ~MainSine /\ ~Reset
    BY <2>6, MainKeeps DEF Request, AllOff, CommutateKick, ResetIntervalTimer
  <2> QED
    BY <2>1, <2>2, <2>3, <2>4, <2>5, <2>6 DEF Next
<1>2. [Next]_vars => [action = AllOff /\ action' # AllOff =>
                        pattern' = "off" /\ com' = "off" /\ comp' = "masked"]_vars
  BY <1>1
<1> QED
  BY <1>2, PTL DEF Spec, KillAcknowledged

\* Six-step drive begins only while the motor runs, whatever timer or edge
\* is left over.
THEOREM DriveOnlyWhileRunning == Spec => DriveNeedsRunning
<1>1. ASSUME TypeOK, Next, pattern # "sixstep", pattern' = "sixstep"
      PROVE  IsRunning(mode')
  <2> USE <1>1 DEF IsRunning, IsStepperSine
  <2>m. ModeFacts
    BY TransitionTable DEF TypeOK
  <2>b. brakeOn \in BOOLEAN /\ propBrake \in BOOLEAN
    BY DEF TypeOK
  <2>1. CASE World
    BY <2>1 DEF World, Frame, CompEdge, ComTimerExpires, IntervalAdvances,
       IntervalWraps, devices
  <2>2. CASE Interrupt
    <3>1. CASE CompStale \/ CompAccept \/ CompNoise \/ ComTimerStale
      BY <3>1 DEF CompStale, CompAccept, CompNoise, ComTimerStale
    <3>2. CASE CommutateRunning
      BY <3>2 DEF CommutateRunning, SetOldRoutine
    <3>3. CASE CommutatePolling
      BY <3>3, <2>m DEF CommutatePolling, ModeFacts
    <3> QED
      BY <2>2, <3>1, <3>2, <3>3 DEF Interrupt
  <2>3. CASE Tick
    <3>1. CASE SteadyBegin \/ SteadyEnd \/ TickAllOff
      BY <3>1 DEF SteadyBegin, SteadyEnd, TickAllOff, devices
    <3>2. CASE TickHandoff
      BY <3>2, <2>m DEF TickHandoff, ModeFacts
    <3>3. CASE TickSineEntry
      BY <3>3, <2>b DEF TickSineEntry, EntryPhases, IdleBridge, IdlePhases
    <3>4. CASE TickStart
      BY <3>4, <2>m DEF TickStart, ModeFacts
    <3>5. CASE TickIdle
      BY <3>5, <2>b DEF TickIdle, IdleBridge, IdlePhases
    <3>6. CASE TickPolling
      BY <3>6 DEF TickPolling, RunningTick
    <3>7. CASE TickSineDrive \/ TickRunning
      BY <3>7 DEF TickSineDrive, TickRunning
    <3>8. CASE TickDisarmed
      BY <3>8, <2>b DEF TickDisarmed, IdleBridge, IdlePhases
    <3> QED
      BY <2>3, <3>1, <3>2, <3>3, <3>4, <3>5, <3>6, <3>7, <3>8 DEF Tick
  <2>4. CASE MainSine
    BY <2>4 DEF MainSine, SineNotWanted, SineHandoffQueued, SineIdle,
       SineStep, devices
  <2>5. CASE Reset
    BY <2>5 DEF Reset
  <2>6. CASE Main /\ ~MainSine /\ ~Reset
    BY <2>6, MainKeeps
  <2> QED
    BY <2>1, <2>2, <2>3, <2>4, <2>5, <2>6 DEF Next
<1>2. TypeOK /\ [Next]_vars =>
        [pattern # "sixstep" /\ pattern' = "sixstep" => IsRunning(mode')]_vars
  BY <1>1
<1> QED
  BY <1>2, TypeCorrect, PTL DEF Spec, DriveNeedsRunning

\* The mode machine is a progression.
THEOREM ModeProgression == Spec => ModeSteps
<1> DEFINE Step == /\ mode = "Disarmed" /\ mode' # mode
                        => mode' = "Armed" /\ input = 0
                   /\ mode' = "StepperSine" => IsArmed(mode)
                   /\ mode' = "OldRoutine" => IsArmed(mode)
                   /\ mode' = "Running" => IsRunning(mode)
<1>1. ASSUME TypeOK, Next PROVE Step
  <2> USE <1>1 DEF IsRunning, IsStepperSine, IsArmed
  <2>m. ModeFacts
    BY TransitionTable DEF TypeOK
  <2>1. CASE World
    BY <2>1 DEF World, Frame, CompEdge, ComTimerExpires, IntervalAdvances,
       IntervalWraps, shared
  <2>2. CASE Interrupt
    <3>1. CASE CompStale \/ CompAccept \/ CompNoise \/ ComTimerStale
      BY <3>1 DEF CompStale, CompAccept, CompNoise, ComTimerStale, shared
    <3>2. CASE CommutateRunning
      BY <3>2 DEF CommutateRunning, SetOldRoutine
    <3>3. CASE CommutatePolling
      BY <3>3, <2>m DEF CommutatePolling, ModeFacts
    <3> QED
      BY <2>2, <3>1, <3>2, <3>3 DEF Interrupt
  <2>3. CASE Tick
    <3>1. CASE SteadyBegin \/ SteadyEnd \/ TickAllOff
      BY <3>1 DEF SteadyBegin, SteadyEnd, TickAllOff
    <3>2. CASE TickHandoff
      BY <3>2, <2>m DEF TickHandoff, ModeFacts
    <3>3. CASE TickSineEntry
      BY <3>3, <2>m DEF TickSineEntry, ModeFacts
    <3>4. CASE TickStart
      BY <3>4, <2>m DEF TickStart, ModeFacts
    <3>5. CASE TickSineDrive \/ TickIdle \/ TickPolling \/ TickRunning
      BY <3>5 DEF TickSineDrive, TickIdle, TickPolling, TickRunning,
         RunningTick
    <3>6. CASE TickDisarmed
      BY <3>6, <2>m DEF TickDisarmed, ModeFacts
    <3> QED
      BY <2>3, <3>1, <3>2, <3>3, <3>4, <3>5, <3>6 DEF Tick
  <2>4. CASE Main
    <3>1. CASE mode = "Disarmed"
      <4>1. Transition(mode, "StopMotor") = mode
        BY <2>m, <3>1 DEF ModeFacts
      <4>2. mode' = mode
        BY <2>4, <2>m, <3>1, <4>1 DEF Main, MainSine, SineNotWanted,
           SineHandoffQueued, SineIdle, SineStep, MainMap, MainLatch,
           MainAllOff, MainBrake, MainSnapshot, MainStall, MainPoll,
           MainRecover, MainStop, MainZeroZc, MainDesync, MainFallback,
           MainDesyncStop, MainTimeout, MainLvc, MainLvcDisarm, Reset,
           SetOldRoutine, ModeFacts, shared
      <4> QED
        BY <3>1, <4>2
    <3>2. CASE mode # "Disarmed"
      BY <2>4, <2>m, <3>2, MainModes
    <3> QED
      BY <3>1, <3>2
  <2> QED
    BY <2>1, <2>2, <2>3, <2>4 DEF Next
<1>2. TypeOK /\ [Next]_vars => [Step]_vars
  BY <1>1
<1> QED
  BY <1>2, TypeCorrect, PTL DEF Spec, ModeSteps
-------------------------------------------------------------------------------
(***************************************************************************)
(* The handoff out of sine.  A queued handoff waits for a tick while the   *)
(* main loop runs on; whatever it waits through, the phases are still      *)
(* sine's when a tick takes it.                                            *)
(***************************************************************************)
QueuedHandoff == changeover /\ mode = "StepperSine" => pattern = "sine"

\* No handoff is queued at boot.
LEMMA HandoffInit == Init => QueuedHandoff
BY DEF Init, QueuedHandoff

\* While a handoff waits in sine mode no step takes the phases from sine.
LEMMA HandoffNext == TypeOK /\ BridgeInv /\ QueuedHandoff /\ [Next]_vars
                       => QueuedHandoff'
<1> SUFFICES ASSUME TypeOK, BridgeInv, QueuedHandoff, [Next]_vars
             PROVE  QueuedHandoff'
  OBVIOUS
<1>m. ModeFacts
  BY TransitionTable DEF TypeOK
<1> USE DEF QueuedHandoff, IsRunning, IsStepperSine
<1>1. CASE World
  BY <1>1 DEF World, Frame, CompEdge, ComTimerExpires, IntervalAdvances,
     IntervalWraps, shared, devices
<1>2. CASE Interrupt
  <2>1. CASE CompStale \/ CompAccept \/ CompNoise \/ ComTimerStale
    BY <2>1 DEF CompStale, CompAccept, CompNoise, ComTimerStale, shared
  <2>2. CASE CommutateRunning \/ CommutatePolling
    BY <2>2, <1>m DEF CommutateRunning, CommutatePolling, SetOldRoutine,
       ModeFacts
  <2> QED
    BY <1>2, <2>1, <2>2 DEF Interrupt
<1>3. CASE Tick
  <2>1. CASE SteadyBegin \/ SteadyEnd
    BY <2>1 DEF SteadyBegin, SteadyEnd, SteadyTick, devices
  <2>2. CASE TickAllOff
    BY <2>2 DEF TickAllOff
  <2>3. CASE FullTick
    BY <2>3 DEF FullTick
  <2> QED
    BY <1>3, <2>1, <2>2, <2>3, FullTicks
<1>4. CASE MainSine
  <2>1. CASE SineNotWanted \/ SineHandoffQueued \/ SineIdle
    BY <2>1 DEF SineNotWanted, SineHandoffQueued, SineIdle, SineActive,
       shared, devices
  <2>2. CASE SineStep
    <3>1. sineOn => pattern = "sine"
      BY DEF BridgeInv, SineOutputs
    <3> QED
      BY <2>2, <3>1 DEF SineStep, SineActive
  <2> QED
    BY <1>4, <2>1, <2>2 DEF MainSine
<1>5. CASE Reset
  BY <1>5 DEF Reset
<1>6. CASE Main /\ ~MainSine /\ ~Reset
  BY <1>6, <1>m, MainKeeps, MainModes
<1>7. CASE UNCHANGED vars
  BY <1>7 DEF vars, shared, devices
<1> QED
  BY <1>1, <1>2, <1>3, <1>4, <1>5, <1>6, <1>7 DEF Next

\* Sine ends in six-step by the tick alone, with sine still on the phases and
\* the commutation timer armed.
THEOREM HandoffsComplete == Spec => HandoffComplete
<1>1. ASSUME TypeOK, QueuedHandoff, Next, mode = "StepperSine",
             mode' = "OldRoutine"
      PROVE  pattern = "sine" /\ com' = "armed" /\ ~zcFound'
  <2>m. ModeFacts
    BY <1>1, TransitionTable DEF TypeOK
  <2>1. ~Main
    BY <1>1, <2>m, MainModes DEF IsRunning
  <2>2. ~World /\ ~Interrupt
    BY <1>1, <2>m DEF World, Frame, CompEdge, ComTimerExpires,
       IntervalAdvances, IntervalWraps, Interrupt, CompStale, CompAccept,
       CompNoise, ComTimerStale, CommutateRunning, CommutatePolling, shared,
       IsRunning
  <2>3. TickHandoff
    BY <1>1, <2>m, <2>1, <2>2 DEF Next, Tick, SteadyBegin, SteadyEnd,
       TickAllOff, TickSineEntry, TickSineDrive, TickStart, TickIdle,
       TickPolling, TickRunning, TickDisarmed, RunningTick, ModeFacts
  <2> QED
    BY <1>1, <2>3 DEF TickHandoff, QueuedHandoff
<1>2. TypeOK /\ QueuedHandoff /\ [Next]_vars =>
        [mode = "StepperSine" /\ mode' = "OldRoutine" =>
           pattern = "sine" /\ com' = "armed" /\ ~zcFound']_vars
  BY <1>1
<1> QED
  BY <1>2, HandoffInit, HandoffNext, BridgeInvariant, TypeCorrect, PTL
     DEF Spec, HandoffComplete
================================================================================
