------------------------------ MODULE Direction ------------------------------
(***************************************************************************)
(* The direction of a bidirectional motor.  Three copies of it exist: the  *)
(* frame interrupt's own (`forward` of InputIsrState, set by commands), the *)
(* shared one, and the commutation's, which the control tick copies from   *)
(* the shared one.  The main loop turns the shared copy round when the     *)
(* stick asks for it and the discipline of the input mode allows it; a     *)
(* command frame overwrites it.                                            *)
(*                                                                         *)
(* process_input is split at each access to shared state; a frame or a     *)
(* tick may come between any two.  The motor's speed is that published in  *)
(* commutation_interval and duty_cycle, as a class.                        *)
(***************************************************************************)
EXTENDS InputMapping, Sequences

CONSTANTS
  DirModes,     \* the input modes examined: InputMode, without "Unidirectional"
                \* when a bidirectional input is configured
  DshotSticks,  \* throttle values a DShot frame may carry
  ServoSticks,  \* pulse widths, on the scale 0 .. 2000
  DeadBand,     \* servo_dead_band
  BrakeOnStop   \* brake_on_stop = 1 with complementary PWM

Modes == {"Unidirectional", "BidirDshot", "BidirDshotRc", "BidirServo", "BidirServoRc"}

ASSUME DirectionAssumption ==
  /\ DirModes \subseteq Modes
  /\ DshotSticks \subseteq {0} \cup (ThrottleMinSignal + 1 .. DshotMaxThrottle)
  /\ ServoSticks \subseteq 0 .. 2000
  /\ DeadBand \in 0 .. 255
  /\ BrakeOnStop \in BOOLEAN

VARIABLES
  inputMode,  \* input_state.mode
  inRev,      \* dir_reversed in the frame interrupt's settings
  mainRev,    \* dir_reversed in the main loop's settings
  cmdForward, \* InputIsrState.forward
  shForward,  \* SharedState.forward
  comForward, \* Commutation.forward
  newinput,   \* the stick, as the last frame gave it
  adjusted,   \* the throttle the tick acts on
  braking,    \* prop_brake_active
  returned,   \* return_to_center
  faulted,    \* bemf_timeout_happened is over its limit
  motor,      \* "stopped", "slow" or "fast": what the published speed says
  dpc,        \* the main loop's place in process_input
  seen,       \* newinput as process_input read it
  result,     \* the mapping's result
  flipTo,     \* the direction that process_input is about to store
  granted,    \* ghost: the mode's discipline has allowed the pending reversal
  commanded,  \* ghost: a command frame came since the stick was last read
  overwritten,\* ghost: a command frame came that the tick has not settled
  directed,   \* ghost: a command asked for a direction the settings do not
  released    \* ghost: a brake was released at center since the last reversal

cfgVars   == <<inputMode, inRev, mainRev>>
inputVars == <<cmdForward, newinput>>
mainVars  == <<braking, returned, faulted, dpc, seen, result, flipTo>>
ghostVars == <<granted, commanded, overwritten, directed, released>>
dirVars   == <<cfgVars, inputVars, mainVars, shForward, comForward, adjusted, motor,
               ghostVars>>

IsDshot(m)  == m \in {"Unidirectional", "BidirDshot", "BidirDshotRc"}
IsRcCar(m)  == m \in {"BidirDshotRc", "BidirServoRc"}
Bidirectional == inputMode # "Unidirectional"
Sticks      == IF IsDshot(inputMode) THEN DshotSticks ELSE ServoSticks

Side(n)   == IF IsDshot(inputMode) THEN DshotSide(n) ELSE ServoSide(n, DeadBand)
Amount(n) == IF IsDshot(inputMode) THEN DshotAmount(n) ELSE ServoAmount(n, DeadBand)

\* What the mode's mapping makes of a stick position.
Mapped(n) ==
  LET want == Wanted(Side(n), mainRev)
  IN IF ~Bidirectional THEN Drive(n)
     ELSE IF IsRcCar(inputMode)
     THEN RcCar(Side(n), Amount(n), shForward, want, braking, returned)
     ELSE SpeedGated(Side(n), Amount(n), shForward, want, motor # "fast")

\* The stick at rest, as apply_rc_car_result and the fault's release test it.
InCenter(n) == IF IsDshot(inputMode) THEN n <= ThrottleMinSignal
                                     ELSE Side(n) = "center"
Released(n) == IF IsDshot(inputMode) THEN n = 0 ELSE Side(n) = "center"

DirInit ==
  /\ inputMode \in DirModes
  /\ inRev \in BOOLEAN /\ mainRev = inRev
  /\ cmdForward = ~inRev
  /\ shForward = TRUE /\ comForward = TRUE
  /\ newinput = 0 /\ adjusted = 0
  /\ braking = FALSE /\ returned = FALSE /\ faulted = FALSE
  /\ motor = "stopped"
  /\ dpc = "sync" /\ seen = 0 /\ result = Idle /\ flipTo = TRUE
  /\ granted = FALSE /\ commanded = FALSE /\ overwritten = FALSE /\ directed = FALSE
  /\ released = FALSE

------------------------------------------------------------------------------
(* The frame interrupt *)

StickFrame(n) ==
  /\ newinput' = n
  /\ UNCHANGED <<cfgVars, cmdForward, mainVars, shForward, comForward, adjusted,
                 motor, ghostVars>>

\* Commands 7, 8, 20 and 21 in their sixth repetition, with the motor at rest.
Direct ==
  /\ motor = "stopped"
  /\ \/ /\ inRev' = FALSE /\ cmdForward' = TRUE /\ UNCHANGED directed
     \/ /\ inRev' = TRUE /\ cmdForward' = FALSE /\ UNCHANGED directed
     \/ /\ cmdForward' \in {~inRev, inRev}
        /\ directed' = (directed \/ (~Bidirectional /\ cmdForward' = inRev))
        /\ UNCHANGED inRev

\* Every command frame publishes the interrupt's direction, whatever the
\* command and whatever the motor does.
CommandFrame ==
  /\ IsDshot(inputMode)
  /\ newinput' = 0
  /\ Direct \/ UNCHANGED <<inRev, cmdForward, directed>>
  /\ shForward' = cmdForward'
  /\ commanded' = TRUE /\ overwritten' = TRUE
  /\ UNCHANGED <<inputMode, mainRev, mainVars, comForward, adjusted, motor, granted,
                 released>>

------------------------------------------------------------------------------
(* The main loop: sync_config_writes, then process_input *)

SyncDirection ==
  /\ dpc = "sync"
  /\ mainRev' = inRev
  /\ dpc' = "read"
  /\ seen' = 0
  /\ UNCHANGED <<inputMode, inRev, inputVars, braking, returned, faulted,
                 result, flipTo, shForward, comForward, adjusted, motor, ghostVars>>

ReadStick ==
  /\ dpc = "read"
  /\ seen' = newinput
  /\ commanded' = FALSE
  /\ dpc' = "map"
  /\ UNCHANGED <<cfgVars, inputVars, braking, returned, faulted, result, flipTo,
                 shForward, comForward, adjusted, motor, granted, overwritten, directed,
                 released>>

MapStick ==
  /\ dpc = "map"
  /\ result' = Mapped(seen)
  /\ dpc' = "publish"
  /\ granted' = IF ~result'.reverse THEN granted
                ELSE IF IsRcCar(inputMode) THEN released ELSE motor # "fast"
  /\ UNCHANGED <<cfgVars, inputVars, braking, returned, faulted, seen, flipTo,
                 shForward, comForward, adjusted, motor, commanded, overwritten,
                 directed, released>>

PublishThrottle ==
  /\ dpc = "publish"
  /\ adjusted' = result.adjusted
  /\ dpc' = IF result.reverse THEN "load" ELSE "finish"
  /\ UNCHANGED <<cfgVars, inputVars, braking, returned, faulted, seen, result, flipTo,
                 shForward, comForward, motor, ghostVars>>

\* set_forward(!forward()): a load, then a store.
LoadForward ==
  /\ dpc = "load"
  /\ flipTo' = ~shForward
  /\ dpc' = "store"
  /\ UNCHANGED <<cfgVars, inputVars, braking, returned, faulted, seen, result,
                 shForward, comForward, adjusted, motor, ghostVars>>

StoreForward ==
  /\ dpc = "store"
  /\ shForward' = flipTo
  /\ released' = FALSE
  /\ dpc' = "finish"
  /\ UNCHANGED <<cfgVars, inputVars, braking, returned, faulted, seen, result, flipTo,
                 comForward, adjusted, motor, granted, commanded, overwritten, directed>>

\* apply_rc_car_result: the handshake ends with a reversal and begins when a
\* brake is released at center.
Handshake(b) ==
  IF InCenter(seen) /\ b THEN TRUE ELSE returned /\ ~result.reverse

\* The rest of process_input, then the main loop's fault bookkeeping.  A
\* latched fault stops the throttle and returns early.
FinishInput ==
  /\ dpc = "finish"
  /\ dpc' = "sync"
  /\ result' = Idle /\ flipTo' = TRUE
  /\ LET pulled   == braking \/ (IsRcCar(inputMode) /\ result.brake)
         center   == InCenter(seen) /\ pulled
         rcBrake  == pulled /\ ~center
         ownBrake == adjusted < ThrottleMinSignal /\ (BrakeOnStop \/ braking)
     IN /\ returned' = IF IsRcCar(inputMode) THEN Handshake(pulled) ELSE returned
        /\ IF faulted
           THEN adjusted' = 0 /\ braking' = FALSE
           ELSE /\ adjusted' = adjusted
                /\ braking' = IF IsRcCar(inputMode) THEN rcBrake ELSE ownBrake
        /\ released' = (released \/ (IsRcCar(inputMode) /\ center))
  /\ \/ Released(newinput) /\ faulted' = FALSE
     \/ ~Released(newinput) /\ motor # "stopped" /\ faulted' = TRUE
     \/ ~Released(newinput) /\ UNCHANGED faulted
  /\ UNCHANGED <<cfgVars, inputVars, seen, shForward, comForward, motor, granted,
                 commanded, overwritten, directed>>

MainInput == SyncDirection \/ ReadStick \/ MapStick \/ PublishThrottle
             \/ LoadForward \/ StoreForward \/ FinishInput

------------------------------------------------------------------------------
(* The control tick and the motor *)

\* The tick takes the direction, and starts a motor that has a throttle.
DirectionTick ==
  /\ comForward' = shForward
  /\ motor' = IF motor = "stopped" /\ adjusted >= ThrottleMinSignal THEN "slow" ELSE motor
  /\ LET turning == dpc \in {"publish", "load", "store"}
     IN /\ granted' = (granted /\ (turning \/ comForward' = comForward))
        /\ overwritten' = (overwritten /\ turning)
  /\ UNCHANGED <<cfgVars, inputVars, mainVars, shForward, adjusted, commanded, directed,
                 released>>

SpeedUp ==
  /\ motor = "slow" /\ adjusted >= ThrottleMinSignal
  /\ motor' = "fast"
  /\ UNCHANGED <<cfgVars, inputVars, mainVars, shForward, comForward, adjusted, ghostVars>>

\* Without throttle a motor slows down, and the stall check stops it.
Coast ==
  /\ motor # "stopped" /\ adjusted < ThrottleMinSignal
  /\ motor' = IF motor = "fast" THEN "slow" ELSE "stopped"
  /\ UNCHANGED <<cfgVars, inputVars, mainVars, shForward, comForward, adjusted, ghostVars>>

Frames == CommandFrame \/ \E n \in Sticks : StickFrame(n)

DirNext == Frames \/ MainInput \/ DirectionTick \/ SpeedUp \/ Coast

DirFairness == WF_dirVars(MainInput) /\ WF_dirVars(DirectionTick) /\ WF_dirVars(Coast)

DirSpec == DirInit /\ [][DirNext]_dirVars /\ DirFairness
------------------------------------------------------------------------------
(* Properties *)

\* A turning motor changes its direction only when the discipline of its input
\* mode has allowed it: the motor was slow when the stick was mapped, or, on an
\* RC car, a brake had been released at center.  A command frame is exempt.
ReversalGranted ==
  [][comForward' # comForward /\ motor # "stopped" => granted \/ overwritten]_dirVars

\* At the end of process_input a throttle goes with the direction of the stick
\* it was computed from, unless a command frame came in between.
ThrottleFollowsStick ==
  Bidirectional /\ dpc \in {"finish", "sync"} /\ adjusted >= ThrottleMinSignal
                /\ ~commanded
    => shForward = Wanted(Side(seen), mainRev)

\* A stick held back ends in a motor that turns that way, whatever the settings
\* make of it and however fast it turned the other way, unless a fault is latched.
ReversalServed ==
  <>[](inputMode \in {"BidirDshot", "BidirServo"}
         /\ Side(newinput) = "backward" /\ ~faulted)
    => <>[](comForward = Wanted("backward", mainRev) /\ adjusted >= ThrottleMinSignal)

\* The motor of a unidirectional input turns the way the settings say, until a
\* command asks for the other way.
SavedDirectionHolds ==
  ~Bidirectional /\ motor # "stopped" /\ ~directed => comForward = ~mainRev
==============================================================================
