----------------------------- MODULE MotorControl -----------------------------
(***************************************************************************)
(* The motor's control core: the main loop, the 20 kHz control tick, the   *)
(* comparator (COMP) and commutation-timer (TIM14/TIM16) handlers, and the *)
(* atomics through which they talk.                                        *)
(*                                                                         *)
(* Scheduling.  COMP and the commutation timer share the highest           *)
(* preemption priority: a pending one runs before the tick or the main     *)
(* loop takes another step, and neither preempts the other.  The tick      *)
(* preempts the main loop between any two of its accesses to shared state. *)
(* The tick runs with interrupts masked (one step) except for the          *)
(* calculation of a steady Running tick (SteadyBegin .. SteadyEnd).        *)
(*                                                                         *)
(* Abstraction.  Times are classes, counters are capped, and a comparison  *)
(* of two measured times is a choice.  Duty, ramp, direction, tone and     *)
(* telemetry are left out: no decision modelled here reads them.           *)
(***************************************************************************)
EXTENDS MotorMode

CONSTANTS
  UseSine,          \* config.use_sine_start
  BrakeMode,        \* config.brake_on_stop: 0 off, 1 proportional, 2 active
  StuckProtection,  \* config.stuck_rotor_protection
  StrictChangeover, \* config flag latched for the commutation handler
  Throttle,         \* the raw throttle values a frame may carry
  SineMap,          \* sine_start_map on Throttle
  AdvanceZc,        \* MIN_ZC_FOR_ADVANCE
  DesyncZc,         \* zero crossings above which a desync check counts
  ExitZc,           \* OLD_ROUTINE_EXIT_ZC, and the cap of the counter here
  StrictLimit,      \* BEMF_TIMEOUT_STRICT
  LenientLimit,     \* BEMF_TIMEOUT_LENIENT
  Latched           \* BEMF_FAULT_LATCHED

THROTTLE_MIN_SIGNAL      == 47
SINE_ENTRY_THROTTLE      == 127
BEMF_LENIENT_THROTTLE    == 150
SINE_BEMF_CLEAR_THROTTLE == 160
SINE_CHANGEOVER_THROTTLE == 200

ASSUME ConfigAssumption ==
  /\ UseSine \in BOOLEAN /\ StuckProtection \in BOOLEAN
  /\ StrictChangeover \in BOOLEAN
  /\ BrakeMode \in 0..2
ASSUME ThrottleAssumption ==
  /\ Throttle \subseteq Nat
  /\ 0 \in Throttle
  /\ SineMap \in [Throttle -> Nat]
ASSUME CounterAssumption ==
  /\ {AdvanceZc, DesyncZc, ExitZc, StrictLimit, LenientLimit, Latched}
       \subseteq Nat
  /\ AdvanceZc <= ExitZc
  /\ StrictLimit < Latched /\ LenientLimit < Latched

VARIABLES
  \* Atomics of SharedState.
  mode,          \* motor_mode
  action,        \* isr_action
  changeover,    \* changeover_step # 0
  newinput,      \* raw throttle, written by the frame handler
  input,         \* adjusted_input, written by the main loop
  zeroCrosses,   \* zero_crosses, capped at ExitZc
  intervalPub,   \* interval_timer_count > BEMF_STALL_TIMER_THRESHOLD
  gateAvg,       \* gate_avg # 0
  eComTime,      \* e_com_time # 0
  propBrake,     \* prop_brake_active
  desyncPending, \* desync_check_pending
  \* Peripherals.
  com,           \* commutation timer: "off", "armed", "expired" (UIF and UIE)
  comp,          \* comparator EXTI line: "masked", "on", "pending"
  interval,      \* interval timer: Early, PastGate or PastStall
  pattern,       \* how the bridge's phases are driven
  \* Cells of the tick and of the commutation tier.
  zcFound,       \* bemf.zc_found
  sineOn,        \* duty.sine_outputs_on
  brakeOn,       \* duty.active_brake_on
  tick,          \* "idle", or "steady" while the unmasked part runs
  \* Locals of the main loop.
  pc, stalls,    \* next step; protection.bemf_timeout_happened
  limit,         \* protection.bemf_timeout
  desyncCheck,   \* desync_check: a revolution waits to be compared
  desyncing,     \* this pass found a desync
  needsReset     \* needs_reset

shared  == <<mode, action, changeover, newinput, input, zeroCrosses,
             intervalPub, gateAvg, eComTime, propBrake, desyncPending>>
devices == <<com, comp, interval, pattern>>
cells   == <<zcFound, sineOn, brakeOn, tick>>
protection == <<stalls, limit, desyncCheck, desyncing, needsReset>>
locals  == <<pc, protection>>
vars    == <<shared, devices, cells, locals>>

Early     == 0   \* below half of the average commutation interval
PastGate  == 1
PastStall == 2   \* above BEMF_STALL_TIMER_THRESHOLD

Patterns == {"off", "sixstep", "sine", "brake", "prop"}
MainSteps == {"sine", "map", "latch", "allOff", "brake", "snapshot", "stall",
              "poll", "recover", "stop", "zeroZc", "desync", "fallback",
              "desyncStop", "timeout", "lvc", "lvcDisarm"}

\* adjusted_input holds a frame's raw value, its sine mapping, or zero.
Inputs == Throttle \cup {SineMap[t] : t \in Throttle}

TypeOK ==
  /\ mode \in Modes /\ action \in IsrActions /\ changeover \in BOOLEAN
  /\ newinput \in Throttle /\ input \in Inputs
  /\ zeroCrosses \in 0..ExitZc
  /\ intervalPub \in BOOLEAN /\ gateAvg \in BOOLEAN /\ eComTime \in BOOLEAN
  /\ propBrake \in BOOLEAN /\ desyncPending \in BOOLEAN
  /\ com \in {"off", "armed", "expired"}
  /\ comp \in {"masked", "on", "pending"}
  /\ interval \in {Early, PastGate, PastStall}
  /\ pattern \in Patterns
  /\ zcFound \in BOOLEAN /\ sineOn \in BOOLEAN /\ brakeOn \in BOOLEAN
  /\ desyncCheck \in BOOLEAN /\ desyncing \in BOOLEAN
  /\ needsReset \in BOOLEAN
  /\ tick \in {"idle", "steady"}
  /\ pc \in MainSteps
  /\ stalls \in 0..Latched
  /\ limit \in {StrictLimit, LenientLimit}

Init ==
  /\ mode = "Disarmed" /\ input = 0 /\ newinput = 0
  /\ action = None /\ changeover = FALSE /\ zeroCrosses = 0
  /\ intervalPub = FALSE /\ gateAvg = FALSE /\ eComTime = FALSE
  /\ propBrake = FALSE /\ desyncPending = FALSE
  /\ com = "off" /\ comp = "masked" /\ interval = Early /\ pattern = "off"
  /\ zcFound = FALSE /\ sineOn = FALSE /\ brakeOn = FALSE /\ tick = "idle"
  /\ pc = "sine" /\ stalls = 0 /\ limit = StrictLimit
  /\ desyncCheck = FALSE /\ desyncing = FALSE /\ needsReset = FALSE

-------------------------------------------------------------------------------
(***************************************************************************)
(* The world: frames, comparator edges and the two timers.                 *)
(***************************************************************************)

\* The frame handler may run between any two steps; of what it writes, the
\* control core reads the raw throttle.
Frame ==
  \E t \in Throttle \ {newinput} :
    /\ newinput' = t
    /\ UNCHANGED <<mode, action, changeover, input, zeroCrosses, intervalPub,
                   gateAvg, eComTime, propBrake, desyncPending>>
    /\ UNCHANGED <<devices, cells, locals>>

\* An edge seen while masked is one seen right after unmasking.
CompEdge ==
  /\ comp = "on"
  /\ comp' = "pending"
  /\ UNCHANGED <<shared, com, interval, pattern, cells, locals>>

ComTimerExpires ==
  /\ com = "armed"
  /\ com' = "expired"
  /\ UNCHANGED <<shared, comp, interval, pattern, cells, locals>>

IntervalAdvances ==
  /\ interval < PastStall
  /\ interval' = interval + 1
  /\ UNCHANGED <<shared, com, comp, pattern, cells, locals>>

\* The 16-bit timer wraps.  A running motor's main loop is taken to look at
\* it in the 10 ms between the stall threshold and the wrap.
IntervalWraps ==
  /\ interval = PastStall /\ ~IsRunning(mode)
  /\ interval' = Early
  /\ UNCHANGED <<shared, com, comp, pattern, cells, locals>>

-------------------------------------------------------------------------------
(***************************************************************************)
(* Priority 0: the comparator and the commutation timer.                   *)
(***************************************************************************)

InterruptPending == comp = "pending" \/ com = "expired"

\* Mutation: the early return leaves the edge pending, and the handler is
\* entered again for ever.
CompReturnsEarly ==
  /\ comp = "pending"
  /\ mode # "Running"
  /\ UNCHANGED vars

\* A motor that is not running, or polls, masks the line and clears it.
CompStale ==
  /\ comp = "pending"
  /\ mode # "Running"
  /\ comp' = "masked"
  /\ UNCHANGED <<shared, com, interval, pattern, cells, locals>>

GateOpen == gateAvg /\ interval # Early

\* Gate open and the level persists: the crossing is timed, the line masked
\* and the commutation timer armed.
CompAccept ==
  /\ comp = "pending" /\ mode = "Running" /\ GateOpen
  /\ comp' = "masked"
  /\ interval' = Early
  /\ com' = "armed"
  /\ UNCHANGED <<shared, pattern, cells, locals>>

\* Gate open and the level flickers, or gate closed and the level is the one
\* before the crossing: cleared, the line stays unmasked.
CompNoise ==
  /\ comp = "pending" /\ mode = "Running"
  /\ comp' = "on"
  /\ UNCHANGED <<shared, com, interval, pattern, cells, locals>>

\* Gate closed and the level already past the crossing: the handler returns
\* with the edge pending and is entered again until the gate opens, so the
\* state repeats; with no average there is nothing to wait for (CompNoise).

\* The timer of a motor that has stopped meanwhile: silence both sources.
\* Mutation: without the running check, the bridge is advanced.
StaleCommutates ==
  /\ com = "expired" /\ ~IsRunning(mode)
  /\ com' = "off" /\ comp' = "masked" /\ pattern' = "sixstep"
  /\ UNCHANGED <<shared, interval, cells, locals>>

ComTimerStale ==
  /\ com = "expired" /\ ~IsRunning(mode)
  /\ com' = "off" /\ comp' = "masked"
  /\ UNCHANGED <<shared, interval, pattern, cells, locals>>

Bumped(zc) == IF zc < ExitZc THEN zc + 1 ELSE zc

\* Mutation: the line is left masked.
LeftMasked(line) == line

\* enable_irq: an edge already pending stays so.
Enabled(line) == IF line = "masked" THEN "on" ELSE line

\* Advance the bridge and record the interval.
Commutate ==
  /\ com = "expired" /\ IsRunning(mode)
  /\ com' = "off"
  /\ pattern' = "sixstep"
  /\ eComTime' = TRUE
  /\ \E check \in BOOLEAN : desyncPending' = (desyncPending \/ check)
  /\ zcFound' = FALSE
  /\ zeroCrosses' = Bumped(zeroCrosses)
  /\ UNCHANGED <<action, changeover, newinput, input, intervalPub, propBrake,
                 interval, sineOn, brakeOn, tick, locals>>

\* Interrupt mode: listen for the next crossing, or fall back to polling
\* when the interval has grown too long.
CommutateRunning ==
  /\ Commutate
  /\ mode = "Running"
  /\ \/ mode' = mode /\ comp' = Enabled(comp)
     \/ mode' = SetOldRoutine(mode) /\ comp' = comp
  /\ UNCHANGED gateAvg

ChangeoverCount(zc) == ~StrictChangeover \/ zc >= ExitZc

\* Mutation: the handover leaves the gate to the next tick.
GateAsItIs == gateAvg

\* The average at the handover is at least one timer tick.
GateAtLock == TRUE

\* Polling: hand over to the comparator once the interval is short enough.
CommutatePolling ==
  /\ Commutate
  /\ mode = "OldRoutine"
  /\ \/ UNCHANGED <<mode, gateAvg, comp>>
     \/ /\ ChangeoverCount(zeroCrosses')
        /\ gateAvg' = GateAtLock
        /\ mode' = Transition(mode, "BemfLocked")
        /\ comp' = Enabled(comp)

-------------------------------------------------------------------------------
(***************************************************************************)
(* The control tick.                                                       *)
(***************************************************************************)

StartThreshold == IF UseSine THEN SINE_ENTRY_THROTTLE ELSE THROTTLE_MIN_SIGNAL

\* Mutation: the test of a pending request is dropped.
SteadyDespiteRequest ==
  mode = "Running" /\ ~changeover /\ input >= StartThreshold

SteadyTick ==
  /\ mode = "Running"
  /\ action = None /\ ~changeover
  /\ input >= StartThreshold

TickReady == tick = "idle" /\ ~InterruptPending

\* Mutation: the sine flag is not dropped.
BrakeFlagDropped == brakeOn' = FALSE /\ UNCHANGED sineOn

FlagsDropped == sineOn' = FALSE /\ brakeOn' = FALSE

\* The unmasked calculation: the tick latches the comparator's gate.
SteadyBegin ==
  /\ TickReady /\ SteadyTick
  /\ tick' = "steady"
  /\ gateAvg' = eComTime
  /\ FlagsDropped
  /\ UNCHANGED <<mode, action, changeover, newinput, input, zeroCrosses,
                 intervalPub, eComTime, propBrake, desyncPending>>
  /\ UNCHANGED <<devices, zcFound, locals>>

\* The masked part that follows: publish the interval timer.
SteadyEnd ==
  /\ tick = "steady" /\ ~InterruptPending
  /\ tick' = "idle"
  /\ intervalPub' = (interval = PastStall)
  /\ UNCHANGED <<mode, action, changeover, newinput, input, zeroCrosses,
                 gateAvg, eComTime, propBrake, desyncPending>>
  /\ UNCHANGED <<devices, zcFound, sineOn, brakeOn, locals>>

\* A kill request: everything off, acknowledged, nothing else done.
TickAllOff ==
  /\ TickReady /\ action = AllOff
  /\ action' = None
  /\ changeover' = FALSE
  /\ com' = "off" /\ comp' = "masked" /\ pattern' = "off"
  /\ FlagsDropped
  /\ UNCHANGED <<mode, newinput, input, zeroCrosses, intervalPub, gateAvg,
                 eComTime, propBrake, desyncPending, interval, zcFound, tick,
                 locals>>

\* What the other requests leave behind before the tick looks at the mode.
\* Mutation: the wrong request re-arms the commutation timer.
KickedByReset == action = ResetIntervalTimer /\ IsRunning(mode)

Kicked        == action = CommutateKick /\ IsRunning(mode)
ComActed      == IF Kicked THEN "armed" ELSE com
ZcFoundActed  == zcFound \/ Kicked
IntervalActed == IF action = None THEN interval ELSE Early

\* Every other full tick acknowledges the request and cancels a queued
\* handoff; at its end it latches the gate and publishes the interval timer.
FullTick ==
  /\ TickReady /\ ~SteadyTick /\ action # AllOff
  /\ action' = None
  /\ changeover' = FALSE
  /\ UNCHANGED <<newinput, input, propBrake, desyncPending, tick, locals>>

Publish ==
  /\ gateAvg' = eComTime'
  /\ intervalPub' = (interval' = PastStall)

\* Mutation: the phases are not switched off.
PhasesKept(active, p) ==
  CASE active /\ ~brakeOn -> "brake" [] ~active /\ propBrake -> "prop"
    [] OTHER -> p

\* The phases of an idle tick that has left them at p so far: active brake,
\* whose pattern is installed on entry only, proportional brake, or all off.
IdlePhases(active, p) ==
  CASE active /\ ~brakeOn   -> "brake"
    [] active /\ brakeOn    -> p
    [] ~active /\ propBrake -> "prop"
    [] OTHER                -> "off"

\* Mutation: the commutation timer keeps running under the brake.
ComKept(active, c) == c

ComUnderBrake(active, c) == IF active /\ ~brakeOn THEN "off" ELSE c

\* A tick that ends with the motor neither running nor in sine drive.
IdleBridge(active, c, p) ==
  /\ brakeOn' = active
  /\ com' = ComUnderBrake(active, c)
  /\ pattern' = IdlePhases(active, p)

SineDrive(m) == IsStepperSine(m) /\ input > THROTTLE_MIN_SIGNAL

\* A queued handoff, taken while sine drives above the changeover throttle.
TickHandoff ==
  /\ FullTick
  /\ changeover /\ IsStepperSine(mode) /\ input > SINE_CHANGEOVER_THROTTLE
  /\ mode' = Transition(mode, "ExitSine")
  /\ pattern' = "sixstep"
  /\ interval' \in {Early, PastGate}
  /\ com' = "armed" /\ comp' = "masked"
  /\ zcFound' = FALSE
  /\ FlagsDropped
  /\ UNCHANGED <<zeroCrosses, eComTime>>
  /\ Publish

EntryPhases == IF IsStepperSine(mode) THEN pattern ELSE "off"

\* Armed with sine start and little throttle: the motor is in sine mode.
TickSineEntry ==
  /\ FullTick
  /\ UseSine /\ IsArmed(mode) /\ input < StartThreshold
  /\ mode' = Transition(Transition(mode, "StopMotor"), "EnterSine")
  /\ zeroCrosses' = 0 /\ zcFound' = FALSE
  /\ comp' = "masked"
  /\ interval' = IntervalActed
  /\ IF SineDrive(mode')
     THEN /\ pattern' = EntryPhases /\ com' = "off" /\ brakeOn' = FALSE
          /\ sineOn' = (sineOn /\ IsStepperSine(mode))
     ELSE IdleBridge(BrakeMode = 2, "off", EntryPhases) /\ sineOn' = FALSE
  /\ UNCHANGED eComTime
  /\ Publish

\* Sine drive without a handoff: the main loop owns the phases.
TickSineDrive ==
  /\ FullTick
  /\ IsStepperSine(mode) /\ input >= StartThreshold
  /\ ~ (changeover /\ input > SINE_CHANGEOVER_THROTTLE)
  /\ brakeOn' = FALSE
  /\ comp' = "masked" /\ interval' = IntervalActed
  /\ UNCHANGED <<mode, zeroCrosses, eComTime, com, pattern, zcFound, sineOn>>
  /\ Publish

\* One polling sample, in the tick that starts the motor or a later one.  A
\* crossing found in the first few steps commutates at once; later ones arm
\* the commutation timer.
Polling(starting) ==
  LET sampled == IF starting THEN {Early, PastGate} ELSE {IntervalActed}
      driven  == IF starting THEN "sixstep" ELSE pattern
      timed   == starting \/ eComTime
  IN
  /\ comp' = "masked"
  /\ \/ /\ com' = ComActed /\ zcFound' = ZcFoundActed
        /\ interval' \in sampled
        /\ pattern' = driven /\ eComTime' = timed
        /\ UNCHANGED zeroCrosses
     \/ /\ ~ZcFoundActed /\ zeroCrosses < AdvanceZc
        /\ com' = ComActed /\ zcFound' = FALSE
        /\ interval' = Early
        /\ pattern' = "sixstep" /\ eComTime' = TRUE
        /\ zeroCrosses' = Bumped(zeroCrosses)
     \/ /\ ~ZcFoundActed /\ zeroCrosses >= AdvanceZc
        /\ com' = "armed" /\ zcFound' = TRUE
        /\ interval' = Early
        /\ pattern' = driven /\ eComTime' = timed
        /\ UNCHANGED zeroCrosses

\* Armed and enough throttle: start the motor and poll.
TickStart ==
  /\ FullTick
  /\ mode = "Armed" /\ input >= StartThreshold
  /\ mode' = Transition(mode, "StartMotor")
  /\ FlagsDropped
  /\ Polling(TRUE)
  /\ Publish

\* Armed and idle, without sine start.
TickIdle ==
  /\ FullTick
  /\ mode = "Armed" /\ ~UseSine /\ input < StartThreshold
  /\ zeroCrosses' = 0 /\ zcFound' = FALSE
  /\ sineOn' = FALSE
  /\ IdleBridge(BrakeMode = 2, com, pattern)
  /\ comp' = "masked" /\ interval' = IntervalActed
  /\ UNCHANGED <<mode, eComTime>>
  /\ Publish

RunningTick ==
  /\ FullTick
  /\ UseSine => input >= StartThreshold
  /\ FlagsDropped
  /\ UNCHANGED mode

TickPolling ==
  /\ RunningTick
  /\ mode = "OldRoutine"
  /\ Polling(FALSE)
  /\ Publish

\* A Running motor with a request to act on or with the throttle released.
TickRunning ==
  /\ RunningTick
  /\ mode = "Running"
  /\ com' = ComActed /\ zcFound' = ZcFoundActed /\ interval' = IntervalActed
  /\ UNCHANGED <<zeroCrosses, eComTime, comp, pattern>>
  /\ Publish

\* Disarmed: zero throttle held long enough arms.  A signal loss has cleared
\* input_set, which arming needs, until the reset that follows.
TickDisarmed ==
  /\ FullTick
  /\ mode = "Disarmed"
  /\ \/ mode' = mode
     \/ input = 0 /\ ~needsReset /\ mode' = Transition(mode, "Arm")
  /\ sineOn' = FALSE
  /\ IdleBridge(IsArmed(mode') /\ input < StartThreshold /\ BrakeMode = 2,
                com, pattern)
  /\ comp' = "masked" /\ interval' = IntervalActed
  /\ UNCHANGED <<zeroCrosses, eComTime, zcFound>>
  /\ Publish

Tick == \/ SteadyBegin \/ SteadyEnd
        \/ TickAllOff \/ TickHandoff \/ TickSineEntry \/ TickSineDrive
        \/ TickStart \/ TickIdle \/ TickPolling \/ TickRunning \/ TickDisarmed

-------------------------------------------------------------------------------
(***************************************************************************)
(* The main loop, one step per access to state that the handlers share.    *)
(***************************************************************************)

At(step) == pc = step /\ TickReady
Goto(step) == pc' = step

\* Every main step but the sine service leaves peripherals and cells alone.
MainOnly == UNCHANGED <<devices, cells, newinput, intervalPub, gateAvg,
                        eComTime>>

\* Sine service, with interrupts masked.
SineNotWanted ==
  /\ ~IsStepperSine(mode) \/ action = AllOff
  /\ sineOn' = FALSE
  /\ UNCHANGED <<shared, devices, brakeOn>>

SineHandoffQueued ==
  /\ IsStepperSine(mode) /\ action # AllOff /\ changeover
  /\ UNCHANGED <<shared, devices, sineOn, brakeOn>>

SineActive == IsStepperSine(mode) /\ action # AllOff /\ ~changeover

SineIdle ==
  /\ SineActive /\ input <= THROTTLE_MIN_SIGNAL
  /\ sineOn' = FALSE
  /\ propBrake' \in {FALSE, BrakeMode = 1}
  /\ UNCHANGED <<mode, action, changeover, newinput, input, zeroCrosses,
                 intervalPub, gateAvg, eComTime, desyncPending>>
  /\ UNCHANGED <<devices, brakeOn>>

\* One sine step; above the changeover throttle it queues the handoff with
\* the counter set so that polling arms the commutation timer at once.
SineStep ==
  /\ SineActive /\ input > THROTTLE_MIN_SIGNAL
  /\ IF sineOn
     THEN UNCHANGED <<com, comp, pattern, brakeOn>>
     ELSE com' = "off" /\ comp' = "masked" /\ pattern' = "sine"
          /\ brakeOn' = FALSE
  /\ propBrake' = FALSE
  /\ IF input > SINE_CHANGEOVER_THROTTLE
     THEN changeover' = TRUE /\ zeroCrosses' = ExitZc /\ sineOn' = FALSE
     ELSE sineOn' = TRUE /\ UNCHANGED <<changeover, zeroCrosses>>
  /\ UNCHANGED <<mode, action, newinput, input, intervalPub, gateAvg,
                 eComTime, desyncPending, interval>>

MainSine ==
  /\ At("sine") /\ ~needsReset
  /\ SineNotWanted \/ SineHandoffQueued \/ SineIdle \/ SineStep
  /\ Goto("map")
  /\ UNCHANGED <<zcFound, tick, protection>>

\* process_input publishes the raw throttle, ...
MainMap ==
  /\ At("map")
  /\ input' = newinput
  /\ Goto("latch")
  /\ MainOnly
  /\ UNCHANGED <<mode, action, changeover, zeroCrosses, propBrake,
                 desyncPending, protection>>

RotorStuck == StuckProtection /\ stalls > limit

\* ... then zeroes it under a stuck-rotor fault, or shapes it for sine.
MainLatch ==
  /\ At("latch")
  /\ IF RotorStuck
     THEN input' = 0 /\ Goto("allOff")
     ELSE /\ input' = IF UseSine /\ input > THROTTLE_MIN_SIGNAL
                      THEN SineMap[input] ELSE input
          /\ Goto("brake")
  /\ MainOnly
  /\ UNCHANGED <<mode, action, changeover, zeroCrosses, propBrake,
                 desyncPending, protection>>

MainAllOff ==
  /\ At("allOff")
  /\ propBrake' = FALSE
  /\ action' = Request(action, AllOff)
  /\ stalls' = Latched
  /\ Goto("snapshot")
  /\ MainOnly
  /\ UNCHANGED <<mode, changeover, input, zeroCrosses, desyncPending, limit,
                 desyncCheck, desyncing, needsReset>>

MainBrake ==
  /\ At("brake")
  /\ propBrake' = \/ /\ IsArmed(mode) /\ ~IsStepperSine(mode)
                     /\ input < THROTTLE_MIN_SIGNAL /\ BrakeMode = 1
                  \/ propBrake /\ input < THROTTLE_MIN_SIGNAL
  /\ Goto("snapshot")
  /\ MainOnly
  /\ UNCHANGED <<mode, action, changeover, input, zeroCrosses, desyncPending,
                 protection>>

\* When the stall count is forgiven: throttle released, or, at the counter's
\* cap, a motor that has run long enough.
Forgiven == \/ newinput = 0
            \/ UseSine /\ newinput < SINE_BEMF_CLEAR_THROTTLE
MayForgive == zeroCrosses = ExitZc

\* Take the desync flag and read the values this pass decides on.  A check
\* that is due waits until the motor has counted enough crossings.
MainSnapshot ==
  LET due == desyncCheck \/ desyncPending IN
  /\ At("snapshot")
  /\ desyncPending' = FALSE
  /\ IF zeroCrosses > DesyncZc
     THEN desyncCheck' = FALSE /\ desyncing' \in {FALSE, due}
     ELSE desyncCheck' = due /\ desyncing' = FALSE
  /\ \/ (Forgiven \/ MayForgive) /\ stalls' = 0
     \/ ~Forgiven /\ stalls' = stalls
  /\ limit' = IF newinput < BEMF_LENIENT_THROTTLE
              THEN LenientLimit ELSE StrictLimit
  /\ Goto("stall")
  /\ MainOnly
  /\ UNCHANGED <<mode, action, changeover, input, zeroCrosses, propBrake,
                 needsReset>>

\* The published interval is past the stall threshold: count a stall, ...
StallSeen == intervalPub /\ IsRunning(mode)

Counted(n) == IF n < Latched THEN n + 1 ELSE n

MainStall ==
  /\ At("stall")
  /\ IF StallSeen
     THEN stalls' = Counted(stalls) /\ Goto("poll")
     ELSE UNCHANGED stalls /\ Goto("desync")
  /\ MainOnly
  /\ UNCHANGED <<mode, action, changeover, input, zeroCrosses, propBrake,
                 desyncPending, limit, desyncCheck, desyncing, needsReset>>

\* ... fall back to polling, ...
MainPoll ==
  /\ At("poll")
  /\ mode' = SetOldRoutine(mode)
  /\ Goto("recover")
  /\ MainOnly
  /\ UNCHANGED <<action, changeover, input, zeroCrosses, propBrake,
                 desyncPending, protection>>

\* ... then stop the motor, or kick it.
MainRecover ==
  /\ At("recover")
  /\ IF input < THROTTLE_MIN_SIGNAL
     THEN action' = Request(action, ResetIntervalTimer) /\ Goto("stop")
     ELSE action' = Request(action, CommutateKick) /\ Goto("zeroZc")
  /\ MainOnly
  /\ UNCHANGED <<mode, changeover, input, zeroCrosses, propBrake,
                 desyncPending, protection>>

MainStop ==
  /\ At("stop")
  /\ mode' = Transition(mode, "StopMotor")
  /\ Goto("zeroZc")
  /\ MainOnly
  /\ UNCHANGED <<action, changeover, input, zeroCrosses, propBrake,
                 desyncPending, protection>>

MainZeroZc ==
  /\ At("zeroZc")
  /\ zeroCrosses' = 0
  /\ Goto("desync")
  /\ MainOnly
  /\ UNCHANGED <<mode, action, changeover, input, propBrake, desyncPending,
                 protection>>

MainDesync ==
  /\ At("desync")
  /\ IF desyncing
     THEN zeroCrosses' = 0 /\ Goto("fallback")
     ELSE UNCHANGED zeroCrosses /\ Goto("timeout")
  /\ desyncing' = FALSE
  /\ MainOnly
  /\ UNCHANGED <<mode, action, changeover, input, propBrake, desyncPending,
                 stalls, limit, desyncCheck, needsReset>>

MainFallback ==
  /\ At("fallback")
  /\ mode' = Transition(mode, "DesyncFallback")
  /\ Goto("desyncStop") \/ Goto("timeout")
  /\ MainOnly
  /\ UNCHANGED <<action, changeover, input, zeroCrosses, propBrake,
                 desyncPending, protection>>

MainDesyncStop ==
  /\ At("desyncStop")
  /\ mode' = Transition(mode, "StopMotor")
  /\ Goto("timeout")
  /\ MainOnly
  /\ UNCHANGED <<action, changeover, input, zeroCrosses, propBrake,
                 desyncPending, protection>>

\* The signal may be lost, which disarms an armed motor and asks for a reset.
MainTimeout ==
  /\ At("timeout")
  /\ \/ UNCHANGED <<mode, needsReset>>
     \/ mode' = Transition(mode, "Disarm") /\ needsReset' = TRUE
  /\ Goto("lvc")
  /\ MainOnly
  /\ UNCHANGED <<action, changeover, input, zeroCrosses, propBrake,
                 desyncPending, stalls, limit, desyncCheck, desyncing>>

\* The battery may be low: kill the bridge, then disarm.
MainLvc ==
  /\ At("lvc")
  /\ \/ action' = action /\ Goto("sine")
     \/ action' = Request(action, AllOff) /\ Goto("lvcDisarm")
  /\ MainOnly
  /\ UNCHANGED <<mode, changeover, input, zeroCrosses, propBrake,
                 desyncPending, protection>>

MainLvcDisarm ==
  /\ At("lvcDisarm")
  /\ mode' = Transition(mode, "Disarm")
  /\ Goto("sine")
  /\ MainOnly
  /\ UNCHANGED <<action, changeover, input, zeroCrosses, propBrake,
                 desyncPending, protection>>

\* The end of a pass that asked for one: the processor restarts, from Init.
Reset ==
  /\ At("sine") /\ needsReset
  /\ mode' = "Disarmed" /\ input' = 0 /\ newinput' = 0
  /\ action' = None /\ changeover' = FALSE /\ zeroCrosses' = 0
  /\ intervalPub' = FALSE /\ gateAvg' = FALSE /\ eComTime' = FALSE
  /\ propBrake' = FALSE /\ desyncPending' = FALSE
  /\ com' = "off" /\ comp' = "masked" /\ interval' = Early /\ pattern' = "off"
  /\ zcFound' = FALSE /\ sineOn' = FALSE /\ brakeOn' = FALSE /\ tick' = "idle"
  /\ pc' = "sine" /\ stalls' = 0 /\ limit' = StrictLimit
  /\ desyncCheck' = FALSE /\ desyncing' = FALSE /\ needsReset' = FALSE

Main == \/ MainSine \/ MainMap \/ MainLatch \/ MainAllOff \/ MainBrake
        \/ MainSnapshot \/ MainStall \/ MainPoll \/ MainRecover \/ MainStop
        \/ MainZeroZc \/ MainDesync \/ MainFallback \/ MainDesyncStop \/ MainTimeout
        \/ MainLvc \/ MainLvcDisarm \/ Reset

-------------------------------------------------------------------------------
World     == Frame \/ CompEdge \/ ComTimerExpires \/ IntervalAdvances
             \/ IntervalWraps
Interrupt == CompStale \/ CompAccept \/ CompNoise \/ ComTimerStale
             \/ CommutateRunning \/ CommutatePolling

Next == World \/ Interrupt \/ Tick \/ Main

Spec == Init /\ [][Next]_vars

(***************************************************************************)
(* The hardware timers run and a pending interrupt is served.  A COMP      *)
(* handler that finds the gate closed may return with the edge pending, so *)
(* it is fair only once the gate is open.  The tick and the main loop are  *)
(* held off while an interrupt is pending, again and again but never for   *)
(* good: edges arrive at a bounded rate, so their fairness is strong.      *)
(***************************************************************************)
ComTimerHandler == ComTimerStale \/ CommutateRunning \/ CommutatePolling

Fairness ==
  /\ WF_vars(ComTimerExpires) /\ WF_vars(IntervalAdvances)
  /\ WF_vars(CompStale) /\ WF_vars(GateOpen /\ (CompAccept \/ CompNoise))
  /\ WF_vars(ComTimerHandler)
  /\ SF_vars(Tick) /\ SF_vars(Main)

FairSpec == Spec /\ Fairness

-------------------------------------------------------------------------------
(***************************************************************************)
(* Safety.                                                                 *)
(***************************************************************************)

\* The comparator handler never meets a Running motor without an average to
\* gate on: it would discard every crossing as noise and the motor would
\* coast until the stall check.  BemfLocked may precede the first tick that
\* could have latched the average.
GateLatched == mode = "Running" => gateAvg

\* A Running motor whose bridge is driven always has its next commutation
\* coming: the comparator listens or the commutation timer counts, whatever
\* mix of kicks, stops, restarts and kills came before.
RunningIsDriven ==
  mode = "Running" /\ pattern = "sixstep" => comp # "masked" \/ com # "off"

\* The main loop's sine output has the bridge to itself: while the flag says
\* that the phases are set up for sine they are, and no commutation interrupt
\* can take them over.
SineOwnsBridge ==
  sineOn => pattern = "sine" /\ com = "off" /\ comp = "masked"

\* No commutation interrupt can take the bridge from an active brake.
BrakeUndisturbed == brakeOn => com = "off" /\ comp = "masked"

\* What the tick tested before it unmasked interrupts still holds when it
\* masks them again, except that the commutation handler may have fallen back
\* to polling.
SteadyStillHolds ==
  tick = "steady" =>
    /\ IsRunning(mode) /\ action = None /\ ~changeover
    /\ input >= StartThreshold /\ ~sineOn /\ ~brakeOn

\* The mode machine is a progression: a disarmed motor can only be armed, at
\* zero throttle; a motor that runs was armed or in sine the step before; and
\* interrupt commutation is reached from polling only.
ModeSteps ==
  [][/\ mode = "Disarmed" /\ mode' # mode => mode' = "Armed" /\ input = 0
     /\ mode' = "StepperSine" => IsArmed(mode)
     /\ mode' = "OldRoutine" => IsArmed(mode)
     /\ mode' = "Running" => IsRunning(mode)]_vars

\* A kill is never downgraded or forgotten: the request stays until a tick
\* has switched the bridge off and silenced both commutation interrupts, or
\* the processor restarts.
KillAcknowledged ==
  [][action = AllOff /\ action' # AllOff =>
       pattern' = "off" /\ com' = "off" /\ comp' = "masked"]_vars

\* Six-step drive only ever begins while the motor runs: a commutation timer
\* or a comparator left over from an earlier run cannot drive a stopped motor.
DriveNeedsRunning ==
  [][pattern # "sixstep" /\ pattern' = "sixstep" => IsRunning(mode')]_vars

\* A full tick leaves the bridge in a state that fits the mode it ends in,
\* whatever the mode was when the bridge was last written.
TickSettlesBridge ==
  [][Tick /\ tick' = "idle" /\ tick = "idle" =>
       /\ pattern' = "sixstep" => IsRunning(mode')
       /\ pattern' = "sine"    => IsStepperSine(mode')
       /\ pattern' = "brake"   => IsArmed(mode')]_vars

\* Sine ends in six-step by the tick alone, with sine still on the phases and
\* the commutation timer armed: a queued handoff does not outlive a kill, a
\* stop or a disarm, and the main loop's own writes of the mode never end it.
HandoffComplete ==
  [][mode = "StepperSine" /\ mode' = "OldRoutine" =>
       pattern = "sine" /\ com' = "armed" /\ ~zcFound']_vars

(***************************************************************************)
(* Liveness.                                                               *)
(***************************************************************************)

\* A driven motor that nothing will commutate: the crossing of this step has
\* been consumed and neither interrupt is coming.
Dead ==
  /\ IsRunning(mode) /\ pattern = "sixstep"
  /\ com = "off" /\ comp = "masked"
  /\ mode = "Running" \/ zcFound

\* The stall check brings a dead commutation chain back, or takes the motor
\* out of drive.
StallRecovers == Dead ~> ~Dead

\* A kill request switches the bridge off, camping comparator or not.
KillHonoured == action = AllOff ~> pattern = "off"

(***************************************************************************)
(* What the sources say of the program and the program does not do.        *)
(***************************************************************************)

\* "stale run counters must not carry into the next startup attempt": a motor
\* that starts is not blind to the crossings of its first step.
StartsFresh ==
  [][mode = "Armed" /\ mode' = "OldRoutine" => ~(zcFound' /\ com' = "off")]_vars

\* "Zero adjusted_input for ISR safety (stops motor), latch the fault": a
\* latched stuck rotor is not started again.
LatchedStaysStopped ==
  [][StuckProtection /\ stalls = Latched /\ mode = "Armed"
       => mode' # "OldRoutine"]_vars

\* "Let three checks sample interrupt-mode timing after polling or a stop
\* before comparing averages from the two timing paths": no desync is found
\* in a motor that has not left sine, whose average is an earlier run's.
DesyncSettled == [][~desyncing /\ desyncing' => ~IsStepperSine(mode)]_vars

\* "Whether the active-brake phase pattern currently owns the bridge."
BrakeOwnsBridge == brakeOn => pattern = "brake"
===============================================================================
