----------------------------- MODULE BridgeControl -----------------------------
(***************************************************************************)
(* Who drives the bridge, and what the gates see of it.  The control tick  *)
(* drives, brakes, plays tones or turns everything off; the commutation    *)
(* interrupt takes the next step; the main loop steps the sine.  Each      *)
(* leaves a sequence of register writes (PhaseDriver), carried out one by  *)
(* one with the other writers masked, while the PWM period ends when it    *)
(* likes.                                                                  *)
(*                                                                         *)
(* Throttle is 0 below the minimum signal, 1 below the sine entry, 2 up to *)
(* the sine changeover and 3 above it; a compare value is zero or not.     *)
(* MotorControl models when the mode changes; here it may change whenever  *)
(* it could.                                                               *)
(***************************************************************************)
EXTENDS PhaseDriver

CONSTANTS
  BrakeSettings,  \* values of brake_on_stop: 0 none, 1 drag brake, 2 active brake
  PwmModes,       \* the bridge's PWM modes
  Tunes           \* sequences of note steps; 7 is the gap between repetitions

\* A note's step does not sink by the leg that the note before it drives, which the
\* timer goes on pulsing: com_step takes no time out between them.
Follows(first, second) ==
  \/ second \in {0, 7} \/ first = 7
  \/ first \in 1 .. 6 /\ Driven(first) # Sinking(second)

ASSUME BridgeAssumption ==
  /\ BrakeSettings \subseteq 0 .. 2
  /\ PwmModes \subseteq {"diode", "complementary"}
  /\ \A t \in Tunes :
       /\ t \in Seq(0 .. 7) /\ t # <<>>
       /\ \A i \in 1 .. Len(t) - 1 : Follows(t[i], t[i + 1])

VARIABLES
  brakeOnStop, pwmMode, sineStart,  \* the settings
  bridgeMode,   \* "disarmed", "armed", "driven" (running) or "sine"
  comStep,      \* Commutation.step
  drive,        \* adjusted_input
  propBrake,    \* prop_brake_active
  offAsked,     \* AllOff is requested
  changeover,   \* changeover_step is published
  activeBrake,  \* DutyState.active_brake_on
  sineOutputs,  \* DutyState.sine_outputs_on
  tuneAsked,    \* tone_request
  tune, note,   \* the tone scheduler: its tune and the note played, 0 for none
  todo,         \* register writes still to come
  timed,        \* pins in alternate mode
  latchHigh,      \* pins whose latch is high
  buffered,     \* compare register: "zero" or "some"
  compare,      \* the compare value in effect
  divider,      \* the timer's prescaler: "motor" or "tone"
  cut           \* ghost: AllOff was carried out since the last commutation step

settingVars == <<brakeOnStop, pwmMode, sineStart>>
askVars     == <<drive, propBrake, offAsked, changeover, tuneAsked>>
toneVars    == <<tune, note>>
flagVars    == <<activeBrake, sineOutputs>>
gateVars    == <<timed, latchHigh, buffered, compare, divider>>
bridgeVars  == <<settingVars, bridgeMode, comStep, askVars, flagVars, toneVars,
                 todo, gateVars, cut>>

BridgeInit ==
  /\ brakeOnStop \in BrakeSettings /\ pwmMode \in PwmModes /\ sineStart \in BOOLEAN
  /\ bridgeMode = "disarmed" /\ comStep = 1
  /\ drive = 0 /\ propBrake = FALSE /\ offAsked = FALSE /\ changeover = FALSE
  /\ activeBrake = FALSE /\ sineOutputs = FALSE
  /\ tuneAsked = <<>> /\ tune = <<>> /\ note = 0
  /\ todo = <<>>
  /\ timed = {} /\ latchHigh = {} /\ buffered = "zero" /\ compare = "zero"
  /\ divider = "motor" /\ cut = FALSE

------------------------------------------------------------------------------
(* The hardware *)

LatchedBy(w)  == (latchHigh \ w.down) \cup w.up
TimedBy(w)    == (timed \ w.out) \cup w.alt
BufferedBy(w) == IF w.timer \in {"zero", "some"} THEN w.timer ELSE buffered
CompareBy(w)  == IF w.timer = "latch" THEN buffered ELSE compare
DividerBy(w)  == IF w.timer \in {"motor", "tone"} THEN w.timer ELSE divider

Changes(w) ==
  gateVars # <<TimedBy(w), LatchedBy(w), BufferedBy(w), CompareBy(w), DividerBy(w)>>

\* The next register write that changes anything; those before it do not.
Write ==
  /\ todo # <<>>
  /\ \E i \in 1 .. Len(todo) :
       /\ \A j \in 1 .. i - 1 : ~Changes(todo[j])
       /\ Changes(todo[i]) \/ i = Len(todo)
       /\ latchHigh' = LatchedBy(todo[i]) /\ timed' = TimedBy(todo[i])
       /\ buffered' = BufferedBy(todo[i]) /\ compare' = CompareBy(todo[i])
       /\ divider' = DividerBy(todo[i])
       /\ todo' = SubSeq(todo, i + 1, Len(todo))
  /\ UNCHANGED <<settingVars, bridgeMode, comStep, askVars, flagVars, toneVars, cut>>

PeriodEnds ==
  /\ compare # buffered
  /\ compare' = buffered
  /\ UNCHANGED <<settingVars, bridgeMode, comStep, askVars, flagVars, toneVars,
                 todo, timed, latchHigh, buffered, divider, cut>>

------------------------------------------------------------------------------
(* The tone scheduler, at the end of every tick *)

\* bridge_busy
Busy(mode, braking) ==
  \/ mode \in {"disarmed", "driven", "sine"}
  \/ propBrake \/ braking

\* Mutation: a tone that ends turns the bridge off, whoever drives it by now.
SilenceOff(busy) == AllOff \o Divider("motor")

\* A busy bridge keeps what the tick has just written.
Silence(busy) == IF busy THEN Divider("motor") ELSE AllOff \o Divider("motor")

\* The writes that start a note.
StartNote(t, n) ==
  IF t[n] = 7 THEN Silence(FALSE)
  ELSE Divider("tone") \o Duty("some") \o ComStep(t[n], pwmMode)

Keep(t, n, writes) == tune' = t /\ note' = n /\ todo' = writes

\* tone::step after the tick has left its writes; it takes the request whether it
\* can play it or not.
ToneStep(busy, writes) ==
  /\ tuneAsked' = <<>>
  /\ \/ note # 0 /\ busy /\ Keep(<<>>, 0, writes \o Silence(busy))
     \/ note = 0 /\ (busy \/ tuneAsked = <<>>) /\ Keep(<<>>, 0, writes)
     \/ /\ note = 0 /\ ~busy /\ tuneAsked # <<>>
        /\ Keep(tuneAsked, 1, writes \o StartNote(tuneAsked, 1))
     \/ note # 0 /\ ~busy /\ Keep(tune, note, writes)
     \/ /\ note # 0 /\ ~busy /\ note < Len(tune)
        /\ Keep(tune, note + 1, writes \o StartNote(tune, note + 1))
     \/ /\ note # 0 /\ ~busy /\ note = Len(tune)
        /\ Keep(<<>>, 0, writes \o Silence(busy))

------------------------------------------------------------------------------
(* The control tick *)

StartThreshold == IF sineStart THEN 2 ELSE 1

\* The tick that finds AllOff requested.
TickOff ==
  /\ todo = <<>> /\ offAsked
  /\ offAsked' = FALSE /\ changeover' = FALSE
  /\ activeBrake' = FALSE /\ sineOutputs' = FALSE
  /\ cut' = TRUE
  /\ ToneStep(Busy(bridgeMode, FALSE), AllOff \o DutyOff)
  /\ UNCHANGED <<settingVars, bridgeMode, comStep, drive, propBrake, gateVars>>

\* What the earlier part of a tick has made of the bridge.
Stage(mode, step, braking, outputs, writes) ==
  [mode |-> mode, step |-> step, braking |-> braking, outputs |-> outputs,
   writes |-> writes]

\* A queued handoff, when the sine still runs fast enough.
Handoff(st) ==
  IF changeover /\ st.mode = "sine" /\ drive = 3
  THEN Stage("driven", 5, st.braking, st.outputs, DutyOff \o ComStep(5, pwmMode))
  ELSE st

\* A throttle below the sine entry takes an armed motor to sine.
ToSine(st) ==
  IF st.mode # "disarmed" /\ sineStart /\ drive < StartThreshold
  THEN Stage("sine", st.step, st.braking, st.outputs /\ st.mode = "sine",
             st.writes \o IF st.mode = "sine" THEN <<>> ELSE AllOff \o DutyOff)
  ELSE st

\* A throttle above it starts a stopped one.
Start(st, forward) ==
  LET step == StepAfter(st.step, forward)
  IN IF st.mode = "armed" /\ drive >= StartThreshold
     THEN Stage("driven", step, FALSE, st.outputs,
                st.writes \o AllOff \o (IF st.braking THEN DutyOff ELSE <<>>)
                          \o ComStep(step, pwmMode))
     ELSE st

\* A polled zero crossing commutates at once.
Polled(st, forward) ==
  LET step == StepAfter(st.step, forward)
  IN Stage(st.mode, step, st.braking, st.outputs,
           st.writes \o ComStep(step, pwmMode))

NowArmed(st) == Stage("armed", st.step, st.braking, st.outputs, st.writes)

\* The PWM output of the tick, by who owns the bridge.
Output(st) ==
  LET sineDrive == st.mode = "sine" /\ drive >= 1
      brakes    == st.mode \in {"armed", "sine"} /\ drive < StartThreshold
                     /\ ~sineDrive /\ brakeOnStop = 2
      braking   == st.braking /\ brakes
      owner     == CASE note # 0 /\ ~Busy(st.mode, brakes \/ braking) -> "tone"
                     [] sineDrive -> "stepper"
                     [] brakes -> "brake"
                     [] st.mode = "driven" -> "motor"
                     [] OTHER -> "nobody"
  IN Stage(st.mode, st.step, braking \/ owner = "brake", st.outputs /\ sineDrive,
           st.writes \o
             CASE owner \in {"tone", "stepper"} -> <<>>
               [] owner = "brake" -> (IF braking THEN <<>>
                                      ELSE DutyOff \o ComStep(2, pwmMode))
                                     \o Duty("some")
               [] owner = "motor" -> Duty("some")
               [] OTHER -> IF propBrake THEN ProportionalBrake \o Duty("some")
                           ELSE AllOff \o Duty("zero"))

\* ten_khz_tick and the tone step after it.
Tick ==
  /\ todo = <<>> /\ ~offAsked
  /\ \E forward, polls, arms \in BOOLEAN :
       LET now     == Stage(bridgeMode, comStep, activeBrake, sineOutputs, <<>>)
           handed  == Handoff(now)
           started == Start(ToSine(handed), forward)
           polled  == IF polls THEN Polled(started, forward) ELSE started
           last    == Output(IF arms THEN NowArmed(polled) ELSE polled)
       IN /\ polls => started.mode = "driven" /\ handed = now
          /\ arms => started.mode = "disarmed" /\ drive = 0
          /\ bridgeMode' = last.mode /\ comStep' = last.step
          /\ activeBrake' = last.braking /\ sineOutputs' = last.outputs
          /\ cut' = (cut /\ last.step = comStep /\ handed = now)
          /\ ToneStep(Busy(last.mode, last.braking), last.writes)
  /\ changeover' = FALSE
  /\ UNCHANGED <<settingVars, drive, propBrake, offAsked, gateVars>>

------------------------------------------------------------------------------
(* The commutation interrupt *)

Commutate ==
  /\ todo = <<>> /\ bridgeMode = "driven"
  /\ \E forward \in BOOLEAN :
       /\ comStep' = StepAfter(comStep, forward)
       /\ todo' = ComStep(comStep', pwmMode)
  /\ cut' = FALSE
  /\ UNCHANGED <<settingVars, bridgeMode, askVars, flagVars, toneVars, gateVars>>

------------------------------------------------------------------------------
(* The main loop and the frames it is asked by *)

NewThrottle ==
  /\ todo = <<>>
  /\ \E d \in (0 .. 3) \ {drive}, brake \in BOOLEAN :
       /\ brake => d = 0 /\ brakeOnStop = 1
       /\ drive' = d /\ propBrake' = brake
  /\ UNCHANGED <<settingVars, bridgeMode, comStep, offAsked, changeover, tuneAsked,
                 flagVars, toneVars, todo, gateVars, cut>>

\* A protection stops or disarms the motor, or asks for AllOff.
Protect ==
  /\ todo = <<>>
  /\ \/ bridgeMode = "driven" /\ bridgeMode' = "armed" /\ UNCHANGED offAsked
     \/ bridgeMode' = "disarmed" /\ offAsked' \in {offAsked, TRUE}
     \/ UNCHANGED bridgeMode /\ offAsked' = TRUE
  /\ UNCHANGED <<settingVars, comStep, drive, propBrake, changeover, tuneAsked,
                 flagVars, toneVars, todo, gateVars, cut>>

\* service_sine: nothing outside sine or with AllOff requested; a published
\* handoff waits for the tick; without throttle the brake policy of sine.
SineService ==
  /\ todo = <<>>
  /\ \/ /\ bridgeMode # "sine" \/ offAsked
        /\ sineOutputs' = FALSE
        /\ UNCHANGED <<propBrake, activeBrake, changeover, todo>>
     \/ /\ bridgeMode = "sine" /\ ~offAsked /\ ~changeover /\ drive = 0
        /\ sineOutputs' = FALSE
        /\ propBrake' \in {FALSE, brakeOnStop = 1}
        /\ UNCHANGED <<activeBrake, changeover, todo>>
     \/ /\ bridgeMode = "sine" /\ ~offAsked /\ ~changeover /\ drive >= 1
        /\ propBrake' = FALSE
        /\ activeBrake' = (activeBrake /\ sineOutputs)
        /\ todo' = (IF sineOutputs THEN <<>> ELSE DutyOff \o AllPwm(pwmMode))
                     \o Duty("some")
        /\ changeover' \in {FALSE, drive = 3}
        /\ sineOutputs' = ~changeover'
  /\ UNCHANGED <<settingVars, bridgeMode, comStep, drive, offAsked, tuneAsked,
                 toneVars, gateVars, cut>>

RequestTone ==
  /\ todo = <<>> /\ tuneAsked = <<>>
  /\ tuneAsked' \in Tunes
  /\ UNCHANGED <<settingVars, bridgeMode, comStep, drive, propBrake, offAsked,
                 changeover, flagVars, toneVars, todo, gateVars, cut>>

\* The tick takes over a new PWM mode.
Reconfigure ==
  /\ todo = <<>>
  /\ pwmMode' \in PwmModes \ {pwmMode}
  /\ todo' = IF note # 0 THEN ComStep(tune[note], pwmMode') ELSE <<>>
  /\ UNCHANGED <<brakeOnStop, sineStart, bridgeMode, comStep, askVars, flagVars,
                 toneVars, gateVars, cut>>

BridgeNext ==
  \/ Write \/ PeriodEnds
  \/ TickOff \/ Tick
  \/ Commutate
  \/ NewThrottle \/ Protect \/ SineService
  \/ RequestTone \/ Reconfigure

BridgeSpec == BridgeInit /\ [][BridgeNext]_bridgeVars

------------------------------------------------------------------------------
(* Properties *)

\* A low gate that is held on solidly.
Sinks(leg) == Low(leg) \in latchHigh \ timed

\* The legs are safe at every register write, on whichever ports their pins are.  No
\* leg has both its gates on: never is a low gate held on while the timer may pulse
\* the high one, and no high gate is ever held on (dead time does not protect a pin
\* that is an output).  And at most one leg sinks: the outgoing low gate is off
\* before the incoming one is on (apply_plan, the latch of the duty before a handoff
\* and before the brake).
LegSafe ==
  /\ \A leg \in Legs :
       /\ Sinks(leg) => High(leg) \notin timed \/ compare = "zero"
       /\ High(leg) \notin latchHigh
  /\ \A a, b \in Legs : Sinks(a) /\ Sinks(b) => a = b

\* A running motor is driven in the step that the commutation is in, at the
\* motor's PWM frequency, unless AllOff was carried out since: no tone, brake or
\* sine output outlives the start of the motor.
DrivesItsStep ==
  bridgeMode = "driven" /\ todo = <<>> /\ ~cut
    => /\ latchHigh = StepUp(comStep)
       /\ High(Driven(comStep)) \in timed
       /\ timed \subseteq {High(Driven(comStep)), Low(Driven(comStep))}
       /\ divider = "motor"
==============================================================================
