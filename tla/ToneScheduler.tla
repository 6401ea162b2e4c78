---------------------------- MODULE ToneScheduler ----------------------------
(***************************************************************************)
(* The tunes of a running controller (tone.rs): a request in one mailbox,  *)
(* taken by every tick whether it can be played or not, and a scheduler    *)
(* that counts a note's ticks, starts the next one, repeats the arming     *)
(* tune once per battery cell with a pause between, and gives the bridge   *)
(* back as soon as the motor needs it.                                     *)
(*                                                                         *)
(* BridgeControl shows what the notes do to the gates; this module is      *)
(* about what is heard, and for how long.                                  *)
(***************************************************************************)
EXTENDS Integers, Sequences

CONSTANTS
  TicksPerMs,      \* CONTROL_TICKS_PER_MS
  CellCounts,      \* what set_arming_tone_request is called with
  Beacons,         \* the tones of DShot commands
  Volumes,         \* config.beep_volume
  ToneModes        \* the PWM modes the settings choose among

ASSUME ToneAssumption ==
  /\ TicksPerMs \in Nat \ {0}
  /\ CellCounts \subseteq 0 .. 255 /\ Beacons \subseteq 1 .. 5
  /\ Volumes \subseteq 0 .. 255

TONE_ARMED     == 6
DEFAULT_VOLUME == 5

NoRequest == [sequence |-> 0, repeats |-> 0]
Mute      == [pitch |-> 0, step |-> 0, volume |-> 0, mode |-> "none"]

VARIABLES
  toneRequest,   \* shared.tone_request
  playing,       \* scheduler.active
  sequence,      \* scheduler.sequence
  noteIndex,     \* scheduler.note_index, from 0
  ticksLeft,     \* scheduler.ticks_left
  repeatsLeft,   \* scheduler.repeats_left
  gap,           \* scheduler.gap
  beepMode,      \* config.pwm_mode
  beepVolume,    \* config.beep_volume
  sound,         \* what the bridge plays
  elapsed,       \* history: ticks since the tune began
  begun          \* history: the request being played, and its volume

schedulerVars == <<playing, sequence, noteIndex, ticksLeft, repeatsLeft, gap>>
soundVars == <<toneRequest, schedulerVars, beepMode, beepVolume, sound, elapsed, begun>>

------------------------------------------------------------------------------
(* The tunes *)

Note(pitch, step, ms) == [pitch |-> pitch, step |-> step, ms |-> ms]

\* beacon_note: a sweep of sixty notes through the steps 5 to 0.
BeaconNote(index) ==
  LET i == 119 - 2 * index IN Note(10 + i \div 2, i \div 20, 10)

DefaultTune == <<Note(50, 2, 150), Note(30, 2, 150)>>
ChangedTune == <<Note(40, 2, 150), Note(80, 2, 150)>>
InputTune2  == <<Note(60, 1, 75), Note(80, 1, 75), Note(90, 1, 75)>>
ArmedTune   == <<Note(80, 3, 100), Note(70, 3, 100), Note(40, 3, 100)>>

Tune(s) ==
  CASE s \in {1, 5}   -> DefaultTune
    [] s = 2          -> ChangedTune
    [] s = 3          -> [k \in 1 .. 60 |-> BeaconNote(k - 1)]
    [] s = 4          -> InputTune2
    [] s = TONE_ARMED -> ArmedTune
    [] OTHER          -> <<>>

\* tone::duty
ToneDuty(volume) ==
  LET v == IF volume = 0 THEN DEFAULT_VOLUME ELSE volume
  IN 3 * (IF v < 11 THEN v ELSE 11)

\* ToneScheduler::duty: the arming tune ignores the configured volume.
VolumeOf(s, volume) == ToneDuty(IF s = TONE_ARMED THEN DEFAULT_VOLUME ELSE volume)

\* The note due, none in a pause or past the end.
HasNote(s, index) == index < Len(Tune(s))

Sounding(s, index, volume, mode) ==
  LET n == Tune(s)[index + 1]
  IN [pitch |-> n.pitch, step |-> n.step, volume |-> VolumeOf(s, volume), mode |-> mode]

------------------------------------------------------------------------------
(* The scheduler *)

\* set_tone_request, and set_arming_tone_request with the cells of the battery.
Requests ==
  {[sequence |-> s, repeats |-> 0] : s \in Beacons}
    \cup {[sequence |-> TONE_ARMED, repeats |-> IF n = 0 THEN 1 ELSE n] : n \in CellCounts}

ToneInit ==
  /\ toneRequest = NoRequest
  /\ playing = FALSE /\ sequence = 0 /\ noteIndex = 0 /\ ticksLeft = 0
  /\ repeatsLeft = 0 /\ gap = FALSE
  /\ beepMode \in ToneModes /\ beepVolume \in Volumes
  /\ sound = Mute /\ elapsed = 0 /\ begun = [request |-> NoRequest, volume |-> 0]

\* begin_note, and the writes of step for its answer.
BeginNote(s, index) ==
  /\ sequence' = s /\ noteIndex' = index /\ gap' = FALSE
  /\ IF HasNote(s, index)
     THEN /\ playing' = TRUE /\ ticksLeft' = Tune(s)[index + 1].ms * TicksPerMs
          /\ sound' = Sounding(s, index, beepVolume, beepMode)
     ELSE playing' = FALSE /\ sound' = Mute /\ UNCHANGED ticksLeft

\* The motor takes the bridge: a tune in progress is forgotten.
Yield ==
  /\ playing' = FALSE /\ gap' = (gap /\ ~playing)
  /\ sound' = Mute
  /\ UNCHANGED <<sequence, noteIndex, ticksLeft, repeatsLeft, elapsed, begun>>

\* An idle scheduler begins the tune asked for.
BeginTune ==
  /\ ~playing
  /\ IF toneRequest.sequence = 0
     THEN UNCHANGED <<schedulerVars, sound, elapsed, begun>>
     ELSE /\ repeatsLeft' = IF toneRequest.sequence = TONE_ARMED /\ toneRequest.repeats > 1
                            THEN toneRequest.repeats ELSE 1
          /\ BeginNote(toneRequest.sequence, 0)
          /\ elapsed' = 0 /\ begun' = [request |-> toneRequest, volume |-> beepVolume]

\* Mutation: a note's last tick is counted twice.
LastTick == ticksLeft = 0

NoteOver == ticksLeft <= 1

\* A note or a pause goes on; a change of the PWM mode is heard at once.
HoldNote ==
  /\ playing /\ ~NoteOver
  /\ ticksLeft' = ticksLeft - 1
  /\ sound' = IF sound # Mute THEN [sound EXCEPT !.mode = beepMode] ELSE Mute
  /\ elapsed' = elapsed + 1
  /\ UNCHANGED <<playing, sequence, noteIndex, repeatsLeft, gap, begun>>

\* The next note, the pause before another round, or the end.
NextNote ==
  /\ playing /\ NoteOver
  /\ elapsed' = elapsed + 1
  /\ IF gap
     THEN BeginNote(sequence, 0) /\ UNCHANGED repeatsLeft
     ELSE IF sequence = TONE_ARMED /\ ~HasNote(sequence, noteIndex + 1) /\ repeatsLeft > 1
     THEN /\ repeatsLeft' = repeatsLeft - 1 /\ gap' = TRUE
          /\ ticksLeft' = 100 * TicksPerMs /\ noteIndex' = noteIndex + 1
          /\ sound' = Mute
          /\ UNCHANGED <<playing, sequence>>
     ELSE BeginNote(sequence, noteIndex + 1) /\ UNCHANGED repeatsLeft
  /\ UNCHANGED begun

\* tone::step at the end of a tick; busy is bridge_busy.
ToneTick(busy) ==
  /\ toneRequest' = NoRequest
  /\ IF busy THEN Yield ELSE BeginTune \/ HoldNote \/ NextNote
  /\ UNCHANGED <<beepMode, beepVolume>>

\* A DShot beacon command, or the arming of the motor, asks for a tune; what the
\* mailbox held is lost.
AskTune ==
  /\ toneRequest' \in Requests \ {toneRequest}
  /\ UNCHANGED <<schedulerVars, beepMode, beepVolume, sound, elapsed, begun>>

\* Main publishes new settings; the tick copies them before its work.
ToneSettings ==
  /\ beepMode' \in ToneModes /\ beepVolume' \in Volumes
  /\ <<beepMode', beepVolume'>> # <<beepMode, beepVolume>>
  /\ UNCHANGED <<toneRequest, schedulerVars, sound, elapsed, begun>>

ToneNext == (\E busy \in BOOLEAN : ToneTick(busy)) \/ AskTune \/ ToneSettings

ToneSpec == ToneInit /\ [][ToneNext]_soundVars

------------------------------------------------------------------------------
(* What should be heard *)

\* The ticks of a round after which note k has ended; all of them as a table.
NoteEnd(s, k) ==
  LET ends[i \in 0 .. Len(Tune(s))] ==
        IF i = 0 THEN 0 ELSE ends[i - 1] + Tune(s)[i].ms * TicksPerMs
  IN ends[k]

NoteEnds == [s \in 1 .. TONE_ARMED |-> [k \in 0 .. Len(Tune(s)) |-> NoteEnd(s, k)]]

RoundTicks(s) == NoteEnds[s][Len(Tune(s))]
PauseTicks    == 100 * TicksPerMs

Rounds(request) == IF request.repeats <= 1 THEN 1 ELSE request.repeats

RoundStart(request, n) == n * (RoundTicks(request.sequence) + PauseTicks)

\* What a score has at a tick: a note of one of its rounds, or the silence between two.
ScoreHas(request, tick, tone) ==
  \E n \in 0 .. Rounds(request) - 1 :
    LET s  == request.sequence
        at == tick - RoundStart(request, n)
    IN \/ \E k \in 1 .. Len(Tune(s)) :
            /\ NoteEnds[s][k - 1] <= at /\ at < NoteEnds[s][k]
            /\ tone.pitch = Tune(s)[k].pitch /\ tone.step = Tune(s)[k].step
       \/ /\ RoundTicks(s) <= at /\ at < RoundTicks(s) + PauseTicks
          /\ n + 1 < Rounds(request) /\ tone = Mute

\* The tick at which it ends.
ScoreEnd(request) == RoundStart(request, Rounds(request) - 1) + RoundTicks(request.sequence)

\* What is heard is what was asked for: at every tick of a tune the bridge plays
\* the part that the tune's score has there, with the right note in every round,
\* in silence between two rounds, whatever is asked for meanwhile; and a tune
\* stops only at its end or when the motor takes the bridge (ToneScheduler::tick).
TunesAsAsked ==
  [][/\ playing' => ScoreHas(begun'.request, elapsed', sound')
     /\ ~playing' => sound' = Mute
     /\ playing /\ ~playing' =>
          ToneTick(TRUE) \/ elapsed' = ScoreEnd(begun.request)
     /\ playing /\ playing' => begun' = begun]_soundVars
==============================================================================
