----------------------------- MODULE FrameIntake -----------------------------
(***************************************************************************)
(* What the input handler makes of a captured frame before it acts on it:  *)
(* the protocol is locked, the line is found to be bidirectional, the      *)
(* frame time is averaged, and the entry of a stick calibration is counted *)
(* (TransferState::process, process_packet and the flags dispatch sets).   *)
(*                                                                         *)
(* A DShot packet is a checksum class: it decodes under the normal         *)
(* checksum, under the inverted one, or under neither; never under both    *)
(* (DshotCode).  A port that slices the bits in hardware skips the frame   *)
(* time.                                                                   *)
(***************************************************************************)
EXTENDS Naturals

CONSTANTS
  IdleHighFrames,   \* BIDIR_IDLE_HIGH_FRAMES
  ConfirmFrames,    \* BIDIR_CONFIRM_FRAMES
  AverageFrames,    \* frames whose length is averaged
  ZeroFrames,       \* zero throttles before that
  EntryFrames,      \* CALIBRATION_ENTRY_COUNT
  MinThrottle,      \* CALIBRATION_MIN_THROTTLE
  MaxJitter,        \* CALIBRATION_MAX_JITTER
  StickCalibration, \* the setting disable_stick_calibration is 0
  IntakeThrottles   \* adjusted_input, 0 among them

ASSUME IntakeAssumption ==
  /\ {IdleHighFrames, AverageFrames} \subseteq Nat \ {0}
  /\ ConfirmFrames \in Nat \ {0, 1}
  /\ {ZeroFrames, EntryFrames, MinThrottle, MaxJitter} \subseteq Nat
  /\ 0 \in IntakeThrottles /\ IntakeThrottles \subseteq Nat

VARIABLES
  sliced,     \* the port delivers packets instead of edges
  inputSet,   \* input_set
  protocol,   \* dshot or servo_pwm: "none", "dshot", "servo"
  pending,    \* pending_protocol
  telemetry,  \* dshot_telemetry: the line is bidirectional
  highPins,   \* high_pin_count
  confirms,   \* bidir_confirms
  averaged,   \* average_count
  zeroCount,  \* zero_input_count, capped above ZeroFrames
  entryCount, \* enter_calibration_count, capped above EntryFrames
  lastInput,  \* last_input
  calRequired,\* servo.calibration_required
  calHighSet, \* servo.high_calibration_set
  unarmed,    \* ~armed
  throttle,   \* adjusted_input
  recent      \* ghost: the last frame, and how many like it came in a row

calVars    == <<entryCount, lastInput, calRequired, calHighSet>>
intakeVars == <<sliced, inputSet, protocol, pending, telemetry, highPins,
                confirms, averaged, zeroCount, calVars, unarmed, throttle, recent>>

Kinds   == {"normal", "inverted", "bad"}
Signals == {"none", "dshot", "servo"}

Capped(n, limit) == IF n < limit THEN n + 1 ELSE limit
\* The ghost tells runs apart up to the longest that a property asks for.
Again(what) ==
  [frame |-> what,
   run   |-> IF recent.frame = what THEN Capped(recent.run, ConfirmFrames) ELSE 1]

IntakeInit ==
  /\ sliced \in BOOLEAN
  /\ inputSet = FALSE /\ protocol = "none" /\ pending = "none"
  /\ telemetry = FALSE /\ highPins = 0 /\ confirms = 0
  /\ averaged = 0 /\ zeroCount = 0
  /\ entryCount = 0 /\ lastInput = 0 /\ calRequired = FALSE /\ calHighSet = FALSE
  /\ unarmed = TRUE /\ throttle = 0
  /\ recent = [frame |-> <<"none", FALSE>>, run |-> 1]

------------------------------------------------------------------------------
(* Locking the protocol: the second of two consecutive equal detections *)

\* Mutation: an unrecognised burst does not break a run of detections.
StillPending(sig) == IF sig = "none" THEN pending ELSE sig

NowPending(sig) == sig

Detect(sig) ==
  /\ ~inputSet
  /\ sliced => sig # "servo"
  /\ IF sig # "none" /\ sig = pending
     THEN inputSet' = TRUE /\ protocol' = sig /\ pending' = "none"
     ELSE pending' = NowPending(sig) /\ UNCHANGED <<inputSet, protocol>>
  /\ recent' = Again(<<sig, FALSE>>)
  /\ UNCHANGED <<sliced, telemetry, highPins, confirms, averaged, zeroCount,
                 calVars, unarmed, throttle>>

------------------------------------------------------------------------------
(* Finding out that the line is bidirectional *)

Probing(high) == unarmed /\ ~telemetry /\ high /\ highPins >= IdleHighFrames

\* confirms and highPins after the probe of a frame.
Probed(kind, high) ==
  IF ~Probing(high) THEN <<confirms, highPins>>
  ELSE CASE kind = "inverted" -> <<Capped(confirms, ConfirmFrames), highPins>>
         [] kind = "normal"   -> <<0, 0>>
         [] kind = "bad"      -> <<0, highPins>>

\* Mutation: the count of idle-high frames starts again with every frame that
\* does not decode, and an inverted frame does not decode before it is known.
IdleRestarted(n, kind) == IF kind = "normal" THEN Capped(n, IdleHighFrames) ELSE 0

IdleCounted(n, kind) == Capped(n, IdleHighFrames)

\* idle_high_count, with the telemetry flag as it was before the frame.
IdleHigh(kind, high) ==
  IF unarmed /\ protocol = "dshot" /\ ~telemetry /\ high
  THEN /\ confirms' = Probed(kind, high)[1]
       /\ highPins' = IdleCounted(Probed(kind, high)[2], kind)
  ELSE confirms' = 0 /\ highPins' = 0

------------------------------------------------------------------------------
(* Unarmed housekeeping *)

Averaging == protocol = "dshot" /\ averaged < AverageFrames /\ zeroCount > ZeroFrames

\* calibration_entry, from a zero count that a bad pulse may have reset.
CalibrationEntry(zeroes) ==
  IF throttle = 0 /\ ~calRequired
  THEN zeroCount' = Capped(zeroes, ZeroFrames + 1) /\ UNCHANGED calVars
  ELSE IF ~StickCalibration THEN zeroCount' = zeroes /\ UNCHANGED calVars
  ELSE /\ zeroCount' = 0
       /\ UNCHANGED calHighSet
       /\ IF throttle <= MinThrottle
          THEN UNCHANGED <<entryCount, lastInput, calRequired>>
          ELSE LET steady == /\ throttle <= lastInput + MaxJitter
                             /\ lastInput <= throttle + MaxJitter
                   count  == IF steady THEN Capped(entryCount, EntryFrames + 1) ELSE 0
                   enters == count > EntryFrames /\ ~calHighSet
               IN /\ entryCount' = IF enters THEN 0 ELSE count
                  /\ calRequired' = (calRequired \/ enters)
                  /\ lastInput' = throttle

Housekeeping(zeroes) ==
  IF unarmed
  THEN /\ averaged' = IF Averaging /\ ~sliced THEN averaged + 1 ELSE averaged
       /\ CalibrationEntry(zeroes)
  ELSE zeroCount' = zeroes /\ UNCHANGED <<averaged, calVars>>

------------------------------------------------------------------------------
(* Frames *)

DshotFrame(kind, high) ==
  /\ inputSet /\ protocol = "dshot"
  /\ IdleHigh(kind, high)
  /\ telemetry' = (telemetry \/ (Probing(high) /\ kind = "inverted"
                                   /\ Probed(kind, high)[1] >= ConfirmFrames))
  /\ Housekeeping(zeroCount)
  /\ recent' = Again(<<kind, high>>)
  /\ UNCHANGED <<sliced, inputSet, protocol, pending, unarmed, throttle>>

\* A servo pulse; ServoInput models what its width means.
ServoPulse(high, outOfRange) ==
  /\ inputSet /\ protocol = "servo"
  /\ confirms' = 0 /\ highPins' = 0
  /\ Housekeeping(IF ~high /\ outOfRange THEN 0 ELSE zeroCount)
  /\ recent' = Again(<<"pulse", high>>)
  /\ UNCHANGED <<sliced, inputSet, protocol, pending, telemetry, unarmed,
                 throttle>>

\* The pulses of a calibration set its high end, and end or abort it.
Calibrates ==
  /\ calRequired /\ protocol = "servo"
  /\ \/ calHighSet' = TRUE /\ UNCHANGED calRequired
     \/ calRequired' = FALSE /\ UNCHANGED calHighSet
  /\ UNCHANGED <<sliced, inputSet, protocol, pending, telemetry, highPins, confirms,
                 averaged, zeroCount, entryCount, lastInput, unarmed, throttle, recent>>

IntakeFrame ==
  \/ \E sig \in Signals : Detect(sig)
  \/ \E kind \in Kinds, high \in BOOLEAN : DshotFrame(kind, high)
  \/ \E high, outOfRange \in BOOLEAN : ServoPulse(high, outOfRange)

------------------------------------------------------------------------------
(* The rest of the system: the throttle, arming and a disarm's reset *)

Throttled(t) ==
  /\ throttle' = t
  /\ UNCHANGED <<sliced, inputSet, protocol, pending, telemetry, highPins,
                 confirms, averaged, zeroCount, calVars, unarmed, recent>>

Armed ==
  /\ inputSet /\ throttle = 0
  /\ unarmed' = FALSE
  /\ UNCHANGED <<sliced, inputSet, protocol, pending, telemetry, highPins,
                 confirms, averaged, zeroCount, calVars, throttle, recent>>

IntakeNext ==
  \/ IntakeFrame
  \/ Calibrates
  \/ \E t \in IntakeThrottles : Throttled(t)
  \/ Armed

\* Frames keep coming while the transmitter is on.
IntakeSpec == IntakeInit /\ [][IntakeNext]_intakeVars /\ WF_intakeVars(IntakeFrame)

------------------------------------------------------------------------------
(* Properties *)

\* The protocol is locked by two equal detections in a row, and the line is
\* taken for bidirectional only by an unarmed controller, on a line that idled
\* high, by as many inverted frames in a row as the code asks for.
LineDecisionsConfirmed ==
  [][/\ inputSet' # inputSet =>
          recent'.frame = <<protocol', FALSE>> /\ recent'.run >= 2
     /\ telemetry' # telemetry =>
          /\ unarmed
          /\ recent'.frame = <<"inverted", TRUE>> /\ recent'.run >= ConfirmFrames
    ]_intakeVars

\* A bidirectional transmitter whose frames arrive undisturbed is recognised
\* for good before the controller arms, or the controller arms first.
BidirRecognised ==
  <>[](inputSet /\ protocol = "dshot" /\ recent.frame = <<"inverted", TRUE>>)
    => <>[](telemetry \/ ~unarmed)
==============================================================================
