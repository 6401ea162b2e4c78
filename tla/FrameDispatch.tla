---------------------------- MODULE FrameDispatch ----------------------------
(***************************************************************************)
(* What the input handler does with a decoded DShot frame: throttle,       *)
(* command, or a byte of the three-frame programming sequence (dispatch,   *)
(* apply_command, CommandProcessor).  Values are shared by all three: the  *)
(* same number is a throttle, a command or a byte by the state it meets.   *)
(*                                                                         *)
(* On a bidirectional line the port answers each frame of an armed motor:  *)
(* the end of the capture turns it to output, the end of the output turns  *)
(* it back, and each end raises the frame interrupt, which decodes what    *)
(* the capture buffer holds.                                               *)
(***************************************************************************)
EXTENDS Naturals, Sequences

CONSTANTS
  FrameValues,  \* values of valid frames: 0, commands, throttles
  Positions,    \* byte positions of the settings record
  Repeats,      \* frames of a command before it takes effect
  Lines         \* whether the line is bidirectional (dshot_telemetry)

ASSUME DispatchAssumption ==
  /\ 0 \in FrameValues /\ FrameValues \subseteq 0 .. 2047
  /\ {0, 1} \subseteq Positions /\ Positions \subseteq Nat
  /\ Repeats \in Nat \ {0}
  /\ Lines \subseteq BOOLEAN

VARIABLES
  twoWay,      \* dshot_telemetry
  port,        \* "capture" or "output": out_put
  buffer,      \* the captured frame, while the port answers it
  dNewinput,   \* newinput
  dArmed, dRunning,
  edtGate,     \* edt_arm_enable, fixed at boot
  edtArmed,    \* edt_armed
  lastCommand, commandCount,
  progMode,    \* programming_mode
  position, newByte,
  settings,    \* the bytes of the settings record
  saveAsked, toneAsked, infoAsked, edtRequest, extended,  \* what commands raise
  sent         \* ghost: the frames of the programming sequence so far

progVars    == <<progMode, position, newByte>>
raisedVars  == <<saveAsked, toneAsked, infoAsked, edtRequest, extended>>
portVars    == <<twoWay, port, buffer>>
dispatchVars == <<portVars, dNewinput, dArmed, dRunning, edtGate, edtArmed, lastCommand,
                  commandCount, progVars, settings, raisedVars, sent>>

IsCommand(v) == v \in 1 .. 47
IsBeacon(c)  == c \in 1 .. 5
EscInfo           == 6
DirectionNormal   == 7
DirectionReversed == 8
BidirOff          == 9
BidirOn           == 10
SaveSettings      == 12
EdtEnable         == 13
EdtDisable        == 14
ProgrammingMode   == 36
CommitValue == 37

\* Two of the settings that commands write.
DirReversed == 0
BiDirection == 1

DispatchInit ==
  /\ twoWay \in Lines /\ port = "capture" /\ buffer = 0
  /\ dNewinput = 0 /\ dArmed = FALSE /\ dRunning = FALSE
  /\ edtGate \in BOOLEAN /\ edtArmed = FALSE
  /\ lastCommand = 0 /\ commandCount = 0
  /\ progMode = 0 /\ position = 0 /\ newByte = 0
  /\ settings = [p \in Positions |-> 0]
  /\ saveAsked = FALSE /\ toneAsked = FALSE /\ infoAsked = FALSE
  /\ edtRequest = "none" /\ extended = FALSE
  /\ sent = <<>>

------------------------------------------------------------------------------
(* Commands *)

Eligible == dArmed /\ ~dRunning

Raise(c) ==
  /\ saveAsked' = (saveAsked \/ c = SaveSettings)
  /\ toneAsked' = (toneAsked \/ IsBeacon(c))
  /\ infoAsked' = (infoAsked \/ c = EscInfo)
  /\ edtRequest' = CASE c = EdtEnable  -> "init"
                     [] c = EdtDisable -> "deinit"
                     [] OTHER          -> edtRequest
  /\ extended' = (c = EdtEnable \/ (extended /\ c # EdtDisable))

Written(c) ==
  CASE c = DirectionNormal   -> [settings EXCEPT ![DirReversed] = 0]
    [] c = DirectionReversed -> [settings EXCEPT ![DirReversed] = 1]
    [] c = BidirOff          -> [settings EXCEPT ![BiDirection] = 0]
    [] c = BidirOn           -> [settings EXCEPT ![BiDirection] = 1]
    [] OTHER                 -> settings

\* CommandProcessor::process.
Command(c) ==
  LET count == IF IsBeacon(c) THEN Repeats + 1
               ELSE IF c = lastCommand THEN commandCount + 1 ELSE 1
      takes == Eligible /\ count >= Repeats
  IN /\ lastCommand' = IF Eligible THEN c ELSE lastCommand
     /\ commandCount' = IF ~Eligible THEN commandCount ELSE IF takes THEN 0 ELSE count
     /\ IF takes
        THEN /\ Raise(c)
             /\ settings' = Written(c)
             /\ edtArmed' = (edtArmed \/ (c = EdtEnable /\ edtGate))
             /\ progMode' = IF c = ProgrammingMode THEN 1 ELSE progMode
        ELSE UNCHANGED <<raisedVars, settings, edtArmed, progMode>>
     /\ UNCHANGED <<position, newByte>>

\* CommandProcessor::process_programming: position, byte, commit.
Programming(v) ==
  /\ position' = IF progMode = 1 THEN v ELSE position
  /\ newByte' = IF progMode = 2 THEN v % 256 ELSE newByte
  /\ progMode' = IF progMode < 3 THEN progMode + 1 ELSE IF v = CommitValue THEN 0 ELSE 3
  /\ settings' = IF progMode = 3 /\ v = CommitValue /\ position \in Positions
                 THEN [settings EXCEPT ![position] = newByte] ELSE settings
  /\ UNCHANGED <<edtArmed, lastCommand, commandCount, raisedVars>>

------------------------------------------------------------------------------
(* Frames *)

\* Zero throttle disarms the EDT gate.
GateAfter(v) == edtArmed /\ ~(v = 0 /\ edtGate)

Admitted(v) == ~edtGate \/ edtArmed \/ v = 0

Throttle(v) ==
  /\ dNewinput' = IF Admitted(v) THEN v ELSE dNewinput
  /\ edtArmed' = GateAfter(v)
  /\ UNCHANGED <<lastCommand, commandCount, progVars, settings, raisedVars>>

\* Mutation: a sequence survives the loss of its gate.
NeverCancelled == FALSE

\* A sequence that was begun at rest ends with the first frame that finds the
\* motor running or disarmed; that frame is dropped.
Cancelled == progMode > 0 /\ ~Eligible

Cancel ==
  /\ progMode' = 0
  /\ dNewinput' = 0
  /\ UNCHANGED <<edtArmed, lastCommand, commandCount, position, newByte, settings,
                 raisedVars>>

\* The frame interrupt, on a buffer that decodes to v.
Handle(v) ==
  /\ IF Cancelled THEN Cancel
     ELSE IF progMode > 0 THEN dNewinput' = 0 /\ Programming(v)
     ELSE IF IsCommand(v) THEN dNewinput' = 0 /\ Command(v)
     ELSE Throttle(v)
  /\ UNCHANGED <<dArmed, dRunning, edtGate>>

\* The programming frames sent since the sequence began.
SentAfter(v) ==
  IF progMode' = 0 \/ progMode = 0 THEN <<>>
  ELSE IF progMode = 3 THEN sent ELSE Append(sent, v)

\* A frame with a valid checksum arrives.
FrameArrives(v) ==
  /\ port = "capture"
  /\ Handle(v)
  /\ sent' = SentAfter(v)
  /\ IF twoWay /\ dArmed THEN port' = "output" /\ buffer' = v
                          ELSE UNCHANGED <<port, buffer>>
  /\ UNCHANGED twoWay

\* A frame that does not decode still cancels.
BadFrame ==
  /\ port = "capture"
  /\ Cancelled
  /\ progMode' = 0 /\ sent' = <<>>
  /\ UNCHANGED <<portVars, dNewinput, dArmed, dRunning, edtGate, edtArmed, lastCommand,
                 commandCount, position, newByte, settings, raisedVars>>

\* handle_dma_tc at the end of an output: only an armed motor's port turns.
TurnedBack == IF dArmed THEN "capture" ELSE port

\* The interrupt that follows decodes the buffer, still the frame just answered,
\* unless it was held off since the capture and the two requests are one.
Answered ==
  /\ port = "output"
  /\ port' = TurnedBack
  /\ buffer' = IF port' = "output" THEN buffer ELSE 0
  /\ \/ Handle(buffer) /\ sent' = IF progMode' = 0 THEN <<>> ELSE sent
     \/ UNCHANGED <<dNewinput, dArmed, dRunning, edtGate, edtArmed, lastCommand,
                    commandCount, progVars, settings, raisedVars, sent>>
  /\ UNCHANGED twoWay

------------------------------------------------------------------------------
(* The rest of the system *)

\* Arming, starting and stopping.
Motor ==
  /\ \/ ~dArmed /\ dNewinput = 0 /\ dArmed' = TRUE /\ UNCHANGED dRunning
     \/ dArmed /\ dRunning' = ~dRunning /\ UNCHANGED dArmed
     \/ dArmed /\ dArmed' = FALSE /\ dRunning' = FALSE
  /\ UNCHANGED <<portVars, dNewinput, edtGate, edtArmed, lastCommand, commandCount,
                 progVars, settings, raisedVars, sent>>

\* The mailboxes are taken by the tick, the main loop and the EDT scheduler.
Taken ==
  /\ saveAsked \/ toneAsked \/ infoAsked \/ edtRequest # "none"
  /\ saveAsked' = FALSE /\ toneAsked' = FALSE /\ infoAsked' = FALSE
  /\ edtRequest' = "none"
  /\ UNCHANGED <<portVars, dNewinput, dArmed, dRunning, edtGate, edtArmed, lastCommand,
                 commandCount, progVars, settings, extended, sent>>

DispatchNext ==
  (\E v \in FrameValues : FrameArrives(v)) \/ BadFrame \/ Answered \/ Motor \/ Taken

DispatchSpec == DispatchInit /\ [][DispatchNext]_dispatchVars

------------------------------------------------------------------------------
(* Properties *)

\* A setting changes only while the motor is armed and at rest; a programming
\* sequence changes the byte it named, to the value it gave, in one piece.
WrittenAsSent ==
  /\ dArmed /\ ~dRunning
  /\ progMode > 0 =>
       Len(sent) = 2 /\ settings' = [settings EXCEPT ![sent[1]] = sent[2] % 256]

SettingsAsSent == [][settings' # settings => WrittenAsSent]_dispatchVars

\* The same, on a line that the port does not answer.
OneWayAsSent == [][settings' # settings /\ ~twoWay => WrittenAsSent]_dispatchVars
==============================================================================
