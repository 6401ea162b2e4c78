------------------------------- MODULE Devices_proofs -------------------------------
(***************************************************************************)
(* What the drivers of the peripherals guarantee, for every value of their *)
(* parameters: the settings page at the flash controller, the gate driver  *)
(* and the main output enable, the telemetry line, the scan of the         *)
(* converter, the start of the chips, and the tunes.  Each is examined by  *)
(* itself.                                                                 *)
(***************************************************************************)
EXTENDS FlashProgram, GateControl, TelemetryPort, AdcScan, ChipStart, ToneScheduler,
        SequenceTheorems, Numeric_proofs, TLAPS

------------------------------------------------------------------------------
(* The settings page: a write whose waits ended leaves it as given. *)

Phases == {"idle", "erase", "erasing", "program", "programming"}

\* The byte that belongs in cell k of the written units.
Filled(k) == IF k < PageBytes THEN givenBytes[k + 1] ELSE Words.pad

\* The cells below n hold their bytes, the others are erased.
FilledTo(n) ==
  \A k \in PageCells : pageCells[k] = IF k < n THEN Filled(k) ELSE ErasedByte

\* The control bits follow the phase, whether or not a wait gave up.
BitsFollow ==
  /\ controller \in FlashChips /\ writeAt \in Phases
  /\ locked = (writeAt = "idle")
  /\ erasing = (writeAt = "erasing")
  /\ programming = (writeAt = "programming")
  /\ working \in {"no", "erase", "program"} /\ gaveUp \in BOOLEAN

\* The next unit starts at a multiple of the unit and not beyond the last one.
CursorStands ==
  /\ cursor \in Nat /\ cursor % Words.unit = 0
  /\ cursor < PageBytes + Words.unit
  /\ writeAt \in {"erase", "erasing"} => cursor = 0
  /\ writeAt = "programming" => cursor < PageBytes

\* What the controller has done in a write whose waits have ended so far.
CellsStand ==
  /\ pageCells = [k \in PageCells |-> pageCells[k]]
  /\ ~gaveUp =>
       /\ writeAt \in {"idle", "erase", "program"} => working = "no"
       /\ writeAt = "erasing" => working # "program" /\ (working = "no" => FilledTo(0))
       /\ writeAt = "program" => FilledTo(cursor)
       /\ writeAt = "programming" => working # "erase" /\ FilledTo(cursor + Words.unit)
       /\ writeAt = "idle" /\ givenBytes # <<>> => pageCells = PageWith(givenBytes)

FlashStands == BitsFollow /\ CursorStands /\ CellsStand

------------------------------------------------------------------------------
(* Units *)

\* The chips write in units of two or eight bytes.
LEMMA UnitSizes ==
  ASSUME controller \in FlashChips
  PROVE  Words.unit = 2 \/ Words.unit = 8
<1>1. controller \in {"g071", "f051", "l431", "g431"}
  BY FlashAssumption DEF FlashAssumption
<1> QED
  BY <1>1 DEF Words, G071Words, L431Words, G431Words, F051Words

\* Two multiples of a unit are a unit apart.
LEMMA NextMultiple ==
  ASSUME NEW c \in Nat, NEW u, u = 2 \/ u = 8, c % u = 0
  PROVE  (c + u) \in Nat /\ (c + u) % u = 0
<1>1. CASE u = 2
  BY <1>1
<1>2. CASE u = 8
  BY <1>2
<1> QED
  BY <1>1, <1>2

\* The multiple of a unit reached by counting up to n is n rounded up.
LEMMA RoundedUp ==
  ASSUME NEW n \in Nat, NEW c \in Nat, NEW u, u = 2 \/ u = 8,
         c % u = 0, n <= c, c < n + u
  PROVE  ((n + u - 1) \div u) * u = c
<1>1. CASE u = 2
  BY <1>1
<1>2. CASE u = 8
  BY <1>2
<1> QED
  BY <1>1, <1>2

\* A page filled beyond its last byte is the page as given.
LEMMA FilledIsGiven ==
  ASSUME controller \in FlashChips, pageCells = [k \in PageCells |-> pageCells[k]],
         cursor \in Nat, cursor % Words.unit = 0, PageBytes <= cursor,
         cursor < PageBytes + Words.unit, FilledTo(cursor)
  PROVE  pageCells = PageWith(givenBytes)
<1>1. Words.unit = 2 \/ Words.unit = 8
  BY UnitSizes
<1>2. PageBytes \in Nat
  BY FlashAssumption DEF FlashAssumption
<1>3. ((PageBytes + Words.unit - 1) \div Words.unit) * Words.unit = cursor
  BY <1>1, <1>2, RoundedUp
<1>4. ASSUME NEW k \in PageCells
      PROVE  pageCells[k] = PageWith(givenBytes)[k]
  <2>1. k \in Nat
    BY <1>2 DEF PageCells
  <2>2. k < PageBytes => k < cursor
    BY <1>2, <2>1
  <2> QED
    BY <1>3, <2>2 DEF FilledTo, Filled, PageWith
<1> QED
  BY <1>4 DEF PageWith

------------------------------------------------------------------------------
(* Steps *)

\* No write at the start.
LEMMA FlashStandsInit == FlashInit => FlashStands
<1> SUFFICES ASSUME FlashInit PROVE FlashStands
  OBVIOUS
<1>1. BitsFollow
  BY DEF FlashInit, BitsFollow, Phases
<1>2. CursorStands
  <2>1. Words.unit = 2 \/ Words.unit = 8
    BY UnitSizes DEF FlashInit
  <2>2. cursor = 0 /\ writeAt = "idle" /\ PageBytes \in Nat
    BY FlashAssumption DEF FlashInit, FlashAssumption
  <2>3. cursor % Words.unit = 0
    BY <2>1, <2>2
  <2> QED
    BY <2>1, <2>2, <2>3 DEF CursorStands
<1>3. CellsStand
  BY DEF FlashInit, CellsStand
<1> QED
  BY <1>1, <1>2, <1>3 DEF FlashStands

\* The control bits are set and cleared with their phases.
LEMMA BitsNext == BitsFollow /\ [FlashNext]_flashVars => BitsFollow'
<1> SUFFICES ASSUME BitsFollow, [FlashNext]_flashVars PROVE BitsFollow'
  OBVIOUS
<1> USE DEF BitsFollow, Phases
<1>1. ASSUME NEW value \in Contents, BeginWrite(value) PROVE BitsFollow'
  BY <1>1 DEF BeginWrite
<1>2. CASE StartErase
  BY <1>2 DEF StartErase
<1>3. CASE EraseDone
  BY <1>3 DEF EraseDone, Waited
<1>4. CASE WriteUnit
  BY <1>4 DEF WriteUnit
<1>5. CASE UnitDone
  BY <1>5 DEF UnitDone, Waited
<1>6. CASE EndWrite
  BY <1>6 DEF EndWrite
<1>7. CASE OperationEnds
  BY <1>7 DEF OperationEnds
<1>8. CASE PowerLost
  BY <1>8 DEF PowerLost
<1>9. CASE UNCHANGED flashVars
  BY <1>9 DEF flashVars, flashRegs
<1> QED
  BY <1>1, <1>2, <1>3, <1>4, <1>5, <1>6, <1>7, <1>8, <1>9 DEF FlashNext

\* The cursor goes unit by unit.
LEMMA CursorNext ==
  BitsFollow /\ CursorStands /\ [FlashNext]_flashVars => CursorStands'
<1> SUFFICES ASSUME BitsFollow, CursorStands, [FlashNext]_flashVars PROVE CursorStands'
  OBVIOUS
<1>u. Words.unit = 2 \/ Words.unit = 8
  BY UnitSizes DEF BitsFollow
<1>b. PageBytes \in Nat \ {0}
  BY FlashAssumption DEF FlashAssumption
<1>z. 0 % Words.unit = 0
  BY <1>u
<1>w. controller' = controller => Words' = Words
  BY DEF Words
<1>1. ASSUME NEW value \in Contents, BeginWrite(value) PROVE CursorStands'
  BY <1>1, <1>u, <1>b, <1>z, <1>w DEF BeginWrite, CursorStands
<1>2. CASE StartErase
  BY <1>2, <1>w DEF StartErase, CursorStands
<1>3. CASE EraseDone
  BY <1>3, <1>w DEF EraseDone, CursorStands
<1>4. CASE WriteUnit
  BY <1>4, <1>w DEF WriteUnit, CursorStands
<1>5. CASE UnitDone
  <2>1. /\ cursor \in Nat /\ cursor % Words.unit = 0 /\ cursor < PageBytes
        /\ cursor' = cursor + Words.unit /\ writeAt' = "program" /\ Words' = Words
    BY <1>5, <1>w DEF UnitDone, CursorStands
  <2>2. cursor + Words.unit \in Nat /\ (cursor + Words.unit) % Words.unit = 0
    BY <2>1, <1>u, NextMultiple
  <2>3. cursor + Words.unit < PageBytes + Words.unit
    BY <2>1, <1>u, <1>b
  <2> QED
    BY <2>1, <2>2, <2>3 DEF CursorStands
<1>6. CASE EndWrite
  BY <1>6, <1>w DEF EndWrite, CursorStands
<1>7. CASE OperationEnds
  BY <1>7, <1>w DEF OperationEnds, CursorStands
<1>8. CASE PowerLost
  BY <1>8, <1>u, <1>b, <1>z, <1>w DEF PowerLost, CursorStands
<1>9. CASE UNCHANGED flashVars
  BY <1>9, <1>w DEF flashVars, flashRegs, CursorStands
<1> QED
  BY <1>1, <1>2, <1>3, <1>4, <1>5, <1>6, <1>7, <1>8, <1>9 DEF FlashNext
\* What is filled stays filled while bytes, cells and chip stay.
LEMMA FilledStays ==
  ASSUME NEW n, FilledTo(n), pageCells' = pageCells, givenBytes' = givenBytes,
         controller' = controller
  PROVE  \A k \in PageCells : pageCells'[k] = IF k < n THEN Filled(k)' ELSE ErasedByte
BY DEF FilledTo, Filled, Words

\* A unit that the controller takes fills the cells up to the next one.
LEMMA UnitTaken ==
  ASSUME BitsFollow, CursorStands, CellsStand, WriteUnit, ~gaveUp
  PROVE  FilledTo(cursor + Words.unit)' /\ working' = "program"
<1>1. Words.unit = 2 \/ Words.unit = 8
  BY UnitSizes DEF BitsFollow
<1>2. PageBytes \in Nat \ {0} /\ cursor \in Nat /\ cursor < PageBytes
  BY FlashAssumption DEF FlashAssumption, CursorStands, WriteUnit
<1>3. FilledTo(cursor) /\ working = "no" /\ ~locked /\ ~erasing
  BY DEF CellsStand, BitsFollow, WriteUnit
<1>4. \A i \in 0 .. Words.unit - 1 :
        /\ cursor + i \in PageCells /\ ~(cursor + i < cursor)
        /\ pageCells[cursor + i] = ErasedByte
  <2> SUFFICES ASSUME NEW i \in 0 .. Words.unit - 1
               PROVE  /\ cursor + i \in PageCells /\ ~(cursor + i < cursor)
                      /\ pageCells[cursor + i] = ErasedByte
    OBVIOUS
  <2>1. i \in Nat /\ i <= 7
    BY <1>1
  <2>2. cursor + i \in PageCells /\ ~(cursor + i < cursor)
    BY <2>1, <1>2 DEF PageCells
  <2> QED
    BY <2>2, <1>3 DEF FilledTo
<1>5. /\ working' = "program"
      /\ pageCells' = [k \in PageCells |->
                         IF k \in cursor .. cursor + Words.unit - 1 THEN UnitAt(cursor)[k - cursor]
                         ELSE pageCells[k]]
  BY <1>3, <1>4 DEF WriteUnit
<1>6. /\ cursor' = cursor /\ givenBytes' = givenBytes /\ controller' = controller
      /\ Words' = Words
  BY DEF WriteUnit, Words
<1>7. ASSUME NEW k \in PageCells
      PROVE  pageCells'[k] = IF k < cursor + Words.unit THEN Filled(k) ELSE ErasedByte
  <2>1. k \in Nat
    BY <1>2 DEF PageCells
  <2>2. CASE k < cursor
    BY <1>1, <1>2, <1>3, <1>5, <2>1, <2>2 DEF FilledTo
  <2>3. CASE k \in cursor .. cursor + Words.unit - 1
    <3>1. k - cursor \in 0 .. Words.unit - 1 /\ cursor + (k - cursor) = k
      BY <1>1, <1>2, <2>1, <2>3
    <3>2. UnitAt(cursor)[k - cursor] = Filled(k)
      BY <3>1 DEF UnitAt, Filled
    <3>3. k < cursor + Words.unit
      BY <1>1, <1>2, <2>1, <2>3
    <3> QED
      BY <1>5, <2>3, <3>2, <3>3
  <2>4. CASE ~(k < cursor + Words.unit)
    BY <1>1, <1>2, <1>3, <1>5, <2>1, <2>4 DEF FilledTo
  <2> QED
    BY <1>1, <1>2, <2>1, <2>2, <2>3, <2>4
<1>8. Filled(0)' = Filled(0) /\ \A k \in PageCells : Filled(k)' = Filled(k)
  BY <1>6 DEF Filled
<1> QED
  BY <1>5, <1>6, <1>7, <1>8 DEF FilledTo

\* The cells follow the write.
LEMMA CellsNext == FlashStands /\ [FlashNext]_flashVars => CellsStand'
<1> SUFFICES ASSUME BitsFollow, CursorStands, CellsStand, [FlashNext]_flashVars
             PROVE  CellsStand'
  BY DEF FlashStands
<1>d. pageCells' = pageCells \/ pageCells' = [k \in PageCells |-> ErasedByte] \/ WriteUnit
        => pageCells' = [k \in PageCells |-> pageCells'[k]]
  BY DEF CellsStand, WriteUnit
<1>1. ASSUME NEW value \in Contents, BeginWrite(value) PROVE CellsStand'
  BY <1>1, <1>d DEF BeginWrite, CellsStand, BitsFollow
<1>2. CASE StartErase
  BY <1>2, <1>d DEF StartErase, CellsStand, BitsFollow
<1>3. CASE EraseDone
  <2>1. /\ writeAt = "erasing" /\ writeAt' = "program" /\ pageCells' = pageCells
        /\ cursor' = 0 /\ working' = working /\ givenBytes' = givenBytes
        /\ controller' = controller
    BY <1>3 DEF EraseDone, CursorStands
  <2>2. ~gaveUp' => ~gaveUp /\ working = "no"
    BY <1>3 DEF EraseDone, Waited
  <2>3. ~gaveUp' => FilledTo(cursor)'
    BY <2>1, <2>2, FilledStays DEF CellsStand, FilledTo
  <2> QED
    BY <2>1, <2>2, <2>3, <1>d DEF CellsStand
<1>4. CASE WriteUnit
  <2>1. /\ writeAt = "program" /\ writeAt' = "programming" /\ gaveUp' = gaveUp
    BY <1>4 DEF WriteUnit
  <2>2. ~gaveUp => FilledTo(cursor + Words.unit)' /\ working' = "program"
    BY <1>4, UnitTaken
  <2>3. (cursor + Words.unit)' = cursor' + Words'.unit
    OBVIOUS
  <2> QED
    BY <1>4, <2>1, <2>2, <1>d DEF CellsStand
<1>5. CASE UnitDone
  <2>1. /\ writeAt = "programming" /\ writeAt' = "program" /\ pageCells' = pageCells
        /\ cursor' = cursor + Words.unit /\ working' = working /\ givenBytes' = givenBytes
        /\ controller' = controller
    BY <1>5 DEF UnitDone
  <2>2. ~gaveUp' => ~gaveUp /\ working = "no"
    BY <1>5 DEF UnitDone, Waited
  <2>3. ~gaveUp' => FilledTo(cursor)'
    BY <2>1, <2>2, FilledStays DEF CellsStand, FilledTo
  <2> QED
    BY <2>1, <2>2, <2>3, <1>d DEF CellsStand
<1>6. CASE EndWrite
  <2>1. /\ writeAt = "program" /\ writeAt' = "idle" /\ pageCells' = pageCells
        /\ cursor >= PageBytes /\ working' = working /\ givenBytes' = givenBytes
        /\ controller' = controller /\ gaveUp' = gaveUp
    BY <1>6 DEF EndWrite
  <2>2. PageWith(givenBytes)' = PageWith(givenBytes)
    BY <2>1 DEF PageWith, Words
  <2>3. PageBytes <= cursor
    BY <2>1, FlashAssumption DEF FlashAssumption, CursorStands
  <2>4. ~gaveUp => pageCells = PageWith(givenBytes)
    BY <2>1, <2>3, FilledIsGiven DEF BitsFollow, CursorStands, CellsStand
  <2> QED
    BY <2>1, <2>2, <2>4, <1>d DEF CellsStand
<1>7. CASE OperationEnds
  <2>1. /\ working # "no" /\ working' = "no" /\ gaveUp' = gaveUp
        /\ writeAt' = writeAt /\ cursor' = cursor
        /\ givenBytes' = givenBytes /\ controller' = controller
        /\ pageCells' = IF working = "erase" THEN [k \in PageCells |-> ErasedByte]
                        ELSE pageCells
    BY <1>7 DEF OperationEnds
  <2>2. ~gaveUp => writeAt \in {"erasing", "programming"}
    BY <2>1 DEF CellsStand, BitsFollow, Phases
  <2>3. ~gaveUp /\ writeAt = "erasing" => FilledTo(0)'
    <3> SUFFICES ASSUME ~gaveUp, writeAt = "erasing" PROVE FilledTo(0)'
      OBVIOUS
    <3>1. pageCells' = [k \in PageCells |-> ErasedByte]
      BY <2>1 DEF CellsStand, BitsFollow
    <3>2. \A k \in PageCells : ~(k < 0)
      BY FlashAssumption DEF FlashAssumption, PageCells
    <3> QED
      BY <3>1, <3>2 DEF FilledTo
  <2>4. ~gaveUp /\ writeAt = "programming" => FilledTo(cursor + Words.unit)'
    <3> SUFFICES ASSUME ~gaveUp, writeAt = "programming"
                 PROVE  FilledTo(cursor + Words.unit)'
      OBVIOUS
    <3>1. pageCells' = pageCells /\ FilledTo(cursor + Words.unit)
      BY <2>1 DEF CellsStand
    <3>2. Words' = Words
      BY <2>1 DEF Words
    <3> QED
      BY <2>1, <3>1, <3>2, FilledStays DEF FilledTo
  <2> QED
    BY <2>1, <2>2, <2>3, <2>4, <1>d DEF CellsStand
<1>8. CASE PowerLost
  <2>1. pageCells' = pageCells \/ pageCells' = [k \in PageCells |-> ErasedByte]
    BY <1>8 DEF PowerLost
  <2>2. writeAt' = "idle" /\ working' = "no" /\ givenBytes' = <<>>
    BY <1>8 DEF PowerLost
  <2> QED
    BY <2>1, <2>2, <1>d DEF CellsStand
<1>9. CASE UNCHANGED flashVars
  BY <1>9 DEF flashVars, flashRegs, CellsStand, FilledTo, Filled, PageWith, Words
<1> QED
  BY <1>1, <1>2, <1>3, <1>4, <1>5, <1>6, <1>7, <1>8, <1>9 DEF FlashNext

\* Bits, cursor and cells stand in every reachable state.
THEOREM FlashInvariant == FlashSpec => []FlashStands
<1>1. FlashStands /\ [FlashNext]_flashVars => FlashStands'
  BY BitsNext, CursorNext, CellsNext DEF FlashStands
<1> QED
  BY FlashStandsInit, <1>1, PTL DEF FlashSpec

\* A write all of whose waits ended leaves the page with the bytes given and the
\* padding, and the controller locked and set to nothing (FlashStorage::write), for
\* every length, whatever the page held and wherever a reset cut an earlier write.
THEOREM PageWritten == FlashSpec => []PageAsGiven
<1>1. FlashStands => PageAsGiven
  BY DEF FlashStands, BitsFollow, CellsStand, PageAsGiven
<1> QED
  BY <1>1, FlashInvariant, PTL

------------------------------------------------------------------------------
(* The gate driver and the main output enable *)

\* Where the emergency stop stands: past its fourth write MOE is clear, and only the
\* main loop, which the panic has stopped, would set it again.
StopStands ==
  /\ panicAt \in 0 .. 6
  /\ panicAt >= 4 => outputs = FALSE

\* The start satisfies it.
LEMMA StopStandsInit == GateInit => StopStands
BY DEF GateInit, StopStands

\* Every step of a handler, of drive_gate and of the panic handler preserves it.
LEMMA StopStandsNext == StopStands /\ [GateNext]_outputVars => StopStands'
<1> SUFFICES ASSUME StopStands, [GateNext]_outputVars PROVE StopStands'
  OBVIOUS
<1> USE DEF StopStands, sectionVars, legVars
<1>1. CASE ArmingChanges
  BY <1>1 DEF ArmingChanges
<1>2. CASE LegSwitched
  BY <1>2 DEF LegSwitched
<1>3. CASE GateCompared
  BY <1>3 DEF GateCompared
<1>4. CASE GateSet
  BY <1>4 DEF GateSet
<1>5. CASE Panics
  BY <1>5 DEF Panics
<1>6. CASE LatchesLow
  BY <1>6 DEF LatchesLow
<1>7. CASE PinsOut
  BY <1>7 DEF PinsOut
<1>8. CASE OutputsOff
  BY <1>8 DEF OutputsOff
<1>9. CASE GateOff
  BY <1>9 DEF GateOff
<1>10. CASE InterruptsOff
  BY <1>10 DEF InterruptsOff
<1>11. CASE UNCHANGED outputVars
  BY <1>11 DEF outputVars
<1> QED
  BY <1>1, <1>2, <1>3, <1>4, <1>5, <1>6, <1>7, <1>8, <1>9, <1>10, <1>11 DEF GateNext, Halted

\* After the emergency stop's fourth write the outputs stay off (panic.rs, emergency_off).
THEOREM GateInvariant == GateSpec => []StopStands
BY StopStandsInit, StopStandsNext, PTL DEF GateSpec

\* No step turns the driver on for a disarmed motor: only drive_gate's section turns it
\* on, and it has just read the flag with interrupts off.
LEMMA TurnedOnArmed ==
  ASSUME [GateNext]_outputVars, gated, gate', ~gate
  PROVE  mayDrive'
<1>1. CASE GateSet
  BY <1>1 DEF GateSet
<1>2. CASE GateOff
  BY <1>2 DEF GateOff
<1>3. CASE UNCHANGED gate
  BY <1>3
<1>4. ArmingChanges \/ LegSwitched \/ GateCompared \/ Panics \/ LatchesLow \/ PinsOut
        \/ OutputsOff \/ InterruptsOff \/ UNCHANGED outputVars => UNCHANGED gate
  BY DEF ArmingChanges, LegSwitched, GateCompared, Panics, LatchesLow, PinsOut, OutputsOff,
         InterruptsOff, outputVars
<1> QED
  BY <1>1, <1>2, <1>3, <1>4 DEF GateNext, Halted

\* The step form of GateSafe.
LEMMA StepGateSafe ==
  ASSUME StopStands, StopStands', [GateNext]_outputVars
  PROVE  /\ gated /\ gate' /\ ~gate => mayDrive'
         /\ panicAt' >= 4 => ~(highPin' = "pwm" /\ outputs')
<1>1. gated /\ gate' /\ ~gate => mayDrive'
  BY TurnedOnArmed
<1>2. panicAt' >= 4 => ~(highPin' = "pwm" /\ outputs')
  BY DEF StopStands
<1> QED
  BY <1>1, <1>2

\* The gate driver is never turned on for a motor that a handler has disarmed
\* (drive_gate), and no high side switches after the emergency stop (emergency_off).
THEOREM GateHolds == GateSpec => GateSafe
<1>1. StopStands /\ StopStands' /\ [GateNext]_outputVars =>
        [/\ gated /\ gate' /\ ~gate => mayDrive'
         /\ panicAt' >= 4 => ~(highPin' = "pwm" /\ outputs')]_outputVars
  BY StepGateSafe
<1> QED
  BY <1>1, GateInvariant, PTL DEF GateSpec, GateSafe

------------------------------------------------------------------------------
(* The telemetry line *)

\* The bytes that the buffer and the line may hold.
AnyByte == [kind : {"none", "telemetry", "settings"}, turn : {0, 1}, index : 0 .. LongPacket]

\* The registers of the channel stay within the buffer, and the history within its bound.
PortTypes ==
  /\ usable \in BOOLEAN /\ channelOn \in BOOLEAN
  /\ sendAt \in {"idle", "stop", "load", "start"}
  /\ sending \in [kind : {"none", "telemetry", "settings"}, length : 0 .. LongPacket, turn : {0, 1}]
  /\ sending.kind = "none" => sending.length = 0
  /\ txBuf \in [1 .. LongPacket -> AnyByte]
  /\ channelCount \in 0 .. LongPacket /\ takenFrom \in 1 .. LongPacket + 1
  /\ takenFrom + channelCount <= LongPacket + 1
  /\ sentBytes \in Seq(AnyByte) /\ Len(sentBytes) <= LongPacket

\* The buffer holds the packet; a send that has stopped the channel loads it whole.
SendStands ==
  /\ \A k \in 1 .. sending.length : txBuf[k] = Byte(sending, k)
  /\ sendAt \in {"load", "start"} => ~channelOn
  /\ sendAt = "start" => channelCount = sending.length /\ takenFrom = 1
  /\ sendAt = "idle" /\ channelOn => takenFrom + channelCount = sending.length + 1

\* The bytes of the packet taken so far are the last ones of the line.
LineStands ==
  /\ sendAt = "idle" /\ channelOn =>
       /\ takenFrom - 1 <= Len(sentBytes)
       /\ \A k \in 1 .. takenFrom - 1 :
            sentBytes[Len(sentBytes) - (takenFrom - 1) + k] = Byte(sending, k)
  /\ ~usable => sentBytes = <<>>

TelemetryStands == PortTypes /\ SendStands /\ LineStands

\* Both packets fit the buffer.
LEMMA KindLengths ==
  ASSUME NEW kind \in DOMAIN Kinds
  PROVE  kind \in {"telemetry", "settings"} /\ Kinds[kind] \in 1 .. LongPacket
BY PortAssumption DEF Kinds, PortAssumption

\* A silent line at the start.
LEMMA TelemetryStandsInit == TelemetryInit => TelemetryStands
<1> SUFFICES ASSUME TelemetryInit PROVE TelemetryStands
  OBVIOUS
<1> USE PortAssumption DEF PortAssumption
<1>1. txBuf \in [1 .. LongPacket -> AnyByte]
  BY DEF TelemetryInit, NoByte, AnyByte
<1>2. sentBytes \in Seq(AnyByte) /\ Len(sentBytes) = 0
  BY DEF TelemetryInit
<1>3. /\ sending \in [kind : {"none", "telemetry", "settings"}, length : 0 .. LongPacket, turn : {0, 1}]
      /\ sending.length = 0
  BY DEF TelemetryInit
<1>4. channelCount = 0 /\ takenFrom = 1 /\ sendAt = "idle"
  BY DEF TelemetryInit
<1>5. usable \in BOOLEAN /\ channelOn \in BOOLEAN
  BY DEF TelemetryInit
<1>6. PortTypes
  BY <1>1, <1>2, <1>3, <1>4, <1>5 DEF PortTypes
<1>7. SendStands /\ LineStands
  BY <1>2 DEF TelemetryInit, SendStands, LineStands
<1> QED
  BY <1>6, <1>7 DEF TelemetryStands

\* What the line has at its end when it takes a byte more.
LEMMA ByteAppended ==
  ASSUME NEW line \in Seq(AnyByte), Len(line) <= LongPacket, NEW b \in AnyByte,
         NEW after, after = IF Len(line) < LongPacket THEN Append(line, b) ELSE Append(Tail(line), b)
  PROVE  /\ after \in Seq(AnyByte) /\ Len(after) <= LongPacket /\ Len(line) <= Len(after)
         /\ after[Len(after)] = b
         /\ \A k \in 0 .. Len(line) - 1 : k < Len(after) - 1 => after[Len(after) - 1 - k] = line[Len(line) - k]
<1> USE PortAssumption DEF PortAssumption
<1>1. CASE Len(line) < LongPacket
  BY <1>1
<1>2. CASE Len(line) = LongPacket
  <2>1. line # <<>> /\ Tail(line) \in Seq(AnyByte) /\ Len(Tail(line)) = Len(line) - 1
    BY <1>2
  <2>2. \A i \in 1 .. Len(line) - 1 : Tail(line)[i] = line[i + 1]
    BY <2>1
  <2>3. /\ after \in Seq(AnyByte) /\ Len(after) = Len(line) /\ after[Len(after)] = b
        /\ \A i \in 1 .. Len(line) - 1 : after[i] = Tail(line)[i]
    BY <1>2, <2>1
  <2>4. ASSUME NEW k \in 0 .. Len(line) - 1, k < Len(after) - 1
        PROVE  after[Len(after) - 1 - k] = line[Len(line) - k]
    <3> DEFINE i == Len(line) - 1 - k
    <3>1. i \in 1 .. Len(line) - 1 /\ Len(after) - 1 - k = i /\ Len(line) - k = i + 1
      BY <2>3, <2>4
    <3> HIDE DEF i
    <3>2. after[i] = line[i + 1]
      BY <3>1, <2>2, <2>3
    <3> QED
      BY <3>1, <3>2
  <2> QED
    BY <1>2, <2>1, <2>3, <2>4
<1> QED
  BY <1>1, <1>2

\* Each step of the copy, of the DMA and of the line keeps it standing.
LEMMA TelemetryStandsNext == TelemetryStands /\ [TelemetryNext]_telemetryVars => TelemetryStands'
<1> SUFFICES ASSUME TelemetryStands, [TelemetryNext]_telemetryVars PROVE TelemetryStands'
  OBVIOUS
<1> USE PortAssumption DEF PortAssumption, TelemetryStands
<1>1. ASSUME NEW kind \in DOMAIN Kinds, Copy(kind) PROVE TelemetryStands'
  <2>1. kind \in {"telemetry", "settings"} /\ Kinds[kind] \in 1 .. LongPacket
    BY KindLengths
  <2>2. /\ sending' \in [kind : {"none", "telemetry", "settings"}, length : 0 .. LongPacket, turn : {0, 1}]
        /\ sending'.kind = kind /\ sending'.length = Kinds[kind] /\ sending'.turn \in {0, 1}
    BY <1>1, <2>1 DEF Copy, PortTypes
  <2>3. \A k \in 1 .. LongPacket : Byte(sending', k) \in AnyByte
    BY <2>1, <2>2 DEF Byte, AnyByte
  <2>4. txBuf' \in [1 .. LongPacket -> AnyByte]
    BY <1>1, <2>3 DEF Copy, PortTypes
  <2>5. PortTypes'
    BY <1>1, <2>1, <2>2, <2>4 DEF Copy, PortTypes
  <2>6. \A k \in 1 .. sending'.length : txBuf'[k] = Byte(sending', k)
    BY <1>1, <2>1, <2>2 DEF Copy
  <2>7. SendStands' /\ LineStands'
    BY <1>1, <2>6 DEF Copy, SendStands, LineStands, Byte
  <2> QED
    BY <2>5, <2>7
<1>2. ASSUME StopChannel PROVE TelemetryStands'
  <2>1. UNCHANGED <<usable, txBuf, sending, channelCount, takenFrom, sentBytes>> /\ sendAt' = "load" /\ channelOn' = FALSE
    BY <1>2 DEF StopChannel
  <2>2. PortTypes'
    BY <2>1 DEF PortTypes, AnyByte
  <2>3. SendStands' /\ LineStands'
    BY <2>1 DEF SendStands, LineStands, Byte
  <2> QED
    BY <2>2, <2>3
<1>3. ASSUME LoadChannel PROVE TelemetryStands'
  <2>1. ~channelOn
    BY <1>3 DEF LoadChannel, SendStands
  <2>2. /\ UNCHANGED <<usable, txBuf, sending, channelOn, sentBytes>> /\ sendAt' = "start"
        /\ channelCount' = sending.length /\ takenFrom' = 1
    BY <1>3, <2>1 DEF LoadChannel
  <2>3. PortTypes'
    BY <2>2 DEF PortTypes, AnyByte
  <2>4. SendStands' /\ LineStands'
    BY <2>1, <2>2 DEF SendStands, LineStands, Byte
  <2> QED
    BY <2>3, <2>4
<1>4. ASSUME StartChannel PROVE TelemetryStands'
  <2>1. /\ UNCHANGED <<usable, txBuf, sending, channelCount, takenFrom, sentBytes>>
        /\ sendAt' = "idle" /\ channelOn' = TRUE /\ sendAt = "start"
    BY <1>4 DEF StartChannel
  <2>2. PortTypes'
    BY <2>1 DEF PortTypes, AnyByte
  <2>4. /\ takenFrom = 1 /\ channelCount = sending.length
        /\ Len(sentBytes) \in Nat /\ sending.length \in Nat
    BY <2>1 DEF SendStands, PortTypes
  <2>3. SendStands'
    <3>1. \A k \in 1 .. sending'.length : txBuf'[k] = Byte(sending', k)
      BY <2>1 DEF SendStands, Byte
    <3>2. takenFrom' + channelCount' = sending'.length + 1
      BY <2>1, <2>4
    <3> QED
      BY <2>1, <3>1, <3>2 DEF SendStands
  <2>5. LineStands'
    BY <2>1, <2>4 DEF LineStands, PortTypes
  <2> QED
    BY <2>2, <2>3, <2>5
<1>5. ASSUME ByteSent PROVE TelemetryStands'
  <2>1. /\ UNCHANGED <<usable, txBuf, sendAt, sending, channelOn>> /\ usable
        /\ channelCount \in 1 .. LongPacket /\ takenFrom \in 1 .. LongPacket
        /\ channelCount' = channelCount - 1 /\ takenFrom' = takenFrom + 1
    BY <1>5 DEF ByteSent, PortTypes
  <2>2. txBuf[takenFrom] \in AnyByte
    BY <2>1 DEF PortTypes
  <2>3. sentBytes' = IF Len(sentBytes) < LongPacket THEN Append(sentBytes, txBuf[takenFrom])
                     ELSE Append(Tail(sentBytes), txBuf[takenFrom])
    BY <1>5 DEF ByteSent
  <2>4. /\ sentBytes' \in Seq(AnyByte) /\ Len(sentBytes') <= LongPacket /\ Len(sentBytes) <= Len(sentBytes')
        /\ sentBytes'[Len(sentBytes')] = txBuf[takenFrom]
        /\ \A k \in 0 .. Len(sentBytes) - 1 : k < Len(sentBytes') - 1 =>
             sentBytes'[Len(sentBytes') - 1 - k] = sentBytes[Len(sentBytes) - k]
    BY <2>2, <2>3, ByteAppended DEF PortTypes
  <2>5. PortTypes'
    BY <2>1, <2>4 DEF PortTypes, AnyByte
  <2>6. SendStands'
    <3>1. channelOn /\ sending.length \in Nat
      BY <1>5 DEF ByteSent, PortTypes
    <3>2. \A k \in 1 .. sending'.length : txBuf'[k] = Byte(sending', k)
      BY <2>1 DEF SendStands, Byte
    <3>3. sendAt = "idle" => takenFrom' + channelCount' = sending'.length + 1
      BY <2>1, <3>1 DEF SendStands
    <3> QED
      BY <2>1, <3>1, <3>2, <3>3 DEF SendStands
  <2>7. ASSUME sendAt = "idle", channelOn
        PROVE  /\ takenFrom <= Len(sentBytes')
               /\ \A k \in 1 .. takenFrom : sentBytes'[Len(sentBytes') - takenFrom + k] = Byte(sending, k)
    <3>1. /\ takenFrom - 1 <= Len(sentBytes) /\ takenFrom + channelCount = sending.length + 1
          /\ sending.length \in 0 .. LongPacket
          /\ \A k \in 1 .. takenFrom - 1 :
               sentBytes[Len(sentBytes) - (takenFrom - 1) + k] = Byte(sending, k)
      BY <2>7 DEF LineStands, SendStands, PortTypes
    <3>2. txBuf[takenFrom] = Byte(sending, takenFrom)
      BY <2>1, <3>1 DEF SendStands
    <3>3. Len(sentBytes) \in Nat /\ Len(sentBytes') \in Nat /\ takenFrom \in Nat /\ LongPacket \in Nat
      BY <2>4 DEF PortTypes
    <3>4. takenFrom <= Len(sentBytes')
      BY <2>1, <2>3, <2>4, <3>1, <3>3 DEF PortTypes
    <3>5. ASSUME NEW k \in 1 .. takenFrom - 1
          PROVE  sentBytes'[Len(sentBytes') - takenFrom + k] = Byte(sending, k)
      <4> DEFINE j == takenFrom - 1 - k
      <4>1. j \in 0 .. Len(sentBytes) - 1 /\ j < Len(sentBytes') - 1
        BY <3>1, <3>3, <3>4
      <4>2. sentBytes'[Len(sentBytes') - 1 - j] = sentBytes[Len(sentBytes) - j]
        BY <2>4, <4>1
      <4>3. /\ Len(sentBytes') - 1 - j = Len(sentBytes') - takenFrom + k
            /\ Len(sentBytes) - j = Len(sentBytes) - (takenFrom - 1) + k
        BY <3>3
      <4> QED
        BY <3>1, <4>2, <4>3
    <3>6. sentBytes'[Len(sentBytes') - takenFrom + takenFrom] = Byte(sending, takenFrom)
      BY <2>4, <3>2, <3>3
    <3> QED
      BY <3>3, <3>4, <3>5, <3>6
  <2>8. LineStands'
    BY <2>1, <2>7 DEF LineStands, Byte, PortTypes
  <2> QED
    BY <2>5, <2>6, <2>8
<1>6. CASE UNCHANGED telemetryVars
  <2>1. PortTypes'
    BY <1>6 DEF telemetryVars, PortTypes, AnyByte
  <2>2. SendStands' /\ LineStands'
    BY <1>6 DEF telemetryVars, SendStands, LineStands, Byte
  <2> QED
    BY <2>1, <2>2
<1> QED
  BY <1>1, <1>2, <1>3, <1>4, <1>5, <1>6 DEF TelemetryNext

\* The bytes taken of the packet end the line, in every state.
THEOREM TelemetryInvariant == TelemetrySpec => []TelemetryStands
<1>1. TelemetryInit => TelemetryStands
  BY TelemetryStandsInit
<1>2. TelemetryStands /\ [TelemetryNext]_telemetryVars => TelemetryStands'
  BY TelemetryStandsNext
<1> QED
  BY <1>1, <1>2, PTL DEF TelemetrySpec

\* When nothing is being sent the line ends with the packet.
LEMMA QuietLineEnds == TelemetryStands => LastPacketWhole
<1> SUFFICES ASSUME TelemetryStands PROVE LastPacketWhole
  OBVIOUS
<1>1. ~usable => sentBytes = <<>>
  BY DEF TelemetryStands, LineStands
<1>2. ASSUME usable, sendAt = "idle", channelOn, channelCount = 0
      PROVE  Ending(sending.length) = [k \in 1 .. sending.length |-> Byte(sending, k)]
  <2> DEFINE n == sending.length
             l == Len(sentBytes)
  <2>1. /\ n \in Nat /\ l \in Nat /\ takenFrom = n + 1 /\ n <= l
        /\ sentBytes \in Seq(AnyByte)
    BY <1>2, PortAssumption DEF TelemetryStands, PortTypes, SendStands, LineStands, PortAssumption
  <2>2. \A k \in 1 .. n : sentBytes[l - n + k] = Byte(sending, k)
    BY <1>2, <2>1 DEF TelemetryStands, LineStands
  <2>3. Ending(n) = SubSeq(sentBytes, l - n + 1, l)
    BY <2>1 DEF Ending
  <2>4. SubSeq(sentBytes, l - n + 1, l) = [k \in 1 .. n |-> sentBytes[l - n + k]]
    <3>1. /\ Len(SubSeq(sentBytes, l - n + 1, l)) = n
          /\ SubSeq(sentBytes, l - n + 1, l) \in Seq(AnyByte)
          /\ \A k \in 1 .. n : SubSeq(sentBytes, l - n + 1, l)[k] = sentBytes[l - n + k]
      BY <2>1
    <3>2. SubSeq(sentBytes, l - n + 1, l) \in [1 .. n -> AnyByte]
      BY <3>1, LenProperties
    <3>3. SubSeq(sentBytes, l - n + 1, l) = [k \in 1 .. n |-> SubSeq(sentBytes, l - n + 1, l)[k]]
      BY <3>2
    <3> HIDE DEF n, l
    <3> QED
      BY <3>1, <3>3, Zenon
  <2> QED
    BY <2>2, <2>3, <2>4
<1> QED
  BY <1>1, <1>2 DEF LastPacketWhole

\* However many packets were cut short, a quiet line ends with the packet sent last,
\* whole and in order; a line whose start-up failed stays silent.
THEOREM LastPacketEndsLine == TelemetrySpec => []LastPacketWhole
<1>1. TelemetrySpec => []TelemetryStands
  BY TelemetryInvariant
<1>2. TelemetryStands => LastPacketWhole
  BY QuietLineEnds
<1> QED
  BY <1>1, <1>2, PTL

------------------------------------------------------------------------------
(* The scan of the converter *)

\* What place k of the buffer holds a scans after the sequence was read.
Sample(k, a) == [channel |-> Programmed[adcChip][k], age |-> a]

WholeScan(a) == \A k \in 1 .. 3 : samples[k] = Sample(k, a)

\* The converter runs with the sequence of its chip, or never will.
StartStands ==
  /\ adcChip \in AdcChips /\ adcChip \in {"g071", "f051", "l431"}
  /\ converter \in {"off", "starting", "on"}
  /\ adcChip # "g071" => scanList = Programmed[adcChip]
  /\ adcChip = "g071" =>
       /\ stage \in {"configured", "calibrated"} => scanList = <<>> /\ ~nibbles
       /\ stage = "up" => scanList = Programmed[adcChip]
       /\ stage = "failed" => converter = "off" \/ (scanList = <<>> /\ ~nibbles)

\* A scan takes the three channels of its sequence.
ListStands ==
  /\ nextChannel \in 0 .. 3 /\ dmaEnded \in BOOLEAN
  /\ nextChannel # 0 => stage \in {"up", "failed"} /\ scanList = Programmed[adcChip]
  /\ DOMAIN samples = 1 .. 3

\* While the DMA goes on each sample goes to its own place of the buffer, which is
\* unread before the first scan and whole after each.
FillStands ==
  ~dmaEnded =>
    /\ dmaSlot = IF nextChannel = 0 THEN 1 ELSE nextChannel
    /\ nextChannel \in {0, 1} => WholeScan(0) \/ \A k \in 1 .. 3 : samples[k] = Unread
    /\ nextChannel \in {2, 3} => samples[1] = Sample(1, 0)
    /\ nextChannel = 3 => samples[2] = Sample(2, 0)

\* After it has ended the buffer keeps the scan it holds.
KeepStands == dmaEnded => ~DmaGoesOn /\ \E a \in 0 .. MaxAge : WholeScan(a)

ScanStands == ListStands /\ FillStands /\ KeepStands

AdcStands == StartStands /\ ScanStands

\* The one upward order of the F051's channels.
LEMMA UpwardPins == Upward({2, 6, 16}) = <<2, 6, 16>>
<1> DEFINE mask == {2, 6, 16}
           rises(s) == s[1] < s[2] /\ s[2] < s[3]
           up == CHOOSE s \in [1 .. 3 -> mask] : rises(s)
<1>1. <<2, 6, 16>> \in [1 .. 3 -> mask] /\ rises(<<2, 6, 16>>)
  OBVIOUS
<1>2. up \in [1 .. 3 -> mask] /\ rises(up)
  <2> HIDE DEF rises, mask
  <2> QED
    BY <1>1
<1>3. up = Upward({2, 6, 16})
  BY DEF Upward
<1> HIDE DEF up
<1>4. up[1] \in mask /\ up[2] \in mask /\ up[3] \in mask
  BY <1>2
<1>5. up[1] = 2 /\ up[2] = 6 /\ up[3] = 16
  BY <1>2, <1>4
<1>6. up = <<2, 6, 16>>
  BY <1>1, <1>2, <1>5
<1> QED
  BY <1>3, <1>6

\* A driver's sequence has three channels.
LEMMA SequenceOfThree ==
  ASSUME adcChip \in {"g071", "f051", "l431"}
  PROVE  /\ Len(Programmed[adcChip]) = 3 /\ Programmed[adcChip] # <<>>
         /\ \A k \in 1 .. 3, a \in 0 .. MaxAge : Sample(k, a) # Unread
<1>1. CASE adcChip = "g071"
  BY <1>1 DEF Programmed, Sample, Unread, MaxAge
<1>2. CASE adcChip = "f051"
  BY <1>2, UpwardPins DEF Programmed, Sample, Unread, MaxAge
<1>3. CASE adcChip = "l431"
  BY <1>3 DEF Programmed, Sample, Unread, MaxAge
<1> QED
  BY <1>1, <1>2, <1>3

\* On the G071 and the L431 the sequence fills the places that the generic reads name
\* with the channels that chip.rs names.
LEMMA SequenceAgrees ==
  ASSUME adcChip \in {"g071", "l431"}
  PROVE  \A q \in Quantities : Programmed[adcChip][Place[q]] = Wired[adcChip][q]
<1>1. CASE adcChip = "g071"
  BY <1>1 DEF Programmed, Wired, Place, Quantities
<1>2. CASE adcChip = "l431"
  BY <1>2 DEF Programmed, Wired, Place, Quantities
<1> QED
  BY <1>1, <1>2

\* On the F051 it does not: what is read as the voltage is the channel that chip.rs
\* names for the current, and neither is read at its own.
LEMMA SequenceDisagrees ==
  /\ Programmed["f051"][Place["voltage"]] = Wired["f051"]["current"]
  /\ \A q \in {"current", "voltage"} : Programmed["f051"][Place[q]] # Wired["f051"][q]
  BY UpwardPins DEF Programmed, Wired, Place

\* No converter is up at the start.
LEMMA AdcStandsInit ==
  ASSUME "g431" \notin AdcChips, AdcInit
  PROVE  AdcStands
<1>1. adcChip \in AdcChips /\ adcChip \in {"g071", "f051", "l431"}
  BY AdcAssumption DEF AdcInit, AdcAssumption
<1>2. StartStands
  BY <1>1 DEF AdcInit, StartStands
<1>3. ListStands
  <2>1. nextChannel = 0 /\ dmaEnded = FALSE
    BY DEF AdcInit
  <2>2. DOMAIN samples = 1 .. 3
    BY DEF AdcInit
  <2>3. dmaEnded \in BOOLEAN
    BY <2>1
  <2> QED
    BY <2>1, <2>2, <2>3 DEF ListStands
<1>4. nextChannel = 0 /\ dmaSlot = 1 /\ \A k \in 1 .. 3 : samples[k] = Unread
  BY DEF AdcInit
<1>5. FillStands
  BY <1>4 DEF FillStands
<1>6. KeepStands
  BY DEF AdcInit, KeepStands
<1> QED
  BY <1>2, <1>3, <1>5, <1>6 DEF AdcStands, ScanStands

\* Each step keeps what the start-up has programmed.
LEMMA StartNext == AdcStands /\ [AdcNext]_adcVars => StartStands'
<1> SUFFICES ASSUME AdcStands, [AdcNext]_adcVars PROVE StartStands'
  OBVIOUS
<1> USE DEF AdcStands, StartStands, initVars, scanVars, Failed
<1>1. CASE Calibrate
  BY <1>1 DEF Calibrate
<1>2. CASE Enable
  BY <1>2 DEF Enable
<1>3. CASE GiveUp
  BY <1>3 DEF GiveUp
<1>4. CASE WriteSequence
  BY <1>4 DEF WriteSequence
<1>5. CASE VerifySequence
  BY <1>5 DEF VerifySequence
<1>6. CASE Settle
  BY <1>6 DEF Settle
<1>7. CASE ConverterOn
  BY <1>7 DEF ConverterOn
<1>8. CASE Convert
  BY <1>8 DEF Convert
<1>9. CASE Measurements
  BY <1>9 DEF Measurements
<1>10. CASE UNCHANGED adcVars
  BY <1>10 DEF adcVars
<1> QED
  BY <1>1, <1>2, <1>3, <1>4, <1>5, <1>6, <1>7, <1>8, <1>9, <1>10 DEF AdcNext

\* A scan is over the whole sequence of a converter that is up.
LEMMA ScanOfSequence ==
  ASSUME AdcStands, stage \in {"up", "failed"},
         nextChannel # 0 \/ (converter = "on" /\ Scanned # <<>>)
  PROVE  scanList = Programmed[adcChip] /\ Scanned = Programmed[adcChip]
<1>1. scanList = Programmed[adcChip]
  BY DEF AdcStands, StartStands, ScanStands, ListStands, Scanned
<1> QED
  BY <1>1, SequenceOfThree DEF AdcStands, StartStands, Scanned

\* A new scan makes a whole one older, and leaves an unread buffer.
LEMMA WholeAges ==
  ASSUME DOMAIN samples = 1 .. 3, adcChip \in {"g071", "f051", "l431"}
  PROVE  /\ DOMAIN Older(samples) = 1 .. 3
         /\ \A a \in 0 .. MaxAge : WholeScan(a) =>
              \E b \in 0 .. MaxAge : \A k \in 1 .. 3 : Older(samples)[k] = Sample(k, b)
<1>1. DOMAIN Older(samples) = 1 .. 3
  BY DEF Older
<1>2. ASSUME NEW a \in 0 .. MaxAge, WholeScan(a)
      PROVE  \E b \in 0 .. MaxAge : \A k \in 1 .. 3 : Older(samples)[k] = Sample(k, b)
  <2>1. \A k \in 1 .. 3 : samples[k] = Sample(k, a) /\ samples[k] # Unread
    BY <1>2, SequenceOfThree DEF WholeScan
  <2>2. CASE a = MaxAge
    <3>1. \A k \in 1 .. 3 : Older(samples)[k] = Sample(k, a)
      BY <2>1, <2>2 DEF Older, Sample
    <3> QED
      BY <3>1
  <2>3. CASE a # MaxAge
    <3>1. a + 1 \in 0 .. MaxAge
      BY <2>3 DEF MaxAge
    <3>2. \A k \in 1 .. 3 : Older(samples)[k] = Sample(k, a + 1)
      BY <2>1, <2>3 DEF Older, Sample
    <3> QED
      BY <3>1, <3>2
  <2> QED
    BY <2>2, <2>3
<1> QED
  BY <1>1, <1>2

\* A conversion keeps what the scan has written.
LEMMA ScanConvert == AdcStands /\ Convert => ScanStands'
<1> SUFFICES ASSUME AdcStands, Convert PROVE ScanStands'
  OBVIOUS
<1> DEFINE b == IF nextChannel = 1 THEN Older(samples) ELSE samples
<1>1. /\ nextChannel \in 1 .. 3 /\ stage \in {"up", "failed"} /\ dmaEnded \in BOOLEAN
      /\ UNCHANGED <<adcChip, stage, scanList>> /\ scanList = Programmed[adcChip]
      /\ Len(Scanned) = 3 /\ Scanned = Programmed[adcChip] /\ ~Continuous
      /\ DOMAIN samples = 1 .. 3 /\ adcChip \in {"g071", "f051", "l431"}
  BY ScanOfSequence, SequenceOfThree
     DEF Convert, AdcStands, ScanStands, ListStands, StartStands, initVars, Continuous
<1>2. nextChannel' = IF nextChannel < 3 THEN nextChannel + 1 ELSE 0
  BY <1>1 DEF Convert
<1>3. DOMAIN b = 1 .. 3 /\ (nextChannel # 1 => b = samples)
  BY <1>1, WholeAges
<1>4. \A k, a : Sample(k, a)' = Sample(k, a)
  BY <1>1 DEF Sample
<1>5. CASE dmaEnded
  <2>1. samples' = b /\ dmaEnded' /\ (DmaGoesOn' <=> DmaGoesOn)
    BY <1>1, <1>5 DEF Convert, DmaGoesOn
  <2>2. PICK a \in 0 .. MaxAge : WholeScan(a)
    BY <1>5 DEF AdcStands, ScanStands, KeepStands
  <2>3. \E c \in 0 .. MaxAge : \A k \in 1 .. 3 : b[k] = Sample(k, c)
    <3>1. CASE nextChannel = 1
      BY <1>1, <2>2, <3>1, WholeAges
    <3>2. CASE nextChannel # 1
      BY <1>3, <2>2, <3>2 DEF WholeScan
    <3> QED
      BY <3>1, <3>2
  <2> HIDE DEF b
  <2>4. \E c \in 0 .. MaxAge : WholeScan(c)'
    BY <1>4, <2>1, <2>3 DEF WholeScan
  <2>5. ListStands'
    BY <1>1, <1>2, <1>3, <2>1 DEF ListStands
  <2>6. KeepStands'
    BY <1>5, <2>1, <2>4 DEF KeepStands, AdcStands, ScanStands
  <2> QED
    BY <2>1, <2>5, <2>6 DEF ScanStands, FillStands
<1>6. CASE ~dmaEnded
  <2>1. /\ dmaSlot = nextChannel
        /\ dmaSlot' = IF nextChannel = 3 THEN 1 ELSE nextChannel + 1
        /\ dmaEnded' = (nextChannel = 3 /\ ~DmaGoesOn)
    BY <1>1, <1>6 DEF Convert, AdcStands, ScanStands, FillStands
  <2>2. samples' = [b EXCEPT ![nextChannel] = Sample(nextChannel, 0)]
    BY <1>1, <1>6, <2>1 DEF Convert, Sample
  <2> HIDE DEF b
  <2>3. /\ DOMAIN samples' = 1 .. 3
        /\ samples'[nextChannel] = Sample(nextChannel, 0)
        /\ \A k \in 1 .. 3 : k # nextChannel => samples'[k] = b[k]
    BY <1>1, <1>3, <2>2
  <2>4. nextChannel = 1 => samples'[1] = Sample(1, 0)
    BY <2>3
  <2>5. nextChannel = 2 => samples'[1] = Sample(1, 0) /\ samples'[2] = Sample(2, 0)
    BY <1>3, <1>6, <2>3 DEF AdcStands, ScanStands, FillStands
  <2>6. nextChannel = 3 => \A k \in 1 .. 3 : samples'[k] = Sample(k, 0)
    <3>1. nextChannel = 3 => /\ samples'[1] = Sample(1, 0)
                             /\ samples'[2] = Sample(2, 0)
                             /\ samples'[3] = Sample(3, 0)
      BY <1>3, <1>6, <2>3 DEF AdcStands, ScanStands, FillStands
    <3> QED
      BY <3>1
  <2>7. ListStands'
    BY <1>1, <1>2, <2>1, <2>3 DEF ListStands
  <2>8. nextChannel = 3 => WholeScan(0)'
    BY <1>4, <2>6 DEF WholeScan
  <2>9. FillStands'
    BY <1>1, <1>2, <1>4, <2>1, <2>4, <2>5, <2>8 DEF FillStands
  <2>10. KeepStands'
    <3>1. dmaEnded' => nextChannel = 3 /\ ~DmaGoesOn'
      BY <1>1, <2>1 DEF DmaGoesOn
    <3>2. 0 \in 0 .. MaxAge
      BY DEF MaxAge
    <3> QED
      BY <3>1, <3>2, <2>8 DEF KeepStands
  <2> QED
    BY <2>7, <2>9, <2>10 DEF ScanStands
<1> QED
  BY <1>1, <1>5, <1>6

\* Each step keeps what the scan has written.
LEMMA ScanNext == AdcStands /\ [AdcNext]_adcVars => ScanStands'
<1> SUFFICES ASSUME AdcStands, [AdcNext]_adcVars PROVE ScanStands'
  OBVIOUS
<1> USE DEF ListStands, FillStands, KeepStands, WholeScan, Sample, DmaGoesOn
<1>1. ASSUME Calibrate \/ Enable \/ GiveUp \/ WriteSequence \/ VerifySequence \/ Settle
               \/ ConverterOn \/ UNCHANGED adcVars
      PROVE  ScanStands'
  <2>1. UNCHANGED <<adcChip, nextChannel, dmaSlot, dmaEnded, samples>>
    BY <1>1 DEF Calibrate, Enable, GiveUp, WriteSequence, VerifySequence, Settle, ConverterOn,
                adcVars, initVars, scanVars
  <2>2. nextChannel # 0 => UNCHANGED <<stage, scanList>>
    BY <1>1 DEF Calibrate, Enable, GiveUp, WriteSequence, VerifySequence, Settle, ConverterOn,
                adcVars, initVars, scanVars, AdcStands, ScanStands
  <2> QED
    BY <2>1, <2>2 DEF AdcStands, ScanStands
<1>2. ASSUME Measurements PROVE ScanStands'
  <2>1. UNCHANGED <<adcChip, stage, scanList, dmaSlot, dmaEnded, samples>> /\ nextChannel = 0
    BY <1>2 DEF Measurements, initVars, Continuous, AdcStands, StartStands
  <2>2. nextChannel' = 0 \/ (nextChannel' = 1 /\ stage \in {"up", "failed"} /\ scanList = Programmed[adcChip])
    BY <1>2, <2>1, ScanOfSequence DEF Measurements
  <2> QED
    BY <2>1, <2>2 DEF AdcStands, ScanStands
<1> QED
  BY <1>1, <1>2, ScanConvert DEF AdcNext

\* What a service reads is nothing yet, or one whole scan.
LEMMA ReadsOneScan ==
  ASSUME AdcStands, Measurements
  PROVE  \/ readings' = [q \in Quantities |-> Unread]
         \/ \E a \in 0 .. MaxAge :
              /\ \A q \in Quantities : readings'[q] = Sample(Place[q], a)
              /\ DmaGoesOn => a = 0
<1>1. nextChannel = 0 /\ readings' = [q \in Quantities |-> samples[Place[q]]]
  BY DEF Measurements, Continuous, AdcStands, StartStands
<1>2. \A q \in Quantities : Place[q] \in 1 .. 3
  BY DEF Quantities, Place
<1>3. \A a : WholeScan(a) => \A q \in Quantities : readings'[q] = Sample(Place[q], a)
  BY <1>1, <1>2 DEF WholeScan
<1>4. 0 \in 0 .. MaxAge
  BY DEF MaxAge
<1>5. CASE \A k \in 1 .. 3 : samples[k] = Unread
  BY <1>1, <1>2, <1>5
<1>6. CASE ~dmaEnded /\ WholeScan(0)
  BY <1>3, <1>4, <1>6
<1>7. CASE dmaEnded
  BY <1>3, <1>7 DEF AdcStands, ScanStands, KeepStands
<1> QED
  BY <1>1, <1>5, <1>6, <1>7 DEF AdcStands, ScanStands, ListStands, FillStands

\* On the chips whose converter scans once per service the start-up and the buffer
\* stand as above, whatever part of the start-up times out: the sequence in effect is the
\* driver's, and the buffer holds samples of one scan, the last one while the DMA goes on.
THEOREM AdcInvariant ==
  ASSUME "g431" \notin AdcChips
  PROVE  AdcSpec => []AdcStands
<1>1. AdcInit => AdcStands
  BY AdcStandsInit
<1>2. AdcStands /\ [AdcNext]_adcVars => AdcStands'
  BY StartNext, ScanNext DEF AdcStands
<1> QED
  BY <1>1, <1>2, PTL DEF AdcSpec

\* On the G071 and the L431 a reading is never another quantity than chip.rs names and
\* never of two scans; on the L431 it is the newest.  (The other two are the lemma
\* SequenceDisagrees and the run adc_order.)
THEOREM ReadingsOwnPins ==
  ASSUME AdcChips \subseteq {"g071", "l431"}
  PROVE  AdcSpec => ReadingsMeanWhatTheySay
<1>1. AdcSpec => []AdcStands
  BY AdcInvariant
<1>2. AdcStands /\ [AdcNext]_adcVars =>
        [Measurements =>
           \/ readings' = [q \in Quantities |-> Unread]
           \/ \E a \in 0 .. MaxAge :
                /\ \A q \in Quantities : readings'[q] = [channel |-> Wired[adcChip][q], age |-> a]
                /\ DmaGoesOn => a = 0]_adcVars
  <2> SUFFICES ASSUME AdcStands, Measurements
               PROVE  \/ readings' = [q \in Quantities |-> Unread]
                      \/ \E a \in 0 .. MaxAge :
                           /\ \A q \in Quantities :
                                readings'[q] = [channel |-> Wired[adcChip][q], age |-> a]
                           /\ DmaGoesOn => a = 0
    OBVIOUS
  <2>1. \A q \in Quantities : Programmed[adcChip][Place[q]] = Wired[adcChip][q]
    BY SequenceAgrees DEF AdcStands, StartStands
  <2>2. \A q \in Quantities, a \in 0 .. MaxAge :
          Sample(Place[q], a) = [channel |-> Wired[adcChip][q], age |-> a]
    BY <2>1 DEF Sample
  <2> QED
    BY <2>2, ReadsOneScan
<1> QED
  BY <1>1, <1>2, PTL DEF AdcSpec, ReadingsMeanWhatTheySay

------------------------------------------------------------------------------
(* The start of the chips: a program that is cut into drivers, each of     *)
(* which needs some clocks on and leaves some on.                          *)

Blocks == {"gpioA", "gpioB", "tim1", "tim2", "tim6", "tim7", "com", "comp", "syscfg", "capture",
           "dma", "dmamux", "adc", "uart", "exti", "flash", "iwdg", "pwr"}

Awaited == {"pll", "flash", "switch", "pwr", "hsi", "calibration", "adc", "mode", "sequence",
            "transmitter", "receiver", "watchdog", "oscillator"}

StartSteps ==
  [does : {"clock", "write"}, blocks : SUBSET Blocks] \cup [does : {"oscillate"}]
    \cup [does : {"wait"}, for : Awaited, bounded : BOOLEAN, skips : Nat]

\* Block b is on before step i of program p, of the blocks S or by an earlier step.
OnBefore(p, S, i, b) ==
  b \in S \/ \E j \in 1 .. i - 1 : p[j].does = "clock" /\ b \in p[j].blocks

\* Step i of p finds its clocks, and skips none that is not on.
FindsClocks(c, p, S, i) ==
  /\ p[i].does = "write" => \A b \in p[i].blocks : OnBefore(p, S, i, FeedOf(c, b))
  /\ p[i].does = "wait" /\ p[i].bounded =>
       /\ i + p[i].skips <= Len(p)
       /\ \A j \in i + 1 .. i + p[i].skips :
            p[j].does = "clock" => \A b \in p[j].blocks : OnBefore(p, S, i, b)

\* Program p runs on chip c from the blocks S, and all of T is on at its end.
RunsFrom(c, p, S, T) ==
  /\ p \in Seq(StartSteps)
  /\ \A i \in 1 .. Len(p) : FindsClocks(c, p, S, i)
  /\ \A b \in T : OnBefore(p, S, Len(p) + 1, b)

\* A part that turns no clock on and may be skipped.
KeepsOn(c, p, S) == RunsFrom(c, p, S, S) /\ \A j \in 1 .. Len(p) : p[j].does # "clock"

\* What is on in a program is on in one that it begins, and what a second part finds
\* it finds after the first.
LEMMA OnInConcat ==
  ASSUME NEW p \in Seq(StartSteps), NEW q \in Seq(StartSteps), NEW S, NEW T,
         \A b \in T : OnBefore(p, S, Len(p) + 1, b)
  PROVE  /\ \A i \in 1 .. Len(p) + 1 : \A b : OnBefore(p, S, i, b) => OnBefore(p \o q, S, i, b)
         /\ \A i \in 1 .. Len(q) + 1 : \A b : OnBefore(q, T, i, b) => OnBefore(p \o q, S, Len(p) + i, b)
<1> DEFINE r == p \o q
<1>1. /\ Len(p) \in Nat /\ Len(q) \in Nat /\ Len(r) = Len(p) + Len(q)
      /\ \A i \in 1 .. Len(p) : r[i] = p[i]
      /\ \A i \in 1 .. Len(q) : r[Len(p) + i] = q[i]
  BY ConcatProperties
<1> HIDE DEF r
<1>2. ASSUME NEW i \in 1 .. Len(p) + 1, NEW b, OnBefore(p, S, i, b) PROVE OnBefore(r, S, i, b)
  BY <1>1, <1>2 DEF OnBefore
<1>3. ASSUME NEW i \in 1 .. Len(q) + 1, NEW b, OnBefore(q, T, i, b)
      PROVE  OnBefore(r, S, Len(p) + i, b)
  <2>1. CASE b \in T
    <3>1. OnBefore(p, S, Len(p) + 1, b)
      BY <2>1
    <3> QED
      BY <3>1, <1>1 DEF OnBefore
  <2>2. CASE \E j \in 1 .. i - 1 : q[j].does = "clock" /\ b \in q[j].blocks
    <3>1. PICK j \in 1 .. i - 1 : q[j].does = "clock" /\ b \in q[j].blocks
      BY <2>2
    <3>2. Len(p) + j \in 1 .. Len(p) + i - 1 /\ r[Len(p) + j] = q[j]
      BY <3>1, <1>1
    <3> QED
      BY <3>1, <3>2 DEF OnBefore
  <2> QED
    BY <1>3, <2>1, <2>2 DEF OnBefore
<1> QED
  BY <1>2, <1>3 DEF r

\* Two parts run one after the other.
LEMMA RunsOn ==
  ASSUME NEW c, NEW p, NEW q, NEW S, NEW T, NEW U, RunsFrom(c, p, S, T), RunsFrom(c, q, T, U)
  PROVE  RunsFrom(c, p \o q, S, U)
<1> DEFINE r == p \o q
<1>1. p \in Seq(StartSteps) /\ q \in Seq(StartSteps)
  BY DEF RunsFrom
<1>2. /\ r \in Seq(StartSteps) /\ Len(p) \in Nat /\ Len(q) \in Nat /\ Len(r) = Len(p) + Len(q)
      /\ \A i \in 1 .. Len(p) : r[i] = p[i]
      /\ \A i \in 1 .. Len(q) : r[Len(p) + i] = q[i]
  BY <1>1, ConcatProperties
<1>3. /\ \A i \in 1 .. Len(p) + 1 : \A b : OnBefore(p, S, i, b) => OnBefore(r, S, i, b)
      /\ \A i \in 1 .. Len(q) + 1 : \A b : OnBefore(q, T, i, b) => OnBefore(r, S, Len(p) + i, b)
  BY <1>1, OnInConcat DEF RunsFrom
<1>4. /\ \A i \in 1 .. Len(p) : p[i] \in StartSteps
      /\ \A i \in 1 .. Len(q) : q[i] \in StartSteps
  BY <1>1
<1> HIDE DEF r
<1>5. ASSUME NEW i \in 1 .. Len(p) PROVE FindsClocks(c, r, S, i)
  <2>1. FindsClocks(c, p, S, i)
    BY DEF RunsFrom
  <2>2. ASSUME p[i].does = "wait", p[i].bounded
        PROVE  /\ i + p[i].skips <= Len(p)
               /\ \A j \in i + 1 .. i + p[i].skips : j \in 1 .. Len(p)
    <3>1. p[i].skips \in Nat
      BY <2>2, <1>4 DEF StartSteps
    <3> QED
      BY <2>1, <2>2, <3>1, <1>2 DEF FindsClocks
  <2>3. r[i] = p[i] /\ i \in 1 .. Len(p) + 1
    BY <1>2
  <2>4. r[i].does = "write" => \A b \in r[i].blocks : OnBefore(r, S, i, FeedOf(c, b))
    BY <2>1, <2>3, <1>3 DEF FindsClocks
  <2>5. ASSUME r[i].does = "wait", r[i].bounded
        PROVE  /\ i + r[i].skips <= Len(r)
               /\ \A j \in i + 1 .. i + r[i].skips :
                    r[j].does = "clock" => \A b \in r[j].blocks : OnBefore(r, S, i, b)
    <3>1. p[i].skips \in Nat /\ i + p[i].skips <= Len(r)
      BY <2>2, <2>3, <2>5, <1>2, <1>4 DEF StartSteps
    <3>2. \A j \in i + 1 .. i + p[i].skips : r[j] = p[j]
      BY <2>2, <2>3, <2>5, <1>2
    <3> QED
      BY <2>1, <2>3, <2>5, <3>1, <3>2, <1>3 DEF FindsClocks
  <2> QED
    BY <2>4, <2>5 DEF FindsClocks
<1>6. ASSUME NEW i \in 1 .. Len(q) PROVE FindsClocks(c, r, S, Len(p) + i)
  <2>1. FindsClocks(c, q, T, i)
    BY DEF RunsFrom
  <2>2. r[Len(p) + i] = q[i] /\ i \in 1 .. Len(q) + 1
    BY <1>2
  <2>3. ASSUME q[i].does = "write", NEW b \in q[i].blocks PROVE OnBefore(r, S, Len(p) + i, FeedOf(c, b))
    BY <2>1, <2>2, <2>3, <1>3 DEF FindsClocks
  <2>4. ASSUME q[i].does = "wait", q[i].bounded
        PROVE  /\ Len(p) + i + q[i].skips <= Len(r)
               /\ \A j \in Len(p) + i + 1 .. Len(p) + i + q[i].skips :
                    r[j].does = "clock" => \A b \in r[j].blocks : OnBefore(r, S, Len(p) + i, b)
    <3>1. q[i].skips \in Nat
      BY <2>4, <1>4 DEF StartSteps
    <3>2. i + q[i].skips <= Len(q)
      BY <2>1, <2>4 DEF FindsClocks
    <3>3. ASSUME NEW j \in Len(p) + i + 1 .. Len(p) + i + q[i].skips, r[j].does = "clock",
                 NEW b \in r[j].blocks
          PROVE  OnBefore(r, S, Len(p) + i, b)
      <4> DEFINE k == j - Len(p)
                 n == q[i].skips
      <4> n \in Nat /\ i + n <= Len(q) /\ j \in Len(p) + i + 1 .. Len(p) + i + n
        BY <3>1, <3>2
      <4> HIDE DEF n
      <4>1. k \in i + 1 .. i + n /\ k \in 1 .. Len(q) /\ j = Len(p) + k
        BY <1>2
      <4> HIDE DEF k
      <4>2. r[j] = q[k]
        BY <4>1, <1>2
      <4>3. OnBefore(q, T, i, b)
        BY <2>1, <2>4, <4>1, <4>2, <3>3 DEF FindsClocks, n
      <4> QED
        BY <4>3, <2>2, <1>3
    <3> QED
      BY <3>1, <3>2, <3>3, <1>2
  <2> QED
    BY <2>2, <2>3, <2>4 DEF FindsClocks
<1>7. \A i \in 1 .. Len(r) : FindsClocks(c, r, S, i)
  <2> SUFFICES ASSUME NEW i \in 1 .. Len(r), ~(i \in 1 .. Len(p)) PROVE FindsClocks(c, r, S, i)
    BY <1>5
  <2>1. i - Len(p) \in 1 .. Len(q) /\ Len(p) + (i - Len(p)) = i
    BY <1>2
  <2> QED
    BY <2>1, <1>6
<1>8. \A b \in U : OnBefore(r, S, Len(r) + 1, b)
  <2> SUFFICES ASSUME NEW b \in U PROVE OnBefore(r, S, Len(r) + 1, b)
    OBVIOUS
  <2>1. OnBefore(q, T, Len(q) + 1, b)
    BY DEF RunsFrom
  <2>2. Len(q) + 1 \in 1 .. Len(q) + 1 /\ Len(p) + (Len(q) + 1) = Len(r) + 1
    BY <1>2
  <2> QED
    BY <2>1, <2>2, <1>3
<1> QED
  BY <1>2, <1>7, <1>8 DEF RunsFrom, r

LEMMA ClockRuns ==
  ASSUME NEW c, NEW S \in SUBSET Blocks, NEW B \in SUBSET Blocks
  PROVE  RunsFrom(c, Clock(B), S, S \cup B)
BY DEF RunsFrom, Clock, StartSteps, FindsClocks, OnBefore

\* A write that finds its clocks turns none on.
LEMMA TouchRuns ==
  ASSUME NEW c, NEW S, NEW B \in SUBSET Blocks, \A b \in B : FeedOf(c, b) \in S
  PROVE  RunsFrom(c, Touch(B), S, S) /\ KeepsOn(c, Touch(B), S)
BY DEF RunsFrom, KeepsOn, Touch, StartSteps, FindsClocks, OnBefore

LEMMA OscillateRuns ==
  ASSUME NEW c, NEW S
  PROVE  RunsFrom(c, Oscillate, S, S)
BY DEF RunsFrom, Oscillate, StartSteps, FindsClocks, OnBefore

LEMMA WaitRuns ==
  ASSUME NEW c, NEW S, NEW b \in Awaited
  PROVE  RunsFrom(c, WaitFor(b), S, S)
BY DEF RunsFrom, WaitFor, StartSteps, FindsClocks, OnBefore

\* A bounded wait may skip what turns on no more than is on.
LEMMA TryRuns ==
  ASSUME NEW c, NEW S, NEW b \in Awaited, NEW rest, KeepsOn(c, rest, S)
  PROVE  KeepsOn(c, Try(b, rest), S)
<1> DEFINE w == [does |-> "wait", for |-> b, bounded |-> TRUE, skips |-> Len(rest)]
           t == <<w>> \o rest
<1>1. rest \in Seq(StartSteps) /\ \A j \in 1 .. Len(rest) : rest[j].does # "clock"
  BY DEF RunsFrom, KeepsOn
<1>2. w \in StartSteps /\ Len(rest) \in Nat
  BY <1>1 DEF StartSteps
<1>3. /\ t \in Seq(StartSteps) /\ Len(t) = Len(rest) + 1
      /\ t[1] = w /\ \A i \in 1 .. Len(rest) : t[1 + i] = rest[i]
  BY <1>1, <1>2, ConcatProperties
<1>4. w.does = "wait" /\ w.bounded /\ w.skips = Len(rest)
  OBVIOUS
<1> HIDE DEF w, t
<1>5. \A j \in 2 .. Len(t) : j - 1 \in 1 .. Len(rest) /\ t[j] = rest[j - 1]
  BY <1>2, <1>3
<1>6. \A j \in 1 .. Len(t) : t[j].does # "clock"
  <2>1. ASSUME NEW j \in 2 .. Len(t) PROVE t[j].does # "clock"
    BY <1>1, <1>5
  <2>2. t[1].does # "clock"
    BY <1>3, <1>4
  <2> QED
    BY <2>1, <2>2, <1>2, <1>3
<1>7. FindsClocks(c, t, S, 1)
  BY <1>2, <1>3, <1>4, <1>6 DEF FindsClocks
<1>8. ASSUME NEW i \in 2 .. Len(t) PROVE FindsClocks(c, t, S, i)
  <2>1. FindsClocks(c, rest, S, i - 1)
    BY <1>5 DEF RunsFrom, KeepsOn
  <2>2. \A x : OnBefore(rest, S, i - 1, x) => OnBefore(t, S, i, x)
    <3>1. ASSUME NEW j \in 1 .. (i - 1) - 1 PROVE j + 1 \in 1 .. i - 1 /\ t[j + 1] = rest[j]
      BY <1>2, <1>3, <1>5
    <3> QED
      BY <3>1 DEF OnBefore
  <2>3. rest[i - 1].does = "wait" => rest[i - 1].skips \in Nat
    <3>1. rest[i - 1] \in StartSteps
      BY <1>1, <1>5
    <3> QED
      BY <3>1 DEF StartSteps
  <2>4. ASSUME t[i].does = "wait", t[i].bounded
        PROVE  /\ i + t[i].skips <= Len(t)
               /\ \A j \in i + 1 .. i + t[i].skips : j \in 1 .. Len(t)
    BY <2>1, <2>3, <2>4, <1>2, <1>3, <1>5 DEF FindsClocks
  <2> QED
    BY <2>1, <2>2, <2>4, <1>5, <1>6 DEF FindsClocks
<1>9. \A b2 \in S : OnBefore(t, S, Len(t) + 1, b2)
  BY DEF OnBefore
<1>10. RunsFrom(c, t, S, S)
  BY <1>2, <1>3, <1>7, <1>8, <1>9 DEF RunsFrom
<1>11. Try(b, rest) = t
  BY DEF Try, t, w
<1> QED
  BY <1>6, <1>10, <1>11 DEF KeepsOn

LEMMA NothingKeeps ==
  ASSUME NEW c, NEW S
  PROVE  KeepsOn(c, <<>>, S)
BY DEF KeepsOn, RunsFrom, OnBefore

\* Two parts that may be skipped may be skipped together.
LEMMA BothKeep ==
  ASSUME NEW c, NEW S, NEW p, NEW q, KeepsOn(c, p, S), KeepsOn(c, q, S)
  PROVE  KeepsOn(c, p \o q, S)
<1>1. p \in Seq(StartSteps) /\ q \in Seq(StartSteps) /\ RunsFrom(c, p \o q, S, S)
  BY RunsOn DEF KeepsOn, RunsFrom
<1>2. ASSUME NEW j \in 1 .. Len(p \o q) PROVE (p \o q)[j].does # "clock"
  <2>1. Len(p) \in Nat /\ Len(q) \in Nat /\ Len(p \o q) = Len(p) + Len(q)
        /\ (p \o q)[j] = IF j <= Len(p) THEN p[j] ELSE q[j - Len(p)]
    BY <1>1, ConcatProperties
  <2>2. CASE j <= Len(p)
    BY <2>1, <2>2 DEF KeepsOn
  <2>3. CASE j > Len(p)
    <3>1. j - Len(p) \in 1 .. Len(q) /\ (p \o q)[j] = q[j - Len(p)]
      BY <2>1, <2>3
    <3> QED
      BY <3>1 DEF KeepsOn
  <2> QED
    BY <2>1, <2>2, <2>3
<1> QED
  BY <1>1, <1>2 DEF KeepsOn

\* The drivers that all chips share, from any blocks that hold what they touch.
LEMMA SharedRun ==
  ASSUME NEW c, NEW S \in SUBSET Blocks
  PROVE  /\ RunsFrom(c, IntervalStart, S, S \cup {"tim2"})
         /\ RunsFrom(c, ComTimerStart, S, S \cup {"com"})
         /\ {"capture", "dma"} \subseteq S => RunsFrom(c, Capturing, S, S)
         /\ Gpio \cup {"tim1"} \subseteq S => RunsFrom(c, StartTune, S, S)
         /\ RunsFrom(c, UartClocks, S, S \cup {"uart", "gpioB", "dma"})
<1>1. RunsFrom(c, Clock({"tim2"}), S, S \cup {"tim2"})
      /\ RunsFrom(c, Clock({"com"}), S, S \cup {"com"})
      /\ RunsFrom(c, Clock({"uart", "gpioB", "dma"}), S, S \cup {"uart", "gpioB", "dma"})
  BY ClockRuns DEF Blocks
<1>2. RunsFrom(c, Touch({"tim2"}), S \cup {"tim2"}, S \cup {"tim2"})
  BY TouchRuns DEF FeedOf, Blocks
<1>3. RunsFrom(c, Touch({"com"}), S \cup {"com"}, S \cup {"com"})
  BY TouchRuns DEF FeedOf, Blocks
<1>4. RunsFrom(c, Touch({"gpioB", "uart"}), S \cup {"uart", "gpioB", "dma"}, S \cup {"uart", "gpioB", "dma"})
  BY TouchRuns DEF FeedOf, Blocks
<1>5. {"capture", "dma"} \subseteq S => RunsFrom(c, Touch({"capture", "dma"}), S, S)
  BY TouchRuns DEF FeedOf, Blocks
<1>6. Gpio \cup {"tim1"} \subseteq S => RunsFrom(c, Touch(Gpio \cup {"tim1"}), S, S)
  BY TouchRuns DEF FeedOf, Blocks, Gpio
<1>7. RunsFrom(c, IntervalStart, S, S \cup {"tim2"})
  BY <1>1, <1>2, RunsOn DEF IntervalStart
<1>8. RunsFrom(c, ComTimerStart, S, S \cup {"com"})
  BY <1>1, <1>3, RunsOn DEF ComTimerStart
<1>9. RunsFrom(c, UartClocks, S, S \cup {"uart", "gpioB", "dma"})
  BY <1>1, <1>4, RunsOn DEF UartClocks
<1> QED
  BY <1>5, <1>6, <1>7, <1>8, <1>9 DEF Capturing, StartTune

\* The calibration of the converter and what follows it may be skipped.
LEMMA AdcRest ==
  ASSUME NEW c, NEW S, "adc" \in S
  PROVE  KeepsOn(c, Try("calibration", Touch({"adc"}) \o Try("adc", ScanList(c))), S)
<1>1. KeepsOn(c, Touch({"adc"}), S)
  BY TouchRuns DEF FeedOf, Blocks
<1>2. KeepsOn(c, Try("sequence", <<>>), S)
  BY NothingKeeps, TryRuns DEF Awaited
<1>3. KeepsOn(c, Try("mode", Touch({"adc"}) \o Try("sequence", <<>>)), S)
  BY <1>1, <1>2, BothKeep, TryRuns DEF Awaited
<1>4. KeepsOn(c, ScanList(c), S)
  BY <1>1, <1>3, NothingKeeps, BothKeep DEF ScanList
<1>5. KeepsOn(c, Try("adc", ScanList(c)), S)
  BY <1>4, TryRuns DEF Awaited
<1>6. KeepsOn(c, Touch({"adc"}) \o Try("adc", ScanList(c)), S)
  BY <1>1, <1>5, BothKeep
<1> QED
  BY <1>6, TryRuns DEF Awaited

LEMMA G071Starts == RunsFrom("g071", Program("g071"), AlwaysOn, {})
<1> DEFINE c  == "g071"
           S0 == AlwaysOn
           S1 == S0 \cup Gpio
           S2 == S1 \cup {"tim1"}
           S3 == S2 \cup {"syscfg"}
           S4 == S3 \cup {"tim2"}
           S5 == S4 \cup {"com"}
           S6 == S5 \cup {"capture", "dma", "gpioB"}
           S7 == S6 \cup {"adc", "dma"}
           S8 == S7 \cup {"uart", "gpioB", "dma"}
           S9 == S8 \cup {"tim6"}
<1>1. RunsFrom(c, G071Clocks, S0, S2)
  <2>1. RunsFrom(c, WaitFor("pll"), S0, S0)
    BY WaitRuns DEF Awaited
  <2>2. RunsFrom(c, Touch({"flash"}), S0, S0)
    BY TouchRuns DEF FeedOf, Blocks, AlwaysOn
  <2>3. RunsFrom(c, Clock(Gpio), S0, S1)
    BY ClockRuns DEF AlwaysOn, Gpio, Blocks
  <2>4. RunsFrom(c, Clock({"tim1"}), S1, S2)
    BY ClockRuns DEF AlwaysOn, Gpio, Blocks
  <2>5. RunsFrom(c, Touch({"tim1"} \cup Gpio), S2, S2)
    BY TouchRuns DEF FeedOf, Blocks, AlwaysOn, Gpio
  <2> HIDE DEF S0, S1, S2
  <2> QED
    BY <2>1, <2>2, <2>3, <2>4, <2>5, RunsOn DEF G071Clocks
<1>2. RunsFrom(c, G071Comparator, S2, S3)
  <2>1. RunsFrom(c, Clock({"syscfg"}), S2, S3)
    BY ClockRuns DEF AlwaysOn, Gpio, Blocks
  <2>2. RunsFrom(c, Touch(Gpio \cup {"comp", "exti"}), S3, S3)
    BY TouchRuns DEF FeedOf, Blocks, AlwaysOn, Gpio
  <2> HIDE DEF S2, S3
  <2> QED
    BY <2>1, <2>2, RunsOn DEF G071Comparator
<1>3. RunsFrom(c, IntervalStart, S3, S4) /\ RunsFrom(c, ComTimerStart, S4, S5)
  BY SharedRun DEF AlwaysOn, Gpio, Blocks
<1>4. RunsFrom(c, G071Capture \o Capturing, S5, S6)
  <2>1. RunsFrom(c, Clock({"capture", "dma", "gpioB"}), S5, S6)
    BY ClockRuns DEF AlwaysOn, Gpio, Blocks
  <2>2. RunsFrom(c, Touch({"gpioB", "dmamux"}), S6, S6)
    BY TouchRuns DEF FeedOf, Blocks
  <2>3. RunsFrom(c, Capturing, S6, S6)
    BY SharedRun DEF AlwaysOn, Gpio, Blocks
  <2> HIDE DEF S5, S6
  <2> QED
    BY <2>1, <2>2, <2>3, RunsOn DEF G071Capture
<1>5. RunsFrom(c, AdcStart(c), S6, S7)
  <2>1. RunsFrom(c, Clock({"adc", "dma"}), S6, S7)
    BY ClockRuns DEF AlwaysOn, Gpio, Blocks
  <2>2. RunsFrom(c, Touch({"gpioA", "adc", "dma", "dmamux"}), S7, S7)
    BY TouchRuns DEF FeedOf, Blocks, Gpio
  <2>3. KeepsOn(c, Try("calibration", Touch({"adc"}) \o Try("adc", ScanList(c))), S7)
    BY AdcRest
  <2>4. AdcStart(c) = Clock({"adc", "dma"}) \o Touch({"gpioA", "adc", "dma", "dmamux"})
                        \o Try("calibration", Touch({"adc"}) \o Try("adc", ScanList(c)))
    BY DEF AdcStart, G071Adc
  <2> HIDE DEF S6, S7
  <2> QED
    BY <2>1, <2>2, <2>3, <2>4, RunsOn DEF KeepsOn
<1>6. RunsFrom(c, G071Uart, S7, S8)
  <2>1. RunsFrom(c, UartClocks, S7, S8)
    BY SharedRun DEF AlwaysOn, Gpio, Blocks
  <2>2. KeepsOn(c, Touch({"dma", "dmamux"}), S8)
    BY TouchRuns DEF FeedOf, Blocks
  <2>3. KeepsOn(c, Try("transmitter", Try("receiver", Touch({"dma", "dmamux"}))), S8)
    BY <2>2, TryRuns DEF Awaited
  <2> HIDE DEF S7, S8
  <2> QED
    BY <2>1, <2>3, RunsOn DEF KeepsOn, G071Uart
<1>7. RunsFrom(c, G071Tick, S8, S9)
  <2>1. RunsFrom(c, Clock({"tim6"}), S8, S9)
    BY ClockRuns DEF AlwaysOn, Gpio, Blocks
  <2>2. RunsFrom(c, Touch({"tim6", "exti"}), S9, S9)
    BY TouchRuns DEF FeedOf, Blocks, AlwaysOn
  <2> HIDE DEF S8, S9
  <2> QED
    BY <2>1, <2>2, RunsOn DEF G071Tick
<1>8. RunsFrom(c, G071Watchdog, S9, S9)
  <2>1. RunsFrom(c, Touch({"iwdg"}), S9, S9)
    BY TouchRuns DEF FeedOf, Blocks, AlwaysOn
  <2>2. KeepsOn(c, Try("watchdog", <<>>), S9)
    BY NothingKeeps, TryRuns DEF Awaited
  <2>3. RunsFrom(c, Oscillate, S9, S9)
    BY OscillateRuns
  <2> HIDE DEF S9
  <2> QED
    BY <2>1, <2>2, <2>3, RunsOn DEF KeepsOn, G071Watchdog
<1>9. RunsFrom(c, StartTune, S9, S9) /\ RunsFrom(c, Capturing, S9, S9)
  BY SharedRun DEF AlwaysOn, Gpio, Blocks
<1>10. Program(c) = G071Clocks \o G071Comparator \o IntervalStart \o ComTimerStart
                      \o (G071Capture \o Capturing) \o AdcStart(c) \o G071Uart \o G071Tick
                      \o StartTune \o G071Watchdog \o Capturing
  BY DEF Program, ClockTree, ComparatorStart, CaptureStart, UartStart, TickStart, WatchdogStart
<1>11. RunsFrom(c, Program(c), S0, S9)
  <2> HIDE DEF S0, S1, S2, S3, S4, S5, S6, S7, S8, S9
  <2> QED
    BY <1>1, <1>2, <1>3, <1>4, <1>5, <1>6, <1>7, <1>8, <1>9, <1>10, RunsOn
<1> QED
  BY <1>11 DEF RunsFrom

LEMMA F051Starts == RunsFrom("f051", Program("f051"), AlwaysOn, {})
<1> DEFINE c  == "f051"
           S0 == AlwaysOn
           S1 == S0 \cup Gpio
           S2 == S1 \cup {"tim1"}
           S3 == S2 \cup {"syscfg"}
           S4 == S3 \cup {"tim2"}
           S5 == S4 \cup {"com"}
           S6 == S5 \cup {"capture", "dma", "gpioA"}
           S7 == S6 \cup {"adc", "dma"}
           S8 == S7 \cup {"uart", "gpioB", "dma"}
           S9 == S8 \cup {"tim6"}
<1>1. RunsFrom(c, F051Clocks, S0, S2)
  <2>1. RunsFrom(c, WaitFor("pll"), S0, S0)
    BY WaitRuns DEF Awaited
  <2>2. RunsFrom(c, Clock(Gpio), S0, S1)
    BY ClockRuns DEF AlwaysOn, Gpio, Blocks
  <2>3. RunsFrom(c, Clock({"tim1"}), S1, S2)
    BY ClockRuns DEF AlwaysOn, Gpio, Blocks
  <2>4. RunsFrom(c, Touch({"gpioA", "tim1"}), S2, S2)
    BY TouchRuns DEF FeedOf, Blocks, AlwaysOn, Gpio
  <2> HIDE DEF S0, S1, S2
  <2> QED
    BY <2>1, <2>2, <2>3, <2>4, RunsOn DEF F051Clocks
<1>2. RunsFrom(c, F051Comparator, S2, S3)
  <2>1. RunsFrom(c, Touch({"gpioA"}), S2, S2)
    BY TouchRuns DEF FeedOf, Blocks, Gpio
  <2>2. RunsFrom(c, Clock({"syscfg"}), S2, S3)
    BY ClockRuns DEF AlwaysOn, Gpio, Blocks
  <2>3. RunsFrom(c, Touch({"comp", "exti"}), S3, S3)
    BY TouchRuns DEF FeedOf, Blocks, AlwaysOn, Gpio
  <2> HIDE DEF S2, S3
  <2> QED
    BY <2>1, <2>2, <2>3, RunsOn DEF F051Comparator
<1>3. RunsFrom(c, IntervalStart, S3, S4) /\ RunsFrom(c, ComTimerStart, S4, S5)
  BY SharedRun DEF AlwaysOn, Gpio, Blocks
<1>4. RunsFrom(c, F051Capture \o Capturing, S5, S6)
  <2>1. RunsFrom(c, Clock({"capture", "dma", "gpioA"}), S5, S6)
    BY ClockRuns DEF AlwaysOn, Gpio, Blocks
  <2>2. RunsFrom(c, Touch({"gpioA"}), S6, S6)
    BY TouchRuns DEF FeedOf, Blocks
  <2>3. RunsFrom(c, Capturing, S6, S6)
    BY SharedRun DEF AlwaysOn, Gpio, Blocks
  <2> HIDE DEF S5, S6
  <2> QED
    BY <2>1, <2>2, <2>3, RunsOn DEF F051Capture
<1>5. RunsFrom(c, AdcStart(c), S6, S7)
  <2>1. RunsFrom(c, Clock({"adc", "dma"}), S6, S7)
    BY ClockRuns DEF AlwaysOn, Gpio, Blocks
  <2>2. RunsFrom(c, Touch({"gpioA", "adc", "dma"}), S7, S7)
    BY TouchRuns DEF FeedOf, Blocks, Gpio
  <2>3. KeepsOn(c, Try("calibration", Touch({"adc"}) \o Try("adc", ScanList(c))), S7)
    BY AdcRest
  <2>4. AdcStart(c) = Clock({"adc", "dma"}) \o Touch({"gpioA", "adc", "dma"})
                        \o Try("calibration", Touch({"adc"}) \o Try("adc", ScanList(c)))
    BY DEF AdcStart, F051Adc
  <2> HIDE DEF S6, S7
  <2> QED
    BY <2>1, <2>2, <2>3, <2>4, RunsOn DEF KeepsOn
<1>6. RunsFrom(c, F051Uart, S7, S8)
  <2>1. RunsFrom(c, UartClocks, S7, S8)
    BY SharedRun DEF AlwaysOn, Gpio, Blocks
  <2>2. KeepsOn(c, Touch({"dma"}), S8)
    BY TouchRuns DEF FeedOf, Blocks
  <2>3. KeepsOn(c, Try("transmitter", Try("receiver", Touch({"dma"}))), S8)
    BY <2>2, TryRuns DEF Awaited
  <2> HIDE DEF S7, S8
  <2> QED
    BY <2>1, <2>3, RunsOn DEF KeepsOn, F051Uart
<1>7. RunsFrom(c, F051Tick, S8, S9)
  <2>1. RunsFrom(c, Clock({"tim6"}), S8, S9)
    BY ClockRuns DEF AlwaysOn, Gpio, Blocks
  <2>2. RunsFrom(c, Touch({"tim6", "exti"}), S9, S9)
    BY TouchRuns DEF FeedOf, Blocks, AlwaysOn
  <2> HIDE DEF S8, S9
  <2> QED
    BY <2>1, <2>2, RunsOn DEF F051Tick
<1>8. RunsFrom(c, F051Watchdog, S9, S9)
  <2>1. RunsFrom(c, Touch({"iwdg"}), S9, S9)
    BY TouchRuns DEF FeedOf, Blocks, AlwaysOn
  <2>2. RunsFrom(c, WaitFor("watchdog"), S9, S9)
    BY WaitRuns DEF Awaited
  <2>3. RunsFrom(c, Oscillate, S9, S9)
    BY OscillateRuns
  <2> HIDE DEF S9
  <2> QED
    BY <2>1, <2>2, <2>3, RunsOn DEF F051Watchdog
<1>9. RunsFrom(c, StartTune, S9, S9) /\ RunsFrom(c, Capturing, S9, S9)
  BY SharedRun DEF AlwaysOn, Gpio, Blocks
<1>10. Program(c) = F051Clocks \o F051Comparator \o IntervalStart \o ComTimerStart
                      \o (F051Capture \o Capturing) \o AdcStart(c) \o F051Uart \o F051Tick
                      \o StartTune \o F051Watchdog \o Capturing
  BY DEF Program, ClockTree, ComparatorStart, CaptureStart, UartStart, TickStart, WatchdogStart
<1>11. RunsFrom(c, Program(c), S0, S9)
  <2> HIDE DEF S0, S1, S2, S3, S4, S5, S6, S7, S8, S9
  <2> QED
    BY <1>1, <1>2, <1>3, <1>4, <1>5, <1>6, <1>7, <1>8, <1>9, <1>10, RunsOn
<1> QED
  BY <1>11 DEF RunsFrom

LEMMA L431Starts == RunsFrom("l431", Program("l431"), AlwaysOn, {})
<1> DEFINE c  == "l431"
           S0 == AlwaysOn
           SP == S0 \cup {"pwr"}
           S1 == SP \cup Gpio
           S2 == S1 \cup {"tim1"}
           S3 == S2 \cup (Gpio \cup {"syscfg"})
           S4 == S3 \cup {"tim2"}
           S5 == S4 \cup {"com"}
           S6 == S5 \cup {"capture", "dma", "gpioA"}
           S7 == S6 \cup {"adc", "dma", "gpioA"}
           S8 == S7 \cup {"uart", "gpioB", "dma"}
           S9 == S8 \cup {"tim6", "tim7"}
<1>1. RunsFrom(c, L431Clocks, S0, SP)
  <2>1. RunsFrom(c, Clock({"pwr"}), S0, SP)
    BY ClockRuns DEF AlwaysOn, Blocks
  <2>2. RunsFrom(c, Touch({"pwr"}), SP, SP) /\ RunsFrom(c, Touch({"flash"}), SP, SP)
    BY TouchRuns DEF FeedOf, Blocks, AlwaysOn
  <2>3. /\ KeepsOn(c, Try("pwr", <<>>), SP) /\ KeepsOn(c, Try("flash", <<>>), SP)
        /\ KeepsOn(c, Try("hsi", <<>>), SP) /\ KeepsOn(c, Try("switch", <<>>), SP)
    BY NothingKeeps, TryRuns DEF Awaited
  <2>4. KeepsOn(c, Try("pll", Try("switch", <<>>)), SP)
    BY <2>3, TryRuns DEF Awaited
  <2> HIDE DEF S0, SP
  <2> QED
    BY <2>1, <2>2, <2>3, <2>4, RunsOn DEF KeepsOn, L431Clocks
<1>2. RunsFrom(c, L431Bridge, SP, S2)
  <2>1. RunsFrom(c, Clock(Gpio), SP, S1)
    BY ClockRuns DEF AlwaysOn, Gpio, Blocks
  <2>2. RunsFrom(c, Clock({"tim1"}), S1, S2)
    BY ClockRuns DEF AlwaysOn, Gpio, Blocks
  <2>3. RunsFrom(c, Touch({"tim1"} \cup Gpio), S2, S2)
    BY TouchRuns DEF FeedOf, Blocks, AlwaysOn, Gpio
  <2> HIDE DEF SP, S1, S2
  <2> QED
    BY <2>1, <2>2, <2>3, RunsOn DEF L431Bridge
<1>3. RunsFrom(c, L431Comparator, S2, S3)
  <2>1. RunsFrom(c, Clock(Gpio \cup {"syscfg"}), S2, S3)
    BY ClockRuns DEF AlwaysOn, Gpio, Blocks
  <2>2. RunsFrom(c, Touch(Gpio \cup {"comp", "exti"}), S3, S3)
    BY TouchRuns DEF FeedOf, Blocks, AlwaysOn, Gpio
  <2> HIDE DEF S2, S3
  <2> QED
    BY <2>1, <2>2, RunsOn DEF L431Comparator
<1>4. RunsFrom(c, IntervalStart, S3, S4) /\ RunsFrom(c, ComTimerStart, S4, S5)
  BY SharedRun DEF AlwaysOn, Gpio, Blocks
<1>5. RunsFrom(c, L431Capture \o Capturing, S5, S6)
  <2>1. RunsFrom(c, Clock({"capture", "dma", "gpioA"}), S5, S6)
    BY ClockRuns DEF AlwaysOn, Gpio, Blocks
  <2>2. RunsFrom(c, Touch({"gpioA", "dma"}), S6, S6)
    BY TouchRuns DEF FeedOf, Blocks
  <2>3. RunsFrom(c, Capturing, S6, S6)
    BY SharedRun DEF AlwaysOn, Gpio, Blocks
  <2> HIDE DEF S5, S6
  <2> QED
    BY <2>1, <2>2, <2>3, RunsOn DEF L431Capture
<1>6. RunsFrom(c, AdcStart(c), S6, S7)
  <2>1. RunsFrom(c, Clock({"adc", "dma", "gpioA"}), S6, S7)
    BY ClockRuns DEF AlwaysOn, Gpio, Blocks
  <2>2. RunsFrom(c, Touch({"gpioA", "adc", "dma"}), S7, S7)
    BY TouchRuns DEF FeedOf, Blocks, Gpio
  <2>3. KeepsOn(c, Try("calibration", Touch({"adc"}) \o Try("adc", ScanList(c))), S7)
    BY AdcRest
  <2>4. AdcStart(c) = Clock({"adc", "dma", "gpioA"}) \o Touch({"gpioA", "adc", "dma"})
                        \o Try("calibration", Touch({"adc"}) \o Try("adc", ScanList(c)))
    BY DEF AdcStart, L431Adc
  <2> HIDE DEF S6, S7
  <2> QED
    BY <2>1, <2>2, <2>3, <2>4, RunsOn DEF KeepsOn
<1>7. RunsFrom(c, L431Uart, S7, S8)
  <2>1. RunsFrom(c, UartClocks, S7, S8)
    BY SharedRun DEF AlwaysOn, Gpio, Blocks
  <2>2. KeepsOn(c, Touch({"dma"}), S8)
    BY TouchRuns DEF FeedOf, Blocks
  <2>3. KeepsOn(c, Try("transmitter", Try("receiver", Touch({"dma"}))), S8)
    BY <2>2, TryRuns DEF Awaited
  <2> HIDE DEF S7, S8
  <2> QED
    BY <2>1, <2>3, RunsOn DEF KeepsOn, L431Uart
<1>8. RunsFrom(c, L431Tick, S8, S9)
  <2>1. RunsFrom(c, Clock({"tim6", "tim7"}), S8, S9)
    BY ClockRuns DEF AlwaysOn, Gpio, Blocks
  <2>2. RunsFrom(c, Touch({"tim6", "tim7", "exti"}), S9, S9)
    BY TouchRuns DEF FeedOf, Blocks, AlwaysOn
  <2> HIDE DEF S8, S9
  <2> QED
    BY <2>1, <2>2, RunsOn DEF L431Tick
<1>9. RunsFrom(c, L431Watchdog, S9, S9)
  <2>1. RunsFrom(c, Touch({"iwdg"}), S9, S9)
    BY TouchRuns DEF FeedOf, Blocks, AlwaysOn
  <2>2. KeepsOn(c, Try("oscillator", <<>>), S9) /\ KeepsOn(c, Try("watchdog", <<>>), S9)
    BY NothingKeeps, TryRuns DEF Awaited
  <2>3. RunsFrom(c, Oscillate, S9, S9)
    BY OscillateRuns
  <2> HIDE DEF S9
  <2> QED
    BY <2>1, <2>2, <2>3, RunsOn DEF KeepsOn, L431Watchdog
<1>10. RunsFrom(c, StartTune, S9, S9) /\ RunsFrom(c, Capturing, S9, S9)
  BY SharedRun DEF AlwaysOn, Gpio, Blocks
<1>11. Program(c) = (L431Clocks \o L431Bridge) \o L431Comparator \o IntervalStart \o ComTimerStart
                      \o (L431Capture \o Capturing) \o AdcStart(c) \o L431Uart \o L431Tick
                      \o StartTune \o L431Watchdog \o Capturing
  BY DEF Program, ClockTree, ComparatorStart, CaptureStart, UartStart, TickStart, WatchdogStart
<1>12. RunsFrom(c, Program(c), S0, S9)
  <2> HIDE DEF S0, SP, S1, S2, S3, S4, S5, S6, S7, S8, S9
  <2> QED
    BY <1>1, <1>2, <1>3, <1>4, <1>5, <1>6, <1>7, <1>8, <1>9, <1>10, <1>11, RunsOn
<1> QED
  BY <1>12 DEF RunsFrom

\* The chip stands inside its program, and what it passed, by running or by giving a
\* wait up, is on.
ClocksStand ==
  /\ startChip \in StartChips /\ AlwaysOn \subseteq clocked
  /\ startAt \in 1 .. Len(Programs[startChip]) + 1
  /\ \A j \in 1 .. startAt - 1 :
       Programs[startChip][j].does = "clock" => Programs[startChip][j].blocks \subseteq clocked

\* The three chips find their clocks.
LEMMA ProgramsRun ==
  ASSUME "g431" \notin StartChips, NEW c \in StartChips
  PROVE  Programs[c] = Program(c) /\ RunsFrom(c, Programs[c], AlwaysOn, {})
<1>1. c \in {"g071", "f051", "l431"} /\ Programs[c] = Program(c)
  BY StartAssumption DEF Programs
<1> QED
  BY <1>1, G071Starts, F051Starts, L431Starts

\* What is on before the next step of the program is clocked.
LEMMA OnIsClocked ==
  ASSUME ClocksStand, NEW b, OnBefore(Programs[startChip], AlwaysOn, startAt, b)
  PROVE  b \in clocked
BY DEF ClocksStand, OnBefore

LEMMA ClocksStandNext ==
  ASSUME "g431" \notin StartChips, ClocksStand, [ChipNext]_startVars
  PROVE  ClocksStand'
<1> DEFINE p == Programs[startChip]
<1>1. RunsFrom(startChip, p, AlwaysOn, {})
  BY ProgramsRun DEF ClocksStand
<1>2. Len(p) \in Nat /\ \A i \in 1 .. Len(p) : p[i] \in StartSteps /\ FindsClocks(startChip, p, AlwaysOn, i)
  BY <1>1 DEF RunsFrom
<1>3. CASE UNCHANGED <<startChip, startAt, clocked>>
  BY <1>3 DEF ClocksStand
<1>4. ASSUME ~Booted
      PROVE  startAt \in 1 .. Len(p) /\ Step = p[startAt]
  BY <1>2, <1>4 DEF ClocksStand, Booted, Step
<1>5. ASSUME ~Booted, UNCHANGED startChip, startAt' = startAt + 1, clocked \subseteq clocked',
             Step.does = "clock" => Step.blocks \subseteq clocked'
      PROVE  ClocksStand'
  <2>1. startAt \in 1 .. Len(p) /\ Step = p[startAt]
    BY <1>4, <1>5
  <2>2. startAt' \in 1 .. Len(p) + 1 /\ \A j \in 1 .. startAt' - 1 : j \in 1 .. startAt - 1 \/ j = startAt
    BY <2>1, <1>2, <1>5
  <2> HIDE DEF p
  <2>3. \A j \in 1 .. startAt' - 1 : p[j].does = "clock" => p[j].blocks \subseteq clocked'
    BY <2>1, <2>2, <1>5 DEF ClocksStand, p
  <2> QED
    BY <2>2, <2>3, <1>5 DEF ClocksStand, p
<1>6. CASE ClockOn
  BY <1>5, <1>6 DEF ClockOn
<1>7. CASE WriteBlocks \/ WaitEnds
  BY <1>5, <1>7 DEF WriteBlocks, WaitEnds
<1>8. CASE WaitFails
  <2>1. startAt \in 1 .. Len(p) /\ Step = p[startAt] /\ p[startAt].does = "wait" /\ p[startAt].bounded
    BY <1>4, <1>8 DEF WaitFails
  <2>2. p[startAt].skips \in Nat
    <3>1. p[startAt] \in StartSteps
      BY <2>1, <1>2
    <3> QED
      BY <2>1, <3>1 DEF StartSteps
  <2>3. /\ startAt + p[startAt].skips <= Len(p)
        /\ \A j \in startAt + 1 .. startAt + p[startAt].skips :
             p[j].does = "clock" => \A b \in p[j].blocks : OnBefore(p, AlwaysOn, startAt, b)
    BY <2>1, <1>2 DEF FindsClocks
  <2>4. startAt' = startAt + 1 + p[startAt].skips /\ UNCHANGED <<startChip, clocked>>
    BY <2>1, <1>8 DEF WaitFails
  <2>5. \A j \in startAt + 1 .. startAt + p[startAt].skips :
          p[j].does = "clock" => p[j].blocks \subseteq clocked
    BY <2>3, OnIsClocked
  <2>6. /\ startAt' \in 1 .. Len(p) + 1
        /\ \A j \in 1 .. startAt' - 1 :
             j \in 1 .. startAt - 1 \/ j = startAt \/ j \in startAt + 1 .. startAt + p[startAt].skips
    <3> DEFINE n == p[startAt].skips
               l == Len(p)
    <3> n \in Nat /\ l \in Nat /\ startAt \in 1 .. l /\ startAt + n <= l /\ startAt' = startAt + 1 + n
      BY <2>1, <2>2, <2>3, <2>4, <1>2
    <3> HIDE DEF n, l
    <3>1. startAt' \in 1 .. l + 1
      OBVIOUS
    <3>2. \A j \in 1 .. startAt' - 1 : j \in 1 .. startAt - 1 \/ j = startAt \/ j \in startAt + 1 .. startAt + n
      OBVIOUS
    <3> QED
      BY <3>1, <3>2 DEF n, l
  <2> HIDE DEF p
  <2>7. \A j \in 1 .. startAt' - 1 : p[j].does = "clock" => p[j].blocks \subseteq clocked
    BY <2>1, <2>5, <2>6 DEF ClocksStand, p
  <2> QED
    BY <2>4, <2>6, <2>7 DEF ClocksStand, p
<1> QED
  BY <1>3, <1>6, <1>7, <1>8
     DEF ChipNext, ProcessorRuns, PollsOn, HardwareReady, MainLoop, startVars

\* On the chips that clock every block they configure, no register is written while
\* its block has no clock, whichever drivers give up, in whatever combination.
THEOREM ClocksBeforeWrites ==
  ASSUME "g431" \notin StartChips
  PROVE  StartSpec => []WritesClocked
<1>1. ChipInit => ClocksStand
  <2> SUFFICES ASSUME ChipInit PROVE ClocksStand
    OBVIOUS
  <2>1. RunsFrom(startChip, Programs[startChip], AlwaysOn, {})
    BY ProgramsRun DEF ChipInit
  <2> QED
    BY <2>1 DEF ChipInit, ClocksStand, RunsFrom
<1>2. ClocksStand /\ [ChipNext]_startVars => ClocksStand'
  BY ClocksStandNext
<1>3. ClocksStand => WritesClocked
  <2> SUFFICES ASSUME ClocksStand, ~Booted, Step.does = "write", NEW b \in Step.blocks
               PROVE  FeedOf(startChip, b) \in clocked
    BY DEF WritesClocked
  <2>1. RunsFrom(startChip, Programs[startChip], AlwaysOn, {})
    BY ProgramsRun DEF ClocksStand
  <2>2. startAt \in 1 .. Len(Programs[startChip])
    BY <2>1 DEF ClocksStand, Booted, RunsFrom
  <2>3. OnBefore(Programs[startChip], AlwaysOn, startAt, FeedOf(startChip, b))
    BY <2>1, <2>2 DEF RunsFrom, FindsClocks, Step
  <2> QED
    BY <2>3, OnIsClocked
<1> QED
  BY <1>1, <1>2, <1>3, PTL DEF StartSpec

------------------------------------------------------------------------------
(* The tunes: what is heard follows the score of what was asked for. *)

NoteLengths == {10, 75, 100, 150}

\* A tune has notes, none of them silent or empty.
IsTune(tune) ==
  /\ Len(tune) \in Nat \ {0}
  /\ \A k \in 1 .. Len(tune) :
       tune[k].ms \in NoteLengths /\ tune[k].pitch \in Nat \ {0} /\ tune[k].step \in Nat

LEMMA TunesHaveNotes ==
  ASSUME NEW s \in 1 .. TONE_ARMED
  PROVE  IsTune(Tune(s))
<1>1. IsTune(DefaultTune) /\ IsTune(ChangedTune)
  BY DEF IsTune, DefaultTune, ChangedTune, Note, NoteLengths
<1>2. IsTune(InputTune2) /\ IsTune(ArmedTune)
  BY DEF IsTune, InputTune2, ArmedTune, Note, NoteLengths
<1>3. IsTune([k \in 1 .. 60 |-> BeaconNote(k - 1)])
  <2> DEFINE sweep == [k \in 1 .. 60 |-> BeaconNote(k - 1)]
  <2>1. Len(sweep) = 60
    OBVIOUS
  <2>2. ASSUME NEW k \in 1 .. 60
        PROVE  /\ sweep[k].ms = 10 /\ sweep[k].pitch = 10 + (121 - 2 * k) \div 2
               /\ sweep[k].step = (121 - 2 * k) \div 20
    <3>1. 119 - 2 * (k - 1) = 121 - 2 * k
      OBVIOUS
    <3>2. sweep[k] = Note(10 + (121 - 2 * k) \div 2, (121 - 2 * k) \div 20, 10)
      BY <3>1 DEF BeaconNote
    <3> QED
      BY <3>2 DEF Note
  <2>3. ASSUME NEW k \in 1 .. 60
        PROVE  10 + (121 - 2 * k) \div 2 \in Nat \ {0} /\ (121 - 2 * k) \div 20 \in Nat
    OBVIOUS
  <2> HIDE DEF sweep
  <2>4. ASSUME NEW k \in 1 .. 60
        PROVE  sweep[k].ms \in NoteLengths /\ sweep[k].pitch \in Nat \ {0} /\ sweep[k].step \in Nat
    <3>1. sweep[k].ms \in NoteLengths
      BY <2>2 DEF NoteLengths
    <3>2. sweep[k].pitch \in Nat \ {0} /\ sweep[k].step \in Nat
      <4> DEFINE pitch == 10 + (121 - 2 * k) \div 2
      <4> DEFINE step == (121 - 2 * k) \div 20
      <4>1. sweep[k].pitch = pitch /\ sweep[k].step = step
        BY <2>2
      <4>2. pitch \in Nat \ {0} /\ step \in Nat
        BY <2>3
      <4> HIDE DEF pitch, step
      <4> QED
        BY <4>1, <4>2
    <3> QED
      BY <3>1, <3>2
  <2>5. Len(sweep) \in Nat \ {0}
    BY <2>1
  <2>6. IsTune(sweep)
    BY <2>1, <2>4, <2>5 DEF IsTune
  <2> QED
    BY <2>6 DEF sweep
<1>4. s \in {1, 5} \/ s = 2 \/ s = 3 \/ s = 4 \/ s = TONE_ARMED
  BY DEF TONE_ARMED
<1>5. \/ Tune(s) = DefaultTune \/ Tune(s) = ChangedTune \/ Tune(s) = InputTune2
      \/ Tune(s) = ArmedTune \/ Tune(s) = [k \in 1 .. 60 |-> BeaconNote(k - 1)]
  BY <1>4 DEF Tune, TONE_ARMED
<1> QED
  BY <1>1, <1>2, <1>3, <1>5

\* The ticks of note k.
NoteTicks(s, k) == Tune(s)[k].ms * TicksPerMs

LEMMA NotesLast ==
  ASSUME NEW s \in 1 .. TONE_ARMED
  PROVE  \A k \in 1 .. Len(Tune(s)) : NoteTicks(s, k) \in Nat \ {0}
<1> SUFFICES ASSUME NEW k \in 1 .. Len(Tune(s)) PROVE NoteTicks(s, k) \in Nat \ {0}
  OBVIOUS
<1>1. PICK ms \in NoteLengths : ms = Tune(s)[k].ms
  BY TunesHaveNotes DEF IsTune
<1>2. ms = 10 \/ ms = 75 \/ ms = 100 \/ ms = 150
  BY DEF NoteLengths
<1>3. ms * TicksPerMs \in Nat \ {0}
  BY <1>2, ToneAssumption DEF ToneAssumption
<1> QED
  BY <1>1, <1>3 DEF NoteTicks

\* The end of note k, from the ends of those before.
EndStep(s, f, k) == IF k = 0 THEN 0 ELSE f[k - 1] + NoteTicks(s, k)

LEMMA SomeEnds ==
  ASSUME NEW s \in 1 .. TONE_ARMED
  PROVE  \E f \in [0 .. Len(Tune(s)) -> Nat] : \A i \in 0 .. Len(Tune(s)) : f[i] = EndStep(s, f, i)
<1> DEFINE n == Len(Tune(s))
<1> DEFINE Fits(f, k) == \A i \in 0 .. n : i <= k => f[i] = EndStep(s, f, i)
<1> DEFINE T == {k \in Nat : \E f \in [0 .. n -> Nat] : Fits(f, k)}
<1>n. n \in Nat \ {0}
  BY TunesHaveNotes DEF IsTune
<1>t. \A k \in 1 .. n : NoteTicks(s, k) \in Nat
  BY NotesLast
<1> HIDE DEF n
<1>1. 0 \in T
  <2> DEFINE f == [i \in 0 .. n |-> 0]
  <2>1. f \in [0 .. n -> Nat] /\ Fits(f, 0)
    BY DEF EndStep
  <2> QED
    BY <2>1
<1>2. ASSUME NEW k \in 0 .. n - 1, k \in T PROVE k + 1 \in T
  <2>1. PICK f \in [0 .. n -> Nat] : Fits(f, k)
    BY <1>2
  <2> DEFINE last == f[k] + NoteTicks(s, k + 1)
  <2> DEFINE g == [f EXCEPT ![k + 1] = last]
  <2>2. k \in 0 .. n /\ k + 1 \in 1 .. n
    BY <1>n
  <2>3. last \in Nat
    <3>1. PICK a \in Nat : a = NoteTicks(s, k + 1)
      BY <2>2, <1>t
    <3>2. PICK b \in Nat : b = f[k]
      BY <2>2
    <3> QED
      BY <3>1, <3>2
  <2>4. g \in [0 .. n -> Nat] /\ (\A i \in 0 .. n : i <= k => g[i] = f[i]) /\ g[k + 1] = last
    <3> HIDE DEF last
    <3> QED
      BY <2>2, <2>3
  <2> HIDE DEF g
  <2>5. ASSUME NEW i \in 0 .. n, i <= k PROVE g[i] = EndStep(s, g, i)
    <3>1. f[i] = EndStep(s, f, i) /\ g[i] = f[i]
      BY <2>1, <2>4, <2>5
    <3>2. i > 0 => i - 1 \in 0 .. n /\ i - 1 <= k
      BY <2>5, <1>n
    <3>3. i > 0 => g[i - 1] = f[i - 1]
      BY <3>2, <2>4
    <3> QED
      BY <3>1, <3>3 DEF EndStep
  <2>6. g[k + 1] = EndStep(s, g, k + 1)
    <3>1. k + 1 # 0 /\ k + 1 - 1 = k /\ g[k] = f[k]
      BY <2>2, <2>4
    <3> QED
      BY <3>1, <2>4 DEF EndStep
  <2>7. \A i \in 0 .. n : i <= k + 1 => i <= k \/ i = k + 1
    BY <2>2
  <2>8. Fits(g, k + 1)
    BY <2>5, <2>6, <2>7
  <2>9. k + 1 \in Nat
    BY <1>n
  <2> QED
    BY <2>4, <2>8, <2>9
<1>3. n \in T
  <2> HIDE DEF T
  <2>1. 0 .. n \subseteq T
    BY <1>1, <1>2, <1>n, Counting
  <2> QED
    BY <2>1, <1>n
<1>4. PICK f \in [0 .. n -> Nat] : Fits(f, n)
  BY <1>3
<1>5. \A i \in 0 .. n : f[i] = EndStep(s, f, i)
  BY <1>4, <1>n
<1> QED
  BY <1>4, <1>5 DEF n

\* Each note of a tune ends its own ticks after the one before.
LEMMA NotesEnd ==
  ASSUME NEW s \in 1 .. TONE_ARMED
  PROVE  /\ NoteEnds[s][0] = 0
         /\ \A k \in 0 .. Len(Tune(s)) : NoteEnds[s][k] \in Nat
         /\ \A k \in 1 .. Len(Tune(s)) : NoteEnds[s][k] = NoteEnds[s][k - 1] + NoteTicks(s, k)
<1> DEFINE n == Len(Tune(s))
<1>n. n \in Nat \ {0}
  BY TunesHaveNotes DEF IsTune
<1> DEFINE ends == CHOOSE f : f = [i \in 0 .. n |-> EndStep(s, f, i)]
<1>1. \A k \in 0 .. n : NoteEnds[s][k] = ends[k]
  BY DEF NoteEnds, NoteEnd, EndStep, NoteTicks
<1>2. PICK g \in [0 .. n -> Nat] : \A i \in 0 .. n : g[i] = EndStep(s, g, i)
  BY SomeEnds
<1>3. g = [i \in 0 .. n |-> EndStep(s, g, i)]
  <2> HIDE DEF n
  <2> QED
    BY <1>2
<1>4. ends = [i \in 0 .. n |-> EndStep(s, ends, i)]
  <2> HIDE DEF n
  <2> QED
    BY <1>3
<1> HIDE DEF n, ends
<1>5. \A i \in 0 .. n : ends[i] = EndStep(s, ends, i)
  BY <1>4, Zenon
<1>6. 0 \in 0 .. n /\ \A k \in 1 .. n : k \in 0 .. n /\ k # 0
  BY <1>n
<1>7. NoteEnds[s][0] = 0 /\ \A k \in 1 .. n : NoteEnds[s][k] = NoteEnds[s][k - 1] + NoteTicks(s, k)
  <2>1. ends[0] = 0 /\ \A k \in 1 .. n : ends[k] = ends[k - 1] + NoteTicks(s, k)
    BY <1>5, <1>6 DEF EndStep
  <2>2. \A k \in 1 .. n : k - 1 \in 0 .. n
    BY <1>n
  <2> QED
    BY <1>1, <1>6, <2>1, <2>2
<1>8. \A k \in 0 .. n : NoteEnds[s][k] \in Nat
  <2> DEFINE T == {k \in Nat : NoteEnds[s][k] \in Nat}
  <2>1. 0 \in T
    BY <1>7
  <2>2. ASSUME NEW k \in 0 .. n - 1, k \in T PROVE k + 1 \in T
    <3>1. k + 1 \in 1 .. n /\ k + 1 - 1 = k
      BY <1>n
    <3>2. PICK a \in Nat : a = NoteTicks(s, k + 1)
      BY <3>1, NotesLast DEF n
    <3>3. PICK b \in Nat : b = NoteEnds[s][k]
      BY <2>2
    <3>4. NoteEnds[s][k + 1] = b + a
      BY <3>1, <3>2, <3>3, <1>7
    <3> QED
      BY <3>1, <3>4
  <2>3. 0 .. n \subseteq T
    <3> HIDE DEF T
    <3> QED
      BY <2>1, <2>2, <1>n, Counting
  <2> QED
    BY <2>3
<1> QED
  BY <1>7, <1>8 DEF n

\* The sound of a note: the volume and the PWM mode are not the score's.
SoundsNote(tone, note) ==
  \E volume, mode :
    tone = [pitch |-> note.pitch, step |-> note.step, volume |-> volume, mode |-> mode]

\* The rounds begun before this one, and where a note or a pause stands in its round.
RoundsDone(request, left) == Rounds(request) - left

InNote ==
  /\ noteIndex \in 0 .. Len(Tune(sequence)) - 1
  /\ ticksLeft \in 1 .. NoteTicks(sequence, noteIndex + 1)
  /\ elapsed = RoundStart(begun.request, RoundsDone(begun.request, repeatsLeft))
                 + NoteEnds[sequence][noteIndex + 1] - ticksLeft
  /\ SoundsNote(sound, Tune(sequence)[noteIndex + 1])

InPause ==
  /\ ticksLeft \in 1 .. PauseTicks
  /\ repeatsLeft < Rounds(begun.request)
  /\ elapsed = RoundStart(begun.request, RoundsDone(begun.request, repeatsLeft) - 1)
                 + RoundTicks(sequence) + PauseTicks - ticksLeft
  /\ sound = Mute

\* A tune in progress is that of its request, at the place its counters say.
ScoreStands ==
  /\ toneRequest \in Requests \cup {NoRequest}
  /\ playing \in BOOLEAN /\ gap \in BOOLEAN
  /\ ~playing => sound = Mute
  /\ playing =>
       /\ begun.request \in Requests /\ sequence = begun.request.sequence
       /\ repeatsLeft \in 1 .. Rounds(begun.request)
       /\ ~gap => InNote
       /\ gap => InPause

\* A request is for a tune; only the arming tune has more than one round.
LEMMA RequestsAsk ==
  ASSUME NEW request \in Requests
  PROVE  /\ request.sequence \in 1 .. TONE_ARMED
         /\ Rounds(request) \in Nat \ {0}
         /\ Rounds(request) > 1 => request.sequence = TONE_ARMED /\ Rounds(request) = request.repeats
         /\ Rounds(request) = IF request.sequence = TONE_ARMED /\ request.repeats > 1
                              THEN request.repeats ELSE 1
         /\ request # NoRequest
<1>1. CASE request \in {[sequence |-> s, repeats |-> 0] : s \in Beacons}
  BY <1>1, ToneAssumption DEF ToneAssumption, Rounds, TONE_ARMED, NoRequest
<1>2. CASE request \in {[sequence |-> TONE_ARMED, repeats |-> IF n = 0 THEN 1 ELSE n] : n \in CellCounts}
  <2>1. PICK n \in CellCounts : request = [sequence |-> TONE_ARMED, repeats |-> IF n = 0 THEN 1 ELSE n]
    BY <1>2
  <2>2. n \in Nat
    BY ToneAssumption DEF ToneAssumption
  <2> QED
    BY <2>1, <2>2 DEF Rounds, TONE_ARMED, NoRequest
<1> QED
  BY <1>1, <1>2 DEF Requests

\* The rounds of a score follow each other with a pause between.
LEMMA RoundsFollow ==
  ASSUME NEW request \in Requests
  PROVE  /\ RoundTicks(request.sequence) \in Nat /\ PauseTicks \in Nat \ {0}
         /\ RoundStart(request, 0) = 0
         /\ \A n \in Nat :
              /\ RoundStart(request, n) \in Nat
              /\ RoundStart(request, n + 1)
                   = RoundStart(request, n) + RoundTicks(request.sequence) + PauseTicks
<1>1. RoundTicks(request.sequence) \in Nat
  <2>1. Len(Tune(request.sequence)) \in Nat
    BY RequestsAsk, TunesHaveNotes DEF IsTune
  <2> QED
    BY <2>1, RequestsAsk, NotesEnd DEF RoundTicks
<1>2. PauseTicks \in Nat \ {0}
  BY ToneAssumption DEF ToneAssumption, PauseTicks
<1>3. ASSUME NEW n \in Nat, NEW a \in Nat
      PROVE  0 * a = 0 /\ n * a \in Nat /\ (n + 1) * a = n * a + a
  OBVIOUS
<1> DEFINE both == RoundTicks(request.sequence) + PauseTicks
<1>4. both \in Nat
  BY <1>1, <1>2
<1> HIDE DEF both
<1>5. \A n : RoundStart(request, n) = n * both
  BY DEF RoundStart, both
<1>6. \A n \in Nat : /\ RoundStart(request, n) \in Nat
                     /\ RoundStart(request, n + 1) = RoundStart(request, n) + both
  BY <1>3, <1>4, <1>5
<1>7. RoundStart(request, 0) = 0
  BY <1>3, <1>4, <1>5
<1>8. \A n \in Nat : RoundStart(request, n + 1)
                       = RoundStart(request, n) + RoundTicks(request.sequence) + PauseTicks
  <2> SUFFICES ASSUME NEW n \in Nat
               PROVE  RoundStart(request, n + 1)
                        = RoundStart(request, n) + RoundTicks(request.sequence) + PauseTicks
    OBVIOUS
  <2>1. RoundStart(request, n) \in Nat /\ RoundStart(request, n + 1) = RoundStart(request, n) + both
    BY <1>6
  <2>2. both = RoundTicks(request.sequence) + PauseTicks
    BY DEF both
  <2> QED
    BY <2>1, <2>2, <1>1, <1>2
<1> QED
  BY <1>1, <1>2, <1>6, <1>7, <1>8

\* The counters stand at a place of the score.
LEMMA StandsInScore ==
  ASSUME ScoreStands, playing
  PROVE  ScoreHas(begun.request, elapsed, sound)
<1> DEFINE request == begun.request
<1> DEFINE n == RoundsDone(request, repeatsLeft)
<1>1. /\ request \in Requests /\ sequence = request.sequence
      /\ repeatsLeft \in 1 .. Rounds(request) /\ Rounds(request) \in Nat \ {0}
  BY RequestsAsk DEF ScoreStands
<1>2. n \in 0 .. Rounds(request) - 1 /\ n \in Nat
  BY <1>1 DEF RoundsDone
<1>3. sequence \in 1 .. TONE_ARMED
  BY <1>1, RequestsAsk
<1> HIDE DEF n, request
<1>4. CASE ~gap
  <2>1. InNote
    BY <1>4 DEF ScoreStands
  <2> DEFINE k == noteIndex + 1
  <2>2. k \in 1 .. Len(Tune(sequence)) /\ Len(Tune(sequence)) \in Nat
    BY <2>1, <1>3, TunesHaveNotes DEF InNote, IsTune
  <2>3. PICK before \in Nat : before = NoteEnds[sequence][k - 1]
    <3>1. k - 1 \in 0 .. Len(Tune(sequence))
      BY <2>2
    <3> QED
      BY <3>1, <1>3, NotesEnd
  <2>4. PICK ticks \in Nat : ticks = NoteTicks(sequence, k)
    BY <2>2, <1>3, NotesLast
  <2>5. NoteEnds[sequence][k] = before + ticks
    BY <2>2, <2>3, <2>4, <1>3, NotesEnd
  <2>6. PICK start \in Nat : start = RoundStart(request, n)
    BY <1>1, <1>2, RoundsFollow
  <2>7. ticksLeft \in 1 .. ticks /\ elapsed = start + (before + ticks) - ticksLeft
    BY <2>1, <2>4, <2>5, <2>6 DEF InNote, n, request
  <2>8. before <= elapsed - start /\ elapsed - start < before + ticks
    BY <2>7
  <2>9. sound.pitch = Tune(sequence)[k].pitch /\ sound.step = Tune(sequence)[k].step
    BY <2>1 DEF InNote, SoundsNote
  <2> HIDE DEF k
  <2>10. ScoreHas(request, elapsed, sound)
    BY <1>1, <1>2, <2>2, <2>3, <2>5, <2>6, <2>8, <2>9 DEF ScoreHas
  <2> QED
    BY <2>10 DEF request
<1>5. CASE gap
  <2>1. InPause
    BY <1>5 DEF ScoreStands
  <2>2. n - 1 \in 0 .. Rounds(request) - 1 /\ n - 1 \in Nat /\ n - 1 + 1 < Rounds(request)
    BY <2>1, <1>1 DEF InPause, n, request, RoundsDone
  <2>3. PICK start \in Nat : start = RoundStart(request, n - 1)
    BY <1>1, <2>2, RoundsFollow
  <2>4. PICK round \in Nat : round = RoundTicks(request.sequence)
    BY <1>1, RoundsFollow
  <2>5. PICK pause \in Nat : pause = PauseTicks
    BY <1>1, RoundsFollow
  <2>6. ticksLeft \in 1 .. pause /\ elapsed = start + round + pause - ticksLeft /\ sound = Mute
    BY <2>1, <2>3, <2>4, <2>5, <1>1 DEF InPause, n, request
  <2>7. round <= elapsed - start /\ elapsed - start < round + pause
    BY <2>6
  <2>8. ScoreHas(request, elapsed, sound)
    BY <2>2, <2>3, <2>4, <2>5, <2>6, <2>7 DEF ScoreHas
  <2> QED
    BY <2>8 DEF request
<1> QED
  BY <1>4, <1>5 DEF ScoreStands

\* The score's place is kept while its variables are.
LEMMA StillStands ==
  ASSUME ScoreStands, UNCHANGED <<schedulerVars, sound, elapsed, begun>>,
         toneRequest' \in Requests \cup {NoRequest}
  PROVE  ScoreStands'
BY DEF ScoreStands, schedulerVars, InNote, InPause

\* A note begins: the scheduler stands at its first tick.
LEMMA NoteBegins ==
  ASSUME NEW request \in Requests, NEW index, HasNote(request.sequence, index), index \in Nat,
         BeginNote(request.sequence, index), begun'.request = request,
         repeatsLeft' \in 1 .. Rounds(request),
         NEW start \in Nat, start = RoundStart(request, RoundsDone(request, repeatsLeft')),
         elapsed' = start + NoteEnds[request.sequence][index],
         toneRequest' \in Requests \cup {NoRequest}
  PROVE  ScoreStands' /\ playing'
<1> DEFINE s == request.sequence
<1>1. s \in 1 .. TONE_ARMED
  BY RequestsAsk
<1>2. /\ sequence' = s /\ noteIndex' = index /\ gap' = FALSE /\ playing' = TRUE
      /\ ticksLeft' = NoteTicks(s, index + 1)
      /\ sound' = Sounding(s, index, beepVolume, beepMode)
  BY DEF BeginNote, NoteTicks
<1> HIDE DEF s
<1>3. Len(Tune(s)) \in Nat /\ index \in 0 .. Len(Tune(s)) - 1 /\ index + 1 \in 1 .. Len(Tune(s))
  <2>1. Len(Tune(s)) \in Nat
    BY <1>1, TunesHaveNotes DEF IsTune
  <2>2. index < Len(Tune(s))
    BY DEF HasNote, s
  <2> QED
    BY <2>1, <2>2
<1>4. PICK ticks \in Nat \ {0} : ticks = NoteTicks(s, index + 1)
  BY <1>1, <1>3, NotesLast
<1>5. PICK before \in Nat : before = NoteEnds[s][index]
  BY <1>1, <1>3, NotesEnd
<1>6. NoteEnds[s][index + 1] = before + ticks
  <2>1. index + 1 - 1 = index
    OBVIOUS
  <2> QED
    BY <1>1, <1>3, <1>4, <1>5, <2>1, NotesEnd
<1>7. elapsed' = start + (before + ticks) - ticks
  BY <1>5 DEF s
<1>8. SoundsNote(sound', Tune(s)[index + 1])
  BY <1>2 DEF Sounding, SoundsNote
<1>9. InNote'
  <2>1. ticks \in 1 .. ticks
    OBVIOUS
  <2>2. elapsed' = RoundStart(begun'.request, RoundsDone(begun'.request, repeatsLeft'))
                     + NoteEnds[s][index + 1] - ticksLeft'
    BY <1>2, <1>4, <1>6, <1>7
  <2> QED
    BY <1>2, <1>3, <1>4, <1>8, <2>1, <2>2 DEF InNote
<1> QED
  BY <1>2, <1>9 DEF ScoreStands, s

\* Past the end nothing is played.
LEMMA NoteMissing ==
  ASSUME NEW s, NEW index, ~HasNote(s, index), BeginNote(s, index),
         toneRequest' \in Requests \cup {NoRequest}
  PROVE  ScoreStands' /\ ~playing' /\ sound' = Mute
BY DEF BeginNote, ScoreStands

\* Taking the bridge ends the tune.
LEMMA YieldStands ==
  ASSUME ScoreStands, Yield, toneRequest' \in Requests \cup {NoRequest}
  PROVE  ScoreStands' /\ ~playing' /\ sound' = Mute
BY DEF ScoreStands, Yield

\* An idle scheduler begins the first note of the tune asked for.
LEMMA BeginTuneStands ==
  ASSUME ScoreStands, BeginTune, toneRequest' \in Requests \cup {NoRequest}
  PROVE  ScoreStands' /\ ~playing
<1>1. CASE toneRequest.sequence = 0
  BY <1>1, StillStands DEF BeginTune
<1>2. CASE toneRequest.sequence # 0
  <2> DEFINE request == toneRequest
  <2>1. request \in Requests
    BY <1>2 DEF ScoreStands, NoRequest
  <2>2. /\ ~playing /\ BeginNote(request.sequence, 0) /\ elapsed' = 0 /\ begun'.request = request
        /\ repeatsLeft' = IF request.sequence = TONE_ARMED /\ request.repeats > 1
                          THEN request.repeats ELSE 1
    BY <1>2 DEF BeginTune
  <2>3. repeatsLeft' = Rounds(request) /\ Rounds(request) \in Nat \ {0} /\ request.sequence \in 1 .. TONE_ARMED
    BY <2>1, <2>2, RequestsAsk
  <2>4. HasNote(request.sequence, 0)
    BY <2>3, TunesHaveNotes DEF HasNote, IsTune
  <2>5. repeatsLeft' \in 1 .. Rounds(request) /\ RoundsDone(request, repeatsLeft') = 0
    BY <2>3 DEF RoundsDone
  <2>6. RoundStart(request, 0) = 0 /\ NoteEnds[request.sequence][0] = 0
    BY <2>1, <2>3, RoundsFollow, NotesEnd
  <2>7. elapsed' = 0 + NoteEnds[request.sequence][0]
    BY <2>2, <2>6
  <2> HIDE DEF request
  <2>8. ScoreStands'
    BY <2>1, <2>2, <2>4, <2>5, <2>6, <2>7, 0 \in Nat, NoteBegins
  <2> QED
    BY <2>2, <2>8
<1> QED
  BY <1>1, <1>2

\* A tick of a note or a pause that goes on.
LEMMA HoldNoteStands ==
  ASSUME ScoreStands, HoldNote, toneRequest' \in Requests \cup {NoRequest}
  PROVE  ScoreStands' /\ playing' /\ begun' = begun
<1>1. /\ playing /\ ~(ticksLeft <= 1)
      /\ ticksLeft' = ticksLeft - 1 /\ elapsed' = elapsed + 1
      /\ playing' = playing /\ sequence' = sequence /\ noteIndex' = noteIndex
      /\ repeatsLeft' = repeatsLeft /\ gap' = gap /\ begun' = begun
  BY DEF HoldNote, NoteOver
<1>2. /\ begun.request \in Requests /\ sequence = begun.request.sequence
      /\ repeatsLeft \in 1 .. Rounds(begun.request) /\ playing
  BY DEF ScoreStands, HoldNote
<1>3. CASE ~gap
  <2>1. InNote
    BY <1>2, <1>3 DEF ScoreStands
  <2>2. sequence \in 1 .. TONE_ARMED /\ Rounds(begun.request) \in Nat
    BY <1>2, RequestsAsk
  <2>3. noteIndex + 1 \in 1 .. Len(Tune(sequence))
    BY <2>1, <2>2, TunesHaveNotes DEF InNote, IsTune
  <2>4. PICK start \in Nat : start = RoundStart(begun.request, RoundsDone(begun.request, repeatsLeft))
    <3>1. RoundsDone(begun.request, repeatsLeft) \in Nat
      BY <1>2, <2>2 DEF RoundsDone
    <3> QED
      BY <3>1, <1>2, RoundsFollow
  <2>5. PICK end \in Nat : end = NoteEnds[sequence][noteIndex + 1]
    <3>1. noteIndex + 1 \in 0 .. Len(Tune(sequence))
      BY <2>3
    <3> QED
      BY <3>1, <2>2, NotesEnd
  <2>6. PICK ticks \in Nat : ticks = NoteTicks(sequence, noteIndex + 1)
    BY <2>2, <2>3, NotesLast
  <2>7. ticksLeft \in 1 .. ticks /\ elapsed = start + end - ticksLeft
    BY <2>1, <2>4, <2>5, <2>6 DEF InNote
  <2>8. ticksLeft' \in 1 .. ticks /\ elapsed' = start + end - ticksLeft'
    BY <1>1, <2>7
  <2>9. SoundsNote(sound', Tune(sequence)[noteIndex + 1])
    <3> DEFINE note == Tune(sequence)[noteIndex + 1]
    <3>1. PICK volume, mode :
            sound = [pitch |-> note.pitch, step |-> note.step, volume |-> volume, mode |-> mode]
      BY <2>1 DEF InNote, SoundsNote
    <3>2. note.pitch \in Nat \ {0}
      BY <2>2, <2>3, TunesHaveNotes DEF IsTune
    <3>3. sound.pitch # 0
      BY <3>1, <3>2
    <3>4. sound # Mute
      BY <3>3 DEF Mute
    <3>5. sound' = [sound EXCEPT !.mode = beepMode]
      BY <3>4 DEF HoldNote
    <3> HIDE DEF note
    <3>6. sound' = [pitch |-> note.pitch, step |-> note.step, volume |-> volume, mode |-> beepMode]
      BY <3>1, <3>5
    <3> QED
      BY <3>6 DEF SoundsNote, note
  <2>10. InNote'
    BY <1>1, <2>1, <2>4, <2>5, <2>6, <2>8, <2>9 DEF InNote
  <2> QED
    BY <1>1, <1>2, <1>3, <2>10 DEF ScoreStands
<1>4. CASE gap
  <2>1. InPause
    BY <1>2, <1>4 DEF ScoreStands
  <2>2. Rounds(begun.request) \in Nat /\ repeatsLeft < Rounds(begun.request)
    BY <1>2, <2>1, RequestsAsk DEF InPause
  <2>3. PICK start \in Nat : start = RoundStart(begun.request, RoundsDone(begun.request, repeatsLeft) - 1)
    <3>1. RoundsDone(begun.request, repeatsLeft) - 1 \in Nat
      BY <1>2, <2>2 DEF RoundsDone
    <3> QED
      BY <3>1, <1>2, RoundsFollow
  <2>4. PICK round \in Nat : round = RoundTicks(sequence)
    BY <1>2, RoundsFollow
  <2>5. PICK pause \in Nat : pause = PauseTicks
    BY <1>2, RoundsFollow
  <2>6. ticksLeft \in 1 .. pause /\ elapsed = start + round + pause - ticksLeft
    BY <2>1, <2>3, <2>4, <2>5 DEF InPause
  <2>7. ticksLeft' \in 1 .. pause /\ elapsed' = start + round + pause - ticksLeft'
    BY <1>1, <2>6
  <2>8. sound' = Mute
    BY <2>1 DEF InPause, HoldNote
  <2>9. InPause'
    BY <1>1, <2>2, <2>3, <2>4, <2>5, <2>7, <2>8 DEF InPause
  <2> QED
    BY <1>1, <1>2, <1>4, <2>9 DEF ScoreStands
<1> QED
  BY <1>3, <1>4 DEF ScoreStands

\* The last tick of a note or a pause: the next note, the pause, another round or the end.
LEMMA NextNoteStands ==
  ASSUME ScoreStands, NextNote, toneRequest' \in Requests \cup {NoRequest}
  PROVE  /\ ScoreStands' /\ playing /\ begun' = begun
         /\ ~playing' => sound' = Mute /\ elapsed' = ScoreEnd(begun.request)
<1> DEFINE request == begun.request
<1>1. /\ playing /\ ticksLeft <= 1 /\ elapsed' = elapsed + 1 /\ begun' = begun
      /\ request \in Requests /\ sequence = request.sequence /\ repeatsLeft \in 1 .. Rounds(request)
      /\ gap \in BOOLEAN
  BY DEF ScoreStands, NextNote, NoteOver
<1>2. Rounds(request) \in Nat \ {0} /\ sequence \in 1 .. TONE_ARMED
  BY <1>1, RequestsAsk
<1>3. PICK round \in Nat : round = RoundTicks(sequence)
  BY <1>1, RoundsFollow
<1>4. PICK pause \in Nat \ {0} : pause = PauseTicks
  BY <1>1, RoundsFollow
<1>5. Len(Tune(sequence)) \in Nat \ {0}
  BY <1>2, TunesHaveNotes DEF IsTune
<1> HIDE DEF request
<1>6. CASE gap
  <2>1. InPause
    BY <1>1, <1>6 DEF ScoreStands
  <2>2. BeginNote(sequence, 0) /\ repeatsLeft' = repeatsLeft
    BY <1>6 DEF NextNote
  <2>3. repeatsLeft < Rounds(request) /\ ticksLeft \in 1 .. PauseTicks
    BY <2>1 DEF InPause, request
  <2>4. RoundsDone(request, repeatsLeft) - 1 \in Nat /\ RoundsDone(request, repeatsLeft) \in Nat
    BY <1>1, <1>2, <2>3 DEF RoundsDone
  <2>5. PICK start \in Nat : start = RoundStart(request, RoundsDone(request, repeatsLeft) - 1)
    BY <1>1, <2>4, RoundsFollow
  <2>6. RoundStart(request, RoundsDone(request, repeatsLeft)) = start + round + pause
    <3> DEFINE m == RoundsDone(request, repeatsLeft) - 1
    <3>1. m + 1 = RoundsDone(request, repeatsLeft) /\ m \in Nat
      BY <2>4
    <3> HIDE DEF m
    <3>2. RoundStart(request, m + 1) = RoundStart(request, m) + round + pause
      BY <3>1, <1>1, <1>3, <1>4, RoundsFollow
    <3> QED
      BY <3>1, <3>2, <2>5 DEF m
  <2>7. elapsed = start + round + pause - 1
    <3>1. ticksLeft = 1
      BY <1>1, <1>4, <2>3
    <3> QED
      BY <3>1, <2>1, <2>5, <1>3, <1>4 DEF InPause, request
  <2>8. elapsed' = (start + round + pause) + NoteEnds[sequence][0]
    <3>1. NoteEnds[sequence][0] = 0
      BY <1>2, NotesEnd
    <3> QED
      BY <1>1, <2>7, <3>1
  <2>9. HasNote(sequence, 0)
    BY <1>5 DEF HasNote
  <2>10. ScoreStands' /\ playing'
    <3>1. begun'.request = request
      BY <1>1 DEF request
    <3>2. start + round + pause = RoundStart(request, RoundsDone(request, repeatsLeft'))
      BY <2>2, <2>6
    <3>3. start + round + pause \in Nat /\ 0 \in Nat
      OBVIOUS
    <3>4. repeatsLeft' \in 1 .. Rounds(request)
      BY <1>1, <2>2
    <3> QED
      BY <3>1, <3>2, <3>3, <3>4, <1>1, <2>2, <2>8, <2>9, NoteBegins
  <2> QED
    BY <1>1, <2>10
<1>7. CASE ~gap
  <2>1. InNote
    BY <1>1, <1>7 DEF ScoreStands
  <2>2. /\ noteIndex \in Nat /\ noteIndex + 1 \in 1 .. Len(Tune(sequence))
        /\ noteIndex + 1 \in 0 .. Len(Tune(sequence))
    BY <2>1, <1>5 DEF InNote
  <2>3. RoundsDone(request, repeatsLeft) \in Nat
    BY <1>1, <1>2 DEF RoundsDone
  <2>4. PICK start \in Nat : start = RoundStart(request, RoundsDone(request, repeatsLeft))
    BY <1>1, <2>3, RoundsFollow
  <2>5. PICK end \in Nat : end = NoteEnds[sequence][noteIndex + 1]
    BY <1>2, <2>2, NotesEnd
  <2>6. PICK ticks \in Nat : ticks = NoteTicks(sequence, noteIndex + 1)
    BY <1>2, <2>2, NotesLast
  <2>7. ticksLeft \in 1 .. ticks /\ elapsed = start + end - ticksLeft
    BY <2>1, <2>4, <2>5, <2>6 DEF InNote, request
  <2>8. elapsed' = start + end
    BY <1>1, <2>7
  <2>9. ~HasNote(sequence, noteIndex + 1) => noteIndex + 1 = Len(Tune(sequence)) /\ end = round
    <3>1. ~HasNote(sequence, noteIndex + 1) => noteIndex + 1 = Len(Tune(sequence))
      BY <2>2, <1>5 DEF HasNote
    <3> QED
      BY <3>1, <2>5, <1>3 DEF RoundTicks
  <2>10. CASE sequence = TONE_ARMED /\ ~HasNote(sequence, noteIndex + 1) /\ repeatsLeft > 1
    <3>1. /\ repeatsLeft' = repeatsLeft - 1 /\ gap' = TRUE /\ ticksLeft' = PauseTicks
          /\ sound' = Mute /\ playing' = playing /\ sequence' = sequence
      BY <1>7, <2>10 DEF NextNote, PauseTicks
    <3>2. repeatsLeft' \in 1 .. Rounds(request) /\ repeatsLeft' < Rounds(request)
      BY <3>1, <1>1, <1>2, <2>10
    <3>3. RoundsDone(request, repeatsLeft') - 1 = RoundsDone(request, repeatsLeft)
      BY <3>1, <1>1, <1>2 DEF RoundsDone
    <3>4. elapsed' = start + round + pause - ticksLeft' /\ ticksLeft' \in 1 .. pause
      BY <2>8, <2>9, <2>10, <3>1, <1>4
    <3>5. InPause'
      BY <3>1, <3>2, <3>3, <3>4, <2>4, <1>1, <1>3, <1>4 DEF InPause, request
    <3>6. begun'.request = request
      BY <1>1 DEF request
    <3> QED
      BY <3>1, <3>2, <3>5, <3>6, <1>1 DEF ScoreStands
  <2>11. CASE ~(sequence = TONE_ARMED /\ ~HasNote(sequence, noteIndex + 1) /\ repeatsLeft > 1)
    <3>1. BeginNote(sequence, noteIndex + 1) /\ repeatsLeft' = repeatsLeft
      BY <1>7, <2>11 DEF NextNote
    <3>2. CASE HasNote(sequence, noteIndex + 1)
      <4>1. begun'.request = request
        BY <1>1 DEF request
      <4>2. noteIndex + 1 \in Nat
        BY <2>2
      <4>3. start = RoundStart(request, RoundsDone(request, repeatsLeft'))
        BY <2>4, <3>1
      <4>4. elapsed' = start + NoteEnds[sequence][noteIndex + 1]
        BY <2>5, <2>8
      <4>5. repeatsLeft' \in 1 .. Rounds(request)
        BY <3>1, <1>1
      <4>6. ScoreStands' /\ playing'
        BY <4>1, <4>2, <4>3, <4>4, <4>5, <3>1, <3>2, <1>1, NoteBegins
      <4> QED
        BY <4>6, <1>1
    <3>3. CASE ~HasNote(sequence, noteIndex + 1)
      <4>1. ScoreStands' /\ ~playing' /\ sound' = Mute
        BY <3>1, <3>3, NoteMissing
      <4>2. repeatsLeft = 1
        <5>1. CASE sequence = TONE_ARMED
          BY <5>1, <3>3, <2>11, <1>1, <1>2
        <5>2. CASE sequence # TONE_ARMED
          BY <5>2, <1>1, <1>2, RequestsAsk
        <5> QED
          BY <5>1, <5>2
      <4>3. elapsed' = RoundStart(request, Rounds(request) - 1) + RoundTicks(sequence)
        BY <4>2, <3>3, <2>4, <2>8, <2>9, <1>3 DEF RoundsDone
      <4>4. elapsed' = ScoreEnd(begun.request)
        BY <4>3, <1>1 DEF ScoreEnd, request
      <4> QED
        BY <4>1, <4>4, <1>1
    <3> QED
      BY <3>2, <3>3
  <2> QED
    BY <2>10, <2>11
<1> QED
  BY <1>6, <1>7, <1>1

\* What one step may do to the tune.
TuneGoesOn ==
  /\ ~playing' => sound' = Mute
  /\ playing /\ ~playing' => ToneTick(TRUE) \/ elapsed' = ScoreEnd(begun.request)
  /\ playing /\ playing' => begun' = begun

LEMMA ScoreStandsNext ==
  ASSUME ScoreStands, [ToneNext]_soundVars
  PROVE  ScoreStands' /\ TuneGoesOn
<1>1. ASSUME NEW busy \in BOOLEAN, ToneTick(busy)
      PROVE  ScoreStands' /\ TuneGoesOn
  <2>1. toneRequest' \in Requests \cup {NoRequest}
    BY <1>1 DEF ToneTick
  <2>2. CASE busy
    <3>1. Yield /\ ToneTick(TRUE)
      BY <1>1, <2>2 DEF ToneTick
    <3> QED
      BY <2>1, <3>1, YieldStands DEF TuneGoesOn
  <2>3. CASE BeginTune
    <3>1. ScoreStands' /\ ~playing
      BY <2>1, <2>3, BeginTuneStands
    <3> QED
      BY <3>1 DEF TuneGoesOn, ScoreStands
  <2>4. CASE HoldNote
    BY <2>1, <2>4, HoldNoteStands DEF TuneGoesOn
  <2>5. CASE NextNote
    BY <2>1, <2>5, NextNoteStands DEF TuneGoesOn
  <2> QED
    BY <1>1, <2>2, <2>3, <2>4, <2>5 DEF ToneTick
<1>2. CASE AskTune
  <2>1. /\ UNCHANGED <<schedulerVars, sound, elapsed, begun>>
        /\ toneRequest' \in Requests \cup {NoRequest}
    BY <1>2 DEF AskTune
  <2> QED
    BY <2>1, StillStands DEF TuneGoesOn, ScoreStands, schedulerVars
<1>3. CASE ToneSettings \/ UNCHANGED soundVars
  <2>1. UNCHANGED <<schedulerVars, sound, elapsed, begun>> /\ toneRequest' = toneRequest
    BY <1>3 DEF ToneSettings, soundVars
  <2>2. toneRequest' \in Requests \cup {NoRequest}
    BY <2>1 DEF ScoreStands
  <2> QED
    BY <2>1, <2>2, StillStands DEF TuneGoesOn, ScoreStands, schedulerVars
<1> QED
  BY <1>1, <1>2, <1>3 DEF ToneNext

\* What is heard is the score's part that is due.
ScoreHeard == playing => ScoreHas(begun.request, elapsed, sound)

\* Whatever tunes are asked for, by whomever and when, for any tick rate, any number
\* of cells and any volume: the bridge plays the part of the score that is due, and
\* stops only at the score's end or for the motor.
THEOREM TunesPlayed == ToneSpec => TunesAsAsked
<1>1. ToneInit => ScoreStands
  BY DEF ToneInit, ScoreStands
<1>2. ScoreStands /\ [ToneNext]_soundVars => ScoreStands'
  BY ScoreStandsNext
<1>3. ScoreStands => ScoreHeard
  BY StandsInScore DEF ScoreHeard
<1>4. ScoreStands /\ ScoreHeard' /\ [ToneNext]_soundVars =>
        [/\ playing' => ScoreHas(begun'.request, elapsed', sound')
         /\ ~playing' => sound' = Mute
         /\ playing /\ ~playing' =>
              ToneTick(TRUE) \/ elapsed' = ScoreEnd(begun.request)
         /\ playing /\ playing' => begun' = begun]_soundVars
  <2> SUFFICES ASSUME ScoreStands, ScoreHeard', [ToneNext]_soundVars
               PROVE  (playing' => ScoreHas(begun'.request, elapsed', sound')) /\ TuneGoesOn
    BY DEF TuneGoesOn
  <2>1. TuneGoesOn
    BY ScoreStandsNext
  <2>2. playing' => ScoreHas(begun'.request, elapsed', sound')
    BY DEF ScoreHeard
  <2> QED
    BY <2>1, <2>2
<1> QED
  BY <1>1, <1>2, <1>3, <1>4, PTL DEF ToneSpec, TunesAsAsked
===============================================================================
