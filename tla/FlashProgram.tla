---------------------------- MODULE FlashProgram ----------------------------
(***************************************************************************)
(* A write of the settings page at the flash controller (flash.rs and its  *)
(* four drivers): unlock, erase, program unit by unit, lock, with a wait   *)
(* after each operation that gives up in silence.                          *)
(*                                                                         *)
(* ConfigStore takes a page as a sequence of units; here it is the order   *)
(* of register writes that makes the units arrive.  A reset may come at    *)
(* any moment and leaves the page as it is.                                *)
(***************************************************************************)
EXTENDS Naturals, Sequences

CONSTANTS
  FlashChips,     \* the chips examined
  PageBytes,      \* bytes given to write
  Contents        \* the values a byte is written with

ASSUME FlashAssumption ==
  /\ PageBytes \in Nat \ {0}
  /\ FlashChips \subseteq {"g071", "f051", "l431", "g431"}

ErasedByte == 255

VARIABLES
  controller,   \* which chip
  pageCells,    \* the page
  givenBytes,   \* the bytes of the last write
  writeAt,      \* where write stands
  cursor,       \* the byte the next unit starts at
  locked,       \* CR.LOCK
  erasing,      \* CR.PER
  programming,  \* CR.PG
  working,      \* SR.BSY: "no", "erase", or the unit being programmed
  gaveUp        \* history: a wait of this write has timed out

flashRegs == <<locked, erasing, programming, working>>
flashVars == <<controller, pageCells, givenBytes, writeAt, cursor, flashRegs, gaveUp>>

------------------------------------------------------------------------------

PageCells == 0 .. PageBytes + 7

\* The four drivers' program_impl: bytes per write, and the byte that fills the
\* last one; three write double words, the F051 half words.
G071Words == [unit |-> 8, pad |-> 0]
L431Words == [unit |-> 8, pad |-> 0]
G431Words == [unit |-> 8, pad |-> 0]
F051Words == [unit |-> 2, pad |-> 255]

Words == [g071 |-> G071Words, l431 |-> L431Words, g431 |-> G431Words, f051 |-> F051Words][controller]

\* What a page holds when the bytes have been written to it.
PageWith(bytes) ==
  [k \in PageCells |->
     IF k < PageBytes THEN bytes[k + 1]
     ELSE IF k < ((PageBytes + Words.unit - 1) \div Words.unit) * Words.unit THEN Words.pad
     ELSE ErasedByte]

FlashInit ==
  /\ controller \in FlashChips
  /\ pageCells = [k \in PageCells |-> ErasedByte]
  /\ givenBytes = <<>> /\ writeAt = "idle" /\ cursor = 0
  /\ locked = TRUE /\ erasing = FALSE /\ programming = FALSE /\ working = "no"
  /\ gaveUp = FALSE

\* wait_bsy: the operation has ended, or the loop has run out.
Waited == IF working = "no" THEN UNCHANGED gaveUp ELSE gaveUp' = TRUE

\* unlock; the page's address is a multiple of the page size, so it is erased first.
BeginWrite(value) ==
  /\ writeAt = "idle"
  /\ givenBytes' = [k \in 1 .. PageBytes |-> value] /\ cursor' = 0
  /\ gaveUp' = (working # "no") /\ locked' = FALSE /\ writeAt' = "erase"
  /\ UNCHANGED <<controller, pageCells, erasing, programming, working>>

\* erase_page_impl
StartErase ==
  /\ writeAt = "erase"
  /\ erasing' = TRUE /\ working' = "erase" /\ writeAt' = "erasing"
  /\ UNCHANGED <<controller, pageCells, givenBytes, cursor, locked, programming, gaveUp>>

\* Mutation: PER stays set.
EraseLeft ==
  /\ writeAt = "erasing" /\ Waited /\ writeAt' = "program"
  /\ UNCHANGED <<controller, pageCells, givenBytes, cursor, locked, erasing, programming, working>>

\* The end of erase_page.
EraseDone ==
  /\ writeAt = "erasing" /\ Waited /\ erasing' = FALSE /\ writeAt' = "program"
  /\ UNCHANGED <<controller, pageCells, givenBytes, cursor, locked, programming, working>>

\* The unit at a byte, filled up at the end.
UnitAt(k) == [i \in 0 .. Words.unit - 1 |-> IF k + i < PageBytes THEN givenBytes[k + i + 1] ELSE Words.pad]

\* program_impl, one unit: PG and the write.  The controller takes it if it is
\* unlocked, idle, not set to erase, and the unit is erased.
WriteUnit ==
  /\ writeAt = "program" /\ cursor < PageBytes
  /\ programming' = TRUE /\ writeAt' = "programming"
  /\ IF ~locked /\ ~erasing /\ working = "no"
        /\ \A i \in 0 .. Words.unit - 1 : pageCells[cursor + i] = ErasedByte
     THEN /\ working' = "program"
          /\ pageCells' = [k \in PageCells |-> IF k \in cursor .. cursor + Words.unit - 1 THEN UnitAt(cursor)[k - cursor]
                                       ELSE pageCells[k]]
     ELSE UNCHANGED <<working, pageCells>>
  /\ UNCHANGED <<controller, givenBytes, cursor, locked, erasing, gaveUp>>

UnitDone ==
  /\ writeAt = "programming" /\ Waited /\ programming' = FALSE
  /\ cursor' = cursor + Words.unit /\ writeAt' = "program"
  /\ UNCHANGED <<controller, pageCells, givenBytes, locked, erasing, working>>

\* lock, after the last unit.
EndWrite ==
  /\ writeAt = "program" /\ cursor >= PageBytes
  /\ locked' = TRUE /\ writeAt' = "idle"
  /\ UNCHANGED <<controller, pageCells, givenBytes, cursor, erasing, programming, working, gaveUp>>

\* The controller ends an operation.
OperationEnds ==
  /\ working # "no" /\ working' = "no"
  /\ pageCells' = IF working = "erase" THEN [k \in PageCells |-> ErasedByte] ELSE pageCells
  /\ UNCHANGED <<controller, givenBytes, writeAt, cursor, locked, erasing, programming, gaveUp>>

\* A reset: the controller starts anew, the page stays, an interrupted erase may
\* or may not have taken place.
PowerLost ==
  /\ writeAt # "idle"
  /\ writeAt' = "idle" /\ cursor' = 0 /\ givenBytes' = <<>>
  /\ locked' = TRUE /\ erasing' = FALSE /\ programming' = FALSE /\ working' = "no"
  /\ gaveUp' = FALSE
  /\ pageCells' \in {pageCells} \cup (IF working = "erase" THEN {[k \in PageCells |-> ErasedByte]} ELSE {})
  /\ UNCHANGED controller

FlashNext ==
  \/ \E value \in Contents : BeginWrite(value)
  \/ StartErase \/ EraseDone \/ WriteUnit \/ UnitDone \/ EndWrite
  \/ OperationEnds \/ PowerLost

FlashSpec == FlashInit /\ [][FlashNext]_flashVars

------------------------------------------------------------------------------
(* Property *)

\* A write all of whose waits ended leaves the page with the bytes given and the
\* padding, whatever the page held before, also a page cut short by a reset, and
\* the controller locked, idle and set to nothing (FlashStorage::write).
PageAsGiven ==
  writeAt = "idle" /\ givenBytes # <<>> /\ ~gaveUp =>
    /\ pageCells = PageWith(givenBytes)
    /\ locked /\ ~erasing /\ ~programming /\ working = "no"
==============================================================================
