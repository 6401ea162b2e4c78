------------------------------- MODULE AdcScan -------------------------------
(***************************************************************************)
(* The measurements: the converter's start-up (GenericAdc::init over the   *)
(* four AdcPeripheral drivers), the scan that DMA writes to a buffer of    *)
(* three, and the main loop's service a thousand times a second, which     *)
(* reads the buffer and then starts the next scan.                         *)
(*                                                                         *)
(* A wait of the start-up may time out; init is then left where it stands, *)
(* and the service goes on with what the hardware is.  A sample is a       *)
(* channel and its age in scans.  What a converter does with a DMA mode is *)
(* not in the code: it is taken from the reference manuals.                *)
(***************************************************************************)
EXTENDS Naturals, Sequences

CONSTANT AdcChips   \* the chips examined

ASSUME AdcAssumption == AdcChips \subseteq {"g071", "f051", "l431", "g431"}

Quantities == {"current", "voltage", "temperature"}
MaxAge     == 2

VARIABLES
  adcChip,      \* whose driver is built in
  stage,        \* where init stands
  converter,    \* "off", "starting" (ADEN without ADRDY) or "on"
  settling,     \* the G071 still takes a write of its sequence mode
  nibbles,      \* CHSELRMOD: the sequence register holds an ordered list
  ccrdy,        \* the flag that says it has taken it
  scanList,     \* the channels programmed
  nextChannel,  \* the next conversion of a running scan, 0 when idle
  dmaSlot,      \* the DMA's next place in the buffer
  dmaEnded,     \* the converter asks the DMA for nothing more
  samples,      \* ADC_DMA_BUF
  readings      \* what the last service read

initVars == <<adcChip, stage, settling, nibbles, ccrdy, scanList>>
scanVars == <<converter, nextChannel, dmaSlot, dmaEnded, samples>>
adcVars  == <<initVars, scanVars, readings>>

------------------------------------------------------------------------------
(* The four drivers *)

\* ADC_CURRENT_CHANNEL and ADC_VOLTAGE_CHANNEL of each chip; the internal sensor.
Wired ==
  [g071 |-> [current |-> 4, voltage |-> 6, temperature |-> 12],
   f051 |-> [current |-> 6, voltage |-> 3, temperature |-> 16],
   l431 |-> [current |-> 8, voltage |-> 11, temperature |-> 17],
   g431 |-> [current |-> 5, voltage |-> 13, temperature |-> 16]]

\* The F051 scans a mask of three channels from the lowest to the highest.
Upward(mask) == CHOOSE s \in [1 .. 3 -> mask] : s[1] < s[2] /\ s[2] < s[3]

\* configure_sequence, for the G071 SEQUENCE.
Programmed ==
  [g071 |-> <<4, 6, 12>>,
   f051 |-> Upward({2, 6, 16}),
   l431 |-> <<8, 11, 17>>,
   g431 |-> <<16, 13, 5>>]

\* raw_current, raw_voltage, raw_temperature
Place == [current |-> 1, voltage |-> 2, temperature |-> 3]

\* The G431 converts for ever once started.
Continuous == adcChip = "g431"

\* DMACFG: without it the converter's requests end with the DMA's last transfer, and a
\* scan started later asks for none.
DmaGoesOn == adcChip # "g071"

Unread == [channel |-> 99, age |-> 0]

------------------------------------------------------------------------------
(* Start-up *)

\* The configuration up to enable_dma_mode has been written.
AdcInit ==
  /\ adcChip \in AdcChips /\ stage = "configured"
  /\ converter = "off" /\ settling = FALSE /\ nibbles = FALSE /\ ccrdy = FALSE
  /\ scanList = IF adcChip = "g071" THEN <<>> ELSE Programmed[adcChip]
  /\ nextChannel = 0 /\ dmaSlot = 1 /\ dmaEnded = FALSE
  /\ samples = [k \in 1 .. 3 |-> Unread]
  /\ readings = [q \in Quantities |-> Unread]

Failed == stage' = "failed"

\* calibrate, and ADEN.
Calibrate ==
  /\ stage = "configured"
  /\ \/ stage' = "calibrated" /\ converter' = "starting"
     \/ Failed /\ UNCHANGED converter
  /\ UNCHANGED <<adcChip, settling, nibbles, ccrdy, scanList, nextChannel, dmaSlot, dmaEnded, samples, readings>>

\* The wait for ADRDY; the G071 then asks for a list of channels.
Enable ==
  /\ stage = "calibrated"
  /\ IF converter = "on"
     THEN IF adcChip = "g071" THEN stage' = "mode" /\ nibbles' = TRUE /\ settling' = TRUE
                           ELSE stage' = "up" /\ UNCHANGED <<nibbles, settling>>
     ELSE Failed /\ UNCHANGED <<nibbles, settling>>
  /\ UNCHANGED <<adcChip, ccrdy, scanList, scanVars, readings>>

\* program_sequence gives up: ADDIS.
GiveUp ==
  /\ stage \in {"mode", "sequence"} /\ ~ccrdy
  /\ Failed /\ converter' = "off"
  /\ UNCHANGED <<adcChip, settling, nibbles, ccrdy, scanList, nextChannel, dmaSlot, dmaEnded, samples, readings>>

\* Mutation: the channels are written before the mode is taken, and not read back.
WriteAtOnce ==
  /\ stage = "mode"
  /\ scanList' = IF settling THEN scanList ELSE Programmed[adcChip]
  /\ stage' = "up"
  /\ UNCHANGED <<adcChip, settling, nibbles, ccrdy, scanVars, readings>>

\* The channels are written once the mode is taken.
WriteSequence ==
  /\ stage = "mode" /\ ccrdy
  /\ scanList' = IF settling THEN scanList ELSE Programmed[adcChip]
  /\ settling' = TRUE /\ ccrdy' = FALSE /\ stage' = "sequence"
  /\ UNCHANGED <<adcChip, nibbles, scanVars, readings>>

\* They are read back.
VerifySequence ==
  /\ stage = "sequence" /\ ccrdy
  /\ ccrdy' = FALSE
  /\ IF scanList = Programmed[adcChip] THEN stage' = "up" /\ UNCHANGED converter
                                    ELSE Failed /\ converter' = "off"
  /\ UNCHANGED <<adcChip, settling, nibbles, scanList, nextChannel, dmaSlot, dmaEnded, samples, readings>>

\* The hardware takes a write, and gets ready, late or in time.
Settle ==
  /\ settling /\ settling' = FALSE /\ ccrdy' = TRUE
  /\ UNCHANGED <<adcChip, stage, nibbles, scanList, scanVars, readings>>

ConverterOn ==
  /\ converter = "starting" /\ converter' = "on"
  /\ UNCHANGED <<initVars, nextChannel, dmaSlot, dmaEnded, samples, readings>>

------------------------------------------------------------------------------
(* Scans *)

\* An empty list in the list mode converts channel 0 eight times.
Scanned == IF scanList = <<>> /\ nibbles THEN [k \in 1 .. 8 |-> 0] ELSE scanList

Older(b) == [k \in 1 .. 3 |->
               IF b[k].age = MaxAge \/ b[k] = Unread THEN b[k] ELSE [b[k] EXCEPT !.age = @ + 1]]

\* One conversion, written by DMA if the converter still asks for it.
Convert ==
  /\ nextChannel # 0
  /\ LET b == IF nextChannel = 1 THEN Older(samples) ELSE samples
     IN IF dmaEnded
        THEN samples' = b /\ UNCHANGED <<dmaSlot, dmaEnded>>
        ELSE /\ samples' = [b EXCEPT ![dmaSlot] = [channel |-> Scanned[nextChannel], age |-> 0]]
             /\ dmaSlot' = IF dmaSlot = 3 THEN 1 ELSE dmaSlot + 1
             /\ dmaEnded' = (dmaSlot = 3 /\ ~DmaGoesOn)
  /\ nextChannel' = IF nextChannel < Len(Scanned) THEN nextChannel + 1 ELSE IF Continuous THEN 1 ELSE 0
  /\ UNCHANGED <<initVars, converter, readings>>

\* The measurements of MainState::tick: three reads, then start_conversion.  A
\* single scan takes some tens of microseconds, the next service a millisecond.
Measurements ==
  /\ stage \in {"up", "failed"}
  /\ nextChannel = 0 \/ Continuous
  /\ readings' = [q \in Quantities |-> samples[Place[q]]]
  /\ nextChannel' = IF nextChannel = 0 /\ converter = "on" /\ Scanned # <<>> THEN 1 ELSE nextChannel
  /\ UNCHANGED <<initVars, converter, dmaSlot, dmaEnded, samples>>

AdcNext == Calibrate \/ Enable \/ GiveUp \/ WriteSequence \/ VerifySequence \/ Settle
             \/ ConverterOn \/ Convert \/ Measurements

AdcSpec == AdcInit /\ [][AdcNext]_adcVars

------------------------------------------------------------------------------
(* Properties *)

\* Whatever part of the start-up times out, a reading is never another quantity:
\* it is nothing yet, or a sample of its own pin, all three are of one scan, and where
\* the DMA goes on it is the newest.  The buffer's order is agreed between a register of
\* each driver, the channels of chip.rs and three indices of the generic code; a sequence
\* the hardware did not take would fill the buffer with something else.
ReadingsMeanWhatTheySay ==
  [][Measurements =>
       \/ readings' = [q \in Quantities |-> Unread]
       \/ \E a \in 0 .. MaxAge :
            /\ \A q \in Quantities : readings'[q] = [channel |-> Wired[adcChip][q], age |-> a]
            /\ DmaGoesOn => a = 0]_adcVars
==============================================================================
