---------------------------- MODULE TelemetryPort ----------------------------
(***************************************************************************)
(* The telemetry line (telem_hal.rs and its drivers): one buffer, which    *)
(* the main loop fills with a telemetry packet or with the longer settings *)
(* packet and hands to a DMA channel, whether or not the channel is still  *)
(* sending the packet before.                                              *)
(*                                                                         *)
(* The DMA takes a byte whenever the line is free, also between two writes *)
(* of the main loop.                                                       *)
(***************************************************************************)
EXTENDS Naturals, Sequences

CONSTANTS
  ShortPacket,   \* length of a telemetry packet (10)
  LongPacket     \* length of a settings packet (49), and of the buffer

ASSUME PortAssumption ==
  /\ ShortPacket \in Nat \ {0} /\ LongPacket \in Nat /\ ShortPacket < LongPacket

VARIABLES
  usable,        \* the start-up of the line succeeded
  txBuf,         \* tx_buf: [packet, index] per byte
  sendAt,        \* where send stands
  sending,       \* [kind, length, turn] of the packet being sent
  channelOn,     \* the channel's EN
  channelCount,  \* the channel's NDTR
  takenFrom,     \* the next byte of the buffer it takes
  sentBytes      \* history: the last LongPacket bytes sent

telemetryVars == <<usable, txBuf, sendAt, sending, channelOn, channelCount, takenFrom, sentBytes>>

------------------------------------------------------------------------------

\* Two packets in a row differ by their turn.
Kinds == [telemetry |-> ShortPacket, settings |-> LongPacket]

NoByte == [kind |-> "none", turn |-> 0, index |-> 0]

Byte(p, k) == [kind |-> p.kind, turn |-> p.turn, index |-> k]

TelemetryInit ==
  /\ usable \in BOOLEAN
  /\ txBuf = [k \in 1 .. LongPacket |-> NoByte]
  /\ sendAt = "idle" /\ sending = [kind |-> "none", length |-> 0, turn |-> 0]
  /\ channelOn = FALSE /\ channelCount = 0 /\ takenFrom = 1 /\ sentBytes = <<>>

\* GenericTelemUart::send: the copy, byte by byte from the front.
Copy(kind) ==
  /\ sendAt = "idle"
  /\ sending' = [kind |-> kind, length |-> Kinds[kind], turn |-> 1 - sending.turn]
  /\ txBuf' = [k \in 1 .. LongPacket |-> IF k <= Kinds[kind] THEN Byte(sending', k) ELSE txBuf[k]]
  /\ sendAt' = "stop"
  /\ UNCHANGED <<usable, channelOn, channelCount, takenFrom, sentBytes>>

\* Mutation: the channel is not disabled.
LetRun ==
  /\ sendAt = "stop" /\ sendAt' = "load"
  /\ UNCHANGED <<usable, txBuf, sending, channelOn, channelCount, takenFrom, sentBytes>>

\* send_dma_raw: the channel is disabled first,
StopChannel ==
  /\ sendAt = "stop" /\ sendAt' = "load" /\ channelOn' = FALSE
  /\ UNCHANGED <<usable, txBuf, sending, channelCount, takenFrom, sentBytes>>

\* then takes an address and a count, which an enabled channel refuses,
LoadChannel ==
  /\ sendAt = "load" /\ sendAt' = "start"
  /\ IF channelOn THEN UNCHANGED <<channelCount, takenFrom>> ELSE channelCount' = sending.length /\ takenFrom' = 1
  /\ UNCHANGED <<usable, txBuf, sending, channelOn, sentBytes>>

\* and is enabled.
StartChannel ==
  /\ sendAt = "start" /\ sendAt' = "idle" /\ channelOn' = TRUE
  /\ UNCHANGED <<usable, txBuf, sending, channelCount, takenFrom, sentBytes>>

\* The line takes a byte.  A channel whose start-up failed is not routed to it.
ByteSent ==
  /\ usable /\ channelOn /\ channelCount > 0
  /\ channelCount' = channelCount - 1 /\ takenFrom' = takenFrom + 1
  /\ sentBytes' = IF Len(sentBytes) < LongPacket THEN Append(sentBytes, txBuf[takenFrom])
             ELSE Append(Tail(sentBytes), txBuf[takenFrom])
  /\ UNCHANGED <<usable, txBuf, sendAt, sending, channelOn>>

TelemetryNext ==
  (\E kind \in DOMAIN Kinds : Copy(kind)) \/ StopChannel \/ LoadChannel \/ StartChannel \/ ByteSent

TelemetrySpec == TelemetryInit /\ [][TelemetryNext]_telemetryVars

------------------------------------------------------------------------------
(* Property *)

\* The last bytes of the line.
Ending(n) == IF Len(sentBytes) < n THEN <<>> ELSE SubSeq(sentBytes, Len(sentBytes) - n + 1, Len(sentBytes))

\* Once the line is quiet it ends with the packet sent last, whole and in order,
\* however many earlier ones it cut short; a line whose start-up failed stays
\* silent for ever (GenericTelemUart::send).
LastPacketWhole ==
  /\ usable /\ sendAt = "idle" /\ channelOn /\ channelCount = 0 =>
       Ending(sending.length) = [k \in 1 .. sending.length |-> Byte(sending, k)]
  /\ ~usable => sentBytes = <<>>
==============================================================================
