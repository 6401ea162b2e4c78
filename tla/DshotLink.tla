------------------------------- MODULE DshotLink -------------------------------
(***************************************************************************)
(* A DShot frame and its answer as they travel on one wire: pulse widths,  *)
(* checksum and inverted checksum (dshot.rs), the schedule of extended     *)
(* telemetry and the coding of the answer (edt.rs, dshot.rs).  What the    *)
(* frame makes the controller do is FrameDispatch's; here a command may    *)
(* ask for the announcement of extended telemetry, and the wire may        *)
(* disturb one pulse of a frame and lose an answer.                        *)
(*                                                                         *)
(* The schedule's periods are constants, 40, 200, 512 and 2^16 in the      *)
(* program.                                                                *)
(***************************************************************************)
EXTENDS Numeric

CONSTANTS
  Values,        \* values of a frame
  TwoWays,       \* kinds of line
  BitTimes,      \* capture ticks of one bit
  WindowLow, WindowHigh,   \* the exclusive window of the frame's time
  Flips,         \* bits the wire may turn
  ComTimes,      \* e_com_time
  Measured,      \* actual_current and battery_voltage (1/100), degrees_celsius
  CurrentEvery, SlowEvery, InitEvery, CounterMod

ASSUME LinkAssumption ==
  /\ \A v \in Values : v \in Nat /\ v < 2048
  /\ TwoWays \subseteq BOOLEAN
  /\ BitTimes \subseteq 1 .. 4095   \* a frame lasts less than a turn of the 16-bit timer
  /\ WindowLow \in Nat /\ WindowHigh \in Nat
  /\ WindowLow >= 110   \* the program's windows begin at 400 ticks or later
  /\ Flips \subseteq 0 .. 15 /\ ComTimes \subseteq Nat
  /\ \A m \in Measured : m.current \in Int /\ m.voltage \in Nat /\ m.degrees \in Int
  /\ {CurrentEvery, SlowEvery, InitEvery, CounterMod} \subseteq Nat \ {0}

VARIABLES
  twoWayLine,
  frame,     \* the frame on the wire
  answer,    \* the answer last given
  edt,       \* counter, last_sent_extended, active, send_init and send_deinit
  peerKnows  \* the peer reads extended telemetry

linkVars == <<twoWayLine, frame, answer, edt, peerKnows>>

NoFrame == [on |-> FALSE]
NoAnswer == [on |-> FALSE]

LinkInit ==
  /\ twoWayLine \in TwoWays /\ frame = NoFrame /\ answer = NoAnswer
  /\ edt = [counter |-> 0, extended |-> FALSE, active |-> FALSE,
            init |-> FALSE, deinit |-> FALSE]
  /\ peerKnows = FALSE

------------------------------------------------------------------------------
(* The frame *)

Bit(n, i) == (n \div 2^i) % 2

\* The number that four bits make, from b[0] on.
Nibble(b) == b[0] + 2 * b[1] + 4 * b[2] + 8 * b[3]

\* The exclusive or of three nibbles, from bit `low` on.
Checksum(n, low) ==
  Nibble([i \in 0 .. 3 |-> (Bit(n, low + i) + Bit(n, low + i + 4) + Bit(n, low + i + 8)) % 2])

Inverted(nibble) == 15 - nibble

MeansThrottle(v, t) == [kind |-> "throttle", value |-> v, telemetry |-> t]
MeansCommand(v, t)  == [kind |-> "command", value |-> v, telemetry |-> t]
BadCrc         == [kind |-> "badCrc"]
InvalidTiming  == [kind |-> "invalidTiming"]

Meaning(v, t) == IF v \in 1 .. 47 THEN MeansCommand(v, t) ELSE MeansThrottle(v, t)

\* Mutation: the sign of the line is ignored.
ReceivedUpright(packet) == (packet % 16)

ReceivedSum(packet) == IF twoWayLine THEN Inverted(packet % 16) ELSE packet % 16

Unpack(packet) ==
  IF Checksum(packet, 4) # ReceivedSum(packet) THEN BadCrc
  ELSE Meaning(packet \div 32, Bit(packet, 4) = 1)

\* A pulse is long when it is longer than half a bit, a 32nd of the frame's time.
PacketOf(time, widths) ==
  LET bits(low) == Nibble([i \in 0 .. 3 |-> IF widths[low + i] > time \div 32 THEN 1 ELSE 0])
  IN bits(0) + 16 * bits(4) + 256 * bits(8) + 4096 * bits(12)

DecodeFrame(time, widths) ==
  IF time <= WindowLow \/ time >= WindowHigh THEN InvalidTiming
  ELSE Unpack(PacketOf(time, widths))

------------------------------------------------------------------------------
(* The answer *)

GcrTable == <<25, 27, 18, 19, 29, 21, 22, 23, 26, 9, 10, 11, 30, 13, 14, 15>>

\* gcr_bits: three nibbles and their inverted checksum, each as a symbol of five bits.
Symbols(v) ==
  LET full == 16 * v + Inverted(Checksum(v, 0))
  IN [k \in 0 .. 3 |-> GcrTable[1 + ((full \div 16^k) % 16)]]

GcrBits(v) ==
  LET symbols == Symbols(v)
  IN [j \in 0 .. 19 |-> Bit(symbols[j \div 5], j % 5)]

\* encode_gcr_frame: 22 levels from the padding on; a set bit is a transition.
Levels(v) ==
  LET bits == GcrBits(v)
      L[i \in 0 .. 21] == IF i <= 1 THEN i ELSE (bits[21 - i] + L[i - 1]) % 2
  IN L

\* erpm_to_12bit: the period with its leading bit in bit 8, below an exponent.
ErpmTo12Bit(period) ==
  LET shift == IF period < 512 THEN 0
               ELSE CHOOSE s \in 1 .. 7 : period \div 2^(s + 8) = 1
  IN 512 * shift + period \div 2^shift

EdtInit   == 3584   \* 0xE00
EdtDeinit == 3839   \* 0xEFF

\* Currents below zero count as none.
Unsigned(n) == IF n < 0 THEN 0 ELSE n

Payload(n) == IF n > 255 THEN 255 ELSE n

Extended(v) == [extended |-> TRUE, value |-> v]
Erpm(time, running) ==
  LET period == IF running THEN Wrap(time, 16) ELSE 65535
  IN [extended |-> FALSE, value |-> ErpmTo12Bit(period), period |-> period]

\* Mutation: the announcement is made once.
NeverAgain(n) == FALSE

InitDue(n) == n % InitEvery = InitEvery \div 2

\* next_frame: the schedule's new state, and the value that goes out.
NextFrame(e, m, erpm) ==
  LET n       == (e.counter + 1) % CounterMod
      counted == [e EXCEPT !.counter = n]
      current == 6 * 256 + Payload(Unsigned(m.current) \div 100)
      voltage == 4 * 256 + Payload(m.voltage \div 25)
      degrees == 2 * 256 + Wrap(m.degrees, 8)
      data    == IF n % CurrentEvery = 0 THEN {current}
                 ELSE IF n % SlowEvery = SlowEvery \div 2 THEN {voltage}
                 ELSE IF n % SlowEvery = (3 * SlowEvery) \div 4 THEN {degrees} ELSE {}
  IN IF e.init THEN <<[e EXCEPT !.init = FALSE, !.active = TRUE], Extended(EdtInit)>>
     ELSE IF e.deinit
          THEN <<[e EXCEPT !.deinit = FALSE, !.active = FALSE], Extended(EdtDeinit)>>
     ELSE IF ~e.active THEN <<e, erpm>>
     ELSE IF InitDue(n) THEN <<counted, Extended(EdtInit)>>
     ELSE IF e.extended THEN <<[counted EXCEPT !.extended = FALSE], erpm>>
     ELSE IF data = {} THEN <<counted, erpm>>
     ELSE <<[counted EXCEPT !.extended = TRUE], Extended(CHOOSE v \in data : TRUE)>>

------------------------------------------------------------------------------
(* The exchange *)

Packet(v, t) ==
  LET body == 32 * v + 16 * t
      sum  == Checksum(body, 4)
  IN body + IF twoWayLine THEN Inverted(sum) ELSE sum

\* The bits of a frame, one of them turned or (16) none.
OnWire(packet, flip) ==
  [i \in 0 .. 15 |-> IF i = flip THEN 1 - Bit(packet, i) ELSE Bit(packet, i)]

\* A peer's frame at its bit time: a set bit is a pulse of three quarters of it.
FrameComes ==
  \E v \in Values, t \in {0, 1}, bitTime \in BitTimes, flip \in Flips \cup {16} :
    LET wire   == OnWire(Packet(v, t), flip)
        widths == [i \in 0 .. 15 |-> ((3 * bitTime) \div 8) * (1 + wire[i])]
        time   == 15 * bitTime + widths[0]
    IN /\ frame = NoFrame
       /\ frame' = [on |-> TRUE, sent |-> Meaning(v, t = 1), turned |-> flip # 16,
                    time |-> time, widths |-> widths]
       /\ answer' = NoAnswer
       /\ UNCHANGED <<twoWayLine, edt, peerKnows>>

\* handle_dma_tc answers an armed two-way line; the peer reads the answer or misses it.
Answer(received) ==
  \E time \in ComTimes, running \in BOOLEAN, m \in Measured :
    LET next == NextFrame(edt, m, Erpm(time, running))
        out  == next[2]
    IN /\ frame.on /\ frame' = NoFrame
       /\ twoWayLine /\ edt' = next[1]
       /\ answer' = [on |-> TRUE, says |-> out]
       /\ peerKnows' = IF ~received THEN peerKnows
                       ELSE IF out = Extended(EdtInit) THEN TRUE
                       ELSE IF out = Extended(EdtDeinit) THEN FALSE ELSE peerKnows
       /\ UNCHANGED twoWayLine

Silent == frame.on /\ frame' = NoFrame /\ ~twoWayLine
            /\ UNCHANGED <<twoWayLine, answer, edt, peerKnows>>

\* take_edt_init and take_edt_deinit after a repeated command: at least six answered
\* frames lie between two of them.
EdtRequested ==
  /\ twoWayLine /\ ~edt.init /\ ~edt.deinit
  /\ \E flag \in {"init", "deinit"} : edt' = [edt EXCEPT ![flag] = TRUE]
  /\ UNCHANGED <<twoWayLine, frame, answer, peerKnows>>

LinkNext == FrameComes \/ Answer(TRUE) \/ Answer(FALSE) \/ Silent \/ EdtRequested

\* An announcement that arrives.
Announced ==
  /\ edt.init \/ (edt.active /\ ~edt.deinit /\ InitDue((edt.counter + 1) % CounterMod))
  /\ Answer(TRUE)

\* Frames keep coming, each is answered, and of the announcements some arrive.
LinkFairness ==
  /\ WF_linkVars(FrameComes) /\ WF_linkVars(Answer(TRUE) \/ Answer(FALSE))
  /\ SF_linkVars(Announced)

LinkSpec == LinkInit /\ [][LinkNext]_linkVars /\ LinkFairness

------------------------------------------------------------------------------
(* The peer's reading of an answer *)

\* Five bits of the code word: a transition is a set bit, the first bit the highest.
Symbol(levels, k) ==
  LET bit == [i \in 0 .. 4 |-> (levels[21 - (5 * k + i)] + levels[20 - (5 * k + i)]) % 2]
  IN Nibble(bit) + 16 * bit[4]

\* What a symbol may stand for.
Reading(levels, k) ==
  LET symbol == Symbol(levels, k)
  IN {n \in 0 .. 15 : GcrTable[n + 1] = symbol}

ReadBack(levels) ==
  {v \in {256 * a + 16 * b + c :
             a \in Reading(levels, 3), b \in Reading(levels, 2), c \in Reading(levels, 1)} :
     Inverted(Checksum(v, 0)) \in Reading(levels, 0)}

ReadAsExtended(v) == (v \div 256) % 2 = 0 /\ v >= 512

\* What an eRPM answer says of its period: mantissa and exponent.
ReadPeriod(v) == (v % 512) * 2^(v \div 512)

(* Both ends of the wire agree.  A frame in its window is read as what was *)
(* sent, at every bit time and on both kinds of line, or rejected when the *)
(* wire turned one pulse; an answer reads back as the one value that was   *)
(* encoded, never as extended data when it is a period, and a period is    *)
(* read back to one part in 256.                                           *)
LinkReadsBack ==
  /\ frame.on =>
       DecodeFrame(frame.time, frame.widths) =
         IF frame.time \in WindowLow + 1 .. WindowHigh - 1
         THEN IF frame.turned THEN BadCrc ELSE frame.sent
         ELSE InvalidTiming
  /\ answer.on =>
       /\ ReadBack(Levels(answer.says.value)) = {answer.says.value}
       /\ ReadAsExtended(answer.says.value) = answer.says.extended
       /\ ~answer.says.extended =>
            LET read == ReadPeriod(answer.says.value)
            IN read <= answer.says.period /\ 256 * (answer.says.period - read) <= read

Asked == (edt.active \/ edt.init) /\ ~edt.deinit

(* A peer that asked for extended telemetry learns that it got it, however *)
(* many answers are lost, as long as of the announcements some arrive: the *)
(* periodic announcement must neither starve behind the other frames nor   *)
(* stop with the counter.                                                  *)
EdtAnnounced == <>[]Asked => <>[]peerKnows
==============================================================================
