------------------------------ MODULE CapturePort ------------------------------
(***************************************************************************)
(* The port of the signal wire: one timer and one DMA channel that capture *)
(* the edges of a frame and, on a two-way line, put out its answer         *)
(* (capture_generic.rs and the G071's input_capture.rs), driven by the     *)
(* transfer-complete interrupt and by the frame interrupt it raises, which *)
(* the former preempts (interrupts.rs, isr_handlers.rs).  What a frame     *)
(* makes the controller do is abstracted to the stick it leaves, and the   *)
(* detection of the protocol to its outcome.                               *)
(***************************************************************************)
EXTENDS Integers

CONSTANTS
  PeerSticks, \* throttles of the peer's frames, 0 among them
  Rates       \* the prescalers of DSHOT600, DSHOT300 and DSHOT150

ASSUME PortAssumption == 0 \in PeerSticks /\ PeerSticks \subseteq Nat /\ Rates \subseteq 0 .. 3

VARIABLES
  dma,        \* enabled, direction, memory and transfers left
  timer,      \* mode, prescaler, running
  outPut,
  capturePsc,    \* prescaler, which configure_capture restores
  outputPsc,     \* output_prescaler
  tcif,          \* the transfer-complete flag
  swier,         \* the frame interrupt is pending
  resume,        \* the registers the frame handler still writes, or none
  portProtocol,  \* "none", "dshot" or "servo": input_set with dshot or servo_pwm
  armedLine, telemetryLine,   \* armed and dshot_telemetry
  edges,         \* the stick in the frame of the edge buffer
  heardStick     \* newinput

channelVars == <<dma, timer, outPut, capturePsc, outputPsc, tcif, swier, resume,
                 portProtocol, armedLine, telemetryLine, edges, heardStick>>

DetectionPsc == 10
ServoPsc     == 63
BufferSize   == 32
EdgeBuffer   == 64
GcrBuffer    == 37

Done == [on |-> FALSE]

\* A DMA channel does not take a new address or count while it is enabled.
Counted(d, n) == IF d.enabled THEN d ELSE [d EXCEPT !.left = n]
Aimed(d, buffer) == IF d.enabled THEN d ELSE [d EXCEPT !.memory = buffer]
Started(d, direction) == [d EXCEPT !.enabled = TRUE, !.direction = direction]
Disabled(d) == [d EXCEPT !.enabled = FALSE]

\* Mutation: the channel is started before it is told how much to transfer.
StartedFirst(d, buffer, n, direction) ==
  Counted(Aimed(Started(d, direction), buffer), n)

Transfer(d, buffer, n, direction) == Started(Counted(Aimed(d, buffer), n), direction)

\* Mutation: the port still counts as an output.
CaptureAsOutput ==
  /\ timer' = [mode |-> "capture", psc |-> capturePsc, running |-> TRUE]
  /\ outPut' = outPut
  /\ dma' = Transfer(Disabled(dma), "edges", BufferSize, "rx")

\* start_capture and start_gcr_output
StartCapture ==
  /\ timer' = [mode |-> "capture", psc |-> capturePsc, running |-> TRUE]
  /\ outPut' = FALSE
  /\ dma' = Transfer(Disabled(dma), "edges", BufferSize, "rx")

StartGcrOutput ==
  /\ timer' = [mode |-> "output", psc |-> outputPsc, running |-> TRUE]
  /\ outPut' = TRUE
  /\ dma' = Transfer(Disabled(dma), "gcr", 23 + BufferSize \div 4, "tx")

PortInit ==
  /\ dma = [enabled |-> TRUE, direction |-> "rx", memory |-> "edges", left |-> BufferSize]
  /\ timer = [mode |-> "capture", psc |-> DetectionPsc, running |-> TRUE]
  /\ outPut = FALSE /\ capturePsc = DetectionPsc /\ outputPsc = 0
  /\ tcif = FALSE /\ swier = FALSE /\ resume = Done
  /\ portProtocol = "none" /\ armedLine = FALSE /\ telemetryLine = FALSE
  /\ edges = 0 /\ heardStick = 0

------------------------------------------------------------------------------
(* The wire *)

\* A burst of the peer, of which a port that does not listen hears nothing.
Burst ==
  /\ dma.enabled /\ dma.left > 0 /\ dma.direction = "rx" /\ timer.mode = "capture"
  /\ edges' \in PeerSticks
  /\ dma' = [dma EXCEPT !.left = 0] /\ tcif' = TRUE
  /\ UNCHANGED <<timer, outPut, capturePsc, outputPsc, swier, resume, portProtocol,
                 armedLine, telemetryLine, heardStick>>

\* The channel has put out its words, whatever they are.
Sent ==
  /\ dma.enabled /\ dma.left > 0 /\ dma.direction = "tx"
  /\ dma' = [dma EXCEPT !.left = 0] /\ tcif' = TRUE
  /\ UNCHANGED <<timer, outPut, capturePsc, outputPsc, swier, resume, portProtocol,
                 armedLine, telemetryLine, edges, heardStick>>

------------------------------------------------------------------------------
(* The two interrupts *)

\* DMA1_CHANNEL1 with handle_dma_tc.
TransferComplete ==
  /\ tcif /\ tcif' = FALSE /\ swier' = TRUE
  /\ IF armedLine /\ telemetryLine
     THEN IF outPut THEN StartCapture ELSE StartGcrOutput
     ELSE dma' = Disabled(dma) /\ UNCHANGED <<timer, outPut>>
  /\ UNCHANGED <<capturePsc, outputPsc, resume, portProtocol, armedLine, telemetryLine,
                 edges, heardStick>>

\* handle_exti_frame: detection while no protocol is set, else a decoded frame; the
\* handler's tail follows.
FrameHandler ==
  /\ swier /\ ~tcif /\ ~resume.on /\ swier' = FALSE
  /\ \/ /\ portProtocol = "none" /\ heardStick' = heardStick
        /\ \/ /\ UNCHANGED <<portProtocol, outputPsc>> /\ capturePsc' = DetectionPsc
              /\ resume' = [on |-> TRUE, sets |-> TRUE, edges |-> BufferSize]
           \/ /\ portProtocol' = "dshot" /\ outputPsc' \in Rates /\ capturePsc' = outputPsc'
              /\ resume' = [on |-> TRUE, sets |-> TRUE, edges |-> BufferSize]
           \/ /\ portProtocol' = "servo" /\ UNCHANGED outputPsc /\ capturePsc' = ServoPsc
              /\ resume' = [on |-> TRUE, sets |-> TRUE, edges |-> 2]
        /\ UNCHANGED telemetryLine
     \/ /\ portProtocol = "dshot" /\ heardStick' = edges
        /\ telemetryLine' \in {telemetryLine, telemetryLine \/ ~armedLine}
        /\ resume' = [on |-> TRUE, sets |-> FALSE, edges |-> BufferSize]
        /\ UNCHANGED <<portProtocol, outputPsc, capturePsc>>
     \/ /\ portProtocol = "servo" /\ heardStick' = edges
        /\ \E n \in {2, 3} : resume' = [on |-> TRUE, sets |-> FALSE, edges |-> n]
        /\ UNCHANGED <<portProtocol, outputPsc, capturePsc, telemetryLine>>
  /\ UNCHANGED <<dma, timer, outPut, tcif, armedLine, edges>>

\* The tail of EXTI4_15: prescaler, count, and both enabled again.
FrameHandlerTail ==
  /\ resume.on /\ ~tcif /\ resume' = Done
  /\ timer' = [timer EXCEPT !.psc = IF resume.sets THEN capturePsc ELSE @,
                             !.running = TRUE]
  /\ dma' = [Counted(dma, resume.edges) EXCEPT !.enabled = TRUE]
  /\ UNCHANGED <<outPut, capturePsc, outputPsc, tcif, swier, portProtocol, armedLine,
                 telemetryLine, edges, heardStick>>

------------------------------------------------------------------------------
(* The controller *)

\* The tick arms on a stick at zero.
ArmLine ==
  /\ ~armedLine /\ portProtocol # "none" /\ heardStick = 0 /\ armedLine' = TRUE
  /\ UNCHANGED <<dma, timer, outPut, capturePsc, outputPsc, tcif, swier, resume,
                 portProtocol, telemetryLine, edges, heardStick>>

\* The low-voltage cutoff; a lost signal also resets the controller.
CutOff ==
  /\ armedLine /\ armedLine' = FALSE
  /\ UNCHANGED <<dma, timer, outPut, capturePsc, outputPsc, tcif, swier, resume,
                 portProtocol, telemetryLine, edges, heardStick>>

PortNext ==
  \/ Burst \/ Sent
  \/ TransferComplete \/ FrameHandler \/ FrameHandlerTail
  \/ ArmLine \/ CutOff

\* The channel finishes what it sends, and the interrupts are served.
PortFairness ==
  /\ WF_channelVars(Sent) /\ WF_channelVars(TransferComplete)
  /\ WF_channelVars(FrameHandler) /\ WF_channelVars(FrameHandlerTail)

PortSpec == PortInit /\ [][PortNext]_channelVars /\ PortFairness

------------------------------------------------------------------------------

Live == dma.enabled /\ dma.left > 0 /\ timer.running

(* Whenever the channel may transfer, the registers agree with each other  *)
(* and with out_put: direction, buffer, timer mode and the prescaler of    *)
(* the detected rate, and the count stays within the buffer.  The order in *)
(* which the handlers write them, and the frame handler's tail running     *)
(* around a turn of the line, must never leave the port capturing into the *)
(* answer, driving the wire from the edges, or running at the wrong rate.  *)
PortConsistent ==
  /\ Live =>
       /\ dma.direction = IF outPut THEN "tx" ELSE "rx"
       /\ dma.memory = IF outPut THEN "gcr" ELSE "edges"
       /\ timer.mode = IF outPut THEN "output" ELSE "capture"
       /\ timer.psc = IF outPut THEN outputPsc ELSE capturePsc
       /\ dma.left <= IF outPut THEN GcrBuffer ELSE EdgeBuffer
  /\ Live \/ tcif \/ swier \/ resume.on

(* As long as the line stays armed, the port captures again after every    *)
(* answer, and so hears the peer's next frame (handle_dma_tc and           *)
(* start_capture).  A line disarmed during its answer does not: the        *)
(* transfer then completes without start_capture, and the frame handler's  *)
(* tail starts the channel again as it is, so the port sends the old       *)
(* answer over and over until the stick of the old frame arms the line.    *)
PortListens == []<>(~outPut \/ ~armedLine)
==============================================================================
