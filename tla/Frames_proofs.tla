----------------------------- MODULE Frames_proofs -----------------------------
(***************************************************************************)
(* The way of a frame, for all parameters and in every order of its        *)
(* interrupts: the port of the signal wire never transfers with registers  *)
(* that disagree, what is decided about the line is confirmed by the       *)
(* frames in a row that the code asks for, a programming sequence writes   *)
(* what was sent, and the two ends of a DShot wire read what the other     *)
(* meant.                                                                  *)
(*                                                                         *)
(* The proof about the wire works on the bits of a number by their places  *)
(* (Bit stays folded): four bits make a nibble, sixteen a word, and a word *)
(* has the bits it was made from.                                          *)
(***************************************************************************)
EXTENDS CapturePort, FrameIntake, FrameDispatch, DshotLink, Numeric_proofs, TLAPS

--------------------------------------------------------------------------------
(* The port of the signal wire *)

Channels == [enabled : BOOLEAN, direction : {"rx", "tx"}, memory : {"edges", "gcr"}, left : Nat]
Timers == [mode : {"capture", "output"}, psc : Int, running : {TRUE}]
Resumes == [on : {TRUE}, sets : BOOLEAN, edges : {2, 3, BufferSize}]

PortTypes ==
  /\ dma \in Channels
  /\ timer \in Timers
  /\ outPut \in BOOLEAN /\ capturePsc \in Int /\ outputPsc \in Int
  /\ tcif \in BOOLEAN /\ swier \in BOOLEAN
  /\ resume = Done \/ resume \in Resumes
  /\ armedLine \in BOOLEAN /\ telemetryLine \in BOOLEAN

\* What StartCapture and StartGcrOutput program together stays together, also while the
\* channel is off.
Aligned ==
  /\ dma.direction = IF outPut THEN "tx" ELSE "rx"
  /\ dma.memory = IF outPut THEN "gcr" ELSE "edges"
  /\ timer.mode = IF outPut THEN "output" ELSE "capture"
  /\ dma.left <= IF outPut THEN GcrBuffer ELSE EdgeBuffer

\* The prescaler lags behind the detected rate only until the tail that sets it.
RateFollows ==
  ~(resume.on /\ resume.sets) => timer.psc = IF outPut THEN outputPsc ELSE capturePsc

\* Before the line is known to be two-way it never turns, and a frame is handled with
\* the channel off; only then may the rate still change.
OneWay ==
  /\ telemetryLine => portProtocol = "dshot"
  /\ outPut => telemetryLine
  /\ resume.on /\ resume.sets => ~telemetryLine
  /\ ~telemetryLine /\ (swier \/ resume.on) => ~dma.enabled /\ ~tcif
  /\ ~telemetryLine => ~(swier /\ resume.on)

\* An idle channel has an interrupt that will start it.
Awaited ==
  /\ dma.enabled => dma.left > 0 \/ tcif
  /\ ~dma.enabled => tcif \/ swier \/ resume.on

PortStands == PortTypes /\ Aligned /\ RateFollows /\ OneWay /\ Awaited

\* The fields of a channel and of the work left to the tail.
LEMMA ChannelFields ==
  ASSUME NEW d \in Channels
  PROVE  d.enabled \in BOOLEAN /\ d.left \in Nat
BY DEF Channels

\* The fields of the timer.
LEMMA TimerFields ==
  ASSUME NEW t \in Timers
  PROVE  t.running
<1>1. t.running = TRUE
  BY DEF Timers
<1> QED
  BY <1>1

LEMMA ResumeFields ==
  ASSUME NEW r \in Resumes
  PROVE  r.on /\ r.sets \in BOOLEAN /\ r.edges \in Nat /\ 0 < r.edges /\ r.edges <= 32
<1>1. r.on = TRUE /\ r.sets \in BOOLEAN /\ r.edges \in {2, 3, 32}
  BY DEF Resumes, BufferSize
<1>2. r.on
  BY <1>1
<1>3. r.edges \in Nat /\ 0 < r.edges /\ r.edges <= 32
  BY <1>1
<1> QED
  BY <1>1, <1>2, <1>3

\* A channel that was disabled takes all it is given, whatever it had.
LEMMA Reloaded ==
  ASSUME NEW d \in Channels, NEW area \in {"edges", "gcr"}, NEW n \in Nat,
         NEW direction \in {"rx", "tx"}
  PROVE  LET t == Transfer(Disabled(d), area, n, direction)
         IN  /\ t \in Channels /\ t.enabled
             /\ t.direction = direction /\ t.memory = area /\ t.left = n
<1> DEFINE off    == Disabled(d)
           aimed  == Aimed(off, area)
           loaded == Counted(aimed, n)
           on     == Started(loaded, direction)
<1>1. off \in Channels /\ ~off.enabled
  BY DEF Disabled, Channels
<1> HIDE DEF off
<1>2. aimed \in Channels /\ ~aimed.enabled /\ aimed.memory = area
  BY <1>1 DEF Aimed, Channels
<1> HIDE DEF aimed
<1>3. /\ loaded \in Channels /\ ~loaded.enabled /\ loaded.memory = area
      /\ loaded.left = n
  BY <1>2 DEF Counted, Channels
<1> HIDE DEF loaded
<1>4. /\ on \in Channels /\ on.enabled /\ on.direction = direction
      /\ on.memory = area /\ on.left = n
  BY <1>3 DEF Started, Channels
<1> QED
  BY <1>4 DEF Transfer, on, loaded, aimed, off

\* What handle_dma_tc leaves.
LEMMA Turned ==
  ASSUME PortTypes, TransferComplete
  PROVE  /\ dma' \in Channels /\ timer' \in Timers /\ outPut' \in BOOLEAN
         /\ \/ /\ telemetryLine /\ ~outPut' /\ dma'.enabled
               /\ timer'.mode = "capture" /\ timer'.psc = capturePsc
               /\ dma'.direction = "rx" /\ dma'.memory = "edges" /\ dma'.left = 32
            \/ /\ telemetryLine /\ outPut' /\ dma'.enabled
               /\ timer'.mode = "output" /\ timer'.psc = outputPsc
               /\ dma'.direction = "tx" /\ dma'.memory = "gcr" /\ dma'.left = 31
            \/ /\ UNCHANGED <<timer, outPut>> /\ ~dma'.enabled /\ dma'.left = dma.left
               /\ dma'.direction = dma.direction /\ dma'.memory = dma.memory
<1>t. capturePsc \in Int /\ outputPsc \in Int /\ dma \in Channels /\ timer \in Timers
        /\ outPut \in BOOLEAN
  BY DEF PortTypes
<1>1. 23 + BufferSize \div 4 = 31 /\ BufferSize = 32
  BY DEF BufferSize
<1>2. CASE armedLine /\ telemetryLine /\ outPut
  <2>1. StartCapture
    BY <1>2 DEF TransferComplete
  <2>2. /\ dma' \in Channels /\ dma'.enabled
        /\ dma'.direction = "rx" /\ dma'.memory = "edges" /\ dma'.left = 32
    <3> DEFINE t == Transfer(Disabled(dma), "edges", 32, "rx")
    <3>1. dma' = t
      BY <2>1, <1>1 DEF StartCapture
    <3>2. /\ t \in Channels /\ t.enabled
          /\ t.direction = "rx" /\ t.memory = "edges" /\ t.left = 32
      BY <1>t, Reloaded
    <3> QED
      BY <3>1, <3>2
  <2>3. timer' = [mode |-> "capture", psc |-> capturePsc, running |-> TRUE] /\ outPut' = FALSE
    BY <2>1 DEF StartCapture
  <2> QED
    BY <2>2, <2>3, <1>2, <1>t DEF Timers
<1>3. CASE armedLine /\ telemetryLine /\ ~outPut
  <2>1. StartGcrOutput
    BY <1>3 DEF TransferComplete
  <2>2. /\ dma' \in Channels /\ dma'.enabled
        /\ dma'.direction = "tx" /\ dma'.memory = "gcr" /\ dma'.left = 31
    <3> DEFINE t == Transfer(Disabled(dma), "gcr", 31, "tx")
    <3>1. dma' = t
      BY <2>1, <1>1 DEF StartGcrOutput
    <3>2. /\ t \in Channels /\ t.enabled
          /\ t.direction = "tx" /\ t.memory = "gcr" /\ t.left = 31
      BY <1>t, Reloaded
    <3> QED
      BY <3>1, <3>2
  <2>3. timer' = [mode |-> "output", psc |-> outputPsc, running |-> TRUE] /\ outPut' = TRUE
    BY <2>1 DEF StartGcrOutput
  <2> QED
    BY <2>2, <2>3, <1>3, <1>t DEF Timers
<1>4. CASE ~(armedLine /\ telemetryLine)
  <2>1. dma' = Disabled(dma) /\ UNCHANGED <<timer, outPut>>
    BY <1>4 DEF TransferComplete
  <2>2. /\ dma' \in Channels /\ ~dma'.enabled /\ dma'.left = dma.left
        /\ dma'.direction = dma.direction /\ dma'.memory = dma.memory
    BY <2>1, <1>t DEF Disabled, Channels
  <2> QED
    BY <2>1, <2>2, <1>t
<1> QED
  BY <1>2, <1>3, <1>4

\* What the tail of the frame handler leaves.
LEMMA TailLeaves ==
  ASSUME PortTypes, FrameHandlerTail
  PROVE  /\ resume \in Resumes /\ ~resume'.on /\ resume' = Done
         /\ dma' \in Channels /\ timer' \in Timers
         /\ dma'.enabled /\ dma'.direction = dma.direction /\ dma'.memory = dma.memory
         /\ dma'.left = IF dma.enabled THEN dma.left ELSE resume.edges
         /\ timer'.mode = timer.mode
         /\ timer'.psc = IF resume.sets THEN capturePsc ELSE timer.psc
<1>t. capturePsc \in Int /\ dma \in Channels /\ timer \in Timers
  BY DEF PortTypes
<1>1. resume \in Resumes /\ resume' = Done /\ ~resume'.on
  BY DEF FrameHandlerTail, PortTypes, Done
<1>2. resume.edges \in Nat
  BY <1>1, ResumeFields
<1>3. /\ dma' \in Channels /\ dma'.enabled
      /\ dma'.direction = dma.direction /\ dma'.memory = dma.memory
      /\ dma'.left = IF dma.enabled THEN dma.left ELSE resume.edges
  <2>1. dma' = [Counted(dma, resume.edges) EXCEPT !.enabled = TRUE]
    BY DEF FrameHandlerTail
  <2>2. CASE dma.enabled
    BY <2>1, <2>2, <1>t DEF Counted, Channels
  <2>3. CASE ~dma.enabled
    BY <2>1, <2>3, <1>t, <1>2 DEF Counted, Channels
  <2> QED
    BY <2>2, <2>3
<1>4. /\ timer' \in Timers /\ timer'.mode = timer.mode
      /\ timer'.psc = IF resume.sets THEN capturePsc ELSE timer.psc
  <2>1. timer' = [timer EXCEPT !.psc = IF resume.sets THEN capturePsc ELSE @, !.running = TRUE]
    BY DEF FrameHandlerTail
  <2> QED
    BY <2>1, <1>t DEF Timers
<1> QED
  BY <1>1, <1>3, <1>4

\* What the frame handler leaves to its tail.
LEMMA HandlerLeaves ==
  ASSUME PortTypes, FrameHandler
  PROVE  /\ resume' \in Resumes /\ resume'.on /\ swier' \in BOOLEAN
         /\ UNCHANGED <<dma, timer, outPut, tcif, armedLine>>
         /\ ~swier' /\ swier /\ ~tcif /\ ~resume.on
         /\ capturePsc' \in Int /\ outputPsc' \in Int /\ telemetryLine' \in BOOLEAN
         /\ resume'.sets => portProtocol = "none" /\ telemetryLine' = telemetryLine
         /\ ~resume'.sets => UNCHANGED <<portProtocol, outputPsc, capturePsc>>
         /\ telemetryLine => telemetryLine'
         /\ telemetryLine' => telemetryLine \/ portProtocol' = "dshot"
         /\ portProtocol = "dshot" => portProtocol' = "dshot"
<1>s. swier' \in BOOLEAN
  BY DEF FrameHandler
<1>t. capturePsc \in Int /\ outputPsc \in Int /\ telemetryLine \in BOOLEAN /\ armedLine \in BOOLEAN
  BY DEF PortTypes
<1>a. UNCHANGED <<dma, timer, outPut, tcif, armedLine>> /\ ~swier' /\ swier /\ ~tcif /\ ~resume.on
  BY DEF FrameHandler
<1>r. Rates \subseteq Int
  BY PortAssumption
<1>1. CASE portProtocol = "none"
  <2>1. UNCHANGED telemetryLine
    BY <1>1 DEF FrameHandler
  <2>2. \E n \in {2, 32} : resume' = [on |-> TRUE, sets |-> TRUE, edges |-> n]
    BY <1>1 DEF FrameHandler, BufferSize
  <2>3. capturePsc' \in Int /\ outputPsc' \in Int
    <3>1. \/ capturePsc' = 10 /\ outputPsc' = outputPsc
          \/ outputPsc' \in Rates /\ capturePsc' = outputPsc'
          \/ capturePsc' = 63 /\ outputPsc' = outputPsc
      BY <1>1 DEF FrameHandler, DetectionPsc, ServoPsc
    <3>2. CASE outputPsc' \in Rates /\ capturePsc' = outputPsc'
      BY <3>2, <1>r
    <3>3. CASE capturePsc' \in {10, 63} /\ outputPsc' = outputPsc
      BY <3>3, <1>t
    <3> QED
      BY <3>1, <3>2, <3>3
  <2>4. resume' \in Resumes /\ resume'.sets
    BY <2>2 DEF Resumes, BufferSize
  <2> QED
    BY <1>a, <1>s, <1>t, <1>1, <2>1, <2>3, <2>4, ResumeFields
<1>2. CASE portProtocol \in {"dshot", "servo"}
  <2>1. UNCHANGED <<portProtocol, outputPsc, capturePsc>>
    BY <1>2 DEF FrameHandler
  <2>2. \E n \in {2, 3, 32} : resume' = [on |-> TRUE, sets |-> FALSE, edges |-> n]
    BY <1>2 DEF FrameHandler, BufferSize
  <2>3. /\ telemetryLine' \in BOOLEAN /\ (telemetryLine => telemetryLine')
        /\ telemetryLine' => telemetryLine \/ portProtocol = "dshot"
    <3>1. CASE portProtocol = "dshot"
      <4>1. telemetryLine' \in {telemetryLine, telemetryLine \/ ~armedLine}
        BY <3>1 DEF FrameHandler
      <4>2. telemetryLine' = telemetryLine \/ telemetryLine' = (telemetryLine \/ ~armedLine)
        BY <4>1
      <4> QED
        BY <4>2, <3>1, <1>t
    <3>2. CASE portProtocol = "servo"
      BY <3>2, <1>t DEF FrameHandler
    <3> QED
      BY <3>1, <3>2, <1>2
  <2>4. resume' \in Resumes /\ ~resume'.sets
    BY <2>2 DEF Resumes, BufferSize
  <2> QED
    BY <1>a, <1>s, <1>t, <2>1, <2>3, <2>4, ResumeFields
<1> QED
  BY <1>1, <1>2 DEF FrameHandler

\* The port starts receiving.
LEMMA PortStandsInit == PortInit => PortStands
<1> SUFFICES ASSUME PortInit PROVE PortStands
  OBVIOUS
<1>1. dma \in Channels /\ timer \in Timers
  BY DEF PortInit, Channels, Timers, BufferSize, DetectionPsc
<1>2. capturePsc \in Int /\ outputPsc \in Int
  BY DEF PortInit, DetectionPsc
<1>b. /\ outPut \in BOOLEAN /\ tcif \in BOOLEAN /\ swier \in BOOLEAN
      /\ armedLine \in BOOLEAN /\ telemetryLine \in BOOLEAN
      /\ resume = Done
  BY Zenon DEF PortInit
<1>3. Aligned
  BY DEF PortInit, Aligned, EdgeBuffer, BufferSize
<1>4. RateFollows /\ OneWay /\ Awaited
  BY DEF PortInit, RateFollows, OneWay, Awaited, Done, BufferSize, DetectionPsc
<1> QED
  BY <1>1, <1>2, <1>b, <1>3, <1>4 DEF PortStands, PortTypes

\* A burst and an answer sent: the count is used up, nothing else changes.
LEMMA UsedUp ==
  ASSUME PortTypes, Burst \/ Sent
  PROVE  /\ dma' \in Channels /\ dma'.left = 0 /\ tcif' /\ ~(~dma.enabled)
         /\ dma'.enabled /\ dma'.direction = dma.direction /\ dma'.memory = dma.memory
         /\ UNCHANGED <<timer, outPut, capturePsc, outputPsc, swier, resume, portProtocol,
                        armedLine, telemetryLine>>
BY DEF Burst, Sent, PortTypes, Channels

\* Steps that touch only the flags keep the registers' types.
LEMMA FlagsOnly ==
  ASSUME ArmLine \/ CutOff \/ UNCHANGED channelVars
  PROVE  /\ UNCHANGED <<dma, timer, outPut, capturePsc, outputPsc, tcif, swier, resume,
                        portProtocol, telemetryLine>>
         /\ armedLine' = armedLine \/ armedLine' \in BOOLEAN
BY DEF ArmLine, CutOff, channelVars

\* Each step keeps the registers' types.
LEMMA TypesNext == PortTypes /\ [PortNext]_channelVars => PortTypes'
<1> SUFFICES ASSUME PortTypes, [PortNext]_channelVars PROVE PortTypes'
  OBVIOUS
<1>d. dma \in Channels /\ (resume = Done \/ resume \in Resumes)
  BY DEF PortTypes
<1>l. dma.left \in Nat /\ dma.enabled \in BOOLEAN
  BY <1>d, ChannelFields
<1>1. CASE Burst \/ Sent
  BY <1>1, <1>l, UsedUp DEF PortTypes
<1>2. CASE TransferComplete
  <2>1. /\ tcif /\ ~tcif' /\ swier'
        /\ UNCHANGED <<capturePsc, outputPsc, resume, portProtocol, armedLine, telemetryLine>>
    BY <1>2 DEF TransferComplete
  <2>2. tcif' \in BOOLEAN /\ swier' \in BOOLEAN
    BY <1>2 DEF TransferComplete
  <2> QED
    BY <1>2, <2>1, <2>2, <1>l, Turned DEF PortTypes
<1>3. CASE FrameHandler
  BY <1>3, <1>l, HandlerLeaves DEF PortTypes
<1>4. CASE FrameHandlerTail
  <2>1. /\ resume.on /\ ~tcif
        /\ UNCHANGED <<outPut, capturePsc, outputPsc, tcif, swier, portProtocol, armedLine,
                       telemetryLine>>
    BY <1>4 DEF FrameHandlerTail
  <2>2. resume.edges \in Nat /\ 0 < resume.edges /\ resume.edges <= 32
    BY <1>4, TailLeaves, ResumeFields
  <2> QED
    BY <1>4, <2>1, <2>2, <1>l, TailLeaves DEF PortTypes
<1>5. CASE ArmLine \/ CutOff \/ UNCHANGED channelVars
  BY <1>5, FlagsOnly DEF PortTypes
<1> QED
  BY <1>1, <1>2, <1>3, <1>4, <1>5 DEF PortNext

\* What is programmed together stays together.
LEMMA AlignedNext == PortTypes /\ Aligned /\ [PortNext]_channelVars => Aligned'
<1> SUFFICES ASSUME PortTypes, Aligned, [PortNext]_channelVars PROVE Aligned'
  OBVIOUS
<1>d. dma \in Channels /\ (resume = Done \/ resume \in Resumes)
  BY DEF PortTypes
<1>l. dma.left \in Nat /\ dma.enabled \in BOOLEAN
  BY <1>d, ChannelFields
<1>1. CASE Burst \/ Sent
  BY <1>1, <1>l, UsedUp DEF Aligned, GcrBuffer, EdgeBuffer
<1>2. CASE TransferComplete
  <2>1. /\ tcif /\ ~tcif' /\ swier'
        /\ UNCHANGED <<capturePsc, outputPsc, resume, portProtocol, armedLine, telemetryLine>>
    BY <1>2 DEF TransferComplete
  <2> QED
    BY <1>2, <2>1, <1>l, Turned DEF Aligned, GcrBuffer, EdgeBuffer
<1>3. CASE FrameHandler
  BY <1>3, <1>l, HandlerLeaves DEF Aligned, GcrBuffer, EdgeBuffer
<1>4. CASE FrameHandlerTail
  <2>1. /\ resume.on /\ ~tcif
        /\ UNCHANGED <<outPut, capturePsc, outputPsc, tcif, swier, portProtocol, armedLine,
                       telemetryLine>>
    BY <1>4 DEF FrameHandlerTail
  <2>2. resume.edges \in Nat /\ 0 < resume.edges /\ resume.edges <= 32
    BY <1>4, TailLeaves, ResumeFields
  <2> QED
    BY <1>4, <2>1, <2>2, <1>l, TailLeaves DEF Aligned, GcrBuffer, EdgeBuffer
<1>5. CASE ArmLine \/ CutOff \/ UNCHANGED channelVars
  BY <1>5, FlagsOnly DEF Aligned, GcrBuffer, EdgeBuffer
<1> QED
  BY <1>1, <1>2, <1>3, <1>4, <1>5 DEF PortNext

\* The rate is set before the line may turn.
LEMMA RateNext == PortTypes /\ RateFollows /\ OneWay /\ [PortNext]_channelVars => RateFollows'
<1> SUFFICES ASSUME PortTypes, RateFollows, OneWay, [PortNext]_channelVars PROVE RateFollows'
  OBVIOUS
<1>d. dma \in Channels /\ (resume = Done \/ resume \in Resumes)
  BY DEF PortTypes
<1>l. dma.left \in Nat /\ dma.enabled \in BOOLEAN
  BY <1>d, ChannelFields
<1>1. CASE Burst \/ Sent
  BY <1>1, <1>l, UsedUp DEF RateFollows, OneWay
<1>2. CASE TransferComplete
  <2>1. /\ tcif /\ ~tcif' /\ swier'
        /\ UNCHANGED <<capturePsc, outputPsc, resume, portProtocol, armedLine, telemetryLine>>
    BY <1>2 DEF TransferComplete
  <2> QED
    BY <1>2, <2>1, <1>l, Turned DEF RateFollows, OneWay
<1>3. CASE FrameHandler
  BY <1>3, <1>l, HandlerLeaves DEF RateFollows, OneWay
<1>4. CASE FrameHandlerTail
  <2>1. /\ resume.on /\ ~tcif
        /\ UNCHANGED <<outPut, capturePsc, outputPsc, tcif, swier, portProtocol, armedLine,
                       telemetryLine>>
    BY <1>4 DEF FrameHandlerTail
  <2>2. resume.edges \in Nat /\ 0 < resume.edges /\ resume.edges <= 32
    BY <1>4, TailLeaves, ResumeFields
  <2> QED
    BY <1>4, <2>1, <2>2, <1>l, TailLeaves DEF RateFollows, OneWay
<1>5. CASE ArmLine \/ CutOff \/ UNCHANGED channelVars
  BY <1>5, FlagsOnly DEF RateFollows, OneWay
<1> QED
  BY <1>1, <1>2, <1>3, <1>4, <1>5 DEF PortNext

\* The line does not turn before it is known to be two-way.
LEMMA OneWayNext == PortTypes /\ OneWay /\ Awaited /\ [PortNext]_channelVars => OneWay'
<1> SUFFICES ASSUME PortTypes, OneWay, Awaited, [PortNext]_channelVars PROVE OneWay'
  OBVIOUS
<1>d. dma \in Channels /\ (resume = Done \/ resume \in Resumes)
  BY DEF PortTypes
<1>l. dma.left \in Nat /\ dma.enabled \in BOOLEAN
  BY <1>d, ChannelFields
<1>1. CASE Burst \/ Sent
  BY <1>1, <1>l, UsedUp DEF OneWay, Awaited
<1>2. CASE TransferComplete
  <2>1. /\ tcif /\ ~tcif' /\ swier'
        /\ UNCHANGED <<capturePsc, outputPsc, resume, portProtocol, armedLine, telemetryLine>>
    BY <1>2 DEF TransferComplete
  <2> QED
    BY <1>2, <2>1, <1>l, Turned DEF OneWay, Awaited
<1>3. CASE FrameHandler
  BY <1>3, <1>l, HandlerLeaves DEF OneWay, Awaited
<1>4. CASE FrameHandlerTail
  <2>1. /\ resume.on /\ ~tcif
        /\ UNCHANGED <<outPut, capturePsc, outputPsc, tcif, swier, portProtocol, armedLine,
                       telemetryLine>>
    BY <1>4 DEF FrameHandlerTail
  <2>2. resume.edges \in Nat /\ 0 < resume.edges /\ resume.edges <= 32
    BY <1>4, TailLeaves, ResumeFields
  <2> QED
    BY <1>4, <2>1, <2>2, <1>l, TailLeaves DEF OneWay, Awaited
<1>5. CASE ArmLine \/ CutOff \/ UNCHANGED channelVars
  BY <1>5, FlagsOnly DEF OneWay, Awaited
<1> QED
  BY <1>1, <1>2, <1>3, <1>4, <1>5 DEF PortNext

\* Something always starts the channel again.
LEMMA AwaitedNext == PortTypes /\ OneWay /\ Awaited /\ [PortNext]_channelVars => Awaited'
<1> SUFFICES ASSUME PortTypes, OneWay, Awaited, [PortNext]_channelVars PROVE Awaited'
  OBVIOUS
<1>d. dma \in Channels /\ (resume = Done \/ resume \in Resumes)
  BY DEF PortTypes
<1>l. dma.left \in Nat /\ dma.enabled \in BOOLEAN
  BY <1>d, ChannelFields
<1>1. CASE Burst \/ Sent
  BY <1>1, <1>l, UsedUp DEF OneWay, Awaited
<1>2. CASE TransferComplete
  <2>1. /\ tcif /\ ~tcif' /\ swier'
        /\ UNCHANGED <<capturePsc, outputPsc, resume, portProtocol, armedLine, telemetryLine>>
    BY <1>2 DEF TransferComplete
  <2> QED
    BY <1>2, <2>1, <1>l, Turned DEF OneWay, Awaited
<1>3. CASE FrameHandler
  BY <1>3, <1>l, HandlerLeaves DEF OneWay, Awaited
<1>4. CASE FrameHandlerTail
  <2>1. /\ resume.on /\ ~tcif
        /\ UNCHANGED <<outPut, capturePsc, outputPsc, tcif, swier, portProtocol, armedLine,
                       telemetryLine>>
    BY <1>4 DEF FrameHandlerTail
  <2>2. resume.edges \in Nat /\ 0 < resume.edges /\ resume.edges <= 32
    BY <1>4, TailLeaves, ResumeFields
  <2> QED
    BY <1>4, <2>1, <2>2, <1>l, TailLeaves DEF OneWay, Awaited
<1>5. CASE ArmLine \/ CutOff \/ UNCHANGED channelVars
  BY <1>5, FlagsOnly DEF OneWay, Awaited
<1> QED
  BY <1>1, <1>2, <1>3, <1>4, <1>5 DEF PortNext

\* What the registers of the capture port, the work left to the tail and the direction
\* of the line know of each other, in every state (dma_capture.rs, input handlers).
THEOREM PortInvariant == PortSpec => []PortStands
<1>1. PortStands /\ [PortNext]_channelVars => PortStands'
  BY TypesNext, AlignedNext, RateNext, OneWayNext, AwaitedNext DEF PortStands
<1> QED
  BY PortStandsInit, <1>1, PTL DEF PortSpec

\* Whenever the channel may transfer, direction, buffer, timer mode, prescaler and count
\* fit out_put (start_capture, start_gcr_output, EXTI4_15), and a channel that may not
\* has an interrupt coming.
THEOREM PortAgrees == PortSpec => []PortConsistent
<1>1. PortStands => PortConsistent
  <2> SUFFICES ASSUME PortStands PROVE PortConsistent
    OBVIOUS
  <2>0. dma \in Channels /\ timer \in Timers
    BY DEF PortStands, PortTypes
  <2>1. dma.left \in Nat /\ timer.running
    BY <2>0, ChannelFields, TimerFields
  <2>2. Live <=> dma.enabled /\ 0 < dma.left
    BY <2>1 DEF Live
  <2>3. Live \/ tcif \/ swier \/ resume.on
    BY <2>1, <2>2 DEF PortStands, Awaited
  <2>4. Live => ~(resume.on /\ resume.sets)
    BY <2>2 DEF PortStands, OneWay
  <2> QED
    BY <2>3, <2>4 DEF PortConsistent, PortStands, Aligned, RateFollows
<1> QED
  BY <1>1, PortInvariant, PTL

------------------------------------------------------------------------------
(* The decisions about the line *)

\* What the counts say of the frames before: a pending detection was the last frame,
\* and the confirming frames were the last ones, on a line that had idled high.
CountsStand ==
  /\ recent.run \in Nat /\ 1 <= recent.run
  /\ confirms \in Nat /\ highPins \in Nat /\ telemetry \in BOOLEAN
  /\ ~inputSet => confirms = 0
  /\ ~inputSet /\ pending # "none" => recent.frame = <<pending, FALSE>>
  /\ 0 < confirms => /\ recent.frame = <<"inverted", TRUE>> /\ confirms <= recent.run
                     /\ IdleHighFrames <= highPins

\* A count stops at its limit.
LEMMA CappedCounts ==
  ASSUME NEW n \in Nat, NEW limit \in Nat \ {0}
  PROVE  /\ Capped(n, limit) \in Nat /\ 1 <= Capped(n, limit)
         /\ Capped(n, limit) = IF n < limit THEN n + 1 ELSE limit
BY DEF Capped

\* A frame repeated counts up, another one starts a run.
LEMMA RunsCount ==
  ASSUME recent.run \in Nat, 1 <= recent.run, NEW what, recent' = Again(what)
  PROVE  /\ recent'.frame = what /\ recent'.run \in Nat /\ 1 <= recent'.run
         /\ recent.frame = what =>
              recent'.run = IF recent.run < ConfirmFrames THEN recent.run + 1 ELSE ConfirmFrames
<1>1. ConfirmFrames \in Nat \ {0}
  BY IntakeAssumption DEF IntakeAssumption
<1>2. recent' = [frame |-> what,
                 run   |-> IF recent.frame = what THEN Capped(recent.run, ConfirmFrames) ELSE 1]
  BY DEF Again
<1>3. CASE recent.frame = what
  BY <1>1, <1>2, <1>3, CappedCounts
<1>4. CASE recent.frame # what
  BY <1>2, <1>4
<1> QED
  BY <1>3, <1>4

\* The counts after a frame: only an inverted frame on a line that idled high adds to
\* confirms, and everything else but a line still idling clears it.
LEMMA ProbedCounts ==
  ASSUME CountsStand, NEW kind \in Kinds, NEW high \in BOOLEAN, IdleHigh(kind, high)
  PROVE  /\ confirms' \in Nat /\ highPins' \in Nat
         /\ 0 < confirms' =>
              /\ unarmed /\ kind = "inverted" /\ high
              /\ confirms' = IF confirms < ConfirmFrames THEN confirms + 1 ELSE ConfirmFrames
              /\ IdleHighFrames <= highPins'
<1>a. ConfirmFrames \in Nat \ {0} /\ IdleHighFrames \in Nat \ {0}
  BY IntakeAssumption DEF IntakeAssumption
<1>b. confirms \in Nat /\ highPins \in Nat
  BY DEF CountsStand
<1>1. CASE ~(unarmed /\ protocol = "dshot" /\ ~telemetry /\ high)
  BY <1>1 DEF IdleHigh
<1>2. CASE unarmed /\ protocol = "dshot" /\ ~telemetry /\ high
  <2>0. /\ confirms' = Probed(kind, high)[1]
        /\ highPins' = Capped(Probed(kind, high)[2], IdleHighFrames)
    BY <1>2 DEF IdleHigh, IdleCounted
  <2>1. CASE ~Probing(high)
    <3>1. Probed(kind, high) = <<confirms, highPins>>
      BY <2>1 DEF Probed
    <3>2. ~(IdleHighFrames <= highPins)
      BY <2>1, <1>2, <1>a, <1>b DEF Probing
    <3>3. confirms = 0
      <4>1. ~(0 < confirms)
        BY <3>2, Zenon DEF CountsStand
      <4> QED
        BY <4>1, <1>b
    <3> QED
      BY <2>0, <3>1, <3>3, <1>a, <1>b, CappedCounts
  <2>2. CASE Probing(high) /\ kind = "inverted"
    <3>1. Probed(kind, high) = <<Capped(confirms, ConfirmFrames), highPins>>
      BY <2>2 DEF Probed
    <3>2. IdleHighFrames <= highPins
      BY <2>2, <1>a, <1>b DEF Probing
    <3>3. confirms' = Capped(confirms, ConfirmFrames) /\ highPins' = Capped(highPins, IdleHighFrames)
      BY <2>0, <3>1
    <3> QED
      BY <3>2, <3>3, <2>2, <1>2, <1>a, <1>b, CappedCounts
  <2>3. CASE Probing(high) /\ kind # "inverted"
    <3>1. Probed(kind, high) = <<0, 0>> \/ Probed(kind, high) = <<0, highPins>>
      BY <2>3 DEF Probed, Kinds
    <3> QED
      BY <2>0, <3>1, <1>a, <1>b, CappedCounts
  <2> QED
    BY <2>1, <2>2, <2>3
<1> QED
  BY <1>1, <1>2

\* All counts start at zero.
LEMMA CountsInit == IntakeInit => CountsStand
<1> SUFFICES ASSUME IntakeInit PROVE CountsStand
  OBVIOUS
<1>1. telemetry \in BOOLEAN
  BY DEF IntakeInit
<1> QED
  BY <1>1 DEF IntakeInit, CountsStand

\* No step that is not a frame touches the counts.
LEMMA StepsWithoutFrame ==
  ASSUME \/ Calibrates \/ (\E t \in IntakeThrottles : Throttled(t)) \/ Armed
         \/ UNCHANGED intakeVars
  PROVE  UNCHANGED <<inputSet, protocol, pending, telemetry, highPins, confirms, recent>>
BY DEF Calibrates, Throttled, Armed, intakeVars

\* Each frame, and each step without one, keeps the counts in their runs.
LEMMA CountsNext == CountsStand /\ [IntakeNext]_intakeVars => CountsStand'
<1> SUFFICES ASSUME CountsStand, [IntakeNext]_intakeVars PROVE CountsStand'
  OBVIOUS
<1>c. ConfirmFrames \in Nat \ {0, 1}
  BY IntakeAssumption DEF IntakeAssumption
<1>r. recent.run \in Nat /\ 1 <= recent.run
  BY DEF CountsStand
<1>t. telemetry' \in BOOLEAN
  <2>1. telemetry \in BOOLEAN
    BY DEF CountsStand
  <2>2. telemetry' = telemetry \/ \E kind \in Kinds, high \in BOOLEAN : DshotFrame(kind, high)
    BY StepsWithoutFrame DEF IntakeNext, IntakeFrame, Detect, ServoPulse
  <2> QED
    BY <2>1, <2>2 DEF DshotFrame
<1>1. ASSUME NEW sig \in Signals, Detect(sig) PROVE CountsStand'
  <2>1. UNCHANGED <<confirms, highPins>> /\ ~inputSet /\ confirms = 0
    BY <1>1 DEF Detect, CountsStand
  <2>2. /\ recent'.frame = <<sig, FALSE>> /\ recent'.run \in Nat /\ 1 <= recent'.run
    BY <1>1, <1>r, RunsCount DEF Detect
  <2>3. inputSet' \/ pending' = sig
    BY <1>1 DEF Detect, NowPending
  <2> QED
    BY <2>1, <2>2, <2>3, <1>t DEF CountsStand
<1>2. ASSUME NEW kind \in Kinds, NEW high \in BOOLEAN, DshotFrame(kind, high)
      PROVE  CountsStand'
  <2>1. inputSet /\ inputSet'
    BY <1>2 DEF DshotFrame
  <2>2. /\ recent'.frame = <<kind, high>> /\ recent'.run \in Nat /\ 1 <= recent'.run
        /\ recent.frame = <<kind, high>> =>
             recent'.run = IF recent.run < ConfirmFrames THEN recent.run + 1 ELSE ConfirmFrames
    BY <1>2, <1>r, RunsCount DEF DshotFrame
  <2>3. /\ confirms' \in Nat /\ highPins' \in Nat
        /\ 0 < confirms' =>
             /\ kind = "inverted" /\ high
             /\ confirms' = IF confirms < ConfirmFrames THEN confirms + 1 ELSE ConfirmFrames
             /\ IdleHighFrames <= highPins'
    BY <1>2, ProbedCounts DEF DshotFrame
  <2>4. ASSUME 0 < confirms'
        PROVE  recent'.frame = <<"inverted", TRUE>> /\ confirms' <= recent'.run
    <3>1. recent'.frame = <<"inverted", TRUE>>
      BY <2>2, <2>3, <2>4
    <3>2. CASE 0 < confirms
      <4>1. recent.frame = <<kind, high>> /\ confirms <= recent.run /\ confirms \in Nat
        BY <2>2, <3>1, <3>2 DEF CountsStand
      <4>2. /\ confirms' = IF confirms < ConfirmFrames THEN confirms + 1 ELSE ConfirmFrames
            /\ recent'.run = IF recent.run < ConfirmFrames THEN recent.run + 1 ELSE ConfirmFrames
        BY <2>2, <2>3, <2>4, <4>1
      <4>3. confirms' <= recent'.run
        BY <4>1, <4>2, <1>c, <1>r
      <4> QED
        BY <3>1, <4>3
    <3>3. CASE ~(0 < confirms)
      BY <2>2, <2>3, <2>4, <3>3, <1>c DEF CountsStand
    <3> QED
      BY <3>1, <3>2, <3>3
  <2> QED
    BY <2>1, <2>2, <2>3, <2>4, <1>t DEF CountsStand
<1>3. ASSUME NEW high \in BOOLEAN, NEW outOfRange \in BOOLEAN, ServoPulse(high, outOfRange)
      PROVE  CountsStand'
  <2>1. inputSet' /\ confirms' = 0 /\ highPins' = 0
    BY <1>3 DEF ServoPulse
  <2>2. recent'.run \in Nat /\ 1 <= recent'.run
    BY <1>3, <1>r, RunsCount DEF ServoPulse
  <2> QED
    BY <2>1, <2>2, <1>t DEF CountsStand
<1>4. CASE \/ Calibrates \/ (\E t \in IntakeThrottles : Throttled(t)) \/ Armed
           \/ UNCHANGED intakeVars
  BY <1>4, <1>t, StepsWithoutFrame DEF CountsStand
<1> QED
  BY <1>1, <1>2, <1>3, <1>4 DEF IntakeNext, IntakeFrame

\* The counts of the frame intake say this of the frames before, in every state
\* (process, process_packet).
THEOREM CountsInvariant == IntakeSpec => []CountsStand
BY CountsInit, CountsNext, PTL DEF IntakeSpec

\* The step form of LineDecisionsConfirmed, first for the protocol, ...
LEMMA StepProtocolConfirmed ==
  ASSUME CountsStand, [IntakeNext]_intakeVars, inputSet' # inputSet
  PROVE  recent'.frame = <<protocol', FALSE>> /\ recent'.run >= 2
<1>c. ConfirmFrames \in Nat \ {0, 1} /\ recent.run \in Nat /\ 1 <= recent.run
  BY IntakeAssumption DEF IntakeAssumption, CountsStand
<1>1. PICK sig \in Signals : Detect(sig)
  BY StepsWithoutFrame DEF IntakeNext, IntakeFrame, DshotFrame, ServoPulse
<1>2. sig # "none" /\ sig = pending /\ protocol' = sig /\ ~inputSet
  BY <1>1 DEF Detect
<1>3. recent.frame = <<sig, FALSE>>
  BY <1>2 DEF CountsStand
<1>4. /\ recent'.frame = <<sig, FALSE>>
      /\ recent'.run = IF recent.run < ConfirmFrames THEN recent.run + 1 ELSE ConfirmFrames
  BY <1>1, <1>3, <1>c, RunsCount DEF Detect
<1>5. recent'.run >= 2
  BY <1>4, <1>c
<1> QED
  BY <1>2, <1>4, <1>5

\* ... then for the kind of line.
LEMMA StepLineConfirmed ==
  ASSUME CountsStand, CountsStand', [IntakeNext]_intakeVars, telemetry' # telemetry
  PROVE  /\ unarmed
         /\ recent'.frame = <<"inverted", TRUE>> /\ recent'.run >= ConfirmFrames
<1>c. ConfirmFrames \in Nat \ {0, 1} /\ confirms' \in Nat /\ recent'.run \in Nat
  BY IntakeAssumption DEF IntakeAssumption, CountsStand
<1>1. PICK kind \in Kinds, high \in BOOLEAN : DshotFrame(kind, high)
  BY StepsWithoutFrame DEF IntakeNext, IntakeFrame, Detect, ServoPulse
<1>t. telemetry \in BOOLEAN
  BY DEF CountsStand
<1>2. /\ Probing(high) /\ kind = "inverted" /\ Probed(kind, high)[1] >= ConfirmFrames
      /\ IdleHigh(kind, high)
  <2>1. /\ IdleHigh(kind, high)
        /\ telemetry' = (telemetry \/ (Probing(high) /\ kind = "inverted"
                                        /\ Probed(kind, high)[1] >= ConfirmFrames))
    BY <1>1 DEF DshotFrame
  <2> QED
    BY <2>1, <1>t, Zenon
<1>3. unarmed
  BY <1>2 DEF Probing
<1>4. protocol = "dshot" /\ ~telemetry /\ high
  BY <1>1, <1>2 DEF Probing, DshotFrame
<1>5. confirms' = Probed(kind, high)[1]
  BY <1>2, <1>3, <1>4 DEF IdleHigh
<1>6. confirms' >= ConfirmFrames /\ 0 < confirms'
  BY <1>2, <1>5, <1>c
<1>7. recent'.frame = <<"inverted", TRUE>> /\ confirms' <= recent'.run
  BY <1>6 DEF CountsStand
<1>8. recent'.run >= ConfirmFrames
  BY <1>6, <1>7, <1>c
<1> QED
  BY <1>3, <1>7, <1>8

\* The protocol is locked by two equal detections in a row, the line taken for
\* bidirectional by ConfirmFrames inverted frames in a row (process, process_packet).
THEOREM DecisionsConfirmed == IntakeSpec => LineDecisionsConfirmed
<1>1. CountsStand /\ CountsStand' /\ [IntakeNext]_intakeVars =>
        [/\ inputSet' # inputSet =>
              recent'.frame = <<protocol', FALSE>> /\ recent'.run >= 2
         /\ telemetry' # telemetry =>
              /\ unarmed
              /\ recent'.frame = <<"inverted", TRUE>> /\ recent'.run >= ConfirmFrames
        ]_intakeVars
  BY StepProtocolConfirmed, StepLineConfirmed
<1> QED
  BY <1>1, CountsInvariant, PTL DEF IntakeSpec, LineDecisionsConfirmed

------------------------------------------------------------------------------
(* Programming a setting *)

\* On a line that the port does not answer, the history of a sequence is what the
\* handler has noted of it.
SequenceStands ==
  /\ twoWay \in BOOLEAN /\ progMode \in 0 .. 3 /\ sent \in Seq(Nat)
  /\ ~twoWay =>
       /\ port = "capture"
       /\ progMode \in {0, 1} => sent = <<>>
       /\ progMode = 2 => sent = <<position>>
       /\ progMode = 3 => Len(sent) = 2 /\ sent[1] = position /\ sent[2] % 256 = newByte

\* No sequence at the start.
LEMMA SequenceInit == DispatchInit => SequenceStands
<1> SUFFICES ASSUME DispatchInit PROVE SequenceStands
  OBVIOUS
<1>1. twoWay \in BOOLEAN
  BY DispatchAssumption DEF DispatchAssumption, DispatchInit
<1> QED
  BY <1>1 DEF DispatchInit, SequenceStands

\* What a frame does to the sequence: it is cancelled, or goes on, or a command
\* begins one.
LEMMA SequenceHandled ==
  ASSUME NEW v, Handle(v), progMode \in 0 .. 3
  PROVE  /\ progMode' \in 0 .. 3
         /\ \/ progMode' = 0 /\ UNCHANGED <<position, newByte>>
            \/ progMode = 0 /\ progMode' \in {0, 1} /\ UNCHANGED <<position, newByte>>
            \/ progMode = 1 /\ progMode' = 2 /\ position' = v
            \/ progMode = 2 /\ progMode' = 3 /\ newByte' = v % 256 /\ UNCHANGED position
            \/ progMode = 3 /\ progMode' = 3 /\ UNCHANGED <<position, newByte>>
         /\ UNCHANGED <<dArmed, dRunning, edtGate>>
<1>u. UNCHANGED <<dArmed, dRunning, edtGate>>
  BY DEF Handle
<1>1. CASE Cancelled
  BY <1>1, <1>u DEF Handle, Cancel
<1>2. CASE ~Cancelled /\ progMode > 0
  <2>1. Programming(v)
    BY <1>2 DEF Handle
  <2>2. progMode \in {1, 2, 3}
    BY <1>2
  <2> QED
    BY <2>1, <2>2, <1>u DEF Programming
<1>3. CASE ~Cancelled /\ ~(progMode > 0) /\ IsCommand(v)
  <2>1. Command(v) /\ progMode = 0
    BY <1>3 DEF Handle
  <2> QED
    BY <2>1, <1>u DEF Command
<1>4. CASE ~Cancelled /\ ~(progMode > 0) /\ ~IsCommand(v)
  <2>1. Throttle(v) /\ progMode = 0
    BY <1>4 DEF Handle
  <2> QED
    BY <2>1, <1>u DEF Throttle, progVars
<1> QED
  BY <1>1, <1>2, <1>3, <1>4

\* A frame, whatever it holds, leaves the sequence standing.
LEMMA FrameKeepsSequence ==
  ASSUME SequenceStands, NEW v \in FrameValues, FrameArrives(v)
  PROVE  SequenceStands'
<1>v. v \in Nat
  BY DispatchAssumption DEF DispatchAssumption
<1>1. /\ progMode \in 0 .. 3 /\ sent \in Seq(Nat) /\ twoWay \in BOOLEAN
      /\ twoWay' = twoWay /\ Handle(v) /\ sent' = SentAfter(v)
      /\ ~twoWay => port' = port
  BY DEF SequenceStands, FrameArrives
<1>2. twoWay' \in BOOLEAN /\ sent' \in Seq(Nat)
  BY <1>1, <1>v DEF SentAfter
<1>3. progMode' \in 0 .. 3
  BY <1>1, SequenceHandled
<1>4. ASSUME ~twoWay
      PROVE  /\ port' = "capture"
             /\ progMode' \in {0, 1} => sent' = <<>>
             /\ progMode' = 2 => sent' = <<position'>>
             /\ progMode' = 3 => Len(sent') = 2 /\ sent'[1] = position' /\ sent'[2] % 256 = newByte'
  <2>1. port' = "capture"
    BY <1>1, <1>4 DEF SequenceStands
  <2>2. CASE progMode' = 0
    BY <1>1, <2>1, <2>2 DEF SentAfter
  <2>3. CASE progMode = 0 /\ progMode' = 1
    BY <1>1, <2>1, <2>3 DEF SentAfter
  <2>4. CASE progMode = 1 /\ progMode' = 2 /\ position' = v
    <3>1. sent = <<>> /\ sent' = Append(sent, v)
      BY <1>1, <1>4, <2>4 DEF SentAfter, SequenceStands
    <3>2. sent' = <<position'>>
      BY <3>1, <2>4, <1>v
    <3> QED
      BY <2>1, <2>4, <3>2
  <2>5. CASE progMode = 2 /\ progMode' = 3 /\ newByte' = v % 256 /\ UNCHANGED position
    <3>1. sent = <<position>> /\ sent' = Append(sent, v)
      BY <1>1, <1>4, <2>5 DEF SentAfter, SequenceStands
    <3>2. Len(sent') = 2 /\ sent'[1] = position /\ sent'[2] = v
      BY <3>1, <1>1, <1>v
    <3> QED
      BY <2>1, <2>5, <3>2
  <2>6. CASE progMode = 3 /\ progMode' = 3 /\ UNCHANGED <<position, newByte>>
    BY <1>1, <1>4, <2>1, <2>6 DEF SentAfter, SequenceStands
  <2> QED
    BY <1>1, <2>2, <2>3, <2>4, <2>5, <2>6, SequenceHandled
<1> QED
  BY <1>1, <1>2, <1>3, <1>4 DEF SequenceStands

\* So does every step.
LEMMA SequenceNext == SequenceStands /\ [DispatchNext]_dispatchVars => SequenceStands'
<1> SUFFICES ASSUME SequenceStands, [DispatchNext]_dispatchVars PROVE SequenceStands'
  OBVIOUS
<1>1. ASSUME NEW v \in FrameValues, FrameArrives(v) PROVE SequenceStands'
  BY <1>1, FrameKeepsSequence
<1>2. CASE BadFrame
  BY <1>2 DEF BadFrame, SequenceStands, portVars
<1>3. CASE Answered
  <2>1. /\ twoWay' = twoWay /\ twoWay /\ progMode \in 0 .. 3 /\ sent \in Seq(Nat)
    BY <1>3 DEF Answered, SequenceStands
  <2>2. sent' \in Seq(Nat)
    <3>1. CASE sent' = IF progMode' = 0 THEN <<>> ELSE sent
      BY <3>1, <2>1
    <3>2. CASE UNCHANGED sent
      BY <3>2, <2>1
    <3>3. (sent' = IF progMode' = 0 THEN <<>> ELSE sent) \/ UNCHANGED sent
      BY <1>3, SMT DEF Answered
    <3> QED
      BY <3>1, <3>2, <3>3
  <2>3. progMode' \in 0 .. 3
    BY <1>3, <2>1, SequenceHandled DEF Answered, progVars
  <2> QED
    BY <2>1, <2>2, <2>3 DEF SequenceStands
<1>4. CASE Motor
  BY <1>4 DEF Motor, SequenceStands, portVars, progVars
<1>5. CASE Taken
  BY <1>5 DEF Taken, SequenceStands, portVars, progVars
<1>6. CASE UNCHANGED dispatchVars
  BY <1>6 DEF dispatchVars, SequenceStands, portVars, progVars
<1> QED
  BY <1>1, <1>2, <1>3, <1>4, <1>5, <1>6 DEF DispatchNext

\* The programming sequence stands at a prefix of the frames that a setting takes, in
\* every state (process_programming).
THEOREM SequenceInvariant == DispatchSpec => []SequenceStands
BY SequenceInit, SequenceNext, PTL DEF DispatchSpec

\* The step form of OneWayAsSent.
LEMMA StepAsSent ==
  ASSUME SequenceStands, [DispatchNext]_dispatchVars, settings' # settings, ~twoWay
  PROVE  WrittenAsSent
<1>1. PICK v \in FrameValues : FrameArrives(v)
  BY DEF DispatchNext, BadFrame, Answered, Motor, Taken, dispatchVars, SequenceStands
<1>2. Handle(v) /\ progMode \in 0 .. 3
  BY <1>1 DEF FrameArrives, SequenceStands
<1>3. CASE progMode = 0
  <2>1. IsCommand(v) /\ Command(v)
    BY <1>2, <1>3 DEF Handle, Cancelled, Throttle
  <2>2. Eligible
    BY <2>1 DEF Command
  <2> QED
    BY <2>2, <1>3 DEF WrittenAsSent, Eligible
<1>4. CASE progMode \in {1, 2, 3}
  <2>1. ~Cancelled /\ Programming(v)
    BY <1>2, <1>4 DEF Handle, Cancel
  <2>2. progMode = 3 /\ settings' = [settings EXCEPT ![position] = newByte]
    BY <2>1 DEF Programming
  <2>3. Len(sent) = 2 /\ sent[1] = position /\ sent[2] % 256 = newByte
    BY <2>2 DEF SequenceStands
  <2>4. dArmed /\ ~dRunning
    BY <2>1, <1>4 DEF Cancelled, Eligible
  <2> QED
    BY <2>2, <2>3, <2>4 DEF WrittenAsSent
<1> QED
  BY <1>2, <1>3, <1>4

\* On a line that the port does not answer, a setting changes only at rest, and the
\* programming sequence writes the byte it named with the value it gave (dispatch,
\* process_programming).
THEOREM SettingsWrittenAsSent == DispatchSpec => OneWayAsSent
<1>1. SequenceStands /\ [DispatchNext]_dispatchVars =>
        [settings' # settings /\ ~twoWay => WrittenAsSent]_dispatchVars
  BY StepAsSent
<1> QED
  BY <1>1, SequenceInvariant, PTL DEF DispatchSpec, OneWayAsSent

--------------------------------------------------------------------------------
(* The wire: bits and nibbles *)

Binary(b) == b = 0 \/ b = 1

\* The nibble of four bits, the lowest first.
Sum4(a, b, c, d) == a + 2 * b + 4 * c + 8 * d

\* From the fifth on the bits of a number are those of the number without its lowest four.
LEMMA HighBits ==
  ASSUME NEW n \in Int
  PROVE  /\ Bit(n, 4) = Bit(n \div 16, 0) /\ Bit(n, 5) = Bit(n \div 16, 1)
         /\ Bit(n, 6) = Bit(n \div 16, 2) /\ Bit(n, 7) = Bit(n \div 16, 3)
         /\ Bit(n, 8) = Bit(n \div 16, 4) /\ Bit(n, 9) = Bit(n \div 16, 5)
         /\ Bit(n, 10) = Bit(n \div 16, 6) /\ Bit(n, 11) = Bit(n \div 16, 7)
         /\ Bit(n, 12) = Bit(n \div 16, 8) /\ Bit(n, 13) = Bit(n \div 16, 9)
         /\ Bit(n, 14) = Bit(n \div 16, 10) /\ Bit(n, 15) = Bit(n \div 16, 11)
<1> DEFINE m == n \div 16
<1>1. /\ n \div 16 = m /\ n \div 32 = m \div 2 /\ n \div 64 = m \div 4 /\ n \div 128 = m \div 8
      /\ n \div 256 = m \div 16 /\ n \div 512 = m \div 32
  OBVIOUS
<1>2. /\ n \div 1024 = m \div 64 /\ n \div 2048 = m \div 128 /\ n \div 4096 = m \div 256
      /\ n \div 8192 = m \div 512 /\ n \div 16384 = m \div 1024 /\ n \div 32768 = m \div 2048
  OBVIOUS
<1>3. m \in Int /\ m \div 1 = m
  OBVIOUS
<1> HIDE DEF m
<1>4. /\ Bit(n, 4) = Bit(m, 0) /\ Bit(n, 5) = Bit(m, 1) /\ Bit(n, 6) = Bit(m, 2)
      /\ Bit(n, 7) = Bit(m, 3) /\ Bit(n, 8) = Bit(m, 4) /\ Bit(n, 9) = Bit(m, 5)
  BY <1>1, <1>3 DEF Bit
<1>5. /\ Bit(n, 10) = Bit(m, 6) /\ Bit(n, 11) = Bit(m, 7) /\ Bit(n, 12) = Bit(m, 8)
      /\ Bit(n, 13) = Bit(m, 9) /\ Bit(n, 14) = Bit(m, 10) /\ Bit(n, 15) = Bit(m, 11)
  BY <1>2, <1>3 DEF Bit
<1> QED
  BY <1>4, <1>5 DEF m

\* A number is twice its half and its lowest bit.
LEMMA Half ==
  ASSUME NEW m \in Nat
  PROVE  m \div 2 \in Nat /\ m = 2 * (m \div 2) + (m % 2) /\ Binary(m % 2)
<1>1. m % 2 = m - 2 * (m \div 2)
  OBVIOUS
<1>2. m \div 2 \in Nat /\ m % 2 \in Nat /\ m % 2 < 2
  OBVIOUS
<1> DEFINE q == m \div 2
           r == m % 2
<1>3. r = m - 2 * q /\ q \in Nat /\ r \in Nat /\ r < 2
  BY <1>1, <1>2
<1> HIDE DEF q, r
<1>4. q \in Nat /\ m = 2 * q + r /\ Binary(r)
  BY <1>3 DEF Binary
<1> QED
  BY <1>4 DEF q, r

\* A number is sixteen times what is above its lowest nibble, and the nibble of its bits.
LEMMA LowNibble ==
  ASSUME NEW n \in Nat
  PROVE  /\ Binary(Bit(n, 0)) /\ Binary(Bit(n, 1)) /\ Binary(Bit(n, 2)) /\ Binary(Bit(n, 3))
         /\ n \div 16 \in Nat
         /\ n = 16 * (n \div 16) + Sum4(Bit(n, 0), Bit(n, 1), Bit(n, 2), Bit(n, 3))
<1> DEFINE h == n \div 2
           q == n \div 4
           e == n \div 8
           s == n \div 16
<1>1. h \div 2 = q /\ q \div 2 = e /\ e \div 2 = s
  OBVIOUS
<1>2. Bit(n, 0) = (n % 2) /\ Bit(n, 1) = (h % 2) /\ Bit(n, 2) = (q % 2) /\ Bit(n, 3) = (e % 2)
  BY DEF Bit
<1>3. h = n \div 2
  OBVIOUS
<1> HIDE DEF h, q, e, s
<1>4. h \in Nat /\ n = 2 * h + Bit(n, 0) /\ Binary(Bit(n, 0))
  BY <1>2, <1>3, Half
<1>5. q \in Nat /\ h = 2 * q + Bit(n, 1) /\ Binary(Bit(n, 1))
  BY <1>1, <1>2, <1>4, Half
<1>6. e \in Nat /\ q = 2 * e + Bit(n, 2) /\ Binary(Bit(n, 2))
  BY <1>1, <1>2, <1>5, Half
<1>7. s \in Nat /\ e = 2 * s + Bit(n, 3) /\ Binary(Bit(n, 3))
  BY <1>1, <1>2, <1>6, Half
<1>8. n = 16 * s + Sum4(Bit(n, 0), Bit(n, 1), Bit(n, 2), Bit(n, 3))
  BY <1>4, <1>5, <1>6, <1>7 DEF Binary, Sum4
<1> QED
  BY <1>4, <1>5, <1>6, <1>7, <1>8 DEF s

\* Four bits make one number only.
LEMMA SameBits ==
  ASSUME NEW a, NEW b, NEW c, NEW d, NEW w, NEW x, NEW y, NEW z,
         Binary(a), Binary(b), Binary(c), Binary(d), Binary(w), Binary(x), Binary(y), Binary(z),
         Sum4(a, b, c, d) = Sum4(w, x, y, z)
  PROVE  a = w /\ b = x /\ c = y /\ d = z
BY DEF Binary, Sum4

\* A nibble put below a number: the parts, and the bits, are the ones it was made from.
LEMMA Appended ==
  ASSUME NEW m \in Nat, NEW a, NEW b, NEW c, NEW d,
         Binary(a), Binary(b), Binary(c), Binary(d),
         NEW n \in Int, n = 16 * m + Sum4(a, b, c, d)
  PROVE  /\ n \in Nat /\ n \div 16 = m /\ n % 16 = Sum4(a, b, c, d)
         /\ Bit(n, 0) = a /\ Bit(n, 1) = b /\ Bit(n, 2) = c /\ Bit(n, 3) = d
<1> DEFINE r == Sum4(a, b, c, d)
<1>1. r \in Nat /\ r < 16
  BY DEF Binary, Sum4
<1>2. n = 16 * m + r
  OBVIOUS
<1> HIDE DEF r
<1>3. n \in Nat /\ n \div 16 = m /\ n % 16 = r
  BY <1>1, <1>2
<1> DEFINE p == Bit(n, 0)
           q == Bit(n, 1)
           s == Bit(n, 2)
           t == Bit(n, 3)
<1>4. Binary(p) /\ Binary(q) /\ Binary(s) /\ Binary(t) /\ n = 16 * m + Sum4(p, q, s, t)
  <2>1. n \div 16 = m
    BY <1>3
  <2> QED
    BY <1>3, <2>1, LowNibble
<1> HIDE DEF p, q, s, t
<1>5. Sum4(a, b, c, d) = Sum4(p, q, s, t)
  BY <1>4 DEF Binary, Sum4
<1>6. a = p /\ b = q /\ c = s /\ d = t
  BY <1>4, <1>5, SameBits
<1> QED
  BY <1>3, <1>6 DEF p, q, s, t, r

--------------------------------------------------------------------------------
(* Sixteen bits *)

Bits16 == [0 .. 15 -> {0, 1}]

Word(b) == Sum4(b[0], b[1], b[2], b[3]) + 16 * Sum4(b[4], b[5], b[6], b[7])
             + 256 * Sum4(b[8], b[9], b[10], b[11]) + 4096 * Sum4(b[12], b[13], b[14], b[15])

\* The nibbles of sixteen bits.
LEMMA BitsOfWord ==
  ASSUME NEW b \in Bits16
  PROVE  /\ \A i \in 0 .. 15 : Binary(b[i])
         /\ Sum4(b[0], b[1], b[2], b[3]) \in Nat /\ Sum4(b[4], b[5], b[6], b[7]) \in Nat
         /\ Sum4(b[8], b[9], b[10], b[11]) \in Nat /\ Sum4(b[12], b[13], b[14], b[15]) \in Nat
         /\ Sum4(b[0], b[1], b[2], b[3]) < 16 /\ Sum4(b[4], b[5], b[6], b[7]) < 16
         /\ Sum4(b[8], b[9], b[10], b[11]) < 16 /\ Sum4(b[12], b[13], b[14], b[15]) < 16
<1>1. \A i \in 0 .. 15 : Binary(b[i])
  BY DEF Bits16, Binary
<1>2. ASSUME NEW w, NEW x, NEW y, NEW z, Binary(w), Binary(x), Binary(y), Binary(z)
      PROVE  Sum4(w, x, y, z) \in Nat /\ Sum4(w, x, y, z) < 16
  BY <1>2 DEF Binary, Sum4
<1> QED
  BY <1>1, <1>2

\* A word's bits are the ones it was made from.
LEMMA WordBits ==
  ASSUME NEW b \in Bits16
  PROVE  /\ Word(b) \in Nat /\ Word(b) < 65536 /\ Word(b) % 16 = Sum4(b[0], b[1], b[2], b[3])
         /\ \A i \in 0 .. 15 : Bit(Word(b), i) = b[i]
<1> DEFINE A == Sum4(b[0], b[1], b[2], b[3])
           B == Sum4(b[4], b[5], b[6], b[7])
           C == Sum4(b[8], b[9], b[10], b[11])
           D == Sum4(b[12], b[13], b[14], b[15])
           n == Word(b)
           p == B + 16 * C + 256 * D
           q == C + 16 * D
<1>1. A \in Nat /\ B \in Nat /\ C \in Nat /\ D \in Nat /\ \A i \in 0 .. 15 : Binary(b[i])
  BY BitsOfWord
<1>13. A < 16 /\ B < 16 /\ C < 16 /\ D < 16
  BY BitsOfWord
<1>2. n = A + 16 * B + 256 * C + 4096 * D
  BY DEF Word
<1> HIDE DEF A, B, C, D, n
<1>3. /\ p \in Nat /\ q \in Nat /\ n \in Int
      /\ n = 16 * p + A /\ p = 16 * q + B /\ q = 16 * D + C /\ D = 16 * 0 + D
  BY <1>1, <1>2
<1> HIDE DEF p, q
<1>4. /\ n \in Nat /\ n \div 16 = p /\ n % 16 = A
      /\ Bit(n, 0) = b[0] /\ Bit(n, 1) = b[1] /\ Bit(n, 2) = b[2] /\ Bit(n, 3) = b[3]
  <2>1. Binary(b[0]) /\ Binary(b[1]) /\ Binary(b[2]) /\ Binary(b[3])
    BY <1>1
  <2>2. n \in Int /\ p \in Nat /\ n = 16 * p + Sum4(b[0], b[1], b[2], b[3])
    BY <1>1, <1>3 DEF A
  <2> HIDE DEF A
  <2> QED
    BY <2>1, <2>2, Appended DEF A
<1>5. /\ p \div 16 = q
      /\ Bit(p, 0) = b[4] /\ Bit(p, 1) = b[5] /\ Bit(p, 2) = b[6] /\ Bit(p, 3) = b[7]
  <2>1. Binary(b[4]) /\ Binary(b[5]) /\ Binary(b[6]) /\ Binary(b[7])
    BY <1>1
  <2>2. p \in Int /\ q \in Nat /\ p = 16 * q + Sum4(b[4], b[5], b[6], b[7])
    BY <1>1, <1>3 DEF B
  <2> HIDE DEF B
  <2> QED
    BY <2>1, <2>2, Appended DEF B
<1>6. /\ q \div 16 = D
      /\ Bit(q, 0) = b[8] /\ Bit(q, 1) = b[9] /\ Bit(q, 2) = b[10] /\ Bit(q, 3) = b[11]
  <2>1. Binary(b[8]) /\ Binary(b[9]) /\ Binary(b[10]) /\ Binary(b[11])
    BY <1>1
  <2>2. q \in Int /\ D \in Nat /\ q = 16 * D + Sum4(b[8], b[9], b[10], b[11])
    BY <1>1, <1>3 DEF C
  <2> HIDE DEF C
  <2> QED
    BY <2>1, <2>2, Appended DEF C
<1>7. Bit(D, 0) = b[12] /\ Bit(D, 1) = b[13] /\ Bit(D, 2) = b[14] /\ Bit(D, 3) = b[15]
  <2>1. PICK z \in Nat : z = 0
    OBVIOUS
  <2>2. D \in Int /\ D = 16 * z + D /\ D = Sum4(b[12], b[13], b[14], b[15])
    BY <1>1, <2>1 DEF D
  <2> QED
    BY <1>1, <2>2, Appended
<1>8. /\ Bit(n, 4) = b[4] /\ Bit(n, 5) = b[5] /\ Bit(n, 6) = b[6] /\ Bit(n, 7) = b[7]
  BY <1>3, <1>4, <1>5, HighBits
<1>9. /\ Bit(p, 4) = b[8] /\ Bit(p, 5) = b[9] /\ Bit(p, 6) = b[10] /\ Bit(p, 7) = b[11]
      /\ Bit(q, 4) = b[12] /\ Bit(q, 5) = b[13] /\ Bit(q, 6) = b[14] /\ Bit(q, 7) = b[15]
  BY <1>3, <1>5, <1>6, <1>7, HighBits
<1>10. /\ Bit(p, 8) = b[12] /\ Bit(p, 9) = b[13] /\ Bit(p, 10) = b[14] /\ Bit(p, 11) = b[15]
  BY <1>3, <1>5, <1>9, HighBits
<1>11. /\ Bit(n, 8) = b[8] /\ Bit(n, 9) = b[9] /\ Bit(n, 10) = b[10] /\ Bit(n, 11) = b[11]
       /\ Bit(n, 12) = b[12] /\ Bit(n, 13) = b[13] /\ Bit(n, 14) = b[14] /\ Bit(n, 15) = b[15]
  BY <1>3, <1>4, <1>9, <1>10, HighBits
<1>12. \A i \in 0 .. 15 : Bit(n, i) = b[i]
  BY <1>4, <1>8, <1>11
<1>14. n < 65536
  BY <1>1, <1>2, <1>13
<1> QED
  BY <1>4, <1>12, <1>14 DEF n, A

\* A number of sixteen bits is the word of its bits.
LEMMA WordOfBits ==
  ASSUME NEW n \in Nat, n < 65536, NEW b, b = [i \in 0 .. 15 |-> Bit(n, i)]
  PROVE  b \in Bits16 /\ Word(b) = n
<1> DEFINE p == n \div 16
           q == p \div 16
           D == q \div 16
           E == D \div 16
<1>1. /\ Binary(Bit(n, 0)) /\ Binary(Bit(n, 1)) /\ Binary(Bit(n, 2)) /\ Binary(Bit(n, 3))
      /\ p \in Nat /\ n = 16 * p + Sum4(Bit(n, 0), Bit(n, 1), Bit(n, 2), Bit(n, 3))
  BY LowNibble
<1>2. /\ Binary(Bit(p, 0)) /\ Binary(Bit(p, 1)) /\ Binary(Bit(p, 2)) /\ Binary(Bit(p, 3))
      /\ q \in Nat /\ p = 16 * q + Sum4(Bit(p, 0), Bit(p, 1), Bit(p, 2), Bit(p, 3))
  BY <1>1, LowNibble
<1>3. /\ Binary(Bit(q, 0)) /\ Binary(Bit(q, 1)) /\ Binary(Bit(q, 2)) /\ Binary(Bit(q, 3))
      /\ D \in Nat /\ q = 16 * D + Sum4(Bit(q, 0), Bit(q, 1), Bit(q, 2), Bit(q, 3))
  BY <1>2, LowNibble
<1>4. /\ Binary(Bit(D, 0)) /\ Binary(Bit(D, 1)) /\ Binary(Bit(D, 2)) /\ Binary(Bit(D, 3))
      /\ E \in Nat /\ D = 16 * E + Sum4(Bit(D, 0), Bit(D, 1), Bit(D, 2), Bit(D, 3))
  BY <1>3, LowNibble
<1>5. p = n \div 16 /\ q = p \div 16 /\ D = q \div 16
  OBVIOUS
<1> HIDE DEF p, q, D, E
<1>6. /\ Bit(n, 4) = Bit(p, 0) /\ Bit(n, 5) = Bit(p, 1) /\ Bit(n, 6) = Bit(p, 2) /\ Bit(n, 7) = Bit(p, 3)
      /\ Bit(n, 8) = Bit(p, 4) /\ Bit(n, 9) = Bit(p, 5) /\ Bit(n, 10) = Bit(p, 6) /\ Bit(n, 11) = Bit(p, 7)
      /\ Bit(n, 12) = Bit(p, 8) /\ Bit(n, 13) = Bit(p, 9) /\ Bit(n, 14) = Bit(p, 10) /\ Bit(n, 15) = Bit(p, 11)
  BY <1>5, HighBits
<1>7. /\ Bit(p, 4) = Bit(q, 0) /\ Bit(p, 5) = Bit(q, 1) /\ Bit(p, 6) = Bit(q, 2) /\ Bit(p, 7) = Bit(q, 3)
      /\ Bit(p, 8) = Bit(q, 4) /\ Bit(p, 9) = Bit(q, 5) /\ Bit(p, 10) = Bit(q, 6) /\ Bit(p, 11) = Bit(q, 7)
      /\ Bit(q, 4) = Bit(D, 0) /\ Bit(q, 5) = Bit(D, 1) /\ Bit(q, 6) = Bit(D, 2) /\ Bit(q, 7) = Bit(D, 3)
  BY <1>1, <1>2, <1>5, HighBits
<1>8. \A i \in 0 .. 15 : b[i] = Bit(n, i) /\ Binary(b[i])
  BY <1>1, <1>2, <1>3, <1>4, <1>6, <1>7
<1>9. b \in Bits16
  BY <1>8 DEF Bits16, Binary
<1>10. /\ Sum4(b[0], b[1], b[2], b[3]) = Sum4(Bit(n, 0), Bit(n, 1), Bit(n, 2), Bit(n, 3))
       /\ Sum4(b[4], b[5], b[6], b[7]) = Sum4(Bit(p, 0), Bit(p, 1), Bit(p, 2), Bit(p, 3))
       /\ Sum4(b[8], b[9], b[10], b[11]) = Sum4(Bit(q, 0), Bit(q, 1), Bit(q, 2), Bit(q, 3))
       /\ Sum4(b[12], b[13], b[14], b[15]) = Sum4(Bit(D, 0), Bit(D, 1), Bit(D, 2), Bit(D, 3))
  BY <1>6, <1>7, <1>8
<1>11. /\ Sum4(b[0], b[1], b[2], b[3]) \in Nat /\ Sum4(b[4], b[5], b[6], b[7]) \in Nat
       /\ Sum4(b[8], b[9], b[10], b[11]) \in Nat /\ Sum4(b[12], b[13], b[14], b[15]) \in Nat
  BY <1>9, BitsOfWord
<1> DEFINE A == Sum4(b[0], b[1], b[2], b[3])
           B == Sum4(b[4], b[5], b[6], b[7])
           C == Sum4(b[8], b[9], b[10], b[11])
           F == Sum4(b[12], b[13], b[14], b[15])
<1>12. n = 16 * p + A /\ p = 16 * q + B /\ q = 16 * D + C /\ D = 16 * E + F
  BY <1>1, <1>2, <1>3, <1>4, <1>10
<1>13. Word(b) = A + 16 * B + 256 * C + 4096 * F
  BY DEF Word
<1> HIDE DEF A, B, C, F
<1>14. A \in Nat /\ B \in Nat /\ C \in Nat /\ F \in Nat
  BY <1>11 DEF A, B, C, F
<1>15. n = A + 16 * B + 256 * C + 4096 * F + 65536 * E
  BY <1>1, <1>2, <1>3, <1>4, <1>12, <1>14
<1>16. E = 0
  BY <1>4, <1>14, <1>15
<1>17. Word(b) = n
  BY <1>13, <1>14, <1>15, <1>16
<1> QED
  BY <1>9, <1>17

--------------------------------------------------------------------------------
(* The frame *)

\* A pulse is taken for the bit that it stands for, at every bit time of a frame in the window.
LEMMA PulsesRead ==
  ASSUME NEW b \in Bits16, NEW bitTime \in Nat, NEW widths, NEW time,
         widths = [i \in 0 .. 15 |-> ((3 * bitTime) \div 8) * (1 + b[i])],
         time = 15 * bitTime + widths[0], time > 110
  PROVE  PacketOf(time, widths) = Word(b)
<1> DEFINE w == (3 * bitTime) \div 8
           h == time \div 32
<1>1. w \in Nat /\ 8 * w <= 3 * bitTime /\ 3 * bitTime < 8 * w + 8
  OBVIOUS
<1>2. \A i \in 0 .. 15 : widths[i] = w * (1 + b[i]) /\ (b[i] = 0 \/ b[i] = 1)
  BY BitsOfWord DEF Binary
<1> HIDE DEF w
<1>3. \A i \in 0 .. 15 : (b[i] = 0 /\ widths[i] = w) \/ (b[i] = 1 /\ widths[i] = 2 * w)
  BY <1>1, <1>2
<1>4. time \in Nat /\ 15 * bitTime + w <= time /\ time <= 15 * bitTime + 2 * w
  BY <1>1, <1>3
<1>5. h \in Nat /\ 32 * h <= time /\ time < 32 * h + 32
  BY <1>4
<1>6. h = time \div 32
  OBVIOUS
<1> HIDE DEF h
<1>7. bitTime > 7
  BY <1>1, <1>4
<1>8. w <= h /\ 2 * w > h
  BY <1>1, <1>4, <1>5, <1>7
<1>9. \A i \in 0 .. 15 : b[i] = IF widths[i] > h THEN 1 ELSE 0
  BY <1>1, <1>3, <1>5, <1>8
<1> DEFINE at(i) == IF widths[i] > h THEN 1 ELSE 0
<1>10. \A i \in 0 .. 15 : at(i) = b[i]
  BY <1>9
<1>11. PacketOf(time, widths) =
          Sum4(at(0 + 0), at(0 + 1), at(0 + 2), at(0 + 3)) + 16 * Sum4(at(4 + 0), at(4 + 1), at(4 + 2), at(4 + 3))
            + 256 * Sum4(at(8 + 0), at(8 + 1), at(8 + 2), at(8 + 3)) + 4096 * Sum4(at(12 + 0), at(12 + 1), at(12 + 2), at(12 + 3))
  BY <1>6 DEF PacketOf, Nibble, Sum4
<1> HIDE DEF at
<1>12. /\ 0 + 0 = 0 /\ 0 + 1 = 1 /\ 0 + 2 = 2 /\ 0 + 3 = 3 /\ 4 + 0 = 4 /\ 4 + 1 = 5 /\ 4 + 2 = 6 /\ 4 + 3 = 7
       /\ 8 + 0 = 8 /\ 8 + 1 = 9 /\ 8 + 2 = 10 /\ 8 + 3 = 11 /\ 12 + 0 = 12 /\ 12 + 1 = 13 /\ 12 + 2 = 14 /\ 12 + 3 = 15
  OBVIOUS
<1> QED
  BY <1>10, <1>11, <1>12 DEF Word

\* A column of the checksum, the exclusive or of three bits: one bit turned turns it.
Column(a, b, c) == (a + b + c) % 2

LEMMA Columns ==
  ASSUME NEW a, NEW b, NEW c, Binary(a), Binary(b), Binary(c)
  PROVE  /\ Binary(Column(a, b, c)) /\ Column(1 - a, b, c) # Column(a, b, c)
         /\ Column(a, 1 - b, c) # Column(a, b, c) /\ Column(a, b, 1 - c) # Column(a, b, c)
BY DEF Binary, Column

\* The checksum of the nibbles from the second on, and from the first on.
LEMMA ChecksumColumns ==
  ASSUME NEW n \in Int
  PROVE  /\ Checksum(n, 4) = Sum4(Column(Bit(n, 4), Bit(n, 8), Bit(n, 12)),
                                  Column(Bit(n, 5), Bit(n, 9), Bit(n, 13)),
                                  Column(Bit(n, 6), Bit(n, 10), Bit(n, 14)),
                                  Column(Bit(n, 7), Bit(n, 11), Bit(n, 15)))
         /\ Checksum(n, 0) = Sum4(Column(Bit(n, 0), Bit(n, 4), Bit(n, 8)),
                                  Column(Bit(n, 1), Bit(n, 5), Bit(n, 9)),
                                  Column(Bit(n, 2), Bit(n, 6), Bit(n, 10)),
                                  Column(Bit(n, 3), Bit(n, 7), Bit(n, 11)))
<1>1. Checksum(n, 4) = Sum4(Column(Bit(n, 4), Bit(n, 8), Bit(n, 12)),
                            Column(Bit(n, 5), Bit(n, 9), Bit(n, 13)),
                            Column(Bit(n, 6), Bit(n, 10), Bit(n, 14)),
                            Column(Bit(n, 7), Bit(n, 11), Bit(n, 15)))
  BY DEF Checksum, Nibble, Sum4, Column
<1>2. Checksum(n, 0) = Sum4(Column(Bit(n, 0), Bit(n, 4), Bit(n, 8)),
                            Column(Bit(n, 1), Bit(n, 5), Bit(n, 9)),
                            Column(Bit(n, 2), Bit(n, 6), Bit(n, 10)),
                            Column(Bit(n, 3), Bit(n, 7), Bit(n, 11)))
  BY DEF Checksum, Nibble, Sum4, Column
<1> QED
  BY <1>1, <1>2

\* A number's bits are bits, and its lowest four its remainder by 16.
LEMMA NumberBits ==
  ASSUME NEW n \in Nat, n < 65536
  PROVE  /\ \A i \in 0 .. 15 : Binary(Bit(n, i))
         /\ n % 16 = Sum4(Bit(n, 0), Bit(n, 1), Bit(n, 2), Bit(n, 3))
<1> DEFINE b == [i \in 0 .. 15 |-> Bit(n, i)]
<1>1. b \in Bits16 /\ Word(b) = n /\ \A i \in 0 .. 15 : b[i] = Bit(n, i)
  BY WordOfBits
<1> HIDE DEF b
<1>2. \A i \in 0 .. 15 : Binary(b[i])
  BY <1>1, BitsOfWord
<1>3. n % 16 = Sum4(b[0], b[1], b[2], b[3])
  BY <1>1, WordBits
<1> QED
  BY <1>1, <1>2, <1>3

\* A checksum is a nibble.
LEMMA ChecksumNibble ==
  ASSUME NEW n \in Nat, n < 65536
  PROVE  Checksum(n, 4) \in 0 .. 15 /\ Checksum(n, 0) \in 0 .. 15
<1>1. \A i \in 0 .. 15 : Binary(Bit(n, i))
  BY NumberBits
<1>2. ASSUME NEW w, NEW x, NEW y, NEW z, Binary(w), Binary(x), Binary(y), Binary(z)
      PROVE  Sum4(w, x, y, z) \in 0 .. 15
  BY <1>2 DEF Binary, Sum4
<1>3. Checksum(n, 4) \in 0 .. 15
  BY <1>1, <1>2, Columns, ChecksumColumns
<1>4. Checksum(n, 0) \in 0 .. 15
  BY <1>1, <1>2, Columns, ChecksumColumns
<1> QED
  BY <1>3, <1>4

\* The four lowest bits do not count in the checksum of a frame.
LEMMA SameChecksum ==
  ASSUME NEW m \in Int, NEW n \in Int, m \div 16 = n \div 16
  PROVE  /\ \A i \in 4 .. 15 : Bit(m, i) = Bit(n, i)
         /\ Checksum(m, 4) = Checksum(n, 4)
<1>1. \A i \in 4 .. 15 : Bit(m, i) = Bit(n, i)
  BY HighBits
<1> QED
  BY <1>1, ChecksumColumns

\* A packet holds the value, the telemetry bit and the checksum that the receiver computes.
LEMMA PacketParts ==
  ASSUME NEW v \in Nat, v < 2048, NEW t \in {0, 1}
  PROVE  /\ Packet(v, t) \in Nat /\ Packet(v, t) < 65536
         /\ Packet(v, t) \div 32 = v /\ Bit(Packet(v, t), 4) = t
         /\ Checksum(Packet(v, t), 4) = ReceivedSum(Packet(v, t))
<1> DEFINE body == 32 * v + 16 * t
           sum == Checksum(body, 4)
           c == IF twoWayLine THEN 15 - sum ELSE sum
           p == Packet(v, t)
<1>1. body \in Nat /\ body <= 65520 /\ body \div 16 = 2 * v + t
  <2>1. PICK k \in Nat : k = 2 * v + t
    OBVIOUS
  <2>2. body = 16 * k
    BY <2>1
  <2> HIDE DEF body
  <2>3. k <= 2 * 2047 + 1 /\ 2 * 2047 + 1 = 4095
    BY <2>1
  <2>4. body \in Nat /\ body <= 65520 /\ body \div 16 = k
    BY <2>2, <2>3
  <2> QED
    BY <2>1, <2>4
<1>2. p = body + c
  BY DEF Packet, Inverted
<1>3. body = 32 * v + 16 * t
  OBVIOUS
<1> HIDE DEF body
<1>4. sum \in 0 .. 15
  BY <1>1, ChecksumNibble
<1> HIDE DEF sum
<1>5. c \in 0 .. 15 /\ (IF twoWayLine THEN 15 - c ELSE c) = sum
  BY <1>4
<1> HIDE DEF c, p
<1>6. p \in Nat /\ p < 65536 /\ p \div 16 = 2 * v + t /\ p % 16 = c /\ p \div 32 = v
  BY <1>1, <1>2, <1>3, <1>5
<1>7. Checksum(p, 4) = sum
  BY <1>1, <1>6, SameChecksum DEF sum
<1>8. ReceivedSum(p) = sum
  BY <1>5, <1>6 DEF ReceivedSum, Inverted
<1>9. Bit(p, 4) = t
  <2>1. Bit(p, 4) = ((p \div 16) % 2)
    BY DEF Bit
  <2>2. (2 * v + t) % 2 = t
    OBVIOUS
  <2> QED
    BY <1>6, <2>1, <2>2
<1> QED
  BY <1>6, <1>7, <1>8, <1>9 DEF p

\* With one of its bits turned a packet's checksum and its sum disagree.
LEMMA TurnedFails ==
  ASSUME NEW p \in Nat, p < 65536, NEW r \in Nat, r < 65536, NEW flip \in 0 .. 15,
         \A i \in 0 .. 15 : Bit(r, i) = IF i = flip THEN 1 - Bit(p, i) ELSE Bit(p, i),
         Checksum(p, 4) = ReceivedSum(p)
  PROVE  Checksum(r, 4) # ReceivedSum(r)
<1>1. \A i \in 0 .. 15 : Binary(Bit(p, i)) /\ Binary(Bit(r, i))
  BY NumberBits
<1>2. /\ p % 16 = Sum4(Bit(p, 0), Bit(p, 1), Bit(p, 2), Bit(p, 3))
      /\ r % 16 = Sum4(Bit(r, 0), Bit(r, 1), Bit(r, 2), Bit(r, 3))
  BY NumberBits
<1>3. Bit(r, flip) # Bit(p, flip)
  BY <1>1 DEF Binary
<1>4. p % 16 \in Int /\ r % 16 \in Int
  OBVIOUS
<1>5. CASE flip \in 0 .. 3
  <2>1. \A i \in 4 .. 15 : Bit(r, i) = Bit(p, i)
    BY <1>5
  <2>2. Checksum(r, 4) = Checksum(p, 4)
    BY <2>1, ChecksumColumns
  <2>3. p % 16 # r % 16
    BY <1>1, <1>2, <1>3, <1>5, SameBits
  <2>4. ReceivedSum(p) # ReceivedSum(r)
    BY <1>4, <2>3 DEF ReceivedSum, Inverted
  <2> QED
    BY <2>2, <2>4
<1>6. CASE flip \in 4 .. 15
  <2>1. p % 16 = r % 16
    BY <1>2, <1>6
  <2>2. ReceivedSum(p) = ReceivedSum(r)
    BY <2>1 DEF ReceivedSum
  <2>3. ASSUME Checksum(r, 4) = Checksum(p, 4) PROVE FALSE
    <3> DEFINE column(n, i) == Column(Bit(n, i), Bit(n, i + 4), Bit(n, i + 8))
    <3>1. \A i \in 4 .. 7 : Binary(column(p, i)) /\ Binary(column(r, i))
      BY <1>1, Columns
    <3>2. \E i \in 4 .. 7 : column(p, i) # column(r, i)
      <4>1. CASE flip \in 4 .. 7
        BY <1>1, <4>1, Columns
      <4>2. CASE flip \in 8 .. 11
        <5>1. PICK i \in 4 .. 7 : flip = i + 4
          BY <4>2
        <5> QED
          BY <1>1, <5>1, Columns
      <4>3. CASE flip \in 12 .. 15
        <5>1. PICK i \in 4 .. 7 : flip = i + 8
          BY <4>3
        <5> QED
          BY <1>1, <5>1, Columns
      <4> QED
        BY <1>6, <4>1, <4>2, <4>3
    <3>3. /\ Checksum(p, 4) = Sum4(column(p, 4), column(p, 5), column(p, 6), column(p, 7))
          /\ Checksum(r, 4) = Sum4(column(r, 4), column(r, 5), column(r, 6), column(r, 7))
      BY ChecksumColumns
    <3> HIDE DEF column
    <3>4. /\ column(p, 4) = column(r, 4) /\ column(p, 5) = column(r, 5)
          /\ column(p, 6) = column(r, 6) /\ column(p, 7) = column(r, 7)
      BY <2>3, <3>1, <3>3, SameBits
    <3> QED
      BY <3>2, <3>4
  <2> QED
    BY <2>2, <2>3
<1> QED
  BY <1>5, <1>6

\* What the controller makes of a frame, with and without a bit turned on the wire.
LEMMA FrameRead ==
  ASSUME NEW v \in Values, NEW t \in {0, 1}, NEW bitTime \in BitTimes, NEW flip \in Flips \cup {16},
         NEW wire, wire = OnWire(Packet(v, t), flip),
         NEW widths, widths = [i \in 0 .. 15 |-> ((3 * bitTime) \div 8) * (1 + wire[i])],
         NEW time, time = 15 * bitTime + widths[0]
  PROVE  DecodeFrame(time, widths) =
           IF time \in WindowLow + 1 .. WindowHigh - 1
           THEN IF flip # 16 THEN BadCrc ELSE Meaning(v, t = 1)
           ELSE InvalidTiming
<1> DEFINE p == Packet(v, t)
           r == Word(wire)
<1>1. /\ v \in Nat /\ v < 2048 /\ bitTime \in Nat /\ flip \in 0 .. 16
      /\ WindowLow \in Nat /\ WindowHigh \in Nat /\ WindowLow >= 110
  <2>1. bitTime \in 1 .. 4095
    BY LinkAssumption
  <2>2. bitTime \in Nat
    BY <2>1
  <2>3. v \in Nat /\ v < 2048 /\ flip \in 0 .. 16
    BY LinkAssumption
  <2>4. WindowLow \in Nat /\ WindowHigh \in Nat /\ WindowLow >= 110
    BY LinkAssumption
  <2> QED
    BY <2>2, <2>3, <2>4
<1>2. /\ p \in Nat /\ p < 65536 /\ p \div 32 = v /\ Bit(p, 4) = t
      /\ Checksum(p, 4) = ReceivedSum(p)
  BY <1>1, PacketParts
<1>3. wire = [i \in 0 .. 15 |-> IF i = flip THEN 1 - Bit(p, i) ELSE Bit(p, i)]
  BY DEF OnWire
<1> HIDE DEF p
<1>4. \A i \in 0 .. 15 : Binary(Bit(p, i))
  BY <1>2, NumberBits
<1>5. wire \in Bits16
  BY <1>3, <1>4 DEF Binary, Bits16
<1>6. time \in Nat
  <2>1. ((3 * bitTime) \div 8) \in Nat
    BY <1>1
  <2>2. wire[0] \in Nat
    BY <1>5 DEF Bits16
  <2>3. widths[0] \in Nat
    BY <2>1, <2>2
  <2> QED
    BY <1>1, <2>3
<1>7. CASE time \notin WindowLow + 1 .. WindowHigh - 1
  BY <1>1, <1>6, <1>7 DEF DecodeFrame
<1>8. CASE time \in WindowLow + 1 .. WindowHigh - 1
  <2>1. time > 110 /\ ~(time <= WindowLow \/ time >= WindowHigh)
    BY <1>1, <1>6, <1>8
  <2>2. PacketOf(time, widths) = r
    BY <1>1, <1>5, <2>1, PulsesRead
  <2>3. DecodeFrame(time, widths) = Unpack(r)
    BY <2>1, <2>2 DEF DecodeFrame
  <2>4. r \in Nat /\ \A i \in 0 .. 15 : Bit(r, i) = wire[i]
    BY <1>5, WordBits
  <2>5. r < 65536
    BY <1>5, WordBits
  <2> HIDE DEF r
  <2>6. CASE flip # 16
    <3>1. flip \in 0 .. 15
      BY <1>1, <2>6
    <3>2. \A i \in 0 .. 15 : Bit(r, i) = IF i = flip THEN 1 - Bit(p, i) ELSE Bit(p, i)
      BY <1>3, <2>4
    <3>3. Checksum(r, 4) # ReceivedSum(r)
      BY <1>2, <2>4, <2>5, <3>1, <3>2, TurnedFails
    <3> QED
      BY <1>8, <2>3, <2>6, <3>3 DEF Unpack
  <2>7. CASE flip = 16
    <3>1. wire = [i \in 0 .. 15 |-> Bit(p, i)]
      BY <1>3, <2>7
    <3>2. r = p
      BY <1>2, <3>1, WordOfBits DEF r
    <3>3. Unpack(r) = Meaning(v, t = 1)
      BY <1>2, <3>2 DEF Unpack
    <3> QED
      BY <1>8, <2>3, <2>7, <3>3
  <2> QED
    BY <2>6, <2>7
<1> QED
  BY <1>7, <1>8

--------------------------------------------------------------------------------
(* The levels of an answer *)

\* The levels one by one, from the bits and the level before.
LevelStep(bits, f, i) == IF i <= 1 THEN i ELSE (bits[21 - i] + f[i - 1]) % 2

\* There are levels for all bits, by counting.
LEMMA SomeLevels ==
  ASSUME NEW bits \in [0 .. 19 -> {0, 1}]
  PROVE  \E f \in [0 .. 21 -> {0, 1}] : \A i \in 0 .. 21 : f[i] = LevelStep(bits, f, i)
<1> DEFINE T == {k \in Nat : \E f \in [0 .. 21 -> {0, 1}] : \A i \in 0 .. k : i <= 21 => f[i] = LevelStep(bits, f, i)}
<1>1. 0 \in T
  <2> DEFINE f == [i \in 0 .. 21 |-> 0]
  <2>1. f \in [0 .. 21 -> {0, 1}] /\ \A i \in 0 .. 0 : f[i] = LevelStep(bits, f, i)
    BY DEF LevelStep
  <2> QED
    BY <2>1
<1>2. ASSUME NEW k \in 0 .. 20, k \in T PROVE k + 1 \in T
  <2>1. PICK f \in [0 .. 21 -> {0, 1}] : \A i \in 0 .. k : f[i] = LevelStep(bits, f, i)
    BY <1>2
  <2> DEFINE g == [f EXCEPT ![k + 1] = LevelStep(bits, f, k + 1)]
  <2>2. LevelStep(bits, f, k + 1) \in {0, 1}
    <3>1. CASE k + 1 <= 1
      BY <3>1 DEF LevelStep
    <3>2. CASE k + 1 > 1
      <4>1. k \in 0 .. 21 /\ 21 - (k + 1) \in 0 .. 19 /\ k + 1 - 1 = k
        BY <3>2
      <4>2. PICK x \in {0, 1} : x = bits[21 - (k + 1)]
        BY <4>1
      <4>3. PICK y \in {0, 1} : y = f[k]
        BY <4>1
      <4>4. (x + y) % 2 \in {0, 1}
        OBVIOUS
      <4> QED
        BY <3>2, <4>1, <4>2, <4>3, <4>4 DEF LevelStep
    <3> QED
      BY <3>1, <3>2
  <2>3. g \in [0 .. 21 -> {0, 1}] /\ \A i \in 0 .. k : g[i] = f[i]
    BY <2>2
  <2>4. \A i \in 0 .. k + 1 : g[i] = LevelStep(bits, f, i)
    BY <2>1, <2>2
  <2>5. \A i \in 0 .. k + 1 : LevelStep(bits, f, i) = LevelStep(bits, g, i)
    <3> SUFFICES ASSUME NEW i \in 0 .. k + 1, i > 1 PROVE f[i - 1] = g[i - 1]
      BY DEF LevelStep
    <3> QED
      BY <2>3
  <2> HIDE DEF g
  <2>6. \A i \in 0 .. k + 1 : i <= 21 => g[i] = LevelStep(bits, g, i)
    BY <2>4, <2>5
  <2> QED
    BY <2>3, <2>6
<1> HIDE DEF T
<1>3. 0 .. 21 \subseteq T
  <2>1. \A k \in 0 .. 21 - 1 : k \in T => k + 1 \in T
    BY <1>2
  <2> QED
    BY <1>1, <2>1, Counting
<1>4. 21 \in T
  BY <1>3
<1> QED
  BY <1>4 DEF T

\* From the third level on a set bit is a transition.
LEMMA LevelsTurn ==
  ASSUME NEW v, NEW bits, bits = GcrBits(v), bits \in [0 .. 19 -> {0, 1}]
  PROVE  /\ Levels(v) \in [0 .. 21 -> {0, 1}]
         /\ \A i \in 2 .. 21 : Levels(v)[i] = (bits[21 - i] + Levels(v)[i - 1]) % 2
<1>1. Levels(v) = CHOOSE L : L = [i \in 0 .. 21 |-> LevelStep(bits, L, i)]
  BY DEF Levels, LevelStep
<1>2. PICK f \in [0 .. 21 -> {0, 1}] : \A i \in 0 .. 21 : f[i] = LevelStep(bits, f, i)
  BY SomeLevels
<1>3. f = [i \in 0 .. 21 |-> LevelStep(bits, f, i)]
  BY <1>2
<1>4. Levels(v) = [i \in 0 .. 21 |-> LevelStep(bits, Levels(v), i)]
  BY <1>1, <1>3
<1> DEFINE g == Levels(v)
<1>5. \A i \in 0 .. 21 : g[i] = LevelStep(bits, g, i)
  BY <1>4
<1>6. \A i \in 2 .. 21 : g[i] = (bits[21 - i] + g[i - 1]) % 2
  BY <1>5 DEF LevelStep
<1> DEFINE T == {k \in Nat : \A i \in 0 .. k : i <= 21 => g[i] \in {0, 1}}
<1>7. 0 \in T
  BY <1>5 DEF LevelStep
<1> HIDE DEF g
<1>8. ASSUME NEW k \in 0 .. 20, k \in T PROVE k + 1 \in T
  <2>1. g[k + 1] \in {0, 1}
    <3>1. CASE k + 1 <= 1
      BY <1>5, <3>1 DEF LevelStep
    <3>2. CASE k + 1 > 1
      <4>1. k \in 0 .. 21 /\ 21 - (k + 1) \in 0 .. 19 /\ k + 1 - 1 = k /\ k + 1 \in 2 .. 21
        BY <3>2
      <4>2. PICK x \in {0, 1} : x = bits[21 - (k + 1)]
        BY <4>1
      <4>3. PICK y \in {0, 1} : y = g[k]
        BY <1>8, <4>1
      <4>4. (x + y) % 2 \in {0, 1}
        OBVIOUS
      <4> QED
        BY <1>6, <4>1, <4>2, <4>3, <4>4
    <3> QED
      BY <3>1, <3>2
  <2> QED
    BY <1>8, <2>1
<1> HIDE DEF T
<1>9. 0 .. 21 \subseteq T
  <2>1. \A k \in 0 .. 21 - 1 : k \in T => k + 1 \in T
    BY <1>8
  <2> QED
    BY <1>7, <2>1, Counting
<1>10. \A i \in 0 .. 21 : g[i] \in {0, 1}
  <2>1. 21 \in T
    BY <1>9
  <2> QED
    BY <2>1 DEF T
<1>11. g = [i \in 0 .. 21 |-> g[i]]
  BY <1>4 DEF g
<1>12. g \in [0 .. 21 -> {0, 1}]
  BY <1>10, <1>11
<1> QED
  BY <1>6, <1>12 DEF g

\* The symbol of a nibble.
Code(n) == GcrTable[n + 1]

\* The code has five bits, and each nibble its own symbol.
LEMMA Codes ==
  /\ \A n \in 0 .. 15 : Code(n) \in 0 .. 31
  /\ \A m \in 0 .. 15, n \in 0 .. 15 : Code(m) = Code(n) => m = n
<1>1. /\ GcrTable[1] = 25 /\ GcrTable[2] = 27 /\ GcrTable[3] = 18 /\ GcrTable[4] = 19
      /\ GcrTable[5] = 29 /\ GcrTable[6] = 21 /\ GcrTable[7] = 22 /\ GcrTable[8] = 23
      /\ GcrTable[9] = 26 /\ GcrTable[10] = 9 /\ GcrTable[11] = 10 /\ GcrTable[12] = 11
      /\ GcrTable[13] = 30 /\ GcrTable[14] = 13 /\ GcrTable[15] = 14 /\ GcrTable[16] = 15
  BY DEF GcrTable
<1>2. /\ Code(0) = 25 /\ Code(1) = 27 /\ Code(2) = 18 /\ Code(3) = 19
      /\ Code(4) = 29 /\ Code(5) = 21 /\ Code(6) = 22 /\ Code(7) = 23
      /\ Code(8) = 26 /\ Code(9) = 9 /\ Code(10) = 10 /\ Code(11) = 11
      /\ Code(12) = 30 /\ Code(13) = 13 /\ Code(14) = 14 /\ Code(15) = 15
  BY <1>1 DEF Code
<1>3. \A n \in 0 .. 15 : \/ n = 0 \/ n = 1 \/ n = 2 \/ n = 3 \/ n = 4 \/ n = 5 \/ n = 6 \/ n = 7
                         \/ n = 8 \/ n = 9 \/ n = 10 \/ n = 11 \/ n = 12 \/ n = 13 \/ n = 14 \/ n = 15
  OBVIOUS
<1>4. \A n \in 0 .. 15 : Code(n) \in 0 .. 31
  BY <1>2, <1>3
<1>5. \A m \in 0 .. 15, n \in 0 .. 15 : Code(m) = Code(n) => m = n
  BY <1>2, <1>3
<1> QED
  BY <1>4, <1>5

\* A symbol is the number of its five bits.
LEMMA SymbolBits ==
  ASSUME NEW s \in 0 .. 31
  PROVE  /\ \A i \in 0 .. 4 : Bit(s, i) \in {0, 1}
         /\ s = Sum4(Bit(s, 0), Bit(s, 1), Bit(s, 2), Bit(s, 3)) + 16 * Bit(s, 4)
<1>1. /\ Binary(Bit(s, 0)) /\ Binary(Bit(s, 1)) /\ Binary(Bit(s, 2)) /\ Binary(Bit(s, 3))
      /\ s = 16 * (s \div 16) + Sum4(Bit(s, 0), Bit(s, 1), Bit(s, 2), Bit(s, 3))
  BY LowNibble
<1>2. Bit(s, 4) = s \div 16 /\ s \div 16 \in {0, 1}
  <2>1. s \div 16 \in {0, 1}
    OBVIOUS
  <2>2. Bit(s, 4) = ((s \div 16) % 2)
    BY DEF Bit
  <2> QED
    BY <2>1, <2>2
<1>3. \A i \in 0 .. 4 : Bit(s, i) \in {0, 1}
  BY <1>1, <1>2 DEF Binary
<1>4. Sum4(Bit(s, 0), Bit(s, 1), Bit(s, 2), Bit(s, 3)) \in Int
  BY <1>1 DEF Binary, Sum4
<1> DEFINE low == Sum4(Bit(s, 0), Bit(s, 1), Bit(s, 2), Bit(s, 3))
           high == s \div 16
<1>5. s = 16 * high + low /\ Bit(s, 4) = high /\ high \in Int /\ low \in Int
  BY <1>1, <1>2, <1>4
<1> HIDE DEF low, high
<1>6. s = low + 16 * Bit(s, 4)
  BY <1>5
<1> QED
  BY <1>3, <1>6 DEF low

\* The values that an answer has room for, and the periods that are encoded.
Answers == {n \in Nat : n <= 4095}
Periods == {n \in Nat : n <= 65535}

\* The nibbles of the code word: the value's three and its inverted checksum.
Coded(v) == 16 * v + Inverted(Checksum(v, 0))
NibbleAt(v, k) == (Coded(v) \div 16^k) % 16

\* They are the three of the value and its inverted checksum, in this order from the top.
LEMMA CodedNibbles ==
  ASSUME NEW v \in Answers
  PROVE  /\ \A k \in 0 .. 3 : NibbleAt(v, k) \in 0 .. 15
         /\ NibbleAt(v, 0) = Inverted(Checksum(v, 0))
         /\ v = 256 * NibbleAt(v, 3) + 16 * NibbleAt(v, 2) + NibbleAt(v, 1)
         /\ \A k \in 0 .. 3 : Symbols(v)[k] = Code(NibbleAt(v, k))
<1> DEFINE c == Inverted(Checksum(v, 0))
           full == Coded(v)
           at(k) == NibbleAt(v, k)
<1>1. c \in 0 .. 15
  <2>1. v \in Nat /\ v < 65536
    BY DEF Answers
  <2>2. Checksum(v, 0) \in 0 .. 15
    BY <2>1, ChecksumNibble
  <2> QED
    BY <2>2 DEF Inverted
<1>2. full = 16 * v + c
  BY DEF Coded
<1>3. /\ at(0) = ((full \div 1) % 16) /\ at(1) = ((full \div 16) % 16)
      /\ at(2) = ((full \div 256) % 16) /\ at(3) = ((full \div 4096) % 16)
  BY DEF NibbleAt
<1>4. Symbols(v) = [k \in 0 .. 3 |-> GcrTable[1 + NibbleAt(v, k)]]
  BY DEF Symbols, NibbleAt, Coded
<1>0. v \in Nat /\ v < 4096
  BY DEF Answers
<1> HIDE DEF c, full, at
<1>5. full \in Nat /\ full < 65536 /\ (full \div 1) = full /\ (full % 16) = c /\ full \div 16 = v
  BY <1>0, <1>1, <1>2
<1>6. full \div 256 = v \div 16 /\ full \div 4096 = v \div 256
  BY <1>0, <1>5
<1>7. at(0) = c /\ at(1) = (v % 16) /\ at(2) = ((v \div 16) % 16) /\ at(3) = ((v \div 256) % 16)
  BY <1>3, <1>5, <1>6
<1>8. /\ (v % 16) \in 0 .. 15 /\ ((v \div 16) % 16) \in 0 .. 15 /\ (v \div 256) \in 0 .. 15
      /\ ((v \div 256) % 16) = v \div 256
      /\ v = 256 * (v \div 256) + 16 * ((v \div 16) % 16) + (v % 16)
  BY <1>0
<1>9. at(0) \in 0 .. 15 /\ at(1) \in 0 .. 15 /\ at(2) \in 0 .. 15 /\ at(3) \in 0 .. 15
  BY <1>1, <1>7, <1>8
<1>10. v = 256 * at(3) + 16 * at(2) + at(1)
  BY <1>7, <1>8
<1>11. \A k \in 0 .. 3 : at(k) \in 0 .. 15
  BY <1>9
<1>12. \A k \in 0 .. 3 : Symbols(v)[k] = Code(NibbleAt(v, k))
  <2>1. \A k \in 0 .. 3 : 1 + at(k) = at(k) + 1
    BY <1>11
  <2> QED
    BY <1>4, <2>1 DEF at, Code
<1> QED
  BY <1>7, <1>10, <1>11, <1>12 DEF at, c

\* The bits that go out are those of the symbols, one symbol after the other.
LEMMA AnswerBits ==
  ASSUME NEW v \in Answers
  PROVE  /\ \A k \in 0 .. 3 : Symbols(v)[k] \in 0 .. 31
         /\ GcrBits(v) \in [0 .. 19 -> {0, 1}]
         /\ \A k \in 0 .. 3, i \in 0 .. 4, j \in 0 .. 19 :
              j = 5 * k + i => GcrBits(v)[j] = Bit(Symbols(v)[k], i)
<1> DEFINE symbols == Symbols(v)
<1>1. \A k \in 0 .. 3 : symbols[k] \in 0 .. 31
  <2>1. ASSUME NEW k \in 0 .. 3 PROVE symbols[k] \in 0 .. 31
    <3>1. symbols[k] = Code(NibbleAt(v, k)) /\ NibbleAt(v, k) \in 0 .. 15
      BY CodedNibbles
    <3> QED
      BY <3>1, Codes
  <2> QED
    BY <2>1
<1>2. GcrBits(v) = [j \in 0 .. 19 |-> Bit(symbols[j \div 5], j % 5)]
  BY DEF GcrBits
<1> HIDE DEF symbols
<1>3. \A j \in 0 .. 19 : j \div 5 \in 0 .. 3 /\ (j % 5) \in 0 .. 4
  OBVIOUS
<1>4. \A j \in 0 .. 19 : Bit(symbols[j \div 5], j % 5) \in {0, 1}
  BY <1>1, <1>3, SymbolBits
<1>5. GcrBits(v) \in [0 .. 19 -> {0, 1}]
  BY <1>2, <1>4
<1>6. ASSUME NEW k \in 0 .. 3, NEW i \in 0 .. 4, NEW j \in 0 .. 19, j = 5 * k + i
      PROVE  GcrBits(v)[j] = Bit(symbols[k], i)
  <2>1. j \div 5 = k /\ (j % 5) = i
    BY <1>6
  <2> QED
    BY <1>2, <2>1
<1> QED
  BY <1>1, <1>5, <1>6 DEF symbols

\* Each symbol is read back from the transitions.
LEMMA SymbolRead ==
  ASSUME NEW v \in Answers, NEW k \in 0 .. 3
  PROVE  Symbol(Levels(v), k) = Symbols(v)[k]
<1> DEFINE L == Levels(v)
           s == Symbols(v)[k]
           bits == GcrBits(v)
           read(i) == (L[21 - (5 * k + i)] + L[20 - (5 * k + i)]) % 2
<1>1. /\ bits \in [0 .. 19 -> {0, 1}] /\ s \in 0 .. 31
      /\ \A i \in 0 .. 4, j \in 0 .. 19 : j = 5 * k + i => bits[j] = Bit(s, i)
  BY AnswerBits
<1>2. L \in [0 .. 21 -> {0, 1}] /\ \A i \in 2 .. 21 : L[i] = (bits[21 - i] + L[i - 1]) % 2
  BY <1>1, LevelsTurn
<1>3. Symbol(L, k) = Sum4(read(0), read(1), read(2), read(3)) + 16 * read(4)
  BY DEF Symbol, Nibble, Sum4
<1> HIDE DEF L, s, bits
<1>4. \A i \in 0 .. 4 : read(i) = Bit(s, i)
  <2> SUFFICES ASSUME NEW i \in 0 .. 4 PROVE read(i) = Bit(s, i)
    OBVIOUS
  <2>1. PICK m \in 2 .. 21 : m = 21 - (5 * k + i)
    OBVIOUS
  <2>2. 20 - (5 * k + i) = m - 1 /\ 21 - m = 5 * k + i /\ m - 1 \in 0 .. 21 /\ 5 * k + i \in 0 .. 19
    BY <2>1
  <2>3. PICK x \in {0, 1} : x = bits[5 * k + i]
    BY <1>1, <2>2
  <2>4. PICK y \in {0, 1} : y = L[m - 1]
    BY <1>2, <2>2
  <2>5. L[m] = (x + y) % 2
    BY <1>2, <2>2, <2>3, <2>4
  <2>6. (((x + y) % 2) + y) % 2 = x
    OBVIOUS
  <2>7. read(i) = (L[m] + L[m - 1]) % 2
    BY <2>1, <2>2
  <2> HIDE DEF read
  <2>8. read(i) = x
    BY <2>4, <2>5, <2>6, <2>7
  <2> QED
    BY <1>1, <2>3, <2>8
<1> HIDE DEF read
<1>5. Symbol(L, k) = Sum4(Bit(s, 0), Bit(s, 1), Bit(s, 2), Bit(s, 3)) + 16 * Bit(s, 4)
  BY <1>3, <1>4
<1>6. Symbol(L, k) = s
  BY <1>1, <1>5, SymbolBits
<1> QED
  BY <1>6 DEF L, s

\* An answer reads back as the one value that was encoded.
LEMMA AnswerRead ==
  ASSUME NEW v \in Answers
  PROVE  ReadBack(Levels(v)) = {v}
<1> DEFINE L == Levels(v)
           at(k) == NibbleAt(v, k)
<1>1. /\ \A k \in 0 .. 3 : at(k) \in 0 .. 15
      /\ at(0) = Inverted(Checksum(v, 0))
      /\ v = 256 * at(3) + 16 * at(2) + at(1)
      /\ \A k \in 0 .. 3 : Symbols(v)[k] = Code(at(k))
  BY CodedNibbles
<1>2. \A k \in 0 .. 3 : Symbol(L, k) = Code(at(k))
  BY <1>1, SymbolRead
<1> HIDE DEF L, at
<1>3. ASSUME NEW k \in 0 .. 3 PROVE Reading(L, k) = {at(k)}
  <2>1. Reading(L, k) = {n \in 0 .. 15 : Code(n) = Code(at(k))}
    BY <1>2 DEF Reading, Code
  <2>2. \A n \in 0 .. 15 : Code(n) = Code(at(k)) <=> n = at(k)
    BY <1>1, Codes
  <2> QED
    BY <1>1, <2>1, <2>2
<1>4. /\ Reading(L, 0) = {at(0)} /\ Reading(L, 1) = {at(1)}
      /\ Reading(L, 2) = {at(2)} /\ Reading(L, 3) = {at(3)}
  BY <1>3
<1>5. {256 * a + 16 * b + c : a \in Reading(L, 3), b \in Reading(L, 2), c \in Reading(L, 1)} = {v}
  BY <1>1, <1>4
<1>6. ReadBack(L) = {w \in {v} : Inverted(Checksum(w, 0)) \in {at(0)}}
  BY <1>4, <1>5 DEF ReadBack
<1> QED
  BY <1>1, <1>6 DEF L

--------------------------------------------------------------------------------
(* The values of an answer *)

\* A payload has eight bits.
LEMMA Payloads ==
  ASSUME NEW n \in Nat
  PROVE  Payload(n) \in 0 .. 255
BY DEF Payload

\* What goes out is the period offered, or data that are marked as extended.
LEMMA NextFrameSays ==
  ASSUME NEW e, NEW m \in Measured, NEW erpm
  PROVE  \/ NextFrame(e, m, erpm)[2] = erpm
         \/ \E v \in Answers : NextFrame(e, m, erpm)[2] = Extended(v) /\ ReadAsExtended(v) = TRUE
<1> DEFINE out     == NextFrame(e, m, erpm)[2]
           n       == (e.counter + 1) % CounterMod
           current == 6 * 256 + Payload(Unsigned(m.current) \div 100)
           voltage == 4 * 256 + Payload(m.voltage \div 25)
           degrees == 2 * 256 + Wrap(m.degrees, 8)
           data    == IF n % CurrentEvery = 0 THEN {current}
                      ELSE IF n % SlowEvery = SlowEvery \div 2 THEN {voltage}
                      ELSE IF n % SlowEvery = (3 * SlowEvery) \div 4 THEN {degrees} ELSE {}
           Marked(v) == v \in Answers /\ ReadAsExtended(v) = TRUE
<1>1. m.current \in Int /\ m.voltage \in Nat /\ m.degrees \in Int
  BY LinkAssumption
<1>2. Marked(current)
  <2>1. PICK k \in Nat : k = Unsigned(m.current) \div 100
    BY <1>1 DEF Unsigned
  <2>2. PICK p \in 0 .. 255 : p = Payload(k)
    BY Payloads
  <2>3. PICK v \in Nat : v = 6 * 256 + p
    OBVIOUS
  <2>4. v \div 256 = 6 /\ v >= 512 /\ v <= 4095
    BY <2>3
  <2>5. v \in Answers
    BY <2>4 DEF Answers
  <2>6. ReadAsExtended(v)
    BY <2>4 DEF ReadAsExtended
  <2>7. Marked(v)
    BY <2>5, <2>6 DEF ReadAsExtended
  <2>8. current = v
    BY <2>1, <2>2, <2>3
  <2> QED
    BY <2>7, <2>8
<1>3. Marked(voltage)
  <2>1. PICK k \in Nat : k = m.voltage \div 25
    BY <1>1
  <2>2. PICK p \in 0 .. 255 : p = Payload(k)
    BY Payloads
  <2>3. PICK v \in Nat : v = 4 * 256 + p
    OBVIOUS
  <2>4. v \div 256 = 4 /\ v >= 512 /\ v <= 4095
    BY <2>3
  <2>5. v \in Answers
    BY <2>4 DEF Answers
  <2>6. ReadAsExtended(v)
    BY <2>4 DEF ReadAsExtended
  <2>7. Marked(v)
    BY <2>5, <2>6 DEF ReadAsExtended
  <2>8. voltage = v
    BY <2>1, <2>2, <2>3
  <2> QED
    BY <2>7, <2>8
<1>4. Marked(degrees)
  <2>1. PICK p \in 0 .. 255 : p = Wrap(m.degrees, 8)
    BY <1>1 DEF Wrap
  <2>3. PICK v \in Nat : v = 2 * 256 + p
    OBVIOUS
  <2>4. v \div 256 = 2 /\ v >= 512 /\ v <= 4095
    BY <2>3
  <2>5. v \in Answers
    BY <2>4 DEF Answers
  <2>6. ReadAsExtended(v)
    BY <2>4 DEF ReadAsExtended
  <2>7. Marked(v)
    BY <2>5, <2>6 DEF ReadAsExtended
  <2>8. degrees = v
    BY <2>1, <2>3
  <2> QED
    BY <2>7, <2>8
<1>5. Marked(EdtInit) /\ Marked(EdtDeinit)
  <2>1. EdtInit \in Answers /\ EdtDeinit \in Answers
    BY DEF EdtInit, EdtDeinit, Answers
  <2>2. ReadAsExtended(EdtInit)
    BY DEF EdtInit, ReadAsExtended
  <2>3. ReadAsExtended(EdtDeinit)
    BY DEF EdtDeinit, ReadAsExtended
  <2> QED
    BY <2>1, <2>2, <2>3 DEF ReadAsExtended
<1> HIDE DEF Marked
<1>6. \A v \in data : Marked(v)
  BY <1>2, <1>3, <1>4
<1>7. \/ out = Extended(EdtInit) \/ out = Extended(EdtDeinit) \/ out = erpm
      \/ data # {} /\ out = Extended(CHOOSE v \in data : TRUE)
  BY DEF NextFrame
<1> HIDE DEF data, out
<1>8. data # {} => (CHOOSE v \in data : TRUE) \in data
  OBVIOUS
<1> QED
  BY <1>5, <1>6, <1>7, <1>8 DEF Marked, out

\* A period is never taken for extended data, and is read back to one part in 256.
LEMMA PeriodCoded ==
  ASSUME NEW period \in Periods, NEW v, v = ErpmTo12Bit(period)
  PROVE  /\ v \in Answers /\ ReadAsExtended(v) = FALSE
         /\ ReadPeriod(v) <= period /\ 256 * (period - ReadPeriod(v)) <= ReadPeriod(v)
<1> DEFINE P(s) == 2^s
           B(s) == 2^(s + 8)
<1>0. period \in Nat /\ period <= 65535
  BY DEF Periods
<1>1. /\ P(0) = 1 /\ P(1) = 2 /\ P(2) = 4 /\ P(3) = 8
      /\ P(4) = 16 /\ P(5) = 32 /\ P(6) = 64 /\ P(7) = 128
      /\ B(1) = 512 /\ B(2) = 1024 /\ B(3) = 2048 /\ B(4) = 4096
      /\ B(5) = 8192 /\ B(6) = 16384 /\ B(7) = 32768
  OBVIOUS
<1>2. v = LET shift == IF period < 512 THEN 0 ELSE CHOOSE s \in 1 .. 7 : period \div B(s) = 1
          IN 512 * shift + period \div P(shift)
  BY DEF ErpmTo12Bit
<1>3. ReadPeriod(v) = (v % 512) * P(v \div 512)
  BY DEF ReadPeriod
<1> HIDE DEF P, B
<1>5. CASE period < 512
  <2>1. v = period
    BY <1>0, <1>1, <1>2, <1>5
  <2>2. v \in Nat /\ v < 512 /\ (v % 512) = v /\ v \div 512 = 0
    BY <1>0, <1>5, <2>1
  <2>3. P(v \div 512) = 1
    BY <1>1, <2>2
  <2>4. ReadPeriod(v) = v * 1
    BY <1>3, <2>2, <2>3
  <2>5. ReadPeriod(v) = v
    BY <2>2, <2>4
  <2> QED
    <3>1. ReadAsExtended(v) = FALSE
      BY <2>2 DEF ReadAsExtended
    <3>2. v \in Answers
      BY <2>2 DEF Answers
    <3>3. ReadPeriod(v) <= period /\ 256 * (period - ReadPeriod(v)) <= ReadPeriod(v)
      BY <2>1, <2>2, <2>5
    <3> QED
      BY <3>1, <3>2, <3>3
<1>6. CASE ~(period < 512)
  <2> DEFINE shift == CHOOSE s \in 1 .. 7 : period \div B(s) = 1
  <2>0. period \in Nat /\ period <= 65535 /\ period >= 512
    BY <1>0, <1>6
  <2>1. \E s \in 1 .. 7 : period \div B(s) = 1
    <3>1. CASE period < 1024
      BY <1>1, <2>0, <3>1
    <3>2. CASE period >= 1024 /\ period < 2048
      BY <1>1, <2>0, <3>2
    <3>3. CASE period >= 2048 /\ period < 4096
      BY <1>1, <2>0, <3>3
    <3>4. CASE period >= 4096 /\ period < 8192
      BY <1>1, <2>0, <3>4
    <3>5. CASE period >= 8192 /\ period < 16384
      BY <1>1, <2>0, <3>5
    <3>6. CASE period >= 16384 /\ period < 32768
      BY <1>1, <2>0, <3>6
    <3>7. CASE period >= 32768
      BY <1>1, <2>0, <3>7
    <3> QED
      BY <2>0, <3>1, <3>2, <3>3, <3>4, <3>5, <3>6, <3>7
  <2>2. shift \in 1 .. 7 /\ period \div B(shift) = 1
    BY <2>1
  <2>3. v = 512 * shift + period \div P(shift)
    BY <1>2, <1>6
  <2> HIDE DEF shift
  <2> DEFINE m == period \div P(shift)
             p == P(shift)
  <2>4. /\ m \in 256 .. 511 /\ p \in Nat /\ m * p \in Nat
        /\ m * p <= period /\ 256 * (period - m * p) <= m * p
    <3>0. p = P(shift)
      OBVIOUS
    <3> HIDE DEF p
    <3>8. m = period \div p
      BY <3>0
    <3> HIDE DEF m
    <3>1. CASE shift = 1
      <4>1. p = 2
        BY <1>1, <3>0, <3>1
      <4>2. B(shift) = 512
        BY <1>1, <3>1
      <4>3. period \div 512 = 1
        BY <2>2, <4>2
      <4> QED
        BY <2>0, <3>8, <4>1, <4>3
    <3>2. CASE shift = 2
      <4>1. p = 4
        BY <1>1, <3>0, <3>2
      <4>2. B(shift) = 1024
        BY <1>1, <3>2
      <4>3. period \div 1024 = 1
        BY <2>2, <4>2
      <4> QED
        BY <2>0, <3>8, <4>1, <4>3
    <3>3. CASE shift = 3
      <4>1. p = 8
        BY <1>1, <3>0, <3>3
      <4>2. B(shift) = 2048
        BY <1>1, <3>3
      <4>3. period \div 2048 = 1
        BY <2>2, <4>2
      <4> QED
        BY <2>0, <3>8, <4>1, <4>3
    <3>4. CASE shift = 4
      <4>1. p = 16
        BY <1>1, <3>0, <3>4
      <4>2. B(shift) = 4096
        BY <1>1, <3>4
      <4>3. period \div 4096 = 1
        BY <2>2, <4>2
      <4> QED
        BY <2>0, <3>8, <4>1, <4>3
    <3>5. CASE shift = 5
      <4>1. p = 32
        BY <1>1, <3>0, <3>5
      <4>2. B(shift) = 8192
        BY <1>1, <3>5
      <4>3. period \div 8192 = 1
        BY <2>2, <4>2
      <4> QED
        BY <2>0, <3>8, <4>1, <4>3
    <3>6. CASE shift = 6
      <4>1. p = 64
        BY <1>1, <3>0, <3>6
      <4>2. B(shift) = 16384
        BY <1>1, <3>6
      <4>3. period \div 16384 = 1
        BY <2>2, <4>2
      <4> QED
        BY <2>0, <3>8, <4>1, <4>3
    <3>7. CASE shift = 7
      <4>1. p = 128
        BY <1>1, <3>0, <3>7
      <4>2. B(shift) = 32768
        BY <1>1, <3>7
      <4>3. period \div 32768 = 1
        BY <2>2, <4>2
      <4> QED
        BY <2>0, <3>8, <4>1, <4>3
    <3> QED
      BY <2>2, <3>1, <3>2, <3>3, <3>4, <3>5, <3>6, <3>7
  <2>5. v = 512 * shift + m /\ p = P(shift)
    BY <2>3
  <2> HIDE DEF m, p
  <2> DEFINE read == m * p
  <2>12. read \in Nat /\ read <= period /\ 256 * (period - read) <= read
    BY <2>4
  <2>6. /\ v \in Nat /\ v < 4096 /\ (v % 512) = m /\ v \div 512 = shift
        /\ v \div 256 = 2 * shift + 1
    BY <2>0, <2>2, <2>4, <2>5
  <2>7. (2 * shift + 1) % 2 = 1
    BY <2>2
  <2>8. ReadPeriod(v) = read
    <3>1. P(v \div 512) = p
      BY <2>5, <2>6
    <3> QED
      BY <1>3, <2>6, <3>1
  <2> HIDE DEF read
  <2>9. ReadAsExtended(v) = FALSE
    <3>1. (v \div 256) % 2 = 1
      BY <2>6, <2>7
    <3> QED
      BY <3>1 DEF ReadAsExtended
  <2>10. v \in Answers
    <3>1. v \in Nat /\ v < 4096
      BY <2>6
    <3> QED
      BY <3>1 DEF Answers
  <2> QED
    <3>1. ReadPeriod(v) <= period /\ 256 * (period - ReadPeriod(v)) <= ReadPeriod(v)
      BY <2>8, <2>12
    <3> QED
      BY <2>9, <2>10, <3>1
<1> QED
  BY <1>5, <1>6

--------------------------------------------------------------------------------
(* Both ends of the wire *)

\* The property's two halves.
FrameReadsBack ==
  frame.on =>
    DecodeFrame(frame.time, frame.widths) =
      IF frame.time \in WindowLow + 1 .. WindowHigh - 1
      THEN IF frame.turned THEN BadCrc ELSE frame.sent
      ELSE InvalidTiming

AnswerReadsBack ==
  answer.on =>
    /\ ReadBack(Levels(answer.says.value)) = {answer.says.value}
    /\ ReadAsExtended(answer.says.value) = answer.says.extended
    /\ ~answer.says.extended =>
         LET read == ReadPeriod(answer.says.value)
         IN read <= answer.says.period /\ 256 * (answer.says.period - read) <= read

\* A frame is read when it has come, an answer when it goes out; the line stays what it is.
LEMMA ReadsBackNext == LinkReadsBack /\ [LinkNext]_linkVars => LinkReadsBack'
<1> SUFFICES ASSUME FrameReadsBack, AnswerReadsBack, [LinkNext]_linkVars
             PROVE  FrameReadsBack' /\ AnswerReadsBack'
  BY DEF LinkReadsBack, FrameReadsBack, AnswerReadsBack
<1>1. CASE FrameComes
  <2>1. PICK v \in Values, t \in {0, 1}, bitTime \in BitTimes, flip \in Flips \cup {16} :
          LET wire   == OnWire(Packet(v, t), flip)
              widths == [i \in 0 .. 15 |-> ((3 * bitTime) \div 8) * (1 + wire[i])]
              time   == 15 * bitTime + widths[0]
          IN /\ frame' = [on |-> TRUE, sent |-> Meaning(v, t = 1), turned |-> flip # 16,
                          time |-> time, widths |-> widths]
             /\ answer' = NoAnswer /\ twoWayLine' = twoWayLine
    BY <1>1 DEF FrameComes
  <2> DEFINE wire   == OnWire(Packet(v, t), flip)
             widths == [i \in 0 .. 15 |-> ((3 * bitTime) \div 8) * (1 + wire[i])]
             time   == 15 * bitTime + widths[0]
  <2>2. DecodeFrame(time, widths) =
          IF time \in WindowLow + 1 .. WindowHigh - 1
          THEN IF flip # 16 THEN BadCrc ELSE Meaning(v, t = 1) ELSE InvalidTiming
    BY FrameRead
  <2>3. frame' = [on |-> TRUE, sent |-> Meaning(v, t = 1), turned |-> flip # 16,
                  time |-> time, widths |-> widths]
    BY <2>1
  <2>4. answer' = NoAnswer /\ twoWayLine' = twoWayLine
    BY <2>1
  <2> HIDE DEF time, widths
  <2>5. /\ frame'.time = time /\ frame'.widths = widths /\ frame'.turned = (flip # 16)
        /\ frame'.sent = Meaning(v, t = 1)
    BY <2>3
  <2>6. FrameReadsBack'
    BY <2>2, <2>4, <2>5 DEF FrameReadsBack, DecodeFrame, Unpack, ReceivedSum
  <2>7. AnswerReadsBack'
    BY <2>4 DEF AnswerReadsBack, NoAnswer
  <2> QED
    BY <2>6, <2>7
<1>2. ASSUME NEW received, Answer(received) PROVE FrameReadsBack' /\ AnswerReadsBack'
  <2>1. FrameReadsBack'
    BY <1>2 DEF Answer, FrameReadsBack, NoFrame
  <2>2. PICK time \in ComTimes, running \in BOOLEAN, m \in Measured :
          answer' = [on |-> TRUE, says |-> NextFrame(edt, m, Erpm(time, running))[2]]
    BY <1>2 DEF Answer
  <2> DEFINE out == NextFrame(edt, m, Erpm(time, running))[2]
             period == IF running THEN Wrap(time, 16) ELSE 65535
  <2>3. period \in Periods
    <3>1. PICK x \in Nat : x = time
      BY LinkAssumption
    <3>2. Wrap(x, 16) = (x % 65536)
      BY DEF Wrap
    <3>3. (x % 65536) \in Periods /\ 65535 \in Periods
      <4>1. (x % 65536) \in Nat /\ (x % 65536) <= 65535
        OBVIOUS
      <4> QED
        BY <4>1 DEF Periods
    <3> QED
      BY <3>1, <3>2, <3>3
  <2>4. Erpm(time, running) = [extended |-> FALSE, value |-> ErpmTo12Bit(period), period |-> period]
    BY DEF Erpm
  <2>5. out = Erpm(time, running) \/ \E v \in Answers : out = Extended(v) /\ ReadAsExtended(v) = TRUE
    BY NextFrameSays
  <2>6. answer'.says = out
    BY <2>2
  <2> HIDE DEF out, period
  <2>7. CASE out = Erpm(time, running)
    <3> DEFINE v == ErpmTo12Bit(period)
    <3>1. out.value = v /\ out.extended = FALSE /\ out.period = period
      <4>1. out = [extended |-> FALSE, value |-> v, period |-> period]
        BY <2>4, <2>7
      <4> HIDE DEF v
      <4> QED
        BY <4>1
    <3>2. /\ v \in Answers /\ ReadAsExtended(v) = FALSE
          /\ ReadPeriod(v) <= period /\ 256 * (period - ReadPeriod(v)) <= ReadPeriod(v)
      <4>1. v = ErpmTo12Bit(period)
        OBVIOUS
      <4> HIDE DEF v
      <4>2. /\ v \in Answers /\ ReadAsExtended(v) = FALSE
        BY <2>3, <4>1, PeriodCoded
      <4>3. ReadPeriod(v) <= period /\ 256 * (period - ReadPeriod(v)) <= ReadPeriod(v)
        BY <2>3, <4>1, PeriodCoded
      <4> QED
        BY <4>2, <4>3
    <3> HIDE DEF v
    <3>3. ReadBack(Levels(v)) = {v}
      BY <3>2, AnswerRead
    <3>4. AnswerReadsBack'
      BY <2>6, <3>1, <3>2, <3>3 DEF AnswerReadsBack
    <3> QED
      BY <2>1, <3>4
  <2>8. CASE \E v \in Answers : out = Extended(v) /\ ReadAsExtended(v) = TRUE
    <3>1. PICK v \in Answers : out = Extended(v) /\ ReadAsExtended(v) = TRUE
      BY <2>8
    <3>2. out.value = v /\ out.extended = TRUE
      BY <3>1 DEF Extended
    <3>3. ReadBack(Levels(v)) = {v}
      BY AnswerRead
    <3>4. AnswerReadsBack'
      BY <2>6, <3>1, <3>2, <3>3 DEF AnswerReadsBack
    <3> QED
      BY <2>1, <3>4
  <2> QED
    BY <2>5, <2>7, <2>8
<1>3. CASE Silent
  BY <1>3 DEF Silent, FrameReadsBack, AnswerReadsBack, NoFrame
<1>4. CASE twoWayLine' = twoWayLine /\ frame' = frame /\ answer' = answer
  BY <1>4 DEF FrameReadsBack, AnswerReadsBack, DecodeFrame, Unpack, ReceivedSum
<1>5. EdtRequested \/ UNCHANGED linkVars => twoWayLine' = twoWayLine /\ frame' = frame /\ answer' = answer
  BY DEF EdtRequested, linkVars
<1> QED
  BY <1>1, <1>2, <1>3, <1>4, <1>5 DEF LinkNext

(* Both ends of the wire agree.  At every bit time of a window that begins *)
(* at 110 ticks or later, on both kinds of line, decode_frame returns what *)
(* was sent, and rejects every frame with one pulse turned; what           *)
(* encode_gcr_frame sends reads back as the one value that was encoded, an *)
(* eRPM value of any 16-bit period never as extended data, and the period  *)
(* to one part in 256.                                                     *)
THEOREM EndsAgree == LinkSpec => []LinkReadsBack
<1>1. LinkInit => LinkReadsBack
  BY DEF LinkInit, LinkReadsBack, NoFrame, NoAnswer
<1> QED
  BY <1>1, ReadsBackNext, PTL DEF LinkSpec
================================================================================
