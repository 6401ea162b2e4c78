----------------------------- MODULE MCComponents -----------------------------
(***************************************************************************)
(* The components whose properties are about what may never happen, each   *)
(* examined by itself, in one run.  A behaviour is that of its subject;    *)
(* the other components keep one initial state, in which none of their     *)
(* properties asks for a step.                                             *)
(***************************************************************************)
EXTENDS FrameDispatch, ServoInput, IsrTiers, BridgeControl, ConfigStore, SineDrive,
        ToneScheduler, MainServices, AdcScan, FlashProgram, TelemetryPort, ChipStart,
        GateControl

VARIABLE subject

\* The arming tune of two cells, with notes run together.
ArmingNotes == {<<3, 7, 3>>}

\* A motor at speed, and one just started.
TwoSpeeds == {[eCom |-> 300, interval |-> 40, average |-> 60, crossings |-> 200],
              [eCom |-> 0, interval |-> 9000, average |-> 0, crossings |-> 0]}

LargeMotor == [kv |-> 2000, poles |-> 14, limit |-> 100, bidirectional |-> FALSE, counts |-> 3,
               reload |-> 2666, cpuMhz |-> 64, variable |-> 2]

\* Discharging, charging by regeneration.
SomeCurrents == {-1, 3}

Subjects == {"dispatch", "servo", "tiers", "bridge", "store", "sine", "tone", "services", "adc",
             "flash", "telemetry", "start", "gate"}

componentVars ==
  <<subject, dispatchVars, servoVars, tierVars, bridgeVars, storeVars, sineVars, soundVars,
    serviceVars, adcVars, flashVars, telemetryVars, startVars, outputVars>>

\* A component that is not the subject waits in one initial state.
Init ==
  /\ subject \in Subjects
  /\ DispatchInit /\ (twoWay => ~edtGate) /\ (subject # "dispatch" => ~twoWay /\ ~edtGate)
  /\ ServoInit /\ (subject # "servo" => ~bidir /\ driver = [high |-> 1945, low |-> 1000])
  /\ TierInit /\ (subject # "tiers" => ~exchanges /\ prio["tick"] = 2)
  /\ BridgeInit
  /\ IF subject = "bridge" THEN brakeOnStop = 2 <=> sineStart
     ELSE brakeOnStop = 2 /\ pwmMode = "diode" /\ sineStart
  /\ StoreInit /\ (subject # "store" => \A o \in Offsets : page[o] = 0)
  /\ SineInit /\ (subject # "sine" => sineInput = 0 /\ sineForward /\ lastStep = 1)
  /\ ToneInit /\ (subject # "tone" => beepMode = "diode")
  /\ ServicesInit /\ (subject # "services" => clock = 0)
  /\ AdcInit /\ (subject # "adc" => adcChip = "g071")
  /\ FlashInit /\ (subject # "flash" => controller = "f051")
  /\ TelemetryInit /\ (subject # "telemetry" => usable)
  /\ ChipInit /\ (subject # "start" => startChip = "g071" /\ oscillator)
  /\ GateInit /\ (subject # "gate" => gated)

\* The components that rest.
Others(s) ==
  /\ IF s = "dispatch" THEN TRUE ELSE UNCHANGED dispatchVars
  /\ IF s = "servo" THEN TRUE ELSE UNCHANGED servoVars
  /\ IF s = "tiers" THEN TRUE ELSE UNCHANGED tierVars
  /\ IF s = "bridge" THEN TRUE ELSE UNCHANGED bridgeVars
  /\ IF s = "store" THEN TRUE ELSE UNCHANGED storeVars
  /\ IF s = "sine" THEN TRUE ELSE UNCHANGED sineVars
  /\ IF s = "tone" THEN TRUE ELSE UNCHANGED soundVars
  /\ IF s = "services" THEN TRUE ELSE UNCHANGED serviceVars
  /\ IF s = "adc" THEN TRUE ELSE UNCHANGED adcVars
  /\ IF s = "flash" THEN TRUE ELSE UNCHANGED flashVars
  /\ IF s = "telemetry" THEN TRUE ELSE UNCHANGED telemetryVars
  /\ IF s = "start" THEN TRUE ELSE UNCHANGED startVars
  /\ IF s = "gate" THEN TRUE ELSE UNCHANGED outputVars

Only(s, A) == subject = s /\ A /\ UNCHANGED subject /\ Others(s)

Next ==
  \/ Only("dispatch", DispatchNext)
  \/ Only("servo", ServoNext)
  \/ Only("tiers", TierNext)
  \/ Only("bridge", BridgeNext)
  \/ Only("store", StoreNext)
  \/ Only("sine", SineNext)
  \/ Only("tone", ToneNext)
  \/ Only("services", ServicesNext)
  \/ Only("adc", AdcNext)
  \/ Only("flash", FlashNext)
  \/ Only("telemetry", TelemetryNext)
  \/ Only("start", ChipNext)
  \/ Only("gate", GateNext)

\* The components' own fairness.
Fairness ==
  /\ WF_storeVars(subject = "store" /\ MainStep)
  /\ WF_storeVars(subject = "store" /\ TickCopy)
  /\ WF_startVars(subject = "start" /\ ProcessorRuns)
  /\ WF_startVars(subject = "start" /\ HardwareReady)

Spec == Init /\ [][Next]_componentVars /\ Fairness
==============================================================================
