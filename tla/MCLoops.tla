-------------------------------- MODULE MCLoops --------------------------------
(***************************************************************************)
(* The components from which something is expected in the end: direction,  *)
(* frame intake, signal guard, duty, regulators, commutation timing, the   *)
(* wire and its port, each examined by itself, in one run.  A behaviour is *)
(* that of its subject; the other components keep one initial state, in    *)
(* which none of their properties asks for a step.                         *)
(***************************************************************************)
EXTENDS Direction, FrameIntake, SignalGuard, DutyControl, Regulators, CommutationTiming,
        DshotLink, CapturePort

VARIABLE subject

Subjects == {"direction", "intake", "guard", "duty", "regulator", "timing", "link", "port"}

\* A settings page with every other field 0.
PageOf(fields) ==
  [f \in PageFields |-> IF f \in DOMAIN fields THEN fields[f] ELSE 0]

\* The page of AM32, one with a slow ramp and a stall boost, one that starts by sine.
RampPages ==
  {PageOf([maxRamp |-> 160, minimumDuty |-> 1, startupPower |-> 100, compPwm |-> 1]),
   PageOf([maxRamp |-> 5, minimumDuty |-> 1, startupPower |-> 100, compPwm |-> 1,
           stallProtection |-> 1]),
   PageOf([maxRamp |-> 160, minimumDuty |-> 1, startupPower |-> 100, compPwm |-> 1,
           sineStart |-> 1])}

G071 == [autoReload |-> 2666, deadTime |-> 60, kvDivider |-> 1, boost |-> FALSE]

\* A plain proportional and derivative limit, and one with an integral.
LimitGains == {[kp |-> 200, ki |-> 0, kd |-> 200], [kp |-> 100, ki |-> 40, kd |-> 0]}

\* Below, little above and far above the target of each regulator.
LoopReadings == [current |-> {0, 1990, 9000}, stall |-> {500, 60000}, speed |-> {200, 30000}]
LoopTargets == [current |-> 2000, stall |-> 6500, speed |-> 12000]

AmpsAndVolts == {[current |-> 30000, voltage |-> 1680, degrees |-> -5]}

------------------------------------------------------------------------------

loopVars == <<subject, dirVars, intakeVars, guardVars, dutyVars, regVars, timingVars, linkVars,
              channelVars>>

\* A component that is not the subject waits in one initial state.
Init ==
  /\ subject \in Subjects
  /\ DirInit /\ (subject # "direction" => inputMode = "BidirDshot" /\ ~inRev)
  /\ IntakeInit /\ (subject # "intake" => ~sliced)
  /\ GuardInit
  /\ DutyInit /\ (subject # "duty" => ~byVoltage /\ page["maxRamp"] = 5)
  /\ RegInit /\ (subject # "regulator" => loop = "stall" /\ reading = 60000)
  /\ TimingInit /\ rotor = 600
  /\ LinkInit /\ (subject # "link" => ~twoWayLine)
  /\ PortInit

\* A step of a component while the others rest.
Others(s) ==
  /\ IF s = "direction" THEN TRUE ELSE UNCHANGED dirVars
  /\ IF s = "intake" THEN TRUE ELSE UNCHANGED intakeVars
  /\ IF s = "guard" THEN TRUE ELSE UNCHANGED guardVars
  /\ IF s = "duty" THEN TRUE ELSE UNCHANGED dutyVars
  /\ IF s = "regulator" THEN TRUE ELSE UNCHANGED regVars
  /\ IF s = "timing" THEN TRUE ELSE UNCHANGED timingVars
  /\ IF s = "link" THEN TRUE ELSE UNCHANGED linkVars
  /\ IF s = "port" THEN TRUE ELSE UNCHANGED channelVars

Only(s, A) == subject = s /\ A /\ UNCHANGED subject /\ Others(s)

Next ==
  \/ Only("direction", DirNext)
  \/ Only("intake", IntakeNext)
  \/ Only("guard", GuardNext)
  \/ Only("duty", DutyNext)
  \/ Only("regulator", RegNext)
  \/ Only("timing", TimingNext)
  \/ Only("link", LinkNext)
  \/ Only("port", PortNext)

\* The components' own fairness.
Fairness ==
  /\ WF_dirVars(subject = "direction" /\ MainInput)
  /\ WF_dirVars(subject = "direction" /\ DirectionTick)
  /\ WF_dirVars(subject = "direction" /\ Coast)
  /\ WF_intakeVars(subject = "intake" /\ IntakeFrame)
  /\ WF_guardVars(subject = "guard" /\ GuardTick)
  /\ WF_guardVars(subject = "guard" /\ GuardMain)
  /\ WF_dutyVars(subject = "duty" /\ DutyTick)
  /\ WF_regVars(subject = "regulator" /\ Regulate)
  /\ WF_timingVars(subject = "timing" /\ PollTick)
  /\ WF_timingVars(subject = "timing" /\ ComTimerExpires)
  /\ WF_timingVars(subject = "timing" /\ ComparatorFires)
  /\ WF_timingVars(subject = "timing" /\ MainPass)
  /\ WF_timingVars(subject = "timing" /\ RotorPasses)
  /\ WF_timingVars(subject = "timing" /\ StallFound)
  /\ WF_linkVars(subject = "link" /\ FrameComes)
  /\ WF_linkVars(subject = "link" /\ (Answer(TRUE) \/ Answer(FALSE)))
  /\ SF_linkVars(subject = "link" /\ Announced)
  /\ WF_channelVars(subject = "port" /\ Sent)
  /\ WF_channelVars(subject = "port" /\ TransferComplete)
  /\ WF_channelVars(subject = "port" /\ FrameHandler)
  /\ WF_channelVars(subject = "port" /\ FrameHandlerTail)

Spec == Init /\ [][Next]_loopVars /\ Fairness
==============================================================================
