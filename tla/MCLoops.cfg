\* The components of MCLoops, each by itself.
SPECIFICATION Spec
CONSTANTS
  DirModes = {"BidirDshot", "BidirServo", "BidirServoRc"}
  DshotSticks = {0, 400, 1500}
  ServoSticks = {0, 1000, 2000}
  DeadBand = 10
  BrakeOnStop = TRUE
  SineStart = TRUE
  IdleHighFrames = 3
  ConfirmFrames = 2
  AverageFrames = 1
  ZeroFrames = 1
  EntryFrames = 1
  MinThrottle = 1500
  MaxJitter = 50
  StickCalibration = TRUE
  IntakeThrottles = {0, 1900, 2000}
  DisarmLimit = 1
  UnarmedLimit = 2
  ArmingLimit = 1
  CutoffLimit = 1
  DutyPages <- RampPages
  DutyBoard <- G071
  DutyThrottles = {0, 130, 300}
  DutyCeilings = {100, 2000}
  StallBoosts = {0, 150}
  Publications = 2
  CurrentGains <- LimitGains
  FloorDuty = 60
  Readings <- LoopReadings
  Targets <- LoopTargets
  Loads = 2
  Rotors = {600, 4000}
  Reversible = FALSE
  StrictChangeover = TRUE
  SineStarts = TRUE
  Advance = 16
  TargetCounts = 1
  BadThreshold = 1
  Disturbances = 1
  Values = {13, 1046}
  TwoWays = {TRUE, FALSE}
  BitTimes = {107, 213}
  WindowLow = 1500
  WindowHigh = 3200
  Flips = {0, 15}
  ComTimes = {300, 1000, 70000}
  Measured <- AmpsAndVolts
  CurrentEvery = 4
  SlowEvery = 12
  InitEvery = 10
  CounterMod = 30
  PeerSticks = {0, 1000}
  Rates = {0, 1}
INVARIANTS ThrottleFollowsStick NoFalseLoss LinkReadsBack PortConsistent
PROPERTIES ReversalGranted ReversalServed LineDecisionsConfirmed BidirRecognised LossDisarms DutySettles RegulatorsSettle RotorFollowed EdtAnnounced PortListens
