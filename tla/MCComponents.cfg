\* The components of MCComponents, each by itself.
SPECIFICATION Spec
CONSTANTS
  FrameValues = {0, 13, 36, 37, 600}
  Positions = {0, 1}
  Repeats = 2
  Lines = {TRUE, FALSE}
  HighHeld = {1860, 1945}
  LowHeld = {1000, 1230}
  OtherPulses = {700, 1300, 1600}
  HighCounts = 50
  LowCounts = 75
  TickLevels = {2, 3}
  Exchanges = {TRUE, FALSE}
  BrakeSettings = {1, 2}
  PwmModes = {"diode", "complementary"}
  Tunes <- ArmingNotes
  LastByte = 1
  QueueLen = 3
  MaxVersion = 2
  RcByte = 0
  PwmByte = 1
  Erased = Erased
  SineThrottles = {0, 60, 150, 300}
  Poles = 14
  SinePower = 5
  GateOffset = 60
  SinePeriod = 2666
  TicksPerMs = 1
  CellCounts = {0, 3}
  Beacons = {1, 3}
  Volumes = {0}
  ToneModes = {"diode", "complementary"}
  ClockMod = 7
  LedHalf = 2
  PerMeasure = 3
  CounterLimit = 4
  TelemetryEvery = 2
  FullCharge = 11
  Currents <- SomeCurrents
  Speeds <- TwoSpeeds
  Degrees = {150}
  Rating <- LargeMotor
  AdcChips = {"g071", "l431"}
  FlashChips = {"f051", "g071"}
  PageBytes = 9
  Contents = {1, 2}
  ShortPacket = 2
  LongPacket = 3
  StartChips = {"g071", "f051", "l431"}
  SoftWatchdog = {"g071", "l431"}
INVARIANTS CellsExclusive CalibratedEnds LegSafe DrivesItsStep SaveKept LastPacketWhole WritesClocked PageAsGiven
PROPERTIES OneWayAsSent CopiesFollow WritesArrive FieldWalksTable TunesAsAsked ClockAccounts ReadingsMeanWhatTheySay GateSafe
