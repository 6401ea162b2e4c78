\* Sine start, proportional brake, loose changeover, stuck-rotor protection.
SPECIFICATION Spec
CONSTANTS
  UseSine = TRUE
  BrakeMode = 1
  StuckProtection = TRUE
  StrictChangeover = FALSE
  Throttle <- SineThrottle
  SineMap <- SineStartMap
  AdvanceZc = 1
  DesyncZc = 1
  ExitZc = 2
  StrictLimit = 1
  LenientLimit = 1
  Latched = 2
INVARIANTS RunningIsDriven SteadyStillHolds GateLatched SineOwnsBridge
PROPERTIES DriveNeedsRunning TickSettlesBridge HandoffComplete
