SPECIFICATION Spec
CONSTANTS
  UseSine = TRUE
  BrakeMode = 0
  StuckProtection = TRUE
  StrictChangeover = TRUE
  Throttle <- SineThrottle
  SineMap <- SineStartMap
  AdvanceZc = 1
  DesyncZc = 1
  ExitZc = 2
  StrictLimit = 1
  LenientLimit = 2
  Latched = 3
PROPERTIES
  DesyncSettled
