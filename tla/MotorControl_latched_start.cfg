SPECIFICATION Spec
CONSTANTS
  UseSine = FALSE
  BrakeMode = 0
  StuckProtection = TRUE
  StrictChangeover = TRUE
  Throttle <- PlainThrottle
  SineMap <- PlainMap
  AdvanceZc = 1
  DesyncZc = 1
  ExitZc = 2
  StrictLimit = 1
  LenientLimit = 2
  Latched = 3
PROPERTIES
  LatchedStaysStopped
