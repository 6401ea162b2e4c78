\* No sine start, active brake, strict changeover, the scheduler fair.
SPECIFICATION FairSpec
CONSTANTS
  UseSine = FALSE
  BrakeMode = 2
  StuckProtection = FALSE
  StrictChangeover = TRUE
  Throttle <- PlainThrottle
  SineMap <- PlainMap
  AdvanceZc = 1
  DesyncZc = 0
  ExitZc = 1
  StrictLimit = 0
  LenientLimit = 0
  Latched = 1
INVARIANTS BrakeUndisturbed
PROPERTIES StallRecovers KillHonoured
