\* A unidirectional input after a restart, with a saved reversed direction.
SPECIFICATION DirSpec
CONSTANTS
  DirModes = {"Unidirectional"}
  DshotSticks = {0, 400}
  ServoSticks = {}
  DeadBand = 10
  BrakeOnStop = FALSE
INVARIANT SavedDirectionHolds
