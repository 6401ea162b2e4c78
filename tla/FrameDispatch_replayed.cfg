SPECIFICATION DispatchSpec
CONSTANTS
  FrameValues = {0, 13, 36, 37, 600}
  Positions = {0, 1, 13}
  Repeats = 2
  Lines = {TRUE}
PROPERTIES SettingsAsSent
