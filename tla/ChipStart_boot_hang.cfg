\* The F051, whose watchdog driver waits for its registers before it starts it.
SPECIFICATION StartSpec
CONSTANTS
  StartChips = {"f051"}
  SoftWatchdog = {"f051"}
PROPERTY StartUpEnds
