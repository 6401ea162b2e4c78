\* The G431, whose scan reads temperature, voltage and current.
SPECIFICATION AdcSpec
CONSTANTS
  AdcChips = {"g431"}
PROPERTY ReadingsMeanWhatTheySay
