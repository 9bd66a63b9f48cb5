\* lspci -v on a device whose capability list may loop back.
CONSTANTS
  HdrCells = 1
  StdCells = 4
  ExtCells = 8
  HexLevels = {0}
  VerboseLevels = {0, 1, 2}
  Compliant = TRUE
  Cyclic = TRUE
SPECIFICATION Spec
PROPERTY CapsTerminate
\* show_device of the last device ends the program.
CHECK_DEADLOCK FALSE
