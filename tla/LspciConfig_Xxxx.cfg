\* lspci -xxxx on one compliant device (64-byte cells).
CONSTANTS
  HdrCells = 1
  StdCells = 4
  ExtCells = 8
  HexLevels = {4}
  VerboseLevels = {0, 1, 2}
  Compliant = TRUE
  Cyclic = FALSE
SPECIFICATION Spec
INVARIANT InBounds
\* show_device of the last device ends the program.
CHECK_DEADLOCK FALSE
