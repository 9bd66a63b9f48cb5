\* lspci -m/-v/-vv/-x/-xxx on one compliant device, 64-byte cells.
CONSTANTS
  HdrCells = 1
  StdCells = 4
  ExtCells = 8
  HexLevels = {0, 1, 3}
  VerboseLevels = {0, 1, 2}
  Compliant = TRUE
  Cyclic = FALSE
SPECIFICATION Spec
INVARIANT TypeOK ShownFetched InBounds BasesInSlots BasesAreRegions
PROPERTY CapsTerminate
\* show_device of the last device ends the program.
CHECK_DEADLOCK FALSE
