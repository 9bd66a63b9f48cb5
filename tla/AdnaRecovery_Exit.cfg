\* As AdnaRecovery.cfg: the exit status of a run in which a device was picked.
CONSTANTS
  Slots = {1, 2}
  ScanFails = TRUE
  ReadFails = TRUE
  SetpciFails = TRUE
  ResetLoses = TRUE
  FileFails = TRUE
  StdinEOF = TRUE
  MaxArgs = 2
SPECIFICATION Spec
INVARIANT ExitReflectsResult
CHECK_DEADLOCK FALSE
