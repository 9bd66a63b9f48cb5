\* Two adapters with any EEPROM each, and every hardware failure the code
\* handles: failed header reads, pcimem errors, any setpci call failing, an adapter
\* lost in the reset, a failed EepFile, and stdin ending before a number.
CONSTANTS
  Slots = {1, 2}
  ScanFails = TRUE
  ReadFails = TRUE
  SetpciFails = TRUE
  ResetLoses = TRUE
  FileFails = TRUE
  StdinEOF = TRUE
  MaxArgs = 2
SPECIFICATION Spec
INVARIANT TypeOK ChosenOnly BlankRecovered ListOnlyHarmless
\* h1a_ee ends at __exit or exit(-1): pc = "exit".
CHECK_DEADLOCK FALSE
