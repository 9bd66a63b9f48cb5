\* Every command line of up to four arguments that reaches EepFile, on a
\* freshly initialised EEPROM (EepSize 4) and on one with a 6-byte register
\* entry (EepSize 10, the serial number's or not);
\* files of up to 10 bytes (two words, a 16-bit remainder, the pair
\* anywhere).  The counters do not wrap at these sizes.
CONSTANTS
  Sizes = {0, 1, 2, 3, 4, 5, 6, 7, 8, 9, 10}
  ByteBits = 4
  WordBits = 2
  WriteFails = TRUE
  MaxArgs = 4
  EepSizes = {4, 10}
SPECIFICATION Spec
INVARIANT TypeOK WordsProgrammed FileSaved SerialKept SerialWritten
PROPERTY LoadTerminates
\* A command ends with pc = "done": the program returns.
CHECK_DEADLOCK FALSE
