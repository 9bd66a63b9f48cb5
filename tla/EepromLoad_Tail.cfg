\* Every command line of up to four arguments that reaches EepFile; a -w file
\* image of a 4-byte header and one 6-byte register entry (the form
\* EepromFileSave writes: sizes 2 mod 4), on a part whose writes may not take.
CONSTANTS
  Sizes = {6}
  ByteBits = 3
  WordBits = 2
  WriteFails = TRUE
  MaxArgs = 4
  EepSizes = {4}
SPECIFICATION Spec
INVARIANT FileProgrammed
CHECK_DEADLOCK FALSE
