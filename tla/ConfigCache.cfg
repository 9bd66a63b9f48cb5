\* h1a_ee's config_fetch against the cache contract of spec 4.1.
\* 256 bytes scale to 2, calls end at or below 8 (the buffer grows to 4, then 8).
CONSTANTS
  StdSize = 2
  MaxEnd = 8
  Widths = {1, 2}
SPECIFICATION Spec
INVARIANT TypeOK ReadInBuffer
PROPERTY ImplementsCacheSpec
\* die() in check_conf_range ends the program.
CHECK_DEADLOCK FALSE
