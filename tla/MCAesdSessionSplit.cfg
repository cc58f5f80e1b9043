SPECIFICATION Spec
CONSTANTS
  c1 = c1
  c2 = c2
  c3 = c3
  a = a
  s1 = s1
  s2 = s2
  nl = nl
  Client = {c1}
  Script <- SeekScript
  Prefix1 = s1
  Prefix2 = s2
  Number <- Digits
  Newline = nl
  BufferSize = 4
  Capacity = 2
  Stamp = Stamp
  MaxStamps = 1
  Builds = {TRUE}
  NULL = NULL
INVARIANTS
  CommandNotWritten
CHECK_DEADLOCK FALSE
