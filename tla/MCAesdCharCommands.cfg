SPECIFICATION Spec
CONSTANTS
  p1 = p1
  p2 = p2
  f1 = f1
  f2 = f2
  a = a
  b = b
  Byte = {a, b, nl}
  Newline = nl
  Free = Free
  NULL = NULL
  Proc = {p1, p2}
  File = {f1, f2}
  Block = {m1, m2, m3, m4}
  Capacity = 2
  MaxPending = 1
  Call <- OneWriter
INVARIANTS
  EntriesAreCommands
