SPECIFICATION FairSpec
CONSTANTS
  c1 = c1
  c2 = c2
  c3 = c3
  a = a
  s1 = s1
  s2 = s2
  nl = nl
  Client <- Peers
  Script <- MixedScript
  Prefix1 = s1
  Prefix2 = s2
  Number <- Digits
  Newline = nl
  BufferSize = 4
  Capacity = 1
  Stamp = Stamp
  MaxStamps = 1
  Builds = {TRUE, FALSE}
  NULL = NULL
INVARIANTS
  SectionLeftClean
  AnswerShowsCommand
PROPERTIES
  ImplementsEchoLog
  TurnComes
CHECK_DEADLOCK FALSE
