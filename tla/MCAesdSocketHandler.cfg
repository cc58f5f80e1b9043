SPECIFICATION Spec
CONSTANTS
  c1 = c1
  c2 = c2
  c3 = c3
  Main = main_thread
  Timer = timer_thread
  NULL = NULL
  Client = {c1, c2}
  UseDevice = TRUE
  SignalTarget = {c1}
  MaxSignals = 1
INVARIANTS
  NodeUse
CHECK_DEADLOCK FALSE
