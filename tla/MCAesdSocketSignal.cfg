SPECIFICATION FairSpec
CONSTANTS
  c1 = c1
  c2 = c2
  c3 = c3
  Main = main_thread
  Timer = timer_thread
  NULL = NULL
  Client = {c1}
  UseDevice = TRUE
  SignalTarget = {main_thread}
  MaxSignals = 1
PROPERTIES
  SignalTerminates
CHECK_DEADLOCK FALSE
