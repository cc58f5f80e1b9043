SPECIFICATION MCSpec
CONSTANTS
  Function <- Checked
  MaxCalls = 2
  MaxSignals = 2
  t1 = t1
  t2 = t2
  t3 = t3
  Nobody = Nobody
  Thread <- ThreeThreads
INVARIANTS
  TrueMeansSuccess
  OutputRedirected
PROPERTIES
  ThreadsFinish
CHECK_DEADLOCK FALSE
