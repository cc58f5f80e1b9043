SPECIFICATION Spec
CONSTANTS
  Function <- Unchecked
  MaxCalls = 1
  MaxSignals = 1
INVARIANTS
  TrueMeansSuccess
CHECK_DEADLOCK FALSE
