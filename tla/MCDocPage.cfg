SPECIFICATION MCSpec
CONSTANTS
  Indexes <- IndexChoices
  Texts <- Typed
  MaxTimers = 2
  MaxLoads = 2
  Rows <- FilesTable
  Levels <- DetailLevels
  DataFiles <- TwoFiles
  Queries <- FourQueries
  MaxChildren = 2
  Folds <- Blocks
  Enclosing <- Nesting
  Widths <- FourWidths
  MaxQueue = 3
  outer = outer
  inner = inner
  other = other
  NoFold = NoFold
INVARIANTS
  InactiveIsReset
  CloseWithWindow
  AnswerComplete
  NoTimerUnderPointer
  UnsearchedIsPending
  FocusSeen
  ArrowsFollowReading
  TreeShown
  ArrowTells
  StripesAlternate
  LinesOnce
  ImageTells
  MenuAsAsked
CHECK_DEADLOCK FALSE
