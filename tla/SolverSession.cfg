SPECIFICATION Spec
CONSTANTS
  MaxQueries = 3
  InCap = 1
  OutCap = 1
  Definitions = 2
  Crashes = TRUE
INVARIANTS AnswersRight ModelsWhole NothingPending
PROPERTY ClosesUnlessCut
CHECK_DEADLOCK FALSE
