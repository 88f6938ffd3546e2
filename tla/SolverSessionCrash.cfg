SPECIFICATION Spec
CONSTANTS
  MaxQueries = 1
  InCap = 2
  OutCap = 1
  Definitions = 1
  Crashes = TRUE
PROPERTY Closes
CHECK_DEADLOCK FALSE
