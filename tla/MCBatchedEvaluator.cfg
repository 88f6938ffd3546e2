SPECIFICATION Spec
CONSTANTS
  IntMin <- MCIntMin
  IntMax = 2
  ExtFuns <- MCExtFuns
  Ets <- MCEts
  Acts <- MCActs
  Exprs <- MCEvaluated
  IsValue <- MCIsValue
  Uids <- MCUids
  ActionUids <- MCActionUids
  Requests <- MCRequests
  Backings <- MCBackings
  AsPartial <- MCAsPartial
  ActionData <- MCActionData
  Residuals <- MCResiduals
  Iters = 4
  Matched <- MCMatched
  PartialEvaluate <- MCPartialEvaluate
  Outcome <- MCOutcome
  Class <- MCClass
  LiteralUIDs <- AllLiteralUIDs
INVARIANTS ResultSound WasteIsHarmless Converges
PROPERTY Ends
CHECK_DEADLOCK FALSE
