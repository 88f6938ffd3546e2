SPECIFICATION Spec
CONSTANTS
  IntMin <- MCIntMin
  IntMax = 2
  ExtFuns <- MCExtFuns
  Ets <- MCEts
  Acts <- MCActs
  PolicyIds <- MCPolicyIds
  Effect <- MCEffect
  Uids <- MCUids
  ActionUids <- MCActionUids
  Requests <- MCBatchedRequests
  Backings <- MCBackings
  AsPartial <- MCAsPartial
  ActionData <- MCActionData
  Residuals <- MCResiduals
  Programs <- MCFewPrograms
  Iters = 4
  Matched <- MCMatched
  WellTyped <- MCWellTyped
  PartialEvaluate <- MCPartialEvaluate
  Outcome <- MCOutcome
  Class <- MCClass
  LiteralUIDs <- AllLiteralUIDs
INVARIANT LoaderWellBehaved
CHECK_DEADLOCK FALSE
