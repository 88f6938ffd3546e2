SPECIFICATION PartsSpec
CONSTANTS
  IntMin <- MCIntMin
  IntMax = 2
  ExtFuns <- MCExtFuns
  Ets <- MCEts
  Acts <- MCActs
  Effect <- MCEffect
  Policies <- MCPolicies
  Programs <- MCPrograms
  Requests <- MCOneRequest
  Stores <- MCPartialStores
  Lessons <- MCLessons
  ActionUids <- MCActionUids
  ActionData <- MCActionData
  AsKnown <- MCAsKnown
  Unknown <- MCUnknown
  Closed <- MCClosed
  PartialEvaluate <- MCPartialEvaluate
  Outcome <- MCOutcome
  Class <- MCClass
  AttrTypes <- MCAttrTypes
  SliceStores <- MCSliceStores
  SliceRequests <- MCSliceRequests
  SliceExprs <- MCSliceExprs
  MaxLevel = 5
  LevelNodes <- MCLevelNodes
  NodeSize <- MCNodeSize
  LevelValues <- MCLevelValues
  LevelTypes <- MCLevelTypes
  HasPaths <- MCHasPaths
  Accesses <- MCAccesses
  OfType <- MCOfType
  EvaluateIn <- Evaluate
  HasAttrsIn <- HasAttrs
  ValueEUIDs <- MCValueEUIDs
  ChainCost <- MCChainCost
  FirstEntityPath <- MCFirstEntityPath
  CheckLevel <- MCCheckLevel
  CheckEntityAccessLevel <- MCCheckEntityAccessLevel
  Templates <- MCTemplateMap
  LinkLists <- MCLinkLists
  TemplateStores <- MCTemplateStores
  TemplateRequests <- MCRequests
  PolicyNodes <- MCPolicyNodes
  ResultOf <- Evaluate
  MillisMin <- MCMillisMin
  MillisMax = 63
  Second = 2
  Minute = 3
  Hour = 1
  Day = 2
  Literals <- MCLiterals
  Written <- MCWritten
  Sent <- MCSent
  Follows <- MCFollows
  MessageTypes <- MCMessageTypes
  RootType = "Policy"
  Messages <- MCMessages
INVARIANTS
  DecisionSound ReauthorizeAgrees FullKnowledgeSettles
  SlicesSuffice TemplatesSuffice DatetimesRight VarintExact MessageExact
PROPERTY KnowledgeOnlySettles
CHECK_DEADLOCK FALSE
