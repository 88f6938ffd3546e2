SPECIFICATION RustSpec
CONSTANTS
  PolicyIds <- MCPolicyIds
  EnvSeq <- MCEnvSeq
  Situations <- MCSituations
  Programs <- MCPrograms
  Comparisons <- MCComparisons
  Invocations <- MCInvocations
  BenchmarkRuns <- MCBenchmarkRuns
  Objects = {o1, o2, o3, o4}
  NoObject = none
  Conversations <- MCConversations
  SchemaDraws <- MCSchemaDraws
  Plans <- MCPlans
  Trials <- MCTrials
  Queries = 5
  UsageLimit = 3
INVARIANTS
  AnalysisExact VerdictExact CleanFailure
  BenchmarkExact Counted AnswersExact SchemasSound InputsSound
  VerdictEarned FreshModels
CHECK_DEADLOCK FALSE
