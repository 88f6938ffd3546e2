-------------------------- MODULE MCRustPrograms --------------------------
(* The programs in Rust around the specification, on small inputs. They are *)
(* processes of their own that share nothing, so a behaviour is one of one  *)
(* of them: `live` says which, and the others stay as they start.           *)
EXTENDS MCLeanCli, MCBench, LeanRuntime, MCLeanAnswers, MCSchema, MCEntities,
        MCDrt

VARIABLE live

AnInvocation == CHOOSE i \in MCInvocations : i.bad # {}
ABenchmarkRun == CHOOSE r \in MCBenchmarkRuns : ArgsAccepted(r)
AConversation == CHOOSE c \in MCConversations : c.about = "response"
ASchemaDraw == CHOOSE d \in MCSchemaDraws : TRUE
APlan == CHOOSE p \in MCPlans : TRUE
ATrial == CHOOSE t \in EvalTrials : t.lean.failure # ""

Only(name, choice) == IF live = name THEN TRUE ELSE choice

RustInit ==
  /\ live \in {"cli", "benchmark", "runtime", "answers", "schemas", "entities",
              "comparisons", "pool"}
  /\ Only("cli", invocation = AnInvocation) /\ MCLeanCliInit
  /\ Only("benchmark", args = ABenchmarkRun) /\ BenchInit
  /\ RuntimeInit
  /\ Only("answers", talk = AConversation) /\ AnswersInit
  /\ Only("schemas", draw = ASchemaDraw) /\ SchemaInit
  /\ Only("entities", plan = APlan) /\ EntityInit
  /\ IF live = "comparisons" THEN DrtInit ELSE trial = ATrial /\ verdict = "running"
  /\ Only("pool", fuzzTarget = "cexDrt") /\ PoolInit

Cli ==
  /\ live = "cli" /\ LeanCliNext
  /\ UNCHANGED <<live, benchVars, runtimeVars, answersVars, schemaVars,
                  entityVars, drtVars, poolVars>>
Benchmark ==
  /\ live = "benchmark" /\ BenchNext
  /\ UNCHANGED <<live, cliVars, analysisVars, runtimeVars, answersVars,
                  schemaVars, entityVars, drtVars, poolVars>>
Runtime ==
  /\ live = "runtime" /\ RuntimeNext
  /\ UNCHANGED <<live, cliVars, analysisVars, benchVars, answersVars,
                  schemaVars, entityVars, drtVars, poolVars>>
Converse ==
  /\ live = "answers" /\ AnswersNext
  /\ UNCHANGED <<live, cliVars, analysisVars, benchVars, runtimeVars,
                  schemaVars, entityVars, drtVars, poolVars>>
DrawSchema ==
  /\ live = "schemas" /\ SchemaNext
  /\ UNCHANGED <<live, cliVars, analysisVars, benchVars, runtimeVars,
                  answersVars, entityVars, drtVars, poolVars>>
DrawEntities ==
  /\ live = "entities" /\ EntityNext
  /\ UNCHANGED <<live, cliVars, analysisVars, benchVars, runtimeVars,
                  answersVars, schemaVars, drtVars, poolVars>>
JudgeTrial ==
  /\ live = "comparisons" /\ DrtNext
  /\ UNCHANGED <<live, cliVars, analysisVars, benchVars, runtimeVars,
                  answersVars, schemaVars, entityVars, poolVars>>
AskPool ==
  /\ live = "pool" /\ PoolNext
  /\ UNCHANGED <<live, cliVars, analysisVars, benchVars, runtimeVars,
                  answersVars, schemaVars, entityVars, drtVars>>

RustNext ==
  \/ Cli \/ Benchmark \/ Runtime \/ Converse \/ DrawSchema \/ DrawEntities
  \/ JudgeTrial \/ AskPool
rustVars == <<live, cliVars, analysisVars, benchVars, runtimeVars, answersVars,
              schemaVars, entityVars, drtVars, poolVars>>
RustSpec == RustInit /\ [][RustNext]_rustVars
===========================================================================
