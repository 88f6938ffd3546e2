-------------------------- MODULE DifferentialTesting --------------------------
(* How a fuzz target decides whether cedar-policy and the specification agree   *)
(* (cedar-drt/src/tests.rs, the CedarTestImplementation of cedar-lean-ffi, and  *)
(* the comparisons of cedar-drt/fuzz/src/symcc.rs and schemas.rs). A trial is a *)
(* pair of answers; a comparison passes it, excuses it, or fails (a panic).     *)
EXTENDS SchemaEquivalence

CONSTANT Trials     \* the trials that are run, as a sequence of sets by kind

VARIABLES trial, verdict

drtVars == <<trial, verdict>>

Passing(b) == IF b THEN "passed" ELSE "failed"

-------------------------------------------------------------------------------
(* The answers of the specification, as cedar-lean-ffi hands them over. *)

\* A failure of the specification that the comparisons excuse.
Excused(failure) == failure \in {"unknown extension function"}
ExcusedByValidation(failure) == Excused(failure) \/ failure = "unknown extension type"

\* An erroring policy is reported with its own id as the message.
LeanResponse(lean) ==
  [decision |-> lean.decision, reasons |-> lean.reasons,
   errors |-> {<<p, p>> : p \in lean.erroring}]

\* What of the response of cedar-policy is compared, by error_comparison_mode.
RustResponse(rust, mode) ==
  [decision |-> rust.decision, reasons |-> rust.reasons,
   errors |-> CASE mode = "Ignore" -> {}
                [] mode = "PolicyIds" -> {<<e[1], e[1]>> : e \in rust.errors}
                [] mode = "Full" -> rust.errors]

LeanErrorComparisonMode == "PolicyIds"

\* The single error of a Lean validation, with the one that is a warning dropped.
LeanValidationErrors(lean) == lean.errors \ {"impossiblePolicy"}
LeanPassed(lean) == LeanValidationErrors(lean) = {}

\* InvalidActionApplication is never reported by Lean.
RustPassed(rust) == rust.errors \subseteq {"InvalidActionApplication"}

-------------------------------------------------------------------------------
(* The comparisons of tests.rs. *)

\* run_eval_test: check_evaluate says whether Lean's result is the expected one,
\* where no expected value stands for an error.
RunEvalTest(t) ==
  IF t.lean.failure # "" THEN IF Excused(t.lean.failure) THEN "excused" ELSE "failed"
  ELSE Passing(t.lean.value = t.rust.value)

\* run_auth_test.
RunAuthTest(t) ==
  IF t.lean.failure # "" THEN IF Excused(t.lean.failure) THEN "excused" ELSE "failed"
  ELSE Passing(RustResponse(t.rust, LeanErrorComparisonMode) = LeanResponse(t.lean))

\* run_val_test and run_level_val_test, through compare_validation_results with
\* AgreeOnAll: with templates cedar-policy may be the stricter one.
CompareValidationResults(t) ==
  IF t.lean.failure # "" THEN IF ExcusedByValidation(t.lean.failure) THEN "excused" ELSE "failed"
  ELSE IF RustPassed(t.rust) THEN Passing(LeanPassed(t.lean))
  ELSE IF t.templates # 0 THEN "excused" ELSE Passing(~LeanPassed(t.lean))

\* run_ent_val_test and run_req_val_test: no failure is excused.
CompareConformance(t) ==
  Passing(t.lean.failure = "" /\ (t.rust.errors = {} <=> LeanPassed(t.lean)))

-------------------------------------------------------------------------------
(* The comparisons of symcc.rs. *)

\* assert_that_asserts_match: as sets of terms, types included.
AssertsMatch(t) == Passing(Range(t.rust.asserts) = Range(t.lean.asserts))

\* assert_smtlib_scripts_match: both fail, if Lean's failure is one of its backend.
ScriptsMatch(t) ==
  Passing(IF t.rust.script # <<>> /\ t.lean.script # <<>>
            THEN t.rust.script = t.lean.script
            ELSE /\ t.rust.script = <<>> /\ t.lean.script = <<>>
                 /\ t.lean.failure = "backend error")

\* arbitrary_policies: a policy whose id was seen gets "_<index>" appended, and then
\* "*" until the id is new. An id is the sequence of its parts.
RECURSIVE Starred(_, _)
Starred(id, seen) == IF id \in seen THEN Starred(Append(id, "*"), seen) ELSE id

IndexName == <<"0", "1", "2", "3", "4", "5", "6", "7", "8", "9">>
Reidentified(id, i, seen) == IF id \in seen THEN Starred(Append(id, IndexName[i]), seen) ELSE id

RECURSIVE UniqueIds(_)
UniqueIds(ids) ==
  IF ids = <<>> THEN <<>>
  ELSE LET before == UniqueIds(Front(ids))
       IN  Append(before, Reidentified(Last(ids), Len(ids), Range(Front(ids)) \cup Range(before)))

\* PolicySet::from_policies, which "should not fail", refuses a repeated id.
MakePolicySet(t) == Passing(IsInjective(UniqueIds(t.ids)))

\* schemas_are_equivalent and the comparison of the common-type target.
SchemasEquivalent(t) == Passing(EquivalenceCheck(t.rust, t.lean))
ResolvedEquivalent(t) == Passing(ResolvedEquiv(t.rust, t.lean))

-------------------------------------------------------------------------------
DrtInit == (\E i \in DOMAIN Trials : trial \in Trials[i]) /\ verdict = "running"

\* A comparison ends with the verdict on its trial.
Judge(kind, judgement) ==
  /\ verdict = "running" /\ trial.kind = kind
  /\ verdict' = judgement
  /\ UNCHANGED trial

JudgeEvaluation == Judge("evaluate", RunEvalTest(trial))
JudgeAuthorization == Judge("authorize", RunAuthTest(trial))
JudgeValidation == Judge("validate", CompareValidationResults(trial))
JudgeConformance == Judge("conform", CompareConformance(trial))
JudgeAsserts == Judge("asserts", AssertsMatch(trial))
JudgeScripts == Judge("scripts", ScriptsMatch(trial))
JudgePolicies == Judge("policies", MakePolicySet(trial))
JudgeSchemas == Judge("schemas", SchemasEquivalent(trial))
JudgeResolved == Judge("resolved", ResolvedEquivalent(trial))

DrtNext ==
  \/ JudgeEvaluation \/ JudgeAuthorization \/ JudgeValidation \/ JudgeConformance
  \/ JudgeAsserts \/ JudgeScripts \/ JudgePolicies \/ JudgeSchemas \/ JudgeResolved

DrtSpec == DrtInit /\ [][DrtNext]_drtVars

-------------------------------------------------------------------------------
\* What it is for both sides to agree, said without the comparisons.
Agree(t) ==
  CASE t.kind = "evaluate" -> t.rust.value = t.lean.value
    [] t.kind = "authorize" ->
         /\ t.rust.decision = t.lean.decision /\ t.rust.reasons = t.lean.reasons
         /\ {e[1] : e \in t.rust.errors} = t.lean.erroring
    [] t.kind = "validate" ->
         (\E e \in t.rust.errors : e # "InvalidActionApplication")
           <=> (\E e \in t.lean.errors : e # "impossiblePolicy")
    [] t.kind = "conform" -> t.rust.errors = {} <=> t.lean.errors = {}
    [] t.kind = "asserts" -> \A a \in Range(t.rust.asserts) \cup Range(t.lean.asserts) :
                               a \in Range(t.rust.asserts) \cap Range(t.lean.asserts)
    [] t.kind = "scripts" -> t.rust.script = t.lean.script
    [] t.kind = "policies" ->
         \* every policy is still there, and one whose id was its own keeps it
         LET ids == UniqueIds(t.ids) IN
         /\ Cardinality(Range(ids)) = Len(t.ids)
         /\ \A i \in DOMAIN t.ids :
              (\A j \in 1 .. i - 1 : t.ids[j] # t.ids[i] /\ ids[j] # t.ids[i])
                => ids[i] = t.ids[i]
    [] t.kind = "schemas" -> FragmentMeaning(t.rust) = FragmentMeaning(t.lean)
    [] t.kind = "resolved" -> t.rust.types = t.lean.types

\* Failures that are not disagreements: the specification failed on its own account.
LeanFailed(t) == t.kind \in {"evaluate", "authorize", "validate", "conform", "scripts"}
             /\ t.lean.failure # ""

\* A comparison that passes has seen agreement; one that panics has seen a
\* disagreement or an unexpected failure, though fragments may be told apart that
\* mean the same; and what is excused is one of the two known gaps, in neither of
\* which cedar-policy accepts what the specification rejects (tests.rs:38-266,
\* schemas.rs:63-81, symcc.rs:104-148 and 229-268).
VerdictEarned ==
  /\ verdict = "passed" => Agree(trial)
  /\ verdict = "failed" /\ trial.kind \notin {"schemas", "resolved"}
       => ~Agree(trial) \/ LeanFailed(trial)
  /\ verdict = "failed" /\ trial.kind = "schemas"
       => trial.rust # trial.lean /\ ~EquivalenceCheck(trial.lean, trial.rust)
  /\ verdict = "excused" =>
       \/ trial.lean.failure \in {"unknown extension function", "unknown extension type"}
       \/ trial.kind = "validate" /\ trial.templates > 0 /\ ~RustPassed(trial.rust)

\* Every variable has its type.
DrtTypeOK ==
  /\ trial.kind \in {"evaluate", "authorize", "validate", "conform", "asserts", "scripts",
                     "policies", "schemas", "resolved"}
  /\ verdict \in {"running", "passed", "excused", "failed"}
================================================================================
