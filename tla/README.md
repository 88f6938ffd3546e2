# TLA+ models of the Cedar specification and its tooling

This directory holds TLA+ modules that model parts of this repository: the
Lean specification of Cedar (`cedar-lean/Cedar`), the loops that evaluate and
authorize with entities loaded on demand, the session with an SMT solver, the
manager that runs the fuzz targets, the slices and templates that policies are
authorized with, the arithmetic of datetimes, the decoding of what crosses the
language boundary, and the Rust programs around the specification: the bindings
that call it, the command line, the benchmarks, the generators of test inputs
and the comparisons of the fuzz targets. TLC checks the models on small
instances; TLAPS proves the main results for every value of the constants.

Paths without a directory below are relative to `cedar-lean/Cedar`, except
`fuzz_manager.py`, which is `cedar-drt/fuzz_manager.py`, and the files of
`cedar-lean/Protobuf`.

## 1. Inventory

| component | state it keeps | operations | hard behaviour |
|---|---|---|---|
| **Evaluator** `Spec/Evaluator.lean` | none (pure) | `evaluate`, `apply₁`, `apply₂`, `hasAttr(s)`, `getAttr`, `bindAttr` | errors and short-circuits: which operand is looked at |
| **Authorizer** `Spec/Authorizer.lean` | none | `satisfiedPolicies`, `errorPolicies`, `isAuthorized` | skip-on-error |
| **Partial evaluator** `TPE/Evaluator.lean`, `Residual.lean`, `Input.lean` | a partial request and a partial store that grow between calls | `evaluate`, `errorFree`, `allLiteralUIDs`, `asPartial` | dropping what may fail, unknown against absent, deciding by types |
| **Partial authorizer** `TPE/Authorizer.lean` | the response a caller keeps | `isAuthorized`, `isAuthorizedFromResiduals`, `Response.reauthorize` | a decision taken early must never have to be taken back |
| **Batched evaluation** `TPE/BatchedEvaluator.lean` | residuals, loaded store, rounds left | `batchedEvaluate(Loop)`, `batchedAuthorize(Loop)`, the caller's loader | progress of rounds, answers that overlap, missing entities, rounds running out |
| **Typechecker, levels, validation** `Validation/` | capabilities, type environment | `typeOf`, `typecheckAtLevel`, `requestMatches...`, `entitiesMatch...` | capabilities must not outlive what they rest on |
| **Slicing** `Spec/Slice.lean`, `Slice/` | the slice under construction | `sliceAtLevel`, policy slices | nothing a policy needs is left out |
| **Extension types** `Spec/Ext/`, `Data/Int64.lean` | none | decimal, datetime, duration, IP arithmetic and parsing | overflow, signs, boundaries |
| **Policies** `Spec/Policy.lean`, `Template.lean`, `Wildcard.lean` | policy set, links | linking, wildcard match | slots of many links of one template, the order of conditions |
| **Symbolic compiler** `SymCC/`, `SymCCOpt/` | hash-consed encoder state | compile, enforce, verify, decode | agreement of the two compilers |
| **Solver session** `SymCC/Solver.lean`, `SatUnsat.lean`, `Encoder.lean` | a child process, two pipes, the asserts it holds | `spawn`, `reset`, `encode`, `checkSat`, `getModel`, `cleanup` | pipes that fill up, answers to earlier queries, a solver that dies |
| **Protobuf** `cedar-lean/Protobuf` | a parser position | varints, fields, message merge | field order, repeated fields, widths |
| **FFI** `cedar-lean/CedarFFI`, `cedar-lean-ffi` | reference counts, the Lean runtime, the thread | `lean_object.rs`, `lean_ffi.rs`; terms and residuals in `datatypes.rs`, `messages.rs` | ownership across languages, initialisation, error paths; definitions that refer to each other |
| **CLI** `cedar-lean-cli` | findings of an analysis, what was printed | `evaluation.rs`, `validation.rs`, `symcc.rs`, `analysis.rs` | which of several bad inputs is reported; verdicts over request environments |
| **Fuzz manager** `fuzz_manager.py` | tasks, a semaphore, child processes, statuses | build, run, cancel, report | signals at any moment, children that outlive tasks, a process that cannot be created |
| **Generators** `cedar-policy-generators` | a schema, a hierarchy, policies under construction | `schema.rs`, `hierarchy.rs`, `policy*.rs`, `rbac.rs`, `request.rs` | acyclic hierarchies, common types that refer to each other, links that fill every slot, running out of input |
| **Differential testing** `cedar-drt/src`, `cedar-drt/fuzz/src` | a verdict; a solver shared by the targets and its last model | the comparisons of `tests.rs`, `symcc.rs`, `schemas.rs` | what is excused, schemas that mean the same, a model of an earlier query |
| **Benchmarking** `cedar-benchmarking` | results, comparisons | select, prepare, measure, compare, report | a time of 0, noise, keys that occur twice |

How they interact. Batched authorization calls the partial evaluator in every
round and the partial authorizer at the head of every round; it calls back into
the caller's loader, whose answers (`MaybeEntityData`) become partial data and
go over the store. The partial authorizer's answer is finished by the concrete
evaluator (`reauthorize`). The symbolic queries compile policies, encode them to
a solver process through a pipe, and decode what comes back. The fuzz manager
starts `cargo fuzz run` children, which drive the Rust implementation and,
through the FFI, the Lean one.

What makes them correct:

* evaluators: partial evaluation keeps the meaning of an expression, errors
  included; what is settled stays settled;
* partial authorizer: an early decision is the final one; finishing a response
  gives what authorizing from scratch gives;
* batched loops: loaded data is the store's, rounds are not wasted, enough
  rounds suffice, a decision is the concrete one, an answer comes;
* solver session: an answer belongs to its query; nobody waits for ever; the
  process is reaped;
* fuzz manager: at most `--jobs` children, permits conserved, no orphans, an
  exit code of which one knows what it says, an end;
* Lean runtime: the count of an object is the number of places that hold it;
* answers: a term rebuilt from shared definitions is the term that was sent;
* command line: a verdict is true of exactly the environments asked for, and a
  failure is never taken for one;
* slices: authorizing with a slice of the entities or of the policies is
  authorizing with all of them; a linked policy does what its template says;
* datetimes: results stay within 64 bits, before the epoch too; a duration that
  fits parses;
* decoding: what was written is what is read, and what was cut off is refused or
  ends with a whole record;
* analysis: a finding is reported exactly if the policies are so related;
* generators: acyclic hierarchies that conform to their schema, schemas whose
  common types change nothing, policies that link;
* comparisons: a target that passes has seen agreement, and one that panics a
  disagreement; a counterexample belongs to its query;
* benchmarks: every measurement is in one place of a comparison, and the exit
  code counts what the table marks.

`PROJECT.json` lists every component, the hazards with the line where each
bites, and the properties that guard them.

## 2. Modules

```
CedarValues ── CedarEvaluator ── PartialEvaluator ── MCCedar ──┬────────────┐
Authorizer ─┬─ TypeAwareAuthorizer ────────────────────────────┼────────────┤
EntityLoader┴┬ BatchedAuthorizer ──────────────────────────────┼─ MCBatched  (refines AuthorizationPromise)
             └ BatchedEvaluator ───────────────────────────────┴─ MCBatchedEvaluator
CedarValues ── EntitySlicing ───────────────────────────────────────────────┤
CedarValues, Authorizer ── PolicyTemplates ─────────────────────────────────┼─ MCSpecification
ExtDatetime ────────────────────────────────────────────────────────────────┤
ProtobufVarint, ProtobufMessage ── MCWire ──────────────────────────────────┘
FuzzManager                    SolverSession

PolicyAnalysis ── LeanCli ── MCLeanCli ─────────────┐
Benchmarking ── MCBench ────────────────────────────┤
LeanRuntime ────────────────────────────────────────┤
LeanAnswers ── MCLeanAnswers ───────────────────────┼─ MCRustPrograms
SchemaGenerator ── MCSchema ────────────────────────┤
EntityGenerator ── MCEntities ──────────────────────┤
SchemaEquivalence ── DifferentialTesting ── MCDrt ──┤
SolverPool ─────────────────────────────────────────┘

proofs: Authorization_lemmas ─┬─ Specification_proofs (TypeAwareAuthorizer, PolicyTemplates,
                              │                        EntitySlicing)
                              ├─ BatchedAuthorizer_proofs
                              └─ BatchedEvaluator_proofs
        FuzzManager_proofs     SolverSession_proofs
        Numbers_proofs         (ExtDatetime, ProtobufVarint)
        RustPrograms_proofs    (LeanCli with PolicyAnalysis, LeanRuntime, SolverPool,
                                EntityGenerator, Benchmarking)
```

**CedarValues** is what `evaluate` of `Spec/Evaluator.lean` computes with, one
operator per function, and how the results of the parts of an expression make that of
the whole: `EvaluateStep` and `HasAttrsStep` are one step of `evaluate` and of `attrsHave`, with
what the parts come to as an argument. **CedarEvaluator** ties the recursion: its `Evaluate` is
`evaluate` itself. Values are records tagged by `t`, results `[ok |-> v]` or
`[err |-> ...]`. Integers have the width `IntMin..IntMax`; arithmetic outside it
is an error, as in `intOrErr`. Extension functions are a table
(`ExtFuns`) with constructors that may fail. `like` is given by the set of
strings that match.

**PartialEvaluator** is `TPE/Evaluator.lean`. A residual is a typed expression
that may hold values and errors. `None` is "unknown", which every operator
keeps apart from "absent". `ErrorFree` is `Residual.errorFree`, with `CanError`
the operators that may fail; `AllLiteralUIDs` leaves out uids inside set and
record values, as `allLiteralUIDs` does. Both evaluators are RECURSIVE, so modules that
are proved about take them as parameters.

**Authorizer** is both authorizers, on the outcome of each policy
("true", "false", "error") or its class (the same, or "residual").
`ResidualDecision` is the match of `isAuthorizedFromResiduals`.

**TypeAwareAuthorizer** is the caller of partial authorization: it knows part
of a request and of a store that really are something (`request`, `entities`),
learns a variable of the request (`LearnVariable`) or components of an entity
(`LearnEntity`) in any order, and asks again after each. Its invariants compare
every answer with the truth and with `reauthorize`. The evaluators are parameters
with named assumptions (section 6); `MCSpecification` puts in those of `PartialEvaluator`
and `CedarEvaluator`. The checks the code makes
that partial and complete inputs are consistent hold in every state: what is
learned is what is the case.

**EntityLoader** holds what both batched loops share and, above all, the
parameters: the evaluators are operators `PartialEvaluate`, `Outcome`, `Class`,
`LiteralUIDs` with named assumptions (section 6). `Over` is `Map.++`, `Loaded`
what an answer of the loader becomes.

**BatchedAuthorizer** is `batchedAuthorize` and its loop. `Start` is the
validation and first evaluation of all policies, with the error when either
fails; `Return` the head of the loop when it ends; `AskLoader` and
`LoaderAnswers` the two halves of a round, before and after the callback. The
loader may answer any superset of what it is asked, as its type's documentation
allows. **AuthorizationPromise** is what a caller is promised: one answer, the
concrete decision, none only if the rounds may be too few, or the error of a
failed validation. `KeepsPromise` is the refinement, with `answer <- response`.

**BatchedEvaluator** is the loop for one expression. It differs from the other
in what ends it: it loads before it looks, ends on a value only, and evaluates
an error until the rounds run out.

**FuzzManager** is one task per run (`pc`), its child process (`child`), the
lines the child wrote and the task read, the semaphore and the interrupt. An
await is where a task can be cancelled; the code between two awaits is one
action. `Leave` is the exit of `async with sem` and is part of every action that
ends a task. `CancelSpawn`/`Killed` are what asyncio does with a child when
`create_subprocess_exec` is cancelled; `SpawnFails` is the `OSError` it raises when
no process can be created, which nothing catches. `Write` and `Exit` are the child
(external). A line is one of the kinds `parse_line` tells apart, or `long`,
beyond the 64 KiB limit of the stream reader. A child may end between the look at
its exit code and the signal, and the report of an error may fail to be
written (`Waited`). A second signal is `os._exit`.

**SolverSession** is a client in `SolverM` and a process. The client's commands
(`Encode` and the rest) are written one by one to a bounded pipe; it then waits
for a line. `asked[i].asserts` says whether the asserts of query i are literally
false or true, or unsatisfiable or satisfiable; `models` whether the query is of
the `sat?` or the `checkUnsat` kind. The solver (external) keeps the set of
queries whose asserts it holds, answers truthfully or unknown, may refuse an
assert or a declaration, and may die. `Abort` is the encoder's exception in the
middle of a query; every exception ends in cleanup, as `SolverM.run`'s `finally`
does.

**MCCedar** is the pool the Cedar runs draw on: two users of whom one may be
missing, a group, a document, two actions; optional attributes and tags; 32
Boolean expressions that use every operator, guarded ones, and every
connective over every pair of six.

**EntitySlicing** is `Spec/Slice.lean` and `Validation/Levels.lean`: the slice of a
store for a request at a level, the check that a store is closed at it, and the
level check of typed expressions. A behaviour takes the slices of one store level
after level (`Deepen`). The slice is taken layer by layer (`Layer`: what so many steps lead to);
`ReachedAsCoded` proves that this is what the calls of the code collect. What the code
computes by recursion over expressions, values and paths is a parameter (`CheckLevel`), its body
an operator that takes what it calls as an argument (`CheckLevelBody`), and the parameter is
assumed to be its body applied to itself (`CheckLevelStep`, section 6); `MCSpecification` puts
in the recursive operators. The cases of `checkLevel` that dereference an entity are
gathered in `Dereferences`, paths of `has` in `CheckPath`. A record type carries the types of its attributes.

**PolicyTemplates** goes from templates to a decision: `Link` is `linkPolicy?` of
the next link, `PolicyExpr` is `Policy.toExpr`, and `AuthorizeSlice` takes the slice of
the policies whose scope a request may meet (`Slice/PolicySlice.lean`). What a
template means is said a second time without expressions, as the reference for
`LinkedMeaning`.

**ExtDatetime** is the arithmetic of `Spec/Ext/Datetime.lean`: a duration is parsed
unit by unit (`ParseUnit`, `Parsed`), then functions are called in any order. The
width and the units are constants, so that the run is small and the proofs are
about the real ones too.

**ProtobufVarint** is `Varint.lean` with the skipping of `Structures.lean`. A word is
the set of its bits that are 1, so the widths are the real 32 and 64. `Search`
looks for the end of an integer without moving, `NextByte` reads a byte, `FinishVarint`
converts the word. The writer is prost (external).

**ProtobufMessage** is `Message.lean` with `Structure`, `Field`, `String` and `Packed`
(`Repeated` only): a stack of messages that are being read, each with the number
of bytes it has left. Tags, numbers and lengths are one byte each. Skipping
(`SkipUnknown`) goes past the end of the input, as `BParsec.forward` does. The
message types are a constant; the run has those of a linked policy.

**LeanRuntime** is `lean_ffi.rs` and `lean_object.rs`: `START`, the thread a
`CedarLeanFfi` attaches, and a heap of objects with their reference counts.
`New` is `CedarLeanFfi::new`; a call is `Begin...` (the arguments are built, the
client's schema is cloned), `LeanReturns` or `LeanPanics` (external: Lean
consumes what it is passed), `DecodeSchema` or `DecodeAnswer`, and
`DropResponse`. `Forget` is the `mem::forget` after a call. The client drops its
schema and its `CedarLeanFfi` in either order: local variables go in the reverse
order of their declaration, the fields of the command line's `Analyzer` in the
order of theirs, so that the schema outlives the thread for a moment.

**LeanAnswers** is what goes through those calls: the list of definitions a term
is sent as, and how `datatypes.rs` rebuilds it; residuals, which
`datatypes/tpe.rs` converts call by call; counterexamples, decisions, decimals
and partial requests and entities.

**PolicyAnalysis** is `analysis.rs`: vacuity, then redundancy, shadowing and
overrides pair by pair and environment by environment, and `compare`. A policy
is the set of situations it is satisfied in, in each environment, and a query to
the symbolic compiler is answered right or fails. **LeanCli** is the process
around it: each command's inputs in the order they are read, the checks that
`symcc` makes of its request options, its verdict over the environments, the
exit code and what went to standard output.

**Benchmarking** is `main.rs` of `cedar-benchmarking` with its executor and
comparison: selection, reading the corpus, preparation of each target step by
step in the order of `executor.rs` (requests before entities), timing, loading
earlier results, percentages and significance. Times are whole
microseconds; a standard deviation is kept as its square.

**SchemaGenerator** and **EntityGenerator** are what a fuzz target draws from
its input: a schema with its actions and the contexts of their requests, and common
types put into one by rewriting; the uids, the
hierarchy, attributes and tags, the policies with their templates and links, and
requests. A byte taken from the input is a nondeterministic choice, and running
out of input an outcome of its own (`RunOut`). Of a value the generator of entities keeps its
type and the uids in it; `Pushed` is the loop of `Hierarchy::new` that indexes the
uids of a type.

**DifferentialTesting** is how a target judges a pair of answers: passed,
excused or failed. **SchemaEquivalence** is the comparison of schema fragments
with `FragmentMeaning`, what a fragment says, to compare it with. **SolverPool**
is the solver process that the counterexample targets share behind a lock, with
its usage count, timeouts and restarts, and the raw model that is kept of it; in
the "check ok" targets a solver of their own that is not restarted.

**MCRustPrograms** puts these in one specification. They share nothing, so
their product would only multiply state spaces: `live` says which one a
behaviour is about, and the others stay as they start.

## 3. Runs

| run | what it checks |
|---|---|
| `specification` | six parts of the specification, each behaviour one of them. Partial authorization: `DecisionSound`, `ReauthorizeAgrees`, `FullKnowledgeSettles`, `KnowledgeOnlySettles` for 36 permits, each beside a forbid, three stores without the group, whose data no expression reads, and every order of learning three variables and two parts of each of the entities. `SlicesSuffice`: an expression valid at a level evaluates on the slice of that level as on the store (`LevelSound`), never meets a missing entity on a closed one (`ClosedNeverMissing`), and slices may be sliced again (`SliceOfSlice`), for every level up to the deepest expression, stores with cycles and missing entities. `TemplatesSuffice`: `PolicySliceSound` and `LinkedMeaning` for every kind of scope in every place and every list of up to two conditions. `DatetimesRight`: results stay in the range, `DaySplit`, `UnitsAgree` and `ParsedWhenItFits`, up to both ends of the range. `VarintExact`: `NumberReadRight`, `EndsWhereItEnds`, `RefusedForAReason` and `Accumulated` for every kind of integer, whole and cut off. `MessageExact`: `MessageReadRight` and `Framed` for linked policies with their fields in every order, with unknown and mistyped fields, cut off after every byte. The assumptions of `TypeAwareAuthorizer` for the Cedar evaluators |
| `batched` | `StoreRefines`, `MeaningPreserved`, `DecisionSound`, `RoundsMakeProgress`, `Converges`, `StoreOnlyGrows` for 135 sets of three policies, among them ones decided by their types over an operand that may fail, and the assumptions of `EntityLoader` and `BatchedAuthorizer` for the Cedar evaluators |
| `batched_live` | `KeepsPromise`, which includes that an answer comes, with two rounds: some sets of policies are decided in them, one is not, one does not validate |
| `batched_expr` | the single-expression loop: `ResultSound`, `WasteIsHarmless`, `Converges`, `Ends`, and the assumptions of `BatchedEvaluator` |
| `batched_loader_doc` | a finding: `LoaderWellBehaved` fails |
| `fuzz` | three runs on one job, interrupts at any moment, processes that cannot be created and lines beyond the limit: `WatchedBound`, `SemConserved`, `NoOrphans`, `AllClear`, `InterruptEnds`, and, given a time limit, `Terminates` |
| `fuzz_long_jobs` | a finding: `JobsBound` fails with such lines |
| `solver` | three queries, pipes of one item, a solver that may die: `AnswersRight`, `ModelsWhole`, `NothingPending`, `ClosesUnlessCut` |
| `solver_dies` | a finding: `Closes` fails when the solver dies inside a model |
| `rust_programs` | the eight Rust programs, each behaviour one of them: `AnalysisExact`, `VerdictExact` and `CleanFailure` (command line), `BenchmarkExact`, `Counted` (Lean runtime), `AnswersExact`, `SchemasSound`, `InputsSound` (generators), `VerdictEarned` (comparisons), `FreshModels` (solver pool), and the assumptions on what they are given |
| `benchmark_zero_baseline` | a finding: `ZeroBaselineFlagged` fails |
| `schema_request_types` | a finding: `RequestTypesOccur` fails |

`specification` and `rust_programs` hold several state machines that share
nothing; a variable (`part`, `live`) says which one moves, and the others keep
one fixed state. Their states add up instead of multiplying, and each is
explored as it would be alone.

Every property of a passing run has a mutant in the module it guards, an
operator marked `Mutant` beside the definition it stands for: a plausible bug
that the run finds.

## 4. Bounds, and why they are enough

* Entities: six uids, two of them actions. Paths of attributes are up to three
  entities long and may end at a missing one or come back to their start, so
  loading takes up to three rounds; `Iters = 4` is the number of uids that are
  not actions (`EnoughRounds`), `Iters = 2` in `batched_live` is too few for
  one set of policies.
* `IntMin..IntMax` is -3..2, one longer below zero like `Int64`: a sum, a product and
  the negation of the least integer leave the range.
* Policies: two permits and a forbid, the least for which every row of the
  decision table and every pair of early and late outcome occurs.
* `Runs`, `Jobs`, `MaxLines`: three runs queue for one job, so a permit given
  back twice is used twice, and a run can be cancelled while it is queued,
  spawned, read and waited for. `MaxLines` counts the lines of all children together: two are
  enough for "done" to be followed or preceded by something else, to be the last thing a
  failed child said, or for two tasks to be cut off by a line too long.
* `MaxQueries = 3`, `InCap = OutCap = 1`, `Definitions = 2`: a model is longer
  than the pipe, a query that needs no solver can lie between two that do.
* Command line: every command with every one or two bad inputs; three policies
  over two environments of three situations, which is enough for a policy to
  match all, some or none, and for two policies to be equal, nested,
  overlapping or disjoint in one environment and otherwise in the other; up to
  four environments for a check.
* Benchmarks: one failing step at each place, times of 0, a little and much
  beside the floor of 10 us and exactly at it, one or two trials and none, baselines that are
  whole, empty or missing, thresholds above and below 0.
* `Objects`: four places of the heap, what a call with the schema and a raw model
  needs besides its response; a call may fail at every step.
* Answers: terms of up to three levels with payloads whose definitions are in
  order, out of order, missing or doubled.
* Schemas: two or three names, one of them `Action`, two actions, so that the second can
  empty its lists or lose a type the first has; for the common
  types one type that occurs twice, so that there is a chain of definitions.
  Entities: types that may contain each other and themselves, one enumerated,
  one undeclared, up to four uids.
* Slices: levels up to `MaxLevel = 5`, what the deepest expressions of the run need; three
  users who manage, name and carry each other, so that there are cycles, and two
  stores of three in which some of them are missing.
* Templates: lists of up to three links; conditions that are met, unmet and wrong, in
  every order of two.
* Datetimes: a word of seven bits and a day of twelve, so that the range is no whole
  number of days, and quantities below, at and beyond every limit.
* Varints: words of one bit, low bits, high bits and all but one bit, at every
  position of 32 and of 64.
* Messages: names in uids in a policy, the three levels of the real message; texts of
  up to two characters.
* `Queries = 5`, `UsageLimit = 3`: the solver is replaced because it was used up and
  because a query timed out, and is used again after each.
* No state constraint is used; every bound is a constant or a guard.

## 5. Fairness

* Batched loops: `WF_vars(Next)`. The program is one total computation, and the
  loader a total Lean function, so a step that can be taken is taken.
* Fuzz manager: every task's next step (the event loop runs what is ready),
  `Gathered` and `Summary`; the exit of a child that was sent SIGTERM. That a child
  whose output is read ends (libFuzzer does after `-max_total_time`, if `--timeout` was
  given) is no fairness of the specification but `TimeLimit`, the premise of
  `Terminates`. A child nobody reads any more may block on its pipe for ever, so
  nothing is assumed of it.
* Solver session: client and solver each take steps; `check-sat` comes to an
  answer, perhaps "unknown". `Crash` has no fairness. Where the code loops at
  the end of a file without changing anything the model has no step, so fairness
  does not get it out.
* Slices, templates, datetimes and decoding: none, for the same reason.
* Rust programs: none. Nothing there is checked that needs it.

## 6. Proofs

All proofs are checked by TLAPS. `Authorization_lemmas` holds the lemmas on the two
authorizers, on stores that grow and on cardinalities.

**Partial authorization** (`Specification_proofs`), for every set of policies,
request, store and order of learning. The evaluators are parameters, and the
assumptions are in `TypeAwareAuthorizer`: `LessonsAreComponents`, `ProgramTypes`,
`ActionsAgree`, `PoliciesAreBoolean`, `EvaluationSound`, `SettledStays` and
`FullKnowledgeEvaluates`. TLC evaluates them for the Cedar evaluators on 63
expressions and everything a caller may know of three stores. `EvaluationSound` is a
theorem of the repository (`Thm/TPE/Soundness.lean:64`); of the last two, that what is
settled stays settled and that full knowledge settles everything, it states none.
`TypeOK` is inductive: what a caller
knows is part of what is the case, and its answer was computed from it
(`KnowledgeIsTrue`). From it: `DecisionsAreSound`, `ReauthorizationAgrees`,
`FullKnowledgeDecides` and the action property `LearningOnlySettles`.

**Templates and slices of policies** (`Specification_proofs`), for any templates,
links, requests and stores: `TemplatesDoSuffice`. The evaluator is a parameter,
`ResultOf`, over a set of expressions that is closed under parts (`PolicyNodes`).
`NodesEvaluate` is its equations for the six shapes that scopes and conditions are
made with; of what else a condition may hold, nothing is assumed but that a Boolean is
true or false (`BooleansAreBooleans`). The other assumptions are the shapes of
templates, lists and requests. TLC evaluates all of them for `Evaluate` and every
policy of the run. `TemplateInv` says which links are linked so far and that a
request is only tried when all are. `ScopeHolds` and `ActionHolds` compute a scope:
it never fails; `ConditionsMean` goes from the last condition up. A policy left out
has a scope that does not suit the request (`OutOfBound`), so it comes to "false"
(`LeftOut`) and is missed neither among the satisfied nor among the failing ones.

**Slices by level** (`Specification_proofs`), for any stores, requests, expressions and
levels: `SlicesDoSuffice`. The recursions of the evaluator and of the level check are
parameters (`EvaluateIn`, `CheckLevel` and so on) that satisfy the equations of their steps
on sets closed under parts (`NodesAreExpressions`, `ValuesAreValues`, `PathsAreWalked`,
`NodesAreEvaluated`, `LevelsAreChecked`); TLC evaluates these assumptions for the recursive
operators and the expressions, values and paths of the run. Two more are about the system:
`TypesAreSound`, what evaluates is of the type the validator gave it (the validator's
soundness, which the repository proves in Lean), and `ExtensionsKnowNoEntities`, no
extension function answers that an entity is missing. The induction is on `NodeSize`, by
the least counterexample, and says more than the property: what is valid at a
level comes to the same in the slice (`ValidStep`), and what an entity is taken from
also leads to one as near to the request as the levels left say (`NearStep`);
without the second a dereference could leave the slice. A path of `has` is walked
along with its cost (`Walked`). `SliceInv`, that the slice is the one of the level,
carries this to every state, and that slices may be taken of slices is `SlicesNest`.
`ReachedAsCoded` shows that the layers of the model are what the recursion of
`sliceAtLevel` collects.

**Batched authorization** (`BatchedAuthorizer_proofs`). The evaluators are
parameters; what the proofs assume of them is in `EntityLoader`, `BatchedAuthorizer`
and `BatchedEvaluator`, by name: `LoaderTypes`, `ActionsAgree`, `EvaluationCloses`,
`EvaluationSound`, `ClassSound`, `LiteralsAreUids`, `StuckNamesUnloaded`,
`PolicyTypes`, `TypedPolicies`, `PoliciesAreBoolean`, `ExpressionsAreTyped`,
`ValuesAreSettled`, `SettledStays`. TLC evaluates each of them for the Cedar
evaluators on the pool of the runs, so they are checked there and not only
believed; that they hold for every expression is the business of the Lean
proofs in `Thm/TPE`, except `StuckNamesUnloaded` and `SettledStays`, which no proof
of the repository states. `ActionsAgree` says that a store is an instance of the schema.

The inductive invariant `IInv` is the conjunction of the properties and three
parts without which it is not inductive: no answer is given before the end
(`Unanswered`); where a residual is left after evaluation it names a uid that
is not loaded (`StuckIsNamed`); every round used has loaded an entity
(`RoundsPay`). From it: `TypeCorrect`, `StoreIsRefined`, `ResidualsKeepMeaning`,
`DecisionsAreSound`, `EveryRoundLoads`, `LoopConverges`, `StoreGrows`. Two lemmas
carry the weight. `EarlyDecisionIsFinal` says that a decision on classes is the decision
on any outcomes that agree with them. `RoundsLoadAll` counts: after as many
rounds as there are entities everything is loaded, so nothing can be stuck.
This is the convergence that `Thm/BatchedEvaluator/Common.lean:21-24` leaves
unproven. `KeepsPromiseSafely` shows that every step is a step of
`AuthorizationPromise` or a stutter.

**Batched evaluation** (`BatchedEvaluator_proofs`). The same argument for one
expression: `ResultsAreSound`, `OnlyHarmlessWaste`, `LoopConverges`. Here a
round may be wasted, on a value or an error, and the invariant has to say that
what is settled stays settled.

**Fuzz manager** (`FuzzManager_proofs`), for any number of runs, jobs and lines.
`TypeCorrect`, `SemaphoreIsConserved`, `JobsAreBounded` (`WatchedBound`), `ChildrenEndFirst`
(`NoOrphans`) and `ExitCodeSays` (`AllClear`), for every output, processes that cannot be
created included. Their
invariant ties each task's place in the program to its child: a child is alive only
while its task holds a permit, unless a line too long has cut the task off from it. That is
the one exception of `WatchedBound` and `NoOrphans`, and `fuzz_long_jobs` shows that it is
needed. `AllClear` has one more, a run whose process could not be created: exit code 0 does
not tell it from one that went well.

**Solver session** (`SolverSession_proofs`), for any number of queries, any size of
the pipes and of a model, and a solver that may die at any moment:
`SessionTypes`, `AnswersAreRight`, `ModelsAreWhole`, `NothingIsPending`. What the
client reads was printed earlier, on commands written before that, so none of
them is inductive. `SessionInv` follows a query through its stages (`Encoding`,
`Checked`, `WantingModel`, `NoModel`, `Reading`, or `AskingNothing` when no solver is
needed). In `Encoding` the commands in the pipe and those still to be written
are the last ones of the query, in their order (`InOrder`), so that how many are
left says what the solver holds; in `Reading` the lines read, those in the pipe
and those to be printed are the model, in its order. Before a query only
resets can be left in the pipe (`OnlyResets`).

**Lean runtime** (`RustPrograms_proofs`, as all that follow but the numbers), for any heap and any sequence of calls:
`RuntimeTypes` (no count goes below zero) and `EverythingCounted`. `Counted` is
not inductive: that an argument was fresh when it was built, and that a string
holds nothing, are facts about earlier steps. `RuntimeInv` therefore says what
the heap looks like at each stage of a call: `IdleShape` (only the client's
schema), `BuiltShape` (the arguments), `AnsweredShape` (the response, which alone
may hold another object). The steps that begin a call share the lemma
`BeginStep`.

**Solver pool**, for any number of queries and any usage
limit: `PoolTypes` and `PoolModelsAreFresh`. `PoolInv` relates what the solver
still owes to whether it is lent out: a solver whose query timed out is replaced
before anyone else gets it.

**Analysis**, for any programs of any policies, environments and situations
(`ProgramsAssumption`): `AnalysesAreExact`. The property speaks of the report at the
end; `AnalysisInv` says on the way what was found of each policy (`VacuityRight`),
which findings the report has so far (`FindingsRight`), that the classes of equal
policies are those of the policies seen (`ClassesRight`), and which policies of the
other set were compared (`ComparedSoFar`). What two queries to the compiler tell of
two policies is lemma by lemma traced back to the sets they match.

**Command line**, for every invocation that the argument parser understands
(`InvocationsAssumption`) and whatever the backend finds: `VerdictsAreExact` and
`FailuresAreClean`. `CliInv` is a disjunction with one part per stage: all inputs were
good (`InputsGood`) before anything was asked; while the environments are asked
about, the results so far are those of the first ones (`Checking`); a command ended
well (`Succeeded`), on the way (`FailedLate`), or at the first bad input (`FirstBad`).
That a list of rows has as many of a kind as there are environments of it is a
bijection (`SameSize`), no induction. `CommandsAnalyze` shows that the command line
implements the analysis, step by step, so that `CommandsReportWhatIsSo`.

**Benchmarks**, for every command line, corpus and earlier result
(`CommandLines`: what `clap` and `serde` let through, thresholds below zero
among it) and whatever time anything takes: `BenchmarksAreExact`. `BenchInv` says on
the way that what was measured, what is left of the current task and the tasks to come
are together what is wanted (`NothingLost`), that every result has statistics in order
(`InOrder`), and what was printed at each stage (`Reported`). Sorting as a recursion
is out of the prover's reach, so `Ranked` is what sorting yields at a place: the time that
fewer than so many are below and at least so many do not exceed. There is one at
every place (`RankedIs`) and they ascend (`RanksInOrder`). The average is between the
least and the greatest, since the total of n times is between n times either
(by the least counterexample). That difference, noise and percentage as `significance`
asks for them come to `Regressed` is arithmetic (`RegressionIs`).

**Generator of entities**, for every plan (`PlansAssumption`: no type comes twice, an
enumerated type lists something) and every choice: `GenerationsAreTyped` and
`InputsAreSound`. No part of `InputsSound` is inductive. `GenInv` adds that types come
in the order of the plan with uids of their own (`UidsGood`), that the pool has no uid
twice and the index is that of the pool (`PoolGood`), that the entities so far are
those at the head of the pool, with parents that come later in it (`EntitiesGood`),
that templates and links fit and their ids cannot meet (`GroupsGood`), and that the policy set
holds the first of them (`SetGood`). Then of any entities the one that is last in the
pool has no parent among them: nobody is above itself. `IndexedInOrder` is about the
loop that fills the index, `LaterOnly` about the slice `uids_for_type` takes of it.
Both are by the least counterexample, since induction cannot be cited.

**Datetimes** (`Numbers_proofs`), for a word of any width and units of any
length whose day fits in it (`DatetimeAssumption`): `DatetimeTypes`, `DaysAreSplit`,
`UnitsDoAgree` and `FittingDurationsParse`, together `DatetimesAreRight`. The
middle two follow from the first
and lemmas on division towards zero (of a negative number, and of a quotient
again). The last needs `ParsingInv`: the sum so far is that of the units read so
far, and quantities have one sign, so that a sum is no nearer to zero than any
of its parts and a quantity that does not fit leaves a duration that does not fit.

**Integers of Protobuf** (`Numbers_proofs`), in the real widths, for every word that
may be written and everything that may follow it (`VarintAssumption`):
`VarintsAreExact`: what was written whole is what is read, except that of an int32 below
zero only the sign is (section 7). `VarintInv` adds to the property where the search has got to
(`SearchRight`), that the input is what was written or a part of it (`InputRight`), and
that the sign of a negative integer of 32 bits survives the bytes after it
(`SignKept`).

**Only model-checked**, because the prover cannot do it: liveness (`Ends`,
`Terminates`, `InterruptEnds`, `Closes`, `ClosesUnlessCut` and the liveness in
`KeepsPromise`); and `MessageExact`, `AnswersExact`, `SchemasSound` and
`VerdictEarned`, whose modules are recursive over messages, terms and types: what
those recursions compute is what the invariants are about, so it cannot be left to a
parameter as in `EntitySlicing`.
The type invariants of modules with proofs, and `StoreRefines` of the loop for one
expression, are proved and not run.

## 7. Findings

1. `batched_loader_doc`: the repository's definition of a well-behaved loader
   (`Thm/BatchedEvaluator/Common.lean:18-27`) asks it to return none for a
   missing entity and to refine the backing store. A none becomes a present,
   empty entity (`TPE/Input.lean:233-240`), which does not refine a store
   without it: no loader is well-behaved by that definition. `StoreRefines` is
   the property that does hold.
2. `fuzz_long_jobs`: an output line beyond 64 KiB makes `readline` raise
   (`fuzz_manager.py:250`); nothing catches it, the job is given to the next run
   and the child stays. More than `--jobs` children run, and they may outlive
   the manager.
3. `solver_dies`: `getModel` reads lines until ")" (`SymCC/Solver.lean:242-248`);
   when the solver dies before, it reads the end of the file for ever and
   `cleanup` never runs. `ClosesUnlessCut` shows that this is the only such case.
4. `benchmark_zero_baseline`: the comment on `pct_change`
   (`cedar-benchmarking/src/compare.rs:340-342`) says that a change from 0 is always
   flagged as significant. `significance` (lines 93-109) asks first whether the
   difference is under 10 us or within the noise, and then flags nothing.
5. `schema_request_types`: the comments on `principal_types` and `resource_types`
   (`cedar-policy-generators/src/schema.rs:62-70`) say that they are the types that
   occur as a principal or a resource of some action. A type is put in while an action
   picks its types (line 1250), and the action may then be cleared of all of its
   principals or resources (lines 1272-1277), so that a type stays that no action has. `DrawnUsable` shows the
   other direction, that every type of an action is in its list.

Seen without a run of its own:

* A difference of exactly 10 us. The comment in `compare.rs:82` and
  `cedar-benchmarking/README.md:168` say that a significant change exceeds the floor;
  line 95 drops only what is below it. `Regressed` is what the code does; a baseline of 20 us
  beside a current 30 us is among the inputs of `rust_programs` and is flagged.
* The exit code of the fuzz manager is 0 if a target could not be started
  (`fuzz_manager.py:240`): `gather` swallows the exception (line 433) and the status stays
  "starting", which line 448 does not count. A line too long ends a task the
  same way. `AllClear` says exactly this.
* The code that reads the shape of an entity type (`cedar-policy-generators/src/schema.rs:416`,
  for `from_nsdef`) panics if its common type is another common type. Such chains are what `add_common_types` makes, but
  the only target that calls it (`common-type-resolution.rs:55` of `cedar-drt/fuzz/fuzz_targets`)
  does not read the schema back that way. `ShapeReadable` says which shapes are readable.

* The comment on `raw_model`
  (`cedar-drt/fuzz/src/symcc.rs:440-443`) says that it is `None` unless the last
  `check_sat_with_model` returned `Ok(Sat)`. The code never sets it back to `None`;
  the target that reads it takes it (`TakenModel`), the other counterexample target
  leaves it. `FreshModels` shows that no target is misled by it.
* The comment in `hierarchy.rs` of `cedar-policy-generators/src` (lines 546-549) says
  that declared attributes come second so that those of the schema "definitely have
  the required type". One that is optional may be left out there, and then an additional
  attribute of its name stays, with any type. `HierarchyConforms` makes that
  exception, for open types only.
* `parse_uint32_helper` (`cedar-lean/Protobuf/Varint.lean:96-104`) shifts within a
  32-bit word, where a shift counts modulo 32. Protobuf writes a negative int32
  in ten bytes; the bytes beyond the word are or-ed into it and it is read as
  another number. The file says that it has parsers for the integer types of
  Protobuf (lines 22-23), with ten bytes at most (line 49). The one int32 that
  is sent, the level of a request (`Messages.proto:61`), is not negative in
  practice. `NumberReadRight` asks of a negative int32 only its sign, which is
  right, and shows that all else is read as it was written.

## 8. What is not modelled, and why

`PROJECT.json` gives the reason for each component.

* **The typechecker**: a recursive function over expressions whose
  correctness (soundness of capabilities) is proved in Lean. The pools of
  `MCCedar` and `MCSpecification` are well-typed by construction instead.
* **Symbolic compiler and its optimized form**: translations into terms, pure
  and proved in Lean; what is stateful about them, the session with the solver,
  is modelled.
* **Decimals, IP addresses, calendar dates, wildcards**: recursions over the
  characters of a text, without state; nothing of the control of the program
  depends on them. A wildcard pattern is the set of texts that it matches.
* **Of the decoding**: packed fields, maps, enumerations and oneofs, and the other
  message types. An embedded message that occurs twice is merged field by field
  in the code and in the model; the writer never sends one twice, so `Meant`
  says nothing of it.
* **Expression generators**: recursion over types with a choice at each step;
  what could go wrong, an ill-typed expression, is a property of the typechecker.
* **Of the Rust programs**: conversions that copy a field into a field, tables and
  flags, the mutation of entities (`drop_some_entities`), `dump.rs`, the
  generators of protobuf messages and partial syntax trees. Request environments are sorted in the code; the models take
  them in one fixed order. A timeout while a script is still being written is
  not told apart from one while the answer is awaited.
* **Left out of the evaluators**: the order of datetimes and of durations
  (`Spec/Evaluator.lean:63-67`, `TPE/Evaluator.lean:137-146`). They are no values of the expression
  models; `ExtDatetime` has their arithmetic. In `TypeAwareAuthorizer` a partial store always
  holds every action, though one without them is consistent too (`TPE/Input.lean:128-132`): an action whose
  data is not known is a store that says less.
* **Abstractions that matter to a property**: the generator of entities draws
  from a few values per type; records in `SchemaEquivalence` have no
  `additional_attributes` flag, which the code compares.
