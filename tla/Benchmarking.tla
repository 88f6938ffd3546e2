---------------------------- MODULE Benchmarking ----------------------------
(* cedar-benchmarking: a process measures the tasks of a corpus, or loads   *)
(* an earlier output, prints the results, compares them with earlier ones,  *)
(* and exits with 1 on a regression. Times are whole microseconds. Standard *)
(* deviations are kept as variances and compared by their squares.          *)
EXTENDS Integers, FiniteSets, Sequences, SequencesExt, FiniteSetsExt

CONSTANT BenchmarkRuns   \* [corpus, baseline, targets, trials, json, compare, threshold,
                         \*  bad, micros]: the command line, what fails, how long runs take

NotGiven == <<>>

IsList(s) == s \in Seq({s[i] : i \in DOMAIN s})
AreResults(rs) ==
  /\ IsList(rs)
  /\ \A i \in DOMAIN rs : /\ rs[i].timing.average \in Nat
                          /\ rs[i].timing.variance[1] \in Nat
                          /\ rs[i].timing.variance[2] \in Nat \ {0}

\* What serde and clap let through.
ASSUME CommandLines ==
  \A r \in BenchmarkRuns :
    /\ r.trials \in Nat /\ r.micros \subseteq Nat
    /\ r.corpus # NotGiven =>
         /\ IsList(r.corpus[1])
         /\ \A i \in DOMAIN r.corpus[1] :
              DOMAIN r.corpus[1][i] = {"name", "files", "exclude", "only"}
    /\ r.baseline # NotGiven => r.baseline[1] = NotGiven \/ AreResults(r.baseline[1][1])
    /\ \A i \in DOMAIN r.compare : r.compare[i] = NotGiven \/ AreResults(r.compare[i][1])
    /\ r.threshold # NotGiven => r.threshold[1] \in Int

Targets == {"policy_parse", "json_policy_parse", "protobuf_policy_parse",
            "protobuf_policy_parse_unchecked", "schema_parse", "json_schema_parse",
            "protobuf_schema_parse", "protobuf_schema_parse_unchecked", "validation",
            "authorization", "entity_parse_with_schema", "entity_parse_without_schema",
            "protobuf_entity_parse", "protobuf_entity_parse_unchecked", "incremental_entities"}

---------------------------------------------------------------------------
(* tasks.rs: a task names files, each of which may be missing.              *)

Files == {"policy", "cedar_schema", "json_schema", "entities"}

\* The files of each target, in the order the targets of a task come.
TargetFiles ==
  <<<<"policy_parse", {"policy"}>>, <<"json_policy_parse", {"policy"}>>,
    <<"protobuf_policy_parse", {"policy"}>>, <<"protobuf_policy_parse_unchecked", {"policy"}>>,
    <<"schema_parse", {"cedar_schema"}>>, <<"protobuf_schema_parse", {"cedar_schema"}>>,
    <<"protobuf_schema_parse_unchecked", {"cedar_schema"}>>,
    <<"json_schema_parse", {"json_schema"}>>, <<"validation", {"policy", "cedar_schema"}>>,
    <<"authorization", {"policy", "json_schema", "entities"}>>,
    <<"entity_parse_with_schema", {"cedar_schema", "entities"}>>,
    <<"incremental_entities", {"cedar_schema", "entities"}>>,
    <<"entity_parse_without_schema", {"entities"}>>,
    <<"protobuf_entity_parse", {"entities"}>>,
    <<"protobuf_entity_parse_unchecked", {"entities"}>>>>

IsTargetEnabled(task, t) ==
  (task.only = NotGiven \/ t \in task.only[1]) /\ t \notin task.exclude

\* The benchmarks of a task, at the places of their targets.
IntoBenchmarkTasks(task) ==
  [i \in {k \in DOMAIN TargetFiles : /\ TargetFiles[k][2] \subseteq task.files
                                     /\ IsTargetEnabled(task, TargetFiles[k][1])} |->
     [name |-> task.name, target |-> TargetFiles[i][1], files |-> task.files]]

\* load_corpus: the targets of the command line restrict those of a task.
Restricted(task, targets) ==
  [task EXCEPT !.only =
     IF targets = NotGiven THEN @
     ELSE IF @ = NotGiven THEN targets ELSE <<@[1] \cap targets[1]>>]

---------------------------------------------------------------------------
(* executor.rs: a benchmark prepares its input, where a failure is an       *)
(* error, except that an encoding must succeed; then it runs a closure that *)
(* must not fail. A step is what is done with which file.                   *)

PolicySteps == <<<<"policy", "read">>, <<"policy", "parse">>>>
SchemaSteps(file) == <<<<file, "read">>, <<file, "parse">>>>
EntitiesSteps == <<<<"entities", "read">>, <<"entities", "parse">>>>

\* generate_auth_requests: the schema must do for the generator; a request is
\* tried again until one fits, from 4096 bytes. When they are used up every
\* draw is the same, and if that one does not fit the loop does not end.
RequestsSteps ==
  EntitiesSteps \o SchemaSteps("json_schema") \o <<<<"requests", "schema">>, <<"requests", "fit">>>>

Setup(b) ==
  CASE b.target = "policy_parse" -> <<<<"policy", "read">>>>
    [] b.target = "json_policy_parse" -> PolicySteps \o <<<<"policy", "to_json">>>>
    [] b.target \in {"protobuf_policy_parse", "protobuf_policy_parse_unchecked"} ->
         PolicySteps \o <<<<"policy", "encode">>>>
    [] b.target = "schema_parse" -> <<<<"cedar_schema", "read">>>>
    [] b.target = "json_schema_parse" -> <<<<"json_schema", "read">>>>
    [] b.target \in {"protobuf_schema_parse", "protobuf_schema_parse_unchecked"} ->
         SchemaSteps("cedar_schema") \o <<<<"cedar_schema", "encode">>>>
    [] b.target = "validation" -> PolicySteps \o SchemaSteps("cedar_schema")
    [] b.target = "authorization" ->
         PolicySteps \o (IF "cedar_schema" \in b.files THEN SchemaSteps("cedar_schema") ELSE <<>>)
           \o RequestsSteps \o <<<<"entities", "conform">>>>
    [] b.target = "entity_parse_with_schema" ->
         <<<<"entities", "read">>>> \o SchemaSteps("cedar_schema")
    [] b.target = "entity_parse_without_schema" -> <<<<"entities", "read">>>>
    [] b.target \in {"protobuf_entity_parse", "protobuf_entity_parse_unchecked"} ->
         EntitiesSteps \o <<<<"entities", "encode">>>>
    [] b.target = "incremental_entities" ->
         <<<<"entities", "read">>>> \o SchemaSteps("cedar_schema") \o <<<<"entities", "conform">>>>

Timed(b) ==
  CASE b.target = "policy_parse" -> {<<"policy", "parse">>}
    [] b.target = "json_policy_parse" -> {<<"policy", "from_json">>}
    [] b.target \in {"protobuf_policy_parse", "protobuf_policy_parse_unchecked"} ->
         {<<"policy", "decode">>}
    [] b.target = "schema_parse" -> {<<"cedar_schema", "parse">>}
    [] b.target = "json_schema_parse" -> {<<"json_schema", "parse">>}
    [] b.target \in {"protobuf_schema_parse", "protobuf_schema_parse_unchecked"} ->
         {<<"cedar_schema", "decode">>}
    [] b.target = "entity_parse_with_schema" -> {<<"entities", "conform">>}
    [] b.target = "entity_parse_without_schema" -> {<<"entities", "parse">>}
    [] b.target \in {"protobuf_entity_parse", "protobuf_entity_parse_unchecked"} ->
         {<<"entities", "decode">>}
    [] b.target = "incremental_entities" -> {<<"entities", "add">>}
    [] OTHER -> {}

\* What comes of a benchmark: an error, a panic, a loop, or times.
Outcome(b, bad) ==
  LET failing == {i \in DOMAIN Setup(b) : Setup(b)[i] \in bad}
      step == Setup(b)[Min(failing)]
  IN IF failing = {} THEN IF Timed(b) \cap bad # {} THEN "panic" ELSE "times"
     ELSE IF step = <<"requests", "fit">> THEN "spins"
     ELSE IF step[2] = "encode" \/ step = <<"requests", "schema">> THEN "panic" ELSE "error"

---------------------------------------------------------------------------
(* output.rs: TimingInfo::from_runs.                                        *)

Total(s) ==
  LET upTo[n \in 0..Len(s)] == IF n = 0 THEN 0 ELSE upTo[n - 1] + s[n] IN upTo[Len(s)]
Squares(s, a) == Total([i \in 1..Len(s) |-> (s[i] - a) * (s[i] - a)])

\* What is at place k when the times are sorted.
Ranked(times, k) ==
  CHOOSE x \in ToSet(times) : /\ Cardinality({i \in DOMAIN times : times[i] < x}) < k
                              /\ k <= Cardinality({i \in DOMAIN times : times[i] <= x})

FromRuns(times) ==
  LET len == Len(times)
      average == Total(times) \div len
      At(percent) == Ranked(times, (len * percent) \div 100 + 1)
  IN [average |-> average, min |-> Ranked(times, 1), max |-> Ranked(times, len),
      variance |-> <<Squares(times, average), len>>, iqr |-> At(75) - At(25),
      p50 |-> At(50), p95 |-> At(95), p99 |-> At(99)]

---------------------------------------------------------------------------
(* compare.rs.                                                              *)

MinDeltaFloor == 10
SignificanceSigma == 2
Key(r) == <<r.benchmark, r.target>>

Abs(x) == IF x < 0 THEN -x ELSE x
\* pct_change against a threshold; from 0 any change is beyond all percents.
PctAbove(new, old, percent) ==
  IF old = 0 THEN IF new = 0 THEN percent < 0 ELSE TRUE ELSE (new - old) * 100 > percent * old
PctBelow(new, old, percent) ==
  IF old = 0 THEN new = 0 /\ 0 < percent ELSE (new - old) * 100 < percent * old

\* |delta| <= 2 * hypot(sigma, sigma'), with both sides squared.
WithinNoise(delta, v, w) ==
  delta * delta * v[2] * w[2]
    <= SignificanceSigma * SignificanceSigma * (v[1] * w[2] + w[1] * v[2])

\* A slip: the variance of the current run alone is looked at.
OneSidedSignificance(c, threshold) ==
  LET delta == c.current.average - c.baseline.average IN
  IF Abs(delta) < MinDeltaFloor \/ WithinNoise(delta, c.current.variance, <<0, 1>>)
    THEN "insignificant"
  ELSE IF PctAbove(c.current.average, c.baseline.average, threshold) THEN "regression"
  ELSE IF PctBelow(c.current.average, c.baseline.average, -threshold) THEN "improvement"
  ELSE "insignificant"

SignificanceOf(c, threshold) ==
  LET delta == c.current.average - c.baseline.average IN
  IF Abs(delta) < MinDeltaFloor \/ WithinNoise(delta, c.current.variance, c.baseline.variance)
    THEN "insignificant"
  ELSE IF PctAbove(c.current.average, c.baseline.average, threshold) THEN "regression"
  ELSE IF PctBelow(c.current.average, c.baseline.average, -threshold) THEN "improvement"
  ELSE "insignificant"

\* A map of results by key: of two under one key the last stays.
ByKey(results) ==
  [k \in {Key(results[i]) : i \in DOMAIN results} |->
     results[Max({i \in DOMAIN results : Key(results[i]) = k})].timing]

\* The rows of a report keep the places of the current results.
CompareRuns(current, baseline) ==
  LET old == ByKey(baseline)
      known == {i \in DOMAIN current : Key(current[i]) \in DOMAIN old}
  IN [matched |-> [i \in known |->
                     [key |-> Key(current[i]), current |-> current[i].timing,
                      baseline |-> old[Key(current[i])]]],
      onlyInCurrent |-> [i \in DOMAIN current \ known |-> Key(current[i])],
      onlyInBaseline |-> DOMAIN old \ DOMAIN ByKey(current)]

HasRegression(reports, threshold) ==
  \E i \in DOMAIN reports : \E j \in DOMAIN reports[i].matched :
    SignificanceOf(reports[i].matched[j], threshold) = "regression"

---------------------------------------------------------------------------
(* main.rs: one process.                                                    *)

VARIABLES
  args,             \* the command line, the corpus and what is wrong with the files
  benchStage,
  tasks, pending,   \* the tasks to expand, and what is left of the current one
  measured,         \* the results
  printed,          \* the documents on standard output
  benchExit

benchVars == <<args, benchStage, tasks, pending, measured, printed, benchExit>>

Quit(code) == benchStage' = "exited" /\ benchExit' = code
Stop(code) == Quit(code) /\ UNCHANGED <<args, tasks, pending, measured, printed>>

\* clap lets one of --corpus and --baseline through, --baseline with --compare.
ArgsAccepted(a) ==
  /\ a.corpus = NotGiven \/ a.baseline = NotGiven
  /\ a.baseline # NotGiven => a.compare # <<>>
  /\ a.targets # NotGiven => a.corpus # NotGiven
  /\ a.threshold # NotGiven => a.compare # <<>>

BenchInit ==
  /\ args \in BenchmarkRuns /\ ArgsAccepted(args)
  /\ benchStage = "start" /\ tasks = <<>> /\ pending = <<>>
  /\ measured = <<>> /\ printed = <<>> /\ benchExit = 0

Unreadable == {<<"corpus", "read">>, <<"corpus", "parse">>} \cap args.bad # {}

Start ==
  /\ benchStage = "start"
  /\ CASE args.corpus # NotGiven /\ ~Unreadable ->
            /\ benchStage' = "measuring"
            /\ tasks' = [i \in DOMAIN args.corpus[1] |-> Restricted(args.corpus[1][i], args.targets)]
            /\ UNCHANGED <<args, pending, measured, printed, benchExit>>
       [] args.corpus = NotGiven /\ args.baseline # NotGiven /\ args.baseline[1] # NotGiven ->
            /\ benchStage' = "compare" /\ measured' = args.baseline[1][1]
            /\ UNCHANGED <<args, tasks, pending, printed, benchExit>>
       [] OTHER -> Stop(1)

Expand ==
  /\ benchStage = "measuring" /\ DOMAIN pending = {} /\ tasks # <<>>
  /\ IF DOMAIN IntoBenchmarkTasks(Head(tasks)) = {} /\ Head(tasks).only = NotGiven
     THEN Stop(1)
     ELSE /\ pending' = IntoBenchmarkTasks(Head(tasks)) /\ tasks' = Tail(tasks)
          /\ UNCHANGED <<args, benchStage, measured, printed, benchExit>>

\* With no trials there is nothing to take an average of.
Measure ==
  LET next == Min(DOMAIN pending)
      b == pending[next]
      outcome == Outcome(b, args.bad)
  IN /\ benchStage = "measuring" /\ DOMAIN pending # {}
     /\ \/ outcome = "error" /\ Stop(1)
        \/ (outcome = "panic" \/ (outcome = "times" /\ args.trials = 0)) /\ Stop(101)
        \/ /\ outcome = "spins" /\ benchStage' = "spinning"
           /\ UNCHANGED <<args, tasks, pending, measured, printed, benchExit>>
        \/ /\ outcome = "times" /\ args.trials > 0
           /\ \E times \in [1..args.trials -> args.micros] :
                measured' = Append(measured, [benchmark |-> b.name, target |-> b.target,
                                              timing |-> FromRuns(times)])
           /\ pending' = [i \in DOMAIN pending \ {next} |-> pending[i]]
           /\ UNCHANGED <<args, benchStage, tasks, printed, benchExit>>

PrintBenchmarks ==
  /\ benchStage = "measuring" /\ DOMAIN pending = {} /\ tasks = <<>>
  /\ printed' = IF ~args.json \/ args.compare = <<>> THEN <<<<"results", measured>>>> ELSE <<>>
  /\ benchStage' = "compare"
  /\ UNCHANGED <<args, tasks, pending, measured, benchExit>>

\* A file that is missing or is no output ends the process; otherwise all are
\* compared before anything is printed.
Comparison ==
  LET reports == [i \in DOMAIN args.compare |-> CompareRuns(measured, args.compare[i][1])]
      threshold == IF args.threshold = NotGiven THEN 5 ELSE args.threshold[1]
      marked == [i \in DOMAIN reports |->
                   {j \in DOMAIN reports[i].matched :
                      SignificanceOf(reports[i].matched[j], threshold) = "regression"}]
  IN /\ benchStage = "compare"
     /\ CASE args.compare = <<>> -> Stop(0)
          [] \E i \in DOMAIN args.compare : args.compare[i] = NotGiven -> Stop(1)
          [] OTHER ->
               /\ printed' = Append(printed,
                    IF args.json THEN <<"reports", reports>> ELSE <<"tables", reports, marked>>)
               /\ Quit(IF args.threshold # NotGiven /\ HasRegression(reports, threshold) THEN 1 ELSE 0)
               /\ UNCHANGED <<args, tasks, pending, measured>>

BenchNext == Start \/ Expand \/ Measure \/ PrintBenchmarks \/ Comparison
BenchSpec == BenchInit /\ [][BenchNext]_benchVars

---------------------------------------------------------------------------

BenchTypeOK ==
  /\ args \in BenchmarkRuns
  /\ benchStage \in {"start", "measuring", "compare", "spinning", "exited"}
  /\ \A i \in DOMAIN measured : measured[i].target \in Targets
  /\ benchExit \in {0, 1, 101}

\* Slower by more than the percentage, or, with a negative one, not faster by
\* so much, by more than twice the noise of both, and by the floor of ten
\* microseconds or more: at ten exactly line 95 goes on, where line 82 and
\* the README ask for a difference that exceeds the floor.
Regressed(old, new, percent) ==
  /\ \/ new.average - old.average >= 10
     \/ percent < 0 /\ old.average - new.average >= 10
  /\ (new.average - old.average) * (new.average - old.average) * old.variance[2] * new.variance[2]
       > 4 * (old.variance[1] * new.variance[2] + new.variance[1] * old.variance[2])
  /\ old.average = 0 \/ 100 * new.average > (100 + percent) * old.average

\* What is to be measured of a task.
Wanted(task, targets) ==
  {t \in Targets :
     /\ t \notin task.exclude
     /\ task.only = NotGiven \/ t \in task.only[1]
     /\ targets = NotGiven \/ t \in targets[1]
     /\ \E k \in DOMAIN TargetFiles : TargetFiles[k][1] = t /\ TargetFiles[k][2] \subseteq task.files}

\* What a benchmark run that ends without an error shows: one document if it
\* is JSON; statistics that are in order; each benchmark of the corpus that
\* has its files and is asked for, once; in each comparison every benchmark
\* of either run in exactly one place; and a failure exactly when a threshold
\* was given and a benchmark is slower than in an earlier run by more than
\* the threshold and twice the noise of both, and by no less than the floor
\* (compare.rs:93-109). The table marks what the exit code counts. A run
\* that fails prints no comparison.
BenchmarkExact ==
  LET reports == IF printed # <<>> /\ printed[Len(printed)][1] \in {"reports", "tables"}
                 THEN printed[Len(printed)][2] ELSE <<>>
      threshold == IF args.threshold = NotGiven THEN 5 ELSE args.threshold[1]
  IN /\ args.json => Len(printed) <= 1
     /\ benchStage = "exited" /\ benchExit = 0 => printed # <<>>
     /\ args.corpus # NotGiven => \A i \in DOMAIN measured :
          LET t == measured[i].timing IN
          /\ t.min <= t.p50 /\ t.p50 <= t.p95 /\ t.p95 <= t.p99 /\ t.p99 <= t.max
          /\ t.min <= t.average /\ t.average <= t.max /\ 0 <= t.iqr /\ t.iqr <= t.max - t.min
     /\ benchStage = "compare" /\ args.corpus # NotGiven =>
          {<<measured[i].benchmark, measured[i].target>> : i \in DOMAIN measured} =
            UNION {{args.corpus[1][i].name} \X Wanted(args.corpus[1][i], args.targets) :
                     i \in DOMAIN args.corpus[1]}
     /\ \A i \in DOMAIN reports :
          LET r == reports[i]
              earlier == args.compare[i][1]
          IN /\ DOMAIN r.matched \cup DOMAIN r.onlyInCurrent = DOMAIN measured
             /\ DOMAIN r.matched \cap DOMAIN r.onlyInCurrent = {}
             /\ \A j \in DOMAIN measured : LET k == Key(measured[j]) IN
                  (\E n \in DOMAIN earlier : Key(earlier[n]) = k)
                    <=> (\E n \in DOMAIN r.matched : r.matched[n].key = k
                                                     /\ r.matched[n].current = measured[j].timing)
             /\ r.onlyInBaseline = {Key(earlier[n]) : n \in DOMAIN earlier}
                                     \ {Key(measured[j]) : j \in DOMAIN measured}
             /\ \A j \in DOMAIN r.matched : ~args.json =>
                  (j \in printed[Len(printed)][3][i]
                     <=> Regressed(r.matched[j].baseline, r.matched[j].current, threshold))
     /\ reports # <<>> =>
          (benchExit = 1 <=> /\ args.threshold # NotGiven
                             /\ \E i \in DOMAIN reports : \E j \in DOMAIN reports[i].matched :
                                  Regressed(reports[i].matched[j].baseline,
                                            reports[i].matched[j].current, threshold))

\* The comment on pct_change: from a baseline of 0 any other time is always
\* flagged as significant.
ZeroBaselineFlagged ==
  LET reports == IF printed # <<>> /\ printed[Len(printed)][1] = "tables"
                 THEN printed[Len(printed)][2] ELSE <<>>
  IN \A i \in DOMAIN reports : \A j \in DOMAIN reports[i].matched :
       LET c == reports[i].matched[j] IN
       c.baseline.average = 0 /\ c.current.average # 0 => j \in printed[Len(printed)][3][i]
=============================================================================
