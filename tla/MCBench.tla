------------------------------ MODULE MCBench ------------------------------
(* Runs of the benchmark program: every choice of targets, one failing step *)
(* at each place, files of earlier results that are whole, empty or missing,*)
(* and fresh results compared with a baseline that measured nothing (0 us), *)
(* a little or much.                                                        *)
EXTENDS Benchmarking
Task(n, fs, ex, only) == [name |-> n, files |-> fs, exclude |-> ex, only |-> only]
Run(corpus, baseline, targets, trials, json, compare, threshold, bad, micros) ==
  [corpus |-> corpus, baseline |-> baseline, targets |-> targets, trials |-> trials,
   json |-> json, compare |-> compare, threshold |-> threshold, bad |-> bad, micros |-> micros]
PolicyTargets == {"policy_parse", "json_policy_parse", "protobuf_policy_parse", "protobuf_policy_parse_unchecked"}
Wholes == {Run(<<<<Task("t", fs, ex, only)>>>>, NotGiven, targets, 1, TRUE, <<>>, NotGiven, {}, {7}) :
             fs \in SUBSET Files, ex \in {{}, {"policy_parse"}, PolicyTargets},
             only \in {NotGiven, <<{"validation", "policy_parse"}>>, <<{}>>},
             targets \in {NotGiven, <<{"policy_parse", "authorization"}>>}}
BadSteps == Files \X {"read", "parse", "encode", "decode", "to_json", "from_json", "conform", "add"}
              \cup {<<"requests", "fit">>, <<"requests", "schema">>, <<"corpus", "parse">>}
Broken == {Run(<<<<Task("t", Files, {}, NotGiven)>>>>, NotGiven, NotGiven, n, FALSE, <<>>, NotGiven, {x}, {7}) :
             x \in BadSteps, n \in {0, 1}}
            \cup {Run(<<<<Task("t", Files, {}, <<{t}>>)>>>>, NotGiven, NotGiven, 1, FALSE, <<>>, NotGiven, {x}, {7}) :
             x \in BadSteps, t \in Targets}
Timings == {FromRuns(<<a, b>>) : a, b \in {0, 8, 20, 60}}
Result(n, t, x) == [benchmark |-> n, target |-> t, timing |-> x]
Single == {<<Result("b", "validation", x)>> : x \in Timings}
Others == {<<>>} \cup {<<Result(n, "validation", FromRuns(<<7>>)), Result(m, "validation", FromRuns(<<60>>))>> :
                          n, m \in {"b", "c"}}
Compared == {Run(NotGiven, <<<<x>>>>, NotGiven, 1, json, <<<<y>>>>, th, {}, {}) :
               x, y \in Single \cup Others, json \in BOOLEAN, th \in {NotGiven, <<5>>, <<200>>, <<-90>>}}
Missing == {Run(NotGiven, b, NotGiven, 1, json, c, <<5>>, {}, {}) :
              json \in BOOLEAN, b \in {NotGiven, <<NotGiven>>, <<<<<<>>>>>>},
              c \in {<<NotGiven>>, <<<<<<>>>>, NotGiven>>}}
FreshResults == {Run(<<<<Task("b", {"policy"}, {}, <<{"policy_parse"}>>), Task("c", {"policy"}, {}, <<{"policy_parse"}>>)>>>>,
              NotGiven, NotGiven, 2, json, c, th, {}, {0, 30}) :
            json \in BOOLEAN, th \in {NotGiven, <<5>>},
            c \in {<<>>, <<<<<<Result("b", "policy_parse", FromRuns(<<20>>))>>>>>>,
                   <<<<<<>>>>, <<<<Result("c", "policy_parse", FromRuns(<<0, 30>>))>>>>>>}}
AllRuns == Wholes \cup Broken \cup Compared \cup Missing \cup FreshResults
MCBenchmarkRuns == AllRuns
=============================================================================
