------------------------------ MODULE LeanCli ------------------------------
(* cedar-lean-cli: one process, one command. It parses its inputs in the    *)
(* order the command lists them and stops at the first that is bad, asks    *)
(* the Lean backend, prints, and exits with 0 or 2. `analyze` is carried    *)
(* out by PolicyAnalysis.                                                   *)
(*                                                                          *)
(* Parsing is a sequence of steps that succeed or fail; a step is a pair of *)
(* an input and of what is done with it, and what a file holds decides      *)
(* which steps are bad.                                                     *)
EXTENDS PolicyAnalysis

CONSTANT Invocations   \* [command, bad, statements, schema, holds]

VARIABLES
  invocation,          \* the command line and what its files hold
  cliStage,
  envs, symccResults,  \* symcc: the environments, and the results so far
  stdout, exit

cliVars == <<invocation, cliStage, envs, symccResults, stdout, exit>>

command == invocation.command

---------------------------------------------------------------------------
(* Options. A set of options is one clap lets through; the conversions pick *)
(* a form. None stands for an option or component that is not given.        *)

None == <<>>
Some(x) == <<x>>
Given(x) == x # None

\* A slip: request_file is not what makes the others unnecessary.
UnrequiredOptions ==
  {o \in SUBSET {"principal", "action", "resource", "context", "context_file", "request_file"} :
     "request_file" \in o => o = {"request_file"}}

RequestOptions ==
  {o \in SUBSET {"principal", "action", "resource", "context", "context_file", "request_file"} :
     /\ "request_file" \in o => o = {"request_file"}
     /\ "request_file" \notin o => {"principal", "action", "resource"} \subseteq o
     /\ ~({"context", "context_file"} \subseteq o)}

\* RequestArgs to RequestArgsEnum and ContextArg.
RequestForm(o) ==
  IF "request_file" \in o THEN "file"
  ELSE IF ~({"principal", "action", "resource"} \subseteq o) THEN "panic"
  ELSE IF "context" \in o THEN "args with context"
  ELSE IF "context_file" \in o THEN "args with context file"
  ELSE "args"

ModeFlags == SUBSET {"run_analysis", "print_smtlib"} \ {{"run_analysis", "print_smtlib"}}
ModeEnum(flags) ==
  IF "run_analysis" \in flags THEN "run" ELSE IF "print_smtlib" \in flags THEN "print" ELSE "run"

EvaluationCommands ==
  [do : {"authorize"}, schema : BOOLEAN, req : RequestOptions]
    \cup [do : {"evaluate"}, schema : BOOLEAN, req : RequestOptions, expected : BOOLEAN]
ValidationCommands ==
  [do : {"validate policy-set", "validate level", "validate entities"}]
    \cup [do : {"validate request"}, req : RequestOptions]
AnalysisCommands == [do : {"analyze policies", "analyze compare"}]

PolicyChecks == {"never-errors"}
PolicySetChecks == {"always-allows", "always-denies"}
PairChecks == {"equivalent", "implies", "disjoint"}
Checks == PolicyChecks \cup PolicySetChecks \cup PairChecks
SymCCCommands(opens) == [do : {"symcc"}, check : Checks, mode : ModeFlags, open : opens]

---------------------------------------------------------------------------
(* What each command parses, in order (cli_exec.rs, util.rs).               *)

File(input) == <<<<input, "read">>, <<input, "parse">>>>
PolicySetFile(input) == File(input) \o <<<<input, "rename">>>>
IfGiven(b, input) == IF b THEN File(input) ELSE <<>>

FromArgs == <<<<"principal", "uid">>, <<"action", "uid">>, <<"resource", "uid">>>>
RequestSteps(o) ==
  CASE RequestForm(o) = "file" ->
         File("request") \o <<<<"request", "json">>>> \o FromArgs
           \o <<<<"context", "string">>, <<"request", "valid">>>>
    [] RequestForm(o) = "args" -> FromArgs \o <<<<"request", "valid">>>>
    [] RequestForm(o) = "args with context" ->
         FromArgs \o <<<<"context", "string">>, <<"request", "valid">>>>
    [] RequestForm(o) = "args with context file" ->
         FromArgs \o File("context") \o <<<<"request", "valid">>>>
    [] OTHER -> <<<<"request", "panic">>>>

EvaluationSteps(c) ==
  IF c.do = "authorize"
  THEN PolicySetFile("policyset") \o IfGiven(c.schema, "schema")
         \o RequestSteps(c.req) \o File("entities")
  ELSE File("expression") \o IfGiven(c.schema, "schema") \o File("entities")
         \o RequestSteps(c.req) \o IfGiven(c.expected, "expected")

ValidationSteps(c) ==
  CASE c.do = "validate entities" -> File("schema") \o File("entities")
    [] c.do = "validate request" -> File("schema") \o RequestSteps(c.req)
    [] OTHER -> PolicySetFile("policyset") \o File("schema")

AnalysisSteps(c) ==
  IF c.do = "analyze policies" THEN PolicySetFile("policyset") \o File("schema")
  ELSE PolicySetFile("policyset") \o PolicySetFile("policyset 2") \o File("schema")

\* OpenRequestEnv::new: an action name is always an id, a type may be no type.
OpenSteps(open) ==
  (IF Given(open.principal) THEN <<<<"principal type", "type">>>> ELSE <<>>)
    \o (IF Given(open.resource) THEN <<<<"resource type", "type">>>> ELSE <<>>)

SymCCSteps(c) ==
  (CASE c.check \in PolicyChecks -> File("policy")
     [] c.check \in PolicySetChecks -> PolicySetFile("policyset")
     [] c.check \in PairChecks -> PolicySetFile("policyset") \o PolicySetFile("policyset 2"))
    \o File("schema") \o OpenSteps(c.open)

Steps(c) ==
  CASE c.do \in {"authorize", "evaluate"} -> EvaluationSteps(c)
    [] c.do \in {"analyze policies", "analyze compare"} -> AnalysisSteps(c)
    [] c.do = "symcc" -> SymCCSteps(c)
    [] OTHER -> ValidationSteps(c)

\* rename_from_id_annotation_policyset: a statement of the file is its @id
\* annotation or None, and had the name of its place. Adding a policy or a
\* template under a name that is taken fails.
NameOf(body, i) == IF Given(body[i]) THEN body[i][1] ELSE <<"policy", i>>
\* A slip: statements under one name replace each other.
LastOneWins(body) == FALSE

Collides(body) ==
  \E i, j \in DOMAIN body : i # j /\ NameOf(body, i) = NameOf(body, j)
Renamed(body) == [n \in {NameOf(body, i) : i \in DOMAIN body} |->
                    CHOOSE i \in DOMAIN body : NameOf(body, i) = n]

Bad(step) ==
  \/ step \in invocation.bad
  \/ step = <<"policyset", "rename">> /\ Collides(invocation.statements)

---------------------------------------------------------------------------
(* Request environments (util.rs): a schema maps an action to the types it  *)
(* applies to. An action is a namespace and an id; the command line gives   *)
(* the id alone.                                                            *)

\* A slip: a resource type given alone is overlooked.
FitsPrincipalAction(open, e) ==
  /\ Given(open.action) => e.action[2] = open.action[1]
  /\ Given(open.principal) => e.principal = open.principal[1]

Fits(open, e) == /\ Given(open.action) => e.action[2] = open.action[1]
                 /\ Given(open.principal) => e.principal = open.principal[1]
                 /\ Given(open.resource) => e.resource = open.resource[1]
IsAny(open) == ~Given(open.principal) /\ ~Given(open.action) /\ ~Given(open.resource)

EnvsOf(schema) == UNION {[principal : schema[a].principals, action : {a},
                          resource : schema[a].resources] : a \in DOMAIN schema}
ToRequestEnvs(open, schema) == {e \in EnvsOf(schema) : Fits(open, e)}

\* What a verdict says it is about.
Restriction(open) == {<<c, open[c][1]>> : c \in {d \in DOMAIN open : Given(open[d])}}

\* A type without its namespace, an action by its id.
Shown(e) == [principal |-> e.principal[2], action |-> e.action[2], resource |-> e.resource[2]]

\* A command that clap lets through; a check is put to every environment of a
\* schema, and holds in it or not.
Understood(v) ==
  /\ \/ v.command \in EvaluationCommands \cup ValidationCommands \cup AnalysisCommands
     \/ /\ v.command \in SymCCCommands({v.command.open})
        /\ DOMAIN v.command.open = {"principal", "action", "resource"}
        /\ \A c \in DOMAIN v.command.open :
             v.command.open[c] = None \/ v.command.open[c] = Some(v.command.open[c][1])
  /\ v.statements \in Seq(ToSet(v.statements))
  /\ v.holds \in [EnvsOf(v.schema) -> BOOLEAN] /\ IsFiniteSet(DOMAIN v.holds)

ASSUME InvocationsAssumption == \A v \in Invocations : Understood(v)

---------------------------------------------------------------------------
(* What is said of the results, one for each environment (symcc.rs). A      *)
(* sentence claims "every", "none", "some" or "some not".                   *)

AllOf(rs) == \A i \in DOMAIN rs : rs[i]
NoneOf(rs) == \A i \in DOMAIN rs : ~rs[i]
PolicyVerdict(rs) ==
  IF AllOf(rs) THEN "every" ELSE IF NoneOf(rs) THEN "none" ELSE "some not"
PolicySetVerdict(rs) ==
  IF AllOf(rs) THEN "every" ELSE IF NoneOf(rs) THEN "none" ELSE "some"
PairVerdict(check, rs) ==
  IF AllOf(rs) THEN "every" ELSE IF NoneOf(rs) THEN "none"
  ELSE IF check = "equivalent" THEN "some not" ELSE "some"
Verdict(check, rs) ==
  CASE check \in PolicyChecks -> PolicyVerdict(rs)
    [] check \in PolicySetChecks -> PolicySetVerdict(rs)
    [] check \in PairChecks -> PairVerdict(check, rs)

Rows(es, rs) == [i \in DOMAIN rs |-> <<"row", Shown(es[i]), rs[i]>>]

---------------------------------------------------------------------------
(* The process.                                                             *)

Exit(code, why) == cliStage' = "exited" /\ exit' = [code |-> code, why |-> why]
Fail(why) == Exit(2, why) /\ UNCHANGED <<invocation, envs, symccResults, stdout>>

LeanCliInit ==
  /\ invocation \in Invocations
  /\ cliStage = "parsing" /\ envs = <<>> /\ symccResults = <<>> /\ stdout = <<>>
  /\ exit = [code |-> 1, why |-> <<"running">>]

ParseInputs ==
  LET steps == Steps(command)
      wrong == {i \in DOMAIN steps : Bad(steps[i]) \/ steps[i][2] = "panic"}
  IN /\ cliStage = "parsing"
     /\ IF wrong = {}
        THEN cliStage' = "ready" /\ UNCHANGED <<invocation, envs, symccResults, stdout, exit>>
        ELSE LET first == steps[Min(wrong)] IN
             /\ Exit(IF first[2] = "panic" THEN 101 ELSE 2, first)
             /\ UNCHANGED <<invocation, envs, symccResults, stdout>>

\* A request is denied or allowed by the policies that are satisfied, by
\* effect; those that failed are named too.
Determining(permits, forbids) == IF forbids # {} THEN forbids ELSE permits
Authorize ==
  /\ cliStage = "ready" /\ command.do = "authorize"
  /\ \E permits, forbids, erring \in SUBSET {"a", "b"} :
       LET allow == permits # {} /\ forbids = {}
           determining == Determining(permits, forbids)
       IN stdout' = <<<<"authorize", permits \cup forbids,
                        IF allow THEN "allowed" ELSE IF determining = {} THEN "implicitly denied"
                        ELSE "denied", determining>>>>
                      \o (IF erring = {} THEN <<>> ELSE <<<<"errors", erring>>>>)
  /\ Exit(0, <<"done">>) /\ UNCHANGED <<invocation, envs, symccResults>>

Evaluate ==
  /\ cliStage = "ready" /\ command.do = "evaluate"
  /\ IF command.expected
     THEN \E same \in BOOLEAN : stdout' = <<<<"as expected", same>>>>
     ELSE stdout' = <<<<"value">>>>
  /\ Exit(0, <<"done">>) /\ UNCHANGED <<invocation, envs, symccResults>>

\* What does not validate is an answer, not a failure of the command.
Validate ==
  /\ cliStage = "ready" /\ command \in ValidationCommands
  /\ \E valid \in BOOLEAN : stdout' = <<<<"validated", valid>>>>
  /\ Exit(0, <<"done">>) /\ UNCHANGED <<invocation, envs, symccResults>>

\* The actions of a schema that was read may yet fail to make entities.
StartSymCC ==
  LET found == ToRequestEnvs(command.open, invocation.schema)
      incompatible == found = {} /\ ~IsAny(command.open)
  IN /\ cliStage = "ready" /\ command.do = "symcc"
     /\ \/ Fail(<<"action entities">>)
        \/ incompatible /\ Fail(<<"request environment", "incompatible">>)
        \/ /\ ~incompatible
           /\ cliStage' = "symcc" /\ envs' = SetToSeq(found)
           /\ UNCHANGED <<invocation, symccResults, stdout, exit>>

SymCCRuns(mode) == cliStage = "symcc" /\ ModeEnum(command.mode) = mode
Left == Len(symccResults) < Len(envs)
Current == envs[Len(symccResults) + 1]

\* run_check_*: nothing is printed before every environment is answered.
CheckEnvironment ==
  /\ SymCCRuns("run") /\ Left
  /\ symccResults' = Append(symccResults, invocation.holds[Current])
  /\ UNCHANGED <<invocation, cliStage, envs, stdout, exit>>
PrintResults ==
  /\ SymCCRuns("run") /\ ~Left
  /\ stdout' = <<<<"verdict", Verdict(command.check, symccResults), Restriction(command.open)>>>>
               \o Rows(envs, symccResults)
  /\ Exit(0, <<"done">>) /\ UNCHANGED <<invocation, envs, symccResults>>

\* print_check_*: the header goes out before the script is asked for.
PrintScript ==
  /\ SymCCRuns("print") /\ Left
  /\ \/ /\ stdout' = stdout \o <<<<"header", Shown(Current)>>, <<"script", Current>>>>
        /\ symccResults' = Append(symccResults, TRUE)
        /\ UNCHANGED <<invocation, cliStage, envs, exit>>
     \/ /\ stdout' = Append(stdout, <<"header", Shown(Current)>>)
        /\ Exit(2, <<"backend">>) /\ UNCHANGED <<invocation, envs, symccResults>>
EndScripts == SymCCRuns("print") /\ ~Left /\ Exit(0, <<"done">>)
              /\ UNCHANGED <<invocation, envs, symccResults, stdout>>

\* The backend fails: in the one call of a command, while the schema is
\* loaded, or in a check.
BackendFails ==
  /\ \/ cliStage = "ready" /\ command.do # "symcc"
     \/ cliStage = "symcc" /\ symccResults = <<>> /\ stdout = <<>>
     \/ SymCCRuns("run") /\ Left
  /\ Fail(<<"backend">>)

CliStep ==
  \/ ParseInputs \/ Authorize \/ Evaluate \/ Validate
  \/ StartSymCC \/ CheckEnvironment \/ PrintResults \/ PrintScript \/ EndScripts
  \/ BackendFails

StartAnalysis ==
  /\ cliStage = "ready" /\ cliStage' = "analyzing"
  /\ \/ command.do = "analyze policies" /\ Analyze
     \/ command.do = "analyze compare" /\ Compare
  /\ UNCHANGED <<invocation, envs, symccResults, stdout, exit>>

EndAnalysis ==
  /\ cliStage = "analyzing"
  /\ \/ analysisStage = "done" /\ Exit(0, <<"done">>) /\ stdout' = <<report>>
     \/ analysisStage = "failed" /\ Exit(2, <<"backend">>) /\ stdout' = <<>>
  /\ UNCHANGED <<invocation, envs, symccResults, analysisVars>>

LeanCliNext ==
  \/ CliStep /\ UNCHANGED analysisVars
  \/ StartAnalysis
  \/ cliStage = "analyzing" /\ AnalysisStep /\ UNCHANGED cliVars
  \/ EndAnalysis

LeanCliSpec == AnalysisInit /\ LeanCliInit /\ [][LeanCliNext]_<<cliVars, analysisVars>>

---------------------------------------------------------------------------

LeanCliTypeOK ==
  /\ AnalysisTypeOK
  /\ invocation \in Invocations
  /\ cliStage \in {"parsing", "ready", "symcc", "analyzing", "exited"}
  /\ \A i \in DOMAIN symccResults : symccResults[i] \in BOOLEAN
  /\ Len(symccResults) <= Len(envs)
  /\ cliStage = "exited" <=> exit.why # <<"running">>

\* The environments a symcc command is asked about: those the schema has and
\* that agree with every option that was given.
Asked ==
  {e \in DOMAIN invocation.holds :
     /\ e.action \in DOMAIN invocation.schema
     /\ e.principal \in invocation.schema[e.action].principals
     /\ e.resource \in invocation.schema[e.action].resources
     /\ command.open.principal \in {None, Some(e.principal)}
     /\ command.open.action \in {None, Some(e.action[2])}
     /\ command.open.resource \in {None, Some(e.resource)}}

Holding == {e \in Asked : invocation.holds[e]}

\* What a command that succeeds says is so. A check's sentence, "for all",
\* "for none", "for some" or "not for all", is true of exactly the
\* environments asked for, names the restriction it holds under, and comes
\* with one row for each of them; the scripts are those of the same
\* environments; a denial is called implicit only if no policy was satisfied.
VerdictExact ==
  exit.code = 0 =>
    /\ command.do = "authorize" =>
         (stdout[1][3] = "implicitly denied" <=> stdout[1][2] = {})
    /\ command.do = "symcc" => (Asked = {} => IsAny(command.open))
    /\ (command.do = "symcc" /\ ModeEnum(command.mode) = "run") =>
         LET claim == stdout[1][2]
             rows == Tail(stdout)
         IN /\ claim = "every" <=> Holding = Asked
            /\ claim = "none" <=> Holding = {} /\ Asked # {}
            /\ stdout[1][3] = {<<c, command.open[c][1]>> :
                                c \in {"principal", "action", "resource"} \cap
                                      {d \in DOMAIN command.open : command.open[d] # None}}
            /\ Len(rows) = Cardinality(Asked)
            /\ \A t \in {TRUE, FALSE} :
                 Cardinality({i \in DOMAIN rows : rows[i][3] = t})
                   = Cardinality({e \in Asked : invocation.holds[e] = t})
    /\ (command.do = "symcc" /\ ModeEnum(command.mode) = "print") =>
         \A e \in Asked : \E i \in DOMAIN stdout : stdout[i] = <<"script", e>>

\* A command that fails says so: it never panics, its exit code is 2, the
\* error is that of the first input that is bad, nothing was asked of the
\* backend before every input was good, and nothing went to standard output
\* that could be taken for an answer; only the scripts of print mode that
\* were complete are there. A policy set that is accepted has every statement
\* of its file, each under a name of its own.
CleanFailure ==
  LET steps == Steps(command)
      wrong == {i \in DOMAIN steps : steps[i] \in invocation.bad}
  IN /\ exit.code \in {0, 1, 2}
     /\ wrong # {} => stdout = <<>> /\ exit.code # 0 /\ cliStage \in {"parsing", "exited"}
     /\ exit.code = 2 /\ exit.why \notin {<<"backend">>, <<"action entities">>, <<"request environment", "incompatible">>} =>
          \E i \in DOMAIN steps : /\ exit.why = steps[i] /\ \A j \in wrong : i <= j
                                 /\ steps[i][2] # "rename" => i \in wrong
     /\ exit.code = 2 /\ stdout # <<>> =>
          /\ command.do = "symcc" /\ ModeEnum(command.mode) = "print"
          /\ \A i \in DOMAIN stdout : stdout[i][1] = "header" /\ i # Len(stdout) =>
               stdout[i + 1][1] = "script" /\ Shown(stdout[i + 1][2]) = stdout[i][2]
     /\ (cliStage \notin {"parsing", "exited"} \/ exit.code = 0)
          /\ <<"policyset", "rename">> \in {steps[i] : i \in DOMAIN steps} =>
          Cardinality(DOMAIN Renamed(invocation.statements)) = Len(invocation.statements)
=============================================================================
