--------------------------- MODULE SolverSession ---------------------------
(***************************************************************************)
(* A session with an SMT solver process (cedar-lean/Cedar/SymCC/Solver.lean*)
(* and SatUnsat.lean, encode in Encoder.lean): queries are written as      *)
(* commands to the solver's input pipe, answers are read from its output   *)
(* pipe, and SolverM.run tears the process down, whatever happened.        *)
(*                                                                         *)
(* The solver is the assumed CVC5: it answers check-sat truthfully for the *)
(* assertions it holds, or with unknown; it prints an error for a command  *)
(* it cannot take and exits.  In quiet mode it writes nothing to stderr.   *)
(* Pipes are bounded, and a process that writes to a full one waits.       *)
(***************************************************************************)
EXTENDS Naturals, Sequences, FiniteSets

CONSTANTS
  MaxQueries,       \* bound: queries in one session
  InCap, OutCap,    \* commands and lines the pipes hold
  Definitions,      \* bound: lines between the parentheses of a model
  Crashes           \* the solver may die at any moment

ASSUME SessionAssumption ==
  /\ MaxQueries \in Nat /\ InCap \in Nat \ {0} /\ OutCap \in Nat \ {0}
  /\ Definitions \in Nat /\ Crashes \in BOOLEAN

VARIABLES
  pc,        \* the client: "idle", "emit", "answer", "open", "model", "cleanup", "wait", "closed"
  asked,     \* the queries so far: their asserts, and whether a model is wanted
  results,   \* what they returned
  todo,      \* the commands of the query that are not written yet
  got,       \* the lines of the model read so far
  inPipe, outPipe,
  solver,    \* "running", "failing" (about to exit), "dead" or "reaped"
  context,   \* the queries whose asserts the solver holds
  produce,   \* its option :produce-models
  verdict,   \* its last answer to check-sat; "none" since the last reset
  printing   \* lines it has yet to print

client  == <<pc, asked, results, todo, got>>
process == <<solver, context, produce, verdict, printing>>
vars    == <<client, process, inPipe, outPipe>>

\* "false": some assert is literally false; "true": all are literally true;
\* otherwise the solver has to find out whether they are satisfiable.
Asserts == {"false", "true", "unsat", "sat"}
Queries == [asserts : Asserts, models : BOOLEAN]
Now == Len(asked)
Alive == solver \in {"running", "failing"}

Init ==
  /\ pc = "idle" /\ asked = <<>> /\ results = <<>> /\ todo = <<>> /\ got = <<>>
  /\ inPipe = <<>> /\ outPipe = <<>>
  /\ solver = "running" /\ context = {} /\ produce = FALSE
  /\ verdict = "none" /\ printing = <<>>

-----------------------------------------------------------------------------
(* The client *)

\* The outcome of checkUnsatAsserts and checkSatAsserts when no solver is needed.
Literally(q) == CASE q.asserts = "false" -> "unsat"
                  [] q.asserts = "true"  -> IF q.models THEN "cex" ELSE "sat"

Return(r) == results' = Append(results, r) /\ pc' = "idle"
Throw     == results' = Append(results, "error") /\ pc' = "cleanup"

\* Mutant: the solver is not reset.
EncodeOnly(n) == <<<<"option", n>>, <<"assert", n>>>>

\* Mutant: encode checks already.
EncodeAndCheck(n) ==
  <<<<"reset", n>>, <<"option", n>>, <<"declare", n>>, <<"assert", n>>, <<"check", n>>>>

\* Encoder.encode: reset, set-option, the declarations (set-logic among
\* them) and the asserts.
Encode(n) == <<<<"reset", n>>, <<"option", n>>, <<"declare", n>>, <<"assert", n>>>>

\* A query: what it needs is written to the solver.
Ask(q) ==
  /\ pc = "idle" /\ Now < MaxQueries
  /\ asked' = Append(asked, q)
  /\ pc' = "emit" /\ got' = <<>>
  /\ todo' = IF q.asserts \in {"true", "false"}
             THEN <<<<"reset", Now + 1>>>>
             ELSE Append(Encode(Now + 1), <<"check", Now + 1>>)
  /\ UNCHANGED <<results, process, inPipe, outPipe>>

\* The verification conditions are not well-typed: nothing is written.
Refuse(q) ==
  /\ pc = "idle" /\ Now < MaxQueries
  /\ asked' = Append(asked, q) /\ got' = <<>>
  /\ Throw
  /\ UNCHANGED <<todo, process, inPipe, outPipe>>

\* A counterexample may fail to be extracted from the default interpretation.
Settle(q) == Return(Literally(q)) \/ (Literally(q) = "cex" /\ Throw)

\* After the last command: the answer, the model, or nothing to wait for.
Awaited(command) == CASE command[1] = "check" -> "answer"
                      [] command[1] = "model" -> "open"
                      [] OTHER                -> "idle"

\* emitln: write and flush one command; a solver that is gone breaks the pipe.
Emit ==
  /\ pc = "emit"
  /\ IF Alive
     THEN /\ Len(inPipe) < InCap
          /\ inPipe' = Append(inPipe, Head(todo))
          /\ todo' = Tail(todo)
          /\ IF Len(todo) > 1
             THEN UNCHANGED <<pc, results>>
             ELSE LET next == Awaited(Head(todo))
                  IN  IF next = "idle" THEN Settle(asked[Now])
                                       ELSE pc' = next /\ UNCHANGED results
     ELSE Throw /\ todo' = <<>> /\ UNCHANGED inPipe
  /\ UNCHANGED <<asked, got, process, outPipe>>

\* The encoder meets a term it cannot encode, half of it written.
Abort ==
  /\ pc = "emit" /\ Head(todo)[1] = "declare"
  /\ Throw /\ todo' = <<>>
  /\ UNCHANGED <<asked, got, process, inPipe, outPipe>>

\* getLine: a line, or "" at the end of a file nobody writes to any more.
Line == IF outPipe # <<>> THEN Head(outPipe) ELSE <<"", 0>>
Readable == outPipe # <<>> \/ ~Alive
ReadOn == outPipe' = IF outPipe # <<>> THEN Tail(outPipe) ELSE outPipe

\* checkSat: unknown, an error and the end of the file are exceptions; sat
\* asks for the model if one is wanted.
ReadAnswer ==
  /\ pc = "answer" /\ Readable /\ ReadOn
  /\ CASE Line[1] = "unsat"                     -> Return("unsat") /\ UNCHANGED todo
       [] Line[1] = "sat" /\ ~asked[Now].models -> Return("sat") /\ UNCHANGED todo
       [] Line[1] = "sat" /\ asked[Now].models  ->
            pc' = "emit" /\ todo' = <<<<"model", Now>>>> /\ UNCHANGED results
       [] OTHER -> Throw /\ UNCHANGED todo
  /\ UNCHANGED <<asked, got, process, inPipe>>

ReadOpen ==
  /\ pc = "open" /\ Readable /\ ReadOn
  /\ IF Line[1] = "(" THEN pc' = "model" /\ got' = <<Line>> /\ UNCHANGED results
                      ELSE Throw /\ UNCHANGED got
  /\ UNCHANGED <<asked, todo, process, inPipe>>

\* Mutant: the first definition ends the model.
ReadModelLine ==
  /\ pc = "model" /\ outPipe # <<>> /\ ReadOn
  /\ got' = Append(got, Line)
  /\ Return("cex")
  /\ UNCHANGED <<asked, todo, process, inPipe>>

\* getModel reads to the closing parenthesis.  At the end of the file it
\* reads "" over and over: the loop goes round and nothing changes, which
\* is no step here.  A model that is complete may still fail to decode, to
\* satisfy the asserts or to be extracted.
ReadModel ==
  /\ pc = "model" /\ outPipe # <<>> /\ ReadOn
  /\ got' = Append(got, Line)
  /\ IF Line[1] = ")" THEN Return("cex") \/ Throw ELSE UNCHANGED <<pc, results>>
  /\ UNCHANGED <<asked, todo, process, inPipe>>

\* The action that was run in the session has no more queries.
Finish ==
  /\ pc = "idle" /\ pc' = "cleanup"
  /\ UNCHANGED <<asked, results, todo, got, process, inPipe, outPipe>>

\* Mutant: the process is waited for without being told to exit.
CleanupQuietly ==
  /\ pc = "cleanup" /\ pc' = "wait"
  /\ UNCHANGED <<asked, results, todo, got, process, inPipe, outPipe>>

\* cleanup: best-effort exit command, then wait.
Cleanup ==
  /\ pc = "cleanup" /\ pc' = "wait"
  /\ IF Alive THEN Len(inPipe) < InCap /\ inPipe' = Append(inPipe, <<"exit", Now>>)
              ELSE UNCHANGED inPipe
  /\ UNCHANGED <<asked, results, todo, got, process, outPipe>>

Reap ==
  /\ pc = "wait" /\ ~Alive
  /\ pc' = "closed" /\ solver' = "reaped"
  /\ UNCHANGED <<asked, results, todo, got, context, produce, verdict, printing, inPipe, outPipe>>

Client == (\E q \in Queries : Ask(q) \/ Refuse(q)) \/ Emit \/ Abort \/ ReadAnswer \/ ReadOpen \/ ReadModel
          \/ Finish \/ Cleanup \/ Reap

-----------------------------------------------------------------------------
(* The solver *)

Held == {asked[n].asserts : n \in context}
Truths == CASE "unsat" \in Held         -> {"unsat"}
            [] Held \subseteq {"sat"} /\ Cardinality(context) <= 1 -> {"sat"}
            [] OTHER                    -> {"sat", "unsat"}

Model(n) == <<<<"(", n>>>> \o [i \in 1..Definitions |-> <<"define-fun", n>>] \o <<<<")", n>>>>

Fails == solver' = "failing" /\ printing' = <<<<"error", Now>>>>

\* The solver takes the next command.
Obey ==
  /\ solver = "running" /\ printing = <<>> /\ inPipe # <<>>
  /\ inPipe' = Tail(inPipe)
  /\ LET op == Head(inPipe)[1]
         n  == Head(inPipe)[2]
     IN  \/ /\ op = "reset"
            /\ context' = {} /\ produce' = FALSE /\ verdict' = "none"
            /\ UNCHANGED <<solver, printing>>
         \/ /\ op = "option"
            /\ produce' = asked[n].models
            /\ UNCHANGED <<solver, context, verdict, printing>>
         \/ /\ op = "assert"
            /\ context' = context \cup {n}
            /\ UNCHANGED <<solver, produce, verdict, printing>>
         \/ /\ op = "check"
            /\ \E v \in Truths \cup {"unknown"} : verdict' = v /\ printing' = <<<<v, n>>>>
            /\ UNCHANGED <<solver, context, produce>>
         \/ /\ op = "model"
            /\ IF verdict = "sat" /\ produce
               THEN printing' = Model(CHOOSE m \in context : TRUE) /\ UNCHANGED solver
               ELSE Fails
            /\ UNCHANGED <<context, produce, verdict>>
         \/ /\ op = "declare"
            /\ UNCHANGED process
         \/ /\ op \in {"declare", "assert"}
            /\ Fails
            /\ UNCHANGED <<context, produce, verdict>>
         \/ /\ op = "exit"
            /\ solver' = "dead"
            /\ UNCHANGED <<context, produce, verdict, printing>>
  /\ UNCHANGED <<client, outPipe>>

PrintLine ==
  /\ Alive /\ printing # <<>> /\ Len(outPipe) < OutCap
  /\ outPipe' = Append(outPipe, Head(printing))
  /\ printing' = Tail(printing)
  /\ UNCHANGED <<client, solver, context, produce, verdict, inPipe>>

\* After an error: exit.
Quit ==
  /\ solver = "failing" /\ printing = <<>> /\ solver' = "dead"
  /\ UNCHANGED <<client, context, produce, verdict, printing, inPipe, outPipe>>

Crash ==
  /\ Crashes /\ Alive /\ solver' = "dead"
  /\ UNCHANGED <<client, context, produce, verdict, printing, inPipe, outPipe>>

Solver == Obey \/ PrintLine \/ Quit
Next == Client \/ Solver \/ Crash

\* Both processes run; every check-sat comes to an answer.
Fairness == WF_vars(Client) /\ WF_vars(Solver)
Spec == Init /\ [][Next]_vars /\ Fairness

-----------------------------------------------------------------------------
Commands == {"reset", "option", "declare", "assert", "check", "model", "exit"} \X (0..MaxQueries)
Prints   == {"sat", "unsat", "unknown", "error", "(", "define-fun", ")"} \X (0..MaxQueries)

\* The pipes hold no more than they can, and no more queries are made or
\* held than were asked (Solver.lean:167-171 and 207-210).
TypeOK ==
  /\ pc \in {"idle", "emit", "answer", "open", "model", "cleanup", "wait", "closed"}
  /\ asked \in Seq(Queries) /\ Now <= MaxQueries
  /\ results \in Seq({"unsat", "sat", "cex", "error"})
  /\ todo \in Seq(Commands) /\ inPipe \in Seq(Commands) /\ Len(inPipe) <= InCap
  /\ got \in Seq(Prints) /\ printing \in Seq(Prints)
  /\ outPipe \in Seq(Prints) /\ Len(outPipe) <= OutCap
  /\ solver \in {"running", "failing", "dead", "reaped"}
  /\ context \subseteq 1..Now /\ produce \in BOOLEAN
  /\ verdict \in {"none", "sat", "unsat", "unknown"}

\* Whatever queries the session has asked before, and whatever happened to
\* the solver, an answer is the answer to its query (SatUnsat.lean:48-66
\* and 119-131): unsat only if the asserts are unsatisfiable, sat or a
\* counterexample only if they are not.
AnswersRight ==
  \A i \in DOMAIN results :
    /\ results[i] = "unsat" => asked[i].asserts \in {"false", "unsat"}
    /\ results[i] \in {"sat", "cex"} => asked[i].asserts \in {"true", "sat"}

\* A counterexample is read from the whole model of its own query
\* (Solver.lean:234-249).
ModelsWhole ==
  pc = "idle" /\ got # <<>> => got = Model(Now)

\* Between queries the pipe from the solver is empty, and nothing that is
\* still to be obeyed will print: the next answer cannot be an old one.
NothingPending ==
  pc = "idle" => /\ outPipe = <<>> /\ printing = <<>>
                 /\ \A i \in DOMAIN inPipe : inPipe[i][1] \notin {"check", "model"}

\* However the action ends, the process is reaped (Solver.lean:62-67 and 76-80).
Closes == <>(solver = "reaped")

\* Only a solver that dies in the middle of a model keeps the session from
\* ending and its process from being reaped: full pipes, refusals, answers
\* unread and a death at any other moment do not (Solver.lean:62-80, 98-113).
ClosesUnlessCut == Closes \/ <>[](pc = "model" /\ ~Alive)

=============================================================================
