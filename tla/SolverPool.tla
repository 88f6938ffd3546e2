------------------------------ MODULE SolverPool ------------------------------
(* The solver that a symbolic-compiler fuzz target keeps between queries      *)
(* (cedar-drt/fuzz/src/symcc.rs). The counterexample targets share one solver *)
(* process behind a lock, count its uses, restart it when a query times out,  *)
(* and keep a copy of the last model it printed. The "check ok" targets start *)
(* a solver for each input and go on with it after a timeout. A query is its  *)
(* number; a model is the number of the query it satisfies.                   *)
EXTENDS Integers, Sequences

CONSTANTS Queries,        \* how many queries a behaviour makes (a bound)
          UsageLimit      \* SOLVER_USAGE_LIMIT, 10000 in the code

ASSUME SolverPoolAssumption == Queries \in Nat /\ UsageLimit \in Nat \ {0, 1}

VARIABLES fuzzTarget,   \* the fuzz target this process runs
          queried,    \* how many queries were begun; the current query is `queried`
          poolAt,       \* where the target stands
          solver,     \* the solver: its use count, last model, and answers it owes
          inHand,    \* the counterexample in hand and whether the solver was called
          judged    \* what the last comparison was made from

poolVars == <<fuzzTarget, queried, poolAt, solver, inHand, judged>>

NoModel == 0
PoolTargets == {"cexDrt", "cexPbt", "checkOk"}
Shared == fuzzTarget \in {"cexDrt", "cexPbt"}
Answers3 == {"sat", "unsat", "unknown"}

\* A new compiler on a new solver process: no model yet, nothing owed.
NewSymCC == [usage |-> 0, raw |-> NoModel, owed |-> <<>>]

\* get_solver counts the call and, at the limit, replaces the solver first.
GotSolver(p) == IF p.usage + 1 >= UsageLimit THEN NewSymCC ELSE [p EXCEPT !.usage = @ + 1]

\* check_sat_with_model keeps the model of a Sat answer and touches it no other way.
Noted(p, reply) == IF reply.says = "sat" THEN [p EXCEPT !.raw = reply.of] ELSE p

\* A slip: the raw model is borrowed, not taken.
BorrowedModel(p) == p

\* mem::take of the raw model.
TakenModel(p) == [p EXCEPT !.raw = NoModel]

\* A timeout of get_cex is answered with a restart; check_ok_inner goes on.
AfterTimeout(p) == IF Shared THEN NewSymCC ELSE p

NothingFound == [cex |-> NoModel, called |-> FALSE]
NothingJudged == [query |-> 0, cex |-> NoModel, model |-> NoModel, called |-> FALSE]

PoolInit ==
  /\ fuzzTarget \in PoolTargets
  /\ queried = 0 /\ poolAt = "idle" /\ solver = NewSymCC
  /\ inHand = NothingFound /\ judged = NothingJudged

\* The policies do not compile for this environment: it is skipped.
SkipEnvironment ==
  /\ poolAt = "idle" /\ queried < Queries
  /\ queried' = queried + 1
  /\ UNCHANGED <<fuzzTarget, poolAt, solver, inHand, judged>>

\* The target takes the lock, or goes on with the solver of this input.
GetSolver ==
  /\ poolAt = "idle" /\ queried < Queries
  /\ queried' = queried + 1 /\ poolAt' = "holding"
  /\ solver' = IF Shared THEN GotSolver(solver) ELSE solver
  /\ UNCHANGED <<fuzzTarget, inHand, judged>>

\* The last environment of a check-ok input: its solver is cleaned up.
EndInput ==
  /\ fuzzTarget = "checkOk" /\ poolAt = "idle" /\ solver # NewSymCC
  /\ solver' = NewSymCC
  /\ UNCHANGED <<fuzzTarget, queried, poolAt, inHand, judged>>

\* A string SMT-LIB cannot express: a benign error for get_cex, which goes on with
\* the next query; for check_ok it ends the input, though not as a failure.
EncodeFails ==
  /\ poolAt = "holding" /\ poolAt' = "idle"
  /\ solver' = IF Shared THEN solver ELSE NewSymCC
  /\ UNCHANGED <<fuzzTarget, queried, inHand, judged>>

\* The asserts reduce to constants: an answer without the solver, and no new raw model.
Reduce(says) ==
  /\ poolAt = "holding"
  /\ IF says = "sat" /\ Shared
       THEN poolAt' = "found" /\ inHand' = [cex |-> queried, called |-> FALSE]
       ELSE poolAt' = "idle" /\ UNCHANGED inHand
  /\ UNCHANGED <<fuzzTarget, queried, solver, judged>>

\* The script goes to the solver, which owes an answer from now on. Which of the
\* checks of the tasks it encodes makes no difference here.
AskSolver(says) ==
  /\ poolAt = "holding" /\ poolAt' = "waiting"
  /\ solver' = [solver EXCEPT !.owed = Append(@, [of |-> queried, says |-> says])]
  /\ UNCHANGED <<fuzzTarget, queried, inHand, judged>>

\* The next answer is read, whichever query it answers. Unknown is an unexpected
\* error, on which get_cex panics and check_ok fails.
ReadAnswer ==
  /\ poolAt = "waiting" /\ solver.owed # <<>>
  /\ LET reply == Head(solver.owed)
         read == [solver EXCEPT !.owed = Tail(@)]
     IN /\ solver' = IF Shared THEN Noted(read, reply) ELSE read
        /\ inHand' = IF reply.says = "sat" /\ Shared
                      THEN [cex |-> reply.of, called |-> TRUE] ELSE inHand
        /\ poolAt' = CASE reply.says = "unknown" -> "failed"
                   [] reply.says = "sat" /\ Shared -> "found"
                   [] OTHER -> "idle"
  /\ UNCHANGED <<fuzzTarget, queried, judged>>

\* The solver process ends (it may use one gigabyte): a SolverError, and a failure.
SolverDies ==
  /\ poolAt = "waiting" /\ poolAt' = "failed"
  /\ UNCHANGED <<fuzzTarget, queried, solver, inHand, judged>>

\* tokio's timeout drops the query before its answer was read.
QueryTimesOut ==
  /\ poolAt = "waiting" /\ poolAt' = "idle"
  /\ solver' = AfterTimeout(solver)
  /\ UNCHANGED <<fuzzTarget, queried, inHand, judged>>

\* symcc-cex-drt: the raw model is taken while the lock is held, then Lean rebuilds
\* the counterexample from it, if there is one, and both are compared.
HandToLean ==
  /\ fuzzTarget = "cexDrt" /\ poolAt = "found" /\ poolAt' = "idle"
  /\ judged' = [query |-> queried, cex |-> inHand.cex, model |-> solver.raw, called |-> inHand.called]
  /\ solver' = TakenModel(solver)
  /\ inHand' = NothingFound
  /\ UNCHANGED <<fuzzTarget, queried>>

\* symcc-cex-pbt: the counterexample is run through the authorizer; the model stays.
Reproduce ==
  /\ fuzzTarget = "cexPbt" /\ poolAt = "found" /\ poolAt' = "idle"
  /\ judged' = [query |-> queried, cex |-> inHand.cex, model |-> NoModel, called |-> inHand.called]
  /\ inHand' = NothingFound
  /\ UNCHANGED <<fuzzTarget, queried, solver>>

PoolNext ==
  \/ SkipEnvironment \/ GetSolver \/ EndInput \/ EncodeFails
  \/ \E says \in {"sat", "unsat"} : Reduce(says)
  \/ \E says \in Answers3 : AskSolver(says)
  \/ ReadAnswer \/ SolverDies \/ QueryTimesOut \/ HandToLean \/ Reproduce

PoolSpec == PoolInit /\ [][PoolNext]_poolVars

-------------------------------------------------------------------------------
\* Every variable has its type.
PoolTypeOK ==
  /\ fuzzTarget \in PoolTargets /\ queried \in 0 .. Queries
  /\ poolAt \in {"idle", "holding", "waiting", "found", "failed"}
  /\ solver \in [usage : 0 .. UsageLimit - 1, raw : 0 .. Queries,
                  owed : Seq([of : 1 .. Queries, says : Answers3])]
  /\ inHand \in [cex : 0 .. Queries, called : BOOLEAN]
  /\ judged \in [query : 0 .. Queries, cex : 0 .. Queries,
                 model : 0 .. Queries, called : BOOLEAN]

\* A counterexample is judged against the query that produced it, across timeouts,
\* restarts and queries answered without the solver: the shared solver owes no answer
\* when it is handed out, what is reproduced belongs to the query, and the raw model
\* Lean receives is the model of that very query, present exactly when the solver was
\* called (symcc-cex-drt.rs:49-52 and the lock around it).
FreshModels ==
  /\ Shared /\ poolAt \in {"idle", "holding", "found"} => solver.owed = <<>>
  /\ judged # NothingJudged =>
       /\ judged.cex = judged.query
       /\ fuzzTarget = "cexDrt" =>
            judged.model = IF judged.called THEN judged.query ELSE NoModel
===============================================================================
