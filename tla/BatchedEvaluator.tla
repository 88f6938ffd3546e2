-------------------------- MODULE BatchedEvaluator --------------------------
(***************************************************************************)
(* Batched evaluation of one expression                                    *)
(* (cedar-lean/Cedar/TPE/BatchedEvaluator.lean:46-82).  Unlike the loop of *)
(* BatchedAuthorizer this one loads before it looks: the first round is    *)
(* spent even on an expression that is a value already, and a residual     *)
(* that is an error is evaluated until the rounds run out.                 *)
(***************************************************************************)
EXTENDS EntityLoader

CONSTANTS
  Exprs,        \* the typed expressions
  IsValue(_)      \* residual: it is a value

ASSUME ExpressionsAreTyped == Exprs \subseteq Residuals

\* A value is not left to evaluate.
ASSUME ValuesAreSettled == \A r \in Residuals : IsValue(r) => Class(r) # "residual"

\* Neither a value nor an error becomes anything else.
ASSUME SettledStays ==
  \A r \in Residuals, q \in ValidRequests, b \in Backings, S \in LoadedSets :
    Class(r) # "residual" => Class(PartialEvaluate(r, q, Loaded(b, S))) = Class(r)

VARIABLES
  expr, request, backing,       \* what is evaluated
  phase,                        \* "call", "loop", "loading" or "done"
  residual, store, rounds,      \* the loop's arguments; rounds still allowed
  toLoad                        \* what the loader is being asked

vars == <<expr, request, backing, phase, residual, store, rounds, toLoad>>
query == <<expr, request, backing>>

\* Mutant: for another request.
EvaluateForAnother(r, st) ==
  PartialEvaluate(r, CHOOSE q \in ValidRequests : q # request, st)

EvaluateOn(r, st) == PartialEvaluate(r, request, st)

Init == /\ expr \in Exprs /\ request \in ValidRequests /\ backing \in Backings
        /\ phase = "call"
        /\ residual = expr
        /\ store = ActionEntities
        /\ rounds = Iters
        /\ toLoad = {}

Start ==
  /\ phase = "call"
  /\ residual' = EvaluateOn(expr, store)
  /\ phase' = "loop"
  /\ UNCHANGED <<query, store, rounds, toLoad>>

\* Mutant: running out of rounds does not end the loop.
EndOnValue ==
  /\ phase = "loop" /\ rounds = 0 /\ IsValue(residual)
  /\ phase' = "done"
  /\ UNCHANGED <<query, residual, store, rounds, toLoad>>

GiveUp ==
  /\ phase = "loop" /\ rounds = 0
  /\ phase' = "done"
  /\ UNCHANGED <<query, residual, store, rounds, toLoad>>

\* Mutant: the uids are those of the expression, not of what is left of it.
AskOfExpression ==
  /\ phase = "loop" /\ rounds > 0
  /\ toLoad' = LiteralUIDs(expr) \ DOMAIN store
  /\ rounds' = rounds - 1
  /\ phase' = "loading"
  /\ UNCHANGED <<query, residual, store>>

AskLoader ==
  /\ phase = "loop" /\ rounds > 0
  /\ toLoad' = LiteralUIDs(residual) \ DOMAIN store
  /\ rounds' = rounds - 1
  /\ phase' = "loading"
  /\ UNCHANGED <<query, residual, store>>

\* Mutant: the residual is evaluated on what was loaded before.
EvaluateStale(extra) ==
  LET newStore == Over(Loaded(backing, toLoad \cup extra), store)
      new      == EvaluateOn(residual, store)
  IN  /\ phase = "loading"
      /\ store' = newStore /\ residual' = new /\ toLoad' = {}
      /\ phase' = IF IsValue(new) THEN "done" ELSE "loop"
      /\ UNCHANGED <<query, rounds>>

\* The loader answers; the residual is evaluated on what is loaded by now,
\* and a value is the result.
LoaderAnswers(extra) ==
  LET newStore == Over(Loaded(backing, toLoad \cup extra), store)
      new      == EvaluateOn(residual, newStore)
  IN  /\ phase = "loading"
      /\ store' = newStore /\ residual' = new /\ toLoad' = {}
      /\ phase' = IF IsValue(new) THEN "done" ELSE "loop"
      /\ UNCHANGED <<query, rounds>>

Next == Start \/ GiveUp \/ AskLoader \/ \E extra \in SUBSET Uids : LoaderAnswers(extra)

\* The computation runs to its end: the loader is a total function.
Spec == Init /\ [][Next]_vars /\ WF_vars(Next)

-----------------------------------------------------------------------------
\* The loop's arguments keep their kinds, and the rounds never go below zero
\* (BatchedEvaluator.lean:46-51).
TypeOK ==
  /\ expr \in Exprs /\ request \in ValidRequests /\ backing \in Backings
  /\ phase \in {"call", "loop", "loading", "done"}
  /\ residual \in Residuals
  /\ DOMAIN store \in SUBSET Uids
  /\ rounds \in 0..Iters
  /\ toLoad \in SUBSET Uids

\* What is loaded is what the backing store says (BatchedEvaluator.lean:56-57).
StoreRefines == ActionUids \subseteq DOMAIN store /\ store = Loaded(backing, DOMAIN store)

\* What comes back means on the backing store what the expression means,
\* whatever was loaded and in however many rounds
\* (BatchedEvaluator.lean:55-61 and 79-82).
ResultSound == phase = "done" => Outcome(residual, request, backing) = Outcome(expr, request, backing)

\* The loader is asked for nothing only when there is nothing to find out:
\* a round is wasted on a value or an error, never on a residual that could
\* still be resolved (BatchedEvaluator.lean:55).
WasteIsHarmless == phase = "loading" /\ toLoad = {} => Class(residual) # "residual"

\* As many rounds as there are entities the schema does not declare leave
\* nothing to evaluate (Thm/BatchedEvaluator/Common.lean:21-24).
EnoughRounds == Iters >= Cardinality(Uids \ ActionUids)
Converges == EnoughRounds /\ phase = "done" => Class(residual) # "residual"

\* The result comes within Iters calls to the loader.
Ends == <>(phase = "done")

=============================================================================
