---------------------------- MODULE EntityLoader ----------------------------
(***************************************************************************)
(* What batched evaluation and batched authorization                       *)
(* (cedar-lean/Cedar/TPE/BatchedEvaluator.lean) share: the loader, and the *)
(* evaluators they are built on.                                           *)
(*                                                                         *)
(* The evaluators are parameters here: what they must satisfy is assumed,  *)
(* by name, and TLC checks the assumptions for the Cedar evaluators of     *)
(* PartialEvaluator and CedarEvaluator.  The loader is the caller's: it    *)
(* answers a set of uids from the backing store, "missing" for those that  *)
(* do not exist, and may answer more than it was asked.                    *)
(***************************************************************************)
EXTENDS Naturals, FiniteSets

CONSTANTS
  Uids, ActionUids,      \* all entity uids, and those the schema itself declares
  Requests, Backings,    \* requests; backing stores: on Uids, data or "missing"
  AsPartial(_),          \* data or "missing": a component of a partial store
  ActionData(_),         \* what the schema says of an action uid, likewise
  Residuals,             \* well-typed residuals
  Iters,                 \* the number of rounds allowed
  Matched(_),            \* the request types have an environment in the schema
  PartialEvaluate(_, _, _),  \* residual, request, what is loaded: a residual
  Outcome(_, _, _),      \* residual, request, backing store: an outcome
  Class(_),              \* residual: an outcome, or "residual"
  LiteralUIDs(_)         \* residual: the uids that stand in it

\* The part of a backing store that is loaded when the uids of S are.
Loaded(b, S) == [u \in S |-> AsPartial(b[u])]
\* Map.++ : the left map wins where both are defined.
Over(m1, m2) == [u \in DOMAIN m1 \cup DOMAIN m2 |-> IF u \in DOMAIN m1 THEN m1[u] ELSE m2[u]]
\* Mutant: batching starts without the entities the schema declares.
NoEntities == [u \in {} |-> ActionData(u)]
ActionEntities == [u \in ActionUids |-> ActionData(u)]

LoadedSets == {S \in SUBSET Uids : ActionUids \subseteq S}
ValidRequests == {q \in Requests : Matched(q)}

ASSUME LoaderTypes ==
  /\ IsFiniteSet(Uids) /\ ActionUids \subseteq Uids
  /\ Iters \in Nat

\* The backing store is an instance of the schema.
ASSUME ActionsAgree ==
  \A b \in Backings : \A u \in ActionUids : AsPartial(b[u]) = ActionData(u)

\* Partial evaluation makes a residual of a residual.
ASSUME EvaluationCloses ==
  \A r \in Residuals, q \in ValidRequests, b \in Backings, S \in LoadedSets :
    PartialEvaluate(r, q, Loaded(b, S)) \in Residuals

\* ... that means the same on the backing store.
ASSUME EvaluationSound ==
  \A r \in Residuals, q \in ValidRequests, b \in Backings, S \in LoadedSets :
    Outcome(PartialEvaluate(r, q, Loaded(b, S)), q, b) = Outcome(r, q, b)

\* A residual that is not left to evaluate says what it evaluates to.
ASSUME ClassSound ==
  \A r \in Residuals, q \in ValidRequests, b \in Backings :
    Class(r) # "residual" => Outcome(r, q, b) = Class(r)

\* The uids a residual mentions are entities of the model.
ASSUME LiteralsAreUids == \A r \in Residuals : LiteralUIDs(r) \subseteq Uids

\* With the whole request known, partial evaluation can only be stuck on an
\* entity that is not loaded, and the residual then names one.
ASSUME StuckNamesUnloaded ==
  \A r \in Residuals, q \in ValidRequests, b \in Backings, S \in LoadedSets :
    LET left == PartialEvaluate(r, q, Loaded(b, S))
    IN  Class(left) = "residual" => ~(LiteralUIDs(left) \subseteq S)

=============================================================================
