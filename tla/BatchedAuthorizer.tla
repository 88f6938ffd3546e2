------------------------- MODULE BatchedAuthorizer -------------------------
(***************************************************************************)
(* Batched authorization (cedar-lean/Cedar/TPE/BatchedEvaluator.lean):     *)
(* decide a request without holding the entity store, by loading the       *)
(* entities the residual policies mention, in at most Iters rounds.        *)
(***************************************************************************)
EXTENDS Authorizer, EntityLoader

CONSTANTS
  PolicyIds, Effect,     \* the policies and the effect of each
  Programs,              \* policies: id |-> expression
  WellTyped(_, _)        \* request, policy: validatePartialRequest, checkEntities and typeOf pass

ASSUME PolicyTypes == Effect \in [PolicyIds -> Effects]

\* A policy that passes the type checker is a residual.
ASSUME TypedPolicies ==
  \A pols \in Programs, p \in PolicyIds, q \in Requests :
    WellTyped(q, pols[p]) => pols[p] \in Residuals

\* Policies evaluate to a Boolean or an error.
ASSUME PoliciesAreBoolean ==
  \A r \in Residuals :
    /\ Class(r) \in Classes
    /\ \A q \in ValidRequests, b \in Backings : Outcome(r, q, b) \in Outcomes

-----------------------------------------------------------------------------
VARIABLES
  policies, request, backing,   \* the query
  phase,                        \* "call", "check", "loading", "done" or "failed"
  residuals, store, rounds,     \* the loop's arguments; rounds still allowed
  toLoad,                       \* what the loader is being asked
  response                      \* the decision returned; "pending" before

vars == <<policies, request, backing, phase, residuals, store, rounds, toLoad, response>>
query == <<policies, request, backing>>

Decided(rs) == ResidualDecision(Effect, [p \in PolicyIds |-> Class(rs[p])])

\* Mutant: the residuals are evaluated for another request.
EvaluateAllForAnother(rs, st) ==
  LET other == CHOOSE q \in ValidRequests : q # request
  IN  [p \in PolicyIds |-> PartialEvaluate(rs[p], other, st)]

EvaluateAll(rs, st) == [p \in PolicyIds |-> PartialEvaluate(rs[p], request, st)]

Valid(q) == Matched(q[2]) /\ \A p \in PolicyIds : WellTyped(q[2], q[1][p])

Init == /\ policies \in Programs /\ request \in Requests /\ backing \in Backings
        /\ phase = "call"
        /\ residuals = policies
        /\ store = ActionEntities
        /\ rounds = Iters
        /\ toLoad = {}
        /\ response = "pending"

\* batchedAuthorize: validate and evaluate every policy on what the schema
\* says of the actions; any failure is the answer.
Start ==
  /\ phase = "call"
  /\ IF Valid(query)
     THEN /\ residuals' = EvaluateAll(policies, store)
          /\ phase' = "check"
          /\ UNCHANGED response
     ELSE /\ phase' = "failed"
          /\ response' = "error"
          /\ UNCHANGED residuals
  /\ UNCHANGED <<query, store, rounds, toLoad>>

\* Mutant: running out of rounds does not end the loop.
ReturnDecided ==
  /\ phase = "check"
  /\ Decided(residuals) # "none"
  /\ phase' = "done"
  /\ response' = Decided(residuals)
  /\ UNCHANGED <<query, residuals, store, rounds, toLoad>>

\* batchedAuthorizeLoop: a decision, or no rounds left, ends the loop.
Return ==
  /\ phase = "check"
  /\ Decided(residuals) # "none" \/ rounds = 0
  /\ phase' = "done"
  /\ response' = Decided(residuals)
  /\ UNCHANGED <<query, residuals, store, rounds, toLoad>>

\* Mutant: uids that are loaded already are asked for again.
AskForAll ==
  /\ phase = "check"
  /\ Decided(residuals) = "none" /\ rounds > 0
  /\ toLoad' = UNION {LiteralUIDs(residuals[p]) : p \in PolicyIds}
  /\ rounds' = rounds - 1
  /\ phase' = "loading"
  /\ UNCHANGED <<query, residuals, store, response>>

\* Ask the loader for the uids in the residuals that are not loaded yet.
AskLoader ==
  /\ phase = "check"
  /\ Decided(residuals) = "none" /\ rounds > 0
  /\ toLoad' = (UNION {LiteralUIDs(residuals[p]) : p \in PolicyIds}) \ DOMAIN store
  /\ rounds' = rounds - 1
  /\ phase' = "loading"
  /\ UNCHANGED <<query, residuals, store, response>>

\* Mutant: the new entities replace the earlier ones.
LoaderReplaces(extra) ==
  LET newStore == Loaded(backing, toLoad \cup extra \cup ActionUids)
  IN  /\ phase = "loading"
      /\ store' = newStore
      /\ residuals' = EvaluateAll(residuals, newStore)
      /\ toLoad' = {}
      /\ phase' = "check"
      /\ UNCHANGED <<query, rounds, response>>

\* The loader answers what it was asked, and perhaps more; its answer goes
\* over what was loaded before, and every residual is evaluated again.
LoaderAnswers(extra) ==
  LET newStore == Over(Loaded(backing, toLoad \cup extra), store)
  IN  /\ phase = "loading"
      /\ store' = newStore
      /\ residuals' = EvaluateAll(residuals, newStore)
      /\ toLoad' = {}
      /\ phase' = "check"
      /\ UNCHANGED <<query, rounds, response>>

Next == Start \/ Return \/ AskLoader \/ \E extra \in SUBSET Uids : LoaderAnswers(extra)

\* The computation runs to its end: the loader is a total function.
Spec == Init /\ [][Next]_vars /\ WF_vars(Next)

-----------------------------------------------------------------------------
TruthOf(q) == IsAuthorized(Effect, [p \in PolicyIds |-> Outcome(q[1][p], q[2], q[3])]).decision

\* The loop runs on a request and policies that passed validation, and the
\* rounds never go below zero (BatchedEvaluator.lean:87-105 and 119-125).
TypeOK ==
  /\ policies \in Programs /\ request \in Requests /\ backing \in Backings
  /\ phase \in {"call", "check", "loading", "done", "failed"}
  /\ phase \in {"check", "loading", "done"} =>
       Valid(query) /\ residuals \in [PolicyIds -> Residuals]
  /\ DOMAIN store \in SUBSET Uids
  /\ rounds \in 0..Iters
  /\ toLoad \in SUBSET Uids
  /\ response \in Decisions \cup {"pending", "none", "error"}

\* What is loaded is what the backing store says, missing entities
\* included, however answers overlap and override each other
\* (BatchedEvaluator.lean:100-101).
StoreRefines == ActionUids \subseteq DOMAIN store /\ store = Loaded(backing, DOMAIN store)

\* Rounds of partial evaluation, each on the residuals of the one before
\* and on a larger store, never change what a policy means
\* (BatchedEvaluator.lean:103-104).
MeaningPreserved ==
  phase # "failed" =>
  \A p \in PolicyIds : Outcome(residuals[p], request, backing) = Outcome(policies[p], request, backing)

\* The decision that comes back is the concrete authorizer's
\* (BatchedEvaluator.lean:93-95 against Spec/Authorizer.lean:56-62).
DecisionSound == phase = "done" /\ response # "none" => response = TruthOf(query)

\* The loop asks only for what it does not have, and always for something:
\* a round is never wasted (BatchedEvaluator.lean:99).
RoundsMakeProgress == phase = "loading" => toLoad # {} /\ toLoad \cap DOMAIN store = {}

\* Convergence, which the repository states as unproven
\* (Thm/BatchedEvaluator/Common.lean:21-24): as many rounds as there are
\* entities the schema does not declare are always enough for a decision.
EnoughRounds == Iters >= Cardinality(Uids \ ActionUids)
Converges == EnoughRounds /\ phase = "done" => response # "none"

\* What was loaded is never forgotten and never changes.
StoreOnlyGrows == [][/\ DOMAIN store \subseteq DOMAIN store'
                     /\ \A u \in DOMAIN store : store'[u] = store[u]]_store

\* Batched authorization keeps the promise of the concrete authorizer.
Promise == INSTANCE AuthorizationPromise
             WITH Queries <- Programs \X Requests \X Backings,
                  Truth <- TruthOf,
                  MayGiveUp <- ~EnoughRounds,
                  answer <- response
KeepsPromise == Promise!Spec

=============================================================================
