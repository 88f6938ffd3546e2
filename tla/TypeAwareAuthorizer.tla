------------------------ MODULE TypeAwareAuthorizer ------------------------
(***************************************************************************)
(* Authorization under partial knowledge (TPE/Authorizer.lean): a caller   *)
(* who knows only part of a request and of the entities asks for a         *)
(* decision, learns more, asks again, and can at any time finish the last  *)
(* answer with the complete inputs (Response.reauthorize).                 *)
(* What is learned, and in which order, is the caller's choice.            *)
(*                                                                         *)
(* The evaluators are parameters: what they must satisfy is assumed, by    *)
(* name, and TLC checks the assumptions for those of PartialEvaluator and  *)
(* CedarEvaluator.                                                         *)
(***************************************************************************)
EXTENDS Authorizer

CONSTANTS
  Effect,     \* policy id |-> "permit" or "forbid"
  Policies,   \* policies that pass the type checker
  Programs,   \* the sets of them considered: id |-> policy
  Requests,   \* complete requests
  Stores,     \* complete entity stores
  Lessons,    \* the sets of components of an entity learned together
  ActionUids, ActionData(_),   \* the actions, and what the schema says of each
  AsKnown(_), Unknown,           \* a part of the inputs that is known, or not
  Closed(_, _),                \* request, store: no entity they mention is missing
  PartialEvaluate(_, _, _),    \* policy, partial request, partial store: a residual
  Outcome(_, _, _),            \* policy or residual, request, store: an outcome
  Class(_)                     \* residual: an outcome, or "residual"

Components == {"attrs", "ancestors", "tags"}

-----------------------------------------------------------------------------
(* Partial inputs: those of a request q with the variables of vs known, and *)
(* of a store with the components learned[u] of each entity u known.        *)
PartialRequest(q, vs) == [v \in DOMAIN q |-> IF v \in vs THEN AsKnown(q[v]) ELSE Unknown]
PartialStore(es, learned) ==
  [u \in DOMAIN learned |-> [f \in Components |-> IF f \in learned[u] THEN AsKnown(es[u][f]) ELSE Unknown]]

\* What a caller may know: the action is never unknown, the schema says all
\* of the actions, and a partial store never speaks of an entity the complete
\* store does not have.
KnownVariables(q) == {vs \in SUBSET DOMAIN q : "action" \in vs}
LearnedParts == {UNION parts : parts \in (SUBSET Lessons) \ {{}}} \cup {Components}
Learnings(es) ==
  {l \in UNION {[us -> LearnedParts] : us \in SUBSET DOMAIN es} :
     \A u \in ActionUids : u \in DOMAIN l /\ l[u] = Components}
Learned(l, u) == IF u \in DOMAIN l THEN l[u] ELSE {}
Adding(l, u, parts) ==
  [w \in DOMAIN l \cup {u} |-> IF w = u THEN Learned(l, u) \cup parts ELSE l[w]]

ASSUME LessonsAreComponents == Lessons \subseteq SUBSET Components

ASSUME ProgramTypes == \A pols \in Programs : \A p \in DOMAIN pols : pols[p] \in Policies

\* Every store is an instance of the schema.
ASSUME ActionsAgree ==
  \A es \in Stores, u \in ActionUids :
    u \in DOMAIN es /\ ActionData(u) = [f \in Components |-> AsKnown(es[u][f])]

\* Requests have an action, and every policy evaluates to a Boolean or an error.
ASSUME PoliciesAreBoolean ==
  \A q \in Requests :
    "action" \in DOMAIN q /\ \A es \in Stores, x \in Policies : Outcome(x, q, es) \in Outcomes

\* A residual means on the complete inputs what its policy does, and says so
\* when nothing of it is left to evaluate (Thm/TPE/Soundness.lean:59-76).
ASSUME EvaluationSound ==
  \A q \in Requests, es \in Stores : \A vs \in KnownVariables(q), l \in Learnings(es) :
    LET pq == PartialRequest(q, vs)
        pe == PartialStore(es, l)
    IN  \A x \in Policies :
          LET r == PartialEvaluate(x, pq, pe)
          IN  /\ Outcome(r, q, es) = Outcome(x, q, es)
              /\ Class(r) \in Classes
              /\ Class(r) # "residual" => Outcome(r, q, es) = Class(r)

\* What is settled on some knowledge is settled on one variable or lesson more.
ASSUME SettledStays ==
  \A q \in Requests, es \in Stores : \A vs \in KnownVariables(q), l \in Learnings(es) :
    LET pq == PartialRequest(q, vs)
        pe == PartialStore(es, l)
        settled == {x \in Policies : Class(PartialEvaluate(x, pq, pe)) # "residual"}
    IN  /\ \A v \in DOMAIN q \ vs :
             LET more == PartialRequest(q, vs \cup {v})
             IN  \A x \in settled : Class(PartialEvaluate(x, more, pe)) # "residual"
        /\ \A u \in DOMAIN es : \A parts \in {ps \in Lessons : Adding(l, u, ps) # l} :
             LET more == PartialStore(es, Adding(l, u, parts))
             IN  \A x \in settled : Class(PartialEvaluate(x, pq, more)) # "residual"

\* With everything known, and no entity missing, nothing is left to evaluate.
ASSUME FullKnowledgeEvaluates ==
  \A q \in Requests, es \in Stores : Closed(q, es) =>
    LET pe == PartialStore(es, [u \in DOMAIN es |-> Components])
    IN  \A x \in Policies : Class(PartialEvaluate(x, PartialRequest(q, DOMAIN q), pe)) # "residual"

-----------------------------------------------------------------------------
VARIABLES policies, request, entities,  \* the query, with what is really the case
          knownRequest, knownEntities,    \* what the caller knows of them
          response                        \* the answer to the last question

vars == <<policies, request, entities, knownRequest, knownEntities, response>>

\* TPE.isAuthorized: partially evaluate every policy, then decide.
PartiallyAuthorize(pq, pe) ==
  LET residuals == [p \in DOMAIN policies |-> PartialEvaluate(policies[p], pq, pe)]
  IN  [residuals |-> residuals,
       sets |-> FromResiduals(Effect, [p \in DOMAIN policies |-> Class(residuals[p])])]

\* Mutant: only what is left to evaluate is looked at again.
ReauthorizeLeftovers(resp) ==
  IsAuthorized(Effect, [p \in {x \in DOMAIN resp.residuals : Class(resp.residuals[x]) = "residual"} |->
                          Outcome(resp.residuals[p], request, entities)])

\* Response.reauthorize on the complete request and entities.
Reauthorize(resp) ==
  IsAuthorized(Effect, [p \in DOMAIN resp.residuals |-> Outcome(resp.residuals[p], request, entities)])

KnownActions == [u \in ActionUids |-> ActionData(u)]

-----------------------------------------------------------------------------
Init ==
  /\ policies \in Programs /\ request \in Requests /\ entities \in Stores
  /\ knownRequest = PartialRequest(request, {"action"})
  /\ knownEntities = KnownActions
  /\ response = PartiallyAuthorize(knownRequest, knownEntities)

AskAgain ==
  /\ response' = PartiallyAuthorize(knownRequest', knownEntities')
  /\ UNCHANGED <<policies, request, entities>>

\* The caller learns the value of a variable of the request.
LearnVariable(v) ==
  /\ knownRequest[v] = Unknown
  /\ knownRequest' = [knownRequest EXCEPT ![v] = AsKnown(request[v])]
  /\ UNCHANGED knownEntities
  /\ AskAgain

\* Mutant: what was known of other entities is forgotten.
LearnOnlyEntity(u, parts) ==
  /\ knownEntities' = [w \in ActionUids \cup {u} |->
                         IF w # u THEN knownEntities[w]
                         ELSE [f \in Components |-> IF f \in parts THEN AsKnown(entities[u][f]) ELSE Unknown]]
  /\ UNCHANGED knownRequest
  /\ AskAgain

\* The caller learns some components of an entity that exists: a partial
\* store never speaks of an entity the complete store does not have.
LearnEntity(u, parts) ==
  LET known == IF u \in DOMAIN knownEntities THEN knownEntities[u] ELSE [f \in Components |-> Unknown]
  IN  /\ \A f \in parts : known[f] = Unknown
      /\ knownEntities' = [w \in DOMAIN knownEntities \cup {u} |->
                   IF w # u THEN knownEntities[w]
                   ELSE [f \in Components |-> IF f \in parts THEN AsKnown(entities[u][f]) ELSE known[f]]]
      /\ UNCHANGED knownRequest
      /\ AskAgain

Next == \/ \E v \in DOMAIN knownRequest : LearnVariable(v)
        \/ \E u \in DOMAIN entities, parts \in Lessons : LearnEntity(u, parts)

Spec == Init /\ [][Next]_vars

-----------------------------------------------------------------------------
Truth == IsAuthorized(Effect, [p \in DOMAIN policies |-> Outcome(policies[p], request, entities)])

\* What the caller holds for known is what is the case, and is all that the
\* answer was computed from.
KnowledgeTrue ==
  \E vs \in KnownVariables(request), l \in Learnings(entities) :
    knownRequest = PartialRequest(request, vs) /\ knownEntities = PartialStore(entities, l)
TypeOK ==
  /\ policies \in Programs /\ request \in Requests /\ entities \in Stores
  /\ KnowledgeTrue
  /\ response = PartiallyAuthorize(knownRequest, knownEntities)

\* A decision taken on partial knowledge is the decision the complete
\* request and entities lead to (TPE/Authorizer.lean:97-114 against
\* Spec/Authorizer.lean:56-62).
DecisionSound == response.sets.decision \in Decisions => response.sets.decision = Truth.decision

\* Finishing a partial answer with the complete inputs gives the same
\* decision, determining policies and erroring policies as authorizing the
\* original policies: nothing partial evaluation drops or short-circuits
\* hides an error or invents one.
ReauthorizeAgrees == Reauthorize(response) = Truth

\* Learning more never takes back what was settled: a policy once known to
\* be satisfied, false or failing stays so, and so does a decision.
KnowledgeOnlySettles ==
  [][/\ \A f \in {"satisfiedPermits", "falsePermits", "errorPermits",
                  "satisfiedForbids", "falseForbids", "errorForbids"} :
          response.sets[f] \subseteq response'.sets[f]
     /\ response.sets.decision \in Decisions => response'.sets.decision = response.sets.decision]_vars

\* With the whole request and a complete store known, nothing is left over:
\* every policy is settled, and a decision taken.
KnowsAll == /\ \A v \in DOMAIN knownRequest : knownRequest[v] # Unknown
            /\ \A u \in DOMAIN entities : u \in DOMAIN knownEntities /\ \A f \in Components : knownEntities[u][f] # Unknown
FullKnowledgeSettles == KnowsAll /\ Closed(request, entities) =>
  /\ \A p \in DOMAIN policies : Class(response.residuals[p]) # "residual"
  /\ response.sets.decision \in Decisions

=============================================================================
