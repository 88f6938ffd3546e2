------------------------ MODULE Specification_proofs ------------------------
(***************************************************************************)
(* The theorems of TypeAwareAuthorizer, PolicyTemplates and EntitySlicing, *)
(* for every schema, set of policies and templates, request and store,     *)
(* from the assumptions those modules name.                                *)
(***************************************************************************)
EXTENDS TypeAwareAuthorizer, PolicyTemplates, EntitySlicing, Authorization_lemmas, SequenceTheorems,
        WellFoundedInduction

-----------------------------------------------------------------------------
(* TypeAwareAuthorizer.  TypeOK is inductive: what the caller knows is part *)
(* of what is the case, and the answer was computed from it.  The           *)
(* properties follow.                                                       *)

-----------------------------------------------------------------------------
(* Knowledge *)

\* Knowing one variable more.
LEMMA LearnedVariable ==
  ASSUME NEW q, NEW vs \in KnownVariables(q), NEW v \in DOMAIN q
  PROVE  /\ vs \cup {v} \in KnownVariables(q)
         /\ [PartialRequest(q, vs) EXCEPT ![v] = AsKnown(q[v])] = PartialRequest(q, vs \cup {v})
BY DEF KnownVariables, PartialRequest

\* Knowing one lesson more.
LEMMA LearnedLesson ==
  ASSUME NEW es, NEW l \in Learnings(es), NEW u \in DOMAIN es, NEW parts \in Lessons
  PROVE  Adding(l, u, parts) \in Learnings(es)
<1> DEFINE new == Adding(l, u, parts)
<1>1. PICK us \in SUBSET DOMAIN es : l \in [us -> LearnedParts]
  BY DEF Learnings
<1>2. \A c \in LearnedParts : c \cup parts \in LearnedParts
  <2> SUFFICES ASSUME NEW c \in LearnedParts PROVE c \cup parts \in LearnedParts
    OBVIOUS
  <2>1. CASE c = Components
    BY <2>1, LessonsAreComponents DEF LearnedParts
  <2>2. CASE c # Components
    <3>1. PICK cs \in (SUBSET Lessons) \ {{}} : c = UNION cs
      BY <2>2 DEF LearnedParts
    <3>2. c \cup parts = UNION (cs \cup {parts}) /\ cs \cup {parts} \in (SUBSET Lessons) \ {{}}
      BY <3>1
    <3> QED
      BY <3>2 DEF LearnedParts
  <2> QED
    BY <2>1, <2>2
<1>3. parts \in LearnedParts
  <2>1. parts = UNION {parts} /\ {parts} \in (SUBSET Lessons) \ {{}}
    OBVIOUS
  <2> QED
    BY <2>1 DEF LearnedParts
<1>4. DOMAIN new = us \cup {u} /\ us \cup {u} \in SUBSET DOMAIN es
  BY <1>1 DEF Adding
<1>5. \A w \in us \cup {u} : new[w] \in LearnedParts
  <2> SUFFICES ASSUME NEW w \in us \cup {u} PROVE new[w] \in LearnedParts
    OBVIOUS
  <2>1. CASE w # u
    BY <1>1, <2>1 DEF Adding
  <2>2. CASE w = u /\ u \in us
    <3>1. new[w] = l[u] \cup parts /\ l[u] \in LearnedParts
      BY <1>1, <2>2 DEF Adding, Learned
    <3> QED
      BY <3>1, <1>2
  <2>3. CASE w = u /\ u \notin us
    BY <1>1, <1>3, <2>3 DEF Adding, Learned
  <2> QED
    BY <2>1, <2>2, <2>3
<1>6. new \in [us \cup {u} -> LearnedParts]
  BY <1>1, <1>5 DEF Adding
<1>7. \A w \in ActionUids : w \in DOMAIN new /\ new[w] = Components
  <2> SUFFICES ASSUME NEW w \in ActionUids PROVE w \in DOMAIN new /\ new[w] = Components
    OBVIOUS
  <2>1. w \in DOMAIN l /\ l[w] = Components
    BY DEF Learnings
  <2> QED
    BY <2>1, LessonsAreComponents DEF Adding, Learned
<1> QED
  BY <1>4, <1>6, <1>7 DEF Learnings

\* What LearnEntity makes of a partial store.
Known(pe, u) == IF u \in DOMAIN pe THEN pe[u] ELSE [f \in Components |-> Unknown]
WithLesson(pe, es, u, parts) ==
  [w \in DOMAIN pe \cup {u} |->
     IF w # u THEN pe[w]
     ELSE [f \in Components |-> IF f \in parts THEN AsKnown(es[u][f]) ELSE Known(pe, u)[f]]]

\* It is the partial store of the knowledge it adds to.
LEMMA LearnedEntity ==
  ASSUME NEW es, NEW l \in Learnings(es), NEW u \in DOMAIN es, NEW parts \in Lessons
  PROVE  WithLesson(PartialStore(es, l), es, u, parts) = PartialStore(es, Adding(l, u, parts))
<1> DEFINE more == Adding(l, u, parts)
           pe   == PartialStore(es, l)
           new  == WithLesson(pe, es, u, parts)
<1>1. DOMAIN more = DOMAIN l \cup {u} /\ DOMAIN new = DOMAIN l \cup {u}
  BY DEF Adding, WithLesson, PartialStore
<1>2. \A f \in Components : Known(pe, u)[f] = IF f \in Learned(l, u) THEN AsKnown(es[u][f]) ELSE Unknown
  BY DEF PartialStore, Learned, Known
<1>3. ASSUME NEW w \in DOMAIN l \cup {u}
      PROVE  new[w] = [f \in Components |-> IF f \in more[w] THEN AsKnown(es[w][f]) ELSE Unknown]
  <2>1. CASE w # u
    <3>1. more[w] = l[w] /\ w \in DOMAIN l
      BY <1>3, <2>1 DEF Adding
    <3>2. new[w] = pe[w]
      BY <2>1, <3>1 DEF WithLesson, PartialStore
    <3> QED
      BY <3>1, <3>2 DEF PartialStore
  <2>2. CASE w = u
    <3>1. more[w] = Learned(l, u) \cup parts
      BY <2>2 DEF Adding
    <3>2. new[w] = [f \in Components |-> IF f \in parts THEN AsKnown(es[u][f]) ELSE Known(pe, u)[f]]
      BY <2>2 DEF WithLesson
    <3> QED
      BY <1>2, <2>2, <3>1, <3>2
  <2> QED
    BY <2>1, <2>2
<1>4. new = [w \in DOMAIN new |-> new[w]]
  BY DEF WithLesson
<1> HIDE DEF new, more
<1>5. new = [w \in DOMAIN more |-> [f \in Components |-> IF f \in more[w] THEN AsKnown(es[w][f]) ELSE Unknown]]
  BY <1>1, <1>3, <1>4
<1> QED
  BY <1>5 DEF PartialStore, new, more

\* What the schema says of the actions is known from the start.
LEMMA ActionsKnown ==
  ASSUME NEW es \in Stores
  PROVE  \E l \in Learnings(es) : KnownActions = PartialStore(es, l)
<1> DEFINE l == [u \in ActionUids |-> Components]
<1>1. l \in Learnings(es)
  BY ActionsAgree DEF Learnings, LearnedParts
<1>2. KnownActions = PartialStore(es, l)
  BY ActionsAgree DEF KnownActions, PartialStore
<1> QED
  BY <1>1, <1>2

\* Knowing everything is knowing every variable and every component.
LEMMA EverythingKnown ==
  ASSUME NEW q, NEW es, NEW vs \in KnownVariables(q), NEW l \in Learnings(es),
         \A v \in DOMAIN q : PartialRequest(q, vs)[v] # Unknown,
         \A u \in DOMAIN es : u \in DOMAIN l /\ \A f \in Components : PartialStore(es, l)[u][f] # Unknown
  PROVE  vs = DOMAIN q /\ l = [u \in DOMAIN es |-> Components]
<1>1. vs = DOMAIN q
  BY DEF KnownVariables, PartialRequest
<1>2. PICK us \in SUBSET DOMAIN es : l \in [us -> LearnedParts]
  BY DEF Learnings
<1>3. \A c \in LearnedParts : c \subseteq Components
  BY LessonsAreComponents DEF LearnedParts
<1>4. \A u \in DOMAIN es : Components \subseteq l[u]
  BY DEF PartialStore
<1>5. us = DOMAIN es /\ \A u \in us : l[u] = Components
  BY <1>2, <1>3, <1>4
<1> QED
  BY <1>1, <1>2, <1>5

-----------------------------------------------------------------------------
(* The invariant *)

LEMMA InitTypeOK == Init => TypeOK
<1> SUFFICES ASSUME Init PROVE TypeOK
  OBVIOUS
<1>1. {"action"} \in KnownVariables(request)
  BY PoliciesAreBoolean DEF Init, KnownVariables
<1>2. PICK l \in Learnings(entities) : knownEntities = PartialStore(entities, l)
  BY ActionsKnown DEF Init
<1> QED
  BY <1>1, <1>2 DEF Init, TypeOK, KnowledgeTrue

\* What a step makes known, with the knowledge before it.
LEMMA StepLearns ==
  ASSUME TypeOK, Next
  PROVE  /\ UNCHANGED <<policies, request, entities>>
         /\ response' = PartiallyAuthorize(knownRequest', knownEntities')
         /\ \E vs \in KnownVariables(request), l \in Learnings(entities) :
              /\ knownRequest = PartialRequest(request, vs) /\ knownEntities = PartialStore(entities, l)
              /\ \/ \E v \in DOMAIN request :
                      /\ vs \cup {v} \in KnownVariables(request)
                      /\ knownRequest' = PartialRequest(request, vs \cup {v})
                      /\ knownEntities' = PartialStore(entities, l)
                 \/ \E u \in DOMAIN entities, parts \in Lessons :
                      /\ Adding(l, u, parts) \in Learnings(entities)
                      /\ knownRequest' = PartialRequest(request, vs)
                      /\ knownEntities' = PartialStore(entities, Adding(l, u, parts))
<1>1. PICK vs \in KnownVariables(request), l \in Learnings(entities) :
        knownRequest = PartialRequest(request, vs) /\ knownEntities = PartialStore(entities, l)
  BY DEF TypeOK, KnowledgeTrue
<1>2. /\ UNCHANGED <<policies, request, entities>>
      /\ response' = PartiallyAuthorize(knownRequest', knownEntities')
  BY DEF Next, LearnVariable, LearnEntity, AskAgain
<1>3. ASSUME NEW v \in DOMAIN knownRequest, LearnVariable(v)
      PROVE  /\ v \in DOMAIN request /\ vs \cup {v} \in KnownVariables(request)
             /\ knownRequest' = PartialRequest(request, vs \cup {v})
             /\ knownEntities' = PartialStore(entities, l)
  <2>1. v \in DOMAIN request
    BY <1>1 DEF PartialRequest
  <2>2. /\ knownRequest' = [PartialRequest(request, vs) EXCEPT ![v] = AsKnown(request[v])]
        /\ knownEntities' = PartialStore(entities, l)
    BY <1>1, <1>3 DEF LearnVariable
  <2>3. /\ vs \cup {v} \in KnownVariables(request)
        /\ [PartialRequest(request, vs) EXCEPT ![v] = AsKnown(request[v])] = PartialRequest(request, vs \cup {v})
    <3>1. vs \in KnownVariables(request)
      BY <1>1
    <3> QED
      BY <2>1, <3>1, LearnedVariable
  <2> QED
    BY <2>1, <2>2, <2>3
<1>4. ASSUME NEW u \in DOMAIN entities, NEW parts \in Lessons, LearnEntity(u, parts)
      PROVE  /\ Adding(l, u, parts) \in Learnings(entities)
             /\ knownRequest' = PartialRequest(request, vs)
             /\ knownEntities' = PartialStore(entities, Adding(l, u, parts))
  <2>1. l \in Learnings(entities)
    BY <1>1
  <2>2. /\ knownEntities' = WithLesson(PartialStore(entities, l), entities, u, parts)
        /\ knownRequest' = PartialRequest(request, vs)
    BY <1>1, <1>4 DEF LearnEntity, WithLesson, Known
  <2>3. knownEntities' = PartialStore(entities, Adding(l, u, parts))
    BY <2>1, <2>2, LearnedEntity
  <2> QED
    BY <2>1, <2>2, <2>3, LearnedLesson
<1> QED
  BY <1>1, <1>2, <1>3, <1>4 DEF Next

LEMMA NextTypeOK == TypeOK /\ [Next]_vars => TypeOK'
<1> SUFFICES ASSUME TypeOK, [Next]_vars PROVE TypeOK'
  OBVIOUS
<1>1. CASE Next
  <2>1. KnowledgeTrue'
    BY <1>1, StepLearns DEF KnowledgeTrue
  <2> QED
    BY <1>1, <2>1, StepLearns DEF TypeOK, PartiallyAuthorize
<1>2. CASE UNCHANGED vars
  BY <1>2 DEF vars, TypeOK, KnowledgeTrue, PartiallyAuthorize
<1> QED
  BY <1>1, <1>2

\* The caller's knowledge is part of what is the case, in every order of
\* learning, and every answer is one to the knowledge at its time.
THEOREM KnowledgeIsTrue == Spec => []TypeOK
BY InitTypeOK, NextTypeOK, PTL DEF Spec

-----------------------------------------------------------------------------
(* What an answer says *)

\* Every residual of the answer means what its policy does.
ResidualsTrue ==
  /\ DOMAIN response.residuals = DOMAIN policies
  /\ response.sets = FromResiduals(Effect, [p \in DOMAIN policies |-> Class(response.residuals[p])])
  /\ \A p \in DOMAIN policies :
       /\ Outcome(response.residuals[p], request, entities) = Outcome(policies[p], request, entities)
       /\ Outcome(policies[p], request, entities) \in Outcomes
       /\ Class(response.residuals[p]) \in Classes
       /\ Class(response.residuals[p]) # "residual" =>
            Class(response.residuals[p]) = Outcome(policies[p], request, entities)

LEMMA ResidualsRight == TypeOK => ResidualsTrue
<1> SUFFICES ASSUME TypeOK PROVE ResidualsTrue
  OBVIOUS
<1>1. PICK vs \in KnownVariables(request), l \in Learnings(entities) :
        knownRequest = PartialRequest(request, vs) /\ knownEntities = PartialStore(entities, l)
  BY DEF TypeOK, KnowledgeTrue
<1>2. /\ request \in Requests /\ entities \in Stores
      /\ \A p \in DOMAIN policies : policies[p] \in Policies
  BY ProgramTypes DEF TypeOK
<1>3. response = PartiallyAuthorize(knownRequest, knownEntities)
  BY DEF TypeOK
<1>4. /\ DOMAIN response.residuals = DOMAIN policies
      /\ \A p \in DOMAIN policies :
           response.residuals[p] = PartialEvaluate(policies[p], knownRequest, knownEntities)
      /\ response.sets = FromResiduals(Effect, [p \in DOMAIN policies |-> Class(response.residuals[p])])
  BY <1>3 DEF PartiallyAuthorize
<1>5. ASSUME NEW p \in DOMAIN policies
      PROVE  /\ Outcome(response.residuals[p], request, entities) = Outcome(policies[p], request, entities)
             /\ Outcome(policies[p], request, entities) \in Outcomes
             /\ Class(response.residuals[p]) \in Classes
             /\ Class(response.residuals[p]) # "residual" =>
                  Class(response.residuals[p]) = Outcome(policies[p], request, entities)
  <2>1. response.residuals[p] =
          PartialEvaluate(policies[p], PartialRequest(request, vs), PartialStore(entities, l))
    BY <1>1, <1>4
  <2>2. policies[p] \in Policies
    BY <1>2
  <2> QED
    BY <1>2, <2>1, <2>2, EvaluationSound, PoliciesAreBoolean
<1> QED
  BY <1>4, <1>5 DEF ResidualsTrue

\* What the caller is told from partial knowledge is final.
LEMMA DecisionIsTrue == TypeOK => DecisionSound
<1> SUFFICES ASSUME TypeOK, response.sets.decision \in Decisions
             PROVE  response.sets.decision = Truth.decision
  BY DEF DecisionSound
<1> DEFINE class == [p \in DOMAIN policies |-> Class(response.residuals[p])]
           outcome == [p \in DOMAIN policies |-> Outcome(policies[p], request, entities)]
<1>1. /\ class \in [DOMAIN policies -> Classes]
      /\ outcome \in [DOMAIN policies -> Outcomes]
      /\ \A p \in DOMAIN policies : class[p] # "residual" => outcome[p] = class[p]
  BY ResidualsRight DEF ResidualsTrue
<1>2. response.sets.decision = ResidualDecision(Effect, class)
  BY ResidualsRight DEF ResidualsTrue, FromResiduals
<1>3. Truth.decision = IsAuthorized(Effect, outcome).decision
  BY DEF Truth
<1> HIDE DEF class, outcome
<1> QED
  BY <1>1, <1>2, <1>3, EarlyDecisionIsFinal DEF Decisions

\* A decision given to a caller who knows only part of the inputs is the one
\* the complete inputs lead to.
THEOREM DecisionsAreSound == Spec => []DecisionSound
BY KnowledgeIsTrue, DecisionIsTrue, PTL

\* Reauthorizing gives what authorizing the original policies would, with
\* the same determining and erroring policies.
THEOREM ReauthorizationAgrees == Spec => []ReauthorizeAgrees
<1>1. TypeOK => ReauthorizeAgrees
  <2> SUFFICES ASSUME TypeOK PROVE Reauthorize(response) = Truth
    BY DEF ReauthorizeAgrees
  <2>1. [p \in DOMAIN response.residuals |-> Outcome(response.residuals[p], request, entities)]
          = [p \in DOMAIN policies |-> Outcome(policies[p], request, entities)]
    BY ResidualsRight DEF ResidualsTrue
  <2> QED
    BY <2>1 DEF Reauthorize, Truth
<1> QED
  BY <1>1, KnowledgeIsTrue, PTL

\* A caller who knows everything has a decision, and no residual.
THEOREM FullKnowledgeDecides == Spec => []FullKnowledgeSettles
<1>1. TypeOK => FullKnowledgeSettles
  <2> SUFFICES ASSUME TypeOK, KnowsAll, Closed(request, entities)
               PROVE  /\ \A p \in DOMAIN policies : Class(response.residuals[p]) # "residual"
                      /\ response.sets.decision \in Decisions
    BY DEF FullKnowledgeSettles
  <2>1. PICK vs \in KnownVariables(request), l \in Learnings(entities) :
          knownRequest = PartialRequest(request, vs) /\ knownEntities = PartialStore(entities, l)
    BY DEF TypeOK, KnowledgeTrue
  <2>2. vs = DOMAIN request /\ l = [u \in DOMAIN entities |-> Components]
    <3>1. \A v \in DOMAIN request : PartialRequest(request, vs)[v] # Unknown
      BY <2>1 DEF KnowsAll, PartialRequest
    <3>2. \A u \in DOMAIN entities :
            u \in DOMAIN l /\ \A f \in Components : PartialStore(entities, l)[u][f] # Unknown
      BY <2>1 DEF KnowsAll, PartialStore
    <3> QED
      BY <3>1, <3>2, EverythingKnown
  <2>3. /\ request \in Requests /\ entities \in Stores
        /\ \A p \in DOMAIN policies : policies[p] \in Policies
    BY ProgramTypes DEF TypeOK
  <2>4. \A p \in DOMAIN policies :
          response.residuals[p] = PartialEvaluate(policies[p], knownRequest, knownEntities)
    BY DEF TypeOK, PartiallyAuthorize
  <2>5. \A p \in DOMAIN policies : Class(response.residuals[p]) # "residual"
    BY <2>1, <2>2, <2>3, <2>4, FullKnowledgeEvaluates
  <2> DEFINE class == [p \in DOMAIN policies |-> Class(response.residuals[p])]
  <2>6. response.sets.decision = ResidualDecision(Effect, class)
    BY ResidualsRight DEF ResidualsTrue, FromResiduals
  <2>7. ResidualDecision(Effect, class) # "none"
    BY <2>5, UndecidedHasResidual
  <2>8. response.sets.decision \in Decisions
    BY <2>6, <2>7, ResidualDecisionType
  <2> QED
    BY <2>5, <2>8
<1> QED
  BY <1>1, KnowledgeIsTrue, PTL

-----------------------------------------------------------------------------
(* Learning more *)

\* What one more variable or lesson leaves settled.
LEMMA StepSettles ==
  ASSUME TypeOK, Next
  PROVE  \A p \in DOMAIN policies :
           Class(response.residuals[p]) # "residual" => Class(response'.residuals[p]) # "residual"
<1>1. PICK vs \in KnownVariables(request), l \in Learnings(entities) :
        /\ knownRequest = PartialRequest(request, vs) /\ knownEntities = PartialStore(entities, l)
        /\ \/ \E v \in DOMAIN request :
                /\ vs \cup {v} \in KnownVariables(request)
                /\ knownRequest' = PartialRequest(request, vs \cup {v})
                /\ knownEntities' = PartialStore(entities, l)
           \/ \E u \in DOMAIN entities, parts \in Lessons :
                /\ Adding(l, u, parts) \in Learnings(entities)
                /\ knownRequest' = PartialRequest(request, vs)
                /\ knownEntities' = PartialStore(entities, Adding(l, u, parts))
  BY StepLearns
<1>2. /\ request \in Requests /\ entities \in Stores
      /\ \A p \in DOMAIN policies : policies[p] \in Policies
      /\ vs \in KnownVariables(request) /\ l \in Learnings(entities)
  BY <1>1, ProgramTypes DEF TypeOK
<1>3. \A p \in DOMAIN policies :
        /\ response.residuals[p] = PartialEvaluate(policies[p], knownRequest, knownEntities)
        /\ response'.residuals[p] = PartialEvaluate(policies[p], knownRequest', knownEntities')
  BY StepLearns DEF TypeOK, PartiallyAuthorize
<1>4. ASSUME NEW v \in DOMAIN request,
             knownRequest' = PartialRequest(request, vs \cup {v}),
             knownEntities' = PartialStore(entities, l),
             NEW p \in DOMAIN policies,
             Class(response.residuals[p]) # "residual"
      PROVE  Class(response'.residuals[p]) # "residual"
  <2>1. CASE v \in vs
    BY <1>1, <1>3, <1>4, <2>1
  <2>2. CASE v \notin vs
    <3>1. Class(PartialEvaluate(policies[p], PartialRequest(request, vs), PartialStore(entities, l))) # "residual"
      BY <1>1, <1>3, <1>4
    <3> QED
      BY <1>2, <1>3, <1>4, <2>2, <3>1, SettledStays
  <2> QED
    BY <2>1, <2>2
<1>5. ASSUME NEW u \in DOMAIN entities, NEW parts \in Lessons,
             knownRequest' = PartialRequest(request, vs),
             knownEntities' = PartialStore(entities, Adding(l, u, parts)),
             NEW p \in DOMAIN policies,
             Class(response.residuals[p]) # "residual"
      PROVE  Class(response'.residuals[p]) # "residual"
  <2>1. CASE Adding(l, u, parts) = l
    BY <1>1, <1>3, <1>5, <2>1
  <2>2. CASE Adding(l, u, parts) # l
    <3>1. Class(PartialEvaluate(policies[p], PartialRequest(request, vs), PartialStore(entities, l))) # "residual"
      BY <1>1, <1>3, <1>5
    <3> QED
      BY <1>2, <1>3, <1>5, <2>2, <3>1, SettledStays
  <2> QED
    BY <2>1, <2>2
<1> QED
  BY <1>1, <1>4, <1>5

\* No set of settled policies loses one.
LEMMA SettledPoliciesStay ==
  ASSUME NEW P, NEW effect, NEW class, DOMAIN class = P, NEW later, DOMAIN later = P,
         \A p \in P : class[p] # "residual" => later[p] = class[p]
  PROVE  \A f \in {"satisfiedPermits", "falsePermits", "errorPermits",
                   "satisfiedForbids", "falseForbids", "errorForbids"} :
           FromResiduals(effect, class)[f] \subseteq FromResiduals(effect, later)[f]
<1>1. \A eff : \A r \in Outcomes : WithEffect(effect, eff, class, r) \subseteq WithEffect(effect, eff, later, r)
  BY DEF WithEffect, Outcomes
<1> QED
  BY <1>1 DEF FromResiduals, Outcomes

\* Whatever is learned, in whatever order, nothing the caller was told is
\* taken back: the settled policies stay settled the same way, and the
\* decision stays.
THEOREM LearningOnlySettles == Spec => KnowledgeOnlySettles
<1> DEFINE Settles ==
      /\ \A f \in {"satisfiedPermits", "falsePermits", "errorPermits",
                   "satisfiedForbids", "falseForbids", "errorForbids"} :
           response.sets[f] \subseteq response'.sets[f]
      /\ response.sets.decision \in Decisions => response'.sets.decision = response.sets.decision
<1>1. TypeOK' => ResidualsTrue' /\ DecisionSound'
  BY ResidualsRight, DecisionIsTrue, PTL
<1>2. TypeOK /\ Next => Settles
  <2> SUFFICES ASSUME TypeOK, Next PROVE Settles
    OBVIOUS
  <2> DEFINE class == [p \in DOMAIN policies |-> Class(response.residuals[p])]
             later == [p \in DOMAIN policies |-> Class(response'.residuals[p])]
  <2>1. TypeOK'
    BY NextTypeOK
  <2>2. UNCHANGED <<policies, request, entities>>
    BY StepLearns
  <2>3. ResidualsTrue /\ ResidualsTrue' /\ DecisionSound /\ DecisionSound'
    BY <1>1, <2>1, ResidualsRight, DecisionIsTrue
  <2>4. \A p \in DOMAIN policies : class[p] # "residual" => later[p] = class[p]
    BY <2>2, <2>3, StepSettles DEF ResidualsTrue
  <2>5. response.sets = FromResiduals(Effect, class) /\ response'.sets = FromResiduals(Effect, later)
    BY <2>2, <2>3 DEF ResidualsTrue
  <2>6. DOMAIN class = DOMAIN policies /\ DOMAIN later = DOMAIN policies
    OBVIOUS
  <2>7. \A p \in DOMAIN policies : class[p] \in Classes /\ later[p] \in Classes
    BY <2>2, <2>3 DEF ResidualsTrue
  <2>8. Truth' = Truth
    BY <2>2 DEF Truth
  <2> HIDE DEF class, later
  <2>9. \A f \in {"satisfiedPermits", "falsePermits", "errorPermits",
                  "satisfiedForbids", "falseForbids", "errorForbids"} :
          response.sets[f] \subseteq response'.sets[f]
    BY <2>4, <2>5, <2>6, SettledPoliciesStay
  <2>10. ASSUME ResidualDecision(Effect, class) # "none" PROVE ResidualDecision(Effect, later) # "none"
    <3>1. \A eff : \A r \in Outcomes : WithEffect(Effect, eff, class, r) \subseteq WithEffect(Effect, eff, later, r)
      BY <2>4, <2>6 DEF WithEffect, Outcomes
    <3>2. \A eff : WithEffect(Effect, eff, later, "residual") \subseteq WithEffect(Effect, eff, class, "residual")
      BY <2>4, <2>6, <2>7 DEF WithEffect
    <3>3. \A eff : WithEffect(Effect, eff, later, "true") \subseteq
                     WithEffect(Effect, eff, class, "true") \cup WithEffect(Effect, eff, class, "residual")
      BY <2>4, <2>6, <2>7 DEF WithEffect
    <3> QED
      BY <2>10, <3>1, <3>2, <3>3 DEF ResidualDecision, Outcomes
  <2>11. ASSUME response.sets.decision \in Decisions
         PROVE  response'.sets.decision = response.sets.decision
    <3>1. response.sets.decision = ResidualDecision(Effect, class) /\ response'.sets.decision = ResidualDecision(Effect, later)
      BY <2>5 DEF FromResiduals
    <3>2. response'.sets.decision \in Decisions
      BY <2>10, <2>11, <3>1, ResidualDecisionType DEF Decisions
    <3> QED
      BY <2>3, <2>8, <2>11, <3>2 DEF DecisionSound
  <2> QED
    BY <2>9, <2>11
<1>3. TypeOK /\ [Next]_vars => [Settles]_vars
  BY <1>2
<1> QED
  BY <1>3, KnowledgeIsTrue, PTL DEF Spec, KnowledgeOnlySettles

-----------------------------------------------------------------------------
(* PolicyTemplates.  Nodes are evaluated by their parts, so a scope comes   *)
(* to whether it suits the request and never fails; the conditions to the   *)
(* first that is not met, from the last up; the policy to what its template *)
(* says.  A policy outside the slice is one a scope of which does not suit. *)

\* What a node of a policy comes to on the request that was tried.
Of(x) == ResultOf(x, tried, triedStore)
Yes(b) == Ok(BoolV(b))
\* There is a request, on a store.
Asked == tried \in TemplateRequests /\ triedStore \in TemplateStores

\* Results and values are told apart by their fields.
LEMMA Results ==
  /\ \A v : IsOk(Ok(v)) /\ Ok(v).ok = v
  /\ \A e : ~IsOk(Err(e))
  /\ \A b : BoolV(b).t = "bool" /\ BoolV(b).b = b
  /\ \A u : UidV(u).t = "uid" /\ UidV(u).u = u
  /\ \A S : SetV(S).t = "set" /\ SetV(S).elts = S
BY DEF IsOk, Ok, Err, BoolV, UidV, SetV

\* Different contents make different results and values.
LEMMA Distinct ==
  /\ Yes(TRUE) # Yes(FALSE)
  /\ \A e, v : Err(e) # Ok(v)
  /\ \A v, w : Ok(v) = Ok(w) => v = w
  /\ \A u, w : UidV(u) = UidV(w) => u = w
  /\ \A S, b : SetV(S) # BoolV(b)
<1>1. \A v, w : Ok(v) = Ok(w) => v = w
  BY Results
<1>2. \A u, w : UidV(u) = UidV(w) => u = w
  BY Results
<1>3. Yes(TRUE) # Yes(FALSE)
  BY DEF Yes, Ok, BoolV
<1>4. \A e, v : Err(e) # Ok(v)
  BY Results
<1>5. \A S, b : SetV(S) # BoolV(b)
  BY Results
<1> QED BY <1>1, <1>2, <1>3, <1>4, <1>5

\* A yes or no is no failure.
LEMMA YesIs ==
  /\ IsOk(Yes(TRUE)) /\ Yes(TRUE).ok.t = "bool"
  /\ IsOk(Yes(FALSE)) /\ Yes(FALSE).ok.t = "bool"
BY DEF Yes, IsOk, Ok, BoolV

\* A node comes to what its parts make of it.
LEMMA LiteralNode ==
  ASSUME Asked, NEW x \in PolicyNodes, x.op = "val"
  PROVE  Of(x) = Ok(x.v)
BY NodesEvaluate DEF Asked, Of

LEMMA VariableNode ==
  ASSUME Asked, NEW v, Var(v) \in PolicyNodes
  PROVE  Of(Var(v)) = Ok(tried[v])
BY NodesEvaluate DEF Asked, Of, Var

LEMMA AndNode ==
  ASSUME Asked, NEW x, NEW y, AndX(x, y) \in PolicyNodes
  PROVE  /\ x \in PolicyNodes /\ y \in PolicyNodes
         /\ Of(AndX(x, y)) = AndR(Of(x), Of(y))
<1> DEFINE n == AndX(x, y)
<1>1. n.op = "and" /\ n.x = x /\ n.y = y
  BY DEF AndX
<1> HIDE DEF n
<1>2. n \in PolicyNodes
  BY DEF n
<1>3. n.x \in PolicyNodes /\ n.y \in PolicyNodes
  BY <1>1, <1>2, PartsAreNodes
<1>4. ResultOf(n, tried, triedStore) = AndR(ResultOf(n.x, tried, triedStore), ResultOf(n.y, tried, triedStore))
  BY <1>1, <1>2, NodesEvaluate DEF Asked
<1> QED
  BY <1>1, <1>3, <1>4 DEF Of, n

LEMMA UnaryNode ==
  ASSUME Asked, NEW n \in PolicyNodes, n.op = "unary"
  PROVE  n.x \in PolicyNodes /\ Of(n) = UnaryR(n.o, Of(n.x))
<1>1. n.x \in PolicyNodes
  BY PartsAreNodes
<1>2. ResultOf(n, tried, triedStore) = UnaryR(n.o, ResultOf(n.x, tried, triedStore))
  BY NodesEvaluate DEF Asked
<1> QED
  BY <1>1, <1>2 DEF Of

LEMMA BinaryNode ==
  ASSUME Asked, NEW n \in PolicyNodes, n.op = "binary"
  PROVE  n.x \in PolicyNodes /\ n.y \in PolicyNodes /\ Of(n) = BinaryR(n.o, Of(n.x), Of(n.y), triedStore)
<1>1. n.x \in PolicyNodes /\ n.y \in PolicyNodes
  BY PartsAreNodes
<1>2. ResultOf(n, tried, triedStore)
        = BinaryR(n.o, ResultOf(n.x, tried, triedStore), ResultOf(n.y, tried, triedStore), triedStore)
  BY NodesEvaluate DEF Asked
<1> QED
  BY <1>1, <1>2 DEF Of

LEMMA SetNode ==
  ASSUME Asked, NEW n \in PolicyNodes, n.op = "set"
  PROVE  /\ \A k \in DOMAIN n.xs : n.xs[k] \in PolicyNodes
         /\ Of(n) = SetR([k \in DOMAIN n.xs |-> Of(n.xs[k])])
<1>1. \A k \in DOMAIN n.xs : n.xs[k] \in PolicyNodes
  BY PartsAreNodes
<1>2. ResultOf(n, tried, triedStore) = SetR([k \in DOMAIN n.xs |-> ResultOf(n.xs[k], tried, triedStore)])
  BY NodesEvaluate DEF Asked
<1> QED
  BY <1>1, <1>2 DEF Of

\* A conjunction that starts with a yes or no.
LEMMA Conjoined ==
  ASSUME NEW b \in BOOLEAN
  PROVE  /\ AsBool(Yes(b)) = Yes(b)
         /\ \A r : AndR(Yes(b), r) = IF b THEN AsBool(r) ELSE Yes(FALSE)
<1>1. IsOk(Yes(b)) /\ Yes(b).ok = BoolV(b) /\ BoolV(b).t = "bool" /\ BoolV(b).b = b
  BY Results DEF Yes
<1>2. AsBool(Yes(b)) = Yes(b)
  BY <1>1 DEF AsBool, AsKind, Bind, Yes
<1>3. \A r : AndR(Yes(b), r) = IF b THEN AsBool(r) ELSE Yes(FALSE)
  BY <1>1, <1>2 DEF AndR, Bind, Yes
<1> QED
  BY <1>2, <1>3

LEMMA BothHold ==
  ASSUME NEW b \in BOOLEAN, NEW c \in BOOLEAN
  PROVE  AndR(Yes(b), Yes(c)) = Yes(b /\ c)
<1>1. AndR(Yes(b), Yes(c)) = IF b THEN AsBool(Yes(c)) ELSE Yes(FALSE)
  BY Conjoined
<1>2. AsBool(Yes(c)) = Yes(c)
  BY Conjoined
<1>3. CASE b
  BY <1>1, <1>2, <1>3
<1>4. CASE ~b
  BY <1>1, <1>4
<1> QED
  BY <1>3, <1>4

\* A linked scope suits an entity.
Suits(s, u) ==
  /\ s.c \in {"is", "isMem"} => u.ty = s.ety
  /\ s.c \in {"mem", "isMem"} => InE(u, s.of.uid, triedStore)
  /\ s.c = "eq" => u = s.of.uid

Variables == {"principal", "action", "resource"}

\* The variables of a scope are entities.
LEMMA VariableHas ==
  ASSUME Asked, NEW v \in Variables, Var(v) \in PolicyNodes
  PROVE  Of(Var(v)) = Ok(UidV(tried[v].u))
<1>1. tried[v] = UidV(tried[v].u)
  BY RequestsNameEntities DEF Asked, Variables
<1> QED
  BY <1>1, VariableNode

LEMMA UidHas ==
  ASSUME Asked, NEW u, Uid(u) \in PolicyNodes
  PROVE  Of(Uid(u)) = Ok(UidV(u))
<1>1. Uid(u).op = "val" /\ Uid(u).v = UidV(u)
  BY DEF Uid
<1> QED
  BY <1>1, LiteralNode

\* The parts of a scope come to a yes or no.
LEMMA IsHolds ==
  ASSUME Asked, NEW v \in Variables, NEW ety, IsX(v, ety) \in PolicyNodes
  PROVE  Of(IsX(v, ety)) = Yes(tried[v].u.ty = ety)
<1> DEFINE n == IsX(v, ety)
           w == UidV(tried[v].u)
<1>1. n.op = "unary" /\ n.x = Var(v) /\ n.o.op = "is" /\ n.o.ety = ety
  BY DEF IsX
<1>2. Var(v) \in PolicyNodes /\ Of(n) = UnaryR(n.o, Of(Var(v)))
  BY <1>1, UnaryNode
<1>3. Of(Var(v)) = Ok(w)
  BY <1>2, VariableHas
<1>4. UnaryR(n.o, Ok(w)) = Apply1(n.o, w)
  BY Results DEF UnaryR, Bind
<1>5. w.t = "uid" /\ w.u = tried[v].u
  BY Results
<1> HIDE DEF n, w
<1>6. Apply1(n.o, w) = Ok(BoolV(w.u.ty = n.o.ety))
  BY <1>1, <1>5 DEF Apply1
<1> QED
  BY <1>1, <1>2, <1>3, <1>4, <1>5, <1>6 DEF n, Yes

\* An operator between a variable and an entity.
LEMMA OnEntities ==
  ASSUME Asked, NEW v \in Variables, NEW u, NEW n \in PolicyNodes,
         n.op = "binary", n.x = Var(v), n.y = Uid(u)
  PROVE  Of(n) = Apply2(n.o, UidV(tried[v].u), UidV(u), triedStore)
<1>1. Var(v) \in PolicyNodes /\ Uid(u) \in PolicyNodes
  BY BinaryNode
<1>2. Of(n) = BinaryR(n.o, Of(Var(v)), Of(Uid(u)), triedStore)
  BY BinaryNode
<1>3. Of(Var(v)) = Ok(UidV(tried[v].u)) /\ Of(Uid(u)) = Ok(UidV(u))
  BY <1>1, VariableHas, UidHas
<1> QED
  BY <1>2, <1>3, Results DEF BinaryR, Bind

LEMMA EqHolds ==
  ASSUME Asked, NEW v \in Variables, NEW u, EqX(v, u) \in PolicyNodes
  PROVE  Of(EqX(v, u)) = Yes(tried[v].u = u)
<1> DEFINE n == EqX(v, u)
<1>1. n.op = "binary" /\ n.o = "eq" /\ n.x = Var(v) /\ n.y = Uid(u)
  BY DEF EqX
<1> HIDE DEF n
<1>2. Of(n) = Apply2("eq", UidV(tried[v].u), UidV(u), triedStore)
  BY <1>1, OnEntities DEF n
<1>3. Apply2("eq", UidV(tried[v].u), UidV(u), triedStore) = Ok(BoolV(UidV(tried[v].u) = UidV(u)))
  BY DEF Apply2
<1>4. (UidV(tried[v].u) = UidV(u)) = (tried[v].u = u)
  BY Distinct
<1> QED
  BY <1>2, <1>3, <1>4 DEF Yes, n

LEMMA InHolds ==
  ASSUME Asked, NEW v \in Variables, NEW u, InX(v, u) \in PolicyNodes
  PROVE  Of(InX(v, u)) = Yes(InE(tried[v].u, u, triedStore))
<1> DEFINE n == InX(v, u)
           x == UidV(tried[v].u)
           y == UidV(u)
<1>1. n.op = "binary" /\ n.o = "mem" /\ n.x = Var(v) /\ n.y = Uid(u)
  BY DEF InX
<1>2. x.t = "uid" /\ x.u = tried[v].u /\ y.t = "uid" /\ y.u = u
  BY Results
<1> HIDE DEF n
<1>3. Of(n) = Apply2("mem", x, y, triedStore)
  BY <1>1, OnEntities DEF n
<1> HIDE DEF x, y
<1>4. Apply2("mem", x, y, triedStore) = Ok(BoolV(InE(x.u, y.u, triedStore)))
  BY <1>2 DEF Apply2
<1> QED
  BY <1>2, <1>3, <1>4 DEF Yes, n

\* A scope comes to whether it suits the entity.
LEMMA ScopeHolds ==
  ASSUME Asked, NEW v \in Variables, NEW s, s.c \in {"any", "is", "eq", "mem", "isMem"},
         ScopeExpr(s, v) \in PolicyNodes
  PROVE  Of(ScopeExpr(s, v)) = Yes(Suits(s, tried[v].u))
<1>1. CASE s.c = "any"
  <2>1. ScopeExpr(s, v) = True
    BY <1>1 DEF ScopeExpr
  <2>2. True.op = "val" /\ True.v = BoolV(TRUE)
    BY DEF True
  <2>3. Of(True) = Yes(TRUE)
    BY <2>1, <2>2, LiteralNode DEF Yes
  <2>4. Suits(s, tried[v].u) = TRUE
    BY <1>1 DEF Suits
  <2> QED
    BY <2>1, <2>3, <2>4
<1>2. CASE s.c = "eq"
  <2>1. ScopeExpr(s, v) = EqX(v, s.of.uid)
    BY <1>2 DEF ScopeExpr
  <2>2. Suits(s, tried[v].u) = (tried[v].u = s.of.uid)
    BY <1>2 DEF Suits
  <2> QED
    BY <2>1, <2>2, EqHolds
<1>3. CASE s.c = "mem"
  <2>1. ScopeExpr(s, v) = InX(v, s.of.uid)
    BY <1>3 DEF ScopeExpr
  <2>2. Suits(s, tried[v].u) = InE(tried[v].u, s.of.uid, triedStore)
    BY <1>3 DEF Suits, InE
  <2> QED
    BY <2>1, <2>2, InHolds
<1>4. CASE s.c = "is"
  <2>1. ScopeExpr(s, v) = IsX(v, s.ety)
    BY <1>4 DEF ScopeExpr
  <2>2. Suits(s, tried[v].u) = (tried[v].u.ty = s.ety)
    BY <1>4 DEF Suits
  <2> QED
    BY <2>1, <2>2, IsHolds
<1>5. CASE s.c = "isMem"
  <2> DEFINE ofType == tried[v].u.ty = s.ety
             within == InE(tried[v].u, s.of.uid, triedStore)
  <2>1. ScopeExpr(s, v) = AndX(IsX(v, s.ety), InX(v, s.of.uid))
    BY <1>5 DEF ScopeExpr
  <2>2. Suits(s, tried[v].u) = (ofType /\ within)
    BY <1>5 DEF Suits
  <2>3. /\ IsX(v, s.ety) \in PolicyNodes /\ InX(v, s.of.uid) \in PolicyNodes
        /\ Of(ScopeExpr(s, v)) = AndR(Of(IsX(v, s.ety)), Of(InX(v, s.of.uid)))
    BY <2>1, AndNode
  <2>4. Of(IsX(v, s.ety)) = Yes(ofType) /\ Of(InX(v, s.of.uid)) = Yes(within)
    BY <2>3, IsHolds, InHolds
  <2>5. ofType \in BOOLEAN /\ within \in BOOLEAN
    BY DEF InE
  <2> HIDE DEF ofType, within
  <2>6. AndR(Yes(ofType), Yes(within)) = Yes(ofType /\ within)
    BY <2>5, BothHold
  <2> QED
    BY <2>2, <2>3, <2>4, <2>6
<1> QED
  BY <1>1, <1>2, <1>3, <1>4, <1>5

\* So does the scope of an action, with its list.
LEMMA ActionHolds ==
  ASSUME Asked, NEW scope, IsActionScope(scope), ActionExpr(scope) \in PolicyNodes
  PROVE  Of(ActionExpr(scope)) = Yes(ActionMeets(scope, tried.action.u))
<1> DEFINE u == tried["action"].u
<1>1. CASE scope.c = "inAny"
  <2> DEFINE n == ActionExpr(scope)
             es == [k \in DOMAIN scope.uids |-> Uid(scope.uids[k])]
             rs == [k \in DOMAIN scope.uids |-> Of(es[k])]
             vs == [k \in DOMAIN scope.uids |-> UidV(scope.uids[k])]
             all == {UidV(scope.uids[k]) : k \in DOMAIN scope.uids}
  <2>1. n.op = "binary" /\ n.o = "mem" /\ n.x = Var("action") /\ n.y.op = "set" /\ n.y.xs = es
    BY <1>1 DEF ActionExpr
  <2> HIDE DEF n
  <2>2. /\ Var("action") \in PolicyNodes /\ n.y \in PolicyNodes
        /\ Of(n) = BinaryR("mem", Of(Var("action")), Of(n.y), triedStore)
    BY <2>1, BinaryNode DEF n
  <2>3. (\A k \in DOMAIN es : es[k] \in PolicyNodes) /\ Of(n.y) = SetR([k \in DOMAIN es |-> Of(es[k])])
    BY <2>1, <2>2, SetNode
  <2>4. \A k \in DOMAIN scope.uids : Of(es[k]) = Ok(UidV(scope.uids[k]))
    BY <2>3, UidHas
  <2>5. DOMAIN rs = DOMAIN scope.uids /\ \A k \in DOMAIN rs : IsOk(rs[k]) /\ rs[k].ok = UidV(scope.uids[k])
    BY <2>4, Results
  <2>6. Of(n.y) = SetR(rs)
    BY <2>3
  <2> HIDE DEF rs, es
  <2>7. [k \in DOMAIN rs |-> rs[k].ok] = vs
    BY <2>5
  <2>8. MapM(rs) = Ok(vs)
    BY <2>5, <2>7 DEF MapM
  <2>9. SeqElements(vs) = all
    BY DEF SeqElements
  <2>10. SetR(rs) = Ok(SetV(all))
    BY <2>8, <2>9, Results DEF SetR, Bind
  <2>11. Of(Var("action")) = Ok(UidV(u))
    BY <2>2, VariableHas DEF Variables
  <2> HIDE DEF vs, all
  <2>12. BinaryR("mem", Ok(UidV(u)), Ok(SetV(all)), triedStore) = Apply2("mem", UidV(u), SetV(all), triedStore)
    BY Results DEF BinaryR, Bind
  <2>13. UidV(u).t = "uid" /\ UidV(u).u = u /\ SetV(all).t = "set" /\ SetV(all).elts = all
    BY Results
  <2>14. Apply2("mem", UidV(u), SetV(all), triedStore) = InS(u, all, triedStore)
    BY <2>13 DEF Apply2
  <2>15. /\ \A v \in all : v.t = "uid"
         /\ (\E v \in all : InE(u, v.u, triedStore)) = (\E k \in DOMAIN scope.uids : InE(u, scope.uids[k], triedStore))
    <3>1. \A k \in DOMAIN scope.uids : UidV(scope.uids[k]).t = "uid" /\ UidV(scope.uids[k]).u = scope.uids[k]
      BY Results
    <3>2. \A v \in all : \E k \in DOMAIN scope.uids : v = UidV(scope.uids[k])
      BY DEF all
    <3>3. \A k \in DOMAIN scope.uids : UidV(scope.uids[k]) \in all
      BY DEF all
    <3>4. ASSUME NEW v \in all, InE(u, v.u, triedStore)
          PROVE  \E k \in DOMAIN scope.uids : InE(u, scope.uids[k], triedStore)
      BY <3>1, <3>2, <3>4
    <3>5. ASSUME NEW k \in DOMAIN scope.uids, InE(u, scope.uids[k], triedStore)
          PROVE  \E v \in all : InE(u, v.u, triedStore)
      BY <3>1, <3>3, <3>5
    <3> QED
      BY <3>1, <3>2, <3>4, <3>5
  <2>16. InS(u, all, triedStore) = Yes(\E v \in all : InE(u, v.u, triedStore))
    BY <2>15 DEF InS, Yes
  <2>17. ActionMeets(scope, u) = \E k \in DOMAIN scope.uids : InE(u, scope.uids[k], triedStore)
    BY <1>1 DEF ActionMeets
  <2> QED
    BY <2>2, <2>6, <2>10, <2>11, <2>12, <2>14, <2>15, <2>16, <2>17 DEF n
<1>2. CASE scope.c # "inAny"
  <2>1. IsScope(scope) /\ (~Bare(scope) => ~IsSlot(scope.of))
    BY <1>2 DEF IsActionScope
  <2>2. ActionExpr(scope) = ScopeExpr(scope, "action")
    BY <1>2 DEF ActionExpr
  <2>3. Of(ActionExpr(scope)) = Yes(Suits(scope, u))
    BY <2>1, <2>2, ScopeHolds DEF Variables, IsScope
  <2>4. scope.c \in {"eq", "mem", "isMem"} => Named(scope.of, EmptyMap) = scope.of.uid
    BY <2>1 DEF Bare, Named
  <2>5. Meets(scope, EmptyMap, u) = Suits(scope, u)
    BY <2>4 DEF Meets, Suits
  <2> QED
    BY <1>2, <2>3, <2>5 DEF ActionMeets
<1> QED
  BY <1>1, <1>2

\* A scope, once it is linked, suits what its template says.
LEMMA LinkedScope ==
  ASSUME NEW scope, IsScope(scope), NEW slots, NEW u
  PROVE  /\ LinkScope(scope, slots).c = scope.c
         /\ Suits(LinkScope(scope, slots), u) = Meets(scope, slots, u)
<1> DEFINE s == LinkScope(scope, slots)
<1>1. CASE Bare(scope) \/ ~IsSlot(scope.of)
  <2>1. s = scope
    BY <1>1 DEF LinkScope
  <2>2. scope.c \in {"eq", "mem", "isMem"} => Named(scope.of, slots) = scope.of.uid
    BY <1>1 DEF Bare, Named
  <2> QED
    BY <2>1, <2>2 DEF Suits, Meets
<1>2. CASE ~Bare(scope) /\ IsSlot(scope.of)
  <2>1. s = [scope EXCEPT !.of = [uid |-> slots[scope.of.slot]]]
    BY <1>2 DEF LinkScope
  <2>2. "of" \in DOMAIN scope /\ "c" \in DOMAIN scope /\ (scope.c = "isMem" => "ety" \in DOMAIN scope) /\ scope.c # "is"
    BY <1>2 DEF IsScope, Bare
  <2>3. s.c = scope.c /\ s.of.uid = slots[scope.of.slot] /\ (scope.c = "isMem" => s.ety = scope.ety)
    BY <2>1, <2>2
  <2>4. Named(scope.of, slots) = s.of.uid
    BY <1>2, <2>3 DEF Named
  <2> HIDE DEF s
  <2>5. Suits(s, u) = Meets(scope, slots, u)
    BY <2>2, <2>3, <2>4 DEF Suits, Meets
  <2> QED
    BY <2>3, <2>5 DEF s
<1> QED
  BY <1>1, <1>2

-----------------------------------------------------------------------------
(* Conditions *)
\* The outcome of a result.
LEMMA OutcomeIs ==
  /\ \A b \in BOOLEAN : OutcomeOf(Yes(b)) = IF b THEN "true" ELSE "false"
  /\ \A r : r # Yes(TRUE) /\ r # Yes(FALSE) => OutcomeOf(r) = "error"
BY Distinct DEF OutcomeOf, Yes

\* A node comes to a yes, a no, or neither.
LEMMA NodeIs ==
  ASSUME Asked, NEW x \in PolicyNodes
  PROVE  \/ Of(x) = Yes(TRUE) \/ Of(x) = Yes(FALSE)
         \/ /\ Of(x) # Yes(TRUE) /\ Of(x) # Yes(FALSE)
            /\ IsOk(Of(x)) => Of(x).ok.t # "bool"
<1>1. IsOk(Of(x)) => Of(x) = Ok(Of(x).ok) /\ (Of(x).ok.t = "bool" => Of(x).ok \in {BoolV(TRUE), BoolV(FALSE)})
  BY BooleansAreBooleans DEF Asked, Of
<1>2. CASE IsOk(Of(x)) /\ Of(x).ok.t = "bool"
  <2>1. Of(x) = Yes(TRUE) \/ Of(x) = Yes(FALSE)
    BY <1>1, <1>2 DEF Yes
  <2> QED
    BY <2>1
<1>3. CASE ~IsOk(Of(x))
  <2>1. Of(x) # Yes(TRUE) /\ Of(x) # Yes(FALSE)
    BY <1>3, YesIs, Zenon
  <2> QED
    BY <1>3, <2>1
<1>4. CASE IsOk(Of(x)) /\ Of(x).ok.t # "bool"
  BY <1>4, YesIs
<1> QED
  BY <1>2, <1>3, <1>4

\* What goes wrong stays wrong.
LEMMA NoBoolean ==
  ASSUME NEW r, IsOk(r) => r.ok.t # "bool"
  PROVE  ~IsOk(AsBool(r)) /\ OutcomeOf(AsBool(r)) = "error"
<1>1. ~IsOk(AsBool(r))
  BY Results DEF AsBool, AsKind, Bind
<1>2. AsBool(r) # Yes(TRUE) /\ AsBool(r) # Yes(FALSE)
  BY <1>1, Results DEF Yes
<1> QED
  BY <1>1, <1>2, OutcomeIs

\* The first that is not true says what comes of a conjunction.
LEMMA AndOutcome ==
  ASSUME Asked, NEW x, NEW y, AndX(x, y) \in PolicyNodes
  PROVE  /\ x \in PolicyNodes /\ y \in PolicyNodes
         /\ OutcomeOf(Of(AndX(x, y))) =
              IF OutcomeOf(Of(x)) = "true" THEN OutcomeOf(Of(y)) ELSE OutcomeOf(Of(x))
<1>1. x \in PolicyNodes /\ y \in PolicyNodes /\ Of(AndX(x, y)) = AndR(Of(x), Of(y))
  BY AndNode
<1>2. OutcomeOf(AsBool(Of(y))) = OutcomeOf(Of(y))
  <2>1. CASE Of(y) = Yes(TRUE) \/ Of(y) = Yes(FALSE)
    BY <2>1, Conjoined
  <2>2. CASE Of(y) # Yes(TRUE) /\ Of(y) # Yes(FALSE)
    BY <1>1, <2>2, NodeIs, NoBoolean, OutcomeIs
  <2> QED
    BY <2>1, <2>2
<1>3. CASE Of(x) = Yes(TRUE)
  <2>1. AndR(Of(x), Of(y)) = AsBool(Of(y))
    BY <1>3, Conjoined
  <2>2. OutcomeOf(Of(x)) = "true"
    BY <1>3, OutcomeIs
  <2> QED
    BY <1>1, <1>2, <2>1, <2>2
<1>4. CASE Of(x) = Yes(FALSE)
  <2>1. AndR(Of(x), Of(y)) = Yes(FALSE)
    BY <1>4, Conjoined
  <2>2. OutcomeOf(Of(x)) = "false"
    BY <1>4, OutcomeIs
  <2> QED
    BY <1>1, <1>4, <2>1, <2>2
<1>5. CASE Of(x) # Yes(TRUE) /\ Of(x) # Yes(FALSE)
  <2>1. ~IsOk(AsBool(Of(x))) /\ OutcomeOf(AsBool(Of(x))) = "error"
    BY <1>1, <1>5, NodeIs, NoBoolean
  <2>2. AndR(Of(x), Of(y)) = AsBool(Of(x))
    BY <2>1 DEF AndR, Bind
  <2>3. OutcomeOf(Of(x)) = "error"
    BY <1>5, OutcomeIs
  <2> QED
    BY <1>1, <2>1, <2>2, <2>3
<1> QED
  BY <1>3, <1>4, <1>5

\* A condition comes to its body, or to the contrary.
LEMMA ConditionMeans ==
  ASSUME Asked, NEW c, ConditionExpr(c) \in PolicyNodes
  PROVE  OutcomeOf(Of(ConditionExpr(c))) = ConditionOutcome(c)
<1> DEFINE n == ConditionExpr(c)
<1>1. CASE c.kind = "when"
  BY <1>1 DEF ConditionExpr, ConditionOutcome, Of
<1>2. CASE c.kind # "when"
  <2>1. n.op = "unary" /\ n.x = c.body /\ n.o.op = "not"
    BY <1>2 DEF ConditionExpr, NotX
  <2> HIDE DEF n
  <2>2. c.body \in PolicyNodes /\ Of(n) = UnaryR(n.o, Of(c.body))
    BY <2>1, UnaryNode DEF n
  <2>3. ConditionOutcome(c) = IF OutcomeOf(Of(c.body)) = "error" THEN "error"
                              ELSE IF OutcomeOf(Of(c.body)) = "true" THEN "false" ELSE "true"
    BY <1>2 DEF ConditionOutcome, Of
  <2>4. \A v : UnaryR(n.o, Ok(v)) = Apply1(n.o, v)
    BY Results DEF UnaryR, Bind
  <2>5. \A b \in BOOLEAN : Apply1(n.o, BoolV(b)) = Yes(~b)
    BY <2>1, Results DEF Apply1, Yes
  <2>6. CASE Of(c.body) = Yes(TRUE)
    BY <2>2, <2>3, <2>4, <2>5, <2>6, OutcomeIs DEF Yes, n
  <2>7. CASE Of(c.body) = Yes(FALSE)
    BY <2>2, <2>3, <2>4, <2>5, <2>7, OutcomeIs DEF Yes, n
  <2>8. CASE Of(c.body) # Yes(TRUE) /\ Of(c.body) # Yes(FALSE)
    <3>1. IsOk(Of(c.body)) => Of(c.body).ok.t # "bool"
      BY <2>2, <2>8, NodeIs
    <3>2. ~IsOk(UnaryR(n.o, Of(c.body)))
      BY <2>1, <3>1, Results DEF UnaryR, Bind, Apply1
    <3>3. Of(n) # Yes(TRUE) /\ Of(n) # Yes(FALSE)
      BY <2>2, <3>2, YesIs
    <3> QED
      BY <2>3, <2>8, <3>3, OutcomeIs DEF n
  <2> QED
    BY <2>6, <2>7, <2>8
<1> QED
  BY <1>1, <1>2

\* Natural numbers are well founded.
LEMMA LeastNumber ==
  ASSUME NEW T, T \subseteq Nat, T # {}
  PROVE  \E x \in T : \A y \in T : x <= y
<1>1. PICK x \in T : \A y \in T : ~(<<y, x>> \in OpToRel(<, Nat))
  BY NatLessThanWellFounded, WFMin
<1>2. ASSUME NEW y \in T PROVE x <= y
  <2>1. <<y, x>> \in Nat \X Nat
    OBVIOUS
  <2>2. ~(<<y, x>> \in OpToRel(<, Nat))
    BY <1>1
  <2>3. ~(y < x)
    BY <2>1, <2>2 DEF OpToRel
  <2>4. x \in Nat /\ y \in Nat
    OBVIOUS
  <2> QED
    BY <2>3, <2>4
<1> QED
  BY <1>1, <1>2

\* What holds at the end of a sequence, and of a place when of the next, holds
\* of every place.
LEMMA FromTheEnd ==
  ASSUME NEW n \in Nat, NEW S, n \in S, \A k \in 1..n : k < n /\ k + 1 \in S => k \in S
  PROVE  1..n \subseteq S
<1> SUFFICES ASSUME NEW k \in 1..n, k \notin S PROVE FALSE
  OBVIOUS
<1> DEFINE T == {n - j : j \in {i \in 1..n : i \notin S}}
<1>1. T \subseteq Nat /\ n - k \in T
  OBVIOUS
<1>2. PICK x \in T : \A y \in T : x <= y
  <2> HIDE DEF T
  <2> QED
    BY <1>1, LeastNumber
<1>3. PICK j \in 1..n : j \notin S /\ x = n - j
  BY <1>2
<1>4. j < n
  BY <1>3
<1>5. j + 1 \in 1..n /\ n - (j + 1) < n - j
  BY <1>4
<1>6. j + 1 \in S
  <2> SUFFICES ASSUME j + 1 \notin S PROVE FALSE
    OBVIOUS
  <2>1. n - (j + 1) \in T
    BY <1>5
  <2>2. n - j <= n - (j + 1)
    BY <1>2, <1>3, <2>1
  <2> QED
    BY <1>5, <2>2
<1> QED
  BY <1>3, <1>4, <1>6

\* The conditions from a place on are an expression.
Conjunction(cs, f) ==
  f = [k \in DOMAIN cs |-> IF k = Len(cs) THEN ConditionExpr(cs[k]) ELSE AndX(ConditionExpr(cs[k]), f[k + 1])]

\* There is such an expression, made from the last condition up.
LEMMA ConjunctionExists ==
  ASSUME NEW cs, IsSequence(cs)
  PROVE  \E f : Conjunction(cs, f)
<1>1. PICK n \in Nat : n = Len(cs) /\ DOMAIN cs = 1..n
  BY DEF IsSequence
<1> DEFINE e(k) == ConditionExpr(cs[k])
           Good(m, g) == \A k \in m..n : g[k] = IF k = n THEN e(k) ELSE AndX(e(k), g[k + 1])
           S == {m \in 1..n : \E g : Good(m, g)}
<1>2. CASE n = 0
  <2>1. DOMAIN cs = {}
    BY <1>1, <1>2
  <2>2. Conjunction(cs, [k \in DOMAIN cs |-> 0])
    BY <2>1 DEF Conjunction
  <2> QED
    BY <2>2
<1>3. CASE n # 0
  <2>1. n \in S
    <3> DEFINE g == [k \in n..n |-> e(n)]
    <3>1. Good(n, g)
      BY <1>1
    <3> HIDE DEF g
    <3>2. \E h : Good(n, h)
      BY <3>1
    <3> QED
      <4>1. n \in 1..n
        BY <1>1, <1>3
      <4> HIDE DEF Good
      <4> QED
        BY <3>2, <4>1
  <2>2. ASSUME NEW k \in 1..n, k < n, k + 1 \in S PROVE k \in S
    <3>1. PICK g : Good(k + 1, g)
      <4> HIDE DEF Good
      <4> QED
        BY <2>2
    <3> DEFINE h == [j \in k..n |-> IF j = n THEN e(j) ELSE AndX(e(j), g[j + 1])]
    <3>2. \A j \in (k + 1)..n : h[j] = g[j]
      BY <1>1, <3>1
    <3>3. \A j \in k..n : h[j] = IF j = n THEN e(j) ELSE AndX(e(j), g[j + 1])
      OBVIOUS
    <3>4. \A j \in k..n : j # n => j + 1 \in (k + 1)..n
      BY <1>1
    <3> HIDE DEF h, e
    <3>5. Good(k, h)
      BY <3>2, <3>3, <3>4
    <3> HIDE DEF Good
    <3> QED
      BY <3>5
  <2> HIDE DEF S
  <2>3. 1..n \subseteq S
    BY <1>1, <2>1, <2>2, FromTheEnd
  <2>4. 1 \in S
    BY <1>1, <1>3, <2>3
  <2> USE DEF S
  <2>5. PICK g : Good(1, g)
    BY <2>4
  <2> DEFINE f == [k \in 1..n |-> g[k]]
  <2>6. \A k \in 1..n : f[k] = IF k = n THEN e(k) ELSE AndX(e(k), f[k + 1])
    <3> SUFFICES ASSUME NEW k \in 1..n PROVE f[k] = IF k = n THEN e(k) ELSE AndX(e(k), f[k + 1])
      OBVIOUS
    <3> HIDE DEF e
    <3>1. k # n => k + 1 \in 1..n
      BY <1>1
    <3> QED
      BY <2>5, <3>1
  <2>7. f = [k \in DOMAIN cs |-> IF k = Len(cs) THEN ConditionExpr(cs[k]) ELSE AndX(ConditionExpr(cs[k]), f[k + 1])]
    <3>1. DOMAIN f = 1..n /\ f = [k \in 1..n |-> f[k]]
      OBVIOUS
    <3> HIDE DEF f
    <3> QED
      BY <1>1, <2>6, <3>1
  <2> HIDE DEF f
  <2> QED
    BY <2>7 DEF Conjunction
<1> QED
  BY <1>2, <1>3

\* The expression of the conditions is one.
LEMMA ConditionsUnfold ==
  ASSUME NEW cs, IsSequence(cs)
  PROVE  \E f : /\ Conjunction(cs, f)
                /\ ConditionsExpr(cs) = IF cs = <<>> THEN True ELSE f[1]
<1> DEFINE f == CHOOSE f : Conjunction(cs, f)
<1>1. Conjunction(cs, f)
  BY ConjunctionExists
<1>2. ConditionsExpr(cs) = IF cs = <<>> THEN True ELSE f[1]
  BY Zenon DEF ConditionsExpr, Conjunction
<1> QED
  BY <1>1, <1>2

\* The least number of a set.
LEMMA MinIs ==
  ASSUME NEW T, T \subseteq Nat, NEW x \in T, \A y \in T : x <= y
  PROVE  Min(T) = x
<1>1. Min(T) \in T /\ \A y \in T : Min(T) <= y
  BY DEF Min
<1>2. Min(T) \in Nat /\ x \in Nat /\ Min(T) <= x /\ x <= Min(T)
  BY <1>1
<1> QED
  BY <1>2

\* The conditions come to the first that is not met.
LEMMA ConditionsMean ==
  ASSUME Asked, NEW cs, IsSequence(cs), ConditionsExpr(cs) \in PolicyNodes
  PROVE  OutcomeOf(Of(ConditionsExpr(cs))) = FirstUnmet(cs)
<1>1. PICK n \in Nat : n = Len(cs) /\ cs = [k \in 1..n |-> cs[k]]
  BY DEF IsSequence
<1>2. PICK f : Conjunction(cs, f) /\ ConditionsExpr(cs) = IF cs = <<>> THEN True ELSE f[1]
  BY ConditionsUnfold
<1>3. DOMAIN cs = 1..n
  BY <1>1
<1>4. CASE n = 0
  <2>1. DOMAIN cs = {}
    BY <1>3, <1>4
  <2>2. cs = <<>>
    BY <1>1, <1>4, <2>1
  <2>3. True.op = "val" /\ True.v = BoolV(TRUE)
    BY DEF True
  <2>4. Of(True) = Yes(TRUE)
    BY <1>2, <2>2, <2>3, LiteralNode DEF Yes
  <2>5. FirstUnmet(cs) = "true"
    BY <2>1 DEF FirstUnmet
  <2> QED
    BY <1>2, <2>2, <2>4, <2>5, OutcomeIs
<1>5. CASE n # 0
  <2> DEFINE o(k) == ConditionOutcome(cs[k])
             Unmet(k) == {j \in k..n : o(j) # "true"}
             First(k) == IF Unmet(k) = {} THEN "true" ELSE o(Min(Unmet(k)))
             S == {k \in 1..n : f[k] \in PolicyNodes => OutcomeOf(Of(f[k])) = First(k)}
  <2>1. /\ f[n] = ConditionExpr(cs[n])
        /\ \A k \in 1..n : k < n => f[k] = AndX(ConditionExpr(cs[k]), f[k + 1])
    <3>1. n \in 1..n
      BY <1>5
    <3>2. \A k \in 1..n : f[k] = IF k = n THEN ConditionExpr(cs[k]) ELSE AndX(ConditionExpr(cs[k]), f[k + 1])
      BY <1>1, <1>2, <1>3 DEF Conjunction
    <3> QED
      BY <3>1, <3>2
  <2>2. n \in S
    <3>1. ASSUME f[n] \in PolicyNodes PROVE OutcomeOf(Of(f[n])) = o(n)
      BY <2>1, <3>1, ConditionMeans
    <3>2. CASE o(n) = "true"
      <4>1. Unmet(n) = {}
        BY <3>2
      <4> HIDE DEF Unmet, o
      <4> QED
        BY <1>5, <3>1, <3>2, <4>1
    <3>3. CASE o(n) # "true"
      <4>1. Unmet(n) = {n}
        BY <3>3
      <4>2. Min({n}) = n
        BY MinIs
      <4> HIDE DEF Unmet, o
      <4> QED
        BY <1>5, <3>1, <3>3, <4>1, <4>2
    <3> QED
      BY <3>2, <3>3
  <2>3. ASSUME NEW k \in 1..n, k < n, k + 1 \in S PROVE k \in S
    <3> SUFFICES ASSUME f[k] \in PolicyNodes PROVE OutcomeOf(Of(f[k])) = First(k)
      OBVIOUS
    <3>1. f[k] = AndX(ConditionExpr(cs[k]), f[k + 1])
      BY <2>1, <2>3
    <3>2. /\ ConditionExpr(cs[k]) \in PolicyNodes /\ f[k + 1] \in PolicyNodes
          /\ OutcomeOf(Of(f[k])) = IF OutcomeOf(Of(ConditionExpr(cs[k]))) = "true"
                                   THEN OutcomeOf(Of(f[k + 1])) ELSE OutcomeOf(Of(ConditionExpr(cs[k])))
      BY <3>1, AndOutcome
    <3>3. OutcomeOf(Of(ConditionExpr(cs[k]))) = o(k)
      BY <3>2, ConditionMeans
    <3>4. OutcomeOf(Of(f[k + 1])) = First(k + 1)
      BY <2>3, <3>2
    <3> HIDE DEF o
    <3>5. CASE o(k) = "true"
      <4>1. Unmet(k) = Unmet(k + 1)
        <5>1. \A j \in k..n : j # k => j \in (k + 1)..n
          OBVIOUS
        <5>2. \A j \in (k + 1)..n : j \in k..n
          OBVIOUS
        <5> QED
          BY <3>5, <5>1, <5>2
      <4>2. First(k) = First(k + 1)
        BY <4>1
      <4> HIDE DEF First
      <4> QED
        BY <3>2, <3>3, <3>4, <3>5, <4>2
    <3>6. CASE o(k) # "true"
      <4>1. k \in Unmet(k) /\ Unmet(k) \subseteq Nat /\ \A j \in Unmet(k) : k <= j
        BY <3>6
      <4> HIDE DEF Unmet
      <4>2. Min(Unmet(k)) = k
        BY <4>1, MinIs
      <4>3. First(k) = o(k)
        BY <4>1, <4>2
      <4> HIDE DEF First
      <4> QED
        BY <3>2, <3>3, <3>6, <4>3
    <3> QED
      BY <3>5, <3>6
  <2> HIDE DEF S
  <2>4. 1..n \subseteq S
    BY <2>2, <2>3, FromTheEnd
  <2>5. 1 \in S
    BY <1>5, <2>4
  <2>6. cs # <<>>
    BY <1>3, <1>5
  <2>7. First(1) = FirstUnmet(cs)
    BY <1>3 DEF FirstUnmet
  <2> HIDE DEF First
  <2> QED
    BY <1>2, <2>5, <2>6, <2>7 DEF S
<1> QED
  BY <1>4, <1>5

-----------------------------------------------------------------------------
(* Policies *)
\* A policy comes to its scopes, then to its conditions.
LEMMA PolicyMeans ==
  ASSUME Asked, NEW p, PolicyExpr(p) \in PolicyNodes,
         p.principal.c \in {"any", "is", "eq", "mem", "isMem"}, p.resource.c \in {"any", "is", "eq", "mem", "isMem"},
         IsActionScope(p.action), IsSequence(p.conditions)
  PROVE  OutcomeOf(Of(PolicyExpr(p)))
           = IF /\ Suits(p.principal, tried.principal.u)
                /\ ActionMeets(p.action, tried.action.u)
                /\ Suits(p.resource, tried.resource.u)
             THEN FirstUnmet(p.conditions) ELSE "false"
<1> DEFINE px == ScopeExpr(p.principal, "principal")
           ax == ActionExpr(p.action)
           rx == ScopeExpr(p.resource, "resource")
           cx == ConditionsExpr(p.conditions)
           pb == Suits(p.principal, tried["principal"].u)
           ab == ActionMeets(p.action, tried["action"].u)
           rb == Suits(p.resource, tried["resource"].u)
<1>1. PolicyExpr(p) = AndX(px, AndX(ax, AndX(rx, cx)))
  BY DEF PolicyExpr
<1>2. /\ px \in PolicyNodes /\ AndX(ax, AndX(rx, cx)) \in PolicyNodes
      /\ OutcomeOf(Of(PolicyExpr(p)))
          = IF OutcomeOf(Of(px)) = "true" THEN OutcomeOf(Of(AndX(ax, AndX(rx, cx)))) ELSE OutcomeOf(Of(px))
  <2> HIDE DEF px, ax, rx, cx
  <2> QED
    BY <1>1, AndOutcome
<1>3. /\ ax \in PolicyNodes /\ AndX(rx, cx) \in PolicyNodes
      /\ OutcomeOf(Of(AndX(ax, AndX(rx, cx))))
          = IF OutcomeOf(Of(ax)) = "true" THEN OutcomeOf(Of(AndX(rx, cx))) ELSE OutcomeOf(Of(ax))
  <2> HIDE DEF px, ax, rx, cx
  <2> QED
    BY <1>2, AndOutcome
<1>4. /\ rx \in PolicyNodes /\ cx \in PolicyNodes
      /\ OutcomeOf(Of(AndX(rx, cx))) = IF OutcomeOf(Of(rx)) = "true" THEN OutcomeOf(Of(cx)) ELSE OutcomeOf(Of(rx))
  <2> HIDE DEF px, ax, rx, cx
  <2> QED
    BY <1>3, AndOutcome
<1>5. Of(px) = Yes(pb)
  BY <1>2, ScopeHolds DEF Variables
<1>6. Of(ax) = Yes(ab)
  BY <1>3, ActionHolds
<1>7. Of(rx) = Yes(rb)
  BY <1>4, ScopeHolds DEF Variables
<1>8. OutcomeOf(Of(cx)) = FirstUnmet(p.conditions)
  BY <1>4, ConditionsMean
<1>9. pb \in BOOLEAN /\ ab \in BOOLEAN /\ rb \in BOOLEAN
  BY DEF Suits, ActionMeets, Meets
<1> HIDE DEF px, ax, rx, cx, pb, ab, rb
<1>10. /\ OutcomeOf(Of(px)) = IF pb THEN "true" ELSE "false"
       /\ OutcomeOf(Of(ax)) = IF ab THEN "true" ELSE "false"
       /\ OutcomeOf(Of(rx)) = IF rb THEN "true" ELSE "false"
  BY <1>5, <1>6, <1>7, <1>9, OutcomeIs
<1>11. OutcomeOf(Of(PolicyExpr(p))) = IF pb /\ ab /\ rb THEN FirstUnmet(p.conditions) ELSE "false"
  BY <1>2, <1>3, <1>4, <1>8, <1>9, <1>10
<1> QED
  BY <1>11 DEF pb, ab, rb

\* What is linked, and what a slice is of, between the steps.
LinkedSoFar ==
  ~linkFailed =>
    /\ Len(linked) \in 0..Len(links)
    /\ linked = [k \in 1..Len(linked) |-> LinkPolicy(links[k])]
    /\ \A k \in 1..Len(linked) : CanLink(links[k])
Sliced ==
  tried # NoRequest =>
    /\ Asked /\ ~linkFailed /\ Len(linked) = Len(links)
    /\ kept = {k \in DOMAIN linked : SatisfiedBound(linked[k], tried, triedStore)}
TemplateInv == links \in LinkLists /\ LinkedSoFar /\ Sliced

\* A sequence with one item more.
LEMMA OneMoreItem ==
  ASSUME NEW s, NEW n \in Nat, Len(s) = n, s = [k \in 1..n |-> s[k]], NEW x
  PROVE  Len(Append(s, x)) = n + 1 /\ Append(s, x) = [k \in 1..(n + 1) |-> IF k = n + 1 THEN x ELSE s[k]]
<1> DEFINE S == {s[k] : k \in 1..n} \cup {x}
<1>1. [k \in 1..n |-> s[k]] \in [1..n -> S]
  OBVIOUS
<1>2. s \in Seq(S)
  BY <1>1, SeqDef
<1>3. x \in S
  OBVIOUS
<1> HIDE DEF S
<1> QED
  BY <1>2, <1>3

\* The invariant holds at first, and every step keeps it.
LEMMA TemplateStart == TemplateInit => TemplateInv
<1> SUFFICES ASSUME TemplateInit PROVE TemplateInv
  OBVIOUS
<1>1. links \in LinkLists /\ linked = <<>> /\ tried = NoRequest
  BY DEF TemplateInit
<1>2. Len(links) \in Nat
  BY <1>1, LinkListsAreSequences DEF IsSequence
<1>3. Len(linked) = 0 /\ linked = [k \in 1..0 |-> LinkPolicy(links[k])]
  BY <1>1
<1>4. LinkedSoFar
  BY <1>2, <1>3 DEF LinkedSoFar
<1> QED
  BY <1>1, <1>4 DEF TemplateInv, Sliced

LEMMA TemplateStep == TemplateInv /\ [TemplateNext]_templateVars => TemplateInv'
<1> SUFFICES ASSUME TemplateInv, [TemplateNext]_templateVars PROVE TemplateInv'
  OBVIOUS
<1>0. links \in LinkLists /\ Len(links) \in Nat
  BY LinkListsAreSequences DEF TemplateInv, IsSequence
<1>1. CASE Link
  <2> DEFINE n == Len(linked)
             link == links[n + 1]
  <2>1. ~linkFailed /\ n < Len(links) /\ UNCHANGED <<links, tried, triedStore, kept>>
    BY <1>1 DEF Link
  <2>2. n \in Nat /\ linked = [k \in 1..n |-> LinkPolicy(links[k])] /\ \A k \in 1..n : CanLink(links[k])
    BY <1>0, <2>1 DEF TemplateInv, LinkedSoFar
  <2>3. tried = NoRequest
    BY <1>0, <2>1, <2>2 DEF TemplateInv, Sliced
  <2>4. LinkedSoFar'
    <3>1. CASE CanLink(link)
      <4>1. linked' = Append(linked, LinkPolicy(link)) /\ linkFailed' = linkFailed
        BY <1>1, <3>1 DEF Link
      <4>2. PICK m \in Nat : m = n
        BY <2>2
      <4>3. linked = [k \in 1..m |-> linked[k]]
        BY <2>2, <4>2
      <4>4. /\ Len(linked') = m + 1
            /\ linked' = [k \in 1..(m + 1) |-> IF k = m + 1 THEN LinkPolicy(link) ELSE linked[k]]
        BY <4>1, <4>2, <4>3, OneMoreItem
      <4>5. \A k \in 1..(m + 1) : (IF k = m + 1 THEN LinkPolicy(link) ELSE linked[k]) = LinkPolicy(links[k])
        <5> SUFFICES ASSUME NEW k \in 1..(m + 1), k # m + 1 PROVE linked[k] = LinkPolicy(links[k])
          BY <4>2
        <5>1. k \in 1..m
          OBVIOUS
        <5> QED
          BY <2>2, <4>2, <5>1
      <4>6. linked' = [k \in 1..(m + 1) |-> LinkPolicy(links[k])]
        BY <4>4, <4>5
      <4>7. \A k \in 1..(m + 1) : CanLink(links[k])
        <5> SUFFICES ASSUME NEW k \in 1..(m + 1) PROVE CanLink(links[k])
          OBVIOUS
        <5>1. k = m + 1 \/ k \in 1..m
          OBVIOUS
        <5> QED
          BY <2>2, <3>1, <4>2, <5>1
      <4>8. m + 1 \in 0..Len(links)
        BY <1>0, <2>1, <4>2
      <4>9. links' = links
        BY <2>1
      <4> HIDE DEF n, link
      <4> QED
        BY <4>4, <4>6, <4>7, <4>8, <4>9 DEF LinkedSoFar, LinkPolicy, CanLink
    <3>2. CASE ~CanLink(link)
      <4>1. linkFailed' = TRUE
        BY <1>1, <3>2 DEF Link
      <4> QED
        BY <4>1 DEF LinkedSoFar
    <3> QED
      BY <3>1, <3>2
  <2> QED
    BY <1>0, <2>1, <2>3, <2>4 DEF TemplateInv, Sliced
<1>2. CASE AuthorizeSlice
  <2>1. /\ ~linkFailed /\ Len(linked) = Len(links)
        /\ tried' \in TemplateRequests /\ triedStore' \in TemplateStores
        /\ kept' = {k \in DOMAIN linked : SatisfiedBound(linked[k], tried', triedStore')}
        /\ links' = links /\ linked' = linked /\ linkFailed' = linkFailed
    BY <1>2 DEF AuthorizeSlice
  <2>2. LinkedSoFar'
    BY <2>1 DEF TemplateInv, LinkedSoFar
  <2>3. Sliced'
    BY <2>1 DEF Sliced, Asked
  <2> QED
    BY <1>0, <2>1, <2>2, <2>3 DEF TemplateInv
<1>3. CASE UNCHANGED templateVars
  <2>1. /\ links' = links /\ linked' = linked /\ linkFailed' = linkFailed
        /\ tried' = tried /\ triedStore' = triedStore /\ kept' = kept
    BY <1>3 DEF templateVars
  <2>2. LinkedSoFar'
    BY <2>1 DEF TemplateInv, LinkedSoFar
  <2>3. Sliced'
    BY <2>1 DEF TemplateInv, Sliced, Asked
  <2> QED
    BY <1>0, <2>1, <2>2, <2>3 DEF TemplateInv
<1> QED
  BY <1>1, <1>2, <1>3 DEF TemplateNext

\* The policies of a request, once it was tried.
LEMMA TriedPolicy ==
  ASSUME TemplateInv, tried # NoRequest, NEW k \in DOMAIN linked
  PROVE  /\ Asked /\ k \in DOMAIN links
         /\ IsTemplate(Templates[links[k].template])
         /\ linked[k] = LinkTemplate(Templates[links[k].template], links[k].slots)
         /\ PolicyExpr(linked[k]) \in PolicyNodes
<1>1. Asked /\ ~linkFailed /\ Len(linked) = Len(links)
  BY DEF TemplateInv, Sliced
<1>2. links \in LinkLists /\ IsSequence(links)
  BY LinkListsAreSequences DEF TemplateInv
<1>3. DOMAIN linked = DOMAIN links /\ linked[k] = LinkPolicy(links[k]) /\ CanLink(links[k])
  BY <1>1, <1>2 DEF TemplateInv, LinkedSoFar, IsSequence
<1>4. links[k].template \in DOMAIN Templates
  BY <1>3 DEF CanLink
<1> QED
  BY <1>1, <1>2, <1>3, <1>4, TemplatesAreTemplates, PoliciesAreNodes DEF LinkPolicy

\* What linking leaves as it is.
LEMMA LinkedTemplate ==
  ASSUME NEW t, IsTemplate(t), NEW slots
  PROVE  LET p == LinkTemplate(t, slots)
         IN  /\ p.principal = LinkScope(t.principal, slots) /\ p.resource = LinkScope(t.resource, slots)
             /\ p.action = t.action /\ p.conditions = t.conditions
BY DEF LinkTemplate, IsTemplate

\* A linked policy means what its template says.
LEMMA LinkedPolicyMeans ==
  ASSUME TemplateInv, tried # NoRequest, NEW k \in DOMAIN linked
  PROVE  LET t == Templates[links[k].template]
             slots == links[k].slots
             p == linked[k]
         IN  /\ p.principal.c \in {"any", "is", "eq", "mem", "isMem"}
             /\ p.resource.c \in {"any", "is", "eq", "mem", "isMem"}
             /\ Suits(p.principal, tried.principal.u) = Meets(t.principal, slots, tried.principal.u)
             /\ Suits(p.resource, tried.resource.u) = Meets(t.resource, slots, tried.resource.u)
             /\ PolicyOutcome(k) = IF /\ Suits(p.principal, tried.principal.u)
                                      /\ ActionMeets(t.action, tried.action.u)
                                      /\ Suits(p.resource, tried.resource.u)
                                   THEN FirstUnmet(t.conditions) ELSE "false"
<1> DEFINE t == Templates[links[k].template]
           slots == links[k].slots
           p == linked[k]
<1>1. Asked /\ IsTemplate(t) /\ p = LinkTemplate(t, slots) /\ PolicyExpr(p) \in PolicyNodes
  BY TriedPolicy
<1>2. /\ p.principal = LinkScope(t.principal, slots) /\ p.resource = LinkScope(t.resource, slots)
      /\ p.action = t.action /\ p.conditions = t.conditions
  BY <1>1, LinkedTemplate
<1>3. IsScope(t.principal) /\ IsScope(t.resource) /\ IsActionScope(t.action) /\ IsSequence(t.conditions)
  BY <1>1 DEF IsTemplate
<1>4. /\ p.principal.c = t.principal.c /\ p.resource.c = t.resource.c
      /\ Suits(p.principal, tried.principal.u) = Meets(t.principal, slots, tried.principal.u)
      /\ Suits(p.resource, tried.resource.u) = Meets(t.resource, slots, tried.resource.u)
  BY <1>2, <1>3, LinkedScope
<1>5. p.principal.c \in {"any", "is", "eq", "mem", "isMem"} /\ p.resource.c \in {"any", "is", "eq", "mem", "isMem"}
  BY <1>3, <1>4 DEF IsScope
<1>6. PolicyOutcome(k) = OutcomeOf(Of(PolicyExpr(p)))
  BY DEF PolicyOutcome, Of
<1> HIDE DEF t, slots, p
<1>7. OutcomeOf(Of(PolicyExpr(p))) = IF /\ Suits(p.principal, tried.principal.u)
                                       /\ ActionMeets(p.action, tried.action.u)
                                       /\ Suits(p.resource, tried.resource.u)
                                    THEN FirstUnmet(p.conditions) ELSE "false"
  BY <1>1, <1>2, <1>3, <1>5, PolicyMeans
<1> QED
  BY <1>2, <1>4, <1>5, <1>6, <1>7 DEF t, slots, p

\* What does not suit a scope is outside its bound, or the scope has none.
LEMMA OutOfBound ==
  ASSUME NEW s, s.c \in {"any", "is", "eq", "mem", "isMem"}, NEW u, ~Within(u, Bound(s), triedStore)
  PROVE  ~Suits(s, u)
<1>1. ~Bare(s) /\ ~InE(u, s.of.uid, triedStore)
  BY DEF Within, Bound
<1> QED
  BY <1>1 DEF Bare, Suits, InE

\* A policy that is left out would not have been met.
LEMMA LeftOut ==
  ASSUME TemplateInv, tried # NoRequest, NEW k \in DOMAIN linked, k \notin kept
  PROVE  PolicyOutcome(k) = "false"
<1>1. ~SatisfiedBound(linked[k], tried, triedStore)
  BY DEF TemplateInv, Sliced
<1>2. \/ ~Within(tried.principal.u, Bound(linked[k].principal), triedStore)
      \/ ~Within(tried.resource.u, Bound(linked[k].resource), triedStore)
  BY <1>1 DEF SatisfiedBound
<1>3. /\ linked[k].principal.c \in {"any", "is", "eq", "mem", "isMem"}
      /\ linked[k].resource.c \in {"any", "is", "eq", "mem", "isMem"}
  BY LinkedPolicyMeans
<1>4. \/ ~Suits(linked[k].principal, tried.principal.u)
      \/ ~Suits(linked[k].resource, tried.resource.u)
  BY <1>2, <1>3, OutOfBound
<1> QED
  BY <1>4, LinkedPolicyMeans

\* Leaving those out changes no answer.
LEMMA SliceAnswers == TemplateInv => PolicySliceSound
<1> SUFFICES ASSUME TemplateInv, tried # NoRequest PROVE Response(kept) = Response(DOMAIN linked)
  BY DEF PolicySliceSound
<1> DEFINE D == DOMAIN linked
           eff(ks) == [k \in ks |-> linked[k].effect]
           out(ks) == [k \in ks |-> PolicyOutcome(k)]
<1>1. kept \subseteq D /\ \A k \in D : k \notin kept => PolicyOutcome(k) = "false"
  BY LeftOut DEF TemplateInv, Sliced
<1>2. \A e : WithEffect(eff(kept), e, out(kept), "true") = WithEffect(eff(D), e, out(D), "true")
  BY <1>1 DEF WithEffect
<1>3. ErrorPolicies(out(kept)) = ErrorPolicies(out(D))
  BY <1>1 DEF ErrorPolicies
<1>4. Response(kept) = IsAuthorized(eff(kept), out(kept)) /\ Response(D) = IsAuthorized(eff(D), out(D))
  BY DEF Response
<1> HIDE DEF eff, out, D
<1>5. IsAuthorized(eff(kept), out(kept)) = IsAuthorized(eff(D), out(D))
  BY <1>2, <1>3 DEF IsAuthorized, SatisfiedPolicies
<1> QED
  BY <1>4, <1>5 DEF D

\* Every policy means what its template says.
LEMMA LinksMean == TemplateInv => LinkedMeaning
<1> SUFFICES ASSUME TemplateInv, tried # NoRequest, NEW k \in DOMAIN links
             PROVE  LET t == Templates[links[k].template]
                        slots == links[k].slots
                        inScope == /\ Meets(t.principal, slots, tried.principal.u)
                                   /\ ActionMeets(t.action, tried.action.u)
                                   /\ Meets(t.resource, slots, tried.resource.u)
                    IN  PolicyOutcome(k) = IF inScope THEN FirstUnmet(t.conditions) ELSE "false"
  BY DEF LinkedMeaning
<1>1. k \in DOMAIN linked
  <2>1. ~linkFailed /\ Len(linked) = Len(links)
    BY DEF TemplateInv, Sliced
  <2>2. DOMAIN linked = 1..Len(linked)
    BY <2>1 DEF TemplateInv, LinkedSoFar
  <2>3. DOMAIN links = 1..Len(links)
    BY LinkListsAreSequences DEF TemplateInv, IsSequence
  <2> QED
    BY <2>1, <2>2, <2>3
<1> QED
  BY <1>1, LinkedPolicyMeans

\* Linked policies mean what their templates say, and the slice of them that
\* a request may meet answers it as all of them do (Template.lean:83-127,
\* Policy.lean:94-133, PolicySlice.lean:35-71).
THEOREM TemplatesDoSuffice == TemplateSpec => []TemplatesSuffice
<1>1. TemplateInv => TemplatesSuffice
  BY LinksMean, SliceAnswers DEF TemplatesSuffice
<1> QED
  BY <1>1, TemplateStart, TemplateStep, PTL DEF TemplateSpec

-----------------------------------------------------------------------------
(* EntitySlicing.  What is validated is evaluated alike in the store and in *)
(* its slice, by the size of expressions; of what an entity is taken from   *)
(* it is also said how near the entity is to the request.                   *)

\* What any of so many steps leads to.
LeadTo(store, us) == UNION {DataEUIDs(store[u]) : u \in us \cap DOMAIN store}
LayersUpTo(f, store, work, n) ==
  f = [k \in 0..n |-> IF k = 0 THEN work ELSE UNION {DataEUIDs(store[u]) : u \in f[k - 1] \cap DOMAIN store}]

LEMMA LayersExist ==
  ASSUME NEW store, NEW work, NEW n \in Nat
  PROVE  \E f : LayersUpTo(f, store, work, n)
<1> DEFINE bad == {m \in Nat : ~\E f : LayersUpTo(f, store, work, m)}
<1>1. ASSUME bad # {} PROVE FALSE
  <2>1. PICK m \in Nat : m \in bad /\ \A y \in bad : m <= y
    BY <1>1, LeastNumber
  <2>2. m # 0
    <3>1. LayersUpTo([k \in 0..0 |-> work], store, work, 0)
      BY DEF LayersUpTo
    <3> QED BY <2>1, <3>1
  <2>3. m - 1 \in Nat /\ m - 1 \notin bad
    BY <2>1, <2>2
  <2>4. PICK f : LayersUpTo(f, store, work, m - 1)
    BY <2>3
  <2> DEFINE g == [k \in 0..m |-> IF k = m THEN LeadTo(store, f[m - 1]) ELSE f[k]]
  <2>5. \A k \in 0..m - 1 : f[k] = IF k = 0 THEN work ELSE LeadTo(store, f[k - 1])
    BY <2>4 DEF LayersUpTo, LeadTo
  <2>6. g[m] = LeadTo(store, f[m - 1]) /\ \A k \in 0..m - 1 : g[k] = f[k]
    BY <2>2
  <2>7. g = [k \in 0..m |-> g[k]]
    OBVIOUS
  <2> HIDE DEF g
  <2>8. \A k \in 0..m : g[k] = IF k = 0 THEN work ELSE LeadTo(store, g[k - 1])
    <3> SUFFICES ASSUME NEW k \in 0..m PROVE g[k] = IF k = 0 THEN work ELSE LeadTo(store, g[k - 1])
      OBVIOUS
    <3>1. CASE k = m
      <4>1. g[k - 1] = f[m - 1]
        BY <2>2, <2>6, <3>1
      <4> QED BY <2>2, <2>6, <3>1, <4>1
    <3>2. CASE k # m /\ k # 0
      <4>1. k \in 0..m - 1 /\ k - 1 \in 0..m - 1
        BY <3>2
      <4>2. g[k] = f[k] /\ g[k - 1] = f[k - 1]
        BY <2>6, <4>1
      <4> QED BY <2>5, <3>2, <4>1, <4>2
    <3>3. CASE k # m /\ k = 0
      <4>1. k \in 0..m - 1
        BY <3>3
      <4> QED BY <2>5, <2>6, <3>3, <4>1
    <3> QED BY <3>1, <3>2, <3>3
  <2>9. LayersUpTo(g, store, work, m)
    BY <2>7, <2>8 DEF LayersUpTo, LeadTo
  <2> QED BY <2>1, <2>9
<1> QED BY <1>1

LEMMA LayersAgree ==
  ASSUME NEW store, NEW work, NEW n \in Nat, NEW m \in Nat, NEW f, NEW g,
         LayersUpTo(f, store, work, n), LayersUpTo(g, store, work, m), m <= n
  PROVE  \A k \in 0..m : f[k] = g[k]
<1>1. /\ \A k \in 0..n : f[k] = IF k = 0 THEN work ELSE LeadTo(store, f[k - 1])
      /\ \A k \in 0..m : g[k] = IF k = 0 THEN work ELSE LeadTo(store, g[k - 1])
  BY DEF LayersUpTo, LeadTo
<1> DEFINE bad == {k \in 0..m : f[k] # g[k]}
<1>2. ASSUME bad # {} PROVE FALSE
  <2>1. PICK k \in 0..m : k \in bad /\ \A y \in bad : k <= y
    <3>1. bad \subseteq Nat /\ bad \subseteq 0..m
      OBVIOUS
    <3> HIDE DEF bad
    <3> QED BY <1>2, <3>1, LeastNumber
  <2>2. k # 0
    BY <1>1, <2>1
  <2>3. k - 1 \in 0..m /\ k \in 0..n /\ ~(k <= k - 1)
    BY <2>2
  <2>4. f[k - 1] = g[k - 1]
    BY <2>1, <2>3
  <2>5. f[k] = LeadTo(store, f[k - 1]) /\ g[k] = LeadTo(store, g[k - 1])
    BY <1>1, <2>2, <2>3
  <2> QED BY <2>1, <2>4, <2>5
<1> QED BY <1>2

LEMMA LayerIs ==
  ASSUME NEW store, NEW work, NEW n \in Nat
  PROVE  \E f : LayersUpTo(f, store, work, n) /\ Layer(store, work, n) = f[n]
<1> DEFINE f == CHOOSE f : LayersUpTo(f, store, work, n)
<1>1. LayersUpTo(f, store, work, n)
  BY LayersExist
<1>2. Layer(store, work, n) = f[n]
  BY Zenon DEF Layer, LayersUpTo
<1> QED BY <1>1, <1>2

LEMMA LayerSteps ==
  ASSUME NEW store, NEW work
  PROVE  /\ Layer(store, work, 0) = work
         /\ \A n \in Nat : Layer(store, work, n + 1) = LeadTo(store, Layer(store, work, n))
<1>1. Layer(store, work, 0) = work
  <2>1. PICK f : LayersUpTo(f, store, work, 0) /\ Layer(store, work, 0) = f[0]
    BY LayerIs
  <2>2. f[0] = work
    BY <2>1 DEF LayersUpTo
  <2> QED BY <2>1, <2>2
<1>2. ASSUME NEW n \in Nat PROVE Layer(store, work, n + 1) = LeadTo(store, Layer(store, work, n))
  <2>1. PICK f : LayersUpTo(f, store, work, n + 1) /\ Layer(store, work, n + 1) = f[n + 1]
    BY LayerIs
  <2>2. PICK g : LayersUpTo(g, store, work, n) /\ Layer(store, work, n) = g[n]
    BY LayerIs
  <2>3. f[n] = g[n]
    <3>1. \A k \in 0..n : f[k] = g[k]
      BY <2>1, <2>2, LayersAgree
    <3> QED BY <3>1
  <2>4. f[n + 1] = LeadTo(store, f[n])
    <3>1. \A k \in 0..n + 1 : f[k] = IF k = 0 THEN work ELSE LeadTo(store, f[k - 1])
      BY <2>1 DEF LayersUpTo, LeadTo
    <3>2. n + 1 \in 0..n + 1 /\ n + 1 # 0 /\ n + 1 - 1 = n
      OBVIOUS
    <3> QED BY <3>1, <3>2
  <2> QED BY <2>1, <2>2, <2>3, <2>4
<1> QED BY <1>1, <1>2

LEMMA LayerNext ==
  ASSUME NEW store, NEW work, NEW n \in Nat
  PROVE  Layer(store, work, n + 1) = LeadTo(store, Layer(store, work, n))
BY LayerSteps

\* The layers of what any of the entities leads to are the next layers.
LEMMA LayerOfEach ==
  ASSUME NEW store, NEW work
  PROVE  \A n \in Nat : Layer(store, work, n + 1) =
           UNION {Layer(store, DataEUIDs(store[u]), n) : u \in work \cap DOMAIN store}
<1> DEFINE Each(i) == UNION {Layer(store, DataEUIDs(store[u]), i) : u \in work \cap DOMAIN store}
           bad == {i \in Nat : Layer(store, work, i + 1) # Each(i)}
<1> SUFFICES ASSUME bad # {} PROVE FALSE
  OBVIOUS
<1>1. PICK n \in Nat : /\ Layer(store, work, n + 1) # Each(n)
                       /\ \A m \in Nat : m < n => Layer(store, work, m + 1) = Each(m)
  <2>1. bad \subseteq Nat
    OBVIOUS
  <2>2. \E n \in bad : \A m \in bad : n <= m
    <3> HIDE DEF bad
    <3> QED BY <2>1, LeastNumber
  <2>3. \A n \in Nat, m \in Nat : m < n => ~(n <= m)
    OBVIOUS
  <2> HIDE DEF Each
  <2> QED BY <2>2, <2>3
<1>2. Layer(store, work, n + 1) = LeadTo(store, Layer(store, work, n))
  <2>1. n \in Nat
    BY <1>1
  <2> QED BY <2>1, LayerNext
<1>3. CASE n = 0
  <2>1. Layer(store, work, n) = work /\ \A u : Layer(store, DataEUIDs(store[u]), n) = DataEUIDs(store[u])
    BY <1>3, LayerSteps
  <2>2. Each(n) = LeadTo(store, work)
    BY <2>1 DEF LeadTo
  <2> QED BY <1>1, <1>2, <2>1, <2>2
<1>4. CASE n # 0
  <2>1. n - 1 \in Nat /\ n - 1 + 1 = n /\ n - 1 < n
    BY <1>4
  <2>2. Layer(store, work, n) = Each(n - 1)
    BY <1>1, <2>1
  <2>3. \A u : Layer(store, DataEUIDs(store[u]), n) = LeadTo(store, Layer(store, DataEUIDs(store[u]), n - 1))
    <3> SUFFICES ASSUME NEW u
                 PROVE  Layer(store, DataEUIDs(store[u]), n) = LeadTo(store, Layer(store, DataEUIDs(store[u]), n - 1))
      OBVIOUS
    <3> DEFINE d == DataEUIDs(store[u])
               m == n - 1
    <3>1. m \in Nat /\ m + 1 = n
      BY <2>1
    <3> HIDE DEF d, m
    <3>2. Layer(store, d, m + 1) = LeadTo(store, Layer(store, d, m))
      BY <3>1, LayerNext
    <3> QED BY <3>1, <3>2 DEF d, m
  <2>4. LeadTo(store, Each(n - 1)) = UNION {LeadTo(store, Layer(store, DataEUIDs(store[u]), n - 1)) :
                                              u \in work \cap DOMAIN store}
    BY DEF LeadTo
  <2>5. LeadTo(store, Each(n - 1)) = Each(n)
    BY <2>3, <2>4
  <2> QED BY <1>1, <1>2, <2>2, <2>5
<1> QED BY <1>3, <1>4

\* Layer by layer the slice is what the code collects entity by entity
\* (Slice.lean:50-56): nothing at level 0, and above it what is at hand and what
\* each entity there leads to on the level below.
THEOREM ReachedAsCoded ==
  ASSUME NEW store, NEW work
  PROVE  /\ Reached(store, work, 0) = {}
         /\ \A n \in Nat : Reached(store, work, n + 1) =
              work \cup UNION {Reached(store, DataEUIDs(store[u]), n) : u \in work \cap DOMAIN store}
<1>1. \A w, n : Reached(store, w, n) = UNION {Layer(store, w, k) : k \in 0..(n - 1)}
  BY DEF Reached
<1>2. Reached(store, work, 0) = {}
  <2>1. 0..(0 - 1) = {}
    OBVIOUS
  <2> QED BY <1>1, <2>1
<1>3. ASSUME NEW n \in Nat
      PROVE  Reached(store, work, n + 1) =
               work \cup UNION {Reached(store, DataEUIDs(store[u]), n) : u \in work \cap DOMAIN store}
  <2>1. Reached(store, work, n + 1) = work \cup UNION {Layer(store, work, k + 1) : k \in 0..(n - 1)}
    <3>1. \A v : (\E k \in 0..(n + 1 - 1) : v \in Layer(store, work, k)) <=>
                 v \in Layer(store, work, 0) \/ \E k \in 0..(n - 1) : v \in Layer(store, work, k + 1)
      <4> SUFFICES ASSUME NEW v
                   PROVE  (\E k \in 0..(n + 1 - 1) : v \in Layer(store, work, k)) <=>
                            v \in Layer(store, work, 0) \/ \E k \in 0..(n - 1) : v \in Layer(store, work, k + 1)
        OBVIOUS
      <4>1. ASSUME NEW k \in 0..(n + 1 - 1), v \in Layer(store, work, k)
            PROVE  v \in Layer(store, work, 0) \/ \E j \in 0..(n - 1) : v \in Layer(store, work, j + 1)
        <5>1. CASE k = 0
          BY <4>1, <5>1
        <5>2. CASE k # 0
          <6>1. k - 1 \in 0..(n - 1) /\ k - 1 + 1 = k
            BY <5>2
          <6> QED BY <4>1, <6>1
        <5> QED BY <5>1, <5>2
      <4>2. 0 \in 0..(n + 1 - 1) /\ \A k \in 0..(n - 1) : k + 1 \in 0..(n + 1 - 1)
        OBVIOUS
      <4> QED BY <4>1, <4>2
    <3>2. Layer(store, work, 0) = work
      BY LayerSteps
    <3> QED BY <1>1, <3>1, <3>2
  <2>2. \A k \in 0..(n - 1) :
          Layer(store, work, k + 1) = UNION {Layer(store, DataEUIDs(store[u]), k) : u \in work \cap DOMAIN store}
    BY LayerOfEach
  <2>3. UNION {Layer(store, work, k + 1) : k \in 0..(n - 1)} =
          UNION {Reached(store, DataEUIDs(store[u]), n) : u \in work \cap DOMAIN store}
    BY <1>1, <2>2
  <2> QED BY <2>1, <2>3
<1> QED BY <1>2, <1>3

\* What is reached within n steps of a request.
Near(s, q, n) == Reached(s, RequestEUIDs(q), n)

LEMMA NearGrows ==
  ASSUME NEW s, NEW q
  PROVE  /\ \A n \in Nat : n > 0 => RequestEUIDs(q) \subseteq Near(s, q, n)
         /\ \A n \in Nat, m \in Nat : n <= m => Near(s, q, n) \subseteq Near(s, q, m)
         /\ \A n \in Nat : \A u \in Near(s, q, n) : u \in DOMAIN s => DataEUIDs(s[u]) \subseteq Near(s, q, n + 1)
<1> DEFINE work == RequestEUIDs(q)
<1> HIDE DEF work
<1>1. \A n \in Nat : Reached(s, work, n) = UNION {Layer(s, work, k) : k \in 0..(n - 1)}
  BY DEF Reached
<1>2. ASSUME NEW n \in Nat, n > 0 PROVE work \subseteq Reached(s, work, n)
  <2>1. Layer(s, work, 0) = work /\ 0 \in 0..(n - 1)
    BY <1>2, LayerSteps
  <2> QED BY <1>1, <2>1
<1>3. ASSUME NEW n \in Nat, NEW m \in Nat, n <= m PROVE Reached(s, work, n) \subseteq Reached(s, work, m)
  <2>1. 0..(n - 1) \subseteq 0..(m - 1)
    BY <1>3
  <2> QED BY <1>1, <2>1
<1>4. ASSUME NEW n \in Nat, NEW u \in Reached(s, work, n), u \in DOMAIN s
      PROVE  DataEUIDs(s[u]) \subseteq Reached(s, work, n + 1)
  <2>1. PICK k \in 0..(n - 1) : u \in Layer(s, work, k)
    BY <1>1
  <2>2. Layer(s, work, k + 1) = LeadTo(s, Layer(s, work, k))
    <3>1. k \in Nat
      OBVIOUS
    <3> QED BY <3>1, LayerSteps
  <2>3. DataEUIDs(s[u]) \subseteq LeadTo(s, Layer(s, work, k))
    BY <1>4, <2>1 DEF LeadTo
  <2>4. k + 1 \in 0..(n + 1 - 1)
    OBVIOUS
  <2>5. n + 1 \in Nat
    OBVIOUS
  <2> QED BY <1>1, <2>2, <2>3, <2>4, <2>5
<1> QED BY <1>2, <1>3, <1>4 DEF Near, work

\* A slice holds what is near, as it is.
LooksLike(sl, s, us) ==
  \A u \in us : /\ u \in DOMAIN sl <=> u \in DOMAIN s
                /\ u \in DOMAIN s => sl[u] = s[u]
LEMMA SliceIs ==
  ASSUME NEW s, NEW q, NEW n
  PROVE  LooksLike(SliceAtLevel(s, q, n), s, Near(s, q, n))
BY DEF SliceAtLevel, Near, LooksLike

\* A slice of a slice is the slice of the store.
LEMMA SlicesNest ==
  ASSUME NEW s, NEW q, NEW L \in Nat, NEW n \in 0..L
  PROVE  SliceAtLevel(SliceAtLevel(s, q, L), q, n) = SliceAtLevel(s, q, n)
<1> DEFINE work == RequestEUIDs(q)
           sl == SliceAtLevel(s, q, L)
<1> HIDE DEF work, sl
<1>1. \A k \in 0..(L - 1) : Layer(s, work, k) \subseteq Near(s, q, L)
  BY DEF Near, Reached, work
<1>2. \A u \in Near(s, q, L) : /\ u \in DOMAIN sl <=> u \in DOMAIN s
                               /\ u \in DOMAIN s => sl[u] = s[u]
  <2>1. LooksLike(sl, s, Near(s, q, L))
    BY SliceIs DEF sl
  <2> QED BY <2>1 DEF LooksLike
<1> DEFINE bad == {k \in 0..(L - 1) : Layer(sl, work, k) # Layer(s, work, k)}
<1>3. ASSUME bad # {} PROVE FALSE
  <2>1. PICK k \in 0..(L - 1) : k \in bad /\ \A y \in bad : k <= y
    <3>1. bad \subseteq Nat /\ bad \subseteq 0..(L - 1)
      OBVIOUS
    <3> HIDE DEF bad
    <3> QED BY <1>3, <3>1, LeastNumber
  <2>2. k # 0
    BY <2>1, LayerSteps
  <2>3. k - 1 \in 0..(L - 1) /\ k - 1 \in Nat /\ k - 1 + 1 = k /\ ~(k <= k - 1)
    BY <2>2
  <2>4. Layer(sl, work, k - 1) = Layer(s, work, k - 1)
    BY <2>1, <2>3
  <2>5. /\ Layer(sl, work, k - 1 + 1) = LeadTo(sl, Layer(sl, work, k - 1))
        /\ Layer(s, work, k - 1 + 1) = LeadTo(s, Layer(s, work, k - 1))
    BY <2>3, LayerSteps
  <2>6. LeadTo(sl, Layer(s, work, k - 1)) = LeadTo(s, Layer(s, work, k - 1))
    <3>1. Layer(s, work, k - 1) \subseteq Near(s, q, L)
      BY <1>1, <2>3
    <3>2. \A u \in Layer(s, work, k - 1) : /\ u \in DOMAIN sl <=> u \in DOMAIN s
                                           /\ u \in DOMAIN s => DataEUIDs(sl[u]) = DataEUIDs(s[u])
      BY <1>2, <3>1
    <3> QED BY <3>2 DEF LeadTo
  <2>7. Layer(sl, work, k) = Layer(s, work, k)
    BY <2>3, <2>4, <2>5, <2>6
  <2> QED BY <2>1, <2>7
<1>4. Reached(sl, work, n) = Reached(s, work, n)
  <2>1. \A k \in 0..(n - 1) : Layer(sl, work, k) = Layer(s, work, k)
    BY <1>3
  <2> QED BY <2>1 DEF Reached
<1>5. Reached(s, work, n) = Near(s, q, n)
  BY DEF Near, work
<1>6. Near(s, q, n) \subseteq Near(s, q, L)
  BY NearGrows
<1>7. Near(s, q, n) \cap DOMAIN sl = Near(s, q, n) \cap DOMAIN s
  BY <1>2, <1>6
<1>8. \A u \in Near(s, q, n) \cap DOMAIN s : sl[u] = s[u]
  BY <1>2, <1>6
<1>9. SliceAtLevel(sl, q, n) = [u \in Near(s, q, n) \cap DOMAIN s |-> sl[u]]
  BY <1>4, <1>5, <1>7 DEF SliceAtLevel, work
<1>10. SliceAtLevel(s, q, n) = [u \in Near(s, q, n) \cap DOMAIN s |-> s[u]]
  BY DEF SliceAtLevel, Near
<1> QED BY <1>8, <1>9, <1>10 DEF sl

-----------------------------------------------------------------------------
(* Following a path through records. *)

Follows(v, path, w) ==
  \E f : /\ f[0] = v /\ f[Len(path)] = w
         /\ \A k \in 1..Len(path) : /\ f[k - 1].t = "record" /\ path[k] \in DOMAIN f[k - 1].m
                                    /\ f[k] = f[k - 1].m[path[k]]

LEMMA FollowsNothing == \A v, w : Follows(v, <<>>, w) <=> w = v
<1>1. ASSUME NEW v PROVE Follows(v, <<>>, v)
  <2> DEFINE f == [k \in {0} |-> v]
  <2>1. f[0] = v
    OBVIOUS
  <2> HIDE DEF f
  <2> QED BY <2>1 DEF Follows
<1>2. ASSUME NEW v, NEW w, Follows(v, <<>>, w) PROVE w = v
  <2>1. Len(<<>>) = 0
    OBVIOUS
  <2> QED BY <1>2, <2>1, Zenon DEF Follows
<1> QED BY <1>1, <1>2

\* What a path leads to is in the value it starts from.
LEMMA FollowedUid ==
  ASSUME NEW v \in LevelValues, NEW path \in Seq(STRING), NEW w, Follows(v, path, w), w.t = "uid"
  PROVE  w.u \in ValueEUIDs(v)
<1>1. PICK f : /\ f[0] = v /\ f[Len(path)] = w
               /\ \A k \in 1..Len(path) : /\ f[k - 1].t = "record" /\ path[k] \in DOMAIN f[k - 1].m
                                          /\ f[k] = f[k - 1].m[path[k]]
  BY DEF Follows
<1>2. ASSUME NEW x \in LevelValues, x.t = "record", NEW a \in DOMAIN x.m
      PROVE  x.m[a] \in LevelValues /\ ValueEUIDs(x.m[a]) \subseteq ValueEUIDs(x)
  <2>1. ValueEUIDs(x) = UNION {ValueEUIDs(x.m[b]) : b \in DOMAIN x.m}
    BY <1>2, ValuesAreValues DEF ValueEUIDsStep, ValueEUIDsBody
  <2>2. x.m[a] \in LevelValues
    BY <1>2, ValuesAreValues DEF Fields, SeqElements
  <2> QED BY <2>1, <2>2
<1> DEFINE Inside(k) == f[k] \in LevelValues /\ ValueEUIDs(f[k]) \subseteq ValueEUIDs(v)
           bad == {k \in 0..Len(path) : ~Inside(k)}
<1>3. Len(path) \in Nat
  OBVIOUS
<1>4. ASSUME bad # {} PROVE FALSE
  <2>1. PICK k \in 0..Len(path) : k \in bad /\ \A y \in bad : k <= y
    <3>1. bad \subseteq Nat /\ bad \subseteq 0..Len(path)
      BY <1>3
    <3> HIDE DEF bad
    <3> QED BY <1>4, <3>1, LeastNumber
  <2>2. k # 0
    BY <1>1, <2>1
  <2>3. k - 1 \in 0..Len(path) /\ k \in 1..Len(path) /\ ~(k <= k - 1)
    BY <1>3, <2>2
  <2>4. Inside(k - 1)
    BY <2>1, <2>3
  <2>5. f[k - 1].t = "record" /\ path[k] \in DOMAIN f[k - 1].m /\ f[k] = f[k - 1].m[path[k]]
    BY <1>1, <2>3
  <2>6. Inside(k)
    BY <1>2, <2>4, <2>5
  <2> QED BY <2>1, <2>6
<1>5. Inside(Len(path))
  BY <1>3, <1>4
<1>6. ValueEUIDs(w) = {w.u}
  BY <1>1, <1>5, ValuesAreValues DEF ValueEUIDsStep, ValueEUIDsBody
<1> QED BY <1>1, <1>5, <1>6

LEMMA FollowsFirst ==
  ASSUME NEW v, NEW path \in Seq(STRING), path # <<>>, NEW w, Follows(v, path, w)
  PROVE  v.t = "record" /\ Head(path) \in DOMAIN v.m /\ Follows(v.m[Head(path)], Tail(path), w)
<1> DEFINE n == Len(path)
<1>1. PICK f : /\ f[0] = v /\ f[n] = w
               /\ \A k \in 1..n : /\ f[k - 1].t = "record" /\ path[k] \in DOMAIN f[k - 1].m
                                  /\ f[k] = f[k - 1].m[path[k]]
  BY DEF Follows
<1>2. n \in Nat /\ n > 0 /\ Head(path) = path[1] /\ Len(Tail(path)) = n - 1
  OBVIOUS
<1>3. \A k \in 1..(n - 1) : Tail(path)[k] = path[k + 1]
  OBVIOUS
<1> DEFINE g == [k \in 0..(n - 1) |-> f[k + 1]]
<1>4. 1 \in 1..n
  BY <1>2
<1>5. v.t = "record" /\ path[1] \in DOMAIN v.m /\ f[1] = v.m[path[1]]
  BY <1>1, <1>4
<1>6. g[0] = f[1] /\ g[n - 1] = w
  BY <1>1, <1>2
<1>7. ASSUME NEW k \in 1..(n - 1)
      PROVE  /\ g[k - 1].t = "record" /\ Tail(path)[k] \in DOMAIN g[k - 1].m
             /\ g[k] = g[k - 1].m[Tail(path)[k]]
  <2>1. k + 1 \in 1..n /\ k + 1 - 1 = k
    BY <1>2
  <2>2. f[k].t = "record" /\ path[k + 1] \in DOMAIN f[k].m /\ f[k + 1] = f[k].m[path[k + 1]]
    BY <1>1, <2>1
  <2>3. g[k - 1] = f[k] /\ g[k] = f[k + 1]
    BY <1>2
  <2> QED BY <1>3, <2>2, <2>3
<1> HIDE DEF g
<1>8. Follows(f[1], Tail(path), w)
  BY <1>2, <1>6, <1>7 DEF Follows
<1> QED BY <1>2, <1>5, <1>8

LEMMA FollowsOn ==
  ASSUME NEW v, v.t = "record", NEW a \in STRING, a \in DOMAIN v.m, NEW path \in Seq(STRING), NEW w,
         Follows(v.m[a], path, w)
  PROVE  Follows(v, <<a>> \o path, w)
<1> DEFINE n == Len(path)
           longer == <<a>> \o path
<1>1. PICK f : /\ f[0] = v.m[a] /\ f[n] = w
               /\ \A k \in 1..n : /\ f[k - 1].t = "record" /\ path[k] \in DOMAIN f[k - 1].m
                                  /\ f[k] = f[k - 1].m[path[k]]
  BY DEF Follows
<1>2. n \in Nat /\ Len(longer) = n + 1 /\ longer[1] = a /\ \A k \in 2..(n + 1) : longer[k] = path[k - 1]
  OBVIOUS
<1> DEFINE g == [k \in 0..(n + 1) |-> IF k = 0 THEN v ELSE f[k - 1]]
<1>3. g[0] = v /\ g[n + 1] = w /\ g[1] = v.m[a] /\ \A k \in 1..(n + 1) : g[k] = f[k - 1]
  BY <1>1, <1>2
<1> HIDE DEF g, longer
<1>4. ASSUME NEW k \in 1..(n + 1)
      PROVE  /\ g[k - 1].t = "record" /\ longer[k] \in DOMAIN g[k - 1].m
             /\ g[k] = g[k - 1].m[longer[k]]
  <2>1. CASE k = 1
    BY <1>2, <1>3, <2>1
  <2>2. CASE k # 1
    <3>1. k - 1 \in 1..n /\ k \in 2..(n + 1) /\ k - 1 \in 1..(n + 1)
      BY <1>2, <2>2
    <3>2. f[k - 1 - 1].t = "record" /\ path[k - 1] \in DOMAIN f[k - 1 - 1].m
          /\ f[k - 1] = f[k - 1 - 1].m[path[k - 1]]
      BY <1>1, <3>1
    <3>3. g[k - 1] = f[k - 1 - 1] /\ g[k] = f[k - 1]
      BY <1>3, <3>1
    <3> QED BY <1>2, <3>1, <3>2, <3>3
  <2> QED BY <2>1, <2>2
<1>5. Follows(v, longer, w)
  BY <1>2, <1>3, <1>4 DEF Follows
<1> QED BY <1>5 DEF longer

-----------------------------------------------------------------------------
(* Paths of `has` *)

IsMissing(result) == result = Err("entityDoesNotExist")

\* What is found is no error, and one error is not another.
LEMMA ResultsDiffer ==
  /\ \A v : IsOk(Ok(v)) /\ Ok(v).ok = v /\ ~IsMissing(Ok(v))
  /\ \A e : ~IsOk(Err(e)) /\ (e # "entityDoesNotExist" => ~IsMissing(Err(e)))
<1>1. ASSUME NEW v PROVE IsOk(Ok(v)) /\ Ok(v).ok = v
  BY DEF IsOk, Ok
<1>2. ASSUME NEW e PROVE ~IsOk(Err(e))
  BY DEF IsOk, Err
<1>3. \A e : Err(e).err = e
  BY DEF Err
<1>4. \A e : e # "entityDoesNotExist" => ~IsMissing(Err(e))
  BY <1>3 DEF IsMissing
<1>5. \A v : ~IsMissing(Ok(v))
  BY <1>1, <1>2 DEF IsMissing
<1> QED BY <1>1, <1>2, <1>4, <1>5

LEMMA HasOneStep ==
  ASSUME NEW es \in LookedAt, NEW v \in LevelValues, NEW p \in HasPaths
  PROVE  /\ p = <<>> => HasAttrsIn(v, p, es) = Ok(BoolV(TRUE))
         /\ p # <<>> /\ v.t \notin {"record", "uid"} => HasAttrsIn(v, p, es) = Err("typeError")
         /\ p # <<>> /\ v.t = "record" =>
              HasAttrsIn(v, p, es) = IF Head(p) \in DOMAIN v.m
                                     THEN HasAttrsIn(v.m[Head(p)], Tail(p), es) ELSE Ok(BoolV(FALSE))
         /\ p # <<>> /\ v.t = "uid" =>
              HasAttrsIn(v, p, es) = IF v.u \in DOMAIN es /\ Head(p) \in DOMAIN es[v.u].attrs
                                     THEN HasAttrsIn(es[v.u].attrs[Head(p)], Tail(p), es) ELSE Ok(BoolV(FALSE))
<1>1. HasAttrsIn(v, p, es) = HasAttrsStep(v, p, es, LAMBDA w, q : HasAttrsIn(w, q, es))
  BY PathsAreWalked
<1>2. p = <<>> => HasAttrsIn(v, p, es) = Ok(BoolV(TRUE))
  BY <1>1 DEF HasAttrsStep
<1>3. p # <<>> /\ v.t \notin {"record", "uid"} => HasAttrsIn(v, p, es) = Err("typeError")
  BY <1>1 DEF HasAttrsStep, AttrsOf, Bind, IsOk, Err
<1>4. p # <<>> /\ v.t = "record" =>
              HasAttrsIn(v, p, es) = IF Head(p) \in DOMAIN v.m
                                     THEN HasAttrsIn(v.m[Head(p)], Tail(p), es) ELSE Ok(BoolV(FALSE))
  BY <1>1 DEF HasAttrsStep, AttrsOf, Bind, IsOk, Ok
<1>5. p # <<>> /\ v.t = "uid" =>
              HasAttrsIn(v, p, es) = IF v.u \in DOMAIN es /\ Head(p) \in DOMAIN es[v.u].attrs
                                     THEN HasAttrsIn(es[v.u].attrs[Head(p)], Tail(p), es) ELSE Ok(BoolV(FALSE))
  BY <1>1 DEF HasAttrsStep, AttrsOf, Bind, IsOk, Ok, AttrsOrEmpty, EmptyMap
<1> QED BY <1>2, <1>3, <1>4, <1>5

\* The steps of cost and first entity.
LEMMA CostOneStep ==
  ASSUME NEW p \in HasPaths, NEW ty \in LevelTypes
  PROVE  /\ ~LeadsOn(ty, p) => ChainCost(ty, p) = 0 /\ FirstEntityPath(ty, p) = <<>>
         /\ LeadsOn(ty, p) =>
              LET next == TypeOfAttr(ty, Head(p))
                  rest == FirstEntityPath(next, Tail(p))
              IN  /\ ChainCost(ty, p) = (IF next.k = "entity" THEN 1 ELSE 0) + ChainCost(next, Tail(p))
                  /\ FirstEntityPath(ty, p) = IF next.k = "entity" THEN <<Head(p)>>
                                              ELSE IF rest = <<>> THEN <<>> ELSE <<Head(p)>> \o rest
<1>1. /\ ChainCost(ty, p) = ChainCostStep(ty, p)
      /\ FirstEntityPath(ty, p) = FirstEntityPathStep(ty, p)
  BY PathsAreWalked
<1> QED BY <1>1 DEF ChainCostStep, ChainCostBody, FirstEntityPathStep, FirstEntityPathBody

LEMMA PathsEnd ==
  ASSUME NEW p \in HasPaths
  PROVE  /\ p \in Seq(STRING) /\ Len(p) \in Nat
         /\ p # <<>> => /\ Len(p) > 0 /\ Head(p) \in STRING /\ Tail(p) \in HasPaths
                        /\ Len(Tail(p)) = Len(p) - 1
<1>1. p \in Seq(STRING)
  BY PathsAreWalked
<1>2. p # <<>> => Tail(p) \in HasPaths
  BY PathsAreWalked
<1> QED BY <1>1, <1>2

LEMMA NextType ==
  ASSUME NEW p \in HasPaths, NEW ty \in LevelTypes, p # <<>>, HasType(ty, Head(p))
  PROVE  TypeOfAttr(ty, Head(p)) \in LevelTypes
BY TypesAreSound

LEMMA CostIsNat ==
  ASSUME NEW p \in HasPaths, NEW ty \in LevelTypes
  PROVE  ChainCost(ty, p) \in Nat
<1> DEFINE Counted(x) == \A t \in LevelTypes : ChainCost(t, x) \in Nat
           bad == {Len(x) : x \in {y \in HasPaths : ~Counted(y)}}
<1> SUFFICES ASSUME bad # {} PROVE FALSE
  OBVIOUS
<1>1. PICK x \in HasPaths : ~Counted(x) /\ \A y \in HasPaths : ~Counted(y) => Len(x) <= Len(y)
  <2>1. bad \subseteq Nat
    BY PathsEnd
  <2>2. \E n \in bad : \A m \in bad : n <= m
    <3> HIDE DEF bad
    <3> QED BY <2>1, LeastNumber
  <2> QED BY <2>2
<1>2. PICK t \in LevelTypes : ChainCost(t, x) \notin Nat
  BY <1>1
<1>3. LeadsOn(t, x)
  <2>1. ~LeadsOn(t, x) => ChainCost(t, x) = 0
    BY CostOneStep
  <2> QED BY <1>2, <2>1
<1>4. x # <<>> /\ HasType(t, Head(x))
  BY <1>3 DEF LeadsOn
<1>5. TypeOfAttr(t, Head(x)) \in LevelTypes
  BY <1>4, NextType
<1>6. Tail(x) \in HasPaths /\ ~(Len(x) <= Len(Tail(x)))
  BY <1>4, PathsEnd
<1>7. Counted(Tail(x))
  BY <1>1, <1>6
<1>8. ChainCost(TypeOfAttr(t, Head(x)), Tail(x)) \in Nat
  BY <1>5, <1>7
<1>9. ChainCost(t, x) = (IF TypeOfAttr(t, Head(x)).k = "entity" THEN 1 ELSE 0) + ChainCost(TypeOfAttr(t, Head(x)), Tail(x))
  BY <1>3, CostOneStep
<1> QED BY <1>2, <1>8, <1>9

LEMMA FirstIsPath ==
  ASSUME NEW p \in HasPaths, NEW ty \in LevelTypes
  PROVE  FirstEntityPath(ty, p) \in Seq(STRING)
<1> DEFINE IsPath(x) == \A t \in LevelTypes : FirstEntityPath(t, x) \in Seq(STRING)
           bad == {Len(x) : x \in {y \in HasPaths : ~IsPath(y)}}
<1> SUFFICES ASSUME bad # {} PROVE FALSE
  OBVIOUS
<1>1. PICK x \in HasPaths : ~IsPath(x) /\ \A y \in HasPaths : ~IsPath(y) => Len(x) <= Len(y)
  <2>1. bad \subseteq Nat
    BY PathsEnd
  <2>2. \E n \in bad : \A m \in bad : n <= m
    <3> HIDE DEF bad
    <3> QED BY <2>1, LeastNumber
  <2> QED BY <2>2
<1>2. PICK t \in LevelTypes : FirstEntityPath(t, x) \notin Seq(STRING)
  BY <1>1
<1> DEFINE first == FirstEntityPath(t, x)
           rest == FirstEntityPath(TypeOfAttr(t, Head(x)), Tail(x))
<1>3. LeadsOn(t, x)
  <2>1. ~LeadsOn(t, x) => first = <<>>
    BY CostOneStep
  <2>2. <<>> \in Seq(STRING)
    OBVIOUS
  <2> QED BY <1>2, <2>1, <2>2
<1>4. x # <<>> /\ HasType(t, Head(x)) /\ Head(x) \in STRING
  BY <1>3, PathsEnd DEF LeadsOn
<1>5. TypeOfAttr(t, Head(x)) \in LevelTypes
  BY <1>4, NextType
<1>6. Tail(x) \in HasPaths /\ ~(Len(x) <= Len(Tail(x)))
  BY <1>4, PathsEnd
<1>7. rest \in Seq(STRING)
  BY <1>1, <1>5, <1>6
<1>8. first \in {<<Head(x)>>, <<>>, <<Head(x)>> \o rest}
  BY <1>3, CostOneStep
<1> HIDE DEF first, rest
<1>9. <<Head(x)>> \in Seq(STRING) /\ <<>> \in Seq(STRING) /\ <<Head(x)>> \o rest \in Seq(STRING)
  BY <1>4, <1>7
<1> QED BY <1>2, <1>8, <1>9 DEF first

\* What is so of a value where a path of a type is walked from it: the
\* entity is near, or the first entity on the way is.
Settled(s, q, v, p, ty, m) ==
  /\ v.t = "uid" => v.u \in Near(s, q, m)
  /\ v.t = "record" /\ FirstEntityPath(ty, p) # <<>> =>
       \A w : Follows(v, FirstEntityPath(ty, p), w) /\ w.t = "uid" => w.u \in Near(s, q, m + 1)

\* The parts of a record lead where the record does.
LEMMA SettledField ==
  ASSUME NEW s, NEW q, NEW v \in LevelValues, NEW p \in HasPaths, NEW ty \in LevelTypes, NEW m \in Nat,
         Settled(s, q, v, p, ty, m), v.t = "record", LeadsOn(ty, p), Head(p) \in DOMAIN v.m,
         v.m[Head(p)].t = "uid" => TypeOfAttr(ty, Head(p)).k = "entity",
         v.m[Head(p)].t = "record" => TypeOfAttr(ty, Head(p)).k # "entity"
  PROVE  Settled(s, q, v.m[Head(p)], Tail(p), TypeOfAttr(ty, Head(p)),
                 IF TypeOfAttr(ty, Head(p)).k = "entity" THEN m + 1 ELSE m)
<1> DEFINE a == Head(p)
           x == v.m[a]
           next == TypeOfAttr(ty, a)
           first == FirstEntityPath(ty, p)
           rest == FirstEntityPath(next, Tail(p))
<1>1. first = IF next.k = "entity" THEN <<a>> ELSE IF rest = <<>> THEN <<>> ELSE <<a>> \o rest
  BY CostOneStep
<1>2. p # <<>> /\ a \in STRING /\ Tail(p) \in HasPaths
  BY PathsEnd DEF LeadsOn
<1>3. first # <<>> => \A w : Follows(v, first, w) /\ w.t = "uid" => w.u \in Near(s, q, m + 1)
  BY DEF Settled
<1>4. ASSUME x.t = "uid" PROVE next.k = "entity" /\ x.u \in Near(s, q, m + 1)
  <2>1. next.k = "entity" /\ first = <<a>>
    BY <1>1, <1>4
  <2>2. Follows(x, <<>>, x)
    BY FollowsNothing
  <2>3. <<>> \in Seq(STRING) /\ <<a>> \o <<>> = <<a>>
    BY <1>2
  <2>4. Follows(v, <<a>> \o <<>>, x)
    <3> HIDE DEF x
    <3>1. x = v.m[a]
      BY DEF x
    <3> HIDE DEF a
    <3> QED BY <1>2, <2>2, <2>3, <3>1, FollowsOn DEF a
  <2>5. Follows(v, first, x) /\ first # <<>>
    BY <2>1, <2>3, <2>4
  <2> QED BY <1>3, <1>4, <2>1, <2>5
<1>5. ASSUME x.t = "record", rest # <<>>, NEW w, Follows(x, rest, w), w.t = "uid"
      PROVE  next.k # "entity" /\ w.u \in Near(s, q, m + 1)
  <2>1. next.k # "entity"
    BY <1>5
  <2>2. rest \in Seq(STRING)
    <3>1. next \in LevelTypes
      BY <1>2, NextType DEF LeadsOn
    <3> QED BY <1>2, <3>1, FirstIsPath
  <2>3. first = <<a>> \o rest /\ first # <<>>
    <3>1. first = <<a>> \o rest
      BY <1>1, <1>5, <2>1
    <3>2. <<a>> \o rest # <<>>
      BY <1>2, <2>2
    <3> QED BY <3>1, <3>2
  <2>4. Follows(v, <<a>> \o rest, w)
    BY <1>2, <1>5, <2>2, FollowsOn
  <2> QED BY <1>3, <1>5, <2>1, <2>3, <2>4
<1>6. ASSUME x.t = "record" PROVE next.k # "entity"
  BY <1>6
<1> HIDE DEF a, x, next, first, rest
<1>7. Settled(s, q, x, Tail(p), next, IF next.k = "entity" THEN m + 1 ELSE m)
  BY <1>4, <1>5, <1>6 DEF Settled, rest
<1> QED BY <1>7 DEF a, x, next

\* What a value of a type has is of its attribute's type.
LEMMA AttrsTyped ==
  ASSUME NEW s \in SliceStores, NEW v \in LevelValues, NEW ty \in LevelTypes, OfType(v, ty)
  PROVE  /\ v.t = "uid" <=> ty.k = "entity"
         /\ v.t = "record" <=> ty.k = "record"
         /\ v.t = "record" => \A a \in DOMAIN v.m :
              v.m[a] \in LevelValues /\ HasType(ty, a) /\ OfType(v.m[a], TypeOfAttr(ty, a))
         /\ v.t = "uid" /\ v.u \in DOMAIN s => \A a \in DOMAIN s[v.u].attrs :
              /\ s[v.u].attrs[a] \in LevelValues /\ HasType(ty, a)
              /\ OfType(s[v.u].attrs[a], TypeOfAttr(ty, a))
              /\ ValueEUIDs(s[v.u].attrs[a]) \subseteq DataEUIDs(s[v.u])
<1>1. /\ v.t = "uid" <=> ty.k = "entity"
      /\ v.t = "record" <=> ty.k = "record"
      /\ v.t = "record" => AttrsOfType(v.m, ty)
      /\ v.t = "uid" /\ v.u \in DOMAIN s => AttrsOfType(s[v.u].attrs, ty)
  BY TypesAreSound
<1>2. v.t = "record" => \A a \in DOMAIN v.m : v.m[a] \in LevelValues
  BY ValuesAreValues DEF Fields, SeqElements
<1>3. \A u \in DOMAIN s : \A a \in DOMAIN s[u].attrs :
        s[u].attrs[a] \in LevelValues /\ ValueEUIDs(s[u].attrs[a]) \subseteq DataEUIDs(s[u])
  <2> SUFFICES ASSUME NEW u \in DOMAIN s, NEW a \in DOMAIN s[u].attrs
               PROVE  s[u].attrs[a] \in LevelValues /\ ValueEUIDs(s[u].attrs[a]) \subseteq DataEUIDs(s[u])
    OBVIOUS
  <2>1. s[u].attrs[a] \in LevelValues
    <3>1. s[u].attrs[a] \in SeqElements(s[u].attrs) \cup SeqElements(s[u].tags)
      BY DEF SeqElements
    <3> QED BY <3>1, ValuesAreValues
  <2> QED BY <2>1 DEF DataEUIDs, MapEUIDs
<1> QED BY <1>1, <1>2, <1>3 DEF AttrsOfType

\* A uid stands for itself.
LEMMA UidIsInIt ==
  ASSUME NEW v \in LevelValues, v.t = "uid"
  PROVE  v.u \in ValueEUIDs(v)
BY ValuesAreValues DEF ValueEUIDsStep, ValueEUIDsBody

\* A path that is walked with as much as it costs is walked in the slice as
\* in the store.
LEMMA Walked ==
  ASSUME NEW s \in SliceStores, NEW q \in SliceRequests, NEW L \in 0..MaxLevel,
         NEW p \in HasPaths, NEW v \in LevelValues, NEW ty \in LevelTypes, NEW m \in Nat,
         OfType(v, ty), m + ChainCost(ty, p) <= L, Settled(s, q, v, p, ty, m)
  PROVE  /\ HasAttrsIn(v, p, SliceAtLevel(s, q, L)) = HasAttrsIn(v, p, s)
         /\ ~IsMissing(HasAttrsIn(v, p, s))
<1> DEFINE sl == SliceAtLevel(s, q, L)
           Ready(x, w, t, n) == OfType(w, t) /\ n + ChainCost(t, x) <= L /\ Settled(s, q, w, x, t, n)
           Alike(x, w) == HasAttrsIn(w, x, sl) = HasAttrsIn(w, x, s) /\ ~IsMissing(HasAttrsIn(w, x, s))
           Good(x) == \A w \in LevelValues, t \in LevelTypes, n \in Nat : Ready(x, w, t, n) => Alike(x, w)
           bad == {Len(x) : x \in {y \in HasPaths : ~Good(y)}}
<1>1. sl \in LookedAt /\ s \in LookedAt
  BY DEF LookedAt
<1>2. /\ L \in Nat
      /\ \A u \in Near(s, q, L) : /\ u \in DOMAIN sl <=> u \in DOMAIN s
                                  /\ u \in DOMAIN s => sl[u] = s[u]
  <2>1. L \in Nat
    BY LevelAssumption
  <2>2. LooksLike(sl, s, Near(s, q, L))
    BY SliceIs
  <2> HIDE DEF sl
  <2> QED BY <2>1, <2>2 DEF LooksLike
<1> HIDE DEF sl
<1>3. ASSUME bad # {} PROVE FALSE
  <2>1. PICK x \in HasPaths : ~Good(x) /\ \A y \in HasPaths : ~Good(y) => Len(x) <= Len(y)
    <3>1. bad \subseteq Nat
      BY PathsEnd
    <3>2. \E n \in bad : \A k \in bad : n <= k
      <4> HIDE DEF bad
      <4> QED BY <1>3, <3>1, LeastNumber
    <3> HIDE DEF Good
    <3> QED BY <3>2
  <2>2. PICK w \in LevelValues, t \in LevelTypes, n \in Nat : Ready(x, w, t, n) /\ ~Alike(x, w)
    BY <2>1
  <2> DEFINE a == Head(x)
             next == TypeOfAttr(t, a)
             cost == ChainCost(t, x)
  <2>3. x # <<>>
    <3> SUFFICES ASSUME x = <<>> PROVE FALSE
      OBVIOUS
    <3>1. HasAttrsIn(w, x, sl) = Ok(BoolV(TRUE)) /\ HasAttrsIn(w, x, s) = Ok(BoolV(TRUE))
      BY <1>1, HasOneStep
    <3> QED BY <2>2, <3>1, ResultsDiffer
  <2>4. /\ Len(x) > 0 /\ Len(x) \in Nat /\ a \in STRING /\ Tail(x) \in HasPaths
        /\ Len(Tail(x)) = Len(x) - 1 /\ x \in Seq(STRING)
    BY <2>3, PathsEnd
  <2>5. Good(Tail(x))
    <3>1. ~(Len(x) <= Len(Tail(x)))
      BY <2>4
    <3> HIDE DEF Good
    <3> QED BY <2>1, <2>4, <3>1
  <2>6. /\ w.t = "uid" <=> t.k = "entity"
        /\ w.t = "record" <=> t.k = "record"
        /\ w.t = "record" => \A b \in DOMAIN w.m :
              w.m[b] \in LevelValues /\ HasType(t, b) /\ OfType(w.m[b], TypeOfAttr(t, b))
        /\ w.t = "uid" /\ w.u \in DOMAIN s => \A b \in DOMAIN s[w.u].attrs :
              /\ s[w.u].attrs[b] \in LevelValues /\ HasType(t, b)
              /\ OfType(s[w.u].attrs[b], TypeOfAttr(t, b))
              /\ ValueEUIDs(s[w.u].attrs[b]) \subseteq DataEUIDs(s[w.u])
    BY <2>2, AttrsTyped
  <2>7. cost \in Nat /\ n + cost <= L
    BY <2>2, CostIsNat
  \* What the head of the path leads to is walked on from.
  <2>8. ASSUME NEW y \in LevelValues, OfType(y, next), HasType(t, a),
               LeadsOn(t, x) => Settled(s, q, y, Tail(x), next, IF next.k = "entity" THEN n + 1 ELSE n)
        PROVE  Alike(Tail(x), y)
    <3>1. next \in LevelTypes
      BY <2>3, <2>8, NextType
    <3>2. CASE LeadsOn(t, x)
      <4> DEFINE n2 == IF next.k = "entity" THEN n + 1 ELSE n
      <4>1. cost = (IF next.k = "entity" THEN 1 ELSE 0) + ChainCost(next, Tail(x))
        BY <3>2, CostOneStep
      <4>2. ChainCost(next, Tail(x)) \in Nat
        BY <2>4, <3>1, CostIsNat
      <4>3. n2 \in Nat /\ n2 + ChainCost(next, Tail(x)) <= L
        <5> HIDE DEF next, cost
        <5> QED BY <1>2, <2>7, <4>1, <4>2
      <4>4. Ready(Tail(x), y, next, n2)
        BY <2>8, <3>2, <4>3
      <4> HIDE DEF n2, Ready, Alike, next
      <4> QED BY <2>5, <3>1, <4>3, <4>4
    <3>3. CASE ~LeadsOn(t, x)
      <4>1. Tail(x) = <<>>
        <5>1. ~(Len(x) > 1)
          BY <2>8, <3>3 DEF LeadsOn
        <5>2. Len(Tail(x)) = 0
          <6>1. Len(x) \in Nat /\ Len(x) > 0 /\ Len(Tail(x)) = Len(x) - 1
            BY <2>4
          <6>2. \A i \in Nat : i > 0 /\ ~(i > 1) => i - 1 = 0
            OBVIOUS
          <6> QED BY <5>1, <6>1, <6>2
        <5>3. Tail(x) \in Seq(STRING)
          BY <2>3, <2>4
        <5> QED BY <5>2, <5>3, EmptySeq
      <4>2. HasAttrsIn(y, Tail(x), sl) = Ok(BoolV(TRUE)) /\ HasAttrsIn(y, Tail(x), s) = Ok(BoolV(TRUE))
        BY <1>1, <2>4, <4>1, HasOneStep
      <4> QED BY <4>2, ResultsDiffer
    <3> QED BY <3>2, <3>3
  <2>9. CASE w.t \notin {"record", "uid"}
    <3>1. HasAttrsIn(w, x, sl) = Err("typeError") /\ HasAttrsIn(w, x, s) = Err("typeError")
      BY <1>1, <2>3, <2>9, HasOneStep
    <3>2. Alike(x, w)
      BY <3>1, ResultsDiffer
    <3> QED BY <2>2, <3>2
  <2>10. CASE w.t = "record"
    <3>1. \A es \in {sl, s} :
            HasAttrsIn(w, x, es) = IF a \in DOMAIN w.m THEN HasAttrsIn(w.m[a], Tail(x), es) ELSE Ok(BoolV(FALSE))
      BY <1>1, <2>3, <2>10, HasOneStep
    <3>2. CASE a \notin DOMAIN w.m
      <4>1. HasAttrsIn(w, x, sl) = Ok(BoolV(FALSE)) /\ HasAttrsIn(w, x, s) = Ok(BoolV(FALSE))
        BY <3>1, <3>2
      <4> QED BY <2>2, <4>1, ResultsDiffer
    <3>3. CASE a \in DOMAIN w.m
      <4>1. w.m[a] \in LevelValues /\ HasType(t, a) /\ OfType(w.m[a], next)
        BY <2>6, <2>10, <3>3
      <4>2. next \in LevelTypes
        BY <2>3, <4>1, NextType
      <4>3. w.m[a].t = "uid" <=> next.k = "entity"
        BY <4>1, <4>2, AttrsTyped
      <4>4. w.m[a].t = "record" <=> next.k = "record"
        BY <4>1, <4>2, AttrsTyped
      <4>5. LeadsOn(t, x) => Settled(s, q, w.m[a], Tail(x), next, IF next.k = "entity" THEN n + 1 ELSE n)
        BY <2>2, <2>10, <3>3, <4>3, <4>4, SettledField
      <4>6. Alike(Tail(x), w.m[a])
        <5> HIDE DEF Alike, next
        <5> QED BY <2>8, <4>1, <4>5
      <4> QED BY <2>2, <3>1, <3>3, <4>6
    <3> QED BY <3>2, <3>3
  <2>11. CASE w.t = "uid"
    <3>1. \A es \in {sl, s} :
            HasAttrsIn(w, x, es) = IF w.u \in DOMAIN es /\ a \in DOMAIN es[w.u].attrs
                                   THEN HasAttrsIn(es[w.u].attrs[a], Tail(x), es) ELSE Ok(BoolV(FALSE))
      BY <1>1, <2>3, <2>11, HasOneStep
    <3>2. w.u \in Near(s, q, n)
      BY <2>2, <2>11 DEF Settled
    <3>3. w.u \in Near(s, q, L)
      <4>1. n <= L
        <5> HIDE DEF cost
        <5> QED BY <1>2, <2>7
      <4> QED BY <1>2, <3>2, <4>1, NearGrows
    <3>4. CASE ~(w.u \in DOMAIN s /\ a \in DOMAIN s[w.u].attrs)
      <4>1. HasAttrsIn(w, x, sl) = Ok(BoolV(FALSE)) /\ HasAttrsIn(w, x, s) = Ok(BoolV(FALSE))
        BY <1>2, <3>1, <3>3, <3>4
      <4> QED BY <2>2, <4>1, ResultsDiffer
    <3>5. CASE w.u \in DOMAIN s /\ a \in DOMAIN s[w.u].attrs
      <4> DEFINE y == s[w.u].attrs[a]
      <4>1. y \in LevelValues /\ HasType(t, a) /\ OfType(y, next) /\ ValueEUIDs(y) \subseteq DataEUIDs(s[w.u])
        BY <2>6, <2>11, <3>5
      <4>2. ValueEUIDs(y) \subseteq Near(s, q, n + 1)
        BY <3>2, <3>5, <4>1, NearGrows
      <4>3. next \in LevelTypes
        BY <2>3, <4>1, NextType
      <4>4. y.t = "uid" <=> next.k = "entity"
        <5> HIDE DEF y, next
        <5> QED BY <4>1, <4>3, AttrsTyped
      <4>5. Settled(s, q, y, Tail(x), next, IF next.k = "entity" THEN n + 1 ELSE n)
        <5>1. FirstEntityPath(next, Tail(x)) \in Seq(STRING)
          BY <2>4, <4>3, FirstIsPath
        <5> HIDE DEF y, next
        <5>2. CASE y.t = "uid"
          BY <4>1, <4>2, <4>4, <5>2, UidIsInIt DEF Settled
        <5>3. CASE y.t # "uid"
          <6>1. \A z : Follows(y, FirstEntityPath(next, Tail(x)), z) /\ z.t = "uid" => z.u \in Near(s, q, n + 1)
            BY <4>1, <4>2, <5>1, FollowedUid
          <6> QED BY <4>4, <5>3, <6>1 DEF Settled
        <5> QED BY <5>2, <5>3
      <4>6. Alike(Tail(x), y)
        <5> HIDE DEF Alike, next, y
        <5> QED BY <2>8, <4>1, <4>5
      <4>7. HasAttrsIn(w, x, sl) = HasAttrsIn(y, Tail(x), sl) /\ HasAttrsIn(w, x, s) = HasAttrsIn(y, Tail(x), s)
        BY <1>2, <3>1, <3>3, <3>5
      <4> QED BY <2>2, <4>6, <4>7
    <3> QED BY <3>4, <3>5
  <2> QED BY <2>9, <2>10, <2>11
<1>4. Good(p)
  <2> HIDE DEF Good
  <2> QED BY <1>3
<1>5. Ready(p, v, ty, m)
  OBVIOUS
<1>6. Alike(p, v)
  <2> HIDE DEF Ready, Alike
  <2> QED BY <1>4, <1>5
<1> QED BY <1>6 DEF sl

-----------------------------------------------------------------------------
(* No operator finds an entity missing but those that look one up. *)

LEMMA BindsNoMissing ==
  ASSUME NEW c, NEW x, NEW y, ~IsMissing(c), ~IsMissing(x), ~IsMissing(y)
  PROVE  ~IsMissing(IteR(c, x, y)) /\ ~IsMissing(AndR(x, y)) /\ ~IsMissing(OrR(x, y))
<1>1. \A r : AsBool(r) = IF IsOk(r) THEN IF r.ok.t = "bool" THEN Ok(r.ok) ELSE Err("typeError") ELSE r
  BY DEF AsBool, AsKind, Bind
<1>2. \A r : ~IsMissing(r) => ~IsMissing(AsBool(r))
  BY <1>1, ResultsDiffer
<1>3. ~IsMissing(IteR(c, x, y))
  BY <1>2 DEF IteR, Bind
<1>4. ~IsMissing(AndR(x, y))
  BY <1>2, ResultsDiffer DEF AndR, Bind
<1>5. ~IsMissing(OrR(x, y))
  BY <1>2, ResultsDiffer DEF OrR, Bind
<1> QED BY <1>3, <1>4, <1>5

LEMMA UnaryNoMissing ==
  ASSUME NEW o, NEW x, ~IsMissing(x)
  PROVE  ~IsMissing(UnaryR(o, x))
<1>1. \A i : ~IsMissing(IntOrErr(i))
  BY ResultsDiffer DEF IntOrErr
<1>2. \A v : ~IsMissing(Apply1(o, v))
  BY <1>1, ResultsDiffer DEF Apply1
<1> QED BY <1>2 DEF UnaryR, Bind

\* An operator that looks no entity up is the same in every store.
LEMMA PlainBinary ==
  ASSUME NEW o, o \notin {"mem", "getTag", "hasTag"}, NEW x, NEW y, NEW es, NEW fs
  PROVE  /\ BinaryR(o, x, y, es) = BinaryR(o, x, y, fs)
         /\ ~IsMissing(x) /\ ~IsMissing(y) => ~IsMissing(BinaryR(o, x, y, es))
<1>1. \A v1, v2 : Apply2(o, v1, v2, es) = Apply2(o, v1, v2, fs)
  BY DEF Apply2
<1>2. \A i : ~IsMissing(IntOrErr(i))
  BY ResultsDiffer DEF IntOrErr
<1>3. \A v1, v2 : ~IsMissing(Apply2(o, v1, v2, es))
  BY <1>2, ResultsDiffer DEF Apply2
<1>4. \A ds : BinaryR(o, x, y, ds) = IF IsOk(x) THEN IF IsOk(y) THEN Apply2(o, x.ok, y.ok, ds) ELSE y ELSE x
  BY DEF BinaryR, Bind
<1> QED BY <1>1, <1>3, <1>4

\* The results of a list: those of the elements, or one that is no value.
LEMMA MapMIs ==
  ASSUME NEW n \in Nat, NEW rs, DOMAIN rs = 1..n
  PROVE  \/ /\ \A k \in 1..n : IsOk(rs[k])
            /\ MapM(rs) = Ok([k \in 1..n |-> rs[k].ok])
         \/ \E k \in 1..n : ~IsOk(rs[k]) /\ MapM(rs) = rs[k]
<1> DEFINE bad == {k \in 1..n : ~IsOk(rs[k])}
<1>1. MapM(rs) = IF bad = {} THEN Ok([k \in 1..n |-> rs[k].ok])
                 ELSE rs[CHOOSE k \in bad : \A j \in bad : k <= j]
  BY DEF MapM
<1>2. CASE bad = {}
  BY <1>1, <1>2
<1>3. CASE bad # {}
  <2>1. bad \subseteq Nat /\ bad \subseteq 1..n
    OBVIOUS
  <2> DEFINE k == CHOOSE k \in bad : \A j \in bad : k <= j
  <2>2. k \in bad
    <3>1. \E i \in bad : \A j \in bad : i <= j
      <4> HIDE DEF bad
      <4> QED BY <1>3, <2>1, LeastNumber
    <3> HIDE DEF bad
    <3> QED BY <3>1
  <2>3. MapM(rs) = rs[k]
    BY <1>1, <1>3
  <2> HIDE DEF k
  <2> QED BY <2>2, <2>3
<1> QED BY <1>2, <1>3

LEMMA ListsNoMissing ==
  ASSUME NEW n \in Nat, NEW rs, DOMAIN rs = 1..n, \A k \in 1..n : ~IsMissing(rs[k])
  PROVE  /\ ~IsMissing(SetR(rs)) /\ ~IsMissing(RecordR(rs))
         /\ \A f \in DOMAIN ExtFuns : ~IsMissing(CallR(f, rs))
<1>1. ~IsMissing(MapM(rs))
  BY MapMIs, ResultsDiffer
<1>2. \A f \in DOMAIN ExtFuns : \A args : ~IsMissing(ExtCall(f, args))
  BY ExtensionsKnowNoEntities, ResultsDiffer DEF ExtCall, IsMissing
<1>3. ~IsMissing(SetR(rs))
  BY <1>1, ResultsDiffer DEF SetR, Bind
<1>4. ~IsMissing(RecordR(rs))
  BY <1>1, ResultsDiffer DEF RecordR, Bind
<1>5. \A f \in DOMAIN ExtFuns : ~IsMissing(CallR(f, rs))
  BY <1>1, <1>2 DEF CallR, Bind
<1> QED BY <1>3, <1>4, <1>5

\* Two lists with the same keys are looked up at the same place.
KeysAgree(n, P, Q) == \A k \in 1..n : P[k][1] = Q[k][1]
LEMMA MadeAlike ==
  ASSUME NEW n \in Nat, NEW P, NEW Q, DOMAIN P = 1..n, DOMAIN Q = 1..n,
         KeysAgree(n, P, Q), NEW a \in DOMAIN MapMake(P)
  PROVE  \E k \in 1..n : MapMake(P)[a] = P[k][2] /\ MapMake(Q)[a] = Q[k][2]
<1> DEFINE IsFirst(R, k) == R[k][1] = a /\ \A j \in 1..(k - 1) : R[j][1] # a
           at == {k \in 1..n : P[k][1] = a}
<1>1. at # {}
  BY DEF MapMake
<1>2. PICK k \in at : \A j \in at : k <= j
  <2>1. at \subseteq Nat
    OBVIOUS
  <2> HIDE DEF at
  <2> QED BY <1>1, <2>1, LeastNumber
<1>3. k \in 1..n /\ IsFirst(P, k) /\ IsFirst(Q, k)
  <2>1. \A j \in 1..(k - 1) : j \in 1..n /\ ~(k <= j)
    BY <1>2
  <2> QED BY <1>2, <2>1 DEF KeysAgree
<1>4. \A i \in 1..n : IsFirst(P, i) => i = k
  <2> SUFFICES ASSUME NEW i \in 1..n, IsFirst(P, i), i # k PROVE FALSE
    OBVIOUS
  <2>1. CASE i < k
    BY <1>3, <2>1
  <2>2. CASE k < i
    BY <1>3, <2>2
  <2> QED BY <1>3, <2>1, <2>2
<1>5. \A i \in 1..n : IsFirst(Q, i) => i = k
  <2> SUFFICES ASSUME NEW i \in 1..n, IsFirst(Q, i), i # k PROVE FALSE
    OBVIOUS
  <2>1. CASE i < k
    BY <1>3, <2>1
  <2>2. CASE k < i
    BY <1>3, <2>2
  <2> QED BY <1>3, <2>1, <2>2
<1>6. MapMake(P)[a] = P[CHOOSE i \in 1..n : IsFirst(P, i)][2]
  BY DEF MapMake
<1>7. MapMake(Q)[a] = Q[CHOOSE i \in 1..n : IsFirst(Q, i)][2]
  <2>1. a \in {Q[i][1] : i \in 1..n}
    BY <1>3
  <2> QED BY <2>1 DEF MapMake
<1> HIDE DEF IsFirst
<1>8. (CHOOSE i \in 1..n : IsFirst(P, i)) = k /\ (CHOOSE i \in 1..n : IsFirst(Q, i)) = k
  BY <1>3, <1>4, <1>5
<1> QED BY <1>3, <1>6, <1>7, <1>8

-----------------------------------------------------------------------------
(* What a node comes to, and what is checked of it, one step at a time. *)

LEMMA OneStep ==
  ASSUME NEW x \in LevelNodes, NEW q \in SliceRequests, NEW es \in LookedAt
  PROVE  /\ x.op = "val" => EvaluateIn(x, q, es) = Ok(x.v)
         /\ x.op = "var" => EvaluateIn(x, q, es) = Ok(q[x.var])
         /\ x.op = "ite" => EvaluateIn(x, q, es) =
              IteR(EvaluateIn(x.c, q, es), EvaluateIn(x.x, q, es), EvaluateIn(x.y, q, es))
         /\ x.op = "and" => EvaluateIn(x, q, es) = AndR(EvaluateIn(x.x, q, es), EvaluateIn(x.y, q, es))
         /\ x.op = "or" => EvaluateIn(x, q, es) = OrR(EvaluateIn(x.x, q, es), EvaluateIn(x.y, q, es))
         /\ x.op = "unary" => EvaluateIn(x, q, es) = UnaryR(x.o, EvaluateIn(x.x, q, es))
         /\ x.op = "binary" => EvaluateIn(x, q, es) =
              BinaryR(x.o, EvaluateIn(x.x, q, es), EvaluateIn(x.y, q, es), es)
         /\ x.op = "hasAttr" => EvaluateIn(x, q, es) =
              IF IsOk(EvaluateIn(x.x, q, es)) THEN HasAttr(EvaluateIn(x.x, q, es).ok, x.a, es)
              ELSE EvaluateIn(x.x, q, es)
         /\ x.op = "extHasAttr" => EvaluateIn(x, q, es) =
              IF IsOk(EvaluateIn(x.x, q, es)) THEN HasAttrsIn(EvaluateIn(x.x, q, es).ok, x.path, es)
              ELSE EvaluateIn(x.x, q, es)
         /\ x.op = "getAttr" => EvaluateIn(x, q, es) =
              IF IsOk(EvaluateIn(x.x, q, es)) THEN GetAttr(EvaluateIn(x.x, q, es).ok, x.a, es)
              ELSE EvaluateIn(x.x, q, es)
         /\ x.op = "set" => EvaluateIn(x, q, es) = SetR([k \in DOMAIN x.xs |-> EvaluateIn(x.xs[k], q, es)])
         /\ x.op = "record" => EvaluateIn(x, q, es) =
              RecordR([k \in DOMAIN x.axs |-> BindAttr(x.axs[k][1], EvaluateIn(x.axs[k][2], q, es))])
         /\ x.op = "call" => EvaluateIn(x, q, es) =
              CallR(x.xfn, [k \in DOMAIN x.xs |-> EvaluateIn(x.xs[k], q, es)])
<1>1. EvaluateIn(x, q, es) = EvaluateStep(x, q, es, LAMBDA y : EvaluateIn(y, q, es),
                                          LAMBDA v, p : HasAttrsIn(v, p, es))
  BY NodesAreEvaluated
<1> QED BY <1>1 DEF EvaluateStep, Bind

LEMMA AccessStep ==
  ASSUME NEW x, NEW path, <<x, path>> \in Accesses, NEW q \in SliceRequests,
         NEW n \in 0..MaxLevel, NEW L \in 0..MaxLevel, CheckEntityAccessLevel(x, n, L, q.action, path)
  PROVE  /\ x.op \in {"var", "val", "ite", "getAttr", "binary", "record"}
         /\ x.op = "val" => x.v = q.action
         /\ x.op = "ite" => /\ CheckLevel(x.c, L, q.action)
                            /\ CheckEntityAccessLevel(x.x, n, L, q.action, path)
                            /\ CheckEntityAccessLevel(x.y, n, L, q.action, path)
         /\ x.op = "getAttr" /\ OnEntity(x.x) =>
              n > 0 /\ CheckEntityAccessLevel(x.x, n - 1, L, q.action, <<>>)
         /\ x.op = "getAttr" /\ ~OnEntity(x.x) =>
              CheckEntityAccessLevel(x.x, n, L, q.action, <<x.a>> \o path)
         /\ x.op = "binary" =>
              /\ x.o = "getTag" /\ n > 0 /\ CheckEntityAccessLevel(x.x, n - 1, L, q.action, <<>>)
              /\ CheckLevel(x.y, L, q.action)
         /\ x.op = "record" =>
              /\ path # <<>> /\ Head(path) \in DOMAIN MapMake(x.axs)
              /\ CheckEntityAccessLevel(MapMake(x.axs)[Head(path)], n, L, q.action, Tail(path))
              /\ \A k \in DOMAIN x.axs : CheckLevel(x.axs[k][2], L, q.action)
<1> DEFINE a == <<x, path>>
<1>1. a \in Accesses /\ a[1] = x /\ a[2] = path
  OBVIOUS
<1>2. CheckEntityAccessLevel(a[1], n, L, q.action, a[2]) <=>
         CheckEntityAccessLevelStep(a[1], n, L, q.action, a[2])
  <2> HIDE DEF a
  <2> QED BY <1>1, LevelsAreChecked
<1>3. CheckEntityAccessLevelStep(x, n, L, q.action, path)
  <2> HIDE DEF a
  <2> QED BY <1>1, <1>2
<1> QED BY <1>3 DEF CheckEntityAccessLevelStep, CheckEntityAccessLevelBody

LEMMA LevelStep ==
  ASSUME NEW x \in LevelNodes, NEW q \in SliceRequests, NEW L \in 0..MaxLevel, CheckLevel(x, L, q.action)
  PROVE  /\ Dereferences(x) => /\ L > 0 /\ CheckEntityAccessLevel(x.x, L - 1, L, q.action, <<>>)
                               /\ x.op = "binary" => CheckLevel(x.y, L, q.action)
         /\ x.op = "extHasAttr" /\ OnEntity(x.x) =>
              /\ L > ChainCost(x.x.ty, x.path)
              /\ CheckEntityAccessLevel(x.x, L - ChainCost(x.x.ty, x.path) - 1, L, q.action, <<>>)
         /\ x.op = "extHasAttr" /\ ~OnEntity(x.x) => CheckLevel(x.x, L, q.action)
         /\ x.op = "extHasAttr" /\ x.x.ty.k = "record" =>
              /\ L >= ChainCost(x.x.ty, x.path)
              /\ FirstEntityPath(x.x.ty, x.path) # <<>> =>
                   CheckEntityAccessLevel(x.x, L - ChainCost(x.x.ty, x.path), L, q.action,
                                          FirstEntityPath(x.x.ty, x.path))
         /\ x.op = "ite" => /\ CheckLevel(x.c, L, q.action) /\ CheckLevel(x.x, L, q.action)
                            /\ CheckLevel(x.y, L, q.action)
         /\ x.op \in {"and", "or"} \/ (x.op = "binary" /\ ~Dereferences(x)) =>
              CheckLevel(x.x, L, q.action) /\ CheckLevel(x.y, L, q.action)
         /\ x.op = "unary" \/ (x.op \in {"hasAttr", "getAttr"} /\ ~OnEntity(x.x)) => CheckLevel(x.x, L, q.action)
         /\ x.op \in {"call", "set"} => \A k \in DOMAIN x.xs : CheckLevel(x.xs[k], L, q.action)
         /\ x.op = "record" => \A k \in DOMAIN x.axs : CheckLevel(x.axs[k][2], L, q.action)
<1>1. CheckLevelStep(x, L, q.action)
  BY LevelsAreChecked
<1> QED BY <1>1 DEF CheckLevelStep, CheckLevelBody, CheckPath, Dereferences, OnEntity

-----------------------------------------------------------------------------
(* What is said of a node. *)

SameAt(x, s, q, L) ==
  /\ EvaluateIn(x, q, SliceAtLevel(s, q, L)) = EvaluateIn(x, q, s)
  /\ ClosedAtLevel(s, q, L) => ~IsMissing(EvaluateIn(x, q, s))
LeadsNear(x, path, n, s, q) ==
  IsOk(EvaluateIn(x, q, s)) =>
    \A w : Follows(EvaluateIn(x, q, s).ok, path, w) /\ w.t = "uid" => w.u \in Near(s, q, n + 1)
ValidIsSame(x, s, q, L) == CheckLevel(x, L, q.action) => SameAt(x, s, q, L)
AccessIsNear(x, s, q, L) ==
  \A n \in 0..L : \A path :
    <<x, path>> \in Accesses /\ CheckEntityAccessLevel(x, n, L, q.action, path)
      => SameAt(x, s, q, L) /\ LeadsNear(x, path, n, s, q)
SoundNode(x, s, q, L) == ValidIsSame(x, s, q, L) /\ AccessIsNear(x, s, q, L)

\* Near a request the slice looks like the store, and a closed store has all of it.
LEMMA LookupsAlike ==
  ASSUME NEW s, NEW q, NEW L, NEW u \in Near(s, q, L), NEW sl, sl = SliceAtLevel(s, q, L)
  PROVE  /\ AncestorsOrEmpty(u, sl) = AncestorsOrEmpty(u, s)
         /\ AttrsOrEmpty(u, sl) = AttrsOrEmpty(u, s) /\ TagsOrEmpty(u, sl) = TagsOrEmpty(u, s)
         /\ Attrs(u, sl) = Attrs(u, s) /\ Tags(u, sl) = Tags(u, s)
         /\ ClosedAtLevel(s, q, L) => /\ Attrs(u, s) = Ok(s[u].attrs) /\ Tags(u, s) = Ok(s[u].tags)
                                      /\ u \in DOMAIN s
<1>1. /\ u \in DOMAIN sl <=> u \in DOMAIN s
      /\ u \in DOMAIN s => sl[u] = s[u]
  <2>1. LooksLike(sl, s, Near(s, q, L))
    BY SliceIs
  <2> QED BY <2>1 DEF LooksLike
<1>2. ClosedAtLevel(s, q, L) => u \in DOMAIN s
  BY DEF ClosedAtLevel, Near
<1>3. \A es : Attrs(u, es) = IF u \in DOMAIN es THEN Ok(es[u].attrs) ELSE Err("entityDoesNotExist")
  BY ResultsDiffer DEF Attrs, DataOrErr, FindOrErr, Bind
<1>4. \A es : Tags(u, es) = IF u \in DOMAIN es THEN Ok(es[u].tags) ELSE Err("entityDoesNotExist")
  BY ResultsDiffer DEF Tags, DataOrErr, FindOrErr, Bind
<1>5. /\ AncestorsOrEmpty(u, sl) = AncestorsOrEmpty(u, s)
      /\ AttrsOrEmpty(u, sl) = AttrsOrEmpty(u, s) /\ TagsOrEmpty(u, sl) = TagsOrEmpty(u, s)
  BY <1>1 DEF AncestorsOrEmpty, AttrsOrEmpty, TagsOrEmpty
<1> QED BY <1>1, <1>2, <1>3, <1>4, <1>5

\* An entity that is near is dereferenced alike.
LEMMA DereferencedAlike ==
  ASSUME NEW s, NEW q, NEW L, NEW v, NEW a, v.t = "uid" => v.u \in Near(s, q, L)
  PROVE  /\ HasAttr(v, a, SliceAtLevel(s, q, L)) = HasAttr(v, a, s) /\ ~IsMissing(HasAttr(v, a, s))
         /\ GetAttr(v, a, SliceAtLevel(s, q, L)) = GetAttr(v, a, s)
         /\ ClosedAtLevel(s, q, L) => ~IsMissing(GetAttr(v, a, s))
<1> DEFINE sl == SliceAtLevel(s, q, L)
<1>0. v.t = "uid" => v.u \in Near(s, q, L) /\ sl = SliceAtLevel(s, q, L)
  OBVIOUS
<1> HIDE DEF sl
<1>1. v.t = "uid" =>
        /\ AttrsOrEmpty(v.u, sl) = AttrsOrEmpty(v.u, s) /\ Attrs(v.u, sl) = Attrs(v.u, s)
        /\ ClosedAtLevel(s, q, L) => Attrs(v.u, s) = Ok(s[v.u].attrs)
  BY <1>0, LookupsAlike
<1>2. \A es : HasAttr(v, a, es) = IF v.t = "record" THEN Ok(BoolV(a \in DOMAIN v.m))
                                  ELSE IF v.t = "uid" THEN Ok(BoolV(a \in DOMAIN AttrsOrEmpty(v.u, es)))
                                  ELSE Err("typeError")
  BY ResultsDiffer DEF HasAttr, AttrsOf, Bind
<1>3. HasAttr(v, a, sl) = HasAttr(v, a, s) /\ ~IsMissing(HasAttr(v, a, s))
  BY <1>1, <1>2, ResultsDiffer
<1>4. \A m : ~IsMissing(FindOrErr(m, a, "attrDoesNotExist"))
  BY ResultsDiffer DEF FindOrErr
<1>5. \A es : GetAttr(v, a, es) = IF v.t = "record" THEN FindOrErr(v.m, a, "attrDoesNotExist")
                                  ELSE IF v.t = "uid" THEN
                                    IF IsOk(Attrs(v.u, es)) THEN FindOrErr(Attrs(v.u, es).ok, a, "attrDoesNotExist")
                                    ELSE Attrs(v.u, es)
                                  ELSE Err("typeError")
  BY ResultsDiffer DEF GetAttr, AttrsOf, Bind
<1>6. GetAttr(v, a, sl) = GetAttr(v, a, s)
  BY <1>1, <1>5
<1>7. ClosedAtLevel(s, q, L) => ~IsMissing(GetAttr(v, a, s))
  BY <1>1, <1>4, <1>5, ResultsDiffer
<1> QED BY <1>3, <1>6, <1>7 DEF sl

LEMMA AppliedAlike ==
  ASSUME NEW s, NEW q, NEW L, NEW v, NEW v2, NEW o,
         o \in {"mem", "getTag", "hasTag"}, v.t = "uid" => v.u \in Near(s, q, L)
  PROVE  /\ Apply2(o, v, v2, SliceAtLevel(s, q, L)) = Apply2(o, v, v2, s)
         /\ ClosedAtLevel(s, q, L) => ~IsMissing(Apply2(o, v, v2, s))
<1> DEFINE sl == SliceAtLevel(s, q, L)
<1>0. v.t = "uid" => v.u \in Near(s, q, L) /\ sl = SliceAtLevel(s, q, L)
  OBVIOUS
<1> HIDE DEF sl
<1>1. v.t = "uid" =>
        /\ AncestorsOrEmpty(v.u, sl) = AncestorsOrEmpty(v.u, s)
        /\ TagsOrEmpty(v.u, sl) = TagsOrEmpty(v.u, s) /\ Tags(v.u, sl) = Tags(v.u, s)
        /\ ClosedAtLevel(s, q, L) => Tags(v.u, s) = Ok(s[v.u].tags)
  BY <1>0, LookupsAlike
<1>2. ASSUME o = "mem" PROVE Apply2(o, v, v2, sl) = Apply2(o, v, v2, s) /\ ~IsMissing(Apply2(o, v, v2, s))
  <2>1. \A es : Apply2(o, v, v2, es) = IF v.t = "uid" /\ v2.t = "uid" THEN Ok(BoolV(InE(v.u, v2.u, es)))
                                       ELSE IF v.t = "uid" /\ v2.t = "set" THEN InS(v.u, v2.elts, es)
                                       ELSE Err("typeError")
    BY <1>2 DEF Apply2
  <2>2. v.t = "uid" => \A u2 : InE(v.u, u2, sl) <=> InE(v.u, u2, s)
    BY <1>1 DEF InE
  <2>3. v.t = "uid" => Ok(BoolV(InE(v.u, v2.u, sl))) = Ok(BoolV(InE(v.u, v2.u, s)))
    BY <1>1 DEF InE
  <2>4. v.t = "uid" => InS(v.u, v2.elts, sl) = InS(v.u, v2.elts, s)
    <3>1. v.t = "uid" => ((\E w \in v2.elts : InE(v.u, w.u, sl)) <=> \E w \in v2.elts : InE(v.u, w.u, s))
      BY <2>2
    <3> QED BY <3>1 DEF InS
  <2>5. ~IsMissing(InS(v.u, v2.elts, s))
    BY ResultsDiffer DEF InS
  <2> QED BY <2>1, <2>3, <2>4, <2>5, ResultsDiffer
<1>3. ASSUME o = "hasTag" PROVE Apply2(o, v, v2, sl) = Apply2(o, v, v2, s) /\ ~IsMissing(Apply2(o, v, v2, s))
  <2>1. \A es : Apply2(o, v, v2, es) = IF v.t = "uid" /\ v2.t = "string"
                                       THEN Ok(BoolV(v2.s \in DOMAIN TagsOrEmpty(v.u, es))) ELSE Err("typeError")
    BY <1>3 DEF Apply2, HasTag
  <2> QED BY <1>1, <2>1, ResultsDiffer
<1>4. ASSUME o = "getTag"
      PROVE  /\ Apply2(o, v, v2, sl) = Apply2(o, v, v2, s)
             /\ ClosedAtLevel(s, q, L) => ~IsMissing(Apply2(o, v, v2, s))
  <2>1. \A es : Apply2(o, v, v2, es) = IF v.t = "uid" /\ v2.t = "string" THEN
                                         IF IsOk(Tags(v.u, es)) THEN FindOrErr(Tags(v.u, es).ok, v2.s, "tagDoesNotExist")
                                         ELSE Tags(v.u, es)
                                       ELSE Err("typeError")
    BY <1>4 DEF Apply2, GetTag, Bind
  <2>2. \A m : ~IsMissing(FindOrErr(m, v2.s, "tagDoesNotExist"))
    BY ResultsDiffer DEF FindOrErr
  <2> QED BY <1>1, <2>1, <2>2, ResultsDiffer
<1> QED BY <1>2, <1>3, <1>4 DEF sl

LEMMA LookedUpBinary ==
  ASSUME NEW s, NEW q, NEW L, NEW o, NEW x, NEW y, o \in {"mem", "getTag", "hasTag"},
         IsOk(x) => (x.ok.t = "uid" => x.ok.u \in Near(s, q, L))
  PROVE  /\ BinaryR(o, x, y, SliceAtLevel(s, q, L)) = BinaryR(o, x, y, s)
         /\ ClosedAtLevel(s, q, L) /\ ~IsMissing(x) /\ ~IsMissing(y) => ~IsMissing(BinaryR(o, x, y, s))
<1>1. \A es : BinaryR(o, x, y, es) = IF IsOk(x) THEN IF IsOk(y) THEN Apply2(o, x.ok, y.ok, es) ELSE y ELSE x
  BY DEF BinaryR, Bind
<1>2. CASE IsOk(x)
  <2> DEFINE v == x.ok
             w == y.ok
  <2>1. v.t = "uid" => v.u \in Near(s, q, L)
    BY <1>2
  <2> HIDE DEF v, w
  <2>2. Apply2(o, v, w, SliceAtLevel(s, q, L)) = Apply2(o, v, w, s)
    BY <2>1, AppliedAlike
  <2>3. ClosedAtLevel(s, q, L) => ~IsMissing(Apply2(o, v, w, s))
    BY <2>1, AppliedAlike
  <2> QED BY <1>1, <1>2, <2>2, <2>3 DEF v, w
<1>3. CASE ~IsOk(x)
  BY <1>1, <1>3
<1> QED BY <1>2, <1>3

\* A result has the type of its expression.
LEMMA ResultIs ==
  ASSUME NEW x \in LevelNodes, NEW s \in SliceStores, NEW q \in SliceRequests, IsOk(EvaluateIn(x, q, s))
  PROVE  /\ EvaluateIn(x, q, s).ok \in LevelValues /\ x.ty \in LevelTypes
         /\ OfType(EvaluateIn(x, q, s).ok, x.ty)
         /\ EvaluateIn(x, q, s).ok.t = "uid" <=> x.ty.k = "entity"
         /\ EvaluateIn(x, q, s).ok.t = "record" <=> x.ty.k = "record"
<1>1. OfType(EvaluateIn(x, q, s).ok, x.ty)
  BY TypesAreSound
<1>2. x.ty \in LevelTypes
  BY NodesAreExpressions
<1>3. EvaluateIn(x, q, s).ok \in LevelValues
  <2>1. EvaluateIn(x, q, s) \in NodeResults
    BY DEF NodeResults
  <2> QED BY <2>1, TypesAreSound
<1> QED BY <1>1, <1>2, <1>3, AttrsTyped

\* An access to an entity finds one that is near.
LEMMA AccessedUid ==
  ASSUME NEW y, NEW s, NEW q, NEW L \in Nat, AccessIsNear(y, s, q, L), <<y, <<>>>> \in Accesses,
         NEW n \in 0..L, CheckEntityAccessLevel(y, n, L, q.action, <<>>)
  PROVE  /\ SameAt(y, s, q, L)
         /\ IsOk(EvaluateIn(y, q, s)) /\ EvaluateIn(y, q, s).ok.t = "uid" =>
              EvaluateIn(y, q, s).ok.u \in Near(s, q, n + 1)
<1>1. SameAt(y, s, q, L) /\ LeadsNear(y, <<>>, n, s, q)
  BY DEF AccessIsNear
<1>2. Follows(EvaluateIn(y, q, s).ok, <<>>, EvaluateIn(y, q, s).ok)
  BY FollowsNothing
<1> QED BY <1>1, <1>2 DEF LeadsNear

\* What is looked up in the store, if anything.
NearOperand(x, s, q, L) ==
  Dereferences(x) /\ IsOk(EvaluateIn(x.x, q, s)) /\ EvaluateIn(x.x, q, s).ok.t = "uid" =>
    EvaluateIn(x.x, q, s).ok.u \in Near(s, q, L)

\* A node comes to the same in the slice if its parts do and what it looks up
\* is near.
LEMMA PartsStep ==
  ASSUME NEW s \in SliceStores, NEW q \in SliceRequests, NEW L \in 0..MaxLevel, NEW x \in LevelNodes,
         \A y \in NodeParts(x) : SameAt(y, s, q, L), NearOperand(x, s, q, L), x.op # "extHasAttr"
  PROVE  SameAt(x, s, q, L)
<1> DEFINE sl == SliceAtLevel(s, q, L)
           V(y) == EvaluateIn(y, q, s)
           W(y) == EvaluateIn(y, q, sl)
           closed == ClosedAtLevel(s, q, L)
<1>1. sl \in LookedAt /\ s \in LookedAt /\ L \in Nat
  BY LevelAssumption DEF LookedAt
<1>2. \A y : SameAt(y, s, q, L) <=> (W(y) = V(y) /\ (closed => ~IsMissing(V(y))))
  BY DEF SameAt
<1>3. \A y \in NodeParts(x) : W(y) = V(y) /\ (closed => ~IsMissing(V(y))) /\ y \in LevelNodes
  BY <1>2, NodesAreExpressions
<1>4. SUFFICES W(x) = V(x) /\ (closed => ~IsMissing(V(x)))
  BY <1>2
<1>5. /\ x.op \in Ops
      /\ x.op \in {"set", "call"} => Len(x.xs) \in Nat /\ DOMAIN x.xs = 1..Len(x.xs)
      /\ x.op = "record" => Len(x.axs) \in Nat /\ DOMAIN x.axs = 1..Len(x.axs)
      /\ x.op = "call" => x.xfn \in DOMAIN ExtFuns
  BY NodesAreExpressions DEF IsNode
<1> HIDE DEF sl, closed
<1>6. CASE x.op \in {"val", "var"}
  <2>1. CASE x.op = "val"
    <3>1. W(x) = Ok(x.v) /\ V(x) = Ok(x.v)
      BY <1>1, <2>1, OneStep
    <3> QED BY <3>1, ResultsDiffer
  <2>2. CASE x.op = "var"
    <3>1. W(x) = Ok(q[x.var]) /\ V(x) = Ok(q[x.var])
      BY <1>1, <2>2, OneStep
    <3> QED BY <3>1, ResultsDiffer
  <2> QED BY <1>6, <2>1, <2>2
<1>7. CASE x.op = "ite"
  <2>1. x.c \in NodeParts(x) /\ x.x \in NodeParts(x) /\ x.y \in NodeParts(x)
    BY <1>7 DEF NodeParts
  <2>3. /\ W(x.c) = V(x.c) /\ W(x.x) = V(x.x) /\ W(x.y) = V(x.y)
        /\ closed => ~IsMissing(V(x.c)) /\ ~IsMissing(V(x.x)) /\ ~IsMissing(V(x.y))
    BY <1>3, <2>1
  <2>4. W(x) = IteR(W(x.c), W(x.x), W(x.y)) /\ V(x) = IteR(V(x.c), V(x.x), V(x.y))
    BY <1>1, <1>7, OneStep
  <2> HIDE DEF V, W
  <2> QED BY <2>3, <2>4, BindsNoMissing
<1>8. CASE x.op \in {"and", "or"}
  <2>1. x.x \in NodeParts(x) /\ x.y \in NodeParts(x)
    BY <1>8 DEF NodeParts
  <2>3. /\ W(x.x) = V(x.x) /\ W(x.y) = V(x.y)
        /\ closed => ~IsMissing(V(x.x)) /\ ~IsMissing(V(x.y))
    BY <1>3, <2>1
  <2>4. \/ W(x) = AndR(W(x.x), W(x.y)) /\ V(x) = AndR(V(x.x), V(x.y))
        \/ W(x) = OrR(W(x.x), W(x.y)) /\ V(x) = OrR(V(x.x), V(x.y))
    BY <1>1, <1>8, OneStep
  <2> HIDE DEF V, W
  <2> QED BY <2>3, <2>4, BindsNoMissing
<1>9. CASE x.op = "unary"
  <2>1. x.x \in NodeParts(x)
    BY <1>9 DEF NodeParts
  <2>2. W(x.x) = V(x.x) /\ (closed => ~IsMissing(V(x.x)))
    BY <1>3, <2>1
  <2>3. W(x) = UnaryR(x.o, W(x.x)) /\ V(x) = UnaryR(x.o, V(x.x))
    BY <1>1, <1>9, OneStep
  <2> HIDE DEF V, W
  <2> QED BY <2>2, <2>3, UnaryNoMissing
<1>10. CASE x.op = "binary" /\ ~Dereferences(x)
  <2>1. x.x \in NodeParts(x) /\ x.y \in NodeParts(x)
    BY <1>10 DEF NodeParts
  <2>3. /\ W(x.x) = V(x.x) /\ W(x.y) = V(x.y)
        /\ closed => ~IsMissing(V(x.x)) /\ ~IsMissing(V(x.y))
    BY <1>3, <2>1
  <2>4. W(x) = BinaryR(x.o, W(x.x), W(x.y), sl) /\ V(x) = BinaryR(x.o, V(x.x), V(x.y), s)
    BY <1>1, <1>10, OneStep
  <2>5. x.o \notin {"mem", "getTag", "hasTag"}
    BY <1>10 DEF Dereferences
  <2>6. \A a, b : /\ BinaryR(x.o, a, b, sl) = BinaryR(x.o, a, b, s)
                  /\ ~IsMissing(a) /\ ~IsMissing(b) => ~IsMissing(BinaryR(x.o, a, b, s))
    BY <2>5, PlainBinary
  <2> HIDE DEF V, W
  <2> QED BY <2>3, <2>4, <2>6
<1>11. ASSUME Dereferences(x)
       PROVE  /\ x.x \in NodeParts(x) /\ W(x.x) = V(x.x) /\ (closed => ~IsMissing(V(x.x)))
              /\ IsOk(V(x.x)) => (V(x.x).ok.t = "uid" => V(x.x).ok.u \in Near(s, q, L))
  <2>1. x.x \in NodeParts(x)
    BY <1>11 DEF NodeParts, Dereferences
  <2>2. IsOk(V(x.x)) => (V(x.x).ok.t = "uid" => V(x.x).ok.u \in Near(s, q, L))
    BY <1>11 DEF NearOperand
  <2> HIDE DEF V, W
  <2> QED BY <1>3, <2>1, <2>2
<1>12. CASE x.op = "binary" /\ Dereferences(x)
  <2>1. x.y \in NodeParts(x)
    BY <1>12 DEF NodeParts
  <2>2. W(x.y) = V(x.y) /\ (closed => ~IsMissing(V(x.y)))
    BY <1>3, <2>1
  <2>3. W(x) = BinaryR(x.o, W(x.x), W(x.y), sl) /\ V(x) = BinaryR(x.o, V(x.x), V(x.y), s)
    BY <1>1, <1>12, OneStep
  <2>4. x.o \in {"mem", "getTag", "hasTag"}
    BY <1>12 DEF Dereferences
  <2> DEFINE a == V(x.x)
             b == V(x.y)
             o == x.o
  <2>5. o \in {"mem", "getTag", "hasTag"} /\ (IsOk(a) => (a.ok.t = "uid" => a.ok.u \in Near(s, q, L)))
    BY <1>11, <1>12, <2>4
  <2>6. V(x) = BinaryR(o, a, b, s) /\ W(x) = BinaryR(o, a, b, SliceAtLevel(s, q, L))
    BY <1>11, <1>12, <2>2, <2>3 DEF sl
  <2>7. closed => ClosedAtLevel(s, q, L) /\ ~IsMissing(a) /\ ~IsMissing(b)
    BY <1>11, <1>12, <2>2 DEF closed
  <2> HIDE DEF V, W, a, b, o
  <2>8. /\ BinaryR(o, a, b, SliceAtLevel(s, q, L)) = BinaryR(o, a, b, s)
        /\ ClosedAtLevel(s, q, L) /\ ~IsMissing(a) /\ ~IsMissing(b) => ~IsMissing(BinaryR(o, a, b, s))
    BY <2>5, LookedUpBinary
  <2> QED BY <2>6, <2>7, <2>8
\* Nor is a record dereferenced in the store.
<1>13. CASE x.op \in {"hasAttr", "getAttr"}
  <2>1. /\ W(x.x) = V(x.x) /\ (closed => ~IsMissing(V(x.x)))
        /\ IsOk(V(x.x)) => (V(x.x).ok.t = "uid" => V(x.x).ok.u \in Near(s, q, L))
    <3>1. CASE OnEntity(x.x)
      BY <1>11, <1>13, <3>1 DEF Dereferences
    <3>2. CASE ~OnEntity(x.x)
      <4>1. x.x \in NodeParts(x)
        BY <1>13, <3>2 DEF NodeParts
      <4>2. x.x \in LevelNodes
        BY <1>3, <4>1
      <4>3. IsOk(V(x.x)) => V(x.x).ok.t # "uid"
        BY <3>2, <4>2, ResultIs DEF OnEntity
      <4> QED BY <1>3, <4>1, <4>3
    <3> QED BY <3>1, <3>2
  <2>2. IsOk(V(x.x)) =>
          /\ HasAttr(V(x.x).ok, x.a, sl) = HasAttr(V(x.x).ok, x.a, s) /\ ~IsMissing(HasAttr(V(x.x).ok, x.a, s))
          /\ GetAttr(V(x.x).ok, x.a, sl) = GetAttr(V(x.x).ok, x.a, s)
          /\ closed => ~IsMissing(GetAttr(V(x.x).ok, x.a, s))
    <3> SUFFICES ASSUME IsOk(V(x.x))
                 PROVE  /\ HasAttr(V(x.x).ok, x.a, sl) = HasAttr(V(x.x).ok, x.a, s)
                        /\ ~IsMissing(HasAttr(V(x.x).ok, x.a, s))
                        /\ GetAttr(V(x.x).ok, x.a, sl) = GetAttr(V(x.x).ok, x.a, s)
                        /\ closed => ~IsMissing(GetAttr(V(x.x).ok, x.a, s))
      OBVIOUS
    <3> DEFINE v == V(x.x).ok
               a == x.a
    <3>1. v.t = "uid" => v.u \in Near(s, q, L)
      BY <2>1
    <3> HIDE DEF v, a
    <3>2. /\ HasAttr(v, a, sl) = HasAttr(v, a, s) /\ ~IsMissing(HasAttr(v, a, s))
          /\ GetAttr(v, a, sl) = GetAttr(v, a, s)
          /\ closed => ~IsMissing(GetAttr(v, a, s))
      <4> HIDE DEF V, W
      <4>1. HasAttr(v, a, SliceAtLevel(s, q, L)) = HasAttr(v, a, s) /\ ~IsMissing(HasAttr(v, a, s))
        BY <3>1, DereferencedAlike
      <4>2. GetAttr(v, a, SliceAtLevel(s, q, L)) = GetAttr(v, a, s)
        BY <3>1, DereferencedAlike
      <4>3. ClosedAtLevel(s, q, L) => ~IsMissing(GetAttr(v, a, s))
        BY <3>1, DereferencedAlike
      <4> QED BY <4>1, <4>2, <4>3 DEF sl, closed
    <3> QED BY <3>2 DEF v, a
  <2>3. \/ /\ W(x) = IF IsOk(W(x.x)) THEN HasAttr(W(x.x).ok, x.a, sl) ELSE W(x.x)
           /\ V(x) = IF IsOk(V(x.x)) THEN HasAttr(V(x.x).ok, x.a, s) ELSE V(x.x)
        \/ /\ W(x) = IF IsOk(W(x.x)) THEN GetAttr(W(x.x).ok, x.a, sl) ELSE W(x.x)
           /\ V(x) = IF IsOk(V(x.x)) THEN GetAttr(V(x.x).ok, x.a, s) ELSE V(x.x)
    BY <1>1, <1>13, OneStep
  <2> HIDE DEF V, W
  <2> QED BY <2>1, <2>2, <2>3
<1>15. CASE x.op \in {"set", "call"}
  <2> DEFINE rs == [k \in DOMAIN x.xs |-> V(x.xs[k])]
  <2>1. \A k \in DOMAIN x.xs : W(x.xs[k]) = V(x.xs[k]) /\ (closed => ~IsMissing(V(x.xs[k])))
    <3>1. \A k \in DOMAIN x.xs : x.xs[k] \in NodeParts(x)
      BY <1>15 DEF NodeParts
    <3> HIDE DEF V, W
    <3> QED BY <1>3, <3>1
  <2>2. [k \in DOMAIN x.xs |-> W(x.xs[k])] = rs
    BY <2>1
  <2>3. \/ x.op = "set" /\ W(x) = SetR([k \in DOMAIN x.xs |-> W(x.xs[k])]) /\ V(x) = SetR(rs)
        \/ x.op = "call" /\ W(x) = CallR(x.xfn, [k \in DOMAIN x.xs |-> W(x.xs[k])]) /\ V(x) = CallR(x.xfn, rs)
    BY <1>1, <1>15, OneStep
  <2>4. Len(x.xs) \in Nat /\ DOMAIN rs = 1..Len(x.xs) /\ (closed => \A k \in 1..Len(x.xs) : ~IsMissing(rs[k]))
    BY <1>5, <1>15, <2>1
  <2> HIDE DEF V, W, rs
  <2>5. closed => ~IsMissing(SetR(rs)) /\ (x.op = "call" => ~IsMissing(CallR(x.xfn, rs)))
    BY <1>5, <2>4, ListsNoMissing
  <2> QED BY <2>2, <2>3, <2>5
<1>16. CASE x.op = "record"
  <2> DEFINE rs == [k \in DOMAIN x.axs |-> BindAttr(x.axs[k][1], V(x.axs[k][2]))]
  <2>1. \A k \in DOMAIN x.axs : W(x.axs[k][2]) = V(x.axs[k][2]) /\ (closed => ~IsMissing(V(x.axs[k][2])))
    <3>1. \A k \in DOMAIN x.axs : x.axs[k][2] \in NodeParts(x)
      BY <1>16 DEF NodeParts
    <3> HIDE DEF V, W
    <3> QED BY <1>3, <3>1
  <2>2. [k \in DOMAIN x.axs |-> BindAttr(x.axs[k][1], W(x.axs[k][2]))] = rs
    BY <2>1
  <2>3. W(x) = RecordR([k \in DOMAIN x.axs |-> BindAttr(x.axs[k][1], W(x.axs[k][2]))]) /\ V(x) = RecordR(rs)
    BY <1>1, <1>16, OneStep
  <2>4. \A a, r : ~IsMissing(r) => ~IsMissing(BindAttr(a, r))
    BY ResultsDiffer DEF BindAttr, Bind
  <2>5. Len(x.axs) \in Nat /\ DOMAIN rs = 1..Len(x.axs) /\ (closed => \A k \in 1..Len(x.axs) : ~IsMissing(rs[k]))
    BY <1>5, <1>16, <2>1, <2>4
  <2> HIDE DEF V, W, rs
  <2>6. closed => ~IsMissing(RecordR(rs))
    BY <2>5, ListsNoMissing
  <2> QED BY <2>2, <2>3, <2>6
<1> QED BY <1>5, <1>6, <1>7, <1>8, <1>9, <1>10, <1>12, <1>13, <1>15, <1>16 DEF Ops

\* A path of `has` is walked alike.
LEMMA HasStep ==
  ASSUME NEW s \in SliceStores, NEW q \in SliceRequests, NEW L \in 0..MaxLevel, NEW x \in LevelNodes,
         \A y \in NodeParts(x) : SoundNode(y, s, q, L), CheckLevel(x, L, q.action), x.op = "extHasAttr"
  PROVE  SameAt(x, s, q, L)
<1> DEFINE sl == SliceAtLevel(s, q, L)
           V(y) == EvaluateIn(y, q, s)
           W(y) == EvaluateIn(y, q, sl)
           closed == ClosedAtLevel(s, q, L)
<1>1. sl \in LookedAt /\ s \in LookedAt /\ L \in Nat
  BY LevelAssumption DEF LookedAt
<1>2. \A y : SameAt(y, s, q, L) <=> (W(y) = V(y) /\ (closed => ~IsMissing(V(y))))
  BY DEF SameAt
<1>3. \A y \in NodeParts(x) : /\ CheckLevel(y, L, q.action) => W(y) = V(y) /\ (closed => ~IsMissing(V(y)))
                              /\ y \in LevelNodes /\ AccessIsNear(y, s, q, L)
  BY <1>2, NodesAreExpressions DEF SoundNode, ValidIsSame
<1>4. SUFFICES W(x) = V(x) /\ (closed => ~IsMissing(V(x)))
  BY <1>2
<1> HIDE DEF sl, closed
<1> DEFINE k == ChainCost(x.x.ty, x.path)
           first == FirstEntityPath(x.x.ty, x.path)
           y == x.x
<1>5. y \in NodeParts(x)
  BY DEF NodeParts
<1>6. y \in LevelNodes /\ AccessIsNear(y, s, q, L) /\ y.ty \in LevelTypes /\ x.path \in HasPaths
  <2>1. y \in LevelNodes /\ AccessIsNear(y, s, q, L)
    BY <1>3, <1>5
  <2> QED BY <2>1, NodesAreExpressions
<1>7. k \in Nat /\ first \in Seq(STRING)
  BY <1>6, CostIsNat, FirstIsPath
<1>8. <<y, <<>>>> \in Accesses /\ <<y, first>> \in Accesses
  <2>1. ~Dereferences(x)
    BY DEF Dereferences
  <2>2. <<y, <<>>>> \in AccessesOf(x) /\ <<y, first>> \in AccessesOf(x)
    BY <2>1 DEF AccessesOf
  <2> QED BY <2>2, LevelsAreChecked
<1>9. IsOk(V(y)) => /\ V(y).ok \in LevelValues /\ OfType(V(y).ok, y.ty)
                    /\ V(y).ok.t = "uid" <=> OnEntity(y)
                    /\ V(y).ok.t = "record" <=> y.ty.k = "record"
  BY <1>6, ResultIs DEF OnEntity
<1> HIDE DEF k, first, y
<1>10. /\ W(y) = V(y) /\ (closed => ~IsMissing(V(y)))
       /\ IsOk(V(y)) /\ (OnEntity(y) \/ y.ty.k = "record") => Settled(s, q, V(y).ok, x.path, y.ty, L - k) /\ L >= k
  <2>1. CASE OnEntity(y)
    <3>1. L > k /\ CheckEntityAccessLevel(y, L - k - 1, L, q.action, <<>>)
      BY <2>1, LevelStep DEF y, k
    <3>2. L - k - 1 \in 0..L /\ L - k - 1 + 1 = L - k
      BY <1>1, <1>7, <3>1
    <3>3. /\ SameAt(y, s, q, L)
          /\ IsOk(EvaluateIn(y, q, s)) /\ EvaluateIn(y, q, s).ok.t = "uid" =>
               EvaluateIn(y, q, s).ok.u \in Near(s, q, L - k - 1 + 1)
      BY <1>1, <1>6, <1>8, <3>1, <3>2, AccessedUid
    <3>4. IsOk(V(y)) => V(y).ok.t = "uid" /\ V(y).ok.u \in Near(s, q, L - k)
      BY <1>9, <2>1, <3>2, <3>3
    <3> HIDE DEF V, W
    <3>5. IsOk(V(y)) => Settled(s, q, V(y).ok, x.path, y.ty, L - k)
      BY <3>4 DEF Settled
    <3>6. L >= k
      BY <1>1, <1>7, <3>1
    <3> QED BY <1>2, <3>3, <3>5, <3>6
  <2>2. CASE ~OnEntity(y)
    <3>1. CheckLevel(y, L, q.action)
      BY <2>2, LevelStep DEF y
    <3>2. W(y) = V(y) /\ (closed => ~IsMissing(V(y)))
      BY <1>3, <1>5, <3>1
    <3>3. ASSUME y.ty.k = "record", IsOk(V(y)) PROVE Settled(s, q, V(y).ok, x.path, y.ty, L - k) /\ L >= k
      <4>1. L >= k /\ (first # <<>> => CheckEntityAccessLevel(y, L - k, L, q.action, first))
        BY <3>3, LevelStep DEF y, k, first
      <4>2. L - k \in 0..L
        BY <1>1, <1>7, <4>1
      <4>3. first # <<>> => LeadsNear(y, first, L - k, s, q)
        BY <1>6, <1>8, <4>1, <4>2 DEF AccessIsNear
      <4>4. first # <<>> => \A w : Follows(V(y).ok, first, w) /\ w.t = "uid" => w.u \in Near(s, q, L - k + 1)
        BY <3>3, <4>3 DEF LeadsNear
      <4>5. V(y).ok.t # "uid"
        BY <1>9, <2>2, <3>3
      <4> HIDE DEF V
      <4> QED BY <4>1, <4>4, <4>5 DEF Settled, first, y
    <3> QED BY <2>2, <3>2, <3>3
  <2> QED BY <2>1, <2>2
<1>11. IsOk(V(y)) => /\ HasAttrsIn(V(y).ok, x.path, sl) = HasAttrsIn(V(y).ok, x.path, s)
                     /\ ~IsMissing(HasAttrsIn(V(y).ok, x.path, s))
  <2> SUFFICES ASSUME IsOk(V(y))
               PROVE  /\ HasAttrsIn(V(y).ok, x.path, sl) = HasAttrsIn(V(y).ok, x.path, s)
                      /\ ~IsMissing(HasAttrsIn(V(y).ok, x.path, s))
    OBVIOUS
  <2>1. CASE OnEntity(y) \/ y.ty.k = "record"
    <3>1. L - k \in Nat /\ L - k + k <= L
      BY <1>1, <1>7, <1>10, <2>1
    <3>2. L - k + ChainCost(y.ty, x.path) <= L
      BY <3>1 DEF k, y
    <3>3. Settled(s, q, V(y).ok, x.path, y.ty, L - k)
      BY <1>10, <2>1
    <3> HIDE DEF V
    <3> QED BY <1>6, <1>9, <3>1, <3>2, <3>3, Walked DEF sl
  <2>2. CASE ~(OnEntity(y) \/ y.ty.k = "record")
    <3>1. V(y).ok.t \notin {"uid", "record"} /\ V(y).ok \in LevelValues
      BY <1>9, <2>2
    <3> DEFINE either == IF x.path = <<>> THEN Ok(BoolV(TRUE)) ELSE Err("typeError")
    <3>2. HasAttrsIn(V(y).ok, x.path, sl) = either /\ HasAttrsIn(V(y).ok, x.path, s) = either
      BY <1>1, <1>6, <3>1, HasOneStep
    <3>3. ~IsMissing(either)
      BY ResultsDiffer
    <3> HIDE DEF either, V
    <3> QED BY <3>2, <3>3
  <2> QED BY <2>1, <2>2
<1>12. /\ W(x) = IF IsOk(W(y)) THEN HasAttrsIn(W(y).ok, x.path, sl) ELSE W(y)
       /\ V(x) = IF IsOk(V(y)) THEN HasAttrsIn(V(y).ok, x.path, s) ELSE V(y)
  BY <1>1, OneStep DEF y
<1> HIDE DEF V, W
<1> QED BY <1>10, <1>11, <1>12

\* What is valid at a level comes to the same in the slice, if its parts are sound.
LEMMA ValidStep ==
  ASSUME NEW s \in SliceStores, NEW q \in SliceRequests, NEW L \in 0..MaxLevel, NEW x \in LevelNodes,
         \A y \in NodeParts(x) : SoundNode(y, s, q, L), CheckLevel(x, L, q.action)
  PROVE  SameAt(x, s, q, L)
<1>1. L \in Nat
  BY LevelAssumption
<1>2. \A y \in NodeParts(x) : /\ CheckLevel(y, L, q.action) => SameAt(y, s, q, L)
                              /\ AccessIsNear(y, s, q, L)
  BY DEF SoundNode, ValidIsSame
<1>3. CASE x.op = "extHasAttr"
  BY <1>3, HasStep
<1>4. ASSUME Dereferences(x)
      PROVE  x.x \in NodeParts(x) /\ SameAt(x.x, s, q, L) /\ NearOperand(x, s, q, L)
  <2>1. x.x \in NodeParts(x)
    BY <1>4 DEF NodeParts, Dereferences
  <2>2. <<x.x, <<>>>> \in Accesses
    <3>1. <<x.x, <<>>>> \in AccessesOf(x)
      BY <1>4 DEF AccessesOf
    <3> QED BY <3>1, LevelsAreChecked
  <2>3. L > 0 /\ CheckEntityAccessLevel(x.x, L - 1, L, q.action, <<>>)
    BY <1>4, LevelStep
  <2>4. L - 1 \in 0..L /\ L - 1 + 1 = L
    BY <1>1, <2>3
  <2>5. AccessIsNear(x.x, s, q, L)
    BY <1>2, <2>1
  <2>6. /\ SameAt(x.x, s, q, L)
        /\ IsOk(EvaluateIn(x.x, q, s)) /\ EvaluateIn(x.x, q, s).ok.t = "uid" =>
              EvaluateIn(x.x, q, s).ok.u \in Near(s, q, L - 1 + 1)
    BY <1>1, <2>2, <2>3, <2>4, <2>5, AccessedUid
  <2> QED BY <2>1, <2>4, <2>6 DEF NearOperand
<1>5. CASE x.op # "extHasAttr"
  <2>1. NearOperand(x, s, q, L)
    BY <1>4 DEF NearOperand
  <2>2. \A y \in NodeParts(x) : CheckLevel(y, L, q.action) \/ (Dereferences(x) /\ y = x.x)
    <3>1. x.op \in Ops
      BY NodesAreExpressions DEF IsNode
    <3>2. CASE x.op \in {"val", "var"}
      BY <3>2 DEF NodeParts
    <3>3. CASE x.op = "ite"
      BY <3>3, LevelStep DEF NodeParts
    <3>4. CASE x.op \in {"and", "or", "binary"}
      <4>1. NodeParts(x) = {x.x, x.y}
        BY <3>4 DEF NodeParts
      <4>2. CheckLevel(x.y, L, q.action) /\ (Dereferences(x) \/ CheckLevel(x.x, L, q.action))
        BY <3>4, LevelStep
      <4> QED BY <4>1, <4>2
    <3>5. CASE x.op \in {"unary", "hasAttr", "getAttr"}
      <4>1. NodeParts(x) = {x.x}
        BY <3>5 DEF NodeParts
      <4>2. Dereferences(x) \/ CheckLevel(x.x, L, q.action)
        BY <3>5, LevelStep DEF Dereferences
      <4> QED BY <4>1, <4>2
    <3>6. CASE x.op \in {"set", "call"}
      BY <3>6, LevelStep DEF NodeParts
    <3>7. CASE x.op = "record"
      BY <3>7, LevelStep DEF NodeParts
    <3> QED BY <1>5, <3>1, <3>2, <3>3, <3>4, <3>5, <3>6, <3>7 DEF Ops
  <2>3. \A y \in NodeParts(x) : SameAt(y, s, q, L)
    BY <1>2, <1>4, <2>2
  <2> QED BY <1>5, <2>1, <2>3, PartsStep
<1> QED BY <1>3, <1>5

\* What the check of an access goes on to is an access.
LEMMA AccessesOn ==
  ASSUME NEW x, NEW path, <<x, path>> \in Accesses
  PROVE  /\ x \in LevelNodes /\ path \in Seq(STRING)
         /\ \A b \in AccessesWithin(x, path) : b \in Accesses
<1> DEFINE a == <<x, path>>
<1>1. a \in Accesses /\ a[1] = x /\ a[2] = path
  OBVIOUS
<1>2. AccessesWithin(a[1], a[2]) \subseteq Accesses
  <2> HIDE DEF a
  <2> QED BY <1>1, LevelsAreChecked
<1>3. a \in LevelNodes \X Seq(STRING)
  <2> HIDE DEF a
  <2> QED BY <1>1, LevelsAreChecked
<1>4. AccessesWithin(x, path) \subseteq Accesses
  <2> HIDE DEF a
  <2> QED BY <1>1, <1>2
<1> QED BY <1>3, <1>4

\* So does what an entity is taken from.
LEMMA AccessSame ==
  ASSUME NEW s \in SliceStores, NEW q \in SliceRequests, NEW L \in 0..MaxLevel, NEW x,
         \A y \in NodeParts(x) : SoundNode(y, s, q, L),
         NEW n \in 0..L, NEW path, <<x, path>> \in Accesses, CheckEntityAccessLevel(x, n, L, q.action, path)
  PROVE  SameAt(x, s, q, L)
<1>1. L \in Nat /\ n \in 0..MaxLevel /\ n \in Nat
  BY LevelAssumption
<1>2. x \in LevelNodes /\ \A b \in AccessesWithin(x, path) : b \in Accesses
  BY AccessesOn
<1>3. \A y \in NodeParts(x) : /\ CheckLevel(y, L, q.action) => SameAt(y, s, q, L)
                              /\ AccessIsNear(y, s, q, L)
  BY DEF SoundNode, ValidIsSame
<1>4. x.op \in {"var", "val", "ite", "getAttr", "binary", "record"}
  BY <1>1, AccessStep
<1>5. ASSUME NEW y \in NodeParts(x), NEW m \in 0..L, NEW p, <<y, p>> \in AccessesWithin(x, path),
             CheckEntityAccessLevel(y, m, L, q.action, p)
      PROVE  SameAt(y, s, q, L)
  BY <1>2, <1>3, <1>5 DEF AccessIsNear
<1>6. ASSUME n > 0, NEW y \in NodeParts(x), <<y, <<>>>> \in AccessesWithin(x, path),
             CheckEntityAccessLevel(y, n - 1, L, q.action, <<>>)
      PROVE  /\ SameAt(y, s, q, L)
             /\ IsOk(EvaluateIn(y, q, s)) /\ EvaluateIn(y, q, s).ok.t = "uid" =>
                  EvaluateIn(y, q, s).ok.u \in Near(s, q, L)
  <2>1. n - 1 \in 0..L /\ n - 1 + 1 = n
    BY <1>1, <1>6
  <2>2. /\ SameAt(y, s, q, L)
        /\ IsOk(EvaluateIn(y, q, s)) /\ EvaluateIn(y, q, s).ok.t = "uid" =>
             EvaluateIn(y, q, s).ok.u \in Near(s, q, n - 1 + 1)
    BY <1>1, <1>2, <1>3, <1>6, <2>1, AccessedUid
  <2>3. Near(s, q, n) \subseteq Near(s, q, L)
    BY <1>1, NearGrows
  <2> QED BY <2>1, <2>2, <2>3
<1>7. (\A y \in NodeParts(x) : SameAt(y, s, q, L)) /\ NearOperand(x, s, q, L)
  <2>1. CASE x.op \in {"val", "var"}
    BY <2>1 DEF NodeParts, NearOperand, Dereferences
  <2>2. CASE x.op = "ite"
    <3>1. NodeParts(x) = {x.c, x.x, x.y}
      BY <2>2 DEF NodeParts
    <3>2. <<x.x, path>> \in AccessesWithin(x, path) /\ <<x.y, path>> \in AccessesWithin(x, path)
      BY <2>2 DEF AccessesWithin
    <3>3. /\ CheckLevel(x.c, L, q.action) /\ CheckEntityAccessLevel(x.x, n, L, q.action, path)
          /\ CheckEntityAccessLevel(x.y, n, L, q.action, path)
      BY <1>1, <2>2, AccessStep
    <3>4. SameAt(x.c, s, q, L) /\ SameAt(x.x, s, q, L) /\ SameAt(x.y, s, q, L)
      BY <1>3, <1>5, <3>1, <3>2, <3>3
    <3>5. ~Dereferences(x)
      BY <2>2 DEF Dereferences
    <3> QED BY <3>1, <3>4, <3>5 DEF NearOperand
  <2>3. CASE x.op = "getAttr"
    <3>1. NodeParts(x) = {x.x}
      BY <2>3 DEF NodeParts
    <3>2. CASE OnEntity(x.x)
      <4>1. <<x.x, <<>>>> \in AccessesWithin(x, path)
        BY <2>3, <3>2 DEF AccessesWithin
      <4>2. n > 0 /\ CheckEntityAccessLevel(x.x, n - 1, L, q.action, <<>>)
        BY <1>1, <2>3, <3>2, AccessStep
      <4> QED BY <1>6, <3>1, <4>1, <4>2 DEF NearOperand
    <3>3. CASE ~OnEntity(x.x)
      <4>1. <<x.x, <<x.a>> \o path>> \in AccessesWithin(x, path)
        BY <2>3, <3>3 DEF AccessesWithin
      <4>2. CheckEntityAccessLevel(x.x, n, L, q.action, <<x.a>> \o path)
        BY <1>1, <2>3, <3>3, AccessStep
      <4>3. ~Dereferences(x)
        BY <2>3, <3>3 DEF Dereferences
      <4>4. SameAt(x.x, s, q, L)
        BY <1>5, <3>1, <4>1, <4>2
      <4> QED BY <3>1, <4>3, <4>4 DEF NearOperand
    <3> QED BY <3>2, <3>3
  <2>4. CASE x.op = "binary"
    <3>1. NodeParts(x) = {x.x, x.y}
      BY <2>4 DEF NodeParts
    <3>2. /\ x.o = "getTag" /\ n > 0 /\ CheckEntityAccessLevel(x.x, n - 1, L, q.action, <<>>)
          /\ CheckLevel(x.y, L, q.action)
      BY <1>1, <2>4, AccessStep
    <3>3. <<x.x, <<>>>> \in AccessesWithin(x, path)
      BY <2>4, <3>2 DEF AccessesWithin
    <3>4. SameAt(x.y, s, q, L)
      BY <1>3, <3>1, <3>2
    <3>5. /\ SameAt(x.x, s, q, L)
          /\ IsOk(EvaluateIn(x.x, q, s)) /\ EvaluateIn(x.x, q, s).ok.t = "uid" =>
               EvaluateIn(x.x, q, s).ok.u \in Near(s, q, L)
      BY <1>6, <3>1, <3>2, <3>3
    <3> QED BY <3>1, <3>4, <3>5 DEF NearOperand
  <2>5. CASE x.op = "record"
    <3>1. \A k \in DOMAIN x.axs : CheckLevel(x.axs[k][2], L, q.action)
      BY <1>1, <2>5, AccessStep
    <3>2. NodeParts(x) = {x.axs[k][2] : k \in DOMAIN x.axs}
      BY <2>5 DEF NodeParts
    <3>3. ~Dereferences(x)
      BY <2>5 DEF Dereferences
    <3> QED BY <1>3, <3>1, <3>2, <3>3 DEF NearOperand
  <2> QED BY <1>4, <2>1, <2>2, <2>3, <2>4, <2>5
<1> QED BY <1>2, <1>4, <1>7, PartsStep

\* What an access to an entity finds is near, if what the parts find is.
LEMMA NearStep ==
  ASSUME NEW s \in SliceStores, NEW q \in SliceRequests, NEW L \in 0..MaxLevel, NEW x,
         \A y \in NodeParts(x) : SoundNode(y, s, q, L),
         NEW n \in 0..L, NEW path, <<x, path>> \in Accesses, CheckEntityAccessLevel(x, n, L, q.action, path),
         SameAt(x, s, q, L)
  PROVE  LeadsNear(x, path, n, s, q)
<1> DEFINE V(y) == EvaluateIn(y, q, s)
<1>1. s \in LookedAt /\ L \in Nat /\ n \in 0..MaxLevel /\ n \in Nat
  BY LevelAssumption DEF LookedAt
<1>2. x \in LevelNodes /\ path \in Seq(STRING) /\ \A b \in AccessesWithin(x, path) : b \in Accesses
  BY AccessesOn
<1>3. \A y \in NodeParts(x) : y \in LevelNodes /\ AccessIsNear(y, s, q, L)
  BY <1>2, NodesAreExpressions DEF SoundNode
<1>4. SUFFICES ASSUME IsOk(V(x)), NEW w, Follows(V(x).ok, path, w), w.t = "uid"
               PROVE  w.u \in Near(s, q, n + 1)
  BY DEF LeadsNear
<1>5. x.op \in {"var", "val", "ite", "getAttr", "binary", "record"}
  BY <1>1, AccessStep
<1>6. V(x).ok \in LevelValues
  BY <1>2, <1>4, ResultIs
\* Where the value's entities are near, what the path leads to is.
<1>7. ASSUME ValueEUIDs(V(x).ok) \subseteq Near(s, q, n + 1) PROVE w.u \in Near(s, q, n + 1)
  BY <1>2, <1>4, <1>6, <1>7, FollowedUid
<1>8. RequestEUIDs(q) \subseteq Near(s, q, n + 1)
  BY <1>1, NearGrows
<1>9. CASE x.op = "var"
  <2>1. V(x) = Ok(q[x.var]) /\ V(x).ok = q[x.var]
    BY <1>1, <1>2, <1>9, OneStep, ResultsDiffer
  <2>2. x.var \in {"principal", "action", "resource", "context"}
    BY <1>2, <1>9, NodesAreExpressions DEF IsNode
  <2>3. ValueEUIDs(q[x.var]) \subseteq RequestEUIDs(q)
    <3>1. CASE x.var = "context"
      BY <3>1 DEF RequestEUIDs
    <3>2. CASE x.var \in {"principal", "action", "resource"}
      <4>1. q[x.var].t = "uid" /\ q[x.var] \in LevelValues
        BY <2>1, <1>6, <3>2, ValuesAreValues
      <4>2. ValueEUIDs(q[x.var]) = {q[x.var].u}
        BY <4>1, ValuesAreValues DEF ValueEUIDsStep, ValueEUIDsBody
      <4> QED BY <3>2, <4>2 DEF RequestEUIDs
    <3> QED BY <2>2, <3>1, <3>2
  <2> QED BY <1>7, <1>8, <2>1, <2>3
<1>10. CASE x.op = "val"
  <2>1. V(x) = Ok(x.v) /\ V(x).ok = x.v /\ x.v = q.action
    <3>1. V(x) = Ok(x.v)
      BY <1>1, <1>2, <1>10, OneStep
    <3>2. x.v = q.action
      BY <1>1, <1>10, AccessStep
    <3> QED BY <3>1, <3>2, ResultsDiffer
  <2>2. q.action.t = "uid"
    BY ValuesAreValues
  <2>3. ValueEUIDs(q.action) = {q.action.u}
    BY <1>6, <2>1, <2>2, ValuesAreValues DEF ValueEUIDsStep, ValueEUIDsBody
  <2> QED BY <1>7, <1>8, <2>1, <2>3 DEF RequestEUIDs
<1>11. CASE x.op = "ite"
  <2>1. /\ CheckEntityAccessLevel(x.x, n, L, q.action, path)
        /\ CheckEntityAccessLevel(x.y, n, L, q.action, path)
    BY <1>1, <1>11, AccessStep
  <2>2. <<x.x, path>> \in Accesses /\ <<x.y, path>> \in Accesses
    <3>1. <<x.x, path>> \in AccessesWithin(x, path) /\ <<x.y, path>> \in AccessesWithin(x, path)
      BY <1>11 DEF AccessesWithin
    <3> QED BY <1>2, <3>1
  <2>3. AccessIsNear(x.x, s, q, L) /\ AccessIsNear(x.y, s, q, L)
    BY <1>3, <1>11 DEF NodeParts
  <2>4. LeadsNear(x.x, path, n, s, q) /\ LeadsNear(x.y, path, n, s, q)
    BY <2>1, <2>2, <2>3 DEF AccessIsNear
  <2>5. V(x) = IteR(V(x.c), V(x.x), V(x.y))
    BY <1>1, <1>2, <1>11, OneStep
  <2>6. V(x) = V(x.x) \/ V(x) = V(x.y)
    <3>1. AsBool(V(x.c)) = IF IsOk(V(x.c)) THEN IF V(x.c).ok.t = "bool" THEN Ok(V(x.c).ok) ELSE Err("typeError") ELSE V(x.c)
      BY DEF AsBool, AsKind, Bind
    <3> HIDE DEF V
    <3> QED BY <1>4, <2>5, <3>1, ResultsDiffer DEF IteR, Bind
  <2> QED BY <1>4, <2>4, <2>6 DEF LeadsNear
\* An entity that is dereferenced is nearer than what it has.
<1>12. ASSUME NEW y, y \in NodeParts(x), <<y, <<>>>> \in AccessesWithin(x, path), n > 0,
              CheckEntityAccessLevel(y, n - 1, L, q.action, <<>>), IsOk(V(y)), V(y).ok.t = "uid",
              V(y).ok.u \in DOMAIN s
       PROVE  DataEUIDs(s[V(y).ok.u]) \subseteq Near(s, q, n + 1)
  <2>1. n - 1 \in 0..L /\ n - 1 + 1 = n
    BY <1>1, <1>12
  <2>2. V(y).ok.u \in Near(s, q, n)
    BY <1>1, <1>2, <1>3, <1>12, <2>1, AccessedUid
  <2> HIDE DEF V
  <2> QED BY <1>1, <1>12, <2>2, NearGrows
<1>13. CASE x.op = "getAttr" /\ OnEntity(x.x)
  <2> DEFINE y == x.x
  <2>1. y \in NodeParts(x) /\ <<y, <<>>>> \in AccessesWithin(x, path)
    BY <1>13 DEF NodeParts, AccessesWithin
  <2>2. n > 0 /\ CheckEntityAccessLevel(y, n - 1, L, q.action, <<>>)
    BY <1>1, <1>13, AccessStep
  <2>3. V(x) = IF IsOk(V(y)) THEN GetAttr(V(y).ok, x.a, s) ELSE V(y)
    BY <1>1, <1>2, <1>13, OneStep
  <2>4. IsOk(V(y)) /\ V(x) = GetAttr(V(y).ok, x.a, s)
    BY <1>4, <2>3
  <2>5. V(y).ok.t = "uid"
    BY <1>3, <1>13, <2>1, <2>4, ResultIs DEF OnEntity
  <2> HIDE DEF V, y
  <2>6. V(y).ok.u \in DOMAIN s /\ x.a \in DOMAIN s[V(y).ok.u].attrs /\ V(x).ok = s[V(y).ok.u].attrs[x.a]
    <3>1. Attrs(V(y).ok.u, s) = IF V(y).ok.u \in DOMAIN s THEN Ok(s[V(y).ok.u].attrs) ELSE Err("entityDoesNotExist")
      BY ResultsDiffer DEF Attrs, DataOrErr, FindOrErr, Bind
    <3>2. V(x) = IF IsOk(Attrs(V(y).ok.u, s)) THEN FindOrErr(Attrs(V(y).ok.u, s).ok, x.a, "attrDoesNotExist")
                 ELSE Attrs(V(y).ok.u, s)
      BY <2>4, <2>5 DEF GetAttr, AttrsOf, Bind
    <3>3. V(y).ok.u \in DOMAIN s
      BY <1>4, <3>1, <3>2, ResultsDiffer
    <3>4. V(x) = FindOrErr(s[V(y).ok.u].attrs, x.a, "attrDoesNotExist")
      BY <3>1, <3>2, <3>3, ResultsDiffer
    <3> QED BY <1>4, <3>3, <3>4, ResultsDiffer DEF FindOrErr
  <2>7. ValueEUIDs(V(x).ok) \subseteq DataEUIDs(s[V(y).ok.u])
    BY <2>6 DEF DataEUIDs, MapEUIDs
  <2>8. DataEUIDs(s[V(y).ok.u]) \subseteq Near(s, q, n + 1)
    BY <1>12, <2>1, <2>2, <2>4, <2>5, <2>6
  <2> QED BY <1>7, <2>7, <2>8
<1>14. CASE x.op = "getAttr" /\ ~OnEntity(x.x)
  <2> DEFINE y == x.x
  <2>1. y \in NodeParts(x) /\ <<y, <<x.a>> \o path>> \in AccessesWithin(x, path)
    BY <1>14 DEF NodeParts, AccessesWithin
  <2>2. CheckEntityAccessLevel(y, n, L, q.action, <<x.a>> \o path)
    BY <1>1, <1>14, AccessStep
  <2>3. LeadsNear(y, <<x.a>> \o path, n, s, q)
    BY <1>2, <1>3, <2>1, <2>2 DEF AccessIsNear
  <2>4. V(x) = IF IsOk(V(y)) THEN GetAttr(V(y).ok, x.a, s) ELSE V(y)
    BY <1>1, <1>2, <1>14, OneStep
  <2>5. IsOk(V(y)) /\ V(x) = GetAttr(V(y).ok, x.a, s)
    BY <1>4, <2>4
  <2>6. V(y).ok.t # "uid"
    BY <1>3, <1>14, <2>1, <2>5, ResultIs DEF OnEntity
  <2>7. x.a \in STRING
    BY <1>2, <1>14, NodesAreExpressions DEF IsNode
  <2> HIDE DEF V, y
  <2>8. V(y).ok.t = "record" /\ x.a \in DOMAIN V(y).ok.m /\ V(x).ok = V(y).ok.m[x.a]
    <3>1. V(x) = IF V(y).ok.t = "record" THEN FindOrErr(V(y).ok.m, x.a, "attrDoesNotExist") ELSE Err("typeError")
      BY <2>5, <2>6, ResultsDiffer DEF GetAttr, AttrsOf, Bind
    <3> QED BY <1>4, <3>1, ResultsDiffer DEF FindOrErr
  <2>9. Follows(V(y).ok, <<x.a>> \o path, w)
    BY <1>2, <1>4, <2>7, <2>8, FollowsOn
  <2> QED BY <1>4, <2>3, <2>5, <2>9 DEF LeadsNear, V
<1>15. CASE x.op = "binary"
  <2> DEFINE y == x.x
             z == x.y
  <2>1. x.o = "getTag" /\ n > 0 /\ CheckEntityAccessLevel(y, n - 1, L, q.action, <<>>)
    BY <1>1, <1>15, AccessStep
  <2>2. y \in NodeParts(x) /\ <<y, <<>>>> \in AccessesWithin(x, path)
    BY <1>15, <2>1 DEF NodeParts, AccessesWithin
  <2>3. V(x) = BinaryR("getTag", V(y), V(z), s)
    BY <1>1, <1>2, <1>15, <2>1, OneStep
  <2> HIDE DEF V, y, z
  <2>4. IsOk(V(y)) /\ IsOk(V(z)) /\ V(x) = Apply2("getTag", V(y).ok, V(z).ok, s)
    BY <1>4, <2>3 DEF BinaryR, Bind
  <2> DEFINE tag == V(z).ok.s
             u == V(y).ok.u
  <2>5. V(y).ok.t = "uid" /\ V(x) = GetTag(u, tag, s)
    BY <1>4, <2>4, ResultsDiffer DEF Apply2
  <2> HIDE DEF tag
  <2>6. u \in DOMAIN s /\ tag \in DOMAIN s[u].tags /\ V(x).ok = s[u].tags[tag]
    <3> HIDE DEF u
    <3>1. Tags(u, s) = IF u \in DOMAIN s THEN Ok(s[u].tags) ELSE Err("entityDoesNotExist")
      BY ResultsDiffer DEF Tags, DataOrErr, FindOrErr, Bind
    <3>2. V(x) = IF IsOk(Tags(u, s)) THEN FindOrErr(Tags(u, s).ok, tag, "tagDoesNotExist") ELSE Tags(u, s)
      BY <2>5 DEF GetTag, Bind
    <3>3. u \in DOMAIN s
      BY <1>4, <3>1, <3>2, ResultsDiffer
    <3>4. V(x) = FindOrErr(s[u].tags, tag, "tagDoesNotExist")
      BY <3>1, <3>2, <3>3, ResultsDiffer
    <3> QED BY <1>4, <3>3, <3>4, ResultsDiffer DEF FindOrErr
  <2>7. ValueEUIDs(V(x).ok) \subseteq DataEUIDs(s[u])
    BY <2>6 DEF DataEUIDs, MapEUIDs
  <2>8. DataEUIDs(s[u]) \subseteq Near(s, q, n + 1)
    BY <1>12, <2>1, <2>2, <2>4, <2>5, <2>6
  <2> QED BY <1>7, <2>7, <2>8
<1>16. CASE x.op = "record"
  <2> DEFINE fields == MapMake(x.axs)
             a == Head(path)
             N == Len(x.axs)
             rs == [k \in DOMAIN x.axs |-> BindAttr(x.axs[k][1], V(x.axs[k][2]))]
             ps == [k \in 1..N |-> rs[k].ok]
  <2>1. path # <<>> /\ a \in DOMAIN fields /\ CheckEntityAccessLevel(fields[a], n, L, q.action, Tail(path))
    BY <1>1, <1>16, AccessStep
  <2>2. N \in Nat /\ DOMAIN x.axs = 1..N
    BY <1>2, <1>16, NodesAreExpressions DEF IsNode
  <2>3. V(x) = RecordR(rs)
    BY <1>1, <1>2, <1>16, OneStep
  <2>4. (\A k \in 1..N : IsOk(rs[k])) /\ MapM(rs) = Ok(ps)
    <3>1. DOMAIN rs = 1..N
      BY <2>2
    <3>2. \/ (\A k \in 1..N : IsOk(rs[k])) /\ MapM(rs) = Ok(ps)
          \/ \E k \in 1..N : ~IsOk(rs[k]) /\ MapM(rs) = rs[k]
      <4> HIDE DEF rs, N
      <4> QED BY <2>2, <3>1, MapMIs
    <3>3. IsOk(MapM(rs))
      BY <1>4, <2>3 DEF RecordR, Bind
    <3> HIDE DEF rs, N, ps
    <3> QED BY <3>2, <3>3
  <2>5. V(x).ok = RecV(MapMake(ps))
    <3> HIDE DEF rs, ps
    <3> QED BY <2>3, <2>4, ResultsDiffer DEF RecordR, Bind
  <2>6. \A k \in 1..N : /\ IsOk(V(x.axs[k][2])) /\ ps[k] = <<x.axs[k][1], V(x.axs[k][2]).ok>>
    <3> SUFFICES ASSUME NEW k \in 1..N
                 PROVE  IsOk(V(x.axs[k][2])) /\ ps[k] = <<x.axs[k][1], V(x.axs[k][2]).ok>>
      OBVIOUS
    <3>1. rs[k] = BindAttr(x.axs[k][1], V(x.axs[k][2])) /\ IsOk(rs[k]) /\ ps[k] = rs[k].ok
      BY <2>2, <2>4
    <3> HIDE DEF rs, ps, V
    <3> QED BY <3>1, ResultsDiffer DEF BindAttr, Bind
  <2>7. PICK k \in 1..N : fields[a] = x.axs[k][2] /\ MapMake(ps)[a] = ps[k][2]
    <3> DEFINE axs == x.axs
    <3>1. KeysAgree(N, axs, ps)
      <4> HIDE DEF ps, N, V
      <4> QED BY <2>6 DEF KeysAgree
    <3>2. DOMAIN ps = 1..N /\ DOMAIN axs = 1..N /\ a \in DOMAIN MapMake(axs)
      BY <2>1, <2>2
    <3> HIDE DEF ps, axs, N, a
    <3>3. \E k \in 1..N : MapMake(axs)[a] = axs[k][2] /\ MapMake(ps)[a] = ps[k][2]
      BY <2>2, <3>1, <3>2, MadeAlike
    <3> QED BY <3>3 DEF axs
  <2>8. fields[a] \in NodeParts(x) /\ <<fields[a], Tail(path)>> \in AccessesWithin(x, path)
    <3>1. fields[a] \in {x.axs[j][2] : j \in DOMAIN x.axs}
      BY <2>2, <2>7
    <3> QED BY <1>16, <2>1, <3>1 DEF NodeParts, AccessesWithin
  <2>9. LeadsNear(fields[a], Tail(path), n, s, q)
    BY <1>2, <1>3, <2>1, <2>8 DEF AccessIsNear
  <2>10. IsOk(V(fields[a])) /\ MapMake(ps)[a] = V(fields[a]).ok
    <3>1. IsOk(V(x.axs[k][2])) /\ ps[k] = <<x.axs[k][1], V(x.axs[k][2]).ok>>
      BY <2>6
    <3> HIDE DEF fields, ps, a, N, V
    <3> QED BY <2>7, <3>1
  <2>11. Follows(V(x).ok.m[a], Tail(path), w)
    BY <1>2, <1>4, <2>1, FollowsFirst
  <2>12. V(x).ok.m = MapMake(ps)
    <3> HIDE DEF ps
    <3> QED BY <2>5 DEF RecV
  <2>13. Follows(V(fields[a]).ok, Tail(path), w)
    <3> HIDE DEF ps, a, fields
    <3> QED BY <2>10, <2>11, <2>12
  <2> HIDE DEF fields, a, ps, rs
  <2> QED BY <1>4, <2>9, <2>10, <2>13 DEF LeadsNear
<1> QED BY <1>5, <1>9, <1>10, <1>11, <1>13, <1>14, <1>15, <1>16

\* By the size of expressions, all of it is so of every one.
LEMMA NodesAreSound ==
  ASSUME NEW s \in SliceStores, NEW q \in SliceRequests, NEW L \in 0..MaxLevel
  PROVE  \A x \in LevelNodes : SoundNode(x, s, q, L)
<1> DEFINE bad == {NodeSize(x) : x \in {y \in LevelNodes : ~SoundNode(y, s, q, L)}}
<1> SUFFICES ASSUME bad # {} PROVE FALSE
  OBVIOUS
<1>1. PICK x \in LevelNodes : /\ ~SoundNode(x, s, q, L)
                              /\ \A y \in LevelNodes : ~SoundNode(y, s, q, L) => NodeSize(x) <= NodeSize(y)
  <2>1. bad \subseteq Nat
    BY NodesAreExpressions DEF IsNode
  <2>2. \E n \in bad : \A m \in bad : n <= m
    <3> HIDE DEF bad
    <3> QED BY <2>1, LeastNumber
  <2> QED BY <2>2
<1>2. \A y \in NodeParts(x) : SoundNode(y, s, q, L)
  <2> SUFFICES ASSUME NEW y \in NodeParts(x) PROVE SoundNode(y, s, q, L)
    OBVIOUS
  <2>1. y \in LevelNodes
    BY NodesAreExpressions
  <2>2. NodeSize(y) < NodeSize(x) /\ NodeSize(x) \in Nat /\ NodeSize(y) \in Nat
    BY <2>1, NodesAreExpressions DEF IsNode
  <2>3. ~(NodeSize(x) <= NodeSize(y))
    BY <2>2
  <2> QED BY <1>1, <2>1, <2>3
<1>3. ValidIsSame(x, s, q, L)
  BY <1>2, ValidStep DEF ValidIsSame
<1>4. ASSUME NEW n \in 0..L, NEW path, <<x, path>> \in Accesses, CheckEntityAccessLevel(x, n, L, q.action, path)
      PROVE  SameAt(x, s, q, L) /\ LeadsNear(x, path, n, s, q)
  <2>1. SameAt(x, s, q, L)
    BY <1>2, <1>4, AccessSame
  <2>2. LeadsNear(x, path, n, s, q)
    BY <1>2, <1>4, <2>1, NearStep
  <2> QED BY <2>1, <2>2
<1>5. SoundNode(x, s, q, L)
  BY <1>3, <1>4 DEF SoundNode, AccessIsNear
<1> QED BY <1>1, <1>5

SliceInv ==
  /\ whole \in SliceStores /\ asked \in SliceRequests /\ level \in -1..MaxLevel
  /\ level >= 0 => slice = SliceAtLevel(whole, asked, level)

LEMMA SliceIsTaken == SliceSpec => []SliceInv
<1>1. SliceInit => SliceInv
  BY LevelAssumption DEF SliceInit, SliceInv
<1>2. SliceInv /\ [SliceNext]_sliceVars => SliceInv'
  <2> SUFFICES ASSUME SliceInv, [SliceNext]_sliceVars PROVE SliceInv'
    OBVIOUS
  <2>1. CASE Deepen
    <3>1. level + 1 \in -1..MaxLevel
      BY <2>1, LevelAssumption DEF Deepen, SliceInv
    <3> QED BY <2>1, <3>1 DEF Deepen, SliceInv
  <2>2. CASE UNCHANGED sliceVars
    BY <2>2 DEF SliceInv, sliceVars
  <2> QED BY <2>1, <2>2 DEF SliceNext
<1> QED BY <1>1, <1>2, PTL DEF SliceSpec

\* What is validated at a level needs no more of the store than its slice: it
\* evaluates to the same, finds no entity missing where the store is closed at
\* the level, and a slice may be taken of a slice (Slice.lean:45-72,
\* Levels.lean:57-198).
THEOREM SlicesDoSuffice == SliceSpec => []SlicesSuffice
<1>1. SliceInv => SlicesSuffice
  <2> SUFFICES ASSUME SliceInv, level >= 0 PROVE LevelSound /\ ClosedNeverMissing /\ SliceOfSlice
    BY DEF SlicesSuffice
  <2>1. /\ whole \in SliceStores /\ asked \in SliceRequests /\ level \in 0..MaxLevel /\ level \in Nat
        /\ slice = SliceAtLevel(whole, asked, level)
    BY LevelAssumption DEF SliceInv
  <2>2. \A x \in LevelNodes : SoundNode(x, whole, asked, level)
    BY <2>1, NodesAreSound
  <2>3. \A x \in Valid(level) : SameAt(x, whole, asked, level)
    BY <2>2, NodesAreExpressions DEF Valid, SoundNode, ValidIsSame
  <2>4. LevelSound
    BY <2>1, <2>3 DEF LevelSound, SameAt
  <2>5. ClosedNeverMissing
    BY <2>3 DEF ClosedNeverMissing, SameAt, IsMissing
  <2>6. SliceOfSlice
    BY <2>1, SlicesNest DEF SliceOfSlice
  <2> QED BY <2>4, <2>5, <2>6
<1> QED BY <1>1, SliceIsTaken, PTL
=============================================================================
