------------------------ MODULE Authorization_lemmas ------------------------
(* Lemmas the proofs about authorization share: on the two authorizers, and *)
(* on stores that grow (S and T are what is loaded, A what was at first).   *)
EXTENDS Authorizer, FiniteSetTheorems, TLAPS

-----------------------------------------------------------------------------
(* The two authorizers *)

\* The decision on residuals is one of three.
LEMMA ResidualDecisionType ==
  ASSUME NEW effect, NEW class
  PROVE  ResidualDecision(effect, class) \in Decisions \cup {"none"}
BY DEF ResidualDecision, Decisions

\* A decision reached before everything is known is the decision on the
\* outcomes, whatever the residuals turn out to be
\* (TPE/Authorizer.lean:108-114 against Spec/Authorizer.lean:56-62).
LEMMA EarlyDecisionIsFinal ==
  ASSUME NEW P, NEW effect, NEW class \in [P -> Classes],
         NEW outcome \in [P -> Outcomes],
         \A p \in P : class[p] # "residual" => outcome[p] = class[p],
         ResidualDecision(effect, class) # "none"
  PROVE  ResidualDecision(effect, class) = IsAuthorized(effect, outcome).decision
<1> DEFINE of(eff, c) == WithEffect(effect, eff, class, c)
           is(eff)    == SatisfiedPolicies(effect, eff, outcome)
<1>1. \A eff : of(eff, "true") \subseteq is(eff)
  BY DEF WithEffect, SatisfiedPolicies
<1>2. \A eff : is(eff) \subseteq of(eff, "true") \cup of(eff, "residual")
  BY DEF WithEffect, SatisfiedPolicies, Classes, Outcomes
<1>3. IsAuthorized(effect, outcome).decision =
        IF is("forbid") = {} /\ is("permit") # {} THEN "allow" ELSE "deny"
  BY DEF IsAuthorized
<1>4. CASE of("forbid", "true") # {}
  BY <1>1, <1>3, <1>4 DEF ResidualDecision
<1>5. CASE of("forbid", "true") = {} /\ of("permit", "true") = {} /\ of("permit", "residual") = {}
  BY <1>2, <1>3, <1>5 DEF ResidualDecision
<1>6. CASE /\ of("forbid", "true") = {} /\ of("forbid", "residual") = {}
           /\ of("permit", "true") # {}
  BY <1>1, <1>2, <1>3, <1>6 DEF ResidualDecision
<1> QED
  BY <1>4, <1>5, <1>6 DEF ResidualDecision

\* An undecided authorization has a policy that is still a residual.
LEMMA UndecidedHasResidual ==
  ASSUME NEW P, NEW effect, NEW class, DOMAIN class = P,
         ResidualDecision(effect, class) = "none"
  PROVE  \E p \in P : class[p] = "residual"
BY DEF ResidualDecision, WithEffect

-----------------------------------------------------------------------------
(* Growing stores *)

\* As many loaded as there are to load: all of them.
LEMMA AllLoaded ==
  ASSUME NEW U, IsFiniteSet(U), NEW A, NEW S, A \subseteq S, S \subseteq U,
         Cardinality(U \ A) <= Cardinality(S \ A)
  PROVE  S = U
<1> DEFINE all == U \ A
           loaded == S \ A
<1>1. IsFiniteSet(all) /\ loaded \subseteq all
  BY FS_Subset
<1>2. /\ IsFiniteSet(loaded) /\ Cardinality(loaded) <= Cardinality(all)
      /\ Cardinality(loaded) = Cardinality(all) => loaded = all
  BY <1>1, FS_Subset
<1>3. Cardinality(all) \in Nat /\ Cardinality(loaded) \in Nat
  BY <1>1, <1>2, FS_CardinalityType
<1>4. loaded = all
  BY <1>2, <1>3
<1> QED
  BY <1>1, <1>4

\* Loading what was not loaded makes one more.
LEMMA OneMore ==
  ASSUME NEW T, IsFiniteSet(T), NEW A, NEW S, A \subseteq S, S \subseteq T, NEW u \in T, u \notin S
  PROVE  /\ Cardinality(S \ A) \in Nat /\ Cardinality(T \ A) \in Nat
         /\ Cardinality(S \ A) + 1 <= Cardinality(T \ A)
<1> DEFINE old == S \ A
           new == T \ A
<1>1. u \in new \ old /\ old \subseteq new /\ IsFiniteSet(new)
  BY FS_Subset
<1>2. /\ IsFiniteSet(old) /\ Cardinality(old) <= Cardinality(new)
      /\ Cardinality(old) = Cardinality(new) => old = new
  BY <1>1, FS_Subset
<1>3. Cardinality(old) \in Nat /\ Cardinality(new) \in Nat /\ old # new
  BY <1>1, <1>2, FS_CardinalityType
<1> QED
  BY <1>2, <1>3

=============================================================================
