----------------------------- MODULE Authorizer -----------------------------
(***************************************************************************)
(* The two authorization decisions of the specification, over a set of     *)
(* policies with an effect each:                                           *)
(*  - IsAuthorized, from the outcome of every policy on a concrete request *)
(*    and entity store (cedar-lean/Cedar/Spec/Authorizer.lean);            *)
(*  - FromResiduals, from what partial evaluation made of every policy     *)
(*    (cedar-lean/Cedar/TPE/Authorizer.lean), undecided ("none") when it   *)
(*    cannot tell yet.                                                     *)
(* An outcome is "true", "false" or "error"; the class of a residual is    *)
(* one of those three once it is known, "residual" before.                 *)
(***************************************************************************)

Outcomes  == {"true", "false", "error"}
Classes   == Outcomes \cup {"residual"}
Effects   == {"permit", "forbid"}
Decisions == {"allow", "deny"}

\* The policies with this effect that have this outcome (or class).
WithEffect(effect, eff, result, r) ==
  {p \in DOMAIN result : effect[p] = eff /\ result[p] = r}

SatisfiedPolicies(effect, eff, outcome) == WithEffect(effect, eff, outcome, "true")
ErrorPolicies(outcome) == {p \in DOMAIN outcome : outcome[p] = "error"}

IsAuthorized(effect, outcome) ==
  LET forbids == SatisfiedPolicies(effect, "forbid", outcome)
      permits == SatisfiedPolicies(effect, "permit", outcome)
      allowed == forbids = {} /\ permits # {}
  IN  [decision    |-> IF allowed THEN "allow" ELSE "deny",
       determining |-> IF allowed THEN permits ELSE forbids,
       erroring    |-> ErrorPolicies(outcome)]

-----------------------------------------------------------------------------
\* Mutant: forbid policies that are still residuals are forgotten.
ForgetsResidualForbids(effect, class) ==
  LET of(eff, c) == WithEffect(effect, eff, class, c)
  IN  IF of("forbid", "true") # {} THEN "deny"
      ELSE IF of("permit", "true") = {} /\ of("permit", "residual") = {} THEN "deny"
      ELSE IF of("permit", "true") = {} THEN "none"
      ELSE "allow"

\* Mutant: no satisfied permit is taken for no decision.
WaitsForAPermit(effect, class) ==
  LET of(eff, c) == WithEffect(effect, eff, class, c)
  IN  IF of("forbid", "true") # {} THEN "deny"
      ELSE IF of("forbid", "residual") # {} THEN "none"
      ELSE IF of("permit", "true") = {} THEN "none"
      ELSE "allow"

\* The five-way match on which sets of policies are empty.
ResidualDecision(effect, class) ==
  LET of(eff, c) == WithEffect(effect, eff, class, c)
  IN  IF of("forbid", "true") # {} THEN "deny"
      ELSE IF of("permit", "true") = {} /\ of("permit", "residual") = {} THEN "deny"
      ELSE IF of("forbid", "residual") # {} THEN "none"
      ELSE IF of("permit", "true") = {} THEN "none"
      ELSE "allow"

FromResiduals(effect, class) ==
  [decision         |-> ResidualDecision(effect, class),
   satisfiedPermits |-> WithEffect(effect, "permit", class, "true"),
   falsePermits     |-> WithEffect(effect, "permit", class, "false"),
   errorPermits     |-> WithEffect(effect, "permit", class, "error"),
   residualPermits  |-> WithEffect(effect, "permit", class, "residual"),
   satisfiedForbids |-> WithEffect(effect, "forbid", class, "true"),
   falseForbids     |-> WithEffect(effect, "forbid", class, "false"),
   errorForbids     |-> WithEffect(effect, "forbid", class, "error"),
   residualForbids  |-> WithEffect(effect, "forbid", class, "residual")]

=============================================================================
