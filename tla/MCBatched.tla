----------------------------- MODULE MCBatched -----------------------------
(* Batched authorization with the Cedar evaluators: three policies, stores *)
(* with and without missing entities, loaders that answer what they are    *)
(* asked and anything more.                                                *)
EXTENDS MCCedar, BatchedAuthorizer

MCPolicyIds == {"p1", "p2", "f1"}
MCEffect == [p \in MCPolicyIds |-> IF p = "f1" THEN "forbid" ELSE "permit"]

MCAsPartial(d) == MaybeDataAsPartial(d)
AllBackings == {[u \in MCUids |-> IF u \in DOMAIN s THEN Some(s[u]) ELSE None] : s \in MCFewStores}
MCBackings == AllBackings

MCClass(r) == ClassOf(r)

\* A request on behalf of a group has no environment; a number
\* stands for a policy that does not pass the type checker.
Stray == [MCRequest(alice, TRUE) EXCEPT !.principal = UidV(staff)]
MCBatchedRequests == MCRequests \cup {Stray}
MCMatched(q) == q.principal.u.ty = "User"
Untyped == Num(1)
MCWellTyped(q, x) == x # Untyped

Permits == {AgeLow, MgrTagLow, OwnMgr, DeepHas, OnFlag, NotInDoc, MgrListed,
            BadDecimal, Untyped}
Forbids == {MgrInStaff, OwnerIs, MgrOlder, BobInAny, And(HasLvl, TagIsOne)}
Program(x, y, z) == [p \in MCPolicyIds |-> CASE p = "p1" -> x [] p = "p2" -> y [] p = "f1" -> z]
AllPrograms == {Program(x, y, z) :
                 x \in Permits, y \in {InStaff, ViaRecord, Or(AgeLow, MgrTagLow)}, z \in Forbids}
MCPrograms == AllPrograms

\* A few of them, for the runs about liveness: paths through missing
\* entities, errors, a policy that does not pass, and one that two rounds
\* leave undecided.
FewPrograms == {Program(DeepHas, InStaff, MgrOlder), Program(DeepHas, MgrHasAge, InStaff),
                Program(MgrOlder, InStaff, MgrHasAge), Program(Untyped, InStaff, MgrOlder),
                Program(OnFlag, DeepHas, DeepHas)}
MCFewPrograms == FewPrograms

\* Everything partial evaluation makes of the well-typed policies: two
\* rounds close the set (EvaluationCloses).
Stores   == {Loaded(b, S) : b \in AllBackings, S \in LoadedSets}
Made(rs) == {PEvaluate(r, RequestAsPartial(q), st) : r \in rs, q \in MCRequests, st \in Stores}
Typed    == {pols[p] : pols \in Programs, p \in MCPolicyIds} \ {Untyped}
Made1    == Made(Typed)
AllResiduals == Typed \cup Made1 \cup Made(Made1)
MCResiduals  == AllResiduals

\* The evaluators, tabulated once: the loop applies them over and over.
Evaluated == [a \in MCResiduals \X MCRequests \X Stores |->
                PEvaluate(a[1], RequestAsPartial(a[2]), a[3])]
MCPartialEvaluate(r, q, st) == Evaluated[<<r, q, st>>]

Existing(b) == [u \in {w \in DOMAIN b : IsSome(b[w])} |-> b[u].some]
OutcomeTable == [a \in (MCResiduals \cup {Untyped}) \X MCBatchedRequests \X MCBackings |->
                   BooleanOutcome(Evaluate(a[1], a[2], Existing(a[3])))]
MCOutcome(r, q, b) == OutcomeTable[<<r, q, b>>]

\* What Thm/BatchedEvaluator/Common.lean:18-27 asks of a well-behaved loader:
\* that what it loads refines the backing store in the sense of EntitiesRefine
\* (Thm/TPE/Input.lean:70-74), so that every loaded uid exists there, while a
\* missing entity that is asked for is loaded as one without attributes.
LoaderWellBehaved ==
  \A u \in DOMAIN store : IsSome(backing[u]) /\ store[u] = DataAsPartial(backing[u].some)
=============================================================================
