------------------------- MODULE MCBatchedEvaluator -------------------------
(* Batched evaluation of the Boolean expressions of the pool and of some   *)
(* that evaluate to entities and numbers.                                  *)
EXTENDS MCCedar, BatchedEvaluator, TLC

AllExprs == Bools \cup Guarded \cup
  {Num(1), Lit(bob), Mgr(Principal), Mgr(Mgr(Principal)), Age(Mgr(Get(Resource, "owner", UserT))),
   X("getTag", Mgr(Principal), Str("lvl"), IntT),
   Ite(MgrInStaff, Mgr(Principal), Get(Resource, "owner", UserT))}
MCEvaluated == AllExprs

MCAsPartial(d) == MaybeDataAsPartial(d)
AllBackings == {[u \in MCUids |-> IF u \in DOMAIN s THEN Some(s[u]) ELSE None] : s \in MCFewStores}
MCBackings == AllBackings
MCMatched(q) == TRUE

Stores   == {Loaded(b, S) : b \in AllBackings, S \in LoadedSets}
Made(rs) == {PEvaluate(r, RequestAsPartial(q), st) : r \in rs, q \in MCRequests, st \in Stores}
Made1    == Made(AllExprs)
Made2    == Made(Made1)
AllResiduals == AllExprs \cup Made1 \cup Made2 \cup Made(Made2)
MCResiduals  == AllResiduals

Evaluated == [a \in MCResiduals \X MCRequests \X Stores |->
                PEvaluate(a[1], RequestAsPartial(a[2]), a[3])]
MCPartialEvaluate(r, q, st) == Evaluated[<<r, q, st>>]

\* Outcomes of several types, as strings, which TLC can compare.
Shown(v) == CASE v.t = "bool" -> ToString(v.b)
              [] v.t = "int"  -> ToString(v.i)
              [] v.t = "uid"  -> v.u.ty \o "::" \o v.u.id
Existing(b) == [u \in {w \in DOMAIN b : IsSome(b[w])} |-> b[u].some]
OutcomeOf(res) == IF IsOk(res) THEN Shown(res.ok) ELSE "error"
OutcomeTable == [a \in MCResiduals \X MCRequests \X MCBackings |->
                   OutcomeOf(Evaluate(a[1], a[2], Existing(a[3])))]
MCOutcome(r, q, b) == OutcomeTable[<<r, q, b>>]
MCIsValue(r) == r.op = "val"
MCClass(r) == CASE MCIsValue(r)  -> Shown(r.v)
                [] IsError(r)  -> "error"
                [] OTHER       -> "residual"
=============================================================================
