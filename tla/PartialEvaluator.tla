-------------------------- MODULE PartialEvaluator --------------------------
(***************************************************************************)
(* Type-aware partial evaluation: cedar-lean/Cedar/TPE/Evaluator.lean with *)
(* the residuals of TPE/Residual.lean and the partial inputs of            *)
(* TPE/Input.lean.                                                         *)
(*                                                                         *)
(* An option is None or Some(x).  A partial request gives every variable   *)
(* an optional value; a partial entity store is a function from the uids   *)
(* it mentions to optional attributes, ancestors and tags.                 *)
(* Types are records with field k: "bool", "int", "string", "ext",         *)
(* "entity" (field e), "set" (field of), "record" (field attrs: the        *)
(* attribute names the record type declares).                              *)
(***************************************************************************)
EXTENDS CedarEvaluator

CONSTANTS Ets,    \* entity type |-> [ancestors, attrs, hasTags]; attrs and
                  \* ancestors are the declared names and parent types
          Acts    \* action uid  |-> [ancestors |-> set of action uids]

None    == [none |-> TRUE]
Some(x) == [some |-> x]
IsSome(o) == o # None

BoolT      == [k |-> "bool"]
EntityT(e) == [k |-> "entity", e |-> e]

ValN(v, ty)  == [op |-> "val", v |-> v, ty |-> ty]
BoolN(b)     == ValN(BoolV(b), BoolT)
ErrorN(ty)   == [op |-> "error", ty |-> ty]

IsVal(r)     == r.op = "val"
IsError(r)   == r.op = "error"
IsBoolVal(r, b) == r.op = "val" /\ r.v = BoolV(b)

\* Neither a Boolean value nor an error.
Open(r) == ~IsError(r) /\ ~(IsVal(r) /\ r.v.t = "bool")

SomeOrError(o, ty)      == IF IsSome(o) THEN ValN(o.some, ty) ELSE ErrorN(ty)
SomeOrSelf(o, ty, self) == IF IsSome(o) THEN ValN(o.some, ty) ELSE self
ToOption(res)           == IF IsOk(res) THEN Some(res.ok) ELSE None
Find(m, a)              == IF a \in DOMAIN m THEN Some(m[a]) ELSE None

-----------------------------------------------------------------------------
(* Residuals *)
\* What a policy has become, and what comes of one on complete inputs.
ClassOf(r) == CASE IsBoolVal(r, TRUE)  -> "true"
                [] IsBoolVal(r, FALSE) -> "false"
                [] IsError(r)          -> "error"
                [] OTHER               -> "residual"
BooleanOutcome(res) == IF ~IsOk(res) THEN "error" ELSE IF res.ok = BoolV(TRUE) THEN "true" ELSE "false"

CanError(o) == o \in {"add", "sub", "mul", "getTag", "neg"}

\* The residual certainly evaluates without an error, if it is well typed.
RECURSIVE ErrorFree(_)
ErrorFree(x) ==
  CASE x.op \in {"val", "var"}           -> TRUE
    [] x.op = "binary"                   -> ~CanError(x.o) /\ ErrorFree(x.x) /\ ErrorFree(x.y)
    [] x.op = "unary"                    -> ~CanError(x.o.op) /\ ErrorFree(x.x)
    [] x.op \in {"and", "or"}            -> ErrorFree(x.x) /\ ErrorFree(x.y)
    [] x.op = "ite"                      -> ErrorFree(x.c) /\ ErrorFree(x.x) /\ ErrorFree(x.y)
    [] x.op \in {"hasAttr", "extHasAttr"} -> ErrorFree(x.x)
    [] x.op = "set"                      -> \A k \in DOMAIN x.xs : ErrorFree(x.xs[k])
    [] x.op = "record"                   -> \A k \in DOMAIN x.axs : ErrorFree(x.axs[k][2])
    [] OTHER                             -> FALSE

\* The uids a batched evaluation asks the loader for: those that stand in
\* the residual as values of their own, not those inside a set or record.
RECURSIVE AllLiteralUIDs(_)
AllLiteralUIDs(x) ==
  CASE x.op = "val"                 -> IF x.v.t = "uid" THEN {x.v.u} ELSE {}
    [] x.op \in {"error", "var"}    -> {}
    [] x.op = "ite"                 -> UNION {AllLiteralUIDs(y) : y \in {x.c, x.x, x.y}}
    [] x.op \in {"and", "or", "binary"} -> AllLiteralUIDs(x.x) \cup AllLiteralUIDs(x.y)
    [] x.op \in {"unary", "getAttr", "hasAttr", "extHasAttr"} -> AllLiteralUIDs(x.x)
    [] x.op \in {"set", "call"}     -> UNION {AllLiteralUIDs(x.xs[k]) : k \in DOMAIN x.xs}
    [] x.op = "record"              -> UNION {AllLiteralUIDs(x.axs[k][2]) : k \in DOMAIN x.axs}

-----------------------------------------------------------------------------
(* Partial inputs *)
PAttrs(es, uid)     == IF uid \in DOMAIN es THEN es[uid].attrs ELSE None
PAncestors(es, uid) == IF uid \in DOMAIN es THEN es[uid].ancestors ELSE None
PTags(es, uid)      == IF uid \in DOMAIN es THEN es[uid].tags ELSE None

DataAsPartial(d) == [attrs |-> Some(d.attrs), ancestors |-> Some(d.ancestors), tags |-> Some(d.tags)]

\* A missing entity becomes one with no attributes, ancestors or tags.
MaybeDataAsPartial(o) ==
  IF IsSome(o) THEN DataAsPartial(o.some)
  ELSE [attrs |-> Some(EmptyMap), ancestors |-> Some({}), tags |-> Some(EmptyMap)]

RequestAsPartial(req) == [v \in DOMAIN req |-> Some(req[v])]

\* TypeEnv.descendentOf: may an entity of type e1 be below one of type e2?
DescendentOf(e1, e2) ==
  \/ e1 = e2
  \/ e1 \in DOMAIN Ets /\ e2 \in Ets[e1].ancestors
  \/ /\ e1 \notin DOMAIN Ets
     /\ \E act \in DOMAIN Acts : act.ty = e1 /\ \E p \in Acts[act].ancestors : p.ty = e2

-----------------------------------------------------------------------------
(* Connectives *)
VarP(preq, x) == SomeOrSelf(preq[x.var], x.ty, x)

IteP(c, x, y, ty) ==
  CASE IsVal(c) /\ c.v.t = "bool" -> IF c.v.b THEN x ELSE y
    [] IsError(c)                 -> ErrorN(ty)
    [] OTHER                      -> [op |-> "ite", c |-> c, x |-> x, y |-> y, ty |-> ty]

AndP(l, r, ty) ==
  CASE IsBoolVal(l, TRUE)                    -> r
    [] IsBoolVal(l, FALSE)                   -> BoolN(FALSE)
    [] IsError(l)                            -> ErrorN(ty)
    [] Open(l) /\ IsBoolVal(r, TRUE)         -> l
    [] Open(l) /\ IsBoolVal(r, FALSE) /\ ErrorFree(l) -> BoolN(FALSE)
    [] OTHER                                 -> [op |-> "and", x |-> l, y |-> r, ty |-> ty]

OrP(l, r, ty) ==
  CASE IsBoolVal(l, TRUE)                    -> BoolN(TRUE)
    [] IsBoolVal(l, FALSE)                   -> r
    [] IsError(l)                            -> ErrorN(ty)
    [] Open(l) /\ IsBoolVal(r, FALSE)        -> l
    [] Open(l) /\ IsBoolVal(r, TRUE) /\ ErrorFree(l) -> BoolN(TRUE)
    [] OTHER                                 -> [op |-> "or", x |-> l, y |-> r, ty |-> ty]

-----------------------------------------------------------------------------
(* Unary operators *)
TryDecide1(o, r) ==
  IF ErrorFree(r) /\ o.op = "is" /\ r.ty.k = "entity"
  THEN Some(BoolV(o.ety = r.ty.e))
  ELSE None

Apply1P(o, r, ty) ==
  LET decided == TryDecide1(o, r)
  IN IF IsError(r) THEN ErrorN(ty)
     ELSE IF IsSome(decided) THEN ValN(decided.some, ty)
     ELSE IF IsVal(r) THEN SomeOrError(ToOption(Apply1(o, r.v)), ty)
     ELSE [op |-> "unary", o |-> o, x |-> r, ty |-> ty]

(* Binary operators *)
InEP(u1, u2, es) ==
  IF u1 = u2 THEN Some(BoolV(TRUE))
  ELSE LET anc == PAncestors(es, u1)
       IN  IF IsSome(anc) THEN Some(BoolV(u2 \in anc.some)) ELSE None

\* List.ternaryAny: true if one answer is true, unknown if one is unknown.
TernaryAny(S, p(_)) ==
  LET yes == Some(BoolV(TRUE))
  IN  IF \E u \in S : p(u) = yes THEN yes
      ELSE IF \E u \in S : p(u) = None THEN None
      ELSE Some(BoolV(FALSE))

InSP(uid, vs, es) ==
  IF \A v \in vs : v.t = "uid"
  THEN TernaryAny({v.u : v \in vs}, LAMBDA u : InEP(uid, u, es))
  ELSE None

HasTagP(uid, tag, es) ==
  LET tags == PTags(es, uid)
  IN  IF IsSome(tags) THEN Some(BoolV(tag \in DOMAIN tags.some)) ELSE None

TryDecide2(o, r1, r2) ==
  LET t1 == r1.ty
      t2 == r2.ty
      target == IF t2.k = "set" THEN t2.of ELSE t2
      no == \/ /\ o = "mem" /\ t1.k = "entity" /\ target.k = "entity"
               /\ ~DescendentOf(t1.e, target.e)
            \/ o = "eq" /\ t1.k = "entity" /\ t2.k = "entity" /\ t1.e # t2.e
            \/ /\ o = "hasTag" /\ t1.k = "entity" /\ t2.k = "string"
               /\ t1.e \in DOMAIN Ets /\ ~Ets[t1.e].hasTags
  IN  IF ErrorFree(r1) /\ ErrorFree(r2) /\ no THEN Some(BoolV(FALSE)) ELSE None

Apply2P(o, r1, r2, es, ty) ==
  LET self == [op |-> "binary", o |-> o, x |-> r1, y |-> r2, ty |-> ty]
      decided == TryDecide2(o, r1, r2)
      onValues(v1, v2) ==
        CASE o = "mem" /\ v1.t = "uid" /\ v2.t = "uid" -> SomeOrSelf(InEP(v1.u, v2.u, es), ty, self)
          [] o = "mem" /\ v1.t = "uid" /\ v2.t = "set" -> SomeOrSelf(InSP(v1.u, v2.elts, es), ty, self)
          [] o = "hasTag" /\ v1.t = "uid" /\ v2.t = "string" -> SomeOrSelf(HasTagP(v1.u, v2.s, es), ty, self)
          [] o = "getTag" /\ v1.t = "uid" /\ v2.t = "string" ->
               LET tags == PTags(es, v1.u)
               IN  IF IsSome(tags) THEN SomeOrError(Find(tags.some, v2.s), ty)
                   ELSE [op |-> "binary", o |-> o, x |-> ValN(v1, EntityT(v1.u.ty)),
                         y |-> ValN(v2, [k |-> "string"]), ty |-> ty]
          [] OTHER -> SomeOrError(ToOption(Apply2(o, v1, v2, EmptyMap)), ty)   \* reads no entity
  IN IF IsError(r1) \/ IsError(r2) THEN ErrorN(ty)
     ELSE IF IsSome(decided) THEN ValN(decided.some, ty)
     ELSE IF IsVal(r1) /\ IsVal(r2) THEN onValues(r1.v, r2.v)
     ELSE self

-----------------------------------------------------------------------------
(* Attributes *)
AttrsOfP(r, es) ==
  CASE IsVal(r) /\ r.v.t = "record" -> Some(r.v.m)
    [] IsVal(r) /\ r.v.t = "uid"    -> PAttrs(es, r.v.u)
    [] OTHER                        -> None

TryDecideHas(r, a) ==
  LET declared == CASE r.ty.k = "record" -> Some(r.ty.attrs)
                    [] r.ty.k = "entity" /\ r.ty.e \in DOMAIN Ets -> Some(Ets[r.ty.e].attrs)
                    [] OTHER -> None
  IN  IF ErrorFree(r) /\ IsSome(declared) /\ a \notin declared.some
      THEN Some(BoolV(FALSE)) ELSE None

HasAttrP(r, a, es, ty) ==
  LET decided == TryDecideHas(r, a)
      m == AttrsOfP(r, es)
  IN IF IsError(r) THEN ErrorN(ty)
     ELSE IF IsSome(decided) THEN ValN(decided.some, ty)
     ELSE IF IsSome(m) THEN BoolN(a \in DOMAIN m.some)
     ELSE [op |-> "hasAttr", x |-> r, a |-> a, ty |-> ty]

TryDecideExtHas(r, path, ty) ==
  LET decided == TryDecideHas(r, Head(path))
  IN  IF IsSome(decided) THEN ValN(decided.some, ty)
      ELSE [op |-> "extHasAttr", x |-> r, path |-> path, ty |-> ty]

RECURSIVE ExtHasLoop(_, _, _, _)
ExtHasLoop(m, path, es, ty) ==
  IF path = <<>> THEN BoolN(TRUE)
  ELSE IF Len(path) = 1 THEN BoolN(Head(path) \in DOMAIN m)
  ELSE IF Head(path) \notin DOMAIN m THEN BoolN(FALSE)
  ELSE LET next == m[Head(path)]
           deeper == AttrsOfP(ValN(next, ty), es)
       IN  IF IsSome(deeper) THEN ExtHasLoop(deeper.some, Tail(path), es, ty)
           ELSE IF next.t = "uid" THEN TryDecideExtHas(ValN(next, EntityT(next.u.ty)), Tail(path), ty)
           ELSE ErrorN(ty)

ExtHasAttrP(r, path, es, ty) ==
  LET m == AttrsOfP(r, es)
  IN IF IsError(r) THEN ErrorN(ty)
     ELSE IF IsSome(m) THEN ExtHasLoop(m.some, path, es, ty)
     ELSE TryDecideExtHas(r, path, ty)

GetAttrP(r, a, es, ty) ==
  LET m == AttrsOfP(r, es)
  IN IF IsError(r) THEN ErrorN(ty)
     ELSE IF IsSome(m) THEN SomeOrError(Find(m.some, a), ty)
     ELSE [op |-> "getAttr", x |-> r, a |-> a, ty |-> ty]

-----------------------------------------------------------------------------
(* Sets, records, calls: a value when every part is one, an error when one *)
(* part is, otherwise the node over its evaluated parts.                   *)
Collect(parts, ty, done(_), self) ==
  IF \A k \in DOMAIN parts : IsVal(parts[k]) THEN done([k \in DOMAIN parts |-> parts[k].v])
  ELSE IF \E k \in DOMAIN parts : IsError(parts[k]) THEN ErrorN(ty)
  ELSE self

SetP(rs, ty) ==
  Collect(rs, ty, LAMBDA vs : ValN(SetV(SeqElements(vs)), ty), [op |-> "set", xs |-> rs, ty |-> ty])

RecordP(axs, ty) ==
  Collect([k \in DOMAIN axs |-> axs[k][2]], ty,
          LAMBDA vs : ValN(RecV(MapMake([k \in DOMAIN vs |-> <<axs[k][1], vs[k]>>])), ty),
          [op |-> "record", axs |-> axs, ty |-> ty])

CallP(xfn, rs, ty) ==
  Collect(rs, ty, LAMBDA vs : SomeOrError(ToOption(ExtCall(xfn, vs)), ty),
          [op |-> "call", xfn |-> xfn, xs |-> rs, ty |-> ty])

RECURSIVE PEvaluate(_, _, _)
PEvaluate(x, preq, es) ==
  LET pe(y) == PEvaluate(y, preq, es)
  IN CASE x.op \in {"val", "error"} -> x
       [] x.op = "var"        -> VarP(preq, x)
       [] x.op = "ite"        -> IteP(pe(x.c), pe(x.x), pe(x.y), x.ty)
       [] x.op = "and"        -> AndP(pe(x.x), pe(x.y), x.ty)
       [] x.op = "or"         -> OrP(pe(x.x), pe(x.y), x.ty)
       [] x.op = "unary"      -> Apply1P(x.o, pe(x.x), x.ty)
       [] x.op = "binary"     -> Apply2P(x.o, pe(x.x), pe(x.y), es, x.ty)
       [] x.op = "hasAttr"    -> HasAttrP(pe(x.x), x.a, es, x.ty)
       [] x.op = "extHasAttr" -> ExtHasAttrP(pe(x.x), x.path, es, x.ty)
       [] x.op = "getAttr"    -> GetAttrP(pe(x.x), x.a, es, x.ty)
       [] x.op = "set"        -> SetP([k \in DOMAIN x.xs |-> pe(x.xs[k])], x.ty)
       [] x.op = "record"     -> RecordP([k \in DOMAIN x.axs |-> <<x.axs[k][1], pe(x.axs[k][2])>>], x.ty)
       [] x.op = "call"       -> CallP(x.xfn, [k \in DOMAIN x.xs |-> pe(x.xs[k])], x.ty)

=============================================================================
