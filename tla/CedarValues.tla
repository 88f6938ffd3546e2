---------------------------- MODULE CedarValues ----------------------------
(***************************************************************************)
(* What the concrete evaluator of Cedar                                    *)
(* (cedar-lean/Cedar/Spec/Evaluator.lean) computes with: values, results,  *)
(* the entity store, the operators, and how the results of the parts of an *)
(* expression make that of the whole.                                      *)
(*                                                                         *)
(* A value carries its kind in field t and its content in a field of its   *)
(* own, so that values of different kinds are comparable and different.    *)
(* An attribute map is a function from attribute names to values.  A       *)
(* result is either [ok |-> value] or [err |-> kind of error].             *)
(* Strings are opaque: a `like` pattern is the set of strings it matches.  *)
(***************************************************************************)
EXTENDS Integers, FiniteSets, Sequences

CONSTANTS IntMin, IntMax,      \* the bounds of Int64
          ExtFuns              \* extension function |-> well-typed arguments |-> result

ASSUME IntBounds == /\ IntMin \in Int /\ IntMax \in Int
                    /\ IntMin <= 0 /\ 0 < IntMax

-----------------------------------------------------------------------------
(* Values *)
BoolV(b) == [t |-> "bool", b |-> b]
IntV(i)  == [t |-> "int",  i |-> i]
StrV(s)  == [t |-> "string", s |-> s]
UidV(u)  == [t |-> "uid",  u |-> u]
SetV(S)  == [t |-> "set",  elts |-> S]
RecV(m)  == [t |-> "record", m |-> m]
ExtV(x)  == [t |-> "ext",  x |-> x]

EmptyMap == [a \in {} |-> a]

(* Results *)
Ok(v)    == [ok |-> v]
Err(e)   == [err |-> e]
IsOk(r)  == "ok" \in DOMAIN r
Bind(r, f(_)) == IF IsOk(r) THEN f(r.ok) ELSE r

AsKind(r, kind) == Bind(r, LAMBDA v : IF v.t = kind THEN Ok(v) ELSE Err("typeError"))
AsBool(r) == AsKind(r, "bool")

\* List.mapM in Except: the values in order, or the first error.
MapM(rs) ==
  LET bad == {k \in DOMAIN rs : ~IsOk(rs[k])}
  IN  IF bad = {} THEN Ok([k \in DOMAIN rs |-> rs[k].ok])
      ELSE rs[CHOOSE k \in bad : \A j \in bad : k <= j]

SeqElements(s) == {s[k] : k \in DOMAIN s}

\* Map.make on a list of <<key, value>> pairs: the earliest binding wins.
MapMake(pairs) ==
  LET keys == {pairs[k][1] : k \in DOMAIN pairs}
      first(a) == CHOOSE k \in DOMAIN pairs :
                    /\ pairs[k][1] = a
                    /\ \A j \in 1..(k - 1) : pairs[j][1] # a
  IN  [a \in keys |-> pairs[first(a)][2]]

FindOrErr(m, a, e) == IF a \in DOMAIN m THEN Ok(m[a]) ELSE Err(e)

-----------------------------------------------------------------------------
(* The entity store: a function from the uids that exist to their data.    *)
DataOrErr(uid, es) == FindOrErr(es, uid, "entityDoesNotExist")

AncestorsOrEmpty(uid, es) == IF uid \in DOMAIN es THEN es[uid].ancestors ELSE {}
AttrsOrEmpty(uid, es)     == IF uid \in DOMAIN es THEN es[uid].attrs ELSE EmptyMap
TagsOrEmpty(uid, es)      == IF uid \in DOMAIN es THEN es[uid].tags ELSE EmptyMap

Attrs(uid, es) == Bind(DataOrErr(uid, es), LAMBDA d : Ok(d.attrs))
Tags(uid, es)  == Bind(DataOrErr(uid, es), LAMBDA d : Ok(d.tags))

-----------------------------------------------------------------------------
(* Operators.  A unary operator is a record with field op and, for `is`    *)
(* and `like`, its parameter.                                              *)
IntOrErr(i) == IF i \in IntMin..IntMax THEN Ok(IntV(i)) ELSE Err("arithBoundsError")

Apply1(o, v) ==
  CASE o.op = "not"     /\ v.t = "bool"   -> Ok(BoolV(~v.b))
    [] o.op = "neg"     /\ v.t = "int"    -> IntOrErr(-v.i)
    [] o.op = "isEmpty" /\ v.t = "set"    -> Ok(BoolV(v.elts = {}))
    [] o.op = "like"    /\ v.t = "string" -> Ok(BoolV(v.s \in o.matches))
    [] o.op = "is"      /\ v.t = "uid"    -> Ok(BoolV(v.u.ty = o.ety))
    [] OTHER                              -> Err("typeError")

InE(u1, u2, es) == u1 = u2 \/ u2 \in AncestorsOrEmpty(u1, es)

InS(uid, vs, es) ==
  IF \A v \in vs : v.t = "uid"
  THEN Ok(BoolV(\E v \in vs : InE(uid, v.u, es)))
  ELSE Err("typeError")

HasTag(uid, tag, es) == Ok(BoolV(tag \in DOMAIN TagsOrEmpty(uid, es)))
GetTag(uid, tag, es) == Bind(Tags(uid, es), LAMBDA m : FindOrErr(m, tag, "tagDoesNotExist"))

Apply2(o, v1, v2, es) ==
  LET ints == v1.t = "int" /\ v2.t = "int"
      sets == v1.t = "set" /\ v2.t = "set"
      onTag == v1.t = "uid" /\ v2.t = "string"
  IN CASE o = "eq"                    -> Ok(BoolV(v1 = v2))
       [] o = "less"        /\ ints   -> Ok(BoolV(v1.i < v2.i))
       [] o = "lessEq"      /\ ints   -> Ok(BoolV(v1.i <= v2.i))
       [] o = "add"         /\ ints   -> IntOrErr(v1.i + v2.i)
       [] o = "sub"         /\ ints   -> IntOrErr(v1.i - v2.i)
       [] o = "mul"         /\ ints   -> IntOrErr(v1.i * v2.i)
       [] o = "contains"    /\ v1.t = "set" -> Ok(BoolV(v2 \in v1.elts))
       [] o = "containsAll" /\ sets   -> Ok(BoolV(v2.elts \subseteq v1.elts))
       [] o = "containsAny" /\ sets   -> Ok(BoolV(v1.elts \cap v2.elts # {}))
       [] o = "mem" /\ v1.t = "uid" /\ v2.t = "uid" -> Ok(BoolV(InE(v1.u, v2.u, es)))
       [] o = "mem" /\ v1.t = "uid" /\ v2.t = "set" -> InS(v1.u, v2.elts, es)
       [] o = "hasTag"      /\ onTag  -> HasTag(v1.u, v2.s, es)
       [] o = "getTag"      /\ onTag  -> GetTag(v1.u, v2.s, es)
       [] OTHER                       -> Err("typeError")

-----------------------------------------------------------------------------
(* Attributes *)
AttrsOf(v, lookup(_)) ==
  CASE v.t = "record" -> Ok(v.m)
    [] v.t = "uid"    -> lookup(v.u)
    [] OTHER          -> Err("typeError")

HasAttr(v, a, es) ==
  Bind(AttrsOf(v, LAMBDA u : Ok(AttrsOrEmpty(u, es))),
       LAMBDA m : Ok(BoolV(a \in DOMAIN m)))

GetAttr(v, a, es) ==
  Bind(AttrsOf(v, LAMBDA u : Attrs(u, es)),
       LAMBDA m : FindOrErr(m, a, "attrDoesNotExist"))

ExtCall(xfn, args) ==
  IF args \in DOMAIN ExtFuns[xfn] THEN ExtFuns[xfn][args] ELSE Err("typeError")

-----------------------------------------------------------------------------
(* The result of a node, from those of its parts: evaluation has no        *)
(* effects, so a part that is not needed is not looked at, and the first   *)
(* error in evaluation order wins.                                         *)
IteR(c, x, y)     == Bind(AsBool(c), LAMBDA v : IF v.b THEN x ELSE y)
AndR(x, y)        == Bind(AsBool(x), LAMBDA v : IF v.b THEN AsBool(y) ELSE Ok(v))
OrR(x, y)         == Bind(AsBool(x), LAMBDA v : IF v.b THEN Ok(v) ELSE AsBool(y))
UnaryR(o, x)      == Bind(x, LAMBDA v : Apply1(o, v))
BinaryR(o, x, y, es) == Bind(x, LAMBDA v1 : Bind(y, LAMBDA v2 : Apply2(o, v1, v2, es)))
SetR(xs)          == Bind(MapM(xs), LAMBDA vs : Ok(SetV(SeqElements(vs))))
BindAttr(a, x)    == Bind(x, LAMBDA v : Ok(<<a, v>>))
RecordR(axs)      == Bind(MapM(axs), LAMBDA ps : Ok(RecV(MapMake(ps))))
CallR(xfn, xs)    == Bind(MapM(xs), LAMBDA vs : ExtCall(xfn, vs))

-----------------------------------------------------------------------------
(* One step of the evaluator: what a node comes to, if ev says what its    *)
(* parts come to.                                                          *)

\* `x has a.b.c`: false at the first missing attribute.
HasAttrsStep(v, attrs, es, has(_, _)) ==
  IF attrs = <<>> THEN Ok(BoolV(TRUE))
  ELSE Bind(AttrsOf(v, LAMBDA u : Ok(AttrsOrEmpty(u, es))),
            LAMBDA m : IF Head(attrs) \in DOMAIN m THEN has(m[Head(attrs)], Tail(attrs))
                       ELSE Ok(BoolV(FALSE)))

EvaluateStep(x, req, es, ev(_), has(_, _)) ==
  CASE x.op = "val"        -> Ok(x.v)
    [] x.op = "var"        -> Ok(req[x.var])
    [] x.op = "error"      -> Err("extensionError")
    [] x.op = "ite"        -> IteR(ev(x.c), ev(x.x), ev(x.y))
    [] x.op = "and"        -> AndR(ev(x.x), ev(x.y))
    [] x.op = "or"         -> OrR(ev(x.x), ev(x.y))
    [] x.op = "unary"      -> UnaryR(x.o, ev(x.x))
    [] x.op = "binary"     -> BinaryR(x.o, ev(x.x), ev(x.y), es)
    [] x.op = "hasAttr"    -> Bind(ev(x.x), LAMBDA v : HasAttr(v, x.a, es))
    [] x.op = "extHasAttr" -> Bind(ev(x.x), LAMBDA v : has(v, x.path))
    [] x.op = "getAttr"    -> Bind(ev(x.x), LAMBDA v : GetAttr(v, x.a, es))
    [] x.op = "set"        -> SetR([k \in DOMAIN x.xs |-> ev(x.xs[k])])
    [] x.op = "record"     -> RecordR([k \in DOMAIN x.axs |-> BindAttr(x.axs[k][1], ev(x.axs[k][2]))])
    [] x.op = "call"       -> CallR(x.xfn, [k \in DOMAIN x.xs |-> ev(x.xs[k])])
=============================================================================
