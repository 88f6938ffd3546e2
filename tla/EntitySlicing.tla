---------------------------- MODULE EntitySlicing ----------------------------
(***************************************************************************)
(* Entity slices by level: what of an entity store a request needs, when   *)
(* every policy is validated at a level                                    *)
(* (cedar-lean/Cedar/Spec/Slice.lean, Cedar/Validation/Levels.lean).       *)
(*                                                                         *)
(* A caller asks for the slices of one store and one request level after   *)
(* level.  The types of attributes are a constant; a record type carries   *)
(* the types of its attributes in field of.                                *)
(*                                                                         *)
(* What the code computes by recursion over expressions, values and paths  *)
(* is a parameter.  The operator of its name with ..Body is the body of the *)
(* function, with what it calls on the parts as arguments, and ..Step the  *)
(* body that calls the parameter: the parameter is assumed to be equal to  *)
(* its step, on sets that are closed under parts.                          *)
(***************************************************************************)
EXTENDS CedarValues

CONSTANTS
  AttrTypes,   \* entity type |-> attribute |-> type
  SliceStores, SliceRequests, SliceExprs, MaxLevel,
  LevelNodes, NodeSize(_),   \* the expressions with their parts, and how large they are
  LevelValues, LevelTypes,   \* the values and types that occur, with their parts
  HasPaths,                  \* the paths of `has`, with their tails
  Accesses,                  \* the parts that entities are taken from, each with a path
  OfType(_, _),              \* a value is of a type
  EvaluateIn(_, _, _), HasAttrsIn(_, _, _),           \* evaluate and attrsHave
  ValueEUIDs(_), ChainCost(_, _), FirstEntityPath(_, _),
  CheckLevel(_, _, _), CheckEntityAccessLevel(_, _, _, _, _)

VARIABLES
  whole, asked,   \* the store and the request
  level,          \* the level asked for, -1 before the first
  slice           \* Entities.sliceAtLevel

sliceVars == <<whole, asked, level, slice>>

-----------------------------------------------------------------------------
(* Slices *)

\* Value.sliceEUIDs: not what stands in a set, where no dereference is valid.
ValueEUIDsBody(v, euids(_)) ==
  CASE v.t = "uid"    -> {v.u}
    [] v.t = "record" -> UNION {euids(v.m[a]) : a \in DOMAIN v.m}
    [] OTHER          -> {}
ValueEUIDsStep(v) == ValueEUIDsBody(v, ValueEUIDs)

MapEUIDs(m) == UNION {ValueEUIDs(m[a]) : a \in DOMAIN m}

DataEUIDs(data) == MapEUIDs(data.attrs) \cup MapEUIDs(data.tags)

RequestEUIDs(r) == {r.principal.u, r.action.u, r.resource.u} \cup ValueEUIDs(r.context)

\* The uids that so many steps lead to: an entity that is not there leads nowhere.
Layer(store, work, n) ==
  LET at[k \in 0..n] ==
        IF k = 0 THEN work ELSE UNION {DataEUIDs(store[u]) : u \in at[k - 1] \cap DOMAIN store}
  IN  at[n]

\* Mutant: of the entities only those of the last level are kept.
ReachedLast(store, work, n) == IF n = 0 THEN {} ELSE Layer(store, work, n - 1)

\* sliceAtLevel.sliceAtLevel, whose n-th call works on what n steps lead to.
Reached(store, work, n) == UNION {Layer(store, work, k) : k \in 0..(n - 1)}

SliceAtLevel(store, r, n) ==
  [u \in Reached(store, RequestEUIDs(r), n) \cap DOMAIN store |-> store[u]]
ClosedAtLevel(store, r, n) == Reached(store, RequestEUIDs(r), n) \subseteq DOMAIN store

-----------------------------------------------------------------------------
(* Level checking of typed expressions *)
OnEntity(x) == x.ty.k = "entity"

\* The type of attribute a of a value of this type, if there is one.
HasType(ty, a) ==
  \/ ty.k = "entity" /\ ty.e \in DOMAIN AttrTypes /\ a \in DOMAIN AttrTypes[ty.e]
  \/ ty.k = "record" /\ a \in DOMAIN ty.of
TypeOfAttr(ty, a) == IF ty.k = "entity" THEN AttrTypes[ty.e][a] ELSE ty.of[a]

\* A path leads on from a type: the last attribute is only looked for.
LeadsOn(ty, path) == Len(path) > 1 /\ HasType(ty, Head(path))

\* extHasAttrChainCost: an entity passed on the way costs one.
ChainCostBody(ty, path, cost(_, _)) ==
  IF ~LeadsOn(ty, path) THEN 0
  ELSE LET next == TypeOfAttr(ty, Head(path))
       IN  (IF next.k = "entity" THEN 1 ELSE 0) + cost(next, Tail(path))
ChainCostStep(ty, path) == ChainCostBody(ty, path, ChainCost)

\* extHasAttrFirstEntityPath?: empty if no entity is passed.
FirstEntityPathBody(ty, path, first(_, _)) ==
  IF ~LeadsOn(ty, path) THEN <<>>
  ELSE LET next == TypeOfAttr(ty, Head(path))
           rest == first(next, Tail(path))
       IN  IF next.k = "entity" THEN <<Head(path)>>
           ELSE IF rest = <<>> THEN <<>> ELSE <<Head(path)>> \o rest
FirstEntityPathStep(ty, path) == FirstEntityPathBody(ty, path, FirstEntityPath)

\* checkEntityAccessLevel: an access to the entity that x, or what path leads
\* to in the record x, is.
CheckEntityAccessLevelBody(x, n, act, path, ok(_), access(_, _, _)) ==
  CASE x.op = "var" -> TRUE
    [] x.op = "val" -> x.v = act
    [] x.op = "ite" -> ok(x.c) /\ access(x.x, n, path) /\ access(x.y, n, path)
    [] x.op = "getAttr" -> IF OnEntity(x.x) THEN n > 0 /\ access(x.x, n - 1, <<>>)
                           ELSE access(x.x, n, <<x.a>> \o path)
    [] x.op = "binary" /\ x.o = "getTag" -> n > 0 /\ access(x.x, n - 1, <<>>) /\ ok(x.y)
    [] x.op = "record" /\ path # <<>> ->
         LET fields == MapMake(x.axs)
         IN  /\ Head(path) \in DOMAIN fields
             /\ access(fields[Head(path)], n, Tail(path))
             /\ \A k \in DOMAIN x.axs : ok(x.axs[k][2])
    [] OTHER -> FALSE
CheckEntityAccessLevelStep(x, n, nmax, act, path) ==
  CheckEntityAccessLevelBody(x, n, act, path, LAMBDA y : CheckLevel(y, nmax, act),
                             LAMBDA y, m, p : CheckEntityAccessLevel(y, m, nmax, act, p))

\* A path of `has`, on an entity or on a record with an entity in it.
CheckPath(x, n, ok(_), access(_, _, _)) ==
  LET k == ChainCost(x.x.ty, x.path)
      first == FirstEntityPath(x.x.ty, x.path)
  IN  CASE OnEntity(x.x) -> n > k /\ access(x.x, n - k - 1, <<>>)
        [] x.x.ty.k = "record" -> n >= k /\ (first # <<>> => access(x.x, n - k, first)) /\ ok(x.x)
        [] OTHER -> ok(x.x)

\* The operators that look an entity up in the store.
Dereferences(x) ==
  \/ x.op = "binary" /\ x.o \in {"mem", "getTag", "hasTag"}
  \/ x.op \in {"hasAttr", "getAttr"} /\ OnEntity(x.x)

CheckLevelBody(x, n, ok(_), access(_, _, _)) ==
  CASE Dereferences(x) -> n > 0 /\ access(x.x, n - 1, <<>>) /\ (x.op = "binary" => ok(x.y))
    [] x.op = "extHasAttr" -> CheckPath(x, n, ok, access)
    [] x.op \in {"val", "var"} -> TRUE
    [] x.op = "ite" -> ok(x.c) /\ ok(x.x) /\ ok(x.y)
    [] x.op \in {"and", "or"} \/ (x.op = "binary" /\ ~Dereferences(x)) -> ok(x.x) /\ ok(x.y)
    [] x.op = "unary" \/ (x.op \in {"hasAttr", "getAttr"} /\ ~OnEntity(x.x)) -> ok(x.x)
    [] x.op \in {"call", "set"} -> \A k \in DOMAIN x.xs : ok(x.xs[k])
    [] x.op = "record" -> \A k \in DOMAIN x.axs : ok(x.axs[k][2])
CheckLevelStep(x, n, act) ==
  CheckLevelBody(x, n, LAMBDA y : CheckLevel(y, n, act),
                 LAMBDA y, m, p : CheckEntityAccessLevel(y, m, n, act, p))

-----------------------------------------------------------------------------
(* What the parameters are *)
ASSUME LevelAssumption == MaxLevel \in Nat

\* An expression, its parts, and the stores it is evaluated in.
Ops == {"val", "var", "ite", "and", "or", "unary", "binary", "hasAttr", "getAttr", "extHasAttr",
        "set", "record", "call"}
NodeParts(x) ==
  CASE x.op \in {"val", "var"}           -> {}
    [] x.op = "ite"                      -> {x.c, x.x, x.y}
    [] x.op \in {"and", "or", "binary"}  -> {x.x, x.y}
    [] x.op \in {"unary", "hasAttr", "getAttr", "extHasAttr"} -> {x.x}
    [] x.op \in {"set", "call"}          -> {x.xs[k] : k \in DOMAIN x.xs}
    [] x.op = "record"                   -> {x.axs[k][2] : k \in DOMAIN x.axs}
IsNode(x) ==
  /\ x.op \in Ops /\ NodeSize(x) \in Nat /\ \A y \in NodeParts(x) : NodeSize(y) < NodeSize(x)
  /\ x.op = "var" => x.var \in {"principal", "action", "resource", "context"}
  /\ x.op = "getAttr" => x.a \in STRING
  /\ x.op = "call" => x.xfn \in DOMAIN ExtFuns
  /\ x.op \in {"set", "call"} => Len(x.xs) \in Nat /\ DOMAIN x.xs = 1..Len(x.xs)
  /\ x.op = "record" => Len(x.axs) \in Nat /\ DOMAIN x.axs = 1..Len(x.axs)

ASSUME NodesAreExpressions ==
  /\ SliceExprs \subseteq LevelNodes
  /\ \A x \in LevelNodes : IsNode(x)
  /\ UNION {NodeParts(x) : x \in LevelNodes} \subseteq LevelNodes
  /\ {x.path : x \in {y \in LevelNodes : y.op = "extHasAttr"}} \subseteq HasPaths
  /\ {x.ty : x \in LevelNodes} \subseteq LevelTypes

Fields(v) == IF v.t = "record" THEN SeqElements(v.m) ELSE {}
ASSUME ValuesAreValues ==
  /\ \A v \in LevelValues : ValueEUIDs(v) = ValueEUIDsStep(v)
  /\ UNION {Fields(v) : v \in LevelValues} \subseteq LevelValues
  /\ \A r \in SliceRequests, v \in {"principal", "action", "resource"} : r[v].t = "uid"
  /\ {r[v] : r \in SliceRequests, v \in {"principal", "action", "resource", "context"}} \subseteq LevelValues
  /\ UNION {UNION {SeqElements(es[u].attrs) \cup SeqElements(es[u].tags) : u \in DOMAIN es} : es \in SliceStores}
       \subseteq LevelValues

\* Requests and stores conform to the schema, and expressions are of their types.
NodeResults == {EvaluateIn(x, r, es) : x \in LevelNodes, r \in SliceRequests, es \in SliceStores}
AttrsOfType(m, ty) == \A a \in DOMAIN m : HasType(ty, a) /\ OfType(m[a], TypeOfAttr(ty, a))
ASSUME TypesAreSound ==
  /\ \A x \in LevelNodes, r \in SliceRequests, es \in SliceStores :
       IsOk(EvaluateIn(x, r, es)) => OfType(EvaluateIn(x, r, es).ok, x.ty)
  /\ {result.ok : result \in {y \in NodeResults : IsOk(y)}} \subseteq LevelValues
  /\ \A v \in LevelValues, ty \in LevelTypes, es \in SliceStores : OfType(v, ty) =>
       /\ v.t = "uid" <=> ty.k = "entity"
       /\ v.t = "record" <=> ty.k = "record"
       /\ v.t = "record" => AttrsOfType(v.m, ty)
       /\ v.t = "uid" /\ v.u \in DOMAIN es => AttrsOfType(es[v.u].attrs, ty)
  /\ UNION {{TypeOfAttr(ty, Head(p)) : p \in {q \in HasPaths : q # <<>> /\ HasType(ty, Head(q))}} : ty \in LevelTypes}
       \subseteq LevelTypes

\* Every store that is looked at.
LookedAt == SliceStores \cup {SliceAtLevel(es, r, n) : es \in SliceStores, r \in SliceRequests, n \in 0..MaxLevel}

ASSUME PathsAreWalked ==
  /\ HasPaths \subseteq Seq(STRING)
  /\ {Tail(p) : p \in HasPaths \ {<<>>}} \subseteq HasPaths
  /\ \A p \in HasPaths, ty \in LevelTypes :
       /\ ChainCost(ty, p) = ChainCostStep(ty, p)
       /\ FirstEntityPath(ty, p) = FirstEntityPathStep(ty, p)
  /\ \A p \in HasPaths, v \in LevelValues, es \in LookedAt :
       HasAttrsIn(v, p, es) = HasAttrsStep(v, p, es, LAMBDA w, q : HasAttrsIn(w, q, es))

ASSUME NodesAreEvaluated ==
  \A x \in LevelNodes, r \in SliceRequests, es \in LookedAt :
    EvaluateIn(x, r, es) = EvaluateStep(x, r, es, LAMBDA y : EvaluateIn(y, r, es),
                                        LAMBDA v, p : HasAttrsIn(v, p, es))

ASSUME ExtensionsKnowNoEntities ==
  \A f \in DOMAIN ExtFuns : \A args \in DOMAIN ExtFuns[f] :
    ExtFuns[f][args] # Err("entityDoesNotExist")

\* The accesses that checking an access leads to.
AccessesWithin(x, path) ==
  CASE x.op = "ite" -> {<<x.x, path>>, <<x.y, path>>}
    [] x.op = "getAttr" -> {<<x.x, IF OnEntity(x.x) THEN <<>> ELSE <<x.a>> \o path>>}
    [] x.op = "binary" /\ x.o = "getTag" -> {<<x.x, <<>>>>}
    [] x.op = "record" /\ path # <<>> /\ Head(path) \in DOMAIN MapMake(x.axs) ->
         {<<MapMake(x.axs)[Head(path)], Tail(path)>>}
    [] OTHER -> {}
AccessesOf(x) ==
  IF Dereferences(x) THEN {<<x.x, <<>>>>}
  ELSE IF x.op = "extHasAttr" THEN {<<x.x, <<>>>>, <<x.x, FirstEntityPath(x.x.ty, x.path)>>} ELSE {}

ASSUME LevelsAreChecked ==
  /\ UNION {AccessesOf(x) : x \in LevelNodes} \subseteq Accesses
  /\ Accesses \subseteq LevelNodes \X Seq(STRING)
  /\ UNION {AccessesWithin(a[1], a[2]) : a \in Accesses} \subseteq Accesses
  /\ \A x \in LevelNodes, r \in SliceRequests, n \in 0..MaxLevel :
       CheckLevel(x, n, r.action) <=> CheckLevelStep(x, n, r.action)
  /\ \A a \in Accesses, r \in SliceRequests, nmax \in 0..MaxLevel, n \in 0..MaxLevel :
       CheckEntityAccessLevel(a[1], n, nmax, r.action, a[2]) <=>
         CheckEntityAccessLevelStep(a[1], n, nmax, r.action, a[2])

-----------------------------------------------------------------------------
SliceInit ==
  /\ whole \in SliceStores /\ asked \in SliceRequests
  /\ level = -1 /\ slice = EmptyMap

\* Entities.sliceAtLevel for the next level.
Deepen ==
  /\ level < MaxLevel
  /\ level' = level + 1
  /\ slice' = SliceAtLevel(whole, asked, level + 1)
  /\ UNCHANGED <<whole, asked>>

SliceNext == Deepen
SliceSpec == SliceInit /\ [][SliceNext]_sliceVars

-----------------------------------------------------------------------------
Valid(n) == {x \in SliceExprs : CheckLevel(x, n, asked.action)}

\* An expression that is valid at a level evaluates on the slice of that level
\* to what it evaluates to on the whole store, error or value
\* (Levels.lean:57-198 against Slice.lean:45-56).
LevelSound == \A x \in Valid(level) : EvaluateIn(x, asked, slice) = EvaluateIn(x, asked, whole)

\* On a store that is closed at the level, an expression valid at it never
\* meets an entity that is missing (Slice.lean:58-72, Levels.lean:57-198).
ClosedNeverMissing ==
  ClosedAtLevel(whole, asked, level) =>
    \A x \in Valid(level) : EvaluateIn(x, asked, whole) # Err("entityDoesNotExist")

\* The slice is all there is to know of the store up to the level: sliced
\* again, at this level or below, it gives what the store gives, so a slice
\* may be taken of a slice (Slice.lean:45-56).
SliceOfSlice == \A n \in 0..level : SliceAtLevel(slice, asked, n) = SliceAtLevel(whole, asked, n)

\* What is validated at a level needs no more of the store than the slice of
\* that level, which may be taken of another slice (Slice.lean:45-72,
\* Levels.lean:57-198).
SlicesSuffice == level >= 0 => LevelSound /\ ClosedNeverMissing /\ SliceOfSlice
=============================================================================
