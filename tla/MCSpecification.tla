-------------------------- MODULE MCSpecification --------------------------
(***************************************************************************)
(* Parts of the specification of Cedar on small inputs: authorization      *)
(* under partial knowledge, slices of entities, templates with slices of   *)
(* policies, datetimes, and the decoding of what it is called with.  They  *)
(* call each other nowhere, so a behaviour is one of one of them: `part`   *)
(* says which, and the others stay as they start.                          *)
(***************************************************************************)
EXTENDS MCCedar, TypeAwareAuthorizer, EntitySlicing, PolicyTemplates, ExtDatetime, MCWire

VARIABLE part

-----------------------------------------------------------------------------
(* Partial knowledge: a permit beside a fixed forbid policy. The evaluators *)
(* are checked on the expressions of the pool and pairs of some of them;    *)
(* authorization on those that are no pairs.                                *)
\* No expression reads the data of a group, so the group is not in these stores:
\* what is known of it would only multiply the states.
MCPartialStores == {[u \in DOMAIN es \ {staff} |-> es[u]] : es \in MCFewStores}

MCLessons == {{"attrs"}, {"ancestors", "tags"}}

MCEffect == [p \in {"p1", "f1"} |-> IF p = "p1" THEN "permit" ELSE "forbid"]
MCPrograms == {[p \in {"p1", "f1"} |-> IF p = "p1" THEN x ELSE MgrInStaff] : x \in Bools \cup Guarded}
MCPaired == {AgeLow, MgrTagLow, OnFlag}
MCPolicies == Bools \cup Guarded
                \cup UNION {{And(x, y), Or(x, y), Ite(x, y, Not(x))} : x, y \in MCPaired}
MCOneRequest == {MCRequest(alice, TRUE)}

MCAsKnown(x) == Some(x)
MCUnknown == None
MCClosed(q, es) ==
  /\ q.principal.u \in DOMAIN es
  /\ \A u \in DOMAIN es : \A a \in DOMAIN es[u].attrs :
       es[u].attrs[a].t = "uid" => es[u].attrs[a].u \in DOMAIN es
MCClass(r) == ClassOf(r)
MCOutcome(x, q, es) == BooleanOutcome(Evaluate(x, q, es))

\* Partial evaluation, tabulated once for all that a caller may know.
PartialStores == UNION {{PartialStore(es, l) : l \in Learnings(es)} : es \in Stores}
PartialRequests == UNION {{PartialRequest(q, vs) : vs \in KnownVariables(q)} : q \in Requests}
Evaluated == [pe \in PartialStores |-> [pq \in PartialRequests |-> [x \in Policies |-> PEvaluate(x, pq, pe)]]]
MCPartialEvaluate(x, pq, pe) ==
  IF pe \in DOMAIN Evaluated THEN Evaluated[pe][pq][x] ELSE PEvaluate(x, pq, pe)

-----------------------------------------------------------------------------
(* Slices: chains of managers, tags that lead on, a record of the context  *)
(* with an entity in it, a cycle, missing entities; every expression shape *)
(* around a dereference at several depths.                                 *)
carol == [ty |-> "User", id |-> "carol"]

\* A user has a manager, perhaps a card (a record with an entity in it), and
\* tags that name a deputy.
CardT == [k |-> "record", attrs |-> {"peer", "no"}, of |-> [a \in {"peer", "no"} |-> IF a = "peer" THEN UserT ELSE IntT]]
CtxT  == [k |-> "record", attrs |-> {"boss", "card"}, of |-> [a \in {"boss", "card"} |-> IF a = "boss" THEN UserT ELSE CardT]]
MCAttrTypes ==
  [e \in {"User", "Doc"} |->
     IF e = "User" THEN [a \in {"mgr", "age", "card"} |-> CASE a = "mgr" -> UserT [] a = "age" -> IntT [] a = "card" -> CardT]
     ELSE [a \in {"owner"} |-> UserT]]

Card(u) == RecV([a \in {"peer", "no"} |-> IF a = "peer" THEN UidV(u) ELSE IntV(1)])
Person(mgr, peer, deputy, anc) ==
  [attrs |-> [a \in {"mgr", "age", "card"} |-> CASE a = "mgr" -> UidV(mgr) [] a = "age" -> IntV(1) [] a = "card" -> Card(peer)],
   ancestors |-> anc, tags |-> [t \in {"lvl"} |-> UidV(deputy)]]

\* Who there is, and who leads where.
MCSliceStores ==
  {[u \in there |->
      CASE u = alice -> Person(m, p, d, {})
        [] u = bob   -> Person(carol, alice, carol, {staff})
        [] u = carol -> Person(alice, bob, bob, {staff})
        [] u = memo  -> DocData(o)
        [] u = view  -> PlainData({read})
        [] OTHER     -> PlainData({})] :
     there \in {{alice, bob, carol, memo, view, read, staff}, {alice, carol, memo, view}, {alice, bob, memo}},
     m \in {alice, bob}, p \in {bob, carol}, d \in {bob, carol}, o \in {alice, bob}}

MCSliceRequests ==
  {[principal |-> UidV(alice), action |-> UidV(view), resource |-> UidV(memo),
    context |-> RecV([a \in {"boss", "card"} |-> IF a = "boss" THEN UidV(b) ELSE Card(c)])] :
     b \in {alice, bob}, c \in {bob, carol}}

Ctx   == [op |-> "var", var |-> "context", ty |-> CtxT]
Boss  == Get(Ctx, "boss", UserT)
CardX(x) == Get(x, "card", CardT)
Peer(x)  == Get(x, "peer", UserT)
Deputy(x) == X("getTag", x, Str("lvl"), UserT)
Owner == Get(Resource, "owner", UserT)
Made(x) == [op |-> "record", axs |-> <<<<"peer", x>>, <<"no", Num(1)>>>>, ty |-> CardT]
Chosen(x, y) == Ite(X("less", Age(Principal), Num(2), BoolT), x, y)

\* Users, by zero, one or two dereferences of a root, and one that is no root.
Near  == {Principal, Boss, Lit(bob), Peer(CardX(Ctx))}
Hop(xs) == UNION {{Mgr(x), Peer(CardX(x)), Deputy(x)} : x \in xs}
Users == Near \cup Hop(Near) \cup Hop({Mgr(Principal), Deputy(Boss), Peer(CardX(Principal))})
         \cup {Owner, Mgr(Owner), Peer(Made(Mgr(Principal))), Chosen(Mgr(Principal), Boss), Chosen(Lit(bob), Principal)}

On(x) == {Eq(Age(x), Num(1)), Has(x, "age"), In(x, Lit(staff)), Eq(Deputy(x), Principal),
          X("hasTag", x, Str("lvl"), BoolT), HasPath(x, <<"mgr", "mgr", "age">>),
          HasPath(x, <<"card", "peer", "age">>), HasPath(CardX(x), <<"peer", "age">>),
          HasPath(x, <<"card", "no">>), Eq(x, Principal)}

MCSliceExprs ==
  (UNION {On(x) : x \in Users})
  \cup {In(Action, Lit(read)), In(Lit(view), Lit(read)), In(Lit(read), Lit(view)),
        HasPath(Ctx, <<"boss", "mgr", "age">>), HasPath(Ctx, <<"card", "peer", "mgr", "age">>),
        HasPath(Made(Mgr(Principal)), <<"peer", "age">>), HasPath(Ctx, <<"card", "no">>),
        X("contains", SetX(<<Mgr(Principal), Lit(bob)>>, UserT), Mgr(Boss), BoolT),
        Not(And(In(Principal, Lit(staff)), Or(Has(Boss, "age"), In(Mgr(Boss), Lit(staff)))))}

\* The recursions of the code, and what they are computed of.
RECURSIVE MCValueEUIDs(_), MCChainCost(_, _), MCFirstEntityPath(_, _)
MCValueEUIDs(v) == ValueEUIDsBody(v, LAMBDA w : MCValueEUIDs(w))
MCChainCost(ty, path) == ChainCostBody(ty, path, LAMBDA next, p : MCChainCost(next, p))
MCFirstEntityPath(ty, path) ==
  FirstEntityPathBody(ty, path, LAMBDA next, p : MCFirstEntityPath(next, p))

RECURSIVE MCCheckLevel(_, _, _), MCCheckEntityAccessLevel(_, _, _, _, _)
MCCheckLevel(x, n, act) ==
  CheckLevelBody(x, n, LAMBDA y : MCCheckLevel(y, n, act),
                 LAMBDA y, m, p : MCCheckEntityAccessLevel(y, m, n, act, p))
MCCheckEntityAccessLevel(x, n, nmax, act, path) ==
  CheckEntityAccessLevelBody(x, n, act, path, LAMBDA y : MCCheckLevel(y, nmax, act),
                             LAMBDA y, m, p : MCCheckEntityAccessLevel(y, m, nmax, act, p))

RECURSIVE LevelNodesOf(_), MCNodeSize(_), AccessesFrom(_), ValuesIn(_), MCOfType(_, _)
LevelNodesOf(xs) == IF xs = {} THEN {} ELSE xs \cup LevelNodesOf(UNION {NodeParts(x) : x \in xs})
MCNodeSize(x) == 1 + Max({0} \cup {MCNodeSize(y) : y \in NodeParts(x)})
AccessesFrom(as) ==
  IF as = {} THEN {} ELSE as \cup AccessesFrom(UNION {AccessesWithin(a[1], a[2]) : a \in as})
ValuesIn(vs) ==
  IF vs = {} THEN {}
  ELSE vs \cup ValuesIn(UNION {IF v.t = "record" THEN {v.m[a] : a \in DOMAIN v.m} ELSE {} : v \in vs})
MCOfType(v, ty) ==
  CASE ty.k = "entity" -> v.t = "uid" /\ v.u.ty = ty.e
    [] ty.k = "record" -> v.t = "record" /\ \A a \in DOMAIN v.m : a \in DOMAIN ty.of /\ MCOfType(v.m[a], ty.of[a])
    [] ty.k = "set"    -> v.t = "set" /\ \A e \in v.elts : MCOfType(e, ty.of)
    [] OTHER           -> v.t = ty.k

MCLevelNodes == LevelNodesOf(MCSliceExprs)
MCAccesses == AccessesFrom(UNION {AccessesOf(x) : x \in MCLevelNodes})
MCLevelTypes == {x.ty : x \in MCLevelNodes}
MCHasPaths ==
  UNION {{SubSeq(x.path, k, Len(x.path)) : k \in 1..(Len(x.path) + 1)} :
           x \in {y \in MCLevelNodes : y.op = "extHasAttr"}}
MCLevelValues ==
  ValuesIn({r[v] : r \in MCSliceRequests, v \in {"principal", "action", "resource", "context"}}
    \cup UNION {UNION {SeqElements(es[u].attrs) \cup SeqElements(es[u].tags) : u \in DOMAIN es} : es \in MCSliceStores}
    \cup {result.ok : result \in {y \in {Evaluate(x, r, es) : x \in MCLevelNodes, r \in MCSliceRequests, es \in MCSliceStores} : IsOk(y)}})

-----------------------------------------------------------------------------
(* Templates: every kind of scope in every place, slots in both, links     *)
(* that lack a slot or a template, and conditions that hold, fail and go   *)
(* wrong in every order.                                                   *)
shelf == [ty |-> "Doc", id |-> "shelf"]

\* alice and memo are in their groups or not; alice has an age or not.
MCTemplateStores ==
  {[Store(age, anc, OneTag, {}, alice) EXCEPT ![memo].ancestors = up] :
     age \in {{}, {0}}, anc \in {{}, {staff}}, up \in {{}, {shelf}}}

AnyS == [c |-> "any"]
IsS(ety) == [c |-> "is", ety |-> ety]
Scopes(ety, uid, group, slot) ==
  {AnyS, IsS(ety)}
  \cup {[c |-> c, of |-> o] : c \in {"eq", "mem"}, o \in {[uid |-> uid], [uid |-> group], [slot |-> slot]}}
  \cup {[c |-> "isMem", ety |-> ety, of |-> o] : o \in {[uid |-> group], [slot |-> slot]}}
PrincipalScopes == Scopes("User", alice, staff, "?principal") \cup {IsS("Doc")}
ResourceScopes  == Scopes("Doc", memo, shelf, "?resource") \cup {IsS("User")}
InAny(uids) == [c |-> "inAny", uids |-> uids]
ActionScopes == {AnyS, [c |-> "eq", of |-> [uid |-> view]], [c |-> "eq", of |-> [uid |-> read]],
                 [c |-> "mem", of |-> [uid |-> read]], IsS("Action"),
                 InAny(<<>>), InAny(<<read>>), InAny(<<view, staff>>)}

When(x) == [kind |-> "when", body |-> x]
Unless(x) == [kind |-> "unless", body |-> x]
\* Met or not met by context and store, an error without an age, always an error.
Tests == {When(OnFlag), Unless(OnFlag), When(AgeLow), Unless(BadDecimal), When(Num(1))}
Conditions == {<<>>} \cup [1..1 -> Tests] \cup [1..2 -> Tests]
              \cup {<<a, b, c>> : a \in {When(OnFlag)}, b \in Tests, c \in Tests}

Template(eff, p, a, r, cs) == [effect |-> eff, principal |-> p, action |-> a, resource |-> r, conditions |-> cs]
ScopeTemplates == {Template("permit", p, AnyS, r, <<When(AgeLow)>>) : p \in PrincipalScopes, r \in ResourceScopes}
ActionTemplate(a, cs) == Template("forbid", [c |-> "mem", of |-> [slot |-> "?principal"]], a, AnyS, cs)
OtherTemplates == {ActionTemplate(a, cs) : a \in ActionScopes, cs \in {<<>>} \cup [1..1 -> Tests]}
                  \cup {ActionTemplate(InAny(<<view, staff>>), cs) : cs \in Conditions}
MCTemplateMap == [t \in ScopeTemplates \cup OtherTemplates |-> t]

Slots(p, r) == [s \in {"?principal" : x \in p} \cup {"?resource" : x \in r} |->
                  IF s = "?principal" THEN CHOOSE x \in p : TRUE ELSE CHOOSE x \in r : TRUE]
MCLink(t, p, r) == [template |-> t, slots |-> Slots(p, r)]
Good == {MCLink(t, {staff}, {memo}) : t \in ScopeTemplates \cup OtherTemplates}
Few  == {MCLink(t, p, r) : t \in {Template("permit", [c |-> "eq", of |-> [slot |-> "?principal"]], AnyS,
                                            [c |-> "mem", of |-> [slot |-> "?resource"]], <<When(AgeLow)>>)},
                          p \in {{}, {alice}, {bob}}, r \in {{}, {shelf}}}
Fixed == MCLink(Template("forbid", [c |-> "mem", of |-> [slot |-> "?principal"]], AnyS, AnyS, <<When(OnFlag)>>), {staff}, {})
Missing == [template |-> [missing |-> TRUE], slots |-> EmptyMap]

MCLinkLists == {<<l, Fixed>> : l \in Good} \cup {<<Fixed, l, m>> : l \in Few, m \in Few} \cup {<<>>, <<Fixed, Missing>>}

\* The policies that can be linked, with all their parts.
PartsOf(x) == IF x.op \in {"and", "binary"} THEN {x.x, x.y} ELSE IF x.op = "unary" THEN {x.x}
            ELSE IF x.op = "set" THEN SeqElements(x.xs) ELSE {}
RECURSIVE NodesOf(_)
NodesOf(xs) == IF xs = {} THEN {} ELSE xs \cup NodesOf(UNION {PartsOf(x) : x \in xs})
MCPolicyNodes ==
  NodesOf({PolicyExpr(LinkTemplate(l.template, l.slots)) :
             l \in {k \in Good \cup Few \cup {Fixed} : HasSlots(k.template, k.slots)}})

-----------------------------------------------------------------------------
(* Datetimes: seven bits and a day of twelve, so that the range is no      *)
(* whole number of days; quantities below, at and beyond every limit.      *)
MCMillisMin == -64
MCLiterals == {-64, -61, -12, -1, 0, 7, 63}
MCWritten ==
  [1..5 -> {0, 1, 3}]
  \cup {[k \in 1..5 |-> IF k = j THEN q ELSE z] : j \in 1..5, q \in {2, 5, 6, 10, 11, 16, 31, 32, 63, 64, 65, 200}, z \in {0, 1}}

-----------------------------------------------------------------------------
OnlyIn(name, choice) == IF part = name THEN TRUE ELSE choice
Nothing == [negative |-> FALSE, quantity |-> [k \in 1..5 |-> 0]]
AProgram == CHOOSE x \in MCPrograms : x["p1"] = MgrInStaff
AStore == CHOOSE es \in MCPartialStores : TRUE

PartsInit ==
  /\ part \in {"partial", "slices", "templates", "datetimes", "varints", "messages"}
  /\ OnlyIn("partial", policies = AProgram /\ entities = AStore) /\ Init
  /\ IF part = "slices" THEN SliceInit
     ELSE whole = EmptyMap /\ asked = EmptyMap /\ level = -1 /\ slice = EmptyMap
  /\ OnlyIn("templates", links = <<>>) /\ TemplateInit
  /\ OnlyIn("datetimes", datetime = 0 /\ text = Nothing) /\ DatetimeInit
  /\ OnlyIn("varints", kind = "bool" /\ sent = {} /\ input = <<>>) /\ VarintInit
  /\ IF part = "messages" THEN MessageInit
     ELSE records = <<>> /\ wire = <<>> /\ pos = 1 /\ messageOutcome = "reading" /\ stack = <<Frame(RootType, 0)>>

Learn ==
  /\ part = "partial" /\ Next
  /\ UNCHANGED <<part, sliceVars, templateVars, datetimeVars, varintVars, messageVars>>
Slice ==
  /\ part = "slices" /\ SliceNext
  /\ UNCHANGED <<part, vars, templateVars, datetimeVars, varintVars, messageVars>>
LinkAndAuthorize ==
  /\ part = "templates" /\ TemplateNext
  /\ UNCHANGED <<part, vars, sliceVars, datetimeVars, varintVars, messageVars>>
Compute ==
  /\ part = "datetimes" /\ DatetimeNext
  /\ UNCHANGED <<part, vars, sliceVars, templateVars, varintVars, messageVars>>
ReadVarint ==
  /\ part = "varints" /\ VarintNext
  /\ UNCHANGED <<part, vars, sliceVars, templateVars, datetimeVars, messageVars>>
ReadMessage ==
  /\ part = "messages" /\ MessageNext
  /\ UNCHANGED <<part, vars, sliceVars, templateVars, datetimeVars, varintVars>>

PartsNext == Learn \/ Slice \/ LinkAndAuthorize \/ Compute \/ ReadVarint \/ ReadMessage
PartsSpec ==
  PartsInit /\ [][PartsNext]_<<part, vars, sliceVars, templateVars, datetimeVars, varintVars, messageVars>>

-----------------------------------------------------------------------------
\* Messages are decoded to what was written, and end where the writer ended
\* them (Message.lean:51-87).
MessageExact == part = "messages" => MessageReadRight /\ Framed
=============================================================================
