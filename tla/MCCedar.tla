------------------------------ MODULE MCCedar ------------------------------
(***************************************************************************)
(* A small Cedar world the model-checking modules share: a schema, entity  *)
(* stores, requests and well-typed Boolean expressions.  The expressions   *)
(* are chosen to meet every construct of the language, every way of        *)
(* failing, entities that are missing, and attributes that lead from one   *)
(* entity to the next.                                                     *)
(***************************************************************************)
EXTENDS PartialEvaluator

alice == [ty |-> "User",   id |-> "alice"]
bob   == [ty |-> "User",   id |-> "bob"]
staff == [ty |-> "Group",  id |-> "staff"]
memo  == [ty |-> "Doc",    id |-> "memo"]
view  == [ty |-> "Action", id |-> "view"]
read  == [ty |-> "Action", id |-> "read"]

\* Like Int64 the range reaches one further below zero than above it.
MCIntMin == -3
MCUids == {alice, bob, staff, memo, view, read}
MCActionUids == {view, read}

(* The schema *)
MCEts == [e \in {"User", "Group", "Doc"} |->
            CASE e = "User"  -> [ancestors |-> {"Group"}, attrs |-> {"mgr", "age"}, hasTags |-> TRUE]
              [] e = "Group" -> [ancestors |-> {}, attrs |-> {}, hasTags |-> FALSE]
              [] e = "Doc"   -> [ancestors |-> {}, attrs |-> {"owner"}, hasTags |-> FALSE]]
MCActs == [u \in {view, read} |-> [ancestors |-> IF u = view THEN {read} ELSE {}]]

\* Two extension functions stand for all: a constructor that may fail and
\* an operation on what it makes.
MCDecimals == {"1.0", "2.0"}
MCExtFuns == [f \in {"decimal", "same"} |->
  IF f = "decimal"
  THEN [args \in {<<StrV(s)>> : s \in MCDecimals \cup {"x"}} |->
          IF args[1].s \in MCDecimals THEN Ok(ExtV(args[1].s)) ELSE Err("extensionError")]
  ELSE [args \in {<<ExtV(s), ExtV(t)>> : s, t \in MCDecimals} |-> Ok(BoolV(args[1] = args[2]))]]

(* Entity data and stores *)
UserData(mgr, age, anc, tags) ==
  [attrs |-> [a \in {"mgr"} \cup (IF age = {} THEN {} ELSE {"age"}) |->
                IF a = "mgr" THEN UidV(mgr) ELSE IntV(CHOOSE n \in age : TRUE)],
   ancestors |-> anc, tags |-> tags]
DocData(owner)  == [attrs |-> [a \in {"owner"} |-> UidV(owner)], ancestors |-> {}, tags |-> EmptyMap]
PlainData(anc)  == [attrs |-> EmptyMap, ancestors |-> anc, tags |-> EmptyMap]
OneTag          == [t \in {"lvl"} |-> IntV(1)]

Store(aliceAge, aliceAnc, aliceTags, bobs, owner) ==
  [u \in (MCUids \ {bob}) \cup (IF bobs = {} THEN {} ELSE {bob}) |->
     CASE u = alice -> UserData(bob, aliceAge, aliceAnc, aliceTags)
       [] u = bob   -> CHOOSE d \in bobs : TRUE
       [] u = memo  -> DocData(owner)
       [] u = view  -> PlainData({read})
       [] OTHER     -> PlainData({})]

\* bob is missing, or has everything, or nothing optional.
Bobs == {{}, {UserData(alice, {2}, {staff}, OneTag)}, {UserData(bob, {}, {}, EmptyMap)}}

MCStores ==
  {Store(age, anc, tags, bobs, alice) : age \in {{}, {0}}, anc \in {{}, {staff}},
                                        tags \in {EmptyMap, OneTag}, bobs \in Bobs}

\* One store of each interesting kind, for the runs that multiply them by
\* many policies.
MCFewStores ==
  {Store({0}, {staff}, OneTag, {}, bob),
   Store({}, {}, EmptyMap, {UserData(alice, {2}, {staff}, OneTag)}, alice),
   Store({0}, {}, OneTag, {UserData(bob, {}, {}, EmptyMap)}, bob)}

MCRequest(p, on) ==
  [principal |-> UidV(p), action |-> UidV(view), resource |-> UidV(memo),
   context |-> RecV([a \in {"on"} |-> BoolV(on)])]
MCRequests == {MCRequest(alice, TRUE), MCRequest(bob, FALSE)}

\* What the schema says of an action.
MCActionData(u) == DataAsPartial(PlainData(MCActs[u].ancestors))

-----------------------------------------------------------------------------
(* Expressions *)
IntT == [k |-> "int"]
StrT == [k |-> "string"]
ExtT == [k |-> "ext"]
SetT(ty) == [k |-> "set", of |-> ty]
RecT(as) == [k |-> "record", attrs |-> as]

X(o, x, y, ty)  == [op |-> "binary", o |-> o, x |-> x, y |-> y, ty |-> ty]
U(o, x, ty)     == [op |-> "unary", o |-> o, x |-> x, ty |-> ty]
Get(x, a, ty)   == [op |-> "getAttr", x |-> x, a |-> a, ty |-> ty]
Has(x, a)       == [op |-> "hasAttr", x |-> x, a |-> a, ty |-> BoolT]
HasPath(x, as)  == [op |-> "extHasAttr", x |-> x, path |-> as, ty |-> BoolT]
And(x, y)       == [op |-> "and", x |-> x, y |-> y, ty |-> BoolT]
Or(x, y)        == [op |-> "or", x |-> x, y |-> y, ty |-> BoolT]
Ite(c, x, y)    == [op |-> "ite", c |-> c, x |-> x, y |-> y, ty |-> x.ty]
Not(x)          == U([op |-> "not"], x, BoolT)
SetX(xs, ty)    == [op |-> "set", xs |-> xs, ty |-> SetT(ty)]
RecX(axs)       == [op |-> "record", axs |-> axs, ty |-> RecT({axs[k][1] : k \in DOMAIN axs})]
Call(f, xs, ty) == [op |-> "call", xfn |-> f, xs |-> xs, ty |-> ty]

Lit(u)    == ValN(UidV(u), EntityT(u.ty))
Num(i)    == ValN(IntV(i), IntT)
Str(s)    == ValN(StrV(s), StrT)
UserT     == EntityT("User")
Principal == [op |-> "var", var |-> "principal", ty |-> UserT]
Resource  == [op |-> "var", var |-> "resource", ty |-> EntityT("Doc")]
Action    == [op |-> "var", var |-> "action", ty |-> EntityT("Action")]
Context   == [op |-> "var", var |-> "context", ty |-> RecT({"on"})]
Mgr(x)    == Get(x, "mgr", UserT)
Age(x)    == Get(x, "age", IntT)
Eq(x, y)  == X("eq", x, y, BoolT)
In(x, y)  == X("mem", x, y, BoolT)

\* Errors a policy can meet: a missing attribute, tag or entity, an
\* overflow, a failing extension function.
AgeLow      == X("less", Age(Principal), Num(1), BoolT)
MgrOlder    == X("lessEq", X("add", Age(Mgr(Principal)), Num(1), IntT), Num(2), BoolT)
TagIsOne    == Eq(X("getTag", Principal, Str("lvl"), IntT), Num(1))
MgrTagLow   == X("less", X("getTag", Mgr(Principal), Str("lvl"), IntT), Num(2), BoolT)
BadDecimal  == Call("same", <<Call("decimal", <<Str("x")>>, ExtT), Call("decimal", <<Str("1.0")>>, ExtT)>>, BoolT)
GoodDecimal == Call("same", <<Call("decimal", <<Ite(Has(Principal, "age"), Str("1.0"), Str("2.0"))>>, ExtT),
                              Call("decimal", <<Str("1.0")>>, ExtT)>>, BoolT)
NegAge      == Eq(U([op |-> "neg"], Age(Mgr(Principal)), IntT), Num(-2))
\* For an age of 0 this negates the least integer.
NegLeast    == Eq(U([op |-> "neg"], X("sub", X("mul", Age(Principal), Num(2), IntT), Num(3), IntT), IntT),
                  Num(0))

InStaff     == In(Principal, Lit(staff))
NotInDoc    == Not(In(Mgr(Mgr(Principal)), Resource))
MgrInStaff  == In(Mgr(Principal), Lit(staff))
OwnMgr      == Eq(Mgr(Mgr(Principal)), Principal)
HasAge      == Has(Principal, "age")
MgrHasAge   == HasPath(Principal, <<"mgr", "age">>)
DeepHas     == HasPath(Resource, <<"owner", "mgr", "age">>)
HasLvl      == X("hasTag", Principal, Str("lvl"), BoolT)
OwnerIs     == Eq(Get(Resource, "owner", UserT), Principal)
OnFlag      == Get(Context, "on", BoolT)
BobInAny    == In(Lit(bob), SetX(<<Lit(staff), Mgr(Lit(alice))>>, EntityT("Group")))
InNothing   == In(Lit(alice), ValN(SetV({UidV(staff), UidV(memo)}), SetT(EntityT("Group"))))
ActionIn    == In(Action, Lit(read))
MgrListed   == X("contains", SetX(<<Mgr(Principal), Lit(bob)>>, UserT), Lit(alice), BoolT)
ViaRecord   == Has(Get(RecX(<<<<"who", Mgr(Principal)>>, <<"n", Num(1)>>>>), "who", UserT), "age")

Bools == {AgeLow, MgrOlder, TagIsOne, MgrTagLow, BadDecimal, GoodDecimal, NegAge, NegLeast, InStaff,
          MgrInStaff, OwnMgr, HasAge, MgrHasAge, DeepHas, HasLvl, OwnerIs, OnFlag, BobInAny,
          InNothing, ActionIn, MgrListed, ViaRecord,
          \* decided by types alone, unless an operand may fail
          NotInDoc, Not(Eq(Mgr(Mgr(Principal)), Lit(staff))), Not(Has(Mgr(Mgr(Principal)), "owner")),
          X("hasTag", Resource, Str("lvl"), BoolT),
          U([op |-> "is", ety |-> "User"], Mgr(Mgr(Principal)), BoolT),
          U([op |-> "is", ety |-> "User"], Principal, BoolT),
          Not(U([op |-> "like", matches |-> {"lvl"}], Str("lvl"), BoolT)),
          Not(U([op |-> "isEmpty"], SetX(<<Mgr(Mgr(Principal))>>, UserT), BoolT)),
          X("containsAll", SetX(<<Lit(alice), Lit(bob)>>, UserT), SetX(<<Mgr(Mgr(Principal))>>, UserT), BoolT),
          X("containsAny", SetX(<<Mgr(Principal)>>, UserT), SetX(<<Lit(bob)>>, UserT), BoolT)}

Guarded == {And(HasAge, AgeLow), Ite(MgrHasAge, MgrOlder, OnFlag),
            Or(MgrTagLow, BoolN(TRUE)), Or(BadDecimal, BoolN(TRUE))}

\* Every connective over every pair of this smaller set.
Parts == {AgeLow, MgrTagLow, InStaff, OwnMgr, OnFlag, BoolN(FALSE)}
Combined == {And(x, y) : x, y \in Parts} \cup {Or(x, y) : x, y \in Parts}
              \cup {Ite(x, y, Not(x)) : x, y \in Parts}

MCExprs == Bools \cup Guarded \cup Combined

=============================================================================
