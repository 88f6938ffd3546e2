--------------------------------- MODULE MCDrt ---------------------------------
(* Small trials for the comparisons of the fuzz targets, and the bounds of the  *)
(* solver pool.                                                                 *)
EXTENDS DifferentialTesting, SolverPool

LeanFailures == {"", "unknown extension function", "unknown extension type", "backend error"}

EvalTrials ==
  {[kind |-> "evaluate", rust |-> [value |-> r], lean |-> [value |-> l, failure |-> f]]
     : r \in {<<>>, <<"1">>, <<"2">>}, l \in {<<>>, <<"1">>, <<"2">>}, f \in LeanFailures}

RustResponses == [decision : {"allow", "deny"}, reasons : SUBSET {"p"},
                  errors : {{}, {<<"p", "overflow">>}, {<<"q", "overflow">>},
                            {<<"p", "overflow">>, <<"q", "type error">>}}]
LeanResponses == [decision : {"allow", "deny"}, reasons : SUBSET {"p"},
                  erroring : SUBSET {"p", "q"}, failure : LeanFailures]
AuthTrials == {[kind |-> "authorize", rust |-> r, lean |-> l]
                 : r \in RustResponses, l \in LeanResponses}

ValidationTrials ==
  {[kind |-> "validate", rust |-> [errors |-> r], lean |-> [errors |-> l, failure |-> f],
    templates |-> n]
     : r \in SUBSET {"typeError", "InvalidActionApplication"},
       l \in {{}, {"typeError"}, {"impossiblePolicy"}}, f \in LeanFailures, n \in 0 .. 1}
ConformanceTrials ==
  {[kind |-> "conform", rust |-> [errors |-> r], lean |-> [errors |-> l, failure |-> f]]
     : r \in SUBSET {"typeError"}, l \in SUBSET {"typeError"}, f \in LeanFailures}

AssertLists == UNION {[1 .. n -> {[term |-> "x", type |-> "Int"], [term |-> "x", type |-> "Bool"],
                                  [term |-> "y", type |-> "Bool"]}] : n \in 0 .. 2}
AssertTrials == {[kind |-> "asserts", rust |-> [asserts |-> r], lean |-> [asserts |-> l]]
                   : r \in AssertLists, l \in AssertLists}
ScriptTrials ==
  {[kind |-> "scripts", rust |-> [script |-> r], lean |-> [script |-> l, failure |-> f]]
     : r \in {<<>>, <<"a">>, <<"b">>}, l \in {<<>>, <<"a">>},
       f \in {"", "backend error", "bad object"}} \
  \* a failure is the absence of a script
  {t \in [kind : {"scripts"}, rust : [script : {<<>>, <<"a">>, <<"b">>}],
          lean : [script : {<<>>, <<"a">>}, failure : {"", "backend error", "bad object"}]]
     : (t.lean.script = <<>>) = (t.lean.failure = "")}

\* Ids that collide with those the renaming makes.
PolicyNames == {<<"p">>, <<"p", "3">>, <<"p", "3", "*">>}
PolicyTrials == {[kind |-> "policies", ids |-> ids]
                   : ids \in UNION {[1 .. n -> PolicyNames] : n \in 0 .. 4}}

-------------------------------------------------------------------------------
(* Fragments that differ in one place. *)

NoAnn == [k \in {} |-> <<>>]
Record(t) == <<"record", [a |-> [ann |-> NoAnn, required |-> TRUE, type |-> t]]>>
EmptyRecord == <<"record", [k \in {} |-> 0]>>
AttributeTypes ==
  {<<"base", "String">>, <<"base", "Long">>, <<"entity", <<"User">>>>, <<"either", <<"User">>>>,
   <<"either", <<"Name">>>>, <<"common", <<"Name">>>>, <<"either", <<"__cedar", "String">>>>,
   <<"common", <<"__cedar", "String">>>>, <<"set", <<"base", "String">>>>,
   <<"set", <<"either", <<"__cedar", "String">>>>>>}

ThePolicyName == [ann |-> NoAnn, type |-> <<"base", "String">>]
UserType(shape, tags, ann) ==
  [ann |-> ann, kind |-> "standard", choices |-> <<>>, memberOf |-> <<>>,
   shape |-> shape, tags |-> tags]
PlainUser == UserType(EmptyRecord, <<>>, NoAnn)
ViewAction(memberOf, appliesTo, attributes) ==
  [ann |-> NoAnn, attributes |-> attributes, memberOf |-> memberOf, appliesTo |-> appliesTo]
Spec(ps, rs, context) == [principals |-> ps, resources |-> rs, context |-> context]
PlainView == ViewAction(<<>>, <<>>, <<>>)

Declares(user, view) ==
  [ann |-> NoAnn, entities |-> [User |-> user], commons |-> [Name |-> ThePolicyName],
   actions |-> [view |-> view]]
EmptyNamespace == [ann |-> NoAnn, entities |-> [k \in {} |-> 0], commons |-> [k \in {} |-> 0],
                   actions |-> [k \in {} |-> 0]]

Alike(fragments) == {[kind |-> "schemas", rust |-> l, lean |-> r] : l \in fragments, r \in fragments}
Global(namespaces) == {[k \in {<<>>} |-> n] : n \in namespaces}

TypeFragments == Global({Declares(UserType(Record(t), <<>>, NoAnn), PlainView) : t \in AttributeTypes})
TagFragments == Global({Declares(UserType(EmptyRecord, tags, NoAnn), PlainView)
                          : tags \in {<<>>} \cup {<<t>> : t \in AttributeTypes}})
AnnotationFragments ==
  Global({Declares(UserType(EmptyRecord, <<>>, [doc |-> v]), PlainView) : v \in {<<>>, <<"">>, <<"x">>}}
         \cup {Declares(PlainUser, PlainView)})
MemberFragments ==
  LET omitted == [ty |-> <<>>, id |-> "g"]
      stated == [ty |-> <<<<"Action">>>>, id |-> "g"]
      other == [ty |-> <<<<"N", "Action">>>>, id |-> "g"]
  IN Global({Declares(PlainUser, ViewAction(m, <<>>, <<>>))
               : m \in {<<>>, <<<<>>>>, <<<<omitted>>>>, <<<<stated, omitted>>>>, <<<<other>>>>}})
ApplyFragments ==
  Global({Declares(PlainUser, ViewAction(<<>>, spec, attrs)) :
            spec \in {<<>>, <<Spec(<<>>, <<"User">>, EmptyRecord)>>, <<Spec(<<>>, <<>>, EmptyRecord)>>,
                      <<Spec(<<"User">>, <<>>, Record(<<"base", "Long">>))>>,
                      <<Spec(<<"User">>, <<"User">>, EmptyRecord)>>,
                      <<Spec(<<"User", "User">>, <<"User">>, EmptyRecord)>>,
                      <<Spec(<<"User">>, <<"User">>, Record(<<"base", "Long">>))>>},
            attrs \in {<<>>, <<{}>>}})
NamespaceFragments ==
  LET full == Declares(PlainUser, PlainView) IN
  {[k \in {<<>>} |-> full], [k \in {<<>>} |-> EmptyNamespace], [k \in {} |-> full],
   [k \in {<<"N">>} |-> full], [k \in {<<>>, <<"N">>} |-> full],
   [k \in {<<>>, <<"N">>} |-> IF k = <<>> THEN EmptyNamespace ELSE full],
   [k \in {<<"N">>} |-> EmptyNamespace]}

SchemaTrials == Alike(TypeFragments) \cup Alike(TagFragments) \cup Alike(AnnotationFragments)
                \cup Alike(MemberFragments) \cup Alike(ApplyFragments) \cup Alike(NamespaceFragments)

ResolvedType(kind, attributes) ==
  [kind |-> kind, choices |-> <<"a">>, descendants |-> {}, attributes |-> attributes, tags |-> <<>>]
ResolvedSchemas ==
  {[types |-> [User |-> ResolvedType("standard", as)], contexts |-> [view |-> c, edit |-> d]]
     : as \in {{}, {"name"}}, c \in {"x", "y"}, d \in {"x", "y"}}
ResolvedTrials == {[kind |-> "resolved", rust |-> l, lean |-> r]
                     : l \in ResolvedSchemas, r \in ResolvedSchemas}

MCTrials == <<EvalTrials, AuthTrials, ValidationTrials, ConformanceTrials, AssertTrials,
              ScriptTrials, PolicyTrials, SchemaTrials, ResolvedTrials>>
===============================================================================
