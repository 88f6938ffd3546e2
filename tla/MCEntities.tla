---------------------------- MODULE MCEntities ----------------------------
(* What the entity generators work from: types that may contain each other  *)
(* and themselves, an enumerated type, a type that is not declared, and the *)
(* three ways to make policies.                                             *)
EXTENDS EntityGenerator

Declared(kind, choices, parents, attrs, tags, open) ==
  [kind |-> kind, choices |-> choices, parents |-> parents, attrs |-> attrs, tags |-> tags,
   open |-> open]
NoAttrs == [x \in {} |-> x]
LongAttr == [kind |-> "Long", of |-> {}]
OneEntity(ty) == [kind |-> "Entity", of |-> {ty}]
SetOfEntity(ty) == [kind |-> "Set", of |-> {ty}]
Listed1(choices) == Declared("Enum", choices, {}, NoAttrs, <<>>, FALSE)
Attr1(ty, required) == [owner |-> [ty |-> ty, required |-> required]]

Kinds == {"NoConstraint", "Eq", "EqSlot", "In", "InSlot", "IsType", "IsTypeIn", "IsTypeInSlot",
          "InList"}

PlanOf(types, schema, num, policies, n, m) ==
  [types |-> types, schema |-> schema, num |-> num, policies |-> policies, groups |-> n,
   actions |-> IF m = 0 THEN [view |-> [principals |-> {types[1]}, resources |-> {types[1]}]]
               ELSE [view |-> [principals |-> {types[1]}, resources |-> {types[1]}],
                     none |-> [principals |-> {}, resources |-> {types[1]}]],
   eids |-> {"0"}, kinds |-> IF n = 2 THEN {"NoConstraint", "Eq", "IsTypeInSlot"} ELSE Kinds,
    tagKeys |-> {"k"}, extraAttrs |-> {"owner", "more"}, extraTypes |-> {LongAttr}, otherTypes |-> {"T"},
   policyIds |-> {1, 2}, maxLinks |-> 2, requests |-> m]

Cyclic == [T |-> Declared("Standard", {}, {"T", "U"}, NoAttrs, <<>>, FALSE),
           U |-> Declared("Standard", {}, {"T"}, NoAttrs, <<>>, FALSE)]
Owned == [T |-> Declared("Standard", {}, {"E"}, Attr1(OneEntity("E"), TRUE),
                         <<SetOfEntity("E")>>, TRUE),
          E |-> Listed1({"e1", "e2"})]
Optional == [T |-> Declared("Standard", {}, {}, Attr1(OneEntity("T"), FALSE), <<>>, FALSE)]

MCPlans ==
  {[PlanOf(<<"T", "U">>, Cyclic, <<"RangePerEntityType", 1, 2>>, "abac", 0, 0) EXCEPT !.eids = {"0", "1"}],
   PlanOf(<<"T", "E">>, Owned, <<"RangePerEntityType", 1, 2>>, "abac", 0, 0),
   PlanOf(<<"T", "Action">>, Optional, <<"RangePerEntityType", 1, 1>>, "abac", 0, 0),
   PlanOf(<<"T">>, Optional, <<"ExactlyPerEntityType", 1>>, "abac", 1, 1),
   PlanOf(<<"T">>, Optional, <<"ExactlyPerEntityType", 1>>, "set", 2, 0),
   [PlanOf(<<"T">>, [Optional EXCEPT !.T.open = TRUE], <<"ExactlyPerEntityType", 1>>, "abac", 0, 0)
      EXCEPT !.extraTypes = {LongAttr, SetOfEntity("T")}],
   PlanOf(<<"T", "E">>, Owned, <<"Exactly", 4>>, "abac", 0, 0),
   PlanOf(<<"T", "E">>, [Owned EXCEPT !.E = Listed1({"e1"})], <<"Exactly", 4>>, "abac", 0, 0),
   [PlanOf(<<"E", "T">>, [Owned EXCEPT !.E = Listed1({"e1"})], <<"Exactly", 4>>, "abac", 0, 0)
      EXCEPT !.eids = {"0", "1"}],
   [PlanOf(<<"T", "U">>, NoAttrs, <<"RangePerEntityType", 0, 2>>, "rbac", 0, 0)
      EXCEPT !.eids = {"0", "1"}],
   PlanOf(<<"T">>, NoAttrs, <<"RangePerEntityType", 0, 1>>, "rbac", 2, 0),
   PlanOf(<<"T">>, NoAttrs, <<"RangePerEntityType", 0, 1>>, "rbac", 1, 1)}
=============================================================================
