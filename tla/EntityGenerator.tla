-------------------------- MODULE EntityGenerator --------------------------
(* cedar-policy-generators: hierarchy.rs, the entities a fuzz target tests  *)
(* with; policy.rs, policy_set.rs and rbac.rs, the policies, templates and  *)
(* links over them; request.rs and the requests of schema.rs. Every byte    *)
(* taken from the input is a choice.                                        *)
(*                                                                          *)
(* A generation is a plan: with a schema, as SchemaGenerator draws it, or   *)
(* without one (HierarchyGeneratorMode::Arbitrary, the rbac target).        *)
EXTENDS Naturals, FiniteSets, Sequences, SequencesExt, Functions

CONSTANT Plans   \* [types, schema, actions, eids, num, policies, kinds,
                 \*   and bounds: groups, requests, maxLinks, tagKeys, ...]

\* No type comes twice, and an enumerated one lists something.
ASSUME PlansAssumption ==
  \A p \in Plans :
    /\ p.types \in Seq(Range(p.types)) /\ IsInjective(p.types)
    /\ IsFiniteSet(p.eids)
    /\ p.num[1] \in {"RangePerEntityType", "ExactlyPerEntityType", "Exactly"}
    /\ p.policies \in {"abac", "rbac", "set"}
    /\ \A ty \in DOMAIN p.schema :
         /\ IsFiniteSet(p.schema[ty].choices)
         /\ p.schema[ty].kind = "Enum" => p.schema[ty].choices /= {}

VARIABLES
  plan,
  uids,          \* uids_by_type while it is filled: from types to sets of uids
  pool,          \* the keys of Hierarchy.entities, in order
  byType,        \* Hierarchy.uids_by_type: from types to sequences of uids
  entities,      \* from uids to [parents, attrs, tags]
  policyGroups,  \* the templates, with their links, in order
  policySet,     \* [policies, templates]: the ids in use, with what they stand for
  asked,         \* the requests
  genStage

entityVars == <<plan, uids, pool, byType, entities, policyGroups, policySet, asked, genStage>>

\* HierarchyGeneratorMode: the arbitrary one has no schema.
SchemaBased == DOMAIN plan.schema /= {}
Uid(ty, eid) == [type |-> ty, eid |-> eid]
Known(ty) == SchemaBased /\ ty \in DOMAIN plan.schema
Nothing == [x \in {} |-> x]

EntityInit ==
  /\ plan \in Plans
  /\ uids = Nothing
  /\ pool = <<>>
  /\ byType = Nothing
  /\ entities = Nothing
  /\ policyGroups = <<>>
  /\ policySet = [policies |-> Nothing, templates |-> Nothing]
  /\ asked = {}
  /\ genStage = "uids"

Stay == UNCHANGED <<policyGroups, policySet, asked>>

---------------------------------------------------------------------------
(* The pool of uids.                                                        *)

\* get_uid_enum_choices.
EnumChoices(ty) == IF Known(ty) THEN plan.schema[ty].choices ELSE {}
\* generate_uid_with_type.
NewUids(ty) == {Uid(ty, e) : e \in IF EnumChoices(ty) = {} THEN plan.eids ELSE EnumChoices(ty)}

\* NumEntities: what may be drawn for a type. Uids that are drawn twice count once.
Draws(ty) ==
  LET mode == plan.num
      AtMost(n) == {S \in SUBSET NewUids(ty) : Cardinality(S) <= n}
  IN CASE mode[1] = "RangePerEntityType" ->
            AtMost(mode[3]) \ (IF mode[2] > 0 THEN {{}} ELSE {})
       [] mode[1] = "ExactlyPerEntityType" ->
            AtMost(mode[2]) \ (IF mode[2] > 0 THEN {{}} ELSE {})
       [] mode[1] = "Exactly" ->
            {S \in SUBSET NewUids(ty) : Cardinality(S) = mode[2] \div Len(plan.types)}

NextType == plan.types[Cardinality(DOMAIN uids) + 1]

GenerateUids ==
  /\ genStage = "uids"
  /\ Cardinality(DOMAIN uids) < Len(plan.types)
  /\ IF Draws(NextType) = {}
       \* Bytes that make no new uid: with one choice none is even used up.
       THEN /\ genStage' = IF Cardinality(NewUids(NextType)) = 1 THEN "spinning" ELSE "failed"
            /\ UNCHANGED uids
       ELSE /\ \E S \in Draws(NextType) :
                 uids' = [ty \in DOMAIN uids \cup {NextType} |->
                            IF ty = NextType THEN S ELSE uids[ty]]
            /\ UNCHANGED genStage
  /\ UNCHANGED <<plan, pool, byType, entities>> /\ Stay

\* from_uids_by_type and new: the pool is shuffled, the index follows its order, and a
\* type with no uid is indexed too.
IndexOf(uid) == CHOOSE i \in DOMAIN pool : pool[i] = uid
Pushed(order, ty) ==
  LET upTo[n \in 0..Len(order)] ==
        IF n = 0 THEN <<>>
        ELSE IF order[n].type = ty THEN Append(upTo[n - 1], order[n]) ELSE upTo[n - 1]
  IN upTo[Len(order)]
Index(order, types) == [ty \in types |-> Pushed(order, ty)]

Shuffle ==
  /\ genStage = "uids"
  /\ Cardinality(DOMAIN uids) = Len(plan.types)
  /\ \E order \in SetToSeqs(UNION Range(uids)) :
       /\ pool' = order
       /\ byType' = Index(order, DOMAIN uids)
  /\ genStage' = "entities"
  /\ UNCHANGED <<plan, uids, entities>> /\ Stay

---------------------------------------------------------------------------
(* The entities, in the order of the pool.                                  *)

UidsAfter(uid) == Range(SubSeq(pool, IndexOf(uid) + 1, Len(pool)))

\* A slip: all uids of the type, wherever they are.
AnyOfType(ty, uid) == IF ty \in DOMAIN byType THEN Range(byType[ty]) ELSE {}
\* uids_for_type: those of the type that come after uid.
UidsForType(ty, uid) ==
  IF ty \notin DOMAIN byType THEN {}
  ELSE LET before == {i \in DOMAIN byType[ty] : IndexOf(byType[ty][i]) <= IndexOf(uid)}
       IN Range(SubSeq(byType[ty], Cardinality(before) + 1, Len(byType[ty])))

\* allowed_parent_typenames.
AllowedParents(ty) == IF plan.schema[ty].kind = "Enum" THEN {} ELSE plan.schema[ty].parents

PossibleParents(uid) ==
  IF SchemaBased THEN UNION {UidsForType(ty, uid) : ty \in AllowedParents(uid.type)}
  ELSE UidsAfter(uid)

\* arbitrary_uid_with_type: one that exists, or another that fits the schema.
UidsWithType(ty) == (IF ty \in DOMAIN byType THEN Range(byType[ty]) ELSE {}) \cup NewUids(ty)

\* generate_attr_value_for_type. Of a type its kind and the entity types in it are kept,
\* [kind, of], and of a literal its type and the uids in it.
ValuesOf(ty) ==
  LET found == UNION {UidsWithType(x) : x \in ty.of}
  IN {[ty |-> ty, uids |-> S] : S \in IF ty.kind = "Entity" THEN {{u} : u \in found} ELSE SUBSET found}

\* attribute_by_entity_type, tag_type_by_entity_type (at most one).
DeclaredAttrs(ty) == plan.schema[ty].attrs
TagType(ty) == plan.schema[ty].tags

\* Additional attributes of any type come first, so that a declared one of the same
\* name overwrites them; a declared one may be left out when it is optional.
AnyValue == UNION {ValuesOf(ty) : ty \in plan.extraTypes}
AttributesOf(declared, more, present) ==
  {f \in [more \cup present -> AnyValue \cup UNION {ValuesOf(declared[a].ty) : a \in present}] :
     \A a \in more \cup present :
       f[a] \in (IF a \in present THEN ValuesOf(declared[a].ty) ELSE AnyValue)}
Attributes(ty) ==
  LET declared == DeclaredAttrs(ty)
      required == {a \in DOMAIN declared : declared[a].required}
      extra == IF plan.schema[ty].open THEN plan.extraAttrs ELSE {}
  IN UNION {AttributesOf(declared, x[1], x[2]) :
              x \in (SUBSET extra) \X {S \in SUBSET DOMAIN declared : required \subseteq S}}
Tags(ty) ==
  IF TagType(ty) = <<>> THEN {Nothing}
  ELSE UNION {[keys -> ValuesOf(TagType(ty)[1])] : keys \in SUBSET plan.tagKeys}

GenerateEntity ==
  /\ genStage = "entities"
  /\ Cardinality(DOMAIN entities) < Len(pool)
  /\ LET uid == pool[Cardinality(DOMAIN entities) + 1]
     IN IF SchemaBased /\ ~Known(uid.type)
          THEN /\ genStage' = "panicked"     \* allowed_parent_typenames().unwrap()
               /\ UNCHANGED entities
          ELSE /\ \E parents \in SUBSET PossibleParents(uid),
                     attrs \in (IF SchemaBased THEN Attributes(uid.type) ELSE {Nothing}),
                     tags \in (IF SchemaBased THEN Tags(uid.type) ELSE {Nothing}) :
                    entities' = [u \in DOMAIN entities \cup {uid} |->
                       IF u = uid THEN [parents |-> parents, attrs |-> attrs, tags |-> tags]
                       ELSE entities[u]]
               /\ UNCHANGED genStage
  /\ UNCHANGED <<plan, uids, pool, byType>> /\ Stay

\* replace_entities keeps the index that was made from the bare entities.
EndHierarchy ==
  /\ genStage = "entities"
  /\ DOMAIN entities = Range(pool)
  /\ genStage' = "policies"
  /\ UNCHANGED <<plan, uids, pool, byType, entities>> /\ Stay

---------------------------------------------------------------------------
(* Templates and links. A constraint is <<kind>>, <<kind, uid>>,            *)
(* <<kind, type>> or <<kind, type, uid>>.                                   *)

Slots == {"EqSlot", "InSlot", "IsTypeInSlot"}

\* A slip: a type with a slot is taken for a type.
BareSlot(c) == c[1] \in {"EqSlot", "InSlot"}
HasSlot(c) == c[1] \in Slots

\* arbitrary_uid, arbitrary_entity_type: of the hierarchy, or any.
ArbitraryTypes == DOMAIN byType \cup plan.otherTypes
ArbitraryUids ==
  Range(pool) \cup {Uid(x[1], x[2]) : x \in ArbitraryTypes \X plan.eids}

\* arbitrary_principal_uid, arbitrary_resource_uid: of a type some action applies to.
TypesIn(role) == UNION {plan.actions[a][role] : a \in DOMAIN plan.actions}
UidsFor(role) == IF plan.policies = "abac" THEN UNION {UidsWithType(ty) : ty \in TypesIn(role)}
                 ELSE ArbitraryUids
TypesFor == IF plan.policies = "abac" THEN Range(plan.types) ELSE ArbitraryTypes

\* Of the kinds a plan is bound to.
Bounded(constraints) == {c \in constraints : c[1] \in plan.kinds}

\* arbitrary_principal_or_resource_constraint, with slots allowed.
Constraints(role) ==
  Bounded({<<"NoConstraint">>, <<"EqSlot">>, <<"InSlot">>}
    \cup ({"IsTypeInSlot", "IsType"} \X TypesFor)
    \cup ({"Eq", "In"} \X UidsFor(role))
    \cup ({"IsTypeIn"} \X TypesFor \X UidsFor(role)))

\* arbitrary_action_constraint, with a schema; without one any uid may be an action.
ActionUids == IF SchemaBased THEN {Uid("Action", a) : a \in DOMAIN plan.actions}
              ELSE ArbitraryUids
ActionConstraints ==
  Bounded({<<"NoConstraint">>} \cup ({"Eq", "In"} \X ActionUids)
    \cup ({"InList"} \X ({<<>>} \cup {<<uid>> : uid \in ActionUids})))

HasSlots(t) == HasSlot(t.principal) \/ HasSlot(t.resource)

\* GeneratedLink::arbitrary: a uid for each slot of the template.
Bindings(role, c) == IF HasSlot(c) THEN {<<uid>> : uid \in UidsFor(role)} ELSE {<<>>}
Links(t, ids) ==
  [ids -> [principal : Bindings("principals", t.principal),
           resource : Bindings("resources", t.resource)]]

\* The ids: "p<n>" for a template of rbac and "t<n>_l<k>" for its links; any for the
\* others, with one link "link_<id>" (arbitrary_policy) or none (GeneratedPolicySet).
TemplateIds == IF plan.policies = "rbac" THEN {<<"p", Len(policyGroups)>>}
               ELSE {<<"id", i>> : i \in plan.policyIds}
LinkIds(id) ==
  CASE plan.policies = "rbac" ->
         {{<<"t", Len(policyGroups), k>> : k \in 0..n} : n \in 0..(plan.maxLinks - 1)}
    [] plan.policies = "abac" -> {{<<"link", id>>}}
    [] plan.policies = "set" -> {{}}

\* An id that was drawn before is skipped.
GenerateGroup ==
  /\ genStage = "policies"
  /\ Len(policyGroups) < plan.groups
  /\ \E id \in TemplateIds, p \in Constraints("principals"), r \in Constraints("resources"),
        a \in ActionConstraints :
       LET t == [id |-> id, principal |-> p, action |-> a, resource |-> r]
       IN /\ \A i \in DOMAIN policyGroups : policyGroups[i].template.id /= id
          /\ \E ids \in (IF HasSlots(t) THEN LinkIds(id) ELSE {{}}) :
               \E links \in Links(t, ids) :
                 policyGroups' = Append(policyGroups, [template |-> t, links |-> links])
  /\ UNCHANGED <<plan, uids, pool, byType, entities, policySet, asked, genStage>>

EndPolicies ==
  /\ genStage = "policies"
  /\ policyGroups /= <<>>
  /\ genStage' = "adding"
  /\ UNCHANGED <<plan, uids, pool, byType, entities>> /\ Stay

\* With no entity there is none to choose.
NoUidToChoose ==
  /\ genStage \in {"policies", "adding"}
  /\ plan.policies /= "abac"
  /\ pool = <<>>
  /\ genStage' = "failed"
  /\ UNCHANGED <<plan, uids, pool, byType, entities>> /\ Stay

\* What PolicySet takes: ids that are free, a static policy with no slot, a template
\* with one, and links that fill the slots of their template, no more and no fewer.
SlotIn(c) == c[1] \in {"EqSlot", "InSlot", "IsTypeInSlot"}
Taken == DOMAIN policySet.policies \cup DOMAIN policySet.templates
LinkFits(t, link) == /\ SlotIn(t.principal) <=> link.principal /= <<>>
                     /\ SlotIn(t.resource) <=> link.resource /= <<>>
Accepted(g) ==
  LET t == g.template
  IN /\ t.id \notin Taken
     /\ DOMAIN g.links \cap (Taken \cup {t.id}) = {}
     /\ HasSlots(t) <=> SlotIn(t.principal) \/ SlotIn(t.resource)
     /\ \A id \in DOMAIN g.links : LinkFits(t, g.links[id])

\* link_to_static: the constraint with its slot filled.
LinkToStatic(c, binding) ==
  CASE c[1] = "EqSlot" -> <<"Eq", binding[1]>>
    [] c[1] = "InSlot" -> <<"In", binding[1]>>
    [] c[1] = "IsTypeInSlot" -> <<"IsTypeIn", c[2], binding[1]>>
    [] OTHER -> c
Linked(t, link) ==
  [t EXCEPT !.principal = LinkToStatic(@, link.principal),
            !.resource = LinkToStatic(@, link.resource)]

\* add_to_policyset, into_policy_set and the rbac target unwrap what PolicySet answers.
AddToPolicySet ==
  /\ genStage = "adding"
  /\ Cardinality(DOMAIN policySet.templates) < Len(policyGroups)
  /\ LET g == policyGroups[Cardinality(DOMAIN policySet.templates) + 1]
         t == g.template
         own == IF HasSlots(t) THEN {} ELSE {t.id}
     IN IF Accepted(g)
          THEN /\ policySet' =
                    [templates |-> [id \in DOMAIN policySet.templates \cup {t.id} |->
                        IF id = t.id THEN t ELSE policySet.templates[id]],
                     policies |-> [id \in DOMAIN policySet.policies \cup DOMAIN g.links \cup own |->
                        IF id \in own THEN t
                        ELSE IF id \in DOMAIN g.links THEN Linked(t, g.links[id])
                        ELSE policySet.policies[id]]]
               /\ UNCHANGED genStage
          ELSE /\ genStage' = "panicked"
               /\ UNCHANGED policySet
  /\ UNCHANGED <<plan, uids, pool, byType, entities, policyGroups, asked>>

---------------------------------------------------------------------------
(* Requests. With a schema, for an action and the types it applies to.      *)

Ask(p, a, r) ==
  /\ asked' = asked \cup {<<p, a, r>>}
  /\ UNCHANGED genStage

AskAny == \E p, a, r \in ArbitraryUids : Ask(p, a, r)
AskForAction ==
  \E a \in DOMAIN plan.actions :
    IF plan.actions[a].principals = {} \/ plan.actions[a].resources = {}
      THEN genStage' = "failed" /\ UNCHANGED asked
      ELSE \E pty \in plan.actions[a].principals, rty \in plan.actions[a].resources :
             \E p \in UidsWithType(pty), r \in UidsWithType(rty) : Ask(p, Uid("Action", a), r)

GenerateRequest ==
  /\ genStage = "adding"
  /\ Cardinality(DOMAIN policySet.templates) = Len(policyGroups)
  /\ Cardinality(asked) < plan.requests
  /\ IF SchemaBased THEN AskForAction ELSE AskAny
  /\ UNCHANGED <<plan, uids, pool, byType, entities, policyGroups, policySet>>

EntityNext ==
  \/ GenerateUids \/ Shuffle \/ GenerateEntity \/ EndHierarchy
  \/ GenerateGroup \/ EndPolicies \/ NoUidToChoose \/ AddToPolicySet
  \/ GenerateRequest

EntitySpec == EntityInit /\ [][EntityNext]_entityVars

---------------------------------------------------------------------------

EntityTypeOK ==
  /\ plan \in Plans
  /\ DOMAIN uids \subseteq Range(plan.types)
  /\ Range(pool) \subseteq UNION Range(uids)
  /\ DOMAIN byType \subseteq DOMAIN uids
  /\ DOMAIN entities \subseteq Range(pool)
  /\ genStage \in {"uids", "entities", "policies", "adding", "failed", "spinning", "panicked"}

\* The entities form a hierarchy: no entity is above itself, and the index holds every
\* entity once, under its type, in the order of the pool.
HierarchySound ==
  genStage \in {"policies", "adding"} =>
    /\ \A S \in (SUBSET DOMAIN entities) \ {{}} : \E u \in S : entities[u].parents \cap S = {}
    /\ UNION {Range(byType[ty]) : ty \in DOMAIN byType} = DOMAIN entities
    /\ \A ty \in DOMAIN byType : \A i, j \in DOMAIN byType[ty] :
         /\ byType[ty][i].type = ty
         /\ i < j => IndexOf(byType[ty][i]) < IndexOf(byType[ty][j])

\* They conform to the schema: parents of an allowed type, attributes of the declared
\* type with no required one missing, and of an enumerated type only the listed uids,
\* as entities, in attributes, in tags and in requests. Only where an optional attribute
\* was left out may an additional one of its name stand, and have another type.
Listed(u) == Known(u.type) /\ plan.schema[u.type].kind = "Enum" => u.eid \in EnumChoices(u.type)
OfType(v, ty) == /\ v.ty = ty /\ \A u \in v.uids : u.type \in ty.of
                 /\ ty.kind = "Entity" => \E u \in v.uids : v.uids = {u}
Conforms(u, e) ==
  LET declared == DeclaredAttrs(u.type)
  IN /\ \A p \in e.parents : p.type \in plan.schema[u.type].parents
     /\ \A a \in DOMAIN declared :
          IF a \in DOMAIN e.attrs
            THEN \/ OfType(e.attrs[a], declared[a].ty)
                 \/ plan.schema[u.type].open /\ ~declared[a].required
            ELSE ~declared[a].required
     /\ \A k \in DOMAIN e.tags : OfType(e.tags[k], TagType(u.type)[1])
     /\ \A v \in Range(e.attrs) \cup Range(e.tags) : \A x \in v.uids : Listed(x)
HierarchyConforms ==
  genStage \in {"policies", "adding"} /\ SchemaBased =>
    /\ \A u \in DOMAIN entities : Listed(u) /\ Conforms(u, entities[u])
    /\ \A q \in asked : /\ q[1].type \in plan.actions[q[2].eid].principals /\ Listed(q[1])
                        /\ q[3].type \in plan.actions[q[2].eid].resources /\ Listed(q[3])

\* The policies can be used: the policy set takes every template and link, and then
\* holds one policy for each link or static policy, none with a slot left.
IdsOf(g) == IF HasSlots(g.template) THEN DOMAIN g.links ELSE {g.template.id}
PoliciesLink ==
  /\ genStage = "panicked" => \E ty \in Range(plan.types) : SchemaBased /\ ~Known(ty)
  /\ \A id \in DOMAIN policySet.policies :
       ~SlotIn(policySet.policies[id].principal) /\ ~SlotIn(policySet.policies[id].resource)
  /\ LET added == 1..Cardinality(DOMAIN policySet.templates)
     IN /\ DOMAIN policySet.policies = UNION {IdsOf(policyGroups[i]) : i \in added}
        /\ \A i, j \in added : i /= j => IdsOf(policyGroups[i]) \cap IdsOf(policyGroups[j]) = {}

\* What a fuzz target is handed makes sense.
InputsSound == HierarchySound /\ HierarchyConforms /\ PoliciesLink
=============================================================================
