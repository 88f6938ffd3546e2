-------------------------- MODULE SchemaGenerator --------------------------
(* cedar-policy-generators, schema.rs: how a fuzz target draws a schema     *)
(* (Schema::arbitrary), and how it puts common types into one               *)
(* (Schema::add_common_types). Every byte taken from the input is a choice. *)
(*                                                                          *)
(* A type is <<"Long">>, <<"Set", t>>, <<"Record", f>> with f from names of *)
(* attributes to [ty, required], <<"Entity", n>> or, after common types are *)
(* added, <<"Ref", id>>. The id of a common type is <<base, k>>: the name   *)
(* base followed by k groups of three underscores.                          *)
EXTENDS Naturals, FiniteSets, Sequences, SequencesExt, Functions

CONSTANT SchemaDraws   \* what may be drawn:
                       \*   [new, groups, ids, choices, shapes, tags, contexts,
                       \*    actions, maxActions, envLimit], or
                       \*   [new = FALSE, nsdef, commonIds] for add_common_types

NoType == <<"NoType">>

VARIABLES
  draw,          \* the member of SchemaDraws
  typeIds,       \* entity_type_ids, in order
  nsdef,         \* [entityTypes, actions, commonTypes]
  unapplied,     \* names of actions without their applies_to
  principals,    \* principal_types
  resources,     \* resource_types
  exist,         \* principal_and_resource_types_exist
  envNum,        \* total_req_env_num
  walk,          \* bind_type: the types still to visit, in order
  bindings,      \* Bindings.bindings: from types to sequences of ids
  drawStage

schemaVars == <<draw, typeIds, nsdef, unapplied, principals, resources, exist, envNum,
                walk, bindings, drawStage>>

EmptyMap == [x \in {} |-> x]
NoNames == [entityTypes |-> EmptyMap, actions |-> EmptyMap, commonTypes |-> EmptyMap]
Standard(parents, shape, tags) ==
  [kind |-> "Standard", parents |-> parents, shape |-> shape, tags |-> tags, choices |-> {}]
Enum(choices) ==
  [kind |-> "Enum", parents |-> {}, shape |-> <<"Record", EmptyMap>>, tags |-> NoType,
   choices |-> choices]
IsEnum(et) == et.kind = "Enum"

---------------------------------------------------------------------------
(* Reading a schema.                                                        *)

\* lookup_common_type.
CommonType(schema, id) == schema.commonTypes[id]

\* schematype_to_type: the type with every common type written out.
RECURSIVE SchemaTypeToType(_, _)
SchemaTypeToType(schema, ty) ==
  CASE ty[1] = "Ref" -> SchemaTypeToType(schema, CommonType(schema, ty[2]))
    [] ty[1] = "Set" -> <<"Set", SchemaTypeToType(schema, ty[2])>>
    [] ty[1] = "Record" ->
         <<"Record", [a \in DOMAIN ty[2] |->
            [ty[2][a] EXCEPT !.ty = SchemaTypeToType(schema, @)]]>>
    [] OTHER -> ty

\* attrs_from_attrs_or_context: a shape may refer to a common type; one that refers
\* to another one is a panic.
ShapeReadable(schema, shape) ==
  shape[1] = "Ref" => CommonType(schema, shape[2])[1] = "Record"
AttrsFrom(schema, shape) ==
  IF shape[1] = "Ref" THEN CommonType(schema, shape[2])[2] ELSE shape[2]

\* attrs_in_schematype: the attributes of a type and of what it contains.
RECURSIVE AttrsIn(_, _)
AttrsIn(schema, ty) ==
  CASE ty[1] = "Ref" -> AttrsIn(schema, CommonType(schema, ty[2]))
    [] ty[1] = "Set" -> AttrsIn(schema, ty[2])
    [] ty[1] = "Record" ->
         {<<a, ty[2][a].ty>> : a \in DOMAIN ty[2]}
           \cup UNION {AttrsIn(schema, ty[2][a].ty) : a \in DOMAIN ty[2]}
    [] OTHER -> {}

StandardTypes(schema) == {n \in DOMAIN schema.entityTypes : ~IsEnum(schema.entityTypes[n])}

\* build_attributes_by_type: which attributes of which entity types have a type.
AttributesByType(schema) ==
  UNION {{<<SchemaTypeToType(schema, f[a].ty), n, a>> : a \in DOMAIN f} :
         <<n, f>> \in {<<n, AttrsFrom(schema, schema.entityTypes[n].shape)>> :
                        n \in StandardTypes(schema)}}

\* Schema::from_nsdef: the attributes known of a schema that was read.
KnownAttributes(schema) ==
  UNION ({AttrsIn(schema, schema.commonTypes[id]) : id \in DOMAIN schema.commonTypes}
          \cup {AttrsIn(schema, schema.entityTypes[n].shape) : n \in StandardTypes(schema)})

---------------------------------------------------------------------------
(* Schema::arbitrary.                                                       *)

SchemaInit ==
  /\ draw \in SchemaDraws
  /\ typeIds = <<>>
  /\ nsdef = IF draw.new THEN NoNames ELSE draw.nsdef
  /\ unapplied = <<>>
  /\ principals = {} /\ resources = {}
  /\ exist = FALSE
  /\ envNum = 0
  /\ walk = <<>>
  /\ bindings = EmptyMap
  /\ drawStage = IF draw.new THEN "names" ELSE "attributes"

\* The ids of the entity types are distinct, and there is at least one.
DrawNames ==
  /\ drawStage = "names"
  /\ \E s \in UNION {SetToSeqs(S) : S \in SUBSET draw.ids} :
       typeIds' = IF s = <<>> THEN <<"a">> ELSE s
  /\ drawStage' = "declare"
  /\ UNCHANGED <<draw, nsdef, unapplied, principals, resources, exist, envNum, walk, bindings>>

\* With no action groups an entity type may not be called Action.
Declarable == SelectSeq(typeIds, LAMBDA id : draw.groups \/ id /= "Action")
Undeclared == SelectSeq(Declarable, LAMBDA id : id \notin DOMAIN nsdef.entityTypes)

DeclareEntityType(et) ==
  /\ Undeclared /= <<>>
  /\ nsdef' = [nsdef EXCEPT !.entityTypes =
                 [n \in DOMAIN @ \cup {Undeclared[1]} |->
                    IF n = Undeclared[1] THEN et ELSE @[n]]]
  /\ UNCHANGED <<draw, typeIds, unapplied, principals, resources, exist, envNum, walk,
                 bindings, drawStage>>

\* The types of attributes name drawn ids only.
TypesOver(forms) == {f \in forms : f[1] = "Entity" => f[2] \in Range(typeIds)}
OneAttribute(t) ==
  <<"Record", IF t = NoType THEN EmptyMap ELSE [a \in {"attr"} |-> [ty |-> t, required |-> TRUE]]>>
DeclareEnum ==
  /\ drawStage = "declare"
  /\ \E c \in draw.choices : DeclareEntityType(Enum(c))
DeclareStandard ==
  /\ drawStage = "declare"
  /\ \E t \in TypesOver(draw.shapes) \cup {NoType}, g \in draw.tags :
       DeclareEntityType(Standard({}, OneAttribute(t), g))

\* member_of_types, of the standard types: any ids, its own among them.
Relate ==
  /\ drawStage = "declare"
  /\ Undeclared = <<>>
  /\ \E parents \in [StandardTypes(nsdef) -> SUBSET Range(typeIds)] :
       nsdef' = [nsdef EXCEPT !.entityTypes =
                   [n \in DOMAIN @ |-> IF IsEnum(@[n]) THEN @[n]
                                       ELSE [@[n] EXCEPT !.parents = parents[n]]]]
  /\ drawStage' = "actions"
  /\ UNCHANGED <<draw, typeIds, unapplied, principals, resources, exist, envNum, walk, bindings>>

NameActions ==
  /\ drawStage = "actions"
  /\ \E s \in UNION {SetToSeqs(S) : S \in SUBSET draw.actions} :
       LET named == IF s = <<>> THEN <<"action">> ELSE s
       IN unapplied' = SubSeq(named, 1, IF Len(named) < draw.maxActions THEN Len(named)
                                        ELSE draw.maxActions)
  /\ drawStage' = "apply"
  /\ UNCHANGED <<draw, typeIds, nsdef, principals, resources, exist, envNum, walk, bindings>>

\* The first action keeps what is picked for it; a later one may lose its principals
\* or its resources, which stay among the principal and resource types of the schema.
MayLose(picked) == IF exist THEN {picked, {}} ELSE {picked}

AppliesTo(ps, rs, kept, context) ==
  /\ principals' = principals \cup ps
  /\ resources' = resources \cup rs
  /\ exist' = TRUE
  /\ envNum' = envNum + Cardinality(kept[1]) * Cardinality(kept[2])
  /\ IF envNum' > draw.envLimit
       THEN /\ drawStage' = "too_many"
            /\ UNCHANGED <<nsdef, unapplied>>
       ELSE /\ nsdef' = [nsdef EXCEPT !.actions =
                           [a \in DOMAIN @ \cup {unapplied[1]} |->
                              IF a = unapplied[1]
                                THEN [principals |-> kept[1], resources |-> kept[2],
                                      context |-> context, memberOf |-> {},
                                      rank |-> Cardinality(DOMAIN @)]
                                ELSE @[a]]]
            /\ unapplied' = Tail(unapplied)
            /\ UNCHANGED drawStage

ApplyAction ==
  /\ drawStage = "apply"
  /\ unapplied /= <<>>
  /\ IF DOMAIN nsdef.entityTypes = {}
       THEN /\ drawStage' = "panicked"          \* int_in_range(1..=0)
            /\ UNCHANGED <<nsdef, unapplied, principals, resources, exist, envNum>>
       ELSE \E ps, rs \in SUBSET DOMAIN nsdef.entityTypes \ {{}} :
              \E kp \in MayLose(ps), kr \in MayLose(rs), t \in TypesOver(draw.contexts) \cup {NoType} :
                AppliesTo(ps, rs, <<kp, kr>>, OneAttribute(t))
  /\ UNCHANGED <<draw, typeIds, walk, bindings>>

\* An action may be a member of the actions after it.
GroupActions ==
  /\ drawStage = "apply"
  /\ unapplied = <<>>
  /\ IF draw.groups
       THEN \E edges \in SUBSET {<<a, b>> \in (DOMAIN nsdef.actions) \X (DOMAIN nsdef.actions) :
                                   nsdef.actions[a].rank < nsdef.actions[b].rank} :
              nsdef' = [nsdef EXCEPT !.actions =
                          [a \in DOMAIN @ |-> [@[a] EXCEPT !.memberOf =
                             {b \in DOMAIN nsdef.actions : <<a, b>> \in edges}]]]
       ELSE UNCHANGED nsdef
  /\ drawStage' = "drawn"
  /\ UNCHANGED <<draw, typeIds, unapplied, principals, resources, exist, envNum, walk, bindings>>

---------------------------------------------------------------------------
(* Schema::add_common_types. Types are bound to fresh ids on a walk over    *)
(* the attributes and the tags; then the bindings become common types and   *)
(* the schema is rewritten to use them.                                     *)

\* self.attributes and the tags: every attribute of a shape or of a context, once each.
ShapeAttributes ==
  {<<n, a, nsdef.entityTypes[n].shape[2][a].ty>> :
     <<n, a>> \in {<<n, a>> \in StandardTypes(nsdef) \X draw.attrNames :
                    a \in DOMAIN nsdef.entityTypes[n].shape[2]}}
    \cup {<<c, a, nsdef.actions[c].context[2][a].ty>> :
            <<c, a>> \in {<<c, a>> \in (DOMAIN nsdef.actions) \X draw.attrNames :
                           a \in DOMAIN nsdef.actions[c].context[2]}}
TagTypes ==
  {<<n, "", nsdef.entityTypes[n].tags>> :
     n \in {n \in StandardTypes(nsdef) : nsdef.entityTypes[n].tags /= NoType}}

StartBinding ==
  /\ drawStage = "attributes"
  /\ LET Third(s) == [i \in DOMAIN s |-> s[i][3]]
     IN walk' = Third(SetToSeq(ShapeAttributes)) \o Third(SetToSeq(TagTypes))
  /\ drawStage' = "bind"
  /\ UNCHANGED <<draw, typeIds, nsdef, unapplied, principals, resources, exist, envNum, bindings>>

Parts(ty) ==
  CASE ty[1] = "Set" -> <<ty[2]>>
    [] ty[1] = "Record" -> LET names == SetToSeq(DOMAIN ty[2])
                           IN [i \in DOMAIN names |-> ty[2][names[i]].ty]
    [] OTHER -> <<>>

BoundIds == UNION {Range(bindings[ty]) : ty \in DOMAIN bindings}

\* add_binding: an id that is taken gets underscores until it is free.
FreshId(id) ==
  <<id[1], CHOOSE k \in id[2]..(id[2] + Cardinality(BoundIds)) :
             /\ <<id[1], k>> \notin BoundIds
             /\ \A j \in id[2]..(k - 1) : <<id[1], j>> \in BoundIds>>
Bind1(ty, id) ==
  [t \in DOMAIN bindings \cup {ty} |->
     (IF t \in DOMAIN bindings THEN bindings[t] ELSE <<>>)
       \o (IF t = ty THEN <<FreshId(id)>> ELSE <<>>)]

\* bind_type: half of the types get an id of their own, then their parts are visited.
BindType ==
  /\ drawStage = "bind"
  /\ walk /= <<>>
  /\ \/ UNCHANGED bindings
     \/ \E id \in draw.commonIds : bindings' = Bind1(Head(walk), id)
  /\ walk' = Parts(Head(walk)) \o Tail(walk)
  /\ UNCHANGED <<draw, typeIds, nsdef, unapplied, principals, resources, exist, envNum, drawStage>>

\* rewrite_type: a bound type becomes a reference to one of its ids; of another one
\* the parts are rewritten. The set of what it may become.
RECURSIVE RewriteType(_)
RewriteTypeSubterms(ty) ==
  CASE ty[1] = "Set" -> {<<"Set", r>> : r \in RewriteType(ty[2])}
    [] ty[1] = "Record" ->
         {<<"Record", [a \in DOMAIN ty[2] |-> [ty[2][a] EXCEPT !.ty = f[a]]]>> :
            f \in {f \in [DOMAIN ty[2] -> UNION {RewriteType(ty[2][a].ty) : a \in DOMAIN ty[2]}] :
                    \A a \in DOMAIN ty[2] : f[a] \in RewriteType(ty[2][a].ty)}}
    [] OTHER -> {ty}
RewriteType(ty) ==
  IF ty \in DOMAIN bindings THEN {<<"Ref", id>> : id \in Range(bindings[ty])}
  ELSE RewriteTypeSubterms(ty)

\* A slip: the definition of a common type is the rewritten type itself.
DefinedByItself(ty) == RewriteType(ty)
\* What the last id of a type is defined as.
Definitions(ty) == RewriteTypeSubterms(ty)

\* to_common_types: with several ids for a type, each is defined as the next one.
DefineCommonType(ty) ==
  /\ drawStage = "bind"
  /\ walk = <<>>
  /\ bindings[ty][1] \notin DOMAIN nsdef.commonTypes
  /\ \E last \in Definitions(ty) :
       LET ids == bindings[ty]
       IN nsdef' = [nsdef EXCEPT !.commonTypes =
             [id \in DOMAIN @ \cup Range(ids) |->
                IF id \notin Range(ids) THEN @[id]
                ELSE IF id = ids[Len(ids)] THEN last
                ELSE <<"Ref", ids[1 + CHOOSE i \in DOMAIN ids : ids[i] = id]>>]]
  /\ UNCHANGED <<draw, typeIds, unapplied, principals, resources, exist, envNum, walk, bindings,
                 drawStage>>

RewriteTags(tags) == IF tags = NoType THEN {NoType} ELSE RewriteType(tags)

\* rewrite_entity_type, and the contexts of the actions.
RewriteDefinitions ==
  /\ drawStage = "bind"
  /\ walk = <<>>
  /\ BoundIds \subseteq DOMAIN nsdef.commonTypes
  /\ LET old == draw.nsdef
         names == StandardTypes(old)
         Picks(S, Of(_)) == {f \in [S -> UNION {Of(x) : x \in S}] : \A x \in S : f[x] \in Of(x)}
         ShapesOf(n) == RewriteType(old.entityTypes[n].shape)
         TagsOf(n) == RewriteTags(old.entityTypes[n].tags)
         ContextsOf(c) == RewriteType(old.actions[c].context)
     IN \E shapes \in Picks(names, ShapesOf), tags \in Picks(names, TagsOf),
           contexts \in Picks(DOMAIN old.actions, ContextsOf) :
          nsdef' = [nsdef EXCEPT
            !.entityTypes = [n \in DOMAIN @ |-> IF n \in names
                               THEN [@[n] EXCEPT !.shape = shapes[n], !.tags = tags[n]] ELSE @[n]],
            !.actions = [c \in DOMAIN @ |-> [@[c] EXCEPT !.context = contexts[c]]]]
  /\ drawStage' = "rewritten"
  /\ UNCHANGED <<draw, typeIds, unapplied, principals, resources, exist, envNum, walk, bindings>>

\* The input is used up: the error drops what was drawn.
RunOut ==
  /\ drawStage \in {"names", "declare", "actions", "apply", "attributes", "bind"}
  /\ typeIds' = <<>> /\ nsdef' = NoNames /\ unapplied' = <<>>
  /\ principals' = {} /\ resources' = {} /\ exist' = FALSE /\ envNum' = 0
  /\ walk' = <<>> /\ bindings' = EmptyMap
  /\ drawStage' = "error"
  /\ UNCHANGED draw

SchemaNext ==
  \/ RunOut \/ DrawNames \/ DeclareEnum \/ DeclareStandard \/ Relate \/ NameActions
  \/ ApplyAction \/ GroupActions
  \/ StartBinding \/ BindType
  \/ \E ty \in DOMAIN bindings : DefineCommonType(ty)
  \/ RewriteDefinitions

SchemaSpec == SchemaInit /\ [][SchemaNext]_schemaVars

---------------------------------------------------------------------------

SchemaTypeOK ==
  /\ draw \in SchemaDraws
  /\ DOMAIN nsdef = {"entityTypes", "actions", "commonTypes"}
  /\ DOMAIN nsdef.entityTypes \subseteq Range(typeIds)
       \/ (~draw.new /\ drawStage # "error"
             /\ DOMAIN nsdef.entityTypes = DOMAIN draw.nsdef.entityTypes)
  /\ principals \cup resources \subseteq DOMAIN nsdef.entityTypes
  /\ exist \in BOOLEAN /\ envNum \in Nat
  /\ drawStage \in {"names", "declare", "actions", "apply", "drawn", "too_many", "panicked",
                    "error", "attributes", "bind", "rewritten"}

\* A schema that was drawn can be used: its actions are in no group of their own
\* making, some request is possible, no more than the limit, whatever may be the
\* principal of an action is among the principal types and likewise for resources,
\* and every type it speaks of is declared, unless Action is among the names and may
\* not be. A draw panics only when Action was the only name (schema.rs:1228-1310).
DrawnUsable ==
  /\ drawStage = "drawn" =>
       LET acts == nsdef.actions
           Envs(a) == Cardinality(acts[a].principals) * Cardinality(acts[a].resources)
           forms == {nsdef.entityTypes[n].shape : n \in StandardTypes(nsdef)}
                      \cup {acts[a].context : a \in DOMAIN acts}
           mentioned == {x[2][2] : x \in {y \in UNION {AttrsIn(nsdef, f) : f \in forms} :
                                          y[2][1] = "Entity"}}
                          \cup UNION {nsdef.entityTypes[n].parents : n \in StandardTypes(nsdef)}
       IN /\ \A S \in (SUBSET DOMAIN acts) \ {{}} : \E a \in S : acts[a].memberOf \cap S = {}
          /\ \E a \in DOMAIN acts : Envs(a) > 0
          /\ FoldSet(LAMBDA a, sum : Envs(a) + sum, 0, DOMAIN acts) = envNum /\ envNum <= draw.envLimit
          /\ \A a \in DOMAIN acts :
               acts[a].principals \subseteq principals /\ acts[a].resources \subseteq resources
          /\ mentioned \subseteq DOMAIN nsdef.entityTypes \cup (IF draw.groups THEN {} ELSE {"Action"})
  /\ drawStage = "panicked" => ~draw.groups /\ typeIds = <<"Action">>

\* "list of entity types that occur as a valid principal for at least one action in
\* the `schema`", and the same of resources (schema.rs:62-70).
RequestTypesOccur ==
  drawStage = "drawn" =>
    /\ \A ty \in principals : \E a \in DOMAIN nsdef.actions : ty \in nsdef.actions[a].principals
    /\ \A ty \in resources : \E a \in DOMAIN nsdef.actions : ty \in nsdef.actions[a].resources

\* Common types change nothing: every id was given once, no definition leads back to
\* itself, and the schema says of every entity type and action what it said without
\* them, to a reader who writes every reference out. To from_nsdef, which follows a
\* shape by one reference only, it says so of every type whose shape is not an id
\* that stands for another id of the same type; there it panics (schema.rs:413-423
\* and 561-600).
CommonTypesFaithful ==
  drawStage = "rewritten" =>
    LET old == draw.nsdef
        RECURSIVE RefsIn(_)
        RefsIn(ty) == CASE ty[1] = "Ref" -> {ty[2]}
                        [] ty[1] = "Set" -> RefsIn(ty[2])
                        [] ty[1] = "Record" -> UNION {RefsIn(ty[2][a].ty) : a \in DOMAIN ty[2]}
                        [] OTHER -> {}
        ids == DOMAIN nsdef.commonTypes
        Means(ty) == SchemaTypeToType(nsdef, ty)
        refs == [id \in ids |-> RefsIn(nsdef.commonTypes[id])]
        readable == {n \in StandardTypes(nsdef) : ShapeReadable(nsdef, nsdef.entityTypes[n].shape)}
        Readable(schema) == [schema EXCEPT !.entityTypes = Restrict(@, readable)]
        passedOn == {<<"Ref", id>> : id \in UNION {Range(Front(bindings[t])) : t \in DOMAIN bindings}}
        sound == /\ \A t, v \in DOMAIN bindings : t /= v =>
                        Range(bindings[t]) \cap Range(bindings[v]) = {}
                 /\ \A S \in (SUBSET ids) \ {{}} : \E id \in S : refs[id] \cap S = {}
                 /\ \A id \in ids : refs[id] \subseteq ids
    IN /\ sound
       /\ sound =>
            /\ \A n \in StandardTypes(old) :
                 /\ Means(nsdef.entityTypes[n].shape) = old.entityTypes[n].shape
                 /\ old.entityTypes[n].tags = IF nsdef.entityTypes[n].tags = NoType THEN NoType
                                              ELSE Means(nsdef.entityTypes[n].tags)
                 /\ nsdef.entityTypes[n].parents = old.entityTypes[n].parents
            /\ \A c \in DOMAIN old.actions :
                 Means(nsdef.actions[c].context) = old.actions[c].context
            /\ KnownAttributes(old) \subseteq
                 {<<x[1], Means(x[2])>> : x \in KnownAttributes(nsdef)}
            /\ readable = {n \in StandardTypes(nsdef) : nsdef.entityTypes[n].shape \notin passedOn}
            /\ AttributesByType(Readable(nsdef)) = AttributesByType(Readable(old))

\* A fuzz target gets schemas that make sense from both generators.
SchemasSound == DrawnUsable /\ CommonTypesFaithful
=============================================================================
