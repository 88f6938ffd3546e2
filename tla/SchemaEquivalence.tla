--------------------------- MODULE SchemaEquivalence ---------------------------
(* When the round-trip fuzz targets take two schema fragments for the same one   *)
(* (cedar-drt/fuzz/src/schemas.rs), and what a fragment means, to compare with.  *)
(* An optional value is a sequence of at most one element. A name is the         *)
(* sequence of its identifiers; a type is                                        *)
(*   <<"base", b>>  <<"entity", n>>  <<"either", n>>  <<"common", n>>            *)
(*   <<"set", t>>   <<"record", [attribute -> [ann, required, type]]>>           *)
(* where "base" stands for String, Long, Bool and the extension types, and       *)
(* "either" for EntityOrCommon.                                                  *)
EXTENDS Integers, Sequences, FiniteSets, SequencesExt, Functions

\* Is this the alias for an internal type, __cedar::<expected>?
IsInternalType(name, expected) == name = <<"__cedar", expected>>

\* A missing annotation value is an empty one.
AnnotationEquiv(a, b) == a = b \/ {a, b} = {<<>>, <<"">>}
AnnotationsEquiv(l, r) ==
  DOMAIN l = DOMAIN r /\ \A k \in DOMAIN l : AnnotationEquiv(l[k], r[k])

\* An EntityOrCommon on one side only: the name of what is on the other side.
EitherEquiv(either, other) ==
  \/ other[1] \in {"entity", "common", "either"} /\ other[2] = either[2]
  \/ other[1] = "base" /\ IsInternalType(either[2], other[2])

RECURSIVE TypeEquiv(_, _)
AttributeEquiv(l, r) ==
  /\ AnnotationsEquiv(l.ann, r.ann)
  /\ l.required = r.required
  /\ TypeEquiv(l.type, r.type)
TypeEquiv(l, r) ==
  \/ l[1] = "either" /\ EitherEquiv(l, r)
  \/ r[1] = "either" /\ EitherEquiv(r, l)
  \/ /\ l[1] = r[1]
     /\ CASE l[1] = "set" -> TypeEquiv(l[2], r[2])
          [] l[1] = "record" ->
               /\ DOMAIN l[2] = DOMAIN r[2]
               /\ \A k \in DOMAIN l[2] : AttributeEquiv(l[2][k], r[2][k])
          [] OTHER -> l[2] = r[2]

CommonTypeEquiv(l, r) == AnnotationsEquiv(l.ann, r.ann) /\ TypeEquiv(l.type, r.type)

EntityTypeEquiv(l, r) ==
  /\ AnnotationsEquiv(l.ann, r.ann)
  /\ l.kind = r.kind
  /\ IF l.kind = "enum" THEN l.choices = r.choices
     ELSE /\ Range(l.memberOf) = Range(r.memberOf)
          /\ TypeEquiv(l.shape, r.shape)
          /\ Len(l.tags) = Len(r.tags) /\ \A i \in DOMAIN l.tags : TypeEquiv(l.tags[i], r.tags[i])

\* memberOf as a set, with an omitted type replaced by Action.
NormalizedMemberOf(memberOf) ==
  UNION {{<<IF p.ty = <<>> THEN <<"Action">> ELSE p.ty[1], p.id>> : p \in Range(m)}
           : m \in Range(memberOf)}

EitherEmpty(spec) == spec.principals = <<>> \/ spec.resources = <<>>

ApplySpecEquiv(l, r) ==
  /\ TypeEquiv(l.context, r.context)
  /\ Range(l.principals) = Range(r.principals)
  /\ Range(l.resources) = Range(r.resources)

\* A slip: one side that applies to nothing is enough.
AppliesToEquivOneEmpty(l, r) ==
  \/ \E spec \in Range(l) \cup Range(r) : EitherEmpty(spec)
  \/ l # <<>> /\ r # <<>> /\ ApplySpecEquiv(l[1], r[1])

\* An action that applies to nothing is as good as one with no appliesTo.
AppliesToEquiv(l, r) ==
  \/ \A spec \in Range(l) \cup Range(r) : EitherEmpty(spec)
  \/ l # <<>> /\ r # <<>> /\ ApplySpecEquiv(l[1], r[1])

ActionEquiv(l, r) ==
  /\ AnnotationsEquiv(l.ann, r.ann)
  /\ l.attributes = r.attributes \/ {l.attributes, r.attributes} \subseteq {<<>>, <<{}>>}
  /\ NormalizedMemberOf(l.memberOf) = NormalizedMemberOf(r.memberOf)
  /\ AppliesToEquiv(l.appliesTo, r.appliesTo)

NamespaceEquiv(l, r) ==
  /\ AnnotationsEquiv(l.ann, r.ann)
  /\ DOMAIN l.entities = DOMAIN r.entities
  /\ \A n \in DOMAIN l.entities : EntityTypeEquiv(l.entities[n], r.entities[n])
  /\ DOMAIN l.commons = DOMAIN r.commons
  /\ \A n \in DOMAIN l.commons : CommonTypeEquiv(l.commons[n], r.commons[n])
  /\ DOMAIN l.actions = DOMAIN r.actions
  /\ \A n \in DOMAIN l.actions : ActionEquiv(l.actions[n], r.actions[n])

IsTrivialNamespace(ns) ==
  DOMAIN ns.entities = {} /\ DOMAIN ns.actions = {} /\ DOMAIN ns.commons = {}

\* The empty namespace does not count when nothing is declared in it.
NontrivialNamespaces(fragment) ==
  {name \in DOMAIN fragment : name # <<>> \/ ~IsTrivialNamespace(fragment[name])}

EquivalenceCheck(l, r) ==
  /\ Cardinality(NontrivialNamespaces(l)) = Cardinality(NontrivialNamespaces(r))
  /\ \A name \in NontrivialNamespaces(l) :
       name \in DOMAIN r /\ NamespaceEquiv(l[name], r[name])

\* The weaker comparison of resolved schemas: entity types one by one, contexts only
\* as the set of all of them.
ResolvedTypeEquiv(l, r) ==
  /\ l.kind = r.kind
  /\ IF l.kind = "enum" THEN l.choices = r.choices
     ELSE l.descendants = r.descendants /\ l.attributes = r.attributes /\ l.tags = r.tags
ResolvedEquiv(l, r) ==
  /\ DOMAIN l.types = DOMAIN r.types
  /\ \A n \in DOMAIN l.types : ResolvedTypeEquiv(l.types[n], r.types[n])
  /\ Range(l.contexts) = Range(r.contexts)

-------------------------------------------------------------------------------
(* What a fragment means: every name resolved, every action's environments. *)

CommonNames(fragment) ==
  UNION {{ns \o <<n>> : n \in DOMAIN fragment[ns].commons} : ns \in DOMAIN fragment}

BaseTypes == {"String", "Long", "Bool", "decimal", "ipaddr"}
NameMeaning(name, commons) ==
  IF Len(name) = 2 /\ name[1] = "__cedar" /\ name[2] \in BaseTypes THEN <<"base", name[2]>>
  ELSE IF name \in commons THEN <<"common", name>>
  ELSE <<"entity", name>>

RECURSIVE TypeMeaning(_, _)
TypeMeaning(t, commons) ==
  CASE t[1] \in {"either", "common"} -> NameMeaning(t[2], commons)
    [] t[1] = "set" -> <<"set", TypeMeaning(t[2], commons)>>
    [] t[1] = "record" ->
         <<"record", [k \in DOMAIN t[2] |->
                        [required |-> t[2][k].required,
                         type |-> TypeMeaning(t[2][k].type, commons)]]>>
    [] OTHER -> t

EntityMeaning(e, commons) ==
  IF e.kind = "enum" THEN [choices |-> Range(e.choices)]
  ELSE [memberOf |-> Range(e.memberOf), shape |-> TypeMeaning(e.shape, commons),
        tags |-> {TypeMeaning(t, commons) : t \in Range(e.tags)}]

ActionMeaning(a, commons) ==
  [groups |-> UNION {{<<IF p.ty = <<>> THEN <<"Action">> ELSE p.ty[1], p.id>> : p \in Range(m)}
                       : m \in Range(a.memberOf)},
   environments |-> UNION {{<<p, r, TypeMeaning(spec.context, commons)>> :
                              p \in Range(spec.principals), r \in Range(spec.resources)}
                            : spec \in Range(a.appliesTo)}]

FragmentMeaning(fragment) ==
  LET commons == CommonNames(fragment)
      declaring == {ns \in DOMAIN fragment : ~IsTrivialNamespace(fragment[ns])}
  IN  [ns \in declaring |->
        [entities |-> [n \in DOMAIN fragment[ns].entities |->
                         EntityMeaning(fragment[ns].entities[n], commons)],
         commons |-> [n \in DOMAIN fragment[ns].commons |->
                        TypeMeaning(fragment[ns].commons[n].type, commons)],
         actions |-> [n \in DOMAIN fragment[ns].actions |->
                        ActionMeaning(fragment[ns].actions[n], commons)]]]
===============================================================================
