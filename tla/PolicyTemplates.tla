--------------------------- MODULE PolicyTemplates ---------------------------
(***************************************************************************)
(* From templates to a decision: templates are linked into policies        *)
(* (cedar-lean/Cedar/Spec/Template.lean), a policy is an expression of its *)
(* scope and its conditions (Cedar/Spec/Policy.lean), and a request is     *)
(* authorized by the slice of the policies whose scope it may meet         *)
(* (Cedar/Slice/PolicySlice.lean).                                         *)
(*                                                                         *)
(* A scope is [c |-> constructor, ety |-> type, of |-> uid or slot]; a     *)
(* uid is in [uid |-> ..], a slot in [slot |-> ..] until it is linked.     *)
(***************************************************************************)
EXTENDS CedarValues, Authorizer, FiniteSetsExt

CONSTANTS
  Templates,   \* template id |-> template
  LinkLists,   \* sequences of links: [template, slots]
  TemplateStores, TemplateRequests,
  PolicyNodes,       \* the expressions of the policies, and their parts
  ResultOf(_, _, _)  \* evaluate

VARIABLES
  links,               \* the links that were asked for
  linked,              \* the policies linked so far
  linkFailed,          \* a link could not be made
  tried, triedStore,   \* the latest request, if any, and its store
  kept                 \* the policies of its slice, by their places

templateVars == <<links, linked, linkFailed, tried, triedStore, kept>>

-----------------------------------------------------------------------------
(* Templates *)
Bare(scope) == scope.c \in {"any", "is"}
IsSlot(o) == "slot" \in DOMAIN o

IsScope(scope) ==
  /\ scope.c \in {"any", "is", "eq", "mem", "isMem"}
  /\ DOMAIN scope = {"c"} \cup (IF scope.c \in {"is", "isMem"} THEN {"ety"} ELSE {})
                         \cup (IF Bare(scope) THEN {} ELSE {"of"})

\* An action has no slot.
IsActionScope(scope) ==
  \/ scope.c = "inAny"
  \/ IsScope(scope) /\ (~Bare(scope) => ~IsSlot(scope.of))

IsSequence(s) == Len(s) \in Nat /\ s = [k \in 1..Len(s) |-> s[k]]

IsTemplate(t) ==
  /\ DOMAIN t = {"effect", "principal", "action", "resource", "conditions"}
  /\ IsScope(t.principal) /\ IsActionScope(t.action) /\ IsScope(t.resource)
  /\ IsSequence(t.conditions)

ASSUME TemplatesAreTemplates == \A id \in DOMAIN Templates : IsTemplate(Templates[id])
ASSUME LinkListsAreSequences == \A ls \in LinkLists : IsSequence(ls)
ASSUME RequestsNameEntities ==
  \A q \in TemplateRequests : \A v \in {"principal", "action", "resource"} : q[v] = UidV(q[v].u)

-----------------------------------------------------------------------------
(* Linking *)
\* A missing slot, principal before resource, and a missing template fail.
Linkable(scope, slots) == Bare(scope) \/ (IsSlot(scope.of) => scope.of.slot \in DOMAIN slots)

LinkScope(scope, slots) ==
  IF Bare(scope) \/ ~IsSlot(scope.of) THEN scope
  ELSE [scope EXCEPT !.of = [uid |-> slots[scope.of.slot]]]

HasSlots(t, slots) == Linkable(t.principal, slots) /\ Linkable(t.resource, slots)
LinkTemplate(t, slots) ==
  [t EXCEPT !.principal = LinkScope(@, slots), !.resource = LinkScope(@, slots)]

CanLink(link) ==
  link.template \in DOMAIN Templates /\ HasSlots(Templates[link.template], link.slots)
LinkPolicy(link) == LinkTemplate(Templates[link.template], link.slots)

-----------------------------------------------------------------------------
(* Policies as expressions *)
Var(v) == [op |-> "var", var |-> v]
Uid(u) == [op |-> "val", v |-> UidV(u)]
True   == [op |-> "val", v |-> BoolV(TRUE)]
AndX(x, y)  == [op |-> "and", x |-> x, y |-> y]
NotX(x)     == [op |-> "unary", o |-> [op |-> "not"], x |-> x]
EqX(v, u)   == [op |-> "binary", o |-> "eq", x |-> Var(v), y |-> Uid(u)]
InX(v, u)   == [op |-> "binary", o |-> "mem", x |-> Var(v), y |-> Uid(u)]
IsX(v, ety) == [op |-> "unary", o |-> [op |-> "is", ety |-> ety], x |-> Var(v)]

ScopeExpr(scope, v) ==
  CASE scope.c = "any"   -> True
    [] scope.c = "eq"    -> EqX(v, scope.of.uid)
    [] scope.c = "mem"   -> InX(v, scope.of.uid)
    [] scope.c = "is"    -> IsX(v, scope.ety)
    [] scope.c = "isMem" -> AndX(IsX(v, scope.ety), InX(v, scope.of.uid))

\* An action is in a scope or in any of a list.
ActionExpr(scope) ==
  IF scope.c # "inAny" THEN ScopeExpr(scope, "action")
  ELSE [op |-> "binary", o |-> "mem", x |-> Var("action"),
        y |-> [op |-> "set", xs |-> [k \in DOMAIN scope.uids |-> Uid(scope.uids[k])]]]

ConditionExpr(c) == IF c.kind = "when" THEN c.body ELSE NotX(c.body)

\* From the last condition, the innermost, up to the first.
ConditionsExpr(cs) ==
  LET from[k \in DOMAIN cs] ==
        IF k = Len(cs) THEN ConditionExpr(cs[k]) ELSE AndX(ConditionExpr(cs[k]), from[k + 1])
  IN  IF cs = <<>> THEN True ELSE from[1]

PolicyExpr(p) ==
  AndX(ScopeExpr(p.principal, "principal"),
       AndX(ActionExpr(p.action), AndX(ScopeExpr(p.resource, "resource"), ConditionsExpr(p.conditions))))

\* Policies are made of nodes, nodes of nodes.
ASSUME PoliciesAreNodes ==
  \A ls \in LinkLists : \A k \in DOMAIN ls :
    CanLink(ls[k]) => PolicyExpr(LinkPolicy(ls[k])) \in PolicyNodes
ASSUME PartsAreNodes ==
  \A x \in PolicyNodes :
    /\ x.op \in {"and", "unary", "binary"} => x.x \in PolicyNodes
    /\ x.op \in {"and", "binary"} => x.y \in PolicyNodes
    /\ x.op = "set" => \A k \in DOMAIN x.xs : x.xs[k] \in PolicyNodes

\* What policies are made of is evaluated as evaluate does; of what conditions
\* hold besides, only that it has some result, and a Boolean if it says so.
ASSUME NodesEvaluate ==
  \A x \in PolicyNodes, q \in TemplateRequests, es \in TemplateStores :
    LET ev(y) == ResultOf(y, q, es)
    IN  ev(x) = CASE x.op = "val"    -> Ok(x.v)
                  [] x.op = "var"    -> Ok(q[x.var])
                  [] x.op = "and"    -> AndR(ev(x.x), ev(x.y))
                  [] x.op = "unary"  -> UnaryR(x.o, ev(x.x))
                  [] x.op = "binary" -> BinaryR(x.o, ev(x.x), ev(x.y), es)
                  [] x.op = "set"    -> SetR([k \in DOMAIN x.xs |-> ev(x.xs[k])])
                  [] OTHER           -> ev(x)
ASSUME BooleansAreBooleans ==
  \A x \in PolicyNodes, q \in TemplateRequests, es \in TemplateStores :
    LET r == ResultOf(x, q, es)
    IN  IsOk(r) => r = Ok(r.ok) /\ (r.ok.t = "bool" => r.ok \in {BoolV(TRUE), BoolV(FALSE)})

-----------------------------------------------------------------------------
(* Slices *)
Unbounded == [none |-> TRUE]
NoRequest == [none |-> TRUE]

Bound(scope) == IF Bare(scope) THEN Unbounded ELSE scope.of

\* Mutant: only the entity itself is within its bound.
WithinExactly(u, bound, store) == bound = Unbounded \/ u = bound.uid

\* inSomeOrNone.
Within(u, bound, store) == bound = Unbounded \/ InE(u, bound.uid, store)

\* satisfiedBound of scopeAnalysis.
SatisfiedBound(p, r, store) ==
  /\ Within(r.principal.u, Bound(p.principal), store)
  /\ Within(r.resource.u, Bound(p.resource), store)

-----------------------------------------------------------------------------
TemplateInit ==
  /\ links \in LinkLists
  /\ linked = <<>> /\ linkFailed = FALSE
  /\ tried = NoRequest /\ triedStore = EmptyMap /\ kept = {}

\* linkPolicy? of the next link; the first that fails ends it all.
Link ==
  /\ ~linkFailed /\ Len(linked) < Len(links)
  /\ LET link == links[Len(linked) + 1]
     IN  IF CanLink(link) THEN linked' = Append(linked, LinkPolicy(link)) /\ UNCHANGED linkFailed
                          ELSE linked' = <<>> /\ linkFailed' = TRUE
  /\ UNCHANGED <<links, tried, triedStore, kept>>

\* A request is authorized by its slice of the policies.
AuthorizeSlice ==
  /\ ~linkFailed /\ Len(linked) = Len(links)
  /\ tried' \in TemplateRequests /\ triedStore' \in TemplateStores
  /\ kept' = {k \in DOMAIN linked : SatisfiedBound(linked[k], tried', triedStore')}
  /\ UNCHANGED <<links, linked, linkFailed>>

TemplateNext == Link \/ AuthorizeSlice
TemplateSpec == TemplateInit /\ [][TemplateNext]_templateVars

-----------------------------------------------------------------------------
OutcomeOf(r) == CASE r = Ok(BoolV(TRUE)) -> "true" [] r = Ok(BoolV(FALSE)) -> "false" [] OTHER -> "error"
PolicyOutcome(k) == OutcomeOf(ResultOf(PolicyExpr(linked[k]), tried, triedStore))
Response(ks) == IsAuthorized([k \in ks |-> linked[k].effect], [k \in ks |-> PolicyOutcome(k)])

\* The slice answers as all the policies do: the same decision for the same
\* reasons, and no error is lost with a policy that was left out
\* (PolicySlice.lean:35-71).
PolicySliceSound == tried # NoRequest => Response(kept) = Response(DOMAIN linked)

(* What a template means, said without expressions. *)
Named(o, slots) == IF IsSlot(o) THEN slots[o.slot] ELSE o.uid
Meets(scope, slots, u) ==
  /\ scope.c \in {"is", "isMem"} => u.ty = scope.ety
  /\ scope.c \in {"mem", "isMem"} => InE(u, Named(scope.of, slots), triedStore)
  /\ scope.c = "eq" => u = Named(scope.of, slots)
ActionMeets(scope, u) ==
  IF scope.c = "inAny" THEN \E k \in DOMAIN scope.uids : InE(u, scope.uids[k], triedStore)
                       ELSE Meets(scope, EmptyMap, u)

ConditionOutcome(c) ==
  LET o == OutcomeOf(ResultOf(c.body, tried, triedStore))
  IN  IF c.kind = "when" \/ o = "error" THEN o ELSE IF o = "true" THEN "false" ELSE "true"

\* The first condition from the top that is not met says what comes of all.
FirstUnmet(cs) ==
  LET unmet == {k \in DOMAIN cs : ConditionOutcome(cs[k]) # "true"}
  IN  IF unmet = {} THEN "true" ELSE ConditionOutcome(cs[Min(unmet)])

\* A linked policy does what its template says of the slots of its own link:
\* scopes never fail and come before the conditions, which count from top to
\* bottom (Template.lean:83-127, Policy.lean:94-133).
LinkedMeaning ==
  tried # NoRequest =>
    \A k \in DOMAIN links :
      LET t == Templates[links[k].template]
          slots == links[k].slots
          inScope == /\ Meets(t.principal, slots, tried.principal.u)
                     /\ ActionMeets(t.action, tried.action.u)
                     /\ Meets(t.resource, slots, tried.resource.u)
      IN  PolicyOutcome(k) = IF inScope THEN FirstUnmet(t.conditions) ELSE "false"

\* Linked policies mean what their templates say, and those whose scope a
\* request may meet answer it as all of them do (Template.lean:83-127,
\* Policy.lean:94-133, PolicySlice.lean:35-71).
TemplatesSuffice == LinkedMeaning /\ PolicySliceSound
=============================================================================
