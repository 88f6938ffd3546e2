---------------------------- MODULE LeanAnswers ----------------------------
(* cedar-lean-ffi (datatypes.rs, datatypes/tpe.rs, messages.rs): what goes  *)
(* between Rust and Lean. Lean answers with terms in which shared subterms  *)
(* are defined once and referred to, and Rust rebuilds them a definition at *)
(* a time; residuals, counterexamples and partial inputs are converted from *)
(* one language's tree to the other's.                                      *)
(*                                                                          *)
(* A tree is <<kind, label, children>>, in both languages. A term that was  *)
(* rebuilt holds a set of children if it is a set and a function if it is a *)
(* record. What is unknown or absent is <<>>, and <<x>> what is known.      *)
EXTENDS Integers, FiniteSets, Sequences, SequencesExt, FiniteSetsExt

CONSTANT Conversations   \* what is asked; a record with the field about

VARIABLES
  talk,         \* the conversation
  bound,        \* Lean's memo: the compound terms in the order of their ids
  wire,         \* the payload: [defs : a sequence of [id, body], root]
  intact,       \* whether the payload is as it was sent
  resolved,     \* the terms Rust has rebuilt, by id
  talkStage,
  talkOutcome,  \* <<"ok", x>> or <<"error", why>>
  readBack      \* what Lean makes of what Rust sends it

answersVars == <<talk, bound, wire, intact, resolved, talkStage, talkOutcome, readBack>>

Kind(t) == t[1]
Label(t) == t[2]
Kids(t) == t[3]
KnownIf(p, x) == IF p THEN <<x>> ELSE <<>>
Compound(t) == Kind(t) \in {"some", "set", "record", "app"}

---------------------------------------------------------------------------
(* CedarFFI/ToJson.lean: a compound term is bound to a new id after its     *)
(* children, unless it has one already.                                     *)

RECURSIVE PostOrder(_)
PostOrder(t) ==
  LET below == FoldLeft(LAMBDA seen, kid : seen \o PostOrder(kid), <<>>, Kids(t))
  IN IF Compound(t) THEN Append(below, t) ELSE below

Ref(t, memo) == IF Compound(t) THEN <<"ref", CHOOSE i \in DOMAIN memo : memo[i] = t, <<>>>> ELSE t
Body(t, memo) == <<Kind(t), Label(t), [i \in DOMAIN Kids(t) |-> Ref(Kids(t)[i], memo)]>>
Unbound(t, memo) == SelectSeq(PostOrder(t), LAMBDA u : u \notin ToSet(memo))

---------------------------------------------------------------------------
(* Labels. A bit vector is <<"bitvec", width, value>>, an address           *)
(* <<"ipv4", width of the address, width of the prefix>>, a pattern         *)
(* <<"like", elements>>.                                                    *)

BadIp(l) == \/ l[2] # (IF l[1] = "ipv4" THEN 32 ELSE 128)
            \/ l[3] # <<>> /\ l[3][1] # (IF l[1] = "ipv4" THEN 5 ELSE 7)
\* The leaves and operators that have no counterpart.
Unconvertible(t) ==
  \/ Kind(t) = "prim" /\ Label(t)[1] = "bitvec" /\ Label(t)[2] = 0
  \/ Kind(t) = "prim" /\ Label(t)[1] \in {"ipv4", "ipv6"} /\ BadIp(Label(t))
  \/ Kind(t) = "app" /\ Label(t)[1] = "like" /\ "surrogate" \in ToSet(Label(t)[2])
\* BitVec::of_nat takes the value modulo 2^width.
ConvertLabel(t) ==
  IF Kind(t) = "prim" /\ Label(t)[1] = "bitvec"
  THEN <<"bitvec", Label(t)[2], Label(t)[3] % 2^Label(t)[2]>> ELSE Label(t)

LastAt(names, kids, k) == kids[Max({i \in DOMAIN names : names[i] = k})]
\* A BTreeSet of the elements, a BTreeMap of the fields.
Rebuilt(kind, label, kids) ==
  CASE kind = "set" -> <<kind, label, ToSet(kids)>>
    [] kind = "record" -> <<kind, <<>>, [k \in ToSet(label) |-> LastAt(label, kids, k)]>>
    [] OTHER -> <<kind, label, kids>>

ErrorAt(kids) == kids[Min({i \in DOMAIN kids : Kind(kids[i]) = "error"})]
Erring(kids) == \E i \in DOMAIN kids : Kind(kids[i]) = "error"

\* TermDefBody::resolve.
RECURSIVE Resolve(_, _)
Resolve(body, known) ==
  LET kids == [i \in DOMAIN Kids(body) |-> Resolve(Kids(body)[i], known)] IN
  CASE Kind(body) = "ref" ->
         IF Label(body) \in DOMAIN known THEN known[Label(body)]
         ELSE <<"error", <<"UnknownId", Label(body)>>, <<>>>>
    [] Erring(kids) -> ErrorAt(kids)
    [] Unconvertible(body) -> <<"error", <<"Conversion">>, <<>>>>
    [] OTHER -> Rebuilt(Kind(body), ConvertLabel(body), kids)

\* TryFrom<Term>: the term without sharing.
RECURSIVE Direct(_)
Direct(t) ==
  LET kids == [i \in DOMAIN Kids(t) |-> Direct(Kids(t)[i])] IN
  CASE Erring(kids) -> ErrorAt(kids)
    [] Unconvertible(t) -> <<"error", <<"Conversion">>, <<>>>>
    [] OTHER -> Rebuilt(Kind(t), ConvertLabel(t), kids)

\* From<term::Term> and proto::Term::new: sets and records are sequences
\* again. A width is a u8 and the conversion panics beyond it.
RECURSIVE ToProto(_)
ToProto(t) ==
  CASE Kind(t) = "set" -> <<"set", Label(t), SetToSeq({ToProto(u) : u \in Kids(t)})>>
    [] Kind(t) = "record" ->
         LET names == SetToSeq(DOMAIN Kids(t)) IN
         <<"record", names, [i \in DOMAIN names |-> ToProto(Kids(t)[names[i]])]>>
    [] OTHER -> <<Kind(t), Label(t), [i \in DOMAIN Kids(t) |-> ToProto(Kids(t)[i])]>>

\* CedarProto/Term.lean: sets and maps in canonical form.
RECURSIVE LeanReads(_)
LeanReads(m) == Rebuilt(Kind(m), Label(m), [i \in DOMAIN Kids(m) |-> LeanReads(Kids(m)[i])])

---------------------------------------------------------------------------
(* Residuals. Rust's node is a message with a kind and the fields that the  *)
(* kind uses; Lean checks them and has one unary node for like and is too.  *)

RustBinary == <<"Eq", "Less", "LessEq", "Add", "Sub", "Mul", "In", "Contains", "ContainsAll",
                "ContainsAny", "GetTag", "HasTag">>
\* binaryOpOf, and the pst_op of convert_residual.
LeanBinary == <<"eq", "less", "lessEq", "add", "sub", "mul", "mem", "contains", "containsAll",
                "containsAny", "getTag", "hasTag">>
Counterpart(from, to, x) == to[CHOOSE i \in DOMAIN from : from[i] = x]

UnaryFunctions == {"decimal", "ip", "datetime", "duration", "isIpv4", "isIpv6", "isLoopback",
                   "isMulticast", "toDate", "toTime", "toMilliseconds", "toSeconds", "toMinutes",
                   "toHours", "toDays"}
BinaryFunctions == {"lessThan", "lessThanOrEqual", "greaterThan", "greaterThanOrEqual",
                    "isInRange", "offset", "durationSince"}

\* proto::Residual::from_inner: the children in their order, a record's names
\* beside them.
RECURSIVE ResidualMessage(_)
ResidualMessage(r) ==
  LET names == SetToSeq(DOMAIN Kids(r)) IN
  [kind |-> Kind(r), label |-> IF Kind(r) = "record" THEN <<>> ELSE Label(r),
   names |-> IF Kind(r) = "record" THEN names ELSE <<>>,
   children |-> IF Kind(r) = "record" THEN [i \in DOMAIN names |-> ResidualMessage(Kids(r)[names[i]])]
                ELSE [i \in DOMAIN Kids(r) |-> ResidualMessage(Kids(r)[i])]]

\* ProtoResidual.toResidual (Lean).
RECURSIVE ToResidual(_)
ToResidual(m) ==
  LET kids == [i \in DOMAIN m.children |-> ToResidual(m.children[i])] IN
  CASE m.kind = "binary" -> <<"binary", Counterpart(RustBinary, LeanBinary, m.label), kids>>
    [] m.kind \in {"like", "is"} -> <<"unary", <<m.kind, m.label>>, kids>>
    [] m.kind = "unary" -> <<"unary", <<m.label>>, kids>>
    [] m.kind = "hasAttr" -> <<"hasAttr", <<m.label>>, kids>>
    [] m.kind = "record" -> <<"record", m.names, kids>>
    [] OTHER -> <<m.kind, m.label, kids>>

\* convert_residual and convert_ext_fun: Lean's residual as an expression.
RECURSIVE ConvertResidual(_)
ConvertResidual(r) ==
  LET kids == [i \in DOMAIN Kids(r) |-> ConvertResidual(Kids(r)[i])] IN
  CASE Erring(kids) -> ErrorAt(kids)
    [] Kind(r) = "error" -> <<"residual error", <<>>, <<>>>>
    [] Kind(r) \in {"and", "or"} -> <<"binary", Kind(r), kids>>
    [] Kind(r) = "binary" -> <<"binary", Counterpart(LeanBinary, RustBinary, Label(r)), kids>>
    [] Kind(r) = "unary" /\ Label(r)[1] = "like" ->
         IF "surrogate" \in ToSet(Label(r)[2]) THEN <<"error", <<"InvalidChar">>, <<>>>>
         ELSE <<"like", Label(r)[2], kids>>
    [] Kind(r) = "unary" /\ Label(r)[1] = "is" -> <<"is", Label(r)[2], kids>>
    [] Kind(r) = "unary" /\ Label(r)[1] \notin {"like", "is"} -> <<"unary", Label(r)[1], kids>>
    [] Kind(r) = "record" -> Rebuilt("record", Label(r), kids)
    [] Kind(r) = "call" ->
         IF Len(kids) = 1 /\ Label(r) \in UnaryFunctions THEN <<"unary", Label(r), kids>>
         ELSE IF Len(kids) = 2 /\ Label(r) \in BinaryFunctions THEN <<"binary", Label(r), kids>>
         ELSE <<"error", <<"UnsupportedExtArity", Len(kids)>>, <<>>>>
    [] OTHER -> <<Kind(r), Label(r), kids>>

---------------------------------------------------------------------------
(* Values, of counterexamples and residuals.                                *)

DecimalExpr(d) ==
  LET absval == IF d < 0 THEN -d ELSE d IN
  <<"decimal", <<IF d < 0 THEN "-" ELSE "", absval \div 10000, absval % 10000>>, <<>>>>
Octets(a) == <<(a \div 2^24) % 256, (a \div 2^16) % 256, (a \div 2^8) % 256, a % 256>>
IpExpr(addr, prefix) == <<"ip", <<Octets(addr), IF prefix = <<>> THEN 32 ELSE prefix[1]>>, <<>>>>

\* TryFrom<Value>: a record with a key twice is an error.
RECURSIVE ValueExpr(_)
ValueExpr(v) ==
  LET kids == [i \in DOMAIN Kids(v) |-> ValueExpr(Kids(v)[i])] IN
  CASE Erring(kids) -> ErrorAt(kids)
    [] Kind(v) = "decimal" -> DecimalExpr(Label(v))
    [] Kind(v) = "ipv4" -> IpExpr(Label(v)[1], Label(v)[2])
    [] Kind(v) = "datetime" -> <<"offset", <<"1970-01-01", Label(v)>>, <<>>>>
    [] Kind(v) = "record" ->
         IF Cardinality(ToSet(Label(v))) < Len(Label(v)) THEN <<"error", <<"DuplicateKey">>, <<>>>>
         ELSE Rebuilt("record", Label(v), kids)
    [] OTHER -> Rebuilt(Kind(v), Label(v), kids)

---------------------------------------------------------------------------
(* Inputs that may be partly unknown: a flag tells unknown from empty.      *)

\* A slip: an empty field is sent as an unknown one.
EmptyIsUnknown(x) == [has |-> x # <<>> /\ x[1] # {}, content |-> IF x = <<>> THEN {} ELSE x[1]]

Flagged(x) == [has |-> x # <<>>, content |-> IF x = <<>> THEN {} ELSE x[1]]
FromFlag(f) == KnownIf(f.has, f.content)

\* PartialRequest::from_inner and from_unchecked.
RequestMessage(q) == [principal |-> q.principal, resource |-> q.resource, context |-> Flagged(q.context)]
\* PartialEntity::from_inner and from_unchecked.
EntityMessage(e) == [attrs |-> Flagged(e.attrs), ancestors |-> Flagged(e.ancestors),
                     tags |-> Flagged(e.tags)]
\* toPartialRequest and toPartialEntities (Lean).
LeanRequest(m) == [principal |-> m.principal, resource |-> m.resource, context |-> FromFlag(m.context)]
LeanEntity(m) == [attrs |-> FromFlag(m.attrs), ancestors |-> FromFlag(m.ancestors),
                  tags |-> FromFlag(m.tags)]

\* ResidualReauthorizationRequest::new. An expected value that is not sent
\* is read as a default.
Expectation(expected) ==
  [value |-> KnownIf(Kind(expected) = "value", Label(expected)), error |-> Kind(expected) = "error"]
\* reauthorizeResidual (Lean).
Agrees(m, actual) ==
  IF Kind(actual) = "error" THEN m.error
  ELSE ~m.error /\ Label(actual) = (IF m.value = <<>> THEN "default" ELSE m.value[1])

\* AuthorizationResponse::from_inner and TpeResponse::from_inner.
Response(a) ==
  CASE a.decision \in {<<"allow">>, <<"deny">>} \cup (IF a.partial THEN {<<>>} ELSE {}) ->
         <<"ok", [decision |-> a.decision, lists |-> [l \in DOMAIN a.lists |-> ToSet(a.lists[l])]]>>
    [] OTHER -> <<"error", "LeanDeserializationError">>

---------------------------------------------------------------------------
(* The conversation.                                                        *)

Waiting == <<"none">>
NoPayload == [defs |-> <<>>, root |-> <<>>]

AnswersInit ==
  /\ talk \in Conversations
  /\ bound = <<>> /\ wire = NoPayload /\ intact = TRUE /\ resolved = <<>>
  /\ talkStage = "asked" /\ talkOutcome = Waiting /\ readBack = <<>>

\* BindingEnv.bind.
Bind ==
  /\ talkStage = "asked" /\ talk.about = "term"
  /\ Unbound(talk.term, bound) # <<>>
  /\ bound' = Append(bound, Head(Unbound(talk.term, bound)))
  /\ wire' = [wire EXCEPT !.defs =
                Append(@, [id |-> Len(bound) + 1, body |-> Body(Head(Unbound(talk.term, bound)), bound)])]
  /\ UNCHANGED <<talk, intact, resolved, talkStage, talkOutcome, readBack>>

Answer ==
  /\ talkStage = "asked" /\ talk.about = "term"
  /\ Unbound(talk.term, bound) = <<>>
  /\ wire' = [wire EXCEPT !.root = Ref(talk.term, bound)]
  /\ talkStage' = "sent"
  /\ UNCHANGED <<talk, bound, intact, resolved, talkOutcome, readBack>>

\* The decoder does not rely on a well-formed payload: here two definitions
\* change places, or one is missing, or is there twice.
Misprint ==
  LET d == wire.defs IN
  /\ talkStage = "sent" /\ intact /\ resolved = <<>>
  /\ \E i, j \in DOMAIN d :
       wire' \in {[wire EXCEPT !.defs = [d EXCEPT ![i] = d[j], ![j] = d[i]]],
                  [wire EXCEPT !.defs = SelectSeq(d, LAMBDA x : x # d[i])],
                  [wire EXCEPT !.defs = Append(d, [d[i] EXCEPT !.body = d[j].body])]}
  /\ intact' = (wire' = wire)
  /\ UNCHANGED <<talk, bound, resolved, talkStage, talkOutcome, readBack>>

AnswerWith(x) == talkOutcome' = x /\ talkStage' = "read"

\* TryFrom<CseTerm>: one definition. It is resolved before its id is looked
\* at, and is in the table when a second one is noticed.
\* A slip: the second definition of an id replaces the first.
LastDefinition(known, id) == FALSE
DefinedTwice(known, id) == id \in DOMAIN known

ResolveDef ==
  /\ talkStage = "sent" /\ wire.defs # <<>>
  /\ LET d == Head(wire.defs)
         term == Resolve(d.body, resolved)
     IN CASE Kind(term) = "error" ->
               AnswerWith(<<"error", Label(term)>>) /\ UNCHANGED <<wire, resolved>>
          [] DefinedTwice(resolved, d.id) ->
               AnswerWith(<<"error", <<"DuplicateId", d.id>>>>) /\ UNCHANGED <<wire, resolved>>
          [] OTHER -> /\ resolved' = [i \in {d.id} \cup DOMAIN resolved |->
                                        IF i = d.id THEN term ELSE resolved[i]]
                      /\ wire' = [wire EXCEPT !.defs = Tail(@)]
                      /\ UNCHANGED <<talkStage, talkOutcome>>
  /\ UNCHANGED <<talk, bound, intact, readBack>>

ResolveRoot ==
  /\ talkStage = "sent" /\ wire.defs = <<>>
  /\ LET term == Resolve(wire.root, resolved) IN
     AnswerWith(IF Kind(term) = "error" THEN <<"error", Label(term)>> ELSE <<"ok", term>>)
  /\ UNCHANGED <<talk, bound, wire, intact, resolved, readBack>>

\* CheckAssertsRequest::new: a term is sent back to be checked.
SendBack ==
  /\ talkStage = "read" /\ talk.about = "term" /\ talkOutcome[1] = "ok"
  /\ readBack' = LeanReads(ToProto(talkOutcome[2]))
  /\ talkStage' = "done"
  /\ UNCHANGED <<talk, bound, wire, intact, resolved, talkOutcome>>

\* The conversations of one message each way.
Exchange ==
  /\ talkStage = "asked" /\ talkStage' = "done"
  /\ \/ /\ talk.about = "residual"
        /\ readBack' = ToResidual(ResidualMessage(talk.residual))
        /\ LET e == ConvertResidual(readBack') IN
           talkOutcome' = IF Kind(e) = "error" THEN <<"error", Label(e)>> ELSE <<"ok", e>>
     \/ /\ talk.about = "value" /\ readBack' = <<>>
        /\ LET e == ValueExpr(talk.value) IN
           talkOutcome' = IF Kind(e) = "error" THEN <<"error", Label(e)>> ELSE <<"ok", e>>
     \/ /\ talk.about = "partial request" /\ UNCHANGED talkOutcome
        /\ readBack' = LeanRequest(RequestMessage(talk.request))
     \/ /\ talk.about = "partial entity" /\ UNCHANGED talkOutcome
        /\ readBack' = LeanEntity(EntityMessage(talk.entity))
     \/ /\ talk.about = "reauthorization" /\ UNCHANGED readBack
        /\ talkOutcome' = <<"ok", Agrees(Expectation(talk.expected), talk.actual)>>
     \/ /\ talk.about = "response" /\ UNCHANGED readBack
        /\ talkOutcome' = Response(talk.response)
  /\ UNCHANGED <<talk, bound, wire, intact, resolved>>

AnswersNext == Bind \/ Answer \/ Misprint \/ ResolveDef \/ ResolveRoot \/ SendBack \/ Exchange
AnswersSpec == AnswersInit /\ [][AnswersNext]_answersVars

---------------------------------------------------------------------------

AnswersTypeOK ==
  /\ talk \in Conversations
  /\ talkStage \in {"asked", "sent", "read", "done"}
  /\ talkOutcome[1] \in {"none", "ok", "error"}
  /\ DOMAIN resolved \subseteq 1..Len(bound)
  /\ \A i \in DOMAIN resolved : Kind(resolved[i]) # "error"

\* Whether a residual has a call with a number of arguments it cannot have,
\* or a pattern with half a character.
RECURSIVE Malformed(_)
Malformed(r) ==
  LET kids == IF Kind(r) = "record" THEN {Kids(r)[k] : k \in DOMAIN Kids(r)} ELSE ToSet(Kids(r)) IN
  \/ Kind(r) = "call" /\ Len(Kids(r)) # (IF Label(r) \in UnaryFunctions THEN 1 ELSE 2)
  \/ Kind(r) = "like" /\ "surrogate" \in ToSet(Label(r))
  \/ \E k \in kids : Malformed(k)

\* The operators of a Rust residual and of an expression are the same.
RECURSIVE Same(_, _)
Same(r, e) ==
  /\ DOMAIN Kids(r) = DOMAIN Kids(e)
  /\ \A k \in DOMAIN Kids(r) : Same(Kids(r)[k], Kids(e)[k])
  /\ CASE Kind(r) \in {"and", "or"} -> e[1] = "binary" /\ e[2] = Kind(r)
       [] Kind(r) = "call" -> e[2] = Label(r)
       [] Kind(r) = "error" -> e[1] = "residual error"
       [] Kind(r) = "hasAttr" -> e[1] = "hasAttr" /\ e[2] = <<Label(r)>>
       [] Kind(r) = "extHasAttr" -> e[1] \in {"hasAttr", "extHasAttr"} /\ e[2] = Label(r)
       [] OTHER -> Kind(e) = Kind(r) /\ Label(e) = Label(r)

DecimalOf(e) == (IF Label(e)[1] = "-" THEN -1 ELSE 1) * (Label(e)[2] * 10000 + Label(e)[3])

\* What crosses the boundary means the same on both sides. A term that was
\* sent with sharing is rebuilt as it would be without, each of its compound
\* subterms having been sent once, and Lean reads the same term when it is
\* sent back; a payload whose definitions are out of order, missing or
\* doubled is refused or gives that same term, and never another one. A
\* residual keeps its operators and operands, unless a call has the wrong
\* number of arguments, which is refused. Unknown stays unknown and empty
\* stays empty. An expected error agrees with an error alone. A decimal keeps
\* its sign. A decision other than the known ones is refused.
AnswersExact ==
  /\ talk.about = "term" =>
       LET direct == Direct(talk.term) IN
       /\ talkOutcome[1] = "ok" => talkOutcome[2] = direct
       /\ intact /\ talkStage \in {"read", "done"} =>
            (talkOutcome[1] = "error" <=> Kind(direct) = "error")
       /\ ~intact /\ talkStage \in {"read", "done"} /\ Cardinality(DOMAIN resolved) < Len(bound) =>
            talkOutcome[1] = "error"
       /\ wire.root # <<>> /\ intact /\ resolved = <<>> =>
            Len(wire.defs) = Cardinality(ToSet(PostOrder(talk.term)))
       /\ talkStage = "done" => readBack = direct
  /\ talk.about = "residual" /\ talkStage = "done" =>
       /\ talkOutcome[1] = "error" <=> Malformed(talk.residual)
       /\ talkOutcome[1] = "ok" => Same(talk.residual, talkOutcome[2])
  /\ talk.about = "value" /\ talkStage = "done" =>
       /\ talk.value[1] = "decimal" => DecimalOf(talkOutcome[2]) = talk.value[2]
       /\ talk.value[1] = "record" =>
            (talkOutcome[1] = "error" <=> \E i, j \in DOMAIN talk.value[2] :
                                        i # j /\ talk.value[2][i] = talk.value[2][j])
  /\ talk.about = "partial request" /\ talkStage = "done" => readBack = talk.request
  /\ talk.about = "partial entity" /\ talkStage = "done" => readBack = talk.entity
  /\ talk.about = "reauthorization" /\ talkStage = "done" =>
       talkOutcome[2] = (talk.expected = talk.actual)
  /\ talk.about = "response" /\ talkOutcome[1] = "ok" =>
       /\ talk.response.decision \in {<<"allow">>, <<"deny">>, <<>>}
       /\ talk.response.decision = <<>> => talk.response.partial
=============================================================================
