----------------------------- MODULE MCSchema -----------------------------
(* What the schema generators draw from: two or three names, one of them    *)
(* Action; and for the common types, schemas in which one type occurs       *)
(* twice, so that it can get two ids and a chain of definitions.            *)
EXTENDS SchemaGenerator

NewSchemas(groups, max, shapes, tags, contexts) ==
  [new |-> TRUE, groups |-> groups, ids |-> {"a", "Action"}, choices |-> {{"e1"}},
   shapes |-> shapes, tags |-> tags, contexts |-> contexts,
   actions |-> {"act1", "act2"}, maxActions |-> max, envLimit |-> 2]

AttrOf(t) == [ty |-> t, required |-> TRUE]
RecordType(f) == <<"Record", f>>
Long == <<"Long">>
SetOfLong == <<"Set", Long>>
Inner == RecordType([inner |-> [ty |-> Long, required |-> FALSE]])

Common(shape, tags, context) ==
  [new |-> FALSE, attrNames |-> {"attr", "other", "inner"},
   commonIds |-> {<<"x", 0>>, <<"x", 1>>},
   nsdef |-> [entityTypes |-> [a |-> Standard({}, shape, tags), e |-> Enum({"e1"})],
              actions |-> [act |-> [principals |-> {"a"}, resources |-> {"e"},
                                    context |-> context, memberOf |-> {}, rank |-> 0]],
              commonTypes |-> EmptyMap]]

MCSchemaDraws ==
  {NewSchemas(TRUE, 2, {<<"Entity", "a">>, <<"Entity", "Action">>}, {NoType}, {}),
   NewSchemas(TRUE, 1, {<<"Entity", "Action">>}, {NoType}, {<<"Entity", "a">>, <<"Entity", "Action">>}),
   NewSchemas(FALSE, 2, {}, {NoType}, {<<"Entity", "Action">>}),
   NewSchemas(FALSE, 1, {Long, <<"Entity", "a">>, <<"Entity", "Action">>}, {NoType, Long}, {}),
   Common(RecordType([attr |-> AttrOf(SetOfLong)]), SetOfLong, RecordType(EmptyMap)),
   Common(RecordType([attr |-> AttrOf(Inner)]), NoType, Inner),
   Common(RecordType([attr |-> AttrOf(SetOfLong), other |-> AttrOf(<<"Entity", "e">>)]),
          NoType, RecordType([attr |-> AttrOf(Long)])),
   Common(Inner, Inner, RecordType(EmptyMap))}
=============================================================================
