------------------------------ MODULE MCWire ------------------------------
(***************************************************************************)
(* What the Lean side decodes: varints at every boundary of a group of     *)
(* seven bits, of 32 and of 64; and a linked policy with the names it is   *)
(* about (cedar-lean/CedarProto/Policy.lean, EntityUID.lean, Name.lean),   *)
(* its fields in every order, with fields a later version may have added.  *)
(***************************************************************************)
EXTENDS ProtobufVarint, ProtobufMessage, Functions

\* One bit, the low bits, the high bits, all but one.
Words(top) == {{}} \cup {{i} : i \in 0..top} \cup {0..i : i \in 0..top} \cup {i..top : i \in 0..top}
              \cup {(0..top) \ {i} : i \in 0..top}
MCInt32 == Words(30) \cup {w \cup (31..63) : w \in Words(30)}
MCSent == [k \in Kinds |->
             CASE k \in {"uint64", "int64", "skip"} -> Words(63)
               [] k = "uint32" -> Words(31)
               [] k \in {"int32", "len"} -> MCInt32
               [] k = "bool" -> {{}, {0}, {1}, 0..63, {7}}]
MCFollows == {<<>>, <<[more |-> TRUE, bits |-> {0}], [more |-> FALSE, bits |-> 0..6]>>}

-----------------------------------------------------------------------------
StringF == [k |-> "string", rep |-> FALSE, opt |-> FALSE]
BoolF   == [k |-> "bool", rep |-> FALSE, opt |-> FALSE]
MessageF(ty) == [k |-> "message", of |-> ty, rep |-> FALSE, opt |-> FALSE]
Optional(field) == [field EXCEPT !.opt = TRUE]
Repeated(field) == [field EXCEPT !.rep = TRUE]

MCMessageTypes ==
  [ty \in {"Policy", "EntityUID", "Name"} |->
     CASE ty = "Name" -> <<StringF, Repeated(StringF)>>
       [] ty = "EntityUID" -> <<MessageF("Name"), StringF>>
       [] ty = "Policy" -> <<StringF, Optional(StringF), BoolF, Optional(MessageF("EntityUID")),
                             Optional(MessageF("EntityUID"))>>]

R(f, wt, x) == [f |-> f, wt |-> wt, holds |-> x]
Text(f, s) == R(f, "text", s)
Sub(f, rs) == R(f, "message", rs)
Orders(rs) == {[k \in DOMAIN rs |-> rs[p[k]]] : p \in Injection(DOMAIN rs, DOMAIN rs)}

FromLater == {R(9, "varint", 1), R(9, "i32", "c"), Text(9, <<"a", "b">>), Sub(9, <<R(3, "varint", 1)>>)}
Names == Orders(<<Text(1, <<"n">>), Text(2, <<"p">>), Text(2, <<"q", "p">>)>>)
         \cup {<<>>, <<Text(2, <<>>)>>} \cup UNION {Orders(<<Text(1, <<"n">>), u>>) : u \in FromLater}
Uids == UNION {Orders(<<Sub(1, n), Text(2, <<"e">>)>>) : n \in Names}
        \cup UNION {Orders(<<Sub(1, <<Text(1, <<"n">>)>>), u>>) : u \in FromLater}
SomeUid == <<Sub(1, <<Text(1, <<"m">>)>>), Text(2, <<"f">>)>>
MCMessages ==
  UNION {Orders(<<Text(1, <<"t">>), Sub(4, u)>>) : u \in Uids}
  \cup UNION {Orders(<<Sub(5, u), Sub(4, SomeUid), R(3, "varint", 1)>>) : u \in Uids}
  \cup UNION {Orders(<<Text(2, <<"l">>), R(3, "varint", 0), x, Sub(5, SomeUid)>>) : x \in FromLater}
  \cup Orders(<<Text(1, <<"t">>), R(3, "varint", 1), R(2, "varint", 1)>>)
  \cup {<<Text(1, <<"t">>), Sub(4, <<R(2, "varint", 1), Text(1, <<>>)>>)>>, <<>>}
=============================================================================
