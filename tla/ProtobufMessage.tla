--------------------------- MODULE ProtobufMessage ---------------------------
(***************************************************************************)
(* Messages as the Lean side decodes them (cedar-lean/Protobuf/Message.lean*)
(* with Structure, Structures, Field, String and Packed): a message is a   *)
(* number of bytes; its fields are read one by one, each merged into what  *)
(* has been read; an embedded message is read on its own first.            *)
(*                                                                         *)
(* Tags, numbers and lengths are a byte each (their varints are the matter *)
(* of ProtobufVarint): a byte is [tag, wt], [num] or [char].  A message    *)
(* type gives each field number [k, of, rep, opt]: a string, a bool or a   *)
(* message of type `of`, repeated or optional.  A string is a sequence of  *)
(* characters, an optional value a sequence of at most one.  The writer is *)
(* prost on the Rust side (external): a record is a field number, a wire   *)
(* type and a number, characters or records.                               *)
(***************************************************************************)
EXTENDS Integers, Sequences, SequencesExt

CONSTANTS
  MessageTypes,   \* message type |-> field number |-> field
  RootType,       \* the type that is expected
  Messages        \* sequences of records that are written

VARIABLES
  records,         \* what was written
  wire,            \* the bytes that arrived, perhaps cut off
  pos,             \* the next byte
  stack,           \* messages that are being read, the innermost last
  messageOutcome   \* "reading", "done", "failed"

messageVars == <<records, wire, pos, stack, messageOutcome>>

-----------------------------------------------------------------------------
(* The writer *)
TagByte(f, wt) == [tag |-> f, wt |-> wt]

RECURSIVE Bytes(_)
Bytes(rs) ==
  IF rs = <<>> THEN <<>>
  ELSE LET r == Head(rs)
           payload == CASE r.wt = "varint" -> <<[num |-> r.holds]>>
                        [] r.wt = "text" -> <<[num |-> Len(r.holds)]>> \o [k \in DOMAIN r.holds |-> [char |-> r.holds[k]]]
                        [] r.wt = "message" -> <<[num |-> Len(Bytes(r.holds))]>> \o Bytes(r.holds)
                        [] r.wt = "i32" -> [k \in 1..4 |-> [char |-> r.holds]]
       IN  <<TagByte(r.f, IF r.wt \in {"text", "message"} THEN "len" ELSE r.wt)>> \o payload \o Bytes(Tail(rs))

-----------------------------------------------------------------------------
(* Values *)
RECURSIVE DefaultValue(_)
DefaultOf(field) ==
  CASE field.rep \/ field.opt -> <<>>
    [] field.k = "string" -> <<>>
    [] field.k = "bool" -> FALSE
    [] field.k = "message" -> DefaultValue(field.of)
DefaultValue(ty) == [f \in DOMAIN MessageTypes[ty] |-> DefaultOf(MessageTypes[ty][f])]

\* Scalars override, repeated fields append, messages merge field by field.
RECURSIVE Merge(_, _, _)
MergeField(field, x, y) ==
  CASE field.rep -> x \o y
    [] field.opt /\ x # <<>> /\ y # <<>> /\ field.k = "message" -> <<Merge(field.of, x[1], y[1])>>
    [] ~field.rep /\ ~field.opt /\ field.k = "message" -> Merge(field.of, x, y)
    [] OTHER -> y
Merge(ty, x, y) == [f \in DOMAIN MessageTypes[ty] |-> MergeField(MessageTypes[ty][f], x[f], y[f])]

-----------------------------------------------------------------------------
(* The reader *)
TopFrame == Last(stack)
Frame(ty, size) == [ty |-> ty, result |-> DefaultValue(ty), remaining |-> size, start |-> 0, field |-> 0]

MessageInit ==
  /\ records \in Messages
  /\ \E k \in 0..Len(Bytes(records)) : wire = SubSeq(Bytes(records), 1, k)
  /\ pos = 1 /\ messageOutcome = "reading"
  /\ stack = <<Frame(RootType, Len(wire))>>

Reject == messageOutcome' = "failed" /\ UNCHANGED <<pos, stack>>

\* Subtraction of natural numbers.
Minus(remaining, size) == IF size <= remaining THEN remaining - size ELSE 0

\* Mutant: an element is measured from behind its tag.
AdvanceFromTag(frame, next) == [frame EXCEPT !.remaining = Minus(@, next - frame.start - 1)]

\* The frame after an element from its start to before `next`.
Advance(frame, next) == [frame EXCEPT !.remaining = Minus(@, next - frame.start)]

\* parseFieldElement: x is merged into the field, in a list if it is
\* repeated or optional.
StoreField(frame, f, x) ==
  LET field == MessageTypes[frame.ty][f]
      y == IF field.rep \/ field.opt THEN <<x>> ELSE x
  IN  [frame EXCEPT !.result[f] = MergeField(field, @, y)]

Known(f) == f \in DOMAIN MessageTypes[TopFrame.ty]
FieldOf(f) == MessageTypes[TopFrame.ty][f]
WireType(field) == IF field.k = "bool" THEN "varint" ELSE "len"
ByteAt(i) == IF i \in DOMAIN wire THEN wire[i] ELSE [none |-> TRUE]
HasCount == "num" \in DOMAIN ByteAt(pos + 1)
Count == ByteAt(pos + 1).num

\* parseMessageHelper goes on: a tag stands at pos.
MoreToRead == messageOutcome = "reading" /\ TopFrame.remaining > 0
AtTag == MoreToRead /\ pos <= Len(wire) /\ "tag" \in DOMAIN wire[pos]
ReadsField(x, next) ==
  /\ stack' = [stack EXCEPT ![Len(stack)] = Advance([StoreField(@, wire[pos].tag, x) EXCEPT !.start = pos], next)]
  /\ pos' = next /\ UNCHANGED messageOutcome

\* No byte left, or one that is no tag.
NoTag ==
  /\ MoreToRead /\ ~AtTag
  /\ Reject /\ UNCHANGED <<records, wire>>

\* A field of another wire type, or without its number or length.
BadField ==
  /\ AtTag
  /\ \/ Known(wire[pos].tag) /\ wire[pos].wt # WireType(FieldOf(wire[pos].tag))
     \/ wire[pos].wt # "i32" /\ ~HasCount
  /\ Reject /\ UNCHANGED <<records, wire>>

GoodField(k) ==
  /\ AtTag /\ HasCount /\ Known(wire[pos].tag)
  /\ FieldOf(wire[pos].tag).k = k /\ wire[pos].wt = WireType(FieldOf(wire[pos].tag))

\* parse_bool.
ReadBool ==
  /\ GoodField("bool")
  /\ IF Count \in {0, 1} THEN ReadsField(Count = 1, pos + 2) ELSE Reject
  /\ UNCHANGED <<records, wire>>

\* parse_string: as many bytes as the length says, characters all of them.
ReadString ==
  /\ GoodField("string")
  /\ IF \A k \in 1..Count : "char" \in DOMAIN ByteAt(pos + 1 + k)
     THEN ReadsField([k \in 1..Count |-> wire[pos + 1 + k].char], pos + 2 + Count) ELSE Reject
  /\ UNCHANGED <<records, wire>>

\* parseWithLen: an embedded message, to be merged when it has been read.
EnterMessage ==
  /\ GoodField("message")
  /\ stack' = Append([stack EXCEPT ![Len(stack)].start = pos, ![Len(stack)].field = wire[pos].tag],
                     Frame(FieldOf(wire[pos].tag).of, Count))
  /\ pos' = pos + 2
  /\ UNCHANGED <<records, wire, messageOutcome>>

\* WireType.skip, which does not look at the end of the input.
SkipSize(wt) == CASE wt = "varint" -> 2 [] wt = "len" -> 2 + Count [] wt = "i32" -> 5

SkipUnknown ==
  /\ AtTag /\ ~Known(wire[pos].tag) /\ (wire[pos].wt = "i32" \/ HasCount)
  /\ LET next == pos + SkipSize(wire[pos].wt)
     IN  /\ stack' = [stack EXCEPT ![Len(stack)] = Advance([@ EXCEPT !.start = pos], next)]
         /\ pos' = next
  /\ UNCHANGED <<records, wire, messageOutcome>>

\* An embedded message has been read: it is merged into the one around it.
LeaveMessage ==
  /\ messageOutcome = "reading" /\ TopFrame.remaining = 0 /\ Len(stack) > 1
  /\ LET outer == stack[Len(stack) - 1]
     IN  stack' = Append(SubSeq(stack, 1, Len(stack) - 2), Advance(StoreField(outer, outer.field, TopFrame.result), pos))
  /\ UNCHANGED <<records, wire, pos, messageOutcome>>

\* parse: the message ends where the input does, or beyond.
FinishMessage ==
  /\ messageOutcome = "reading" /\ TopFrame.remaining = 0 /\ Len(stack) = 1
  /\ messageOutcome' = IF pos > Len(wire) THEN "done" ELSE "failed"
  /\ UNCHANGED <<records, wire, pos, stack>>

MessageNext == NoTag \/ BadField \/ ReadBool \/ ReadString \/ EnterMessage \/ SkipUnknown \/ LeaveMessage \/ FinishMessage
MessageSpec == MessageInit /\ [][MessageNext]_messageVars

-----------------------------------------------------------------------------
\* What records denote: of a field that is not repeated there is at most one.
RECURSIVE Meant(_, _)
Meant(ty, rs) ==
  [f \in DOMAIN MessageTypes[ty] |->
     LET field == MessageTypes[ty][f]
         mine == SelectSeq(rs, LAMBDA r : r.f = f)
         values == [k \in DOMAIN mine |-> CASE field.k = "message" -> Meant(field.of, mine[k].holds)
                                            [] field.k = "bool" -> mine[k].holds = 1
                                            [] OTHER -> mine[k].holds]
     IN  IF field.rep \/ field.opt THEN values ELSE IF values = <<>> THEN DefaultOf(field) ELSE values[1]]

\* Every record has the wire type its field expects.
RECURSIVE WellTyped(_, _)
WellTyped(ty, rs) ==
  \A k \in DOMAIN rs : rs[k].f \in DOMAIN MessageTypes[ty] =>
    LET field == MessageTypes[ty][rs[k].f]
    IN  /\ rs[k].wt = CASE field.k = "bool" -> "varint" [] field.k = "string" -> "text" [] OTHER -> "message"
        /\ field.k = "message" => WellTyped(field.of, rs[k].holds)

\* What arrives in full is decoded to what was written, in whatever order the
\* fields come and whatever unknown ones are between them, and a field of
\* another type is refused; of what was cut off nothing is decoded but the
\* records that came before the cut
\* (Message.lean:51-87, Structure.lean:39-44, Structures.lean:89-106).
MessageReadRight ==
  /\ wire = Bytes(records) /\ WellTyped(RootType, records) =>
       messageOutcome # "failed" /\ (messageOutcome = "done" => stack[1].result = Meant(RootType, records))
  /\ messageOutcome = "done" =>
       \E k \in 0..Len(records) : LET before == SubSeq(records, 1, k)
                                  IN  WellTyped(RootType, before) /\ stack[1].result = Meant(RootType, before)

\* In what arrives in full, what an embedded message has left to read lies
\* within the message around it, so that no field of one is taken for a field
\* of the other
\* (Message.lean:51-71).
Framed ==
  wire = Bytes(records) => \A k \in 2..Len(stack) :
    LET outer == stack[k - 1]
        end == IF k = Len(stack) THEN pos + stack[k].remaining ELSE stack[k].start + stack[k].remaining
    IN  end <= outer.start + outer.remaining
=============================================================================
