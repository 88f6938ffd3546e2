--------------------------- MODULE ProtobufVarint ---------------------------
(***************************************************************************)
(* Integers of variable width as the Lean side reads them                  *)
(* (cedar-lean/Protobuf/Varint.lean, with Len and VarInt.skip of           *)
(* Structures.lean): first the end of the integer is searched without      *)
(* moving, then its bytes are read, seven bits each.                       *)
(*                                                                         *)
(* A word is the set of its bits that are 1, so that the widths are the    *)
(* real ones; a byte is [more, bits], its most significant bit apart.      *)
(* The writer is prost on the Rust side (external).                        *)
(***************************************************************************)
EXTENDS Integers, Sequences, FiniteSetsExt

Kinds == {"uint32", "uint64", "int32", "int64", "bool", "len", "skip"}
Byte == [more : BOOLEAN, bits : SUBSET (0..6)]

CONSTANTS
  Sent,      \* for each kind the words that are written, as 64 bits
  Follows    \* what may follow on the wire: sequences of bytes

\* Words of 64 bits, those of unsigned integers of 32 bits, and those of
\* signed ones, which are written with their sign in all higher bits.
ASSUME VarintAssumption ==
  /\ DOMAIN Sent = Kinds /\ \A k \in Kinds : \A w \in Sent[k] : w \subseteq 0..63
  /\ \A w \in Sent["uint32"] : w \subseteq 0..31
  /\ \A k \in {"int32", "bool", "len"} : \A w \in Sent[k] : w \subseteq 0..30 \/ 31..63 \subseteq w
  /\ \A next \in Follows : next \in Seq(Byte)

VARIABLES
  kind,         \* what is expected
  sent,         \* what was written
  input,        \* the bytes from where the integer starts
  looked,       \* bytes looked at, the size of the integer when its end is found
  taken,        \* bytes read
  gathered,     \* the word read so far
  varintOutcome \* "searching", "reading", "done", "failed"

varintVars == <<kind, sent, input, looked, taken, gathered, varintOutcome>>

-----------------------------------------------------------------------------
(* The writer *)

\* As few groups of seven bits as hold the word, the lowest first.
Groups(word) == IF word = {} THEN 1 ELSE (Max(word) \div 7) + 1
Encode(word) ==
  [i \in 1..Groups(word) |->
     [more |-> i < Groups(word), bits |-> {b \in 0..6 : 7 * (i - 1) + b \in word}]]

-----------------------------------------------------------------------------
(* The reader *)

Width == IF kind \in {"uint64", "int64"} THEN 64 ELSE 32

VarintInit ==
  /\ kind \in Kinds /\ sent \in Sent[kind]
  /\ \/ \E next \in Follows : input = Encode(sent) \o next
     \/ \E k \in 0..Groups(sent) - 1 : input = SubSeq(Encode(sent), 1, k)   \* cut off
  /\ looked = 0 /\ taken = 0 /\ gathered = {} /\ varintOutcome = "searching"

\* Mutant: an integer has at most nine bytes.
SearchShort ==
  /\ varintOutcome = "searching"
  /\ IF input = <<>> \/ looked >= 9
     THEN varintOutcome' = "failed" /\ UNCHANGED looked
     ELSE /\ looked' = looked + 1
          /\ varintOutcome' = IF looked + 1 \in DOMAIN input /\ input[looked + 1].more THEN "searching" ELSE "reading"
  /\ UNCHANGED <<kind, sent, input, taken, gathered>>

\* find_end_of_varint: at most ten bytes; past the end of the input an index
\* yields a byte 0.
Search ==
  /\ varintOutcome = "searching"
  /\ IF input = <<>> \/ looked >= 10
     THEN varintOutcome' = "failed" /\ UNCHANGED looked
     ELSE /\ looked' = looked + 1
          /\ varintOutcome' = IF looked + 1 \in DOMAIN input /\ input[looked + 1].more THEN "searching" ELSE "reading"
  /\ UNCHANGED <<kind, sent, input, taken, gathered>>

\* A shift counts modulo the width of the word, and bits beyond it are lost.
Shifted(bits, by) == {b + (by % Width) : b \in bits} \cap (0..Width - 1)

\* parse_uint64 and parse_uint32.
NextByte ==
  /\ varintOutcome = "reading" /\ kind # "skip" /\ taken < looked
  /\ IF taken + 1 \in DOMAIN input
     THEN /\ gathered' = gathered \cup Shifted(input[taken + 1].bits, 7 * taken)
          /\ taken' = taken + 1 /\ UNCHANGED varintOutcome
     ELSE varintOutcome' = "failed" /\ UNCHANGED <<taken, gathered>>
  /\ UNCHANGED <<kind, sent, input, looked>>

\* An integer: its sign and the bits of its absolute value.
Number(negative, word) == [negative |-> negative, word |-> word]

\* Subtraction of one borrows up to the lowest bit that is 1.
MinusOne(word) == (word \ {Min(word)}) \cup (0..Min(word) - 1)
Magnitude(word, width) == (0..width - 1) \ MinusOne(word)

\* parse_int64 and parse_int32 negate when the most significant bit is set;
\* unsigned words are what they are.
Signed(word, width) ==
  IF width - 1 \in word THEN Number(TRUE, Magnitude(word, width)) ELSE Number(FALSE, word)
Decoded == IF kind \in {"uint32", "uint64"} THEN Number(FALSE, gathered) ELSE Signed(gathered, Width)

\* parse_bool takes 0 and 1 only, Len.parseSize nothing negative; skip does
\* not read.
FinishVarint ==
  /\ varintOutcome = "reading" /\ (taken = looked \/ kind = "skip")
  /\ taken' = looked
  /\ varintOutcome' = CASE kind = "bool" /\ Decoded \notin {Number(FALSE, {}), Number(FALSE, {0})} -> "failed"
                        [] kind = "len" /\ Decoded.negative -> "failed"
                        [] OTHER -> "done"
  /\ UNCHANGED <<kind, sent, input, looked, gathered>>

VarintNext == Search \/ NextByte \/ FinishVarint
VarintSpec == VarintInit /\ [][VarintNext]_varintVars

-----------------------------------------------------------------------------
\* What was written, as a number: a negative one is written as 64 bits,
\* whatever its type.
NumberSent == IF kind \in {"uint32", "uint64"} THEN Number(FALSE, sent) ELSE Signed(sent, 64)
Whole == Groups(sent) <= Len(input)

\* No more is looked at or read than ten bytes, and no bit is beyond the word
\* (Varint.lean:45-58 and 73-104).
VarintTypeOK ==
  /\ kind \in Kinds /\ sent \subseteq 0..63 /\ input \in Seq(Byte)
  /\ looked \in 0..10 /\ taken \in 0..looked /\ gathered \subseteq 0..Width - 1
  /\ varintOutcome \in {"searching", "reading", "done", "failed"}

\* A value is read only where one was written in full, and it is the one that
\* was written (Varint.lean:73-164); of a negative int32 the sign is (lines
\* 125-130), all that a length needs to be refused.
NumberReadRight ==
  varintOutcome = "done" /\ kind # "skip" =>
    /\ Whole
    /\ IF kind = "int32" /\ NumberSent.negative THEN Decoded.negative ELSE Decoded = NumberSent

\* The next field is looked for where the integer ends, read or skipped; what
\* is cut off is skipped to beyond the end of the input and never to within
\* it (Varint.lean:67-70, Structures.lean:39-41).
EndsWhereItEnds ==
  varintOutcome = "done" => IF Whole THEN taken = Groups(sent) ELSE kind = "skip" /\ taken > Len(input)

\* Nothing that was written in full is refused but a truth value other than 0
\* and 1 and a negative length (Varint.lean:160-164, Structures.lean:46-51).
RefusedForAReason ==
  varintOutcome = "failed" /\ Whole =>
    \/ kind = "bool" /\ NumberSent \notin {Number(FALSE, {}), Number(FALSE, {0})}
    \/ kind = "len" /\ NumberSent.negative

\* While it is read, the word holds the bits of the bytes read so far and no
\* others, as long as no byte starts beyond the word (lines 73-81, 96-104).
Accumulated ==
  kind # "skip" /\ 7 * taken <= Width + 6 =>
    gathered = {i \in 0..Width - 1 : i < 7 * taken /\ (i % 7) \in input[(i \div 7) + 1].bits}

\* Integers are read as they were written, but for an int32 below zero, and
\* to where they end.
VarintExact ==
  VarintTypeOK /\ NumberReadRight /\ EndsWhereItEnds /\ RefusedForAReason /\ Accumulated
=============================================================================
