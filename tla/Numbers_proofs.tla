--------------------------- MODULE Numbers_proofs ---------------------------
(***************************************************************************)
(* Proofs about datetimes, for every width, every length of the units and  *)
(* every text; and about integers of variable width in the widths of the   *)
(* code, for every word that may be written and everything that may follow.*)
(***************************************************************************)
EXTENDS ExtDatetime, ProtobufVarint, WellFoundedInduction, TLAPS

-----------------------------------------------------------------------------
(* Truncating division *)

\* The quotient of a whole number is bounded by what is left of it.
LEMMA QuotientBounds ==
  ASSUME NEW a \in Nat, NEW b \in Nat \ {0}
  PROVE  /\ a \div b \in Nat
         /\ b * (a \div b) <= a
         /\ a < b * (a \div b) + b
  BY SMT

\* A quotient is the only number with these bounds.
LEMMA QuotientUnique ==
  ASSUME NEW a \in Nat, NEW b \in Nat \ {0}, NEW q \in Nat, b * q <= a, a < b * q + b
  PROVE  a \div b = q
<1>1. /\ a \div b \in Nat
      /\ b * (a \div b) <= a
      /\ a < b * (a \div b) + b
  BY QuotientBounds
<1>. DEFINE p == a \div b
<1>. HIDE DEF p
<1>2. /\ p \in Nat
      /\ b * p <= a
      /\ a < b * p + b
  BY <1>1 DEF p
<1>3. CASE p < q
  <2>1. b * (p + 1) <= b * q
    BY <1>2, <1>3, SMT
  <2>2. b * (p + 1) = b * p + b
    BY <1>2, SMT
  <2>. QED
    BY <1>2, <2>1, <2>2, SMT
<1>4. CASE q < p
  <2>1. b * (q + 1) <= b * p
    BY <1>2, <1>4, SMT
  <2>2. b * (q + 1) = b * q + b
    BY SMT
  <2>. QED
    BY <1>2, <2>1, <2>2, SMT
<1>. QED
  BY <1>2, <1>3, <1>4 DEF p

\* Dividing twice is dividing by the product.
LEMMA DivideTwice ==
  ASSUME NEW a \in Nat, NEW b \in Nat \ {0}, NEW c \in Nat \ {0}
  PROVE  (a \div b) \div c = a \div (b * c)
<1>. DEFINE q == a \div b
            s == q \div c
<1>1. q \in Nat /\ b * q <= a /\ a < b * q + b
  BY QuotientBounds
<1>. HIDE DEF q
<1>2. s \in Nat /\ c * s <= q /\ q < c * s + c
  BY <1>1, QuotientBounds
<1>. HIDE DEF s
<1>3. b * c \in Nat \ {0}
  BY SMT
<1>4. (b * c) * s = b * (c * s)
  BY <1>2, SMT
<1>5. c * s \in Nat
  BY <1>2, SMT
<1>6. b * (c * s) <= b * q
  BY <1>1, <1>2, <1>5, SMT
<1>7. b * (q + 1) <= b * (c * s + c)
  BY <1>1, <1>2, <1>5, SMT
<1>8. b * (q + 1) = b * q + b
  BY <1>1, SMT
<1>9. b * (c * s + c) = b * (c * s) + b * c
  BY <1>5, SMT
<1>10. b * q \in Nat /\ b * (c * s) \in Nat
  BY <1>1, <1>5, SMT
<1>11. (b * c) * s <= a
  BY <1>1, <1>4, <1>6, <1>10, SMT
<1>12. a < (b * c) * s + b * c
  BY <1>1, <1>3, <1>4, <1>7, <1>8, <1>9, <1>10, SMT
<1>13. a \div (b * c) = s
  BY <1>2, <1>3, <1>11, <1>12, QuotientUnique
<1>. QED
  BY <1>13 DEF q, s

\* Below zero the quotient is that of the absolute value, negated.
LEMMA QuotientOfNegative ==
  ASSUME NEW n \in Nat, NEW b \in Nat \ {0}
  PROVE  Quotient(-n, b) = -(n \div b)
<1>1. CASE n = 0
  <2>1. 0 \div b = 0
    BY QuotientUnique, b * 0 = 0, SMT
  <2>. DEFINE m == -n
  <2>2. n <= 0 /\ n >= 0
    BY <1>1
  <2>3. m \in Int /\ m <= 0 /\ m >= 0
    BY <2>2, SMT
  <2>4. -(n \div b) = m
    BY <1>1, <2>1
  <2>. HIDE DEF m
  <2>5. m = 0
    BY <2>3, SMT
  <2>6. Quotient(m, b) = m \div b
    BY <2>3 DEF Quotient
  <2>. QED
    BY <2>1, <2>4, <2>5, <2>6 DEF m
<1>2. CASE n # 0
  BY <1>2, -n < 0, -(-n) = n DEF Quotient
<1>. QED
  BY <1>1, <1>2

LEMMA QuotientTwice ==
  ASSUME NEW a \in Int, NEW b \in Nat \ {0}, NEW c \in Nat \ {0}
  PROVE  Quotient(Quotient(a, b), c) = Quotient(a, b * c)
<1>1. b * c \in Nat \ {0}
  BY SMT
<1>2. CASE a >= 0
  <2>1. a \in Nat /\ a \div b \in Nat
    BY <1>2, QuotientBounds
  <2>2. Quotient(a, b) = a \div b /\ Quotient(a, b * c) = a \div (b * c)
    BY <1>2 DEF Quotient
  <2>3. Quotient(a \div b, c) = (a \div b) \div c
    BY <2>1 DEF Quotient
  <2>. QED
    BY <2>1, <2>2, <2>3, DivideTwice
<1>3. CASE a < 0
  <2>. DEFINE n == -a
  <2>1. n \in Nat /\ a = -n
    BY <1>3
  <2>. HIDE DEF n
  <2>2. n \div b \in Nat
    BY <2>1, QuotientBounds
  <2>3. Quotient(a, b) = -(n \div b)
    BY <2>1, QuotientOfNegative
  <2>4. Quotient(a, b * c) = -(n \div (b * c))
    BY <1>1, <2>1, QuotientOfNegative
  <2>5. Quotient(-(n \div b), c) = -((n \div b) \div c)
    BY <2>2, QuotientOfNegative
  <2>. QED
    BY <2>1, <2>3, <2>4, <2>5, DivideTwice
<1>. QED
  BY <1>2, <1>3

-----------------------------------------------------------------------------
(* Units *)
LEMMA UnitsArePositive ==
  /\ Second \in Nat \ {0} /\ Minute \in Nat \ {0} /\ Hour \in Nat \ {0} /\ Day \in Nat \ {0}
  /\ Second * Minute \in Nat \ {0}
  /\ Second * Minute * Hour \in Nat \ {0}
  /\ PerDay \in Nat \ {0}
<1>1. Second \in Nat \ {0} /\ Minute \in Nat \ {0} /\ Hour \in Nat \ {0} /\ Day \in Nat \ {0}
  BY DatetimeAssumption
<1>2. Second * Minute \in Nat \ {0}
  BY <1>1, SMT
<1>3. Second * Minute * Hour \in Nat \ {0}
  BY <1>1, <1>2, SMT
<1>4. PerDay \in Nat \ {0}
  BY <1>1, <1>3, SMT DEF PerDay
<1>. QED
  BY <1>1, <1>2, <1>3, <1>4

LEMMA MillisArePositive == \A k \in 1..5 : Millis(k) \in Nat \ {0}
<1>1. /\ Millis(1) = 1 /\ Millis(2) = Second
      /\ Millis(3) = Second * Minute /\ Millis(4) = Second * Minute * Hour
      /\ Millis(5) = PerDay
  BY DEF Millis
<1>. QED
  BY <1>1, UnitsArePositive

LEMMA RangeIsIntegers == Int64 \subseteq Int /\ 0 \in Int64
  BY DatetimeAssumption DEF Int64

-----------------------------------------------------------------------------
\* The time of a day is within the range, whatever the datetime.
LEMMA SplitOfDay ==
  ASSUME NEW d \in Int
  PROVE  /\ TimeOf(d) \in 0..PerDay - 1
         /\ DateOf(d) \in Int
         /\ DateOf(d) + TimeOf(d) = d
         /\ Remainder(DateOf(d), PerDay) = 0
         /\ d >= 0 => DateOf(d) >= 0
<1>. DEFINE P == PerDay
<1>p. P \in Nat \ {0}
  BY UnitsArePositive
<1>. HIDE DEF P
<1>m. ASSUME NEW k \in Nat PROVE Remainder(P * k, P) = 0 /\ Remainder(-(P * k), P) = 0
  <2>1. P * k \in Nat
    BY <1>p, SMT
  <2>2. (P * k) \div P = k
    BY <1>p, <2>1, QuotientUnique
  <2>3. Quotient(P * k, P) = k
    BY <2>1, <2>2 DEF Quotient
  <2>4. Quotient(-(P * k), P) = -k
    BY <1>p, <2>1, <2>2, QuotientOfNegative
  <2>5. P * (-k) = -(P * k)
    BY <1>p, SMT
  <2>. QED
    BY <1>p, <2>1, <2>3, <2>4, <2>5 DEF Remainder
<1>1. CASE d >= 0
  <2>. DEFINE q == d \div P
  <2>1. d \in Nat
    BY <1>1
  <2>2. q \in Nat /\ P * q <= d /\ d < P * q + P
    BY <1>p, <2>1, QuotientBounds
  <2>3. Quotient(d, P) = q
    BY <1>1 DEF Quotient
  <2>. HIDE DEF q
  <2>4. P * q \in Nat
    BY <1>p, <2>2, SMT
  <2>5. Remainder(d, P) = d - P * q
    BY <2>3 DEF Remainder
  <2>6. TimeOf(d) = d - P * q
    BY <1>1, <2>5 DEF TimeOf, P
  <2>7. DateOf(d) = P * q
    BY <1>1, <2>3 DEF DateOf, P
  <2>8. Remainder(P * q, P) = 0
    BY <1>m, <2>2
  <2>9. TimeOf(d) \in 0..P - 1
    BY <1>p, <2>2, <2>4, <2>6, SMT
  <2>. QED
    BY <2>4, <2>6, <2>7, <2>8, <2>9 DEF P
<1>2. CASE d < 0
  <2>. DEFINE n == -d
              q == n \div P
  <2>1. n \in Nat /\ d = -n
    BY <1>2
  <2>. HIDE DEF n
  <2>2. q \in Nat /\ P * q <= n /\ n < P * q + P
    BY <1>p, <2>1, QuotientBounds
  <2>3. Quotient(d, P) = -q
    BY <1>p, <2>1, QuotientOfNegative
  <2>. HIDE DEF q
  <2>4. P * q \in Nat /\ P * (-q) = -(P * q)
    BY <1>p, <2>2, SMT
  <2>5. Remainder(d, P) = d + P * q
    BY <1>p, <2>1, <2>2, <2>3, <2>4 DEF Remainder
  <2>6. CASE d + P * q = 0
    <3>1. TimeOf(d) = 0
      BY <2>5, <2>6 DEF TimeOf, P
    <3>2. DateOf(d) = -(P * q)
      BY <2>3, <2>4, <2>5, <2>6 DEF DateOf, P
    <3>3. Remainder(-(P * q), P) = 0
      BY <1>m, <2>2
    <3>. QED
      BY <1>2, <1>p, <2>4, <2>6, <3>1, <3>2, <3>3 DEF P
  <2>7. CASE d + P * q # 0
    <3>1. TimeOf(d) = d + P * q + P
      BY <1>2, <2>5, <2>7 DEF TimeOf, P
    <3>2. DateOf(d) = (-q - 1) * P
      BY <1>2, <2>3, <2>5, <2>7 DEF DateOf, P
    <3>3. (-q - 1) * P = -(P * (q + 1)) /\ P * (q + 1) = P * q + P
      BY <1>p, <2>2, SMT
    <3>4. Remainder(-(P * (q + 1)), P) = 0
      BY <1>m, <2>2
    <3>5. TimeOf(d) \in 0..P - 1
      BY <1>p, <2>1, <2>2, <2>4, <2>7, <3>1, SMT
    <3>6. DateOf(d) \in Int /\ DateOf(d) + TimeOf(d) = d
      BY <1>p, <2>4, <3>1, <3>2, <3>3, SMT
    <3>. QED
      BY <1>2, <3>2, <3>3, <3>4, <3>5, <3>6 DEF P
  <2>. QED
    BY <2>6, <2>7
<1>. QED
  BY <1>1, <1>2

-----------------------------------------------------------------------------
(* The calls *)

\* Whatever is parsed and called, datetimes and durations stay in the range.
THEOREM DatetimeTypes == DatetimeSpec => []DatetimeTypeOK
<1>. USE RangeIsIntegers
<1>1. DatetimeInit => DatetimeTypeOK
  <2>. SUFFICES ASSUME DatetimeInit PROVE DatetimeTypeOK
    OBVIOUS
  <2>1. Written \subseteq [1..5 -> Nat] /\ Literals \subseteq Int64
    BY DatetimeAssumption DEF Int64
  <2>2. text \in [negative : BOOLEAN, quantity : [1..5 -> Nat]]
    BY <2>1 DEF DatetimeInit
  <2>3. datetime \in Int64
    BY <2>1 DEF DatetimeInit
  <2>4. units \in 0..6 /\ sum \in Int
    BY DEF DatetimeInit
  <2>5. duration \in Int64 /\ callFailed \in BOOLEAN
    BY DEF DatetimeInit
  <2>. QED
    BY <2>2, <2>3, <2>4, <2>5 DEF DatetimeTypeOK
<1>2. DatetimeTypeOK /\ [DatetimeNext]_datetimeVars => DatetimeTypeOK'
  <2>. SUFFICES ASSUME DatetimeTypeOK, [DatetimeNext]_datetimeVars PROVE DatetimeTypeOK'
    OBVIOUS
  <2>. USE DEF DatetimeTypeOK
  <2>1. CASE ParseUnit
    <3>. DEFINE n == IF text.negative THEN -text.quantity[units + 1] ELSE text.quantity[units + 1]
    <3>1. units + 1 \in 1..5
      BY <2>1 DEF ParseUnit
    <3>2. n \in Int
      BY <3>1
    <3>3. Millis(units + 1) \in Nat \ {0}
      BY <3>1, MillisArePositive
    <3>. HIDE DEF n
    <3>4. n * Millis(units + 1) \in Int
      BY <3>2, <3>3, SMT
    <3>5. sum + n * Millis(units + 1) \in Int
      BY <3>4
    <3>6. CASE n \in Int64
      BY <2>1, <3>1, <3>5, <3>6 DEF ParseUnit, n
    <3>7. CASE n \notin Int64
      BY <2>1, <3>7 DEF ParseUnit, n
    <3>. QED
      BY <3>6, <3>7
  <2>2. CASE Parsed
    <3>1. [negative |-> FALSE, quantity |-> [k \in 1..5 |-> 0]] \in [negative : BOOLEAN, quantity : [1..5 -> Nat]]
      OBVIOUS
    <3>2. text' \in [negative : BOOLEAN, quantity : [1..5 -> Nat]]
      BY <2>2, <3>1 DEF Parsed
    <3>3. units' \in 0..6 /\ sum' \in Int
      BY <2>2 DEF Parsed
    <3>4. datetime' \in Int64 /\ duration' \in Int64
      BY <2>2 DEF Parsed
    <3>5. callFailed' \in BOOLEAN
      BY <2>2 DEF Parsed
    <3>. QED
      BY <3>2, <3>3, <3>4, <3>5
  <2>3. CASE Offset
    BY <2>3 DEF Offset, Calls, Becomes
  <2>4. CASE ToDate
    BY <2>4 DEF ToDate, Calls, Becomes
  <2>5. CASE ToTime
    <3>1. TimeOf(datetime) \in 0..PerDay - 1
      BY SplitOfDay
    <3>2. PerDay \in Nat \ {0} /\ PerDay <= MillisMax /\ MillisMin \in Int /\ MillisMin < 0 /\ MillisMax \in Nat
      BY UnitsArePositive, DatetimeAssumption DEF PerDay
    <3>3. TimeOf(datetime) \in Int64
      BY <3>1, <3>2, SMT DEF Int64
    <3>. QED
      BY <2>5, <3>3 DEF ToTime, Calls
  <2>6. ASSUME NEW other \in Literals, DurationSince(other) PROVE DatetimeTypeOK'
    BY <2>6 DEF DurationSince, Calls, Becomes
  <2>7. CASE UNCHANGED datetimeVars
    BY <2>7 DEF datetimeVars
  <2>. QED
    BY <2>1, <2>2, <2>3, <2>4, <2>5, <2>6, <2>7 DEF DatetimeNext
<1>. QED
  BY <1>1, <1>2, PTL DEF DatetimeSpec

\* Every datetime is the start of its day and a time within it.
THEOREM DaysAreSplit == DatetimeSpec => []DaySplit
<1>1. DatetimeTypeOK => DaySplit
  <2>. SUFFICES ASSUME DatetimeTypeOK PROVE DaySplit
    OBVIOUS
  <2>1. datetime \in Int /\ datetime \in Int64
    BY RangeIsIntegers DEF DatetimeTypeOK
  <2>2. /\ TimeOf(datetime) \in 0..PerDay - 1
        /\ DateOf(datetime) \in Int
        /\ DateOf(datetime) + TimeOf(datetime) = datetime
        /\ Remainder(DateOf(datetime), PerDay) = 0
        /\ datetime >= 0 => DateOf(datetime) >= 0
    BY <2>1, SplitOfDay
  <2>3. MillisMin \in Int /\ MillisMax \in Int /\ PerDay \in Nat
    BY DatetimeAssumption, UnitsArePositive
  <2>4. DateOf(datetime) \notin Int64 => datetime < MillisMin + PerDay
    BY <2>1, <2>2, <2>3, SMT DEF Int64
  <2>. QED
    BY <2>2, <2>4 DEF DaySplit
<1>. QED
  BY <1>1, DatetimeTypes, PTL

\* Durations convert to larger units alike, at once or unit by unit.
THEOREM UnitsDoAgree == DatetimeSpec => []UnitsAgree
<1>1. DatetimeTypeOK => UnitsAgree
  <2>. SUFFICES ASSUME DatetimeTypeOK PROVE UnitsAgree
    OBVIOUS
  <2>1. duration \in Int
    BY RangeIsIntegers DEF DatetimeTypeOK
  <2>2. ToMinutes(duration) = Quotient(duration, Second * Minute)
    BY <2>1, UnitsArePositive, QuotientTwice DEF ToMinutes, ToSeconds
  <2>3. ToHours(duration) = Quotient(duration, Second * Minute * Hour)
    BY <2>1, <2>2, UnitsArePositive, QuotientTwice DEF ToHours
  <2>4. ToDays(duration) = Quotient(duration, PerDay)
    BY <2>1, <2>3, UnitsArePositive, QuotientTwice DEF ToDays, PerDay
  <2>. QED
    BY <2>2, <2>3, <2>4 DEF UnitsAgree
<1>. QED
  BY <1>1, DatetimeTypes, PTL

-----------------------------------------------------------------------------
(* Parsing *)

\* What unit k adds to the duration that is written.
SignedQuantity(k) == IF text.negative THEN -text.quantity[k] ELSE text.quantity[k]
Term(k) == SignedQuantity(k) * Millis(k)
Upto(k) == IF k <= units THEN Term(k) ELSE 0

\* What has been read is the sum of the units read; a failure is that of a
\* quantity, or of the sum, beyond the range.
ParsingInv ==
  /\ units < 6 => sum = Upto(1) + Upto(2) + Upto(3) + Upto(4) + Upto(5)
  /\ units < 6 /\ callFailed => (units = 5 /\ sum \notin Int64) \/ \E k \in 1..5 : SignedQuantity(k) \notin Int64

\* A unit counts at least as much as its quantity, on the same side of zero.
LEMMA TermsGrow ==
  ASSUME DatetimeTypeOK, NEW k \in 1..5
  PROVE  /\ SignedQuantity(k) \in Int /\ Term(k) \in Int
         /\ text.negative => Term(k) <= SignedQuantity(k) /\ SignedQuantity(k) <= 0
         /\ ~text.negative => SignedQuantity(k) <= Term(k) /\ 0 <= SignedQuantity(k)
<1>. DEFINE q == text.quantity[k]
            m == Millis(k)
<1>1. q \in Nat /\ text.negative \in BOOLEAN
  BY DEF DatetimeTypeOK
<1>2. m \in Nat \ {0}
  BY MillisArePositive
<1>3. SignedQuantity(k) = IF text.negative THEN -q ELSE q
  BY DEF SignedQuantity
<1>4. Term(k) = SignedQuantity(k) * m
  BY DEF Term
<1>. HIDE DEF q, m
<1>5. q <= q * m /\ q * m \in Nat /\ (-q) * m = -(q * m)
  BY <1>1, <1>2, SMT
<1>. QED
  BY <1>1, <1>3, <1>4, <1>5

LEMMA DenotedIsSum ==
  ASSUME DatetimeTypeOK
  PROVE  DenotedDuration = Term(1) + Term(2) + Term(3) + Term(4) + Term(5)
<1>. DEFINE q(k) == text.quantity[k]
            m(k) == Millis(k)
<1>1. \A k \in 1..5 : q(k) \in Nat /\ m(k) \in Nat
  BY MillisArePositive DEF DatetimeTypeOK
<1>2. \A k \in 1..5 : Term(k) = IF text.negative THEN (-q(k)) * m(k) ELSE q(k) * m(k)
  BY DEF Term, SignedQuantity
<1>3. DenotedDuration = IF text.negative
                THEN -(q(1) * m(1) + q(2) * m(2) + q(3) * m(3) + q(4) * m(4) + q(5) * m(5))
                ELSE q(1) * m(1) + q(2) * m(2) + q(3) * m(3) + q(4) * m(4) + q(5) * m(5)
  BY DEF DenotedDuration
<1>. HIDE DEF q, m
<1>4. \A k \in 1..5 : (-q(k)) * m(k) = -(q(k) * m(k)) /\ q(k) * m(k) \in Nat
  BY <1>1, SMT
<1>. QED
  BY <1>2, <1>3, <1>4

\* A duration that is written and fits is parsed; one that does not fails.
THEOREM FittingDurationsParse == DatetimeSpec => []ParsedWhenItFits
<1>1. DatetimeTypeOK /\ ParsingInv => ParsedWhenItFits
  <2>. SUFFICES ASSUME DatetimeTypeOK, ParsingInv PROVE ParsedWhenItFits
    OBVIOUS
  <2>. DEFINE t(k) == Term(k)
              s(k) == SignedQuantity(k)
  <2>1. DenotedDuration = t(1) + t(2) + t(3) + t(4) + t(5)
    BY DenotedIsSum
  <2>2. /\ \A k \in 1..5 : s(k) \in Int /\ t(k) \in Int
        /\ text.negative => \A k \in 1..5 : t(k) <= s(k) /\ s(k) <= 0
        /\ ~text.negative => \A k \in 1..5 : s(k) <= t(k) /\ 0 <= s(k)
    BY TermsGrow
  <2>3. units = 5 => sum = DenotedDuration
    BY <2>1 DEF ParsingInv, Upto
  <2>4. ASSUME NEW k \in 1..5, s(k) \notin Int64 PROVE DenotedDuration \notin Int64
    <3>. HIDE DEF t, s
    <3>1. CASE text.negative
      <4>1. DenotedDuration \in Int /\ DenotedDuration <= s(k)
        BY <2>1, <2>2, <3>1
      <4>. QED
        BY <2>2, <2>4, <3>1, <4>1, DatetimeAssumption DEF Int64
    <3>2. CASE ~text.negative
      <4>1. DenotedDuration \in Int /\ DenotedDuration >= s(k)
        BY <2>1, <2>2, <3>2
      <4>. QED
        BY <2>2, <2>4, <3>2, <4>1, DatetimeAssumption DEF Int64
    <3>. QED
      BY <3>1, <3>2
  <2>5. units < 6 /\ callFailed => DenotedDuration \notin Int64
    BY <2>3, <2>4 DEF ParsingInv
  <2>. QED
    BY <2>3, <2>5 DEF ParsedWhenItFits
<1>2. DatetimeInit => ParsingInv
  BY DEF DatetimeInit, ParsingInv, Upto
<1>3. DatetimeTypeOK /\ DatetimeTypeOK' /\ ParsingInv /\ [DatetimeNext]_datetimeVars => ParsingInv'
  <2>. SUFFICES ASSUME DatetimeTypeOK, DatetimeTypeOK', ParsingInv, [DatetimeNext]_datetimeVars PROVE ParsingInv'
    OBVIOUS
  <2>1. CASE ParseUnit
    <3>1. units \in 0..4 /\ text' = text
      BY <2>1 DEF ParseUnit, DatetimeTypeOK
    <3>2. \A k \in 1..5 : SignedQuantity(k)' = SignedQuantity(k) /\ Term(k)' = Term(k) /\ Term(k) \in Int
      BY <3>1, TermsGrow DEF SignedQuantity, Term
    <3>3. CASE SignedQuantity(units + 1) \in Int64
      <4>1. sum' = sum + Term(units + 1) /\ units' = units + 1 /\ callFailed' = FALSE
        BY <2>1, <3>3 DEF ParseUnit, SignedQuantity, Term, DatetimeTypeOK
      <4>2. sum = Upto(1) + Upto(2) + Upto(3) + Upto(4) + Upto(5)
        BY <3>1 DEF ParsingInv
      <4>3. sum' = (Upto(1) + Upto(2) + Upto(3) + Upto(4) + Upto(5))'
        <5>. DEFINE t(k) == Term(k)
        <5>1. \A k \in 1..5 : t(k) \in Int
          BY <3>2
        <5>2. \A k \in 1..5 : Upto(k) = IF k <= units THEN t(k) ELSE 0
          BY DEF Upto
        <5>3. \A k \in 1..5 : Upto(k)' = IF k <= units + 1 THEN t(k) ELSE 0
          BY <3>2, <4>1 DEF Upto
        <5>4. units = 0 \/ units = 1 \/ units = 2 \/ units = 3 \/ units = 4
          BY <3>1
        <5>5. sum' = sum + t(units + 1)
          BY <4>1
        <5>. HIDE DEF t
        <5>. QED
          BY <4>2, <5>1, <5>2, <5>3, <5>4, <5>5
      <4>. QED
        BY <4>1, <4>3 DEF ParsingInv
    <3>4. CASE SignedQuantity(units + 1) \notin Int64
      <4>1. UNCHANGED <<units, sum>>
        BY <2>1, <3>4 DEF ParseUnit, SignedQuantity
      <4>2. units + 1 \in 1..5
        BY <3>1
      <4>3. \E k \in 1..5 : SignedQuantity(k)' \notin Int64
        BY <3>2, <3>4, <4>2
      <4>4. \A k \in 1..5 : Upto(k)' = Upto(k)
        BY <3>2, <4>1 DEF Upto
      <4>. QED
        BY <3>1, <4>1, <4>3, <4>4 DEF ParsingInv
    <3>. QED
      BY <3>3, <3>4
  <2>2. CASE Parsed
    <3>1. CASE sum \in Int64
      BY <2>2, <3>1 DEF Parsed, ParsingInv
    <3>2. CASE sum \notin Int64
      <4>1. UNCHANGED <<text, units, sum>>
        BY <2>2, <3>2 DEF Parsed
      <4>2. \A k \in 1..5 : Upto(k)' = Upto(k)
        BY <4>1 DEF Upto, Term, SignedQuantity
      <4>3. units = 5
        BY <2>2 DEF Parsed
      <4>. QED
        BY <3>2, <4>1, <4>2, <4>3 DEF ParsingInv
    <3>. QED
      BY <3>1, <3>2
  <2>3. CASE Offset \/ ToDate \/ ToTime \/ \E other \in Literals : DurationSince(other)
    <3>1. units' = 6
      BY <2>3 DEF Offset, ToDate, ToTime, DurationSince, Calls
    <3>. QED
      BY <3>1 DEF ParsingInv
  <2>4. CASE UNCHANGED datetimeVars
    BY <2>4 DEF datetimeVars, ParsingInv, Upto, Term, SignedQuantity
  <2>. QED
    BY <2>1, <2>2, <2>3, <2>4 DEF DatetimeNext
<1>. QED
  BY <1>1, <1>2, <1>3, DatetimeTypes, PTL DEF DatetimeSpec

-----------------------------------------------------------------------------
\* All that a policy may rely on of datetimes and durations holds of every
\* computation (Datetime.lean:197-293).
THEOREM DatetimesAreRight == DatetimeSpec => []DatetimesRight
<1>1. DatetimeTypeOK /\ DaySplit /\ UnitsAgree /\ ParsedWhenItFits => DatetimesRight
  BY DEF DatetimesRight, DatetimeTypeOK
<1>. QED
  BY <1>1, DatetimeTypes, DaysAreSplit, UnitsDoAgree, FittingDurationsParse, PTL

-----------------------------------------------------------------------------
(* Words *)

\* Natural numbers are well founded.
LEMMA LeastOf ==
  ASSUME NEW T, T \subseteq Nat, T # {}
  PROVE  \E x \in T : \A y \in T : x <= y
<1>1. PICK x \in T : \A y \in T : ~(<<y, x>> \in OpToRel(<, Nat))
  BY NatLessThanWellFounded, WFMin
<1>2. ASSUME NEW y \in T PROVE x <= y
  <2>1. <<y, x>> \in Nat \X Nat
    OBVIOUS
  <2>2. ~(<<y, x>> \in OpToRel(<, Nat))
    BY <1>1
  <2>3. ~(y < x)
    BY <2>1, <2>2 DEF OpToRel
  <2>4. x \in Nat /\ y \in Nat
    OBVIOUS
  <2> QED
    BY <2>3, <2>4
<1> QED
  BY <1>2

\* A word that is not 0 has a highest bit.
LEMMA HighestBit ==
  ASSUME NEW w, w \subseteq 0..63, w # {}
  PROVE  Max(w) \in w /\ \A b \in w : b <= Max(w)
<1> DEFINE T == {63 - b : b \in w}
<1>1. T \subseteq Nat /\ T # {}
  <2>1. \A b \in w : b \in Int /\ 63 - b \in Nat
    OBVIOUS
  <2> QED
    BY <2>1
<1>2. PICK t \in T : \A u \in T : t <= u
  <2> HIDE DEF T
  <2> QED
    BY <1>1, LeastOf
<1>3. PICK top \in w : t = 63 - top
  BY <1>2
<1>4. ASSUME NEW b \in w PROVE b <= top
  <2>1. 63 - b \in T
    OBVIOUS
  <2>2. t <= 63 - b
    BY <1>2, <2>1
  <2>3. top \in 0..63 /\ b \in 0..63
    OBVIOUS
  <2> HIDE DEF T
  <2> QED
    BY <1>3, <2>2, <2>3
<1>5. \A b \in w : top >= b
  BY <1>3, <1>4
<1> QED
  BY <1>5 DEF Max

\* A word needs up to ten groups, and no bit of it is beyond them.
LEMMA GroupsHoldTheWord ==
  ASSUME NEW w, w \subseteq 0..63
  PROVE  /\ Groups(w) \in 1..10
         /\ \A b \in w : b < 7 * Groups(w)
         /\ \A n \in 1..64 : w \subseteq 0..n - 1 => 7 * Groups(w) <= n + 6
         /\ \A b \in w : Groups(w) >= (b \div 7) + 1
<1>1. CASE w = {}
  BY <1>1 DEF Groups
<1>2. CASE w # {}
  <2> DEFINE top == Max(w)
  <2>1. top \in w /\ \A b \in w : b <= top
    BY <1>2, HighestBit
  <2>2. Groups(w) = (top \div 7) + 1
    BY <1>2 DEF Groups
  <2> HIDE DEF top
  <2>3. top \in 0..63 /\ \A b \in w : b \in 0..63 /\ b <= top
    BY <2>1
  <2>4. \A n \in 1..64 : w \subseteq 0..n - 1 => top < n
    BY <2>1
  <2>5. top \div 7 \in 0..9 /\ 7 * (top \div 7) <= top /\ top < 7 * (top \div 7) + 7
    BY <2>3, SMT
  <2>6. \A n \in 1..64 : top < n => 7 * (top \div 7) + 7 <= n + 6
    BY <2>3, <2>5, SMT
  <2>7. \A b \in w : b \div 7 <= top \div 7
    BY <2>3, SMT
  <2>8. 7 * Groups(w) = 7 * (top \div 7) + 7
    BY <2>2, <2>5
  <2>9. \A b \in w : b < 7 * Groups(w)
    BY <2>3, <2>5, <2>8
  <2>10. \A n \in 1..64 : w \subseteq 0..n - 1 => 7 * Groups(w) <= n + 6
    BY <2>4, <2>6, <2>8
  <2>11. \A b \in w : Groups(w) >= (b \div 7) + 1
    BY <2>2, <2>3, <2>5, <2>7
  <2> QED
    BY <2>2, <2>5, <2>9, <2>10, <2>11
<1> QED
  BY <1>1, <1>2

-----------------------------------------------------------------------------
(* Reading an integer *)
GroupOf(w, i) == [more |-> i < Groups(w), bits |-> {b \in 0..6 : 7 * (i - 1) + b \in w}]

\* What is on the wire starts with groups of what was written.
InputRight == \A i \in 1..Len(input) : i <= Groups(sent) => input[i] = GroupOf(sent, i)

\* The search does not pass the end; the reader stays within the input.
SearchRight ==
  /\ varintOutcome = "searching" => taken = 0 /\ gathered = {} /\ looked < Groups(sent) /\ looked <= Len(input)
  /\ varintOutcome \in {"reading", "done"} => looked = IF Whole THEN Groups(sent) ELSE Len(input) + 1
  /\ varintOutcome = "done" => taken = looked
  /\ kind # "skip" => taken <= Len(input)

\* The sign of a negative integer of 32 bits comes with the fifth byte and
\* is not lost with what is read after it.
SignKept == kind # "skip" /\ Width = 32 /\ taken >= 5 /\ 31 \in sent => 31 \in gathered

\* What is done was not refused.
Accepted ==
  varintOutcome = "done" =>
    /\ kind = "bool" => Decoded \in {Number(FALSE, {}), Number(FALSE, {0})}
    /\ kind = "len" => ~Decoded.negative

VarintInv ==
  /\ VarintTypeOK /\ sent \in Sent[kind]
  /\ InputRight /\ SearchRight /\ Accumulated /\ SignKept /\ Accepted /\ RefusedForAReason

LEMMA WidthType == Width \in {32, 64}
BY DEF Width

LEMMA EncodeType ==
  ASSUME NEW w, w \subseteq 0..63
  PROVE  /\ Encode(w) \in Seq(Byte) /\ Len(Encode(w)) = Groups(w) /\ Groups(w) \in 1..10
         /\ \A i \in 1..Groups(w) : Encode(w)[i] = GroupOf(w, i)
<1>1. Groups(w) \in 1..10
  BY GroupsHoldTheWord
<1>2. \A i \in 1..Groups(w) : GroupOf(w, i) \in Byte
  BY <1>1 DEF GroupOf, Byte
<1>3. Encode(w) = [i \in 1..Groups(w) |-> GroupOf(w, i)]
  BY DEF Encode, GroupOf
<1>4. Encode(w) \in [1..Groups(w) -> Byte]
  BY <1>2, <1>3
<1>5. Encode(w) \in Seq(Byte) /\ Len(Encode(w)) = Groups(w)
  BY <1>1, <1>4
<1> QED
  BY <1>1, <1>3, <1>5

LEMMA VarintInitInv == VarintInit => VarintInv
<1> SUFFICES ASSUME VarintInit PROVE VarintInv
  OBVIOUS
<1>1. /\ kind \in Kinds /\ sent \in Sent[kind] /\ sent \subseteq 0..63
      /\ looked = 0 /\ taken = 0 /\ gathered = {} /\ varintOutcome = "searching"
  BY VarintAssumption DEF VarintInit
<1> DEFINE E == Encode(sent)
           G == Groups(sent)
<1>2. E \in Seq(Byte) /\ Len(E) = G /\ G \in 1..10 /\ \A i \in 1..G : E[i] = GroupOf(sent, i)
  BY <1>1, EncodeType
<1>3. input \in Seq(Byte) /\ \A i \in 1..Len(input) : i <= G => input[i] = GroupOf(sent, i)
  <2>1. ASSUME NEW next \in Follows, input = E \o next
        PROVE  input \in Seq(Byte) /\ \A i \in 1..Len(input) : i <= G => input[i] = GroupOf(sent, i)
    <3>1. next \in Seq(Byte)
      BY VarintAssumption
    <3> HIDE DEF E, G
    <3>2. input \in Seq(Byte) /\ \A i \in 1..Len(E) : input[i] = E[i]
      BY <1>2, <2>1, <3>1
    <3>3. Len(input) \in Nat
      BY <3>2
    <3> QED
      BY <1>2, <3>2, <3>3
  <2>2. ASSUME NEW k \in 0..G - 1, input = SubSeq(E, 1, k)
        PROVE  input \in Seq(Byte) /\ \A i \in 1..Len(input) : i <= G => input[i] = GroupOf(sent, i)
    <3> HIDE DEF E, G
    <3>1. k \in Nat /\ k <= Len(E)
      BY <1>2, <2>2
    <3>2. input \in Seq(Byte) /\ Len(input) = k /\ \A i \in 1..k : input[i] = E[i]
      BY <1>2, <2>2, <3>1
    <3> QED
      BY <1>2, <3>1, <3>2
  <2> QED
    BY <2>1, <2>2 DEF VarintInit
<1> HIDE DEF E, G
<1>4. VarintTypeOK
  BY <1>1, <1>3 DEF VarintTypeOK
<1>5. InputRight
  BY <1>3 DEF InputRight, G
<1>6. SearchRight
  <2>1. Len(input) \in Nat
    BY <1>3
  <2> QED
    BY <1>1, <1>2, <2>1 DEF SearchRight, G
<1>7. Accumulated
  BY <1>1, WidthType DEF Accumulated
<1>8. SignKept /\ Accepted /\ RefusedForAReason
  BY <1>1 DEF SignKept, Accepted, RefusedForAReason
<1> QED
  BY <1>1, <1>4, <1>5, <1>6, <1>7, <1>8 DEF VarintInv

\* A bit of the byte it was written to is one of the word.
LEMMA BitOfInput ==
  ASSUME VarintInv, NEW i \in 0..63, (i \div 7) + 1 <= Groups(sent), (i \div 7) + 1 <= Len(input)
  PROVE  (i % 7) \in input[(i \div 7) + 1].bits <=> i \in sent
<1> DEFINE g == (i \div 7) + 1
           b == i % 7
<1>1. g \in 1..10 /\ b \in 0..6 /\ 7 * (g - 1) + b = i
  BY SMT
<1>2. input[g] = GroupOf(sent, g)
  BY <1>1 DEF VarintInv, InputRight
<1> HIDE DEF g, b
<1>3. input[g].bits = {x \in 0..6 : 7 * (g - 1) + x \in sent}
  BY <1>2 DEF GroupOf
<1>4. b \in input[g].bits <=> i \in sent
  BY <1>1, <1>3
<1> QED
  BY <1>4 DEF g, b

\* Once all groups are read the word is the one that was written; of a
\* negative integer of 32 bits the sign is.
LEMMA ReadInFull ==
  ASSUME VarintInv, kind # "skip", Whole, taken = Groups(sent)
  PROVE  /\ sent \subseteq 0..Width - 1 => gathered = sent
         /\ kind \in {"int32", "bool", "len"} /\ 31..63 \subseteq sent => 31 \in gathered
<1>0. sent \subseteq 0..63
  BY DEF VarintInv, VarintTypeOK
<1>1. /\ Groups(sent) \in 1..10 /\ Len(input) \in Nat /\ Groups(sent) <= Len(input)
      /\ kind \in Kinds
  <2>1. Groups(sent) \in 1..10
    BY <1>0, GroupsHoldTheWord
  <2>2. input \in Seq(Byte) /\ kind \in Kinds
    BY DEF VarintInv, VarintTypeOK
  <2> QED
    BY <2>1, <2>2 DEF Whole
<1>2. ASSUME sent \subseteq 0..Width - 1 PROVE gathered = sent
  <2>1. 7 * Groups(sent) <= Width + 6
    <3>1. Width \in 1..64
      BY WidthType
    <3>2. \A n \in 1..64 : sent \subseteq 0..n - 1 => 7 * Groups(sent) <= n + 6
      BY <1>0, GroupsHoldTheWord
    <3> QED
      BY <1>2, <3>1, <3>2
  <2>2. gathered = {i \in 0..Width - 1 : i < 7 * taken /\ (i % 7) \in input[(i \div 7) + 1].bits}
    BY <2>1 DEF VarintInv, Accumulated
  <2>3. ASSUME NEW i \in 0..Width - 1 PROVE i \in gathered <=> i \in sent
    <3>1. i \in 0..63
      BY WidthType
    <3>2. CASE i < 7 * Groups(sent)
      <4>1. (i \div 7) + 1 <= Groups(sent)
        BY <1>1, <3>1, <3>2, SMT
      <4>2. (i \div 7) + 1 <= Len(input)
        BY <1>1, <3>1, <4>1, SMT
      <4>3. (i % 7) \in input[(i \div 7) + 1].bits <=> i \in sent
        BY <3>1, <4>1, <4>2, BitOfInput
      <4> QED
        BY <2>2, <3>2, <4>3
    <3>3. CASE ~(i < 7 * Groups(sent))
      <4>1. i \notin sent
        BY <1>0, <3>3, GroupsHoldTheWord
      <4> QED
        BY <2>2, <3>3, <4>1
    <3> QED
      BY <3>2, <3>3
  <2> QED
    BY <1>2, <2>2, <2>3
<1>3. ASSUME kind \in {"int32", "bool", "len"}, 31..63 \subseteq sent PROVE 31 \in gathered
  <2>1. 31 \in sent /\ 31 \div 7 = 4
    BY <1>3, SMT
  <2>2. Groups(sent) >= 5
    <3>1. \A b \in sent : Groups(sent) >= (b \div 7) + 1
      BY <1>0, GroupsHoldTheWord
    <3>2. Groups(sent) >= (31 \div 7) + 1
      BY <2>1, <3>1
    <3> QED
      BY <1>1, <2>1, <3>2
  <2>3. Width = 32
    BY <1>3 DEF Width
  <2> QED
    BY <1>1, <2>1, <2>2, <2>3 DEF VarintInv, SignKept
<1> QED
  BY <1>2, <1>3

LEMMA DecodedInFull ==
  ASSUME VarintInv, kind # "skip", Whole, taken = Groups(sent)
  PROVE  IF kind \in {"int32", "bool", "len"} /\ NumberSent.negative
         THEN Decoded.negative ELSE Decoded = NumberSent
<1>1. kind \in Kinds /\ sent \in Sent[kind] /\ sent \subseteq 0..63
  BY DEF VarintInv, VarintTypeOK
<1>2. CASE kind = "uint32"
  <2>1. sent \subseteq 0..31 /\ Width = 32
    BY <1>1, <1>2, VarintAssumption DEF Width
  <2>2. gathered = sent
    BY <2>1, ReadInFull
  <2> QED
    BY <1>2, <2>2 DEF Decoded, NumberSent
<1>3. CASE kind \in {"uint64", "int64"}
  <2>1. Width = 64
    BY <1>3 DEF Width
  <2>2. gathered = sent
    BY <1>1, <2>1, ReadInFull
  <2> QED
    BY <1>3, <2>1, <2>2 DEF Decoded, NumberSent
<1>4. CASE kind \in {"int32", "bool", "len"} /\ sent \subseteq 0..30
  <2>1. Width = 32 /\ sent \subseteq 0..31
    BY <1>4 DEF Width
  <2>2. gathered = sent
    BY <2>1, ReadInFull
  <2>3. 31 \notin sent /\ 63 \notin sent
    BY <1>4
  <2>4. Decoded = Number(FALSE, sent) /\ NumberSent = Number(FALSE, sent)
    BY <1>4, <2>1, <2>2, <2>3 DEF Decoded, NumberSent, Signed
  <2> QED
    BY <2>4 DEF Number
<1>5. CASE kind \in {"int32", "bool", "len"} /\ 31..63 \subseteq sent
  <2>1. 31 \in gathered /\ Width = 32
    BY <1>5, ReadInFull DEF Width
  <2>2. 63 \in sent
    BY <1>5
  <2>3. Decoded.negative = TRUE /\ NumberSent.negative = TRUE
    BY <1>5, <2>1, <2>2 DEF Decoded, NumberSent, Signed, Number
  <2> QED
    BY <1>5, <2>3
<1>6. \A k \in {"int32", "bool", "len"} : kind = k => sent \subseteq 0..30 \/ 31..63 \subseteq sent
  BY <1>1, VarintAssumption
<1> QED
  BY <1>1, <1>2, <1>3, <1>4, <1>5, <1>6 DEF Kinds

-----------------------------------------------------------------------------
(* The steps *)
LEMMA SearchKeeps ==
  ASSUME VarintInv, Search
  PROVE  VarintInv'
<1>1. /\ varintOutcome = "searching" /\ UNCHANGED <<kind, sent, input, taken, gathered>>
      /\ kind \in Kinds /\ sent \in Sent[kind] /\ sent \subseteq 0..63 /\ input \in Seq(Byte) /\ Len(input) \in Nat
      /\ taken = 0 /\ gathered = {} /\ looked < Groups(sent) /\ looked <= Len(input) /\ looked \in 0..10
  BY DEF Search, VarintInv, VarintTypeOK, SearchRight
<1>2. Groups(sent) \in 1..10
  BY <1>1, GroupsHoldTheWord
<1>3. \A i \in 1..Len(input) : i <= Groups(sent) => (input[i].more <=> i < Groups(sent))
  <2>1. \A i \in 1..Len(input) : i <= Groups(sent) => input[i] = GroupOf(sent, i)
    BY DEF VarintInv, InputRight
  <2>2. \A i \in Int : GroupOf(sent, i).more <=> i < Groups(sent)
    BY DEF GroupOf
  <2> QED
    BY <1>1, <2>1, <2>2
<1>4. Width' = Width /\ Whole' = Whole /\ Decoded' = Decoded /\ NumberSent' = NumberSent
  BY <1>1 DEF Width, Whole, Decoded, NumberSent, Signed, Magnitude, MinusOne
<1>5. InputRight' /\ Accumulated' /\ SignKept'
  BY <1>1, <1>4 DEF VarintInv, InputRight, Accumulated, SignKept
<1>6. CASE input = <<>> \/ looked >= 10
  <2>1. input = <<>>
    BY <1>1, <1>2, <1>6
  <2>2. ~Whole
    BY <1>2, <2>1 DEF Whole
  <2>3. varintOutcome' = "failed" /\ looked' = looked
    BY <1>6 DEF Search
  <2>4. VarintTypeOK' /\ SearchRight'
    BY <1>1, <1>4, <2>3 DEF VarintInv, VarintTypeOK, SearchRight
  <2>5. Accepted' /\ RefusedForAReason'
    BY <1>4, <2>2, <2>3 DEF Accepted, RefusedForAReason
  <2> QED
    BY <1>1, <1>5, <2>4, <2>5 DEF VarintInv
<1>7. CASE ~(input = <<>> \/ looked >= 10)
  <2>1. looked' = looked + 1 /\ looked' \in 1..10 /\ DOMAIN input = 1..Len(input)
    BY <1>1, <1>7 DEF Search
  <2>2. CASE looked + 1 \in DOMAIN input /\ input[looked + 1].more
    <3>1. varintOutcome' = "searching"
      BY <1>7, <2>2 DEF Search
    <3>2. looked + 1 < Groups(sent) /\ looked + 1 <= Len(input)
      BY <1>1, <1>2, <1>3, <2>1, <2>2
    <3>3. VarintTypeOK'
      BY <1>1, <1>4, <2>1, <3>1 DEF VarintInv, VarintTypeOK
    <3>4. SearchRight'
      BY <1>1, <1>4, <2>1, <3>1, <3>2 DEF SearchRight
    <3> QED
      BY <1>1, <1>5, <3>1, <3>3, <3>4 DEF VarintInv, Accepted, RefusedForAReason
  <2>3. CASE ~(looked + 1 \in DOMAIN input /\ input[looked + 1].more)
    <3>1. varintOutcome' = "reading"
      BY <1>7, <2>3 DEF Search
    <3>2. looked + 1 = IF Whole THEN Groups(sent) ELSE Len(input) + 1
      <4>1. CASE looked + 1 <= Len(input)
        <5>1. ~(looked + 1 < Groups(sent))
          BY <1>1, <1>2, <1>3, <2>1, <2>3, <4>1
        <5> QED
          BY <1>1, <1>2, <4>1, <5>1 DEF Whole
      <4>2. CASE ~(looked + 1 <= Len(input))
        BY <1>1, <1>2, <4>2 DEF Whole
      <4> QED
        BY <4>1, <4>2
    <3>3. VarintTypeOK'
      BY <1>1, <1>4, <2>1, <3>1 DEF VarintInv, VarintTypeOK
    <3>4. SearchRight'
      BY <1>1, <1>4, <2>1, <3>1, <3>2 DEF SearchRight
    <3> QED
      BY <1>1, <1>5, <3>1, <3>3, <3>4 DEF VarintInv, Accepted, RefusedForAReason
  <2> QED
    BY <2>2, <2>3
<1> QED
  BY <1>6, <1>7

LEMMA NextByteKeeps ==
  ASSUME VarintInv, NextByte
  PROVE  VarintInv'
<1>1. /\ varintOutcome = "reading" /\ kind # "skip" /\ taken < looked
      /\ UNCHANGED <<kind, sent, input, looked>>
      /\ kind \in Kinds /\ sent \in Sent[kind] /\ sent \subseteq 0..63 /\ input \in Seq(Byte)
      /\ gathered \subseteq 0..Width - 1
  BY DEF NextByte, VarintInv, VarintTypeOK
<1>2. Len(input) \in Nat /\ DOMAIN input = 1..Len(input) /\ looked \in 0..10 /\ taken \in 0..looked /\ taken <= Len(input)
  BY <1>1 DEF VarintInv, VarintTypeOK, SearchRight
<1>3. Groups(sent) \in 1..10 /\ looked = IF Whole THEN Groups(sent) ELSE Len(input) + 1
  <2>1. Groups(sent) \in 1..10
    BY <1>1, GroupsHoldTheWord
  <2> QED
    BY <1>1, <2>1 DEF VarintInv, SearchRight
<1>4. Width' = Width /\ Whole' = Whole /\ InputRight'
  BY <1>1 DEF Width, Whole, VarintInv, InputRight
<1>5. CASE taken + 1 \notin DOMAIN input
  <2>1. varintOutcome' = "failed" /\ UNCHANGED <<taken, gathered>>
    BY <1>5 DEF NextByte
  <2>2. ~Whole
    BY <1>1, <1>2, <1>3, <1>5 DEF Whole
  <2>3. VarintTypeOK' /\ SearchRight'
    BY <1>1, <1>2, <1>4, <2>1 DEF VarintInv, VarintTypeOK, SearchRight
  <2>4. Accumulated' /\ SignKept'
    BY <1>1, <1>4, <2>1 DEF VarintInv, Accumulated, SignKept
  <2>5. Accepted' /\ RefusedForAReason'
    BY <1>4, <2>1, <2>2 DEF Accepted, RefusedForAReason
  <2> QED
    BY <1>1, <1>4, <2>3, <2>4, <2>5 DEF VarintInv
<1>6. CASE taken + 1 \in DOMAIN input
  <2> DEFINE bits == input[taken + 1].bits
  <2>1. /\ taken' = taken + 1 /\ UNCHANGED varintOutcome
        /\ gathered' = gathered \cup Shifted(bits, 7 * taken)
    BY <1>6 DEF NextByte
  <2>2. bits \subseteq 0..6
    <3>1. input[taken + 1] \in Byte
      BY <1>1, <1>2, <1>6
    <3> QED
      BY <3>1 DEF Byte
  <2> HIDE DEF bits
  <2>3. Shifted(bits, 7 * taken) \subseteq 0..Width - 1
    BY DEF Shifted
  <2>4. taken + 1 \in 0..looked /\ taken + 1 <= Len(input)
    BY <1>1, <1>2, <1>6
  <2>5. VarintTypeOK'
    BY <1>1, <1>2, <1>4, <2>1, <2>3, <2>4 DEF VarintInv, VarintTypeOK
  <2>6. SearchRight'
    BY <1>1, <1>3, <1>4, <2>1, <2>4 DEF SearchRight
  <2>7. Accumulated'
    <3> SUFFICES ASSUME 7 * (taken + 1) <= Width + 6
                 PROVE  gathered' = {i \in 0..Width - 1 : i < 7 * (taken + 1) /\ (i % 7) \in input[(i \div 7) + 1].bits}
      BY <1>1, <1>4, <2>1 DEF Accumulated
    <3>1. gathered = {i \in 0..Width - 1 : i < 7 * taken /\ (i % 7) \in input[(i \div 7) + 1].bits}
      <4>1. 7 * taken <= Width + 6
        BY <1>2, WidthType
      <4> QED
        BY <1>1, <4>1 DEF VarintInv, Accumulated
    <3>2. 7 * taken \in 0..Width - 1 /\ (7 * taken) % Width = 7 * taken
      <4>1. CASE Width = 32
        BY <1>2, <4>1
      <4>2. CASE Width = 64
        BY <1>2, <4>2
      <4> QED
        BY <4>1, <4>2, WidthType
    <3>3. Shifted(bits, 7 * taken) = {b + 7 * taken : b \in bits} \cap (0..Width - 1)
      BY <3>2 DEF Shifted
    <3>4. ASSUME NEW i \in 0..Width - 1, 7 * taken <= i, i < 7 * taken + 7
          PROVE  (i \div 7) + 1 = taken + 1 /\ i % 7 = i - 7 * taken
      <4>1. i \in Nat
        OBVIOUS
      <4> QED
        BY <1>2, <3>4, <4>1
    <3>5. ASSUME NEW i \in 0..Width - 1
          PROVE  i \in gathered' <=> i < 7 * (taken + 1) /\ (i % 7) \in input[(i \div 7) + 1].bits
      <4>0. i \in Nat
        BY WidthType
      <4>1. CASE i < 7 * taken
        <5>1. i \notin Shifted(bits, 7 * taken)
          BY <1>2, <2>2, <3>3, <4>0, <4>1
        <5>2. i < 7 * (taken + 1)
          BY <1>2, <4>0, <4>1
        <5> QED
          BY <2>1, <3>1, <4>1, <5>1, <5>2
      <4>2. CASE 7 * taken <= i /\ i < 7 * taken + 7
        <5>1. i \in Shifted(bits, 7 * taken) <=> i - 7 * taken \in bits
          <6>1. \A b \in bits : b + 7 * taken = i <=> b = i - 7 * taken
            BY <1>2, <2>2, <4>0
          <6> QED
            BY <3>3, <6>1
        <5>2. (i % 7) \in input[(i \div 7) + 1].bits <=> i - 7 * taken \in bits
          BY <3>4, <4>2 DEF bits
        <5>3. i \notin gathered /\ i < 7 * (taken + 1)
          BY <1>2, <3>1, <4>0, <4>2
        <5> QED
          BY <2>1, <5>1, <5>2, <5>3
      <4>3. CASE 7 * taken + 7 <= i
        <5>1. i \notin Shifted(bits, 7 * taken)
          BY <1>2, <2>2, <3>3, <4>0, <4>3
        <5>2. ~(i < 7 * (taken + 1)) /\ ~(i < 7 * taken)
          BY <1>2, <4>0, <4>3
        <5> QED
          BY <2>1, <3>1, <5>1, <5>2
      <4> QED
        BY <1>2, <4>0, <4>1, <4>2, <4>3
    <3>6. gathered' \subseteq 0..Width - 1
      BY <1>1, <2>1, <2>3
    <3> QED
      BY <3>5, <3>6
  <2>8. SignKept'
    <3> SUFFICES ASSUME Width = 32, taken + 1 >= 5, 31 \in sent PROVE 31 \in gathered'
      BY <1>1, <1>4, <2>1 DEF SignKept
    <3>1. CASE taken >= 5
      BY <1>1, <2>1, <3>1 DEF VarintInv, SignKept
    <3>2. CASE taken = 4
      <4>1. 31 \in 0..63 /\ 31 \div 7 = 4 /\ 31 % 7 = 3
        BY SMT
      <4>2. Groups(sent) >= 5
        <5>1. \A b \in sent : Groups(sent) >= (b \div 7) + 1
          BY <1>1, GroupsHoldTheWord
        <5>2. Groups(sent) >= (31 \div 7) + 1
          BY <5>1
        <5> QED
          BY <1>3, <4>1, <5>2
      <4>3. 5 <= Len(input)
        BY <1>2, <2>4, <3>2
      <4>4. (31 % 7) \in input[(31 \div 7) + 1].bits
        BY <4>1, <4>2, <4>3, BitOfInput
      <4>5. gathered' = {i \in 0..31 : i < 35 /\ (i % 7) \in input[(i \div 7) + 1].bits}
        BY <1>1, <1>4, <2>1, <2>7, <3>2 DEF Accumulated
      <4> QED
        BY <4>4, <4>5
    <3> QED
      BY <1>2, <3>1, <3>2
  <2>9. Accepted' /\ RefusedForAReason'
    BY <1>1, <2>1 DEF Accepted, RefusedForAReason
  <2> QED
    BY <1>1, <1>4, <2>5, <2>6, <2>7, <2>8, <2>9 DEF VarintInv
<1> QED
  BY <1>5, <1>6

LEMMA FinishKeeps ==
  ASSUME VarintInv, FinishVarint
  PROVE  VarintInv'
<1>1. /\ varintOutcome = "reading" /\ (taken = looked \/ kind = "skip")
      /\ taken' = looked /\ UNCHANGED <<kind, sent, input, looked, gathered>>
      /\ kind \in Kinds /\ sent \subseteq 0..63 /\ input \in Seq(Byte) /\ looked \in 0..10
  BY DEF FinishVarint, VarintInv, VarintTypeOK
<1>2. kind # "skip" => taken' = taken
  BY <1>1
<1>3. /\ Width' = Width /\ Whole' = Whole /\ Decoded' = Decoded /\ NumberSent' = NumberSent
      /\ InputRight'
  BY <1>1 DEF Width, Whole, Decoded, NumberSent, Signed, Magnitude, MinusOne, VarintInv, InputRight
<1>4. varintOutcome' \in {"done", "failed"}
  BY DEF FinishVarint
<1>5. VarintTypeOK'
  <2>1. taken' \in 0..looked'
    BY <1>1
  <2> QED
    BY <1>1, <1>3, <1>4, <2>1 DEF VarintInv, VarintTypeOK
<1>6. SearchRight'
  BY <1>1, <1>2, <1>3, <1>4 DEF VarintInv, SearchRight
<1>7. Accumulated' /\ SignKept'
  BY <1>1, <1>2, <1>3 DEF VarintInv, Accumulated, SignKept
<1>8. Accepted'
  BY <1>3 DEF FinishVarint, Accepted
<1>9. RefusedForAReason'
  <2> SUFFICES ASSUME varintOutcome' = "failed", Whole
               PROVE  \/ kind = "bool" /\ NumberSent \notin {Number(FALSE, {}), Number(FALSE, {0})}
                      \/ kind = "len" /\ NumberSent.negative
    BY <1>1, <1>3 DEF RefusedForAReason
  <2>1. \/ kind = "bool" /\ Decoded \notin {Number(FALSE, {}), Number(FALSE, {0})}
        \/ kind = "len" /\ Decoded.negative
    BY DEF FinishVarint
  <2>2. kind # "skip" /\ taken = Groups(sent)
    BY <1>1, <2>1 DEF VarintInv, SearchRight
  <2>3. IF kind \in {"int32", "bool", "len"} /\ NumberSent.negative
        THEN Decoded.negative ELSE Decoded = NumberSent
    BY <2>2, DecodedInFull
  <2>4. Number(FALSE, {}).negative = FALSE /\ Number(FALSE, {0}).negative = FALSE
    BY DEF Number
  <2> QED
    BY <2>1, <2>3, <2>4
<1> QED
  BY <1>1, <1>3, <1>5, <1>6, <1>7, <1>8, <1>9 DEF VarintInv

-----------------------------------------------------------------------------
\* What is decoded from a varint is the number that was written, unless that
\* is an int32 below zero, of which only the sign survives (Varint.lean:96-104);
\* every varint ends where the writer ended it, and nothing but a bad truth
\* value or length is refused, whatever follows and wherever the input is cut
\* off (Varint.lean:45-164).
THEOREM VarintsAreExact == VarintSpec => []VarintExact
<1>1. VarintInv => VarintExact
  <2> SUFFICES ASSUME VarintInv PROVE VarintExact
    OBVIOUS
  <2>1. VarintTypeOK /\ RefusedForAReason /\ Accumulated /\ Len(input) \in Nat
    BY DEF VarintInv, VarintTypeOK
  <2>2. ASSUME varintOutcome = "done"
        PROVE  /\ taken = IF Whole THEN Groups(sent) ELSE Len(input) + 1
               /\ kind # "skip" => taken <= Len(input)
    BY <2>2 DEF VarintInv, SearchRight
  <2>3. EndsWhereItEnds
    BY <2>1, <2>2 DEF EndsWhereItEnds
  <2>4. NumberReadRight
    <3> SUFFICES ASSUME varintOutcome = "done", kind # "skip"
                 PROVE  /\ Whole
                        /\ IF kind = "int32" /\ NumberSent.negative THEN Decoded.negative ELSE Decoded = NumberSent
      BY DEF NumberReadRight
    <3>1. Whole /\ taken = Groups(sent)
      BY <2>1, <2>2
    <3>2. IF kind \in {"int32", "bool", "len"} /\ NumberSent.negative
          THEN Decoded.negative ELSE Decoded = NumberSent
      BY <3>1, DecodedInFull
    <3>3. /\ kind = "bool" => ~Decoded.negative
          /\ kind = "len" => ~Decoded.negative
      <4>1. Number(FALSE, {}).negative = FALSE /\ Number(FALSE, {0}).negative = FALSE
        BY DEF Number
      <4> QED
        BY <4>1 DEF VarintInv, Accepted
    <3> QED
      BY <3>1, <3>2, <3>3
  <2> QED
    BY <2>1, <2>3, <2>4 DEF VarintExact
<1>2. VarintInv /\ [VarintNext]_varintVars => VarintInv'
  <2> SUFFICES ASSUME VarintInv, [VarintNext]_varintVars PROVE VarintInv'
    OBVIOUS
  <2>1. CASE Search
    BY <2>1, SearchKeeps
  <2>2. CASE NextByte
    BY <2>2, NextByteKeeps
  <2>3. CASE FinishVarint
    BY <2>3, FinishKeeps
  <2>4. CASE UNCHANGED varintVars
    <3>1. UNCHANGED <<kind, sent, input, looked, taken, gathered, varintOutcome>>
      BY <2>4 DEF varintVars
    <3>2. Width' = Width /\ Whole' = Whole
      BY <3>1 DEF Width, Whole
    <3>3. Decoded' = Decoded /\ NumberSent' = NumberSent
      BY <3>1, <3>2 DEF Decoded, NumberSent
    <3>4. VarintTypeOK' /\ sent' \in Sent[kind']
      BY <3>1, <3>2 DEF VarintInv, VarintTypeOK
    <3>5. InputRight' /\ SearchRight'
      BY <3>1, <3>2 DEF VarintInv, InputRight, SearchRight
    <3>6. Accumulated' /\ SignKept'
      BY <3>1, <3>2 DEF VarintInv, Accumulated, SignKept
    <3>7. Accepted' /\ RefusedForAReason'
      BY <3>1, <3>2, <3>3 DEF VarintInv, Accepted, RefusedForAReason
    <3> QED
      BY <3>4, <3>5, <3>6, <3>7 DEF VarintInv
  <2> QED
    BY <2>1, <2>2, <2>3, <2>4 DEF VarintNext
<1> QED
  BY <1>1, <1>2, VarintInitInv, PTL DEF VarintSpec
=============================================================================
