------------------------- MODULE FieldReadingProofs -------------------------
(***************************************************************************)
(* Proofs about FieldReading: what the parsers of a value read, for every  *)
(* text, and so what a field can be set by.                                *)
(***************************************************************************)
EXTENDS FieldReading, TextLemmas, FiniteSetTheorems

(***************************************************************************)
(* Where the parsers of the values stop                                    *)
(***************************************************************************)
\* The group in parentheses at the beginning of s ends in front of n.
OneGroup(s, n) ==
  /\ n \in 3 .. Len(s) + 1 /\ s[1] = "(" /\ s[n - 1] = ")"
  /\ \A k \in 1 .. n - 2 : s[k] # ")"

\* What a parser returns.
Returns(r) ==
  /\ r = [err |-> r.err, value |-> r.value, next |-> r.next]
  /\ r.err = "" => r.next \in Nat \ {0}

\* The first character of a set, or the end of the text.
LEMMA FirstInIs ==
  ASSUME NEW C, NEW s \in Seq(C), NEW S
  PROVE  /\ FirstIn(S, s) \in 1 .. Len(s) + 1
         /\ FirstIn(S, s) <= Len(s) => s[FirstIn(S, s)] \in S
         /\ \A j \in 1 .. FirstIn(S, s) - 1 : s[j] \notin S
<1> DEFINE stops == {k \in 1 .. Len(s) : s[k] \in S}
           Stop(k) == /\ k <= Len(s) => s[k] \in S
                      /\ \A j \in 1 .. k - 1 : s[j] \notin S
<1>1. \E k \in 1 .. Len(s) + 1 : Stop(k)
  <2>0. Len(s) + 1 \in Nat /\ 1 \in Nat /\ 1 <= Len(s) + 1
    OBVIOUS
  <2>1. PICK k \in 1 .. Len(s) + 1 : /\ k < Len(s) + 1 => k \in stops
                                     /\ \A j \in 1 .. k - 1 : j \notin stops
    <3> HIDE DEF stops
    <3>1. QED
      BY <2>0, ScanStops
  <2>2. QED
    BY <2>1
<1>2. QED
  BY <1>1 DEF FirstIn

\* A scan of NumParser, with the set of characters it stops at.
LEMMA FirstFromIs ==
  ASSUME NEW C, NEW s \in Seq(C), NEW i \in 1 .. Len(s) + 1, NEW S
  PROVE  \E k \in i .. Len(s) + 1 : /\ k <= Len(s) => s[k] \in S
                                    /\ \A j \in i .. k - 1 : ~(s[j] \in S)
<1> DEFINE stops == {k \in 1 .. Len(s) : s[k] \in S}
<1>0. Len(s) + 1 \in Nat /\ i \in Nat /\ i <= Len(s) + 1 /\ i >= 1
  OBVIOUS
<1>1. PICK k \in i .. Len(s) + 1 : /\ k < Len(s) + 1 => k \in stops
                                   /\ \A j \in i .. k - 1 : j \notin stops
  <2> HIDE DEF stops
  <2>1. QED
    BY <1>0, ScanStops
<1>2. QED
  BY <1>0, <1>1

\* A string is one group (StringParser::parse).
LEMMA StringIs ==
  ASSUME NEW C, NEW s \in Seq(C), NEW min, NEW max
  PROVE  LET r == ParseString(min, max, s)
         IN  Returns(r) /\ (r.err = "" => OneGroup(s, r.next))
<1> DEFINE k == FirstIn({")"}, s)
<1>1. k \in 1 .. Len(s) + 1 /\ (k <= Len(s) => s[k] = ")") /\ \A j \in 1 .. k - 1 : s[j] # ")"
  BY FirstInIs
<1>2. CASE s = <<>> \/ s[1] # "(" \/ k > Len(s) \/ k - 2 \notin min .. max
  BY <1>2 DEF ParseString, Refuse, Returns
<1>3. CASE ~(s = <<>> \/ s[1] # "(" \/ k > Len(s) \/ k - 2 \notin min .. max)
  <2>1. k # 1 /\ Len(s) \in Nat
    BY <1>1, <1>3
  <2> HIDE DEF k
  <2>2. OneGroup(s, k + 1)
    BY <1>1, <1>3, <2>1 DEF OneGroup
  <2>3. ParseString(min, max, s) = [err |-> "", value |-> SubSeq(s, 2, k - 1), next |-> k + 1]
    BY <1>3 DEF ParseString, Parsed, k
  <2> DEFINE r == ParseString(min, max, s)
  <2>a. r = [err |-> "", value |-> SubSeq(s, 2, k - 1), next |-> k + 1]
    BY <2>3
  <2> HIDE DEF r
  <2>4. r.err = "" /\ r.next = k + 1 /\ r.value = SubSeq(s, 2, k - 1)
    BY <2>a
  <2>5. r.next \in Nat \ {0} /\ OneGroup(s, r.next)
    <3>1. k + 1 \in Nat \ {0}
      BY <1>1, <2>1
    <3>2. QED
      BY <2>2, <2>4, <3>1
  <2>6. Returns(r) /\ (r.err = "" => OneGroup(s, r.next))
    BY <2>a, <2>4, <2>5 DEF Returns
  <2>7. QED
    BY <2>6 DEF r
<1>4. QED
  BY <1>2, <1>3

\* Where the parts of a number end: in this order, with no ")" in any of them.
LEMMA IntEndIs ==
  ASSUME NEW C, NEW s \in Seq(C), s # <<>>
  PROVE  IntEnd(s) \in 2 .. Len(s) + 1 /\ \A j \in 2 .. IntEnd(s) - 1 : s[j] # ")"
<1> DEFINE S == {"*", ".", ")"}
<1>1. 2 \in 1 .. Len(s) + 1
  OBVIOUS
<1>2. \E k \in 2 .. Len(s) + 1 : /\ k <= Len(s) => s[k] \in S
                                 /\ \A j \in 2 .. k - 1 : ~(s[j] \in S)
  <2> HIDE DEF S
  <2>1. QED
    BY <1>1, FirstFromIs
<1>3. /\ IntEnd(s) \in 2 .. Len(s) + 1
      /\ \A j \in 2 .. IntEnd(s) - 1 : ~(s[j] \in {"*", ".", ")"})
  BY <1>2 DEF IntEnd, FirstFrom
<1>4. QED
  BY <1>3

\* The decimals end behind the integer, before any ")".
LEMMA DecimalsEndIs ==
  ASSUME NEW C, NEW s \in Seq(C), NEW i \in 2 .. Len(s) + 1, NEW max_decimals
  PROVE  LET d == DecimalsEnd(max_decimals, s, i)
         IN  d \in i .. Len(s) + 1 /\ \A j \in i .. d - 1 : s[j] # ")"
<1>0. Len(s) \in Nat
  OBVIOUS
<1>1. CASE max_decimals > 0 /\ HasAt(s, i, ".")
  <2> DEFINE S == {c \in C : ~IsDigit(c)}
             d == DecimalsEnd(max_decimals, s, i)
  <2>1. i + 1 \in 1 .. Len(s) + 1 /\ s[i] = "."
    BY <1>0, <1>1 DEF HasAt
  <2>2. \E k \in i + 1 .. Len(s) + 1 : /\ k <= Len(s) => s[k] \in S
                                       /\ \A j \in i + 1 .. k - 1 : ~(s[j] \in S)
    <3> HIDE DEF S
    <3>1. QED
      BY <2>1, FirstFromIs
  <2>3. \E k \in i + 1 .. Len(s) + 1 : /\ k <= Len(s) => ~IsDigit(s[k])
                                       /\ \A j \in i + 1 .. k - 1 : ~~IsDigit(s[j])
    BY <1>0, <2>1, <2>2
  <2>4. d \in i + 1 .. Len(s) + 1 /\ \A j \in i + 1 .. d - 1 : IsDigit(s[j])
    BY <1>1, <2>3 DEF DecimalsEnd, FirstFrom
  <2>5. ~IsDigit(")")
    BY DEF IsDigit, HexDigit
  <2> HIDE DEF d
  <2>6. \A j \in i .. d - 1 : s[j] # ")"
    BY <1>0, <2>1, <2>4, <2>5
  <2>7. QED
    BY <1>0, <2>4, <2>6 DEF d
<1>2. CASE ~(max_decimals > 0 /\ HasAt(s, i, "."))
  <2>1. DecimalsEnd(max_decimals, s, i) = i
    BY <1>2, Zenon DEF DecimalsEnd
  <2>2. QED
    BY <1>0, <2>1
<1>3. QED
  BY <1>1, <1>2

\* The number ends behind its decimals, at the first ")" or before.
LEMMA NumEndIs ==
  ASSUME NEW C, NEW s \in Seq(C), NEW d \in 2 .. Len(s) + 1, NEW unit
  PROVE  LET e == NumEnd(unit, s, d)
         IN  e \in d .. Len(s) + 1 /\ \A j \in d .. e - 1 : s[j] # ")"
<1>0. Len(s) \in Nat
  OBVIOUS
<1>1. CASE unit = <<>>
  BY <1>0, <1>1 DEF NumEnd
<1>2. CASE unit # <<>>
  <2> DEFINE u == UnitStart(s, d)
             e == NumEnd(unit, s, d)
             S == {")"}
  <2>1. u \in 1 .. Len(s) + 1 /\ d <= u /\ \A j \in d .. u - 1 : s[j] # ")"
    BY <1>0 DEF UnitStart, HasAt
  <2>2. \E k \in u .. Len(s) + 1 : /\ k <= Len(s) => s[k] \in S
                                   /\ \A j \in u .. k - 1 : ~(s[j] \in S)
    <3> HIDE DEF S, u
    <3>1. QED
      BY <2>1, FirstFromIs
  <2>3. \E k \in u .. Len(s) + 1 : /\ k <= Len(s) => s[k] = ")"
                                   /\ \A j \in u .. k - 1 : ~(s[j] = ")")
    BY <2>2
  <2>4. e = FirstFrom(s, u, LAMBDA c : c = ")")
    BY <1>2 DEF NumEnd
  <2> HIDE DEF e, u
  <2>5. e \in u .. Len(s) + 1 /\ \A j \in u .. e - 1 : s[j] # ")"
    BY <2>3, <2>4 DEF FirstFrom
  <2>6. e \in d .. Len(s) + 1 /\ \A j \in d .. e - 1 : s[j] # ")"
    BY <1>0, <2>1, <2>5
  <2>7. QED
    BY <2>6 DEF e
<1>3. QED
  BY <1>1, <1>2

\* A number is one group, with or without decimals and unit (NumParser::parse).
LEMMA NumberIs ==
  ASSUME NEW C, NEW s \in Seq(C), NEW max_decimals, NEW unit
  PROVE  LET r == ParseNum(max_decimals, unit, s)
         IN  Returns(r) /\ (r.err = "" => OneGroup(s, r.next))
<1> DEFINE i == IntEnd(s)
           d == DecimalsEnd(max_decimals, s, i)
           e == NumEnd(unit, s, d)
           r == ParseNum(max_decimals, unit, s)
<1>0. Len(s) \in Nat
  OBVIOUS
<1>1. r = [err |-> r.err, value |-> r.value, next |-> r.next]
  BY DEF ParseNum, BehindInteger, BehindDecimals, Result, Fail, Succeed
<1>2. ASSUME r.err = "" PROVE r.next \in Nat \ {0} /\ OneGroup(s, r.next)
  <2>1. /\ HasAt(s, 1, "(") /\ HasAt(s, e, ")")
        /\ r.next = e + 1
    BY <1>2 DEF ParseNum, BehindInteger, BehindDecimals, Result, Fail, Succeed
  <2>2. s # <<>> /\ s[1] = "("
    BY <2>1 DEF HasAt
  <2>3. i \in 2 .. Len(s) + 1 /\ \A j \in 2 .. i - 1 : s[j] # ")"
    BY <2>2, IntEndIs
  <2> HIDE DEF i
  <2>4. d \in i .. Len(s) + 1 /\ \A j \in i .. d - 1 : s[j] # ")"
    BY <2>3, DecimalsEndIs
  <2> HIDE DEF d
  <2>5. e \in d .. Len(s) + 1 /\ \A j \in d .. e - 1 : s[j] # ")"
    <3>1. d \in 2 .. Len(s) + 1
      BY <1>0, <2>3, <2>4
    <3>2. QED
      BY <3>1, NumEndIs
  <2>6. e <= Len(s) /\ s[e] = ")"
    BY <2>1 DEF HasAt
  <2> HIDE DEF e, r
  <2>7. e \in Nat /\ 2 <= e /\ \A j \in 1 .. e - 1 : s[j] # ")"
    BY <1>0, <2>2, <2>3, <2>4, <2>5
  <2>8. QED
    BY <1>0, <2>1, <2>2, <2>6, <2>7 DEF OneGroup
<1>3. QED
  <2> HIDE DEF r
  <2>1. Returns(r) /\ (r.err = "" => OneGroup(s, r.next))
    BY <1>1, <1>2 DEF Returns
  <2>2. QED
    BY <2>1 DEF r

(***************************************************************************)
(* The decoders                                                            *)
(***************************************************************************)
\* The record of a field has its flag.
Flagged(field) == "present" \in DOMAIN field

\* What a decoder returns.
Decodes(r) ==
  /\ r = [err |-> r.err, next |-> r.next, field |-> r.field]
  /\ Flagged(r.field)
  /\ r.err = "" => r.next \in Nat \ {0}

\* Two groups, one right behind the other.
TwoGroups(s, n) ==
  \E m, k \in Nat : OneGroup(s, m) /\ OneGroup(From(s, m), k) /\ n = m - 1 + k

\* The rest of a text is a text.
LEMMA FromIs ==
  ASSUME NEW C, NEW s \in Seq(C), NEW m \in Nat \ {0}
  PROVE  From(s, m) \in Seq(C)
  BY DEF From

\* Two parsers, the second from where the first has stopped.
Continued(r, behind) ==
  IF r.err # "" THEN r ELSE [behind EXCEPT !.next = r.next - 1 + behind.next]

\* A position counted from another one.
LEMMA NextPosition == \A a, b \in Nat \ {0} : a - 1 + b \in Nat \ {0}
  OBVIOUS

\* The second parser returns where it stops in the whole text.
LEMMA ContinuedReturns ==
  ASSUME NEW r, NEW behind, r.err = "", r.next \in Nat \ {0}, Returns(behind)
  PROVE  /\ Returns(Continued(r, behind))
         /\ Continued(r, behind).err = behind.err
         /\ Continued(r, behind).next = r.next - 1 + behind.next
<1> DEFINE n == r.next - 1 + behind.next
           c == Continued(r, behind)
<1>1. c = [behind EXCEPT !.next = n]
  BY DEF Continued
<1>2. behind = [err |-> behind.err, value |-> behind.value, next |-> behind.next]
  BY DEF Returns
<1>3. behind.err = "" => n \in Nat \ {0}
  BY NextPosition DEF Returns
<1> HIDE DEF c, n
<1>4. c = [err |-> behind.err, value |-> behind.value, next |-> n]
  BY <1>1, <1>2
<1>5. c.err = behind.err /\ c.value = behind.value /\ c.next = n
  BY <1>4
<1>6. Returns(c)
  BY <1>3, <1>4, <1>5 DEF Returns
<1>7. QED
  BY <1>5, <1>6 DEF c, n

\* So does a decoder behind a parser.
LEMMA ContinuedDecodes ==
  ASSUME NEW r, NEW behind, r.err = "", r.next \in Nat \ {0}, Decodes(behind)
  PROVE  /\ Decodes(Continued(r, behind))
         /\ Continued(r, behind).err = behind.err
         /\ Continued(r, behind).next = r.next - 1 + behind.next
<1> DEFINE n == r.next - 1 + behind.next
           c == Continued(r, behind)
<1>1. c = [behind EXCEPT !.next = n]
  BY DEF Continued
<1>2. behind = [err |-> behind.err, next |-> behind.next, field |-> behind.field]
  BY DEF Decodes
<1>3. behind.err = "" => n \in Nat \ {0}
  BY NextPosition DEF Decodes
<1> HIDE DEF c, n
<1>4. c = [err |-> behind.err, next |-> n, field |-> behind.field]
  BY <1>1, <1>2
<1>5. c.err = behind.err /\ c.next = n /\ c.field = behind.field
  BY <1>4
<1>6. Decodes(c)
  <2>1. Flagged(c.field)
    BY <1>5 DEF Decodes
  <2>2. QED
    BY <1>3, <1>4, <1>5, <2>1 DEF Decodes
<1>7. QED
  BY <1>5, <1>6 DEF c, n

\* The result of a parser, stored or not.
LEMMA DecodedIs ==
  ASSUME NEW r, NEW field, Returns(r), Flagged(field)
  PROVE  /\ Decodes(Decoded(r, field))
         /\ Decoded(r, field).err = r.err /\ Decoded(r, field).next = r.next
  BY DEF Decoded, Decodes, Returns

\* A record that is written to keeps its flag.
LEMMA StillFlagged ==
  ASSUME NEW field, Flagged(field), NEW x
  PROVE  /\ Flagged([field EXCEPT !.string = x]) /\ Flagged([field EXCEPT !.number = x])
         /\ Flagged([field EXCEPT !.present = x]) /\ [field EXCEPT !.present = x].present = x
  BY DEF Flagged

\* A refusal is an error.
LEMMA RefuseIs ==
  ASSUME NEW err, err # ""
  PROVE  Returns(Refuse(err)) /\ Refuse(err).err # ""
  BY DEF Refuse, Returns

\* What a decoder does, if it reads one group.
ReadsGroup(r, s) == Decodes(r) /\ (r.err = "" => OneGroup(s, r.next))

\* A parser of one group makes a decoder of one group.
LEMMA GroupDecoded ==
  ASSUME NEW s, NEW r, NEW field, Flagged(field),
         Returns(r), r.err = "" => OneGroup(s, r.next)
  PROVE  ReadsGroup(Decoded(r, field), s)
<1>1. Decodes(Decoded(r, field)) /\ Decoded(r, field).err = r.err /\ Decoded(r, field).next = r.next
  BY DecodedIs
<1>2. QED
  BY <1>1 DEF ReadsGroup

\* A number is one group, stored or not (NumParser::parse).
LEMMA NumberStored ==
  ASSUME NEW C, NEW s \in Seq(C), NEW field, NEW max_decimals, NEW unit, Flagged(field)
  PROVE  ReadsGroup(StoreNumber(ParseNum(max_decimals, unit, s), field), s)
<1> DEFINE r == ParseNum(max_decimals, unit, s)
<1>1. Returns(r) /\ (r.err = "" => OneGroup(s, r.next))
  BY NumberIs
<1> HIDE DEF r
<1>2. \A g : Flagged(g) => ReadsGroup(Decoded(r, g), s)
  BY <1>1, GroupDecoded
<1>3. ReadsGroup(StoreNumber(r, field), s)
  BY <1>2, StillFlagged DEF StoreNumber
<1>4. QED
  BY <1>3 DEF r

\* So is a string.
LEMMA StringStored ==
  ASSUME NEW C, NEW s \in Seq(C), NEW field, NEW min, NEW max, Flagged(field)
  PROVE  ReadsGroup(string(field, min, max, s), s)
<1> DEFINE r == ParseString(min, max, s)
<1>1. Returns(r) /\ (r.err = "" => OneGroup(s, r.next))
  BY StringIs
<1> HIDE DEF r
<1>2. \A g : Flagged(g) => ReadsGroup(Decoded(r, g), s)
  BY <1>1, GroupDecoded
<1>3. ReadsGroup(StoreString(r, field), s)
  BY <1>2, StillFlagged DEF StoreString
<1>4. QED
  BY <1>3 DEF r, string

\* So is an integer, which may be narrowed (IntField::parse).
LEMMA IntIs ==
  ASSUME NEW C, NEW s \in Seq(C), NEW f, NEW field, Flagged(field)
  PROVE  ReadsGroup(ParseInt(f, field, s), s)
<1> DEFINE d == StoreNumber(ParseNum(0, f.unit, s), field)
           r == ParseInt(f, field, s)
<1>1. Decodes(d) /\ (d.err = "" => OneGroup(s, d.next))
  <2>1. ReadsGroup(d, s)
    BY NumberStored
  <2>2. QED
    BY <2>1 DEF ReadsGroup
<1>2. r = [d EXCEPT !.field.number = @ % f.range]
  BY DEF ParseInt, Narrow
<1> HIDE DEF d, r
<1>3. d = [err |-> d.err, next |-> d.next, field |-> d.field]
  BY <1>1 DEF Decodes
<1>4. PICK g : r = [err |-> d.err, next |-> d.next, field |-> g] /\ Flagged(g)
  <2> DEFINE h == [d.field EXCEPT !.number = d.field.number % f.range]
  <2>1. Flagged(h)
    BY <1>1, StillFlagged DEF Decodes
  <2>2. r = [d EXCEPT !.field = h]
    BY <1>2
  <2> HIDE DEF h
  <2>3. r = [err |-> d.err, next |-> d.next, field |-> h]
    BY <1>3, <2>2
  <2>4. QED
    BY <2>1, <2>3
<1>5. r.err = d.err /\ r.next = d.next /\ r.field = g
  BY <1>4
<1>6. Decodes(r) /\ (r.err = "" => OneGroup(s, r.next))
  BY <1>1, <1>4, <1>5 DEF Decodes
<1>7. QED
  BY <1>6 DEF r, ReadsGroup

\* So is a timestamp, in either format (ValueDecoder::timestamp).
LEMMA TimestampIs ==
  ASSUME NEW C, NEW s \in Seq(C), NEW field, Flagged(field)
  PROVE  ReadsGroup(timestamp(field, s), s)
<1> DEFINE regular == ParseString(12, 13, s)
           dlms    == ParseString(24, 24, s)
           none    == Refuse("Invalid DLMS date-time")
<1>1. /\ Returns(regular) /\ (regular.err = "" => OneGroup(s, regular.next))
      /\ Returns(dlms) /\ (dlms.err = "" => OneGroup(s, dlms.next))
  BY StringIs
<1>2. Returns(none) /\ none.err # ""
  BY RefuseIs
<1> HIDE DEF regular, dlms, none
<1>3. \A g : Flagged(g) =>
        /\ ReadsGroup(Decoded(regular, g), s) /\ ReadsGroup(Decoded(dlms, g), s)
        /\ ReadsGroup(Decoded(none, g), s)
  BY <1>1, <1>2, GroupDecoded
<1>4. QED
  BY <1>3, StillFlagged DEF timestamp, regular, dlms, none

\* Two parsers that read a group each read two.
LEMMA GroupBehind ==
  ASSUME NEW C, NEW s \in Seq(C), NEW m, OneGroup(s, m),
         NEW n, OneGroup(From(s, m), n)
  PROVE  TwoGroups(s, m - 1 + n)
<1>1. Len(s) \in Nat /\ m \in 3 .. Len(s) + 1
  BY DEF OneGroup
<1>2. From(s, m) \in Seq(C)
  BY <1>1, FromIs
<1>3. n \in Nat
  BY <1>2 DEF OneGroup
<1>4. m \in Nat
  BY <1>1
<1>5. QED
  BY <1>3, <1>4 DEF TwoGroups

\* So is the timestamp of a value, of 13 characters or of 12.
LEMMA ParseTimestampIs ==
  ASSUME NEW C, NEW s \in Seq(C)
  PROVE  LET r == ParseTimestamp(s)
         IN  Returns(r) /\ (r.err = "" => OneGroup(s, r.next))
<1> DEFINE Right(r) == Returns(r) /\ (r.err = "" => OneGroup(s, r.next))
<1>1. Right(ParseString(13, 13, s)) /\ Right(ParseString(12, 12, s))
  BY StringIs
<1> HIDE DEF Right
<1>2. Right(ParseTimestamp(s))
  BY <1>1 DEF ParseTimestamp, FirstRight
<1>3. QED
  BY <1>2 DEF Right

\* A timestamp and a number are two groups, in either order
\* (ValueDecoder::timestampedFixed).
LEMMA TimestampedFixedIs ==
  ASSUME NEW C, NEW s \in Seq(C), NEW field, NEW unit, Flagged(field)
  PROVE  LET r == timestampedFixed(field, unit, s)
         IN  Decodes(r) /\ (r.err = "" => TwoGroups(s, r.next))
<1> DEFINE ts == ParseTimestamp(s)
           value == fixed(field, unit, s)
           Right(r) == Decodes(r) /\ (r.err = "" => TwoGroups(s, r.next))
<1>1. Returns(ts) /\ (ts.err = "" => OneGroup(s, ts.next))
  BY ParseTimestampIs
<1>2. Decodes(value) /\ (value.err = "" => OneGroup(s, value.next))
  <2>1. ReadsGroup(value, s)
    BY NumberStored DEF fixed
  <2>2. QED
    BY <2>1 DEF ReadsGroup
<1> HIDE DEF ts, value
<1>3. ASSUME ts.err = "" PROVE Right(TimestampFirst(field, unit, s, ts))
  <2> DEFINE g == [field EXCEPT !.string = ts.value]
             t == From(s, ts.next)
             behind == fixed(g, unit, t)
             r == TimestampFirst(field, unit, s, ts)
  <2>1. ts.next \in Nat \ {0} /\ OneGroup(s, ts.next)
    BY <1>1, <1>3 DEF Returns
  <2>2. t \in Seq(C)
    BY <2>1, FromIs
  <2>3. ReadsGroup(behind, t)
    BY <2>2, StillFlagged, NumberStored DEF fixed
  <2>4. r = Continued(ts, behind)
    BY DEF TimestampFirst, Then, Continued
  <2> HIDE DEF behind, r
  <2>5. Decodes(r) /\ r.err = behind.err /\ r.next = ts.next - 1 + behind.next
    BY <1>3, <2>1, <2>3, <2>4, ContinuedDecodes DEF ReadsGroup
  <2>6. r.err = "" => TwoGroups(s, r.next)
    BY <2>1, <2>3, <2>5, GroupBehind DEF ReadsGroup
  <2>7. QED
    BY <2>5, <2>6 DEF r
<1>4. Right(ValueFirst(s, value))
  <2>1. CASE value.err # ""
    BY <1>2, <2>1 DEF ValueFirst
  <2>2. CASE value.err = ""
    <3> DEFINE t == From(s, value.next)
               behind == ParseTimestamp(t)
               c == Then(s, value, ParseTimestamp)
    <3>1. value.next \in Nat \ {0} /\ OneGroup(s, value.next)
      BY <1>2, <2>2 DEF Decodes
    <3>2. t \in Seq(C)
      BY <3>1, FromIs
    <3>3. Returns(behind) /\ (behind.err = "" => OneGroup(t, behind.next))
      BY <3>2, ParseTimestampIs
    <3>4. c = Continued(value, behind)
      BY DEF Then, Continued
    <3>a. ValueFirst(s, value) = StoreString(c, value.field)
      BY <2>2 DEF ValueFirst
    <3> HIDE DEF behind, c
    <3>5. Returns(c) /\ c.err = behind.err /\ c.next = value.next - 1 + behind.next
      BY <2>2, <3>1, <3>3, <3>4, ContinuedReturns
    <3>6. c.err = "" => TwoGroups(s, c.next)
      BY <3>1, <3>3, <3>5, GroupBehind
    <3>7. \A g : Flagged(g) => Right(Decoded(c, g))
      BY <3>5, <3>6, DecodedIs
    <3>8. Flagged(value.field)
      BY <1>2 DEF Decodes
    <3>9. QED
      <4> HIDE DEF Right
      <4>1. QED
        BY <3>a, <3>7, <3>8, StillFlagged DEF StoreString
  <2>3. QED
    BY <2>1, <2>2
<1>5. Right(timestampedFixed(field, unit, s))
  <2> HIDE DEF Right
  <2>1. QED
    BY <1>3, <1>4 DEF timestampedFixed, ts, value
<1>6. QED
  BY <1>5

(***************************************************************************)
(* The id at the beginning of a line                                       *)
(***************************************************************************)
\* The value of a digit is a number.
LEMMA DigitValue == \A c \in HexDigit : HexValue(c) \in Nat
<1> SUFFICES ASSUME NEW c \in HexDigit PROVE HexValue(c) \in Nat
  OBVIOUS
<1>1. \E i \in 1 .. 16 : c \in {UpperHex[i], LowerHex[i]}
  BY DEF HexDigit, UpperHex, LowerHex
<1> DEFINE k == CHOOSE i \in 1 .. 16 : c \in {UpperHex[i], LowerHex[i]}
<1>2. k \in 1 .. 16
  BY <1>1
<1>3. HexValue(c) = k - 1
  BY DEF HexValue
<1> HIDE DEF k
<1>4. QED
  BY <1>2, <1>3

\* What the loop of ObisIdParser::parse keeps.
IdState ==
  [v : [1 .. 6 -> 0 .. 255], part : 1 .. 6, next : Nat \ {0},
   err : {"", "Obis ID has number over 255"}, ended : BOOLEAN]

\* What a state of the loop has.
LEMMA StateHas ==
  ASSUME NEW st \in IdState
  PROVE  /\ st.v \in [1 .. 6 -> 0 .. 255] /\ st.part \in 1 .. 6 /\ st.next \in Nat \ {0}
         /\ st.next + 1 \in Nat \ {0}
         /\ st.part < 6 => st.part \in 1 .. 5 /\ st.part + 1 \in 1 .. 6
<1>1. st.v \in [1 .. 6 -> 0 .. 255] /\ st.part \in 1 .. 6 /\ st.next \in Nat \ {0}
  BY DEF IdState
<1>2. \A x \in Nat \ {0} : x + 1 \in Nat \ {0}
  OBVIOUS
<1>3. \A x \in 1 .. 6 : x < 6 => x \in 1 .. 5 /\ x + 1 \in 1 .. 6
  OBVIOUS
<1>4. QED
  BY <1>1, <1>2, <1>3

\* The loop begins in such a state.
LEMMA StartIs == Start \in IdState /\ Start.next = 1 /\ ~Start.ended
  BY DEF Start, IdState

\* It either ends where it is or has passed a character of the id.
LEMMA ReadStep ==
  ASSUME NEW st \in IdState, NEW c
  PROVE  /\ Read(st, c) \in IdState
         /\ \/ Read(st, c).ended /\ Read(st, c).next = st.next
            \/ /\ ~st.ended /\ c \in IdCharacter
               /\ Read(st, c).next = st.next + 1
<1>1. CASE st.ended
  BY <1>1 DEF Read
<1>2. CASE ~st.ended /\ IsDigit(c) /\ TooLarge(st.v[st.part], HexValue(c))
  BY <1>2 DEF Read, IdState
<1>3. CASE ~st.ended /\ IsDigit(c) /\ ~TooLarge(st.v[st.part], HexValue(c))
  <2>1. c \in HexDigit /\ HexValue(c) \in Nat /\ c \in IdCharacter
    BY <1>3, DigitValue DEF IsDigit, IdCharacter
  <2>2. st.part \in 1 .. 6 /\ st.v[st.part] \in 0 .. 255 /\ st.next + 1 \in Nat \ {0}
    BY StateHas
  <2> DEFINE n == (10 * st.v[st.part] + HexValue(c)) % 256
  <2>3. n \in 0 .. 255
    <3>1. \A x \in 0 .. 255, y \in Nat : (10 * x + y) % 256 \in 0 .. 255
      OBVIOUS
    <3>2. QED
      BY <2>1, <2>2, <3>1
  <2>4. Read(st, c) = [st EXCEPT !.v = [st.v EXCEPT ![st.part] = n], !.next = st.next + 1]
    BY <1>3 DEF Read
  <2> HIDE DEF n
  <2>5. [st.v EXCEPT ![st.part] = n] \in [1 .. 6 -> 0 .. 255]
    BY <2>2, <2>3 DEF IdState
  <2>6. Read(st, c) \in IdState /\ Read(st, c).next = st.next + 1
    BY <2>2, <2>4, <2>5 DEF IdState
  <2>7. QED
    BY <1>3, <2>1, <2>6
<1>4. CASE ~st.ended /\ ~IsDigit(c) /\ st.part < 6 /\ c = Separator[st.part]
  <2>1. st.part \in 1 .. 5 /\ st.part + 1 \in 1 .. 6 /\ st.next + 1 \in Nat \ {0}
    BY <1>4, StateHas
  <2>2. c \in IdCharacter
    BY <1>4, <2>1 DEF Separator, IdCharacter
  <2>3. Read(st, c) = [st EXCEPT !.part = st.part + 1, !.next = st.next + 1]
    BY <1>4 DEF Read
  <2>4. Read(st, c) \in IdState
    BY <2>1, <2>3 DEF IdState
  <2>5. Read(st, c).next = st.next + 1
    BY <2>3 DEF IdState
  <2>6. QED
    BY <1>4, <2>2, <2>4, <2>5
<1>5. CASE ~st.ended /\ ~IsDigit(c) /\ ~(st.part < 6 /\ c = Separator[st.part])
  BY <1>5 DEF Read, IdState
<1>6. QED
  BY <1>1, <1>2, <1>3, <1>4, <1>5

\* The states of the loop, one for every character.
LEMMA IdStates ==
  ASSUME NEW C, NEW s \in Seq(C)
  PROVE  \E f : /\ f[0] = Start /\ f[Len(s)] = FoldLeft(Read, Start, s)
                /\ \A k \in 1 .. Len(s) : f[k] = Read(f[k - 1], s[k])
<1> DEFINE step == [c \in C |-> [st \in IdState |-> Read(st, c)]]
           It(it) == it = [S \in SUBSET (DOMAIN s) |->
                             IF S = {} THEN Start ELSE Read(it[S \ {Max(S)}], s[Max(S)])]
<1>1. /\ step \in [C -> [IdState -> IdState]]
      /\ \A c \in C, st \in IdState : step[c][st] = Read(st, c)
  BY ReadStep
<1> HIDE DEF step
<1>2. PICK it : Folds(it, Start, s, step) /\ it \in [SUBSET (DOMAIN s) -> IdState]
  BY <1>1, StartIs, FoldExists
<1>3. It(it)
  <2>1. ASSUME NEW S \in SUBSET (DOMAIN s), S # {}
        PROVE  step[s[Max(S)]][it[S \ {Max(S)}]] = Read(it[S \ {Max(S)}], s[Max(S)])
    <3>1. Max(S) \in S
      <4>1. S \in SUBSET (1 .. Len(s)) /\ Len(s) \in Nat
        OBVIOUS
      <4>2. QED
        BY <2>1, <4>1, LastWithin
    <3>2. s[Max(S)] \in C /\ it[S \ {Max(S)}] \in IdState
      BY <1>2, <3>1
    <3>3. QED
      BY <1>1, <3>2
  <2>2. QED
    BY <1>2, <2>1 DEF Folds
<1> DEFINE ch == CHOOSE g : It(g)
<1>4. It(ch)
  BY <1>3
<1>5. FoldLeft(Read, Start, s) = ch[DOMAIN s]
  BY DEF FoldLeft, MapThenFoldSet
<1> DEFINE f == [k \in 0 .. Len(s) |-> ch[1 .. k]]
<1> HIDE DEF ch
<1>6. f[0] = Start /\ FoldLeft(Read, Start, s) = f[Len(s)]
  <2>1. {} \in SUBSET (DOMAIN s) /\ 1 .. 0 = {} /\ DOMAIN s = 1 .. Len(s) /\ Len(s) \in Nat
    OBVIOUS
  <2>2. ch[{}] = Start
    BY <1>4, <2>1
  <2>3. QED
    BY <1>5, <2>1, <2>2
<1>7. ASSUME NEW k \in 1 .. Len(s) PROVE f[k] = Read(f[k - 1], s[k])
  <2>0. DOMAIN s = 1 .. Len(s) /\ Len(s) \in Nat
    OBVIOUS
  <2> HIDE DEF f
  <2>a. k \in Nat \ {0} /\ k <= Len(s)
    BY <2>0
  <2>b. 1 .. k \subseteq 1 .. Len(s) /\ 1 \in 1 .. k
    BY <2>0, <2>a
  <2>1. 1 .. k \in SUBSET (DOMAIN s) /\ 1 .. k # {} /\ k \in Nat \ {0}
    BY <2>0, <2>a, <2>b
  <2>2. ch[1 .. k] = Read(ch[(1 .. k) \ {Max(1 .. k)}], s[Max(1 .. k)])
    BY <1>4, <2>1
  <2>3. ch[1 .. k] = Read(ch[1 .. k - 1], s[k])
    BY <2>1, <2>2, LastOf
  <2>4. f[k] = ch[1 .. k] /\ f[k - 1] = ch[1 .. k - 1]
    BY <2>0 DEF f
  <2>5. QED
    BY <2>3, <2>4
<1>8. QED
  <2> HIDE DEF f
  <2>1. QED
    BY <1>6, <1>7

\* The id ends in front of the first character that is none of it, or before
\* (ObisIdParser::parse).
LEMMA ObisIdIs ==
  ASSUME NEW C, NEW s \in Seq(C)
  PROVE  LET r == ParseObisId(s)
         IN  /\ Returns(r) /\ r.next \in 1 .. Len(s) + 1
             /\ \A j \in 1 .. r.next - 1 : s[j] \in IdCharacter
<1>0. Len(s) \in Nat
  OBVIOUS
<1>1. PICK f : /\ f[0] = Start /\ f[Len(s)] = FoldLeft(Read, Start, s)
               /\ \A k \in 1 .. Len(s) : f[k] = Read(f[k - 1], s[k])
  BY IdStates
<1> DEFINE Passed(k) == /\ f[k] \in IdState /\ f[k].next \in 1 .. k + 1
                        /\ ~f[k].ended => f[k].next = k + 1
                        /\ \A j \in 1 .. f[k].next - 1 : s[j] \in IdCharacter
           S == {k \in 0 .. Len(s) : Passed(k)}
<1>2. 0 \in S
  BY <1>0, <1>1, StartIs
<1>3. ASSUME NEW m \in 0 .. Len(s) - 1, m \in S PROVE m + 1 \in S
  <2>1. m + 1 \in 1 .. Len(s) /\ (m + 1) - 1 = m /\ m + 1 \in 0 .. Len(s) /\ m \in Nat
    BY <1>0
  <2>2. Passed(m) /\ f[m + 1] = Read(f[m], s[m + 1])
    BY <1>1, <1>3, <2>1
  <2>3. /\ f[m + 1] \in IdState
        /\ \/ f[m + 1].ended /\ f[m + 1].next = f[m].next
           \/ /\ ~f[m].ended /\ s[m + 1] \in IdCharacter
              /\ f[m + 1].next = f[m].next + 1
    BY <2>2, ReadStep
  <2>4. Passed(m + 1)
    BY <2>1, <2>2, <2>3
  <2>5. QED
    BY <2>1, <2>4
<1>4. Passed(Len(s))
  <2> HIDE DEF Passed
  <2>1. \A m \in 0 .. Len(s) - 1 : m \in S => m + 1 \in S
    BY <1>3
  <2> HIDE DEF S
  <2>2. 0 .. Len(s) \subseteq S
    BY <1>0, <1>2, <2>1, UpTo
  <2>3. QED
    BY <1>0, <2>2 DEF S
<1> DEFINE st == FoldLeft(Read, Start, s)
           r  == ParseObisId(s)
<1>5. /\ st \in IdState /\ st.next \in 1 .. Len(s) + 1
      /\ \A j \in 1 .. st.next - 1 : s[j] \in IdCharacter
  BY <1>1, <1>4
<1>6. PICK e, w : r = [err |-> e, value |-> w, next |-> st.next]
  BY DEF ParseObisId
<1> HIDE DEF r, st
<1>7. r.next = st.next /\ r.err = e /\ r.value = w
  BY <1>6
<1>8. Returns(r) /\ r.next \in 1 .. Len(s) + 1 /\ \A j \in 1 .. r.next - 1 : s[j] \in IdCharacter
  <2>1. r.next \in Nat \ {0}
    BY <1>5, <1>7, StateHas
  <2>2. Returns(r)
    BY <1>6, <1>7, <2>1 DEF Returns
  <2>3. QED
    BY <1>5, <1>7, <2>2
<1>9. QED
  BY <1>8 DEF r

(***************************************************************************)
(* The value that takes two lines                                          *)
(***************************************************************************)
\* A parser behind another one returns as one does.
LEMMA ThenReturns ==
  ASSUME NEW r, NEW behind, Returns(r), r.err = "" => Returns(behind)
  PROVE  Returns(Continued(r, behind))
<1>1. CASE r.err # ""
  BY <1>1 DEF Continued
<1>2. CASE r.err = ""
  BY <1>2, ContinuedReturns DEF Returns
<1>3. QED
  BY <1>1, <1>2

\* So does one that passes over the next character.
LEMMA SkipReturns ==
  ASSUME NEW r, Returns(r)
  PROVE  Returns([r EXCEPT !.next = @ + 1])
<1> DEFINE n == r.next + 1
           c == [r EXCEPT !.next = @ + 1]
<1>0. c = [r EXCEPT !.next = n] /\ r = [err |-> r.err, value |-> r.value, next |-> r.next]
  BY DEF Returns
<1>2. r.err = "" => n \in Nat \ {0}
  <2>1. \A x \in Nat \ {0} : x + 1 \in Nat \ {0}
    OBVIOUS
  <2>2. QED
    BY <2>1 DEF Returns
<1> HIDE DEF c, n
<1>1. c = [err |-> r.err, value |-> r.value, next |-> n]
  BY <1>0
<1>3. c.err = r.err /\ c.value = r.value /\ c.next = n
  BY <1>1
<1>4. Returns(c)
  BY <1>1, <1>2, <1>3 DEF Returns
<1>5. QED
  BY <1>4 DEF c

\* The parsers of the first line return, wherever they begin.
LEMMA BehindReturns ==
  ASSUME NEW C, NEW s \in Seq(C), NEW r, Returns(r), r.err = "", NEW min, NEW max, NEW unit
  PROVE  LET t == From(s, r.next)
         IN  Returns(ParseString(min, max, t)) /\ Returns(ParseNum(0, unit, t))
             /\ Returns(ParseObisId(t))
<1> DEFINE t == From(s, r.next)
<1>1. t \in Seq(C)
  BY FromIs DEF Returns
<1> HIDE DEF t
<1>2. Returns(ParseString(min, max, t)) /\ Returns(ParseNum(0, unit, t)) /\ Returns(ParseObisId(t))
  BY <1>1, StringIs, NumberIs, ObisIdIs
<1>3. QED
  BY <1>2 DEF t

\* The first line returns a position or an error.
LEMMA HeaderIs ==
  ASSUME NEW C, NEW s \in Seq(C), NEW ts, Returns(ts), NEW unit
  PROVE  Returns(BehindUnit(ts, unit, s))
<1> DEFINE Skip(r)  == [r EXCEPT !.next = @ + 1]
           flags    == Then(s, ts, LAMBDA t : ParseString(0, 2, t))
           interval == Then(s, flags, LAMBDA t : ParseNum(0, NoUnit, t))
           count    == Then(s, interval, LAMBDA t : ParseNum(0, NoUnit, t))
           id       == Then(s, Skip(count), ParseObisId)
           units    == Then(s, Skip(id), LAMBDA t : ParseString(Len(unit), Len(unit), t))
<1>1. Returns(flags)
  <2>1. flags = Continued(ts, ParseString(0, 2, From(s, ts.next)))
    BY DEF Then, Continued
  <2>2. QED
    BY <2>1, BehindReturns, ThenReturns
<1>2. Returns(interval)
  <2>1. interval = Continued(flags, ParseNum(0, NoUnit, From(s, flags.next)))
    BY DEF Then, Continued
  <2> HIDE DEF flags, interval
  <2>2. QED
    BY <1>1, <2>1, BehindReturns, ThenReturns
<1>3. Returns(count)
  <2>1. count = Continued(interval, ParseNum(0, NoUnit, From(s, interval.next)))
    BY DEF Then, Continued
  <2> HIDE DEF interval, count
  <2>2. QED
    BY <1>2, <2>1, BehindReturns, ThenReturns
<1>4. Returns(id)
  <2> DEFINE k == Skip(count)
  <2>1. id = Continued(k, ParseObisId(From(s, k.next)))
    BY DEF Then, Continued
  <2> HIDE DEF count
  <2>2. Returns(k)
    BY <1>3, SkipReturns
  <2> HIDE DEF k, id
  <2>3. QED
    BY <2>1, <2>2, BehindReturns, ThenReturns
<1>5. Returns(units)
  <2> DEFINE k == Skip(id)
  <2>1. units = Continued(k, ParseString(Len(unit), Len(unit), From(s, k.next)))
    BY DEF Then, Continued
  <2> HIDE DEF id
  <2>2. Returns(k)
    BY <1>4, SkipReturns
  <2> HIDE DEF k, units
  <2>3. QED
    BY <2>1, <2>2, BehindReturns, ThenReturns
<1>6. BehindUnit(ts, unit, s) = CheckUnit(units, unit)
  BY DEF BehindUnit
<1> HIDE DEF units
<1>7. QED
  BY <1>5, <1>6, RefuseIs DEF CheckUnit

\* The text of the second line is a rest of the text.
LEMMA NextLineIs ==
  ASSUME NEW C, NEW s \in Seq(C)
  PROVE  NextLine(s) \in Seq(C) /\ Len(NextLine(s)) \in Nat /\ Len(NextLine(s)) <= Len(s)
<1>1. ASSUME NEW c, NEW t \in Seq(C)
      PROVE  Without(c, t) \in Seq(C) /\ Len(Without(c, t)) <= Len(t)
  BY DEF Without
<1>2. Without("CR", s) \in Seq(C) /\ Len(Without("CR", s)) <= Len(s)
  BY <1>1
<1>3. NextLine(s) \in Seq(C) /\ Len(NextLine(s)) <= Len(Without("CR", s))
  BY <1>1, <1>2 DEF NextLine
<1>4. Len(s) \in Nat /\ Len(Without("CR", s)) \in Nat /\ Len(NextLine(s)) \in Nat
  BY <1>2, <1>3
<1>5. QED
  BY <1>2, <1>3, <1>4

\* The number on the second line is decoded, its position in the whole text.
LEMMA OnLineIs ==
  ASSUME NEW C, NEW field, Flagged(field), NEW all \in Seq(C), NEW rest_ \in Seq(C), Len(rest_) <= Len(all)
  PROVE  Decodes(OnLine(field, all, rest_))
<1> DEFINE t == SubSeq(rest_, 1, FirstIn({"CR", "LF"}, rest_) - 1)
           d == fixed(field, NoUnit, t)
           n == Len(all) - Len(rest_) + d.next
           r == OnLine(field, all, rest_)
<1>0. Len(rest_) \in Nat /\ Len(all) \in Nat
  OBVIOUS
<1>1. t \in Seq(C)
  BY FirstInIs
<1>2. Decodes(d)
  BY <1>1, NumberStored DEF fixed, ReadsGroup
<1>3. r = [d EXCEPT !.next = n]
  BY DEF OnLine
<1>4. d.err = "" => n \in Nat \ {0}
  <2>1. \A x, y \in Nat, k \in Nat \ {0} : y <= x => x - y + k \in Nat \ {0}
    OBVIOUS
  <2>2. QED
    BY <1>0, <1>2, <2>1 DEF Decodes
<1> HIDE DEF d, n, r
<1>5. r = [err |-> d.err, next |-> n, field |-> d.field]
  BY <1>2, <1>3 DEF Decodes
<1>6. r.err = d.err /\ r.next = n /\ r.field = d.field
  BY <1>5
<1>7. Flagged(r.field)
  BY <1>2, <1>6 DEF Decodes
<1>8. Decodes(r)
  BY <1>4, <1>5, <1>6, <1>7 DEF Decodes
<1>9. QED
  BY <1>8 DEF r

\* The value on two lines is decoded (doubleLineTimestampedFixed).
LEMMA DoubleIs ==
  ASSUME NEW C, NEW s \in Seq(C), NEW after \in Seq(C), NEW field, NEW unit,
         Flagged(field)
  PROVE  Decodes(doubleLineTimestampedFixed(field, unit, s, after))
<1> DEFINE ts == ParseString(12, 12, s)
           all == s \o after
           header == BehindUnit(ts, unit, s)
           behind == NextLine(From(all, header.next))
<1>1. Returns(ts)
  BY StringIs
<1>2. all \in Seq(C) /\ Len(all) \in Nat
  OBVIOUS
<1> HIDE DEF ts, all
<1>3. Returns(header)
  BY <1>1, HeaderIs
<1> HIDE DEF header
<1>4. ASSUME header.err = "", NEW g, Flagged(g) PROVE Decodes(OnLine(g, all, behind))
  <2>1. header.next \in Nat \ {0}
    BY <1>3, <1>4 DEF Returns
  <2>2. From(all, header.next) \in Seq(C) /\ Len(From(all, header.next)) <= Len(all)
    BY <1>2, <2>1 DEF From
  <2>3. behind \in Seq(C) /\ Len(behind) <= Len(all)
    <3>1. /\ behind \in Seq(C) /\ Len(behind) <= Len(From(all, header.next))
          /\ Len(behind) \in Nat /\ Len(From(all, header.next)) \in Nat
      BY <2>2, NextLineIs
    <3>2. QED
      BY <1>2, <2>2, <3>1
  <2>4. QED
    BY <1>2, <1>4, <2>3, OnLineIs
<1>5. \A g : Flagged(g) => Decodes(BehindHeader(g, all, header))
  BY <1>3, <1>4, DecodedIs DEF BehindHeader
<1>6. Decodes(BehindTimestamp(field, unit, s, after, ts))
  BY <1>1, <1>5, StillFlagged, DecodedIs DEF BehindTimestamp, header, all
<1>7. QED
  BY <1>6 DEF doubleLineTimestampedFixed, ts

(***************************************************************************)
(* The value of a field                                                    *)
(***************************************************************************)
\* What a field template accepts is one group, or two; raw values and those
\* on two lines aside (T::parse of fields3.h).
LEMMA FieldIs ==
  ASSUME NEW C, NEW s \in Seq(C), NEW after \in Seq(C), NEW field, Flagged(field), NEW f,
         f.type \in Template, ~IsSentinel(f, s)
  PROVE  LET r == ParseField(f, field, s, after)
         IN  /\ Decodes(r)
             /\ r.err = "" /\ f.type \notin {"RawField", DoubleType} =>
                  IF f.type \in StampedType THEN TwoGroups(s, r.next) ELSE OneGroup(s, r.next)
<1> DEFINE p == ParseField(f, field, s, after)
<1>1. CASE f.type = "RawField"
  <2>1. Returns(Parsed(s, Len(s) + 1))
    BY DEF Parsed, Returns
  <2>2. Decodes(raw(field, s))
    BY <2>1, StillFlagged, DecodedIs DEF raw
  <2>3. p = raw(field, s)
    BY <1>1 DEF ParseField, IntType, StampedType, DoubleType
  <2>4. QED
    BY <1>1, <2>2, <2>3
<1>2. CASE f.type = "StringField"
  <2>1. p = string(field, f.min, f.max, s)
    BY <1>2 DEF ParseField, IntType, StampedType, DoubleType
  <2>2. QED
    BY <1>2, <2>1, StringStored DEF ReadsGroup, StampedType
<1>3. CASE f.type = "TimestampField"
  <2>1. p = timestamp(field, s)
    BY <1>3 DEF ParseField, IntType, StampedType, DoubleType
  <2>2. QED
    BY <1>3, <2>1, TimestampIs DEF ReadsGroup, StampedType
<1>4. CASE f.type = "FixedField"
  <2>1. p = fixed(field, f.unit, s)
    BY <1>4 DEF ParseField, IntType, StampedType, DoubleType
  <2>2. QED
    BY <1>4, <2>1, NumberStored DEF fixed, ReadsGroup, StampedType
<1>5. CASE f.type \in IntType
  <2>1. p = ParseInt(f, field, s)
    BY <1>5 DEF ParseField, IntType, StampedType, DoubleType
  <2>2. QED
    BY <1>5, <2>1, IntIs DEF ReadsGroup, StampedType, IntType
<1>6. CASE f.type \in StampedType
  <2>1. p = timestampedFixed(field, f.unit, s)
    BY <1>6 DEF ParseField, IntType, StampedType, DoubleType
  <2>2. QED
    BY <1>6, <2>1, TimestampedFixedIs
<1>7. CASE f.type = DoubleType
  <2>1. p = doubleLineTimestampedFixed(field, f.unit, s, after)
    BY <1>7 DEF ParseField, IntType, StampedType, DoubleType
  <2>2. QED
    BY <1>7, <2>1, DoubleIs
<1>8. QED
  BY <1>1, <1>2, <1>3, <1>4, <1>5, <1>6, <1>7 DEF Template

\* The groups a text consists of.
LEMMA OneIsWhole ==
  ASSUME NEW C, NEW s \in Seq(C), OneGroup(s, Len(s) + 1)
  PROVE  IsGroups(s, 1)
<1>1. Len(s) \in Nat /\ Len(s) >= 2 /\ s[1] = "(" /\ s[Len(s)] = ")"
  BY DEF OneGroup
<1>2. \A k \in 1 .. Len(s) - 1 : s[k] # ")"
  BY <1>1 DEF OneGroup
<1>3. {k \in DOMAIN s : s[k] = ")"} = {Len(s)}
  BY <1>1, <1>2
<1>4. Cardinality({k \in DOMAIN s : s[k] = ")"}) = 1
  BY <1>3, FS_Singleton
<1>5. QED
  BY <1>1, <1>3, <1>4 DEF IsGroups

\* The same for two.
LEMMA TwoAreWhole ==
  ASSUME NEW C, NEW s \in Seq(C), TwoGroups(s, Len(s) + 1)
  PROVE  IsGroups(s, 2)
<1>1. PICK m \in Nat, k \in Nat :
        OneGroup(s, m) /\ OneGroup(From(s, m), k) /\ Len(s) + 1 = m - 1 + k
  BY DEF TwoGroups
<1> DEFINE t == From(s, m)
<1>2. /\ Len(s) \in Nat /\ m \in 3 .. Len(s) + 1 /\ s[1] = "(" /\ s[m - 1] = ")"
      /\ \A j \in 1 .. m - 2 : s[j] # ")"
  BY <1>1 DEF OneGroup
<1>3. t \in Seq(C) /\ Len(t) = Len(s) - m + 1 /\ \A j \in 1 .. Len(t) : t[j] = s[m + j - 1]
  BY <1>2 DEF From
<1> HIDE DEF t
<1>4. k = Len(t) + 1 /\ Len(t) >= 2 /\ t[1] = "(" /\ t[k - 1] = ")"
      /\ \A j \in 1 .. k - 2 : t[j] # ")"
  <2>1. OneGroup(t, k) /\ k = Len(t) + 1
    BY <1>1, <1>2, <1>3 DEF t
  <2>2. QED
    BY <2>1 DEF OneGroup
<1>5. s[m] = "(" /\ s[Len(s)] = ")"
  <2>1. t[1] = s[m] /\ t[Len(t)] = s[Len(s)]
    <3>1. 1 \in 1 .. Len(t) /\ Len(t) \in 1 .. Len(t) /\ m + 1 - 1 = m /\ m + Len(t) - 1 = Len(s)
      BY <1>2, <1>3, <1>4
    <3>2. t[1] = s[m + 1 - 1] /\ t[Len(t)] = s[m + Len(t) - 1]
      BY <1>3, <3>1
    <3>3. QED
      BY <3>1, <3>2
  <2>2. QED
    BY <1>3, <1>4, <2>1
<1>6. \A j \in m .. Len(s) - 1 : s[j] # ")"
  <2>1. ASSUME NEW j \in m .. Len(s) - 1 PROVE s[j] # ")"
    <3>1. j - m + 1 \in 1 .. k - 2 /\ j - m + 1 \in 1 .. Len(t) /\ m + (j - m + 1) - 1 = j
      BY <1>2, <1>3, <1>4
    <3>2. QED
      BY <1>3, <1>4, <3>1
  <2>2. QED
    BY <2>1
<1>7. m - 1 < Len(s) /\ m - 1 \in Nat
  BY <1>2, <1>3, <1>4
<1>8. {j \in DOMAIN s : s[j] = ")"} = {m - 1} \cup {Len(s)}
  <2>1. ASSUME NEW j \in 1 .. Len(s) PROVE s[j] = ")" <=> j \in {m - 1, Len(s)}
    <3>1. j \in 1 .. m - 2 \/ j = m - 1 \/ j \in m .. Len(s) - 1 \/ j = Len(s)
      BY <1>2
    <3>2. QED
      BY <1>2, <1>5, <1>6, <3>1
  <2>2. m - 1 \in 1 .. Len(s) /\ Len(s) \in 1 .. Len(s) /\ DOMAIN s = 1 .. Len(s)
    BY <1>2, <1>7
  <2>3. QED
    BY <2>1, <2>2
<1>9. Cardinality({j \in DOMAIN s : s[j] = ")"}) = 2
  <2>1. IsFiniteSet({m - 1}) /\ Cardinality({m - 1}) = 1
    BY FS_Singleton
  <2>2. Len(s) \notin {m - 1}
    BY <1>7
  <2>3. Cardinality({m - 1} \cup {Len(s)}) = 2
    <3>1. Cardinality({m - 1} \cup {Len(s)}) = Cardinality({m - 1}) + 1
      BY <2>1, <2>2, FS_AddElement
    <3>2. Cardinality({m - 1}) + 1 = 2
      BY <2>1
    <3>3. QED
      BY <3>1, <3>2
  <2>4. QED
    BY <1>8, <2>3
<1>10. \A j \in DOMAIN s : s[j] = ")" => j = Len(s) \/ s[j + 1] = "("
  <2>1. m - 1 + 1 = m
    BY <1>2
  <2>2. QED
    BY <1>5, <1>8, <2>1
<1>11. QED
  BY <1>2, <1>5, <1>9, <1>10 DEF IsGroups

(***************************************************************************)
(* A line                                                                  *)
(***************************************************************************)
Names == {Fields[i].name : i \in DOMAIN Fields}

Fielded(d) == d = [name \in Names |-> d[name]] /\ \A name \in Names : Flagged(d[name])

\* What is set stays as it is, what becomes set is the whole of s.
SetByWhole(d, s) ==
  /\ Fielded(d)
  /\ \A f \in FieldSet : /\ data[f.name].present => d[f.name] = data[f.name]
                         /\ ~data[f.name].present /\ d[f.name].present => IsWhole(f, s)

\* The fields of a sketch, by name.
LEMMA FieldsAre ==
  /\ DOMAIN Fields \subseteq Nat
  /\ \A f, g \in FieldSet : f.name = g.name => f = g
  /\ \A f \in FieldSet : f.type \in Template /\ f.name \in Names
<1>1. DOMAIN Fields = 1 .. Len(Fields) /\ Len(Fields) \in Nat
  BY FieldsAssumption
<1>2. DOMAIN Fields \subseteq Nat
  BY <1>1
<1>3. QED
  BY <1>2, FieldsAssumption DEF FieldSet, Names

\* The field that takes a line is one of the sketch.
LEMMA FirstOfIs ==
  ASSUME NEW indices \in SUBSET (DOMAIN Fields), indices # {}
  PROVE  FirstOf(indices) \in FieldSet
<1>1. indices \in SUBSET Nat
  BY FieldsAre
<1>2. \E m \in indices : \A k \in indices : m <= k
  BY <1>1, LeastOf
<1>3. QED
  BY <1>2 DEF FirstOf, FieldSet

\* The record of one field is replaced.
LEMMA StoredIs ==
  ASSUME Fielded(data), NEW f \in FieldSet, NEW v, Flagged(v)
  PROVE  /\ Fielded([data EXCEPT ![f.name] = v])
         /\ \A g \in FieldSet :
              [data EXCEPT ![f.name] = v][g.name] = IF g = f THEN v ELSE data[g.name]
<1> DEFINE d == [data EXCEPT ![f.name] = v]
<1>1. \A g \in FieldSet : g.name \in Names /\ (g.name = f.name <=> g = f)
  BY FieldsAre
<1>2. d = [name \in Names |-> IF name = f.name THEN v ELSE data[name]]
  BY <1>1 DEF Fielded
<1> HIDE DEF d
<1>3. \A name \in Names : d[name] = IF name = f.name THEN v ELSE data[name]
  BY <1>2
<1>4. d = [name \in Names |-> d[name]]
  BY <1>2
<1>5. Fielded(d)
  BY <1>3, <1>4 DEF Fielded
<1>6. QED
  BY <1>1, <1>3, <1>5 DEF d

\* A line that stores nothing sets nothing.
LEMMA NothingIsSet ==
  ASSUME Fielded(data), NEW s
  PROVE  SetByWhole(data, s)
  BY DEF SetByWhole

\* The result for a line that sets nothing but by the whole of s.
Proper(r, s) ==
  /\ r = Outcome(r.err, r.next, r.data)
  /\ r.err = "" => r.next \in Nat \ {0}
  /\ SetByWhole(r.data, s)

\* A result put together.
LEMMA OutcomeIs ==
  ASSUME NEW s, NEW err, NEW next, NEW d, err = "" => next \in Nat \ {0}, SetByWhole(d, s)
  PROVE  Proper(Outcome(err, next, d), s)
<1> DEFINE r == Outcome(err, next, d)
<1>1. r = [err |-> err, next |-> next, data |-> d]
  BY DEF Outcome
<1> HIDE DEF r
<1>2. r.err = err /\ r.next = next /\ r.data = d
  BY <1>1
<1>3. Proper(r, s)
  BY <1>1, <1>2 DEF Proper, Outcome
<1>4. QED
  BY <1>3 DEF r

\* The check behind a value (P1Parser::parse_line).
LEMMA CheckWholeIs ==
  ASSUME NEW err, NEW next, NEW d, NEW id, NEW s
  PROVE  CheckWhole(Outcome(err, next, d), id, s) =
           IF err = "" /\ next # 1 /\ next <= Len(s)
           THEN Outcome("Trailing characters on data line", 0, ClearPresent(d, id))
           ELSE Outcome(err, next, d)
  BY DEF CheckWhole, Outcome

\* A value is stored only if it is the whole of the text
\* (P1Parser::parse_line, behind the id).
LEMMA DispatchIs ==
  ASSUME Fielded(data), NEW C, NEW s \in Seq(C), NEW after \in Seq(C), NEW id
  PROVE  Proper(CheckWhole(Dispatch(id, s, after), id, s), s)
<1> DEFINE out == Dispatch(id, s, after)
           res == CheckWhole(out, id, s)
<1>0. Len(s) \in Nat
  OBVIOUS
<1>1. ASSUME FieldsOf(id) = {} PROVE Proper(res, s)
  <2>1. out = Outcome("", 1, data)
    BY <1>1 DEF Dispatch
  <2>2. res = Outcome("", 1, data)
    BY <2>1, CheckWholeIs
  <2>3. QED
    <3>1. SetByWhole(data, s)
      BY NothingIsSet
    <3>2. 1 \in Nat \ {0}
      OBVIOUS
    <3>3. Proper(Outcome("", 1, data), s)
      BY <3>1, <3>2, OutcomeIs
    <3> HIDE DEF res
    <3>4. QED
      BY <2>2, <3>3
<1>2. ASSUME FieldsOf(id) # {} PROVE Proper(res, s)
  <2> DEFINE f     == FirstOf(FieldsOf(id))
             field == [data[f.name] EXCEPT !.present = TRUE]
             p     == ParseField(f, field, s, after)
             d     == [data EXCEPT ![f.name] = Mark(p)]
  <2>1. f \in FieldSet
    BY <1>2, FirstOfIs DEF FieldsOf
  <2>2. f.name \in Names /\ Flagged(data[f.name])
    BY <2>1, FieldsAre DEF Fielded
  <2>3. Flagged(field)
    BY <2>2, StillFlagged
  <2>c. CASE data[f.name].present
    <3>1. out = Outcome("Duplicate field", 0, data)
      BY <1>2, <2>c DEF Dispatch, Offer
    <3>2. res = Outcome("Duplicate field", 0, data)
      BY <3>1, CheckWholeIs
    <3>3. SetByWhole(data, s)
      BY NothingIsSet
    <3> HIDE DEF res
    <3>4. QED
      BY <3>2, <3>3, OutcomeIs
  <2>d. SUFFICES ASSUME ~data[f.name].present PROVE Proper(res, s)
    BY <2>c
  <2>4. out = Outcome(p.err, p.next, d)
    BY <1>2, <2>d DEF Dispatch, Offer, Store
  <2> HIDE DEF field
  <2>5. /\ Decodes(p)
        /\ p.err = "" /\ p.field.present /\ f.type \notin {"RawField", DoubleType} =>
             IF f.type \in StampedType THEN TwoGroups(s, p.next) ELSE OneGroup(s, p.next)
    <3>1. CASE IsSentinel(f, s)
      <4> DEFINE g == [field EXCEPT !.present = FALSE]
      <4>1. p = Decoded(Parsed(<<>>, Len(s) + 1), g)
        BY <3>1 DEF ParseField, Absent
      <4>2. Flagged(g) /\ g.present = FALSE
        BY <2>3, StillFlagged
      <4>3. Len(s) + 1 \in Nat \ {0}
        BY <1>0
      <4> HIDE DEF g, p
      <4>4. QED
        BY <4>1, <4>2, <4>3 DEF Decoded, Parsed, Decodes
    <3>2. CASE ~IsSentinel(f, s)
      <4>1. f.type \in Template
        BY <2>1, FieldsAre
      <4>2. QED
        BY <2>3, <3>2, <4>1, FieldIs
    <3>3. QED
      BY <3>1, <3>2
  <2> HIDE DEF p, f
  <2>b. res = IF p.err = "" /\ p.next # 1 /\ p.next <= Len(s)
              THEN Outcome("Trailing characters on data line", 0, ClearPresent(d, id))
              ELSE Outcome(p.err, p.next, d)
    <3> HIDE DEF d, out
    <3>1. QED
      BY <2>4, CheckWholeIs
  <2> HIDE DEF out, res
  <2>6. ASSUME NEW v, Flagged(v), v.present => IsWhole(f, s)
        PROVE  SetByWhole([data EXCEPT ![f.name] = v], s)
    <3> DEFINE e == [data EXCEPT ![f.name] = v]
    <3>1. /\ Fielded(e)
          /\ \A g \in FieldSet : e[g.name] = IF g = f THEN v ELSE data[g.name]
      BY <2>1, <2>6, StoredIs
    <3> HIDE DEF e
    <3>2. SetByWhole(e, s)
      BY <2>6, <2>d, <3>1 DEF SetByWhole
    <3>3. QED
      BY <3>2 DEF e
  <2>7. Flagged(Mark(p))
    BY <2>5, StillFlagged DEF Mark, Decodes
  <2>8. CASE p.err # ""
    <3>1. res = Outcome(p.err, p.next, d)
      BY <2>b, <2>8
    <3>2. Mark(p).present = FALSE
      BY <2>5, <2>8, StillFlagged DEF Mark, Decodes
    <3>3. SetByWhole(d, s)
      BY <2>6, <2>7, <3>2
    <3>4. QED
      BY <2>8, <3>1, <3>3, OutcomeIs
  <2>9. CASE p.err = "" /\ p.next # 1 /\ p.next <= Len(s)
    <3> DEFINE e == [d EXCEPT ![f.name].present = FALSE]
               v == [Mark(p) EXCEPT !.present = FALSE]
    <3>1. res = Outcome("Trailing characters on data line", 0, ClearPresent(d, id))
      BY <2>b, <2>9
    <3>2. ClearPresent(d, id) = e
      BY <1>2 DEF ClearPresent, f
    <3>3. e = [data EXCEPT ![f.name] = v]
      <4>1. f.name \in DOMAIN data
        BY <2>2 DEF Fielded
      <4> HIDE DEF f
      <4>2. QED
        BY <4>1
    <3>4. v.present = FALSE /\ Flagged(v)
      BY <2>7, StillFlagged
    <3>5. SetByWhole(e, s)
      <4> HIDE DEF v, e
      <4>1. QED
        BY <2>6, <3>3, <3>4
    <3>6. QED
      <4> HIDE DEF e
      <4>1. Proper(Outcome("Trailing characters on data line", 0, e), s)
        BY <3>5, OutcomeIs
      <4>2. QED
        BY <3>1, <3>2, <4>1
  <2>10. CASE p.err = "" /\ (p.next = 1 \/ ~(p.next <= Len(s)))
    <3>0. /\ p.next \in Nat \ {0}
          /\ p.next <= Len(s) + 1 => p.next = 1 \/ p.next = Len(s) + 1
      <4>1. p.next \in Nat \ {0}
        BY <2>5, <2>10 DEF Decodes
      <4>2. \A x, n \in Nat : ~(x <= n) /\ x <= n + 1 => x = n + 1
        OBVIOUS
      <4>3. p.next \in Nat
        BY <4>1
      <4>4. QED
        BY <1>0, <2>10, <4>1, <4>2, <4>3
    <3>1. res = Outcome(p.err, p.next, d)
      BY <2>b, <2>10
    <3>2. Mark(p) = p.field
      BY <2>10 DEF Mark
    <3>3. p.field.present => IsWhole(f, s)
      <4>1. ASSUME p.field.present, f.type \notin {"RawField", DoubleType}, f.type \in StampedType
            PROVE  IsGroups(s, 2)
        <5>1. TwoGroups(s, p.next)
          BY <2>5, <2>10, <4>1
        <5>2. p.next = Len(s) + 1
          <6>1. PICK m \in Nat, k \in Nat :
                  OneGroup(s, m) /\ OneGroup(From(s, m), k) /\ p.next = m - 1 + k
            BY <5>1 DEF TwoGroups
          <6>2. m \in 3 .. Len(s) + 1 /\ k \in 3 .. Len(From(s, m)) + 1
            BY <6>1 DEF OneGroup
          <6>3. Len(From(s, m)) = Len(s) - m + 1
            BY <6>2 DEF From
          <6>4. QED
            <7>1. p.next \in 5 .. Len(s) + 1
              BY <1>0, <6>1, <6>2, <6>3
            <7>2. QED
              BY <3>0, <7>1
        <5>3. QED
          BY <5>1, <5>2, TwoAreWhole
      <4>2. ASSUME p.field.present, f.type \notin {"RawField", DoubleType}, f.type \notin StampedType
            PROVE  IsGroups(s, 1)
        <5>1. OneGroup(s, p.next)
          BY <2>5, <2>10, <4>2
        <5>2. p.next = Len(s) + 1
          <6>1. p.next \in 3 .. Len(s) + 1
            BY <5>1 DEF OneGroup
          <6>2. QED
            BY <1>0, <3>0, <6>1
        <5>3. QED
          BY <5>1, <5>2, OneIsWhole
      <4>3. QED
        BY <4>1, <4>2 DEF IsWhole
    <3>4. SetByWhole(d, s)
      BY <2>6, <2>7, <3>2, <3>3
    <3>5. QED
      <4> HIDE DEF d
      <4>1. Proper(Outcome(p.err, p.next, d), s)
        BY <3>0, <3>4, OutcomeIs
      <4>2. QED
        BY <3>1, <4>1
  <2>11. QED
    BY <2>8, <2>9, <2>10
<1>3. Proper(res, s)
  BY <1>1, <1>2
<1>4. QED
  BY <1>3

\* The head of a line is its id if what follows can be told from it.
LEMMA HeadIs ==
  ASSUME NEW C, NEW head \in Seq(IdCharacter), NEW s \in Seq(C), s # <<>> => s[1] \notin IdCharacter,
         NEW n \in 1 .. Len(head \o s) + 1, \A j \in 1 .. n - 1 : (head \o s)[j] \in IdCharacter,
         From(head \o s, n) # <<>>, From(head \o s, n)[1] = "("
  PROVE  From(head \o s, n) = s
<1> DEFINE line == head \o s
<1>0. /\ line \in Seq(C \cup IdCharacter) /\ Len(line) = Len(head) + Len(s)
      /\ Len(head) \in Nat /\ Len(s) \in Nat
      /\ \A j \in 1 .. Len(head) : line[j] = head[j]
      /\ \A j \in 1 .. Len(s) : line[Len(head) + j] = s[j]
  <2>1. head \in Seq(C \cup IdCharacter) /\ s \in Seq(C \cup IdCharacter)
    OBVIOUS
  <2>2. QED
    BY <2>1
<1> HIDE DEF line
<1>1. n <= Len(line) /\ line[n] = "("
  <2>1. n \in 1 .. Len(line) + 1 /\ From(line, n) # <<>> /\ From(line, n)[1] = "("
    BY DEF line
  <2>2. From(line, n) = SubSeq(line, n, Len(line))
    BY DEF From
  <2>3. QED
    BY <1>0, <2>1, <2>2
<1>2. "(" \notin IdCharacter
  BY DEF IdCharacter, HexDigit
<1>3. n > Len(head)
  BY <1>0, <1>1, <1>2
<1>4. n <= Len(head) + 1
  <2>1. SUFFICES ASSUME n > Len(head) + 1 PROVE FALSE
    BY <1>0
  <2>2. Len(head) + 1 \in 1 .. n - 1 /\ 1 \in 1 .. Len(s)
    BY <1>0, <1>1, <2>1
  <2>3. line[Len(head) + 1] = s[1] /\ line[Len(head) + 1] \in IdCharacter
    BY <1>0, <2>2 DEF line
  <2>4. QED
    BY <2>2, <2>3
<1>5. n = Len(head) + 1
  BY <1>0, <1>3, <1>4
<1>6. From(line, Len(head) + 1) = s
  <2> DEFINE t == SubSeq(line, Len(head) + 1, Len(line))
  <2>1. /\ t \in Seq(C \cup IdCharacter) /\ Len(t) = Len(s)
        /\ \A j \in 1 .. Len(s) : t[j] = line[Len(head) + j]
    BY <1>0
  <2> HIDE DEF t
  <2>2. t = [j \in 1 .. Len(s) |-> t[j]] /\ s = [j \in 1 .. Len(s) |-> s[j]]
    BY <2>1
  <2>3. \A j \in 1 .. Len(s) : t[j] = s[j]
    BY <1>0, <2>1
  <2>4. t = s
    BY <2>2, <2>3
  <2>5. QED
    BY <2>4 DEF From, t
<1>7. QED
  BY <1>5, <1>6 DEF line

\* A line sets nothing but by all that is behind its id, and it is passed
\* with its end (P1Parser::parse_line).
LEMMA LineIs ==
  ASSUME Fielded(data), NEW C, NEW line \in Seq(C), NEW after \in Seq(C)
  PROVE  LET id  == ParseObisId(line)
             res == ParseLine(line, after)
         IN  /\ id.next \in 1 .. Len(line) + 1
             /\ \A j \in 1 .. id.next - 1 : line[j] \in IdCharacter
             /\ SetByWhole(res.data, From(line, id.next))
             /\ res.err = "" => res.next \in Nat /\ res.next >= Len(line) + 2
<1> DEFINE id   == ParseObisId(line)
           t    == From(line, id.next)
           out  == CheckWhole(Dispatch(id.value, t, after), id.value, t)
           res  == ParseLine(line, after)
<1>1. Len(line) \in Nat
  OBVIOUS
<1>2. /\ id.next \in 1 .. Len(line) + 1
      /\ \A j \in 1 .. id.next - 1 : line[j] \in IdCharacter
  BY ObisIdIs
<1>3. res = IF id.err # "" THEN Outcome(id.err, 0, data) ELSE Advance(line, id.next, out)
  BY DEF ParseLine, ParseId, BehindId
<1>4. Proper(out, t)
  <2>1. t \in Seq(C)
    BY <1>1, <1>2 DEF From
  <2> HIDE DEF t, id
  <2>2. QED
    BY <2>1, DispatchIs
<1> HIDE DEF out, t, id, res
<1>6. CASE id.err # ""
  <2>1. res.data = data /\ res.err # ""
    BY <1>3, <1>6 DEF Outcome
  <2>2. QED
    BY <1>2, <2>1, NothingIsSet DEF res, t, id
<1>7. CASE id.err = ""
  <2> DEFINE next == IF out.next = 1 THEN Len(line) + 1 ELSE id.next - 1 + out.next
             n    == IF next > Len(line) + 1 THEN next ELSE Len(line) + 2
  <2>1. res = [out EXCEPT !.next = n]
    BY <1>3, <1>7 DEF Advance
  <2>2. out.err = "" => n \in Nat /\ n >= Len(line) + 2
    <3>1. ASSUME out.err = "" PROVE next \in Nat
      <4>1. out.next \in Nat \ {0} /\ id.next \in Nat \ {0}
        <5>1. out.next \in Nat \ {0}
          BY <1>4, <3>1 DEF Proper
        <5>2. id.next \in Nat \ {0}
          BY <1>1, <1>2
        <5>3. QED
          BY <5>1, <5>2
      <4>2. QED
        BY <1>1, <4>1, NextPosition
    <3> HIDE DEF next
    <3>2. \A x, k \in Nat : LET y == IF x > k + 1 THEN x ELSE k + 2 IN y \in Nat /\ y >= k + 2
      OBVIOUS
    <3>3. QED
      BY <1>1, <3>1, <3>2
  <2> HIDE DEF n
  <2>3. out = [err |-> out.err, next |-> out.next, data |-> out.data] /\ SetByWhole(out.data, t)
    BY <1>4 DEF Proper, Outcome
  <2>4. res = [err |-> out.err, next |-> n, data |-> out.data]
    BY <2>1, <2>3
  <2>5. res.err = out.err /\ res.next = n /\ res.data = out.data
    BY <2>4
  <2>6. QED
    BY <1>2, <2>2, <2>3, <2>5 DEF res, t, id
<1>8. QED
  BY <1>6, <1>7

(***************************************************************************)
(* The text of a message                                                   *)
(***************************************************************************)
\* The lines of a message one after another are a text.
LEMMA FlattenIs ==
  ASSUME NEW C, NEW seqs \in Seq(Seq(C)), seqs # <<>>
  PROVE  /\ FlattenSeq(seqs) \in Seq(C)
         /\ Len(seqs) = 1 => FlattenSeq(seqs) = seqs[1]
<1> DEFINE n == Len(seqs)
           Joins(f) == f = [i \in 1 .. n |-> IF i = 1 THEN seqs[i] ELSE f[i - 1] \o seqs[i]]
           step == [k \in 1 .. n |-> [t \in Seq(C) |-> t \o seqs[k]]]
           joined == CHOOSE f : Joins(f)
<1>0. n \in Nat \ {0} /\ \A k \in 1 .. n : seqs[k] \in Seq(C)
  OBVIOUS
<1>1. FlattenSeq(seqs) = joined[n]
  BY <1>0 DEF FlattenSeq
<1>2. step \in [1 .. n -> [Seq(C) -> Seq(C)]]
  BY <1>0
<1>3. PICK f : Unfolds(f, Seq(C), <<>>, n, step)
  <2>1. <<>> \in Seq(C) /\ n \in Nat
    BY <1>0
  <2> HIDE DEF step, n
  <2>2. QED
    BY <1>2, <2>1, RecursionExists
<1>4. \A k \in 1 .. n : f[k] = f[k - 1] \o seqs[k] /\ f[k - 1] \in Seq(C)
  <2>1. ASSUME NEW k \in 1 .. n PROVE f[k] = f[k - 1] \o seqs[k] /\ f[k - 1] \in Seq(C)
    <3>1. k - 1 \in 0 .. n
      BY <1>0
    <3>2. f[k - 1] \in Seq(C) /\ f[k] = step[k][f[k - 1]]
      BY <1>3, <3>1 DEF Unfolds
    <3>3. QED
      BY <1>0, <3>2
  <2>2. QED
    BY <2>1
<1>5. Joins([i \in 1 .. n |-> f[i]])
  <2> DEFINE g == [i \in 1 .. n |-> f[i]]
  <2>1. ASSUME NEW i \in 1 .. n PROVE f[i] = IF i = 1 THEN seqs[i] ELSE g[i - 1] \o seqs[i]
    <3>1. CASE i = 1
      <4>1. f[0] = <<>>
        BY <1>3 DEF Unfolds
      <4>2. f[1] = <<>> \o seqs[1]
        <5>1. 1 \in 1 .. n /\ 1 - 1 = 0
          BY <1>0
        <5>2. f[1] = f[1 - 1] \o seqs[1]
          BY <1>4, <5>1
        <5>3. QED
          BY <4>1, <5>1, <5>2
      <4>3. <<>> \o seqs[1] = seqs[1]
        BY <1>0
      <4>4. QED
        BY <3>1, <4>2, <4>3
    <3>2. CASE i # 1
      <4>1. i - 1 \in 1 .. n
        BY <1>0, <3>2
      <4>2. QED
        BY <1>4, <3>2, <4>1
    <3>3. QED
      BY <3>1, <3>2
  <2>2. QED
    BY <2>1
<1> HIDE DEF Joins
<1>6. Joins(joined)
  BY <1>5
<1> HIDE DEF joined
<1>7. \A i \in 1 .. n : joined[i] = IF i = 1 THEN seqs[i] ELSE joined[i - 1] \o seqs[i]
  BY <1>6 DEF Joins
<1> DEFINE S == {k \in 0 .. n : k = 0 \/ joined[k] \in Seq(C)}
<1>8. 0 .. n \subseteq S
  <2>1. ASSUME NEW m \in 0 .. n - 1, m \in S PROVE m + 1 \in S
    <3>1. m + 1 \in 1 .. n /\ (m + 1) - 1 = m /\ seqs[m + 1] \in Seq(C)
      BY <1>0
    <3>2. joined[m + 1] = IF m = 0 THEN seqs[m + 1] ELSE joined[m] \o seqs[m + 1]
      BY <1>7, <3>1
    <3>3. joined[m + 1] \in Seq(C)
      BY <2>1, <3>1, <3>2
    <3>4. QED
      BY <1>0, <3>1, <3>3
  <2>2. n \in Nat /\ 0 \in S
    BY <1>0
  <2> HIDE DEF S, n
  <2>3. QED
    BY <2>1, <2>2, UpTo
<1>9. joined[n] \in Seq(C)
  BY <1>0, <1>8
<1>10. n = 1 => joined[n] = seqs[1]
  BY <1>0, <1>7
<1>11. QED
  BY <1>1, <1>9, <1>10

(***************************************************************************)
(* The invariant                                                           *)
(***************************************************************************)
\* The message is one reading that is written on one line.
Alone == Len(message) = 1 /\ IsOneLine(message[1])

\* Nothing is read of it yet, or its line and what the line sets.
Unread == rest = LineText(message[1]) /\ data = [name \in Names |-> Unset]

ReadIsWhole ==
  /\ rest \in {<<"LF">>, <<>>}
  /\ \A f \in FieldSet : data[f.name].present => IsWhole(f, BehindIdText(message[1]))

\* What the meter may write.
Character == UNION {UNION {ToSet(LineText(r)) : r \in ToSet(m)} : m \in Message}

IInv ==
  /\ rest \in Seq(Character)
  /\ Fielded(data)
  /\ Alone => Unread \/ ReadIsWhole

\* Two texts one behind the other.
LEMMA JoinedIs ==
  ASSUME NEW D, NEW s \in Seq(D), NEW t \in Seq(D)
  PROVE  /\ s \o t \in Seq(D) /\ Len(s \o t) = Len(s) + Len(t)
         /\ \A j \in 1 .. Len(s) : (s \o t)[j] = s[j]
         /\ \A j \in 1 .. Len(t) : (s \o t)[Len(s) + j] = t[j]
  OBVIOUS

\* A line with its end.
LEMMA EndedIs ==
  ASSUME NEW C, NEW line \in Seq(C)
  PROVE  LET text == line \o EndOfLine
         IN  /\ text \in Seq(C \cup {"CR", "LF"}) /\ Len(line) \in Nat /\ Len(text) = Len(line) + 2
             /\ text[Len(line) + 1] = "CR" /\ text[Len(line) + 2] = "LF"
             /\ \A j \in 1 .. Len(line) : text[j] = line[j]
<1> DEFINE D == C \cup {"CR", "LF"}
<1>1. line \in Seq(D) /\ Len(line) \in Nat
  OBVIOUS
<1>2. EndOfLine \in Seq(D) /\ Len(EndOfLine) = 2 /\ EndOfLine[1] = "CR" /\ EndOfLine[2] = "LF"
  BY DEF EndOfLine
<1> DEFINE text == line \o EndOfLine
<1> HIDE DEF D
<1>3. /\ text \in Seq(D) /\ Len(text) = Len(line) + Len(EndOfLine)
      /\ \A j \in 1 .. Len(line) : text[j] = line[j]
  BY <1>1, <1>2, JoinedIs
<1>4. \A j \in 1 .. Len(EndOfLine) : text[Len(line) + j] = EndOfLine[j]
  BY <1>1, <1>2, JoinedIs
<1> HIDE DEF text
<1>5. /\ Len(text) = Len(line) + 2
      /\ text[Len(line) + 1] = EndOfLine[1] /\ text[Len(line) + 2] = EndOfLine[2]
  BY <1>2, <1>3, <1>4
<1>6. QED
  BY <1>1, <1>2, <1>3, <1>5 DEF D, text

\* What is left behind it is its last character, or nothing.
LEMMA FromEnd ==
  ASSUME NEW C, NEW line \in Seq(C), NEW n \in Nat, n >= Len(line) + 2
  PROVE  From(line \o EndOfLine, n) \in {<<"LF">>, <<>>}
<1> DEFINE text == line \o EndOfLine
           D    == C \cup {"CR", "LF"}
           t    == From(text, n)
<1>1. /\ text \in Seq(D) /\ Len(line) \in Nat /\ Len(text) = Len(line) + 2
      /\ text[Len(line) + 2] = "LF"
  BY EndedIs
<1> HIDE DEF text
<1>2. CASE n = Len(line) + 2
  <2>1. t \in Seq(D) /\ Len(t) = 1 /\ t[1] = "LF"
    BY <1>1, <1>2 DEF From
  <2>2. t = <<"LF">>
    <3> HIDE DEF t
    <3>1. QED
      BY <2>1
  <2>3. QED
    BY <2>2 DEF text
<1>3. CASE n > Len(line) + 2
  <2>1. t = <<>>
    BY <1>1, <1>3 DEF From
  <2>2. QED
    BY <2>1 DEF text
<1>4. QED
  BY <1>1, <1>2, <1>3

\* The line is cut in front of its end.
LEMMA LineEndIs ==
  ASSUME NEW C, "CR" \notin C, "LF" \notin C, NEW line \in Seq(C), rest = line \o EndOfLine
  PROVE  /\ LineEnd = Len(line) + 1 /\ Len(line) \in Nat
         /\ SubSeq(rest, 1, LineEnd - 1) = line
<1> DEFINE D == C \cup {"CR", "LF"}
<1>1. /\ rest \in Seq(D) /\ Len(rest) = Len(line) + 2 /\ Len(line) \in Nat
      /\ rest[Len(line) + 1] = "CR" /\ \A j \in 1 .. Len(line) : rest[j] = line[j]
  BY EndedIs
<1> HIDE DEF D
<1>2. /\ LineEnd \in 1 .. Len(rest) + 1
      /\ LineEnd <= Len(rest) => rest[LineEnd] \in {"CR", "LF"}
      /\ \A j \in 1 .. LineEnd - 1 : rest[j] \notin {"CR", "LF"}
  BY <1>1, FirstInIs DEF LineEnd
<1>3. LineEnd <= Len(line) + 1
  <2>1. Len(line) + 1 \notin 1 .. LineEnd - 1
    BY <1>1, <1>2
  <2>2. QED
    BY <1>1, <1>2, <2>1
<1>4. LineEnd > Len(line)
  <2>1. SUFFICES ASSUME LineEnd \in 1 .. Len(line) PROVE FALSE
    BY <1>1, <1>2
  <2>2. rest[LineEnd] = line[LineEnd] /\ line[LineEnd] \in C
    BY <1>1, <2>1
  <2>3. QED
    BY <1>1, <1>2, <2>1, <2>2
<1>5. LineEnd = Len(line) + 1
  BY <1>1, <1>2, <1>3, <1>4
<1>6. SubSeq(rest, 1, Len(line)) = line
  <2> DEFINE t == SubSeq(rest, 1, Len(line))
  <2>1. t \in Seq(D) /\ Len(t) = Len(line) /\ \A j \in 1 .. Len(line) : t[j] = rest[j]
    BY <1>1
  <2> HIDE DEF t
  <2>2. t = [j \in 1 .. Len(line) |-> t[j]] /\ line = [j \in 1 .. Len(line) |-> line[j]]
    BY <2>1
  <2>3. t = line
    BY <1>1, <2>1, <2>2
  <2>4. QED
    BY <2>3 DEF t
<1>7. LineEnd - 1 = Len(line)
  BY <1>1, <1>5
<1>8. QED
  BY <1>1, <1>5, <1>6, <1>7

\* A message of one reading is its line.
LEMMA InitIs == Init => IInv
<1> SUFFICES ASSUME Init PROVE IInv
  OBVIOUS
<1> DEFINE lines == [i \in DOMAIN message |-> LineText(message[i])]
<1>1. /\ message \in Seq(ToSet(message)) /\ message \in Message /\ rest = FlattenSeq(lines)
      /\ data = [name \in Names |-> Unset]
      /\ \A r \in ToSet(message) : LineText(r) \in Seq(ToSet(LineText(r)))
  BY MessageAssumption DEF Init, Names
<1>2. /\ DOMAIN message = 1 .. Len(message) /\ Len(message) \in Nat
      /\ \A i \in 1 .. Len(message) : message[i] \in ToSet(message)
  BY <1>1
<1>3. \A i \in 1 .. Len(message) : LineText(message[i]) \in Seq(Character)
  <2>1. ASSUME NEW i \in 1 .. Len(message) PROVE LineText(message[i]) \in Seq(Character)
    <3> DEFINE r == message[i]
    <3>1. r \in ToSet(message)
      BY <1>2
    <3> HIDE DEF r
    <3>2. LineText(r) \in Seq(ToSet(LineText(r)))
      BY <1>1, <3>1
    <3>3. ToSet(LineText(r)) \subseteq Character
      BY <1>1, <3>1 DEF Character
    <3> DEFINE t == LineText(r)
               D == ToSet(t)
    <3>4. t \in Seq(D) /\ D \subseteq Character
      BY <3>2, <3>3
    <3> HIDE DEF t, D
    <3>5. t \in Seq(Character)
      BY <3>4
    <3>6. QED
      BY <3>5 DEF t, r
  <2>2. QED
    BY <2>1
<1>4. lines \in Seq(Seq(Character)) /\ Len(lines) = Len(message)
      /\ \A i \in 1 .. Len(message) : lines[i] = LineText(message[i])
  BY <1>2, <1>3
<1> HIDE DEF lines
<1>5. rest \in Seq(Character)
  <2>1. CASE lines = <<>>
    <3>1. FlattenSeq(lines) = <<>>
      BY <2>1 DEF FlattenSeq
    <3>2. QED
      BY <1>1, <3>1
  <2>2. CASE lines # <<>>
    BY <1>1, <1>4, <2>2, FlattenIs
  <2>3. QED
    BY <2>1, <2>2
<1>6. Fielded(data)
  <2>1. Flagged(Unset)
    BY DEF Flagged, Unset
  <2>2. QED
    BY <1>1, <2>1 DEF Fielded
<1>7. Alone => Unread
  <2>1. ASSUME Len(message) = 1 PROVE rest = LineText(message[1])
    <3>1. lines # <<>> /\ Len(lines) = 1 /\ lines[1] = LineText(message[1])
      BY <1>4, <2>1
    <3>2. QED
      BY <1>1, <1>4, <3>1, FlattenIs
  <2>2. QED
    BY <1>1, <2>1 DEF Alone, Unread
<1>8. QED
  BY <1>5, <1>6, <1>7 DEF IInv

\* Of the one line of a reading.
LEMMA OneLineIs ==
  ASSUME NEW r, IsOneLine(r)
  PROVE  \E C : /\ "CR" \notin C /\ "LF" \notin C /\ IdCharacter \subseteq C
                /\ BehindIdText(r) \in Seq(C) /\ IdText(r) \o BehindIdText(r) \in Seq(C)
<1> DEFINE head == IdText(r)
           s    == BehindIdText(r)
           D    == ToSet(s) \ {"CR", "LF"}
           C    == IdCharacter \cup D
<1>1. head \in Seq(IdCharacter) /\ s \in Seq(D)
  BY DEF IsOneLine
<1>2. "CR" \notin IdCharacter /\ "LF" \notin IdCharacter
  BY DEF IdCharacter, HexDigit
<1>3. "CR" \notin C /\ "LF" \notin C /\ IdCharacter \subseteq C /\ D \subseteq C
  BY <1>2
<1> HIDE DEF head, s, C, D
<1>4. head \in Seq(C) /\ s \in Seq(C)
  BY <1>1, <1>3
<1>5. head \o s \in Seq(C)
  BY <1>4, JoinedIs
<1>6. QED
  BY <1>3, <1>4, <1>5 DEF head, s

\* An empty line sets nothing.
LEMMA EmptyLineKeeps == IInv /\ EmptyLine => IInv' /\ SetByWholeLines
<1> SUFFICES ASSUME IInv, EmptyLine PROVE IInv' /\ SetByWholeLines
  OBVIOUS
<1>1. /\ rest \in Seq(Character) /\ rest # <<>> /\ LineEnd = 1
      /\ rest' = Tail(rest) /\ message' = message /\ data' = data
      /\ Fielded(data) /\ (Alone => Unread \/ ReadIsWhole)
  BY DEF IInv, EmptyLine
<1>2. rest' \in Seq(Character)
  BY <1>1
<1>3. ASSUME Alone, Unread PROVE ReadIsWhole'
  <2> DEFINE line == IdText(message[1]) \o BehindIdText(message[1])
  <2>1. PICK C : "CR" \notin C /\ "LF" \notin C /\ line \in Seq(C)
    BY <1>3, OneLineIs DEF Alone
  <2>2. rest = line \o EndOfLine
    BY <1>3 DEF Unread, LineText
  <2> HIDE DEF line
  <2>3. Len(line) = 0
    <3>1. LineEnd = Len(line) + 1 /\ Len(line) \in Nat
      BY <2>1, <2>2, LineEndIs
    <3>2. QED
      BY <1>1, <3>1
  <2>4. Len(rest) = 2 /\ rest[2] = "LF"
    <3>1. /\ Len(line \o EndOfLine) = Len(line) + 2
          /\ (line \o EndOfLine)[Len(line) + 2] = "LF"
      BY <2>1, EndedIs
    <3>2. QED
      BY <2>2, <2>3, <3>1
  <2>5. Tail(rest) = <<"LF">>
    <3> DEFINE t == Tail(rest)
    <3>1. t \in Seq(Character) /\ Len(t) = 1 /\ t[1] = "LF"
      BY <1>1, <2>4
    <3> HIDE DEF t
    <3>2. t = <<"LF">>
      BY <3>1
    <3>3. QED
      BY <3>2 DEF t
  <2>6. \A f \in FieldSet : ~data[f.name].present
    BY <1>3, FieldsAre DEF Unread, Unset
  <2>7. QED
    BY <1>1, <2>5, <2>6 DEF ReadIsWhole
<1>4. ASSUME ReadIsWhole PROVE ReadIsWhole'
  <2>1. rest = <<"LF">>
    BY <1>1, <1>4 DEF ReadIsWhole
  <2>2. Tail(rest) = <<>>
    BY <2>1
  <2>3. QED
    BY <1>1, <1>4, <2>2 DEF ReadIsWhole
<1>5. Alone' => Alone
  BY <1>1 DEF Alone
<1>6. IInv'
  BY <1>1, <1>2, <1>3, <1>4, <1>5 DEF IInv
<1>7. SetByWholeLines
  BY <1>1 DEF SetByWholeLines
<1>8. QED
  BY <1>6, <1>7

\* A line sets nothing but by what is behind its id, all of it.
LEMMA DataLineKeeps == IInv /\ DataLine => IInv' /\ SetByWholeLines
<1> SUFFICES ASSUME IInv, DataLine PROVE IInv' /\ SetByWholeLines
  OBVIOUS
<1> DEFINE line  == SubSeq(rest, 1, LineEnd - 1)
           after == From(rest, LineEnd)
           id    == ParseObisId(line)
           res   == ParseLine(line, after)
           n     == IF res.err = "" THEN res.next ELSE LineEnd + 1
           t     == From(line, id.next)
<1>1. /\ rest \in Seq(Character) /\ Fielded(data) /\ (Alone => Unread \/ ReadIsWhole)
      /\ rest # <<>> /\ LineEnd > 1
      /\ data' = res.data /\ rest' = From(rest, n) /\ message' = message
  BY DEF IInv, DataLine, HandleLine
<1>2. /\ LineEnd \in 1 .. Len(rest) + 1 /\ Len(rest) \in Nat
      /\ \A j \in 1 .. LineEnd - 1 : rest[j] \notin {"CR", "LF"}
  <2> HIDE DEF line, after, id, res, n, t
  <2>1. /\ FirstIn({"CR", "LF"}, rest) \in 1 .. Len(rest) + 1
        /\ \A j \in 1 .. FirstIn({"CR", "LF"}, rest) - 1 : rest[j] \notin {"CR", "LF"}
    BY <1>1, FirstInIs
  <2>2. Len(rest) \in Nat
    BY <1>1
  <2>3. QED
    BY <2>1, <2>2 DEF LineEnd
<1>3. line \in Seq(Character) /\ Len(line) = LineEnd - 1 /\ after \in Seq(Character)
  <2>1. \A s \in Seq(Character) : \A k \in 1 .. Len(s) + 1 :
          /\ SubSeq(s, 1, k - 1) \in Seq(Character) /\ Len(SubSeq(s, 1, k - 1)) = k - 1
          /\ From(s, k) \in Seq(Character)
    BY DEF From
  <2>2. QED
    BY <1>1, <1>2, <2>1
<1> HIDE DEF line, after
<1>4. /\ id.next \in 1 .. Len(line) + 1
      /\ \A j \in 1 .. id.next - 1 : line[j] \in IdCharacter
      /\ SetByWhole(res.data, t)
      /\ res.err = "" => res.next \in Nat /\ res.next >= Len(line) + 2
  BY <1>1, <1>3, LineIs
<1> HIDE DEF id, res, t
<1>5. n \in Nat \ {0} /\ n >= Len(line) + 2
  <2>1. LineEnd = Len(line) + 1 /\ Len(line) \in Nat
    BY <1>2, <1>3
  <2>2. \A k, l \in Nat : k >= l + 2 => k \in Nat \ {0} /\ k >= l + 2
    OBVIOUS
  <2>3. n \in Nat /\ n >= Len(line) + 2
    <3>1. CASE res.err = ""
      BY <1>4, <3>1
    <3>2. CASE res.err # ""
      <4>1. n = LineEnd + 1
        BY <3>2
      <4>2. \A k, l \in Nat : k = l + 1 => k + 1 \in Nat /\ k + 1 >= l + 2
        OBVIOUS
      <4>3. LineEnd \in Nat
        BY <2>1
      <4> HIDE DEF n
      <4>4. QED
        BY <2>1, <4>1, <4>2, <4>3
    <3>3. QED
      BY <3>1, <3>2
  <2> HIDE DEF n
  <2>4. QED
    BY <2>1, <2>2, <2>3
<1> HIDE DEF n
<1>6. rest' \in Seq(Character) /\ Fielded(data')
  BY <1>1, <1>4, <1>5, FromIs DEF SetByWhole
<1>7. ASSUME Alone, Unread PROVE ReadIsWhole'
  <2> DEFINE head == IdText(message[1])
             s    == BehindIdText(message[1])
  <2>1. PICK C : /\ "CR" \notin C /\ "LF" \notin C /\ IdCharacter \subseteq C
                 /\ s \in Seq(C) /\ head \o s \in Seq(C)
    BY <1>7, OneLineIs DEF Alone
  <2>2. head \in Seq(IdCharacter) /\ (s # <<>> => s[1] \notin IdCharacter)
    BY <1>7 DEF Alone, IsOneLine
  <2>3. rest = (head \o s) \o EndOfLine
    BY <1>7 DEF Unread, LineText
  <2>4. line = head \o s
    <3> DEFINE whole == head \o s
    <3>1. whole \in Seq(C) /\ rest = whole \o EndOfLine
      BY <2>1, <2>3
    <3> HIDE DEF whole, head, s
    <3>2. SubSeq(rest, 1, LineEnd - 1) = whole
      BY <2>1, <3>1, LineEndIs
    <3>3. QED
      BY <3>2 DEF line, whole
  <2>5. From(rest, n) \in {<<"LF">>, <<>>}
    <3>1. line \in Seq(C) /\ rest = line \o EndOfLine
      BY <2>1, <2>3, <2>4
    <3>2. QED
      BY <1>5, <3>1, FromEnd
  <2>6. \A k : IsGroups(t, k) => t = s
    <3>1. ASSUME NEW k, IsGroups(t, k) PROVE t = s
      <4>1. t # <<>> /\ t[1] = "("
        BY <3>1 DEF IsGroups
      <4> HIDE DEF head, s
      <4>2. t = From(head \o s, id.next)
        BY <2>4 DEF t
      <4>3. /\ id.next \in 1 .. Len(head \o s) + 1
            /\ \A j \in 1 .. id.next - 1 : (head \o s)[j] \in IdCharacter
        BY <1>4, <2>4
      <4>4. From(head \o s, id.next) = s
        BY <2>1, <2>2, <4>1, <4>2, <4>3, HeadIs
      <4>5. QED
        BY <4>2, <4>4
    <3>2. QED
      BY <3>1
  <2>7. \A f \in FieldSet : res.data[f.name].present => IsWhole(f, s)
    <3>1. ASSUME NEW f \in FieldSet, res.data[f.name].present PROVE IsWhole(f, s)
      <4>1. ~data[f.name].present
        BY <1>7, FieldsAre DEF Unread, Unset
      <4>2. IsWhole(f, t)
        BY <1>4, <3>1, <4>1 DEF SetByWhole
      <4> HIDE DEF s
      <4>3. QED
        BY <2>6, <4>2 DEF IsWhole
    <3>2. QED
      BY <3>1
  <2>8. QED
    BY <1>1, <2>5, <2>7 DEF ReadIsWhole
<1>8. ~ReadIsWhole
  <2>1. SUFFICES ASSUME ReadIsWhole PROVE FALSE
    OBVIOUS
  <2>2. rest = <<"LF">>
    BY <1>1, <2>1 DEF ReadIsWhole
  <2>3. 1 \in 1 .. LineEnd - 1 /\ rest[1] = "LF"
    BY <1>1, <1>2, <2>2
  <2>4. QED
    BY <1>2, <2>3
<1>9. Alone' => Alone
  BY <1>1 DEF Alone
<1>10. IInv'
  BY <1>1, <1>6, <1>7, <1>8, <1>9 DEF IInv
<1>11. SetByWholeLines
  BY <1>1, <1>4 DEF SetByWholeLines, SetByWhole, line, id, t
<1>12. QED
  BY <1>10, <1>11

(***************************************************************************)
(* The theorems                                                            *)
(***************************************************************************)
\* Every step.
LEMMA NextKeeps == IInv /\ [Next]_vars => IInv' /\ [SetByWholeLines]_vars
<1> SUFFICES ASSUME IInv, [Next]_vars PROVE IInv' /\ [SetByWholeLines]_vars
  OBVIOUS
<1>1. CASE EmptyLine
  BY <1>1, EmptyLineKeeps
<1>2. CASE DataLine
  BY <1>2, DataLineKeeps
<1>3. CASE UNCHANGED vars
  BY <1>3 DEF vars, IInv, Alone, Unread, ReadIsWhole
<1>4. QED
  BY <1>1, <1>2, <1>3 DEF Next

\* The inductive invariant of the lines of a message: the text that is left
\* is one, every field has its record, and a reading alone on its line is
\* unread or has set only what all of it is read for (P1Parser::parse_data).
THEOREM Invariant == Spec => []IInv
<1>1. Init => IInv
  BY InitIs
<1>2. IInv /\ [Next]_vars => IInv'
  BY NextKeeps
<1>3. QED
  BY <1>1, <1>2, PTL DEF Spec

\* For every catalogue of fields and every message: what is present stays as
\* it is, and a field becomes present only by a line whose text behind the id
\* is, to its last character, a group for a value or two for a timestamp and
\* a value (P1Parser::parse_line, ParsedData::parse_line).
THEOREM AlwaysSetByWholeLines == Spec => [][SetByWholeLines]_vars
<1>1. IInv /\ [Next]_vars => [SetByWholeLines]_vars
  BY NextKeeps
<1>2. QED
  BY <1>1, Invariant, PTL DEF Spec

\* For every catalogue, and every reading on one line whose id can be told
\* from its value: a value that is present was read to its last character.
THEOREM AcceptedAlwaysWhole == Spec => [](Alone => AcceptedIsWhole)
<1>1. IInv => (Alone => AcceptedIsWhole)
  <2> SUFFICES ASSUME IInv, Alone, NEW f \in FieldSet, data[f.name].present
               PROVE  IsWhole(f, BehindIdText(message[1]))
    BY DEF AcceptedIsWhole
  <2>1. CASE Unread
    BY <2>1, FieldsAre DEF Unread, Unset
  <2>2. CASE ReadIsWhole
    BY <2>2 DEF ReadIsWhole
  <2>3. QED
    BY <2>1, <2>2 DEF IInv
<1>2. QED
  BY <1>1, Invariant, PTL
=============================================================================
