---------------------------- MODULE ValueDecoder ----------------------------
(***************************************************************************)
(* StringParser (src/src/dsmr3/parser3.h) and ValueDecoder (fields3.cpp):  *)
(* the value of a line, in each of the shapes a field can have.            *)
(*                                                                         *)
(* s is the text from str to end.  A parser returns [err, value, next], a  *)
(* decoder [err, next, field]: the field's record [present, string,        *)
(* number] as it leaves it, which may have changed although err says that  *)
(* the value was refused.  next is a position of s.                        *)
(***************************************************************************)
EXTENDS ObisIdParser, NumParser

NoUnit == <<>>

FirstIn(S, s) ==
  CHOOSE k \in 1 .. Len(s) + 1 : /\ k <= Len(s) => s[k] \in S
                                 /\ \A j \in 1 .. k - 1 : s[j] \notin S

Refuse(err)        == [err |-> err, value |-> <<>>, next |-> 0]
Parsed(value, k)   == [err |-> "", value |-> value, next |-> k]

ParseString(min, max, s) ==
  LET str_end == FirstIn({")"}, s)
  IN  IF s = <<>> \/ s[1] # "(" THEN Refuse("Missing (")
      ELSE IF str_end > Len(s) THEN Refuse("Missing )")
      ELSE IF str_end - 2 \notin min .. max THEN Refuse("Invalid string length")
      ELSE Parsed(SubSeq(s, 2, str_end - 1), str_end + 1)

\* The second of two parsers: P goes on where r has stopped.
Then(s, r, P(_)) ==
  LET behind == P(From(s, r.next))
  IN  IF r.err # "" THEN r
      ELSE [behind EXCEPT !.next = r.next - 1 + behind.next]

Decoded(r, field) == [err |-> r.err, next |-> r.next, field |-> field]

-----------------------------------------------------------------------------
StoreString(r, field) ==
  Decoded(r, IF r.err = "" THEN [field EXCEPT !.string = r.value] ELSE field)

string(field, min, max, s) == StoreString(ParseString(min, max, s), field)

raw(field, s) ==
  Decoded(Parsed(s, Len(s) + 1), [field EXCEPT !.string = @ \o s])

StoreNumber(r, field) ==
  Decoded(r, IF r.err = "" THEN [field EXCEPT !.number = r.value] ELSE field)

fixed(field, unit, s) == StoreNumber(ParseNum(3, unit, s), field)

\* The i'th byte of the text in hexadecimal.
HexByte(s, i) == 16 * HexValue(s[2 * i - 1]) + HexValue(s[2 * i])

\* The DLMS/COSEM date-time is year(2), month, day, weekday, hour, minute,
\* second, hundredths, deviation(2), clock status.
Year(bytes)   == 256 * bytes[1] + bytes[2]
Status(bytes) == bytes[12]

\* Mutant of Season: the deviation's high byte is read for the clock status.
SeasonOfDeviation(bytes) == IF bytes[10] >= 128 THEN "S" ELSE "W"

Season(bytes) == IF Status(bytes) >= 128 THEN "S" ELSE "W"

IsDateTime(bytes) ==
  /\ Year(bytes) \in 2000 .. 2099
  /\ bytes[3] \in 1 .. 12 /\ bytes[4] \in 1 .. 31
  /\ bytes[6] <= 23 /\ bytes[7] <= 59 /\ bytes[8] <= 59

ToDsmr(bytes) ==
  FlattenSeq(<<TwoDigits(Year(bytes) % 100), TwoDigits(bytes[3]), TwoDigits(bytes[4]),
               TwoDigits(bytes[6]), TwoDigits(bytes[7]), TwoDigits(bytes[8]),
               <<Season(bytes)>>>>)

\* The DSMR timestamp, or the DLMS one of the MCS301 converted to it.
timestamp(field, s) ==
  LET regular == ParseString(12, 13, s)
      dlms    == ParseString(24, 24, s)
      isHex   == \A k \in 1 .. 24 : isxdigit(dlms.value[k])
      bytes   == [i \in 1 .. 12 |-> HexByte(dlms.value, i)]
  IN  IF regular.err = "" THEN Decoded(regular, [field EXCEPT !.string = regular.value])
      ELSE IF dlms.err # "" THEN Decoded(dlms, field)
      ELSE IF ~isHex \/ ~IsDateTime(bytes)
           THEN Decoded(Refuse("Invalid DLMS date-time"), field)
      ELSE Decoded(dlms, [field EXCEPT !.string = ToDsmr(bytes)])

FirstRight(long, short) == IF long.err = "" THEN long ELSE short

ParseTimestamp(s) == FirstRight(ParseString(13, 13, s), ParseString(12, 12, s))

TimestampFirst(field, unit, s, ts) ==
  Then(s, ts, LAMBDA t : fixed([field EXCEPT !.string = ts.value], unit, t))

\* Mutant of ValueFirst: the timestamp is looked for where the value is.
TimestampAgain(s, value) ==
  IF value.err # "" THEN value
  ELSE StoreString(Then(s, value, LAMBDA t : ParseTimestamp(s)), value.field)

\* The Walloon order.
ValueFirst(s, value) ==
  IF value.err # "" THEN value
  ELSE StoreString(Then(s, value, ParseTimestamp), value.field)

\* The first of the two is stored before the second is known to be right.
timestampedFixed(field, unit, s) ==
  IF ParseTimestamp(s).err = "" THEN TimestampFirst(field, unit, s, ParseTimestamp(s))
  ELSE ValueFirst(s, fixed(field, unit, s))

-----------------------------------------------------------------------------
(***************************************************************************)
(* The value that spans two lines:                                         *)
(*   (150623120000)(00)(60)(1)(0-1:24.2.1)(m3)                             *)
(*   (01100.658)                                                           *)
(* after is the text behind the first line, its end of line first.         *)
(***************************************************************************)
CheckUnit(r, unit) == IF r.err = "" /\ r.value # unit THEN Refuse("Invalid unit") ELSE r

\* The first line behind the timestamp ts, up to the unit: a position behind
\* it, or why it was refused.
BehindUnit(ts, unit, s) ==
  LET Skip(r)  == [r EXCEPT !.next = @ + 1]
      flags    == Then(s, ts, LAMBDA t : ParseString(0, 2, t))
      interval == Then(s, flags, LAMBDA t : ParseNum(0, NoUnit, t))
      count    == Then(s, interval, LAMBDA t : ParseNum(0, NoUnit, t))
      id       == Then(s, Skip(count), ParseObisId)
  IN  CheckUnit(Then(s, Skip(id), LAMBDA t : ParseString(Len(unit), Len(unit), t)), unit)

Without(c, s) == IF s # <<>> /\ s[1] = c THEN Tail(s) ELSE s

\* One end of line is passed over.
NextLine(s) == Without("LF", Without("CR", s))

\* The number at the beginning of rest, the end of all of the text.
OnLine(field, all, rest) ==
  [fixed(field, NoUnit, SubSeq(rest, 1, FirstIn({"CR", "LF"}, rest) - 1))
     EXCEPT !.next = Len(all) - Len(rest) + @]

BehindHeader(field, all, header) ==
  IF header.err # "" THEN Decoded(header, field)
  ELSE OnLine(field, all, NextLine(From(all, header.next)))

BehindTimestamp(field, unit, s, after, ts) ==
  IF ts.err # "" THEN Decoded(ts, field)
  ELSE BehindHeader([field EXCEPT !.string = ts.value], s \o after, BehindUnit(ts, unit, s))

doubleLineTimestampedFixed(field, unit, s, after) ==
  BehindTimestamp(field, unit, s, after, ParseString(12, 12, s))
=============================================================================
