---------------------------- MODULE FieldReading ----------------------------
(***************************************************************************)
(* What a meter writes, and what parse_line has to make of it.  A reading  *)
(* is [parts, zeros, value, tail]: the numbers of its OBIS id as written   *)
(* (with zeros in front or without), a value, and what the line got behind *)
(* it by mistake.  The values of a telegram are                            *)
(*   text      a string in parentheses                                     *)
(*   number    [whole, decimals, unit], texts                              *)
(*   instant   [year, ..., summer] in one of the formats DSMR, DLMS        *)
(*   stamped   a timestamp and a number, the timestamp first or last       *)
(*   double    the same on two lines                                       *)
(*   absent    the mark of an M-Bus device that is not there               *)
(*   verbatim  any text, for a raw field or as a damaged value             *)
(***************************************************************************)
EXTENDS FieldLine

CONSTANT Message      \* bound: the sequences of readings the meter may send

EndOfLine == <<"CR", "LF">>

Group(s) == <<"(">> \o s \o <<")">>

Marked(mark, s) == IF s = <<>> THEN <<>> ELSE <<mark>> \o s

NumberText(n) == n.whole \o Marked(".", n.decimals) \o Marked("*", n.unit)

\* DSMR: YYMMDDhhmmssX, X the season.
DsmrText(t) ==
  FlattenSeq([k \in 1 .. 6 |-> TwoDigits(IF k = 1 THEN t.year % 100 ELSE t.rest[k - 1])])
    \o <<IF t.summer THEN "S" ELSE "W">>

HexText(bytes) ==
  FlattenSeq([i \in DOMAIN bytes |-> <<UpperHex[bytes[i] \div 16 + 1],
                                       UpperHex[(bytes[i] % 16) + 1]>>])

\* DLMS: weekday, hundredths and deviation are left open (FF, FF, 8000).
DlmsText(t) ==
  HexText(<<t.year \div 256, t.year % 256, t.rest[1], t.rest[2], 255, t.rest[3],
            t.rest[4], t.rest[5], 255, 128, 0, IF t.summer THEN 128 ELSE 0>>)

InstantText(t, format) == IF format = "DLMS" THEN DlmsText(t) ELSE DsmrText(t)

ValueText(v) ==
  CASE v.shape = "text"     -> Group(v.text)
    [] v.shape = "number"   -> Group(NumberText(v.number))
    [] v.shape = "instant"  -> Group(InstantText(v.instant, v.format))
    [] v.shape = "stamped"  -> IF v.first = "timestamp"
                               THEN Group(v.stamp) \o Group(NumberText(v.number))
                               ELSE Group(NumberText(v.number)) \o Group(v.stamp)
    [] v.shape = "double"   -> Group(v.stamp) \o Text("(00)(60)(1)(0-1:24.2.1)") \o Group(v.unit)
                                 \o EndOfLine \o Group(NumberText(v.number))
    [] v.shape \in {"absent", "verbatim"} -> v.text

Number(n) == IF n < 10 THEN <<Decimal[n + 1]>>
             ELSE IF n < 100 THEN TwoDigits(n)
             ELSE <<Decimal[n \div 100 + 1]>> \o TwoDigits(n % 100)

IdText(r) ==
  FlattenSeq([k \in DOMAIN r.parts |->
    (IF k = 1 THEN <<>> ELSE <<<<"-", ":", ".", ".", ".">>[k - 1]>>)
      \o (IF r.zeros THEN <<"0", "0">> ELSE <<>>) \o Number(r.parts[k])])

BehindIdText(r) == ValueText(r.value) \o r.tail

LineText(r) == IdText(r) \o BehindIdText(r) \o EndOfLine

ASSUME MessageAssumption ==
  \A m \in Message : /\ m \in Seq(ToSet(m))
                     /\ \A r \in ToSet(m) : LineText(r) \in Seq(ToSet(LineText(r)))

Unset == [present |-> FALSE, string |-> <<>>, number |-> 0]

Init ==
  /\ message \in Message
  /\ rest = FlattenSeq([i \in DOMAIN message |-> LineText(message[i])])
  /\ data = [name \in {Fields[i].name : i \in DOMAIN Fields} |-> Unset]
  /\ handled = <<>>

Spec == Init /\ [][Next]_vars

-----------------------------------------------------------------------------
(***************************************************************************)
(* The reference: which field a reading is for, whether that field has a   *)
(* place for its value, and what it should hold then.                      *)
(***************************************************************************)
\* The id of a reading: a sixth part that is missing is 255, and electricity
\* has the same quantities on channel 1 as on channel 0.
Part(r, k) ==
  IF k > Len(r.parts) THEN 255
  ELSE IF k = 2 /\ r.parts[1] = 1 /\ r.parts[2] = 1 THEN 0
  ELSE r.parts[k]

Denotes(r, f) == \A k \in 1 .. 6 : f.id[k] = Part(r, k)

\* The digits of a text as one number.
Weigh(digits) ==
  FoldFunction(+, 0, [k \in DOMAIN digits |-> HexValue(digits[k]) * 10 ^ (Len(digits) - k)])

\* In 10^places-ths of the unit, further decimals cut off.
Scaled(n, places) ==
  (Weigh(n.whole \o n.decimals) * 10 ^ places) \div 10 ^ Len(n.decimals)

InUnit(n, unit) == n.unit \in {unit, <<>>} /\ Scaled(n, 3) < WordRange

IsInstant(t) ==
  /\ t.year \in 2000 .. 2099
  /\ t.rest[1] \in 1 .. 12 /\ t.rest[2] \in 1 .. 31
  /\ t.rest[3] < 24 /\ t.rest[4] < 60 /\ t.rest[5] < 60

\* Has the field a place for the value?
Fits(f, v) ==
  \/ v.shape = "text" /\ f.type = "StringField" /\ Len(v.text) \in f.min .. f.max
  \/ v.shape = "verbatim" /\ f.type = "RawField"
  \/ v.shape = "instant" /\ f.type = "TimestampField" /\ IsInstant(v.instant)
  \/ v.shape = "number" /\ f.type = "FixedField" /\ InUnit(v.number, f.unit)
  \/ /\ v.shape = "number" /\ f.type \in IntType
     /\ v.number.decimals = <<>> /\ v.number.unit = <<>> /\ Weigh(v.number.whole) < f.range
  \/ v.shape = "stamped" /\ f.type \in StampedType /\ InUnit(v.number, f.unit)
  \/ v.shape = "double" /\ f.type = DoubleType /\ v.unit = f.unit /\ InUnit(v.number, NoUnit)

StringOf(v) ==
  CASE v.shape \in {"text", "verbatim"}  -> v.text
    [] v.shape = "instant"               -> DsmrText(v.instant)
    [] v.shape \in {"stamped", "double"} -> v.stamp
    [] v.shape \in {"number", "absent"}  -> <<>>

NumberOf(f, v) ==
  IF v.shape \notin {"number", "stamped", "double"} THEN 0
  ELSE Scaled(v.number, IF f.type \in IntType THEN 0 ELSE 3)

\* A number in front that is as long as a timestamp is taken for one.
Mistakable(v) ==
  v.shape = "stamped" /\ v.first = "number" /\ Len(NumberText(v.number)) \in {12, 13}

\* A reading on one line, whose id can be told from what is behind it: what
\* the theorem about AcceptedIsWhole asks of it (FieldReadingProofs).
IdCharacter == {c \in HexDigit : IsDigit(c)} \cup {"-", ":", "."}

IsOneLine(r) ==
  LET s == BehindIdText(r)
  IN  /\ IdText(r) \in Seq(IdCharacter)
      /\ s \in Seq(ToSet(s) \ {"CR", "LF"})
      /\ s # <<>> => s[1] \notin IdCharacter

IsRight(r, f) ==
  Denotes(r, f) /\ r.tail = <<>> /\ Fits(f, r.value) /\ ~Mistakable(r.value)

-----------------------------------------------------------------------------
(***************************************************************************)
(* Properties.                                                             *)
(***************************************************************************)
Finished == rest = <<>>

FieldSet == {Fields[i] : i \in DOMAIN Fields}

\* Finished, with a message of one reading for a field that can hold it.
OneRight(f) == Finished /\ Len(message) = 1 /\ IsRight(message[1], f)

\* A line changes no field but the one its id stands for, however the id is
\* written, and that one is present if it can hold the value; an id with a
\* number over 255 stands for none and is an error (ObisIdParser, the ids of
\* the fields and the dispatch over them).
RightField ==
  Finished /\ Len(message) = 1 =>
    /\ \A f \in FieldSet :
         /\ data[f.name] # Unset => Denotes(message[1], f)
         /\ IsRight(message[1], f) => data[f.name].present
    /\ (\E part \in ToSet(message[1].parts) : part > 255) => handled[1].err # ""

\* What is stored is the number that was written, in the field's unit,
\* further decimals cut off (NumParser, FixedField, IntField and the value
\* on a second line).
ValueIsExact ==
  \A f \in FieldSet :
    OneRight(f) /\ message[1].value.shape \in {"number", "double"} =>
      data[f.name].number = NumberOf(f, message[1].value)

\* A number in the milli-variant of the unit is stored as it stands: 1400*mA
\* is 1.400*A (NumParser::parse).
MilliIsThousandth ==
  \A f \in FieldSet :
    /\ Finished /\ Len(message) = 1 /\ Denotes(message[1], f) /\ message[1].tail = <<>>
    /\ message[1].value.shape = "number" /\ f.type = "FixedField"
    /\ message[1].value.number.unit = <<"m">> \o f.unit
    /\ message[1].value.number.decimals = <<>>
    => data[f.name].present /\ data[f.name].number = Weigh(message[1].value.number.whole)

\* An instant is stored as the same text whether the meter writes it the
\* DSMR or the DLMS way, and one that is none in DLMS is refused
\* (ValueDecoder::timestamp).
InstantIsKept ==
  \A f \in FieldSet :
    Finished /\ Len(message) = 1 /\ message[1].value.shape = "instant" =>
      /\ OneRight(f) => data[f.name].string = DsmrText(message[1].value.instant)
      /\ message[1].value.format = "DLMS" /\ ~IsInstant(message[1].value.instant)
           => ~data[f.name].present

\* A timestamp and a value are stored as written in either order, but for a
\* number that can be mistaken (ValueDecoder::timestampedFixed).
EitherOrder ==
  \A f \in FieldSet :
    OneRight(f) /\ message[1].value.shape = "stamped" =>
      data[f.name] = [present |-> TRUE, string |-> message[1].value.stamp,
                      number |-> NumberOf(f, message[1].value)]

\* Every character of an accepted value is read: it is a group in
\* parentheses, or two, with nothing between and nothing behind.
IsGroups(s, n) ==
  /\ s # <<>> /\ s[1] = "("
  /\ \A k \in DOMAIN s : s[k] = ")" => k = Len(s) \/ s[k + 1] = "("
  /\ s[Len(s)] = ")" /\ Cardinality({k \in DOMAIN s : s[k] = ")"}) = n

IsWhole(f, s) ==
  f.type \notin {"RawField", DoubleType} => IsGroups(s, IF f.type \in StampedType THEN 2 ELSE 1)

AcceptedIsWhole ==
  \A f \in FieldSet :
    Finished /\ Len(message) = 1 /\ data[f.name].present => IsWhole(f, BehindIdText(message[1]))

\* What a field holds that is present stays, whatever lines follow; a field
\* becomes present by a line only, and by all that is behind the id of it
\* (ParsedData::parse_line and the check of P1Parser::parse_line behind it).
SetByWholeLines ==
  \A f \in FieldSet :
    /\ data[f.name].present => data'[f.name] = data[f.name]
    /\ ~data[f.name].present /\ data'[f.name].present =>
         LET line == SubSeq(rest, 1, LineEnd - 1)
         IN  LineEnd > 1 /\ IsWhole(f, From(line, ParseObisId(line).next))

\* Of the readings for a field the first right one counts, with its own
\* timestamp and its own number: one that is refused, absent or a duplicate
\* leaves nothing behind that is seen (the provisional present() of
\* ParsedData::parse_line, clear_present, the sentinels).
FirstReadingCounts ==
  \A f \in FieldSet :
    LET right == {i \in DOMAIN message : IsRight(message[i], f)}
    IN  Finished /\ Len(message) = 2 =>
          /\ data[f.name].present <=> right # {}
          /\ right # {} =>
               LET v == message[CHOOSE i \in right : \A j \in right : i <= j].value
               IN  data[f.name].string = StringOf(v) /\ data[f.name].number = NumberOf(f, v)

\* "updated to support the switched order situations" (fields3.h:154): a
\* value in front of its timestamp is read, whatever its length.
SwitchedOrderIsRead ==
  \A f \in FieldSet :
    /\ Finished /\ Len(message) = 1 /\ Denotes(message[1], f)
    /\ message[1].tail = <<>> /\ Fits(f, message[1].value)
    /\ message[1].value.shape = "stamped"
    => data[f.name] = [present |-> TRUE, string |-> message[1].value.stamp,
                       number |-> NumberOf(f, message[1].value)]
=============================================================================
