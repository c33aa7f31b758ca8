------------------------------ MODULE FieldLine -----------------------------
(***************************************************************************)
(* P1Parser::parse_line on the text of a line, the dispatch of its value   *)
(* to a field of the ParsedData (src/src/dsmr3/parser3.h) and the field    *)
(* templates (fields3.h), for the telegrams of a meter that writes, per    *)
(* reading, one line (two for DoubleLineTimestampedFixedField).            *)
(*                                                                         *)
(* P1DataParser has the walk over the lines with the outcomes of a value   *)
(* left open; here the values are texts and the walk is a loop.            *)
(***************************************************************************)
EXTENDS FieldCatalogue

CONSTANT Fields      \* the selected fields, in the order of ParsedData<...>

VARIABLES
    message,     \* what the meter has sent: a sequence of readings (FieldReading)
    rest,        \* the text that is not parsed yet
    data,        \* the ParsedData: a record for each field
    handled      \* history: [line, err] for each line that was parsed

vars == <<message, rest, data, handled>>

-----------------------------------------------------------------------------
(***************************************************************************)
(* T::parse of the field templates.                                        *)
(***************************************************************************)
\* IntField: the uint32_t is assigned to a member that may be narrower.
Narrow(decoded, range) == [decoded EXCEPT !.field.number = @ % range]

ParseInt(f, field, s) == Narrow(StoreNumber(ParseNum(0, f.unit, s), field), f.range)

Absent(field, s) == Decoded(Parsed(<<>>, Len(s) + 1), [field EXCEPT !.present = FALSE])

\* What a meter writes for an M-Bus device that is not there.
IsSentinel(f, s) ==
  \/ f.type = "OptionalMbusIntField" /\ s = <<"(", ")">>
  \/ f.type = "OptionalMbusTimestampedFixedField" /\ s = <<"(", "0", ")">>

IntType      == {"IntField", "OptionalMbusIntField"}
StampedType  == {"TimestampedFixedField", "OptionalMbusTimestampedFixedField"}
DoubleType   == "DoubleLineTimestampedFixedField"
Template     == {"RawField", "StringField", "TimestampField", "FixedField", DoubleType}
                  \cup IntType \cup StampedType

\* A field is a class of its own: ParsedData cannot inherit one twice.
ASSUME FieldsAssumption ==
  /\ Fields \in Seq(ToSet(Fields))
  /\ \A i, j \in DOMAIN Fields : Fields[i].name = Fields[j].name => i = j
  /\ \A i \in DOMAIN Fields : Fields[i].type \in Template

ParseField(f, field, s, after) ==
  IF IsSentinel(f, s) THEN Absent(field, s)
  ELSE CASE f.type = "RawField"       -> raw(field, s)
         [] f.type = "StringField"    -> string(field, f.min, f.max, s)
         [] f.type = "TimestampField" -> timestamp(field, s)
         [] f.type = "FixedField"     -> fixed(field, f.unit, s)
         [] f.type \in IntType        -> ParseInt(f, field, s)
         [] f.type \in StampedType    -> timestampedFixed(field, f.unit, s)
         [] f.type = DoubleType       -> doubleLineTimestampedFixed(field, f.unit, s, after)

-----------------------------------------------------------------------------
(***************************************************************************)
(* ParsedData::parse_line and P1Parser::parse_line: [err, next, data].     *)
(***************************************************************************)
Outcome(err, next, d) == [err |-> err, next |-> next, data |-> d]

\* Mutant of Mark: a field that refuses its value stays marked.
StayMarked(res) == res.field

Mark(res) == IF res.err = "" THEN res.field ELSE [res.field EXCEPT !.present = FALSE]

Store(f, res) == Outcome(res.err, res.next, [data EXCEPT ![f.name] = Mark(res)])

\* The field is marked present before its value is parsed.
Offer(f, s, after) ==
  IF data[f.name].present THEN Outcome("Duplicate field", 0, data)
  ELSE Store(f, ParseField(f, [data[f.name] EXCEPT !.present = TRUE], s, after))

FieldsOf(id) == {i \in DOMAIN Fields : Fields[i].id = id}

FirstOf(indices) == Fields[CHOOSE i \in indices : \A j \in indices : i <= j]

\* Without a field for the id, next stays where the value begins.
Dispatch(id, s, after) ==
  IF FieldsOf(id) = {} THEN Outcome("", 1, data)
  ELSE Offer(FirstOf(FieldsOf(id)), s, after)

ClearPresent(d, id) ==
  IF FieldsOf(id) = {} THEN d
  ELSE [d EXCEPT ![FirstOf(FieldsOf(id)).name].present = FALSE]

\* Mutant of CheckWhole: what is behind the value is not looked at.
AnyEnd(res, id, s) == res

\* A value that the field has begun must be the whole of the line, or more.
CheckWhole(res, id, s) ==
  IF res.err = "" /\ res.next # 1 /\ res.next <= Len(s)
  THEN Outcome("Trailing characters on data line", 0, ClearPresent(res.data, id))
  ELSE res

\* Without a field, or with a value up to the end, the next line follows; a
\* value may have read that one too.
Advance(line, from, res) ==
  LET next == IF res.next = 1 THEN Len(line) + 1 ELSE from - 1 + res.next
  IN  [res EXCEPT !.next = IF next > Len(line) + 1 THEN next ELSE Len(line) + 2]

BehindId(line, after, id, s) ==
  IF id.err # "" THEN Outcome(id.err, 0, data)
  ELSE Advance(line, id.next, CheckWhole(Dispatch(id.value, s, after), id.value, s))

\* A line that is not empty, without unknown_error; next is a position of
\* the line and the text after it.
ParseId(line, after, id) == BehindId(line, after, id, From(line, id.next))

ParseLine(line, after) == ParseId(line, after, ParseObisId(line))

-----------------------------------------------------------------------------
(***************************************************************************)
(* The lines of the text one after another; an empty one is passed over,   *)
(* a malformed one skipped.                                                *)
(***************************************************************************)
LineEnd == FirstIn({"CR", "LF"}, rest)

EmptyLine ==
  /\ rest # <<>> /\ LineEnd = 1
  /\ rest' = Tail(rest)
  /\ UNCHANGED <<message, data, handled>>

HandleLine(line, res) ==
  /\ data' = res.data
  /\ rest' = From(rest, IF res.err = "" THEN res.next ELSE LineEnd + 1)
  /\ handled' = Append(handled, [line |-> line, err |-> res.err])
  /\ UNCHANGED message

DataLine ==
  LET line == SubSeq(rest, 1, LineEnd - 1)
  IN  /\ rest # <<>> /\ LineEnd > 1
      /\ HandleLine(line, ParseLine(line, From(rest, LineEnd)))

Next == EmptyLine \/ DataLine
=============================================================================
