--------------------------- MODULE MCFieldReading ---------------------------
(***************************************************************************)
(* Readings for TLC: for every field of the catalogue some values in every *)
(* form of its id; for one field of each shape many more values; damaged   *)
(* ones; pairs of readings for one field, or for two.                      *)
(***************************************************************************)
EXTENDS FieldReading

Named(name) == CHOOSE f \in FieldSet : f.name = name

N(whole, decimals, unit) ==
  [whole |-> Text(whole), decimals |-> Text(decimals), unit |-> unit]

NumberValue(n)   == [shape |-> "number", number |-> n]
Verbatim(s)      == [shape |-> "verbatim", text |-> s]
Absence(s)       == [shape |-> "absent", text |-> Text(s)]

TextOf(n) == [shape |-> "text", text |-> [k \in 1 .. n |-> "A"]]

Stamps == {Text("150117180000W"), Text("150117180000")}

StampedValue(stamp, n, first) ==
  [shape |-> "stamped", stamp |-> stamp, number |-> n, first |-> first]

DoubleValue(n, unit) ==
  [shape |-> "double", stamp |-> Text("150623120000"), number |-> n, unit |-> Text(unit)]

Instants ==
  {[year |-> y, rest |-> r, summer |-> b] :
     y \in {1999, 2000, 2024, 2099, 2100}, b \in BOOLEAN,
     r \in {<<1, 1, 0, 0, 0>>, <<12, 31, 23, 59, 59>>, <<13, 1, 0, 0, 0>>,
            <<1, 32, 0, 0, 0>>, <<1, 0, 0, 0, 0>>, <<10, 27, 24, 0, 0>>}}

Noon == [year |-> 2024, rest |-> <<10, 27, 12, 0, 9>>, summer |-> TRUE]

InstantValue(t, format) == [shape |-> "instant", instant |-> t, format |-> format]

\* The values every field is tried with.
Sample(f) ==
  CASE f.type = "RawField"       -> {Verbatim(Text("(2)(x"))}
    [] f.type = "StringField"    -> {TextOf(n) : n \in {0, 1, 2, 3, 4, 5, 16, 17, 96, 97}}
    [] f.type = "TimestampField" -> {InstantValue(Noon, format) : format \in {"DSMR", "DLMS"}}
    [] f.type = "FixedField"     -> {NumberValue(N("12", "345", f.unit))}
    [] f.type \in IntType        -> {NumberValue(N("00255", "", <<>>))}
    [] f.type \in StampedType    -> {StampedValue(stamp, N("7", "25", f.unit), first) :
                                       stamp \in Stamps, first \in {"timestamp", "number"}}
    [] f.type = DoubleType       -> {DoubleValue(N("011", "658", <<>>), "m3"),
                                     DoubleValue(N("011", "658", <<>>), "kW")}

\* Ids written for a field's: short, in full, with the channel 1.
Parts(f) ==
  {SubSeq(f.id, 1, 5), f.id}
    \cup (IF f.id[1] = 1 THEN {[SubSeq(f.id, 1, 5) EXCEPT ![2] = 1]} ELSE {})

Reading(parts, zeros, value, tail) ==
  [parts |-> parts, zeros |-> zeros, value |-> value, tail |-> tail]

Plain(f, value) == Reading(SubSeq(f.id, 1, 5), FALSE, value, <<>>)

EveryField ==
  UNION {{Reading(parts, zeros, value, <<>>) :
            parts \in Parts(f), zeros \in BOOLEAN, value \in Sample(f)} : f \in FieldSet}

\* Ids that are none of a field: a byte too large, or another one.
Tariff == Named("energy_delivered_tariff1")

WrongId ==
  {Reading([Tariff.id EXCEPT ![k] = n], FALSE, v, <<>>) :
     k \in 1 .. 6, n \in {0, 1, 2, 8, 255, 256, 257, 264, 300, 999}, v \in Sample(Tariff)}
  \cup {Reading(SubSeq(Tariff.id, 1, k), FALSE, v, <<>>) : k \in 1 .. 4, v \in Sample(Tariff)}

\* All numbers over two digits.
Digits(n) == {w \in BoundedSeq({"0", "9"}, n) : w # <<>>}

Numbers(places, units) ==
  [whole : Digits(2), decimals : {<<>>} \cup Digits(places), unit : units]

Current == Named("current_l1")
Gas     == Named("mbus1_delivered")
Dbl     == Named("mbus2_delivered_dbl")
Valve   == Named("mbus3_valve_position")
Type    == Named("mbus4_device_type")

EveryNumber ==
  {Plain(Current, NumberValue(n)) : n \in Numbers(4, {<<>>, <<"A">>, <<"m", "A">>, <<"V">>})}
  \cup {Plain(f, NumberValue(N(w, "", <<>>))) :
          f \in {Valve, Type}, w \in {"0", "9", "255", "256", "00099"}}
  \cup {Plain(Dbl, DoubleValue(n, "m3")) : n \in Numbers(4, {<<>>})}

EveryInstant ==
  {Plain(Named("timestamp"), InstantValue(t, format)) :
     t \in Instants, format \in {"DSMR", "DLMS"}}

\* The example of the source has a number of twelve characters.
MeterReading == N("00473", "789", Text("m3"))

Order ==
  {Plain(Gas, StampedValue(stamp, n, first)) : stamp \in Stamps, first \in {"timestamp", "number"},
     n \in Numbers(2, {Text("m3"), <<>>}) \cup {MeterReading, N("0473", "7", Text("m3"))}}

\* A character lost, replaced, or something behind the value.
Damaged ==
  LET Broken(s) == {RemoveAt(s, k) : k \in DOMAIN s}
                     \cup {ReplaceAt(s, k, c) : k \in DOMAIN s, c \in {"(", ")", ".", "*", "x", "1"}}
      Few(f)    == {Plain(Current, NumberValue(N("09", "1", <<"A">>))),
                    Plain(Gas, StampedValue(Text("150117180000W"), N("7", "25", Text("m3")), "number")),
                    Plain(Named("electricity_tariff"), TextOf(4)),
                    Plain(Type, NumberValue(N("03", "", <<>>)))}
  IN  UNION {{[r EXCEPT !.value = Verbatim(s)] : s \in Broken(ValueText(r.value))}
               \cup {[r EXCEPT !.tail = Text(t)] : t \in {"x", "()", "(0)", ")"}} :
             r \in Few(Current)}

\* Readings of one device, or two, some of them of no use.
Repeated ==
  LET n == N("7", "25", Text("m3")) IN
  {Plain(Gas, StampedValue(Text("150117180000W"), n, first)) : first \in {"timestamp", "number"}}
    \cup {Plain(Gas, Absence("(0)")), Plain(Type, Absence("()")),
          Plain(Type, NumberValue(N("3", "", <<>>))),
          Plain(Gas, Verbatim(Text("(150118190000S)(bad)"))),
          Plain(Gas, Verbatim(Text("(00001*m3)"))),
          [Plain(Gas, StampedValue(Text("150119200000S"), N("8", "", Text("m3")), "timestamp"))
             EXCEPT !.tail = <<"x">>],
          Plain(Gas, StampedValue(Text("150120210000S"), N("9", "", Text("m3")), "timestamp")),
          Plain(Dbl, DoubleValue(N("011", "658", <<>>), "m3")),
          Plain(Dbl, Verbatim(Text("(150623120002)(00)(60)(1)(0-1:24.2.1)(m3)") \o EndOfLine
                                \o Text("(011.x)"))),
          Plain(Dbl, Verbatim(Text("(150623120001)(00)(60)(1)(0-1:24.2.1)(m3)")))}

MCMessage ==
  {<<r>> : r \in EveryField \cup WrongId \cup EveryNumber \cup EveryInstant \cup Order \cup Damaged}
    \cup (Repeated \X Repeated)

\* What the theorem about AcceptedIsWhole asks of a reading is so for every
\* one that is neither damaged nor written on two lines.
ASSUME OneLineEach ==
  \A m \in Message : \A i \in DOMAIN m :
    m[i].value.shape \notin {"verbatim", "double"} => IsOneLine(m[i])
=============================================================================
