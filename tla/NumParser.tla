------------------------------ MODULE NumParser -----------------------------
(***************************************************************************)
(* NumParser::parse (src/src/dsmr3/parser3.h): a number in parentheses,    *)
(*                                                                         *)
(*     ( digits [. digits] [* unit] )                                      *)
(*                                                                         *)
(* as an unsigned word, scaled by 10^max_decimals; a unit with an m before *)
(* it stands for the value in thousandths already.  unit is <<>> for a     *)
(* number without one.                                                     *)
(*                                                                         *)
(* s is the text from str to end; a position is an index of s, Len(s) + 1  *)
(* is end.  What a parser returns is [err, value, next], next one behind   *)
(* the last character it has read.                                         *)
(***************************************************************************)
EXTENDS Characters, SequencesExt

CONSTANT WordRange     \* number of values of a uint32_t (2^32)

\* value * 10 + digit, over the digits of a text, in a uint32_t.
Accumulate(value, digits) ==
  FoldLeft(LAMBDA v, c : (10 * v + HexValue(c)) % WordRange, value, digits)

-----------------------------------------------------------------------------
\* The first position from i on where P holds, or the end of s.
FirstFrom(s, i, P(_)) ==
  CHOOSE k \in i .. Len(s) + 1 :
    /\ k <= Len(s) => P(s[k])
    /\ \A j \in i .. k - 1 : ~P(s[j])

\* Up to position k of s.
Slice(s, i, k) == SubSeq(s, i, k - 1)

HasAt(s, k, c) == k <= Len(s) /\ s[k] = c

IntEnd(s) == FirstFrom(s, 2, LAMBDA c : c \in {"*", ".", ")"})

\* From here on i, d and e are where integer, decimals and unit end: num_end
\* at three moments.  The decimals end behind all of them, the ones too many
\* included.
DecimalsEnd(max_decimals, s, i) ==
  IF max_decimals > 0 /\ HasAt(s, i, ".")
  THEN FirstFrom(s, i + 1, LAMBDA c : ~IsDigit(c)) ELSE i

\* Mutant of Decimals: one too few is taken of those that are too many.
OneTooFew(max_decimals, s, i, d) ==
  IF d = i THEN <<>>
  ELSE IF d - i - 1 > max_decimals THEN Slice(s, i + 1, i + max_decimals)
  ELSE Slice(s, i + 1, d)

Decimals(max_decimals, s, i, d) ==
  IF d = i THEN <<>>
  ELSE IF d - i - 1 > max_decimals THEN Slice(s, i + 1, i + 1 + max_decimals)
  ELSE Slice(s, i + 1, d)

UnitStart(s, d) == IF HasAt(s, d, "*") THEN d + 1 ELSE d

\* Where the unit, if the field has one, and with it the number ends.
NumEnd(unit, s, d) ==
  IF unit = <<>> THEN d ELSE FirstFrom(s, UnitStart(s, d), LAMBDA c : c = ")")

\* Mutant of InMilliUnits: the m of the unit is not looked at.
NeverMilli(unit, s, d, e) == FALSE

InMilliUnits(unit, s, d, e) ==
  unit # <<>> /\ Slice(s, UnitStart(s, d), e) = <<"m">> \o unit

\* Missing decimals are zeros, unless the unit has supplied them.
Value(max_decimals, whole, decimals, isMilli) ==
  LET digits == Accumulate(Accumulate(0, whole), decimals)
  IN  IF isMilli THEN digits
      ELSE (digits * 10 ^ (max_decimals - Len(decimals))) % WordRange

-----------------------------------------------------------------------------
Fail(err)     == [err |-> err, value |-> 0, next |-> 0]
Succeed(v, k) == [err |-> "", value |-> v, next |-> k]

Result(max_decimals, unit, s, i, d, e) ==
  IF unit # <<>> /\ d > Len(s) THEN Fail("Missing unit")
  ELSE IF ~HasAt(s, e, ")") THEN Fail("Extra data")
  ELSE Succeed(Value(max_decimals, Slice(s, 2, i), Decimals(max_decimals, s, i, d),
                     InMilliUnits(unit, s, d, e)), e + 1)

BehindDecimals(max_decimals, unit, s, i, d) ==
  Result(max_decimals, unit, s, i, d, NumEnd(unit, s, d))

BehindInteger(max_decimals, unit, s, i) ==
  IF \E k \in 2 .. i - 1 : ~IsDigit(s[k]) THEN Fail("Invalid number")
  ELSE BehindDecimals(max_decimals, unit, s, i, DecimalsEnd(max_decimals, s, i))

ParseNum(max_decimals, unit, s) ==
  IF ~HasAt(s, 1, "(") THEN Fail("Missing (")
  ELSE BehindInteger(max_decimals, unit, s, IntEnd(s))
=============================================================================
