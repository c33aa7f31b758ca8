----------------------------- MODULE CrcParser ------------------------------
(***************************************************************************)
(* CrcParser::parse (src/src/dsmr3/parser3.h): the characters after the    *)
(* '!' read as a hexadecimal number by strtoul(buf, &endp, 16).            *)
(*                                                                         *)
(* strtoul belongs to the C library; what it accepts is modelled because   *)
(* it is wider than four hexadecimal digits: leading white space, a sign   *)
(* and an 0x prefix are part of the number, so that "0x1F" and " -1F" end  *)
(* at endp = buf + 4 as well.  Characters are one-character strings.       *)
(***************************************************************************)
EXTENDS Characters, SequencesExt

CONSTANT CRC_LEN        \* CrcParser::CRC_LEN, 4 in the code

ASSUME CrcLenAssumption == CRC_LEN \in Nat \ {0}

Space    == {" ", "HT", "LF", "VT", "FF", "CR"}

-----------------------------------------------------------------------------
\* The part of s that strtoul reads as digits, once white space, sign and
\* prefix are behind it.
LeadingSpaces(s) ==
  CHOOSE k \in 0 .. Len(s) : /\ \A i \in 1 .. k : s[i] \in Space
                             /\ k < Len(s) => s[k + 1] \notin Space

AfterSpace(s) == SubSeq(s, LeadingSpaces(s) + 1, Len(s))

IsSigned(s) == s # <<>> /\ Head(s) \in {"+", "-"}

AfterSign(s) == IF IsSigned(s) THEN Tail(s) ELSE s

HasPrefix(s) ==
  Len(s) > 2 /\ s[1] = "0" /\ s[2] \in {"x", "X"} /\ isxdigit(s[3])

AfterPrefix(s) == IF HasPrefix(s) THEN SubSeq(s, 3, Len(s)) ELSE s

Digits(s) == AfterPrefix(AfterSign(AfterSpace(s)))

IsNegative(s) == IsSigned(AfterSpace(s)) /\ Head(AfterSpace(s)) = "-"

HexNumber(digits) == FoldLeft(LAMBDA v, d : 16 * v + HexValue(d), 0, digits)

\* What CrcParser::parse returns for CRC_LEN characters: ok unless endp stops
\* before the last of them; the value is truncated to a uint16_t, and a minus
\* sign negates it as an unsigned number.
ParseCrc(s) ==
  LET digits    == Digits(s)
      magnitude == HexNumber(digits) % 65536
  IN  IF digits # <<>> /\ \A i \in 1 .. Len(digits) : isxdigit(digits[i])
      THEN [ok |-> TRUE,
            value |-> IF IsNegative(s) THEN (65536 - magnitude) % 65536
                                       ELSE magnitude]
      ELSE [ok |-> FALSE, value |-> 0]

\* What is left of v without its last k hexadecimal digits.
Shifted(v) ==
  LET shifted[k \in 0 .. CRC_LEN] == IF k = 0 THEN v ELSE shifted[k - 1] \div 16
  IN  shifted

\* The digits snprintf("%04X") prints for a CRC, CompleteRaw()'s suffix.
UpperDigits(v) ==
  [i \in 1 .. CRC_LEN |-> UpperHex[(Shifted(v)[CRC_LEN - i] % 16) + 1]]

\* Mutant of FormatCrc: snprintf("%X"), without leading zeros.
UnpaddedCrc(v) ==
  LET zeros == CHOOSE k \in 0 .. CRC_LEN - 1 :
                 /\ \A i \in 1 .. k : UpperDigits(v)[i] = "0"
                 /\ k < CRC_LEN - 1 => UpperDigits(v)[k + 1] # "0"
  IN  SubSeq(UpperDigits(v), zeros + 1, CRC_LEN)

FormatCrc(v) == UpperDigits(v)
=============================================================================
