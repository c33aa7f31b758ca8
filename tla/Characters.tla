----------------------------- MODULE Characters ------------------------------
(***************************************************************************)
(* Characters are one-character strings, a text is a sequence of them; an  *)
(* end of line is the characters "CR" and "LF".  The digits of numbers,    *)
(* decimal and hexadecimal.                                                *)
(***************************************************************************)
EXTENDS Naturals, Sequences

\* The characters of a string.
Text(str) == [k \in 1 .. Len(str) |-> SubSeq(str, k, k)]

\* The part of a text from a position on.
From(s, k) == SubSeq(s, k, Len(s))

UpperHex == <<"0", "1", "2", "3", "4", "5", "6", "7",
              "8", "9", "A", "B", "C", "D", "E", "F">>
LowerHex == [UpperHex EXCEPT ![11] = "a", ![12] = "b", ![13] = "c",
                             ![14] = "d", ![15] = "e", ![16] = "f"]

HexDigit == {"0", "1", "2", "3", "4", "5", "6", "7", "8", "9",
             "A", "B", "C", "D", "E", "F", "a", "b", "c", "d", "e", "f"}

isxdigit(c) == c \in HexDigit

HexValue(c) == (CHOOSE i \in 1 .. 16 : c \in {UpperHex[i], LowerHex[i]}) - 1

Decimal       == SubSeq(UpperHex, 1, 10)
IsDigit(c)    == c \in HexDigit /\ HexValue(c) < 10
TwoDigits(n)  == <<Decimal[n \div 10 + 1], Decimal[(n % 10) + 1]>>
=============================================================================
