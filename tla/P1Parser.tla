------------------------------ MODULE P1Parser ------------------------------
(***************************************************************************)
(* P1Parser::parse (src/src/dsmr3/parser3.h): a whole telegram as text,    *)
(*                                                                         *)
(*     '/' body '!' [CRC_LEN characters] [end of line ...]                 *)
(*                                                                         *)
(* framed and verified in one go, before its body is handed to parse_data  *)
(* (P1DataParser).  A position is an index of the text, from 1; the code's *)
(* end of the text, str + n, is Len(str) + 1.  Characters are those of     *)
(* CrcParser.                                                              *)
(***************************************************************************)
EXTENDS CrcParser

CONSTANT CrcOf(_)       \* the CRC of a sequence of characters

EndMark   == {"!"}
EndOfLine == {"CR", "LF"}

\* The first character of S from position i on, or the end of the text.
FirstOf(S, str, i) ==
  CHOOSE k \in i .. Len(str) + 1 :
    /\ k <= Len(str) => str[k] \in S
    /\ \A j \in i .. k - 1 : str[j] \notin S

data_end(str) == FirstOf(EndMark, str, 2)

next_of(str) == FirstOf(EndOfLine, str, data_end(str) + 1)

Suffix(str) == SubSeq(str, data_end(str) + 1, next_of(str) - 1)

\* Mutant of Covered: the CRC stops before the '!'.
WithoutMarker(str) == SubSeq(str, 1, data_end(str) - 1)

\* What the CRC is computed over: everything up to and with the '!'.
Covered(str) == SubSeq(str, 1, data_end(str))

-----------------------------------------------------------------------------
(***************************************************************************)
(* The result: err is "" or why the text was rejected, ctx where; body is  *)
(* what parse_data gets and next the first character behind the suffix.    *)
(***************************************************************************)
Fail(err, ctx)    == [err |-> err, ctx |-> ctx, body |-> <<>>, next |-> 0]
Frame(body, next) == [err |-> "", ctx |-> 0, body |-> body, next |-> next]

\* Mutant of CheckSuffix: the length of the suffix is not looked at.
AnyLength(str) ==
  IF Suffix(str) # <<>> /\ ParseCrc(Suffix(str)).value # CrcOf(Covered(str))
  THEN "Checksum mismatch" ELSE ""

\* What is wrong with the suffix of a text whose end marker was found.
CheckSuffix(str) ==
  LET check_res == ParseCrc(Suffix(str))
  IN  IF Suffix(str) = <<>> THEN ""
      ELSE IF Len(Suffix(str)) # CRC_LEN \/ ~check_res.ok
           THEN "Incomplete or malformed checksum"
      ELSE IF check_res.value # CrcOf(Covered(str)) THEN "Checksum mismatch"
      ELSE ""

Parse(str) ==
  IF str = <<>> \/ Head(str) # "/" THEN Fail("Data should start with /", 1)
  ELSE IF data_end(str) > Len(str)
       THEN Fail("No telegram end marker found", data_end(str))
  ELSE IF CheckSuffix(str) # ""
       THEN Fail(CheckSuffix(str), data_end(str) + 1)
  ELSE Frame(SubSeq(str, 2, data_end(str) - 1), next_of(str))

\* CompleteRaw() of both readers: the telegram as text again, or nothing.
CompleteRaw(body, hasCrc, crc) ==
  IF body = <<>> THEN <<>>
  ELSE <<"/">> \o body \o <<"!">> \o (IF hasCrc THEN FormatCrc(CrcOf(crc)) ELSE <<>>)
=============================================================================
