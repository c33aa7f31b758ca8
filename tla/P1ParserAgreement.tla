-------------------------- MODULE P1ParserAgreement -------------------------
(***************************************************************************)
(* Two readings of one line of the wire.  P1PacketAccumulator::process     *)
(* sees it byte by byte and decides at the first byte that settles the     *)
(* suffix; P1Parser::parse sees the text afterwards, up to the end of the  *)
(* line (src/src/dsmr3/reader3.h, parser3.h; DESIGN.md gives one table of  *)
(* suffixes for the library).  Both are written out in the code, down to   *)
(* their own CRC loop, so that they can disagree.                          *)
(*                                                                         *)
(* A fresh accumulator hears the bytes of the line, from the '/' on, until *)
(* it has decided; the text goes on to the end of the line.                *)
(***************************************************************************)
EXTENDS P1PacketAccumulator

CONSTANT MaxText        \* bound: longest text

ASSUME MaxTextAssumption == MaxText \in Nat

VARIABLES
    text,     \* the bytes of the wire, up to the end of the line
    verdict   \* the accumulator's first result but WAITING

Parser == INSTANCE P1Parser

allVars == <<vars, text, verdict>>

HasMarker    == \E i \in DOMAIN text : text[i] = End
LineHasEnded == HasMarker /\ Last(text) \in EndOfLine

InitAgreement == Init /\ text = <<>> /\ verdict = "WAITING"

\* The next byte of the line, heard by an undecided accumulator ...
Hear(c) ==
  /\ verdict = "WAITING"
  /\ Process(c)
  /\ verdict' = result'
  /\ text' = Append(text, c)

\* ... or only part of the text.
ReadOn(c) ==
  /\ verdict # "WAITING"
  /\ text' = Append(text, c)
  /\ UNCHANGED <<vars, verdict>>

NextByte ==
  /\ Len(text) < MaxText /\ ~LineHasEnded
  /\ \E c \in IF text = <<>> THEN {Start} ELSE Byte : Hear(c) \/ ReadOn(c)

SpecAgreement == InitAgreement /\ [][NextByte]_allVars

-----------------------------------------------------------------------------
(***************************************************************************)
(* Properties                                                              *)
(***************************************************************************)
HexSuffix == \A i \in DOMAIN Parser!Suffix(text) : isxdigit(Parser!Suffix(text)[i])

\* What parse() accepts of a whole line the reader has accepted, with the
\* same body, if the suffix is made of hexadecimal digits.
ParserAcceptsOnlyWhatReaderHeld ==
  LineHasEnded /\ HexSuffix =>
    LET parsed == Parser!Parse(text)
    IN  parsed.err = "" => verdict = "COMPLETE" /\ parsed.body = buffer

\* What the reader has accepted parse() accepts: the telegram as it was heard,
\* up to the byte that decided, gives the same body.
ReaderHoldsOnlyWhatParserAccepts ==
  verdict = "COMPLETE" =>
    LET parsed == Parser!Parse(framed \o suffix)
    IN  parsed.err = "" /\ parsed.body = buffer

\* CompleteRaw() hands out a telegram that parse() accepts again: the digits
\* it prints are the CRC of the bytes it prints them after.
CompleteRawParses ==
  verdict = "COMPLETE" /\ buffer # <<>> =>
    LET parsed == Parser!Parse(Parser!CompleteRaw(buffer, last_crc_present, crc))
    IN  parsed.err = "" /\ parsed.body = buffer

\* parse() blames the byte the reader stumbled on: both reject a checksum
\* that does not match as a mismatch and a short one as malformed.
SameReason ==
  LineHasEnded /\ HexSuffix =>
    /\ verdict = "CHECKSUM_MISMATCH" /\ Len(Parser!Suffix(text)) = CRC_LEN
         => Parser!Parse(text).err = "Checksum mismatch"
    /\ verdict = "MALFORMED_CHECKSUM"
         => Parser!Parse(text).err = "Incomplete or malformed checksum"

\* "Non-hex data" behind the '!' is rejected (DESIGN.md, table of suffixes):
\* an accepted suffix is empty or made of hexadecimal digits.
NonHexIsRejected ==
  LineHasEnded /\ Parser!Parse(text).err = "" => HexSuffix
=============================================================================
