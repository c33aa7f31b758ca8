---------------------- MODULE P1ParserAgreementProofs -----------------------
(***************************************************************************)
(* Proofs about P1ParserAgreement, for lines of any length, every set of   *)
(* bytes, CRC function and number of CRC digits.                           *)
(***************************************************************************)
EXTENDS P1ParserAgreement, P1PacketAccumulatorProofs

(***************************************************************************)
(* The inductive invariant: what the bytes heard so far say about the text *)
(***************************************************************************)
\* The first end marker of a text is its d-th byte.
MarkerAt(t, d) ==
  /\ d \in 2 .. Len(t)
  /\ t[d] = End
  /\ \A j \in 2 .. d - 1 : t[j] # End

AllHex(t, i, k) == \A j \in i .. k : t[j] \in HexDigit

Begins(t, w) ==
  /\ Len(w) <= Len(t)
  /\ \A i \in 1 .. Len(w) : t[i] = w[i]

\* Fewer than CRC_LEN digits follow the marker, then a byte that is neither
\* a digit nor an end of line right behind the marker.
ShortSuffix(t) ==
  \E d, k \in 1 .. Len(t) :
    /\ MarkerAt(t, d)
    /\ d < k /\ k - d <= CRC_LEN
    /\ AllHex(t, d + 1, k - 1)
    /\ t[k] \notin HexDigit
    /\ k = d + 1 => t[k] \notin EndOfLine

\* CRC_LEN digits follow the marker, and their value is not the CRC.
WrongSuffix(t) ==
  \E d \in 1 .. Len(t) :
    /\ MarkerAt(t, d)
    /\ d + CRC_LEN <= Len(t)
    /\ AllHex(t, d + 1, d + CRC_LEN)
    /\ ParseCrc(SubSeq(t, d + 1, d + CRC_LEN)).value # CrcOf(SubSeq(t, 1, d))

\* What holds of the text whatever was decided ...
TextInv ==
  /\ text \in Seq(Byte) /\ Len(text) <= MaxText
  /\ text # <<>> => text[1] = Start
  /\ verdict \in Result
  /\ verdict # "WAITING" => state = "WAITING_STATE"
  /\ buffer \in Seq(Byte \ {End})

\* ... before the decision ...
UndecidedInv ==
  verdict = "WAITING" =>
    /\ text = framed \o suffix
    /\ diag.crc_mode = "DETECTING"
    /\ state = "WAITING_STATE" => text = <<>>

\* ... and after it, for every verdict.
DecidedInv ==
  /\ verdict = "COMPLETE" =>
       /\ framed = <<Start>> \o buffer \o <<End>> /\ Begins(text, framed)
       /\ SuffixVerified
       /\ last_crc_present => suffix \in Seq(HexDigit) /\ crc = framed
  /\ verdict = "BUFFER_OVERFLOW" => Len(text) > capacity
  /\ verdict = "MALFORMED_CHECKSUM" => ShortSuffix(text)
  /\ verdict = "CHECKSUM_MISMATCH" => WrongSuffix(text)

AgreementInv == TextInv /\ UndecidedInv /\ DecidedInv

(***************************************************************************)
(* The accumulator's own theorems hold while it listens to a line          *)
(***************************************************************************)
\* A byte of the line is a step of the accumulator, or none
\* (P1PacketAccumulator::process).
LEMMA ListensToBytes == [NextByte]_allVars => [Next]_vars
<1> SUFFICES ASSUME NextByte PROVE [Next]_vars
  BY DEF allVars
<1>1. PICK c \in IF text = <<>> THEN {Start} ELSE Byte : Hear(c) \/ ReadOn(c)
  BY DEF NextByte
<1>2. c \in Byte
  BY ByteAssumption
<1>3. QED
  BY <1>1, <1>2 DEF Hear, ReadOn, Next

\* Types and frame, as P1PacketAccumulatorProofs has them.
LEMMA AccumulatorInv == SpecAgreement => [](TypeOK /\ FrameInv)
<1>1. InitAgreement => TypeOK /\ FrameInv
  <2>1. Init => TypeOK
    BY InitialValues DEF Init, TypeOK, State, Result
  <2>2. Init => FrameInv
    BY DEF Init, FrameInv, HeldTelegramIsIntact
  <2>3. QED
    BY <2>1, <2>2 DEF InitAgreement
<1>2. TypeOK /\ FrameInv /\ [NextByte]_allVars => TypeOK' /\ FrameInv'
  BY ListensToBytes, TypeStep, FrameInvStep
<1>3. QED
  BY <1>1, <1>2, PTL DEF SpecAgreement

(***************************************************************************)
(* A text that grows                                                       *)
(***************************************************************************)
\* A byte appended to two parts is appended to the second ...
LEMMA SecondPartGrows ==
  ASSUME NEW S, NEW a \in Seq(S), NEW b \in Seq(S), NEW c \in S,
         NEW w, w = Append(b, c)
  PROVE  Append(a \o b, c) = a \o w
<1>1. <<c>> \in Seq(S) /\ a \o b \in Seq(S)
  BY ConcatProperties
<1>2. Append(a \o b, c) = (a \o b) \o <<c>> /\ Append(b, c) = b \o <<c>>
  BY <1>1, AppendIsConcat
<1>3. (a \o b) \o <<c>> = a \o (b \o <<c>>)
  BY <1>1, ConcatAssociative
<1>4. QED
  BY <1>2, <1>3

\* ... or to the first when there is no second.
LEMMA FirstPartGrows ==
  ASSUME NEW S, NEW a \in Seq(S), NEW c \in S
  PROVE  Append(a \o <<>>, c) = Append(a, c) \o <<>>
<1>1. Append(a, c) \in Seq(S)
  OBVIOUS
<1>2. a \o <<>> = a /\ Append(a, c) \o <<>> = Append(a, c)
  BY <1>1, ConcatEmptySeq
<1>3. QED
  BY <1>2

\* The first bytes of a text stay when it grows.
LEMMA GrownText ==
  ASSUME NEW S, NEW t \in Seq(S), NEW c \in S
  PROVE  /\ Append(t, c) \in Seq(S)
         /\ Len(Append(t, c)) = Len(t) + 1
         /\ \A i \in 1 .. Len(t) : Append(t, c)[i] = t[i]
         /\ Append(t, c)[Len(t) + 1] = c
         /\ \A m, n \in Nat : m >= 1 /\ n <= Len(t) => SubSeq(Append(t, c), m, n) = SubSeq(t, m, n)
<1>1. /\ Append(t, c) \in Seq(S)
      /\ Len(Append(t, c)) = Len(t) + 1
      /\ \A i \in 1 .. Len(t) : Append(t, c)[i] = t[i]
      /\ Append(t, c)[Len(t) + 1] = c
  BY AppendProperties
<1>2. ASSUME NEW m \in Nat, NEW n \in Nat, m >= 1, n <= Len(t)
      PROVE  SubSeq(Append(t, c), m, n) = SubSeq(t, m, n)
  BY <1>1, <1>2
<1>3. QED
  BY <1>1, <1>2

\* So does the marker and what was found behind it.
LEMMA GrownMarker ==
  ASSUME NEW t \in Seq(Byte), NEW c \in Byte, NEW d, MarkerAt(t, d)
  PROVE  MarkerAt(Append(t, c), d)
BY GrownText DEF MarkerAt

\* What settles a line settles every line that begins with it.
LEMMA GrownDecision ==
  ASSUME NEW t \in Seq(Byte), NEW c \in Byte
  PROVE  /\ \A w \in Seq(Byte) : Begins(t, w) => Begins(Append(t, c), w)
         /\ ShortSuffix(t) => ShortSuffix(Append(t, c))
         /\ WrongSuffix(t) => WrongSuffix(Append(t, c))
<1> DEFINE u == Append(t, c)
<1>1. Len(u) = Len(t) + 1 /\ Len(t) \in Nat /\ \A i \in 1 .. Len(t) : u[i] = t[i]
  BY GrownText
<1>2. ASSUME NEW w \in Seq(Byte), Begins(t, w) PROVE Begins(u, w)
  BY <1>1, <1>2 DEF Begins
<1>3. ASSUME ShortSuffix(t) PROVE ShortSuffix(u)
  <2>1. PICK d \in 1 .. Len(t), k \in 1 .. Len(t) :
          /\ MarkerAt(t, d) /\ d < k /\ k - d <= CRC_LEN /\ AllHex(t, d + 1, k - 1)
          /\ t[k] \notin HexDigit /\ (k = d + 1 => t[k] \notin EndOfLine)
    BY <1>3 DEF ShortSuffix
  <2>2. MarkerAt(u, d)
    BY <2>1, GrownMarker
  <2>3. AllHex(u, d + 1, k - 1) /\ u[k] = t[k]
    BY <1>1, <2>1 DEF AllHex
  <2>4. d \in 1 .. Len(u) /\ k \in 1 .. Len(u)
    BY <1>1
  <2>5. QED
    BY <2>1, <2>2, <2>3, <2>4, Zenon DEF ShortSuffix
<1>4. ASSUME WrongSuffix(t) PROVE WrongSuffix(u)
  <2>1. PICK d \in 1 .. Len(t) :
          /\ MarkerAt(t, d) /\ d + CRC_LEN <= Len(t) /\ AllHex(t, d + 1, d + CRC_LEN)
          /\ ParseCrc(SubSeq(t, d + 1, d + CRC_LEN)).value # CrcOf(SubSeq(t, 1, d))
    BY <1>4 DEF WrongSuffix
  <2>2. MarkerAt(u, d)
    BY <2>1, GrownMarker
  <2>3. AllHex(u, d + 1, d + CRC_LEN) /\ d \in 1 .. Len(u) /\ d + CRC_LEN <= Len(u)
    BY <1>1, <2>1, CrcLenAssumption DEF AllHex
  <2>4. /\ SubSeq(u, d + 1, d + CRC_LEN) = SubSeq(t, d + 1, d + CRC_LEN)
        /\ SubSeq(u, 1, d) = SubSeq(t, 1, d)
    BY <2>1, GrownText, CrcLenAssumption
  <2>5. QED
    BY <2>1, <2>2, <2>3, <2>4, Zenon DEF WrongSuffix
<1>5. QED
  BY <1>2, <1>3, <1>4

(***************************************************************************)
(* P1Parser, over the characters and the CRC of the accumulator            *)
(***************************************************************************)
\* The value of a suffix ...
LEMMA SameHexNumber == \A s : Parser!HexNumber(s) = HexNumber(s)
BY DEF Parser!HexNumber, HexNumber, Parser!HexValue, HexValue, Parser!FoldLeft,
    FoldLeft, Parser!MapThenFoldSet, MapThenFoldSet, Parser!Max,
    Max, Parser!UpperHex, UpperHex, Parser!LowerHex, LowerHex

\* ... its digits ...
LEMMA SameDigits == \A s : Parser!Digits(s) = Digits(s)
<1>1. \A s : Parser!AfterSpace(s) = AfterSpace(s)
  BY DEF Parser!AfterSpace, AfterSpace, Parser!LeadingSpaces, LeadingSpaces,
    Parser!Space, Space
<1>2. \A s : Parser!AfterSign(s) = AfterSign(s)
  BY DEF Parser!AfterSign, AfterSign, Parser!IsSigned, IsSigned
<1>3. \A s : Parser!AfterPrefix(s) = AfterPrefix(s)
  BY DEF Parser!AfterPrefix, AfterPrefix, Parser!HasPrefix, HasPrefix,
    Parser!isxdigit, isxdigit, Parser!HexDigit, HexDigit
<1>4. QED
  BY <1>1, <1>2, <1>3 DEF Parser!Digits, Digits

\* ... and what CrcParser::parse makes of it.
LEMMA SameParse == \A s : Parser!ParseCrc(s) = ParseCrc(s)
<1>1. \A s : Parser!IsNegative(s) <=> IsNegative(s)
  BY DEF Parser!IsNegative, IsNegative, Parser!IsSigned, IsSigned, Parser!AfterSpace,
    AfterSpace, Parser!LeadingSpaces, LeadingSpaces, Parser!Space,
    Space
<1>2. \A c : Parser!isxdigit(c) <=> isxdigit(c)
  BY DEF Parser!isxdigit, isxdigit, Parser!HexDigit, HexDigit
<1>3. TAKE s
<1>4. Parser!Digits(s) = Digits(s) /\ (Parser!IsNegative(s) <=> IsNegative(s))
      /\ Parser!HexNumber(Parser!Digits(s)) = HexNumber(Parser!Digits(s))
  BY <1>1, SameDigits, SameHexNumber
<1> DEFINE digits == Digits(s)
           isHex == digits # <<>> /\ \A i \in 1 .. Len(digits) : isxdigit(digits[i])
           value == HexNumber(digits) % 65536
           negated == (65536 - value) % 65536
           parsed == IF isHex
                     THEN [ok |-> TRUE,
                           value |-> IF IsNegative(s) THEN negated ELSE value]
                     ELSE [ok |-> FALSE, value |-> 0]
<1>5. ParseCrc(s) = parsed
  BY DEF ParseCrc
<1>6. Parser!ParseCrc(s) = parsed
  <2> DEFINE itsHex == /\ Parser!Digits(s) # <<>>
                       /\ \A i \in 1 .. Len(Parser!Digits(s)) : Parser!isxdigit(Parser!Digits(s)[i])
             itsValue == Parser!HexNumber(Parser!Digits(s)) % 65536
             itsNegated == (65536 - itsValue) % 65536
  <2>1. Parser!ParseCrc(s) = IF itsHex
                          THEN [ok |-> TRUE,
                                value |-> IF Parser!IsNegative(s) THEN itsNegated ELSE itsValue]
                          ELSE [ok |-> FALSE, value |-> 0]
    BY DEF Parser!ParseCrc
  <2>2. (itsHex <=> isHex) /\ itsValue = value
    BY <1>2, <1>4
  <2>3. itsNegated = negated
    BY <2>2
  <2> HIDE DEF itsHex, itsValue, itsNegated, isHex, value, negated
  <2>4. QED
    BY <1>4, <2>1, <2>2, <2>3
<1>7. QED
  BY <1>5, <1>6

\* What CompleteRaw() prints of a CRC.
LEMMA SamePrint == \A v : Parser!FormatCrc(v) = FormatCrc(v)
<1>1. \A v : Parser!Shifted(v) = Shifted(v)
  BY DEF Parser!Shifted, Shifted
<1>2. QED
  BY <1>1 DEF Parser!FormatCrc, FormatCrc, Parser!UpperDigits, UpperDigits,
    Parser!UpperHex, UpperHex

\* Its marker and its ends of line.
LEMMA SameMarks ==
  /\ Parser!EndMark = {End} /\ Parser!EndOfLine = EndOfLine
  /\ \A s : Parser!isxdigit(s) <=> s \in HexDigit
BY DEF Parser!EndMark, End, Parser!EndOfLine, EndOfLine, CarriageReturn, LineFeed,
    Parser!isxdigit, Parser!HexDigit, HexDigit

\* A byte is one thing: a digit, the marker or an end of line.
LEMMA ByteKinds ==
  /\ Start # End /\ Start \notin HexDigit /\ End \notin HexDigit
  /\ Start \notin EndOfLine /\ End \notin EndOfLine
  /\ HexDigit \cap EndOfLine = {}
BY DEF Start, End, HexDigit, EndOfLine, CarriageReturn, LineFeed

\* The scan for a character stops where the first one is (P1Parser::parse).
LEMMA FirstIs ==
  ASSUME NEW S, NEW C, NEW t \in Seq(C), NEW i \in Nat, NEW k \in i .. Len(t) + 1,
         k <= Len(t) => t[k] \in S, \A j \in i .. k - 1 : t[j] \notin S
  PROVE  Parser!FirstOf(S, t, i) = k
<1> DEFINE P(n) == /\ n <= Len(t) => t[n] \in S
                   /\ \A j \in i .. n - 1 : t[j] \notin S
<1>1. P(k)
  OBVIOUS
<1>2. ASSUME NEW n \in i .. Len(t) + 1, P(n) PROVE n = k
  <2>1. ~(n < k)
    BY <1>2
  <2>2. ~(k < n)
    BY <1>2
  <2>3. QED
    BY <2>1, <2>2
<1>3. Parser!FirstOf(S, t, i) = CHOOSE n \in i .. Len(t) + 1 : P(n)
  BY DEF Parser!FirstOf
<1> HIDE DEF P
<1>4. QED
  BY <1>1, <1>2, <1>3

\* The body of a line ends at its first marker.
LEMMA DataEndIs ==
  ASSUME NEW C, NEW t \in Seq(C), NEW d, MarkerAt(t, d)
  PROVE  Parser!data_end(t) = d
<1>1. d \in 2 .. Len(t) + 1 /\ t[d] \in {End} /\ \A j \in 2 .. d - 1 : t[j] \notin {End}
  BY DEF MarkerAt
<1>2. Parser!FirstOf({End}, t, 2) = d
  BY <1>1, FirstIs
<1>3. QED
  BY <1>2, SameMarks DEF Parser!data_end

\* Its suffix goes up to the first end of line behind the marker.
LEMMA SuffixIs ==
  ASSUME NEW C, NEW t \in Seq(C), NEW d, MarkerAt(t, d), NEW k \in d + 1 .. Len(t) + 1,
         k <= Len(t) => t[k] \in EndOfLine, \A j \in d + 1 .. k - 1 : t[j] \notin EndOfLine
  PROVE  Parser!next_of(t) = k /\ Parser!Suffix(t) = SubSeq(t, d + 1, k - 1)
<1>1. d + 1 \in Nat
  BY DEF MarkerAt
<1>2. Parser!FirstOf(EndOfLine, t, d + 1) = k
  BY <1>1, FirstIs
<1>3. Parser!next_of(t) = k
  BY <1>2, DataEndIs, SameMarks DEF Parser!next_of
<1>4. QED
  BY <1>3, DataEndIs DEF Parser!Suffix

\* There always is one, or the text ends first.
LEMMA SuffixEnds ==
  ASSUME NEW t \in Seq(Byte), NEW d, MarkerAt(t, d)
  PROVE  \E k \in d + 1 .. Len(t) + 1 : /\ k <= Len(t) => t[k] \in EndOfLine
                                        /\ \A j \in d + 1 .. k - 1 : t[j] \notin EndOfLine
<1> DEFINE S == {j \in 1 .. Len(t) : t[j] \in EndOfLine}
<1>1. d + 1 \in Nat /\ Len(t) + 1 \in Nat /\ d + 1 <= Len(t) + 1 /\ d \in Nat /\ d >= 2
  BY DEF MarkerAt
<1> HIDE DEF S
<1>2. \E k \in d + 1 .. Len(t) + 1 : /\ k < Len(t) + 1 => k \in S
                                     /\ \A j \in d + 1 .. k - 1 : j \notin S
  BY <1>1, ScanStops
<1>3. QED
  BY <1>1, <1>2 DEF S

\* What parse() says of a text with a start and a marker depends on its
\* suffix alone (P1Parser::parse).
LEMMA ParseIs ==
  ASSUME NEW C, NEW t \in Seq(C), NEW d, MarkerAt(t, d), t[1] = Start
  PROVE  /\ Parser!Parse(t).err = Parser!CheckSuffix(t)
         /\ Parser!CheckSuffix(t) = "" => Parser!Parse(t).body = SubSeq(t, 2, d - 1)
<1>1. t # <<>> /\ Head(t) = "/" /\ d <= Len(t) /\ d \in Nat /\ Len(t) \in Nat
  BY DEF MarkerAt, Start
<1>2. Parser!data_end(t) = d /\ ~(Parser!data_end(t) > Len(t))
  BY <1>1, DataEndIs
<1>3. Parser!Parse(t) = IF Parser!CheckSuffix(t) # ""
                        THEN Parser!Fail(Parser!CheckSuffix(t), d + 1)
                        ELSE Parser!Frame(SubSeq(t, 2, d - 1), Parser!next_of(t))
  BY <1>1, <1>2 DEF Parser!Parse
<1>4. CASE Parser!CheckSuffix(t) # ""
  <2>1. Parser!Parse(t) = Parser!Fail(Parser!CheckSuffix(t), d + 1)
    BY <1>3, <1>4
  <2>2. \A e, x : Parser!Fail(e, x).err = e
    BY DEF Parser!Fail
  <2>3. QED
    BY <1>4, <2>1, <2>2
<1>5. CASE Parser!CheckSuffix(t) = ""
  <2>1. Parser!Parse(t) = Parser!Frame(SubSeq(t, 2, d - 1), Parser!next_of(t))
    BY <1>3, <1>5
  <2>2. \A b, n : Parser!Frame(b, n).err = "" /\ Parser!Frame(b, n).body = b
    BY DEF Parser!Frame
  <2>3. Parser!Parse(t).err = "" /\ Parser!Parse(t).body = SubSeq(t, 2, d - 1)
    BY <2>1, <2>2, Zenon
  <2>4. QED
    BY <1>5, <2>3, Zenon
<1>6. QED
  BY <1>4, <1>5

\* How parse() looks at the suffix, in the accumulator's terms.
LEMMA CheckIs ==
  ASSUME NEW C, NEW t \in Seq(C), NEW d, MarkerAt(t, d)
  PROVE  LET s == Parser!Suffix(t)
         IN  /\ s = <<>> => Parser!CheckSuffix(t) = ""
             /\ s # <<>> /\ (Len(s) # CRC_LEN \/ ~ParseCrc(s).ok)
                  => Parser!CheckSuffix(t) = "Incomplete or malformed checksum"
             /\ s # <<>> /\ Len(s) = CRC_LEN /\ ParseCrc(s).ok
                  => Parser!CheckSuffix(t) =
                       IF ParseCrc(s).value # CrcOf(SubSeq(t, 1, d)) THEN "Checksum mismatch" ELSE ""
<1>1. Parser!ParseCrc(Parser!Suffix(t)) = ParseCrc(Parser!Suffix(t))
  BY SameParse
<1>2. Parser!Covered(t) = SubSeq(t, 1, d)
  BY DataEndIs DEF Parser!Covered
<1>3. QED
  BY <1>1, <1>2 DEF Parser!CheckSuffix

\* A suffix of digits that is too short is called malformed.
LEMMA ShortIsMalformed ==
  ASSUME NEW t \in Seq(Byte), ShortSuffix(t), Parser!Suffix(t) \in Seq(HexDigit)
  PROVE  \E d : MarkerAt(t, d) /\ Parser!CheckSuffix(t) = "Incomplete or malformed checksum"
<1>1. PICK d \in 1 .. Len(t), k \in 1 .. Len(t) :
        /\ MarkerAt(t, d) /\ d < k /\ k - d <= CRC_LEN /\ AllHex(t, d + 1, k - 1)
        /\ t[k] \notin HexDigit /\ (k = d + 1 => t[k] \notin EndOfLine)
  BY DEF ShortSuffix
<1>2. PICK n \in d + 1 .. Len(t) + 1 : /\ n <= Len(t) => t[n] \in EndOfLine
                                       /\ \A j \in d + 1 .. n - 1 : t[j] \notin EndOfLine
  BY <1>1, SuffixEnds
<1> DEFINE s == Parser!Suffix(t)
<1>3. s = SubSeq(t, d + 1, n - 1)
  BY <1>1, <1>2, SuffixIs
<1>4. Len(s) = n - 1 - d /\ \A i \in 1 .. Len(s) : s[i] = t[d + i]
  <2>1. \A i \in d + 1 .. n - 1 : t[i] \in Byte
    OBVIOUS
  <2>2. QED
    BY <1>3
<1>5. n <= k
  <2>1. CASE k < n
    <3>1. k - d \in 1 .. Len(s) /\ s[k - d] = t[k]
      BY <1>1, <1>4, <2>1
    <3>2. QED
      BY <1>1, <3>1
  <2>2. QED
    BY <2>1
<1>6. ~(n < k)
  BY <1>1, <1>2, ByteKinds DEF AllHex
<1>7. Len(s) = k - d - 1 /\ Len(s) # CRC_LEN /\ k # d + 1
  BY <1>1, <1>2, <1>4, <1>5, <1>6, CrcLenAssumption
<1>8. s # <<>>
  BY <1>1, <1>7
<1>9. QED
  BY <1>1, <1>7, <1>8, CheckIs

\* A checksum of digits that does not match is rejected; if nothing follows
\* its last digit it is called a mismatch.
LEMMA WrongIsRejected ==
  ASSUME NEW t \in Seq(Byte), WrongSuffix(t)
  PROVE  \E d : /\ MarkerAt(t, d) /\ Parser!CheckSuffix(t) # ""
                /\ Len(Parser!Suffix(t)) = CRC_LEN
                     => Parser!CheckSuffix(t) = "Checksum mismatch"
<1>1. PICK d \in 1 .. Len(t) :
        /\ MarkerAt(t, d) /\ d + CRC_LEN <= Len(t) /\ AllHex(t, d + 1, d + CRC_LEN)
        /\ ParseCrc(SubSeq(t, d + 1, d + CRC_LEN)).value # CrcOf(SubSeq(t, 1, d))
  BY DEF WrongSuffix
<1>2. PICK n \in d + 1 .. Len(t) + 1 : /\ n <= Len(t) => t[n] \in EndOfLine
                                       /\ \A j \in d + 1 .. n - 1 : t[j] \notin EndOfLine
  BY <1>1, SuffixEnds
<1> DEFINE s == Parser!Suffix(t)
<1>3. s = SubSeq(t, d + 1, n - 1)
  BY <1>1, <1>2, SuffixIs
<1>4. n > d + CRC_LEN
  BY <1>1, <1>2, ByteKinds, CrcLenAssumption DEF AllHex
<1>5. Len(s) = n - 1 - d /\ \A i \in 1 .. Len(s) : s[i] = t[d + i]
  <2>1. \A i \in d + 1 .. n - 1 : t[i] \in Byte
    OBVIOUS
  <2>2. QED
    BY <1>3
<1>6. s # <<>>
  BY <1>1, <1>4, <1>5, CrcLenAssumption
<1>7. CASE Len(s) = CRC_LEN
  <2>1. n - 1 = d + CRC_LEN
    BY <1>1, <1>2, <1>5, <1>7
  <2>2. s \in Seq(HexDigit)
    <3>1. \A i \in 1 .. Len(s) : s[i] \in HexDigit
      <4>1. \A i \in 1 .. Len(s) : d + i \in d + 1 .. d + CRC_LEN
        BY <1>1, <1>7, CrcLenAssumption
      <4>2. QED
        BY <1>1, <1>5, <4>1 DEF AllHex
    <3>2. s \in Seq(Byte)
      BY <1>1, <1>2, <1>3
    <3>3. QED
      BY <3>1, <3>2
  <2>3. ParseCrc(s).ok
    BY <1>6, <2>2, HexDigitsParse
  <2>4. QED
    BY <1>1, <1>3, <1>6, <1>7, <2>1, <2>3, CheckIs
<1>8. CASE Len(s) # CRC_LEN
  BY <1>1, <1>6, <1>8, CheckIs
<1>9. QED
  BY <1>7, <1>8

(***************************************************************************)
(* The steps                                                               *)
(***************************************************************************)
\* A part of a text is known by its bytes.
LEMMA PartIs ==
  ASSUME NEW S, NEW t \in Seq(S), NEW u \in Seq(S), NEW m \in Nat, NEW n \in Nat,
         m >= 1, n <= Len(t), m <= n + 1, Len(u) = n + 1 - m,
         \A i \in 1 .. Len(u) : u[i] = t[m + i - 1]
  PROVE  SubSeq(t, m, n) = u
<1> DEFINE v == SubSeq(t, m, n)
<1>1. \A i \in m .. n : t[i] \in S
  OBVIOUS
<1>2. /\ v \in Seq(S) /\ Len(v) = Len(u)
      /\ \A i \in 1 .. Len(v) : v[i] = t[m + i - 1]
  BY <1>1, SubSeqProperties
<1> HIDE DEF v
<1>3. v = u
  BY <1>2, SeqEqual
<1>4. QED
  BY <1>3 DEF v

\* t is the whole frame w of the body b and s, all of characters of C.
IsFramed(C, b, w, s, t) ==
  /\ t \in Seq(C) /\ w \in Seq(C) /\ Len(t) = Len(w) + Len(s)
  /\ t[1] = Start
  /\ MarkerAt(t, Len(w)) /\ Begins(t, w)
  /\ \A i \in 1 .. Len(s) : t[Len(w) + i] = s[i]
  /\ SubSeq(t, 1, Len(w)) = w
  /\ SubSeq(t, Len(w) + 1, Len(w) + Len(s)) = s
  /\ SubSeq(t, 2, Len(w) - 1) = b

\* A text that is a whole frame and what follows it.
LEMMA FramedCharacters ==
  ASSUME NEW C, {Start, End} \subseteq C,
         NEW b \in Seq(C \ {End}), NEW w, w = <<Start>> \o b \o <<End>>,
         NEW s \in Seq(C), NEW t, t = w \o s
  PROVE  IsFramed(C, b, w, s, t)
<1>1. Start \in C /\ End \in C /\ b \in Seq(C)
  OBVIOUS
<1>2. /\ w \in Seq(C) /\ Len(w) = Len(b) + 2 /\ w[1] = Start /\ w[Len(w)] = End
      /\ SubSeq(w, 2, Len(w) - 1) = b
  BY <1>1, FrameBody
<1>3. /\ t \in Seq(C) /\ Len(t) = Len(w) + Len(s)
      /\ \A i \in 1 .. Len(w) : t[i] = w[i]
      /\ \A i \in 1 .. Len(s) : t[Len(w) + i] = s[i]
  <2>1. /\ t \in Seq(C) /\ Len(t) = Len(w) + Len(s)
        /\ \A i \in 1 .. Len(w) + Len(s) : t[i] = IF i <= Len(w) THEN w[i] ELSE s[i - Len(w)]
    BY <1>2, ConcatProperties
  <2>2. Len(w) \in Nat /\ Len(s) \in Nat
    BY <1>2
  <2>3. QED
    BY <2>1, <2>2
<1>4. Len(b) \in Nat /\ Len(w) \in Nat /\ Len(s) \in Nat
  BY <1>2
<1>5. t[1] = Start /\ t[Len(w)] = End
  BY <1>2, <1>3, <1>4
<1>6. \A j \in 2 .. Len(w) - 1 : t[j] = b[j - 1] /\ t[j] # End
  <2>1. \A j \in 2 .. Len(w) - 1 : SubSeq(w, 2, Len(w) - 1)[j - 1] = w[j]
    BY <1>2, <1>4
  <2>2. \A j \in 1 .. Len(b) : b[j] # End
    OBVIOUS
  <2>3. QED
    BY <1>2, <1>3, <1>4, <2>1, <2>2
<1>7. MarkerAt(t, Len(w)) /\ Begins(t, w)
  BY <1>2, <1>3, <1>4, <1>5, <1>6 DEF MarkerAt, Begins
<1>8. SubSeq(t, 1, Len(w)) = w
  <2>1. \A i \in 1 .. Len(w) : w[i] = t[1 + i - 1]
    BY <1>3, <1>4
  <2>2. QED
    BY <1>2, <1>3, <1>4, <2>1, PartIs
<1>9. SubSeq(t, Len(w) + 1, Len(w) + Len(s)) = s
  <2>1. \A i \in 1 .. Len(s) : s[i] = t[Len(w) + 1 + i - 1]
    BY <1>3, <1>4
  <2>2. QED
    BY <1>3, <1>4, <2>1, PartIs
<1>10. SubSeq(t, 2, Len(w) - 1) = b
  BY <1>2, <1>3, <1>4, <1>6
<1>11. QED
  BY <1>2, <1>3, <1>5, <1>7, <1>8, <1>9, <1>10 DEF IsFramed

\* ... of bytes of the wire.
LEMMA FramedText ==
  ASSUME NEW b \in Seq(Byte \ {End}), NEW w, w = <<Start>> \o b \o <<End>>,
         NEW s \in Seq(Byte), NEW t, t = w \o s
  PROVE  /\ t \in Seq(Byte) /\ w \in Seq(Byte) /\ Len(t) = Len(w) + Len(s)
         /\ t[1] = Start
         /\ MarkerAt(t, Len(w)) /\ Begins(t, w)
         /\ \A i \in 1 .. Len(s) : t[Len(w) + i] = s[i]
         /\ SubSeq(t, 1, Len(w)) = w
         /\ SubSeq(t, Len(w) + 1, Len(w) + Len(s)) = s
         /\ SubSeq(t, 2, Len(w) - 1) = b
<1>1. {Start, End} \subseteq Byte
  BY ByteAssumption
<1>2. IsFramed(Byte, b, w, s, t)
  BY <1>1, FramedCharacters
<1>3. QED
  BY <1>2 DEF IsFramed

\* Nothing heard yet.
LEMMA InitHears == InitAgreement => AgreementInv
<1> SUFFICES ASSUME InitAgreement PROVE AgreementInv
  OBVIOUS
<1>1. <<>> \o <<>> = <<>>
  BY ConcatEmptySeq
<1>2. /\ <<>> \in Seq(Byte) /\ Len(<<>>) <= MaxText /\ <<>> \in Seq(Byte \ {End})
  BY MaxTextAssumption
<1>3. ResetTracker.crc_mode = "DETECTING"
  BY DEF ResetTracker
<1>4. QED
  BY <1>1, <1>2, <1>3 DEF InitAgreement, Init, AgreementInv, TextInv, UndecidedInv, DecidedInv, Result

\* The text grows by the next byte of the line.
LEMMA TextGrows ==
  ASSUME TextInv, NEW c \in Byte, Len(text) < MaxText, text = <<>> => c = Start,
         text' = Append(text, c)
  PROVE  /\ text' \in Seq(Byte) /\ Len(text') = Len(text) + 1 /\ Len(text') <= MaxText
         /\ text'[1] = Start
<1>1. /\ text \in Seq(Byte) /\ text' \in Seq(Byte) /\ Len(text') = Len(text) + 1
      /\ Len(text) \in Nat
  BY GrownText DEF TextInv
<1>2. text'[1] = Start
  <2>1. CASE text = <<>>
    BY <1>1, <2>1, GrownText
  <2>2. CASE text # <<>>
    BY <1>1, <2>2, GrownText, EmptySeq DEF TextInv
  <2>3. QED
    BY <2>1, <2>2
<1>3. QED
  BY <1>1, <1>2, MaxTextAssumption

\* The rest of the line changes nothing that was decided.
LEMMA ReadOnStep ==
  ASSUME TypeOK, AgreementInv, NEW c \in Byte, Len(text) < MaxText, text = <<>> => c = Start,
         ReadOn(c)
  PROVE  AgreementInv'
<1>1. /\ text \in Seq(Byte) /\ text' = Append(text, c) /\ verdict # "WAITING" /\ UNCHANGED verdict
      /\ UNCHANGED <<state, buffer, crc, framed, suffix, last_crc_present>>
  BY DEF AgreementInv, TextInv, ReadOn, vars, telegram, wireHistory
<1>2. TextInv'
  BY <1>1, TextGrows DEF AgreementInv, TextInv
<1>3. UndecidedInv'
  BY <1>1 DEF UndecidedInv
<1>4. Len(text) > capacity => Len(text') > capacity
  BY <1>1, CapacityAssumption
<1>5. SuffixVerified => SuffixVerified'
  BY <1>1 DEF SuffixVerified
<1>6. /\ Begins(text, framed) => Begins(text', framed')
      /\ ShortSuffix(text) => ShortSuffix(text')
      /\ WrongSuffix(text) => WrongSuffix(text')
  <2>1. framed \in Seq(Byte)
    BY DEF TypeOK
  <2>2. QED
    BY <1>1, <2>1, GrownDecision
<1>7. DecidedInv'
  BY <1>1, <1>4, <1>5, <1>6 DEF AgreementInv, DecidedInv
<1>8. QED
  BY <1>2, <1>3, <1>7 DEF AgreementInv

\* The next byte of an undecided line, branch by branch of process().
LEMMA HearStep ==
  ASSUME TypeOK, FrameInv, AgreementInv, NEW c \in Byte, Len(text) < MaxText,
         text = <<>> => c = Start, Hear(c)
  PROVE  AgreementInv'
<1>1. /\ verdict = "WAITING" /\ verdict' = result' /\ text' = Append(text, c) /\ Process(c)
      /\ text = framed \o suffix /\ ~CrcSkipped /\ CrcMayBeMissing
      /\ diag.crc_mode = "DETECTING"
      /\ state = "WAITING_STATE" => c = Start
  BY DEF Hear, AgreementInv, UndecidedInv, CrcSkipped, CrcMayBeMissing
<1>2. /\ text' \in Seq(Byte) /\ Len(text') = Len(text) + 1 /\ Len(text') <= MaxText
      /\ text'[1] = Start
  BY <1>1, TextGrows DEF AgreementInv
<1>3. /\ text \in Seq(Byte) /\ buffer \in Seq(Byte \ {End})
      /\ framed \in Seq(Byte) /\ suffix \in Seq(Byte) /\ crc_buf \in Seq(Byte)
  BY DEF AgreementInv, TextInv, TypeOK
<1>0. text' = framed \o Append(suffix, c)
  <2>1. Append(framed \o suffix, c) = framed \o Append(suffix, c)
    <3>1. framed \in Seq(Byte) /\ suffix \in Seq(Byte) /\ c \in Byte
      BY <1>3
    <3>2. QED
      BY <3>1, SecondPartGrows
  <2>2. QED
    BY <1>1, <2>1
<1>4. ASSUME buffer' \in Seq(Byte \ {End}), result' = "WAITING",
             text' = framed' \o suffix', diag' = diag, state' # "WAITING_STATE"
      PROVE  AgreementInv'
  BY <1>1, <1>2, <1>4 DEF AgreementInv, TextInv, UndecidedInv, DecidedInv, Result
<1>5. ~Hunt(c)
  BY <1>1 DEF Hunt
<1>6. CASE StartTelegram(c)
  <2>1. text = <<>> /\ c = Start
    BY <1>6 DEF StartTelegram, AgreementInv, UndecidedInv, Hear
  <2>2. Append(<<>>, Start) = <<Start>> \o <<>>
    BY ByteAssumption
  <2>3. framed' = <<Start>> /\ suffix' = <<>> /\ buffer' = <<>> /\ state' # "WAITING_STATE"
    BY <1>6 DEF StartTelegram, Begin
  <2>4. QED
    BY <1>1, <1>4, <1>6, <2>1, <2>2, <2>3 DEF StartTelegram
<1>7. CASE EndMarker(c)
  <2>1. suffix = <<>> /\ suffix' = <<>> /\ framed' = Append(framed, c)
    BY <1>7 DEF EndMarker, FrameInv
  <2>2. text' = framed' \o suffix'
    BY <1>1, <1>3, <2>1, FirstPartGrows
  <2>3. QED
    BY <1>3, <1>4, <1>7, <2>2 DEF EndMarker
<1>8. CASE StoreByte(c)
  <2>1. suffix = <<>> /\ suffix' = <<>> /\ framed' = Append(framed, c)
    BY <1>8 DEF StoreByte, FrameInv
  <2>2. text' = framed' \o suffix'
    BY <1>1, <1>3, <2>1, FirstPartGrows
  <2>3. buffer' \in Seq(Byte \ {End})
    BY <1>3, <1>8 DEF StoreByte
  <2>4. QED
    BY <1>4, <1>8, <2>2, <2>3 DEF StoreByte
<1>9. CASE SuffixDigit(c)
  <2>1. suffix' = Append(suffix, c) /\ framed' = framed
    BY <1>9 DEF SuffixDigit
  <2>2. text' = framed' \o suffix'
    BY <1>0, <2>1
  <2>3. QED
    BY <1>3, <1>4, <1>9, <2>2 DEF SuffixDigit, IsNextDigit
<1>10. CASE BufferOverflow(c)
  <2>1. framed = <<Start>> \o buffer /\ suffix = <<>>
    BY <1>10 DEF BufferOverflow, FrameInv
  <2>2. text = framed
    BY <1>1, <1>3, <2>1, ConcatEmptySeq
  <2>3. Len(text) = 1 + Len(buffer)
    <3>1. <<Start>> \in Seq(Byte) /\ buffer \in Seq(Byte) /\ Len(<<Start>>) = 1
      BY <1>3, ByteAssumption DEF TypeOK
    <3>2. QED
      BY <2>1, <2>2, <3>1, ConcatProperties
  <2>4. Len(text') > capacity
    BY <1>2, <1>3, <1>10, <2>3, CapacityAssumption DEF BufferOverflow, BufferFull
  <2>5. QED
    BY <1>1, <1>2, <1>10, <2>4
       DEF BufferOverflow, Reset, AgreementInv, TextInv, UndecidedInv, DecidedInv, Result, Rejection
<1>11. ASSUME state = "CHECKSUM_STATE"
       PROVE  /\ framed = <<Start>> \o buffer \o <<End>> /\ suffix = crc_buf
              /\ crc_buf \in Seq(HexDigit) /\ Len(crc_buf) < CRC_LEN /\ crc = framed
              /\ Append(suffix, c) \in Seq(Byte) /\ Len(Append(suffix, c)) = Len(suffix) + 1
              /\ text' = framed \o Append(suffix, c)
  BY <1>0, <1>1, <1>3, <1>11 DEF FrameInv
<1>12. ASSUME state = "CHECKSUM_STATE"
       PROVE  /\ framed \in Seq(Byte) /\ Len(text') = Len(framed) + Len(suffix) + 1
              /\ MarkerAt(text', Len(framed)) /\ Begins(text', framed)
              /\ \A i \in 1 .. Len(suffix) : text'[Len(framed) + i] = suffix[i]
              /\ text'[Len(framed) + Len(suffix) + 1] = c
              /\ SubSeq(text', 1, Len(framed)) = framed
              /\ SubSeq(text', Len(framed) + 1, Len(framed) + Len(suffix) + 1) = Append(suffix, c)
  <2>0. buffer \in Seq(Byte \ {End}) /\ framed = <<Start>> \o buffer \o <<End>>
    BY <1>3, <1>11, <1>12
  <2> DEFINE s == Append(suffix, c)
  <2> HIDE DEF s
  <2>1. /\ Len(text') = Len(framed) + Len(s)
        /\ MarkerAt(text', Len(framed)) /\ Begins(text', framed)
        /\ \A i \in 1 .. Len(s) : text'[Len(framed) + i] = s[i]
        /\ SubSeq(text', 1, Len(framed)) = framed
        /\ SubSeq(text', Len(framed) + 1, Len(framed) + Len(s)) = s
    <3>1. s \in Seq(Byte) /\ text' = framed \o s
      BY <1>11, <1>12 DEF s
    <3>2. /\ Len(text') = Len(framed) + Len(s)
          /\ \A i \in 1 .. Len(s) : text'[Len(framed) + i] = s[i]
      BY <2>0, <3>1, FramedText
    <3>3. MarkerAt(text', Len(framed)) /\ Begins(text', framed)
      BY <2>0, <3>1, FramedText
    <3>4. SubSeq(text', 1, Len(framed)) = framed
      BY <2>0, <3>1, FramedText
    <3>5. SubSeq(text', Len(framed) + 1, Len(framed) + Len(s)) = s
      BY <2>0, <3>1, FramedText
    <3>6. QED
      BY <3>2, <3>3, <3>4, <3>5
  <2>2. /\ Len(s) = Len(suffix) + 1 /\ s[Len(suffix) + 1] = c
        /\ \A i \in 1 .. Len(suffix) : s[i] = suffix[i]
    BY <1>3 DEF s
  <2>3. Len(framed) \in Nat /\ Len(suffix) \in Nat
    BY <1>3
  <2>4. text'[Len(framed) + Len(suffix) + 1] = c
    BY <2>1, <2>2, <2>3
  <2>5. \A i \in 1 .. Len(suffix) : text'[Len(framed) + i] = suffix[i]
    BY <2>1, <2>2, <2>3
  <2>6. SubSeq(text', Len(framed) + 1, Len(framed) + Len(suffix) + 1) = s
    BY <2>1, <2>2, <2>3
  <2>7. QED
    BY <1>3, <2>1, <2>2, <2>3, <2>4, <2>5, <2>6 DEF s
<1>13. CASE AcceptWithoutCrc(c)
  <2>1. /\ state = "CHECKSUM_STATE" /\ result' = "COMPLETE" /\ ~last_crc_present'
        /\ framed' = framed /\ buffer' = buffer
    BY <1>13, Zenon DEF AcceptWithoutCrc, Accept
  <2>2. state' = "WAITING_STATE" /\ framed' = <<Start>> \o buffer' \o <<End>> /\ SuffixVerified'
    BY <1>1, <2>1, CompleteIsHeld
  <2>3. Begins(text', framed')
    BY <1>12, <2>1
  <2>4. QED
    BY <1>1, <1>2, <1>3, <2>1, <2>2, <2>3
       DEF AgreementInv, TextInv, UndecidedInv, DecidedInv, Result
<1>14. CASE MalformedSuffix(c)
  <2>1. state = "CHECKSUM_STATE" /\ c \notin HexDigit /\ ~(c \in EndOfLine /\ crc_buf = <<>>)
    BY <1>1, <1>14 DEF MalformedSuffix, isxdigit
  <2>2. ShortSuffix(text')
    <3> DEFINE d == Len(framed)
               k == Len(framed) + Len(suffix) + 1
    <3>1. d \in Nat /\ Len(suffix) \in Nat /\ Len(suffix) < CRC_LEN /\ d \in 2 .. Len(text')
      BY <1>3, <1>11, <1>12, <2>1 DEF MarkerAt
    <3>2. d \in 1 .. Len(text') /\ k \in 1 .. Len(text') /\ d < k /\ k - d <= CRC_LEN
      BY <1>12, <2>1, <3>1, CrcLenAssumption
    <3>3. AllHex(text', d + 1, k - 1)
      <4>1. \A i \in 1 .. Len(suffix) : suffix[i] \in HexDigit
        BY <1>11, <2>1, ElementOfSeq
      <4>2. \A j \in d + 1 .. k - 1 : j - d \in 1 .. Len(suffix) /\ d + (j - d) = j
        BY <3>1
      <4>3. QED
        BY <1>12, <2>1, <4>1, <4>2 DEF AllHex
    <3>4. text'[k] = c /\ MarkerAt(text', d)
      BY <1>12, <2>1
    <3>5. k = d + 1 => text'[k] \notin EndOfLine
      <4>1. k = d + 1 => Len(suffix) = 0
        BY <3>1
      <4>2. k = d + 1 => crc_buf = <<>>
        BY <1>3, <1>11, <2>1, <4>1, EmptySeq
      <4>3. QED
        BY <2>1, <3>4, <4>2
    <3> HIDE DEF d, k
    <3>6. QED
      BY <2>1, <3>2, <3>3, <3>4, <3>5 DEF ShortSuffix
  <2>3. /\ result' = "MALFORMED_CHECKSUM" /\ state' = "WAITING_STATE" /\ buffer' = <<>>
    BY <1>14 DEF MalformedSuffix, RecordCrcError, Reset
  <2>4. QED
    BY <1>1, <1>2, <2>2, <2>3
       DEF AgreementInv, TextInv, UndecidedInv, DecidedInv, Result, Rejection
<1>15. CASE VerifyChecksum(c)
  <2>1. /\ state = "CHECKSUM_STATE" /\ c \in HexDigit /\ Len(crc_buf) + 1 = CRC_LEN
        /\ suffix = crc_buf
    BY <1>11, <1>15, <1>3, CrcLenAssumption DEF VerifyChecksum, IsNextDigit, isxdigit
  <2>2. Append(suffix, c) \in Seq(HexDigit)
    BY <1>11, <2>1
  <2>3. CASE Accept(TRUE) /\ suffix' = Append(suffix, c) /\ UNCHANGED <<buffer, crc, framed>>
    <3>1. result' = "COMPLETE" /\ last_crc_present' /\ framed' = framed /\ buffer' = buffer
      BY <2>3, Zenon DEF Accept
    <3>2. state' = "WAITING_STATE" /\ framed' = <<Start>> \o buffer' \o <<End>> /\ SuffixVerified'
      BY <1>1, <3>1, CompleteIsHeld
    <3>3. Begins(text', framed') /\ suffix' \in Seq(HexDigit) /\ crc' = framed'
      BY <1>11, <1>12, <2>1, <2>2, <2>3
    <3>4. QED
      BY <1>1, <1>2, <1>3, <3>1, <3>2, <3>3
         DEF AgreementInv, TextInv, UndecidedInv, DecidedInv, Result
  <2>4. CASE /\ RecordCrcError /\ result' = "CHECKSUM_MISMATCH"
             /\ ParseCrc(Append(suffix, c)).value # CrcOf(framed)
    <3> DEFINE d == Len(framed)
    <3>1. d \in Nat /\ d \in 2 .. Len(text') /\ Len(text') = d + CRC_LEN /\ Len(suffix) \in Nat
      <4>1. Len(suffix) \in Nat /\ Len(suffix) + 1 = CRC_LEN
        BY <1>3, <1>11, <2>1, ElementOfSeq
      <4>2. d \in 2 .. Len(text')
        BY <1>12, <2>1 DEF MarkerAt
      <4>3. Len(text') = d + Len(suffix) + 1
        BY <1>12, <2>1
      <4>4. QED
        BY <4>1, <4>2, <4>3
    <3>2. AllHex(text', d + 1, d + CRC_LEN)
      <4>1. \A i \in 1 .. Len(suffix) : suffix[i] \in HexDigit
        BY <1>11, <2>1, ElementOfSeq
      <4>2. \A j \in d + 1 .. d + CRC_LEN :
              \/ j = d + Len(suffix) + 1
              \/ j - d \in 1 .. Len(suffix) /\ d + (j - d) = j
        BY <2>1, <3>1, CrcLenAssumption
      <4>3. QED
        BY <1>12, <2>1, <4>1, <4>2 DEF AllHex
    <3>3. SubSeq(text', d + 1, d + CRC_LEN) = Append(suffix, c) /\ SubSeq(text', 1, d) = framed
      BY <1>12, <2>1, <3>1
    <3>4. MarkerAt(text', d) /\ d \in 1 .. Len(text') /\ d + CRC_LEN <= Len(text')
      BY <1>12, <2>1, <3>1, CrcLenAssumption
    <3>5. WrongSuffix(text')
      <4> HIDE DEF d
      <4>1. QED
        BY <2>4, <3>2, <3>3, <3>4, Zenon DEF WrongSuffix
    <3>6. state' = "WAITING_STATE" /\ buffer' = <<>>
      BY <2>4 DEF RecordCrcError, Reset
    <3>7. QED
      BY <1>1, <1>2, <2>4, <3>5, <3>6
         DEF AgreementInv, TextInv, UndecidedInv, DecidedInv, Result, Rejection
  <2>5. QED
    BY <1>11, <1>15, <2>1, <2>3, <2>4 DEF VerifyChecksum
<1>16. QED
  BY <1>1, <1>5, <1>6, <1>7, <1>8, <1>9, <1>10, <1>13, <1>14, <1>15 DEF Process

\* The invariant holds along every line, for every accumulator it is heard by.
LEMMA AgreementHolds == SpecAgreement => [](TypeOK /\ FrameInv /\ AgreementInv)
<1>1. TypeOK /\ FrameInv /\ AgreementInv /\ [NextByte]_allVars => AgreementInv'
  <2> SUFFICES ASSUME TypeOK, FrameInv, AgreementInv, [NextByte]_allVars
               PROVE  AgreementInv'
    OBVIOUS
  <2>1. CASE NextByte
    <3>1. PICK c \in IF text = <<>> THEN {Start} ELSE Byte : Hear(c) \/ ReadOn(c)
      BY <2>1 DEF NextByte
    <3>2. c \in Byte /\ (text = <<>> => c = Start) /\ Len(text) < MaxText
      BY <2>1, ByteAssumption DEF NextByte
    <3>3. QED
      BY <3>1, <3>2, HearStep, ReadOnStep
  <2>2. CASE UNCHANGED allVars
    BY <2>2 DEF allVars, vars, telegram, wireHistory, AgreementInv, TextInv, UndecidedInv,
       DecidedInv, SuffixVerified
  <2>3. QED
    BY <2>1, <2>2
<1>2. QED
  BY <1>1, InitHears, AccumulatorInv, PTL DEF SpecAgreement

(***************************************************************************)
(* What the two parsers say of the same line                               *)
(***************************************************************************)
\* A text that begins with a whole frame: its marker and its body.
LEMMA FrameIsParsed ==
  ASSUME NEW b \in Seq(Byte \ {End}), NEW w, w = <<Start>> \o b \o <<End>>,
         NEW t \in Seq(Byte), Begins(t, w)
  PROVE  MarkerAt(t, Len(w)) /\ SubSeq(t, 2, Len(w) - 1) = b /\ t[1] = Start
<1>0. w \in Seq(Byte)
  BY ByteAssumption
<1>1. w = w \o <<>> /\ <<>> \in Seq(Byte)
  BY <1>0, ConcatEmptySeq
<1>2. w \in Seq(Byte) /\ w[1] = Start /\ MarkerAt(w, Len(w))
  <2>1. MarkerAt(w, Len(w))
    BY <1>1, FramedText
  <2>2. w[1] = Start
    BY <1>1, FramedText
  <2>3. QED
    BY <1>0, <2>1, <2>2
<1>3. SubSeq(w, 2, Len(w) - 1) = b
  BY <1>1, FramedText
<1>4. Len(w) \in Nat /\ Len(t) \in Nat /\ Len(w) <= Len(t) /\ Len(w) >= 2
  BY <1>2 DEF Begins, MarkerAt
<1>5. MarkerAt(t, Len(w)) /\ t[1] = Start
  <2>1. \A i \in 1 .. Len(w) : t[i] = w[i]
    BY DEF Begins
  <2>2. \A j \in 2 .. Len(w) - 1 : t[j] = w[j]
    BY <1>4, <2>1
  <2>3. t[Len(w)] = w[Len(w)] /\ t[1] = w[1] /\ Len(w) \in 2 .. Len(t)
    BY <1>4, <2>1
  <2>4. w[Len(w)] = End /\ \A j \in 2 .. Len(w) - 1 : w[j] # End
    BY <1>2 DEF MarkerAt
  <2>5. QED
    BY <1>2, <2>2, <2>3, <2>4 DEF MarkerAt
<1>6. SubSeq(t, 2, Len(w) - 1) = b
  <2>1. /\ b \in Seq(Byte) /\ Len(b) = Len(w) - 2
        /\ \A i \in 1 .. Len(b) : b[i] = w[2 + i - 1]
    <3>1. \A i \in 2 .. Len(w) - 1 : w[i] \in Byte
      BY <1>2, <1>4
    <3>2. b \in Seq(Byte) /\ Len(b) = IF 2 <= Len(w) - 1 THEN Len(w) - 1 - 2 + 1 ELSE 0
      BY <1>3, <1>4, <3>1, SubSeqProperties
    <3>3. \A i \in 1 .. Len(w) - 1 - 2 + 1 : b[i] = w[2 + i - 1]
      BY <1>3, <1>4, <3>1, SubSeqProperties
    <3>4. QED
      BY <1>4, <3>2, <3>3
  <2>2. \A i \in 1 .. Len(b) : b[i] = t[2 + i - 1]
    BY <1>4, <2>1 DEF Begins
  <2>3. QED
    BY <1>4, <2>1, <2>2, PartIs
<1>7. QED
  BY <1>5, <1>6

\* What the reader has accepted, parse() accepts with the same body, whatever
\* the line (P1PacketAccumulator::process, P1Parser::parse).
THEOREM ReaderAlwaysHoldsWhatParserAccepts == SpecAgreement => []ReaderHoldsOnlyWhatParserAccepts
<1>1. TypeOK /\ AgreementInv => ReaderHoldsOnlyWhatParserAccepts
  <2> SUFFICES ASSUME TypeOK, AgreementInv, verdict = "COMPLETE"
               PROVE  /\ Parser!Parse(framed \o suffix).err = ""
                      /\ Parser!Parse(framed \o suffix).body = buffer
    BY DEF ReaderHoldsOnlyWhatParserAccepts
  <2>1. /\ buffer \in Seq(Byte \ {End}) /\ framed = <<Start>> \o buffer \o <<End>>
        /\ SuffixVerified /\ (last_crc_present => suffix \in Seq(HexDigit))
        /\ suffix \in Seq(Byte)
    BY DEF AgreementInv, TextInv, DecidedInv, TypeOK
  <2> DEFINE t == framed \o suffix
             d == Len(framed)
             n == Len(framed) + Len(suffix)
  <2>0. t = framed \o suffix
    OBVIOUS
  <2> HIDE DEF t
  <2>2. /\ t \in Seq(Byte) /\ framed \in Seq(Byte) /\ Len(t) = n /\ t[1] = Start
        /\ \A i \in 1 .. Len(suffix) : t[d + i] = suffix[i]
    <3>0. framed \in Seq(Byte) /\ suffix \in Seq(Byte)
      BY DEF TypeOK
    <3>1. t \in Seq(Byte) /\ framed \in Seq(Byte) /\ Len(t) = n
      BY <2>0, <3>0, ConcatProperties
    <3>2. t[1] = Start
      BY <2>0, <2>1, FramedText
    <3>3. \A i \in 1 .. Len(suffix) : t[d + i] = suffix[i]
      BY <2>0, <2>1, FramedText
    <3>4. QED
      BY <3>1, <3>2, <3>3
  <2>3. MarkerAt(t, d)
    BY <2>0, <2>1, FramedText
  <2>4. SubSeq(t, 1, d) = framed
    BY <2>0, <2>1, FramedText
  <2>5. SubSeq(t, d + 1, n) = suffix
    BY <2>0, <2>1, FramedText
  <2>6. SubSeq(t, 2, d - 1) = buffer
    BY <2>0, <2>1, FramedText
  <2>7. d \in Nat /\ Len(suffix) \in Nat
    BY <2>1, <2>2
  <2>8. Parser!CheckSuffix(t) = ""
    <3>1. CASE last_crc_present
      <4>1. /\ Len(suffix) = CRC_LEN /\ ParseCrc(suffix).ok
            /\ ParseCrc(suffix).value = CrcOf(framed)
        BY <2>1, <3>1 DEF SuffixVerified
      <4>2. \A j \in d + 1 .. n : t[j] \notin EndOfLine
        <5>1. \A i \in 1 .. Len(suffix) : suffix[i] \in HexDigit
          BY <2>1, <3>1, ElementOfSeq
        <5>2. \A j \in d + 1 .. n : j - d \in 1 .. Len(suffix) /\ d + (j - d) = j
          BY <2>7
        <5>3. \A j \in d + 1 .. n : t[j] \in HexDigit
          BY <2>2, <5>1, <5>2
        <5>4. QED
          BY <5>3, ByteKinds
      <4>3. Parser!Suffix(t) = suffix
        <5>1. n + 1 \in d + 1 .. Len(t) + 1 /\ ~(n + 1 <= Len(t)) /\ n + 1 - 1 = n
          BY <2>2, <2>7
        <5> DEFINE k == n + 1
        <5>0. \A j \in d + 1 .. k - 1 : t[j] \notin EndOfLine
          BY <4>2, <5>1
        <5> HIDE DEF d
        <5>4. t \in Seq(Byte) /\ k \in d + 1 .. Len(t) + 1 /\ ~(k <= Len(t))
          BY <2>2, <5>1
        <5> HIDE DEF k
        <5>5. Parser!Suffix(t) = SubSeq(t, d + 1, k - 1)
          BY <2>3, <5>0, <5>4, SuffixIs
        <5>2. Parser!Suffix(t) = SubSeq(t, d + 1, n + 1 - 1)
          BY <5>5 DEF k, d
        <5>3. QED
          BY <2>5, <5>1, <5>2
      <4>4. suffix # <<>>
        BY <4>1, CrcLenAssumption
      <4>5. QED
        BY <2>2, <2>3, <2>4, <4>1, <4>3, <4>4, CheckIs
    <3>2. CASE ~last_crc_present
      <4>1. PICK c \in EndOfLine : suffix = <<c>>
        BY <2>1, <3>2 DEF SuffixVerified
      <4>2. Len(suffix) = 1 /\ t[d + 1] \in EndOfLine
        BY <2>2, <4>1
      <4>3. Parser!Suffix(t) = SubSeq(t, d + 1, d + 1 - 1)
        <5>1. d + 1 \in d + 1 .. Len(t) + 1 /\ \A j \in d + 1 .. d + 1 - 1 : t[j] \notin EndOfLine
          BY <2>2, <2>7, <4>2
        <5>2. QED
          BY <2>2, <2>3, <4>2, <5>1, SuffixIs
      <4>4. Parser!Suffix(t) = <<>>
        BY <2>7, <4>3, SubSeqEmpty
      <4>5. QED
        BY <2>2, <2>3, <4>4, CheckIs
    <3>3. QED
      BY <3>1, <3>2
  <2>9. Parser!Parse(t).err = "" /\ Parser!Parse(t).body = buffer
    BY <2>2, <2>3, <2>6, <2>8, ParseIs
  <2>10. QED
    BY <2>9 DEF t
<1>2. QED
  BY <1>1, AgreementHolds, PTL

\* Every CRC has CRC_LEN digits at most, and sixteen bits.
CrcIsPrintable ==
  \A s \in Seq(Byte) :
    /\ CrcOf(s) \in Nat /\ CrcOf(s) < 65536
    /\ Shifted(CrcOf(s))[CRC_LEN] = 0

\* The digits printed for the CRC of a text, and their value.
LEMMA PrintableCrc ==
  ASSUME CrcIsPrintable, NEW w \in Seq(Byte)
  PROVE  \E s \in Seq(HexDigit) :
           /\ s = FormatCrc(CrcOf(w)) /\ Len(s) = CRC_LEN
           /\ ParseCrc(s).ok /\ ParseCrc(s).value = CrcOf(w)
<1>1. PICK v : v = CrcOf(w)
  OBVIOUS
<1>2. v \in Nat /\ v < 65536 /\ Shifted(v)[CRC_LEN] = 0
  BY <1>1 DEF CrcIsPrintable
<1>3. /\ FormatCrc(v) \in Seq(ToSet(UpperHex)) /\ Len(FormatCrc(v)) = CRC_LEN
      /\ ParseCrc(FormatCrc(v)).ok /\ ParseCrc(FormatCrc(v)).value = v
  BY <1>2, PrintedCrcParses
<1>4. PICK s : s = FormatCrc(v)
  OBVIOUS
<1>5. s \in Seq(HexDigit)
  BY <1>3, <1>4, PrintedValues
<1>6. QED
  BY <1>1, <1>3, <1>4, <1>5

\* The suffix of a telegram that CompleteRaw() hands out, and what is before it.
LEMMA CompleteRawIs ==
  ASSUME CrcIsPrintable, TypeOK, AgreementInv, verdict = "COMPLETE", buffer # <<>>
  PROVE  \E s \in Seq(HexDigit) :
           /\ Parser!CompleteRaw(buffer, last_crc_present, crc) = framed \o s
           /\ s # <<>> => /\ Len(s) = CRC_LEN /\ ParseCrc(s).ok
                          /\ ParseCrc(s).value = CrcOf(framed)
<1>1. /\ framed = <<Start>> \o buffer \o <<End>> /\ framed \in Seq(Byte)
      /\ last_crc_present => crc = framed
      /\ last_crc_present \in BOOLEAN
  BY DEF AgreementInv, DecidedInv, TypeOK
<1>2. Parser!CompleteRaw(buffer, last_crc_present, crc)
        = framed \o (IF last_crc_present THEN FormatCrc(CrcOf(crc)) ELSE <<>>)
  <2>1. Parser!FormatCrc(CrcOf(crc)) = FormatCrc(CrcOf(crc))
    BY SamePrint
  <2>2. QED
    BY <1>1, <2>1 DEF Parser!CompleteRaw, Start, End
<1>3. CASE ~last_crc_present
  <2>1. <<>> \in Seq(HexDigit)
    OBVIOUS
  <2>2. QED
    BY <1>2, <1>3, <2>1
<1>4. CASE last_crc_present
  <2>1. crc \in Seq(Byte) /\ crc = framed
    BY <1>1, <1>4
  <2>2. PICK s \in Seq(HexDigit) :
          /\ s = FormatCrc(CrcOf(crc)) /\ Len(s) = CRC_LEN
          /\ ParseCrc(s).ok /\ ParseCrc(s).value = CrcOf(crc)
    BY <2>1, PrintableCrc
  <2>3. ParseCrc(s).value = CrcOf(framed)
    BY <2>1, <2>2, Zenon
  <2>4. Parser!CompleteRaw(buffer, last_crc_present, crc) = framed \o s
    BY <1>2, <1>4, <2>2
  <2>5. QED
    BY <2>2, <2>3, <2>4
<1>5. QED
  BY <1>1, <1>3, <1>4

\* A telegram that CompleteRaw() hands out is accepted by parse() with the
\* body that was heard, whatever the line, if CRC_LEN digits are enough for
\* the CRC: the digits are those of the CRC that parse() computes over the
\* text before them (CompleteRaw of both readers, P1Parser::parse).
THEOREM CompleteRawParsesIfPrintable ==
  ASSUME CrcIsPrintable
  PROVE  SpecAgreement => []CompleteRawParses
<1>1. TypeOK /\ AgreementInv => CompleteRawParses
  <2> SUFFICES ASSUME TypeOK, AgreementInv, verdict = "COMPLETE", buffer # <<>>
               PROVE  LET t == Parser!CompleteRaw(buffer, last_crc_present, crc)
                      IN  Parser!Parse(t).err = "" /\ Parser!Parse(t).body = buffer
    BY DEF CompleteRawParses
  <2> DEFINE t == Parser!CompleteRaw(buffer, last_crc_present, crc)
             C == Byte \cup HexDigit
             d == Len(framed)
  <2>1. PICK s \in Seq(HexDigit) :
          /\ t = framed \o s
          /\ s # <<>> => /\ Len(s) = CRC_LEN /\ ParseCrc(s).ok
                         /\ ParseCrc(s).value = CrcOf(framed)
    BY CompleteRawIs
  <2> HIDE DEF t
  <2>2. /\ {Start, End} \subseteq C /\ buffer \in Seq(C \ {End}) /\ s \in Seq(C)
        /\ framed = <<Start>> \o buffer \o <<End>>
    <3>1. buffer \in Seq(Byte \ {End}) /\ framed = <<Start>> \o buffer \o <<End>>
      BY DEF AgreementInv, TextInv, DecidedInv
    <3>2. QED
      BY <3>1, ByteAssumption
  <2> HIDE DEF C
  <2>3. IsFramed(C, buffer, framed, s, t)
    BY <2>1, <2>2, FramedCharacters
  <2>4. /\ t \in Seq(C) /\ MarkerAt(t, d) /\ t[1] = Start
        /\ Len(t) = d + Len(s) /\ SubSeq(t, 1, d) = framed
        /\ SubSeq(t, d + 1, d + Len(s)) = s /\ SubSeq(t, 2, d - 1) = buffer
        /\ \A i \in 1 .. Len(s) : t[d + i] = s[i]
        /\ d \in Nat /\ Len(s) \in Nat
    BY <2>3 DEF IsFramed
  <2> HIDE DEF d
  <2> DEFINE k == Len(t) + 1
  <2>5. \A j \in d + 1 .. k - 1 : t[j] \notin EndOfLine
    <3>1. \A i \in 1 .. Len(s) : s[i] \in HexDigit
      BY ElementOfSeq
    <3>2. \A j \in d + 1 .. k - 1 : j - d \in 1 .. Len(s) /\ d + (j - d) = j
      BY <2>4
    <3>3. QED
      BY <2>4, <3>1, <3>2, ByteKinds
  <2>6. k \in d + 1 .. Len(t) + 1 /\ ~(k <= Len(t)) /\ k - 1 = d + Len(s)
    BY <2>4
  <2> HIDE DEF k
  <2>7. Parser!Suffix(t) = s
    <3>1. Parser!Suffix(t) = SubSeq(t, d + 1, k - 1)
      BY <2>4, <2>5, <2>6, SuffixIs
    <3>2. QED
      BY <2>4, <2>6, <3>1
  <2>8. Parser!CheckSuffix(t) = ""
    BY <2>1, <2>4, <2>7, CheckIs
  <2>9. Parser!Parse(t).err = "" /\ Parser!Parse(t).body = buffer
    BY <2>4, <2>8, ParseIs
  <2>10. QED
    BY <2>9 DEF t
<1>2. QED
  BY <1>1, AgreementHolds, PTL

\* So it is for the library's CRC of sixteen bits in four digits.
THEOREM CompleteRawAlwaysParses ==
  ASSUME CRC_LEN = 4, \A s \in Seq(Byte) : CrcOf(s) \in Nat /\ CrcOf(s) < 65536
  PROVE  SpecAgreement => []CompleteRawParses
<1>1. CrcIsPrintable
  BY FourDigits DEF CrcIsPrintable
<1>2. QED
  BY <1>1, CompleteRawParsesIfPrintable

\* What has been settled by a whole line's bytes has a marker, and a suffix of
\* digits is a text of digits.
LEMMA DigitsBehindMarker ==
  ASSUME NEW d, TextInv, MarkerAt(text, d), HexSuffix
  PROVE  Parser!Suffix(text) \in Seq(HexDigit)
<1> DEFINE s == Parser!Suffix(text)
<1>0. text \in Seq(Byte)
  BY DEF TextInv
<1>1. PICK n \in d + 1 .. Len(text) + 1 : /\ n <= Len(text) => text[n] \in EndOfLine
                                          /\ \A j \in d + 1 .. n - 1 : text[j] \notin EndOfLine
  BY <1>0, SuffixEnds
<1>2. s = SubSeq(text, d + 1, n - 1)
  BY <1>0, <1>1, SuffixIs
<1>3. s \in Seq(Byte)
  <2>1. \A i \in d + 1 .. n - 1 : text[i] \in Byte
    BY <1>0, <1>1 DEF MarkerAt
  <2>2. d + 1 \in Int /\ n - 1 \in Int
    BY <1>1 DEF MarkerAt
  <2>3. QED
    BY <1>2, <2>1, <2>2, SubSeqProperties
<1>4. \A i \in 1 .. Len(s) : s[i] \in HexDigit
  <2>1. DOMAIN s = 1 .. Len(s)
    BY <1>3
  <2>2. QED
    BY <2>1 DEF HexSuffix, isxdigit
<1>5. QED
  BY <1>3, <1>4

\* An undecided line has not ended: its bytes are a beginning of a frame, or a
\* frame and some digits.
LEMMA UndecidedGoesOn ==
  ASSUME TypeOK, FrameInv, AgreementInv, verdict = "WAITING"
  PROVE  ~LineHasEnded
<1> SUFFICES ASSUME HasMarker, Last(text) \in EndOfLine PROVE FALSE
  BY DEF LineHasEnded
<1>1. /\ text = framed \o suffix /\ (state = "WAITING_STATE" => text = <<>>)
      /\ text \in Seq(Byte) /\ buffer \in Seq(Byte \ {End})
      /\ framed \in Seq(Byte) /\ suffix \in Seq(Byte) /\ state \in State
  BY DEF AgreementInv, TextInv, UndecidedInv, TypeOK
<1>2. PICK i \in 1 .. Len(text) : text[i] = End
  BY <1>1 DEF HasMarker
<1>3. CASE state = "WAITING_STATE"
  BY <1>1, <1>2, <1>3
<1>4. CASE state = "READING_STATE"
  <2>1. framed = <<Start>> \o buffer /\ suffix = <<>>
    BY <1>4 DEF FrameInv
  <2>2. text = <<Start>> \o buffer
    BY <1>1, <2>1, ConcatEmptySeq
  <2>3. /\ <<Start>> \in Seq(Byte) /\ buffer \in Seq(Byte)
        /\ Len(<<Start>>) = 1 /\ <<Start>>[1] = Start
    BY <1>1, ByteAssumption
  <2>4. /\ Len(text) = 1 + Len(buffer)
        /\ \A j \in 1 .. 1 + Len(buffer) :
              text[j] = IF j <= 1 THEN <<Start>>[j] ELSE buffer[j - 1]
    BY <2>2, <2>3, ConcatProperties
  <2>5. Len(buffer) \in Nat /\ \A j \in 1 .. Len(buffer) : buffer[j] # End
    BY <1>1
  <2>6. QED
    BY <1>2, <2>3, <2>4, <2>5, ByteKinds
<1>5. CASE state = "CHECKSUM_STATE"
  <2>1. /\ framed = <<Start>> \o buffer \o <<End>> /\ suffix = crc_buf
        /\ crc_buf \in Seq(HexDigit)
    BY <1>5 DEF FrameInv
  <2>2. MarkerAt(text, Len(framed))
    BY <1>1, <2>1, FramedText
  <2>3. \A j \in 1 .. Len(suffix) : text[Len(framed) + j] = suffix[j]
    BY <1>1, <2>1, FramedText
  <2>4. Len(text) = Len(framed) + Len(suffix) /\ Len(framed) \in Nat /\ Len(suffix) \in Nat
    BY <1>1, ConcatProperties
  <2>5. text[Len(text)] \in EndOfLine
    BY DEF Last
  <2>6. CASE Len(suffix) = 0
    BY <2>2, <2>4, <2>5, <2>6, ByteKinds DEF MarkerAt
  <2>7. CASE Len(suffix) # 0
    <3>1. Len(suffix) \in 1 .. Len(suffix)
      BY <2>4, <2>7
    <3>2. text[Len(text)] = suffix[Len(suffix)] /\ suffix[Len(suffix)] \in HexDigit
      BY <2>1, <2>3, <2>4, <3>1, ElementOfSeq
    <3>3. QED
      BY <2>5, <3>2, ByteKinds
  <2>8. QED
    BY <2>6, <2>7
<1>6. QED
  BY <1>1, <1>3, <1>4, <1>5 DEF State

\* A text with a marker starts with the start.
LEMMA MarkedStarts ==
  ASSUME TextInv, NEW d, MarkerAt(text, d)
  PROVE  text[1] = Start
BY DEF TextInv, MarkerAt

\* A line that fits the buffer does not overflow it.
LEMMA NoOverflow ==
  ASSUME MaxText <= capacity, AgreementInv
  PROVE  verdict # "BUFFER_OVERFLOW"
<1>1. Len(text) \in Nat /\ Len(text) <= MaxText
  BY DEF AgreementInv, TextInv
<1>2. ~(Len(text) > capacity)
  BY <1>1, MaxTextAssumption, CapacityAssumption
<1>3. QED
  BY <1>2 DEF AgreementInv, DecidedInv

\* A whole line of digits that parse() accepts is one the reader has accepted,
\* with the same body, unless it overflowed the reader's buffer
\* (P1PacketAccumulator::process, P1Parser::parse).
THEOREM ParserAcceptsOnlyHeldOrOverflow ==
  SpecAgreement => [](verdict # "BUFFER_OVERFLOW" => ParserAcceptsOnlyWhatReaderHeld)
<1>1. TypeOK /\ FrameInv /\ AgreementInv =>
        (verdict # "BUFFER_OVERFLOW" => ParserAcceptsOnlyWhatReaderHeld)
  <2> SUFFICES ASSUME TypeOK, FrameInv, AgreementInv, LineHasEnded, HexSuffix,
                      verdict # "BUFFER_OVERFLOW", Parser!Parse(text).err = ""
               PROVE  verdict = "COMPLETE" /\ Parser!Parse(text).body = buffer
    BY DEF ParserAcceptsOnlyWhatReaderHeld
  <2>1. /\ text \in Seq(Byte) /\ verdict \in Result /\ buffer \in Seq(Byte \ {End})
        /\ Len(text) <= MaxText /\ TextInv /\ DecidedInv
    BY DEF AgreementInv, TextInv
  <2>2. \A d : MarkerAt(text, d) => text[1] = Start /\ Parser!CheckSuffix(text) = ""
    <3> SUFFICES ASSUME NEW d, MarkerAt(text, d)
                 PROVE  text[1] = Start /\ Parser!CheckSuffix(text) = ""
      OBVIOUS
    <3>1. text[1] = Start
      BY <2>1, MarkedStarts
    <3>2. Parser!Parse(text).err = Parser!CheckSuffix(text)
      BY <2>1, <3>1, ParseIs
    <3>3. QED
      BY <3>1, <3>2
  <2>3. verdict # "WAITING"
    BY UndecidedGoesOn
  <2>4. verdict # "BUFFER_OVERFLOW"
    OBVIOUS
  <2>5. verdict # "MALFORMED_CHECKSUM"
    <3> SUFFICES ASSUME verdict = "MALFORMED_CHECKSUM" PROVE FALSE
      OBVIOUS
    <3>1. ShortSuffix(text)
      BY <2>1 DEF DecidedInv
    <3>2. PICK d : MarkerAt(text, d)
      BY <3>1 DEF ShortSuffix
    <3>3. Parser!Suffix(text) \in Seq(HexDigit)
      BY <2>1, <3>2, DigitsBehindMarker
    <3>4. Parser!CheckSuffix(text) = "Incomplete or malformed checksum"
      BY <2>1, <3>1, <3>3, ShortIsMalformed
    <3>5. QED
      BY <2>2, <3>2, <3>4
  <2>6. verdict # "CHECKSUM_MISMATCH"
    BY <2>1, <2>2, WrongIsRejected DEF DecidedInv
  <2>7. verdict = "COMPLETE"
    BY <2>1, <2>3, <2>4, <2>5, <2>6 DEF Result, Rejection
  <2>8. framed = <<Start>> \o buffer \o <<End>> /\ Begins(text, framed)
    BY <2>1, <2>7 DEF DecidedInv
  <2>9. MarkerAt(text, Len(framed)) /\ SubSeq(text, 2, Len(framed) - 1) = buffer
    BY <2>1, <2>8, FrameIsParsed
  <2>10. text[1] = Start /\ Parser!CheckSuffix(text) = ""
    BY <2>2, <2>9
  <2>11. Parser!Parse(text).body = buffer
    BY <2>1, <2>9, <2>10, ParseIs
  <2>12. QED
    BY <2>7, <2>11
<1>2. QED
  BY <1>1, AgreementHolds, PTL

\* No line of MaxText bytes overflows a buffer of as many, and then the run's
\* invariant holds as it stands (P1PacketAccumulator::process, P1Parser::parse).
THEOREM ParserAlwaysAcceptsWhatReaderHeld ==
  ASSUME MaxText <= capacity
  PROVE  SpecAgreement => []ParserAcceptsOnlyWhatReaderHeld
<1>1. AgreementInv => verdict # "BUFFER_OVERFLOW"
  BY NoOverflow
<1>2. QED
  BY <1>1, AgreementHolds, ParserAcceptsOnlyHeldOrOverflow, PTL

\* parse() names the reader's reason for rejecting a whole line of digits,
\* for every line (P1PacketAccumulator::process, P1Parser::parse).
THEOREM AlwaysSameReason == SpecAgreement => []SameReason
<1>1. AgreementInv => SameReason
  <2> SUFFICES ASSUME AgreementInv, HexSuffix
               PROVE  /\ verdict = "CHECKSUM_MISMATCH" /\ Len(Parser!Suffix(text)) = CRC_LEN
                           => Parser!Parse(text).err = "Checksum mismatch"
                      /\ verdict = "MALFORMED_CHECKSUM"
                           => Parser!Parse(text).err = "Incomplete or malformed checksum"
    BY DEF SameReason
  <2>1. text \in Seq(Byte) /\ TextInv /\ DecidedInv
    BY DEF AgreementInv, TextInv
  <2>2. ASSUME NEW d, MarkerAt(text, d)
        PROVE  Parser!Parse(text).err = Parser!CheckSuffix(text)
    <3>1. text[1] = Start
      BY <2>1, <2>2, MarkedStarts
    <3>2. QED
      BY <2>1, <2>2, <3>1, ParseIs
  <2>3. ASSUME verdict = "CHECKSUM_MISMATCH", Len(Parser!Suffix(text)) = CRC_LEN
        PROVE  Parser!Parse(text).err = "Checksum mismatch"
    <3>1. PICK d : MarkerAt(text, d) /\ Parser!CheckSuffix(text) = "Checksum mismatch"
      BY <2>1, <2>3, WrongIsRejected DEF DecidedInv
    <3>2. QED
      BY <2>2, <3>1
  <2>4. ASSUME verdict = "MALFORMED_CHECKSUM"
        PROVE  Parser!Parse(text).err = "Incomplete or malformed checksum"
    <3>1. ShortSuffix(text)
      BY <2>1, <2>4 DEF DecidedInv
    <3>2. PICK d : MarkerAt(text, d)
      BY <3>1 DEF ShortSuffix
    <3>3. Parser!Suffix(text) \in Seq(HexDigit)
      BY <2>1, <3>2, DigitsBehindMarker
    <3>4. Parser!CheckSuffix(text) = "Incomplete or malformed checksum"
      BY <2>1, <3>1, <3>3, ShortIsMalformed
    <3>5. QED
      BY <2>2, <3>2, <3>4
  <2>5. QED
    BY <2>3, <2>4
<1>2. QED
  BY <1>1, AgreementHolds, PTL
=============================================================================
