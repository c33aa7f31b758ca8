------------------------- MODULE P1DataParserProofs --------------------------
(***************************************************************************)
(* Proofs about P1DataParser, for bodies of any length and any number of   *)
(* lines.                                                                  *)
(***************************************************************************)
EXTENDS P1DataParser, TextLemmas, FiniteSetTheorems

(***************************************************************************)
(* The text                                                                *)
(***************************************************************************)
\* The texts of Init are sequences of lexemes.
LEMMA BoundedTexts == BoundedSeq(Lexeme, MaxText) \subseteq Seq(Lexeme)
<1>1. \A n \in 0 .. MaxText : n \in Nat
  BY MaxTextAssumption
<1>2. QED
  BY <1>1, SeqDef DEF BoundedSeq, SeqOf

\* A position of the text.
LEMMA Positions ==
  ASSUME text \in Seq(Lexeme)
  PROVE  /\ end \in Nat \ {0}
         /\ \A k \in 1 .. end - 1 : text[k] \in Lexeme
BY DEF end

\* The scan for the end of the identification line.
LEMMA NextEndOfLine ==
  ASSUME text \in Seq(Lexeme), NEW i \in 1 .. end
  PROVE  LET k == FirstFrom(i, IsEndOfLine)
         IN  /\ k \in i .. end
             /\ k < end => IsEndOfLine(k)
             /\ \A j \in i .. k - 1 : ~IsEndOfLine(j)
<1> DEFINE S == {k \in Nat : IsEndOfLine(k)}
<1>1. i \in Nat /\ end \in Nat /\ i <= end
  BY Positions
<1>2. \E k \in i .. end : /\ k < end => k \in S
                          /\ \A j \in i .. k - 1 : j \notin S
  BY <1>1, ScanStops
<1>3. \E k \in i .. end : /\ k < end => IsEndOfLine(k)
                          /\ \A j \in i .. k - 1 : ~IsEndOfLine(j)
  BY <1>1, <1>2
<1>4. QED
  BY <1>3, Zenon DEF FirstFrom

\* The scan for the end of a data line.
LEMMA NextLineEnd ==
  ASSUME text \in Seq(Lexeme), NEW i \in 1 .. end
  PROVE  LET k == FirstFrom(i, EndsLine)
         IN  /\ k \in i .. end
             /\ k < end => EndsLine(k)
             /\ \A j \in i .. k - 1 : ~EndsLine(j)
<1> DEFINE S == {k \in Nat : EndsLine(k)}
<1>1. i \in Nat /\ end \in Nat /\ i <= end
  BY Positions
<1>2. \E k \in i .. end : /\ k < end => k \in S
                          /\ \A j \in i .. k - 1 : j \notin S
  BY <1>1, ScanStops
<1>3. \E k \in i .. end : /\ k < end => EndsLine(k)
                          /\ \A j \in i .. k - 1 : ~EndsLine(j)
  BY <1>1, <1>2
<1>4. QED
  BY <1>3, Zenon DEF FirstFrom

\* A data line ends at its first end of line at or behind line_start, and a
\* line feed that was passed over is in front of it.
LEMMA DataLineEnds ==
  ASSUME TypeOK, PointersInv, pc = "data"
  PROVE  LET eol == FirstFrom(line_end, EndsLine)
         IN  /\ eol \in line_start .. end
             /\ eol < end => IsEndOfLine(eol)
             /\ \A k \in line_start .. eol - 1 : ~IsEndOfLine(k)
<1> DEFINE eol == FirstFrom(line_end, EndsLine)
<1>1. /\ eol \in line_end .. end
      /\ eol < end => EndsLine(eol)
      /\ \A j \in line_end .. eol - 1 : ~EndsLine(j)
  BY NextLineEnd DEF TypeOK
<1>2. /\ line_end \in Nat /\ line_start \in 1 .. end /\ end \in Nat
      /\ line_end <= line_start /\ \A k \in line_end .. line_start - 1 : text[k] # "CR"
  BY Positions DEF TypeOK, PointersInv
<1> HIDE DEF eol
<1>3. line_start <= eol
  <2>1. CASE eol = end
    BY <1>2, <2>1
  <2>2. CASE eol < end /\ eol < line_start
    BY <1>1, <1>2, <2>2 DEF EndsLine
  <2>3. QED
    BY <1>1, <1>2, <2>1, <2>2
<1>4. \A k \in line_start .. eol - 1 : ~IsEndOfLine(k)
  BY <1>1, <1>2 DEF EndsLine, IsEndOfLine, EndOfLine
<1>5. eol < end => IsEndOfLine(eol)
  BY <1>1 DEF EndsLine, IsEndOfLine, EndOfLine
<1>6. QED
  BY <1>1, <1>2, <1>3, <1>4, <1>5 DEF eol

(***************************************************************************)
(* parse_line                                                              *)
(***************************************************************************)
\* What doubleLineTimestampedFixed skips are ends of line, and no carriage
\* return but the first of them; the scan for a value stops behind them.
LEMMA SecondLineFollows ==
  ASSUME text \in Seq(Lexeme), NEW i \in 1 .. end
  PROVE  /\ SecondLine(i) \in i .. end
         /\ \A k \in i .. SecondLine(i) - 1 : IsEndOfLine(k)
         /\ \A k \in i + 1 .. SecondLine(i) - 1 : text[k] # "CR"
         /\ i < end /\ IsEndOfLine(i) => SecondLine(i) > i
<1> DEFINE afterCR == IF i < end /\ text[i] = "CR" THEN i + 1 ELSE i
<1>1. /\ i \in Nat /\ end \in Nat /\ i <= end
      /\ afterCR \in {i, i + 1} /\ afterCR <= end
      /\ afterCR = i + 1 <=> i < end /\ text[i] = "CR"
  BY Positions
<1>2. SecondLine(i) = IF afterCR < end /\ text[afterCR] = "LF" THEN afterCR + 1 ELSE afterCR
  BY DEF SecondLine
<1> HIDE DEF afterCR
<1>3. QED
  BY <1>1, <1>2 DEF IsEndOfLine, EndOfLine

\* A line, as parse_line gets it.
LineAt(first, last) ==
  /\ first \in 1 .. end /\ last \in 1 .. end /\ first <= last
  /\ \A k \in first .. last - 1 : ~IsEndOfLine(k)
  /\ last < end => IsEndOfLine(last)

\* next is behind the line, or behind the value of the line that follows.
ReadsOn(first, last, next) ==
  \E v \in last + 1 .. end - 1 :
    /\ next = v + 1
    /\ text[first] = "double" /\ last = first + 1 /\ text[v] = "value"
    /\ \A k \in last .. v - 1 : IsEndOfLine(k)
    /\ \A k \in last + 1 .. v : text[k] # "CR"

\* The value of a field of two lines, behind its first one.
LEMMA DoubleLineReadsOn ==
  ASSUME text \in Seq(Lexeme), NEW first, NEW last, LineAt(first, last), first < last,
         text[first] = "double", DoubleLine(first + 1) # 0
  PROVE  /\ DoubleLine(first + 1) \in Nat /\ first + 1 < DoubleLine(first + 1)
         /\ last = first + 1 => ReadsOn(first, last, DoubleLine(first + 1))
         /\ last # first + 1 => DoubleLine(first + 1) = first + 2
<1> DEFINE i == first + 1
           v == SecondLine(i)
<1>1. first \in Nat /\ last \in Nat /\ end \in Nat /\ i \in 1 .. end /\ last <= end
  BY Positions DEF LineAt
<1>2. v < end /\ text[v] = "value" /\ DoubleLine(i) = v + 1
  BY DEF DoubleLine
<1>3. /\ v \in i .. end
      /\ \A k \in i .. v - 1 : IsEndOfLine(k)
      /\ \A k \in i + 1 .. v - 1 : text[k] # "CR"
      /\ i < end /\ IsEndOfLine(i) => v > i
  BY <1>1, SecondLineFollows
<1> HIDE DEF v
<1>4. CASE last = i
  <2>1. last < end /\ v > last
    BY <1>1, <1>2, <1>3, <1>4 DEF LineAt
  <2>2. ReadsOn(first, last, v + 1)
    BY <1>1, <1>2, <1>3, <1>4, <2>1 DEF ReadsOn
  <2>3. QED
    BY <1>1, <1>2, <1>3, <1>4, <2>2
<1>5. CASE last # i
  <2>1. ~IsEndOfLine(i)
    BY <1>1, <1>5 DEF LineAt
  <2>2. v = i
    BY <1>1, <1>3, <2>1
  <2>3. QED
    BY <1>1, <1>2, <1>5, <2>2
<1>6. QED
  BY <1>4, <1>5

\* The lexemes that stand for each field.
LEMMA Lexemes ==
  /\ LexemesOf("double") = {"double"}
  /\ LexemesOf("single") = {"good", "bad"}
  /\ LexemesOf("identification") = {}
BY DEF LexemesOf

\* The lexeme that begins a line that is not empty.
LEMMA FirstLexeme ==
  ASSUME text \in Seq(Lexeme), NEW first, NEW last, LineAt(first, last), first < last
  PROVE  text[first] \in {"good", "bad", "double", "unknown", "value"}
<1>1. first \in 1 .. end - 1 /\ first \in first .. last - 1
  BY Positions DEF LineAt
<1>2. text[first] \in Lexeme /\ ~IsEndOfLine(first)
  BY <1>1, Positions DEF LineAt
<1>3. QED
  BY <1>2 DEF Lexeme, IsEndOfLine

\* What parse_line does with the result of the dispatch.
LEMMA ParseLineFollows ==
  ASSUME text \in Seq(Lexeme), NEW first, NEW last, LineAt(first, last), first < last,
         text[first] # "value"
  PROVE  LET data == Dispatch(first)
         IN  ParseLine(first, last) =
               IF data.err THEN data
               ELSE IF data.next = first THEN Outcome(unknown_error, last + 1, present)
               ELSE IF data.next < last
                    THEN Outcome(TRUE, 0, {field \in data.present :
                                             text[first] \notin LexemesOf(field)})
               ELSE IF data.next > last THEN data
               ELSE Outcome(FALSE, last + 1, data.present)
<1>1. first # last /\ ~(first > last)
  BY Positions DEF LineAt
<1>2. QED
  BY <1>1, Zenon DEF ParseLine, NoObisId

\* The lines that parse_line accepts, with the field they set and where it
\* goes on; all others leave the fields as they were.
Sets(field, first, last, res) ==
  /\ res.err = FALSE /\ res.present = present \cup {field}
  /\ first < last /\ text[first] \in LexemesOf(field) /\ field \in {"single", "double"}
  /\ \/ /\ res.next = last + 1
        /\ ~(text[first] = "double" /\ last = first + 1)
     \/ ReadsOn(first, last, res.next)

SetsNothing(first, last, res) ==
  /\ res.err \in BOOLEAN
  /\ \A field \in Field : field \in res.present <=> field \in present
  /\ res.present \subseteq Field
  /\ ~res.err => /\ res.next = last + 1
                 /\ first < last => text[first] \in {"unknown"}
  /\ first = last => res.err = FALSE

\* A line that is malformed, and one that is empty or passed over.
LEMMA RejectedSetsNothing ==
  ASSUME TypeOK, NEW first, NEW last, first # last
  PROVE  SetsNothing(first, last, Outcome(TRUE, 0, present))
BY DEF Outcome, SetsNothing, TypeOK

\* An empty line, and one of a field that is not selected, are passed over.
LEMMA PassedSetsNothing ==
  ASSUME TypeOK, NEW first, NEW last, first < last => text[first] = "unknown"
  PROVE  SetsNothing(first, last, Outcome(FALSE, last + 1, present))
BY DEF Outcome, SetsNothing, TypeOK

\* A field that takes the value keeps it, unless something is behind it.
LEMMA FieldSet ==
  ASSUME TypeOK, NEW first, NEW last, LineAt(first, last), first < last,
         NEW field \in {"single", "double"}, NEW next \in Nat, first < next,
         text[first] \in LexemesOf(field), field \notin present,
         Dispatch(first) = Outcome(FALSE, next, present \cup {field}),
         next > last => ReadsOn(first, last, next),
         text[first] = "double" /\ last = first + 1 => next > last
  PROVE  \/ SetsNothing(first, last, ParseLine(first, last))
         \/ Sets(field, first, last, ParseLine(first, last))
<1> DEFINE data == Dispatch(first)
           res  == ParseLine(first, last)
<1>0. /\ text \in Seq(Lexeme) /\ present \subseteq Field
      /\ first \in Nat /\ last \in Nat /\ first <= last
  BY Positions DEF TypeOK, LineAt
<1>1. text[first] # "value"
  BY Lexemes
<1> DEFINE unknown  == Outcome(unknown_error, last + 1, present)
           rejected == Outcome(TRUE, 0, {f \in data.present : text[first] \notin LexemesOf(f)})
           accepted == Outcome(FALSE, last + 1, data.present)
<1>2. res = IF data.err THEN data
            ELSE IF data.next = first THEN unknown
            ELSE IF data.next < last THEN rejected
            ELSE IF data.next > last THEN data
            ELSE accepted
  BY <1>0, <1>1, ParseLineFollows
<1>3. data.err = FALSE /\ data.next = next /\ data.present = present \cup {field}
  BY DEF Outcome
<1>4. data = Outcome(FALSE, next, present \cup {field})
  OBVIOUS
<1>8. res = IF next < last THEN rejected ELSE IF next > last THEN data ELSE accepted
  <2> HIDE DEF data, res, unknown, rejected, accepted
  <2>1. res = IF data.next = first THEN unknown
              ELSE IF data.next < last THEN rejected
              ELSE IF data.next > last THEN data
              ELSE accepted
    BY <1>2, <1>3
  <2>2. data.next # first
    BY <1>0, <1>3
  <2>3. QED
    BY <1>3, <2>1, <2>2
<1> HIDE DEF data, res
<1>5. CASE next < last
  <2>1. res = Outcome(TRUE, 0, {f \in present \cup {field} : text[first] \notin LexemesOf(f)})
    <3>1. res = rejected
      <4> HIDE DEF rejected, accepted
      <4>1. QED
        BY <1>5, <1>8
    <3>2. QED
      BY <1>3, <3>1
  <2>2. \A f \in Field : f # field => text[first] \notin LexemesOf(f)
    BY Lexemes DEF Field
  <2>3. {f \in present \cup {field} : text[first] \notin LexemesOf(f)} = present
    BY <1>0, <2>2
  <2>4. res = Outcome(TRUE, 0, present)
    BY <2>1, <2>3
  <2>5. SetsNothing(first, last, Outcome(TRUE, 0, present))
    <3>1. first # last
      BY <1>0
    <3>2. QED
      BY <3>1, RejectedSetsNothing, Zenon
  <2>6. QED
    BY <2>4, <2>5 DEF res
<1>6. CASE next > last
  <2>1. res = Outcome(FALSE, next, present \cup {field})
    <3>1. ~(next < last)
      BY <1>0, <1>6
    <3> HIDE DEF rejected, accepted
    <3>2. QED
      BY <1>4, <1>6, <1>8, <3>1
  <2>2. Sets(field, first, last, Outcome(FALSE, next, present \cup {field}))
    BY <1>6 DEF Sets, Outcome
  <2>3. QED
    BY <2>1, <2>2 DEF res
<1>7. CASE next = last
  <2>1. res = Outcome(FALSE, last + 1, present \cup {field})
    <3>1. ~(next < last) /\ ~(next > last)
      BY <1>0, <1>7
    <3>2. res = accepted
      <4> HIDE DEF rejected, accepted
      <4>1. QED
        BY <1>8, <3>1
    <3>3. QED
      BY <1>3, <3>2
  <2>2. Sets(field, first, last, Outcome(FALSE, last + 1, present \cup {field}))
    BY <1>0, <1>7 DEF Sets, Outcome
  <2>3. QED
    BY <2>1, <2>2 DEF res
<1>9. QED
  BY <1>0, <1>5, <1>6, <1>7 DEF res

\* A line sets the field whose id it begins with, or nothing.
LEMMA ParseLineOutcome ==
  ASSUME TypeOK, NEW first, NEW last, LineAt(first, last)
  PROVE  \/ SetsNothing(first, last, ParseLine(first, last))
         \/ \E field \in {"single", "double"} : Sets(field, first, last, ParseLine(first, last))
<1> DEFINE data == Dispatch(first)
           res  == ParseLine(first, last)
           wrong == Outcome(TRUE, 0, present)
<1>0. /\ text \in Seq(Lexeme) /\ present \subseteq Field /\ unknown_error \in BOOLEAN
      /\ first \in Nat /\ last \in Nat /\ first <= last
  BY Positions DEF TypeOK, LineAt
<1>1. wrong.err = TRUE
  BY DEF Outcome
<1>2. first < last => SetsNothing(first, last, wrong)
  <2>1. first < last => first # last
    BY <1>0
  <2>2. QED
    BY <2>1, RejectedSetsNothing, Zenon
<1>3. first < last /\ text[first] # "value" =>
        res = IF data.err THEN data
              ELSE IF data.next = first THEN Outcome(unknown_error, last + 1, present)
              ELSE IF data.next < last
                   THEN Outcome(TRUE, 0, {f \in data.present : text[first] \notin LexemesOf(f)})
              ELSE IF data.next > last THEN data
              ELSE Outcome(FALSE, last + 1, data.present)
  BY <1>0, ParseLineFollows
<1>4. first < last /\ text[first] # "value" /\ data = wrong => res = wrong
  <2> HIDE DEF data, res, wrong
  <2>1. QED
    BY <1>1, <1>3
<1>5. CASE first = last
  <2>1. res = Outcome(FALSE, last + 1, present)
    BY <1>5, Zenon DEF ParseLine
  <2>2. SetsNothing(first, last, Outcome(FALSE, last + 1, present))
    <3>1. ~(first < last)
      BY <1>0, <1>5
    <3>2. QED
      BY <3>1, PassedSetsNothing, Zenon
  <2>3. QED
    BY <2>1, <2>2
<1>6. CASE first < last /\ text[first] = "value"
  <2>1. NoObisId(first, last) /\ first # last
    BY <1>0, <1>6 DEF NoObisId
  <2>2. res = wrong
    BY <2>1, Zenon DEF ParseLine
  <2>3. QED
    BY <1>2, <1>6, <2>2
<1>7. CASE first < last /\ text[first] = "unknown"
  <2>1. data = Outcome(FALSE, first, present)
    BY <1>7 DEF Dispatch
  <2>2. data.err = FALSE /\ data.next = first
    BY <2>1 DEF Outcome
  <2>3. res = Outcome(unknown_error, last + 1, present)
    <3> HIDE DEF data, res
    <3>1. QED
      BY <1>3, <1>7, <2>2
  <2>4. /\ SetsNothing(first, last, Outcome(FALSE, last + 1, present))
        /\ SetsNothing(first, last, Outcome(TRUE, last + 1, present))
    BY <1>0, <1>7, PassedSetsNothing DEF SetsNothing, Outcome
  <2>5. unknown_error = FALSE \/ unknown_error = TRUE
    BY <1>0
  <2>6. QED
    BY <2>3, <2>4, <2>5
<1>8. CASE first < last /\ text[first] = "bad"
  <2>1. data = ParseField("single", 0)
    BY <1>8 DEF Dispatch
  <2>2. "single" \notin present => present \ {"single"} = present
    OBVIOUS
  <2>3. data = wrong
    BY <2>1, <2>2 DEF ParseField
  <2>4. QED
    BY <1>2, <1>4, <1>8, <2>3
<1>9. CASE first < last /\ text[first] = "good"
  <2>1. data = ParseField("single", first + 1)
    BY <1>9 DEF Dispatch
  <2>2. CASE "single" \in present
    <3>1. data = wrong
      BY <2>1, <2>2 DEF ParseField
    <3>2. QED
      BY <1>2, <1>4, <1>9, <3>1
  <2>3. CASE "single" \notin present
    <3>1. first + 1 # 0 /\ first + 1 \in Nat /\ first < first + 1 /\ ~(first + 1 > last)
      BY <1>0, <1>9
    <3>2. data = Outcome(FALSE, first + 1, present \cup {"single"})
      BY <2>1, <2>3, <3>1 DEF ParseField
    <3>3. text[first] \in LexemesOf("single") /\ text[first] # "double"
      BY <1>9, Lexemes
    <3>4. SetsNothing(first, last, res) \/ Sets("single", first, last, res)
      BY <1>9, <2>3, <3>1, <3>2, <3>3, FieldSet
    <3>5. QED
      BY <3>4
  <2>4. QED
    BY <2>2, <2>3
<1>10. CASE first < last /\ text[first] = "double"
  <2> DEFINE next == DoubleLine(first + 1)
  <2>1. data = ParseField("double", next)
    BY <1>10 DEF Dispatch
  <2>2. CASE "double" \in present \/ next = 0
    <3>1. "double" \notin present => present \ {"double"} = present
      OBVIOUS
    <3>2. data = wrong
      BY <2>1, <2>2, <3>1 DEF ParseField
    <3>3. QED
      BY <1>2, <1>4, <1>10, <3>2
  <2>3. CASE "double" \notin present /\ next # 0
    <3>1. /\ next \in Nat /\ first + 1 < next
          /\ last = first + 1 => ReadsOn(first, last, next)
          /\ last # first + 1 => next = first + 2
      BY <1>0, <1>10, <2>3, DoubleLineReadsOn
    <3>2. data = Outcome(FALSE, next, present \cup {"double"})
      BY <2>1, <2>3 DEF ParseField
    <3>3. text[first] \in LexemesOf("double")
      BY <1>10, Lexemes
    <3> HIDE DEF next
    <3>4. /\ first < next
          /\ next > last => ReadsOn(first, last, next)
          /\ text[first] = "double" /\ last = first + 1 => next > last
      BY <1>0, <1>10, <3>1
    <3>5. SetsNothing(first, last, res) \/ Sets("double", first, last, res)
      BY <1>10, <2>3, <3>1, <3>2, <3>3, <3>4, FieldSet
    <3>6. QED
      BY <3>5
  <2>4. QED
    BY <2>2, <2>3
<1>11. QED
  BY <1>0, <1>5, <1>6, <1>7, <1>8, <1>9, <1>10, FirstLexeme

(***************************************************************************)
(* The step that parses a data line, in DataLine and in Finish             *)
(***************************************************************************)
LineOf(res, start, stop, kind) ==
  [first |-> start, last |-> stop, wrong |-> res.err, kind |-> kind]

\* The line from line_start up to stop is parsed.
Takes(stop) ==
  LET res == ParseLine(line_start, stop)
  IN  /\ pc \in {"data", "last"} /\ LineAt(line_start, stop)
      /\ present' = res.present
      /\ Count(res, line_start)
      /\ Handle(res, line_start, stop, "data")
      /\ UNCHANGED input

\* Where the next line begins: behind the end of line, or behind a value that
\* was read ahead, with no carriage return in between.
LEMMA AfterLineFollows ==
  ASSUME TypeOK, NEW first, NEW last, LineAt(first, last)
  PROVE  LET res   == ParseLine(first, last)
             after == AfterLine(res, last)
         IN  /\ after \in Nat /\ last < after
             /\ last < end => after <= end
             /\ \A k \in last + 1 .. after - 1 : text[k] # "CR"
             /\ after = last + 1 \/ ReadsOn(first, last, after)
             /\ res.err \in BOOLEAN /\ res.present \subseteq Field
             /\ first = last => res.err = FALSE /\ res.present = present
<1> DEFINE res   == ParseLine(first, last)
           after == AfterLine(res, last)
<1>0. /\ text \in Seq(Lexeme) /\ present \subseteq Field /\ end \in Nat
      /\ first \in Nat /\ last \in Nat /\ first <= last /\ last <= end
  BY Positions DEF TypeOK, LineAt
<1>1. \/ SetsNothing(first, last, res)
      \/ \E field \in {"single", "double"} : Sets(field, first, last, res)
  BY ParseLineOutcome
<1>2. after = IF res.err THEN last + 1 ELSE res.next
  BY DEF AfterLine
<1> HIDE DEF res, after
<1>3. CASE SetsNothing(first, last, res)
  <2>1. after = last + 1
    BY <1>2, <1>3 DEF SetsNothing
  <2>2. first = last => res.err = FALSE /\ res.present = present
    BY <1>0, <1>3 DEF SetsNothing
  <2>3. QED
    BY <1>0, <1>3, <2>1, <2>2 DEF SetsNothing, res, after
<1>4. CASE \E field \in {"single", "double"} : Sets(field, first, last, res)
  <2>1. PICK field \in {"single", "double"} : Sets(field, first, last, res)
    BY <1>4
  <2>2. /\ res.err \in BOOLEAN /\ res.present \subseteq Field /\ first # last
        /\ after = last + 1 \/ ReadsOn(first, last, after)
    <3>1. res.err = FALSE /\ res.present = present \cup {field} /\ first < last
      BY <2>1 DEF Sets
    <3>2. after = res.next
      BY <1>2, <3>1
    <3>3. after = last + 1 \/ ReadsOn(first, last, after)
      BY <2>1, <3>2, Zenon DEF Sets
    <3>4. res.err \in BOOLEAN
      BY <3>1
    <3>5. res.present \subseteq Field
      BY <1>0, <3>1 DEF Field
    <3>6. QED
      BY <1>0, <3>1, <3>3, <3>4, <3>5
  <2>3. /\ after \in Nat /\ last < after
        /\ last < end => after <= end
        /\ \A k \in last + 1 .. after - 1 : text[k] # "CR"
    <3>1. CASE after = last + 1
      BY <1>0, <3>1
    <3>2. CASE ReadsOn(first, last, after)
      <4>1. PICK v \in last + 1 .. end - 1 :
               after = v + 1 /\ \A k \in last + 1 .. v : text[k] # "CR"
        BY <3>2 DEF ReadsOn
      <4>2. QED
        BY <1>0, <4>1
    <3>3. QED
      BY <2>2, <3>1, <3>2
  <2>4. QED
    BY <2>2, <2>3, Zenon DEF res, after
<1>5. QED
  BY <1>1, <1>3, <1>4

\* The lines handled, after one more.
LEMMA OneLineMore ==
  ASSUME NEW S, NEW s \in Seq(S), NEW x \in S
  PROVE  /\ Append(s, x) \in Seq(S)
         /\ ToSet(Append(s, x)) = ToSet(s) \cup {x}
         /\ Len(s) \in Nat /\ DOMAIN s = 1 .. Len(s)
         /\ DOMAIN Append(s, x) = 1 .. Len(s) + 1
         /\ \A i \in 1 .. Len(s) : Append(s, x)[i] = s[i]
         /\ Append(s, x)[Len(s) + 1] = x
<1>1. /\ Append(s, x) \in Seq(S) /\ Len(s) \in Nat /\ DOMAIN s = 1 .. Len(s)
      /\ DOMAIN Append(s, x) = 1 .. Len(s) + 1
      /\ \A i \in 1 .. Len(s) : Append(s, x)[i] = s[i]
      /\ Append(s, x)[Len(s) + 1] = x
  OBVIOUS
<1>2. ToSet(Append(s, x)) = ToSet(s) \cup {x}
  <2>1. ASSUME NEW y \in ToSet(Append(s, x)) PROVE y \in ToSet(s) \cup {x}
    <3>1. PICK i \in 1 .. Len(s) + 1 : y = Append(s, x)[i]
      BY <1>1, <2>1 DEF ToSet
    <3>2. i \in 1 .. Len(s) \/ i = Len(s) + 1
      BY <1>1
    <3>3. QED
      BY <1>1, <3>1, <3>2 DEF ToSet
  <2>2. ASSUME NEW y \in ToSet(s) PROVE y \in ToSet(Append(s, x))
    <3>1. PICK i \in 1 .. Len(s) : y = s[i]
      BY <1>1, <2>2 DEF ToSet
    <3>2. i \in 1 .. Len(s) + 1
      BY <1>1
    <3>3. QED
      BY <1>1, <3>1, <3>2 DEF ToSet
  <2>3. x \in ToSet(Append(s, x))
    <3>1. Len(s) + 1 \in 1 .. Len(s) + 1
      BY <1>1
    <3>2. QED
      BY <1>1, <3>1 DEF ToSet
  <2>4. QED
    BY <2>1, <2>2, <2>3
<1>3. QED
  BY <1>1, <1>2

\* The count of the malformed lines stays in its width.
LEMMA CountedInWidth ==
  ASSUME TypeOK, NEW res, res.err \in BOOLEAN, NEW line \in 0 .. end, Count(res, line)
  PROVE  field_errors' \in 0 .. FieldErrorRange - 1 /\ first_field_line' \in 0 .. end
<1>1. \A e \in Nat : (e + 1) % FieldErrorRange \in 0 .. FieldErrorRange - 1
  BY FieldErrorAssumption
<1>2. field_errors \in Nat
  BY FieldErrorAssumption DEF TypeOK
<1> DEFINE next == (field_errors + 1) % FieldErrorRange
<1>3. next \in 0 .. FieldErrorRange - 1
  BY <1>1, <1>2
<1> HIDE DEF next
<1>4. CASE res.err
  <2>1. /\ field_errors' = next
        /\ first_field_line' = IF field_errors' = 1 THEN line ELSE first_field_line
    BY <1>4, Zenon DEF Count, AddFieldError, next
  <2>2. QED
    BY <1>3, <2>1 DEF TypeOK
<1>5. CASE ~res.err
  <2>1. field_errors' = field_errors /\ first_field_line' = first_field_line
    BY <1>5, Zenon DEF Count, errors
  <2>2. QED
    BY <2>1 DEF TypeOK
<1>6. QED
  BY <1>4, <1>5

\* What Takes does to the state.
LEMMA TakenLine ==
  ASSUME TypeOK, NEW stop, Takes(stop)
  PROVE  LET res  == ParseLine(line_start, stop)
             line == LineOf(res, line_start, stop, "data")
         IN  /\ line \in Line /\ Line' = Line /\ end' = end
             /\ handled' = IF line_start = stop THEN handled ELSE Append(handled, line)
             /\ handled' \in Seq(Line)
             /\ present' \subseteq Field
             /\ field_errors' \in 0 .. FieldErrorRange - 1 /\ first_field_line' \in 0 .. end
<1> DEFINE res  == ParseLine(line_start, stop)
           line == LineOf(res, line_start, stop, "data")
<1>1. /\ LineAt(line_start, stop) /\ present' = res.present /\ Count(res, line_start)
      /\ Handle(res, line_start, stop, "data") /\ text' = text
  BY DEF Takes, input
<1>2. res.err \in BOOLEAN /\ res.present \subseteq Field
  BY <1>1, AfterLineFollows
<1>3. line \in Line
  BY <1>1, <1>2 DEF LineOf, LineAt, Line
<1>4. handled' = IF line_start = stop THEN handled ELSE Append(handled, line)
  BY <1>1 DEF Handle, LineOf
<1>5. end' = end /\ Line' = Line
  BY <1>1 DEF end, Line
<1>6. handled \in Seq(Line) /\ line_start \in 0 .. end
  BY Positions DEF TypeOK
<1>7. field_errors' \in 0 .. FieldErrorRange - 1 /\ first_field_line' \in 0 .. end
  <2> HIDE DEF res
  <2>1. QED
    BY <1>1, <1>2, <1>6, CountedInWidth
<1>8. handled' \in Seq(Line)
  <2> HIDE DEF line
  <2>1. QED
    BY <1>3, <1>4, <1>6
<1>9. QED
  BY <1>1, <1>2, <1>3, <1>4, <1>5, <1>7, <1>8, Zenon

\* The line a data line step takes.
LEMMA DataLineTakes ==
  ASSUME TypeOK, PointersInv, DataLine
  PROVE  \E stop \in line_start .. end - 1 :
           /\ Takes(stop) /\ pc = "data" /\ pc' = pc /\ line_end' = stop + 1
           /\ line_start' = AfterLine(ParseLine(line_start, stop), stop)
           /\ line_start' \in stop + 1 .. end
           /\ \A k \in stop + 1 .. line_start' - 1 : text[k] # "CR"
<1> DEFINE stop == FirstFrom(line_end, EndsLine)
<1>1. /\ pc = "data" /\ stop < end /\ pc' = pc
      /\ present' = ParseLine(line_start, stop).present
      /\ Count(ParseLine(line_start, stop), line_start)
      /\ line_start' = AfterLine(ParseLine(line_start, stop), stop)
      /\ line_end' = stop + 1
      /\ Handle(ParseLine(line_start, stop), line_start, stop, "data")
      /\ UNCHANGED input
  BY Zenon DEF DataLine
<1>2. /\ stop \in line_start .. end
      /\ stop < end => IsEndOfLine(stop)
      /\ \A k \in line_start .. stop - 1 : ~IsEndOfLine(k)
  BY <1>1, DataLineEnds
<1> HIDE DEF stop
<1>3. line_start \in 1 .. end /\ end \in Nat
  BY Positions DEF TypeOK
<1>4. LineAt(line_start, stop) /\ stop \in line_start .. end - 1
  BY <1>1, <1>2, <1>3 DEF LineAt
<1>5. Takes(stop)
  BY <1>1, <1>4, Zenon DEF Takes
<1> DEFINE after == AfterLine(ParseLine(line_start, stop), stop)
<1>6. /\ after \in Nat /\ stop < after
      /\ stop < end => after <= end
      /\ \A k \in stop + 1 .. after - 1 : text[k] # "CR"
  BY <1>4, AfterLineFollows, Zenon
<1>7. /\ line_start' = after
      /\ line_start' \in stop + 1 .. end
      /\ \A k \in stop + 1 .. line_start' - 1 : text[k] # "CR"
  <2>1. line_start' = after
    BY <1>1
  <2> HIDE DEF after
  <2>2. QED
    BY <1>1, <1>3, <1>4, <1>6, <2>1
<1>8. QED
  BY <1>1, <1>4, <1>5, <1>7, Zenon

\* The line the last step takes; nothing, if nothing is left.
LEMMA FinishTakes ==
  ASSUME TypeOK, PointersInv, Finish
  PROVE  Takes(end) /\ pc = "last" /\ pc' = "done" /\ UNCHANGED position
<1> DEFINE res == ParseLine(line_start, end)
<1>1. /\ pc = "last" /\ pc' = "done" /\ UNCHANGED input /\ UNCHANGED position
      /\ line_start # line_end => /\ present' = res.present
                                  /\ Count(res, line_start)
                                  /\ Handle(res, line_start, end, "data")
      /\ line_start = line_end => UNCHANGED <<present, errors, handled>>
  BY Zenon DEF Finish
<1>2. /\ line_end = end /\ \A k \in line_start .. end - 1 : ~IsEndOfLine(k)
      /\ line_start \in 1 .. end /\ end \in Nat
  BY <1>1, Positions DEF PointersInv, TypeOK
<1>3. LineAt(line_start, end)
  BY <1>2 DEF LineAt
<1>4. CASE line_start = end
  <2>1. res.err = FALSE /\ res.present = present
    BY <1>3, <1>4, AfterLineFollows
  <2>2. present' = present /\ errors' = errors /\ handled' = handled
    BY <1>1, <1>2, <1>4, Zenon
  <2>3. ~res.err
    BY <2>1
  <2>4. Count(res, line_start)
    <3> HIDE DEF res
    <3>1. QED
      BY <2>2, <2>3, Zenon DEF Count
  <2>5. Handle(res, line_start, end, "data")
    BY <1>4, <2>2, Zenon DEF Handle
  <2>6. QED
    BY <1>1, <1>3, <2>1, <2>2, <2>4, <2>5, Zenon DEF Takes
<1>5. CASE line_start # end
  BY <1>1, <1>2, <1>3, <1>5, Zenon DEF Takes
<1>6. QED
  BY <1>4, <1>5

\* The line the first step takes.
IdTakes(stop, res) ==
  /\ pc = "id" /\ pc' = "data" /\ line_start = 1 /\ line_end = 1 /\ handled = <<>>
  /\ LineAt(1, stop) /\ stop < end
  /\ res.err \in BOOLEAN
  /\ present' = res.present /\ Count(res, 1)
  /\ res.present = IF res.err THEN present ELSE present \cup {"identification"}
  /\ line_start' = stop + 1 /\ line_end' = stop + 1
  /\ handled' = <<LineOf(res, 1, stop, "id")>>
  /\ UNCHANGED input

\* IdLine is such a step.
LEMMA IdLineTakes ==
  ASSUME TypeOK, PointersInv, IdLine
  PROVE  \E stop, res : IdTakes(stop, res)
<1> DEFINE stop == FirstFrom(line_end, IsEndOfLine)
           res  == ParseField("identification", stop)
<1>1. /\ pc = "id" /\ stop < end /\ pc' = "data"
      /\ present' = res.present /\ Count(res, line_start)
      /\ line_start' = stop + 1 /\ line_end' = stop + 1
      /\ Handle(res, line_start, stop, "id")
      /\ UNCHANGED input
  BY Zenon DEF IdLine
<1>2. line_start = 1 /\ line_end = 1 /\ handled = <<>>
  BY <1>1 DEF PointersInv
<1>3. 1 \in 1 .. end /\ end \in Nat
  BY <1>2, Positions DEF TypeOK
<1>4. /\ stop \in 1 .. end /\ IsEndOfLine(stop)
      /\ \A j \in 1 .. stop - 1 : ~IsEndOfLine(j)
  BY <1>1, <1>2, <1>3, NextEndOfLine DEF TypeOK
<1>5. /\ res.err \in BOOLEAN
      /\ res.present = IF res.err THEN present ELSE present \cup {"identification"}
  <2>1. CASE "identification" \in present
    BY <2>1 DEF ParseField, Outcome
  <2>2. CASE "identification" \notin present
    <3>1. stop # 0
      BY <1>4
    <3>2. res = Outcome(FALSE, stop, present \cup {"identification"})
      BY <2>2, <3>1, Zenon DEF ParseField
    <3>3. res.err = FALSE /\ res.present = present \cup {"identification"}
      BY <3>2 DEF Outcome
    <3> HIDE DEF res
    <3>4. QED
      BY <3>3
  <2>3. QED
    BY <2>1, <2>2
<1> HIDE DEF stop, res
<1>6. LineAt(1, stop)
  BY <1>3, <1>4 DEF LineAt
<1>7. handled' = <<LineOf(res, 1, stop, "id")>>
  BY <1>1, <1>2 DEF Handle, LineOf
<1>8. QED
  BY <1>1, <1>2, <1>5, <1>6, <1>7, Zenon DEF IdTakes

(***************************************************************************)
(* Types and pointers                                                      *)
(***************************************************************************)
\* The initial states are well typed, and the pointers where they begin.
LEMMA InitTyped == Init => TypeOK /\ PointersInv
<1> SUFFICES ASSUME Init PROVE TypeOK /\ PointersInv
  OBVIOUS
<1>1. text \in Seq(Lexeme)
  BY BoundedTexts DEF Init
<1>2. end \in Nat \ {0}
  BY <1>1, Positions
<1>3. /\ reused \subseteq Field /\ present \subseteq Field /\ unknown_error \in BOOLEAN
      /\ line_start = 1 /\ line_end = 1 /\ field_errors = 0 /\ first_field_line = 0
      /\ pc = "id" /\ handled = <<>>
  BY DEF Init
<1>4. field_errors \in 0 .. FieldErrorRange - 1
  BY <1>3, FieldErrorAssumption
<1>5. handled \in Seq(Line)
  BY <1>3
<1>6. line_start \in 1 .. end /\ line_end \in 1 .. end /\ first_field_line \in 0 .. end
  BY <1>2, <1>3
<1>7. TypeOK
  BY <1>1, <1>3, <1>4, <1>5, <1>6 DEF TypeOK
<1>8. PointersInv
  BY <1>3 DEF PointersInv, ToSet
<1>9. QED
  BY <1>7, <1>8

\* The pointers never leave the text, whatever a line holds.
LEMMA TypeStep == TypeOK /\ PointersInv /\ [Next]_vars => TypeOK'
<1> SUFFICES ASSUME TypeOK, PointersInv, [Next]_vars PROVE TypeOK'
  OBVIOUS
<1>1. UNCHANGED input => end' = end /\ Line' = Line
  BY DEF input, end, Line
<1>2. /\ line_start \in 1 .. end /\ line_end \in 1 .. end /\ end \in Nat \ {0}
  BY Positions DEF TypeOK
<1>3. CASE IdLine
  <2>1. PICK stop, res : IdTakes(stop, res)
    BY <1>3, IdLineTakes
  <2>2. stop \in 1 .. end - 1 /\ 1 \in 1 .. end /\ 1 \in 0 .. end
    BY <1>2, <2>1 DEF IdTakes, LineAt
  <2>3. /\ field_errors' \in 0 .. FieldErrorRange - 1 /\ first_field_line' \in 0 .. end
    BY <2>1, <2>2, CountedInWidth DEF IdTakes
  <2>4. LineOf(res, 1, stop, "id") \in Line
    <3>1. res.err \in BOOLEAN /\ stop \in 1 .. end
      BY <1>2, <2>1, <2>2 DEF IdTakes
    <3>2. QED
      BY <2>2, <3>1 DEF LineOf, Line
  <2>5. handled' \in Seq(Line)
    BY <2>1, <2>4 DEF IdTakes
  <2>6. res.present \subseteq Field
    BY <2>1 DEF IdTakes, TypeOK, Field
  <2>7. line_start' \in 1 .. end /\ line_end' \in 1 .. end
    BY <1>2, <2>1, <2>2 DEF IdTakes
  <2>8. QED
    BY <1>1, <2>1, <2>3, <2>5, <2>6, <2>7 DEF IdTakes, input, TypeOK
<1>4. CASE NoIdLine
  BY <1>1, <1>2, <1>4 DEF NoIdLine, input, errors, TypeOK
<1>5. CASE DataLine
  <2>1. PICK stop \in line_start .. end - 1 :
           /\ Takes(stop) /\ pc' = pc /\ line_end' = stop + 1
           /\ line_start' \in stop + 1 .. end
    BY <1>5, DataLineTakes
  <2>2. line_start' \in 1 .. end /\ line_end' \in 1 .. end
    BY <1>2, <2>1
  <2>3. /\ handled' \in Seq(Line) /\ present' \subseteq Field
        /\ field_errors' \in 0 .. FieldErrorRange - 1 /\ first_field_line' \in 0 .. end
    BY <2>1, TakenLine, Zenon
  <2>4. UNCHANGED input
    BY <2>1 DEF Takes
  <2>5. QED
    BY <1>1, <2>1, <2>2, <2>3, <2>4 DEF input, TypeOK
<1>6. CASE NoMoreLines
  BY <1>1, <1>2, <1>6 DEF NoMoreLines, input, errors, TypeOK
<1>7. CASE Finish
  <2>1. Takes(end) /\ pc' = "done" /\ UNCHANGED position
    BY <1>7, FinishTakes
  <2>2. /\ handled' \in Seq(Line) /\ present' \subseteq Field
        /\ field_errors' \in 0 .. FieldErrorRange - 1 /\ first_field_line' \in 0 .. end
    BY <2>1, TakenLine, Zenon
  <2>3. UNCHANGED input
    BY <2>1 DEF Takes
  <2>4. QED
    BY <1>1, <2>1, <2>2, <2>3 DEF input, position, TypeOK
<1>8. CASE UNCHANGED vars
  BY <1>1, <1>8 DEF vars, input, position, errors, TypeOK
<1>9. QED
  BY <1>3, <1>4, <1>5, <1>6, <1>7, <1>8 DEF Next

\* The lines handled are lines of the text.
LEMMA HandledAreLines ==
  ASSUME TypeOK
  PROVE  ToSet(handled) \subseteq Line
BY DEF TypeOK, ToSet

\* The set of the lines handled, after Takes.
LEMMA TakenLines ==
  ASSUME TypeOK, NEW stop, Takes(stop)
  PROVE  LET line == LineOf(ParseLine(line_start, stop), line_start, stop, "data")
         IN  ToSet(handled') = IF line_start = stop THEN ToSet(handled)
                               ELSE ToSet(handled) \cup {line}
<1> DEFINE line == LineOf(ParseLine(line_start, stop), line_start, stop, "data")
<1>1. /\ line \in Line /\ handled \in Seq(Line)
      /\ handled' = IF line_start = stop THEN handled ELSE Append(handled, line)
  <2>1. line \in Line /\ handled' = IF line_start = stop THEN handled ELSE Append(handled, line)
    BY TakenLine, Zenon
  <2>2. QED
    BY <2>1 DEF TypeOK
<1> HIDE DEF line
<1>2. ToSet(Append(handled, line)) = ToSet(handled) \cup {line}
  BY <1>1, OneLineMore
<1>3. QED
  BY <1>1, <1>2 DEF line

\* The pointers stay in order.
LEMMA PointersStep == TypeOK /\ PointersInv /\ [Next]_vars => PointersInv'
<1> SUFFICES ASSUME TypeOK, PointersInv, [Next]_vars PROVE PointersInv'
  OBVIOUS
<1>1. UNCHANGED input => text' = text /\ end' = end /\ \A k : IsEndOfLine(k)' <=> IsEndOfLine(k)
  BY DEF input, end, IsEndOfLine
<1>2. /\ line_start \in 1 .. end /\ line_end \in 1 .. end /\ end \in Nat \ {0}
  BY Positions DEF TypeOK
<1>3. CASE IdLine
  <2>1. PICK stop, res : IdTakes(stop, res)
    BY <1>3, IdLineTakes
  <2>2. stop \in 1 .. end - 1 /\ pc' = "data" /\ line_start' = stop + 1 /\ line_end' = stop + 1
    BY <1>2, <2>1 DEF IdTakes, LineAt
  <2>3. \A line \in ToSet(handled') : line.last < line_start'
    <3>1. \A line \in ToSet(handled') : line = LineOf(res, 1, stop, "id")
      BY <2>1 DEF IdTakes, ToSet
    <3>2. LineOf(res, 1, stop, "id").last = stop
      BY DEF LineOf
    <3>3. QED
      BY <2>2, <3>1, <3>2
  <2>4. QED
    BY <2>2, <2>3 DEF PointersInv
<1>4. CASE NoIdLine
  <2>1. /\ pc = "id" /\ FirstFrom(line_end, IsEndOfLine) = end /\ line_end' = end
        /\ pc' = "last" /\ UNCHANGED <<input, line_start, handled>>
    BY <1>4 DEF NoIdLine
  <2>2. line_start = 1 /\ line_end = 1
    BY <2>1 DEF PointersInv
  <2>3. \A k \in line_start .. end - 1 : ~IsEndOfLine(k)
    BY <1>2, <2>1, <2>2, NextEndOfLine DEF TypeOK
  <2>4. QED
    BY <1>1, <2>1, <2>3 DEF PointersInv
<1>5. CASE DataLine
  <2>1. PICK stop \in line_start .. end - 1 :
           /\ Takes(stop) /\ pc = "data" /\ pc' = pc /\ line_end' = stop + 1
           /\ line_start' \in stop + 1 .. end
           /\ \A k \in stop + 1 .. line_start' - 1 : text[k] # "CR"
    BY <1>5, DataLineTakes
  <2>2. UNCHANGED input
    BY <2>1 DEF Takes
  <2> DEFINE line == LineOf(ParseLine(line_start, stop), line_start, stop, "data")
  <2>3. ToSet(handled') \subseteq ToSet(handled) \cup {line}
    <3>1. ToSet(handled') = IF line_start = stop THEN ToSet(handled)
                            ELSE ToSet(handled) \cup {line}
      BY <2>1, TakenLines, Zenon
    <3> HIDE DEF line
    <3>2. QED
      BY <3>1
  <2>4. line.last = stop
    BY DEF LineOf
  <2>5. \A old \in ToSet(handled) : old.last \in Nat /\ old.last < line_start
    BY <1>2, <2>1, HandledAreLines DEF PointersInv, Line
  <2> HIDE DEF line
  <2>6. \A new \in ToSet(handled') : new.last < line_start'
    <3>1. ASSUME NEW new \in ToSet(handled') PROVE new.last < line_start'
      <4>1. new \in ToSet(handled) \/ new = line
        BY <2>3
      <4>2. QED
        BY <1>2, <2>1, <2>4, <2>5, <4>1
    <3>2. QED
      BY <3>1
  <2>7. /\ line_end' <= line_start'
        /\ \A k \in line_end' .. line_start' - 1 : text'[k] # "CR"
    <3>1. text' = text
      BY <2>2 DEF input
    <3>2. line_end' <= line_start'
      BY <1>2, <2>1
    <3>3. \A k \in line_end' .. line_start' - 1 : text[k] # "CR"
      BY <2>1
    <3>4. QED
      BY <3>1, <3>2, <3>3
  <2>8. QED
    BY <2>1, <2>6, <2>7 DEF PointersInv
<1>6. CASE NoMoreLines
  <2>1. /\ pc = "data" /\ FirstFrom(line_end, EndsLine) = end /\ line_end' = end
        /\ pc' = "last" /\ UNCHANGED <<input, line_start, handled>>
    BY <1>6 DEF NoMoreLines
  <2>2. \A k \in line_start .. end - 1 : ~IsEndOfLine(k)
    BY <2>1, DataLineEnds
  <2>3. QED
    BY <1>1, <2>1, <2>2 DEF PointersInv
<1>7. CASE Finish
  <2>1. pc' = "done"
    BY <1>7 DEF Finish
  <2>2. QED
    BY <2>1 DEF PointersInv
<1>8. CASE UNCHANGED vars
  BY <1>1, <1>8 DEF vars, input, position, PointersInv
<1>9. QED
  BY <1>3, <1>4, <1>5, <1>6, <1>7, <1>8 DEF Next

\* The two pointers of parse_data stay in the text, the count of the errors in
\* its width.  Types and pointers are kept together: a data line begins at or in
\* front of its end only because line_end finds no end of line before it.
THEOREM TypeCorrect == Spec => []TypeOK
<1>1. Init => TypeOK /\ PointersInv
  BY InitTyped
<1>2. TypeOK /\ PointersInv /\ [Next]_vars => (TypeOK /\ PointersInv)'
  BY TypeStep, PointersStep
<1>3. QED
  BY <1>1, <1>2, PTL DEF Spec

(***************************************************************************)
(* Fields, errors and order                                                *)
(***************************************************************************)
\* A step that handles no line changes nothing of the result.
LEMMA Steps ==
  ASSUME TypeOK, PointersInv, [Next]_vars
  PROVE  \/ UNCHANGED <<input, present, errors, handled>>
         \/ \E stop, res : IdTakes(stop, res)
         \/ \E stop : Takes(stop)
<1>1. CASE IdLine
  BY <1>1, IdLineTakes
<1>2. CASE NoIdLine \/ NoMoreLines
  BY <1>2 DEF NoIdLine, NoMoreLines
<1>3. CASE DataLine
  BY <1>3, DataLineTakes
<1>4. CASE Finish
  BY <1>4, FinishTakes
<1>5. CASE UNCHANGED vars
  BY <1>5 DEF vars
<1>6. QED
  BY <1>1, <1>2, <1>3, <1>4, <1>5 DEF Next

\* A line begins behind the end of the one before, and ends behind its own.
LEMMA OrderStep ==
  ASSUME TypeOK, PointersInv, LinesAreForward, InOrder, [Next]_vars
  PROVE  LinesAreForward' /\ InOrder'
<1>1. CASE UNCHANGED <<input, present, errors, handled>>
  BY <1>1 DEF LinesAreForward, InOrder
<1>2. CASE \E stop, res : IdTakes(stop, res)
  <2>1. PICK stop, res : IdTakes(stop, res)
    BY <1>2
  <2>2. handled' = <<LineOf(res, 1, stop, "id")>> /\ 1 <= stop
    BY <2>1, Positions DEF IdTakes, LineAt
  <2>3. LineOf(res, 1, stop, "id").first = 1 /\ LineOf(res, 1, stop, "id").last = stop
    BY DEF LineOf
  <2> DEFINE line == LineOf(res, 1, stop, "id")
  <2> HIDE DEF line
  <2>4. handled' = <<line>> /\ line.first <= line.last
    BY <2>2, <2>3 DEF line
  <2>5. DOMAIN handled' = {1} /\ handled'[1] = line
    BY <2>4
  <2>6. QED
    BY <2>4, <2>5 DEF LinesAreForward, InOrder
<1>3. CASE \E stop : Takes(stop)
  <2>1. PICK stop : Takes(stop)
    BY <1>3
  <2> DEFINE line == LineOf(ParseLine(line_start, stop), line_start, stop, "data")
  <2>2. /\ line \in Line
        /\ handled' = IF line_start = stop THEN handled ELSE Append(handled, line)
    BY <2>1, TakenLine, Zenon
  <2>3. line.first = line_start /\ line.last = stop
    BY DEF LineOf
  <2>4. /\ line_start \in Nat /\ stop \in Nat /\ line_start <= stop
        /\ \A old \in ToSet(handled) : old.last <= line_start /\ old.last \in Nat
    <3>1. \A old \in ToSet(handled) : old.last \in Nat /\ old.last < line_start
      BY <2>1, HandledAreLines, Positions DEF Takes, PointersInv, Line
    <3>2. line_start \in Nat /\ stop \in Nat /\ line_start <= stop
      BY <2>1, Positions DEF Takes, LineAt, TypeOK
    <3>3. QED
      BY <3>1, <3>2
  <2> HIDE DEF line
  <2>5. CASE line_start = stop
    BY <2>2, <2>5 DEF LinesAreForward, InOrder
  <2>6. CASE line_start # stop
    <3> DEFINE n == Len(handled)
    <3>1. /\ handled' = Append(handled, line) /\ n \in Nat /\ DOMAIN handled = 1 .. n
          /\ DOMAIN handled' = 1 .. n + 1 /\ handled'[n + 1] = line
          /\ \A i \in 1 .. n : handled'[i] = handled[i]
      BY <2>2, <2>6, OneLineMore DEF TypeOK
    <3> HIDE DEF n
    <3>2. LinesAreForward'
      BY <2>3, <2>4, <3>1 DEF LinesAreForward
    <3>3. ASSUME NEW i \in 1 .. n + 1, NEW j \in 1 .. n + 1, i < j
          PROVE  handled'[i].last <= handled'[j].first
      <4>1. i \in 1 .. n /\ handled'[i] = handled[i] /\ handled[i] \in ToSet(handled)
        BY <3>1, <3>3 DEF ToSet
      <4>2. CASE j = n + 1
        BY <2>3, <2>4, <3>1, <4>1, <4>2
      <4>3. CASE j \in 1 .. n
        BY <3>1, <3>3, <4>1, <4>3 DEF InOrder
      <4>4. QED
        BY <3>1, <4>2, <4>3
    <3>4. InOrder'
      BY <3>1, <3>3 DEF InOrder
    <3>5. QED
      BY <3>2, <3>4
  <2>7. QED
    BY <2>5, <2>6
<1>4. QED
  BY <1>1, <1>2, <1>3, Steps

\* A line that is taken sets the field that is present afterwards, or none.
LEMMA TakenSets ==
  ASSUME TypeOK, NEW stop, Takes(stop), NEW field \in Field
  PROVE  LET line == LineOf(ParseLine(line_start, stop), line_start, stop, "data")
         IN  /\ line_start # stop => (field \in present' <=> field \in present \/ SetBy(field, line))
             /\ line_start = stop => (field \in present' <=> field \in present)
<1> DEFINE res  == ParseLine(line_start, stop)
           line == LineOf(res, line_start, stop, "data")
<1>1. LineAt(line_start, stop) /\ present' = res.present
  BY DEF Takes
<1>2. line_start \in Nat /\ stop \in Nat /\ line_start <= stop
  BY <1>1, Positions DEF TypeOK, LineAt
<1>3. \/ SetsNothing(line_start, stop, res)
      \/ \E f \in {"single", "double"} : Sets(f, line_start, stop, res)
  BY <1>1, ParseLineOutcome, Zenon
<1>4. line.wrong = res.err /\ line.kind = "data" /\ line.first = line_start
  BY DEF LineOf
<1> HIDE DEF line, res
<1>5. SetBy(field, line) <=> ~res.err /\ text[line_start] \in LexemesOf(field)
  <2>1. LexemesOf("identification") = {}
    BY Lexemes
  <2>2. CASE field = "identification"
    BY <1>4, <2>1, <2>2 DEF SetBy
  <2>3. CASE field # "identification"
    BY <1>4, <2>3 DEF SetBy
  <2>4. QED
    BY <2>2, <2>3
<1>6. CASE SetsNothing(line_start, stop, res)
  <2>1. field \in res.present <=> field \in present
    BY <1>6 DEF SetsNothing
  <2>2. line_start # stop => ~SetBy(field, line)
    <3>1. line_start # stop /\ ~res.err => text[line_start] = "unknown"
      BY <1>2, <1>6 DEF SetsNothing
    <3>2. "unknown" \notin LexemesOf(field)
      BY Lexemes DEF Field
    <3>3. QED
      BY <1>5, <3>1, <3>2
  <2>3. QED
    BY <1>1, <2>1, <2>2, Zenon DEF line, res
<1>7. CASE \E f \in {"single", "double"} : Sets(f, line_start, stop, res)
  <2>1. PICK f \in {"single", "double"} : Sets(f, line_start, stop, res)
    BY <1>7
  <2>2. /\ res.err = FALSE /\ res.present = present \cup {f} /\ line_start < stop
        /\ text[line_start] \in LexemesOf(f)
    BY <2>1 DEF Sets
  <2>3. SetBy(field, line) <=> field = f
    <3>1. text[line_start] \in LexemesOf(field) <=> field = f
      BY <2>2, Lexemes DEF Field
    <3>2. ~res.err
      BY <2>2
    <3>3. QED
      BY <1>5, <3>1, <3>2
  <2>4. line_start # stop
    BY <1>2, <2>2
  <2>5. field \in present' <=> field \in present \/ SetBy(field, line)
    BY <1>1, <2>2, <2>3
  <2>6. QED
    BY <2>4, <2>5, Zenon DEF line, res
<1>8. QED
  BY <1>3, <1>6, <1>7

\* The fields that are present are those the lines have set.
LEMMA PresentStep ==
  ASSUME TypeOK, PointersInv, PresentIfAccepted, [Next]_vars
  PROVE  PresentIfAccepted'
<1> SUFFICES ASSUME NEW field \in Field
             PROVE  field \in present' <=>
                      field \in reused' \/ \E line \in ToSet(handled') : SetBy(field, line)'
  BY DEF PresentIfAccepted
<1>1. field \in present <=> field \in reused \/ \E line \in ToSet(handled) : SetBy(field, line)
  BY DEF PresentIfAccepted
<1>2. CASE UNCHANGED <<input, present, errors, handled>>
  BY <1>1, <1>2 DEF input, SetBy
<1>3. CASE \E stop, res : IdTakes(stop, res)
  <2>1. PICK stop, res : IdTakes(stop, res)
    BY <1>3
  <2> DEFINE line == LineOf(res, 1, stop, "id")
  <2>2. line.wrong = res.err /\ line.kind = "id"
    BY DEF LineOf
  <2>3. /\ handled = <<>> /\ handled' = <<line>> /\ res.err \in BOOLEAN
        /\ present' = IF res.err THEN present ELSE present \cup {"identification"}
        /\ reused' = reused
    BY <2>1 DEF IdTakes, input
  <2> HIDE DEF line
  <2>4. ToSet(handled) = {} /\ ToSet(handled') = {line}
    BY <2>3 DEF ToSet
  <2>5. field \in present <=> field \in reused
    BY <1>1, <2>4
  <2>6. SetBy(field, line)' <=> ~res.err /\ field = "identification"
    BY <2>2, <2>3 DEF SetBy
  <2>7. field \in present' <=> field \in present \/ (~res.err /\ field = "identification")
    BY <2>3
  <2>8. QED
    BY <2>3, <2>4, <2>5, <2>6, <2>7
<1>4. CASE \E stop : Takes(stop)
  <2>1. PICK stop : Takes(stop)
    BY <1>4
  <2> DEFINE line == LineOf(ParseLine(line_start, stop), line_start, stop, "data")
  <2>2. /\ line_start # stop => (field \in present' <=> field \in present \/ SetBy(field, line))
        /\ line_start = stop => (field \in present' <=> field \in present)
    BY <2>1, TakenSets, Zenon
  <2>3. ToSet(handled') = IF line_start = stop THEN ToSet(handled)
                          ELSE ToSet(handled) \cup {line}
    BY <2>1, TakenLines, Zenon
  <2>4. reused' = reused /\ text' = text
    BY <2>1 DEF Takes, input
  <2> HIDE DEF line
  <2>5. \A l : SetBy(field, l)' <=> SetBy(field, l)
    BY <2>4 DEF SetBy
  <2>6. CASE line_start = stop
    BY <1>1, <2>2, <2>3, <2>4, <2>5, <2>6, Zenon
  <2>7. CASE line_start # stop
    <3>1. ToSet(handled') = ToSet(handled) \cup {line}
      BY <2>3, <2>7
    <3>2. (\E l \in ToSet(handled') : SetBy(field, l)) <=>
            (\E l \in ToSet(handled) : SetBy(field, l)) \/ SetBy(field, line)
      BY <3>1
    <3>3. QED
      BY <1>1, <2>2, <2>4, <2>5, <2>7, <3>2
  <2>8. QED
    BY <2>6, <2>7
<1>5. QED
  BY <1>2, <1>3, <1>4, Steps

\* The indices of the malformed lines.
Wrong(lines) == {i \in DOMAIN lines : lines[i].wrong}

\* They are as many as the counter can tell, and one line adds at most one.
LEMMA WrongLines ==
  ASSUME NEW s \in Seq(Line), NEW line \in Line
  PROVE  /\ Wrong(s) \subseteq 1 .. Len(s) /\ Cardinality(Wrong(s)) \in Nat
         /\ Wrong(Append(s, line)) =
              IF line.wrong THEN Wrong(s) \cup {Len(s) + 1} ELSE Wrong(s)
         /\ Cardinality(Wrong(Append(s, line))) =
              IF line.wrong THEN Cardinality(Wrong(s)) + 1 ELSE Cardinality(Wrong(s))
         /\ Cardinality(Wrong(s)) = 0 => Wrong(s) = {}
<1>1. /\ Append(s, line) \in Seq(Line) /\ Len(s) \in Nat /\ DOMAIN s = 1 .. Len(s)
      /\ DOMAIN Append(s, line) = 1 .. Len(s) + 1
      /\ \A i \in 1 .. Len(s) : Append(s, line)[i] = s[i]
      /\ Append(s, line)[Len(s) + 1] = line
  BY OneLineMore
<1>2. Wrong(s) \subseteq 1 .. Len(s)
  BY <1>1 DEF Wrong
<1>3. IsFiniteSet(Wrong(s))
  <2>1. IsFiniteSet(1 .. Len(s))
    BY <1>1, FS_Interval
  <2>2. QED
    BY <1>2, <2>1, FS_Subset, Zenon
<1>4. Cardinality(Wrong(s)) \in Nat /\ (Cardinality(Wrong(s)) = 0 => Wrong(s) = {})
  BY <1>3, FS_CardinalityType, FS_EmptySet
<1>5. Wrong(Append(s, line)) = IF line.wrong THEN Wrong(s) \cup {Len(s) + 1} ELSE Wrong(s)
  BY <1>1 DEF Wrong
<1>6. Len(s) + 1 \notin Wrong(s)
  BY <1>1, <1>2
<1>7. Cardinality(Wrong(s) \cup {Len(s) + 1}) = Cardinality(Wrong(s)) + 1
  BY <1>3, <1>6, FS_AddElement
<1>8. QED
  BY <1>2, <1>4, <1>5, <1>7

\* One line more is counted, if it is malformed.
LEMMA OneMoreCounted ==
  ASSUME TypeOK, ErrorsAreCounted, NEW line \in Line, NEW res, res.err = line.wrong,
         Count(res, line.first), handled' = Append(handled, line)
  PROVE  ErrorsAreCounted'
<1> DEFINE wrong  == Wrong(handled)
           n      == Len(handled)
           next   == (field_errors + 1) % FieldErrorRange
<1>1. /\ n \in Nat /\ DOMAIN handled = 1 .. n
      /\ \A i \in 1 .. n : handled'[i] = handled[i]
      /\ handled'[n + 1] = line
  BY OneLineMore DEF TypeOK
<1>2. /\ wrong \subseteq 1 .. n /\ Cardinality(wrong) \in Nat
      /\ Wrong(handled') = IF line.wrong THEN wrong \cup {n + 1} ELSE wrong
      /\ Cardinality(Wrong(handled')) =
           IF line.wrong THEN Cardinality(wrong) + 1 ELSE Cardinality(wrong)
      /\ Cardinality(wrong) = 0 => wrong = {}
  BY WrongLines DEF TypeOK
<1>3. Cardinality(wrong) < FieldErrorRange =>
        /\ field_errors = Cardinality(wrong)
        /\ \A i \in wrong : (\A j \in wrong : i <= j) => first_field_line = handled[i].first
  BY DEF ErrorsAreCounted, Wrong
<1>4. line.wrong \in BOOLEAN
  BY DEF Line
<1>5. \A e \in Nat : e + 1 < FieldErrorRange => (e + 1) % FieldErrorRange = e + 1
  BY FieldErrorAssumption
<1>6. FieldErrorRange \in Nat
  BY FieldErrorAssumption
<1>7. Cardinality(wrong) + 1 < FieldErrorRange => next = Cardinality(wrong) + 1
  <2>1. Cardinality(wrong) + 1 < FieldErrorRange =>
          Cardinality(wrong) < FieldErrorRange /\ field_errors = Cardinality(wrong)
    BY <1>2, <1>3, <1>6
  <2>2. QED
    BY <1>2, <1>5, <2>1
<1>8. /\ line.wrong => /\ field_errors' = next
                       /\ first_field_line' = IF field_errors' = 1 THEN line.first
                                              ELSE first_field_line
      /\ ~line.wrong => field_errors' = field_errors /\ first_field_line' = first_field_line
  BY Zenon DEF Count, AddFieldError, errors
<1> DEFINE wrong2 == Wrong(handled')
<1> SUFFICES ASSUME Cardinality(wrong2) < FieldErrorRange
             PROVE  /\ field_errors' = Cardinality(wrong2)
                    /\ \A i \in wrong2 : (\A j \in wrong2 : i <= j) =>
                         first_field_line' = handled'[i].first
  BY DEF ErrorsAreCounted, Wrong
<1> HIDE DEF wrong, n, next, wrong2
<1>9. CASE ~line.wrong
  <2>1. wrong2 = wrong /\ Cardinality(wrong2) = Cardinality(wrong)
    BY <1>2, <1>9 DEF wrong2
  <2>2. QED
    BY <1>1, <1>2, <1>3, <1>8, <1>9, <2>1
<1>10. CASE line.wrong
  <2>1. wrong2 = wrong \cup {n + 1} /\ Cardinality(wrong2) = Cardinality(wrong) + 1
    BY <1>2, <1>10 DEF wrong2
  <2>2. Cardinality(wrong) < FieldErrorRange /\ next = Cardinality(wrong) + 1
    BY <1>2, <1>6, <1>7, <2>1
  <2>3. field_errors' = Cardinality(wrong2)
    BY <1>8, <1>10, <2>1, <2>2
  <2>4. ASSUME NEW i \in wrong2, \A j \in wrong2 : i <= j
        PROVE  first_field_line' = handled'[i].first
    <3>1. CASE wrong = {}
      <4>1. i = n + 1
        BY <2>1, <3>1
      <4>2. Cardinality(wrong) = 0
        BY <3>1, FS_EmptySet
      <4>3. field_errors' = 1
        BY <2>1, <2>3, <4>2
      <4>4. QED
        BY <1>1, <1>8, <1>10, <4>1, <4>3
    <3>2. CASE wrong # {}
      <4>1. i \in wrong
        <5>1. PICK j \in wrong : TRUE
          BY <3>2
        <5>2. i <= j /\ j \in 1 .. n
          BY <1>2, <2>1, <2>4, <5>1
        <5>3. i # n + 1
          BY <1>1, <5>2
        <5>4. QED
          BY <2>1, <5>3
      <4>2. Cardinality(wrong) # 0
        BY <1>2, <3>2
      <4>3. field_errors' # 1
        BY <1>2, <2>1, <2>3, <4>2
      <4>4. first_field_line' = first_field_line
        BY <1>8, <1>10, <4>3
      <4>5. first_field_line = handled[i].first
        BY <1>3, <2>1, <2>2, <2>4, <4>1
      <4>6. QED
        BY <1>1, <1>2, <4>1, <4>4, <4>5
    <3>3. QED
      BY <3>1, <3>2
  <2>5. QED
    BY <2>3, <2>4
<1>11. QED
  BY <1>4, <1>9, <1>10

\* The count and the line reported are those of the malformed lines.
LEMMA ErrorsStep ==
  ASSUME TypeOK, PointersInv, ErrorsAreCounted, [Next]_vars
  PROVE  ErrorsAreCounted'
<1>1. CASE UNCHANGED <<input, present, errors, handled>>
  BY <1>1, Zenon DEF ErrorsAreCounted, errors
<1>2. CASE \E stop, res : IdTakes(stop, res)
  <2>1. PICK stop, res : IdTakes(stop, res)
    BY <1>2
  <2> DEFINE line == LineOf(res, 1, stop, "id")
  <2>2. line.wrong = res.err /\ line.first = 1
    BY DEF LineOf
  <2>3. line \in Line
    <3>1. res.err \in BOOLEAN /\ stop \in 1 .. end /\ 1 \in 1 .. end
      BY <2>1, Positions DEF IdTakes, LineAt, TypeOK
    <3>2. QED
      BY <3>1 DEF LineOf, Line
  <2>4. handled = <<>> /\ handled' = <<line>> /\ Count(res, 1)
    BY <2>1 DEF IdTakes
  <2> HIDE DEF line
  <2>5. handled' = Append(handled, line)
    BY <2>4
  <2>6. Count(res, line.first)
    BY <2>2, <2>4
  <2>7. QED
    BY <2>2, <2>3, <2>5, <2>6, OneMoreCounted, Zenon
<1>3. CASE \E stop : Takes(stop)
  <2>1. PICK stop : Takes(stop)
    BY <1>3
  <2> DEFINE res  == ParseLine(line_start, stop)
             line == LineOf(res, line_start, stop, "data")
  <2>2. line.wrong = res.err /\ line.first = line_start
    BY DEF LineOf
  <2>3. /\ line \in Line
        /\ handled' = IF line_start = stop THEN handled ELSE Append(handled, line)
    BY <2>1, TakenLine, Zenon
  <2>4. Count(res, line_start) /\ LineAt(line_start, stop)
    BY <2>1 DEF Takes
  <2>5. line_start = stop => res.err = FALSE
    BY <2>4, AfterLineFollows, Zenon
  <2> HIDE DEF line, res
  <2>6. CASE line_start = stop
    <3>1. handled' = handled
      BY <2>3, <2>6
    <3>2. ~res.err
      BY <2>5, <2>6
    <3>3. errors' = errors
      BY <2>4, <3>2, Zenon DEF Count
    <3>4. QED
      BY <3>1, <3>3, Zenon DEF ErrorsAreCounted, errors
  <2>7. CASE line_start # stop
    <3>1. handled' = Append(handled, line) /\ Count(res, line.first)
      BY <2>2, <2>3, <2>4, <2>7
    <3>2. QED
      BY <2>2, <2>3, <3>1, OneMoreCounted, Zenon
  <2>8. QED
    BY <2>6, <2>7
<1>4. QED
  BY <1>1, <1>2, <1>3, Steps

(***************************************************************************)
(* Every line, once                                                        *)
(***************************************************************************)
\* A line reads one value ahead, if any.
LEMMA OneValue ==
  ASSUME TypeOK, NEW line \in Line, NEW v \in Nat, NEW w \in Nat, ReadBy(line, v), ReadBy(line, w)
  PROVE  v = w
<1>1. /\ line.last \in Nat /\ line.last < v /\ line.last < w
      /\ text[v] = "value" /\ text[w] = "value"
      /\ \A k \in line.last .. v - 1 : IsEndOfLine(k)
      /\ \A k \in line.last .. w - 1 : IsEndOfLine(k)
  BY Positions DEF ReadBy, Line, TypeOK
<1>2. ~IsEndOfLine(v) /\ ~IsEndOfLine(w)
  BY <1>1 DEF IsEndOfLine, EndOfLine
<1>3. QED
  BY <1>1, <1>2

\* What was read ahead is in front of line_start.
LEMMA AheadIsBehind ==
  ASSUME TypeOK, ProgressInv, NEW v \in Nat, ReadAhead(v)
  PROVE  v < line_start
<1>1. PICK line \in AcceptedLine : ReadBy(line, v)
  BY DEF ReadAhead
<1>2. line \in Line
  BY <1>1, HandledAreLines DEF AcceptedLine
<1>3. text[line.first] = "double" /\ line.last = line.first + 1
  BY <1>1 DEF ReadBy
<1>4. PICK w \in 1 .. line_start - 1 : ReadBy(line, w)
  BY <1>1, <1>3 DEF ProgressInv
<1>5. line_start \in Nat /\ w \in Nat /\ w < line_start
  BY <1>4, Positions DEF TypeOK
<1>6. v = w
  BY <1>1, <1>2, <1>4, <1>5, OneValue
<1>7. QED
  BY <1>5, <1>6

\* parse_line goes on behind the value that an accepted line has read ahead,
\* and behind the end of the line otherwise.
LEMMA AfterLineReads ==
  ASSUME TypeOK, NEW first, NEW last, LineAt(first, last)
  PROVE  LET res   == ParseLine(first, last)
             after == AfterLine(res, last)
         IN  \/ /\ after = last + 1
                /\ ~res.err /\ first # last => ~(text[first] = "double" /\ last = first + 1)
             \/ /\ ReadsOn(first, last, after) /\ ~res.err /\ first # last
<1> DEFINE res   == ParseLine(first, last)
           after == AfterLine(res, last)
<1>0. first \in Nat /\ last \in Nat /\ first <= last
  BY Positions DEF TypeOK, LineAt
<1>1. \/ SetsNothing(first, last, res)
      \/ \E field \in {"single", "double"} : Sets(field, first, last, res)
  BY ParseLineOutcome
<1>2. after = IF res.err THEN last + 1 ELSE res.next
  BY DEF AfterLine
<1> HIDE DEF res, after
<1>3. CASE SetsNothing(first, last, res)
  <2>1. after = last + 1
    BY <1>2, <1>3 DEF SetsNothing
  <2>2. ~res.err /\ first # last => text[first] = "unknown"
    BY <1>0, <1>3 DEF SetsNothing
  <2>3. QED
    BY <2>1, <2>2 DEF res, after
<1>4. CASE \E field \in {"single", "double"} : Sets(field, first, last, res)
  <2>1. PICK field \in {"single", "double"} : Sets(field, first, last, res)
    BY <1>4
  <2>2. res.err = FALSE /\ first < last
    BY <2>1 DEF Sets
  <2>3. ~res.err /\ first # last
    BY <1>0, <2>2
  <2>4. after = res.next
    BY <1>2, <2>3
  <2>5. \/ after = last + 1 /\ ~(text[first] = "double" /\ last = first + 1)
        \/ ReadsOn(first, last, after)
    BY <2>1, <2>4, Zenon DEF Sets
  <2>6. QED
    BY <2>3, <2>5, Zenon DEF res, after
<1>5. QED
  BY <1>1, <1>3, <1>4

\* The lines accepted, after Takes.
LEMMA TakenAccepted ==
  ASSUME TypeOK, NEW stop, Takes(stop)
  PROVE  LET res  == ParseLine(line_start, stop)
             line == LineOf(res, line_start, stop, "data")
         IN  AcceptedLine' = IF line_start # stop /\ ~res.err THEN AcceptedLine \cup {line}
                             ELSE AcceptedLine
<1> DEFINE res  == ParseLine(line_start, stop)
           line == LineOf(res, line_start, stop, "data")
<1>1. ToSet(handled') = IF line_start = stop THEN ToSet(handled)
                        ELSE ToSet(handled) \cup {line}
  BY TakenLines, Zenon
<1>2. line.kind = "data" /\ line.wrong = res.err
  BY DEF LineOf
<1> HIDE DEF line, res
<1>3. AcceptedLine' = IF line_start # stop /\ ~res.err THEN AcceptedLine \cup {line}
                      ELSE AcceptedLine
  BY <1>1, <1>2 DEF AcceptedLine
<1>4. QED
  BY <1>3, Zenon DEF line, res

\* What is read ahead after Takes: what was before, and the value that the
\* line has read.
LEMMA TakenReads ==
  ASSUME TypeOK, NEW stop, Takes(stop)
  PROVE  LET up   == AfterLine(ParseLine(line_start, stop), stop)
             line == LineOf(ParseLine(line_start, stop), line_start, stop, "data")
         IN  \/ /\ up = stop + 1
                /\ \A v : ReadAhead(v)' <=> ReadAhead(v)
                /\ \A l \in AcceptedLine' :
                     l \in AcceptedLine \/ ~(text[l.first] = "double" /\ l.last = l.first + 1)
             \/ /\ ReadsOn(line_start, stop, up) /\ line_start # stop
                /\ ReadBy(line, up - 1)
                /\ \A v : ReadAhead(v)' <=> ReadAhead(v) \/ ReadBy(line, v)
                /\ AcceptedLine' = AcceptedLine \cup {line}
<1> DEFINE res  == ParseLine(line_start, stop)
           up   == AfterLine(res, stop)
           line == LineOf(res, line_start, stop, "data")
<1>1. AcceptedLine' = IF line_start # stop /\ ~res.err THEN AcceptedLine \cup {line}
                      ELSE AcceptedLine
  BY TakenAccepted, Zenon
<1>2. LineAt(line_start, stop) /\ text' = text
  BY DEF Takes, input
<1>3. \/ /\ up = stop + 1
         /\ ~res.err /\ line_start # stop =>
              ~(text[line_start] = "double" /\ stop = line_start + 1)
      \/ /\ ReadsOn(line_start, stop, up) /\ ~res.err /\ line_start # stop
  BY <1>2, AfterLineReads, Zenon
<1>4. line.first = line_start /\ line.last = stop
  BY DEF LineOf
<1>5. line_start \in Nat /\ stop \in Nat
  BY <1>2, Positions DEF TypeOK, LineAt
<1> HIDE DEF line, res, up
<1>6. \A l, v : ReadBy(l, v)' <=> ReadBy(l, v)
  BY <1>2 DEF ReadBy, IsEndOfLine
<1>7. \A v : ReadAhead(v)' <=> \E l \in AcceptedLine' : ReadBy(l, v)
  BY <1>6 DEF ReadAhead
<1>8. CASE /\ up = stop + 1
           /\ ~res.err /\ line_start # stop =>
                ~(text[line_start] = "double" /\ stop = line_start + 1)
  <2>1. \A l \in AcceptedLine' :
          l \in AcceptedLine \/ ~(text[l.first] = "double" /\ l.last = l.first + 1)
    BY <1>1, <1>4, <1>8
  <2>2. \A v : ReadAhead(v)' <=> ReadAhead(v)
    <3>1. \A l \in AcceptedLine : l \in AcceptedLine'
      BY <1>1
    <3>2. \A l \in AcceptedLine' : \A v : ReadBy(l, v) => l \in AcceptedLine
      BY <2>1 DEF ReadBy
    <3>3. QED
      BY <1>7, <3>1, <3>2 DEF ReadAhead
  <2>3. QED
    BY <1>8, <2>1, <2>2, Zenon DEF up, res
<1>9. CASE ReadsOn(line_start, stop, up) /\ ~res.err /\ line_start # stop
  <2>1. AcceptedLine' = AcceptedLine \cup {line}
    BY <1>1, <1>9
  <2>2. \A v : ReadAhead(v)' <=> ReadAhead(v) \/ ReadBy(line, v)
    BY <1>7, <2>1 DEF ReadAhead
  <2>3. ReadBy(line, up - 1)
    <3>1. PICK v \in stop + 1 .. end - 1 :
            /\ up = v + 1
            /\ text[line_start] = "double" /\ stop = line_start + 1 /\ text[v] = "value"
            /\ \A k \in stop .. v - 1 : IsEndOfLine(k)
      BY <1>9, Zenon DEF ReadsOn
    <3>2. up - 1 = v /\ stop < v
      BY <1>5, <3>1, Positions DEF TypeOK
    <3>3. QED
      BY <1>4, <3>1, <3>2 DEF ReadBy
  <2>4. QED
    BY <1>9, <2>1, <2>2, <2>3, Zenon DEF up, res, line
<1>10. QED
  BY <1>3, <1>8, <1>9

\* The bounds of what Takes is about.
LEMMA TakenBounds ==
  ASSUME TypeOK, NEW stop, Takes(stop)
  PROVE  LET up == AfterLine(ParseLine(line_start, stop), stop)
         IN  /\ line_start \in Nat \ {0} /\ stop \in Nat /\ line_start <= stop /\ stop <= end
             /\ end \in Nat /\ up \in Nat /\ stop < up
             /\ \A k \in line_start .. stop - 1 : ~IsEndOfLine(k)
             /\ stop < end => IsEndOfLine(stop)
             /\ text' = text /\ end' = end
             /\ pc \in {"data", "last"}
<1> DEFINE up == AfterLine(ParseLine(line_start, stop), stop)
<1>1. LineAt(line_start, stop) /\ text' = text /\ pc \in {"data", "last"}
  BY DEF Takes, input
<1>2. up \in Nat /\ stop < up
  BY <1>1, AfterLineFollows, Zenon
<1> HIDE DEF up
<1>3. /\ line_start \in Nat \ {0} /\ stop \in Nat /\ line_start <= stop /\ stop <= end
      /\ end \in Nat
      /\ \A k \in line_start .. stop - 1 : ~IsEndOfLine(k)
      /\ stop < end => IsEndOfLine(stop)
  BY <1>1, Positions DEF LineAt, TypeOK
<1>4. end' = end
  BY <1>1 DEF end
<1>5. QED
  BY <1>1, <1>2, <1>3, <1>4, Zenon DEF up

\* A line that reads ahead reads a value in front of where parse_line goes on.
LEMMA ValueIsBehind ==
  ASSUME TypeOK, PointersInv, ProgressInv, NEW stop, Takes(stop)
  PROVE  \A l \in AcceptedLine' :
           text[l.first] = "double" /\ l.last = l.first + 1 =>
             \E v \in 1 .. AfterLine(ParseLine(line_start, stop), stop) - 1 : ReadBy(l, v)
<1> DEFINE up   == AfterLine(ParseLine(line_start, stop), stop)
           line == LineOf(ParseLine(line_start, stop), line_start, stop, "data")
<1>1. /\ line_start \in Nat \ {0} /\ stop \in Nat /\ line_start <= stop
      /\ up \in Nat /\ stop < up
  BY TakenBounds, Zenon
<1>2. \/ \A l \in AcceptedLine' :
           l \in AcceptedLine \/ ~(text[l.first] = "double" /\ l.last = l.first + 1)
      \/ ReadBy(line, up - 1) /\ AcceptedLine' = AcceptedLine \cup {line}
  BY TakenReads, Zenon
<1> HIDE DEF up, line
<1>3. SUFFICES ASSUME NEW l \in AcceptedLine', text[l.first] = "double", l.last = l.first + 1
               PROVE  \E v \in 1 .. up - 1 : ReadBy(l, v)
  BY DEF up
<1>4. CASE l \in AcceptedLine
  <2>1. PICK v \in 1 .. line_start - 1 : ReadBy(l, v)
    BY <1>3, <1>4 DEF ProgressInv
  <2>2. v \in 1 .. up - 1
    BY <1>1, <2>1
  <2>3. QED
    BY <2>1, <2>2
<1>5. CASE l \notin AcceptedLine
  <2>1. l = line /\ ReadBy(line, up - 1)
    BY <1>2, <1>3, <1>5
  <2>2. up - 1 \in 1 .. up - 1
    BY <1>1
  <2>3. QED
    BY <2>1, <2>2
<1>6. QED
  BY <1>4, <1>5

\* What is read ahead after Takes is in front of line_start, or is the value
\* right in front of where parse_line goes on.
LEMMA AheadAfterTaking ==
  ASSUME TypeOK, PointersInv, ProgressInv, NEW stop, Takes(stop), NEW v \in Nat, ReadAhead(v)'
  PROVE  \/ ReadAhead(v) /\ v < line_start
         \/ v = AfterLine(ParseLine(line_start, stop), stop) - 1 /\ v > stop
<1> DEFINE up   == AfterLine(ParseLine(line_start, stop), stop)
           line == LineOf(ParseLine(line_start, stop), line_start, stop, "data")
<1>1. stop \in Nat /\ up \in Nat /\ stop < up
  BY TakenBounds, Zenon
<1>2. ReadAhead(v) \/ (ReadBy(line, v) /\ ReadBy(line, up - 1))
  BY TakenReads, Zenon
<1>3. line \in Line /\ line.last = stop
  <2>1. line \in Line
    BY TakenLine, Zenon
  <2>2. QED
    BY <2>1 DEF LineOf
<1> HIDE DEF up, line
<1>4. ReadAhead(v) => v < line_start
  BY AheadIsBehind
<1>5. ASSUME ReadBy(line, v), ReadBy(line, up - 1) PROVE v = up - 1 /\ v > stop
  <2>1. up - 1 \in Nat
    BY <1>1
  <2>2. v = up - 1
    BY <1>3, <1>5, <2>1, OneValue
  <2>3. QED
    BY <1>3, <1>5, <2>2 DEF ReadBy
<1>6. QED
  BY <1>2, <1>4, <1>5 DEF up

\* A line never begins with a value that was read ahead.
LEMMA TwiceStep ==
  ASSUME TypeOK, PointersInv, ProgressInv, LinesAreForward, NoValueTwice, NEW stop, Takes(stop)
  PROVE  NoValueTwice'
<1> DEFINE up   == AfterLine(ParseLine(line_start, stop), stop)
           line == LineOf(ParseLine(line_start, stop), line_start, stop, "data")
<1>1. /\ line_start \in Nat /\ stop \in Nat /\ line_start <= stop
      /\ pc \in {"data", "last"}
  BY TakenBounds
<1>2. line.first = line_start
  BY DEF LineOf
<1>3. ToSet(handled') = IF line_start = stop THEN ToSet(handled)
                        ELSE ToSet(handled) \cup {line}
  BY TakenLines, Zenon
<1>4. \A v \in Nat : ReadAhead(v)' => \/ ReadAhead(v) /\ v < line_start
                                      \/ v > stop
  BY AheadAfterTaking, Zenon
<1>5. \A old \in ToSet(handled) : old.first \in Nat /\ old.first < line_start
  <2>1. \A old \in ToSet(handled) : old.first <= old.last
    BY DEF LinesAreForward, ToSet
  <2>2. \A old \in ToSet(handled) : old.last < line_start
    BY <1>1 DEF PointersInv
  <2>3. \A old \in ToSet(handled) : old.first \in Nat /\ old.last \in Nat
    BY HandledAreLines, Positions DEF Line, TypeOK
  <2>4. QED
    BY <1>1, <2>1, <2>2, <2>3
<1> HIDE DEF line
<1>6. ASSUME NEW l \in ToSet(handled'), l.kind = "data", ReadAhead(l.first)' PROVE FALSE
  <2>1. CASE l \in ToSet(handled)
    <3>1. ReadAhead(l.first)
      BY <1>1, <1>4, <1>5, <1>6, <2>1
    <3>2. QED
      BY <1>6, <2>1, <3>1 DEF NoValueTwice
  <2>2. CASE l = line
    <3>1. l.first = line_start
      BY <1>2, <2>2
    <3>2. l.first \in Nat
      BY <1>1, <3>1
    <3>3. l.first < line_start \/ l.first > stop
      BY <1>4, <1>6, <3>2, Zenon
    <3>4. QED
      BY <1>1, <3>1, <3>3
  <2>3. QED
    BY <1>3, <1>6, <2>1, <2>2
<1>7. QED
  BY <1>6 DEF NoValueTwice

\* In front of where parse_line goes on, every line is handled; only a value
\* that was read ahead is in a line that is not.
LEMMA NothingSkipped ==
  ASSUME TypeOK, PointersInv, ProgressInv, NEW stop, Takes(stop),
         NEW first \in 1 .. end, NEW last \in 1 .. end, IsLine(first, last)
  PROVE  LET up == AfterLine(ParseLine(line_start, stop), stop)
         IN  first < up => IF last < up THEN Covered(first, last)'
                           ELSE ReadAhead(first)' /\ first + 1 = up
<1> DEFINE up   == AfterLine(ParseLine(line_start, stop), stop)
           line == LineOf(ParseLine(line_start, stop), line_start, stop, "data")
<1>0. /\ line_start \in Nat \ {0} /\ stop \in Nat /\ line_start <= stop /\ stop <= end
      /\ end \in Nat /\ up \in Nat /\ stop < up
      /\ \A k \in line_start .. stop - 1 : ~IsEndOfLine(k)
      /\ stop < end => IsEndOfLine(stop)
      /\ pc \in {"data", "last"}
  BY TakenBounds, Zenon
<1>1. /\ first \in Nat \ {0} /\ last \in Nat /\ first <= end /\ last <= end /\ first < last
      /\ first = 1 \/ IsEndOfLine(first - 1)
      /\ last = end \/ IsEndOfLine(last)
      /\ \A k \in first .. last - 1 : ~IsEndOfLine(k)
  BY <1>0 DEF IsLine
<1>2. line.first = line_start /\ line.last = stop
  BY DEF LineOf
<1>3. ToSet(handled') = IF line_start = stop THEN ToSet(handled)
                        ELSE ToSet(handled) \cup {line}
  BY TakenLines, Zenon
<1>4. \A f, l : Handled(f, l) => Handled(f, l)'
  BY <1>3 DEF Handled
<1>5. line_start # stop => \A f, l : f = line_start /\ l = stop => Handled(f, l)'
  BY <1>2, <1>3 DEF Handled
<1>6. \A v : ReadAhead(v) => ReadAhead(v)'
  BY TakenReads, Zenon
<1>7. \A v \in Nat : ReadAhead(v)' => \/ ReadAhead(v) /\ v < line_start
                                      \/ v > stop
  BY AheadAfterTaking, Zenon
<1>8. \/ up = stop + 1
      \/ ReadsOn(line_start, stop, up) /\ \A v : ReadBy(line, v) => ReadAhead(v)'
  BY TakenReads, Zenon
<1>9. ReadBy(line, up - 1) \/ up = stop + 1
  BY TakenReads, Zenon
<1>10. first < line_start =>
         IF last < line_start THEN Covered(first, last)
         ELSE ReadAhead(first) /\ first + 1 = line_start
  BY <1>0 DEF ProgressInv
<1> HIDE DEF up, line
<1>11. SUFFICES ASSUME first < up
                PROVE  IF last < up THEN Covered(first, last)'
                       ELSE ReadAhead(first)' /\ first + 1 = up
  BY DEF up
\* A line that reaches line_start ends where the line that is taken ends.
<1>12. ASSUME first <= stop, line_start <= last PROVE last = stop /\ last < up
  <2>1. CASE stop < last
    <3>1. IsEndOfLine(stop) /\ stop \in first .. last - 1
      BY <1>0, <1>1, <1>12, <2>1
    <3>2. QED
      BY <1>1, <3>1
  <2>2. CASE last < stop
    <3>1. IsEndOfLine(last) /\ last \in line_start .. stop - 1
      BY <1>0, <1>1, <1>12, <2>2
    <3>2. QED
      BY <1>0, <3>1
  <2>3. QED
    BY <1>0, <1>1, <2>1, <2>2
<1>13. CASE first < line_start /\ last < line_start
  <2>1. Covered(first, last) /\ last < up
    BY <1>0, <1>1, <1>10, <1>13
  <2>2. ReadAhead(first)' <=> ReadAhead(first)
    BY <1>0, <1>1, <1>6, <1>7, <1>13
  <2>3. Covered(first, last)'
    BY <1>4, <2>1, <2>2, Zenon DEF Covered
  <2>4. QED
    BY <2>1, <2>3
<1>14. CASE first < line_start /\ line_start <= last
  <2>1. ReadAhead(first)' /\ first + 1 = line_start
    BY <1>0, <1>1, <1>6, <1>10, <1>14
  <2>2. last = stop /\ last < up
    BY <1>0, <1>1, <1>12, <1>14
  <2>3. first + 1 = last \/ Handled(first + 1, last)'
    BY <1>5, <2>1, <2>2
  <2>4. Covered(first, last)'
    BY <2>1, <2>3, Zenon DEF Covered
  <2>5. QED
    BY <2>2, <2>4
<1>15. CASE first = line_start
  <2>1. last = stop /\ last < up
    BY <1>0, <1>1, <1>12, <1>15
  <2>2. ~ReadAhead(first)'
    BY <1>0, <1>1, <1>7, <1>15
  <2>3. Handled(first, last)'
    BY <1>0, <1>1, <1>5, <1>15, <2>1
  <2>4. Covered(first, last)'
    BY <2>2, <2>3, Zenon DEF Covered
  <2>5. QED
    BY <2>1, <2>4
\* Behind the line there are only ends of line up to the value it has read.
<1>16. CASE first > line_start
  <2>1. first > stop
    <3>1. first - 1 \in Nat /\ first - 1 >= line_start /\ IsEndOfLine(first - 1)
      BY <1>0, <1>1, <1>16
    <3>2. ~(first - 1 \in line_start .. stop - 1)
      BY <1>0, <3>1
    <3>3. QED
      BY <1>0, <1>1, <3>1, <3>2
  <2>2. up # stop + 1
    BY <1>0, <1>1, <1>11, <2>1
  <2>3. \A k \in stop .. up - 2 : IsEndOfLine(k)
    BY <1>0, <1>2, <1>9, <2>2 DEF ReadBy
  <2>4. ~IsEndOfLine(first)
    BY <1>1
  <2>5. first = up - 1
    BY <1>0, <1>1, <1>11, <2>1, <2>3, <2>4
  <2>6. ~(last < up) /\ first + 1 = up
    BY <1>0, <1>1, <2>5
  <2>7. ReadAhead(first)'
    BY <1>8, <1>9, <2>2, <2>5, Zenon
  <2>8. QED
    BY <2>6, <2>7
<1>17. QED
  BY <1>0, <1>1, <1>13, <1>14, <1>15, <1>16

\* After the identification line, which is the first line of the text.
LEMMA FirstLineStep ==
  ASSUME TypeOK, NEW stop, NEW res, IdTakes(stop, res)
  PROVE  ProgressInv' /\ NoValueTwice'
<1> DEFINE line == LineOf(res, 1, stop, "id")
<1>1. /\ LineAt(1, stop) /\ stop < end /\ pc' = "data"
      /\ line_start' = stop + 1 /\ handled' = <<line>> /\ text' = text
  BY DEF IdTakes, input
<1>2. line.first = 1 /\ line.last = stop /\ line.kind = "id"
  BY DEF LineOf
<1> HIDE DEF line
<1>3. ToSet(handled') = {line}
  BY <1>1 DEF ToSet
<1>4. AcceptedLine' = {}
  BY <1>2, <1>3 DEF AcceptedLine
<1>5. \A v : ~ReadAhead(v)'
  BY <1>4 DEF ReadAhead
<1>6. NoValueTwice'
  BY <1>5 DEF NoValueTwice
<1>7. end' = end /\ end \in Nat /\ stop \in Nat /\ 1 <= stop
  BY <1>1, Positions DEF LineAt, TypeOK, end
<1>8. ASSUME NEW first \in 1 .. end, NEW last \in 1 .. end, IsLine(first, last), first < stop + 1
      PROVE  last < stop + 1 /\ Covered(first, last)'
  <2>1. /\ first < last
        /\ first = 1 \/ IsEndOfLine(first - 1)
        /\ last = end \/ IsEndOfLine(last)
        /\ \A k \in first .. last - 1 : ~IsEndOfLine(k)
    BY <1>8 DEF IsLine
  <2>2. IsEndOfLine(stop) /\ \A k \in 1 .. stop - 1 : ~IsEndOfLine(k)
    BY <1>1 DEF LineAt
  <2>3. first = 1
    BY <1>7, <1>8, <2>1, <2>2
  <2>4. last = stop
    <3>1. CASE stop < last
      <4>1. stop \in first .. last - 1
        BY <1>7, <1>8, <3>1
      <4>2. QED
        BY <2>1, <2>2, <4>1
    <3>2. CASE last < stop
      <4>1. last \in 1 .. stop - 1 /\ last # end
        BY <1>1, <1>7, <3>2
      <4>2. QED
        BY <2>1, <2>2, <4>1
    <3>3. QED
      BY <1>7, <3>1, <3>2
  <2>5. Handled(first, last)'
    BY <1>2, <1>3, <2>3, <2>4 DEF Handled
  <2>6. Covered(first, last)'
    BY <1>5, <2>5, Zenon DEF Covered
  <2>7. QED
    BY <1>7, <2>4, <2>6
<1>9. \A first, last : IsLine(first, last)' <=> IsLine(first, last)
  BY <1>1, <1>7 DEF IsLine, IsEndOfLine
<1>10. ProgressInv'
  BY <1>1, <1>4, <1>7, <1>8, <1>9 DEF ProgressInv
<1>11. QED
  BY <1>6, <1>10

\* Handling goes on line by line, and when it is over every line is handled.
LEMMA ProgressStep ==
  ASSUME TypeOK, PointersInv, LinesAreForward, ProgressInv, NoValueTwice, [Next]_vars,
         InOrder', EveryLineOnce
  PROVE  ProgressInv' /\ NoValueTwice' /\ EveryLineOnce'
<1>1. UNCHANGED input => \A first, last : IsLine(first, last)' <=> IsLine(first, last)
  BY DEF input, IsLine, IsEndOfLine, end
<1>2. UNCHANGED <<input, handled>> =>
        /\ \A v : ReadAhead(v)' <=> ReadAhead(v)
        /\ \A first, last : Covered(first, last)' <=> Covered(first, last)
        /\ AcceptedLine' = AcceptedLine
        /\ NoValueTwice'
        /\ \A l, v : ReadBy(l, v)' <=> ReadBy(l, v)
        /\ end' = end /\ text' = text
  BY DEF input, ReadAhead, ReadBy, AcceptedLine, Covered, Handled, NoValueTwice, IsEndOfLine, end
<1>3. CASE IdLine
  <2>1. PICK stop, res : IdTakes(stop, res)
    BY <1>3, IdLineTakes
  <2>2. pc' = "data"
    BY <2>1 DEF IdTakes
  <2>3. QED
    BY <2>1, <2>2, FirstLineStep DEF EveryLineOnce
<1>4. CASE NoIdLine \/ NoMoreLines
  <2>1. UNCHANGED <<input, handled>> /\ line_start' = line_start /\ pc # "done" /\ pc' = "last"
    BY <1>4 DEF NoIdLine, NoMoreLines
  <2>2. ProgressInv'
    BY <1>1, <1>2, <2>1 DEF ProgressInv
  <2>3. QED
    BY <1>2, <2>1, <2>2 DEF EveryLineOnce
<1>5. CASE DataLine
  <2>1. PICK stop \in line_start .. end - 1 :
           /\ Takes(stop) /\ pc = "data" /\ pc' = pc
           /\ line_start' = AfterLine(ParseLine(line_start, stop), stop)
    BY <1>5, DataLineTakes
  <2>2. UNCHANGED input /\ end' = end /\ text' = text
    BY <2>1 DEF Takes, input, end
  <2>3. NoValueTwice'
    BY <2>1, TwiceStep
  <2>4. \A first, last \in 1 .. end : IsLine(first, last) /\ first < line_start' =>
          IF last < line_start' THEN Covered(first, last)'
          ELSE ReadAhead(first)' /\ first + 1 = line_start'
    BY <2>1, NothingSkipped, Zenon
  <2>5. \A l \in AcceptedLine' :
          text[l.first] = "double" /\ l.last = l.first + 1 =>
            \E v \in 1 .. line_start' - 1 : ReadBy(l, v)
    BY <2>1, ValueIsBehind, Zenon
  <2>6. \A l, v : ReadBy(l, v)' <=> ReadBy(l, v)
    BY <2>2 DEF ReadBy, IsEndOfLine
  <2>7. ProgressInv'
    BY <1>1, <2>2, <2>4, <2>5, <2>6 DEF ProgressInv
  <2>8. EveryLineOnce'
    BY <2>1 DEF EveryLineOnce
  <2>9. QED
    BY <2>3, <2>7, <2>8
<1>6. CASE Finish
  <2>1. Takes(end) /\ pc' = "done" /\ UNCHANGED position
    BY <1>6, FinishTakes
  <2> DEFINE up == AfterLine(ParseLine(line_start, end), end)
  <2>2. UNCHANGED input /\ end' = end /\ text' = text /\ line_start' = line_start
    BY <2>1 DEF Takes, input, end, position
  <2>3. NoValueTwice'
    BY <2>1, TwiceStep
  <2>4. up \in Nat /\ end < up /\ end \in Nat
    BY <2>1, TakenBounds, Zenon
  <2>5. \A first, last \in 1 .. end : IsLine(first, last) /\ first < up =>
          IF last < up THEN Covered(first, last)' ELSE ReadAhead(first)' /\ first + 1 = up
    BY <2>1, NothingSkipped, Zenon
  <2>6. AcceptedLine' = AcceptedLine
          \/ \A l \in AcceptedLine' :
               l \in AcceptedLine \/ ~(text[l.first] = "double" /\ l.last = l.first + 1)
    <3>1. ~ReadsOn(line_start, end, up)
      BY <2>4 DEF ReadsOn
    <3>2. QED
      BY <2>1, <3>1, TakenReads, Zenon
  <2> HIDE DEF up
  <2>7. \A first, last \in 1 .. end : IsLine(first, last) => Covered(first, last)'
    <3>1. ASSUME NEW first \in 1 .. end, NEW last \in 1 .. end, IsLine(first, last)
          PROVE  Covered(first, last)'
      <4>1. first < up /\ last < up
        BY <2>4
      <4>2. QED
        BY <2>5, <3>1, <4>1
    <3>2. QED
      BY <3>1
  <2>8. \A l, v : ReadBy(l, v)' <=> ReadBy(l, v)
    BY <2>2 DEF ReadBy, IsEndOfLine
  <2>9. ProgressInv'
    <3>1. \A l \in AcceptedLine' :
            text[l.first] = "double" /\ l.last = l.first + 1 =>
              \E v \in 1 .. line_start - 1 : ReadBy(l, v)
      BY <2>6 DEF ProgressInv
    <3>2. QED
      BY <2>1, <2>2, <2>8, <3>1 DEF ProgressInv
  <2>10. EveryLineOnce'
    <3>1. \A first, last \in 1 .. end' : IsLine(first, last)' => Covered(first, last)'
      BY <1>1, <2>2, <2>7
    <3>2. QED
      BY <2>3, <3>1 DEF EveryLineOnce
  <2>11. QED
    BY <2>3, <2>9, <2>10
<1>7. CASE UNCHANGED vars
  <2>1. UNCHANGED <<input, handled>> /\ line_start' = line_start /\ pc' = pc
    BY <1>7 DEF vars, position
  <2>2. ProgressInv'
    BY <1>1, <1>2, <2>1 DEF ProgressInv
  <2>3. EveryLineOnce'
    BY <1>1, <1>2, <2>1 DEF EveryLineOnce
  <2>4. QED
    BY <1>2, <2>1, <2>2, <2>3
<1>8. QED
  BY <1>3, <1>4, <1>5, <1>6, <1>7 DEF Next

\* At the start no line is handled and no field set.
LEMMA InitOrdered == Init => IInv
<1> SUFFICES ASSUME Init PROVE IInv
  OBVIOUS
<1>1. TypeOK /\ PointersInv
  BY InitTyped
<1>2. /\ handled = <<>> /\ field_errors = 0 /\ present = reused
      /\ pc = "id" /\ line_start = 1
  BY DEF Init
<1>3. ToSet(handled) = {} /\ DOMAIN handled = {}
  BY <1>2 DEF ToSet
<1>4. AcceptedLine = {}
  BY <1>3 DEF AcceptedLine
<1>5. LinesAreForward /\ InOrder /\ NoValueTwice /\ EveryLineOnce /\ PresentIfAccepted
  BY <1>2, <1>3 DEF LinesAreForward, InOrder, NoValueTwice, EveryLineOnce, PresentIfAccepted
<1>6. ErrorsAreCounted
  <2>1. {i \in DOMAIN handled : handled[i].wrong} = {}
    BY <1>3
  <2>2. QED
    BY <1>2, <2>1, FS_EmptySet DEF ErrorsAreCounted
<1>7. ProgressInv
  <2>1. \A first \in 1 .. end : ~(first < line_start)
    BY <1>1, <1>2, Positions DEF TypeOK
  <2>2. QED
    BY <1>4, <2>1 DEF ProgressInv
<1>8. QED
  BY <1>1, <1>5, <1>6, <1>7 DEF IInv

\* Every step keeps the invariant.
LEMMA IInvStep == TypeOK /\ IInv /\ [Next]_vars => IInv'
<1> SUFFICES ASSUME TypeOK, IInv, [Next]_vars PROVE IInv'
  OBVIOUS
<1>1. /\ LinesAreForward /\ PointersInv /\ ProgressInv /\ NoValueTwice /\ InOrder
      /\ EveryLineOnce /\ PresentIfAccepted /\ ErrorsAreCounted
  BY DEF IInv
<1>2. PointersInv'
  BY <1>1, PointersStep
<1>3. LinesAreForward' /\ InOrder'
  BY <1>1, OrderStep
<1>4. ProgressInv' /\ NoValueTwice' /\ EveryLineOnce'
  BY <1>1, <1>3, ProgressStep
<1>5. PresentIfAccepted'
  BY <1>1, PresentStep
<1>6. ErrorsAreCounted'
  BY <1>1, ErrorsStep
<1>7. QED
  BY <1>2, <1>3, <1>4, <1>5, <1>6 DEF IInv

\* The inductive invariant of parse_data, for every text: the pointers, the
\* lines, the fields and the errors.
THEOREM InductiveInvariant == Spec => []IInv
<1>1. Init => TypeOK /\ IInv
  BY InitTyped, InitOrdered
<1>2. TypeOK /\ IInv /\ [Next]_vars => (TypeOK /\ IInv)'
  BY TypeStep, IInvStep DEF IInv
<1>3. QED
  BY <1>1, <1>2, PTL DEF Spec

\* parse_data never calls parse_line with a line that ends before it begins,
\* although its guard binds to the line feed only.
THEOREM LinesAlwaysForward == Spec => []LinesAreForward
<1>1. IInv => LinesAreForward
  BY DEF IInv
<1>2. QED
  BY <1>1, InductiveInvariant, PTL

\* When parse_data is done every line was handled, once and in order, and a
\* value that was read ahead not again: whatever the lines are, and however many.
THEOREM EveryLineAlwaysOnce == Spec => []EveryLineOnce
<1>1. IInv => EveryLineOnce
  BY DEF IInv
<1>2. QED
  BY <1>1, InductiveInvariant, PTL

\* ParsedData: a malformed line neither makes a field present nor takes one
\* away that another line has set.
THEOREM AlwaysPresentIfAccepted == Spec => []PresentIfAccepted
<1>1. IInv => PresentIfAccepted
  BY DEF IInv
<1>2. QED
  BY <1>1, InductiveInvariant, PTL

\* ParseResult: field_errors counts the malformed lines (up to its width), and
\* first_field_line is the first of them (addFieldError).
THEOREM ErrorsAlwaysCounted == Spec => []ErrorsAreCounted
<1>1. IInv => ErrorsAreCounted
  BY DEF IInv
<1>2. QED
  BY <1>1, InductiveInvariant, PTL
=============================================================================
