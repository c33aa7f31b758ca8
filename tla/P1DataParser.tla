---------------------------- MODULE P1DataParser ----------------------------
(***************************************************************************)
(* P1Parser::parse_data and parse_line, and the dispatch of a line to the  *)
(* fields of a ParsedData (src/src/dsmr3/parser3.h; fields3.cpp for the    *)
(* field that spans two lines).                                            *)
(*                                                                         *)
(* parse_data cuts the body of a telegram into lines with two pointers.    *)
(* line_end runs over every character; line_start is where the next line   *)
(* begins, and gets ahead of line_end when a field has read its value from *)
(* the following line.  A malformed line is counted and skipped.           *)
(*                                                                         *)
(* The text is a sequence of lexemes, none of which contains an end of     *)
(* line (but "CR" and "LF", which are one):                                *)
(*   "good"     the OBIS id of a selected field and a value it accepts     *)
(*   "bad"      the same id and a value it rejects                         *)
(*   "double"   the id and first line of a DoubleLineTimestampedFixedField *)
(*   "value"    a number in parentheses, as the second line of "double"    *)
(*   "unknown"  the id and value of a field that is not selected           *)
(* "value" cannot begin a line by itself: it has no OBIS id.  A position   *)
(* is an index of the text, and Len(text) + 1 the code's end.              *)
(***************************************************************************)
EXTENDS Naturals, Sequences, FiniteSets, SequencesExt

CONSTANTS
    MaxText,            \* bound: longest text
    FieldErrorRange     \* number of values of field_errors (2^16)

ASSUME MaxTextAssumption == MaxText \in Nat
ASSUME FieldErrorAssumption == FieldErrorRange \in Nat \ {0, 1}

EndOfLine == {"CR", "LF"}
Lexeme    == EndOfLine \cup {"good", "bad", "double", "value", "unknown"}

\* The selected fields: the identification line, one with a value on its
\* line ("single"), one that spans two ("double").
Field == {"identification", "single", "double"}

VARIABLES
    text,              \* the body of the telegram
    unknown_error,     \* parse()'s argument: is a line without a field an error?
    line_start, line_end,
    present,           \* the fields of the ParsedData that are present
    field_errors, first_field_line, \* of the result
    pc,                \* "id" line, "data" lines, "last" line, "done"
    handled,           \* history: the lines that were parsed, in order
    reused             \* history: what was present before

position == <<line_start, line_end>>
errors   == <<field_errors, first_field_line>>
input    == <<text, unknown_error, reused>>
vars     == <<input, position, present, errors, pc, handled>>

end == Len(text) + 1

FirstFrom(i, P(_)) ==
  CHOOSE k \in i .. end : /\ k < end => P(k)
                          /\ \A j \in i .. k - 1 : ~P(j)

IsEndOfLine(k) == text[k] \in EndOfLine

-----------------------------------------------------------------------------
(***************************************************************************)
(* ParsedData::parse_line: the result of offering the value to a field is  *)
(* [err, next, present], present being the fields present afterwards.      *)
(***************************************************************************)
Outcome(err, next, there) == [err |-> err, next |-> next, present |-> there]

\* A field is parsed once; parse says where its value ends, or 0 for a value
\* it rejects.
ParseField(field, parse) ==
  IF field \in present THEN Outcome(TRUE, 0, present)
  ELSE IF parse = 0 THEN Outcome(TRUE, 0, present \ {field})
  ELSE Outcome(FALSE, parse, present \cup {field})

\* Where the second line begins: one end of line after the first is skipped.
SecondLine(i) ==
  LET afterCR == IF i < end /\ text[i] = "CR" THEN i + 1 ELSE i
  IN  IF afterCR < end /\ text[afterCR] = "LF" THEN afterCR + 1 ELSE afterCR

\* doubleLineTimestampedFixed, behind the first line: the value must follow.
DoubleLine(i) ==
  LET start == SecondLine(i)
  IN  IF start < end /\ text[start] = "value" THEN start + 1 ELSE 0

\* data->parse_line for the lexeme that begins a line at position i; a next
\* of i says that no field took it.
Dispatch(i) ==
  CASE text[i] = "good"    -> ParseField("single", i + 1)
    [] text[i] = "bad"     -> ParseField("single", 0)
    [] text[i] = "double"  -> ParseField("double", DoubleLine(i + 1))
    [] text[i] = "unknown" -> Outcome(FALSE, i, present)

\* The lexemes that carry the id of a field; the id of the identification
\* line is none that a line can have.
LexemesOf(field) == CASE field = "double" -> {"double"}
                      [] field = "single" -> {"good", "bad"}
                      [] OTHER            -> {}

\* ObisIdParser::parse finds no digit, or nothing at all between the two.
NoObisId(first, last) == first > last \/ text[first] = "value"

\* Mutant of ParseLine: a field with something behind its value stays.
TrailingIsPresent(first, last) ==
  LET data == Dispatch(first)
  IN  IF first = last THEN Outcome(FALSE, last + 1, present)
      ELSE IF NoObisId(first, last) THEN Outcome(TRUE, 0, present)
      ELSE IF data.err THEN data
      ELSE IF data.next = first
           THEN Outcome(unknown_error, last + 1, present)
      ELSE IF data.next < last THEN Outcome(TRUE, 0, data.present)
      ELSE IF data.next > last THEN data
      ELSE Outcome(FALSE, last + 1, data.present)

\* parse_line of the lexemes from first up to last, last excluded.
ParseLine(first, last) ==
  LET data == Dispatch(first)
  IN  IF first = last THEN Outcome(FALSE, last + 1, present)
      ELSE IF NoObisId(first, last) THEN Outcome(TRUE, 0, present)
      ELSE IF data.err THEN data
      ELSE IF data.next = first
           THEN Outcome(unknown_error, last + 1, present)
      ELSE IF data.next < last
           THEN Outcome(TRUE, 0, {field \in data.present : text[first] \notin LexemesOf(field)})
      ELSE IF data.next > last THEN data
      ELSE Outcome(FALSE, last + 1, data.present)

-----------------------------------------------------------------------------
(***************************************************************************)
(* parse_data                                                              *)
(***************************************************************************)
Init ==
  /\ text \in BoundedSeq(Lexeme, MaxText)
  /\ unknown_error \in BOOLEAN
  /\ reused \in {{}, Field}
  /\ present = reused
  /\ line_start = 1 /\ line_end = 1
  /\ field_errors = 0 /\ first_field_line = 0
  /\ pc = "id"
  /\ handled = <<>>

\* Mutant of AddFieldError: the line reported is the last malformed one.
ReportLast(line) ==
  /\ field_errors' = (field_errors + 1) % FieldErrorRange
  /\ first_field_line' = line

AddFieldError(line) ==
  /\ field_errors' = (field_errors + 1) % FieldErrorRange
  /\ first_field_line' = IF field_errors' = 1 THEN line ELSE first_field_line

Count(res, line) == IF res.err THEN AddFieldError(line) ELSE UNCHANGED errors

\* An empty line is none, but the identification may be empty.
Handle(res, start, stop, kind) ==
  handled' = IF start = stop /\ kind = "data" THEN handled
             ELSE Append(handled, [first |-> start, last |-> stop,
                                   wrong |-> res.err, kind |-> kind])

\* The identification line, for the field "identification".
IdLine ==
  LET eol == FirstFrom(line_end, IsEndOfLine)
      res == ParseField("identification", eol)
  IN  /\ pc = "id" /\ eol < end
      /\ present' = res.present
      /\ Count(res, line_start)
      /\ line_start' = eol + 1 /\ line_end' = eol + 1
      /\ pc' = "data"
      /\ Handle(res, line_start, eol, "id")
      /\ UNCHANGED input

\* A text of one line has no identification line: the line is left for
\* Finish.
NoIdLine ==
  /\ pc = "id" /\ FirstFrom(line_end, IsEndOfLine) = end
  /\ line_end' = end
  /\ pc' = "last"
  /\ UNCHANGED <<input, line_start, present, errors, handled>>

\* Mutant of EndsLine: a line feed ends a line that was read already.
AnyEndOfLine(k) == IsEndOfLine(k)

\* The line feed of a first line whose value was read from the second is
\* passed over; for a carriage return the code does not ask.
EndsLine(k) == text[k] = "CR" \/ (text[k] = "LF" /\ line_start <= k)

\* Mutants of AfterLine: next is used where it was not set, or the second
\* line is read again.
NextOfError(res, eol) == res.next

EveryLine(res, eol) == eol + 1

AfterLine(res, eol) == IF res.err THEN eol + 1 ELSE res.next

DataLine ==
  LET eol == FirstFrom(line_end, EndsLine)
      res == ParseLine(line_start, eol)
  IN  /\ pc = "data" /\ eol < end
      /\ present' = res.present
      /\ Count(res, line_start)
      /\ line_start' = AfterLine(res, eol)
      /\ line_end' = eol + 1
      /\ Handle(res, line_start, eol, "data")
      /\ UNCHANGED <<input, pc>>

NoMoreLines ==
  /\ pc = "data" /\ FirstFrom(line_end, EndsLine) = end
  /\ line_end' = end
  /\ pc' = "last"
  /\ UNCHANGED <<input, line_start, present, errors, handled>>

\* The '!' may follow the last line directly.
Finish ==
  LET res == ParseLine(line_start, end)
  IN  /\ pc = "last"
      /\ IF line_start # line_end
         THEN /\ present' = res.present
              /\ Count(res, line_start)
              /\ Handle(res, line_start, end, "data")
         ELSE UNCHANGED <<present, errors, handled>>
      /\ pc' = "done"
      /\ UNCHANGED <<input, position>>

Next == IdLine \/ NoIdLine \/ DataLine \/ NoMoreLines \/ Finish

Spec == Init /\ [][Next]_vars

-----------------------------------------------------------------------------
(***************************************************************************)
(* Properties                                                              *)
(***************************************************************************)
\* The lines that were parsed.
Line == [first : 1 .. end, last : 1 .. end, wrong : BOOLEAN, kind : {"id", "data"}]

\* The two pointers stay in the text, the result in its width.
TypeOK ==
  /\ text \in Seq(Lexeme) /\ unknown_error \in BOOLEAN /\ reused \subseteq Field
  /\ line_start \in 1 .. end /\ line_end \in 1 .. end
  /\ present \subseteq Field
  /\ field_errors \in 0 .. FieldErrorRange - 1
  /\ first_field_line \in 0 .. end
  /\ pc \in {"id", "data", "last", "done"}
  /\ handled \in Seq(Line)

\* parse_line never gets a line that ends before it begins, although "CR ||
\* LF && line_start <= line_end" guards the line feed only.
LinesAreForward ==
  \A i \in DOMAIN handled : handled[i].first <= handled[i].last

\* The lines of the text as a reader of it sees them: what is between two
\* ends of line.
IsLine(first, last) ==
  /\ first < last
  /\ first = 1 \/ IsEndOfLine(first - 1)
  /\ last = end \/ IsEndOfLine(last)
  /\ \A k \in first .. last - 1 : ~IsEndOfLine(k)

Handled(first, last) ==
  \E line \in ToSet(handled) : line.first = first /\ line.last = last

\* The data lines whose value a field has taken.
AcceptedLine == {line \in ToSet(handled) : line.kind = "data" /\ ~line.wrong}

\* The value at v is the second line of an accepted line.
ReadBy(line, v) ==
  /\ text[line.first] = "double" /\ line.last = line.first + 1
  /\ line.last < v /\ text[v] = "value"
  /\ \A k \in line.last .. v - 1 : IsEndOfLine(k)

\* The value of a second line belongs to the line before it, if that one was
\* accepted; what is behind that value is a line of its own.
ReadAhead(first) == \E line \in AcceptedLine : ReadBy(line, first)

\* A line was handled, but for a value that was read ahead.
Covered(first, last) ==
  IF ReadAhead(first) THEN first + 1 = last \/ Handled(first + 1, last)
                      ELSE Handled(first, last)

\* A value that was read ahead is not read again.
NoValueTwice == \A line \in ToSet(handled) : line.kind = "data" => ~ReadAhead(line.first)

InOrder == \A i, j \in DOMAIN handled : i < j => handled[i].last <= handled[j].first

\* Every line of the text is handled, once and in order, whatever is wrong
\* with the lines around it; a value that was read ahead is not read again.
EveryLineOnce ==
  pc = "done" =>
    /\ \A first, last \in 1 .. end : IsLine(first, last) => Covered(first, last)
    /\ NoValueTwice
    /\ InOrder

\* Has the line set the field?
SetBy(field, line) ==
  /\ ~line.wrong
  /\ IF field = "identification" THEN line.kind = "id"
     ELSE line.kind = "data" /\ text[line.first] \in LexemesOf(field)

\* A field is there exactly if it was before or one of its lines was
\* accepted: a malformed line neither makes a field present nor takes away
\* what another line has set.
PresentIfAccepted ==
  \A field \in Field :
    field \in present <=> field \in reused \/ \E line \in ToSet(handled) : SetBy(field, line)

\* The result counts the malformed lines and points at the first of them.
ErrorsAreCounted ==
  LET wrong == {i \in DOMAIN handled : handled[i].wrong}
  IN  Cardinality(wrong) < FieldErrorRange =>
        /\ field_errors = Cardinality(wrong)
        /\ \A i \in wrong : (\A j \in wrong : i <= j) => first_field_line = handled[i].first

\* What makes the pointers safe: there is no carriage return between a line
\* end that was read ahead of and the line behind it, so that EndsLine, too,
\* finds nothing in front of line_start ...
PointersInv ==
  /\ pc = "id" => line_start = 1 /\ line_end = 1 /\ handled = <<>>
  /\ pc = "data" =>
       /\ line_end <= line_start
       /\ \A k \in line_end .. line_start - 1 : text[k] # "CR"
  /\ pc = "last" => line_end = end /\ \A k \in line_start .. end - 1 : ~IsEndOfLine(k)
  /\ pc # "done" => \A line \in ToSet(handled) : line.last < line_start

\* ... and before line_start every line is handled, a value that was read
\* ahead being the only part of a line that is not.
ProgressInv ==
  /\ pc # "done" => \A first, last \in 1 .. end :
       IsLine(first, last) /\ first < line_start =>
         IF last < line_start THEN Covered(first, last)
                              ELSE ReadAhead(first) /\ first + 1 = line_start
  /\ \A line \in AcceptedLine :
       text[line.first] = "double" /\ line.last = line.first + 1 =>
         \E v \in 1 .. line_start - 1 : ReadBy(line, v)

\* The inductive invariant: everything above at once.
IInv ==
  /\ LinesAreForward /\ PointersInv /\ ProgressInv
  /\ NoValueTwice /\ InOrder /\ EveryLineOnce
  /\ PresentIfAccepted /\ ErrorsAreCounted
=============================================================================
