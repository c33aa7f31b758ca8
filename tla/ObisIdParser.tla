---------------------------- MODULE ObisIdParser ----------------------------
(***************************************************************************)
(* ObisIdParser::parse (src/src/dsmr3/parser3.h): the OBIS id a-b:c.d.e.f  *)
(* at the beginning of a text, up to the first character that is no part   *)
(* of it.  An id is a sequence of six bytes (ObisId, util.h).              *)
(***************************************************************************)
EXTENDS Characters, SequencesExt

\* The constructor: what is not given is 255.
ObisId(a, b, c, d, e) == <<a, b, c, d, e, 255>>

\* What separates a part from the one before it.
Separator == <<"-", ":", ".", ".", ".">>

\* Mutant of TooLarge: only the tens are looked at.
TensTooLarge(v, digit) == v > 25

\* Would the digit take the part over 255?
TooLarge(v, digit) == v > 25 \/ (v = 25 /\ digit > 5)

\* The loop has read next - 1 characters into v, at the part'th byte.
Start == [v |-> [k \in 1 .. 6 |-> 0], part |-> 1, next |-> 1, err |-> "", ended |-> FALSE]

Read(st, c) ==
  IF st.ended THEN st
  ELSE IF IsDigit(c)
       THEN IF TooLarge(st.v[st.part], HexValue(c))
            THEN [st EXCEPT !.err = "Obis ID has number over 255", !.ended = TRUE]
            ELSE [st EXCEPT !.v[st.part] = (10 * @ + HexValue(c)) % 256,
                            !.next = @ + 1]
  ELSE IF st.part < 6 /\ c = Separator[st.part]
       THEN [st EXCEPT !.part = @ + 1, !.next = @ + 1]
  ELSE [st EXCEPT !.ended = TRUE]

\* Channel 1 of electricity stands for channel 0 (CH, DE, AT meters).
Normalised(v) ==
  [k \in 1 .. 6 |-> IF k = 2 /\ v[1] = 1 /\ v[2] = 1 THEN 0 ELSE v[k]]

ParseObisId(s) ==
  LET st     == FoldLeft(Read, Start, s)
      filled == [k \in 1 .. 6 |-> IF k > st.part THEN 255 ELSE st.v[k]]
      err    == IF st.err = "" /\ st.next = 1 THEN "OBIS id Empty" ELSE st.err
  IN  [err |-> err, value |-> Normalised(filled), next |-> st.next]
=============================================================================
