-------------------------- MODULE MCP1FixedReader ---------------------------
(***************************************************************************)
(* A small instance of P1FixedReader for TLC: four bytes, bodies of up to  *)
(* two of them, and a checksum that is 0 for some telegrams.               *)
(***************************************************************************)
EXTENDS P1FixedReader

LOCAL INSTANCE SequencesExt

MCByte == {"/", "!", "CR", "0"}

Weight(c) == IF c \in {"/", "0"} THEN 1 ELSE IF c = "!" THEN 2 ELSE 0

\* Depends on every byte and on their order; 0, which the suffix "0000"
\* matches, for about half of the telegrams.
MCCrcOf(s) ==
  LET sum == FoldLeft(+, 0, [i \in 1 .. Len(s) |-> i * Weight(s[i])])
  IN  (sum \div 2) % 2
=============================================================================
