------------------------ MODULE MCP1ParserAgreement -------------------------
(***************************************************************************)
(* A small instance of P1ParserAgreement for TLC: texts of up to eight of  *)
(* seven characters, among them a digit, a lower case digit and the x of a *)
(* prefix, and a checksum of three digits.                                 *)
(***************************************************************************)
EXTENDS P1ParserAgreement

MCByte == {Start, End, CarriageReturn, LineFeed, "0", "a", "x"}

Weight(c) == CASE c = Start -> 1 [] c = "0" -> 2 [] c = "a" -> 3
               [] c = "x" -> 5 [] c = CarriageReturn -> 7 [] OTHER -> 4

\* Depends on every byte and on their order; its eight values print with the
\* digits 0 and A.
MCCrcOf(s) ==
  LET sum == FoldLeft(LAMBDA v, c : (3 * v + Weight(c)) % 8, 0, s)
  IN  10 * ((sum % 2) + 16 * ((sum \div 2) % 2) + 256 * (sum \div 4))
=============================================================================
