----------------------- MODULE MCP1PacketAccumulator ------------------------
(***************************************************************************)
(* A small instance of P1PacketAccumulator for TLC: six bytes, a buffer    *)
(* for three of them, and a checksum that depends on every byte it covers  *)
(* and on their order, whose values print with the two digits 0 and 1.     *)
(***************************************************************************)
EXTENDS P1PacketAccumulator

MCByte == {Start, End, CarriageReturn, LineFeed, "0", "1"}

Weight(c) == CASE c = Start -> 1 [] c = End -> 3 [] c = CarriageReturn -> 2
               [] c = "0" -> 5 [] OTHER -> 6

\* Sixteen values, each the number its four digits 0 and 1 denote in base 16.
MCCrcOf(s) ==
  LET sum == FoldLeft(LAMBDA v, c : (3 * v + Weight(c)) % 16, 0, s)
  IN  (sum % 2) + 16 * ((sum \div 2) % 2) + 256 * ((sum \div 4) % 2)
        + 4096 * (sum \div 8)
=============================================================================
