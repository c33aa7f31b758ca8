-------------------------------- MODULE Crc16 --------------------------------
(***************************************************************************)
(* The CRC of a telegram, over the bytes from '/' to '!'.  crc_update is   *)
(* the bit loop of the library (src/src/dsmr3/crc16.h, _crc16_update);     *)
(* Remainder is what the meter prints: the P1 companion standard defines   *)
(* the CRC as a remainder modulo x^16 + x^15 + x^2 + 1, least significant  *)
(* bit first.  A word is the set of its one bits, a polynomial over two    *)
(* values the set of its exponents, and adding either is SymDiff.          *)
(***************************************************************************)
EXTENDS Integers, Sequences, SequencesExt

Bits(n) == {k \in 0 .. 15 : (n \div 2 ^ k) % 2 = 1}

Word(bits) == FoldSet(LAMBDA k, v : v + 2 ^ k, 0, bits)

-----------------------------------------------------------------------------
\* One round of the loop; 0xA001 has the bits 15, 13 and 0.
shift(crc) ==
  LET half == {k - 1 : k \in crc \ {0}}
  IN  IF 0 \in crc THEN SymDiff(half, {15, 13, 0}) ELSE half

\* The loop, with its counter and the CRC so far.
crc_update(crc, data) ==
  LET loop[i \in 0 .. 8, r \in SUBSET (0 .. 15)] ==
        IF i = 8 THEN r ELSE loop[i + 1, shift(r)]
  IN  loop[0, SymDiff(crc, Bits(data))]

Crc(bytes) == Word(FoldLeft(crc_update, {}, bytes))

-----------------------------------------------------------------------------
\* The bits of a message, first bit first, times x^16.
Polynomial(bytes) ==
  UNION {{8 * (Len(bytes) - i) + 7 - b + 16 : b \in Bits(bytes[i])} : i \in DOMAIN bytes}

\* Long division: the generator is taken away at every exponent, from the
\* highest of n bytes down to 16.
Divided(poly, n) ==
  FoldLeft(LAMBDA p, k : IF k \in p THEN SymDiff(p, {k, k - 1, k - 14, k - 16})
                                    ELSE p,
           poly, [j \in 1 .. 8 * n |-> 8 * n + 16 - j])

\* The remainder as the meter prints it: x^15 is the least significant bit.
Remainder(bytes) ==
  Word({15 - k : k \in Divided(Polynomial(bytes), Len(bytes))})
=============================================================================
