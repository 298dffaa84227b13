-------------------------------- MODULE Bits --------------------------------
(***************************************************************************)
(* Machine words as sets of bit positions: bit i has weight 2^i.  TLC's    *)
(* integers are 32 bits wide and signed, so the words of the enclave's     *)
(* cryptographic code, and its polynomials over GF(2), are kept this way.  *)
(***************************************************************************)
EXTENDS Integers, Sequences

\* x ^ y; also the sum of two polynomials over GF(2).
Xor(x, y) == (x \ y) \cup (y \ x)

\* x << n and x >> n in a word of w bits.
Shl(x, n, w) == {i + n : i \in {j \in x : j + n < w}}
Shr(x, n) == {i - n : i \in {j \in x : j >= n}}

\* (x << n) | (x >> (w - n))
RotL(x, n, w) == {(i + n) % w : i \in x}

RECURSIVE Add(_, _, _)
\* x + y modulo 2^w: half sums and carries until no carry is left.
Add(x, y, w) ==
  IF y = {} THEN x
  ELSE Add(Xor(x, y), Shl(x \cap y, 1, w), w)

RECURSIVE BitsOf(_)
\* The word of a natural number.
BitsOf(n) ==
  IF n = 0 THEN {}
  ELSE (IF n % 2 = 1 THEN {0} ELSE {}) \cup {i + 1 : i \in BitsOf(n \div 2)}

RECURSIVE ValueOf(_)
\* The number of a word small enough for TLC.
ValueOf(x) ==
  IF x = {} THEN 0
  ELSE LET i == CHOOSE j \in x : TRUE IN 2 ^ i + ValueOf(x \ {i})

\* The 32-bit word with the given high and low half.
Word(hi, lo) == {i + 16 : i \in BitsOf(hi)} \cup BitsOf(lo)
=============================================================================
