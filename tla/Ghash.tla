-------------------------------- MODULE Ghash --------------------------------
(***************************************************************************)
(* GHASH with the carry-less multiplication of the processor               *)
(* (ghash_pclmul.c), at its real width.  A register is the set of its one  *)
(* bits; where the code says the left half of a register is unspecified,   *)
(* only the right 64 bits are kept.  Four blocks are folded at a time with *)
(* powers of the key, products take three multiplications of halves, and   *)
(* the reversed bit order costs one shift before the reduction.            *)
(***************************************************************************)
EXTENDS Bits, FiniteSets

CONSTANTS
  HashKeys,   \* values of the key: sequences of 16 bytes
  MaxPieces,  \* bound on the calls
  Pieces      \* lengths of the data given to one call

VARIABLES
  ghashKey,       \* the key
  ghashY,       \* the accumulator, 16 bytes in memory
  pieces   \* lengths of the calls so far

ghashVars == <<ghashKey, ghashY, pieces>>

Lo(x) == x \cap 0..63
Hi(x) == Shr(x, 64)

\* _mm_unpacklo_epi64(k1, k0)
Join(k0, k1) == k1 \cup {b + 64 : b \in k0}

\* Bytes of memory as a register, byte-swapped: _mm_loadu_si128, BYTESWAP.
Load(bytes) == UNION {{8 * (16 - n) + b : b \in BitsOf(bytes[n])} : n \in 1..16}
Store(x) == [n \in 1..16 |-> ValueOf({b - 8 * (16 - n) : b \in x \cap (8 * (16 - n))..(8 * (16 - n) + 7)})]

\* The carry-less product of two polynomials: pclmulqdq00 of the low,
\* pclmulqdq11 of the high halves of two registers.
Clmul(x, z) ==
  {e \in 0..254 : Cardinality({b \in x : e - b \in z}) % 2 = 1}

\* The exclusive or of the two halves.
BK(kw) == Xor(Lo(kw), Hi(kw))

Slli(x, n) == Shl(x, n, 64)
XorAll(a, b, c, d) == Xor(Xor(a, b), Xor(c, d))

\* One bit to the left, across the four words x[1..4].
SL_256(x) ==
  [k \in 1..4 |-> Slli(x[k], 1) \cup (IF k < 4 THEN Shr(x[k + 1], 63) ELSE {})]

\* Mutant: the bits the first fold shifts into the third word are lost.
REDUCE_F128_lossy(x) ==
  LET right(v) == XorAll(v, Shr(v, 1), Shr(v, 2), Shr(v, 7))
      left(v, u) == XorAll(v, Slli(u, 63), Slli(u, 62), Slli(u, 57))
      x1 == Xor(x[2], right(x[4]))
      x2 == x[3]
  IN  <<Xor(x[1], right(x2)), left(x1, x2)>>

REDUCE_F128(x) ==
  LET right(v) == XorAll(v, Shr(v, 1), Shr(v, 2), Shr(v, 7))
      left(v, u) == XorAll(v, Slli(u, 63), Slli(u, 62), Slli(u, 57))
      x1 == Xor(x[2], right(x[4]))
      x2 == left(x[3], x[4])
  IN  <<Xor(x[1], right(x2)), left(x1, x2)>>

\* The tail of every product: hi and lo are the products of the halves, mid
\* that of their sums.
Finish(hi, lo, mid) ==
  LET t2 == Xor(mid, Xor(hi, lo))
      r == REDUCE_F128(SL_256(<<Hi(hi), Xor(Lo(hi), Hi(t2)), Xor(Lo(t2), Hi(lo)), Lo(lo)>>))
  IN  Join(r[1], r[2])

\* No middle product is needed for a square.
SQUARE_F128(kw) ==
  LET z1 == Clmul(Hi(kw), Hi(kw))
      z3 == Clmul(Lo(kw), Lo(kw))
      r == REDUCE_F128(SL_256(<<Hi(z1), Lo(z1), Hi(z3), Lo(z3)>>))
  IN  Join(r[1], r[2])

Times(a, b) == Finish(Clmul(Hi(a), Hi(b)), Clmul(Lo(a), Lo(b)), Clmul(BK(a), BK(b)))

\* One pass of the loop over 64 bytes: one reduction for four products.
Fold4(yw, blocks, powers) ==
  LET aw == [k \in 1..4 |-> IF k = 1 THEN Xor(Load(blocks[1]), yw) ELSE Load(blocks[k])]
      sum(f) == XorAll(f[1], f[2], f[3], f[4])
      p(k) == powers[5 - k]
  IN  Finish(sum([k \in 1..4 |-> Clmul(Hi(aw[k]), Hi(p(k)))]),
             sum([k \in 1..4 |-> Clmul(Lo(aw[k]), Lo(p(k)))]),
             sum([k \in 1..4 |-> Clmul(BK(aw[k]), BK(p(k)))]))

RECURSIVE FoldAll(_, _, _)
\* The two loops: four blocks at a time while there are four, then one.
FoldAll(yw, blocks, powers) ==
  IF blocks = <<>> THEN yw
  ELSE IF Len(blocks) >= 4
       THEN FoldAll(Fold4(yw, SubSeq(blocks, 1, 4), powers), SubSeq(blocks, 5, Len(blocks)), powers)
       ELSE FoldAll(Times(Xor(Load(Head(blocks)), yw), powers[1]), Tail(blocks), powers)

\* Zeros complete the last block.
InBlocks(data) ==
  [b \in 1..((Len(data) + 15) \div 16) |->
     [n \in 1..16 |-> IF 16 * (b - 1) + n <= Len(data) THEN data[16 * (b - 1) + n] ELSE 0]]

br_ghash_pclmul(acc, hkey, data) ==
  LET h1 == Load(hkey)
      h2 == SQUARE_F128(h1)
      powers == <<h1, h2, Times(h1, h2), SQUARE_F128(h2)>>
  IN  Store(FoldAll(Load(acc), InBlocks(data), powers))

-----------------------------------------------------------------------------
(***************************************************************************)
(* The reference: polynomials over GF(2) modulo x^128 + x^7 + x^2 + x + 1, *)
(* the leftmost bit of the first byte the coefficient of x^0 (SP 800-38D). *)
(***************************************************************************)
Poly(bytes) == UNION {{8 * (n - 1) + 7 - b : b \in BitsOf(bytes[n])} : n \in 1..16}

RECURSIVE Reduce(_)
Reduce(p) ==
  LET q == Shr(p, 128)
  IN  IF q = {} THEN p
      ELSE Reduce(Xor(p \cap 0..127, Clmul(q, {0, 1, 2, 7})))

RECURSIVE Horner(_, _, _)
Horner(acc, key, blocks) ==
  IF blocks = <<>> THEN acc
  ELSE Horner(Reduce(Clmul(Xor(acc, Poly(Head(blocks))), key)), key, Tail(blocks))

\* The data: the same irregular bytes in every run.
Byte(p) == (37 * p * p + 11 * p + 5) % 256
Data(n) == [p \in 1..n |-> Byte(p)]

Zero16 == [n \in 1..16 |-> 0]

GhashInit ==
  /\ ghashKey \in HashKeys
  /\ ghashY = Zero16
  /\ pieces = <<>>

\* The caller hashes a piece; a length that is no multiple of 16 ends a part
\* of the message (the additional data, or the data).
GhashNext ==
  \E n \in Pieces :
    /\ Len(pieces) < MaxPieces
    /\ ghashY' = br_ghash_pclmul(ghashY, ghashKey, Data(n))
    /\ pieces' = Append(pieces, n)
    /\ UNCHANGED ghashKey

-----------------------------------------------------------------------------
RECURSIVE AllBlocks(_)
AllBlocks(ps) == IF ps = <<>> THEN <<>> ELSE InBlocks(Data(Head(ps))) \o AllBlocks(Tail(ps))

\* The published example (test case 2 of the GCM specification).
PublishedExample ==
  br_ghash_pclmul(Zero16,
    <<102, 233, 75, 212, 239, 138, 44, 59, 136, 76, 250, 89, 202, 52, 43, 46>>,
    <<3, 136, 218, 206, 96, 182, 163, 146, 243, 40, 194, 185, 113, 178, 254, 120>>
      \o [n \in 1..16 |-> IF n = 16 THEN 128 ELSE 0])
  = <<243, 140, 187, 26, 214, 146, 35, 220, 195, 69, 122, 229, 182, 176, 248, 133>>

\* Whatever the lengths of the calls, the accumulator is the polynomial
\* evaluation of all blocks so far: the four-fold steps, the halves and the
\* reversed order never show, and the published example comes out
\* (br_ghash_pclmul).
GhashIsHorner ==
  /\ Poly(ghashY) = Horner({}, Poly(ghashKey), AllBlocks(pieces))
  /\ pieces = <<0>> => PublishedExample
=============================================================================
