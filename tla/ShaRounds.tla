------------------------------ MODULE ShaRounds ------------------------------
(***************************************************************************)
(* The compression functions br_sha2small_round (sha2small.c) and          *)
(* br_sha1_round (sha1.c), on real 32-bit words.  Neither moves its        *)
(* working variables: the code renames them from step to step, and a step  *)
(* writes only those it changes.  The standard shifts all of them, and     *)
(* writes the choice and majority functions in another form; that          *)
(* formulation runs beside the code's, one step at a time.                 *)
(***************************************************************************)
EXTENDS Bits

CONSTANT Blocks   \* blocks to compress: sequences of 64 bytes

VARIABLES
  algo,    \* "sha256" or "sha1"
  shaBlock,   \* the block being compressed
  sched,       \* the message schedule (m in sha1.c)
  step,       \* steps done
  regs,    \* the working variables a, b, ... of the code, in place
  fips     \* those of the standard, shifted at every step

roundVars == <<algo, shaBlock, sched, step, regs, fips>>

Words(pairs) == [j \in DOMAIN pairs |-> Word(pairs[j][1], pairs[j][2])]

\* Big-endian words of bytes, and bytes of words.
br_range_dec32be(buf) ==
  [j \in 1..(Len(buf) \div 4) |->
     Word(256 * buf[4 * j - 3] + buf[4 * j - 2], 256 * buf[4 * j - 1] + buf[4 * j])]
br_range_enc32be(v) ==
  [b \in 1..(4 * Len(v)) |->
     ValueOf(Shr(v[((b - 1) \div 4) + 1], 8 * (3 - ((b - 1) % 4))) \cap 0..7)]

Plus(x, y) == Add(x, y, 32)
ROTL(x, n) == RotL(x, n, 32)
ROTR(x, n) == RotL(x, 32 - n, 32)
Xor3(x, y, z) == Xor(x, Xor(y, z))

CH(x, y, z) == Xor(Xor(y, z) \cap x, z)
MAJ(x, y, z) == (y \cap z) \cup ((y \cup z) \cap x)

BSG2_0(x) == Xor3(ROTR(x, 2), ROTR(x, 13), ROTR(x, 22))
BSG2_1(x) == Xor3(ROTR(x, 6), ROTR(x, 11), ROTR(x, 25))
SSG2_0(x) == Xor3(ROTR(x, 7), ROTR(x, 18), Shr(x, 3))
SSG2_1(x) == Xor3(ROTR(x, 17), ROTR(x, 19), Shr(x, 10))

br_sha256_IV == Words(<<
    <<\h6A09, \hE667>>, <<\hBB67, \hAE85>>, <<\h3C6E, \hF372>>, <<\hA54F, \hF53A>>,
    <<\h510E, \h527F>>, <<\h9B05, \h688C>>, <<\h1F83, \hD9AB>>, <<\h5BE0, \hCD19>> >>)

K == Words(<<
    <<\h428A, \h2F98>>, <<\h7137, \h4491>>, <<\hB5C0, \hFBCF>>, <<\hE9B5, \hDBA5>>,
    <<\h3956, \hC25B>>, <<\h59F1, \h11F1>>, <<\h923F, \h82A4>>, <<\hAB1C, \h5ED5>>,
    <<\hD807, \hAA98>>, <<\h1283, \h5B01>>, <<\h2431, \h85BE>>, <<\h550C, \h7DC3>>,
    <<\h72BE, \h5D74>>, <<\h80DE, \hB1FE>>, <<\h9BDC, \h06A7>>, <<\hC19B, \hF174>>,
    <<\hE49B, \h69C1>>, <<\hEFBE, \h4786>>, <<\h0FC1, \h9DC6>>, <<\h240C, \hA1CC>>,
    <<\h2DE9, \h2C6F>>, <<\h4A74, \h84AA>>, <<\h5CB0, \hA9DC>>, <<\h76F9, \h88DA>>,
    <<\h983E, \h5152>>, <<\hA831, \hC66D>>, <<\hB003, \h27C8>>, <<\hBF59, \h7FC7>>,
    <<\hC6E0, \h0BF3>>, <<\hD5A7, \h9147>>, <<\h06CA, \h6351>>, <<\h1429, \h2967>>,
    <<\h27B7, \h0A85>>, <<\h2E1B, \h2138>>, <<\h4D2C, \h6DFC>>, <<\h5338, \h0D13>>,
    <<\h650A, \h7354>>, <<\h766A, \h0ABB>>, <<\h81C2, \hC92E>>, <<\h9272, \h2C85>>,
    <<\hA2BF, \hE8A1>>, <<\hA81A, \h664B>>, <<\hC24B, \h8B70>>, <<\hC76C, \h51A3>>,
    <<\hD192, \hE819>>, <<\hD699, \h0624>>, <<\hF40E, \h3585>>, <<\h106A, \hA070>>,
    <<\h19A4, \hC116>>, <<\h1E37, \h6C08>>, <<\h2748, \h774C>>, <<\h34B0, \hBCB5>>,
    <<\h391C, \h0CB3>>, <<\h4ED8, \hAA4A>>, <<\h5B9C, \hCA4F>>, <<\h682E, \h6FF3>>,
    <<\h748F, \h82EE>>, <<\h78A5, \h636F>>, <<\h84C8, \h7814>>, <<\h8CC7, \h0208>>,
    <<\h90BE, \hFFFA>>, <<\hA450, \h6CEB>>, <<\hBEF9, \hA3F7>>, <<\hC671, \h78F2>> >>)

RECURSIVE Schedule256(_)
\* w[16..63]; the sequence is indexed from 1.
Schedule256(m) ==
  LET n == Len(m) + 1
  IN  IF n > 64 THEN m
      ELSE Schedule256(Append(m, Plus(Plus(SSG2_1(m[n - 2]), m[n - 7]),
                                      Plus(SSG2_0(m[n - 15]), m[n - 16]))))

\* Which variable plays role r (0 for A) in step j: SHA2_STEP(h, a, b, ...)
\* follows SHA2_STEP(a, b, c, ...).
Role(r, j, n) == ((r - j) % n) + 1

\* SHA2_STEP number j
SHA2_STEP(v, j) ==
  LET V(r) == v[Role(r, j, 8)]
      T1 == Plus(Plus(V(7), BSG2_1(V(4))), Plus(CH(V(4), V(5), V(6)), Plus(K[j + 1], sched[j + 1])))
      T2 == Plus(BSG2_0(V(0)), MAJ(V(0), V(1), V(2)))
  IN  [v EXCEPT ![Role(3, j, 8)] = Plus(@, T1), ![Role(7, j, 8)] = Plus(T1, T2)]

-----------------------------------------------------------------------------
br_sha1_IV == Words(<<
    <<\h6745, \h2301>>, <<\hEFCD, \hAB89>>, <<\h98BA, \hDCFE>>, <<\h1032, \h5476>>,
    <<\hC3D2, \hE1F0>> >>)

SHA1_K == Words(<< <<\h5A82, \h7999>>, <<\h6ED9, \hEBA1>>, <<\h8F1B, \hBCDC>>, <<\hCA62, \hC1D6>> >>)

\* F, G, H and I of sha1.c for the steps of their quarter.
Mix(j, b, c, d) ==
  CASE j \div 20 = 0 -> Xor(Xor(c, d) \cap b, d)
    [] j \div 20 = 2 -> (d \cap c) \cup ((d \cup c) \cap b)
    [] OTHER -> Xor3(b, c, d)

RECURSIVE Schedule1(_)
\* m[16..79]
Schedule1(m) ==
  LET n == Len(m) + 1
  IN  IF n > 80 THEN m
      ELSE Schedule1(Append(m, ROTL(Xor(Xor(m[n - 3], m[n - 8]), Xor(m[n - 14], m[n - 16])), 1)))

\* One line of the four loops: e += ...; b = ROTL(b, 30)
SHA1_STEP(v, j) ==
  LET V(r) == v[Role(r, j, 5)]
      sum == Plus(Plus(ROTL(V(0), 5), Mix(j, V(1), V(2), V(3))),
                  Plus(SHA1_K[(j \div 20) + 1], sched[j + 1]))
  IN  [v EXCEPT ![Role(4, j, 5)] = Plus(@, sum), ![Role(1, j, 5)] = ROTL(@, 30)]

-----------------------------------------------------------------------------
Steps == IF algo = "sha256" THEN 64 ELSE 80
IV == IF algo = "sha256" THEN br_sha256_IV ELSE br_sha1_IV

\* The standard's step: all variables move one place.
FipsStep(v, j) ==
  LET choose(x, y, z) == (x \cap y) \cup (z \ x)
      majority(x, y, z) == (x \cap y) \cup (x \cap z) \cup (y \cap z)
  IN  IF algo = "sha256"
      THEN LET T1 == Plus(Plus(Plus(Plus(v[8], BSG2_1(v[5])), choose(v[5], v[6], v[7])),
                               K[j + 1]), sched[j + 1])
               T2 == Plus(BSG2_0(v[1]), majority(v[1], v[2], v[3]))
           IN  <<Plus(T1, T2), v[1], v[2], v[3], Plus(v[4], T1), v[5], v[6], v[7]>>
      ELSE LET f == CASE j < 20 -> choose(v[2], v[3], v[4])
                      [] j \in 40..59 -> majority(v[2], v[3], v[4])
                      [] OTHER -> Xor3(v[2], v[3], v[4])
               T == Plus(Plus(ROTL(v[1], 5), f),
                         Plus(Plus(v[5], SHA1_K[(j \div 20) + 1]), sched[j + 1]))
           IN  <<T, v[1], ROTL(v[2], 30), v[3], v[4]>>

RoundInit ==
  /\ algo \in {"sha256", "sha1"}
  /\ shaBlock \in Blocks
  /\ sched = LET m == br_range_dec32be(shaBlock)
             IN  IF algo = "sha256" THEN Schedule256(m) ELSE Schedule1(m)
  /\ step = 0
  /\ regs = IV
  /\ fips = IV

RoundNext ==
  /\ step < Steps
  /\ regs' = IF algo = "sha256" THEN SHA2_STEP(regs, step) ELSE SHA1_STEP(regs, step)
  /\ fips' = FipsStep(fips, step)
  /\ step' = step + 1
  /\ UNCHANGED <<algo, shaBlock, sched>>

\* val[j] += a, b, ... at the end of the function
Compressed == [j \in DOMAIN IV |-> Plus(IV[j], regs[j])]

-----------------------------------------------------------------------------
\* The padded message "abc".
Abc == [b \in 1..64 |-> CASE b = 1 -> 97 [] b = 2 -> 98 [] b = 3 -> 99 [] b = 4 -> 128
                           [] b = 64 -> 24 [] OTHER -> 0]

AbcDigest ==
  [sha256 |-> <<186, 120, 22, 191, 143, 1, 207, 234, 65, 65, 64, 222, 93, 174, 34, 35,
            176, 3, 97, 163, 150, 23, 122, 156, 180, 16, 255, 97, 242, 0, 21, 173>>,
   sha1 |-> <<169, 153, 62, 54, 71, 6, 129, 106, 186, 62, 37, 113, 120, 80, 194, 108,
            156, 208, 216, 157>>]

\* After every step the variables the code leaves in place are the standard's
\* shifted ones under the renaming, and for the one-block message "abc" the
\* function ends with the digest the standard publishes.
RoundsMatchStandard ==
  /\ \A r \in 0..(Len(regs) - 1) : regs[Role(r, step, Len(regs))] = fips[r + 1]
  /\ step = Steps /\ shaBlock = Abc => br_range_enc32be(Compressed) = AbcDigest[algo]
=============================================================================
