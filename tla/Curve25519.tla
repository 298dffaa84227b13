----------------------------- MODULE Curve25519 -----------------------------
(***************************************************************************)
(* curve25519_donna (curve25519-donna-c64.c) at its real width: field      *)
(* elements are five 64-bit limbs of 51 bits and some slack, products are  *)
(* gathered in 128 bits, and nothing is reduced until fcontract.  A limb   *)
(* operation is cut to 64 bits where the code's types cut it.  The         *)
(* multiplication of the point is one step per bit of the scalar and the   *)
(* inversion one step per field operation.                                 *)
(***************************************************************************)
EXTENDS BigNat

CONSTANTS
  Jobs,    \* runs: [secret, basepoint : sequences of 32 bytes]
  NoResult \* before the result is written

VARIABLES
  job,      \* the run
  bitsLeft, \* bits of the scalar still to come
  ladder,   \* <<nqx, nqz, nqpqx, nqpqz>>
  exact,    \* the same numbers modulo p, by the reference
  pc,       \* operations of crecip done
  rep,      \* squarings of the current operation done
  temps,     \* the temporaries of crecip
  expo,     \* history: each temporary as a power of the inverted z
  result    \* mypublic

curveVars == <<job, bitsLeft, ladder, exact, pc, rep, temps, expo, result>>

Five(f) == <<f[1], f[2], f[3], f[4], f[5]>>
Limb(x) == BigLow(x, 64)
Low51(x) == BigLow(x, 51)
LimbAdd(x, y) == BigAdd(x, y)
Sum3(x, y, z) == BigAdd(x, BigAdd(y, z))

fsum(out, in) == Five([k \in 1..5 |-> Limb(LimbAdd(out[k], in[k]))])

\* Mutant: the operands the other way round.
fdifference_forwards(out, in) ==
  LET two54m152 == BigSub(BigPower2(54), Big(152))
      two54m8 == BigSub(BigPower2(54), Big(8))
      more(k) == IF k = 1 THEN two54m152 ELSE two54m8
  IN  Five([k \in 1..5 |-> Limb(BigSub(LimbAdd(out[k], more(k)), in[k]))])

\* in - out, with 8p added so that no limb goes below zero.
fdifference_backwards(out, in) ==
  LET two54m152 == BigSub(BigPower2(54), Big(152))
      two54m8 == BigSub(BigPower2(54), Big(8))
      more(k) == IF k = 1 THEN two54m152 ELSE two54m8
  IN  Five([k \in 1..5 |->
        Limb(BigSub(Sum3(in[k], more(k), BigPower2(64)), out[k]))])

fscalar_product(in, scalar) ==
  LET times(k, c) == LimbAdd(BigMul(in[k], scalar), Limb(c))
      a1 == BigMul(in[1], scalar)
      a2 == times(2, BigShr(a1, 51))
      a3 == times(3, BigShr(a2, 51))
      a4 == times(4, BigShr(a3, 51))
      a5 == times(5, BigShr(a4, 51))
  IN  <<Limb(LimbAdd(Low51(a1), BigMul(BigShr(a5, 51), Big(19)))),
        Low51(a2), Low51(a3), Low51(a4), Low51(a5)>>

\* The carries at the end of fmul and of each squaring: the fifth limb's
\* wraps around times 19, and two more go on from there.
CarryChain(t) ==
  LET over(x) == Limb(BigShr(x, 51))
      t1 == LimbAdd(t[2], over(t[1]))
      t2 == LimbAdd(t[3], over(t1))
      t3 == LimbAdd(t[4], over(t2))
      t4 == LimbAdd(t[5], over(t3))
      r0 == Limb(LimbAdd(Low51(t[1]), Limb(BigMul(over(t4), Big(19)))))
      r1 == Limb(LimbAdd(Low51(t1), BigShr(r0, 51)))
  IN  <<Low51(r0), Low51(r1), Limb(LimbAdd(Low51(t2), BigShr(r1, 51))), Low51(t3), Low51(t4)>>

fmul(in2, in) ==
  LET r == in
      s == in2
      P(x, y) == BigMul(x, y)
      n(k) == Limb(BigMul(r[k], Big(19)))
  IN  CarryChain(<<
        LimbAdd(P(r[1], s[1]), LimbAdd(LimbAdd(P(n(5), s[2]), P(n(2), s[5])), LimbAdd(P(n(3), s[4]), P(n(4), s[3])))),
        LimbAdd(LimbAdd(P(r[1], s[2]), P(r[2], s[1])), Sum3(P(n(5), s[3]), P(n(3), s[5]), P(n(4), s[4]))),
        LimbAdd(Sum3(P(r[1], s[3]), P(r[3], s[1]), P(r[2], s[2])), LimbAdd(P(n(5), s[4]), P(n(4), s[5]))),
        LimbAdd(LimbAdd(LimbAdd(P(r[1], s[4]), P(r[4], s[1])), LimbAdd(P(r[2], s[3]), P(r[3], s[2]))), P(n(5), s[5])),
        LimbAdd(LimbAdd(P(r[1], s[5]), P(r[5], s[1])), Sum3(P(r[4], s[2]), P(r[2], s[4]), P(r[3], s[3])))>>)

\* One pass of the loop of fsquare_times.
fsquare(r) ==
  LET P(x, y) == BigMul(x, y)
      d0 == Limb(LimbAdd(r[1], r[1]))
      d1 == Limb(LimbAdd(r[2], r[2]))
      d2 == Limb(BigMul(r[3], Big(38)))
      d419 == Limb(BigMul(r[5], Big(19)))
      d4 == Limb(LimbAdd(d419, d419))
  IN  CarryChain(<<
        Sum3(P(r[1], r[1]), P(d4, r[2]), P(d2, r[4])),
        Sum3(P(d0, r[2]), P(d4, r[3]), P(r[4], Limb(BigMul(r[4], Big(19))))),
        Sum3(P(d0, r[3]), P(r[2], r[2]), P(d4, r[4])),
        Sum3(P(d0, r[4]), P(d1, r[3]), P(r[5], d419)),
        Sum3(P(d0, r[5]), P(d1, r[4]), P(r[3], r[3]))>>)

A24 == Big(121665)

\* From Q = l[1]/l[2], Q' = l[3]/l[4] and Q - Q' the double of Q and Q + Q'.
fmonty(l, qmqp) ==
  LET x == fsum(l[1], l[2])
      z == fdifference_backwards(l[2], l[1])
      xprime == fsum(l[3], l[4])
      zprime == fdifference_backwards(l[4], l[3])
      xxprime == fmul(xprime, z)
      zzprime == fmul(x, zprime)
      xx == fsquare(x)
      zz == fsquare(z)
      diff == fdifference_backwards(zz, xx)
  IN  <<fmul(xx, zz), fmul(diff, fsum(fscalar_product(diff, A24), xx)),
        fsquare(fsum(xxprime, zzprime)),
        fmul(fsquare(fdifference_backwards(zzprime, xxprime)), qmqp)>>

\* The two points change places when iswap is one.
swap_conditional(l, iswap) == IF iswap = 1 THEN <<l[3], l[4], l[1], l[2]>> ELSE l

-----------------------------------------------------------------------------
RECURSIVE Little(_)
\* The number of little-endian bytes.
Little(bytes) ==
  LET half == Len(bytes) \div 2
  IN  IF half = 0 THEN Big(bytes[1])
      ELSE BigAdd(Little(SubSeq(bytes, 1, half)),
                  BigShl(Little(SubSeq(bytes, half + 1, Len(bytes))), 8 * half))

load_limb(bytes, at) == Little(SubSeq(bytes, at + 1, at + 8))
store_limb(x) == [b \in 1..8 |-> Digit(BigLow(BigShr(x, 8 * (b - 1)), 8), 1)]

fexpand(bytes) ==
  <<Low51(load_limb(bytes, 0)), Low51(BigShr(load_limb(bytes, 6), 3)),
    Low51(BigShr(load_limb(bytes, 12), 6)), Low51(BigShr(load_limb(bytes, 19), 1)),
    Low51(BigShr(load_limb(bytes, 24), 12))>>

\* One carry from the first limb to the last; wrap says whether the last
\* limb's goes back to the first.
CarryPass(t, wrap) ==
  LET t1 == LimbAdd(t[2], BigShr(t[1], 51))
      t2 == LimbAdd(t[3], BigShr(t1, 51))
      t3 == LimbAdd(t[4], BigShr(t2, 51))
      t4 == LimbAdd(t[5], BigShr(t3, 51))
      back == IF wrap THEN BigMul(Big(19), BigShr(t4, 51)) ELSE <<>>
  IN  <<LimbAdd(Low51(t[1]), back), Low51(t1), Low51(t2), Low51(t3), Low51(t4)>>

fcontract(input) ==
  LET twice == CarryPass(CarryPass(input, TRUE), TRUE)
      plus19 == CarryPass([twice EXCEPT ![1] = LimbAdd(@, Big(19))], TRUE)
      offset(k) == BigSub(BigPower2(51), Big(IF k = 1 THEN 19 ELSE 1))
      t == CarryPass(Five([k \in 1..5 |-> LimbAdd(plus19[k], offset(k))]), FALSE)
      join(lo, r, hi, l) == Limb(LimbAdd(BigShr(lo, r), BigShl(hi, l)))
  IN  store_limb(join(t[1], 0, t[2], 51)) \o store_limb(join(t[2], 13, t[3], 38))
        \o store_limb(join(t[3], 26, t[4], 25)) \o store_limb(join(t[4], 39, t[5], 12))

\* e: the secret with its low three bits and its top bit cleared and the bit
\* below the top set.
Clamped(secret) ==
  [b \in 1..32 |->
     CASE b = 1 -> secret[1] - (secret[1] % 8)
       [] b = 32 -> (secret[32] % 64) + 64
       [] OTHER -> secret[b]]

\* The operations of crecip: destination, operands, and how often to square.
CrecipProgram == <<
  <<"sq", "a", "z", 1>>, <<"sq", "t0", "a", 2>>, <<"mul", "b", "t0", "z">>,
  <<"mul", "a", "b", "a">>, <<"sq", "t0", "a", 1>>, <<"mul", "b", "t0", "b">>,
  <<"sq", "t0", "b", 5>>, <<"mul", "b", "t0", "b">>, <<"sq", "t0", "b", 10>>,
  <<"mul", "c", "t0", "b">>, <<"sq", "t0", "c", 20>>, <<"mul", "t0", "t0", "c">>,
  <<"sq", "t0", "t0", 10>>, <<"mul", "b", "t0", "b">>, <<"sq", "t0", "b", 50>>,
  <<"mul", "c", "t0", "b">>, <<"sq", "t0", "c", 100>>, <<"mul", "t0", "t0", "c">>,
  <<"sq", "t0", "t0", 50>>, <<"mul", "t0", "t0", "b">>, <<"sq", "t0", "t0", 5>>,
  <<"mul", "out", "t0", "a">> >>

-----------------------------------------------------------------------------
(***************************************************************************)
(* The reference: RFC 7748's ladder step on numbers modulo 2^255 - 19.     *)
(***************************************************************************)
Prime == BigSub(BigPower2(255), Big(19))

RECURSIVE ModP(_)
ModP(x) ==
  LET hi == BigShr(x, 255)
  IN  IF hi # <<>> THEN ModP(LimbAdd(BigLow(x, 255), BigMul(hi, Big(19))))
      ELSE IF BigLess(x, Prime) THEN x ELSE BigSub(x, Prime)

Value(l) ==
  ModP(LimbAdd(l[1], LimbAdd(LimbAdd(BigShl(l[2], 51), BigShl(l[3], 102)),
                       LimbAdd(BigShl(l[4], 153), BigShl(l[5], 204)))))

ExactStep(e, x1) ==
  LET mul(x, y) == ModP(BigMul(x, y))
      add(x, y) == ModP(LimbAdd(x, y))
      sub(x, y) == ModP(LimbAdd(x, BigSub(Prime, y)))
      AA == mul(add(e[1], e[2]), add(e[1], e[2]))
      BB == mul(sub(e[1], e[2]), sub(e[1], e[2]))
      E == sub(AA, BB)
      DA == mul(sub(e[3], e[4]), add(e[1], e[2]))
      CB == mul(add(e[3], e[4]), sub(e[1], e[2]))
  IN  <<mul(AA, BB), mul(E, add(AA, mul(A24, E))),
        mul(add(DA, CB), add(DA, CB)), mul(x1, mul(sub(DA, CB), sub(DA, CB)))>>

-----------------------------------------------------------------------------
One == <<1>>
ZeroLimbs == << <<>>, <<>>, <<>>, <<>>, <<>> >>
OneLimbs == <<One, <<>>, <<>>, <<>>, <<>> >>
X1 == ModP(BigLow(Little(job.basepoint), 255))
Powers0 == [a |-> <<>>, b |-> <<>>, c |-> <<>>, t0 |-> <<>>, z |-> One, out |-> <<>>]

CurveInit ==
  /\ job \in Jobs
  /\ bitsLeft = 256
  /\ ladder = <<OneLimbs, ZeroLimbs, fexpand(job.basepoint), OneLimbs>>
  /\ exact = <<One, <<>>, X1, One>>
  /\ pc = 0 /\ rep = 0
  /\ temps = [r \in DOMAIN Powers0 |-> ZeroLimbs]
  /\ expo = Powers0
  /\ result = NoResult

\* The bit of the clamped scalar that comes next, from the top.
NextBit ==
  LET b == bitsLeft - 1 IN (Clamped(job.secret)[(b \div 8) + 1] \div (2 ^ (b % 8))) % 2

\* One pass of the inner loop of cmult.
CmultBit ==
  /\ bitsLeft > 0
  /\ ladder' = swap_conditional(
                 fmonty(swap_conditional(ladder, NextBit), fexpand(job.basepoint)), NextBit)
  /\ exact' = swap_conditional(ExactStep(swap_conditional(exact, NextBit), X1), NextBit)
  /\ bitsLeft' = bitsLeft - 1
  /\ temps' = IF bitsLeft = 1 THEN [temps EXCEPT !.z = ladder'[2]] ELSE temps
  /\ UNCHANGED <<job, pc, rep, expo, result>>

\* One squaring or multiplication of crecip.
CrecipStep ==
  /\ bitsLeft = 0
  /\ pc < Len(CrecipProgram)
  /\ LET op == CrecipProgram[pc + 1]
         dst == op[2]
     IN  IF op[1] = "mul"
         THEN /\ temps' = [temps EXCEPT ![dst] = fmul(temps[op[3]], temps[op[4]])]
              /\ expo' = [expo EXCEPT ![dst] = BigAdd(expo[op[3]], expo[op[4]])]
              /\ pc' = pc + 1 /\ rep' = 0
         ELSE LET src == IF rep = 0 THEN op[3] ELSE dst
              IN  /\ temps' = [temps EXCEPT ![dst] = fsquare(temps[src])]
                  /\ expo' = [expo EXCEPT ![dst] = BigAdd(expo[src], expo[src])]
                  /\ IF rep + 1 = op[4] THEN pc' = pc + 1 /\ rep' = 0
                     ELSE pc' = pc /\ rep' = rep + 1
  /\ UNCHANGED <<job, bitsLeft, ladder, exact, result>>

\* The last lines of curve25519_donna.
Contract ==
  /\ pc = Len(CrecipProgram) /\ result = NoResult
  /\ result' = fcontract(fmul(ladder[1], temps.out))
  /\ UNCHANGED <<job, bitsLeft, ladder, exact, pc, rep, temps, expo>>

CurveNext == CmultBit \/ CrecipStep \/ Contract

-----------------------------------------------------------------------------
\* The test vector of RFC 7748.
VectorJob ==
  [secret |-> <<165, 70, 227, 107, 240, 82, 124, 157, 59, 22, 21, 75, 130, 70, 94, 221,
    98, 20, 76, 10, 193, 252, 90, 24, 80, 106, 34, 68, 186, 68, 154, 196>>,
   basepoint |-> <<230, 219, 104, 103, 88, 48, 48, 219, 53, 148, 193, 164, 36, 177, 95, 124,
    114, 102, 36, 236, 38, 179, 53, 59, 16, 169, 3, 166, 208, 171, 28, 76>>]
VectorResult ==
  <<195, 218, 85, 55, 157, 233, 198, 144, 142, 148, 234, 77, 242, 141, 8, 79,
    50, 236, 207, 3, 73, 28, 113, 247, 84, 180, 7, 85, 119, 162, 133, 82>>

\* After every bit of the scalar the limbs stand for the numbers of the
\* reference ladder: no 64-bit limb and no carry ever loses a bit, although
\* nothing is reduced on the way; and every limb is below 2^52, as the
\* comments of the field operations promise.
LadderIsExact ==
  bitsLeft < 256 => \A k \in 1..4 :
    /\ Value(ladder[k]) = exact[k]
    /\ \A j \in 1..5 : BigLess(ladder[k][j], BigPower2(52))

\* crecip raises z to 2^255 - 21, the result is the one canonical encoding of
\* x/z (of zero when z is zero), and the published test vector comes out.
ResultIsCanonical ==
  result # NoResult =>
    /\ expo.out = BigSub(Prime, Big(2))
    /\ BigLess(Little(result), Prime)
    /\ IF exact[2] = <<>> THEN Little(result) = <<>>
       ELSE ModP(BigMul(Little(result), exact[2])) = exact[1]
    /\ job = VectorJob => result = VectorResult

\* The scalar multiplication with its lazy carries computes the published
\* function and returns its canonical encoding (curve25519_donna).
CurveIsExact == LadderIsExact /\ ResultIsCanonical
=============================================================================
