------------------------------- MODULE BigNat -------------------------------
(***************************************************************************)
(* Natural numbers wider than TLC's integers: sequences of digits in base  *)
(* 2^13, the least significant first, no zero digit at the end.            *)
(***************************************************************************)
EXTENDS Integers, Sequences

DigitBits == 13
Base == 2 ^ DigitBits

Digit(x, k) == IF k <= Len(x) THEN x[k] ELSE 0

\* The digits as a tuple: TLC computes each of them once.
Tuple(x) == SubSeq(x, 1, Len(x))

RECURSIVE Trim(_)
Trim(x) == IF x # <<>> /\ x[Len(x)] = 0 THEN Trim(SubSeq(x, 1, Len(x) - 1)) ELSE x

RECURSIVE CarryFrom(_, _, _, _)
\* Digits of any size, and negative ones too, made proper from place k on.
CarryFrom(x, k, carry, acc) ==
  LET d == Digit(x, k) + carry
  IN  IF k > Len(x) /\ carry = 0 THEN Trim(acc)
      ELSE CarryFrom(x, k + 1, d \div Base, Append(acc, d % Base))

Carry(x) == CarryFrom(Tuple(x), 1, 0, <<>>)

Longer(x, y) == IF Len(x) > Len(y) THEN Len(x) ELSE Len(y)

BigAdd(x, y) == Carry([k \in 1..Longer(x, y) |-> Digit(x, k) + Digit(y, k)])

\* x - y for x >= y
BigSub(x, y) == Carry([k \in 1..Longer(x, y) |-> Digit(x, k) - Digit(y, k)])

RECURSIVE DigitSum(_, _, _, _)
\* The sum of x[i] * y[k + 1 - i] for i in lo..hi.
DigitSum(x, y, k, i) ==
  IF i > Len(x) \/ i > k THEN 0
  ELSE x[i] * Digit(y, k + 1 - i) + DigitSum(x, y, k, i + 1)

BigMul(x, y) ==
  IF x = <<>> \/ y = <<>> THEN <<>>
  ELSE Carry([k \in 1..(Len(x) + Len(y)) |-> DigitSum(x, y, k, 1)])

\* x >> n and the n low bits of x.
BigShr(x, n) ==
  LET s == n \div DigitBits
      low == 2 ^ (n % DigitBits)
      high == Base \div low
  IN  IF Len(x) <= s THEN <<>>
      ELSE Trim(Tuple([k \in 1..(Len(x) - s) |->
             (x[k + s] \div low) + (Digit(x, k + s + 1) % low) * high]))

BigLow(x, n) ==
  LET s == n \div DigitBits
  IN  IF Len(x) <= s THEN x
      ELSE Trim(Append(SubSeq(x, 1, s), x[s + 1] % (2 ^ (n % DigitBits))))

\* x << n
BigShl(x, n) ==
  Carry([k \in 1..((n \div DigitBits) + Len(x)) |->
           IF k <= n \div DigitBits THEN 0 ELSE x[k - (n \div DigitBits)] * 2 ^ (n % DigitBits)])

RECURSIVE BigLess(_, _)
BigLess(x, y) ==
  IF Len(x) # Len(y) THEN Len(x) < Len(y)
  ELSE IF x = <<>> THEN FALSE
  ELSE LET n == Len(x)
       IN  IF x[n] # y[n] THEN x[n] < y[n]
           ELSE BigLess(Trim(SubSeq(x, 1, n - 1)), Trim(SubSeq(y, 1, n - 1)))

\* A number TLC can hold, as digits.
Big(n) == Carry(<<n>>)

\* 2^n
BigPower2(n) == BigShl(<<1>>, n)
=============================================================================
