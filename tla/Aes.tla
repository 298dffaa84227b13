--------------------------------- MODULE Aes ---------------------------------
(***************************************************************************)
(* AES with the processor's instructions: the key schedules of aes_x86ni.c *)
(* and the rounds one lane of br_aes_x86ni_ctr_run goes through            *)
(* (aes_x86ni_ctr.c).  A register is a sequence of four 32-bit words, a    *)
(* word the set of its one bits, byte 0 in bits 0..7.                      *)
(***************************************************************************)
EXTENDS Bits, FiniteSets

CONSTANTS
  AesKeys,   \* keys: sequences of 16, 24 or 32 bytes
  AesBlocks  \* blocks to encrypt: sequences of 16 bytes

VARIABLES
  aesKey,   \* the key
  sk,       \* its subkeys, sk[1] the code's sk[0]
  kexp,     \* the registers t1 and t3 of the schedule
  rconsUsed, \* round constants used
  rounds,   \* rounds done, once the schedule is complete
  plain,    \* the block being encrypted
  lane      \* the register of the block

aesVars == <<aesKey, sk, kexp, rconsUsed, rounds, plain, lane>>

Four(f) == <<f[1], f[2], f[3], f[4]>>
Reg(bytes) ==
  Four([k \in 1..4 |-> UNION {{8 * (b - 1) + j : j \in BitsOf(bytes[4 * (k - 1) + b])} : b \in 1..4}])
XorReg(x, z) == Four([k \in 1..4 |-> Xor(x[k], z[k])])

-----------------------------------------------------------------------------
(***************************************************************************)
(* The instructions, from their description.                               *)
(***************************************************************************)
\* Bytes are polynomials modulo x^8 + x^4 + x^3 + x + 1.
RECURSIVE Reduce8(_)
Reduce8(p) ==
  LET q == Shr(p, 8)
      fold == {e \in 0..14 : Cardinality({b \in q : e - b \in {0, 1, 3, 4}}) % 2 = 1}
  IN  IF q = {} THEN p ELSE Reduce8(Xor(p \cap 0..7, fold))
Gf(a, b) == Reduce8({e \in 0..14 : Cardinality({i \in a : e - i \in b}) % 2 = 1})

RECURSIVE Power(_, _)
Power(a, n) ==
  IF n = 0 THEN {0}
  ELSE LET half == Power(a, n \div 2)
       IN  IF n % 2 = 0 THEN Gf(half, half) ELSE Gf(a, Gf(half, half))

\* The inverse, then the affine map.
Sbox == [a \in SUBSET (0..7) |->
  LET v == IF a = {} THEN {} ELSE Power(a, 254)
  IN  Xor({0, 1, 5, 6}, {i \in 0..7 :
        Cardinality({k \in 0..4 : ((i - k) % 8) \in v}) % 2 = 1})]

ByteOf(x, b) == Shr(x, 8 * b) \cap 0..7
FromBytes(f) == UNION {{8 * b + i : i \in f[b]} : b \in 0..3}
SubWord(x) == FromBytes([b \in 0..3 |-> Sbox[ByteOf(x, b)]])

\* _mm_slli_si128(x, 4), _mm_shuffle_epi32 with all fields equal, and
\* _mm_shuffle_epi32(x, 0x4E)
Slli4(x) == <<{}, x[1], x[2], x[3]>>
Spread(x, k) == <<x[k + 1], x[k + 1], x[k + 1], x[k + 1]>>
Swap4E(x) == <<x[3], x[4], x[1], x[2]>>

aeskeygenassist(x, rcon) ==
  LET rotated(v) == Xor(RotL(SubWord(v), 24, 32), BitsOf(rcon))
  IN  <<SubWord(x[2]), rotated(x[2]), SubWord(x[4]), rotated(x[4])>>

SubShift(x) ==
  Four([k \in 1..4 |-> FromBytes([b \in 0..3 |-> Sbox[ByteOf(x[((k - 1 + b) % 4) + 1], b)]])])
MixWith(x, coef) ==
  Four([k \in 1..4 |-> FromBytes([b \in 0..3 |->
     LET term(j) == Gf(coef[((j - b) % 4) + 1], ByteOf(x[k], j))
     IN  Xor(Xor(term(0), term(1)), Xor(term(2), term(3)))])])
aesenc(x, k) == XorReg(MixWith(SubShift(x), <<{1}, {0, 1}, {0}, {0}>>), k)
aesenclast(x, k) == XorReg(SubShift(x), k)
aesimc(x) == MixWith(x, <<{1, 2, 3}, {0, 1, 3}, {0, 2, 3}, {0, 3}>>)

-----------------------------------------------------------------------------
\* t1 ^ (t1 << 32) ^ (t1 << 64) ^ (t1 << 96), with t4 for the shifts
PrefixXors(x) ==
  LET t4 == Slli4(x)
  IN  XorReg(XorReg(XorReg(x, t4), Slli4(t4)), Slli4(Slli4(t4)))

expand_step128(k, k2) ==
  LET once(v) == XorReg(v, Slli4(v))
  IN  XorReg(once(once(once(k))), Spread(k2, 3))

\* t1 and t3 after the step.
expand_step192(t1, t2, t3) ==
  LET n1 == XorReg(PrefixXors(t1), Spread(t2, 1))
  IN  <<n1, XorReg(XorReg(t3, Slli4(t3)), Spread(n1, 3))>>

expand_step256_1(t1, t2) == XorReg(PrefixXors(t1), Spread(t2, 3))
expand_step256_2(t1, t3) == XorReg(PrefixXors(t3), Spread(aeskeygenassist(t1, 0), 2))

Rcons == <<1, 2, 4, 8, 16, 32, 64, 128, 27, 54>>
NumRounds == (Len(aesKey) \div 4) + 6
Rcon(n) == Rcons[rconsUsed + n]

\* What x86ni_keysched has before the first macro.
StartSchedule(bytes) ==
  LET at(n) == Reg(SubSeq(bytes, n + 1, n + 16))
  IN  /\ sk = IF Len(bytes) = 24 THEN <<>> ELSE <<at(0)>>
      /\ kexp = CASE Len(bytes) = 16 -> <<at(0), at(0)>>
                  [] Len(bytes) = 24 -> <<at(0), Swap4E(at(8))>>
                  [] Len(bytes) = 32 -> <<at(0), at(16)>>

\* One subkey from one round constant.
KEXP128 ==
  LET k == expand_step128(kexp[1], aeskeygenassist(kexp[1], Rcon(1)))
  IN  kexp' = <<k, k>> /\ sk' = Append(sk, k) /\ rconsUsed' = rconsUsed + 1

\* Three subkeys from two steps; of t3 only the low half counts.  After the
\* last macro t1 is the thirteenth subkey.
KEXP192 ==
  LET s == expand_step192(kexp[1], aeskeygenassist(kexp[2], Rcon(1)), kexp[2])
      mid == <<kexp[2][1], kexp[2][2], s[1][1], s[1][2]>>
      last == <<s[1][3], s[1][4], s[2][1], s[2][2]>>
      n == expand_step192(s[1], aeskeygenassist(s[2], Rcon(2)), s[2])
  IN  /\ kexp' = n
      /\ sk' = sk \o <<kexp[1], mid, last>> \o (IF Len(sk) = 9 THEN <<n[1]>> ELSE <<>>)
      /\ rconsUsed' = rconsUsed + 2

\* Two subkeys; the last time t3 is not needed again.
KEXP256 ==
  LET n1 == expand_step256_1(kexp[1], aeskeygenassist(kexp[2], Rcon(1)))
  IN  /\ kexp' = <<n1, IF Len(sk) = 13 THEN kexp[2] ELSE expand_step256_2(n1, kexp[2])>>
      /\ sk' = sk \o <<kexp[2], n1>>
      /\ rconsUsed' = rconsUsed + 1

\* The subkeys for decryption, in the order they are used.
br_aes_x86ni_keysched_dec(keys) ==
  LET n == Len(keys)
  IN  [u \in 1..n |-> IF u \in {1, n} THEN keys[n + 1 - u] ELSE aesimc(keys[n + 1 - u])]

\* The round br_aes_x86ni_ctr_run applies as number r.
Round(x, r) ==
  IF r = 0 THEN XorReg(x, sk[1])
  ELSE IF r < NumRounds THEN aesenc(x, sk[r + 1]) ELSE aesenclast(x, sk[r + 1])

AesInit ==
  /\ aesKey \in AesKeys
  /\ plain \in AesBlocks
  /\ StartSchedule(aesKey)
  /\ rconsUsed = 0
  /\ rounds = 0
  /\ lane = Reg(plain)

\* The macros of x86ni_keysched, one at a time.
KeySchedule ==
  /\ Len(sk) <= NumRounds
  /\ CASE Len(aesKey) = 16 -> KEXP128
       [] Len(aesKey) = 24 -> KEXP192
       [] Len(aesKey) = 32 -> KEXP256
  /\ UNCHANGED <<aesKey, rounds, plain, lane>>

EncryptRound ==
  /\ Len(sk) = NumRounds + 1
  /\ rounds <= NumRounds
  /\ lane' = Round(lane, rounds)
  /\ rounds' = rounds + 1
  /\ UNCHANGED <<aesKey, sk, kexp, rconsUsed, plain>>

AesNext == KeySchedule \/ EncryptRound

-----------------------------------------------------------------------------
(***************************************************************************)
(* The reference: the key expansion of FIPS 197, word by word.             *)
(***************************************************************************)
KeyWord(j) == sk[(j \div 4) + 1][(j % 4) + 1]

\* Word j of the schedule, from the ones before it.
ExpectedWord(j) ==
  LET nk == Len(aesKey) \div 4
      temp == KeyWord(j - 1)
      mixed == IF j % nk = 0
               THEN Xor(SubWord(RotL(temp, 24, 32)), Power({1}, (j \div nk) - 1))
               ELSE IF nk > 6 /\ j % nk = 4 THEN SubWord(temp) ELSE temp
  IN  Xor(KeyWord(j - nk), mixed)

\* The example vectors of the standard: the bytes 0, 1, 2, ... as key.
ExampleBlock == [n \in 1..16 |-> 17 * (n - 1)]
ExampleKey(n) == [b \in 1..n |-> b - 1]
ExampleResult(n) ==
  CASE n = 16 -> <<105, 196, 224, 216, 106, 123, 4, 48, 216, 205, 183, 128, 112, 180, 197, 90>>
    [] n = 24 -> <<221, 169, 124, 164, 134, 76, 223, 224, 110, 175, 112, 160, 236, 13, 113, 145>>
    [] n = 32 -> <<142, 162, 183, 202, 81, 103, 69, 191, 234, 252, 73, 144, 75, 73, 96, 137>>

\* For every key length the schedule built from aeskeygenassist is the
\* standard's, a lane that went through all rounds holds the published
\* result for the published example, and the decryption subkeys undo the
\* mixing of the encryption subkeys in reverse order.
AesMatchesStandard ==
  /\ \A j \in (Len(aesKey) \div 4)..(4 * Len(sk) - 1) : KeyWord(j) = ExpectedWord(j)
  /\ Len(sk) = NumRounds + 1 /\ rounds = 0 =>
       \A u \in 2..NumRounds :
         MixWith(br_aes_x86ni_keysched_dec(sk)[u], <<{1}, {0, 1}, {0}, {0}>>)
           = sk[NumRounds + 2 - u]
  /\ rounds = NumRounds + 1 /\ plain = ExampleBlock /\ aesKey = ExampleKey(Len(aesKey)) =>
       lane = Reg(ExampleResult(Len(aesKey)))
=============================================================================
