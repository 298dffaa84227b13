--------------------------------- MODULE Gcm ---------------------------------
(***************************************************************************)
(* AES-GCM as the enclave runs it: the incremental br_gcm_* functions      *)
(* (gcm.c), the counter mode they drive (aes_x86ni_ctr.c), and the         *)
(* one-shot sgxsd_aes_gcm_run on top.  A byte is a set of symbols and its  *)
(* exclusive or with another the symmetric difference, so a byte shows     *)
(* which data and which key stream went into it.  AES and GHASH are        *)
(* symbolic: GHASH's accumulator is the sequence of blocks it has          *)
(* absorbed (module Ghash has the arithmetic).                             *)
(***************************************************************************)
EXTENDS Bits

CONSTANTS
  BlockLen,    \* bytes of a block (16)
  Lanes,       \* blocks the counter mode makes at a time (4)
  CounterMod,  \* values of the block counter (2^32)
  Nonces,      \* [len12 : BOOLEAN, low : 0..CounterMod - 1]
  MaxAad,      \* bound on the additional data
  MaxData,     \* bound on the data
  NoMessage    \* nothing sealed or opened yet

VARIABLES
  gcm,       \* br_gcm_context
  nonce,     \* the nonce of this message
  encrypt,   \* the direction
  stage,     \* which of the br_gcm_* calls comes next
  out,       \* the data bytes processed so far
  sealed,    \* [data, tag] once the tag is out
  opened     \* what sgxsd_aes_gcm_decrypt made of it

gcmVars == <<gcm, nonce, encrypt, stage, out, sealed, opened>>

\* The i-th byte of AES applied to the counter block (iv, cc).  The order of the
\* counter's bytes in the block is part of the symbol.
Aes(iv, cc, i) == {<<"aes", iv, cc, i>>}

Zeros(n) == [i \in 1..n |-> {}]

\* memcpy(buf + ptr, data, Len(data))
CopyInto(buf, ptr, data) ==
  [i \in DOMAIN buf |-> IF i > ptr /\ i <= ptr + Len(data) THEN data[i - ptr] ELSE buf[i]]

From(data, n) == SubSeq(data, n + 1, Len(data))

\* br_ghash on len bytes: zeros complete the last block.
gh(y, data) ==
  LET blocks == (Len(data) + BlockLen - 1) \div BlockLen
      padded == data \o Zeros(blocks * BlockLen - Len(data))
  IN  y \o [b \in 1..blocks |-> SubSeq(padded, (b - 1) * BlockLen + 1, b * BlockLen)]

RECURSIVE br_aes_x86ni_ctr_run(_, _, _)
\* Lanes counter blocks are encrypted at a time; the last, short group is
\* used as far as the data goes, and the counter returned counts its
\* complete blocks only.
br_aes_x86ni_ctr_run(iv, cc, data) ==
  LET wide == Lanes * BlockLen
      tmp(u) == Aes(iv, (cc + (u \div BlockLen)) % CounterMod, u % BlockLen)
      done == [u \in 1..(IF Len(data) >= wide THEN wide ELSE Len(data)) |->
                 Xor(data[u], tmp(u - 1))]
  IN  IF Len(data) >= wide
      THEN LET rest == br_aes_x86ni_ctr_run(iv, (cc + Lanes) % CounterMod, From(data, wide))
           IN  [cc |-> rest.cc, data |-> done \o rest.data]
      ELSE [cc |-> (cc + (Len(data) \div BlockLen)) % CounterMod, data |-> done]

\* The GHASH key h: counter mode on an all-zero block, with the all-zero IV and
\* counter 0.
ZeroIv == [len12 |-> TRUE, low |-> 0]
br_gcm_init == br_aes_x86ni_ctr_run(ZeroIv, 0, Zeros(BlockLen)).data

\* ctx->jc = ctx->j0_2 + 1
DataCounter(j0_2) == (j0_2 + 1) % CounterMod

\* A 12-byte nonce is the counter block's IV, with counter 1; any other is
\* hashed into both.  buf is not cleared.
br_gcm_reset(h, iv, junk) ==
  LET j0_2 == IF iv.len12 THEN 1 ELSE iv.low
  IN  [h |-> h, j0_1 |-> iv, j0_2 |-> j0_2, jc |-> DataCounter(j0_2),
       y |-> <<>>, count_aad |-> 0, count_ctr |-> 0, buf |-> junk]

\* Completes the partial block in buf, hashes the whole blocks and keeps the
\* rest in buf.
br_gcm_aad_inject(ctx, data) ==
  LET ptr == ctx.count_aad % BlockLen
      clen == IF ptr = 0 THEN 0 ELSE BlockLen - ptr
      first == CopyInto(ctx.buf, ptr, SubSeq(data, 1, clen))
      y1 == IF ptr = 0 THEN ctx.y ELSE gh(ctx.y, first)
      rest == From(data, clen)
      dlen == Len(rest) - (Len(rest) % BlockLen)
  IN  IF Len(data) < clen
      THEN [ctx EXCEPT !.buf = CopyInto(@, ptr, data), !.count_aad = @ + Len(data)]
      ELSE [ctx EXCEPT !.y = gh(y1, SubSeq(rest, 1, dlen)),
                       !.buf = CopyInto(IF ptr = 0 THEN @ ELSE first, 0, From(rest, dlen)),
                       !.count_aad = @ + Len(data)]

br_gcm_flip(ctx) ==
  LET ptr == ctx.count_aad % BlockLen
  IN  IF ptr # 0 THEN [ctx EXCEPT !.y = gh(@, SubSeq(ctx.buf, 1, ptr))] ELSE ctx

\* Mutant: the output whichever the direction.
EncryptedOutput(enc, input, output) == output

\* The bytes GHASH is to see: encrypt ? y : x
Encrypted(enc, input, output) == IF enc THEN output ELSE input

\* Completes the partial block with the key stream kept in buf, runs the
\* whole blocks through counter mode, and opens a new partial block for the
\* rest.  GHASH takes the encrypted bytes in either direction.
br_gcm_run(ctx, enc, data) ==
  LET ptr == ctx.count_ctr % BlockLen
      clen == IF ptr = 0 THEN 0
              ELSE IF Len(data) < BlockLen - ptr THEN Len(data) ELSE BlockLen - ptr
      head == [u \in 1..clen |-> Xor(data[u], ctx.buf[ptr + u])]
      buf1 == CopyInto(ctx.buf, ptr, Encrypted(enc, SubSeq(data, 1, clen), head))
      y1 == IF ptr = 0 THEN ctx.y ELSE gh(ctx.y, buf1)
      rest == From(data, clen)
      dlen == Len(rest) - (Len(rest) % BlockLen)
      whole == br_aes_x86ni_ctr_run(ctx.j0_1, ctx.jc, SubSeq(rest, 1, dlen))
      tail == From(rest, dlen)
      block == br_aes_x86ni_ctr_run(ctx.j0_1, whole.cc, Zeros(BlockLen))
      last == [u \in 1..Len(tail) |-> Xor(tail[u], block.data[u])]
  IN  IF ptr # 0 /\ ptr + clen < BlockLen
      THEN [ctx |-> [ctx EXCEPT !.buf = buf1, !.count_ctr = @ + clen], data |-> head]
      ELSE [ctx |-> [ctx EXCEPT
                       !.y = gh(y1, Encrypted(enc, SubSeq(rest, 1, dlen), whole.data)),
                       !.jc = IF tail = <<>> THEN whole.cc ELSE block.cc,
                       !.buf = IF tail = <<>> THEN buf1
                               ELSE CopyInto(block.data, 0, Encrypted(enc, tail, last)),
                       !.count_ctr = @ + Len(data)],
            data |-> head \o whole.data \o last]

\* The digest of what GHASH absorbed under h, as BlockLen symbolic bytes, masked with
\* the block of the initial counter.
br_gcm_get_tag(ctx) ==
  LET ptr == ctx.count_ctr % BlockLen
      y1 == IF ptr > 0 THEN gh(ctx.y, SubSeq(ctx.buf, 1, ptr)) ELSE ctx.y
      y2 == Append(y1, <<"bits", ctx.count_aad, ctx.count_ctr>>)
      digest == [i \in 1..BlockLen |-> {<<"ghash", ctx.h, y2, i>>}]
  IN  br_aes_x86ni_ctr_run(ctx.j0_1, ctx.j0_2, digest).data

br_gcm_check_tag_trunc(ctx, tag, len) ==
  \A u \in 1..len : br_gcm_get_tag(ctx)[u] = tag[u]

\* A tag that does not check out zeroes the output.
Released(ok, data) == IF ok THEN data ELSE Zeros(Len(data))

\* The whole message in one call.
sgxsd_aes_gcm_run(enc, iv, aad, src, mac, junk) ==
  LET ctx0 == br_gcm_reset(br_gcm_init, iv, junk)
      ctx1 == br_gcm_flip(IF aad = <<>> THEN ctx0 ELSE br_gcm_aad_inject(ctx0, aad))
      run == IF src = <<>> THEN [ctx |-> ctx1, data |-> <<>>] ELSE br_gcm_run(ctx1, enc, src)
      ok == enc \/ br_gcm_check_tag_trunc(run.ctx, mac, BlockLen)
  IN  [ok |-> ok, dst |-> Released(ok, run.data),
       mac |-> IF enc THEN br_gcm_get_tag(run.ctx) ELSE mac]

-----------------------------------------------------------------------------
(***************************************************************************)
(* The reference: the GCM construction, stated on the whole message.       *)
(***************************************************************************)
\* The hash key: AES of the all-zero block.
HashKey == [i \in 1..BlockLen |-> Aes(ZeroIv, 0, i - 1)]

FirstCounter(iv) == IF iv.len12 THEN 1 ELSE iv.low

\* Byte p of the key stream that masks the data.
KeyStream(iv, p) ==
  Aes(iv, (FirstCounter(iv) + 1 + ((p - 1) \div BlockLen)) % CounterMod, (p - 1) % BlockLen)

AadBytes(n) == [p \in 1..n |-> {<<"aad", p>>}]
PlainBytes(n) == [p \in 1..n |-> {<<"data", p>>}]
CipherBytes(iv, n) == [p \in 1..n |-> Xor(PlainBytes(n)[p], KeyStream(iv, p))]

ExpectedTag(iv, a, n) ==
  LET y == gh(gh(<<>>, AadBytes(a)), CipherBytes(iv, n)) \o << <<"bits", a, n>> >>
  IN  [i \in 1..BlockLen |-> Xor({<<"ghash", HashKey, y, i>>}, Aes(iv, FirstCounter(iv), i - 1))]

-----------------------------------------------------------------------------
\* What buf holds when a context is set up: anything.
Junk == [i \in 1..BlockLen |-> {<<"junk">>}]

GcmInit ==
  /\ nonce \in Nonces
  /\ encrypt \in BOOLEAN
  /\ gcm = br_gcm_reset(br_gcm_init, nonce, Junk)
  /\ stage = "aad"
  /\ out = <<>>
  /\ sealed = NoMessage
  /\ opened = NoMessage

\* The caller injects additional data in pieces of any length, empty ones too.
Inject ==
  /\ stage = "aad"
  /\ \E n \in 0..(MaxAad - gcm.count_aad) :
       gcm' = br_gcm_aad_inject(gcm, From(AadBytes(gcm.count_aad + n), gcm.count_aad))
  /\ UNCHANGED <<nonce, encrypt, stage, out, sealed, opened>>

Flip ==
  /\ stage = "aad"
  /\ gcm' = br_gcm_flip(gcm)
  /\ stage' = "data"
  /\ UNCHANGED <<nonce, encrypt, out, sealed, opened>>

\* The caller encrypts or decrypts data in pieces of any length.
Run ==
  /\ stage = "data"
  /\ \E n \in 0..(MaxData - Len(out)) :
       LET total == Len(out) + n
           input == IF encrypt THEN PlainBytes(total) ELSE CipherBytes(nonce, total)
           result == br_gcm_run(gcm, encrypt, From(input, Len(out)))
       IN  gcm' = result.ctx /\ out' = out \o result.data
  /\ UNCHANGED <<nonce, encrypt, stage, sealed, opened>>

GetTag ==
  /\ stage = "data"
  /\ sealed' = [data |-> out, tag |-> br_gcm_get_tag(gcm)]
  /\ stage' = "done"
  /\ UNCHANGED <<nonce, encrypt, gcm, out, opened>>

\* What was sealed is handed to sgxsd_aes_gcm_decrypt, as it is or with a
\* byte of the data or of the tag changed on the way.
OpenSealed ==
  /\ stage = "done" /\ encrypt /\ opened = NoMessage
  /\ \E hit \in 0..(Len(sealed.data) + BlockLen) :
       LET n == Len(sealed.data)
           flip(byte) == Xor(byte, {<<"noise">>})
           src == [p \in 1..n |-> IF p = hit THEN flip(sealed.data[p]) ELSE sealed.data[p]]
           mac == [i \in 1..BlockLen |->
                     IF n + i = hit THEN flip(sealed.tag[i]) ELSE sealed.tag[i]]
           result == sgxsd_aes_gcm_run(FALSE, nonce, AadBytes(gcm.count_aad), src, mac, Junk)
       IN  opened' = [ok |-> result.ok, dst |-> result.dst, intact |-> hit = 0]
  /\ UNCHANGED <<nonce, encrypt, gcm, stage, out, sealed>>

GcmNext == Inject \/ Flip \/ Run \/ GetTag \/ OpenSealed

-----------------------------------------------------------------------------
\* However the caller cuts the additional data and the data into pieces, the
\* bytes that come out and the tag are those of the GCM construction on the
\* whole message, in both directions (br_gcm_aad_inject, br_gcm_run,
\* br_gcm_get_tag).
PiecesDoNotMatter ==
  /\ out = IF encrypt THEN CipherBytes(nonce, Len(out)) ELSE PlainBytes(Len(out))
  /\ sealed # NoMessage => sealed.tag = ExpectedTag(nonce, gcm.count_aad, Len(out))

\* No byte of key stream is used twice, neither on two bytes of the data nor on
\* the data and the tag, also when the counter wraps around, and the data never
\* takes the block the GHASH key is made of (br_gcm_init, br_gcm_reset,
\* br_aes_x86ni_ctr_run).
KeyStreamUsedOnce ==
  encrypt =>
    /\ \A p, q \in DOMAIN out : p # q => out[p] \cap out[q] = {}
    /\ nonce = ZeroIv => \A p \in DOMAIN out, i \in 1..BlockLen : out[p] \cap gcm.h[i] = {}
    /\ sealed # NoMessage =>
         \A p \in DOMAIN out, i \in 1..BlockLen : out[p] \cap sealed.tag[i] = {}

\* sgxsd_aes_gcm_decrypt accepts exactly what was sealed and returns the
\* plaintext; it gives out nothing of a message that was changed on the way.
OpensWhatWasSealed ==
  opened # NoMessage =>
    /\ opened.ok = opened.intact
    /\ opened.dst = IF opened.ok THEN PlainBytes(Len(out)) ELSE Zeros(Len(out))

\* Sealing and opening a message through br_gcm_* is GCM: the result does not
\* depend on how the data is cut, no key stream is used twice, and only what
\* was sealed is opened.
SealingIsExact == PiecesDoNotMatter /\ KeyStreamUsedOnce /\ OpensWhatWasSealed
=============================================================================
