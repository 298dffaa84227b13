--------------------------------- MODULE Sha ---------------------------------
(***************************************************************************)
(* Hashing as the enclave's code does it: the incremental SHA-224/256      *)
(* (sha2small.c) and SHA-1 (sha1.c) contexts, HMAC on top of them as       *)
(* BearSSL has it (hmac.c) and as the enclave has it                       *)
(* (sgxsd_enclave_hmac_sha256), and the HKDF rounds the enclave derives    *)
(* its random numbers and session keys with.  A byte is a set of symbols   *)
(* under exclusive or.  The compression function is symbolic: val is the   *)
(* initial value followed by the blocks compressed into it (module         *)
(* ShaRounds has the rounds).                                              *)
(***************************************************************************)
EXTENDS Bits

CONSTANTS
  HashBlock,    \* bytes of a block (64)
  LengthBytes,  \* bytes of the length at the end of the padding (8)
  DigestLen,    \* bytes of a digest, at most HashBlock
  MaxKey,       \* bound on the HMAC key
  MaxText,      \* bound on the text
  MaxExpand     \* bound on the HKDF rounds

VARIABLES
  alg,    \* the hash in use
  sha,    \* its context
  key,    \* HMAC key
  hmac,   \* br_hmac_context
  text,   \* what both were given so far
  hkdf    \* sgxsd_ra_hkdf_buf: the last output T(n), and n

shaVars == <<alg, sha, key, hmac, text, hkdf>>

Algs == {"sha224", "sha256", "sha1"}

\* n bytes of the data called name.
Named(name, n) == [i \in 1..n |-> {<<name, i>>}]
Fill(byte, n) == [i \in 1..n |-> byte]
Rest(s, n) == SubSeq(s, n + 1, Len(s))

\* What the buffer of a new context holds: anything.
Unset == Fill({<<"junk">>}, HashBlock)

\* br_sha*_round: one block more into val.
round(val, block) == Append(val, block)

br_sha_init(a) == [val |-> <<a>>, count |-> 0, buf |-> Unset]

\* The context is set to a state saved at a block boundary; buf is not part
\* of it.
br_sha_set_state(ctx, val, count) == [ctx EXCEPT !.val = val, !.count = count]

Overwrite(buf, ptr, s) ==
  [i \in 1..HashBlock |-> IF i > ptr /\ i <= ptr + Len(s) THEN s[i - ptr] ELSE buf[i]]

RECURSIVE Absorb(_, _, _, _)
\* The loop of sha2small_update and br_sha1_update: ptr is the fill of buf.
Absorb(val, buf, ptr, data) ==
  LET clen == IF HashBlock - ptr > Len(data) THEN Len(data) ELSE HashBlock - ptr
      full == Overwrite(buf, ptr, SubSeq(data, 1, clen))
  IN  IF data = <<>> THEN [val |-> val, buf |-> buf]
      ELSE IF ptr + clen = HashBlock
           THEN Absorb(round(val, full), full, 0, Rest(data, clen))
           ELSE Absorb(val, full, ptr + clen, Rest(data, clen))

br_sha_update(ctx, data) ==
  LET after == Absorb(ctx.val, ctx.buf, ctx.count % HashBlock, data)
  IN  [val |-> after.val, buf |-> after.buf, count |-> ctx.count + Len(data)]

LengthField(count) == [i \in 1..LengthBytes |-> {<<"bits", 8 * count, i>>}]

\* Mutant: the boundary of the last block is taken one byte early.
NeedsExtraBlockEarly(ptr) == ptr >= HashBlock - LengthBytes

\* if (ptr > 56)
NeedsExtraBlock(ptr) == ptr > HashBlock - LengthBytes

Stop == {<<"0x80">>}

\* The padding is written to a copy: the context is left as it was.
br_sha_out(ctx) ==
  LET used == ctx.count % HashBlock
      begun == Append(SubSeq(ctx.buf, 1, used), Stop)
      body == HashBlock - LengthBytes
      last(head) == head \o Fill({}, body - Len(head)) \o LengthField(ctx.count)
      val == IF NeedsExtraBlock(used + 1)
             THEN round(round(ctx.val, begun \o Fill({}, HashBlock - used - 1)), last(<<>>))
             ELSE round(ctx.val, last(begun))
  IN  [i \in 1..DigestLen |-> {<<"hash", val, i>>}]

sha_digest(a, data) == br_sha_out(br_sha_update(br_sha_init(a), data))

-----------------------------------------------------------------------------
Inner == {<<"0x36">>}
Outer == {<<"0x5C">>}

\* The key, masked and filled up to a block.
Masked(k, mask) == [i \in 1..HashBlock |-> IF i <= Len(k) THEN Xor(k[i], mask) ELSE mask]

\* The state of a hash that has taken the masked key.
process_key(a, k, mask) == br_sha_update(br_sha_init(a), Masked(k, mask)).val

\* A key longer than a block is replaced by its digest.
HashedKey(a, k) == IF Len(k) > HashBlock THEN sha_digest(a, k) ELSE k

\* br_hmac_key_init followed by br_hmac_init; out_len 0 asks for all of it.
br_hmac_init(a, k, out_len) ==
  [alg |-> a,
   out_len |-> IF out_len > 0 /\ out_len < DigestLen THEN out_len ELSE DigestLen,
   dig |-> br_sha_set_state(br_sha_init(a), process_key(a, HashedKey(a, k), Inner), HashBlock),
   kso |-> process_key(a, HashedKey(a, k), Outer)]

br_hmac_update(ctx, data) == [ctx EXCEPT !.dig = br_sha_update(@, data)]

br_hmac_out(ctx) ==
  LET outer == br_sha_set_state(br_sha_init(ctx.alg), ctx.kso, HashBlock)
  IN  SubSeq(br_sha_out(br_sha_update(outer, br_sha_out(ctx.dig))), 1, ctx.out_len)

RECURSIVE UpdateAll(_, _)
UpdateAll(ctx, bufs) ==
  IF bufs = <<>> THEN ctx ELSE UpdateAll(br_sha_update(ctx, Head(bufs)), Tail(bufs))

sgxsd_enclave_sha256(bufs) == br_sha_out(UpdateAll(br_sha_init("sha256"), bufs))

\* bufs[0] is the key; the inner digest is written to p_hash, where the outer
\* hash reads it.
sgxsd_enclave_hmac_sha256(bufs) ==
  LET k == IF Len(Head(bufs)) > HashBlock
           THEN sgxsd_enclave_sha256(<<Head(bufs)>>) ELSE Head(bufs)
      p_hash == sgxsd_enclave_sha256(<<Masked(k, Inner)>> \o Tail(bufs))
  IN  sgxsd_enclave_sha256(<<Masked(k, Outer), p_hash>>)

\* What a round feeds to HMAC: the counter, after the previous output if
\* there is one.  HMAC writes its result over that output, but a digest is
\* written only when all its input has been read, so the input has a value here.
HkdfInput(t_n, n) ==
  IF n = 1 THEN << {<<"n", n>>} >> ELSE Append(t_n, {<<"n", n>>})

sgxsd_enclave_ra_hkdf_round(prk, buf) ==
  LET n == buf.n + 1
  IN  [n |-> n, t_n |-> sgxsd_enclave_hmac_sha256(<<prk, HkdfInput(buf.t_n, n)>>)]

-----------------------------------------------------------------------------
(***************************************************************************)
(* The reference: the padded message cut into blocks (FIPS 180-4), HMAC    *)
(* (RFC 2104) and HKDF-Expand with an empty info (RFC 5869).               *)
(***************************************************************************)
HashOf(a, m) ==
  LET n == Len(m) + 1 + LengthBytes
      padded == Append(m, Stop) \o Fill({}, (-n) % HashBlock) \o LengthField(Len(m))
      blocks == [b \in 1..(Len(padded) \div HashBlock) |->
                   SubSeq(padded, (b - 1) * HashBlock + 1, b * HashBlock)]
  IN  [i \in 1..DigestLen |-> {<<"hash", <<a>> \o blocks, i>>}]

HmacOf(a, k, m) ==
  LET k0 == IF Len(k) <= HashBlock THEN k ELSE HashOf(a, k)
  IN  HashOf(a, Masked(k0, Outer) \o HashOf(a, Masked(k0, Inner) \o m))

RECURSIVE ExpandOf(_, _)
ExpandOf(prk, n) ==
  HmacOf("sha256", prk, (IF n = 1 THEN <<>> ELSE ExpandOf(prk, n - 1)) \o << {<<"n", n>>} >>)

-----------------------------------------------------------------------------
Prk == Named("prk", DigestLen)

ShaInit ==
  /\ alg \in Algs
  /\ \E n \in 0..MaxKey : key = Named("key", n)
  /\ sha = br_sha_init(alg)
  /\ \E out_len \in 0..DigestLen : hmac = br_hmac_init(alg, key, out_len)
  /\ text = <<>>
  /\ hkdf = [n |-> 0, t_n |-> Fill({<<"junk">>}, DigestLen)]

\* The caller hashes the text in pieces of any length, empty ones too.
Update ==
  /\ \E n \in 0..(MaxText - Len(text)) :
       LET piece == Rest(Named("text", Len(text) + n), Len(text))
       IN  /\ sha' = br_sha_update(sha, piece)
           /\ hmac' = br_hmac_update(hmac, piece)
           /\ text' = text \o piece
  /\ UNCHANGED <<alg, key, hkdf>>

\* sgxsd_enclave_derive_request_keys and sgxsd_enclave_read_rand take two
\* rounds each.
Expand ==
  /\ hkdf.n < MaxExpand
  /\ hkdf' = sgxsd_enclave_ra_hkdf_round(Prk, hkdf)
  /\ UNCHANGED <<alg, sha, key, hmac, text>>

ShaNext == Update \/ Expand

-----------------------------------------------------------------------------
\* However the text is cut into pieces, the digest is that of the whole text:
\* no byte is lost or counted twice at a block boundary, and the padding is
\* right when the length field does not fit (sha2small_update, sha2small_out,
\* br_sha1_update, br_sha1_out).
DigestOfWhole == br_sha_out(sha) = HashOf(alg, text)

\* The library's HMAC, fed in pieces from a saved state, and the enclave's own
\* HMAC, fed a list of buffers, are both RFC 2104's, for keys shorter than,
\* as long as and longer than a block.
MacsAgree ==
  /\ br_hmac_out(hmac) = SubSeq(HmacOf(alg, key, text), 1, hmac.out_len)
  /\ sgxsd_enclave_hmac_sha256(<<key, text>>) = HmacOf("sha256", key, text)

\* The n-th round gives HKDF's T(n), made from the T(n-1) and the counter of the
\* round before: client and server keys, and the random numbers, are chained and
\* separate (sgxsd_enclave_ra_hkdf_round).
RoundsAreHkdf == hkdf.n > 0 => hkdf.t_n = ExpandOf(Prk, hkdf.n)

\* Digest, HMAC and HKDF of data in pieces are those of the whole data, for the
\* library's implementation and for the enclave's own HMAC.
DigestsAreExact == DigestOfWhole /\ MacsAgree /\ RoundsAreHkdf
=============================================================================
