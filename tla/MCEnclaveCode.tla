---------------------------- MODULE MCEnclaveCode ----------------------------
(***************************************************************************)
(* The code inside the enclave, one machine per part.  The parts share no  *)
(* state, so only one of them moves in a behaviour and the others keep one *)
(* initial state.                                                          *)
(***************************************************************************)
EXTENDS Gcm, Sha, ShaRounds, Ghash, Aes, Curve25519, EcallBridge, PendingRing,
  HashLookup

CONSTANT MaxIds \* negotiations of the ring

VARIABLE moves  \* the part that moves

Bytes(n, a, b) == [i \in 1..n |-> (a * i * i + b) % 256]

\* A 12-byte nonce, and two whose hash starts the counter near its end.
MCNonces == {[len12 |-> TRUE, low |-> 0], [len12 |-> FALSE, low |-> 6],
             [len12 |-> FALSE, low |-> 3]}
MCBlocks == {Abc, Bytes(64, 251, 77)}
MCHashKeys == {[n \in 1..16 |-> (101 * n + 200) % 256], [n \in 1..16 |-> 255],
               [n \in 1..16 |-> IF n = 16 THEN 1 ELSE 0]}
\* Lengths on both sides of one block, of four and of the tail after them.
MCPieces == {0, 1, 15, 16, 33, 64, 81}
MCAesKeys == {ExampleKey(n) : n \in {16, 24, 32}} \cup {Bytes(n, 199, 31) : n \in {16, 24, 32}}
MCAesBlocks == {ExampleBlock, Bytes(16, 37, 3)}
\* The published vector, all ones, and the prime as a second zero.
MCJobs ==
  {VectorJob,
   [secret |-> [b \in 1..32 |-> 255], basepoint |-> [b \in 1..32 |-> 255]],
   [secret |-> Bytes(32, 89, 5),
    basepoint |-> [b \in 1..32 |-> CASE b = 1 -> 237 [] b = 32 -> 127 [] OTHER -> 255]]}

\* Two places in a chain: numbers that fit, are repeated, do not fit or stand
\* for the dummies, and a second chunk.  The directory has free and deleted
\* entries.
MCHashFns == {[n \in 0..4 \cup {Invalid} |-> IF n \in S THEN 1 ELSE 0] : S \in SUBSET (1..4)}
MCBatches == {<<>>, <<1>>, <<1, 1, 2>>, <<0, 1, 2>>, <<1, 2, 3, 3, 4>>, <<1, 2, 3, 3, 3>>,
              <<1, 1, 2, 2, 1, 2, 1, 1, 2>>}
MCDirectories == {<< <<0, {}>>, <<1, {1}>>, <<99, {}>>, <<2, {2}>>, <<3, {1, 2}>> >>}

vars == <<moves, gcmVars, shaVars, roundVars, ghashVars, aesVars, curveVars, bridgeVars, ringVars, lookupVars>>

Init ==
  /\ moves \in {"gcm", "sha", "rounds", "ghash", "aes", "curve", "bridge", "ring", "lookup"}
  /\ RoundInit /\ (moves = "rounds" \/ (algo = "sha256" /\ shaBlock = Abc))
  /\ CurveInit /\ (moves = "curve" \/ job = VectorJob)
  /\ AesInit /\ (moves = "aes" \/ (aesKey = ExampleKey(16) /\ plain = ExampleBlock))
  /\ GhashInit /\ (moves = "ghash" \/ ghashKey[1] = 0)
  /\ GcmInit /\ (moves = "gcm" \/ (nonce.len12 /\ encrypt))
  /\ ShaInit /\ (moves = "sha" \/ (alg = "sha256" /\ key = <<>> /\ hmac.out_len = DigestLen))
  /\ BridgeInit
  /\ RingInit
  /\ LookupInit /\ (moves = "lookup" \/ query_phones = <<>>)

Next ==
  \/ /\ moves = "gcm" /\ GcmNext
     /\ UNCHANGED <<moves, shaVars, roundVars, ghashVars, aesVars, curveVars, bridgeVars, ringVars, lookupVars>>
  \/ /\ moves = "sha" /\ ShaNext
     /\ UNCHANGED <<moves, gcmVars, roundVars, ghashVars, aesVars, curveVars, bridgeVars, ringVars, lookupVars>>
  \/ /\ moves = "rounds" /\ RoundNext
     /\ UNCHANGED <<moves, gcmVars, shaVars, ghashVars, aesVars, curveVars, bridgeVars, ringVars, lookupVars>>
  \/ /\ moves = "ghash" /\ GhashNext
     /\ UNCHANGED <<moves, gcmVars, shaVars, roundVars, aesVars, curveVars, bridgeVars, ringVars, lookupVars>>
  \/ /\ moves = "aes" /\ AesNext
     /\ UNCHANGED <<moves, gcmVars, shaVars, roundVars, ghashVars, curveVars, bridgeVars, ringVars, lookupVars>>
  \/ /\ moves = "curve" /\ CurveNext
     /\ UNCHANGED <<moves, gcmVars, shaVars, roundVars, ghashVars, aesVars, bridgeVars, ringVars, lookupVars>>
  \/ /\ moves = "bridge" /\ BridgeNext
     /\ UNCHANGED <<moves, gcmVars, shaVars, roundVars, ghashVars, aesVars, curveVars, ringVars, lookupVars>>
  \/ /\ moves = "ring" /\ RingNext /\ last_pending_request_id_val' <= MaxIds
     /\ UNCHANGED <<moves, gcmVars, shaVars, roundVars, ghashVars, aesVars, curveVars, bridgeVars, lookupVars>>
  \/ /\ moves = "lookup" /\ LookupNext
     /\ UNCHANGED <<moves, gcmVars, shaVars, roundVars, ghashVars, aesVars, curveVars, bridgeVars, ringVars>>

Spec == Init /\ [][Next]_vars

-----------------------------------------------------------------------------
\* The compression functions, the multiplication in GHASH's field and the AES
\* rounds compute what their standards define (sha2small_round, br_ghash_pclmul,
\* x86ni_keysched, br_aes_x86ni_ctr_run).
PrimitivesMatchStandards ==
  RoundsMatchStandard /\ GhashIsHorner /\ AesMatchesStandard
=============================================================================
