---------------------------- MODULE SgxsdEnclave ----------------------------
(***************************************************************************)
(* The trusted part of the enclave (sgxsd-enclave.c): node initialisation, *)
(* the random generator, the two static key pairs, negotiation of requests,*)
(* opening of requests and sealing of replies.  A thread inside an ECALL   *)
(* takes one step per critical section; between them other threads run.    *)
(*                                                                         *)
(* Cryptography is symbolic.  A key pair is the number of the random draw  *)
(* it was made from, the shared secret of a negotiation is the triple of   *)
(* client, ephemeral key and static key, and a sealed text opens with its  *)
(* own key only.  The processor's random values may repeat; within an      *)
(* instance the generator's own state keeps two draws apart.  A new        *)
(* instance starts the generator over, from a zeroed state: that its draws *)
(* differ from those of earlier instances rests on the processor alone, so *)
(* the histories, which outlive instances, tag an entry with its instance. *)
(***************************************************************************)
EXTENDS PendingRing

CONSTANTS
  Clients,
  MaxDraws,      \* bound: random draws of one instance
  MaxInstances,  \* bound: instances of the enclave
  Refresher      \* the thread that asks for reports

Threads == Clients \cup {Refresher}
NoThread == "none"
NoKey == 0
Keys == 1..MaxDraws

\* node_init draws two key pairs.
ASSUME EnclaveAssumption ==
  /\ MaxDraws \in Nat /\ MaxDraws >= 2
  /\ Refresher \notin Clients /\ NoThread \notin Threads
  /\ Clients \X Keys \X Keys \subseteq Prks

VARIABLES
  instance,         \* which instance of the enclave is loaded
  initialized,      \* g_sgxsd_enclave_node_initialized of that instance
  read_rand_state,  \* draws made from the generator: its HKDF chain
  read_rand_lock,
  dh_keypair,       \* static key pair negotiations use
  new_dh_keypair,   \* key pair of the last report
  pc,               \* thread -> its place in an ECALL
  entered,          \* thread -> instance its ECALL runs in
  seen_state,       \* thread -> generator state read under the lock
  drawn,            \* thread -> key pair it generated
  static,           \* thread -> static key pair copied by a negotiation
  draws,            \* history: keys drawn, as (instance, draw)
  sealed,           \* history: server keys used, as (instance, key, IV)
  id_ivs,           \* history: uses of the id key, as (instance, IV)
  held,             \* requests opened and not yet answered (server keys)
  reused            \* history: what was drawn, sealed or held once more

nodeVars == <<instance, initialized>>
randVars == <<read_rand_state, read_rand_lock, draws, seen_state, drawn>>
keyVars == <<dh_keypair, new_dh_keypair>>
callVars == <<pc, entered, static>>
sealVars == <<sealed, id_ivs, held, reused>>

EnclaveInit ==
  /\ RingInit
  /\ instance = 1 /\ initialized = TRUE
  /\ read_rand_state = 2 /\ read_rand_lock = NoThread
  /\ dh_keypair = 1 /\ new_dh_keypair = 2
  /\ pc = [t \in Threads |-> "out"]
  /\ entered = [t \in Threads |-> 0]
  /\ seen_state = [t \in Threads |-> 0]
  /\ drawn = [t \in Threads |-> NoKey]
  /\ static = [t \in Threads |-> NoKey]
  /\ draws = {<<1, 1>>, <<1, 2>>}
  /\ sealed = {} /\ id_ivs = {} /\ held = {} /\ reused = {}

\* What to note in the history when x is used: its kind, if it was used before.
Again(kind, x, before) == IF x \in before THEN {kind} ELSE {}

\* The thread's ECALL can go on: its instance is still there.
Inside(t) == initialized /\ entered[t] = instance

\* The ECALL returns; its locals are gone.
Leave(t) ==
  /\ pc' = [pc EXCEPT ![t] = "out"]
  /\ entered' = [entered EXCEPT ![t] = 0]
  /\ seen_state' = [seen_state EXCEPT ![t] = 0]
  /\ drawn' = [drawn EXCEPT ![t] = NoKey]
  /\ static' = [static EXCEPT ![t] = NoKey]

\* The ECALL fails: its instance is gone, or the processor gives no random
\* value.
Abort(t) ==
  /\ pc[t] # "out" /\ (~Inside(t) \/ pc[t] = "rand")
  /\ Leave(t)
  /\ UNCHANGED <<ringVars, nodeVars, read_rand_state, read_rand_lock, draws, keyVars, sealVars>>

\* The enclave is lost (power transition, crash); calls in it fail.
Lose ==
  /\ initialized
  /\ initialized' = FALSE
  /\ UNCHANGED <<ringVars, instance, randVars, keyVars, callVars, sealVars>>

\* A new instance is created and initialised: both key pairs and the key that
\* seals ids are drawn, the table is allocated and zeroed.  When a draw or the
\* allocation fails the enclave is not usable.
sgxsd_enclave_node_init(ok) ==
  /\ ~initialized /\ instance < MaxInstances
  /\ instance' = instance + 1
  /\ initialized' = ok
  /\ pending_requests' = [s \in 0..(Size - 1) |-> Zeroed]
  /\ last_pending_request_id_val' = 0
  /\ negotiated' = [id \in {} |-> NoPrk]
  /\ used' = {}
  /\ read_rand_state' = 2 /\ read_rand_lock' = NoThread
  /\ draws' = draws \cup {<<instance', 1>>, <<instance', 2>>}
  /\ dh_keypair' = 1 /\ new_dh_keypair' = 2
  /\ held' = {}
  /\ UNCHANGED <<seen_state, drawn, callVars, sealed, id_ivs, reused>>

\* Mutant: the generator runs without its lock.
read_rand_enter_unlocked(t) ==
  /\ pc[t] = "rand" /\ Inside(t) /\ read_rand_state < MaxDraws
  /\ read_rand_lock' = t
  /\ seen_state' = [seen_state EXCEPT ![t] = read_rand_state]
  /\ pc' = [pc EXCEPT ![t] = "hkdf"]
  /\ UNCHANGED <<ringVars, nodeVars, read_rand_state, draws, drawn, keyVars, entered, static, sealVars>>

\* sgxsd_enclave_read_rand takes the lock and extracts from the state.
read_rand_enter(t) ==
  /\ pc[t] = "rand" /\ Inside(t) /\ read_rand_state < MaxDraws
  /\ read_rand_lock = NoThread
  /\ read_rand_lock' = t
  /\ seen_state' = [seen_state EXCEPT ![t] = read_rand_state]
  /\ pc' = [pc EXCEPT ![t] = "hkdf"]
  /\ UNCHANGED <<ringVars, nodeVars, read_rand_state, draws, drawn, keyVars, entered, static, sealVars>>

\* It advances the state, expands the private key and releases the lock;
\* generate_curve25519_keypair computes the public key from it.
read_rand_leave(t) ==
  /\ pc[t] = "hkdf" /\ Inside(t)
  /\ read_rand_state' = seen_state[t] + 1
  /\ drawn' = [drawn EXCEPT ![t] = seen_state[t] + 1]
  /\ draws' = draws \cup {<<instance, seen_state[t] + 1>>}
  /\ reused' = reused \cup Again("draw", <<instance, seen_state[t] + 1>>, draws)
  /\ seen_state' = [seen_state EXCEPT ![t] = 0]
  /\ read_rand_lock' = NoThread
  /\ pc' = [pc EXCEPT ![t] = "keyed"]
  /\ UNCHANGED <<ringVars, nodeVars, keyVars, entered, static, sealed, id_ivs, held>>

\* Mutant: the report's key pair becomes current at once.
store_report_key_direct(t, ok) ==
  /\ pc[t] = "keyed" /\ Inside(t)
  /\ new_dh_keypair' = IF ok THEN drawn[t] ELSE new_dh_keypair
  /\ dh_keypair' = new_dh_keypair'
  /\ Leave(t)
  /\ UNCHANGED <<ringVars, nodeVars, read_rand_state, read_rand_lock, draws, sealVars>>

\* The last section of get_next_report; ok: the report could be created.
store_report_key(t, ok) ==
  /\ pc[t] = "keyed" /\ Inside(t)
  /\ new_dh_keypair' = IF ok THEN drawn[t] ELSE new_dh_keypair
  /\ Leave(t)
  /\ UNCHANGED <<ringVars, nodeVars, read_rand_state, read_rand_lock, draws, dh_keypair, sealVars>>

sgxsd_enclave_set_current_quote ==
  /\ initialized
  /\ dh_keypair' = new_dh_keypair
  /\ UNCHANGED <<ringVars, nodeVars, randVars, new_dh_keypair, callVars, sealVars>>

\* A negotiation copies the static key pair under its lock.
copy_static(t) ==
  /\ pc[t] = "keyed" /\ Inside(t)
  /\ static' = [static EXCEPT ![t] = dh_keypair]
  /\ pc' = [pc EXCEPT ![t] = "secret"]
  /\ UNCHANGED <<ringVars, nodeVars, randVars, keyVars, entered, sealVars>>

\* HKDF over the two shared secrets and the three public keys.
SharedSecret(t) == <<t, drawn[t], static[t]>>

\* The response of a negotiation is encrypted under the server key, IV zero.
NegotiationIV == 0

\* The IV an id is sealed with is a random value of the processor.  Nothing in
\* the enclave keeps it from repeating; here it always repeats.
IdIV == 0

\* The end of negotiate_request: the table entry is written; then the id is
\* sealed with the id key under a random IV, and that once more, IV zero, with
\* the server key.  When the IV cannot be drawn the entry stays behind.
finish_negotiation(t, ok) ==
  /\ pc[t] = "secret" /\ Inside(t)
  /\ add_pending_request(SharedSecret(t))
  /\ IF ok
       THEN LET response == <<instance, SharedSecret(t), NegotiationIV>>
                id == <<instance, IdIV>>
            IN  /\ sealed' = sealed \cup {response} /\ id_ivs' = id_ivs \cup {id}
                /\ reused' = reused \cup Again("iv", response, sealed) \cup Again("id", id, id_ivs)
       ELSE UNCHANGED <<sealed, id_ivs, reused>>
  /\ Leave(t)
  /\ UNCHANGED <<nodeVars, read_rand_state, read_rand_lock, draws, keyVars, held>>

\* A request with this id and secret, encrypted by the client (intact) or
\* damaged on the way.  The entry is removed before the text is opened.
sgxsd_enclave_server_call(id, secret, intact) ==
  /\ initialized
  /\ IF id \in Ids /\ Found(id)
       THEN /\ remove_pending_request(id)
            /\ IF intact /\ PrkOf(id) = secret
                 THEN /\ held' = held \cup {PrkOf(id)}
                      /\ reused' = reused \cup Again("request", PrkOf(id), held)
                 ELSE UNCHANGED <<held, reused>>
       ELSE UNCHANGED <<ringVars, held, reused>>
  /\ UNCHANGED <<nodeVars, randVars, keyVars, callVars, sealed, id_ivs>>

\* One bit of the random IV is set.
ReplyIV(r) == IF r % 2 = 0 THEN r + 1 ELSE r

\* Random IVs a reply may draw: their lowest bit.
RandomIVs == 0..1

\* A reply is encrypted under the server key of its request, which is erased.
sgxsd_enclave_server_reply(key, r) ==
  /\ initialized /\ key \in held
  /\ sealed' = sealed \cup {<<instance, key, ReplyIV(r)>>}
  /\ reused' = reused \cup Again("iv", <<instance, key, ReplyIV(r)>>, sealed)
  /\ held' = held \ {key}
  /\ UNCHANGED <<ringVars, nodeVars, randVars, keyVars, callVars, id_ivs>>

\* No reply is sent; the key of the request is erased.
sgxsd_enclave_server_noreply(key) ==
  /\ initialized /\ key \in held
  /\ held' = held \ {key}
  /\ UNCHANGED <<ringVars, nodeVars, randVars, keyVars, callVars, sealed, id_ivs, reused>>

-----------------------------------------------------------------------------
\* Two key pairs of an instance are never made from the same draw, even when
\* the processor repeats its random values and threads draw at the same time.
KeysDistinct == "draw" \notin reused

\* No server key encrypts two texts with the same IV: the response of a
\* negotiation has IV zero, and a request has at most one reply, with a nonzero
\* IV, so that the reply's random IV need not be fresh.
NoIVReuse == "iv" \notin reused

\* Within an instance, what the enclave's own state keeps fresh is never used
\* twice, however its threads interleave: neither the draw behind a key pair
\* nor a pair of server key and IV (sgxsd_enclave_read_rand, negotiate_request,
\* sgxsd_enclave_server_reply).  The IVs of the key that seals ids are outside
\* this: they are fresh as far as the processor's random values are, and so are
\* the draws of different instances.
NothingReused == KeysDistinct /\ NoIVReuse

\* A request is answered at most once: it is held or answered, not both, and
\* is never opened while it is held.
AnsweredOnce ==
  /\ "request" \notin reused
  /\ \A key \in held, r \in RandomIVs : <<instance, key, ReplyIV(r)>> \notin sealed
=============================================================================
