# Verification of the contact discovery service

TLA+ models of the contact discovery service, checked with TLC on small
instances and, where the argument is not about fairness or about what a recursion
computes, proved with TLAPS for every instance.
`PROJECT.json` holds the machine-readable side: which definition stands for
which lines of the source, the runs, the faults every property is tried
against, the findings, the hazards and the theorems.

## The system

A client sends a set of phone numbers, encrypted for an SGX enclave, and learns
which of them are registered. The service around the enclave is Java; native
code in Rust keeps the directory in memory and talks to the enclave; the enclave
is C (`sgxsd-enclave.c`) and Rust (`cds_enclave`).

```
 HTTP threads            enclave threads                 enclave
 getRegisteredContacts   EnclaveThread.run
   | rate limits           | get a batch
   v                       v                server_start/call/stop
 RequestManager.submit -> PendingRequestQueueSet -> SgxEnclave.SgxsdBatch -> sgxsd server
                                                        | borrow               | hash_lookup
                                                        v                      v
 SQS, reconciliation -> DirectoryManager -> DirectoryMap (building | serving tables)
                          | Redis set, pub/sub channel, peer snapshots
```

### Parts, their state and their operations

| Part | State | Operations | Module |
|---|---|---|---|
| Request queues: `RequestManager`, `PendingRequestQueueSet`, `PendingRequestQueue` | a queue per enclave with its `addressCount` and the time of its last get, the futures, four counters | `submit`, `get`, `flushQueues`, `processBatch` | `PendingRequests` |
| Enclave life cycle and batches: `SgxEnclave`, `SgxsdBatch`, `sgx_enclave.rs`, server states in `sgxsd-enclave.c`, `main.rs` | `enclaveState`, `stopped`, the instances, a server state per handle, message tags, response futures | `start`, `stop`, `run`, `killEnclave`, `add`, `process`, `close`; `server_start`, `server_call`, `server_stop` | `SgxEnclave` |
| In-memory hash table: `internal_buffers.rs` | two arrays, `element_count`, `used_slot_count` | `insert`, `remove`, `rehash` | `InternalBuffers` |
| Directory map: `directory_map_native.rs` | the table under construction with its dirty flag, the served table, two locks | `insert`, `remove`, `commit`, `borrow`, `read_from`, `write_to` | `DirectoryMap` |
| Directory replication: `DirectoryManager`, `DirectoryCache`, `DirectoryPeerManager` | Redis set and built mark, channel, a map per node, `peerBuildAttempts` | `addUser`, `removeUser`, rebuild from Redis or from a peer, `processMessage`, reconnection, commit | `Directory` |
| Reconciliation and update queue: `reconcile`, `existsReconcile`, `deletesReconcile`, `DirectoryQueueManager` | Redis users, last reconciled uuid, built mark, map, the queue and the receipts to delete | the three requests and `complete`, `processQueue`, `deleteMessages` | `Reconcile` |
| Handshakes: `SgxHandshakeManager` | the stored quote, the refresh thread, the monitor | refresh in four stages, `getHandshake`, `stop` | `Handshake` |
| Trusted server: `sgxsd-enclave.c` | key pairs, generator state, ring of pending requests, texts sealed | `node_init`, `read_rand`, `get_next_report`, `set_current_quote`, `negotiate_request`, `server_call`, `server_reply`, `server_noreply` | `SgxsdEnclave`, `PendingRing` |
| Boundary of the enclave: `cds_enclave_t.c`, `cds_enclave_u.c` | the marshalling structure, the copies, the OCALL frame | the eight bridges and their proxies, `sgxsd_ocall_reply` | `EcallBridge` |
| Oblivious lookup: `cds-enclave-hash.rs`, `hash_lookup.rs` | chains, results, chunks | `hash_lookup`, `hash_phone`, collection | `HashLookup` |
| Cryptography: BearSSL, curve25519-donna | contexts of GCM, SHA, HMAC; registers and limbs | `br_gcm_*`, CTR, GHASH, AES key schedule and rounds, SHA-1 and SHA-2, HMAC, HKDF rounds, scalar multiplication | `Gcm`, `Ghash`, `Aes`, `Sha`, `ShaRounds`, `Curve25519` |
| Limits: `RateLimiter`, `LeakyBucket`, `RateLimitServiceClient` and its partitioner | a bucket in Redis, host ranges, the futures of the hosts | `validate`, `configToHostRanges`, `lookup`, `attest`, `discoveryAllowed` | `LeakyBucket`, `PhoneLimiter` |

The other parts (authentication, configuration, entities, mappers, metrics,
client, SGX bindings, tests) keep no state that an operation of the system
depends on; `PROJECT.json` lists each with the reason it is left out.

### What makes it hard

* HTTP threads, enclave threads, the flush task and the completion callbacks of
  futures interleave around one monitor and counters that are outside it.
* An enclave may be lost at any call. Whoever notices kills it, another thread
  destroys and replaces it, and batches go on with the handle of a state that the
  new instance has never seen.
* Redis, the channel and the maps of the nodes are changed in separate steps;
  messages are lost with a connection; a map is rebuilt while users change.
* The served table is handed to the enclave as raw pointers while commits swap
  tables.
* Open addressing with tombstones, byte-swapped keys, and truncated load limits.
* Queue messages are repeated and reordered, chunks of a reconciliation are sent
  again while the first copy still runs, and the node may stop between processing
  a message and deleting it.
* A quote is stored before its key is activated, a new report replaces the key of
  the previous one, and threads of the enclave draw from one generator.
* Code that may not branch on its data counts with masks; code that is given data in
  pieces has block boundaries everywhere; 64-bit limbs carry lazily.

## The modules

Every module names its source in its header, and a definition keeps the name of
the code it models where TLA+ allows it. Definitions marked *Mutant* or *Fault*
are deliberate mistakes: each property is tried against one of them and must fail.

**PendingRequests.** A client `r` goes through `submit` in the steps other threads
can see: the load-shedding check (`Shed`, `Admit`), the counters (`Count`), the
queue under the monitor (`Put`), and the registration of the completion callback
(`Register`), which runs at once when the future is complete by then; `Deliver`
resumes the HTTP response. A worker chooses a queue (`Get`: the longest waiting one
if overdue, else one that fills a batch, else the largest), waits (`Wait`), takes
more requests (`TakeNext`) and returns (`GetReturns`); the choice and the first
request are one step of the monitor, the inner loop has its own. `Answer`,
`BatchReturns` and `BatchThrows` are `processBatch` as the futures see it; module
SgxEnclave is the detail. The flush task walks the queues under the monitor
(`FlushRequest`, `FlushQueue`) while batches run. Time is the age of a queue, capped
at `MaxAge`; the processing rate that the load shedding divides by is any of
`Rates`. In `pending_requests` a backlog may take too long and still be too small to be
shed.

**SgxEnclave.** Instances are numbered; `enclaveState` holds the one in use. A call
first reads `enclaveState` and then makes its native call, with anything in between.
`add`, `process` and `close` include the callbacks of the glue: the response future
of a request is completed by a reply, by an error of its call, or by the chain
that `SgxsdBatch` hangs on the batch future. `server[g][t]` is the state that
instance `g` keeps for handle `t`; `handle_call`, `ReplyTo` and `StopEnds` are the
service inside. A request is good, refused by the enclave, or malformed. What the
native calls can fail at is there: the creation of an instance, its `node_init` (the
instance is then abandoned), its destruction, a start without memory, and a stop
that ends before it reaches the server state. `unstopped` is a history variable: the
handles such a stop has left taken.

**InternalBuffers** keeps the table slot by slot; `insert` and `remove` are
sequential because `DirectoryMap` calls them under its mutex. The probe loops are
quantified ("the first slot at which the loop stops"), rehash is one step per slot.
`to_be` is modelled as an involution that moves numbers and fixes the two markers,
so a missing or doubled conversion shows. **PhoneMap** is its abstract
specification: a partial function with the results of `insert` and `remove`.

**DirectoryMap** takes tables by their contents, which `ImplementsMap` justifies,
and has the locks: `commit` holds the mutex over the swap and the copy, borrowers
look at the served table in between. `overwritten` is a history variable: the numbers
that were given a new uuid since the last commit. **SnapshotRegister** is its abstract
specification: updates change `latest`, readers see `published`, a commit makes them
equal, atomically.

**Directory** has nodes that subscribe, rebuild and consume, and threads that run
`addUser` and `removeUser` in the three steps Redis, channel, local map. ZSCAN is one
step per user with the guarantee Redis gives (a user present throughout is
returned). A connection breaks silently, messages are lost until the break is
noticed, and the map is dropped then. The sync token of a snapshot travels
through the channel.

**Reconcile** has the accounts of the Signal service as the truth and two ways they
reach Redis and the map of one node. The queue delivers at least once and in any
order; the consumer deletes the receipts of its last pass, receives and processes,
and may crash between any two of these. Reconciliation requests are handled by
threads in the steps of the code (`CheckChunk`, `Compare`, one step per user removed
or added, `FinishChunk`), so two of them interleave when the service repeats a chunk
it has waited for too long. The last chunk drops the place of the pass and sets the
built mark in two steps. The connection may be lost, which drops the map, and comes
back with a map only if Redis has the built mark. Redis may lose its data, with its
connections or between two requests, and a deletion may fail. `covered` is a history
variable: the uuids reconciled since Redis was empty. Redis and map change together
here; their interleaving is what `Directory` is about.

**PendingRing** is the table of pending requests with the ids it gave out and the
keys negotiated for them as history. **OneTimeTickets** is its abstract
specification. **SgxsdEnclave** extends it with the rest of `sgxsd-enclave.c`: a
thread inside an ECALL takes one step per critical section. Cryptographic values are
names of what they were made from. Draws from the generator are numbered within an
instance; the processor's random values, the IVs of the id key among them, may repeat.
**Handshake** composes it with `SgxHandshakeManager`: the refresher's stages, the
monitor held over reading a quote and negotiating, loss and restart of the instance,
and Intel's service as a step that signs, fails or reports a stale list. A list that is
stale or missing (a new instance may report another group) is fetched again, which may
fail, and the loop makes another pass.

**EcallBridge** follows one thread through a generated bridge. Each bridge is given by
the kinds of its buffers (input, output, input of a given size, and the output of
`ratelimit_fingerprint`, declared without a size); allocation, copying and entry may
fail at each buffer, and the structure in the host's memory may change meanwhile.
Sizes wrap at `2^Width`.

**HashLookup** builds a chain per slot with the masks of the code, passes over the
directory and collects, chunk by chunk; the keyed hash is any function. The property
says nothing about the number 0, which is also what the dummy lanes hold.

**Gcm** and **Sha** keep everything about lengths, buffers, counters and padding, and
treat the block functions as symbols: a byte is the set of the symbols whose exclusive
or it is, so it shows where it came from. **Ghash**, **Aes**, **ShaRounds** and
**Curve25519** are the block functions at their real width, one step per round, block,
or bit of the scalar, against the published definition (Horner's rule, FIPS 197, FIPS 180-4,
RFC 7748) and its published example. **Bits** and **BigNat** are the words and numbers TLC's
integers are too small for.

**LeakyBucket** splits `validate` into reading, adding and writing back, by requests
on any node. The time a refused client is told is cut to milliseconds in the exception
and to seconds in the header, as in the code. **PhoneLimiter** has the partition of the
hash range and the futures of several hosts, in any order, up to the resumption of the
response.

## The runs

| Run | Instance | What it shows |
|---|---|---|
| `pending_requests` | 3 clients of one of 2 enclaves, 2 workers, flush at any time (880 k states, workers symmetric) | no request is lost or duplicated, batches are cut at the target size and in the order of the puts, `addressCount` and the counters are exact, a request is flushed or processed and never both |
| `pending_requests_live` | 2 clients of 2 enclaves that come back for ever, 2 workers, flush at any time (78 k states) | no worker sleeps while a queue has a request; every request is answered, although the other queue is always full |
| `flush_report` | the same module | *violated*: the flush task prints the number of phone numbers as a number of requests |
| `service` | table: 4 numbers, 2 uuids, 3 slots growing to 5 as the code grows, load factors 0.75/0.85; map: 2 numbers, 2 uuids, 2 committers, 2 borrowers, complete and truncated snapshots; bucket of 2 at 2/3 per tick, 2 requests; all configurations of up to two ranges over 6 hashes, 3 hosts (240 k states) | the table implements a map and stays sound; the served table implements a register with atomic publication and is current for borrowers, overwritten uuids apart; a bucket grants no more than its rate and a refusal lasts no longer than the client was told, up to the truncation; accepted partitions cover every hash once; the first normal answer decides, once |
| `directory` | 2 nodes of which one loads from the other, 2 threads, 2 updates, 1 break, user set built or not (224 k states) | a map built from Redis agrees with Redis on every number at rest; every node ends with a map and serves the updates it has applied, and exactly the registered numbers if it built the map from Redis |
| `directory_snapshot` | one update, no break | *violated*: a map loaded from a peer agrees with Redis |
| `directory_overlap` | two overlapping updates of one number | *violated*: a map built from Redis agrees with Redis |
| `enclave` | 1 enclave thread, 1 other caller, 3 instances, 3 batches of three requests or a malformed one (63 k states) | every request is answered, by its own numbers in the served directory; the server state is released unless the stop failed on its way there; tags and held requests match; a killed instance is destroyed and replaced |
| `enclave_code` | the modules of the code inside the enclave, one moving at a time (25 k states) | sealing, digests, MACs and key derivation do not depend on how data is cut and use no key stream twice; the primitives agree with their standards; bridges are sound; the ring implements one-time tickets; the lookup is exact while its chains have room |
| `hash_overflow` | chains of the real size, up to 13 numbers | *violated*: the lookup is exact |
| `handshake` | 2 clients, the refresher, 2 instances, a ring of one place; 2 passes of the refresh loop with 2 handshakes and 2 requests, or 4 passes with one handshake (695 k states) | a client's quote is of the key it negotiated with; an activated quote stays current; no draw is used twice, nor an IV with the key of a request; a request is answered at most once; a mismatch is repaired by a pass that ends well |
| `reconcile` | 2 uuids, 2 numbers, 2 request threads, 2 changes of accounts, 2 failures, 3 of these together (310 k states) | no message is lost; the built mark means that everything was covered; Redis ends with the accounts and the set gets built, as long as the node has a map |

`service` and `enclave_code` put modules that share no state into one run: in a
behaviour one of them moves and the others keep an initial state.

Several properties are conjunctions of related claims, each defined and commented
in its module: `BookkeepingExact`, `TableSound`, `ServedIsCurrent`, `NothingLeftBehind`,
`NothingReused`, `SealingIsExact`, `DigestsAreExact`, `PrimitivesMatchStandards`,
`CurveIsExact`, `BridgeSound`, `LookupSound`.

### Bounds

* Requests: three are enough for every pair of positions in a queue and for a batch
  that takes two and leaves one. Two workers are enough to race for the monitor;
  clients return to idle, so behaviours are infinite. Liveness is checked with two
  clients, one per enclave: one that fills a batch alone keeps its queue preferred, and
  the other is the one that could starve. That instance never has two requests in one
  queue: what a batch leaves behind is covered by the safety run (`FirstInFirstOut`,
  `PendingIsHeld`) and, for any number of requests, by the theorem `NoLostWakeup`, not
  by `EveryRequestAnswered`.
* Directory: the code treats every number by itself, so one number is enough.
  `MaxUpdates` and `MaxBreaks` bound the environment only. `Overlapping = FALSE` is an
  assumption on the callers (no two updates of one number at once), which the code
  does not enforce; `directory_overlap` shows what happens without it.
* InternalBuffers: the numbers collide in tables of three, four and five slots, and
  wrap around the end; the capacity changes between runs of rehash, both with and
  without growth.
* SgxEnclave: threads meet only through kills and restarts, so one thread and one
  other caller that finds the enclave dead make every interference that two threads
  make. Three instances allow a kill by an error that belongs to a former one, and a
  handle that stays taken in one instance and is free in the next.
* Reconcile: two uuids make a first, a middle and a last boundary of a chunk, two
  numbers let a number change hands, two threads let a repeated chunk run beside its
  first copy. Changes and failures are bounded (`MaxChanges`, `MaxFaults`, and
  `MaxEvents` for both), because `Converges` is about what happens once they end; two
  failures let Redis lose its data and the channel break. `BuiltAtStart` is true: without
  a first set there is no map, and `addUser` needs one. For the same reason `Converges`
  and `SetGetsBuilt` have a hypothesis: the built mark stays, or the node has a map from
  some time on.
* Handshake: a ring of one place overwrites at the second negotiation; two instances
  and two passes allow a quote of the former instance and of a replaced key. Each
  behaviour has one of the two combinations of `Limits`: two clients that race the
  refresh thread, or a longer life of that thread, in which a list can be missing, be
  fetched, turn stale and be fetched again. With `MaxDraws` at six every thread finds a
  draw. That `Restart` may follow a start that failed is more than `SgxEnclave.run` does
  (it stops); the bound of two instances excludes it from the run, and the theorems do
  not need to.
* Gcm and Sha: blocks of two and four bytes with data up to several blocks, and
  counters that wrap, give every position of a piece against a block boundary. The
  arithmetic modules run at full width on the published example and on extreme inputs;
  they take no data whose length matters except Ghash, whose pieces lie on both sides
  of one block, of four, and of the tail.
* HashLookup: all functions from four numbers to two slots, batches with repetitions,
  a second chunk, and free and deleted entries in the directory.
* LeakyBucket: a rate that is not a whole number per tick and time for a bucket to
  expire.

### Fairness

`PendingRequests`: enclave threads inside `get` and `processBatch` keep running (weak
fairness, so nothing is assumed about the order in which the monitor is granted), an
ecall returns, a flush that began goes on, time passes. Nobody has to send, to finish
sending, or to flush. `Directory`: a call that has begun goes on, the consumer thread runs, commit is
scheduled every 30 s, a wait for a sync token times out. Breaks, failures of a
snapshot and updates are never required. `SgxEnclave`: the service calls `start` and
the thread of `SgxEnclave.run` keeps running; losses are not required. `Reconcile`: the
service goes on sending chunks, as its periodic job does, a request that was accepted
and the consumer go on, and a lost connection is established again. `Handshake`: the
refresher and threads inside the enclave go on and a handshake that began ends; nothing
is assumed about success, so `MismatchIsRepaired` allows that even the last pass the
bound admits fails, or has a new instance loaded under it.

## What is proved

The theorems hold for every value of the constants that satisfies the named assumptions
of the module they are about. TLC evaluates those assumptions in the runs, and the
inductive invariants were model-checked before they were proved. Of the forty properties
of the passing runs, twenty-eight are theorems.

| Module of proofs | Theorem | Property |
|---|---|---|
| `PendingRequestsProofs` | `TypeCorrect` | `TypeOK` |
| | `NoRequestIsLost` | `PendingIsHeld` |
| | `NoRequestIsDuplicated` | `HeldOnce` |
| | `NoLostWakeup` | `WaitersOnlyWhenEmpty` |
| | `BatchBounded` | `BatchWithinTarget` |
| | `FlushedOrProcessedTheorem` | `FlushedOrProcessed` |
| | `BookkeepingTheorem` | `BookkeepingExact` |
| | `FirstInFirstOutTheorem` | `FirstInFirstOut` |
| `SgxEnclaveProofs` | `AllAnsweredTheorem` | `AllAnswered` |
| | `AnswersRightTheorem` | `AnswersRight` |
| | `NothingLeftBehindTheorem` | `NothingLeftBehind` |
| `TableProofs` | `TableSoundTheorem` | `TableSound` |
| | `TableImplementsMap` | `ImplementsMap` (refines `PhoneMap`) |
| `ServiceProofs` | `ServedIsCurrentTheorem` | `ServedIsCurrent` |
| | `MapImplementsRegister` | `ImplementsRegister` (refines `SnapshotRegister`) |
| | `GrantsWithinRateTheorem` | `GrantsWithinRate` |
| | `RetryIsHonouredTheorem` | `RetryIsHonoured` |
| | `FirstNormalWinsTheorem` | `FirstNormalWins` |
| | `PartitionCoversTheorem` | `PartitionCovers` |
| `HandshakeProofs` | `OwnKeyTheorem` | `FindsOwnKey` |
| | `UsedOnceTheorem`, `KeptForSizeTheorem` | `UsedOnce`, `KeptForSize` of `PendingRing` |
| | `RingImplementsTickets` | `ImplementsTickets` (refines `OneTimeTickets`) |
| | `NothingReusedTheorem` | `NothingReused` |
| | `AnsweredOnceTheorem` | `AnsweredOnce` |
| | `QuoteMatchesKeyTheorem` | `QuoteMatchesKey` |
| | `StoredQuoteTheorem` | `StoredQuoteIsCurrent` |
| `DirectoryProofs` | `RedisBuiltAgreesTheorem` | `RedisBuiltAgrees` |
| `BridgeProofs` | `BridgeSoundTheorem` | `BridgeSound` |
| `ReconcileProofs` | `TypeCorrect` | `TypeOK` |
| | `MessagesKept` | `NoMessageLost` |
| | `BuiltIsCovered` | `BuiltMeansCovered` |

**Request queues** (`RequestAssumption`: requests have a positive size and a known
enclave; `BoundAssumption`: the limits are natural numbers). `PendingIsHeld` and `HeldOnce`
are not inductive: that a flush fails a request once, or that a client may come back,
depends on what a place says about its request. The invariant `Placement` adds
`QueuedIsPending` (a queued request belongs to this queue's enclave, is not completed, and
its client is in flight) and `BatchedIsOutstanding` (a request in a batch belongs to a
client in flight and has a future). Each action that moves a request has a lemma of its
own. `BatchBounded` needs that a worker who asks for work holds none (`IdleHoldsNothing`),
`FlushedOrProcessed` that a flush, which completes queued requests only, meets none that a
worker holds (`HeldOnce`). `BookkeepingExact` is about sums. A sum is written as the
cardinality of a set of pairs (`Total`), so that adding and taking a request are facts
about finite sets and not an induction. Its invariant adds that finitely many requests are
in flight and that a request that was put has a future, so its callback runs once.

**Batches in the enclave** (`BatchAssumption`: batches are not empty, their requests have
numbers). The invariant follows a request through the places it can be in. `DescOK` says of
the server state of a thread that it holds each accepted request once and with its tag, and
`PhonesOK` that their numbers stand one after the other in `query_phones`; cutting the results by the counts
therefore gives each request its own. `ServerInv` says which instances can have
a state for a thread: the id a thread has read may be of an instance that was replaced
since, and no other thread uses its handle. `StuckInv` is about the handles a failed stop
has left taken: their thread gets no further than the start of a batch in that instance,
so no batch ever meets the state of an earlier one. `ResponsesOK` says what a response can be at
each place of `processBatch`. The offset of a request is again the cardinality of a set.

**Table** (`KeyAssumption`: the markers are no keys; `LoadAssumption`: a full table of the
starting capacity grows). `Sound` is what makes searches right: no free slot between the
place a number hashes to and the slot it is in, and no number twice. `RehashInv` relates
the half-built table of a rehash to the old one, and bounds its load, so that
`add_to_buffer` finds room at every slot of the loop. The refinement maps the table to the
pairs in its live slots; a rehash changes nothing there.

**Directory map** (`MapAssumption`). The mutex is held from the start of `commit` to its end
(`HolderInv`), so nothing changes the building table between the swap and the copy. The
register's latest value is the served table in that window and the building table otherwise.
Outside it a clear dirty flag means that the two tables differ at most in the uuids of
`overwritten` numbers.

**Limits** (`LimitAssumption`: size and rate are positive; `PhoneAssumption`). `LimitInv`
compares the bucket in Redis, or on its way there, with an ideal one that never rounds and
never expires: the rounding is downwards, and Redis drops a bucket only when it would be
full (`ExpiryInv`). That a refusal lasts no longer than announced then needs the
truncated quotient only (`TruncatedRetry`). `PartitionCovers` is about any list of
ranges: sorted ranges that touch cover the hashes, and the search by the ends finds the range a hash lies in. `FirstNormalWins`
needs that the decision is open exactly while no answer is normal and one is missing.

**Ring and handshakes** (`OrderAssumption`, `EnclaveAssumption`: a thread is a client or the
refresher; secrets are made from a client's key and two drawn keys). `RingInv`
says where entries are: an entry that is not empty has an id among the last `Size`, sits in
the slot of that id, holds the key negotiated for it and was not used. That two ids of one
slot differ by at least `Size` is a lemma about `%`. `EnclaveInv` adds that the keys threads
carry were drawn and are different, `SealInv` that what is sealed and held belongs to
negotiations, one per secret, and `QuoteInv` that the monitor keeps what a
negotiation has read true until it ends. The three are inductive together. `NothingReused`
is about one instance and about the keys of requests: that two instances draw different
numbers, and that the id key's IVs differ, rests on the processor's random numbers.

**Replication** (`DirectoryAssumption`: users are pairs of an account and a number, every
thread has a node and every node a peer or itself). The theorem has two hypotheses, which
the run makes too: updates of one number do not overlap (`~Overlapping`; without it
`directory_overlap` has a counterexample) and a number has one account (`OneAccount`; a
REMOVED message carries the number only). The invariant is about a node and a number. While
the subscription lives and no call stands between Redis and the channel, the last message
about the number that waits says what Redis holds (`MailRight`). When none waits, a map
whose scan has passed the number, or that was built from Redis, holds what Redis holds
(`MapRight`). Three facts make this inductive. A call past Redis has brought Redis to what
it says, since no other call is about the number (`CallsOK`). Only a running consumer has a
map, and a call applies its update only to the map it took (`CurrentOK`). A number the scan
has not passed is not in the map (`ScanOK`). Queues are reasoned about by two lemmas, one
for a message at the tail and one for a message taken from the head.

**Bridges** (`BridgeAssumption`: structures and calls fit the width). `BridgeInv` says at each
place of a bridge which buffers have a copy and of which size, that the size
was read once, and what memory an OCALL has. Of the result of `ratelimit_fingerprint` it
says that the copy is one byte, whatever size is passed on.

**Reconciliation** (`SizeAssumption`, `StartAssumption`). A message is lost only if it is
deleted without having been processed, so `QueueInv` adds that receipts are of processed
messages. `CoverInv` adds that everything up to the last reconciled uuid is covered, and
everything up to the start of a chunk that was let through: the check of a chunk and its
end are separate steps, and another request may move the last uuid in between. A thread
between dropping the place of the pass and setting the mark has everything covered but its
own chunk.

Only model-checked:

* liveness (`EveryRequestAnswered`, `EventuallyConsistent`, `KilledIsDestroyed`,
  `KilledIsReplaced`, `MismatchIsRepaired`, `Converges`, `SetGetsBuilt`): fairness and
  ENABLED are outside the proof system;
* what recursive definitions compute (`SealingIsExact`, `DigestsAreExact`,
  `PrimitivesMatchStandards`, `CurveIsExact`, and `LookupSound`, whose chains are built by
  recursion over a list): the provers here have no induction over data.

## Findings

* The flush task reports phone numbers as requests (`flush_report`).
* A peer's snapshot is taken from the served table, which lacks the updates since the
  last commit, and nothing repairs the map built from it (`directory_snapshot`).
* An addition and a removal of one number that overlap may leave a map different from
  Redis for good (`directory_overlap`).
* A chain of the lookup has twelve usable places, because lane 0 of each of its four
  blocks is a dummy, but the rebuild is triggered above sixteen numbers: with thirteen
  to sixteen different numbers in a slot the later ones are answered as not
  registered (`hash_overflow`). With a random key and a full table the probability is
  about 5e-7.

### Observations

What modelling showed and no run states as a violation:

* A REMOVED message carries the number only. When a number has moved to a new account
  and the removal of the old one comes late, the map loses the new entry until it is
  added again or the map is rebuilt; Redis keeps the pair and is not affected.
* After a restart of the instance, or when `setCurrentQuote` fails after the quote was
  stored, clients are given a quote that does not match until the next refresh (at most
  a minute). `QuoteMatchesKey` is therefore about quotes that were activated.
* A stop that fails before it reaches the server state (no memory in the bridge,
  `cds_enclave_t.c`; serving buffers of different length, `server_stop` in
  `sgx_enclave.rs`) is not repeated, because `process` sets `processed` first. The
  handle stays taken, and every later batch of the thread fails with
  `SGX_ERROR_INVALID_STATE`, its requests answered with an error, until the instance is
  replaced.
* An instance whose `node_init` fails is never destroyed: `enclave_start` returns the
  error, and `SgxEnclave.run` stops.
* A node that connects to a Redis without the built mark gets no map and does not ask
  again while the connection holds; `addUser`, `removeUser` and the chunks of a
  reconciliation need a map, so such a node cannot build the set itself.
* `insert` does not set the dirty flag for a number that is mapped already: a new uuid is
  served only after some other change is committed.
* `Retry-After` is the announced time cut to whole seconds, and may be zero: a client that
  keeps to it may be refused again, for less than a second.
* `validate` is not atomic: overlapping requests of one user may spend the same space.
  `GrantsWithinRate` is about requests that do not overlap. An amount above the
  size of the bucket is refused for ever, with a retry time.
* When every host of the phone limiter fails, the response is never resumed by
  `getRegisteredContacts`. A limiter that always allows is wired in only when no rate
  limit service is configured.
* `complete` of the v3 endpoint sets the built mark on the service's word.
* The comment of `fmul` allows limbs below 2^55; the carries need less, and the
  callers stay below 1.125 * 2^54.
* The bridge of `ratelimit_fingerprint` declares the result without a size: it makes
  one byte for it and passes on the size the host gives. It also passes seven
  arguments where `sgxsd-enclave.c` defines nine. Nothing calls it.
* `server_stop` zeroes the descriptor, lock included, while it holds the lock; only one
  thread uses a handle.

## Not modelled

* The processor's instructions (AES rounds, carry-less multiplication, random numbers)
  and the SGX runtime are external: they appear as operators or steps with their
  documented effect.
* Attestation signatures, certificates and the HTTP exchanges of `IntelClient` and
  `RateLimitServiceClient`: one step that succeeds or fails.
* That cryptography hides anything: the models are about which key, counter or IV is used
  where, not about secrecy; nor is constant-time behaviour modelled.
* Byte layouts of snapshots and messages, JSON and metrics; parsing of queue messages
  (one that does not parse is dropped with its receipt) and of addresses.
* Authentication, configuration, entities, the other exception mappers, the command-line client:
  stateless.
* Keep-alives of the channel: a broken connection may be noticed at any time instead.
  Failures of a Redis command between the steps of an update are modelled as the crash
  in `Reconcile` for one node, not for several.
* The switch that turns reconciliation off, which answers OK and does nothing.
* Memory safety of the Rust bindings, the enclave's allocator, garbage collection of
  native maps, memory ordering below the language's locks and atomics.
* `sgxsd_enclave_ratelimit_fingerprint`, which no host code calls.
* Most C lines of the repository are third-party headers and test code that the enclave
  does not build or that declare what is unused: the BearSSL headers (TLS, X.509, RSA,
  block ciphers), `cttk.h`, `cmockery.c`, `sgxsd-enclave-test.c`, and the part of
  `sha2small.c` under `#if 0`. They hold no behaviour of the service, so the share of
  source lines that definitions stand for remains small although the functions that
  run are modelled.
