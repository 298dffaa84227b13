----------------------------- MODULE HashLookup -----------------------------
(***************************************************************************)
(* The lookup of a batch of numbers in the directory                       *)
(* (cds-enclave-hash.rs, called through ffi/hash_lookup.rs for each chunk  *)
(* of the batch in terminate).  It may not branch on the numbers, so it    *)
(* puts them into a hash table of chains, passes once over the directory   *)
(* and writes uuids beside the numbers it finds, and then collects the     *)
(* results of each number from all slots.                                  *)
(*                                                                         *)
(* A chain has ChainBlocks vectors of BlockPhones lanes.  Lane 0 of each   *)
(* is a dummy that is written for every number of the directory.  A uuid   *)
(* is the set of its bits.  The keyed hash (AES with a random key) is an   *)
(* arbitrary function of the number.                                       *)
(***************************************************************************)
EXTENDS Integers, Sequences, FiniteSets

CONSTANTS
  ChainBlocks, BlockPhones, \* CHAIN_BLOCK_COUNT, CHAIN_BLOCK_PHONE_COUNT
  MaxTable,     \* MAX_HASH_TABLE_SIZE
  MaxTries,     \* 128, tables built before the lookup is given up
  Invalid,      \* UINT64_MAX, no number
  UuidBits,
  HashFns,      \* hash functions: number -> natural
  Batches,      \* batches of numbers to look up
  Directories   \* sequences of <<number, uuid>>

Places == (0..ChainBlocks - 1) \X (0..BlockPhones - 1)
Lane(p) == p[2]
CHAIN_PHONE_COUNT == ChainBlocks * BlockPhones

VARIABLES
  query_phones, in_phones,
  hash,         \* hash function of this table
  hash_slots,   \* slots built so far
  results,      \* slot -> place -> uuid: hash_slot_results
  overflowed,   \* any_hash_slots_overflowed
  phase,
  passed,       \* numbers of the directory passed
  tries,        \* tables built for this chunk
  answers,      \* uuids found for the first numbers of the batch
  fitted        \* history: no table collected from had too many numbers in a slot

lookupVars == <<query_phones, in_phones, hash, hash_slots, results, overflowed, phase, passed, tries, answers, fitted>>

LookupInit ==
  /\ query_phones \in Batches /\ in_phones \in Directories
  /\ hash = CHOOSE h \in HashFns : TRUE
  /\ hash_slots = <<>> /\ results = <<>> /\ overflowed = FALSE
  /\ phase = "chunk" /\ passed = 0 /\ tries = 0 /\ answers = <<>> /\ fitted = TRUE

\* The chunk that is looked up now.
Smaller(a, b) == IF a < b THEN a ELSE b
ab_phones == SubSeq(query_phones, Len(answers) + 1, Smaller(Len(query_phones), Len(answers) + MaxTable))

\* Its length rounded up to a power of two.
Orders == 0..Len(query_phones)
SlotCount == LET order == CHOOSE n \in Orders : 2^n >= Len(ab_phones) /\ \A m \in Orders : m < n => 2^m < Len(ab_phones)
             IN  2^order

SlotOf(phone) == hash[phone] % SlotCount

\* A slot with more different numbers than its chain has places, dummies left out.
Crowded(slot) ==
  Cardinality({ab_phones[i] : i \in {j \in DOMAIN ab_phones : SlotOf(ab_phones[j]) = slot}} \ {0})
    > ChainBlocks * (BlockPhones - 1)

-----------------------------------------------------------------------------
(* The chain of a slot.  Its masks count up with every number inserted; a  *)
(* lane takes every number that is processed until its mask is not         *)
(* negative any more.                                                      *)

EmptyChain ==
  [phones |-> [p \in Places |-> 0],
   mask |-> [p \in Places |-> IF Lane(p) = 0 THEN 0 ELSE -(p[1] * (BlockPhones - 1) + BlockPhones - Lane(p))],
   idx |-> 0]

Blend(chain, phone) == [p \in Places |-> IF chain.mask[p] < 0 THEN phone ELSE chain.phones[p]]

ShouldInsert(chain, slot, phone) == SlotOf(phone) = slot /\ \A p \in Places : chain.phones[p] # phone

\* Mutant: the masks count before the number is written.
ProcessCounting(chain, slot, phone) ==
  LET n == IF ShouldInsert(chain, slot, phone) THEN 1 ELSE 0
      counted == [chain EXCEPT !.mask = [p \in Places |-> @[p] + n], !.idx = @ + n]
  IN  [counted EXCEPT !.phones = Blend(counted, phone)]

Process(chain, slot, phone) ==
  LET n == IF ShouldInsert(chain, slot, phone) THEN 1 ELSE 0
  IN  [phones |-> Blend(chain, phone), mask |-> [p \in Places |-> chain.mask[p] + n], idx |-> chain.idx + n]

ChainOf(slot) ==
  LET after[n \in 0..Len(ab_phones)] ==
        IF n = 0 THEN EmptyChain ELSE Process(after[n - 1], slot, ab_phones[n])
  IN  after[Len(ab_phones)]

Overflows(chain) == chain.idx > CHAIN_PHONE_COUNT

-----------------------------------------------------------------------------
Fail(error) == phase' = error /\ UNCHANGED <<hash, hash_slots, results, overflowed, passed, tries, answers, fitted>>

\* hash_lookup for the next chunk, or the end of them.
StartChunk ==
  /\ phase = "chunk"
  /\ IF ab_phones = <<>>
       THEN Fail("done")
       ELSE /\ phase' = "key" /\ tries' = 0
            /\ results' = [s \in 1..SlotCount |-> [p \in Places |-> {}]]
            /\ UNCHANGED <<hash, hash_slots, overflowed, passed, answers, fitted>>
  /\ UNCHANGED <<query_phones, in_phones>>

\* cds_hash_lookup with a new random key, unless there is no randomness or
\* there were too many tries.
GenerateKey ==
  /\ phase = "key"
  /\ \/ Fail("SGX_ERROR_UNEXPECTED")
     \/ /\ tries < MaxTries
        /\ tries' = tries + 1
        /\ hash' \in HashFns
        /\ hash_slots' = <<>> /\ overflowed' = FALSE /\ passed' = 0
        /\ phase' = "build"
        /\ UNCHANGED <<results, answers, fitted>>
  /\ UNCHANGED <<query_phones, in_phones>>

\* One slot; after the last one an overflow starts over.
BuildSlot ==
  /\ phase = "build"
  /\ LET chain == ChainOf(Len(hash_slots))
         last == Len(hash_slots) + 1 = SlotCount
     IN  /\ hash_slots' = Append(hash_slots, Blend(chain, Invalid))
         /\ overflowed' = (overflowed \/ Overflows(chain))
         /\ phase' = CASE ~last -> "build" [] last /\ overflowed' -> "key" [] OTHER -> "pass"
  /\ UNCHANGED <<query_phones, in_phones, hash, results, passed, tries, answers, fitted>>

\* One number of the directory: its uuid into the places of its slot that have
\* it; the dummies of the slot are flipped.
hash_phone ==
  /\ phase = "pass" /\ passed < Len(in_phones)
  /\ LET phone == in_phones[passed + 1][1]
         uuid == in_phones[passed + 1][2]
         s == SlotOf(phone) + 1
         Written(p) ==
           CASE hash_slots[s][p] = (IF Lane(p) = 0 THEN Invalid ELSE phone) -> uuid
             [] Lane(p) = 0 -> UuidBits \ results[s][p]
             [] OTHER -> results[s][p]
     IN  results' = [results EXCEPT ![s] = [p \in Places |-> Written(p)]]
  /\ passed' = passed + 1
  /\ UNCHANGED <<query_phones, in_phones, hash, hash_slots, overflowed, phase, tries, answers, fitted>>

\* What the slots have for a number; a dummy counts as number 0.
Collected(phone) ==
  UNION {results[s][p] : <<s, p>> \in
           {x \in (1..SlotCount) \X Places :
              phone = IF Lane(x[2]) = 0 THEN 0 ELSE hash_slots[x[1]][x[2]]}}

\* The results of the chunk; the tables are erased.
Collect ==
  /\ phase = "pass" /\ passed = Len(in_phones)
  /\ answers' = answers \o [i \in 1..Len(ab_phones) |-> Collected(ab_phones[i])]
  /\ results' = [s \in 1..SlotCount |-> [p \in Places |-> IF Lane(p) = 0 THEN UuidBits \ results[s][p] ELSE {}]]
  /\ hash_slots' = [s \in 1..SlotCount |-> [p \in Places |-> 0]]
  /\ phase' = "chunk"
  /\ fitted' = (fitted /\ \A s \in 0..SlotCount - 1 : ~Crowded(s))
  /\ UNCHANGED <<query_phones, in_phones, hash, overflowed, passed, tries>>

LookupNext == StartChunk \/ GenerateKey \/ BuildSlot \/ hash_phone \/ Collect

LookupSpec == LookupInit /\ [][LookupNext]_lookupVars

-----------------------------------------------------------------------------
Registered(phone) == UNION {in_phones[i][2] : i \in {j \in DOMAIN in_phones : in_phones[j][1] = phone}}

\* A table that is not rebuilt finds every number (hash_lookup: "trigger a hash
\* table rebuild if too many ab phones hashed to this slot"): every answer but
\* that for number 0 is the uuid in the directory.
LookupIsExact ==
  \A i \in DOMAIN answers : query_phones[i] # 0 => answers[i] = Registered(query_phones[i])

\* While no slot has more different numbers than its chain has places, every
\* answer is exact and at the place of its number: repeated numbers, numbers
\* of other slots, free and deleted entries of the directory, earlier tables
\* and other chunks leave no trace.
ExactWhenChainsFit ==
  /\ fitted => LookupIsExact
  /\ phase = "done" => Len(answers) = Len(query_phones)

\* A table is rebuilt only when some slot has more different numbers than
\* places: repeated numbers do not fill a chain.
OverflowMeansFull == overflowed => \E s \in 0..SlotCount - 1 : Crowded(s)

\* The lookup is exact while its chains have room and rebuilds only when they
\* have none (hash_lookup, hash_phone, hash_slot_collect_result).
LookupSound == ExactWhenChainsFit /\ OverflowMeansFull
=============================================================================
