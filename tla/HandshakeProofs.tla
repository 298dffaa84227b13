--------------------------- MODULE HandshakeProofs ---------------------------
(***************************************************************************)
(* Proofs about the table of pending requests, for every table order and   *)
(* every number of negotiations, and about the enclave's keys and the      *)
(* handshakes over it, for every number of clients, draws, instances,      *)
(* refreshes and requests.                                                 *)
(***************************************************************************)
EXTENDS Handshake, TLAPS

(* The table of pending requests.                                          *)

\* Division with remainder, as the slot computation uses it.
LEMMA DivMod == \A a \in Nat, n \in Nat \ {0} : a = n * (a \div n) + (a % n)
  OBVIOUS

\* Two ids less than Size apart never share a slot, so a negotiation only
\* overwrites the entry of the id Size before its own.
LEMMA SlotsDiffer ==
  ASSUME NEW a \in Nat, NEW b \in Nat, b < a, a - b < Size
  PROVE  Slot(a) # Slot(b)
<1> DEFINE n == Size
           p == a \div n
           q == b \div n
           r == a % n
<1>0. n \in Nat \ {0}
  BY OrderAssumption, Zenon
<1> HIDE DEF n
<1>1. p \in Int /\ q \in Int /\ r \in Int
  BY <1>0 DEF p, q, r
<1>2. a = n * p + (a % n) /\ b = n * q + (b % n)
  BY <1>0, DivMod, Zenon DEF p, q
<1>3. SUFFICES ASSUME a % n = b % n PROVE FALSE
  BY Zenon DEF Slot, n
<1>4. a - b = n * (p - q)
  BY <1>0, <1>1, <1>2, <1>3
<1>5. a - b < n
  BY Zenon DEF n
<1> HIDE DEF p, q
<1>6. CASE p - q >= 1
  BY <1>0, <1>1, <1>4, <1>5, <1>6
<1>7. CASE p - q <= 0
  BY <1>0, <1>1, <1>4, <1>5, <1>7
<1> QED
  BY <1>1, <1>6, <1>7

\* An id and the one Size before it share their slot.
LEMMA SlotRepeats ==
  ASSUME NEW a \in Nat, a >= Size
  PROVE  Slot(a - Size) = Slot(a)
<1> DEFINE n == Size
           b == a - n
           p == a \div n
           q == b \div n
<1>0. n \in Nat \ {0}
  BY OrderAssumption, Zenon
<1>1. a >= n
  BY Zenon
<1> HIDE DEF n
<1>2. b \in Nat
  BY <1>0, <1>1
<1>3. a = n * p + (a % n) /\ b = n * q + (b % n)
  BY <1>0, <1>2, DivMod, Zenon DEF p, q
<1>4. a % n \in 0..(n - 1) /\ b % n \in 0..(n - 1) /\ p \in Int /\ q \in Int
  BY <1>0, <1>2
<1>5. a - b = n
  BY <1>0
<1> DEFINE k == p - 1 - q
           d == (b % n) - (a % n)
<1> HIDE DEF p, q, b
<1>6. n * k = d
  BY <1>0, <1>2, <1>3, <1>4, <1>5
<1>7. k \in Int /\ d \in Int /\ d < n /\ d > -n
  BY <1>0, <1>4
<1> HIDE DEF k, d
<1>8. CASE k >= 1
  BY <1>0, <1>6, <1>7, <1>8
<1>9. CASE k <= -1
  BY <1>0, <1>6, <1>7, <1>9
<1>10. CASE k = 0
  <2>1. d = 0
    BY <1>0, <1>6, <1>10
  <2>2. b % n = a % n
    BY <1>4, <2>1 DEF d
  <2> QED
    BY <2>2, Zenon DEF Slot, b, n
<1> QED
  BY <1>7, <1>8, <1>9, <1>10

\* Every id has a slot of the table.
LEMMA SlotInTable == ASSUME NEW id \in Nat PROVE Slot(id) \in 0..(Size - 1)
<1> DEFINE n == Size
<1>1. n \in Nat \ {0}
  BY OrderAssumption, Zenon
<1> HIDE DEF n
<1>2. id % n \in 0..(n - 1)
  BY <1>1
<1> QED
  BY <1>2, Zenon DEF Slot, n

\* The empty table satisfies the invariant.
LEMMA RingInitInv == RingInit => RingInv
<1> SUFFICES ASSUME RingInit PROVE RingInv
  BY Zenon
<1>1. Ids = {}
  BY DEF RingInit, Ids
<1>2. RingTypeOK
  BY <1>1, Zenon DEF RingInit, RingTypeOK, Zeroed
<1>3. EntriesPlaced /\ KeptForSize
  BY <1>1, Zenon DEF RingInit, EntriesPlaced, KeptForSize, Zeroed
<1> QED
  BY <1>2, <1>3, Zenon DEF RingInv

\* A negotiation keeps the invariant: it overwrites one slot, and the entry it
\* destroys is Size or more negotiations old.
LEMMA AddKeepsInv ==
  ASSUME RingInv, NEW prk \in Prks, add_pending_request(prk)
  PROVE  RingInv'
<1> DEFINE last == last_pending_request_id_val
           id == last + 1
           entry == [id_val |-> id, hkdf_prk |-> prk]
<1>1. /\ last \in Nat
      /\ pending_requests \in [0..(Size - 1) -> [id_val : Nat, hkdf_prk : Prks \cup {NoPrk}]]
      /\ negotiated \in [1..last -> Prks]
      /\ used \subseteq 1..last
  BY Zenon DEF RingInv, RingTypeOK, Ids
<1>2. /\ last' = id
      /\ pending_requests' = [pending_requests EXCEPT ![Slot(id)] = entry]
      /\ negotiated' = [i \in 1..id |-> IF i = id THEN prk ELSE negotiated[i]]
      /\ used' = used
  BY Zenon DEF add_pending_request
<1>3. id \in Nat /\ Ids = 1..last /\ Ids' = 1..id
  BY <1>1, <1>2 DEF Ids
<1>4. Slot(id) \in 0..(Size - 1)
  BY <1>3, SlotInTable, Zenon
<1>5. \A i \in 1..last : i \in 1..id /\ negotiated'[i] = negotiated[i]
  BY <1>1, <1>2
<1>6. negotiated'[id] = prk
  BY <1>1, <1>2
<1>7. /\ pending_requests'[Slot(id)] = entry
      /\ \A s \in 0..(Size - 1) : s # Slot(id) => pending_requests'[s] = pending_requests[s]
  BY <1>1, <1>2, <1>4, Zenon
<1> HIDE DEF entry
<1>8. RingTypeOK'
  <2>1. entry \in [id_val : Nat, hkdf_prk : Prks \cup {NoPrk}]
    BY <1>3, Zenon DEF entry
  <2>2. pending_requests' \in [0..(Size - 1) -> [id_val : Nat, hkdf_prk : Prks \cup {NoPrk}]]
    BY <1>1, <1>2, <2>1, Zenon
  <2>3. negotiated' \in [1..id -> Prks]
    BY <1>1, <1>2
  <2>4. used' \subseteq 1..id
    BY <1>1, <1>2
  <2> QED
    BY <1>1, <1>2, <1>3, <2>2, <2>3, <2>4, Zenon DEF RingTypeOK
<1>9. EntriesPlaced'
  <2> SUFFICES ASSUME NEW s \in 0..(Size - 1), pending_requests'[s].id_val # 0
               PROVE  /\ pending_requests'[s].id_val \in Ids' \ used'
                      /\ pending_requests'[s].id_val > last_pending_request_id_val' - Size
                      /\ Slot(pending_requests'[s].id_val) = s
                      /\ pending_requests'[s].hkdf_prk = negotiated'[pending_requests'[s].id_val]
    BY Zenon DEF EntriesPlaced, Slot
  <2>1. CASE s = Slot(id)
    <3>1. pending_requests'[s].id_val = id /\ pending_requests'[s].hkdf_prk = prk
      BY <1>7, <2>1 DEF entry
    <3>2. id \in 1..id /\ id \notin used' /\ id > id - Size
      BY <1>1, <1>2, OrderAssumption
    <3> QED
      BY <1>2, <1>3, <1>6, <2>1, <3>1, <3>2, Zenon
  <2>2. CASE s # Slot(id)
    <3>1. pending_requests'[s] = pending_requests[s]
      BY <1>7, <2>2, Zenon
    <3>2. /\ pending_requests[s].id_val \in 1..last
          /\ pending_requests[s].id_val > last - Size
          /\ pending_requests[s].id_val \notin used
          /\ Slot(pending_requests[s].id_val) = s
          /\ pending_requests[s].hkdf_prk = negotiated[pending_requests[s].id_val]
      BY <1>3, <3>1, Zenon DEF RingInv, EntriesPlaced
    <3>3. pending_requests[s].id_val > id - Size
      <4>0. Size \in Nat \ {0} /\ last \in Nat /\ id = last + 1
        BY <1>1, OrderAssumption, Zenon
      <4>1. PICK x \in 1..last : x = pending_requests[s].id_val
        BY <3>2, Zenon
      <4>2. x > last - Size /\ Slot(x) = s
        BY <3>2, <4>1, Zenon
      <4> HIDE DEF last, id
      <4>3. x # id - Size
        <5> SUFFICES ASSUME x = id - Size PROVE FALSE
          BY Zenon
        <5>1. id >= Size
          BY <4>0, <4>1
        <5> QED
          BY <1>3, <2>2, <4>2, <5>1, SlotRepeats, Zenon
      <4>4. x > id - Size
        BY <4>0, <4>1, <4>2, <4>3
      <4> QED
        BY <4>1, <4>4, Zenon
    <3> QED
      BY <1>2, <1>3, <1>5, <3>1, <3>2, <3>3
  <2> QED
    BY <2>1, <2>2, Zenon
<1>10. KeptForSize'
  <2> SUFFICES ASSUME NEW i \in 1..id, i \notin used, i > id - Size
               PROVE  pending_requests'[Slot(i)].id_val = i
    BY <1>2, <1>3, Zenon DEF KeptForSize, Found, Slot
  <2>1. CASE i = id
    BY <1>7, <2>1 DEF entry
  <2>2. CASE i # id
    <3>0. Size \in Nat
      BY OrderAssumption, Zenon
    <3>1. i \in Nat /\ i < id /\ id - i < Size /\ i \in 1..last /\ i > last - Size
      BY <1>1, <2>2, <3>0
    <3>2. Slot(i) # Slot(id)
      BY <1>3, <3>1, SlotsDiffer, Zenon
    <3>3. Slot(i) \in 0..(Size - 1)
      BY <3>1, SlotInTable, Zenon
    <3>4. pending_requests[Slot(i)].id_val = i
      BY <1>3, <3>1, Zenon DEF RingInv, KeptForSize, Found
    <3> QED
      BY <1>7, <3>2, <3>3, <3>4, Zenon
  <2> QED
    BY <2>1, <2>2, Zenon
<1> QED
  BY <1>8, <1>9, <1>10, Zenon DEF RingInv

\* Removing an entry keeps the invariant: it clears the slot of that id only.
LEMMA RemoveKeepsInv ==
  ASSUME RingInv, NEW id \in Ids, remove_pending_request(id)
  PROVE  RingInv'
<1>1. /\ last_pending_request_id_val \in Nat
      /\ pending_requests \in [0..(Size - 1) -> [id_val : Nat, hkdf_prk : Prks \cup {NoPrk}]]
  BY Zenon DEF RingInv, RingTypeOK
<1>2. /\ pending_requests' = [pending_requests EXCEPT ![Slot(id)] = Zeroed]
      /\ used' = used \cup {id}
      /\ last_pending_request_id_val' = last_pending_request_id_val
      /\ negotiated' = negotiated
      /\ pending_requests[Slot(id)].id_val = id
  BY Zenon DEF remove_pending_request, Found
<1>3. id \in Nat /\ id # 0 /\ Ids' = Ids
  BY <1>1, <1>2 DEF Ids
<1>4. Slot(id) \in 0..(Size - 1)
  BY <1>3, SlotInTable, Zenon
<1>5. /\ pending_requests'[Slot(id)] = Zeroed
      /\ \A s \in 0..(Size - 1) : s # Slot(id) => pending_requests'[s] = pending_requests[s]
  BY <1>1, <1>2, <1>4, Zenon
<1>6. RingTypeOK'
  <2>1. Zeroed \in [id_val : Nat, hkdf_prk : Prks \cup {NoPrk}]
    BY Zenon DEF Zeroed
  <2>2. pending_requests' \in [0..(Size - 1) -> [id_val : Nat, hkdf_prk : Prks \cup {NoPrk}]]
    BY <1>1, <1>2, <2>1, Zenon
  <2> QED
    BY <1>2, <1>3, <2>2, Zenon DEF RingInv, RingTypeOK
<1>7. EntriesPlaced'
  <2> SUFFICES ASSUME NEW s \in 0..(Size - 1), pending_requests'[s].id_val # 0
               PROVE  /\ pending_requests'[s].id_val \in Ids' \ used'
                      /\ pending_requests'[s].id_val > last_pending_request_id_val' - Size
                      /\ Slot(pending_requests'[s].id_val) = s
                      /\ pending_requests'[s].hkdf_prk = negotiated'[pending_requests'[s].id_val]
    BY Zenon DEF EntriesPlaced, Slot
  <2>1. s # Slot(id)
    BY <1>5 DEF Zeroed
  <2>2. pending_requests'[s] = pending_requests[s]
    BY <1>5, <2>1, Zenon
  <2>3. /\ pending_requests[s].id_val \in Ids \ used
        /\ pending_requests[s].id_val > last_pending_request_id_val - Size
        /\ Slot(pending_requests[s].id_val) = s
        /\ pending_requests[s].hkdf_prk = negotiated[pending_requests[s].id_val]
    BY <2>2, Zenon DEF RingInv, EntriesPlaced
  <2>4. pending_requests[s].id_val # id
    BY <2>1, <2>3, Zenon
  <2> QED
    BY <1>2, <1>3, <2>2, <2>3, <2>4
<1>8. KeptForSize'
  <2> SUFFICES ASSUME NEW i \in Ids, i \notin used, i # id,
                      i > last_pending_request_id_val - Size
               PROVE  pending_requests'[Slot(i)].id_val = i
    BY <1>2, <1>3, Zenon DEF KeptForSize, Found, Slot
  <2>1. pending_requests[Slot(i)].id_val = i
    BY Zenon DEF RingInv, KeptForSize, Found
  <2>2. Slot(i) # Slot(id)
    BY <1>2, <2>1, Zenon
  <2>3. Slot(i) \in 0..(Size - 1)
    BY <1>1, SlotInTable DEF Ids
  <2> QED
    BY <1>5, <2>1, <2>2, <2>3, Zenon
<1> QED
  BY <1>6, <1>7, <1>8, Zenon DEF RingInv

\* Every step of the table keeps the invariant.
LEMMA RingNextInv == RingInv /\ [RingNext]_ringVars => RingInv'
<1> SUFFICES ASSUME RingInv, [RingNext]_ringVars PROVE RingInv'
  BY Zenon
<1>1. CASE \E prk \in Prks : add_pending_request(prk)
  BY <1>1, AddKeepsInv, Zenon
<1>2. CASE \E id \in Ids : remove_pending_request(id)
  BY <1>2, RemoveKeepsInv, Zenon
<1>3. CASE UNCHANGED ringVars
  BY <1>3, Zenon DEF ringVars, RingInv, RingTypeOK, EntriesPlaced, KeptForSize, Ids, Found
<1> QED
  BY <1>1, <1>2, <1>3, Zenon DEF RingNext

\* The invariant gives the three properties a client relies on.
LEMMA RingInvImplies == RingInv => FindsOwnKey /\ UsedOnce /\ KeptForSize
<1> SUFFICES ASSUME RingInv PROVE FindsOwnKey /\ UsedOnce /\ KeptForSize
  BY Zenon
<1>1. ASSUME NEW id \in Ids, Found(id)
      PROVE  id \notin used /\ PrkOf(id) = negotiated[id]
  <2>1. id \in Nat /\ id # 0
    BY DEF RingInv, RingTypeOK, Ids
  <2>2. Slot(id) \in 0..(Size - 1)
    BY <2>1, SlotInTable, Zenon
  <2>3. pending_requests[Slot(id)].id_val = id
    BY <1>1, Zenon DEF Found
  <2> QED
    BY <2>1, <2>2, <2>3, Zenon DEF RingInv, EntriesPlaced, PrkOf
<1>2. used \subseteq Ids
  BY Zenon DEF RingInv, RingTypeOK
<1> QED
  BY <1>1, <1>2, Zenon DEF FindsOwnKey, UsedOnce, RingInv

\* For every table order and every number of negotiations: a request found in
\* the table gets the key negotiated for its own id.
THEOREM OwnKeyTheorem == RingSpec => []FindsOwnKey
<1>1. RingInv => FindsOwnKey
  BY RingInvImplies, Zenon
<1> QED
  BY <1>1, RingInitInv, RingNextInv, PTL DEF RingSpec

\* For every table order: a removed request is never found again.
THEOREM UsedOnceTheorem == RingSpec => []UsedOnce
<1>1. RingInv => UsedOnce
  BY RingInvImplies, Zenon
<1> QED
  BY <1>1, RingInitInv, RingNextInv, PTL DEF RingSpec

\* For every table order: a pending request survives the next Size - 1
\* negotiations unless it is used.
THEOREM KeptForSizeTheorem == RingSpec => []KeptForSize
<1>1. RingInv => KeptForSize
  BY RingInvImplies, Zenon
<1> QED
  BY <1>1, RingInitInv, RingNextInv, PTL DEF RingSpec
\* For every table order, the ring implements one-time tickets that stay open
\* until they are redeemed or Size others have been issued: add_pending_request
\* is Issue, remove_pending_request is Redeem.
THEOREM RingImplementsTickets == RingSpec => ImplementsTickets
<1> DEFINE open == {id \in Ids : Found(id)}
<1>1. RingInit => Tickets!Init
  BY DEF RingInit, Tickets!Init, Ids
<1>2. RingInv /\ [RingNext]_ringVars
        => [Tickets!Next]_<<last_pending_request_id_val, open>>
  <2> SUFFICES ASSUME RingInv, [RingNext]_ringVars
               PROVE  [Tickets!Next]_<<last_pending_request_id_val, open>>
    BY Zenon
  <2>0. /\ last_pending_request_id_val \in Nat
        /\ Size \in Nat \ {0}
        /\ pending_requests \in [0..(Size - 1) -> [id_val : Nat, hkdf_prk : Prks \cup {NoPrk}]]
        /\ Ids = 1..last_pending_request_id_val
        /\ Ids \subseteq Nat
    BY OrderAssumption DEF RingInv, RingTypeOK, Ids
  <2>1. ASSUME NEW prk \in Prks, add_pending_request(prk)
        PROVE  Tickets!Issue
    <3>0. PICK id \in Nat : id = last_pending_request_id_val + 1
      BY <2>0
    <3>1. /\ last_pending_request_id_val' = id
          /\ pending_requests' = [pending_requests EXCEPT
               ![Slot(id)] = [id_val |-> id, hkdf_prk |-> prk]]
          /\ Ids' = 1..id
          /\ id \in Nat
      BY <2>0, <2>1, <3>0, Zenon DEF add_pending_request, Ids
    <3>2. Found(id)'
      BY <2>0, <3>1, SlotInTable, Zenon DEF Found, Slot
    <3>3. ASSUME NEW i \in Ids
          PROVE  Found(i)' <=> (Found(i) /\ i # id - Size)
      <4>0. i \in Nat /\ i < id
        BY <2>0, <3>0
      <4>1. i \in Nat /\ i < id /\ Slot(i) \in 0..(Size - 1)
        BY <4>0, SlotInTable, Zenon
      <4>2. CASE Slot(i) = Slot(id)
        <5>1. ~Found(i)'
          BY <2>0, <3>1, <4>1, <4>2 DEF Found, Slot
        <5>2. ASSUME Found(i) PROVE i = id - Size
          <6>1. i > last_pending_request_id_val - Size
            <7>1. pending_requests[Slot(i)].id_val = i /\ i # 0
              BY <2>0, <5>2 DEF Found
            <7> QED
              BY <4>1, <7>1, Zenon DEF RingInv, EntriesPlaced
          <6>2. ~(id - i < Size)
            BY <3>1, <4>1, <4>2, SlotsDiffer, Zenon
          <6> QED
            BY <2>0, <3>0, <4>1, <6>1, <6>2
        <5> QED
          BY <5>1, <5>2, Zenon
      <4>3. CASE Slot(i) # Slot(id)
        <5>1. Found(i)' <=> Found(i)
          BY <2>0, <3>1, <4>1, <4>3, Zenon DEF Found, Slot
        <5>2. i # id - Size
          <6>1. SUFFICES ASSUME i = id - Size PROVE FALSE
            BY Zenon
          <6>2. id >= Size
            BY <2>0, <4>1, <6>1
          <6> QED
            BY <3>1, <4>3, <6>1, <6>2, SlotRepeats, Zenon
        <5> QED
          BY <5>1, <5>2, Zenon
      <4> QED
        BY <4>2, <4>3, Zenon
    <3>4. Ids' = Ids \cup {id} /\ id \notin Ids /\ id # id - Size
      BY <2>0, <3>0, <3>1
    <3>5. open' = (open \ {id - Size}) \cup {id}
      BY <3>2, <3>3, <3>4, Zenon
    <3> QED
      BY <2>0, <3>0, <3>1, <3>5 DEF Tickets!Issue
  <2>2. ASSUME NEW id \in Ids, remove_pending_request(id)
        PROVE  Tickets!Redeem(id)
    <3>1. /\ pending_requests' = [pending_requests EXCEPT ![Slot(id)] = Zeroed]
          /\ last_pending_request_id_val' = last_pending_request_id_val
          /\ Ids' = Ids
          /\ Found(id)
      BY <2>2, Zenon DEF remove_pending_request, Ids
    <3>2. ASSUME NEW i \in Ids
          PROVE  Found(i)' <=> (Found(i) /\ i # id)
      <4>0. i \in Nat /\ id \in Nat /\ i # 0
        BY <2>0
      <4>1. i # 0 /\ Slot(i) \in 0..(Size - 1) /\ Slot(id) \in 0..(Size - 1)
        BY <4>0, SlotInTable, Zenon
      <4>2. CASE Slot(i) = Slot(id)
        BY <2>0, <3>1, <4>1, <4>2, Zenon DEF Found, Slot, Zeroed
      <4>3. CASE Slot(i) # Slot(id)
        BY <2>0, <3>1, <4>1, <4>3, Zenon DEF Found, Slot
      <4> QED
        BY <4>2, <4>3, Zenon
    <3>3. open' = open \ {id}
      BY <3>1, <3>2, Zenon
    <3> QED
      BY <3>1, <3>3, Zenon DEF Tickets!Redeem
  <2>3. CASE UNCHANGED ringVars
    BY <2>3, Zenon DEF ringVars, Ids, Found
  <2>4. CASE RingNext
    BY <2>1, <2>2, <2>4, Zenon DEF RingNext, Tickets!Next, Ids
  <2> QED
    BY <2>3, <2>4, Zenon
<1> QED
  BY <1>1, <1>2, RingInitInv, RingNextInv, PTL DEF RingSpec, ImplementsTickets, Tickets!Spec

-----------------------------------------------------------------------------
(* The enclave's keys and the handshakes.                                  *)

\* The types of the enclave's node, generator, keys and calls.
EnclaveType ==
  /\ instance \in Nat \ {0} /\ initialized \in BOOLEAN
  /\ read_rand_state \in 2..MaxDraws
  /\ dh_keypair \in Keys /\ new_dh_keypair \in Keys
  /\ pc \in [Threads -> {"out", "rand", "hkdf", "keyed", "secret"}]
  /\ entered \in [Threads -> 0..instance]
  /\ seen_state \in [Threads -> Nat]
  /\ drawn \in [Threads -> Nat] /\ static \in [Threads -> Nat]

\* A thread of the instance in use is at one of these places.
At(t, places) == pc[t] \in places /\ entered[t] = instance

\* The generator was advanced once per draw of the instance.  Only the thread that holds its
\* lock is between reading the state and advancing it, so what it read is
\* current; the keys that threads carry were drawn and are all different.
DrawInv ==
  /\ \A d \in draws : /\ d[1] \in 1..instance
                      /\ d[1] = instance => d[2] \in 1..read_rand_state
  /\ \A t \in Threads : At(t, {"hkdf"}) =>
       read_rand_lock = t /\ seen_state[t] = read_rand_state /\ read_rand_state < MaxDraws
  /\ \A t \in Threads : At(t, {"keyed", "secret"}) => drawn[t] \in 1..read_rand_state
  /\ \A t, u \in Threads :
       At(t, {"keyed", "secret"}) /\ At(u, {"keyed", "secret"}) /\ drawn[t] = drawn[u] => t = u
  /\ \A t \in Threads : At(t, {"secret"}) => static[t] \in Keys

\* Every id has a secret of its own, made from a draw that no thread carries
\* any more.
SecretInv ==
  /\ \A id \in Ids : negotiated[id][2] \in 1..read_rand_state
  /\ \A i, j \in Ids : negotiated[i] = negotiated[j] => i = j
  /\ \A t \in Threads, id \in Ids : At(t, {"keyed", "secret"}) => negotiated[id][2] # drawn[t]

\* Only requests whose ids were removed from the ring are held or have a reply,
\* and none is both; what earlier instances sealed is told apart by its tag.
HeldInv == \A key \in held : \E id \in used : key = negotiated[id]
SealedInv ==
  \A s \in sealed :
    \/ s[1] \in 1..(instance - 1)
    \/ \E id \in Ids : s = <<instance, negotiated[id], NegotiationIV>>
    \/ \E id \in used : s = <<instance, negotiated[id], 1>> /\ negotiated[id] \notin held

\* Nothing but the IV of an id was used again.
SealInv == RingInv /\ SecretInv /\ HeldInv /\ SealedInv /\ reused \subseteq {"id"}

\* The monitor belongs to the refresher from storing a quote to activating its
\* key, and to a client for the whole of its negotiation.
MonitorInv ==
  /\ monitor = Refresher <=> refresh = "activate"
  /\ \A c \in Clients : pc[c] # "out" => monitor = c

\* The quote that the refresher has obtained, or stored and not yet activated,
\* is of the key that set_current_quote will make current.
StoredInv ==
  /\ quotes.instance \in 0..instance /\ next_quote.instance \in 0..instance
  /\ refresh \in {"sign", "put"} /\ next_quote.instance = instance
       => next_quote.key = new_dh_keypair
  /\ refresh = "activate" => ~activated
  /\ refresh = "activate" /\ quotes.instance = instance => quotes.key = new_dh_keypair
  /\ activated /\ quotes.instance = instance => quotes.key = dh_keypair

\* What a negotiation has read under the monitor is still true.
NegotiationInv ==
  /\ \A c \in Clients : pc[c] # "out" =>
       read_quote[c] = quotes /\ read_activated[c] = activated
  /\ \A c \in Clients : At(c, {"secret"}) /\ activated /\ quotes.instance = instance
       => static[c] = quotes.key

ClientType ==
  /\ read_quote = [c \in Clients |-> read_quote[c]]
  /\ read_activated = [c \in Clients |-> read_activated[c]]
  /\ response = [c \in Clients |-> response[c]]

QuoteInv == ClientType /\ MonitorInv /\ StoredInv /\ NegotiationInv /\ QuoteMatchesKey

-----------------------------------------------------------------------------
(* The generator and the threads inside the enclave.                       *)

EnclaveInv == EnclaveType /\ DrawInv

\* The invariant reads these variables only.
LEMMA EnclaveSame ==
  EnclaveInv /\ UNCHANGED <<nodeVars, randVars, keyVars, callVars>> => EnclaveInv'
BY Zenon DEF EnclaveInv, EnclaveType, DrawInv, At, nodeVars, randVars, keyVars, callVars

\* A thread that enters carries nothing yet.
LEMMA EnterEnclave ==
  ASSUME EnclaveInv, NEW t \in Threads,
         pc' = [pc EXCEPT ![t] = "rand"], entered' = [entered EXCEPT ![t] = instance],
         UNCHANGED <<nodeVars, randVars, keyVars, static>>
  PROVE  EnclaveInv'
<1>1. EnclaveType' BY DEF EnclaveInv, EnclaveType, nodeVars, randVars, keyVars
<1>2. \A u \in Threads, S \in SUBSET {"hkdf", "keyed", "secret"} : At(u, S)' => u # t /\ At(u, S)
  BY Zenon DEF At, EnclaveInv, EnclaveType, nodeVars
<1>3. DrawInv' BY <1>2, Zenon DEF EnclaveInv, DrawInv, randVars, nodeVars
<1> QED BY <1>1, <1>3, Zenon DEF EnclaveInv

\* A thread that leaves carries nothing any more.
LEMMA LeaveEnclave ==
  ASSUME EnclaveInv, NEW t \in Threads, Leave(t), new_dh_keypair' \in Keys,
         UNCHANGED <<nodeVars, read_rand_state, read_rand_lock, draws, dh_keypair>>
  PROVE  EnclaveInv'
<1>1. EnclaveType' BY DEF EnclaveInv, EnclaveType, Leave, nodeVars, NoKey
<1>2. \A u \in Threads, S \in SUBSET {"hkdf", "keyed", "secret"} : At(u, S)' => u # t /\ At(u, S)
  BY Zenon DEF At, Leave, EnclaveInv, EnclaveType, nodeVars
<1>3. \A u \in Threads \ {t} : seen_state'[u] = seen_state[u] /\ drawn'[u] = drawn[u] /\ static'[u] = static[u]
  BY Zenon DEF Leave, EnclaveInv, EnclaveType
<1>4. DrawInv' BY <1>2, <1>3, ZenonT(40) DEF EnclaveInv, DrawInv, nodeVars
<1> QED BY <1>1, <1>4, Zenon DEF EnclaveInv

\* The lock is free, so no other thread is between reading and advancing.
LEMMA ReadRandEnter ==
  ASSUME EnclaveInv, NEW t \in Threads, read_rand_enter(t) PROVE EnclaveInv'
<1> USE DEF read_rand_enter, nodeVars, keyVars
<1>1. EnclaveType' BY DEF EnclaveInv, EnclaveType
<1>2. \A u \in Threads : ~At(u, {"hkdf"}) BY EnclaveAssumption, Zenon DEF EnclaveInv, DrawInv
<1>3. \A u \in Threads : At(u, {"hkdf"})' => u = t BY <1>2, Zenon DEF At, EnclaveInv, EnclaveType
<1>4. \A u \in Threads, S \in SUBSET {"keyed", "secret"} : At(u, S)' => At(u, S)
  BY Zenon DEF At, EnclaveInv, EnclaveType
<1>5. seen_state'[t] = read_rand_state /\ read_rand_state < MaxDraws BY Zenon DEF EnclaveInv, EnclaveType
<1>6. DrawInv' BY <1>3, <1>4, <1>5, Zenon DEF EnclaveInv, DrawInv
<1> QED BY <1>1, <1>6, Zenon DEF EnclaveInv

\* The thread that holds the lock advances the state it has read, which is
\* current: its key is new.
LEMMA ReadRandLeave ==
  ASSUME EnclaveInv, NEW t \in Threads, read_rand_leave(t)
  PROVE  /\ EnclaveInv'
         /\ read_rand_state' = read_rand_state + 1 /\ drawn' = [drawn EXCEPT ![t] = read_rand_state + 1]
         /\ reused' = reused
<1> USE DEF read_rand_leave, nodeVars, keyVars
<1>1. At(t, {"hkdf"}) BY Zenon DEF At, Inside
<1>2. read_rand_lock = t /\ seen_state[t] = read_rand_state /\ read_rand_state < MaxDraws
  BY <1>1, Zenon DEF EnclaveInv, DrawInv
<1>3. /\ read_rand_state \in 2..MaxDraws /\ MaxDraws \in Nat
      /\ read_rand_state' = read_rand_state + 1 /\ drawn'[t] = read_rand_state + 1
  BY <1>2, EnclaveAssumption, Zenon DEF EnclaveInv, EnclaveType
<1>4. EnclaveType' BY <1>3, <1>2 DEF EnclaveInv, EnclaveType
<1>5. /\ draws' = draws \cup {<<instance, read_rand_state + 1>>}
      /\ <<instance, seen_state[t] + 1>> \notin draws
      /\ \A d \in draws' : d[1] \in 1..instance /\ (d[1] = instance => d[2] \in 1..(read_rand_state + 1))
  <2>1. draws' = draws \cup {<<instance, read_rand_state + 1>>} BY <1>2, Zenon
  <2>2. <<instance, seen_state[t] + 1>> \notin draws BY <1>2, <1>3 DEF EnclaveInv, DrawInv
  <2>3. ASSUME NEW d \in draws'
        PROVE  d[1] \in 1..instance /\ (d[1] = instance => d[2] \in 1..(read_rand_state + 1))
    <3>1. CASE d \in draws BY <1>3, <3>1 DEF EnclaveInv, DrawInv
    <3>2. CASE d = <<instance, read_rand_state + 1>> BY <1>3, <3>2 DEF EnclaveInv, EnclaveType
    <3> QED BY <2>1, <3>1, <3>2, Zenon
  <2> QED BY <2>1, <2>2, <2>3, Zenon
<1>6. \A u \in Threads : ~At(u, {"hkdf"})'
  BY <1>2, Zenon DEF At, EnclaveInv, EnclaveType, DrawInv
<1>7. \A u \in Threads \ {t} : drawn'[u] = drawn[u]
                               /\ \A S \in SUBSET {"keyed", "secret"} : At(u, S)' => At(u, S)
  BY Zenon DEF At, EnclaveInv, EnclaveType
<1>8. \A u \in Threads : At(u, {"secret"})' => At(u, {"secret"}) BY Zenon DEF At, EnclaveInv, EnclaveType
<1>9. \A u \in Threads : At(u, {"keyed", "secret"})' => drawn'[u] \in 1..read_rand_state'
  BY <1>3, <1>7 DEF EnclaveInv, DrawInv
<1>10. \A u \in Threads \ {t} : At(u, {"keyed", "secret"})' => drawn'[u] # drawn'[t]
  BY <1>3, <1>7 DEF EnclaveInv, DrawInv
<1>11. DrawInv'
  BY <1>3, <1>5, <1>6, <1>7, <1>8, <1>9, <1>10, ZenonT(20) DEF EnclaveInv, DrawInv
<1> QED BY <1>2, <1>3, <1>4, <1>5, <1>11, Zenon DEF EnclaveInv, Again

\* A negotiation copies the key pair in use.
LEMMA CopyStaticEnclave ==
  ASSUME EnclaveInv, NEW t \in Threads, copy_static(t) PROVE EnclaveInv'
<1> USE DEF copy_static, nodeVars, keyVars, randVars
<1>1. EnclaveType' BY DEF EnclaveInv, EnclaveType, Keys
<1>2. \A u \in Threads : /\ At(u, {"hkdf"})' => At(u, {"hkdf"})
                         /\ At(u, {"keyed", "secret"})' => At(u, {"keyed", "secret"})
                         /\ At(u, {"secret"})' => At(u, {"secret"}) \/ u = t
  BY Zenon DEF At, EnclaveInv, EnclaveType
<1>3. static'[t] \in Keys /\ \A u \in Threads \ {t} : static'[u] = static[u]
  BY Zenon DEF EnclaveInv, EnclaveType
<1>4. DrawInv' BY <1>2, <1>3, Zenon DEF EnclaveInv, DrawInv
<1> QED BY <1>1, <1>4, Zenon DEF EnclaveInv

\* In a new instance there are no threads.
LEMMA NodeInit ==
  ASSUME EnclaveInv, NEW ok \in BOOLEAN, sgxsd_enclave_node_init(ok)
  PROVE  EnclaveInv' /\ \A t \in Threads : entered'[t] # instance'
<1> USE DEF sgxsd_enclave_node_init, callVars
<1>1. EnclaveType' BY EnclaveAssumption DEF EnclaveInv, EnclaveType, Keys
<1>2. \A t \in Threads : entered'[t] # instance' BY DEF EnclaveInv, EnclaveType
<1>3. \A d \in draws' : d[1] \in 1..instance' /\ (d[1] = instance' => d[2] \in 1..read_rand_state')
  <2>1. instance \in Nat /\ instance' = instance + 1 /\ read_rand_state' = 2
    BY DEF EnclaveInv, EnclaveType
  <2>2. \A d \in draws : d[1] \in 1..instance BY Zenon DEF EnclaveInv, DrawInv
  <2> QED BY <2>1, <2>2
<1>4. DrawInv' BY <1>2, <1>3, Zenon DEF DrawInv, At
<1> QED BY <1>1, <1>2, <1>4, Zenon DEF EnclaveInv

\* Every call that fails or ends leaves the enclave.
LEMMA AbortEnclave ==
  ASSUME EnclaveInv, NEW t \in Threads, Abort(t) PROVE EnclaveInv'
BY LeaveEnclave, Zenon DEF Abort, keyVars, EnclaveInv, EnclaveType

LEMMA FinishEnclave ==
  ASSUME EnclaveInv, NEW t \in Threads, NEW ok \in BOOLEAN, finish_negotiation(t, ok) PROVE EnclaveInv'
BY LeaveEnclave, Zenon DEF finish_negotiation, keyVars, EnclaveInv, EnclaveType

\* The key of a report was drawn before.
LEMMA StoreEnclave ==
  ASSUME EnclaveInv, NEW t \in Threads, NEW ok \in BOOLEAN, store_report_key(t, ok)
  PROVE  EnclaveInv' /\ At(t, {"keyed", "secret"})
<1>1. At(t, {"keyed", "secret"}) BY Zenon DEF store_report_key, At, Inside
<1>2. drawn[t] \in Keys BY <1>1, EnclaveAssumption DEF EnclaveInv, EnclaveType, DrawInv, Keys
<1>3. new_dh_keypair' \in Keys BY <1>2, Zenon DEF store_report_key, EnclaveInv, EnclaveType
<1> QED BY <1>1, <1>3, LeaveEnclave, Zenon DEF store_report_key

\* The first instance.
LEMMA EnclaveInitInv == EnclaveInit => EnclaveInv
<1> SUFFICES ASSUME EnclaveInit PROVE EnclaveInv BY Zenon
<1> USE DEF EnclaveInit
<1>1. EnclaveType BY EnclaveAssumption DEF EnclaveType, Keys, NoKey
<1>2. \A d \in draws : d[1] \in 1..instance /\ (d[1] = instance => d[2] \in 1..read_rand_state)
  OBVIOUS
<1>3. \A t \in Threads : entered[t] # instance OBVIOUS
<1>4. DrawInv BY <1>2, <1>3, Zenon DEF DrawInv, At
<1> QED BY <1>1, <1>4, Zenon DEF EnclaveInv

\* Every step of the refresher, the clients and the enclave keeps the draws
\* apart.
LEMMA EnclaveStep == EnclaveInv /\ [Next]_vars => EnclaveInv'
<1> SUFFICES ASSUME EnclaveInv, [Next]_vars PROVE EnclaveInv' BY Zenon
<1>0. Refresher \in Threads /\ Clients \subseteq Threads BY Zenon DEF Threads
<1> USE DEF enclaveVars
<1>1. CASE UNCHANGED vars BY <1>1, EnclaveSame, Zenon DEF vars
<1>2. CASE BeginRefresh
  BY <1>0, <1>2, EnterEnclave, EnclaveSame, Zenon DEF BeginRefresh, callVars
<1>3. ASSUME NEW result \in {"quote", "unquoted", "unreported"}, FinishReport(result) PROVE EnclaveInv'
  BY <1>0, <1>3, StoreEnclave, Zenon DEF FinishReport
<1>4. CASE FailReport BY <1>0, <1>4, AbortEnclave, Zenon DEF FailReport
<1>5. ASSUME NEW result, Sign(result) PROVE EnclaveInv' BY <1>5, EnclaveSame, Zenon DEF Sign
<1>6. CASE PutQuote \/ FailActivate \/ ListExpires \/ stop \/ \E ok \in BOOLEAN : FetchList(ok)
  BY <1>6, EnclaveSame, Zenon DEF PutQuote, FailActivate, ListExpires, stop, FetchList
<1>7. CASE ActivateQuote
  <2> USE <1>7 DEF ActivateQuote, sgxsd_enclave_set_current_quote, nodeVars, randVars, callVars
  <2>1. EnclaveType' BY Zenon DEF EnclaveInv, EnclaveType
  <2>2. DrawInv' BY Zenon DEF EnclaveInv, DrawInv, At
  <2> QED BY <2>1, <2>2, Zenon DEF EnclaveInv
<1>8. ASSUME NEW t \in Threads, Draw(t) PROVE EnclaveInv'
  BY <1>8, ReadRandEnter, ReadRandLeave, Zenon DEF Draw
<1>9. ASSUME NEW c \in Clients, BeginHandshake(c) PROVE EnclaveInv'
  BY <1>0, <1>9, EnterEnclave, EnclaveSame, Zenon DEF BeginHandshake, callVars
<1>10. ASSUME NEW c \in Clients, CopyStatic(c) PROVE EnclaveInv'
  BY <1>0, <1>10, CopyStaticEnclave, Zenon DEF CopyStatic
<1>11. ASSUME NEW c \in Clients, NEW ok \in BOOLEAN, FinishHandshake(c, ok) PROVE EnclaveInv'
  BY <1>0, <1>11, FinishEnclave, Zenon DEF FinishHandshake
<1>12. ASSUME NEW c \in Clients, FailHandshake(c) PROVE EnclaveInv'
  BY <1>0, <1>12, AbortEnclave, Zenon DEF FailHandshake
<1>13. ASSUME NEW c \in Clients, NEW intact \in BOOLEAN, SendRequest(c, intact) PROVE EnclaveInv'
  BY <1>13, EnclaveSame, Zenon DEF SendRequest, sgxsd_enclave_server_call
<1>14. ASSUME NEW key, Answer(key) PROVE EnclaveInv'
  BY <1>14, EnclaveSame, Zenon DEF Answer, sgxsd_enclave_server_reply, sgxsd_enclave_server_noreply
<1>15. CASE LoseInstance
  <2> USE <1>15 DEF LoseInstance, Lose, randVars, keyVars, callVars
  <2>1. EnclaveType' BY ZenonT(30) DEF EnclaveInv, EnclaveType
  <2>2. DrawInv' BY Zenon DEF EnclaveInv, DrawInv, At
  <2> QED BY <2>1, <2>2, Zenon DEF EnclaveInv
<1>16. ASSUME NEW ok \in BOOLEAN, Restart(ok) PROVE EnclaveInv'
  BY <1>16, NodeInit, Zenon DEF Restart
<1> QED
  BY <1>1, <1>2, <1>3, <1>4, <1>5, <1>6, <1>7, <1>8, <1>9, <1>10, <1>11, <1>12, <1>13, <1>14, <1>15, <1>16, Zenon
  DEF Next, RefreshStep, ClientStep

-----------------------------------------------------------------------------
(* Requests: the ring, what is sealed and what is held.                    *)

\* A step that changes neither the ring nor the histories, and lets no thread
\* carry a key that was used before.
LEMMA SealKept ==
  ASSUME SealInv, EnclaveInv, UNCHANGED <<ringVars, sealVars, instance>>,
         read_rand_state' \in Nat, read_rand_state' >= read_rand_state,
         \A t \in Threads : At(t, {"keyed", "secret"})' =>
           \/ At(t, {"keyed", "secret"}) /\ drawn'[t] = drawn[t]
           \/ drawn'[t] > read_rand_state
  PROVE  SealInv'
<1> USE DEF ringVars, sealVars
<1>1. RingInv' BY RingNextInv, Zenon DEF SealInv
<1>2. Ids' = Ids BY Zenon DEF Ids
<1>3. read_rand_state \in Nat BY EnclaveAssumption DEF EnclaveInv, EnclaveType
<1>4. \A id \in Ids : negotiated[id][2] \in 1..read_rand_state' BY <1>3 DEF SealInv, SecretInv
<1>5. \A t \in Threads, id \in Ids : At(t, {"keyed", "secret"})' => negotiated[id][2] # drawn'[t]
  BY <1>3 DEF SealInv, SecretInv
<1>6. SecretInv' BY <1>2, <1>4, <1>5, Zenon DEF SealInv, SecretInv
<1>7. HeldInv' /\ SealedInv' BY <1>2, Zenon DEF SealInv, HeldInv, SealedInv
<1> QED BY <1>1, <1>6, <1>7, Zenon DEF SealInv

\* In particular one that changes nothing the invariant reads.
LEMMA SealSame ==
  ASSUME SealInv, EnclaveInv,
         UNCHANGED <<ringVars, sealVars, read_rand_state, drawn, pc, entered, instance>>
  PROVE  SealInv'
<1>1. read_rand_state \in Nat BY EnclaveAssumption DEF EnclaveInv, EnclaveType
<1>2. \A t \in Threads : At(t, {"keyed", "secret"})' => At(t, {"keyed", "secret"}) BY Zenon DEF At
<1> QED BY <1>1, <1>2, SealKept

\* A negotiation adds an id whose secret no other id has.
LEMMA FinishSecrets ==
  ASSUME SealInv, EnclaveInv, NEW t \in Clients, NEW ok \in BOOLEAN, finish_negotiation(t, ok),
         NEW secret, secret = SharedSecret(t), NEW id, id = last_pending_request_id_val + 1
  PROVE  /\ RingInv' /\ SecretInv'
         /\ Ids' = Ids \cup {id} /\ used' = used /\ used \subseteq Ids /\ negotiated'[id] = secret
         /\ \A i \in Ids : negotiated'[i] = negotiated[i] /\ negotiated[i] # secret
<1>0. t \in Threads BY Zenon DEF Threads
<1>1. At(t, {"secret"}) /\ At(t, {"keyed", "secret"}) BY Zenon DEF finish_negotiation, At, Inside
<1>2. /\ drawn[t] \in 1..read_rand_state /\ static[t] \in Keys
      /\ read_rand_state \in 2..MaxDraws /\ MaxDraws \in Nat
  BY <1>0, <1>1, EnclaveAssumption, Zenon DEF EnclaveInv, EnclaveType, DrawInv
<1>3. secret \in Prks /\ secret[2] = drawn[t]
  BY <1>2, EnclaveAssumption DEF SharedSecret, Keys
<1>4. last_pending_request_id_val \in Nat /\ used \subseteq Ids
  BY Zenon DEF SealInv, RingInv, RingTypeOK
<1>5. /\ Ids' = Ids \cup {id} /\ id \notin Ids /\ used' = used
      /\ negotiated'[id] = secret /\ \A i \in Ids : negotiated'[i] = negotiated[i]
  BY <1>4 DEF finish_negotiation, add_pending_request, Ids
<1>6. RingInv' BY <1>3, AddKeepsInv, Zenon DEF SealInv, finish_negotiation
<1>7. \A i \in Ids : negotiated[i][2] # secret[2] BY <1>0, <1>1, <1>3, ZenonT(30) DEF SealInv, SecretInv
<1>8. \A u \in Threads : At(u, {"keyed", "secret"})' =>
        u # t /\ At(u, {"keyed", "secret"}) /\ drawn'[u] = drawn[u]
  BY Zenon DEF finish_negotiation, nodeVars, At, Leave, EnclaveInv, EnclaveType
<1>9. \A u \in Threads : At(u, {"keyed", "secret"})' => drawn'[u] # secret[2]
  BY <1>0, <1>1, <1>3, <1>8, Zenon DEF EnclaveInv, DrawInv
<1>10. \A u \in Threads, i \in Ids' : At(u, {"keyed", "secret"})' => negotiated'[i][2] # drawn'[u]
  <2> SUFFICES ASSUME NEW u \in Threads, NEW i \in Ids', At(u, {"keyed", "secret"})'
               PROVE  negotiated'[i][2] # drawn'[u]
    BY Zenon
  <2>1. CASE i = id BY <1>5, <1>9, <2>1, Zenon
  <2>2. CASE i \in Ids BY <1>5, <1>8, <2>2, ZenonT(40) DEF SealInv, SecretInv
  <2> QED BY <1>5, <2>1, <2>2, Zenon
<1>11. \A i \in Ids' : negotiated'[i][2] \in 1..read_rand_state'
  BY <1>2, <1>3, <1>5, Zenon DEF SealInv, SecretInv, finish_negotiation
<1>12. \A i, j \in Ids' : negotiated'[i] = negotiated'[j] => i = j
  <2>1. \A i \in Ids : negotiated'[i] # negotiated'[id] BY <1>5, <1>7, Zenon
  <2>2. \A i, j \in Ids : negotiated'[i] = negotiated'[j] => i = j BY <1>5, ZenonT(30) DEF SealInv, SecretInv
  <2> QED BY <1>5, <2>1, <2>2, ZenonT(30)
<1>13. SecretInv' BY <1>10, <1>11, <1>12, Zenon DEF SecretInv
<1> QED BY <1>4, <1>5, <1>6, <1>7, <1>13, Zenon

\* So nothing was encrypted under it before.
LEMMA FinishSeals ==
  ASSUME SealInv, EnclaveInv, NEW t \in Clients, NEW ok \in BOOLEAN, finish_negotiation(t, ok)
  PROVE  SealInv'
<1> DEFINE secret == SharedSecret(t)
           id == last_pending_request_id_val + 1
<1>1. /\ RingInv' /\ SecretInv'
      /\ Ids' = Ids \cup {id} /\ used' = used /\ used \subseteq Ids /\ negotiated'[id] = secret
      /\ \A i \in Ids : negotiated'[i] = negotiated[i] /\ negotiated[i] # secret
  BY FinishSecrets, Zenon
<1> HIDE DEF id
<1>2. <<instance, secret, NegotiationIV>> \notin sealed
  <2> HIDE DEF secret
  <2>1. instance \in Nat BY Zenon DEF EnclaveInv, EnclaveType
  <2> QED BY <1>1, <2>1 DEF SealInv, SealedInv
<1>3. /\ reused' \subseteq reused \cup {"id"} /\ held' = held /\ instance' = instance
      /\ sealed' \subseteq sealed \cup {<<instance, secret, NegotiationIV>>}
  BY <1>2, Zenon DEF finish_negotiation, Again, nodeVars
<1> HIDE DEF secret
<1>4. HeldInv' BY <1>1, <1>3, Zenon DEF SealInv, HeldInv
<1>5. SealedInv'
  <2> SUFFICES ASSUME NEW s \in sealed'
               PROVE  \/ s[1] \in 1..(instance - 1)
                      \/ \E i \in Ids' : s = <<instance, negotiated'[i], NegotiationIV>>
                      \/ \E i \in used' : s = <<instance, negotiated'[i], 1>> /\ negotiated'[i] \notin held'
    BY <1>3, Zenon DEF SealedInv
  <2>1. CASE s = <<instance, secret, NegotiationIV>> BY <1>1, <2>1, Zenon
  <2>2. CASE s \in sealed BY <1>1, <1>3, <2>2, Zenon DEF SealInv, SealedInv
  <2> QED BY <1>3, <2>1, <2>2, Zenon
<1> QED BY <1>1, <1>3, <1>4, <1>5, Zenon DEF SealInv

\* A request that opens takes its entry out of the ring, so it has not been
\* held or answered before.
LEMMA CallHolds ==
  ASSUME SealInv, EnclaveInv, NEW id, NEW secret, NEW intact \in BOOLEAN,
         sgxsd_enclave_server_call(id, secret, intact)
  PROVE  SealInv'
<1> USE DEF sgxsd_enclave_server_call, nodeVars, randVars, keyVars, callVars
<1>1. CASE ~(id \in Ids /\ Found(id)) BY <1>1, SealSame, Zenon DEF sealVars
<1>2. CASE id \in Ids /\ Found(id)
  <2>1. RingInv' BY <1>2, RemoveKeepsInv, Zenon DEF SealInv
  <2>2. Ids' = Ids /\ negotiated' = negotiated /\ used' = used \cup {id}
    BY <1>2, Zenon DEF remove_pending_request, Ids
  <2>3. PrkOf(id) = negotiated[id] /\ id \notin used /\ used \subseteq Ids
    BY <1>2, RingInvImplies, Zenon DEF SealInv, FindsOwnKey, UsedOnce, RingInv, RingTypeOK
  <2>4. \A i \in used : negotiated[i] # negotiated[id] BY <1>2, <2>3, Zenon DEF SealInv, SecretInv
  <2>5. negotiated[id] \notin held BY <2>4, Zenon DEF SealInv, HeldInv
  <2>6. /\ held' \subseteq held \cup {negotiated[id]} /\ reused' = reused /\ sealed' = sealed
        /\ instance' = instance
    BY <1>2, <2>3, <2>5, Zenon DEF Again
  <2>7. HeldInv' BY <2>2, <2>6, Zenon DEF SealInv, HeldInv
  <2>8. SealedInv' BY <2>2, <2>4, <2>6, Zenon DEF SealInv, SealedInv
  <2>9. SecretInv' BY <2>2, ZenonT(30) DEF SealInv, SecretInv, At
  <2> QED BY <2>1, <2>6, <2>7, <2>8, <2>9, Zenon DEF SealInv
<1> QED BY <1>1, <1>2, Zenon

\* A request that is answered is not held any more, and had no reply.
LEMMA ReplySeals ==
  ASSUME SealInv, EnclaveInv, NEW key,
         \/ \E r \in RandomIVs : sgxsd_enclave_server_reply(key, r)
         \/ sgxsd_enclave_server_noreply(key)
  PROVE  SealInv'
<1> USE DEF sgxsd_enclave_server_reply, sgxsd_enclave_server_noreply,
            nodeVars, randVars, keyVars, callVars, ringVars
<1>1. key \in held /\ held' = held \ {key} BY ZenonT(30)
<1>2. PICK id \in used : key = negotiated[id] BY <1>1, Zenon DEF SealInv, HeldInv
<1>3. <<instance, key, 1>> \notin sealed
  BY <1>1 DEF SealInv, SealedInv, NegotiationIV, EnclaveInv, EnclaveType
<1>4. \A r \in RandomIVs : ReplyIV(r) = 1 BY DEF RandomIVs, ReplyIV
<1>5. sealed' \subseteq sealed \cup {<<instance, key, 1>>} /\ reused' = reused /\ instance' = instance
  BY <1>3, <1>4, Zenon DEF Again
<1>6. RingInv' /\ Ids' = Ids /\ used' = used /\ negotiated' = negotiated
  BY RingNextInv, ZenonT(30) DEF SealInv, Ids
<1>7. HeldInv' BY <1>1, <1>6, Zenon DEF SealInv, HeldInv
<1>8. SealedInv'
  <2> SUFFICES ASSUME NEW s \in sealed'
               PROVE  \/ s[1] \in 1..(instance - 1)
                      \/ \E i \in Ids : s = <<instance, negotiated[i], NegotiationIV>>
                      \/ \E i \in used : s = <<instance, negotiated[i], 1>> /\ negotiated[i] \notin held'
    BY <1>5, <1>6, Zenon DEF SealedInv
  <2>1. CASE s = <<instance, key, 1>> BY <1>1, <1>2, <2>1, Zenon
  <2>2. CASE s \in sealed BY <1>1, <2>2, Zenon DEF SealInv, SealedInv
  <2> QED BY <1>5, <2>1, <2>2, Zenon
<1>9. SecretInv' BY <1>6, Zenon DEF SealInv, SecretInv, At
<1> QED BY <1>5, <1>6, <1>7, <1>8, <1>9, Zenon DEF SealInv

\* In a new instance nothing was negotiated yet, and all that was sealed is of
\* earlier ones.
LEMMA InstanceSeals ==
  ASSUME SealInv, NEW ok \in BOOLEAN, EnclaveInv, sgxsd_enclave_node_init(ok) PROVE SealInv'
<1> USE DEF sgxsd_enclave_node_init
<1>1. Ids' = {} /\ used' = {} BY DEF Ids
<1>2. RingInv'
  BY <1>1, Zenon DEF RingInv, RingTypeOK, EntriesPlaced, KeptForSize, Zeroed
<1>3. \A s \in sealed' : s[1] \in 1..(instance' - 1)
  BY DEF SealInv, SealedInv, EnclaveInv, EnclaveType
<1>4. SecretInv' /\ HeldInv' /\ SealedInv' BY <1>1, <1>3, Zenon DEF SecretInv, HeldInv, SealedInv
<1> QED BY <1>2, <1>4, Zenon DEF SealInv

LEMMA SealInitInv == EnclaveInit => SealInv
<1> SUFFICES ASSUME EnclaveInit PROVE SealInv BY Zenon
<1> USE DEF EnclaveInit
<1>1. Ids = {} BY DEF RingInit, Ids
<1> QED BY <1>1, RingInitInv, Zenon DEF SealInv, SecretInv, HeldInv, SealedInv

\* Every step keeps the secrets apart.
LEMMA SealStep == EnclaveInv /\ SealInv /\ [Next]_vars => SealInv'
<1> SUFFICES ASSUME EnclaveInv, SealInv, [Next]_vars PROVE SealInv' BY Zenon
<1>0. /\ Refresher \in Threads /\ Clients \subseteq Threads
      /\ read_rand_state \in Nat
  BY EnclaveAssumption DEF Threads, EnclaveInv, EnclaveType
<1> USE DEF enclaveVars, nodeVars, randVars, keyVars, callVars
<1>1. CASE UNCHANGED enclaveVars BY <1>1, SealSame, Zenon
<1>2. CASE UNCHANGED vars BY <1>1, <1>2, Zenon DEF vars
<1>3. ASSUME NEW t \in Threads, UNCHANGED <<ringVars, sealVars, read_rand_state, instance>>,
             \/ Leave(t)
             \/ /\ pc' = [pc EXCEPT ![t] = "rand"] /\ entered' = [entered EXCEPT ![t] = instance]
                /\ UNCHANGED drawn
      PROVE  SealInv'
  <2>1. \A u \in Threads : At(u, {"keyed", "secret"})' => At(u, {"keyed", "secret"}) /\ drawn'[u] = drawn[u]
    BY <1>3, Zenon DEF At, Leave, EnclaveInv, EnclaveType
  <2> QED BY <1>0, <1>3, <2>1, SealKept
<1>4. CASE BeginRefresh BY <1>0, <1>1, <1>3, <1>4, Zenon DEF BeginRefresh
<1>5. ASSUME NEW result, FinishReport(result) PROVE SealInv'
  BY <1>0, <1>3, <1>5, Zenon DEF FinishReport, store_report_key
<1>6. CASE FailReport BY <1>0, <1>3, <1>6, Zenon DEF FailReport, Abort
<1>7. ASSUME NEW result, Sign(result) PROVE SealInv' BY <1>1, <1>7, Zenon DEF Sign
<1>8. CASE PutQuote \/ FailActivate \/ ListExpires \/ stop \/ \E ok \in BOOLEAN : FetchList(ok)
  BY <1>1, <1>8, Zenon DEF PutQuote, FailActivate, ListExpires, stop, FetchList
<1>9. CASE ActivateQuote BY <1>9, SealSame, Zenon DEF ActivateQuote, sgxsd_enclave_set_current_quote
<1>10. CASE LoseInstance BY <1>10, SealSame, Zenon DEF LoseInstance, Lose
<1>11. ASSUME NEW t \in Threads, Draw(t) PROVE SealInv'
  <2>1. CASE read_rand_enter(t)
    <3>1. \A u \in Threads : At(u, {"keyed", "secret"})' => At(u, {"keyed", "secret"}) /\ drawn'[u] = drawn[u]
      BY <2>1, Zenon DEF read_rand_enter, At, EnclaveInv, EnclaveType
    <3> QED BY <1>0, <2>1, <3>1, SealKept DEF read_rand_enter
  <2>2. CASE read_rand_leave(t)
    <3>1. read_rand_state' = read_rand_state + 1 /\ drawn' = [drawn EXCEPT ![t] = read_rand_state + 1]
         /\ reused' = reused
      BY <2>2, ReadRandLeave, Zenon
    <3>2. drawn'[t] > read_rand_state BY <1>0, <3>1 DEF EnclaveInv, EnclaveType
    <3>3. \A u \in Threads \ {t} :
            At(u, {"keyed", "secret"})' => At(u, {"keyed", "secret"}) /\ drawn'[u] = drawn[u]
      BY <2>2, <3>1, Zenon DEF read_rand_leave, At, EnclaveInv, EnclaveType
    <3> QED BY <1>0, <2>2, <3>1, <3>2, <3>3, SealKept DEF read_rand_leave, sealVars
  <2> QED BY <1>11, <2>1, <2>2, Zenon DEF Draw
<1>12. ASSUME NEW c \in Clients, BeginHandshake(c) PROVE SealInv'
  BY <1>0, <1>1, <1>3, <1>12, Zenon DEF BeginHandshake
<1>13. ASSUME NEW c \in Clients, CopyStatic(c) PROVE SealInv'
  <2>1. \A u \in Threads : At(u, {"keyed", "secret"})' => At(u, {"keyed", "secret"}) /\ drawn'[u] = drawn[u]
    BY <1>0, <1>13, Zenon DEF CopyStatic, copy_static, At, EnclaveInv, EnclaveType
  <2> QED BY <1>0, <1>13, <2>1, SealKept DEF CopyStatic, copy_static
<1>14. ASSUME NEW c \in Clients, NEW ok \in BOOLEAN, FinishHandshake(c, ok) PROVE SealInv'
  BY <1>14, FinishSeals, Zenon DEF FinishHandshake
<1>15. ASSUME NEW c \in Clients, FailHandshake(c) PROVE SealInv'
  BY <1>0, <1>3, <1>15, Zenon DEF FailHandshake, Abort
<1>16. ASSUME NEW c \in Clients, NEW intact \in BOOLEAN, SendRequest(c, intact) PROVE SealInv'
  BY <1>1, <1>16, CallHolds, Zenon DEF SendRequest
<1>17. ASSUME NEW key, Answer(key) PROVE SealInv' BY <1>17, ReplySeals, Zenon DEF Answer
<1>18. ASSUME NEW ok \in BOOLEAN, Restart(ok) PROVE SealInv' BY <1>18, InstanceSeals, Zenon DEF Restart
<1> QED
  BY <1>2, <1>4, <1>5, <1>6, <1>7, <1>8, <1>9, <1>10, <1>11, <1>12, <1>13, <1>14, <1>15, <1>16, <1>17, <1>18, Zenon
  DEF Next, RefreshStep, ClientStep

-----------------------------------------------------------------------------
(* Quotes and the keys they attest.                                        *)

\* A step of the enclave's generator, of requests or of the loss of an instance
\* changes nothing that quotes depend on.
LEMMA QuoteKept ==
  ASSUME QuoteInv, EnclaveInv,
         UNCHANGED <<quoteVars, read_quote, read_activated, response, keyVars, static, entered, instance>>,
         UNCHANGED <<refresh, next_quote>>,
         \A c \in Clients : /\ pc'[c] # "out" => pc[c] # "out"
                            /\ pc'[c] = "secret" => pc[c] = "secret"
  PROVE  QuoteInv'
<1> USE DEF quoteVars, keyVars
<1>1. ClientType' /\ QuoteMatchesKey' BY Zenon DEF QuoteInv, ClientType, QuoteMatchesKey
<1>2. MonitorInv' BY Zenon DEF QuoteInv, MonitorInv
<1>3. StoredInv' BY Zenon DEF QuoteInv, StoredInv
<1>4. NegotiationInv' BY Zenon DEF QuoteInv, NegotiationInv, At
<1> QED BY <1>1, <1>2, <1>3, <1>4, Zenon DEF QuoteInv

\* A step of the refresher outside the monitor.
LEMMA RefreshKept ==
  ASSUME QuoteInv, EnclaveInv,
         UNCHANGED <<quoteVars, read_quote, read_activated, response, dh_keypair, instance>>,
         \A c \in Clients : pc'[c] = pc[c] /\ entered'[c] = entered[c] /\ static'[c] = static[c],
         refresh # "activate", refresh' # "activate", next_quote'.instance \in 0..instance,
         refresh' \in {"sign", "put"} /\ next_quote'.instance = instance
           => next_quote'.key = new_dh_keypair'
  PROVE  QuoteInv'
<1> USE DEF quoteVars
<1>1. ClientType' /\ QuoteMatchesKey' BY Zenon DEF QuoteInv, ClientType, QuoteMatchesKey
<1>2. MonitorInv' BY ZenonT(30) DEF QuoteInv, MonitorInv
<1>3. StoredInv' BY Zenon DEF QuoteInv, StoredInv
<1>4. NegotiationInv' BY ZenonT(30) DEF QuoteInv, NegotiationInv, At
<1> QED BY <1>1, <1>2, <1>3, <1>4, ZenonT(30) DEF QuoteInv

\* The refresher's own thread moves no other.
LEMMA OtherThreads ==
  ASSUME EnclaveInv, NEW c \in Clients
  PROVE  /\ c \in Threads /\ Refresher \in Threads /\ c # Refresher
         /\ Leave(Refresher) => pc'[c] = pc[c] /\ entered'[c] = entered[c] /\ static'[c] = static[c]
         /\ pc' = [pc EXCEPT ![Refresher] = "rand"] => pc'[c] = pc[c]
         /\ entered' = [entered EXCEPT ![Refresher] = instance] => entered'[c] = entered[c]
BY EnclaveAssumption, Zenon DEF Threads, Leave, EnclaveInv, EnclaveType

\* A report is begun, or fails, or waits for a revocation list.
LEMMA NoReportQuotes ==
  ASSUME QuoteInv, EnclaveInv, BeginRefresh \/ FailReport \/ \E ok \in BOOLEAN : FetchList(ok)
  PROVE  QuoteInv'
<1> USE DEF nodeVars, keyVars
<1>1. AfterException \in {"list", "off"} BY Zenon DEF AfterException
<1>2. instance \in Nat /\ next_quote.instance \in 0..instance BY Zenon DEF EnclaveInv, EnclaveType, QuoteInv, StoredInv
<1>3. /\ refresh \in {"list", "fetch", "report"} /\ refresh' \in {"report", "fetch", "list", "off"}
      /\ next_quote' = next_quote
      /\ UNCHANGED <<quoteVars, read_quote, read_activated, response, dh_keypair, instance>>
  BY <1>1, Zenon DEF BeginRefresh, FailReport, FetchList, PassFails, Abort, clientVars, enclaveVars
<1>4. \A c \in Clients : pc'[c] = pc[c] /\ entered'[c] = entered[c] /\ static'[c] = static[c]
  BY OtherThreads, Zenon DEF BeginRefresh, FailReport, FetchList, Abort, enclaveVars, callVars
<1> QED BY <1>2, <1>3, <1>4, RefreshKept, ZenonT(30)

\* The quote obtained is of the key just stored.
LEMMA ReportQuotes ==
  ASSUME QuoteInv, EnclaveInv, NEW result \in {"quote", "unquoted", "unreported"}, FinishReport(result)
  PROVE  QuoteInv'
<1>1. AfterException \in {"list", "off"} BY Zenon DEF AfterException
<1>2. instance \in Nat /\ next_quote.instance \in 0..instance BY ZenonT(30) DEF EnclaveInv, EnclaveType, QuoteInv, StoredInv
<1>3. /\ refresh = "report"
      /\ UNCHANGED <<quoteVars, read_quote, read_activated, response, dh_keypair, instance>>
  BY ZenonT(30) DEF FinishReport, store_report_key, nodeVars, clientVars
<1>4. \A c \in Clients : pc'[c] = pc[c] /\ entered'[c] = entered[c] /\ static'[c] = static[c]
  BY OtherThreads, ZenonT(30) DEF FinishReport, store_report_key
<1>5. CASE result = "quote"
  <2>1. next_quote'.instance = instance /\ next_quote'.key = new_dh_keypair' /\ refresh' = "sign"
    BY <1>5 DEF FinishReport, store_report_key
  <2> QED BY <1>2, <1>3, <1>4, <2>1, RefreshKept, SMTT(30)
<1>6. CASE result # "quote"
  <2>1. refresh' \in {"list", "off"} /\ next_quote' = next_quote BY <1>1, <1>6, Zenon DEF FinishReport, PassFails
  <2> QED BY <1>2, <1>3, <1>4, <2>1, RefreshKept, Zenon
<1> QED BY <1>5, <1>6, Zenon

\* Without a signature the quote is dropped.
LEMMA SignQuotes ==
  ASSUME QuoteInv, EnclaveInv, NEW result \in {"signed", "stale", "failed"}, Sign(result)
  PROVE  QuoteInv'
<1>1. AfterException \in {"list", "off"} BY Zenon DEF AfterException
<1>2. instance \in Nat /\ next_quote.instance \in 0..instance BY Zenon DEF EnclaveInv, EnclaveType, QuoteInv, StoredInv
<1>3. /\ refresh = "sign"
      /\ UNCHANGED <<quoteVars, read_quote, read_activated, response, dh_keypair, new_dh_keypair, instance>>
  BY Zenon DEF Sign, clientVars, enclaveVars, nodeVars, keyVars
<1>4. \A c \in Clients : pc'[c] = pc[c] /\ entered'[c] = entered[c] /\ static'[c] = static[c]
  BY Zenon DEF Sign, enclaveVars, callVars
<1>5. CASE result = "signed"
  <2>1. refresh' = "put" /\ next_quote' = next_quote BY <1>5 DEF Sign
  <2> QED BY <1>2, <1>3, <1>4, <2>1, RefreshKept, Zenon DEF QuoteInv, StoredInv
<1>6. CASE result # "signed"
  <2>1. refresh' \in {"fetch", "list", "off"} /\ next_quote'.instance = 0
    BY <1>1, <1>6, Zenon DEF Sign, PassFails, NoQuote
  <2>2. next_quote'.instance \in 0..instance BY <1>2, <2>1
  <2> QED BY <1>3, <1>4, <2>1, <2>2, RefreshKept, Zenon
<1> QED BY <1>5, <1>6, Zenon

\* Storing a quote and activating its key, in the monitor: no negotiation runs.
LEMMA StoreQuotes ==
  ASSUME QuoteInv, EnclaveInv, PutQuote \/ ActivateQuote \/ FailActivate PROVE QuoteInv'
<1> USE DEF nodeVars, keyVars, callVars, enclaveVars, clientVars
<1>0. NoThread # Refresher /\ \A c \in Clients : c # Refresher /\ c # NoThread
  BY EnclaveAssumption, Zenon DEF Threads
<1>1. \A c \in Clients : pc[c] = "out" /\ pc'[c] = "out"
  BY <1>0, Zenon DEF QuoteInv, MonitorInv, PutQuote, ActivateQuote, FailActivate, sgxsd_enclave_set_current_quote
<1>2. ClientType' /\ QuoteMatchesKey'
  BY Zenon DEF PutQuote, ActivateQuote, FailActivate, QuoteInv, ClientType, QuoteMatchesKey
<1>3. AfterException \in {"list", "off"} BY Zenon DEF AfterException
<1>4. MonitorInv' BY <1>0, <1>1, <1>3, Zenon DEF PutQuote, ActivateQuote, FailActivate, PassFails, MonitorInv
<1>5. instance \in Nat /\ NoQuote.instance = 0 BY Zenon DEF EnclaveInv, EnclaveType, NoQuote
<1>6. StoredInv'
  <2>1. CASE PutQuote BY <1>5, <2>1 DEF PutQuote, QuoteInv, StoredInv
  <2>2. CASE ActivateQuote
    BY <2>2, Zenon DEF ActivateQuote, sgxsd_enclave_set_current_quote, QuoteInv, StoredInv
  <2>3. CASE FailActivate BY <1>3, <2>3, ZenonT(30) DEF FailActivate, PassFails, QuoteInv, StoredInv
  <2> QED BY <2>1, <2>2, <2>3, Zenon
<1>7. NegotiationInv' BY <1>1, Zenon DEF NegotiationInv, At
<1> QED BY <1>2, <1>4, <1>6, <1>7, Zenon DEF QuoteInv

\* A negotiation reads the quote in the monitor, which nobody else holds.
LEMMA BeginQuotes ==
  ASSUME QuoteInv, EnclaveInv, NEW c \in Clients, BeginHandshake(c) PROVE QuoteInv'
<1> USE DEF BeginHandshake, nodeVars, keyVars, refreshVars
<1>0. c \in Threads /\ c # Refresher /\ NoThread # Refresher /\ Clients \subseteq Threads
  BY EnclaveAssumption, Zenon DEF Threads
<1>1. \A d \in Clients : pc[d] = "out"
  BY EnclaveAssumption, Zenon DEF QuoteInv, MonitorInv, Threads
<1>2. ClientType' /\ QuoteMatchesKey' BY Zenon DEF QuoteInv, ClientType, QuoteMatchesKey
<1>3. \A d \in Clients : pc'[d] # "out" => d = c /\ monitor' = d
  BY <1>0, <1>1 DEF EnclaveInv, EnclaveType
<1>4. \A d \in Clients : pc'[d] # "secret"
  BY <1>0, <1>1, Zenon DEF EnclaveInv, EnclaveType
<1>5. monitor' # Refresher /\ monitor # Refresher /\ refresh' = refresh BY <1>0, Zenon
<1>6. MonitorInv' BY <1>3, <1>5, Zenon DEF QuoteInv, MonitorInv
<1>7. StoredInv' BY ZenonT(30) DEF QuoteInv, StoredInv
<1>8. pc'[c] # "out" => read_quote'[c] = quotes' /\ read_activated'[c] = activated'
  BY <1>1, Zenon DEF QuoteInv, ClientType
<1>9. NegotiationInv' BY <1>3, <1>4, <1>8, Zenon DEF NegotiationInv, At
<1> QED BY <1>2, <1>6, <1>7, <1>9, Zenon DEF QuoteInv

\* It copies the key in use and answers before the monitor is free again.
LEMMA ClientQuotes ==
  ASSUME QuoteInv, EnclaveInv, NEW c \in Clients,
         \/ CopyStatic(c) \/ FailHandshake(c)
         \/ \E ok \in BOOLEAN : FinishHandshake(c, ok)
  PROVE  QuoteInv'
<1> USE DEF nodeVars, keyVars, refreshVars
<1>0. c \in Threads /\ c # Refresher /\ c # NoThread /\ NoThread # Refresher
  BY EnclaveAssumption, Zenon DEF Threads
<1>2. CASE CopyStatic(c)
  <2> USE <1>2 DEF CopyStatic, copy_static, quoteVars, clientVars
  <2>1. ClientType' /\ QuoteMatchesKey' BY Zenon DEF QuoteInv, ClientType, QuoteMatchesKey
  <2>2. StoredInv' BY ZenonT(30) DEF QuoteInv, StoredInv
  <2>3. \A d \in Clients : pc'[d] # "out" => pc[d] # "out" BY DEF EnclaveInv, EnclaveType
  <2>4. MonitorInv' BY <2>3, Zenon DEF QuoteInv, MonitorInv
  <2>5. \A d \in Clients : At(d, {"secret"})' => d = c \/ (At(d, {"secret"}) /\ static'[d] = static[d])
    BY DEF At, EnclaveInv, EnclaveType
  <2>6. static'[c] = dh_keypair BY <1>0, Zenon DEF EnclaveInv, EnclaveType
  <2>7. NegotiationInv' BY <2>3, <2>5, <2>6, Zenon DEF QuoteInv, NegotiationInv, StoredInv
  <2> QED BY <2>1, <2>2, <2>4, <2>7, Zenon DEF QuoteInv
<1>3. ASSUME pc[c] # "out", Leave(c), ForgetQuote(c), UNCHANGED <<instance, keyVars, refreshVars, quotes, activated>>,
             monitor' = IF monitor = c THEN NoThread ELSE monitor
      PROVE  MonitorInv' /\ StoredInv' /\ NegotiationInv'
  <2>1. monitor = c /\ monitor' = NoThread BY <1>3, Zenon DEF QuoteInv, MonitorInv
  <2>2. \A d \in Clients : pc'[d] = "out"
    BY <1>0, <1>3, <2>1 DEF QuoteInv, MonitorInv, Leave, EnclaveInv, EnclaveType
  <2>3. MonitorInv' BY <1>0, <1>3, <2>1, <2>2, Zenon DEF QuoteInv, MonitorInv
  <2>4. StoredInv' BY <1>3, Zenon DEF QuoteInv, StoredInv
  <2>5. NegotiationInv' BY <2>2, Zenon DEF NegotiationInv, At
  <2> QED BY <2>3, <2>4, <2>5, Zenon
<1>4. ASSUME ForgetQuote(c) PROVE read_quote' = [d \in Clients |-> read_quote'[d]]
                                  /\ read_activated' = [d \in Clients |-> read_activated'[d]]
  BY <1>4, Zenon DEF ForgetQuote, QuoteInv, ClientType
<1>5. CASE FailHandshake(c)
  <2>1. MonitorInv' /\ StoredInv' /\ NegotiationInv' BY <1>3, <1>5, Zenon DEF FailHandshake, Abort
  <2>2. ClientType' /\ QuoteMatchesKey'
    BY <1>4, <1>5, Zenon DEF FailHandshake, QuoteInv, ClientType, QuoteMatchesKey
  <2> QED BY <2>1, <2>2, Zenon DEF QuoteInv
<1>6. ASSUME NEW ok \in BOOLEAN, FinishHandshake(c, ok) PROVE QuoteInv'
  <2> USE DEF FinishHandshake, finish_negotiation
  <2>1. MonitorInv' /\ StoredInv' /\ NegotiationInv' BY <1>3, <1>6, Zenon
  <2>2. ClientType'
    <3>1. \E r : response' = [response EXCEPT ![c] = r] BY <1>6, ZenonT(30)
    <3>2. response' = [d \in Clients |-> response'[d]] BY <3>1, Zenon DEF QuoteInv, ClientType
    <3> QED BY <1>4, <1>6, <3>2, Zenon DEF ClientType
  <2>3. /\ pc[c] # "out" /\ At(c, {"secret"}) BY <1>6, Zenon DEF At, Inside
  <2>4. read_activated[c] /\ read_quote[c].instance = instance => read_quote[c].key = static[c]
    BY <2>3, Zenon DEF QuoteInv, NegotiationInv
  <2>5. /\ \A d \in Clients \ {c} : response'[d] = response[d]
        /\ \/ response'[c] = NoResponse
           \/ /\ response'[c].quote = read_quote[c] /\ response'[c].instance = instance
              /\ response'[c].static = static[c] /\ response'[c].matched = read_activated[c]
    BY <1>6, Zenon DEF QuoteInv, ClientType
  <2>6. QuoteMatchesKey'
    <3>1. /\ response'[c] # NoResponse /\ response'[c].matched
          /\ response'[c].quote.instance = response'[c].instance
          => response'[c].quote.key = response'[c].static
      BY <2>4, <2>5, Zenon
    <3>2. ASSUME NEW d \in Clients, response'[d] # NoResponse, response'[d].matched,
                 response'[d].quote.instance = response'[d].instance
          PROVE  response'[d].quote.key = response'[d].static
      <4>1. CASE d = c BY <3>1, <3>2, <4>1, Zenon
      <4>2. CASE d # c
        <5>1. response'[d] = response[d] BY <2>5, <4>2, Zenon
        <5> QED BY <3>2, <5>1, ZenonT(40) DEF QuoteInv, QuoteMatchesKey
      <4> QED BY <4>1, <4>2, Zenon
    <3> QED BY <3>2, Zenon DEF QuoteMatchesKey
  <2> QED BY <2>1, <2>2, <2>6, Zenon DEF QuoteInv
<1> QED BY <1>2, <1>5, <1>6, Zenon

\* A new instance is attested by no quote yet.
LEMMA RestartQuotes ==
  ASSUME QuoteInv, EnclaveInv, NEW ok \in BOOLEAN, Restart(ok) PROVE QuoteInv'
<1>0. /\ UNCHANGED <<pc, entered, static, quotes, monitor, activated, refresh, next_quote>>
      /\ UNCHANGED <<read_quote, read_activated, response>> /\ instance' = instance + 1
  BY Zenon DEF Restart, sgxsd_enclave_node_init, callVars, quoteVars, clientVars
<1>1. ClientType' /\ QuoteMatchesKey' BY <1>0, Zenon DEF QuoteInv, ClientType, QuoteMatchesKey
<1>2. MonitorInv' BY <1>0, Zenon DEF QuoteInv, MonitorInv
<1>3. /\ instance \in Nat
      /\ quotes.instance \in 0..instance /\ next_quote.instance \in 0..instance
  BY Zenon DEF EnclaveInv, EnclaveType, QuoteInv, StoredInv
<1>4. /\ quotes'.instance \in 0..instance' /\ quotes'.instance # instance'
      /\ next_quote'.instance \in 0..instance' /\ next_quote'.instance # instance'
  BY <1>0, <1>3
<1>5. StoredInv' BY <1>0, <1>4, Zenon DEF QuoteInv, StoredInv
<1>6. NegotiationInv' BY <1>0, <1>4, ZenonT(30) DEF QuoteInv, NegotiationInv
<1> QED BY <1>1, <1>2, <1>5, <1>6, Zenon DEF QuoteInv

LEMMA QuoteInitInv == Init => QuoteInv
<1> SUFFICES ASSUME Init PROVE QuoteInv BY Zenon
<1> USE DEF Init, EnclaveInit
<1>1. ClientType /\ QuoteMatchesKey BY ZenonT(30) DEF ClientType, QuoteMatchesKey
<1>2. NoThread # Refresher /\ \A c \in Clients : pc[c] = "out" BY EnclaveAssumption, Zenon DEF Threads
<1>3. MonitorInv BY <1>2, Zenon DEF MonitorInv
<1>4. StoredInv BY DEF StoredInv, NoQuote
<1>5. NegotiationInv BY <1>2, Zenon DEF NegotiationInv, At
<1> QED BY <1>1, <1>3, <1>4, <1>5, Zenon DEF QuoteInv

\* Every step keeps quotes and keys together.
LEMMA QuoteStep == EnclaveInv /\ QuoteInv /\ [Next]_vars => QuoteInv'
<1> SUFFICES ASSUME EnclaveInv, QuoteInv, [Next]_vars PROVE QuoteInv' BY Zenon
<1> USE DEF enclaveVars, nodeVars, callVars, refreshVars, clientVars
<1>1. ASSUME UNCHANGED <<quoteVars, read_quote, read_activated, response, keyVars, callVars, instance,
                         refresh, next_quote>>
      PROVE  QuoteInv'
  BY <1>1, QuoteKept, Zenon
<1>2. CASE UNCHANGED vars BY <1>1, <1>2, Zenon DEF vars
<1>3. CASE stop \/ ListExpires \/ LoseInstance BY <1>1, <1>3, Zenon DEF stop, ListExpires, LoseInstance, Lose
<1>4. ASSUME NEW c \in Clients, NEW intact \in BOOLEAN, SendRequest(c, intact) PROVE QuoteInv'
  BY <1>1, <1>4, Zenon DEF SendRequest, sgxsd_enclave_server_call
<1>5. ASSUME NEW key, Answer(key) PROVE QuoteInv'
  BY <1>1, <1>5, Zenon DEF Answer, sgxsd_enclave_server_reply, sgxsd_enclave_server_noreply
<1>6. ASSUME NEW t \in Threads, Draw(t) PROVE QuoteInv'
  <2>1. \A c \in Clients : /\ pc'[c] # "out" => pc[c] # "out"
                           /\ pc'[c] = "secret" => pc[c] = "secret"
    <3>1. pc \in [Threads -> {"out", "rand", "hkdf", "keyed", "secret"}] BY Zenon DEF EnclaveInv, EnclaveType
    <3>2. \/ pc[t] = "rand" /\ pc' = [pc EXCEPT ![t] = "hkdf"]
          \/ pc[t] = "hkdf" /\ pc' = [pc EXCEPT ![t] = "keyed"]
      BY <1>6, Zenon DEF Draw, read_rand_enter, read_rand_leave
    <3> QED BY <3>1, <3>2, Zenon DEF Threads
  <2> QED BY <1>6, <2>1, QuoteKept, Zenon DEF Draw, read_rand_enter, read_rand_leave
<1>7. CASE RefreshStep
  BY <1>7, NoReportQuotes, ReportQuotes, SignQuotes, StoreQuotes, Zenon DEF RefreshStep
<1>8. ASSUME NEW c \in Clients, ClientStep(c) PROVE QuoteInv'
  BY <1>4, <1>8, BeginQuotes, ClientQuotes, Zenon DEF ClientStep
<1> QED BY <1>2, <1>3, <1>5, <1>6, <1>7, <1>8, RestartQuotes, Zenon DEF Next

-----------------------------------------------------------------------------
(* The theorems.                                                           *)

\* The three invariants are inductive together.
HandshakeInv == EnclaveInv /\ SealInv /\ QuoteInv

LEMMA HandshakeInvariant == Spec => []HandshakeInv
<1>1. Init => HandshakeInv
  BY EnclaveInitInv, SealInitInv, QuoteInitInv, Zenon DEF Init, HandshakeInv
<1>2. HandshakeInv /\ [Next]_vars => HandshakeInv'
  BY EnclaveStep, SealStep, QuoteStep, Zenon DEF HandshakeInv
<1> QED BY <1>1, <1>2, PTL DEF Spec

\* Within an instance neither the draw behind a key pair nor a pair of server
\* key and IV is used twice, however the enclave's threads interleave, calls
\* fail and instances follow one another (sgxsd_enclave_read_rand,
\* negotiate_request, sgxsd_enclave_server_reply).  The IVs of the id key and
\* the freshness of a new instance's draws rest on the processor.
THEOREM NothingReusedTheorem == Spec => []NothingReused
<1>1. HandshakeInv => NothingReused
  BY Zenon DEF HandshakeInv, SealInv, NothingReused, KeysDistinct, NoIVReuse
<1> QED BY <1>1, HandshakeInvariant, PTL

\* A request is held or answered, not both, and opens once only, however often
\* it is sent (sgxsd_enclave_server_call, remove_pending_request).
THEOREM AnsweredOnceTheorem == Spec => []AnsweredOnce
<1>1. HandshakeInv => AnsweredOnce
  <2> SUFFICES ASSUME HandshakeInv, NEW key \in held, NEW r \in RandomIVs,
                      <<instance, key, ReplyIV(r)>> \in sealed
               PROVE  FALSE
    BY Zenon DEF AnsweredOnce, HandshakeInv, SealInv
  <2>1. ReplyIV(r) = 1 BY DEF RandomIVs, ReplyIV
  <2> QED BY <2>1 DEF HandshakeInv, SealInv, SealedInv, NegotiationIV, EnclaveInv, EnclaveType
<1> QED BY <1>1, HandshakeInvariant, PTL

\* A client gets the quote of the very key its request was negotiated with:
\* the monitor of getHandshake spans reading the quote and the negotiation.
THEOREM QuoteMatchesKeyTheorem == Spec => []QuoteMatchesKey
<1>1. HandshakeInv => QuoteMatchesKey BY Zenon DEF HandshakeInv, QuoteInv
<1> QED BY <1>1, HandshakeInvariant, PTL

\* The key of a stored quote that was activated is the one negotiations use,
\* until the instance is replaced (refreshQuote, setCurrentQuote).
THEOREM StoredQuoteTheorem == Spec => []StoredQuoteIsCurrent
<1>1. HandshakeInv => StoredQuoteIsCurrent
  BY Zenon DEF HandshakeInv, QuoteInv, StoredInv, StoredQuoteIsCurrent, Matched
<1> QED BY <1>1, HandshakeInvariant, PTL
=============================================================================
