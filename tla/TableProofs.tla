---------------------------- MODULE TableProofs -----------------------------
(***************************************************************************)
(* Proofs about the open-addressing table of the directory, for any        *)
(* numbers, uuids, starting capacity and load factors: TableSound, and     *)
(* that the table implements the map PhoneMap.                             *)
(***************************************************************************)
EXTENDS InternalBuffers, FiniteSetTheorems, TLAPS

-----------------------------------------------------------------------------
(* The inductive invariant.                                                *)

\* What a slot of e164s can hold.
Stored == {FREE_E164, DELETED_E164} \cup {ToBe(k) : k \in Phones}

TableOK(t) ==
  /\ t.capacity \in Nat \ {0}
  /\ t \in [e164s : [Slots(t.capacity) -> Stored], uuids : [Slots(t.capacity) -> Int],
            capacity : Nat]

\* A table in which searches work, whose live slots hold uuids.
Sound(t) ==
  /\ TableOK(t) /\ ChainUnbroken(t) /\ KeysUnique(t)
  /\ \A s \in LiveSlots(t) : UuidToBe(t.uuids[s]) \in Uuids

CapacityOK(n) ==
  /\ n >= StartingCapacity
  /\ n = StartingCapacity \/ n <= NewSlots(Cardinality(Phones))

\* The live slots that rehash has moved.
Moved == {s \in LiveSlots(table) : s < fresh.i}

\* The arrays that rehash fills hold what it has moved, have no tombstones and
\* have room for all.
RehashInv ==
  /\ fresh = [table |-> fresh.table, used |-> fresh.used, i |-> fresh.i, then |-> "idle"]
  /\ fresh.i \in 0..table.capacity
  /\ Sound(fresh.table) /\ CapacityOK(fresh.table.capacity)
  /\ element_count < fresh.table.capacity
  /\ \A s \in Slots(fresh.table.capacity) : fresh.table.e164s[s] # DELETED_E164
  /\ Cardinality(LiveSlots(fresh.table)) = Cardinality(Moved)
  /\ fresh.used = Cardinality(LiveSlots(fresh.table))
  /\ Contents(fresh.table) = {<<ToBe(table.e164s[s]), UuidToBe(table.uuids[s])>> : s \in Moved}

TableInv ==
  /\ Sound(table) /\ CapacityOK(table.capacity)
  /\ CountsExact /\ InsertSucceeds
  /\ pc \in {"idle", "add", "rehash"}
  /\ pc # "rehash" => fresh = NoFresh /\ used_slot_count < table.capacity
  /\ pc = "add" => call.e164 \in Phones /\ call.uuid \in Uuids /\ call.capacity = table.capacity
  /\ pc = "rehash" => RehashInv

-----------------------------------------------------------------------------
(* Numbers.                                                                *)

\* A non-empty set of natural numbers has a least element.
LEMMA LeastOf ==
  ASSUME NEW S \in SUBSET Nat, S # {} PROVE \E n \in S : \A m \in S : n <= m
<1>1. \E n \in S : \A m \in S : ~(<<m, n>> \in OpToRel(<, Nat))
  BY NatLessThanWellFounded, WFMin, Zenon
<1>2. PICK n \in S : \A m \in S : ~(<<m, n>> \in OpToRel(<, Nat)) BY <1>1, Zenon
<1>3. ASSUME NEW m \in S PROVE n <= m
  <2>1. <<m, n>> \notin OpToRel(<, Nat) BY <1>2, Zenon
  <2>2. m < n => <<m, n>> \in OpToRel(<, Nat) BY Zenon DEF OpToRel
  <2>3. ~(m < n) BY <2>1, <2>2, Zenon
  <2>4. m \in Nat /\ n \in Nat BY Zenon
  <2> QED BY <2>3, <2>4
<1> QED BY <1>3, Zenon

LEMMA HashInRange ==
  ASSUME NEW n \in Nat \ {0}, NEW k \in Nat PROVE hash_element(n, k) \in Slots(n)
BY DEF hash_element, Slots

\* The probes of a search are slots, each slot is one of them, and no two of
\* them are the same.
LEMMA ForwardInRange ==
  ASSUME NEW n \in Nat \ {0}, NEW s \in Slots(n), NEW d \in Slots(n)
  PROVE  Forward(n, s, d) \in Slots(n)
BY DEF Forward, Slots

LEMMA ForwardInjective ==
  ASSUME NEW n \in Nat \ {0}, NEW s \in Slots(n), NEW c \in Slots(n), NEW d \in Slots(n),
         Forward(n, s, c) = Forward(n, s, d)
  PROVE  c = d
BY DEF Forward, Slots

LEMMA ForwardOnto ==
  ASSUME NEW n \in Nat \ {0}, NEW s \in Slots(n), NEW r \in Slots(n)
  PROVE  \E d \in Slots(n) : Forward(n, s, d) = r
<1>1. CASE r >= s
  <2>1. r - s \in Slots(n) /\ Forward(n, s, r - s) = r BY <1>1 DEF Forward, Slots
  <2> QED BY <2>1, Zenon
<1>2. CASE r < s
  <2>1. r - s + n \in Slots(n) /\ Forward(n, s, r - s + n) = r BY <1>2 DEF Forward, Slots
  <2> QED BY <2>1, Zenon
<1> QED BY <1>1, <1>2 DEF Slots

\* Going on from the d-th probe.
LEMMA ForwardOn ==
  ASSUME NEW n \in Nat \ {0}, NEW s \in Slots(n), NEW c \in Slots(n), NEW d \in Slots(n),
         c <= d
  PROVE  d - c \in Slots(n) /\ Forward(n, Forward(n, s, c), d - c) = Forward(n, s, d)
BY DEF Forward, Slots

\* The bytes of a number are swapped and swapped back.
LEMMA ToBeOfPhone ==
  ASSUME NEW k \in Phones
  PROVE  /\ k \in Nat /\ k \notin {FREE_E164, DELETED_E164}
         /\ ToBe(k) \in Stored /\ ToBe(k) \notin {FREE_E164, DELETED_E164}
         /\ ToBe(ToBe(k)) = k
<1>1. k \in Nat /\ k \notin {FREE_E164, DELETED_E164} BY KeyAssumption, Zenon
<1>2. ToBe(k) = -k BY <1>1, Zenon DEF ToBe
<1>3. -k \notin {FREE_E164, DELETED_E164} BY <1>1, KeyAssumption DEF FREE_E164
<1>4. ToBe(-k) = -(-k) BY <1>3, Zenon DEF ToBe
<1>5. ToBe(k) \in Stored BY Zenon DEF Stored
<1> QED BY <1>1, <1>2, <1>3, <1>4, <1>5

LEMMA ToBeOfStored ==
  ASSUME NEW x \in Stored, x \notin {FREE_E164, DELETED_E164}
  PROVE  ToBe(x) \in Phones /\ ToBe(ToBe(x)) = x
<1>1. PICK k \in Phones : x = ToBe(k) BY Zenon DEF Stored
<1> QED BY <1>1, ToBeOfPhone, Zenon

LEMMA ToBeOfMarks ==
  ToBe(FREE_E164) = FREE_E164 /\ ToBe(DELETED_E164) = DELETED_E164
BY Zenon DEF ToBe

-----------------------------------------------------------------------------
(* Searches.                                                               *)

LEMMA ProbeFacts ==
  ASSUME NEW t, TableOK(t), NEW k \in Phones
  PROVE  /\ \A d \in Slots(t.capacity) : Probe(t, k, d) \in Slots(t.capacity)
         /\ \A c, d \in Slots(t.capacity) : Probe(t, k, c) = Probe(t, k, d) => c = d
         /\ \A s \in Slots(t.capacity) : \E d \in Slots(t.capacity) : Probe(t, k, d) = s
         /\ \A c, d \in Slots(t.capacity) : c <= d =>
              /\ d - c \in Slots(t.capacity)
              /\ Forward(t.capacity, Probe(t, k, c), d - c) = Probe(t, k, d)
<1>1. t.capacity \in Nat \ {0} BY Zenon DEF TableOK
<1>2. hash_element(t.capacity, k) \in Slots(t.capacity) BY <1>1, HashInRange, ToBeOfPhone, Zenon
<1>3. \A d \in Slots(t.capacity) : Probe(t, k, d) \in Slots(t.capacity)
  BY <1>1, <1>2, ForwardInRange, Zenon DEF Probe
<1>4. \A c, d \in Slots(t.capacity) : Probe(t, k, c) = Probe(t, k, d) => c = d
  BY <1>1, <1>2, ForwardInjective, Zenon DEF Probe
<1>5. \A s \in Slots(t.capacity) : \E d \in Slots(t.capacity) : Probe(t, k, d) = s
  BY <1>1, <1>2, ForwardOnto, Zenon DEF Probe
<1>6. \A c, d \in Slots(t.capacity) : c <= d =>
        /\ d - c \in Slots(t.capacity)
        /\ Forward(t.capacity, Probe(t, k, c), d - c) = Probe(t, k, d)
  BY <1>1, <1>2, ForwardOn, Zenon DEF Probe
<1> QED BY <1>3, <1>4, <1>5, <1>6, Zenon

\* k is stored in slot s.
Holds(t, k, s) == s \in Slots(t.capacity) /\ t.e164s[s] = ToBe(k)

LEMMA HoldsLive ==
  ASSUME NEW t, NEW k \in Phones, NEW s, Holds(t, k, s)
  PROVE  s \in LiveSlots(t) /\ ToBe(t.e164s[s]) = k
BY ToBeOfPhone, Zenon DEF Holds, LiveSlots, Live

\* In a sound table a number that is stored is at one place of its probes, and
\* those before it are neither free nor hold it.
LEMMA HeldChain ==
  ASSUME NEW t, Sound(t), NEW k \in Phones, NEW s, Holds(t, k, s)
  PROVE  \E d \in Slots(t.capacity) :
           /\ Probe(t, k, d) = s
           /\ \A c \in 0..(d - 1) :
                /\ c \in Slots(t.capacity)
                /\ t.e164s[Probe(t, k, c)] \notin {FREE_E164, ToBe(k)}
<1>1. TableOK(t) /\ ChainUnbroken(t) /\ KeysUnique(t) BY Zenon DEF Sound
<1>2. s \in LiveSlots(t) /\ ToBe(t.e164s[s]) = k BY HoldsLive, Zenon
<1>3. s \in Slots(t.capacity) BY Zenon DEF Holds
<1>4. PICK d \in Slots(t.capacity) : Probe(t, k, d) = s BY <1>1, <1>3, ProbeFacts, Zenon
<1>5. \A c \in 0..(d - 1) : t.e164s[Probe(t, k, c)] # FREE_E164
  BY <1>1, <1>2, <1>4, Zenon DEF ChainUnbroken
<1>6. \A c \in 0..(d - 1) : c \in Slots(t.capacity) /\ c # d
  BY <1>1, <1>4 DEF Slots, TableOK
<1>7. ASSUME NEW c \in 0..(d - 1) PROVE t.e164s[Probe(t, k, c)] # ToBe(k)
  <2>1. SUFFICES ASSUME t.e164s[Probe(t, k, c)] = ToBe(k) PROVE FALSE BY Zenon
  <2>2. Probe(t, k, c) \in Slots(t.capacity) BY <1>1, <1>6, ProbeFacts, Zenon
  <2>3. Holds(t, k, Probe(t, k, c)) BY <2>1, <2>2, Zenon DEF Holds
  <2>4. Probe(t, k, c) \in LiveSlots(t) BY <2>3, HoldsLive, Zenon
  <2>5. t.e164s[s] = ToBe(k) BY Zenon DEF Holds
  <2>6. Probe(t, k, c) = s BY <1>1, <1>2, <2>1, <2>4, <2>5, Zenon DEF KeysUnique
  <2> QED BY <1>1, <1>4, <1>6, <2>6, ProbeFacts
<1> QED BY <1>4, <1>5, <1>6, <1>7, Zenon

\* remove_from_buffer finds a number that is stored, and only where it is.
LEMMA SearchFinds ==
  ASSUME NEW t, Sound(t), NEW k \in Phones, NEW s \in Slots(t.capacity)
  PROVE  FoundAt(t, k, s) <=> Holds(t, k, s)
<1>1. FoundAt(t, k, s) => Holds(t, k, s) BY Zenon DEF FoundAt, Holds
<1>2. ASSUME Holds(t, k, s) PROVE FoundAt(t, k, s)
  BY <1>2, HeldChain, Zenon DEF FoundAt, Holds
<1> QED BY <1>1, <1>2, Zenon

\* The slot s is one that add_to_buffer may use for a number that is not stored.
VacantFor(t, k, s) ==
  /\ s \in Slots(t.capacity) /\ t.e164s[s] \in {FREE_E164, DELETED_E164}
  /\ \A r \in Slots(t.capacity) : ~Holds(t, k, r)
  /\ \E d \in Slots(t.capacity) :
       /\ Probe(t, k, d) = s
       /\ \A c \in 0..(d - 1) : t.e164s[Probe(t, k, c)] # FREE_E164

\* add_to_buffer writes the slot that holds the number, or one that may be used
\* for it.
LEMMA AddSlotIsRight ==
  ASSUME NEW t, Sound(t), NEW k \in Phones, NEW s, AddSlot(t, k, s)
  PROVE  Holds(t, k, s) \/ VacantFor(t, k, s)
<1>1. TableOK(t) /\ t.capacity \in Nat \ {0} BY Zenon DEF Sound, TableOK
<1>2. PICK d \in Slots(t.capacity) :
        /\ StopsAt(t, k, d)
        /\ LET f == Probe(t, k, d)
           IN  \/ \E e \in Slots(t.capacity) :
                    FoundFrom(t, k, f, e) /\ s = Forward(t.capacity, f, e)
               \/ /\ s = f
                  /\ \A e \in Slots(t.capacity) : ~FoundFrom(t, k, f, e)
  BY Zenon DEF AddSlot
<1> DEFINE f == Probe(t, k, d)
<1>3. f \in Slots(t.capacity) BY <1>1, ProbeFacts, Zenon
<1>4. CASE \E e \in Slots(t.capacity) : FoundFrom(t, k, f, e) /\ s = Forward(t.capacity, f, e)
  <2>1. PICK e \in Slots(t.capacity) : FoundFrom(t, k, f, e) /\ s = Forward(t.capacity, f, e)
    BY <1>4, Zenon
  <2>2. s \in Slots(t.capacity) BY <1>1, <1>3, <2>1, ForwardInRange, Zenon
  <2> QED BY <2>1, <2>2, Zenon DEF FoundFrom, Holds
<1>5. CASE s = f /\ \A e \in Slots(t.capacity) : ~FoundFrom(t, k, f, e)
  <2>1. ASSUME NEW r \in Slots(t.capacity), Holds(t, k, r) PROVE FALSE
    <3>1. PICK d0 \in Slots(t.capacity) :
            /\ Probe(t, k, d0) = r
            /\ \A c \in 0..(d0 - 1) :
                 /\ c \in Slots(t.capacity)
                 /\ t.e164s[Probe(t, k, c)] \notin {FREE_E164, ToBe(k)}
      BY <2>1, HeldChain, Zenon
    <3>2. t.e164s[Probe(t, k, d0)] = ToBe(k) BY <2>1, <3>1, Zenon DEF Holds
    <3>3. d <= d0
      <4>1. ~(d0 \in 0..(d - 1)) BY <1>2, <3>2, Zenon DEF StopsAt
      <4> QED BY <4>1, <1>1 DEF Slots
    <3> DEFINE e == d0 - d
    <3>4. e \in Slots(t.capacity) /\ Forward(t.capacity, f, e) = Probe(t, k, d0)
      BY <1>1, <3>3, ProbeFacts
    <3>5. ASSUME NEW c \in 0..(e - 1)
          PROVE  t.e164s[Forward(t.capacity, f, c)] \notin {FREE_E164, ToBe(k)}
      <4>1. c + d \in 0..(d0 - 1) /\ d <= c + d /\ (c + d) - d = c
        BY <1>1, <3>3 DEF Slots
      <4>2. c + d \in Slots(t.capacity) BY <3>1, <4>1, Zenon
      <4>3. Forward(t.capacity, f, c) = Probe(t, k, c + d)
        BY <1>1, <4>1, <4>2, ProbeFacts
      <4> QED BY <3>1, <4>1, <4>3, Zenon
    <3>6. FoundFrom(t, k, f, e) BY <3>2, <3>4, <3>5, Zenon DEF FoundFrom
    <3> QED BY <1>5, <3>4, <3>6, Zenon
  <2>2. t.e164s[f] \in {FREE_E164, DELETED_E164}
    <3>1. t.e164s[f] \in {FREE_E164, DELETED_E164, ToBe(k)} BY <1>2, Zenon DEF StopsAt
    <3>2. t.e164s[f] # ToBe(k) BY <1>3, <2>1, Zenon DEF Holds
    <3> QED BY <3>1, <3>2, Zenon
  <2>3. \A c \in 0..(d - 1) : t.e164s[Probe(t, k, c)] # FREE_E164 BY <1>2, Zenon DEF StopsAt
  <2> QED BY <1>3, <1>5, <2>1, <2>2, <2>3, Zenon DEF VacantFor
<1> QED BY <1>2, <1>4, <1>5, Zenon

\* With a slot that is not used add_to_buffer does not panic.
LEMMA RoomMeansNoPanic ==
  ASSUME NEW t, Sound(t), NEW k \in Phones, NEW s \in Slots(t.capacity),
         t.e164s[s] = FREE_E164
  PROVE  ~AddPanics(t, k)
<1> DEFINE D == {d \in Slots(t.capacity) :
                   t.e164s[Probe(t, k, d)] \in {FREE_E164, DELETED_E164, ToBe(k)}}
<1>1. TableOK(t) /\ t.capacity \in Nat \ {0} BY Zenon DEF Sound, TableOK
<1>2. PICK d0 \in Slots(t.capacity) : Probe(t, k, d0) = s BY <1>1, ProbeFacts, Zenon
<1>3. D \in SUBSET Nat /\ d0 \in D BY <1>1, <1>2 DEF Slots
<1>4. PICK d \in D : \A c \in D : d <= c BY <1>3, LeastOf, Zenon
<1>5. ASSUME NEW c \in 0..(d - 1)
      PROVE  t.e164s[Probe(t, k, c)] \notin {FREE_E164, DELETED_E164, ToBe(k)}
  <2>1. c \in Slots(t.capacity) /\ ~(d <= c) BY <1>1, <1>4 DEF Slots
  <2> QED BY <1>4, <2>1, Zenon
<1>6. StopsAt(t, k, d) BY <1>4, <1>5, Zenon DEF StopsAt
<1> QED BY <1>4, <1>6, Zenon DEF AddPanics

-----------------------------------------------------------------------------
(* Writing a slot.                                                         *)

LEMMA WrittenIs ==
  ASSUME NEW t, TableOK(t), NEW s \in Slots(t.capacity), NEW key \in Stored, NEW v \in Int
  PROVE  LET w == Written(t, s, key, v)
         IN  /\ TableOK(w) /\ w.capacity = t.capacity
             /\ w.e164s[s] = key /\ w.uuids[s] = v
             /\ \A r \in Slots(t.capacity) : r # s =>
                  w.e164s[r] = t.e164s[r] /\ w.uuids[r] = t.uuids[r]
BY Zenon DEF TableOK, Written

LEMMA ProbeSame ==
  ASSUME NEW t, NEW w, w.capacity = t.capacity, NEW k, NEW d
  PROVE  Probe(w, k, d) = Probe(t, k, d)
BY Zenon DEF Probe

LEMMA UuidSwap ==
  ASSUME NEW u \in Uuids PROVE UuidToBe(u) \in Int /\ UuidToBe(UuidToBe(u)) = u
BY KeyAssumption DEF UuidToBe

\* A number that is not stored is written to a slot that may be used for it.
LEMMA AddVacant ==
  ASSUME NEW t, Sound(t), NEW k \in Phones, NEW s, VacantFor(t, k, s),
         NEW v \in Int, UuidToBe(v) \in Uuids
  PROVE  LET w == Written(t, s, ToBe(k), v)
         IN  /\ Sound(w) /\ w.capacity = t.capacity
             /\ s \notin LiveSlots(t) /\ LiveSlots(w) = LiveSlots(t) \cup {s}
             /\ UsedSlots(w) = UsedSlots(t) \cup {s}
             /\ Contents(w) = Contents(t) \cup {<<k, UuidToBe(v)>>}
             /\ \A p \in Contents(t) : p[1] # k
             /\ \A r \in Slots(t.capacity) : w.e164s[r] \in {t.e164s[r], ToBe(k)}
<1> DEFINE w == Written(t, s, ToBe(k), v)
<1>1. TableOK(t) /\ ChainUnbroken(t) /\ KeysUnique(t) BY Zenon DEF Sound
<1>2. s \in Slots(t.capacity) /\ t.e164s[s] \in {FREE_E164, DELETED_E164} BY Zenon DEF VacantFor
<1>3. /\ TableOK(w) /\ w.capacity = t.capacity
      /\ w.e164s[s] = ToBe(k) /\ w.uuids[s] = v
      /\ \A r \in Slots(t.capacity) : r # s =>
           w.e164s[r] = t.e164s[r] /\ w.uuids[r] = t.uuids[r]
  BY <1>1, <1>2, WrittenIs, ToBeOfPhone
<1> HIDE DEF w
<1>4. ToBe(ToBe(k)) = k /\ ToBe(k) \notin {FREE_E164, DELETED_E164} BY ToBeOfPhone, Zenon
<1>5. s \notin LiveSlots(t) BY <1>2, Zenon DEF LiveSlots, Live
<1>6. LiveSlots(w) = LiveSlots(t) \cup {s} BY <1>2, <1>3, <1>4, Zenon DEF LiveSlots, Live
<1>7. UsedSlots(w) = UsedSlots(t) \cup {s} BY <1>2, <1>3, <1>4, Zenon DEF UsedSlots
<1>8. \A r \in LiveSlots(t) : /\ r # s /\ w.e164s[r] = t.e164s[r] /\ w.uuids[r] = t.uuids[r]
                               /\ t.e164s[r] # ToBe(k) /\ r \in Slots(t.capacity)
  <2>1. \A r \in LiveSlots(t) : r # s /\ r \in Slots(t.capacity) BY <1>5, Zenon DEF LiveSlots
  <2>2. \A r \in Slots(t.capacity) : t.e164s[r] # ToBe(k) BY Zenon DEF VacantFor, Holds
  <2> QED BY <1>3, <2>1, <2>2, Zenon
<1>9. \A p \in Contents(t) : p[1] # k
  <2>1. SUFFICES ASSUME NEW r \in LiveSlots(t), ToBe(t.e164s[r]) = k PROVE FALSE BY DEF Contents
  <2>2. t.e164s[r] \in Stored /\ t.e164s[r] \notin {FREE_E164, DELETED_E164}
    BY <1>1, <2>1, Zenon DEF LiveSlots, Live, TableOK
  <2>3. t.e164s[r] = ToBe(k) BY <2>1, <2>2, ToBeOfStored, Zenon
  <2> QED BY <1>8, <2>3, Zenon
<1>10. Contents(w) = Contents(t) \cup {<<k, UuidToBe(v)>>}
  BY <1>3, <1>4, <1>6, <1>8 DEF Contents
<1>11. KeysUnique(w)
  <2>1. SUFFICES ASSUME NEW r \in LiveSlots(w), NEW q \in LiveSlots(w), w.e164s[r] = w.e164s[q]
                 PROVE  r = q
    BY Zenon DEF KeysUnique
  <2> QED BY <1>1, <1>3, <1>6, <1>8, <2>1, Zenon DEF KeysUnique
<1>12. ChainUnbroken(w)
  <2>1. SUFFICES ASSUME NEW r \in LiveSlots(w), NEW d \in Slots(t.capacity),
                        Probe(t, ToBe(w.e164s[r]), d) = r, NEW c \in 0..(d - 1)
                 PROVE  w.e164s[Probe(t, ToBe(w.e164s[r]), c)] # FREE_E164
    BY <1>3, ProbeSame DEF ChainUnbroken
  <2> DEFINE x == ToBe(w.e164s[r])
  <2>2. c \in Slots(t.capacity) BY <1>1 DEF Slots, TableOK
  <2>3. x \in Phones
    <3>1. w.e164s[r] \in Stored /\ w.e164s[r] \notin {FREE_E164, DELETED_E164}
      BY <1>3, <2>1, Zenon DEF LiveSlots, Live, TableOK
    <3> QED BY <3>1, ToBeOfStored, Zenon
  <2>4. Probe(t, x, c) \in Slots(t.capacity) BY <1>1, <2>2, <2>3, ProbeFacts, Zenon
  <2>5. t.e164s[Probe(t, x, c)] # FREE_E164
    <3>1. CASE r = s
      <4>1. x = k BY <1>3, <1>4, <3>1, Zenon
      <4>2. PICK d1 \in Slots(t.capacity) :
              /\ Probe(t, k, d1) = s
              /\ \A b \in 0..(d1 - 1) : t.e164s[Probe(t, k, b)] # FREE_E164
        BY Zenon DEF VacantFor
      <4>3. d = d1 BY <1>1, <2>1, <3>1, <4>1, <4>2, ProbeFacts
      <4> QED BY <4>1, <4>2, <4>3, Zenon
    <3>2. CASE r # s
      <4>1. r \in LiveSlots(t) /\ w.e164s[r] = t.e164s[r] BY <1>6, <1>8, <2>1, <3>2, Zenon
      <4> QED BY <1>1, <2>1, <4>1, Zenon DEF ChainUnbroken
    <3> QED BY <3>1, <3>2, Zenon
  <2>6. CASE Probe(t, x, c) = s BY <1>3, <1>4, <2>6, Zenon
  <2>7. CASE Probe(t, x, c) # s BY <1>3, <2>4, <2>5, <2>7, Zenon
  <2> QED BY <2>6, <2>7, Zenon
<1>13. \A r \in LiveSlots(w) : UuidToBe(w.uuids[r]) \in Uuids
  BY <1>3, <1>6, <1>8, Zenon DEF Sound
<1>14. Sound(w) BY <1>3, <1>11, <1>12, <1>13, Zenon DEF Sound
<1>15. \A r \in Slots(t.capacity) : w.e164s[r] \in {t.e164s[r], ToBe(k)} BY <1>3, Zenon
<1> QED BY <1>3, <1>5, <1>6, <1>7, <1>9, <1>10, <1>14, <1>15, Zenon DEF w

\* What is left when a number is taken out.
Without(t, k) == {p \in Contents(t) : p[1] # k}

\* The pair of a number that is stored.
LEMMA HeldPair ==
  ASSUME NEW t, Sound(t), NEW k \in Phones, NEW s, Holds(t, k, s)
  PROVE  /\ s \in LiveSlots(t) /\ \E u \in Uuids : <<k, u>> \in Contents(t)
         /\ Without(t, k) = {<<ToBe(t.e164s[r]), UuidToBe(t.uuids[r])>> : r \in LiveSlots(t) \ {s}}
<1>1. s \in LiveSlots(t) /\ ToBe(t.e164s[s]) = k BY HoldsLive, Zenon
<1>2. UuidToBe(t.uuids[s]) \in Uuids BY <1>1, Zenon DEF Sound
<1>3. <<k, UuidToBe(t.uuids[s])>> \in Contents(t) BY <1>1, Zenon DEF Contents
<1>4. \A r \in LiveSlots(t) : ToBe(t.e164s[r]) = k <=> r = s
  <2>1. SUFFICES ASSUME NEW r \in LiveSlots(t), ToBe(t.e164s[r]) = k PROVE r = s BY <1>1, Zenon
  <2>2. t.e164s[r] \in Stored /\ t.e164s[r] \notin {FREE_E164, DELETED_E164}
    BY <2>1, Zenon DEF Sound, LiveSlots, Live, TableOK
  <2>3. t.e164s[r] = t.e164s[s] BY <2>1, <2>2, ToBeOfStored, Zenon DEF Holds
  <2> QED BY <1>1, <2>1, <2>3, Zenon DEF Sound, KeysUnique
<1>5. Without(t, k) = {<<ToBe(t.e164s[r]), UuidToBe(t.uuids[r])>> : r \in LiveSlots(t) \ {s}}
  BY <1>4 DEF Without, Contents
<1> QED BY <1>1, <1>2, <1>3, <1>5, Zenon

\* A table in which no free slot appeared and each live slot kept its number is
\* as searchable as before.
LEMMA FewerLive ==
  ASSUME NEW t, Sound(t), NEW w, TableOK(w), w.capacity = t.capacity,
         \A r \in Slots(t.capacity) : w.e164s[r] = FREE_E164 => t.e164s[r] = FREE_E164,
         \A r \in LiveSlots(w) : r \in LiveSlots(t) /\ w.e164s[r] = t.e164s[r]
  PROVE  ChainUnbroken(w) /\ KeysUnique(w)
<1>1. TableOK(t) /\ ChainUnbroken(t) /\ KeysUnique(t) BY Zenon DEF Sound
<1>2. KeysUnique(w) BY <1>1, Zenon DEF KeysUnique
<1>3. ChainUnbroken(w)
  <2>1. SUFFICES ASSUME NEW r \in LiveSlots(w), NEW d \in Slots(t.capacity),
                        Probe(t, ToBe(w.e164s[r]), d) = r, NEW c \in 0..(d - 1)
                 PROVE  w.e164s[Probe(t, ToBe(w.e164s[r]), c)] # FREE_E164
    BY ProbeSame DEF ChainUnbroken
  <2> DEFINE x == ToBe(t.e164s[r])
  <2>2. r \in LiveSlots(t) /\ w.e164s[r] = t.e164s[r] BY <2>1, Zenon
  <2>3. t.e164s[Probe(t, x, c)] # FREE_E164 BY <1>1, <2>1, <2>2, Zenon DEF ChainUnbroken
  <2>4. x \in Phones
    <3>1. t.e164s[r] \in Stored /\ t.e164s[r] \notin {FREE_E164, DELETED_E164}
      BY <1>1, <2>2, Zenon DEF LiveSlots, Live, TableOK
    <3> QED BY <3>1, ToBeOfStored, Zenon
  <2>5. c \in Slots(t.capacity) BY <1>1 DEF Slots, TableOK
  <2>6. Probe(t, x, c) \in Slots(t.capacity) BY <1>1, <2>4, <2>5, ProbeFacts, Zenon
  <2> QED BY <2>2, <2>3, <2>6, Zenon
<1> QED BY <1>2, <1>3, Zenon

\* The uuid of a number that is stored is overwritten.
LEMMA AddHeld ==
  ASSUME NEW t, Sound(t), NEW k \in Phones, NEW s, Holds(t, k, s),
         NEW v \in Int, UuidToBe(v) \in Uuids
  PROVE  LET w == Written(t, s, ToBe(k), v)
         IN  /\ Sound(w) /\ w.capacity = t.capacity
             /\ LiveSlots(w) = LiveSlots(t) /\ UsedSlots(w) = UsedSlots(t)
             /\ Contents(w) = Without(t, k) \cup {<<k, UuidToBe(v)>>}
<1> DEFINE w == Written(t, s, ToBe(k), v)
<1>1. TableOK(t) /\ s \in Slots(t.capacity) /\ t.e164s[s] = ToBe(k) BY Zenon DEF Sound, Holds
<1>2. /\ TableOK(w) /\ w.capacity = t.capacity
      /\ w.e164s[s] = ToBe(k) /\ w.uuids[s] = v
      /\ \A r \in Slots(t.capacity) : r # s =>
           w.e164s[r] = t.e164s[r] /\ w.uuids[r] = t.uuids[r]
  BY <1>1, WrittenIs, ToBeOfPhone
<1> HIDE DEF w
<1>3. \A r \in Slots(t.capacity) : w.e164s[r] = t.e164s[r] BY <1>1, <1>2, Zenon
<1>4. LiveSlots(w) = LiveSlots(t) BY <1>2, <1>3, Zenon DEF LiveSlots, Live
<1>5. UsedSlots(w) = UsedSlots(t) BY <1>2, <1>3, Zenon DEF UsedSlots
<1>6. \A r \in LiveSlots(t) : r \in Slots(t.capacity) BY Zenon DEF LiveSlots
<1>7. ChainUnbroken(w) /\ KeysUnique(w) BY <1>2, <1>3, <1>4, <1>6, FewerLive, Zenon
<1>8. \A r \in LiveSlots(w) : UuidToBe(w.uuids[r]) \in Uuids
  BY <1>2, <1>4, <1>6, Zenon DEF Sound
<1>9. Sound(w) BY <1>2, <1>7, <1>8, Zenon DEF Sound
<1>10. /\ s \in LiveSlots(t)
       /\ Without(t, k) = {<<ToBe(t.e164s[r]), UuidToBe(t.uuids[r])>> : r \in LiveSlots(t) \ {s}}
  BY HeldPair, Zenon
<1>11. Contents(w) = {<<ToBe(w.e164s[r]), UuidToBe(w.uuids[r])>> : r \in LiveSlots(t) \ {s}}
                       \cup {<<ToBe(w.e164s[s]), UuidToBe(w.uuids[s])>>}
  BY <1>4, <1>10, Zenon DEF Contents
<1>12. {<<ToBe(w.e164s[r]), UuidToBe(w.uuids[r])>> : r \in LiveSlots(t) \ {s}} = Without(t, k)
  BY <1>2, <1>6, <1>10, Zenon
<1>13. <<ToBe(w.e164s[s]), UuidToBe(w.uuids[s])>> = <<k, UuidToBe(v)>> BY <1>2, ToBeOfPhone, Zenon
<1> QED BY <1>2, <1>4, <1>5, <1>9, <1>11, <1>12, <1>13, Zenon DEF w

\* remove leaves a tombstone.
LEMMA RemoveHeld ==
  ASSUME NEW t, Sound(t), NEW k \in Phones, NEW s, Holds(t, k, s)
  PROVE  LET w == Written(t, s, DELETED_E164, FREE_UUID)
         IN  /\ Sound(w) /\ w.capacity = t.capacity
             /\ LiveSlots(w) = LiveSlots(t) \ {s} /\ UsedSlots(w) = UsedSlots(t)
             /\ Contents(w) = Without(t, k)
<1> DEFINE w == Written(t, s, DELETED_E164, FREE_UUID)
<1>1. TableOK(t) /\ s \in Slots(t.capacity) /\ t.e164s[s] = ToBe(k) BY Zenon DEF Sound, Holds
<1>2. /\ TableOK(w) /\ w.capacity = t.capacity
      /\ w.e164s[s] = DELETED_E164
      /\ \A r \in Slots(t.capacity) : r # s =>
           w.e164s[r] = t.e164s[r] /\ w.uuids[r] = t.uuids[r]
  <2>1. DELETED_E164 \in Stored /\ FREE_UUID \in Int BY DEF Stored, FREE_UUID
  <2> QED BY <1>1, <2>1, WrittenIs
<1> HIDE DEF w
<1>3. DELETED_E164 # FREE_E164 BY KeyAssumption, Zenon
<1>4. ToBe(k) \notin {FREE_E164, DELETED_E164} BY ToBeOfPhone, Zenon
<1>5. LiveSlots(w) = LiveSlots(t) \ {s} BY <1>1, <1>2, Zenon DEF LiveSlots, Live
<1>6. UsedSlots(w) = UsedSlots(t) BY <1>1, <1>2, <1>3, <1>4, Zenon DEF UsedSlots
<1>7. \A r \in LiveSlots(w) : /\ r \in LiveSlots(t) /\ r # s
                              /\ w.e164s[r] = t.e164s[r] /\ w.uuids[r] = t.uuids[r]
  BY <1>2, <1>5, Zenon DEF LiveSlots
<1>8. \A r \in Slots(t.capacity) : w.e164s[r] = FREE_E164 => t.e164s[r] = FREE_E164
  BY <1>2, <1>3, Zenon
<1>9. ChainUnbroken(w) /\ KeysUnique(w) BY <1>2, <1>7, <1>8, FewerLive, Zenon
<1>10. Sound(w) BY <1>2, <1>7, <1>9, Zenon DEF Sound
<1>11. Without(t, k) = {<<ToBe(t.e164s[r]), UuidToBe(t.uuids[r])>> : r \in LiveSlots(t) \ {s}}
  BY HeldPair, Zenon
<1>12. Contents(w) = Without(t, k) BY <1>5, <1>7, <1>11, Zenon DEF Contents
<1> QED BY <1>2, <1>5, <1>6, <1>10, <1>12, Zenon DEF w

-----------------------------------------------------------------------------
(* Counts and capacities.                                                  *)

LEMMA DivRounds ==
  ASSUME NEW a \in Nat, NEW n \in Nat \ {0}
  PROVE  a \div n \in Nat /\ n * (a \div n) <= a /\ a < n * (a \div n) + n
OBVIOUS

LEMMA MulMonotone ==
  ASSUME NEW x \in Int, NEW y \in Int, NEW n \in Nat, x <= y PROVE n * x <= n * y
OBVIOUS

\* A quotient is at least q when the divisor goes in q times.
LEMMA DivAtLeast ==
  ASSUME NEW a \in Nat, NEW n \in Nat \ {0}, NEW q \in Nat
  PROVE  n * q <= a <=> q <= a \div n
<1> DEFINE b == a \div n
<1>1. b \in Nat /\ n * b <= a /\ a < n * b + n BY DivRounds, Zenon
<1> HIDE DEF b
<1>2. ASSUME q <= b PROVE n * q <= a
  <2>1. n * q <= n * b BY <1>1, <1>2, MulMonotone
  <2>2. n * q \in Int /\ n * b \in Int BY <1>1
  <2> QED BY <1>1, <2>1, <2>2
<1>3. ASSUME ~(q <= b) PROVE ~(n * q <= a)
  <2>1. n * (b + 1) <= n * q BY <1>1, <1>3, MulMonotone
  <2>2. n * (b + 1) = n * b + n BY <1>1
  <2>3. n * q \in Int /\ n * b \in Int BY <1>1
  <2> QED BY <1>1, <2>1, <2>2, <2>3
<1> QED BY <1>2, <1>3, Zenon DEF b

LEMMA NewSlotsMonotone ==
  ASSUME NEW a \in Nat, NEW b \in Nat, a <= b
  PROVE  NewSlots(a) \in Nat /\ NewSlots(a) <= NewSlots(b)
<1>1. LoadUnit \in Nat /\ MinLoad \in Nat \ {0} BY LoadAssumption, Zenon
<1> DEFINE q == NewSlots(a)
<1>2. a * LoadUnit \in Nat /\ b * LoadUnit \in Nat /\ a * LoadUnit <= b * LoadUnit
  <2>1. a * LoadUnit = LoadUnit * a /\ b * LoadUnit = LoadUnit * b BY <1>1
  <2>2. LoadUnit * a \in Nat /\ LoadUnit * b \in Nat BY <1>1
  <2> QED BY <1>1, <2>1, <2>2, MulMonotone
<1>3. q \in Nat /\ MinLoad * q <= a * LoadUnit BY <1>1, <1>2, DivRounds, Zenon DEF NewSlots
<1>4. MinLoad * q <= b * LoadUnit
  <2>1. MinLoad * q \in Int BY <1>1, <1>3
  <2> HIDE DEF q
  <2> QED BY <1>2, <1>3, <2>1
<1> HIDE DEF q
<1>5. q <= (b * LoadUnit) \div MinLoad BY <1>1, <1>2, <1>3, <1>4, DivAtLeast, Zenon
<1> QED BY <1>3, <1>5, Zenon DEF NewSlots, q

\* A table that is full grows, whatever its size, since the smallest one does.
LEMMA FullTableGrows ==
  ASSUME NEW n \in Nat, n >= StartingCapacity
  PROVE  NewSlots(n) > n
<1>1. /\ StartingCapacity \in Nat \ {0} /\ MinLoad \in Nat \ {0} /\ LoadUnit \in Nat
      /\ MinLoad < LoadUnit /\ NewSlots(StartingCapacity) > StartingCapacity
  BY LoadAssumption
<1> DEFINE s == StartingCapacity
           room == LoadUnit - MinLoad
<1>2. s * LoadUnit \in Nat /\ n * LoadUnit \in Nat BY <1>1
<1>3. NewSlots(s) \in Nat /\ NewSlots(n) \in Nat BY <1>1, NewSlotsMonotone
<1>4. MinLoad * (s + 1) <= s * LoadUnit
  <2>1. s + 1 <= NewSlots(s) BY <1>1, <1>3
  <2> QED BY <1>1, <1>2, <2>1, DivAtLeast DEF NewSlots
<1>5. room * s <= room * n BY <1>1, MulMonotone
<1>6. s * LoadUnit = room * s + MinLoad * s /\ n * LoadUnit = room * n + MinLoad * n BY <1>1
<1>7. MinLoad * (s + 1) = MinLoad * s + MinLoad /\ MinLoad * (n + 1) = MinLoad * n + MinLoad
  BY <1>1
<1>8. room * s \in Int /\ room * n \in Int /\ MinLoad * s \in Int /\ MinLoad * n \in Int BY <1>1
<1>9. MinLoad * (n + 1) <= n * LoadUnit
  <2> HIDE DEF room
  <2> QED BY <1>1, <1>4, <1>5, <1>6, <1>7, <1>8
<1>10. n + 1 <= NewSlots(n) BY <1>1, <1>2, <1>9, DivAtLeast DEF NewSlots
<1> QED BY <1>3, <1>10

LEMMA MaxLoadFits ==
  ASSUME NEW n \in Nat PROVE MaxLoadSlots(n) \in Nat /\ MaxLoadSlots(n) <= n
<1>1. MaxLoad \in Nat /\ LoadUnit \in Nat \ {0} /\ MaxLoad <= LoadUnit BY LoadAssumption, Zenon
<1> DEFINE q == MaxLoadSlots(n)
<1>2. n * MaxLoad \in Nat BY <1>1
<1>3. q \in Nat /\ LoadUnit * q <= n * MaxLoad BY <1>1, <1>2, DivRounds, Zenon DEF MaxLoadSlots
<1> HIDE DEF q
<1>4. n * MaxLoad <= n * LoadUnit BY <1>1, MulMonotone
<1>5. n * LoadUnit = LoadUnit * n BY <1>1
<1>6. ASSUME q > n PROVE FALSE
  <2>1. LoadUnit * (n + 1) <= LoadUnit * q BY <1>1, <1>3, <1>6, MulMonotone
  <2>2. LoadUnit * (n + 1) = LoadUnit * n + LoadUnit BY <1>1
  <2>3. LoadUnit * n \in Int /\ LoadUnit * q \in Int BY <1>1, <1>3
  <2> QED BY <1>1, <1>2, <1>3, <1>4, <1>5, <2>1, <2>2, <2>3, SMTT(30)
<1>7. q <= n BY <1>3, <1>6
<1> QED BY <1>3, <1>7, Zenon DEF q

LEMMA SlotsFinite ==
  ASSUME NEW n \in Nat PROVE IsFiniteSet(Slots(n)) /\ Cardinality(Slots(n)) = n
<1>1. IsFiniteSet(0..(n - 1)) /\ Cardinality(0..(n - 1)) = IF 0 > n - 1 THEN 0 ELSE (n - 1) - 0 + 1
  <2>1. 0 \in Int /\ n - 1 \in Int OBVIOUS
  <2> QED BY <2>1, FS_Interval, Zenon
<1>2. (IF 0 > n - 1 THEN 0 ELSE (n - 1) - 0 + 1) = n OBVIOUS
<1> QED BY <1>1, <1>2 DEF Slots

\* The live slots are used, and the used slots are slots.
LEMMA SlotCounts ==
  ASSUME NEW t, TableOK(t)
  PROVE  /\ IsFiniteSet(LiveSlots(t)) /\ IsFiniteSet(UsedSlots(t))
         /\ Cardinality(LiveSlots(t)) \in Nat /\ Cardinality(UsedSlots(t)) \in Nat
         /\ Cardinality(LiveSlots(t)) <= Cardinality(UsedSlots(t))
         /\ Cardinality(UsedSlots(t)) <= t.capacity
         /\ Cardinality(UsedSlots(t)) < t.capacity =>
              \E s \in Slots(t.capacity) : t.e164s[s] = FREE_E164
<1>1. t.capacity \in Nat \ {0} BY Zenon DEF TableOK
<1>2. IsFiniteSet(Slots(t.capacity)) /\ Cardinality(Slots(t.capacity)) = t.capacity
  BY <1>1, SlotsFinite, Zenon
<1>3. UsedSlots(t) \in SUBSET Slots(t.capacity) BY Zenon DEF UsedSlots
<1>4. LiveSlots(t) \in SUBSET UsedSlots(t) BY Zenon DEF LiveSlots, UsedSlots, Live
<1>5. IsFiniteSet(UsedSlots(t)) /\ Cardinality(UsedSlots(t)) <= t.capacity
  BY <1>2, <1>3, FS_Subset, Zenon
<1>6. IsFiniteSet(LiveSlots(t)) /\ Cardinality(LiveSlots(t)) <= Cardinality(UsedSlots(t))
  BY <1>4, <1>5, FS_Subset, Zenon
<1>7. Cardinality(LiveSlots(t)) \in Nat /\ Cardinality(UsedSlots(t)) \in Nat
  BY <1>5, <1>6, FS_CardinalityType, Zenon
<1>8. ASSUME \A s \in Slots(t.capacity) : t.e164s[s] # FREE_E164
      PROVE  Cardinality(UsedSlots(t)) = t.capacity
  <2>1. UsedSlots(t) = Slots(t.capacity) BY <1>8, Zenon DEF UsedSlots
  <2> QED BY <1>2, <2>1, Zenon
<1>9. Cardinality(UsedSlots(t)) < t.capacity => \E s \in Slots(t.capacity) : t.e164s[s] = FREE_E164
  BY <1>1, <1>7, <1>8
<1> QED BY <1>5, <1>6, <1>7, <1>9, Zenon

\* There are no more live slots than numbers.
LEMMA ElementsBounded ==
  ASSUME NEW t, Sound(t) PROVE Cardinality(LiveSlots(t)) <= Cardinality(Phones)
<1> DEFINE f == [s \in LiveSlots(t) |-> ToBe(t.e164s[s])]
<1>1. \A s \in LiveSlots(t) : t.e164s[s] \in Stored /\ t.e164s[s] \notin {FREE_E164, DELETED_E164}
  BY Zenon DEF Sound, TableOK, LiveSlots, Live
<1>2. \A s \in LiveSlots(t) : f[s] \in Phones /\ ToBe(f[s]) = t.e164s[s] BY <1>1, ToBeOfStored, Zenon
<1>3. \A r, s \in LiveSlots(t) : f[r] = f[s] => r = s
  <2>1. SUFFICES ASSUME NEW r \in LiveSlots(t), NEW s \in LiveSlots(t), f[r] = f[s] PROVE r = s
    BY Zenon
  <2>2. t.e164s[r] = t.e164s[s] BY <1>2, <2>1, Zenon
  <2> QED BY <2>2, Zenon DEF Sound, KeysUnique
<1>4. f \in Injection(LiveSlots(t), Phones) BY <1>2, <1>3, Zenon DEF Injection, IsInjective
<1>5. IsFiniteSet(Phones) BY KeyAssumption, Zenon
<1> QED BY <1>4, <1>5, FS_Injection, Zenon

LEMMA EmptySound ==
  ASSUME NEW n \in Nat \ {0}
  PROVE  LET t == EmptyTable(n)
         IN  /\ Sound(t) /\ t.capacity = n
             /\ LiveSlots(t) = {} /\ UsedSlots(t) = {} /\ Contents(t) = {}
             /\ \A s \in Slots(n) : t.e164s[s] = FREE_E164
<1> DEFINE t == EmptyTable(n)
<1>1. t.capacity = n /\ \A s \in Slots(n) : t.e164s[s] = FREE_E164 BY Zenon DEF EmptyTable
<1>2. TableOK(t)
  <2>1. FREE_E164 \in Stored /\ FREE_UUID \in Int BY DEF Stored, FREE_UUID
  <2> QED BY <2>1, Zenon DEF TableOK, EmptyTable
<1> HIDE DEF t
<1>3. LiveSlots(t) = {} /\ UsedSlots(t) = {} BY <1>1, Zenon DEF LiveSlots, UsedSlots, Live
<1>4. Contents(t) = {} BY <1>3, Zenon DEF Contents
<1>5. Sound(t) BY <1>2, <1>3, Zenon DEF Sound, ChainUnbroken, KeysUnique
<1> QED BY <1>1, <1>3, <1>4, <1>5, Zenon DEF t

-----------------------------------------------------------------------------
(* The steps of the table.                                                 *)

LEMMA TableInitInv == Init => TableInv
<1> SUFFICES ASSUME Init PROVE TableInv BY Zenon
<1>1. StartingCapacity \in Nat \ {0} BY LoadAssumption, Zenon
<1>2. /\ Sound(table) /\ table.capacity = StartingCapacity
      /\ LiveSlots(table) = {} /\ UsedSlots(table) = {}
  BY <1>1, EmptySound, Zenon DEF Init
<1>3. CountsExact BY <1>2, FS_EmptySet, Zenon DEF Init, CountsExact
<1>4. CapacityOK(table.capacity) BY <1>1, <1>2 DEF CapacityOK
<1> QED BY <1>1, <1>2, <1>3, <1>4 DEF Init, TableInv, InsertSucceeds

\* While no rehash is under way there is a free slot, and more slots than
\* elements.
LEMMA RoomLeft ==
  ASSUME TableInv, pc # "rehash"
  PROVE  /\ element_count \in Nat /\ element_count < table.capacity
         /\ \E s \in Slots(table.capacity) : table.e164s[s] = FREE_E164
<1>1. TableOK(table) /\ used_slot_count < table.capacity BY Zenon DEF TableInv, Sound
<1>2. element_count = Cardinality(LiveSlots(table)) /\ used_slot_count = Cardinality(UsedSlots(table))
  BY Zenon DEF TableInv, CountsExact
<1>3. table.capacity \in Nat BY <1>1, Zenon DEF TableOK
<1> QED BY <1>1, <1>2, <1>3, SlotCounts

\* add_to_buffer and the counts that insert keeps.
LEMMA AddStep ==
  ASSUME TableInv, pc = "add", NEW s, AddToTable(s)
  PROVE  /\ Sound(table') /\ table'.capacity = table.capacity /\ CountsExact'
         /\ Contents(table') = Without(table, call.e164) \cup {<<call.e164, call.uuid>>}
         /\ ret' = IF \E u \in Uuids : <<call.e164, u>> \in Contents(table)
                   THEN "false" ELSE "true"
<1> DEFINE k == call.e164
           v == UuidToBe(call.uuid)
           old == ToBe(table.e164s[s])
<1>1. Sound(table) /\ k \in Phones /\ call.uuid \in Uuids BY Zenon DEF TableInv
<1>2. v \in Int /\ UuidToBe(v) = call.uuid BY <1>1, UuidSwap, Zenon
<1>3. /\ AddSlot(table, k, s)
      /\ table' = Written(table, s, ToBe(k), v)
      /\ used_slot_count' = used_slot_count + (IF old = FREE_E164 THEN 1 ELSE 0)
      /\ element_count' = element_count + (IF old # k THEN 1 ELSE 0)
      /\ ret' = IF old # k THEN "true" ELSE "false"
  BY Zenon DEF AddToTable
<1>4. element_count = Cardinality(LiveSlots(table)) /\ used_slot_count = Cardinality(UsedSlots(table))
  BY Zenon DEF TableInv, CountsExact
<1>5. /\ IsFiniteSet(LiveSlots(table)) /\ IsFiniteSet(UsedSlots(table))
      /\ Cardinality(LiveSlots(table)) \in Nat /\ Cardinality(UsedSlots(table)) \in Nat
  BY <1>1, SlotCounts, Zenon DEF Sound
<1>6. k # FREE_E164 /\ k # DELETED_E164 /\ ToBe(ToBe(k)) = k BY <1>1, ToBeOfPhone, Zenon
<1>7. CASE Holds(table, k, s)
  <2>1. old = k BY <1>6, <1>7, Zenon DEF Holds
  <2>2. /\ Sound(table') /\ table'.capacity = table.capacity
        /\ LiveSlots(table') = LiveSlots(table) /\ UsedSlots(table') = UsedSlots(table)
        /\ Contents(table') = Without(table, k) \cup {<<k, call.uuid>>}
    BY <1>1, <1>2, <1>3, <1>7, AddHeld, SMTT(30)
  <2>3. used_slot_count' = used_slot_count /\ element_count' = element_count /\ ret' = "false"
    BY <1>3, <1>4, <1>5, <1>6, <2>1
  <2>4. CountsExact' BY <1>4, <2>2, <2>3, Zenon DEF CountsExact
  <2>5. \E u \in Uuids : <<k, u>> \in Contents(table) BY <1>1, <1>7, HeldPair, Zenon
  <2> QED BY <2>2, <2>3, <2>4, <2>5, Zenon
<1>8. CASE VacantFor(table, k, s)
  <2>1. /\ Sound(table') /\ table'.capacity = table.capacity
        /\ s \notin LiveSlots(table) /\ LiveSlots(table') = LiveSlots(table) \cup {s}
        /\ UsedSlots(table') = UsedSlots(table) \cup {s}
        /\ Contents(table') = Contents(table) \cup {<<k, call.uuid>>}
        /\ \A p \in Contents(table) : p[1] # k
    BY <1>1, <1>2, <1>3, <1>8, AddVacant
  <2>2. s \in Slots(table.capacity) /\ table.e164s[s] \in {FREE_E164, DELETED_E164}
    BY <1>8, Zenon DEF VacantFor
  <2>3. old = table.e164s[s] BY <2>2, ToBeOfMarks, Zenon
  <2>4. old # k BY <1>6, <2>2, <2>3, Zenon
  <2>5. element_count' = element_count + 1 /\ ret' = "true" BY <1>3, <2>4, Zenon
  <2>6. Cardinality(LiveSlots(table')) = element_count + 1
    BY <1>4, <1>5, <2>1, FS_AddElement, Zenon
  <2>7. s \in UsedSlots(table) <=> old # FREE_E164 BY <2>2, <2>3, Zenon DEF UsedSlots
  <2>8. Cardinality(UsedSlots(table')) = used_slot_count'
    <3>1. Cardinality(UsedSlots(table) \cup {s}) =
            IF s \in UsedSlots(table) THEN Cardinality(UsedSlots(table))
            ELSE Cardinality(UsedSlots(table)) + 1
      BY <1>5, FS_AddElement, Zenon
    <3> QED BY <1>3, <1>4, <1>5, <2>1, <2>7, <3>1
  <2>9. CountsExact' BY <2>5, <2>6, <2>8, Zenon DEF CountsExact
  <2>10. Without(table, k) = Contents(table) BY <2>1, Zenon DEF Without
  <2>11. ~\E u \in Uuids : <<k, u>> \in Contents(table) BY <2>1, Zenon
  <2> QED BY <2>1, <2>5, <2>9, <2>10, <2>11, Zenon
<1> QED BY <1>1, <1>3, <1>7, <1>8, AddSlotIsRight, Zenon

\* rehash begins after an insert: all elements fit in the new arrays.
LEMMA RehashBegins ==
  ASSUME NEW e \in Nat, Sound(table'), CapacityOK(table'.capacity), CountsExact',
         table'.capacity = table.capacity, element_count' = e,
         fresh' = RehashInto(e, "idle")
  PROVE  RehashInv'
<1> DEFINE n == table.capacity
           m == IF NewSlots(e) > n THEN NewSlots(e) ELSE n
           t == EmptyTable(m)
<1>1. TableOK(table') /\ n \in Nat \ {0} BY Zenon DEF Sound, TableOK
<1>2. /\ e = Cardinality(LiveSlots(table')) /\ e <= n
      /\ e <= Cardinality(Phones)
  <2>1. e = Cardinality(LiveSlots(table')) BY Zenon DEF CountsExact
  <2>2. Cardinality(LiveSlots(table')) <= Cardinality(Phones) BY ElementsBounded, Zenon
  <2>3. /\ Cardinality(LiveSlots(table')) <= Cardinality(UsedSlots(table'))
        /\ Cardinality(UsedSlots(table')) <= n /\ Cardinality(UsedSlots(table')) \in Nat
    BY <1>1, SlotCounts, Zenon
  <2> QED BY <1>1, <2>1, <2>2, <2>3
<1>3. StartingCapacity \in Nat \ {0} BY LoadAssumption, Zenon
<1>4. n >= StartingCapacity /\ (n = StartingCapacity \/ n <= NewSlots(Cardinality(Phones)))
  BY Zenon DEF CapacityOK
<1>5. NewSlots(e) \in Nat BY NewSlotsMonotone
<1>6. m \in Nat \ {0} /\ m >= n BY <1>1, <1>5
<1>7. e < m
  <2>1. CASE e < n BY <1>1, <1>6, <2>1
  <2>2. CASE e = n
    <3>1. NewSlots(e) > e BY <1>1, <1>4, <2>2, FullTableGrows, Zenon
    <3> QED BY <1>1, <1>5, <2>2, <3>1, Zenon
  <2> QED BY <1>1, <1>2, <2>1, <2>2
<1>8. CapacityOK(m)
  <2>1. Cardinality(Phones) \in Nat BY KeyAssumption, FS_CardinalityType, Zenon
  <2>2. NewSlots(e) <= NewSlots(Cardinality(Phones)) BY <1>2, <2>1, NewSlotsMonotone, Zenon
  <2> QED BY <1>1, <1>3, <1>4, <1>5, <2>2 DEF CapacityOK
<1> HIDE DEF m
<1>9. fresh' = [table |-> t, used |-> 0, i |-> 0, then |-> "idle"] BY Zenon DEF RehashInto, m
<1>10. /\ Sound(t) /\ t.capacity = m
       /\ LiveSlots(t) = {} /\ Contents(t) = {}
       /\ \A s \in Slots(m) : t.e164s[s] = FREE_E164
  BY <1>6, EmptySound, Zenon
<1> HIDE DEF t
<1>11. Moved' = {}
  <2>1. \A s \in LiveSlots(table') : s \in Nat BY <1>1 DEF LiveSlots, Slots
  <2> QED BY <1>9, <2>1 DEF Moved
<1>12. DELETED_E164 # FREE_E164 BY KeyAssumption, Zenon
<1>13. fresh'.table = t /\ fresh'.used = 0 /\ fresh'.i = 0 BY <1>9
<1>14. fresh' = [table |-> fresh'.table, used |-> fresh'.used, i |-> fresh'.i, then |-> "idle"]
  BY <1>9
<1>15. Cardinality(LiveSlots(fresh'.table)) = 0 /\ Cardinality(Moved') = 0
  BY <1>10, <1>11, <1>13, FS_EmptySet, Zenon
<1>16. Contents(fresh'.table) =
         {<<ToBe(table'.e164s[s]), UuidToBe(table'.uuids[s])>> : s \in Moved'}
  BY <1>10, <1>11, <1>13, Zenon
<1> QED BY <1>1, <1>7, <1>8, <1>10, <1>12, <1>13, <1>14, <1>15, <1>16, SMTT(30) DEF RehashInv

LEMMA InsertBeginsInv ==
  ASSUME TableInv, NEW k \in Phones, NEW u \in Uuids, InsertBegins(k, u)
  PROVE  TableInv'
<1>1. element_count \in Nat /\ element_count < table.capacity /\ table.capacity \in Nat
  BY RoomLeft, Zenon DEF InsertBegins, TableInv, Sound, TableOK
<1>2. element_count # table.capacity BY <1>1
<1>3. /\ pc = "idle" /\ pc' = "add" /\ fresh' = NoFresh
      /\ call' = [e164 |-> k, uuid |-> u, capacity |-> table.capacity]
      /\ UNCHANGED <<table, element_count, used_slot_count, ret>>
  BY <1>2, Zenon DEF InsertBegins
<1>4. CountsExact' /\ InsertSucceeds' BY <1>3, Zenon DEF TableInv, CountsExact, InsertSucceeds
<1> QED BY <1>3, <1>4, Zenon DEF TableInv

LEMMA InsertAddsInv ==
  ASSUME TableInv, InsertAdds PROVE TableInv'
<1>1. /\ pc = "add" /\ call' = call /\ Sound(table) /\ call.e164 \in Phones
      /\ call.capacity = table.capacity /\ CapacityOK(table.capacity) /\ fresh = NoFresh
  BY Zenon DEF TableInv, InsertAdds
<1>2. /\ element_count \in Nat /\ element_count < table.capacity
      /\ \E s \in Slots(table.capacity) : table.e164s[s] = FREE_E164
  BY <1>1, RoomLeft, Zenon
<1>3. ~AddPanics(table, call.e164) BY <1>1, <1>2, RoomMeansNoPanic, Zenon
<1>4. table.capacity \in Nat BY <1>1, Zenon DEF Sound, TableOK
<1>5. /\ \E s \in Slots(table.capacity) : AddToTable(s)
      /\ IF used_slot_count' >= MaxLoadSlots(table.capacity)
         THEN pc' = "rehash" /\ fresh' = RehashInto(element_count', "idle")
         ELSE pc' = "idle" /\ UNCHANGED fresh
  BY <1>1, <1>2, <1>3, <1>4 DEF InsertAdds
<1>6. PICK s : AddToTable(s) BY <1>5, Zenon
<1>7. /\ Sound(table') /\ table'.capacity = table.capacity /\ CountsExact'
      /\ ret' \in {"true", "false"}
  BY <1>1, <1>6, AddStep, Zenon
<1>8. CapacityOK(table'.capacity) /\ InsertSucceeds' BY <1>1, <1>7, Zenon DEF InsertSucceeds
<1>9. CASE used_slot_count' >= MaxLoadSlots(table.capacity)
  <2>1. pc' = "rehash" /\ fresh' = RehashInto(element_count', "idle") BY <1>5, <1>9, Zenon
  <2>2. element_count' \in Nat
    <3>1. element_count' = Cardinality(LiveSlots(table')) BY <1>7, Zenon DEF CountsExact
    <3> QED BY <1>7, <3>1, SlotCounts, Zenon DEF Sound
  <2>3. RehashInv' BY <1>7, <1>8, <2>1, <2>2, RehashBegins, Zenon
  <2> QED BY <1>7, <1>8, <2>1, <2>3, Zenon DEF TableInv
<1>10. CASE ~(used_slot_count' >= MaxLoadSlots(table.capacity))
  <2>1. pc' = "idle" /\ fresh' = fresh BY <1>5, <1>10, Zenon
  <2>2. used_slot_count' \in Nat
    <3>1. used_slot_count' = Cardinality(UsedSlots(table')) BY <1>7, Zenon DEF CountsExact
    <3> QED BY <1>7, <3>1, SlotCounts, Zenon DEF Sound
  <2>3. used_slot_count' < table'.capacity BY <1>4, <1>7, <1>10, <2>2, MaxLoadFits
  <2> QED BY <1>1, <1>7, <1>8, <2>1, <2>3, Zenon DEF TableInv
<1> QED BY <1>9, <1>10, Zenon

\* A number that rehash has not come to yet is not in the new arrays.
LEMMA NotMovedYet ==
  ASSUME TableInv, pc = "rehash", fresh.i \in LiveSlots(table)
  PROVE  \A s : ~Holds(fresh.table, ToBe(table.e164s[fresh.i]), s)
<1> DEFINE i == fresh.i
           k == ToBe(table.e164s[i])
<1>1. Sound(table) /\ Sound(fresh.table) BY Zenon DEF TableInv, RehashInv
<1>2. \A r \in LiveSlots(table) :
        /\ r \in Nat /\ ToBe(table.e164s[r]) \in Phones
        /\ ToBe(ToBe(table.e164s[r])) = table.e164s[r]
  <2>1. \A r \in LiveSlots(table) : /\ r \in Nat
                                    /\ table.e164s[r] \in Stored
                                    /\ table.e164s[r] \notin {FREE_E164, DELETED_E164}
    <3>1. table.e164s \in [Slots(table.capacity) -> Stored] /\ table.capacity \in Nat
      BY <1>1 DEF Sound, TableOK
    <3>2. \A r \in Slots(table.capacity) : r \in Nat /\ table.e164s[r] \in Stored
      BY <3>1 DEF Slots
    <3> QED BY <3>2, Zenon DEF LiveSlots, Live
  <2> QED BY <2>1, ToBeOfStored, Zenon
<1>3. SUFFICES ASSUME NEW s, Holds(fresh.table, k, s) PROVE FALSE BY Zenon
<1>4. k \in Phones BY <1>2, Zenon
<1>5. PICK u : <<k, u>> \in Contents(fresh.table) BY <1>1, <1>3, <1>4, HeldPair, Zenon
<1>6. PICK r \in Moved : <<k, u>> = <<ToBe(table.e164s[r]), UuidToBe(table.uuids[r])>>
  BY <1>5, Zenon DEF TableInv, RehashInv
<1>7. r \in LiveSlots(table) /\ r < i BY <1>6, Zenon DEF Moved
<1>8. table.e164s[r] = table.e164s[i] BY <1>2, <1>6, <1>7, Zenon
<1>9. r = i BY <1>1, <1>7, <1>8, Zenon DEF Sound, KeysUnique
<1> QED BY <1>2, <1>7, <1>9

LEMMA RehashSlotInv ==
  ASSUME TableInv, RehashSlot PROVE TableInv'
<1> DEFINE i == fresh.i
           ft == fresh.table
           k == ToBe(table.e164s[i])
           v == table.uuids[i]
           Pair(r) == <<ToBe(table.e164s[r]), UuidToBe(table.uuids[r])>>
<1>1. /\ pc = "rehash" /\ i < table.capacity
      /\ UNCHANGED <<table, element_count, used_slot_count, pc, call, ret>>
  BY Zenon DEF RehashSlot
<1>2. Sound(table) /\ RehashInv BY <1>1, Zenon DEF TableInv
<1>3. /\ fresh = [table |-> ft, used |-> fresh.used, i |-> i, then |-> "idle"]
      /\ i \in 0..table.capacity /\ Sound(ft) /\ CapacityOK(ft.capacity)
      /\ element_count < ft.capacity
      /\ \A s \in Slots(ft.capacity) : ft.e164s[s] # DELETED_E164
      /\ Cardinality(LiveSlots(ft)) = Cardinality(Moved)
      /\ fresh.used = Cardinality(LiveSlots(ft))
      /\ Contents(ft) = {Pair(s) : s \in Moved}
  BY <1>2, Zenon DEF RehashInv
<1>4. table.capacity \in Nat /\ i \in Slots(table.capacity) /\ i + 1 \in 0..table.capacity
  BY <1>1, <1>2, <1>3 DEF Slots, Sound, TableOK
<1>5. \A r \in LiveSlots(table) : r \in Nat BY <1>4 DEF LiveSlots, Slots
<1>6. SUFFICES RehashInv'
  <2>1. CountsExact' /\ InsertSucceeds' BY <1>1, Zenon DEF TableInv, CountsExact, InsertSucceeds
  <2> QED BY <1>1, <2>1, Zenon DEF TableInv
<1>7. CASE Live(table, i)
  <2>1. i \in LiveSlots(table) BY <1>4, <1>7, Zenon DEF LiveSlots
  <2>2. PICK s \in Slots(ft.capacity) :
          /\ AddSlot(ft, k, s)
          /\ fresh' = [table |-> Written(ft, s, ToBe(k), v),
                        used |-> fresh.used + (IF ft.e164s[s] = FREE_E164 THEN 1 ELSE 0),
                        i |-> i + 1, then |-> fresh.then]
    BY <1>7, Zenon DEF RehashSlot
  <2>3. k \in Phones /\ ToBe(k) = table.e164s[i]
    <3>1. table.e164s[i] \in Stored /\ table.e164s[i] \notin {FREE_E164, DELETED_E164}
      BY <1>2, <1>4, <1>7, Zenon DEF Live, Sound, TableOK
    <3> QED BY <3>1, ToBeOfStored, Zenon
  <2>4. v \in Int /\ UuidToBe(v) \in Uuids BY <1>2, <1>4, <2>1, Zenon DEF Sound, TableOK
  <2>5. VacantFor(ft, k, s)
    <3>1. ~Holds(ft, k, s) BY <1>1, <2>1, NotMovedYet, ZenonT(30)
    <3> QED BY <1>3, <2>2, <2>3, <3>1, AddSlotIsRight, Zenon
  <2> DEFINE w == Written(ft, s, ToBe(k), v)
  <2>6. /\ Sound(w) /\ w.capacity = ft.capacity
        /\ s \notin LiveSlots(ft) /\ LiveSlots(w) = LiveSlots(ft) \cup {s}
        /\ Contents(w) = Contents(ft) \cup {Pair(i)}
        /\ \A r \in Slots(ft.capacity) : w.e164s[r] \in {ft.e164s[r], ToBe(k)}
    BY <1>3, <2>3, <2>4, <2>5, AddVacant
  <2>7. ft.e164s[s] = FREE_E164 BY <1>3, <2>2, <2>5, Zenon DEF VacantFor
  <2> HIDE DEF w
  <2>8. fresh' = [table |-> w, used |-> fresh.used + 1, i |-> i + 1, then |-> "idle"]
    <3>1. fresh.then = "idle" BY <1>3
    <3> QED BY <2>2, <2>7, <3>1, Zenon DEF w
  <2>9. Moved' = Moved \cup {i} /\ i \notin Moved
    BY <1>1, <1>4, <1>5, <2>1, <2>8 DEF Moved, Slots
  <2>10. IsFiniteSet(LiveSlots(ft)) /\ IsFiniteSet(Moved)
    <3>1. IsFiniteSet(LiveSlots(ft)) /\ IsFiniteSet(LiveSlots(table))
      BY <1>2, <1>3, SlotCounts, Zenon DEF Sound
    <3>2. Moved \in SUBSET LiveSlots(table) BY Zenon DEF Moved
    <3> QED BY <3>1, <3>2, FS_Subset, Zenon
  <2>11. Cardinality(LiveSlots(w)) = Cardinality(LiveSlots(ft)) + 1 BY <2>6, <2>10, FS_AddElement, Zenon
  <2>12. Cardinality(Moved') = Cardinality(Moved) + 1 BY <2>9, <2>10, FS_AddElement, Zenon
  <2>13. Contents(w) = {Pair(r) : r \in Moved'} BY <1>3, <2>6, <2>9, Zenon
  <2>14. \A r \in Slots(w.capacity) : w.e164s[r] # DELETED_E164
    BY <1>3, <2>3, <2>6, ToBeOfPhone, Zenon
  <2>15. fresh'.table = w /\ fresh'.used = fresh.used + 1 /\ fresh'.i = i + 1 BY <2>8, Zenon
  <2>16. fresh' = [table |-> fresh'.table, used |-> fresh'.used, i |-> fresh'.i, then |-> "idle"]
    BY <2>8, Zenon
  <2>17. Contents(fresh'.table) =
           {<<ToBe(table'.e164s[r]), UuidToBe(table'.uuids[r])>> : r \in Moved'}
    BY <1>1, <2>13, <2>15, Zenon
  <2> QED
    BY <1>1, <1>3, <1>4, <2>6, <2>11, <2>12, <2>14, <2>15, <2>16, <2>17, Zenon DEF RehashInv
<1>8. CASE ~Live(table, i)
  <2>1. fresh' = [fresh EXCEPT !.i = @ + 1] BY <1>8, Zenon DEF RehashSlot
  <2>2. fresh' = [table |-> ft, used |-> fresh.used, i |-> i + 1, then |-> "idle"]
    BY <1>3, <2>1
  <2>3. i \notin LiveSlots(table) BY <1>8, Zenon DEF LiveSlots
  <2>4. Moved' = Moved BY <1>1, <1>4, <1>5, <2>2, <2>3 DEF Moved, Slots
  <2>5. fresh'.table = ft /\ fresh'.used = fresh.used /\ fresh'.i = i + 1 BY <2>2, Zenon
  <2>6. fresh' = [table |-> fresh'.table, used |-> fresh'.used, i |-> fresh'.i, then |-> "idle"]
    BY <2>2, Zenon
  <2>7. Contents(fresh'.table) =
          {<<ToBe(table'.e164s[r]), UuidToBe(table'.uuids[r])>> : r \in Moved'}
    BY <1>1, <1>3, <2>4, <2>5, Zenon
  <2> QED BY <1>1, <1>3, <1>4, <2>4, <2>5, <2>6, <2>7, Zenon DEF RehashInv
<1> QED BY <1>7, <1>8, Zenon

\* When rehash is at its end, the new arrays hold what the old ones did.
LEMMA AllMoved ==
  ASSUME TableInv, pc = "rehash", fresh.i = table.capacity
  PROVE  /\ Moved = LiveSlots(table)
         /\ Contents(fresh.table) = Contents(table)
<1>1. Sound(table) /\ RehashInv BY Zenon DEF TableInv
<1>2. table.capacity \in Nat BY <1>1, Zenon DEF Sound, TableOK
<1>3. \A r \in LiveSlots(table) : r < table.capacity BY <1>2 DEF LiveSlots, Slots
<1>4. Moved = LiveSlots(table) BY <1>3, Zenon DEF Moved
<1> QED BY <1>1, <1>4, Zenon DEF RehashInv, Contents

LEMMA RehashEndsInv ==
  ASSUME TableInv, RehashEnds PROVE TableInv'
<1>1. /\ pc = "rehash" /\ fresh.i = table.capacity
      /\ table' = fresh.table /\ used_slot_count' = fresh.used
      /\ pc' = fresh.then /\ fresh' = NoFresh
      /\ UNCHANGED <<element_count, call, ret>>
  BY Zenon DEF RehashEnds
<1>2. RehashInv BY <1>1, Zenon DEF TableInv
<1>3. pc' = "idle"
  <2>1. fresh = [table |-> fresh.table, used |-> fresh.used, i |-> fresh.i, then |-> "idle"]
    BY <1>2, Zenon DEF RehashInv
  <2>2. fresh.then = "idle" BY <2>1
  <2> QED BY <1>1, <2>2, Zenon
<1>4. /\ Sound(table') /\ CapacityOK(table'.capacity) /\ element_count < table'.capacity
      /\ Cardinality(LiveSlots(table')) = Cardinality(Moved)
      /\ used_slot_count' = Cardinality(LiveSlots(table'))
      /\ \A s \in Slots(table'.capacity) : table'.e164s[s] # DELETED_E164
  BY <1>1, <1>2, Zenon DEF RehashInv
<1>5. element_count = Cardinality(LiveSlots(table')) BY <1>1, <1>4, AllMoved, Zenon DEF TableInv, CountsExact
<1>6. UsedSlots(table') = LiveSlots(table') BY <1>4, Zenon DEF UsedSlots, LiveSlots, Live
<1>7. CountsExact' BY <1>1, <1>4, <1>5, <1>6, Zenon DEF CountsExact
<1>8. InsertSucceeds' BY <1>1, Zenon DEF TableInv, InsertSucceeds
<1> QED BY <1>1, <1>3, <1>4, <1>5, <1>7, <1>8, Zenon DEF TableInv

\* remove_from_buffer and the count that remove keeps.
LEMMA RemoveStep ==
  ASSUME TableInv, NEW k \in Phones, Remove(k)
  PROVE  /\ Sound(table') /\ table'.capacity = table.capacity /\ CountsExact'
         /\ Contents(table') = Without(table, k)
         /\ ret' = IF \E u \in Uuids : <<k, u>> \in Contents(table)
                   THEN "true" ELSE "false"
<1>1. Sound(table) BY Zenon DEF TableInv
<1>2. element_count = Cardinality(LiveSlots(table)) /\ used_slot_count = Cardinality(UsedSlots(table))
  BY Zenon DEF TableInv, CountsExact
<1>3. used_slot_count' = used_slot_count BY Zenon DEF Remove
<1>4. CASE \E s \in Slots(table.capacity) : Holds(table, k, s)
  <2>1. PICK s \in Slots(table.capacity) :
          /\ FoundAt(table, k, s)
          /\ table' = Written(table, s, DELETED_E164, FREE_UUID)
          /\ element_count' = element_count - 1
          /\ ret' = "true"
    BY <1>1, <1>4, SearchFinds, Zenon DEF Remove
  <2>2. Holds(table, k, s) BY <1>1, <2>1, SearchFinds, Zenon
  <2>3. /\ Sound(table') /\ table'.capacity = table.capacity
        /\ LiveSlots(table') = LiveSlots(table) \ {s} /\ UsedSlots(table') = UsedSlots(table)
        /\ Contents(table') = Without(table, k)
    BY <1>1, <2>1, <2>2, RemoveHeld, Zenon
  <2>4. s \in LiveSlots(table) /\ \E u \in Uuids : <<k, u>> \in Contents(table)
    BY <1>1, <2>2, HeldPair, Zenon
  <2>5. IsFiniteSet(LiveSlots(table)) BY <1>1, SlotCounts, Zenon DEF Sound
  <2>6. Cardinality(LiveSlots(table')) = Cardinality(LiveSlots(table)) - 1
    BY <2>3, <2>4, <2>5, FS_RemoveElement, Zenon
  <2>7. CountsExact' BY <1>2, <1>3, <2>1, <2>3, <2>6, Zenon DEF CountsExact
  <2> QED BY <2>1, <2>3, <2>4, <2>7, Zenon
<1>5. CASE \A s \in Slots(table.capacity) : ~Holds(table, k, s)
  <2>1. ret' = "false" /\ UNCHANGED <<table, element_count>>
    BY <1>1, <1>5, SearchFinds, Zenon DEF Remove
  <2>2. CountsExact' BY <1>2, <1>3, <2>1, Zenon DEF CountsExact
  <2>3. \A p \in Contents(table) : p[1] # k
    <3>1. SUFFICES ASSUME NEW r \in LiveSlots(table), ToBe(table.e164s[r]) = k PROVE FALSE
      BY DEF Contents
    <3>2. /\ r \in Slots(table.capacity) /\ table.e164s[r] \in Stored
          /\ table.e164s[r] \notin {FREE_E164, DELETED_E164}
      BY <1>1, Zenon DEF LiveSlots, Live, Sound, TableOK
    <3>3. Holds(table, k, r) BY <3>1, <3>2, ToBeOfStored, Zenon DEF Holds
    <3> QED BY <1>5, <3>2, <3>3, Zenon
  <2>4. Without(table, k) = Contents(table) BY <2>3, Zenon DEF Without
  <2>5. ~\E u \in Uuids : <<k, u>> \in Contents(table) BY <2>3, Zenon
  <2> QED BY <1>1, <2>1, <2>2, <2>4, <2>5, Zenon
<1> QED BY <1>4, <1>5, Zenon

LEMMA RemoveInv ==
  ASSUME TableInv, NEW k \in Phones, Remove(k) PROVE TableInv'
<1>1. pc = "idle" /\ UNCHANGED <<used_slot_count, pc, call, fresh>> BY Zenon DEF Remove
<1>2. /\ Sound(table') /\ table'.capacity = table.capacity /\ CountsExact'
      /\ ret' \in {"true", "false"}
  BY RemoveStep, Zenon
<1> QED BY <1>1, <1>2, Zenon DEF TableInv, InsertSucceeds

LEMMA TableStepInv == TableInv /\ [Next]_vars => TableInv'
<1> SUFFICES ASSUME TableInv, [Next]_vars PROVE TableInv' BY Zenon
<1>1. CASE RejectE164
  BY <1>1, Zenon DEF RejectE164, TableInv, RehashInv, Moved, CountsExact, InsertSucceeds
<1>2. ASSUME NEW k \in Phones, NEW u \in Uuids, InsertBegins(k, u) PROVE TableInv'
  BY <1>2, InsertBeginsInv, Zenon
<1>3. CASE InsertAdds BY <1>3, InsertAddsInv, Zenon
<1>4. CASE RehashSlot BY <1>4, RehashSlotInv, Zenon
<1>5. CASE RehashEnds BY <1>5, RehashEndsInv, Zenon
<1>6. ASSUME NEW k \in Phones, Remove(k) PROVE TableInv' BY <1>6, RemoveInv, Zenon
<1>7. CASE UNCHANGED vars
  BY <1>7, Zenon DEF vars, TableInv, RehashInv, Moved, CountsExact, InsertSucceeds
<1> QED BY <1>1, <1>2, <1>3, <1>4, <1>5, <1>6, <1>7, Zenon DEF Next

\* Every step keeps the invariant of the table.
LEMMA TableInvariant == Spec => []TableInv
BY TableInitInv, TableStepInv, PTL DEF Spec

\* insert, remove and rehash: for any numbers, capacity and load factors that
\* new() accepts, the counts are exact, searches find every number, an insert
\* always has room, and the table stays within its bound.
THEOREM TableSoundTheorem == Spec => []TableSound
<1>1. TableInv => TableSound
  <2> SUFFICES ASSUME TableInv PROVE TableSound BY Zenon
  <2>1. ChainUnbroken(fresh.table) /\ KeysUnique(fresh.table)
    <3>1. CASE pc = "rehash" BY <3>1, Zenon DEF TableInv, RehashInv, Sound
    <3>2. CASE pc # "rehash"
      <4>1. fresh.table = EmptyTable(0) BY <3>2 DEF TableInv, NoFresh
      <4>2. LiveSlots(fresh.table) = {} BY <4>1 DEF LiveSlots, EmptyTable, Slots
      <4> QED BY <4>2, Zenon DEF ChainUnbroken, KeysUnique
    <3> QED BY <3>1, <3>2, Zenon
  <2>2. Searchable BY <2>1, Zenon DEF TableInv, Sound, Searchable
  <2>3. FreeSlotLeft BY Zenon DEF TableInv, FreeSlotLeft
  <2>4. CapacityBounded BY Zenon DEF TableInv, CapacityOK, CapacityBounded
  <2> QED BY <2>2, <2>3, <2>4, Zenon DEF TableInv, TableSound
<1> QED BY <1>1, TableInvariant, PTL

LEMMA MapInitHolds == Init => Map!Init
<1> SUFFICES ASSUME Init PROVE Map!Init BY Zenon
<1>1. StartingCapacity \in Nat \ {0} BY LoadAssumption, Zenon
<1>2. Contents(table) = {} BY <1>1, EmptySound, Zenon DEF Init
<1> QED BY <1>2, Zenon DEF Init, Map!Init

LEMMA MapStep == TableInv /\ [Next]_vars => [Map!Next]_(Map!vars)
<1> SUFFICES ASSUME TableInv, [Next]_vars PROVE [Map!Next]_(Map!vars) BY Zenon
<1>1. CASE RejectE164 BY <1>1, Zenon DEF RejectE164, Map!Next, Map!Reject
<1>2. ASSUME NEW k \in Phones, NEW u \in Uuids, InsertBegins(k, u) PROVE UNCHANGED Map!vars
  BY <1>2, Zenon DEF InsertBegins, Map!vars
<1>3. CASE InsertAdds
  <2>1. /\ pc = "add" /\ Sound(table) /\ call.e164 \in Phones /\ call.uuid \in Uuids
        /\ call.capacity = table.capacity
    BY <1>3, Zenon DEF TableInv, InsertAdds
  <2>2. /\ element_count \in Nat /\ element_count < table.capacity
        /\ \E s \in Slots(table.capacity) : table.e164s[s] = FREE_E164
    BY <2>1, RoomLeft, Zenon
  <2>3. ~AddPanics(table, call.e164) BY <2>1, <2>2, RoomMeansNoPanic, Zenon
  <2>4. table.capacity \in Nat BY <2>1, Zenon DEF Sound, TableOK
  <2>5. PICK s : AddToTable(s) BY <1>3, <2>1, <2>2, <2>3, <2>4 DEF InsertAdds
  <2>6. Map!Insert(call.e164, call.uuid)
    BY <2>1, <2>5, AddStep, Zenon DEF Map!Insert, Map!Mapped, Without
  <2> QED BY <2>1, <2>6, Zenon DEF Map!Next
<1>4. CASE RehashSlot BY <1>4, Zenon DEF RehashSlot, Map!vars
<1>5. CASE RehashEnds BY <1>5, AllMoved, Zenon DEF RehashEnds, Map!vars
<1>6. ASSUME NEW k \in Phones, Remove(k) PROVE Map!Next
  <2>1. Map!Remove(k) BY <1>6, RemoveStep, Zenon DEF Map!Remove, Map!Mapped, Without
  <2> QED BY <2>1, Zenon DEF Map!Next
<1>7. CASE UNCHANGED vars BY <1>7, Zenon DEF vars, Map!vars
<1> QED BY <1>1, <1>2, <1>3, <1>4, <1>5, <1>6, <1>7, Zenon DEF Next

\* The table is a map from numbers to uuids: each insert and remove changes the
\* pairs read back, and returns, as those of PhoneMap do, and a rehash changes
\* nothing.
THEOREM TableImplementsMap == Spec => ImplementsMap
BY MapInitHolds, MapStep, TableInvariant, PTL DEF Spec, ImplementsMap, Map!Spec
=============================================================================
