-------------------------- MODULE InternalBuffers ---------------------------
(***************************************************************************)
(* The open-addressing hash table of the directory,                        *)
(* directory_map_native/internal_buffers.rs.  A table is a pair of arrays  *)
(* of the same length: e164s, whose slots are FREE_E164, DELETED_E164 or a *)
(* big-endian phone number, and uuids.  The table has no lock of its own   *)
(* (DirectoryMap holds one around every call), so insert and remove are    *)
(* sequential; the loop of rehash is kept as a loop, one slot per step.    *)
(*                                                                         *)
(* to_be and from_be are byte swaps: an involution that fixes FREE_E164    *)
(* and DELETED_E164 (all bytes equal) and moves a phone number.  They are  *)
(* modelled as negation on the numbers and the uuids.  The load factors,   *)
(* f32 in the code, are the fractions MinLoad/LoadUnit, MaxLoad/LoadUnit.  *)
(***************************************************************************)
EXTENDS Integers, FiniteSets

CONSTANTS Phones,            \* the numbers inserted and removed
          Uuids,
          DELETED_E164,      \* 2^64 - 1 in the code
          StartingCapacity,
          LoadUnit, MinLoad, MaxLoad

FREE_E164 == 0

FREE_UUID == 0

NewSlots(elements) == (elements * LoadUnit) \div MinLoad

MaxLoadSlots(capacity) == (capacity * MaxLoad) \div LoadUnit

ASSUME KeyAssumption ==
  /\ Phones \subseteq Nat \ {FREE_E164} /\ IsFiniteSet(Phones)
  /\ Uuids \subseteq Nat \ {FREE_UUID}
  /\ DELETED_E164 \in Nat \ (Phones \cup {FREE_E164})

\* new() refuses other load factors; a capacity at which a full table would
\* not grow (1 or 2 slots with the factors 0.75 and 0.85) is a configuration
\* in which add_to_buffer panics.
ASSUME LoadAssumption ==
  /\ {LoadUnit, MinLoad, MaxLoad, StartingCapacity} \subseteq Nat \ {0}
  /\ MinLoad < MaxLoad /\ MaxLoad <= LoadUnit
  /\ NewSlots(StartingCapacity) > StartingCapacity

VARIABLES
  table,            \* [e164s, uuids]
  element_count,
  used_slot_count,
  pc,               \* "idle", "add" or "rehash": where insert is
  call,             \* the arguments of the insert under way
  fresh,            \* rehash: the new arrays, its count and its loop index
  ret               \* what the last operation returned

vars == <<table, element_count, used_slot_count, pc, call, fresh, ret>>

-----------------------------------------------------------------------------
(* Tables *)

Slots(n) == 0 .. n - 1

EmptyTable(n) == [e164s |-> [s \in Slots(n) |-> FREE_E164],
                  uuids |-> [s \in Slots(n) |-> FREE_UUID], capacity |-> n]

ToBe(k) == IF k \in {FREE_E164, DELETED_E164} THEN k ELSE -k

UuidToBe(u) == -u

hash_element(n, k) == k % n

\* The slot d places after s: the index wraps to 0 at slot_count.
Forward(n, s, d) == IF s + d < n THEN s + d ELSE s + d - n

\* The d-th slot that a search for k looks at.
Probe(t, k, d) == Forward(t.capacity, hash_element(t.capacity, k), d)

\* The first loop of add_to_buffer stops at the d-th probe.
StopsAt(t, k, d) ==
  /\ t.e164s[Probe(t, k, d)] \in {FREE_E164, DELETED_E164, ToBe(k)}
  /\ \A c \in 0 .. d - 1 :
       t.e164s[Probe(t, k, c)] \notin {FREE_E164, DELETED_E164, ToBe(k)}

\* The second loop, started at slot f, meets k after d slots.
FoundFrom(t, k, f, d) ==
  /\ t.e164s[Forward(t.capacity, f, d)] = ToBe(k)
  /\ \A c \in 0 .. d - 1 : t.e164s[Forward(t.capacity, f, c)] \notin {FREE_E164, ToBe(k)}

\* s is the slot that add_to_buffer writes: the one that holds k, else the
\* first free or deleted one.
AddSlot(t, k, s) ==
  \E d \in Slots(t.capacity) :
    /\ StopsAt(t, k, d)
    /\ LET f == Probe(t, k, d)
       IN  \/ \E e \in Slots(t.capacity) :
                FoundFrom(t, k, f, e) /\ s = Forward(t.capacity, f, e)
           \/ /\ s = f
              /\ \A e \in Slots(t.capacity) : ~FoundFrom(t, k, f, e)

\* add_to_buffer's panic on a table without room for k.
AddPanics(t, k) == \A d \in Slots(t.capacity) : ~StopsAt(t, k, d)

Written(t, s, key, uuid) == [t EXCEPT !.e164s[s] = key, !.uuids[s] = uuid]

\* remove_from_buffer finds k in slot s.
FoundAt(t, k, s) ==
  \E d \in Slots(t.capacity) :
    /\ s = Probe(t, k, d) /\ t.e164s[s] = ToBe(k)
    /\ \A c \in 0 .. d - 1 : t.e164s[Probe(t, k, c)] \notin {FREE_E164, ToBe(k)}

Live(t, s) == t.e164s[s] \notin {FREE_E164, DELETED_E164}

LiveSlots(t) == {s \in Slots(t.capacity) : Live(t, s)}

UsedSlots(t) == {s \in Slots(t.capacity) : t.e164s[s] # FREE_E164}

Contents(t) == {<<ToBe(t.e164s[s]), UuidToBe(t.uuids[s])>> : s \in LiveSlots(t)}

-----------------------------------------------------------------------------
(* insert, remove and rehash *)

NoCall == [e164 |-> FREE_E164, uuid |-> FREE_UUID, capacity |-> 0]

NoFresh == [table |-> EmptyTable(0), used |-> 0, i |-> 0, then |-> "idle"]

Init ==
  /\ table = EmptyTable(StartingCapacity)
  /\ element_count = 0 /\ used_slot_count = 0
  /\ pc = "idle" /\ call = NoCall /\ fresh = NoFresh /\ ret = "none"

\* rehash starts with new_slot_count empty slots; then is what follows it.
RehashInto(elements, then) ==
  LET slots == NewSlots(elements)
  IN  [table |-> EmptyTable(IF slots > table.capacity THEN slots ELSE table.capacity),
       used |-> 0, i |-> 0, then |-> then]

\* insert or remove of a number that marks free or deleted slots.
RejectE164 ==
  /\ pc = "idle"
  /\ ret' = "invalid_e164"
  /\ UNCHANGED <<table, element_count, used_slot_count, pc, call, fresh>>

\* insert up to add_to_buffer: a table that is completely full is rehashed.
InsertBegins(k, u) ==
  /\ pc = "idle"
  /\ call' = [e164 |-> k, uuid |-> u, capacity |-> table.capacity]
  /\ IF element_count = table.capacity
     THEN pc' = "rehash" /\ fresh' = RehashInto(element_count, "add")
     ELSE pc' = "add" /\ fresh' = NoFresh
  /\ UNCHANGED <<table, element_count, used_slot_count, ret>>

\* add_to_buffer on self's arrays and the counts insert keeps.
AddToTable(s) ==
  LET old   == ToBe(table.e164s[s])
      added == old # call.e164
  IN  /\ AddSlot(table, call.e164, s)
      /\ table' = Written(table, s, ToBe(call.e164), UuidToBe(call.uuid))
      /\ used_slot_count' = used_slot_count + (IF old = FREE_E164 THEN 1 ELSE 0)
      /\ element_count' = element_count + (IF added THEN 1 ELSE 0)
      /\ ret' = IF added THEN "true" ELSE "false"

\* insert from add_to_buffer on, up to the rehash that ends it.
InsertAdds ==
  /\ pc = "add"
  /\ IF element_count > call.capacity \/ AddPanics(table, call.e164)
     THEN /\ ret' = IF element_count > call.capacity THEN "buffer_full" ELSE "panic"
          /\ pc' = "idle"
          /\ UNCHANGED <<table, element_count, used_slot_count, fresh>>
     ELSE /\ \E s \in Slots(table.capacity) : AddToTable(s)
          /\ IF used_slot_count' >= MaxLoadSlots(table.capacity)
             THEN pc' = "rehash" /\ fresh' = RehashInto(element_count', "idle")
             ELSE pc' = "idle" /\ UNCHANGED fresh
  /\ UNCHANGED call

\* Fault: rehash passes convert_uuid and swaps the bytes of a stored uuid.
RehashSlotConverting ==
  /\ pc = "rehash" /\ fresh.i < table.capacity
  /\ LET e164 == ToBe(table.e164s[fresh.i])
     IN  IF Live(table, fresh.i)
         THEN \E s \in Slots(fresh.table.capacity) :
                /\ AddSlot(fresh.table, e164, s)
                /\ fresh' =
                     [table |-> Written(fresh.table, s, ToBe(e164), UuidToBe(table.uuids[fresh.i])),
                      used |-> fresh.used + (IF fresh.table.e164s[s] = FREE_E164 THEN 1 ELSE 0),
                      i |-> fresh.i + 1, then |-> fresh.then]
         ELSE fresh' = [fresh EXCEPT !.i = @ + 1]
  /\ UNCHANGED <<table, element_count, used_slot_count, pc, call, ret>>

\* One turn of the loop of rehash: a live number moves to the new arrays with
\* its uuid as stored.
RehashSlot ==
  /\ pc = "rehash" /\ fresh.i < table.capacity
  /\ LET e164 == ToBe(table.e164s[fresh.i])
     IN  IF Live(table, fresh.i)
         THEN \E s \in Slots(fresh.table.capacity) :
                /\ AddSlot(fresh.table, e164, s)
                /\ fresh' =
                     [table |-> Written(fresh.table, s, ToBe(e164), table.uuids[fresh.i]),
                      used |-> fresh.used + (IF fresh.table.e164s[s] = FREE_E164 THEN 1 ELSE 0),
                      i |-> fresh.i + 1, then |-> fresh.then]
         ELSE fresh' = [fresh EXCEPT !.i = @ + 1]
  /\ UNCHANGED <<table, element_count, used_slot_count, pc, call, ret>>

RehashEnds ==
  /\ pc = "rehash" /\ fresh.i = table.capacity
  /\ table' = fresh.table /\ used_slot_count' = fresh.used
  /\ pc' = fresh.then /\ fresh' = NoFresh
  /\ UNCHANGED <<element_count, call, ret>>

\* Fault: remove frees the slot instead of leaving a tombstone.
RemoveFrees(k) ==
  /\ pc = "idle"
  /\ \/ \E s \in Slots(table.capacity) :
          /\ FoundAt(table, k, s)
          /\ table' = Written(table, s, FREE_E164, FREE_UUID)
          /\ element_count' = element_count - 1
          /\ ret' = "true"
     \/ /\ \A s \in Slots(table.capacity) : ~FoundAt(table, k, s)
        /\ ret' = "false"
        /\ UNCHANGED <<table, element_count>>
  /\ UNCHANGED <<used_slot_count, pc, call, fresh>>

\* remove: the slot becomes a tombstone and stays used.
Remove(k) ==
  /\ pc = "idle"
  /\ \/ \E s \in Slots(table.capacity) :
          /\ FoundAt(table, k, s)
          /\ table' = Written(table, s, DELETED_E164, FREE_UUID)
          /\ element_count' = element_count - 1
          /\ ret' = "true"
     \/ /\ \A s \in Slots(table.capacity) : ~FoundAt(table, k, s)
        /\ ret' = "false"
        /\ UNCHANGED <<table, element_count>>
  /\ UNCHANGED <<used_slot_count, pc, call, fresh>>

Next ==
  \/ RejectE164
  \/ \E k \in Phones, u \in Uuids : InsertBegins(k, u)
  \/ InsertAdds
  \/ RehashSlot
  \/ RehashEnds
  \/ \E k \in Phones : Remove(k)

Spec == Init /\ [][Next]_vars

-----------------------------------------------------------------------------
(* Properties *)

\* element_count is the number of live slots and used_slot_count the number
\* of slots that are not free, through inserts into tombstones, removes and
\* rehashes: insert and rehash decide on these counts alone.
CountsExact ==
  /\ element_count = Cardinality(LiveSlots(table))
  /\ used_slot_count = Cardinality(UsedSlots(table))

\* No free slot lies between the hash slot of a stored number and the slot it
\* is in: searches in add_to_buffer and remove_from_buffer stop at a free slot.
ChainUnbroken(t) ==
  \A s \in LiveSlots(t), d \in Slots(t.capacity) :
    Probe(t, ToBe(t.e164s[s]), d) = s =>
      \A c \in 0 .. d - 1 : t.e164s[Probe(t, ToBe(t.e164s[s]), c)] # FREE_E164

\* No number is in two slots, tombstones in front of it or not.
KeysUnique(t) ==
  \A r, s \in LiveSlots(t) : t.e164s[r] = t.e164s[s] => r = s

\* Both hold for the arrays in use and for those rehash is filling.
Searchable ==
  /\ ChainUnbroken(table) /\ KeysUnique(table)
  /\ ChainUnbroken(fresh.table) /\ KeysUnique(fresh.table)

\* insert never returns BufferFull and never runs into add_to_buffer's panic,
\* however full of numbers and tombstones the table is.
InsertSucceeds == ret \notin {"buffer_full", "panic"}

\* Between operations a free slot is left, so a search for an absent number
\* ends before it has seen the whole table.
FreeSlotLeft == pc = "idle" => used_slot_count < table.capacity

\* Inserts and removes for ever do not make the table grow: its capacity is
\* bounded by the greatest number of elements it has to hold.
CapacityBounded ==
  \/ table.capacity = StartingCapacity
  \/ table.capacity <= NewSlots(Cardinality(Phones))

\* Whatever was inserted and removed before, the counts are exact, every number
\* is found where searches look for it, there is room for the next insert, and
\* the table does not grow for ever (insert, remove, rehash).
TableSound ==
  CountsExact /\ Searchable /\ InsertSucceeds /\ FreeSlotLeft /\ CapacityBounded

\* The table behaves as the map PhoneMap does: the number and the uuid that
\* are read back, and what insert and remove return.
Map == INSTANCE PhoneMap WITH map <- Contents(table)

ImplementsMap == Map!Spec
=============================================================================
