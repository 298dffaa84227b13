----------------------------- MODULE PendingRing -----------------------------
(***************************************************************************)
(* The table of pending requests inside the enclave (sgxsd-enclave.c): a   *)
(* ring of 2^order slots that every negotiation writes and every request   *)
(* reads and clears.  Each operation holds pending_requests_lock while it  *)
(* touches the table, so it is one step.  The id a client holds is sealed  *)
(* with a key of the enclave; an id that fails to open never reaches the   *)
(* table.                                                                  *)
(***************************************************************************)
EXTENDS Integers

CONSTANTS
  TableOrder,   \* pending_requests_table_order
  Prks,         \* HKDF pseudo-random keys of the negotiations
  NoPrk         \* the zeroed key of an empty slot

Size == 2 ^ TableOrder

ASSUME OrderAssumption == TableOrder \in 0..63 /\ Size \in Nat \ {0}

VARIABLES
  pending_requests,             \* slot -> entry
  last_pending_request_id_val,  \* the counter ids are taken from
  negotiated,                   \* history: id -> key negotiated for it
  used                          \* history: ids whose entry was removed

ringVars == <<pending_requests, last_pending_request_id_val, negotiated, used>>

Zeroed == [id_val |-> 0, hkdf_prk |-> NoPrk]

\* Mutant: the mask is one bit short.
SlotShortMask(id) == id % (Size \div 2)

\* pending_request_id_val & pending_request_count_mask
Slot(id) == id % Size

\* The ids the enclave has given out; no id is zero.
Ids == 1..last_pending_request_id_val

RingInit ==
  /\ pending_requests = [s \in 0..(Size - 1) |-> Zeroed]
  /\ last_pending_request_id_val = 0
  /\ negotiated = [id \in {} |-> NoPrk]
  /\ used = {}

\* Whatever the slot held is overwritten.
add_pending_request(prk) ==
  LET id == last_pending_request_id_val + 1
  IN  /\ last_pending_request_id_val' = id
      /\ pending_requests' = [pending_requests EXCEPT
           ![Slot(id)] = [id_val |-> id, hkdf_prk |-> prk]]
      /\ negotiated' = [i \in 1..id |-> IF i = id THEN prk ELSE negotiated[i]]
      /\ UNCHANGED used

\* Mutant: the slot alone decides.
FoundInSlot(id) == pending_requests[Slot(id)] # Zeroed

\* The slot still holds this very request.
Found(id) == pending_requests[Slot(id)].id_val = id

\* The key a lookup hands out.
PrkOf(id) == pending_requests[Slot(id)].hkdf_prk

\* Mutant: the entry stays in the table.
remove_keeps_entry(id) ==
  /\ Found(id)
  /\ used' = used \cup {id}
  /\ UNCHANGED <<pending_requests, last_pending_request_id_val, negotiated>>

\* remove_pending_request when it succeeds; otherwise the table is untouched
\* and the caller gets PENDING_REQUEST_NOT_FOUND.
remove_pending_request(id) ==
  /\ Found(id)
  /\ pending_requests' = [pending_requests EXCEPT ![Slot(id)] = Zeroed]
  /\ used' = used \cup {id}
  /\ UNCHANGED <<last_pending_request_id_val, negotiated>>

RingNext ==
  \/ \E prk \in Prks : add_pending_request(prk)
  \/ \E id \in Ids : remove_pending_request(id)

RingSpec == RingInit /\ [][RingNext]_ringVars

-----------------------------------------------------------------------------
\* The table holds entries with ids and keys of the right kind; the histories
\* cover exactly the ids given out.
RingTypeOK ==
  /\ pending_requests \in [0..(Size - 1) -> [id_val : Nat, hkdf_prk : Prks \cup {NoPrk}]]
  /\ last_pending_request_id_val \in Nat
  /\ negotiated \in [Ids -> Prks]
  /\ used \subseteq Ids

\* A request that finds its entry gets the key that was negotiated for its id,
\* however often the slot was overwritten in between.
FindsOwnKey == \A id \in Ids : Found(id) => PrkOf(id) = negotiated[id]

\* An id whose entry was removed is never found again: a request that is sent
\* twice, or replayed, is refused the second time.
UsedOnce == \A id \in used : ~Found(id)

\* A pending request is not lost before Size further negotiations: its client
\* can use it however the other clients behave.
KeptForSize ==
  \A id \in Ids \ used : id > last_pending_request_id_val - Size => Found(id)

\* The inductive invariant: every entry belongs to one of the last Size ids,
\* sits in the slot of its id with the key negotiated for it, and was not
\* removed.
EntriesPlaced ==
  \A s \in 0..(Size - 1) :
    LET id == pending_requests[s].id_val
    IN  id # 0 => /\ id \in Ids \ used
                  /\ id > last_pending_request_id_val - Size
                  /\ Slot(id) = s
                  /\ pending_requests[s].hkdf_prk = negotiated[id]

RingInv == RingTypeOK /\ EntriesPlaced /\ KeptForSize

\* The ring implements one-time tickets that expire after Size others.
Tickets == INSTANCE OneTimeTickets WITH
  issued <- last_pending_request_id_val,
  open <- {id \in Ids : Found(id)}

ImplementsTickets == Tickets!Spec
=============================================================================
