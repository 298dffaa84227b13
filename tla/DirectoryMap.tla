---------------------------- MODULE DirectoryMap ----------------------------
(***************************************************************************)
(* The native directory map, directory_map_native.rs: a table under        *)
(* construction behind a mutex and a table that is served behind a         *)
(* reader-writer lock.  commit swaps the two and copies the served table   *)
(* back.  The tables are taken at the level of their contents, which       *)
(* InternalBuffers shows to be a map; NoUuid stands for a number that is   *)
(* not in the table and ZeroUuid for FREE_UUID, the uuid of a slot that    *)
(* read_from cleared and did not get to.                                   *)
(*                                                                         *)
(* insert, remove and read_from hold the mutex from start to end, so each  *)
(* is one step.  commit holds it over several steps, during which threads  *)
(* borrow the served table.                                                *)
(***************************************************************************)
EXTENDS Integers, FiniteSets

CONSTANTS MapPhones, MapUuids, NoUuid, ZeroUuid,
          Committers,  \* threads that call commit
          Borrowers,   \* threads that read the served table: server_stop, write_to, size
          Streams      \* the tables that a peer's write_to may have written

Nobody == "none"

ASSUME MapAssumption ==
  /\ NoUuid \notin MapUuids /\ ZeroUuid \notin MapUuids /\ NoUuid # ZeroUuid
  /\ Committers \cap Borrowers = {} /\ Nobody \notin Committers
  /\ Streams \subseteq [MapPhones -> MapUuids \cup {NoUuid}]

VARIABLES
  building,   \* the contents of building.1
  dirty,      \* building.0
  serving,    \* the contents of serving
  holder,     \* the committer that holds the building mutex, or "none"
  commitAt,   \* per committer: "idle", "swap" or "copy"
  view,       \* per borrower: the table it looks at under the read lock, if any
  torn,       \* history: a read_from failed after it cleared the table
  overwritten \* history: numbers given a uuid while they had one, since the last commit

mapVars == <<building, dirty, serving, holder, commitAt, view, torn, overwritten>>

Nothing == [k \in MapPhones |-> NoUuid]

Numbers(t) == {k \in MapPhones : t[k] # NoUuid}

Readers == {b \in Borrowers : view[b] # {}}

MapInit ==
  /\ building = Nothing /\ serving = Nothing /\ dirty = FALSE
  /\ holder = Nobody /\ commitAt = [c \in Committers |-> "idle"]
  /\ view = [b \in Borrowers |-> {}] /\ torn = FALSE /\ overwritten = {}

-----------------------------------------------------------------------------
(* insert, remove and read_from, each under the building mutex *)

\* Only a number that was not in the table marks it dirty.
insert(k, u) ==
  /\ holder = Nobody
  /\ building' = [building EXCEPT ![k] = u]
  /\ dirty' = (dirty \/ building[k] = NoUuid)
  /\ overwritten' = IF building[k] = NoUuid THEN overwritten ELSE overwritten \cup {k}
  /\ UNCHANGED <<serving, holder, commitAt, view, torn>>

remove(k) ==
  /\ holder = Nobody
  /\ building' = [building EXCEPT ![k] = NoUuid]
  /\ dirty' = (dirty \/ building[k] # NoUuid)
  /\ UNCHANGED <<serving, holder, commitAt, view, torn, overwritten>>

read_from(t) ==
  /\ holder = Nobody
  /\ building' = t /\ dirty' = TRUE /\ torn' = FALSE
  /\ UNCHANGED <<serving, holder, commitAt, view, overwritten>>

\* What a stream that ends early leaves of t: the slots of the numbers are
\* read before those of the uuids.
Truncated(t) ==
  {p \in [MapPhones -> MapUuids \cup {NoUuid, ZeroUuid}] :
     \/ \A k \in MapPhones : p[k] = NoUuid \/ (t[k] # NoUuid /\ p[k] = ZeroUuid)
     \/ \A k \in MapPhones : p[k] = t[k] \/ (t[k] # NoUuid /\ p[k] = ZeroUuid)}

\* The stream fails: within the three header words nothing has changed yet.
read_from_fails(t) ==
  /\ holder = Nobody
  /\ \E p \in Truncated(t) : building' = p
  /\ torn' = TRUE
  /\ UNCHANGED <<dirty, serving, holder, commitAt, view, overwritten>>

-----------------------------------------------------------------------------
(* commit *)

\* A call that finds the table clean returns false and changes nothing.
commit(c) ==
  /\ holder = Nobody /\ commitAt[c] = "idle"
  /\ dirty
  /\ holder' = c /\ commitAt' = [commitAt EXCEPT ![c] = "swap"]
  /\ UNCHANGED <<building, dirty, serving, view, torn, overwritten>>

\* Fault: the write lock is not taken and a borrower's table moves under it.
SwapUnlocked(c) ==
  /\ commitAt[c] = "swap"
  /\ building' = serving /\ serving' = building
  /\ commitAt' = [commitAt EXCEPT ![c] = "copy"]
  /\ UNCHANGED <<dirty, holder, view, torn, overwritten>>

\* The write lock waits for the borrowers and is released with the step.
Swap(c) ==
  /\ commitAt[c] = "swap"
  /\ Readers = {}
  /\ building' = serving /\ serving' = building
  /\ commitAt' = [commitAt EXCEPT ![c] = "copy"]
  /\ UNCHANGED <<dirty, holder, view, torn, overwritten>>

\* Fault: the table swapped out is not brought up to date.
CopyForgets(c) ==
  /\ commitAt[c] = "copy"
  /\ dirty' = FALSE
  /\ holder' = Nobody /\ commitAt' = [commitAt EXCEPT ![c] = "idle"]
  /\ UNCHANGED <<building, serving, view, torn, overwritten>>

\* copy_from under the read lock, which borrowers share.
Copy(c) ==
  /\ commitAt[c] = "copy"
  /\ building' = serving /\ dirty' = FALSE /\ torn' = FALSE /\ overwritten' = {}
  /\ holder' = Nobody /\ commitAt' = [commitAt EXCEPT ![c] = "idle"]
  /\ UNCHANGED <<serving, view>>

-----------------------------------------------------------------------------
(* borrow_serving_buffers, write_to, size and capacity *)

Borrow(b) ==
  /\ view[b] = {}
  /\ view' = [view EXCEPT ![b] = {serving}]
  /\ UNCHANGED <<building, dirty, serving, holder, commitAt, torn, overwritten>>

GiveBack(b) ==
  /\ view[b] # {}
  /\ view' = [view EXCEPT ![b] = {}]
  /\ UNCHANGED <<building, dirty, serving, holder, commitAt, torn, overwritten>>

CommitterStep(c) == commit(c) \/ Swap(c) \/ Copy(c)

BorrowerStep(b) == Borrow(b) \/ GiveBack(b)

MapNext ==
  \/ \E k \in MapPhones, u \in MapUuids : insert(k, u)
  \/ \E k \in MapPhones : remove(k)
  \/ \E t \in Streams : read_from(t) \/ read_from_fails(t)
  \/ \E c \in Committers : CommitterStep(c)
  \/ \E b \in Borrowers : BorrowerStep(b)

MapSpec == MapInit /\ [][MapNext]_mapVars

-----------------------------------------------------------------------------
(* Properties *)

\* The table a borrower was given is the one that is served for as long as it
\* holds it: server_stop hands its arrays to the enclave, write_to streams it.
BorrowedIsServed == \A b \in Readers : view[b] = {serving}

\* When the dirty flag says that there is nothing to commit, the served table
\* has the numbers of the table under construction, and the uuids too except
\* those of numbers that were given a new uuid since the last commit: insert
\* does not set the flag for them, so the old uuid is served until some other
\* change is committed.  A failed read_from is the exception until the next
\* commit.
CleanMeansServed ==
  (holder = Nobody /\ ~dirty /\ ~torn) =>
    /\ Numbers(building) = Numbers(serving)
    /\ \A k \in MapPhones \ overwritten : building[k] = serving[k]

\* commit does not change a table under its borrowers, and a commit that is
\* skipped leaves out no new or removed number and no uuid but an overwritten
\* one (commit, insert, remove).
ServedIsCurrent == BorrowedIsServed /\ CleanMeansServed

\* A reader never sees the swap half done: map and published copy behave as
\* SnapshotRegister says, where during commit the latest map is the one that
\* was swapped in.
Register == INSTANCE SnapshotRegister WITH
  Phones    <- MapPhones,
  Loads     <- Streams \cup UNION {Truncated(t) : t \in Streams},
  latest    <- IF \E c \in Committers : commitAt[c] = "copy" THEN serving ELSE building,
  published <- serving

ImplementsRegister == Register!Spec
=============================================================================
