--------------------------- MODULE ServiceProofs ----------------------------
(***************************************************************************)
(* Proofs about the small parts of the service: the directory map, the     *)
(* request limit and the client of the phone limiter, for any numbers,     *)
(* threads, rates, hosts and hashes.                                       *)
(***************************************************************************)
EXTENDS DirectoryMap, LeakyBucket, PhoneLimiter,
        FiniteSetTheorems, TLAPS

-----------------------------------------------------------------------------
(* The directory map.                                                      *)

Tables == [MapPhones -> MapUuids \cup {NoUuid, ZeroUuid}]

MapTypeOK ==
  /\ building \in Tables /\ serving \in Tables
  /\ dirty \in BOOLEAN /\ torn \in BOOLEAN /\ overwritten \subseteq MapPhones
  /\ commitAt \in [Committers -> {"idle", "swap", "copy"}]
  /\ view = [b \in Borrowers |-> view[b]]

\* The committer inside commit is the one that holds the mutex.
HolderInv == \A c \in Committers : commitAt[c] # "idle" <=> holder = c

MapInv == MapTypeOK /\ HolderInv /\ ServedIsCurrent

LEMMA MapInitInv == MapInit => MapInv
<1> SUFFICES ASSUME MapInit PROVE MapInv BY Zenon
<1> USE DEF MapInit
<1>1. MapTypeOK BY Zenon DEF MapTypeOK, Tables, Nothing
<1>2. HolderInv BY MapAssumption, Zenon DEF HolderInv
<1>3. ServedIsCurrent BY Zenon DEF ServedIsCurrent, BorrowedIsServed, CleanMeansServed, Readers
<1> QED BY <1>1, <1>2, <1>3, Zenon DEF MapInv

\* Who does not hold the mutex is not inside commit.
LEMMA NobodyCommits ==
  ASSUME MapInv, holder = Nobody PROVE \A c \in Committers : commitAt[c] = "idle"
BY MapAssumption, Zenon DEF MapInv, HolderInv

\* An operation under the mutex changes the table under construction only, and
\* sets the flag when it changes more than the uuids of overwritten numbers.
LEMMA UpdateKeepsMap ==
  ASSUME MapInv, holder = Nobody, building' \in Tables, dirty' \in BOOLEAN, torn' \in BOOLEAN,
         overwritten' \subseteq MapPhones, overwritten \subseteq overwritten',
         UNCHANGED <<serving, holder, commitAt, view>>,
         \/ dirty' \/ torn'
         \/ /\ ~dirty /\ ~torn /\ Numbers(building') = Numbers(building)
            /\ \A k \in MapPhones \ overwritten' : building'[k] = building[k]
  PROVE  MapInv'
<1>1. MapTypeOK' /\ HolderInv' BY Zenon DEF MapInv, MapTypeOK, HolderInv
<1>2. BorrowedIsServed' BY Zenon DEF MapInv, ServedIsCurrent, BorrowedIsServed, Readers
<1>3. CleanMeansServed'
  <2> SUFFICES ASSUME ~dirty', ~torn' PROVE CleanMeansServed' BY Zenon DEF CleanMeansServed
  <2>1. /\ Numbers(building') = Numbers(building)
        /\ \A k \in MapPhones \ overwritten' : building'[k] = building[k]
        /\ ~dirty /\ ~torn
    BY Zenon
  <2>2. /\ Numbers(building) = Numbers(serving)
        /\ \A k \in MapPhones \ overwritten : building[k] = serving[k]
    BY <2>1, Zenon DEF MapInv, ServedIsCurrent, CleanMeansServed
  <2>3. Numbers(building)' = Numbers(serving)' BY <2>1, <2>2, Zenon DEF Numbers
  <2>4. \A k \in MapPhones \ overwritten' : building'[k] = serving'[k] BY <2>1, <2>2, Zenon
  <2> QED BY <2>3, <2>4, Zenon DEF CleanMeansServed
<1> QED BY <1>1, <1>2, <1>3, Zenon DEF MapInv, ServedIsCurrent

\* A new uuid for a number that is there does not change the set of numbers.
LEMMA InsertKeepsMap ==
  ASSUME MapInv, NEW k \in MapPhones, NEW u \in MapUuids, insert(k, u) PROVE MapInv'
<1>1. /\ building' \in Tables /\ dirty' \in BOOLEAN /\ torn' \in BOOLEAN
      /\ overwritten' \subseteq MapPhones /\ overwritten \subseteq overwritten'
  BY Zenon DEF insert, MapInv, MapTypeOK, Tables
<1>2. CASE building[k] = NoUuid BY <1>1, <1>2, UpdateKeepsMap, Zenon DEF insert
<1>3. CASE building[k] # NoUuid
  <2>1. building'[k] # NoUuid /\ \A j \in MapPhones \ {k} : building'[j] = building[j]
    BY MapAssumption, Zenon DEF insert, MapInv, MapTypeOK, Tables
  <2>2. Numbers(building') = Numbers(building) BY <1>3, <2>1, Zenon DEF Numbers
  <2>3. dirty' = dirty /\ torn' = torn /\ k \in overwritten'
    BY <1>3, Zenon DEF insert, MapInv, MapTypeOK
  <2>4. \A j \in MapPhones \ overwritten' : building'[j] = building[j] BY <2>1, <2>3, Zenon
  <2> QED BY <1>1, <2>2, <2>3, <2>4, UpdateKeepsMap DEF insert
<1> QED BY <1>2, <1>3, Zenon

LEMMA RemoveKeepsMap ==
  ASSUME MapInv, NEW k \in MapPhones, remove(k) PROVE MapInv'
<1>1. /\ building' \in Tables /\ dirty' \in BOOLEAN /\ torn' \in BOOLEAN
      /\ overwritten' \subseteq MapPhones /\ overwritten \subseteq overwritten'
  BY Zenon DEF remove, MapInv, MapTypeOK, Tables
<1>2. CASE building[k] # NoUuid BY <1>1, <1>2, UpdateKeepsMap, Zenon DEF remove
<1>3. CASE building[k] = NoUuid
  <2>1. building' = building BY <1>3, Zenon DEF remove, MapInv, MapTypeOK, Tables
  <2>2. dirty' = dirty /\ torn' = torn BY <1>3, Zenon DEF remove, MapInv, MapTypeOK
  <2> QED BY <1>1, <2>1, <2>2, UpdateKeepsMap DEF remove
<1> QED BY <1>2, <1>3, Zenon

LEMMA ReadKeepsMap ==
  ASSUME MapInv, NEW t \in Streams, read_from(t) \/ read_from_fails(t) PROVE MapInv'
<1>1. Streams \subseteq Tables BY MapAssumption, Zenon DEF Tables
<1>2. Truncated(t) \subseteq Tables BY Zenon DEF Truncated, Tables
<1>3. /\ building' \in Tables /\ dirty' \in BOOLEAN /\ torn' \in BOOLEAN
      /\ overwritten' \subseteq MapPhones /\ overwritten \subseteq overwritten'
  BY <1>1, <1>2, Zenon DEF read_from, read_from_fails, MapInv, MapTypeOK
<1> QED BY <1>3, UpdateKeepsMap, Zenon DEF read_from, read_from_fails

\* commit holds the mutex, swaps only while nobody borrows and leaves both
\* tables equal.
LEMMA CommitKeepsMap ==
  ASSUME MapInv, NEW c \in Committers, CommitterStep(c) PROVE MapInv'
<1> USE DEF MapInv
<1>0. c # Nobody BY MapAssumption, Zenon
<1>1. CASE commit(c)
  <2>1. MapTypeOK' BY <1>1, Zenon DEF commit, MapTypeOK
  <2>2. HolderInv' BY <1>1, MapAssumption, Zenon DEF commit, MapTypeOK, HolderInv
  <2>3. ServedIsCurrent'
    BY <1>0, <1>1, Zenon DEF commit, ServedIsCurrent, BorrowedIsServed, CleanMeansServed, Readers
  <2> QED BY <2>1, <2>2, <2>3, Zenon
<1>2. CASE Swap(c)
  <2>1. MapTypeOK' BY <1>2, Zenon DEF Swap, MapTypeOK
  <2>2. holder = c /\ holder' = c BY <1>2, Zenon DEF Swap, HolderInv
  <2>3. HolderInv' BY <1>2, <2>2, Zenon DEF Swap, MapTypeOK, HolderInv
  <2>4. ServedIsCurrent'
    BY <1>0, <1>2, <2>2, Zenon DEF Swap, ServedIsCurrent, BorrowedIsServed, CleanMeansServed, Readers
  <2> QED BY <2>1, <2>3, <2>4, Zenon
<1>3. CASE Copy(c)
  <2>1. MapTypeOK' BY <1>3, Zenon DEF Copy, MapTypeOK
  <2>2. holder = c BY <1>3, Zenon DEF Copy, HolderInv
  <2>3. HolderInv' BY <1>3, <2>2, MapAssumption, Zenon DEF Copy, MapTypeOK, HolderInv
  <2>4. ServedIsCurrent'
    BY <1>3, Zenon DEF Copy, ServedIsCurrent, BorrowedIsServed, CleanMeansServed, Readers
  <2> QED BY <2>1, <2>3, <2>4, Zenon
<1> QED BY <1>1, <1>2, <1>3, Zenon DEF CommitterStep

LEMMA BorrowKeepsMap ==
  ASSUME MapInv, NEW b \in Borrowers, BorrowerStep(b) PROVE MapInv'
<1> USE DEF MapInv, BorrowerStep, Borrow, GiveBack
<1>1. MapTypeOK' BY Zenon DEF MapTypeOK
<1>2. HolderInv' BY Zenon DEF HolderInv
<1>3. BorrowedIsServed' BY Zenon DEF ServedIsCurrent, BorrowedIsServed, Readers, MapTypeOK
<1>4. CleanMeansServed' BY Zenon DEF ServedIsCurrent, CleanMeansServed, Numbers
<1> QED BY <1>1, <1>2, <1>3, <1>4, Zenon DEF ServedIsCurrent

LEMMA MapStep == MapInv /\ [MapNext]_mapVars => MapInv'
<1> SUFFICES ASSUME MapInv, [MapNext]_mapVars PROVE MapInv' BY Zenon
<1>1. CASE UNCHANGED mapVars
  BY <1>1, Zenon DEF mapVars, MapInv, MapTypeOK, HolderInv, ServedIsCurrent, BorrowedIsServed,
              CleanMeansServed, Readers
<1> QED
  BY <1>1, InsertKeepsMap, RemoveKeepsMap, ReadKeepsMap, CommitKeepsMap, BorrowKeepsMap, Zenon DEF MapNext

LEMMA MapInvariant == MapSpec => []MapInv
BY MapInitInv, MapStep, PTL DEF MapSpec

\* commit does not change a table under its borrowers, and a commit that is
\* skipped leaves out no new or removed number and no uuid but one that was
\* overwritten, for any numbers of threads and phone numbers (DirectoryMap's
\* insert, remove, commit).
THEOREM ServedIsCurrentTheorem == MapSpec => []ServedIsCurrent
<1>1. MapInv => ServedIsCurrent BY Zenon DEF MapInv
<1> QED BY <1>1, MapInvariant, PTL

-----------------------------------------------------------------------------
(* The map implements the register.                                        *)

Copying == \E c \in Committers : commitAt[c] = "copy"
Latest == IF Copying THEN serving ELSE building

\* While nobody holds the mutex the latest map is the one under construction.
LEMMA LatestUpdates ==
  ASSUME MapInv, holder = Nobody, UNCHANGED commitAt
  PROVE  Latest = building /\ Latest' = building'
BY NobodyCommits, Zenon DEF Latest, Copying

LEMMA RegisterInit == MapInit => Register!Init
BY Zenon DEF MapInit, Register!Init

\* Each step of the map is a step of the register or changes nothing in it.
LEMMA RegisterStep == MapInv /\ [MapNext]_mapVars => [Register!Next]_Register!vars
<1> SUFFICES ASSUME MapInv, [MapNext]_mapVars
             PROVE  \/ Latest' = Latest /\ serving' = serving
                    \/ /\ \E k \in MapPhones : \A j \in MapPhones \ {k} : Latest'[j] = Latest[j]
                       /\ serving' = serving
                    \/ Latest' \in Streams \cup UNION {Truncated(t) : t \in Streams} /\ serving' = serving
                    \/ serving' = Latest /\ Latest' = Latest
  BY Zenon DEF Register!Next, Register!vars, Register!UpdateNumber, Register!Load, Register!Publish,
         Latest, Copying
<1>1. CASE UNCHANGED mapVars BY <1>1, Zenon DEF mapVars, Latest, Copying
<1>2. ASSUME NEW k \in MapPhones, NEW u \in MapUuids, insert(k, u)
      PROVE  /\ \A j \in MapPhones \ {k} : Latest'[j] = Latest[j]
             /\ serving' = serving
  BY <1>2, LatestUpdates, Zenon DEF insert, MapInv, MapTypeOK, Tables
<1>3. ASSUME NEW k \in MapPhones, remove(k)
      PROVE  /\ \A j \in MapPhones \ {k} : Latest'[j] = Latest[j]
             /\ serving' = serving
  BY <1>3, LatestUpdates, Zenon DEF remove, MapInv, MapTypeOK, Tables
<1>4. ASSUME NEW t \in Streams, read_from(t) \/ read_from_fails(t)
      PROVE  Latest' \in Streams \cup UNION {Truncated(s) : s \in Streams} /\ serving' = serving
  BY <1>4, LatestUpdates, Zenon DEF read_from, read_from_fails
<1>5. ASSUME NEW c \in Committers, commit(c) PROVE Latest' = Latest /\ serving' = serving
  <2>1. ~Copying BY <1>5, NobodyCommits, Zenon DEF commit, Copying
  <2>2. ~Copying' BY <1>5, NobodyCommits, Zenon DEF commit, Copying, MapInv, MapTypeOK
  <2> QED BY <1>5, <2>1, <2>2, Zenon DEF commit, Latest
<1>6. ASSUME NEW c \in Committers, Swap(c) PROVE serving' = Latest /\ Latest' = Latest
  <2>1. ~Copying BY <1>6, Zenon DEF Swap, Copying, MapInv, HolderInv
  <2>2. Copying' BY <1>6, Zenon DEF Swap, Copying, MapInv, MapTypeOK
  <2> QED BY <1>6, <2>1, <2>2, Zenon DEF Swap, Latest
<1>7. ASSUME NEW c \in Committers, Copy(c) PROVE Latest' = Latest /\ serving' = serving
  <2>1. Copying BY <1>7, Zenon DEF Copy, Copying
  <2>2. ~Copying' BY <1>7, Zenon DEF Copy, Copying, MapInv, MapTypeOK, HolderInv
  <2> QED BY <1>7, <2>1, <2>2, Zenon DEF Copy, Latest
<1>8. ASSUME NEW b \in Borrowers, BorrowerStep(b) PROVE Latest' = Latest /\ serving' = serving
  BY <1>8, Zenon DEF BorrowerStep, Borrow, GiveBack, Latest, Copying
<1> QED BY <1>1, <1>2, <1>3, <1>4, <1>5, <1>6, <1>7, <1>8, Zenon DEF MapNext, CommitterStep

\* A reader never sees a commit half done: the map with its two tables behaves
\* as one map and a published copy of it (DirectoryMap's commit,
\* borrow_serving_buffers).
THEOREM MapImplementsRegister == MapSpec => ImplementsRegister
BY RegisterInit, RegisterStep, MapInvariant, PTL DEF MapSpec, ImplementsRegister, Register!Spec

-----------------------------------------------------------------------------
(* Arithmetic of the request limit.                                        *)

\* Division rounds down.
LEMMA DivRounds ==
  ASSUME NEW a \in Nat, NEW n \in Nat \ {0}
  PROVE  a \div n \in Nat /\ n * (a \div n) <= a /\ a < n * (a \div n) + n
OBVIOUS

LEMMA MulMonotone ==
  ASSUME NEW x \in Int, NEW y \in Int, NEW n \in Nat, x <= y PROVE n * x <= n * y
OBVIOUS

\* A quotient of numbers that were topped up first rounds up.
LEMMA DivRoundsUp ==
  ASSUME NEW a \in Nat, NEW n \in Nat \ {0}
  PROVE  (a + n - 1) \div n \in Nat /\ a <= n * ((a + n - 1) \div n)
<1> DEFINE q == (a + n - 1) \div n
<1>1. a + n - 1 \in Nat OBVIOUS
<1>2. q \in Nat /\ a + n - 1 < n * q + n BY <1>1, DivRounds, Zenon
<1>3. n * q \in Int BY <1>2
<1> HIDE DEF q
<1> QED BY <1>2, <1>3 DEF q

-----------------------------------------------------------------------------
(* The request limit.                                                      *)

\* What a bucket that loses nothing in rounding would have by now, times
\* RateDen.
Refilled(b) == Least(BucketSize * RateDen, RateDen * b.space + RateNum * (now - b.last))

\* A bucket in Redis or in a request: full, or as old as the last grant.
BucketOK(b) == b \in Buckets /\ b.last <= now /\ (b.space = BucketSize \/ b.last <= lastGrant)

Reqs == [at : {"idle", "read", "write"}, amount : Nat, bucket : Buckets \cup {NoBucket}]

LimitTypeOK ==
  /\ now \in Nat /\ lastGrant \in 0..now /\ expires \in Nat
  /\ stored = NoBucket \/ BucketOK(stored)
  /\ req \in [Clients -> Reqs]
  /\ \A c \in Clients : req[c].at # "idle" => BucketOK(req[c].bucket)
  /\ ideal \in Int /\ alone \in BOOLEAN

\* Redis drops a bucket only when it would be full.
ExpiryInv == stored # NoBucket => RateNum * (expires - stored.last) >= BucketSize * RateDen

\* While requests do not overlap, the bucket that counts, which is the one in
\* Redis or the one on its way there, has no more than the ideal one.
AloneInv ==
  alone =>
    /\ ideal >= 0
    /\ \A c, d \in Clients : req[c].at # "idle" /\ req[d].at # "idle" => c = d
    /\ \A c \in Clients : req[c].at # "idle" => Refilled(req[c].bucket) <= ideal
    /\ (\A c \in Clients : req[c].at # "write") =>
         IF stored = NoBucket THEN ideal = BucketSize * RateDen ELSE Refilled(stored) <= ideal

LimitInv == LimitTypeOK /\ ExpiryInv /\ AloneInv /\ RetryIsHonoured

LEMMA LimitInitInv == LimitInit => LimitInv
<1> SUFFICES ASSUME LimitInit PROVE LimitInv BY Zenon
<1> USE DEF LimitInit, Resting
<1>1. BucketSize * RateDen \in Nat BY LimitAssumption
<1>2. LimitTypeOK BY <1>1 DEF LimitTypeOK, Reqs
<1>3. ExpiryInv BY Zenon DEF ExpiryInv
<1>4. AloneInv BY <1>1 DEF AloneInv
<1>5. RetryIsHonoured BY DEF RetryIsHonoured, None
<1> QED BY <1>2, <1>3, <1>4, <1>5, Zenon DEF LimitInv

\* The numbers behind a bucket.
LEMMA BucketNumbers ==
  ASSUME LimitInv, NEW b, BucketOK(b)
  PROVE  /\ now \in Nat /\ b.last \in Nat /\ now - b.last \in Nat /\ b.space \in 0..BucketSize
         /\ RateNum * (now - b.last) \in Nat /\ RateDen * b.space \in Nat
         /\ BucketSize * RateDen \in Nat
<1>1. now \in Nat /\ b.last \in Nat /\ b.last <= now /\ b.space \in 0..BucketSize
  BY Zenon DEF LimitInv, LimitTypeOK, BucketOK, Buckets
<1> QED BY <1>1, LimitAssumption

\* What add makes of a bucket, which rounds down, is within what it would be
\* without rounding.
LEMMA RefillRounds ==
  ASSUME LimitInv, NEW b, BucketOK(b)
  PROVE  /\ getUpdatedSpaceRemaining(b) \in 0..BucketSize
         /\ RateDen * getUpdatedSpaceRemaining(b) <= Refilled(b)
<1> DEFINE e == RateNum * (now - b.last)
           q == e \div RateDen
<1>1. /\ now - b.last \in Nat /\ b.space \in 0..BucketSize
      /\ e \in Nat /\ RateDen * b.space \in Nat /\ BucketSize * RateDen \in Nat
  BY BucketNumbers, Zenon
<1>2. RateDen \in Nat \ {0} /\ RateNum \in Nat /\ BucketSize \in Nat BY LimitAssumption, Zenon
<1>3. (now - b.last) * RateNum = e BY <1>1, <1>2
<1>4. getUpdatedSpaceRemaining(b) = Least(BucketSize, b.space + q)
  BY <1>3, Zenon DEF getUpdatedSpaceRemaining
<1>5. q \in Nat /\ RateDen * q <= e BY <1>1, <1>2, DivRounds, Zenon
<1>6. Refilled(b) = Least(BucketSize * RateDen, RateDen * b.space + e) BY Zenon DEF Refilled
<1> HIDE DEF e, q
<1>7. RateDen * q \in Nat BY <1>2, <1>5
<1>8. RateDen * (b.space + q) = RateDen * b.space + RateDen * q BY <1>1, <1>2, <1>5
<1>9. CASE BucketSize < b.space + q
  <2>1. getUpdatedSpaceRemaining(b) = BucketSize BY <1>4, <1>9, Zenon DEF Least
  <2>2. RateDen * BucketSize <= RateDen * (b.space + q)
    BY <1>1, <1>2, <1>5, <1>9, MulMonotone
  <2>3. RateDen * BucketSize = BucketSize * RateDen BY <1>2
  <2> QED BY <1>1, <1>2, <1>5, <1>6, <1>7, <1>8, <2>1, <2>2, <2>3, SMTT(30) DEF Least
<1>10. CASE ~(BucketSize < b.space + q)
  <2>1. getUpdatedSpaceRemaining(b) = b.space + q BY <1>1, <1>2, <1>4, <1>5, <1>10, Zenon DEF Least
  <2>2. RateDen * (b.space + q) <= RateDen * BucketSize
    BY <1>1, <1>2, <1>5, <1>10, MulMonotone
  <2>3. RateDen * BucketSize = BucketSize * RateDen BY <1>2
  <2>4. b.space + q \in 0..BucketSize BY <1>1, <1>2, <1>5, <1>10
  <2> QED BY <1>1, <1>2, <1>5, <1>6, <1>7, <1>8, <2>1, <2>2, <2>3, <2>4 DEF Least
<1> QED BY <1>9, <1>10, Zenon

\* As time passes a bucket refills no faster than the ideal one.
LEMMA TickRefills ==
  ASSUME LimitInv, NEW b, BucketOK(b), now' = now + 1, Refilled(b) <= ideal
  PROVE  Least(BucketSize * RateDen, RateDen * b.space + RateNum * (now' - b.last))
           <= Least(BucketSize * RateDen, ideal + RateNum)
<1> DEFINE e == RateNum * (now - b.last)
<1>1. /\ now - b.last \in Nat /\ now \in Nat /\ b.last \in Nat
      /\ e \in Nat /\ RateDen * b.space \in Nat /\ BucketSize * RateDen \in Nat
  BY BucketNumbers, Zenon
<1>2. RateNum \in Nat /\ ideal \in Int BY LimitAssumption, Zenon DEF LimitInv, LimitTypeOK
<1>3. RateNum * (now' - b.last) = e + RateNum BY <1>1, <1>2
<1>4. Refilled(b) = Least(BucketSize * RateDen, RateDen * b.space + e) BY Zenon DEF Refilled
<1> HIDE DEF e
<1> QED BY <1>1, <1>2, <1>3, <1>4 DEF Least

\* Time passes.
LEMMA TickKeepsLimit == ASSUME LimitInv, Tick PROVE LimitInv'
<1> USE DEF Tick
<1>0. BucketSize * RateDen \in Nat /\ RateNum \in Nat BY LimitAssumption
<1>1. now \in Nat /\ now' = now + 1 /\ ideal \in Int BY Zenon DEF LimitInv, LimitTypeOK
<1>2. \A b : BucketOK(b) => BucketOK(b)' BY <1>1 DEF BucketOK, Buckets
<1>3. ideal' \in Int BY <1>0, <1>1 DEF Least
<1>4. LimitTypeOK' BY <1>1, <1>2, <1>3 DEF LimitInv, LimitTypeOK
<1>5. ExpiryInv' BY Zenon DEF LimitInv, ExpiryInv
<1>6. ASSUME NEW b, BucketOK(b), alone, Refilled(b) <= ideal PROVE Refilled(b)' <= ideal'
  BY <1>1, <1>6, TickRefills, Zenon DEF Refilled
<1>7. AloneInv'
  <2> SUFFICES ASSUME alone PROVE AloneInv' BY Zenon DEF AloneInv
  <2> USE DEF LimitInv, AloneInv
  <2>1. ideal' >= 0 BY <1>0, <1>1 DEF Least
  <2>2. \A c \in Clients : req[c].at # "idle" => Refilled(req[c].bucket)' <= ideal'
    BY <1>6, Zenon DEF LimitTypeOK
  <2>3. stored = NoBucket /\ ideal = BucketSize * RateDen => ideal' = BucketSize * RateDen
    BY <1>0 DEF Least
  <2>4. stored # NoBucket /\ Refilled(stored) <= ideal => Refilled(stored)' <= ideal'
    BY <1>6, Zenon DEF LimitTypeOK
  <2> QED BY <2>1, <2>2, <2>3, <2>4, Zenon
<1>8. RetryIsHonoured' BY DEF RetryIsHonoured, None
<1> QED BY <1>4, <1>5, <1>7, <1>8, Zenon DEF LimitInv

\* A request reads the bucket: a full one when Redis holds none, and then the
\* ideal one is full too.
LEMMA GetKeepsLimit ==
  ASSUME LimitInv, NEW c \in Clients, NEW amount \in Amounts, GetBucket(c, amount) PROVE LimitInv'
<1> DEFINE b == IF stored = NoBucket \/ now >= expires THEN Fresh ELSE stored
           full == BucketSize * RateDen
<1> USE DEF GetBucket
<1>0. /\ full \in Nat /\ RateNum \in Nat /\ RateDen \in Nat /\ BucketSize \in Nat \ {0} /\ amount \in Nat
  BY LimitAssumption
<1>1. now \in Nat /\ ideal \in Int /\ lastGrant \in 0..now /\ req \in [Clients -> Reqs] /\ expires \in Nat
  BY Zenon DEF LimitInv, LimitTypeOK
<1>2. BucketOK(Fresh) BY <1>0, <1>1 DEF BucketOK, Fresh, Buckets
<1>3. BucketOK(b) BY <1>2, Zenon DEF LimitInv, LimitTypeOK
<1>4. /\ req' = [req EXCEPT ![c] = [at |-> "read", amount |-> amount, bucket |-> b]]
      /\ UNCHANGED <<now, stored, expires, lastGrant>>
  BY Zenon
<1>5. \A x : (BucketOK(x) <=> BucketOK(x)') /\ Refilled(x)' = Refilled(x) BY Zenon DEF BucketOK, Refilled
<1>6. LimitTypeOK'
  <2>1. ideal' \in Int /\ alone' \in BOOLEAN BY <1>1 DEF LimitInv, LimitTypeOK
  <2>2. b \in Buckets BY <1>3, Zenon DEF BucketOK
  <2> HIDE DEF b
  <2>3. req' \in [Clients -> Reqs] BY <1>0, <1>1, <1>4, <2>2, SMTT(30) DEF Reqs
  <2>4. \A d \in Clients : req'[d].at # "idle" => BucketOK(req'[d].bucket)
    BY <1>1, <1>3, <1>4 DEF LimitInv, LimitTypeOK
  <2> QED BY <1>1, <1>4, <1>5, <2>1, <2>3, <2>4, Zenon DEF LimitInv, LimitTypeOK
<1>7. ExpiryInv' BY Zenon DEF LimitInv, ExpiryInv
<1>8. AloneInv'
  <2> SUFFICES ASSUME alone' PROVE AloneInv' BY Zenon DEF AloneInv
  <2>1. alone /\ ideal' = ideal /\ \A d \in Clients : req[d].at = "idle" BY Zenon DEF LimitInv, LimitTypeOK
  <2>2. /\ ideal >= 0
        /\ stored = NoBucket => ideal = full
        /\ stored # NoBucket => Refilled(stored) <= ideal
    BY <2>1, Zenon DEF LimitInv, AloneInv
  <2>3. stored # NoBucket /\ now >= expires => Refilled(stored) = full
    <3> SUFFICES ASSUME stored # NoBucket, now >= expires PROVE Refilled(stored) = full BY Zenon
    <3>1. BucketOK(stored) BY Zenon DEF LimitInv, LimitTypeOK
    <3>2. /\ stored.last \in Nat /\ RateDen * stored.space \in Nat /\ RateNum * (now - stored.last) \in Nat
          /\ now - stored.last \in Nat
      BY <3>1, BucketNumbers, Zenon
    <3>3. RateNum * (expires - stored.last) <= RateNum * (now - stored.last)
      <4>1. expires - stored.last \in Int /\ expires - stored.last <= now - stored.last BY <1>1, <3>2
      <4> QED BY <1>0, <3>2, <4>1, MulMonotone
    <3>4. full <= RateNum * (expires - stored.last) BY Zenon DEF LimitInv, ExpiryInv
    <3>5. RateNum * (expires - stored.last) \in Int BY <1>0, <1>1, <3>2
    <3> HIDE DEF full
    <3> QED BY <1>0, <3>2, <3>3, <3>4, <3>5 DEF Refilled, Least, full
  <2>4. Refilled(Fresh) = full
    <3>1. Fresh.space = BucketSize /\ Fresh.last = now BY Zenon DEF Fresh
    <3>2. RateNum * (now - Fresh.last) = 0 /\ RateDen * Fresh.space = full BY <1>0, <1>1, <3>1
    <3> HIDE DEF full
    <3> QED BY <1>0, <3>2 DEF Refilled, Least, full
  <2>5. Refilled(b) <= ideal BY <1>0, <1>1, <2>2, <2>3, <2>4
  <2> HIDE DEF b, full
  <2>6. /\ req'[c].at = "read" /\ req'[c].bucket = b
        /\ \A d \in Clients \ {c} : req'[d].at = "idle"
    BY <1>1, <1>4, <2>1
  <2>7. \A d \in Clients : req'[d].at # "idle" => Refilled(req[d].bucket)' <= ideal'
    <3>1. Refilled(req[c].bucket)' = Refilled(b) BY <1>4, <2>6, Zenon DEF Refilled
    <3> QED BY <2>1, <2>5, <2>6, <3>1, Zenon
  <2>8. IF stored = NoBucket THEN ideal = BucketSize * RateDen ELSE Refilled(stored)' <= ideal
    BY <1>5, <2>2, Zenon DEF full
  <2> QED BY <1>4, <2>1, <2>2, <2>6, <2>7, <2>8, Zenon DEF AloneInv
<1>9. RetryIsHonoured' BY DEF RetryIsHonoured, None
<1> QED BY <1>6, <1>7, <1>8, <1>9, Zenon DEF LimitInv

\* The bucket is written back, with a life that is enough to fill it.
LEMMA SetKeepsLimit ==
  ASSUME LimitInv, NEW c \in Clients, SetBucket(c) PROVE LimitInv'
<1> DEFINE b == req[c].bucket
           full == BucketSize * RateDen
           refill == (full + RateNum - 1) \div RateNum
           life == Second * ((refill + Second - 1) \div Second)
<1> USE DEF SetBucket
<1>0. full \in Nat /\ RateNum \in Nat \ {0} /\ Second \in Nat \ {0} BY LimitAssumption
<1>1. now \in Nat /\ req \in [Clients -> Reqs] BY Zenon DEF LimitInv, LimitTypeOK
<1>2. BucketOK(b) BY Zenon DEF LimitInv, LimitTypeOK
<1>3. b.last \in Nat /\ b.last <= now /\ b # NoBucket
  BY <1>2, LimitAssumption, Zenon DEF BucketOK, Buckets
<1>4. /\ req' = [req EXCEPT ![c] = Resting] /\ stored' = b /\ expires' = now + life
      /\ UNCHANGED <<now, ideal, alone, lastGrant>>
  BY Zenon
<1> HIDE DEF b, life, SetBucket
<1>5. refill \in Nat /\ full <= RateNum * refill BY <1>0, DivRoundsUp, Zenon
<1>6. life \in Nat /\ refill <= life
  <2> HIDE DEF refill
  <2>1. (refill + Second - 1) \div Second \in Nat /\ refill <= Second * ((refill + Second - 1) \div Second)
    BY <1>0, <1>5, DivRoundsUp, Zenon
  <2> QED BY <1>0, <2>1 DEF life
<1>7. full <= RateNum * (expires' - b.last)
  <2> HIDE DEF refill, full
  <2>1. expires' - b.last \in Nat /\ refill <= expires' - b.last BY <1>1, <1>3, <1>4, <1>5, <1>6
  <2>2. RateNum * refill <= RateNum * (expires' - b.last) BY <1>0, <1>5, <2>1, MulMonotone
  <2>3. RateNum * refill \in Int /\ RateNum * (expires' - b.last) \in Int BY <1>0, <1>5, <2>1
  <2> QED BY <1>0, <1>5, <2>2, <2>3
<1>8. ExpiryInv' BY <1>4, <1>7, Zenon DEF ExpiryInv
<1>9. \A x : (BucketOK(x) <=> BucketOK(x)') /\ Refilled(x)' = Refilled(x) BY <1>4, Zenon DEF BucketOK, Refilled
<1>10. /\ req'[c].at = "idle" /\ req' \in [Clients -> Reqs]
       /\ \A d \in Clients \ {c} : req'[d] = req[d]
  BY <1>1, <1>4, Zenon DEF Resting, Reqs
<1>11. LimitTypeOK'
  <2>1. expires' \in Nat BY <1>1, <1>4, <1>6
  <2> QED BY <1>2, <1>4, <1>9, <1>10, <2>1, Zenon DEF LimitInv, LimitTypeOK
<1>12. AloneInv'
  <2> SUFFICES ASSUME alone PROVE AloneInv' BY <1>4, Zenon DEF AloneInv
  <2>1. Refilled(b) <= ideal BY Zenon DEF LimitInv, AloneInv, SetBucket, b
  <2>2. \A d \in Clients : req'[d].at = "idle"
    BY <1>10, Zenon DEF LimitInv, AloneInv, SetBucket
  <2> QED BY <1>3, <1>4, <1>9, <2>1, <2>2, Zenon DEF LimitInv, AloneInv
<1>13. RetryIsHonoured' BY DEF SetBucket, RetryIsHonoured, None
<1> QED BY <1>8, <1>11, <1>12, <1>13, Zenon DEF LimitInv

\* A refusal: the amount has not leaked since the last grant.
LEMMA RefusedTooEarly ==
  ASSUME LimitInv, NEW b, BucketOK(b), NEW amount \in 1..BucketSize, getUpdatedSpaceRemaining(b) < amount
  PROVE  (now - lastGrant) * RateNum < amount * RateDen /\ now - lastGrant \in Nat
<1> DEFINE e == RateNum * (now - b.last)
           q == e \div RateDen
<1>1. /\ now - b.last \in Nat /\ b.space \in 0..BucketSize /\ b.last \in Nat
      /\ e \in Nat /\ RateDen * b.space \in Nat /\ BucketSize * RateDen \in Nat
  BY BucketNumbers, Zenon
<1>2. RateDen \in Nat \ {0} /\ RateNum \in Nat /\ BucketSize \in Nat BY LimitAssumption, Zenon
<1>3. (now - b.last) * RateNum = e BY <1>1, <1>2
<1>4. getUpdatedSpaceRemaining(b) = Least(BucketSize, b.space + q)
  BY <1>3, Zenon DEF getUpdatedSpaceRemaining
<1>5. q \in Nat /\ e < RateDen * q + RateDen BY <1>1, <1>2, DivRounds, Zenon
<1> HIDE DEF q
<1>6. b.space + q < amount BY <1>1, <1>2, <1>4, <1>5, SMTT(30) DEF Least
<1>7. b.last <= lastGrant /\ lastGrant \in 0..now /\ now \in Nat
  BY <1>1, <1>2, <1>5, <1>6 DEF BucketOK, LimitInv, LimitTypeOK
<1>8. RateDen * (q + 1) <= RateDen * amount BY <1>1, <1>2, <1>5, <1>6, MulMonotone
<1>9. RateNum * (now - lastGrant) <= e BY <1>1, <1>2, <1>7, MulMonotone
<1>10. /\ RateDen * (q + 1) = RateDen * q + RateDen /\ RateDen * q \in Nat
       /\ RateDen * amount = amount * RateDen /\ amount * RateDen \in Nat
       /\ (now - lastGrant) * RateNum = RateNum * (now - lastGrant) /\ (now - lastGrant) * RateNum \in Int
  BY <1>1, <1>2, <1>5, <1>7
<1> HIDE DEF e
<1>11. now - lastGrant \in Nat BY <1>7
<1> QED BY <1>1, <1>2, <1>5, <1>8, <1>9, <1>10, <1>11

\* A time that is below a quotient is within the quotient rounded down, and
\* within a second of that in whole seconds.
LEMMA TruncatedRetry ==
  ASSUME NEW since \in Nat, NEW amount \in Nat, since * RateNum < amount * RateDen
  PROVE  /\ since <= RetryAfter(amount)
         /\ since < Second * (RetryHeader(RetryAfter(amount)) + 1)
<1> DEFINE a == amount * RateDen
           q == a \div RateNum
           h == q \div Second
<1>1. RateNum \in Nat \ {0} /\ RateDen \in Nat /\ Second \in Nat \ {0} BY LimitAssumption, Zenon
<1>2. a \in Nat BY <1>1
<1>3. since * RateNum < a BY Zenon
<1> HIDE DEF a
<1>4. q \in Nat /\ a < RateNum * q + RateNum BY <1>1, <1>2, DivRounds, Zenon
<1> HIDE DEF q
<1>5. since <= q
  <2> SUFFICES ASSUME q + 1 <= since PROVE FALSE BY <1>4
  <2>1. RateNum * (q + 1) <= RateNum * since BY <1>1, <1>4, MulMonotone
  <2>2. /\ RateNum * (q + 1) = RateNum * q + RateNum /\ RateNum * since = since * RateNum
        /\ RateNum * q \in Int /\ since * RateNum \in Int
    BY <1>1, <1>4
  <2> QED BY <1>1, <1>2, <1>3, <1>4, <2>1, <2>2
<1>6. h \in Nat /\ q < Second * h + Second BY <1>1, <1>4, DivRounds, Zenon
<1> HIDE DEF h
<1>7. Second * (h + 1) = Second * h + Second /\ Second * h \in Nat BY <1>1, <1>6
<1>8. since < Second * (h + 1) BY <1>1, <1>4, <1>5, <1>6, <1>7
<1> QED BY <1>5, <1>8, Zenon DEF RetryAfter, RetryHeader, a, q, h

\* add grants what there is in the bucket, which the ideal one has too.
LEMMA AddKeepsLimit ==
  ASSUME LimitInv, NEW c \in Clients, AddAmount(c) PROVE LimitInv'
<1> DEFINE b == req[c].bucket
           space == getUpdatedSpaceRemaining(b)
           amount == req[c].amount
           left == [space |-> space - amount, last |-> now]
<1>0. /\ RateNum \in Nat /\ RateDen \in Nat \ {0} /\ BucketSize \in Nat
      /\ BucketSize * RateDen \in Nat
  BY LimitAssumption
<1>1. /\ now \in Nat /\ req \in [Clients -> Reqs] /\ ideal \in Int /\ amount \in Nat
      /\ lastGrant \in 0..now /\ expires \in Nat /\ alone \in BOOLEAN
  BY Zenon DEF LimitInv, LimitTypeOK, Reqs
<1>2. BucketOK(b) BY Zenon DEF AddAmount, LimitInv, LimitTypeOK
<1>3. space \in 0..BucketSize /\ RateDen * space <= Refilled(b) BY <1>2, RefillRounds, Zenon
<1>4. CASE space >= amount
  <2>1. /\ req' = [req EXCEPT ![c] = [req[c] EXCEPT !.at = "write", !.bucket = left]]
        /\ ideal' = IF alone THEN ideal - amount * RateDen ELSE ideal
        /\ lastGrant' = now /\ refused' = None
        /\ UNCHANGED <<now, stored, expires, alone>>
    BY <1>4, Zenon DEF AddAmount, Kept
  <2> HIDE DEF space, amount
  <2>2. left \in Buckets /\ left.space = space - amount /\ left.last = now
    BY <1>0, <1>1, <1>3, <1>4 DEF Buckets
  <2> HIDE DEF left
  <2>3. /\ req' \in [Clients -> Reqs] /\ req'[c].at = "write" /\ req'[c].bucket = left
        /\ \A d \in Clients \ {c} : req'[d] = req[d]
    BY <1>1, <2>1, <2>2, Zenon DEF Reqs
  <2>4. \A x : BucketOK(x) => BucketOK(x)' BY <1>1, <2>1, Zenon DEF BucketOK, Buckets
  <2>5. BucketOK(req[c].bucket)' BY <1>1, <2>1, <2>2, <2>3 DEF BucketOK
  <2>6. ideal' \in Int BY <1>0, <1>1, <2>1
  <2>7. LimitTypeOK'
    <3>1. now' \in Nat /\ lastGrant' \in 0..now' /\ expires' \in Nat /\ alone' \in BOOLEAN BY <1>1, <2>1
    <3>2. stored' = NoBucket \/ BucketOK(stored)' BY <2>1, <2>4, Zenon DEF LimitInv, LimitTypeOK
    <3>3. \A d \in Clients : req'[d].at # "idle" => BucketOK(req[d].bucket)'
      BY <2>1, <2>3, <2>4, <2>5, Zenon DEF LimitInv, LimitTypeOK
    <3> QED BY <2>3, <2>6, <3>1, <3>2, <3>3, Zenon DEF LimitTypeOK
  <2>8. ExpiryInv' BY <2>1, Zenon DEF LimitInv, ExpiryInv
  <2>9. AloneInv'
    <3> SUFFICES ASSUME alone PROVE AloneInv' BY <2>1, Zenon DEF AloneInv
    <3>1. Refilled(b) <= ideal /\ \A d \in Clients \ {c} : req[d].at = "idle"
      BY Zenon DEF LimitInv, AloneInv, AddAmount, b
    <3>2. Refilled(b) \in Int
      BY <1>0, <1>2, BucketNumbers DEF Refilled, Least
    <3>3. RateDen * space \in Int /\ RateDen * space <= ideal BY <1>0, <1>1, <1>3, <3>1, <3>2
    <3>4. RateDen * (space - amount) = RateDen * space - amount * RateDen /\ amount * RateDen \in Int
      BY <1>0, <1>1, <1>3
    <3>5. RateDen * (space - amount) \in Nat BY <1>0, <1>1, <1>3, <1>4
    <3>6. ideal' >= RateDen * (space - amount) /\ ideal' >= 0 BY <1>1, <2>1, <3>3, <3>4, <3>5
    <3>7. Refilled(req[c].bucket)' <= RateDen * (space - amount)
      <4>1. RateNum * (now' - left.last) = 0 BY <1>0, <1>1, <2>1, <2>2
      <4>2. Refilled(req[c].bucket)' = Least(BucketSize * RateDen, RateDen * (space - amount) + 0)
        BY <2>2, <2>3, <4>1, Zenon DEF Refilled
      <4> QED BY <1>0, <3>5, <4>2 DEF Least
    <3>8. Refilled(req[c].bucket)' <= ideal'
      <4>1. Refilled(req[c].bucket)' \in Int
        BY <1>0, <1>1, <2>1, <2>2, <2>3, <3>5 DEF Refilled, Least
      <4> QED BY <2>6, <3>5, <3>6, <3>7, <4>1
    <3> QED BY <2>3, <3>1, <3>6, <3>8 DEF AloneInv
  <2>10. RetryIsHonoured' BY <2>1 DEF RetryIsHonoured, None
  <2> QED BY <2>7, <2>8, <2>9, <2>10, Zenon DEF LimitInv
<1>5. CASE ~(space >= amount)
  <2>1. /\ req' = [req EXCEPT ![c] = Resting] /\ ideal' = ideal /\ lastGrant' = lastGrant
        /\ refused' = [amount |-> amount, retryAfter |-> RetryAfter(amount), since |-> now - lastGrant]
        /\ UNCHANGED <<now, stored, expires, alone>>
    BY <1>5, Zenon DEF AddAmount, Kept
  <2>2. /\ req'[c].at = "idle" /\ req' \in [Clients -> Reqs]
        /\ \A d \in Clients \ {c} : req'[d] = req[d]
    BY <1>1, <2>1, Zenon DEF Resting, Reqs
  <2>3. \A x : (BucketOK(x) <=> BucketOK(x)') /\ Refilled(x)' = Refilled(x)
    BY <2>1, Zenon DEF BucketOK, Refilled
  <2>4. LimitTypeOK' BY <2>1, <2>2, <2>3, Zenon DEF LimitInv, LimitTypeOK
  <2>5. ExpiryInv' BY <2>1, Zenon DEF LimitInv, ExpiryInv
  <2>6. AloneInv'
    <3> SUFFICES ASSUME alone PROVE AloneInv' BY <2>1, Zenon DEF AloneInv
    <3>1. \A d \in Clients : req[d].at # "write" BY Zenon DEF LimitInv, AloneInv, AddAmount
    <3>2. \A d \in Clients : req'[d].at = "idle" BY <2>2, Zenon DEF LimitInv, AloneInv, AddAmount
    <3> QED BY <2>1, <2>3, <3>1, <3>2, Zenon DEF LimitInv, AloneInv
  <2>7. RetryIsHonoured'
    <3> SUFFICES ASSUME amount \in 1..BucketSize
                 PROVE  /\ now - lastGrant <= RetryAfter(amount)
                        /\ now - lastGrant < Second * (RetryHeader(RetryAfter(amount)) + 1)
      BY <2>1, Zenon DEF RetryIsHonoured
    <3>1. space < amount BY <1>0, <1>1, <1>3, <1>5
    <3> QED BY <1>1, <1>2, <3>1, RefusedTooEarly, TruncatedRetry, Zenon
  <2> QED BY <2>4, <2>5, <2>6, <2>7, Zenon DEF LimitInv
<1> QED BY <1>4, <1>5, Zenon

LEMMA LimitStep == LimitInv /\ [LimitNext]_limitVars => LimitInv'
<1> SUFFICES ASSUME LimitInv, [LimitNext]_limitVars PROVE LimitInv' BY Zenon
<1>1. CASE UNCHANGED limitVars
  BY <1>1, Zenon DEF limitVars, LimitInv, LimitTypeOK, BucketOK, ExpiryInv, AloneInv, Refilled, RetryIsHonoured
<1> QED BY <1>1, TickKeepsLimit, GetKeepsLimit, AddKeepsLimit, SetKeepsLimit, Zenon DEF LimitNext

LEMMA LimitInvariant == LimitSpec => []LimitInv
BY LimitInitInv, LimitStep, PTL DEF LimitSpec

\* Requests that do not overlap are granted no more than the bucket and what
\* leaks from it, for every size, rate and amount, and the bucket in Redis is
\* never overdrawn or overfull whatever overlaps (RateLimiter.validate,
\* LeakyBucket.add).
THEOREM GrantsWithinRateTheorem == LimitSpec => []GrantsWithinRate
<1>1. LimitInv => GrantsWithinRate
  BY Zenon DEF LimitInv, AloneInv, LimitTypeOK, BucketOK, Buckets, GrantsWithinRate
<1> QED BY <1>1, LimitInvariant, PTL

\* A request that fits the bucket is refused at most for the whole milliseconds
\* of RateLimitExceededException after the last grant, and for less than a second
\* more than the Retry-After header says, for every size, rate and amount
\* (LeakyBucket.add, RateLimiter.validate, RateLimitExceededExceptionMapper).
THEOREM RetryIsHonouredTheorem == LimitSpec => []RetryIsHonoured
<1>1. LimitInv => RetryIsHonoured BY Zenon DEF LimitInv
<1> QED BY <1>1, LimitInvariant, PTL

-----------------------------------------------------------------------------
(* The client of the phone limiter.                                        *)

\* A non-empty set of natural numbers has a least element.
LEMMA LeastOf ==
  ASSUME NEW S \in SUBSET Nat, S # {} PROVE \E n \in S : \A m \in S : n <= m
<1>1. \E n \in S : \A m \in S : ~(<<m, n>> \in OpToRel(<, Nat))
  BY NatLessThanWellFounded, WFMin, Zenon
<1>2. PICK n \in S : \A m \in S : ~(<<m, n>> \in OpToRel(<, Nat)) BY <1>1, Zenon
<1>3. ASSUME NEW m \in S PROVE n <= m
  <2>1. <<m, n>> \notin OpToRel(<, Nat) BY <1>2, Zenon
  <2>2. m < n => <<m, n>> \in OpToRel(<, Nat) BY Zenon DEF OpToRel
  <2>3. ~(m < n) BY <2>1, <2>2, Zenon
  <2>4. m \in Nat /\ n \in Nat BY Zenon
  <2> QED BY <2>3, <2>4
<1> QED BY <1>3, Zenon

LEMMA LessTransitive ==
  ASSUME NEW a \in Nat, NEW b \in Nat, NEW c \in Nat, a < b, b < c PROVE a < c
OBVIOUS

\* What configToHostRanges has found out about the ranges it sorted.
Partition(r, n) ==
  /\ \A k \in 1..n : r[k].start \in Nat /\ r[k].end \in Nat /\ r[k].start < r[k].end
  /\ r[1].start = 0
  /\ r[n].end = Cardinality(Hashes) - 1
  /\ \A k \in 2..n : r[k - 1].end + 1 = r[k].start

\* The ends of the sorted ranges increase.
LEMMA EndsIncrease ==
  ASSUME NEW n \in Nat \ {0}, NEW r, Partition(r, n)
  PROVE  \A i, j \in 1..n : i < j => r[i].end < r[j].end
<1> DEFINE Bad == {j \in 1..n : \E i \in 1..n : i < j /\ ~(r[i].end < r[j].end)}
<1>1. SUFFICES Bad = {} BY Zenon
<1>2. SUFFICES ASSUME Bad # {} PROVE FALSE BY Zenon
<1>3. Bad \in SUBSET Nat OBVIOUS
<1>4. PICK j \in Bad : \A m \in Bad : j <= m BY <1>2, <1>3, LeastOf, Zenon
<1>5. PICK i \in 1..n : i < j /\ ~(r[i].end < r[j].end) BY <1>4, Zenon
<1>6. j \in 2..n /\ j - 1 \in 1..n BY <1>4, <1>5
<1>7. j - 1 \notin Bad BY <1>4, <1>6
<1>8. \A k \in 1..n : k < j - 1 => r[k].end < r[j - 1].end BY <1>6, <1>7, Zenon
<1> HIDE DEF Bad
<1>9. r[j - 1].end + 1 = r[j].start /\ r[j].start < r[j].end
  BY <1>6 DEF Partition
<1>10. r[j - 1].end \in Nat /\ r[i].end \in Nat /\ r[j].end \in Nat /\ r[j].start \in Nat
  BY <1>5, <1>6 DEF Partition
<1>11. r[j - 1].end < r[j].end BY <1>9, <1>10
<1>12. i # j - 1 BY <1>5, <1>11, Zenon
<1>13. r[i].end < r[j - 1].end BY <1>5, <1>6, <1>12, <1>8
<1>14. r[i].end < r[j].end BY <1>10, <1>11, <1>13, LessTransitive, Zenon
<1> QED BY <1>5, <1>14, Zenon

\* Each hash lies in one of the sorted ranges, the first that ends at or after
\* it.
LEMMA FirstEndCovers ==
  ASSUME NEW n \in Nat \ {0}, NEW r, Partition(r, n), NEW x \in Hashes
  PROVE  \E k \in 1..n :
           /\ r[k].start <= x /\ x <= r[k].end
           /\ \A m \in 1..n : x <= r[m].end => r[k].end <= r[m].end
<1> DEFINE S == {k \in 1..n : x <= r[k].end}
<1>1. x \in Nat /\ x <= Cardinality(Hashes) - 1 BY PhoneAssumption, FS_CardinalityType
<1>2. n \in S BY <1>1 DEF Partition
<1>3. PICK k \in S : \A m \in S : k <= m
  <2>1. S \in SUBSET Nat /\ S # {} BY <1>2
  <2> QED BY <2>1, LeastOf, Zenon
<1>4. k \in 1..n /\ x <= r[k].end BY <1>3, Zenon
<1>5. r[k].start <= x
  <2>1. CASE k = 1 BY <2>1, <1>1 DEF Partition
  <2>2. CASE k # 1
    <3>1. k \in 2..n /\ k - 1 \in 1..n BY <1>4, <2>2
    <3>2. k - 1 \notin S BY <1>3, <1>4
    <3>3. ~(x <= r[k - 1].end) BY <3>1, <3>2, Zenon
    <3>4. r[k - 1].end + 1 = r[k].start /\ r[k - 1].end \in Nat
      BY <3>1, Zenon DEF Partition
    <3> QED BY <3>3, <3>4, <1>1
  <2> QED BY <2>1, <2>2, Zenon
<1>6. ASSUME NEW m \in 1..n, x <= r[m].end PROVE r[k].end <= r[m].end
  <2>1. k <= m BY <1>3, <1>6, Zenon
  <2>2. r[k].end \in Nat /\ r[m].end \in Nat BY <1>4, Zenon DEF Partition
  <2>3. CASE k = m BY <2>2, <2>3
  <2>4. CASE k < m
    <3>1. r[k].end < r[m].end BY <1>4, <2>4, EndsIncrease, Zenon
    <3> QED BY <3>1, <2>2
  <2> QED BY <2>1, <2>3, <2>4, <1>4
<1> QED BY <1>4, <1>5, <1>6, Zenon

\* Each range of c is as many times in r.
SameTimes(r, c, n) ==
  \A v \in {c[k] : k \in 1..n} :
    Cardinality({k \in 1..n : r[k] = v}) = Cardinality({k \in 1..n : c[k] = v})

\* Each range of the configuration is one of the sorted list.
LEMMA SortedSame ==
  ASSUME NEW n \in Nat, NEW c, NEW r, SameTimes(r, c, n), NEW j \in 1..n
  PROVE  \E k \in 1..n : r[k] = c[j]
<1> DEFINE R == {k \in 1..n : r[k] = c[j]}
           C == {k \in 1..n : c[k] = c[j]}
<1>1. Cardinality(R) = Cardinality(C) BY Zenon DEF SameTimes
<1>2. IsFiniteSet(1..n) BY FS_Interval
<1>3. IsFiniteSet(R) /\ IsFiniteSet(C)
  <2>1. R \subseteq 1..n /\ C \subseteq 1..n BY Zenon
  <2> QED BY <1>2, <2>1, FS_Subset, Zenon
<1>4. j \in C BY Zenon
<1>5. Cardinality(C) # 0 BY <1>3, <1>4, FS_EmptySet, Zenon
<1>6. R # {} BY <1>1, <1>5, FS_EmptySet, Zenon
<1> QED BY <1>6, Zenon

LEMMA SeqElement ==
  ASSUME NEW S, NEW c \in Seq(S), NEW k \in 1..Len(c) PROVE c[k] \in S
OBVIOUS

\* The search in the tree map finds the one range a hash lies in.
LEMMA LookupFinds ==
  ASSUME NEW c \in Seq([start : Hashes, end : Hashes]), configToHostRanges(c),
         NEW x \in Hashes
  PROVE  /\ Cardinality(lookup(c, x)) = 1
         /\ \A k \in lookup(c, x) : c[k].start <= x /\ x <= c[k].end
<1> DEFINE n == Len(c)
<1>1. n \in Nat \ {0} BY DEF configToHostRanges
<1>2. Hashes \subseteq Nat BY PhoneAssumption, FS_CardinalityType
<1>3. \A k \in 1..n : c[k] \in [start : Hashes, end : Hashes] BY SeqElement, Zenon
<1>4. PICK r :
        /\ r \in [1..n -> {c[k] : k \in 1..n}]
        /\ IsSorted(r, c)
        /\ \A k \in 1..n : r[k].start < r[k].end
        /\ r[1].start = 0
        /\ r[n].end = Cardinality(Hashes) - 1
        /\ \A k \in 2..n : Adjacent(r[k - 1], r[k])
  BY Zenon DEF configToHostRanges
<1>5. \A k \in 1..n : \E j \in 1..n : r[k] = c[j] BY <1>4, Zenon
<1>6. Partition(r, n)
  <2>1. \A k \in 1..n : r[k].start \in Nat /\ r[k].end \in Nat BY <1>2, <1>3, <1>5, Zenon
  <2> QED BY <1>4, <2>1, Zenon DEF Partition, Adjacent
<1>7. SameTimes(r, c, n) BY <1>4, Zenon DEF IsSorted, SameTimes
<1>8. \A j \in 1..n : \E k \in 1..n : r[k] = c[j]
  <2>1. n \in Nat BY <1>1, Zenon
  <2> HIDE DEF n
  <2> QED BY <2>1, <1>7, SortedSame
<1>9. PICK k0 \in 1..n :
        /\ r[k0].start <= x /\ x <= r[k0].end
        /\ \A m \in 1..n : x <= r[m].end => r[k0].end <= r[m].end
  BY <1>1, <1>6, FirstEndCovers, Zenon
<1>10. \A i, j \in 1..n : i < j => r[i].end < r[j].end BY <1>1, <1>6, EndsIncrease, Zenon
<1>11. \A m \in 1..n : r[m].end = r[k0].end => m = k0
  <2>1. SUFFICES ASSUME NEW m \in 1..n, r[m].end = r[k0].end, m # k0 PROVE FALSE BY Zenon
  <2>2. r[m].end \in Nat /\ r[k0].end \in Nat BY <1>6, Zenon DEF Partition
  <2>3. m < k0 \/ k0 < m BY <2>1, <1>1
  <2> QED BY <2>1, <2>2, <2>3, <1>10
<1> DEFINE One == {k \in 1..n : c[k] = r[k0]}
<1>12. Cardinality(One) = 1
  <2>1. {k \in 1..n : r[k] = r[k0]} = {k0} BY <1>11, Zenon
  <2>2. Cardinality({k0}) = 1 BY FS_Singleton, Zenon
  <2>3. r[k0] \in {c[k] : k \in 1..n} BY <1>5, Zenon
  <2>4. Cardinality({k \in 1..n : r[k] = r[k0]}) = Cardinality(One) BY <1>7, <2>3, Zenon DEF SameTimes
  <2> QED BY <2>1, <2>2, <2>4, Zenon
<1>13. lookup(c, x) = One
  <2> DEFINE ends == {c[k].end : k \in 1..n}
             above == {e \in ends : e >= x}
  <2>1. r[k0].end \in above
    <3>1. r[k0].end \in ends BY <1>5, Zenon
    <3>2. r[k0].end \in Nat /\ x \in Nat BY <1>2, <1>6, Zenon DEF Partition
    <3> QED BY <3>1, <3>2, <1>9, Zenon
  <2>2. \A e \in above : r[k0].end <= e
    <3>1. SUFFICES ASSUME NEW j \in 1..n, c[j].end >= x PROVE r[k0].end <= c[j].end BY Zenon
    <3>2. PICK m \in 1..n : r[m] = c[j] BY <1>8, Zenon
    <3>3. r[m].end \in Nat /\ x \in Nat BY <1>2, <1>6, Zenon DEF Partition
    <3>4. x <= r[m].end BY <3>1, <3>2, <3>3, Zenon
    <3> QED BY <3>2, <3>4, <1>9, Zenon
  <2>3. lookup(c, x) = {k \in 1..n : c[k].end \in above /\ \A e \in above : c[k].end <= e}
    BY Zenon DEF lookup
  <2>4. ASSUME NEW k \in 1..n PROVE (c[k].end \in above /\ \A e \in above : c[k].end <= e) <=> c[k] = r[k0]
    <3>1. PICK m \in 1..n : r[m] = c[k] BY <1>8, Zenon
    <3>2. r[m].end \in Nat /\ r[k0].end \in Nat BY <1>6, Zenon DEF Partition
    <3>3. ASSUME c[k].end \in above, \A e \in above : c[k].end <= e PROVE c[k] = r[k0]
      <4>1. c[k].end <= r[k0].end /\ r[k0].end <= c[k].end BY <2>1, <2>2, <3>3, Zenon
      <4>2. r[m].end = r[k0].end BY <3>1, <3>2, <4>1
      <4> QED BY <3>1, <4>2, <1>11, Zenon
    <3>4. ASSUME c[k] = r[k0] PROVE c[k].end \in above /\ \A e \in above : c[k].end <= e
      BY <2>1, <2>2, <3>4, Zenon
    <3> QED BY <3>3, <3>4, Zenon
  <2> QED BY <2>3, <2>4, Zenon
<1>14. \A k \in lookup(c, x) : c[k].start <= x /\ x <= c[k].end BY <1>9, <1>13, Zenon
<1> QED BY <1>12, <1>13, <1>14, Zenon

PhoneTypeOK ==
  /\ config \in Configs
  /\ kind \in {"attest", "discovery"}
  /\ fut \in [Hosts -> {"pending", "ok", "no", "failed"}]

\* An endpoint waiting for attestations: no answer is a refusal, and the first
\* normal answer is there once a host has given one.
AttestInv ==
  kind = "attest" =>
    /\ \A h \in Hosts : fut[h] # "no"
    /\ firstOk # Undecided <=> \E h \in Hosts : fut[h] = "ok"

\* An endpoint waiting for a decision: the future is the first normal answer
\* from then on, and before it the failure of the last host, when all have
\* failed.
DecisionInv ==
  kind = "discovery" =>
    /\ firstOk \in {Undecided, "ok", "no"}
    /\ firstOk = Undecided => \A h \in Hosts : fut[h] \in {"pending", "failed"}
    /\ firstOk = Undecided => whole = IF Settled(fut) THEN "failed" ELSE Undecided

PhoneInv == PhoneTypeOK /\ AttestInv /\ DecisionInv /\ FirstNormalWins

LEMMA PhoneInitInv == PhoneInit => PhoneInv
<1> SUFFICES ASSUME PhoneInit PROVE PhoneInv BY Zenon
<1> USE DEF PhoneInit
<1>1. PhoneTypeOK BY Zenon DEF PhoneTypeOK
<1>2. ~Settled(fut) BY PhoneAssumption, Zenon DEF Settled
<1>3. AttestInv BY Zenon DEF AttestInv
<1>4. DecisionInv BY <1>2, Zenon DEF DecisionInv
<1>5. FirstNormalWins BY <1>2, Zenon DEF FirstNormalWins
<1> QED BY <1>1, <1>3, <1>4, <1>5, Zenon DEF PhoneInv

\* The answer of a host to a request for attestations.
LEMMA AttestationAnswered ==
  ASSUME PhoneInv, kind = "attest", NEW h \in Hosts, NEW code \in {200, 429, 500},
         HostDone(h, code)
  PROVE  PhoneInv'
<1> DEFINE answer == Outcome(code)
<1>1. answer \in {"ok", "failed"} BY ZenonT(30) DEF Outcome
<1>2. /\ fut[h] = "pending" /\ fut' = [fut EXCEPT ![h] = answer]
      /\ firstOk' = IF answer # "failed" /\ firstOk = Undecided THEN answer ELSE firstOk
      /\ whole' = IF Settled(fut') THEN composeAttestationResponses(fut') ELSE whole
      /\ UNCHANGED <<config, kind, resumed>>
  BY Zenon DEF HostDone
<1>3. PhoneTypeOK /\ AttestInv BY ZenonT(30) DEF PhoneInv
<1>4. PhoneTypeOK' BY <1>1, <1>2, <1>3, Zenon DEF PhoneTypeOK
<1>5. /\ fut'[h] = answer
      /\ \A g \in Hosts : g # h => fut'[g] = fut[g]
  BY <1>2, <1>3 DEF PhoneTypeOK
<1>6. AttestInv'
  <2>1. \A g \in Hosts : fut'[g] # "no" BY <1>1, <1>3, <1>5 DEF AttestInv
  <2>2. CASE answer = "ok"
    <3>1. firstOk' # Undecided BY <1>2, <2>2, PhoneAssumption, Zenon
    <3> QED BY <1>5, <2>1, <2>2, <3>1 DEF AttestInv
  <2>3. CASE answer = "failed"
    <3>1. firstOk' = firstOk BY <1>2, <2>3, ZenonT(40)
    <3>2. (\E g \in Hosts : fut'[g] = "ok") <=> \E g \in Hosts : fut[g] = "ok"
      BY <1>2, <1>5, <2>3
    <3> QED BY <1>2, <1>3, <2>1, <3>1, <3>2, ZenonT(30) DEF AttestInv
  <2> QED BY <1>1, <2>2, <2>3, ZenonT(40)
<1>7. DecisionInv' BY <1>2, Zenon DEF DecisionInv
<1>8. FirstNormalWins'
  <2>1. ASSUME Settled(fut')
        PROVE  whole' = IF firstOk' = Undecided THEN "failed"
                        ELSE <<"responses", {g \in Hosts : fut'[g] = "ok"}>>
    <3>1. whole' = composeAttestationResponses(fut') BY <1>2, <2>1, Zenon
    <3>2. firstOk' = Undecided <=> {g \in Hosts : fut'[g] = "ok"} = {}
      BY <1>2, <1>6 DEF AttestInv
    <3> QED BY <3>1, <3>2, Zenon DEF composeAttestationResponses
  <2>2. Settled(fut)' <=> Settled(fut') BY Zenon DEF Settled
  <2> QED BY <1>2, <2>1, <2>2, Zenon DEF FirstNormalWins
<1> QED BY <1>4, <1>6, <1>7, <1>8, Zenon DEF PhoneInv

\* The answer of a host to a request for a decision.
LEMMA DecisionAnswered ==
  ASSUME PhoneInv, kind = "discovery", NEW h \in Hosts, NEW code \in {200, 429, 500},
         HostDone(h, code)
  PROVE  PhoneInv'
<1> DEFINE answer == Outcome(code)
<1>1. answer \in {"ok", "no", "failed"} BY ZenonT(30) DEF Outcome
<1>2. /\ fut[h] = "pending" /\ fut' = [fut EXCEPT ![h] = answer]
      /\ firstOk' = IF answer # "failed" /\ firstOk = Undecided THEN answer ELSE firstOk
      /\ whole' = firstNormalOf(fut', answer)
      /\ IF whole' # whole THEN Resume(whole') ELSE UNCHANGED resumed
      /\ UNCHANGED <<config, kind>>
  BY Zenon DEF HostDone
<1>3. PhoneTypeOK /\ DecisionInv /\ FirstNormalWins BY Zenon DEF PhoneInv
<1>4. PhoneTypeOK' BY <1>1, <1>2, <1>3, Zenon DEF PhoneTypeOK
<1>5. /\ fut'[h] = answer
      /\ \A g \in Hosts : g # h => fut'[g] = fut[g]
  BY <1>2, <1>3 DEF PhoneTypeOK
<1>6. AttestInv' BY <1>2, Zenon DEF AttestInv
<1>7. ~Settled(fut) BY <1>2, ZenonT(30) DEF Settled
<1>8. Settled(fut)' <=> Settled(fut') BY Zenon DEF Settled
<1>9. DecisionInv' /\ FirstNormalWins'
  <2>1. CASE firstOk # Undecided
    <3>1. firstOk' = firstOk /\ firstOk \in {"ok", "no"} BY <1>2, <1>3, <2>1, ZenonT(30) DEF DecisionInv
    <3>2. whole = firstOk /\ Len(resumed) = 1 BY <1>3, <2>1, Zenon DEF FirstNormalWins
    <3>3. whole' = whole
      BY <1>2, <3>1, <3>2, PhoneAssumption, Zenon DEF firstNormalOf, Completed
    <3>4. resumed' = resumed BY <1>2, <3>3, Zenon
    <3> QED BY <1>2, <2>1, <3>1, <3>2, <3>3, <3>4 DEF DecisionInv, FirstNormalWins
  <2>2. CASE firstOk = Undecided /\ answer = "failed"
    <3>1. firstOk' = Undecided /\ whole = Undecided /\ resumed = <<>>
      BY <1>2, <1>3, <1>7, <2>2, Zenon DEF DecisionInv, FirstNormalWins
    <3>2. whole' = IF Settled(fut') THEN "failed" ELSE Undecided
      BY <1>2, <1>5, <2>2, <3>1 DEF firstNormalOf, Completed
    <3>3. resumed' = <<>> BY <1>2, <3>1, <3>2, Zenon DEF Resume
    <3>4. \A g \in Hosts : fut'[g] \in {"pending", "failed"}
      BY <1>3, <1>5, <2>2 DEF DecisionInv
    <3>5. DecisionInv' BY <1>8, <3>1, <3>2, <3>4, Zenon DEF DecisionInv
    <3>6. FirstNormalWins' BY <1>2, <1>8, <3>1, <3>2, <3>3, Zenon DEF FirstNormalWins
    <3> QED BY <3>5, <3>6, Zenon
  <2>3. CASE firstOk = Undecided /\ answer \in {"ok", "no"}
    <3>1. firstOk' = answer /\ whole = Undecided /\ resumed = <<>>
      BY <1>2, <1>3, <1>7, <2>3, Zenon DEF DecisionInv, FirstNormalWins
    <3>2. answer # Undecided BY <2>3, PhoneAssumption, Zenon
    <3>3. whole' = answer
      BY <1>2, <2>3, <3>1, <3>2, Zenon DEF firstNormalOf, Completed
    <3>4. Resume(answer) BY <1>2, <3>1, <3>2, <3>3, Zenon
    <3>5. \E v : resumed' = Append(resumed, v) BY <2>3, <3>4, Zenon DEF Resume
    <3>6. Len(resumed') = 1 BY <3>1, <3>5
    <3> QED BY <1>2, <2>3, <3>1, <3>2, <3>3, <3>6 DEF DecisionInv, FirstNormalWins
  <2> QED BY <1>1, <2>1, <2>2, <2>3, Zenon
<1> QED BY <1>4, <1>6, <1>9, Zenon DEF PhoneInv

LEMMA PhoneStepInv == PhoneInv /\ [PhoneNext]_phoneVars => PhoneInv'
<1> SUFFICES ASSUME PhoneInv, [PhoneNext]_phoneVars PROVE PhoneInv' BY Zenon
<1>1. CASE PhoneNext
  <2>1. PICK h \in Hosts, code \in {200, 429, 500} : HostDone(h, code)
    BY <1>1, Zenon DEF PhoneNext
  <2>2. kind \in {"attest", "discovery"} BY Zenon DEF PhoneInv, PhoneTypeOK
  <2> QED BY <2>1, <2>2, AttestationAnswered, DecisionAnswered
<1>2. CASE UNCHANGED phoneVars
  BY <1>2, Zenon DEF PhoneInv, PhoneTypeOK, AttestInv, DecisionInv, FirstNormalWins, Settled, phoneVars
<1> QED BY <1>1, <1>2, Zenon

\* Every step keeps the invariant of the client.
LEMMA PhoneInvariant == PhoneSpec => []PhoneInv
BY PhoneInitInv, PhoneStepInv, PTL DEF PhoneSpec

\* firstNormalOf: whatever the number of hosts and the order of their answers,
\* errors and timeouts, the first normal answer decides, and the HTTP response
\* is resumed once or, when every host failed, not at all.
THEOREM FirstNormalWinsTheorem == PhoneSpec => []FirstNormalWins
<1>1. PhoneInv => FirstNormalWins BY Zenon DEF PhoneInv
<1> QED BY <1>1, PhoneInvariant, PTL

\* configToHostRanges and lookup: a configuration of any number of ranges that
\* the constructor accepts gives every hash exactly the range it lies in.
THEOREM PartitionCoversTheorem == PhoneSpec => []PartitionCovers
<1>1. PhoneInv => PartitionCovers
  <2>1. SUFFICES ASSUME PhoneInv, configToHostRanges(config), NEW x \in Hashes
                 PROVE  /\ Cardinality(lookup(config, x)) = 1
                        /\ \A k \in lookup(config, x) :
                             config[k].start <= x /\ x <= config[k].end
    BY Zenon DEF PartitionCovers
  <2>2. config \in Seq([start : Hashes, end : Hashes])
    <3>1. config \in Configs BY <2>1, Zenon DEF PhoneInv, PhoneTypeOK
    <3>2. \A c \in Configs : c \in Seq([start : Hashes, end : Hashes]) BY PhoneAssumption, Zenon
    <3> QED BY <3>1, <3>2, Zenon
  <2> QED BY <2>1, <2>2, LookupFinds, Zenon
<1> QED BY <1>1, PhoneInvariant, PTL
=============================================================================
