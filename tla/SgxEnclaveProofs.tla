-------------------------- MODULE SgxEnclaveProofs --------------------------
(***************************************************************************)
(* Proofs about the batches that threads run in the enclave, for any       *)
(* threads, callers, batches and number of enclave instances: every        *)
(* request is answered, with its own results, and nothing is left behind.  *)
(***************************************************************************)
EXTENDS SgxEnclave, FiniteSetTheorems, TLAPS

-----------------------------------------------------------------------------
(* The inductive invariant.                                                *)

Desc == [valid : BOOLEAN, requests : Seq(Nat), query_phones : Seq(Threads \X Nat \X Nat)]

Conditions == {"none", "live", "lost", "gone", "abandoned", "undestroyed"}

Serving == {"add", "borrow", "process", "closing", "close"}

TypeOK ==
  /\ enclaveState \in 0..MaxStarts /\ created \in 0..MaxStarts
  /\ instance \in [Ids -> Conditions]
  /\ server \in [Ids -> [Threads -> Desc]]
  /\ pc \in [Users -> Serving \cup {"idle", "call", "start"}]
  /\ eid \in [Users -> {Unread} \cup (0..MaxStarts)]
  /\ batch \in [Threads -> Batches \cup {<<>>}]
  /\ next \in [Threads -> Nat \ {0}]
  /\ tags \in [Threads -> SUBSET Nat]
  /\ response = [t \in Threads |-> response[t]]
  /\ unstopped \subseteq Ids \X Threads

\* An instance whose id nobody can have read has no server state.
FreshInv ==
  /\ manager \in {"created", "running", "destroying"} => created \in Ids
  /\ \A g \in Ids : g > created \/ (g = created /\ manager = "created") =>
       /\ enclaveState # g
       /\ \A u \in Users : eid[u] # g
       /\ \A t \in Threads : server[g][t] = NoServer /\ <<g, t>> \notin unstopped

\* Where a thread is in its batch b: at, with the id it read, the index n of
\* its next request and the responses r.
BatchOK(at, id, b, n, r) ==
  /\ at # "call"
  /\ at = "idle" => id = Unread
  /\ at # "idle" => Len(b) >= 1
  /\ at = "start" => n = 1
  /\ at = "add" => n \in 1..Len(b)
  /\ at \in {"borrow", "process"} => n = Len(b) + 1
  /\ at \in {"closing", "close"} => n \in 1..(Len(b) + 1)
  /\ at = "close" => \A i \in 1..(n - 1) : r[i] # Open

\* The response of request i when it is a reply.
Served(t, b, i) == Reply([k \in 1..b[i].count |-> <<<<t, i, k>>, "served">>])

ResponsesOK(t, at, b, r) ==
  /\ r = [i \in 1..Len(b) |-> r[i]]
  /\ at = "idle" => \A i \in 1..Len(b) : r[i] # Open
  /\ \A i \in 1..Len(b) : r[i] \in {Open, Failed, Served(t, b, i)}

\* The numbers of the requests stand one after the other.
PhonesOK(t, d, b) ==
  /\ Len(d.query_phones) = Offset(b, d.requests, Len(d.requests) + 1)
  /\ \A j \in 1..Len(d.requests) :
       /\ Offset(b, d.requests, j) \in Nat
       /\ Offset(b, d.requests, j) + b[d.requests[j]].count <= Len(d.query_phones)
       /\ \A k \in 1..b[d.requests[j]].count :
            d.query_phones[Offset(b, d.requests, j) + k] = <<t, d.requests[j], k>>

\* A server state holds the requests of the batch under way that are open, each
\* once and with its tag, and their numbers.
DescOK(t, d, at, b, n, r, ts) ==
  /\ ~d.valid => d = NoServer
  /\ d.valid => at \in Serving
  /\ \A j \in 1..Len(d.requests) : d.requests[j] \in 1..(n - 1) /\ d.requests[j] \in ts
  /\ \A j, k \in 1..Len(d.requests) : d.requests[j] = d.requests[k] => j = k
  /\ d.valid => \A i \in 1..(n - 1) :
       r[i] = Open => \E j \in 1..Len(d.requests) : d.requests[j] = i
  /\ PhonesOK(t, d, b)

\* The server states a thread can still reach are those of the instance in use
\* and of the one whose id it read; a thread with a valid one in the instance in
\* use has read no other id.  A state that a stop failed to reach is of no batch.
ServerInv(t) ==
  /\ \A g \in Ids : g \in {enclaveState, eid[t]} /\ <<g, t>> \notin unstopped =>
       DescOK(t, server[g][t], pc[t], batch[t], next[t], response[t], tags[t])
  /\ enclaveState \in Ids /\ server[enclaveState][t].valid => eid[t] \in {Unread, enclaveState}

ThreadInv(t) ==
  /\ BatchOK(pc[t], eid[t], batch[t], next[t], response[t])
  /\ ResponsesOK(t, pc[t], batch[t], response[t])
  /\ ServerInv(t)

\* Such a state stays valid, so that no batch of the thread starts on it.
StuckInv(t) ==
  \A g \in Ids : <<g, t>> \in unstopped =>
    /\ server[g][t].valid
    /\ g \in {enclaveState, eid[t]} => pc[t] \in {"idle", "start"}

EnclaveInv ==
  /\ TypeOK /\ FreshInv
  /\ \A t \in Threads : ThreadInv(t) /\ StuckInv(t)

-----------------------------------------------------------------------------
(* Where the results of a request start.                                   *)

\* Offset looks only at the requests before the j-th.
LEMMA OffsetAgrees ==
  ASSUME NEW b, NEW r, NEW s, NEW j \in Nat, \A m \in 1..(j - 1) : r[m] = s[m]
  PROVE  Offset(b, r, j) = Offset(b, s, j)
<1>1. {{m} \X (1..b[r[m]].count) : m \in 1..(j - 1)}
        = {{m} \X (1..b[s[m]].count) : m \in 1..(j - 1)}
  BY Zenon
<1> QED  BY <1>1, Zenon DEF Offset

\* The results of the first request start at the beginning.
LEMMA OffsetFirst ==
  ASSUME NEW b, NEW r
  PROVE  Offset(b, r, 1) = 0
<1>1. UNION {{m} \X (1..b[r[m]].count) : m \in 1..(1 - 1)} = {}
  OBVIOUS
<1> QED  BY <1>1, FS_EmptySet, Zenon DEF Offset

\* The size of a union of two disjoint sets.
LEMMA CardDisjoint ==
  ASSUME NEW S, NEW T, IsFiniteSet(S), IsFiniteSet(T), S \cap T = {}
  PROVE  Cardinality(S \cup T) = Cardinality(S) + Cardinality(T)
<1>1. Cardinality(S \cup T) = Cardinality(S) + Cardinality(T) - Cardinality(S \cap T)
  BY FS_Union, Zenon
<1>2. Cardinality(S \cap T) = 0
  BY FS_EmptySet, Zenon
<1>3. Cardinality(S) \in Nat /\ Cardinality(T) \in Nat
  BY FS_CardinalityType, Zenon
<1> QED  BY <1>1, <1>2, <1>3

\* The numbers up to n are n.
LEMMA UpTo ==
  ASSUME NEW n \in Nat
  PROVE  IsFiniteSet(1..n) /\ Cardinality(1..n) = n
  BY FS_Interval

\* The pairs that stand for the count of one request.
LEMMA PartSize ==
  ASSUME NEW x, NEW c \in Nat
  PROVE  IsFiniteSet({x} \X (1..c)) /\ Cardinality({x} \X (1..c)) = c
<1>1. IsFiniteSet({x}) /\ Cardinality({x}) = 1
  BY FS_Singleton, Zenon
<1>2. IsFiniteSet(1..c) /\ Cardinality(1..c) = c
  BY UpTo, Zenon
<1>3. IsFiniteSet({x} \X (1..c)) /\ Cardinality({x} \X (1..c)) = 1 * c
  <2>1. \A S, T : IsFiniteSet(S) /\ IsFiniteSet(T) =>
          IsFiniteSet(S \X T) /\ Cardinality(S \X T) = Cardinality(S) * Cardinality(T)
    BY FS_Product, Zenon
  <2>2. /\ IsFiniteSet({x} \X (1..c))
        /\ Cardinality({x} \X (1..c)) = Cardinality({x}) * Cardinality(1..c)
    BY <1>1, <1>2, <2>1, Zenon
  <2> QED
    BY <1>1, <1>2, <2>2, Zenon
<1>4. 1 * c = c
  OBVIOUS
<1> QED
  BY <1>3, <1>4, Zenon

\* Each start after the numbers of the request before.
LEMMA OffsetNext ==
  ASSUME NEW b, NEW r, NEW j \in Nat \ {0},
         \A m \in 1..j : b[r[m]].count \in Nat
  PROVE  /\ Offset(b, r, j) \in Nat
         /\ Offset(b, r, j + 1) = Offset(b, r, j) + b[r[j]].count
<1> DEFINE Part(m)  == {m} \X (1..b[r[m]].count)
           Parts(k) == {Part(m) : m \in 1..(k - 1)}
<1>1. \A m \in 1..j : IsFiniteSet(Part(m)) /\ Cardinality(Part(m)) = b[r[m]].count
  BY PartSize, Zenon
<1>2. IsFiniteSet(Parts(j))
  <2>1. IsFiniteSet(1..(j - 1))
    BY FS_Interval
  <2> DEFINE f == [m \in 1..(j - 1) |-> Part(m)]
  <2>2. f \in Surjection(1..(j - 1), Parts(j))
    BY Zenon DEF Surjection
  <2> QED  BY <2>1, <2>2, FS_Surjection
<1>3. UNION Parts(j + 1) = (UNION Parts(j)) \cup Part(j)
  <2>1. 1..((j + 1) - 1) = (1..(j - 1)) \cup {j}
    OBVIOUS
  <2> HIDE DEF Part
  <2> QED  BY <2>1, Zenon
<1>4. (UNION Parts(j)) \cap Part(j) = {}
  <2> SUFFICES ASSUME NEW m \in 1..(j - 1), NEW x \in Part(m), x \in Part(j)
               PROVE  FALSE
    BY Zenon
  <2>1. x[1] = m /\ x[1] = j
    BY Zenon
  <2> QED  BY <2>1
<1>5. IsFiniteSet(UNION Parts(j))
  <2>1. \A m \in 1..(j - 1) : m \in 1..j
    OBVIOUS
  <2>2. \A P \in Parts(j) : IsFiniteSet(P)
    BY <1>1, <2>1, Zenon
  <2> QED  BY <1>2, <2>2, FS_UNION, Zenon
<1>6. Cardinality(UNION Parts(j)) \in Nat
  BY <1>5, FS_CardinalityType, Zenon
<1>7. IsFiniteSet(Part(j)) /\ Cardinality(Part(j)) = b[r[j]].count
  BY <1>1
<1>8. Cardinality((UNION Parts(j)) \cup Part(j))
        = Cardinality(UNION Parts(j)) + Cardinality(Part(j))
  <2> HIDE DEF Part, Parts
  <2> QED  BY <1>4, <1>5, <1>7, CardDisjoint, Zenon
<1>9. Offset(b, r, j) = Cardinality(UNION Parts(j))
      /\ Offset(b, r, j + 1) = Cardinality(UNION Parts(j + 1))
  BY Zenon DEF Offset
<1> HIDE DEF Part, Parts
<1> QED  BY <1>3, <1>6, <1>7, <1>8, <1>9, Zenon

-----------------------------------------------------------------------------
(* What happens to a server state.                                         *)

\* The state of a thread with no server is right at any time.
LEMMA NoServerOK ==
  ASSUME NEW t, NEW at, NEW b, NEW n, NEW r, NEW ts
  PROVE  NoServer \in Desc /\ DescOK(t, NoServer, at, b, n, r, ts)
<1>1. NoServer \in Desc
  BY DEF NoServer, Desc
<1>2. Len(NoServer.requests) = 0 /\ Len(NoServer.query_phones) = 0 /\ NoServer.valid = FALSE
  BY Zenon DEF NoServer
<1>3. Offset(b, NoServer.requests, 0 + 1) = 0
  BY OffsetFirst
<1>4. PhonesOK(t, NoServer, b)
  BY <1>2, <1>3 DEF PhonesOK
<1> QED  BY <1>1, <1>2, <1>4 DEF DescOK

\* So is the one that a start opens.
LEMMA OpenedOK ==
  ASSUME NEW t, NEW b, NEW r, NEW ts
  PROVE  /\ NewServer \in Desc
         /\ DescOK(t, NewServer, "add", b, 1, r, ts)
<1> DEFINE d == NewServer
<1>1. d = [valid |-> TRUE, requests |-> <<>>, query_phones |-> <<>>]
  BY Zenon DEF NewServer
<1> HIDE DEF d
<1>2. d \in Desc
  BY <1>1 DEF Desc
<1>3. d.valid = TRUE /\ Len(d.requests) = 0 /\ Len(d.query_phones) = 0
  BY <1>1, Zenon
<1>4. Offset(b, d.requests, 0 + 1) = 0
  BY OffsetFirst
<1>5. PhonesOK(t, d, b)
  BY <1>3, <1>4 DEF PhonesOK
<1>6. DescOK(t, d, "add", b, 1, r, ts)
  BY <1>3, <1>5 DEF DescOK, Serving
<1> QED  BY <1>2, <1>6, Zenon DEF d

\* A server state stays right when the thread moves on, as long as no request
\* is left open that was not.
LEMMA DescStays ==
  ASSUME NEW t, NEW d \in Desc, NEW at, NEW b, NEW n, NEW r, NEW ts,
         DescOK(t, d, at, b, n, r, ts),
         NEW at2 \in Serving, NEW r2,
         \A i \in 1..(n - 1) : r2[i] = Open => r[i] = Open
  PROVE  DescOK(t, d, at2, b, n, r2, ts)
  BY Zenon DEF DescOK

\* The same, past a request that was refused or failed.
LEMMA DescSkips ==
  ASSUME NEW t, NEW d \in Desc, NEW at, NEW b, NEW n \in Nat \ {0}, NEW r, NEW ts,
         DescOK(t, d, at, b, n, r, ts),
         NEW at2 \in Serving, NEW r2,
         \A i \in 1..((n + 1) - 1) : r2[i] = Open => i \in 1..(n - 1) /\ r[i] = Open
  PROVE  DescOK(t, d, at2, b, n + 1, r2, ts)
<1>1. \A j \in 1..Len(d.requests) : d.requests[j] \in 1..((n + 1) - 1) /\ d.requests[j] \in ts
  BY DEF DescOK
<1>2. \A j, k \in 1..Len(d.requests) : d.requests[j] = d.requests[k] => j = k
  BY Zenon DEF DescOK
<1>3. d.valid => \A i \in 1..((n + 1) - 1) :
        r2[i] = Open => \E j \in 1..Len(d.requests) : d.requests[j] = i
  BY Zenon DEF DescOK
<1>4. /\ ~d.valid => d = NoServer
      /\ PhonesOK(t, d, b)
  BY Zenon DEF DescOK
<1> QED  BY <1>1, <1>2, <1>3, <1>4, Zenon DEF DescOK

\* The elements of a concatenation.
LEMMA ConcatElements ==
  ASSUME NEW S, NEW q \in Seq(S), NEW s \in Seq(S)
  PROVE  /\ q \o s \in Seq(S)
         /\ Len(q \o s) = Len(q) + Len(s)
         /\ \A i \in 1..Len(q) : (q \o s)[i] = q[i]
         /\ \A k \in 1..Len(s) : (q \o s)[Len(q) + k] = s[k]
  OBVIOUS

\* handle_call: the numbers of the new request come after those of the others.
LEMMA PhonesAdd ==
  ASSUME NEW t \in Threads, NEW d \in Desc, NEW b, NEW n \in Nat,
         PhonesOK(t, d, b), b[n].count \in Nat,
         \A j \in 1..Len(d.requests) : b[d.requests[j]].count \in Nat,
         NEW e, e.requests = Append(d.requests, n),
         e.query_phones = d.query_phones \o [k \in 1..b[n].count |-> <<t, n, k>>]
  PROVE  PhonesOK(t, e, b) /\ e.query_phones \in Seq(Threads \X Nat \X Nat)
<1> DEFINE c == b[n].count
           new == [k \in 1..c |-> <<t, n, k>>]
           L == Len(d.requests)
           P == Len(d.query_phones)
<1>1. d.requests \in Seq(Nat) /\ d.query_phones \in Seq(Threads \X Nat \X Nat)
  BY Zenon DEF Desc
<1>2. c \in Nat /\ L \in Nat /\ P \in Nat
  BY <1>1
<1>3. new \in Seq(Threads \X Nat \X Nat) /\ Len(new) = c
  <2> HIDE DEF c
  <2>1. \A k \in 1..c : <<t, n, k>> \in Threads \X Nat \X Nat
    BY <1>2
  <2>2. new \in [1..c -> Threads \X Nat \X Nat]
    BY <2>1, Zenon
  <2> QED  BY <1>2, <2>2
<1>4. /\ e.query_phones = d.query_phones \o new
      /\ e.query_phones \in Seq(Threads \X Nat \X Nat)
      /\ Len(e.query_phones) = P + c
      /\ \A i \in 1..P : e.query_phones[i] = d.query_phones[i]
      /\ \A k \in 1..c : e.query_phones[P + k] = new[k]
  <2> HIDE DEF new, c
  <2>1. e.query_phones = d.query_phones \o new
    BY Zenon DEF new, c
  <2> DEFINE q == d.query_phones
  <2>2. q \in Seq(Threads \X Nat \X Nat)
    BY <1>1, Zenon
  <2> DEFINE S == Threads \X Nat \X Nat
  <2> HIDE DEF q, S
  <2>3. /\ q \o new \in Seq(S)
        /\ Len(q \o new) = Len(q) + Len(new)
        /\ \A i \in 1..Len(q) : (q \o new)[i] = q[i]
        /\ \A k \in 1..Len(new) : (q \o new)[Len(q) + k] = new[k]
    <3>1. q \in Seq(S) /\ new \in Seq(S)
      BY <1>3, <2>2, Zenon DEF S
    <3> QED  BY <3>1, ConcatElements
  <2> QED  BY <1>3, <2>1, <2>3, Zenon DEF q, S
<1>5. \A k \in 1..c : new[k] = <<t, n, k>>
  BY <1>2, Zenon
<1>6. /\ Len(e.requests) = L + 1
      /\ \A j \in 1..L : e.requests[j] = d.requests[j]
      /\ e.requests[L + 1] = n
  BY <1>1
<1> HIDE DEF c, new, L, P
<1>7. \A j \in 1..(L + 1) : Offset(b, e.requests, j) = Offset(b, d.requests, j)
  <2> TAKE j \in 1..(L + 1)
  <2>1. j \in Nat /\ \A m \in 1..(j - 1) : m \in 1..L
    BY <1>2
  <2>2. \A m \in 1..(j - 1) : e.requests[m] = d.requests[m]
    BY <1>6, <2>1, Zenon
  <2> QED  BY <2>1, <2>2, OffsetAgrees, Zenon
<1>8. P = Offset(b, d.requests, L + 1)
  BY Zenon DEF PhonesOK, P, L
<1>9. Offset(b, e.requests, L + 1) = P
  BY <1>2, <1>7, <1>8
<1>10. \A j \in 1..(L + 1) : b[e.requests[j]].count \in Nat
  BY <1>2, <1>6 DEF c, L
<1>11. Offset(b, e.requests, (L + 1) + 1) = P + c
  <2>1. Offset(b, e.requests, (L + 1) + 1) = Offset(b, e.requests, L + 1) + b[e.requests[L + 1]].count
    <3>1. L + 1 \in Nat \ {0}
      BY <1>2
    <3> QED  BY <1>10, <3>1, OffsetNext, Zenon
  <2> QED  BY <1>6, <1>9, <2>1, Zenon DEF c
<1>12. ASSUME NEW j \in 1..Len(e.requests)
       PROVE  /\ Offset(b, e.requests, j) \in Nat
              /\ Offset(b, e.requests, j) + b[e.requests[j]].count <= Len(e.query_phones)
              /\ \A k \in 1..b[e.requests[j]].count :
                   e.query_phones[Offset(b, e.requests, j) + k] = <<t, e.requests[j], k>>
  <2>1. CASE j = L + 1
    <3>1. e.requests[j] = n /\ b[e.requests[j]].count = c /\ Offset(b, e.requests, j) = P
      BY <1>6, <1>9, <2>1, Zenon DEF c
    <3>2. P \in Nat /\ P + c <= Len(e.query_phones)
      BY <1>2, <1>4
    <3>3. \A k \in 1..c : e.query_phones[P + k] = <<t, n, k>>
      BY <1>4, <1>5, Zenon
    <3> QED  BY <3>1, <3>2, <3>3, Zenon
  <2>2. CASE j \in 1..L
    <3> DEFINE o == Offset(b, d.requests, j)
               x == b[d.requests[j]].count
    <3>1. /\ o \in Nat /\ o + x <= P
          /\ \A k \in 1..x : d.query_phones[o + k] = <<t, d.requests[j], k>>
      BY <2>2, Zenon DEF PhonesOK, P, L
    <3>2. x \in Nat
      BY <2>2, Zenon DEF L
    <3>3. e.requests[j] = d.requests[j] /\ Offset(b, e.requests, j) = o
      BY <1>2, <1>6, <1>7, <2>2, Zenon
    <3> HIDE DEF o
    <3>4. b[e.requests[j]].count = x
      BY <3>3, Zenon
    <3> HIDE DEF x
    <3>5. \A k \in 1..x : e.query_phones[o + k] = <<t, d.requests[j], k>>
      <4>1. \A k \in 1..x : o + k \in 1..P
        BY <1>2, <3>1, <3>2, SMTT(30)
      <4> QED  BY <1>4, <3>1, <4>1, Zenon
    <3>6. o + x <= Len(e.query_phones)
      BY <1>2, <1>4, <3>1, <3>2
    <3> QED  BY <3>1, <3>3, <3>4, <3>5, <3>6, Zenon
  <2>3. j = L + 1 \/ j \in 1..L
    BY <1>2, <1>6
  <2> QED  BY <2>1, <2>2, <2>3, Zenon
<1>13. Len(e.query_phones) = Offset(b, e.requests, Len(e.requests) + 1)
  BY <1>4, <1>6, <1>11, Zenon
<1> QED  BY <1>4, <1>12, <1>13, Zenon DEF PhonesOK

\* What a batch is made of.
LEMMA BatchElements ==
  ASSUME NEW b \in Batches \cup {<<>>}
  PROVE  /\ Len(b) \in Nat
         /\ \A i \in 1..Len(b) : b[i].kind \in Kinds /\ b[i].count \in Nat \ {0}
         /\ b \in Batches => Len(b) >= 1 /\ DOMAIN b = 1..Len(b)
<1> DEFINE R == [kind : Kinds, count : Nat \ {0}]
<1>0. \A x \in R : x.kind \in Kinds /\ x.count \in Nat \ {0}
  BY Zenon
<1> HIDE DEF R
<1>1. b \in Seq(R)
  <2>1. Batches \subseteq Seq(R)
    BY BatchAssumption, Zenon DEF R
  <2>2. <<>> \in Seq(R)
    OBVIOUS
  <2> QED  BY <2>1, <2>2, Zenon
<1>2. b # <<>> => Len(b) >= 1
  BY <1>1
<1>3. b \in Batches => b # <<>>
  BY BatchAssumption, Zenon
<1>4. Len(b) \in Nat /\ DOMAIN b = 1..Len(b) /\ \A i \in 1..Len(b) : b[i] \in R
  BY <1>1
<1> QED  BY <1>0, <1>2, <1>3, <1>4, Zenon

\* The server state with one more request.
Held(t, d, b, n) ==
  [valid |-> d.valid, requests |-> Append(d.requests, n),
   query_phones |-> d.query_phones \o [k \in 1..b[n].count |-> <<t, n, k>>]]

\* handle_call with a good request: it is held, with its tag.
LEMMA DescAdds ==
  ASSUME NEW t \in Threads, NEW d \in Desc, NEW b \in Batches, NEW n \in 1..Len(b),
         NEW r, NEW ts, d.valid, DescOK(t, d, "add", b, n, r, ts), NEW at2 \in Serving
  PROVE  /\ Held(t, d, b, n) \in Desc
         /\ DescOK(t, Held(t, d, b, n), at2, b, n + 1, r, ts \cup {n})
<1> DEFINE L == Len(d.requests)
           e == Held(t, d, b, n)
<1>1. /\ e.valid = d.valid /\ e.valid
      /\ e.requests = Append(d.requests, n)
      /\ e.query_phones = d.query_phones \o [k \in 1..b[n].count |-> <<t, n, k>>]
      /\ e = [valid |-> e.valid, requests |-> e.requests, query_phones |-> e.query_phones]
  BY Zenon DEF Held
<1> HIDE DEF e
<1>2. d.requests \in Seq(Nat) /\ L \in Nat /\ d.valid \in BOOLEAN
  BY DEF Desc
<1>3. /\ Len(b) \in Nat /\ n \in Nat
      /\ \A i \in 1..Len(b) : b[i].count \in Nat
  BY BatchElements
<1>4. \A j \in 1..L : d.requests[j] \in 1..(n - 1) /\ d.requests[j] \in ts
  BY Zenon DEF DescOK
<1>5. \A j \in 1..L : b[d.requests[j]].count \in Nat
  BY <1>3, <1>4
<1>6. PhonesOK(t, d, b)
  BY Zenon DEF DescOK
<1>7. PhonesOK(t, e, b) /\ e.query_phones \in Seq(Threads \X Nat \X Nat)
  BY <1>1, <1>3, <1>5, <1>6, PhonesAdd, Zenon
<1>8. /\ e.requests \in Seq(Nat) /\ Len(e.requests) = L + 1
      /\ \A j \in 1..L : e.requests[j] = d.requests[j]
      /\ e.requests[L + 1] = n
  BY <1>1, <1>2, <1>3
<1>9. e \in Desc
  BY <1>1, <1>2, <1>7, <1>8, Zenon DEF Desc
<1> HIDE DEF L
<1>10. \A j \in 1..(L + 1) : e.requests[j] \in 1..((n + 1) - 1) /\ e.requests[j] \in ts \cup {n}
  <2>1. \A j \in 1..(L + 1) : j = L + 1 \/ j \in 1..L
    BY <1>2
  <2>2. n \in 1..((n + 1) - 1) /\ \A x \in 1..(n - 1) : x \in 1..((n + 1) - 1)
    BY <1>3
  <2>3. \A j \in 1..L : d.requests[j] \in 1..(n - 1) /\ d.requests[j] \in ts
    BY <1>4, Zenon DEF L
  <2>4. /\ \A j \in 1..L : e.requests[j] = d.requests[j]
        /\ e.requests[L + 1] = n
    BY <1>8, Zenon DEF L
  <2>5. \A j \in 1..L : e.requests[j] \in 1..((n + 1) - 1) /\ e.requests[j] \in ts \cup {n}
    BY <2>2, <2>3, <2>4, Zenon
  <2>6. e.requests[L + 1] \in 1..((n + 1) - 1) /\ e.requests[L + 1] \in ts \cup {n}
    BY <2>2, <2>4, Zenon
  <2> QED  BY <2>1, <2>5, <2>6, Zenon
<1>11. ASSUME NEW j \in 1..(L + 1), NEW k \in 1..(L + 1), e.requests[j] = e.requests[k]
       PROVE  j = k
  <2>1. \A x, y \in 1..L : d.requests[x] = d.requests[y] => x = y
    BY Zenon DEF DescOK, L
  <2>2. \A x \in 1..(L + 1) : x = L + 1 \/ x \in 1..L
    BY <1>2
  <2>3. n \notin 1..(n - 1)
    BY <1>3
  <2>4. \A x \in 1..L : e.requests[x] # n /\ e.requests[x] = d.requests[x]
    BY <1>4, <1>8, <2>3, Zenon DEF L
  <2>5. CASE j = L + 1
    <3>1. e.requests[k] = n
      BY <1>8, <1>11, <2>5, Zenon DEF L
    <3> QED  BY <2>2, <2>4, <2>5, <3>1, Zenon
  <2>6. CASE k = L + 1
    <3>1. e.requests[j] = n
      BY <1>8, <1>11, <2>6, Zenon DEF L
    <3> QED  BY <2>2, <2>4, <2>6, <3>1, Zenon
  <2>7. CASE j \in 1..L /\ k \in 1..L
    <3>1. d.requests[j] = d.requests[k]
      BY <1>11, <2>4, <2>7, Zenon
    <3> QED  BY <2>1, <2>7, <3>1, Zenon
  <2> QED  BY <2>2, <2>5, <2>6, <2>7, Zenon
<1>12. ASSUME NEW i \in 1..((n + 1) - 1), r[i] = Open
       PROVE  \E j \in 1..(L + 1) : e.requests[j] = i
  <2>0. L + 1 \in 1..(L + 1) /\ \A j \in 1..L : j \in 1..(L + 1)
    BY <1>2
  <2>1. CASE i = n
    BY <1>8, <2>0, <2>1, Zenon
  <2>2. CASE i # n
    <3>1. i \in 1..(n - 1)
      BY <1>3, <2>2
    <3>2. PICK j \in 1..L : d.requests[j] = i
      BY <1>12, <3>1, Zenon DEF DescOK, L
    <3> QED  BY <1>8, <2>0, <3>2, Zenon
  <2> QED  BY <2>1, <2>2, Zenon
<1>13. DescOK(t, e, at2, b, n + 1, r, ts \cup {n})
  BY <1>1, <1>7, <1>8, <1>10, <1>11, <1>12, Zenon DEF DescOK
<1> QED  BY <1>9, <1>13, Zenon DEF e

-----------------------------------------------------------------------------
(* What a stop does.                                                       *)

\* A stop sends no more replies than there are requests; one that returns
\* normally has sent them all.
LEMMA StopSends ==
  ASSUME NEW d \in Desc, NEW end \in StopEnds(d)
  PROVE  /\ end[1] \in 0..Len(d.requests)
         /\ end[2] \in {"ok", "lookup", "reply", "lost"}
         /\ end[2] = "ok" => end[1] = Len(d.requests)
<1>1. Len(d.requests) \in Nat
  BY DEF Desc
<1> QED  BY <1>1 DEF StopEnds

\* A function on an initial segment of the naturals is a sequence.
LEMMA FunctionIsSeq ==
  ASSUME NEW V, NEW n \in Nat, NEW f \in [1..n -> V]
  PROVE  f \in Seq(V) /\ Len(f) = n
  OBVIOUS

\* The elements of a part of a sequence.
LEMMA SubSeqElements ==
  ASSUME NEW S, NEW s \in Seq(S), NEW m \in Nat, NEW c \in Nat, m + c <= Len(s)
  PROVE  SubSeq(s, m + 1, m + c) = [k \in 1..c |-> s[m + k]]
<1> DEFINE u == SubSeq(s, m + 1, m + c)
<1>1. u \in Seq(S) /\ Len(u) = c
  OBVIOUS
<1>2. \A k \in 1..c : u[k] = s[m + k]
  OBVIOUS
<1> HIDE DEF u
<1>3. u = [k \in 1..c |-> u[k]]
  BY <1>1
<1> QED  BY <1>2, <1>3, Zenon DEF u

\* terminate: the part of the results cut out for the j-th request is the
\* result of looking up its own numbers.
LEMMA ReplyServed ==
  ASSUME NEW t \in Threads, NEW d \in Desc, PhonesOK(t, d, batch[t]),
         NEW j \in 1..Len(d.requests), batch[t][d.requests[j]].count \in Nat
  PROVE  ReplyTo(t, d, j, "served") = Served(t, batch[t], d.requests[j])
<1> DEFINE q == d.query_phones
           c == batch[t][d.requests[j]].count
           from == Offset(batch[t], d.requests, j)
           look == hash_lookup(q, "served")
           cut == SubSeq(look, from + 1, from + c)
<1>1. q \in Seq(Threads \X Nat \X Nat) /\ c \in Nat
  BY Zenon DEF Desc
<1>2. /\ from \in Nat /\ from + c <= Len(q)
      /\ \A k \in 1..c : q[from + k] = <<t, d.requests[j], k>>
  BY Zenon DEF PhonesOK
<1>3. ReplyTo(t, d, j, "served") = Reply(cut)
  BY Zenon DEF ReplyTo
<1> HIDE DEF q, c, from
<1>4. /\ Len(q) \in Nat
      /\ look = [k \in 1..Len(q) |-> <<q[k], "served">>]
  BY <1>1 DEF hash_lookup
<1>5. cut = [k \in 1..c |-> <<q[from + k], "served">>]
  <2>1. look \in Seq((Threads \X Nat \X Nat) \X {"served"}) /\ Len(look) = Len(q)
    <3>1. \A k \in 1..Len(q) : <<q[k], "served">> \in (Threads \X Nat \X Nat) \X {"served"}
      BY <1>1
    <3> DEFINE V == (Threads \X Nat \X Nat) \X {"served"}
    <3>2. look \in [1..Len(q) -> V]
      BY <1>4, <3>1, Zenon
    <3> HIDE DEF look, V
    <3>3. look \in Seq(V) /\ Len(look) = Len(q)
      BY <1>4, <3>2, FunctionIsSeq, SMTT(30)
    <3> QED  BY <3>3, Zenon DEF V
  <2>2. \A k \in 1..c : from + k \in 1..Len(q)
    BY <1>1, <1>2, <1>4
  <2>3. cut = [k \in 1..c |-> look[from + k]]
    <3> HIDE DEF look
    <3> QED  BY <1>1, <1>2, <2>1, SubSeqElements
  <2>4. \A k \in 1..c : look[from + k] = <<q[from + k], "served">>
    BY <1>4, <2>2, Zenon
  <2> HIDE DEF look, cut
  <2> QED  BY <2>3, <2>4, Zenon
<1>6. cut = [k \in 1..c |-> <<<<t, d.requests[j], k>>, "served">>]
  <2> HIDE DEF cut
  <2> QED  BY <1>2, <1>5, Zenon
<1> QED  BY <1>3, <1>6, Zenon DEF Served, c

-----------------------------------------------------------------------------
(* Steps that leave a thread alone.                                        *)

\* What the thread itself keeps, t's place in its batch.
Keeps(t) ==
  /\ pc'[t] = pc[t] /\ eid'[t] = eid[t] /\ batch'[t] = batch[t]
  /\ next'[t] = next[t] /\ response'[t] = response[t] /\ tags'[t] = tags[t]

\* A kill, a destruction or a new instance disturbs no thread.
LEMMA ThreadKept ==
  ASSUME TypeOK, NEW t \in Threads, ThreadInv(t), StuckInv(t), Keeps(t),
         \A g \in Ids : server'[g][t] \in {server[g][t], NoServer},
         \A g \in Ids : IF <<g, t>> \in unstopped'
                        THEN <<g, t>> \in unstopped /\ server'[g][t] = server[g][t]
                        ELSE <<g, t>> \notin unstopped \/ server'[g][t] = NoServer,
         \/ enclaveState' \in {enclaveState, Null}
         \/ enclaveState' \in Ids /\ server'[enclaveState'][t] = NoServer
  PROVE  ThreadInv(t)' /\ StuckInv(t)'
<1>1. BatchOK(pc[t], eid[t], batch[t], next[t], response[t])'
  BY Zenon DEF Keeps, ThreadInv
<1>2. ResponsesOK(t, pc[t], batch[t], response[t])'
  BY Zenon DEF Keeps, ThreadInv
<1>3. Null \notin Ids /\ NoServer.valid = FALSE
  BY DEF Null, Ids, NoServer
<1>4. ASSUME NEW g \in Ids, g \in {enclaveState', eid'[t]}, <<g, t>> \notin unstopped'
      PROVE  DescOK(t, server'[g][t], pc'[t], batch'[t], next'[t], response'[t], tags'[t])
  <2>1. CASE server'[g][t] = NoServer
    BY <2>1, NoServerOK, Zenon
  <2>2. CASE server'[g][t] # NoServer
    <3>1. server'[g][t] = server[g][t]
      BY <2>2, Zenon
    <3>2. g \in {enclaveState, eid[t]}
      BY <1>3, <1>4, <2>2, Zenon DEF Keeps
    <3>3. <<g, t>> \notin unstopped
      BY <1>4, <2>2, Zenon
    <3>4. DescOK(t, server[g][t], pc[t], batch[t], next[t], response[t], tags[t])
      BY <3>2, <3>3, Zenon DEF ThreadInv, ServerInv
    <3> QED  BY <3>1, <3>4, Zenon DEF Keeps
  <2> QED  BY <2>1, <2>2, Zenon
<1>5. ASSUME enclaveState' \in Ids, server'[enclaveState'][t].valid
      PROVE  eid'[t] \in {Unread, enclaveState'}
  <2>1. server'[enclaveState'][t] # NoServer
    BY <1>3, <1>5, Zenon
  <2>2. enclaveState' = enclaveState
    BY <1>3, <1>5, <2>1, Zenon
  <2>3. server'[enclaveState'][t] = server[enclaveState][t]
    BY <1>5, <2>1, <2>2, Zenon
  <2> QED  BY <1>5, <2>2, <2>3, Zenon DEF ThreadInv, ServerInv, Keeps
<1>6. ServerInv(t)'
  BY <1>4, <1>5, Zenon DEF ServerInv
<1>7. ASSUME NEW g \in Ids, <<g, t>> \in unstopped'
      PROVE  /\ server'[g][t].valid
             /\ g \in {enclaveState', eid'[t]} => pc'[t] \in {"idle", "start"}
  <2>1. <<g, t>> \in unstopped /\ server'[g][t] = server[g][t]
    BY <1>7, Zenon
  <2>2. server'[g][t].valid
    BY <2>1, Zenon DEF StuckInv
  <2>3. g \in {enclaveState', eid'[t]} => g \in {enclaveState, eid[t]}
    BY <1>3, <2>2, Zenon DEF Keeps
  <2> QED  BY <2>1, <2>2, <2>3, Zenon DEF StuckInv, Keeps
<1> QED  BY <1>1, <1>2, <1>6, <1>7, Zenon DEF ThreadInv, StuckInv

\* A step of user u: of the others nothing changes, of the enclave only that the
\* instance in use may be killed; the server states it changes are u's own in
\* the instance whose id it read.
OnlyUser(u) ==
  /\ \A v \in Users \ {u} : pc'[v] = pc[v] /\ eid'[v] = eid[v]
  /\ \A t \in Threads \ {u} :
       /\ batch'[t] = batch[t] /\ next'[t] = next[t]
       /\ response'[t] = response[t] /\ tags'[t] = tags[t]
       /\ \A g \in Ids : /\ server'[g][t] = server[g][t]
                         /\ <<g, t>> \in unstopped' <=> <<g, t>> \in unstopped
  /\ u \in Threads => \A g \in Ids : g = eid[u]
                          \/ /\ server'[g][u] = server[g][u]
                             /\ <<g, u>> \in unstopped' <=> <<g, u>> \in unstopped
  /\ enclaveState' \in {enclaveState, Null}
  /\ manager' = manager /\ created' = created
  /\ eid'[u] \in {Unread, eid[u], enclaveState}

\* In the middle of a batch a thread does not come across a state that a stop of
\* its failed to reach.
LEMMA NotStuck ==
  ASSUME NEW t \in Threads, StuckInv(t), pc[t] \in Serving,
         NEW g \in Ids, g \in {enclaveState, eid[t]}
  PROVE  <<g, t>> \notin unstopped
<1>1. pc[t] \notin {"idle", "start"}
  BY Zenon DEF Serving
<1> QED  BY <1>1, Zenon DEF StuckInv

\* A step in a batch leaves such states alone.
LEMMA StuckKept ==
  ASSUME NEW t \in Threads, StuckInv(t), OnlyUser(t), pc[t] \in Serving,
         unstopped' = unstopped
  PROVE  StuckInv(t)'
<1>1. ASSUME NEW g \in Ids, <<g, t>> \in unstopped'
      PROVE  server'[g][t].valid /\ g \notin {enclaveState', eid'[t]}
  <2>1. <<g, t>> \in unstopped
    BY <1>1, Zenon
  <2>2. g \notin {enclaveState, eid[t]}
    BY <2>1, NotStuck, Zenon
  <2>3. g # Null /\ g # Unread
    BY DEF Null, Unread, Ids
  <2>4. g \notin {enclaveState', eid'[t]}
    BY <2>2, <2>3, Zenon DEF OnlyUser
  <2>5. server'[g][t] = server[g][t]
    BY <2>2, Zenon DEF OnlyUser
  <2> QED  BY <2>1, <2>4, <2>5, Zenon DEF StuckInv
<1> QED  BY <1>1, Zenon DEF StuckInv

\* Such a step keeps the invariant when it keeps that of the thread itself.
LEMMA OnlyUserKeeps ==
  ASSUME EnclaveInv, NEW u \in Users, OnlyUser(u), TypeOK',
         u \in Threads => ThreadInv(u)' /\ StuckInv(u)'
  PROVE  EnclaveInv'
<1>1. ASSUME NEW t \in Threads
      PROVE  ThreadInv(t)' /\ StuckInv(t)'
  <2>1. CASE t = u
    BY <2>1, Zenon
  <2>2. CASE t # u
    <3>1. /\ Keeps(t)
          /\ \A g \in Ids : /\ server'[g][t] = server[g][t]
                            /\ <<g, t>> \in unstopped' <=> <<g, t>> \in unstopped
      BY <2>2, Zenon DEF OnlyUser, Keeps, Users
    <3>2. enclaveState' \in {enclaveState, Null}
      BY Zenon DEF OnlyUser
    <3> QED  BY <3>1, <3>2, ThreadKept, Zenon DEF EnclaveInv
  <2> QED  BY <2>1, <2>2, Zenon
<1>2. FreshInv'
  <2>1. manager' = manager /\ created' = created
    BY Zenon DEF OnlyUser
  <2>2. manager' \in {"created", "running", "destroying"} => created' \in Ids
    BY <2>1, Zenon DEF EnclaveInv, FreshInv
  <2>3. ASSUME NEW g \in Ids, g > created' \/ (g = created' /\ manager' = "created")
        PROVE  /\ enclaveState' # g
               /\ \A v \in Users : eid'[v] # g
               /\ \A t \in Threads : server'[g][t] = NoServer /\ <<g, t>> \notin unstopped'
    <3>1. /\ enclaveState # g
          /\ \A v \in Users : eid[v] # g
          /\ \A t \in Threads : server[g][t] = NoServer /\ <<g, t>> \notin unstopped
      BY <2>1, <2>3, Zenon DEF EnclaveInv, FreshInv
    <3>2. Null # g /\ Unread # g
      BY DEF Null, Unread, Ids
    <3>3. enclaveState' # g
      BY <3>1, <3>2, Zenon DEF OnlyUser
    <3>4. \A v \in Users : eid'[v] # g
      BY <3>1, <3>2, Zenon DEF OnlyUser
    <3>5. \A t \in Threads : server'[g][t] = NoServer /\ <<g, t>> \notin unstopped'
      BY <3>1, Zenon DEF OnlyUser
    <3> QED  BY <3>3, <3>4, <3>5, Zenon
  <2> QED  BY <2>2, <2>3, Zenon DEF FreshInv
<1> QED  BY <1>1, <1>2, Zenon DEF EnclaveInv

-----------------------------------------------------------------------------
(* The life cycle.                                                         *)

LEMMA InitOK ==
  ASSUME Init
  PROVE  EnclaveInv
<1>1. MaxStarts \in Nat \ {0}
  BY BatchAssumption, Zenon
<1>2. TypeOK
  <2>1. NoServer \in Desc
    BY NoServerOK, Zenon
  <2> QED  BY <1>1, <2>1 DEF Init, TypeOK, Conditions, Null, Unread, Ids, Users
<1>3. FreshInv
  BY DEF Init, FreshInv, Null, Unread, Ids
<1>4. ASSUME NEW t \in Threads
      PROVE  ThreadInv(t) /\ StuckInv(t)
  <2>1. /\ pc[t] = "idle" /\ eid[t] = Unread /\ batch[t] = <<>> /\ next[t] = 1
        /\ response[t] = <<>> /\ enclaveState = Null /\ unstopped = {}
        /\ \A g \in Ids : server[g][t] = NoServer
    BY Zenon DEF Init, Users
  <2>2. BatchOK(pc[t], eid[t], batch[t], next[t], response[t])
    BY <2>1, Zenon DEF BatchOK
  <2>3. ResponsesOK(t, pc[t], batch[t], response[t])
    BY <2>1 DEF ResponsesOK
  <2>4. Null \notin Ids
    BY DEF Null, Ids
  <2>5. ServerInv(t)
    BY <2>1, <2>4, NoServerOK, Zenon DEF ServerInv
  <2>6. StuckInv(t)
    BY <2>1, Zenon DEF StuckInv
  <2> QED  BY <2>2, <2>3, <2>5, <2>6, Zenon DEF ThreadInv
<1> QED  BY <1>2, <1>3, <1>4, Zenon DEF EnclaveInv

\* A step that leaves the users alone keeps what the invariant says of threads.
LEMMA LifeKeeps ==
  ASSUME EnclaveInv, UNCHANGED <<pc, eid, threadVars>>, TypeOK', FreshInv',
         \A t \in Threads : \A g \in Ids : server'[g][t] \in {server[g][t], NoServer},
         \A t \in Threads : \A g \in Ids :
           IF <<g, t>> \in unstopped'
           THEN <<g, t>> \in unstopped /\ server'[g][t] = server[g][t]
           ELSE <<g, t>> \notin unstopped \/ server'[g][t] = NoServer,
         \/ enclaveState' \in {enclaveState, Null}
         \/ enclaveState' \in Ids /\ \A t \in Threads : server'[enclaveState'][t] = NoServer
  PROVE  EnclaveInv'
<1>1. \A t \in Threads : Keeps(t)
  BY Zenon DEF Keeps, threadVars
<1>2. \A t \in Threads : ThreadInv(t)' /\ StuckInv(t)'
  BY <1>1, ThreadKept, Zenon DEF EnclaveInv
<1> QED  BY <1>2, Zenon DEF EnclaveInv

\* The steps of the thread that runs the enclave, start and stop.
LEMMA LifeSteps ==
  ASSUME EnclaveInv, start \/ stop \/ CallbackReturns \/ DestroyFails
                     \/ \E g \in Ids : Lose(g)
  PROVE  EnclaveInv'
<1>1. /\ UNCHANGED <<created, server, unstopped, pc, eid, threadVars>>
      /\ enclaveState' \in {enclaveState, Null}
      /\ manager' \in {"created", "running", "destroying"} =>
           manager \in {"created", "running", "destroying"}
      /\ manager' = "created" => manager = "created"
      /\ instance' \in [Ids -> Conditions]
  BY Zenon DEF EnclaveInv, TypeOK, Conditions, start, stop, RunFails, DestroyFails,
         CallbackReturns, Lose, killEnclave, lifeVars, threadVars
<1>2. TypeOK'
  <2>1. Null \in 0..MaxStarts
    BY BatchAssumption DEF Null
  <2> QED  BY <1>1, <2>1, Zenon DEF EnclaveInv, TypeOK, threadVars
<1>3. FreshInv'
  <2>1. \A g \in Ids : g # Null
    BY DEF Ids, Null
  <2> QED  BY <1>1, <2>1, Zenon DEF EnclaveInv, FreshInv
<1> QED  BY <1>1, <1>2, <1>3, LifeKeeps, Zenon

LEMMA EnclaveStartFailsOK ==
  ASSUME EnclaveInv, EnclaveStartFails
  PROVE  EnclaveInv'
<1>0. MaxStarts \in Nat /\ Null \in 0..MaxStarts
  BY BatchAssumption DEF Null
<1>1. /\ UNCHANGED <<server, unstopped, pc, eid, threadVars>>
      /\ enclaveState' \in {enclaveState, Null} /\ manager' = "ended"
      /\ \/ created' = created /\ instance' = instance
         \/ /\ created' = created + 1 /\ created < MaxStarts
            /\ instance' = [instance EXCEPT ![created + 1] = "abandoned"]
  BY Zenon DEF EnclaveStartFails, RunFails, killEnclave
<1>2. created \in Nat /\ created' \in 0..MaxStarts /\ created' >= created
  BY <1>0, <1>1 DEF EnclaveInv, TypeOK
<1>3. instance' \in [Ids -> Conditions]
  BY <1>1, Zenon DEF EnclaveInv, TypeOK, Conditions
<1>4. TypeOK'
  BY <1>0, <1>1, <1>2, <1>3, Zenon DEF EnclaveInv, TypeOK, threadVars
<1>5. FreshInv'
  <2>1. \A g \in Ids : g # Null /\ (g > created' => g > created)
    BY <1>2 DEF Ids, Null
  <2> QED  BY <1>1, <2>1, Zenon DEF EnclaveInv, FreshInv
<1> QED  BY <1>1, <1>4, <1>5, LifeKeeps, Zenon

LEMMA EnclaveCreatedOK ==
  ASSUME EnclaveInv, EnclaveCreated
  PROVE  EnclaveInv'
<1>0. MaxStarts \in Nat
  BY BatchAssumption, Zenon
<1>1. /\ UNCHANGED <<enclaveState, server, unstopped, pc, eid, threadVars>>
      /\ created' = created + 1 /\ created < MaxStarts
      /\ instance' = [instance EXCEPT ![created + 1] = "live"]
  BY Zenon DEF EnclaveCreated
<1>a. created \in Nat
  BY <1>0 DEF EnclaveInv, TypeOK
<1>b. instance' \in [Ids -> Conditions]
  BY <1>1, Zenon DEF EnclaveInv, TypeOK, Conditions
<1>2. TypeOK'
  BY <1>0, <1>1, <1>a, <1>b DEF EnclaveInv, TypeOK, threadVars
<1>3. FreshInv'
  BY <1>0, <1>1, <1>a DEF EnclaveInv, FreshInv, Ids
<1> QED  BY <1>1, <1>2, <1>3, LifeKeeps, Zenon

LEMMA runEnclaveOK ==
  ASSUME EnclaveInv, runEnclave
  PROVE  EnclaveInv'
<1>1. /\ UNCHANGED <<created, instance, server, unstopped, pc, eid, threadVars>>
      /\ manager = "created" /\ manager' = "running" /\ enclaveState' = created
      /\ created \in Ids /\ created \in 0..MaxStarts
      /\ \A t \in Threads : server[created][t] = NoServer
  BY Zenon DEF EnclaveInv, TypeOK, FreshInv, runEnclave
<1>2. TypeOK'
  BY <1>1, Zenon DEF EnclaveInv, TypeOK, threadVars
<1>3. FreshInv'
  BY <1>1 DEF EnclaveInv, FreshInv, Ids
<1> QED  BY <1>1, <1>2, <1>3, LifeKeeps, Zenon

LEMMA DestroyOK ==
  ASSUME EnclaveInv, Destroy
  PROVE  EnclaveInv'
<1>1. /\ UNCHANGED <<enclaveState, created, pc, eid, threadVars>>
      /\ manager = "destroying" /\ manager' \in {"ended", "starting"}
      /\ created \in Ids /\ created \in 0..MaxStarts
      /\ instance' \in [Ids -> Conditions]
      /\ server' = [server EXCEPT ![created] = [t \in Threads |-> NoServer]]
      /\ unstopped' = {x \in unstopped : x[1] # created}
  BY Zenon DEF EnclaveInv, TypeOK, Conditions, FreshInv, Destroy
<1>2. /\ server' \in [Ids -> [Threads -> Desc]]
      /\ \A g \in Ids : \A t \in Threads : server'[g][t] \in {server[g][t], NoServer}
  <2>1. NoServer \in Desc
    BY NoServerOK, Zenon
  <2> QED  BY <1>1, <2>1, Zenon DEF EnclaveInv, TypeOK
<1>3. \A g \in Ids : \A t \in Threads :
        IF <<g, t>> \in unstopped'
        THEN <<g, t>> \in unstopped /\ server'[g][t] = server[g][t]
        ELSE <<g, t>> \notin unstopped \/ server'[g][t] = NoServer
  <2> SUFFICES ASSUME NEW g \in Ids, NEW t \in Threads
               PROVE  IF <<g, t>> \in unstopped'
                      THEN <<g, t>> \in unstopped /\ server'[g][t] = server[g][t]
                      ELSE <<g, t>> \notin unstopped \/ server'[g][t] = NoServer
    BY Zenon
  <2>1. <<g, t>> \in unstopped' <=> <<g, t>> \in unstopped /\ g # created
    BY <1>1
  <2>2. server'[g][t] = IF g = created THEN NoServer ELSE server[g][t]
    BY <1>1, Zenon DEF EnclaveInv, TypeOK
  <2> QED  BY <2>1, <2>2, Zenon
<1>4. TypeOK'
  BY <1>1, <1>2, Zenon DEF EnclaveInv, TypeOK, threadVars
<1>5. FreshInv'
  BY <1>1, <1>2, <1>3, ZenonT(40) DEF EnclaveInv, FreshInv
<1> QED  BY <1>1, <1>2, <1>3, <1>4, <1>5, LifeKeeps, Zenon

-----------------------------------------------------------------------------
(* The steps of the other callers, and reading the id.                     *)

\* The errors that kill the instance in use.
LEMMA LostLife ==
  ASSUME TypeOK, NEW STATE lost, HandleLost(lost)
  PROVE  /\ enclaveState' \in {enclaveState, Null} /\ enclaveState' \in 0..MaxStarts
         /\ manager' = manager /\ created' = created
         /\ lost => enclaveState' = Null
<1>1. Null \in 0..MaxStarts
  BY BatchAssumption DEF Null
<1> QED  BY <1>1, Zenon DEF HandleLost, killEnclave, TypeOK

LEMMA CallerOK ==
  ASSUME EnclaveInv, NEW c \in Callers, CallBegins(c) \/ CallEnds(c)
  PROVE  EnclaveInv'
<1>1. c \in Users /\ c \notin Threads
  BY BatchAssumption, Zenon DEF Users
<1>2. /\ UNCHANGED <<instance, server, unstopped, threadVars>>
      /\ enclaveState' \in {enclaveState, Null} /\ enclaveState' \in 0..MaxStarts
      /\ manager' = manager /\ created' = created
  <2>1. CASE CallBegins(c)
    BY <2>1, Zenon DEF CallBegins, lifeVars, EnclaveInv, TypeOK
  <2>2. CASE CallEnds(c)
    BY <2>2, LostLife, Zenon DEF CallEnds, EnclaveInv
  <2> QED  BY <2>1, <2>2, Zenon
<1>3. /\ pc' \in [Users -> Serving \cup {"idle", "call", "start"}]
      /\ eid' \in [Users -> {Unread} \cup (0..MaxStarts)]
      /\ \A v \in Users \ {c} : pc'[v] = pc[v] /\ eid'[v] = eid[v]
      /\ eid'[c] \in {Unread, eid[c]}
  BY <1>1, Zenon DEF CallBegins, CallEnds, EnclaveInv, TypeOK
<1>4. TypeOK'
  BY <1>2, <1>3, Zenon DEF EnclaveInv, TypeOK, threadVars
<1>5. OnlyUser(c)
  BY <1>1, <1>2, <1>3, Zenon DEF OnlyUser, threadVars
<1> QED  BY <1>1, <1>4, <1>5, OnlyUserKeeps, Zenon

LEMMA getEnclaveStateOK ==
  ASSUME EnclaveInv, NEW u \in Users, getEnclaveState(u)
  PROVE  EnclaveInv'
<1>1. /\ UNCHANGED <<lifeVars, instance, server, unstopped, pc, threadVars>>
      /\ pc[u] # "idle" /\ eid[u] = Unread
      /\ eid' = [eid EXCEPT ![u] = enclaveState]
  BY Zenon DEF getEnclaveState
<1>2. /\ eid' \in [Users -> {Unread} \cup (0..MaxStarts)]
      /\ eid'[u] = enclaveState
      /\ \A v \in Users \ {u} : eid'[v] = eid[v]
  BY <1>1, Zenon DEF EnclaveInv, TypeOK
<1>3. TypeOK'
  BY <1>1, <1>2, Zenon DEF EnclaveInv, TypeOK, lifeVars, threadVars
<1>4. OnlyUser(u)
  BY <1>1, <1>2, Zenon DEF OnlyUser, lifeVars, threadVars
<1>5. ASSUME u \in Threads
      PROVE  ThreadInv(u)' /\ StuckInv(u)'
  <2>1. ThreadInv(u) /\ StuckInv(u)
    BY <1>5, Zenon DEF EnclaveInv
  <2>2. /\ pc'[u] = pc[u] /\ batch'[u] = batch[u] /\ next'[u] = next[u]
        /\ response'[u] = response[u] /\ tags'[u] = tags[u]
        /\ server' = server /\ enclaveState' = enclaveState /\ unstopped' = unstopped
    BY <1>1, Zenon DEF lifeVars, threadVars
  <2>3. BatchOK(pc[u], eid[u], batch[u], next[u], response[u])'
    BY <1>1, <2>1, <2>2, Zenon DEF ThreadInv, BatchOK
  <2>4. ResponsesOK(u, pc[u], batch[u], response[u])'
    BY <2>1, <2>2, Zenon DEF ThreadInv
  <2>5. ServerInv(u)'
    BY <1>2, <2>1, <2>2, Zenon DEF ThreadInv, ServerInv
  <2>6. StuckInv(u)'
    BY <1>2, <2>1, <2>2, Zenon DEF StuckInv
  <2> QED  BY <2>3, <2>4, <2>5, <2>6, Zenon DEF ThreadInv
<1> QED  BY <1>3, <1>4, <1>5, OnlyUserKeeps, Zenon

-----------------------------------------------------------------------------
(* The steps of a thread.                                                  *)

\* Setting the server state of one thread in one instance.
LEMMA ServerSet ==
  ASSUME TypeOK, NEW t \in Threads, NEW g \in Ids, NEW d \in Desc,
         server' = [server EXCEPT ![g][t] = d]
  PROVE  /\ server' \in [Ids -> [Threads -> Desc]]
         /\ server'[g][t] = d
         /\ \A h \in Ids : \A v \in Threads : h # g \/ v # t => server'[h][v] = server[h][v]
  BY Zenon DEF TypeOK

\* The server state of a thread in the instance in use, when the thread has
\* read an id: there is none, or it is the one the id stands for.
LEMMA InUse ==
  ASSUME TypeOK, NEW t \in Threads, ThreadInv(t), StuckInv(t), eid[t] # Unread,
         enclaveState \in Ids, server[enclaveState][t] # NoServer
  PROVE  eid[t] = enclaveState
<1>1. <<enclaveState, t>> \notin unstopped =>
        DescOK(t, server[enclaveState][t], pc[t], batch[t], next[t], response[t], tags[t])
  BY Zenon DEF ThreadInv, ServerInv
<1>2. server[enclaveState][t].valid
  BY <1>1, Zenon DEF DescOK, StuckInv
<1> QED  BY <1>2, Zenon DEF ThreadInv, ServerInv

\* The values of a response are told apart.
LEMMA ResponseValues ==
  ASSUME NEW t, NEW b, NEW i
  PROVE  /\ Len(Open) = 0 /\ Len(Failed) = 1 /\ Len(Served(t, b, i)) = 3
         /\ Len(ReplyMissing) = 2
         /\ Open # Failed /\ Open # Served(t, b, i)
         /\ ReplyMissing \notin {Open, Failed, Served(t, b, i)}
<1>1. Len(Open) = 0 /\ Len(Failed) = 1 /\ Len(ReplyMissing) = 2
  BY Zenon DEF Open, Failed, ReplyMissing
<1>2. Len(Served(t, b, i)) = 3
  BY Zenon DEF Served, Reply
<1> QED  BY <1>1, <1>2

\* The catch clause of processBatch answers what is open.
LEMMA CatchOK ==
  ASSUME TypeOK, NEW t \in Threads, NEW STATE a,
         a = [i \in 1..Len(batch[t]) |-> a[i]],
         \A i \in 1..Len(batch[t]) : a[i] \in {Open, Failed, Served(t, batch[t], i)},
         CatchAll(t, a)
  PROVE  /\ response' = [v \in Threads |-> response'[v]]
         /\ \A v \in Threads \ {t} : response'[v] = response[v]
         /\ ResponsesOK(t, "idle", batch[t], response'[t])
<1> DEFINE r == [i \in DOMAIN a |-> IF a[i] = Open THEN Failed ELSE a[i]]
<1>1. response' = [response EXCEPT ![t] = r]
  BY Zenon DEF CatchAll
<1>2. response = [v \in Threads |-> response[v]]
  BY Zenon DEF TypeOK
<1>3. DOMAIN a = 1..Len(batch[t])
  BY Zenon
<1>4. r = [i \in 1..Len(batch[t]) |-> IF a[i] = Open THEN Failed ELSE a[i]]
  BY <1>3, Zenon
<1>5. r = [i \in 1..Len(batch[t]) |-> r[i]]
  BY <1>4, Zenon
<1>6. \A i \in 1..Len(batch[t]) : r[i] = IF a[i] = Open THEN Failed ELSE a[i]
  BY <1>4, Zenon
<1> HIDE DEF r
<1>7. /\ response' = [v \in Threads |-> response'[v]]
      /\ \A v \in Threads \ {t} : response'[v] = response[v]
      /\ response'[t] = r
  BY <1>1, <1>2, Zenon
<1>8. \A i \in 1..Len(batch[t]) : r[i] # Open /\ r[i] \in {Open, Failed, Served(t, batch[t], i)}
  BY <1>6, ResponseValues, Zenon
<1> QED  BY <1>5, <1>7, <1>8, Zenon DEF ResponsesOK

\* A thread that has read no id can reach the state in the instance in use.
LEMMA UnreadServer ==
  ASSUME NEW t \in Threads, eid'[t] = Unread,
         enclaveState' \in Ids /\ <<enclaveState', t>> \notin unstopped' =>
           DescOK(t, server'[enclaveState'][t], pc'[t], batch'[t], next'[t], response'[t], tags'[t])
  PROVE  ServerInv(t)'
<1>1. Unread \notin Ids
  BY DEF Unread, Ids
<1>2. \A g \in Ids : g \in {enclaveState', eid'[t]} /\ <<g, t>> \notin unstopped' =>
        DescOK(t, server'[g][t], pc'[t], batch'[t], next'[t], response'[t], tags'[t])
  BY <1>1, Zenon
<1> QED  BY <1>2, Zenon DEF ServerInv

\* It is right in particular when there is none.
LEMMA UnreadNoServer ==
  ASSUME NEW t \in Threads, eid'[t] = Unread,
         enclaveState' \in Ids /\ <<enclaveState', t>> \notin unstopped' =>
           server'[enclaveState'][t] = NoServer
  PROVE  ServerInv(t)'
<1>1. enclaveState' \in Ids /\ <<enclaveState', t>> \notin unstopped' =>
        DescOK(t, server'[enclaveState'][t], pc'[t], batch'[t], next'[t], response'[t], tags'[t])
  BY NoServerOK, Zenon
<1> QED  BY <1>1, UnreadServer, Zenon

LEMMA TakeBatchOK ==
  ASSUME EnclaveInv, NEW t \in Threads, TakeBatch(t)
  PROVE  EnclaveInv'
<1>1. PICK b \in Batches :
        /\ batch' = [batch EXCEPT ![t] = b]
        /\ response' = [response EXCEPT ![t] = [i \in DOMAIN b |-> Open]]
  BY Zenon DEF TakeBatch
<1>2. /\ next' = [next EXCEPT ![t] = 1] /\ tags' = [tags EXCEPT ![t] = {}]
      /\ pc[t] = "idle" /\ pc' = [pc EXCEPT ![t] = "start"]
      /\ UNCHANGED <<lifeVars, instance, server, unstopped, eid>>
  BY Zenon DEF TakeBatch
<1>3. TypeOK /\ ThreadInv(t) /\ StuckInv(t) /\ t \in Users
  BY Zenon DEF EnclaveInv, Users
<1>4. Len(b) \in Nat /\ Len(b) >= 1 /\ DOMAIN b = 1..Len(b)
  BY BatchElements, Zenon
<1>5. /\ batch'[t] = b /\ next'[t] = 1 /\ pc'[t] = "start"
      /\ response'[t] = [i \in 1..Len(b) |-> Open]
      /\ eid[t] = Unread /\ eid'[t] = Unread
  <2>1. eid[t] = Unread
    BY <1>2, <1>3, Zenon DEF ThreadInv, BatchOK
  <2> QED  BY <1>1, <1>2, <1>3, <1>4, <2>1, Zenon DEF TypeOK
<1>6. TypeOK'
  <2>1. response' = [v \in Threads |-> response'[v]]
    BY <1>1, <1>3, Zenon DEF TypeOK
  <2>2. /\ batch' \in [Threads -> Batches \cup {<<>>}]
        /\ next' \in [Threads -> Nat \ {0}]
        /\ tags' \in [Threads -> SUBSET Nat]
        /\ pc' \in [Users -> Serving \cup {"idle", "call", "start"}]
    BY <1>1, <1>2, <1>3 DEF TypeOK
  <2> QED  BY <1>2, <1>3, <2>1, <2>2, Zenon DEF TypeOK, lifeVars
<1>7. OnlyUser(t)
  <2>1. /\ \A v \in Threads \ {t} : batch'[v] = batch[v] /\ next'[v] = next[v]
                                   /\ response'[v] = response[v] /\ tags'[v] = tags[v]
        /\ \A v \in Users \ {t} : pc'[v] = pc[v]
    BY <1>1, <1>2, <1>3, Zenon DEF TypeOK
  <2> QED  BY <1>2, <2>1, Zenon DEF OnlyUser, lifeVars
<1>8. ThreadInv(t)'
  <2>1. BatchOK(pc[t], eid[t], batch[t], next[t], response[t])'
    BY <1>4, <1>5, Zenon DEF BatchOK
  <2>2. ResponsesOK(t, pc[t], batch[t], response[t])'
    BY <1>5, Zenon DEF ResponsesOK
  <2>3. \A g \in Ids : g = enclaveState /\ <<g, t>> \notin unstopped => server[g][t] = NoServer
    BY <1>2, <1>3, Zenon DEF ThreadInv, ServerInv, DescOK, Serving
  <2>4. enclaveState' \in Ids /\ <<enclaveState', t>> \notin unstopped' =>
          server'[enclaveState'][t] = NoServer
    BY <1>2, <2>3, Zenon DEF lifeVars
  <2>5. ServerInv(t)'
    BY <1>5, <2>4, UnreadNoServer, Zenon
  <2> QED  BY <2>1, <2>2, <2>5, Zenon DEF ThreadInv
<1>9. StuckInv(t)'
  BY <1>2, <1>3, <1>5, Zenon DEF StuckInv
<1> QED  BY <1>3, <1>6, <1>7, <1>8, <1>9, OnlyUserKeeps, Zenon

LEMMA MovesTo ==
  ASSUME TypeOK, NEW t \in Users, NEW x \in Serving \cup {"idle", "call", "start"},
         pc' = [pc EXCEPT ![t] = x]
  PROVE  /\ pc' \in [Users -> Serving \cup {"idle", "call", "start"}]
         /\ pc'[t] = x
         /\ \A v \in Users \ {t} : pc'[v] = pc[v]
  BY Zenon DEF TypeOK

LEMMA Forgets ==
  ASSUME TypeOK, NEW t \in Users, eid' = [eid EXCEPT ![t] = Unread]
  PROVE  /\ eid' \in [Users -> {Unread} \cup (0..MaxStarts)]
         /\ eid'[t] = Unread
         /\ \A v \in Users \ {t} : eid'[v] = eid[v]
  BY Zenon DEF TypeOK

\* A call meets an instance only with the id of one.
LEMMA MeetsInstance ==
  ASSUME TypeOK, NEW t \in Users, eid[t] # Unread
  PROVE  /\ Meets(t) = "dead" => eid[t] = Null
         /\ Meets(t) # "dead" => eid[t] \in Ids
<1>1. eid[t] \in 0..MaxStarts
  BY Zenon DEF TypeOK
<1>2. eid[t] # Null => eid[t] \in Ids
  BY <1>1, BatchAssumption DEF Null, Ids
<1> QED  BY <1>2, Zenon DEF Meets

\* A batch has ended well when its responses are complete and its thread has no
\* server state in the instance in use, or one that the stop failed to reach.
LEMMA BatchEnds ==
  ASSUME EnclaveInv, NEW t \in Threads,
         pc' = [pc EXCEPT ![t] = "idle"], eid' = [eid EXCEPT ![t] = Unread],
         batch' = batch, next' = next,
         enclaveState' \in {enclaveState, Null}, enclaveState' \in 0..MaxStarts,
         manager' = manager, created' = created,
         instance' \in [Ids -> Conditions],
         server' \in [Ids -> [Threads -> Desc]],
         \A g \in Ids : \A v \in Threads :
           \/ v = t /\ g = eid[t]
           \/ /\ server'[g][v] = server[g][v]
              /\ <<g, v>> \in unstopped' <=> <<g, v>> \in unstopped,
         unstopped' \subseteq Ids \X Threads,
         \A g \in Ids : <<g, t>> \in unstopped' => server'[g][t].valid,
         enclaveState' \in Ids /\ <<enclaveState', t>> \notin unstopped' =>
           server'[enclaveState'][t] = NoServer,
         tags' \in [Threads -> SUBSET Nat],
         \A v \in Threads \ {t} : tags'[v] = tags[v],
         response' = [v \in Threads |-> response'[v]],
         \A v \in Threads \ {t} : response'[v] = response[v],
         ResponsesOK(t, "idle", batch[t], response'[t])
  PROVE  EnclaveInv'
<1>1. TypeOK /\ t \in Users
  BY Zenon DEF EnclaveInv, Users
<1>2. /\ eid' \in [Users -> {Unread} \cup (0..MaxStarts)]
      /\ eid'[t] = Unread
      /\ \A v \in Users \ {t} : eid'[v] = eid[v]
  BY <1>1, Forgets, Zenon
<1>3. /\ pc' \in [Users -> Serving \cup {"idle", "call", "start"}]
      /\ pc'[t] = "idle"
      /\ \A v \in Users \ {t} : pc'[v] = pc[v]
  BY <1>1, MovesTo, Zenon
<1>4. TypeOK'
  BY <1>1, <1>2, <1>3, Zenon DEF TypeOK
<1>5. OnlyUser(t)
  <2>1. /\ \A v \in Threads \ {t} : \A g \in Ids :
             server'[g][v] = server[g][v] /\ (<<g, v>> \in unstopped' <=> <<g, v>> \in unstopped)
        /\ \A g \in Ids :
             \/ g = eid[t]
             \/ server'[g][t] = server[g][t] /\ (<<g, t>> \in unstopped' <=> <<g, t>> \in unstopped)
    BY Zenon
  <2> QED  BY <1>2, <1>3, <2>1, Zenon DEF OnlyUser
<1>6. BatchOK(pc[t], eid[t], batch[t], next[t], response[t])'
  BY <1>2, <1>3, Zenon DEF BatchOK
<1>7. ResponsesOK(t, pc[t], batch[t], response[t])'
  BY <1>3, Zenon
<1>8. ServerInv(t)'
  BY <1>2, UnreadNoServer, Zenon
<1>9. ThreadInv(t)'
  BY <1>6, <1>7, <1>8, Zenon DEF ThreadInv
<1>10. StuckInv(t)'
  BY <1>3, Zenon DEF StuckInv
<1> QED  BY <1>1, <1>4, <1>5, <1>9, <1>10, OnlyUserKeeps, ZenonT(40)

LEMMA ServerStartOK ==
  ASSUME EnclaveInv, NEW t \in Threads, ServerStart(t)
  PROVE  EnclaveInv'
<1> DEFINE lost == Meets(t) = "lost"
           g == eid[t]
           Opens == /\ Meets(t) = "live" /\ ~server[g][t].valid
                    /\ server' = [server EXCEPT ![g][t] = NewServer]
                    /\ pc' = [pc EXCEPT ![t] = "add"]
                    /\ UNCHANGED response
           Refuses == /\ CatchAll(t, response[t])
                      /\ pc' = [pc EXCEPT ![t] = "idle"]
                      /\ UNCHANGED server
<1>1. /\ pc[t] = "start" /\ g # Unread /\ HandleLost(lost)
      /\ eid' = [eid EXCEPT ![t] = Unread]
      /\ UNCHANGED <<instance, unstopped, batch, next, tags>>
      /\ Opens \/ Refuses
  BY Zenon DEF ServerStart
<1>2. TypeOK /\ ThreadInv(t) /\ StuckInv(t) /\ t \in Users
  BY Zenon DEF EnclaveInv, Users
<1>3. /\ enclaveState' \in {enclaveState, Null} /\ enclaveState' \in 0..MaxStarts
      /\ manager' = manager /\ created' = created
  BY <1>1, <1>2, LostLife, Zenon
<1>4. /\ eid' \in [Users -> {Unread} \cup (0..MaxStarts)]
      /\ eid'[t] = Unread
      /\ \A v \in Users \ {t} : eid'[v] = eid[v]
  BY <1>1, <1>2, Forgets, Zenon
<1>5. \A h \in Ids : h \in {enclaveState, g} /\ <<h, t>> \notin unstopped =>
        server[h][t] = NoServer
  BY <1>1, <1>2, Zenon DEF ThreadInv, ServerInv, DescOK, Serving
<1>6. Null \notin Ids
  BY DEF Null, Ids
<1>7. CASE Opens
  <2>1. /\ server' = [server EXCEPT ![g][t] = NewServer]
        /\ pc' = [pc EXCEPT ![t] = "add"]
        /\ UNCHANGED response
    BY <1>7, Zenon
  <2>2. g \in Ids
    BY <1>1, <1>2, <1>7, MeetsInstance, Zenon
  <2>3. NewServer \in Desc
    BY OpenedOK, Zenon
  <2>4. /\ server' \in [Ids -> [Threads -> Desc]]
        /\ server'[g][t] = NewServer
        /\ \A h \in Ids : \A v \in Threads : h # g \/ v # t => server'[h][v] = server[h][v]
    BY <1>2, <2>1, <2>2, <2>3, ServerSet, ZenonT(40)
  <2>5. /\ pc' \in [Users -> Serving \cup {"idle", "call", "start"}]
        /\ pc'[t] = "add"
        /\ \A v \in Users \ {t} : pc'[v] = pc[v]
    <3>1. "add" \in Serving \cup {"idle", "call", "start"}
      BY Zenon DEF Serving
    <3> QED  BY <1>2, <2>1, <3>1, MovesTo, Zenon
  <2>6. TypeOK'
    BY <1>1, <1>2, <1>3, <1>4, <2>1, <2>4, <2>5, ZenonT(40) DEF TypeOK
  <2>7. OnlyUser(t)
    BY <1>1, <1>3, <1>4, <2>1, <2>4, <2>5, ZenonT(40) DEF OnlyUser
  <2>8. BatchOK(pc[t], eid[t], batch[t], next[t], response[t])'
    <3>1. next[t] = 1 /\ Len(batch[t]) >= 1 /\ Len(batch[t]) \in Nat
      <4>1. Len(batch[t]) \in Nat
        BY <1>2, BatchElements, Zenon DEF TypeOK
      <4> QED  BY <1>1, <1>2, <4>1, Zenon DEF ThreadInv, BatchOK
    <3> QED  BY <1>1, <2>5, <3>1 DEF BatchOK
  <2>9. ResponsesOK(t, pc[t], batch[t], response[t])'
    BY <1>1, <1>2, <2>1, <2>5, Zenon DEF ThreadInv, ResponsesOK
  <2>10. ServerInv(t)'
    <3>1. next'[t] = 1
      BY <1>1, <1>2, Zenon DEF ThreadInv, BatchOK
    <3>2. ASSUME enclaveState' \in Ids, <<enclaveState', t>> \notin unstopped'
          PROVE  DescOK(t, server'[enclaveState'][t], pc'[t], batch'[t], next'[t], response'[t], tags'[t])
      <4>1. enclaveState' = enclaveState
        BY <1>3, <1>6, <3>2, Zenon
      <4>2. CASE enclaveState = g
        BY <2>4, <2>5, <3>1, <4>1, <4>2, OpenedOK, Zenon
      <4>3. CASE enclaveState # g
        <5>1. server'[enclaveState'][t] = NoServer
          BY <1>1, <1>5, <2>4, <3>2, <4>1, <4>3, Zenon
        <5> QED  BY <5>1, NoServerOK, Zenon
      <4> QED  BY <4>2, <4>3, Zenon
    <3> QED  BY <1>4, <3>2, UnreadServer, Zenon
  <2>11. ThreadInv(t)'
    BY <2>8, <2>9, <2>10, Zenon DEF ThreadInv
  <2>12. StuckInv(t)'
    <3>1. <<g, t>> \notin unstopped
      BY <1>2, <1>7, <2>2, Zenon DEF StuckInv
    <3>2. enclaveState \in Ids => <<enclaveState, t>> \notin unstopped
      <4>1. enclaveState \in Ids /\ <<enclaveState, t>> \in unstopped => g = enclaveState
        BY <1>1, <1>2, Zenon DEF StuckInv, ThreadInv, ServerInv
      <4> QED  BY <3>1, <4>1, Zenon
    <3>3. Unread \notin Ids
      BY DEF Unread, Ids
    <3>4. \A h \in Ids : <<h, t>> \in unstopped' =>
            h \notin {enclaveState', eid'[t]} /\ server'[h][t] = server[h][t]
      BY <1>1, <1>3, <1>4, <1>6, <2>4, <3>1, <3>2, <3>3, Zenon
    <3> QED  BY <1>1, <1>2, <3>4, Zenon DEF StuckInv
  <2> QED  BY <1>2, <2>6, <2>7, <2>11, <2>12, OnlyUserKeeps, Zenon
<1>8. CASE Refuses
  <2>1. /\ CatchAll(t, response[t])
        /\ pc' = [pc EXCEPT ![t] = "idle"]
        /\ UNCHANGED server
    BY <1>8, Zenon
  <2>2. /\ response' = [v \in Threads |-> response'[v]]
        /\ \A v \in Threads \ {t} : response'[v] = response[v]
        /\ ResponsesOK(t, "idle", batch[t], response'[t])
    <3>1. /\ response[t] = [i \in 1..Len(batch[t]) |-> response[t][i]]
          /\ \A i \in 1..Len(batch[t]) : response[t][i] \in {Open, Failed, Served(t, batch[t], i)}
      BY <1>2, Zenon DEF ThreadInv, ResponsesOK
    <3> QED  BY <1>2, <2>1, <3>1, CatchOK, Zenon
  <2>3. enclaveState' \in Ids /\ <<enclaveState', t>> \notin unstopped' =>
          server'[enclaveState'][t] = NoServer
    BY <1>1, <1>3, <1>5, <1>6, <2>1, Zenon
  <2>4. /\ server' \in [Ids -> [Threads -> Desc]]
        /\ instance' \in [Ids -> Conditions]
        /\ tags' \in [Threads -> SUBSET Nat]
        /\ unstopped' \subseteq Ids \X Threads
    BY <1>1, <1>2, <2>1, Zenon DEF TypeOK
  <2>5. \A h \in Ids : <<h, t>> \in unstopped' => server'[h][t].valid
    BY <1>1, <1>2, <2>1, Zenon DEF StuckInv
  <2> QED  BY <1>1, <1>3, <2>1, <2>2, <2>3, <2>4, <2>5, BatchEnds, ZenonT(40)
<1> QED  BY <1>1, <1>7, <1>8, Zenon

LEMMA borrowOK ==
  ASSUME EnclaveInv, NEW t \in Threads, borrow(t)
  PROVE  EnclaveInv'
<1>1. PICK to \in {"process", "closing"} : pc' = [pc EXCEPT ![t] = to]
  BY Zenon DEF borrow
<1>2. /\ pc[t] = "borrow"
      /\ UNCHANGED <<lifeVars, instance, server, unstopped, eid, threadVars>>
  BY Zenon DEF borrow
<1>3. TypeOK /\ ThreadInv(t) /\ StuckInv(t) /\ t \in Users
  BY Zenon DEF EnclaveInv, Users
<1>4. /\ enclaveState' = enclaveState /\ manager' = manager /\ created' = created
      /\ server' = server /\ unstopped' = unstopped /\ eid' = eid /\ instance' = instance
      /\ batch' = batch /\ next' = next /\ response' = response /\ tags' = tags
  BY <1>2, Zenon DEF lifeVars, threadVars
<1>5. /\ pc' \in [Users -> Serving \cup {"idle", "call", "start"}]
      /\ pc'[t] = to
      /\ \A v \in Users \ {t} : pc'[v] = pc[v]
  <2>1. to \in Serving \cup {"idle", "call", "start"}
    BY Zenon DEF Serving
  <2> QED  BY <1>1, <1>3, <2>1, MovesTo, Zenon
<1>6. TypeOK'
  BY <1>3, <1>4, <1>5, Zenon DEF TypeOK
<1>7. OnlyUser(t)
  BY <1>4, <1>5, Zenon DEF OnlyUser
<1>8. BatchOK(pc[t], eid[t], batch[t], next[t], response[t])'
  <2>1. Len(batch[t]) \in Nat
    BY <1>3, BatchElements, Zenon DEF TypeOK
  <2> QED  BY <1>2, <1>3, <1>4, <1>5, <2>1 DEF ThreadInv, BatchOK
<1>9. ResponsesOK(t, pc[t], batch[t], response[t])'
  BY <1>2, <1>3, <1>4, <1>5, Zenon DEF ThreadInv, ResponsesOK
<1>10. ServerInv(t)'
  <2>1. ASSUME NEW g \in Ids, g \in {enclaveState, eid[t]}, <<g, t>> \notin unstopped
        PROVE  DescOK(t, server[g][t], to, batch[t], next[t], response[t], tags[t])
    <3>1. /\ DescOK(t, server[g][t], pc[t], batch[t], next[t], response[t], tags[t])
          /\ server[g][t] \in Desc /\ next[t] \in Nat \ {0}
      BY <1>3, <2>1, Zenon DEF ThreadInv, ServerInv, TypeOK
    <3>2. to \in Serving
      BY Zenon DEF Serving
    <3> QED  BY <3>1, <3>2, DescStays, Zenon
  <2> QED  BY <1>3, <1>4, <1>5, <2>1, Zenon DEF ThreadInv, ServerInv
<1>11. ThreadInv(t)'
  BY <1>8, <1>9, <1>10, Zenon DEF ThreadInv
<1>12. StuckInv(t)'
  BY <1>2, <1>3, <1>4, <1>7, StuckKept, Zenon DEF Serving
<1> QED  BY <1>3, <1>6, <1>7, <1>11, <1>12, OnlyUserKeeps, Zenon

\* Failing the futures of some requests keeps what is said of the others.
LEMMA CompleteOK ==
  ASSUME TypeOK, NEW t \in Threads, ThreadInv(t), NEW STATE indices,
         response' = [response EXCEPT ![t] = Complete(t, indices, Failed)]
  PROVE  /\ response' = [v \in Threads |-> response'[v]]
         /\ \A v \in Threads \ {t} : response'[v] = response[v]
         /\ response'[t] = [i \in 1..Len(batch[t]) |-> response'[t][i]]
         /\ \A i \in 1..Len(batch[t]) :
              /\ response'[t][i] \in {Open, Failed, Served(t, batch[t], i)}
              /\ response'[t][i] = Open => response[t][i] = Open /\ i \notin indices
<1> DEFINE r == Complete(t, indices, Failed)
<1>1. /\ response = [v \in Threads |-> response[v]]
      /\ DOMAIN response[t] = 1..Len(batch[t])
      /\ \A i \in 1..Len(batch[t]) : response[t][i] \in {Open, Failed, Served(t, batch[t], i)}
  BY Zenon DEF TypeOK, ThreadInv, ResponsesOK
<1>2. r = [i \in 1..Len(batch[t]) |->
             IF i \in indices /\ response[t][i] = Open THEN Failed ELSE response[t][i]]
  BY <1>1, Zenon DEF Complete
<1>3. r = [i \in 1..Len(batch[t]) |-> r[i]]
  BY <1>2, Zenon
<1>4. \A i \in 1..Len(batch[t]) :
        r[i] = IF i \in indices /\ response[t][i] = Open THEN Failed ELSE response[t][i]
  BY <1>2, Zenon
<1> HIDE DEF r
<1>5. /\ response' = [v \in Threads |-> response'[v]]
      /\ \A v \in Threads \ {t} : response'[v] = response[v]
      /\ response'[t] = r
  BY <1>1, Zenon DEF r
<1>6. Failed # Open
  BY Zenon DEF Failed, Open
<1>7. \A i \in 1..Len(batch[t]) :
        /\ r[i] \in {Open, Failed, Served(t, batch[t], i)}
        /\ r[i] = Open => response[t][i] = Open /\ i \notin indices
  BY <1>1, <1>4, <1>6, Zenon
<1> QED  BY <1>3, <1>5, <1>7, Zenon

LEMMA closeOK ==
  ASSUME EnclaveInv, NEW t \in Threads, close(t)
  PROVE  EnclaveInv'
<1>1. /\ pc[t] = "closing" /\ pc' = [pc EXCEPT ![t] = "close"]
      /\ response' = [response EXCEPT ![t] = Complete(t, Added(t), Failed)]
      /\ enclaveState' = enclaveState /\ manager' = manager /\ created' = created
      /\ server' = server /\ unstopped' = unstopped /\ eid' = eid /\ instance' = instance
      /\ batch' = batch /\ next' = next /\ tags' = tags
  BY Zenon DEF close, lifeVars
<1>2. TypeOK /\ ThreadInv(t) /\ StuckInv(t) /\ t \in Users
  BY Zenon DEF EnclaveInv, Users
<1>3. /\ response' = [v \in Threads |-> response'[v]]
      /\ \A v \in Threads \ {t} : response'[v] = response[v]
      /\ response'[t] = [i \in 1..Len(batch[t]) |-> response'[t][i]]
      /\ \A i \in 1..Len(batch[t]) :
           /\ response'[t][i] \in {Open, Failed, Served(t, batch[t], i)}
           /\ response'[t][i] = Open => response[t][i] = Open /\ i \notin Added(t)
  BY <1>1, <1>2, CompleteOK, Zenon
<1>4. /\ pc' \in [Users -> Serving \cup {"idle", "call", "start"}]
      /\ pc'[t] = "close"
      /\ \A v \in Users \ {t} : pc'[v] = pc[v]
  <2>1. "close" \in Serving \cup {"idle", "call", "start"}
    BY Zenon DEF Serving
  <2> QED  BY <1>1, <1>2, <2>1, MovesTo, Zenon
<1>5. TypeOK'
  BY <1>1, <1>2, <1>3, <1>4, Zenon DEF TypeOK
<1>6. OnlyUser(t)
  BY <1>1, <1>3, <1>4, Zenon DEF OnlyUser
<1>7. next[t] \in 1..(Len(batch[t]) + 1) /\ Len(batch[t]) \in Nat /\ Len(batch[t]) >= 1
  <2>1. Len(batch[t]) \in Nat
    BY <1>2, BatchElements, Zenon DEF TypeOK
  <2> QED  BY <1>1, <1>2, <2>1, Zenon DEF ThreadInv, BatchOK
<1>8. \A i \in 1..(next[t] - 1) : response'[t][i] # Open
  <2>1. \A i \in 1..(next[t] - 1) : i \in 1..Len(batch[t]) /\ i \in Added(t)
    BY <1>7 DEF Added
  <2> QED  BY <1>3, <2>1, Zenon
<1>9. BatchOK(pc[t], eid[t], batch[t], next[t], response[t])'
  BY <1>1, <1>4, <1>7, <1>8, Zenon DEF BatchOK
<1>10. ResponsesOK(t, pc[t], batch[t], response[t])'
  BY <1>1, <1>3, <1>4, Zenon DEF ResponsesOK
<1>11. ServerInv(t)'
  <2>1. ASSUME NEW g \in Ids, g \in {enclaveState, eid[t]}, <<g, t>> \notin unstopped
        PROVE  DescOK(t, server[g][t], "close", batch[t], next[t], response'[t], tags[t])
    <3>1. /\ DescOK(t, server[g][t], pc[t], batch[t], next[t], response[t], tags[t])
          /\ server[g][t] \in Desc /\ next[t] \in Nat \ {0}
      BY <1>2, <2>1, Zenon DEF ThreadInv, ServerInv, TypeOK
    <3>2. "close" \in Serving
      BY Zenon DEF Serving
    <3> QED  BY <1>8, <3>1, <3>2, DescStays, Zenon
  <2> QED  BY <1>1, <1>2, <1>4, <2>1, Zenon DEF ThreadInv, ServerInv
<1>12. ThreadInv(t)'
  BY <1>9, <1>10, <1>11, Zenon DEF ThreadInv
<1>13. StuckInv(t)'
  BY <1>1, <1>2, <1>6, StuckKept, Zenon DEF Serving
<1> QED  BY <1>2, <1>5, <1>6, <1>12, <1>13, OnlyUserKeeps, Zenon

\* The ways SgxsdBatch.add may go.
AddReturns(t) ==
  /\ next' = [next EXCEPT ![t] = next[t] + 1]
  /\ pc' = [pc EXCEPT ![t] = IF next[t] = Len(batch[t]) THEN "borrow" ELSE "add"]

AddFails(t) ==
  /\ Meets(t) = "dead" \/ (Meets(t) = "lost" /\ batch[t][next[t]].kind # "malformed")
  /\ response' = [response EXCEPT ![t] = Complete(t, {next[t]}, Failed)]
  /\ AddReturns(t)
  /\ UNCHANGED <<tags, server>>

AddThrows(t) ==
  /\ pc' = [pc EXCEPT ![t] = "closing"]
  /\ UNCHANGED <<next, response, tags, server>>

AddHolds(t) ==
  /\ Meets(t) = "live" /\ server[eid[t]][t].valid /\ batch[t][next[t]].kind = "good"
  /\ server' = [server EXCEPT ![eid[t]][t] = handle_call(t, next[t], server[eid[t]][t])]
  /\ tags' = [tags EXCEPT ![t] = @ \cup {next[t]}]
  /\ AddReturns(t)
  /\ UNCHANGED response

AddRefused(t) ==
  /\ Meets(t) = "live" /\ batch[t][next[t]].kind # "good"
  /\ server' = [server EXCEPT ![eid[t]][t] = handle_call(t, next[t], server[eid[t]][t])]
  /\ response' = [response EXCEPT ![t] = Complete(t, {next[t]}, Failed)]
  /\ AddReturns(t)
  /\ UNCHANGED tags

LEMMA addCases ==
  ASSUME NEW t \in Threads, add(t)
  PROVE  /\ pc[t] = "add" /\ eid[t] # Unread
         /\ HandleLost(Meets(t) = "lost" /\ batch[t][next[t]].kind # "malformed")
         /\ eid' = [eid EXCEPT ![t] = Unread]
         /\ UNCHANGED <<instance, unstopped, batch>>
         /\ AddFails(t) \/ AddThrows(t) \/ AddHolds(t) \/ AddRefused(t)
<1>1. /\ pc[t] = "add" /\ eid[t] # Unread
      /\ HandleLost(Meets(t) = "lost" /\ batch[t][next[t]].kind # "malformed")
      /\ eid' = [eid EXCEPT ![t] = Unread]
      /\ UNCHANGED <<instance, unstopped, batch>>
  BY Zenon DEF add
<1>2. AddFails(t) \/ AddThrows(t) \/ AddHolds(t) \/ AddRefused(t)
  BY Zenon DEF add, AddFails, AddThrows, AddHolds, AddRefused, AddReturns
<1> QED  BY <1>1, <1>2, Zenon

\* The place of the thread after an add that returns.
LEMMA ReturnsOK ==
  ASSUME TypeOK, NEW t \in Threads, ThreadInv(t), pc[t] = "add", AddReturns(t), batch' = batch,
         eid'[t] = Unread
  PROVE  /\ next' \in [Threads -> Nat \ {0}]
         /\ pc' \in [Users -> Serving \cup {"idle", "call", "start"}]
         /\ next'[t] = next[t] + 1 /\ next[t] \in 1..Len(batch[t])
         /\ pc'[t] \in {"add", "borrow"}
         /\ \A v \in Threads \ {t} : next'[v] = next[v]
         /\ \A v \in Users \ {t} : pc'[v] = pc[v]
         /\ BatchOK(pc[t], eid[t], batch[t], next[t], response[t])'
<1>1. Len(batch[t]) \in Nat
  BY BatchElements, Zenon DEF TypeOK
<1>2. next[t] \in 1..Len(batch[t]) /\ next[t] \in Nat /\ Len(batch[t]) >= 1
  BY <1>1 DEF ThreadInv, BatchOK
<1>3. next[t] + 1 \in Nat \ {0}
  BY <1>2
<1>4. /\ next' \in [Threads -> Nat \ {0}]
      /\ next'[t] = next[t] + 1
      /\ \A v \in Threads \ {t} : next'[v] = next[v]
  BY <1>3, Zenon DEF AddReturns, TypeOK
<1> DEFINE x == IF next[t] = Len(batch[t]) THEN "borrow" ELSE "add"
<1>5. x \in Serving \cup {"idle", "call", "start"} /\ t \in Users
  BY Zenon DEF Serving, Users
<1>6. /\ pc' \in [Users -> Serving \cup {"idle", "call", "start"}]
      /\ pc'[t] = x
      /\ \A v \in Users \ {t} : pc'[v] = pc[v]
  BY <1>5, Zenon DEF AddReturns, TypeOK
<1>7. BatchOK(pc[t], eid[t], batch[t], next[t], response[t])'
  BY <1>1, <1>2, <1>4, <1>6 DEF BatchOK
<1> QED  BY <1>2, <1>4, <1>6, <1>7, Zenon

\* What the four ways have in common: which instance is in use afterwards.
LEMMA AddLife ==
  ASSUME EnclaveInv, NEW t \in Threads, add(t)
  PROVE  /\ TypeOK /\ ThreadInv(t) /\ StuckInv(t) /\ t \in Users
         /\ pc[t] \in Serving /\ unstopped' = unstopped
         /\ enclaveState' \in {enclaveState, Null} /\ enclaveState' \in 0..MaxStarts
         /\ manager' = manager /\ created' = created
         /\ Meets(t) = "lost" /\ batch[t][next[t]].kind # "malformed" => enclaveState' = Null
         /\ enclaveState' \in Ids => enclaveState' = enclaveState
         /\ eid' \in [Users -> {Unread} \cup (0..MaxStarts)]
         /\ eid'[t] = Unread
         /\ \A v \in Users \ {t} : eid'[v] = eid[v]
         /\ pc[t] = "add" /\ eid[t] # Unread /\ batch' = batch /\ instance' = instance
         /\ next[t] \in Nat \ {0} /\ batch[t] \in Batches
         /\ \A g \in Ids : server[g][t] \in Desc
         /\ enclaveState \in Ids =>
              /\ DescOK(t, server[enclaveState][t], "add", batch[t], next[t], response[t], tags[t])
              /\ server[enclaveState][t] = NoServer \/ eid[t] = enclaveState
<1>1. TypeOK /\ ThreadInv(t) /\ StuckInv(t) /\ t \in Users
  BY Zenon DEF EnclaveInv, Users
<1>2. /\ pc[t] = "add" /\ eid[t] # Unread
      /\ HandleLost(Meets(t) = "lost" /\ batch[t][next[t]].kind # "malformed")
      /\ eid' = [eid EXCEPT ![t] = Unread]
      /\ batch' = batch /\ instance' = instance /\ unstopped' = unstopped
  BY addCases, Zenon
<1>3. /\ enclaveState' \in {enclaveState, Null} /\ enclaveState' \in 0..MaxStarts
      /\ manager' = manager /\ created' = created
      /\ Meets(t) = "lost" /\ batch[t][next[t]].kind # "malformed" => enclaveState' = Null
  BY <1>1, <1>2, LostLife, Zenon
<1>4. Null \notin Ids
  BY DEF Null, Ids
<1>5. /\ eid' \in [Users -> {Unread} \cup (0..MaxStarts)]
      /\ eid'[t] = Unread
      /\ \A v \in Users \ {t} : eid'[v] = eid[v]
  BY <1>1, <1>2, Forgets, Zenon
<1>6. batch[t] \in Batches
  <2>1. batch[t] # <<>>
    BY <1>1, <1>2 DEF ThreadInv, BatchOK
  <2> QED  BY <1>1, <2>1, ZenonT(40) DEF TypeOK
<1>7. next[t] \in Nat \ {0} /\ \A g \in Ids : server[g][t] \in Desc
  BY <1>1, Zenon DEF TypeOK
<1>8. pc[t] \in Serving
  BY <1>2, Zenon DEF Serving
<1>9. enclaveState \in Ids =>
        /\ DescOK(t, server[enclaveState][t], "add", batch[t], next[t], response[t], tags[t])
        /\ server[enclaveState][t] = NoServer \/ eid[t] = enclaveState
  <2>1. enclaveState \in Ids => <<enclaveState, t>> \notin unstopped
    BY <1>1, <1>8, NotStuck, Zenon
  <2>2. enclaveState \in Ids =>
          DescOK(t, server[enclaveState][t], "add", batch[t], next[t], response[t], tags[t])
    BY <1>1, <1>2, <2>1, Zenon DEF ThreadInv, ServerInv
  <2> QED  BY <1>1, <1>2, <2>2, InUse, Zenon
<1> QED  BY <1>1, <1>2, <1>3, <1>4, <1>5, <1>6, <1>7, <1>8, <1>9, ZenonT(30)

LEMMA AddFailsOK ==
  ASSUME EnclaveInv, NEW t \in Threads, add(t), AddFails(t)
  PROVE  EnclaveInv'
<1>1. TypeOK /\ ThreadInv(t) /\ t \in Users
  BY AddLife, Zenon
<1>2. /\ AddReturns(t) /\ tags' = tags /\ server' = server
      /\ response' = [response EXCEPT ![t] = Complete(t, {next[t]}, Failed)]
  BY Zenon DEF AddFails
<1>3. /\ next' \in [Threads -> Nat \ {0}]
      /\ pc' \in [Users -> Serving \cup {"idle", "call", "start"}]
      /\ pc'[t] \in {"add", "borrow"}
      /\ \A v \in Threads \ {t} : next'[v] = next[v]
      /\ \A v \in Users \ {t} : pc'[v] = pc[v]
      /\ BatchOK(pc[t], eid[t], batch[t], next[t], response[t])'
  BY <1>2, AddLife, ReturnsOK, Zenon
<1>4. /\ response' = [v \in Threads |-> response'[v]]
      /\ \A v \in Threads \ {t} : response'[v] = response[v]
      /\ response'[t] = [i \in 1..Len(batch[t]) |-> response'[t][i]]
      /\ \A i \in 1..Len(batch[t]) : response'[t][i] \in {Open, Failed, Served(t, batch[t], i)}
  BY <1>1, <1>2, CompleteOK, Zenon
<1>5. TypeOK'
  BY <1>1, <1>2, <1>3, <1>4, AddLife, ZenonT(30) DEF TypeOK
<1>6. OnlyUser(t)
  BY <1>2, <1>3, <1>4, AddLife, Zenon DEF OnlyUser
<1>7. ResponsesOK(t, pc[t], batch[t], response[t])'
  <2>1. batch' = batch
    BY AddLife, Zenon
  <2> QED  BY <1>3, <1>4, <2>1, Zenon DEF ResponsesOK
<1>8. enclaveState' \in Ids => server'[enclaveState'][t] = NoServer
  <2>1. Null \notin Ids
    BY DEF Null, Ids
  <2>2. CASE Meets(t) = "dead"
    <3>1. eid[t] = Null
      BY <2>2, AddLife, MeetsInstance, Zenon
    <3> QED  BY <1>2, <2>1, <3>1, AddLife, Zenon
  <2>3. CASE Meets(t) = "lost" /\ batch[t][next[t]].kind # "malformed"
    BY <2>1, <2>3, AddLife, Zenon
  <2> QED  BY <2>2, <2>3, Zenon DEF AddFails
<1>9. ServerInv(t)'
  BY <1>8, AddLife, UnreadNoServer, Zenon
<1>10. ThreadInv(t)'
  BY <1>3, <1>7, <1>9, Zenon DEF ThreadInv
<1>11. StuckInv(t)'
  BY <1>6, AddLife, StuckKept, Zenon
<1> QED  BY <1>1, <1>5, <1>6, <1>10, <1>11, OnlyUserKeeps, ZenonT(40)

LEMMA AddThrowsOK ==
  ASSUME EnclaveInv, NEW t \in Threads, add(t), AddThrows(t)
  PROVE  EnclaveInv'
<1>1. TypeOK /\ ThreadInv(t) /\ t \in Users
  BY AddLife, Zenon
<1>2. /\ pc' = [pc EXCEPT ![t] = "closing"]
      /\ next' = next /\ response' = response /\ tags' = tags /\ server' = server
  BY Zenon DEF AddThrows
<1>3. /\ pc' \in [Users -> Serving \cup {"idle", "call", "start"}]
      /\ pc'[t] = "closing"
      /\ \A v \in Users \ {t} : pc'[v] = pc[v]
  <2>1. "closing" \in Serving \cup {"idle", "call", "start"}
    BY Zenon DEF Serving
  <2> QED  BY <1>1, <1>2, <2>1, MovesTo, Zenon
<1>4. TypeOK'
  BY <1>1, <1>2, <1>3, AddLife, ZenonT(40) DEF TypeOK
<1>5. OnlyUser(t)
  BY <1>2, <1>3, AddLife, Zenon DEF OnlyUser
<1>6. pc[t] = "add" /\ batch' = batch
  BY AddLife, Zenon
<1>7. BatchOK(pc[t], eid[t], batch[t], next[t], response[t])'
  <2>1. Len(batch[t]) \in Nat
    BY <1>1, BatchElements, Zenon DEF TypeOK
  <2> QED  BY <1>1, <1>2, <1>3, <1>6, <2>1, SMTT(30) DEF ThreadInv, BatchOK
<1>8. ResponsesOK(t, pc[t], batch[t], response[t])'
  BY <1>1, <1>2, <1>3, <1>6, Zenon DEF ThreadInv, ResponsesOK
<1>9. ServerInv(t)'
  <2>1. ASSUME enclaveState' \in Ids
        PROVE  DescOK(t, server'[enclaveState'][t], pc'[t], batch'[t], next'[t], response'[t], tags'[t])
    <3>1. enclaveState' = enclaveState /\ enclaveState \in Ids
      BY <2>1, AddLife, Zenon
    <3>2. "closing" \in Serving
      BY Zenon DEF Serving
    <3>3. DescOK(t, server[enclaveState][t], "closing", batch[t], next[t], response[t], tags[t])
      BY <3>1, <3>2, AddLife, DescStays, Zenon
    <3> QED  BY <1>2, <1>3, <1>6, <3>1, <3>3, Zenon
  <2> QED  BY <2>1, AddLife, UnreadServer, Zenon
<1>10. ThreadInv(t)'
  BY <1>7, <1>8, <1>9, Zenon DEF ThreadInv
<1>11. StuckInv(t)'
  BY <1>5, AddLife, StuckKept, Zenon
<1> QED  BY <1>1, <1>4, <1>5, <1>10, <1>11, OnlyUserKeeps, ZenonT(40)

LEMMA AddHoldsOK ==
  ASSUME EnclaveInv, NEW t \in Threads, add(t), AddHolds(t)
  PROVE  EnclaveInv'
<1> DEFINE g == eid[t]
           d == server[g][t]
           e == Held(t, d, batch[t], next[t])
<1>1. TypeOK /\ ThreadInv(t) /\ t \in Users /\ batch[t] \in Batches /\ batch' = batch
  BY AddLife, Zenon
<1>2. /\ Meets(t) = "live" /\ d.valid /\ batch[t][next[t]].kind = "good"
      /\ server' = [server EXCEPT ![g][t] = handle_call(t, next[t], d)]
      /\ tags' = [tags EXCEPT ![t] = @ \cup {next[t]}]
      /\ AddReturns(t) /\ response' = response
  BY Zenon DEF AddHolds
<1>3. /\ next' \in [Threads -> Nat \ {0}]
      /\ pc' \in [Users -> Serving \cup {"idle", "call", "start"}]
      /\ next'[t] = next[t] + 1 /\ next[t] \in 1..Len(batch[t])
      /\ pc'[t] \in {"add", "borrow"}
      /\ \A v \in Threads \ {t} : next'[v] = next[v]
      /\ \A v \in Users \ {t} : pc'[v] = pc[v]
      /\ BatchOK(pc[t], eid[t], batch[t], next[t], response[t])'
  BY <1>2, AddLife, ReturnsOK, Zenon
<1>4. g \in Ids /\ d \in Desc
  <2>1. g \in Ids
    <3>1. Meets(t) # "dead"
      BY <1>2, Zenon
    <3> QED  BY <3>1, AddLife, MeetsInstance, Zenon
  <2> QED  BY <2>1, AddLife, Zenon
<1>5. DescOK(t, d, "add", batch[t], next[t], response[t], tags[t])
  <2>1. pc[t] = "add" /\ <<g, t>> \notin unstopped
    BY <1>4, AddLife, NotStuck, Zenon
  <2> QED  BY <1>1, <1>4, <2>1, Zenon DEF ThreadInv, ServerInv
<1>6. handle_call(t, next[t], d) = e
  BY <1>2, Zenon DEF handle_call, PhonesOf, Held
<1>7. pc'[t] \in Serving
  BY <1>3, Zenon DEF Serving
<1>8. e \in Desc /\ DescOK(t, e, pc'[t], batch[t], next[t] + 1, response[t], tags[t] \cup {next[t]})
  BY <1>1, <1>2, <1>3, <1>4, <1>5, <1>6, <1>7, DescAdds, ZenonT(30)
<1>9. /\ server' \in [Ids -> [Threads -> Desc]]
      /\ server'[g][t] = e
      /\ \A h \in Ids : \A v \in Threads : h # g \/ v # t => server'[h][v] = server[h][v]
  <2>1. server' = [server EXCEPT ![g][t] = e]
    BY <1>2, <1>6, Zenon
  <2>2. e \in Desc
    BY <1>8, Zenon
  <2> HIDE DEF e, d
  <2> QED  BY <1>1, <1>4, <2>1, <2>2, ServerSet, ZenonT(40)
<1>10. /\ tags' \in [Threads -> SUBSET Nat]
       /\ tags'[t] = tags[t] \cup {next[t]}
       /\ \A v \in Threads \ {t} : tags'[v] = tags[v]
  <2>1. next[t] \in Nat
    BY <1>1, Zenon DEF TypeOK
  <2> QED  BY <1>1, <1>2, <2>1, Zenon DEF TypeOK
<1>11. TypeOK'
  <2>1. /\ eid' \in [Users -> {Unread} \cup (0..MaxStarts)]
        /\ enclaveState' \in {enclaveState, Null} /\ enclaveState' \in 0..MaxStarts
        /\ manager' = manager /\ created' = created
        /\ instance' = instance /\ batch' = batch /\ unstopped' = unstopped
    BY AddLife, Zenon
  <2> QED  BY <1>1, <1>2, <1>3, <1>9, <1>10, <2>1, ZenonT(40) DEF TypeOK
<1>12. OnlyUser(t)
  <2>1. /\ \A v \in Threads \ {t} : \A h \in Ids : server'[h][v] = server[h][v]
        /\ \A h \in Ids : server'[h][t] = server[h][t] \/ h = eid[t]
    BY <1>9, Zenon
  <2>2. \A v \in Threads \ {t} :
          batch'[v] = batch[v] /\ response'[v] = response[v] /\ tags'[v] = tags[v]
    BY <1>1, <1>2, <1>10, Zenon
  <2>3. /\ eid'[t] = Unread /\ \A v \in Users \ {t} : eid'[v] = eid[v]
        /\ enclaveState' \in {enclaveState, Null}
        /\ manager' = manager /\ created' = created
        /\ batch' = batch /\ unstopped' = unstopped
    BY AddLife, Zenon
  <2> QED  BY <1>3, <2>1, <2>2, <2>3, ZenonT(40) DEF OnlyUser
<1>13. ResponsesOK(t, pc[t], batch[t], response[t])'
  BY <1>1, <1>2, <1>3, Zenon DEF ThreadInv, ResponsesOK
<1>14. ServerInv(t)'
  <2>1. ASSUME enclaveState' \in Ids
        PROVE  DescOK(t, server'[enclaveState'][t], pc'[t], batch'[t], next'[t], response'[t], tags'[t])
    <3>1. enclaveState' = enclaveState /\ enclaveState \in Ids
      BY <2>1, AddLife, Zenon
    <3>2. CASE enclaveState = g
      BY <1>1, <1>2, <1>3, <1>8, <1>9, <1>10, <3>1, <3>2, ZenonT(60)
    <3>3. CASE enclaveState # g
      <4>1. server'[enclaveState'][t] = NoServer
        BY <1>9, <3>1, <3>3, AddLife, ZenonT(40)
      <4> QED  BY <4>1, NoServerOK, Zenon
    <3> QED  BY <3>2, <3>3, Zenon
  <2> QED  BY <2>1, AddLife, UnreadServer, Zenon
<1>15. ThreadInv(t)'
  BY <1>3, <1>13, <1>14, Zenon DEF ThreadInv
<1>16. StuckInv(t)'
  BY <1>12, AddLife, StuckKept, Zenon
<1> QED  BY <1>1, <1>11, <1>12, <1>15, <1>16, OnlyUserKeeps, ZenonT(40)

LEMMA AddRefusedOK ==
  ASSUME EnclaveInv, NEW t \in Threads, add(t), AddRefused(t)
  PROVE  EnclaveInv'
<1> DEFINE g == eid[t]
<1>1. TypeOK /\ ThreadInv(t) /\ t \in Users /\ batch' = batch
  BY AddLife, Zenon
<1>2. /\ Meets(t) = "live" /\ AddReturns(t) /\ tags' = tags
      /\ server' = [server EXCEPT ![g][t] = server[g][t]]
      /\ response' = [response EXCEPT ![t] = Complete(t, {next[t]}, Failed)]
  BY Zenon DEF AddRefused, handle_call
<1>3. /\ next' \in [Threads -> Nat \ {0}]
      /\ pc' \in [Users -> Serving \cup {"idle", "call", "start"}]
      /\ next'[t] = next[t] + 1 /\ next[t] \in 1..Len(batch[t])
      /\ pc'[t] \in {"add", "borrow"}
      /\ \A v \in Threads \ {t} : next'[v] = next[v]
      /\ \A v \in Users \ {t} : pc'[v] = pc[v]
      /\ BatchOK(pc[t], eid[t], batch[t], next[t], response[t])'
  BY <1>2, AddLife, ReturnsOK, Zenon
<1>4. g \in Ids
  <2>1. Meets(t) # "dead"
    BY <1>2, Zenon
  <2> QED  BY <2>1, AddLife, MeetsInstance, Zenon
<1>5. /\ server' \in [Ids -> [Threads -> Desc]]
      /\ \A h \in Ids : \A v \in Threads : server'[h][v] = server[h][v]
  <2>1. server[g][t] \in Desc
    BY <1>1, <1>4, Zenon DEF TypeOK
  <2> DEFINE d == server[g][t]
  <2>2. d \in Desc /\ server' = [server EXCEPT ![g][t] = d]
    BY <1>2, <2>1, Zenon
  <2>3. /\ server' \in [Ids -> [Threads -> Desc]]
        /\ server'[g][t] = d
        /\ \A h \in Ids : \A v \in Threads : h # g \/ v # t => server'[h][v] = server[h][v]
    <3> HIDE DEF d
    <3> QED  BY <1>1, <1>4, <2>2, ServerSet, ZenonT(40)
  <2> QED  BY <2>3, Zenon
<1>6. /\ response' = [v \in Threads |-> response'[v]]
      /\ \A v \in Threads \ {t} : response'[v] = response[v]
      /\ response'[t] = [i \in 1..Len(batch[t]) |-> response'[t][i]]
      /\ \A i \in 1..Len(batch[t]) :
           /\ response'[t][i] \in {Open, Failed, Served(t, batch[t], i)}
           /\ response'[t][i] = Open => response[t][i] = Open /\ i \notin {next[t]}
  BY <1>1, <1>2, CompleteOK, Zenon
<1>7. TypeOK'
  <2>1. /\ eid' \in [Users -> {Unread} \cup (0..MaxStarts)]
        /\ enclaveState' \in {enclaveState, Null} /\ enclaveState' \in 0..MaxStarts
        /\ manager' = manager /\ created' = created
        /\ instance' = instance /\ batch' = batch /\ unstopped' = unstopped
    BY AddLife, Zenon
  <2> QED  BY <1>1, <1>2, <1>3, <1>5, <1>6, <2>1, ZenonT(40) DEF TypeOK
<1>8. OnlyUser(t)
  <2>1. /\ eid'[t] = Unread /\ \A v \in Users \ {t} : eid'[v] = eid[v]
        /\ enclaveState' \in {enclaveState, Null}
        /\ manager' = manager /\ created' = created
        /\ batch' = batch /\ unstopped' = unstopped
    BY AddLife, Zenon
  <2> QED  BY <1>2, <1>3, <1>5, <1>6, <2>1, ZenonT(40) DEF OnlyUser
<1>9. ResponsesOK(t, pc[t], batch[t], response[t])'
  BY <1>1, <1>3, <1>6, Zenon DEF ResponsesOK
<1>10. ServerInv(t)'
  <2>1. ASSUME enclaveState' \in Ids
        PROVE  DescOK(t, server'[enclaveState'][t], pc'[t], batch'[t], next'[t], response'[t], tags'[t])
    <3>1. enclaveState' = enclaveState /\ enclaveState \in Ids
      BY <2>1, AddLife, Zenon
    <3>2. /\ DescOK(t, server[enclaveState][t], "add", batch[t], next[t], response[t], tags[t])
          /\ server[enclaveState][t] \in Desc /\ next[t] \in Nat \ {0}
      BY <3>1, AddLife, Zenon
    <3>3. \A i \in 1..((next[t] + 1) - 1) :
            response'[t][i] = Open => i \in 1..(next[t] - 1) /\ response[t][i] = Open
      <4>1. Len(batch[t]) \in Nat
        BY <1>1, BatchElements, ZenonT(40) DEF TypeOK
      <4>2. \A i \in 1..((next[t] + 1) - 1) :
              i \in 1..Len(batch[t]) /\ (i \notin {next[t]} => i \in 1..(next[t] - 1))
        BY <1>3, <4>1
      <4> QED  BY <1>6, <4>2, Zenon
    <3>4. pc'[t] \in Serving
      BY <1>3, Zenon DEF Serving
    <3>5. DescOK(t, server[enclaveState][t], pc'[t], batch[t], next[t] + 1, response'[t], tags[t])
      BY <3>2, <3>3, <3>4, DescSkips, ZenonT(40)
    <3> QED  BY <1>1, <1>2, <1>3, <1>5, <3>1, <3>5, Zenon
  <2> QED  BY <2>1, AddLife, UnreadServer, Zenon
<1>11. ThreadInv(t)'
  BY <1>3, <1>9, <1>10, Zenon DEF ThreadInv
<1>12. StuckInv(t)'
  BY <1>8, AddLife, StuckKept, Zenon
<1> QED  BY <1>1, <1>7, <1>8, <1>11, <1>12, OnlyUserKeeps, Zenon

LEMMA addOK ==
  ASSUME EnclaveInv, NEW t \in Threads, add(t)
  PROVE  EnclaveInv'
  BY addCases, AddFailsOK, AddThrowsOK, AddHoldsOK, AddRefusedOK, ZenonT(40)

-----------------------------------------------------------------------------
(* The end of a batch.                                                     *)

\* How a stop may end: in the enclave, where the server state is valid, or with
\* an error before.
LEMMA StopCases ==
  ASSUME TypeOK, NEW t \in Threads, eid[t] # Unread, NEW end \in StopOutcomes(t)
  PROVE  \/ end[2] = "error" /\ end[1] = 0
         \/ /\ end[2] # "error" /\ end \in StopEnds(server[eid[t]][t])
            /\ eid[t] \in Ids /\ server[eid[t]][t] \in Desc /\ server[eid[t]][t].valid
<1>1. CASE Stoppable(t) /\ end \in StopEnds(server[eid[t]][t])
  <2>1. end \in StopEnds(server[eid[t]][t]) /\ Meets(t) = "live" /\ server[eid[t]][t].valid
    BY <1>1, Zenon DEF Stoppable
  <2>2. eid[t] \in Ids
    BY <2>1, MeetsInstance, Zenon DEF Users
  <2>3. server[eid[t]][t] \in Desc
    BY <2>2, Zenon DEF TypeOK
  <2>4. end[2] # "error"
    <3>1. end[2] \in {"ok", "lookup", "reply", "lost"}
      BY <2>1, <2>3, StopSends, ZenonT(40)
    <3> QED  BY <3>1, Zenon
  <2> QED  BY <2>1, <2>2, <2>3, <2>4, ZenonT(40)
<1>2. CASE end = <<0, "error">>
  BY <1>2, Zenon
<1> QED  BY <1>1, <1>2, Zenon DEF StopOutcomes

\* A stop leaves no server state of the thread in the instance in use, even when
\* it meets another instance or an error, unless it fails on the way to one.
LEMMA StopFrees ==
  ASSUME EnclaveInv, NEW t \in Threads, eid[t] # Unread, pc[t] \in Serving,
         NEW end \in StopOutcomes(t), ServerStop(t, end)
  PROVE  /\ pc' = [pc EXCEPT ![t] = "idle"] /\ eid' = [eid EXCEPT ![t] = Unread]
         /\ batch' = batch /\ next' = next
         /\ enclaveState' \in {enclaveState, Null} /\ enclaveState' \in 0..MaxStarts
         /\ manager' = manager /\ created' = created
         /\ instance' \in [Ids -> Conditions]
         /\ server' \in [Ids -> [Threads -> Desc]]
         /\ \A g \in Ids : \A v \in Threads :
              \/ v = t /\ g = eid[t]
              \/ /\ server'[g][v] = server[g][v]
                 /\ <<g, v>> \in unstopped' <=> <<g, v>> \in unstopped
         /\ unstopped' \subseteq Ids \X Threads
         /\ \A g \in Ids : <<g, t>> \in unstopped' => server'[g][t].valid
         /\ enclaveState' \in Ids /\ <<enclaveState', t>> \notin unstopped' =>
              server'[enclaveState'][t] = NoServer
         /\ tags' \in [Threads -> SUBSET Nat]
         /\ \A v \in Threads \ {t} : tags'[v] = tags[v]
<1>1. TypeOK /\ ThreadInv(t) /\ StuckInv(t) /\ t \in Users
  BY Zenon DEF EnclaveInv, Users
<1>2. /\ pc' = [pc EXCEPT ![t] = "idle"] /\ eid' = [eid EXCEPT ![t] = Unread]
      /\ batch' = batch /\ next' = next
  BY Zenon DEF ServerStop
<1>3. Null \notin Ids
  BY DEF Null, Ids
<1>4. CASE end[2] = "error" /\ end[1] = 0
  <2>1. /\ HandleLost(Meets(t) = "lost") /\ server' = server /\ tags' = tags /\ instance' = instance
        /\ unstopped' = unstopped \cup {x \in {<<eid[t], t>>} : Stoppable(t)}
    BY <1>4, Zenon DEF ServerStop
  <2>2. /\ enclaveState' \in {enclaveState, Null} /\ enclaveState' \in 0..MaxStarts
        /\ manager' = manager /\ created' = created
        /\ Meets(t) = "lost" => enclaveState' = Null
    BY <1>1, <2>1, LostLife, ZenonT(40)
  <2>3. Stoppable(t) => eid[t] \in Ids /\ server[eid[t]][t].valid
    BY <1>1, MeetsInstance, Zenon DEF Stoppable
  <2>4. unstopped' \subseteq Ids \X Threads
    <3>1. unstopped \subseteq Ids \X Threads
      BY <1>1, Zenon DEF TypeOK
    <3>2. Stoppable(t) => <<eid[t], t>> \in Ids \X Threads
      BY <2>3
    <3> QED  BY <2>1, <3>1, <3>2
  <2>5. \A g \in Ids : \A v \in Threads :
          <<g, v>> \in unstopped' <=> \/ <<g, v>> \in unstopped
                                      \/ g = eid[t] /\ v = t /\ Stoppable(t)
    BY <2>1
  <2>6. \A g \in Ids : <<g, t>> \in unstopped' => server'[g][t].valid
    BY <1>1, <2>1, <2>3, <2>5, Zenon DEF StuckInv
  <2>7. ASSUME enclaveState' \in Ids, <<enclaveState', t>> \notin unstopped',
               server[enclaveState][t] # NoServer
        PROVE  FALSE
    <3>1. enclaveState' = enclaveState /\ Meets(t) # "lost"
      BY <1>3, <2>2, <2>7, Zenon
    <3>2. eid[t] = enclaveState
      BY <1>1, <2>7, <3>1, InUse, ZenonT(40)
    <3>3. Meets(t) = "live"
      BY <1>3, <2>7, <3>1, <3>2, ZenonT(40) DEF Meets
    <3>4. <<enclaveState, t>> \notin unstopped /\ ~Stoppable(t)
      BY <2>5, <2>7, <3>1, <3>2, Zenon
    <3>5. ~server[enclaveState][t].valid
      BY <3>2, <3>3, <3>4, Zenon DEF Stoppable
    <3>6. DescOK(t, server[enclaveState][t], pc[t], batch[t], next[t], response[t], tags[t])
      BY <1>1, <2>7, <3>1, <3>4, Zenon DEF ThreadInv, ServerInv
    <3> QED  BY <2>7, <3>5, <3>6, ZenonT(40) DEF DescOK
  <2>8. enclaveState' \in Ids /\ <<enclaveState', t>> \notin unstopped' =>
          server'[enclaveState'][t] = NoServer
    BY <1>3, <2>1, <2>2, <2>7, Zenon
  <2>9. /\ instance' \in [Ids -> Conditions] /\ server' \in [Ids -> [Threads -> Desc]]
        /\ tags' \in [Threads -> SUBSET Nat] /\ \A v \in Threads \ {t} : tags'[v] = tags[v]
        /\ \A g \in Ids : \A v \in Threads :
             \/ v = t /\ g = eid[t]
             \/ /\ server'[g][v] = server[g][v]
                /\ <<g, v>> \in unstopped' <=> <<g, v>> \in unstopped
    BY <1>1, <2>1, <2>5, Zenon DEF TypeOK
  <2> QED  BY <1>2, <2>2, <2>4, <2>6, <2>8, <2>9, ZenonT(40)
<1>5. CASE /\ end[2] # "error" /\ eid[t] \in Ids
  <2>1. /\ server' = [server EXCEPT ![eid[t]][t] = NoServer]
        /\ tags' = [tags EXCEPT ![t] = @ \ Released(server[eid[t]][t], end)]
        /\ instance' = IF end[2] = "lost" THEN [instance EXCEPT ![eid[t]] = "lost"] ELSE instance
        /\ HandleLost(end[2] = "lost") /\ unstopped' = unstopped
    BY <1>5, Zenon DEF ServerStop
  <2>2. /\ enclaveState' \in {enclaveState, Null} /\ enclaveState' \in 0..MaxStarts
        /\ manager' = manager /\ created' = created
    BY <1>1, <2>1, LostLife, ZenonT(40)
  <2>3. NoServer \in Desc
    BY NoServerOK, Zenon
  <2>4. /\ server' \in [Ids -> [Threads -> Desc]]
        /\ server'[eid[t]][t] = NoServer
        /\ \A h \in Ids : \A v \in Threads : h # eid[t] \/ v # t => server'[h][v] = server[h][v]
    BY <1>1, <1>5, <2>1, <2>3, ServerSet, ZenonT(30)
  <2>5. enclaveState' \in Ids => server'[enclaveState'][t] = NoServer
    <3>1. enclaveState \in Ids /\ server[enclaveState][t] # NoServer => eid[t] = enclaveState
      BY <1>1, InUse, Zenon
    <3> QED  BY <1>3, <2>2, <2>4, <3>1, ZenonT(40)
  <2>6. instance' \in [Ids -> Conditions]
    BY <1>1, <1>5, <2>1, Zenon DEF TypeOK, Conditions
  <2>7. /\ tags' \in [Threads -> SUBSET Nat]
        /\ \A v \in Threads \ {t} : tags'[v] = tags[v]
    BY <1>1, <2>1, Zenon DEF TypeOK
  <2>8. \A g \in Ids : \A v \in Threads :
          \/ v = t /\ g = eid[t]
          \/ /\ server'[g][v] = server[g][v]
             /\ <<g, v>> \in unstopped' <=> <<g, v>> \in unstopped
    BY <2>1, <2>4, Zenon
  <2>9. \A g \in Ids : <<g, t>> \in unstopped' => server'[g][t].valid
    <3>1. <<eid[t], t>> \notin unstopped
      BY <1>1, <1>5, NotStuck, Zenon
    <3>2. \A g \in Ids : <<g, t>> \in unstopped => server[g][t].valid
      BY <1>1, Zenon DEF StuckInv
    <3> QED  BY <2>1, <2>4, <3>1, <3>2, Zenon
  <2>10. unstopped' \subseteq Ids \X Threads
    BY <1>1, <2>1, Zenon DEF TypeOK
  <2> QED  BY <1>2, <2>2, <2>4, <2>5, <2>6, <2>7, <2>8, <2>9, <2>10, ZenonT(30)
<1> QED  BY <1>1, <1>4, <1>5, StopCases, ZenonT(40)

\* The replies a stop has sent for request i.
Sent(d, end, i) == {j \in 1..end[1] : d.requests[j] = i}

\* What a stop with a directory makes of the futures; when it returns normally
\* no request that was added is left open.
LEMMA AnsweredServed ==
  ASSUME EnclaveInv, NEW t \in Threads, pc[t] = "process", eid[t] # Unread,
         NEW end \in StopOutcomes(t), NEW STATE a, a = Answered(t, end, "served")
  PROVE  /\ a = [i \in 1..Len(batch[t]) |-> a[i]]
         /\ \A i \in 1..Len(batch[t]) : a[i] \in {Open, Failed, Served(t, batch[t], i)}
         /\ end[2] = "ok" => \A i \in 1..Len(batch[t]) : a[i] # Open
<1> DEFINE d == server[eid[t]][t]
           b == batch[t]
           r == response[t]
<1>1. TypeOK /\ ThreadInv(t) /\ StuckInv(t) /\ pc[t] \in Serving
  BY Zenon DEF EnclaveInv, Serving
<1>2. /\ DOMAIN r = 1..Len(b)
      /\ \A i \in 1..Len(b) : r[i] \in {Open, Failed, Served(t, b, i)}
  BY <1>1, Zenon DEF ThreadInv, ResponsesOK
<1>3. a = [i \in 1..Len(b) |->
             IF r[i] = Open /\ Sent(d, end, i) # {}
             THEN ReplyTo(t, d, CHOOSE j \in Sent(d, end, i) : TRUE, "served") ELSE r[i]]
  BY <1>2, Zenon DEF Answered, Sent
<1>4. a = [i \in 1..Len(b) |-> a[i]]
  BY <1>3, Zenon
<1>5. CASE end[2] = "error" /\ end[1] = 0
  <2>1. \A i : Sent(d, end, i) = {}
    BY <1>5 DEF Sent
  <2>2. \A i \in 1..Len(b) : a[i] = r[i]
    BY <1>3, <2>1, Zenon
  <2>3. end[2] # "ok"
    BY <1>5, Zenon
  <2> QED  BY <1>2, <1>4, <2>2, <2>3, ZenonT(40)
<1>6. CASE /\ end[2] # "error" /\ end \in StopEnds(d)
           /\ eid[t] \in Ids /\ d \in Desc /\ d.valid
  <2>1. /\ end[1] \in 0..Len(d.requests)
        /\ end[2] = "ok" => end[1] = Len(d.requests)
    BY <1>6, StopSends, Zenon
  <2>2. DescOK(t, d, "process", b, next[t], r, tags[t])
    <3>1. <<eid[t], t>> \notin unstopped
      BY <1>1, <1>6, NotStuck, Zenon
    <3> QED  BY <1>1, <1>6, <3>1, Zenon DEF ThreadInv, ServerInv
  <2>3. /\ PhonesOK(t, d, b)
        /\ \A j \in 1..Len(d.requests) : d.requests[j] \in 1..(next[t] - 1)
        /\ \A i \in 1..(next[t] - 1) : r[i] = Open => \E j \in 1..Len(d.requests) : d.requests[j] = i
    BY <1>6, <2>2, Zenon DEF DescOK
  <2>4. /\ next[t] = Len(b) + 1 /\ Len(b) \in Nat
        /\ \A i \in 1..Len(b) : b[i].count \in Nat
    <3>1. Len(b) \in Nat /\ \A i \in 1..Len(b) : b[i].count \in Nat \ {0}
      BY <1>1, BatchElements, Zenon DEF TypeOK
    <3>2. next[t] = Len(b) + 1
      BY <1>1, Zenon DEF ThreadInv, BatchOK
    <3> QED  BY <3>1, <3>2, Zenon
  <2>5. (next[t] - 1) = Len(b)
    BY <2>4, SMTT(30)
  <2>6. Len(d.requests) \in Nat
    BY <1>6 DEF Desc
  <2>7. \A i : \A j \in Sent(d, end, i) : j \in 1..Len(d.requests) /\ d.requests[j] = i
    <3>1. \A j \in 1..end[1] : j \in 1..Len(d.requests)
      BY <2>1, <2>6
    <3> QED  BY <3>1, ZenonT(40) DEF Sent
  <2>8. ASSUME NEW i \in 1..Len(b), NEW j \in Sent(d, end, i)
        PROVE  ReplyTo(t, d, j, "served") = Served(t, b, i)
    <3>1. j \in 1..Len(d.requests) /\ d.requests[j] = i /\ b[d.requests[j]].count \in Nat
      BY <2>4, <2>7, Zenon
    <3>2. ReplyTo(t, d, j, "served") = Served(t, b, d.requests[j])
      BY <1>6, <2>3, <3>1, ReplyServed, ZenonT(40)
    <3> QED  BY <3>1, <3>2, ZenonT(40)
  <2>9. \A i \in 1..Len(b) : a[i] = IF r[i] = Open /\ Sent(d, end, i) # {}
                                    THEN Served(t, b, i) ELSE r[i]
    <3>1. \A i \in 1..Len(b) : Sent(d, end, i) # {} =>
            (CHOOSE j \in Sent(d, end, i) : TRUE) \in Sent(d, end, i)
      BY Zenon
    <3>2. \A i \in 1..Len(b) : Sent(d, end, i) # {} =>
            ReplyTo(t, d, CHOOSE j \in Sent(d, end, i) : TRUE, "served") = Served(t, b, i)
      BY <2>8, <3>1, Zenon
    <3> QED  BY <1>3, <3>2, ZenonT(40)
  <2>10. \A i \in 1..Len(b) : Served(t, b, i) # Open
    BY ResponseValues, Zenon
  <2>11. ASSUME end[2] = "ok", NEW i \in 1..Len(b)
         PROVE  a[i] # Open
    <3>1. CASE r[i] = Open
      <4>1. PICK j \in 1..Len(d.requests) : d.requests[j] = i
        BY <2>3, <2>5, <3>1, Zenon
      <4>2. Sent(d, end, i) # {}
        BY <2>1, <2>11, <4>1, Zenon DEF Sent
      <4> QED  BY <2>9, <2>10, <3>1, <4>2, ZenonT(40)
    <3>2. CASE r[i] # Open
      BY <2>9, <3>2, Zenon
    <3> QED  BY <3>1, <3>2, ZenonT(40)
  <2> QED  BY <1>2, <1>4, <2>9, <2>11, Zenon
<1> QED  BY <1>1, <1>5, <1>6, StopCases, ZenonT(40)

LEMMA processOK ==
  ASSUME EnclaveInv, NEW t \in Threads, process(t)
  PROVE  EnclaveInv'
<1>1. PICK end \in StopOutcomes(t) :
        /\ ServerStop(t, end)
        /\ ProcessReturns(t, Answered(t, end, "served"), end[2] = "ok")
  BY Zenon DEF process
<1>2. pc[t] = "process" /\ eid[t] # Unread /\ TypeOK
  BY Zenon DEF process, EnclaveInv
<1> DEFINE a == Answered(t, end, "served")
<1>3. /\ a = [i \in 1..Len(batch[t]) |-> a[i]]
      /\ \A i \in 1..Len(batch[t]) : a[i] \in {Open, Failed, Served(t, batch[t], i)}
      /\ end[2] = "ok" => \A i \in 1..Len(batch[t]) : a[i] # Open
  BY <1>2, AnsweredServed, Zenon
<1>4. ProcessReturns(t, a, end[2] = "ok")
  BY <1>1, Zenon
<1> HIDE DEF a
<1>5. /\ response' = [v \in Threads |-> response'[v]]
      /\ \A v \in Threads \ {t} : response'[v] = response[v]
      /\ ResponsesOK(t, "idle", batch[t], response'[t])
  <2>1. CASE end[2] = "ok"
    <3>1. response' = [response EXCEPT ![t] =
            [i \in DOMAIN a |-> IF i \in Added(t) /\ a[i] = Open THEN ReplyMissing ELSE a[i]]]
      BY <1>4, <2>1, Zenon DEF ProcessReturns
    <3>2. DOMAIN a = 1..Len(batch[t])
      BY <1>3, Zenon
    <3>3. [i \in DOMAIN a |-> IF i \in Added(t) /\ a[i] = Open THEN ReplyMissing ELSE a[i]] = a
      BY <1>3, <2>1, <3>2, Zenon
    <3>4. /\ response' = [v \in Threads |-> response'[v]]
          /\ \A v \in Threads \ {t} : response'[v] = response[v]
          /\ response'[t] = a
      BY <1>2, <3>1, <3>3, ZenonT(40) DEF TypeOK
    <3> QED  BY <1>3, <2>1, <3>4, ZenonT(40) DEF ResponsesOK
  <2>2. CASE end[2] # "ok"
    <3>1. CatchAll(t, a)
      BY <1>4, <2>2, Zenon DEF ProcessReturns
    <3> QED  BY <1>2, <1>3, <3>1, CatchOK, ZenonT(40)
  <2> QED  BY <2>1, <2>2, Zenon
<1>6. pc[t] \in Serving
  BY <1>2, Zenon DEF Serving
<1> QED  BY <1>1, <1>2, <1>5, <1>6, StopFrees, BatchEnds, ZenonT(40)

LEMMA CloseStopsOK ==
  ASSUME EnclaveInv, NEW t \in Threads, CloseStops(t)
  PROVE  EnclaveInv'
<1>1. PICK end \in StopOutcomes(t) :
        ServerStop(t, end) /\ CatchAll(t, Answered(t, end, "none"))
  BY Zenon DEF CloseStops
<1>2. /\ pc[t] = "close" /\ pc[t] \in Serving /\ eid[t] # Unread
      /\ TypeOK /\ ThreadInv(t) /\ StuckInv(t)
  BY Zenon DEF CloseStops, EnclaveInv, Serving
<1> DEFINE d == server[eid[t]][t]
           r == response[t]
<1>3. /\ r = [i \in 1..Len(batch[t]) |-> r[i]]
      /\ \A i \in 1..Len(batch[t]) : r[i] \in {Open, Failed, Served(t, batch[t], i)}
      /\ \A i \in 1..(next[t] - 1) : r[i] # Open
  BY <1>2, Zenon DEF ThreadInv, ResponsesOK, BatchOK
<1>4. \A i : r[i] = Open => Sent(d, end, i) = {}
  <2>1. CASE end[2] = "error" /\ end[1] = 0
    BY <2>1 DEF Sent
  <2>2. CASE /\ end[2] # "error" /\ end \in StopEnds(d)
             /\ eid[t] \in Ids /\ d \in Desc /\ d.valid
    <3>1. end[1] \in 0..Len(d.requests)
      BY <2>2, StopSends, ZenonT(40)
    <3>2. Len(d.requests) \in Nat
      BY <2>2 DEF Desc
    <3>3. \A j \in 1..end[1] : j \in 1..Len(d.requests)
      BY <3>1, <3>2
    <3>4. \A j \in 1..Len(d.requests) : d.requests[j] \in 1..(next[t] - 1)
      <4>1. <<eid[t], t>> \notin unstopped
        BY <1>2, <2>2, NotStuck, Zenon
      <4> QED  BY <1>2, <2>2, <4>1, Zenon DEF ThreadInv, ServerInv, DescOK
    <3> QED  BY <1>3, <3>3, <3>4, ZenonT(40) DEF Sent
  <2> QED  BY <1>2, <2>1, <2>2, StopCases, ZenonT(40)
<1>5. Answered(t, end, "none") = r
  <2>1. Answered(t, end, "none") =
          [i \in DOMAIN r |->
             IF r[i] = Open /\ Sent(d, end, i) # {}
             THEN ReplyTo(t, d, CHOOSE j \in Sent(d, end, i) : TRUE, "none") ELSE r[i]]
    BY Zenon DEF Answered, Sent
  <2>2. DOMAIN r = 1..Len(batch[t])
    BY <1>3, Zenon
  <2> HIDE DEF d, r
  <2>3. Answered(t, end, "none") = [i \in 1..Len(batch[t]) |-> r[i]]
    BY <1>4, <2>1, <2>2, ZenonT(40)
  <2> QED  BY <1>3, <2>3, Zenon
<1>6. CatchAll(t, r)
  BY <1>1, <1>5, Zenon
<1>7. /\ response' = [v \in Threads |-> response'[v]]
      /\ \A v \in Threads \ {t} : response'[v] = response[v]
      /\ ResponsesOK(t, "idle", batch[t], response'[t])
  BY <1>2, <1>3, <1>6, CatchOK, ZenonT(40)
<1> QED  BY <1>1, <1>2, <1>7, StopFrees, BatchEnds, ZenonT(30)

-----------------------------------------------------------------------------
(* Theorems.                                                               *)

LEMMA NextOK ==
  ASSUME EnclaveInv, [Next]_vars
  PROVE  EnclaveInv'
<1>1. CASE UNCHANGED vars
  <2>1. UNCHANGED <<pc, eid, threadVars>> /\ UNCHANGED <<lifeVars, instance, server, unstopped>>
    BY <1>1, Zenon DEF vars
  <2>2. TypeOK' /\ FreshInv'
    BY <2>1, Zenon DEF EnclaveInv, TypeOK, FreshInv, lifeVars, threadVars
  <2>3. server' = server /\ enclaveState' = enclaveState /\ unstopped' = unstopped
    BY <2>1, Zenon DEF lifeVars
  <2> QED  BY <2>1, <2>2, <2>3, LifeKeeps, ZenonT(40)
<1>2. CASE start \/ stop \/ Manager \/ \E g \in Ids : Lose(g)
  BY <1>2, LifeSteps, EnclaveStartFailsOK, EnclaveCreatedOK, runEnclaveOK, DestroyOK,
     ZenonT(40) DEF Manager
<1>3. ASSUME NEW t \in Threads, Thread(t)
      PROVE  EnclaveInv'
  BY <1>3, TakeBatchOK, getEnclaveStateOK, ServerStartOK, addOK, borrowOK, processOK,
     closeOK, CloseStopsOK, ZenonT(30) DEF Thread, Users
<1>4. ASSUME NEW c \in Callers, Caller(c)
      PROVE  EnclaveInv'
  BY <1>4, CallerOK, getEnclaveStateOK, Zenon DEF Caller, Users
<1> QED  BY <1>1, <1>2, <1>3, <1>4, ZenonT(40) DEF Next

LEMMA Invariance == Spec => []EnclaveInv
<1>1. Init => EnclaveInv
  BY InitOK, Zenon
<1>2. EnclaveInv /\ [Next]_vars => EnclaveInv'
  BY NextOK, Zenon
<1> QED  BY <1>1, <1>2, PTL DEF Spec

\* A batch that has ended has no open response, whatever happened to the enclave
\* and to the other threads meanwhile: processBatch answers everybody.
THEOREM AllAnsweredTheorem == Spec => []AllAnswered
<1>1. EnclaveInv => AllAnswered
  BY Zenon DEF EnclaveInv, ThreadInv, ResponsesOK, AllAnswered
<1> QED  BY <1>1, Invariance, PTL

\* A reply holds the results for the numbers of its own request, in their order,
\* from the directory being served (terminate cuts the results into replies).
THEOREM AnswersRightTheorem == Spec => []AnswersRight
<1>1. ASSUME EnclaveInv, NEW t \in Threads, NEW i \in DOMAIN response[t],
             Len(response[t][i]) = 3
      PROVE  response[t][i] = Reply([k \in 1..batch[t][i].count |-> <<<<t, i, k>>, "served">>])
  <2>1. ResponsesOK(t, pc[t], batch[t], response[t])
    BY <1>1, Zenon DEF EnclaveInv, ThreadInv
  <2>2. response[t][i] \in {Open, Failed, Served(t, batch[t], i)}
    BY <2>1, Zenon DEF ResponsesOK
  <2>3. response[t][i] # Open /\ response[t][i] # Failed
    BY <1>1, ResponseValues
  <2> QED  BY <2>2, <2>3, Zenon DEF Served
<1>2. EnclaveInv => AnswersRight
  BY <1>1, Zenon DEF AnswersRight
<1> QED  BY <1>2, Invariance, PTL

\* A sequence without repetitions is as long as the set of its elements.
LEMMA DistinctLength ==
  ASSUME NEW s \in Seq(Nat), \A j, k \in 1..Len(s) : s[j] = s[k] => j = k
  PROVE  Len(s) = Cardinality(Range(s))
<1>1. Len(s) \in Nat /\ DOMAIN s = 1..Len(s)
  OBVIOUS
<1>2. s \in Bijection(1..Len(s), Range(s))
  <2>1. s \in [1..Len(s) -> Range(s)]
    BY DEF Range
  <2> QED  BY <1>1, <2>1, ZenonT(40) DEF Bijection, Injection, Surjection, IsInjective, Range
<1>3. ExistsBijection(1..Len(s), Range(s))
  BY <1>2, Zenon DEF ExistsBijection
<1>4. IsFiniteSet(1..Len(s)) /\ Cardinality(1..Len(s)) = Len(s)
  BY <1>1, UpTo, Zenon
<1> QED  BY <1>3, <1>4, FS_Bijection, ZenonT(40)

\* However a batch went, its thread's handle is free in the enclave in use unless
\* the stop failed on the way to the server state, a batch never meets a state of
\* an earlier one, the enclave holds only allocated tags and each once, and a stop
\* that returned normally has answered every message (close, server_call, process).
THEOREM NothingLeftBehindTheorem == Spec => []NothingLeftBehind
<1>1. ASSUME EnclaveInv, NEW t \in Threads, enclaveState # Null
      PROVE  /\ enclaveState \in Ids
             /\ server[enclaveState][t] \in Desc
             /\ Stuck(t) => pc[t] \in {"idle", "start"}
             /\ ~Stuck(t) => DescOK(t, server[enclaveState][t], pc[t], batch[t], next[t], response[t], tags[t])
  <2>1. enclaveState \in Ids
    BY <1>1, BatchAssumption, SMTT(30) DEF EnclaveInv, TypeOK, Null, Ids
  <2> QED  BY <2>1, <1>1, ZenonT(40) DEF EnclaveInv, TypeOK, ThreadInv, ServerInv, StuckInv, Stuck
<1>2. EnclaveInv => HandleFree
  BY <1>1, Zenon DEF HandleFree, DescOK, Serving
<1>3. ASSUME EnclaveInv, NEW t \in Threads, enclaveState # Null, ~Stuck(t)
      PROVE  LET held == server[enclaveState][t].requests
             IN  Range(held) \subseteq tags[t] /\ Len(held) = Cardinality(Range(held))
  <2> DEFINE held == server[enclaveState][t].requests
  <2>1. held \in Seq(Nat)
    BY <1>1, <1>3, ZenonT(40) DEF Desc
  <2>2. /\ \A j \in 1..Len(held) : held[j] \in tags[t]
        /\ \A j, k \in 1..Len(held) : held[j] = held[k] => j = k
    BY <1>1, <1>3, Zenon DEF DescOK
  <2> HIDE DEF held
  <2>3. Len(held) = Cardinality(Range(held))
    BY <2>1, <2>2, DistinctLength, ZenonT(40)
  <2>4. Range(held) \subseteq tags[t]
    BY <2>1, <2>2 DEF Range
  <2> QED  BY <2>3, <2>4, ZenonT(40) DEF held
<1>4. EnclaveInv => HeldTagsAllocated
  BY <1>3, Zenon DEF HeldTagsAllocated
<1>5. EnclaveInv => NoReplyMissing
  <2> SUFFICES ASSUME EnclaveInv, NEW t \in Threads, NEW i \in DOMAIN response[t]
               PROVE  response[t][i] # ReplyMissing
    BY Zenon DEF NoReplyMissing
  <2>1. ResponsesOK(t, pc[t], batch[t], response[t])
    BY Zenon DEF EnclaveInv, ThreadInv
  <2>2. response[t][i] \in {Open, Failed, Served(t, batch[t], i)}
    BY <2>1, Zenon DEF ResponsesOK
  <2>3. ReplyMissing \notin {Open, Failed, Served(t, batch[t], i)}
    BY ResponseValues, Zenon
  <2> QED  BY <2>2, <2>3, Zenon
<1>6. EnclaveInv => NothingLeftBehind
  BY <1>2, <1>4, <1>5, Zenon DEF NothingLeftBehind
<1> QED  BY <1>6, Invariance, PTL
=============================================================================
