------------------------ MODULE PendingRequestsProofs ------------------------
(***************************************************************************)
(* Proofs about module PendingRequests, for any number of clients,         *)
(* enclaves and workers and any sizes, bounds and rates: what the queues   *)
(* and the batches hold, that the address counts and the four counters of  *)
(* RequestManager are exact, and that a queue is first in, first out.      *)
(***************************************************************************)
EXTENDS PendingRequests, FiniteSetTheorems, TLAPS

\* What a request in a queue is: addressed to the queue's enclave, submitted,
\* and not completed.
QueuedIsPending ==
  \A e \in Enclaves : \A i \in DOMAIN queue[e] :
    /\ Target[queue[e][i]] = e
    /\ future[queue[e][i]] = "pending"
    /\ pc[queue[e][i]] \in Outstanding

\* What a request in a batch is: submitted and not yet delivered.
BatchedIsOutstanding ==
  \A w \in Workers : \A i \in DOMAIN batch[w] :
    /\ pc[batch[w][i]] \in Outstanding
    /\ future[batch[w][i]] # "none"

\* A worker that asks for work holds none.
IdleHoldsNothing ==
  \A w \in Workers : worker[w] \in {"get", "waiting"} =>
    batch[w] = <<>> /\ resultAddressCount[w] = 0

USE DEF NoGet, NoEnclave, Outstanding, Done

\* Sizes and targets of requests are what the assumptions say.
LEMMA RequestFacts ==
  ASSUME NEW r \in Requests
  PROVE  AddressCount[r] \in Nat \ {0} /\ Target[r] \in Enclaves
  BY RequestAssumption, Zenon

\* The completion callback keeps the counters integers.
LEMMA OnCompleteType ==
  ASSUME NEW r \in Requests, CounterTypeOK, OnComplete(r)
  PROVE  CounterTypeOK'
<1>1. CASE UncountRequest(r)
  <2>1. pendingRequests' \in Int /\ pendingPhoneNumbers' \in Int
    BY <1>1, RequestFacts DEF UncountRequest, CounterTypeOK
  <2>2. perEnclavePendingRequests' \in [Enclaves -> Int]
    BY <1>1, RequestFacts DEF UncountRequest, CounterTypeOK
  <2>3. perEnclavePendingPhoneNumbers' \in [Enclaves -> Int]
    BY <1>1, RequestFacts DEF UncountRequest, CounterTypeOK
  <2> QED
    BY <2>1, <2>2, <2>3, Zenon DEF CounterTypeOK
<1>2. CASE UNCHANGED counterVars
  BY <1>2, Zenon DEF CounterTypeOK, counterVars
<1> QED
  BY <1>1, <1>2, Zenon DEF OnComplete

\* Taking the first request of a queue keeps the types of queue and batch.
LEMMA RemoveFirstType ==
  ASSUME NEW w \in Workers, NEW e \in Enclaves, TypeOK,
         queue[e] # <<>>, removeFirst(w, e)
  PROVE  /\ Head(queue[e]) \in Requests
         /\ queue' \in [Enclaves -> Seq(Requests)]
         /\ addressCount' \in [Enclaves -> Int]
         /\ batch' \in [Workers -> Seq(Requests)]
         /\ resultAddressCount' \in [Workers -> Nat]
<1>1. Head(queue[e]) \in Requests /\ Tail(queue[e]) \in Seq(Requests)
  BY DEF TypeOK, QueueTypeOK
<1>2. AddressCount[Head(queue[e])] \in Nat \ {0}
  BY <1>1, RequestFacts, Zenon
<1>3. queue' \in [Enclaves -> Seq(Requests)]
  BY <1>1, Zenon DEF removeFirst, TypeOK, QueueTypeOK
<1>4. addressCount' \in [Enclaves -> Int]
  BY <1>2 DEF removeFirst, TypeOK, QueueTypeOK
<1>5. batch' \in [Workers -> Seq(Requests)]
  BY <1>1 DEF removeFirst, TypeOK, WorkerTypeOK
<1>6. resultAddressCount' \in [Workers -> Nat]
  BY <1>2 DEF removeFirst, TypeOK, WorkerTypeOK
<1> QED
  BY <1>1, <1>3, <1>4, <1>5, <1>6, Zenon

\* get() chooses one of the configured queues.
LEMMA ChoosableIsEnclave == Choosable \subseteq Enclaves
  BY Zenon DEF Choosable, oldestQueue, batchSizeReadyQueue, largestQueue, Overdue, NonEmpty

LEMMA TypeInit == Init => TypeOK
  BY BoundAssumption DEF Init, TypeOK, ClientTypeOK, QueueTypeOK, WorkerTypeOK,
     FlusherTypeOK, CounterTypeOK

LEMMA TypeNext == TypeOK /\ [Next]_vars => TypeOK'
<1> SUFFICES ASSUME TypeOK, [Next]_vars PROVE TypeOK'
  BY Zenon
<1> DEFINE SourceOK == \A w \in Workers : worker[w] = "taking" => source[w] \in Enclaves
<1>1. ASSUME NEW r \in Requests, Client(r) PROVE TypeOK'
  <2>1. CASE Shed(r)
    BY <2>1, Zenon DEF Shed, TypeOK, ClientTypeOK, QueueTypeOK, WorkerTypeOK,
       FlusherTypeOK, CounterTypeOK, queueVars, workerVars, flushVars, counterVars
  <2>2. CASE Admit(r)
    BY <2>2, Zenon DEF Admit, TypeOK, ClientTypeOK, QueueTypeOK, WorkerTypeOK,
       FlusherTypeOK, CounterTypeOK, queueVars, workerVars, flushVars, counterVars
  <2>3. CASE Count(r)
    <3>1. CounterTypeOK'
      BY <2>3, RequestFacts DEF Count, TypeOK, CounterTypeOK
    <3> QED
      BY <2>3, <3>1, Zenon DEF Count, TypeOK, ClientTypeOK, QueueTypeOK, WorkerTypeOK,
         FlusherTypeOK, queueVars, workerVars, flushVars
  <2>4. CASE Put(r)
    <3>1. QueueTypeOK'
      <4>1. queue' \in [Enclaves -> Seq(Requests)]
        BY <2>4, RequestFacts DEF Put, TypeOK, QueueTypeOK
      <4>2. addressCount' \in [Enclaves -> Int]
        BY <2>4, RequestFacts DEF Put, TypeOK, QueueTypeOK
      <4>3. age' \in [Enclaves -> {NoGet} \cup 0 .. MaxAge]
        <5>1. age \in [Enclaves -> {NoGet} \cup 0 .. MaxAge] /\ 0 \in 0 .. MaxAge
          BY BoundAssumption DEF TypeOK, QueueTypeOK
        <5>2. age' = [age EXCEPT ![Target[r]] = IF @ = NoGet THEN 0 ELSE @]
          BY <2>4, Zenon DEF Put
        <5> QED
          BY <5>1, <5>2, Zenon
      <4> QED
        BY <4>1, <4>2, <4>3, Zenon DEF QueueTypeOK
    <3>2. WorkerTypeOK' /\ SourceOK'
      BY <2>4, Zenon DEF Put, notifyAll, TypeOK, WorkerTypeOK
    <3> QED
      BY <2>4, <3>1, <3>2, Zenon DEF Put, TypeOK, ClientTypeOK, FlusherTypeOK, CounterTypeOK,
         flushVars, counterVars
  <2>5. CASE Register(r)
    <3>1. CounterTypeOK'
      <4>1. CASE UncountRequest(r)
        BY <4>1, RequestFacts DEF UncountRequest, TypeOK, CounterTypeOK
      <4>2. CASE UNCHANGED counterVars
        BY <4>2, Zenon DEF TypeOK, CounterTypeOK, counterVars
      <4> QED
        BY <2>5, <4>1, <4>2, Zenon DEF Register
    <3> QED
      BY <2>5, <3>1, Zenon DEF Register, TypeOK, ClientTypeOK, QueueTypeOK, WorkerTypeOK,
         FlusherTypeOK, queueVars, workerVars, flushVars
  <2>6. CASE Deliver(r)
    BY <2>6, Zenon DEF Deliver, TypeOK, ClientTypeOK, QueueTypeOK, WorkerTypeOK,
       FlusherTypeOK, CounterTypeOK, queueVars, workerVars, flushVars, counterVars
  <2> QED
    BY <1>1, <2>1, <2>2, <2>3, <2>4, <2>5, <2>6, Zenon DEF Client
<1>2. ASSUME NEW w \in Workers, Thread(w) PROVE TypeOK'
  <2>1. CASE Get(w)
    <3>1. PICK e \in Choosable : /\ queue[e] # <<>>
                                 /\ removeFirst(w, e)
                                 /\ source' = [source EXCEPT ![w] = e]
      BY <2>1, Zenon DEF Get
    <3>2. e \in Enclaves
      BY <3>1, ChoosableIsEnclave, Zenon
    <3>3. QueueTypeOK'
      BY <2>1, <3>1, <3>2, RemoveFirstType, Zenon DEF Get, TypeOK, QueueTypeOK
    <3>4. WorkerTypeOK' /\ SourceOK'
      BY <2>1, <3>1, <3>2, RemoveFirstType, Zenon DEF Get, TypeOK, WorkerTypeOK
    <3> QED
      BY <2>1, <3>3, <3>4, Zenon DEF Get, TypeOK, ClientTypeOK, FlusherTypeOK, CounterTypeOK,
         flushVars, counterVars
  <2>2. CASE Wait(w)
    BY <2>2, Zenon DEF Wait, TypeOK, ClientTypeOK, QueueTypeOK, WorkerTypeOK,
       FlusherTypeOK, CounterTypeOK, queueVars, flushVars, counterVars
  <2>3. CASE TakeNext(w)
    <3>1. source[w] \in Enclaves /\ queue[source[w]] # <<>> /\ removeFirst(w, source[w])
      BY <2>3, Zenon DEF TakeNext, NextFits, TypeOK
    <3>2. QueueTypeOK' /\ WorkerTypeOK' /\ SourceOK'
      BY <2>3, <3>1, RemoveFirstType, Zenon DEF TakeNext, TypeOK, QueueTypeOK, WorkerTypeOK
    <3> QED
      BY <2>3, <3>2, Zenon DEF TakeNext, TypeOK, ClientTypeOK, FlusherTypeOK, CounterTypeOK,
         flushVars, counterVars
  <2>4. CASE GetReturns(w)
    <3>1. QueueTypeOK' /\ WorkerTypeOK' /\ SourceOK'
      BY <2>4, BoundAssumption, SMTT(30) DEF GetReturns, TypeOK, QueueTypeOK, WorkerTypeOK
    <3> QED
      BY <2>4, <3>1, Zenon DEF GetReturns, TypeOK, ClientTypeOK, FlusherTypeOK, CounterTypeOK,
         flushVars, counterVars
  <2>5. CASE Answer(w)
    <3>1. PICK i \in 1 .. Len(batch[w]), outcome \in {"replied", "failed"} :
            /\ future' = [future EXCEPT ![batch[w][i]] = outcome]
            /\ OnComplete(batch[w][i])
      BY <2>5, Zenon DEF Answer
    <3>2. batch[w][i] \in Requests
      BY <3>1 DEF TypeOK, WorkerTypeOK
    <3>3. CounterTypeOK'
      BY <3>1, <3>2, OnCompleteType, Zenon DEF TypeOK
    <3> QED
      BY <2>5, <3>1, <3>2, <3>3, Zenon DEF Answer, TypeOK, ClientTypeOK, QueueTypeOK,
         WorkerTypeOK, FlusherTypeOK, queueVars, workerVars, flushVars
  <2>6. CASE BatchReturns(w)
    BY <2>6 DEF BatchReturns, TypeOK, ClientTypeOK, QueueTypeOK, WorkerTypeOK,
       FlusherTypeOK, CounterTypeOK, queueVars, flushVars, counterVars
  <2>7. CASE BatchThrows(w)
    BY <2>7, Zenon DEF BatchThrows, TypeOK, ClientTypeOK, QueueTypeOK, WorkerTypeOK,
       FlusherTypeOK, CounterTypeOK, queueVars, flushVars, counterVars
  <2> QED
    BY <1>2, <2>1, <2>2, <2>3, <2>4, <2>5, <2>6, <2>7, Zenon DEF Thread
<1>3. ASSUME Flusher PROVE TypeOK'
  <2>1. CASE FlushPendingQueues
    BY <2>1, Zenon DEF FlushPendingQueues, TypeOK, ClientTypeOK, QueueTypeOK, WorkerTypeOK,
       FlusherTypeOK, CounterTypeOK, queueVars, workerVars, counterVars
  <2>2. ASSUME NEW e \in Enclaves, FlushRequest(e) PROVE TypeOK'
    <3>1. Head(queue[e]) \in Requests /\ Tail(queue[e]) \in Seq(Requests)
      BY <2>2 DEF FlushRequest, TypeOK, QueueTypeOK
    <3>2. CounterTypeOK'
      BY <2>2, <3>1, OnCompleteType, Zenon DEF FlushRequest, TypeOK
    <3>3. QueueTypeOK'
      BY <2>2, <3>1, Zenon DEF FlushRequest, TypeOK, QueueTypeOK
    <3> QED
      BY <2>2, <3>1, <3>2, <3>3 DEF FlushRequest, TypeOK, ClientTypeOK, WorkerTypeOK,
         FlusherTypeOK, workerVars
  <2>3. ASSUME NEW e \in Enclaves, FlushQueue(e) PROVE TypeOK'
    <3>1. QueueTypeOK'
      BY <2>3 DEF FlushQueue, TypeOK, QueueTypeOK
    <3>2. FlusherTypeOK'
      BY <2>3 DEF FlushQueue, TypeOK, QueueTypeOK, FlusherTypeOK
    <3> QED
      BY <2>3, <3>1, <3>2, Zenon DEF FlushQueue, TypeOK, ClientTypeOK, WorkerTypeOK,
         CounterTypeOK, workerVars, counterVars
  <2>4. CASE FlushTaskOutput
    BY <2>4 DEF FlushTaskOutput, TypeOK, ClientTypeOK, QueueTypeOK, WorkerTypeOK,
       FlusherTypeOK, CounterTypeOK, queueVars, workerVars, counterVars
  <2> QED
    BY <1>3, <2>1, <2>2, <2>3, <2>4, Zenon DEF Flusher
<1>4. CASE Tick
  <2>1. age' \in [Enclaves -> {NoGet} \cup 0 .. MaxAge]
    <3>1. age \in [Enclaves -> {NoGet} \cup 0 .. MaxAge]
      BY Zenon DEF TypeOK, QueueTypeOK
    <3> QED
      BY <1>4, <3>1, BoundAssumption, SMTT(30) DEF Tick
  <2> QED
    BY <1>4, <2>1, Zenon DEF Tick, TypeOK, ClientTypeOK, QueueTypeOK, WorkerTypeOK,
       FlusherTypeOK, CounterTypeOK, workerVars, flushVars, counterVars
<1>5. CASE UNCHANGED vars
  BY <1>5, Zenon DEF vars, TypeOK, ClientTypeOK, QueueTypeOK, WorkerTypeOK,
     FlusherTypeOK, CounterTypeOK, queueVars, workerVars, flushVars, counterVars
<1> QED
  BY <1>1, <1>2, <1>3, <1>4, <1>5, Zenon DEF Next

\* Type correctness of the request path.
THEOREM TypeCorrect == Spec => []TypeOK
  BY TypeInit, TypeNext, PTL DEF Spec

-----------------------------------------------------------------------------
\* Sequences: what Tail and Append leave where.
LEMMA TailFacts ==
  ASSUME NEW S, NEW s \in Seq(S), s # <<>>
  PROVE  /\ DOMAIN s = 1 .. Len(s) /\ Len(s) \in Nat /\ 1 \in DOMAIN s
         /\ Head(s) = s[1]
         /\ Tail(s) \in Seq(S)
         /\ DOMAIN Tail(s) = 1 .. (Len(s) - 1)
         /\ \A i \in DOMAIN Tail(s) : i + 1 \in DOMAIN s /\ Tail(s)[i] = s[i + 1]
         /\ \A i \in DOMAIN s : i = 1 \/ (i - 1 \in DOMAIN Tail(s) /\ Tail(s)[i - 1] = s[i])
  OBVIOUS

LEMMA AppendFacts ==
  ASSUME NEW S, NEW s \in Seq(S), NEW x \in S
  PROVE  /\ DOMAIN s = 1 .. Len(s) /\ Len(s) \in Nat
         /\ Append(s, x) \in Seq(S)
         /\ DOMAIN Append(s, x) = 1 .. (Len(s) + 1)
         /\ Append(s, x)[Len(s) + 1] = x
         /\ \A i \in DOMAIN s : i \in DOMAIN Append(s, x) /\ Append(s, x)[i] = s[i]
         /\ \A i \in DOMAIN Append(s, x) : i = Len(s) + 1 \/ i \in DOMAIN s
  OBVIOUS

Placement == QueuedIsPending /\ BatchedIsOutstanding /\ HeldOnce /\ PendingIsHeld

\* Moving the first request of a queue to the end of a batch loses nothing and
\* duplicates nothing.
LEMMA MoveKeepsPlacement ==
  ASSUME NEW w \in Workers, NEW e \in Enclaves, TypeOK, Placement,
         queue[e] # <<>>, removeFirst(w, e), UNCHANGED <<pc, future>>
  PROVE  Placement'
<1> DEFINE r == Head(queue[e])
<1>1. queue \in [Enclaves -> Seq(Requests)] /\ batch \in [Workers -> Seq(Requests)]
  BY Zenon DEF TypeOK, QueueTypeOK, WorkerTypeOK
<1>2. r \in Requests /\ r = queue[e][1] /\ 1 \in DOMAIN queue[e]
  BY <1>1, TailFacts
<1>3. /\ queue' = [queue EXCEPT ![e] = Tail(queue[e])]
      /\ batch' = [batch EXCEPT ![w] = Append(batch[w], r)]
  BY Zenon DEF removeFirst
<1> HIDE DEF r
<1>4. \A f \in Enclaves : \A i \in DOMAIN queue'[f] :
        \E j \in DOMAIN queue[f] : /\ queue'[f][i] = queue[f][j]
                                   /\ j = IF f = e THEN i + 1 ELSE i
  BY <1>1, <1>3, TailFacts
<1>5. \A v \in Workers : \A i \in DOMAIN batch'[v] :
        \/ i \in DOMAIN batch[v] /\ batch'[v][i] = batch[v][i]
        \/ v = w /\ i = Len(batch[w]) + 1 /\ batch'[v][i] = r
  BY <1>1, <1>2, <1>3, AppendFacts
<1>6. QueuedIsPending'
  BY <1>4 DEF QueuedIsPending, Placement
<1>7. BatchedIsOutstanding'
  BY <1>2, <1>5 DEF BatchedIsOutstanding, QueuedIsPending, Placement
<1>8. \A f \in Enclaves : \A i \in DOMAIN queue'[f] : queue'[f][i] # r
  BY <1>2, <1>4, <1>1, <1>3, TailFacts DEF HeldOnce, Placement
<1>9. \A f \in Enclaves : queue'[f] \in Seq(Requests)
  BY <1>1, <1>3, TailFacts, Zenon
<1>10. HeldOnce'
  <2>1. ASSUME NEW f \in Enclaves, NEW g \in Enclaves,
               NEW i \in DOMAIN queue'[f], NEW j \in DOMAIN queue'[g],
               queue'[f][i] = queue'[g][j]
        PROVE  f = g /\ i = j
    <3> DEFINE k == IF f = e THEN i + 1 ELSE i
               l == IF g = e THEN j + 1 ELSE j
    <3>1. k \in DOMAIN queue[f] /\ queue'[f][i] = queue[f][k]
      BY <1>4, ZenonT(30)
    <3>2. l \in DOMAIN queue[g] /\ queue'[g][j] = queue[g][l]
      BY <1>4, ZenonT(30)
    <3>3. i \in Int /\ j \in Int
      BY <1>9
    <3> HIDE DEF k, l
    <3>4. queue[f][k] = queue[g][l]
      BY <2>1, <3>1, <3>2, Zenon
    <3>5. f = g /\ k = l
      BY <3>1, <3>2, <3>4 DEF HeldOnce, Placement
    <3> QED
      BY <3>3, <3>5 DEF k, l
  <2>2. ASSUME NEW u \in Workers, NEW v \in Workers,
               NEW i \in DOMAIN batch'[u], NEW j \in DOMAIN batch'[v],
               batch'[u][i] = batch'[v][j]
        PROVE  u = v /\ i = j
    BY <1>2, <1>5, <2>2, SMTT(30) DEF HeldOnce, Placement
  <2>3. ASSUME NEW f \in Enclaves, NEW v \in Workers,
               NEW i \in DOMAIN queue'[f], NEW j \in DOMAIN batch'[v]
        PROVE  queue'[f][i] # batch'[v][j]
    BY <1>4, <1>5, <1>8 DEF HeldOnce, Placement
  <2> QED
    BY <2>1, <2>2, <2>3, Zenon DEF HeldOnce
<1>11. PendingIsHeld'
  <2> SUFFICES ASSUME NEW q \in Requests, future'[q] = "pending"
      PROVE \/ \E i \in DOMAIN queue'[Target[q]] : queue'[Target[q]][i] = q
            \/ \E v \in Workers : \E i \in DOMAIN batch'[v] : batch'[v][i] = q
    BY Zenon DEF PendingIsHeld
  <2>1. CASE q = r
    <3>1. Len(batch[w]) + 1 \in DOMAIN batch'[w] /\ batch'[w][Len(batch[w]) + 1] = r
      BY <1>1, <1>2, <1>3, AppendFacts
    <3> QED
      BY <2>1, <3>1, Zenon
  <2>2. CASE q # r
    <3>1. CASE \E i \in DOMAIN queue[Target[q]] : queue[Target[q]][i] = q
      <4>1. PICK i \in DOMAIN queue[Target[q]] : queue[Target[q]][i] = q
        BY <3>1, Zenon
      <4>2. Target[q] \in Enclaves
        BY RequestFacts, Zenon
      <4>3. CASE Target[q] = e
        <5>1. i # 1
          BY <1>2, <2>2, <4>1, <4>3, Zenon
        <5>2. i - 1 \in DOMAIN Tail(queue[e]) /\ Tail(queue[e])[i - 1] = q
          BY <1>1, <4>1, <4>3, <5>1, TailFacts
        <5> QED
          BY <1>1, <1>3, <4>3, <5>2, Zenon
      <4>4. CASE Target[q] # e
        BY <1>1, <1>3, <4>1, <4>2, <4>4, Zenon
      <4> QED
        BY <4>3, <4>4, Zenon
    <3>2. CASE \E v \in Workers : \E i \in DOMAIN batch[v] : batch[v][i] = q
      <4>1. PICK v \in Workers : \E i \in DOMAIN batch[v] : batch[v][i] = q
        BY <3>2, Zenon
      <4>2. PICK i \in DOMAIN batch[v] : batch[v][i] = q
        BY <4>1, Zenon
      <4>3. i \in DOMAIN batch'[v] /\ batch'[v][i] = q
        BY <1>1, <1>2, <1>3, <4>2, AppendFacts
      <4> QED
        BY <4>3, Zenon
    <3> QED
      BY <3>1, <3>2, Zenon DEF PendingIsHeld, Placement
  <2> QED
    BY <2>1, <2>2, Zenon
<1> QED
  BY <1>6, <1>7, <1>10, <1>11, Zenon DEF Placement

\* A request that is put is new to every queue and every batch.
LEMMA PutKeepsPlacement ==
  ASSUME NEW r \in Requests, TypeOK, Placement, Put(r)
  PROVE  Placement'
<1> DEFINE e == Target[r]
<1>1. queue \in [Enclaves -> Seq(Requests)] /\ batch \in [Workers -> Seq(Requests)]
  BY Zenon DEF TypeOK, QueueTypeOK, WorkerTypeOK
<1>2. /\ pc \in [Requests -> {"idle", "shed", "admitted", "counted"} \cup Outstanding]
      /\ future \in [Requests -> {"none", "pending"} \cup Done]
  BY Zenon DEF TypeOK, ClientTypeOK
<1>3. e \in Enclaves
  BY RequestFacts, Zenon
<1>4. /\ queue' = [queue EXCEPT ![e] = Append(queue[e], r)]
      /\ batch' = batch
      /\ pc' = [pc EXCEPT ![r] = "put"]
      /\ future' = [future EXCEPT ![r] = "pending"]
      /\ pc[r] = "counted"
  BY Zenon DEF Put
<1> HIDE DEF e
<1>5. \A f \in Enclaves : \A i \in DOMAIN queue[f] :
        queue[f][i] # r /\ queue[f][i] \in Requests
  BY <1>1, <1>4, SMTT(30) DEF QueuedIsPending, Placement
<1>6. \A v \in Workers : \A i \in DOMAIN batch[v] :
        batch[v][i] # r /\ batch[v][i] \in Requests
  BY <1>1, <1>4 DEF BatchedIsOutstanding, Placement
<1>7. \A f \in Enclaves : \A i \in DOMAIN queue'[f] :
        \/ i \in DOMAIN queue[f] /\ queue'[f][i] = queue[f][i]
        \/ f = e /\ i = Len(queue[e]) + 1 /\ queue'[f][i] = r
  BY <1>1, <1>3, <1>4, AppendFacts
<1>8. QueuedIsPending'
  <2> SUFFICES ASSUME NEW f \in Enclaves, NEW i \in DOMAIN queue'[f]
      PROVE  /\ Target[queue'[f][i]] = f
             /\ future'[queue'[f][i]] = "pending"
             /\ pc'[queue'[f][i]] \in Outstanding
    BY Zenon DEF QueuedIsPending
  <2>1. CASE i \in DOMAIN queue[f] /\ queue'[f][i] = queue[f][i]
    <3>1. /\ Target[queue[f][i]] = f /\ future[queue[f][i]] = "pending"
          /\ pc[queue[f][i]] \in Outstanding
      BY <2>1, Zenon DEF QueuedIsPending, Placement
    <3> QED
      BY <1>2, <1>4, <1>5, <2>1, <3>1, Zenon
  <2>2. CASE f = e /\ queue'[f][i] = r
    BY <1>2, <1>4, <2>2, Zenon DEF e
  <2> QED
    BY <1>7, <2>1, <2>2, Zenon
<1>9. BatchedIsOutstanding'
  BY <1>2, <1>4, <1>6, Zenon DEF BatchedIsOutstanding, Placement
<1>10. HeldOnce'
  BY <1>4, <1>5, <1>6, <1>7 DEF HeldOnce, Placement
<1>11. PendingIsHeld'
  <2> SUFFICES ASSUME NEW q \in Requests, future'[q] = "pending"
      PROVE \/ \E i \in DOMAIN queue'[Target[q]] : queue'[Target[q]][i] = q
            \/ \E v \in Workers : \E i \in DOMAIN batch'[v] : batch'[v][i] = q
    BY Zenon DEF PendingIsHeld
  <2>1. CASE q = r
    <3>1. Len(queue[e]) + 1 \in DOMAIN queue'[e] /\ queue'[e][Len(queue[e]) + 1] = r
      BY <1>1, <1>3, <1>4, AppendFacts
    <3> QED
      BY <2>1, <3>1, Zenon DEF e
  <2>2. CASE q # r
    <3>1. \A f \in Enclaves : \A i \in DOMAIN queue[f] :
            i \in DOMAIN queue'[f] /\ queue'[f][i] = queue[f][i]
      BY <1>1, <1>3, <1>4, AppendFacts
    <3>2. future[q] = "pending" /\ Target[q] \in Enclaves
      BY <1>2, <1>4, <2>2, RequestFacts, Zenon
    <3> QED
      BY <1>4, <3>1, <3>2 DEF PendingIsHeld, Placement
  <2> QED
    BY <2>1, <2>2, Zenon
<1> QED
  BY <1>8, <1>9, <1>10, <1>11, Zenon DEF Placement

\* A flush completes the request it takes out of the queue.
LEMMA FlushKeepsPlacement ==
  ASSUME NEW e \in Enclaves, TypeOK, Placement, FlushRequest(e)
  PROVE  Placement'
<1> DEFINE r == Head(queue[e])
<1>1. queue \in [Enclaves -> Seq(Requests)] /\ batch \in [Workers -> Seq(Requests)]
  BY Zenon DEF TypeOK, QueueTypeOK, WorkerTypeOK
<1>2. future \in [Requests -> {"none", "pending"} \cup Done]
  BY Zenon DEF TypeOK, ClientTypeOK
<1>3. /\ queue' = [queue EXCEPT ![e] = Tail(queue[e])]
      /\ future' = [future EXCEPT ![r] = "flushed"]
      /\ batch' = batch /\ pc' = pc
      /\ queue[e] # <<>>
  BY Zenon DEF FlushRequest, workerVars
<1>4. r \in Requests /\ r = queue[e][1] /\ 1 \in DOMAIN queue[e]
  BY <1>1, <1>3, TailFacts
<1> HIDE DEF r
<1>5. \A f \in Enclaves : \A i \in DOMAIN queue'[f] :
        \E j \in DOMAIN queue[f] : /\ queue'[f][i] = queue[f][j]
                                   /\ j = IF f = e THEN i + 1 ELSE i
  BY <1>1, <1>3, TailFacts
<1>6. \A f \in Enclaves : queue'[f] \in Seq(Requests)
  BY <1>1, <1>3, TailFacts, Zenon
<1>7. \A f \in Enclaves : \A i \in DOMAIN queue'[f] :
        queue'[f][i] # r /\ queue'[f][i] \in Requests
  BY <1>1, <1>3, <1>4, <1>5, <1>6, TailFacts, SMTT(30) DEF HeldOnce, Placement
<1>8. QueuedIsPending'
  BY <1>2, <1>3, <1>5, <1>7, SMTT(30) DEF QueuedIsPending, Placement
<1>9. BatchedIsOutstanding'
  BY <1>1, <1>2, <1>3, SMTT(30) DEF BatchedIsOutstanding, Placement
<1>10. HeldOnce'
  <2>1. ASSUME NEW f \in Enclaves, NEW g \in Enclaves,
               NEW i \in DOMAIN queue'[f], NEW j \in DOMAIN queue'[g],
               queue'[f][i] = queue'[g][j]
        PROVE  f = g /\ i = j
    <3> DEFINE k == IF f = e THEN i + 1 ELSE i
               l == IF g = e THEN j + 1 ELSE j
    <3>1. k \in DOMAIN queue[f] /\ queue'[f][i] = queue[f][k]
      BY <1>5, ZenonT(30)
    <3>2. l \in DOMAIN queue[g] /\ queue'[g][j] = queue[g][l]
      BY <1>5, ZenonT(30)
    <3>3. i \in Int /\ j \in Int
      BY <1>6
    <3> HIDE DEF k, l
    <3>4. queue[f][k] = queue[g][l]
      BY <2>1, <3>1, <3>2, Zenon
    <3>5. f = g /\ k = l
      BY <3>1, <3>2, <3>4 DEF HeldOnce, Placement
    <3> QED
      BY <3>3, <3>5 DEF k, l
  <2>2. ASSUME NEW f \in Enclaves, NEW v \in Workers,
               NEW i \in DOMAIN queue'[f], NEW j \in DOMAIN batch'[v]
        PROVE  queue'[f][i] # batch'[v][j]
    BY <1>3, <1>5 DEF HeldOnce, Placement
  <2> QED
    BY <1>3, <2>1, <2>2 DEF HeldOnce, Placement
<1>11. PendingIsHeld'
  <2> SUFFICES ASSUME NEW q \in Requests, future'[q] = "pending"
      PROVE \/ \E i \in DOMAIN queue'[Target[q]] : queue'[Target[q]][i] = q
            \/ \E v \in Workers : \E i \in DOMAIN batch'[v] : batch'[v][i] = q
    BY Zenon DEF PendingIsHeld
  <2>1. q # r /\ future[q] = "pending"
    BY <1>2, <1>3, <1>4, Zenon
  <2>2. CASE \E i \in DOMAIN queue[Target[q]] : queue[Target[q]][i] = q
    <3>1. PICK i \in DOMAIN queue[Target[q]] : queue[Target[q]][i] = q
      BY <2>2, Zenon
    <3>2. Target[q] \in Enclaves
      BY RequestFacts, Zenon
    <3>3. CASE Target[q] = e
      <4>1. i - 1 \in DOMAIN Tail(queue[e]) /\ Tail(queue[e])[i - 1] = q
        BY <1>1, <1>3, <1>4, <2>1, <3>1, <3>3, TailFacts, Zenon
      <4> QED
        BY <1>1, <1>3, <3>3, <4>1, Zenon
    <3>4. CASE Target[q] # e
      BY <1>1, <1>3, <3>1, <3>2, <3>4, Zenon
    <3> QED
      BY <3>3, <3>4, Zenon
  <2> QED
    BY <1>3, <2>1, <2>2, Zenon DEF PendingIsHeld, Placement
<1> QED
  BY <1>8, <1>9, <1>10, <1>11, Zenon DEF Placement

\* A step that moves no request keeps every place unique.
LEMMA UnmovedHeldOnce ==
  ASSUME HeldOnce, queue' = queue, batch' = batch
  PROVE  HeldOnce'
<1>1. \A e, f \in Enclaves : \A i \in DOMAIN queue'[e], j \in DOMAIN queue'[f] :
        queue'[e][i] = queue'[f][j] => e = f /\ i = j
  BY DEF HeldOnce
<1>2. \A v, w \in Workers : \A i \in DOMAIN batch'[v], j \in DOMAIN batch'[w] :
        batch'[v][i] = batch'[w][j] => v = w /\ i = j
  BY DEF HeldOnce
<1>3. \A e \in Enclaves, w \in Workers :
        \A i \in DOMAIN queue'[e], j \in DOMAIN batch'[w] : queue'[e][i] # batch'[w][j]
  BY DEF HeldOnce
<1> QED
  BY <1>1, <1>2, <1>3, Zenon DEF HeldOnce

\* Completing a future moves no request.
LEMMA AnswerKeepsPlacement ==
  ASSUME NEW w \in Workers, TypeOK, Placement, Answer(w)
  PROVE  Placement'
<1>1. PICK i \in 1 .. Len(batch[w]), outcome \in {"replied", "failed"} :
        future' = [future EXCEPT ![batch[w][i]] = outcome]
  BY Zenon DEF Answer
<1>2. queue' = queue /\ batch' = batch /\ pc' = pc
  BY Zenon DEF Answer, queueVars, workerVars
<1>3. /\ queue \in [Enclaves -> Seq(Requests)] /\ batch \in [Workers -> Seq(Requests)]
      /\ future \in [Requests -> {"none", "pending"} \cup Done]
  BY Zenon DEF TypeOK, ClientTypeOK, QueueTypeOK, WorkerTypeOK
<1>4. i \in DOMAIN batch[w] /\ batch[w][i] \in Requests
  BY <1>1, <1>3
<1>5. QueuedIsPending'
  BY <1>1, <1>2, <1>3, <1>4 DEF QueuedIsPending, HeldOnce, Placement
<1>6. BatchedIsOutstanding'
  BY <1>1, <1>2, <1>3, <1>4 DEF BatchedIsOutstanding, Placement
<1>7. HeldOnce'
  BY <1>2, UnmovedHeldOnce, Zenon DEF Placement
<1>8. PendingIsHeld'
  BY <1>1, <1>2, <1>3, <1>4, Zenon DEF PendingIsHeld, Placement
<1> QED
  BY <1>5, <1>6, <1>7, <1>8, Zenon DEF Placement

\* A batch is given up when none of its requests is pending.
LEMMA ReturnKeepsPlacement ==
  ASSUME NEW w \in Workers, TypeOK, Placement, BatchReturns(w)
  PROVE  Placement'
<1>1. /\ queue' = queue /\ pc' = pc /\ future' = future
      /\ batch' = [batch EXCEPT ![w] = <<>>]
      /\ \A i \in 1 .. Len(batch[w]) : future[batch[w][i]] \in Done
  BY Zenon DEF BatchReturns, queueVars
<1>2. batch \in [Workers -> Seq(Requests)]
  BY Zenon DEF TypeOK, WorkerTypeOK
<1>3. DOMAIN batch'[w] = {} /\ \A v \in Workers : v # w => batch'[v] = batch[v]
  BY <1>1, <1>2, SMTT(30)
<1>4. QueuedIsPending' /\ BatchedIsOutstanding'
  BY <1>1, <1>3, SMTT(30) DEF QueuedIsPending, BatchedIsOutstanding, Placement
<1>5. HeldOnce'
  BY <1>1, <1>3, SMTT(30) DEF HeldOnce, Placement
<1>6. PendingIsHeld'
  <2> SUFFICES ASSUME NEW q \in Requests, future[q] = "pending"
      PROVE \/ \E i \in DOMAIN queue[Target[q]] : queue[Target[q]][i] = q
            \/ \E v \in Workers : \E i \in DOMAIN batch'[v] : batch'[v][i] = q
    BY <1>1, Zenon DEF PendingIsHeld
  <2>1. \A i \in DOMAIN batch[w] : batch[w][i] # q
    BY <1>1, <1>2
  <2> QED
    BY <1>3, <2>1 DEF PendingIsHeld, Placement
<1> QED
  BY <1>4, <1>5, <1>6, Zenon DEF Placement

\* A client whose response is delivered holds a place nowhere.
LEMMA DeliverKeepsPlacement ==
  ASSUME NEW r \in Requests, TypeOK, Placement, Deliver(r)
  PROVE  Placement'
<1>1. /\ queue' = queue /\ batch' = batch
      /\ pc' = [pc EXCEPT ![r] = "idle"]
      /\ future' = [future EXCEPT ![r] = "none"]
  BY Zenon DEF Deliver, queueVars, workerVars
<1>2. /\ queue \in [Enclaves -> Seq(Requests)] /\ batch \in [Workers -> Seq(Requests)]
      /\ pc \in [Requests -> {"idle", "shed", "admitted", "counted"} \cup Outstanding]
      /\ future \in [Requests -> {"none", "pending"} \cup Done]
  BY Zenon DEF TypeOK, ClientTypeOK, QueueTypeOK, WorkerTypeOK
<1>3. \A e \in Enclaves : \A i \in DOMAIN queue[e] :
        queue[e][i] # r /\ queue[e][i] \in Requests
  BY <1>2 DEF Deliver, QueuedIsPending, Placement
<1>4. \A w \in Workers : \A i \in DOMAIN batch[w] :
        batch[w][i] # r /\ batch[w][i] \in Requests
  BY <1>2, SMTT(30) DEF Deliver, BatchedIsOutstanding, Placement
<1>5. QueuedIsPending'
  BY <1>1, <1>2, <1>3 DEF QueuedIsPending, Placement
<1>6. BatchedIsOutstanding'
  BY <1>1, <1>2, <1>4, Zenon DEF BatchedIsOutstanding, Placement
<1>7. HeldOnce'
  BY <1>1, UnmovedHeldOnce, Zenon DEF Placement
<1>8. PendingIsHeld'
  BY <1>1, <1>2, ZenonT(30) DEF PendingIsHeld, Placement
<1> QED
  BY <1>5, <1>6, <1>7, <1>8, Zenon DEF Placement

\* Steps of a client that has no place, or keeps the one it has.
LEMMA ClientKeepsPlacement ==
  ASSUME NEW r \in Requests, TypeOK, Placement,
         queue' = queue, batch' = batch, future' = future,
         pc[r] \in Outstanding => pc'[r] \in Outstanding,
         \A q \in Requests : q # r => pc'[q] = pc[q]
  PROVE  Placement'
<1>1. queue \in [Enclaves -> Seq(Requests)] /\ batch \in [Workers -> Seq(Requests)]
  BY Zenon DEF TypeOK, QueueTypeOK, WorkerTypeOK
<1>2. QueuedIsPending'
  BY <1>1 DEF QueuedIsPending, Placement
<1>3. BatchedIsOutstanding'
  BY <1>1 DEF BatchedIsOutstanding, Placement
<1>4. HeldOnce'
  BY UnmovedHeldOnce, Zenon DEF Placement
<1>5. PendingIsHeld'
  BY Zenon DEF PendingIsHeld, Placement
<1> QED
  BY <1>2, <1>3, <1>4, <1>5, Zenon DEF Placement

LEMMA PlacementInit == Init => Placement
<1> SUFFICES ASSUME Init PROVE Placement
  BY Zenon
<1>1. \A e \in Enclaves : DOMAIN queue[e] = {}
  BY DEF Init
<1>2. \A w \in Workers : DOMAIN batch[w] = {}
  BY DEF Init
<1>3. QueuedIsPending /\ BatchedIsOutstanding
  BY <1>1, <1>2, Zenon DEF QueuedIsPending, BatchedIsOutstanding
<1>4. HeldOnce
  BY <1>1, <1>2, Zenon DEF HeldOnce
<1>5. PendingIsHeld
  BY Zenon DEF Init, PendingIsHeld
<1> QED
  BY <1>3, <1>4, <1>5, Zenon DEF Placement

LEMMA PlacementNext == TypeOK /\ Placement /\ [Next]_vars => Placement'
<1> SUFFICES ASSUME TypeOK, Placement, [Next]_vars PROVE Placement'
  BY Zenon
<1>1. ASSUME UNCHANGED <<pc, future, queue, batch>> PROVE Placement'
  <2>1. QueuedIsPending'
    BY <1>1 DEF Placement, QueuedIsPending
  <2>2. BatchedIsOutstanding'
    BY <1>1, Zenon DEF Placement, BatchedIsOutstanding
  <2>3. HeldOnce'
    BY <1>1, UnmovedHeldOnce, Zenon DEF Placement
  <2>4. PendingIsHeld'
    BY <1>1, Zenon DEF Placement, PendingIsHeld
  <2> QED
    BY <2>1, <2>2, <2>3, <2>4, Zenon DEF Placement
<1>2. ASSUME NEW r \in Requests, Client(r) PROVE Placement'
  <2>1. CASE Shed(r) \/ Admit(r) \/ Count(r) \/ Register(r)
    <3>1. /\ queue' = queue /\ batch' = batch /\ future' = future
          /\ pc[r] \in Outstanding => pc'[r] \in Outstanding
          /\ \A q \in Requests : q # r => pc'[q] = pc[q]
      BY <2>1, Zenon DEF Shed, Admit, Count, Register, queueVars, workerVars, TypeOK, ClientTypeOK
    <3> QED
      BY <3>1, ClientKeepsPlacement, Zenon
  <2>2. CASE Put(r)
    BY <2>2, PutKeepsPlacement, Zenon
  <2>3. CASE Deliver(r)
    BY <2>3, DeliverKeepsPlacement, Zenon
  <2> QED
    BY <1>2, <2>1, <2>2, <2>3, Zenon DEF Client
<1>3. ASSUME NEW w \in Workers, Thread(w) PROVE Placement'
  <2>1. CASE Get(w)
    BY <2>1, ChoosableIsEnclave, MoveKeepsPlacement, Zenon DEF Get
  <2>2. CASE TakeNext(w)
    BY <2>2, MoveKeepsPlacement, Zenon DEF TakeNext, NextFits, TypeOK
  <2>3. CASE Answer(w)
    BY <2>3, AnswerKeepsPlacement, Zenon
  <2>4. CASE BatchReturns(w)
    BY <2>4, ReturnKeepsPlacement, Zenon
  <2>5. CASE Wait(w) \/ GetReturns(w) \/ BatchThrows(w)
    BY <1>1, <2>5, Zenon DEF Wait, GetReturns, BatchThrows, queueVars
  <2> QED
    BY <1>3, <2>1, <2>2, <2>3, <2>4, <2>5, Zenon DEF Thread
<1>4. ASSUME Flusher PROVE Placement'
  <2>1. ASSUME NEW e \in Enclaves, FlushRequest(e) PROVE Placement'
    BY <2>1, FlushKeepsPlacement, Zenon
  <2>2. ASSUME NEW e \in Enclaves, FlushQueue(e) PROVE Placement'
    BY <1>1, <2>2, Zenon DEF FlushQueue, workerVars
  <2>3. CASE FlushPendingQueues \/ FlushTaskOutput
    BY <1>1, <2>3, Zenon DEF FlushPendingQueues, FlushTaskOutput, queueVars, workerVars
  <2> QED
    BY <1>4, <2>1, <2>2, <2>3, Zenon DEF Flusher
<1>5. CASE Tick \/ UNCHANGED vars
  BY <1>1, <1>5, Zenon DEF Tick, vars, queueVars, workerVars
<1> QED
  BY <1>2, <1>3, <1>4, <1>5, Zenon DEF Next

\* No pending request is lost: while its future is open, it is in its enclave's
\* queue or in a worker's batch.
THEOREM NoRequestIsLost == Spec => []PendingIsHeld
<1>1. Placement => PendingIsHeld
  BY Zenon DEF Placement
<1> QED
  BY <1>1, TypeInit, TypeNext, PlacementInit, PlacementNext, PTL DEF Spec

\* No request is in two places.
THEOREM NoRequestIsDuplicated == Spec => []HeldOnce
<1>1. Placement => HeldOnce
  BY Zenon DEF Placement
<1> QED
  BY <1>1, TypeInit, TypeNext, PlacementInit, PlacementNext, PTL DEF Spec

-----------------------------------------------------------------------------
LEMMA WaitersInit == Init => WaitersOnlyWhenEmpty
  BY Zenon DEF Init, WaitersOnlyWhenEmpty

\* Taking a request from a queue that counts as empty leaves it empty.
LEMMA RemoveFirstKeepsEmpty ==
  ASSUME NEW w \in Workers, NEW e \in Enclaves, TypeOK,
         queue[e] # <<>>, removeFirst(w, e), \A f \in Enclaves : isEmpty(f)
  PROVE  \A f \in Enclaves : isEmpty(f)'
<1>1. AddressCount[Head(queue[e])] \in Nat
  BY RemoveFirstType, RequestFacts, Zenon
<1>2. addressCount \in [Enclaves -> Int]
  BY Zenon DEF TypeOK, QueueTypeOK
<1>3. addressCount' = [addressCount EXCEPT ![e] = addressCount[e] - AddressCount[Head(queue[e])]]
  BY Zenon DEF removeFirst
<1>4. addressCount'[e] = addressCount[e] - AddressCount[Head(queue[e])]
  BY <1>2, <1>3, Zenon
<1>5. \A f \in Enclaves : f # e => addressCount'[f] = addressCount[f]
  BY <1>2, <1>3, Zenon
<1>6. addressCount[e] \in Int /\ addressCount[e] <= 0
  BY <1>2, Zenon DEF isEmpty
<1>7. addressCount'[e] <= 0
  BY <1>1, <1>4, <1>6
<1> QED
  BY <1>5, <1>7, Zenon DEF isEmpty

LEMMA WaitersNext == TypeOK /\ WaitersOnlyWhenEmpty /\ [Next]_vars => WaitersOnlyWhenEmpty'
<1> SUFFICES ASSUME TypeOK, WaitersOnlyWhenEmpty, [Next]_vars,
                    NEW v \in Workers, worker'[v] = "waiting"
             PROVE  \A e \in Enclaves : isEmpty(e)'
  BY Zenon DEF WaitersOnlyWhenEmpty
<1> USE DEF isEmpty
<1>1. ASSUME worker' = worker, addressCount' = addressCount
      PROVE  \A e \in Enclaves : isEmpty(e)'
  BY <1>1, Zenon DEF WaitersOnlyWhenEmpty
<1>2. ASSUME NEW r \in Requests, Client(r) PROVE \A e \in Enclaves : isEmpty(e)'
  <2>1. CASE Put(r)
    BY <2>1, Zenon DEF Put, notifyAll
  <2> QED
    BY <1>1, <1>2, <2>1, Zenon DEF Client, Shed, Admit, Count, Register, Deliver, queueVars, workerVars
<1>3. ASSUME NEW w \in Workers, Thread(w) PROVE \A e \in Enclaves : isEmpty(e)'
  <2>1. CASE Get(w)
    <3>1. worker[v] = "waiting"
      BY <2>1, Zenon DEF Get, TypeOK, WorkerTypeOK
    <3>2. PICK e \in Choosable : queue[e] # <<>> /\ removeFirst(w, e)
      BY <2>1, Zenon DEF Get
    <3> QED
      BY <3>1, <3>2, ChoosableIsEnclave, RemoveFirstKeepsEmpty, Zenon DEF WaitersOnlyWhenEmpty
  <2>2. CASE Wait(w)
    BY <2>2, Zenon DEF Wait, NonEmpty, queueVars
  <2>3. CASE TakeNext(w)
    <3>1. worker[v] = "waiting"
      BY <2>3, Zenon DEF TakeNext
    <3>2. source[w] \in Enclaves /\ queue[source[w]] # <<>> /\ removeFirst(w, source[w])
      BY <2>3, Zenon DEF TakeNext, NextFits, TypeOK
    <3> QED
      BY <3>1, <3>2, RemoveFirstKeepsEmpty, Zenon DEF WaitersOnlyWhenEmpty
  <2>4. CASE Answer(w)
    BY <1>1, <2>4, Zenon DEF Answer, queueVars, workerVars
  <2>5. CASE GetReturns(w) \/ BatchReturns(w) \/ BatchThrows(w)
    <3>1. worker[v] = "waiting" /\ addressCount' = addressCount
      BY <2>5, Zenon DEF GetReturns, BatchReturns, BatchThrows, queueVars, TypeOK, WorkerTypeOK
    <3> QED
      BY <3>1, Zenon DEF WaitersOnlyWhenEmpty
  <2> QED
    BY <1>3, <2>1, <2>2, <2>3, <2>4, <2>5, Zenon DEF Thread
<1>4. ASSUME Flusher PROVE \A e \in Enclaves : isEmpty(e)'
  <2>1. ASSUME NEW e \in Enclaves, FlushQueue(e) PROVE \A f \in Enclaves : isEmpty(f)'
    BY <2>1 DEF FlushQueue, workerVars, WaitersOnlyWhenEmpty, TypeOK, QueueTypeOK
  <2> QED
    BY <1>1, <1>4, <2>1, Zenon DEF Flusher, FlushPendingQueues, FlushRequest, FlushTaskOutput,
       queueVars, workerVars
<1>5. CASE Tick \/ UNCHANGED vars
  BY <1>1, <1>5, Zenon DEF Tick, vars, queueVars, workerVars
<1> QED
  BY <1>2, <1>3, <1>4, <1>5, Zenon DEF Next

\* No wakeup is lost: a worker sleeps only while every queue is empty.
THEOREM NoLostWakeup == Spec => []WaitersOnlyWhenEmpty
  BY TypeInit, TypeNext, WaitersInit, WaitersNext, PTL DEF Spec

-----------------------------------------------------------------------------
\* The batch bound, with what makes it inductive.
BatchInv == IdleHoldsNothing /\ BatchWithinTarget

LEMMA BatchInit == Init => BatchInv
  BY DEF Init, BatchInv, IdleHoldsNothing, BatchWithinTarget

LEMMA BatchNext == TypeOK /\ BatchInv /\ [Next]_vars => BatchInv'
<1> SUFFICES ASSUME TypeOK, BatchInv, [Next]_vars PROVE BatchInv'
  BY Zenon
<1> USE DEF BatchInv, IdleHoldsNothing, BatchWithinTarget
<1>1. ASSUME UNCHANGED <<batch, resultAddressCount>>,
             \A v \in Workers : worker'[v] \in {"get", "waiting"} =>
                                worker[v] \in {"get", "waiting"}
      PROVE  BatchInv'
  BY <1>1, Zenon
<1>2. ASSUME NEW r \in Requests, Client(r) PROVE BatchInv'
  <2>1. CASE Put(r)
    BY <1>1, <2>1, Zenon DEF Put, notifyAll
  <2> QED
    BY <1>1, <1>2, <2>1, Zenon DEF Client, Shed, Admit, Count, Register, Deliver, workerVars
<1>3. ASSUME NEW w \in Workers, Thread(w) PROVE BatchInv'
  <2>1. CASE Get(w)
    <3>1. PICK e \in Choosable : queue[e] # <<>> /\ removeFirst(w, e)
      BY <2>1, Zenon DEF Get
    <3>2. /\ batch[w] = <<>> /\ Head(queue[e]) \in Requests
          /\ batch' = [batch EXCEPT ![w] = Append(batch[w], Head(queue[e]))]
          /\ \A v \in Workers : v # w => resultAddressCount'[v] = resultAddressCount[v]
      BY <2>1, <3>1, ChoosableIsEnclave, RemoveFirstType, ZenonT(40)
         DEF Get, removeFirst, TypeOK, WorkerTypeOK
    <3>3. Len(batch'[w]) = 1
      BY <3>2 DEF TypeOK, WorkerTypeOK
    <3>4. /\ worker \in [Workers -> {"get", "waiting", "taking", "batch", "catch"}]
          /\ worker' = [worker EXCEPT ![w] = "taking"]
      BY <2>1, Zenon DEF Get, TypeOK, WorkerTypeOK
    <3>5. \A v \in Workers : v # w => batch'[v] = batch[v]
      BY <3>2, Zenon DEF TypeOK, WorkerTypeOK
    <3>6. IdleHoldsNothing'
      <4>1. worker'[w] = "taking" /\ \A v \in Workers : v # w => worker'[v] = worker[v]
        BY <3>4, Zenon
      <4>2. \A v \in Workers : worker'[v] \in {"get", "waiting"} =>
              batch'[v] = <<>> /\ resultAddressCount'[v] = 0
        BY <3>2, <3>5, <4>1, Zenon
      <4> QED
        BY <4>2, Zenon
    <3>7. BatchWithinTarget'
      BY <3>2, <3>3, <3>5
    <3> QED
      BY <3>6, <3>7, Zenon
  <2>2. CASE TakeNext(w)
    <3>1. AddressCount[Head(queue[source[w]])] + resultAddressCount[w] <= TargetBatchSize
      BY <2>2, Zenon DEF TakeNext, NextFits
    <3>2. AddressCount[Head(queue[source[w]])] \in Nat
      BY <2>2, RemoveFirstType, RequestFacts, Zenon DEF TakeNext, NextFits, TypeOK
    <3>3. resultAddressCount'[w] <= TargetBatchSize
      BY <2>2, <3>1, <3>2 DEF TakeNext, removeFirst, TypeOK, WorkerTypeOK
    <3>4. worker[w] = "taking" /\ worker' = worker
      BY <2>2, Zenon DEF TakeNext, NextFits
    <3>5. \A v \in Workers : v # w => /\ batch'[v] = batch[v]
                                      /\ resultAddressCount'[v] = resultAddressCount[v]
      BY <2>2, Zenon DEF TakeNext, removeFirst, TypeOK, WorkerTypeOK
    <3>6. IdleHoldsNothing'
      BY <3>4, <3>5, Zenon
    <3>7. BatchWithinTarget'
      BY <3>3, <3>5, Zenon
    <3> QED
      BY <3>6, <3>7, Zenon
  <2>3. CASE BatchReturns(w)
    BY <2>3 DEF BatchReturns, TypeOK, WorkerTypeOK
  <2>4. CASE Wait(w)
    BY <1>1, <2>4, Zenon DEF Wait, TypeOK, WorkerTypeOK
  <2>5. CASE GetReturns(w) \/ Answer(w) \/ BatchThrows(w)
    BY <1>1, <2>5, Zenon DEF GetReturns, Answer, BatchThrows, workerVars, TypeOK, WorkerTypeOK
  <2> QED
    BY <1>3, <2>1, <2>2, <2>3, <2>4, <2>5, Zenon DEF Thread
<1>4. CASE Flusher
  BY <1>1, <1>4, Zenon DEF Flusher, FlushPendingQueues, FlushRequest, FlushQueue,
     FlushTaskOutput, workerVars
<1>5. CASE Tick \/ UNCHANGED vars
  BY <1>1, <1>5, Zenon DEF Tick, vars, workerVars
<1> QED
  BY <1>2, <1>3, <1>4, <1>5, Zenon DEF Next

\* Only a single request can make a batch larger than the target.
THEOREM BatchBounded == Spec => []BatchWithinTarget
<1>1. BatchInv => BatchWithinTarget
  BY Zenon DEF BatchInv
<1> QED
  BY <1>1, TypeInit, TypeNext, BatchInit, BatchNext, PTL DEF Spec

-----------------------------------------------------------------------------
\* What a worker took was open when it took it and is not flushed any more.
TakenOpen ==
  \A w \in Workers : \A i \in DOMAIN batch[w] :
    /\ future[batch[w][i]] # "flushed"
    /\ worker[w] = "taking" => future[batch[w][i]] = "pending"

\* A step that leaves the batches and the futures in them alone, and starts no
\* batch, keeps that.
LEMMA TakenStays ==
  ASSUME TakenOpen, batch' = batch,
         \A v \in Workers : worker'[v] = "taking" => worker[v] = "taking",
         \A v \in Workers : \A i \in DOMAIN batch[v] : future'[batch[v][i]] = future[batch[v][i]]
  PROVE  TakenOpen'
<1> SUFFICES ASSUME NEW w \in Workers, NEW i \in DOMAIN batch[w]
             PROVE  /\ future'[batch[w][i]] # "flushed"
                    /\ worker'[w] = "taking" => future'[batch[w][i]] = "pending"
  BY Zenon DEF TakenOpen
<1>1. future'[batch[w][i]] = future[batch[w][i]] BY Zenon
<1>2. /\ future[batch[w][i]] # "flushed"
      /\ worker[w] = "taking" => future[batch[w][i]] = "pending"
  BY Zenon DEF TakenOpen
<1> QED
  BY <1>1, <1>2, Zenon

\* A worker moves an open request into its batch, which held open ones only.
LEMMA MoveKeepsTaken ==
  ASSUME NEW w \in Workers, NEW e \in Enclaves, TypeOK, Placement, TakenOpen,
         queue[e] # <<>>, removeFirst(w, e), future' = future,
         \A i \in DOMAIN batch[w] : future[batch[w][i]] = "pending",
         \A v \in Workers \ {w} : worker'[v] = worker[v]
  PROVE  TakenOpen'
<1> DEFINE r == Head(queue[e])
<1>1. queue \in [Enclaves -> Seq(Requests)] /\ batch \in [Workers -> Seq(Requests)]
  BY Zenon DEF TypeOK, QueueTypeOK, WorkerTypeOK
<1>2. r \in Requests /\ r = queue[e][1] /\ 1 \in DOMAIN queue[e]
  BY <1>1, TailFacts
<1>3. batch' = [batch EXCEPT ![w] = Append(batch[w], r)]
  BY Zenon DEF removeFirst
<1>4. future[r] = "pending"
  BY <1>2 DEF Placement, QueuedIsPending
<1> HIDE DEF r
<1>5. \A v \in Workers : \A i \in DOMAIN batch'[v] :
        \/ i \in DOMAIN batch[v] /\ batch'[v][i] = batch[v][i]
        \/ v = w /\ batch'[v][i] = r
  BY <1>1, <1>2, <1>3, AppendFacts
<1>6. \A i \in DOMAIN batch'[w] : future'[batch'[w][i]] = "pending"
  BY <1>4, <1>5, Zenon
<1>7. \A v \in Workers \ {w} : batch'[v] = batch[v]
  BY <1>1, <1>3, Zenon
<1> QED
  BY <1>6, <1>7 DEF TakenOpen

LEMMA TakenInit == Init => TakenOpen
  BY DEF Init, TakenOpen

LEMMA TakenNext ==
  TypeOK /\ Placement /\ BatchInv /\ TakenOpen /\ [Next]_vars => TakenOpen'
<1> SUFFICES ASSUME TypeOK, Placement, BatchInv, TakenOpen, [Next]_vars PROVE TakenOpen'
  BY Zenon
<1>1. /\ future \in [Requests -> {"none", "pending"} \cup Done]
      /\ worker \in [Workers -> {"get", "waiting", "taking", "batch", "catch"}]
      /\ batch \in [Workers -> Seq(Requests)]
  BY Zenon DEF TypeOK, ClientTypeOK, WorkerTypeOK
<1>2. \A v \in Workers : \A i \in DOMAIN batch[v] :
        batch[v][i] \in Requests /\ pc[batch[v][i]] \in Outstanding
  BY <1>1 DEF Placement, BatchedIsOutstanding
<1>3. ASSUME NEW r \in Requests, Client(r) PROVE TakenOpen'
  <2>1. CASE Put(r)
    <3>1. pc[r] = "counted" /\ batch' = batch /\ future' = [future EXCEPT ![r] = "pending"]
      BY <2>1, Zenon DEF Put
    <3>2. \A v \in Workers : worker'[v] = "taking" => worker[v] = "taking"
      BY <1>1, <2>1, Zenon DEF Put, notifyAll
    <3>3. \A v \in Workers : \A i \in DOMAIN batch[v] : batch[v][i] # r
      BY <1>2, <3>1, Zenon
    <3> QED
      BY <1>1, <1>2, <3>1, <3>2, <3>3, TakenStays, Zenon
  <2>2. CASE Deliver(r)
    <3>1. batch' = batch /\ worker' = worker /\ future' = [future EXCEPT ![r] = "none"]
      BY <2>2, Zenon DEF Deliver, workerVars
    <3>2. \A v \in Workers : \A i \in DOMAIN batch[v] : batch[v][i] # r
      <4>1. CASE pc[r] = "shed"
        BY <1>2, <4>1, Zenon
      <4>2. CASE \A v \in Workers : \A i \in 1 .. Len(batch[v]) : batch[v][i] # r
        BY <1>1, <4>2
      <4> QED
        BY <2>2, <4>1, <4>2, Zenon DEF Deliver
    <3> QED
      BY <1>1, <1>2, <3>1, <3>2, TakenStays, Zenon
  <2> QED
    BY <1>3, <2>1, <2>2, TakenStays, Zenon DEF Client, Shed, Admit, Count, Register, workerVars
<1>4. ASSUME NEW w \in Workers, Thread(w) PROVE TakenOpen'
  <2>1. CASE Get(w)
    <3>1. PICK e \in Enclaves : queue[e] # <<>> /\ removeFirst(w, e)
      BY <2>1, ChoosableIsEnclave, Zenon DEF Get
    <3>2. batch[w] = <<>>
      BY <2>1, Zenon DEF Get, BatchInv, IdleHoldsNothing
    <3>3. \A i \in DOMAIN batch[w] : future[batch[w][i]] = "pending"
      BY <3>2
    <3>4. future' = future /\ \A v \in Workers \ {w} : worker'[v] = worker[v]
      BY <1>1, <2>1, Zenon DEF Get
    <3> QED
      BY <3>1, <3>3, <3>4, MoveKeepsTaken, Zenon
  <2>2. CASE TakeNext(w)
    <3>1. source[w] \in Enclaves /\ queue[source[w]] # <<>> /\ removeFirst(w, source[w])
      BY <2>2, Zenon DEF TakeNext, NextFits, TypeOK
    <3>2. \A i \in DOMAIN batch[w] : future[batch[w][i]] = "pending"
      BY <2>2, Zenon DEF TakeNext, TakenOpen
    <3>3. future' = future /\ worker' = worker
      BY <2>2, Zenon DEF TakeNext
    <3> QED
      BY <3>1, <3>2, <3>3, MoveKeepsTaken, Zenon
  <2>3. CASE Answer(w)
    <3>1. PICK i \in 1 .. Len(batch[w]), outcome \in {"replied", "failed"} :
            future' = [future EXCEPT ![batch[w][i]] = outcome]
      BY <2>3, Zenon DEF Answer
    <3>2. worker[w] # "taking" /\ worker' = worker /\ batch' = batch
      BY <2>3, Zenon DEF Answer, workerVars
    <3>3. i \in DOMAIN batch[w]
      BY <1>1
    <3>4. \A v \in Workers : \A j \in DOMAIN batch[v] : v # w => batch[v][j] # batch[w][i]
      BY <3>3, Zenon DEF Placement, HeldOnce
    <3> QED
      BY <1>1, <1>2, <3>1, <3>2, <3>3, <3>4 DEF TakenOpen
  <2>4. CASE BatchReturns(w)
    <3>1. /\ batch' = [batch EXCEPT ![w] = <<>>] /\ future' = future
          /\ worker' = [worker EXCEPT ![w] = "get"]
      BY <2>4, Zenon DEF BatchReturns
    <3>2. \A v \in Workers \ {w} : batch'[v] = batch[v] /\ worker'[v] = worker[v]
      BY <1>1, <3>1, Zenon
    <3>3. \A j \in DOMAIN batch'[w] : FALSE
      BY <1>1, <3>1
    <3> QED
      BY <3>1, <3>2, <3>3 DEF TakenOpen
  <2>5. CASE Wait(w) \/ GetReturns(w) \/ BatchThrows(w)
    <3>1. batch' = batch /\ future' = future
      BY <2>5, Zenon DEF Wait, GetReturns, BatchThrows
    <3>2. \A v \in Workers : worker'[v] = "taking" => worker[v] = "taking"
      BY <1>1, <2>5, Zenon DEF Wait, GetReturns, BatchThrows
    <3> QED
      BY <3>1, <3>2, TakenStays, Zenon
  <2> QED
    BY <1>4, <2>1, <2>2, <2>3, <2>4, <2>5, Zenon DEF Thread
<1>5. ASSUME Flusher PROVE TakenOpen'
  <2>1. ASSUME NEW e \in Enclaves, FlushRequest(e) PROVE TakenOpen'
    <3>1. queue[e] \in Seq(Requests) /\ queue[e] # <<>>
      BY <2>1, Zenon DEF FlushRequest, TypeOK, QueueTypeOK
    <3>2. 1 \in DOMAIN queue[e] /\ Head(queue[e]) = queue[e][1]
      BY <3>1
    <3>3. /\ future' = [future EXCEPT ![Head(queue[e])] = "flushed"]
          /\ batch' = batch /\ worker' = worker
      BY <2>1, Zenon DEF FlushRequest, workerVars
    <3>4. \A v \in Workers : \A i \in DOMAIN batch[v] : batch[v][i] # Head(queue[e])
      BY <3>2 DEF Placement, HeldOnce
    <3> QED
      BY <1>1, <1>2, <3>3, <3>4, TakenStays, Zenon
  <2> QED
    BY <1>5, <2>1, TakenStays, Zenon DEF Flusher, FlushPendingQueues, FlushQueue, FlushTaskOutput, workerVars
<1>6. CASE Tick \/ UNCHANGED vars
  BY <1>6, TakenStays, Zenon DEF Tick, vars, workerVars
<1> QED
  BY <1>3, <1>4, <1>5, <1>6, Zenon DEF Next

\* A request is failed by a flush or handed to the enclave, never both, for any
\* clients, enclaves and workers (PendingRequestQueue.get, flush).
THEOREM FlushedOrProcessedTheorem == Spec => []FlushedOrProcessed
<1>1. Placement /\ TakenOpen => FlushedOrProcessed
  BY Zenon DEF Placement, QueuedIsPending, TakenOpen, FlushedOrProcessed
<1> QED
  BY <1>1, TypeInit, TypeNext, PlacementInit, PlacementNext, BatchInit, BatchNext, TakenInit, TakenNext, PTL
     DEF Spec

-----------------------------------------------------------------------------
(* Counting: sums *)

\* The size of a union of two disjoint sets.
LEMMA DisjointUnion ==
  ASSUME NEW S, NEW T, IsFiniteSet(S), IsFiniteSet(T), S \cap T = {}
  PROVE  /\ IsFiniteSet(S \cup T)
         /\ Cardinality(S) \in Nat
         /\ Cardinality(S \cup T) = Cardinality(S) + Cardinality(T)
<1>1. /\ IsFiniteSet(S \cup T)
      /\ Cardinality(S \cup T) = Cardinality(S) + Cardinality(T) - Cardinality(S \cap T)
  BY FS_Union, Zenon
<1>2. Cardinality(S \cap T) = 0
  BY FS_EmptySet, Zenon
<1>3. Cardinality(S) \in Nat /\ Cardinality(T) \in Nat
  BY FS_CardinalityType, Zenon
<1> QED
  BY <1>1, <1>2, <1>3

\* The numbers up to n are n.
LEMMA UpTo ==
  ASSUME NEW n \in Nat
  PROVE  IsFiniteSet(1 .. n) /\ Cardinality(1 .. n) = n
  BY FS_Interval

\* The pairs that stand for f[x] in a sum.
LEMMA PartSize ==
  ASSUME NEW x, NEW c \in Nat
  PROVE  IsFiniteSet({x} \X (1 .. c)) /\ Cardinality({x} \X (1 .. c)) = c
<1>1. IsFiniteSet({x}) /\ Cardinality({x}) = 1
  BY FS_Singleton, Zenon
<1>2. IsFiniteSet(1 .. c) /\ Cardinality(1 .. c) = c
  BY UpTo, Zenon
<1>3. IsFiniteSet({x} \X (1 .. c)) /\ Cardinality({x} \X (1 .. c)) = 1 * c
  <2>1. \A S, T : IsFiniteSet(S) /\ IsFiniteSet(T) =>
          IsFiniteSet(S \X T) /\ Cardinality(S \X T) = Cardinality(S) * Cardinality(T)
    BY FS_Product, Zenon
  <2>2. /\ IsFiniteSet({x} \X (1 .. c))
        /\ Cardinality({x} \X (1 .. c)) = Cardinality({x}) * Cardinality(1 .. c)
    BY <1>1, <1>2, <2>1, Zenon
  <2> QED
    BY <1>1, <1>2, <2>2, Zenon
<1>4. 1 * c = c
  OBVIOUS
<1> QED
  BY <1>3, <1>4, Zenon

\* The pairs of a sum over a finite set are finitely many.
LEMMA PairsFinite ==
  ASSUME NEW S, IsFiniteSet(S), NEW f, \A x \in S : f[x] \in Nat
  PROVE  IsFiniteSet(UNION {{x} \X (1 .. f[x]) : x \in S})
<1> DEFINE Part(x) == {x} \X (1 .. f[x])
           Parts == {Part(x) : x \in S}
<1>1. \A x \in S : IsFiniteSet(Part(x))
  BY PartSize, Zenon
<1> HIDE DEF Part
<1>2. IsFiniteSet(Parts)
  <2> DEFINE g == [x \in S |-> Part(x)]
  <2>1. g \in Surjection(S, Parts)
    BY Zenon DEF Surjection
  <2> QED
    BY <2>1, FS_Surjection, Zenon
<1>3. \A P \in Parts : IsFiniteSet(P)
  BY <1>1, Zenon
<1> HIDE DEF Parts
<1>4. IsFiniteSet(UNION Parts)
  BY <1>2, <1>3, FS_UNION, Zenon
<1> QED
  BY <1>4, Zenon DEF Part, Parts

\* A sum over nothing is zero.
LEMMA TotalEmpty == ASSUME NEW f PROVE Total(f, {}) = 0
<1>1. UNION {{x} \X (1 .. f[x]) : x \in {}} = {}
  BY Zenon
<1> QED
  BY <1>1, FS_EmptySet, Zenon DEF Total

\* A sum looks only at the values on its set.
LEMMA TotalAgrees ==
  ASSUME NEW S, NEW f, NEW g, \A x \in S : f[x] = g[x]
  PROVE  Total(f, S) = Total(g, S)
<1>1. {{x} \X (1 .. f[x]) : x \in S} = {{x} \X (1 .. g[x]) : x \in S}
  BY Zenon
<1> QED
  BY <1>1, Zenon DEF Total

\* One more element adds its value.
LEMMA TotalAdd ==
  ASSUME NEW S, IsFiniteSet(S), NEW y, y \notin S, NEW f,
         f[y] \in Nat, \A x \in S : f[x] \in Nat
  PROVE  Total(f, S) \in Nat /\ Total(f, S \cup {y}) = Total(f, S) + f[y]
<1> DEFINE Part(x) == {x} \X (1 .. f[x])
           Pairs(X) == UNION {Part(x) : x \in X}
<1>1. IsFiniteSet(Part(y)) /\ Cardinality(Part(y)) = f[y]
  BY PartSize, Zenon
<1>2. IsFiniteSet(Pairs(S))
  BY PairsFinite
<1>3. Pairs(S) \cap Part(y) = {}
  <2> SUFFICES ASSUME NEW x \in S, NEW p \in Part(x), p \in Part(y)
               PROVE  FALSE
    BY Zenon
  <2>1. p[1] = x /\ p[1] = y
    BY Zenon
  <2> QED
    BY <2>1, Zenon
<1>4. Total(f, S) = Cardinality(Pairs(S)) /\ Total(f, S \cup {y}) = Cardinality(Pairs(S \cup {y}))
  BY Zenon DEF Total
<1> HIDE DEF Part
<1>5. Pairs(S \cup {y}) = Pairs(S) \cup Part(y)
  BY Zenon
<1> HIDE DEF Pairs
<1>6. /\ Cardinality(Pairs(S)) \in Nat
      /\ Cardinality(Pairs(S) \cup Part(y)) = Cardinality(Pairs(S)) + Cardinality(Part(y))
  BY <1>1, <1>2, <1>3, DisjointUnion, Zenon
<1> QED
  BY <1>1, <1>4, <1>5, <1>6, Zenon

\* One element less takes its value away.
LEMMA TotalRemove ==
  ASSUME NEW S, IsFiniteSet(S), NEW y \in S, NEW f, \A x \in S : f[x] \in Nat
  PROVE  Total(f, S \ {y}) = Total(f, S) - f[y]
<1> DEFINE T == S \ {y}
<1>1. IsFiniteSet(T) /\ y \notin T /\ (\A x \in T : f[x] \in Nat) /\ f[y] \in Nat
  BY FS_RemoveElement, Zenon
<1>2. T \cup {y} = S
  BY Zenon
<1> HIDE DEF T
<1>3. Total(f, T) \in Nat /\ Total(f, T \cup {y}) = Total(f, T) + f[y]
  BY <1>1, TotalAdd, Zenon
<1> QED
  BY <1>1, <1>2, <1>3 DEF T

\* A sum over places does not change when every place moves by one.
LEMMA TotalShift ==
  ASSUME NEW n \in Nat, NEW f, NEW g,
         \A i \in 1 .. n : f[i] \in Nat /\ g[i + 1] = f[i]
  PROVE  Total(g, 2 .. (n + 1)) = Total(f, 1 .. n)
<1> DEFINE A == UNION {{x} \X (1 .. f[x]) : x \in 1 .. n}
           B == UNION {{x} \X (1 .. g[x]) : x \in 2 .. (n + 1)}
           h == [p \in A |-> <<p[1] + 1, p[2]>>]
<1>1. IsFiniteSet(A)
  <2>1. IsFiniteSet(1 .. n)
    BY UpTo, Zenon
  <2>2. \A x \in 1 .. n : f[x] \in Nat
    BY Zenon
  <2> DEFINE N == 1 .. n
  <2> HIDE DEF N
  <2>3. IsFiniteSet(N) /\ \A x \in N : f[x] \in Nat
    BY <2>1, <2>2, Zenon DEF N
  <2>4. IsFiniteSet(UNION {{x} \X (1 .. f[x]) : x \in N})
    BY <2>3, PairsFinite
  <2> QED
    BY <2>4, Zenon DEF N
<1>2. \A p : p \in A <=>
        p = <<p[1], p[2]>> /\ p[1] \in 1 .. n /\ p[2] \in 1 .. f[p[1]]
  OBVIOUS
<1>3. \A p : p \in B <=>
        p = <<p[1], p[2]>> /\ p[1] \in 2 .. (n + 1) /\ p[2] \in 1 .. g[p[1]]
  OBVIOUS
<1> HIDE DEF A, B
<1>4. \A p \in A : h[p] \in B
  BY <1>2, <1>3
<1>5. \A p, q \in A : h[p] = h[q] => p = q
  BY <1>2
<1>6. \A q \in B : \E p \in A : h[p] = q
  <2> SUFFICES ASSUME NEW q \in B PROVE \E p \in A : h[p] = q
    BY Zenon
  <2>1. <<q[1] - 1, q[2]>> \in A
    BY <1>2, <1>3
  <2>2. h[<<q[1] - 1, q[2]>>] = q
    BY <1>3, <2>1
  <2> QED
    BY <2>1, <2>2, Zenon
<1>7. h \in [A -> B]
  BY <1>4, Zenon
<1> HIDE DEF h
<1>8. h \in Bijection(A, B)
  BY <1>5, <1>6, <1>7, Zenon DEF Bijection, Injection, Surjection, IsInjective
<1>9. Cardinality(B) = Cardinality(A)
  BY <1>1, <1>8, FS_Bijection, Zenon DEF ExistsBijection
<1> QED
  BY <1>9, Zenon DEF Total, A, B

-----------------------------------------------------------------------------
(* Queues and batches.                                                     *)

\* The sizes of the requests of a list, by place.
SizesOf(s) == [i \in DOMAIN s |-> AddressCount[s[i]]]

\* What the sizes of a list of requests are.
LEMMA SizesFacts ==
  ASSUME NEW s \in Seq(Requests)
  PROVE  /\ PhoneNumbers(s) = Total(SizesOf(s), 1 .. Len(s))
         /\ Len(s) \in Nat
         /\ \A i \in 1 .. Len(s) : /\ SizesOf(s)[i] = AddressCount[s[i]]
                                   /\ SizesOf(s)[i] \in Nat
<1>1. DOMAIN s = 1 .. Len(s) /\ Len(s) \in Nat /\ \A i \in 1 .. Len(s) : s[i] \in Requests
  OBVIOUS
<1>2. \A i \in 1 .. Len(s) : SizesOf(s)[i] = AddressCount[s[i]]
  BY <1>1, Zenon DEF SizesOf
<1>3. \A i \in 1 .. Len(s) : SizesOf(s)[i] \in Nat
  BY <1>1, <1>2, RequestFacts, Zenon
<1>4. PhoneNumbers(s) = Total(SizesOf(s), 1 .. Len(s))
  BY <1>1, Zenon DEF PhoneNumbers, SizesOf
<1> QED
  BY <1>1, <1>2, <1>3, <1>4, Zenon

\* An empty list asks about nothing.
LEMMA NumbersEmpty == PhoneNumbers(<<>>) = 0
<1>1. DOMAIN <<>> = {}
  OBVIOUS
<1> QED
  BY <1>1, TotalEmpty, Zenon DEF PhoneNumbers

\* A request at the end of a list adds its phone numbers.
LEMMA NumbersAppend ==
  ASSUME NEW s \in Seq(Requests), NEW r \in Requests
  PROVE  /\ PhoneNumbers(s) \in Nat
         /\ PhoneNumbers(Append(s, r)) = PhoneNumbers(s) + AddressCount[r]
<1> DEFINE n == Len(s)
           f == SizesOf(s)
           g == SizesOf(Append(s, r))
<1>1. n \in Nat /\ Append(s, r) \in Seq(Requests) /\ Len(Append(s, r)) = n + 1
  OBVIOUS
<1>2. Append(s, r)[n + 1] = r /\ \A i \in 1 .. n : Append(s, r)[i] = s[i]
  OBVIOUS
<1>3. /\ PhoneNumbers(s) = Total(f, 1 .. n)
      /\ \A i \in 1 .. n : f[i] = AddressCount[s[i]] /\ f[i] \in Nat
  BY SizesFacts, Zenon
<1>4. /\ PhoneNumbers(Append(s, r)) = Total(g, 1 .. (n + 1))
      /\ \A i \in 1 .. (n + 1) : g[i] = AddressCount[Append(s, r)[i]] /\ g[i] \in Nat
  <2> DEFINE a == Append(s, r)
  <2>1. a \in Seq(Requests) /\ Len(a) = n + 1
    BY <1>1, Zenon
  <2> HIDE DEF a, n
  <2>2. /\ PhoneNumbers(a) = Total(SizesOf(a), 1 .. (n + 1))
        /\ \A i \in 1 .. (n + 1) : SizesOf(a)[i] = AddressCount[a[i]] /\ SizesOf(a)[i] \in Nat
    BY <2>1, SizesFacts, Zenon
  <2> QED
    BY <2>2, Zenon DEF a
<1> HIDE DEF n, f, g
<1>5. n + 1 \in 1 .. (n + 1) /\ \A i \in 1 .. n : i \in 1 .. (n + 1)
  BY <1>1
<1>6. g[n + 1] = AddressCount[r] /\ \A i \in 1 .. n : g[i] = f[i]
  BY <1>2, <1>3, <1>4, <1>5, ZenonT(30)
<1>7. Total(g, 1 .. n) = Total(f, 1 .. n)
  BY <1>6, TotalAgrees, Zenon
<1>8. /\ Total(g, 1 .. n) \in Nat
      /\ Total(g, (1 .. n) \cup {n + 1}) = Total(g, 1 .. n) + g[n + 1]
  <2> DEFINE N == 1 .. n
             y == n + 1
  <2>1. IsFiniteSet(N) /\ y \notin N /\ g[y] \in Nat /\ \A x \in N : g[x] \in Nat
    <3>1. IsFiniteSet(N)
      BY <1>1, UpTo, Zenon
    <3>2. y \notin N
      BY <1>1
    <3> QED
      BY <1>4, <1>5, <3>1, <3>2, Zenon
  <2> HIDE DEF N, y
  <2>2. Total(g, N) \in Nat /\ Total(g, N \cup {y}) = Total(g, N) + g[y]
    BY <2>1, TotalAdd, Zenon
  <2> QED
    BY <2>2, Zenon DEF N, y
<1>9. (1 .. n) \cup {n + 1} = 1 .. (n + 1)
  BY <1>1
<1> QED
  BY <1>3, <1>4, <1>6, <1>7, <1>8, <1>9, Zenon

\* Without its first request a list asks about that many numbers less.
LEMMA NumbersTail ==
  ASSUME NEW s \in Seq(Requests), s # <<>>
  PROVE  PhoneNumbers(Tail(s)) = PhoneNumbers(s) - AddressCount[Head(s)]
<1> DEFINE n == Len(s) - 1
           t == Tail(s)
           f == SizesOf(t)
           g == SizesOf(s)
<1>1. n \in Nat /\ Len(s) = n + 1 /\ t \in Seq(Requests) /\ Len(t) = n
  OBVIOUS
<1>2. Head(s) = s[1] /\ \A i \in 1 .. n : t[i] = s[i + 1]
  OBVIOUS
<1> HIDE DEF n, t
<1>3. /\ PhoneNumbers(t) = Total(f, 1 .. n)
      /\ \A i \in 1 .. n : f[i] = AddressCount[t[i]] /\ f[i] \in Nat
  BY <1>1, SizesFacts, Zenon
<1>4. /\ PhoneNumbers(s) = Total(g, 1 .. (n + 1))
      /\ \A i \in 1 .. (n + 1) : g[i] = AddressCount[s[i]] /\ g[i] \in Nat
  BY <1>1, SizesFacts, Zenon
<1> HIDE DEF f, g
<1>5. 1 \in 1 .. (n + 1) /\ \A i \in 1 .. n : i + 1 \in 1 .. (n + 1)
  BY <1>1
<1>6. g[1] = AddressCount[Head(s)] /\ \A i \in 1 .. n : g[i + 1] = f[i]
  BY <1>2, <1>3, <1>4, <1>5, ZenonT(30)
<1>7. Total(g, 2 .. (n + 1)) = Total(f, 1 .. n)
  BY <1>1, <1>3, <1>6, TotalShift, Zenon
<1>8. Total(g, (1 .. (n + 1)) \ {1}) = Total(g, 1 .. (n + 1)) - g[1]
  <2> DEFINE N == 1 .. (n + 1)
  <2>1. IsFiniteSet(N) /\ 1 \in N /\ \A x \in N : g[x] \in Nat
    <3>1. n + 1 \in Nat
      BY <1>1
    <3> QED
      BY <1>4, <1>5, <3>1, UpTo, Zenon
  <2> HIDE DEF N
  <2>2. Total(g, N \ {1}) = Total(g, N) - g[1]
    BY <2>1, TotalRemove, Zenon
  <2> QED
    BY <2>2, Zenon DEF N
<1>9. (1 .. (n + 1)) \ {1} = 2 .. (n + 1)
  BY <1>1
<1> QED
  BY <1>3, <1>4, <1>6, <1>7, <1>8, <1>9, Zenon DEF t

-----------------------------------------------------------------------------
(* The counters of RequestManager.                                         *)

\* The requests of a set that are for one enclave.
For(S, e) == {r \in S : Target[r] = e}

\* The four counters count the requests of S and their phone numbers.
Counted(S, requests, numbers, requestsOf, numbersOf) ==
  /\ requests = Cardinality(S)
  /\ numbers = Total(AddressCount, S)
  /\ \A e \in Enclaves : /\ requestsOf[e] = Cardinality(For(S, e))
                         /\ numbersOf[e] = Total(AddressCount, For(S, e))

\* A set of requests and the sums over it, with one request more.
LEMMA OneMore ==
  ASSUME NEW S \in SUBSET Requests, IsFiniteSet(S), NEW r \in Requests, r \notin S
  PROVE  /\ IsFiniteSet(S \cup {r})
         /\ Cardinality(S \cup {r}) = Cardinality(S) + 1
         /\ Total(AddressCount, S \cup {r}) = Total(AddressCount, S) + AddressCount[r]
<1>1. AddressCount[r] \in Nat /\ \A q \in S : AddressCount[q] \in Nat
  BY RequestFacts, Zenon
<1> QED
  BY <1>1, TotalAdd, FS_AddElement, Zenon

\* The same with one request less.
LEMMA OneLess ==
  ASSUME NEW S \in SUBSET Requests, IsFiniteSet(S), NEW r \in S
  PROVE  /\ IsFiniteSet(S \ {r})
         /\ Cardinality(S \ {r}) = Cardinality(S) - 1
         /\ Total(AddressCount, S \ {r}) = Total(AddressCount, S) - AddressCount[r]
<1>1. \A q \in S : AddressCount[q] \in Nat
  BY RequestFacts, Zenon
<1> QED
  BY <1>1, TotalRemove, FS_RemoveElement, Zenon

\* Counting a request counts it.
LEMMA CountAdds ==
  ASSUME NEW S \in SUBSET Requests, IsFiniteSet(S), NEW r \in Requests, r \notin S,
         NEW n \in Int, NEW p \in Int,
         NEW pn \in [Enclaves -> Int], NEW pp \in [Enclaves -> Int],
         Counted(S, n, p, pn, pp)
  PROVE  Counted(S \cup {r}, n + 1, p + AddressCount[r],
                 [pn EXCEPT ![Target[r]] = @ + 1],
                 [pp EXCEPT ![Target[r]] = @ + AddressCount[r]])
<1> DEFINE c == AddressCount[r]
           pn2 == [pn EXCEPT ![Target[r]] = @ + 1]
           pp2 == [pp EXCEPT ![Target[r]] = @ + c]
<1>1. n + 1 = Cardinality(S \cup {r}) /\ p + c = Total(AddressCount, S \cup {r})
  BY OneMore, Zenon DEF Counted
<1>2. ASSUME NEW e \in Enclaves
      PROVE  /\ pn2[e] = Cardinality(For(S \cup {r}, e))
             /\ pp2[e] = Total(AddressCount, For(S \cup {r}, e))
  <2>1. pn[e] = Cardinality(For(S, e)) /\ pp[e] = Total(AddressCount, For(S, e))
    BY Zenon DEF Counted
  <2>2. CASE Target[r] = e
    <3>1. For(S \cup {r}, e) = For(S, e) \cup {r}
      BY <2>2, Zenon DEF For
    <3>2. For(S, e) \in SUBSET Requests /\ IsFiniteSet(For(S, e)) /\ r \notin For(S, e)
      BY FS_Subset, Zenon DEF For
    <3>3. /\ Cardinality(For(S, e) \cup {r}) = Cardinality(For(S, e)) + 1
          /\ Total(AddressCount, For(S, e) \cup {r}) = Total(AddressCount, For(S, e)) + c
      BY <3>2, OneMore, Zenon
    <3>4. pn2[e] = pn[e] + 1 /\ pp2[e] = pp[e] + c
      BY <2>2, Zenon
    <3> QED
      BY <2>1, <3>1, <3>3, <3>4, Zenon
  <2>3. CASE Target[r] # e
    <3>1. For(S \cup {r}, e) = For(S, e)
      BY <2>3, Zenon DEF For
    <3>2. pn2[e] = pn[e] /\ pp2[e] = pp[e]
      BY <2>3, Zenon
    <3> QED
      BY <2>1, <3>1, <3>2, Zenon
  <2> QED
    BY <2>2, <2>3, Zenon
<1> HIDE DEF c, pn2, pp2
<1>3. Counted(S \cup {r}, n + 1, p + c, pn2, pp2)
  BY <1>1, <1>2, Zenon DEF Counted
<1> QED
  BY <1>3, Zenon DEF c, pn2, pp2

\* Uncounting a request that is counted takes it out.
LEMMA UncountRemoves ==
  ASSUME NEW S \in SUBSET Requests, IsFiniteSet(S), NEW r \in S,
         NEW n \in Int, NEW p \in Int,
         NEW pn \in [Enclaves -> Int], NEW pp \in [Enclaves -> Int],
         Counted(S, n, p, pn, pp)
  PROVE  Counted(S \ {r}, n - 1, p - AddressCount[r],
                 [pn EXCEPT ![Target[r]] = @ - 1],
                 [pp EXCEPT ![Target[r]] = @ - AddressCount[r]])
<1> DEFINE c == AddressCount[r]
           pn2 == [pn EXCEPT ![Target[r]] = @ - 1]
           pp2 == [pp EXCEPT ![Target[r]] = @ - c]
<1>1. n - 1 = Cardinality(S \ {r}) /\ p - c = Total(AddressCount, S \ {r})
  BY OneLess, Zenon DEF Counted
<1>2. ASSUME NEW e \in Enclaves
      PROVE  /\ pn2[e] = Cardinality(For(S \ {r}, e))
             /\ pp2[e] = Total(AddressCount, For(S \ {r}, e))
  <2>1. pn[e] = Cardinality(For(S, e)) /\ pp[e] = Total(AddressCount, For(S, e))
    BY Zenon DEF Counted
  <2>2. CASE Target[r] = e
    <3>1. For(S \ {r}, e) = For(S, e) \ {r}
      BY <2>2, Zenon DEF For
    <3>2. For(S, e) \in SUBSET Requests /\ IsFiniteSet(For(S, e)) /\ r \in For(S, e)
      BY <2>2, FS_Subset, Zenon DEF For
    <3>3. /\ Cardinality(For(S, e) \ {r}) = Cardinality(For(S, e)) - 1
          /\ Total(AddressCount, For(S, e) \ {r}) = Total(AddressCount, For(S, e)) - c
      BY <3>2, OneLess, Zenon
    <3>4. pn2[e] = pn[e] - 1 /\ pp2[e] = pp[e] - c
      BY <2>2, Zenon
    <3> QED
      BY <2>1, <3>1, <3>3, <3>4, Zenon
  <2>3. CASE Target[r] # e
    <3>1. For(S \ {r}, e) = For(S, e)
      BY <2>3 DEF For
    <3>2. pn2[e] = pn[e] /\ pp2[e] = pp[e]
      BY <2>3, Zenon
    <3> QED
      BY <2>1, <3>1, <3>2, Zenon
  <2> QED
    BY <2>2, <2>3, Zenon
<1> HIDE DEF c, pn2, pp2
<1>3. Counted(S \ {r}, n - 1, p - c, pn2, pp2)
  BY <1>1, <1>2, Zenon DEF Counted
<1> QED
  BY <1>3, Zenon DEF c, pn2, pp2

-----------------------------------------------------------------------------
(* The address counts at every step.                                       *)

listVars == <<queue, addressCount, batch, resultAddressCount, toFlush>>

\* Taking the first request of a queue moves its numbers to the batch.
LEMMA MoveKeepsAddressCounts ==
  ASSUME NEW w \in Workers, NEW e \in Enclaves, TypeOK, AddressCountExact,
         queue[e] # <<>>, removeFirst(w, e), toFlush' = toFlush
  PROVE  AddressCountExact'
<1> DEFINE r == Head(queue[e])
<1>1. /\ queue \in [Enclaves -> Seq(Requests)] /\ addressCount \in [Enclaves -> Int]
      /\ batch \in [Workers -> Seq(Requests)] /\ resultAddressCount \in [Workers -> Nat]
  BY Zenon DEF TypeOK, QueueTypeOK, WorkerTypeOK
<1>2. r \in Requests
  BY <1>1
<1>3. /\ queue' = [queue EXCEPT ![e] = Tail(queue[e])]
      /\ addressCount' = [addressCount EXCEPT ![e] = addressCount[e] - AddressCount[r]]
      /\ batch' = [batch EXCEPT ![w] = Append(batch[w], r)]
      /\ resultAddressCount' =
           [resultAddressCount EXCEPT ![w] = resultAddressCount[w] + AddressCount[r]]
  BY Zenon DEF removeFirst
<1> HIDE DEF r
<1>4. PhoneNumbers(Tail(queue[e])) = PhoneNumbers(queue[e]) - AddressCount[r]
  BY <1>1, NumbersTail, Zenon DEF r
<1>5. PhoneNumbers(Append(batch[w], r)) = PhoneNumbers(batch[w]) + AddressCount[r]
  BY <1>1, <1>2, NumbersAppend, Zenon
<1>6. ASSUME NEW f \in Enclaves \ toFlush' PROVE addressCount'[f] = PhoneNumbers(queue'[f])
  <2>1. addressCount[f] = PhoneNumbers(queue[f])
    BY <1>6, Zenon DEF AddressCountExact
  <2>2. CASE f = e
    BY <1>1, <1>3, <1>4, <2>1, <2>2, Zenon
  <2>3. CASE f # e
    BY <1>1, <1>3, <2>1, <2>3, Zenon
  <2> QED
    BY <2>2, <2>3, Zenon
<1>7. ASSUME NEW v \in Workers PROVE resultAddressCount'[v] = PhoneNumbers(batch'[v])
  <2>1. resultAddressCount[v] = PhoneNumbers(batch[v])
    BY Zenon DEF AddressCountExact
  <2>2. CASE v = w
    BY <1>1, <1>3, <1>5, <2>1, <2>2, Zenon
  <2>3. CASE v # w
    BY <1>1, <1>3, <2>1, <2>3, Zenon
  <2> QED
    BY <2>2, <2>3, Zenon
<1> QED
  BY <1>6, <1>7, Zenon DEF AddressCountExact, PhoneNumbers

\* put adds the numbers of the request to its queue.
LEMMA PutKeepsAddressCounts ==
  ASSUME NEW r \in Requests, TypeOK, AddressCountExact, Put(r)
  PROVE  AddressCountExact'
<1> DEFINE e == Target[r]
<1>1. queue \in [Enclaves -> Seq(Requests)] /\ addressCount \in [Enclaves -> Int]
  BY Zenon DEF TypeOK, QueueTypeOK
<1>2. e \in Enclaves
  BY RequestFacts, Zenon
<1>3. /\ queue' = [queue EXCEPT ![e] = Append(queue[e], r)]
      /\ addressCount' = [addressCount EXCEPT ![e] = addressCount[e] + AddressCount[r]]
      /\ UNCHANGED <<batch, resultAddressCount, toFlush>>
  BY Zenon DEF Put, flushVars
<1> HIDE DEF e
<1>4. PhoneNumbers(Append(queue[e], r)) = PhoneNumbers(queue[e]) + AddressCount[r]
  BY <1>1, <1>2, NumbersAppend, Zenon
<1>5. ASSUME NEW f \in Enclaves \ toFlush' PROVE addressCount'[f] = PhoneNumbers(queue'[f])
  <2>1. addressCount[f] = PhoneNumbers(queue[f])
    BY <1>3, <1>5, Zenon DEF AddressCountExact
  <2>2. CASE f = e
    BY <1>1, <1>3, <1>4, <2>1, <2>2, Zenon
  <2>3. CASE f # e
    BY <1>1, <1>3, <2>1, <2>3, Zenon
  <2> QED
    BY <2>2, <2>3, Zenon
<1>6. ASSUME NEW v \in Workers PROVE resultAddressCount'[v] = PhoneNumbers(batch'[v])
  BY <1>3, Zenon DEF AddressCountExact
<1> QED
  BY <1>5, <1>6, Zenon DEF AddressCountExact, PhoneNumbers

\* A flush only touches the queues it has still to finish, and resets the count
\* of a queue when the queue is empty.
LEMMA FlushKeepsAddressCounts ==
  ASSUME TypeOK, AddressCountExact, NEW e \in Enclaves, FlushRequest(e) \/ FlushQueue(e)
  PROVE  AddressCountExact'
<1>1. queue \in [Enclaves -> Seq(Requests)] /\ addressCount \in [Enclaves -> Int]
  BY Zenon DEF TypeOK, QueueTypeOK
<1>2. UNCHANGED <<batch, resultAddressCount>> /\ e \in toFlush
  BY Zenon DEF FlushRequest, FlushQueue, workerVars
<1>3. ASSUME NEW f \in Enclaves \ toFlush' PROVE addressCount'[f] = PhoneNumbers(queue'[f])
  <2>1. CASE FlushRequest(e)
    <3>1. f # e /\ f \notin toFlush
      BY <1>2, <1>3, <2>1, Zenon DEF FlushRequest
    <3>2. queue'[f] = queue[f] /\ addressCount'[f] = addressCount[f]
      BY <1>1, <2>1, <3>1, Zenon DEF FlushRequest
    <3> QED
      BY <3>1, <3>2, Zenon DEF AddressCountExact
  <2>2. CASE FlushQueue(e) /\ f = e
    BY <1>1, <2>2, NumbersEmpty, Zenon DEF FlushQueue
  <2>3. CASE FlushQueue(e) /\ f # e
    <3>1. f \notin toFlush
      BY <1>3, <2>3, Zenon DEF FlushQueue
    <3>2. queue'[f] = queue[f] /\ addressCount'[f] = addressCount[f]
      BY <1>1, <2>3, Zenon DEF FlushQueue
    <3> QED
      BY <3>1, <3>2, Zenon DEF AddressCountExact
  <2> QED
    BY <2>1, <2>2, <2>3, Zenon
<1>4. ASSUME NEW v \in Workers PROVE resultAddressCount'[v] = PhoneNumbers(batch'[v])
  BY <1>2, Zenon DEF AddressCountExact
<1> QED
  BY <1>3, <1>4, Zenon DEF AddressCountExact, PhoneNumbers

\* A worker that is done with its batch starts from nothing.
LEMMA ReturnKeepsAddressCounts ==
  ASSUME NEW w \in Workers, TypeOK, AddressCountExact, BatchReturns(w)
  PROVE  AddressCountExact'
<1>1. batch \in [Workers -> Seq(Requests)] /\ resultAddressCount \in [Workers -> Nat]
  BY Zenon DEF TypeOK, WorkerTypeOK
<1>2. /\ UNCHANGED <<queue, addressCount, toFlush>>
      /\ batch' = [batch EXCEPT ![w] = <<>>]
      /\ resultAddressCount' = [resultAddressCount EXCEPT ![w] = 0]
  BY Zenon DEF BatchReturns, queueVars, flushVars
<1>3. ASSUME NEW f \in Enclaves \ toFlush' PROVE addressCount'[f] = PhoneNumbers(queue'[f])
  BY <1>2, <1>3, Zenon DEF AddressCountExact
<1>4. ASSUME NEW v \in Workers PROVE resultAddressCount'[v] = PhoneNumbers(batch'[v])
  <2>1. CASE v = w
    BY <1>1, <1>2, <2>1, NumbersEmpty, Zenon
  <2>2. CASE v # w
    BY <1>1, <1>2, <2>2, Zenon DEF AddressCountExact
  <2> QED
    BY <2>1, <2>2, Zenon
<1> QED
  BY <1>3, <1>4, Zenon DEF AddressCountExact, PhoneNumbers

\* Nothing is queued and nothing is counted at the start.
LEMMA AddressCountsInit == Init => AddressCountExact
  BY NumbersEmpty, ZenonT(30) DEF Init, AddressCountExact

\* Every step keeps the address counts exact.
LEMMA AddressCountsNext ==
  TypeOK /\ AddressCountExact /\ [Next]_vars => AddressCountExact'
<1> SUFFICES ASSUME TypeOK, AddressCountExact, [Next]_vars PROVE AddressCountExact'
  BY Zenon
<1>1. ASSUME UNCHANGED listVars PROVE AddressCountExact'
  BY <1>1, Zenon DEF listVars, AddressCountExact, PhoneNumbers
<1>2. ASSUME NEW r \in Requests, Client(r) PROVE AddressCountExact'
  <2>1. CASE Put(r)
    BY <2>1, PutKeepsAddressCounts, Zenon
  <2>2. CASE Shed(r) \/ Admit(r) \/ Count(r) \/ Register(r) \/ Deliver(r)
    BY <1>1, <2>2, Zenon DEF Shed, Admit, Count, Register, Deliver, queueVars, workerVars,
                      flushVars, listVars
  <2> QED
    BY <1>2, <2>1, <2>2, Zenon DEF Client
<1>3. ASSUME NEW w \in Workers, Thread(w) PROVE AddressCountExact'
  <2>1. CASE Get(w)
    BY <2>1, ChoosableIsEnclave, MoveKeepsAddressCounts, Zenon DEF Get, flushVars
  <2>2. CASE TakeNext(w)
    BY <2>2, MoveKeepsAddressCounts, Zenon DEF TakeNext, NextFits, TypeOK, flushVars
  <2>3. CASE BatchReturns(w)
    BY <2>3, ReturnKeepsAddressCounts, Zenon
  <2>4. CASE Wait(w) \/ GetReturns(w) \/ Answer(w) \/ BatchThrows(w)
    BY <1>1, <2>4, Zenon DEF Wait, GetReturns, Answer, BatchThrows, queueVars, workerVars,
                      flushVars, listVars
  <2> QED
    BY <1>3, <2>1, <2>2, <2>3, <2>4, Zenon DEF Thread
<1>4. CASE FlushPendingQueues
  <2>1. toFlush' = Enclaves /\ UNCHANGED <<batch, resultAddressCount>>
    BY <1>4, Zenon DEF FlushPendingQueues, workerVars
  <2> QED
    BY <2>1, Zenon DEF AddressCountExact, PhoneNumbers
<1>5. CASE FlushTaskOutput \/ Tick \/ UNCHANGED vars
  BY <1>1, <1>5, Zenon DEF FlushTaskOutput, Tick, vars, queueVars, workerVars, flushVars, listVars
<1> QED
  BY <1>2, <1>3, <1>4, <1>5, FlushKeepsAddressCounts, Zenon DEF Next, Flusher

-----------------------------------------------------------------------------
(* The counters at every step.                                             *)

USE DEF Outstanding, Done

\* A request whose HTTP thread has put it has a future.
OutstandingHasFuture ==
  \A r \in Requests : pc[r] \in Outstanding => future[r] # "none"

\* The counters are exact, and finitely many requests are in flight.
CountersInv ==
  /\ OutstandingHasFuture
  /\ IsFiniteSet(InFlight)
  /\ Counted(InFlight, pendingRequests, pendingPhoneNumbers,
             perEnclavePendingRequests, perEnclavePendingPhoneNumbers)

\* Nothing is in flight at the start.
LEMMA CountersInit == Init => CountersInv
<1> SUFFICES ASSUME Init PROVE CountersInv
  BY Zenon
<1>1. OutstandingHasFuture /\ InFlight = {}
  BY Zenon DEF Init, OutstandingHasFuture, InFlight
<1>2. \A e \in Enclaves : For({}, e) = {}
  BY Zenon DEF For
<1>3. Cardinality({}) = 0 /\ IsFiniteSet({}) /\ Total(AddressCount, {}) = 0
  BY FS_EmptySet, TotalEmpty, Zenon
<1>4. /\ pendingRequests = 0 /\ pendingPhoneNumbers = 0
      /\ \A e \in Enclaves : perEnclavePendingRequests[e] = 0
                             /\ perEnclavePendingPhoneNumbers[e] = 0
  BY Zenon DEF Init
<1>5. Counted({}, pendingRequests, pendingPhoneNumbers,
              perEnclavePendingRequests, perEnclavePendingPhoneNumbers)
  BY <1>2, <1>3, <1>4, Zenon DEF Counted
<1> QED
  BY <1>1, <1>3, <1>5, Zenon DEF CountersInv

\* A step that changes neither who is in flight nor the counters.
LEMMA CountersStay ==
  ASSUME CountersInv, OutstandingHasFuture', InFlight' = InFlight, UNCHANGED counterVars
  PROVE  CountersInv'
<1>1. IsFiniteSet(InFlight)' /\ UNCHANGED <<pendingRequests, pendingPhoneNumbers,
         perEnclavePendingRequests, perEnclavePendingPhoneNumbers>>
  BY Zenon DEF CountersInv, counterVars
<1>2. Counted(InFlight', pendingRequests', pendingPhoneNumbers',
              perEnclavePendingRequests', perEnclavePendingPhoneNumbers')
  BY <1>1, Zenon DEF CountersInv
<1> QED
  BY <1>1, <1>2, Zenon DEF CountersInv, Counted, Total, For

\* A step that completes the future of a request with its callback.
LEMMA CountersDrop ==
  ASSUME CountersInv, CounterTypeOK, OutstandingHasFuture',
         NEW r \in InFlight, InFlight' = InFlight \ {r}, UncountRequest(r)
  PROVE  CountersInv'
<1>1. InFlight \in SUBSET Requests /\ IsFiniteSet(InFlight)
  BY Zenon DEF InFlight, CountersInv
<1>2. /\ pendingRequests \in Int /\ pendingPhoneNumbers \in Int
      /\ perEnclavePendingRequests \in [Enclaves -> Int]
      /\ perEnclavePendingPhoneNumbers \in [Enclaves -> Int]
  BY Zenon DEF CounterTypeOK
<1>3. Counted(InFlight \ {r}, pendingRequests - 1, pendingPhoneNumbers - AddressCount[r],
              [perEnclavePendingRequests EXCEPT ![Target[r]] = @ - 1],
              [perEnclavePendingPhoneNumbers EXCEPT ![Target[r]] = @ - AddressCount[r]])
  BY <1>1, <1>2, UncountRemoves, Zenon DEF CountersInv
<1>4. Counted(InFlight', pendingRequests', pendingPhoneNumbers',
              perEnclavePendingRequests', perEnclavePendingPhoneNumbers')
  BY <1>3, Zenon DEF UncountRequest
<1>5. IsFiniteSet(InFlight')
  BY <1>1, FS_RemoveElement, Zenon
<1> QED
  BY <1>4, <1>5, Zenon DEF CountersInv, Counted, Total, For

\* A completion: the callback runs if and only if it is registered.
LEMMA CompletionKeepsCounters ==
  ASSUME TypeOK, CountersInv, NEW r \in Requests, future[r] = "pending",
         NEW outcome \in Done, future' = [future EXCEPT ![r] = outcome],
         pc' = pc, OnComplete(r)
  PROVE  CountersInv'
<1>1. /\ pc \in [Requests -> {"idle", "shed", "admitted", "counted"} \cup Outstanding]
      /\ future \in [Requests -> {"none", "pending"} \cup Done]
      /\ CounterTypeOK
  BY Zenon DEF TypeOK, ClientTypeOK
<1>2. OutstandingHasFuture'
  BY <1>1, Zenon DEF CountersInv, OutstandingHasFuture
<1>3. CASE pc[r] = "submitted"
  <2>1. r \in InFlight /\ InFlight' = InFlight \ {r}
    BY <1>1, <1>3, Zenon DEF InFlight
  <2>2. UncountRequest(r)
    BY <1>3, Zenon DEF OnComplete
  <2> QED
    BY <1>1, <1>2, <2>1, <2>2, CountersDrop, Zenon
<1>4. CASE pc[r] # "submitted"
  <2>1. InFlight' = InFlight
    BY <1>1, <1>4, Zenon DEF InFlight
  <2> QED
    BY <1>2, <1>4, <2>1, CountersStay, Zenon DEF OnComplete
<1> QED
  BY <1>3, <1>4, Zenon

\* Counting a request puts it in flight.
LEMMA CountKeepsCounters ==
  ASSUME TypeOK, CountersInv, NEW r \in Requests, Count(r)
  PROVE  CountersInv'
<1>1. /\ pc \in [Requests -> {"idle", "shed", "admitted", "counted"} \cup Outstanding]
      /\ pendingRequests \in Int /\ pendingPhoneNumbers \in Int
      /\ perEnclavePendingRequests \in [Enclaves -> Int]
      /\ perEnclavePendingPhoneNumbers \in [Enclaves -> Int]
  BY Zenon DEF TypeOK, ClientTypeOK, CounterTypeOK
<1>2. pc[r] = "admitted" /\ pc' = [pc EXCEPT ![r] = "counted"] /\ future' = future
  BY Zenon DEF Count
<1>3. OutstandingHasFuture'
  BY <1>1, <1>2, Zenon DEF CountersInv, OutstandingHasFuture
<1>4. r \notin InFlight /\ InFlight' = InFlight \cup {r}
  BY <1>1, <1>2, Zenon DEF InFlight
<1>5. InFlight \in SUBSET Requests /\ IsFiniteSet(InFlight)
  BY Zenon DEF InFlight, CountersInv
<1>6. Counted(InFlight \cup {r}, pendingRequests + 1, pendingPhoneNumbers + AddressCount[r],
              [perEnclavePendingRequests EXCEPT ![Target[r]] = @ + 1],
              [perEnclavePendingPhoneNumbers EXCEPT ![Target[r]] = @ + AddressCount[r]])
  BY <1>1, <1>4, <1>5, CountAdds, Zenon DEF CountersInv
<1>7. Counted(InFlight', pendingRequests', pendingPhoneNumbers',
              perEnclavePendingRequests', perEnclavePendingPhoneNumbers')
  BY <1>4, <1>6, Zenon DEF Count
<1>8. IsFiniteSet(InFlight')
  BY <1>4, <1>5, FS_AddElement, Zenon
<1> QED
  BY <1>3, <1>7, <1>8, Zenon DEF CountersInv, Counted, Total, For

\* The callback that is registered too late to be called by the completing
\* thread is called by the registering one.
LEMMA RegisterKeepsCounters ==
  ASSUME TypeOK, CountersInv, NEW r \in Requests, Register(r)
  PROVE  CountersInv'
<1>1. /\ pc \in [Requests -> {"idle", "shed", "admitted", "counted"} \cup Outstanding]
      /\ future \in [Requests -> {"none", "pending"} \cup Done]
      /\ CounterTypeOK
  BY Zenon DEF TypeOK, ClientTypeOK
<1>2. pc[r] = "put" /\ pc' = [pc EXCEPT ![r] = "submitted"] /\ future' = future
  BY Zenon DEF Register
<1>3. OutstandingHasFuture'
  BY <1>1, <1>2, Zenon DEF CountersInv, OutstandingHasFuture
<1>4. CASE future[r] \in Done
  <2>1. r \in InFlight /\ InFlight' = InFlight \ {r}
    BY <1>1, <1>2, <1>4, Zenon DEF InFlight
  <2>2. UncountRequest(r)
    BY <1>4, Zenon DEF Register
  <2> QED
    BY <1>1, <1>3, <2>1, <2>2, CountersDrop, Zenon
<1>5. CASE future[r] \notin Done
  <2>1. future[r] = "pending"
    BY <1>1, <1>2, <1>5, Zenon DEF CountersInv, OutstandingHasFuture
  <2>2. InFlight' = InFlight
    BY <1>1, <1>2, <2>1, Zenon DEF InFlight
  <2> QED
    BY <1>3, <1>5, <2>2, CountersStay, Zenon DEF Register
<1> QED
  BY <1>4, <1>5, Zenon

\* Every step keeps the counters exact.
LEMMA CountersNext ==
  TypeOK /\ Placement /\ CountersInv /\ [Next]_vars => CountersInv'
<1> SUFFICES ASSUME TypeOK, Placement, CountersInv, [Next]_vars PROVE CountersInv'
  BY Zenon
<1>1. /\ pc \in [Requests -> {"idle", "shed", "admitted", "counted"} \cup Outstanding]
      /\ future \in [Requests -> {"none", "pending"} \cup Done]
  BY Zenon DEF TypeOK, ClientTypeOK
<1>2. ASSUME UNCHANGED <<pc, future, counterVars>> PROVE CountersInv'
  <2>1. OutstandingHasFuture' /\ InFlight' = InFlight
    BY <1>2, Zenon DEF CountersInv, OutstandingHasFuture, InFlight
  <2> QED
    BY <1>2, <2>1, CountersStay, Zenon
<1>3. ASSUME NEW r \in Requests, Client(r) PROVE CountersInv'
  <2>1. CASE Shed(r) \/ Admit(r) \/ Put(r) \/ Deliver(r)
    <3>1. UNCHANGED counterVars
      BY <2>1, Zenon DEF Shed, Admit, Put, Deliver
    <3>2. OutstandingHasFuture'
      BY <1>1, <2>1, Zenon DEF Shed, Admit, Put, Deliver, CountersInv, OutstandingHasFuture
    <3>3. InFlight' = InFlight
      BY <1>1, <2>1, Zenon DEF Shed, Admit, Put, Deliver, InFlight
    <3> QED
      BY <3>1, <3>2, <3>3, CountersStay, Zenon
  <2> QED
    BY <1>3, <2>1, CountKeepsCounters, RegisterKeepsCounters, Zenon DEF Client
<1>4. ASSUME NEW w \in Workers, Thread(w) PROVE CountersInv'
  <2>1. CASE Answer(w)
    <3>1. PICK i \in 1 .. Len(batch[w]), outcome \in {"replied", "failed"} :
            /\ future[batch[w][i]] = "pending"
            /\ future' = [future EXCEPT ![batch[w][i]] = outcome]
            /\ OnComplete(batch[w][i])
      BY <2>1, Zenon DEF Answer
    <3>2. batch[w][i] \in Requests
      <4>1. batch[w] \in Seq(Requests)
        BY Zenon DEF TypeOK, WorkerTypeOK
      <4> QED
        BY <4>1
    <3>3. pc' = pc
      BY <2>1, Zenon DEF Answer
    <3> QED
      BY <3>1, <3>2, <3>3, CompletionKeepsCounters, Zenon
  <2>2. CASE Get(w) \/ Wait(w) \/ TakeNext(w) \/ GetReturns(w) \/ BatchReturns(w)
             \/ BatchThrows(w)
    BY <1>2, <2>2, Zenon DEF Get, Wait, TakeNext, GetReturns, BatchReturns, BatchThrows
  <2> QED
    BY <1>4, <2>1, <2>2, Zenon DEF Thread
<1>5. ASSUME NEW e \in Enclaves, FlushRequest(e) PROVE CountersInv'
  <2> DEFINE r == Head(queue[e])
  <2>1. 1 \in DOMAIN queue[e] /\ r = queue[e][1] /\ r \in Requests
    <3>1. queue[e] \in Seq(Requests)
      BY Zenon DEF TypeOK, QueueTypeOK
    <3>2. queue[e] # <<>>
      BY <1>5, Zenon DEF FlushRequest
    <3> QED
      BY <3>1, <3>2
  <2>2. future[r] = "pending"
    BY <2>1 DEF Placement, QueuedIsPending
  <2>3. future' = [future EXCEPT ![r] = "flushed"] /\ pc' = pc /\ OnComplete(r)
    BY <1>5, Zenon DEF FlushRequest
  <2> HIDE DEF r
  <2> QED
    BY <2>1, <2>2, <2>3, CompletionKeepsCounters, Zenon
<1>6. ASSUME NEW e \in Enclaves, FlushQueue(e) PROVE CountersInv'
  BY <1>2, <1>6, Zenon DEF FlushQueue
<1>7. CASE FlushPendingQueues \/ FlushTaskOutput \/ Tick \/ UNCHANGED vars
  BY <1>2, <1>7, Zenon DEF FlushPendingQueues, FlushTaskOutput, Tick, vars
<1> QED
  BY <1>3, <1>4, <1>5, <1>6, <1>7, Zenon DEF Next, Flusher

\* All counts the queues and load shedding go by are exact: addressCount and
\* resultAddressCount outside a flush, and the four counters of RequestManager,
\* however the registration of the callback and the completion race.
THEOREM BookkeepingTheorem == Spec => []BookkeepingExact
<1>1. CountersInv => CountersExact
  BY Zenon DEF CountersInv, Counted, For, CountersExact
<1>2. AddressCountExact /\ CountersInv => BookkeepingExact
  BY <1>1, Zenon DEF BookkeepingExact
<1> QED
  BY <1>2, TypeInit, TypeNext, PlacementInit, PlacementNext, AddressCountsInit,
     AddressCountsNext, CountersInit, CountersNext, PTL DEF Spec

-----------------------------------------------------------------------------
(* The order of a queue.                                                   *)

\* What FirstInFirstOut says of the lists before and after one step.
InOrder(old, new) ==
  IF Len(old) <= Len(new) THEN old = SubSeq(new, 1, Len(old))
  ELSE new = SubSeq(old, Len(old) - Len(new) + 1, Len(old))

\* A list is in order with itself, with one request more at its end, and with
\* one request less at its front.
LEMMA OneMoveInOrder ==
  ASSUME NEW s \in Seq(Requests)
  PROVE  /\ InOrder(s, s)
         /\ \A r \in Requests : InOrder(s, Append(s, r))
         /\ s # <<>> => InOrder(s, Tail(s))
<1>1. InOrder(s, s)
  BY DEF InOrder
<1>2. ASSUME NEW r \in Requests PROVE InOrder(s, Append(s, r))
  BY DEF InOrder
<1>3. ASSUME s # <<>> PROVE InOrder(s, Tail(s))
  <2>1. Len(Tail(s)) = Len(s) - 1 /\ Len(s) \in Nat \ {0}
    BY <1>3
  <2>2. Tail(s) = SubSeq(s, 2, Len(s))
    BY <1>3
  <2>3. ~(Len(s) <= Len(Tail(s))) /\ Len(s) - Len(Tail(s)) + 1 = 2
    BY <2>1
  <2> QED
    BY <2>2, <2>3, Zenon DEF InOrder
<1> QED
  BY <1>1, <1>2, <1>3, Zenon

\* Every step adds at the end of a queue or takes from its front.
LEMMA OrderNext ==
  TypeOK /\ [Next]_vars => \A e \in Enclaves : InOrder(queue[e], queue'[e])
<1> SUFFICES ASSUME TypeOK, [Next]_vars, NEW e \in Enclaves
             PROVE  InOrder(queue[e], queue'[e])
  BY Zenon
<1> DEFINE Moved == \/ queue'[e] = queue[e]
                    \/ \E r \in Requests : queue'[e] = Append(queue[e], r)
                    \/ queue[e] # <<>> /\ queue'[e] = Tail(queue[e])
<1>1. queue \in [Enclaves -> Seq(Requests)] /\ queue[e] \in Seq(Requests)
  BY Zenon DEF TypeOK, QueueTypeOK
<1>2. Moved
  <2>1. ASSUME NEW r \in Requests, Put(r) PROVE Moved
    BY <1>1, <2>1, RequestFacts, Zenon DEF Put
  <2>2. ASSUME NEW f \in Enclaves, queue[f] # <<>>, queue' = [queue EXCEPT ![f] = Tail(@)]
        PROVE  Moved
    BY <1>1, <2>2, Zenon
  <2>3. CASE UNCHANGED queue
    BY <2>3, Zenon
  <2>4. ASSUME NEW r \in Requests, Client(r) PROVE Moved
    BY <2>1, <2>3, <2>4, Zenon DEF Client, Shed, Admit, Count, Register, Deliver, queueVars
  <2>5. ASSUME NEW w \in Workers, Thread(w) PROVE Moved
    <3>1. CASE Get(w)
      BY <2>2, <3>1, ChoosableIsEnclave, Zenon DEF Get, removeFirst
    <3>2. CASE TakeNext(w)
      BY <2>2, <3>2, Zenon DEF TakeNext, NextFits, removeFirst, TypeOK
    <3> QED
      BY <2>3, <2>5, <3>1, <3>2, Zenon DEF Thread, Wait, GetReturns, Answer, BatchReturns,
                                    BatchThrows, queueVars
  <2>6. CASE Flusher
    BY <2>2, <2>3, <2>6, Zenon DEF Flusher, FlushPendingQueues, FlushRequest, FlushQueue,
                            FlushTaskOutput, queueVars
  <2> QED
    BY <2>3, <2>4, <2>5, <2>6, Zenon DEF Next, Tick, vars, queueVars
<1> QED
  BY <1>1, <1>2, OneMoveInOrder, Zenon

\* Requests leave a queue in the order in which they were put, whoever takes
\* them: a worker's get or a flush.
THEOREM FirstInFirstOutTheorem == Spec => FirstInFirstOut
<1>1. TypeOK /\ [Next]_vars =>
        [\A e \in Enclaves :
           LET old == queue[e]
               new == queue'[e]
           IN  IF Len(old) <= Len(new) THEN old = SubSeq(new, 1, Len(old))
               ELSE new = SubSeq(old, Len(old) - Len(new) + 1, Len(old))]_vars
  BY OrderNext, Zenon DEF InOrder
<1> QED
  BY <1>1, TypeInit, TypeNext, PTL DEF Spec, FirstInFirstOut

=============================================================================
