--------------------------- MODULE PendingRequests ---------------------------
(***************************************************************************)
(* The request path of the service between an HTTP handler and the enclave *)
(* threads: RequestManager, PendingRequestQueueSet and PendingRequestQueue.*)
(*                                                                         *)
(* A member of Requests is a client that has at most one request in        *)
(* flight.  When its response has been delivered it may submit again, so   *)
(* the number of requests in a behaviour is unbounded.                     *)
(***************************************************************************)
EXTENDS Integers, Sequences, FiniteSets

CONSTANTS
  Requests,           \* clients, each with at most one request in flight
  Enclaves,           \* enclave ids, one PendingRequestQueue each
  Workers,            \* EnclaveThreads
  AddressCount,       \* request -> number of phone numbers it asks about
  Target,             \* request -> enclave it is addressed to
  Priority,           \* requests whose context is "Initial" or "Interactive"
  TargetBatchSize,    \* targetBatchSize of the configuration
  MaxWait,            \* MAX_WAIT, in ticks
  MaxAge,             \* bound on the measured age of a queue, in ticks
  MinBacklogDefault,  \* MIN_BACKLOG_SIZE_DEFAULT
  MinBacklogPriority, \* MIN_BACKLOG_SIZE_PRIORITY
  MaxBacklogTime,     \* MAX_BACKLOG_TIME
  MaxBacklogTimePriority, \* MAX_BACKLOG_TIME_PRIORITY
  MinRate,            \* the rate below which measurements are not believed
  Rates               \* rates the one-minute meter may report

\* A request names at least one phone number (DiscoveryRequest: @Min(1)), its
\* enclave is configured, and a batch has room for at least one number.
ASSUME RequestAssumption ==
  /\ AddressCount \in [Requests -> Nat \ {0}]
  /\ Target \in [Requests -> Enclaves]
  /\ Priority \subseteq Requests

ASSUME BoundAssumption ==
  /\ TargetBatchSize \in Nat \ {0}
  /\ MaxWait \in Nat
  /\ MaxAge \in Nat
  /\ MaxAge > MaxWait
  /\ MinRate \in Nat \ {0}
  /\ Rates \subseteq Nat
  /\ {MinBacklogDefault, MinBacklogPriority,
      MaxBacklogTime, MaxBacklogTimePriority} \subseteq Nat

VARIABLES
  pc,            \* where each client's HTTP thread is in submit()
  future,        \* the CompletableFuture of each request
  queue,         \* enclave -> its LinkedList of requests
  addressCount,  \* enclave -> the addressCount field of its queue
  age,           \* enclave -> currentTime - lastGet, NoGet when lastGet = 0
  worker,        \* worker -> what its thread is doing
  source,        \* worker -> enclave whose queue its batch came from
  batch,         \* worker -> the requests it took
  resultAddressCount,            \* worker -> phone numbers in its batch
  flusher,       \* "idle", "flushing" (in flushQueues) or "returned"
  toFlush,       \* enclaves whose queue flushQueues has still to empty
  subtotal,      \* flushQueues' running sum, the number the task prints
  flushedFutures,                \* history: futures this flush completed
  pendingRequests,               \* the counters of RequestManager
  pendingPhoneNumbers,
  perEnclavePendingRequests,
  perEnclavePendingPhoneNumbers

queueVars   == <<queue, addressCount, age>>
workerVars  == <<worker, source, batch, resultAddressCount>>
flushVars   == <<flusher, toFlush, subtotal, flushedFutures>>
counterVars == <<pendingRequests, pendingPhoneNumbers,
                 perEnclavePendingRequests, perEnclavePendingPhoneNumbers>>
vars == <<pc, future, queueVars, workerVars, flushVars, counterVars>>

NoGet == -1
NoEnclave == "none"

Outstanding == {"put", "submitted"}
Done        == {"replied", "failed", "flushed"}

Init ==
  /\ pc = [r \in Requests |-> "idle"]
  /\ future = [r \in Requests |-> "none"]
  /\ queue = [e \in Enclaves |-> <<>>]
  /\ addressCount = [e \in Enclaves |-> 0]
  /\ age = [e \in Enclaves |-> NoGet]
  /\ worker = [w \in Workers |-> "get"]
  /\ source = [w \in Workers |-> NoEnclave]
  /\ batch = [w \in Workers |-> <<>>]
  /\ resultAddressCount = [w \in Workers |-> 0]
  /\ flusher = "idle"
  /\ toFlush = {}
  /\ subtotal = 0
  /\ flushedFutures = 0
  /\ pendingRequests = 0
  /\ pendingPhoneNumbers = 0
  /\ perEnclavePendingRequests = [e \in Enclaves |-> 0]
  /\ perEnclavePendingPhoneNumbers = [e \in Enclaves |-> 0]

-----------------------------------------------------------------------------
(***************************************************************************)
(* RequestManager.submit, run by the HTTP thread of client r.  The check,  *)
(* the counting, the put and the registration of the completion callback   *)
(* are separate steps: no lock spans two of them.                          *)
(***************************************************************************)
estimateTimeToProcessBacklog(backlog, rate) ==
  backlog \div (IF rate > MinRate THEN rate ELSE MinRate)

shouldLoadShedRequest(r, rate) ==
  LET backlog == AddressCount[r] + pendingPhoneNumbers
      time    == estimateTimeToProcessBacklog(backlog, rate)
  IN  IF r \in Priority
      THEN backlog >= MinBacklogPriority /\ time >= MaxBacklogTimePriority
      ELSE backlog >= MinBacklogDefault /\ time >= MaxBacklogTime

Shed(r) ==
  /\ pc[r] = "idle"
  /\ \E rate \in Rates : shouldLoadShedRequest(r, rate)
  /\ pc' = [pc EXCEPT ![r] = "shed"]
  /\ UNCHANGED <<flushVars, future, queueVars, workerVars, counterVars>>

Admit(r) ==
  /\ pc[r] = "idle"
  /\ \E rate \in Rates : ~shouldLoadShedRequest(r, rate)
  /\ pc' = [pc EXCEPT ![r] = "admitted"]
  /\ UNCHANGED <<flushVars, future, queueVars, workerVars, counterVars>>

Count(r) ==
  /\ pc[r] = "admitted"
  /\ pc' = [pc EXCEPT ![r] = "counted"]
  /\ pendingRequests' = pendingRequests + 1
  /\ pendingPhoneNumbers' = pendingPhoneNumbers + AddressCount[r]
  /\ perEnclavePendingRequests' =
       [perEnclavePendingRequests EXCEPT ![Target[r]] = @ + 1]
  /\ perEnclavePendingPhoneNumbers' =
       [perEnclavePendingPhoneNumbers EXCEPT ![Target[r]] = @ + AddressCount[r]]
  /\ UNCHANGED <<flushVars, future, queueVars, workerVars>>

\* The monitor of the queue set is free: no thread is in get or flushQueues.
MonitorFree ==
  /\ \A w \in Workers : worker[w] # "taking"
  /\ flusher # "flushing"

\* Mutant: put forgets to notify.
notifyNobody == UNCHANGED worker

notifyAll ==
  worker' = [w \in Workers |-> IF worker[w] = "waiting" THEN "get" ELSE worker[w]]

\* Mutant: put adds at the head of the list.
PutFirst(r) ==
  /\ pc[r] = "counted"
  /\ MonitorFree
  /\ pc' = [pc EXCEPT ![r] = "put"]
  /\ future' = [future EXCEPT ![r] = "pending"]
  /\ addressCount' = [addressCount EXCEPT ![Target[r]] = @ + AddressCount[r]]
  /\ queue' = [queue EXCEPT ![Target[r]] = <<r>> \o @]
  /\ age' = [age EXCEPT ![Target[r]] = IF @ = NoGet THEN 0 ELSE @]
  /\ notifyAll
  /\ UNCHANGED <<flushVars, source, batch, resultAddressCount, counterVars>>

Put(r) ==
  /\ pc[r] = "counted"
  /\ MonitorFree
  /\ pc' = [pc EXCEPT ![r] = "put"]
  /\ future' = [future EXCEPT ![r] = "pending"]
  /\ addressCount' = [addressCount EXCEPT ![Target[r]] = @ + AddressCount[r]]
  /\ queue' = [queue EXCEPT ![Target[r]] = Append(@, r)]
  /\ age' = [age EXCEPT ![Target[r]] = IF @ = NoGet THEN 0 ELSE @]
  /\ notifyAll
  /\ UNCHANGED <<flushVars, source, batch, resultAddressCount, counterVars>>

(***************************************************************************)
(* The callback that submit registers with whenComplete.  It runs in the   *)
(* completing thread, or in the submitting thread when the future is       *)
(* already complete by the time the callback is registered.                *)
(***************************************************************************)
UncountRequest(r) ==
  /\ pendingRequests' = pendingRequests - 1
  /\ pendingPhoneNumbers' = pendingPhoneNumbers - AddressCount[r]
  /\ perEnclavePendingRequests' =
       [perEnclavePendingRequests EXCEPT ![Target[r]] = @ - 1]
  /\ perEnclavePendingPhoneNumbers' =
       [perEnclavePendingPhoneNumbers EXCEPT ![Target[r]] = @ - AddressCount[r]]

OnComplete(r) ==
  IF pc[r] = "submitted" THEN UncountRequest(r) ELSE UNCHANGED counterVars

\* Mutant: a callback registered after the completion does not run.
RegisterForgets(r) ==
  /\ pc[r] = "put"
  /\ pc' = [pc EXCEPT ![r] = "submitted"]
  /\ UNCHANGED <<flushVars, future, queueVars, workerVars, counterVars>>

Register(r) ==
  /\ pc[r] = "put"
  /\ pc' = [pc EXCEPT ![r] = "submitted"]
  /\ IF future[r] \in Done THEN UncountRequest(r) ELSE UNCHANGED counterVars
  /\ UNCHANGED <<flushVars, future, queueVars, workerVars>>

\* The response has been delivered; the client may send its next request.
\* (It does so after the batch that holds its old request is gone, so that a
\* member of Requests never names two requests at once.)
Deliver(r) ==
  /\ \/ pc[r] = "shed"
     \/ /\ pc[r] = "submitted"
        /\ future[r] \in Done
        /\ \A w \in Workers : \A i \in 1 .. Len(batch[w]) : batch[w][i] # r
  /\ pc' = [pc EXCEPT ![r] = "idle"]
  /\ future' = [future EXCEPT ![r] = "none"]
  /\ UNCHANGED <<flushVars, queueVars, workerVars, counterVars>>

-----------------------------------------------------------------------------
(***************************************************************************)
(* PendingRequestQueueSet.get.  The set's monitor is held from the choice  *)
(* of a queue until the batch is complete: worker[w] = "taking".           *)
(***************************************************************************)
isEmpty(e) == addressCount[e] <= 0

\* The queues get() may choose, in its order of preference.  The shuffle of
\* the entries makes every remaining tie a free choice.
NonEmpty == {e \in Enclaves : ~isEmpty(e)}

Overdue == {e \in NonEmpty : age[e] > MaxWait}

oldestQueue == {e \in Overdue : \A f \in Overdue : age[e] >= age[f]}

batchSizeReadyQueue == {e \in Enclaves : addressCount[e] >= TargetBatchSize}

largestQueue ==
  {e \in NonEmpty : \A f \in NonEmpty : addressCount[e] >= addressCount[f]}

\* Mutant: without the maxWait rule.
ChoosableBySize ==
  IF batchSizeReadyQueue # {} THEN batchSizeReadyQueue ELSE largestQueue

Choosable ==
  IF Overdue # {} THEN oldestQueue
  ELSE IF batchSizeReadyQueue # {} THEN batchSizeReadyQueue
  ELSE largestQueue

\* Mutant: getFirst for removeFirst.
removeFirstKeeps(w, e) ==
  LET first == Head(queue[e])
  IN  /\ UNCHANGED <<queue, addressCount>>
      /\ batch' = [batch EXCEPT ![w] = Append(@, first)]
      /\ resultAddressCount' =
           [resultAddressCount EXCEPT ![w] = @ + AddressCount[first]]

\* queue.removeFirst() of PendingRequestQueue.get, with its accounting.
removeFirst(w, e) ==
  LET first == Head(queue[e])
  IN  /\ queue' = [queue EXCEPT ![e] = Tail(@)]
      /\ addressCount' = [addressCount EXCEPT ![e] = @ - AddressCount[first]]
      /\ batch' = [batch EXCEPT ![w] = Append(@, first)]
      /\ resultAddressCount' =
           [resultAddressCount EXCEPT ![w] = @ + AddressCount[first]]

Get(w) ==
  /\ worker[w] = "get"
  /\ MonitorFree
  /\ \E e \in Choosable :
       /\ queue[e] # <<>>
       /\ removeFirst(w, e)
       /\ source' = [source EXCEPT ![w] = e]
  /\ worker' = [worker EXCEPT ![w] = "taking"]
  /\ UNCHANGED <<flushVars, pc, future, age, counterVars>>

Wait(w) ==
  /\ worker[w] = "get"
  /\ MonitorFree
  /\ Overdue = {} /\ batchSizeReadyQueue = {} /\ NonEmpty = {}
  /\ worker' = [worker EXCEPT ![w] = "waiting"]
  /\ UNCHANGED <<flushVars, pc, future, queueVars, source, batch, resultAddressCount,
                 counterVars>>

\* Mutant: the size of the batch so far is not added.
NextFitsAlone(w) ==
  LET q == queue[source[w]]
  IN  q # <<>> /\ AddressCount[Head(q)] <= TargetBatchSize

\* The queue the worker takes from still has a request that fits its batch.
NextFits(w) ==
  LET q == queue[source[w]]
  IN  /\ q # <<>>
      /\ AddressCount[Head(q)] + resultAddressCount[w] <= TargetBatchSize

TakeNext(w) ==
  /\ worker[w] = "taking"
  /\ NextFits(w)
  /\ removeFirst(w, source[w])
  /\ UNCHANGED <<flushVars, pc, future, age, worker, source, counterVars>>

GetReturns(w) ==
  /\ worker[w] = "taking"
  /\ ~NextFits(w)
  /\ age' = [age EXCEPT ![source[w]] = 0]
  /\ worker' = [worker EXCEPT ![w] = "batch"]
  /\ UNCHANGED <<flushVars, pc, future, queue, addressCount, source, batch,
                 resultAddressCount, counterVars>>

-----------------------------------------------------------------------------
(***************************************************************************)
(* EnclaveThread.processBatch as its requests see it.  Replies and errors  *)
(* reach single requests while the batch runs; the batch either returns,   *)
(* with every request answered, or throws, and then the catch clause fails *)
(* the requests that have no answer yet.  Module SgxEnclave is the detail. *)
(***************************************************************************)
Answer(w) ==
  /\ worker[w] \in {"batch", "catch"}
  /\ \E i \in 1 .. Len(batch[w]), outcome \in {"replied", "failed"} :
       /\ future[batch[w][i]] = "pending"
       /\ worker[w] = "catch" => outcome = "failed"
       /\ future' = [future EXCEPT ![batch[w][i]] = outcome]
       /\ OnComplete(batch[w][i])
  /\ UNCHANGED <<flushVars, pc, queueVars, workerVars>>

\* Mutant: processBatch returns although a request has no answer.
BatchReturnsEarly(w) ==
  /\ worker[w] \in {"batch", "catch"}
  /\ worker' = [worker EXCEPT ![w] = "get"]
  /\ source' = [source EXCEPT ![w] = NoEnclave]
  /\ batch' = [batch EXCEPT ![w] = <<>>]
  /\ resultAddressCount' = [resultAddressCount EXCEPT ![w] = 0]
  /\ UNCHANGED <<flushVars, pc, future, queueVars, counterVars>>

BatchReturns(w) ==
  /\ worker[w] \in {"batch", "catch"}
  /\ \A i \in 1 .. Len(batch[w]) : future[batch[w][i]] \in Done
  /\ worker' = [worker EXCEPT ![w] = "get"]
  /\ source' = [source EXCEPT ![w] = NoEnclave]
  /\ batch' = [batch EXCEPT ![w] = <<>>]
  /\ resultAddressCount' = [resultAddressCount EXCEPT ![w] = 0]
  /\ UNCHANGED <<flushVars, pc, future, queueVars, counterVars>>

\* The catch clause fails what is still unanswered, one future at a time.
BatchThrows(w) ==
  /\ worker[w] = "batch"
  /\ worker' = [worker EXCEPT ![w] = "catch"]
  /\ UNCHANGED <<flushVars, pc, future, queueVars, source, batch,
                 resultAddressCount, counterVars>>

-----------------------------------------------------------------------------
(***************************************************************************)
(* The flush-pending-requests task: flushQueues holds the set's monitor    *)
(* while it empties one queue after the other.  Completing a future runs   *)
(* its callbacks in the flushing thread.  That a flushed request leaves    *)
(* its list at once and not with the final clear() cannot be observed:     *)
(* the monitor is held.                                                    *)
(***************************************************************************)
FlushPendingQueues ==
  /\ flusher = "idle"
  /\ MonitorFree
  /\ flusher' = "flushing"
  /\ toFlush' = Enclaves
  /\ UNCHANGED <<pc, future, queueVars, workerVars, subtotal, flushedFutures,
                 counterVars>>

\* Mutant: the list is not cleared.
FlushRequestKeeps(e) ==
  /\ e \in toFlush
  /\ queue[e] # <<>>
  /\ future' = [future EXCEPT ![Head(queue[e])] = "flushed"]
  /\ OnComplete(Head(queue[e]))
  /\ flushedFutures' = flushedFutures + 1
  /\ UNCHANGED <<pc, queueVars, workerVars, flusher, toFlush, subtotal>>

FlushRequest(e) ==
  /\ e \in toFlush
  /\ queue[e] # <<>>
  /\ future' = [future EXCEPT ![Head(queue[e])] = "flushed"]
  /\ OnComplete(Head(queue[e]))
  /\ queue' = [queue EXCEPT ![e] = Tail(@)]
  /\ flushedFutures' = flushedFutures + 1
  /\ UNCHANGED <<pc, addressCount, age, workerVars, flusher, toFlush, subtotal>>

FlushQueue(e) ==
  /\ e \in toFlush
  /\ queue[e] = <<>>
  /\ subtotal' = subtotal + addressCount[e]
  /\ addressCount' = [addressCount EXCEPT ![e] = 0]
  /\ age' = [age EXCEPT ![e] = NoGet]
  /\ toFlush' = toFlush \ {e}
  /\ flusher' = IF toFlush' = {} THEN "returned" ELSE "flushing"
  /\ UNCHANGED <<pc, future, queue, workerVars, flushedFutures, counterVars>>

FlushTaskOutput ==
  /\ flusher = "returned"
  /\ flusher' = "idle"
  /\ subtotal' = 0
  /\ flushedFutures' = 0
  /\ UNCHANGED <<pc, future, queueVars, workerVars, toFlush, counterVars>>

-----------------------------------------------------------------------------
(***************************************************************************)
(* Time.  A queue with requests in it is never older than MaxAge: the      *)
(* clock stands still until it has been served.  An idle queue's age stays *)
(* at MaxAge, older than MaxWait, for as long as it stays idle.            *)
(***************************************************************************)
Tick ==
  /\ \A e \in Enclaves : queue[e] # <<>> => age[e] < MaxAge
  /\ age' = [e \in Enclaves |->
               IF age[e] = NoGet \/ age[e] = MaxAge THEN age[e] ELSE age[e] + 1]
  /\ age' # age
  /\ UNCHANGED <<pc, future, queue, addressCount, workerVars, flushVars,
                 counterVars>>

-----------------------------------------------------------------------------
Client(r) ==
  \/ Shed(r) \/ Admit(r) \/ Count(r) \/ Put(r) \/ Register(r) \/ Deliver(r)

Thread(w) ==
  \/ Get(w) \/ Wait(w) \/ TakeNext(w) \/ GetReturns(w)
  \/ Answer(w) \/ BatchReturns(w) \/ BatchThrows(w)

Flusher ==
  \/ FlushPendingQueues
  \/ \E e \in Enclaves : FlushRequest(e) \/ FlushQueue(e)
  \/ FlushTaskOutput

Next ==
  \/ \E r \in Requests : Client(r)
  \/ \E w \in Workers : Thread(w)
  \/ Flusher
  \/ Tick

Spec == Init /\ [][Next]_vars

\* Enclave threads that have work keep running, an ecall returns, a flush that
\* was started goes on, and time passes.  Nobody has to send a request, to
\* finish sending one, or to start a flush.
FairSpec ==
  /\ Spec
  /\ \A w \in Workers :
       WF_vars(Get(w) \/ TakeNext(w) \/ GetReturns(w) \/ Answer(w) \/ BatchReturns(w))
  /\ WF_vars(\E e \in Enclaves : FlushRequest(e) \/ FlushQueue(e))
  /\ WF_vars(Tick)

-----------------------------------------------------------------------------
(***************************************************************************)
(* Properties                                                              *)
(***************************************************************************)
ClientTypeOK ==
  /\ pc \in [Requests -> {"idle", "shed", "admitted", "counted"} \cup Outstanding]
  /\ future \in [Requests -> {"none", "pending"} \cup Done]

QueueTypeOK ==
  /\ queue \in [Enclaves -> Seq(Requests)]
  /\ addressCount \in [Enclaves -> Int]
  /\ age \in [Enclaves -> {NoGet} \cup 0 .. MaxAge]

WorkerTypeOK ==
  /\ worker \in [Workers -> {"get", "waiting", "taking", "batch", "catch"}]
  /\ source \in [Workers -> Enclaves \cup {NoEnclave}]
  /\ batch \in [Workers -> Seq(Requests)]
  /\ resultAddressCount \in [Workers -> Nat]

FlusherTypeOK ==
  /\ flusher \in {"idle", "flushing", "returned"}
  /\ toFlush \subseteq Enclaves
  /\ subtotal \in Int
  /\ flushedFutures \in Nat

CounterTypeOK ==
  /\ pendingRequests \in Int
  /\ pendingPhoneNumbers \in Int
  /\ perEnclavePendingRequests \in [Enclaves -> Int]
  /\ perEnclavePendingPhoneNumbers \in [Enclaves -> Int]

\* Type correctness.  A worker that is taking requests knows its queue.
TypeOK ==
  /\ ClientTypeOK
  /\ QueueTypeOK
  /\ WorkerTypeOK
  /\ FlusherTypeOK
  /\ CounterTypeOK
  /\ \A w \in Workers : worker[w] = "taking" => source[w] \in Enclaves

\* A future that is not completed belongs to a request some thread still holds:
\* the request is in its enclave's queue or in the batch of a worker.  Nothing
\* that get, flushQueues or processBatch do loses a request.
PendingIsHeld ==
  \A r \in Requests : future[r] = "pending" =>
    \/ \E i \in DOMAIN queue[Target[r]] : queue[Target[r]][i] = r
    \/ \E w \in Workers : \E i \in DOMAIN batch[w] : batch[w][i] = r

\* No request is held twice: not at two places of a queue, not in the queues of
\* two enclaves, not by two workers, and not by a worker while it is queued.
HeldOnce ==
  /\ \A e, f \in Enclaves : \A i \in DOMAIN queue[e], j \in DOMAIN queue[f] :
       queue[e][i] = queue[f][j] => e = f /\ i = j
  /\ \A v, w \in Workers : \A i \in DOMAIN batch[v], j \in DOMAIN batch[w] :
       batch[v][i] = batch[w][j] => v = w /\ i = j
  /\ \A e \in Enclaves, w \in Workers :
       \A i \in DOMAIN queue[e], j \in DOMAIN batch[w] : queue[e][i] # batch[w][j]

\* The sum of f over S: f[x] pairs <<x, 1>>, <<x, 2>>, ... for every x.
Total(f, S) == Cardinality(UNION {{x} \X (1 .. f[x]) : x \in S})

PhoneNumbers(s) == Total([i \in DOMAIN s |-> AddressCount[s[i]]], DOMAIN s)

\* The addressCount field of a queue is the number of phone numbers of the
\* requests in it, so that isEmpty, which asks addressCount, agrees with the
\* list: get never enters the inner wait while it holds the set's monitor.  The
\* sum get keeps while it fills a batch is exact as well.
AddressCountExact ==
  /\ \A e \in Enclaves \ toFlush : addressCount[e] = PhoneNumbers(queue[e])
  /\ \A w \in Workers : resultAddressCount[w] = PhoneNumbers(batch[w])

\* A batch exceeds the target size only when it is one single request.
BatchWithinTarget ==
  \A w \in Workers :
    Len(batch[w]) > 1 => resultAddressCount[w] <= TargetBatchSize

\* No wakeup is lost: while a worker sleeps in get, every queue is empty, also
\* when another worker or a flush emptied it before the sleeper got the monitor.
WaitersOnlyWhenEmpty ==
  (\E w \in Workers : worker[w] = "waiting") => \A e \in Enclaves : isEmpty(e)

\* The counters hold the requests between their counting and the completion of
\* their future, and return to zero when nothing is in flight: whoever completes
\* a future, and however completion and registration race, the decrement
\* happens once.
InFlight ==
  {r \in Requests : \/ pc[r] \in {"counted", "put"}
                    \/ pc[r] = "submitted" /\ future[r] = "pending"}

CountersExact ==
  /\ pendingPhoneNumbers = Total(AddressCount, InFlight)
  /\ pendingRequests = Cardinality(InFlight)
  /\ \A e \in Enclaves :
       LET mine == {r \in InFlight : Target[r] = e}
       IN  /\ perEnclavePendingPhoneNumbers[e] = Total(AddressCount, mine)
           /\ perEnclavePendingRequests[e] = Cardinality(mine)

\* Everything the request queues decide on without looking at the requests is
\* exact: get, isEmpty and load shedding go by these counts alone.
BookkeepingExact == AddressCountExact /\ CountersExact

\* A request is failed by a flush or handed to the enclave, never both: what is
\* queued is open, what a worker takes is open until its batch is cut, and a
\* flushed request is in no batch (PendingRequestQueue.get, flush).
FlushedOrProcessed ==
  /\ \A e \in Enclaves : \A i \in DOMAIN queue[e] : future[queue[e][i]] = "pending"
  /\ \A w \in Workers : \A i \in DOMAIN batch[w] :
       /\ future[batch[w][i]] # "flushed"
       /\ worker[w] = "taking" => future[batch[w][i]] = "pending"

\* First in, first out: what is put comes behind everything in the queue, and
\* what a worker or a flush takes was in front of everything that is left.
FirstInFirstOut ==
  [][\A e \in Enclaves :
       LET old == queue[e]
           new == queue'[e]
       IN  IF Len(old) <= Len(new) THEN old = SubSeq(new, 1, Len(old))
           ELSE new = SubSeq(old, Len(old) - Len(new) + 1, Len(old))]_vars

\* Every request that was put is answered, whichever enclave it is for: a busy
\* enclave does not starve the queue of another one.
EveryRequestAnswered ==
  \A r \in Requests : (future[r] = "pending") ~> (future[r] \in Done)

\* The task prints 'Flushed "%d" pending requests': the number is that of the
\* requests it failed.
FlushReportsRequests ==
  flusher = "returned" => subtotal = flushedFutures

=============================================================================
