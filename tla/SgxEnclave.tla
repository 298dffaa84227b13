----------------------------- MODULE SgxEnclave -----------------------------
(***************************************************************************)
(* The life of an enclave (SgxEnclave), the batches the enclave threads    *)
(* run in it (SgxsdBatch, RequestManager.processBatch), the native glue    *)
(* between the two, and the server state the enclave keeps for each thread.*)
(*                                                                         *)
(* Instances of the enclave are numbered in the order of their creation.   *)
(* A call into the enclave first reads enclaveState under the monitor and  *)
(* then makes the native call; the instance may be killed, replaced or     *)
(* destroyed in between.  The native call itself is one step: the SGX      *)
(* runtime does not destroy an enclave while a call is inside it.          *)
(***************************************************************************)
EXTENDS Integers, Sequences, FiniteSets, Functions

CONSTANTS
  Threads,     \* EnclaveThreads; the thread's number is its state handle
  Callers,     \* other threads that use the enclave: quotes, negotiations
  Batches,     \* batches a thread may take: sequences of [kind, count]
  MaxStarts    \* bound on the enclave instances of a behaviour

\* A request is good, refused by the enclave (no pending request, wrong size,
\* MAC or commitment), or malformed (the glue throws a RuntimeException).
Kinds == {"good", "refused", "malformed"}

ASSUME BatchAssumption ==
  /\ Batches \subseteq Seq([kind : Kinds, count : Nat \ {0}]) /\ <<>> \notin Batches
  /\ MaxStarts \in Nat \ {0}
  /\ Threads \cap Callers = {}

VARIABLES
  enclaveState,  \* id of the instance in use, Null when there is none
  stopped,       \* the stopped flag
  manager,       \* where SgxEnclave.run is
  waiting,       \* the callback of nativeEnclaveStart is in wait()
  created,       \* number of instances created so far
  instance,      \* instance -> its condition
  server,        \* instance -> thread -> sgxsd_server_state_desc
  pc,            \* thread or caller -> where it is
  eid,           \* thread or caller -> the id it read, Unread before
  batch,         \* thread -> its requests
  next,          \* thread -> index of the request to add
  response,      \* thread -> response future of each of its requests
  tags,          \* thread -> requests whose MessageTag is allocated
  unstopped      \* history: <<instance, thread>> whose stop never reached the state

lifeVars   == <<enclaveState, stopped, manager, waiting, created>>
threadVars == <<batch, next, response, tags>>
vars == <<lifeVars, instance, server, unstopped, pc, eid, threadVars>>

Null   == 0
Unread == -1
Ids    == 1..MaxStarts
Users  == Threads \cup Callers

\* What a response future holds.
Open          == <<>>
Failed        == <<"failed">>
ReplyMissing  == <<"reply_missing", "failed">>
Reply(result) == <<"reply", result, "done">>

NoServer  == [valid |-> FALSE, requests |-> <<>>, query_phones |-> <<>>]
NewServer == [valid |-> TRUE, requests |-> <<>>, query_phones |-> <<>>]

Init ==
  /\ enclaveState = Null /\ stopped = FALSE
  /\ manager = "new" /\ waiting = FALSE /\ created = 0
  /\ instance = [g \in Ids |-> "none"]
  /\ server = [g \in Ids |-> [t \in Threads |-> NoServer]]
  /\ pc = [u \in Users |-> "idle"]
  /\ eid = [u \in Users |-> Unread]
  /\ batch = [t \in Threads |-> <<>>]
  /\ next = [t \in Threads |-> 1]
  /\ response = [t \in Threads |-> <<>>]
  /\ tags = [t \in Threads |-> {}]
  /\ unstopped = {}

-----------------------------------------------------------------------------
(***************************************************************************)
(* The life cycle: start, stop, and the thread that runs the enclave.      *)
(***************************************************************************)
start ==
  /\ manager = "new"
  /\ manager' = IF stopped THEN "ended" ELSE "starting"
  /\ UNCHANGED <<enclaveState, stopped, waiting, created, instance, server, unstopped,
                 pc, eid, threadVars>>

\* Mutant: the thread in the callback is not notified.
killEnclaveQuietly ==
  /\ enclaveState' = Null
  /\ UNCHANGED waiting

killEnclave ==
  /\ enclaveState' = Null
  /\ waiting' = FALSE

\* sgx_create_enclave and node_init succeed: a fresh instance.
EnclaveCreated ==
  /\ manager = "starting"
  /\ created < MaxStarts
  /\ created' = created + 1
  /\ instance' = [instance EXCEPT ![created + 1] = "live"]
  /\ manager' = "created"
  /\ UNCHANGED <<enclaveState, stopped, waiting, server, unstopped, pc, eid, threadVars>>

\* An SgxException reaches run: stop(ex), and the loop ends.
RunFails ==
  /\ stopped' = TRUE
  /\ IF stopped THEN UNCHANGED <<enclaveState, waiting>> ELSE killEnclave
  /\ manager' = "ended"

\* One of them fails.  An instance whose node_init fails is abandoned: it never
\* comes into use, and nothing destroys it.
EnclaveStartFails ==
  /\ manager = "starting"
  /\ RunFails
  /\ \/ UNCHANGED <<created, instance>>
     \/ /\ created < MaxStarts
        /\ created' = created + 1
        /\ instance' = [instance EXCEPT ![created + 1] = "abandoned"]
  /\ UNCHANGED <<server, unstopped, pc, eid, threadVars>>

runEnclave ==
  /\ manager = "created"
  /\ enclaveState' = created
  /\ waiting' = TRUE
  /\ manager' = "running"
  /\ UNCHANGED <<stopped, created, instance, server, unstopped, pc, eid, threadVars>>

\* The callback woke up; its instance is the one created last.
CallbackReturns ==
  /\ manager = "running"
  /\ ~waiting
  /\ enclaveState # created
  /\ manager' = "destroying"
  /\ UNCHANGED <<enclaveState, stopped, waiting, created, instance, server, unstopped,
                 pc, eid, threadVars>>

\* Mutant: the thread that runs the enclave ends with the first instance.
DestroyAndEnd ==
  /\ manager = "destroying"
  /\ instance' = [instance EXCEPT ![created] = "gone"]
  /\ server' = [server EXCEPT ![created] = [t \in Threads |-> NoServer]]
  /\ unstopped' = {x \in unstopped : x[1] # created}
  /\ manager' = "ended"
  /\ UNCHANGED <<enclaveState, stopped, waiting, created, pc, eid, threadVars>>

\* sgx_destroy_enclave, and the loop condition of run.
Destroy ==
  /\ manager = "destroying"
  /\ instance' = [instance EXCEPT ![created] = "gone"]
  /\ server' = [server EXCEPT ![created] = [t \in Threads |-> NoServer]]
  /\ unstopped' = {x \in unstopped : x[1] # created}
  /\ manager' = IF stopped THEN "ended" ELSE "starting"
  /\ UNCHANGED <<enclaveState, stopped, waiting, created, pc, eid, threadVars>>

\* It fails, since the runtime does not know the id (any more).
DestroyFails ==
  /\ manager = "destroying"
  /\ RunFails
  /\ instance' = [instance EXCEPT ![created] = "undestroyed"]
  /\ UNCHANGED <<created, server, unstopped, pc, eid, threadVars>>

stop ==
  /\ ~stopped
  /\ stopped' = TRUE
  /\ killEnclave
  /\ UNCHANGED <<manager, created, instance, server, unstopped, pc, eid, threadVars>>

\* The processor loses the enclave (a power transition), or it crashes.
Lose(g) ==
  /\ instance[g] = "live"
  /\ instance' = [instance EXCEPT ![g] = "lost"]
  /\ UNCHANGED <<lifeVars, server, unstopped, pc, eid, threadVars>>

Manager ==
  \/ EnclaveCreated \/ EnclaveStartFails \/ runEnclave
  \/ CallbackReturns \/ Destroy \/ DestroyFails

-----------------------------------------------------------------------------
(***************************************************************************)
(* Calls into the enclave.                                                 *)
(***************************************************************************)
\* getEnclaveState, evaluated before every native call.
getEnclaveState(u) ==
  /\ pc[u] \notin {"idle", "borrow", "closing"}
  /\ eid[u] = Unread
  /\ eid' = [eid EXCEPT ![u] = enclaveState]
  /\ UNCHANGED <<lifeVars, instance, server, unstopped, pc, threadVars>>

\* What the native call with the id that u read meets: no id ("dead"), an
\* instance that is lost or destroyed ("lost"), or a working one ("live").
Meets(u) ==
  IF eid[u] = Null THEN "dead"
  ELSE IF instance[eid[u]] = "live" THEN "live" ELSE "lost"

\* handleSgxException: an error that says the instance is gone kills whatever
\* instance is in use now.
HandleLost(lost) ==
  /\ IF lost THEN killEnclave ELSE UNCHANGED <<enclaveState, waiting>>
  /\ UNCHANGED <<stopped, manager, created>>

\* getNextQuote, setCurrentQuote and negotiateRequest, as far as the life
\* cycle goes.
CallBegins(c) ==
  /\ pc[c] = "idle"
  /\ pc' = [pc EXCEPT ![c] = "call"]
  /\ UNCHANGED <<lifeVars, instance, server, unstopped, eid, threadVars>>

CallEnds(c) ==
  /\ pc[c] = "call"
  /\ eid[c] # Unread
  /\ HandleLost(Meets(c) = "lost")
  /\ pc' = [pc EXCEPT ![c] = "idle"]
  /\ eid' = [eid EXCEPT ![c] = Unread]
  /\ UNCHANGED <<instance, server, unstopped, threadVars>>

-----------------------------------------------------------------------------
(***************************************************************************)
(* Inside the enclave: the server state of a thread.                       *)
(***************************************************************************)
\* The phone numbers of request i of thread t's batch.
PhonesOf(t, i) == [k \in 1..batch[t][i].count |-> <<t, i, k>>]

\* What looking the numbers up in a directory yields.
hash_lookup(phones, directory) ==
  [k \in DOMAIN phones |-> <<phones[k], directory>>]

\* Mutant: the numbers are added before the request is decoded.
handle_call_early(t, i, desc) ==
  IF batch[t][i].kind = "good"
  THEN [valid |-> desc.valid, requests |-> Append(desc.requests, i),
        query_phones |-> desc.query_phones \o PhonesOf(t, i)]
  ELSE [desc EXCEPT !.query_phones = @ \o PhonesOf(t, i)]

\* decode_request refuses the request, or the server state grows by it.  The
\* batch was opened for the sum of the counts, so there is always room.
handle_call(t, i, desc) ==
  IF batch[t][i].kind = "good"
  THEN [valid |-> desc.valid, requests |-> Append(desc.requests, i),
        query_phones |-> desc.query_phones \o PhonesOf(t, i)]
  ELSE desc

\* terminate: the results, one after the other, are cut into the replies.  The
\* j-th starts after the numbers of the requests of batch b before it.
Offset(b, requests, j) ==
  Cardinality(UNION {{m} \X (1..b[requests[m]].count) : m \in 1..(j - 1)})

ReplyTo(t, desc, j, directory) ==
  LET from == Offset(batch[t], desc.requests, j)
  IN  Reply(SubSeq(hash_lookup(desc.query_phones, directory),
                   from + 1, from + batch[t][desc.requests[j]].count))

\* How a stop may end, after how many replies: all sent; the lookup fails
\* first; a reply cannot be encrypted; the enclave is lost on the way.
StopEnds(desc) ==
  LET n == Len(desc.requests)
  IN  {<<n, "ok">>}
        \cup (IF n > 0 THEN {<<0, "lookup">>} ELSE {})
        \cup ((0..(n - 1)) \X {"reply"})
        \cup ((0..n) \X {"lost"})

\* The tags the stop releases.  A request that is dropped releases its tag
\* (SgxsdMsgFrom::drop); one whose reply fails, or is in a lost enclave, not.
Released(desc, end) ==
  LET Replied == {desc.requests[j] : j \in 1..end[1]}
  IN  CASE end[2] = "lost"  -> Replied
        [] end[2] = "reply" -> Range(desc.requests) \ {desc.requests[end[1] + 1]}
        [] OTHER            -> Range(desc.requests)

-----------------------------------------------------------------------------
(***************************************************************************)
(* processBatch, run by an enclave thread.                                 *)
(***************************************************************************)
\* A future that is already completed ignores a second completion.
Complete(t, indices, value) ==
  [i \in DOMAIN response[t] |->
     IF i \in indices /\ response[t][i] = Open THEN value ELSE response[t][i]]

Added(t) == 1..(next[t] - 1)

\* Mutant: the catch clause only logs.
CatchLogs(t, answered) == response' = [response EXCEPT ![t] = answered]

\* The catch clause of processBatch: fail what is still open.
CatchAll(t, answered) ==
  response' = [response EXCEPT ![t] =
    [i \in DOMAIN answered |-> IF answered[i] = Open THEN Failed ELSE answered[i]]]

TakeBatch(t) ==
  /\ pc[t] = "idle"
  /\ \E b \in Batches :
       /\ batch' = [batch EXCEPT ![t] = b]
       /\ response' = [response EXCEPT ![t] = [i \in DOMAIN b |-> Open]]
  /\ next' = [next EXCEPT ![t] = 1]
  /\ tags' = [tags EXCEPT ![t] = {}]
  /\ pc' = [pc EXCEPT ![t] = "start"]
  /\ UNCHANGED <<lifeVars, instance, server, unstopped, eid>>

\* new SgxsdBatch: nativeServerStart.  It fails where the handle is taken, and
\* may fail for want of memory.
ServerStart(t) ==
  /\ pc[t] = "start"
  /\ eid[t] # Unread
  /\ HandleLost(Meets(t) = "lost")
  /\ \/ /\ Meets(t) = "live" /\ ~server[eid[t]][t].valid
        /\ server' = [server EXCEPT ![eid[t]][t] = NewServer]
        /\ pc' = [pc EXCEPT ![t] = "add"]
        /\ UNCHANGED response
     \/ /\ CatchAll(t, response[t])
        /\ pc' = [pc EXCEPT ![t] = "idle"]
        /\ UNCHANGED server
  /\ eid' = [eid EXCEPT ![t] = Unread]
  /\ UNCHANGED <<instance, unstopped, batch, next, tags>>

\* SgxsdBatch.add for the next request: nativeServerCall, the completion of
\* its future, and the step to the next request or out of the loop.
add(t) ==
  LET i       == next[t]
      desc    == server[eid[t]][t]
      Returns == /\ next' = [next EXCEPT ![t] = i + 1]
                 /\ pc' = [pc EXCEPT ![t] = IF i = Len(batch[t]) THEN "borrow" ELSE "add"]
      Throws  == /\ pc' = [pc EXCEPT ![t] = "closing"]
                 /\ UNCHANGED <<next, response, tags, server>>
      Fails   == /\ response' = [response EXCEPT ![t] = Complete(t, {i}, Failed)]
                 /\ Returns
                 /\ UNCHANGED <<tags, server>>
  IN  /\ pc[t] = "add"
      /\ eid[t] # Unread
      /\ HandleLost(Meets(t) = "lost" /\ batch[t][i].kind # "malformed")
      /\ \/ Meets(t) = "dead" /\ Fails
         \/ Meets(t) # "dead" /\ batch[t][i].kind = "malformed" /\ Throws
         \/ Meets(t) = "lost" /\ batch[t][i].kind # "malformed" /\ Fails
         \/ /\ Meets(t) = "live" /\ batch[t][i].kind # "malformed"
            /\ IF ~desc.valid THEN Throws
               ELSE /\ server' = [server EXCEPT ![eid[t]][t] = handle_call(t, i, desc)]
                    /\ IF batch[t][i].kind = "good"
                       THEN /\ tags' = [tags EXCEPT ![t] = @ \cup {i}]
                            /\ UNCHANGED response
                       ELSE /\ response' = [response EXCEPT ![t] = Complete(t, {i}, Failed)]
                            /\ UNCHANGED tags
                    /\ Returns
      /\ eid' = [eid EXCEPT ![t] = Unread]
      /\ UNCHANGED <<instance, unstopped, batch>>

\* directoryManager.borrow: it throws when there is no directory yet.
borrow(t) ==
  /\ pc[t] = "borrow"
  /\ \E to \in {"process", "closing"} : pc' = [pc EXCEPT ![t] = to]
  /\ UNCHANGED <<lifeVars, instance, server, unstopped, eid, threadVars>>

\* The stop that t makes reaches a server state it could stop.
Stoppable(t) == Meets(t) = "live" /\ server[eid[t]][t].valid

\* How nativeServerStop may end on the instance t read: in the enclave, or
\* with an error before the server state is touched.  Even where the state could
\* be stopped that happens: the serving buffers differ in length, or the bridge
\* has no memory for the arguments.
StopOutcomes(t) ==
  (IF Stoppable(t) THEN StopEnds(server[eid[t]][t]) ELSE {}) \cup {<<0, "error">>}

\* The futures of the batch after the replies that were sent.
Answered(t, end, directory) ==
  [i \in DOMAIN response[t] |->
     LET desc == server[eid[t]][t]
         sent == {j \in 1..end[1] : desc.requests[j] = i}
     IN  IF response[t][i] = Open /\ sent # {}
         THEN ReplyTo(t, desc, CHOOSE j \in sent : TRUE, directory)
         ELSE response[t][i]]

\* nativeServerStop: the server state is zeroed first, then terminated.
ServerStop(t, end) ==
  /\ IF end[2] = "error"
     THEN /\ HandleLost(Meets(t) = "lost")
          /\ unstopped' = unstopped \cup {x \in {<<eid[t], t>>} : Stoppable(t)}
          /\ UNCHANGED <<server, tags, instance>>
     ELSE /\ server' = [server EXCEPT ![eid[t]][t] = NoServer]
          /\ unstopped' = unstopped
          /\ tags' = [tags EXCEPT ![t] = @ \ Released(server[eid[t]][t], end)]
          /\ instance' = IF end[2] = "lost"
                         THEN [instance EXCEPT ![eid[t]] = "lost"] ELSE instance
          /\ HandleLost(end[2] = "lost")
  /\ pc' = [pc EXCEPT ![t] = "idle"]
  /\ eid' = [eid EXCEPT ![t] = Unread]
  /\ UNCHANGED <<batch, next>>

\* SgxsdBatch.process with a directory.  After a normal return the futures
\* still open are failed with "reply_missing"; an error ends in the catch
\* clause of processBatch.
ProcessReturns(t, answered, ok) ==
  IF ok
  THEN response' = [response EXCEPT ![t] =
         [i \in DOMAIN answered |->
            IF i \in Added(t) /\ answered[i] = Open THEN ReplyMissing ELSE answered[i]]]
  ELSE CatchAll(t, answered)

process(t) ==
  /\ pc[t] = "process"
  /\ eid[t] # Unread
  /\ \E end \in StopOutcomes(t) :
       /\ ServerStop(t, end)
       /\ ProcessReturns(t, Answered(t, end, "served"), end[2] = "ok")

\* Mutant: close fails the batch future and leaves the server running.
closeOnly(t) ==
  /\ pc[t] = "closing"
  /\ CatchAll(t, response[t])
  /\ pc' = [pc EXCEPT ![t] = "idle"]
  /\ UNCHANGED <<lifeVars, instance, server, unstopped, eid, batch, next, tags>>

\* SgxsdBatch.close of a batch that was not processed: first the futures of
\* the requests added fail, then the server is stopped without a directory.
close(t) ==
  /\ pc[t] = "closing"
  /\ response' = [response EXCEPT ![t] = Complete(t, Added(t), Failed)]
  /\ pc' = [pc EXCEPT ![t] = "close"]
  /\ UNCHANGED <<lifeVars, instance, server, unstopped, eid, batch, next, tags>>

CloseStops(t) ==
  /\ pc[t] = "close"
  /\ eid[t] # Unread
  /\ \E end \in StopOutcomes(t) :
       ServerStop(t, end) /\ CatchAll(t, Answered(t, end, "none"))

Thread(t) ==
  \/ TakeBatch(t) \/ getEnclaveState(t) \/ ServerStart(t) \/ add(t)
  \/ borrow(t) \/ process(t) \/ close(t) \/ CloseStops(t)

Caller(c) == CallBegins(c) \/ getEnclaveState(c) \/ CallEnds(c)

Next ==
  \/ start \/ stop \/ Manager
  \/ \E g \in Ids : Lose(g)
  \/ \E t \in Threads : Thread(t)
  \/ \E c \in Callers : Caller(c)

Spec == Init /\ [][Next]_vars

\* The thread of the enclave is scheduled, and so is the caller that starts it.
FairSpec == Spec /\ WF_vars(start) /\ WF_vars(Manager)

-----------------------------------------------------------------------------
(***************************************************************************)
(* Properties.                                                             *)
(***************************************************************************)
\* processBatch never returns with the response of one of its requests open,
\* however the batch went: malformed or refused requests, no directory, the
\* enclave lost, killed by another thread or replaced on the way.
AllAnswered ==
  \A t \in Threads : pc[t] = "idle" =>
    \A i \in DOMAIN response[t] : response[t][i] # Open

\* A reply is the result of looking up the numbers of that very request, in
\* order, in the directory being served: refused requests of the batch do not
\* shift the results, and the empty lookup close makes answers nobody.
AnswersRight ==
  \A t \in Threads : \A i \in DOMAIN response[t] :
    Len(response[t][i]) = 3 =>
      response[t][i] = Reply([k \in 1..batch[t][i].count |-> <<<<t, i, k>>, "served">>])

\* The stop of t's batch in the instance in use failed before it reached the
\* server state.  SgxsdBatch does not try again (processed is set), so the
\* handle stays taken and every later newBatch of the thread fails with
\* SGX_ERROR_INVALID_STATE until the instance is replaced.
Stuck(t) == <<enclaveState, t>> \in unstopped

\* Between two batches of a thread its state handle is free in the enclave in
\* use, and during a batch the handle is not that of an earlier one: only a
\* stop that failed on the way to the server state leaves it taken.
HandleFree ==
  \A t \in Threads : enclaveState # Null =>
    /\ pc[t] \in {"idle", "start"} /\ server[enclaveState][t].valid => Stuck(t)
    /\ Stuck(t) => pc[t] \in {"idle", "start"}

\* The enclave holds the tag of a request of the batch at most once, and only
\* while the tag is allocated: its callback is never run or freed twice.
HeldTagsAllocated ==
  \A t \in Threads : enclaveState # Null /\ ~Stuck(t) =>
    LET held == server[enclaveState][t].requests
    IN  Range(held) \subseteq tags[t] /\ Len(held) = Cardinality(Range(held))

\* The comment in process: a message without a reply "shouldn't happen unless
\* enclave is buggy".  A stop that succeeds has answered every message.
NoReplyMissing ==
  \A t \in Threads : \A i \in DOMAIN response[t] : response[t][i] # ReplyMissing

\* However a batch went, its thread leaves the enclave in use as a next batch
\* needs it, unless the stop itself failed, and no callback or reply went astray
\* (close, server_call, process).
NothingLeftBehind == HandleFree /\ HeldTagsAllocated /\ NoReplyMissing

\* An instance that started well and is not in use any more goes through
\* sgx_destroy_enclave in the end, which may fail: killing wakes the thread that
\* waits in the callback of nativeEnclaveStart.
KilledIsDestroyed ==
  \A g \in Ids : instance[g] \in {"live", "lost"} /\ enclaveState # g
                   ~> instance[g] \in {"gone", "undestroyed"} \/ enclaveState = g

\* After a kill a new instance comes into use, unless the enclave is stopped.
KilledIsReplaced == enclaveState = Null ~> enclaveState # Null \/ stopped
=============================================================================
