------------------------------ MODULE Reconcile ------------------------------
(***************************************************************************)
(* How the set of registered users gets into Redis and the map: the update *)
(* queue (DirectoryQueueManager.java) and the reconciliation requests      *)
(* (DirectoryManager.java, DirectoryCache.java), on one node.              *)
(*                                                                         *)
(* The accounts are the truth, kept by the Signal service.  It puts every  *)
(* change into an SQS queue, which delivers at least once and in any       *)
(* order, and walks through all accounts by uuid in chunks, again and      *)
(* again; a request that takes too long is sent again while the first is   *)
(* still running.  Redis users and the map change together here; their     *)
(* interleaving, and maps loaded from a peer, are the subject of module    *)
(* Directory.                                                              *)
(***************************************************************************)
EXTENDS Integers, Sequences, FiniteSets

CONSTANTS
  MaxUuid,      \* uuids are 1..MaxUuid, in the order of their text
  Numbers,
  NoNumber,
  Handlers,     \* HTTP threads that serve reconciliation requests
  BuiltAtStart, \* whether Redis holds a built set when the node starts
  Accounts,     \* the accounts there may be at the beginning
  MaxChanges,   \* bound: changes of accounts, and lists of them
  MaxFaults,    \* bound: failures of all kinds
  MaxEvents     \* bound: changes and failures together

Uuids == 1..MaxUuid
None == 0       \* an absent uuid

ASSUME SizeAssumption == MaxUuid \in Nat \ {0}
ASSUME StartAssumption ==
  /\ BuiltAtStart \in BOOLEAN
  /\ Accounts \subseteq [Uuids -> Numbers \cup {NoNumber}]

VARIABLES
  accounts,     \* uuid -> number
  queue,        \* messages in SQS; a message stays until it is deleted
  sent,         \* history: messages ever sent
  processed,    \* history: messages processed
  batch,        \* messages the queue consumer has received
  receipts,     \* messages processed and not yet deleted
  users,        \* Redis: USER_SET
  last,         \* Redis: USER_LAST_RECONCILED
  userSetBuilt, \* Redis: USER_SET_BUILT
  covered,      \* history: uuids in chunks completed since Redis was empty,
                \* or all of them when the service has declared it complete
  map,          \* number -> uuid, the directory map
  mapPresent,   \* currentDirectoryMap is present
  channel,      \* the connection to the update channel: "up" or "down"
  handler,      \* thread -> its request
  cursor,       \* the service: uuid its pass has come to
  awaits,       \* the service: handlers whose answer it waits for
  changes, faults

redisVars == <<users, last, userSetBuilt, covered>>
queueVars == <<queue, sent, processed, batch, receipts>>
mapVars == <<map, mapPresent, channel>>
serviceVars == <<accounts, cursor, awaits>>
vars == <<redisVars, queueVars, mapVars, serviceVars, handler, changes, faults>>

Idle == [pc |-> "idle", kind |-> "chunk", from |-> None, to |-> None, content |-> {}, remove |-> {}, add |-> {}]

\* The map when it is rebuilt from Redis: an account that holds the number.
Holders(k) == {u \in Uuids : <<u, k>> \in users}
RebuiltMap(m) ==
  m \in {f \in [Numbers -> Uuids \cup {None}] :
           \A k \in Numbers : f[k] \in (IF Holders(k) = {} THEN {None} ELSE Holders(k))}

Registered == {<<u, accounts[u]>> : u \in {v \in Uuids : accounts[v] # NoNumber}}

Init ==
  /\ accounts \in Accounts
  /\ queue = {} /\ sent = {} /\ processed = {} /\ batch = <<>> /\ receipts = {}
  /\ users = (IF BuiltAtStart THEN Registered ELSE {})
  /\ last = None /\ userSetBuilt = BuiltAtStart
  /\ covered = (IF BuiltAtStart THEN Uuids ELSE {})
  /\ RebuiltMap(map) /\ mapPresent = BuiltAtStart /\ channel = "up"
  /\ handler = [h \in Handlers |-> Idle]
  /\ cursor = None /\ awaits = {}
  /\ changes = 0 /\ faults = 0

Room == changes + faults < MaxEvents
Fault == Room /\ faults < MaxFaults /\ faults' = faults + 1

-----------------------------------------------------------------------------
(* addUser and removeUser; both need the map.                              *)

addUserA(u) ==
  /\ users' = IF map[u[2]] = None THEN users \cup {u} ELSE users
  /\ map' = [map EXCEPT ![u[2]] = u[1]]

addUser(u) ==
  /\ users' = users \cup {u}
  /\ map' = [map EXCEPT ![u[2]] = u[1]]

\* The map forgets the number, whoever has it.
removeUser(u) ==
  /\ users' = users \ {u}
  /\ map' = [map EXCEPT ![u[2]] = None]

-----------------------------------------------------------------------------
(* The Signal service (external).                                          *)

\* A number is registered by an account, or given up.
Change(u, k) ==
  /\ Room /\ changes < MaxChanges /\ changes' = changes + 1
  /\ accounts[u] # k
  /\ k # NoNumber => accounts[u] = NoNumber /\ \A v \in Uuids : accounts[v] # k
  /\ accounts' = [accounts EXCEPT ![u] = k]
  /\ LET message == IF k # NoNumber THEN [action |-> "add", user |-> <<u, k>>, n |-> changes]
                    ELSE [action |-> "delete", user |-> <<u, accounts[u]>>, n |-> changes]
     IN  queue' = queue \cup {message} /\ sent' = sent \cup {message}
  /\ UNCHANGED <<redisVars, processed, batch, receipts, mapVars, cursor, awaits, handler, faults>>

\* The next chunk has one uuid; the last one is open.
ChunkEnd == IF cursor + 1 >= MaxUuid THEN None ELSE cursor + 1

InChunk(u, from, to) == u > from /\ (to # None => u <= to)

SendChunk(h) ==
  /\ awaits = {} /\ handler[h].pc = "idle"
  /\ awaits' = {h}
  /\ handler' = [handler EXCEPT ![h] = [Idle EXCEPT
       !.pc = "check", !.from = cursor, !.to = ChunkEnd,
       !.content = {u \in Registered : InChunk(u[1], cursor, ChunkEnd)}]]
  /\ UNCHANGED <<redisVars, queueVars, mapVars, accounts, cursor, changes, faults>>

\* A list of accounts, or of users whose accounts are gone.
SendList(h, kind) ==
  /\ handler[h].pc = "idle"
  /\ Room /\ changes < MaxChanges /\ changes' = changes + 1
  /\ \E list \in SUBSET (IF kind = "exists" THEN Registered
                         ELSE {m.user : m \in {n \in sent : n.action = "delete"}} \ Registered) :
       /\ list # {}
       /\ handler' = [handler EXCEPT ![h] = [Idle EXCEPT
            !.pc = "range", !.kind = kind, !.content = list]]
  /\ UNCHANGED <<redisVars, queueVars, mapVars, serviceVars, faults>>

\* The service does not wait any longer and sends the chunk again.
Timeout ==
  /\ awaits # {} /\ Fault
  /\ awaits' = {}
  /\ UNCHANGED <<redisVars, queueVars, mapVars, accounts, cursor, handler, changes>>

\* The answer OK moves the cursor; MISSING sends it back to the beginning; an
\* error makes it send the chunk again.
Answer(h, answer) ==
  /\ awaits' = awaits \ {h}
  /\ cursor' = CASE h \notin awaits \/ answer = "error" -> cursor
                 [] answer = "MISSING" -> None
                 [] OTHER -> handler[h].to
  /\ handler' = [handler EXCEPT ![h] = Idle]

-----------------------------------------------------------------------------
(* reconcile                                                               *)

\* Mutant: the place of the chunk is not compared with the last one.
SkippedNever(c) == FALSE

\* Mutant: a chunk must begin before the place the last one ended.
SkippedAtEnd(c) == c.from # None /\ (last = None \/ c.from >= last)

\* The chunk does not continue what was reconciled before.
Skipped(c) == c.from # None /\ (last = None \/ c.from > last)

CheckChunk(h) ==
  /\ handler[h].pc = "check"
  /\ IF Skipped(handler[h]) \/ (handler[h].from = None /\ handler[h].to = None)
       THEN Answer(h, "MISSING")
       ELSE handler' = [handler EXCEPT ![h].pc = "range"] /\ UNCHANGED <<cursor, awaits>>
  /\ UNCHANGED <<redisVars, queueVars, mapVars, accounts, changes, faults>>

\* Mutant: the upper bound is exclusive.
getUsersInRangeOpen(from, to) ==
  {u \in users : u[1] > from /\ (to # None => u[1] < to)}

getUsersInRangeA(from, to) == {u \in users : u[1] > from}
getUsersInRangeB(from, to) == {u \in users : u[1] > from + 1 /\ (to # None => u[1] <= to)}

\* ZRANGEBYLEX between the bounds after the uuids.
getUsersInRange(from, to) == {u \in users : InChunk(u[1], from, to)}

\* reconcile compares a chunk with its range, existsReconcile and
\* deletesReconcile their list with the users that are known.
Compare(h) ==
  /\ handler[h].pc = "range"
  /\ LET c == handler[h]
         known == IF c.kind = "chunk" THEN getUsersInRange(c.from, c.to) ELSE c.content \cap users
         remove == CASE c.kind = "chunk" -> known \ c.content
                     [] c.kind = "exists" -> {}
                     [] c.kind = "deletes" -> known
         add == IF c.kind = "deletes" THEN {} ELSE c.content \ known
     IN  handler' = [handler EXCEPT ![h] = [c EXCEPT !.pc = "apply", !.remove = remove, !.add = add]]
  /\ UNCHANGED <<redisVars, queueVars, mapVars, serviceVars, changes, faults>>

\* Without a map the request ends in an exception, whatever is done already.
ChunkFails(h) ==
  /\ handler[h].pc = "apply" /\ handler[h].remove \cup handler[h].add # {} /\ ~mapPresent
  /\ Answer(h, "error")
  /\ UNCHANGED <<redisVars, queueVars, mapVars, accounts, changes, faults>>

ApplyRemove(h) ==
  /\ handler[h].pc = "apply" /\ mapPresent
  /\ \E u \in handler[h].remove :
       /\ removeUser(u)
       /\ handler' = [handler EXCEPT ![h].remove = @ \ {u}]
  /\ UNCHANGED <<last, userSetBuilt, covered, queueVars, mapPresent, channel, serviceVars, changes, faults>>

ApplyAdd(h) ==
  /\ handler[h].pc = "apply" /\ handler[h].remove = {} /\ mapPresent
  /\ \E u \in handler[h].add :
       /\ addUser(u)
       /\ handler' = [handler EXCEPT ![h].add = @ \ {u}]
  /\ UNCHANGED <<last, userSetBuilt, covered, queueVars, mapPresent, channel, serviceVars, changes, faults>>

\* The uuids a request is about.
Range(h) == {u \in Uuids : InChunk(u, handler[h].from, handler[h].to)}

\* A list is done.
FinishList(h) ==
  /\ handler[h].pc = "apply" /\ handler[h].kind # "chunk"
  /\ handler[h].remove = {} /\ handler[h].add = {}
  /\ handler' = [handler EXCEPT ![h] = Idle]
  /\ UNCHANGED <<redisVars, queueVars, mapVars, serviceVars, changes, faults>>

\* setUuidLastReconciled; the last chunk deletes the place of the pass first.
FinishChunk(h) ==
  /\ handler[h].pc = "apply" /\ handler[h].kind = "chunk"
  /\ handler[h].remove = {} /\ handler[h].add = {}
  /\ last' = handler[h].to
  /\ IF handler[h].to = None
       THEN handler' = [handler EXCEPT ![h].pc = "mark"] /\ UNCHANGED <<covered, cursor, awaits>>
       ELSE covered' = covered \cup Range(h) /\ Answer(h, "OK")
  /\ UNCHANGED <<users, userSetBuilt, queueVars, mapVars, accounts, changes, faults>>

\* And then marks the set as built.
MarkBuilt(h) ==
  /\ handler[h].pc = "mark"
  /\ userSetBuilt' = TRUE
  /\ covered' = covered \cup Range(h)
  /\ Answer(h, "OK")
  /\ UNCHANGED <<users, last, queueVars, mapVars, accounts, changes, faults>>

\* The service declares that its lists have covered every account; the mark
\* is set on its word.
markReconcileComplete ==
  /\ userSetBuilt' = TRUE
  /\ covered' = Uuids
  /\ UNCHANGED <<users, last, queueVars, mapVars, serviceVars, handler, changes, faults>>

-----------------------------------------------------------------------------
(* The queue consumer: processQueue                                        *)

\* deleteMessages, one receipt at a time; a client error drops the receipt
\* and leaves the message, a service error keeps both.
DeleteMessage(message) ==
  /\ batch = <<>> /\ message \in receipts
  /\ \/ /\ receipts' = receipts \ {message} /\ queue' = queue \ {message}
        /\ UNCHANGED faults
     \/ /\ Fault /\ receipts' = receipts \ {message} /\ UNCHANGED queue
  /\ UNCHANGED <<redisVars, sent, processed, batch, mapVars, serviceVars, handler, changes>>

\* The queue hands out any of its messages, in any order, also again.  Receipts
\* are left over when the service could not delete their messages.
ReceiveMessages ==
  /\ batch = <<>> /\ mapPresent
  /\ IF receipts = {} THEN UNCHANGED faults ELSE Fault
  /\ \E m1 \in queue : \E m2 \in queue :
       batch' = IF m1 = m2 THEN <<m1>> ELSE <<m1, m2>>
  /\ UNCHANGED <<redisVars, queue, sent, processed, receipts, mapVars, serviceVars, handler, changes>>

\* Mutant: the receipt of a message is kept although it was not processed.
ProcessMessageLossy ==
  /\ batch # <<>>
  /\ receipts' = receipts \cup {Head(batch)}
  /\ IF mapPresent
       THEN /\ IF Head(batch).action = "add" THEN addUser(Head(batch).user) ELSE removeUser(Head(batch).user)
            /\ processed' = processed \cup {Head(batch)}
            /\ batch' = Tail(batch)
       ELSE /\ batch' = <<>>
            /\ UNCHANGED <<users, map, processed>>
  /\ UNCHANGED <<last, userSetBuilt, covered, queue, sent, mapPresent, channel, serviceVars, handler, changes, faults>>

\* Without a map the rest of the batch is left to the queue.
ProcessMessage ==
  /\ batch # <<>>
  /\ IF mapPresent
       THEN /\ IF Head(batch).action = "add" THEN addUser(Head(batch).user) ELSE removeUser(Head(batch).user)
            /\ receipts' = receipts \cup {Head(batch)}
            /\ processed' = processed \cup {Head(batch)}
            /\ batch' = Tail(batch)
       ELSE /\ batch' = <<>>
            /\ UNCHANGED <<users, map, receipts, processed>>
  /\ UNCHANGED <<last, userSetBuilt, covered, queue, sent, mapPresent, channel, serviceVars, handler, changes, faults>>

-----------------------------------------------------------------------------
(* Failures                                                                *)

\* The connection to the update channel is lost, and the map with it.
LoseMap ==
  /\ channel = "up" /\ Fault
  /\ channel' = "down" /\ mapPresent' = FALSE
  /\ UNCHANGED <<redisVars, queueVars, map, serviceVars, handler, changes>>

\* The node connects, after a loss and at its start, and builds the map from
\* Redis when the set is built there.  When it is not, the node stays without a
\* map: nothing asks again while the connection holds.
RebuildMap ==
  /\ channel = "down"
  /\ channel' = "up" /\ mapPresent' = userSetBuilt
  /\ IF userSetBuilt THEN RebuiltMap(map') ELSE UNCHANGED map
  /\ UNCHANGED <<redisVars, queueVars, serviceVars, handler, changes, faults>>

\* Requests under way end, and the service hears nothing of them or an error.
EndRequests == handler' = [h \in Handlers |-> Idle] /\ awaits' = {}

\* The process dies: receipts, batch, requests and the map are gone.
Crash ==
  /\ Fault
  /\ channel' = "down" /\ mapPresent' = FALSE
  /\ batch' = <<>> /\ receipts' = {}
  /\ EndRequests
  /\ UNCHANGED <<redisVars, queue, sent, processed, map, accounts, cursor, changes>>

\* Redis comes back without its data.  A restart breaks its connections: the
\* commands of requests under way fail and the channel is down.  Otherwise the
\* data goes between two requests.
RedisLost(restarts) ==
  /\ Fault
  /\ users' = {} /\ last' = None /\ userSetBuilt' = FALSE /\ covered' = {}
  /\ IF restarts
       THEN channel' = "down" /\ mapPresent' = FALSE /\ EndRequests
       ELSE /\ \A h \in Handlers : handler[h].pc = "idle"
            /\ UNCHANGED <<channel, mapPresent, handler, awaits>>
  /\ UNCHANGED <<queueVars, map, accounts, cursor, changes>>

HandlerStep(h) ==
  \/ CheckChunk(h) \/ Compare(h) \/ ChunkFails(h) \/ ApplyRemove(h) \/ ApplyAdd(h)
  \/ FinishList(h) \/ FinishChunk(h) \/ MarkBuilt(h)

ConsumerStep == ProcessMessage \/ ReceiveMessages \/ (\E m \in receipts : DeleteMessage(m))

Next ==
  \/ \E u \in Uuids, k \in Numbers \cup {NoNumber} : Change(u, k)
  \/ \E h \in Handlers : SendChunk(h) \/ HandlerStep(h)
  \/ \E h \in Handlers, kind \in {"exists", "deletes"} : SendList(h, kind)
  \/ markReconcileComplete
  \/ ConsumerStep
  \/ Timeout \/ LoseMap \/ RebuildMap \/ Crash
  \/ \E restarts \in BOOLEAN : RedisLost(restarts)

Spec == Init /\ [][Next]_vars

\* The service goes on sending, started requests and the consumer go on, and a
\* lost connection is established again.
FairSpec ==
  /\ Spec
  /\ WF_vars(\E h \in Handlers : SendChunk(h))
  /\ \A h \in Handlers : WF_vars(HandlerStep(h))
  /\ WF_vars(ConsumerStep)
  /\ WF_vars(RebuildMap)

-----------------------------------------------------------------------------
\* Types of the state.
TypeOK ==
  /\ users \subseteq Uuids \X Numbers
  /\ last \in Uuids \cup {None}
  /\ map \in [Numbers -> Uuids \cup {None}]
  /\ channel \in {"up", "down"}
  /\ awaits \subseteq Handlers
  /\ receipts \subseteq sent

\* A queue message is deleted only after it was processed: whatever fails, a
\* message that was sent was processed or is still in the queue.
NoMessageLost == sent \subseteq processed \cup queue

\* reconcile sets USER_SET_BUILT only when every part of the uuid range was
\* reconciled since Redis was empty: a gap makes the service start over.
BuiltMeansCovered == userSetBuilt => covered = Uuids

\* However messages are repeated and reordered, requests repeated, broken off
\* or failed: when accounts and failures come to rest, the set in Redis
\* becomes and stays the set of accounts.  This holds when Redis keeps its mark
\* USER_SET_BUILT, and when it is lost on the condition that the node keeps its
\* map: addUser and removeUser refuse to work without one.
Converges == ([]userSetBuilt \/ <>[]mapPresent) => <>[](users = Registered)

\* Reconciliation builds the set in Redis, and again when Redis lost it, as long
\* as the node has kept its map (a node that connects to a Redis without the mark
\* USER_SET_BUILT gets none).
SetGetsBuilt == <>[]mapPresent => []<>userSetBuilt
=============================================================================
