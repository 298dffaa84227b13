--------------------------- MODULE ReconcileProofs ---------------------------
(***************************************************************************)
(* No update message is lost, and the set in Redis is marked as built only *)
(* when all of it was reconciled, for any number of accounts, numbers,     *)
(* request threads, changes and failures.                                  *)
(***************************************************************************)
EXTENDS Reconcile, TLAPS

User == Uuids \X Numbers
Place == Uuids \cup {None}
Messages == [action : {"add", "delete"}, user : User, n : Nat]
Requests == [pc : {"idle", "check", "range", "apply", "mark"}, kind : {"chunk", "exists", "deletes"},
             from : Place, to : Place, content : SUBSET User, remove : SUBSET User, add : SUBSET User]

\* Types of the Redis keys, the requests and the service.
StoreType ==
  /\ users \subseteq User /\ last \in Place /\ userSetBuilt \in BOOLEAN /\ covered \subseteq Uuids
  /\ map \in [Numbers -> Place] /\ mapPresent \in BOOLEAN /\ channel \in {"up", "down"}
RequestType ==
  /\ accounts \in [Uuids -> Numbers \cup {NoNumber}]
  /\ handler \in [Handlers -> Requests]
  /\ cursor \in Place /\ awaits \subseteq Handlers /\ changes \in Nat
QueueType ==
  /\ sent \subseteq Messages /\ queue \subseteq sent
  /\ batch \in Seq(Messages) /\ \A i \in 1..Len(batch) : batch[i] \in sent
  /\ processed \subseteq sent

TypeInv == StoreType /\ RequestType /\ QueueType

\* Only messages that were processed have a receipt.
QueueInv == receipts \subseteq processed /\ NoMessageLost

Upto(n) == {u \in Uuids : u <= n}
Running(h) == handler[h].pc \in {"range", "apply", "mark"} /\ handler[h].kind = "chunk"

\* Everything before the last reconciled uuid is covered, and everything
\* before the start of a chunk that was let through, although another request
\* may have moved the last uuid since.
CoverInv ==
  /\ BuiltMeansCovered
  /\ Upto(last) \subseteq covered
  /\ \A h \in Handlers : Running(h) => Upto(handler[h].from) \subseteq covered
  /\ \A h \in Handlers : handler[h].pc = "mark" => handler[h].kind = "chunk" /\ handler[h].to = None

-----------------------------------------------------------------------------
\* An idle thread has a request record.
LEMMA IdleType == Idle \in Requests /\ Idle.pc = "idle"
  BY Zenon DEF Idle, Requests, Place, None, User

\* The accounts that hold a number are users.
LEMMA RegisteredType == accounts \in [Uuids -> Numbers \cup {NoNumber}] => Registered \subseteq User
  BY DEF Registered, User

\* Whatever uuids hold a number, the rebuilt map has one of them or none.
LEMMA RebuiltType == ASSUME NEW m, RebuiltMap(m) PROVE m \in [Numbers -> Place]
  BY Zenon DEF RebuiltMap, Place

\* addUser keeps the types of Redis and the map.
LEMMA AddUserType ==
  ASSUME StoreType, NEW u \in User, addUser(u) PROVE users' \subseteq User /\ map' \in [Numbers -> Place]
<1>1. u[1] \in Uuids /\ u[2] \in Numbers BY Zenon DEF User
<1> QED BY <1>1, Zenon DEF StoreType, addUser, Place

\* So does removeUser.
LEMMA RemoveUserType ==
  ASSUME StoreType, NEW u \in User, removeUser(u) PROVE users' \subseteq User /\ map' \in [Numbers -> Place]
<1>1. u[2] \in Numbers BY Zenon DEF User
<1> QED BY <1>1, Zenon DEF StoreType, removeUser, Place

\* What an answer does to the service and the thread.
LEMMA AnswerType ==
  ASSUME RequestType, NEW h \in Handlers, NEW answer, Answer(h, answer)
  PROVE  /\ handler' \in [Handlers -> Requests] /\ cursor' \in Place /\ awaits' \subseteq Handlers
         /\ handler'[h].pc = "idle"
         /\ \A g \in Handlers \ {h} : handler'[g] = handler[g]
<1>1. handler[h].to \in Place BY Zenon DEF RequestType, Requests
<1>2. cursor' \in {cursor, None, handler[h].to} BY Zenon DEF Answer
<1>3. None \in Place BY Zenon DEF Place
<1> QED BY <1>1, <1>2, <1>3, IdleType, Zenon DEF Answer, RequestType

-----------------------------------------------------------------------------
\* The types hold at the beginning.
LEMMA TypeInit == Init => TypeInv
<1> SUFFICES ASSUME Init PROVE TypeInv BY Zenon
<1>1. accounts \in [Uuids -> Numbers \cup {NoNumber}] BY StartAssumption, Zenon DEF Init
<1>2. StoreType
  <2>1. users \subseteq User BY <1>1, RegisteredType, Zenon DEF Init
  <2>2. map \in [Numbers -> Place] BY RebuiltType, Zenon DEF Init
  <2> QED BY <2>1, <2>2, StartAssumption, Zenon DEF Init, StoreType, Place
<1>3. RequestType BY <1>1, IdleType, Zenon DEF Init, RequestType, Place
<1>4. QueueType BY DEF Init, QueueType
<1> QED BY <1>2, <1>3, <1>4, Zenon DEF TypeInv

\* Steps that leave the store alone, or the requests, or the queue.
LEMMA StoreSame == StoreType /\ UNCHANGED <<redisVars, mapVars>> => StoreType'
  BY Zenon DEF StoreType, redisVars, mapVars

\* A step that at most takes messages out of the queue.
LEMMA QueueSame == QueueType /\ UNCHANGED <<sent, processed, batch>> /\ queue' \subseteq queue => QueueType'
  BY Zenon DEF QueueType

\* A step of neither the service nor a request.
LEMMA RequestSame == RequestType /\ UNCHANGED <<serviceVars, handler, changes>> => RequestType'
  BY Zenon DEF RequestType, serviceVars

\* Types: a change of an account, with the message it sends.
LEMMA ChangeType ==
  ASSUME TypeInv, NEW u \in Uuids, NEW k \in Numbers \cup {NoNumber}, Change(u, k) PROVE TypeInv'
<1>1. StoreType' BY StoreSame, Zenon DEF TypeInv, Change, redisVars, mapVars
<1>2. RequestType' BY DEF TypeInv, RequestType, Change
<1>3. QueueType'
  <2> DEFINE message == IF k # NoNumber THEN [action |-> "add", user |-> <<u, k>>, n |-> changes]
                        ELSE [action |-> "delete", user |-> <<u, accounts[u]>>, n |-> changes]
  <2>1. message \in Messages
    <3>1. CASE k # NoNumber BY <3>1, Zenon DEF Messages, User, TypeInv, RequestType
    <3>2. CASE k = NoNumber
      <4>1. accounts[u] \in Numbers BY <3>2, Zenon DEF Change, TypeInv, RequestType
      <4> QED BY <3>2, <4>1, Zenon DEF Messages, User, TypeInv, RequestType
    <3> QED BY <3>1, <3>2, Zenon
  <2>2. sent' = sent \cup {message} /\ queue' = queue \cup {message} /\ processed' = processed /\ batch' = batch BY Zenon DEF Change
  <2> HIDE DEF message
  <2> QED BY <2>1, <2>2, Zenon DEF TypeInv, QueueType
<1> QED BY <1>1, <1>2, <1>3, Zenon DEF TypeInv

\* Types: the next chunk of a pass.
LEMMA SendChunkType == ASSUME TypeInv, NEW h \in Handlers, SendChunk(h) PROVE TypeInv'
<1>1. StoreType' /\ QueueType' BY StoreSame, QueueSame, Zenon DEF TypeInv, SendChunk, redisVars, mapVars, queueVars
<1>2. RequestType'
  <2>1. ChunkEnd \in Place /\ cursor \in Place
    BY SizeAssumption DEF ChunkEnd, Place, Uuids, None, TypeInv, RequestType
  <2> DEFINE content == {u \in Registered : InChunk(u[1], cursor, ChunkEnd)}
  <2>2. content \in SUBSET User BY RegisteredType, Zenon DEF TypeInv, RequestType
  <2>3. handler'[h] \in Requests /\ \A g \in Handlers \ {h} : handler'[g] = handler[g]
    <3> HIDE DEF content
    <3>1. [Idle EXCEPT !.pc = "check", !.from = cursor, !.to = ChunkEnd, !.content = content] \in Requests
      BY <2>1, <2>2, Zenon DEF Idle, Requests
    <3> QED BY <3>1, Zenon DEF SendChunk, TypeInv, RequestType, content
  <2>4. handler' \in [Handlers -> Requests]
    BY <2>3, Zenon DEF SendChunk, TypeInv, RequestType
  <2> QED BY <2>4, Zenon DEF SendChunk, TypeInv, RequestType
<1> QED BY <1>1, <1>2, Zenon DEF TypeInv

\* Types: a list of accounts.
LEMMA SendListType ==
  ASSUME TypeInv, NEW h \in Handlers, NEW kind \in {"exists", "deletes"}, SendList(h, kind) PROVE TypeInv'
<1>1. StoreType' /\ QueueType' BY StoreSame, QueueSame, Zenon DEF TypeInv, SendList, redisVars, mapVars, queueVars
<1>2. RequestType'
  <2>1. PICK list \in SUBSET (IF kind = "exists" THEN Registered
                         ELSE {m.user : m \in {n \in sent : n.action = "delete"}} \ Registered) :
          handler' = [handler EXCEPT ![h] = [Idle EXCEPT !.pc = "range", !.kind = kind, !.content = list]]
    BY Zenon DEF SendList
  <2>2. list \in SUBSET User
    <3>1. Registered \subseteq User BY RegisteredType, Zenon DEF TypeInv, RequestType
    <3>2. {m.user : m \in {n \in sent : n.action = "delete"}} \subseteq User
      BY Zenon DEF TypeInv, QueueType, Messages
    <3> QED BY <2>1, <3>1, <3>2, Zenon
  <2>3. [Idle EXCEPT !.pc = "range", !.kind = kind, !.content = list] \in Requests
    BY <2>2, Zenon DEF Idle, Requests, Place
  <2>4. handler' \in [Handlers -> Requests] BY <2>1, <2>3, Zenon DEF TypeInv, RequestType
  <2> QED BY <2>4 DEF SendList, serviceVars, TypeInv, RequestType
<1> QED BY <1>1, <1>2, Zenon DEF TypeInv

\* Types: the check of a chunk's place.
LEMMA CheckChunkType == ASSUME TypeInv, NEW h \in Handlers, CheckChunk(h) PROVE TypeInv'
<1>1. StoreType' /\ QueueType' BY StoreSame, QueueSame, Zenon DEF TypeInv, CheckChunk, redisVars, mapVars, queueVars
<1>2. RequestType'
  <2>1. CASE Answer(h, "MISSING") BY <2>1, AnswerType, Zenon DEF TypeInv, RequestType, CheckChunk
  <2>2. CASE handler' = [handler EXCEPT ![h].pc = "range"] /\ UNCHANGED <<cursor, awaits>>
    <3>1. [handler[h] EXCEPT !.pc = "range"] \in Requests BY Zenon DEF TypeInv, RequestType, Requests
    <3>2. handler' \in [Handlers -> Requests] BY <2>2, <3>1, Zenon DEF TypeInv, RequestType
    <3> QED BY <2>2, <3>2, Zenon DEF TypeInv, RequestType, CheckChunk
  <2> QED BY <2>1, <2>2, Zenon DEF CheckChunk
<1> QED BY <1>1, <1>2, Zenon DEF TypeInv

\* The parts of a request that Compare fills in.
LEMMA CompareType == ASSUME TypeInv, NEW h \in Handlers, Compare(h) PROVE TypeInv'
<1>1. StoreType' /\ QueueType' BY StoreSame, QueueSame, Zenon DEF TypeInv, Compare, redisVars, mapVars, queueVars
<1>2. PICK remove, add : /\ remove \in SUBSET User /\ add \in SUBSET User
                         /\ handler' = [handler EXCEPT ![h] = [handler[h] EXCEPT !.pc = "apply", !.remove = remove, !.add = add]]
  <2> DEFINE c == handler[h]
             known == IF c.kind = "chunk" THEN getUsersInRange(c.from, c.to) ELSE c.content \cap users
             rem == CASE c.kind = "chunk" -> known \ c.content
                      [] c.kind = "exists" -> {}
                      [] c.kind = "deletes" -> known
             ad == IF c.kind = "deletes" THEN {} ELSE c.content \ known
  <2>1. c \in Requests /\ users \subseteq User BY Zenon DEF TypeInv, RequestType, StoreType
  <2>2. known \subseteq User BY <2>1, Zenon DEF getUsersInRange, Requests
  <2>3. ad \in SUBSET User BY <2>1, Zenon DEF Requests
  <2>4. rem \in SUBSET User
    <3>1. c.kind \in {"chunk", "exists", "deletes"} BY <2>1, Zenon DEF Requests
    <3>2. rem \in {known \ c.content, {}, known} BY <3>1, Zenon
    <3> QED BY <2>2, <3>2, Zenon
  <2>5. handler' = [handler EXCEPT ![h] = [c EXCEPT !.pc = "apply", !.remove = rem, !.add = ad]]
    BY Zenon DEF Compare
  <2> QED BY <2>3, <2>4, <2>5, Zenon
<1>3. RequestType'
  <2>1. [handler[h] EXCEPT !.pc = "apply", !.remove = remove, !.add = add] \in Requests
    BY <1>2, ZenonT(40) DEF TypeInv, RequestType, Requests
  <2>2. handler' \in [Handlers -> Requests] BY <1>2, <2>1, Zenon DEF TypeInv, RequestType
  <2> QED BY <2>2, Zenon DEF Compare, serviceVars, TypeInv, RequestType
<1> QED BY <1>1, <1>3, Zenon DEF TypeInv

\* Types: one removal or addition of a request.
LEMMA ApplyType ==
  ASSUME TypeInv, NEW h \in Handlers, ApplyRemove(h) \/ ApplyAdd(h) PROVE TypeInv'
<1>0. handler[h] \in Requests BY Zenon DEF TypeInv, RequestType
<1>1. QueueType' BY QueueSame, Zenon DEF TypeInv, ApplyRemove, ApplyAdd, queueVars
<1>2. StoreType' /\ handler' \in [Handlers -> Requests]
  <2>1. CASE ApplyRemove(h)
    <3>1. PICK u \in handler[h].remove : removeUser(u) /\ handler' = [handler EXCEPT ![h].remove = @ \ {u}]
      BY <2>1, Zenon DEF ApplyRemove
    <3>2. u \in User BY <1>0, <3>1, Zenon DEF Requests
    <3>3. StoreType' BY <2>1, <3>1, <3>2, RemoveUserType, Zenon DEF ApplyRemove, TypeInv, StoreType
    <3>4. [handler[h] EXCEPT !.remove = @ \ {u}] \in Requests BY <1>0, Zenon DEF Requests
    <3> QED BY <3>1, <3>3, <3>4, Zenon DEF TypeInv, RequestType
  <2>2. CASE ApplyAdd(h)
    <3>1. PICK u \in handler[h].add : addUser(u) /\ handler' = [handler EXCEPT ![h].add = @ \ {u}]
      BY <2>2, Zenon DEF ApplyAdd
    <3>2. u \in User BY <1>0, <3>1, Zenon DEF Requests
    <3>3. StoreType' BY <2>2, <3>1, <3>2, AddUserType, Zenon DEF ApplyAdd, TypeInv, StoreType
    <3>4. [handler[h] EXCEPT !.add = @ \ {u}] \in Requests BY <1>0, Zenon DEF Requests
    <3> QED BY <3>1, <3>3, <3>4, Zenon DEF TypeInv, RequestType
  <2> QED BY <2>1, <2>2, Zenon
<1>3. RequestType' BY <1>2, Zenon DEF ApplyRemove, ApplyAdd, serviceVars, TypeInv, RequestType
<1> QED BY <1>1, <1>2, <1>3, Zenon DEF TypeInv

\* Types: the end of a request.
LEMMA FinishType ==
  ASSUME TypeInv, NEW h \in Handlers, FinishList(h) \/ FinishChunk(h) \/ MarkBuilt(h) \/ ChunkFails(h) PROVE TypeInv'
<1>1. QueueType' BY QueueSame, Zenon DEF TypeInv, FinishList, FinishChunk, MarkBuilt, ChunkFails, queueVars
<1>2. handler[h].to \in Place BY Zenon DEF TypeInv, RequestType, Requests
<1>3. StoreType'
  <2>0. Range(h) \subseteq Uuids BY Zenon DEF Range
  <2>1. CASE FinishChunk(h) BY <1>2, <2>0, <2>1, Zenon DEF FinishChunk, mapVars, TypeInv, StoreType
  <2>3. CASE MarkBuilt(h) BY <2>0, <2>3, Zenon DEF MarkBuilt, mapVars, TypeInv, StoreType
  <2>2. CASE FinishList(h) \/ ChunkFails(h)
    BY <2>2, StoreSame, Zenon DEF FinishList, ChunkFails, redisVars, mapVars, TypeInv
  <2> QED BY <2>1, <2>2, <2>3, Zenon
<1>4. RequestType'
  <2>1. CASE FinishChunk(h)
    <3>1. CASE handler[h].to # None BY <2>1, <3>1, AnswerType, Zenon DEF FinishChunk, TypeInv, RequestType
    <3>2. CASE handler[h].to = None
      <4>1. [handler[h] EXCEPT !.pc = "mark"] \in Requests BY Zenon DEF TypeInv, RequestType, Requests
      <4>2. handler' \in [Handlers -> Requests] BY <2>1, <3>2, <4>1, Zenon DEF FinishChunk, TypeInv, RequestType
      <4> QED BY <2>1, <3>2, <4>2, Zenon DEF FinishChunk, TypeInv, RequestType
    <3> QED BY <3>1, <3>2, Zenon
  <2>4. CASE MarkBuilt(h) BY <2>4, AnswerType, Zenon DEF MarkBuilt, TypeInv, RequestType
  <2>2. CASE ChunkFails(h) BY <2>2, AnswerType, Zenon DEF ChunkFails, TypeInv, RequestType
  <2>3. CASE FinishList(h) BY <2>3, IdleType, Zenon DEF FinishList, serviceVars, TypeInv, RequestType
  <2> QED BY <2>1, <2>2, <2>3, <2>4, Zenon
<1> QED BY <1>1, <1>3, <1>4, Zenon DEF TypeInv

\* The queue consumer.
LEMMA ConsumerType == ASSUME TypeInv, ConsumerStep PROVE TypeInv'
<1>1. RequestType' BY RequestSame, Zenon DEF ConsumerStep, ProcessMessage, ReceiveMessages, DeleteMessage, TypeInv
<1>2. CASE ProcessMessage
  <2>0. Head(batch) = batch[1] /\ batch[1] \in sent /\ Tail(batch) \in Seq(Messages)
        /\ \A i \in 1..Len(Tail(batch)) : Tail(batch)[i] \in sent
    BY <1>2 DEF ProcessMessage, TypeInv, QueueType
  <2>1. Head(batch).user \in User BY <2>0, Zenon DEF TypeInv, QueueType, Messages
  <2>2. StoreType'
    BY <1>2, <2>1, AddUserType, RemoveUserType, Zenon DEF ProcessMessage, TypeInv, StoreType
  <2>3. QueueType'
    <3>1. sent' = sent /\ queue' = queue BY <1>2, Zenon DEF ProcessMessage
    <3>2. processed' \subseteq sent BY <1>2, <2>0, Zenon DEF ProcessMessage, TypeInv, QueueType
    <3>3. batch' = Tail(batch) \/ batch' = <<>> BY <1>2, Zenon DEF ProcessMessage
    <3>4. batch' \in Seq(Messages)
      <4>1. <<>> \in Seq(Messages) OBVIOUS
      <4> QED BY <2>0, <3>3, <4>1, Zenon
    <3>5. \A i \in 1..Len(batch') : batch'[i] \in sent
      <4>1. CASE batch' = Tail(batch) BY <2>0, <4>1, Zenon
      <4>2. CASE batch' = <<>> BY <4>2
      <4> QED BY <3>3, <4>1, <4>2, Zenon
    <3> QED BY <3>1, <3>2, <3>4, <3>5, Zenon DEF TypeInv, QueueType
  <2> QED BY <1>1, <2>2, <2>3, Zenon DEF TypeInv
<1>3. CASE ReceiveMessages
  <2>1. StoreType' BY <1>3, StoreSame, Zenon DEF ReceiveMessages, redisVars, mapVars, TypeInv
  <2>2. PICK m1 \in queue, m2 \in queue : batch' = IF m1 = m2 THEN <<m1>> ELSE <<m1, m2>>
    BY <1>3, Zenon DEF ReceiveMessages
  <2> QED BY <1>1, <1>3, <2>1, <2>2 DEF ReceiveMessages, TypeInv, QueueType
<1>4. CASE \E m \in receipts : DeleteMessage(m)
  BY <1>1, <1>4, StoreSame, QueueSame, Zenon DEF DeleteMessage, redisVars, mapVars, TypeInv
<1> QED BY <1>2, <1>3, <1>4, Zenon DEF ConsumerStep

\* Types: failures and the rebuilt map.
LEMMA FailureType ==
  ASSUME TypeInv, Timeout \/ LoseMap \/ RebuildMap \/ Crash \/ \E restarts \in BOOLEAN : RedisLost(restarts) PROVE TypeInv'
<1>1. CASE Timeout
  BY <1>1, StoreSame, QueueSame, Zenon DEF Timeout, redisVars, mapVars, queueVars, TypeInv, RequestType
<1>2. CASE LoseMap
  <2>1. StoreType' BY <1>2, Zenon DEF LoseMap, redisVars, TypeInv, StoreType
  <2> QED BY <1>2, <2>1, QueueSame, RequestSame, Zenon DEF LoseMap, queueVars, TypeInv
<1>3. CASE RebuildMap
  <2>1. map' \in [Numbers -> Place]
    <3>1. CASE userSetBuilt
      <4>1. RebuiltMap(map') BY <1>3, <3>1, Zenon DEF RebuildMap
      <4>2. PICK m : map' = m /\ RebuiltMap(m) BY <4>1, Zenon
      <4> QED BY <4>2, RebuiltType, Zenon
    <3>2. CASE ~userSetBuilt BY <1>3, <3>2, Zenon DEF RebuildMap, TypeInv, StoreType
    <3> QED BY <3>1, <3>2, Zenon
  <2>2. StoreType' BY <1>3, <2>1, Zenon DEF RebuildMap, redisVars, TypeInv, StoreType
  <2> QED BY <1>3, <2>2, QueueSame, RequestSame, Zenon DEF RebuildMap, queueVars, TypeInv
<1>4. CASE Crash
  <2>1. StoreType' BY <1>4, Zenon DEF Crash, redisVars, TypeInv, StoreType
  <2>2. QueueType' BY <1>4 DEF Crash, TypeInv, QueueType
  <2>3. RequestType' BY <1>4, IdleType, Zenon DEF Crash, EndRequests, TypeInv, RequestType
  <2> QED BY <2>1, <2>2, <2>3, Zenon DEF TypeInv
<1>5. CASE \E restarts \in BOOLEAN : RedisLost(restarts)
  <2>1. StoreType' BY <1>5, Zenon DEF RedisLost, TypeInv, StoreType, Place
  <2>2. RequestType'
    <3>1. CASE EndRequests BY <1>5, <3>1, IdleType, Zenon DEF RedisLost, EndRequests, TypeInv, RequestType
    <3>2. CASE UNCHANGED <<handler, awaits>> BY <1>5, <3>2, Zenon DEF RedisLost, TypeInv, RequestType
    <3> QED BY <1>5, <3>1, <3>2, Zenon DEF RedisLost
  <2> QED BY <1>5, <2>1, <2>2, QueueSame, Zenon DEF RedisLost, queueVars, TypeInv
<1> QED BY <1>1, <1>2, <1>3, <1>4, <1>5, Zenon

\* Types: every step.
LEMMA TypeStep == TypeInv /\ [Next]_vars => TypeInv'
<1> SUFFICES ASSUME TypeInv, [Next]_vars PROVE TypeInv' BY Zenon
<1>1. CASE \E u \in Uuids, k \in Numbers \cup {NoNumber} : Change(u, k) BY <1>1, ChangeType, Zenon
<1>2. CASE \E h \in Handlers : SendChunk(h) BY <1>2, SendChunkType, Zenon
<1>3. CASE \E h \in Handlers : HandlerStep(h)
  BY <1>3, CheckChunkType, CompareType, ApplyType, FinishType, Zenon DEF HandlerStep
<1>4. CASE \E h \in Handlers, kind \in {"exists", "deletes"} : SendList(h, kind) BY <1>4, SendListType, Zenon
<1>5. CASE ConsumerStep BY <1>5, ConsumerType, Zenon
<1>6. CASE Timeout \/ LoseMap \/ RebuildMap \/ Crash \/ \E restarts \in BOOLEAN : RedisLost(restarts)
  BY <1>6, FailureType, Zenon
<1>7. CASE UNCHANGED vars
  BY <1>7, StoreSame, QueueSame, RequestSame, Zenon DEF vars, redisVars, mapVars, queueVars, TypeInv
<1>8. CASE markReconcileComplete
  <2>1. StoreType' BY <1>8, Zenon DEF markReconcileComplete, mapVars, TypeInv, StoreType
  <2> QED BY <1>8, <2>1, QueueSame, RequestSame, Zenon DEF markReconcileComplete, queueVars, TypeInv
<1> QED BY <1>1, <1>2, <1>3, <1>4, <1>5, <1>6, <1>7, <1>8, Zenon DEF Next

-----------------------------------------------------------------------------
(* Messages                                                                *)

\* Only messages with a receipt, so processed ones, leave the queue.
LEMMA QueueStep == TypeInv /\ QueueInv /\ [Next]_vars => QueueInv'
<1> SUFFICES ASSUME QueueInv, [Next]_vars PROVE QueueInv' BY Zenon
<1> USE DEF QueueInv, NoMessageLost
<1>1. CASE \E u \in Uuids, k \in Numbers \cup {NoNumber} : Change(u, k) BY <1>1, Zenon DEF Change
<1>2. CASE ProcessMessage BY <1>2, Zenon DEF ProcessMessage
<1>3. CASE ReceiveMessages BY <1>3, Zenon DEF ReceiveMessages
<1>4. CASE \E m \in receipts : DeleteMessage(m) BY <1>4, Zenon DEF DeleteMessage
<1>5. CASE Crash BY <1>5, Zenon DEF Crash
<1>6. CASE UNCHANGED queueVars BY <1>6, Zenon DEF queueVars
<1>7. CASE UNCHANGED vars BY <1>6, <1>7, Zenon DEF vars
<1>8. ASSUME NEW h \in Handlers, SendChunk(h) \/ HandlerStep(h) PROVE UNCHANGED queueVars
  BY <1>8, Zenon DEF SendChunk, HandlerStep, CheckChunk, Compare, ChunkFails, ApplyRemove, ApplyAdd, FinishList, FinishChunk, MarkBuilt
<1>9. ASSUME NEW h \in Handlers, NEW kind \in {"exists", "deletes"}, SendList(h, kind) PROVE UNCHANGED queueVars
  BY <1>9, Zenon DEF SendList
<1>10. CASE markReconcileComplete \/ Timeout \/ LoseMap \/ RebuildMap \/ \E restarts \in BOOLEAN : RedisLost(restarts)
  BY <1>6, <1>10, Zenon DEF markReconcileComplete, Timeout, LoseMap, RebuildMap, RedisLost
<1> QED BY <1>1, <1>2, <1>3, <1>4, <1>5, <1>6, <1>7, <1>8, <1>9, <1>10, Zenon DEF Next, ConsumerStep

-----------------------------------------------------------------------------
(* Coverage                                                                *)

\* A step that changes neither marks nor coverage, and starts no chunk.
LEMMA CoverSame ==
  ASSUME CoverInv, UNCHANGED <<last, userSetBuilt, covered>>,
         \A h \in Handlers : Running(h)' => Running(h) /\ handler'[h].from = handler[h].from,
         \A h \in Handlers : handler'[h].pc = "mark" => handler'[h] = handler[h]
  PROVE  CoverInv'
BY Zenon DEF CoverInv, BuiltMeansCovered, Upto

\* A request that ends leaves the others as they are.
LEMMA AnswerRuns ==
  ASSUME TypeInv, NEW h \in Handlers, NEW answer, Answer(h, answer)
  PROVE  /\ \A g \in Handlers : Running(g)' => Running(g) /\ handler'[g].from = handler[g].from
         /\ \A g \in Handlers : handler'[g].pc = "mark" => handler'[g] = handler[g]
<1>1. handler'[h].pc = "idle" /\ \A g \in Handlers \ {h} : handler'[g] = handler[g]
  BY AnswerType, Zenon DEF TypeInv
<1> QED BY <1>1, Zenon DEF Running

\* A chunk that is let through starts where coverage has come to.
LEMMA CheckCovers == ASSUME TypeInv, CoverInv, NEW h \in Handlers, CheckChunk(h) PROVE CoverInv'
<1>1. UNCHANGED <<last, userSetBuilt, covered>> BY Zenon DEF CheckChunk, redisVars
<1>2. CASE Answer(h, "MISSING") BY <1>1, <1>2, CoverSame, AnswerRuns, Zenon
<1>3. CASE ~Skipped(handler[h]) /\ handler' = [handler EXCEPT ![h].pc = "range"]
  <2>1. handler[h].from \in Nat /\ last \in Nat
    BY SizeAssumption DEF TypeInv, RequestType, StoreType, Requests, Place, Uuids, None
  <2>2. handler[h].from = None \/ handler[h].from <= last BY <1>3, <2>1 DEF Skipped
  <2>3. Upto(handler[h].from) \subseteq covered
    BY <2>1, <2>2 DEF CoverInv, Upto, Uuids, None
  <2>4. \A g \in Handlers : handler'[g].from = handler[g].from /\ (g # h => handler'[g] = handler[g])
                            /\ handler'[h].pc = "range"
    BY <1>3, Zenon DEF TypeInv, RequestType, Requests
  <2> QED BY <1>1, <2>3, <2>4, Zenon DEF CoverInv, BuiltMeansCovered, Running, Upto
<1> QED BY <1>2, <1>3, Zenon DEF CheckChunk

\* A chunk that ends extends the coverage from its start to its end.
LEMMA ChunkCovers ==
  ASSUME TypeInv, CoverInv, NEW h \in Handlers, Running(h), covered' = covered \cup Range(h)
  PROVE  /\ covered' \subseteq Uuids /\ covered \subseteq covered'
         /\ Upto(handler[h].to) \subseteq covered'
         /\ handler[h].to = None => covered' = Uuids
         /\ userSetBuilt => covered' = Uuids
<1> DEFINE from == handler[h].from
           to == handler[h].to
<1>1. from \in Nat /\ to \in Nat /\ (to # None => to \in Uuids)
  BY SizeAssumption DEF TypeInv, RequestType, Requests, Place, Uuids, None
<1>2. Upto(from) \subseteq covered BY Zenon DEF CoverInv
<1>3. covered' = covered \cup {u \in Uuids : InChunk(u, from, to)} BY Zenon DEF Range
<1>4. covered' \subseteq Uuids /\ covered \subseteq covered' BY <1>3, Zenon DEF TypeInv, StoreType
<1>5. Upto(to) \subseteq covered' BY <1>1, <1>2, <1>3 DEF Upto, InChunk, Uuids, None
<1>6. to = None => covered' = Uuids BY <1>1, <1>2, <1>3, <1>4 DEF Upto, InChunk, Uuids
<1>7. (userSetBuilt => covered' = Uuids) BY <1>4, Zenon DEF CoverInv, BuiltMeansCovered, TypeInv, StoreType
<1> QED BY <1>4, <1>5, <1>6, <1>7, Zenon

\* The end of a chunk, with or without the mark to come.
LEMMA FinishCovers == ASSUME TypeInv, CoverInv, NEW h \in Handlers, FinishChunk(h) PROVE CoverInv'
<1>1. CASE handler[h].to # None
  <2>1. covered' = covered \cup Range(h) /\ last' = handler[h].to /\ userSetBuilt' = userSetBuilt
        /\ Answer(h, "OK") /\ Running(h)
    BY <1>1, Zenon DEF FinishChunk, Running
  <2>2. /\ covered \subseteq covered' /\ Upto(handler[h].to) \subseteq covered'
        /\ userSetBuilt => covered' = Uuids
    BY <2>1, ChunkCovers, Zenon
  <2>3. /\ \A g \in Handlers : Running(g)' => Running(g) /\ handler'[g].from = handler[g].from
        /\ \A g \in Handlers : handler'[g].pc = "mark" => handler'[g] = handler[g]
    BY <2>1, AnswerRuns, Zenon
  <2>4. \A g \in Handlers : Running(g)' => Upto(handler'[g].from) \subseteq covered'
    BY <2>2, <2>3, Zenon DEF CoverInv
  <2> QED BY <2>1, <2>2, <2>3, <2>4, Zenon DEF CoverInv, BuiltMeansCovered, Upto
<1>2. CASE handler[h].to = None
  <2>1. UNCHANGED <<userSetBuilt, covered>> /\ last' = None /\ Running(h)
        /\ handler' = [handler EXCEPT ![h].pc = "mark"]
    BY <1>2, Zenon DEF FinishChunk, Running
  <2>2. Upto(None) = {} BY SizeAssumption DEF Upto, Uuids, None
  <2>3. /\ \A g \in Handlers \ {h} : handler'[g] = handler[g]
        /\ handler'[h].from = handler[h].from /\ handler'[h].kind = "chunk" /\ handler'[h].to = None
    BY <1>2, <2>1, Zenon DEF TypeInv, RequestType, Requests, Running
  <2> QED BY <2>1, <2>2, <2>3, Zenon DEF CoverInv, BuiltMeansCovered, Running, Upto
<1> QED BY <1>1, <1>2, Zenon

\* The mark is set when the whole range is covered.
LEMMA MarkCovers == ASSUME TypeInv, CoverInv, NEW h \in Handlers, MarkBuilt(h) PROVE CoverInv'
<1>1. covered' = covered \cup Range(h) /\ last' = last /\ Answer(h, "OK") /\ Running(h) /\ handler[h].to = None
  BY Zenon DEF MarkBuilt, CoverInv, Running
<1>2. covered \subseteq covered' /\ covered' = Uuids BY <1>1, ChunkCovers, Zenon
<1>3. /\ \A g \in Handlers : Running(g)' => Running(g) /\ handler'[g].from = handler[g].from
      /\ \A g \in Handlers : handler'[g].pc = "mark" => handler'[g] = handler[g]
  BY <1>1, AnswerRuns, Zenon
<1> QED BY <1>1, <1>2, <1>3, Zenon DEF CoverInv, BuiltMeansCovered, Upto

\* The other steps of a request.
LEMMA HandlerCovers ==
  ASSUME TypeInv, CoverInv, NEW h \in Handlers,
         Compare(h) \/ ChunkFails(h) \/ ApplyRemove(h) \/ ApplyAdd(h) \/ FinishList(h)
  PROVE  CoverInv'
<1>1. UNCHANGED <<last, userSetBuilt, covered>>
  BY Zenon DEF Compare, ChunkFails, ApplyRemove, ApplyAdd, FinishList, redisVars
<1>2. CASE ChunkFails(h) BY <1>1, <1>2, CoverSame, AnswerRuns, Zenon DEF ChunkFails
<1>3. CASE FinishList(h)
  <2>1. handler'[h].pc = "idle" /\ \A g \in Handlers \ {h} : handler'[g] = handler[g]
    BY <1>3, IdleType, Zenon DEF FinishList, TypeInv, RequestType
  <2> QED BY <1>1, <2>1, CoverSame, Zenon DEF Running
<1>4. CASE Compare(h) \/ ApplyRemove(h) \/ ApplyAdd(h)
  <2>1. /\ \A g \in Handlers \ {h} : handler'[g] = handler[g]
        /\ handler'[h].from = handler[h].from /\ handler'[h].kind = handler[h].kind
        /\ handler[h].pc \in {"range", "apply"} /\ handler'[h].pc # "mark"
    <3>1. handler[h] \in Requests BY Zenon DEF TypeInv, RequestType
    <3>2. CASE Compare(h) BY <3>1, <3>2, Zenon DEF Compare, TypeInv, RequestType, Requests
    <3>3. CASE ApplyRemove(h) BY <3>1, <3>3 DEF ApplyRemove, TypeInv, RequestType, Requests
    <3>4. CASE ApplyAdd(h) BY <3>1, <3>4 DEF ApplyAdd, TypeInv, RequestType, Requests
    <3> QED BY <1>4, <3>2, <3>3, <3>4, Zenon
  <2> QED BY <1>1, <2>1, CoverSame, Zenon DEF Running
<1> QED BY <1>2, <1>3, <1>4, Zenon

\* A new request has not been let through, or is a list.
LEMMA SendCovers ==
  ASSUME TypeInv, CoverInv, NEW h \in Handlers,
         SendChunk(h) \/ \E kind \in {"exists", "deletes"} : SendList(h, kind)
  PROVE  CoverInv'
<1>1. UNCHANGED <<last, userSetBuilt, covered>> BY Zenon DEF SendChunk, SendList, redisVars
<1>2. /\ \A g \in Handlers \ {h} : handler'[g] = handler[g]
      /\ handler'[h].pc = "check" \/ (handler'[h].pc = "range" /\ handler'[h].kind \in {"exists", "deletes"})
  <2>1. handler \in [Handlers -> Requests] BY Zenon DEF TypeInv, RequestType
  <2>2. CASE SendChunk(h)
    <3>1. PICK r : r.pc = "check" /\ handler' = [handler EXCEPT ![h] = r]
      BY <2>2, Zenon DEF SendChunk, Idle
    <3> QED BY <2>1, <3>1, Zenon
  <2>3. ASSUME NEW kind \in {"exists", "deletes"}, SendList(h, kind)
        PROVE  <1>2
    <3>1. PICK r : r.kind = kind /\ r.pc = "range" /\ handler' = [handler EXCEPT ![h] = r]
      BY <2>3, Zenon DEF SendList, Idle
    <3> QED BY <2>1, <3>1, Zenon
  <2> QED BY <2>2, <2>3, Zenon
<1> QED BY <1>1, <1>2, CoverSame, Zenon DEF Running

\* Coverage: every step.
LEMMA CoverStep == TypeInv /\ CoverInv /\ [Next]_vars => CoverInv'
<1> SUFFICES ASSUME TypeInv, CoverInv, [Next]_vars PROVE CoverInv' BY Zenon
<1>1. CASE UNCHANGED <<last, userSetBuilt, covered, handler>>
  BY <1>1, CoverSame, Zenon DEF Running
<1>2. CASE \E u \in Uuids, k \in Numbers \cup {NoNumber} : Change(u, k)
  BY <1>1, <1>2, Zenon DEF Change, redisVars
<1>3. CASE ConsumerStep
  BY <1>1, <1>3, Zenon DEF ConsumerStep, ProcessMessage, ReceiveMessages, DeleteMessage, redisVars
<1>4. CASE \E h \in Handlers : HandlerStep(h)
  BY <1>4, CheckCovers, HandlerCovers, FinishCovers, MarkCovers, Zenon DEF HandlerStep
<1>5. CASE \E h \in Handlers : SendChunk(h) BY <1>5, SendCovers, Zenon
<1>6. CASE \E h \in Handlers, kind \in {"exists", "deletes"} : SendList(h, kind) BY <1>6, SendCovers, Zenon
<1>7. CASE Timeout \/ LoseMap \/ RebuildMap
  BY <1>1, <1>7, Zenon DEF Timeout, LoseMap, RebuildMap, redisVars
<1>8. CASE Crash
  <2>1. \A h \in Handlers : handler'[h].pc = "idle" BY <1>8, IdleType, Zenon DEF Crash, EndRequests
  <2> QED BY <1>8, <2>1, CoverSame, Zenon DEF Crash, redisVars, Running
<1>9. CASE \E restarts \in BOOLEAN : RedisLost(restarts)
  <2>1. \A h \in Handlers : handler'[h].pc = "idle" BY <1>9, IdleType, Zenon DEF RedisLost, EndRequests
  <2>2. Upto(None) = {} BY SizeAssumption DEF Upto, Uuids, None
  <2> QED BY <1>9, <2>1, <2>2, Zenon DEF RedisLost, CoverInv, BuiltMeansCovered, Upto, Running
<1>10. CASE UNCHANGED vars BY <1>1, <1>10, Zenon DEF vars, redisVars
<1>11. CASE markReconcileComplete
  <2>1. \A h \in Handlers : handler'[h] = handler[h] BY <1>11, Zenon DEF markReconcileComplete
  <2> QED BY <1>11, <2>1, Zenon DEF markReconcileComplete, CoverInv, BuiltMeansCovered, Upto, Running
<1> QED BY <1>2, <1>3, <1>4, <1>5, <1>6, <1>7, <1>8, <1>9, <1>10, <1>11, Zenon DEF Next

\* Coverage at the beginning.
LEMMA CoverInit == Init => CoverInv
<1> SUFFICES ASSUME Init PROVE CoverInv BY Zenon
<1>1. \A h \in Handlers : handler[h].pc = "idle" BY IdleType, Zenon DEF Init
<1>2. Upto(None) = {} BY SizeAssumption DEF Upto, Uuids, None
<1> QED BY <1>1, <1>2, Zenon DEF Init, CoverInv, BuiltMeansCovered, Running

-----------------------------------------------------------------------------
\* The keys in Redis, the map, the requests and the receipts keep their types
\* under every interleaving of DirectoryManager and DirectoryQueueManager.
THEOREM TypeCorrect == Spec => []TypeOK
<1>1. TypeInv /\ QueueInv => TypeOK
  BY Zenon DEF TypeInv, StoreType, RequestType, QueueType, QueueInv, TypeOK, User, Place
<1>2. Init => QueueInv BY Zenon DEF Init, QueueInv, NoMessageLost
<1> QED BY <1>1, <1>2, TypeInit, TypeStep, QueueStep, PTL DEF Spec

\* deleteMessages deletes only what processMessage has processed, whatever
\* crashes, service errors and losses of the map happen in between.
THEOREM MessagesKept == Spec => []NoMessageLost
<1>1. Init => QueueInv BY Zenon DEF Init, QueueInv, NoMessageLost
<1>2. QueueInv => NoMessageLost BY Zenon DEF QueueInv
<1> QED BY <1>1, <1>2, TypeInit, TypeStep, QueueStep, PTL DEF Spec

\* reconcile marks the user set as built only when chunks without a gap have
\* covered every uuid since Redis was empty, although requests overlap and
\* repeat.
THEOREM BuiltIsCovered == Spec => []BuiltMeansCovered
<1>1. CoverInv => BuiltMeansCovered BY Zenon DEF CoverInv
<1> QED BY <1>1, CoverInit, TypeInit, TypeStep, CoverStep, PTL DEF Spec
=============================================================================
