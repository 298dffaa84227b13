-------------------------- MODULE DirectoryProofs ---------------------------
(***************************************************************************)
(* A map that was built from Redis agrees with Redis: RedisBuiltAgrees of  *)
(* module Directory, for any nodes, threads, users and failures, provided  *)
(* the callers update a number one at a time and every number has one      *)
(* account.                                                                *)
(*                                                                         *)
(* The invariant is about one node and one number.  As long as the node's  *)
(* subscription lives and no call stands between Redis and the channel,    *)
(* the last message about the number that waits says what Redis holds; and *)
(* with no such message waiting, a map whose scan has passed the number    *)
(* holds what Redis holds.  The scan needs that a number it has not passed *)
(* is not in the map, and a call that applies its update needs that the    *)
(* map it took is still the current one.                                   *)
(***************************************************************************)
EXTENDS Directory, TLAPS

-----------------------------------------------------------------------------
(* The invariant *)

OneAccount == \A u, v \in Users : u[2] = v[2] => u = v

Maps == {m \in [Numbers -> Uuids \cup {NoUuid}] :
           \A k \in Numbers : m[k] # NoUuid => <<m[k], k>> \in Users}

Calls == [pc : {"idle", "cache", "publish", "apply"}, kind : {"none", "add", "remove"},
          user : Users \cup {NoUser}, current : BOOLEAN]

Messages == [type : {"ADDED_USER"}, user : Users]
              \cup [type : {"REMOVED"}, user : {NoUuid} \X Numbers]
              \cup [type : {"KEEPALIVE"}, user : Nodes \X Nat]

TypeOK ==
  /\ users \subseteq Users
  /\ link \in [Nodes -> BOOLEAN] /\ connected \in [Nodes -> BOOLEAN]
  /\ consumer \in [Nodes -> {"down", "rebuild", "scan", "sync", "load", "run"}]
  /\ building \in [Nodes -> Maps] /\ serving \in [Nodes -> Maps]
  /\ source \in [Nodes -> {"none", "redis", "peer"}]
  /\ todo \in [Nodes -> SUBSET Users] /\ attempts \in [Nodes -> Nat]
  /\ call \in [Threads -> Calls]
  /\ inbox \in [Nodes -> Seq(Messages)]

\* A call is about a user, no two are about one number, and one that is past
\* Redis has brought Redis to what it says.
CallsOK ==
  /\ \A t \in Threads : call[t].pc # "idle" => /\ call[t].user \in Users
                                               /\ call[t].kind \in {"add", "remove"}
  /\ \A s, t \in Threads : s # t /\ call[s].pc # "idle" /\ call[t].pc # "idle" =>
       call[s].user[2] # call[t].user[2]
  /\ \A t \in Threads : call[t].pc \in {"publish", "apply"} =>
       (call[t].kind = "add" <=> call[t].user \in users)

\* Only a running consumer has a map, and only a call that began with the
\* node's map applies its update to it.
CurrentOK ==
  /\ \A n \in Nodes : connected[n] => consumer[n] = "run"
  /\ \A t \in Threads : call[t].current => connected[Home[t]]

\* What the scan has not passed is not in the map.
ScanOK ==
  \A n \in Nodes : consumer[n] = "scan" => \A u \in todo[n] : building[n][u[2]] = NoUuid

Held(k) == \E u \in users : u[2] = k

Unpublished(k) == \E t \in Threads : call[t].pc = "publish" /\ call[t].user[2] = k

About(message, k) == message.type # "KEEPALIVE" /\ message.user[2] = k

Waits(queue, k) == \E i \in DOMAIN queue : About(queue[i], k)

\* The last message about number k, if there is one, has this type.
LastIs(queue, k, type) ==
  \A i \in DOMAIN queue :
    (About(queue[i], k) /\ \A j \in DOMAIN queue : j > i => ~About(queue[j], k)) =>
      queue[i].type = type

MailRight(n, k) ==
  (link[n] /\ ~Unpublished(k)) =>
    LastIs(inbox[n], k, IF Held(k) THEN "ADDED_USER" ELSE "REMOVED")

\* The map of node n has been filled in for number k.
Filled(n, k) ==
  \/ connected[n] /\ source[n] = "redis"
  \/ consumer[n] = "scan" /\ \A u \in todo[n] : u[2] # k

MapRight(n, k) ==
  (link[n] /\ ~Unpublished(k) /\ ~Waits(inbox[n], k) /\ Filled(n, k)) =>
    (building[n][k] # NoUuid <=> Held(k))

Inv ==
  /\ TypeOK /\ CallsOK /\ CurrentOK /\ ScanOK
  /\ \A n \in Nodes, k \in Numbers : MailRight(n, k) /\ MapRight(n, k)

-----------------------------------------------------------------------------
(* Queues of messages *)

\* A message at the tail (Publish): the last message about a number is the
\* new one if it is about that number, and the one it was if not.
LEMMA QueueAppend ==
  ASSUME NEW queue \in Seq(Messages), NEW message \in Messages, NEW k, NEW type,
         About(message, k) => message.type = type,
         About(message, k) \/ LastIs(queue, k, type)
  PROVE  /\ LastIs(Append(queue, message), k, type)
         /\ Waits(Append(queue, message), k) <=> (Waits(queue, k) \/ About(message, k))
<1> DEFINE q == Append(queue, message)
<1>1. /\ Len(queue) \in Nat /\ DOMAIN queue = 1..Len(queue)
      /\ DOMAIN q = 1..(Len(queue) + 1) /\ q[Len(queue) + 1] = message
      /\ \A i \in 1..Len(queue) : q[i] = queue[i]
  OBVIOUS
<1> HIDE DEF q
<1>2. LastIs(q, k, type)
  <2> SUFFICES ASSUME NEW i \in DOMAIN q, About(q[i], k),
                      \A j \in DOMAIN q : j > i => ~About(q[j], k)
               PROVE  q[i].type = type
    BY Zenon DEF LastIs
  <2>1. CASE i = Len(queue) + 1
    BY <1>1, <2>1, Zenon
  <2>2. CASE i # Len(queue) + 1
    <3>1. i \in DOMAIN queue /\ q[i] = queue[i] /\ Len(queue) + 1 > i
      BY <1>1, <2>2
    <3>2. ~About(message, k)
      BY <1>1, <3>1
    <3>3. \A j \in DOMAIN queue : j > i => ~About(queue[j], k)
      BY <1>1
    <3> QED
      BY <3>1, <3>2, <3>3, Zenon DEF LastIs
  <2> QED
    BY <2>1, <2>2, Zenon
<1>3. Waits(q, k) <=> (Waits(queue, k) \/ About(message, k))
  BY <1>1 DEF Waits
<1> QED
  BY <1>2, <1>3, Zenon DEF q

\* A message taken from the head (processMessage): the others keep their
\* order, and when no other is about the number the one taken was the last.
LEMMA QueueTail ==
  ASSUME NEW queue \in Seq(Messages), queue # <<>>, NEW k, NEW type,
         LastIs(queue, k, type)
  PROVE  /\ LastIs(Tail(queue), k, type)
         /\ Waits(queue, k) <=> (Waits(Tail(queue), k) \/ About(Head(queue), k))
         /\ (About(Head(queue), k) /\ ~Waits(Tail(queue), k)) => Head(queue).type = type
<1> DEFINE q == Tail(queue)
<1>1. /\ Len(queue) \in Nat /\ Len(queue) > 0 /\ DOMAIN queue = 1..Len(queue)
      /\ DOMAIN q = 1..(Len(queue) - 1) /\ Head(queue) = queue[1]
      /\ \A i \in 1..(Len(queue) - 1) : q[i] = queue[i + 1]
  OBVIOUS
<1> HIDE DEF q
<1>2. LastIs(q, k, type)
  <2> SUFFICES ASSUME NEW i \in DOMAIN q, About(q[i], k),
                      \A j \in DOMAIN q : j > i => ~About(q[j], k)
               PROVE  q[i].type = type
    BY Zenon DEF LastIs
  <2>1. i + 1 \in DOMAIN queue /\ q[i] = queue[i + 1]
    BY <1>1
  <2>2. ASSUME NEW j \in DOMAIN queue, j > i + 1
        PROVE  ~About(queue[j], k)
    <3>1. j - 1 \in DOMAIN q /\ j - 1 > i /\ q[j - 1] = queue[j]
      BY <1>1, <2>2
    <3> QED
      BY <3>1, Zenon
  <2> QED
    BY <2>1, <2>2, Zenon DEF LastIs
<1>3. Waits(queue, k) <=> (Waits(q, k) \/ About(Head(queue), k))
  <2>1. ASSUME NEW i \in DOMAIN queue, About(queue[i], k), i # 1
        PROVE  Waits(q, k)
    <3>1. i - 1 \in DOMAIN q /\ q[i - 1] = queue[i]
      BY <1>1, <2>1
    <3> QED
      BY <2>1, <3>1, Zenon DEF Waits
  <2>2. Waits(q, k) => Waits(queue, k)
    BY <1>1 DEF Waits
  <2>3. 1 \in DOMAIN queue
    BY <1>1
  <2> QED
    BY <1>1, <2>1, <2>2, <2>3, Zenon DEF Waits
<1>4. ASSUME About(Head(queue), k), ~Waits(q, k)
      PROVE  Head(queue).type = type
  <2>1. ASSUME NEW j \in DOMAIN queue, j > 1
        PROVE  ~About(queue[j], k)
    <3>1. j - 1 \in DOMAIN q /\ q[j - 1] = queue[j]
      BY <1>1, <2>1
    <3> QED
      BY <1>4, <3>1, Zenon DEF Waits
  <2>2. 1 \in DOMAIN queue
    BY <1>1
  <2> QED
    BY <1>1, <1>4, <2>1, <2>2, Zenon DEF LastIs
<1> QED
  BY <1>2, <1>3, <1>4, Zenon DEF q

-----------------------------------------------------------------------------
(* Steps that leave a node and a number alone *)

\* What a step needs to leave of a node and a number for its mail and its map
\* to stay right.
LEMMA RightKept ==
  ASSUME NEW n \in Nodes, NEW k \in Numbers, MailRight(n, k), MapRight(n, k),
         link'[n] => link[n] /\ inbox'[n] = inbox[n],
         Unpublished(k) => Unpublished(k)',
         Unpublished(k)' \/ (Held(k)' <=> Held(k)),
         (link'[n] /\ Filled(n, k)') => Filled(n, k) /\ building'[n][k] = building[n][k]
  PROVE  MailRight(n, k)' /\ MapRight(n, k)'
<1>1. MailRight(n, k)'
  BY Zenon DEF MailRight
<1>2. MapRight(n, k)'
  BY Zenon DEF MapRight
<1> QED
  BY <1>1, <1>2, Zenon

\* Held and Unpublished are about users and call alone.
LEMMA SameCalls ==
  ASSUME NEW k
  PROVE  /\ UNCHANGED users => (Held(k)' <=> Held(k))
         /\ UNCHANGED call => (Unpublished(k)' <=> Unpublished(k))
  BY Zenon DEF Held, Unpublished

\* A call that only changes its place keeps what it is about.
LEMMA PlaceChanges ==
  ASSUME TypeOK, NEW t \in Threads, NEW pc \in {"idle", "cache", "publish", "apply"},
         call' = [call EXCEPT ![t].pc = pc]
  PROVE  /\ call' \in [Threads -> Calls]
         /\ call'[t].pc = pc
         /\ \A s \in Threads : s # t => call'[s] = call[s]
         /\ \A s \in Threads : /\ call'[s].kind = call[s].kind
                               /\ call'[s].user = call[s].user
                               /\ call'[s].current = call[s].current
<1> DEFINE c == [call[t] EXCEPT !.pc = pc]
<1>1. call[t] \in Calls /\ call' = [call EXCEPT ![t] = c]
  BY DEF TypeOK
<1>2. /\ c \in Calls /\ c.pc = pc /\ c.kind = call[t].kind
      /\ c.user = call[t].user /\ c.current = call[t].current
  BY <1>1 DEF Calls
<1> HIDE DEF c
<1>3. /\ call' \in [Threads -> Calls] /\ call'[t] = c
      /\ \A s \in Threads : s # t => call'[s] = call[s]
  BY <1>1, <1>2, ZenonT(40) DEF TypeOK
<1> QED
  BY <1>2, <1>3, Zenon

\* A user is a pair of an account and a number.
LEMMA UserIsPair ==
  ASSUME NEW u \in Users
  PROVE  /\ u[1] \in Uuids /\ u[2] \in Numbers /\ u = <<u[1], u[2]>>
         /\ u[1] # NoUuid
<1>1. u \in Uuids \X Numbers /\ NoUuid \notin Uuids
  BY DirectoryAssumption, Zenon
<1> QED
  BY <1>1

\* The maps with x for number k on node n.
WithEntry(n, k, x) == [building EXCEPT ![n][k] = x]

\* What is put into a map is found under its number, and nothing else changes
\* (Insert, Remove).
LEMMA EntryChanges ==
  ASSUME TypeOK, NEW n \in Nodes, NEW k \in Numbers, NEW x \in Uuids \cup {NoUuid},
         x # NoUuid => <<x, k>> \in Users,
         building' = WithEntry(n, k, x)
  PROVE  /\ building' \in [Nodes -> Maps]
         /\ building'[n][k] = x
         /\ \A m \in Nodes, j \in Numbers : m # n \/ j # k => building'[m][j] = building[m][j]
<1>1. building[n] \in Maps /\ building' = [building EXCEPT ![n] = [building[n] EXCEPT ![k] = x]]
  BY Zenon DEF TypeOK, WithEntry
<1>2. [building[n] EXCEPT ![k] = x] \in Maps
  BY <1>1, Zenon DEF Maps
<1>3. building' \in [Nodes -> Maps] /\ building'[n] = [building[n] EXCEPT ![k] = x]
  BY <1>1, <1>2 DEF TypeOK
<1>4. \A m \in Nodes : m # n => building'[m] = building[m]
  BY <1>1, Zenon DEF TypeOK
<1>5. /\ [building[n] EXCEPT ![k] = x][k] = x
      /\ \A j \in Numbers : j # k => [building[n] EXCEPT ![k] = x][j] = building[n][j]
  BY <1>1, Zenon DEF Maps
<1> QED
  BY <1>3, <1>4, <1>5, ZenonT(40)

-----------------------------------------------------------------------------
(* The invariant holds initially *)

\* No node is up and no call is under way (the constructor of DirectoryManager).
LEMMA InitInv == Init => Inv
<1> SUFFICES ASSUME Init PROVE Inv
  BY Zenon
<1>1. TypeOK
  <2>1. Nothing \in Maps
    BY Zenon DEF Nothing, Maps
  <2>2. NoUpdate \in Calls
    BY Zenon DEF NoUpdate, Calls
  <2>3. users \subseteq Users
    BY Zenon DEF Init
  <2>4. inbox \in [Nodes -> Seq(Messages)]
    BY DEF Init
  <2> QED
    BY <2>1, <2>2, <2>3, <2>4, Zenon DEF Init, TypeOK
<1>2. CallsOK /\ CurrentOK /\ ScanOK
  BY DirectoryAssumption, Zenon DEF Init, CallsOK, CurrentOK, ScanOK, NoUpdate
<1>3. \A n \in Nodes, k \in Numbers : MailRight(n, k) /\ MapRight(n, k)
  BY Zenon DEF Init, MailRight, MapRight
<1> QED
  BY <1>1, <1>2, <1>3, Zenon DEF Inv

-----------------------------------------------------------------------------
(* addUser and removeUser *)

\* A caller takes the map; no other call is about the number.
LEMMA UpdateBeginsInv ==
  ASSUME Inv, ~Overlapping, NEW t \in Threads, NEW kind \in {"add", "remove"},
         NEW u \in Users, UpdateBegins(t, kind, u)
  PROVE  Inv'
<1> DEFINE c == [pc |-> "cache", kind |-> kind, user |-> u, current |-> TRUE]
<1>1. /\ call' = [call EXCEPT ![t] = c] /\ c \in Calls
      /\ call[t].pc = "idle" /\ connected[Home[t]]
      /\ \A s \in Threads : call[s].pc # "idle" => call[s].user[2] # u[2]
      /\ UNCHANGED <<users, link, inbox, consumer, connected, building, serving, source,
                     todo, attempts>>
  BY Zenon DEF UpdateBegins, Calls, redis, maps
<1>2. TypeOK'
  BY <1>1, Zenon DEF Inv, TypeOK
<1>3. /\ call'[t].pc = "cache" /\ call'[t].kind = kind /\ call'[t].user = u
      /\ \A s \in Threads : s # t => call'[s] = call[s]
  BY <1>1, Zenon DEF Inv, TypeOK
<1>4. CallsOK'
  BY <1>1, <1>3 DEF Inv, CallsOK
<1>5. CurrentOK'
  BY <1>1, <1>3, Zenon DEF Inv, CurrentOK
<1>6. ScanOK'
  BY <1>1, Zenon DEF Inv, ScanOK
<1>7. ASSUME NEW n \in Nodes, NEW k \in Numbers
      PROVE  MailRight(n, k)' /\ MapRight(n, k)'
  <2>1. Unpublished(k) => Unpublished(k)'
    BY <1>1, <1>3, Zenon DEF Unpublished
  <2>2. Filled(n, k)' => Filled(n, k)
    BY <1>1, Zenon DEF Filled
  <2> QED
    BY <1>1, <2>1, <2>2, SameCalls, RightKept, Zenon DEF Inv
<1> QED
  BY <1>2, <1>4, <1>5, <1>6, <1>7, Zenon DEF Inv

\* Redis changes: until the change is published nothing is said of the number,
\* and the others are left alone.
LEMMA UpdateCacheInv ==
  ASSUME Inv, OneAccount, NEW t \in Threads, UpdateCache(t)
  PROVE  Inv'
<1> DEFINE u  == call[t].user
           pc == IF (call[t].kind = "add") = (u \notin users) THEN "publish" ELSE "apply"
<1>1. /\ call[t].pc = "cache" /\ call' = [call EXCEPT ![t].pc = pc]
      /\ users' = IF call[t].kind = "add" THEN users \cup {u} ELSE users \ {u}
      /\ UNCHANGED <<link, inbox, consumer, connected, building, serving, source,
                     todo, attempts>>
  BY Zenon DEF UpdateCache, maps
<1>2. /\ call' \in [Threads -> Calls]
      /\ call'[t].pc = pc
      /\ \A s \in Threads : s # t => call'[s] = call[s]
      /\ \A s \in Threads : /\ call'[s].kind = call[s].kind
                            /\ call'[s].user = call[s].user
                            /\ call'[s].current = call[s].current
  BY <1>1, PlaceChanges, Zenon DEF Inv
<1>3. u \in Users /\ call[t].kind \in {"add", "remove"}
  BY <1>1, Zenon DEF Inv, CallsOK
<1>4. TypeOK'
  BY <1>1, <1>2, <1>3, Zenon DEF Inv, TypeOK
<1>5. pc # "publish" => users' = users
  BY <1>1, <1>3, Zenon
<1>6. \A v \in Users : v # u => (v \in users' <=> v \in users)
  BY <1>1, Zenon
<1>7. call[t].kind = "add" <=> u \in users'
  BY <1>1, <1>3, Zenon
<1> HIDE DEF u, pc
<1>8. CallsOK'
  <2>1. ASSUME NEW s \in Threads, s # t, call[s].pc # "idle"
        PROVE  call[s].user \in Users /\ call[s].user # u
    BY <1>1, <2>1, Zenon DEF Inv, CallsOK, u
  <2>2. \A s \in Threads : call'[s].pc \in {"publish", "apply"} =>
          (call'[s].kind = "add" <=> call'[s].user \in users')
    BY <1>2, <1>6, <1>7, <2>1 DEF Inv, CallsOK, u
  <2> QED
    BY <1>1, <1>2, <1>3, <2>2 DEF Inv, CallsOK
<1>9. CurrentOK' /\ ScanOK'
  BY <1>1, <1>2 DEF Inv, CurrentOK, ScanOK
<1>10. ASSUME NEW n \in Nodes, NEW k \in Numbers
       PROVE  MailRight(n, k)' /\ MapRight(n, k)'
  <2>1. Unpublished(k) => Unpublished(k)'
    BY <1>1, <1>2, Zenon DEF Unpublished
  <2>2. Unpublished(k)' \/ (Held(k)' <=> Held(k))
    <3>1. CASE u[2] = k /\ pc = "publish"
      BY <1>2, <3>1, Zenon DEF Unpublished, u
    <3>2. CASE pc # "publish"
      BY <1>5, <3>2, SameCalls, Zenon
    <3>3. CASE u[2] # k
      BY <1>4, <1>6, <3>3, Zenon DEF Held, Inv, TypeOK
    <3> QED
      BY <3>1, <3>2, <3>3, Zenon
  <2>3. Filled(n, k)' => Filled(n, k)
    BY <1>1, Zenon DEF Filled
  <2> QED
    BY <1>1, <2>1, <2>2, <2>3, RightKept, Zenon DEF Inv
<1> QED
  BY <1>4, <1>8, <1>9, <1>10, Zenon DEF Inv

\* The change is published: on every node that is subscribed it is the last
\* message about the number, and it says what Redis holds.
LEMMA UpdatePublishInv ==
  ASSUME Inv, OneAccount, NEW t \in Threads, UpdatePublish(t)
  PROVE  Inv'
<1> DEFINE u == call[t].user
           m == Message(call[t].kind, u)
<1>1. /\ call[t].pc = "publish" /\ call' = [call EXCEPT ![t].pc = "apply"]
      /\ inbox' = [n \in Nodes |-> IF link[n] THEN Append(inbox[n], m) ELSE inbox[n]]
      /\ UNCHANGED <<users, link, consumer, connected, building, serving, source,
                     todo, attempts>>
  BY Zenon DEF UpdatePublish, Publish, redis, maps
<1>2. /\ call' \in [Threads -> Calls]
      /\ call'[t].pc = "apply"
      /\ \A s \in Threads : s # t => call'[s] = call[s]
      /\ \A s \in Threads : /\ call'[s].kind = call[s].kind
                            /\ call'[s].user = call[s].user
                            /\ call'[s].current = call[s].current
  BY <1>1, PlaceChanges, Zenon DEF Inv
<1>3. u \in Users /\ (call[t].kind = "add" <=> u \in users) /\ u[2] \in Numbers
  BY <1>1, Zenon DEF Inv, CallsOK, Numbers
<1>4. m \in Messages /\ m.type = (IF u \in users THEN "ADDED_USER" ELSE "REMOVED") /\ m.user[2] = u[2]
  BY <1>3, Zenon DEF Message, Messages
<1> HIDE DEF u, m
<1>5. TypeOK'
  BY <1>1, <1>2, <1>4 DEF Inv, TypeOK
<1>6. CallsOK' /\ CurrentOK' /\ ScanOK'
  BY <1>1, <1>2 DEF Inv, CallsOK, CurrentOK, ScanOK
<1>7. ASSUME NEW n \in Nodes, NEW k \in Numbers
      PROVE  MailRight(n, k)' /\ MapRight(n, k)'
  <2>1. About(m, k) <=> k = u[2]
    BY <1>4, Zenon DEF About
  <2>2. k # u[2] => (Unpublished(k)' <=> Unpublished(k))
    BY <1>1, <1>2, Zenon DEF Unpublished, u
  <2>3. Held(k)' <=> Held(k)
    BY <1>1, SameCalls, Zenon
  <2>4. k = u[2] => (Held(k) <=> u \in users)
    BY <1>3, Zenon DEF Held, OneAccount, Inv, TypeOK
  <2>5. Filled(n, k)' <=> Filled(n, k)
    BY <1>1, Zenon DEF Filled
  <2>6. CASE ~link[n]
    BY <1>1, <2>6, Zenon DEF MailRight, MapRight
  <2>7. CASE link[n] /\ ~Unpublished(k)'
    <3> DEFINE type == IF Held(k) THEN "ADDED_USER" ELSE "REMOVED"
    <3>1. inbox'[n] = Append(inbox[n], m) /\ inbox[n] \in Seq(Messages)
      BY <1>1, <2>7, Zenon DEF Inv, TypeOK
    <3>2. About(m, k) => m.type = type
      BY <1>4, <2>1, <2>4, Zenon
    <3>3. About(m, k) \/ LastIs(inbox[n], k, type)
      BY <2>1, <2>2, <2>7, Zenon DEF Inv, MailRight
    <3>4. /\ LastIs(inbox'[n], k, type)
          /\ Waits(inbox'[n], k) <=> (Waits(inbox[n], k) \/ About(m, k))
      BY <1>4, <3>1, <3>2, <3>3, QueueAppend, SMTT(30)
    <3>5. MailRight(n, k)'
      BY <2>3, <3>4, Zenon DEF MailRight
    <3>6. MapRight(n, k)'
      BY <1>1, <2>1, <2>2, <2>3, <2>5, <3>4, Zenon DEF Inv, MapRight
    <3> QED
      BY <3>5, <3>6, Zenon
  <2>8. CASE Unpublished(k)'
    BY <2>8, Zenon DEF MailRight, MapRight
  <2> QED
    BY <2>6, <2>7, <2>8, Zenon
<1> QED
  BY <1>5, <1>6, <1>7, Zenon DEF Inv

\* The change is applied to the map the caller took, if it is still current:
\* Redis holds what it says, since no other call is about the number.
LEMMA UpdateApplyInv ==
  ASSUME Inv, OneAccount, NEW t \in Threads, UpdateApply(t)
  PROVE  Inv'
<1> DEFINE u == call[t].user
           h == Home[t]
<1>1. /\ call[t].pc = "apply" /\ call' = [call EXCEPT ![t] = NoUpdate]
      /\ UNCHANGED <<users, link, inbox, consumer, todo, attempts>>
      /\ UNCHANGED <<connected, serving, source>>
  BY Zenon DEF UpdateApply, redis, maps, Insert, Remove
<1>2. NoUpdate \in Calls /\ NoUpdate.pc = "idle" /\ NoUpdate.current = FALSE
  BY Zenon DEF NoUpdate, Calls
<1>3. /\ call' \in [Threads -> Calls] /\ call'[t] = NoUpdate
      /\ \A s \in Threads : s # t => call'[s] = call[s]
  BY <1>1, <1>2, Zenon DEF Inv, TypeOK
<1>4. /\ u \in Users /\ u[2] \in Numbers /\ u[1] \in Uuids /\ u = <<u[1], u[2]>>
      /\ u[1] # NoUuid /\ h \in Nodes
      /\ call[t].kind = "add" <=> u \in users
  <2>1. u \in Users /\ (call[t].kind = "add" <=> u \in users)
    BY <1>1, Zenon DEF Inv, CallsOK
  <2>2. h \in Nodes
    BY DirectoryAssumption, Zenon
  <2> QED
    BY <2>1, <2>2, UserIsPair, Zenon
<1>5. Held(u[2]) <=> u \in users
  BY <1>4, Zenon DEF Held, OneAccount, Inv, TypeOK
<1> DEFINE x == IF u \in users THEN u[1] ELSE NoUuid
<1>6. IF call[t].current THEN building' = WithEntry(h, u[2], x)
                         ELSE building' = building
  BY <1>4, Zenon DEF UpdateApply, Insert, Remove, maps, WithEntry
<1> HIDE DEF u, h
<1>7. call[t].current => /\ building' \in [Nodes -> Maps]
                         /\ building'[h][u[2]] = x
                         /\ \A m \in Nodes, j \in Numbers :
                              m # h \/ j # u[2] => building'[m][j] = building[m][j]
  <2>1. x \in Uuids \cup {NoUuid} /\ (x # NoUuid => <<x, u[2]>> \in Users)
    BY <1>4, Zenon
  <2> HIDE DEF x
  <2> QED
    BY <1>4, <1>6, <2>1, EntryChanges DEF Inv
<1>8. TypeOK'
  BY <1>1, <1>3, <1>6, <1>7, Zenon DEF Inv, TypeOK
<1>9. CallsOK'
  BY <1>1, <1>2, <1>3, ZenonT(30) DEF Inv, CallsOK
<1>10. CurrentOK'
  BY <1>1, <1>2, <1>3, Zenon DEF Inv, CurrentOK
<1>11. call[t].current => connected[h] /\ consumer[h] = "run"
  BY <1>4, Zenon DEF Inv, CurrentOK, h
<1>12. ScanOK'
  <2> SUFFICES ASSUME NEW n \in Nodes, consumer[n] = "scan", NEW v \in todo[n]
               PROVE  building'[n][v[2]] = NoUuid
    BY <1>1, Zenon DEF ScanOK
  <2>1. v[2] \in Numbers
    BY Zenon DEF Inv, TypeOK, Numbers
  <2>2. building[n][v[2]] = NoUuid
    BY Zenon DEF Inv, ScanOK
  <2> QED
    BY <1>6, <1>7, <1>11, <2>1, <2>2, Zenon
<1>13. ASSUME NEW n \in Nodes, NEW k \in Numbers
       PROVE  MailRight(n, k)' /\ MapRight(n, k)'
  <2>1. Unpublished(k)' <=> Unpublished(k)
    BY <1>1, <1>2, <1>3, Zenon DEF Unpublished
  <2>2. Held(k)' <=> Held(k)
    BY <1>1, SameCalls, Zenon
  <2>3. Filled(n, k)' => Filled(n, k)
    BY <1>1, Zenon DEF Filled
  <2>4. CASE building'[n][k] = building[n][k]
    BY <1>1, <2>1, <2>2, <2>3, <2>4, RightKept, Zenon DEF Inv
  <2>5. CASE building'[n][k] # building[n][k]
    <3>1. k = u[2] /\ building'[n][k] = x
      BY <1>6, <1>7, <2>5, Zenon
    <3>2. MapRight(n, k)'
      BY <1>4, <1>5, <2>2, <3>1, Zenon DEF MapRight
    <3>3. MailRight(n, k)'
      BY <1>1, <2>1, <2>2, Zenon DEF Inv, MailRight
    <3> QED
      BY <3>2, <3>3, Zenon
  <2> QED
    BY <2>4, <2>5, Zenon
<1> QED
  BY <1>8, <1>9, <1>10, <1>12, <1>13, Zenon DEF Inv

-----------------------------------------------------------------------------
(* Connecting and rebuilding *)

\* Steps of a node that is not connected, and of the commit, that touch
\* neither Redis, a call, a message nor a map entry in use: if types and the
\* consumers' states stay in order the rest of the invariant stays.
LEMMA QuietStep ==
  ASSUME Inv, TypeOK', UNCHANGED <<users, call>>,
         \A n \in Nodes : connected'[n] => consumer'[n] = "run",
         \A n \in Nodes : connected[n] => connected'[n],
         \A n \in Nodes : consumer'[n] = "scan" =>
           \A u \in todo'[n] : building'[n][u[2]] = NoUuid,
         \A n \in Nodes : link'[n] => link[n] /\ inbox'[n] = inbox[n],
         \A n \in Nodes, k \in Numbers : (link'[n] /\ Filled(n, k)') =>
           Filled(n, k) /\ building'[n][k] = building[n][k]
  PROVE  Inv'
<1>1. CallsOK'
  BY Zenon DEF Inv, CallsOK
<1>2. CurrentOK'
  BY DirectoryAssumption, Zenon DEF Inv, CurrentOK
<1>3. ScanOK'
  BY Zenon DEF ScanOK
<1>4. ASSUME NEW n \in Nodes, NEW k \in Numbers
      PROVE  MailRight(n, k)' /\ MapRight(n, k)'
  BY SameCalls, RightKept, Zenon DEF Inv
<1> QED
  BY <1>1, <1>2, <1>3, <1>4, Zenon DEF Inv

\* A node subscribes, with nothing received yet and no map.
LEMMA SubscribeInv ==
  ASSUME Inv, NEW n \in Nodes, Subscribe(n)
  PROVE  Inv'
<1>1. /\ consumer[n] = "down"
      /\ link' = [link EXCEPT ![n] = TRUE] /\ inbox' = [inbox EXCEPT ![n] = <<>>]
      /\ consumer' = [consumer EXCEPT ![n] = "rebuild"]
      /\ UNCHANGED <<users, connected, building, serving, source, todo, attempts, call>>
  BY Zenon DEF Subscribe, redis, maps
<1>2. /\ link'[n] = TRUE /\ inbox'[n] = <<>> /\ consumer'[n] = "rebuild"
      /\ \A m \in Nodes : m # n => /\ link'[m] = link[m] /\ inbox'[m] = inbox[m]
                                   /\ consumer'[m] = consumer[m]
  BY <1>1, Zenon DEF Inv, TypeOK
<1>3. TypeOK'
  BY <1>1 DEF Inv, TypeOK
<1>4. ~connected[n]
  BY <1>1, Zenon DEF Inv, CurrentOK
<1>5. CallsOK' /\ CurrentOK' /\ ScanOK'
  BY <1>1, <1>2, <1>4 DEF Inv, CallsOK, CurrentOK, ScanOK
<1>6. ASSUME NEW m \in Nodes, NEW k \in Numbers
      PROVE  MailRight(m, k)' /\ MapRight(m, k)'
  <2>1. CASE m = n
    <3>1. LastIs(inbox'[n], k, IF Held(k)' THEN "ADDED_USER" ELSE "REMOVED")
      BY <1>2 DEF LastIs
    <3>2. ~Filled(n, k)'
      BY <1>1, <1>2, <1>4, Zenon DEF Filled
    <3> QED
      BY <2>1, <3>1, <3>2, Zenon DEF MailRight, MapRight
  <2>2. CASE m # n
    <3>1. Filled(m, k)' => Filled(m, k)
      BY <1>1, <1>2, <2>2, Zenon DEF Filled
    <3> QED
      BY <1>1, <1>2, <2>2, <3>1, SameCalls, RightKept, Zenon DEF Inv
  <2> QED
    BY <2>1, <2>2, Zenon
<1> QED
  BY <1>3, <1>5, <1>6, Zenon DEF Inv

\* The scan begins with an empty map and has passed no number.
LEMMA RebuildFromRedisInv ==
  ASSUME Inv, NEW n \in Nodes, RebuildFromRedis(n)
  PROVE  Inv'
<1>1. /\ consumer[n] = "rebuild" /\ todo' = [todo EXCEPT ![n] = Users]
      /\ consumer' = [consumer EXCEPT ![n] = IF userSetBuilt THEN "scan" ELSE "run"]
      /\ building' = [building EXCEPT ![n] = Nothing]
      /\ UNCHANGED <<users, connected, serving, source, link, inbox, attempts, call>>
  BY Zenon DEF RebuildFromRedis, redis
<1>2. /\ todo'[n] = Users /\ building'[n] = Nothing
      /\ \A m \in Nodes : m # n => /\ todo'[m] = todo[m] /\ building'[m] = building[m]
                                   /\ consumer'[m] = consumer[m]
  BY <1>1, Zenon DEF Inv, TypeOK
<1>3. Nothing \in Maps /\ \A k \in Numbers : Nothing[k] = NoUuid
  BY Zenon DEF Nothing, Maps
<1>4. TypeOK'
  BY <1>1, <1>3, Zenon DEF Inv, TypeOK
<1>5. ~connected[n]
  BY <1>1, Zenon DEF Inv, CurrentOK
<1>6. \A m \in Nodes : connected'[m] => consumer'[m] = "run"
  BY <1>1, <1>2, <1>5, Zenon DEF Inv, CurrentOK
<1>7. ASSUME NEW m \in Nodes, consumer'[m] = "scan", NEW u \in todo'[m]
      PROVE  building'[m][u[2]] = NoUuid
  <2>1. u[2] \in Numbers
    BY <1>4, Zenon DEF TypeOK, Numbers
  <2> QED
    BY <1>2, <1>3, <1>7, <2>1 DEF Inv, ScanOK
<1>8. ASSUME NEW m \in Nodes, NEW k \in Numbers, Filled(m, k)'
      PROVE  Filled(m, k) /\ building'[m][k] = building[m][k]
  <2>1. m # n
    BY <1>1, <1>2, <1>5, <1>8, Zenon DEF Filled, Numbers
  <2> QED
    BY <1>1, <1>2, <1>8, <2>1, Zenon DEF Filled
<1> QED
  BY <1>1, <1>4, <1>6, <1>7, <1>8, QuietStep, Zenon

\* The scan passes a user: its number was not in the map, and now it is if
\* Redis holds it.
LEMMA ScanUserInv ==
  ASSUME Inv, OneAccount, NEW n \in Nodes, NEW u \in Users, ScanUser(n, u)
  PROVE  Inv'
<1>1. /\ consumer[n] = "scan" /\ u \in todo[n] /\ todo' = [todo EXCEPT ![n] = @ \ {u}]
      /\ UNCHANGED <<users, connected, serving, source, link, inbox, consumer, attempts, call>>
  BY Zenon DEF ScanUser, redis
<1>2. /\ todo'[n] = todo[n] \ {u} /\ todo[n] \subseteq Users
      /\ \A m \in Nodes : m # n => todo'[m] = todo[m]
      /\ todo' \in [Nodes -> SUBSET Users]
  BY <1>1, Zenon DEF Inv, TypeOK
<1>3. u[2] \in Numbers /\ u[1] \in Uuids /\ u = <<u[1], u[2]>> /\ u[1] # NoUuid
  BY UserIsPair, Zenon
<1>4. building[n][u[2]] = NoUuid
  BY <1>1, Zenon DEF Inv, ScanOK
<1> DEFINE x == IF u \in users THEN u[1] ELSE NoUuid
<1>5. /\ building' \in [Nodes -> Maps]
      /\ building'[n][u[2]] = x
      /\ \A m \in Nodes, j \in Numbers : m # n \/ j # u[2] => building'[m][j] = building[m][j]
  <2>1. CASE u \in users
    <3>1. building' = WithEntry(n, u[2], x) /\ x = u[1]
      BY <2>1, Zenon DEF ScanUser, WithEntry
    <3>2. /\ x \in Uuids \cup {NoUuid} /\ u[2] \in Numbers /\ TypeOK
          /\ x # NoUuid => <<x, u[2]>> \in Users
      BY <1>3, <3>1, Zenon DEF Inv
    <3> HIDE DEF x
    <3> QED
      BY <3>1, <3>2, EntryChanges
  <2>2. CASE u \notin users
    BY <1>4, <2>2, Zenon DEF ScanUser, Inv, TypeOK
  <2> QED
    BY <2>1, <2>2, Zenon
<1>6. TypeOK'
  BY <1>1, <1>2, <1>5, Zenon DEF Inv, TypeOK
<1>7. CallsOK' /\ CurrentOK'
  BY <1>1, Zenon DEF Inv, CallsOK, CurrentOK
<1>8. ScanOK'
  <2> SUFFICES ASSUME NEW m \in Nodes, consumer[m] = "scan", NEW v \in todo'[m]
               PROVE  building'[m][v[2]] = NoUuid
    BY <1>1, Zenon DEF ScanOK
  <2>1. v \in todo[m] /\ v \in Users /\ v[2] \in Numbers /\ building[m][v[2]] = NoUuid
    BY <1>2, Zenon DEF Inv, ScanOK, TypeOK, Numbers
  <2>2. m # n \/ v[2] # u[2]
    BY <1>2, <2>1, Zenon DEF OneAccount
  <2> QED
    BY <1>5, <2>1, <2>2, Zenon
<1>9. ASSUME NEW m \in Nodes, NEW k \in Numbers
      PROVE  MailRight(m, k)' /\ MapRight(m, k)'
  <2>1. CASE m = n /\ k = u[2]
    <3>1. MailRight(m, k)'
      BY <1>1, SameCalls, Zenon DEF Inv, MailRight
    <3>2. Held(k)' <=> u \in users
      BY <1>1, <2>1, Zenon DEF Held, OneAccount, Inv, TypeOK
    <3>3. MapRight(m, k)'
      BY <1>3, <1>5, <2>1, <3>2, Zenon DEF MapRight
    <3> QED
      BY <3>1, <3>3, Zenon
  <2>2. CASE m # n \/ k # u[2]
    <3>1. Filled(m, k)' => Filled(m, k)
      BY <1>1, <1>2, <2>2, Zenon DEF Filled
    <3>2. building'[m][k] = building[m][k]
      BY <1>5, <2>2, Zenon
    <3> QED
      BY <1>1, <3>1, <3>2, SameCalls, RightKept, Zenon DEF Inv
  <2> QED
    BY <2>1, <2>2, Zenon
<1> QED
  BY <1>6, <1>7, <1>8, <1>9, Zenon DEF Inv

\* The scan has passed every number: the map that becomes current is filled.
LEMMA ScanEndsInv ==
  ASSUME Inv, NEW n \in Nodes, ScanEnds(n)
  PROVE  Inv'
<1>1. /\ consumer[n] = "scan" /\ todo[n] = {}
      /\ building' = [building EXCEPT ![n] = building[n]]
      /\ serving' = [serving EXCEPT ![n] = building[n]]
      /\ connected' = [connected EXCEPT ![n] = TRUE]
      /\ source' = [source EXCEPT ![n] = "redis"]
      /\ consumer' = [consumer EXCEPT ![n] = "run"]
      /\ UNCHANGED <<users, link, inbox, todo, attempts, call>>
  BY Zenon DEF ScanEnds, Install, redis
<1>2. /\ building' = building /\ connected'[n] = TRUE /\ consumer'[n] = "run"
      /\ \A m \in Nodes : m # n => /\ connected'[m] = connected[m] /\ source'[m] = source[m]
                                   /\ consumer'[m] = consumer[m]
  BY <1>1, Zenon DEF Inv, TypeOK
<1>3. TypeOK'
  BY <1>1, <1>2, Zenon DEF Inv, TypeOK
<1>4. /\ \A m \in Nodes : connected'[m] => consumer'[m] = "run"
      /\ \A m \in Nodes : connected[m] => connected'[m]
  BY <1>2, Zenon DEF Inv, CurrentOK
<1>5. \A m \in Nodes : consumer'[m] = "scan" => \A u \in todo'[m] : building'[m][u[2]] = NoUuid
  BY <1>1, <1>2 DEF Inv, ScanOK
<1>6. \A m \in Nodes, k \in Numbers : Filled(m, k)' => Filled(m, k)
  BY <1>1, <1>2, Zenon DEF Filled
<1> QED
  BY <1>1, <1>2, <1>3, <1>4, <1>5, <1>6, QuietStep, Zenon

\* A rebuild that fails gives its subscription up.
LEMMA RebuildFailsInv ==
  ASSUME Inv, NEW n \in Nodes, RebuildFails(n)
  PROVE  Inv'
<1>1. /\ consumer[n] = "scan" /\ link' = [link EXCEPT ![n] = FALSE]
      /\ consumer' = [consumer EXCEPT ![n] = "down"] /\ todo' = [todo EXCEPT ![n] = {}]
      /\ UNCHANGED <<users, connected, building, serving, source, inbox, attempts, call>>
  BY Zenon DEF RebuildFails, redis, maps
<1>2. /\ link'[n] = FALSE /\ consumer'[n] = "down"
      /\ \A m \in Nodes : m # n => /\ link'[m] = link[m] /\ consumer'[m] = consumer[m]
                                   /\ todo'[m] = todo[m]
  BY <1>1, Zenon DEF Inv, TypeOK
<1>3. TypeOK'
  BY <1>1, Zenon DEF Inv, TypeOK
<1>4. /\ \A m \in Nodes : connected'[m] => consumer'[m] = "run"
      /\ \A m \in Nodes : connected[m] => connected'[m]
  BY <1>1, <1>2, Zenon DEF Inv, CurrentOK
<1>5. \A m \in Nodes : consumer'[m] = "scan" => \A u \in todo'[m] : building'[m][u[2]] = NoUuid
  BY <1>1, <1>2, Zenon DEF Inv, ScanOK
<1>6. \A m \in Nodes, k \in Numbers : (link'[m] /\ Filled(m, k)') => Filled(m, k)
  BY <1>1, <1>2, Zenon DEF Filled
<1>7. \A m \in Nodes : link'[m] => link[m]
  BY <1>2, Zenon
<1> QED
  BY <1>1, <1>3, <1>4, <1>5, <1>6, <1>7, QuietStep, Zenon

-----------------------------------------------------------------------------
(* Rebuilding from a peer *)

\* A sync token is published, or the request is refused: a token is about no
\* number.
LEMMA PeerRequestInv ==
  ASSUME Inv, NEW n \in Nodes, PeerRequest(n)
  PROVE  Inv'
<1> DEFINE m == SyncToken(n, attempts'[n])
<1>1. /\ consumer[n] = "rebuild" /\ attempts' = [attempts EXCEPT ![n] = @ + 1]
      /\ UNCHANGED <<users, connected, building, serving, source, link, todo, call>>
      /\ \/ /\ inbox' = [l \in Nodes |-> IF link[l] THEN Append(inbox[l], m) ELSE inbox[l]]
            /\ consumer' = [consumer EXCEPT ![n] = "sync"]
         \/ UNCHANGED <<inbox, consumer>>
  BY Zenon DEF PeerRequest, Publish, redis, maps
<1>2. attempts' \in [Nodes -> Nat]
  BY <1>1 DEF Inv, TypeOK
<1>3. m \in Messages /\ \A k : ~About(m, k)
  BY <1>2, Zenon DEF SyncToken, Messages, About
<1> HIDE DEF m
<1>4. TypeOK'
  <2>1. inbox' \in [Nodes -> Seq(Messages)]
    <3>1. \A l \in Nodes : Append(inbox[l], m) \in Seq(Messages)
      BY <1>3 DEF Inv, TypeOK
    <3>2. inbox \in [Nodes -> Seq(Messages)]
      BY Zenon DEF Inv, TypeOK
    <3> QED
      BY <1>1, <3>1, <3>2, Zenon
  <2>2. consumer' \in [Nodes -> {"down", "rebuild", "scan", "sync", "load", "run"}]
    BY <1>1, Zenon DEF Inv, TypeOK
  <2> QED
    BY <1>1, <1>2, <2>1, <2>2, Zenon DEF Inv, TypeOK
<1>5. CASE UNCHANGED <<inbox, consumer>>
  <2>1. \A l \in Nodes, k \in Numbers : Filled(l, k)' => Filled(l, k)
    BY <1>1, <1>5, Zenon DEF Filled
  <2> QED
    BY <1>1, <1>4, <1>5, <2>1, QuietStep, Zenon DEF Inv, CurrentOK, ScanOK
<1>6. CASE /\ inbox' = [l \in Nodes |-> IF link[l] THEN Append(inbox[l], m) ELSE inbox[l]]
           /\ consumer' = [consumer EXCEPT ![n] = "sync"]
  <2>1. consumer'[n] = "sync" /\ \A l \in Nodes : l # n => consumer'[l] = consumer[l]
    BY <1>6, Zenon DEF Inv, TypeOK
  <2>2. CallsOK' /\ CurrentOK' /\ ScanOK'
    BY <1>1, <2>1 DEF Inv, CallsOK, CurrentOK, ScanOK
  <2>3. ASSUME NEW l \in Nodes, NEW k \in Numbers
        PROVE  MailRight(l, k)' /\ MapRight(l, k)'
    <3> DEFINE type == IF Held(k) THEN "ADDED_USER" ELSE "REMOVED"
    <3>1. /\ Held(k)' <=> Held(k)
          /\ Unpublished(k)' <=> Unpublished(k)
      BY <1>1, SameCalls, Zenon
    <3>2. Filled(l, k)' => Filled(l, k)
      BY <1>1, <2>1, Zenon DEF Filled
    <3>3. CASE ~link[l] \/ Unpublished(k)
      BY <1>1, <3>1, <3>3, Zenon DEF MailRight, MapRight
    <3>4. CASE link[l] /\ ~Unpublished(k)
      <4>1. inbox'[l] = Append(inbox[l], m) /\ inbox[l] \in Seq(Messages)
        BY <1>6, <3>4, Zenon DEF Inv, TypeOK
      <4>2. LastIs(inbox[l], k, type)
        BY <3>4, Zenon DEF Inv, MailRight
      <4>3. LastIs(inbox'[l], k, type) /\ (Waits(inbox'[l], k) <=> Waits(inbox[l], k))
        BY <1>3, <4>1, <4>2, QueueAppend
      <4>4. MailRight(l, k)'
        BY <3>1, <4>3, Zenon DEF MailRight
      <4>5. MapRight(l, k)'
        BY <1>1, <3>1, <3>2, <4>3, Zenon DEF Inv, MapRight
      <4> QED
        BY <4>4, <4>5, Zenon
    <3> QED
      BY <3>3, <3>4, Zenon
  <2> QED
    BY <1>4, <2>2, <2>3, Zenon DEF Inv
<1> QED
  BY <1>1, <1>5, <1>6, Zenon

\* A map loaded from a peer is not one built from Redis.
LEMMA PeerLoadsInv ==
  ASSUME Inv, NEW n \in Nodes, PeerLoads(n)
  PROVE  Inv'
<1>1. /\ consumer[n] = "load"
      /\ building' = [building EXCEPT ![n] = serving[Peer[n]]]
      /\ serving' = [serving EXCEPT ![n] = serving[Peer[n]]]
      /\ connected' = [connected EXCEPT ![n] = TRUE]
      /\ source' = [source EXCEPT ![n] = "peer"]
      /\ consumer' = [consumer EXCEPT ![n] = "run"]
      /\ attempts' = [attempts EXCEPT ![n] = 0]
      /\ UNCHANGED <<users, link, inbox, todo, call>>
  BY Zenon DEF PeerLoads, Install, redis
<1>2. /\ connected'[n] = TRUE /\ consumer'[n] = "run" /\ source'[n] = "peer"
      /\ \A m \in Nodes : m # n => /\ connected'[m] = connected[m] /\ source'[m] = source[m]
                                   /\ consumer'[m] = consumer[m] /\ building'[m] = building[m]
  BY <1>1, Zenon DEF Inv, TypeOK
<1>3. serving[Peer[n]] \in Maps
  BY DirectoryAssumption, Zenon DEF Inv, TypeOK
<1>4. TypeOK'
  BY <1>1, <1>3, Zenon DEF Inv, TypeOK
<1>5. /\ \A m \in Nodes : connected'[m] => consumer'[m] = "run"
      /\ \A m \in Nodes : connected[m] => connected'[m]
  BY <1>2, Zenon DEF Inv, CurrentOK
<1>6. \A m \in Nodes : consumer'[m] = "scan" => \A u \in todo'[m] : building'[m][u[2]] = NoUuid
  BY <1>1, <1>2 DEF Inv, ScanOK
<1>7. \A m \in Nodes, k \in Numbers : Filled(m, k)' => Filled(m, k) /\ building'[m][k] = building[m][k]
  BY <1>1, <1>2, Zenon DEF Filled
<1> QED
  BY <1>1, <1>4, <1>5, <1>6, <1>7, QuietStep, ZenonT(40)

\* A snapshot that does not come is asked for again.
LEMMA PeerFailsInv ==
  ASSUME Inv, NEW n \in Nodes, PeerFails(n)
  PROVE  Inv'
<1>1. /\ consumer[n] \in {"sync", "load"} /\ consumer' = [consumer EXCEPT ![n] = "rebuild"]
      /\ UNCHANGED <<users, connected, building, serving, source, link, inbox, todo, attempts, call>>
  BY Zenon DEF PeerFails, redis, maps
<1>2. consumer'[n] = "rebuild" /\ \A m \in Nodes : m # n => consumer'[m] = consumer[m]
  BY <1>1, Zenon DEF Inv, TypeOK
<1>3. TypeOK'
  BY <1>1, Zenon DEF Inv, TypeOK
<1>4. \A m \in Nodes : connected'[m] => consumer'[m] = "run"
  BY <1>1, <1>2, Zenon DEF Inv, CurrentOK
<1>5. \A m \in Nodes : consumer'[m] = "scan" => \A u \in todo'[m] : building'[m][u[2]] = NoUuid
  BY <1>1, <1>2, Zenon DEF Inv, ScanOK
<1>6. \A m \in Nodes, k \in Numbers : Filled(m, k)' => Filled(m, k)
  BY <1>1, <1>2, Zenon DEF Filled
<1> QED
  BY <1>1, <1>3, <1>4, <1>5, <1>6, QuietStep, Zenon

-----------------------------------------------------------------------------
(* PubSubConsumer.run and processMessage *)

\* A connection is lost, with the map: calls keep what they are about, and
\* those of the node no longer have the current map.
LEMMA LosesConnectionInv ==
  ASSUME Inv, NEW n \in Nodes, LosesConnection(n), UNCHANGED <<users, todo, attempts>>
  PROVE  Inv'
<1>1. /\ connected' = [connected EXCEPT ![n] = FALSE]
      /\ link' = [link EXCEPT ![n] = FALSE] /\ inbox' = [inbox EXCEPT ![n] = <<>>]
      /\ consumer' = [consumer EXCEPT ![n] = "down"]
      /\ UNCHANGED <<building, serving, source>>
  BY Zenon DEF LosesConnection
<1>2. /\ ~connected'[n] /\ ~link'[n] /\ consumer'[n] = "down"
      /\ \A m \in Nodes : m # n => /\ connected'[m] = connected[m] /\ link'[m] = link[m]
                                   /\ inbox'[m] = inbox[m] /\ consumer'[m] = consumer[m]
  BY <1>1, Zenon DEF Inv, TypeOK
<1>3. ASSUME NEW t \in Threads
      PROVE  /\ call'[t] \in Calls
             /\ call'[t].pc = call[t].pc /\ call'[t].kind = call[t].kind
             /\ call'[t].user = call[t].user
             /\ call'[t].current => call[t].current /\ Home[t] # n
  <2>1. call[t] \in Calls
    BY Zenon DEF Inv, TypeOK
  <2>2. CASE Home[t] = n
    <3>1. call'[t] = [call[t] EXCEPT !.current = FALSE]
      BY <2>2, Zenon DEF LosesConnection
    <3> QED
      BY <2>1, <3>1, Zenon DEF Calls
  <2>3. CASE Home[t] # n
    BY <2>1, <2>3, Zenon DEF LosesConnection
  <2> QED
    BY <2>2, <2>3, Zenon
<1>4. call' \in [Threads -> Calls]
  BY <1>3, Zenon DEF LosesConnection
<1>5. TypeOK'
  BY <1>1, <1>4 DEF Inv, TypeOK
<1>6. CallsOK'
  BY <1>3 DEF Inv, CallsOK
<1>7. CurrentOK'
  BY <1>2, <1>3, DirectoryAssumption, ZenonT(40) DEF Inv, CurrentOK
<1>8. ScanOK'
  BY <1>1, <1>2 DEF Inv, ScanOK
<1>9. ASSUME NEW m \in Nodes, NEW k \in Numbers
      PROVE  MailRight(m, k)' /\ MapRight(m, k)'
  <2>1. CASE m = n
    BY <1>2, <2>1, Zenon DEF MailRight, MapRight
  <2>2. CASE m # n
    <3>1. Unpublished(k) => Unpublished(k)'
      BY <1>3, Zenon DEF Unpublished
    <3>2. Filled(m, k)' => Filled(m, k)
      BY <1>1, <1>2, <2>2, Zenon DEF Filled
    <3> QED
      BY <1>1, <1>2, <2>2, <3>1, <3>2, SameCalls, RightKept, Zenon DEF Inv
  <2> QED
    BY <2>1, <2>2, Zenon
<1> QED
  BY <1>5, <1>6, <1>7, <1>8, <1>9, Zenon DEF Inv

\* The first message is taken from a queue, and the map may change for the
\* number it is about, to what the message says.
LEMMA TakesMessage ==
  ASSUME Inv, NEW n \in Nodes, inbox[n] # <<>>, inbox' = [inbox EXCEPT ![n] = Tail(@)],
         UNCHANGED <<users, call, link, connected, source, todo>>,
         \A m \in Nodes : consumer'[m] = "scan" => consumer[m] = "scan",
         \A m \in Nodes, k \in Numbers :
           \/ building'[m][k] = building[m][k]
           \/ m = n /\ About(Head(inbox[n]), k),
         \A k \in Numbers : About(Head(inbox[n]), k) =>
           (building'[n][k] # NoUuid <=> Head(inbox[n]).type = "ADDED_USER")
  PROVE  \A m \in Nodes, k \in Numbers : MailRight(m, k)' /\ MapRight(m, k)'
<1> SUFFICES ASSUME NEW m \in Nodes, NEW k \in Numbers
             PROVE  MailRight(m, k)' /\ MapRight(m, k)'
  BY Zenon
<1> DEFINE type == IF Held(k) THEN "ADDED_USER" ELSE "REMOVED"
<1>1. /\ Held(k)' <=> Held(k)
      /\ Unpublished(k)' <=> Unpublished(k)
  BY SameCalls, Zenon
<1>2. Filled(m, k)' => Filled(m, k)
  BY Zenon DEF Filled
<1>3. CASE m # n
  <2>1. inbox'[m] = inbox[m] /\ building'[m][k] = building[m][k]
    BY <1>3, Zenon DEF Inv, TypeOK
  <2> QED
    BY <1>1, <1>2, <2>1, RightKept, Zenon DEF Inv
<1>4. CASE m = n /\ (~link[n] \/ Unpublished(k))
  BY <1>1, <1>4, Zenon DEF MailRight, MapRight
<1>5. CASE m = n /\ link[n] /\ ~Unpublished(k)
  <2>1. inbox[n] \in Seq(Messages) /\ inbox'[n] = Tail(inbox[n])
    BY Zenon DEF Inv, TypeOK
  <2>2. LastIs(inbox[n], k, type)
    BY <1>5, Zenon DEF Inv, MailRight
  <2>3. /\ LastIs(inbox'[n], k, type)
        /\ Waits(inbox[n], k) <=> (Waits(inbox'[n], k) \/ About(Head(inbox[n]), k))
        /\ (About(Head(inbox[n]), k) /\ ~Waits(inbox'[n], k)) => Head(inbox[n]).type = type
    BY <2>1, <2>2, QueueTail
  <2>4. MailRight(n, k)'
    BY <1>1, <2>3, Zenon DEF MailRight
  <2>5. MapRight(n, k)'
    <3>1. CASE About(Head(inbox[n]), k)
      BY <1>1, <2>3, <3>1, Zenon DEF MapRight
    <3>2. CASE ~About(Head(inbox[n]), k)
      <4>1. building'[n][k] = building[n][k]
        BY <3>2, Zenon
      <4> QED
        BY <1>1, <1>2, <1>5, <2>3, <3>2, <4>1, Zenon DEF Inv, MapRight
    <3> QED
      BY <3>1, <3>2, Zenon
  <2> QED
    BY <1>5, <2>4, <2>5, Zenon
<1> QED
  BY <1>3, <1>4, <1>5, Zenon

\* An update is applied to the map, or finds none.
LEMMA ProcessUpdateInv ==
  ASSUME Inv, NEW n \in Nodes, ProcessUpdate(n)
  PROVE  Inv'
<1> DEFINE m == Head(inbox[n])
<1>1. /\ consumer[n] = "run" /\ inbox[n] # <<>> /\ m.type # "KEEPALIVE"
      /\ UNCHANGED <<users, todo, attempts>>
  BY Zenon DEF ProcessUpdate, redis
<1>2. CASE ~connected[n]
  BY <1>1, <1>2, LosesConnectionInv, Zenon DEF ProcessUpdate
<1>3. CASE connected[n]
  <2>1. /\ Update(n, m) /\ inbox' = [inbox EXCEPT ![n] = Tail(@)]
        /\ UNCHANGED <<link, consumer, call>>
    BY <1>3, Zenon DEF ProcessUpdate
  <2>2. UNCHANGED <<connected, serving, source>>
    BY <2>1, Zenon DEF Update, Insert, Remove
  <2>3. inbox[n] \in Seq(Messages) /\ m \in Messages
    BY <1>1 DEF Inv, TypeOK
  <2> DEFINE k == m.user[2]
             x == IF m.type = "ADDED_USER" THEN m.user[1] ELSE NoUuid
  <2>4. building' = WithEntry(n, k, x)
    BY <2>1, Zenon DEF Update, Insert, Remove, WithEntry
  <2>5. /\ k \in Numbers /\ x \in Uuids \cup {NoUuid}
        /\ x # NoUuid => <<x, k>> \in Users
        /\ x # NoUuid <=> m.type = "ADDED_USER"
    <3>1. CASE m \in [type : {"ADDED_USER"}, user : Users]
      <4>1. m.user \in Users /\ m.type = "ADDED_USER"
        BY <3>1, Zenon
      <4> QED
        BY <4>1, UserIsPair, Zenon
    <3>2. CASE m \in [type : {"REMOVED"}, user : {NoUuid} \X Numbers]
      BY <3>2, Zenon
    <3> QED
      BY <1>1, <2>3, <3>1, <3>2, Zenon DEF Messages
  <2> HIDE DEF m, k, x
  <2>6. /\ building' \in [Nodes -> Maps]
        /\ building'[n][k] = x
        /\ \A l \in Nodes, j \in Numbers : l # n \/ j # k => building'[l][j] = building[l][j]
    <3>1. TypeOK
      BY Zenon DEF Inv
    <3> QED
      BY <2>4, <2>5, <3>1, EntryChanges, Zenon
  <2>7. TypeOK'
    <3>1. inbox' \in [Nodes -> Seq(Messages)]
      BY <1>1, <2>1, <2>3 DEF Inv, TypeOK
    <3> QED
      BY <1>1, <2>1, <2>2, <2>6, <3>1, Zenon DEF Inv, TypeOK
  <2>8. CallsOK' /\ CurrentOK'
    BY <1>1, <2>1, <2>2, Zenon DEF Inv, CallsOK, CurrentOK
  <2>9. ScanOK'
    <3> SUFFICES ASSUME NEW l \in Nodes, consumer[l] = "scan", NEW v \in todo[l]
                 PROVE  building'[l][v[2]] = NoUuid
      BY <1>1, <2>1, Zenon DEF ScanOK
    <3>1. v[2] \in Numbers /\ building[l][v[2]] = NoUuid /\ l # n
      BY <1>1, Zenon DEF Inv, ScanOK, TypeOK, Numbers
    <3> QED
      BY <2>6, <3>1, Zenon
  <2>10. \A j : About(m, j) <=> j = k
    BY <1>1, Zenon DEF About, m, k
  <2>11. /\ \A l \in Nodes, j \in Numbers :
              building'[l][j] = building[l][j] \/ (l = n /\ About(m, j))
         /\ \A j \in Numbers : About(m, j) => (building'[n][j] # NoUuid <=> m.type = "ADDED_USER")
    BY <2>5, <2>6, <2>10, Zenon
  <2>12. \A l \in Nodes, j \in Numbers : MailRight(l, j)' /\ MapRight(l, j)'
    BY <1>1, <2>1, <2>2, <2>11, TakesMessage, Zenon DEF m
  <2> QED
    BY <2>7, <2>8, <2>9, <2>12, Zenon DEF Inv
<1> QED
  BY <1>2, <1>3, Zenon

\* A token is about no number; it may complete the wait of another node.
LEMMA ProcessKeepAliveInv ==
  ASSUME Inv, NEW n \in Nodes, ProcessKeepAlive(n)
  PROVE  Inv'
<1>1. /\ inbox[n] # <<>> /\ Head(inbox[n]).type = "KEEPALIVE"
      /\ inbox' = [inbox EXCEPT ![n] = Tail(@)]
      /\ UNCHANGED <<users, connected, building, serving, source, link, todo, attempts, call>>
  BY Zenon DEF ProcessKeepAlive, redis, maps
<1>2. /\ \A m \in Nodes : \/ consumer'[m] = consumer[m]
                          \/ consumer[m] = "sync" /\ consumer'[m] = "load"
      /\ consumer' \in [Nodes -> {"down", "rebuild", "scan", "sync", "load", "run"}]
  BY Zenon DEF ProcessKeepAlive, Inv, TypeOK
<1>3. inbox' \in [Nodes -> Seq(Messages)]
  BY <1>1 DEF Inv, TypeOK
<1>4. TypeOK'
  BY <1>1, <1>2, <1>3, Zenon DEF Inv, TypeOK
<1>5. CallsOK' /\ CurrentOK' /\ ScanOK'
  BY <1>1, <1>2 DEF Inv, CallsOK, CurrentOK, ScanOK
<1>6. \A k : ~About(Head(inbox[n]), k)
  BY <1>1, Zenon DEF About
<1>7. \A m \in Nodes, k \in Numbers : MailRight(m, k)' /\ MapRight(m, k)'
  BY <1>1, <1>2, <1>6, TakesMessage, Zenon
<1> QED
  BY <1>4, <1>5, <1>7, Zenon DEF Inv

\* Nothing is claimed of a node whose subscription is broken.
LEMMA BreakInv ==
  ASSUME Inv, NEW n \in Nodes, Break(n)
  PROVE  Inv'
<1>1. /\ link' = [link EXCEPT ![n] = FALSE]
      /\ UNCHANGED <<users, connected, building, serving, source, inbox, consumer, todo,
                     attempts, call>>
  BY Zenon DEF Break, redis, maps
<1>2. TypeOK' /\ \A m \in Nodes : link'[m] => link[m]
  BY <1>1, Zenon DEF Inv, TypeOK
<1>3. \A m \in Nodes, k \in Numbers : Filled(m, k)' => Filled(m, k)
  BY <1>1, Zenon DEF Filled
<1> QED
  BY <1>1, <1>2, <1>3, QuietStep, Zenon DEF Inv, CurrentOK, ScanOK

\* The commit changes the map that is served, not the one being built; the
\* end of a reconciliation changes neither.
LEMMA CommitInv ==
  ASSUME Inv, (\E n \in Nodes : commitIfIsConnected(n)) \/ markReconcileComplete
              \/ UNCHANGED vars
  PROVE  Inv'
<1>1. /\ UNCHANGED <<users, connected, building, source, link, inbox, consumer, todo,
                     attempts, call>>
      /\ serving' = serving \/ \E n \in Nodes : serving' = [serving EXCEPT ![n] = building[n]]
  BY Zenon DEF commitIfIsConnected, markReconcileComplete, vars, redis, maps
<1>2. TypeOK'
  BY <1>1, Zenon DEF Inv, TypeOK
<1>3. \A m \in Nodes, k \in Numbers : Filled(m, k)' => Filled(m, k)
  BY <1>1, Zenon DEF Filled
<1> QED
  BY <1>1, <1>2, <1>3, QuietStep, Zenon DEF Inv, CurrentOK, ScanOK

-----------------------------------------------------------------------------
(* The theorem *)

\* Every step of the callers, the consumers and the connections keeps the
\* invariant.
LEMMA NextInv ==
  ASSUME ~Overlapping, OneAccount
  PROVE  Inv /\ [Next]_vars => Inv'
<1> SUFFICES ASSUME Inv, [Next]_vars PROVE Inv'
  BY Zenon
<1>1. ASSUME NEW t \in Threads, NEW kind \in {"add", "remove"}, NEW u \in Users,
             UpdateBegins(t, kind, u)
      PROVE  Inv'
  BY <1>1, UpdateBeginsInv, Zenon
<1>2. ASSUME NEW t \in Threads, ThreadStep(t)
      PROVE  Inv'
  BY <1>2, UpdateCacheInv, UpdatePublishInv, UpdateApplyInv, Zenon DEF ThreadStep
<1>3. ASSUME NEW n \in Nodes, PubSubError(n)
      PROVE  Inv'
  BY <1>3, LosesConnectionInv, Zenon DEF PubSubError, redis
<1>4. ASSUME NEW n \in Nodes, ConsumerStep(n)
      PROVE  Inv'
  BY <1>3, <1>4, SubscribeInv, RebuildFromRedisInv, ScanEndsInv, ScanUserInv, PeerRequestInv,
     PeerLoadsInv, ProcessUpdateInv, ProcessKeepAliveInv, Zenon
     DEF ConsumerStep
<1>5. ASSUME NEW n \in Nodes, PeerFails(n) \/ RebuildFails(n) \/ Break(n)
      PROVE  Inv'
  BY <1>5, PeerFailsInv, RebuildFailsInv, BreakInv, Zenon
<1> QED
  BY <1>1, <1>2, <1>4, <1>5, CommitInv, Zenon DEF Next

\* RedisBuiltAgrees for any nodes, threads, peers, users and failures, when a
\* number has one account and its updates do not overlap: a map that was built
\* from Redis holds what Redis holds of every number without a message or a
\* call under way, although the set changes during the scan, calls change
\* Redis, publish and apply without a lock, and connections break.
THEOREM RedisBuiltAgreesTheorem ==
  ASSUME ~Overlapping, OneAccount
  PROVE  Spec => []RedisBuiltAgrees
<1>1. Init => Inv
  BY InitInv, Zenon
<1>2. Inv /\ [Next]_vars => Inv'
  BY NextInv, Zenon
<1>3. Inv => RedisBuiltAgrees
  <2> SUFFICES ASSUME Inv, NEW n \in Nodes, NEW k \in Numbers, source[n] = "redis",
                      connected[n], link[n], ~InFlight(k), ~Waiting(n, k)
               PROVE  Mapped(building[n], k) = Registered(k)
    BY Zenon DEF RedisBuiltAgrees, AgreesOn
  <2>1. ~Unpublished(k)
    BY Zenon DEF Unpublished, InFlight
  <2>2. ~Waits(inbox[n], k)
    BY Zenon DEF Waits, Waiting, About
  <2>3. Filled(n, k)
    BY Zenon DEF Filled
  <2>4. building[n][k] # NoUuid <=> Held(k)
    BY <2>1, <2>2, <2>3, Zenon DEF Inv, MapRight
  <2>5. users \subseteq Users /\ building[n] \in Maps
    BY Zenon DEF Inv, TypeOK
  <2>6. CASE Held(k)
    <3>1. PICK u \in users : u[2] = k
      BY <2>6, Zenon DEF Held
    <3>2. u \in Users /\ u = <<u[1], k>> /\ u[1] \in Uuids
      BY <2>5, <3>1, UserIsPair, Zenon
    <3>3. building[n][k] = u[1]
      <4>1. <<building[n][k], k>> \in Users
        BY <2>4, <2>5, <2>6, Zenon DEF Maps
      <4>2. <<building[n][k], k>>[2] = u[2]
        BY <3>1, Zenon
      <4> QED
        BY <3>2, <4>1, <4>2, Zenon DEF OneAccount
    <3>4. ASSUME NEW x \in Uuids, <<x, k>> \in users
          PROVE  x = u[1]
      <4>1. <<x, k>> \in Users /\ <<x, k>>[2] = u[2]
        BY <2>5, <3>1, <3>4, Zenon
      <4> QED
        BY <3>2, <4>1, Zenon DEF OneAccount
    <3>5. <<u[1], k>> \in users
      BY <3>1, <3>2, Zenon
    <3> QED
      BY <2>4, <2>6, <3>2, <3>3, <3>4, <3>5, Zenon DEF Mapped, Registered
  <2>7. CASE ~Held(k)
    <3>1. \A x \in Uuids : <<x, k>> \notin users
      BY <2>7, Zenon DEF Held
    <3> QED
      BY <2>4, <2>7, <3>1, Zenon DEF Mapped, Registered
  <2> QED
    BY <2>6, <2>7, Zenon
<1> QED
  BY <1>1, <1>2, <1>3, PTL DEF Spec
=============================================================================
