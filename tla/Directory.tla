----------------------------- MODULE Directory ------------------------------
(***************************************************************************)
(* Replication of the directory, DirectoryManager.java.  The registered    *)
(* users are a set in Redis.  Every node keeps a directory map in memory:  *)
(* it subscribes to the update channel, rebuilds the map from Redis or     *)
(* from a peer's snapshot, and then applies the updates it receives.  The  *)
(* threads of a node that call addUser and removeUser (the SQS consumer,   *)
(* the reconciliation requests) change Redis, publish the change and apply *)
(* it to the local map, in that order and without a lock.                  *)
(*                                                                         *)
(* A message on the channel names a user when it is added and only the     *)
(* number when it is removed.  The periodic keep-alives that make a broken *)
(* connection show are left out: a broken link may be noticed at any time. *)
(***************************************************************************)
EXTENDS Integers, Sequences, FiniteSets

CONSTANTS
  Nodes,
  Threads,      \* threads that update the directory
  Home,         \* Home[t] is the node that thread t belongs to
  Users,        \* pairs <<uuid, number>>
  NoUuid,
  Peer,         \* Peer[n] is the node n loads snapshots from, n itself if none
  MaxAttempts,  \* maxPeerBuildAttempts
  Built,        \* the values USER_SET_BUILT may have when the first node starts
  Overlapping,  \* whether two updates of one number may be under way at once
  MaxUpdates,   \* bound: calls of addUser and removeUser
  MaxBreaks     \* bound: connections that break

Numbers == {u[2] : u \in Users}

Uuids == {u[1] : u \in Users}

ASSUME DirectoryAssumption ==
  /\ Home \in [Threads -> Nodes] /\ Peer \in [Nodes -> Nodes]
  /\ Users \subseteq Uuids \X Numbers /\ NoUuid \notin Uuids
  /\ Built \subseteq BOOLEAN /\ Overlapping \in BOOLEAN
  /\ {MaxAttempts, MaxUpdates, MaxBreaks} \subseteq Nat

VARIABLES
  users,       \* Redis: USER_SET
  userSetBuilt,\* Redis: USER_SET_BUILT
  link,        \* per node: its subscription is alive
  inbox,       \* per node: messages published and not yet processed
  consumer,    \* per node: "down", "rebuild", "scan", "sync", "load" or "run"
  connected,   \* per node: currentDirectoryMap is present
  building,    \* per node: the map under construction
  serving,     \* per node: the map as committed
  dirty,       \* per node: the map's dirty flag
  todo,        \* per node: the users its ZSCAN has not passed yet
  attempts,    \* per node: peerBuildAttempts
  source,      \* per node: where its map was built from
  call,        \* per thread: the update under way
  updates, breaks

redis == <<users, userSetBuilt>>
maps  == <<connected, building, serving, dirty, source>>
vars  == <<redis, maps, link, inbox, consumer, todo, attempts, call, updates, breaks>>

Nothing == [k \in Numbers |-> NoUuid]

NoUser == <<NoUuid, NoUuid>>

\* No update under way.  The map a thread took from currentDirectoryMap is
\* current until the node's connection is lost.
NoUpdate == [pc |-> "idle", kind |-> "none", user |-> NoUser, current |-> FALSE]

\* No node is up.  A set that was built has any users, one per number.
Init ==
  /\ userSetBuilt \in Built
  /\ users \in IF userSetBuilt THEN SUBSET Users ELSE {{}}
  /\ \A u, v \in users : u[2] = v[2] => u = v
  /\ link = [n \in Nodes |-> FALSE] /\ inbox = [n \in Nodes |-> <<>>]
  /\ consumer = [n \in Nodes |-> "down"] /\ connected = [n \in Nodes |-> FALSE]
  /\ building = [n \in Nodes |-> Nothing] /\ serving = [n \in Nodes |-> Nothing]
  /\ dirty = [n \in Nodes |-> FALSE] /\ source = [n \in Nodes |-> "none"]
  /\ todo = [n \in Nodes |-> {}] /\ attempts = [n \in Nodes |-> 0]
  /\ call = [t \in Threads |-> NoUpdate] /\ updates = 0 /\ breaks = 0

-----------------------------------------------------------------------------
(* The native map: insert, remove, commit; see module DirectoryMap *)

Insert(n, u) ==
  /\ building' = [building EXCEPT ![n][u[2]] = u[1]]
  /\ dirty' = [dirty EXCEPT ![n] = @ \/ building[n][u[2]] = NoUuid]
  /\ UNCHANGED <<connected, serving, source>>

Remove(n, k) ==
  /\ building' = [building EXCEPT ![n][k] = NoUuid]
  /\ dirty' = [dirty EXCEPT ![n] = @ \/ building[n][k] # NoUuid]
  /\ UNCHANGED <<connected, serving, source>>

commitIfIsConnected(n) ==
  /\ connected[n] /\ dirty[n]
  /\ serving' = [serving EXCEPT ![n] = building[n]]
  /\ dirty' = [dirty EXCEPT ![n] = FALSE]
  /\ UNCHANGED <<redis, connected, building, source, link, inbox, consumer, todo,
                 attempts, call, updates, breaks>>

\* A map that was built from one source becomes the current one, committed.
Install(n, map, from) ==
  /\ building' = [building EXCEPT ![n] = map]
  /\ serving' = [serving EXCEPT ![n] = map]
  /\ dirty' = [dirty EXCEPT ![n] = FALSE]
  /\ connected' = [connected EXCEPT ![n] = TRUE]
  /\ source' = [source EXCEPT ![n] = from]

-----------------------------------------------------------------------------
(* addUser and removeUser *)

Publish(message) ==
  inbox' = [n \in Nodes |-> IF link[n] THEN Append(inbox[n], message) ELSE inbox[n]]

Message(kind, user) ==
  IF kind = "add" THEN [type |-> "ADDED_USER", user |-> user]
                  ELSE [type |-> "REMOVED", user |-> <<NoUuid, user[2]>>]

\* The caller took the map; without one DirectoryUnavailableException is
\* thrown and nothing has changed.
UpdateBegins(t, kind, u) ==
  /\ call[t].pc = "idle" /\ connected[Home[t]]
  /\ updates < MaxUpdates /\ updates' = updates + 1
  /\ Overlapping \/ \A s \in Threads : call[s].pc # "idle" => call[s].user[2] # u[2]
  /\ call' = [call EXCEPT ![t] = [pc |-> "cache", kind |-> kind, user |-> u, current |-> TRUE]]
  /\ UNCHANGED <<redis, maps, link, inbox, consumer, todo, attempts, breaks>>

\* ZADD or ZREM; nothing is published when the set did not change.
UpdateCache(t) ==
  LET u       == call[t].user
      adding  == call[t].kind = "add"
      changed == adding = (u \notin users)
  IN  /\ call[t].pc = "cache"
      /\ users' = IF adding THEN users \cup {u} ELSE users \ {u}
      /\ call' = [call EXCEPT ![t].pc = IF changed THEN "publish" ELSE "apply"]
      /\ UNCHANGED <<userSetBuilt, maps, link, inbox, consumer, todo, attempts, updates, breaks>>

UpdatePublish(t) ==
  /\ call[t].pc = "publish"
  /\ Publish(Message(call[t].kind, call[t].user))
  /\ call' = [call EXCEPT ![t].pc = "apply"]
  /\ UNCHANGED <<redis, maps, link, consumer, todo, attempts, updates, breaks>>

\* The change of the map that the caller took at the beginning.
UpdateApply(t) ==
  /\ call[t].pc = "apply"
  /\ call' = [call EXCEPT ![t] = NoUpdate]
  /\ IF ~call[t].current THEN UNCHANGED maps
     ELSE IF call[t].kind = "add" THEN Insert(Home[t], call[t].user)
     ELSE Remove(Home[t], call[t].user[2])
  /\ UNCHANGED <<redis, link, inbox, consumer, todo, attempts, updates, breaks>>

\* markReconcileComplete, and the last chunk of a reconciliation.
markReconcileComplete ==
  /\ ~userSetBuilt /\ userSetBuilt' = TRUE
  /\ UNCHANGED <<users, maps, link, inbox, consumer, todo, attempts, call, updates, breaks>>

-----------------------------------------------------------------------------
(* Connecting and rebuilding: start and PubSubConsumer.connect *)

Subscribe(n) ==
  /\ consumer[n] = "down"
  /\ link' = [link EXCEPT ![n] = TRUE] /\ inbox' = [inbox EXCEPT ![n] = <<>>]
  /\ consumer' = [consumer EXCEPT ![n] = "rebuild"]
  /\ UNCHANGED <<redis, maps, todo, attempts, call, updates, breaks>>

loadFromPeer(n) == Peer[n] # n /\ attempts[n] <= MaxAttempts

\* Without a built user set the node runs without a map.
RebuildFromRedis(n) ==
  /\ consumer[n] = "rebuild" /\ ~loadFromPeer(n)
  /\ consumer' = [consumer EXCEPT ![n] = IF userSetBuilt THEN "scan" ELSE "run"]
  /\ todo' = [todo EXCEPT ![n] = Users]
  /\ building' = [building EXCEPT ![n] = Nothing]
  /\ UNCHANGED <<redis, connected, serving, dirty, source, link, inbox, attempts, call, updates, breaks>>

\* ZSCAN passes the users in any order, while the set changes: a user that is
\* there when the scan passes it is inserted.
ScanUser(n, u) ==
  /\ consumer[n] = "scan" /\ u \in todo[n]
  /\ todo' = [todo EXCEPT ![n] = @ \ {u}]
  /\ building' = IF u \in users THEN [building EXCEPT ![n][u[2]] = u[1]] ELSE building
  /\ UNCHANGED <<redis, connected, serving, dirty, source, link, inbox, consumer,
                 attempts, call, updates, breaks>>

\* Fault: what was received during the rebuild is thrown away.
ScanEndsFlushing(n) ==
  /\ consumer[n] = "scan" /\ todo[n] = {}
  /\ Install(n, building[n], "redis")
  /\ consumer' = [consumer EXCEPT ![n] = "run"] /\ inbox' = [inbox EXCEPT ![n] = <<>>]
  /\ UNCHANGED <<redis, link, todo, attempts, call, updates, breaks>>

ScanEnds(n) ==
  /\ consumer[n] = "scan" /\ todo[n] = {}
  /\ Install(n, building[n], "redis")
  /\ consumer' = [consumer EXCEPT ![n] = "run"]
  /\ UNCHANGED <<redis, link, inbox, todo, attempts, call, updates, breaks>>

\* An exception of Redis during the rebuild: close, sleep and connect again.
RebuildFails(n) ==
  /\ consumer[n] = "scan" /\ breaks < MaxBreaks /\ breaks' = breaks + 1
  /\ link' = [link EXCEPT ![n] = FALSE]
  /\ consumer' = [consumer EXCEPT ![n] = "down"]
  /\ todo' = [todo EXCEPT ![n] = {}]
  /\ UNCHANGED <<redis, maps, inbox, attempts, call, updates>>

-----------------------------------------------------------------------------
(* Rebuilding from a peer: rebuildLocalDataFromPeer and generateSnapshot *)

isBootstrapping(m) == \E n \in Nodes : Peer[n] = m /\ n # m /\ consumer[n] \in {"sync", "load"}

\* The sync token of a request: a random uuid, new for every attempt.
SyncToken(n, attempt) == [type |-> "KEEPALIVE", user |-> <<n, attempt>>]

\* The peer takes its map and publishes the sync token, or refuses: it is
\* busy with a snapshot or has no map.
PeerRequest(n) ==
  /\ consumer[n] = "rebuild" /\ loadFromPeer(n)
  /\ attempts' = [attempts EXCEPT ![n] = @ + 1]
  /\ IF connected[Peer[n]] /\ ~isBootstrapping(Peer[n])
     THEN /\ Publish(SyncToken(n, attempts'[n]))
          /\ consumer' = [consumer EXCEPT ![n] = "sync"]
     ELSE UNCHANGED <<inbox, consumer>>
  /\ UNCHANGED <<redis, maps, link, todo, call, updates, breaks>>

\* The peer has seen the token: it writes the map it serves, which is read
\* and committed here.  (A peer that rebuilds between the two writes the map
\* it took before; the two are not told apart.)
PeerLoads(n) ==
  /\ consumer[n] = "load"
  /\ Install(n, serving[Peer[n]], "peer")
  /\ attempts' = [attempts EXCEPT ![n] = 0]
  /\ consumer' = [consumer EXCEPT ![n] = "run"]
  /\ UNCHANGED <<redis, link, inbox, todo, call, updates, breaks>>

\* The wait for the token times out or the transfer breaks.
PeerFails(n) ==
  /\ consumer[n] \in {"sync", "load"}
  /\ consumer' = [consumer EXCEPT ![n] = "rebuild"]
  /\ UNCHANGED <<redis, maps, link, inbox, todo, attempts, call, updates, breaks>>

-----------------------------------------------------------------------------
(* PubSubConsumer.run and processMessage *)

\* The consumer loses its connection: no map, no subscription, and the maps
\* that updates under way took are no longer the current one.
LosesConnection(n) ==
  /\ connected' = [connected EXCEPT ![n] = FALSE]
  /\ link' = [link EXCEPT ![n] = FALSE] /\ inbox' = [inbox EXCEPT ![n] = <<>>]
  /\ consumer' = [consumer EXCEPT ![n] = "down"]
  /\ call' = [t \in Threads |-> IF Home[t] = n THEN [call[t] EXCEPT !.current = FALSE] ELSE call[t]]
  /\ UNCHANGED <<building, serving, dirty, source>>

Update(n, message) ==
  IF message.type = "ADDED_USER" THEN Insert(n, message.user)
                                 ELSE Remove(n, message.user[2])

\* An update that finds no map throws, which run takes for a lost connection.
ProcessUpdate(n) ==
  /\ consumer[n] = "run" /\ inbox[n] # <<>>
  /\ Head(inbox[n]).type # "KEEPALIVE"
  /\ IF connected[n]
     THEN /\ Update(n, Head(inbox[n]))
          /\ inbox' = [inbox EXCEPT ![n] = Tail(@)]
          /\ UNCHANGED <<link, consumer, call>>
     ELSE LosesConnection(n)
  /\ UNCHANGED <<redis, todo, attempts, updates, breaks>>

\* The token of a snapshot that is waited for here completes the wait; the
\* others are not ours, or come after the timeout.
ProcessKeepAlive(n) ==
  /\ consumer[n] = "run" /\ inbox[n] # <<>>
  /\ Head(inbox[n]).type = "KEEPALIVE"
  /\ inbox' = [inbox EXCEPT ![n] = Tail(@)]
  /\ consumer' = [r \in Nodes |->
       IF Peer[r] = n /\ consumer[r] = "sync" /\ Head(inbox[n]) = SyncToken(r, attempts[r])
       THEN "load" ELSE consumer[r]]
  /\ UNCHANGED <<redis, maps, link, todo, attempts, call, updates, breaks>>

\* The connection breaks: messages are lost from now on, not yet noticed.
Break(n) ==
  /\ link[n] /\ breaks < MaxBreaks /\ breaks' = breaks + 1
  /\ link' = [link EXCEPT ![n] = FALSE]
  /\ UNCHANGED <<redis, maps, inbox, consumer, todo, attempts, call, updates>>

\* Fault: the error is logged and the loop goes on.
PubSubErrorLogged(n) == consumer[n] = "run" /\ ~link[n] /\ UNCHANGED vars

PubSubError(n) ==
  /\ consumer[n] = "run" /\ ~link[n]
  /\ LosesConnection(n)
  /\ UNCHANGED <<redis, todo, attempts, updates, breaks>>

ThreadStep(t) == UpdateCache(t) \/ UpdatePublish(t) \/ UpdateApply(t)

ConsumerStep(n) ==
  \/ Subscribe(n) \/ RebuildFromRedis(n) \/ ScanEnds(n) \/ \E u \in Users : ScanUser(n, u)
  \/ PeerRequest(n) \/ PeerLoads(n)
  \/ ProcessUpdate(n) \/ ProcessKeepAlive(n) \/ PubSubError(n)

Next ==
  \/ \E t \in Threads, kind \in {"add", "remove"}, u \in Users : UpdateBegins(t, kind, u)
  \/ \E t \in Threads : ThreadStep(t)
  \/ \E n \in Nodes : \/ ConsumerStep(n) \/ commitIfIsConnected(n)
                      \/ PeerFails(n) \/ RebuildFails(n) \/ Break(n)
  \/ markReconcileComplete

Spec == Init /\ [][Next]_vars

\* Threads that have begun go on and the commit is scheduled every 30 s; a
\* snapshot whose token does not come times out.
FairSpec ==
  /\ Spec
  /\ \A t \in Threads : WF_vars(ThreadStep(t))
  /\ \A n \in Nodes : /\ WF_vars(ConsumerStep(n))
                      /\ WF_vars(commitIfIsConnected(n))
                      /\ WF_vars(consumer[n] = "sync" /\ PeerFails(n))

-----------------------------------------------------------------------------
(* Properties *)

InFlight(k) == \E t \in Threads : call[t].pc # "idle" /\ call[t].user[2] = k

Waiting(n, k) ==
  \E i \in DOMAIN inbox[n] : inbox[n][i].type # "KEEPALIVE" /\ inbox[n][i].user[2] = k

Registered(k) == {u \in Uuids : <<u, k>> \in users}

Mapped(map, k) == {map[k]} \ {NoUuid}

\* A node whose consumer is connected and has no more to do for number k maps
\* it to the account that Redis holds for it.
AgreesOn(n, k) ==
  (connected[n] /\ link[n] /\ ~InFlight(k) /\ ~Waiting(n, k)) =>
    Mapped(building[n], k) = Registered(k)

\* A map built from Redis agrees with Redis on every number without a message
\* or a call under way, whatever was added and removed during the scan, and
\* whichever connections broke.  (rebuildLocalDataFromRedis, processMessage.)
RedisBuiltAgrees ==
  \A n \in Nodes, k \in Numbers : source[n] = "redis" => AgreesOn(n, k)

\* The same of a map loaded from a peer's snapshot.
PeerBuiltAgrees ==
  \A n \in Nodes, k \in Numbers : source[n] = "peer" => AgreesOn(n, k)

Served(n) == {k \in Numbers : serving[n][k] # NoUuid}

\* When updates and failures end, and provided the user set was built when the
\* nodes started: every node has a map and serves the numbers of all updates it
\* has applied, and a node whose map was built from Redis serves exactly the
\* registered numbers.  Of a node that loaded a peer's snapshot the last is not
\* true (see PeerBuiltAgrees) and not claimed.  (PubSubConsumer.run reconnects
\* and rebuilds for as long as it takes; commitIfIsConnected is scheduled.)
EventuallyConsistent ==
  userSetBuilt => <>[](\A n \in Nodes :
         /\ connected[n]
         /\ Served(n) = {k \in Numbers : building[n][k] # NoUuid}
         /\ source[n] = "redis" => Served(n) = {u[2] : u \in users})
=============================================================================
