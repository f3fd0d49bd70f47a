# A verification of MQTT_Server_Go

TLA+ models of the MQTT broker in `src/` (Go), TLC configurations that check
them on small instances, and proofs for TLAPS of what holds for instances of
any size. `PROJECT.json` lists the runs, the lines each definition stands for,
the hazards and the theorems; this file explains them.

## 1. The system

The broker is one process with these goroutines:

| goroutine | code | state it owns or shares |
|---|---|---|
| accept loop | `mqtt_server_main.go` `main` | starts one goroutine per connection |
| connection (one each) | `process/client_process.go` `ClientProcess` | a pointer to the `MqttClientInfo` it logged in with |
| dispatcher | `process/clients_MsgDispatch_Center.go` `ClientsMsgDispatch`, `processMsg` | `GloablClientsMap`: client id to `MqttClientInfo` |
| cluster receiver | `cluster/cluster_server.go` `startClusterServerRecv` | the buffer `clientInfoMsg` |
| cluster cycle | `startClusterServerCycly` | `clusterServerNodes`, one keep-alive counter per node |
| HTTP manager | `manager/` | reads the map |

They interact in four ways:

* **Unbuffered channels.** Connections and the cluster receiver send to the
  dispatcher; the dispatcher and connections send to the cluster cycle
  (`Cluster_Ch`). A send is a rendezvous: the sender goes on as soon as the
  message is *taken*, which is before it is *processed*.
* **One `RWMutex`, `GlobalClientsMapLock`.** The dispatcher holds it for writing
  during `processMsg` (also while it is blocked on `Cluster_Ch`), a CONNECT for
  reading while it looks its struct up and fills it in, and the deferred cleanup
  of a connection not at all.
* **Shared structs.** A later connection of a client may use the struct an
  earlier one allocated and still holds.
* **Sockets.** TCP to clients, UDP between the servers of a cluster.

### Components

| component | state | operations | correct means | modelled |
|---|---|---|---|---|
| Client sessions | map, structs, lock, goroutine locals | accept, CONNECT, SUBSCRIBE, UNSUBSCRIBE, DISCONNECT, loss, cleanup; ADD, DEL, SUB, UNSUB, PUBCOMP at the dispatcher | who is connected is registered, who is gone is not; subscriptions last as long as the session | `ClientSessions` |
| Message dispatch | `PubStatus`, `CacheMsg`, `OfflineMsg`, the packets on the wire | PUBLISH, PUBACK, PUBREC, PUBREL, PUBCOMP, publish from the cluster, flush on login | each QoS keeps its promise, ids are unique, order is kept, the dispatcher comes back | `MessageDispatch` |
| Cluster keep-alive | counters, second count | tick, heartbeat, message to the cluster, restart | dead servers are noticed, running ones are not given up | `ClusterKeepAlive` |
| Packet codec | none | one reader and one writer per packet type | what is read is what was sent; what is written is MQTT 3.1.1 | `MqttCodec` (one packet per Read) |
| Packet id generation | `PubStatus` keys | draw until free | ids in use are not drawn, the loop ends | in `MessageDispatch` |
| Cluster session transfer | map, `clientInfoMsg` | login notice, giving up a session, its parts, merge | a session ends up in one place; who stays is not disturbed | `ClusterLogin` (the receiving half) |
| Client heartbeat | `heartTimeout` (uint16) | CONNECT, PINGREQ, tick | a silent client is closed | `ClientHeartbeat` |
| Server process | lock, channels, sockets | everything that waits | nobody waits for ever | `ServerProcess` |
| HTTP manager | answer structs | count, list, look up | answers come from the map as it was meanwhile | `/getOnLineNum` in `ServerProcess` |
| Web UI, configuration, logging, database stubs | - | - | - | no: static files, file input, output, unused code |

### What is hard about it

* Connections of one client overlap: takeover, late cleanup, deletion in the
  channel while the next login reads the map.
* The rendezvous is not the processing: acknowledgements are written between
  the two, so a client may know of something that has not happened yet.
* QoS 2 is spread over two dispatcher messages and three goroutines, with
  retransmission by clients that lost the connection in between.
* A Read is taken for one packet: what a client sends together is dropped but
  for the first packet, and the client is told nothing.
* Packet ids come from 62 values, drawn at random under the write lock, and
  share their maps with the ids of the client's own publishes.
* Keep-alive counters are aged by time and by traffic with the same function.
* Arithmetic on bytes and small integers: `data[0] << 8`, `uint16 < 0`, `int8`.
* Locks are held over channel sends and over writes to clients.
* A session moves between servers in unreliable datagrams while its client may
  log in anywhere.

`PROJECT.json` lists each of these as a hazard, at its line, with the
properties that watch it or a note why none does.

## 2. Modules

| module | models |
|---|---|
| `ClientSessions` | sessions: goroutines, lock, channel, heap |
| `SessionRegistry` | the abstract specification of sessions: every operation atomic |
| `MessageDispatch` | messages, acknowledgements, ids, offline queue |
| `ClusterKeepAlive` | the once-a-second branch and the counters |
| `MqttCodec` | the package `protocol_stack`, against MQTT 3.1.1 |
| `ClusterLogin` | a client's session between servers |
| `ServerProcess` | who waits for whom in one server; counting clients |
| `ClientHeartbeat` | the tick that is to close silent clients |
| `MCClientSessions`, `MCMessageDispatch`, `MCClusterKeepAlive`, `MCMqttCodec`, `MCClusterLogin`, `MCServerProcess` | small instances for TLC |
| `ClientSessions_proofs` | theorems about sessions, whatever clients do |
| `SessionReturns_proofs` | theorems about sessions of clients that come back in turn; the refinement of `SessionRegistry` |
| `MessageDispatch_proofs` | theorems about QoS 2: at most once, not before its release |
| `MessageDelivery_proofs` | theorems about order, answers awaited, flows that end, acknowledged messages |
| `ClusterKeepAlive_proofs` | theorems about the counters |
| `ClusterLogin_proofs`, `ClusterMoves_proofs` | theorems about servers that go down; about where sessions end up |
| `ServerProcess_proofs` | theorems about counting clients |

Definitions whose comment starts with "Slip:" are not part of the model. Each is
a variant of the definition next to it with a mistake one could make in the
code; with it in place of the original, TLC finds the property of the same
entry of `PROJECT.json` "mutants" violated. They show that a property would
notice.

### ClientSessions

`pc[c]` is where the goroutine of connection `c` stands; what it does between
two blocking operations (Read, RLock, a channel send) or unprotected accesses
to shared memory is one action:

| action | code |
|---|---|
| `Accept` | `go process.ClientProcess(...)` in `main` |
| `ReadConnect`, `Refuse` | CONNECT up to `RLock`; a bad password |
| `LoginLookup`, `LoginFill`, `LoginInstall` | the section between `RLock` and `RUnlock`, in three steps, since other goroutines' unlocked writes and other readers may fall between |
| `ReadEarly` | any packet before CONNECT: it reads the nil pointer (`:275-292`) |
| `ReadSubscribe`, `ReadUnsubscribe`, `ReadPubComp` | packet read, goroutine blocked on `dispatchCh` |
| `SubAck`, `UnsubAck` | the acknowledgement, after the rendezvous |
| `ReadError`, `ExitClear`, `ExitKeep`, `ExitPanic` | Read fails; the deferred function, with its nil pointer |
| `DispatchRecv`, `DispatchLock`, `DispatchLocked` | the rendezvous; `Lock` called; `Lock` acquired |
| `ProcessAdd` ... `ProcessComp` | the cases of `processMsg`; `Unlock` is part of each |
| `ClusterTake` | the rendezvous on `Cluster_Ch`, with the lock held |
| `Drop`, `Disconnect` | the connection is lost or closed |

A struct is named by the connection whose CONNECT allocated it, so aliasing is
visible: `mqttClientData[c]` may be another connection's struct. A waiting
writer keeps new readers out, as `sync.RWMutex` does. A panic anywhere is the
end of the process (`dpc = "dead"`). There are two kinds: any connection that is
refused, lost before CONNECT or that sends another packet first ends the process
(`ExitPanic`, `ReadEarly`), which every run has to live with; and a PUBCOMP whose
session is gone (`ProcessComp`), which `RequestFindsSession` is about. The first
kind is a plain defect (`SessionsRefused` shows it), the second depends on how
connections follow each other.

`Redial` says when a client logs in again: at any time (`takeover`), when the
server closed its old connection (`afterClose`), or when the dispatcher holds no
deletion of its session any more (`afterCleanup`). `CleanChoices` says which
Cleansession flags it may send. These are assumptions about clients, and each
property is checked under the weakest one it holds under. A second CONNECT on
one connection is not modelled.

`SessionRegistry` is what the server promises: a session starts empty, keeps its
subscriptions while its client is offline, and loses them when it ends.
`ImplementsRegistry` states that `ClientSessions` implements it under the
mapping `sessionState`, `sessionSubs` (what the map shows).

### MessageDispatch

Sessions exist and are persistent here; a client has at most one connection at
a time. `PubStatus`, `CacheMsg` and `OfflineMsg` are the fields of
`MqttClientInfo`. The dispatcher's loop over the map is one step per client
(`VisitPublish`, `VisitRelease`), in any order, as Go iterates; drawing an id
in use is a step that changes nothing (`DrawAgain`), so a loop that finds no
free id never ends. What the goroutine does around the rendezvous is separate
(`Read`, `AckPublish`), so an acknowledgement may be written before, while or
after the dispatcher works on the message. `Exit` is the deferred function.

`Read` takes one packet or several, up to `MaxRead`: `localconn.Read`
(`client_process.go:212`) returns what has arrived and the switch looks at the
first packet only. The others are lost, which the history `discarded` remembers.
A dropped packet is missed by its flow, so the properties about flows and order
say what is left when a Read dropped the packet the flow waits for, and that
nothing else is. `missed` remembers, for each client, the messages that were
sent to it and did not reach its application: lost with the connection, written
to one that is gone, or taken for a repetition. Packets are not split over two
Reads here, and the bytes of a dropped packet that end up in the payload of a
PUBLISH before it (whose length the code takes from the Read and not from its
header) are not told apart.

Clients are external and do as MQTT 3.1.1 says: each publishes its messages in
order with ids not in use, answers what it receives, and after a reconnect
waits for CONNACK and sends its unfinished PUBLISH and PUBREL again, in the order
it published them (`Again`). `Drop` loses a connection with everything on its way in either
direction.

### ClusterKeepAlive

Ten ticks of 100 ms are one `Tick`. `Publish` is any message sent to the
cluster; as in the code it runs `KeepAliveTimeEscape1Sec` on every node, so it
ages them all. `Beat` keeps the reset of the second count inside the loop: the
first node alive gets the heartbeat, the others none. Two history variables,
`silent` and `talk`, count what really passed since a node was last heard of.

### MqttCodec

A request of a client is encoded as MQTT 3.1.1 says (operators named `Std`),
read by the code's functions, answered, and, if it is a PUBLISH, passed on.
Bytes are numbers, shifts drop what a byte cannot hold, and an index past the
end of the slice is a panic. One `Read` returns one packet here.

### ClusterLogin

`Login` is CONNECT, `TakeAdd` and `ProcessAdd` the way of `MSG_CLIENT_ADD` into
the map, from where `Announced` sends a notice to every node taken for alive.
`RecvLogin`, `RecvPart`, `RecvLast` are the cases of `processClusterNodeMsg`;
the last two share `clientInfoMsg`. `wire` counts each datagram on its way from
one server to another, so they arrive in any order, as UDP has it, and the parts
of a session carry no number. `ProcessLogin` deletes the session the
notice asks for and hands it to the cycle goroutine, where `SyncClient` panics:
`ip` is `to[0:index]` and then cut at `index+1` (`cluster_server.go:255-257`).
So a server of this version never sends a session, and
`buildClusterLoginInfoMsg`, which besides returns an empty list, is not reached.
The receiving half is code that runs when the other server is of another
version: the sessions at a `Peer` are external, `PeerGives` sends one in `Parts`
datagrams, `PeerIgnores` has none.

Sessions are persistent, a session's content is whether it took in what a peer
sent (`merged`) and whether its client was up to be given the messages
(`given`). Who is thought alive is a choice (`GiveUp`); `ClusterKeepAlive` is
about that, and `Heard` is the heartbeat that brings a node back. `Restart` makes
a process that knows nothing (`Fresh`).

### ServerProcess

Where `ClientSessions` and `MessageDispatch` follow data, this module follows
waiting. `cpc`, `dpc`, `rpc`, `hpc` say where the goroutine of each connection,
the dispatcher, the reader of the cluster socket and each HTTP request stand.
They wait for the read lock (`RLockLogin`, `RLockRequest`: no writer waits or
works), the write lock (`Lock`: no `Readers`), a partner at `dispatchCh`
(`TakeFrom`, `TakeFromPeer`) or `Cluster_Ch` (`Forward`, `ToCluster`), or room
in a connection (`Write`). `Sends` says what each position sends and where it
leads. A packet is a QoS 1 publish or a PUBREL, the two that keep the dispatcher
busiest; QoS 0 and the other acknowledgements wait at the same places or fewer.

A request of `/getOnLineNum` visits the sessions one by one while logins and
exits go on, which do not take the write lock. `steady` and `ever` remember who
was online all through and at some time of it. `Connack` leaves the flush of
queued messages out (`client_process.go:254-264`): it waits for the same
connection at the same place, with the same lock held.

### ClientHeartbeat

One connected client; `TickRead` and `TickWrite` are the two accesses of
`heartTimeout--`, between which a `PingReq` may fall.

## 3. Runs

`tlc -config X.cfg M`, for each run X of `PROJECT.json` and its module M.

| run | checks | instance |
|---|---|---|
| `SessionsAfterClose` | `LiveClientRegistered`, `GrantedIsStored`, `RequestFindsSession` | 2 clients, one clean and one persistent; 3 connections; 2 topics |
| `SessionsAfterCleanup` | `CleanInheritsKept`, `ImplementsRegistry` | 2 clients with any Cleansession, 3 connections, 1 topic |
| `SessionsLiveness` | `TypeOK`, `LoginExcludesProcess`, `NoGhostLogin`, `Served`, `LoginRegisters`, `GoneIsCleanedUp` | 1 client, 2 connections that may overlap; any Cleansession; fairness |
| `DispatchLosses` | `TypeOK`, `ExactlyOnce`, `NoEarlyRelease`, `EveryPublishIsAwaited`, `AcknowledgedIsNotLost`, `InOrder` | 2 QoS 2 messages of a client, 3 lost connections, 2 packets to a Read |
| `DispatchMixed` | `AcknowledgedIsNotLost`, `QuietIsClean`, `InOrder` | 4 messages of QoS 1, 2, 0, 1; subscribers one online, one offline at first; 2 packets to a Read |
| `DispatchCompletes` | `DispatcherReturns`, `FlowsComplete`, `Delivered` | 3 messages, one of a peer, 3 ids, 2 packets to a Read, fairness |
| `KeepAliveFailures` | `TypeOK`, `SilenceIsDetected`, `GivenUpForAReason` | 3 servers, traffic, 1 loss, 1 crash, periods 4 and 3 |
| `CodecPackets` | `Understood`, `OnlyKnownPanics`, `AnswerIsStandard`, `ForwardIsStandard` | every packet type; lengths around 127/128 and 255/256 |
| `ClusterLogin` | `TypeOK`, `OneHolder`, `StayersAreSafe` | 2 servers, 1 peer with the sessions of 2 clients, 2 parts each, 3 logins, 1 fault |
| `ServerProcess` | `TypeOK`, `CountIsRegular`, `EveryoneReturns` | 2 clients, one clean; connections of 1 packet; 2 logins, 1 publish, 1 request; fairness |
| `KeepAliveFirstOnly` | `RunningNodeIsAlive`: **violated** | 3 servers, real periods, no failure |
| `HeartbeatSilent` | `SilentIsClosed`: **violated** | intervals of 1, 2 and 5 s, a uint16 of real width |

Every action of the models is fired by a run that passes.

### Why the bounds are enough

* Sessions: what can go wrong with a struct needs an old connection that still
  holds it, a new one that found it, and a third that comes while one of these
  cleans up. Two clients show what one's steps do to the other.
* Messages: two messages of one publisher are needed to see order, a third from
  a peer (`DispatchCompletes`) takes the other path; two ids let an id be used
  again while the other is in use; three losses cover losing a packet, its
  retransmission and the answer to it. `MaxRead = 2` is enough to drop any one
  packet, and several Reads drop several. What peers send with QoS 2 while
  connections are lost is in the proofs only.
* Keep-alive: the code's 60 s and 50 s enter by comparisons only; 4 and 3 keep
  their order and leave room for a loss and a message. `KeepAliveFirstOnly`
  uses 60 and 50.
* Cluster: two servers can take a client from each other, and a third login lets
  a client come back while notices of the first two are still on their way.
* Process: the shortest waits in a circle take a reader of the lock, the
  dispatcher with a message in hand and one full connection. A connection of
  one packet is full after CONNACK.
* Codec: the encoding changes at lengths of 128 (remaining length) and 256
  (string length); texts differ from one length to the next.

Permutations of connections, topics, packet ids the broker draws, servers, and
clients at a peer are used as symmetry in safety runs; they are interchangeable
in every definition. Deadlock is checked but where the system rests after
bounded input: `SessionsLiveness` (two connections), `CodecPackets` (one packet)
and `ServerProcess`, whose `EveryoneReturns` says that nobody waits then.

### Fairness

* Goroutines that can run do run: weak fairness on their steps and on the
  dispatcher's.
* A Go channel serves blocked senders in the order they came: strong fairness
  on `DispatchRecv`, which a step of the dispatcher disables again and again.
* `sync.RWMutex` lets the readers a writer kept out in before the next writer:
  strong fairness on `LoginLookup`.
* In `DispatchCompletes` clients answer what they get and reconnect, connections
  deliver. Nobody has to publish, subscribe or log in.
* In `ServerProcess` clients go on reading; nobody has to send, ask or leave.
  Input is bounded, so weak fairness stands for the queues of channel and lock.
* Random ids: `DrawAgain` is a stutter, so `WF` on the dispatcher says that a
  free id, if there is one, is drawn in the end.

### Disagreements with what the code says of itself

The two runs that end in a violation are the ones listed as findings. The
configurations below are kept beside the runs and not part of them; each shows,
with `tlc -config`, one more property that does not hold (the first three hold:
two bound the trouble, one is a larger instance). They are not listed as findings
where no line of the repository says otherwise, or where the property is ours.

| configuration (module) | property | what it shows |
|---|---|---|
| `SessionsNoCluster` (`MCClientSessions`) | `NoServiceWithoutCluster` holds | if the cluster could not be started (`cluster_server.go:299-306`), the first login blocks the dispatcher for good, with the lock held |
| `SessionsTakeover` (`MCClientSessions`) | `TypeOK`, `LoginExcludesProcess`, `NoGhostLogin` hold | `SessionsLiveness` without fairness and with a third connection |
| `KeepAlivePair` (`MCClusterKeepAlive`) | `RunningNodeIsAlive` holds | two servers with at most 8 messages between heartbeats keep each other alive |
| `KeepAliveBusy` | `RunningNodeIsAlive` | with a ninth message they do not: each ages the counter like a second (`cluster_server.go:235`) |
| `KeepAliveApart` | `RunningNodesMeet` | the count passes 50 while no node is alive and is never reset: no more heartbeats (`:206`) |
| `SessionsRefused` (`MCClientSessions`) | `NeverPanics` | a refused login closes its connection, and the deferred function reads a nil struct (`client_process.go:194`); a packet before CONNECT does the same (`:275-292`) |
| `SessionsPubComp` | `RequestFindsSession` | with a takeover, a PUBCOMP of a client whose session is gone: `self` is nil and read (`clients_MsgDispatch_Center.go:196`), where the other cases test `ok`; "not find client or client status error, drop it" (`:203`) |
| `SessionsTakeoverOffline` | `LiveClientRegistered` | the end of the old connection takes the new one offline (`:204`) |
| `SessionsCleanReuse` | `CleanStart` | a clean login after a persistent one gets the old subscriptions; "first login or clear session need new client struct" (`:237`) |
| `SessionsStaleEntry` | `FoundSessionIsKept` | a login finds the session of a clean one whose deletion is still in the channel; "not clear session" (`:233`) |
| `DispatchBuffer` (`MCMessageDispatch`) | `IdIsOfThisClient` | a QoS 1 message with two subscribers: one `write_buf` for all (`clients_MsgDispatch_Center.go:70`), so the second is sent the first one's packet and id, too; "generate packet id by server to provice different packet id for each client" (`client_process.go:101-102`) |
| `DispatchSharedIds` (`MCMessageDispatch`) | `OutgoingFlowKept` | a client's own QoS 2 publish overwrites a flow to that client with the same id (`clients_MsgDispatch_Center.go:74`) |
| `DispatchOutOfIds` | `DispatcherReturns` | no id is free and the loop never ends (`client_process.go:33`) |
| `DispatchOfflineIds` | `AcknowledgedArrives` | two queued messages may have the same id (`clients_MsgDispatch_Center.go:175`), and the client takes the second for a repetition |
| `DispatchOneLoss` | `AcknowledgedArrives` | what was written to a connection that is lost is not sent again (`client_process.go:210`) |
| `DispatchCache` | `CacheIsUnfinished` | a released message stays in its publisher's `CacheMsg` (`:160`) |
| `ClusterMoves` (`MCClusterLogin`) | `SyncIsSurvived` | a client that changes servers takes the old one down (`cluster_server.go:257`); "need sync client [%s] info to cluster server node" (`:254`) |
| `ClusterParts` | `MovedIsWhole` | the parts of a session overtake each other and it is lost (`:111`, `:163-165`): they carry no number |
| `ClusterLateMerge` | `MovedIsGiven` | messages that come with a session are written to a connection that is gone (`clients_MsgDispatch_Center.go:280`) |
| `ServerSlowClient` (`MCServerProcess`) | `EveryoneReturns` | one client that does not read stops dispatcher, logins and requests (`client_process.go:253`, `clients_MsgDispatch_Center.go:89`) |
| `ServerBetween` | `EveryoneReturns` | so does one that does not read while it is kept from writing |
| `ServerNoCluster` | `EveryoneReturns` | the nil `Cluster_Ch` again, with everybody who waits behind it |
| `ServerTwoRequests` | `AnswerIsCounted` | two requests share `onLineNumHandle`: one is answered with the number of the other (`http_clientnum_handle.go:31`) |
| `HeartbeatRace` (`ClientHeartbeat`) | `PingIsKept` | a PINGREQ within a tick is undone (`clients_MsgDispatch_Center.go:307`) |

Known departures from MQTT 3.1.1 that the codec's properties exclude by name:
strings of 256 bytes and more, a user name without a password, DUP and RETAIN
copied into acknowledgements and into what subscribers are sent, a packet id 0
drawn for them (`GeneralPacketID` returns 0 to 61), "session present" in every
CONNACK.

## 4. Proofs

`tlapm M.tla` for the eight modules `*_proofs`. They assume nothing but the
constant assumptions named in the modules, so they hold for any number of
connections, clients, topics, messages, packet ids, servers and requests, every
`Redial`, `CleanChoices`, `MaxRead` and `Reading`, and any periods and bounds,
unless a theorem says otherwise: some are about particular clients or networks,
and then there is a configuration that shows the property to fail without.

| theorem | property | holds for |
|---|---|---|
| `TypeCorrect`, `LockExcludes`, `NoGhosts` | `TypeOK`, `LoginExcludesProcess`, `NoGhostLogin` | everything |
| `LiveStaysRegistered` | `LiveClientRegistered` | `InTurn`: no login while an earlier connection of the client is open; else `SessionsTakeoverOffline` |
| `GrantedStaysStored` | `GrantedIsStored` | `InTurn` |
| `RequestsAreKnown` | `RequestFindsSession` | `InTurn`; else `SessionsPubComp` |
| `CleanLoginInherits` | `CleanInheritsKept` | `afterCleanup`, any Cleansession; with `afterClose` it fails, also with the constants of `SessionsAfterCleanup` |
| `RegistryImplemented` | `ImplementsRegistry` | `afterCleanup`; else `SessionsStaleEntry` |
| `DispatchTypeCorrect`, `HandedOnOnce`, `ReleasedByPublisher` | `TypeOK`, `ExactlyOnce`, `NoEarlyRelease` | everything |
| `DeliveredInOrder` | `InOrder` | `NothingSentAgain`: QoS 0 and 2 with any lost connections, QoS 1 with none |
| `PublishesAreAwaited` | `EveryPublishIsAwaited` | `IdsApart`, any lost connections; else `DispatchSharedIds` |
| `NothingIsLeftOver` | `QuietIsClean` | `NoDrops`, `IdsApart`, any Reads; else the constants of `DispatchOneLoss`, `DispatchSharedIds` |
| `AcknowledgedIsKept` | `AcknowledgedIsNotLost` | everything: any lost connections, Reads, queues and ids |
| `KeepAliveTypeCorrect`, `SilenceDetection`, `GivingUp` | `TypeOK`, `SilenceIsDetected`, `GivenUpForAReason` | everything |
| `ClusterLoginTypeCorrect`, `StayersSafe` | `TypeOK`, `StayersAreSafe` | everything |
| `OnePlace` | `OneHolder` | everything (the property itself is about runs without a fault) |
| `ServerTypeCorrect`, `Regular` | `TypeOK`, `CountIsRegular` | everything |

**ClientSessions_proofs.** `NoGhostLogin` is not inductive: that an online
session of the map has somebody to end it depends on who else holds the struct,
on the message in flight, and on the struct belonging to that client. The
inductive invariant is `SessionInv`:

* `TypeOK`;
* `GoroutineInv`: past CONNECT a goroutine has a client id, past the lookup a
  struct;
* `LockInv`: the lock's `readers` and `writer` are what the threads' positions
  say, and a held write lock has no readers;
* `MessageInv`: the deletion in flight carries the id of its struct;
* `HeapInv`: a struct belongs to one client for good and is reachable under
  that client's key and from that client's connections only;
* `GhostInv`: a struct that says online is held by a goroutine that has not
  ended, or its deletion is in flight, or it is neither in the map nor on its
  way there.

One lemma per conjunct shows that a step keeps it (`TypeStep`, `GoroutineStep`,
`LockStep`, `MessageStep`, `HeapStep`, `GhostStep`), by cases on the actions.
`Invariance` puts them together; `TypeCorrect`, `LockExcludes` and `NoGhosts`
follow.

**SessionReturns_proofs.** Clients that come back in turn share a struct one
connection after the other, so the struct is never contended for; what can
still go wrong is that an earlier connection is over while its last request is in
the dispatcher's hand. The inductive invariant, on top of `SessionInv`, is
`ReturnInv`:

* `RequestInv`: the struct a request carries belongs to the client it names;
* `TurnInv`: of two connections of one client one has ended;
* `OwnInv`: until its goroutine ends, a struct says what that goroutine wrote:
  online, its connection, its kind of session;
* `MapInv`: a connection past its ADD is the one in the map, or its ADD is in
  hand, and no deletion of its client is;
* `AskInv`: a SUBSCRIBE, UNSUBSCRIBE or PUBCOMP in hand finds a session, and
  while SUBACK is not written either the SUBSCRIBE is in hand or the topics are
  stored;
* `GrantInv`: `GrantedIsStored`, and whoever is about to lose something (its
  session ends, its UNSUBSCRIBE is in hand, its struct is not the registered one)
  was granted none of it.

`LiveStaysRegistered`, `GrantedStaysStored` and `RequestsAreKnown` are read off
it. They hold whatever logins fail and whatever packets come before CONNECT:
such a connection has no struct, and the process that ends on it has no
session any more that could be wrong.
For clients that also wait for their deletion, `EmptyInv` says that a login and
a registration never meet a second struct of their client with subscriptions:
the step at which a session begins, in the map, is then a step of the registry,
and a struct that was overwritten took nothing with it. `CleanInv` adds that a
client that never asked to keep a session has one in the map, or an ADD for one
in hand, only while its deletion is in hand or one of its connections is in use;
so the login of such a client finds none, and what a clean login finds was kept
on request: `CleanLoginInherits`.
`RegistryImplemented` goes over the steps of `ClientSessions`: `ProcessAdd`,
`ProcessDel`, `ProcessSub`, `ProcessUnsub`, `LoginInstall` and `LoginFill` move
the mapped session (`SessionMoves`, `OneSession`), the others leave it
(`RegistryStutters`).

**MessageDispatch_proofs.** Exactly once, over two dispatcher messages, three
goroutines and a client that repeats itself, depends on the order in which the
packets of one flow travel. `FlowInv` is that order. A client has one flow per id
(`IdsInv`). While a PUBLISH of QoS 2 is on its way (`OutboxInv`) or in its
goroutine's hand (`RequestInv`), no PUBREL with its id follows and no PUBREC for
it exists; a PUBREC on its way means that its message is not released
(`PubrecInv`); a message in the dispatcher's hand (`DispatchInv`) or in
`CacheMsg` (`CacheInv`) that its publisher did not release has no PUBREL behind
it. A dropped connection takes all packets with it, so what is sent again finds
the order empty. From this, `DeliveryInv`: a message that is still to be released
has reached nobody (`FreshInv`, which is `NoEarlyRelease` and more), one that is
being released has not reached those the loop has still to visit, and each other
has one copy at most, in the queue, on the wire or received (`CopyInv`,
`ForwardInv`). A second PUBREL finds no status and is dropped, a second PUBLISH
while the first is in `CacheMsg` overwrites it with itself. The proof needs no
assumption on packet ids: the id ranges of clients and server may overlap, as
they do in the code. `DispatchInvariant` is the whole invariant.

**MessageDelivery_proofs.** Four properties, each with an inductive invariant on
top of `DispatchInvariant`; the last two use the one about order as well, and
the third the one about answers. All use `BasicInv`: who is
offline has nothing on its connection and who is online nothing queued
(`ConnInv`), clients begin with their messages in order (`BegunInv`), what is on
a connection or in hand is of the client it came from (`OriginInv`), what is
anywhere was published (`PlacesInv`), and the `write_buf` of one loop holds
packets of one message (`BufferInv`).

*Order.* `InOrder` speaks of what was received; what decides it happened up to
five hops earlier. `DeliveryOrderInv` has one conjunct per hop. PUBLISH packets
are in order on the publisher's connection (`OutboxOrderInv`), also when sent
again, which goes in the order of `Again`. QoS 2 changes order there, as the
dispatcher keeps a message until its PUBREL; so PUBRECs are in order
(`SentInv`), hence PUBRELs (`PubrelInv`), also the repeated ones, and whatever
is still to be released comes after what was (`ReleaseOrderInv`). QoS 0 and 1
are dispatched as they come (`DirectInv`). From the dispatcher on, `CopyOrderInv`:
in the queue, on the wire, among what was received, and from each of these to
the next, the earlier message is ahead. `KeptInv` keeps the two passes of one
message apart: a publisher is not through with what is in `CacheMsg`, and a
PUBCOMP comes once, when it is no longer there.

*Answers.* An id in `PubStatus` is overwritten by whoever sends next under it.
`SideInv` says who can be at work under an id a client is sent messages under,
`AwaitInv` that an entry goes from PUBREC to PUBCOMP and away only as the
packets of that flow come back: a PUBLISH of QoS 2 on the wire has an entry, a
PUBREL or PUBCOMP of the flow is on its way once, with the entry at PUBCOMP, and
a PUBREL comes after the PUBLISH with its id.

*Flows.* `QuietIsClean` says that no answer is missing that a Read did not drop,
so its invariant says where the answer is. `AnsweredInv`: for every entry of the
server and every id a subscriber holds, some packet is on its way or in hand that
leads on, or the one that would was dropped.
`LastAnswerInv`, for the publisher: a message with a PUBREC on its way is with
the dispatcher or in `CacheMsg` (`AckingInv`, `AnsweredOwedInv`), a released
message the server has no more is answered by a PUBCOMP on its way
(`CompletedInv`), a QoS 1 message the server has taken by a PUBACK on its way or
a goroutine about to write it (`AcknowledgedInv`). When nothing is on its way,
nothing can be half done.

*Acknowledged messages.* `AcknowledgedIsKept` assumes nothing, neither about lost
connections nor about Reads, queues or ids. `SettledInv` is
`AcknowledgedIsNotLost` from the step at which the server takes a message over,
which is before the publisher knows (`TakenOver`): QoS 2 is released and no
longer owed, QoS 1 has its PUBACK written, on its way or received. From then on
each subscriber has the message, received, on the wire or in the queue, or the
loop has still to come to it, or it left the wire unreceived: lost with the
connection, written to one that is gone, or taken for a repetition, all of which
goes into `missed`. `OnceInv` and `PubackInv` say that in each connection a QoS 1
message is under way once and its PUBACK belongs to it, so `done` means taken
over. That a release is the only thing that ends an entry of a publisher
(`OwedEnds`) rests on `QueuedFreeInv`: the id of a queued message has no entry
until the queue is sent, as the client is offline until then.

The hypotheses of the others are needed, as the model shows with two messages of
one publisher. `NoDrops` (no connection is lost): with one lost, the server never
sends again what it wrote to it (`client_process.go:210`), so with the constants
of `DispatchOneLoss` `QuietIsClean` fails; so does `InOrder` if the messages are
of QoS 1, since a client sends again what was already passed on. `IdsApart` (a
client that is sent QoS 2 messages and publishes some does not use ids the server
draws, which nothing but its own choice keeps it from): with the one client of
`DispatchSharedIds` and its ids `EveryPublishIsAwaited` and `QuietIsClean` fail.
The hypotheses hold in the run that checks the property.

**ClusterKeepAlive_proofs.** A counter is a number that four actions change; the
invariant says which number: `AgeInv`, the time allowed less the seconds and
messages since the node was heard of, never below 0. From `CountersAreAges`
follow `SilenceDetection` (a silent node is given up in time whatever is lost or
crashes) and `GivingUp` (nobody is given up for less). `SmallestExists` uses the
well-foundedness of the naturals to know that `CHOOSE` in `Beat` finds the first
node alive.

**ClusterLogin_proofs.** A server goes down some steps after the client came to
another one, and what connects the two is on its way in between: in a datagram,
in the dispatcher's hand. `StayInv` follows it. `NoticeInv`: a notice on the wire
comes from a server its client was at, and goes to another one. `HereInv`: nobody
takes itself for a node of its cluster; a client with a goroutine, a session or
an ADD in hand at a server was there, and a notice in hand means it was elsewhere
as well. With these a step of `SyncClient` (the session is here, the notice in
hand) keeps `StayersAreSafe`; `NoticeStep`, `HereStep` and `StayersStep` show
one part each. `StayersSafe` then holds whatever is lost, given up or restarted.

**ClusterMoves_proofs.** `OnePlace`: between two logins at different servers and
rest there are notices in both directions, sessions in two places and servers
that die of a notice. `PairInv` says what makes it come out right: of two servers
with a session of one client, one is being told, by a notice on the wire or in
its hand, and so is a peer that has one as well. The later login sends the notice;
whoever takes it loses the session. At rest nobody is being told, so there is one
holder. Both hold while `faults = 0` only, with `NodeInv`: nodes then tell
everybody. Datagrams arrive in any order throughout; no step of the proof needs
one notice to be taken before another.

**ServerProcess_proofs.** That the count is right depends on the lock at one
place only: `VisitInv`, while a request visits sessions the dispatcher has not
got past `Lock`, so none is added or removed. `CountInv` says what the unlocked
writes of `LoginSuccess` may do meanwhile: whoever was online all along is
counted or still to visit, whoever is counted was online at some time.
`Regular` follows, for any number of requests at once, and `ServerTypeCorrect`,
whose part about loops (no session is visited that the map lost) rests on
`VisitInv` as well. Clients are finitely many (`ServerProcessAssumption`), which
bounds the count.

**Only model-checked:** the liveness properties, which need fairness, and the
four invariants of `MqttCodec`, whose strings are walked by recursive operators.
Every other safety property of the runs that pass is a theorem above.

## 5. Not modelled, and the plan

| step | module | content | properties and theorems |
|---|---|---|---|
| done | `ClientSessions`, `SessionRegistry` | sessions | above, `RegistryImplemented` |
| done | `MessageDispatch` | messages | above, `HandedOnOnce`, `ReleasedByPublisher`, `DeliveredInOrder`, `AcknowledgedIsKept` |
| done | `ClusterKeepAlive` | keep-alive | above |
| done | `MqttCodec` | packets | above |
| done | `ClusterLogin` | sessions between servers | above, `StayersSafe`, `OnePlace` |
| done | `ServerProcess` | waiting, bounded connections, counting clients | above, `Regular` |
| done | `ClientHeartbeat` | the tick | above |
| 1 | `PacketStream` | TCP segments and packets: a packet split over two Reads, the bytes after a PUBLISH taken for its payload | what was sent is what is read |
| 2 | sessions and dispatch composed | subscriptions that change while messages are dispatched | a granted subscription gets the messages published after it |

Proofs to come: `RunningNodeIsAlive` for two servers under a bound on traffic.

Not modelled further: the sending half of the session transfer, which the
program never reaches; what the other HTTP requests list (pages over a map whose
order changes with every request, so pages need not fit together), which hold
the lock as `/getOnLineNum` does, and `GetSessionNum`
(`http_clientnum_handle.go:22-24`), which reads the size of the map with no lock
at all; the page and its script, the configuration file, log output, and the
database interface no package uses.

Left out of every model: the wording of logs, wills (the broker reads and drops
them), retained messages (the flag is passed on, nothing is kept), wildcards in
topics (topics are compared as strings), and the text of configuration files.
