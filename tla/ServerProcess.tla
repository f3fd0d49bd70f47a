--------------------------- MODULE ServerProcess ---------------------------
(***************************************************************************)
(* Who waits for whom in the server.  A goroutine per connection, the      *)
(* dispatcher, the reader of the cluster socket and the requests of the    *)
(* HTTP manager share one map under one RWMutex, two channels without a    *)
(* buffer, and connections that hold a bounded number of packets: a        *)
(* goroutine may wait for the lock, for a partner at a channel, or for a   *)
(* client to read.                                                         *)
(*                                                                         *)
(* Everyone subscribes to the one topic.  What becomes of a message is in  *)
(* MessageDispatch, several connections of one client in ClientSessions.   *)
(* startClusterServerCycly, the other end of Cluster_Ch, never blocks: its *)
(* part is done within the step that sends.                                *)
(***************************************************************************)
EXTENDS Naturals, FiniteSets

CONSTANTS
  Client,
  Clean,          \* clients that ask for a clean session
  Request,        \* requests of /getOnLineNum that may be open at once
  Reading,        \* Reading[c]: when client c reads, see ClientReads
  Window,         \* packets a connection holds in each direction
  ClusterStarted, \* StartClusterServerNode made Cluster_Ch
  MaxLogins,      \* bound on connections
  MaxPackets,     \* bound on packets clients and cluster peers send
  MaxRequests     \* bound on requests

ASSUME ServerProcessAssumption ==
  /\ IsFiniteSet(Client)
  /\ Clean \subseteq Client
  /\ Reading \in [Client -> {"always", "between", "never"}]
  /\ Window \in Nat \ {0}
  /\ ClusterStarted \in BOOLEAN
  /\ {MaxLogins, MaxPackets, MaxRequests} \subseteq Nat

VARIABLES
  conn,         \* "none", "open", or "broken" by the client
  toServer,     \* packets on their way in
  toClient,     \* packets written, not yet read by the client
  cpc,          \* what the goroutine of a connection is about to do
  clientsMap,   \* clients with a session in GloablClientsMap
  loginSuccess, \* clients whose LoginSuccess is 1
  dpc, dmsg,    \* the dispatcher and the message it works on
  todo,         \* sessions its loop over the map has still to visit
  rpc,          \* the reader of the cluster socket
  hpc,          \* requests of the HTTP manager
  visit,        \* sessions the loop of a request has still to visit
  counted,      \* clients it counted
  num,          \* onLineNumHandle.Num, which requests share
  logins, packets, requests,
  \* history
  steady, ever  \* clients online all through / at some time of a request

connVars == <<conn, toServer, toClient>>
mapVars  == <<clientsMap, loginSuccess, steady, ever>>
dispVars == <<dpc, dmsg, todo>>
httpVars == <<hpc, visit, counted, num>>
countVars == <<logins, packets, requests>>
vars == <<connVars, cpc, mapVars, dispVars, rpc, httpVars, countVars>>

Init ==
  /\ conn = [c \in Client |-> "none"]
  /\ toServer = [c \in Client |-> 0]
  /\ toClient = [c \in Client |-> 0]
  /\ cpc = [c \in Client |-> "off"]
  /\ clientsMap = {}
  /\ loginSuccess = {}
  /\ dpc = "select" /\ dmsg = [type |-> "none", from |-> {}]
  /\ todo = {}
  /\ rpc = "read"
  /\ hpc = [r \in Request |-> "idle"]
  /\ visit = [r \in Request |-> {}]
  /\ counted = [r \in Request |-> {}]
  /\ num = 0
  /\ logins = 0 /\ packets = 0 /\ requests = 0
  /\ steady = [r \in Request |-> {}]
  /\ ever = [r \in Request |-> {}]

-----------------------------------------------------------------------------
(* The lock, the connections, and the history of who was online.            *)

\* Slip: a login unlocks the map only when the dispatcher took it.
Readers_Late == {c \in Client : cpc[c] \in {"login", "add"}}
                  \cup {r \in Request : hpc[r] = "visit"}

\* Slip: a request reads the map without the lock.
Readers_NoHttp == {c \in Client : cpc[c] = "login"}

\* Those with a read lock.
Readers == {c \in Client : cpc[c] = "login"}
             \cup {r \in Request : hpc[r] = "visit"}

\* A writer, waiting or not, keeps new readers out.
NoWriter == dpc = "select"

\* A write waits for room; to a connection that is gone it fails at once.
Write(c) ==
  /\ conn[c] = "open" => toClient[c] < Window
  /\ toClient' = IF conn[c] = "open" THEN [toClient EXCEPT ![c] = @ + 1]
                 ELSE toClient

\* The map and the logins change, with them who is online.
Become(newMap, newLogins) ==
  LET online == newMap \cap newLogins
      open(r) == hpc[r] # "idle"
  IN
  /\ clientsMap' = newMap
  /\ loginSuccess' = newLogins
  /\ steady' = [r \in Request |->
                  IF open(r) THEN steady[r] \cap online ELSE {}]
  /\ ever' = [r \in Request |->
                IF open(r) THEN ever[r] \cup online ELSE {}]

-----------------------------------------------------------------------------
(* Clients (environment).                                                   *)

Dial(c) ==
  /\ conn[c] = "none" /\ cpc[c] = "off"
  /\ logins < MaxLogins
  /\ logins' = logins + 1
  /\ conn' = [conn EXCEPT ![c] = "open"]
  /\ cpc' = [cpc EXCEPT ![c] = "connect"]
  /\ UNCHANGED <<toServer, toClient, mapVars, dispVars, rpc, httpVars, packets,
                 requests>>

Send(c) ==
  /\ conn[c] = "open"
  /\ toServer[c] < Window
  /\ packets < MaxPackets
  /\ packets' = packets + 1
  /\ toServer' = [toServer EXCEPT ![c] = @ + 1]
  /\ UNCHANGED <<conn, toClient, cpc, mapVars, dispVars, rpc, httpVars, logins,
                 requests>>

\* A client reads whatever else it does, between two writes, or never.
ClientReads(c) ==
  /\ toClient[c] > 0
  /\ \/ Reading[c] = "always"
     \/ Reading[c] = "between"
          /\ (packets < MaxPackets => toServer[c] < Window)
  /\ toClient' = [toClient EXCEPT ![c] = @ - 1]
  /\ UNCHANGED <<conn, toServer, cpc, mapVars, dispVars, rpc, httpVars,
                 countVars>>

Leave(c) ==
  /\ conn[c] = "open"
  /\ conn' = [conn EXCEPT ![c] = "broken"]
  /\ toServer' = [toServer EXCEPT ![c] = 0]
  /\ toClient' = [toClient EXCEPT ![c] = 0]
  /\ UNCHANGED <<cpc, mapVars, dispVars, rpc, httpVars, countVars>>

-----------------------------------------------------------------------------
(* The goroutine of a connection.                                           *)

\* CONNECT: the session is looked up or made under the read lock ...
RLockLogin(c) ==
  /\ cpc[c] = "connect"
  /\ NoWriter
  /\ cpc' = [cpc EXCEPT ![c] = "login"]
  /\ Become(clientsMap, loginSuccess \cup {c})
  /\ UNCHANGED <<connVars, dispVars, rpc, httpVars, countVars>>

\* ... under which CONNACK is written, too.
Connack(c) ==
  /\ cpc[c] = "login"
  /\ Write(c)
  /\ cpc' = [cpc EXCEPT ![c] = "add"]
  /\ UNCHANGED <<conn, toServer, mapVars, dispVars, rpc, httpVars, countVars>>

\* A QoS 1 publish or the PUBREL of a QoS 2 publish.
Read(c) ==
  /\ cpc[c] = "read"
  /\ toServer[c] > 0
  /\ toServer' = [toServer EXCEPT ![c] = @ - 1]
  /\ \E type \in {"publish", "pubrel"} : cpc' = [cpc EXCEPT ![c] = type]
  /\ UNCHANGED <<conn, toClient, mapVars, dispVars, rpc, httpVars, countVars>>

Puback(c) ==
  /\ cpc[c] = "puback"
  /\ Write(c)
  /\ cpc' = [cpc EXCEPT ![c] = "cluster"]
  /\ UNCHANGED <<conn, toServer, mapVars, dispVars, rpc, httpVars, countVars>>

\* The connection itself sends a QoS 1 publish to the cluster.
Forward(c) ==
  /\ cpc[c] = "cluster"
  /\ ClusterStarted
  /\ cpc' = [cpc EXCEPT ![c] = "read"]
  /\ UNCHANGED <<connVars, mapVars, dispVars, rpc, httpVars, countVars>>

\* The deferred function of ClientProcess.
Exit(c) ==
  /\ cpc[c] = "read"
  /\ conn[c] = "broken"
  /\ cpc' = [cpc EXCEPT ![c] = IF c \in Clean THEN "del" ELSE "off"]
  /\ conn' = IF c \in Clean THEN conn ELSE [conn EXCEPT ![c] = "none"]
  /\ Become(clientsMap, IF c \in Clean THEN loginSuccess
                        ELSE loginSuccess \ {c})
  /\ UNCHANGED <<toServer, toClient, dispVars, rpc, httpVars, countVars>>

-----------------------------------------------------------------------------
(* The dispatcher.                                                          *)

\* What a connection sends to dispatchCh, and what it does after.
Sends == [add |-> "read", publish |-> "puback", pubrel |-> "read",
          del |-> "off"]

TakeFrom(c) ==
  /\ dpc = "select"
  /\ cpc[c] \in DOMAIN Sends
  /\ dpc' = "lock"
  /\ dmsg' = [type |-> cpc[c], from |-> {c}]
  /\ cpc' = [cpc EXCEPT ![c] = Sends[cpc[c]]]
  /\ conn' = IF cpc[c] = "del" THEN [conn EXCEPT ![c] = "none"] ELSE conn
  /\ UNCHANGED <<toServer, toClient, mapVars, todo, rpc, httpVars, countVars>>

TakeFromPeer ==
  /\ dpc = "select"
  /\ rpc = "send"
  /\ dpc' = "lock"
  /\ dmsg' = [type |-> "peer", from |-> {}]
  /\ rpc' = "read"
  /\ UNCHANGED <<connVars, cpc, mapVars, todo, httpVars, countVars>>

Lock ==
  /\ dpc = "lock"
  /\ Readers = {}
  /\ dpc' = dmsg.type
  /\ todo' = IF dmsg.type \in {"publish", "pubrel", "peer"} THEN clientsMap
             ELSE {}
  /\ UNCHANGED <<connVars, cpc, mapVars, dmsg, rpc, httpVars, countVars>>

\* processMsg, with the lock held.
ProcessAdd ==
  /\ dpc = "add"
  /\ Become(clientsMap \cup dmsg.from, loginSuccess)
  /\ dpc' = "cluster"
  /\ UNCHANGED <<connVars, cpc, dmsg, todo, rpc, httpVars, countVars>>

ProcessDel ==
  /\ dpc = "del"
  /\ Become(clientsMap \ dmsg.from, loginSuccess \ dmsg.from)
  /\ dpc' = "select"
  /\ UNCHANGED <<connVars, cpc, dmsg, todo, rpc, httpVars, countVars>>

\* The answer to PUBREL.
Pubcomp(c) ==
  /\ dpc = "pubrel"
  /\ c \in dmsg.from
  /\ Write(c)
  /\ dpc' = "release"
  /\ UNCHANGED <<conn, toServer, cpc, mapVars, dmsg, todo, rpc, httpVars,
                 countVars>>

\* One turn of the loop over the map.
Deliver(c) ==
  /\ dpc \in {"publish", "release", "peer"}
  /\ c \in todo
  /\ todo' = todo \ {c}
  /\ IF c \in loginSuccess THEN Write(c) ELSE UNCHANGED toClient
  /\ UNCHANGED <<conn, toServer, cpc, mapVars, dpc, dmsg, rpc, httpVars,
                 countVars>>

Delivered ==
  /\ dpc \in {"publish", "release", "peer"}
  /\ todo = {}
  /\ dpc' = IF dpc = "release" THEN "cluster" ELSE "select"
  /\ UNCHANGED <<connVars, cpc, mapVars, dmsg, todo, rpc, httpVars, countVars>>

\* cluster.Cluster_Ch <- msg_cluster; Unlock.
ToCluster ==
  /\ dpc = "cluster"
  /\ ClusterStarted
  /\ dpc' = "select"
  /\ UNCHANGED <<connVars, cpc, mapVars, dmsg, todo, rpc, httpVars, countVars>>

-----------------------------------------------------------------------------
(* startClusterServerRecv; a heartbeat goes to Cluster_Ch in one step.      *)

PeerPublishes ==
  /\ rpc = "read"
  /\ ClusterStarted
  /\ packets < MaxPackets
  /\ packets' = packets + 1
  /\ rpc' = "send"
  /\ UNCHANGED <<connVars, cpc, mapVars, dispVars, httpVars, logins, requests>>

-----------------------------------------------------------------------------
(* GET /getOnLineNum.                                                       *)

Ask(r) ==
  /\ hpc[r] = "idle"
  /\ requests < MaxRequests
  /\ requests' = requests + 1
  /\ hpc' = [hpc EXCEPT ![r] = "rlock"]
  /\ steady' = [steady EXCEPT ![r] = clientsMap \cap loginSuccess]
  /\ ever' = [ever EXCEPT ![r] = clientsMap \cap loginSuccess]
  /\ UNCHANGED <<connVars, cpc, clientsMap, loginSuccess, dispVars, rpc, visit,
                 counted, num, logins, packets>>

RLockRequest(r) ==
  /\ hpc[r] = "rlock"
  /\ NoWriter
  /\ hpc' = [hpc EXCEPT ![r] = "visit"]
  /\ visit' = [visit EXCEPT ![r] = clientsMap]
  /\ counted' = [counted EXCEPT ![r] = {}]
  /\ UNCHANGED <<connVars, cpc, mapVars, dispVars, rpc, num, countVars>>

\* Slip: every session counts.
Counts_All(c) == TRUE

Counts(c) == c \in loginSuccess

Visit(r, c) ==
  /\ hpc[r] = "visit"
  /\ c \in visit[r]
  /\ visit' = [visit EXCEPT ![r] = @ \ {c}]
  /\ counted' = IF Counts(c) THEN [counted EXCEPT ![r] = @ \cup {c}]
                ELSE counted
  /\ UNCHANGED <<connVars, cpc, mapVars, dispVars, rpc, hpc, num, countVars>>

\* online.Num = GetOnLineClientNum()
RUnlockRequest(r) ==
  /\ hpc[r] = "visit"
  /\ visit[r] = {}
  /\ hpc' = [hpc EXCEPT ![r] = "answer"]
  /\ num' = Cardinality(counted[r])
  /\ UNCHANGED <<connVars, cpc, mapVars, dispVars, rpc, visit, counted,
                 countVars>>

\* json.Marshal(online), and the answer is sent.
Answer(r) ==
  /\ hpc[r] = "answer"
  /\ hpc' = [hpc EXCEPT ![r] = "idle"]
  /\ counted' = [counted EXCEPT ![r] = {}]
  /\ steady' = [steady EXCEPT ![r] = {}]
  /\ ever' = [ever EXCEPT ![r] = {}]
  /\ UNCHANGED <<connVars, cpc, clientsMap, loginSuccess, dispVars, rpc, visit,
                 num, countVars>>

-----------------------------------------------------------------------------
Connection(c) ==
  RLockLogin(c) \/ Connack(c) \/ Read(c) \/ Puback(c) \/ Forward(c) \/ Exit(c)

Dispatcher ==
  \/ \E c \in Client : TakeFrom(c) \/ Pubcomp(c) \/ Deliver(c)
  \/ TakeFromPeer \/ Lock \/ ProcessAdd \/ ProcessDel \/ Delivered \/ ToCluster

Handler(r) ==
  \/ RLockRequest(r) \/ RUnlockRequest(r) \/ Answer(r)
  \/ \E c \in Client : Visit(r, c)

Next ==
  \/ \E c \in Client :
       Dial(c) \/ Send(c) \/ ClientReads(c) \/ Leave(c) \/ Connection(c)
  \/ Dispatcher
  \/ PeerPublishes
  \/ \E r \in Request : Ask(r) \/ Handler(r)

Spec == Init /\ [][Next]_vars

(* A goroutine that can go on does, and clients that read keep reading.     *)
(* Nobody has to log in, to send, to ask or to leave.                       *)
FairSpec ==
  /\ Spec
  /\ \A c \in Client : WF_vars(Connection(c)) /\ WF_vars(ClientReads(c))
  /\ WF_vars(Dispatcher)
  /\ \A r \in Request : WF_vars(Handler(r))

-----------------------------------------------------------------------------
TypeOK ==
  /\ conn \in [Client -> {"none", "open", "broken"}]
  /\ toServer \in [Client -> 0..Window]
  /\ toClient \in [Client -> 0..Window]
  /\ cpc \in [Client -> {"off", "connect", "login", "puback", "cluster"}
                          \cup DOMAIN Sends \cup {"read"}]
  /\ clientsMap \subseteq Client
  /\ loginSuccess \subseteq Client
  /\ dpc \in {"select", "lock", "add", "del", "publish", "pubrel", "release",
              "peer", "cluster"}
  /\ dmsg.from \subseteq Client
  /\ todo \subseteq clientsMap
  /\ rpc \in {"read", "send"}
  /\ hpc \in [Request -> {"idle", "rlock", "visit", "answer"}]
  /\ \A r \in Request :
       visit[r] \cup counted[r] \subseteq clientsMap \/ hpc[r] # "visit"
  /\ num \in 0..Cardinality(Client)

(* The number of clients online that the manager counts is right up to what *)
(* happens while it counts: whoever is online all the while is counted,     *)
(* whoever is not online at any time is not.                                *)
CountIsRegular ==
  \A r \in Request : hpc[r] = "answer" =>
    steady[r] \subseteq counted[r] /\ counted[r] \subseteq ever[r]

(* A request is answered with the number it counted.                        *)
AnswerIsCounted ==
  \A r \in Request : hpc[r] = "answer" => num = Cardinality(counted[r])

(* Nobody waits for ever: the dispatcher returns to its select, a           *)
(* connection to its next read or its end, a request to its answer, the     *)
(* reader of the cluster socket to the next datagram.                       *)
EveryoneReturns ==
  /\ dpc # "select" ~> dpc = "select"
  /\ \A c \in Client :
       cpc[c] \notin {"off", "read"} ~> cpc[c] \in {"off", "read"}
  /\ \A r \in Request : hpc[r] # "idle" ~> hpc[r] = "idle"
  /\ rpc = "send" ~> rpc = "read"

=============================================================================
