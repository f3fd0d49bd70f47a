---------------------------- MODULE ClusterLogin ----------------------------
(***************************************************************************)
(* A client of a cluster logs in: its server tells the others, which give  *)
(* up the session they may have of it and are to send it over.  The        *)
(* session arrives in several datagrams and is merged into the new one.    *)
(*                                                                         *)
(* Each server runs a dispatcher, a goroutine that reads the UDP socket    *)
(* (startClusterServerRecv) and one that writes it                         *)
(* (startClusterServerCycly).  The last never blocks, so what it does with *)
(* a message from Cluster_Ch belongs to the step that sends the message.   *)
(* Datagrams arrive in any order.  Sessions are persistent, see            *)
(* ClientSessions for the others; who is thought alive is decided in       *)
(* ClusterKeepAlive and a choice here.                                     *)
(***************************************************************************)
EXTENDS Naturals, Sequences, FiniteSets

CONSTANTS
  Node,       \* servers that run this code
  Peer,       \* servers of another version, which do send sessions over
  ClientId,
  Moved,      \* clients whose session is at a peer at first
  Parts,      \* datagrams a session takes
  NoId,
  MaxLogins,  \* bound on logins
  MaxFaults   \* bound on lost datagrams and nodes wrongly given up

Server == Node \cup Peer

ASSUME ClusterLoginAssumption ==
  /\ Node \cap Peer = {}
  /\ Moved \subseteq ClientId
  /\ NoId \notin ClientId
  /\ Parts \in Nat \ {0}
  /\ {MaxLogins, MaxFaults} \subseteq Nat

VARIABLES
  up,
  alive,          \* nodes of its list a server takes for alive
  gpc,            \* gpc[n][id]: the goroutine of id's connection to n
  clientsMap,     \* ids in GloablClientsMap
  merged,         \* those whose session took in what a server sent
  given,          \* those who were up to be given the messages in it
  dmsg,           \* what the dispatcher has in hand
  clientInfoMsg,  \* the buffer of startClusterServerRecv
  wire,           \* wire[<<s, t>>][d]: how often d is on its way from s to t
  peerHas,        \* sessions held by a peer
  logins, faults,
  \* history
  visited,        \* servers each client logged in at
  died            \* servers that panicked at some time

procVars == <<up, alive, died>>
sessVars == <<clientsMap, merged, given>>
envVars  == <<peerHas, logins, faults, visited>>
vars == <<procVars, gpc, sessVars, dmsg, clientInfoMsg, wire, envVars>>

Nothing  == [type |-> "none", id |-> NoId]
Dispatch == [type : {"add", "login", "info"}, id : ClientId] \cup {Nothing}
Notice(id)  == [type |-> "login", id |-> id, part |-> 0]
Info(id, i) == [type |-> "info", id |-> id, part |-> i]
Datagram == {Notice(id) : id \in ClientId}
              \cup {Info(id, i) : id \in ClientId, i \in 1..Parts}

\* A session cut into datagrams, in order.
Session(id) == [i \in 1..Parts |-> Info(id, i)]

Channel  == Server \X Server
OnWay(d) == {c \in Channel : wire[c][d] > 0}

Init ==
  /\ up = [n \in Node |-> TRUE]
  /\ alive = [n \in Node |-> Server \ {n}]
  /\ gpc = [n \in Node |-> [id \in ClientId |-> "off"]]
  /\ clientsMap = [n \in Node |-> {}]
  /\ merged = [n \in Node |-> {}]
  /\ given = [n \in Node |-> {}]
  /\ dmsg = [n \in Node |-> Nothing]
  /\ clientInfoMsg = [n \in Node |-> <<>>]
  /\ wire = [c \in Channel |-> [d \in Datagram |-> 0]]
  /\ \E at \in [Moved -> Peer] :
       peerHas = [p \in Peer |-> {id \in Moved : at[id] = p}]
  /\ logins = 0 /\ faults = 0
  /\ visited = [id \in ClientId |-> {}]
  /\ died = {}

-----------------------------------------------------------------------------
(* Clients.  One logs in wherever it likes, also before its old connection  *)
(* to another server is noticed to be gone, but only once per server at a   *)
(* time.                                                                    *)
Login(n, id) ==
  /\ up[n]
  /\ gpc[n][id] = "off"
  /\ logins < MaxLogins
  /\ logins' = logins + 1
  /\ gpc' = [gpc EXCEPT ![n][id] = "add"]
  /\ visited' = [visited EXCEPT ![id] = @ \cup {n}]
  /\ UNCHANGED <<procVars, sessVars, dmsg, clientInfoMsg, wire, peerHas,
                 faults>>

Exit(n, id) ==
  /\ gpc[n][id] = "on"
  /\ gpc' = [gpc EXCEPT ![n][id] = "off"]
  /\ UNCHANGED <<procVars, sessVars, dmsg, clientInfoMsg, wire, envVars>>

-----------------------------------------------------------------------------
(* The dispatcher.                                                          *)

Free(n) == up[n] /\ dmsg[n] = Nothing

\* The rendezvous with a connection that logs in.
TakeAdd(n, id) ==
  /\ Free(n)
  /\ gpc[n][id] = "add"
  /\ gpc' = [gpc EXCEPT ![n][id] = "on"]
  /\ dmsg' = [dmsg EXCEPT ![n] = [type |-> "add", id |-> id]]
  /\ UNCHANGED <<procVars, sessVars, clientInfoMsg, wire, envVars>>

\* Slip: a login is not announced.
Announced_Never(n, id) == wire

\* CLUSTER_LOGIN_MSG at the cycle goroutine: a notice to every live node.
Announced(n, id) ==
  [c \in Channel |->
     IF c[1] = n /\ c[2] \in alive[n]
     THEN [wire[c] EXCEPT ![Notice(id)] = @ + 1] ELSE wire[c]]

\* MSG_CLIENT_ADD.
ProcessAdd(n) ==
  /\ dmsg[n].type = "add"
  /\ clientsMap' = [clientsMap EXCEPT ![n] = @ \cup {dmsg[n].id}]
  /\ wire' = Announced(n, dmsg[n].id)
  /\ dmsg' = [dmsg EXCEPT ![n] = Nothing]
  /\ UNCHANGED <<procVars, gpc, merged, given, clientInfoMsg, envVars>>

\* A new process knows nothing and takes every node of its list for alive.
Fresh(n) ==
  /\ gpc' = [gpc EXCEPT ![n] = [id \in ClientId |-> "off"]]
  /\ clientsMap' = [clientsMap EXCEPT ![n] = {}]
  /\ merged' = [merged EXCEPT ![n] = {}]
  /\ given' = [given EXCEPT ![n] = {}]
  /\ dmsg' = [dmsg EXCEPT ![n] = Nothing]
  /\ clientInfoMsg' = [clientInfoMsg EXCEPT ![n] = <<>>]
  /\ alive' = [alive EXCEPT ![n] = Server \ {n}]

\* CLUSTER_CLIENT_INFO_MSG at the cycle goroutine: ip is cut at the colon and
\* then indexed behind it, which panics and ends the process.
SyncClient(n) ==
  /\ Fresh(n)
  /\ up' = [up EXCEPT ![n] = FALSE]
  /\ died' = died \cup {n}

\* Slip: a session that is not there is sent as well.
Found_Always(n, id) == TRUE

Found(n, id) == id \in clientsMap[n]

\* MSG_CLUSTER_LOGIN for a client with a session here, which is deleted ...
ProcessLogin(n) ==
  /\ dmsg[n].type = "login"
  /\ Found(n, dmsg[n].id)
  /\ SyncClient(n)
  /\ UNCHANGED <<wire, envVars>>

\* ... or without.
IgnoreLogin(n) ==
  /\ dmsg[n].type = "login"
  /\ ~ Found(n, dmsg[n].id)
  /\ dmsg' = [dmsg EXCEPT ![n] = Nothing]
  /\ UNCHANGED <<procVars, gpc, sessVars, clientInfoMsg, wire, envVars>>

\* Slip: a session is made up for a client that has none.
Into_Any(n, id) == {id}

\* The sessions MSG_CLUSTER_LOGIN_INFO finds: one or none.
Into(n, id) == {id} \cap clientsMap[n]

\* MSG_CLUSTER_LOGIN_INFO: the topics are added to the session; the messages
\* are written to its connection, whether or not that is still up.
ProcessInfo(n) ==
  LET found == Into(n, dmsg[n].id) IN
  /\ dmsg[n].type = "info"
  /\ merged' = [merged EXCEPT ![n] = @ \cup found]
  /\ given' = [given EXCEPT ![n] =
                 @ \cup {id \in found : gpc[n][id] # "off"}]
  /\ dmsg' = [dmsg EXCEPT ![n] = Nothing]
  /\ UNCHANGED <<procVars, gpc, clientsMap, clientInfoMsg, wire, envVars>>

-----------------------------------------------------------------------------
(* startClusterServerRecv and processClusterNodeMsg.                        *)

\* Some datagram from s reaches t, whichever was sent first.
Take(s, t, d) ==
  /\ <<s, t>> \in OnWay(d)
  /\ wire' = [wire EXCEPT ![<<s, t>>][d] = @ - 1]

RecvLogin(s, n, id) ==
  /\ Free(n)
  /\ Take(s, n, Notice(id))
  /\ dmsg' = [dmsg EXCEPT ![n] = [type |-> "login", id |-> id]]
  /\ UNCHANGED <<procVars, gpc, sessVars, clientInfoMsg, envVars>>

\* Parts of a session are collected as they come, whoever they come from.
RecvPart(s, n, id, i) ==
  /\ up[n]
  /\ i < Parts
  /\ Take(s, n, Info(id, i))
  /\ clientInfoMsg' = [clientInfoMsg EXCEPT ![n] = Append(@, Info(id, i))]
  /\ UNCHANGED <<procVars, gpc, sessVars, dmsg, envVars>>

\* The last part: json.Unmarshal accepts nothing but one whole session.
RecvLast(s, n, id) ==
  /\ Free(n)
  /\ Take(s, n, Info(id, Parts))
  /\ dmsg' = IF Append(clientInfoMsg[n], Info(id, Parts)) = Session(id)
             THEN [dmsg EXCEPT ![n] = [type |-> "info", id |-> id]]
             ELSE dmsg
  /\ clientInfoMsg' = [clientInfoMsg EXCEPT ![n] = <<>>]
  /\ UNCHANGED <<procVars, gpc, sessVars, envVars>>

-----------------------------------------------------------------------------
(* The peers of another version, the network, and restarts (environment).   *)

\* The datagrams of a session on their way over channel c as well.
WithSession(w, c, id) ==
  [w EXCEPT ![c] =
     [d \in Datagram |-> IF d.type = "info" /\ d.id = id
                         THEN w[c][d] + 1 ELSE w[c][d]]]

\* A notice reaches a peer, which sends the session if it has it ...
PeerGives(n, p, id) ==
  LET rest == [wire EXCEPT ![<<n, p>>][Notice(id)] = @ - 1] IN
  /\ <<n, p>> \in OnWay(Notice(id))
  /\ id \in peerHas[p]
  /\ wire' = WithSession(rest, <<p, n>>, id)
  /\ peerHas' = [peerHas EXCEPT ![p] = @ \ {id}]
  /\ UNCHANGED <<procVars, gpc, sessVars, dmsg, clientInfoMsg, logins, faults,
                 visited>>

\* ... and else does nothing.
PeerIgnores(n, p, id) ==
  /\ id \notin peerHas[p]
  /\ Take(n, p, Notice(id))
  /\ UNCHANGED <<procVars, gpc, sessVars, dmsg, clientInfoMsg, envVars>>

Lose(s, t, d) ==
  /\ faults < MaxFaults
  /\ faults' = faults + 1
  /\ Take(s, t, d)
  /\ UNCHANGED <<procVars, gpc, sessVars, dmsg, clientInfoMsg, peerHas, logins,
                 visited>>

\* Nobody listens at a server that is down.
Discard(s, n, d) ==
  /\ ~ up[n]
  /\ Take(s, n, d)
  /\ UNCHANGED <<procVars, gpc, sessVars, dmsg, clientInfoMsg, envVars>>

GiveUp(n, s) ==
  /\ up[n]
  /\ s \in alive[n]
  /\ faults < MaxFaults
  /\ faults' = faults + 1
  /\ alive' = [alive EXCEPT ![n] = @ \ {s}]
  /\ UNCHANGED <<up, died, gpc, sessVars, dmsg, clientInfoMsg, wire, peerHas,
                 logins, visited>>

\* A heartbeat of s: n takes it for alive again.
Heard(n, s) ==
  /\ up[n]
  /\ s \in Server \ (alive[n] \cup {n})
  /\ alive' = [alive EXCEPT ![n] = @ \cup {s}]
  /\ UNCHANGED <<up, died, gpc, sessVars, dmsg, clientInfoMsg, wire, envVars>>

Restart(n) ==
  /\ ~ up[n]
  /\ up' = [up EXCEPT ![n] = TRUE]
  /\ UNCHANGED <<alive, died, gpc, sessVars, dmsg, clientInfoMsg, wire,
                 envVars>>

\* Every login was announced and every datagram dealt with.
Quiet ==
  /\ \A d \in Datagram : OnWay(d) = {}
  /\ \A n \in Node : dmsg[n] = Nothing
                       /\ \A id \in ClientId : gpc[n][id] # "add"

Idle == Quiet /\ (\A n \in Node : up[n]) /\ UNCHANGED vars

Next ==
  \/ \E n \in Node, id \in ClientId :
       Login(n, id) \/ Exit(n, id) \/ TakeAdd(n, id)
  \/ \E n \in Node :
       ProcessAdd(n) \/ ProcessLogin(n) \/ IgnoreLogin(n) \/ ProcessInfo(n)
         \/ Restart(n)
  \/ \E s \in Server, n \in Node :
       \/ \E id \in ClientId :
            \/ RecvLogin(s, n, id) \/ RecvLast(s, n, id)
            \/ \E i \in 1..Parts : RecvPart(s, n, id, i)
       \/ \E d \in Datagram : Discard(s, n, d)
       \/ GiveUp(n, s) \/ Heard(n, s)
  \/ \E n \in Node, p \in Peer, id \in ClientId :
       PeerGives(n, p, id) \/ PeerIgnores(n, p, id)
  \/ \E s, t \in Server, d \in Datagram : Lose(s, t, d)
  \/ Idle

Spec == Init /\ [][Next]_vars

-----------------------------------------------------------------------------
TypeOK ==
  /\ up \in [Node -> BOOLEAN]
  /\ alive \in [Node -> SUBSET Server]
  /\ gpc \in [Node -> [ClientId -> {"off", "add", "on"}]]
  /\ {clientsMap, merged, given} \subseteq [Node -> SUBSET ClientId]
  /\ \A n \in Node :
       given[n] \subseteq merged[n] /\ merged[n] \subseteq clientsMap[n]
  /\ dmsg \in [Node -> Dispatch]
  /\ clientInfoMsg \in [Node -> Seq(Datagram)]
  /\ wire \in [Channel -> [Datagram -> Nat]]
  /\ peerHas \in [Peer -> SUBSET Moved]
  /\ logins \in 0..MaxLogins
  /\ faults \in 0..MaxFaults
  /\ visited \in [ClientId -> SUBSET Node]
  /\ died \subseteq Node

Holders(id) == {n \in Node : id \in clientsMap[n]}
                 \cup {p \in Peer : id \in peerHas[p]}

(* Once things have settled a client has its session in one place at most,  *)
(* however logins at several servers overlapped (without a fault).          *)
OneHolder ==
  Quiet /\ faults = 0 => \A id \in ClientId : Cardinality(Holders(id)) <= 1

(* A server that came down had the session of a client that logged in at    *)
(* another server too: clients that stay with theirs take none down,        *)
(* whatever is lost or given up.                                            *)
StayersAreSafe ==
  \A n \in died : \E id \in ClientId : n \in visited[id] /\ visited[id] # {n}

(* What a peer sent of a session arrives whole at a server its client       *)
(* logged in at only.  It does not hold: parts carry no number and may      *)
(* overtake each other, or meet those of another session in the one buffer. *)
MovedIsWhole ==
  Quiet /\ faults = 0 =>
    \A n \in Node \ died : \A id \in clientsMap[n] \cap Moved :
      visited[id] = {n} => id \in merged[n]

(* The messages that come with a session reach its client.                  *)
MovedIsGiven == \A n \in Node : merged[n] \subseteq given[n]

(* "need sync client [%s] info to cluster server node" (cluster_server.go:  *)
(* 254): a server lives to send the session it gave up.                     *)
SyncIsSurvived == died = {}

=============================================================================
