--------------------------- MODULE ClientSessions ---------------------------
(***************************************************************************)
(* Login, logout and subscription in one server process.                   *)
(*                                                                         *)
(* Every accepted TCP connection is served by a goroutine of its own       *)
(* (ClientProcess); all of them send to one dispatcher goroutine           *)
(* (ClientsMsgDispatch) over an unbuffered channel.  Both sides reach the  *)
(* same heap of MqttClientInfo structs: the dispatcher under the write     *)
(* lock, a CONNECT under the read lock, and the deferred function of a     *)
(* dying connection under no lock at all.                                  *)
(*                                                                         *)
(* A struct is named by the connection whose CONNECT allocated it: a       *)
(* connection logs in at most once, so it allocates at most one.  A struct *)
(* outlives its connection, and a later connection of the same client id   *)
(* may share it; that aliasing is what this module is about.               *)
(***************************************************************************)
EXTENDS FiniteSets

CONSTANTS
  Conn,            \* TCP connections, each accepted at most once
  ClientId,        \* MQTT client identifiers
  Topic,           \* topic names
  Nil,             \* the nil pointer, and the absent map entry
  Redial,          \* when a client may log in again, see MayLogin
  CleanChoices,    \* CleanChoices[id]: the Cleansession flags id may send
  ClusterStarted   \* did StartClusterServerNode create Cluster_Ch?

ASSUME ClientSessionsAssumption ==
  /\ Nil \notin Conn
  /\ Nil \notin ClientId
  /\ Redial \in {"takeover", "afterClose", "afterCleanup"}
  /\ CleanChoices \in [ClientId -> SUBSET BOOLEAN]
  /\ ClusterStarted \in BOOLEAN

VARIABLES
  \* the connection goroutines and their locals
  pc,              \* where each goroutine stands
  link,            \* is the TCP connection still open?
  who,             \* conndata.ClientID
  wantClean,       \* conndata.Cleansession
  mqttClientData,  \* the struct the goroutine works on, or Nil
  arg,             \* topics of the SUBSCRIBE or UNSUBSCRIBE in hand
  \* the shared heap
  clientsMap,      \* GloablClientsMap
  owner,           \* ClientId field of each struct
  LoginSuccess,    \* LoginSuccess field (1 is TRUE)
  clearSession,    \* clearSession field (1 is TRUE)
  conn,            \* conn field
  SubInfo,         \* SubInfo field: the topics subscribed to
  \* GlobalClientsMapLock
  readers,
  writer,
  \* the dispatcher goroutine
  dpc,
  dmsg,            \* the message it took from the channel
  \* history
  granted          \* topics each client was told (SUBACK) it is subscribed to

goVars   == <<pc, link, who, wantClean, mqttClientData, arg>>
heapVars == <<owner, LoginSuccess, clearSession, conn, SubInfo>>
lockVars == <<readers, writer>>
dispVars == <<dpc, dmsg>>
vars     == <<goVars, clientsMap, heapVars, lockVars, dispVars, granted>>

Sending  == {"add", "sub", "unsub", "comp", "del"}   \* blocked on dispatchCh
InLogin  == {"fill", "install"}                      \* inside RLock..RUnlock
PCs      == {"dial", "read", "rlock", "suback", "unsuback", "exit", "done",
             "dead"} \cup InLogin \cup Sending
DPCs     == {"select", "lock", "wait", "process", "cluster", "dead"}

NoMsg    == [type |-> "none", id |-> Nil, ref |-> Nil, topics |-> {}]
Message  == [type : Sending, id : ClientId, ref : Conn, topics : SUBSET Topic]

Init ==
  /\ pc = [c \in Conn |-> "dial"]
  /\ link = [c \in Conn |-> FALSE]
  /\ who = [c \in Conn |-> Nil]
  /\ wantClean = [c \in Conn |-> FALSE]
  /\ mqttClientData = [c \in Conn |-> Nil]
  /\ arg = [c \in Conn |-> {}]
  /\ clientsMap = [id \in ClientId |-> Nil]
  /\ owner = [r \in Conn |-> Nil]
  /\ LoginSuccess = [r \in Conn |-> FALSE]
  /\ clearSession = [r \in Conn |-> FALSE]
  /\ conn = [r \in Conn |-> Nil]
  /\ SubInfo = [r \in Conn |-> {}]
  /\ readers = {}
  /\ writer = "free"
  /\ dpc = "select"
  /\ dmsg = NoMsg
  /\ granted = [id \in ClientId |-> {}]

GoTo(c, l) == pc' = [pc EXCEPT ![c] = l]

\* An unrecovered panic in any goroutine ends the process.
Panic ==
  /\ pc' = [c \in Conn |-> "dead"]
  /\ dpc' = "dead"

-----------------------------------------------------------------------------
(* The clients and the network (environment).                              *)

Accept(c) ==
  /\ pc[c] = "dial"
  /\ GoTo(c, "read")
  /\ link' = [link EXCEPT ![c] = TRUE]
  /\ UNCHANGED <<who, wantClean, mqttClientData, arg, clientsMap, heapVars,
                 lockVars, dispVars, granted>>

\* The peer closes the connection or the network loses it.
Drop(c) ==
  /\ link[c]
  /\ pc[c] # "dead"
  /\ link' = [link EXCEPT ![c] = FALSE]
  /\ UNCHANGED <<pc, who, wantClean, mqttClientData, arg, clientsMap,
                 heapVars, lockVars, dispVars, granted>>

(* When may client id log in over connection c?                            *)
(*   takeover      at any time, also beside its own earlier connection     *)
(*   afterClose    once the server closed its earlier connections          *)
(*   afterCleanup  and the dispatcher is not about to delete its session   *)
MayLogin(c, id) ==
  /\ Redial # "takeover" =>
        \A d \in Conn \ {c} : who[d] = id => pc[d] = "done"
  /\ Redial = "afterCleanup" => ~ (dmsg.type = "del" /\ dmsg.id = id)

-----------------------------------------------------------------------------
(* ClientProcess: the goroutine of connection c.                           *)

\* CONNECT with good credentials, up to the call of RLock.
ReadConnect(c, id, clean) ==
  /\ pc[c] = "read" /\ link[c]
  /\ who[c] = Nil
  /\ clean \in CleanChoices[id]
  /\ MayLogin(c, id)
  /\ GoTo(c, "rlock")
  /\ who' = [who EXCEPT ![c] = id]
  /\ wantClean' = [wantClean EXCEPT ![c] = clean]
  /\ granted' = IF clean THEN [granted EXCEPT ![id] = {}] ELSE granted
  /\ UNCHANGED <<link, mqttClientData, arg, clientsMap, heapVars, lockVars,
                 dispVars>>

\* CONNECT with bad credentials: CONNACK 4, then the server closes.
Refuse(c) ==
  /\ pc[c] = "read" /\ link[c]
  /\ who[c] = Nil
  /\ link' = [link EXCEPT ![c] = FALSE]
  /\ UNCHANGED <<pc, who, wantClean, mqttClientData, arg, clientsMap,
                 heapVars, lockVars, dispVars, granted>>

\* Slip: every login allocates.
SessionFor_AlwaysNew(c) == c

\* The struct a login works on: the registered one, or a new one.
SessionFor(c) == IF clientsMap[who[c]] # Nil THEN clientsMap[who[c]] ELSE c

\* A waiting writer holds back new readers too.
CanRLock == writer = "free"

\* RLock, then the lookup.
LoginLookup(c) ==
  /\ pc[c] = "rlock"
  /\ CanRLock
  /\ readers' = readers \cup {c}
  /\ GoTo(c, "fill")
  /\ mqttClientData' = [mqttClientData EXCEPT ![c] = SessionFor(c)]
  /\ UNCHANGED <<link, who, wantClean, arg, clientsMap, heapVars, writer,
                 dispVars, granted>>

\* Slip: the client id is not filled in.
LoginFill_NoId(c) ==
  LET r == mqttClientData[c] IN
  /\ pc[c] = "fill"
  /\ GoTo(c, "install")
  /\ LoginSuccess' = [LoginSuccess EXCEPT ![r] = TRUE]
  /\ clearSession' = [clearSession EXCEPT ![r] = wantClean[c]]
  /\ UNCHANGED <<link, who, wantClean, mqttClientData, arg, clientsMap, owner,
                 conn, SubInfo, lockVars, dispVars, granted>>

\* Slip: a struct found in the map is not marked online again.
LoginFill_NotOnline(c) ==
  LET r == mqttClientData[c] IN
  /\ pc[c] = "fill"
  /\ GoTo(c, "install")
  /\ LoginSuccess' = IF r = c THEN [LoginSuccess EXCEPT ![r] = TRUE]
                     ELSE LoginSuccess
  /\ owner' = [owner EXCEPT ![r] = who[c]]
  /\ clearSession' = [clearSession EXCEPT ![r] = wantClean[c]]
  /\ UNCHANGED <<link, who, wantClean, mqttClientData, arg, clientsMap, conn,
                 SubInfo, lockVars, dispVars, granted>>

\* The scalar fields.  Read locks do not exclude each other, so another
\* login of the same client may run between this step and the next.
LoginFill(c) ==
  LET r == mqttClientData[c] IN
  /\ pc[c] = "fill"
  /\ GoTo(c, "install")
  /\ LoginSuccess' = [LoginSuccess EXCEPT ![r] = TRUE]
  /\ owner' = [owner EXCEPT ![r] = who[c]]
  /\ clearSession' = [clearSession EXCEPT ![r] = wantClean[c]]
  /\ UNCHANGED <<link, who, wantClean, mqttClientData, arg, clientsMap, conn,
                 SubInfo, lockVars, dispVars, granted>>

\* Slip: a struct found in the map is not added to it again.
LoginInstall_OnlyNew(c) ==
  /\ pc[c] = "install"
  /\ GoTo(c, IF mqttClientData[c] = c THEN "add" ELSE "read")
  /\ conn' = [conn EXCEPT ![mqttClientData[c]] = c]
  /\ readers' = readers \ {c}
  /\ UNCHANGED <<link, who, wantClean, mqttClientData, arg, clientsMap, owner,
                 LoginSuccess, clearSession, SubInfo, writer, dispVars,
                 granted>>

\* The connection, CONNACK, the queued messages, RUnlock.
LoginInstall(c) ==
  /\ pc[c] = "install"
  /\ GoTo(c, "add")
  /\ conn' = [conn EXCEPT ![mqttClientData[c]] = c]
  /\ readers' = readers \ {c}
  /\ UNCHANGED <<link, who, wantClean, mqttClientData, arg, clientsMap, owner,
                 LoginSuccess, clearSession, SubInfo, writer, dispVars,
                 granted>>

\* Any packet before CONNECT: every other case dereferences the nil pointer.
ReadEarly(c) ==
  /\ pc[c] = "read" /\ link[c]
  /\ mqttClientData[c] = Nil
  /\ Panic
  /\ UNCHANGED <<link, who, wantClean, mqttClientData, arg, clientsMap,
                 heapVars, lockVars, dmsg, granted>>

\* A packet after CONNECT: the pointer is set.
Logged(c) == pc[c] = "read" /\ link[c] /\ mqttClientData[c] # Nil

Disconnect(c) ==
  /\ Logged(c)
  /\ link' = [link EXCEPT ![c] = FALSE]
  /\ UNCHANGED <<pc, who, wantClean, mqttClientData, arg, clientsMap,
                 heapVars, lockVars, dispVars, granted>>

\* SUBSCRIBE; it is ignored (no step) when the shared struct says "offline".
ReadSubscribe(c, topics) ==
  /\ Logged(c)
  /\ LoginSuccess[mqttClientData[c]]
  /\ GoTo(c, "sub")
  /\ arg' = [arg EXCEPT ![c] = topics]
  /\ UNCHANGED <<link, who, wantClean, mqttClientData, clientsMap, heapVars,
                 lockVars, dispVars, granted>>

\* UNSUBSCRIBE: the client gives its subscription up when it asks.
ReadUnsubscribe(c, topics) ==
  /\ Logged(c)
  /\ LoginSuccess[mqttClientData[c]]
  /\ GoTo(c, "unsub")
  /\ arg' = [arg EXCEPT ![c] = topics]
  /\ granted' = [granted EXCEPT ![who[c]] = @ \ topics]
  /\ UNCHANGED <<link, who, wantClean, mqttClientData, clientsMap, heapVars,
                 lockVars, dispVars>>

\* PUBCOMP, the one acknowledgement whose handler trusts the map; nothing
\* is looked up here.
ReadPubComp(c) ==
  /\ Logged(c)
  /\ GoTo(c, "comp")
  /\ UNCHANGED <<link, who, wantClean, mqttClientData, arg, clientsMap,
                 heapVars, lockVars, dispVars, granted>>

\* After the dispatcher took the request: SUBACK, UNSUBACK.
SubAck(c) ==
  /\ pc[c] = "suback"
  /\ GoTo(c, "read")
  /\ arg' = [arg EXCEPT ![c] = {}]
  /\ granted' = [granted EXCEPT ![who[c]] = @ \cup arg[c]]
  /\ UNCHANGED <<link, who, wantClean, mqttClientData, clientsMap, heapVars,
                 lockVars, dispVars>>

UnsubAck(c) ==
  /\ pc[c] = "unsuback"
  /\ GoTo(c, "read")
  /\ arg' = [arg EXCEPT ![c] = {}]
  /\ UNCHANGED <<link, who, wantClean, mqttClientData, clientsMap, heapVars,
                 lockVars, dispVars, granted>>

\* Slip: a read error counts only on the connection the struct holds.
ReadError_OwnConn(c) ==
  /\ pc[c] = "read" /\ ~ link[c]
  /\ mqttClientData[c] # Nil => conn[mqttClientData[c]] = c
  /\ GoTo(c, "exit")
  /\ UNCHANGED <<link, who, wantClean, mqttClientData, arg, clientsMap,
                 heapVars, lockVars, dispVars, granted>>

ReadError(c) ==
  /\ pc[c] = "read" /\ ~ link[c]
  /\ GoTo(c, "exit")
  /\ UNCHANGED <<link, who, wantClean, mqttClientData, arg, clientsMap,
                 heapVars, lockVars, dispVars, granted>>

(* The deferred function.  It dereferences mqttClientData first of all, and *)
(* reads clearSession and writes LoginSuccess without the lock.             *)
ExitPanic(c) ==
  /\ pc[c] = "exit"
  /\ mqttClientData[c] = Nil
  /\ Panic
  /\ UNCHANGED <<link, who, wantClean, mqttClientData, arg, clientsMap,
                 heapVars, lockVars, dmsg, granted>>

ExitClear(c) ==
  LET r == mqttClientData[c] IN
  /\ pc[c] = "exit"
  /\ r # Nil /\ clearSession[r]
  /\ GoTo(c, "del")
  /\ granted' = [granted EXCEPT ![who[c]] = {}]
  /\ UNCHANGED <<link, who, wantClean, mqttClientData, arg, clientsMap,
                 heapVars, lockVars, dispVars>>

\* Slip: the online flag is not reset.
ExitKeep_NoReset(c) ==
  /\ pc[c] = "exit"
  /\ mqttClientData[c] # Nil /\ ~ clearSession[mqttClientData[c]]
  /\ GoTo(c, "done")
  /\ UNCHANGED <<link, who, wantClean, mqttClientData, arg, clientsMap,
                 heapVars, lockVars, dispVars, granted>>

ExitKeep(c) ==
  LET r == mqttClientData[c] IN
  /\ pc[c] = "exit"
  /\ r # Nil /\ ~ clearSession[r]
  /\ GoTo(c, "done")
  /\ LoginSuccess' = [LoginSuccess EXCEPT ![r] = FALSE]
  /\ UNCHANGED <<link, who, wantClean, mqttClientData, arg, clientsMap, owner,
                 clearSession, conn, SubInfo, lockVars, dispVars, granted>>

-----------------------------------------------------------------------------
(* ClientsMsgDispatch and processMsg.                                      *)

\* What goroutine c is sending: MSG_CLIENT_ADD carries the struct, the
\* others the client id the struct holds.
Request(c) ==
  [type   |-> pc[c],
   id     |-> owner[mqttClientData[c]],
   ref    |-> mqttClientData[c],
   topics |-> IF pc[c] \in {"sub", "unsub"} THEN arg[c] ELSE {}]

AfterSend == [add |-> "read", sub |-> "suback", unsub |-> "unsuback",
              comp |-> "read", del |-> "done"]

\* The rendezvous on the unbuffered channel.
DispatchRecv(c) ==
  /\ dpc = "select"
  /\ pc[c] \in Sending
  /\ dmsg' = Request(c)
  /\ dpc' = "lock"
  /\ GoTo(c, AfterSend[pc[c]])
  /\ UNCHANGED <<link, who, wantClean, mqttClientData, arg, clientsMap,
                 heapVars, lockVars, granted>>

\* Lock(): announce the writer, which holds back new readers ...
DispatchLock ==
  /\ dpc = "lock"
  /\ dpc' = "wait"
  /\ writer' = "pending"
  /\ UNCHANGED <<goVars, clientsMap, heapVars, readers, dmsg, granted>>

\* Slip: RLock() in place of Lock(), which lets readers stay.
DispatchLocked_Shared ==
  /\ dpc = "wait"
  /\ dpc' = "process"
  /\ writer' = "held"
  /\ UNCHANGED <<goVars, clientsMap, heapVars, readers, dmsg, granted>>

\* ... and wait for the present ones.
DispatchLocked ==
  /\ dpc = "wait"
  /\ readers = {}
  /\ dpc' = "process"
  /\ writer' = "held"
  /\ UNCHANGED <<goVars, clientsMap, heapVars, readers, dmsg, granted>>

Unlock ==
  /\ dpc' = "select"
  /\ dmsg' = NoMsg
  /\ writer' = "free"
  /\ UNCHANGED readers

\* Slip: a client that is offline by now is not registered.
ProcessAdd_OnlineOnly ==
  /\ dpc = "process" /\ dmsg.type = "add"
  /\ clientsMap' = IF LoginSuccess[dmsg.ref]
                   THEN [clientsMap EXCEPT ![owner[dmsg.ref]] = dmsg.ref]
                   ELSE clientsMap
  /\ dpc' = "cluster"
  /\ UNCHANGED <<goVars, heapVars, lockVars, dmsg, granted>>

\* MSG_CLIENT_ADD: register, then tell the cluster while holding the lock.
ProcessAdd ==
  /\ dpc = "process" /\ dmsg.type = "add"
  /\ clientsMap' = [clientsMap EXCEPT ![owner[dmsg.ref]] = dmsg.ref]
  /\ dpc' = "cluster"
  /\ UNCHANGED <<goVars, heapVars, lockVars, dmsg, granted>>

\* The rendezvous on Cluster_Ch; a send on a nil channel never completes.
ClusterTake ==
  /\ dpc = "cluster"
  /\ ClusterStarted
  /\ Unlock
  /\ UNCHANGED <<goVars, clientsMap, heapVars, granted>>

\* Slip: the entry stays.
ProcessDel_Ignored ==
  /\ dpc = "process" /\ dmsg.type = "del"
  /\ Unlock
  /\ UNCHANGED <<goVars, clientsMap, heapVars, granted>>

ProcessDel ==
  /\ dpc = "process" /\ dmsg.type = "del"
  /\ clientsMap' = [clientsMap EXCEPT ![dmsg.id] = Nil]
  /\ Unlock
  /\ UNCHANGED <<goVars, heapVars, granted>>

\* MSG_CLIENT_SUB and MSG_CLIENT_UNSUB act on the struct the map holds now,
\* which need not be the sender's.
ProcessSub ==
  LET self == clientsMap[dmsg.id] IN
  /\ dpc = "process" /\ dmsg.type = "sub"
  /\ SubInfo' = IF self # Nil
                THEN [SubInfo EXCEPT ![self] = @ \cup dmsg.topics]
                ELSE SubInfo
  /\ Unlock
  /\ UNCHANGED <<goVars, clientsMap, owner, LoginSuccess, clearSession, conn,
                 granted>>

ProcessUnsub ==
  LET self == clientsMap[dmsg.id] IN
  /\ dpc = "process" /\ dmsg.type = "unsub"
  /\ SubInfo' = IF self # Nil
                THEN [SubInfo EXCEPT ![self] = @ \ dmsg.topics]
                ELSE SubInfo
  /\ Unlock
  /\ UNCHANGED <<goVars, clientsMap, owner, LoginSuccess, clearSession, conn,
                 granted>>

\* Slip: a PUBCOMP of an unknown client is tried again.
ProcessComp_Retry ==
  /\ dpc = "process" /\ dmsg.type = "comp"
  /\ IF clientsMap[dmsg.id] = Nil
     THEN dpc' = "lock" /\ writer' = "free" /\ UNCHANGED <<readers, dmsg>>
     ELSE Unlock
  /\ UNCHANGED <<goVars, clientsMap, heapVars, granted>>

\* MSG_CLIENT_PUBCOMP reads self.PubStatus before it looks at ok.
ProcessComp ==
  /\ dpc = "process" /\ dmsg.type = "comp"
  /\ IF clientsMap[dmsg.id] = Nil
     THEN Panic /\ UNCHANGED <<lockVars, dmsg>>
     ELSE Unlock /\ UNCHANGED pc
  /\ UNCHANGED <<link, who, wantClean, mqttClientData, arg, clientsMap,
                 heapVars, granted>>

\* Nothing is left to do once every connection is served or the process died.
Terminated ==
  /\ \/ dpc = "dead"
     \/ dpc = "select" /\ \A c \in Conn : pc[c] = "done"
  /\ UNCHANGED vars

Login(c)      == LoginLookup(c) \/ LoginFill(c) \/ LoginInstall(c)
Exit(c)       == ReadError(c) \/ ExitPanic(c) \/ ExitClear(c) \/ ExitKeep(c)
Acknowledge(c) == SubAck(c) \/ UnsubAck(c)
Process       == ProcessAdd \/ ProcessDel \/ ProcessSub \/ ProcessUnsub
                   \/ ProcessComp
Dispatcher    == DispatchLock \/ DispatchLocked \/ Process \/ ClusterTake

Client(c) ==
  \/ Accept(c) \/ Drop(c) \/ Refuse(c) \/ ReadEarly(c) \/ Disconnect(c)
  \/ ReadPubComp(c)
  \/ \E id \in ClientId, clean \in BOOLEAN : ReadConnect(c, id, clean)
  \/ \E topics \in SUBSET Topic \ {{}} :
        ReadSubscribe(c, topics) \/ ReadUnsubscribe(c, topics)

Next ==
  \/ \E c \in Conn : Client(c) \/ Login(c) \/ Acknowledge(c) \/ Exit(c)
                       \/ DispatchRecv(c)
  \/ Dispatcher
  \/ Terminated

Spec == Init /\ [][Next]_vars

(* Goroutines run.  Senders queue first come first served on a Go channel,  *)
(* and an RWMutex lets the readers it held back in before the next writer,  *)
(* hence strong fairness for both.  Clients owe nothing.                    *)
Fairness ==
  /\ \A c \in Conn :
       /\ WF_vars(LoginFill(c)) /\ WF_vars(LoginInstall(c))
       /\ SF_vars(LoginLookup(c))
       /\ WF_vars(Acknowledge(c)) /\ WF_vars(Exit(c))
       /\ SF_vars(DispatchRecv(c))
  /\ WF_vars(Dispatcher)

FairSpec == Spec /\ Fairness

-----------------------------------------------------------------------------
TypeOK ==
  /\ pc \in [Conn -> PCs]
  /\ link \in [Conn -> BOOLEAN]
  /\ who \in [Conn -> ClientId \cup {Nil}]
  /\ wantClean \in [Conn -> BOOLEAN]
  /\ mqttClientData \in [Conn -> Conn \cup {Nil}]
  /\ arg \in [Conn -> SUBSET Topic]
  /\ clientsMap \in [ClientId -> Conn \cup {Nil}]
  /\ owner \in [Conn -> ClientId \cup {Nil}]
  /\ LoginSuccess \in [Conn -> BOOLEAN]
  /\ clearSession \in [Conn -> BOOLEAN]
  /\ conn \in [Conn -> Conn \cup {Nil}]
  /\ SubInfo \in [Conn -> SUBSET Topic]
  /\ readers \subseteq Conn
  /\ writer \in {"free", "pending", "held"}
  /\ dpc \in DPCs
  /\ dmsg \in Message \cup {NoMsg}
  /\ granted \in [ClientId -> SUBSET Topic]

-----------------------------------------------------------------------------
(* The lock does its job: while the dispatcher holds the write lock for     *)
(* processMsg (and still holds it while it waits for the cluster goroutine) *)
(* no connection is inside the section of CONNECT that fills in a struct.   *)
LoginExcludesProcess ==
  dpc \in {"process", "cluster"} => \A c \in Conn : pc[c] \notin InLogin

(* A session the map shows as online always has a goroutine that will take  *)
(* it offline, or is about to be deleted: whatever order connections of a   *)
(* client log in, share structs and die in, none is left online for good.   *)
NoGhostLogin ==
  \A id \in ClientId :
    LET r == clientsMap[id] IN
    r # Nil /\ LoginSuccess[r] =>
      \/ \E c \in Conn : mqttClientData[c] = r /\ pc[c] # "done"
      \/ dmsg.type = "del" /\ dmsg.id = id

\* Connection c is up, logged in, and its MSG_CLIENT_ADD was processed.
Settled(c) ==
  /\ link[c]
  /\ mqttClientData[c] # Nil
  /\ pc[c] \in {"read", "sub", "unsub", "comp", "suback", "unsuback"}
  /\ ~ (dmsg.type = "add" /\ dmsg.ref = mqttClientData[c] /\ dpc # "cluster")

(* A client whose connection is up and whose login was processed is known   *)
(* to the server under its id, is online there, and its messages go to that *)
(* connection: no late step of an earlier connection took that away.        *)
LiveClientRegistered ==
  \A c \in Conn : Settled(c) =>
    LET r == mqttClientData[c] IN
    /\ clientsMap[who[c]] = r
    /\ LoginSuccess[r]
    /\ conn[r] = c

(* Once SUBACK is written the subscription counts: either it is in the      *)
(* session the map holds, or the dispatcher will store it before it takes   *)
(* any publish; it stays across reconnects until the client gives it up.    *)
GrantedIsStored ==
  \A id \in ClientId : \A t \in granted[id] :
    \/ clientsMap[id] # Nil /\ t \in SubInfo[clientsMap[id]]
    \/ dmsg.type = "sub" /\ dmsg.id = id /\ t \in dmsg.topics

(* A request of a client that logged in finds its session in the map, as    *)
(* the PUBCOMP case of processMsg, which does not look, takes for granted:  *)
(* no DEL of an earlier connection comes between.                           *)
RequestFindsSession ==
  dpc # "dead" /\ dmsg.type \in {"sub", "unsub", "comp"} =>
    clientsMap[dmsg.id] # Nil

(* A login with Cleansession set works on a struct without subscriptions,   *)
(* unless its client once asked for a session to be kept: what a client     *)
(* always wanted deleted never comes back.                                  *)
CleanInheritsKept ==
  \A c \in Conn :
    pc[c] = "add" /\ wantClean[c] /\ SubInfo[mqttClientData[c]] # {} =>
      \E d \in Conn : who[d] = who[c] /\ ~ wantClean[d]

(* "clear session need new client struct" (client_process.go:237): a login  *)
(* with Cleansession set works on a struct without subscriptions.           *)
CleanStart ==
  \A c \in Conn :
    pc[c] = "add" /\ wantClean[c] => SubInfo[mqttClientData[c]] = {}

(* "this clientId have login and not clear session" (client_process.go:233): *)
(* the struct a login finds in the map belongs to a session to be kept.      *)
FoundSessionIsKept ==
  \A c \in Conn :
    pc[c] = "fill" /\ mqttClientData[c] # c =>
      ~ clearSession[mqttClientData[c]]

(* No message and no closing connection brings the process down.            *)
NeverPanics == dpc # "dead"

(* Without a cluster channel the dispatcher never gets past the first login *)
(* it processes: it keeps the lock, so nobody is served and nobody logs in. *)
NoServiceWithoutCluster ==
  [][dpc = "cluster" => UNCHANGED <<dispVars, lockVars, clientsMap>>]_vars

(* Whoever waits for the dispatcher's channel is served.                    *)
Served == \A c \in Conn : pc[c] \in Sending ~> pc[c] \notin Sending

(* An accepted login ends up in the map, although it must get the read lock *)
(* from a dispatcher that keeps taking the write lock.                      *)
LoginRegisters ==
  \A c \in Conn : pc[c] = "rlock" ~>
    \/ mqttClientData[c] # Nil /\ clientsMap[who[c]] = mqttClientData[c]
    \/ dpc = "dead"

(* A connection that is gone is noticed, and its goroutine ends.            *)
GoneIsCleanedUp ==
  \A c \in Conn : who[c] # Nil /\ ~ link[c] ~> pc[c] \in {"done", "dead"}

-----------------------------------------------------------------------------
(* The sessions as a client sees them, see SessionRegistry.                 *)
sessionState ==
  [id \in ClientId |->
     IF clientsMap[id] = Nil THEN "none"
     ELSE IF LoginSuccess[clientsMap[id]] THEN "online" ELSE "offline"]

sessionSubs ==
  [id \in ClientId |->
     IF clientsMap[id] = Nil THEN {} ELSE SubInfo[clientsMap[id]]]

Registry == INSTANCE SessionRegistry WITH state <- sessionState,
                                          subs <- sessionSubs

(* Goroutines, channel and lock together implement the registry.            *)
ImplementsRegistry == Registry!Spec

=============================================================================
