-------------------------- MODULE MessageDispatch --------------------------
(***************************************************************************)
(* What the dispatcher does with messages: QoS 0, 1 and 2 publishes of the *)
(* clients of this server and of its cluster peers, the acknowledgements   *)
(* in both directions, the queue kept for offline clients, packet ids.     *)
(*                                                                         *)
(* All sessions are persistent (Cleansession 0), exist already and have    *)
(* made their subscriptions; ClientSessions models how they come and go.   *)
(* A client has at most one connection at a time here.                     *)
(***************************************************************************)
EXTENDS Naturals, Sequences, FiniteSets

CONSTANTS
  ClientId,
  NumMsg,         \* number of application messages, named 1..NumMsg
  Publisher,      \* Publisher[m]: the client that publishes m, or NoClient
                  \* when m comes from a cluster peer
  NoClient,
  Qos,            \* Qos[m]
  Subscribers,    \* Subscribers[m]: clients whose SubInfo has m's topic
  ServerPid,      \* packet ids GeneralPacketID can return
  ClientPid,      \* packet ids clients use for what they publish
  NoPid,          \* the packet id field of a QoS 0 packet
  OnlineAtStart,  \* clients connected in the initial state
  MaxDrops,       \* bound on lost connections
  MaxRead         \* packets the buffer of one Read holds at most

Msg == 1..NumMsg
Pid == ServerPid \cup ClientPid

ASSUME MessageDispatchAssumption ==
  /\ NumMsg \in Nat
  /\ NoClient \notin ClientId
  /\ Publisher \in [Msg -> ClientId \cup {NoClient}]
  /\ Qos \in [Msg -> 0..2]
  /\ Subscribers \in [Msg -> SUBSET ClientId]
  /\ NoPid \notin Pid
  /\ OnlineAtStart \subseteq ClientId
  /\ MaxDrops \in Nat
  /\ MaxRead \in Nat \ {0}

VARIABLES
  \* MqttClientInfo of each session
  LoginSuccess,
  PubStatus,     \* "none" for an absent key
  CacheMsg,      \* 0 for an absent key
  OfflineMsg,
  \* the goroutine of each connection
  gpc,
  req,           \* the packet it is handling
  \* the dispatcher
  dpc,
  dmsg,          \* the message it is processing
  todo,          \* clients the loop over GloablClientsMap has yet to visit
  write_buf,     \* the buffer the PUBLISH case declares outside the loop
  \* the TCP connections
  link,
  inbox,         \* packets on their way to the client
  outbox,        \* packets on their way to the server
  drops,
  discarded,     \* history: packets of each client read behind another one
  missed,        \* history: messages sent to each client that its
                 \* application was not handed
  \* the clients
  pstate,        \* progress of each message at its publisher
  ppid,          \* the packet id the publisher gave it
  held,          \* QoS 2 ids received and not yet released
  got,           \* messages handed to the application, in order
  \* the cluster
  arrived,       \* messages of peers the dispatcher was given
  forwarded      \* how often a message was sent to the peers

sessVars   == <<LoginSuccess, PubStatus, CacheMsg, OfflineMsg>>
goVars     == <<gpc, req>>
dispVars   == <<dpc, dmsg, todo, write_buf>>
netVars    == <<link, inbox, outbox, drops, discarded, missed>>
clientVars == <<pstate, ppid, held, got>>
vars       == <<sessVars, goVars, dispVars, netVars, clientVars, arrived,
                forwarded>>

Acks    == {"PUBACK", "PUBREC", "PUBREL", "PUBCOMP"}
Status  == Acks \cup {"none"}
Packet  == [type : Acks \cup {"PUBLISH"}, pid : Pid \cup {NoPid},
            msg : Msg \cup {0}]
Queued  == [msg : Msg, pid : Pid]
Request == [type : Acks \cup {"PUBLISH", "CLUSTER", "none"},
            from : ClientId \cup {NoClient}, pid : Pid \cup {NoPid},
            msg : Msg \cup {0}]

NoReq == [type |-> "none", from |-> NoClient, pid |-> NoPid, msg |-> 0]

Publish(m, pid) == [type |-> "PUBLISH", pid |-> pid, msg |-> m]
Ack(type, pid)  == [type |-> type, pid |-> pid, msg |-> 0]
NoPacket        == Ack("PUBACK", NoPid)

Init ==
  /\ LoginSuccess = [s \in ClientId |-> s \in OnlineAtStart]
  /\ PubStatus = [s \in ClientId |-> [id \in Pid |-> "none"]]
  /\ CacheMsg = [s \in ClientId |-> [id \in Pid |-> 0]]
  /\ OfflineMsg = [s \in ClientId |-> <<>>]
  /\ gpc = [s \in ClientId |-> IF s \in OnlineAtStart THEN "read" ELSE "off"]
  /\ req = [s \in ClientId |-> NoPacket]
  /\ dpc = "select"
  /\ dmsg = NoReq
  /\ todo = {}
  /\ write_buf = <<>>
  /\ link = [s \in ClientId |-> s \in OnlineAtStart]
  /\ inbox = [s \in ClientId |-> <<>>]
  /\ outbox = [s \in ClientId |-> <<>>]
  /\ drops = 0
  /\ discarded = [s \in ClientId |-> {}]
  /\ missed = [s \in ClientId |-> {}]
  /\ pstate = [m \in Msg |-> "idle"]
  /\ ppid = [m \in Msg |-> NoPid]
  /\ held = [s \in ClientId |-> {}]
  /\ got = [s \in ClientId |-> <<>>]
  /\ arrived = {}
  /\ forwarded = [m \in Msg |-> 0]

-----------------------------------------------------------------------------
(* The clients: MQTT 3.1.1 publishers and subscribers (external).          *)

Send(s, packet) == outbox' = [outbox EXCEPT ![s] = Append(@, packet)]

\* Messages of s that are on their way and use id.
InFlight(s, id) ==
  {m \in Msg : Publisher[m] = s /\ ppid[m] = id
                 /\ pstate[m] \in {"sent", "released"}}

\* Each client publishes its messages in ascending order.
ClientPublish(s, m, id) ==
  /\ link[s]
  /\ Publisher[m] = s
  /\ pstate[m] = "idle"
  /\ \A n \in Msg : n < m /\ Publisher[n] = s => pstate[n] # "idle"
  /\ IF Qos[m] = 0 THEN id = NoPid
     ELSE id \in ClientPid /\ InFlight(s, id) = {}
  /\ Send(s, Publish(m, id))
  /\ pstate' = [pstate EXCEPT ![m] = IF Qos[m] = 0 THEN "done" ELSE "sent"]
  /\ ppid' = [ppid EXCEPT ![m] = id]
  /\ UNCHANGED <<sessVars, goVars, dispVars, link, inbox, drops, discarded,
                 missed, held, got, arrived, forwarded>>

Consume(s) == inbox' = [inbox EXCEPT ![s] = Tail(@)]

Arriving(s, type) == inbox[s] # <<>> /\ Head(inbox[s]).type = type

\* A subscriber gets a PUBLISH; it takes one under a QoS 2 id it still
\* holds for a duplicate.
ClientReceive(s) ==
  LET p == Head(inbox[s])
      new == Qos[p.msg] = 2 => p.pid \notin held[s]
  IN
  /\ Arriving(s, "PUBLISH")
  /\ Consume(s)
  /\ got' = IF new THEN [got EXCEPT ![s] = Append(@, p.msg)] ELSE got
  /\ held' = IF Qos[p.msg] = 2 THEN [held EXCEPT ![s] = @ \cup {p.pid}]
             ELSE held
  /\ missed' = IF new THEN missed ELSE [missed EXCEPT ![s] = @ \cup {p.msg}]
  /\ CASE Qos[p.msg] = 0 -> UNCHANGED outbox
       [] Qos[p.msg] = 1 -> Send(s, Ack("PUBACK", p.pid))
       [] Qos[p.msg] = 2 -> Send(s, Ack("PUBREC", p.pid))
  /\ UNCHANGED <<sessVars, goVars, dispVars, link, drops, discarded, pstate,
                 ppid, arrived, forwarded>>

ClientReleased(s) ==
  LET p == Head(inbox[s]) IN
  /\ Arriving(s, "PUBREL")
  /\ Consume(s)
  /\ held' = [held EXCEPT ![s] = @ \ {p.pid}]
  /\ Send(s, Ack("PUBCOMP", p.pid))
  /\ UNCHANGED <<sessVars, goVars, dispVars, link, drops, discarded, missed,
                 pstate, ppid, got, arrived, forwarded>>

\* A publisher gets PUBREC and releases; the packet id names the message.
ClientPubRec(s) ==
  LET p == Head(inbox[s])
      ms == {m \in InFlight(s, p.pid) : Qos[m] = 2}
  IN
  /\ Arriving(s, "PUBREC")
  /\ Consume(s)
  /\ pstate' = [m \in Msg |-> IF m \in ms THEN "released" ELSE pstate[m]]
  /\ Send(s, Ack("PUBREL", p.pid))
  /\ UNCHANGED <<sessVars, goVars, dispVars, link, drops, discarded, missed,
                 ppid, held, got, arrived, forwarded>>

ClientPubDone(s) ==
  LET p == Head(inbox[s])
      ms == {m \in InFlight(s, p.pid) :
               \/ p.type = "PUBACK" /\ Qos[m] = 1
               \/ p.type = "PUBCOMP" /\ pstate[m] = "released"}
  IN
  /\ Arriving(s, "PUBACK") \/ Arriving(s, "PUBCOMP")
  /\ Consume(s)
  /\ pstate' = [m \in Msg |-> IF m \in ms THEN "done" ELSE pstate[m]]
  /\ UNCHANGED <<sessVars, goVars, dispVars, link, outbox, drops, discarded,
                 missed, ppid, held, got, arrived, forwarded>>

\* What a client sends again after it reconnected ...
Unfinished(s) ==
  {m \in Msg : Publisher[m] = s /\ pstate[m] \in {"sent", "released"}}

\* ... in the order it published it.
Again(s) ==
  {q \in [1..Cardinality(Unfinished(s)) -> Unfinished(s)] :
     \A i, j \in DOMAIN q : i < j => q[i] < q[j]}

Resend(m) == IF pstate[m] = "sent" THEN Publish(m, ppid[m])
             ELSE Ack("PUBREL", ppid[m])

\* The messages among some packets.
Carried(packets) ==
  {packets[i].msg : i \in {j \in DOMAIN packets :
                               packets[j].type = "PUBLISH"}}

\* The connection is lost, with what is on its way in either direction.
Drop(s) ==
  /\ link[s]
  /\ drops < MaxDrops
  /\ drops' = drops + 1
  /\ link' = [link EXCEPT ![s] = FALSE]
  /\ inbox' = [inbox EXCEPT ![s] = <<>>]
  /\ outbox' = [outbox EXCEPT ![s] = <<>>]
  /\ missed' = [missed EXCEPT ![s] = @ \cup Carried(inbox[s])]
  /\ UNCHANGED <<sessVars, goVars, dispVars, discarded, clientVars, arrived,
                 forwarded>>

-----------------------------------------------------------------------------
(* ClientProcess: the goroutine of the connection of s.                    *)

\* Slip: the queue is emptied before it is sent.
Flushed_Empty(s) == <<>>

\* Slip: queued QoS 2 messages are sent without an entry in PubStatus.
Awaited_None(s) == {}

\* The packets for what was queued, and the ids PUBREC is expected for.
Flushed(s) == [i \in DOMAIN OfflineMsg[s] |->
                 Publish(OfflineMsg[s][i].msg, OfflineMsg[s][i].pid)]

Awaited(s) == {q.pid : q \in {OfflineMsg[s][i] : i \in
                 {j \in DOMAIN OfflineMsg[s] : Qos[OfflineMsg[s][j].msg] = 2}}}

\* CONNECT, in one step: the read lock keeps the dispatcher out of it.  The
\* queued messages go out first; only QoS 2 ones are entered in PubStatus.
Connect(s) ==
  /\ gpc[s] = "off"
  /\ dpc # "loop"
  /\ gpc' = [gpc EXCEPT ![s] = "read"]
  /\ link' = [link EXCEPT ![s] = TRUE]
  /\ LoginSuccess' = [LoginSuccess EXCEPT ![s] = TRUE]
  /\ inbox' = [inbox EXCEPT ![s] = Flushed(s)]
  /\ PubStatus' = [PubStatus EXCEPT ![s] =
       [id \in Pid |-> IF id \in Awaited(s) THEN "PUBREC" ELSE @[id]]]
  /\ OfflineMsg' = [OfflineMsg EXCEPT ![s] = <<>>]
  /\ \E again \in Again(s) :
       outbox' = [outbox EXCEPT ![s] =
                    [i \in DOMAIN again |-> Resend(again[i])]]
  /\ UNCHANGED <<CacheMsg, req, dispVars, drops, discarded, missed,
                 clientVars, arrived, forwarded>>

\* One Read returns what has arrived, one packet or several; only the first
\* is looked at, whatever follows it in the buffer is gone.
Read(s) ==
  /\ gpc[s] = "read" /\ link[s]
  /\ \E n \in DOMAIN outbox[s] :
       /\ n <= MaxRead
       /\ req' = [req EXCEPT ![s] = outbox[s][1]]
       /\ discarded' = [discarded EXCEPT ![s] =
                          @ \cup {outbox[s][i] : i \in 2..n}]
       /\ outbox' = [outbox EXCEPT ![s] = SubSeq(@, n + 1, Len(@))]
  /\ gpc' = [gpc EXCEPT ![s] = "send"]
  /\ UNCHANGED <<sessVars, dispVars, link, inbox, drops, missed, clientVars,
                 arrived, forwarded>>

\* conn.Write: a lost connection swallows the packets, errors are ignored.
Write(s, packets) ==
  /\ inbox' = IF link[s] THEN [inbox EXCEPT ![s] = @ \o packets] ELSE inbox
  /\ missed' = IF link[s] THEN missed
               ELSE [missed EXCEPT ![s] = @ \cup Carried(packets)]

\* ProcessPublish after the dispatcher took the message: acknowledge, and
\* hand QoS 0 and 1 to the cluster goroutine.
AckPublish(s) ==
  LET p == req[s] IN
  /\ gpc[s] = "ack"
  /\ gpc' = [gpc EXCEPT ![s] = "read"]
  /\ req' = [req EXCEPT ![s] = NoPacket]
  /\ CASE Qos[p.msg] = 0 -> UNCHANGED <<inbox, missed>>
       [] Qos[p.msg] = 1 -> Write(s, <<Ack("PUBACK", p.pid)>>)
       [] Qos[p.msg] = 2 -> Write(s, <<Ack("PUBREC", p.pid)>>)
  /\ forwarded' = IF Qos[p.msg] < 2 THEN [forwarded EXCEPT ![p.msg] = @ + 1]
                  ELSE forwarded
  /\ UNCHANGED <<sessVars, dispVars, link, outbox, drops, discarded,
                 clientVars, arrived>>

\* Read fails; the deferred function marks the session offline, no lock held.
Exit(s) ==
  /\ gpc[s] = "read" /\ ~ link[s]
  /\ gpc' = [gpc EXCEPT ![s] = "off"]
  /\ LoginSuccess' = [LoginSuccess EXCEPT ![s] = FALSE]
  /\ UNCHANGED <<PubStatus, CacheMsg, OfflineMsg, req, dispVars, netVars,
                 clientVars, arrived, forwarded>>

-----------------------------------------------------------------------------
(* ClientsMsgDispatch and processMsg.                                      *)

\* The rendezvous with a connection goroutine.
DispatchRecv(s) ==
  /\ dpc = "select"
  /\ gpc[s] = "send"
  /\ dmsg' = [type |-> req[s].type, from |-> s, pid |-> req[s].pid,
              msg |-> req[s].msg]
  /\ dpc' = "lock"
  /\ IF req[s].type = "PUBLISH"
     THEN gpc' = [gpc EXCEPT ![s] = "ack"] /\ UNCHANGED req
     ELSE /\ gpc' = [gpc EXCEPT ![s] = "read"]
          /\ req' = [req EXCEPT ![s] = NoPacket]
  /\ UNCHANGED <<sessVars, todo, write_buf, netVars, clientVars, arrived,
                 forwarded>>

\* The rendezvous with the goroutine that reads the cluster socket.
ClusterRecv(m) ==
  /\ dpc = "select"
  /\ Publisher[m] = NoClient
  /\ m \notin arrived
  /\ arrived' = arrived \cup {m}
  /\ dmsg' = [NoReq EXCEPT !.type = "CLUSTER", !.msg = m]
  /\ dpc' = "lock"
  /\ UNCHANGED <<sessVars, goVars, todo, write_buf, netVars, clientVars,
                 forwarded>>

Unlock ==
  /\ dpc' = "select"
  /\ dmsg' = NoReq
  /\ todo' = {}
  /\ write_buf' = <<>>

\* Start the loop over the clients for message m.
Loop(m) ==
  /\ dpc' = "loop"
  /\ dmsg' = [dmsg EXCEPT !.msg = m]
  /\ todo' = Subscribers[m]
  /\ write_buf' = <<>>

Processing(type) == dpc = "lock" /\ dmsg.type = type

SetStatus(s, id, status) ==
  PubStatus' = [PubStatus EXCEPT ![s][id] = status]

\* MSG_CLIENT_PUBLISH: a QoS 2 message is kept until it is released.
BeginPublish ==
  LET s == dmsg.from  id == dmsg.pid  m == dmsg.msg IN
  /\ Processing("PUBLISH")
  /\ IF Qos[m] = 2
     THEN /\ SetStatus(s, id, "PUBREL")
          /\ CacheMsg' = [CacheMsg EXCEPT ![s][id] = m]
     ELSE UNCHANGED <<PubStatus, CacheMsg>>
  /\ Loop(m)
  /\ UNCHANGED <<LoginSuccess, OfflineMsg, goVars, netVars, clientVars,
                 arrived, forwarded>>

\* MSG_CLUSTER_PUBLISH
BeginCluster ==
  /\ Processing("CLUSTER")
  /\ Loop(dmsg.msg)
  /\ UNCHANGED <<sessVars, goVars, netVars, clientVars, arrived, forwarded>>

\* Slip: the status stays, so a repeated PUBREL releases again.
Complete_KeepStatus(s, id) ==
  UNCHANGED PubStatus /\ Write(s, <<Ack("PUBCOMP", id)>>)

\* Slip: the status is set to NONE and not deleted.
Complete_LeavesNone(s, id) ==
  SetStatus(s, id, "NONE") /\ Write(s, <<Ack("PUBCOMP", id)>>)

\* Slip: no PUBCOMP.
Complete_Silent(s, id) ==
  SetStatus(s, id, "none") /\ UNCHANGED <<inbox, missed>>

Complete(s, id) ==
  SetStatus(s, id, "none") /\ Write(s, <<Ack("PUBCOMP", id)>>)

\* MSG_CLIENT_PUBREL in the expected status: PUBCOMP, then release.
BeginRelease ==
  LET s == dmsg.from  id == dmsg.pid IN
  /\ Processing("PUBREL")
  /\ PubStatus[s][id] = "PUBREL"
  /\ Complete(s, id)
  /\ IF CacheMsg[s][id] # 0 THEN Loop(CacheMsg[s][id]) ELSE Unlock
  /\ UNCHANGED <<LoginSuccess, CacheMsg, OfflineMsg, goVars, link, outbox,
                 drops, discarded, clientVars, arrived, forwarded>>

\* Slip: the id is not given back.
ProcessPubAck_KeepId ==
  /\ Processing("PUBACK")
  /\ PubStatus[dmsg.from][dmsg.pid] = "PUBACK"
  /\ Unlock
  /\ UNCHANGED <<sessVars, goVars, netVars, clientVars, arrived, forwarded>>

ProcessPubAck ==
  LET s == dmsg.from  id == dmsg.pid IN
  /\ Processing("PUBACK")
  /\ PubStatus[s][id] = "PUBACK"
  /\ SetStatus(s, id, "none")
  /\ Unlock
  /\ UNCHANGED <<LoginSuccess, CacheMsg, OfflineMsg, goVars, netVars,
                 clientVars, arrived, forwarded>>

ProcessPubRec ==
  LET s == dmsg.from  id == dmsg.pid IN
  /\ Processing("PUBREC")
  /\ PubStatus[s][id] = "PUBREC"
  /\ SetStatus(s, id, "PUBCOMP")
  /\ Write(s, <<Ack("PUBREL", id)>>)
  /\ Unlock
  /\ UNCHANGED <<LoginSuccess, CacheMsg, OfflineMsg, goVars, link, outbox,
                 drops, discarded, clientVars, arrived, forwarded>>

ProcessPubComp ==
  LET s == dmsg.from  id == dmsg.pid IN
  /\ Processing("PUBCOMP")
  /\ PubStatus[s][id] = "PUBCOMP"
  /\ SetStatus(s, id, "none")
  /\ CacheMsg' = [CacheMsg EXCEPT ![s][id] = 0]
  /\ Unlock
  /\ UNCHANGED <<LoginSuccess, OfflineMsg, goVars, netVars, clientVars,
                 arrived, forwarded>>

\* An acknowledgement the status does not call for is dropped.
DropAck ==
  /\ dpc = "lock" /\ dmsg.type \in Acks
  /\ PubStatus[dmsg.from][dmsg.pid] # dmsg.type
  /\ Unlock
  /\ UNCHANGED <<sessVars, goVars, netVars, clientVars, arrived, forwarded>>

\* Slip: the loop returns an id it finds in PubStatus.
FreeId_Taken(s, id) == PubStatus[s][id] # "none"

\* GeneralUniquePacketId draws until the id is free, at every client.
FreeId(s, id) == PubStatus[s][id] = "none"

Visiting(s, id) ==
  /\ dpc = "loop"
  /\ s \in todo
  /\ id \in ServerPid /\ FreeId(s, id)
  /\ todo' = todo \ {s}

\* An id in use is drawn: the loop in GeneralUniquePacketId draws again.
DrawAgain(s, id) ==
  /\ dpc = "loop"
  /\ s \in todo
  /\ id \in ServerPid /\ ~ FreeId(s, id)
  /\ UNCHANGED vars

\* Slip: the newest message goes to the front of the queue.
Enqueue_Front(s, m, id) ==
  OfflineMsg' = [OfflineMsg EXCEPT ![s] = <<[msg |-> m, pid |-> id]>> \o @]

Enqueue(s, m, id) ==
  OfflineMsg' = [OfflineMsg EXCEPT ![s] = Append(@, [msg |-> m, pid |-> id])]

WireId(m, id) == IF Qos[m] = 0 THEN NoPid ELSE id

\* The buffer the PUBLISH case writes to the next client: it is declared
\* before the loop, so the packets for earlier clients are still in it.
PublishBuffer(m, id) == Append(write_buf, Publish(m, WireId(m, id)))

\* Slip: QoS 2 is passed on at once.
SentNow_AnyQos(s, m) == LoginSuccess[s]

SentNow(s, m) == LoginSuccess[s] /\ Qos[m] < 2

\* The loop of MSG_CLIENT_PUBLISH; QoS 2 waits for the release.
VisitPublish(s, id) ==
  LET m == dmsg.msg IN
  /\ dmsg.type = "PUBLISH"
  /\ Visiting(s, id)
  /\ IF SentNow(s, m)
     THEN /\ write_buf' = PublishBuffer(m, id)
          /\ Write(s, PublishBuffer(m, id))
          /\ IF Qos[m] = 1 THEN SetStatus(s, id, "PUBACK")
             ELSE UNCHANGED PubStatus
     ELSE UNCHANGED <<write_buf, inbox, missed, PubStatus>>
  /\ IF ~ LoginSuccess[s] /\ Qos[m] = 1 THEN Enqueue(s, m, id)
     ELSE UNCHANGED OfflineMsg
  /\ UNCHANGED <<LoginSuccess, CacheMsg, goVars, dpc, dmsg, link, outbox,
                 drops, discarded, clientVars, arrived, forwarded>>

\* Slip: off by one.
KeptOffline_OnlyQos2(m) == Qos[m] > 1

KeptOffline(m) == Qos[m] >= 1

\* The loops of MSG_CLIENT_PUBREL and MSG_CLUSTER_PUBLISH: a buffer per client.
VisitRelease(s, id) ==
  LET m == dmsg.msg IN
  /\ dmsg.type \in {"PUBREL", "CLUSTER"}
  /\ Visiting(s, id)
  /\ IF LoginSuccess[s]
     THEN /\ Write(s, <<Publish(m, WireId(m, id))>>)
          /\ CASE Qos[m] = 0 -> UNCHANGED PubStatus
               [] Qos[m] = 1 -> SetStatus(s, id, "PUBACK")
               [] Qos[m] = 2 -> SetStatus(s, id, "PUBREC")
          /\ CacheMsg' = IF Qos[m] = 2 THEN [CacheMsg EXCEPT ![s][id] = m]
                         ELSE CacheMsg
          /\ UNCHANGED OfflineMsg
     ELSE /\ IF KeptOffline(m) THEN Enqueue(s, m, id) ELSE UNCHANGED OfflineMsg
          /\ UNCHANGED <<PubStatus, CacheMsg, inbox, missed>>
  /\ UNCHANGED <<LoginSuccess, goVars, dpc, dmsg, write_buf, link, outbox,
                 drops, discarded, clientVars, arrived, forwarded>>

\* The loop is over; a released message goes to the cluster goroutine.
EndLoop ==
  /\ dpc = "loop"
  /\ todo = {}
  /\ forwarded' = IF dmsg.type = "PUBREL"
                  THEN [forwarded EXCEPT ![dmsg.msg] = @ + 1] ELSE forwarded
  /\ Unlock
  /\ UNCHANGED <<sessVars, goVars, netVars, clientVars, arrived>>

Client(s) ==
  \/ ClientReceive(s) \/ ClientReleased(s) \/ ClientPubRec(s)
  \/ ClientPubDone(s)

Goroutine(s) == Read(s) \/ AckPublish(s) \/ Exit(s)

Dispatcher ==
  \/ BeginPublish \/ BeginCluster \/ BeginRelease
  \/ ProcessPubAck \/ ProcessPubRec \/ ProcessPubComp \/ DropAck
  \/ \E s \in ClientId, id \in ServerPid :
        VisitPublish(s, id) \/ VisitRelease(s, id) \/ DrawAgain(s, id)
  \/ EndLoop

\* Nothing is on its way anywhere.
Quiet ==
  /\ dpc = "select"
  /\ \A s \in ClientId : /\ gpc[s] \in {"read", "off"}
                         /\ inbox[s] = <<>> /\ outbox[s] = <<>>

Idle == Quiet /\ (\A s \in ClientId : link[s]) /\ UNCHANGED vars

Next ==
  \/ \E s \in ClientId :
       \/ Client(s) \/ Goroutine(s) \/ Connect(s) \/ DispatchRecv(s)
       \/ Drop(s)
       \/ \E m \in Msg, id \in ClientPid \cup {NoPid} : ClientPublish(s, m, id)
  \/ \E m \in Msg : ClusterRecv(m)
  \/ Dispatcher
  \/ Idle

Spec == Init /\ [][Next]_vars

(* Goroutines run, connections deliver, clients answer what they receive    *)
(* and reconnect; senders on a Go channel are served in order.  Nobody has  *)
(* to publish.                                                              *)
Fairness ==
  /\ \A s \in ClientId :
       /\ WF_vars(Client(s)) /\ WF_vars(Goroutine(s))
       /\ SF_vars(Connect(s)) /\ SF_vars(DispatchRecv(s))
  /\ WF_vars(Dispatcher)

FairSpec == Spec /\ Fairness

-----------------------------------------------------------------------------
TypeOK ==
  /\ LoginSuccess \in [ClientId -> BOOLEAN]
  /\ PubStatus \in [ClientId -> [Pid -> Status]]
  /\ CacheMsg \in [ClientId -> [Pid -> Msg \cup {0}]]
  /\ OfflineMsg \in [ClientId -> Seq(Queued)]
  /\ gpc \in [ClientId -> {"off", "read", "send", "ack"}]
  /\ req \in [ClientId -> Packet]
  /\ dpc \in {"select", "lock", "loop"}
  /\ dmsg \in Request
  /\ todo \subseteq ClientId
  /\ write_buf \in Seq(Packet)
  /\ link \in [ClientId -> BOOLEAN]
  /\ inbox \in [ClientId -> Seq(Packet)]
  /\ outbox \in [ClientId -> Seq(Packet)]
  /\ drops \in 0..MaxDrops
  /\ discarded \in [ClientId -> SUBSET Packet]
  /\ missed \in [ClientId -> SUBSET Msg]
  /\ pstate \in [Msg -> {"idle", "sent", "released", "done"}]
  /\ ppid \in [Msg -> Pid \cup {NoPid}]
  /\ held \in [ClientId -> SUBSET Pid]
  /\ got \in [ClientId -> Seq(Msg)]
  /\ arrived \subseteq Msg
  /\ forwarded \in [Msg -> Nat]

-----------------------------------------------------------------------------
Times(s, m) == Cardinality({i \in DOMAIN got[s] : got[s][i] = m})

\* m is on its way to s, or already there.
InInbox(s, m) ==
  \E i \in DOMAIN inbox[s] :
    inbox[s][i].type = "PUBLISH" /\ inbox[s][i].msg = m

(* QoS 2 is exactly once at most, whatever is lost and sent again: no       *)
(* client is handed a message twice and the peers get it once.              *)
ExactlyOnce ==
  \A m \in Msg : Qos[m] = 2 =>
    forwarded[m] <= 1 /\ \A s \in ClientId : Times(s, m) <= 1

(* A QoS 2 message stays in CacheMsg until its publisher releases it: no    *)
(* subscriber and no peer sees it before.                                   *)
NoEarlyRelease ==
  \A m \in Msg : Publisher[m] # NoClient /\ Qos[m] = 2
                  /\ pstate[m] \in {"idle", "sent"} =>
    forwarded[m] = 0 /\ \A s \in ClientId : Times(s, m) = 0 /\ ~ InInbox(s, m)

\* A Read of the server dropped an answer of s, the PUBLISH of m, or the
\* PUBREL for it.
Dropped(s, type, id) == \E p \in discarded[s] : p.type = type /\ p.pid = id

PublishDropped(m) ==
  /\ Publisher[m] # NoClient
  /\ \E p \in discarded[Publisher[m]] : p.type = "PUBLISH" /\ p.msg = m

ReleaseDropped(m) ==
  /\ Publisher[m] # NoClient /\ Qos[m] = 2 /\ pstate[m] # "idle"
  /\ Dropped(Publisher[m], "PUBREL", ppid[m])

(* Messages of one publisher and one QoS reach a subscriber in the order    *)
(* they were published, be it from the wire or from the offline queue; what *)
(* comes late was dropped by a Read first, and sent again.                  *)
InOrder ==
  \A s \in ClientId : \A i, j \in DOMAIN got[s] :
    LET m == got[s][i]  n == got[s][j] IN
    i < j /\ Publisher[m] = Publisher[n] /\ Qos[m] = Qos[n]
      /\ Publisher[m] # NoClient =>
        m <= n \/ PublishDropped(n) \/ ReleaseDropped(n)

\* The dispatcher has m in hand and has yet to visit s.
BeingDispatched(s, m) ==
  /\ dmsg.msg = m
  /\ dpc = "lock" \/ (dpc = "loop" /\ s \in todo)

Waiting(s, m) ==
  \/ InInbox(s, m)
  \/ \E i \in DOMAIN OfflineMsg[s] : OfflineMsg[s][i].msg = m
  \/ BeingDispatched(s, m)

(* Once its publisher has the final acknowledgement (which may be written   *)
(* before the message is dispatched), the server owes a message to every    *)
(* subscriber: it was delivered, or is on its way, or waits for the client, *)
(* or it was sent and a lost connection or the client itself dropped it.    *)
AcknowledgedIsNotLost ==
  \A m \in Msg : Qos[m] > 0 /\ pstate[m] = "done" =>
    \A s \in Subscribers[m] :
      Times(s, m) > 0 \/ Waiting(s, m) \/ m \in missed[s]

(* The same without an exception.  It does not hold: nothing is sent again  *)
(* after a loss, and two messages queued under one id are one to the client.*)
AcknowledgedArrives ==
  \A m \in Msg : Qos[m] > 0 /\ pstate[m] = "done" =>
    \A s \in Subscribers[m] : Times(s, m) > 0 \/ Waiting(s, m)

(* As long as no connection is lost, nothing is left over without a reason  *)
(* once nothing is on its way: each flow ran to its end at the publisher,   *)
(* at the server and at the subscriber, unless a Read dropped the very      *)
(* packet that it waits for.                                                *)
QuietIsClean ==
  Quiet =>
    /\ \A s \in ClientId, id \in Pid :
         /\ PubStatus[s][id] # "none" => Dropped(s, PubStatus[s][id], id)
         /\ id \in held[s] => Dropped(s, "PUBREC", id)
    /\ \A m \in Msg :
         /\ pstate[m] = "sent" => PublishDropped(m)
         /\ pstate[m] = "released" => ReleaseDropped(m)

(* The server awaits the PUBREC of every QoS 2 message it sent, however the *)
(* message was sent: live, from the offline queue, or from a peer.          *)
EveryPublishIsAwaited ==
  \A s \in ClientId : \A i \in DOMAIN inbox[s] :
    LET p == inbox[s][i] IN
    p.type = "PUBLISH" /\ Qos[p.msg] = 2 =>
      PubStatus[s][p.pid] \in {"PUBREC", "PUBCOMP"}

(* The packet id of a QoS 1 message on its way was made for this client by  *)
(* GeneralUniquePacketId and entered in its PubStatus ("generate packet id  *)
(* by server to provice different packet id for each client").              *)
IdIsOfThisClient ==
  \A s \in ClientId : \A i \in DOMAIN inbox[s] :
    LET p == inbox[s][i] IN
    p.type = "PUBLISH" /\ Qos[p.msg] = 1 => PubStatus[s][p.pid] = "PUBACK"

(* CacheMsg holds "not process complete msg for qos2" only.                 *)
CacheIsUnfinished ==
  \A s \in ClientId, id \in Pid : CacheMsg[s][id] # 0 =>
    \/ PubStatus[s][id] # "none"
    \/ dpc = "loop" /\ dmsg.from = s /\ dmsg.pid = id

(* What a client publishes under an id of its own does not disturb the flow *)
(* in which the server sends to that client under an id of the server's.    *)
OutgoingFlowKept ==
  [][\A s \in ClientId, id \in Pid :
       PubStatus[s][id] \in {"PUBACK", "PUBREC", "PUBCOMP"} =>
         PubStatus'[s][id] # "PUBREL"]_vars

(* The dispatcher finishes every message it takes: it finds an id for every *)
(* subscriber.                                                              *)
DispatcherReturns == dpc # "select" ~> dpc = "select"

(* A publisher that asked for an acknowledgement gets the final one, unless *)
(* a Read drops its PUBLISH or its PUBREL.                                  *)
FlowsComplete ==
  \A m \in Msg :
    pstate[m] = "sent" ~>
      pstate[m] = "done" \/ PublishDropped(m) \/ ReleaseDropped(m)

(* What was acknowledged, or came from a peer, is handed to every           *)
(* subscriber, once it is online if it was not.                             *)
Delivered ==
  \A m \in Msg : Qos[m] > 0 =>
    \A s \in Subscribers[m] :
      pstate[m] = "done" \/ m \in arrived ~> Times(s, m) > 0

=============================================================================
