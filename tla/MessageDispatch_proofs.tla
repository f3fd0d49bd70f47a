----------------------- MODULE MessageDispatch_proofs ----------------------
(***************************************************************************)
(* For any clients, messages, packet ids and lost connections: the types   *)
(* of MessageDispatch, and that a QoS 2 message is released only after its *)
(* publisher did, and handed on once.                                      *)
(***************************************************************************)
EXTENDS MessageDispatch, FiniteSetTheorems, SequenceTheorems, TLAPS

-----------------------------------------------------------------------------
(* The inductive invariant.                                                 *)

\* Packets as they are written: what needs an id has one.
Wire ==
  {p \in Packet : IF p.type = "PUBLISH"
                  THEN p.msg \in Msg /\ (Qos[p.msg] > 0 => p.pid \in Pid)
                  ELSE p.pid \in Pid}

SessTypes ==
  /\ LoginSuccess \in [ClientId -> BOOLEAN]
  /\ PubStatus \in [ClientId -> [Pid -> Status]]
  /\ CacheMsg \in [ClientId -> [Pid -> Msg \cup {0}]]
  /\ OfflineMsg \in [ClientId -> Seq(Queued)]

\* What the PUBLISH case has in its buffer.
Buffered == {p \in Wire : p.type = "PUBLISH" /\ Qos[p.msg] < 2}

\* A goroutine past Read has a packet in hand ...
GoTypes ==
  /\ gpc \in [ClientId -> {"off", "read", "send", "ack"}]
  /\ req \in [ClientId -> Packet]
  /\ \A s \in ClientId :
       /\ gpc[s] \in {"send", "ack"} => req[s] \in Wire
       /\ gpc[s] = "ack" => req[s].type = "PUBLISH"

\* ... the dispatcher past its select a message.
DispTypes ==
  /\ dpc \in {"select", "lock", "loop"}
  /\ dmsg \in Request
  /\ todo \subseteq ClientId
  /\ write_buf \in Seq(Buffered)
  /\ dpc = "lock" => dmsg.type # "none"
  /\ dpc = "loop" =>
       dmsg.type \in {"PUBLISH", "PUBREL", "CLUSTER"} /\ dmsg.msg \in Msg
  /\ dpc # "select" =>
       IF dmsg.type = "CLUSTER" THEN dmsg.msg \in Msg
       ELSE dmsg.from \in ClientId
  /\ dpc = "lock" /\ dmsg.type # "CLUSTER" =>
       [type |-> dmsg.type, pid |-> dmsg.pid, msg |-> dmsg.msg] \in Wire

NetTypes ==
  /\ link \in [ClientId -> BOOLEAN]
  /\ inbox \in [ClientId -> Seq(Wire)]
  /\ outbox \in [ClientId -> Seq(Wire)]
  /\ drops \in 0..MaxDrops

ClientTypes ==
  /\ pstate \in [Msg -> {"idle", "sent", "released", "done"}]
  /\ ppid \in [Msg -> Pid \cup {NoPid}]
  /\ \A m \in Msg : pstate[m] \in {"sent", "released"} => ppid[m] \in Pid
  /\ held \in [ClientId -> SUBSET Pid]
  /\ got \in [ClientId -> Seq(Msg)]

RestTypes ==
  /\ arrived \subseteq Msg
  /\ forwarded \in [Msg -> Nat]

TypeInv ==
  /\ SessTypes /\ GoTypes /\ DispTypes
  /\ NetTypes /\ ClientTypes /\ RestTypes

\* A PUBLISH of QoS 2, as its publisher sends it.
IsPublish2(p) == p.type = "PUBLISH" /\ Qos[p.msg] = 2
IsPubrel(p, id) == p.type = "PUBREL" /\ p.pid = id
IsPubrec(p, id) == p.type = "PUBREC" /\ p.pid = id

\* What a client publishes at a time has different ids.
IdsInv ==
  \A m, n \in Msg :
    /\ Publisher[m] = Publisher[n] /\ ppid[m] = ppid[n]
    /\ {pstate[m], pstate[n]} \subseteq {"sent", "released"}
    => m = n

\* p is a PUBLISH of s.
Published(s, p) == Publisher[p.msg] = s /\ ppid[p.msg] = p.pid

\* A PUBLISH is on its way before the PUBREC for it is, and that before the
\* PUBREL; each is on its way once only.
OutboxInv ==
  \A s \in ClientId : \A i \in DOMAIN outbox[s] :
    IsPublish2(outbox[s][i]) =>
      LET p == outbox[s][i] IN
      /\ Published(s, p) /\ pstate[p.msg] = "sent"
      /\ \A j \in DOMAIN outbox[s] :
           /\ j > i => ~ IsPubrel(outbox[s][j], p.pid)
           /\ IsPublish2(outbox[s][j]) /\ outbox[s][j].pid = p.pid => j = i
      /\ \A k \in DOMAIN inbox[s] : ~ IsPubrec(inbox[s][k], p.pid)

RequestInv ==
  \A s \in ClientId :
    gpc[s] \in {"send", "ack"} /\ IsPublish2(req[s]) =>
      LET p == req[s] IN
      /\ Published(s, p) /\ pstate[p.msg] = "sent"
      /\ \A j \in DOMAIN outbox[s] :
           /\ ~ IsPubrel(outbox[s][j], p.pid)
           /\ ~ (IsPublish2(outbox[s][j]) /\ outbox[s][j].pid = p.pid)
      /\ \A k \in DOMAIN inbox[s] : ~ IsPubrec(inbox[s][k], p.pid)

PubrecInv ==
  \A s \in ClientId : \A k \in DOMAIN inbox[s] :
    inbox[s][k].type = "PUBREC" =>
      /\ \A l \in DOMAIN inbox[s] :
           IsPubrec(inbox[s][l], inbox[s][k].pid) => l = k
      /\ \E m \in Msg : /\ Publisher[m] = s /\ ppid[m] = inbox[s][k].pid
                        /\ Qos[m] = 2 /\ pstate[m] = "sent"

\* No PUBREL with the id is on its way to the dispatcher.
NoPubrelAhead(s, id) ==
  /\ \A j \in DOMAIN outbox[s] : ~ IsPubrel(outbox[s][j], id)
  /\ gpc[s] = "send" => ~ IsPubrel(req[s], id)

\* In the dispatcher's hand, and in CacheMsg: a message not released by its
\* publisher has no PUBREL behind it.
DispatchInv ==
  dpc = "lock" /\ IsPublish2(dmsg) =>
    /\ Published(dmsg.from, dmsg) /\ pstate[dmsg.msg] # "idle"
    /\ pstate[dmsg.msg] = "sent" => NoPubrelAhead(dmsg.from, dmsg.pid)

CacheInv ==
  \A s \in ClientId, id \in Pid : PubStatus[s][id] = "PUBREL" =>
    LET m == CacheMsg[s][id] IN
    /\ m \in Msg /\ Qos[m] = 2
    /\ Publisher[m] = s /\ ppid[m] = id /\ pstate[m] # "idle"
    /\ pstate[m] = "sent" =>
         /\ NoPubrelAhead(s, id)
         /\ ~ (dpc = "lock" /\ dmsg.from = s /\ IsPubrel(dmsg, id))

FlowInv ==
  /\ IdsInv /\ OutboxInv /\ RequestInv /\ PubrecInv /\ DispatchInv /\ CacheInv

\* Where copies of m for s are, and that no place has two.
InGot(s, m)   == \E i \in DOMAIN got[s] : got[s][i] = m
InQueue(s, m) == \E i \in DOMAIN OfflineMsg[s] : OfflineMsg[s][i].msg = m

OneGot(s, m) ==
  \A i, j \in DOMAIN got[s] : got[s][i] = m /\ got[s][j] = m => i = j
OneInbox(s, m) ==
  \A i, j \in DOMAIN inbox[s] :
    /\ inbox[s][i].type = "PUBLISH" /\ inbox[s][i].msg = m
    /\ inbox[s][j].type = "PUBLISH" /\ inbox[s][j].msg = m
    => i = j
OneQueue(s, m) ==
  \A i, j \in DOMAIN OfflineMsg[s] :
    OfflineMsg[s][i].msg = m /\ OfflineMsg[s][j].msg = m => i = j

Nowhere(s, m) == ~ InGot(s, m) /\ ~ InInbox(s, m) /\ ~ InQueue(s, m)

Releasing(m) ==
  dpc = "loop" /\ dmsg.type \in {"PUBREL", "CLUSTER"} /\ dmsg.msg = m

\* m has reached nobody.
Fresh(m) ==
  /\ forwarded[m] = 0
  /\ \A s \in ClientId : Nowhere(s, m)
  /\ ~ Releasing(m)

\* m has yet to be released: its publisher has not, or the dispatcher has not.
Unreleased(m) ==
  \/ Publisher[m] = NoClient /\ m \notin arrived
  \/ /\ Publisher[m] # NoClient
     /\ \/ pstate[m] \in {"idle", "sent"}
        \/ dpc = "lock" /\ dmsg.type = "PUBLISH" /\ dmsg.msg = m
        \/ \E id \in Pid : /\ PubStatus[Publisher[m]][id] = "PUBREL"
                           /\ CacheMsg[Publisher[m]][id] = m
  \/ dpc = "lock" /\ dmsg.type = "CLUSTER" /\ dmsg.msg = m

FreshInv == \A m \in Msg : Qos[m] = 2 /\ Unreleased(m) => Fresh(m)

\* One copy of m at most is anywhere on its way to s.
CopyInv ==
  \A m \in Msg, s \in ClientId : Qos[m] = 2 =>
    /\ OneGot(s, m) /\ OneInbox(s, m) /\ OneQueue(s, m)
    /\ ~ (InGot(s, m) /\ InInbox(s, m))
    /\ ~ (InGot(s, m) /\ InQueue(s, m))
    /\ ~ (InInbox(s, m) /\ InQueue(s, m))
    /\ Releasing(m) /\ s \in todo => Nowhere(s, m)

\* The peers get what the dispatcher releases, when its loop is over.
ForwardInv ==
  \A m \in Msg : Qos[m] = 2 =>
    /\ forwarded[m] <= 1
    /\ Releasing(m) => forwarded[m] = 0

\* What the dispatcher releases is a client's, what it has from a peer is not.
HandInv ==
  /\ dpc = "loop" /\ dmsg.type = "PUBREL" =>
       Publisher[dmsg.msg] # NoClient /\ Qos[dmsg.msg] = 2
  /\ dpc # "select" /\ dmsg.type = "CLUSTER" =>
       Publisher[dmsg.msg] = NoClient /\ dmsg.msg \in arrived

DeliveryInv == FreshInv /\ CopyInv /\ ForwardInv /\ HandInv
-----------------------------------------------------------------------------
(* Types.                                                                   *)

(* Messages are natural numbers above 0, the mark of an empty entry.        *)
LEMMA MsgFacts ==
  /\ Msg \subseteq Nat /\ 0 \notin Msg
  /\ \A m \in Msg : Qos[m] \in 0..2
  /\ \A m \in Msg : Subscribers[m] \subseteq ClientId
  /\ NoPid \notin Pid /\ ServerPid \subseteq Pid /\ ClientPid \subseteq Pid
  BY MessageDispatchAssumption DEF Msg, Pid

(* What the models write are packets.                                       *)
LEMMA PacketFacts ==
  /\ Wire \subseteq Packet
  /\ \A m \in Msg, id \in Pid \cup {NoPid} :
       (Qos[m] > 0 => id \in Pid) => Publish(m, id) \in Wire
  /\ \A type \in Acks, id \in Pid : Ack(type, id) \in Wire
  /\ NoPacket \in Packet
  BY MsgFacts DEF Wire, Packet, Publish, Ack, Acks, NoPacket

(* Packets sent to the server, and packets it writes, are packets.          *)
LEMMA SendTypes ==
  ASSUME NetTypes, NEW s \in ClientId, NEW p \in Wire, Send(s, p)
  PROVE  outbox' \in [ClientId -> Seq(Wire)]
  BY DEF NetTypes, Send

LEMMA WriteTypes ==
  ASSUME NetTypes, NEW s \in ClientId, NEW ps \in Seq(Wire), Write(s, ps)
  PROVE  inbox' \in [ClientId -> Seq(Wire)]
<1>1. inbox[s] \o ps \in Seq(Wire)
  BY DEF NetTypes
<1> QED
  BY <1>1 DEF NetTypes, Write

LEMMA ConsumeTypes ==
  ASSUME NetTypes, NEW s \in ClientId, inbox[s] # <<>>
  PROVE  /\ Head(inbox[s]) \in Wire
         /\ Consume(s) => inbox' \in [ClientId -> Seq(Wire)]
<1>1. Head(inbox[s]) \in Wire /\ Tail(inbox[s]) \in Seq(Wire)
  BY HeadTailProperties DEF NetTypes
<1> QED
  BY <1>1 DEF NetTypes, Consume

(* The initial states are typed.                                            *)
LEMMA TypeInit == Init => TypeInv
<1> SUFFICES ASSUME Init PROVE TypeInv
  OBVIOUS
<1> USE MsgFacts, PacketFacts, MessageDispatchAssumption DEF Init
<1>1. SessTypes
  BY DEF SessTypes, Status
<1>2. GoTypes
  BY DEF GoTypes
<1>3. DispTypes
  BY DEF DispTypes, NoReq, Request
<1>4. NetTypes
  BY DEF NetTypes
<1>5. ClientTypes
  BY DEF ClientTypes
<1>6. RestTypes
  BY DEF RestTypes
<1> QED
  BY <1>1, <1>2, <1>3, <1>4, <1>5, <1>6 DEF TypeInv

(* The clients keep the types.                                              *)
LEMMA TypeClient ==
  ASSUME TypeInv, NEW s \in ClientId,
         \/ Client(s) \/ Drop(s)
         \/ \E m \in Msg, id \in ClientPid \cup {NoPid} :
              ClientPublish(s, m, id)
  PROVE  TypeInv'
<1> USE MsgFacts, PacketFacts DEF TypeInv
<1>1. ASSUME NEW m \in Msg, NEW id \in ClientPid \cup {NoPid},
             ClientPublish(s, m, id)
      PROVE  TypeInv'
  <2>1. Publish(m, id) \in Wire /\ (Qos[m] > 0 => id \in Pid)
    BY <1>1 DEF ClientPublish
  <2>2. NetTypes'
    BY <1>1, <2>1, SendTypes DEF ClientPublish, NetTypes
  <2>3. ClientTypes'
    BY <1>1, <2>1 DEF ClientPublish, ClientTypes
  <2> QED
    BY <1>1, <2>2, <2>3 DEF ClientPublish, SessTypes, GoTypes, DispTypes,
       RestTypes, sessVars, goVars, dispVars
<1>2. CASE ClientReceive(s)
  <2> DEFINE p == Head(inbox[s])
  <2>1. p \in Wire /\ p.msg \in Msg /\ p.type = "PUBLISH"
    BY <1>2, ConsumeTypes DEF ClientReceive, Arriving, Wire
  <2>1a. Qos[p.msg] = 0 \/ Qos[p.msg] = 1 \/ Qos[p.msg] = 2
    <3>1. Qos[p.msg] \in 0..2
      BY <2>1
    <3> QED
      BY <3>1
  <2>2. Qos[p.msg] > 0 => p.pid \in Pid
    BY <2>1 DEF Wire
  <2>3. outbox' \in [ClientId -> Seq(Wire)]
    <3>1. CASE Qos[p.msg] = 0
      BY <1>2, <3>1 DEF ClientReceive, NetTypes
    <3>2. CASE Qos[p.msg] = 1
      <4>1. Send(s, Ack("PUBACK", p.pid)) /\ Ack("PUBACK", p.pid) \in Wire
        BY <1>2, <2>2, <3>2 DEF ClientReceive, Acks
      <4> QED
        BY <4>1, SendTypes
    <3>3. CASE Qos[p.msg] = 2
      <4>1. Send(s, Ack("PUBREC", p.pid)) /\ Ack("PUBREC", p.pid) \in Wire
        BY <1>2, <2>2, <3>3 DEF ClientReceive, Acks
      <4> QED
        BY <4>1, SendTypes
    <3> QED
      BY <2>1a, <3>1, <3>2, <3>3
  <2>4. NetTypes'
    BY <1>2, <2>3, ConsumeTypes DEF ClientReceive, Arriving, NetTypes
  <2>5. ClientTypes'
    BY <1>2, <2>1, <2>2 DEF ClientReceive, ClientTypes
  <2> QED
    BY <1>2, <2>4, <2>5 DEF ClientReceive, SessTypes, GoTypes, DispTypes,
       RestTypes, sessVars, goVars, dispVars
<1>3. CASE ClientReleased(s) \/ ClientPubRec(s)
  <2> DEFINE p == Head(inbox[s])
  <2>1. /\ p \in Wire /\ p.pid \in Pid
        /\ inbox' \in [ClientId -> Seq(Wire)]
    BY <1>3, ConsumeTypes DEF ClientReleased, ClientPubRec, Arriving, Wire
  <2>2. outbox' \in [ClientId -> Seq(Wire)]
    <3>1. PICK type \in Acks : Send(s, Ack(type, p.pid))
      BY <1>3 DEF ClientReleased, ClientPubRec, Acks
    <3> QED
      BY <2>1, <3>1, SendTypes
  <2>3. NetTypes'
    BY <1>3, <2>1, <2>2 DEF ClientReleased, ClientPubRec, NetTypes
  <2>4. ClientTypes'
    <3>1. CASE ClientReleased(s)
      BY <2>1, <3>1 DEF ClientReleased, ClientTypes
    <3>2. CASE ClientPubRec(s)
      BY <2>1, <3>2 DEF ClientPubRec, ClientTypes, InFlight
    <3> QED
      BY <1>3, <3>1, <3>2
  <2> QED
    BY <1>3, <2>3, <2>4 DEF ClientReleased, ClientPubRec, SessTypes, GoTypes,
       DispTypes, RestTypes, sessVars, goVars, dispVars
<1>4. CASE ClientPubDone(s)
  <2>1. NetTypes'
    BY <1>4, ConsumeTypes DEF ClientPubDone, Arriving, NetTypes
  <2>2. ClientTypes'
    BY <1>4 DEF ClientPubDone, ClientTypes
  <2> QED
    BY <1>4, <2>1, <2>2 DEF ClientPubDone, SessTypes, GoTypes, DispTypes,
       RestTypes, sessVars, goVars, dispVars
<1>5. CASE Drop(s)
  <2>1. NetTypes'
    BY <1>5, MessageDispatchAssumption DEF Drop, NetTypes
  <2> QED
    BY <1>5, <2>1 DEF Drop, SessTypes, GoTypes, DispTypes, ClientTypes,
       RestTypes, sessVars, goVars, dispVars, clientVars
<1> QED
  BY <1>1, <1>2, <1>3, <1>4, <1>5 DEF Client

(* A client that reconnects sends again what is on its way of its own.      *)
LEMMA AgainFacts ==
  ASSUME NEW s, NEW q \in Again(s)
  PROVE  /\ \E n \in Nat : q \in [1..n -> Unfinished(s)]
         /\ \A i \in DOMAIN q : q[i] \in Unfinished(s)
         /\ \A i, j \in DOMAIN q : i < j => q[i] < q[j]
<1>1. IsFiniteSet(Unfinished(s))
  <2>1. IsFiniteSet(Msg) /\ Unfinished(s) \subseteq Msg
    BY FS_Interval, MessageDispatchAssumption DEF Msg, Unfinished
  <2> QED
    BY <2>1, FS_Subset
<1>2. Cardinality(Unfinished(s)) \in Nat
  BY <1>1, FS_CardinalityType
<1> QED
  BY <1>2 DEF Again

(* What is sent on a new connection, in either direction.                   *)
LEMMA ConnectTypes ==
  ASSUME TypeInv, NEW s \in ClientId
  PROVE  /\ Flushed(s) \in Seq(Wire)
         /\ \A q \in Again(s) : [i \in DOMAIN q |-> Resend(q[i])] \in Seq(Wire)
<1> USE MsgFacts, PacketFacts DEF TypeInv
<1>1. Flushed(s) \in Seq(Wire)
  <2>1. OfflineMsg[s] \in Seq(Queued)
    BY DEF SessTypes
  <2>2. \A i \in 1..Len(OfflineMsg[s]) :
          Publish(OfflineMsg[s][i].msg, OfflineMsg[s][i].pid) \in Wire
    <3>1. \A i \in 1..Len(OfflineMsg[s]) : OfflineMsg[s][i] \in Queued
      BY <2>1
    <3>2. \A q \in Queued : q.msg \in Msg /\ q.pid \in Pid
      BY DEF Queued
    <3> QED
      BY <3>1, <3>2
  <2>3. Flushed(s) \in [1..Len(OfflineMsg[s]) -> Wire]
    BY <2>1, <2>2 DEF Flushed
  <2> QED
    BY <2>1, <2>3
<1>2. ASSUME NEW q \in Again(s)
      PROVE  [i \in DOMAIN q |-> Resend(q[i])] \in Seq(Wire)
  <2>1. PICK n \in Nat : q \in [1..n -> Unfinished(s)]
    BY AgainFacts
  <2>2. \A m \in Unfinished(s) : Resend(m) \in Wire
    BY DEF Unfinished, Resend, ClientTypes, Acks
  <2>3. [i \in DOMAIN q |-> Resend(q[i])] \in [1..n -> Wire]
    BY <2>1, <2>2
  <2> QED
    BY <2>3
<1> QED
  BY <1>1, <1>2

(* The connections' goroutines keep the types.                              *)
LEMMA TypeGoroutine ==
  ASSUME TypeInv, NEW s \in ClientId,
         Goroutine(s) \/ Connect(s) \/ DispatchRecv(s)
  PROVE  TypeInv'
<1> USE MsgFacts, PacketFacts DEF TypeInv
<1>1. CASE Connect(s)
  <2>1. NetTypes'
    BY <1>1, ConnectTypes DEF Connect, NetTypes
  <2>2. SessTypes'
    BY <1>1 DEF Connect, SessTypes, Status, Acks
  <2>3. GoTypes'
    BY <1>1 DEF Connect, GoTypes
  <2> QED
    BY <1>1, <2>1, <2>2, <2>3 DEF Connect, DispTypes, ClientTypes, RestTypes,
       dispVars, clientVars
<1>2. CASE Read(s)
  <2>1. PICK n \in DOMAIN outbox[s] :
          /\ req' = [req EXCEPT ![s] = outbox[s][1]]
          /\ outbox' = [outbox EXCEPT ![s] = SubSeq(@, n + 1, Len(@))]
    BY <1>2 DEF Read
  <2>2. outbox[s] \in Seq(Wire) /\ Len(outbox[s]) \in Nat
        /\ n \in 1..Len(outbox[s])
    BY <2>1 DEF NetTypes
  <2>5. outbox[s][1] \in Wire
    BY <2>2
  <2>6. \A i \in (n + 1)..Len(outbox[s]) : outbox[s][i] \in Wire
    BY <2>2
  <2>7. SubSeq(outbox[s], n + 1, Len(outbox[s])) \in Seq(Wire)
    BY <2>2, <2>6, SubSeqProperties
  <2>3. NetTypes'
    BY <1>2, <2>1, <2>7 DEF Read, NetTypes
  <2>4. GoTypes'
    BY <1>2, <2>1, <2>5 DEF Read, GoTypes
  <2> QED
    BY <1>2, <2>3, <2>4 DEF Read, SessTypes, DispTypes, ClientTypes, RestTypes,
       sessVars, dispVars, clientVars
<1>3. CASE AckPublish(s)
  <2> DEFINE p == req[s]
  <2>1. p \in Wire /\ p.msg \in Msg
    BY <1>3 DEF AckPublish, GoTypes, Wire
  <2>2. Qos[p.msg] \in 0..2 /\ (Qos[p.msg] > 0 => p.pid \in Pid)
    BY <1>3, <2>1 DEF AckPublish, GoTypes, Wire
  <2>3. Qos[p.msg] = 0 \/ Qos[p.msg] = 1 \/ Qos[p.msg] = 2
    BY <2>2
  <2>4. inbox' \in [ClientId -> Seq(Wire)]
    <3>1. CASE Qos[p.msg] = 0
      BY <1>3, <3>1 DEF AckPublish, NetTypes
    <3>2. CASE Qos[p.msg] = 1
      <4>1. /\ Write(s, <<Ack("PUBACK", p.pid)>>)
            /\ <<Ack("PUBACK", p.pid)>> \in Seq(Wire)
        BY <1>3, <2>2, <3>2 DEF AckPublish, Acks
      <4> QED
        BY <4>1, WriteTypes
    <3>3. CASE Qos[p.msg] = 2
      <4>1. /\ Write(s, <<Ack("PUBREC", p.pid)>>)
            /\ <<Ack("PUBREC", p.pid)>> \in Seq(Wire)
        BY <1>3, <2>2, <3>3 DEF AckPublish, Acks
      <4> QED
        BY <4>1, WriteTypes
    <3> QED
      BY <2>3, <3>1, <3>2, <3>3
  <2>5. NetTypes'
    BY <1>3, <2>4 DEF AckPublish, NetTypes
  <2>6. GoTypes'
    BY <1>3 DEF AckPublish, GoTypes
  <2>7. RestTypes'
    BY <1>3, <2>1 DEF AckPublish, RestTypes
  <2> QED
    BY <1>3, <2>5, <2>6, <2>7 DEF AckPublish, SessTypes, DispTypes,
       ClientTypes, sessVars, dispVars, clientVars
<1>4. CASE Exit(s)
  BY <1>4 DEF Exit, SessTypes, GoTypes, DispTypes, NetTypes, ClientTypes,
     RestTypes, dispVars, netVars, clientVars
<1>5. CASE DispatchRecv(s)
  <2>1. req[s] \in Wire /\ dmsg' = [type |-> req[s].type, from |-> s,
                                    pid |-> req[s].pid, msg |-> req[s].msg]
    BY <1>5 DEF DispatchRecv, GoTypes
  <2>2. req[s] = [type |-> req[s].type, pid |-> req[s].pid, msg |-> req[s].msg]
    BY <2>1 DEF Wire, Packet
  <2>3. /\ req[s].type \in Acks \cup {"PUBLISH"} /\ req[s].msg \in Msg \cup {0}
        /\ req[s].pid \in Pid \cup {NoPid}
    BY <2>1 DEF Wire, Packet
  <2>4. DispTypes'
    BY <1>5, <2>1, <2>2, <2>3 DEF DispatchRecv, DispTypes, Request, Acks
  <2>5. GoTypes'
    BY <1>5 DEF DispatchRecv, GoTypes
  <2> QED
    BY <1>5, <2>4, <2>5 DEF DispatchRecv, SessTypes, NetTypes, ClientTypes,
       RestTypes, sessVars, netVars, clientVars
<1> QED
  BY <1>1, <1>2, <1>3, <1>4, <1>5 DEF Goroutine

(* Messages the dispatcher begins to work on, and ends with.                *)
LEMMA UnlockTypes ==
  ASSUME TypeInv, Unlock
  PROVE  DispTypes'
  BY DEF Unlock, DispTypes, NoReq, Request, TypeInv

LEMMA LoopTypes ==
  ASSUME TypeInv, dpc = "lock", dmsg.type \in {"PUBLISH", "PUBREL", "CLUSTER"},
         NEW m \in Msg, Loop(m)
  PROVE  DispTypes'
<1>1. dmsg' \in Request /\ dmsg'.type = dmsg.type /\ dmsg'.from = dmsg.from
      /\ dmsg'.msg = m
  BY DEF Loop, DispTypes, Request, TypeInv
<1> QED
  BY <1>1, MsgFacts DEF Loop, DispTypes, TypeInv

(* What the dispatcher has in hand, by type.                                *)
LEMMA HandFacts ==
  ASSUME TypeInv, dpc = "lock"
  PROVE  /\ dmsg.type \in Acks \cup {"PUBLISH", "CLUSTER"}
         /\ dmsg.type # "CLUSTER" => dmsg.from \in ClientId
         /\ dmsg.type \in {"PUBLISH", "CLUSTER"} => dmsg.msg \in Msg
         /\ dmsg.type \in Acks => dmsg.pid \in Pid
         /\ dmsg.type = "PUBLISH" /\ Qos[dmsg.msg] > 0 => dmsg.pid \in Pid
<1>1. dmsg.type # "CLUSTER" =>
        [type |-> dmsg.type, pid |-> dmsg.pid, msg |-> dmsg.msg] \in Wire
  BY DEF TypeInv, DispTypes
<1>2. dmsg.type \in Acks \cup {"PUBLISH", "CLUSTER"}
  BY DEF TypeInv, DispTypes, Request
<1> QED
  BY <1>1, <1>2 DEF TypeInv, DispTypes, Wire, Acks

LEMMA StatusTypes ==
  ASSUME SessTypes, NEW s \in ClientId, NEW id \in Pid,
         NEW status \in Status, SetStatus(s, id, status)
  PROVE  PubStatus' \in [ClientId -> [Pid -> Status]]
  BY DEF SessTypes, SetStatus

LEMMA CacheTypes ==
  ASSUME SessTypes, NEW s \in ClientId, NEW id \in Pid,
         NEW m \in Msg \cup {0},
         CacheMsg' = CacheMsg \/ CacheMsg' = [CacheMsg EXCEPT ![s][id] = m]
  PROVE  CacheMsg' \in [ClientId -> [Pid -> Msg \cup {0}]]
<1>1. CASE CacheMsg' = CacheMsg
  BY <1>1 DEF SessTypes
<1>2. CASE CacheMsg' = [CacheMsg EXCEPT ![s][id] = m]
  <2>1. [CacheMsg[s] EXCEPT ![id] = m] \in [Pid -> Msg \cup {0}]
    BY DEF SessTypes
  <2> QED
    BY <1>2, <2>1 DEF SessTypes
<1> QED
  BY <1>1, <1>2

LEMMA EnqueueTypes ==
  ASSUME SessTypes, NEW s \in ClientId, NEW m \in Msg, NEW id \in Pid,
         Enqueue(s, m, id)
  PROVE  OfflineMsg' \in [ClientId -> Seq(Queued)]
<1>1. [msg |-> m, pid |-> id] \in Queued
  BY DEF Queued
<1> QED
  BY <1>1 DEF SessTypes, Enqueue

(* The dispatcher keeps the types: what it takes and the acknowledgements.  *)
LEMMA TypeAcks ==
  ASSUME TypeInv,
         \/ \E m \in Msg : ClusterRecv(m)
         \/ BeginPublish \/ BeginCluster \/ BeginRelease
         \/ ProcessPubAck \/ ProcessPubRec \/ ProcessPubComp \/ DropAck
         \/ EndLoop
  PROVE  TypeInv'
<1> USE MsgFacts, PacketFacts DEF TypeInv, Processing
<1>1. ASSUME NEW m \in Msg, ClusterRecv(m) PROVE TypeInv'
  <2>1. DispTypes'
    BY <1>1 DEF ClusterRecv, DispTypes, NoReq, Request
  <2> QED
    BY <1>1, <2>1 DEF ClusterRecv, SessTypes, GoTypes, NetTypes, ClientTypes,
       RestTypes, sessVars, goVars, netVars, clientVars
<1>2. CASE BeginPublish
  <2>1. DispTypes'
    BY <1>2, HandFacts, LoopTypes DEF BeginPublish
  <2>2. SessTypes'
    <3>1. CASE Qos[dmsg.msg] = 2
      <4>1. dmsg.from \in ClientId /\ dmsg.msg \in Msg /\ dmsg.pid \in Pid
        BY <1>2, <3>1, HandFacts DEF BeginPublish
      <4>2. PubStatus' \in [ClientId -> [Pid -> Status]]
        BY <1>2, <3>1, <4>1, StatusTypes DEF BeginPublish, Status, Acks
      <4>3. CacheMsg' = [CacheMsg EXCEPT ![dmsg.from][dmsg.pid] = dmsg.msg]
        BY <1>2, <3>1 DEF BeginPublish
      <4> QED
        BY <1>2, <4>1, <4>2, <4>3 DEF BeginPublish, SessTypes
    <3>2. CASE Qos[dmsg.msg] # 2
      BY <1>2, <3>2 DEF BeginPublish, SessTypes
    <3> QED
      BY <3>1, <3>2
  <2> QED
    BY <1>2, <2>1, <2>2 DEF BeginPublish, GoTypes, NetTypes, ClientTypes,
       RestTypes, goVars, netVars, clientVars
<1>3. CASE BeginCluster
  <2>1. DispTypes'
    BY <1>3, HandFacts, LoopTypes DEF BeginCluster
  <2> QED
    BY <1>3, <2>1 DEF BeginCluster, SessTypes, GoTypes, NetTypes, ClientTypes,
       RestTypes, sessVars, goVars, netVars, clientVars
<1>4. CASE BeginRelease
  <2> DEFINE s == dmsg.from
             id == dmsg.pid
  <2>1. s \in ClientId /\ id \in Pid /\ CacheMsg[s][id] \in Msg \cup {0}
    BY <1>4, HandFacts DEF BeginRelease, Acks, SessTypes
  <2>2. PubStatus' \in [ClientId -> [Pid -> Status]]
    BY <1>4, <2>1, StatusTypes DEF BeginRelease, Complete, Status
  <2>3. inbox' \in [ClientId -> Seq(Wire)]
    <3>1. <<Ack("PUBCOMP", id)>> \in Seq(Wire)
      BY <2>1 DEF Acks
    <3>2. Write(s, <<Ack("PUBCOMP", id)>>)
      BY <1>4 DEF BeginRelease, Complete
    <3> QED
      BY <2>1, <3>1, <3>2, WriteTypes
  <2>4. DispTypes'
    <3>1. CASE CacheMsg[s][id] # 0
      BY <1>4, <2>1, <3>1, LoopTypes DEF BeginRelease
    <3>2. CASE CacheMsg[s][id] = 0
      BY <1>4, <3>2, UnlockTypes DEF BeginRelease
    <3> QED
      BY <3>1, <3>2
  <2> QED
    BY <1>4, <2>2, <2>3, <2>4 DEF BeginRelease, SessTypes, GoTypes, NetTypes,
       ClientTypes, RestTypes, goVars, clientVars
<1>5. CASE ProcessPubAck \/ ProcessPubComp
  <2> DEFINE s == dmsg.from
             id == dmsg.pid
  <2>1. s \in ClientId /\ id \in Pid
    BY <1>5, HandFacts DEF ProcessPubAck, ProcessPubComp, Acks
  <2>2. PubStatus' \in [ClientId -> [Pid -> Status]]
    BY <1>5, <2>1, StatusTypes DEF ProcessPubAck, ProcessPubComp, Status
  <2>3. SessTypes'
    <3>1. CASE ProcessPubAck
      BY <2>2, <3>1 DEF ProcessPubAck, SessTypes
    <3>2. CASE ProcessPubComp
      BY <2>1, <2>2, <3>2 DEF ProcessPubComp, SessTypes
    <3> QED
      BY <1>5, <3>1, <3>2
  <2>4. DispTypes'
    BY <1>5, UnlockTypes DEF ProcessPubAck, ProcessPubComp
  <2> QED
    BY <1>5, <2>3, <2>4 DEF ProcessPubAck, ProcessPubComp, GoTypes, NetTypes,
       ClientTypes, RestTypes, goVars, netVars, clientVars
<1>6. CASE ProcessPubRec
  <2> DEFINE s == dmsg.from
             id == dmsg.pid
  <2>1. s \in ClientId /\ id \in Pid
    BY <1>6, HandFacts DEF ProcessPubRec, Acks
  <2>2. PubStatus' \in [ClientId -> [Pid -> Status]]
    BY <1>6, <2>1, StatusTypes DEF ProcessPubRec, Status, Acks
  <2>3. inbox' \in [ClientId -> Seq(Wire)]
    <3>1. <<Ack("PUBREL", id)>> \in Seq(Wire)
      BY <2>1 DEF Acks
    <3> QED
      BY <1>6, <2>1, <3>1, WriteTypes DEF ProcessPubRec
  <2>4. DispTypes'
    BY <1>6, UnlockTypes DEF ProcessPubRec
  <2> QED
    BY <1>6, <2>2, <2>3, <2>4 DEF ProcessPubRec, SessTypes, GoTypes, NetTypes,
       ClientTypes, RestTypes, goVars, clientVars
<1>7. CASE DropAck
  <2>1. DispTypes'
    BY <1>7, UnlockTypes DEF DropAck
  <2> QED
    BY <1>7, <2>1 DEF DropAck, SessTypes, GoTypes, NetTypes, ClientTypes,
       RestTypes, sessVars, goVars, netVars, clientVars
<1>8. CASE EndLoop
  <2>1. DispTypes'
    BY <1>8, UnlockTypes DEF EndLoop
  <2>2. RestTypes'
    <3>1. dmsg.msg \in Msg /\ arrived' = arrived
      BY <1>8 DEF EndLoop, DispTypes
    <3>2. \/ forwarded' = forwarded
          \/ forwarded' = [forwarded EXCEPT ![dmsg.msg] = @ + 1]
      BY <1>8 DEF EndLoop
    <3> QED
      BY <3>1, <3>2 DEF RestTypes
  <2> QED
    BY <1>8, <2>1, <2>2 DEF EndLoop, SessTypes, GoTypes, NetTypes,
       ClientTypes, sessVars, goVars, netVars, clientVars
<1> QED
  BY <1>1, <1>2, <1>3, <1>4, <1>5, <1>6, <1>7, <1>8

(* The dispatcher keeps the types: one turn of its loop.                    *)
LEMMA TypeVisit ==
  ASSUME TypeInv, NEW s \in ClientId, NEW id \in ServerPid,
         VisitPublish(s, id) \/ VisitRelease(s, id)
  PROVE  TypeInv'
<1> DEFINE m == dmsg.msg
<1> USE MsgFacts, PacketFacts DEF TypeInv, Visiting
<1>1. m \in Msg /\ id \in Pid /\ dpc = "loop" /\ todo' \subseteq todo
  BY DEF VisitPublish, VisitRelease, DispTypes
<1>2. Publish(m, WireId(m, id)) \in Wire
  <2>1. /\ WireId(m, id) \in Pid \cup {NoPid}
        /\ Qos[m] > 0 => WireId(m, id) \in Pid
    BY <1>1 DEF WireId
  <2> QED
    BY <1>1, <2>1
<1>3. Qos[m] = 0 \/ Qos[m] = 1 \/ Qos[m] = 2
  <2>1. Qos[m] \in 0..2
    BY <1>1
  <2> QED
    BY <2>1
<1>4. CASE VisitPublish(s, id)
  <2>1. SentNow(s, m) => PublishBuffer(m, id) \in Seq(Buffered)
    BY <1>2 DEF PublishBuffer, DispTypes, SentNow, Buffered, Publish
  <2>2. Seq(Buffered) \subseteq Seq(Wire)
    BY SeqMonotonic DEF Buffered
  <2>6. inbox' \in [ClientId -> Seq(Wire)]
    <3>1. CASE SentNow(s, m)
      BY <1>4, <2>1, <2>2, <3>1, WriteTypes DEF VisitPublish
    <3>2. CASE ~ SentNow(s, m)
      BY <1>4, <3>2 DEF VisitPublish, NetTypes
    <3> QED
      BY <3>1, <3>2
  <2>3. PubStatus' \in [ClientId -> [Pid -> Status]]
    BY <1>1, <1>4, StatusTypes DEF VisitPublish, SessTypes, Status, Acks
  <2>4. OfflineMsg' \in [ClientId -> Seq(Queued)]
    BY <1>1, <1>4, EnqueueTypes DEF VisitPublish, SessTypes
  <2>5. DispTypes'
    BY <1>1, <1>4, <2>1 DEF VisitPublish, DispTypes
  <2> QED
    BY <1>4, <2>6, <2>3, <2>4, <2>5 DEF VisitPublish, SessTypes, GoTypes,
       NetTypes, ClientTypes, RestTypes, goVars, clientVars
<1>5. CASE VisitRelease(s, id)
  <2>1. <<Publish(m, WireId(m, id))>> \in Seq(Wire)
    BY <1>2
  <2>2. inbox' \in [ClientId -> Seq(Wire)]
    BY <1>5, <2>1, WriteTypes DEF VisitRelease, NetTypes
  <2>3. PubStatus' \in [ClientId -> [Pid -> Status]]
    BY <1>1, <1>3, <1>5, StatusTypes DEF VisitRelease, SessTypes, Status, Acks
  <2>4. OfflineMsg' \in [ClientId -> Seq(Queued)]
    BY <1>1, <1>5, EnqueueTypes DEF VisitRelease, SessTypes
  <2>5. CacheMsg' \in [ClientId -> [Pid -> Msg \cup {0}]]
    <3>1. \/ CacheMsg' = CacheMsg
          \/ CacheMsg' = [CacheMsg EXCEPT ![s][id] = m]
      BY <1>5 DEF VisitRelease
    <3> QED
      BY <1>1, <3>1, CacheTypes
  <2>6. DispTypes'
    BY <1>1, <1>5 DEF VisitRelease, DispTypes
  <2> QED
    BY <1>5, <2>2, <2>3, <2>4, <2>5, <2>6 DEF VisitRelease, SessTypes,
       GoTypes, NetTypes, ClientTypes, RestTypes, goVars, clientVars
<1> QED
  BY <1>4, <1>5

(* Every step keeps the types.                                              *)
LEMMA TypeStep == TypeInv /\ [Next]_vars => TypeInv'
<1> SUFFICES ASSUME TypeInv, [Next]_vars PROVE TypeInv'
  OBVIOUS
<1>1. CASE UNCHANGED vars
  BY <1>1 DEF TypeInv, SessTypes, GoTypes, DispTypes, NetTypes, ClientTypes,
     RestTypes, vars, sessVars, goVars, dispVars, netVars, clientVars
<1> QED
  BY <1>1, TypeClient, TypeGoroutine, TypeAcks, TypeVisit
  DEF Next, Dispatcher, DrawAgain, Idle

(* The history variables only grow, by packets and by messages.             *)
HistoryTypes ==
  /\ discarded \in [ClientId -> SUBSET Packet]
  /\ missed \in [ClientId -> SUBSET Msg]

HistoryGrows ==
  \A s \in ClientId : /\ discarded[s] \subseteq discarded'[s]
                      /\ missed[s] \subseteq missed'[s]

LEMMA CarriedTypes ==
  /\ \A ps \in Seq(Wire) : Carried(ps) \subseteq Msg
  /\ \A type \in Acks : \A id : Carried(<<Ack(type, id)>>) = {}
<1>1. ASSUME NEW ps \in Seq(Wire) PROVE Carried(ps) \subseteq Msg
  BY DEF Carried, Wire
<1>2. ASSUME NEW type \in Acks, NEW id PROVE Carried(<<Ack(type, id)>>) = {}
  BY DEF Carried, Ack, Acks
<1> QED
  BY <1>1, <1>2

LEMMA MissedGrows ==
  ASSUME HistoryTypes, NEW s \in ClientId, NEW M \in SUBSET Msg,
         UNCHANGED discarded,
         missed' \in {missed, [missed EXCEPT ![s] = @ \cup M]}
  PROVE  HistoryTypes' /\ HistoryGrows
  BY DEF HistoryTypes, HistoryGrows

LEMMA WriteHistory ==
  ASSUME HistoryTypes, NEW s \in ClientId, UNCHANGED discarded, NEW ps,
         Carried(ps) \subseteq Msg, Write(s, ps)
  PROVE  HistoryTypes' /\ HistoryGrows
  BY MissedGrows DEF Write

LEMMA HistoryClient ==
  ASSUME TypeInv, HistoryTypes, NEW s \in ClientId,
         Client(s) \/ Drop(s) \/ Goroutine(s)
  PROVE  HistoryTypes' /\ HistoryGrows
<1> USE MsgFacts, PacketFacts DEF TypeInv
<1>1. CASE ClientReceive(s)
  <2>1. Head(inbox[s]).msg \in Msg
    BY <1>1, ConsumeTypes DEF ClientReceive, Arriving, Wire
  <2> DEFINE M == {Head(inbox[s]).msg}
  <2>2. missed' \in {missed, [missed EXCEPT ![s] = @ \cup M]}
    BY <1>1 DEF ClientReceive
  <2>3. UNCHANGED discarded /\ M \in SUBSET Msg
    BY <1>1, <2>1 DEF ClientReceive
  <2> HIDE DEF M
  <2> QED
    BY <2>2, <2>3, MissedGrows
<1>2. CASE ClientReleased(s) \/ ClientPubRec(s) \/ ClientPubDone(s)
  BY <1>2, MissedGrows DEF ClientReleased, ClientPubRec, ClientPubDone
<1>3. CASE Drop(s)
  BY <1>3, CarriedTypes, MissedGrows DEF Drop, NetTypes
<1>4. CASE Read(s)
  <2>1. PICK n \in DOMAIN outbox[s] :
          discarded' = [discarded EXCEPT ![s] =
                          @ \cup {outbox[s][i] : i \in 2..n}]
    BY <1>4 DEF Read
  <2>2. outbox[s] \in Seq(Packet) /\ n \in 1..Len(outbox[s])
    <3>1. outbox[s] \in Seq(Wire) /\ Wire \subseteq Packet
      BY DEF NetTypes
    <3> QED
      BY <2>1, <3>1, SeqMonotonic
  <2>3. {outbox[s][i] : i \in 2..n} \subseteq Packet
    BY <2>2
  <2> QED
    BY <1>4, <2>1, <2>3 DEF Read, HistoryTypes, HistoryGrows
<1>5. CASE AckPublish(s)
  <2>1. Qos[req[s].msg] = 0 \/ Qos[req[s].msg] = 1 \/ Qos[req[s].msg] = 2
    <3>1. req[s] \in Wire /\ req[s].msg \in Msg
      BY <1>5 DEF AckPublish, GoTypes, Wire
    <3>2. Qos[req[s].msg] \in 0..2
      BY <3>1
    <3> QED
      BY <3>2
  <2>2. \/ UNCHANGED missed
        \/ \E type \in Acks : Write(s, <<Ack(type, req[s].pid)>>)
    BY <1>5, <2>1 DEF AckPublish, Acks
  <2>3. UNCHANGED discarded
    BY <1>5 DEF AckPublish
  <2> QED
    BY <2>2, <2>3, CarriedTypes, WriteHistory, MissedGrows
<1>6. CASE Exit(s)
  BY <1>6, MissedGrows DEF Exit, netVars
<1> QED
  BY <1>1, <1>2, <1>3, <1>4, <1>5, <1>6 DEF Client, Goroutine

LEMMA HistoryAcks ==
  ASSUME TypeInv, HistoryTypes, BeginRelease \/ ProcessPubRec
  PROVE  HistoryTypes' /\ HistoryGrows
<1>1. dpc = "lock" /\ dmsg.type \in {"PUBREL", "PUBREC"}
  BY DEF BeginRelease, ProcessPubRec, Processing
<1>2. dmsg.from \in ClientId
  BY <1>1, HandFacts
<1>3. \E type \in Acks : Write(dmsg.from, <<Ack(type, dmsg.pid)>>)
  BY DEF BeginRelease, Complete, ProcessPubRec, Acks
<1>4. UNCHANGED discarded
  BY DEF BeginRelease, ProcessPubRec
<1> QED
  BY <1>2, <1>3, <1>4, CarriedTypes, WriteHistory

LEMMA HistoryVisit ==
  ASSUME TypeInv, HistoryTypes, NEW s \in ClientId, NEW id \in ServerPid,
         VisitPublish(s, id) \/ VisitRelease(s, id)
  PROVE  HistoryTypes' /\ HistoryGrows
<1> DEFINE m == dmsg.msg
<1> USE MsgFacts, PacketFacts DEF TypeInv, Visiting
<1>1. m \in Msg /\ id \in Pid /\ UNCHANGED discarded
  BY DEF VisitPublish, VisitRelease, DispTypes
<1>2. Publish(m, WireId(m, id)) \in Wire
  <2>1. /\ WireId(m, id) \in Pid \cup {NoPid}
        /\ Qos[m] > 0 => WireId(m, id) \in Pid
    BY <1>1 DEF WireId
  <2> QED
    BY <1>1, <2>1
<1>3. CASE VisitPublish(s, id)
  <2>1. SentNow(s, m) => PublishBuffer(m, id) \in Seq(Buffered)
    BY <1>2, <1>3
    DEF PublishBuffer, DispTypes, SentNow, Buffered, Publish, VisitPublish
  <2>2. Seq(Buffered) \subseteq Seq(Wire)
    BY SeqMonotonic DEF Buffered
  <2>3. CASE SentNow(s, m)
    <3>1. Write(s, PublishBuffer(m, id))
      BY <1>3, <2>3 DEF VisitPublish
    <3> QED
      BY <1>1, <2>1, <2>2, <2>3, <3>1, CarriedTypes, WriteHistory
  <2>4. CASE ~ SentNow(s, m)
    BY <1>1, <1>3, <2>4, MissedGrows DEF VisitPublish
  <2> QED
    BY <2>3, <2>4
<1>4. CASE VisitRelease(s, id)
  <2>1. <<Publish(m, WireId(m, id))>> \in Seq(Wire)
    BY <1>2
  <2>2. UNCHANGED missed \/ Write(s, <<Publish(m, WireId(m, id))>>)
    BY <1>4 DEF VisitRelease
  <2> QED
    BY <1>1, <2>1, <2>2, CarriedTypes, WriteHistory, MissedGrows
<1> QED
  BY <1>3, <1>4

LEMMA HistoryStep ==
  TypeInv /\ HistoryTypes /\ [Next]_vars => HistoryTypes' /\ HistoryGrows
<1> SUFFICES ASSUME TypeInv, HistoryTypes, [Next]_vars
             PROVE  HistoryTypes' /\ HistoryGrows
  OBVIOUS
<1>1. CASE UNCHANGED <<discarded, missed>>
  BY <1>1 DEF HistoryTypes, HistoryGrows
<1>2. CASE \E s \in ClientId : Client(s) \/ Drop(s) \/ Goroutine(s)
  BY <1>2, HistoryClient
<1>3. CASE BeginRelease \/ ProcessPubRec
  BY <1>3, HistoryAcks
<1>4. CASE \E s \in ClientId, id \in ServerPid :
             VisitPublish(s, id) \/ VisitRelease(s, id)
  BY <1>4, HistoryVisit
<1>5. ASSUME \/ \E s \in ClientId : Connect(s) \/ DispatchRecv(s)
             \/ \E s \in ClientId, m \in Msg, id \in ClientPid \cup {NoPid} :
                  ClientPublish(s, m, id)
             \/ \E m \in Msg : ClusterRecv(m)
             \/ BeginPublish \/ BeginCluster \/ ProcessPubAck
             \/ ProcessPubComp \/ DropAck \/ EndLoop \/ UNCHANGED vars
      PROVE  UNCHANGED <<discarded, missed>>
  BY <1>5 DEF Connect, DispatchRecv, ClientPublish, ClusterRecv, BeginPublish,
     BeginCluster, ProcessPubAck, ProcessPubComp, DropAck, EndLoop, vars,
     netVars
<1> QED
  BY <1>1, <1>2, <1>3, <1>4, <1>5 DEF Next, Dispatcher, DrawAgain, Idle

(* Whatever is lost, acknowledged or sent again, every packet, queue and    *)
(* status keeps its type.                                                   *)
THEOREM DispatchTypeCorrect == Spec => []TypeOK
<1>1. TypeInv /\ HistoryTypes => TypeOK
  <2>1. Buffered \subseteq Wire /\ Wire \subseteq Packet
    BY PacketFacts DEF Buffered
  <2> QED
    BY <2>1, SeqMonotonic
    DEF TypeInv, SessTypes, GoTypes, DispTypes, NetTypes, ClientTypes,
        RestTypes, HistoryTypes, TypeOK
<1>2. Init => HistoryTypes
  BY DEF Init, HistoryTypes
<1> QED
  BY TypeInit, TypeStep, HistoryStep, <1>1, <1>2, PTL DEF Spec

-----------------------------------------------------------------------------
(* The flow from a publisher to CacheMsg.                                   *)

\* Most steps only take packets from the front of a connection, or add some
\* that are not about a QoS 2 publish: what is there of a kind was there.
Pubrecs   == {p \in Wire : p.type = "PUBREC"}
Publishes == {p \in Wire : IsPublish2(p)}

InboxFrame(kind) ==
  \A s \in ClientId : \E d \in {0, 1} : \A k \in DOMAIN inbox'[s] :
    inbox'[s][k] \in kind =>
      k + d \in DOMAIN inbox[s] /\ inbox[s][k + d] = inbox'[s][k]

OutboxFrame ==
  \A s \in ClientId : \E d \in {0, 1} : \A i \in DOMAIN outbox'[s] :
    IsPublish2(outbox'[s][i]) \/ outbox'[s][i].type = "PUBREL" =>
      i + d \in DOMAIN outbox[s] /\ outbox[s][i + d] = outbox'[s][i]

HandFrame ==
  /\ \A s \in ClientId : gpc'[s] \in {"send", "ack"} =>
       gpc'[s] = gpc[s] /\ req'[s] = req[s]
  /\ dpc' = "lock" /\ dmsg'.type \in {"PUBLISH", "PUBREL"} =>
       dpc = "lock" /\ dmsg' = dmsg

StatusFrame ==
  \A s \in ClientId, id \in Pid : PubStatus'[s][id] = "PUBREL" =>
    PubStatus[s][id] = "PUBREL" /\ CacheMsg'[s][id] = CacheMsg[s][id]

ProgressFrame ==
  /\ ppid' = ppid
  /\ \A m \in Msg :
       \/ pstate'[m] = pstate[m]
       \/ /\ pstate'[m] = "done" /\ pstate[m] # "idle"
          /\ Qos[m] = 2 => pstate[m] = "released"

(* Positions in the connections are positive numbers.                       *)
LEMMA Positions ==
  ASSUME NetTypes, NEW s \in ClientId
  PROVE  /\ DOMAIN inbox[s] = 1..Len(inbox[s]) /\ Len(inbox[s]) \in Nat
         /\ DOMAIN outbox[s] = 1..Len(outbox[s]) /\ Len(outbox[s]) \in Nat
         /\ \A k \in DOMAIN inbox[s] : inbox[s][k] \in Wire
         /\ \A i \in DOMAIN outbox[s] : outbox[s][i] \in Wire
  BY DEF NetTypes

(* What is written to a client, when nothing of that kind is.               *)
LEMMA WriteFrame ==
  ASSUME NetTypes, NEW s \in ClientId, NEW ps \in Seq(Wire), Write(s, ps),
         NEW kind, \A i \in DOMAIN ps : ps[i] \notin kind
  PROVE  InboxFrame(kind)
<1> SUFFICES ASSUME NEW t \in ClientId
             PROVE  \A k \in DOMAIN inbox'[t] : inbox'[t][k] \in kind =>
                      /\ k + 0 \in DOMAIN inbox[t]
                      /\ inbox[t][k + 0] = inbox'[t][k]
  BY Zenon DEF InboxFrame
<1>1. CASE inbox'[t] = inbox[t]
  BY <1>1, Positions
<1>2. CASE inbox'[t] # inbox[t]
  <2>1. inbox'[t] = inbox[t] \o ps
    BY <1>2 DEF Write, NetTypes
  <2>2. inbox[t] \in Seq(Wire)
    BY DEF NetTypes
  <2>3. /\ DOMAIN inbox'[t] = 1..(Len(inbox[t]) + Len(ps))
        /\ \A k \in 1..(Len(inbox[t]) + Len(ps)) : inbox'[t][k] =
             IF k <= Len(inbox[t]) THEN inbox[t][k] ELSE ps[k - Len(inbox[t])]
    BY <2>1, <2>2, ConcatProperties
  <2>4. \A k \in DOMAIN inbox'[t] : k > Len(inbox[t]) =>
          k - Len(inbox[t]) \in DOMAIN ps
    BY <2>2, <2>3
  <2> QED
    BY <2>2, <2>3, <2>4
<1> QED
  BY <1>1, <1>2

(* What a client reads, and what it answers to a message from the server.   *)
LEMMA ConsumeFrame ==
  ASSUME NetTypes, NEW s \in ClientId, inbox[s] # <<>>, Consume(s), NEW kind
  PROVE  InboxFrame(kind)
<1> SUFFICES ASSUME NEW t \in ClientId
             PROVE  \E d \in {0, 1} : \A k \in DOMAIN inbox'[t] :
                      inbox'[t][k] \in kind =>
                        /\ k + d \in DOMAIN inbox[t]
                        /\ inbox[t][k + d] = inbox'[t][k]
  BY Zenon DEF InboxFrame
<1>1. CASE t # s
  <2>1. inbox'[t] = inbox[t]
    BY <1>1 DEF Consume, NetTypes
  <2>2. \A k \in DOMAIN inbox[t] : k + 0 = k
    BY Positions
  <2> QED
    BY <2>1, <2>2
<1>2. CASE t = s
  <2>1. inbox'[t] = Tail(inbox[t]) /\ inbox[t] \in Seq(Wire)
    BY <1>2 DEF Consume, NetTypes
  <2>2. \A k \in DOMAIN inbox'[t] :
          k + 1 \in DOMAIN inbox[t] /\ inbox[t][k + 1] = inbox'[t][k]
    BY <1>2, <2>1, HeadTailProperties
  <2> QED
    BY <2>2
<1> QED
  BY <1>1, <1>2

LEMMA SendFrame ==
  ASSUME NetTypes, NEW s \in ClientId, NEW p \in Wire, Send(s, p),
         p.type \notin {"PUBLISH", "PUBREL"}
  PROVE  OutboxFrame
<1> SUFFICES ASSUME NEW t \in ClientId, NEW i \in DOMAIN outbox'[t],
                    \/ IsPublish2(outbox'[t][i])
                    \/ outbox'[t][i].type = "PUBREL"
             PROVE  /\ i + 0 \in DOMAIN outbox[t]
                    /\ outbox[t][i + 0] = outbox'[t][i]
  BY Zenon DEF OutboxFrame
<1>1. outbox'[t] = outbox[t] \/ outbox'[t] = Append(outbox[t], p)
  BY DEF Send, NetTypes
<1>2. outbox[t] \in Seq(Wire)
  BY DEF NetTypes
<1> QED
  BY <1>1, <1>2, AppendProperties DEF IsPublish2

(* Connections that do not change.                                          *)
LEMMA SameFrames ==
  ASSUME NetTypes
  PROVE  /\ inbox' = inbox => \A kind : InboxFrame(kind)
         /\ outbox' = outbox => OutboxFrame
<1>1. ASSUME NEW s \in ClientId
      PROVE  /\ \A k \in DOMAIN inbox[s] : k + 0 = k
             /\ \A i \in DOMAIN outbox[s] : i + 0 = i
  BY Positions
<1> QED
  BY <1>1 DEF InboxFrame, OutboxFrame

(* At first nothing is on its way.                                          *)
LEMMA FlowInit == Init => FlowInv
  BY DEF Init, FlowInv, IdsInv, OutboxInv, RequestInv, PubrecInv, DispatchInv,
         CacheInv

(* Steps that are not about a QoS 2 publish keep the flow.                  *)
LEMMA FlowFrame ==
  ASSUME TypeInv, TypeInv', FlowInv, InboxFrame(Pubrecs), OutboxFrame,
         HandFrame, StatusFrame, ProgressFrame
  PROVE  FlowInv'
<1> USE DEF FlowInv
<1>1. NetTypes /\ NetTypes'
  BY DEF TypeInv
<1>2. IdsInv'
  BY DEF IdsInv, ProgressFrame
<1>3. ASSUME NEW s \in ClientId, NEW id, NoPubrelAhead(s, id)
      PROVE  NoPubrelAhead(s, id)'
  <2>1. gpc'[s] = "send" => ~ IsPubrel(req'[s], id)
    BY <1>3 DEF HandFrame, NoPubrelAhead
  <2>2. ASSUME NEW j \in DOMAIN outbox'[s], IsPubrel(outbox'[s][j], id)
        PROVE  FALSE
    <3>1. PICK d \in {0, 1} : j + d \in DOMAIN outbox[s]
                              /\ outbox[s][j + d] = outbox'[s][j]
      BY <2>2 DEF OutboxFrame, IsPubrel
    <3> QED
      BY <1>3, <2>2, <3>1 DEF NoPubrelAhead
  <2> QED
    BY <2>1, <2>2 DEF NoPubrelAhead
<1>4. ASSUME NEW s \in ClientId, NEW id,
             \A k \in DOMAIN inbox[s] : ~ IsPubrec(inbox[s][k], id)
      PROVE  \A k \in DOMAIN inbox'[s] : ~ IsPubrec(inbox'[s][k], id)
  <2> SUFFICES ASSUME NEW k \in DOMAIN inbox'[s], IsPubrec(inbox'[s][k], id)
               PROVE  FALSE
    OBVIOUS
  <2>1. PICK d \in {0, 1} :
          k + d \in DOMAIN inbox[s] /\ inbox[s][k + d] = inbox'[s][k]
    <3>1. inbox'[s][k] \in Pubrecs
      BY <1>1, Positions DEF NetTypes, IsPubrec, Pubrecs
    <3> QED
      BY <3>1 DEF InboxFrame
  <2> QED
    BY <1>4, <2>1
<1>5. OutboxInv'
  <2> SUFFICES ASSUME NEW s \in ClientId, NEW i \in DOMAIN outbox'[s],
                      IsPublish2(outbox'[s][i])
               PROVE  OutboxInv!(s)!(i)!2'
    BY DEF OutboxInv
  <2> DEFINE p == outbox'[s][i]
  <2>1. PICK d \in {0, 1} : \A j \in DOMAIN outbox'[s] :
          IsPublish2(outbox'[s][j]) \/ outbox'[s][j].type = "PUBREL" =>
            j + d \in DOMAIN outbox[s] /\ outbox[s][j + d] = outbox'[s][j]
    BY DEF OutboxFrame
  <2>2. i + d \in DOMAIN outbox[s] /\ outbox[s][i + d] = p
    BY <2>1
  <2>3. /\ Published(s, p) /\ pstate[p.msg] = "sent"
        /\ \A j \in DOMAIN outbox[s] :
             /\ j > i + d => ~ IsPubrel(outbox[s][j], p.pid)
             /\ IsPublish2(outbox[s][j]) /\ outbox[s][j].pid = p.pid =>
                  j = i + d
        /\ \A k \in DOMAIN inbox[s] : ~ IsPubrec(inbox[s][k], p.pid)
    BY <2>2 DEF OutboxInv
  <2>4. Publisher[p.msg] = s /\ ppid'[p.msg] = p.pid /\ pstate'[p.msg] = "sent"
    <3>1. p.msg \in Msg /\ Qos[p.msg] = 2
      BY <1>1, <2>2, Positions DEF IsPublish2, Wire
    <3> QED
      BY <2>3, <3>1 DEF Published, ProgressFrame
  <2>5. \A k \in DOMAIN inbox'[s] : ~ IsPubrec(inbox'[s][k], p.pid)
    BY <1>4, <2>3
  <2>6. ASSUME NEW j \in DOMAIN outbox'[s]
        PROVE  /\ j > i => ~ IsPubrel(outbox'[s][j], p.pid)
               /\ IsPublish2(outbox'[s][j]) /\ outbox'[s][j].pid = p.pid =>
                    j = i
    <3>1. i \in Nat /\ j \in Nat
      BY <1>1, Positions DEF NetTypes
    <3>2. j > i => ~ IsPubrel(outbox'[s][j], p.pid)
      BY <2>1, <2>3, <3>1 DEF IsPubrel
    <3>3. IsPublish2(outbox'[s][j]) /\ outbox'[s][j].pid = p.pid => j = i
      BY <2>1, <2>3, <3>1
    <3> QED
      BY <3>2, <3>3
  <2> QED
    BY <2>4, <2>5, <2>6 DEF Published
<1>6. RequestInv'
  <2> SUFFICES ASSUME NEW s \in ClientId, gpc'[s] \in {"send", "ack"},
                      IsPublish2(req'[s])
               PROVE  RequestInv!(s)!2'
    BY DEF RequestInv
  <2> DEFINE p == req[s]
  <2>1. req'[s] = p /\ gpc[s] \in {"send", "ack"}
    BY DEF HandFrame
  <2>2. RequestInv!(s)!2
    BY <2>1 DEF RequestInv
  <2>3. ASSUME NEW j \in DOMAIN outbox'[s]
        PROVE  /\ ~ IsPubrel(outbox'[s][j], p.pid)
               /\ ~ (IsPublish2(outbox'[s][j]) /\ outbox'[s][j].pid = p.pid)
    <3> SUFFICES ASSUME \/ IsPubrel(outbox'[s][j], p.pid)
                        \/ /\ IsPublish2(outbox'[s][j])
                           /\ outbox'[s][j].pid = p.pid
                 PROVE  FALSE
      OBVIOUS
    <3>1. PICK d \in {0, 1} : j + d \in DOMAIN outbox[s]
                              /\ outbox[s][j + d] = outbox'[s][j]
      BY DEF OutboxFrame, IsPubrel
    <3> QED
      BY <2>2, <3>1
  <2>4. \A k \in DOMAIN inbox'[s] : ~ IsPubrec(inbox'[s][k], p.pid)
    BY <1>4, <2>2
  <2>5. p.msg \in Msg /\ Qos[p.msg] = 2
    BY <2>1 DEF TypeInv, GoTypes, Wire, IsPublish2
  <2> QED
    BY <2>1, <2>2, <2>3, <2>4, <2>5 DEF Published, ProgressFrame
<1>7. PubrecInv'
  <2> SUFFICES ASSUME NEW s \in ClientId, NEW k \in DOMAIN inbox'[s],
                      inbox'[s][k].type = "PUBREC"
               PROVE  PubrecInv!(s)!(k)!2'
    BY DEF PubrecInv
  <2>1. PICK d \in {0, 1} : \A l \in DOMAIN inbox'[s] :
          inbox'[s][l].type = "PUBREC" =>
            l + d \in DOMAIN inbox[s] /\ inbox[s][l + d] = inbox'[s][l]
    <3>1. \A l \in DOMAIN inbox'[s] : inbox'[s][l].type = "PUBREC" =>
            inbox'[s][l] \in Pubrecs
      BY <1>1, Positions DEF NetTypes, Pubrecs
    <3> QED
      BY <3>1 DEF InboxFrame
  <2>2. PubrecInv!(s)!(k + d)!2
    BY <2>1 DEF PubrecInv
  <2>3. ASSUME NEW l \in DOMAIN inbox'[s],
               IsPubrec(inbox'[s][l], inbox'[s][k].pid)
        PROVE  l = k
    <3>1. l \in Nat /\ k \in Nat
      BY <1>1, Positions DEF NetTypes
    <3> QED
      BY <2>1, <2>2, <2>3, <3>1 DEF IsPubrec
  <2> QED
    BY <2>1, <2>2, <2>3 DEF ProgressFrame
<1>8. DispatchInv'
  <2> SUFFICES ASSUME dpc' = "lock", IsPublish2(dmsg')
               PROVE  DispatchInv!2'
    BY DEF DispatchInv
  <2>1. dpc = "lock" /\ dmsg' = dmsg
    BY DEF HandFrame, IsPublish2
  <2>2. dmsg.from \in ClientId
    BY <2>1 DEF TypeInv, DispTypes, IsPublish2
  <2>3. dmsg.msg \in Msg /\ Qos[dmsg.msg] = 2
    BY <2>1, HandFacts DEF IsPublish2
  <2> QED
    BY <1>3, <2>1, <2>2, <2>3 DEF DispatchInv, Published, ProgressFrame
<1>9. CacheInv'
  <2> SUFFICES ASSUME NEW s \in ClientId, NEW id \in Pid,
                      PubStatus'[s][id] = "PUBREL"
               PROVE  CacheInv!(s, id)!2'
    BY DEF CacheInv
  <2>1. PubStatus[s][id] = "PUBREL" /\ CacheMsg'[s][id] = CacheMsg[s][id]
    BY DEF StatusFrame
  <2>2. CacheInv!(s, id)!2
    BY <2>1 DEF CacheInv
  <2>3. dpc' = "lock" /\ IsPubrel(dmsg', id) => dpc = "lock" /\ dmsg' = dmsg
    BY DEF HandFrame, IsPubrel
  <2> QED
    BY <1>3, <2>1, <2>2, <2>3 DEF ProgressFrame
<1> QED
  BY <1>2, <1>5, <1>6, <1>7, <1>8, <1>9

(* The elements of what is appended to, or read from, a connection.         *)
LEMMA SendElements ==
  ASSUME NetTypes, NEW s \in ClientId, NEW p \in Wire, Send(s, p)
  PROVE  /\ \A t \in ClientId : t # s => outbox'[t] = outbox[t]
         /\ DOMAIN outbox'[s] = 1..(Len(outbox[s]) + 1)
         /\ \A i \in DOMAIN outbox[s] : outbox'[s][i] = outbox[s][i]
         /\ outbox'[s][Len(outbox[s]) + 1] = p
<1>1. outbox'[s] = Append(outbox[s], p)
  BY DEF Send, NetTypes
<1>2. outbox[s] \in Seq(Wire)
  BY DEF NetTypes
<1>3. outbox'[s] \in Seq(Wire)
  BY SendTypes
<1> QED
  BY <1>1, <1>2, <1>3, AppendProperties DEF Send, NetTypes

LEMMA ConsumeElements ==
  ASSUME NetTypes, NEW s \in ClientId, inbox[s] # <<>>, Consume(s)
  PROVE  /\ \A t \in ClientId : t # s => inbox'[t] = inbox[t]
         /\ 1 \in DOMAIN inbox[s] /\ inbox[s][1] = Head(inbox[s])
         /\ \A k \in DOMAIN inbox'[s] :
              /\ k \in Nat \ {0}
              /\ k + 1 \in DOMAIN inbox[s] /\ inbox'[s][k] = inbox[s][k + 1]
<1>1. inbox'[s] = Tail(inbox[s]) /\ inbox[s] \in Seq(Wire)
  BY DEF Consume, NetTypes
<1> QED
  BY <1>1, HeadTailProperties DEF Consume, NetTypes

\* A Read takes n packets and looks at the first.
Takes(s, n) ==
  /\ n \in Nat \ {0} /\ n \in DOMAIN outbox[s] /\ 1 \in DOMAIN outbox[s]
  /\ req' = [req EXCEPT ![s] = outbox[s][1]]
  /\ \A t \in ClientId : t # s => outbox'[t] = outbox[t]
  /\ \A i \in DOMAIN outbox'[s] :
       /\ i \in Nat \ {0}
       /\ i + n \in DOMAIN outbox[s] /\ outbox'[s][i] = outbox[s][i + n]
  /\ \A i \in DOMAIN outbox[s] : i > n => i - n \in DOMAIN outbox'[s]
  /\ n <= MaxRead
  /\ discarded' = [discarded EXCEPT ![s] =
                     @ \cup {outbox[s][i] : i \in 2..n}]

LEMMA ReadElements ==
  ASSUME NetTypes, NEW s \in ClientId, Read(s)
  PROVE  \E n \in Nat : Takes(s, n)
<1>1. PICK n \in DOMAIN outbox[s] :
        /\ n <= MaxRead
        /\ req' = [req EXCEPT ![s] = outbox[s][1]]
        /\ discarded' = [discarded EXCEPT ![s] =
                           @ \cup {outbox[s][i] : i \in 2..n}]
        /\ outbox' = [outbox EXCEPT ![s] = SubSeq(@, n + 1, Len(@))]
  BY DEF Read
<1>2. /\ outbox[s] \in Seq(Wire) /\ Len(outbox[s]) \in Nat
      /\ DOMAIN outbox[s] = 1..Len(outbox[s])
      /\ n \in 1..Len(outbox[s])
  BY <1>1 DEF NetTypes
<1> DEFINE len == Len(outbox[s])
           q == SubSeq(outbox[s], n + 1, len)
<1>3. \A i \in (n + 1)..len : outbox[s][i] \in Wire
  BY <1>2
<1>4. /\ q \in Seq(Wire)
      /\ Len(q) = IF n + 1 <= len THEN len - (n + 1) + 1 ELSE 0
      /\ \A i \in 1..(len - (n + 1) + 1) : q[i] = outbox[s][(n + 1) + i - 1]
  BY <1>2, <1>3, SubSeqProperties
<1>5. outbox'[s] = q /\ \A t \in ClientId : t # s => outbox'[t] = outbox[t]
  BY <1>1 DEF NetTypes
<1>6. DOMAIN q = 1..(len - n)
  BY <1>2, <1>4
<1>7. \A i \in DOMAIN q : q[i] = outbox[s][i + n]
  <2> TAKE i \in DOMAIN q
  <2>1. i \in 1..(len - (n + 1) + 1) /\ (n + 1) + i - 1 = i + n
    BY <1>2, <1>6
  <2> QED
    BY <1>4, <2>1
<1>8. /\ n \in Nat \ {0} /\ n \in DOMAIN outbox[s] /\ 1 \in DOMAIN outbox[s]
      /\ \A i \in DOMAIN outbox'[s] :
           /\ i \in Nat \ {0}
           /\ i + n \in DOMAIN outbox[s] /\ outbox'[s][i] = outbox[s][i + n]
      /\ \A i \in DOMAIN outbox[s] : i > n => i - n \in DOMAIN outbox'[s]
  <2> HIDE DEF q
  <2>1. DOMAIN outbox'[s] = 1..(len - n)
    BY <1>5, <1>6
  <2>2. n \in Nat \ {0} /\ n \in DOMAIN outbox[s] /\ 1 \in DOMAIN outbox[s]
    BY <1>2
  <2>3. ASSUME NEW i \in DOMAIN outbox'[s]
        PROVE  /\ i \in Nat \ {0}
               /\ i + n \in DOMAIN outbox[s]
               /\ outbox'[s][i] = outbox[s][i + n]
    BY <1>2, <1>5, <1>7, <2>1
  <2>4. ASSUME NEW i \in DOMAIN outbox[s], i > n
        PROVE  i - n \in DOMAIN outbox'[s]
    BY <1>2, <2>1, <2>4
  <2> QED
    BY <2>2, <2>3, <2>4
<1>9. Takes(s, n)
  <2> HIDE DEF q
  <2> QED
    BY <1>1, <1>5, <1>8 DEF Takes
<1> QED
  BY <1>2, <1>9

(* A client publishes: under an id it has no message on its way with.       *)
LEMMA FlowPublish ==
  ASSUME TypeInv, TypeInv', FlowInv, NEW s \in ClientId, NEW m \in Msg,
         NEW id \in ClientPid \cup {NoPid}, ClientPublish(s, m, id)
  PROVE  FlowInv'
<1> USE DEF FlowInv
<1> DEFINE p == Publish(m, id)
<1>1. NetTypes /\ p \in Wire /\ (Qos[m] > 0 => id \in Pid)
  BY MsgFacts, PacketFacts DEF ClientPublish, TypeInv
<1>2. /\ p.type = "PUBLISH" /\ p.msg = m /\ p.pid = id
      /\ Publisher[m] = s /\ pstate[m] = "idle"
      /\ Qos[m] # 0 => InFlight(s, id) = {}
      /\ UNCHANGED <<sessVars, goVars, dispVars, inbox>>
      /\ Send(s, p)
  BY DEF ClientPublish, Publish
<1>3. /\ pstate'[m] = IF Qos[m] = 0 THEN "done" ELSE "sent"
      /\ ppid'[m] = id
      /\ \A n \in Msg : n # m => pstate'[n] = pstate[n] /\ ppid'[n] = ppid[n]
  BY DEF ClientPublish, TypeInv, ClientTypes
<1>4. /\ \A t \in ClientId : t # s => outbox'[t] = outbox[t]
      /\ DOMAIN outbox'[s] = 1..(Len(outbox[s]) + 1)
      /\ \A i \in DOMAIN outbox[s] : outbox'[s][i] = outbox[s][i]
      /\ outbox'[s][Len(outbox[s]) + 1] = p
  BY <1>1, <1>2, SendElements
<1>5. \A n \in Msg : /\ Publisher[n] = s /\ ppid[n] = id
                     /\ pstate[n] \in {"sent", "released"}
                     => Qos[m] = 0
  BY <1>2 DEF InFlight
<1>6. \A t \in ClientId : DOMAIN outbox[t] = 1..Len(outbox[t])
                          /\ Len(outbox[t]) \in Nat
  BY <1>1, Positions
<1>7. ASSUME NEW t \in ClientId, NEW x, NoPubrelAhead(t, x)
      PROVE  NoPubrelAhead(t, x)'
  BY <1>2, <1>4, <1>6, <1>7 DEF NoPubrelAhead, IsPubrel, goVars
<1>8. IdsInv'
  BY <1>2, <1>3, <1>5 DEF IdsInv
<1>9. OutboxInv'
  <2> SUFFICES ASSUME NEW t \in ClientId, NEW i \in DOMAIN outbox'[t],
                      IsPublish2(outbox'[t][i])
               PROVE  OutboxInv!(t)!(i)!2'
    BY DEF OutboxInv
  <2>1. CASE t = s /\ i = Len(outbox[s]) + 1
    <3>1. outbox'[t][i] = p /\ Qos[m] = 2
      BY <1>2, <1>4, <2>1 DEF IsPublish2
    <3>2. \A j \in DOMAIN outbox[s] :
            ~ (IsPublish2(outbox[s][j]) /\ outbox[s][j].pid = id)
      <4> SUFFICES ASSUME NEW j \in DOMAIN outbox[s],
                          IsPublish2(outbox[s][j]), outbox[s][j].pid = id
                   PROVE  FALSE
        OBVIOUS
      <4>1. outbox[s][j] \in Wire
        BY <1>1, Positions
      <4> QED
        BY <1>5, <3>1, <4>1 DEF OutboxInv, Published, Wire, IsPublish2
    <3>3. \A k \in DOMAIN inbox[s] : ~ IsPubrec(inbox[s][k], id)
      BY <1>5, <3>1 DEF PubrecInv, IsPubrec
    <3>4. \A j \in DOMAIN outbox'[s] : j = i \/ j \in DOMAIN outbox[s]
      BY <1>4, <1>6, <2>1
    <3> QED
      BY <1>2, <1>3, <1>4, <1>6, <2>1, <3>1, <3>2, <3>3, <3>4
      DEF Published, IsPubrel
  <2>2. CASE ~ (t = s /\ i = Len(outbox[s]) + 1)
    <3> DEFINE q == outbox[t][i]
    <3>1. i \in DOMAIN outbox[t] /\ outbox'[t][i] = q
      BY <1>4, <1>6, <2>2
    <3>2. OutboxInv!(t)!(i)!2
      BY <3>1 DEF OutboxInv
    <3>3. q \in Wire /\ q.msg \in Msg /\ q.msg # m
      BY <1>1, <1>2, <3>1, <3>2, Positions DEF Wire, IsPublish2
    <3>4. ASSUME NEW j \in DOMAIN outbox'[t]
          PROVE  /\ j > i => ~ IsPubrel(outbox'[t][j], q.pid)
                 /\ IsPublish2(outbox'[t][j]) /\ outbox'[t][j].pid = q.pid
                    => j = i
      <4>1. CASE j \in DOMAIN outbox[t]
        BY <1>4, <3>2, <4>1
      <4>2. CASE t = s /\ j = Len(outbox[s]) + 1
        <5>1. outbox'[t][j] = p
          BY <1>4, <4>2
        <5>2. q.pid = id => Qos[m] = 0
          BY <1>5, <3>2, <3>3, <4>2 DEF Published
        <5> QED
          BY <1>2, <5>1, <5>2 DEF IsPubrel, IsPublish2
      <4> QED
        BY <1>4, <1>6, <4>1, <4>2
    <3> QED
      BY <1>2, <1>3, <3>1, <3>2, <3>3, <3>4 DEF Published
  <2> QED
    BY <2>1, <2>2
<1>10. RequestInv'
  <2> SUFFICES ASSUME NEW t \in ClientId, gpc[t] \in {"send", "ack"},
                      IsPublish2(req[t])
               PROVE  RequestInv!(t)!2'
    BY <1>2 DEF RequestInv, goVars
  <2> DEFINE q == req[t]
  <2>1. RequestInv!(t)!2
    BY DEF RequestInv
  <2>2. q.msg \in Msg /\ q.msg # m
    BY <1>2, <2>1 DEF TypeInv, GoTypes, Wire, IsPublish2
  <2>3. ASSUME NEW j \in DOMAIN outbox'[t]
        PROVE  /\ ~ IsPubrel(outbox'[t][j], q.pid)
               /\ ~ (IsPublish2(outbox'[t][j]) /\ outbox'[t][j].pid = q.pid)
    <3>1. CASE j \in DOMAIN outbox[t]
      BY <1>4, <2>1, <3>1
    <3>2. CASE t = s /\ j = Len(outbox[s]) + 1
      <4>1. outbox'[t][j] = p
        BY <1>4, <3>2
      <4>2. q.pid = id => Qos[m] = 0
        BY <1>5, <2>1, <2>2, <3>2 DEF Published
      <4> QED
        BY <1>2, <4>1, <4>2 DEF IsPubrel, IsPublish2
    <3> QED
      BY <1>4, <1>6, <3>1, <3>2
  <2> QED
    BY <1>2, <1>3, <2>1, <2>2, <2>3 DEF Published, goVars
<1>11. PubrecInv'
  <2> SUFFICES ASSUME NEW t \in ClientId, NEW k \in DOMAIN inbox[t],
                      inbox[t][k].type = "PUBREC"
               PROVE  PubrecInv!(t)!(k)!2'
    BY <1>2 DEF PubrecInv
  <2> QED
    BY <1>2, <1>3 DEF PubrecInv
<1>12. DispatchInv'
  <2> SUFFICES ASSUME dpc = "lock", IsPublish2(dmsg)
               PROVE  DispatchInv!2'
    BY <1>2 DEF DispatchInv, dispVars
  <2>1. dmsg.from \in ClientId /\ dmsg.msg \in Msg
    BY HandFacts DEF IsPublish2
  <2> QED
    BY <1>2, <1>3, <1>7, <2>1 DEF DispatchInv, Published, dispVars
<1>13. CacheInv'
  <2> SUFFICES ASSUME NEW t \in ClientId, NEW x \in Pid,
                      PubStatus[t][x] = "PUBREL"
               PROVE  CacheInv!(t, x)!2'
    BY <1>2 DEF CacheInv, sessVars
  <2> QED
    BY <1>2, <1>3, <1>7 DEF CacheInv, sessVars, dispVars
<1> QED
  BY <1>8, <1>9, <1>10, <1>11, <1>12, <1>13

(* A PUBREC reaches the publisher, once: from now on nothing but PUBREL is  *)
(* on its way for the message.                                              *)
LEMMA FlowPubRec ==
  ASSUME TypeInv, TypeInv', FlowInv, NEW s \in ClientId, ClientPubRec(s)
  PROVE  FlowInv'
<1> USE DEF FlowInv
<1> DEFINE id == Head(inbox[s]).pid
           p == Ack("PUBREL", id)
<1>1. NetTypes /\ inbox[s] # <<>> /\ Consume(s) /\ Send(s, p)
  BY DEF ClientPubRec, Arriving, TypeInv
<1>2. Head(inbox[s]) \in Wire /\ Head(inbox[s]).type = "PUBREC" /\ id \in Pid
  BY <1>1, ConsumeTypes DEF ClientPubRec, Arriving, Wire
<1>3. p \in Wire /\ p.type = "PUBREL" /\ p.pid = id
  BY <1>2, PacketFacts DEF Ack, Acks
<1>4. UNCHANGED <<sessVars, goVars, dispVars, ppid>>
  BY DEF ClientPubRec
<1>5. /\ \A t \in ClientId : t # s => outbox'[t] = outbox[t]
      /\ DOMAIN outbox'[s] = 1..(Len(outbox[s]) + 1)
      /\ \A i \in DOMAIN outbox[s] : outbox'[s][i] = outbox[s][i]
      /\ outbox'[s][Len(outbox[s]) + 1] = p
  BY <1>1, <1>3, SendElements
<1>6. \A t \in ClientId : DOMAIN outbox[t] = 1..Len(outbox[t])
                          /\ Len(outbox[t]) \in Nat
  BY <1>1, Positions
<1>7. /\ \A t \in ClientId : t # s => inbox'[t] = inbox[t]
      /\ 1 \in DOMAIN inbox[s] /\ inbox[s][1] = Head(inbox[s])
      /\ \A k \in DOMAIN inbox'[s] :
           /\ k \in Nat \ {0}
           /\ k + 1 \in DOMAIN inbox[s] /\ inbox'[s][k] = inbox[s][k + 1]
  BY <1>1, ConsumeElements
<1>8. IsPubrec(inbox[s][1], id)
  BY <1>2, <1>7 DEF IsPubrec
\* Whoever has this id is released now, the others are as they were.
<1>9. \A m \in Msg :
        pstate'[m] = IF /\ Publisher[m] = s /\ ppid[m] = id /\ Qos[m] = 2
                        /\ pstate[m] \in {"sent", "released"}
                     THEN "released" ELSE pstate[m]
  BY DEF ClientPubRec, InFlight
<1>10. \A k \in DOMAIN inbox'[s] : ~ IsPubrec(inbox'[s][k], id)
  <2>1. \A l \in DOMAIN inbox[s] : IsPubrec(inbox[s][l], id) => l = 1
    BY <1>2, <1>7 DEF PubrecInv
  <2> QED
    BY <1>7, <2>1
<1>11. ASSUME NEW t \in ClientId, NEW x,
              \A k \in DOMAIN inbox[t] : ~ IsPubrec(inbox[t][k], x)
       PROVE  \A k \in DOMAIN inbox'[t] : ~ IsPubrec(inbox'[t][k], x)
  BY <1>7, <1>11
<1>12. ASSUME NEW t \in ClientId, NEW x, NoPubrelAhead(t, x), t # s \/ x # id
       PROVE  NoPubrelAhead(t, x)'
  <2>1. ASSUME NEW j \in DOMAIN outbox'[t] PROVE ~ IsPubrel(outbox'[t][j], x)
    <3>1. CASE j \in DOMAIN outbox[t]
      BY <1>5, <1>12, <3>1 DEF NoPubrelAhead
    <3>2. CASE t = s /\ j = Len(outbox[s]) + 1
      BY <1>3, <1>5, <1>12, <3>2 DEF IsPubrel
    <3> QED
      BY <1>5, <1>6, <3>1, <3>2
  <2> QED
    BY <1>4, <1>12, <2>1 DEF NoPubrelAhead, goVars
<1>13. IdsInv'
  BY <1>4, <1>9 DEF IdsInv
<1>14. OutboxInv'
  <2> SUFFICES ASSUME NEW t \in ClientId, NEW i \in DOMAIN outbox'[t],
                      IsPublish2(outbox'[t][i])
               PROVE  OutboxInv!(t)!(i)!2'
    BY DEF OutboxInv
  <2> DEFINE q == outbox[t][i]
  <2>1. i \in DOMAIN outbox[t] /\ outbox'[t][i] = q
    BY <1>3, <1>5, <1>6 DEF IsPublish2
  <2>2. OutboxInv!(t)!(i)!2
    BY <2>1 DEF OutboxInv
  <2>3. q \in Wire /\ q.msg \in Msg
    BY <1>1, <2>1, Positions DEF Wire, IsPublish2
  <2>4. t # s \/ q.pid # id
    BY <1>7, <1>8, <2>2
  <2>5. ASSUME NEW j \in DOMAIN outbox'[t]
        PROVE  /\ j > i => ~ IsPubrel(outbox'[t][j], q.pid)
               /\ IsPublish2(outbox'[t][j]) /\ outbox'[t][j].pid = q.pid
                  => j = i
    <3>1. CASE j \in DOMAIN outbox[t]
      BY <1>5, <2>2, <3>1
    <3>2. CASE t = s /\ j = Len(outbox[s]) + 1
      BY <1>3, <1>5, <2>4, <3>2 DEF IsPubrel, IsPublish2
    <3> QED
      BY <1>5, <1>6, <3>1, <3>2
  <2>6. \A k \in DOMAIN inbox'[t] : ~ IsPubrec(inbox'[t][k], q.pid)
    BY <1>11, <2>2
  <2>7. Publisher[q.msg] = t /\ ppid'[q.msg] = q.pid /\ pstate'[q.msg] = "sent"
    BY <1>4, <1>9, <2>2, <2>3, <2>4 DEF Published
  <2> QED
    BY <2>1, <2>5, <2>6, <2>7 DEF Published
<1>15. RequestInv'
  <2> SUFFICES ASSUME NEW t \in ClientId, gpc[t] \in {"send", "ack"},
                      IsPublish2(req[t])
               PROVE  RequestInv!(t)!2'
    BY <1>4 DEF RequestInv, goVars
  <2> DEFINE q == req[t]
  <2>1. RequestInv!(t)!2
    BY DEF RequestInv
  <2>2. q.msg \in Msg
    BY DEF TypeInv, GoTypes, Wire, IsPublish2
  <2>3. t # s \/ q.pid # id
    BY <1>7, <1>8, <2>1
  <2>4. ASSUME NEW j \in DOMAIN outbox'[t]
        PROVE  /\ ~ IsPubrel(outbox'[t][j], q.pid)
               /\ ~ (IsPublish2(outbox'[t][j]) /\ outbox'[t][j].pid = q.pid)
    <3>1. CASE j \in DOMAIN outbox[t]
      BY <1>5, <2>1, <3>1
    <3>2. CASE t = s /\ j = Len(outbox[s]) + 1
      BY <1>3, <1>5, <2>3, <3>2 DEF IsPubrel, IsPublish2
    <3> QED
      BY <1>5, <1>6, <3>1, <3>2
  <2>5. \A k \in DOMAIN inbox'[t] : ~ IsPubrec(inbox'[t][k], q.pid)
    BY <1>11, <2>1
  <2>6. pstate'[q.msg] = "sent"
    BY <1>9, <2>1, <2>2, <2>3 DEF Published
  <2> QED
    BY <1>4, <2>1, <2>4, <2>5, <2>6 DEF Published, goVars
<1>16. PubrecInv'
  <2> SUFFICES ASSUME NEW t \in ClientId, NEW k \in DOMAIN inbox'[t],
                      inbox'[t][k].type = "PUBREC"
               PROVE  PubrecInv!(t)!(k)!2'
    BY DEF PubrecInv
  <2>1. CASE t # s
    BY <1>4, <1>7, <1>9, <2>1 DEF PubrecInv
  <2>2. CASE t = s
    <3> DEFINE x == inbox'[s][k].pid
    <3>1. x # id
      BY <1>10, <2>2 DEF IsPubrec
    <3>2. /\ k + 1 \in DOMAIN inbox[s] /\ inbox[s][k + 1] = inbox'[s][k]
          /\ k \in Nat
      BY <1>7, <2>2
    <3>3. PubrecInv!(s)!(k + 1)!2
      BY <2>2, <3>2 DEF PubrecInv
    <3>4. ASSUME NEW l \in DOMAIN inbox'[s], IsPubrec(inbox'[s][l], x)
          PROVE  l = k
      <4>1. l + 1 \in DOMAIN inbox[s] /\ inbox[s][l + 1] = inbox'[s][l]
            /\ l \in Nat
        BY <1>7
      <4> QED
        BY <3>2, <3>3, <3>4, <4>1
    <3>5. \E m \in Msg : /\ Publisher[m] = s /\ ppid'[m] = x
                         /\ Qos[m] = 2 /\ pstate'[m] = "sent"
      BY <1>4, <1>9, <3>1, <3>2, <3>3
    <3> QED
      BY <2>2, <3>4, <3>5
  <2> QED
    BY <2>1, <2>2
<1>17. DispatchInv'
  <2> SUFFICES ASSUME dpc = "lock", IsPublish2(dmsg)
               PROVE  DispatchInv!2'
    BY <1>4 DEF DispatchInv, dispVars
  <2>1. dmsg.from \in ClientId /\ dmsg.msg \in Msg /\ Qos[dmsg.msg] = 2
    BY HandFacts DEF IsPublish2
  <2>2. DispatchInv!2
    BY DEF DispatchInv
  <2>3. pstate'[dmsg.msg] = "sent" =>
          pstate[dmsg.msg] = "sent" /\ (dmsg.from # s \/ dmsg.pid # id)
    BY <1>9, <2>1, <2>2 DEF Published
  <2> QED
    BY <1>4, <1>9, <1>12, <2>1, <2>2, <2>3 DEF Published, dispVars
<1>18. CacheInv'
  <2> SUFFICES ASSUME NEW t \in ClientId, NEW x \in Pid,
                      PubStatus[t][x] = "PUBREL"
               PROVE  CacheInv!(t, x)!2'
    BY <1>4 DEF CacheInv, sessVars
  <2> DEFINE m == CacheMsg[t][x]
  <2>1. CacheInv!(t, x)!2
    BY DEF CacheInv
  <2>2. pstate'[m] = "sent" => pstate[m] = "sent" /\ (t # s \/ x # id)
    BY <1>9, <2>1
  <2> QED
    BY <1>4, <1>9, <1>12, <2>1, <2>2 DEF sessVars, dispVars
<1> QED
  BY <1>13, <1>14, <1>15, <1>16, <1>17, <1>18


(* The goroutine reads a packet: what was behind it on the connection still *)
(* is.                                                                      *)
LEMMA FlowRead ==
  ASSUME TypeInv, TypeInv', FlowInv, NEW s \in ClientId, Read(s)
  PROVE  FlowInv'
<1> USE DEF FlowInv
<1>1. NetTypes /\ NetTypes'
  BY DEF TypeInv
<1>2. /\ UNCHANGED <<sessVars, dispVars, inbox, clientVars>>
      /\ gpc' = [gpc EXCEPT ![s] = "send"]
      /\ gpc \in [ClientId -> {"off", "read", "send", "ack"}]
      /\ req \in [ClientId -> Packet]
  BY DEF Read, TypeInv, GoTypes
<1>0. PICK n \in Nat : Takes(s, n)
  BY <1>1, ReadElements
<1>3. /\ n \in Nat \ {0}
      /\ \A t \in ClientId : t # s => outbox'[t] = outbox[t]
      /\ req' = [req EXCEPT ![s] = outbox[s][1]]
      /\ 1 \in DOMAIN outbox[s]
      /\ \A i \in DOMAIN outbox'[s] :
           /\ i \in Nat \ {0}
           /\ i + n \in DOMAIN outbox[s] /\ outbox'[s][i] = outbox[s][i + n]
  BY <1>0 DEF Takes
<1>4. ASSUME NEW t \in ClientId, NEW x, NoPubrelAhead(t, x)
      PROVE  NoPubrelAhead(t, x)'
  BY <1>2, <1>3, <1>4 DEF NoPubrelAhead
<1>5. IdsInv'
  BY <1>2 DEF IdsInv, clientVars
<1>6. OutboxInv'
  <2> SUFFICES ASSUME NEW t \in ClientId, NEW i \in DOMAIN outbox'[t],
                      IsPublish2(outbox'[t][i])
               PROVE  OutboxInv!(t)!(i)!2'
    BY DEF OutboxInv
  <2>1. CASE t # s
    BY <1>2, <1>3, <2>1 DEF OutboxInv, Published, clientVars
  <2>2. CASE t = s
    <3> DEFINE q == outbox[s][i + n]
    <3>1. /\ i \in Nat /\ i + n \in DOMAIN outbox[s] /\ outbox'[s][i] = q
          /\ IsPublish2(q)
      BY <1>3, <2>2
    <3>2. OutboxInv!(s)!(i + n)!2
      BY <3>1 DEF OutboxInv
    <3>3. ASSUME NEW j \in DOMAIN outbox'[s]
          PROVE  /\ j > i => ~ IsPubrel(outbox'[s][j], q.pid)
                 /\ IsPublish2(outbox'[s][j]) /\ outbox'[s][j].pid = q.pid
                    => j = i
      <4>1. /\ j \in Nat /\ j + n \in DOMAIN outbox[s]
            /\ outbox'[s][j] = outbox[s][j + n]
        BY <1>3
      <4> QED
        BY <3>1, <3>2, <4>1
    <3> QED
      BY <1>2, <2>2, <3>1, <3>2, <3>3 DEF Published, clientVars
  <2> QED
    BY <2>1, <2>2
<1>7. RequestInv'
  <2> SUFFICES ASSUME NEW t \in ClientId, gpc'[t] \in {"send", "ack"},
                      IsPublish2(req'[t])
               PROVE  RequestInv!(t)!2'
    BY DEF RequestInv
  <2>1. CASE t # s
    BY <1>2, <1>3, <2>1 DEF RequestInv, Published, clientVars
  <2>2. CASE t = s
    <3> DEFINE q == outbox[s][1]
    <3>1. req'[s] = q /\ 1 \in DOMAIN outbox[s] /\ IsPublish2(q)
      BY <1>2, <1>3, <2>2
    <3>2. OutboxInv!(s)!(1)!2
      BY <3>1 DEF OutboxInv
    <3>3. ASSUME NEW j \in DOMAIN outbox'[s]
          PROVE  /\ ~ IsPubrel(outbox'[s][j], q.pid)
                 /\ ~ (IsPublish2(outbox'[s][j]) /\ outbox'[s][j].pid = q.pid)
      <4>1. /\ j \in Nat \ {0} /\ j + n \in DOMAIN outbox[s]
            /\ outbox'[s][j] = outbox[s][j + n]
        BY <1>3
      <4>2. j + n # 1 /\ j + n > 1
        BY <1>3, <4>1
      <4> QED
        BY <3>2, <4>1, <4>2
    <3> QED
      BY <1>2, <2>2, <3>1, <3>2, <3>3 DEF Published, clientVars
  <2> QED
    BY <2>1, <2>2
<1>8. PubrecInv'
  BY <1>2 DEF PubrecInv, clientVars
<1>9. DispatchInv'
  <2> SUFFICES ASSUME dpc = "lock", IsPublish2(dmsg)
               PROVE  DispatchInv!2'
    BY <1>2 DEF DispatchInv, dispVars
  <2>1. dmsg.from \in ClientId
    BY HandFacts DEF IsPublish2
  <2> QED
    BY <1>2, <1>4, <2>1 DEF DispatchInv, Published, dispVars, clientVars
<1>10. CacheInv'
  <2> SUFFICES ASSUME NEW t \in ClientId, NEW x \in Pid,
                      PubStatus[t][x] = "PUBREL"
               PROVE  CacheInv!(t, x)!2'
    BY <1>2 DEF CacheInv, sessVars
  <2> QED
    BY <1>2, <1>4 DEF CacheInv, sessVars, dispVars, clientVars
<1> QED
  BY <1>5, <1>6, <1>7, <1>8, <1>9, <1>10

(* A client connects: nothing but what it sends again is on its way to the  *)
(* server, nothing but queued messages to the client.                       *)
LEMMA FlowConnect ==
  ASSUME TypeInv, TypeInv', FlowInv, NEW s \in ClientId, Connect(s)
  PROVE  FlowInv'
<1> USE DEF FlowInv
<1>1. NetTypes /\ NetTypes'
  BY DEF TypeInv
<1>2. /\ UNCHANGED <<CacheMsg, req, dispVars, clientVars>>
      /\ gpc' = [gpc EXCEPT ![s] = "read"]
      /\ gpc \in [ClientId -> {"off", "read", "send", "ack"}]
      /\ inbox' = [inbox EXCEPT ![s] = Flushed(s)]
  BY DEF Connect, TypeInv, GoTypes
<1>3. PICK q \in Again(s) :
        outbox' = [outbox EXCEPT ![s] = [i \in DOMAIN q |-> Resend(q[i])]]
  BY DEF Connect
<1>4. /\ \A t \in ClientId : t # s => /\ outbox'[t] = outbox[t]
                                      /\ inbox'[t] = inbox[t]
      /\ inbox'[s] = Flushed(s)
      /\ DOMAIN outbox'[s] = DOMAIN q
      /\ \A i \in DOMAIN q : outbox'[s][i] = Resend(q[i])
  BY <1>1, <1>2, <1>3 DEF NetTypes
<1>5. \A k \in DOMAIN inbox'[s] : inbox'[s][k].type = "PUBLISH"
  BY <1>4 DEF Flushed, Publish
\* The messages sent again, their ids, and no id twice.
<1>6. ASSUME NEW i \in DOMAIN q
      PROVE  /\ q[i] \in Msg /\ Publisher[q[i]] = s
             /\ pstate[q[i]] \in {"sent", "released"}
             /\ outbox'[s][i].pid = ppid[q[i]]
             /\ pstate[q[i]] = "sent" =>
                  outbox'[s][i].type = "PUBLISH" /\ outbox'[s][i].msg = q[i]
             /\ pstate[q[i]] = "released" => outbox'[s][i].type = "PUBREL"
  <2> DEFINE m == q[i]
  <2>1. m \in Unfinished(s) /\ outbox'[s][i] = Resend(m)
    BY <1>4, AgainFacts
  <2>2. /\ m \in Msg /\ Publisher[m] = s
        /\ pstate[m] \in {"sent", "released"}
    BY <2>1 DEF Unfinished
  <2> HIDE DEF m
  <2>3. /\ Resend(m).pid = ppid[m]
        /\ pstate[m] = "sent" =>
             Resend(m).type = "PUBLISH" /\ Resend(m).msg = m
        /\ pstate[m] = "released" => Resend(m).type = "PUBREL"
    BY DEF Resend, Publish, Ack
  <2> QED
    BY <2>1, <2>2, <2>3 DEF m
<1>7. ASSUME NEW i \in DOMAIN q, NEW j \in DOMAIN q, ppid[q[i]] = ppid[q[j]]
      PROVE  i = j
  <2>1. q[i] = q[j]
    BY <1>6, <1>7 DEF IdsInv
  <2>2. i \in Nat /\ j \in Nat
    BY AgainFacts
  <2>3. q[i] \in Nat /\ q[j] \in Nat
    BY <1>6, MsgFacts
  <2>4. (i < j => q[i] < q[j]) /\ (j < i => q[j] < q[i])
    BY AgainFacts
  <2> QED
    BY <2>1, <2>2, <2>3, <2>4
<1>8. ASSUME NEW t \in ClientId, NEW m \in Msg, Publisher[m] = t,
             pstate[m] = "sent", NoPubrelAhead(t, ppid[m])
      PROVE  NoPubrelAhead(t, ppid[m])'
  <2>1. CASE t # s
    BY <1>2, <1>4, <1>8, <2>1 DEF NoPubrelAhead, clientVars
  <2>2. CASE t = s
    <3> SUFFICES ASSUME NEW j \in DOMAIN outbox'[s],
                        IsPubrel(outbox'[s][j], ppid[m])
                 PROVE  FALSE
      BY <1>2, <2>2 DEF NoPubrelAhead, clientVars
    <3>1. j \in DOMAIN q /\ pstate[q[j]] = "released" /\ ppid[q[j]] = ppid[m]
      BY <1>4, <1>6 DEF IsPubrel
    <3>2. q[j] \in Msg /\ Publisher[q[j]] = s
      BY <1>6, <3>1
    <3>3. q[j] = m
      BY <1>8, <2>2, <3>1, <3>2 DEF IdsInv
    <3> QED
      BY <1>8, <3>1, <3>3
  <2> QED
    BY <2>1, <2>2
<1>9. IdsInv'
  BY <1>2 DEF IdsInv, clientVars
<1>10. OutboxInv'
  <2> SUFFICES ASSUME NEW t \in ClientId, NEW i \in DOMAIN outbox'[t],
                      IsPublish2(outbox'[t][i])
               PROVE  OutboxInv!(t)!(i)!2'
    BY DEF OutboxInv
  <2>1. CASE t # s
    BY <1>2, <1>4, <2>1 DEF OutboxInv, Published, clientVars
  <2>2. CASE t = s
    <3>1. i \in DOMAIN q /\ pstate[q[i]] = "sent"
          /\ outbox'[s][i].msg = q[i] /\ outbox'[s][i].pid = ppid[q[i]]
      BY <1>4, <1>6, <2>2 DEF IsPublish2
    <3>2. ASSUME NEW j \in DOMAIN outbox'[s],
                 outbox'[s][j].pid = ppid[q[i]]
          PROVE  j = i
      <4>1. j \in DOMAIN q /\ ppid[q[j]] = ppid[q[i]]
        BY <1>4, <1>6, <3>2
      <4> QED
        BY <1>7, <3>1, <4>1
    <3> QED
      BY <1>2, <1>4, <1>5, <1>6, <2>2, <3>1, <3>2
      DEF Published, IsPubrel, IsPubrec, IsPublish2, clientVars
  <2> QED
    BY <2>1, <2>2
<1>11. RequestInv'
  BY <1>2, <1>4 DEF RequestInv, Published, clientVars
<1>12. PubrecInv'
  <2> SUFFICES ASSUME NEW t \in ClientId, NEW k \in DOMAIN inbox'[t],
                      inbox'[t][k].type = "PUBREC"
               PROVE  PubrecInv!(t)!(k)!2'
    BY DEF PubrecInv
  <2> QED
    BY <1>2, <1>4, <1>5 DEF PubrecInv, clientVars
<1>13. DispatchInv'
  <2> SUFFICES ASSUME dpc = "lock", IsPublish2(dmsg)
               PROVE  DispatchInv!2'
    BY <1>2 DEF DispatchInv, dispVars
  <2>1. dmsg.from \in ClientId /\ dmsg.msg \in Msg
    BY HandFacts DEF IsPublish2
  <2> QED
    BY <1>2, <1>8, <2>1 DEF DispatchInv, Published, dispVars, clientVars
<1>14. CacheInv'
  <2> SUFFICES ASSUME NEW t \in ClientId, NEW x \in Pid,
                      PubStatus'[t][x] = "PUBREL"
               PROVE  CacheInv!(t, x)!2'
    BY DEF CacheInv
  <2>1. PubStatus[t][x] = "PUBREL"
    BY DEF Connect, TypeInv, SessTypes
  <2> QED
    BY <1>2, <1>8, <2>1 DEF CacheInv, dispVars, clientVars
<1> QED
  BY <1>9, <1>10, <1>11, <1>12, <1>13, <1>14

(* A QoS 2 publish is acknowledged.                                         *)
LEMMA FlowAck ==
  ASSUME TypeInv, TypeInv', FlowInv, NEW s \in ClientId, AckPublish(s),
         Qos[req[s].msg] = 2
  PROVE  FlowInv'
<1> USE DEF FlowInv
<1> DEFINE p == req[s]
<1>1. NetTypes /\ NetTypes'
  BY DEF TypeInv
<1>2. /\ UNCHANGED <<sessVars, dispVars, outbox, clientVars>>
      /\ gpc' = [gpc EXCEPT ![s] = "read"]
      /\ req' = [req EXCEPT ![s] = NoPacket]
      /\ gpc \in [ClientId -> {"off", "read", "send", "ack"}]
      /\ req \in [ClientId -> Packet]
      /\ gpc[s] = "ack"
      /\ Write(s, <<Ack("PUBREC", p.pid)>>)
  BY DEF AckPublish, TypeInv, GoTypes
<1>3. p \in Wire /\ IsPublish2(p) /\ p.msg \in Msg
  BY <1>2 DEF TypeInv, GoTypes, IsPublish2, Wire
<1>4. RequestInv!(s)!2
  BY <1>2, <1>3 DEF RequestInv
<1>5. /\ \A t \in ClientId : t # s => inbox'[t] = inbox[t]
      /\ \A k \in DOMAIN inbox'[s] :
           \/ k \in DOMAIN inbox[s] /\ inbox'[s][k] = inbox[s][k]
           \/ k = Len(inbox[s]) + 1 /\ inbox'[s][k] = Ack("PUBREC", p.pid)
      /\ inbox[s] \in Seq(Wire)
  <2>1. inbox[s] \in Seq(Wire) /\ <<Ack("PUBREC", p.pid)>> \in Seq(Packet)
    <3>1. Ack("PUBREC", p.pid) \in Wire
      BY <1>3, PacketFacts DEF Acks, Wire, IsPublish2
    <3> QED
      BY <1>1, <3>1, PacketFacts DEF NetTypes
  <2>2. \/ inbox'[s] = inbox[s]
        \/ inbox'[s] = inbox[s] \o <<Ack("PUBREC", p.pid)>>
    BY <1>1, <1>2 DEF Write, NetTypes
  <2> QED
    BY <1>1, <1>2, <2>1, <2>2 DEF Write, NetTypes
<1>6. ASSUME NEW t \in ClientId, NEW x,
             \A k \in DOMAIN inbox[t] : ~ IsPubrec(inbox[t][k], x),
             t # s \/ x # p.pid
      PROVE  \A k \in DOMAIN inbox'[t] : ~ IsPubrec(inbox'[t][k], x)
  BY <1>5, <1>6 DEF IsPubrec, Ack
<1>7. IdsInv'
  BY <1>2 DEF IdsInv, clientVars
<1>8. ASSUME NEW t \in ClientId, NEW x, NoPubrelAhead(t, x)
      PROVE  NoPubrelAhead(t, x)'
  BY <1>2, <1>8 DEF NoPubrelAhead
<1>9. OutboxInv'
  <2> SUFFICES ASSUME NEW t \in ClientId, NEW i \in DOMAIN outbox[t],
                      IsPublish2(outbox[t][i])
               PROVE  OutboxInv!(t)!(i)!2'
    BY <1>2 DEF OutboxInv
  <2>1. OutboxInv!(t)!(i)!2
    BY DEF OutboxInv
  <2>2. t # s \/ outbox[t][i].pid # p.pid
    BY <1>4
  <2>3. \A k \in DOMAIN inbox'[t] : ~ IsPubrec(inbox'[t][k], outbox[t][i].pid)
    BY <1>6, <2>1, <2>2
  <2> QED
    BY <1>2, <2>1, <2>3 DEF Published, clientVars
<1>10. RequestInv'
  <2> SUFFICES ASSUME NEW t \in ClientId, gpc'[t] \in {"send", "ack"},
                      IsPublish2(req'[t])
               PROVE  RequestInv!(t)!2'
    BY DEF RequestInv
  <2>1. t # s
    BY <1>2
  <2> QED
    BY <1>2, <1>5, <2>1 DEF RequestInv, Published, clientVars
<1>11. PubrecInv'
  <2> SUFFICES ASSUME NEW t \in ClientId, NEW k \in DOMAIN inbox'[t],
                      inbox'[t][k].type = "PUBREC"
               PROVE  PubrecInv!(t)!(k)!2'
    BY DEF PubrecInv
  <2>1. CASE t # s
    BY <1>2, <1>5, <2>1 DEF PubrecInv, clientVars
  <2>2. CASE t = s /\ k \in DOMAIN inbox[s] /\ inbox'[s][k] = inbox[s][k]
    <3>1. inbox[s][k].pid # p.pid
      BY <1>4, <2>2 DEF IsPubrec
    <3>2. PubrecInv!(s)!(k)!2
      BY <2>2 DEF PubrecInv
    <3> QED
      BY <1>2, <1>5, <2>2, <3>1, <3>2 DEF IsPubrec, Ack, clientVars
  <2>3. CASE /\ t = s /\ k = Len(inbox[s]) + 1
             /\ inbox'[s][k] = Ack("PUBREC", p.pid)
    <3>1. \A l \in DOMAIN inbox'[s] :
            IsPubrec(inbox'[s][l], p.pid) => l = k
      BY <1>4, <1>5, <2>3
    <3>2. /\ Publisher[p.msg] = s /\ ppid[p.msg] = p.pid /\ Qos[p.msg] = 2
          /\ pstate[p.msg] = "sent"
      BY <1>4 DEF Published
    <3> QED
      BY <1>2, <1>3, <2>3, <3>1, <3>2 DEF Ack, clientVars
  <2> QED
    BY <1>5, <2>1, <2>2, <2>3
<1>12. DispatchInv'
  <2> SUFFICES ASSUME dpc = "lock", IsPublish2(dmsg)
               PROVE  DispatchInv!2'
    BY <1>2 DEF DispatchInv, dispVars
  <2>1. dmsg.from \in ClientId
    BY HandFacts DEF IsPublish2
  <2> QED
    BY <1>2, <1>8, <2>1 DEF DispatchInv, Published, dispVars, clientVars
<1>13. CacheInv'
  <2> SUFFICES ASSUME NEW t \in ClientId, NEW x \in Pid,
                      PubStatus[t][x] = "PUBREL"
               PROVE  CacheInv!(t, x)!2'
    BY <1>2 DEF CacheInv, sessVars
  <2> QED
    BY <1>2, <1>8 DEF CacheInv, sessVars, dispVars, clientVars
<1> QED
  BY <1>7, <1>9, <1>10, <1>11, <1>12, <1>13

(* The dispatcher takes a packet from a goroutine.                          *)
LEMMA FlowAccept ==
  ASSUME TypeInv, TypeInv', FlowInv, NEW s \in ClientId, DispatchRecv(s)
  PROVE  FlowInv'
<1> USE DEF FlowInv
<1>1. /\ UNCHANGED <<sessVars, netVars, clientVars>>
      /\ gpc[s] = "send" /\ gpc'[s] # "send"
      /\ \A t \in ClientId : t # s => gpc'[t] = gpc[t] /\ req'[t] = req[t]
      /\ gpc'[s] = "ack" => req'[s] = req[s]
      /\ gpc'[s] \in {"read", "ack"}
      /\ IsPublish2(req[s]) => gpc'[s] = "ack"
      /\ dpc' = "lock" /\ dmsg'.from = s
      /\ dmsg'.type = req[s].type /\ dmsg'.pid = req[s].pid
      /\ dmsg'.msg = req[s].msg
  BY DEF DispatchRecv, TypeInv, GoTypes, IsPublish2
<1>2. ASSUME NEW t \in ClientId, NEW x, NoPubrelAhead(t, x)
      PROVE  NoPubrelAhead(t, x)'
  BY <1>1, <1>2 DEF NoPubrelAhead, netVars
<1>3. IdsInv' /\ OutboxInv' /\ PubrecInv'
  BY <1>1 DEF IdsInv, OutboxInv, PubrecInv, Published, netVars, clientVars
<1>4. RequestInv'
  <2> SUFFICES ASSUME NEW t \in ClientId, gpc'[t] \in {"send", "ack"},
                      IsPublish2(req'[t])
               PROVE  RequestInv!(t)!2'
    BY DEF RequestInv
  <2>1. req'[t] = req[t] /\ gpc[t] \in {"send", "ack"}
    BY <1>1
  <2> QED
    BY <1>1, <2>1 DEF RequestInv, Published, netVars, clientVars
<1>5. DispatchInv'
  <2> SUFFICES ASSUME IsPublish2(dmsg')
               PROVE  DispatchInv!2'
    BY DEF DispatchInv
  <2>1. IsPublish2(req[s])
    BY <1>1 DEF IsPublish2
  <2>2. RequestInv!(s)!2
    BY <1>1, <2>1 DEF RequestInv
  <2>3. \A j \in DOMAIN outbox'[s] : ~ IsPubrel(outbox'[s][j], dmsg'.pid)
    BY <1>1, <2>2 DEF netVars
  <2>4. NoPubrelAhead(dmsg.from, dmsg.pid)'
    BY <1>1, <2>3 DEF NoPubrelAhead
  <2>5. Published(dmsg.from, dmsg)' /\ pstate'[dmsg'.msg] = "sent"
    BY <1>1, <2>2 DEF Published, clientVars
  <2> QED
    BY <2>4, <2>5
<1>6. CacheInv'
  <2> SUFFICES ASSUME NEW t \in ClientId, NEW x \in Pid,
                      PubStatus[t][x] = "PUBREL"
               PROVE  CacheInv!(t, x)!2'
    BY <1>1 DEF CacheInv, sessVars
  <2>1. CacheInv!(t, x)!2
    BY DEF CacheInv
  <2>2. NoPubrelAhead(t, x) => ~ (dmsg'.from = t /\ IsPubrel(dmsg', x))
    BY <1>1 DEF NoPubrelAhead, IsPubrel
  <2> QED
    BY <1>1, <1>2, <2>1, <2>2 DEF sessVars, clientVars
<1> QED
  BY <1>3, <1>4, <1>5, <1>6

(* A QoS 2 message is kept in CacheMsg: no PUBREL for it is on its way if   *)
(* its publisher has yet to send one.                                       *)
LEMMA FlowKeep ==
  ASSUME TypeInv, TypeInv', FlowInv, BeginPublish, Qos[dmsg.msg] = 2
  PROVE  FlowInv'
<1> USE DEF FlowInv
<1> DEFINE s == dmsg.from
           id == dmsg.pid
           m == dmsg.msg
<1>1. /\ dpc = "lock" /\ dmsg.type = "PUBLISH" /\ dpc' = "loop"
      /\ UNCHANGED <<goVars, netVars, clientVars>>
      /\ s \in ClientId /\ m \in Msg /\ id \in Pid
  BY HandFacts DEF BeginPublish, Processing, Loop
<1>2. /\ PubStatus' = [PubStatus EXCEPT ![s][id] = "PUBREL"]
      /\ CacheMsg' = [CacheMsg EXCEPT ![s][id] = m]
  BY DEF BeginPublish, SetStatus
<1>3. ASSUME NEW t \in ClientId, NEW x, NoPubrelAhead(t, x)
      PROVE  NoPubrelAhead(t, x)'
  BY <1>1, <1>3 DEF NoPubrelAhead, goVars, netVars
<1>4. IdsInv' /\ OutboxInv' /\ RequestInv' /\ PubrecInv' /\ DispatchInv'
  BY <1>1 DEF IdsInv, OutboxInv, RequestInv, PubrecInv, DispatchInv, Published,
     goVars, netVars, clientVars
<1>5. CacheInv'
  <2> SUFFICES ASSUME NEW t \in ClientId, NEW x \in Pid,
                      PubStatus'[t][x] = "PUBREL"
               PROVE  CacheInv!(t, x)!2'
    BY DEF CacheInv
  <2>1. CASE t = s /\ x = id
    <3>1. CacheMsg'[t][x] = m
      BY <1>1, <1>2, <2>1 DEF TypeInv, SessTypes
    <3>2. /\ Published(s, dmsg) /\ pstate[m] # "idle"
          /\ pstate[m] = "sent" => NoPubrelAhead(s, id)
      BY <1>1 DEF DispatchInv, IsPublish2
    <3> QED
      BY <1>1, <1>3, <2>1, <3>1, <3>2 DEF Published, clientVars
  <2>2. CASE ~ (t = s /\ x = id)
    <3>1. /\ CacheMsg'[t][x] = CacheMsg[t][x]
          /\ PubStatus'[t][x] = PubStatus[t][x]
      BY <1>1, <1>2, <2>2 DEF TypeInv, SessTypes
    <3>2. CacheInv!(t, x)!2
      BY <3>1 DEF CacheInv
    <3> QED
      BY <1>1, <1>3, <3>1, <3>2 DEF clientVars
  <2> QED
    BY <2>1, <2>2
<1> QED
  BY <1>4, <1>5

(* The other steps of clients and connections.                              *)
LEMMA FlowClient ==
  ASSUME TypeInv, TypeInv', FlowInv, NEW s \in ClientId,
         \/ ClientReceive(s) \/ ClientReleased(s) \/ ClientPubDone(s)
         \/ Drop(s) \/ Exit(s)
         \/ AckPublish(s) /\ Qos[req[s].msg] # 2
  PROVE  FlowInv'
<1> DEFINE p == Head(inbox[s])
<1>1. NetTypes /\ GoTypes
  BY DEF TypeInv
<1>2. ASSUME UNCHANGED <<sessVars, goVars, dispVars>>
      PROVE  HandFrame /\ StatusFrame
  BY <1>2 DEF HandFrame, StatusFrame, sessVars, goVars, dispVars
<1>3. UNCHANGED <<pstate, ppid>> => ProgressFrame
  BY DEF ProgressFrame
<1>4. CASE ClientReceive(s)
  <2>1. inbox[s] # <<>> /\ p \in Wire /\ p.type = "PUBLISH" /\ p.msg \in Msg
    BY <1>1, <1>4, ConsumeTypes DEF ClientReceive, Arriving, Wire
  <2>2. InboxFrame(Pubrecs)
    BY <1>1, <1>4, <2>1, ConsumeFrame DEF ClientReceive
  <2>3. Qos[p.msg] = 0 \/ Qos[p.msg] = 1 \/ Qos[p.msg] = 2
    <3>1. Qos[p.msg] \in 0..2
      BY <2>1, MsgFacts
    <3> QED
      BY <3>1
  <2>4. OutboxFrame
    <3>1. CASE Qos[p.msg] = 0
      BY <1>1, <1>4, <3>1, SameFrames DEF ClientReceive
    <3>2. CASE Qos[p.msg] # 0
      <4>1. p.pid \in Pid
        BY <2>1, <2>3, <3>2 DEF Wire
      <4>2. PICK type \in {"PUBACK", "PUBREC"} : Send(s, Ack(type, p.pid))
        BY <1>4, <2>3, <3>2 DEF ClientReceive
      <4>3. /\ Ack(type, p.pid) \in Wire
            /\ Ack(type, p.pid).type \notin {"PUBLISH", "PUBREL"}
        BY <4>1, PacketFacts DEF Ack, Acks
      <4> QED
        BY <1>1, <4>2, <4>3, SendFrame
    <3> QED
      BY <3>1, <3>2
  <2> QED
    BY <1>2, <1>3, <1>4, <2>2, <2>4, FlowFrame DEF ClientReceive
<1>5. CASE ClientReleased(s)
  <2>1. inbox[s] # <<>> /\ p \in Wire /\ p.pid \in Pid
    BY <1>1, <1>5, ConsumeTypes DEF ClientReleased, Arriving, Wire
  <2>2. InboxFrame(Pubrecs)
    BY <1>1, <1>5, <2>1, ConsumeFrame DEF ClientReleased
  <2>3. /\ Ack("PUBCOMP", p.pid) \in Wire
        /\ Ack("PUBCOMP", p.pid).type \notin {"PUBLISH", "PUBREL"}
    BY <2>1, PacketFacts DEF Ack, Acks
  <2>4. OutboxFrame
    BY <1>1, <1>5, <2>3, SendFrame DEF ClientReleased
  <2> QED
    BY <1>2, <1>3, <1>5, <2>2, <2>4, FlowFrame DEF ClientReleased
<1>6. CASE ClientPubDone(s)
  <2>1. InboxFrame(Pubrecs) /\ OutboxFrame
    BY <1>1, <1>6, ConsumeFrame, SameFrames DEF ClientPubDone, Arriving
  <2>2. ProgressFrame
    BY <1>6 DEF ClientPubDone, ProgressFrame, InFlight
  <2> QED
    BY <1>2, <1>6, <2>1, <2>2, FlowFrame DEF ClientPubDone
<1>7. CASE Drop(s)
  <2>1. InboxFrame(Pubrecs)
    BY <1>1, <1>7, SameFrames DEF Drop, InboxFrame, NetTypes
  <2>2. OutboxFrame
    BY <1>1, <1>7, SameFrames DEF Drop, OutboxFrame, NetTypes
  <2> QED
    BY <1>2, <1>3, <1>7, <2>1, <2>2, FlowFrame DEF Drop, clientVars
<1>8. CASE Exit(s)
  <2>1. HandFrame /\ StatusFrame
    BY <1>1, <1>8 DEF Exit, HandFrame, StatusFrame, GoTypes, dispVars
  <2>2. InboxFrame(Pubrecs) /\ OutboxFrame
    BY <1>1, <1>8, SameFrames DEF Exit, netVars
  <2> QED
    BY <1>3, <1>8, <2>1, <2>2, FlowFrame DEF Exit, clientVars
<1>9. CASE AckPublish(s) /\ Qos[req[s].msg] # 2
  <2>1. HandFrame /\ StatusFrame
    BY <1>1, <1>9 DEF AckPublish, HandFrame, StatusFrame, GoTypes, dispVars,
       sessVars
  <2>2. /\ req[s] \in Wire /\ req[s].type = "PUBLISH" /\ req[s].msg \in Msg
        /\ Qos[req[s].msg] = 0 \/ Qos[req[s].msg] = 1
    <3>1. req[s] \in Wire /\ req[s].type = "PUBLISH"
      BY <1>1, <1>9 DEF AckPublish, GoTypes
    <3>2. req[s].msg \in Msg
      BY <3>1 DEF Wire
    <3>3. Qos[req[s].msg] \in 0..2
      BY <3>2, MsgFacts
    <3> QED
      BY <1>9, <3>1, <3>2, <3>3
  <2>3. InboxFrame(Pubrecs)
    <3>1. CASE Qos[req[s].msg] = 0
      BY <1>1, <1>9, <3>1, SameFrames DEF AckPublish
    <3>2. CASE Qos[req[s].msg] = 1
      <4> DEFINE ps == <<Ack("PUBACK", req[s].pid)>>
      <4>1. ps \in Seq(Wire) /\ \A i \in DOMAIN ps : ps[i] \notin Pubrecs
        <5>1. Ack("PUBACK", req[s].pid) \in Wire
          BY <2>2, <3>2, PacketFacts DEF Wire, Acks
        <5> QED
          BY <5>1 DEF Ack, Pubrecs
      <4>2. Write(s, ps)
        BY <1>9, <3>2 DEF AckPublish
      <4> QED
        BY <1>1, <4>1, <4>2, WriteFrame
    <3> QED
      BY <2>2, <3>1, <3>2
  <2>4. OutboxFrame
    BY <1>1, <1>9, SameFrames DEF AckPublish
  <2> QED
    BY <1>3, <1>9, <2>1, <2>3, <2>4, FlowFrame DEF AckPublish, clientVars
<1> QED
  BY <1>4, <1>5, <1>6, <1>7, <1>8, <1>9

(* The other steps of the dispatcher: the only entries PUBREL of PubStatus  *)
(* come from FlowKeep.                                                      *)
LEMMA FlowHand ==
  ASSUME TypeInv, TypeInv', FlowInv,
         \/ \E m \in Msg : ClusterRecv(m)
         \/ BeginPublish /\ Qos[dmsg.msg] # 2
         \/ BeginCluster \/ BeginRelease
         \/ ProcessPubAck \/ ProcessPubRec \/ ProcessPubComp \/ DropAck
         \/ EndLoop
  PROVE  FlowInv'
<1> USE DEF Processing
<1> DEFINE s == dmsg.from
           id == dmsg.pid
<1>1. NetTypes /\ SessTypes
  BY DEF TypeInv
<1>2. UNCHANGED clientVars => ProgressFrame
  BY DEF ProgressFrame, clientVars
<1>3. ASSUME UNCHANGED goVars,
             dpc' \in {"select", "loop"} \/ dmsg'.type = "CLUSTER"
      PROVE  HandFrame
  BY <1>3 DEF HandFrame, goVars
<1>4. UNCHANGED netVars => InboxFrame(Pubrecs) /\ OutboxFrame
  BY <1>1, SameFrames DEF netVars
<1>5. UNCHANGED <<PubStatus, CacheMsg>> => StatusFrame
  BY DEF StatusFrame
<1>6. ASSUME NEW m \in Msg, ClusterRecv(m) PROVE FlowInv'
  <2>1. dmsg'.type = "CLUSTER"
    BY <1>6 DEF ClusterRecv, NoReq
  <2> QED
    BY <1>2, <1>3, <1>4, <1>5, <1>6, <2>1, FlowFrame DEF ClusterRecv, sessVars
<1>7. CASE BeginPublish /\ Qos[dmsg.msg] # 2
  BY <1>2, <1>3, <1>4, <1>5, <1>7, FlowFrame DEF BeginPublish, Loop
<1>8. CASE BeginCluster \/ DropAck \/ EndLoop
  BY <1>2, <1>3, <1>4, <1>5, <1>8, FlowFrame
  DEF BeginCluster, DropAck, EndLoop, Loop, Unlock, sessVars
\* The acknowledgements: the entry of the packet is not PUBREL afterwards.
<1>9. ASSUME s \in ClientId, id \in Pid, NEW status \in Status \ {"PUBREL"},
             SetStatus(s, id, status),
             \/ CacheMsg' = CacheMsg
             \/ CacheMsg' = [CacheMsg EXCEPT ![s][id] = 0]
      PROVE  StatusFrame
  BY <1>1, <1>9 DEF StatusFrame, SetStatus, SessTypes
<1>10. ASSUME s \in ClientId, id \in Pid, NEW type \in Acks \ {"PUBREC"},
              Write(s, <<Ack(type, id)>>)
       PROVE  InboxFrame(Pubrecs)
  <2> DEFINE ps == <<Ack(type, id)>>
  <2>1. ps \in Seq(Wire) /\ \A i \in DOMAIN ps : ps[i] \notin Pubrecs
    <3>1. Ack(type, id) \in Wire
      BY <1>10, PacketFacts
    <3> QED
      BY <3>1 DEF Ack, Pubrecs
  <2> QED
    BY <1>1, <1>10, <2>1, WriteFrame
<1>11. CASE BeginRelease
  <2>1. s \in ClientId /\ id \in Pid /\ dpc' \in {"select", "loop"}
    BY <1>11, HandFacts DEF BeginRelease, Acks, Loop, Unlock
  <2>2. InboxFrame(Pubrecs) /\ OutboxFrame
    BY <1>1, <1>10, <1>11, <2>1, SameFrames DEF BeginRelease, Complete, Acks
  <2>3. StatusFrame
    BY <1>9, <1>11, <2>1 DEF BeginRelease, Complete, Status, Acks
  <2> QED
    BY <1>2, <1>3, <1>11, <2>1, <2>2, <2>3, FlowFrame DEF BeginRelease
<1>12. CASE ProcessPubAck \/ ProcessPubComp
  <2>1. s \in ClientId /\ id \in Pid /\ dpc' = "select"
    BY <1>12, HandFacts DEF ProcessPubAck, ProcessPubComp, Acks, Unlock
  <2>2. StatusFrame
    BY <1>9, <1>12, <2>1 DEF ProcessPubAck, ProcessPubComp, Status, Acks
  <2> QED
    BY <1>2, <1>3, <1>4, <1>12, <2>1, <2>2, FlowFrame
    DEF ProcessPubAck, ProcessPubComp
<1>13. CASE ProcessPubRec
  <2>1. s \in ClientId /\ id \in Pid /\ dpc' = "select"
    BY <1>13, HandFacts DEF ProcessPubRec, Acks, Unlock
  <2>2. InboxFrame(Pubrecs) /\ OutboxFrame
    BY <1>1, <1>10, <1>13, <2>1, SameFrames DEF ProcessPubRec, Acks
  <2>3. StatusFrame
    BY <1>9, <1>13, <2>1 DEF ProcessPubRec, Status, Acks
  <2> QED
    BY <1>2, <1>3, <1>13, <2>1, <2>2, <2>3, FlowFrame DEF ProcessPubRec
<1> QED
  BY <1>6, <1>7, <1>8, <1>11, <1>12, <1>13

(* What a turn enters in PubStatus is no PUBREL.                            *)
LEMMA VisitStatus ==
  ASSUME TypeInv, NEW s \in ClientId, NEW id \in ServerPid,
         VisitPublish(s, id) \/ VisitRelease(s, id)
  PROVE  StatusFrame
<1> DEFINE m == dmsg.msg
<1>0. SessTypes /\ id \in Pid /\ m \in Msg
  BY MsgFacts DEF TypeInv, DispTypes, VisitPublish, VisitRelease, Visiting
<1>1. \/ PubStatus' = PubStatus /\ CacheMsg' = CacheMsg
      \/ \E status \in {"PUBACK", "PUBREC"} :
           /\ SetStatus(s, id, status)
           /\ \/ CacheMsg' = CacheMsg
              \/ CacheMsg' = [CacheMsg EXCEPT ![s][id] = m]
  <2>1. Qos[m] = 0 \/ Qos[m] = 1 \/ Qos[m] = 2
    <3>1. Qos[m] \in 0..2
      BY <1>0, MsgFacts
    <3> QED
      BY <3>1
  <2>2. CASE VisitPublish(s, id)
    BY <2>2 DEF VisitPublish
  <2>3. CASE VisitRelease(s, id) /\ Qos[m] = 0
    BY <2>3 DEF VisitRelease
  <2>4. CASE VisitRelease(s, id) /\ Qos[m] = 1
    BY <2>4 DEF VisitRelease
  <2>5. CASE VisitRelease(s, id) /\ Qos[m] = 2
    BY <2>5 DEF VisitRelease
  <2> QED
    BY <2>1, <2>2, <2>3, <2>4, <2>5
<1>2. CASE PubStatus' = PubStatus /\ CacheMsg' = CacheMsg
  BY <1>2 DEF StatusFrame
<1>3. ASSUME NEW status \in {"PUBACK", "PUBREC"}, SetStatus(s, id, status),
             \/ CacheMsg' = CacheMsg
             \/ CacheMsg' = [CacheMsg EXCEPT ![s][id] = m]
      PROVE  StatusFrame
  BY <1>0, <1>3 DEF StatusFrame, SetStatus, SessTypes
<1> QED
  BY <1>1, <1>2, <1>3

(* One turn of the dispatcher's loop: what it writes is no PUBREC, what it  *)
(* enters in PubStatus no PUBREL.                                           *)
LEMMA FlowVisit ==
  ASSUME TypeInv, TypeInv', FlowInv, NEW s \in ClientId, NEW id \in ServerPid,
         VisitPublish(s, id) \/ VisitRelease(s, id)
  PROVE  FlowInv'
<1> DEFINE m == dmsg.msg
<1>1. /\ NetTypes /\ SessTypes /\ dpc = "loop" /\ dpc' = dpc /\ id \in Pid
      /\ m \in Msg /\ UNCHANGED <<goVars, outbox, clientVars>>
  BY MsgFacts DEF TypeInv, DispTypes, VisitPublish, VisitRelease, Visiting
<1>2. HandFrame /\ ProgressFrame /\ OutboxFrame
  BY <1>1, SameFrames DEF HandFrame, ProgressFrame, goVars, clientVars
<1>3. Publish(m, WireId(m, id)) \in Wire
  <2>1. /\ WireId(m, id) \in Pid \cup {NoPid}
        /\ Qos[m] > 0 => WireId(m, id) \in Pid
    BY <1>1, MsgFacts DEF WireId
  <2> QED
    BY <1>1, <2>1, PacketFacts
<1>4. InboxFrame(Pubrecs)
  <2>1. CASE VisitPublish(s, id) /\ SentNow(s, m)
    <3> DEFINE ps == PublishBuffer(m, id)
    <3>1. write_buf \in Seq(Wire) /\ \A i \in DOMAIN write_buf :
                                       write_buf[i].type = "PUBLISH"
      BY SeqMonotonic DEF TypeInv, DispTypes, Buffered
    <3>2. ps \in Seq(Wire) /\ \A i \in DOMAIN ps : ps[i] \notin Pubrecs
      BY <1>3, <3>1 DEF PublishBuffer, Publish, Pubrecs
    <3>3. Write(s, ps)
      BY <2>1 DEF VisitPublish
    <3> QED
      BY <1>1, <3>2, <3>3, WriteFrame
  <2>2. CASE VisitRelease(s, id) /\ LoginSuccess[s]
    <3> DEFINE ps == <<Publish(m, WireId(m, id))>>
    <3>1. ps \in Seq(Wire) /\ \A i \in DOMAIN ps : ps[i] \notin Pubrecs
      BY <1>3 DEF Publish, Pubrecs
    <3>2. Write(s, ps)
      BY <2>2 DEF VisitRelease
    <3> QED
      BY <1>1, <3>1, <3>2, WriteFrame
  <2>3. CASE inbox' = inbox
    BY <1>1, <2>3, SameFrames
  <2> QED
    BY <2>1, <2>2, <2>3 DEF VisitPublish, VisitRelease
<1>5. StatusFrame
  BY VisitStatus
<1> QED
  BY <1>2, <1>4, <1>5, FlowFrame

(* Every step keeps the flow.                                               *)
LEMMA FlowStep ==
  ASSUME TypeInv, TypeInv', FlowInv, [Next]_vars
  PROVE  FlowInv'
<1>1. CASE UNCHANGED vars
  <2>1. NetTypes
    BY DEF TypeInv
  <2>2. InboxFrame(Pubrecs) /\ OutboxFrame
    BY <1>1, <2>1, SameFrames DEF vars, netVars
  <2>3. HandFrame /\ StatusFrame /\ ProgressFrame
    BY <1>1 DEF vars, sessVars, goVars, dispVars, clientVars, HandFrame,
       StatusFrame, ProgressFrame
  <2> QED
    BY <2>2, <2>3, FlowFrame
<1>2. ASSUME NEW s \in ClientId,
             \/ Client(s) \/ Goroutine(s) \/ Connect(s) \/ DispatchRecv(s)
             \/ Drop(s)
             \/ \E m \in Msg, id \in ClientPid \cup {NoPid} :
                  ClientPublish(s, m, id)
      PROVE  FlowInv'
  BY <1>2, FlowPublish, FlowPubRec, FlowRead, FlowConnect, FlowAck,
     FlowAccept, FlowClient
  DEF Client, Goroutine
<1>3. CASE Dispatcher \/ \E m \in Msg : ClusterRecv(m)
  BY <1>1, <1>3, FlowKeep, FlowHand, FlowVisit DEF Dispatcher, DrawAgain
<1> QED
  BY <1>1, <1>2, <1>3 DEF Next, Idle

-----------------------------------------------------------------------------
(* From the dispatcher to the subscribers and the peers.                    *)

\* Most steps add no copy of a QoS 2 message ...
OfflineFrame ==
  \A s \in ClientId : \A i \in DOMAIN OfflineMsg'[s] :
    Qos[OfflineMsg'[s][i].msg] = 2 =>
      i \in DOMAIN OfflineMsg[s] /\ OfflineMsg'[s][i] = OfflineMsg[s][i]

\* ... and release none.
ReleaseFrame ==
  \A m \in Msg : Qos[m] = 2 =>
    /\ forwarded'[m] = forwarded[m]
    /\ Unreleased(m)' => Unreleased(m)
    /\ Releasing(m)' => Releasing(m) /\ todo' \subseteq todo

\* Steps that take no message in hand.
NoneTaken == dpc' = "lock" => dpc = "lock" /\ dmsg' = dmsg

(* At first no message is anywhere.                                         *)
LEMMA DeliveryInit == Init => DeliveryInv
  BY DEF Init, DeliveryInv, FreshInv, CopyInv, ForwardInv, HandInv, Fresh,
         Nowhere, InGot, InInbox, InQueue, OneGot, OneInbox, OneQueue,
         Releasing

(* Copies that are on a connection, or wait, were there.                    *)
LEMMA InboxCopies ==
  ASSUME NetTypes', InboxFrame(Publishes), NEW s \in ClientId,
         NEW m \in Msg, Qos[m] = 2
  PROVE  /\ InInbox(s, m)' => InInbox(s, m)
         /\ OneInbox(s, m) => OneInbox(s, m)'
<1>1. PICK d \in {0, 1} : \A k \in DOMAIN inbox'[s] :
        inbox'[s][k] \in Publishes =>
          k + d \in DOMAIN inbox[s] /\ inbox[s][k + d] = inbox'[s][k]
  BY DEF InboxFrame
<1>2. \A k \in DOMAIN inbox'[s] :
        /\ k \in Nat
        /\ inbox'[s][k].type = "PUBLISH" /\ inbox'[s][k].msg = m =>
             inbox'[s][k] \in Publishes
  BY DEF NetTypes, Publishes, IsPublish2
<1>3. \A k \in DOMAIN inbox'[s] :
        inbox'[s][k].type = "PUBLISH" /\ inbox'[s][k].msg = m =>
          k + d \in DOMAIN inbox[s] /\ inbox[s][k + d] = inbox'[s][k]
  BY <1>1, <1>2
<1>4. InInbox(s, m)' => InInbox(s, m)
  BY <1>3 DEF InInbox
<1>5. OneInbox(s, m) => OneInbox(s, m)'
  <2> SUFFICES ASSUME OneInbox(s, m),
                      NEW i \in DOMAIN inbox'[s], NEW j \in DOMAIN inbox'[s],
                      inbox'[s][i].type = "PUBLISH", inbox'[s][i].msg = m,
                      inbox'[s][j].type = "PUBLISH", inbox'[s][j].msg = m
               PROVE  i = j
    BY DEF OneInbox
  <2>1. i + d = j + d
    BY <1>3 DEF OneInbox
  <2> QED
    BY <1>2, <2>1
<1> QED
  BY <1>4, <1>5

LEMMA QueueCopies ==
  ASSUME OfflineFrame, NEW s \in ClientId, NEW m \in Msg, Qos[m] = 2
  PROVE  /\ InQueue(s, m)' => InQueue(s, m)
         /\ OneQueue(s, m) => OneQueue(s, m)'
  BY DEF OfflineFrame, InQueue, OneQueue

(* Such steps keep the copies.                                              *)
LEMMA CopiesFrame ==
  ASSUME NetTypes', InboxFrame(Publishes), OfflineFrame, got' = got,
         NEW s \in ClientId, NEW m \in Msg, Qos[m] = 2
  PROVE  /\ InInbox(s, m)' => InInbox(s, m)
         /\ OneInbox(s, m) => OneInbox(s, m)'
         /\ InQueue(s, m)' => InQueue(s, m)
         /\ OneQueue(s, m) => OneQueue(s, m)'
         /\ InGot(s, m)' = InGot(s, m)
         /\ OneGot(s, m)' = OneGot(s, m)
         /\ Nowhere(s, m) => Nowhere(s, m)'
<1>1. /\ InInbox(s, m)' => InInbox(s, m)
      /\ OneInbox(s, m) => OneInbox(s, m)'
  BY InboxCopies
<1>2. /\ InQueue(s, m)' => InQueue(s, m)
      /\ OneQueue(s, m) => OneQueue(s, m)'
  BY QueueCopies
<1>3. InGot(s, m)' = InGot(s, m) /\ OneGot(s, m)' = OneGot(s, m)
  BY DEF InGot, OneGot
<1> QED
  BY <1>1, <1>2, <1>3 DEF Nowhere

LEMMA DeliveryFrame ==
  ASSUME NetTypes', FreshInv, CopyInv, ForwardInv, InboxFrame(Publishes),
         OfflineFrame, ReleaseFrame, got' = got
  PROVE  FreshInv' /\ CopyInv' /\ ForwardInv'
<1>1. FreshInv'
  <2> SUFFICES ASSUME NEW m \in Msg, Qos[m] = 2, Unreleased(m)'
               PROVE  Fresh(m)'
    BY DEF FreshInv
  <2>1. Fresh(m)
    BY DEF FreshInv, ReleaseFrame
  <2> QED
    BY <2>1, CopiesFrame DEF Fresh, ReleaseFrame
<1>2. CopyInv'
  <2> SUFFICES ASSUME NEW m \in Msg, NEW s \in ClientId, Qos[m] = 2
               PROVE  CopyInv!(m, s)!2'
    BY DEF CopyInv
  <2>1. CopyInv!(m, s)!2
    BY DEF CopyInv
  <2>2. Releasing(m)' /\ s \in todo' => Releasing(m) /\ s \in todo
    BY DEF ReleaseFrame
  <2> QED
    BY <2>1, <2>2, CopiesFrame
<1>3. ForwardInv'
  BY DEF ForwardInv, ReleaseFrame
<1> QED
  BY <1>1, <1>2, <1>3

(* The dispatcher begins to release m: it is fresh, and is not afterwards.  *)
LEMMA LoopStart ==
  ASSUME NetTypes', FreshInv, CopyInv, ForwardInv, InboxFrame(Publishes),
         OfflineFrame, got' = got, forwarded' = forwarded,
         NEW m \in Msg, Qos[m] = 2 => Fresh(m) /\ ~ Unreleased(m)',
         \A n \in Msg \ {m} :
           ~ Releasing(n)' /\ (Unreleased(n)' => Unreleased(n))
  PROVE  FreshInv' /\ CopyInv' /\ ForwardInv'
<1>1. FreshInv'
  <2> SUFFICES ASSUME NEW n \in Msg, Qos[n] = 2, Unreleased(n)'
               PROVE  Fresh(n)'
    BY DEF FreshInv
  <2>1. n # m /\ ~ Releasing(n)' /\ Fresh(n)
    BY DEF FreshInv
  <2> QED
    BY <2>1, CopiesFrame DEF Fresh
<1>2. CopyInv'
  <2> SUFFICES ASSUME NEW n \in Msg, NEW s \in ClientId, Qos[n] = 2
               PROVE  CopyInv!(n, s)!2'
    BY DEF CopyInv
  <2>1. CopyInv!(n, s)!2
    BY DEF CopyInv
  <2>2. Releasing(n)' => Nowhere(s, n)
    BY DEF Fresh
  <2> QED
    BY <2>1, <2>2, CopiesFrame
<1>3. ForwardInv'
  <2> SUFFICES ASSUME NEW n \in Msg, Qos[n] = 2
               PROVE  forwarded[n] <= 1 /\ (Releasing(n)' => forwarded[n] = 0)
    BY DEF ForwardInv
  <2> QED
    BY DEF ForwardInv, Fresh
<1> QED
  BY <1>1, <1>2, <1>3

(* A message is not yet released only if it was not.                        *)
LEMMA UnreleasedFrame ==
  ASSUME StatusFrame, NoneTaken, arrived' = arrived, NEW m \in Msg,
         pstate'[m] \in {"idle", "sent"} => pstate[m] \in {"idle", "sent"},
         Unreleased(m)'
  PROVE  Unreleased(m)
<1>1. Publisher[m] # NoClient => Publisher[m] \in ClientId
  BY MessageDispatchAssumption
<1> QED
  BY <1>1 DEF Unreleased, StatusFrame, NoneTaken

(* In particular when the dispatcher does nothing.                          *)
LEMMA IdleFrame ==
  ASSUME UNCHANGED <<PubStatus, CacheMsg, dispVars, arrived>>,
         NEW m \in Msg,
         pstate'[m] \in {"idle", "sent"} => pstate[m] \in {"idle", "sent"}
  PROVE  /\ Unreleased(m)' => Unreleased(m)
         /\ Releasing(m)' = Releasing(m) /\ todo' = todo
<1>1. StatusFrame /\ NoneTaken
  BY DEF StatusFrame, NoneTaken, dispVars
<1> QED
  BY <1>1, UnreleasedFrame DEF Releasing, dispVars

(* The steps of clients and connections that copy no message.               *)
LEMMA DeliveryClient ==
  ASSUME TypeInv, TypeInv', DeliveryInv, NEW s \in ClientId,
         \/ \E m \in Msg, id \in ClientPid \cup {NoPid} :
              ClientPublish(s, m, id)
         \/ ClientReleased(s) \/ ClientPubRec(s) \/ ClientPubDone(s)
         \/ Drop(s) \/ Read(s) \/ AckPublish(s) \/ Exit(s)
  PROVE  DeliveryInv'
<1> USE DEF DeliveryInv
<1>1. NetTypes /\ NetTypes' /\ ClientTypes /\ GoTypes
  BY DEF TypeInv
<1>2. UNCHANGED <<PubStatus, CacheMsg, OfflineMsg, dispVars, arrived, got>>
  BY DEF ClientPublish, ClientReleased, ClientPubRec, ClientPubDone, Drop,
     Read, AckPublish, Exit, sessVars, clientVars
<1>3. OfflineFrame
  BY <1>2 DEF OfflineFrame
<1>4. HandInv'
  BY <1>2 DEF HandInv, dispVars
<1>5. ASSUME NEW m \in Msg, Qos[m] = 2
      PROVE  /\ pstate'[m] \in {"idle", "sent"} =>
                  pstate[m] \in {"idle", "sent"}
             /\ forwarded'[m] = forwarded[m]
  <2>1. CASE \E n \in Msg, id \in ClientPid \cup {NoPid} :
               ClientPublish(s, n, id)
    BY <1>1, <1>5, <2>1 DEF ClientPublish, ClientTypes
  <2>2. CASE AckPublish(s)
    BY <1>5, <2>2 DEF AckPublish, clientVars, TypeInv, RestTypes
  <2>3. CASE ClientPubRec(s) \/ ClientPubDone(s)
    BY <2>3 DEF ClientPubRec, ClientPubDone
  <2>4. CASE ClientReleased(s) \/ Drop(s) \/ Read(s) \/ Exit(s)
    BY <2>4 DEF ClientReleased, Drop, Read, Exit, clientVars
  <2> QED
    BY <2>1, <2>2, <2>3, <2>4
<1>6. ReleaseFrame
  BY <1>2, <1>5, IdleFrame DEF ReleaseFrame
<1>7. InboxFrame(Publishes)
  <2>1. CASE inbox' = inbox
    BY <1>1, <2>1, SameFrames
  <2>2. CASE ClientReleased(s) \/ ClientPubRec(s) \/ ClientPubDone(s)
    <3>1. inbox[s] # <<>> /\ Consume(s)
      BY <2>2 DEF ClientReleased, ClientPubRec, ClientPubDone, Arriving
    <3> QED
      BY <1>1, <3>1, ConsumeFrame
  <2>3. CASE Drop(s)
    BY <1>1, <2>3 DEF Drop, InboxFrame, NetTypes
  <2>4. CASE AckPublish(s) /\ Qos[req[s].msg] # 0
    <3> DEFINE p == req[s]
    <3>1. p \in Wire /\ p.type = "PUBLISH" /\ p.msg \in Msg
      BY <1>1, <2>4 DEF AckPublish, GoTypes, Wire
    <3>2. Qos[p.msg] \in 0..2
      BY <3>1, MsgFacts
    <3>3. p.pid \in Pid /\ (Qos[p.msg] = 1 \/ Qos[p.msg] = 2)
      BY <2>4, <3>1, <3>2 DEF Wire
    <3>4. PICK type \in {"PUBACK", "PUBREC"} : Write(s, <<Ack(type, p.pid)>>)
      BY <2>4, <3>3 DEF AckPublish
    <3>5. Ack(type, p.pid) \in Wire /\ Ack(type, p.pid) \notin Publishes
      BY <3>3, PacketFacts DEF Ack, Acks, Publishes, IsPublish2
    <3> DEFINE ps == <<Ack(type, p.pid)>>
    <3>6. ps \in Seq(Wire) /\ \A i \in DOMAIN ps : ps[i] \notin Publishes
      BY <3>5
    <3> QED
      BY <1>1, <3>4, <3>6, WriteFrame
  <2>5. AckPublish(s) /\ Qos[req[s].msg] = 0 => inbox' = inbox
    BY DEF AckPublish
  <2> QED
    BY <2>1, <2>2, <2>3, <2>4, <2>5 DEF ClientPublish, Read, Exit, netVars
<1> QED
  BY <1>1, <1>2, <1>3, <1>4, <1>6, <1>7, DeliveryFrame

(* The dispatcher takes a message.                                          *)
LEMMA DeliveryTake ==
  ASSUME TypeInv, TypeInv', FlowInv, DeliveryInv,
         \/ \E s \in ClientId : DispatchRecv(s)
         \/ \E m \in Msg : ClusterRecv(m)
  PROVE  DeliveryInv'
<1> USE DEF DeliveryInv
<1>1. NetTypes /\ NetTypes'
  BY DEF TypeInv
<1>2. /\ UNCHANGED <<sessVars, todo, netVars, clientVars, forwarded>>
      /\ dpc' = "lock"
  BY DEF DispatchRecv, ClusterRecv
<1>3. OfflineFrame /\ InboxFrame(Publishes) /\ got' = got
  BY <1>1, <1>2, SameFrames DEF OfflineFrame, sessVars, netVars, clientVars
<1>4. CASE \E s \in ClientId : DispatchRecv(s)
  <2>1. PICK s \in ClientId : DispatchRecv(s)
    BY <1>4
  <2>2. /\ gpc[s] = "send" /\ arrived' = arrived
        /\ dmsg'.type = req[s].type /\ dmsg'.msg = req[s].msg
        /\ req[s] \in Wire
    BY <2>1 DEF DispatchRecv, TypeInv, GoTypes
  <2>3. HandInv'
    BY <1>2, <2>2 DEF HandInv, Wire, Packet, Acks
  <2>4. ASSUME NEW m \in Msg, Qos[m] = 2, Unreleased(m)' PROVE Unreleased(m)
    <3>1. CASE dmsg'.type = "PUBLISH" /\ dmsg'.msg = m
      <4>1. IsPublish2(req[s])
        BY <2>2, <2>4, <3>1 DEF IsPublish2
      <4>2. Publisher[m] = s /\ pstate[m] = "sent"
        BY <2>2, <3>1, <4>1 DEF FlowInv, RequestInv, Published
      <4> QED
        BY <4>2, MessageDispatchAssumption DEF Unreleased
    <3>2. CASE ~ (dmsg'.type = "PUBLISH" /\ dmsg'.msg = m)
      BY <1>2, <2>2, <2>4, <3>2
      DEF Unreleased, Wire, Packet, Acks, sessVars, clientVars
    <3> QED
      BY <3>1, <3>2
  <2>5. ReleaseFrame
    BY <1>2, <2>4 DEF ReleaseFrame, Releasing
  <2> QED
    BY <1>1, <1>3, <2>3, <2>5, DeliveryFrame
<1>5. CASE \E m \in Msg : ClusterRecv(m)
  <2>1. PICK n \in Msg : ClusterRecv(n)
    BY <1>5
  <2>2. /\ Publisher[n] = NoClient /\ n \notin arrived
        /\ arrived' = arrived \cup {n}
        /\ dmsg'.type = "CLUSTER" /\ dmsg'.msg = n
    BY <2>1 DEF ClusterRecv, NoReq
  <2>3. HandInv'
    BY <1>2, <2>2 DEF HandInv
  <2>4. ASSUME NEW m \in Msg, Unreleased(m)' PROVE Unreleased(m)
    BY <1>2, <2>2, <2>4 DEF Unreleased, sessVars, clientVars
  <2>5. ReleaseFrame
    BY <1>2, <2>4 DEF ReleaseFrame, Releasing
  <2> QED
    BY <1>1, <1>3, <2>3, <2>5, DeliveryFrame
<1> QED
  BY <1>4, <1>5

(* The dispatcher keeps a message, or goes through the acknowledgements of  *)
(* a subscriber.                                                            *)
LEMMA DeliveryAcks ==
  ASSUME TypeInv, TypeInv', DeliveryInv,
         \/ BeginPublish
         \/ ProcessPubAck \/ ProcessPubRec \/ ProcessPubComp \/ DropAck
  PROVE  DeliveryInv'
<1> USE DEF DeliveryInv, Processing
<1> DEFINE s == dmsg.from
           id == dmsg.pid
<1>1. NetTypes /\ NetTypes' /\ SessTypes
  BY DEF TypeInv
<1>2. /\ UNCHANGED <<OfflineMsg, clientVars, arrived, forwarded>>
      /\ got' = got
  BY DEF BeginPublish, ProcessPubAck, ProcessPubRec, ProcessPubComp, DropAck,
     sessVars, clientVars
<1>3. OfflineFrame
  BY <1>2 DEF OfflineFrame
<1>4. dpc = "lock" /\ s \in ClientId
  BY HandFacts DEF BeginPublish, ProcessPubAck, ProcessPubRec, ProcessPubComp,
     DropAck, Acks
<1>5. InboxFrame(Publishes)
  <2>1. CASE inbox' = inbox
    BY <1>1, <2>1, SameFrames
  <2>2. CASE ProcessPubRec
    <3>1. id \in Pid
      BY <2>2, HandFacts DEF ProcessPubRec, Acks
    <3>2. Ack("PUBREL", id) \in Wire /\ Ack("PUBREL", id) \notin Publishes
      BY <3>1, PacketFacts DEF Ack, Acks, Publishes, IsPublish2
    <3> DEFINE ps == <<Ack("PUBREL", id)>>
    <3>3. ps \in Seq(Wire) /\ \A i \in DOMAIN ps : ps[i] \notin Publishes
      BY <3>2
    <3>4. Write(s, ps)
      BY <2>2 DEF ProcessPubRec
    <3> QED
      BY <1>1, <1>4, <3>3, <3>4, WriteFrame
  <2> QED
    BY <2>1, <2>2 DEF BeginPublish, ProcessPubAck, ProcessPubComp, DropAck,
       netVars
<1>6. CASE BeginPublish
  <2>1. dpc' = "loop" /\ dmsg'.type = "PUBLISH" /\ dmsg.type = "PUBLISH"
    BY <1>6 DEF BeginPublish, Loop, TypeInv, DispTypes, Request
  <2>2. HandInv'
    BY <2>1 DEF HandInv
  <2>3. ASSUME NEW m \in Msg, Qos[m] = 2, Unreleased(m)' PROVE Unreleased(m)
    <3>1. CASE dmsg.msg = m /\ Publisher[m] # NoClient
      BY <1>4, <2>1, <3>1 DEF Unreleased
    <3>2. CASE dmsg.msg # m
      <4> SUFFICES ASSUME Publisher[m] # NoClient, NEW x \in Pid,
                          PubStatus'[Publisher[m]][x] = "PUBREL",
                          CacheMsg'[Publisher[m]][x] = m
                   PROVE  Unreleased(m)
        BY <1>2, <2>1, <2>3 DEF Unreleased, clientVars
      <4>1. Publisher[m] \in ClientId
        BY MessageDispatchAssumption
      <4>2. CASE Qos[dmsg.msg] = 2
        <5>1. /\ PubStatus' = [PubStatus EXCEPT ![s][id] = "PUBREL"]
              /\ CacheMsg' = [CacheMsg EXCEPT ![s][id] = dmsg.msg]
              /\ id \in Pid
          BY <1>6, <4>2, HandFacts DEF BeginPublish, SetStatus
        <5>2. ~ (Publisher[m] = s /\ x = id)
          BY <1>1, <1>4, <3>2, <5>1 DEF SessTypes
        <5>3. /\ PubStatus[Publisher[m]][x] = "PUBREL"
              /\ CacheMsg[Publisher[m]][x] = m
          BY <1>1, <1>4, <4>1, <5>1, <5>2 DEF SessTypes
        <5> QED
          BY <5>3 DEF Unreleased
      <4>3. CASE Qos[dmsg.msg] # 2
        BY <1>6, <4>3 DEF BeginPublish, Unreleased
      <4> QED
        BY <4>2, <4>3
    <3>3. CASE Publisher[m] = NoClient
      BY <1>2, <2>1, <2>3, <3>3 DEF Unreleased
    <3> QED
      BY <3>1, <3>2, <3>3
  <2>4. ReleaseFrame
    BY <1>2, <2>1, <2>3 DEF ReleaseFrame, Releasing
  <2> QED
    BY <1>1, <1>2, <1>3, <1>5, <2>2, <2>4, DeliveryFrame
<1>7. CASE ProcessPubAck \/ ProcessPubRec \/ ProcessPubComp \/ DropAck
  <2>1. dpc' = "select"
    BY <1>7 DEF ProcessPubAck, ProcessPubRec, ProcessPubComp, DropAck, Unlock
  <2>2. HandInv'
    BY <2>1 DEF HandInv
  <2>3. StatusFrame
    <3>1. CASE DropAck
      BY <3>1 DEF DropAck, StatusFrame, sessVars
    <3>2. CASE ProcessPubAck \/ ProcessPubRec \/ ProcessPubComp
      <4>1. id \in Pid
        BY <3>2, HandFacts DEF ProcessPubAck, ProcessPubRec, ProcessPubComp,
           Acks
      <4>2. PICK status \in {"none", "PUBCOMP"} : SetStatus(s, id, status)
        BY <3>2 DEF ProcessPubAck, ProcessPubRec, ProcessPubComp
      <4>3. \/ CacheMsg' = CacheMsg
            \/ CacheMsg' = [CacheMsg EXCEPT ![s][id] = 0]
        BY <3>2 DEF ProcessPubAck, ProcessPubRec, ProcessPubComp
      <4> QED
        BY <1>1, <1>4, <4>1, <4>2, <4>3 DEF StatusFrame, SetStatus, SessTypes
    <3> QED
      BY <1>7, <3>1, <3>2
  <2>4. ASSUME NEW m \in Msg, Unreleased(m)' PROVE Unreleased(m)
    <3>1. NoneTaken /\ pstate' = pstate
      BY <1>2, <2>1 DEF NoneTaken, clientVars
    <3> QED
      BY <1>2, <2>3, <2>4, <3>1, UnreleasedFrame
  <2>5. ReleaseFrame
    BY <1>2, <2>1, <2>4 DEF ReleaseFrame, Releasing
  <2> QED
    BY <1>1, <1>2, <1>3, <1>5, <2>2, <2>5, DeliveryFrame
<1> QED
  BY <1>6, <1>7

(* A subscriber gets a message: the copy leaves the connection.             *)
LEMMA DeliveryReceive ==
  ASSUME TypeInv, TypeInv', DeliveryInv, NEW s \in ClientId, ClientReceive(s)
  PROVE  DeliveryInv'
<1> USE DEF DeliveryInv
<1> DEFINE p == Head(inbox[s])
<1>1. NetTypes /\ NetTypes' /\ ClientTypes
  BY DEF TypeInv
<1>2. /\ inbox[s] # <<>> /\ Consume(s) /\ p.type = "PUBLISH"
      /\ UNCHANGED <<sessVars, dispVars, pstate, arrived, forwarded>>
  BY DEF ClientReceive, Arriving
<1>3. p.msg \in Msg
  BY <1>1, <1>2, ConsumeTypes DEF Wire
<1>4. /\ \A t \in ClientId : t # s => inbox'[t] = inbox[t] /\ got'[t] = got[t]
      /\ 1 \in DOMAIN inbox[s] /\ inbox[s][1] = p
      /\ \A k \in DOMAIN inbox'[s] :
           /\ k \in Nat \ {0}
           /\ k + 1 \in DOMAIN inbox[s] /\ inbox'[s][k] = inbox[s][k + 1]
  BY <1>1, <1>2, ConsumeElements DEF ClientReceive, ClientTypes
<1>5. /\ DOMAIN got[s] = 1..Len(got[s]) /\ Len(got[s]) \in Nat
      /\ DOMAIN got[s] \subseteq DOMAIN got'[s]
      /\ \A i \in DOMAIN got[s] : got'[s][i] = got[s][i]
      /\ \A i \in DOMAIN got'[s] :
           i \in DOMAIN got[s] \/ (i = Len(got[s]) + 1 /\ got'[s][i] = p.msg)
  <2>1. got[s] \in Seq(Msg)
    BY <1>1 DEF ClientTypes
  <2>2. got'[s] = got[s] \/ got'[s] = Append(got[s], p.msg)
    BY <1>1 DEF ClientReceive, ClientTypes
  <2> QED
    BY <1>3, <2>1, <2>2, AppendProperties
<1>6. ASSUME NEW t \in ClientId, NEW m \in Msg, Qos[m] = 2
      PROVE  /\ InInbox(t, m)' => InInbox(t, m)
             /\ OneInbox(t, m) => OneInbox(t, m)'
             /\ InQueue(t, m)' = InQueue(t, m)
             /\ OneQueue(t, m)' = OneQueue(t, m)
  <2>1. InboxFrame(Publishes)
    BY <1>1, <1>2, ConsumeFrame
  <2> QED
    BY <1>1, <1>2, <1>6, <2>1, InboxCopies DEF InQueue, OneQueue, sessVars
\* Other messages and clients keep what they have.
<1>7. ASSUME NEW t \in ClientId, NEW m \in Msg, t # s \/ p.msg # m
      PROVE  /\ InGot(t, m)' => InGot(t, m)
             /\ OneGot(t, m) => OneGot(t, m)'
  BY <1>4, <1>5, <1>7 DEF InGot, OneGot
<1>8. InInbox(s, p.msg)
  BY <1>2, <1>4 DEF InInbox
\* The message itself, a QoS 2 one, moves.
<1>9. ASSUME NEW m \in Msg, m = p.msg, OneInbox(s, m), ~ InGot(s, m)
      PROVE  ~ InInbox(s, m)' /\ OneGot(s, m)'
  <2>1. ASSUME NEW k \in DOMAIN inbox'[s], inbox'[s][k].type = "PUBLISH",
               inbox'[s][k].msg = m
        PROVE  FALSE
    BY <1>2, <1>4, <1>9, <2>1 DEF OneInbox
  <2>2. \A i \in DOMAIN got'[s] : got'[s][i] = m => i = Len(got[s]) + 1
    BY <1>5, <1>9 DEF InGot
  <2> QED
    BY <2>1, <2>2 DEF InInbox, OneGot
<1>10. FreshInv'
  <2> SUFFICES ASSUME NEW m \in Msg, Qos[m] = 2, Unreleased(m)'
               PROVE  Fresh(m)'
    BY DEF FreshInv
  <2>1. Fresh(m)
    BY <1>2 DEF FreshInv, Unreleased, sessVars, dispVars
  <2>2. p.msg # m
    BY <1>8, <2>1 DEF Fresh, Nowhere
  <2> QED
    BY <1>2, <1>6, <1>7, <2>1, <2>2 DEF Fresh, Nowhere, Releasing, dispVars
<1>11. CopyInv'
  <2> SUFFICES ASSUME NEW m \in Msg, NEW t \in ClientId, Qos[m] = 2
               PROVE  CopyInv!(m, t)!2'
    BY DEF CopyInv
  <2>1. CopyInv!(m, t)!2
    BY DEF CopyInv
  <2>2. CASE t # s \/ p.msg # m
    BY <1>2, <1>6, <1>7, <2>1, <2>2 DEF Nowhere, Releasing, dispVars
  <2>3. CASE t = s /\ p.msg = m
    BY <1>2, <1>6, <1>8, <1>9, <2>1, <2>3 DEF Nowhere, Releasing, dispVars
  <2> QED
    BY <2>2, <2>3
<1>12. ForwardInv' /\ HandInv'
  BY <1>2 DEF ForwardInv, HandInv, Releasing, dispVars
<1> QED
  BY <1>10, <1>11, <1>12

(* A client connects: what waited for it is on its way.                     *)
LEMMA DeliveryConnect ==
  ASSUME TypeInv, TypeInv', DeliveryInv, NEW s \in ClientId, Connect(s)
  PROVE  DeliveryInv'
<1> USE DEF DeliveryInv
<1>1. NetTypes /\ SessTypes
  BY DEF TypeInv
<1>2. /\ UNCHANGED <<CacheMsg, dispVars, clientVars, arrived, forwarded>>
      /\ dpc # "loop"
  BY DEF Connect
<1>3. /\ \A t \in ClientId : t # s =>
           inbox'[t] = inbox[t] /\ OfflineMsg'[t] = OfflineMsg[t]
      /\ inbox'[s] = Flushed(s) /\ OfflineMsg'[s] = <<>>
  BY <1>1 DEF Connect, NetTypes, SessTypes
<1>4. StatusFrame
  BY <1>1 DEF Connect, StatusFrame, SessTypes
<1>5. ASSUME NEW t \in ClientId, NEW m \in Msg
      PROVE  /\ InGot(t, m)' = InGot(t, m) /\ OneGot(t, m)' = OneGot(t, m)
             /\ t # s => /\ InInbox(t, m)' = InInbox(t, m)
                         /\ OneInbox(t, m)' = OneInbox(t, m)
                         /\ InQueue(t, m)' = InQueue(t, m)
                         /\ OneQueue(t, m)' = OneQueue(t, m)
  BY <1>2, <1>3 DEF InGot, OneGot, InInbox, OneInbox, InQueue, OneQueue,
     clientVars
<1>6. ASSUME NEW m \in Msg
      PROVE  /\ InInbox(s, m)' => InQueue(s, m)
             /\ OneQueue(s, m) => OneInbox(s, m)'
             /\ ~ InQueue(s, m)' /\ OneQueue(s, m)'
  <2>1. /\ DOMAIN inbox'[s] = DOMAIN OfflineMsg[s]
        /\ \A k \in DOMAIN OfflineMsg[s] :
             inbox'[s][k].msg = OfflineMsg[s][k].msg
    BY <1>3 DEF Flushed, Publish
  <2>2. InInbox(s, m)' => InQueue(s, m)
    BY <2>1 DEF InInbox, InQueue
  <2>3. OneQueue(s, m) => OneInbox(s, m)'
    BY <2>1 DEF OneInbox, OneQueue
  <2>4. ~ InQueue(s, m)' /\ OneQueue(s, m)'
    BY <1>3 DEF InQueue, OneQueue
  <2> QED
    BY <2>2, <2>3, <2>4
<1>7. FreshInv'
  <2> SUFFICES ASSUME NEW m \in Msg, Qos[m] = 2, Unreleased(m)'
               PROVE  Fresh(m)'
    BY DEF FreshInv
  <2>1. NoneTaken /\ pstate' = pstate
    BY <1>2 DEF NoneTaken, dispVars, clientVars
  <2>2. Unreleased(m)
    BY <1>2, <1>4, <2>1, UnreleasedFrame
  <2>3. Fresh(m)
    BY <2>2 DEF FreshInv
  <2> QED
    BY <1>2, <1>5, <1>6, <2>3 DEF Fresh, Nowhere, Releasing, dispVars
<1>8. CopyInv'
  <2> SUFFICES ASSUME NEW m \in Msg, NEW t \in ClientId, Qos[m] = 2
               PROVE  CopyInv!(m, t)!2'
    BY DEF CopyInv
  <2>1. CopyInv!(m, t)!2
    BY DEF CopyInv
  <2>2. ~ Releasing(m)'
    BY <1>2 DEF Releasing, dispVars
  <2> QED
    BY <1>5, <1>6, <2>1, <2>2
<1>9. ForwardInv' /\ HandInv'
  BY <1>2 DEF ForwardInv, HandInv, Releasing, dispVars
<1> QED
  BY <1>7, <1>8, <1>9

(* The dispatcher begins to release a message: what it took from CacheMsg   *)
(* is not there any more, what it took from a peer has arrived.             *)
LEMMA DeliveryRelease ==
  ASSUME TypeInv, TypeInv', FlowInv, DeliveryInv, BeginRelease
  PROVE  DeliveryInv'
<1> USE DEF DeliveryInv
<1> DEFINE s == dmsg.from
           id == dmsg.pid
           m == CacheMsg[s][id]
<1>1. NetTypes /\ NetTypes' /\ SessTypes
  BY DEF TypeInv
<1>2. /\ dpc = "lock" /\ dmsg.type = "PUBREL" /\ s \in ClientId /\ id \in Pid
      /\ PubStatus[s][id] = "PUBREL" /\ SetStatus(s, id, "none")
      /\ Write(s, <<Ack("PUBCOMP", id)>>)
      /\ UNCHANGED <<CacheMsg, OfflineMsg, clientVars, arrived, forwarded>>
  BY HandFacts DEF BeginRelease, Processing, Complete, Acks
<1>3. /\ m \in Msg /\ Qos[m] = 2 /\ Publisher[m] = s /\ ppid[m] = id
      /\ pstate[m] \notin {"idle", "sent"}
  BY <1>2 DEF FlowInv, CacheInv, IsPubrel
<1>4. /\ dpc' = "loop" /\ dmsg'.type = "PUBREL" /\ dmsg'.msg = m
  BY <1>2, <1>3, MsgFacts DEF BeginRelease, Loop, TypeInv, DispTypes, Request
<1>5. Publisher[m] # NoClient
  BY <1>2, <1>3, MessageDispatchAssumption
<1>6. InboxFrame(Publishes) /\ OfflineFrame /\ got' = got
  <2> DEFINE ps == <<Ack("PUBCOMP", id)>>
  <2>1. ps \in Seq(Wire) /\ \A i \in DOMAIN ps : ps[i] \notin Publishes
    <3>1. Ack("PUBCOMP", id) \in Wire
      BY <1>2, PacketFacts DEF Acks
    <3> QED
      BY <3>1 DEF Ack, Publishes, IsPublish2
  <2>2. InboxFrame(Publishes)
    BY <1>1, <1>2, <2>1, WriteFrame
  <2> QED
    BY <1>2, <2>2 DEF OfflineFrame, clientVars
<1>7. StatusFrame
  BY <1>1, <1>2 DEF StatusFrame, SetStatus, SessTypes
<1>8. Fresh(m)
  BY <1>2, <1>3, <1>5 DEF FreshInv, Unreleased
<1>9. ASSUME NEW n \in Msg, n = m PROVE ~ Unreleased(n)'
  <2> SUFFICES ASSUME NEW x \in Pid, PubStatus'[s][x] = "PUBREL",
                      CacheMsg'[s][x] = m
               PROVE  FALSE
    BY <1>2, <1>3, <1>4, <1>5, <1>9 DEF Unreleased, clientVars
  <2>1. PubStatus[s][x] = "PUBREL" /\ CacheMsg[s][x] = m
    BY <1>2, <1>7 DEF StatusFrame
  <2>2. x = id
    BY <1>2, <1>3, <2>1 DEF FlowInv, CacheInv
  <2> QED
    BY <1>1, <1>2, <2>2 DEF SetStatus, SessTypes
<1>10. ASSUME NEW n \in Msg \ {m}
       PROVE  ~ Releasing(n)' /\ (Unreleased(n)' => Unreleased(n))
  <2>1. NoneTaken /\ pstate' = pstate
    BY <1>2, <1>4 DEF NoneTaken, clientVars
  <2>2. Unreleased(n)' => Unreleased(n)
    BY <1>2, <1>7, <2>1, UnreleasedFrame
  <2> QED
    BY <1>4, <2>2 DEF Releasing
<1>11. FreshInv' /\ CopyInv' /\ ForwardInv'
  <2>1. PICK n \in Msg : n = m
    BY <1>3
  <2>2. Fresh(n) /\ ~ Unreleased(n)'
    BY <1>8, <1>9, <2>1
  <2>3. \A k \in Msg \ {n} :
          ~ Releasing(k)' /\ (Unreleased(k)' => Unreleased(k))
    BY <1>10, <2>1
  <2> QED
    BY <1>1, <1>2, <1>6, <2>2, <2>3, LoopStart
<1>12. HandInv'
  BY <1>3, <1>4, <1>5 DEF HandInv
<1> QED
  BY <1>11, <1>12

LEMMA DeliveryCluster ==
  ASSUME TypeInv, TypeInv', DeliveryInv, BeginCluster
  PROVE  DeliveryInv'
<1> USE DEF DeliveryInv
<1> DEFINE m == dmsg.msg
<1>1. NetTypes /\ NetTypes'
  BY DEF TypeInv
<1>2. /\ dpc = "lock" /\ dmsg.type = "CLUSTER" /\ m \in Msg
      /\ UNCHANGED <<sessVars, netVars, clientVars, arrived, forwarded>>
  BY HandFacts DEF BeginCluster, Processing
<1>3. dpc' = "loop" /\ dmsg'.type = "CLUSTER" /\ dmsg'.msg = m
  BY <1>2 DEF BeginCluster, Loop, TypeInv, DispTypes, Request
<1>4. Publisher[m] = NoClient /\ m \in arrived
  BY <1>2 DEF HandInv
<1>5. InboxFrame(Publishes) /\ OfflineFrame /\ got' = got
  BY <1>1, <1>2, SameFrames DEF OfflineFrame, sessVars, netVars, clientVars
<1>6. Qos[m] = 2 => Fresh(m)
  BY <1>2 DEF FreshInv, Unreleased
<1>7. ASSUME NEW n \in Msg
      PROVE  /\ n = m => ~ Unreleased(n)'
             /\ n # m => ~ Releasing(n)' /\ (Unreleased(n)' => Unreleased(n))
  BY <1>2, <1>3, <1>4 DEF Unreleased, Releasing, sessVars, clientVars
<1>8. FreshInv' /\ CopyInv' /\ ForwardInv'
  <2>1. PICK n \in Msg : n = m
    BY <1>2
  <2>2. (Qos[n] = 2 => Fresh(n)) /\ ~ Unreleased(n)'
    BY <1>6, <1>7, <2>1
  <2>3. \A k \in Msg \ {n} :
          ~ Releasing(k)' /\ (Unreleased(k)' => Unreleased(k))
    BY <1>7, <2>1
  <2> QED
    BY <1>1, <1>2, <1>5, <2>2, <2>3, LoopStart
<1>9. HandInv'
  BY <1>2, <1>3, <1>4 DEF HandInv
<1> QED
  BY <1>8, <1>9

(* The loop is over: what was released goes to the peers.                   *)
LEMMA DeliveryEnd ==
  ASSUME TypeInv, TypeInv', DeliveryInv, EndLoop
  PROVE  DeliveryInv'
<1> USE DEF DeliveryInv
<1>1. NetTypes /\ NetTypes' /\ RestTypes
  BY DEF TypeInv
<1>2. /\ dpc = "loop" /\ dpc' = "select"
      /\ UNCHANGED <<sessVars, goVars, netVars, clientVars, arrived>>
  BY DEF EndLoop, Unlock
<1>3. InboxFrame(Publishes) /\ OfflineFrame /\ got' = got
  BY <1>1, <1>2, SameFrames DEF OfflineFrame, sessVars, netVars, clientVars
<1>4. ASSUME NEW m \in Msg
      PROVE  /\ ~ Releasing(m)'
             /\ Unreleased(m)' => Unreleased(m)
             /\ ~ Releasing(m) => forwarded'[m] = forwarded[m]
             /\ \/ forwarded'[m] = forwarded[m]
                \/ forwarded'[m] = forwarded[m] + 1
  <2>1. /\ ~ Releasing(m)'
        /\ Unreleased(m)' => Unreleased(m)
    BY <1>2 DEF Unreleased, Releasing, sessVars, clientVars
  <2>2. forwarded' = IF dmsg.type = "PUBREL"
                     THEN [forwarded EXCEPT ![dmsg.msg] = @ + 1] ELSE forwarded
    BY DEF EndLoop
  <2> QED
    BY <1>1, <1>2, <2>1, <2>2 DEF Releasing, RestTypes
<1>5. FreshInv'
  <2> SUFFICES ASSUME NEW m \in Msg, Qos[m] = 2, Unreleased(m)'
               PROVE  Fresh(m)'
    BY DEF FreshInv
  <2>1. Fresh(m)
    BY <1>4 DEF FreshInv
  <2> QED
    BY <1>1, <1>3, <1>4, <2>1, CopiesFrame DEF Fresh
<1>6. CopyInv'
  <2> SUFFICES ASSUME NEW m \in Msg, NEW s \in ClientId, Qos[m] = 2
               PROVE  CopyInv!(m, s)!2'
    BY DEF CopyInv
  <2>1. CopyInv!(m, s)!2
    BY DEF CopyInv
  <2> QED
    BY <1>1, <1>3, <1>4, <2>1, CopiesFrame
<1>7. ForwardInv'
  <2> SUFFICES ASSUME NEW m \in Msg, Qos[m] = 2
               PROVE  forwarded'[m] <= 1
    BY <1>4 DEF ForwardInv
  <2>1. CASE Releasing(m)
    BY <1>4, <2>1 DEF ForwardInv
  <2>2. CASE ~ Releasing(m)
    BY <1>4, <2>2 DEF ForwardInv
  <2> QED
    BY <2>1, <2>2
<1>8. HandInv'
  BY <1>2 DEF HandInv
<1> QED
  BY <1>5, <1>6, <1>7, <1>8

(* A turn of the loop that sends and queues no QoS 2 message.               *)
LEMMA DeliveryTurn ==
  ASSUME TypeInv, TypeInv', DeliveryInv, NEW s \in ClientId,
         NEW id \in ServerPid,
         \/ VisitPublish(s, id)
         \/ VisitRelease(s, id) /\ Qos[dmsg.msg] < 2
  PROVE  DeliveryInv'
<1> USE DEF DeliveryInv
<1> DEFINE m == dmsg.msg
<1>1. NetTypes /\ NetTypes' /\ SessTypes
  BY DEF TypeInv
<1>2. /\ dpc = "loop" /\ m \in Msg /\ id \in Pid
      /\ UNCHANGED <<dpc, dmsg, clientVars, arrived, forwarded>>
      /\ todo' = todo \ {s}
  BY MsgFacts DEF TypeInv, DispTypes, VisitPublish, VisitRelease, Visiting
<1>3. Publish(m, WireId(m, id)) \in Wire
  <2>1. /\ WireId(m, id) \in Pid \cup {NoPid}
        /\ Qos[m] > 0 => WireId(m, id) \in Pid
    BY <1>2, MsgFacts DEF WireId
  <2> QED
    BY <1>2, <2>1, PacketFacts
<1>4. InboxFrame(Publishes)
  <2>1. CASE VisitPublish(s, id) /\ SentNow(s, m)
    <3> DEFINE ps == PublishBuffer(m, id)
    <3>1. Publish(m, WireId(m, id)) \in Buffered
      BY <1>3, <2>1 DEF SentNow, Buffered, Publish
    <3>2. ps \in Seq(Buffered)
      BY <3>1 DEF PublishBuffer, TypeInv, DispTypes
    <3>3. ps \in Seq(Wire) /\ \A i \in DOMAIN ps : ps[i] \in Buffered
      BY <3>2, SeqMonotonic DEF Buffered
    <3>4. \A p \in Buffered : p \notin Publishes
      <4> SUFFICES ASSUME NEW p \in Buffered PROVE ~ IsPublish2(p)
        BY DEF Publishes
      <4>1. p.msg \in Msg /\ Qos[p.msg] < 2
        BY DEF Buffered, Wire
      <4>2. Qos[p.msg] \in 0..2
        BY <4>1, MsgFacts
      <4> QED
        BY <4>1, <4>2 DEF IsPublish2
    <3>5. Write(s, ps)
      BY <2>1 DEF VisitPublish
    <3> QED
      BY <1>1, <3>3, <3>4, <3>5, WriteFrame
  <2>2. CASE VisitRelease(s, id) /\ Qos[m] < 2 /\ LoginSuccess[s]
    <3> DEFINE ps == <<Publish(m, WireId(m, id))>>
    <3>1. ps \in Seq(Wire) /\ \A i \in DOMAIN ps : ps[i] \notin Publishes
      <4>1. Qos[m] # 2
        BY <1>2, <2>2, MsgFacts
      <4> QED
        BY <1>3, <4>1 DEF Publish, Publishes, IsPublish2
    <3>2. Write(s, ps)
      BY <2>2 DEF VisitRelease
    <3> QED
      BY <1>1, <3>1, <3>2, WriteFrame
  <2>3. CASE inbox' = inbox
    BY <1>1, <2>3, SameFrames
  <2> QED
    BY <2>1, <2>2, <2>3 DEF VisitPublish, VisitRelease
<1>5. OfflineFrame
  <2>1. CASE OfflineMsg' = OfflineMsg
    BY <2>1 DEF OfflineFrame
  <2>2. CASE Enqueue(s, m, id) /\ Qos[m] # 2
    <3> SUFFICES ASSUME NEW t \in ClientId, NEW i \in DOMAIN OfflineMsg'[t],
                        Qos[OfflineMsg'[t][i].msg] = 2
                 PROVE  /\ i \in DOMAIN OfflineMsg[t]
                        /\ OfflineMsg'[t][i] = OfflineMsg[t][i]
      BY DEF OfflineFrame
    <3> DEFINE e == [msg |-> m, pid |-> id]
    <3>1. OfflineMsg[t] \in Seq(Queued) /\ e \in Queued /\ e.msg = m
      BY <1>1, <1>2 DEF SessTypes, Queued
    <3>2. \/ OfflineMsg'[t] = OfflineMsg[t]
          \/ OfflineMsg'[t] = Append(OfflineMsg[t], e)
      BY <1>1, <2>2 DEF Enqueue, SessTypes
    <3> HIDE DEF e
    <3> QED
      BY <2>2, <3>1, <3>2, AppendProperties
  <2>3. CASE VisitPublish(s, id)
    BY <2>1, <2>2, <2>3 DEF VisitPublish
  <2>4. CASE VisitRelease(s, id) /\ Qos[m] < 2
    <3>1. Qos[m] # 2
      BY <1>2, <2>4, MsgFacts
    <3> QED
      BY <2>1, <2>2, <2>4, <3>1 DEF VisitRelease
  <2> QED
    BY <2>3, <2>4
<1>6. ReleaseFrame
  <2>1. StatusFrame
    BY VisitStatus
  <2>2. NoneTaken /\ pstate' = pstate
    BY <1>2 DEF NoneTaken, clientVars
  <2>3. \A n \in Msg : Unreleased(n)' => Unreleased(n)
    BY <1>2, <2>1, <2>2, UnreleasedFrame
  <2> QED
    BY <1>2, <2>3 DEF ReleaseFrame, Releasing
<1>7. HandInv' /\ got' = got
  BY <1>2 DEF HandInv, clientVars
<1> QED
  BY <1>1, <1>4, <1>5, <1>6, <1>7, DeliveryFrame

(* What is in a sequence after Append.                                      *)
LEMMA AppendElements ==
  ASSUME NEW S, NEW q \in Seq(S), NEW e \in S
  PROVE  \A k \in DOMAIN Append(q, e) :
           \/ k \in DOMAIN q /\ Append(q, e)[k] = q[k]
           \/ k = Len(q) + 1 /\ Append(q, e)[k] = e
  BY AppendProperties

(* A turn of the loop that does: s has no copy yet, and gets one.           *)
LEMMA DeliveryCopy ==
  ASSUME TypeInv, TypeInv', DeliveryInv, NEW s \in ClientId,
         NEW id \in ServerPid, VisitRelease(s, id), Qos[dmsg.msg] = 2
  PROVE  DeliveryInv'
<1> USE DEF DeliveryInv
<1> DEFINE m == dmsg.msg
           p == Publish(m, WireId(m, id))
           e == [msg |-> m, pid |-> id]
<1>1. NetTypes /\ SessTypes
  BY DEF TypeInv
<1>2. /\ dpc = "loop" /\ m \in Msg /\ id \in Pid /\ s \in todo
      /\ dmsg.type \in {"PUBREL", "CLUSTER"}
      /\ UNCHANGED <<dpc, dmsg, clientVars, arrived, forwarded>>
      /\ todo' = todo \ {s}
  BY MsgFacts DEF TypeInv, DispTypes, VisitRelease, Visiting
<1>3. /\ p \in Wire /\ p.type = "PUBLISH" /\ p.msg = m
      /\ e \in Queued /\ e.msg = m
  BY <1>2, MsgFacts, PacketFacts DEF WireId, Publish, Queued
<1>4. \/ /\ inbox' = inbox
         /\ OfflineMsg' = OfflineMsg \/ Enqueue(s, m, id)
      \/ Write(s, <<p>>) /\ OfflineMsg' = OfflineMsg
  BY DEF VisitRelease
<1> HIDE DEF p, e
\* What is new on the connections and in the queues.
<1>5. ASSUME NEW t \in ClientId
      PROVE  /\ \A k \in DOMAIN inbox'[t] :
                  \/ k \in DOMAIN inbox[t] /\ inbox'[t][k] = inbox[t][k]
                  \/ t = s /\ k = Len(inbox[t]) + 1 /\ inbox'[t][k] = p
             /\ \A k \in DOMAIN OfflineMsg'[t] :
                  \/ /\ k \in DOMAIN OfflineMsg[t]
                     /\ OfflineMsg'[t][k] = OfflineMsg[t][k]
                  \/ /\ t = s /\ k = Len(OfflineMsg[t]) + 1
                     /\ OfflineMsg'[t][k] = e
             /\ inbox'[t] = inbox[t] \/ OfflineMsg'[t] = OfflineMsg[t]
  <2>1. inbox[t] \in Seq(Wire) /\ OfflineMsg[t] \in Seq(Queued)
    BY <1>1 DEF NetTypes, SessTypes
  <2>2. inbox[t] \o <<p>> = Append(inbox[t], p)
    BY <1>3, <2>1
  <2>3. /\ Write(s, <<p>>) =>
             \/ inbox'[t] = inbox[t]
             \/ t = s /\ inbox'[t] = Append(inbox[t], p)
        /\ Enqueue(s, m, id) =>
             \/ OfflineMsg'[t] = OfflineMsg[t]
             \/ t = s /\ OfflineMsg'[t] = Append(OfflineMsg[t], e)
    BY <1>1, <2>1, <2>2 DEF Write, Enqueue, NetTypes, SessTypes, e
  <2>4. /\ \/ inbox'[t] = inbox[t]
           \/ t = s /\ inbox'[t] = Append(inbox[t], p)
        /\ \/ OfflineMsg'[t] = OfflineMsg[t]
           \/ t = s /\ OfflineMsg'[t] = Append(OfflineMsg[t], e)
        /\ inbox'[t] = inbox[t] \/ OfflineMsg'[t] = OfflineMsg[t]
    BY <1>4, <2>1, <2>3
  <2>5. \A k \in DOMAIN inbox'[t] :
          \/ k \in DOMAIN inbox[t] /\ inbox'[t][k] = inbox[t][k]
          \/ t = s /\ k = Len(inbox[t]) + 1 /\ inbox'[t][k] = p
    <3>1. CASE inbox'[t] = inbox[t]
      BY <3>1
    <3>2. CASE t = s /\ inbox'[t] = Append(inbox[t], p)
      BY <1>3, <2>1, <3>2, AppendElements
    <3> QED
      BY <2>4, <3>1, <3>2
  <2>6. \A k \in DOMAIN OfflineMsg'[t] :
          \/ k \in DOMAIN OfflineMsg[t] /\ OfflineMsg'[t][k] = OfflineMsg[t][k]
          \/ t = s /\ k = Len(OfflineMsg[t]) + 1 /\ OfflineMsg'[t][k] = e
    <3>1. CASE OfflineMsg'[t] = OfflineMsg[t]
      BY <3>1
    <3>2. CASE t = s /\ OfflineMsg'[t] = Append(OfflineMsg[t], e)
      BY <1>3, <2>1, <3>2, AppendElements
    <3> QED
      BY <2>4, <3>1, <3>2
  <2> QED
    BY <2>4, <2>5, <2>6
<1>6. ASSUME NEW t \in ClientId, NEW n \in Msg, t # s \/ n # m
      PROVE  /\ InInbox(t, n)' => InInbox(t, n)
             /\ OneInbox(t, n) => OneInbox(t, n)'
             /\ InQueue(t, n)' => InQueue(t, n)
             /\ OneQueue(t, n) => OneQueue(t, n)'
  <2>1. \A k \in DOMAIN inbox'[t] :
          inbox'[t][k].type = "PUBLISH" /\ inbox'[t][k].msg = n =>
            k \in DOMAIN inbox[t] /\ inbox'[t][k] = inbox[t][k]
    BY <1>3, <1>5, <1>6
  <2>2. \A k \in DOMAIN OfflineMsg'[t] : OfflineMsg'[t][k].msg = n =>
          k \in DOMAIN OfflineMsg[t] /\ OfflineMsg'[t][k] = OfflineMsg[t][k]
    BY <1>3, <1>5, <1>6
  <2> QED
    BY <2>1, <2>2 DEF InInbox, OneInbox, InQueue, OneQueue
<1>7. Releasing(m) /\ Nowhere(s, m)
  BY <1>2 DEF CopyInv, Releasing
<1>8. ASSUME NEW n \in Msg, n = m
      PROVE  /\ OneInbox(s, n)' /\ OneQueue(s, n)'
             /\ ~ (InInbox(s, n)' /\ InQueue(s, n)')
  <2>0. Len(inbox[s]) + 1 \notin DOMAIN inbox[s]
        /\ Len(OfflineMsg[s]) + 1 \notin DOMAIN OfflineMsg[s]
    <3>1. inbox[s] \in Seq(Wire) /\ OfflineMsg[s] \in Seq(Queued)
      BY <1>1 DEF NetTypes, SessTypes
    <3> QED
      BY <3>1
  <2>1. \A k \in DOMAIN inbox'[s] :
          inbox'[s][k].type = "PUBLISH" /\ inbox'[s][k].msg = n =>
            k = Len(inbox[s]) + 1 /\ k \notin DOMAIN inbox[s]
    BY <1>5, <1>7, <1>8, <2>0 DEF Nowhere, InInbox
  <2>2. \A k \in DOMAIN OfflineMsg'[s] : OfflineMsg'[s][k].msg = n =>
          k = Len(OfflineMsg[s]) + 1 /\ k \notin DOMAIN OfflineMsg[s]
    BY <1>5, <1>7, <1>8, <2>0 DEF Nowhere, InQueue
  <2>3. inbox'[s] = inbox[s] \/ OfflineMsg'[s] = OfflineMsg[s]
    BY <1>5
  <2> QED
    BY <2>1, <2>2, <2>3 DEF InInbox, InQueue, OneInbox, OneQueue
<1>9. ASSUME NEW t \in ClientId, NEW n \in Msg
      PROVE  InGot(t, n)' = InGot(t, n) /\ OneGot(t, n)' = OneGot(t, n)
  BY <1>2 DEF InGot, OneGot, clientVars
<1>10. FreshInv'
  <2> SUFFICES ASSUME NEW n \in Msg, Qos[n] = 2, Unreleased(n)'
               PROVE  Fresh(n)'
    BY DEF FreshInv
  <2>1. StatusFrame /\ NoneTaken /\ pstate' = pstate
    BY <1>2, VisitStatus DEF NoneTaken, clientVars
  <2>2. Fresh(n)
    BY <1>2, <2>1, UnreleasedFrame DEF FreshInv
  <2>3. n # m
    BY <1>7, <2>2 DEF Fresh
  <2> QED
    BY <1>2, <1>6, <1>9, <2>2, <2>3 DEF Fresh, Nowhere, Releasing
<1>11. CopyInv'
  <2> SUFFICES ASSUME NEW n \in Msg, NEW t \in ClientId, Qos[n] = 2
               PROVE  CopyInv!(n, t)!2'
    BY DEF CopyInv
  <2>1. CopyInv!(n, t)!2
    BY DEF CopyInv
  <2>2. Releasing(n)' /\ t \in todo' => Releasing(n) /\ t \in todo /\ t # s
    BY <1>2 DEF Releasing
  <2>3. CASE t # s \/ n # m
    BY <1>6, <1>9, <2>1, <2>2, <2>3 DEF Nowhere
  <2>4. CASE t = s /\ n = m
    BY <1>7, <1>8, <1>9, <2>1, <2>2, <2>4 DEF Nowhere
  <2> QED
    BY <2>3, <2>4
<1>12. ForwardInv' /\ HandInv'
  BY <1>2 DEF ForwardInv, HandInv, Releasing
<1> QED
  BY <1>10, <1>11, <1>12

(* Every step keeps the copies apart.                                       *)
LEMMA DeliveryStep ==
  ASSUME TypeInv, TypeInv', FlowInv, DeliveryInv, [Next]_vars
  PROVE  DeliveryInv'
<1>1. CASE UNCHANGED vars
  BY <1>1 DEF vars, sessVars, goVars, dispVars, netVars, clientVars,
     DeliveryInv, FreshInv, CopyInv, ForwardInv, HandInv, Fresh, Unreleased,
     Nowhere, InGot, InInbox, InQueue, OneGot, OneInbox, OneQueue, Releasing
<1>2. ASSUME NEW s \in ClientId,
             \/ Client(s) \/ Goroutine(s) \/ Connect(s) \/ DispatchRecv(s)
             \/ Drop(s)
             \/ \E m \in Msg, id \in ClientPid \cup {NoPid} :
                  ClientPublish(s, m, id)
      PROVE  DeliveryInv'
  BY <1>2, DeliveryClient, DeliveryReceive, DeliveryConnect, DeliveryTake
  DEF Client, Goroutine
<1>3. ASSUME NEW s \in ClientId, NEW id \in ServerPid,
             VisitPublish(s, id) \/ VisitRelease(s, id)
      PROVE  DeliveryInv'
  <2>1. Qos[dmsg.msg] = 2 \/ Qos[dmsg.msg] < 2
    <3>1. dmsg.msg \in Msg
      BY <1>3 DEF TypeInv, DispTypes, VisitPublish, VisitRelease, Visiting
    <3>2. Qos[dmsg.msg] \in 0..2
      BY <3>1, MsgFacts
    <3> QED
      BY <3>2
  <2> QED
    BY <1>3, <2>1, DeliveryTurn, DeliveryCopy
<1>4. CASE Dispatcher \/ \E m \in Msg : ClusterRecv(m)
  BY <1>1, <1>3, <1>4, DeliveryTake, DeliveryAcks, DeliveryRelease,
     DeliveryCluster, DeliveryEnd
  DEF Dispatcher, DrawAgain
<1> QED
  BY <1>1, <1>2, <1>4 DEF Next, Idle

-----------------------------------------------------------------------------
(* Everything above holds of every reachable state.                         *)
LEMMA DispatchInvariant == Spec => [](TypeInv /\ FlowInv /\ DeliveryInv)
<1>1. Init => TypeInv /\ FlowInv /\ DeliveryInv
  BY TypeInit, FlowInit, DeliveryInit
<1>2. TypeInv /\ FlowInv /\ DeliveryInv /\ [Next]_vars =>
        TypeInv' /\ FlowInv' /\ DeliveryInv'
  BY TypeStep, FlowStep, DeliveryStep
<1> QED
  BY <1>1, <1>2, PTL DEF Spec

(* Counting the copies a client was handed.                                 *)
LEMMA TimesFacts ==
  ASSUME ClientTypes, NEW s \in ClientId, NEW m \in Msg
  PROVE  /\ ~ InGot(s, m) => Times(s, m) = 0
         /\ OneGot(s, m) => Times(s, m) <= 1
<1> DEFINE S == {i \in DOMAIN got[s] : got[s][i] = m}
<1>1. ~ InGot(s, m) => Times(s, m) = 0
  <2>1. ~ InGot(s, m) => S = {}
    BY DEF InGot
  <2> QED
    BY <2>1, FS_EmptySet DEF Times
<1>2. OneGot(s, m) => Times(s, m) <= 1
  <2>1. CASE S = {}
    BY <2>1, FS_EmptySet DEF Times
  <2>2. CASE S # {}
    <3>1. PICK i \in S : TRUE
      BY <2>2
    <3>2. OneGot(s, m) => S = {i}
      BY <3>1 DEF OneGot
    <3>3. Cardinality({i}) = 1
      BY FS_Singleton
    <3> QED
      BY <3>2, <3>3 DEF Times
  <2> QED
    BY <2>1, <2>2
<1> QED
  BY <1>1, <1>2

(* For any clients, messages, ids - shared by clients and server or not -   *)
(* and any lost connections, with everything their clients send again: a    *)
(* QoS 2 message is handed to a subscriber once at most, and once at most   *)
(* to the peers.                                                            *)
THEOREM HandedOnOnce == Spec => []ExactlyOnce
<1>1. TypeInv /\ DeliveryInv => ExactlyOnce
  BY TimesFacts
  DEF TypeInv, DeliveryInv, CopyInv, ForwardInv, ExactlyOnce
<1> QED
  BY DispatchInvariant, <1>1, PTL

(* And nobody, subscriber or peer, sees one before its publisher has sent   *)
(* the PUBREL that releases it.                                             *)
THEOREM ReleasedByPublisher == Spec => []NoEarlyRelease
<1>1. TypeInv /\ DeliveryInv => NoEarlyRelease
  <2> SUFFICES ASSUME TypeInv, DeliveryInv, NEW m \in Msg,
                      Publisher[m] # NoClient, Qos[m] = 2,
                      pstate[m] \in {"idle", "sent"}
               PROVE  /\ forwarded[m] = 0
                      /\ \A s \in ClientId :
                           Times(s, m) = 0 /\ ~ InInbox(s, m)
    BY DEF NoEarlyRelease
  <2>1. Fresh(m)
    BY DEF DeliveryInv, FreshInv, Unreleased
  <2> QED
    BY <2>1, TimesFacts DEF Fresh, Nowhere, TypeInv
<1> QED
  BY DispatchInvariant, <1>1, PTL
=============================================================================
