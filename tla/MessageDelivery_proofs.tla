---------------------- MODULE MessageDelivery_proofs ----------------------
(***************************************************************************)
(* Delivery, for any clients, messages and packet ids, whatever            *)
(* connections are lost and however many packets a Read takes.  Messages   *)
(* of one publisher and one QoS reach a subscriber in the order in which   *)
(* they were published; the server awaits the PUBREC of every QoS 2        *)
(* message it sent; no acknowledged message is lost before it was sent.    *)
(* As long as no connection is lost, every flow runs to its end, unless a  *)
(* Read drops the packet it waits for.                                     *)
(***************************************************************************)
EXTENDS MessageDispatch_proofs

-----------------------------------------------------------------------------
(* The inductive invariant, on top of the one of MessageDispatch_proofs.    *)

\* m is published before n, by the same client.
Before(m, n) ==
  m < n /\ Publisher[m] = Publisher[n] /\ Publisher[m] \in ClientId

\* A lost connection carries nothing; who is online has nothing queued.
ConnInv ==
  \A s \in ClientId :
    /\ ~ link[s] => inbox[s] = <<>> /\ outbox[s] = <<>>
    /\ gpc[s] = "off" <=> ~ LoginSuccess[s]
    /\ gpc[s] = "off" => ~ link[s]
    /\ LoginSuccess[s] => OfflineMsg[s] = <<>>

\* A client begins with its messages in their order, and sends its own.
Begun(m) == pstate[m] # "idle"

BegunInv ==
  /\ \A m \in Msg : Begun(m) => Publisher[m] \in ClientId
  /\ \A m \in Msg : Qos[m] = 0 => pstate[m] \in {"idle", "done"}
  /\ \A m, n \in Msg : Before(m, n) /\ Begun(n) => Begun(m)

\* A PUBLISH on its way is of the client whose connection it is on.
Own(s, p) == p.type = "PUBLISH" => Publisher[p.msg] = s /\ Begun(p.msg)

OriginInv ==
  /\ \A s \in ClientId : \A i \in DOMAIN outbox[s] : Own(s, outbox[s][i])
  /\ \A s \in ClientId : gpc[s] \in {"send", "ack"} => Own(s, req[s])
  /\ dpc # "select" => Own(dmsg.from, dmsg)
  /\ dpc = "loop" /\ dmsg.type = "PUBREL" => Begun(dmsg.msg)

\* What is anywhere on its way to a subscriber was published.
PlacesInv ==
  \A m \in Msg, s \in ClientId :
    Publisher[m] # NoClient /\ ~ Nowhere(s, m) => Begun(m)

\* Without lost connections a client that is not connected never was.
NewWhenOff(s) ==
  /\ ~ link[s] => gpc[s] = "off"
  /\ gpc[s] = "off" => \A m \in Msg : Publisher[m] = s => pstate[m] = "idle"

NeverInv == MaxDrops = 0 => \A s \in ClientId : NewWhenOff(s)

\* The buffer of the PUBLISH case has packets for one message only.
BufferInv ==
  IF dpc = "loop" THEN \A i \in DOMAIN write_buf : write_buf[i].msg = dmsg.msg
  ELSE write_buf = <<>>

BasicInv ==
  /\ HistoryTypes /\ ConnInv /\ BegunInv /\ OriginInv /\ PlacesInv
  /\ NeverInv /\ BufferInv

-----------------------------------------------------------------------------
(* Connections and clients.                                                 *)

\* What TypeInv and the invariant of MessageDispatch_proofs say.
DispInv == TypeInv /\ FlowInv /\ DeliveryInv

(* At first nobody has published anything.                                  *)
LEMMA BasicInit == Init => BasicInv
<1> SUFFICES ASSUME Init PROVE BasicInv
  OBVIOUS
<1> USE DEF Init
<1>1. ConnInv
  BY DEF ConnInv
<1>2. BegunInv /\ OriginInv
  BY DEF BegunInv, OriginInv, Begun, Own, NoReq
<1>2a. NeverInv
  <2>1. \A s \in ClientId : (link[s] <=> s \in OnlineAtStart)
    OBVIOUS
  <2> QED
    BY <2>1 DEF NeverInv, NewWhenOff
<1>3. PlacesInv
  BY DEF PlacesInv, Nowhere, InGot, InInbox, InQueue
<1>4. BufferInv /\ HistoryTypes
  BY DEF BufferInv, HistoryTypes
<1> QED
  BY <1>1, <1>2, <1>2a, <1>3, <1>4 DEF BasicInv

(* What the steps may do to a session's connection.                         *)
LEMMA ConnClient ==
  ASSUME TypeInv, ConnInv, NEW s \in ClientId,
         \/ Client(s) \/ Drop(s) \/ Goroutine(s) \/ Connect(s)
         \/ DispatchRecv(s)
         \/ \E m \in Msg, id \in ClientPid \cup {NoPid} :
              ClientPublish(s, m, id)
  PROVE  ConnInv'
<1> USE DEF TypeInv, SessTypes, GoTypes, NetTypes
<1>1. CASE \E m \in Msg, id \in ClientPid \cup {NoPid} :
             ClientPublish(s, m, id)
  BY <1>1 DEF ClientPublish, Send, ConnInv, sessVars, goVars
<1>2. CASE ClientReceive(s)
  <2>1. /\ UNCHANGED <<sessVars, goVars, link>>
        /\ inbox' = [inbox EXCEPT ![s] = Tail(@)]
        /\ inbox[s] # <<>>
        /\ \A t \in ClientId : t # s => outbox'[t] = outbox[t]
    <3>1. Head(inbox[s]) \in Wire /\ Head(inbox[s]).type = "PUBLISH"
      BY <1>2, ConsumeTypes DEF ClientReceive, Arriving
    <3>2. Qos[Head(inbox[s]).msg] \in 0..2
      BY <3>1, MsgFacts DEF Wire
    <3>3. \/ UNCHANGED outbox
          \/ Send(s, Ack("PUBACK", Head(inbox[s]).pid))
          \/ Send(s, Ack("PUBREC", Head(inbox[s]).pid))
      <4>1. \/ Qos[Head(inbox[s]).msg] = 0 \/ Qos[Head(inbox[s]).msg] = 1
            \/ Qos[Head(inbox[s]).msg] = 2
        BY <3>2
      <4> QED
        BY <1>2, <4>1 DEF ClientReceive
    <3> QED
      BY <1>2, <3>3 DEF ClientReceive, Arriving, Consume, Send
  <2> QED
    BY <2>1 DEF ConnInv, sessVars, goVars
<1>3. CASE ClientReleased(s) \/ ClientPubRec(s)
  <2>1. /\ UNCHANGED <<sessVars, goVars, link>>
        /\ inbox' = [inbox EXCEPT ![s] = Tail(@)]
        /\ inbox[s] # <<>>
        /\ \A t \in ClientId : t # s => outbox'[t] = outbox[t]
    BY <1>3 DEF ClientReleased, ClientPubRec, Arriving, Consume, Send
  <2> QED
    BY <2>1 DEF ConnInv, sessVars, goVars
<1>4. CASE ClientPubDone(s)
  BY <1>4 DEF ClientPubDone, Arriving, Consume, ConnInv, sessVars, goVars
<1>5. CASE Drop(s)
  BY <1>5 DEF Drop, ConnInv, sessVars, goVars
<1>6. CASE Read(s)
  BY <1>6 DEF Read, ConnInv, sessVars
<1>7. CASE AckPublish(s)
  <2>1. /\ UNCHANGED <<sessVars, link, outbox>>
        /\ gpc[s] = "ack" /\ gpc' = [gpc EXCEPT ![s] = "read"]
        /\ \A t \in ClientId : ~ link[t] => inbox'[t] = inbox[t]
    <3>1. req[s] \in Wire /\ req[s].type = "PUBLISH"
      BY <1>7 DEF AckPublish
    <3>2. Qos[req[s].msg] \in 0..2
      BY <3>1, MsgFacts DEF Wire
    <3>3. \/ UNCHANGED inbox
          \/ Write(s, <<Ack("PUBACK", req[s].pid)>>)
          \/ Write(s, <<Ack("PUBREC", req[s].pid)>>)
      <4>1. Qos[req[s].msg] = 0 \/ Qos[req[s].msg] = 1 \/ Qos[req[s].msg] = 2
        BY <3>2
      <4> QED
        BY <1>7, <4>1 DEF AckPublish
    <3> QED
      BY <1>7, <3>3 DEF AckPublish, Write
  <2> QED
    BY <2>1 DEF ConnInv, sessVars
<1>8. CASE Exit(s)
  BY <1>8 DEF Exit, ConnInv, netVars
<1>9. CASE Connect(s)
  BY <1>9 DEF Connect, ConnInv
<1>10. CASE DispatchRecv(s)
  BY <1>10 DEF DispatchRecv, ConnInv, sessVars, netVars
<1> QED
  BY <1>1, <1>2, <1>3, <1>4, <1>5, <1>6, <1>7, <1>8, <1>9, <1>10
  DEF Client, Goroutine

(* What the dispatcher writes, and queues.                                  *)
LEMMA ConnDispatcher ==
  ASSUME TypeInv, ConnInv, Dispatcher \/ \E m \in Msg : ClusterRecv(m)
  PROVE  ConnInv'
<1> USE DEF TypeInv, SessTypes, GoTypes, NetTypes
<1>1. /\ UNCHANGED <<LoginSuccess, goVars, link, outbox>>
      /\ \A t \in ClientId : ~ link[t] => inbox'[t] = inbox[t]
      /\ \A t \in ClientId : LoginSuccess[t] => OfflineMsg'[t] = OfflineMsg[t]
  <2>1. CASE \/ \E m \in Msg : ClusterRecv(m)
             \/ BeginPublish \/ BeginCluster \/ ProcessPubAck
             \/ ProcessPubComp \/ DropAck \/ EndLoop
    BY <2>1 DEF ClusterRecv, BeginPublish, BeginCluster, ProcessPubAck,
       ProcessPubComp, DropAck, EndLoop, sessVars, netVars
  <2>2. CASE BeginRelease \/ ProcessPubRec
    BY <2>2 DEF BeginRelease, ProcessPubRec, Complete, Write, goVars
  <2>3. ASSUME NEW s \in ClientId, NEW id \in ServerPid, VisitPublish(s, id)
        PROVE  <1>1
    <3>1. /\ UNCHANGED <<LoginSuccess, goVars, link, outbox>>
          /\ inbox' = inbox \/ Write(s, PublishBuffer(dmsg.msg, id))
      BY <2>3 DEF VisitPublish
    <3>2. OfflineMsg' = OfflineMsg
          \/ (~ LoginSuccess[s] /\ Enqueue(s, dmsg.msg, id))
      BY <2>3 DEF VisitPublish
    <3> QED
      BY <3>1, <3>2 DEF Write, Enqueue
  <2>4. ASSUME NEW s \in ClientId, NEW id \in ServerPid, VisitRelease(s, id)
        PROVE  <1>1
    <3>1. /\ UNCHANGED <<LoginSuccess, goVars, link, outbox>>
          /\ \/ inbox' = inbox
             \/ Write(s, <<Publish(dmsg.msg, WireId(dmsg.msg, id))>>)
      BY <2>4 DEF VisitRelease
    <3>2. OfflineMsg' = OfflineMsg
          \/ (~ LoginSuccess[s] /\ Enqueue(s, dmsg.msg, id))
      BY <2>4 DEF VisitRelease
    <3> QED
      BY <3>1, <3>2 DEF Write, Enqueue
  <2>5. CASE UNCHANGED vars
    BY <2>5 DEF vars, sessVars, netVars
  <2> QED
    BY <2>1, <2>2, <2>3, <2>4, <2>5 DEF Dispatcher, DrawAgain
<1> QED
  BY <1>1 DEF ConnInv, goVars

LEMMA ConnStep ==
  ASSUME TypeInv, ConnInv, [Next]_vars
  PROVE  ConnInv'
<1>1. CASE UNCHANGED vars
  BY <1>1 DEF vars, sessVars, goVars, netVars, ConnInv
<1> QED
  BY <1>1, ConnClient, ConnDispatcher DEF Next, Idle

(* How far the publishers are: one step at a time, and only their own       *)
(* connection takes them there.                                             *)
LEMMA PubRecProgress ==
  ASSUME TypeInv, NEW s \in ClientId, ClientPubRec(s)
  PROVE  /\ ppid' = ppid
         /\ \A m \in Msg :
              IF /\ Publisher[m] = s /\ ppid[m] = Head(inbox[s]).pid
                 /\ Qos[m] = 2 /\ pstate[m] \in {"sent", "released"}
              THEN pstate'[m] = "released" ELSE pstate'[m] = pstate[m]
  BY DEF ClientPubRec, InFlight

LEMMA PubDoneProgress ==
  ASSUME TypeInv, NEW s \in ClientId, ClientPubDone(s)
  PROVE  /\ ppid' = ppid
         /\ Head(inbox[s]).type \in {"PUBACK", "PUBCOMP"}
         /\ \A m \in Msg :
              IF /\ Publisher[m] = s /\ ppid[m] = Head(inbox[s]).pid
                 /\ \/ /\ Head(inbox[s]).type = "PUBACK" /\ Qos[m] = 1
                       /\ pstate[m] \in {"sent", "released"}
                    \/ /\ Head(inbox[s]).type = "PUBCOMP"
                       /\ pstate[m] = "released"
              THEN pstate'[m] = "done" ELSE pstate'[m] = pstate[m]
<1> DEFINE p == Head(inbox[s])
           ms == {m \in InFlight(s, p.pid) :
                    \/ p.type = "PUBACK" /\ Qos[m] = 1
                    \/ p.type = "PUBCOMP" /\ pstate[m] = "released"}
<1>1. ppid' = ppid /\ p.type \in {"PUBACK", "PUBCOMP"}
  BY DEF ClientPubDone, Arriving
<1>2. pstate' = [m \in Msg |-> IF m \in ms THEN "done" ELSE pstate[m]]
  BY DEF ClientPubDone
<1>3. ASSUME NEW m \in Msg
      PROVE  m \in ms <=>
               /\ Publisher[m] = s /\ ppid[m] = p.pid
               /\ \/ /\ p.type = "PUBACK" /\ Qos[m] = 1
                     /\ pstate[m] \in {"sent", "released"}
                  \/ p.type = "PUBCOMP" /\ pstate[m] = "released"
  BY DEF InFlight
<1> HIDE DEF ms, p
<1>4. \A m \in Msg :
        pstate'[m] = IF m \in ms THEN "done" ELSE pstate[m]
  BY <1>2
<1> QED
  BY <1>1, <1>3, <1>4 DEF p

\* The steps that leave the publishers where they are.
Still == pstate' = pstate /\ ppid' = ppid

LEMMA StillSteps ==
  ASSUME [Next]_vars
  PROVE  \/ Still
         \/ \E s \in ClientId, m \in Msg, id \in ClientPid \cup {NoPid} :
              ClientPublish(s, m, id)
         \/ \E s \in ClientId : ClientPubRec(s) \/ ClientPubDone(s)
<1>1. CASE UNCHANGED vars
  BY <1>1 DEF vars, clientVars, Still
<1>2. ASSUME NEW s \in ClientId,
             \/ ClientReceive(s) \/ ClientReleased(s)
             \/ Goroutine(s) \/ Connect(s) \/ DispatchRecv(s) \/ Drop(s)
      PROVE  Still
  BY <1>2 DEF ClientReceive, ClientReleased, Goroutine, Read, AckPublish,
     Exit, Connect, DispatchRecv, Drop, clientVars, Still
<1>3. CASE Dispatcher \/ \E m \in Msg : ClusterRecv(m)
  BY <1>1, <1>3 DEF Dispatcher, ClusterRecv, BeginPublish, BeginCluster,
     BeginRelease, ProcessPubAck, ProcessPubRec, ProcessPubComp, DropAck,
     VisitPublish, VisitRelease, DrawAgain, EndLoop, clientVars, Still
<1> QED
  BY <1>1, <1>2, <1>3 DEF Next, Client, Idle

(* Who has begun stays so.                                                  *)
LEMMA BegunStays ==
  ASSUME TypeInv, [Next]_vars, NEW m \in Msg, Begun(m)
  PROVE  Begun(m)'
<1>1. ASSUME NEW s \in ClientId, NEW n \in Msg,
             NEW id \in ClientPid \cup {NoPid}, ClientPublish(s, n, id)
      PROVE  Begun(m)'
  <2>1. pstate'[m] = pstate[m] \/ pstate'[m] \in {"sent", "done"}
    BY <1>1 DEF ClientPublish, TypeInv, ClientTypes
  <2> QED
    BY <2>1 DEF Begun
<1>2. CASE Still
  BY <1>2 DEF Still, Begun
<1> QED
  BY <1>1, <1>2, StillSteps, PubRecProgress, PubDoneProgress DEF Begun

(* ... with the packet id it began with.                                    *)
LEMMA BegunPid ==
  ASSUME TypeInv, [Next]_vars, NEW m \in Msg, Begun(m)
  PROVE  ppid'[m] = ppid[m]
<1>1. ASSUME NEW s \in ClientId, NEW n \in Msg,
             NEW id \in ClientPid \cup {NoPid}, ClientPublish(s, n, id)
      PROVE  ppid'[m] = ppid[m]
  BY <1>1 DEF ClientPublish, TypeInv, ClientTypes, Begun
<1> QED
  BY <1>1, StillSteps, PubRecProgress, PubDoneProgress DEF Still

LEMMA BegunStep ==
  ASSUME TypeInv, BegunInv, [Next]_vars
  PROVE  BegunInv'
<1>1. ASSUME NEW s \in ClientId, NEW m \in Msg,
             NEW id \in ClientPid \cup {NoPid}, ClientPublish(s, m, id)
      PROVE  BegunInv'
  <2>1. /\ pstate'[m] = IF Qos[m] = 0 THEN "done" ELSE "sent"
        /\ \A n \in Msg : n # m => pstate'[n] = pstate[n]
        /\ Publisher[m] = s
        /\ \A n \in Msg : n < m /\ Publisher[n] = s => Begun(n)
    BY <1>1 DEF ClientPublish, TypeInv, ClientTypes, Begun
  <2>2. \A n \in Msg : Begun(n)' <=> n = m \/ Begun(n)
    BY <2>1 DEF Begun
  <2> QED
    BY <2>1, <2>2, MsgFacts DEF BegunInv, Before
<1>2. CASE Still
  BY <1>2 DEF BegunInv, Still, Begun
<1>3. ASSUME NEW s \in ClientId, ClientPubRec(s) \/ ClientPubDone(s)
      PROVE  BegunInv'
  <2>1. \A m \in Msg : /\ Begun(m)' <=> Begun(m)
                       /\ pstate'[m] = pstate[m] \/ pstate'[m] = "done"
                          \/ Qos[m] = 2
    BY <1>3, PubRecProgress, PubDoneProgress DEF Begun
  <2> QED
    BY <2>1 DEF BegunInv, Begun
<1> QED
  BY <1>1, <1>2, <1>3, StillSteps

\* p is a PUBLISH of s after the step.
OwnAfter(s, p) ==
  p.type = "PUBLISH" => Publisher[p.msg] = s /\ pstate'[p.msg] # "idle"

(* Who has a PUBLISH of its own on the way keeps it as its own.             *)
LEMMA OwnStays ==
  ASSUME TypeInv, [Next]_vars, NEW s, NEW p, Own(s, p),
         p.type = "PUBLISH" => p.msg \in Msg
  PROVE  OwnAfter(s, p)
  BY BegunStays DEF Own, OwnAfter, Begun

LEMMA OriginPublish ==
  ASSUME TypeInv, OriginInv, [Next]_vars, NEW s \in ClientId, NEW m \in Msg,
         NEW id \in ClientPid \cup {NoPid}, ClientPublish(s, m, id)
  PROVE  OriginInv'
<1> DEFINE p == Publish(m, id)
<1>1. NetTypes /\ GoTypes /\ DispTypes /\ p \in Wire
  BY MsgFacts, PacketFacts DEF ClientPublish, TypeInv
<1>2. /\ p.type = "PUBLISH" /\ p.msg = m /\ Publisher[m] = s
      /\ UNCHANGED <<goVars, dispVars>> /\ Send(s, p)
      /\ pstate'[m] # "idle"
  BY DEF ClientPublish, Publish, TypeInv, ClientTypes
<1> HIDE DEF p
<1>3. ASSUME NEW t \in ClientId, NEW i \in DOMAIN outbox'[t]
      PROVE  OwnAfter(t, outbox'[t][i])
  <2>1. CASE i \in DOMAIN outbox[t] /\ outbox'[t][i] = outbox[t][i]
    <3>1. Own(t, outbox[t][i]) /\ outbox[t][i] \in Wire
      BY <1>1, <2>1, Positions DEF OriginInv
    <3> QED
      BY <2>1, <3>1, OwnStays DEF Wire
  <2>2. CASE t = s /\ outbox'[t][i] = p
    BY <1>2, <2>2 DEF OwnAfter
  <2> QED
    BY <1>1, <1>2, <2>1, <2>2, SendElements, Positions
<1>4. ASSUME NEW t \in ClientId, gpc'[t] \in {"send", "ack"}
      PROVE  OwnAfter(t, req'[t])
  BY <1>1, <1>2, <1>4, OwnStays DEF OriginInv, goVars, GoTypes, Wire
<1>5. dpc' # "select" => OwnAfter(dmsg'.from, dmsg')
  BY <1>1, <1>2, OwnStays, HandFacts
  DEF OriginInv, dispVars, DispTypes
<1>6. dpc' = "loop" /\ dmsg'.type = "PUBREL" => pstate'[dmsg'.msg] # "idle"
  BY <1>1, <1>2, BegunStays DEF OriginInv, Begun, dispVars, DispTypes
<1> QED
  BY <1>3, <1>4, <1>5, <1>6 DEF OriginInv, Own, OwnAfter, Begun

\* Steps that send no PUBLISH, and hand none over.
OriginFrame ==
  /\ \A s \in ClientId : \A i \in DOMAIN outbox'[s] :
       outbox'[s][i].type = "PUBLISH" =>
         \E j \in DOMAIN outbox[s] : outbox[s][j] = outbox'[s][i]
  /\ \A s \in ClientId : gpc'[s] \in {"send", "ack"} =>
       gpc[s] \in {"send", "ack"} /\ req'[s] = req[s]
  /\ dpc' # "select" /\ dmsg'.type \in {"PUBLISH", "PUBREL"} =>
       dpc # "select" /\ dmsg'.type = dmsg.type /\ dmsg'.from = dmsg.from
  /\ dpc' # "select" /\ dmsg'.type = "PUBLISH" => dmsg'.msg = dmsg.msg
  /\ dpc' = "loop" /\ dmsg'.type = "PUBREL" =>
       dpc = "loop" /\ dmsg'.msg = dmsg.msg

LEMMA OriginKeep ==
  ASSUME TypeInv, OriginInv, [Next]_vars, OriginFrame
  PROVE  OriginInv'
<1>1. NetTypes /\ GoTypes /\ DispTypes
  BY DEF TypeInv
<1>2. ASSUME NEW t \in ClientId, NEW i \in DOMAIN outbox'[t]
      PROVE  OwnAfter(t, outbox'[t][i])
  <2>1. CASE outbox'[t][i].type = "PUBLISH"
    <3>1. PICK j \in DOMAIN outbox[t] : outbox[t][j] = outbox'[t][i]
      BY <2>1 DEF OriginFrame
    <3>2. Own(t, outbox[t][j]) /\ outbox[t][j] \in Wire
      BY <1>1, Positions DEF OriginInv
    <3> QED
      BY <3>1, <3>2, OwnStays DEF Wire
  <2>2. CASE outbox'[t][i].type # "PUBLISH"
    BY <2>2 DEF OwnAfter
  <2> QED
    BY <2>1, <2>2
<1>3. ASSUME NEW t \in ClientId, gpc'[t] \in {"send", "ack"}
      PROVE  OwnAfter(t, req'[t])
  BY <1>1, <1>3, OwnStays DEF OriginInv, OriginFrame, GoTypes, Wire
<1>4. dpc' # "select" => OwnAfter(dmsg'.from, dmsg')
  <2> SUFFICES ASSUME dpc' # "select", dmsg'.type = "PUBLISH"
               PROVE  /\ Publisher[dmsg'.msg] = dmsg'.from
                      /\ pstate'[dmsg'.msg] # "idle"
    BY DEF OwnAfter
  <2>1. /\ dpc # "select" /\ dmsg.type = "PUBLISH"
        /\ dmsg'.from = dmsg.from /\ dmsg'.msg = dmsg.msg
    BY DEF OriginFrame
  <2>2. dmsg.msg \in Msg
    BY <1>1, <2>1, HandFacts DEF DispTypes
  <2> QED
    BY <2>1, <2>2, BegunStays DEF OriginInv, Own, Begun
<1>5. dpc' = "loop" /\ dmsg'.type = "PUBREL" => pstate'[dmsg'.msg] # "idle"
  BY <1>1, BegunStays DEF OriginInv, Begun, OriginFrame, DispTypes
<1> QED
  BY <1>2, <1>3, <1>4, <1>5 DEF OriginInv, Own, OwnAfter, Begun

(* The clients' answers, and the packets a connection takes.                *)
LEMMA AnswerFrame ==
  ASSUME NetTypes, NEW s \in ClientId, NEW p \in Wire, Send(s, p),
         p.type # "PUBLISH", NEW t \in ClientId, NEW i \in DOMAIN outbox'[t],
         outbox'[t][i].type = "PUBLISH"
  PROVE  \E j \in DOMAIN outbox[t] : outbox[t][j] = outbox'[t][i]
  BY SendElements, Positions

(* What a client answers to what the server publishes.                      *)
LEMMA ReceiveAnswer ==
  ASSUME TypeInv, NEW s \in ClientId, ClientReceive(s)
  PROVE  /\ Head(inbox[s]) \in Wire /\ Head(inbox[s]).type = "PUBLISH"
         /\ Head(inbox[s]).msg \in Msg
         /\ \/ UNCHANGED outbox
            \/ \E p \in Wire : /\ p.type \in {"PUBACK", "PUBREC"}
                               /\ Send(s, p)
<1> DEFINE p == Head(inbox[s])
<1>1. p \in Wire /\ p.type = "PUBLISH" /\ p.msg \in Msg
  BY ConsumeTypes DEF ClientReceive, Arriving, TypeInv, Wire
<1>2. Qos[p.msg] \in 0..2
  BY <1>1, MsgFacts
<1>3. CASE Qos[p.msg] = 0
  BY <1>1, <1>3 DEF ClientReceive
<1>4. CASE Qos[p.msg] = 1
  <2>1. Ack("PUBACK", p.pid) \in Wire /\ Ack("PUBACK", p.pid).type = "PUBACK"
    BY <1>1, <1>4, PacketFacts DEF Wire, Ack, Acks
  <2>2. Send(s, Ack("PUBACK", p.pid))
    BY <1>4 DEF ClientReceive
  <2> QED
    BY <1>1, <2>1, <2>2
<1>5. CASE Qos[p.msg] = 2
  <2>1. Ack("PUBREC", p.pid) \in Wire /\ Ack("PUBREC", p.pid).type = "PUBREC"
    BY <1>1, <1>5, PacketFacts DEF Wire, Ack, Acks
  <2>2. Send(s, Ack("PUBREC", p.pid))
    BY <1>5 DEF ClientReceive
  <2> QED
    BY <1>1, <2>1, <2>2
<1> QED
  BY <1>2, <1>3, <1>4, <1>5

(* What it answers to PUBREL and to PUBREC.                                 *)
LEMMA AckAnswer ==
  ASSUME TypeInv, NEW s \in ClientId, ClientReleased(s) \/ ClientPubRec(s)
  PROVE  /\ Head(inbox[s]) \in Wire /\ Head(inbox[s]).pid \in Pid
         /\ ClientReleased(s) => Head(inbox[s]).type = "PUBREL"
         /\ ClientPubRec(s) => Head(inbox[s]).type = "PUBREC"
         /\ \E p \in Wire :
              /\ p.pid = Head(inbox[s]).pid /\ Send(s, p)
              /\ ClientReleased(s) => p.type = "PUBCOMP"
              /\ ClientPubRec(s) => p.type = "PUBREL"
<1> DEFINE x == Head(inbox[s])
<1>1. x \in Wire /\ x.pid \in Pid
      /\ (ClientReleased(s) => x.type = "PUBREL")
      /\ (ClientPubRec(s) => x.type = "PUBREC")
  BY ConsumeTypes DEF ClientReleased, ClientPubRec, Arriving, TypeInv, Wire
<1>2. /\ Ack("PUBCOMP", x.pid) \in Wire /\ Ack("PUBREL", x.pid) \in Wire
      /\ Ack("PUBCOMP", x.pid).type = "PUBCOMP"
      /\ Ack("PUBREL", x.pid).type = "PUBREL"
      /\ Ack("PUBCOMP", x.pid).pid = x.pid /\ Ack("PUBREL", x.pid).pid = x.pid
  BY <1>1, PacketFacts DEF Ack, Acks
<1>3. /\ ClientReleased(s) => Send(s, Ack("PUBCOMP", x.pid))
      /\ ClientPubRec(s) => Send(s, Ack("PUBREL", x.pid))
  BY DEF ClientReleased, ClientPubRec
<1>4. ~ (ClientReleased(s) /\ ClientPubRec(s))
  BY <1>1
<1> QED
  BY <1>1, <1>2, <1>3, <1>4

\* What stays the same when only the connections change.
LEMMA OriginClient ==
  ASSUME TypeInv, OriginInv, [Next]_vars, NEW s \in ClientId,
         Client(s) \/ Drop(s) \/ Exit(s) \/ AckPublish(s)
  PROVE  OriginInv'
<1>1. NetTypes /\ GoTypes
  BY DEF TypeInv
<1>2. \A t \in ClientId : \A i \in DOMAIN outbox'[t] :
        outbox'[t][i].type = "PUBLISH" =>
          \E j \in DOMAIN outbox[t] : outbox[t][j] = outbox'[t][i]
  <2>1. CASE UNCHANGED outbox
    BY <2>1
  <2>2. CASE \E p \in Wire : p.type # "PUBLISH" /\ Send(s, p)
    BY <1>1, <2>2, AnswerFrame
  <2>3. CASE Drop(s)
    BY <1>1, <2>3 DEF Drop, NetTypes
  <2>4. CASE Exit(s) \/ AckPublish(s) \/ ClientPubDone(s)
    BY <2>1, <2>4 DEF Exit, AckPublish, ClientPubDone, netVars
  <2> QED
    BY <2>1, <2>2, <2>3, <2>4, ReceiveAnswer, AckAnswer DEF Client
<1>3. /\ \A t \in ClientId : gpc'[t] \in {"send", "ack"} =>
           gpc[t] \in {"send", "ack"} /\ req'[t] = req[t]
      /\ UNCHANGED dispVars
  BY <1>1 DEF Client, ClientReceive, ClientReleased, ClientPubRec,
     ClientPubDone, Drop, Exit, AckPublish, goVars, GoTypes
<1>4. OriginFrame
  BY <1>2, <1>3 DEF OriginFrame, dispVars
<1> QED
  BY <1>4, OriginKeep

\* What is taken from a connection was on it.
LEMMA OriginRead ==
  ASSUME TypeInv, OriginInv, [Next]_vars, NEW s \in ClientId, Read(s)
  PROVE  OriginInv'
<1>1. NetTypes /\ GoTypes /\ DispTypes
  BY DEF TypeInv
<1>2. /\ UNCHANGED dispVars
      /\ gpc' = [gpc EXCEPT ![s] = "send"]
      /\ req' = [req EXCEPT ![s] = outbox[s][1]] /\ 1 \in DOMAIN outbox[s]
  BY <1>1, ReadElements DEF Read, Takes
<1>3. ASSUME NEW t \in ClientId, NEW i \in DOMAIN outbox[t]
      PROVE  OwnAfter(t, outbox[t][i])
  <2>1. Own(t, outbox[t][i]) /\ outbox[t][i] \in Wire
    BY <1>1, Positions DEF OriginInv
  <2> QED
    BY <2>1, OwnStays DEF Wire
<1>4. ASSUME NEW t \in ClientId, NEW i \in DOMAIN outbox'[t]
      PROVE  OwnAfter(t, outbox'[t][i])
  <2>1. \E j \in DOMAIN outbox[t] : outbox[t][j] = outbox'[t][i]
    <3>1. PICK n \in Nat : Takes(s, n)
      BY <1>1, ReadElements
    <3> QED
      BY <3>1 DEF Takes
  <2> QED
    BY <1>3, <2>1
<1>5. ASSUME NEW t \in ClientId, gpc'[t] \in {"send", "ack"}
      PROVE  OwnAfter(t, req'[t])
  <2>1. CASE t = s
    BY <1>1, <1>2, <1>3, <2>1 DEF GoTypes
  <2>2. CASE t # s
    BY <1>1, <1>2, <1>5, <2>2, OwnStays DEF OriginInv, GoTypes, Wire
  <2> QED
    BY <2>1, <2>2
<1>6. /\ dpc' # "select" => OwnAfter(dmsg'.from, dmsg')
      /\ dpc' = "loop" /\ dmsg'.type = "PUBREL" =>
           pstate'[dmsg'.msg] # "idle"
  BY <1>1, <1>2, OwnStays, BegunStays, HandFacts
  DEF OriginInv, dispVars, DispTypes, Begun
<1> QED
  BY <1>4, <1>5, <1>6 DEF OriginInv, Own, OwnAfter, Begun

\* What is sent again was sent.
LEMMA OriginConnect ==
  ASSUME TypeInv, OriginInv, [Next]_vars, NEW s \in ClientId, Connect(s)
  PROVE  OriginInv'
<1>1. NetTypes /\ GoTypes /\ DispTypes
  BY DEF TypeInv
<1>2. /\ UNCHANGED <<req, dispVars, clientVars>>
      /\ gpc' = [gpc EXCEPT ![s] = "read"]
  BY DEF Connect
<1>3. PICK q \in Again(s) :
        outbox' = [outbox EXCEPT ![s] = [i \in DOMAIN q |-> Resend(q[i])]]
  BY DEF Connect
<1>4. ASSUME NEW t \in ClientId, NEW i \in DOMAIN outbox'[t]
      PROVE  Own(t, outbox'[t][i])
  <2>1. CASE t = s
    <3>1. i \in DOMAIN q /\ outbox'[t][i] = Resend(q[i])
      BY <1>1, <1>3, <2>1 DEF NetTypes
    <3>2. q[i] \in Unfinished(s)
      BY <3>1, AgainFacts
    <3>3. Publisher[q[i]] = s /\ pstate[q[i]] # "idle"
      BY <3>2 DEF Unfinished
    <3>4. Resend(q[i]).type = "PUBLISH" => Resend(q[i]).msg = q[i]
      BY DEF Resend, Publish, Ack
    <3> QED
      BY <2>1, <3>1, <3>3, <3>4 DEF Own, Begun
  <2>2. CASE t # s
    BY <1>1, <1>3, <2>2 DEF OriginInv, NetTypes
  <2> QED
    BY <2>1, <2>2
<1>5. \A t \in ClientId : gpc'[t] \in {"send", "ack"} =>
        gpc[t] \in {"send", "ack"} /\ req'[t] = req[t]
  BY <1>1, <1>2 DEF GoTypes
<1> QED
  BY <1>2, <1>4, <1>5 DEF OriginInv, Own, Begun, dispVars, clientVars

\* What the dispatcher takes was read, what it releases is in CacheMsg.
LEMMA OriginDispatcher ==
  ASSUME TypeInv, FlowInv, OriginInv, [Next]_vars,
         \/ Dispatcher \/ \E m \in Msg : ClusterRecv(m)
         \/ \E s \in ClientId : DispatchRecv(s)
  PROVE  OriginInv'
<1>1. NetTypes /\ GoTypes /\ DispTypes /\ SessTypes
  BY DEF TypeInv
<1>2. /\ UNCHANGED <<outbox, clientVars>>
      /\ \A t \in ClientId : gpc'[t] \in {"send", "ack"} =>
           gpc[t] \in {"send", "ack"} /\ req'[t] = req[t]
  <2>1. CASE Dispatcher \/ \E m \in Msg : ClusterRecv(m)
    <3>1. UNCHANGED <<outbox, clientVars, goVars>>
      BY <2>1 DEF Dispatcher, ClusterRecv, BeginPublish, BeginCluster,
         BeginRelease, ProcessPubAck, ProcessPubRec, ProcessPubComp, DropAck,
         VisitPublish, VisitRelease, DrawAgain, EndLoop, netVars, vars
    <3> QED
      BY <3>1 DEF goVars
  <2>2. ASSUME NEW s \in ClientId, DispatchRecv(s) PROVE <1>2
    <3>1. UNCHANGED <<outbox, clientVars>>
      BY <2>2 DEF DispatchRecv, netVars
    <3>2. /\ gpc[s] = "send"
          /\ \/ gpc' = [gpc EXCEPT ![s] = "ack"] /\ req' = req
             \/ /\ gpc' = [gpc EXCEPT ![s] = "read"]
                /\ req' = [req EXCEPT ![s] = NoPacket]
      BY <2>2 DEF DispatchRecv
    <3> QED
      BY <1>1, <3>1, <3>2 DEF GoTypes
  <2> QED
    BY <2>1, <2>2
<1>3. ASSUME NEW s \in ClientId, DispatchRecv(s)
      PROVE  OriginInv'
  <2>1. /\ dmsg' = [type |-> req[s].type, from |-> s, pid |-> req[s].pid,
                    msg |-> req[s].msg]
        /\ dpc' = "lock" /\ gpc[s] = "send"
    BY <1>3 DEF DispatchRecv
  <2>2. Own(dmsg'.from, dmsg')
    BY <2>1 DEF OriginInv, Own
  <2> QED
    BY <1>2, <2>1, <2>2 DEF OriginInv, Own, Begun, clientVars
<1>4. CASE dpc' # "loop" /\ dmsg'.type # "PUBLISH"
  BY <1>2, <1>4 DEF OriginInv, Own, Begun, clientVars
<1>5. ASSUME dpc = "lock", NEW m \in Msg, Loop(m), Own(dmsg.from, dmsg),
             dmsg.type = "PUBLISH" => m = dmsg.msg,
             dmsg.type = "PUBREL" => Begun(m)
      PROVE  OriginInv'
  <2>1. /\ dmsg'.type = dmsg.type /\ dmsg'.from = dmsg.from /\ dmsg'.msg = m
        /\ dpc' = "loop"
    BY <1>1, <1>5 DEF Loop, DispTypes, Request
  <2>2. Own(dmsg'.from, dmsg')
    BY <1>5, <2>1 DEF Own
  <2> QED
    BY <1>2, <1>5, <2>1, <2>2 DEF OriginInv, Own, Begun, clientVars
<1>6. CASE BeginPublish
  <2>1. /\ dpc = "lock" /\ dmsg.type = "PUBLISH" /\ dmsg.msg \in Msg
        /\ Loop(dmsg.msg)
    BY <1>6, HandFacts DEF BeginPublish, Processing
  <2> QED
    BY <1>5, <2>1 DEF OriginInv
<1>7. CASE BeginCluster
  <2>1. /\ dpc = "lock" /\ dmsg.type = "CLUSTER" /\ dmsg.msg \in Msg
        /\ Loop(dmsg.msg)
    BY <1>7, HandFacts DEF BeginCluster, Processing
  <2> QED
    BY <1>5, <2>1 DEF OriginInv, Own
<1>8. CASE BeginRelease
  <2>1. /\ dpc = "lock" /\ dmsg.type = "PUBREL"
        /\ dmsg.from \in ClientId /\ dmsg.pid \in Pid
        /\ PubStatus[dmsg.from][dmsg.pid] = "PUBREL"
    BY <1>8, HandFacts DEF BeginRelease, Processing, Acks
  <2> DEFINE m == CacheMsg[dmsg.from][dmsg.pid]
  <2>2. m \in Msg /\ m # 0 /\ Begun(m)
    BY <2>1, MsgFacts DEF FlowInv, CacheInv, Begun
  <2>3. Loop(m)
    BY <1>8, <2>2 DEF BeginRelease
  <2> HIDE DEF m
  <2> QED
    BY <1>5, <2>1, <2>2, <2>3 DEF OriginInv, Own
<1>9. CASE \/ ProcessPubAck \/ ProcessPubRec \/ ProcessPubComp \/ DropAck
           \/ EndLoop \/ \E m \in Msg : ClusterRecv(m)
  <2>1. CASE \E m \in Msg : ClusterRecv(m)
    <3>1. dpc' = "lock" /\ dmsg'.type = "CLUSTER"
      BY <2>1 DEF ClusterRecv, NoReq
    <3> QED
      BY <1>4, <3>1
  <2>2. CASE Unlock
    <3>1. dpc' = "select" /\ dmsg'.type = "none"
      BY <2>2 DEF Unlock, NoReq
    <3> QED
      BY <1>4, <3>1
  <2> QED
    BY <1>9, <2>1, <2>2 DEF ProcessPubAck, ProcessPubRec, ProcessPubComp,
       DropAck, EndLoop
<1>10. CASE dpc' = dpc /\ dmsg' = dmsg
  BY <1>2, <1>10 DEF OriginInv, Own, Begun, clientVars
<1>11. CASE \E s \in ClientId, id \in ServerPid :
              VisitPublish(s, id) \/ VisitRelease(s, id) \/ DrawAgain(s, id)
  BY <1>10, <1>11 DEF VisitPublish, VisitRelease, DrawAgain, Visiting, vars,
     dispVars
<1> QED
  BY <1>3, <1>6, <1>7, <1>8, <1>9, <1>11 DEF Dispatcher

LEMMA OriginStep ==
  ASSUME TypeInv, FlowInv, OriginInv, [Next]_vars
  PROVE  OriginInv'
<1>1. CASE UNCHANGED vars
  BY <1>1 DEF vars, goVars, dispVars, netVars, clientVars, OriginInv, Own,
     Begun
<1> QED
  BY <1>1, OriginPublish, OriginClient, OriginRead, OriginConnect,
     OriginDispatcher DEF Next, Goroutine, Idle

-----------------------------------------------------------------------------
(* Where copies of messages are.                                            *)

Copies == {p \in Wire : p.type = "PUBLISH"}

\* Steps that copy no message, nor hand one to its subscriber.
DownFrame ==
  /\ InboxFrame(Copies)
  /\ OfflineMsg' = OfflineMsg
  /\ got' = got

(* A single packet that is no PUBLISH.                                      *)
LEMMA WriteAckFrame ==
  ASSUME NetTypes, NEW s \in ClientId, NEW type \in Acks, NEW id \in Pid,
         Write(s, <<Ack(type, id)>>)
  PROVE  InboxFrame(Copies)
<1>1. Ack(type, id) \in Wire /\ Ack(type, id).type # "PUBLISH"
  BY PacketFacts DEF Ack, Acks
<1>2. <<Ack(type, id)>> \in Seq(Wire)
  BY <1>1
<1>3. \A i \in DOMAIN <<Ack(type, id)>> : <<Ack(type, id)>>[i] \notin Copies
  BY <1>1 DEF Copies
<1> QED
  BY <1>2, <1>3, WriteFrame

\* What a goroutine writes for a PUBLISH.
LEMMA AckPublishWrites ==
  ASSUME TypeInv, NEW s \in ClientId, AckPublish(s)
  PROVE  /\ req[s] \in Wire /\ req[s].type = "PUBLISH" /\ req[s].msg \in Msg
         /\ Qos[req[s].msg] = 0 => UNCHANGED inbox
         /\ Qos[req[s].msg] = 1 => /\ req[s].pid \in Pid
                                   /\ Write(s, <<Ack("PUBACK", req[s].pid)>>)
         /\ Qos[req[s].msg] = 2 => /\ req[s].pid \in Pid
                                   /\ Write(s, <<Ack("PUBREC", req[s].pid)>>)
<1>1. req[s] \in Wire /\ req[s].type = "PUBLISH" /\ req[s].msg \in Msg
  BY DEF AckPublish, TypeInv, GoTypes, Wire
<1>2. CASE Qos[req[s].msg] = 0
  BY <1>1, <1>2 DEF AckPublish
<1>3. CASE Qos[req[s].msg] = 1
  <2>1. req[s].pid \in Pid
    BY <1>1, <1>3 DEF Wire
  <2> QED
    BY <1>1, <1>3, <2>1 DEF AckPublish
<1>4. CASE Qos[req[s].msg] = 2
  <2>1. req[s].pid \in Pid
    BY <1>1, <1>4 DEF Wire
  <2> QED
    BY <1>1, <1>4, <2>1 DEF AckPublish
<1>5. Qos[req[s].msg] \in 0..2
  BY <1>1, MsgFacts
<1> QED
  BY <1>1, <1>2, <1>3, <1>4, <1>5

LEMMA DownClient ==
  ASSUME TypeInv, NEW s \in ClientId,
         \/ ClientReleased(s) \/ ClientPubRec(s) \/ ClientPubDone(s)
         \/ Drop(s) \/ Goroutine(s) \/ DispatchRecv(s)
         \/ \E m \in Msg, id \in ClientPid \cup {NoPid} :
              ClientPublish(s, m, id)
  PROVE  DownFrame
<1>1. NetTypes
  BY DEF TypeInv
<1>2. CASE ClientReleased(s) \/ ClientPubRec(s) \/ ClientPubDone(s)
  <2>1. /\ OfflineMsg' = OfflineMsg /\ got' = got
        /\ Consume(s) /\ inbox[s] # <<>>
    BY <1>2 DEF ClientReleased, ClientPubRec, ClientPubDone, Arriving,
       sessVars
  <2> QED
    BY <1>1, <2>1, ConsumeFrame DEF DownFrame
<1>3. CASE Drop(s)
  <2>1. /\ OfflineMsg' = OfflineMsg /\ got' = got
        /\ \A t \in ClientId : \A k \in DOMAIN inbox'[t] :
             k + 0 \in DOMAIN inbox[t] /\ inbox[t][k + 0] = inbox'[t][k]
    BY <1>1, <1>3, Positions DEF Drop, sessVars, clientVars, NetTypes
  <2> QED
    BY <2>1 DEF DownFrame, InboxFrame
<1>4. CASE AckPublish(s)
  <2>1. OfflineMsg' = OfflineMsg /\ got' = got
    BY <1>4 DEF AckPublish, sessVars, clientVars
  <2>2. Qos[req[s].msg] \in 0..2
    BY <1>4, AckPublishWrites, MsgFacts
  <2>3. Qos[req[s].msg] = 0 \/ Qos[req[s].msg] = 1 \/ Qos[req[s].msg] = 2
    BY <2>2
  <2>4. InboxFrame(Copies)
    BY <1>1, <1>4, <2>3, AckPublishWrites, WriteAckFrame, SameFrames
    DEF Acks
  <2> QED
    BY <2>1, <2>4 DEF DownFrame
<1>5. CASE Read(s) \/ Exit(s) \/ DispatchRecv(s)
  <2>1. UNCHANGED <<OfflineMsg, got, inbox>>
    BY <1>5 DEF Read, Exit, DispatchRecv, sessVars, clientVars, netVars
  <2> QED
    BY <1>1, <2>1, SameFrames DEF DownFrame
<1>6. ASSUME NEW m \in Msg, NEW id \in ClientPid \cup {NoPid},
             ClientPublish(s, m, id)
      PROVE  DownFrame
  <2>1. UNCHANGED <<OfflineMsg, got, inbox>>
    BY <1>6 DEF ClientPublish, sessVars
  <2> QED
    BY <1>1, <2>1, SameFrames DEF DownFrame
<1> QED
  BY <1>2, <1>3, <1>4, <1>5, <1>6 DEF Goroutine

LEMMA DownDispatcher ==
  ASSUME TypeInv,
         \/ BeginPublish \/ BeginCluster \/ BeginRelease
         \/ ProcessPubAck \/ ProcessPubRec \/ ProcessPubComp \/ DropAck
         \/ EndLoop \/ UNCHANGED vars \/ \E m \in Msg : ClusterRecv(m)
  PROVE  DownFrame
<1>1. NetTypes
  BY DEF TypeInv
<1>2. CASE BeginRelease \/ ProcessPubRec
  <2>1. /\ OfflineMsg' = OfflineMsg /\ got' = got
        /\ dpc = "lock" /\ dmsg.type \in Acks
    BY <1>2 DEF BeginRelease, ProcessPubRec, clientVars, Processing, Acks
  <2>2. \E type \in Acks : Write(dmsg.from, <<Ack(type, dmsg.pid)>>)
    BY <1>2 DEF BeginRelease, ProcessPubRec, Complete, Acks
  <2>3. dmsg.from \in ClientId /\ dmsg.pid \in Pid
    BY <2>1, HandFacts DEF Acks
  <2> QED
    BY <1>1, <2>1, <2>2, <2>3, WriteAckFrame DEF DownFrame
<1>3. CASE \/ BeginPublish \/ BeginCluster \/ ProcessPubAck
           \/ ProcessPubComp \/ DropAck \/ EndLoop \/ UNCHANGED vars
           \/ \E m \in Msg : ClusterRecv(m)
  <2>1. UNCHANGED <<OfflineMsg, got, inbox>>
    BY <1>3 DEF BeginPublish, BeginCluster, ProcessPubAck, ProcessPubComp,
       DropAck, EndLoop, ClusterRecv, sessVars, clientVars, netVars, vars
  <2> QED
    BY <1>1, <2>1, SameFrames DEF DownFrame
<1> QED
  BY <1>2, <1>3

(* Every other step.                                                        *)
LEMMA DownSteps ==
  ASSUME TypeInv, [Next]_vars
  PROVE  \/ DownFrame
         \/ \E s \in ClientId : ClientReceive(s) \/ Connect(s)
         \/ \E s \in ClientId, id \in ServerPid :
              VisitPublish(s, id) \/ VisitRelease(s, id)
  BY DownClient, DownDispatcher DEF Next, Client, Dispatcher, DrawAgain, Idle

(* Where a message is after such a step, it was.                            *)
LEMMA DownCopies ==
  ASSUME TypeInv', DownFrame, NEW s \in ClientId, NEW m \in Msg
  PROVE  /\ InGot(s, m)' <=> InGot(s, m)
         /\ InQueue(s, m)' <=> InQueue(s, m)
         /\ InInbox(s, m)' => InInbox(s, m)
         /\ Nowhere(s, m) => Nowhere(s, m)'
<1>1. /\ InGot(s, m)' <=> InGot(s, m)
      /\ InQueue(s, m)' <=> InQueue(s, m)
  BY DEF DownFrame, InGot, InQueue
<1>2. InInbox(s, m)' => InInbox(s, m)
  <2>1. PICK d \in {0, 1} : \A k \in DOMAIN inbox'[s] :
          inbox'[s][k] \in Copies =>
            k + d \in DOMAIN inbox[s] /\ inbox[s][k + d] = inbox'[s][k]
    BY DEF DownFrame, InboxFrame
  <2>2. \A k \in DOMAIN inbox'[s] :
          inbox'[s][k].type = "PUBLISH" => inbox'[s][k] \in Copies
    BY DEF TypeInv, NetTypes, Copies
  <2> QED
    BY <2>1, <2>2 DEF InInbox
<1> QED
  BY <1>1, <1>2 DEF Nowhere

(* A subscriber takes the first packet of its connection.                   *)
LEMMA ReceiveCopies ==
  ASSUME TypeInv, NEW s \in ClientId, ClientReceive(s)
  PROVE  /\ OfflineMsg' = OfflineMsg
         /\ InboxFrame(Copies)
         /\ inbox[s] # <<>> /\ Consume(s)
         /\ Head(inbox[s]).type = "PUBLISH" /\ Head(inbox[s]).msg \in Msg
         /\ \A t \in ClientId : t # s => got'[t] = got[t]
         /\ \/ got'[s] = got[s]
            \/ got'[s] = Append(got[s], Head(inbox[s]).msg)
<1>1. /\ NetTypes /\ ClientTypes
      /\ Head(inbox[s]).type = "PUBLISH" /\ Head(inbox[s]).msg \in Msg
  BY ReceiveAnswer DEF TypeInv
<1>2. /\ OfflineMsg' = OfflineMsg /\ inbox[s] # <<>> /\ Consume(s)
      /\ \/ got' = got
         \/ got' = [got EXCEPT ![s] = Append(@, Head(inbox[s]).msg)]
  BY DEF ClientReceive, Arriving, sessVars
<1>3. InboxFrame(Copies)
  BY <1>1, <1>2, ConsumeFrame
<1> QED
  BY <1>1, <1>2, <1>3 DEF ClientTypes

(* A client that connects is sent its queue.                                *)
LEMMA ConnectCopies ==
  ASSUME TypeInv, NEW s \in ClientId, Connect(s)
  PROVE  /\ got' = got
         /\ \A t \in ClientId : t # s => /\ OfflineMsg'[t] = OfflineMsg[t]
                                         /\ inbox'[t] = inbox[t]
         /\ OfflineMsg'[s] = <<>>
         /\ DOMAIN inbox'[s] = DOMAIN OfflineMsg[s]
         /\ \A i \in DOMAIN OfflineMsg[s] :
              /\ inbox'[s][i].type = "PUBLISH"
              /\ inbox'[s][i].msg = OfflineMsg[s][i].msg
              /\ inbox'[s][i].pid = OfflineMsg[s][i].pid
  BY DEF Connect, TypeInv, SessTypes, NetTypes, Flushed, Publish, clientVars

\* What a turn of the loop appends to a connection.
Batch(q, r, m) ==
  \E ps \in Seq(Wire) :
    /\ r = q \o ps
    /\ \A i \in DOMAIN ps : ps[i].type = "PUBLISH" /\ ps[i].msg = m

(* A turn of the dispatcher's loop copies its message, or nothing.          *)
LEMMA VisitCopies ==
  ASSUME TypeInv, BufferInv, NEW s \in ClientId, NEW id \in ServerPid,
         VisitPublish(s, id) \/ VisitRelease(s, id)
  PROVE  /\ dpc = "loop" /\ dmsg.msg \in Msg /\ got' = got
         /\ \A t \in ClientId : t # s => /\ OfflineMsg'[t] = OfflineMsg[t]
                                         /\ inbox'[t] = inbox[t]
         /\ \/ inbox' = inbox /\ OfflineMsg' = OfflineMsg
            \/ /\ dmsg.type = "PUBLISH" => Qos[dmsg.msg] < 2
               /\ \/ /\ Batch(inbox[s], inbox'[s], dmsg.msg)
                     /\ OfflineMsg' = OfflineMsg
                     /\ LoginSuccess[s]
                  \/ /\ OfflineMsg'[s] =
                          Append(OfflineMsg[s], [msg |-> dmsg.msg, pid |-> id])
                     /\ inbox' = inbox
                     /\ ~ LoginSuccess[s]
<1> DEFINE m == dmsg.msg
<1>1. /\ NetTypes /\ SessTypes /\ dpc = "loop" /\ id \in Pid
      /\ m \in Msg /\ got' = got /\ write_buf \in Seq(Buffered)
  BY MsgFacts DEF TypeInv, DispTypes, VisitPublish, VisitRelease, Visiting,
     clientVars
<1>2. Publish(m, WireId(m, id)) \in Wire
  <2>1. /\ WireId(m, id) \in Pid \cup {NoPid}
        /\ Qos[m] > 0 => WireId(m, id) \in Pid
    BY <1>1, MsgFacts DEF WireId
  <2> QED
    BY <1>1, <2>1, PacketFacts
<1>3. ASSUME NEW ps \in Seq(Wire), Write(s, ps),
             \A i \in DOMAIN ps : ps[i].type = "PUBLISH" /\ ps[i].msg = m
      PROVE  /\ \A t \in ClientId : t # s => inbox'[t] = inbox[t]
             /\ inbox' = inbox \/ Batch(inbox[s], inbox'[s], m)
  BY <1>1, <1>3 DEF Write, NetTypes, Batch
<1>4. CASE VisitPublish(s, id)
  <2>1. CASE SentNow(s, m)
    <3> DEFINE ps == PublishBuffer(m, id)
    <3>1. /\ write_buf \in Seq(Wire)
          /\ \A i \in DOMAIN write_buf :
               write_buf[i].type = "PUBLISH" /\ write_buf[i].msg = m
      BY <1>1, SeqMonotonic DEF Buffered, BufferInv
    <3>2. /\ ps \in Seq(Wire)
          /\ \A i \in DOMAIN ps : ps[i].type = "PUBLISH" /\ ps[i].msg = m
      BY <1>2, <3>1 DEF PublishBuffer, Publish
    <3>3. /\ Write(s, ps) /\ LoginSuccess[s] /\ Qos[m] < 2
          /\ OfflineMsg' = OfflineMsg
      BY <1>4, <2>1 DEF VisitPublish, SentNow
    <3> HIDE DEF ps
    <3> QED
      BY <1>1, <1>3, <3>2, <3>3
  <2>2. CASE ~ SentNow(s, m)
    <3>1. /\ inbox' = inbox
          /\ \/ OfflineMsg' = OfflineMsg
             \/ ~ LoginSuccess[s] /\ Qos[m] = 1 /\ Enqueue(s, m, id)
      BY <1>4, <2>2 DEF VisitPublish
    <3> QED
      BY <1>1, <3>1 DEF Enqueue, SessTypes
  <2> QED
    BY <2>1, <2>2
<1>5. CASE VisitRelease(s, id)
  <2>0. dmsg.type # "PUBLISH"
    BY <1>5 DEF VisitRelease
  <2>1. CASE LoginSuccess[s]
    <3> DEFINE ps == <<Publish(m, WireId(m, id))>>
    <3>1. /\ ps \in Seq(Wire)
          /\ \A i \in DOMAIN ps : ps[i].type = "PUBLISH" /\ ps[i].msg = m
      BY <1>2 DEF Publish
    <3>2. Write(s, ps) /\ OfflineMsg' = OfflineMsg
      BY <1>5, <2>1 DEF VisitRelease
    <3> HIDE DEF ps
    <3> QED
      BY <1>1, <1>3, <2>0, <2>1, <3>1, <3>2
  <2>2. CASE ~ LoginSuccess[s]
    <3>1. /\ inbox' = inbox
          /\ OfflineMsg' = OfflineMsg \/ Enqueue(s, m, id)
      BY <1>5, <2>2 DEF VisitRelease
    <3> QED
      BY <1>1, <2>0, <2>2, <3>1 DEF Enqueue, SessTypes
  <2> QED
    BY <2>1, <2>2
<1> QED
  BY <1>4, <1>5

(* Where a message is after a step that copies one.                         *)
LEMMA CopyPlaces ==
  ASSUME TypeInv, TypeInv', BufferInv, NEW s \in ClientId,
         \/ ClientReceive(s) \/ Connect(s)
         \/ \E id \in ServerPid : VisitPublish(s, id) \/ VisitRelease(s, id),
         NEW t \in ClientId, NEW m \in Msg, Nowhere(t, m),
         ~ Nowhere(t, m)'
  PROVE  /\ t = s /\ dpc = "loop" /\ dmsg.msg = m
         /\ dmsg.type = "PUBLISH" => Qos[m] < 2
<1>1. NetTypes /\ NetTypes' /\ SessTypes /\ ClientTypes
  BY DEF TypeInv
<1>2. ASSUME ClientReceive(s) PROVE FALSE
  <2>1. InInbox(t, m)' => InInbox(t, m)
    <3>1. PICK d \in {0, 1} : \A k \in DOMAIN inbox'[t] :
            inbox'[t][k] \in Copies =>
              k + d \in DOMAIN inbox[t] /\ inbox[t][k + d] = inbox'[t][k]
      BY <1>2, ReceiveCopies DEF InboxFrame
    <3>2. \A k \in DOMAIN inbox'[t] :
            inbox'[t][k].type = "PUBLISH" => inbox'[t][k] \in Copies
      BY <1>1 DEF NetTypes, Copies
    <3> QED
      BY <3>1, <3>2 DEF InInbox
  <2>2. InQueue(t, m)' => InQueue(t, m)
    BY <1>2, ReceiveCopies DEF InQueue
  <2>3. InGot(t, m)' => InGot(t, m) \/ (t = s /\ m = Head(inbox[s]).msg)
    <3>1. CASE got'[t] = got[t]
      BY <3>1 DEF InGot
    <3>2. CASE t = s /\ got'[s] = Append(got[s], Head(inbox[s]).msg)
      BY <1>1, <3>2 DEF InGot, ClientTypes
    <3> QED
      BY <1>2, <3>1, <3>2, ReceiveCopies
  <2>4. InInbox(s, Head(inbox[s]).msg)
    BY <1>1, <1>2, ReceiveCopies, ConsumeElements DEF InInbox
  <2> QED
    BY <2>1, <2>2, <2>3, <2>4 DEF Nowhere
<1>3. ASSUME Connect(s) PROVE FALSE
  BY <1>3, ConnectCopies DEF Nowhere, InGot, InInbox, InQueue
<1>4. ASSUME NEW id \in ServerPid, VisitPublish(s, id) \/ VisitRelease(s, id)
      PROVE  /\ t = s /\ dpc = "loop" /\ dmsg.msg = m
             /\ dmsg.type = "PUBLISH" => Qos[m] < 2
  <2>1. InGot(t, m)' <=> InGot(t, m)
    BY <1>4, VisitCopies DEF InGot
  <2>2. inbox'[t] # inbox[t] \/ OfflineMsg'[t] # OfflineMsg[t]
    BY <2>1 DEF Nowhere, InInbox, InQueue
  <2>3. t = s /\ dpc = "loop" /\ (dmsg.type = "PUBLISH" => Qos[dmsg.msg] < 2)
    BY <1>4, <2>2, VisitCopies
  <2>4. CASE Batch(inbox[s], inbox'[s], dmsg.msg) /\ OfflineMsg' = OfflineMsg
    <3>1. PICK ps \in Seq(Wire) :
            /\ inbox'[s] = inbox[s] \o ps
            /\ \A i \in DOMAIN ps :
                 ps[i].type = "PUBLISH" /\ ps[i].msg = dmsg.msg
      BY <2>4 DEF Batch
    <3>2. inbox[s] \in Seq(Wire)
      BY <1>1 DEF NetTypes
    <3>3. ASSUME NEW k \in DOMAIN inbox'[s], inbox'[s][k].type = "PUBLISH",
                 inbox'[s][k].msg = m, dmsg.msg # m
          PROVE  FALSE
      <4>1. CASE k <= Len(inbox[s])
        BY <2>3, <3>1, <3>2, <3>3, <4>1, ConcatProperties
        DEF Nowhere, InInbox
      <4>2. CASE ~ k <= Len(inbox[s])
        <5>1. k - Len(inbox[s]) \in DOMAIN ps
              /\ inbox'[s][k] = ps[k - Len(inbox[s])]
          BY <3>1, <3>2, <4>2, ConcatProperties
        <5> QED
          BY <3>1, <3>3, <5>1
      <4> QED
        BY <4>1, <4>2
    <3> QED
      BY <2>1, <2>3, <2>4, <3>3 DEF Nowhere, InInbox, InQueue
  <2>5. CASE /\ OfflineMsg'[s] =
                  Append(OfflineMsg[s], [msg |-> dmsg.msg, pid |-> id])
             /\ inbox' = inbox
    <3>1. OfflineMsg[s] \in Seq(Queued)
      BY <1>1 DEF SessTypes
    <3> QED
      BY <2>1, <2>3, <2>5, <3>1, AppendProperties
      DEF Nowhere, InInbox, InQueue
  <2> QED
    BY <1>4, <2>2, <2>3, <2>4, <2>5, VisitCopies
<1> QED
  BY <1>2, <1>3, <1>4

LEMMA PlacesStep ==
  ASSUME TypeInv, TypeInv', HandInv, BufferInv, OriginInv, PlacesInv,
         [Next]_vars
  PROVE  PlacesInv'
<1> SUFFICES ASSUME NEW m \in Msg, NEW t \in ClientId,
                    Publisher[m] # NoClient, ~ Nowhere(t, m)'
             PROVE  Begun(m)'
  BY DEF PlacesInv
<1>1. CASE ~ Nowhere(t, m)
  BY <1>1, BegunStays DEF PlacesInv
<1>2. CASE Nowhere(t, m)
  <2>1. PICK s \in ClientId :
          \/ ClientReceive(s) \/ Connect(s)
          \/ \E id \in ServerPid : VisitPublish(s, id) \/ VisitRelease(s, id)
    BY <1>2, DownSteps, DownCopies
  <2>2. dpc = "loop" /\ dmsg.msg = m
    BY <1>2, <2>1, CopyPlaces
  <2>3. dmsg.type \in {"PUBLISH", "PUBREL", "CLUSTER"}
    BY <2>2 DEF TypeInv, DispTypes
  <2>4. Begun(m)
    BY <2>2, <2>3 DEF OriginInv, Own, HandInv
  <2> QED
    BY <2>4, BegunStays
<1> QED
  BY <1>1, <1>2

(* Without lost connections: nobody's is.                                   *)
LEMMA NeverStep ==
  ASSUME TypeInv, TypeInv', ConnInv, NeverInv, [Next]_vars
  PROVE  NeverInv'
<1> SUFFICES ASSUME MaxDrops = 0, NEW t \in ClientId
             PROVE  NewWhenOff(t)'
  BY DEF NeverInv
<1> USE DEF NewWhenOff
<1>1. /\ ~ link[t] => gpc[t] = "off"
      /\ gpc[t] = "off" => ~ link[t]
      /\ gpc[t] = "off" => \A m \in Msg : Publisher[m] = t =>
                             pstate[m] = "idle"
  BY DEF NeverInv, ConnInv
<1>2. /\ link \in [ClientId -> BOOLEAN]
      /\ gpc \in [ClientId -> {"off", "read", "send", "ack"}]
  BY DEF TypeInv, NetTypes, GoTypes
<1>3. ASSUME Still, UNCHANGED <<link, gpc>> PROVE NewWhenOff(t)'
  BY <1>1, <1>3 DEF Still
<1>4. ASSUME NEW s \in ClientId, NEW m \in Msg,
             NEW id \in ClientPid \cup {NoPid}, ClientPublish(s, m, id)
      PROVE  NewWhenOff(t)'
  <2>1. /\ UNCHANGED <<link, gpc>> /\ link[s] /\ Publisher[m] = s
        /\ \A n \in Msg : n # m => pstate'[n] = pstate[n]
    BY <1>4 DEF ClientPublish, goVars, TypeInv, ClientTypes
  <2> QED
    BY <1>1, <2>1
<1>5. ASSUME NEW s \in ClientId, ClientPubRec(s) \/ ClientPubDone(s)
      PROVE  NewWhenOff(t)'
  <2>1. UNCHANGED <<link, gpc>>
    BY <1>5 DEF ClientPubRec, ClientPubDone, goVars
  <2>2. \A m \in Msg : pstate[m] = "idle" => pstate'[m] = "idle"
    BY <1>5, PubRecProgress, PubDoneProgress
  <2> QED
    BY <1>1, <2>1, <2>2
<1>6. ASSUME Still PROVE NewWhenOff(t)'
  <2>1. CASE UNCHANGED <<link, gpc>>
    BY <1>3, <1>6, <2>1
  <2>2. ASSUME NEW s \in ClientId, Connect(s) PROVE NewWhenOff(t)'
    BY <1>1, <1>2, <1>6, <2>2 DEF Connect, Still
  <2>3. ASSUME NEW s \in ClientId,
               Read(s) \/ AckPublish(s) \/ DispatchRecv(s)
        PROVE NewWhenOff(t)'
    <3>1. /\ link' = link
          /\ gpc[s] # "off" /\ \E x \in {"read", "send", "ack"} :
               gpc' = [gpc EXCEPT ![s] = x]
      BY <2>3 DEF Read, AckPublish, DispatchRecv, netVars
    <3> QED
      BY <1>1, <1>2, <1>6, <3>1 DEF Still
  <2>4. ASSUME NEW s \in ClientId, Exit(s) PROVE NewWhenOff(t)'
    BY <1>1, <2>4 DEF Exit, NeverInv
  <2>5. ASSUME NEW s \in ClientId, Drop(s) PROVE NewWhenOff(t)'
    <3>1. drops < MaxDrops /\ drops \in 0..MaxDrops
      BY <2>5 DEF Drop, TypeInv, NetTypes
    <3> QED
      BY <3>1
  <2>6. \/ UNCHANGED <<link, gpc>>
        \/ \E s \in ClientId :
             \/ Connect(s) \/ Read(s) \/ AckPublish(s) \/ DispatchRecv(s)
             \/ Exit(s) \/ Drop(s)
    <3>1. ASSUME NEW s \in ClientId, Client(s) \/ \E m \in Msg, id \in
                 ClientPid \cup {NoPid} : ClientPublish(s, m, id)
          PROVE  UNCHANGED <<link, gpc>>
      BY <3>1 DEF Client, ClientReceive, ClientReleased, ClientPubRec,
         ClientPubDone, ClientPublish, goVars
    <3>2. ASSUME Dispatcher \/ (\E m \in Msg : ClusterRecv(m))
                 \/ UNCHANGED vars
          PROVE  UNCHANGED <<link, gpc>>
      BY <3>2 DEF Dispatcher, ClusterRecv, BeginPublish, BeginCluster,
         BeginRelease, ProcessPubAck, ProcessPubRec, ProcessPubComp, DropAck,
         VisitPublish, VisitRelease, DrawAgain, EndLoop, netVars, goVars,
         vars
    <3> QED
      BY <3>1, <3>2 DEF Next, Goroutine, Idle
  <2> QED
    BY <2>1, <2>2, <2>3, <2>4, <2>5, <2>6
<1> QED
  BY <1>4, <1>5, <1>6, StillSteps

(* The dispatcher's buffer.                                                 *)
LEMMA BufferStep ==
  ASSUME TypeInv, BufferInv, [Next]_vars
  PROVE  BufferInv'
<1>1. CASE UNCHANGED dispVars
  BY <1>1 DEF BufferInv, dispVars
<1>2. ASSUME Unlock PROVE BufferInv'
  BY <1>2 DEF Unlock, BufferInv
<1>3. ASSUME dpc = "select", dpc' = "lock", write_buf' = write_buf
      PROVE  BufferInv'
  BY <1>3 DEF BufferInv
<1>4. ASSUME NEW m, Loop(m) PROVE BufferInv'
  BY <1>4 DEF Loop, BufferInv
<1>5. ASSUME NEW s \in ClientId, NEW id \in ServerPid, VisitPublish(s, id)
      PROVE  BufferInv'
  <2>1. /\ dpc = "loop" /\ dpc' = dpc /\ dmsg' = dmsg
        /\ \/ write_buf' = write_buf
           \/ write_buf' = PublishBuffer(dmsg.msg, id)
    BY <1>5 DEF VisitPublish, Visiting
  <2>2. write_buf \in Seq(Buffered)
    BY DEF TypeInv, DispTypes
  <2>3. CASE write_buf' = PublishBuffer(dmsg.msg, id)
    <3>1. /\ write_buf' = Append(write_buf, Publish(dmsg.msg,
                                            WireId(dmsg.msg, id)))
          /\ Publish(dmsg.msg, WireId(dmsg.msg, id)).msg = dmsg.msg
      BY <2>3 DEF PublishBuffer, Publish
    <3> QED
      BY <2>1, <2>2, <3>1, AppendProperties DEF BufferInv
  <2> QED
    BY <2>1, <2>3 DEF BufferInv
<1>6. ASSUME NEW s \in ClientId, NEW id \in ServerPid, VisitRelease(s, id)
      PROVE  BufferInv'
  BY <1>6 DEF VisitRelease, Visiting, BufferInv
<1>7. ASSUME NEW s \in ClientId,
             \/ Client(s) \/ Goroutine(s) \/ Connect(s) \/ Drop(s)
             \/ \E m \in Msg, id \in ClientPid \cup {NoPid} :
                  ClientPublish(s, m, id)
      PROVE  BufferInv'
  BY <1>1, <1>7 DEF Client, ClientReceive, ClientReleased, ClientPubRec,
     ClientPubDone, ClientPublish, Goroutine, Read, AckPublish, Exit,
     Connect, Drop
<1>8. ASSUME NEW s \in ClientId, DispatchRecv(s) PROVE BufferInv'
  BY <1>3, <1>8 DEF DispatchRecv
<1>9. ASSUME NEW m \in Msg, ClusterRecv(m) PROVE BufferInv'
  BY <1>3, <1>9 DEF ClusterRecv
<1>10. CASE Dispatcher
  <2>1. CASE BeginPublish \/ BeginCluster \/ BeginRelease
    BY <1>2, <1>4, <2>1 DEF BeginPublish, BeginCluster, BeginRelease
  <2>2. CASE \/ ProcessPubAck \/ ProcessPubRec \/ ProcessPubComp \/ DropAck
             \/ EndLoop
    BY <1>2, <2>2 DEF ProcessPubAck, ProcessPubRec, ProcessPubComp, DropAck,
       EndLoop
  <2>3. CASE \E s \in ClientId, id \in ServerPid : DrawAgain(s, id)
    BY <1>1, <2>3 DEF DrawAgain, vars
  <2> QED
    BY <1>5, <1>6, <1>10, <2>1, <2>2, <2>3 DEF Dispatcher
<1>11. CASE UNCHANGED vars
  BY <1>1, <1>11 DEF vars
<1> QED
  BY <1>7, <1>8, <1>9, <1>10, <1>11 DEF Next, Idle

LEMMA BasicStep ==
  ASSUME TypeInv, TypeInv', FlowInv, DeliveryInv, BasicInv, [Next]_vars
  PROVE  BasicInv'
BY HistoryStep, ConnStep, BegunStep, OriginStep, PlacesStep, NeverStep,
   BufferStep
DEF BasicInv, DeliveryInv

(* A later message is in turn as long as no Read dropped the earlier one,   *)
(* or the PUBREL for it.                                                    *)
InTurn(m, n) == Before(m, n) /\ ~ PublishDropped(m) /\ ~ ReleaseDropped(m)

LEMMA AnswerDroppedStays ==
  ASSUME TypeInv, HistoryTypes, [Next]_vars,
         NEW s \in ClientId, NEW type, NEW id, Dropped(s, type, id)
  PROVE  Dropped(s, type, id)'
  BY HistoryStep DEF Dropped, HistoryGrows

LEMMA DroppedStays ==
  ASSUME TypeInv, HistoryTypes, [Next]_vars, NEW m \in Msg,
         Publisher[m] # NoClient => Publisher[m] \in ClientId
  PROVE  /\ PublishDropped(m) => PublishDropped(m)'
         /\ ReleaseDropped(m) => ReleaseDropped(m)'
<1>1. HistoryGrows
  BY HistoryStep
<1>2. PublishDropped(m) => PublishDropped(m)'
  BY <1>1 DEF PublishDropped, HistoryGrows
<1>3. Begun(m) => Begun(m)' /\ ppid'[m] = ppid[m]
  BY BegunStays, BegunPid
<1> QED
  BY AnswerDroppedStays, <1>2, <1>3 DEF ReleaseDropped, Begun

(* What is in turn was.                                                     *)
LEMMA InTurnStep ==
  ASSUME TypeInv, HistoryTypes, [Next]_vars, NEW m \in Msg, NEW n \in Msg,
         InTurn(m, n)'
  PROVE  InTurn(m, n)
  BY DroppedStays DEF InTurn, Before

-----------------------------------------------------------------------------
(* What a publisher and the dispatcher have on the way.                     *)

\* Packets of the flow from s to the server, and of the way back.
Forth == {"PUBLISH", "PUBREL"}
Back  == {"PUBREC", "PUBCOMP"}

OutboxSame(s) ==
  /\ \A i \in DOMAIN outbox'[s] : outbox'[s][i].type \in Forth =>
       i \in DOMAIN outbox[s] /\ outbox[s][i] = outbox'[s][i]
  /\ \A i \in DOMAIN outbox[s] : outbox[s][i].type \in Forth =>
       i \in DOMAIN outbox'[s] /\ outbox'[s][i] = outbox[s][i]

InboxShift(s, d) ==
  /\ \A k \in DOMAIN inbox'[s] : inbox'[s][k].type \in Back =>
       k + d \in DOMAIN inbox[s] /\ inbox[s][k + d] = inbox'[s][k]
  /\ \A k \in DOMAIN inbox[s] : inbox[s][k].type \in Back =>
       k - d \in DOMAIN inbox'[s] /\ inbox'[s][k - d] = inbox[s][k]

InboxSame(s) == InboxShift(s, 0) \/ InboxShift(s, 1)

RequestSame(s) ==
  \/ gpc'[s] = gpc[s] /\ req'[s] = req[s]
  \/ {gpc[s], gpc'[s]} \subseteq {"read", "off"}

ProgressSame(s) ==
  \A m \in Msg : Publisher[m] = s =>
    pstate'[m] = pstate[m] /\ ppid'[m] = ppid[m]

UpSame(s) ==
  /\ OutboxSame(s) /\ InboxSame(s) /\ link'[s] = link[s]
  /\ RequestSame(s) /\ ProgressSame(s)

(* What may be appended.                                                    *)
LEMMA UpWrite ==
  ASSUME NetTypes, NEW s \in ClientId, NEW ps \in Seq(Wire), Write(s, ps),
         NEW t \in ClientId,
         t = s => \A i \in DOMAIN ps : ps[i].type \notin Back
  PROVE  InboxShift(t, 0)
<1>1. CASE inbox'[t] = inbox[t]
  BY <1>1, Positions DEF InboxShift
<1>2. CASE inbox'[t] # inbox[t]
  <2>1. t = s /\ inbox'[t] = inbox[t] \o ps /\ inbox[t] \in Seq(Wire)
    BY <1>2 DEF Write, NetTypes
  <2>2. /\ DOMAIN inbox'[t] = 1..(Len(inbox[t]) + Len(ps))
        /\ \A k \in 1..(Len(inbox[t]) + Len(ps)) : inbox'[t][k] =
             IF k <= Len(inbox[t]) THEN inbox[t][k] ELSE ps[k - Len(inbox[t])]
    BY <2>1, ConcatProperties
  <2>3. \A k \in DOMAIN inbox'[t] : k > Len(inbox[t]) =>
          k - Len(inbox[t]) \in DOMAIN ps
    BY <2>1, <2>2
  <2> QED
    BY <2>1, <2>2, <2>3 DEF InboxShift
<1> QED
  BY <1>1, <1>2

LEMMA UpConsume ==
  ASSUME NetTypes, NEW s \in ClientId, inbox[s] # <<>>, Consume(s),
         NEW t \in ClientId, t = s => Head(inbox[s]).type \notin Back
  PROVE  InboxSame(t)
<1>1. CASE t # s
  <2>1. inbox'[t] = inbox[t]
    BY <1>1 DEF Consume, NetTypes
  <2> QED
    BY <2>1, Positions DEF InboxSame, InboxShift
<1>2. CASE t = s
  <2>1. inbox'[s] = Tail(inbox[s]) /\ inbox[s] \in Seq(Wire)
    BY DEF Consume, NetTypes
  <2>2. /\ DOMAIN inbox'[s] = 1..(Len(inbox[s]) - 1)
        /\ DOMAIN inbox[s] = 1..Len(inbox[s]) /\ Len(inbox[s]) \in Nat
        /\ \A k \in DOMAIN inbox'[s] : inbox'[s][k] = inbox[s][k + 1]
        /\ inbox[s][1] = Head(inbox[s])
    BY <2>1, HeadTailProperties
  <2>3. InboxShift(s, 1)
    BY <1>2, <2>2 DEF InboxShift
  <2> QED
    BY <1>2, <2>3 DEF InboxSame
<1> QED
  BY <1>1, <1>2

LEMMA UpSend ==
  ASSUME NetTypes, NEW s \in ClientId, NEW p \in Wire, Send(s, p),
         NEW t \in ClientId, t = s => p.type \notin Forth
  PROVE  OutboxSame(t)
  BY SendElements, Positions DEF OutboxSame

LEMMA UpUnchanged ==
  ASSUME NetTypes, NEW t \in ClientId
  PROVE  /\ inbox'[t] = inbox[t] => InboxShift(t, 0) /\ InboxSame(t)
         /\ outbox'[t] = outbox[t] => OutboxSame(t)
  BY Positions DEF InboxSame, InboxShift, OutboxSame

(* The clients' steps, one by one.                                          *)
LEMMA UpReceive ==
  ASSUME TypeInv, NEW s \in ClientId, ClientReceive(s) \/ ClientReleased(s),
         NEW t \in ClientId
  PROVE  UpSame(t)
<1>1. NetTypes
  BY DEF TypeInv
<1>2. /\ UNCHANGED <<goVars, link, pstate, ppid>>
      /\ inbox[s] # <<>> /\ Consume(s)
  BY DEF ClientReceive, ClientReleased, Arriving
<1>3. /\ Head(inbox[s]).type \notin Back
      /\ UNCHANGED outbox \/ \E p \in Wire : p.type \notin Forth /\ Send(s, p)
  BY ReceiveAnswer, AckAnswer DEF Back, Forth
<1>4. InboxSame(t)
  BY <1>1, <1>2, <1>3, UpConsume
<1>5. OutboxSame(t)
  BY <1>1, <1>3, UpSend, UpUnchanged
<1> QED
  BY <1>2, <1>4, <1>5 DEF UpSame, RequestSame, ProgressSame, goVars

LEMMA UpOther ==
  ASSUME TypeInv, NEW s \in ClientId, NEW t \in ClientId, t # s,
         \/ ClientPubRec(s) \/ ClientPubDone(s) \/ Drop(s) \/ Goroutine(s)
         \/ Connect(s) \/ DispatchRecv(s)
         \/ \E m \in Msg, id \in ClientPid \cup {NoPid} :
              ClientPublish(s, m, id)
  PROVE  UpSame(t)
<1>1. NetTypes /\ GoTypes /\ ClientTypes
  BY DEF TypeInv
<1>2. inbox'[t] = inbox[t]
  <2>1. ASSUME AckPublish(s) PROVE inbox'[t] = inbox[t]
    <3>1. Qos[req[s].msg] \in 0..2
      BY <2>1, AckPublishWrites, MsgFacts
    <3>2. Qos[req[s].msg] = 0 \/ Qos[req[s].msg] = 1 \/ Qos[req[s].msg] = 2
      BY <3>1
    <3> QED
      BY <1>1, <2>1, <3>2, AckPublishWrites DEF Write, NetTypes
  <2> QED
    BY <1>1, <2>1 DEF ClientPubRec, ClientPubDone, Consume, Drop, Goroutine,
       Read, Exit, Connect, DispatchRecv, ClientPublish, NetTypes, netVars
<1>3. outbox'[t] = outbox[t]
  BY <1>1 DEF ClientPubRec, ClientPubDone, Send, Drop, Goroutine, Read,
     AckPublish, Exit, Connect, DispatchRecv, ClientPublish, NetTypes,
     netVars
<1>4. link'[t] = link[t] /\ gpc'[t] = gpc[t] /\ req'[t] = req[t]
  BY <1>1 DEF ClientPubRec, ClientPubDone, Drop, Goroutine, Read,
     AckPublish, Exit, Connect, DispatchRecv, ClientPublish, NetTypes,
     GoTypes, netVars, goVars
<1>5. ProgressSame(t)
  <2>1. CASE ClientPubRec(s) \/ ClientPubDone(s)
    BY <2>1, PubRecProgress, PubDoneProgress DEF ProgressSame
  <2>2. CASE \E m \in Msg, id \in ClientPid \cup {NoPid} :
               ClientPublish(s, m, id)
    BY <1>1, <2>2 DEF ClientPublish, ProgressSame, ClientTypes
  <2>3. CASE Drop(s) \/ Goroutine(s) \/ Connect(s) \/ DispatchRecv(s)
    BY <2>3 DEF Drop, Goroutine, Read, AckPublish, Exit, Connect,
       DispatchRecv, clientVars, ProgressSame
  <2> QED
    BY <2>1, <2>2, <2>3
<1> QED
  BY <1>1, <1>2, <1>3, <1>4, <1>5, UpUnchanged DEF UpSame, RequestSame

LEMMA UpExit ==
  ASSUME TypeInv, NEW s \in ClientId, Exit(s)
  PROVE  UpSame(s)
<1>1. NetTypes /\ GoTypes
  BY DEF TypeInv
<1>2. /\ UNCHANGED <<netVars, clientVars>>
      /\ {gpc[s], gpc'[s]} \subseteq {"read", "off"}
  BY <1>1 DEF Exit, GoTypes
<1> QED
  BY <1>1, <1>2, UpUnchanged DEF UpSame, RequestSame, ProgressSame, netVars,
     clientVars

(* The dispatcher writes PUBCOMP to whom it releases for, else nothing that *)
(* a publisher waits for.                                                   *)
LEMMA UpDispatcher ==
  ASSUME TypeInv, BufferInv, NEW t \in ClientId,
         \/ UNCHANGED vars \/ \E m \in Msg : ClusterRecv(m)
         \/ Dispatcher /\ (BeginRelease => dmsg.from # t)
  PROVE  UpSame(t)
<1>1. NetTypes
  BY DEF TypeInv
<1>2. UNCHANGED <<outbox, link, goVars, clientVars>>
  BY DEF Dispatcher, ClusterRecv, BeginPublish, BeginCluster, BeginRelease,
     ProcessPubAck, ProcessPubRec, ProcessPubComp, DropAck, VisitPublish,
     VisitRelease, DrawAgain, EndLoop, netVars, vars
<1>3. InboxSame(t)
  <2>1. CASE inbox' = inbox
    BY <1>1, <2>1, UpUnchanged
  <2>2. ASSUME BeginRelease, dmsg.from # t PROVE InboxSame(t)
    <3>1. Write(dmsg.from, <<Ack("PUBCOMP", dmsg.pid)>>)
          /\ dpc = "lock" /\ dmsg.type = "PUBREL"
      BY <2>2 DEF BeginRelease, Complete, Processing
    <3>2. inbox'[t] = inbox[t]
      BY <1>1, <2>2, <3>1, HandFacts DEF Write, NetTypes, Acks
    <3> QED
      BY <1>1, <3>2, UpUnchanged
  <2>3. ASSUME ProcessPubRec PROVE InboxSame(t)
    <3> DEFINE p == Ack("PUBREL", dmsg.pid)
    <3>1. /\ Write(dmsg.from, <<p>>) /\ dpc = "lock" /\ dmsg.type = "PUBREC"
      BY <2>3 DEF ProcessPubRec, Processing
    <3>2. dmsg.from \in ClientId /\ dmsg.pid \in Pid
      BY <3>1, HandFacts DEF Acks
    <3>3. p \in Wire /\ p.type \notin Back
      BY <3>2, PacketFacts DEF Ack, Acks, Back
    <3> HIDE DEF p
    <3>4. <<p>> \in Seq(Wire) /\ \A i \in DOMAIN <<p>> :
                                   <<p>>[i].type \notin Back
      BY <3>3
    <3> QED
      BY <1>1, <3>1, <3>2, <3>4, UpWrite DEF InboxSame
  <2>4. ASSUME NEW s \in ClientId, NEW id \in ServerPid,
               VisitPublish(s, id) \/ VisitRelease(s, id)
        PROVE  InboxSame(t)
    <3>1. CASE t # s
      <4>1. inbox'[t] = inbox[t]
        BY <2>4, <3>1, VisitCopies
      <4> QED
        BY <1>1, <4>1, UpUnchanged
    <3>2. ASSUME t = s, Batch(inbox[s], inbox'[s], dmsg.msg)
          PROVE  InboxSame(t)
      <4>1. PICK ps \in Seq(Wire) :
              /\ inbox'[s] = inbox[s] \o ps
              /\ \A i \in DOMAIN ps : ps[i].type = "PUBLISH"
        BY <3>2 DEF Batch
      <4>2. inbox[s] \in Seq(Wire)
        BY <1>1 DEF NetTypes
      <4>3. /\ DOMAIN inbox'[s] = 1..(Len(inbox[s]) + Len(ps))
            /\ \A k \in 1..(Len(inbox[s]) + Len(ps)) : inbox'[s][k] =
                 IF k <= Len(inbox[s]) THEN inbox[s][k]
                 ELSE ps[k - Len(inbox[s])]
        BY <4>1, <4>2, ConcatProperties
      <4>4. \A k \in DOMAIN inbox'[s] : k > Len(inbox[s]) =>
              k - Len(inbox[s]) \in DOMAIN ps
        BY <4>1, <4>2, <4>3
      <4>5. InboxShift(s, 0)
        <5>1. \A k \in DOMAIN inbox'[s] : inbox'[s][k].type \in Back =>
                k <= Len(inbox[s])
          BY <4>1, <4>3, <4>4 DEF Back
        <5> QED
          BY <4>2, <4>3, <5>1 DEF InboxShift
      <4> QED
        BY <3>2, <4>5 DEF InboxSame
    <3> QED
      BY <2>1, <2>4, <3>1, <3>2, VisitCopies
  <2>5. \/ inbox' = inbox \/ (BeginRelease /\ dmsg.from # t) \/ ProcessPubRec
        \/ \E s \in ClientId, id \in ServerPid :
             VisitPublish(s, id) \/ VisitRelease(s, id)
    BY DEF Dispatcher, ClusterRecv, BeginPublish, BeginCluster,
       ProcessPubAck, ProcessPubComp, DropAck, DrawAgain, EndLoop, netVars,
       vars
  <2> QED
    BY <2>1, <2>2, <2>3, <2>4, <2>5
<1> QED
  BY <1>1, <1>2, <1>3, UpUnchanged DEF UpSame, RequestSame, ProgressSame,
     goVars, clientVars

\* What else may happen to s and its messages.
UpCases(s) ==
  \/ UpSame(s)
  \/ \E m \in Msg, id \in ClientPid \cup {NoPid} : ClientPublish(s, m, id)
  \/ ClientPubRec(s) \/ ClientPubDone(s) \/ Drop(s) \/ Connect(s)
  \/ Read(s) \/ AckPublish(s) \/ DispatchRecv(s)
  \/ BeginRelease /\ dmsg.from = s

(* For each client: its own steps as a publisher, what its goroutine and    *)
(* the dispatcher do for it, and steps that do not concern it.              *)
LEMMA UpSteps ==
  ASSUME TypeInv, BufferInv, [Next]_vars, NEW s \in ClientId
  PROVE  UpCases(s)
<1>1. CASE UNCHANGED vars \/ Dispatcher \/ \E m \in Msg : ClusterRecv(m)
  BY <1>1, UpDispatcher DEF UpCases
<1>2. ASSUME NEW t \in ClientId,
             \/ Client(t) \/ Goroutine(t) \/ Connect(t) \/ DispatchRecv(t)
             \/ Drop(t)
             \/ \E m \in Msg, id \in ClientPid \cup {NoPid} :
                  ClientPublish(t, m, id)
      PROVE  UpCases(s)
  BY <1>2, UpReceive, UpOther, UpExit DEF Client, Goroutine, UpCases
<1> QED
  BY <1>1, <1>2 DEF Next, Idle

-----------------------------------------------------------------------------
(* Publishes go out, are read and are answered in order.                    *)

IsPublish(p, m) == p.type = "PUBLISH" /\ p.msg = m

InOutbox(s, m)  == \E i \in DOMAIN outbox[s] : IsPublish(outbox[s][i], m)
InRequest(s, m) == gpc[s] \in {"send", "ack"} /\ IsPublish(req[s], m)

\* On a connection m is before n, and what was read was before the rest.
OutboxOrder(m, n) ==
  LET s == Publisher[m] IN
  /\ \A i, j \in DOMAIN outbox[s] :
       IsPublish(outbox[s][i], m) /\ IsPublish(outbox[s][j], n) => i < j
  /\ InRequest(s, n) => ~ InOutbox(s, m)

OutboxOrderInv == \A m, n \in Msg : Before(m, n) => OutboxOrder(m, n)

LEMMA OutboxOrderSame ==
  ASSUME NEW m, NEW n, Publisher[m] = Publisher[n], OutboxOrder(m, n),
         OutboxSame(Publisher[m]),
         InRequest(Publisher[m], n)' => InRequest(Publisher[m], n)
  PROVE  OutboxOrder(m, n)'
  BY DEF OutboxOrder, OutboxSame, Forth, IsPublish, InOutbox

\* What a client sends again, in which order.
LEMMA ConnectSends ==
  ASSUME TypeInv, NEW s \in ClientId, Connect(s)
  PROVE  \E q \in Again(s) :
           /\ DOMAIN outbox'[s] = DOMAIN q
           /\ \A i, j \in DOMAIN q : i < j <=> q[i] < q[j]
           /\ \A i \in DOMAIN q :
                /\ i \in Nat /\ q[i] \in Msg /\ Publisher[q[i]] = s
                /\ pstate[q[i]] \in {"sent", "released"}
                /\ outbox'[s][i].pid = ppid[q[i]]
                /\ pstate[q[i]] = "sent" => IsPublish(outbox'[s][i], q[i])
                /\ pstate[q[i]] = "released" =>
                     outbox'[s][i].type = "PUBREL"
           /\ \A m \in Msg : m \in Unfinished(s) =>
                \E i \in DOMAIN q : q[i] = m
<1> DEFINE U == Unfinished(s)
<1> DEFINE c == Cardinality(U)
<1>1. /\ NetTypes /\ ClientTypes /\ Msg = 1..NumMsg /\ NumMsg \in Nat
      /\ U \subseteq Msg /\ Msg \subseteq Nat
  BY MessageDispatchAssumption, MsgFacts DEF TypeInv, Msg, Unfinished
<1>2. IsFiniteSet(U) /\ c \in Nat
  <2>1. IsFiniteSet(Msg)
    BY <1>1, FS_Interval
  <2>2. IsFiniteSet(U)
    BY <1>1, <2>1, FS_Subset
  <2> QED
    BY <2>2, FS_CardinalityType
<1>3. PICK q \in Again(s) :
        outbox' = [outbox EXCEPT ![s] = [i \in DOMAIN q |-> Resend(q[i])]]
  BY DEF Connect
<1>4. /\ q \in [1..c -> U]
      /\ \A i, j \in 1..c : i < j => q[i] < q[j]
  BY <1>3 DEF Again
<1>5. /\ DOMAIN q = 1..c
      /\ \A i \in 1..c : q[i] \in U /\ q[i] \in Nat
  BY <1>1, <1>4
<1>6. \A i, j \in 1..c : i < j <=> q[i] < q[j]
  <2> SUFFICES ASSUME NEW i \in 1..c, NEW j \in 1..c, q[i] < q[j]
               PROVE  i < j
    BY <1>4
  <2>1. i # j /\ ~ (j < i)
    BY <1>4, <1>5
  <2> QED
    BY <1>2, <2>1
<1>7. ASSUME NEW m \in U PROVE \E i \in 1..c : q[i] = m
  <2> SUFFICES ASSUME \A i \in 1..c : q[i] # m PROVE FALSE
    OBVIOUS
  <2>1. q \in [1..c -> U \ {m}]
    BY <1>4, <1>5
  <2>2. /\ IsFiniteSet(U \ {m}) /\ Cardinality(U \ {m}) = c - 1
        /\ IsFiniteSet(1..c) /\ Cardinality(1..c) = c
    <3>1. IsFiniteSet(U \ {m}) /\ Cardinality(U \ {m}) = c - 1
      BY <1>2, FS_RemoveElement
    <3>2. IsFiniteSet(1..c) /\ Cardinality(1..c) = c
      <4> HIDE DEF U, c
      <4> QED
        BY <1>2, FS_Interval
    <3> QED
      BY <3>1, <3>2
  <2>3. \E i, j \in 1..c : i # j /\ q[i] = q[j]
    <3> HIDE DEF U, c
    <3> QED
      BY <1>2, <2>1, <2>2, FS_PigeonHole
  <2> QED
    BY <1>2, <1>4, <1>5, <2>3
<1> HIDE DEF U, c
<1>8. outbox'[s] = [i \in 1..c |-> Resend(q[i])]
  BY <1>1, <1>3, <1>5 DEF NetTypes
<1>9. ASSUME NEW i \in 1..c
      PROVE  /\ q[i] \in Msg /\ Publisher[q[i]] = s
             /\ pstate[q[i]] \in {"sent", "released"}
             /\ outbox'[s][i].pid = ppid[q[i]]
             /\ pstate[q[i]] = "sent" => IsPublish(outbox'[s][i], q[i])
             /\ pstate[q[i]] = "released" => outbox'[s][i].type = "PUBREL"
  <2>1. q[i] \in Unfinished(s) /\ outbox'[s][i] = Resend(q[i])
    BY <1>5, <1>8 DEF U
  <2> QED
    BY <2>1 DEF Unfinished, Resend, Publish, Ack, IsPublish
<1>10. /\ DOMAIN outbox'[s] = DOMAIN q
       /\ \A i \in DOMAIN q : i \in Nat
       /\ \A m \in Msg : m \in Unfinished(s) => \E i \in DOMAIN q : q[i] = m
  BY <1>5, <1>7, <1>8 DEF U
<1>11. \A i, j \in DOMAIN q : i < j <=> q[i] < q[j]
  BY <1>5, <1>6
<1>12. \A i \in DOMAIN q :
         /\ i \in Nat /\ q[i] \in Msg /\ Publisher[q[i]] = s
         /\ pstate[q[i]] \in {"sent", "released"}
         /\ outbox'[s][i].pid = ppid[q[i]]
         /\ pstate[q[i]] = "sent" => IsPublish(outbox'[s][i], q[i])
         /\ pstate[q[i]] = "released" => outbox'[s][i].type = "PUBREL"
  BY <1>5, <1>9, <1>10
<1> QED
  BY <1>3, <1>10, <1>11, <1>12

(* What is left of a connection's packets.                                  *)
LEMMA ConsumeRest ==
  ASSUME NetTypes, NEW s \in ClientId, inbox[s] # <<>>, Consume(s)
  PROVE  \A k \in DOMAIN inbox[s] : k # 1 =>
           k \in Nat /\ k - 1 \in DOMAIN inbox'[s]
             /\ inbox'[s][k - 1] = inbox[s][k]
<1>1. inbox'[s] = Tail(inbox[s]) /\ inbox[s] \in Seq(Wire)
  BY DEF Consume, NetTypes
<1>2. /\ DOMAIN inbox'[s] = 1..(Len(inbox[s]) - 1)
      /\ DOMAIN inbox[s] = 1..Len(inbox[s]) /\ Len(inbox[s]) \in Nat
      /\ \A k \in DOMAIN inbox'[s] : inbox'[s][k] = inbox[s][k + 1]
  BY <1>1, HeadTailProperties
<1> QED
  BY <1>2

(* The steps of a client and its goroutine, as they concern its publishes.  *)
LEMMA PublishSends ==
  ASSUME TypeInv, NEW s \in ClientId, NEW m \in Msg,
         NEW id \in ClientPid \cup {NoPid}, ClientPublish(s, m, id)
  PROVE  /\ link[s] /\ Publisher[m] = s /\ pstate[m] = "idle"
         /\ \A n \in Msg : n < m /\ Publisher[n] = s => Begun(n)
         /\ pstate' = [pstate EXCEPT ![m] =
                         IF Qos[m] = 0 THEN "done" ELSE "sent"]
         /\ ppid' = [ppid EXCEPT ![m] = id]
         /\ Qos[m] > 0 => id \in Pid /\ InFlight(s, id) = {}
         /\ UNCHANGED <<sessVars, goVars, dispVars, link, inbox, drops>>
         /\ DOMAIN outbox'[s] = 1..(Len(outbox[s]) + 1)
         /\ DOMAIN outbox[s] = 1..Len(outbox[s]) /\ Len(outbox[s]) \in Nat
         /\ \A i \in DOMAIN outbox[s] : outbox'[s][i] = outbox[s][i]
         /\ outbox'[s][Len(outbox[s]) + 1] = Publish(m, id)
<1>1. /\ NetTypes
      /\ Qos[m] \in 0..2 /\ (Qos[m] > 0 => id \in Pid)
  BY MsgFacts DEF ClientPublish, TypeInv
<1>2. Publish(m, id) \in Wire
  <2>1. id \in Pid \cup {NoPid}
    BY MsgFacts
  <2> QED
    BY <1>1, <2>1, PacketFacts
<1>3. Send(s, Publish(m, id))
  BY DEF ClientPublish
<1> HIDE DEF Publish, Send
<1> QED
  BY <1>1, <1>2, <1>3, SendElements, Positions DEF ClientPublish, Begun

LEMMA PubRecSends ==
  ASSUME TypeInv, NEW s \in ClientId, ClientPubRec(s)
  PROVE  /\ 1 \in DOMAIN inbox[s] /\ inbox[s][1].type = "PUBREC"
         /\ inbox[s][1].pid \in Pid /\ Head(inbox[s]) = inbox[s][1]
         /\ \A k \in DOMAIN inbox'[s] :
              /\ k \in Nat \ {0}
              /\ k + 1 \in DOMAIN inbox[s] /\ inbox'[s][k] = inbox[s][k + 1]
         /\ \A k \in DOMAIN inbox[s] : k # 1 =>
              k \in Nat /\ k - 1 \in DOMAIN inbox'[s]
                /\ inbox'[s][k - 1] = inbox[s][k]
         /\ UNCHANGED <<sessVars, goVars, dispVars, link>>
         /\ DOMAIN outbox'[s] = 1..(Len(outbox[s]) + 1)
         /\ DOMAIN outbox[s] = 1..Len(outbox[s]) /\ Len(outbox[s]) \in Nat
         /\ \A i \in DOMAIN outbox[s] : outbox'[s][i] = outbox[s][i]
         /\ IsPubrel(outbox'[s][Len(outbox[s]) + 1], inbox[s][1].pid)
<1>1. NetTypes /\ inbox[s] # <<>> /\ Consume(s)
  BY DEF TypeInv, ClientPubRec, Arriving
<1>2. PICK p \in Wire : p.pid = Head(inbox[s]).pid /\ Send(s, p)
                        /\ p.type = "PUBREL"
  BY AckAnswer
<1>3. UNCHANGED <<sessVars, goVars, dispVars, link>>
  BY DEF ClientPubRec
<1> QED
  BY <1>1, <1>2, <1>3, AckAnswer, SendElements, ConsumeElements,
     ConsumeRest, Positions
  DEF IsPubrel

LEMMA PubDoneTakes ==
  ASSUME TypeInv, NEW s \in ClientId, ClientPubDone(s)
  PROVE  /\ 1 \in DOMAIN inbox[s]
         /\ inbox[s][1].type \in {"PUBACK", "PUBCOMP"}
         /\ inbox[s][1].pid \in Pid /\ Head(inbox[s]) = inbox[s][1]
         /\ \A k \in DOMAIN inbox'[s] :
              /\ k \in Nat \ {0}
              /\ k + 1 \in DOMAIN inbox[s] /\ inbox'[s][k] = inbox[s][k + 1]
         /\ \A k \in DOMAIN inbox[s] : k # 1 =>
              k \in Nat /\ k - 1 \in DOMAIN inbox'[s]
                /\ inbox'[s][k - 1] = inbox[s][k]
         /\ UNCHANGED <<sessVars, goVars, dispVars, link, outbox>>
<1>1. NetTypes /\ inbox[s] # <<>> /\ Consume(s)
  BY DEF TypeInv, ClientPubDone, Arriving
<1>2. UNCHANGED <<sessVars, goVars, dispVars, link, outbox>>
  BY DEF ClientPubDone
<1>3. Head(inbox[s]) \in Wire
  BY <1>1, ConsumeTypes
<1> QED
  BY <1>1, <1>2, <1>3, PubDoneProgress, ConsumeElements, ConsumeRest DEF Wire

(* Messages go out in order, and go out again in order.                     *)
LEMMA OutboxOrderStep ==
  ASSUME TypeInv, TypeInv', BasicInv, OutboxOrderInv, [Next]_vars
  PROVE  OutboxOrderInv'
<1> SUFFICES ASSUME NEW m \in Msg, NEW n \in Msg, Before(m, n)
             PROVE  OutboxOrder(m, n)'
  BY DEF OutboxOrderInv, Before
<1> DEFINE s == Publisher[m]
<1>1. /\ s \in ClientId /\ Publisher[n] = s /\ m < n /\ m \in Nat /\ n \in Nat
      /\ OutboxOrder(m, n)
      /\ NetTypes /\ GoTypes
  BY MsgFacts DEF Before, OutboxOrderInv, TypeInv
<1>2. ASSUME OutboxSame(s), InRequest(s, n)' => InRequest(s, n)
      PROVE  OutboxOrder(m, n)'
  BY <1>1, <1>2, OutboxOrderSame
<1> HIDE DEF s
<1>3. ASSUME UpSame(s) PROVE OutboxOrder(m, n)'
  <2>1. InRequest(s, n)' => InRequest(s, n)
    BY <1>3 DEF UpSame, RequestSame, InRequest
  <2> QED
    BY <1>2, <1>3, <2>1 DEF UpSame
<1>4. ASSUME NEW x \in Msg, NEW id \in ClientPid \cup {NoPid},
             ClientPublish(s, x, id)
      PROVE  OutboxOrder(m, n)'
  <2>1. InRequest(s, n)' <=> InRequest(s, n)
    BY <1>1, <1>4, PublishSends DEF InRequest, goVars
  <2>2. InRequest(s, n) \/ InOutbox(s, n) => Begun(m)
    BY <1>1 DEF BasicInv, OriginInv, BegunInv, InRequest, InOutbox,
       IsPublish, Own
  <2>3. x = m => ~ Begun(m)
    BY <1>1, <1>4, PublishSends DEF Begun
  <2>4. /\ DOMAIN outbox[s] = 1..Len(outbox[s]) /\ Len(outbox[s]) \in Nat
        /\ DOMAIN outbox'[s] = 1..(Len(outbox[s]) + 1)
        /\ \A i \in DOMAIN outbox[s] : outbox'[s][i] = outbox[s][i]
        /\ outbox'[s][Len(outbox[s]) + 1].msg = x
    <3>1. Publish(x, id).msg = x
      BY DEF Publish
    <3> QED
      BY <1>1, <1>4, <3>1, PublishSends
  <2>5. ASSUME NEW i \in DOMAIN outbox'[s], NEW j \in DOMAIN outbox'[s],
               IsPublish(outbox'[s][i], m), IsPublish(outbox'[s][j], n)
        PROVE  i < j
    <3>1. CASE i \in DOMAIN outbox[s] /\ j \in DOMAIN outbox[s]
      BY <1>1, <2>4, <2>5, <3>1 DEF OutboxOrder, s
    <3>2. CASE i = Len(outbox[s]) + 1 /\ j \in DOMAIN outbox[s]
      BY <2>2, <2>3, <2>4, <2>5, <3>2 DEF InOutbox, IsPublish
    <3>3. CASE i \in DOMAIN outbox[s] /\ j = Len(outbox[s]) + 1
      BY <2>4, <3>3
    <3>4. CASE i = Len(outbox[s]) + 1 /\ j = Len(outbox[s]) + 1
      BY <1>1, <2>4, <2>5, <3>4 DEF IsPublish
    <3> QED
      BY <2>4, <3>1, <3>2, <3>3, <3>4
  <2>6. InRequest(s, n)' => ~ InOutbox(s, m)'
    <3>1. InOutbox(s, m)' => InOutbox(s, m) \/ x = m
      BY <2>4 DEF InOutbox, IsPublish
    <3> QED
      BY <1>1, <2>1, <2>2, <2>3, <3>1 DEF OutboxOrder, s
  <2> QED
    BY <2>5, <2>6 DEF OutboxOrder, s
<1>5. ASSUME ClientPubRec(s) PROVE OutboxOrder(m, n)'
  <2>1. InRequest(s, n)' <=> InRequest(s, n)
    BY <1>1, <1>5, PubRecSends DEF InRequest, goVars
  <2>2. \A i \in DOMAIN outbox'[s] :
          \/ i \in DOMAIN outbox[s] /\ outbox'[s][i] = outbox[s][i]
          \/ \A x : ~ IsPublish(outbox'[s][i], x)
    BY <1>1, <1>5, PubRecSends DEF IsPublish, IsPubrel
  <2> QED
    BY <1>1, <2>1, <2>2 DEF OutboxOrder, InOutbox, s
<1>6. ASSUME ClientPubDone(s) \/ (BeginRelease /\ dmsg.from = s)
      PROVE  OutboxOrder(m, n)'
  <2>1. UNCHANGED <<outbox, gpc, req>>
    BY <1>1, <1>6, PubDoneTakes DEF BeginRelease, goVars
  <2> QED
    BY <1>1, <2>1 DEF OutboxOrder, InOutbox, InRequest, s
<1>7. ASSUME Drop(s) PROVE OutboxOrder(m, n)'
  <2>1. outbox'[s] = <<>>
    BY <1>1, <1>7 DEF Drop, NetTypes
  <2> QED
    BY <2>1 DEF OutboxOrder, InOutbox, s
<1>8. ASSUME Connect(s) PROVE OutboxOrder(m, n)'
  <2>1. ~ InRequest(s, n)'
    BY <1>1, <1>8 DEF Connect, InRequest, GoTypes
  <2>2. ASSUME NEW i \in DOMAIN outbox'[s], NEW j \in DOMAIN outbox'[s],
               IsPublish(outbox'[s][i], m), IsPublish(outbox'[s][j], n)
        PROVE  i < j
    BY <1>1, <1>8, <2>2, ConnectSends DEF IsPublish
  <2> QED
    BY <2>1, <2>2 DEF OutboxOrder, s
<1>9. ASSUME Read(s) PROVE OutboxOrder(m, n)'
  <2>0. PICK d \in Nat : Takes(s, d)
    BY <1>1, <1>9, ReadElements
  <2>1. /\ 1 \in DOMAIN outbox[s] /\ req'[s] = outbox[s][1] /\ d >= 1
        /\ \A i \in DOMAIN outbox'[s] :
              /\ i \in Nat \ {0}
              /\ i + d \in DOMAIN outbox[s] /\ outbox'[s][i] = outbox[s][i + d]
    BY <1>1, <2>0 DEF GoTypes, Takes
  <2>2. \A i, j \in DOMAIN outbox'[s] :
          IsPublish(outbox'[s][i], m) /\ IsPublish(outbox'[s][j], n) => i < j
    BY <1>1, <2>1 DEF OutboxOrder, s
  <2>3. InRequest(s, n)' => ~ InOutbox(s, m)'
    BY <1>1, <2>1 DEF OutboxOrder, InOutbox, InRequest, s
  <2> QED
    BY <2>2, <2>3 DEF OutboxOrder, s
<1>10. ASSUME AckPublish(s) \/ DispatchRecv(s) PROVE OutboxOrder(m, n)'
  <2>1. UNCHANGED outbox /\ (InRequest(s, n)' => InRequest(s, n))
    BY <1>1, <1>10 DEF AckPublish, DispatchRecv, InRequest, GoTypes, netVars
  <2> QED
    BY <1>1, <2>1 DEF OutboxOrder, InOutbox, s
<1> QED
  BY <1>1, <1>3, <1>4, <1>5, <1>6, <1>7, <1>8, <1>9, <1>10, UpSteps
  DEF UpCases, BasicInv

-----------------------------------------------------------------------------
(* QoS 2: publishes are acknowledged, so released, in order.                *)

PubrecIn(s, id) == \E k \in DOMAIN inbox[s] : IsPubrec(inbox[s][k], id)

\* The dispatcher has a PUBREL of s in hand.
RelInHand(s, id) == dpc = "lock" /\ dmsg.from = s /\ IsPubrel(dmsg, id)

\* A goroutine that is to write a PUBREC has handed over nothing since.
AckHandInv ==
  \A s \in ClientId, id \in Pid : gpc[s] = "ack" => ~ RelInHand(s, id)

\* A PUBREC on its way has no PUBREL on the way back.
PubrecAheadInv ==
  \A s \in ClientId, id \in Pid :
    PubrecIn(s, id) => NoPubrelAhead(s, id) /\ ~ RelInHand(s, id)

\* On a connection that is up, what was sent is on its way or answered,
\* unless a Read dropped it.
OnItsWay(m) ==
  LET s == Publisher[m] IN
  Qos[m] = 2 /\ pstate[m] = "sent" /\ link[s] =>
    \/ InOutbox(s, m) \/ InRequest(s, m) \/ PubrecIn(s, ppid[m])
    \/ PublishDropped(m)

OnItsWayInv == \A m \in Msg : OnItsWay(m)

\* n is answered after m.
AnsweredAfter(m, n) ==
  LET s == Publisher[m] IN
  \A k \in DOMAIN inbox[s] : IsPubrec(inbox[s][k], ppid[n]) =>
    /\ ~ InOutbox(s, m) /\ ~ InRequest(s, m)
    /\ \A l \in DOMAIN inbox[s] : IsPubrec(inbox[s][l], ppid[m]) => l < k

PubrecOrderInv ==
  \A m, n \in Msg :
    /\ Before(m, n) /\ Qos[m] = 2 /\ Qos[n] = 2
    /\ pstate[m] = "sent" /\ pstate[n] = "sent"
    => AnsweredAfter(m, n)

\* A client releases its messages in order.
Released(m) == pstate[m] \in {"released", "done"}

ReleasedInv ==
  \A m, n \in Msg :
    InTurn(m, n) /\ Qos[m] = 2 /\ Qos[n] = 2 /\ Released(n) => Released(m)

SentInv ==
  AckHandInv /\ PubrecAheadInv /\ OnItsWayInv /\ PubrecOrderInv /\ ReleasedInv

(* What a step that does not concern a publisher leaves as it is.           *)
LEMMA UpFacts ==
  ASSUME NetTypes, NetTypes', NEW s \in ClientId, UpSame(s)
  PROVE  /\ \A m : InOutbox(s, m)' <=> InOutbox(s, m)
         /\ \A m : InRequest(s, m)' <=> InRequest(s, m)
         /\ \A id : PubrecIn(s, id)' <=> PubrecIn(s, id)
         /\ \A id : NoPubrelAhead(s, id)' <=> NoPubrelAhead(s, id)
<1>1. OutboxSame(s) /\ InboxSame(s) /\ RequestSame(s)
  BY DEF UpSame
<1>2. \A m : InOutbox(s, m)' <=> InOutbox(s, m)
  BY <1>1 DEF OutboxSame, Forth, InOutbox, IsPublish
<1>3. \A m : InRequest(s, m)' <=> InRequest(s, m)
  BY <1>1 DEF RequestSame, InRequest
<1>4. \A id : PubrecIn(s, id)' <=> PubrecIn(s, id)
  <2>1. PICK d \in {0, 1} : InboxShift(s, d)
    BY <1>1 DEF InboxSame
  <2> QED
    BY <2>1 DEF InboxShift, Back, PubrecIn, IsPubrec
<1>5. \A id : NoPubrelAhead(s, id)' <=> NoPubrelAhead(s, id)
  BY <1>1 DEF OutboxSame, RequestSame, Forth, NoPubrelAhead, IsPubrel
<1> QED
  BY <1>2, <1>3, <1>4, <1>5

(* A packet written to a connection is its last one; one consumed or read   *)
(* was its first.                                                           *)
LEMMA WriteElements ==
  ASSUME NetTypes, NEW s \in ClientId, NEW p \in Wire, Write(s, <<p>>)
  PROVE  /\ \A k \in DOMAIN inbox[s] :
              k \in Nat /\ k \in DOMAIN inbox'[s] /\ inbox'[s][k] = inbox[s][k]
         /\ \A k \in DOMAIN inbox'[s] :
              \/ k \in DOMAIN inbox[s] /\ inbox'[s][k] = inbox[s][k]
              \/ /\ inbox'[s][k] = p /\ k = Len(inbox[s]) + 1
                 /\ link[s] /\ k \in Nat
                 /\ \A l \in DOMAIN inbox[s] : l < k
         /\ link[s] => \E k \in DOMAIN inbox'[s] : inbox'[s][k] = p
<1>1. DOMAIN inbox[s] = 1..Len(inbox[s]) /\ Len(inbox[s]) \in Nat
  BY Positions
<1>2. CASE link[s]
  <2>1. inbox'[s] = inbox[s] \o <<p>> /\ inbox[s] \in Seq(Wire)
    BY <1>2 DEF Write, NetTypes
  <2>2. /\ DOMAIN inbox'[s] = 1..(Len(inbox[s]) + 1)
        /\ \A k \in 1..(Len(inbox[s]) + 1) : inbox'[s][k] =
             IF k <= Len(inbox[s]) THEN inbox[s][k] ELSE p
    BY <2>1
  <2> QED
    BY <1>1, <1>2, <2>2
<1>3. CASE ~ link[s]
  BY <1>1, <1>3 DEF Write
<1> QED
  BY <1>2, <1>3

LEMMA ReadRest ==
  ASSUME NetTypes, HistoryTypes, NEW s \in ClientId, NEW n \in Nat,
         Takes(s, n), NEW i \in DOMAIN outbox[s]
  PROVE  \/ i = 1
         \/ outbox[s][i] \in discarded'[s]
         \/ /\ i - n \in DOMAIN outbox'[s]
            /\ outbox'[s][i - n] = outbox[s][i]
<1>1. i \in Nat \ {0}
  BY Positions
<1>2. CASE i > n
  <2>1. i - n \in DOMAIN outbox'[s]
    BY <1>2 DEF Takes
  <2>2. (i - n) + n = i
    BY <1>1
  <2> QED
    BY <2>1, <2>2 DEF Takes
<1>3. CASE i # 1 /\ i \in 2..n
  BY <1>3 DEF Takes, HistoryTypes
<1> QED
  BY <1>1, <1>2, <1>3

(* What the goroutine and the dispatcher write to a publisher.              *)
LEMMA AckSends ==
  ASSUME TypeInv, NEW s \in ClientId, AckPublish(s)
  PROVE  /\ gpc[s] = "ack" /\ gpc'[s] = "read"
         /\ req[s].type = "PUBLISH" /\ req[s].msg \in Msg
         /\ UNCHANGED <<sessVars, dispVars, link, outbox, clientVars>>
         /\ \A k \in DOMAIN inbox[s] :
              k \in Nat /\ k \in DOMAIN inbox'[s] /\ inbox'[s][k] = inbox[s][k]
         /\ \A k \in DOMAIN inbox'[s] :
              \/ k \in DOMAIN inbox[s] /\ inbox'[s][k] = inbox[s][k]
              \/ /\ link[s] /\ k \in Nat
                 /\ inbox'[s][k].type # "PUBCOMP"
                 /\ inbox'[s][k].type = "PUBREC" =>
                      Qos[req[s].msg] = 2 /\ inbox'[s][k].pid = req[s].pid
                 /\ \A l \in DOMAIN inbox[s] : l < k
         /\ link[s] /\ Qos[req[s].msg] = 2 =>
              \E k \in DOMAIN inbox'[s] : IsPubrec(inbox'[s][k], req[s].pid)
<1>1. NetTypes /\ GoTypes /\ req[s].type = "PUBLISH" /\ req[s].msg \in Msg
  BY AckPublishWrites DEF TypeInv
<1>2. /\ gpc[s] = "ack" /\ gpc'[s] = "read"
      /\ UNCHANGED <<sessVars, dispVars, link, outbox, clientVars>>
  BY <1>1 DEF AckPublish, GoTypes
<1>3. CASE Qos[req[s].msg] = 0
  <2>1. inbox' = inbox
    BY <1>3, AckPublishWrites
  <2>2. \A k \in DOMAIN inbox[s] : k \in Nat
    BY <1>1, Positions
  <2> QED
    BY <1>1, <1>2, <1>3, <2>1, <2>2
<1>4. ASSUME NEW type \in {"PUBACK", "PUBREC"}, req[s].pid \in Pid,
             Write(s, <<Ack(type, req[s].pid)>>)
      PROVE  /\ \A k \in DOMAIN inbox[s] :
                  /\ k \in Nat /\ k \in DOMAIN inbox'[s]
                  /\ inbox'[s][k] = inbox[s][k]
             /\ \A k \in DOMAIN inbox'[s] :
                  \/ k \in DOMAIN inbox[s] /\ inbox'[s][k] = inbox[s][k]
                  \/ /\ link[s] /\ k \in Nat
                     /\ inbox'[s][k].type = type
                     /\ inbox'[s][k].pid = req[s].pid
                     /\ \A l \in DOMAIN inbox[s] : l < k
             /\ link[s] /\ type = "PUBREC" =>
                  \E k \in DOMAIN inbox'[s] :
                    IsPubrec(inbox'[s][k], req[s].pid)
  <2>1. /\ Ack(type, req[s].pid) \in Wire
        /\ Ack(type, req[s].pid).type = type
        /\ Ack(type, req[s].pid).pid = req[s].pid
    BY <1>4, PacketFacts DEF Ack, Acks
  <2>2. PICK p \in Wire :
          Write(s, <<p>>) /\ p.type = type /\ p.pid = req[s].pid
    BY <1>4, <2>1
  <2> QED
    BY <1>1, <1>2, <2>2, WriteElements DEF IsPubrec
<1>5. CASE Qos[req[s].msg] = 1
  BY <1>1, <1>2, <1>4, <1>5, AckPublishWrites
<1>6. CASE Qos[req[s].msg] = 2
  BY <1>1, <1>2, <1>4, <1>6, AckPublishWrites
<1>7. Qos[req[s].msg] \in 0..2
  BY <1>1, MsgFacts
<1> QED
  BY <1>3, <1>5, <1>6, <1>7

LEMMA ReleaseSends ==
  ASSUME TypeInv, NEW s \in ClientId, BeginRelease, dmsg.from = s
  PROVE  /\ dpc = "lock" /\ dmsg.type = "PUBREL" /\ dmsg.pid \in Pid
         /\ PubStatus[s][dmsg.pid] = "PUBREL"
         /\ PubStatus' = [PubStatus EXCEPT ![s][dmsg.pid] = "none"]
         /\ UNCHANGED <<CacheMsg, goVars, link, outbox, clientVars>>
         /\ \A k \in DOMAIN inbox[s] :
              k \in Nat /\ k \in DOMAIN inbox'[s] /\ inbox'[s][k] = inbox[s][k]
         /\ \A k \in DOMAIN inbox'[s] :
              \/ k \in DOMAIN inbox[s] /\ inbox'[s][k] = inbox[s][k]
              \/ /\ link[s] /\ k \in Nat
                 /\ inbox'[s][k].type = "PUBCOMP"
                 /\ inbox'[s][k].pid = dmsg.pid
                 /\ \A l \in DOMAIN inbox[s] : l < k
                 /\ k = Len(inbox[s]) + 1
<1>1. NetTypes /\ dpc = "lock" /\ dmsg.type = "PUBREL"
  BY DEF TypeInv, BeginRelease, Processing
<1>2. dmsg.pid \in Pid
  BY <1>1, HandFacts DEF Acks
<1>3. /\ Ack("PUBCOMP", dmsg.pid) \in Wire
      /\ Ack("PUBCOMP", dmsg.pid).type = "PUBCOMP"
      /\ Ack("PUBCOMP", dmsg.pid).pid = dmsg.pid
  BY <1>2, PacketFacts DEF Ack, Acks
<1>4. PICK p \in Wire : /\ Write(s, <<p>>)
                        /\ p.type = "PUBCOMP" /\ p.pid = dmsg.pid
  BY <1>3 DEF BeginRelease, Complete
<1>5. /\ PubStatus[s][dmsg.pid] = "PUBREL"
      /\ PubStatus' = [PubStatus EXCEPT ![s][dmsg.pid] = "none"]
      /\ UNCHANGED <<CacheMsg, goVars, link, outbox, clientVars>>
  BY DEF BeginRelease, Complete, SetStatus
<1> QED
  BY <1>1, <1>2, <1>4, <1>5, WriteElements

(* A PUBREL comes into the dispatcher's hand from a goroutine.              *)
LEMMA RelHandStep ==
  ASSUME [Next]_vars, NEW s \in ClientId, NEW id, RelInHand(s, id)'
  PROVE  \/ RelInHand(s, id)
         \/ /\ DispatchRecv(s) /\ dpc = "select"
            /\ gpc[s] = "send" /\ IsPubrel(req[s], id)
<1>1. ASSUME NEW t \in ClientId,
             \/ Client(t) \/ Goroutine(t) \/ Connect(t) \/ Drop(t)
             \/ \E m \in Msg, x \in ClientPid \cup {NoPid} :
                  ClientPublish(t, m, x)
      PROVE  RelInHand(s, id)
  BY <1>1 DEF Client, ClientReceive, ClientReleased, ClientPubRec,
     ClientPubDone, Goroutine, Read, AckPublish, Exit, Connect, Drop,
     ClientPublish, dispVars, RelInHand
<1>2. ASSUME NEW t \in ClientId, DispatchRecv(t)
      PROVE  /\ DispatchRecv(s) /\ dpc = "select"
             /\ gpc[s] = "send" /\ IsPubrel(req[s], id)
  BY <1>2 DEF DispatchRecv, RelInHand, IsPubrel
<1>3. ASSUME NEW m \in Msg, ClusterRecv(m) PROVE RelInHand(s, id)
  BY <1>3 DEF ClusterRecv, NoReq, RelInHand, IsPubrel
<1>4. CASE Dispatcher \/ UNCHANGED vars
  <2>1. dpc' = "lock" => dpc = "lock" /\ dmsg' = dmsg
    BY <1>4 DEF Dispatcher, BeginPublish, BeginCluster, BeginRelease,
       ProcessPubAck, ProcessPubRec, ProcessPubComp, DropAck, VisitPublish,
       VisitRelease, Visiting, DrawAgain, EndLoop, Loop, Unlock, dispVars,
       vars
  <2> QED
    BY <2>1 DEF RelInHand
<1> QED
  BY <1>1, <1>2, <1>3, <1>4 DEF Next, Idle

LEMMA AckHandStep ==
  ASSUME TypeInv, AckHandInv, [Next]_vars
  PROVE  AckHandInv'
<1> SUFFICES ASSUME NEW s \in ClientId, NEW id \in Pid, gpc'[s] = "ack",
                    RelInHand(s, id)'
             PROVE  FALSE
  BY DEF AckHandInv
<1>1. ASSUME gpc[s] # "ack" PROVE DispatchRecv(s) /\ dmsg'.type = "PUBLISH"
  <2>1. GoTypes
    BY DEF TypeInv
  <2>2. gpc'[s] = gpc[s] \/ DispatchRecv(s)
    <3>1. ASSUME NEW t \in ClientId,
                 \/ Client(t) \/ Drop(t)
                 \/ \E m \in Msg, x \in ClientPid \cup {NoPid} :
                      ClientPublish(t, m, x)
          PROVE  gpc' = gpc
      BY <3>1 DEF Client, ClientReceive, ClientReleased, ClientPubRec,
         ClientPubDone, Drop, ClientPublish, goVars
    <3>2. ASSUME NEW t \in ClientId,
                 Goroutine(t) \/ Connect(t) \/ DispatchRecv(t)
          PROVE  gpc'[s] = gpc[s] \/ DispatchRecv(s)
      BY <1>1, <2>1, <3>2 DEF Goroutine, Read, AckPublish, Exit, Connect,
         DispatchRecv, GoTypes
    <3>3. ASSUME \/ Dispatcher \/ UNCHANGED vars
                 \/ \E m \in Msg : ClusterRecv(m)
          PROVE  gpc' = gpc
      BY <3>3 DEF ClusterRecv, Dispatcher, BeginPublish, BeginCluster,
         BeginRelease, ProcessPubAck, ProcessPubRec, ProcessPubComp, DropAck,
         VisitPublish, VisitRelease, DrawAgain, EndLoop, goVars, vars
    <3> QED
      BY <3>1, <3>2, <3>3 DEF Next, Idle
  <2> QED
    BY <1>1, <2>1, <2>2 DEF DispatchRecv, GoTypes
<1>2. dmsg'.type = "PUBREL"
  BY DEF RelInHand, IsPubrel
<1>3. gpc[s] = "ack"
  BY <1>1, <1>2
<1> QED
  BY <1>3, RelHandStep DEF AckHandInv

(* A PUBREL goes out when its PUBREC came in.                               *)
LEMMA PubrecAheadStep ==
  ASSUME TypeInv, TypeInv', FlowInv, BasicInv, AckHandInv, PubrecAheadInv,
         [Next]_vars
  PROVE  PubrecAheadInv'
<1> SUFFICES ASSUME NEW s \in ClientId, NEW id \in Pid, PubrecIn(s, id)'
             PROVE  NoPubrelAhead(s, id)' /\ ~ RelInHand(s, id)'
  BY DEF PubrecAheadInv
<1>1. /\ NetTypes /\ NetTypes' /\ GoTypes
      /\ PubrecIn(s, id) => NoPubrelAhead(s, id)
      /\ PubrecIn(s, id) => ~ RelInHand(s, id)'
  <2>1. PubrecIn(s, id) => ~ RelInHand(s, id)'
    BY RelHandStep DEF PubrecAheadInv, NoPubrelAhead
  <2> QED
    BY <2>1 DEF TypeInv, PubrecAheadInv
<1>2. CASE UpSame(s)
  BY <1>1, <1>2, UpFacts
<1>3. ASSUME NEW x \in Msg, NEW xid \in ClientPid \cup {NoPid},
             ClientPublish(s, x, xid)
      PROVE  NoPubrelAhead(s, id)' /\ ~ RelInHand(s, id)'
  <2>1. Publish(x, xid).type # "PUBREL"
    BY DEF Publish
  <2>2. PubrecIn(s, id)
    BY <1>3, PublishSends DEF PubrecIn
  <2> QED
    BY <1>1, <1>3, <2>1, <2>2, PublishSends
    DEF NoPubrelAhead, IsPubrel, goVars
<1>4. CASE ClientPubRec(s)
  <2>1. PubrecIn(s, id)
    BY <1>4, PubRecSends DEF PubrecIn
  <2>2. ~ IsPubrec(inbox[s][1], id)
    BY <1>4, PubRecSends DEF FlowInv, PubrecInv, PubrecIn, IsPubrec
  <2>3. inbox[s][1].pid # id
    BY <1>4, <2>2, PubRecSends DEF IsPubrec
  <2> QED
    BY <1>1, <1>4, <2>1, <2>3, PubRecSends
    DEF NoPubrelAhead, IsPubrel, goVars
<1>5. CASE ClientPubDone(s)
  <2>1. PubrecIn(s, id)
    BY <1>5, PubDoneTakes DEF PubrecIn
  <2> QED
    BY <1>1, <1>5, <2>1, PubDoneTakes DEF NoPubrelAhead, goVars
<1>6. CASE Drop(s) \/ Connect(s)
  <2>1. CASE Drop(s)
    BY <1>1, <2>1 DEF Drop, PubrecIn, NetTypes
  <2>2. CASE Connect(s)
    BY <2>2, ConnectCopies DEF PubrecIn, IsPubrec
  <2> QED
    BY <1>6, <2>1, <2>2
<1>7. CASE Read(s)
  <2>1. PubrecIn(s, id)
    BY <1>7 DEF Read, PubrecIn
  <2> QED
    <3>1. PICK n \in Nat : Takes(s, n)
      BY <1>1, <1>7, ReadElements
    <3> QED
      BY <1>1, <1>7, <2>1, <3>1 DEF NoPubrelAhead, GoTypes, Takes
<1>8. CASE AckPublish(s)
  <2>1. gpc'[s] # "send" /\ outbox' = outbox
    BY <1>8, AckSends
  <2>2. ASSUME Qos[req[s].msg] = 2, req[s].pid = id
        PROVE  NoPubrelAhead(s, id)' /\ ~ RelInHand(s, id)'
    <3>1. gpc[s] = "ack" /\ IsPublish2(req[s]) /\ UNCHANGED dispVars
      BY <1>8, <2>2, AckSends DEF IsPublish2
    <3>2. ~ RelInHand(s, id)'
      BY <3>1 DEF AckHandInv, RelInHand, dispVars
    <3> QED
      BY <2>1, <2>2, <3>1, <3>2 DEF FlowInv, RequestInv, NoPubrelAhead
  <2>3. ASSUME PubrecIn(s, id)
        PROVE  NoPubrelAhead(s, id)' /\ ~ RelInHand(s, id)'
    BY <1>1, <2>1, <2>3 DEF NoPubrelAhead
  <2> QED
    BY <1>8, <2>2, <2>3, AckSends DEF PubrecIn, IsPubrec
<1>9. CASE DispatchRecv(s)
  BY <1>1, <1>9 DEF DispatchRecv, PubrecIn, NoPubrelAhead, GoTypes, netVars
<1>10. CASE BeginRelease /\ dmsg.from = s
  <2>1. PubrecIn(s, id)
    BY <1>10, ReleaseSends DEF PubrecIn, IsPubrec
  <2> QED
    BY <1>1, <1>10, <2>1, ReleaseSends DEF NoPubrelAhead, goVars
<1> QED
  BY <1>2, <1>3, <1>4, <1>5, <1>6, <1>7, <1>8, <1>9, <1>10, UpSteps
  DEF UpCases, BasicInv

(* A PUBLISH is not forgotten while its connection is up.                   *)
LEMMA OnItsWayStep ==
  ASSUME TypeInv, TypeInv', FlowInv, BasicInv, OnItsWayInv, [Next]_vars
  PROVE  OnItsWayInv'
<1> SUFFICES ASSUME NEW m \in Msg, OnItsWay(m)
             PROVE  OnItsWay(m)'
  BY DEF OnItsWayInv
<1> SUFFICES ASSUME NEW s \in ClientId, s = Publisher[m], Qos[m] = 2,
                    pstate'[m] = "sent", link'[s], ~ PublishDropped(m)'
             PROVE  \/ InOutbox(s, m)' \/ InRequest(s, m)'
                    \/ \E k \in DOMAIN inbox'[s] :
                         IsPubrec(inbox'[s][k], ppid'[m])
  <2>1. pstate'[m] = "sent" => Publisher[m] \in ClientId
    <3>1. BegunInv'
      BY BegunStep DEF BasicInv
    <3> QED
      BY <3>1 DEF BegunInv, Begun
  <2> QED
    BY <2>1 DEF OnItsWay, PubrecIn
<1> DEFINE Goal ==
      \/ InOutbox(s, m)' \/ InRequest(s, m)'
      \/ \E k \in DOMAIN inbox'[s] : IsPubrec(inbox'[s][k], ppid'[m])
<1>1. /\ NetTypes /\ NetTypes' /\ GoTypes /\ HistoryTypes
      /\ pstate[m] = "sent" /\ link[s] =>
           InOutbox(s, m) \/ InRequest(s, m) \/ PubrecIn(s, ppid[m])
  <2>1. HistoryTypes /\ ~ PublishDropped(m)
    BY DroppedStays DEF BasicInv
  <2> QED
    BY <2>1 DEF TypeInv, OnItsWay
<1>2. ASSUME UpSame(s) PROVE Goal
  <2>1. pstate[m] = "sent" /\ link[s] /\ ppid'[m] = ppid[m]
    BY <1>2 DEF UpSame, ProgressSame
  <2>2. PubrecIn(s, ppid[m]) =>
          \E k \in DOMAIN inbox'[s] : IsPubrec(inbox'[s][k], ppid[m])
    <3> DEFINE id == ppid[m]
    <3>1. PICK d \in {0, 1} : InboxShift(s, d)
      BY <1>2 DEF UpSame, InboxSame
    <3> QED
      BY <3>1 DEF InboxShift, Back, PubrecIn, IsPubrec
  <2> QED
    BY <1>1, <1>2, <2>1, <2>2, UpFacts
<1>3. ASSUME NEW x \in Msg, NEW id \in ClientPid \cup {NoPid},
             ClientPublish(s, x, id)
      PROVE  Goal
  <2>0. \A i \in DOMAIN outbox[s] : i \in DOMAIN outbox'[s]
    BY <1>3, PublishSends
  <2>1. CASE x = m
    <3>1. Publish(x, id).type = "PUBLISH" /\ Publish(x, id).msg = x
      BY DEF Publish
    <3>2. /\ Len(outbox[s]) + 1 \in DOMAIN outbox'[s]
          /\ outbox'[s][Len(outbox[s]) + 1] = Publish(x, id)
      BY <1>3, PublishSends
    <3> QED
      BY <2>1, <3>1, <3>2 DEF InOutbox, IsPublish
  <2>2. CASE x # m
    <3>1. pstate[m] = "sent" /\ link[s] /\ ppid'[m] = ppid[m]
      BY <1>3, <2>2, PublishSends DEF TypeInv, ClientTypes
    <3>2. UNCHANGED <<inbox, gpc, req>>
      BY <1>3, PublishSends DEF goVars
    <3> QED
      BY <1>1, <1>3, <2>0, <3>1, <3>2, PublishSends
      DEF InOutbox, InRequest, PubrecIn
  <2> QED
    BY <2>1, <2>2
<1>4. ASSUME ClientPubRec(s) PROVE Goal
  <2>1. /\ pstate[m] = "sent" /\ ppid'[m] = ppid[m]
        /\ inbox[s][1].pid # ppid[m]
    BY <1>4, PubRecProgress, PubRecSends
  <2>2. UNCHANGED <<link, gpc, req>>
    BY <1>4, PubRecSends DEF goVars
  <2>3. InOutbox(s, m) => InOutbox(s, m)'
    BY <1>4, PubRecSends DEF InOutbox
  <2> QED
    BY <1>1, <1>4, <2>1, <2>2, <2>3, PubRecSends
    DEF InRequest, PubrecIn, IsPubrec
<1>5. ASSUME ClientPubDone(s) PROVE Goal
  <2>1. pstate[m] = "sent" /\ ppid'[m] = ppid[m]
    BY <1>5, PubDoneProgress
  <2>2. UNCHANGED <<link, gpc, req, outbox>>
    BY <1>5, PubDoneTakes DEF goVars
  <2> QED
    BY <1>1, <1>5, <2>1, <2>2, PubDoneTakes
    DEF InOutbox, InRequest, PubrecIn, IsPubrec
<1>6. ASSUME Drop(s) PROVE Goal
  BY <1>1, <1>6 DEF Drop, NetTypes
<1>7. ASSUME Connect(s) PROVE Goal
  <2>1. m \in Unfinished(s) /\ pstate[m] = "sent"
    BY <1>7 DEF Connect, clientVars, Unfinished
  <2>2. \E i \in DOMAIN outbox'[s] : IsPublish(outbox'[s][i], m)
    BY <1>7, <2>1, ConnectSends
  <2> QED
    BY <2>2 DEF InOutbox
<1>8. ASSUME Read(s) PROVE Goal
  <2>0. PICK n \in Nat : Takes(s, n)
    BY <1>1, <1>8, ReadElements
  <2>1. /\ UNCHANGED <<link, inbox, pstate, ppid>> /\ ~ InRequest(s, m)
        /\ gpc'[s] = "send" /\ req'[s] = outbox[s][1]
    BY <1>1, <1>8, <2>0
    DEF Read, clientVars, InRequest, GoTypes, Takes
  <2>2. ASSUME InOutbox(s, m) PROVE InRequest(s, m)' \/ InOutbox(s, m)'
    <3>1. PICK i \in DOMAIN outbox[s] : IsPublish(outbox[s][i], m)
      BY <2>2 DEF InOutbox
    <3>2. outbox[s][i] \notin discarded'[s]
      BY <3>1, MessageDispatchAssumption DEF PublishDropped, IsPublish
    <3>3. CASE i = 1
      BY <2>1, <3>1, <3>3 DEF InRequest
    <3>4. CASE i # 1
      <4>1. /\ i - n \in DOMAIN outbox'[s]
            /\ outbox'[s][i - n] = outbox[s][i]
        BY <1>1, <2>0, <3>2, <3>4, ReadRest
      <4> QED
        BY <3>1, <4>1 DEF InOutbox
    <3> QED
      BY <3>3, <3>4
  <2> QED
    BY <1>1, <2>1, <2>2 DEF PubrecIn
<1>9. ASSUME AckPublish(s) PROVE Goal
  <2>1. UNCHANGED <<link, outbox, pstate, ppid>>
    BY <1>9, AckSends DEF clientVars
  <2>2. InRequest(s, m) => /\ req[s].pid = ppid[m] /\ req[s].msg = m
    BY DEF InRequest, IsPublish, IsPublish2, FlowInv, RequestInv, Published
  <2>3. PubrecIn(s, ppid[m]) =>
          \E k \in DOMAIN inbox'[s] : IsPubrec(inbox'[s][k], ppid[m])
    BY <1>9, AckSends DEF PubrecIn
  <2> QED
    BY <1>1, <1>9, <2>1, <2>2, <2>3, AckSends DEF InOutbox
<1>10. ASSUME DispatchRecv(s) PROVE Goal
  <2>1. UNCHANGED <<link, inbox, outbox, pstate, ppid>>
    BY <1>10 DEF DispatchRecv, netVars, clientVars
  <2>2. InRequest(s, m) => InRequest(s, m)'
    BY <1>1, <1>10 DEF DispatchRecv, InRequest, IsPublish, GoTypes
  <2> QED
    BY <1>1, <2>1, <2>2 DEF InOutbox, PubrecIn
<1>11. ASSUME BeginRelease, dmsg.from = s PROVE Goal
  <2>1. UNCHANGED <<link, outbox, gpc, req, pstate, ppid>>
    BY <1>11, ReleaseSends DEF goVars, clientVars
  <2> QED
    BY <1>1, <1>11, <2>1, ReleaseSends
    DEF InOutbox, InRequest, PubrecIn
<1> QED
  BY <1>2, <1>3, <1>4, <1>5, <1>6, <1>7, <1>8, <1>9, <1>10, <1>11, UpSteps
  DEF UpCases, BasicInv

(* PUBRECs are written in the order of the publishes.                       *)
LEMMA PubrecOrderStep ==
  ASSUME TypeInv, TypeInv', FlowInv, BasicInv, OutboxOrderInv,
         PubrecOrderInv, [Next]_vars
  PROVE  PubrecOrderInv'
<1> SUFFICES ASSUME NEW m \in Msg, NEW n \in Msg, Before(m, n),
                    Qos[m] = 2, Qos[n] = 2,
                    pstate'[m] = "sent", pstate'[n] = "sent"
             PROVE  AnsweredAfter(m, n)'
  BY DEF PubrecOrderInv, Before
<1> DEFINE s == Publisher[m]
<1>1. /\ s \in ClientId /\ Publisher[n] = s /\ m # n
      /\ NetTypes /\ NetTypes' /\ GoTypes
      /\ pstate[m] = "sent" /\ pstate[n] = "sent" => AnsweredAfter(m, n)
      /\ OutboxOrder(m, n)
      /\ \A k \in DOMAIN inbox[s] : k \in Nat
      /\ \A k \in DOMAIN inbox'[s] : k \in Nat
  <2>1. s \in ClientId /\ Publisher[n] = s /\ m # n
    BY MsgFacts DEF Before
  <2>2. NetTypes /\ NetTypes' /\ GoTypes
    BY DEF TypeInv
  <2>3. /\ \A k \in DOMAIN inbox[s] : k \in Nat
        /\ \A k \in DOMAIN inbox'[s] : k \in Nat
    BY <2>1, <2>2 DEF NetTypes
  <2> QED
    BY <2>1, <2>2, <2>3 DEF PubrecOrderInv, OutboxOrderInv
<1> HIDE DEF s
<1> SUFFICES ASSUME NEW k \in DOMAIN inbox'[s],
                    IsPubrec(inbox'[s][k], ppid'[n])
             PROVE  /\ ~ InOutbox(s, m)' /\ ~ InRequest(s, m)'
                    /\ \A l \in DOMAIN inbox'[s] :
                         IsPubrec(inbox'[s][l], ppid'[m]) => l < k
  BY DEF AnsweredAfter, s
<1> DEFINE Goal ==
      /\ ~ InOutbox(s, m)' /\ ~ InRequest(s, m)'
      /\ \A l \in DOMAIN inbox'[s] :
           IsPubrec(inbox'[s][l], ppid'[m]) => l < k
\* Steps that leave both messages sent and write nothing to s.
<1>2. ASSUME pstate[m] = "sent", pstate[n] = "sent",
             ppid'[m] = ppid[m], ppid'[n] = ppid[n],
             InOutbox(s, m)' => InOutbox(s, m),
             InRequest(s, m)' => InRequest(s, m) \/ InOutbox(s, m),
             NEW d \in {0, 1},
             \A l \in DOMAIN inbox'[s] : inbox'[s][l].type = "PUBREC" =>
               l + d \in DOMAIN inbox[s] /\ inbox[s][l + d] = inbox'[s][l]
      PROVE  Goal
  <2>1. k + d \in DOMAIN inbox[s] /\ IsPubrec(inbox[s][k + d], ppid[n])
    BY <1>2 DEF IsPubrec
  <2>2. /\ ~ InOutbox(s, m) /\ ~ InRequest(s, m)
        /\ \A l \in DOMAIN inbox[s] :
             IsPubrec(inbox[s][l], ppid[m]) => l < k + d
    BY <1>1, <1>2, <2>1 DEF AnsweredAfter, s
  <2>3. ASSUME NEW l \in DOMAIN inbox'[s], IsPubrec(inbox'[s][l], ppid[m])
        PROVE  l < k
    <3>1. l + d \in DOMAIN inbox[s] /\ IsPubrec(inbox[s][l + d], ppid[m])
      BY <1>2, <2>3 DEF IsPubrec
    <3>2. l + d < k + d
      BY <2>2, <3>1
    <3> QED
      BY <1>1, <3>2
  <2> QED
    BY <1>2, <2>2, <2>3
<1>3. ASSUME UpSame(s) PROVE Goal
  <2>1. /\ pstate[m] = "sent" /\ pstate[n] = "sent"
        /\ ppid'[m] = ppid[m] /\ ppid'[n] = ppid[n]
    BY <1>1, <1>3 DEF UpSame, ProgressSame, s
  <2>2. PICK d \in {0, 1} : InboxShift(s, d)
    BY <1>3 DEF UpSame, InboxSame
  <2>3. \A l \in DOMAIN inbox'[s] : inbox'[s][l].type = "PUBREC" =>
          l + d \in DOMAIN inbox[s] /\ inbox[s][l + d] = inbox'[s][l]
    BY <2>2 DEF InboxShift, Back
  <2>4. (InOutbox(s, m)' <=> InOutbox(s, m))
        /\ (InRequest(s, m)' <=> InRequest(s, m))
    BY <1>1, <1>3, UpFacts
  <2> QED
    BY <1>2, <2>1, <2>3, <2>4
<1>4. ASSUME NEW x \in Msg, NEW id \in ClientPid \cup {NoPid},
             ClientPublish(s, x, id)
      PROVE  Goal
  <2>1. UNCHANGED <<inbox, gpc, req>>
    BY <1>1, <1>4, PublishSends DEF goVars
  <2>2. x # m
    <3> SUFFICES ASSUME x = m PROVE FALSE
      OBVIOUS
    <3>1. Begun(n) /\ ~ Begun(m)
      BY <1>1, <1>4, PublishSends DEF Begun, TypeInv, ClientTypes
    <3> QED
      BY <3>1 DEF BasicInv, BegunInv
  <2>3. x # n
    <3> SUFFICES ASSUME x = n PROVE FALSE
      OBVIOUS
    <3>1. ppid'[n] = id /\ InFlight(s, id) = {}
      BY <1>1, <1>4, PublishSends DEF TypeInv, ClientTypes
    <3>2. \E w \in Msg : Publisher[w] = s /\ ppid[w] = id /\ pstate[w] = "sent"
      BY <1>1, <2>1, <3>1 DEF IsPubrec, FlowInv, PubrecInv
    <3> QED
      BY <3>1, <3>2 DEF InFlight
  <2>4. /\ pstate[m] = "sent" /\ pstate[n] = "sent"
        /\ ppid'[m] = ppid[m] /\ ppid'[n] = ppid[n]
    BY <1>1, <1>4, <2>2, <2>3, PublishSends DEF TypeInv, ClientTypes
  <2>5. InOutbox(s, m)' => InOutbox(s, m)
    <3>1. Publish(x, id).msg = x
      BY DEF Publish
    <3> QED
      BY <1>1, <1>4, <2>2, <3>1, PublishSends DEF InOutbox, IsPublish
  <2> QED
    BY <1>1, <1>2, <2>1, <2>4, <2>5 DEF InRequest
<1>5. ASSUME ClientPubRec(s) PROVE Goal
  <2>1. /\ pstate[m] = "sent" /\ pstate[n] = "sent"
        /\ ppid'[m] = ppid[m] /\ ppid'[n] = ppid[n]
    BY <1>1, <1>5, PubRecProgress
  <2>2. InOutbox(s, m)' => InOutbox(s, m)
    BY <1>1, <1>5, PubRecSends DEF InOutbox, IsPublish, IsPubrel
  <2>3. InRequest(s, m)' => InRequest(s, m)
    BY <1>1, <1>5, PubRecSends DEF InRequest, goVars
  <2> QED
    BY <1>1, <1>2, <1>5, <2>1, <2>2, <2>3, PubRecSends
<1>6. ASSUME ClientPubDone(s) PROVE Goal
  <2>1. /\ pstate[m] = "sent" /\ pstate[n] = "sent"
        /\ ppid'[m] = ppid[m] /\ ppid'[n] = ppid[n]
    BY <1>1, <1>6, PubDoneProgress
  <2>2. /\ InOutbox(s, m)' => InOutbox(s, m)
        /\ InRequest(s, m)' => InRequest(s, m)
    BY <1>1, <1>6, PubDoneTakes DEF InOutbox, InRequest, goVars
  <2> QED
    BY <1>1, <1>2, <1>6, <2>1, <2>2, PubDoneTakes
<1>7. ASSUME Drop(s) \/ Connect(s) PROVE Goal
  <2>1. CASE Drop(s)
    BY <1>1, <2>1 DEF Drop, NetTypes
  <2>2. CASE Connect(s)
    BY <1>1, <2>2, ConnectCopies DEF IsPubrec
  <2> QED
    BY <1>7, <2>1, <2>2
<1>8. ASSUME Read(s) PROVE Goal
  <2>0. PICK d \in Nat : Takes(s, d)
    BY <1>1, <1>8, ReadElements
  <2>1. UNCHANGED <<inbox, pstate, ppid>>
    BY <1>8 DEF Read, clientVars
  <2>2. InOutbox(s, m)' => InOutbox(s, m)
    BY <1>1, <2>0 DEF InOutbox, Takes
  <2>3. InRequest(s, m)' => InOutbox(s, m)
    BY <1>1, <2>0 DEF InOutbox, InRequest, GoTypes, Takes
  <2> QED
    BY <1>1, <1>2, <2>1, <2>2, <2>3
<1>9. ASSUME AckPublish(s) PROVE Goal
  <2>1. /\ UNCHANGED <<outbox, pstate, ppid>> /\ ~ InRequest(s, m)'
        /\ pstate[m] = "sent" /\ pstate[n] = "sent"
    BY <1>1, <1>9, AckSends DEF clientVars, InRequest
  <2>2. ppid[m] # ppid[n]
    BY <1>1, <2>1 DEF FlowInv, IdsInv, s
  <2>3. ASSUME NEW l \in DOMAIN inbox'[s], inbox'[s][l].type = "PUBREC",
               l \notin DOMAIN inbox[s], NEW w \in {m, n},
               inbox'[s][l].pid = ppid[w]
        PROVE  InRequest(s, w)
    <3>1. /\ gpc[s] = "ack" /\ IsPublish2(req[s]) /\ req[s].pid = ppid[w]
          /\ req[s].msg \in Msg
      BY <1>1, <1>9, <2>3, AckSends DEF IsPublish2
    <3>2. Published(s, req[s]) /\ pstate[req[s].msg] = "sent"
      BY <1>1, <3>1 DEF FlowInv, RequestInv
    <3>3. req[s].msg = w
      BY <1>1, <2>1, <3>1, <3>2 DEF FlowInv, IdsInv, Published, s
    <3> QED
      BY <3>1, <3>3 DEF InRequest, IsPublish, IsPublish2
  <2>4. CASE k \in DOMAIN inbox[s]
    <3>1. IsPubrec(inbox[s][k], ppid[n])
      BY <1>1, <1>9, <2>1, <2>4, AckSends
    <3>2. /\ ~ InOutbox(s, m) /\ ~ InRequest(s, m)
          /\ \A l \in DOMAIN inbox[s] :
               IsPubrec(inbox[s][l], ppid[m]) => l < k
      BY <1>1, <2>1, <2>4, <3>1 DEF AnsweredAfter, s
    <3>3. ASSUME NEW l \in DOMAIN inbox'[s], IsPubrec(inbox'[s][l], ppid[m])
          PROVE  l < k
      <4>1. l \in DOMAIN inbox[s]
        BY <2>3, <3>2, <3>3 DEF IsPubrec
      <4> QED
        BY <1>1, <1>9, <3>2, <3>3, <4>1, AckSends
    <3> QED
      BY <2>1, <3>2, <3>3 DEF InOutbox
  <2>5. CASE k \notin DOMAIN inbox[s]
    <3>1. InRequest(s, n)
      BY <2>1, <2>3, <2>5 DEF IsPubrec
    <3>2. ~ InOutbox(s, m) /\ ~ InRequest(s, m)
      BY <1>1, <3>1 DEF OutboxOrder, InRequest, IsPublish, s
    <3>3. ASSUME NEW l \in DOMAIN inbox'[s], IsPubrec(inbox'[s][l], ppid[m])
          PROVE  l < k
      <4>1. l \in DOMAIN inbox[s]
        BY <2>3, <3>2, <3>3 DEF IsPubrec
      <4> QED
        BY <1>1, <1>9, <2>5, <4>1, AckSends
    <3> QED
      BY <2>1, <3>2, <3>3 DEF InOutbox
  <2> QED
    BY <2>4, <2>5
<1>10. ASSUME DispatchRecv(s) PROVE Goal
  <2>1. UNCHANGED <<inbox, outbox, pstate, ppid>>
    BY <1>10 DEF DispatchRecv, netVars, clientVars
  <2>2. InRequest(s, m)' => InRequest(s, m)
    BY <1>1, <1>10 DEF DispatchRecv, InRequest, GoTypes
  <2> QED
    BY <1>1, <1>2, <2>1, <2>2 DEF InOutbox
<1>11. ASSUME BeginRelease, dmsg.from = s PROVE Goal
  <2>1. UNCHANGED <<outbox, gpc, req, pstate, ppid>>
    BY <1>1, <1>11, ReleaseSends DEF goVars, clientVars
  <2>2. \A l \in DOMAIN inbox'[s] : inbox'[s][l].type = "PUBREC" =>
          l + 0 \in DOMAIN inbox[s] /\ inbox[s][l + 0] = inbox'[s][l]
    BY <1>1, <1>11, ReleaseSends
  <2> QED
    BY <1>1, <1>2, <2>1, <2>2 DEF InOutbox, InRequest
<1> QED
  BY <1>1, <1>3, <1>4, <1>5, <1>6, <1>7, <1>8, <1>9, <1>10, <1>11, UpSteps
  DEF UpCases, BasicInv

(* A client gets the PUBREC of an earlier message before that of a later.   *)
LEMMA ReleasedStep ==
  ASSUME TypeInv, BasicInv, SentInv, [Next]_vars
  PROVE  ReleasedInv'
<1> SUFFICES ASSUME NEW m \in Msg, NEW n \in Msg, InTurn(m, n),
                    Qos[m] = 2, Qos[n] = 2, Released(n)'
             PROVE  Released(m)'
  BY InTurnStep DEF ReleasedInv, BasicInv
<1> USE DEF InTurn
<1>1. /\ Released(n) => Released(m)
      /\ Publisher[m] \in ClientId /\ Publisher[n] = Publisher[m]
  BY DEF SentInv, ReleasedInv, Before
<1>2. ASSUME NEW s \in ClientId, NEW x \in Msg,
             NEW id \in ClientPid \cup {NoPid}, ClientPublish(s, x, id)
      PROVE  Released(m)'
  BY <1>1, <1>2, PublishSends DEF Released, TypeInv, ClientTypes
<1>3. CASE Still
  BY <1>1, <1>3 DEF Still, Released
<1>4. ASSUME NEW s \in ClientId, ClientPubDone(s)
      PROVE  Released(m)'
  BY <1>1, <1>4, PubDoneProgress DEF Released
<1>5. ASSUME NEW s \in ClientId, ClientPubRec(s)
      PROVE  Released(m)'
  <2>1. CASE Released(n)
    BY <1>1, <1>5, <2>1, PubRecProgress DEF Released
  <2>2. CASE ~ Released(n)
    <3>1. /\ Publisher[n] = s /\ ppid[n] = Head(inbox[s]).pid
          /\ pstate[n] = "sent"
      BY <1>5, <2>2, PubRecProgress DEF Released
    <3>2. 1 \in DOMAIN inbox[s] /\ IsPubrec(inbox[s][1], ppid[n])
      BY <1>5, <3>1, PubRecSends DEF IsPubrec
    <3>3. Begun(m)
      BY <3>1 DEF BasicInv, BegunInv, Begun
    <3>4. ASSUME pstate[m] = "sent" PROVE FALSE
      <4>1. link[s]
        BY <1>5 DEF BasicInv, ConnInv, ClientPubRec, Arriving
      <4>2. AnsweredAfter(m, n) /\ OnItsWay(m)
        BY <3>1, <3>4 DEF SentInv, PubrecOrderInv, OnItsWayInv
      <4>3. \E l \in DOMAIN inbox[s] :
              IsPubrec(inbox[s][l], ppid[m]) /\ l < 1
        BY <1>1, <3>1, <3>2, <3>4, <4>1, <4>2
        DEF AnsweredAfter, OnItsWay, PubrecIn
      <4>4. \A l \in DOMAIN inbox[s] : l \in Nat /\ l >= 1
        BY Positions DEF TypeInv
      <4> QED
        BY <4>3, <4>4
    <3>5. Released(m)
      BY <3>3, <3>4 DEF Begun, Released, TypeInv, ClientTypes
    <3> QED
      BY <1>5, <3>5, PubRecProgress DEF Released
  <2> QED
    BY <2>1, <2>2
<1> QED
  BY <1>2, <1>3, <1>4, <1>5, StillSteps

LEMMA SentStep ==
  ASSUME TypeInv, TypeInv', FlowInv, BasicInv, OutboxOrderInv, SentInv,
         [Next]_vars
  PROVE  SentInv'
  BY AckHandStep, PubrecAheadStep, OnItsWayStep, PubrecOrderStep, ReleasedStep
  DEF SentInv

-----------------------------------------------------------------------------
(* QoS 2: what the server keeps until its publisher releases it.            *)

IsPubcomp(p, id) == p.type = "PUBCOMP" /\ p.pid = id

\* The server has m and has yet to release it.
Kept(m) ==
  /\ Publisher[m] \in ClientId
  /\ \E id \in Pid : /\ PubStatus[Publisher[m]][id] = "PUBREL"
                     /\ CacheMsg[Publisher[m]][id] = m

InHand(m) == dpc = "lock" /\ IsPublish(dmsg, m)

Owed(m) == Kept(m) \/ InHand(m)

\* A publisher is not through with a message the server keeps ...
OwedInv ==
  \A m \in Msg : Qos[m] = 2 /\ Owed(m) => pstate[m] \in {"sent", "released"}

\* ... and a PUBCOMP, one only, is for a message released at both ends.
Completing(s, id) ==
  \E m \in Msg : /\ Publisher[m] = s /\ ppid[m] = id /\ Qos[m] = 2
                 /\ pstate[m] = "released" /\ ~ Owed(m)

PubcompInv ==
  \A s \in ClientId, id \in Pid : \A k \in DOMAIN inbox[s] :
    IsPubcomp(inbox[s][k], id) =>
      /\ \A l \in DOMAIN inbox[s] : IsPubcomp(inbox[s][l], id) => l = k
      /\ Completing(s, id)

KeptInv == OwedInv /\ PubcompInv

(* Entries become PUBREL when the dispatcher takes a QoS 2 message.         *)
LEMMA StatusSteps ==
  ASSUME TypeInv, [Next]_vars
  PROVE  StatusFrame \/ (BeginPublish /\ Qos[dmsg.msg] = 2)
<1> DEFINE s == dmsg.from
           id == dmsg.pid
<1>1. SessTypes
  BY DEF TypeInv
<1>2. UNCHANGED <<PubStatus, CacheMsg>> => StatusFrame
  BY DEF StatusFrame
<1>3. ASSUME s \in ClientId, id \in Pid, NEW status \in Status \ {"PUBREL"},
             SetStatus(s, id, status),
             \/ CacheMsg' = CacheMsg
             \/ CacheMsg' = [CacheMsg EXCEPT ![s][id] = 0]
      PROVE  StatusFrame
  BY <1>1, <1>3 DEF StatusFrame, SetStatus, SessTypes
<1>4. ASSUME NEW t \in ClientId,
             \/ Client(t) \/ Goroutine(t) \/ DispatchRecv(t) \/ Drop(t)
             \/ \E m \in Msg, x \in ClientPid \cup {NoPid} :
                  ClientPublish(t, m, x)
      PROVE  StatusFrame
  BY <1>2, <1>4 DEF Client, ClientReceive, ClientReleased, ClientPubRec,
     ClientPubDone, Goroutine, Read, AckPublish, Exit, DispatchRecv, Drop,
     ClientPublish, sessVars
<1>5. ASSUME NEW t \in ClientId, Connect(t) PROVE StatusFrame
  BY <1>1, <1>5 DEF Connect, StatusFrame, SessTypes
<1>6. CASE \/ BeginCluster \/ DropAck \/ EndLoop
           \/ BeginPublish /\ Qos[dmsg.msg] # 2
           \/ \E m \in Msg : ClusterRecv(m)
           \/ UNCHANGED vars
  BY <1>2, <1>6 DEF BeginCluster, DropAck, EndLoop, BeginPublish,
     ClusterRecv, sessVars, vars
<1>7. CASE BeginRelease \/ ProcessPubAck \/ ProcessPubRec \/ ProcessPubComp
  <2>1. s \in ClientId /\ id \in Pid
    BY <1>7, HandFacts DEF BeginRelease, ProcessPubAck, ProcessPubRec,
       ProcessPubComp, Processing, Acks
  <2>2. /\ CacheMsg' = CacheMsg \/ CacheMsg' = [CacheMsg EXCEPT ![s][id] = 0]
        /\ SetStatus(s, id, "none") \/ SetStatus(s, id, "PUBCOMP")
    BY <1>7 DEF BeginRelease, Complete, ProcessPubAck, ProcessPubRec,
       ProcessPubComp
  <2>3. {"none", "PUBCOMP"} \subseteq Status \ {"PUBREL"}
    BY DEF Status, Acks
  <2> QED
    BY <1>3, <2>1, <2>2, <2>3
<1>8. ASSUME NEW t \in ClientId, NEW x \in ServerPid,
             VisitPublish(t, x) \/ VisitRelease(t, x) \/ DrawAgain(t, x)
      PROVE  StatusFrame
  BY <1>2, <1>8, VisitStatus DEF DrawAgain, vars, sessVars
<1> QED
  BY <1>4, <1>5, <1>6, <1>7, <1>8 DEF Next, Dispatcher, Idle

\* Steps after which the dispatcher has no other publish in hand.
HandSteps ==
  \/ dpc' = "lock" /\ dmsg'.type = "PUBLISH" => dpc = "lock" /\ dmsg' = dmsg
  \/ \E s \in ClientId : DispatchRecv(s)

LEMMA HandStep ==
  ASSUME [Next]_vars
  PROVE  HandSteps
<1>1. ASSUME NEW t \in ClientId,
             \/ Client(t) \/ Goroutine(t) \/ Connect(t) \/ Drop(t)
             \/ \E m \in Msg, x \in ClientPid \cup {NoPid} :
                  ClientPublish(t, m, x)
      PROVE  HandSteps
  BY <1>1 DEF Client, ClientReceive, ClientReleased, ClientPubRec,
     ClientPubDone, Goroutine, Read, AckPublish, Exit, Connect, Drop,
     ClientPublish, dispVars, HandSteps
<1>2. ASSUME NEW m \in Msg, ClusterRecv(m) PROVE HandSteps
  BY <1>2 DEF ClusterRecv, NoReq, HandSteps
<1>3. CASE Dispatcher \/ UNCHANGED vars
  BY <1>3 DEF Dispatcher, BeginPublish, BeginCluster, BeginRelease,
     ProcessPubAck, ProcessPubRec, ProcessPubComp, DropAck, VisitPublish,
     VisitRelease, Visiting, DrawAgain, EndLoop, Loop, Unlock, dispVars,
     vars, HandSteps
<1> QED
  BY <1>1, <1>2, <1>3 DEF Next, Idle, HandSteps

(* What the server comes to owe was read from its publisher.                *)
LEMMA OwedStep ==
  ASSUME TypeInv, [Next]_vars, NEW m \in Msg, Owed(m)'
  PROVE  \/ Owed(m)
         \/ \E s \in ClientId : /\ DispatchRecv(s) /\ gpc[s] = "send"
                                /\ IsPublish(req[s], m) /\ InHand(m)'
<1>1. CASE InHand(m)'
  <2>1. ASSUME NEW s \in ClientId, DispatchRecv(s)
        PROVE  gpc[s] = "send" /\ IsPublish(req[s], m)
    BY <1>1, <2>1 DEF DispatchRecv, InHand, IsPublish
  <2> QED
    BY <1>1, <2>1, HandStep DEF HandSteps, InHand, Owed, IsPublish
<1>2. CASE Kept(m)'
  <2>1. CASE StatusFrame
    BY <1>2, <2>1 DEF StatusFrame, Kept, Owed
  <2>2. CASE BeginPublish /\ Qos[dmsg.msg] = 2
    <3>1. /\ SetStatus(dmsg.from, dmsg.pid, "PUBREL")
          /\ CacheMsg' = [CacheMsg EXCEPT ![dmsg.from][dmsg.pid] = dmsg.msg]
          /\ InHand(dmsg.msg)
      BY <2>2 DEF BeginPublish, InHand, IsPublish, Processing
    <3> QED
      BY <1>2, <3>1 DEF SetStatus, Kept, Owed, TypeInv, SessTypes
  <2> QED
    BY <2>1, <2>2, StatusSteps
<1> QED
  BY <1>1, <1>2 DEF Owed

LEMMA OwedNew ==
  ASSUME TypeInv, FlowInv, OriginInv, [Next]_vars, NEW m \in Msg,
         Qos[m] = 2, Owed(m)'
  PROVE  Owed(m) \/ pstate[m] = "sent"
<1>1. ASSUME NEW s \in ClientId, gpc[s] = "send", IsPublish(req[s], m)
      PROVE  pstate[m] = "sent"
  BY <1>1 DEF FlowInv, RequestInv, IsPublish, IsPublish2
<1> QED
  BY <1>1, OwedStep

LEMMA OwedInvStep ==
  ASSUME TypeInv, FlowInv, OriginInv, KeptInv, [Next]_vars
  PROVE  OwedInv'
<1> SUFFICES ASSUME NEW m \in Msg, Qos[m] = 2, Owed(m)'
             PROVE  pstate'[m] \in {"sent", "released"}
  BY DEF OwedInv
<1>1. /\ Owed(m) \/ pstate[m] = "sent"
      /\ pstate[m] \in {"sent", "released"}
  BY OwedNew DEF KeptInv, OwedInv
<1>2. ASSUME NEW s \in ClientId, NEW x \in Msg,
             NEW id \in ClientPid \cup {NoPid}, ClientPublish(s, x, id)
      PROVE  pstate'[m] = pstate[m]
  BY <1>1, <1>2, PublishSends DEF TypeInv, ClientTypes
<1>3. ASSUME NEW s \in ClientId, ClientPubDone(s), pstate'[m] # pstate[m]
      PROVE  FALSE
  <2>1. /\ Publisher[m] = s /\ ppid[m] = inbox[s][1].pid
        /\ 1 \in DOMAIN inbox[s] /\ inbox[s][1].pid \in Pid
        /\ IsPubcomp(inbox[s][1], ppid[m]) /\ pstate[m] = "released"
    BY <1>3, PubDoneProgress, PubDoneTakes DEF IsPubcomp
  <2>2. Completing(s, ppid[m])
    BY <2>1 DEF KeptInv, PubcompInv
  <2>3. ~ Owed(m)
    BY <2>1, <2>2 DEF Completing, FlowInv, IdsInv
  <2> QED
    BY <1>1, <2>1, <2>3
<1> QED
  BY <1>1, <1>2, <1>3, StillSteps, PubRecProgress DEF Still

(* A flow that completes is not opened again while its PUBCOMP is on the    *)
(* way.                                                                     *)
LEMMA CompletingStays ==
  ASSUME TypeInv, FlowInv, OriginInv, [Next]_vars,
         NEW s \in ClientId, NEW id \in Pid, Completing(s, id),
         ClientPubDone(s) =>
           ~ (inbox[s][1].type = "PUBCOMP" /\ inbox[s][1].pid = id)
  PROVE  Completing(s, id)'
<1>1. PICK m \in Msg : /\ Publisher[m] = s /\ ppid[m] = id /\ Qos[m] = 2
                       /\ pstate[m] = "released" /\ ~ Owed(m)
  BY DEF Completing
<1>2. ~ Owed(m)'
  BY <1>1, OwedNew
<1>3. ASSUME NEW t \in ClientId, NEW x \in Msg,
             NEW xid \in ClientPid \cup {NoPid}, ClientPublish(t, x, xid)
      PROVE  pstate'[m] = pstate[m] /\ ppid'[m] = ppid[m]
  BY <1>1, <1>3, PublishSends DEF TypeInv, ClientTypes
<1>4. ASSUME NEW t \in ClientId, ClientPubDone(t)
      PROVE  pstate'[m] = pstate[m] /\ ppid'[m] = ppid[m]
  BY <1>1, <1>4, PubDoneProgress, PubDoneTakes
<1>5. pstate'[m] = "released" /\ ppid'[m] = id
  BY <1>1, <1>3, <1>4, StillSteps, PubRecProgress DEF Still
<1> QED
  BY <1>1, <1>2, <1>5 DEF Completing

(* A PUBCOMP is written when a message the server keeps is released.        *)
LEMMA PubcompNew ==
  ASSUME TypeInv, FlowInv, KeptInv,
         NEW s \in ClientId, BeginRelease, dmsg.from = s,
         NEW id \in Pid, dmsg.pid = id
  PROVE  /\ Completing(s, id)'
         /\ \A l \in DOMAIN inbox[s] : ~ IsPubcomp(inbox[s][l], id)
<1>1. /\ dpc = "lock" /\ dmsg.type = "PUBREL"
      /\ PubStatus[s][id] = "PUBREL"
      /\ PubStatus' = [PubStatus EXCEPT ![s][id] = "none"]
      /\ UNCHANGED <<CacheMsg, pstate, ppid>>
  BY ReleaseSends DEF clientVars
<1>2. PICK m \in Msg : /\ m = CacheMsg[s][id]
                       /\ Qos[m] = 2 /\ Publisher[m] = s /\ ppid[m] = id
                       /\ pstate[m] # "sent"
  BY <1>1 DEF FlowInv, CacheInv, IsPubrel
<1>3. Kept(m)
  BY <1>1, <1>2 DEF Kept
<1>4. pstate[m] = "released"
  BY <1>2, <1>3 DEF KeptInv, OwedInv, Owed
<1>5. dpc' # "lock"
  BY DEF BeginRelease, Loop, Unlock
<1>6. ~ Kept(m)'
  <2> SUFFICES ASSUME NEW x \in Pid, PubStatus'[s][x] = "PUBREL",
                      CacheMsg[s][x] = m
               PROVE  FALSE
    BY <1>1, <1>2 DEF Kept
  <2>1. x # id /\ PubStatus[s][x] = "PUBREL"
    BY <1>1 DEF TypeInv, SessTypes
  <2>2. ppid[m] = x
    BY <2>1 DEF FlowInv, CacheInv
  <2> QED
    BY <1>2, <2>1, <2>2
<1>7. Completing(s, id)'
  BY <1>1, <1>2, <1>4, <1>5, <1>6 DEF Completing, Owed, InHand
<1>8. ASSUME NEW l \in DOMAIN inbox[s], IsPubcomp(inbox[s][l], id)
      PROVE  FALSE
  <2>1. PICK w \in Msg : /\ Publisher[w] = s /\ ppid[w] = id
                         /\ pstate[w] = "released" /\ ~ Owed(w)
    BY <1>8 DEF KeptInv, PubcompInv, Completing
  <2>2. w = m
    BY <1>2, <1>4, <2>1 DEF FlowInv, IdsInv
  <2> QED
    BY <1>3, <2>1, <2>2 DEF Owed
<1> QED
  BY <1>7, <1>8

LEMMA PubcompStep ==
  ASSUME TypeInv, TypeInv', FlowInv, BasicInv, KeptInv, [Next]_vars
  PROVE  PubcompInv'
<1> SUFFICES ASSUME NEW s \in ClientId, NEW id \in Pid,
                    NEW k \in DOMAIN inbox'[s], IsPubcomp(inbox'[s][k], id)
             PROVE  /\ \A l \in DOMAIN inbox'[s] :
                         IsPubcomp(inbox'[s][l], id) => l = k
                    /\ Completing(s, id)'
  BY DEF PubcompInv
<1> DEFINE Goal == /\ \A l \in DOMAIN inbox'[s] :
                        IsPubcomp(inbox'[s][l], id) => l = k
                   /\ Completing(s, id)'
<1>1. /\ NetTypes /\ NetTypes' /\ GoTypes /\ OriginInv
      /\ \A l \in DOMAIN inbox[s] : l \in Nat
      /\ \A l \in DOMAIN inbox'[s] : l \in Nat \ {0}
  <2>1. NetTypes /\ NetTypes' /\ GoTypes /\ OriginInv
    BY DEF TypeInv, BasicInv
  <2> QED
    BY <2>1 DEF NetTypes
\* Steps that write no PUBCOMP to s.
<1>2. ASSUME NEW d \in {0, 1}, ClientPubDone(s) => d = 1,
             \A l \in DOMAIN inbox'[s] : inbox'[s][l].type = "PUBCOMP" =>
               l + d \in DOMAIN inbox[s] /\ inbox[s][l + d] = inbox'[s][l]
      PROVE  Goal
  <2>1. k + d \in DOMAIN inbox[s] /\ IsPubcomp(inbox[s][k + d], id)
    BY <1>2 DEF IsPubcomp
  <2>2. /\ Completing(s, id)
        /\ \A l \in DOMAIN inbox[s] : IsPubcomp(inbox[s][l], id) => l = k + d
    BY <2>1 DEF KeptInv, PubcompInv
  <2>3. ASSUME ClientPubDone(s)
        PROVE  ~ (inbox[s][1].type = "PUBCOMP" /\ inbox[s][1].pid = id)
    <3>1. 1 \in DOMAIN inbox[s] /\ k + d # 1
      BY <1>1, <1>2, <2>3, PubDoneTakes
    <3> QED
      BY <2>2, <3>1 DEF IsPubcomp
  <2>4. Completing(s, id)'
    BY <1>1, <2>2, <2>3, CompletingStays
  <2>5. ASSUME NEW l \in DOMAIN inbox'[s], IsPubcomp(inbox'[s][l], id)
        PROVE  l = k
    <3>1. l + d \in DOMAIN inbox[s] /\ IsPubcomp(inbox[s][l + d], id)
      BY <1>2, <2>5 DEF IsPubcomp
    <3>2. l + d = k + d
      BY <2>2, <3>1
    <3> QED
      BY <1>1, <3>2
  <2> QED
    BY <2>4, <2>5
<1>3. ASSUME ClientPubDone(s) \/ ClientPubRec(s) PROVE Goal
  <2>1. \A l \in DOMAIN inbox'[s] :
          l + 1 \in DOMAIN inbox[s] /\ inbox[s][l + 1] = inbox'[s][l]
    BY <1>3, PubDoneTakes, PubRecSends
  <2> QED
    BY <1>2, <2>1
<1>4. ASSUME UpSame(s), ~ ClientPubDone(s) PROVE Goal
  <2>1. PICK d \in {0, 1} : InboxShift(s, d)
    BY <1>4 DEF UpSame, InboxSame
  <2> QED
    BY <1>2, <1>4, <2>1 DEF InboxShift, Back
<1>5. ASSUME ~ ClientPubDone(s),
             \/ \E x \in Msg, xid \in ClientPid \cup {NoPid} :
                  ClientPublish(s, x, xid)
             \/ Read(s) \/ DispatchRecv(s)
      PROVE  Goal
  <2>1. inbox' = inbox
    BY <1>5 DEF ClientPublish, Read, DispatchRecv, netVars
  <2>2. \A l \in DOMAIN inbox'[s] :
          l + 0 \in DOMAIN inbox[s] /\ inbox[s][l + 0] = inbox'[s][l]
    BY <1>1, <2>1
  <2> QED
    BY <1>2, <1>5, <2>2
<1>6. ASSUME Drop(s) \/ Connect(s) PROVE Goal
  <2>1. CASE Drop(s)
    BY <1>1, <2>1 DEF Drop, NetTypes
  <2>2. CASE Connect(s)
    BY <2>2, ConnectCopies DEF IsPubcomp
  <2> QED
    BY <1>6, <2>1, <2>2
<1>7. ASSUME AckPublish(s), ~ ClientPubDone(s) PROVE Goal
  <2>1. \A l \in DOMAIN inbox'[s] : inbox'[s][l].type = "PUBCOMP" =>
          l + 0 \in DOMAIN inbox[s] /\ inbox[s][l + 0] = inbox'[s][l]
    BY <1>1, <1>7, AckSends
  <2> QED
    BY <1>2, <1>7, <2>1
<1>8. ASSUME BeginRelease, dmsg.from = s PROVE Goal
  <2>0. ~ ClientPubDone(s)
    BY <1>8 DEF BeginRelease, ClientPubDone, Loop, Unlock, dispVars,
       Processing
  <2>1. CASE dmsg.pid # id
    <3>1. \A l \in DOMAIN inbox'[s] : IsPubcomp(inbox'[s][l], id) =>
            l \in DOMAIN inbox[s] /\ inbox[s][l] = inbox'[s][l]
      BY <1>8, <2>1, ReleaseSends DEF IsPubcomp
    <3>2. Completing(s, id)
      BY <3>1 DEF KeptInv, PubcompInv
    <3>3. \A l \in DOMAIN inbox'[s] : IsPubcomp(inbox'[s][l], id) => l = k
      BY <3>1 DEF KeptInv, PubcompInv
    <3> QED
      BY <1>1, <2>0, <3>2, <3>3, CompletingStays
  <2>2. CASE dmsg.pid = id
    <3>1. /\ Completing(s, id)'
          /\ \A l \in DOMAIN inbox[s] : ~ IsPubcomp(inbox[s][l], id)
      BY <1>8, <2>2, PubcompNew
    <3>2. \A l \in DOMAIN inbox'[s] : IsPubcomp(inbox'[s][l], id) =>
            l = Len(inbox[s]) + 1
      BY <1>8, <3>1, ReleaseSends
    <3> QED
      BY <3>1, <3>2
  <2> QED
    BY <2>1, <2>2
<1> HIDE DEF Goal
<1>9. ASSUME ~ ClientPubDone(s) PROVE Goal
  BY <1>3, <1>4, <1>5, <1>6, <1>7, <1>8, <1>9, UpSteps DEF UpCases, BasicInv
<1> QED
  BY <1>3, <1>9 DEF Goal

LEMMA KeptStep ==
  ASSUME TypeInv, TypeInv', FlowInv, BasicInv, KeptInv, [Next]_vars
  PROVE  KeptInv'
  BY OwedInvStep, PubcompStep DEF KeptInv, BasicInv

-----------------------------------------------------------------------------
(* QoS 2: PUBRELs come to the dispatcher in the order of the publishes.     *)

RelInRequest(s, id) == gpc[s] = "send" /\ IsPubrel(req[s], id)
RelInOutbox(s, id)  == \E i \in DOMAIN outbox[s] : IsPubrel(outbox[s][i], id)

\* m is released by its publisher and not yet by the server.
Due(m) == Qos[m] = 2 /\ Owed(m) /\ pstate[m] = "released"

\* On a connection that is up, the PUBREL for what is due is on its way,
\* unless a Read dropped it.
RelOnItsWay(m) ==
  LET s == Publisher[m]
      id == ppid[m]
  IN  Due(m) /\ link[s] =>
        \/ RelInHand(s, id) \/ RelInRequest(s, id) \/ RelInOutbox(s, id)
        \/ ReleaseDropped(m)

RelOnItsWayInv == \A m \in Msg : RelOnItsWay(m)

BothReleased(m, n) ==
  /\ InTurn(m, n) /\ Qos[m] = 2 /\ Qos[n] = 2
  /\ pstate[m] = "released" /\ pstate[n] = "released"

RelSentOrder(m, n) ==
  \A i, j \in DOMAIN outbox[Publisher[m]] :
    /\ IsPubrel(outbox[Publisher[m]][i], ppid[m])
    /\ IsPubrel(outbox[Publisher[m]][j], ppid[n])
    => i < j

RelSentOrderInv == \A m, n \in Msg : BothReleased(m, n) => RelSentOrder(m, n)

\* As long as m is due, the dispatcher does not get the PUBREL for n.
RelTakenOrder(m, n) ==
  LET s == Publisher[m] IN
  /\ ~ RelInHand(s, ppid[n])
  /\ RelInRequest(s, ppid[n]) => RelInHand(s, ppid[m])

RelTakenOrderInv ==
  \A m, n \in Msg : BothReleased(m, n) /\ Due(m) => RelTakenOrder(m, n)

PubrelInv == RelOnItsWayInv /\ RelSentOrderInv /\ RelTakenOrderInv

(* A message becomes released when its publisher gets the PUBREC for it.    *)
LEMMA ReleasedNew ==
  ASSUME TypeInv, [Next]_vars, NEW m \in Msg, Qos[m] = 2,
         pstate'[m] = "released"
  PROVE  /\ ppid'[m] = ppid[m]
         /\ \/ pstate[m] = "released"
            \/ /\ pstate[m] = "sent"
               /\ \E s \in ClientId :
                    /\ ClientPubRec(s) /\ Publisher[m] = s
                    /\ 1 \in DOMAIN inbox[s]
                    /\ IsPubrec(inbox[s][1], ppid[m])
<1> DEFINE Goal ==
      /\ ppid'[m] = ppid[m]
      /\ \/ pstate[m] = "released"
         \/ /\ pstate[m] = "sent"
            /\ \E s \in ClientId :
                 /\ ClientPubRec(s) /\ Publisher[m] = s
                 /\ 1 \in DOMAIN inbox[s] /\ IsPubrec(inbox[s][1], ppid[m])
<1>1. ASSUME NEW s \in ClientId, NEW x \in Msg,
             NEW id \in ClientPid \cup {NoPid}, ClientPublish(s, x, id)
      PROVE  Goal
  BY <1>1, PublishSends DEF TypeInv, ClientTypes
<1>2. ASSUME NEW s \in ClientId, ClientPubDone(s) PROVE Goal
  BY <1>2, PubDoneProgress
<1>3. ASSUME NEW s \in ClientId, ClientPubRec(s) PROVE Goal
  <2>1. ASSUME pstate[m] # "released"
        PROVE  /\ Publisher[m] = s /\ ppid[m] = Head(inbox[s]).pid
               /\ pstate[m] = "sent"
    BY <1>3, <2>1, PubRecProgress
  <2> QED
    BY <1>3, <2>1, PubRecProgress, PubRecSends DEF IsPubrec
<1>4. CASE Still
  BY <1>4 DEF Still
<1> QED
  BY <1>1, <1>2, <1>3, <1>4, StillSteps

(* What is due was due, or its publisher just released it.                  *)
LEMMA DueNew ==
  ASSUME TypeInv, FlowInv, OriginInv, [Next]_vars, NEW m \in Msg, Due(m)'
  PROVE  Due(m) \/ (pstate[m] = "sent" /\ Qos[m] = 2)
<1>1. Qos[m] = 2 /\ Owed(m)' /\ pstate'[m] = "released"
  BY DEF Due
<1> QED
  BY <1>1, OwedNew, ReleasedNew DEF Due

(* The PUBREL of what is due is in the dispatcher's hand until it releases  *)
(* the message.                                                             *)
LEMMA DueInHand ==
  ASSUME TypeInv, FlowInv, [Next]_vars, NEW m \in Msg,
         NEW s \in ClientId, s = Publisher[m],
         Due(m), Due(m)', RelInHand(s, ppid[m])
  PROVE  RelInHand(s, ppid[m])' /\ ppid'[m] = ppid[m]
<1>1. /\ Qos[m] = 2 /\ Kept(m) /\ dpc = "lock" /\ dmsg.from = s
      /\ dmsg.type = "PUBREL" /\ dmsg.pid = ppid[m] /\ dmsg.pid \in Pid
      /\ pstate'[m] = "released"
  <2>1. dpc = "lock" /\ dmsg.type = "PUBREL"
    BY DEF RelInHand, IsPubrel
  <2> QED
    BY <2>1, HandFacts DEF RelInHand, IsPubrel, Due, Owed, InHand, IsPublish,
       Acks
<1>2. PICK id \in Pid : PubStatus[s][id] = "PUBREL" /\ CacheMsg[s][id] = m
  BY <1>1 DEF Kept
<1>3. id = ppid[m]
  BY <1>2 DEF FlowInv, CacheInv
<1>4. ppid'[m] = ppid[m]
  BY <1>1, ReleasedNew
<1>5. ~ BeginRelease
  <2> SUFFICES ASSUME BeginRelease PROVE FALSE
    OBVIOUS
  <2>1. /\ PubStatus' = [PubStatus EXCEPT ![s][id] = "none"]
        /\ UNCHANGED CacheMsg /\ dpc' # "lock"
    BY <1>1, <1>3 DEF BeginRelease, Complete, SetStatus, Loop, Unlock
  <2>2. Kept(m)'
    BY <2>1 DEF Due, Owed, InHand
  <2>3. PICK x \in Pid : PubStatus'[s][x] = "PUBREL" /\ CacheMsg[s][x] = m
    BY <2>1, <2>2 DEF Kept
  <2>4. x # id /\ PubStatus[s][x] = "PUBREL"
    BY <1>2, <2>1, <2>3 DEF TypeInv, SessTypes
  <2> QED
    BY <1>3, <2>3, <2>4 DEF FlowInv, CacheInv
<1>6. ~ DropAck
  BY <1>1, <1>2, <1>3 DEF DropAck
<1>7. dpc' = dpc /\ dmsg' = dmsg
  <2>1. ASSUME NEW t \in ClientId,
               \/ Client(t) \/ Goroutine(t) \/ Connect(t) \/ Drop(t)
               \/ DispatchRecv(t)
               \/ \E w \in Msg, x \in ClientPid \cup {NoPid} :
                    ClientPublish(t, w, x)
        PROVE  dpc' = dpc /\ dmsg' = dmsg
    BY <1>1, <2>1 DEF Client, ClientReceive, ClientReleased, ClientPubRec,
       ClientPubDone, Goroutine, Read, AckPublish, Exit, Connect, Drop,
       DispatchRecv, ClientPublish, dispVars
  <2>2. ASSUME NEW w \in Msg, ClusterRecv(w) PROVE FALSE
    BY <1>1, <2>2 DEF ClusterRecv
  <2>3. CASE Dispatcher \/ UNCHANGED vars
    BY <1>1, <1>5, <1>6, <2>3 DEF Dispatcher, BeginPublish, BeginCluster,
       ProcessPubAck, ProcessPubRec, ProcessPubComp, VisitPublish,
       VisitRelease, Visiting, DrawAgain, EndLoop, Processing, dispVars, vars
  <2> QED
    BY <2>1, <2>2, <2>3 DEF Next, Idle
<1> QED
  BY <1>1, <1>4, <1>7 DEF RelInHand, IsPubrel

(* The PUBREL of what is due does not get lost.                             *)
LEMMA RelOnItsWayStep ==
  ASSUME TypeInv, TypeInv', FlowInv, BasicInv, RelOnItsWayInv, [Next]_vars
  PROVE  RelOnItsWayInv'
<1> SUFFICES ASSUME NEW m \in Msg, Due(m)', NEW s \in ClientId,
                    s = Publisher[m], link'[s], NEW id, id = ppid'[m],
                    ~ ReleaseDropped(m)'
             PROVE  RelInHand(s, id)' \/ RelInRequest(s, id)'
                      \/ RelInOutbox(s, id)'
  <2>1. ASSUME NEW m \in Msg, Owed(m)' PROVE Publisher[m] \in ClientId
    <3>1. \A s \in ClientId : gpc[s] = "send" /\ IsPublish(req[s], m) =>
            Publisher[m] \in ClientId
      BY DEF BasicInv, OriginInv, Own, IsPublish
    <3>2. Owed(m) => Publisher[m] \in ClientId
      BY DEF BasicInv, OriginInv, BegunInv, Own, Owed, Kept, InHand, IsPublish
    <3> QED
      BY <2>1, <3>1, <3>2, OwedStep
  <2> QED
    BY <2>1 DEF RelOnItsWayInv, RelOnItsWay, Due
<1> DEFINE Goal == RelInHand(s, id)' \/ RelInRequest(s, id)'
                     \/ RelInOutbox(s, id)'
<1>1. /\ NetTypes /\ GoTypes /\ OriginInv /\ HistoryTypes /\ Qos[m] = 2
      /\ pstate'[m] = "released" /\ ~ ReleaseDropped(m)
  BY DroppedStays DEF TypeInv, BasicInv, Due
<1>2. id = ppid[m]
  BY <1>1, ReleasedNew
<1>3. ASSUME pstate[m] = "sent" PROVE Goal
  <2>1. ClientPubRec(s) /\ IsPubrec(inbox[s][1], id)
    BY <1>1, <1>2, <1>3, ReleasedNew
  <2>2. IsPubrel(outbox'[s][Len(outbox[s]) + 1], id)
        /\ Len(outbox[s]) + 1 \in DOMAIN outbox'[s]
    BY <2>1, PubRecSends DEF IsPubrec
  <2> QED
    BY <2>2 DEF RelInOutbox
<1>4. ASSUME Due(m), RelInHand(s, id) PROVE Goal
  BY <1>2, <1>4, DueInHand
<1>5. ASSUME Due(m), Connect(s) PROVE Goal
  <2>1. m \in Unfinished(s) /\ pstate[m] = "released"
    BY <1>5 DEF Due, Unfinished
  <2>2. \E i \in DOMAIN outbox'[s] : IsPubrel(outbox'[s][i], id)
    BY <1>2, <1>5, <2>1, ConnectSends DEF IsPubrel
  <2> QED
    BY <2>2 DEF RelInOutbox
\* What is left: the PUBREL is on the connection.
<1>6. ASSUME Due(m), link[s], ~ RelInHand(s, id), ~ Connect(s) PROVE Goal
  <2>1. RelInRequest(s, id) \/ RelInOutbox(s, id)
    BY <1>1, <1>2, <1>6 DEF RelOnItsWayInv, RelOnItsWay
  <2>2. CASE UpSame(s)
    BY <2>1, <2>2 DEF UpSame, OutboxSame, RequestSame, Forth, IsPubrel,
       RelInRequest, RelInOutbox
  <2>3. ASSUME NEW x \in Msg, NEW xid \in ClientPid \cup {NoPid},
               ClientPublish(s, x, xid)
        PROVE  Goal
    BY <2>1, <2>3, PublishSends DEF RelInRequest, RelInOutbox, goVars
  <2>4. CASE ClientPubRec(s)
    BY <2>1, <2>4, PubRecSends DEF RelInRequest, RelInOutbox, goVars
  <2>5. CASE ClientPubDone(s)
    BY <2>1, <2>5, PubDoneTakes DEF RelInRequest, RelInOutbox, goVars
  <2>6. CASE Drop(s)
    BY <1>1, <2>6 DEF Drop, NetTypes
  <2>7. CASE Read(s)
    <3>0. PICK n \in Nat : Takes(s, n)
      BY <1>1, <2>7, ReadElements
    <3>1. /\ gpc'[s] = "send" /\ req'[s] = outbox[s][1]
          /\ gpc[s] = "read" /\ UNCHANGED <<pstate, ppid>>
      BY <1>1, <2>7, <3>0 DEF Read, GoTypes, Takes, clientVars
    <3>2. PICK i \in DOMAIN outbox[s] : IsPubrel(outbox[s][i], id)
      BY <2>1, <3>1 DEF RelInRequest, RelInOutbox
    <3>4. outbox[s][i] \notin discarded'[s]
      BY <1>1, <3>2, MessageDispatchAssumption
      DEF ReleaseDropped, Dropped, IsPubrel
    <3>5. CASE i = 1
      BY <3>1, <3>2, <3>5 DEF RelInRequest
    <3>6. CASE i # 1
      <4>1. /\ i - n \in DOMAIN outbox'[s]
            /\ outbox'[s][i - n] = outbox[s][i]
        BY <1>1, <3>0, <3>4, <3>6, ReadRest
      <4> QED
        BY <3>2, <4>1 DEF RelInOutbox
    <3> QED
      BY <3>5, <3>6
  <2>8. CASE AckPublish(s)
    BY <2>1, <2>8, AckSends DEF RelInRequest, RelInOutbox
  <2>9. CASE DispatchRecv(s)
    <3>1. /\ outbox' = outbox /\ dpc' = "lock" /\ dmsg'.from = s
          /\ dmsg'.type = req[s].type /\ dmsg'.pid = req[s].pid
      BY <2>9 DEF DispatchRecv, netVars
    <3> QED
      BY <2>1, <3>1 DEF RelInRequest, RelInOutbox, RelInHand, IsPubrel
  <2>10. CASE BeginRelease /\ dmsg.from = s
    BY <2>1, <2>10, ReleaseSends DEF RelInRequest, RelInOutbox, goVars
  <2> QED
    BY <1>6, <2>2, <2>3, <2>4, <2>5, <2>6, <2>7, <2>8, <2>9, <2>10, UpSteps
    DEF UpCases, BasicInv
<1>7. link[s] \/ Connect(s)
  <2>1. CASE UpSame(s)
    BY <2>1 DEF UpSame
  <2>2. ASSUME NEW x \in Msg, NEW xid \in ClientPid \cup {NoPid},
               ClientPublish(s, x, xid)
        PROVE  link[s]
    BY <2>2 DEF ClientPublish
  <2>3. CASE \/ ClientPubRec(s) \/ ClientPubDone(s) \/ Drop(s) \/ Read(s)
             \/ AckPublish(s) \/ DispatchRecv(s) \/ BeginRelease
    BY <2>3 DEF ClientPubRec, ClientPubDone, Drop, Read, AckPublish,
       DispatchRecv, BeginRelease, netVars
  <2> QED
    BY <2>1, <2>2, <2>3, UpSteps DEF UpCases, BasicInv
<1> HIDE DEF Goal
<1>8. Goal
  BY <1>1, <1>3, <1>4, <1>5, <1>6, <1>7, DueNew
<1> QED
  BY <1>8 DEF Goal

(* PUBRELs go out in the order of the publishes.                            *)
LEMMA RelSentOrderStep ==
  ASSUME TypeInv, TypeInv', FlowInv, BasicInv, SentInv, RelSentOrderInv,
         [Next]_vars
  PROVE  RelSentOrderInv'
<1> SUFFICES ASSUME NEW m \in Msg, NEW n \in Msg, InTurn(m, n),
                    Qos[m] = 2, Qos[n] = 2,
                    pstate'[m] = "released", pstate'[n] = "released"
             PROVE  RelSentOrder(m, n)'
  BY InTurnStep DEF RelSentOrderInv, BothReleased, BasicInv
<1> USE DEF InTurn
<1> SUFFICES ASSUME NEW s \in ClientId, s = Publisher[m],
                    NEW i \in DOMAIN outbox'[s], NEW j \in DOMAIN outbox'[s],
                    IsPubrel(outbox'[s][i], ppid'[m]),
                    IsPubrel(outbox'[s][j], ppid'[n])
             PROVE  i < j
  BY DEF RelSentOrder, Before
<1>1. /\ NetTypes /\ GoTypes /\ Publisher[n] = s /\ m \in Nat /\ n \in Nat
      /\ m < n
      /\ ppid'[m] = ppid[m] /\ ppid'[n] = ppid[n]
      /\ pstate[m] \in {"sent", "released"}
      /\ pstate[n] \in {"sent", "released"}
      /\ i \in Nat /\ j \in Nat
  <2>1. NetTypes /\ NetTypes' /\ GoTypes
    BY DEF TypeInv
  <2>2. i \in Nat /\ j \in Nat
    BY <2>1 DEF NetTypes
  <2> QED
    BY <2>1, <2>2, ReleasedNew, MsgFacts DEF Before
<1>2. ppid[m] # ppid[n]
  BY <1>1 DEF FlowInv, IdsInv
<1>3. ASSUME pstate[m] = "released", pstate[n] = "released",
             NEW d \in Nat,
             \A k \in DOMAIN outbox'[s] : outbox'[s][k].type = "PUBREL" =>
               k + d \in DOMAIN outbox[s] /\ outbox[s][k + d] = outbox'[s][k]
      PROVE  i < j
  <2>1. /\ i + d \in DOMAIN outbox[s] /\ IsPubrel(outbox[s][i + d], ppid[m])
        /\ j + d \in DOMAIN outbox[s] /\ IsPubrel(outbox[s][j + d], ppid[n])
    BY <1>1, <1>3 DEF IsPubrel
  <2>2. i + d < j + d
    BY <1>3, <2>1 DEF RelSentOrderInv, BothReleased, RelSentOrder
  <2> QED
    BY <1>1, <2>2
<1>4. CASE ClientPubRec(s)
  <2> DEFINE id == inbox[s][1].pid
  <2>1. /\ \A w \in {m, n} : pstate[w] = "sent" => ppid[w] = id
        /\ \A w \in {m, n} : Publisher[w] = s
    BY <1>1, <1>4, PubRecProgress, PubRecSends
  <2>2. PICK w \in Msg : Publisher[w] = s /\ ppid[w] = id /\ pstate[w] = "sent"
    BY <1>4, PubRecSends DEF FlowInv, PubrecInv
  <2>3. \A v \in {m, n} : ppid[v] = id => v = w
    BY <1>1, <2>1, <2>2 DEF FlowInv, IdsInv
  <2>4. pstate[m] = "released"
    <3> SUFFICES ASSUME pstate[m] = "sent" PROVE FALSE
      BY <1>1
    <3>1. pstate[n] = "released"
      BY <1>1, <1>2, <2>1
    <3> QED
      BY <3>1 DEF SentInv, ReleasedInv, Released
  <2>5. ppid[m] # id
    BY <2>2, <2>3, <2>4
  <2>6. /\ i \in DOMAIN outbox[s] /\ outbox[s][i] = outbox'[s][i]
        /\ DOMAIN outbox[s] = 1..Len(outbox[s]) /\ Len(outbox[s]) \in Nat
    <3>1. IsPubrel(outbox'[s][Len(outbox[s]) + 1], id)
      BY <1>4, PubRecSends
    <3>2. i # Len(outbox[s]) + 1
      BY <1>1, <2>5, <3>1 DEF IsPubrel
    <3> QED
      BY <1>4, <3>2, PubRecSends
  <2>7. CASE j = Len(outbox[s]) + 1
    BY <2>6, <2>7
  <2>8. CASE j \in DOMAIN outbox[s]
    <3>1. outbox[s][j] = outbox'[s][j]
      BY <1>4, <2>8, PubRecSends
    <3>2. CASE pstate[n] = "released"
      BY <1>1, <2>4, <2>6, <2>8, <3>1, <3>2
      DEF RelSentOrderInv, BothReleased, RelSentOrder
    <3>3. CASE pstate[n] = "sent"
      <4>1. PubrecIn(s, ppid[n])
        BY <1>4, <2>1, <3>3, PubRecSends DEF PubrecIn, IsPubrec
      <4>2. ppid[n] \in Pid
        BY <1>4, <2>1, <3>3, PubRecSends
      <4>3. NoPubrelAhead(s, ppid[n])
        BY <4>1, <4>2 DEF SentInv, PubrecAheadInv
      <4> QED
        BY <1>1, <2>8, <3>1, <4>3 DEF NoPubrelAhead
    <3> QED
      BY <1>1, <3>2, <3>3
  <2> QED
    BY <1>4, <2>7, <2>8, PubRecSends
<1>5. ASSUME ~ ClientPubRec(s)
      PROVE  pstate[m] = "released" /\ pstate[n] = "released"
  BY <1>1, <1>5, ReleasedNew
<1>6. CASE UpSame(s) /\ ~ ClientPubRec(s)
  <2>1. \A k \in DOMAIN outbox'[s] : outbox'[s][k].type = "PUBREL" =>
          k \in DOMAIN outbox[s] /\ outbox[s][k] = outbox'[s][k]
    BY <1>6 DEF UpSame, OutboxSame, Forth
  <2>2. \A k \in DOMAIN outbox[s] : k + 0 = k
    BY <1>1, Positions
  <2> QED
    BY <1>3, <1>5, <1>6, <2>1, <2>2
<1>7. ASSUME ~ ClientPubRec(s), NEW x \in Msg,
             NEW xid \in ClientPid \cup {NoPid}, ClientPublish(s, x, xid)
      PROVE  i < j
  <2>1. Publish(x, xid).type # "PUBREL"
    BY DEF Publish
  <2>2. \A k \in DOMAIN outbox'[s] : outbox'[s][k].type = "PUBREL" =>
          k \in DOMAIN outbox[s] /\ outbox[s][k] = outbox'[s][k]
    BY <1>7, <2>1, PublishSends
  <2>3. \A k \in DOMAIN outbox[s] : k + 0 = k
    BY <1>1, Positions
  <2> QED
    BY <1>3, <1>5, <1>7, <2>2, <2>3
<1>8. CASE /\ ~ ClientPubRec(s)
           /\ \/ ClientPubDone(s) \/ AckPublish(s) \/ DispatchRecv(s)
              \/ BeginRelease /\ dmsg.from = s
  <2>1. outbox' = outbox
    BY <1>8, PubDoneTakes, AckSends DEF DispatchRecv, BeginRelease, netVars
  <2>2. \A k \in DOMAIN outbox[s] : k + 0 = k
    BY <1>1, Positions
  <2> QED
    BY <1>3, <1>5, <1>8, <2>1, <2>2
<1>9. CASE Drop(s)
  BY <1>1, <1>9 DEF Drop, NetTypes
<1>10. CASE Connect(s)
  <2>1. PICK q \in Again(s) :
           /\ DOMAIN outbox'[s] = DOMAIN q
           /\ \A k, l \in DOMAIN q : k < l <=> q[k] < q[l]
           /\ \A k \in DOMAIN q :
                /\ q[k] \in Msg /\ Publisher[q[k]] = s
                /\ pstate[q[k]] \in {"sent", "released"}
                /\ outbox'[s][k].pid = ppid[q[k]]
    BY <1>10, ConnectSends
  <2>2. \A k \in DOMAIN q, w \in {m, n} :
          outbox'[s][k].pid = ppid[w] => q[k] = w
    <3> SUFFICES ASSUME NEW k \in DOMAIN q, NEW w \in {m, n},
                        outbox'[s][k].pid = ppid[w]
                 PROVE  q[k] = w
      OBVIOUS
    <3>1. /\ w \in Msg /\ Publisher[w] = s
          /\ pstate[w] \in {"sent", "released"}
      BY <1>1
    <3>2. /\ q[k] \in Msg /\ Publisher[q[k]] = s
          /\ pstate[q[k]] \in {"sent", "released"} /\ ppid[q[k]] = ppid[w]
      BY <2>1
    <3> QED
      BY <3>1, <3>2 DEF FlowInv, IdsInv
  <2> QED
    BY <1>1, <2>1, <2>2 DEF IsPubrel
<1>11. CASE Read(s) /\ ~ ClientPubRec(s)
  <2>1. PICK d \in Nat : Takes(s, d)
    BY <1>1, <1>11, ReadElements
  <2>2. \A k \in DOMAIN outbox'[s] :
          k + d \in DOMAIN outbox[s] /\ outbox[s][k + d] = outbox'[s][k]
    BY <2>1 DEF Takes
  <2> QED
    BY <1>3, <1>5, <1>11, <2>2
<1> QED
  BY <1>4, <1>6, <1>7, <1>8, <1>9, <1>10, <1>11, UpSteps
  DEF UpCases, BasicInv

(* A goroutine reads one packet after the other.                            *)
LEMMA RelRead ==
  ASSUME TypeInv, BufferInv, [Next]_vars, NEW s \in ClientId, NEW id,
         RelInRequest(s, id)', ~ RelInRequest(s, id)
  PROVE  Read(s) /\ IsPubrel(outbox[s][1], id)
<1>1. GoTypes /\ NetTypes
  BY DEF TypeInv
<1>2. ASSUME UpSame(s) PROVE FALSE
  BY <1>2 DEF UpSame, RequestSame, RelInRequest
<1>3. ASSUME NEW x \in Msg, NEW xid \in ClientPid \cup {NoPid},
             ClientPublish(s, x, xid)
      PROVE  FALSE
  BY <1>3, PublishSends DEF goVars, RelInRequest
<1>4. ASSUME \/ ClientPubRec(s) \/ ClientPubDone(s) \/ Drop(s)
             \/ BeginRelease
      PROVE  FALSE
  BY <1>4 DEF ClientPubRec, ClientPubDone, Drop, BeginRelease, goVars,
     RelInRequest
<1>5. ASSUME Connect(s) \/ AckPublish(s) \/ DispatchRecv(s) PROVE FALSE
  BY <1>1, <1>5 DEF Connect, AckPublish, DispatchRecv, RelInRequest, GoTypes
<1>6. CASE Read(s)
  BY <1>1, <1>6, ReadElements DEF RelInRequest, GoTypes, Takes
<1> QED
  BY <1>2, <1>3, <1>4, <1>5, <1>6, UpSteps DEF UpCases

(* The dispatcher takes PUBRELs in the order of the publishes.              *)
LEMMA RelTakenOrderStep ==
  ASSUME TypeInv, TypeInv', FlowInv, BasicInv, SentInv, PubrelInv,
         [Next]_vars
  PROVE  RelTakenOrderInv'
<1> SUFFICES ASSUME NEW m \in Msg, NEW n \in Msg, InTurn(m, n),
                    Qos[m] = 2, Qos[n] = 2, Due(m)',
                    pstate'[m] = "released", pstate'[n] = "released"
             PROVE  RelTakenOrder(m, n)'
  BY InTurnStep DEF RelTakenOrderInv, BothReleased, BasicInv
<1> USE DEF InTurn
<1>1. PICK s \in ClientId : s = Publisher[m] /\ s = Publisher[n]
  BY DEF Before
<1>2. PICK pm, pn : /\ pm = ppid[m] /\ pm = ppid'[m]
                    /\ pn = ppid[n] /\ pn = ppid'[n]
  BY ReleasedNew
<1>3. /\ NetTypes /\ GoTypes /\ OriginInv /\ BufferInv
      /\ pstate[m] \in {"sent", "released"}
      /\ pstate[n] \in {"sent", "released"}
      /\ Due(m) \/ pstate[m] = "sent"
  BY ReleasedNew, DueNew DEF TypeInv, BasicInv
<1>4. m # n /\ pm # pn
  <2>1. m # n
    BY MsgFacts DEF Before
  <2> QED
    BY <1>1, <1>2, <1>3, <2>1 DEF FlowInv, IdsInv
<1> DEFINE Goal == /\ ~ RelInHand(s, pn)'
                   /\ RelInRequest(s, pn)' => RelInHand(s, pm)'
<1>5. ASSUME Due(m), pstate[n] = "released"
      PROVE  /\ ~ RelInHand(s, pn)
             /\ RelInRequest(s, pn) => RelInHand(s, pm)
  BY <1>1, <1>2, <1>5
  DEF PubrelInv, RelTakenOrderInv, BothReleased, RelTakenOrder, Due
<1>6. ASSUME ClientPubRec(s) PROVE Goal
  <2>1. UNCHANGED <<goVars, dispVars>>
    BY <1>6, PubRecSends
  <2>2. /\ pstate[m] = "sent" => pm = inbox[s][1].pid
        /\ pstate[n] = "sent" => pn = inbox[s][1].pid
    BY <1>1, <1>2, <1>6, PubRecProgress, PubRecSends
  <2>3. pstate[m] = "released"
    <3> SUFFICES ASSUME pstate[m] = "sent" PROVE FALSE
      BY <1>3
    <3>1. pstate[n] = "released"
      BY <1>3, <1>4, <2>2
    <3> QED
      BY <3>1 DEF SentInv, ReleasedInv, Released
  <2>4. CASE pstate[n] = "released"
    BY <1>3, <1>5, <2>1, <2>3, <2>4
    DEF RelInHand, RelInRequest, goVars, dispVars
  <2>5. CASE pstate[n] = "sent"
    <3>1. PubrecIn(s, pn) /\ pn \in Pid
      BY <1>6, <2>2, <2>5, PubRecSends DEF PubrecIn, IsPubrec
    <3>2. NoPubrelAhead(s, pn) /\ ~ RelInHand(s, pn)
      BY <3>1 DEF SentInv, PubrecAheadInv
    <3> QED
      BY <2>1, <3>2
      DEF NoPubrelAhead, RelInHand, RelInRequest, goVars, dispVars
  <2> QED
    BY <1>3, <2>4, <2>5
<1>7. ASSUME ~ ClientPubRec(s) PROVE Goal
  <2>1. Due(m) /\ pstate[m] = "released" /\ pstate[n] = "released"
    BY <1>1, <1>3, <1>7, ReleasedNew
  <2>2. /\ ~ RelInHand(s, pn)
        /\ RelInRequest(s, pn) => RelInHand(s, pm)
    BY <1>5, <2>1
  <2>3. ~ RelInHand(s, pn)'
    BY <2>2, RelHandStep DEF RelInHand, RelInRequest
  <2>4. RelInHand(s, pm) => RelInHand(s, pm)'
    BY <1>1, <1>2, <2>1, DueInHand
  <2>5. ASSUME RelInRequest(s, pn)', ~ RelInRequest(s, pn)
        PROVE  RelInHand(s, pm)
    <3>1. Read(s) /\ IsPubrel(outbox[s][1], pn)
      BY <1>3, <2>5, RelRead
    <3>2. gpc[s] = "read" /\ link[s] /\ 1 \in DOMAIN outbox[s]
      BY <1>3, <3>1, ReadElements DEF Read, Takes
    <3>3. RelInHand(s, pm) \/ RelInOutbox(s, pm)
      BY <1>1, <1>2, <2>1, <3>2
      DEF PubrelInv, RelOnItsWayInv, RelOnItsWay, RelInRequest
    <3>4. ~ RelInOutbox(s, pm)
      <4> SUFFICES ASSUME NEW i \in DOMAIN outbox[s],
                          IsPubrel(outbox[s][i], pm)
                   PROVE  FALSE
        BY DEF RelInOutbox
      <4>1. i < 1
        BY <1>1, <1>2, <2>1, <3>1, <3>2
        DEF PubrelInv, RelSentOrderInv, BothReleased, RelSentOrder
      <4> QED
        BY <1>3, <4>1, Positions
    <3> QED
      BY <3>3, <3>4
  <2> QED
    BY <2>2, <2>3, <2>4, <2>5
<1>8. Goal
  BY <1>6, <1>7
<1> QED
  BY <1>1, <1>2, <1>8 DEF RelTakenOrder

LEMMA PubrelStep ==
  ASSUME TypeInv, TypeInv', FlowInv, BasicInv, SentInv, PubrelInv,
         [Next]_vars
  PROVE  PubrelInv'
  BY RelOnItsWayStep, RelSentOrderStep, RelTakenOrderStep DEF PubrelInv

-----------------------------------------------------------------------------
(* QoS 2: the dispatcher releases messages in the order of the publishes.   *)

Pending(m) == Unreleased(m) \/ Releasing(m)

\* As long as an earlier message is to be released, a later one is nowhere.
ReleaseOrderInv ==
  \A m, n \in Msg :
    InTurn(m, n) /\ Qos[m] = 2 /\ Qos[n] = 2 /\ Pending(m) => Fresh(n)

(* What is released now was in the dispatcher's hand.                       *)
LEMMA ReleasingNew ==
  ASSUME TypeInv, DeliveryInv, [Next]_vars, NEW m \in Msg,
         Publisher[m] \in ClientId, Releasing(m)'
  PROVE  \/ Releasing(m)
         \/ /\ BeginRelease /\ dpc = "lock" /\ dmsg.type = "PUBREL"
            /\ PubStatus[dmsg.from][dmsg.pid] = "PUBREL"
            /\ CacheMsg[dmsg.from][dmsg.pid] = m
<1> DEFINE Goal ==
      \/ Releasing(m)
      \/ /\ BeginRelease /\ dpc = "lock" /\ dmsg.type = "PUBREL"
         /\ PubStatus[dmsg.from][dmsg.pid] = "PUBREL"
         /\ CacheMsg[dmsg.from][dmsg.pid] = m
<1>1. ASSUME NEW t \in ClientId,
             \/ Client(t) \/ Goroutine(t) \/ Connect(t) \/ Drop(t)
             \/ \E w \in Msg, x \in ClientPid \cup {NoPid} :
                  ClientPublish(t, w, x)
      PROVE  Goal
  BY <1>1 DEF Client, ClientReceive, ClientReleased, ClientPubRec,
     ClientPubDone, Goroutine, Read, AckPublish, Exit, Connect, Drop,
     ClientPublish, dispVars, Releasing
<1>2. ASSUME \/ \E t \in ClientId : DispatchRecv(t)
             \/ \E w \in Msg : ClusterRecv(w)
      PROVE  FALSE
  BY <1>2 DEF DispatchRecv, ClusterRecv, Releasing
<1>3. ASSUME BeginCluster PROVE FALSE
  <2>1. dpc = "lock" /\ dmsg.type = "CLUSTER" /\ m = dmsg.msg
    BY <1>3, HandFacts DEF BeginCluster, Processing, Loop, Releasing
  <2> QED
    BY <2>1, MessageDispatchAssumption DEF DeliveryInv, HandInv
<1>4. ASSUME BeginPublish PROVE FALSE
  BY <1>4 DEF BeginPublish, Processing, Loop, Releasing, TypeInv, DispTypes,
     Request
<1>5. ASSUME BeginRelease PROVE Goal
  BY <1>5 DEF BeginRelease, Processing, Loop, Unlock, Releasing, TypeInv,
     DispTypes, Request
<1>6. ASSUME \/ ProcessPubAck \/ ProcessPubRec \/ ProcessPubComp \/ DropAck
             \/ EndLoop
      PROVE  FALSE
  BY <1>6 DEF ProcessPubAck, ProcessPubRec, ProcessPubComp, DropAck, EndLoop,
     Unlock, Releasing
<1>7. ASSUME \/ UNCHANGED vars
             \/ \E t \in ClientId, x \in ServerPid : DrawAgain(t, x)
      PROVE  Goal
  BY <1>7 DEF DrawAgain, dispVars, vars, Releasing
<1>8. ASSUME NEW t \in ClientId, NEW x \in ServerPid,
             VisitPublish(t, x) \/ VisitRelease(t, x)
      PROVE  Goal
  <2>1. dpc' = dpc /\ dmsg' = dmsg
    BY <1>8 DEF VisitPublish, VisitRelease
  <2> QED
    BY <2>1 DEF Releasing
<1> QED
  BY <1>1, <1>2, <1>3, <1>4, <1>5, <1>6, <1>7, <1>8 DEF Next, Dispatcher, Idle

(* What is still to be released was before.                                 *)
LEMMA PendingStays ==
  ASSUME TypeInv, FlowInv, DeliveryInv, OriginInv, [Next]_vars,
         NEW m \in Msg, Publisher[m] \in ClientId, Qos[m] = 2, Pending(m)'
  PROVE  Pending(m)
<1>1. Publisher[m] # NoClient
  BY MessageDispatchAssumption
<1>2. CASE Releasing(m)'
  <2>1. CASE Releasing(m)
    BY <2>1 DEF Pending
  <2>2. CASE /\ BeginRelease /\ dpc = "lock" /\ dmsg.type = "PUBREL"
             /\ PubStatus[dmsg.from][dmsg.pid] = "PUBREL"
             /\ CacheMsg[dmsg.from][dmsg.pid] = m
    <3>1. dmsg.from \in ClientId /\ dmsg.pid \in Pid
      BY <2>2, HandFacts DEF Acks
    <3>2. Publisher[m] = dmsg.from
      BY <2>2, <3>1 DEF FlowInv, CacheInv
    <3> QED
      BY <1>1, <2>2, <3>1, <3>2 DEF Pending, Unreleased
  <2> QED
    BY <1>2, <2>1, <2>2, ReleasingNew
<1>3. CASE Unreleased(m)'
  <2>1. CASE pstate'[m] \in {"idle", "sent"}
    <3>1. pstate[m] \in {"idle", "sent"}
      <4>1. ASSUME NEW s \in ClientId, NEW x \in Msg,
                   NEW id \in ClientPid \cup {NoPid}, ClientPublish(s, x, id)
            PROVE  pstate[m] \in {"idle", "sent"}
        BY <2>1, <4>1, PublishSends DEF TypeInv, ClientTypes
      <4>2. ASSUME NEW s \in ClientId, ClientPubRec(s) \/ ClientPubDone(s)
            PROVE  pstate[m] \in {"idle", "sent"}
        BY <2>1, <4>2, PubRecProgress, PubDoneProgress
      <4> QED
        BY <2>1, <4>1, <4>2, StillSteps DEF Still
    <3> QED
      BY <1>1, <3>1 DEF Pending, Unreleased
  <2>2. CASE pstate'[m] \notin {"idle", "sent"}
    <3>1. Owed(m)' \/ (dpc' = "lock" /\ dmsg'.type = "CLUSTER"
                         /\ dmsg'.msg = m)
      BY <1>1, <1>3, <2>2
      DEF Unreleased, Owed, Kept, InHand, IsPublish
    <3>2. CASE Owed(m)'
      <4>1. Owed(m) \/ pstate[m] = "sent"
        BY <3>2, OwedNew
      <4> QED
        BY <1>1, <4>1
        DEF Pending, Unreleased, Owed, Kept, InHand, IsPublish
    <3>3. CASE dpc' = "lock" /\ dmsg'.type = "CLUSTER" /\ dmsg'.msg = m
      <4>1. HandInv'
        BY DeliveryStep, TypeStep DEF DeliveryInv
      <4> QED
        BY <1>1, <3>3, <4>1 DEF HandInv
    <3> QED
      BY <3>1, <3>2, <3>3
  <2> QED
    BY <2>1, <2>2
<1> QED
  BY <1>2, <1>3 DEF Pending

(* A later message is not released before an earlier one.                   *)
LEMMA NoEarlierRelease ==
  ASSUME TypeInv, FlowInv, DeliveryInv, BasicInv, SentInv, KeptInv, PubrelInv,
         NEW m \in Msg, NEW n \in Msg, InTurn(m, n), Qos[m] = 2, Qos[n] = 2,
         Pending(m), dpc = "lock", dmsg.type = "PUBREL",
         PubStatus[dmsg.from][dmsg.pid] = "PUBREL",
         CacheMsg[dmsg.from][dmsg.pid] = n
  PROVE  FALSE
<1> USE DEF InTurn
<1> DEFINE s == dmsg.from
           id == dmsg.pid
<1>1. s \in ClientId /\ id \in Pid
  BY HandFacts DEF Acks
<1>2. /\ Publisher[n] = s /\ ppid[n] = id /\ pstate[n] # "sent"
  BY <1>1 DEF FlowInv, CacheInv, IsPubrel
<1>3. pstate[n] = "released"
  <2>1. Kept(n)
    BY <1>1, <1>2 DEF Kept
  <2> QED
    BY <1>2, <2>1 DEF KeptInv, OwedInv, Owed
<1>4. pstate[m] \in {"released", "done"}
  BY <1>3 DEF SentInv, ReleasedInv, Released
<1>5. Owed(m)
  BY <1>4, MessageDispatchAssumption
  DEF Pending, Unreleased, Releasing, Owed, Kept, InHand, IsPublish, Before
<1>6. Due(m) /\ pstate[m] = "released"
  BY <1>4, <1>5 DEF KeptInv, OwedInv, Due
<1>7. ~ RelInHand(s, id)
  BY <1>2, <1>3, <1>6 DEF PubrelInv, RelTakenOrderInv, BothReleased,
     RelTakenOrder, Before
<1> QED
  BY <1>7 DEF RelInHand, IsPubrel

LEMMA ReleaseOrderStep ==
  ASSUME TypeInv, TypeInv', FlowInv, DeliveryInv, BasicInv, SentInv, KeptInv,
         PubrelInv, ReleaseOrderInv, [Next]_vars
  PROVE  ReleaseOrderInv'
<1> SUFFICES ASSUME NEW m \in Msg, NEW n \in Msg, InTurn(m, n),
                    Qos[m] = 2, Qos[n] = 2, Pending(m)'
             PROVE  Fresh(n)'
  BY InTurnStep DEF ReleaseOrderInv, BasicInv
<1> USE DEF InTurn
<1>1. /\ OriginInv /\ BufferInv
      /\ Publisher[m] \in ClientId /\ Publisher[n] \in ClientId
  BY DEF BasicInv, Before
<1>2. Pending(m) /\ Fresh(n)
  BY <1>1, PendingStays DEF ReleaseOrderInv
<1>3. ~ Releasing(n)'
  BY <1>1, <1>2, ReleasingNew, NoEarlierRelease DEF Fresh
<1>4. ASSUME NEW t \in ClientId PROVE Nowhere(t, n)'
  <2>1. Nowhere(t, n)
    BY <1>2 DEF Fresh
  <2>2. CASE DownFrame
    BY <2>1, <2>2, DownCopies
  <2>3. ASSUME NEW s \in ClientId,
               \/ ClientReceive(s) \/ Connect(s)
               \/ \E id \in ServerPid :
                    VisitPublish(s, id) \/ VisitRelease(s, id),
               ~ Nowhere(t, n)'
        PROVE  FALSE
    <3>1. dpc = "loop" /\ dmsg.msg = n /\ dmsg.type # "PUBLISH"
      BY <1>1, <2>1, <2>3, CopyPlaces
    <3> QED
      BY <1>2, <3>1 DEF Fresh, Releasing, TypeInv, DispTypes
  <2> QED
    BY <2>2, <2>3, DownSteps
<1>5. forwarded'[n] = 0
  <2>1. forwarded[n] = 0 /\ forwarded \in [Msg -> Nat]
    BY <1>2 DEF Fresh, TypeInv, RestTypes
  <2>2. ASSUME NEW s \in ClientId, AckPublish(s) PROVE forwarded'[n] = 0
    <3>1. \/ forwarded' = forwarded
          \/ /\ Qos[req[s].msg] < 2
             /\ forwarded' = [forwarded EXCEPT ![req[s].msg] = @ + 1]
      BY <2>2 DEF AckPublish
    <3> QED
      BY <2>1, <3>1
  <2>3. ASSUME EndLoop PROVE forwarded'[n] = 0
    <3>1. \/ forwarded' = forwarded
          \/ /\ dmsg.type = "PUBREL" /\ dpc = "loop"
             /\ forwarded' = [forwarded EXCEPT ![dmsg.msg] = @ + 1]
      BY <2>3 DEF EndLoop
    <3> QED
      BY <1>2, <2>1, <3>1 DEF Fresh, Releasing
  <2>4. ASSUME ~ EndLoop, \A s \in ClientId : ~ AckPublish(s)
        PROVE  forwarded' = forwarded
    <3>1. ASSUME NEW t \in ClientId,
                 \/ Client(t) \/ Read(t) \/ Exit(t) \/ Connect(t) \/ Drop(t)
                 \/ DispatchRecv(t)
                 \/ \E w \in Msg, x \in ClientPid \cup {NoPid} :
                      ClientPublish(t, w, x)
          PROVE  forwarded' = forwarded
      BY <3>1 DEF Client, ClientReceive, ClientReleased, ClientPubRec,
         ClientPubDone, Read, Exit, Connect, Drop, DispatchRecv,
         ClientPublish
    <3>2. ASSUME Dispatcher \/ UNCHANGED vars \/ \E w \in Msg : ClusterRecv(w)
          PROVE  forwarded' = forwarded
      BY <2>4, <3>2 DEF Dispatcher, BeginPublish, BeginCluster, BeginRelease,
         ProcessPubAck, ProcessPubRec, ProcessPubComp, DropAck, VisitPublish,
         VisitRelease, DrawAgain, ClusterRecv, vars
    <3> QED
      BY <2>4, <3>1, <3>2 DEF Next, Goroutine, Idle
  <2> QED
    BY <2>1, <2>2, <2>3, <2>4
<1> QED
  BY <1>3, <1>4, <1>5 DEF Fresh

-----------------------------------------------------------------------------
(* QoS 0, and QoS 1 without lost connections: the dispatcher takes messages *)
(* in the order of the publishes, and passes each one on at once.           *)

\* Nothing of m is sent twice.
Direct(m) ==
  /\ Publisher[m] # NoClient
  /\ Qos[m] = 0 \/ (Qos[m] = 1 /\ MaxDrops = 0)

Dispatching(m) == dpc # "select" /\ IsPublish(dmsg, m)
Ahead(s, m)    == InOutbox(s, m) \/ (gpc[s] = "send" /\ IsPublish(req[s], m))
Reached(m)     == \E t \in ClientId : ~ Nowhere(t, m)

\* When the dispatcher has n, or had it, it had m.
DirectOrder(m, n) ==
  /\ Dispatching(n) \/ Reached(n) => ~ Ahead(Publisher[m], m)
  /\ Reached(n) => ~ Dispatching(m)

DirectInv ==
  \A m, n \in Msg :
    Before(m, n) /\ Qos[m] = Qos[n] /\ Direct(m) => DirectOrder(m, n)

(* The dispatcher takes a message from the goroutine of its publisher.      *)
LEMMA DispatchingNew ==
  ASSUME TypeInv, OriginInv, [Next]_vars, NEW m \in Msg, Dispatching(m)'
  PROVE  \/ Dispatching(m)
         \/ /\ dpc = "select" /\ Publisher[m] \in ClientId
            /\ DispatchRecv(Publisher[m])
            /\ gpc[Publisher[m]] = "send" /\ IsPublish(req[Publisher[m]], m)
<1> DEFINE Goal ==
      \/ Dispatching(m)
      \/ /\ dpc = "select" /\ Publisher[m] \in ClientId
         /\ DispatchRecv(Publisher[m])
         /\ gpc[Publisher[m]] = "send" /\ IsPublish(req[Publisher[m]], m)
<1>1. ASSUME NEW t \in ClientId,
             \/ Client(t) \/ Goroutine(t) \/ Connect(t) \/ Drop(t)
             \/ \E w \in Msg, x \in ClientPid \cup {NoPid} :
                  ClientPublish(t, w, x)
      PROVE  Goal
  BY <1>1 DEF Client, ClientReceive, ClientReleased, ClientPubRec,
     ClientPubDone, Goroutine, Read, AckPublish, Exit, Connect, Drop,
     ClientPublish, dispVars, Dispatching
<1>2. ASSUME NEW t \in ClientId, DispatchRecv(t) PROVE Goal
  <2>1. dpc = "select" /\ gpc[t] = "send" /\ IsPublish(req[t], m)
    BY <1>2 DEF DispatchRecv, Dispatching, IsPublish
  <2>2. Publisher[m] = t
    BY <2>1 DEF OriginInv, Own, IsPublish
  <2> QED
    BY <1>2, <2>1, <2>2
<1>3. ASSUME \E w \in Msg : ClusterRecv(w) PROVE FALSE
  BY <1>3 DEF ClusterRecv, Dispatching, IsPublish, NoReq
<1>4. ASSUME BeginPublish \/ BeginCluster \/ BeginRelease PROVE Goal
  <2>1. /\ dpc = "lock"
        /\ \/ dpc' = "select"
           \/ \E x : dmsg' = [dmsg EXCEPT !.msg = x]
    BY <1>4 DEF BeginPublish, BeginCluster, BeginRelease, Processing, Loop,
       Unlock
  <2>2. dmsg'.type = dmsg.type
    BY <2>1 DEF Dispatching, TypeInv, DispTypes, Request
  <2>3. ~ BeginCluster /\ ~ BeginRelease
    BY <2>2 DEF BeginCluster, BeginRelease, Processing, Dispatching, IsPublish
  <2>4. dmsg'.msg = dmsg.msg
    BY <1>4, <2>3 DEF BeginPublish, Loop, TypeInv, DispTypes, Request
  <2> QED
    BY <2>1, <2>2, <2>4 DEF Dispatching, IsPublish
<1>5. ASSUME \/ ProcessPubAck \/ ProcessPubRec \/ ProcessPubComp \/ DropAck
             \/ EndLoop
      PROVE  FALSE
  BY <1>5 DEF ProcessPubAck, ProcessPubRec, ProcessPubComp, DropAck, EndLoop,
     Unlock, Dispatching
<1>6. ASSUME \/ UNCHANGED vars
             \/ \E t \in ClientId, x \in ServerPid :
                  VisitPublish(t, x) \/ VisitRelease(t, x) \/ DrawAgain(t, x)
      PROVE  Goal
  BY <1>6 DEF VisitPublish, VisitRelease, DrawAgain, dispVars, vars,
     Dispatching
<1> QED
  BY <1>1, <1>2, <1>3, <1>4, <1>5, <1>6 DEF Next, Dispatcher, Idle

(* A message below QoS 2 gets on its way to a subscriber in the loop of the *)
(* PUBLISH case.                                                            *)
LEMMA ReachedNew ==
  ASSUME TypeInv, TypeInv', DeliveryInv, BufferInv, [Next]_vars, NEW m \in Msg,
         Publisher[m] # NoClient, Qos[m] # 2, Reached(m)'
  PROVE  Reached(m) \/ Dispatching(m)
<1> SUFFICES ASSUME NEW t \in ClientId, ~ Nowhere(t, m)', Nowhere(t, m)
             PROVE  Dispatching(m)
  BY DEF Reached
<1>1. PICK s \in ClientId :
        \/ ClientReceive(s) \/ Connect(s)
        \/ \E id \in ServerPid : VisitPublish(s, id) \/ VisitRelease(s, id)
  BY DownSteps, DownCopies
<1>2. dpc = "loop" /\ dmsg.msg = m
  BY <1>1, CopyPlaces
<1>3. dmsg.type \in {"PUBLISH", "PUBREL", "CLUSTER"}
  BY <1>2 DEF TypeInv, DispTypes
<1> QED
  BY <1>2, <1>3 DEF DeliveryInv, HandInv, Dispatching, IsPublish

(* A message gets on its way to the server once.                            *)
LEMMA AheadNew ==
  ASSUME TypeInv, BasicInv, [Next]_vars, NEW m \in Msg, Direct(m),
         Publisher[m] \in ClientId, Ahead(Publisher[m], m)'
  PROVE  Ahead(Publisher[m], m) \/ ~ Begun(m)
<1> DEFINE s == Publisher[m]
<1>1. NetTypes /\ GoTypes /\ s \in ClientId
  BY DEF TypeInv
<1>2. ASSUME UpSame(s) PROVE Ahead(s, m)
  BY <1>1, <1>2 DEF UpSame, RequestSame, OutboxSame, Forth, Ahead, InOutbox,
     IsPublish
<1> HIDE DEF s
<1>3. ASSUME NEW x \in Msg, NEW id \in ClientPid \cup {NoPid},
             ClientPublish(s, x, id)
      PROVE  Ahead(s, m) \/ ~ Begun(m)
  <2>1. CASE x = m
    BY <1>1, <1>3, <2>1, PublishSends DEF Begun
  <2>2. CASE x # m
    <3>1. Publish(x, id).msg = x
      BY DEF Publish
    <3>2. \A i \in DOMAIN outbox'[s] :
            \/ i \in DOMAIN outbox[s] /\ outbox'[s][i] = outbox[s][i]
            \/ outbox'[s][i].msg = x
      BY <1>1, <1>3, <3>1, PublishSends
    <3>3. UNCHANGED goVars
      BY <1>1, <1>3, PublishSends
    <3> QED
      BY <2>2, <3>2, <3>3 DEF Ahead, InOutbox, IsPublish, goVars, s
  <2> QED
    BY <2>1, <2>2
<1>4. ASSUME ClientPubRec(s) PROVE Ahead(s, m)
  <2>1. \A i \in DOMAIN outbox'[s] :
          \/ i \in DOMAIN outbox[s] /\ outbox'[s][i] = outbox[s][i]
          \/ outbox'[s][i].type = "PUBREL"
    BY <1>1, <1>4, PubRecSends DEF IsPubrel
  <2>2. UNCHANGED goVars
    BY <1>1, <1>4, PubRecSends
  <2> QED
    BY <2>1, <2>2 DEF Ahead, InOutbox, IsPublish, goVars, s
<1>5. ASSUME ClientPubDone(s) \/ (BeginRelease /\ dmsg.from = s)
      PROVE  Ahead(s, m)
  <2>1. UNCHANGED <<outbox, gpc, req>>
    BY <1>1, <1>5, PubDoneTakes DEF BeginRelease, goVars
  <2> QED
    BY <2>1 DEF Ahead, InOutbox, s
<1>6. ASSUME Drop(s) PROVE Ahead(s, m)
  <2>1. outbox'[s] = <<>> /\ UNCHANGED goVars
    BY <1>1, <1>6 DEF Drop, NetTypes
  <2> QED
    BY <2>1 DEF Ahead, InOutbox, goVars, s
<1>7. ASSUME Connect(s) PROVE ~ Begun(m)
  <2>1. gpc[s] = "off" /\ gpc'[s] = "read"
    BY <1>1, <1>7 DEF Connect, GoTypes
  <2>2. InOutbox(s, m)'
    BY <2>1 DEF Ahead, s
  <2>3. PICK i \in DOMAIN outbox'[s] : IsPublish(outbox'[s][i], m)
    BY <2>2 DEF InOutbox
  <2>4. pstate[m] \in {"sent", "released"}
    BY <1>1, <1>7, <2>3, ConnectSends DEF IsPublish
  <2>5. CASE Qos[m] = 0
    BY <2>4, <2>5 DEF BasicInv, BegunInv
  <2>6. CASE MaxDrops = 0
    BY <1>1, <2>1, <2>4, <2>6 DEF BasicInv, NeverInv, NewWhenOff, s
  <2> QED
    BY <2>5, <2>6 DEF Direct
<1>8. ASSUME Read(s) PROVE Ahead(s, m)
  <2>1. PICK d \in Nat :
          /\ 1 \in DOMAIN outbox[s] /\ req'[s] = outbox[s][1]
          /\ \A i \in DOMAIN outbox'[s] :
               i + d \in DOMAIN outbox[s] /\ outbox'[s][i] = outbox[s][i + d]
    BY <1>1, <1>8, ReadElements DEF GoTypes, Takes
  <2> QED
    BY <2>1 DEF Ahead, InOutbox, s
<1>9. ASSUME AckPublish(s) \/ DispatchRecv(s) PROVE Ahead(s, m)
  <2>1. UNCHANGED outbox /\ gpc'[s] # "send"
    BY <1>1, <1>9 DEF AckPublish, DispatchRecv, GoTypes, netVars
  <2> QED
    BY <2>1 DEF Ahead, InOutbox, s
<1> QED
  BY <1>1, <1>2, <1>3, <1>4, <1>5, <1>6, <1>7, <1>8, <1>9, UpSteps
  DEF UpCases, BasicInv, s

LEMMA DirectStep ==
  ASSUME TypeInv, TypeInv', DeliveryInv, BasicInv, OutboxOrderInv, DirectInv,
         [Next]_vars
  PROVE  DirectInv'
<1> SUFFICES ASSUME NEW m \in Msg, NEW n \in Msg, Before(m, n),
                    Qos[m] = Qos[n], Direct(m)
             PROVE  DirectOrder(m, n)'
  BY DEF DirectInv, Before, Direct
<1> DEFINE s == Publisher[m]
<1>1. /\ s \in ClientId /\ Publisher[n] = s /\ m # n
      /\ s # NoClient /\ Qos[n] # 2
      /\ DirectOrder(m, n) /\ OutboxOrder(m, n)
      /\ OriginInv /\ BufferInv
  BY MsgFacts, MessageDispatchAssumption
  DEF Before, Direct, DirectInv, OutboxOrderInv, BasicInv
<1>2. Dispatching(n) \/ Reached(n) => ~ Ahead(s, m) /\ Begun(m)
  <2>1. Dispatching(n) \/ Reached(n) => Begun(n)
    BY <1>1 DEF BasicInv, PlacesInv, OriginInv, Own, Dispatching, Reached,
       IsPublish
  <2> QED
    BY <1>1, <2>1 DEF DirectOrder, BasicInv, BegunInv
<1>3. CASE Dispatching(n) \/ Reached(n)
  <2>1. ~ Ahead(s, m)'
    BY <1>1, <1>2, <1>3, AheadNew
  <2>2. ~ Dispatching(m)
    BY <1>1, <1>3 DEF DirectOrder, Dispatching, IsPublish
  <2>3. ~ Dispatching(m)'
    BY <1>1, <1>2, <1>3, <2>2, DispatchingNew DEF Ahead
  <2> QED
    BY <2>1, <2>3 DEF DirectOrder
<1>4. CASE ~ Dispatching(n) /\ ~ Reached(n)
  <2>1. ~ Reached(n)'
    BY <1>1, <1>4, ReachedNew
  <2>2. ASSUME Dispatching(n)' PROVE ~ Ahead(s, m)'
    <3>1. DispatchRecv(s) /\ gpc[s] = "send" /\ IsPublish(req[s], n)
      BY <1>1, <1>4, <2>2, DispatchingNew
    <3>2. ~ InOutbox(s, m)
      BY <1>1, <3>1 DEF OutboxOrder, InRequest
    <3>3. UNCHANGED outbox /\ gpc'[s] # "send"
      BY <1>1, <3>1 DEF DispatchRecv, netVars, TypeInv, GoTypes
    <3> QED
      BY <3>2, <3>3 DEF Ahead, InOutbox
  <2> QED
    BY <2>1, <2>2 DEF DirectOrder
<1> QED
  BY <1>3, <1>4

-----------------------------------------------------------------------------
(* Every copy of m is ahead of every copy of n on the way to a subscriber.  *)

GotOrder(s, m, n) ==
  \A i, j \in DOMAIN got[s] : got[s][i] = m /\ got[s][j] = n => i < j
InboxOrder(s, m, n) ==
  \A i, j \in DOMAIN inbox[s] :
    IsPublish(inbox[s][i], m) /\ IsPublish(inbox[s][j], n) => i < j
QueueOrder(s, m, n) ==
  \A i, j \in DOMAIN OfflineMsg[s] :
    OfflineMsg[s][i].msg = m /\ OfflineMsg[s][j].msg = n => i < j

CopyOrder(s, m, n) ==
  /\ GotOrder(s, m, n) /\ InboxOrder(s, m, n) /\ QueueOrder(s, m, n)
  /\ InGot(s, n) => ~ InInbox(s, m) /\ ~ InQueue(s, m)
  /\ InInbox(s, n) => ~ InQueue(s, m)

Ordered(m, n) ==
  /\ Before(m, n) /\ Qos[m] = Qos[n]
  /\ Direct(m) \/ (Qos[m] = 2 /\ InTurn(m, n))

CopyOrderInv ==
  \A s \in ClientId, m, n \in Msg : Ordered(m, n) => CopyOrder(s, m, n)

(* When the dispatcher copies a message, no later one is anywhere.          *)
LEMMA CopiedFirst ==
  ASSUME TypeInv, DeliveryInv, BufferInv, ReleaseOrderInv, DirectInv,
         NEW s \in ClientId, NEW id \in ServerPid,
         VisitPublish(s, id) \/ VisitRelease(s, id),
         ~ (inbox' = inbox /\ OfflineMsg' = OfflineMsg),
         NEW m \in Msg, NEW n \in Msg, Ordered(m, n), dmsg.msg = m,
         NEW t \in ClientId
  PROVE  Nowhere(t, n)
<1>1. /\ dpc = "loop" /\ (dmsg.type = "PUBLISH" => Qos[m] < 2)
      /\ Before(m, n) /\ Publisher[m] # NoClient /\ Qos[n] = Qos[m]
  BY VisitCopies, MessageDispatchAssumption DEF Ordered, Before
<1>2. dmsg.type \in {"PUBLISH", "PUBREL"}
  BY <1>1 DEF TypeInv, DispTypes, DeliveryInv, HandInv
<1>3. CASE dmsg.type = "PUBREL"
  <2>1. Qos[m] = 2 /\ Pending(m)
    BY <1>1, <1>3 DEF DeliveryInv, HandInv, Pending, Releasing
  <2>2. InTurn(m, n)
    BY <2>1, MessageDispatchAssumption DEF Ordered, Direct
  <2> QED
    BY <1>1, <2>1, <2>2 DEF ReleaseOrderInv, Fresh
<1>4. CASE dmsg.type = "PUBLISH"
  <2>1. Qos[m] # 2 /\ Dispatching(m)
    BY <1>1, <1>4 DEF Dispatching, IsPublish
  <2> QED
    BY <1>1, <2>1 DEF Ordered, DirectInv, DirectOrder, Reached
<1> QED
  BY <1>2, <1>3, <1>4

(* A step that copies nothing keeps positions in order.                     *)
LEMMA OrderShift ==
  ASSUME NetTypes, NetTypes', InboxFrame(Copies), NEW s \in ClientId,
         NEW m \in Msg, NEW n \in Msg
  PROVE  /\ InboxOrder(s, m, n) => InboxOrder(s, m, n)'
         /\ InInbox(s, m)' => InInbox(s, m)
         /\ InInbox(s, n)' => InInbox(s, n)
<1>1. PICK d \in {0, 1} : \A k \in DOMAIN inbox'[s] :
        inbox'[s][k] \in Copies =>
          k + d \in DOMAIN inbox[s] /\ inbox[s][k + d] = inbox'[s][k]
  BY DEF InboxFrame
<1>2. \A k \in DOMAIN inbox'[s] :
        /\ k \in Nat
        /\ inbox'[s][k].type = "PUBLISH" => inbox'[s][k] \in Copies
  BY DEF NetTypes, Copies
<1>3. \A i, j \in Nat : i + d < j + d => i < j
  BY <1>1
<1> QED
  BY <1>1, <1>2, <1>3 DEF InboxOrder, InInbox, IsPublish

LEMMA OrderFrame ==
  ASSUME TypeInv, TypeInv', DownFrame, NEW s \in ClientId,
         NEW m \in Msg, NEW n \in Msg, CopyOrder(s, m, n)
  PROVE  CopyOrder(s, m, n)'
<1>1. /\ NetTypes /\ NetTypes' /\ InboxFrame(Copies)
      /\ got' = got /\ OfflineMsg' = OfflineMsg
  BY DEF DownFrame, TypeInv
<1> QED
  BY <1>1, OrderShift
  DEF CopyOrder, GotOrder, QueueOrder, InGot, InQueue

(* A subscriber is handed its messages in the order of its connection.      *)
LEMMA OrderReceive ==
  ASSUME TypeInv, TypeInv', NEW s \in ClientId, NEW t \in ClientId,
         ClientReceive(t), NEW m \in Msg, NEW n \in Msg, m # n,
         CopyOrder(s, m, n)
  PROVE  CopyOrder(s, m, n)'
<1>1. /\ NetTypes /\ NetTypes' /\ InboxFrame(Copies)
      /\ OfflineMsg' = OfflineMsg
      /\ \/ got'[s] = got[s]
         \/ s = t /\ got'[s] = Append(got[s], Head(inbox[s]).msg)
      /\ Head(inbox[t]).type = "PUBLISH"
      /\ inbox[t] # <<>> /\ Consume(t)
      /\ got[s] \in Seq(Msg)
  BY ReceiveCopies DEF TypeInv, ClientTypes
<1>2. /\ InboxOrder(s, m, n)' /\ QueueOrder(s, m, n)'
      /\ InInbox(s, m)' => InInbox(s, m)
      /\ InInbox(s, n)' => InInbox(s, n)
      /\ InQueue(s, m)' <=> InQueue(s, m)
  BY <1>1, OrderShift DEF CopyOrder, QueueOrder, InQueue
<1>3. CASE got'[s] = got[s]
  BY <1>2, <1>3 DEF CopyOrder, GotOrder, InGot
<1>4. CASE s = t /\ got'[s] = Append(got[s], Head(inbox[s]).msg)
  <2> DEFINE x == Head(inbox[s]).msg
  <2>1. /\ 1 \in DOMAIN inbox[s] /\ inbox[s][1] = Head(inbox[s])
        /\ \A k \in DOMAIN inbox'[s] :
             /\ k + 1 \in DOMAIN inbox[s] /\ k \in Nat \ {0}
             /\ inbox'[s][k] = inbox[s][k + 1]
    BY <1>1, <1>4, ConsumeElements
  <2>2. /\ DOMAIN got'[s] = 1..(Len(got[s]) + 1) /\ Len(got[s]) \in Nat
        /\ DOMAIN got[s] = 1..Len(got[s])
        /\ \A i \in DOMAIN got[s] : got'[s][i] = got[s][i]
        /\ got'[s][Len(got[s]) + 1] = x
    BY <1>1, <1>4
  <2>3. /\ x = m => InInbox(s, m)
        /\ x = n => InInbox(s, n) /\ ~ InInbox(s, m)'
    <3>1. InInbox(s, x) /\ IsPublish(inbox[s][1], x)
      BY <1>1, <1>4, <2>1 DEF InInbox, IsPublish
    <3>2. x = n => ~ InInbox(s, m)'
      BY <2>1, <3>1 DEF CopyOrder, InboxOrder, InInbox, IsPublish
    <3> QED
      BY <3>1, <3>2
  <2> HIDE DEF x
  <2>4. InGot(s, n)' => InGot(s, n) \/ x = n
    BY <2>2 DEF InGot
  <2>5. GotOrder(s, m, n)'
    BY <2>2, <2>3 DEF CopyOrder, GotOrder, InGot
  <2> QED
    BY <1>2, <2>3, <2>4, <2>5 DEF CopyOrder
<1> QED
  BY <1>1, <1>3, <1>4

(* What was queued is sent in the order of the queue.                       *)
LEMMA OrderConnect ==
  ASSUME TypeInv, NEW s \in ClientId, NEW t \in ClientId,
         Connect(t), NEW m \in Msg, NEW n \in Msg, CopyOrder(s, m, n)
  PROVE  CopyOrder(s, m, n)'
<1>1. CASE s # t
  BY <1>1, ConnectCopies
  DEF CopyOrder, GotOrder, InboxOrder, QueueOrder, InGot, InInbox, InQueue
<1>2. CASE s = t
  <2>1. /\ got' = got /\ OfflineMsg'[s] = <<>>
        /\ DOMAIN inbox'[s] = DOMAIN OfflineMsg[s]
        /\ \A i \in DOMAIN OfflineMsg[s] :
             inbox'[s][i].msg = OfflineMsg[s][i].msg
    BY <1>2, ConnectCopies
  <2> QED
    BY <2>1
    DEF CopyOrder, GotOrder, InboxOrder, QueueOrder, InGot, InInbox, InQueue,
        IsPublish
<1> QED
  BY <1>1, <1>2

(* What the dispatcher copies goes behind what is there.                    *)
LEMMA OrderVisit ==
  ASSUME TypeInv, TypeInv', ConnInv, DeliveryInv, BufferInv, ReleaseOrderInv,
         DirectInv, NEW s \in ClientId, NEW t \in ClientId,
         NEW id \in ServerPid, VisitPublish(t, id) \/ VisitRelease(t, id),
         NEW m \in Msg, NEW n \in Msg, Ordered(m, n), CopyOrder(s, m, n)
  PROVE  CopyOrder(s, m, n)'
<1> USE DEF InGot, InInbox, InQueue, IsPublish
<1>1. /\ got' = got /\ m # n
      /\ s # t => inbox'[s] = inbox[s] /\ OfflineMsg'[s] = OfflineMsg[s]
      /\ inbox[s] \in Seq(Wire) /\ OfflineMsg[s] \in Seq(Queued)
  <2>1. m # n
    BY MsgFacts DEF Ordered, Before
  <2>2. inbox[s] \in Seq(Wire) /\ OfflineMsg[s] \in Seq(Queued)
    BY DEF TypeInv, NetTypes, SessTypes
  <2> QED
    BY <2>1, <2>2, VisitCopies
<1>2. CASE inbox'[s] = inbox[s] /\ OfflineMsg'[s] = OfflineMsg[s]
  BY <1>1, <1>2 DEF CopyOrder, GotOrder, InboxOrder, QueueOrder
<1>3. ASSUME ~ (inbox'[s] = inbox[s] /\ OfflineMsg'[s] = OfflineMsg[s])
      PROVE  CopyOrder(s, m, n)'
  <2>1. s = t /\ ~ (inbox' = inbox /\ OfflineMsg' = OfflineMsg)
    BY <1>1, <1>3
  <2>2. dmsg.msg = m => Nowhere(s, n)
    BY <2>1, CopiedFirst
  <2>3. CASE /\ Batch(inbox[s], inbox'[s], dmsg.msg)
             /\ OfflineMsg' = OfflineMsg /\ LoginSuccess[s]
    <3>1. PICK ps \in Seq(Wire) :
            /\ inbox'[s] = inbox[s] \o ps
            /\ \A i \in DOMAIN ps : ps[i].msg = dmsg.msg
      BY <2>3 DEF Batch
    <3>2. OfflineMsg[s] = <<>>
      BY <2>3 DEF ConnInv
    <3>3. /\ DOMAIN inbox[s] = 1..Len(inbox[s])
          /\ DOMAIN inbox'[s] = 1..(Len(inbox[s]) + Len(ps))
          /\ Len(ps) \in Nat /\ Len(inbox[s]) \in Nat
          /\ \A k \in 1..(Len(inbox[s]) + Len(ps)) : inbox'[s][k] =
               IF k <= Len(inbox[s]) THEN inbox[s][k]
               ELSE ps[k - Len(inbox[s])]
      BY <1>1, <3>1, ConcatProperties
    <3>4. \A k \in DOMAIN inbox'[s] :
            \/ k \in DOMAIN inbox[s] /\ inbox'[s][k] = inbox[s][k]
            \/ k > Len(inbox[s]) /\ inbox'[s][k].msg = dmsg.msg
      <4>1. \A k \in DOMAIN inbox'[s] : k > Len(inbox[s]) =>
              k - Len(inbox[s]) \in DOMAIN ps
        BY <3>1, <3>3
      <4> QED
        BY <3>1, <3>3, <4>1
    <3>5. InboxOrder(s, m, n)'
      <4> SUFFICES ASSUME NEW i \in DOMAIN inbox'[s],
                          NEW j \in DOMAIN inbox'[s],
                          IsPublish(inbox'[s][i], m),
                          IsPublish(inbox'[s][j], n)
                   PROVE  i < j
        BY DEF InboxOrder
      <4>1. CASE j \in DOMAIN inbox[s]
        <5>1. InInbox(s, n) /\ inbox'[s][j] = inbox[s][j]
          BY <3>3, <4>1
        <5>2. i \in DOMAIN inbox[s] /\ inbox'[s][i] = inbox[s][i]
          BY <2>2, <3>4, <5>1 DEF Nowhere
        <5> QED
          BY <4>1, <5>1, <5>2 DEF CopyOrder, InboxOrder
      <4>2. CASE j \notin DOMAIN inbox[s]
        BY <1>1, <3>3, <3>4, <4>2
      <4> QED
        BY <4>1, <4>2
    <3>6. InGot(s, n) => ~ InInbox(s, m)'
      BY <1>1, <2>2, <3>4 DEF CopyOrder, Nowhere
    <3> QED
      BY <1>1, <2>3, <3>2, <3>5, <3>6 DEF CopyOrder, GotOrder, QueueOrder
  <2>4. CASE /\ OfflineMsg'[s] =
                  Append(OfflineMsg[s], [msg |-> dmsg.msg, pid |-> id])
             /\ inbox' = inbox
    <3>1. /\ DOMAIN OfflineMsg[s] = 1..Len(OfflineMsg[s])
          /\ DOMAIN OfflineMsg'[s] = 1..(Len(OfflineMsg[s]) + 1)
          /\ Len(OfflineMsg[s]) \in Nat
          /\ \A k \in DOMAIN OfflineMsg[s] :
               OfflineMsg'[s][k] = OfflineMsg[s][k]
          /\ OfflineMsg'[s][Len(OfflineMsg[s]) + 1].msg = dmsg.msg
      BY <1>1, <2>4, AppendProperties
    <3>2. QueueOrder(s, m, n)'
      <4> SUFFICES ASSUME NEW i \in DOMAIN OfflineMsg'[s],
                          NEW j \in DOMAIN OfflineMsg'[s],
                          OfflineMsg'[s][i].msg = m, OfflineMsg'[s][j].msg = n
                   PROVE  i < j
        BY DEF QueueOrder
      <4>1. CASE j \in DOMAIN OfflineMsg[s]
        <5>1. InQueue(s, n) /\ OfflineMsg'[s][j] = OfflineMsg[s][j]
          BY <3>1, <4>1
        <5>2. i \in DOMAIN OfflineMsg[s]
          BY <2>2, <3>1, <5>1 DEF Nowhere
        <5> QED
          BY <3>1, <4>1, <5>2 DEF CopyOrder, QueueOrder
      <4>2. CASE j \notin DOMAIN OfflineMsg[s]
        BY <1>1, <3>1, <4>2
      <4> QED
        BY <4>1, <4>2
    <3>3. InQueue(s, m)' => InQueue(s, m) \/ dmsg.msg = m
      BY <3>1
    <3> QED
      BY <1>1, <2>2, <2>4, <3>2, <3>3
      DEF CopyOrder, GotOrder, InboxOrder, Nowhere
  <2> QED
    BY <2>1, <2>3, <2>4, VisitCopies
<1> QED
  BY <1>2, <1>3

LEMMA CopyOrderStep ==
  ASSUME TypeInv, TypeInv', DeliveryInv, BasicInv, ReleaseOrderInv, DirectInv,
         CopyOrderInv, [Next]_vars
  PROVE  CopyOrderInv'
<1> SUFFICES ASSUME NEW s \in ClientId, NEW m \in Msg, NEW n \in Msg,
                    Ordered(m, n)
             PROVE  CopyOrder(s, m, n)'
  BY InTurnStep DEF CopyOrderInv, Ordered, Before, Direct, BasicInv
<1>1. CopyOrder(s, m, n) /\ m # n /\ BufferInv /\ ConnInv
  BY MsgFacts DEF CopyOrderInv, Ordered, Before, BasicInv
<1>2. ASSUME NEW t \in ClientId, ClientReceive(t) PROVE CopyOrder(s, m, n)'
  BY <1>1, <1>2, OrderReceive
<1>3. ASSUME NEW t \in ClientId, Connect(t) PROVE CopyOrder(s, m, n)'
  BY <1>1, <1>3, OrderConnect
<1>4. ASSUME NEW t \in ClientId, NEW id \in ServerPid,
             VisitPublish(t, id) \/ VisitRelease(t, id)
      PROVE  CopyOrder(s, m, n)'
  BY <1>1, <1>4, OrderVisit
<1>5. CASE DownFrame
  BY <1>1, <1>5, OrderFrame
<1> QED
  BY <1>2, <1>3, <1>4, <1>5, DownSteps

-----------------------------------------------------------------------------
(* The theorem.                                                             *)

\* Everything the order of delivery depends on.
DeliveryOrderInv ==
  /\ OutboxOrderInv /\ SentInv /\ KeptInv /\ PubrelInv /\ ReleaseOrderInv
  /\ DirectInv /\ CopyOrderInv

(* At first nothing is on its way.                                          *)
LEMMA DeliveryOrderInit == Init => DeliveryOrderInv
<1> SUFFICES ASSUME Init PROVE DeliveryOrderInv
  OBVIOUS
<1>1. /\ \A s \in ClientId : /\ inbox[s] = <<>> /\ outbox[s] = <<>>
                             /\ gpc[s] \in {"read", "off"}
                             /\ got[s] = <<>> /\ OfflineMsg[s] = <<>>
                             /\ \A id \in Pid : PubStatus[s][id] = "none"
      /\ dpc = "select"
      /\ \A m \in Msg : pstate[m] = "idle" /\ forwarded[m] = 0
  BY DEF Init
<1>2. OutboxOrderInv
  BY <1>1 DEF OutboxOrderInv, OutboxOrder, InRequest, Before
<1>3. SentInv
  BY <1>1 DEF SentInv, AckHandInv, PubrecAheadInv, OnItsWayInv, OnItsWay,
     PubrecOrderInv, ReleasedInv, Released, PubrecIn
<1>4. KeptInv
  BY <1>1 DEF KeptInv, OwedInv, Owed, Kept, InHand, PubcompInv
<1>5. PubrelInv
  BY <1>1 DEF PubrelInv, RelOnItsWayInv, RelOnItsWay, Due, Owed,
     RelSentOrderInv, RelTakenOrderInv, BothReleased
<1>6. \A m \in Msg, t \in ClientId : Nowhere(t, m)
  BY <1>1 DEF Nowhere, InGot, InInbox, InQueue
<1>7. ReleaseOrderInv
  BY <1>1, <1>6 DEF ReleaseOrderInv, Fresh, Releasing
<1>8. DirectInv
  BY <1>1, <1>6 DEF DirectInv, DirectOrder, Dispatching, Reached
<1>9. CopyOrderInv
  BY <1>1 DEF CopyOrderInv, CopyOrder, GotOrder, InboxOrder, QueueOrder,
     InGot, InInbox
<1> QED
  BY <1>2, <1>3, <1>4, <1>5, <1>7, <1>8, <1>9 DEF DeliveryOrderInv

(* For any clients, messages, ids and lost connections.                     *)
LEMMA DeliveryOrderInvariant ==
  Spec => [](DispInv /\ BasicInv /\ DeliveryOrderInv)
<1>1. Init => DispInv /\ BasicInv /\ DeliveryOrderInv
  BY TypeInit, FlowInit, DeliveryInit, BasicInit, DeliveryOrderInit
  DEF DispInv
<1>2. DispInv /\ BasicInv /\ DeliveryOrderInv /\ [Next]_vars =>
        DispInv' /\ BasicInv' /\ DeliveryOrderInv'
  <2> SUFFICES ASSUME DispInv, BasicInv, DeliveryOrderInv, [Next]_vars
               PROVE  DispInv' /\ BasicInv' /\ DeliveryOrderInv'
    OBVIOUS
  <2>1. /\ TypeInv /\ FlowInv /\ DeliveryInv
        /\ OutboxOrderInv /\ SentInv /\ KeptInv /\ PubrelInv
        /\ ReleaseOrderInv /\ DirectInv /\ CopyOrderInv
    BY DEF DispInv, DeliveryOrderInv
  <2>2. TypeInv' /\ FlowInv' /\ DeliveryInv'
    BY <2>1, TypeStep, FlowStep, DeliveryStep
  <2>3. BasicInv'
    BY <2>1, <2>2, BasicStep
  <2>4. OutboxOrderInv' /\ SentInv'
    BY <2>1, <2>2, OutboxOrderStep, SentStep
  <2>5. KeptInv' /\ PubrelInv'
    BY <2>1, <2>2, KeptStep, PubrelStep
  <2>6. ReleaseOrderInv' /\ DirectInv'
    BY <2>1, <2>2, ReleaseOrderStep, DirectStep
  <2>7. CopyOrderInv'
    BY <2>1, <2>2, CopyOrderStep
  <2> QED
    BY <2>2, <2>3, <2>4, <2>5, <2>6, <2>7 DEF DispInv, DeliveryOrderInv
<1> QED
  BY <1>1, <1>2, PTL DEF Spec

\* QoS 1 is sent again when a connection is lost, after what came behind it.
NothingSentAgain ==
  MaxDrops = 0 \/ \A m \in Msg : Publisher[m] # NoClient => Qos[m] # 1

(* For any clients, messages and packet ids, shared by clients and server   *)
(* or not: messages of one publisher and one QoS are handed to a subscriber *)
(* in the order they were published.  QoS 0 and 2 whatever connections are  *)
(* lost and however often the clients come back, with the queues and the    *)
(* repeated packets this brings; QoS 1 as long as none is lost.  A message  *)
(* that comes late was dropped by a Read first, and sent again.             *)
THEOREM DeliveredInOrder ==
  ASSUME NothingSentAgain
  PROVE  Spec => []InOrder
<1>1. TypeInv /\ PlacesInv /\ BegunInv /\ CopyOrderInv => InOrder
  <2> SUFFICES ASSUME TypeInv, PlacesInv, BegunInv, CopyOrderInv,
                      NEW s \in ClientId,
                      NEW i \in DOMAIN got[s], NEW j \in DOMAIN got[s],
                      i < j, Publisher[got[s][i]] = Publisher[got[s][j]],
                      Qos[got[s][i]] = Qos[got[s][j]],
                      Publisher[got[s][i]] # NoClient,
                      ~ PublishDropped(got[s][j]),
                      ~ ReleaseDropped(got[s][j])
               PROVE  got[s][i] <= got[s][j]
    BY DEF InOrder
  <2> DEFINE m == got[s][i]
             n == got[s][j]
  <2>1. /\ m \in Msg /\ n \in Msg /\ m \in Nat /\ n \in Nat
        /\ i \in Nat /\ j \in Nat
        /\ InGot(s, n) /\ Qos[n] \in 0..2
    <3>1. got[s] \in Seq(Msg)
      BY DEF TypeInv, ClientTypes
    <3>2. m \in Msg /\ n \in Msg /\ i \in Nat /\ j \in Nat /\ InGot(s, n)
      BY <3>1 DEF InGot
    <3> QED
      BY <3>2, MsgFacts
  <2>2. Publisher[n] \in ClientId
    BY <2>1 DEF PlacesInv, BegunInv, Nowhere
  <2>3. Qos[n] = 2 \/ Direct(n)
    BY <2>1 DEF NothingSentAgain, Direct
  <2>4. ASSUME n < m PROVE FALSE
    <3>1. GotOrder(s, n, m)
      BY <2>1, <2>2, <2>3, <2>4 DEF CopyOrderInv, Ordered, Before, InTurn,
         CopyOrder
    <3>2. j < i
      BY <3>1 DEF GotOrder
    <3> QED
      BY <2>1, <3>2
  <2> QED
    BY <2>1, <2>4
<1>2. DispInv /\ BasicInv /\ DeliveryOrderInv => InOrder
  BY <1>1 DEF DispInv, BasicInv, DeliveryOrderInv
<1> QED
  BY DeliveryOrderInvariant, <1>2, PTL

-----------------------------------------------------------------------------
(* What is on its way to a subscriber, and what it answers.                 *)

Return == {"PUBACK", "PUBREC", "PUBCOMP"}

\* What of a kind is in r is in q, d positions further behind.
Shifted(q, r, d, kind) ==
  /\ \A k \in DOMAIN r : r[k].type \in kind =>
       k + d \in DOMAIN q /\ q[k + d] = r[k]
  /\ \A k \in DOMAIN q : q[k].type \in kind =>
       k - d \in DOMAIN r /\ r[k - d] = q[k]

SameOf(q, r, kind) == Shifted(q, r, 0, kind) \/ Shifted(q, r, 1, kind)

Returned(s) == gpc[s] = "send" /\ req[s].type \in Return
Handed(s) == dpc = "lock" /\ dmsg.type \in Return /\ dmsg.from = s

\* Steps that do not concern s as a subscriber.
DownSame(s) ==
  /\ SameOf(inbox[s], inbox'[s], Forth)
  /\ SameOf(outbox[s], outbox'[s], Return)
  /\ Returned(s) \/ Returned(s)' => gpc'[s] = gpc[s] /\ req'[s] = req[s]
  /\ Handed(s) \/ Handed(s)' => dpc' = dpc /\ dmsg' = dmsg
  /\ PubStatus'[s] = PubStatus[s] /\ OfflineMsg'[s] = OfflineMsg[s]
  /\ held'[s] = held[s] /\ link'[s] = link[s]

(* Sequences of packets that change at one end.                             *)
LEMMA ShiftedSame ==
  ASSUME NEW q \in Seq(Wire), NEW kind
  PROVE  SameOf(q, q, kind)
  BY DEF SameOf, Shifted

LEMMA ShiftedAppend ==
  ASSUME NEW q \in Seq(Wire), NEW ps \in Seq(Wire), NEW kind,
         \A i \in DOMAIN ps : ps[i].type \notin kind
  PROVE  SameOf(q, q \o ps, kind)
<1> DEFINE r == q \o ps
<1>1. /\ DOMAIN q = 1..Len(q) /\ Len(q) \in Nat /\ Len(ps) \in Nat
      /\ DOMAIN r = 1..(Len(q) + Len(ps))
      /\ \A k \in 1..(Len(q) + Len(ps)) : r[k] =
           IF k <= Len(q) THEN q[k] ELSE ps[k - Len(q)]
  BY ConcatProperties
<1>2. \A k \in DOMAIN r : k > Len(q) => k - Len(q) \in DOMAIN ps
  BY <1>1
<1> HIDE DEF r
<1>3. \A k \in DOMAIN r : r[k].type \in kind => k <= Len(q)
  BY <1>1, <1>2
<1>4. Shifted(q, r, 0, kind)
  BY <1>1, <1>3 DEF Shifted
<1> QED
  BY <1>4 DEF SameOf, r

LEMMA ShiftedTail ==
  ASSUME NEW q \in Seq(Wire), q # <<>>, NEW kind, Head(q).type \notin kind
  PROVE  SameOf(q, Tail(q), kind)
<1> DEFINE r == Tail(q)
<1>1. /\ DOMAIN r = 1..(Len(q) - 1) /\ DOMAIN q = 1..Len(q) /\ Len(q) \in Nat
      /\ \A k \in DOMAIN r : r[k] = q[k + 1]
      /\ q[1] = Head(q)
  BY HeadTailProperties
<1> HIDE DEF r
<1>2. Shifted(q, r, 1, kind)
  BY <1>1 DEF Shifted
<1> QED
  BY <1>2 DEF SameOf, r

(* The client sends, the goroutine writes, the client takes.                *)
LEMMA SendSame ==
  ASSUME NetTypes, NEW s \in ClientId, NEW p \in Wire, Send(s, p),
         NEW t \in ClientId, NEW kind, t = s => p.type \notin kind
  PROVE  SameOf(outbox[t], outbox'[t], kind)
<1>1. outbox[t] \in Seq(Wire)
  BY DEF NetTypes
<1>2. CASE t # s
  BY <1>1, <1>2, ShiftedSame DEF Send, NetTypes
<1>3. CASE t = s
  <2>1. outbox'[t] = Append(outbox[t], p)
    BY <1>3 DEF Send, NetTypes
  <2>2. outbox'[t] = outbox[t] \o <<p>>
    BY <1>1, <2>1
  <2>3. <<p>> \in Seq(Wire)
        /\ \A i \in DOMAIN <<p>> : <<p>>[i].type \notin kind
    BY <1>3
  <2> QED
    BY <1>1, <2>2, <2>3, ShiftedAppend
<1> QED
  BY <1>2, <1>3

LEMMA WriteSame ==
  ASSUME NetTypes, NEW s \in ClientId, NEW ps \in Seq(Wire), Write(s, ps),
         NEW t \in ClientId, NEW kind,
         t = s => \A i \in DOMAIN ps : ps[i].type \notin kind
  PROVE  SameOf(inbox[t], inbox'[t], kind)
<1>1. inbox[t] \in Seq(Wire)
  BY DEF NetTypes
<1>2. CASE inbox'[t] = inbox[t]
  BY <1>1, <1>2, ShiftedSame
<1>3. CASE inbox'[t] # inbox[t]
  <2>1. t = s /\ inbox'[t] = inbox[t] \o ps
    BY <1>3 DEF Write, NetTypes
  <2> QED
    BY <1>1, <2>1, ShiftedAppend
<1> QED
  BY <1>2, <1>3

LEMMA ConsumeSame ==
  ASSUME NetTypes, NEW s \in ClientId, inbox[s] # <<>>, Consume(s),
         NEW t \in ClientId, NEW kind, t = s => Head(inbox[s]).type \notin kind
  PROVE  SameOf(inbox[t], inbox'[t], kind)
<1>1. inbox[t] \in Seq(Wire)
  BY DEF NetTypes
<1>2. CASE t # s
  <2>1. inbox'[t] = inbox[t]
    BY <1>2 DEF Consume, NetTypes
  <2> QED
    BY <1>1, <2>1, ShiftedSame
<1>3. CASE t = s
  <2>1. inbox'[t] = Tail(inbox[t])
    BY <1>3 DEF Consume, NetTypes
  <2> QED
    BY <1>1, <1>3, <2>1, ShiftedTail
<1> QED
  BY <1>2, <1>3

(* What the steps do that are not about s as a subscriber: its own steps as *)
(* a publisher,                                                             *)
LEMMA DownPublisher ==
  ASSUME TypeInv, NEW s \in ClientId,
         \/ ClientPubRec(s) \/ ClientPubDone(s) \/ AckPublish(s) \/ Exit(s)
         \/ \E m \in Msg, id \in ClientPid \cup {NoPid} :
              ClientPublish(s, m, id)
  PROVE  DownSame(s)
<1>1. /\ NetTypes /\ GoTypes
      /\ inbox[s] \in Seq(Wire) /\ outbox[s] \in Seq(Wire)
  BY DEF TypeInv, NetTypes
<1>2. /\ SameOf(inbox[s], inbox[s], Forth)
      /\ SameOf(outbox[s], outbox[s], Return)
  BY <1>1, ShiftedSame
<1>3. ASSUME NEW m \in Msg, NEW id \in ClientPid \cup {NoPid},
             ClientPublish(s, m, id)
      PROVE  DownSame(s)
  <2>1. Publish(m, id) \in Wire /\ Publish(m, id).type \notin Return
    <3>1. Qos[m] > 0 => id \in Pid
      BY <1>3, PublishSends
    <3>2. id \in Pid \cup {NoPid}
      BY MsgFacts
    <3>3. Publish(m, id).type = "PUBLISH"
      BY DEF Publish
    <3> QED
      BY <3>1, <3>2, <3>3, PacketFacts DEF Return
  <2>2. SameOf(outbox[s], outbox'[s], Return)
    <3>1. Send(s, Publish(m, id))
      BY <1>3 DEF ClientPublish
    <3> HIDE DEF Publish
    <3> QED
      BY <1>1, <2>1, <3>1, SendSame
  <2>3. UNCHANGED <<sessVars, goVars, dispVars, link, inbox, held>>
    BY <1>3 DEF ClientPublish
  <2> QED
    BY <1>2, <2>2, <2>3 DEF DownSame, sessVars, goVars, dispVars
<1>4. CASE ClientPubRec(s)
  <2>1. /\ inbox[s] # <<>> /\ Consume(s) /\ Head(inbox[s]).type = "PUBREC"
        /\ UNCHANGED <<sessVars, goVars, dispVars, link, held>>
    BY <1>4 DEF ClientPubRec, Arriving
  <2>2. SameOf(inbox[s], inbox'[s], Forth)
    BY <1>1, <2>1, ConsumeSame DEF Forth
  <2>3. PICK p \in Wire : Send(s, p) /\ p.type = "PUBREL"
    BY <1>4, AckAnswer
  <2>4. SameOf(outbox[s], outbox'[s], Return)
    BY <1>1, <2>3, SendSame DEF Return
  <2> QED
    BY <2>1, <2>2, <2>4 DEF DownSame, sessVars, goVars, dispVars
<1>5. CASE ClientPubDone(s)
  <2>1. /\ inbox[s] # <<>> /\ Consume(s)
        /\ Head(inbox[s]).type \in {"PUBACK", "PUBCOMP"}
        /\ UNCHANGED <<sessVars, goVars, dispVars, link, held, outbox>>
    BY <1>5 DEF ClientPubDone, Arriving
  <2>2. SameOf(inbox[s], inbox'[s], Forth)
    BY <1>1, <2>1, ConsumeSame DEF Forth
  <2> QED
    BY <1>2, <2>1, <2>2 DEF DownSame, sessVars, goVars, dispVars
<1>6. CASE AckPublish(s)
  <2>1. /\ UNCHANGED <<sessVars, dispVars, link, held, outbox>>
        /\ gpc[s] = "ack" /\ gpc'[s] = "read"
    BY <1>1, <1>6 DEF AckPublish, clientVars, GoTypes
  <2>2. SameOf(inbox[s], inbox'[s], Forth)
    <3>1. Qos[req[s].msg] \in 0..2
      BY <1>6, AckPublishWrites, MsgFacts
    <3>2. \/ inbox' = inbox
          \/ \E type \in {"PUBACK", "PUBREC"} :
               req[s].pid \in Pid /\ Write(s, <<Ack(type, req[s].pid)>>)
      <4>1. Qos[req[s].msg] = 0 \/ Qos[req[s].msg] = 1 \/ Qos[req[s].msg] = 2
        BY <3>1
      <4> QED
        BY <1>6, <4>1, AckPublishWrites
    <3>3. ASSUME NEW type \in {"PUBACK", "PUBREC"}, req[s].pid \in Pid,
                 Write(s, <<Ack(type, req[s].pid)>>)
          PROVE  SameOf(inbox[s], inbox'[s], Forth)
      <4> DEFINE p == Ack(type, req[s].pid)
      <4>1. p \in Wire /\ p.type \notin Forth
        BY <3>3, PacketFacts DEF Ack, Acks, Forth
      <4> HIDE DEF p
      <4>2. <<p>> \in Seq(Wire)
            /\ \A i \in DOMAIN <<p>> : <<p>>[i].type \notin Forth
        BY <4>1
      <4>3. Write(s, <<p>>)
        BY <3>3 DEF p
      <4> QED
        BY <1>1, <4>2, <4>3, WriteSame
    <3> QED
      BY <1>2, <3>2, <3>3
  <2> QED
    BY <1>2, <2>1, <2>2 DEF DownSame, Returned, Handed, sessVars, dispVars
<1>7. CASE Exit(s)
  <2>1. /\ UNCHANGED <<PubStatus, OfflineMsg, req, dispVars, netVars, held>>
        /\ gpc[s] = "read" /\ gpc'[s] = "off"
    BY <1>1, <1>7 DEF Exit, clientVars, GoTypes
  <2> QED
    BY <1>2, <2>1 DEF DownSame, Returned, Handed, dispVars, netVars
<1> QED
  BY <1>3, <1>4, <1>5, <1>6, <1>7

(* those of other clients,                                                  *)
LEMMA DownOther ==
  ASSUME TypeInv, NEW s \in ClientId, NEW t \in ClientId, t # s,
         \/ Client(s) \/ Goroutine(s) \/ Connect(s) \/ DispatchRecv(s)
         \/ Drop(s)
         \/ \E m \in Msg, id \in ClientPid \cup {NoPid} :
              ClientPublish(s, m, id)
  PROVE  DownSame(t)
<1>1. /\ NetTypes /\ GoTypes /\ ClientTypes /\ SessTypes
      /\ inbox[t] \in Seq(Wire) /\ outbox[t] \in Seq(Wire)
  BY DEF TypeInv, NetTypes
<1>2. inbox'[t] = inbox[t] /\ outbox'[t] = outbox[t]
  <2>1. CASE ClientReceive(s)
    <3>1. Consume(s) /\ \/ UNCHANGED outbox
                        \/ \E p \in Wire : Send(s, p)
      BY <2>1, ReceiveAnswer DEF ClientReceive
    <3> QED
      BY <1>1, <3>1 DEF Consume, Send, NetTypes
  <2>2. CASE AckPublish(s)
    <3>1. Qos[req[s].msg] \in 0..2
      BY <2>2, AckPublishWrites, MsgFacts
    <3>2. Qos[req[s].msg] = 0 \/ Qos[req[s].msg] = 1 \/ Qos[req[s].msg] = 2
      BY <3>1
    <3>3. outbox' = outbox
      BY <2>2 DEF AckPublish
    <3> QED
      BY <1>1, <2>2, <3>2, <3>3, AckPublishWrites DEF Write, NetTypes
  <2>3. CASE \/ ClientReleased(s) \/ ClientPubRec(s) \/ ClientPubDone(s)
             \/ Read(s) \/ Exit(s) \/ Connect(s) \/ DispatchRecv(s)
             \/ Drop(s)
             \/ \E m \in Msg, id \in ClientPid \cup {NoPid} :
                  ClientPublish(s, m, id)
    BY <1>1, <2>3 DEF ClientReleased, ClientPubRec, ClientPubDone, Read,
       Exit, Connect, DispatchRecv, Drop, ClientPublish, Consume, Send,
       NetTypes, netVars
  <2> QED
    BY <2>1, <2>2, <2>3 DEF Client, Goroutine
<1>3. /\ link'[t] = link[t] /\ gpc'[t] = gpc[t] /\ req'[t] = req[t]
      /\ held'[t] = held[t]
      /\ PubStatus'[t] = PubStatus[t] /\ OfflineMsg'[t] = OfflineMsg[t]
  <2>1. CASE ClientReceive(s)
    <3>1. /\ UNCHANGED <<sessVars, goVars, link>>
          /\ \/ held' = held
             \/ held' = [held EXCEPT ![s] = @ \cup {Head(inbox[s]).pid}]
      BY <2>1 DEF ClientReceive
    <3> QED
      BY <1>1, <3>1 DEF ClientTypes, sessVars, goVars
  <2>2. CASE ClientReleased(s) \/ ClientPubRec(s) \/ ClientPubDone(s)
    BY <1>1, <2>2 DEF ClientReleased, ClientPubRec, ClientPubDone,
       ClientTypes, sessVars, goVars
  <2>3. CASE \E m \in Msg, id \in ClientPid \cup {NoPid} :
               ClientPublish(s, m, id)
    BY <2>3 DEF ClientPublish, sessVars, goVars
  <2>4. CASE Read(s) \/ AckPublish(s) \/ Exit(s)
    BY <1>1, <2>4 DEF Read, AckPublish, Exit, GoTypes, sessVars, netVars,
       clientVars
  <2>5. CASE Connect(s) \/ DispatchRecv(s) \/ Drop(s)
    BY <1>1, <2>5 DEF Connect, DispatchRecv, Drop, SessTypes, NetTypes,
       GoTypes, sessVars, goVars, netVars, clientVars
  <2> QED
    BY <2>1, <2>2, <2>3, <2>4, <2>5 DEF Client, Goroutine
<1>4. Handed(t) \/ Handed(t)' => dpc' = dpc /\ dmsg' = dmsg
  <2>1. CASE DispatchRecv(s)
    <3>1. dpc = "select" /\ dmsg'.from = s
      BY <2>1 DEF DispatchRecv
    <3> QED
      BY <3>1 DEF Handed
  <2>2. CASE ~ DispatchRecv(s)
    <3>1. UNCHANGED dispVars
      BY <2>2 DEF Client, ClientReceive, ClientReleased, ClientPubRec,
         ClientPubDone, Goroutine, Read, AckPublish, Exit, Connect, Drop,
         ClientPublish
    <3> QED
      BY <3>1 DEF dispVars
  <2> QED
    BY <2>1, <2>2
<1> QED
  BY <1>1, <1>2, <1>3, <1>4, ShiftedSame DEF DownSame

(* those of the dispatcher for others.                                      *)
LEMMA DownServer ==
  ASSUME TypeInv, BufferInv, NEW s \in ClientId,
         \/ UNCHANGED vars \/ \E m \in Msg : ClusterRecv(m)
         \/ BeginCluster \/ EndLoop
         \/ /\ dmsg.from # s
            /\ \/ BeginPublish \/ BeginRelease \/ ProcessPubAck
               \/ ProcessPubRec \/ ProcessPubComp \/ DropAck
         \/ \E t \in ClientId, id \in ServerPid :
              t # s /\ (VisitPublish(t, id) \/ VisitRelease(t, id))
  PROVE  DownSame(s)
<1>1. /\ NetTypes /\ SessTypes
      /\ inbox[s] \in Seq(Wire) /\ outbox[s] \in Seq(Wire)
  BY DEF TypeInv, NetTypes
<1>2. /\ SameOf(inbox[s], inbox[s], Forth)
      /\ SameOf(outbox[s], outbox[s], Return)
  BY <1>1, ShiftedSame
<1>3. CASE UNCHANGED vars
  BY <1>2, <1>3 DEF vars, sessVars, goVars, dispVars, netVars, clientVars,
     DownSame
<1>4. ASSUME UNCHANGED <<PubStatus, OfflineMsg, goVars, netVars, held>>,
             ~ Handed(s), ~ Handed(s)'
      PROVE  DownSame(s)
  BY <1>2, <1>4 DEF DownSame, goVars, netVars
<1>5. ASSUME NEW m \in Msg, ClusterRecv(m) PROVE DownSame(s)
  <2>1. /\ UNCHANGED <<PubStatus, OfflineMsg, goVars, netVars, held>>
        /\ dpc = "select"
    BY <1>5 DEF ClusterRecv, sessVars, clientVars
  <2>2. dpc' = "lock" /\ dmsg'.type = "CLUSTER"
    BY <1>5 DEF ClusterRecv, NoReq
  <2> QED
    BY <1>4, <2>1, <2>2 DEF Handed, Return
<1>6. CASE BeginCluster \/ EndLoop
  <2>1. /\ UNCHANGED <<PubStatus, OfflineMsg, goVars, netVars, held>>
        /\ dpc' # "lock"
        /\ dpc = "loop" \/ dmsg.type = "CLUSTER"
    BY <1>6 DEF BeginCluster, EndLoop, Processing, Loop, Unlock, sessVars,
       clientVars
  <2> QED
    BY <1>4, <2>1 DEF Handed, Return
<1>7. ASSUME dmsg.from # s,
             \/ BeginPublish \/ BeginRelease \/ ProcessPubAck
             \/ ProcessPubRec \/ ProcessPubComp \/ DropAck
      PROVE  DownSame(s)
  <2>1. /\ UNCHANGED <<OfflineMsg, goVars, link, outbox, held>>
        /\ dpc = "lock" /\ dpc' # "lock" /\ dmsg.type # "CLUSTER"
    BY <1>7 DEF BeginPublish, BeginRelease, ProcessPubAck, ProcessPubRec,
       ProcessPubComp, DropAck, Processing, Loop, Unlock, sessVars, netVars,
       clientVars, Acks
  <2>2. dmsg.from \in ClientId
    BY <2>1, HandFacts
  <2>3. PubStatus'[s] = PubStatus[s]
    <3>1. \/ PubStatus' = PubStatus
          \/ \E x \in Status : SetStatus(dmsg.from, dmsg.pid, x)
      BY <1>7 DEF BeginPublish, BeginRelease, ProcessPubAck, ProcessPubRec,
         ProcessPubComp, DropAck, Complete, sessVars, Status, Acks
    <3> QED
      BY <1>1, <1>7, <2>2, <3>1 DEF SetStatus, SessTypes
  <2>4. inbox'[s] = inbox[s]
    BY <1>1, <1>7, <2>2 DEF BeginPublish, BeginRelease, ProcessPubAck,
       ProcessPubRec, ProcessPubComp, DropAck, Complete, Write, netVars,
       NetTypes
  <2> QED
    BY <1>2, <1>7, <2>1, <2>3, <2>4 DEF DownSame, Handed, goVars
<1>8. ASSUME NEW t \in ClientId, NEW id \in ServerPid, t # s,
             VisitPublish(t, id) \/ VisitRelease(t, id)
      PROVE  DownSame(s)
  <2>1. /\ UNCHANGED <<goVars, dpc, dmsg, link, outbox, held>>
        /\ dpc = "loop"
    BY <1>8 DEF VisitPublish, VisitRelease, Visiting, clientVars
  <2>2. inbox'[s] = inbox[s] /\ OfflineMsg'[s] = OfflineMsg[s]
    BY <1>8, VisitCopies
  <2>3. PubStatus'[s] = PubStatus[s]
    <3>1. Qos[dmsg.msg] \in 0..2
      BY <2>1, MsgFacts DEF TypeInv, DispTypes
    <3>2. Qos[dmsg.msg] = 0 \/ Qos[dmsg.msg] = 1 \/ Qos[dmsg.msg] = 2
      BY <3>1
    <3>3. \/ PubStatus' = PubStatus
          \/ SetStatus(t, id, "PUBACK") \/ SetStatus(t, id, "PUBREC")
      BY <1>8, <3>2 DEF VisitPublish, VisitRelease
    <3> QED
      BY <1>1, <1>8, <3>3 DEF SetStatus, SessTypes
  <2> QED
    BY <1>2, <2>1, <2>2, <2>3 DEF DownSame, Handed, goVars
<1> QED
  BY <1>3, <1>5, <1>6, <1>7, <1>8

\* What may happen to s as a subscriber.
DownCases(s) ==
  \/ DownSame(s)
  \/ ClientReceive(s) \/ ClientReleased(s) \/ Drop(s) \/ Connect(s)
  \/ Read(s) \/ DispatchRecv(s)
  \/ /\ dmsg.from = s
     /\ \/ BeginPublish \/ BeginRelease \/ ProcessPubAck \/ ProcessPubRec
        \/ ProcessPubComp \/ DropAck
  \/ \E id \in ServerPid : VisitPublish(s, id) \/ VisitRelease(s, id)

(* For each client: what reaches it, what it answers and what becomes of    *)
(* the answer, and steps that do not concern it.                            *)
LEMMA DownStepsOf ==
  ASSUME TypeInv, BufferInv, [Next]_vars, NEW s \in ClientId
  PROVE  DownCases(s)
<1>1. CASE UNCHANGED vars \/ Dispatcher \/ \E m \in Msg : ClusterRecv(m)
  BY <1>1, DownServer DEF Dispatcher, DrawAgain, DownCases
<1>2. ASSUME NEW t \in ClientId,
             \/ Client(t) \/ Goroutine(t) \/ Connect(t) \/ DispatchRecv(t)
             \/ Drop(t)
             \/ \E m \in Msg, id \in ClientPid \cup {NoPid} :
                  ClientPublish(t, m, id)
      PROVE  DownCases(s)
  BY <1>2, DownPublisher, DownOther DEF Client, Goroutine, DownCases
<1> QED
  BY <1>1, <1>2 DEF Next, Idle

-----------------------------------------------------------------------------
(* The ids under which the server sends and awaits answers.                 *)

\* s is sent QoS 2 messages under ids of the server ...
SentTo(s) == \E m \in Msg : Qos[m] = 2 /\ s \in Subscribers[m]
Outgoing(s, id) == SentTo(s) /\ id \in ServerPid

\* ... and s publishes under ids of its own.
Publishing(s) == \E m \in Msg : Qos[m] = 2 /\ Publisher[m] = s

PpidInv == \A m \in Msg : ppid[m] \in ClientPid \cup {NoPid}

LoopInv == dpc = "loop" => todo \subseteq Subscribers[dmsg.msg]

QueuedInv ==
  \A s \in ClientId : \A i \in DOMAIN OfflineMsg[s] :
    /\ s \in Subscribers[OfflineMsg[s][i].msg]
    /\ OfflineMsg[s][i].pid \in ServerPid

OutgoingInv ==
  \A s \in ClientId, id \in Pid :
    PubStatus[s][id] \in {"PUBREC", "PUBCOMP"} => Outgoing(s, id)

SideInv == PpidInv /\ LoopInv /\ QueuedInv /\ OutgoingInv

\* What may become of an entry of PubStatus.
Answers(s, id) == dpc = "lock" /\ dmsg.from = s /\ dmsg.pid = id

StatusMoves(s, id) ==
  LET old == PubStatus[s][id]
      new == PubStatus'[s][id]
  IN
  \/ new = old
  \/ Connect(s) /\ id \in Awaited(s) /\ new = "PUBREC"
  \/ /\ Answers(s, id)
     /\ \/ BeginPublish /\ Qos[dmsg.msg] = 2 /\ new = "PUBREL"
        \/ BeginRelease /\ old = "PUBREL" /\ new = "none"
        \/ ProcessPubAck /\ old = "PUBACK" /\ new = "none"
        \/ ProcessPubRec /\ old = "PUBREC" /\ new = "PUBCOMP"
        \/ ProcessPubComp /\ old = "PUBCOMP" /\ new = "none"
  \/ /\ dpc = "loop" /\ s \in todo /\ id \in ServerPid /\ old = "none"
     /\ \/ Qos[dmsg.msg] = 1 /\ new = "PUBACK"
           /\ (VisitPublish(s, id) \/ VisitRelease(s, id))
        \/ Qos[dmsg.msg] = 2 /\ new = "PUBREC" /\ VisitRelease(s, id)

(* Each case of the dispatcher changes the one entry its message names.     *)
LEMMA StatusSet ==
  ASSUME SessTypes, NEW s \in ClientId, NEW id \in Pid,
         NEW t \in ClientId, NEW x \in Pid, NEW status,
         SetStatus(t, x, status)
  PROVE  IF s = t /\ id = x THEN PubStatus'[s][id] = status
         ELSE PubStatus'[s][id] = PubStatus[s][id]
  BY DEF SetStatus, SessTypes

LEMMA StatusMove ==
  ASSUME TypeInv, [Next]_vars, NEW s \in ClientId, NEW id \in Pid
  PROVE  StatusMoves(s, id)
<1>1. SessTypes
  BY DEF TypeInv
<1>2. PubStatus' = PubStatus => StatusMoves(s, id)
  BY DEF StatusMoves
<1>3. ASSUME NEW t \in ClientId,
             \/ Client(t) \/ Goroutine(t) \/ DispatchRecv(t) \/ Drop(t)
             \/ \E m \in Msg, x \in ClientPid \cup {NoPid} :
                  ClientPublish(t, m, x)
      PROVE  PubStatus' = PubStatus
  BY <1>3 DEF Client, ClientReceive, ClientReleased, ClientPubRec,
     ClientPubDone, Goroutine, Read, AckPublish, Exit, DispatchRecv, Drop,
     ClientPublish, sessVars
<1>4. ASSUME NEW t \in ClientId, Connect(t) PROVE StatusMoves(s, id)
  <2>1. PubStatus' = [PubStatus EXCEPT ![t] =
          [x \in Pid |-> IF x \in Awaited(t) THEN "PUBREC" ELSE @[x]]]
    BY <1>4 DEF Connect
  <2> QED
    BY <1>1, <1>4, <2>1 DEF StatusMoves, SessTypes
<1>5. CASE \/ BeginCluster \/ DropAck \/ EndLoop
           \/ BeginPublish /\ Qos[dmsg.msg] # 2
           \/ \E m \in Msg : ClusterRecv(m)
           \/ UNCHANGED vars
  BY <1>2, <1>5 DEF BeginCluster, DropAck, EndLoop, BeginPublish,
     ClusterRecv, sessVars, vars
<1>6. CASE \/ BeginPublish /\ Qos[dmsg.msg] = 2
           \/ BeginRelease \/ ProcessPubAck \/ ProcessPubRec
           \/ ProcessPubComp
  <2>1. dpc = "lock" /\ dmsg.type # "CLUSTER"
        /\ dmsg.from \in ClientId /\ dmsg.pid \in Pid
    BY <1>6, HandFacts DEF BeginPublish, BeginRelease, ProcessPubAck,
       ProcessPubRec, ProcessPubComp, Processing, Acks
  <2>2. CASE BeginPublish /\ Qos[dmsg.msg] = 2
    <3>1. SetStatus(dmsg.from, dmsg.pid, "PUBREL")
      BY <2>2 DEF BeginPublish
    <3> QED
      BY <1>1, <2>1, <2>2, <3>1, StatusSet DEF StatusMoves, Answers
  <2>3. CASE BeginRelease
    <3>1. /\ SetStatus(dmsg.from, dmsg.pid, "none")
          /\ PubStatus[dmsg.from][dmsg.pid] = "PUBREL"
      BY <2>3 DEF BeginRelease, Complete
    <3> QED
      BY <1>1, <2>1, <2>3, <3>1, StatusSet DEF StatusMoves, Answers
  <2>4. CASE ProcessPubAck
    <3>1. /\ SetStatus(dmsg.from, dmsg.pid, "none")
          /\ PubStatus[dmsg.from][dmsg.pid] = "PUBACK"
      BY <2>4 DEF ProcessPubAck
    <3> QED
      BY <1>1, <2>1, <2>4, <3>1, StatusSet DEF StatusMoves, Answers
  <2>5. CASE ProcessPubRec
    <3>1. /\ SetStatus(dmsg.from, dmsg.pid, "PUBCOMP")
          /\ PubStatus[dmsg.from][dmsg.pid] = "PUBREC"
      BY <2>5 DEF ProcessPubRec
    <3> QED
      BY <1>1, <2>1, <2>5, <3>1, StatusSet DEF StatusMoves, Answers
  <2>6. CASE ProcessPubComp
    <3>1. /\ SetStatus(dmsg.from, dmsg.pid, "none")
          /\ PubStatus[dmsg.from][dmsg.pid] = "PUBCOMP"
      BY <2>6 DEF ProcessPubComp
    <3> QED
      BY <1>1, <2>1, <2>6, <3>1, StatusSet DEF StatusMoves, Answers
  <2> QED
    BY <1>6, <2>2, <2>3, <2>4, <2>5, <2>6
<1>7. ASSUME NEW t \in ClientId, NEW x \in ServerPid,
             VisitPublish(t, x) \/ VisitRelease(t, x) \/ DrawAgain(t, x)
      PROVE  StatusMoves(s, id)
  <2>1. CASE DrawAgain(t, x)
    BY <1>2, <2>1 DEF DrawAgain, vars, sessVars
  <2>2. CASE VisitPublish(t, x) \/ VisitRelease(t, x)
    <3>1. /\ dpc = "loop" /\ t \in todo /\ PubStatus[t][x] = "none"
          /\ dmsg.msg \in Msg /\ x \in Pid
      BY <2>2, MsgFacts DEF VisitPublish, VisitRelease, Visiting, FreeId,
         TypeInv, DispTypes
    <3>2. Qos[dmsg.msg] = 0 \/ Qos[dmsg.msg] = 1 \/ Qos[dmsg.msg] = 2
      <4>1. Qos[dmsg.msg] \in 0..2
        BY <3>1, MsgFacts
      <4> QED
        BY <4>1
    <3>3. \/ PubStatus' = PubStatus
          \/ Qos[dmsg.msg] = 1 /\ SetStatus(t, x, "PUBACK")
          \/ /\ Qos[dmsg.msg] = 2 /\ SetStatus(t, x, "PUBREC")
             /\ VisitRelease(t, x)
      <4>1. CASE VisitPublish(t, x)
        BY <3>2, <4>1 DEF VisitPublish
      <4>2. CASE VisitRelease(t, x)
        BY <3>2, <4>2 DEF VisitRelease
      <4> QED
        BY <2>2, <4>1, <4>2
    <3> QED
      BY <1>1, <1>2, <2>2, <3>1, <3>3, StatusSet DEF StatusMoves
  <2> QED
    BY <1>7, <2>1, <2>2
<1> QED
  BY <1>2, <1>3, <1>4, <1>5, <1>6, <1>7 DEF Next, Dispatcher, Idle

(* Clients choose their ids; the server draws its own when it visits.       *)
LEMMA PpidStep ==
  ASSUME TypeInv, PpidInv, [Next]_vars
  PROVE  PpidInv'
<1>1. CASE ppid' = ppid
  BY <1>1 DEF PpidInv
<1>2. ASSUME NEW s \in ClientId, NEW m \in Msg,
             NEW id \in ClientPid \cup {NoPid}, ClientPublish(s, m, id)
      PROVE  PpidInv'
  BY <1>2, PublishSends DEF PpidInv, TypeInv, ClientTypes
<1>3. ASSUME NEW s \in ClientId, ClientPubRec(s) \/ ClientPubDone(s)
      PROVE  ppid' = ppid
  BY <1>3 DEF ClientPubRec, ClientPubDone
<1> QED
  BY <1>1, <1>2, <1>3, StillSteps DEF Still

LEMMA LoopStep ==
  ASSUME TypeInv, LoopInv, [Next]_vars
  PROVE  LoopInv'
<1>1. CASE UNCHANGED dispVars
  BY <1>1 DEF LoopInv, dispVars
<1>2. CASE dpc' # "loop"
  BY <1>2 DEF LoopInv
<1>3. ASSUME NEW m, Loop(m), dmsg \in Request
      PROVE  LoopInv'
  BY <1>3 DEF Loop, LoopInv, Request
<1>4. dmsg \in Request
  BY DEF TypeInv, DispTypes
<1>5. ASSUME NEW s \in ClientId, NEW id \in ServerPid,
             VisitPublish(s, id) \/ VisitRelease(s, id)
      PROVE  LoopInv'
  BY <1>5 DEF VisitPublish, VisitRelease, Visiting, LoopInv
<1>6. CASE BeginPublish \/ BeginCluster \/ BeginRelease
  <2>1. (\E m : Loop(m)) \/ Unlock
    BY <1>6 DEF BeginPublish, BeginCluster, BeginRelease
  <2> QED
    BY <1>2, <1>3, <1>4, <2>1 DEF Unlock
<1>7. CASE \/ ProcessPubAck \/ ProcessPubRec \/ ProcessPubComp \/ DropAck
           \/ EndLoop
  BY <1>2, <1>7 DEF ProcessPubAck, ProcessPubRec, ProcessPubComp, DropAck,
     EndLoop, Unlock
<1>8. ASSUME NEW m \in Msg, ClusterRecv(m) PROVE LoopInv'
  BY <1>2, <1>8 DEF ClusterRecv
<1>9. ASSUME NEW s \in ClientId,
             \/ Client(s) \/ Goroutine(s) \/ Connect(s) \/ DispatchRecv(s)
             \/ Drop(s)
             \/ \E m \in Msg, id \in ClientPid \cup {NoPid} :
                  ClientPublish(s, m, id)
      PROVE  LoopInv'
  BY <1>1, <1>2, <1>9 DEF Client, ClientReceive, ClientReleased,
     ClientPubRec, ClientPubDone, Goroutine, Read, AckPublish, Exit, Connect,
     DispatchRecv, Drop, ClientPublish
<1>10. CASE UNCHANGED vars
  BY <1>1, <1>10 DEF vars
<1> QED
  BY <1>5, <1>6, <1>7, <1>8, <1>9, <1>10, <1>1
  DEF Next, Dispatcher, Idle, DrawAgain, vars

LEMMA QueuedStep ==
  ASSUME TypeInv, BufferInv, LoopInv, QueuedInv, [Next]_vars
  PROVE  QueuedInv'
<1>1. ASSUME NEW s \in ClientId,
             OfflineMsg'[s] = OfflineMsg[s] \/ OfflineMsg'[s] = <<>>,
             NEW i \in DOMAIN OfflineMsg'[s]
      PROVE  /\ s \in Subscribers[OfflineMsg'[s][i].msg]
             /\ OfflineMsg'[s][i].pid \in ServerPid
  BY <1>1 DEF QueuedInv
<1>2. CASE OfflineMsg' = OfflineMsg
  BY <1>1, <1>2 DEF QueuedInv
<1>3. CASE \E s \in ClientId : ClientReceive(s) \/ Connect(s)
  <2>1. PICK s \in ClientId : ClientReceive(s) \/ Connect(s)
    BY <1>3
  <2>2. \A t \in ClientId : \/ OfflineMsg'[t] = OfflineMsg[t]
                            \/ OfflineMsg'[t] = <<>>
    BY <2>1, ReceiveCopies, ConnectCopies
  <2> QED
    BY <1>1, <2>2 DEF QueuedInv
<1>4. ASSUME NEW s \in ClientId, NEW id \in ServerPid,
             VisitPublish(s, id) \/ VisitRelease(s, id), NEW t \in ClientId,
             NEW i \in DOMAIN OfflineMsg'[t]
      PROVE  /\ t \in Subscribers[OfflineMsg'[t][i].msg]
             /\ OfflineMsg'[t][i].pid \in ServerPid
  <2>1. CASE OfflineMsg'[t] = OfflineMsg[t]
    BY <1>1, <1>4, <2>1
  <2>2. CASE OfflineMsg'[t] # OfflineMsg[t]
    <3> DEFINE e == [msg |-> dmsg.msg, pid |-> id]
    <3>1. /\ t = s /\ dpc = "loop" /\ dmsg.msg \in Msg
          /\ OfflineMsg'[t] = Append(OfflineMsg[t], e)
      BY <1>4, <2>2, VisitCopies
    <3>2. OfflineMsg[t] \in Seq(Queued) /\ e \in Queued
      BY <1>4, <3>1, MsgFacts DEF TypeInv, SessTypes, Queued
    <3>3. s \in Subscribers[dmsg.msg]
      BY <1>4, <3>1 DEF LoopInv, VisitPublish, VisitRelease, Visiting
    <3>4. e.msg = dmsg.msg /\ e.pid = id
      OBVIOUS
    <3> HIDE DEF e
    <3>5. \/ i \in DOMAIN OfflineMsg[t] /\ OfflineMsg'[t][i] = OfflineMsg[t][i]
          \/ OfflineMsg'[t][i] = e
      BY <1>4, <3>1, <3>2, AppendElements
    <3> QED
      BY <3>1, <3>3, <3>4, <3>5 DEF QueuedInv
  <2> QED
    BY <2>1, <2>2
<1> QED
  BY <1>2, <1>3, <1>4, DownSteps DEF QueuedInv, DownFrame

LEMMA OutgoingStep ==
  ASSUME TypeInv, LoopInv, QueuedInv, OutgoingInv, [Next]_vars
  PROVE  OutgoingInv'
<1> SUFFICES ASSUME NEW s \in ClientId, NEW id \in Pid,
                    PubStatus'[s][id] \in {"PUBREC", "PUBCOMP"}
             PROVE  Outgoing(s, id)
  BY DEF OutgoingInv, Outgoing, SentTo
<1>1. CASE PubStatus[s][id] \in {"PUBREC", "PUBCOMP"}
  BY <1>1 DEF OutgoingInv
<1>2. CASE Connect(s) /\ id \in Awaited(s)
  <2>1. PICK i \in DOMAIN OfflineMsg[s] :
          Qos[OfflineMsg[s][i].msg] = 2 /\ OfflineMsg[s][i].pid = id
    BY <1>2 DEF Awaited
  <2>2. OfflineMsg[s][i] \in Queued
    <3>1. OfflineMsg[s] \in Seq(Queued)
      BY DEF TypeInv, SessTypes
    <3> QED
      BY <3>1
  <2> QED
    BY <2>1, <2>2 DEF QueuedInv, Outgoing, SentTo, Queued
<1>3. CASE /\ dpc = "loop" /\ s \in todo /\ id \in ServerPid
           /\ Qos[dmsg.msg] = 2
  BY <1>3 DEF LoopInv, TypeInv, DispTypes, Outgoing, SentTo
<1> QED
  BY <1>1, <1>2, <1>3, StatusMove DEF StatusMoves

LEMMA SideStep ==
  ASSUME TypeInv, BufferInv, SideInv, [Next]_vars
  PROVE  SideInv'
  BY PpidStep, LoopStep, QueuedStep, OutgoingStep DEF SideInv

-----------------------------------------------------------------------------
(* QoS 2 to a subscriber: the entry in PubStatus and what is on its way.    *)

IsSent(p, id) == IsPublish2(p) /\ p.pid = id

SentIn(s, id) == \E k \in DOMAIN inbox[s] : IsSent(inbox[s][k], id)
RelIn(s, id)  == \E k \in DOMAIN inbox[s] : IsPubrel(inbox[s][k], id)
CompOut(s, id) == \E i \in DOMAIN outbox[s] : IsPubcomp(outbox[s][i], id)
CompRequest(s, id) == gpc[s] = "send" /\ IsPubcomp(req[s], id)

\* A PUBCOMP in the dispatcher's hand that it is going to accept.
CompHand(s, id) ==
  /\ dpc = "lock" /\ dmsg.from = s /\ IsPubcomp(dmsg, id)
  /\ PubStatus[s][id] = "PUBCOMP"

\* A message on its way is awaited; its PUBREL, of which there is one, is
\* behind it; and once the PUBCOMP is on its way nothing else is.  (Two
\* messages queued under one id are two PUBLISH of one flow.)
AwaitOf(s, id) ==
  /\ SentIn(s, id) => PubStatus[s][id] \in {"PUBREC", "PUBCOMP"}
  /\ SentIn(s, id) /\ PubStatus[s][id] = "PUBCOMP" => RelIn(s, id)
  /\ RelIn(s, id) \/ CompOut(s, id) \/ CompRequest(s, id) =>
       PubStatus[s][id] = "PUBCOMP"
  /\ \A k, l \in DOMAIN inbox[s] : IsPubrel(inbox[s][k], id) =>
       /\ IsPubrel(inbox[s][l], id) => l = k
       /\ IsSent(inbox[s][l], id) => l < k
  /\ \A i, j \in DOMAIN outbox[s] :
       IsPubcomp(outbox[s][i], id) /\ IsPubcomp(outbox[s][j], id) => j = i
  /\ CompOut(s, id) \/ CompRequest(s, id) \/ CompHand(s, id) =>
       ~ SentIn(s, id) /\ ~ RelIn(s, id)
  /\ CompOut(s, id) => ~ CompRequest(s, id) /\ ~ CompHand(s, id)
  /\ CompRequest(s, id) => ~ CompHand(s, id)

AwaitInv == \A s \in ClientId, id \in Pid : AwaitOf(s, id)

\* Nothing of this flow is on its way.
NoneOf(s, id) ==
  ~ SentIn(s, id) /\ ~ RelIn(s, id) /\ ~ CompOut(s, id) /\ ~ CompRequest(s, id)

\* What of this flow is on its way was before, in the same order.
Fewer(s, id) ==
  /\ \E d \in {0, 1} : \A k \in DOMAIN inbox'[s] :
       IsSent(inbox'[s][k], id) \/ IsPubrel(inbox'[s][k], id) =>
         k + d \in DOMAIN inbox[s] /\ inbox[s][k + d] = inbox'[s][k]
  /\ SentIn(s, id)' /\ RelIn(s, id) => RelIn(s, id)'
  /\ \E d \in Nat : \A i \in DOMAIN outbox'[s] :
       IsPubcomp(outbox'[s][i], id) =>
         i + d \in DOMAIN outbox[s] /\ outbox[s][i + d] = outbox'[s][i]
  /\ CompRequest(s, id)' => CompRequest(s, id)

LEMMA AwaitFrame ==
  ASSUME NetTypes', NEW s \in ClientId, NEW id \in Pid,
         Fewer(s, id), AwaitOf(s, id),
         \/ /\ PubStatus'[s][id] = PubStatus[s][id]
            /\ CompHand(s, id)' => CompHand(s, id)
         \/ NoneOf(s, id)
  PROVE  AwaitOf(s, id)'
<1>1. PICK d \in {0, 1} : \A k \in DOMAIN inbox'[s] :
        IsSent(inbox'[s][k], id) \/ IsPubrel(inbox'[s][k], id) =>
          k + d \in DOMAIN inbox[s] /\ inbox[s][k + d] = inbox'[s][k]
  BY DEF Fewer
<1>2. PICK e \in Nat : \A i \in DOMAIN outbox'[s] :
        IsPubcomp(outbox'[s][i], id) =>
          i + e \in DOMAIN outbox[s] /\ outbox[s][i + e] = outbox'[s][i]
  BY DEF Fewer
<1>3. /\ inbox'[s] \in Seq(Wire) /\ outbox'[s] \in Seq(Wire)
      /\ DOMAIN inbox'[s] \subseteq Nat /\ DOMAIN outbox'[s] \subseteq Nat
  BY DEF NetTypes
<1>4. /\ SentIn(s, id)' => SentIn(s, id)
      /\ RelIn(s, id)' => RelIn(s, id)
      /\ CompOut(s, id)' => CompOut(s, id)
      /\ CompRequest(s, id)' => CompRequest(s, id)
  <2>1. SentIn(s, id)' => SentIn(s, id)
    BY <1>1 DEF SentIn
  <2>2. RelIn(s, id)' => RelIn(s, id)
    BY <1>1 DEF RelIn
  <2>3. CompOut(s, id)' => CompOut(s, id)
    BY <1>2 DEF CompOut
  <2> QED
    BY <2>1, <2>2, <2>3 DEF Fewer
<1>5. ASSUME NEW k \in DOMAIN inbox'[s], NEW l \in DOMAIN inbox'[s],
             IsPubrel(inbox'[s][k], id)
      PROVE  /\ IsPubrel(inbox'[s][l], id) => l = k
             /\ IsSent(inbox'[s][l], id) => l < k
  <2>1. k + d \in DOMAIN inbox[s] /\ IsPubrel(inbox[s][k + d], id)
    BY <1>1, <1>5
  <2>2. /\ IsPubrel(inbox'[s][l], id) =>
             l + d \in DOMAIN inbox[s] /\ IsPubrel(inbox[s][l + d], id)
        /\ IsSent(inbox'[s][l], id) =>
             l + d \in DOMAIN inbox[s] /\ IsSent(inbox[s][l + d], id)
    BY <1>1
  <2>3. /\ IsPubrel(inbox'[s][l], id) => l + d = k + d
        /\ IsSent(inbox'[s][l], id) => l + d < k + d
    BY <2>1, <2>2 DEF AwaitOf
  <2>4. k \in Nat /\ l \in Nat
    BY <1>3
  <2> QED
    BY <2>3, <2>4
<1>6. ASSUME NEW i \in DOMAIN outbox'[s], NEW j \in DOMAIN outbox'[s],
             IsPubcomp(outbox'[s][i], id), IsPubcomp(outbox'[s][j], id)
      PROVE  j = i
  <2>1. /\ i + e \in DOMAIN outbox[s] /\ j + e \in DOMAIN outbox[s]
        /\ IsPubcomp(outbox[s][i + e], id) /\ IsPubcomp(outbox[s][j + e], id)
    BY <1>2, <1>6
  <2>2. j + e = i + e
    BY <2>1 DEF AwaitOf
  <2> QED
    BY <1>3, <2>2
<1>7. CASE NoneOf(s, id)
  BY <1>4, <1>5, <1>6, <1>7 DEF AwaitOf, NoneOf
<1>8. CASE /\ PubStatus'[s][id] = PubStatus[s][id]
           /\ CompHand(s, id)' => CompHand(s, id)
  BY <1>4, <1>5, <1>6, <1>8 DEF AwaitOf, Fewer
<1> QED
  BY <1>7, <1>8

\* The ids under which a client is sent messages are not those it uses
\* itself.
IdsApart ==
  \A s \in ClientId :
    SentTo(s) /\ Publishing(s) => ServerPid \cap ClientPid = {}

(* Without an entry nothing is on its way; entries of publishers are others.*)
LEMMA NoneAwaited ==
  ASSUME NEW s, NEW id, AwaitOf(s, id),
         PubStatus[s][id] \notin {"PUBREC", "PUBCOMP"}
  PROVE  NoneOf(s, id)
  BY DEF AwaitOf, NoneOf

LEMMA OwnIds ==
  ASSUME TypeInv, FlowInv, SideInv, IdsApart, BeginPublish, Qos[dmsg.msg] = 2
  PROVE  PubStatus[dmsg.from][dmsg.pid] \notin {"PUBREC", "PUBCOMP"}
<1>1. /\ dmsg.from \in ClientId /\ dmsg.msg \in Msg /\ dmsg.pid \in Pid
      /\ dpc = "lock" /\ IsPublish2(dmsg)
  BY HandFacts DEF BeginPublish, Processing, IsPublish2
<1>2. Published(dmsg.from, dmsg)
  BY <1>1 DEF FlowInv, DispatchInv
<1>3. dmsg.pid \in ClientPid /\ Publishing(dmsg.from)
  <2>1. ppid[dmsg.msg] = dmsg.pid /\ NoPid \notin Pid
    BY <1>2, MsgFacts DEF Published
  <2> QED
    BY <1>1, <1>2, <2>1 DEF SideInv, PpidInv, Published, Publishing
<1> QED
  BY <1>1, <1>3 DEF SideInv, OutgoingInv, Outgoing, IdsApart

(* Steps that leave the flow alone or take from it.                         *)
LEMMA AwaitSame ==
  ASSUME TypeInv', NEW s \in ClientId, NEW id \in Pid, DownSame(s),
         AwaitOf(s, id)
  PROVE  AwaitOf(s, id)'
<1>1. PICK d \in {0, 1} : Shifted(inbox[s], inbox'[s], d, Forth)
  BY DEF DownSame, SameOf
<1>2. PICK e \in {0, 1} : Shifted(outbox[s], outbox'[s], e, Return)
  BY DEF DownSame, SameOf
<1>3. \A k \in DOMAIN inbox'[s] :
        IsSent(inbox'[s][k], id) \/ IsPubrel(inbox'[s][k], id) =>
          k + d \in DOMAIN inbox[s] /\ inbox[s][k + d] = inbox'[s][k]
  BY <1>1 DEF Shifted, IsSent, IsPublish2, IsPubrel, Forth
<1>4. \A i \in DOMAIN outbox'[s] : IsPubcomp(outbox'[s][i], id) =>
        i + e \in DOMAIN outbox[s] /\ outbox[s][i + e] = outbox'[s][i]
  BY <1>2 DEF Shifted, IsPubcomp, Return
<1>5. CompRequest(s, id)' => CompRequest(s, id)
  BY DEF DownSame, CompRequest, Returned, IsPubcomp, Return
<1>6. CompHand(s, id)' => CompHand(s, id)
  BY DEF DownSame, CompHand, Handed, IsPubcomp, Return
<1>7. PubStatus'[s][id] = PubStatus[s][id]
  BY DEF DownSame
<1>7a. RelIn(s, id) => RelIn(s, id)'
  BY <1>1 DEF Shifted, RelIn, IsPubrel, Forth
<1>8. Fewer(s, id)
  BY <1>3, <1>4, <1>5, <1>7a DEF Fewer
<1> QED
  BY <1>6, <1>7, <1>8, AwaitFrame DEF TypeInv

LEMMA AwaitReceive ==
  ASSUME TypeInv, TypeInv', NEW s \in ClientId, NEW id \in Pid,
         ClientReceive(s), AwaitOf(s, id)
  PROVE  AwaitOf(s, id)'
<1>1. /\ NetTypes /\ inbox[s] # <<>> /\ Consume(s)
      /\ UNCHANGED <<sessVars, goVars, dispVars>>
  BY DEF ClientReceive, Arriving, TypeInv
<1>2. \A k \in DOMAIN inbox'[s] :
        k + 1 \in DOMAIN inbox[s] /\ inbox'[s][k] = inbox[s][k + 1]
  BY <1>1, ConsumeElements
<1>3. \A i \in DOMAIN outbox'[s] : IsPubcomp(outbox'[s][i], id) =>
        i + 0 \in DOMAIN outbox[s] /\ outbox[s][i + 0] = outbox'[s][i]
  <2>1. outbox[s] \in Seq(Wire) /\ DOMAIN outbox[s] = 1..Len(outbox[s])
        /\ Len(outbox[s]) \in Nat
    BY <1>1, Positions DEF NetTypes
  <2>2. CASE outbox' = outbox
    BY <2>1, <2>2
  <2>3. CASE \E p \in Wire : p.type \in {"PUBACK", "PUBREC"} /\ Send(s, p)
    <3>1. PICK p \in Wire : p.type \in {"PUBACK", "PUBREC"} /\ Send(s, p)
      BY <2>3
    <3>2. /\ DOMAIN outbox'[s] = 1..(Len(outbox[s]) + 1)
          /\ \A i \in DOMAIN outbox[s] : outbox'[s][i] = outbox[s][i]
          /\ outbox'[s][Len(outbox[s]) + 1] = p
      BY <1>1, <3>1, SendElements
    <3> QED
      BY <2>1, <3>1, <3>2 DEF IsPubcomp
  <2> QED
    BY <2>2, <2>3, ReceiveAnswer
<1>3a. RelIn(s, id) => RelIn(s, id)'
  <2>1. inbox[s][1].type = "PUBLISH"
    BY <1>1, ConsumeElements DEF ClientReceive, Arriving
  <2> QED
    BY <1>1, <2>1, ConsumeRest DEF RelIn, IsPubrel
<1>4. Fewer(s, id)
  BY <1>1, <1>2, <1>3, <1>3a DEF Fewer, CompRequest, goVars
<1>5. PubStatus'[s][id] = PubStatus[s][id]
      /\ (CompHand(s, id)' => CompHand(s, id))
  BY <1>1 DEF sessVars, dispVars, CompHand
<1> QED
  BY <1>4, <1>5, AwaitFrame DEF TypeInv

LEMMA AwaitReleased ==
  ASSUME TypeInv, TypeInv', NEW s \in ClientId, NEW id \in Pid,
         ClientReleased(s), AwaitOf(s, id)
  PROVE  AwaitOf(s, id)'
<1>1. /\ NetTypes /\ inbox[s] # <<>> /\ Consume(s)
      /\ UNCHANGED <<sessVars, goVars, dispVars>>
  BY DEF ClientReleased, Arriving, TypeInv
<1>2. \A k \in DOMAIN inbox'[s] :
        /\ k \in Nat \ {0}
        /\ k + 1 \in DOMAIN inbox[s] /\ inbox'[s][k] = inbox[s][k + 1]
  BY <1>1, ConsumeElements
<1>3. PICK p \in Wire : /\ p.type = "PUBCOMP" /\ p.pid = inbox[s][1].pid
                        /\ Send(s, p)
  <2>1. inbox[s][1] = Head(inbox[s])
    BY <1>1, ConsumeElements
  <2> QED
    BY <2>1, AckAnswer
<1>4. /\ 1 \in DOMAIN inbox[s] /\ IsPubrel(inbox[s][1], inbox[s][1].pid)
  <2>1. 1 \in DOMAIN inbox[s] /\ inbox[s][1] = Head(inbox[s])
    BY <1>1, ConsumeElements
  <2> QED
    BY <2>1, AckAnswer DEF IsPubrel
<1>5. /\ DOMAIN outbox[s] = 1..Len(outbox[s]) /\ Len(outbox[s]) \in Nat
      /\ DOMAIN outbox'[s] = 1..(Len(outbox[s]) + 1)
      /\ \A i \in DOMAIN outbox[s] : outbox'[s][i] = outbox[s][i]
      /\ outbox'[s][Len(outbox[s]) + 1] = p
  BY <1>1, <1>3, SendElements, Positions
<1>6. /\ PubStatus'[s][id] = PubStatus[s][id]
      /\ CompHand(s, id)' <=> CompHand(s, id)
      /\ CompRequest(s, id)' <=> CompRequest(s, id)
  BY <1>1 DEF sessVars, dispVars, goVars, CompHand, CompRequest
<1>7. CASE inbox[s][1].pid # id
  <2>1. \A i \in DOMAIN outbox'[s] : IsPubcomp(outbox'[s][i], id) =>
          i + 0 \in DOMAIN outbox[s] /\ outbox[s][i + 0] = outbox'[s][i]
    BY <1>3, <1>5, <1>7 DEF IsPubcomp
  <2>1a. RelIn(s, id) => RelIn(s, id)'
    BY <1>1, <1>7, ConsumeRest DEF RelIn, IsPubrel
  <2>2. Fewer(s, id)
    BY <1>2, <1>6, <2>1, <2>1a DEF Fewer
  <2> QED
    BY <1>6, <2>2, AwaitFrame DEF TypeInv
<1>8. CASE inbox[s][1].pid = id
  <2>1. /\ RelIn(s, id) /\ PubStatus[s][id] = "PUBCOMP"
        /\ ~ CompOut(s, id) /\ ~ CompRequest(s, id) /\ ~ CompHand(s, id)
    BY <1>4, <1>8 DEF RelIn, AwaitOf
  <2>2. ASSUME NEW k \in DOMAIN inbox'[s]
        PROVE  ~ IsSent(inbox'[s][k], id) /\ ~ IsPubrel(inbox'[s][k], id)
    <3>1. /\ k + 1 \in DOMAIN inbox[s] /\ inbox'[s][k] = inbox[s][k + 1]
          /\ k \in Nat \ {0}
      BY <1>2
    <3>2. /\ IsPubrel(inbox[s][k + 1], id) => k + 1 = 1
          /\ IsSent(inbox[s][k + 1], id) => k + 1 < 1
      BY <1>4, <1>8, <3>1 DEF AwaitOf
    <3> QED
      BY <3>1, <3>2
  <2>3. ~ SentIn(s, id)' /\ ~ RelIn(s, id)'
    BY <2>2 DEF SentIn, RelIn
  <2>4. ASSUME NEW i \in DOMAIN outbox'[s], IsPubcomp(outbox'[s][i], id)
        PROVE  i = Len(outbox[s]) + 1
    BY <1>5, <2>1, <2>4 DEF CompOut
  <2> QED
    BY <1>6, <2>1, <2>2, <2>3, <2>4 DEF AwaitOf
<1> QED
  BY <1>7, <1>8

LEMMA AwaitDrop ==
  ASSUME TypeInv, TypeInv', NEW s \in ClientId, NEW id \in Pid,
         Drop(s), AwaitOf(s, id)
  PROVE  AwaitOf(s, id)'
<1>1. /\ inbox'[s] = <<>> /\ outbox'[s] = <<>>
      /\ UNCHANGED <<sessVars, goVars, dispVars>>
  BY DEF Drop, TypeInv, NetTypes
<1>2. Fewer(s, id)
  BY <1>1 DEF Fewer, CompRequest, SentIn, goVars
<1>3. PubStatus'[s][id] = PubStatus[s][id]
      /\ (CompHand(s, id)' => CompHand(s, id))
  BY <1>1 DEF sessVars, dispVars, CompHand
<1> QED
  BY <1>2, <1>3, AwaitFrame DEF TypeInv

(* The client comes back: what was queued for it goes out, and is awaited.  *)
LEMMA AwaitConnect ==
  ASSUME TypeInv, TypeInv', NEW s \in ClientId, NEW id \in Pid,
         Connect(s), AwaitOf(s, id)
  PROVE  AwaitOf(s, id)'
<1>1. /\ gpc'[s] = "read" /\ UNCHANGED dispVars
      /\ PubStatus'[s][id] = IF id \in Awaited(s) THEN "PUBREC"
                             ELSE PubStatus[s][id]
  BY DEF Connect, TypeInv, GoTypes, SessTypes
<1>2. ~ CompRequest(s, id)'
  BY <1>1 DEF CompRequest
<1>3. ~ CompOut(s, id)'
  <2>1. \A i \in DOMAIN outbox'[s] : outbox'[s][i].type # "PUBCOMP"
    BY ConnectSends DEF IsPublish
  <2> QED
    BY <2>1 DEF CompOut, IsPubcomp
<1>4. ~ RelIn(s, id)'
  BY ConnectCopies DEF RelIn, IsPubrel
<1>5. SentIn(s, id)' => id \in Awaited(s)
  <2> SUFFICES ASSUME NEW k \in DOMAIN inbox'[s], IsSent(inbox'[s][k], id)
               PROVE  id \in Awaited(s)
    BY DEF SentIn
  <2>1. /\ k \in DOMAIN OfflineMsg[s]
        /\ Qos[OfflineMsg[s][k].msg] = 2 /\ OfflineMsg[s][k].pid = id
    BY ConnectCopies DEF IsSent, IsPublish2
  <2> QED
    BY <2>1 DEF Awaited
<1>6. CompHand(s, id)' => id \notin Awaited(s)
  BY <1>1 DEF CompHand
<1> QED
  BY <1>1, <1>2, <1>3, <1>4, <1>5, <1>6 DEF AwaitOf, RelIn, CompOut

(* The goroutine reads, the dispatcher takes.                               *)
LEMMA AwaitRead ==
  ASSUME TypeInv, TypeInv', NEW s \in ClientId, NEW id \in Pid,
         Read(s), AwaitOf(s, id)
  PROVE  AwaitOf(s, id)'
<1>1. /\ NetTypes /\ gpc[s] = "read" /\ gpc'[s] = "send"
      /\ UNCHANGED <<sessVars, dispVars, inbox>>
      /\ inbox[s] \in Seq(Wire)
  BY DEF Read, TypeInv, GoTypes, NetTypes
<1>2. PICK n \in Nat \ {0} :
        /\ 1 \in DOMAIN outbox[s] /\ req'[s] = outbox[s][1]
        /\ \A i \in DOMAIN outbox'[s] :
             /\ i \in Nat \ {0}
             /\ i + n \in DOMAIN outbox[s]
             /\ outbox'[s][i] = outbox[s][i + n]
  BY <1>1, ReadElements DEF TypeInv, GoTypes, Takes
<1>3. /\ PubStatus'[s][id] = PubStatus[s][id] /\ inbox'[s] = inbox[s]
      /\ CompHand(s, id)' <=> CompHand(s, id)
      /\ ~ CompRequest(s, id)
  BY <1>1 DEF sessVars, dispVars, CompHand, CompRequest
<1>4. CASE ~ IsPubcomp(outbox[s][1], id)
  <2>1. ~ CompRequest(s, id)'
    BY <1>2, <1>4 DEF CompRequest
  <2>2. Fewer(s, id)
    <3>1. \A k \in DOMAIN inbox'[s] :
            k + 0 \in DOMAIN inbox[s] /\ inbox[s][k + 0] = inbox'[s][k]
      BY <1>1, <1>3
    <3>2. RelIn(s, id) => RelIn(s, id)'
      BY <1>1 DEF RelIn
    <3> QED
      BY <1>2, <2>1, <3>1, <3>2 DEF Fewer
  <2> QED
    BY <1>3, <2>2, AwaitFrame DEF TypeInv
<1>5. CASE IsPubcomp(outbox[s][1], id)
  <2>1. CompOut(s, id)
    BY <1>2, <1>5 DEF CompOut
  <2>2. ~ CompOut(s, id)'
    <3>1. ASSUME NEW i \in DOMAIN outbox'[s], IsPubcomp(outbox'[s][i], id)
          PROVE  FALSE
      <4>1. i + n \in DOMAIN outbox[s] /\ IsPubcomp(outbox[s][i + n], id)
        BY <1>2, <3>1
      <4>2. i + n = 1
        BY <1>2, <1>5, <4>1 DEF AwaitOf
      <4> QED
        BY <1>2, <3>1, <4>2
    <3> QED
      BY <3>1 DEF CompOut
  <2>3. /\ SentIn(s, id)' <=> SentIn(s, id)
        /\ RelIn(s, id)' <=> RelIn(s, id)
    BY <1>3 DEF SentIn, RelIn
  <2>4. PubStatus[s][id] = "PUBCOMP" /\ ~ SentIn(s, id) /\ ~ RelIn(s, id)
        /\ ~ CompHand(s, id)
    BY <2>1 DEF AwaitOf
  <2> QED
    BY <1>3, <2>2, <2>3, <2>4 DEF AwaitOf, SentIn, RelIn, CompOut
<1> QED
  BY <1>4, <1>5

LEMMA AwaitTake ==
  ASSUME TypeInv, TypeInv', NEW s \in ClientId, NEW id \in Pid,
         DispatchRecv(s), AwaitOf(s, id)
  PROVE  AwaitOf(s, id)'
<1>1. /\ gpc[s] = "send" /\ gpc'[s] # "send"
      /\ UNCHANGED <<sessVars, netVars>>
      /\ dmsg'.type = req[s].type /\ dmsg'.pid = req[s].pid
  BY DEF DispatchRecv, TypeInv, GoTypes
<1>2. /\ PubStatus'[s][id] = PubStatus[s][id]
      /\ inbox'[s] = inbox[s] /\ outbox'[s] = outbox[s]
      /\ ~ CompRequest(s, id)'
  BY <1>1 DEF sessVars, netVars, CompRequest
<1>3. CompHand(s, id)' => CompRequest(s, id) /\ PubStatus[s][id] = "PUBCOMP"
  BY <1>1, <1>2 DEF CompHand, CompRequest, IsPubcomp
<1>4. /\ SentIn(s, id)' <=> SentIn(s, id)
      /\ RelIn(s, id)' <=> RelIn(s, id)
      /\ CompOut(s, id)' <=> CompOut(s, id)
  BY <1>2 DEF SentIn, RelIn, CompOut
<1> QED
  BY <1>2, <1>3, <1>4 DEF AwaitOf

(* What the dispatcher writes goes to the end.                              *)
LEMMA WriteFewer ==
  ASSUME NetTypes, NEW s \in ClientId, NEW id \in Pid,
         NEW ps \in Seq(Wire),
         inbox'[s] = inbox[s] \/ inbox'[s] = inbox[s] \o ps,
         \A i \in DOMAIN ps :
           ~ IsSent(ps[i], id) /\ ~ IsPubrel(ps[i], id),
         UNCHANGED <<outbox, goVars>>
  PROVE  Fewer(s, id)
<1>1. /\ inbox[s] \in Seq(Wire) /\ outbox[s] \in Seq(Wire)
      /\ DOMAIN inbox[s] = 1..Len(inbox[s]) /\ Len(inbox[s]) \in Nat
      /\ DOMAIN outbox[s] = 1..Len(outbox[s]) /\ Len(outbox[s]) \in Nat
  BY DEF NetTypes
<1>2. \A k \in DOMAIN inbox'[s] :
        IsSent(inbox'[s][k], id) \/ IsPubrel(inbox'[s][k], id) =>
          k + 0 \in DOMAIN inbox[s] /\ inbox[s][k + 0] = inbox'[s][k]
  <2>1. CASE inbox'[s] = inbox[s]
    BY <1>1, <2>1
  <2>2. CASE inbox'[s] # inbox[s]
    <3> DEFINE r == inbox[s] \o ps
    <3>1. inbox'[s] = r
      BY <2>2
    <3>2. /\ DOMAIN r = 1..(Len(inbox[s]) + Len(ps)) /\ Len(ps) \in Nat
          /\ DOMAIN ps = 1..Len(ps)
          /\ \A k \in 1..(Len(inbox[s]) + Len(ps)) : r[k] =
               IF k <= Len(inbox[s]) THEN inbox[s][k]
               ELSE ps[k - Len(inbox[s])]
      BY <1>1, ConcatProperties
    <3> HIDE DEF r
    <3>3. ASSUME NEW k \in DOMAIN r, k > Len(inbox[s])
          PROVE  ~ IsSent(r[k], id) /\ ~ IsPubrel(r[k], id)
      <4>1. k - Len(inbox[s]) \in DOMAIN ps /\ r[k] = ps[k - Len(inbox[s])]
        BY <1>1, <3>2, <3>3
      <4> QED
        BY <4>1
    <3> QED
      BY <1>1, <3>1, <3>2, <3>3
  <2> QED
    BY <2>1, <2>2
<1>3. \A i \in DOMAIN outbox'[s] :
        i + 0 \in DOMAIN outbox[s] /\ outbox[s][i + 0] = outbox'[s][i]
  BY <1>1
<1>4. CompRequest(s, id)' => CompRequest(s, id)
  BY DEF goVars, CompRequest
<1>5. RelIn(s, id) => RelIn(s, id)'
  <2>1. CASE inbox'[s] = inbox[s]
    BY <2>1 DEF RelIn
  <2>2. CASE inbox'[s] = inbox[s] \o ps
    <3>1. \A k \in DOMAIN inbox[s] :
            k \in DOMAIN inbox'[s] /\ inbox'[s][k] = inbox[s][k]
      BY <1>1, <2>2, ConcatProperties
    <3> QED
      BY <3>1 DEF RelIn
  <2> QED
    BY <2>1, <2>2
<1> QED
  BY <1>2, <1>3, <1>4, <1>5 DEF Fewer

(* The dispatcher answers what it took from s.                              *)
LEMMA AwaitAnswer ==
  ASSUME TypeInv, TypeInv', FlowInv, SideInv, IdsApart, [Next]_vars,
         NEW s \in ClientId, NEW id \in Pid, dmsg.from = s,
         \/ BeginPublish \/ BeginRelease \/ ProcessPubAck \/ ProcessPubComp
         \/ DropAck,
         AwaitOf(s, id)
  PROVE  AwaitOf(s, id)'
<1>1. /\ UNCHANGED <<outbox, goVars>> /\ dpc' # "lock"
      /\ dpc = "lock" /\ dmsg.type # "CLUSTER"
  BY DEF BeginPublish, BeginRelease, ProcessPubAck, ProcessPubComp, DropAck,
     Processing, Loop, Unlock, netVars, Acks
<1>2. NetTypes /\ inbox[s] \in Seq(Wire)
  BY DEF TypeInv, NetTypes
<1>3. Fewer(s, id)
  <2>1. CASE BeginRelease
    <3> DEFINE p == Ack("PUBCOMP", dmsg.pid)
    <3>1. Write(s, <<p>>) /\ dmsg.pid \in Pid
      BY <1>1, <2>1, HandFacts DEF BeginRelease, Complete, Processing, Acks
    <3>2. p \in Wire /\ p.type = "PUBCOMP"
      BY <3>1, PacketFacts DEF Ack, Acks
    <3> HIDE DEF p
    <3>3. <<p>> \in Seq(Wire)
          /\ \A i \in DOMAIN <<p>> :
               ~ IsSent(<<p>>[i], id) /\ ~ IsPubrel(<<p>>[i], id)
      BY <3>2 DEF IsSent, IsPublish2, IsPubrel
    <3>4. inbox'[s] = inbox[s] \/ inbox'[s] = inbox[s] \o <<p>>
      BY <1>2, <3>1 DEF Write, NetTypes
    <3> QED
      BY <1>1, <1>2, <3>3, <3>4, WriteFewer
  <2>2. CASE ~ BeginRelease
    <3>1. inbox'[s] = inbox[s]
      BY <2>2 DEF BeginPublish, ProcessPubAck, ProcessPubComp, DropAck,
         netVars
    <3>2. <<>> \in Seq(Wire) /\ \A i \in DOMAIN <<>> : FALSE
      OBVIOUS
    <3> QED
      BY <1>1, <1>2, <3>1, <3>2, WriteFewer
  <2> QED
    BY <2>1, <2>2
<1>4. CASE PubStatus'[s][id] = PubStatus[s][id]
  <2>1. ~ CompHand(s, id)'
    BY <1>1 DEF CompHand
  <2> QED
    BY <1>3, <1>4, <2>1, AwaitFrame DEF TypeInv
<1>5. CASE PubStatus'[s][id] # PubStatus[s][id]
  <2>1. /\ dmsg.pid = id
        /\ \/ BeginPublish /\ Qos[dmsg.msg] = 2
           \/ PubStatus[s][id] \in {"PUBREL", "PUBACK"}
           \/ ProcessPubComp /\ PubStatus[s][id] = "PUBCOMP"
    <3>1. ~ Connect(s) /\ dpc # "loop" /\ ~ ProcessPubRec
      BY <1>1 DEF Connect, dispVars, ProcessPubRec, BeginPublish,
         BeginRelease, ProcessPubAck, ProcessPubComp, DropAck, Processing,
         Unlock, Loop, Acks
    <3> QED
      BY <1>5, <3>1, StatusMove DEF StatusMoves, Answers
  <2>2. NoneOf(s, id)
    <3>1. CASE ProcessPubComp /\ PubStatus[s][id] = "PUBCOMP"
      <4>1. CompHand(s, id)
        BY <1>1, <2>1, <3>1 DEF CompHand, ProcessPubComp, Processing,
           IsPubcomp
      <4> QED
        BY <4>1 DEF AwaitOf, NoneOf
    <3>2. CASE BeginPublish /\ Qos[dmsg.msg] = 2
      BY <2>1, <3>2, OwnIds, NoneAwaited
    <3> QED
      BY <2>1, <3>1, <3>2, NoneAwaited
  <2> QED
    BY <1>3, <2>2, AwaitFrame DEF TypeInv
<1> QED
  BY <1>4, <1>5

(* It answers PUBREC with PUBREL.                                           *)
LEMMA AwaitPubRec ==
  ASSUME TypeInv, TypeInv', ConnInv, [Next]_vars,
         NEW s \in ClientId, NEW id \in Pid, dmsg.from = s,
         ProcessPubRec, AwaitOf(s, id)
  PROVE  AwaitOf(s, id)'
<1> DEFINE p == Ack("PUBREL", dmsg.pid)
<1>1. /\ UNCHANGED <<outbox, goVars>> /\ dpc' # "lock"
      /\ dpc = "lock" /\ dmsg.type = "PUBREC"
      /\ PubStatus[s][dmsg.pid] = "PUBREC"
      /\ SetStatus(s, dmsg.pid, "PUBCOMP") /\ Write(s, <<p>>)
  BY DEF ProcessPubRec, Processing, Unlock
<1>2. /\ NetTypes /\ inbox[s] \in Seq(Wire) /\ SessTypes
      /\ dmsg.pid \in Pid
  BY <1>1, HandFacts DEF TypeInv, NetTypes, Acks
<1>3. p \in Wire /\ IsPubrel(p, dmsg.pid) /\ ~ IsSent(p, id)
  BY <1>2, PacketFacts DEF Ack, Acks, IsPubrel, IsSent, IsPublish2
<1> HIDE DEF p
<1>4. ~ CompHand(s, id)'
  BY <1>1 DEF CompHand
<1>5. CASE dmsg.pid # id
  <2>1. <<p>> \in Seq(Wire)
        /\ \A i \in DOMAIN <<p>> :
             ~ IsSent(<<p>>[i], id) /\ ~ IsPubrel(<<p>>[i], id)
    BY <1>3, <1>5 DEF IsPubrel
  <2>2. inbox'[s] = inbox[s] \/ inbox'[s] = inbox[s] \o <<p>>
    BY <1>1, <1>2 DEF Write, NetTypes
  <2>3. Fewer(s, id)
    BY <1>1, <1>2, <2>1, <2>2, WriteFewer
  <2>4. PubStatus'[s][id] = PubStatus[s][id]
    BY <1>1, <1>2, <1>5, StatusSet
  <2> QED
    BY <1>4, <2>3, <2>4, AwaitFrame DEF TypeInv
<1>6. CASE dmsg.pid = id
  <2>1. PubStatus'[s][id] = "PUBCOMP"
    BY <1>1, <1>2, <1>6, StatusSet
  <2>2. ~ RelIn(s, id) /\ ~ CompOut(s, id) /\ ~ CompRequest(s, id)
    BY <1>1, <1>6 DEF AwaitOf
  <2>3. ~ CompOut(s, id)' /\ ~ CompRequest(s, id)'
    BY <1>1, <2>2 DEF CompOut, CompRequest, goVars
  <2>4. \A k \in DOMAIN inbox'[s] :
          \/ k \in DOMAIN inbox[s] /\ inbox'[s][k] = inbox[s][k]
          \/ /\ inbox'[s][k] = p /\ k = Len(inbox[s]) + 1 /\ k \in Nat
             /\ \A l \in DOMAIN inbox[s] : l < k
    BY <1>1, <1>2, <1>3, WriteElements
  <2>5. ASSUME NEW k \in DOMAIN inbox'[s], NEW l \in DOMAIN inbox'[s],
               IsPubrel(inbox'[s][k], id)
        PROVE  /\ IsPubrel(inbox'[s][l], id) => l = k
               /\ IsSent(inbox'[s][l], id) => l < k
    <3>1. /\ inbox'[s][k] = p /\ k = Len(inbox[s]) + 1
          /\ \A x \in DOMAIN inbox[s] : x < k
      BY <2>2, <2>4, <2>5 DEF RelIn
    <3>2. CASE l \in DOMAIN inbox[s] /\ inbox'[s][l] = inbox[s][l]
      BY <2>2, <3>1, <3>2 DEF RelIn
    <3>3. CASE inbox'[s][l] = p /\ l = Len(inbox[s]) + 1
      BY <1>3, <3>1, <3>3
    <3> QED
      BY <2>4, <3>2, <3>3
  <2>6. SentIn(s, id)' => RelIn(s, id)'
    <3>1. CASE link[s]
      <4>1. \E k \in DOMAIN inbox'[s] : inbox'[s][k] = p
        BY <1>1, <1>2, <1>3, <3>1, WriteElements
      <4> QED
        BY <1>3, <1>6, <4>1 DEF RelIn
    <3>2. CASE ~ link[s]
      <4>1. inbox'[s] = <<>>
        BY <1>1, <1>2, <3>2 DEF Write, ConnInv
      <4> QED
        BY <4>1 DEF SentIn
    <3> QED
      BY <3>1, <3>2
  <2> QED
    BY <1>4, <2>1, <2>3, <2>5, <2>6 DEF AwaitOf, CompOut
<1> QED
  BY <1>5, <1>6

(* The loop: an id that is free is not in use for a message on its way.     *)
LEMMA AwaitVisit ==
  ASSUME TypeInv, TypeInv', BufferInv, [Next]_vars,
         NEW s \in ClientId, NEW id \in Pid, NEW x \in ServerPid,
         VisitPublish(s, x) \/ VisitRelease(s, x), AwaitOf(s, id)
  PROVE  AwaitOf(s, id)'
<1>1. /\ UNCHANGED <<outbox, goVars>>
      /\ dpc' = "loop" /\ dpc = "loop" /\ dmsg.msg \in Msg
  BY VisitCopies DEF VisitPublish, VisitRelease, Visiting
<1>2. NetTypes /\ inbox[s] \in Seq(Wire) /\ SessTypes /\ x \in Pid
  BY MsgFacts DEF TypeInv, NetTypes
<1>3. ~ CompHand(s, id)'
  BY <1>1 DEF CompHand
<1>4. PubStatus'[s][id] # PubStatus[s][id] => NoneOf(s, id)
  <2> SUFFICES ASSUME PubStatus'[s][id] # PubStatus[s][id]
               PROVE  NoneOf(s, id)
    OBVIOUS
  <2>1. ~ Connect(s) /\ ~ Answers(s, id)
    BY <1>1 DEF Connect, Answers
  <2>2. PubStatus[s][id] = "none"
    BY <2>1, StatusMove DEF StatusMoves
  <2> QED
    BY <2>2, NoneAwaited
<1>5. ASSUME NEW ps \in Seq(Wire),
             inbox'[s] = inbox[s] \/ inbox'[s] = inbox[s] \o ps,
             \A i \in DOMAIN ps : ~ IsSent(ps[i], id) /\ ~ IsPubrel(ps[i], id)
      PROVE  AwaitOf(s, id)'
  <2>1. Fewer(s, id)
    BY <1>1, <1>2, <1>5, WriteFewer
  <2> QED
    BY <1>3, <1>4, <2>1, AwaitFrame DEF TypeInv
<1>6. CASE inbox'[s] = inbox[s]
  <2>1. <<>> \in Seq(Wire) /\ \A i \in DOMAIN <<>> : FALSE
    OBVIOUS
  <2> QED
    BY <1>5, <1>6, <2>1
<1>7. CASE inbox'[s] # inbox[s] /\ Qos[dmsg.msg] # 2
  <2>1. Batch(inbox[s], inbox'[s], dmsg.msg)
    BY <1>7, VisitCopies
  <2>2. PICK ps \in Seq(Wire) :
          /\ inbox'[s] = inbox[s] \o ps
          /\ \A i \in DOMAIN ps :
               ps[i].type = "PUBLISH" /\ ps[i].msg = dmsg.msg
    BY <2>1 DEF Batch
  <2>3. \A i \in DOMAIN ps : ~ IsSent(ps[i], id) /\ ~ IsPubrel(ps[i], id)
    BY <1>7, <2>2 DEF IsSent, IsPublish2, IsPubrel
  <2> QED
    BY <1>5, <2>2, <2>3
<1>8. CASE inbox'[s] # inbox[s] /\ Qos[dmsg.msg] = 2
  <2> DEFINE p == Publish(dmsg.msg, x)
  <2>1. /\ VisitRelease(s, x) /\ LoginSuccess[s]
    BY <1>8 DEF VisitPublish, VisitRelease, SentNow
  <2>2. Write(s, <<p>>) /\ SetStatus(s, x, "PUBREC")
    BY <1>8, <2>1 DEF VisitRelease, WireId
  <2>3. p \in Wire /\ p.pid = x /\ ~ IsPubrel(p, id)
    BY <1>1, <1>2, PacketFacts DEF Publish, IsPubrel
  <2> HIDE DEF p
  <2>4. CASE x # id
    <3>1. <<p>> \in Seq(Wire)
          /\ \A i \in DOMAIN <<p>> :
               ~ IsSent(<<p>>[i], id) /\ ~ IsPubrel(<<p>>[i], id)
      BY <2>3, <2>4 DEF IsSent
    <3>2. inbox'[s] = inbox[s] \o <<p>>
      BY <1>2, <1>8, <2>2 DEF Write, NetTypes
    <3> QED
      BY <1>5, <3>1, <3>2
  <2>5. CASE x = id
    <3>1. PubStatus'[s][id] = "PUBREC" /\ PubStatus[s][id] = "none"
      BY <1>2, <2>1, <2>2, <2>5, StatusSet DEF VisitRelease, Visiting, FreeId
    <3>2. NoneOf(s, id)
      BY <3>1, NoneAwaited
    <3>3. ~ CompOut(s, id)' /\ ~ CompRequest(s, id)'
      BY <1>1, <3>2 DEF NoneOf, CompOut, CompRequest, goVars
    <3>4. ~ RelIn(s, id)'
      <4>1. \A k \in DOMAIN inbox'[s] :
              \/ k \in DOMAIN inbox[s] /\ inbox'[s][k] = inbox[s][k]
              \/ inbox'[s][k] = p
        BY <1>2, <2>2, <2>3, WriteElements
      <4> QED
        BY <2>3, <3>2, <4>1 DEF NoneOf, RelIn
    <3> QED
      BY <1>3, <3>1, <3>3, <3>4 DEF AwaitOf, RelIn, CompOut
  <2> QED
    BY <2>4, <2>5
<1> QED
  BY <1>6, <1>7, <1>8

LEMMA AwaitStep ==
  ASSUME TypeInv, TypeInv', FlowInv, ConnInv, BufferInv, SideInv, IdsApart,
         AwaitInv, [Next]_vars
  PROVE  AwaitInv'
<1> SUFFICES ASSUME NEW s \in ClientId, NEW id \in Pid
             PROVE  AwaitOf(s, id)'
  BY DEF AwaitInv
<1>1. AwaitOf(s, id)
  BY DEF AwaitInv
<1>2. CASE \/ DownSame(s) \/ ClientReceive(s) \/ ClientReleased(s) \/ Drop(s)
           \/ Connect(s) \/ Read(s) \/ DispatchRecv(s)
  BY <1>1, <1>2, AwaitSame, AwaitReceive, AwaitReleased, AwaitDrop,
     AwaitConnect, AwaitRead, AwaitTake
<1>3. CASE /\ dmsg.from = s
           /\ \/ BeginPublish \/ BeginRelease \/ ProcessPubAck
              \/ ProcessPubRec \/ ProcessPubComp \/ DropAck
  BY <1>1, <1>3, AwaitAnswer, AwaitPubRec
<1>4. CASE \E x \in ServerPid : VisitPublish(s, x) \/ VisitRelease(s, x)
  BY <1>1, <1>4, AwaitVisit
<1> QED
  BY <1>2, <1>3, <1>4, DownStepsOf DEF DownCases

(* For any clients, messages and lost connections, with ids of the server   *)
(* that are not used by the clients it sends QoS 2 messages to.             *)
LEMMA AwaitInvariant ==
  ASSUME IdsApart
  PROVE  Spec => [](SideInv /\ AwaitInv)
<1>1. Init => SideInv /\ AwaitInv
  <2> SUFFICES ASSUME Init PROVE SideInv /\ AwaitInv
    OBVIOUS
  <2>1. /\ \A s \in ClientId : /\ inbox[s] = <<>> /\ outbox[s] = <<>>
                               /\ gpc[s] \in {"read", "off"}
                               /\ OfflineMsg[s] = <<>>
                               /\ \A id \in Pid : PubStatus[s][id] = "none"
        /\ dpc = "select"
        /\ \A m \in Msg : ppid[m] = NoPid
    BY DEF Init
  <2>2. SideInv
    BY <2>1 DEF SideInv, PpidInv, LoopInv, QueuedInv, OutgoingInv
  <2>3. AwaitInv
    BY <2>1 DEF AwaitInv, AwaitOf, SentIn, RelIn, CompOut, CompRequest,
       CompHand
  <2> QED
    BY <2>2, <2>3
<1>2. DispInv /\ BasicInv /\ SideInv /\ AwaitInv /\ [Next]_vars =>
        SideInv' /\ AwaitInv'
  <2> SUFFICES ASSUME DispInv, BasicInv, SideInv, AwaitInv, [Next]_vars
               PROVE  SideInv' /\ AwaitInv'
    OBVIOUS
  <2>1. TypeInv /\ FlowInv /\ ConnInv /\ BufferInv
    BY DEF DispInv, BasicInv
  <2>2. TypeInv'
    BY <2>1, TypeStep
  <2> QED
    BY <2>1, <2>2, SideStep, AwaitStep
<1>3. DispInv /\ BasicInv /\ DeliveryOrderInv => DispInv /\ BasicInv
  OBVIOUS
<1> QED
  BY <1>1, <1>2, <1>3, DeliveryOrderInvariant, PTL DEF Spec

(* For any clients, messages and lost connections: the server awaits the    *)
(* PUBREC of every QoS 2 message that is on its way, be it sent live, from  *)
(* a peer or from the queue when a client comes back, provided that clients *)
(* that are sent QoS 2 messages do not publish under ids the server draws.  *)
THEOREM PublishesAreAwaited ==
  ASSUME IdsApart
  PROVE  Spec => []EveryPublishIsAwaited
<1>1. TypeInv /\ AwaitInv => EveryPublishIsAwaited
  <2> SUFFICES ASSUME TypeInv, AwaitInv, NEW s \in ClientId,
                      NEW i \in DOMAIN inbox[s],
                      inbox[s][i].type = "PUBLISH",
                      Qos[inbox[s][i].msg] = 2
               PROVE  PubStatus[s][inbox[s][i].pid] \in {"PUBREC", "PUBCOMP"}
    BY DEF EveryPublishIsAwaited
  <2>1. inbox[s][i].pid \in Pid
    <3>1. inbox[s][i] \in Wire
      BY Positions DEF TypeInv
    <3> QED
      BY <3>1 DEF Wire
  <2> QED
    BY <2>1 DEF AwaitInv, AwaitOf, SentIn, IsSent, IsPublish2
<1>2. /\ DispInv /\ BasicInv /\ DeliveryOrderInv => TypeInv
      /\ TypeInv /\ SideInv /\ AwaitInv => EveryPublishIsAwaited
  BY <1>1 DEF DispInv
<1> QED
  BY AwaitInvariant, DeliveryOrderInvariant, <1>2, PTL

-----------------------------------------------------------------------------
(* As long as no connection is lost.                                        *)

NoDrops == MaxDrops = 0

\* A client that has not connected yet has left no trace, and who sent the
\* dispatcher something is connected.
NewInv ==
  /\ \A s \in ClientId : gpc[s] = "off" =>
       held[s] = {} /\ \A id \in Pid : PubStatus[s][id] = "none"
  /\ dpc # "select" /\ dmsg.type # "CLUSTER" => link[dmsg.from]

LEMMA OnlineFacts ==
  ASSUME TypeInv, ConnInv, NeverInv, NoDrops, NEW s \in ClientId
  PROVE  /\ gpc[s] = "off" <=> ~ link[s]
         /\ LoginSuccess[s] <=> link[s]
         /\ ~ link[s] => inbox[s] = <<>> /\ outbox[s] = <<>>
         /\ \A m \in Msg : Publisher[m] = s /\ Begun(m) => link[s]
         /\ ~ Drop(s) /\ ~ Exit(s)
<1>1. NewWhenOff(s)
  BY DEF NeverInv, NoDrops
<1>2. ~ Drop(s)
  BY DEF Drop, TypeInv, NetTypes, NoDrops
<1> QED
  BY <1>1, <1>2 DEF NewWhenOff, ConnInv, Exit, Begun, TypeInv, SessTypes

LEMMA LinkStays ==
  ASSUME TypeInv, ConnInv, NeverInv, NoDrops, [Next]_vars, NEW s \in ClientId
  PROVE  /\ link[s] => link'[s]
         /\ gpc'[s] = "off" => gpc[s] = "off"
<1>1. GoTypes /\ NetTypes
  BY DEF TypeInv
<1>2. ASSUME NEW t \in ClientId,
             \/ Client(t) \/ Goroutine(t) \/ Connect(t) \/ DispatchRecv(t)
             \/ Drop(t)
             \/ \E m \in Msg, id \in ClientPid \cup {NoPid} :
                  ClientPublish(t, m, id)
      PROVE  /\ link[s] => link'[s]
             /\ gpc'[s] = "off" => gpc[s] = "off"
  <2>1. ~ Drop(t) /\ ~ Exit(t)
    BY OnlineFacts
  <2> QED
    BY <1>1, <1>2, <2>1 DEF Client, ClientReceive, ClientReleased,
       ClientPubRec, ClientPubDone, Goroutine, Read, AckPublish, Connect,
       DispatchRecv, ClientPublish, goVars, netVars, GoTypes, NetTypes
<1>3. CASE Dispatcher \/ (\E m \in Msg : ClusterRecv(m)) \/ UNCHANGED vars
  <2>1. UNCHANGED <<goVars, link>>
    BY <1>3 DEF Dispatcher, BeginPublish, BeginCluster, BeginRelease,
       ProcessPubAck, ProcessPubRec, ProcessPubComp, DropAck, VisitPublish,
       VisitRelease, DrawAgain, EndLoop, ClusterRecv, netVars, goVars, vars
  <2> QED
    BY <2>1 DEF goVars
<1> QED
  BY <1>2, <1>3 DEF Next, Idle

LEMMA NewStep ==
  ASSUME TypeInv, BasicInv, NoDrops, NewInv, [Next]_vars
  PROVE  NewInv'
<1>1. ConnInv /\ NeverInv /\ BufferInv
  BY DEF BasicInv
<1>2. ASSUME NEW s \in ClientId, gpc'[s] = "off"
      PROVE  held'[s] = {} /\ \A id \in Pid : PubStatus'[s][id] = "none"
  <2>1. /\ gpc[s] = "off" /\ ~ link[s] /\ inbox[s] = <<>>
        /\ ~ LoginSuccess[s]
        /\ held[s] = {} /\ \A id \in Pid : PubStatus[s][id] = "none"
    BY <1>1, <1>2, LinkStays, OnlineFacts DEF NewInv
  <2>2. ~ Connect(s)
    BY <1>2 DEF Connect, TypeInv, GoTypes
  <2>3. held'[s] = held[s]
    <3>1. ~ ClientReceive(s) /\ ~ ClientReleased(s)
      BY <2>1 DEF ClientReceive, ClientReleased, Arriving
    <3> QED
      BY <1>1, <2>2, <3>1, DownStepsOf DEF DownCases, DownSame, Drop, Read,
         DispatchRecv, BeginPublish, BeginRelease, ProcessPubAck,
         ProcessPubRec, ProcessPubComp, DropAck, VisitPublish, VisitRelease,
         clientVars
  <2>4. ASSUME NEW id \in Pid
        PROVE  PubStatus'[s][id] = "none"
    <3>1. PubStatus[s][id] = "none"
      BY <2>1
    <3>2. ASSUME Answers(s, id), dmsg.type # "CLUSTER" PROVE FALSE
      BY <2>1, <3>2 DEF Answers, NewInv
    <3>3. ASSUME VisitPublish(s, id) \/ VisitRelease(s, id)
          PROVE  PubStatus' = PubStatus
      BY <2>1, <3>3 DEF VisitPublish, VisitRelease, SentNow
    <3> QED
      BY <2>2, <3>1, <3>2, <3>3, StatusMove DEF StatusMoves, BeginPublish,
         Processing
  <2> QED
    BY <2>1, <2>3, <2>4
<1>3. ASSUME dpc' # "select", dmsg'.type # "CLUSTER"
      PROVE  link'[dmsg'.from]
  <2>1. \/ dpc # "select" /\ dmsg.type # "CLUSTER" /\ dmsg'.from = dmsg.from
           /\ dmsg.from \in ClientId
        \/ \E s \in ClientId : DispatchRecv(s)
    <3>1. CASE UNCHANGED dispVars
      BY <1>3, <3>1 DEF dispVars, TypeInv, DispTypes
    <3>2. ASSUME NEW m \in Msg, ClusterRecv(m) PROVE FALSE
      BY <1>3, <3>2 DEF ClusterRecv, NoReq
    <3>3. ASSUME NEW s \in ClientId,
                 \/ Client(s) \/ Goroutine(s) \/ Connect(s) \/ Drop(s)
                 \/ \E m \in Msg, id \in ClientPid \cup {NoPid} :
                      ClientPublish(s, m, id)
          PROVE  UNCHANGED dispVars
      BY <3>3 DEF Client, ClientReceive, ClientReleased,
         ClientPubRec, ClientPubDone, Goroutine, Read, AckPublish, Exit,
         Connect, Drop, ClientPublish
    <3>4. ASSUME NEW m, Loop(m), dpc = "lock"
          PROVE  dmsg.type # "CLUSTER" /\ dmsg'.from = dmsg.from
                 /\ dmsg.from \in ClientId
      BY <1>3, <3>4 DEF Loop, TypeInv, DispTypes, Request
    <3>5. CASE BeginPublish \/ BeginCluster \/ BeginRelease
      <4>1. dpc = "lock" /\ ((\E m : Loop(m)) \/ Unlock)
        BY <3>5 DEF BeginPublish, BeginCluster, BeginRelease, Processing
      <4>2. ~ Unlock
        BY <1>3 DEF Unlock
      <4> QED
        BY <3>4, <4>1, <4>2
    <3>6. CASE \/ ProcessPubAck \/ ProcessPubRec \/ ProcessPubComp \/ DropAck
               \/ EndLoop
      BY <1>3, <3>6 DEF ProcessPubAck, ProcessPubRec, ProcessPubComp,
         DropAck, EndLoop, Unlock
    <3>7. ASSUME NEW s \in ClientId, NEW id \in ServerPid,
                 VisitPublish(s, id) \/ VisitRelease(s, id)
          PROVE  /\ dpc # "select" /\ dmsg.type # "CLUSTER"
                 /\ dmsg'.from = dmsg.from /\ dmsg.from \in ClientId
      BY <1>3, <3>7 DEF VisitPublish, VisitRelease, Visiting, TypeInv,
         DispTypes
    <3> QED
      BY <3>1, <3>2, <3>3, <3>5, <3>6, <3>7 DEF Next, Idle, Dispatcher,
         DrawAgain, vars
  <2>2. CASE /\ dpc # "select" /\ dmsg.type # "CLUSTER"
             /\ dmsg'.from = dmsg.from /\ dmsg.from \in ClientId
    BY <1>1, <2>2, LinkStays DEF NewInv
  <2>3. ASSUME NEW s \in ClientId, DispatchRecv(s)
        PROVE  link'[dmsg'.from]
    <3>1. gpc[s] = "send" /\ dmsg'.from = s
      BY <2>3 DEF DispatchRecv
    <3> QED
      BY <1>1, <3>1, OnlineFacts, LinkStays
  <2> QED
    BY <2>1, <2>2, <2>3
<1> QED
  BY <1>2, <1>3 DEF NewInv

\* An answer on its way: sent, read, or in the dispatcher's hand; or
\* dropped by a Read.
IsOf(p, type, id) == p.type = type /\ p.pid = id
OutToken(s, type, id) ==
  \E i \in DOMAIN outbox[s] : IsOf(outbox[s][i], type, id)
ReqToken(s, type, id) == gpc[s] = "send" /\ IsOf(req[s], type, id)
HandToken(s, type, id) == Answers(s, id) /\ dmsg.type = type
Token(s, type, id) ==
  \/ OutToken(s, type, id) \/ ReqToken(s, type, id) \/ HandToken(s, type, id)
  \/ Dropped(s, type, id)

\* The dispatcher is through with what it took.
Settles ==
  ProcessPubAck \/ ProcessPubRec \/ ProcessPubComp \/ DropAck

(* Answers get to the dispatcher.                                           *)
LEMMA OutTokenStays ==
  ASSUME TypeInv, TypeInv', BasicInv, NoDrops, [Next]_vars,
         NEW s \in ClientId, NEW id \in Pid, NEW type \in Return,
         OutToken(s, type, id)
  PROVE  Token(s, type, id)'
<1>1. /\ NetTypes /\ ConnInv /\ NeverInv /\ BufferInv
      /\ outbox[s] \in Seq(Wire) /\ inbox[s] \in Seq(Wire)
      /\ DOMAIN outbox[s] = 1..Len(outbox[s]) /\ Len(outbox[s]) \in Nat
  BY Positions DEF TypeInv, BasicInv, NetTypes
<1>2. PICK i \in DOMAIN outbox[s] : IsOf(outbox[s][i], type, id)
  BY DEF OutToken
<1>3. ASSUME NEW j \in DOMAIN outbox'[s], outbox'[s][j] = outbox[s][i]
      PROVE  Token(s, type, id)'
  BY <1>2, <1>3 DEF Token, OutToken
<1>4. CASE outbox'[s] = outbox[s]
  BY <1>3, <1>4
<1>5. CASE DownSame(s)
  <2>1. PICK d \in {0, 1} : Shifted(outbox[s], outbox'[s], d, Return)
    BY <1>5 DEF DownSame, SameOf
  <2>2. i - d \in DOMAIN outbox'[s] /\ outbox'[s][i - d] = outbox[s][i]
    BY <1>2, <2>1 DEF Shifted, IsOf
  <2> QED
    BY <1>3, <2>2
<1>6. CASE \E p \in Wire : Send(s, p)
  <2>1. i \in DOMAIN outbox'[s] /\ outbox'[s][i] = outbox[s][i]
    BY <1>1, <1>6, SendElements
  <2> QED
    BY <1>3, <2>1
<1>7. CASE ClientReceive(s) \/ ClientReleased(s)
  BY <1>4, <1>6, <1>7, ReceiveAnswer, AckAnswer
<1>8. CASE Read(s)
  <2>0. PICK n \in Nat : Takes(s, n)
    BY <1>1, <1>8, ReadElements DEF TypeInv
  <2>1. CASE i = 1
    <3>1. req'[s] = outbox[s][1] /\ gpc'[s] = "send"
      BY <1>1, <1>8, <2>0 DEF Read, Takes, TypeInv, GoTypes
    <3> QED
      BY <1>2, <2>1, <3>1 DEF Token, ReqToken
  <2>2. CASE i # 1
    <3>1. CASE outbox[s][i] \in discarded'[s]
      BY <1>2, <3>1 DEF Token, Dropped, IsOf
    <3>2. CASE outbox[s][i] \notin discarded'[s]
      BY <1>1, <1>3, <2>0, <2>2, <3>2, ReadRest DEF BasicInv
    <3> QED
      BY <3>1, <3>2
  <2> QED
    BY <2>1, <2>2
<1>9. ~ Connect(s)
  <2>1. outbox[s] # <<>>
    BY <1>1, <1>2
  <2> QED
    BY <1>1, <2>1, OnlineFacts DEF Connect
<1>10. ~ Drop(s)
  BY <1>1, OnlineFacts
<1>11. CASE \/ DispatchRecv(s)
            \/ /\ dmsg.from = s
               /\ \/ BeginPublish \/ BeginRelease \/ ProcessPubAck
                  \/ ProcessPubRec \/ ProcessPubComp \/ DropAck
            \/ \E x \in ServerPid : VisitPublish(s, x) \/ VisitRelease(s, x)
  <2>1. outbox' = outbox
    BY <1>11 DEF DispatchRecv, BeginPublish, BeginRelease, ProcessPubAck,
       ProcessPubRec, ProcessPubComp, DropAck, VisitPublish, VisitRelease,
       netVars
  <2> QED
    BY <1>4, <2>1
<1> QED
  BY <1>1, <1>5, <1>7, <1>8, <1>9, <1>10, <1>11, DownStepsOf DEF DownCases

LEMMA TokenStays ==
  ASSUME TypeInv, TypeInv', BasicInv, NoDrops, [Next]_vars,
         NEW s \in ClientId, NEW id \in Pid, NEW type \in Return,
         Token(s, type, id)
  PROVE  \/ Token(s, type, id)'
         \/ HandToken(s, type, id) /\ Settles
<1>1. NetTypes /\ ConnInv /\ NeverInv /\ BufferInv
  BY DEF TypeInv, BasicInv
<1>2. CASE OutToken(s, type, id)
  BY <1>2, OutTokenStays
<1>3. CASE ReqToken(s, type, id)
  <2>1. gpc[s] = "send" /\ req[s].type \in Return
    BY <1>3 DEF ReqToken, IsOf
  <2>2. CASE gpc'[s] = gpc[s] /\ req'[s] = req[s]
    BY <1>3, <2>2 DEF Token, ReqToken
  <2>3. CASE DownSame(s)
    BY <2>1, <2>2, <2>3 DEF DownSame, Returned
  <2>4. CASE DispatchRecv(s)
    <3>1. Answers(s, id)' /\ dmsg'.type = type
      BY <1>3, <2>4 DEF DispatchRecv, Answers, ReqToken, IsOf
    <3> QED
      BY <3>1 DEF Token, HandToken
  <2>5. CASE Connect(s) \/ Read(s) \/ Drop(s)
    BY <1>1, <2>1, <2>5, OnlineFacts DEF Connect, Read
  <2>6. CASE \/ ClientReceive(s) \/ ClientReleased(s)
             \/ /\ dmsg.from = s
                /\ \/ BeginPublish \/ BeginRelease \/ ProcessPubAck
                   \/ ProcessPubRec \/ ProcessPubComp \/ DropAck
             \/ \E x \in ServerPid : VisitPublish(s, x) \/ VisitRelease(s, x)
    <3>1. UNCHANGED goVars
      BY <2>6 DEF ClientReceive, ClientReleased, BeginPublish, BeginRelease,
         ProcessPubAck, ProcessPubRec, ProcessPubComp, DropAck, VisitPublish,
         VisitRelease
    <3> QED
      BY <2>2, <3>1 DEF goVars
  <2> QED
    BY <1>1, <2>3, <2>4, <2>5, <2>6, DownStepsOf DEF DownCases
<1>4. CASE HandToken(s, type, id)
  <2>1. dpc = "lock" /\ dmsg.type \in Return /\ dmsg.from = s
    BY <1>4 DEF HandToken, Answers
  <2>2. CASE dpc' = dpc /\ dmsg' = dmsg
    BY <1>4, <2>2 DEF Token, HandToken, Answers
  <2>3. CASE DownSame(s)
    BY <2>1, <2>2, <2>3 DEF DownSame, Handed
  <2>4. CASE \/ ClientReceive(s) \/ ClientReleased(s) \/ Drop(s)
             \/ Connect(s) \/ Read(s)
    <3>1. UNCHANGED dispVars
      BY <2>4 DEF ClientReceive, ClientReleased, Drop, Connect, Read
    <3> QED
      BY <2>2, <3>1 DEF dispVars
  <2>5. ~ DispatchRecv(s) /\ ~ BeginPublish /\ ~ BeginRelease
        /\ \A x \in ServerPid : ~ VisitPublish(s, x) /\ ~ VisitRelease(s, x)
    BY <2>1 DEF DispatchRecv, BeginPublish, BeginRelease, Processing,
       VisitPublish, VisitRelease, Visiting, Return
  <2> QED
    BY <1>1, <1>4, <2>3, <2>4, <2>5, DownStepsOf DEF DownCases, Settles
<1>5. CASE Dropped(s, type, id)
  BY <1>5, AnswerDroppedStays DEF BasicInv, Token
<1> QED
  BY <1>2, <1>3, <1>4, <1>5 DEF Token

(* What is on its way to a client gets there.                               *)
LEMMA ArrivalKept ==
  ASSUME TypeInv, BasicInv, [Next]_vars,
         NEW s \in ClientId, NEW k \in DOMAIN inbox[s], ~ Drop(s)
  PROVE  \/ \E l \in DOMAIN inbox'[s] : inbox'[s][l] = inbox[s][k]
         \/ k = 1 /\ Client(s)
<1>1. /\ NetTypes /\ ConnInv /\ NeverInv /\ BufferInv
      /\ inbox[s] \in Seq(Wire) /\ inbox[s] # <<>>
  BY Positions DEF TypeInv, BasicInv, NetTypes
<1> DEFINE Goal == \/ \E l \in DOMAIN inbox'[s] : inbox'[s][l] = inbox[s][k]
                   \/ k = 1 /\ Client(s)
<1>2. CASE inbox'[s] = inbox[s]
  BY <1>2
<1>3. ASSUME NEW ps \in Seq(Wire), inbox'[s] = inbox[s] \o ps PROVE Goal
  <2>1. k \in DOMAIN (inbox[s] \o ps) /\ (inbox[s] \o ps)[k] = inbox[s][k]
    BY <1>1, ConcatProperties
  <2> QED
    BY <1>3, <2>1
<1>4. ASSUME NEW t \in ClientId, NEW ps \in Seq(Wire), Write(t, ps) PROVE Goal
  BY <1>1, <1>2, <1>3, <1>4 DEF Write, NetTypes
<1>5. ASSUME NEW t \in ClientId, Client(t) PROVE Goal
  <2>1. inbox[t] # <<>> /\ Consume(t)
    BY <1>5 DEF Client, ClientReceive, ClientReleased, ClientPubRec,
       ClientPubDone, Arriving
  <2>2. CASE t = s /\ k # 1
    BY <1>1, <2>1, <2>2, ConsumeRest
  <2>3. CASE t # s
    BY <1>1, <1>2, <2>1, <2>3, ConsumeElements
  <2> QED
    BY <1>5, <2>2, <2>3
<1>6. ASSUME NEW t \in ClientId,
             \/ Goroutine(t) \/ Connect(t) \/ DispatchRecv(t) \/ Drop(t)
             \/ \E m \in Msg, id \in ClientPid \cup {NoPid} :
                  ClientPublish(t, m, id)
      PROVE  Goal
  <2>1. CASE AckPublish(t)
    <3>1. CASE t = s
      BY <2>1, <3>1, AckSends
    <3>2. CASE t # s
      <4>1. inbox'[s] = inbox[s]
        <5>1. req[t].msg \in Msg /\ Qos[req[t].msg] \in {0, 1, 2}
          <6>1. req[t].msg \in Msg
            BY <2>1, AckPublishWrites
          <6>2. Qos[req[t].msg] \in 0..2
            BY <6>1, MsgFacts
          <6> QED
            BY <6>1, <6>2
        <5>2. \/ UNCHANGED inbox
              \/ \E type \in Acks : Write(t, <<Ack(type, req[t].pid)>>)
          BY <2>1, <5>1, AckPublishWrites DEF Acks
        <5> QED
          BY <1>1, <3>2, <5>2 DEF Write, NetTypes
      <4> QED
        BY <1>2, <4>1
    <3> QED
      BY <3>1, <3>2
  <2>2. CASE Connect(t)
    <3>1. t # s
      BY <1>1, <2>2 DEF Connect, ConnInv
    <3> QED
      BY <1>1, <1>2, <2>2, <3>1 DEF Connect, NetTypes
  <2>3. CASE Drop(t)
    <3>1. t # s
      BY <2>3
    <3> QED
      BY <1>1, <1>2, <2>3, <3>1 DEF Drop, NetTypes
  <2>4. CASE \/ Read(t) \/ Exit(t) \/ DispatchRecv(t)
             \/ \E m \in Msg, id \in ClientPid \cup {NoPid} :
                  ClientPublish(t, m, id)
    BY <1>2, <2>4 DEF Read, Exit, DispatchRecv, ClientPublish, netVars
  <2> QED
    BY <1>6, <2>1, <2>2, <2>3, <2>4 DEF Goroutine
<1>7. ASSUME \/ BeginPublish \/ BeginRelease \/ ProcessPubAck
             \/ ProcessPubRec \/ ProcessPubComp \/ DropAck
      PROVE  Goal
  <2>1. dmsg.type # "CLUSTER" /\ dpc = "lock"
    BY <1>7 DEF BeginPublish, BeginRelease, ProcessPubAck, ProcessPubRec,
       ProcessPubComp, DropAck, Processing, Acks
  <2>2. dmsg.from \in ClientId
    BY <2>1, HandFacts
  <2>3. \/ inbox' = inbox
        \/ \E type \in Acks :
             dmsg.pid \in Pid /\ Write(dmsg.from, <<Ack(type, dmsg.pid)>>)
    BY <1>7, <2>1, HandFacts DEF BeginPublish, BeginRelease, Complete,
       ProcessPubAck, ProcessPubRec, ProcessPubComp, DropAck, netVars, Acks,
       Processing
  <2>4. ASSUME NEW type \in Acks, dmsg.pid \in Pid
        PROVE  <<Ack(type, dmsg.pid)>> \in Seq(Wire)
    BY <2>4, PacketFacts
  <2> QED
    BY <1>2, <1>4, <2>2, <2>3, <2>4
<1>8. ASSUME NEW t \in ClientId, NEW x \in ServerPid,
             VisitPublish(t, x) \/ VisitRelease(t, x)
      PROVE  Goal
  <2>1. CASE t # s
    BY <1>1, <1>2, <1>8, <2>1, VisitCopies
  <2>2. CASE t = s
    BY <1>1, <1>2, <1>3, <1>8, <2>2, VisitCopies DEF Batch
  <2> QED
    BY <2>1, <2>2
<1>9. ASSUME \/ UNCHANGED vars \/ BeginCluster \/ EndLoop
             \/ \E m \in Msg : ClusterRecv(m)
      PROVE  Goal
  BY <1>2, <1>9 DEF vars, BeginCluster, EndLoop, ClusterRecv, netVars
<1> HIDE DEF Goal
<1>10. ASSUME Dispatcher PROVE Goal
  BY <1>7, <1>8, <1>9, <1>10 DEF Dispatcher, DrawAgain
<1>11. Goal
  BY <1>5, <1>6, <1>9, <1>10 DEF Next, Idle
<1> QED
  BY <1>11 DEF Goal

LEMMA ArrivalStays ==
  ASSUME TypeInv, BasicInv, NoDrops, [Next]_vars,
         NEW s \in ClientId, NEW k \in DOMAIN inbox[s]
  PROVE  \/ \E l \in DOMAIN inbox'[s] : inbox'[s][l] = inbox[s][k]
         \/ k = 1 /\ Client(s)
<1>1. ~ Drop(s)
  BY OnlineFacts DEF BasicInv
<1> QED
  BY <1>1, ArrivalKept

LEMMA ForthStays ==
  ASSUME TypeInv, BasicInv, NoDrops, [Next]_vars,
         NEW s \in ClientId, NEW k \in DOMAIN inbox[s],
         inbox[s][k].type \in Forth
  PROVE  \/ \E l \in DOMAIN inbox'[s] : inbox'[s][l] = inbox[s][k]
         \/ k = 1 /\ (ClientReceive(s) \/ ClientReleased(s))
<1>1. ASSUME k = 1, ClientPubRec(s) \/ ClientPubDone(s)
      PROVE  FALSE
  BY <1>1, PubRecSends, PubDoneTakes DEF Forth
<1> QED
  BY <1>1, ArrivalStays DEF Client

-----------------------------------------------------------------------------
(* Each entry of PubStatus is about something that is on its way.           *)

IsSent1(p, id) == p.type = "PUBLISH" /\ Qos[p.msg] = 1 /\ p.pid = id
Sent1In(s, id) == \E k \in DOMAIN inbox[s] : IsSent1(inbox[s][k], id)

PubrecToken(s, id) == PubStatus[s][id] = "PUBREC" /\ Token(s, "PUBREC", id)

AnsweredOf(s, id) ==
  /\ PubStatus[s][id] = "PUBREC" => SentIn(s, id) \/ Token(s, "PUBREC", id)
  /\ PubStatus[s][id] = "PUBCOMP" => RelIn(s, id) \/ Token(s, "PUBCOMP", id)
  /\ PubStatus[s][id] = "PUBACK" => Sent1In(s, id) \/ Token(s, "PUBACK", id)
  /\ id \in held[s] => RelIn(s, id) \/ PubrecToken(s, id)

AnsweredInv == \A s \in ClientId, id \in Pid : AnsweredOf(s, id)

LEMMA ReceiveAnswers ==
  ASSUME TypeInv, NEW s \in ClientId, ClientReceive(s),
         NEW id, id = inbox[s][1].pid
  PROVE  /\ 1 \in DOMAIN inbox[s] /\ inbox[s][1].type = "PUBLISH"
         /\ UNCHANGED sessVars
         /\ Qos[inbox[s][1].msg] = 1 => Token(s, "PUBACK", id)'
         /\ Qos[inbox[s][1].msg] = 2 => Token(s, "PUBREC", id)'
         /\ held'[s] = IF Qos[inbox[s][1].msg] = 2
                       THEN held[s] \cup {id} ELSE held[s]
<1> DEFINE p == inbox[s][1]
<1>1. /\ NetTypes /\ inbox[s] # <<>> /\ Consume(s)
      /\ UNCHANGED sessVars
  BY DEF ClientReceive, Arriving, TypeInv
<1>2. 1 \in DOMAIN inbox[s] /\ p = Head(inbox[s]) /\ p \in Wire
  BY <1>1, ConsumeElements, ConsumeTypes
<1>3. p.type = "PUBLISH"
  BY <1>2 DEF ClientReceive, Arriving
<1>4. ASSUME NEW type \in Acks, id \in Pid, Send(s, Ack(type, id))
      PROVE  Token(s, type, id)'
  <2> DEFINE q == Ack(type, id)
  <2>1. q \in Wire /\ IsOf(q, type, id)
    BY <1>4, PacketFacts DEF Ack, IsOf
  <2>2. Send(s, q)
    BY <1>4
  <2> HIDE DEF q
  <2>3. Len(outbox[s]) + 1 \in DOMAIN outbox'[s]
        /\ outbox'[s][Len(outbox[s]) + 1] = q
    <3>1. Len(outbox[s]) \in Nat
      BY <1>1, Positions
    <3> QED
      BY <1>1, <2>1, <2>2, <3>1, SendElements
  <2>4. \E i \in DOMAIN outbox'[s] : IsOf(outbox'[s][i], type, id)
    BY <2>1, <2>3
  <2> QED
    BY <2>4 DEF Token, OutToken
<1>5. Qos[p.msg] > 0 => id \in Pid
  BY <1>2, <1>3 DEF Wire
<1>6. /\ Qos[p.msg] = 1 => Send(s, Ack("PUBACK", id))
      /\ Qos[p.msg] = 2 => Send(s, Ack("PUBREC", id))
  <2>1. CASE Qos[p.msg] = 1
    BY <1>2, <2>1 DEF ClientReceive
  <2>2. CASE Qos[p.msg] = 2
    BY <1>2, <2>2 DEF ClientReceive
  <2> QED
    BY <2>1, <2>2
<1>7. held'[s] = IF Qos[p.msg] = 2 THEN held[s] \cup {id} ELSE held[s]
  <2>1. held' = IF Qos[p.msg] = 2 THEN [held EXCEPT ![s] = @ \cup {id}]
                ELSE held
    BY <1>2 DEF ClientReceive
  <2>2. held \in [ClientId -> SUBSET Pid]
    BY DEF TypeInv, ClientTypes
  <2> QED
    BY <2>1, <2>2
<1>8. Qos[p.msg] = 1 => Token(s, "PUBACK", id)'
  BY <1>4, <1>5, <1>6 DEF Acks
<1>9. Qos[p.msg] = 2 => Token(s, "PUBREC", id)'
  BY <1>4, <1>5, <1>6 DEF Acks
<1> QED
  BY <1>1, <1>2, <1>3, <1>7, <1>8, <1>9

LEMMA ReleasedAnswers ==
  ASSUME TypeInv, NEW s \in ClientId, ClientReleased(s),
         NEW id, id = inbox[s][1].pid
  PROVE  /\ 1 \in DOMAIN inbox[s] /\ inbox[s][1].type = "PUBREL"
         /\ UNCHANGED sessVars
         /\ Token(s, "PUBCOMP", id)'
         /\ held'[s] = held[s] \ {id}
<1>1. /\ NetTypes /\ inbox[s] # <<>> /\ Consume(s)
      /\ UNCHANGED sessVars
      /\ held' = [held EXCEPT ![s] = @ \ {Head(inbox[s]).pid}]
  BY DEF ClientReleased, Arriving, TypeInv
<1>2. 1 \in DOMAIN inbox[s] /\ inbox[s][1] = Head(inbox[s])
  BY <1>1, ConsumeElements
<1>3. inbox[s][1].type = "PUBREL"
  BY <1>2, AckAnswer
<1>4. PICK p \in Wire : /\ p.pid = id /\ Send(s, p)
                        /\ p.type = "PUBCOMP"
  BY <1>2, AckAnswer
<1>5. Len(outbox[s]) + 1 \in DOMAIN outbox'[s]
      /\ outbox'[s][Len(outbox[s]) + 1] = p
  <2>1. Len(outbox[s]) \in Nat
    BY <1>1, Positions
  <2> QED
    BY <1>1, <1>4, <2>1, SendElements
<1>6. Token(s, "PUBCOMP", id)'
  BY <1>4, <1>5 DEF Token, OutToken, IsOf
<1>7. held'[s] = held[s] \ {id}
  <2>1. held \in [ClientId -> SUBSET Pid]
    BY DEF TypeInv, ClientTypes
  <2> QED
    BY <1>1, <1>2, <2>1
<1> QED
  BY <1>1, <1>2, <1>3, <1>6, <1>7

(* A new entry comes with a packet.                                         *)
LEMMA ComesWithPacket ==
  ASSUME TypeInv, TypeInv', BasicInv, NoDrops, NewInv, [Next]_vars,
         NEW s \in ClientId, NEW id \in Pid,
         PubStatus'[s][id] # PubStatus[s][id]
  PROVE  /\ PubStatus'[s][id] = "PUBREC" => SentIn(s, id)'
         /\ PubStatus'[s][id] = "PUBCOMP" => RelIn(s, id)'
         /\ PubStatus'[s][id] = "PUBACK" => Sent1In(s, id)'
<1>1. NetTypes /\ ConnInv /\ NeverInv /\ BufferInv
  BY DEF TypeInv, BasicInv
<1>2. CASE Connect(s) /\ id \in Awaited(s) /\ PubStatus'[s][id] = "PUBREC"
  <2>1. PICK i \in DOMAIN OfflineMsg[s] :
          Qos[OfflineMsg[s][i].msg] = 2 /\ OfflineMsg[s][i].pid = id
    BY <1>2 DEF Awaited
  <2>2. i \in DOMAIN inbox'[s] /\ IsSent(inbox'[s][i], id)
    BY <1>2, <2>1, ConnectCopies DEF IsSent, IsPublish2
  <2> QED
    BY <1>2, <2>2 DEF SentIn
<1>3. CASE Answers(s, id) /\ ProcessPubRec
  <2> DEFINE p == Ack("PUBREL", id)
  <2>1. /\ Write(s, <<p>>) /\ link[s] /\ PubStatus'[s][id] = "PUBCOMP"
    <3>1. /\ Write(s, <<p>>) /\ dmsg.type = "PUBREC" /\ dpc = "lock"
          /\ SetStatus(s, id, "PUBCOMP") /\ dmsg.from = s
      BY <1>3 DEF ProcessPubRec, Answers, Processing
    <3>2. PubStatus'[s][id] = "PUBCOMP"
      BY <3>1, StatusSet DEF TypeInv
    <3> QED
      BY <3>1, <3>2 DEF NewInv
  <2>2. p \in Wire /\ IsPubrel(p, id)
    BY PacketFacts DEF Ack, Acks, IsPubrel
  <2> HIDE DEF p
  <2>3. \E k \in DOMAIN inbox'[s] : inbox'[s][k] = p
    BY <1>1, <2>1, <2>2, WriteElements
  <2> QED
    BY <2>1, <2>2, <2>3 DEF RelIn
<1>4. ASSUME VisitPublish(s, id) \/ VisitRelease(s, id), id \in ServerPid,
             Qos[dmsg.msg] = 1 \/ Qos[dmsg.msg] = 2
      PROVE  \E k \in DOMAIN inbox'[s] :
               inbox'[s][k] = Publish(dmsg.msg, id)
  <2> DEFINE p == Publish(dmsg.msg, id)
  <2>1. dmsg.msg \in Msg /\ p \in Wire /\ WireId(dmsg.msg, id) = id
    <3>1. dmsg.msg \in Msg
      BY <1>1, <1>4, VisitCopies
    <3> QED
      BY <1>4, <3>1, PacketFacts DEF WireId
  <2>2. LoginSuccess[s] /\ link[s]
    <3>1. LoginSuccess[s]
      <4>1. PubStatus' # PubStatus
        OBVIOUS
      <4> QED
        BY <1>4, <4>1 DEF VisitPublish, VisitRelease, SentNow
    <3> QED
      BY <1>1, <3>1, OnlineFacts
  <2>3. CASE VisitRelease(s, id)
    <3>1. Write(s, <<p>>)
      BY <2>1, <2>2, <2>3 DEF VisitRelease
    <3> HIDE DEF p
    <3>2. \E k \in DOMAIN inbox'[s] : inbox'[s][k] = p
      BY <1>1, <2>1, <2>2, <3>1, WriteElements
    <3> QED
      BY <3>2 DEF p
  <2>4. CASE VisitPublish(s, id)
    <3> DEFINE ps == Append(write_buf, p)
    <3>1. Qos[dmsg.msg] = 1
      <4>1. PubStatus' # PubStatus
        OBVIOUS
      <4> QED
        BY <1>4, <2>4, <4>1 DEF VisitPublish, SentNow
    <3>2. Write(s, ps)
      BY <2>1, <2>2, <2>4, <3>1 DEF VisitPublish, SentNow, PublishBuffer
    <3> HIDE DEF p
    <3>3. write_buf \in Seq(Wire) /\ ps \in Seq(Wire)
          /\ Len(ps) \in DOMAIN ps /\ ps[Len(ps)] = p
      <4>1. write_buf \in Seq(Wire)
        BY DEF TypeInv, DispTypes, Buffered
      <4> QED
        BY <2>1, <4>1
    <3> HIDE DEF ps
    <3>4. inbox'[s] = inbox[s] \o ps /\ inbox[s] \in Seq(Wire)
      BY <1>1, <2>2, <3>2 DEF Write, NetTypes
    <3>5. /\ Len(inbox[s]) + Len(ps) \in DOMAIN inbox'[s]
          /\ inbox'[s][Len(inbox[s]) + Len(ps)] = ps[Len(ps)]
      BY <3>3, <3>4, ConcatProperties
    <3> QED
      BY <3>3, <3>5 DEF p
  <2> QED
    BY <1>4, <2>3, <2>4
<1>5. CASE /\ dpc = "loop" /\ s \in todo /\ id \in ServerPid
           /\ \/ Qos[dmsg.msg] = 1 /\ PubStatus'[s][id] = "PUBACK"
                 /\ (VisitPublish(s, id) \/ VisitRelease(s, id))
              \/ Qos[dmsg.msg] = 2 /\ PubStatus'[s][id] = "PUBREC"
                 /\ VisitRelease(s, id)
  <2>1. PICK k \in DOMAIN inbox'[s] : inbox'[s][k] = Publish(dmsg.msg, id)
    BY <1>4, <1>5
  <2>2. /\ Publish(dmsg.msg, id).type = "PUBLISH"
        /\ Publish(dmsg.msg, id).msg = dmsg.msg
        /\ Publish(dmsg.msg, id).pid = id
    BY DEF Publish
  <2>3. /\ Qos[dmsg.msg] = 1 => IsSent1(inbox'[s][k], id)
        /\ Qos[dmsg.msg] = 2 => IsSent(inbox'[s][k], id)
    BY <2>1, <2>2 DEF IsSent1, IsSent, IsPublish2
  <2> QED
    BY <1>5, <2>3 DEF Sent1In, SentIn
<1> QED
  BY <1>2, <1>3, <1>5, StatusMove DEF StatusMoves

(* A packet stays until it is taken, a token until it is settled.           *)
LEMMA SentStays ==
  ASSUME TypeInv, TypeInv', BasicInv, NoDrops, [Next]_vars,
         NEW s \in ClientId, NEW id \in Pid
  PROVE  /\ SentIn(s, id) => SentIn(s, id)' \/ Token(s, "PUBREC", id)'
         /\ Sent1In(s, id) => Sent1In(s, id)' \/ Token(s, "PUBACK", id)'
         /\ RelIn(s, id) =>
              \/ RelIn(s, id)'
              \/ Token(s, "PUBCOMP", id)' /\ id \notin held'[s]
<1>1. ASSUME NEW k \in DOMAIN inbox[s], IsSent(inbox[s][k], id)
      PROVE  SentIn(s, id)' \/ Token(s, "PUBREC", id)'
  <2>1. inbox[s][k].type = "PUBLISH" /\ inbox[s][k].pid = id
        /\ Qos[inbox[s][k].msg] = 2
    BY <1>1 DEF IsSent, IsPublish2
  <2>2. CASE \E l \in DOMAIN inbox'[s] : inbox'[s][l] = inbox[s][k]
    BY <1>1, <2>2 DEF SentIn
  <2>3. CASE k = 1 /\ ClientReceive(s)
    BY <2>1, <2>3, ReceiveAnswers
  <2>4. CASE k = 1 /\ ClientReleased(s)
    BY <2>1, <2>4, ReleasedAnswers
  <2> QED
    BY <2>1, <2>2, <2>3, <2>4, ForthStays DEF Forth
<1>2. ASSUME NEW k \in DOMAIN inbox[s], IsSent1(inbox[s][k], id)
      PROVE  Sent1In(s, id)' \/ Token(s, "PUBACK", id)'
  <2>1. inbox[s][k].type = "PUBLISH" /\ inbox[s][k].pid = id
        /\ Qos[inbox[s][k].msg] = 1
    BY <1>2 DEF IsSent1
  <2>2. CASE \E l \in DOMAIN inbox'[s] : inbox'[s][l] = inbox[s][k]
    BY <1>2, <2>2 DEF Sent1In
  <2>3. CASE k = 1 /\ ClientReceive(s)
    BY <2>1, <2>3, ReceiveAnswers
  <2>4. CASE k = 1 /\ ClientReleased(s)
    BY <2>1, <2>4, ReleasedAnswers
  <2> QED
    BY <2>1, <2>2, <2>3, <2>4, ForthStays DEF Forth
<1>3. ASSUME NEW k \in DOMAIN inbox[s], IsPubrel(inbox[s][k], id)
      PROVE  \/ RelIn(s, id)'
             \/ Token(s, "PUBCOMP", id)' /\ id \notin held'[s]
  <2>1. inbox[s][k].type = "PUBREL" /\ inbox[s][k].pid = id
    BY <1>3 DEF IsPubrel
  <2>2. CASE \E l \in DOMAIN inbox'[s] : inbox'[s][l] = inbox[s][k]
    BY <1>3, <2>2 DEF RelIn
  <2>3. CASE k = 1 /\ ClientReceive(s)
    BY <2>1, <2>3, ReceiveAnswers
  <2>4. CASE k = 1 /\ ClientReleased(s)
    BY <2>1, <2>4, ReleasedAnswers
  <2> QED
    BY <2>1, <2>2, <2>3, <2>4, ForthStays DEF Forth
<1> QED
  BY <1>1, <1>2, <1>3 DEF SentIn, Sent1In, RelIn

LEMMA ExpectedStays ==
  ASSUME TypeInv, TypeInv', BasicInv, NoDrops, [Next]_vars,
         NEW s \in ClientId, NEW id \in Pid, NEW type \in Return,
         Token(s, type, id), PubStatus[s][id] = type,
         PubStatus'[s][id] = PubStatus[s][id]
  PROVE  Token(s, type, id)'
<1> SUFFICES ASSUME HandToken(s, type, id), Settles PROVE FALSE
  BY TokenStays
<1>1. dpc = "lock" /\ dmsg.from = s /\ dmsg.pid = id /\ dmsg.type = type
  BY DEF HandToken, Answers
<1>2. ~ DropAck
  BY <1>1 DEF DropAck
<1>3. \/ SetStatus(s, id, "none")
      \/ type = "PUBREC" /\ SetStatus(s, id, "PUBCOMP")
  BY <1>1, <1>2 DEF Settles, ProcessPubAck, ProcessPubRec, ProcessPubComp,
     Processing
<1>4. \/ PubStatus'[s][id] = "none"
      \/ type = "PUBREC" /\ PubStatus'[s][id] = "PUBCOMP"
  BY <1>3, StatusSet DEF TypeInv
<1> QED
  BY <1>4 DEF Return

LEMMA AnsweredStep ==
  ASSUME TypeInv, TypeInv', FlowInv, BasicInv, SideInv, IdsApart, AwaitInv,
         NoDrops, NewInv, AnsweredInv, [Next]_vars
  PROVE  AnsweredInv'
<1> SUFFICES ASSUME NEW s \in ClientId, NEW id \in Pid
             PROVE  AnsweredOf(s, id)'
  BY DEF AnsweredInv
<1>1. AnsweredOf(s, id) /\ AwaitOf(s, id)
  BY DEF AnsweredInv, AwaitInv
<1>2. {"PUBACK", "PUBREC", "PUBCOMP"} = Return
  BY DEF Return
<1>3. CASE PubStatus'[s][id] = PubStatus[s][id]
  <2>1. /\ PubStatus[s][id] = "PUBREC" =>
             SentIn(s, id)' \/ Token(s, "PUBREC", id)'
        /\ PubStatus[s][id] = "PUBCOMP" =>
             RelIn(s, id)' \/ Token(s, "PUBCOMP", id)'
        /\ PubStatus[s][id] = "PUBACK" =>
             Sent1In(s, id)' \/ Token(s, "PUBACK", id)'
    BY <1>1, <1>2, <1>3, SentStays, ExpectedStays DEF AnsweredOf
  <2>2. ASSUME id \in held[s], id \in held'[s]
        PROVE  RelIn(s, id)' \/ PubrecToken(s, id)'
    <3>1. CASE RelIn(s, id)
      BY <2>2, <3>1, SentStays
    <3>2. CASE PubrecToken(s, id)
      BY <1>2, <1>3, <3>2, ExpectedStays DEF PubrecToken
    <3> QED
      BY <1>1, <2>2, <3>1, <3>2 DEF AnsweredOf
  <2>3. ASSUME id \notin held[s], id \in held'[s]
        PROVE  RelIn(s, id)' \/ PubrecToken(s, id)'
    <3>1. ClientReceive(s)
      <4>1. ASSUME ClientReleased(s) PROVE FALSE
        BY <2>3, <4>1, ReleasedAnswers
      <4> QED
        BY <2>3, <4>1, DownStepsOf DEF BasicInv, DownCases, DownSame, Drop,
           Connect, Read, DispatchRecv, BeginPublish, BeginRelease,
           ProcessPubAck, ProcessPubRec, ProcessPubComp, DropAck,
           VisitPublish, VisitRelease, clientVars
    <3>2. /\ 1 \in DOMAIN inbox[s] /\ IsSent(inbox[s][1], id)
          /\ Token(s, "PUBREC", id)'
      <4>1. /\ 1 \in DOMAIN inbox[s] /\ inbox[s][1].type = "PUBLISH"
            /\ held'[s] = IF Qos[inbox[s][1].msg] = 2
                          THEN held[s] \cup {inbox[s][1].pid} ELSE held[s]
        BY <3>1, ReceiveAnswers
      <4>2. Qos[inbox[s][1].msg] = 2 /\ inbox[s][1].pid = id
        BY <2>3, <4>1
      <4> QED
        BY <3>1, <4>1, <4>2, ReceiveAnswers DEF IsSent, IsPublish2
    <3>3. SentIn(s, id)
      BY <3>2 DEF SentIn
    <3>4. CASE PubStatus[s][id] = "PUBREC"
      BY <1>3, <3>2, <3>4 DEF PubrecToken
    <3>5. CASE PubStatus[s][id] = "PUBCOMP"
      <4>2. RelIn(s, id)
        BY <1>1, <3>3, <3>5 DEF AwaitOf
      <4> QED
        BY <2>3, <4>2, SentStays
    <3> QED
      BY <1>1, <3>3, <3>4, <3>5 DEF AwaitOf
  <2>4. id \in held'[s] => RelIn(s, id)' \/ PubrecToken(s, id)'
    BY <2>2, <2>3
  <2> QED
    BY <1>3, <2>1, <2>4 DEF AnsweredOf
<1>4. CASE PubStatus'[s][id] # PubStatus[s][id]
  <2>1. /\ PubStatus'[s][id] = "PUBREC" => SentIn(s, id)'
        /\ PubStatus'[s][id] = "PUBCOMP" => RelIn(s, id)'
        /\ PubStatus'[s][id] = "PUBACK" => Sent1In(s, id)'
    BY <1>4, ComesWithPacket
  <2>2. ~ ClientReceive(s) /\ ~ ClientReleased(s)
    BY <1>4 DEF ClientReceive, ClientReleased, sessVars
  <2>3. held'[s] = held[s]
    BY <2>2, DownStepsOf DEF BasicInv, DownCases, DownSame, Drop,
       Connect, Read, DispatchRecv, BeginPublish, BeginRelease,
       ProcessPubAck, ProcessPubRec, ProcessPubComp, DropAck,
       VisitPublish, VisitRelease, clientVars
  <2>4. ASSUME id \in held[s]
        PROVE  RelIn(s, id)'
    <3>1. CASE RelIn(s, id)
      BY <2>3, <2>4, <3>1, SentStays
    <3>2. CASE PubrecToken(s, id)
      <4>1. PubStatus[s][id] = "PUBREC"
        BY <3>2 DEF PubrecToken
      <4>2. ~ Connect(s)
        BY <4>1 DEF Connect, NewInv
      <4>3. ~ (Answers(s, id) /\ BeginPublish /\ Qos[dmsg.msg] = 2)
        BY <4>1, OwnIds DEF Answers
      <4>4. PubStatus'[s][id] = "PUBCOMP"
        BY <1>4, <4>1, <4>2, <4>3, StatusMove DEF StatusMoves
      <4> QED
        BY <2>1, <4>4
    <3> QED
      BY <1>1, <2>4, <3>1, <3>2 DEF AnsweredOf
  <2> QED
    BY <2>1, <2>3, <2>4 DEF AnsweredOf
<1> QED
  BY <1>3, <1>4

(* What the dispatcher took stays in its hand until it is dealt with.       *)
LEMMA HandStays ==
  ASSUME dpc = "lock", [Next]_vars
  PROVE  \/ dpc' = dpc /\ dmsg' = dmsg
         \/ BeginPublish \/ BeginCluster \/ BeginRelease \/ Settles
<1>1. ASSUME NEW t \in ClientId,
             \/ Client(t) \/ Goroutine(t) \/ Connect(t) \/ Drop(t)
             \/ DispatchRecv(t)
             \/ \E m \in Msg, x \in ClientPid \cup {NoPid} :
                  ClientPublish(t, m, x)
      PROVE  dpc' = dpc /\ dmsg' = dmsg
  BY <1>1 DEF Client, ClientReceive, ClientReleased, ClientPubRec,
     ClientPubDone, Goroutine, Read, AckPublish, Exit, Connect, Drop,
     DispatchRecv, ClientPublish, dispVars
<1>2. CASE Dispatcher \/ UNCHANGED vars \/ \E m \in Msg : ClusterRecv(m)
  BY <1>2 DEF Dispatcher, VisitPublish, VisitRelease, Visiting, DrawAgain,
     EndLoop, ClusterRecv, Settles, dispVars, vars
<1> QED
  BY <1>1, <1>2 DEF Next, Idle

(* The id of a message in the queue has no entry yet, and gets none before  *)
(* the queue is sent: an entry is made for a client that is connected, or   *)
(* for one whose request the dispatcher has, and neither has a queue.       *)
QueuedFreeInv ==
  \A s \in ClientId :
    /\ \A i \in DOMAIN OfflineMsg[s] :
         PubStatus[s][OfflineMsg[s][i].pid] = "none"
    /\ dpc = "lock" /\ dmsg.from = s => OfflineMsg[s] = <<>>

(* The dispatcher gets its requests from clients that are connected.        *)
LEMMA HandFree ==
  ASSUME TypeInv, ConnInv, BufferInv, QueuedFreeInv, [Next]_vars,
         NEW s \in ClientId, dpc' = "lock", dmsg'.from = s
  PROVE  OfflineMsg'[s] = <<>>
<1>1. CASE dpc = "lock" /\ dmsg' = dmsg
  <2>1. OfflineMsg[s] = <<>>
    BY <1>1 DEF QueuedFreeInv
  <2>2. CASE DownFrame
    BY <2>1, <2>2 DEF DownFrame
  <2>3. CASE \E t \in ClientId : ClientReceive(t) \/ Connect(t)
    BY <2>1, <2>3, ReceiveCopies, ConnectCopies
  <2>4. CASE \E t \in ClientId, id \in ServerPid :
               VisitPublish(t, id) \/ VisitRelease(t, id)
    BY <1>1, <2>4, VisitCopies
  <2> QED
    BY <2>2, <2>3, <2>4, DownSteps
<1>2. CASE \E t \in ClientId : DispatchRecv(t)
  <2>1. PICK t \in ClientId : DispatchRecv(t)
    BY <1>2
  <2>2. t = s /\ gpc[s] = "send" /\ OfflineMsg' = OfflineMsg
    BY <2>1 DEF DispatchRecv, sessVars
  <2> QED
    BY <2>2 DEF ConnInv, TypeInv, SessTypes
<1>3. CASE \E m \in Msg : ClusterRecv(m)
  BY <1>3, MessageDispatchAssumption DEF ClusterRecv, NoReq
<1> QED
  <2>1. ~ Unlock /\ \A m : ~ Loop(m)
    BY DEF Unlock, Loop
  <2>2. CASE Dispatcher
    BY <1>1, <2>1, <2>2 DEF Dispatcher, BeginPublish, BeginCluster,
       BeginRelease, ProcessPubAck, ProcessPubRec, ProcessPubComp, DropAck,
       VisitPublish, VisitRelease, Visiting, DrawAgain, EndLoop, vars,
       dispVars
  <2>3. ASSUME NEW t \in ClientId,
               \/ Client(t) \/ Goroutine(t) \/ Connect(t) \/ Drop(t)
               \/ \E m \in Msg, id \in ClientPid \cup {NoPid} :
                    ClientPublish(t, m, id)
        PROVE  dpc' = dpc /\ dmsg' = dmsg
    BY <2>3 DEF Client, ClientReceive, ClientReleased, ClientPubRec,
       ClientPubDone, Goroutine, Read, AckPublish, Exit, Connect, Drop,
       ClientPublish, dispVars
  <2>4. CASE UNCHANGED vars
    BY <2>4, <1>1 DEF vars, dispVars
  <2> QED
    BY <1>1, <1>2, <1>3, <2>2, <2>3, <2>4 DEF Next, Idle

LEMMA QueuedFreeStep ==
  ASSUME TypeInv, ConnInv, BufferInv, QueuedFreeInv, [Next]_vars
  PROVE  QueuedFreeInv'
<1> SUFFICES ASSUME NEW s \in ClientId, NEW i \in DOMAIN OfflineMsg'[s]
             PROVE  PubStatus'[s][OfflineMsg'[s][i].pid] = "none"
  BY HandFree DEF QueuedFreeInv
\* An entry of a client with a queue stays as it is.
<1>1. ASSUME OfflineMsg[s] # <<>> \/ (~ LoginSuccess[s] /\ dpc # "lock"),
             OfflineMsg'[s] # <<>>, NEW id \in Pid
      PROVE  PubStatus'[s][id] = PubStatus[s][id]
  <2>1. ~ LoginSuccess[s]
    BY <1>1 DEF ConnInv
  <2>2. ~ Connect(s)
    BY <1>1, ConnectCopies
  <2>3. ~ Answers(s, id)
    BY <1>1 DEF QueuedFreeInv, Answers
  <2>4. ASSUME id \in ServerPid, VisitPublish(s, id) \/ VisitRelease(s, id)
        PROVE  PubStatus' = PubStatus
    BY <2>1, <2>4 DEF VisitPublish, VisitRelease, SentNow
  <2> QED
    BY <2>2, <2>3, <2>4, StatusMove DEF StatusMoves
<1>2. CASE OfflineMsg'[s] = OfflineMsg[s]
  <2>1. OfflineMsg[s] # <<>> /\ OfflineMsg[s] \in Seq(Queued)
    BY <1>2 DEF TypeInv, SessTypes
  <2>2. OfflineMsg[s][i] \in Queued
    BY <1>2, <2>1
  <2>3. OfflineMsg[s][i].pid \in Pid
    BY <2>2 DEF Queued
  <2> QED
    BY <1>1, <1>2, <2>1, <2>3 DEF QueuedFreeInv
<1>3. ASSUME NEW t \in ClientId, NEW id \in ServerPid,
             VisitPublish(t, id) \/ VisitRelease(t, id),
             OfflineMsg'[s] # OfflineMsg[s]
      PROVE  PubStatus'[s][OfflineMsg'[s][i].pid] = "none"
  <2> DEFINE e == [msg |-> dmsg.msg, pid |-> id]
  <2>1. /\ t = s /\ dpc = "loop" /\ dmsg.msg \in Msg /\ ~ LoginSuccess[s]
        /\ OfflineMsg'[s] = Append(OfflineMsg[s], e)
    BY <1>3, VisitCopies
  <2>2. OfflineMsg[s] \in Seq(Queued) /\ e \in Queued /\ id \in Pid
    BY <2>1, MsgFacts DEF TypeInv, SessTypes, Queued
  <2>3. PubStatus[s][id] = "none"
    BY <1>3, <2>1 DEF VisitPublish, VisitRelease, Visiting, FreeId
  <2>4. e.pid = id
    OBVIOUS
  <2> HIDE DEF e
  <2>5. OfflineMsg'[s] # <<>>
    OBVIOUS
  <2>6. CASE i \in DOMAIN OfflineMsg[s] /\ OfflineMsg'[s][i] = OfflineMsg[s][i]
    <3>1. OfflineMsg[s][i] \in Queued
      BY <2>2, <2>6
    <3>2. OfflineMsg[s][i].pid \in Pid
      BY <3>1 DEF Queued
    <3> QED
      BY <1>1, <2>1, <2>5, <2>6, <3>2 DEF QueuedFreeInv
  <2>7. CASE OfflineMsg'[s][i] = e
    BY <1>1, <2>1, <2>2, <2>3, <2>4, <2>5, <2>7
  <2> QED
    BY <2>1, <2>2, <2>6, <2>7, AppendElements
<1>4. CASE \E t \in ClientId : ClientReceive(t) \/ Connect(t)
  <2>1. OfflineMsg'[s] = OfflineMsg[s] \/ OfflineMsg'[s] = <<>>
    BY <1>4, ReceiveCopies, ConnectCopies
  <2> QED
    BY <1>2, <2>1
<1>5. CASE DownFrame
  BY <1>2, <1>5 DEF DownFrame
<1> QED
  BY <1>2, <1>3, <1>4, <1>5, DownSteps

LEMMA QueuedFreeInvariant == Spec => []QueuedFreeInv
<1>1. Init => QueuedFreeInv
  BY DEF Init, QueuedFreeInv
<1>2. TypeInv /\ BasicInv /\ QueuedFreeInv /\ [Next]_vars => QueuedFreeInv'
  BY QueuedFreeStep DEF BasicInv
<1>3. DispInv => TypeInv
  BY DEF DispInv
<1> QED
  BY <1>1, <1>2, <1>3, DeliveryOrderInvariant, PTL DEF Spec

(* The server stops owing a message only by releasing it.                   *)
LEMMA OwedEnds ==
  ASSUME TypeInv, FlowInv, OwedInv, QueuedFreeInv, [Next]_vars,
         NEW m \in Msg, Qos[m] = 2, Owed(m), ~ Owed(m)'
  PROVE  BeginRelease /\ dmsg.from = Publisher[m] /\ dmsg.pid = ppid[m]
<1>1. ~ InHand(m)
  <2> SUFFICES ASSUME InHand(m) PROVE FALSE
    OBVIOUS
  <2>1. /\ dpc = "lock" /\ dmsg.type = "PUBLISH" /\ dmsg.msg = m
        /\ dmsg.from \in ClientId /\ dmsg.pid \in Pid
    BY HandFacts DEF InHand, IsPublish
  <2>2. Publisher[m] = dmsg.from
    BY <2>1 DEF FlowInv, DispatchInv, Published, IsPublish2
  <2>3. ~ (dpc' = dpc /\ dmsg' = dmsg)
    BY <2>1 DEF Owed, InHand, IsPublish
  <2>4. BeginPublish
    BY <2>1, <2>3, HandStays DEF BeginCluster, BeginRelease, Settles,
       ProcessPubAck, ProcessPubRec, ProcessPubComp, DropAck, Processing,
       Acks
  <2>5. /\ SetStatus(dmsg.from, dmsg.pid, "PUBREL")
        /\ CacheMsg' = [CacheMsg EXCEPT ![dmsg.from][dmsg.pid] = m]
    BY <2>1, <2>4 DEF BeginPublish
  <2>6. Kept(m)'
    BY <2>1, <2>2, <2>5 DEF SetStatus, Kept, TypeInv, SessTypes
  <2> QED
    BY <2>6 DEF Owed
<1>2. PICK id \in Pid : /\ PubStatus[Publisher[m]][id] = "PUBREL"
                        /\ CacheMsg[Publisher[m]][id] = m
  BY <1>1 DEF Owed, Kept
<1>3. PICK s \in ClientId : s = Publisher[m]
  BY <1>1 DEF Owed, Kept
<1>4. ppid[m] = id
  BY <1>2, <1>3 DEF FlowInv, CacheInv
<1>5. ~ (PubStatus'[s][id] = "PUBREL" /\ CacheMsg'[s][id] = m)
  BY <1>3 DEF Owed, Kept
<1>6. PubStatus'[s][id] # "PUBREL"
  <2> SUFFICES ASSUME PubStatus'[s][id] = "PUBREL" PROVE FALSE
    OBVIOUS
  <2>1. ~ StatusFrame
    BY <1>2, <1>3, <1>5 DEF StatusFrame
  <2>2. /\ BeginPublish /\ Qos[dmsg.msg] = 2
        /\ dpc = "lock" /\ dmsg.type = "PUBLISH" /\ dmsg.msg \in Msg
        /\ dmsg.from \in ClientId /\ dmsg.pid \in Pid
    BY <2>1, StatusSteps, HandFacts DEF BeginPublish, Processing
  <2>3. CacheMsg' = [CacheMsg EXCEPT ![dmsg.from][dmsg.pid] = dmsg.msg]
    BY <2>2 DEF BeginPublish
  <2>4. dmsg.from = s /\ dmsg.pid = id /\ dmsg.msg # m
    BY <1>2, <1>3, <1>5, <2>2, <2>3 DEF TypeInv, SessTypes
  <2>5. Publisher[dmsg.msg] = s /\ ppid[dmsg.msg] = id
    BY <2>2, <2>4 DEF FlowInv, DispatchInv, Published, IsPublish2
  <2>6. Owed(dmsg.msg)
    BY <2>2 DEF Owed, InHand, IsPublish
  <2>7. {pstate[m], pstate[dmsg.msg]} \subseteq {"sent", "released"}
    BY <2>2, <2>6 DEF OwedInv
  <2> QED
    BY <1>3, <1>4, <2>2, <2>4, <2>5, <2>7 DEF FlowInv, IdsInv
<1>7. id \notin Awaited(s)
  BY <1>2, <1>3 DEF QueuedFreeInv, Awaited
<1>8. Answers(s, id) /\ BeginRelease
  BY <1>2, <1>3, <1>6, <1>7, StatusMove DEF StatusMoves
<1> QED
  BY <1>3, <1>4, <1>8 DEF Answers

-----------------------------------------------------------------------------
(* Each flow of a publisher gets its last answer.                           *)

\* A PUBLISH on its way up bears the id of its message.
Named(p) == p.type = "PUBLISH" => p.pid = ppid[p.msg]

NamedInv ==
  \A s \in ClientId :
    /\ \A i \in DOMAIN outbox[s] : Named(outbox[s][i])
    /\ gpc[s] \in {"send", "ack"} => Named(req[s])

\* What is or was answered with PUBREC is owed until its PUBREL comes.
AckingInv ==
  \A m \in Msg, s \in ClientId :
    Qos[m] = 2 /\ gpc[s] = "ack" /\ IsPublish(req[s], m) => Owed(m)

AnsweredOwedInv ==
  \A m \in Msg :
    /\ Qos[m] = 2 /\ pstate[m] = "sent" /\ PubrecIn(Publisher[m], ppid[m])
    => Owed(m)

\* ... and the PUBREC for what is owed is written, or on its way.
OwedAnsweredInv ==
  \A m \in Msg : Qos[m] = 2 /\ pstate[m] = "sent" /\ Owed(m) =>
    InRequest(Publisher[m], m) \/ PubrecIn(Publisher[m], ppid[m])

\* What is no longer owed was completed ...
PubcompIn(s, id) == \E k \in DOMAIN inbox[s] : IsPubcomp(inbox[s][k], id)

CompletedInv ==
  \A m \in Msg :
    Qos[m] = 2 /\ pstate[m] = "released" /\ ~ Owed(m) =>
      PubcompIn(Publisher[m], ppid[m])

\* ... and QoS 1 was acknowledged, or will be.
PubackIn(s, id) ==
  \E k \in DOMAIN inbox[s] :
    inbox[s][k].type = "PUBACK" /\ inbox[s][k].pid = id

AcknowledgedInv ==
  \A m \in Msg : Qos[m] = 1 =>
    /\ pstate[m] # "released"
    /\ pstate[m] = "sent" =>
         LET s == Publisher[m] IN
         \/ InOutbox(s, m) \/ InRequest(s, m) \/ PubackIn(s, ppid[m])
         \/ PublishDropped(m)

LastAnswerInv ==
  /\ NamedInv /\ AckingInv /\ AnsweredOwedInv /\ OwedAnsweredInv
  /\ CompletedInv /\ AcknowledgedInv

LEMMA NamedStep ==
  ASSUME TypeInv, TypeInv', BasicInv, NamedInv, [Next]_vars
  PROVE  NamedInv'
<1> SUFFICES ASSUME NEW s \in ClientId
             PROVE  /\ \A i \in DOMAIN outbox'[s] : Named(outbox[s][i])'
                    /\ gpc'[s] \in {"send", "ack"} => Named(req[s])'
  BY DEF NamedInv
<1> DEFINE OutOk == \A i \in DOMAIN outbox'[s] : Named(outbox[s][i])'
           ReqOk == gpc'[s] \in {"send", "ack"} => Named(req[s])'
           Goal == OutOk /\ ReqOk
<1>1. /\ NetTypes /\ GoTypes /\ BufferInv
      /\ \A i \in DOMAIN outbox[s] : outbox[s][i] \in Wire
      /\ \A i \in DOMAIN outbox[s] : Own(s, outbox[s][i])
      /\ gpc[s] \in {"send", "ack"} => Own(s, req[s]) /\ req[s] \in Wire
  BY Positions DEF TypeInv, BasicInv, OriginInv, GoTypes
\* What keeps its place keeps its name.
<1>2. \A p \in Wire : Own(s, p) /\ Named(p) /\ p.type = "PUBLISH" =>
        p.pid = ppid'[p.msg]
  <2> SUFFICES ASSUME NEW p \in Wire, Own(s, p), Named(p), p.type = "PUBLISH"
               PROVE  p.pid = ppid'[p.msg]
    OBVIOUS
  <2>1. p.msg \in Msg /\ Begun(p.msg)
    BY DEF Wire, Own
  <2> QED
    BY <2>1, BegunPid DEF Named
<1>3. ASSUME NEW i \in DOMAIN outbox[s], outbox[s][i].type = "PUBLISH"
      PROVE  outbox[s][i].pid = ppid'[outbox[s][i].msg]
  BY <1>1, <1>2, <1>3 DEF NamedInv
<1>4. ASSUME gpc[s] \in {"send", "ack"}, req[s].type = "PUBLISH"
      PROVE  req[s].pid = ppid'[req[s].msg]
  BY <1>1, <1>2, <1>4 DEF NamedInv
<1>5. ASSUME \A i \in DOMAIN outbox'[s] : outbox'[s][i].type = "PUBLISH" =>
               i \in DOMAIN outbox[s] /\ outbox[s][i] = outbox'[s][i]
      PROVE  OutOk
  BY <1>3, <1>5 DEF Named
<1>6. ASSUME gpc'[s] \in {"send", "ack"} =>
               gpc[s] \in {"send", "ack"} /\ req'[s] = req[s]
      PROVE  ReqOk
  BY <1>4, <1>6 DEF Named
<1>7. ASSUME UpSame(s) PROVE Goal
  <2>1. OutOk
    BY <1>5, <1>7 DEF UpSame, OutboxSame, Forth
  <2>2. ReqOk
    BY <1>6, <1>7 DEF UpSame, RequestSame
  <2> QED
    BY <2>1, <2>2
<1>8. ASSUME NEW x \in Msg, NEW id \in ClientPid \cup {NoPid},
             ClientPublish(s, x, id)
      PROVE  Goal
  <2>1. ReqOk
    BY <1>6, <1>8, PublishSends DEF goVars
  <2>2. ASSUME NEW i \in DOMAIN outbox'[s] PROVE Named(outbox[s][i])'
    <3>1. ppid'[x] = id
      BY <1>8, PublishSends DEF TypeInv, ClientTypes
    <3>2. Publish(x, id).pid = id /\ Publish(x, id).msg = x
      BY DEF Publish
    <3>3. i \in DOMAIN outbox[s] \/ i = Len(outbox[s]) + 1
      BY <1>8, PublishSends
    <3> QED
      BY <1>3, <1>8, <3>1, <3>2, <3>3, PublishSends DEF Named
  <2> QED
    BY <2>1, <2>2
<1>9. ASSUME ClientPubRec(s) PROVE Goal
  <2>1. ReqOk
    BY <1>6, <1>9, PubRecSends DEF goVars
  <2>2. OutOk
    BY <1>5, <1>9, PubRecSends DEF IsPubrel
  <2> QED
    BY <2>1, <2>2
<1>10. ASSUME ClientPubDone(s) PROVE Goal
  BY <1>5, <1>6, <1>10, PubDoneTakes DEF goVars
<1>11. ASSUME Drop(s) PROVE Goal
  BY <1>1, <1>5, <1>6, <1>11 DEF Drop, goVars, NetTypes
<1>12. ASSUME Connect(s) PROVE Goal
  <2>1. gpc'[s] = "read" /\ ppid' = ppid
    BY <1>1, <1>12 DEF Connect, clientVars, GoTypes
  <2>2. ASSUME NEW i \in DOMAIN outbox'[s], outbox'[s][i].type = "PUBLISH"
        PROVE  outbox'[s][i].pid = ppid[outbox'[s][i].msg]
    BY <1>12, <2>2, ConnectSends DEF IsPublish
  <2>3. OutOk
    BY <2>1, <2>2 DEF Named
  <2> QED
    BY <2>1, <2>3
<1>13. ASSUME Read(s) PROVE Goal
  <2>0. PICK n \in Nat : Takes(s, n)
    BY <1>1, <1>13, ReadElements
  <2>1. req'[s] = outbox[s][1] /\ 1 \in DOMAIN outbox[s]
    BY <1>1, <2>0 DEF GoTypes, Takes
  <2>2. ReqOk
    BY <1>3, <2>1 DEF Named
  <2>3. OutOk
    BY <1>1, <1>3, <2>0 DEF Named, Takes
  <2> QED
    BY <2>2, <2>3
<1>14. ASSUME AckPublish(s) PROVE Goal
  BY <1>5, <1>6, <1>14, AckSends
<1>15. ASSUME DispatchRecv(s) PROVE Goal
  <2>1. outbox' = outbox
    BY <1>15 DEF DispatchRecv, netVars
  <2>2. gpc'[s] \in {"send", "ack"} => gpc[s] = "send" /\ req'[s] = req[s]
    BY <1>1, <1>15 DEF DispatchRecv, GoTypes
  <2> QED
    BY <1>5, <1>6, <2>1, <2>2
<1>16. ASSUME BeginRelease, dmsg.from = s PROVE Goal
  BY <1>5, <1>6, <1>16, ReleaseSends DEF goVars
<1> HIDE DEF Goal
<1>17. Goal
  BY <1>1, <1>7, <1>8, <1>9, <1>10, <1>11, <1>12, <1>13, <1>14, <1>15, <1>16,
     UpSteps DEF UpCases
<1> QED
  BY <1>17 DEF Goal

(* A goroutine acknowledges what it just handed to the dispatcher.          *)
LEMMA AckNew ==
  ASSUME TypeInv, BufferInv, [Next]_vars, NEW s \in ClientId, gpc'[s] = "ack"
  PROVE  \/ gpc[s] = "ack" /\ req'[s] = req[s]
         \/ /\ DispatchRecv(s) /\ gpc[s] = "send"
            /\ req[s].type = "PUBLISH" /\ req'[s] = req[s]
<1>1. GoTypes
  BY DEF TypeInv
<1>2. CASE UpSame(s)
  BY <1>2 DEF UpSame, RequestSame
<1>3. CASE Connect(s) \/ Read(s) \/ AckPublish(s)
  BY <1>1, <1>3 DEF Connect, Read, AckPublish, GoTypes
<1>4. CASE DispatchRecv(s)
  BY <1>1, <1>4 DEF DispatchRecv, GoTypes
<1>5. CASE \/ \E m \in Msg, id \in ClientPid \cup {NoPid} :
                ClientPublish(s, m, id)
           \/ ClientPubRec(s) \/ ClientPubDone(s) \/ Drop(s)
           \/ BeginRelease /\ dmsg.from = s
  BY <1>5 DEF ClientPublish, ClientPubRec, ClientPubDone, Drop, BeginRelease,
     goVars
<1> QED
  BY <1>2, <1>3, <1>4, <1>5, UpSteps DEF UpCases

LEMMA AckingStep ==
  ASSUME TypeInv, FlowInv, BasicInv, SentInv, KeptInv, QueuedFreeInv,
         AckingInv, [Next]_vars
  PROVE  AckingInv'
<1> SUFFICES ASSUME NEW m \in Msg, NEW s \in ClientId, Qos[m] = 2,
                    gpc'[s] = "ack", IsPublish(req'[s], m)
             PROVE  Owed(m)'
  BY DEF AckingInv, IsPublish
<1>1. BufferInv /\ OwedInv
  BY DEF BasicInv, KeptInv
<1>2. CASE gpc[s] = "ack" /\ req'[s] = req[s]
  <2>1. Owed(m) /\ IsPublish(req[s], m)
    BY <1>2 DEF AckingInv
  <2>2. /\ Publisher[m] = s /\ ppid[m] = req[s].pid /\ req[s].pid \in Pid
    <3>1. req[s] \in Wire
      BY <1>2 DEF TypeInv, GoTypes
    <3> QED
      BY <1>2, <2>1, <3>1
      DEF FlowInv, RequestInv, Published, IsPublish, IsPublish2, Wire
  <2>3. ~ RelInHand(s, ppid[m])
    BY <1>2, <2>2 DEF SentInv, AckHandInv
  <2>4. ASSUME ~ Owed(m)' PROVE FALSE
    <3>1. BeginRelease /\ dmsg.from = s /\ dmsg.pid = ppid[m]
      BY <1>1, <2>1, <2>2, <2>4, OwedEnds
    <3>2. RelInHand(s, ppid[m])
      BY <3>1 DEF BeginRelease, Processing, RelInHand, IsPubrel
    <3> QED
      BY <2>3, <3>2
  <2> QED
    BY <2>4
<1>3. CASE DispatchRecv(s) /\ req'[s] = req[s]
  <2>1. InHand(m)'
    BY <1>3, AckNew DEF TypeInv, GoTypes, DispatchRecv, InHand, IsPublish
  <2> QED
    BY <2>1 DEF Owed
<1> QED
  BY <1>1, <1>2, <1>3, AckNew

(* A PUBREC is written by the goroutine.                                    *)
LEMMA PubrecNew ==
  ASSUME TypeInv, TypeInv', BufferInv, [Next]_vars,
         NEW s \in ClientId, NEW id, PubrecIn(s, id)', ~ PubrecIn(s, id)
  PROVE  /\ AckPublish(s) /\ gpc[s] = "ack"
         /\ req[s].type = "PUBLISH" /\ req[s].msg \in Msg
         /\ Qos[req[s].msg] = 2 /\ req[s].pid = id
<1>1. NetTypes /\ NetTypes'
  BY DEF TypeInv
<1>2. ~ UpSame(s)
  BY <1>1, UpFacts
<1>3. ASSUME \/ Read(s) \/ DispatchRecv(s)
             \/ \E m \in Msg, x \in ClientPid \cup {NoPid} :
                  ClientPublish(s, m, x)
      PROVE  FALSE
  BY <1>3 DEF Read, DispatchRecv, ClientPublish, PubrecIn, netVars
<1>4. ~ ClientPubRec(s) /\ ~ ClientPubDone(s)
  BY PubRecSends, PubDoneTakes DEF PubrecIn
<1>5. ~ Drop(s)
  BY <1>1 DEF Drop, PubrecIn, NetTypes
<1>6. ~ Connect(s)
  BY ConnectCopies DEF PubrecIn, IsPubrec
<1>7. ~ (BeginRelease /\ dmsg.from = s)
  BY ReleaseSends DEF PubrecIn, IsPubrec
<1>8. AckPublish(s)
  BY <1>2, <1>3, <1>4, <1>5, <1>6, <1>7, UpSteps DEF UpCases
<1> QED
  BY <1>8, AckSends DEF PubrecIn, IsPubrec

LEMMA AnsweredOwedStep ==
  ASSUME TypeInv, TypeInv', FlowInv, BasicInv, SentInv, KeptInv,
         QueuedFreeInv, AckingInv, AnsweredOwedInv, [Next]_vars
  PROVE  AnsweredOwedInv'
<1> SUFFICES ASSUME NEW m \in Msg, NEW s, s = Publisher[m], Qos[m] = 2,
                    pstate'[m] = "sent", NEW id, id = ppid'[m],
                    PubrecIn(s, id)'
             PROVE  Owed(m)'
  BY DEF AnsweredOwedInv, PubrecIn
<1>1. BufferInv /\ OwedInv
  BY DEF BasicInv, KeptInv
<1>2. s \in ClientId /\ id \in Pid
  <2>1. BegunInv'
    BY BegunStep DEF BasicInv
  <2>2. Publisher[m] \in ClientId
    BY <2>1 DEF BegunInv, Begun
  <2> QED
    BY <2>2 DEF TypeInv, ClientTypes
<1>3. pstate[m] = "sent" /\ ppid[m] = id
  <2>1. ASSUME NEW t \in ClientId, NEW x \in Msg,
               NEW xid \in ClientPid \cup {NoPid}, ClientPublish(t, x, xid)
        PROVE  pstate[m] = "sent" /\ ppid[m] = id
    <3>1. CASE x = m
      <4>1. /\ t = s /\ xid = id /\ InFlight(s, id) = {} /\ inbox' = inbox
        <5>1. t = s /\ xid = id /\ Qos[x] > 0
          BY <2>1, <3>1, PublishSends DEF TypeInv, ClientTypes
        <5> QED
          BY <1>2, <2>1, <5>1, PublishSends
      <4>2. PICK k \in DOMAIN inbox[s] : IsPubrec(inbox[s][k], id)
        BY <4>1 DEF PubrecIn
      <4>3. \E n \in Msg : n \in InFlight(s, id)
        BY <1>2, <4>2 DEF FlowInv, PubrecInv, IsPubrec, InFlight
      <4> QED
        BY <4>1, <4>3
    <3>2. CASE x # m
      BY <2>1, <3>2, PublishSends DEF TypeInv, ClientTypes
    <3> QED
      BY <3>1, <3>2
  <2>2. ASSUME NEW t \in ClientId, ClientPubRec(t) \/ ClientPubDone(t)
        PROVE  pstate[m] = "sent" /\ ppid[m] = id
    BY <2>2, PubRecProgress, PubDoneProgress
  <2> QED
    BY <2>1, <2>2, StillSteps DEF Still
<1>4. CASE PubrecIn(s, id)
  <2>1. Owed(m) /\ ~ RelInHand(s, id)
    BY <1>2, <1>3, <1>4 DEF AnsweredOwedInv, SentInv, PubrecAheadInv
  <2>2. ASSUME ~ Owed(m)' PROVE FALSE
    <3>1. BeginRelease /\ dmsg.from = s /\ dmsg.pid = id
      BY <1>1, <1>3, <2>1, <2>2, OwedEnds
    <3>2. RelInHand(s, id)
      BY <3>1 DEF BeginRelease, Processing, RelInHand, IsPubrel
    <3> QED
      BY <2>1, <3>2
  <2> QED
    BY <2>2
<1>5. CASE ~ PubrecIn(s, id)
  <2> DEFINE n == req[s].msg
  <2>1. /\ AckPublish(s) /\ gpc[s] = "ack" /\ IsPublish(req[s], n)
        /\ n \in Msg /\ Qos[n] = 2 /\ req[s].pid = id
    BY <1>1, <1>2, <1>5, PubrecNew DEF IsPublish
  <2>2. Publisher[n] = s /\ ppid[n] = id /\ pstate[n] = "sent"
    BY <1>2, <2>1 DEF FlowInv, RequestInv, Published, IsPublish, IsPublish2
  <2>3. n = m
    BY <1>3, <2>1, <2>2 DEF FlowInv, IdsInv
  <2>4. Owed(m)
    BY <1>2, <2>1, <2>3 DEF AckingInv
  <2> QED
    BY <1>2, <2>1, <2>4, AckSends
    DEF Owed, Kept, InHand, sessVars, dispVars
<1> QED
  BY <1>4, <1>5

(* What the server took was answered with PUBREC, or is about to be.        *)
LEMMA OwedAnsweredStep ==
  ASSUME TypeInv, TypeInv', BasicInv, KeptInv, NoDrops, NamedInv,
         OwedAnsweredInv, [Next]_vars
  PROVE  OwedAnsweredInv'
<1> SUFFICES ASSUME NEW m \in Msg, Qos[m] = 2, pstate'[m] = "sent", Owed(m)',
                    NEW s, s = Publisher[m], NEW id, id = ppid'[m]
             PROVE  InRequest(s, m)' \/ PubrecIn(s, id)'
  BY DEF OwedAnsweredInv, PubrecIn
<1> DEFINE Goal == InRequest(s, m)' \/ PubrecIn(s, id)'
<1>1. NetTypes /\ GoTypes /\ BufferInv /\ ConnInv /\ NeverInv /\ OwedInv
  BY DEF TypeInv, BasicInv, KeptInv
<1>2. ASSUME NEW t \in ClientId, DispatchRecv(t), gpc[t] = "send",
             IsPublish(req[t], m)
      PROVE  Goal
  <2>1. t = s
    BY <1>2 DEF BasicInv, OriginInv, Own, IsPublish
  <2>2. gpc'[t] = "ack" /\ req' = req
    BY <1>1, <1>2 DEF DispatchRecv, IsPublish, GoTypes
  <2> QED
    BY <1>2, <2>1, <2>2 DEF InRequest
<1> SUFFICES ASSUME Owed(m) PROVE Goal
  BY <1>2, OwedStep
<1>3. pstate[m] = "sent" /\ ppid[m] = id /\ s \in ClientId
  <2>1. Begun(m) /\ pstate[m] \in {"sent", "released"}
    BY <1>1 DEF OwedInv, Begun
  <2>2. ~ \E t \in ClientId, xid \in ClientPid \cup {NoPid} :
            ClientPublish(t, m, xid)
    BY <2>1 DEF ClientPublish, Begun
  <2>3. ASSUME NEW t \in ClientId, NEW x \in Msg,
               NEW xid \in ClientPid \cup {NoPid}, ClientPublish(t, x, xid)
        PROVE  pstate'[m] = pstate[m]
    BY <2>2, <2>3, PublishSends DEF TypeInv, ClientTypes
  <2>4. pstate[m] = "sent"
    BY <2>1, <2>3, StillSteps, PubRecProgress, PubDoneProgress DEF Still
  <2> QED
    BY <2>1, <2>4, BegunPid DEF BasicInv, BegunInv
<1>4. CASE PubrecIn(s, id)
  <2>1. PICK k \in DOMAIN inbox[s] : IsPubrec(inbox[s][k], id)
    BY <1>4 DEF PubrecIn
  <2>2. CASE k = 1 /\ Client(s)
    <3>1. ClientPubRec(s)
      BY <1>3, <2>1, <2>2, ReceiveAnswers, ReleasedAnswers, PubDoneTakes
      DEF Client, IsPubrec
    <3>2. pstate'[m] = "released"
      BY <1>3, <2>1, <2>2, <3>1, PubRecProgress, PubRecSends DEF IsPubrec
    <3> QED
      BY <3>2
  <2> QED
    BY <1>3, <2>1, <2>2, ArrivalStays DEF PubrecIn
<1>5. ASSUME InRequest(s, m) PROVE Goal
  <2>1. gpc[s] \in {"send", "ack"} /\ IsPublish(req[s], m)
    BY <1>5 DEF InRequest
  <2>2. CASE gpc'[s] \in {"send", "ack"} /\ req'[s] = req[s]
    BY <2>1, <2>2 DEF InRequest
  <2>3. CASE UpSame(s)
    BY <2>1, <2>2, <2>3 DEF UpSame, RequestSame
  <2>4. CASE DispatchRecv(s)
    <3>1. gpc'[s] = "ack" /\ req' = req
      BY <1>1, <1>3, <2>1, <2>4 DEF DispatchRecv, IsPublish, GoTypes
    <3> QED
      BY <2>2, <3>1
  <2>5. CASE AckPublish(s)
    <3>1. /\ req[s].pid = id /\ req[s].msg = m
          /\ Write(s, <<Ack("PUBREC", id)>>) /\ link[s] /\ id \in Pid
      <4>1. req[s].pid = id /\ req[s].msg = m
        BY <1>3, <2>1 DEF NamedInv, Named, IsPublish
      <4>2. link[s]
        BY <1>1, <1>3, <2>1, OnlineFacts
      <4> QED
        BY <1>3, <2>5, <4>1, <4>2, AckPublishWrites
    <3>2. Ack("PUBREC", id) \in Wire /\ IsPubrec(Ack("PUBREC", id), id)
      BY <3>1, PacketFacts DEF Acks, Ack, IsPubrec
    <3>3. \E k \in DOMAIN inbox'[s] : inbox'[s][k] = Ack("PUBREC", id)
      BY <1>1, <1>3, <3>1, <3>2, WriteElements
    <3> QED
      BY <3>2, <3>3 DEF PubrecIn
  <2>6. ~ Connect(s) /\ ~ Drop(s) /\ ~ Read(s)
    BY <1>1, <1>3, <2>1, OnlineFacts DEF Connect, Read
  <2>7. CASE \/ ClientPubRec(s) \/ ClientPubDone(s)
             \/ BeginRelease /\ dmsg.from = s
             \/ \E x \in Msg, xid \in ClientPid \cup {NoPid} :
                  ClientPublish(s, x, xid)
    <3>1. UNCHANGED goVars
      BY <2>7 DEF ClientPubRec, ClientPubDone, BeginRelease, ClientPublish
    <3> QED
      BY <2>1, <2>2, <3>1 DEF goVars
  <2> QED
    BY <1>1, <1>3, <2>3, <2>4, <2>5, <2>6, <2>7, UpSteps DEF UpCases
<1> QED
  BY <1>3, <1>4, <1>5 DEF OwedAnsweredInv

(* A message that is no longer owed was completed.                          *)
LEMMA CompletedStep ==
  ASSUME TypeInv, TypeInv', FlowInv, BasicInv, KeptInv, QueuedFreeInv,
         NoDrops, NewInv, AnsweredOwedInv, CompletedInv, [Next]_vars
  PROVE  CompletedInv'
<1> SUFFICES ASSUME NEW m \in Msg, NEW s, s = Publisher[m], Qos[m] = 2,
                    pstate'[m] = "released", ~ Owed(m)',
                    NEW id, id = ppid'[m]
             PROVE  PubcompIn(s, id)'
  BY DEF CompletedInv, PubcompIn
<1>1. /\ NetTypes /\ OwedInv /\ id = ppid[m]
      /\ pstate[m] \in {"sent", "released"}
  BY ReleasedNew DEF TypeInv, KeptInv
<1>2. s \in ClientId /\ id \in Pid
  BY <1>1 DEF BasicInv, BegunInv, Begun, TypeInv, ClientTypes
<1>3. ASSUME pstate[m] # "released" PROVE FALSE
  <2>1. /\ ClientPubRec(s) /\ 1 \in DOMAIN inbox[s]
        /\ IsPubrec(inbox[s][1], id) /\ pstate[m] = "sent"
    BY <1>1, <1>3, ReleasedNew
  <2>2. Owed(m)
    BY <1>1, <2>1 DEF AnsweredOwedInv, PubrecIn
  <2> QED
    BY <1>2, <2>1, <2>2, PubRecSends
    DEF Owed, Kept, InHand, sessVars, dispVars
<1>4. CASE ~ Owed(m)
  <2>1. PICK k \in DOMAIN inbox[s] : IsPubcomp(inbox[s][k], id)
    BY <1>1, <1>3, <1>4 DEF CompletedInv, PubcompIn
  <2>2. CASE k = 1 /\ Client(s)
    <3>1. ClientPubDone(s)
      BY <1>2, <2>1, <2>2, ReceiveAnswers, ReleasedAnswers, PubRecSends
      DEF Client, IsPubcomp
    <3> QED
      BY <1>1, <1>2, <1>3, <2>1, <2>2, <3>1, PubDoneProgress,
         PubDoneTakes
      DEF IsPubcomp
  <2> QED
    BY <1>2, <2>1, <2>2, ArrivalStays DEF PubcompIn
<1>5. CASE Owed(m)
  <2>1. BeginRelease /\ dmsg.from = s /\ dmsg.pid = id
    BY <1>1, <1>5, OwedEnds
  <2>2. link[s] /\ Write(s, <<Ack("PUBCOMP", id)>>)
    BY <2>1 DEF BeginRelease, Complete, Processing, NewInv
  <2>3. Ack("PUBCOMP", id) \in Wire
    BY <1>2, PacketFacts DEF Acks
  <2>4. \E k \in DOMAIN inbox'[s] : inbox'[s][k] = Ack("PUBCOMP", id)
    BY <1>1, <1>2, <2>2, <2>3, WriteElements
  <2> QED
    BY <2>4 DEF PubcompIn, IsPubcomp, Ack
<1> QED
  BY <1>4, <1>5

(* A QoS 1 message that is not yet acknowledged is on its way, or PUBACK is.*)
LEMMA AcknowledgedStep ==
  ASSUME TypeInv, TypeInv', BasicInv, NoDrops, NewInv, NamedInv,
         AcknowledgedInv, [Next]_vars
  PROVE  AcknowledgedInv'
<1> SUFFICES ASSUME NEW m \in Msg, Qos[m] = 1
             PROVE  /\ pstate'[m] # "released"
                    /\ pstate'[m] = "sent" =>
                         \/ PublishDropped(m)'
                         \/ InOutbox(Publisher[m], m)'
                         \/ InRequest(Publisher[m], m)'
                         \/ \E k \in DOMAIN inbox'[Publisher[m]] :
                              /\ inbox'[Publisher[m]][k].type = "PUBACK"
                              /\ inbox'[Publisher[m]][k].pid = ppid'[m]
  BY DEF AcknowledgedInv, PubackIn
<1>1. pstate'[m] # "released"
  <2>0. pstate[m] # "released"
    BY DEF AcknowledgedInv
  <2>1. ASSUME NEW t \in ClientId, NEW x \in Msg,
               NEW xid \in ClientPid \cup {NoPid}, ClientPublish(t, x, xid)
        PROVE  pstate'[m] # "released"
    <3>1. pstate' = [pstate EXCEPT ![x] =
                       IF Qos[x] = 0 THEN "done" ELSE "sent"]
      BY <2>1, PublishSends
    <3> QED
      BY <2>0, <3>1 DEF TypeInv, ClientTypes
  <2> QED
    BY <2>0, <2>1, StillSteps, PubRecProgress, PubDoneProgress DEF Still
<1> SUFFICES ASSUME pstate'[m] = "sent", NEW s \in ClientId, s = Publisher[m],
                    NEW id, id = ppid'[m], ~ PublishDropped(m)'
             PROVE  InOutbox(s, m)' \/ InRequest(s, m)' \/ PubackIn(s, id)'
  <2>1. pstate'[m] = "sent" => Publisher[m] \in ClientId
    <3>1. BegunInv'
      BY BegunStep DEF BasicInv
    <3> QED
      BY <3>1 DEF BegunInv, Begun
  <2> QED
    BY <1>1, <2>1 DEF PubackIn
<1> DEFINE Goal == InOutbox(s, m)' \/ InRequest(s, m)' \/ PubackIn(s, id)'
<1>2. NetTypes /\ NetTypes' /\ GoTypes /\ BufferInv /\ ConnInv /\ NeverInv
  BY DEF TypeInv, BasicInv
<1>3. ASSUME NEW x \in Msg, NEW xid \in ClientPid \cup {NoPid},
             ClientPublish(s, x, xid), x = m
      PROVE  Goal
  <2>1. Publish(x, xid).type = "PUBLISH" /\ Publish(x, xid).msg = x
    BY DEF Publish
  <2>2. /\ Len(outbox[s]) + 1 \in DOMAIN outbox'[s]
        /\ outbox'[s][Len(outbox[s]) + 1] = Publish(x, xid)
    BY <1>3, PublishSends
  <2> QED
    BY <1>3, <2>1, <2>2 DEF InOutbox, IsPublish
<1>4. \/ pstate[m] = "sent" /\ ppid[m] = id
      \/ \E xid \in ClientPid \cup {NoPid} : ClientPublish(s, m, xid)
  <2>1. ASSUME NEW t \in ClientId, NEW x \in Msg,
               NEW xid \in ClientPid \cup {NoPid}, ClientPublish(t, x, xid),
               ~ ClientPublish(s, m, xid)
        PROVE  pstate[m] = "sent" /\ ppid[m] = id
    BY <2>1, PublishSends DEF TypeInv, ClientTypes
  <2> QED
    BY <2>1, StillSteps, PubRecProgress, PubDoneProgress DEF Still
<1> SUFFICES ASSUME pstate[m] = "sent", ppid[m] = id PROVE Goal
  BY <1>3, <1>4
<1>4a. ~ PublishDropped(m) /\ HistoryTypes
  BY DroppedStays DEF BasicInv
<1>5. CASE PubackIn(s, id)
  <2>1. PICK k \in DOMAIN inbox[s] :
          inbox[s][k].type = "PUBACK" /\ inbox[s][k].pid = id
    BY <1>5 DEF PubackIn
  <2>2. CASE k = 1 /\ Client(s)
    <3>1. ClientPubDone(s)
      BY <2>1, <2>2, ReceiveAnswers, ReleasedAnswers, PubRecSends DEF Client
    <3>2. pstate'[m] = "done"
      BY <2>1, <2>2, <3>1, PubDoneProgress, PubDoneTakes
    <3> QED
      BY <3>2
  <2> QED
    BY <2>1, <2>2, ArrivalStays DEF PubackIn
<1>6. ASSUME InOutbox(s, m) PROVE Goal
  <2>1. PICK i \in DOMAIN outbox[s] : IsPublish(outbox[s][i], m)
    BY <1>6 DEF InOutbox, IsPublish
  <2>2. ASSUME NEW j \in DOMAIN outbox'[s], outbox'[s][j] = outbox[s][i]
        PROVE  Goal
    BY <2>1, <2>2 DEF InOutbox, IsPublish
  <2>3. CASE UpSame(s)
    BY <2>1, <2>2, <2>3 DEF UpSame, OutboxSame, Forth, IsPublish
  <2>4. CASE Read(s)
    <3>0. PICK n \in Nat : Takes(s, n)
      BY <1>2, <2>4, ReadElements
    <3>1. req'[s] = outbox[s][1] /\ gpc'[s] = "send"
      BY <1>2, <2>4, <3>0 DEF Read, GoTypes, Takes
    <3>2. CASE i = 1
      BY <2>1, <3>1, <3>2 DEF InRequest
    <3>3. CASE i # 1
      <4>1. outbox[s][i] \notin discarded'[s]
        BY <2>1, MessageDispatchAssumption DEF PublishDropped, IsPublish
      <4> QED
        BY <1>2, <1>4a, <2>2, <3>0, <3>3, <4>1, ReadRest
    <3> QED
      BY <3>2, <3>3
  <2>5. ~ Connect(s) /\ ~ Drop(s)
    <3>1. outbox[s] # <<>>
      BY <1>2, <2>1, Positions
    <3> QED
      BY <1>2, <3>1, OnlineFacts DEF Connect
  <2>6. CASE \/ AckPublish(s) \/ DispatchRecv(s) \/ ClientPubDone(s)
             \/ BeginRelease /\ dmsg.from = s
    <3>1. outbox' = outbox
      BY <2>6 DEF AckPublish, DispatchRecv, ClientPubDone, BeginRelease,
         netVars
    <3> QED
      BY <2>2, <3>1
  <2>7. CASE \/ ClientPubRec(s)
             \/ \E x \in Msg, xid \in ClientPid \cup {NoPid} :
                  ClientPublish(s, x, xid)
    BY <2>2, <2>7, PubRecSends, PublishSends
  <2> QED
    BY <1>2, <2>3, <2>4, <2>5, <2>6, <2>7, UpSteps DEF UpCases
<1>7. ASSUME InRequest(s, m) PROVE Goal
  <2>1. gpc[s] \in {"send", "ack"} /\ IsPublish(req[s], m)
    BY <1>7 DEF InRequest
  <2>2. CASE gpc'[s] \in {"send", "ack"} /\ req'[s] = req[s]
    BY <2>1, <2>2 DEF InRequest
  <2>3. CASE UpSame(s)
    BY <2>1, <2>2, <2>3 DEF UpSame, RequestSame
  <2>4. CASE DispatchRecv(s)
    <3>1. gpc'[s] = "ack" /\ req' = req
      BY <1>2, <2>1, <2>4 DEF DispatchRecv, IsPublish, GoTypes
    <3> QED
      BY <2>2, <3>1
  <2>5. CASE AckPublish(s)
    <3>1. /\ req[s].pid = id /\ req[s].msg = m
          /\ Write(s, <<Ack("PUBACK", id)>>) /\ link[s] /\ id \in Pid
      <4>1. req[s].pid = id /\ req[s].msg = m
        BY <2>1 DEF NamedInv, Named, IsPublish
      <4>2. link[s]
        BY <1>2, <2>1, OnlineFacts
      <4> QED
        BY <2>5, <4>1, <4>2, AckPublishWrites
    <3>2. Ack("PUBACK", id) \in Wire
      BY <3>1, PacketFacts DEF Acks
    <3>3. \E k \in DOMAIN inbox'[s] : inbox'[s][k] = Ack("PUBACK", id)
      BY <1>2, <3>1, <3>2, WriteElements
    <3> QED
      BY <3>3 DEF PubackIn, Ack
  <2>6. ~ Connect(s) /\ ~ Drop(s) /\ ~ Read(s)
    BY <1>2, <2>1, OnlineFacts DEF Connect, Read
  <2>7. CASE \/ ClientPubRec(s) \/ ClientPubDone(s)
             \/ BeginRelease /\ dmsg.from = s
             \/ \E x \in Msg, xid \in ClientPid \cup {NoPid} :
                  ClientPublish(s, x, xid)
    <3>1. UNCHANGED goVars
      BY <2>7 DEF ClientPubRec, ClientPubDone, BeginRelease, ClientPublish
    <3> QED
      BY <2>1, <2>2, <3>1 DEF goVars
  <2> QED
    BY <1>2, <2>3, <2>4, <2>5, <2>6, <2>7, UpSteps DEF UpCases
<1> QED
  BY <1>4a, <1>5, <1>6, <1>7 DEF AcknowledgedInv

QuietInv == NewInv /\ AnsweredInv /\ LastAnswerInv

LEMMA QuietInvariant ==
  ASSUME NoDrops, IdsApart
  PROVE  Spec => []QuietInv
<1>1. Init => QuietInv
  <2> SUFFICES ASSUME Init PROVE QuietInv
    OBVIOUS
  <2>1. /\ \A s \in ClientId : /\ inbox[s] = <<>> /\ outbox[s] = <<>>
                               /\ gpc[s] \in {"read", "off"}
                               /\ held[s] = {}
                               /\ \A id \in Pid : PubStatus[s][id] = "none"
        /\ dpc = "select"
        /\ \A m \in Msg : pstate[m] = "idle"
    BY DEF Init
  <2>2. NewInv
    BY <2>1 DEF NewInv
  <2>3. AnsweredInv
    BY <2>1 DEF AnsweredInv, AnsweredOf
  <2>4. LastAnswerInv
    BY <2>1 DEF LastAnswerInv, NamedInv, AckingInv, AnsweredOwedInv,
       OwedAnsweredInv, CompletedInv, AcknowledgedInv
  <2> QED
    BY <2>2, <2>3, <2>4 DEF QuietInv
<1>2. /\ DispInv /\ BasicInv /\ DeliveryOrderInv /\ SideInv /\ AwaitInv
      /\ QueuedFreeInv /\ QuietInv /\ [Next]_vars
      => QuietInv'
  <2> SUFFICES ASSUME DispInv, BasicInv, DeliveryOrderInv, SideInv, AwaitInv,
                      QueuedFreeInv, QuietInv, [Next]_vars
               PROVE  QuietInv'
    OBVIOUS
  <2>1. /\ TypeInv /\ FlowInv /\ BufferInv /\ SentInv /\ KeptInv
        /\ NewInv /\ AnsweredInv
        /\ NamedInv /\ AckingInv /\ AnsweredOwedInv /\ OwedAnsweredInv
        /\ CompletedInv /\ AcknowledgedInv
    BY DEF DispInv, BasicInv, DeliveryOrderInv, QuietInv, LastAnswerInv
  <2>2. TypeInv'
    BY <2>1, TypeStep
  <2>3. NewInv' /\ AnsweredInv'
    BY <2>1, <2>2, NewStep, AnsweredStep
  <2>4. NamedInv' /\ AckingInv'
    BY <2>1, <2>2, NamedStep, AckingStep
  <2>5. AnsweredOwedInv' /\ CompletedInv'
    BY <2>1, <2>2, AnsweredOwedStep, CompletedStep
  <2>6. AcknowledgedInv' /\ OwedAnsweredInv'
    BY <2>1, <2>2, AcknowledgedStep, OwedAnsweredStep
  <2> QED
    BY <2>3, <2>4, <2>5, <2>6 DEF QuietInv, LastAnswerInv
<1> QED
  BY <1>1, <1>2, DeliveryOrderInvariant, AwaitInvariant, QueuedFreeInvariant,
     PTL DEF Spec

(* For any clients, messages and subscriptions, as long as no connection is *)
(* lost and no client publishes under ids the server draws for it, however  *)
(* many packets a Read takes: whenever nothing is on its way, no flow is    *)
(* half done but those of which a Read dropped the packet that they wait    *)
(* for.  No other entry is left in PubStatus, no subscriber holds another   *)
(* id, and no other publisher waits for an answer.                          *)
THEOREM NothingIsLeftOver ==
  ASSUME NoDrops, IdsApart
  PROVE  Spec => []QuietIsClean
<1>1. DispInv /\ BasicInv /\ DeliveryOrderInv /\ QuietInv => QuietIsClean
  <2> SUFFICES ASSUME DispInv, BasicInv, DeliveryOrderInv, QuietInv, Quiet
               PROVE  QuietIsClean
    BY DEF QuietIsClean
  <2>1. /\ TypeInv /\ FlowInv /\ ConnInv /\ NeverInv /\ BegunInv
        /\ OnItsWayInv /\ OwedInv /\ RelOnItsWayInv
        /\ AnsweredInv /\ OwedAnsweredInv /\ CompletedInv
        /\ AcknowledgedInv
    BY DEF DispInv, BasicInv, DeliveryOrderInv, SentInv, KeptInv, PubrelInv,
       QuietInv, LastAnswerInv
  <2>2. /\ dpc = "select"
        /\ \A s \in ClientId : /\ gpc[s] \in {"read", "off"}
                               /\ inbox[s] = <<>> /\ outbox[s] = <<>>
    BY DEF Quiet
  \* Nothing that a publisher waits for is on its way.
  <2>3. ASSUME NEW m \in Msg
        PROVE  /\ pstate[m] = "sent" => PublishDropped(m)
               /\ pstate[m] = "released" => ReleaseDropped(m)
    <3> SUFFICES ASSUME pstate[m] \in {"sent", "released"},
                        pstate[m] = "sent" => ~ PublishDropped(m),
                        pstate[m] = "released" => ~ ReleaseDropped(m)
                 PROVE  FALSE
      OBVIOUS
    <3>1. PICK s \in ClientId : s = Publisher[m]
      BY <2>1 DEF BegunInv, Begun
    <3>2. link[s]
      BY <2>1, <3>1, OnlineFacts DEF Begun
    <3>3. /\ ~ InOutbox(s, m) /\ ~ InRequest(s, m)
          /\ \A id : /\ ~ PubrecIn(s, id) /\ ~ PubackIn(s, id)
                     /\ ~ PubcompIn(s, id) /\ ~ RelInHand(s, id)
                     /\ ~ RelInRequest(s, id) /\ ~ RelInOutbox(s, id)
      BY <2>2 DEF InOutbox, InRequest, PubrecIn, PubackIn, PubcompIn,
         RelInHand, RelInRequest, RelInOutbox
    <3>4. Qos[m] # 0
      BY <2>1 DEF BegunInv
    <3>5. Qos[m] # 1
      BY <2>1, <3>1, <3>3 DEF AcknowledgedInv
    <3>6. Qos[m] = 2
      <4>1. Qos[m] \in 0..2
        BY MsgFacts
      <4> QED
        BY <3>4, <3>5, <4>1
    <3>7. pstate[m] = "released"
      BY <2>1, <3>1, <3>2, <3>3, <3>6 DEF OnItsWayInv, OnItsWay
    <3>8. Owed(m)
      BY <2>1, <3>1, <3>3, <3>6, <3>7 DEF CompletedInv
    <3> QED
      BY <2>1, <3>1, <3>2, <3>3, <3>6, <3>7, <3>8
      DEF RelOnItsWayInv, RelOnItsWay, Due
  \* Nothing that the server waits for is on its way.
  <2>4. ASSUME NEW s \in ClientId, NEW id \in Pid
        PROVE  /\ PubStatus[s][id] # "none" =>
                    Dropped(s, PubStatus[s][id], id)
               /\ id \in held[s] => Dropped(s, "PUBREC", id)
    <3>1. /\ ~ SentIn(s, id) /\ ~ RelIn(s, id) /\ ~ Sent1In(s, id)
          /\ \A type : Token(s, type, id) => Dropped(s, type, id)
      BY <2>2 DEF SentIn, RelIn, Sent1In, Token, OutToken, ReqToken,
         HandToken, Answers
    <3>2. /\ PubStatus[s][id] \in {"PUBREC", "PUBCOMP", "PUBACK"} =>
               Dropped(s, PubStatus[s][id], id)
          /\ id \in held[s] => Dropped(s, "PUBREC", id)
      BY <2>1, <3>1 DEF AnsweredInv, AnsweredOf, PubrecToken
    <3>3. ASSUME PubStatus[s][id] = "PUBREL" PROVE Dropped(s, "PUBREL", id)
      <4>1. PICK m \in Msg : /\ m = CacheMsg[s][id] /\ Qos[m] = 2
                             /\ Publisher[m] = s /\ ppid[m] = id
        BY <2>1, <3>3 DEF FlowInv, CacheInv
      <4>2. Owed(m)
        BY <3>3, <4>1 DEF Owed, Kept
      <4>3. pstate[m] = "released"
        <5>1. pstate[m] # "sent"
          BY <2>1, <2>2, <4>1, <4>2 DEF OwedAnsweredInv, InRequest, PubrecIn
        <5> QED
          BY <2>1, <4>1, <4>2, <5>1 DEF OwedInv
      <4> QED
        BY <2>3, <4>1, <4>3 DEF ReleaseDropped
    <3>4. PubStatus[s][id] \in Status
      BY <2>1 DEF TypeInv, SessTypes
    <3> QED
      BY <3>2, <3>3, <3>4 DEF Status, Acks
  <2> QED
    BY <2>3, <2>4 DEF QuietIsClean
<1> QED
  BY DeliveryOrderInvariant, QuietInvariant, <1>1, PTL

-----------------------------------------------------------------------------
(* In each connection a QoS 1 message is under way once, and acknowledged   *)
(* once; what is resent comes with the next connection, whose goroutine has *)
(* nothing left of the last one.                                            *)
Acked(s, id) ==
  \E m \in Msg : /\ Publisher[m] = s /\ ppid[m] = id /\ Qos[m] = 1
                 /\ pstate[m] = "sent" /\ ~ InOutbox(s, m) /\ ~ InRequest(s, m)

OnceOf(m) ==
  LET s == Publisher[m] IN
  /\ pstate[m] # "released"
  /\ \A i, j \in DOMAIN outbox[s] :
       IsPublish(outbox[s][i], m) /\ IsPublish(outbox[s][j], m) => i = j
  /\ InOutbox(s, m) => ~ InRequest(s, m)
  /\ InOutbox(s, m) \/ InRequest(s, m) => pstate[m] = "sent"

OnceInv == \A m \in Msg : Qos[m] = 1 /\ Publisher[m] \in ClientId => OnceOf(m)

IsPuback(p, id) == p.type = "PUBACK" /\ p.pid = id

PubackInv ==
  \A s \in ClientId : \A k \in DOMAIN inbox[s] :
    inbox[s][k].type = "PUBACK" =>
      /\ \A l \in DOMAIN inbox[s] :
           IsPuback(inbox[s][l], inbox[s][k].pid) => l = k
      /\ Acked(s, inbox[s][k].pid)

(* A message its publisher began with is sent again only when it connects.  *)
LEMMA NotSentAgain ==
  ASSUME TypeInv, TypeInv', BasicInv, [Next]_vars, NEW m \in Msg,
         Publisher[m] \in ClientId, Begun(m), ~ Connect(Publisher[m]),
         InOutbox(Publisher[m], m)' \/ InRequest(Publisher[m], m)'
  PROVE  InOutbox(Publisher[m], m) \/ InRequest(Publisher[m], m)
<1> DEFINE s == Publisher[m]
           Goal == InOutbox(s, m) \/ InRequest(s, m)
<1>1. NetTypes /\ BufferInv
  BY DEF TypeInv, BasicInv
<1>2. ASSUME UpSame(s) PROVE Goal
  <2>1. /\ InOutbox(s, m)' <=> InOutbox(s, m)
        /\ InRequest(s, m)' <=> InRequest(s, m)
    BY <1>2, UpFacts DEF TypeInv
  <2> QED
    BY <2>1
<1>3. ASSUME outbox'[s] = outbox[s], InRequest(s, m)' => InRequest(s, m)
      PROVE  Goal
  BY <1>3 DEF InOutbox
<1>4. ASSUME UNCHANGED goVars,
             \A i \in DOMAIN outbox'[s] :
               IsPublish(outbox'[s][i], m) => i \in DOMAIN outbox[s]
                 /\ outbox'[s][i] = outbox[s][i]
      PROVE  Goal
  BY <1>4 DEF InOutbox, InRequest, IsPublish, goVars
<1>5. ASSUME NEW n \in Msg, NEW x \in ClientPid \cup {NoPid},
             ClientPublish(s, n, x)
      PROVE  Goal
  <2>1. /\ pstate[n] = "idle" /\ UNCHANGED goVars
        /\ DOMAIN outbox'[s] = 1..(Len(outbox[s]) + 1)
        /\ DOMAIN outbox[s] = 1..Len(outbox[s]) /\ Len(outbox[s]) \in Nat
        /\ \A i \in DOMAIN outbox[s] : outbox'[s][i] = outbox[s][i]
        /\ outbox'[s][Len(outbox[s]) + 1] = Publish(n, x)
    BY <1>5, PublishSends
  <2>2. ~ IsPublish(Publish(n, x), m)
    BY <2>1 DEF Begun, IsPublish, Publish
  <2> QED
    BY <1>4, <2>1, <2>2
<1>6. ASSUME ClientPubRec(s) PROVE Goal
  <2>1. /\ UNCHANGED goVars
        /\ DOMAIN outbox'[s] = 1..(Len(outbox[s]) + 1)
        /\ DOMAIN outbox[s] = 1..Len(outbox[s]) /\ Len(outbox[s]) \in Nat
        /\ \A i \in DOMAIN outbox[s] : outbox'[s][i] = outbox[s][i]
        /\ ~ IsPublish(outbox'[s][Len(outbox[s]) + 1], m)
    BY <1>6, PubRecSends DEF IsPubrel, IsPublish
  <2> QED
    BY <1>4, <2>1
<1>7. ASSUME Drop(s) PROVE Goal
  <2>1. DOMAIN outbox'[s] = {} /\ UNCHANGED goVars
    BY <1>1, <1>7 DEF Drop, NetTypes
  <2> QED
    BY <1>4, <2>1
<1>8. ASSUME Read(s) PROVE Goal
  <2>1. PICK n \in Nat : Takes(s, n)
    BY <1>1, <1>8, ReadElements
  <2>2. req'[s] = outbox[s][1] /\ 1 \in DOMAIN outbox[s]
    BY <2>1 DEF Takes, TypeInv, GoTypes
  <2>3. CASE InRequest(s, m)'
    BY <2>2, <2>3 DEF InRequest, InOutbox, IsPublish
  <2>4. CASE InOutbox(s, m)'
    BY <2>1, <2>4 DEF Takes, InOutbox, IsPublish
  <2> QED
    BY <2>3, <2>4
<1>9. ASSUME AckPublish(s) \/ ClientPubDone(s) \/ DispatchRecv(s)
             \/ (BeginRelease /\ dmsg.from = s)
      PROVE  Goal
  <2>1. outbox' = outbox
    BY <1>9 DEF AckPublish, ClientPubDone, DispatchRecv, BeginRelease,
       netVars
  <2>2. InRequest(s, m)' => InRequest(s, m)
    BY <1>9 DEF AckPublish, ClientPubDone, DispatchRecv, BeginRelease,
       goVars, InRequest, TypeInv, GoTypes
  <2> QED
    BY <1>3, <2>1, <2>2
<1> HIDE DEF Goal
<1>10. Goal
  BY <1>1, <1>2, <1>5, <1>6, <1>7, <1>8, <1>9, UpSteps DEF UpCases
<1> QED
  BY <1>10 DEF Goal


Pubacks == {p \in Wire : p.type = "PUBACK"}

(* Only the goroutine of a publisher sends PUBACK.                          *)
LEMMA PubackSteps ==
  ASSUME TypeInv, BufferInv, [Next]_vars
  PROVE  \/ InboxFrame(Pubacks)
         \/ \E s \in ClientId : AckPublish(s) /\ Qos[req[s].msg] = 1
<1>1. NetTypes
  BY DEF TypeInv
<1>2. CASE inbox' = inbox
  BY <1>1, <1>2, SameFrames
<1>3. ASSUME NEW s \in ClientId, Client(s) PROVE InboxFrame(Pubacks)
  <2>1. inbox[s] # <<>> /\ Consume(s)
    BY <1>3 DEF Client, ClientReceive, ClientReleased, ClientPubRec,
       ClientPubDone, Arriving
  <2> QED
    BY <1>1, <2>1, ConsumeFrame
<1>4. ASSUME NEW s \in ClientId, inbox' = [inbox EXCEPT ![s] = <<>>]
      PROVE  InboxFrame(Pubacks)
  <2>1. \A t \in ClientId : \A k \in DOMAIN inbox'[t] :
          k + 0 \in DOMAIN inbox[t] /\ inbox[t][k + 0] = inbox'[t][k]
    BY <1>1, <1>4 DEF NetTypes
  <2> QED
    BY <2>1 DEF InboxFrame
<1>5. ASSUME NEW s \in ClientId, Connect(s) PROVE InboxFrame(Pubacks)
  <2>1. ASSUME NEW t \in ClientId, NEW k \in DOMAIN inbox'[t],
               inbox'[t][k] \in Pubacks
        PROVE  k + 0 \in DOMAIN inbox[t] /\ inbox[t][k + 0] = inbox'[t][k]
    <3>1. t # s
      BY <1>5, <2>1, ConnectCopies DEF Pubacks
    <3>2. inbox'[t] = inbox[t]
      BY <1>5, <3>1, ConnectCopies
    <3>3. inbox[t] \in Seq(Wire)
      BY <1>1 DEF NetTypes
    <3> QED
      BY <2>1, <3>2, <3>3
  <2> QED
    BY <2>1 DEF InboxFrame
<1>6. ASSUME NEW s \in ClientId, NEW type \in Acks \ {"PUBACK"},
             NEW id \in Pid, Write(s, <<Ack(type, id)>>)
      PROVE  InboxFrame(Pubacks)
  <2> DEFINE p == Ack(type, id)
  <2>1. p \in Wire /\ p \notin Pubacks /\ Write(s, <<p>>)
    BY <1>6, PacketFacts DEF Ack, Pubacks
  <2> HIDE DEF p
  <2>2. <<p>> \in Seq(Wire) /\ \A i \in DOMAIN <<p>> : <<p>>[i] \notin Pubacks
    BY <2>1
  <2> QED
    BY <1>1, <2>1, <2>2, WriteFrame
<1>7. ASSUME NEW s \in ClientId, AckPublish(s), Qos[req[s].msg] # 1
      PROVE  InboxFrame(Pubacks)
  <2>1. Qos[req[s].msg] = 0 \/ Qos[req[s].msg] = 2
    <3>1. req[s].msg \in Msg
      BY <1>7, AckPublishWrites
    <3>2. Qos[req[s].msg] \in 0..2
      BY <3>1, MsgFacts
    <3> QED
      BY <1>7, <3>2
  <2>2. CASE Qos[req[s].msg] = 0
    <3>1. inbox' = inbox
      BY <1>7, <2>2, AckPublishWrites
    <3> QED
      BY <1>1, <3>1, SameFrames
  <2>3. CASE Qos[req[s].msg] = 2
    BY <1>6, <1>7, <2>3, AckPublishWrites DEF Acks
  <2> QED
    BY <2>1, <2>2, <2>3
<1>8. ASSUME BeginRelease \/ ProcessPubRec PROVE InboxFrame(Pubacks)
  <2>1. dpc = "lock" /\ dmsg.type \in {"PUBREL", "PUBREC"}
    BY <1>8 DEF BeginRelease, ProcessPubRec, Processing
  <2>2. dmsg.from \in ClientId /\ dmsg.pid \in Pid
    BY <2>1, HandFacts DEF Acks
  <2>3. PICK type \in {"PUBREL", "PUBCOMP"} :
          Write(dmsg.from, <<Ack(type, dmsg.pid)>>)
    BY <1>8 DEF BeginRelease, Complete, ProcessPubRec
  <2> QED
    BY <1>6, <2>2, <2>3 DEF Acks
<1>9. ASSUME NEW s \in ClientId, NEW id \in ServerPid,
             VisitPublish(s, id) \/ VisitRelease(s, id),
             inbox' # inbox
      PROVE  InboxFrame(Pubacks)
  <2>1. /\ Batch(inbox[s], inbox'[s], dmsg.msg)
        /\ \A t \in ClientId : t # s => inbox'[t] = inbox[t]
    BY <1>9, VisitCopies
  <2>2. PICK ps \in Seq(Wire) :
          /\ inbox'[s] = inbox[s] \o ps
          /\ \A i \in DOMAIN ps : ps[i].type = "PUBLISH"
    BY <2>1 DEF Batch
  <2>3. inbox[s] \in Seq(Wire)
    BY <1>1 DEF NetTypes
  <2>4. SameOf(inbox[s], inbox[s] \o ps, {"PUBACK"})
    BY <2>2, <2>3, ShiftedAppend
  <2>5. ASSUME NEW t \in ClientId
        PROVE  \E d \in {0, 1} : \A k \in DOMAIN inbox'[t] :
                 inbox'[t][k] \in Pubacks => k + d \in DOMAIN inbox[t]
                   /\ inbox[t][k + d] = inbox'[t][k]
    <3>1. SameOf(inbox[t], inbox'[t], {"PUBACK"})
      <4>1. CASE t = s
        BY <2>2, <2>4, <4>1
      <4>2. CASE t # s
        <5>1. inbox[t] \in Seq(Wire)
          BY <1>1 DEF NetTypes
        <5> QED
          BY <2>1, <4>2, <5>1, ShiftedSame
      <4> QED
        BY <4>1, <4>2
    <3> QED
      BY <3>1 DEF SameOf, Shifted, Pubacks
  <2> QED
    BY <2>5 DEF InboxFrame
<1>10. CASE \E s \in ClientId :
              \/ Read(s) \/ Exit(s) \/ DispatchRecv(s)
              \/ \E m \in Msg, id \in ClientPid \cup {NoPid} :
                   ClientPublish(s, m, id)
  BY <1>2, <1>10 DEF Read, Exit, DispatchRecv, ClientPublish, netVars
<1>11. CASE \/ \E m \in Msg : ClusterRecv(m)
            \/ BeginPublish \/ BeginCluster \/ ProcessPubAck
            \/ ProcessPubComp \/ DropAck \/ EndLoop \/ UNCHANGED vars
            \/ \E s \in ClientId, id \in ServerPid : DrawAgain(s, id)
  BY <1>2, <1>11 DEF ClusterRecv, BeginPublish, BeginCluster, ProcessPubAck,
     ProcessPubComp, DropAck, EndLoop, DrawAgain, netVars, vars
<1>12. CASE \E s \in ClientId : Drop(s)
  BY <1>4, <1>12 DEF Drop
<1> QED
  BY <1>2, <1>3, <1>5, <1>7, <1>8, <1>9, <1>10, <1>11, <1>12
  DEF Next, Goroutine, Dispatcher, Idle

LEMMA AckedStays ==
  ASSUME TypeInv, TypeInv', BasicInv, [Next]_vars,
         NEW s \in ClientId, NEW id \in Pid, Acked(s, id), ~ Connect(s),
         ClientPubDone(s) => ~ IsPuback(inbox[s][1], id)
  PROVE  Acked(s, id)'
<1>1. PICK m \in Msg :
        /\ Publisher[m] = s /\ ppid[m] = id /\ Qos[m] = 1
        /\ pstate[m] = "sent" /\ ~ InOutbox(s, m) /\ ~ InRequest(s, m)
  BY DEF Acked
<1>2. Begun(m)
  BY <1>1 DEF Begun
<1>3. ppid'[m] = id
  BY <1>1, <1>2, BegunPid
<1>4. ~ InOutbox(s, m)' /\ ~ InRequest(s, m)'
  BY <1>1, <1>2, NotSentAgain
<1>5. pstate'[m] = "sent"
  <2>1. CASE Still
    BY <1>1, <2>1 DEF Still
  <2>2. ASSUME NEW t \in ClientId, NEW n \in Msg,
               NEW x \in ClientPid \cup {NoPid}, ClientPublish(t, n, x)
        PROVE  pstate'[m] = "sent"
    BY <1>1, <2>2 DEF ClientPublish, TypeInv, ClientTypes
  <2>3. ASSUME NEW t \in ClientId, ClientPubRec(t)
        PROVE  pstate'[m] = "sent"
    BY <1>1, <2>3, PubRecProgress
  <2>4. ASSUME NEW t \in ClientId, ClientPubDone(t)
        PROVE  pstate'[m] = "sent"
    <3>1. Head(inbox[t]) = inbox[t][1]
      BY <2>4, PubDoneTakes
    <3> QED
      BY <1>1, <2>4, <3>1, PubDoneProgress DEF IsPuback
  <2> QED
    BY <2>1, <2>2, <2>3, <2>4, StillSteps
<1> QED
  BY <1>1, <1>3, <1>4, <1>5 DEF Acked

LEMMA OnceStep ==
  ASSUME TypeInv, TypeInv', FlowInv, BasicInv, BasicInv', OnceInv,
         PubackInv, [Next]_vars
  PROVE  OnceInv'
<1> SUFFICES ASSUME NEW m \in Msg, Qos[m] = 1, Publisher[m] \in ClientId
             PROVE  OnceOf(m)'
  BY DEF OnceInv
<1> DEFINE s == Publisher[m]
<1>1. OnceOf(m)
  BY DEF OnceInv
\* It was sent before, or it is sent now.
<1>2. ASSUME InOutbox(s, m)' \/ InRequest(s, m)'
      PROVE  pstate'[m] = "sent"
  <2>1. Begun(m)'
    <3>1. OriginInv'
      BY DEF BasicInv
    <3>2. CASE InOutbox(s, m)'
      BY <3>1, <3>2 DEF InOutbox, IsPublish, OriginInv, Own
    <3>3. CASE InRequest(s, m)'
      BY <3>1, <3>3 DEF InRequest, IsPublish, OriginInv, Own
    <3> QED
      BY <1>2, <3>2, <3>3
  <2>2. pstate'[m] # "idle"
    BY <2>1 DEF Begun
  <2>3. CASE ~ Begun(m)
    <3>1. CASE Still
      BY <2>2, <2>3, <3>1 DEF Still, Begun
    <3>2. ASSUME NEW t \in ClientId, NEW n \in Msg,
                 NEW x \in ClientPid \cup {NoPid}, ClientPublish(t, n, x)
          PROVE  pstate'[m] = "sent"
      BY <2>2, <2>3, <3>2 DEF ClientPublish, Begun, TypeInv, ClientTypes
    <3>3. ASSUME NEW t \in ClientId, ClientPubRec(t) \/ ClientPubDone(t)
          PROVE  FALSE
      BY <2>2, <2>3, <3>3, PubRecProgress, PubDoneProgress DEF Begun
    <3> QED
      BY <3>1, <3>2, <3>3, StillSteps
  <2>4. CASE Connect(s)
    <3>1. UNCHANGED clientVars /\ gpc'[s] = "read"
      BY <2>4 DEF Connect, TypeInv, GoTypes
    <3>2. PICK i \in DOMAIN outbox'[s] : IsPublish(outbox'[s][i], m)
      BY <1>2, <3>1 DEF InOutbox, InRequest, IsPublish
    <3>3. PICK q \in Again(s) :
            /\ DOMAIN outbox'[s] = DOMAIN q
            /\ \A j \in DOMAIN q :
                 /\ pstate[q[j]] \in {"sent", "released"}
                 /\ pstate[q[j]] = "sent" => IsPublish(outbox'[s][j], q[j])
                 /\ pstate[q[j]] = "released" =>
                      outbox'[s][j].type = "PUBREL"
      BY <2>4, ConnectSends
    <3>4. pstate[q[i]] = "sent" /\ q[i] = m
      BY <3>2, <3>3 DEF IsPublish
    <3> QED
      BY <3>1, <3>4 DEF clientVars
  <2>5. CASE Begun(m) /\ ~ Connect(s)
    <3>1. InOutbox(s, m) \/ InRequest(s, m)
      BY <1>2, <2>5, NotSentAgain
    <3>2. pstate[m] = "sent"
      BY <1>1, <3>1 DEF OnceOf
    <3>3. CASE Still
      BY <3>2, <3>3 DEF Still
    <3>4. ASSUME NEW t \in ClientId, NEW n \in Msg,
                 NEW x \in ClientPid \cup {NoPid}, ClientPublish(t, n, x)
          PROVE  pstate'[m] = "sent"
      BY <3>2, <3>4 DEF ClientPublish, TypeInv, ClientTypes
    <3>5. ASSUME NEW t \in ClientId, ClientPubRec(t)
          PROVE  pstate'[m] = "sent"
      BY <3>2, <3>5, PubRecProgress
    <3>6. ASSUME NEW t \in ClientId, ClientPubDone(t), pstate'[m] # "sent"
          PROVE  FALSE
      <4>1. /\ Publisher[m] = t /\ ppid[m] = inbox[t][1].pid
            /\ 1 \in DOMAIN inbox[t] /\ inbox[t][1].type = "PUBACK"
        BY <3>2, <3>6, PubDoneProgress, PubDoneTakes
      <4>2. PICK n \in Msg :
              /\ Publisher[n] = t /\ ppid[n] = inbox[t][1].pid
              /\ pstate[n] = "sent"
              /\ ~ InOutbox(t, n) /\ ~ InRequest(t, n)
        BY <4>1 DEF PubackInv, Acked
      <4>3. n = m
        BY <3>2, <4>1, <4>2 DEF FlowInv, IdsInv
      <4> QED
        BY <3>1, <4>1, <4>2, <4>3
    <3> QED
      BY <3>3, <3>4, <3>5, <3>6, StillSteps
  <2> QED
    BY <2>3, <2>4, <2>5
\* It is under way once.
<1>3. /\ \A i, j \in DOMAIN outbox'[s] :
           IsPublish(outbox'[s][i], m) /\ IsPublish(outbox'[s][j], m) => i = j
      /\ InOutbox(s, m)' => ~ InRequest(s, m)'
  <2> DEFINE Goal ==
        /\ \A i, j \in DOMAIN outbox'[s] :
             IsPublish(outbox'[s][i], m) /\ IsPublish(outbox'[s][j], m)
             => i = j
        /\ InOutbox(s, m)' => ~ InRequest(s, m)'
  <2>1. /\ \A i, j \in DOMAIN outbox[s] :
             IsPublish(outbox[s][i], m) /\ IsPublish(outbox[s][j], m) => i = j
        /\ InOutbox(s, m) => ~ InRequest(s, m)
        /\ pstate[m] = "idle" => ~ InOutbox(s, m) /\ ~ InRequest(s, m)
    BY <1>1 DEF OnceOf
  <2>2. ASSUME UpSame(s) PROVE Goal
    <3>1. /\ InOutbox(s, m)' => InOutbox(s, m)
          /\ InRequest(s, m)' => InRequest(s, m)
      BY <2>2, UpFacts DEF TypeInv
    <3>2. \A i \in DOMAIN outbox'[s] : IsPublish(outbox'[s][i], m) =>
            i \in DOMAIN outbox[s] /\ outbox[s][i] = outbox'[s][i]
      BY <2>2 DEF UpSame, OutboxSame, IsPublish, Forth
    <3> QED
      BY <2>1, <3>1, <3>2
  <2>3. ASSUME outbox'[s] = outbox[s], InRequest(s, m)' => InRequest(s, m)
        PROVE  Goal
    BY <2>1, <2>3 DEF InOutbox
  <2>4. ASSUME NEW n \in Msg, NEW x \in ClientPid \cup {NoPid},
               ClientPublish(s, n, x)
        PROVE  Goal
    <3>1. /\ pstate[n] = "idle" /\ UNCHANGED goVars
          /\ DOMAIN outbox'[s] = 1..(Len(outbox[s]) + 1)
          /\ DOMAIN outbox[s] = 1..Len(outbox[s]) /\ Len(outbox[s]) \in Nat
          /\ \A i \in DOMAIN outbox[s] : outbox'[s][i] = outbox[s][i]
          /\ outbox'[s][Len(outbox[s]) + 1] = Publish(n, x)
      BY <2>4, PublishSends
    <3>2. InRequest(s, m)' <=> InRequest(s, m)
      BY <3>1 DEF InRequest, goVars
    <3>3. CASE n = m
      <4>1. \A i \in DOMAIN outbox'[s] :
              IsPublish(outbox'[s][i], m) => i = Len(outbox[s]) + 1
        BY <2>1, <3>1, <3>3 DEF InOutbox
      <4> QED
        BY <2>1, <3>1, <3>2, <3>3, <4>1
    <3>4. CASE n # m
      <4>1. ~ IsPublish(Publish(n, x), m)
        BY <3>4 DEF IsPublish, Publish
      <4>2. \A i \in DOMAIN outbox'[s] : IsPublish(outbox'[s][i], m) =>
              i \in DOMAIN outbox[s] /\ outbox[s][i] = outbox'[s][i]
        BY <3>1, <4>1
      <4>3. InOutbox(s, m)' => InOutbox(s, m)
        BY <4>2 DEF InOutbox
      <4> QED
        BY <2>1, <3>2, <4>2, <4>3
    <3> QED
      BY <3>3, <3>4
  <2>5. ASSUME ClientPubRec(s) PROVE Goal
    <3>1. /\ UNCHANGED goVars
          /\ DOMAIN outbox'[s] = 1..(Len(outbox[s]) + 1)
          /\ DOMAIN outbox[s] = 1..Len(outbox[s]) /\ Len(outbox[s]) \in Nat
          /\ \A i \in DOMAIN outbox[s] : outbox'[s][i] = outbox[s][i]
          /\ ~ IsPublish(outbox'[s][Len(outbox[s]) + 1], m)
      BY <2>5, PubRecSends DEF IsPubrel, IsPublish
    <3>2. InRequest(s, m)' <=> InRequest(s, m)
      BY <3>1 DEF InRequest, goVars
    <3>3. \A i \in DOMAIN outbox'[s] : IsPublish(outbox'[s][i], m) =>
            i \in DOMAIN outbox[s] /\ outbox[s][i] = outbox'[s][i]
      BY <3>1
    <3>4. InOutbox(s, m)' => InOutbox(s, m)
      BY <3>3 DEF InOutbox
    <3> QED
      BY <2>1, <3>2, <3>3, <3>4
  <2>6. ASSUME Connect(s) PROVE Goal
    <3>1. gpc'[s] = "read"
      BY <2>6 DEF Connect, TypeInv, GoTypes
    <3>2. PICK q \in Again(s) :
            /\ DOMAIN outbox'[s] = DOMAIN q
            /\ \A i, j \in DOMAIN q : i < j <=> q[i] < q[j]
            /\ \A i \in DOMAIN q :
                 /\ i \in Nat /\ q[i] \in Msg
                 /\ pstate[q[i]] \in {"sent", "released"}
                 /\ pstate[q[i]] = "sent" => IsPublish(outbox'[s][i], q[i])
                 /\ pstate[q[i]] = "released" =>
                      outbox'[s][i].type = "PUBREL"
      BY <2>6, ConnectSends
    <3>3. \A i \in DOMAIN q : IsPublish(outbox'[s][i], m) => q[i] = m
      BY <3>2 DEF IsPublish
    <3>4. \A i, j \in DOMAIN q : q[i] = m /\ q[j] = m => i = j
      <4>1. m \in Nat
        BY MsgFacts
      <4> QED
        BY <3>2, <4>1
    <3> QED
      BY <3>1, <3>2, <3>3, <3>4 DEF InRequest
  <2>7. ASSUME Read(s) PROVE Goal
    <3>0. PICK n \in Nat : Takes(s, n)
      BY <2>7, ReadElements DEF TypeInv
    <3>1. /\ 1 \in DOMAIN outbox[s] /\ req'[s] = outbox[s][1]
          /\ n \in Nat \ {0}
          /\ \A i \in DOMAIN outbox'[s] :
               /\ i \in Nat \ {0}
               /\ i + n \in DOMAIN outbox[s]
               /\ outbox'[s][i] = outbox[s][i + n]
      BY <3>0 DEF Takes, TypeInv, GoTypes
    <3>2. \A i, j \in DOMAIN outbox'[s] :
            IsPublish(outbox'[s][i], m) /\ IsPublish(outbox'[s][j], m)
            => i = j
      <4> SUFFICES ASSUME NEW i \in DOMAIN outbox'[s],
                          NEW j \in DOMAIN outbox'[s],
                          IsPublish(outbox'[s][i], m),
                          IsPublish(outbox'[s][j], m)
                   PROVE  i = j
        OBVIOUS
      <4>1. i + n = j + n
        BY <2>1, <3>1
      <4> QED
        BY <3>1, <4>1
    <3>3. ASSUME InRequest(s, m)', NEW i \in DOMAIN outbox'[s],
                 IsPublish(outbox'[s][i], m)
          PROVE  FALSE
      <4>1. IsPublish(outbox[s][1], m) /\ IsPublish(outbox[s][i + n], m)
        BY <3>1, <3>3 DEF InRequest
      <4>2. i + n = 1
        BY <2>1, <3>1, <4>1
      <4> QED
        BY <3>1, <4>2
    <3> QED
      BY <3>2, <3>3 DEF InOutbox
  <2>8. ASSUME AckPublish(s) \/ ClientPubDone(s) \/ DispatchRecv(s)
               \/ (BeginRelease /\ dmsg.from = s)
        PROVE  Goal
    <3>1. outbox' = outbox
      BY <2>8 DEF AckPublish, ClientPubDone, DispatchRecv, BeginRelease,
         netVars
    <3>2. InRequest(s, m)' => InRequest(s, m)
      BY <2>8 DEF AckPublish, ClientPubDone, DispatchRecv, BeginRelease,
         goVars, InRequest, TypeInv, GoTypes
    <3> QED
      BY <2>3, <3>1, <3>2
  <2>9. ASSUME Drop(s) PROVE Goal
    <3>1. DOMAIN outbox'[s] = {} /\ UNCHANGED goVars
      BY <2>9 DEF Drop, TypeInv, NetTypes
    <3> QED
      BY <3>1 DEF InOutbox
  <2>10. UpCases(s)
    BY UpSteps DEF BasicInv
  <2> HIDE DEF Goal
  <2>11. Goal
    BY <2>2, <2>4, <2>5, <2>6, <2>7, <2>8, <2>9, <2>10 DEF UpCases
  <2> QED
    BY <2>11 DEF Goal
<1>4. pstate'[m] # "released"
  <2>1. pstate[m] # "released"
    BY <1>1 DEF OnceOf
  <2>2. CASE Still
    BY <2>1, <2>2 DEF Still
  <2>3. ASSUME NEW t \in ClientId, NEW n \in Msg,
               NEW x \in ClientPid \cup {NoPid}, ClientPublish(t, n, x)
        PROVE  pstate'[m] # "released"
    BY <2>1, <2>3 DEF ClientPublish, TypeInv, ClientTypes
  <2>4. ASSUME NEW t \in ClientId, ClientPubRec(t) \/ ClientPubDone(t)
        PROVE  pstate'[m] # "released"
    BY <2>1, <2>4, PubRecProgress, PubDoneProgress
  <2> QED
    BY <2>2, <2>3, <2>4, StillSteps
<1> QED
  BY <1>2, <1>3, <1>4 DEF OnceOf

LEMMA PubackStep ==
  ASSUME TypeInv, TypeInv', FlowInv, BasicInv, NamedInv, OnceInv,
         PubackInv, [Next]_vars
  PROVE  PubackInv'
<1> SUFFICES ASSUME NEW s \in ClientId, NEW k \in DOMAIN inbox'[s],
                    inbox'[s][k].type = "PUBACK",
                    NEW id, id = inbox'[s][k].pid
             PROVE  /\ \A l \in DOMAIN inbox'[s] :
                         IsPuback(inbox'[s][l], id) => l = k
                    /\ Acked(s, id)'
  BY DEF PubackInv, Acked
<1>1. /\ inbox'[s][k] \in Pubacks /\ id \in Pid
      /\ \A l \in DOMAIN inbox'[s] : l \in Nat /\ inbox'[s][l] \in Wire
  <2>1. /\ inbox'[s] \in Seq(Wire) /\ DOMAIN inbox'[s] \subseteq Nat
    BY DEF TypeInv, NetTypes
  <2>2. \A l \in DOMAIN inbox'[s] : inbox'[s][l] \in Wire
    BY <2>1
  <2> QED
    BY <2>1, <2>2 DEF Pubacks, Wire
<1>0. ~ Connect(s)
  BY ConnectCopies
\* What s gets was there before.
<1>2. ASSUME NEW d \in {0, 1},
             \A l \in DOMAIN inbox'[s] : inbox'[s][l] \in Pubacks =>
               l + d \in DOMAIN inbox[s] /\ inbox[s][l + d] = inbox'[s][l],
             ClientPubDone(s) => d = 1
      PROVE  /\ \A l \in DOMAIN inbox'[s] :
                  IsPuback(inbox'[s][l], id) => l = k
             /\ Acked(s, id)'
  <2>1. /\ k + d \in DOMAIN inbox[s] /\ inbox[s][k + d].type = "PUBACK"
        /\ inbox[s][k + d].pid = id
    BY <1>1, <1>2
  <2>2. /\ \A l \in DOMAIN inbox[s] : IsPuback(inbox[s][l], id) => l = k + d
        /\ Acked(s, id)
    BY <2>1 DEF PubackInv
  <2>3. \A l \in DOMAIN inbox'[s] : IsPuback(inbox'[s][l], id) => l = k
    <3> SUFFICES ASSUME NEW l \in DOMAIN inbox'[s],
                        IsPuback(inbox'[s][l], id)
                 PROVE  l = k
      OBVIOUS
    <3>1. inbox'[s][l] \in Pubacks
      BY <1>1 DEF IsPuback, Pubacks
    <3>2. l + d = k + d
      BY <1>2, <2>2, <3>1
    <3> QED
      BY <1>1, <3>2
  <2>4. ClientPubDone(s) => ~ IsPuback(inbox[s][1], id)
    <3> SUFFICES ASSUME ClientPubDone(s), IsPuback(inbox[s][1], id)
                 PROVE  FALSE
      OBVIOUS
    <3>1. 1 \in DOMAIN inbox[s]
      BY PubDoneTakes
    <3>2. 1 = k + 1
      BY <1>2, <2>2, <3>1
    <3>3. k \in Nat \ {0}
      BY PubDoneTakes
    <3> QED
      BY <3>2, <3>3
  <2>5. Acked(s, id)'
    BY <1>0, <1>1, <2>2, <2>4, AckedStays
  <2> QED
    BY <2>3, <2>5
<1>3. CASE ClientPubDone(s)
  <2>1. \A l \in DOMAIN inbox'[s] :
          l + 1 \in DOMAIN inbox[s] /\ inbox[s][l + 1] = inbox'[s][l]
    BY <1>3, PubDoneTakes
  <2> QED
    BY <1>2, <2>1
<1>4. CASE ~ ClientPubDone(s) /\ InboxFrame(Pubacks)
  <2>1. PICK d \in {0, 1} : \A l \in DOMAIN inbox'[s] :
          inbox'[s][l] \in Pubacks =>
            l + d \in DOMAIN inbox[s] /\ inbox[s][l + d] = inbox'[s][l]
    BY <1>4 DEF InboxFrame
  <2> QED
    BY <1>2, <1>4, <2>1
\* A goroutine sends PUBACK.
<1>5. ASSUME NEW t \in ClientId, AckPublish(t), Qos[req[t].msg] = 1
      PROVE  /\ \A l \in DOMAIN inbox'[s] :
                  IsPuback(inbox'[s][l], id) => l = k
             /\ Acked(s, id)'
  <2>1. NetTypes
    BY DEF TypeInv
  <2>2. PICK m \in Msg : /\ m = req[t].msg /\ req[t].type = "PUBLISH"
                         /\ gpc[t] = "ack" /\ gpc'[t] = "read"
                         /\ UNCHANGED <<clientVars, outbox>>
    BY <1>5, AckSends
  <2>3. Qos[m] = 1 /\ Publisher[m] = t /\ ppid[m] = req[t].pid
    BY <1>5, <2>2 DEF BasicInv, OriginInv, Own, NamedInv, Named
  <2>4. InRequest(t, m)
    BY <2>2 DEF InRequest, IsPublish
  <2>5. pstate[m] = "sent" /\ ~ InOutbox(t, m)
    BY <2>3, <2>4 DEF OnceInv, OnceOf
  <2>6. Acked(t, ppid[m])'
    <3>1. ~ InOutbox(t, m)' /\ ~ InRequest(t, m)'
      BY <2>2, <2>5 DEF InOutbox, InRequest
    <3>2. pstate'[m] = "sent" /\ ppid' = ppid
      BY <2>2, <2>5 DEF clientVars
    <3> QED
      BY <2>3, <3>1, <3>2 DEF Acked
  <2>7. ~ Acked(t, ppid[m])
    <3> SUFFICES ASSUME NEW n \in Msg, Publisher[n] = t, ppid[n] = ppid[m],
                        pstate[n] = "sent", ~ InRequest(t, n)
                 PROVE  FALSE
      BY DEF Acked
    <3>1. n = m
      BY <2>3, <2>5 DEF FlowInv, IdsInv
    <3> QED
      BY <2>4, <3>1
  <2>8. ~ ClientPubDone(s)
    <3>1. ClientPubDone(s) => gpc' = gpc
      BY DEF ClientPubDone, goVars
    <3> QED
      BY <2>2, <3>1
  <2> DEFINE p == Ack("PUBACK", req[t].pid)
  <2>9. Write(t, <<p>>) /\ p \in Wire /\ IsPuback(p, ppid[m])
    <3>1. Write(t, <<p>>) /\ req[t].pid \in Pid
      BY <1>5, AckPublishWrites
    <3> QED
      BY <2>3, <3>1, PacketFacts DEF Ack, Acks, IsPuback
  <2> HIDE DEF p
  <2>10. CASE t # s
    <3>1. inbox'[s] = inbox[s]
      BY <2>1, <2>9, <2>10 DEF Write, NetTypes
    <3>2. \A l \in DOMAIN inbox'[s] :
            l + 0 \in DOMAIN inbox[s] /\ inbox[s][l + 0] = inbox'[s][l]
      BY <1>1, <3>1
    <3> QED
      BY <1>2, <2>8, <3>2
  <2>11. CASE t = s
    <3>1. \A l \in DOMAIN inbox'[s] :
            \/ l \in DOMAIN inbox[s] /\ inbox'[s][l] = inbox[s][l]
            \/ inbox'[s][l] = p /\ l = Len(inbox[s]) + 1
      BY <2>1, <2>9, <2>11, WriteElements
    <3>2. CASE id = ppid[m]
      <4>1. \A l \in DOMAIN inbox[s] : ~ IsPuback(inbox[s][l], id)
        BY <2>7, <2>11, <3>2 DEF PubackInv, IsPuback
      <4>2. IsPuback(inbox'[s][k], id)
        BY DEF IsPuback
      <4>3. \A l \in DOMAIN inbox'[s] :
              IsPuback(inbox'[s][l], id) => l = Len(inbox[s]) + 1
        BY <3>1, <4>1
      <4>4. Acked(s, id)'
        BY <2>2, <2>6, <2>11, <3>2 DEF clientVars
      <4> QED
        BY <4>2, <4>3, <4>4
    <3>3. CASE id # ppid[m]
      <4> DEFINE old(l) ==
            l \in DOMAIN inbox[s] /\ inbox[s][l] = inbox'[s][l]
      <4>1. \A l \in DOMAIN inbox'[s] : IsPuback(inbox'[s][l], id) => old(l)
        BY <2>9, <3>1, <3>3 DEF IsPuback
      <4>2. old(k)
        BY <4>1 DEF IsPuback
      <4>3. /\ \A l \in DOMAIN inbox[s] : IsPuback(inbox[s][l], id) => l = k
            /\ Acked(s, id)
        BY <4>2 DEF PubackInv
      <4>4. Acked(s, id)'
        BY <1>0, <1>1, <2>8, <4>3, AckedStays
      <4> QED
        BY <4>1, <4>3, <4>4
    <3> QED
      BY <3>2, <3>3
  <2> QED
    BY <2>10, <2>11
<1> QED
  BY <1>3, <1>4, <1>5, PubackSteps DEF BasicInv

-----------------------------------------------------------------------------
(* What the server took over reaches every subscriber.                      *)
BeingSent(s, m) ==
  /\ dpc # "select" /\ dmsg.msg = m
  /\ \/ dmsg.type = "PUBLISH" /\ Qos[m] = 1
     \/ dmsg.type = "PUBREL" /\ dpc = "loop"
  /\ dpc = "loop" => s \in todo

Settled(s, m) ==
  \/ InGot(s, m) \/ InInbox(s, m) \/ InQueue(s, m) \/ BeingSent(s, m)
  \/ m \in missed[s]

\* The server has m from its publisher and owes it to every subscriber; its
\* PUBACK is to be written, is on its way, or has come.
TakenOver(m) ==
  LET s == Publisher[m] IN
  /\ s \in ClientId
  /\ \/ Qos[m] = 2 /\ pstate[m] \in {"released", "done"} /\ ~ Owed(m)
     \/ /\ Qos[m] = 1
        /\ \/ gpc[s] = "ack" /\ IsPublish(req[s], m)
           \/ pstate[m] = "sent" /\ PubackIn(s, ppid[m])
           \/ pstate[m] = "done"

SettledInv ==
  \A m \in Msg : TakenOver(m) => \A s \in Subscribers[m] : Settled(s, m)

LEMMA MissedStays ==
  ASSUME TypeInv, BasicInv, [Next]_vars, NEW s \in ClientId
  PROVE  missed[s] \subseteq missed'[s]
<1>1. HistoryGrows
  BY HistoryStep DEF BasicInv
<1> QED
  BY <1>1 DEF HistoryGrows

(* The loop passes a message on to a client or keeps it for it.             *)
LEMMA VisitReaches ==
  ASSUME TypeInv, TypeInv', BasicInv, NEW s \in ClientId,
         NEW id \in ServerPid, NEW m \in Msg, dmsg.msg = m, Qos[m] > 0,
         (VisitPublish(s, id) /\ Qos[m] = 1) \/ VisitRelease(s, id)
  PROVE  InInbox(s, m)' \/ InQueue(s, m)' \/ m \in missed'[s]
<1>1. NetTypes /\ SessTypes /\ HistoryTypes /\ id \in Pid
  BY MsgFacts DEF TypeInv, BasicInv
<1>2. Qos[m] = 1 \/ Qos[m] = 2
  BY MsgFacts
<1>3. CASE ~ LoginSuccess[s]
  <2>1. Enqueue(s, m, id)
    BY <1>2, <1>3 DEF VisitPublish, VisitRelease, KeptOffline
  <2>2. OfflineMsg'[s] = Append(OfflineMsg[s], [msg |-> m, pid |-> id])
    BY <1>1, <2>1 DEF Enqueue, SessTypes
  <2>3. OfflineMsg[s] \in Seq(Queued)
    BY <1>1 DEF SessTypes
  <2>4. /\ Len(OfflineMsg[s]) + 1 \in DOMAIN OfflineMsg'[s]
        /\ OfflineMsg'[s][Len(OfflineMsg[s]) + 1].msg = m
    BY <2>2, <2>3
  <2> QED
    BY <2>4 DEF InQueue
<1>4. CASE LoginSuccess[s]
  <2>2. inbox[s] \in Seq(Wire)
    BY <1>1 DEF NetTypes
  <2>3. ASSUME NEW ps, NEW n \in DOMAIN ps, ps \in Seq(Wire),
               Write(s, ps), IsPublish(ps[n], m)
        PROVE  InInbox(s, m)' \/ m \in missed'[s]
    <3>0. CASE ~ link[s]
      <4>1. m \in Carried(ps)
        BY <2>3 DEF Carried, IsPublish
      <4>2. missed'[s] = missed[s] \cup Carried(ps)
        BY <1>1, <2>3, <3>0 DEF Write, HistoryTypes
      <4> QED
        BY <4>1, <4>2
    <3>1. link[s] => inbox'[s] = inbox[s] \o ps
      BY <1>1, <2>3 DEF Write, NetTypes
    <3>2. /\ Len(inbox[s]) + n \in DOMAIN (inbox[s] \o ps)
          /\ (inbox[s] \o ps)[Len(inbox[s]) + n] = ps[n]
      <4>1. /\ DOMAIN (inbox[s] \o ps) = 1..(Len(inbox[s]) + Len(ps))
            /\ \A k \in 1..(Len(inbox[s]) + Len(ps)) : (inbox[s] \o ps)[k] =
                 IF k <= Len(inbox[s]) THEN inbox[s][k]
                 ELSE ps[k - Len(inbox[s])]
        BY <2>2, <2>3, ConcatProperties
      <4>2. /\ n \in 1..Len(ps) /\ Len(ps) \in Nat
            /\ Len(inbox[s]) \in Nat
        BY <2>2, <2>3
      <4>3. /\ Len(inbox[s]) + n \in 1..(Len(inbox[s]) + Len(ps))
            /\ ~ (Len(inbox[s]) + n <= Len(inbox[s]))
            /\ Len(inbox[s]) + n - Len(inbox[s]) = n
        BY <4>2
      <4> QED
        BY <4>1, <4>3
    <3> QED
      BY <2>3, <3>0, <3>1, <3>2 DEF InInbox, IsPublish
  <2>4. CASE VisitPublish(s, id) /\ Qos[m] = 1
    <3> DEFINE p == Publish(m, id)
    <3>1. /\ dpc = "loop" /\ dmsg.type = "PUBLISH"
          /\ Write(s, Append(write_buf, p))
      BY <1>4, <2>4 DEF VisitPublish, Visiting, SentNow, PublishBuffer, WireId
    <3>2. p \in Wire /\ IsPublish(p, m)
      BY <1>1, PacketFacts DEF Publish, IsPublish
    <3> HIDE DEF p
    <3>3. write_buf \in Seq(Wire)
      BY DEF TypeInv, DispTypes, Buffered
    <3>4. /\ Append(write_buf, p) \in Seq(Wire)
          /\ Len(write_buf) + 1 \in DOMAIN Append(write_buf, p)
          /\ Append(write_buf, p)[Len(write_buf) + 1] = p
      BY <3>2, <3>3
    <3> QED
      BY <2>3, <3>1, <3>2, <3>4
  <2>5. CASE VisitRelease(s, id)
    <3> DEFINE p == Publish(m, id)
    <3>1. Write(s, <<p>>)
      BY <1>4, <2>5 DEF VisitRelease, WireId
    <3>2. p \in Wire /\ IsPublish(p, m)
      BY <1>1, PacketFacts DEF Publish, IsPublish
    <3> HIDE DEF p
    <3>3. <<p>> \in Seq(Wire) /\ 1 \in DOMAIN <<p>> /\ <<p>>[1] = p
      BY <3>2
    <3> QED
      BY <2>3, <3>1, <3>2, <3>3
  <2> QED
    BY <2>4, <2>5
<1> QED
  BY <1>3, <1>4

LEMMA BeingSentStays ==
  ASSUME TypeInv, TypeInv', BasicInv, [Next]_vars,
         NEW m \in Msg, NEW s \in Subscribers[m], Qos[m] > 0, BeingSent(s, m)
  PROVE  \/ BeingSent(s, m)' \/ InInbox(s, m)' \/ InQueue(s, m)'
         \/ m \in missed'[s]
<1>1. /\ dpc # "select" /\ dmsg.msg = m
      /\ \/ dmsg.type = "PUBLISH" /\ Qos[m] = 1
         \/ dmsg.type = "PUBREL" /\ dpc = "loop"
      /\ dpc = "loop" => s \in todo
      /\ s \in ClientId
  BY MsgFacts DEF BeingSent
<1>2. CASE UNCHANGED dispVars
  BY <1>1, <1>2 DEF BeingSent, dispVars
<1>3. CASE BeginPublish
  <2>1. /\ dpc' = "loop" /\ dmsg'.msg = m /\ dmsg'.type = dmsg.type
        /\ todo' = Subscribers[m] /\ dmsg.type = "PUBLISH"
    BY <1>1, <1>3 DEF BeginPublish, Processing, Loop, TypeInv, DispTypes,
       Request
  <2> QED
    BY <1>1, <2>1 DEF BeingSent
<1>4. ASSUME NEW t \in ClientId, NEW id \in ServerPid,
             VisitPublish(t, id) \/ VisitRelease(t, id)
      PROVE  \/ BeingSent(s, m)' \/ InInbox(s, m)' \/ InQueue(s, m)'
             \/ m \in missed'[s]
  <2>1. /\ UNCHANGED <<dpc, dmsg>> /\ dpc = "loop" /\ todo' = todo \ {t}
    BY <1>4 DEF VisitPublish, VisitRelease, Visiting
  <2>2. CASE t # s
    BY <1>1, <2>1, <2>2 DEF BeingSent
  <2>3. CASE t = s
    <3>1. (VisitPublish(s, id) /\ Qos[m] = 1) \/ VisitRelease(s, id)
      BY <1>1, <1>4, <2>3 DEF VisitPublish
    <3> QED
      BY <1>1, <3>1, VisitReaches
  <2> QED
    BY <2>2, <2>3
<1>5. /\ ~ BeginCluster /\ ~ BeginRelease /\ ~ EndLoop
      /\ ~ ProcessPubAck /\ ~ ProcessPubRec /\ ~ ProcessPubComp /\ ~ DropAck
      /\ \A t \in ClientId : ~ DispatchRecv(t)
      /\ \A n \in Msg : ~ ClusterRecv(n)
  BY <1>1 DEF BeginCluster, BeginRelease, EndLoop, ProcessPubAck,
     ProcessPubRec, ProcessPubComp, DropAck, Processing, DispatchRecv,
     ClusterRecv, Acks
<1>6. CASE \/ UNCHANGED vars
           \/ \E t \in ClientId : Client(t) \/ Goroutine(t) \/ Connect(t)
                                  \/ Drop(t)
           \/ \E t \in ClientId, n \in Msg, x \in ClientPid \cup {NoPid} :
                ClientPublish(t, n, x)
           \/ \E t \in ClientId, id \in ServerPid : DrawAgain(t, id)
  <2>1. UNCHANGED dispVars
    BY <1>6 DEF vars, Client, ClientReceive, ClientReleased, ClientPubRec,
       ClientPubDone, Goroutine, Read, AckPublish, Exit, Connect, Drop,
       ClientPublish, DrawAgain
  <2> QED
    BY <1>1, <2>1 DEF BeingSent, dispVars
<1> QED
  BY <1>3, <1>4, <1>5, <1>6 DEF Next, Dispatcher, Idle

LEMMA QueueStays ==
  ASSUME TypeInv, TypeInv', BufferInv, [Next]_vars, NEW m \in Msg,
         NEW s \in ClientId, InQueue(s, m)
  PROVE  InQueue(s, m)' \/ InInbox(s, m)'
<1>1. PICK i \in DOMAIN OfflineMsg[s] : OfflineMsg[s][i].msg = m
  BY DEF InQueue
<1>2. CASE OfflineMsg'[s] = OfflineMsg[s]
  BY <1>1, <1>2 DEF InQueue
<1>3. CASE Connect(s)
  <2>1. i \in DOMAIN inbox'[s] /\ IsPublish(inbox'[s][i], m)
    BY <1>1, <1>3, ConnectCopies DEF IsPublish
  <2> QED
    BY <2>1 DEF InInbox, IsPublish
<1>4. ASSUME NEW e, e \in Queued, OfflineMsg'[s] = Append(OfflineMsg[s], e)
      PROVE  InQueue(s, m)'
  <2>1. OfflineMsg[s] \in Seq(Queued)
    BY DEF TypeInv, SessTypes
  <2>2. i \in DOMAIN OfflineMsg'[s] /\ OfflineMsg'[s][i] = OfflineMsg[s][i]
    BY <1>1, <1>4, <2>1
  <2> QED
    BY <1>1, <2>2 DEF InQueue
<1>5. ASSUME NEW t \in ClientId, NEW id \in ServerPid,
             VisitPublish(t, id) \/ VisitRelease(t, id),
             OfflineMsg'[s] # OfflineMsg[s]
      PROVE  InQueue(s, m)'
  <2>1. /\ dmsg.msg \in Msg
        /\ OfflineMsg'[s] =
             Append(OfflineMsg[s], [msg |-> dmsg.msg, pid |-> id])
    BY <1>5, VisitCopies
  <2>2. [msg |-> dmsg.msg, pid |-> id] \in Queued
    BY <2>1, MsgFacts DEF Queued
  <2> QED
    BY <1>4, <2>1, <2>2
<1>6. CASE DownFrame
  BY <1>2, <1>6 DEF DownFrame
<1>7. ASSUME NEW t \in ClientId, ClientReceive(t)
      PROVE  OfflineMsg' = OfflineMsg
  BY <1>7, ReceiveCopies
<1>8. ASSUME NEW t \in ClientId, Connect(t), t # s
      PROVE  OfflineMsg'[s] = OfflineMsg[s]
  BY <1>8, ConnectCopies
<1> QED
  BY <1>2, <1>3, <1>5, <1>6, <1>7, <1>8, DownSteps

LEMMA GotStays ==
  ASSUME TypeInv, BufferInv, [Next]_vars, NEW m \in Msg, NEW s \in ClientId,
         InGot(s, m)
  PROVE  InGot(s, m)'
<1>1. PICK i \in DOMAIN got[s] : got[s][i] = m
  BY DEF InGot
<1>2. CASE got'[s] = got[s]
  BY <1>1, <1>2 DEF InGot
<1>3. ASSUME ClientReceive(s), got'[s] # got[s] PROVE InGot(s, m)'
  <2>1. PICK e \in Msg : got'[s] = Append(got[s], e)
    BY <1>3, ReceiveCopies
  <2>2. got[s] \in Seq(Msg)
    BY DEF TypeInv, ClientTypes
  <2>3. i \in DOMAIN got'[s] /\ got'[s][i] = got[s][i]
    BY <1>1, <2>1, <2>2
  <2> QED
    BY <1>1, <2>3 DEF InGot
<1>4. CASE DownFrame
  BY <1>2, <1>4 DEF DownFrame
<1>5. ASSUME NEW t \in ClientId, ClientReceive(t), t # s
      PROVE  got'[s] = got[s]
  BY <1>5, ReceiveCopies
<1>6. ASSUME NEW t \in ClientId, Connect(t)
      PROVE  got'[s] = got[s]
  BY <1>6, ConnectCopies
<1>7. ASSUME NEW t \in ClientId, NEW id \in ServerPid,
             VisitPublish(t, id) \/ VisitRelease(t, id)
      PROVE  got'[s] = got[s]
  BY <1>7, VisitCopies
<1> QED
  BY <1>2, <1>3, <1>4, <1>5, <1>6, <1>7, DownSteps

(* A message that arrives is handed over, unless it is missed.              *)
LEMMA InboxStays ==
  ASSUME TypeInv, BasicInv, [Next]_vars, NEW m \in Msg,
         NEW s \in ClientId, InInbox(s, m)
  PROVE  InInbox(s, m)' \/ InGot(s, m)' \/ m \in missed'[s]
<1>1. PICK k \in DOMAIN inbox[s] : IsPublish(inbox[s][k], m)
  BY DEF InInbox, IsPublish
<1>2. CASE \E l \in DOMAIN inbox'[s] : inbox'[s][l] = inbox[s][k]
  BY <1>1, <1>2 DEF InInbox, IsPublish
<1>3. NetTypes /\ HistoryTypes /\ got[s] \in Seq(Msg)
  BY DEF TypeInv, BasicInv, ClientTypes
<1>4. CASE k = 1 /\ Client(s)
  <2> DEFINE p == Head(inbox[s])
  <2>1. inbox[s] # <<>> /\ Consume(s)
    BY <1>4 DEF Client, ClientReceive, ClientReleased, ClientPubRec,
       ClientPubDone, Arriving
  <2>2. inbox[s][1] = p
    BY <1>3, <2>1, ConsumeElements
  <2>3. p.type = "PUBLISH" /\ p.msg = m
    BY <1>1, <1>4, <2>2 DEF IsPublish
  <2>4. ClientReceive(s)
    BY <1>4, <2>3 DEF Client, ClientReleased, ClientPubRec, ClientPubDone,
       Arriving
  <2>5. \/ got' = [got EXCEPT ![s] = Append(@, p.msg)]
        \/ missed' = [missed EXCEPT ![s] = @ \cup {p.msg}]
    BY <2>4 DEF ClientReceive
  <2>6. CASE got' = [got EXCEPT ![s] = Append(@, p.msg)]
    <3>1. got'[s] = Append(got[s], m)
      BY <2>3, <2>6 DEF TypeInv, ClientTypes
    <3>2. /\ Len(got[s]) + 1 \in DOMAIN got'[s]
          /\ got'[s][Len(got[s]) + 1] = m
      BY <1>3, <3>1
    <3> QED
      BY <3>2 DEF InGot
  <2>7. CASE missed' = [missed EXCEPT ![s] = @ \cup {p.msg}]
    BY <1>3, <2>3, <2>7 DEF HistoryTypes
  <2> QED
    BY <2>5, <2>6, <2>7
<1>5. CASE Drop(s)
  <2>1. missed'[s] = missed[s] \cup Carried(inbox[s])
    BY <1>3, <1>5 DEF Drop, HistoryTypes
  <2>2. m \in Carried(inbox[s])
    BY <1>1 DEF Carried, IsPublish
  <2> QED
    BY <2>1, <2>2
<1> QED
  BY <1>2, <1>4, <1>5, ArrivalKept

LEMMA SettledStays ==
  ASSUME TypeInv, TypeInv', BasicInv, [Next]_vars,
         NEW m \in Msg, NEW s \in Subscribers[m], Qos[m] > 0, Settled(s, m)
  PROVE  Settled(s, m)'
<1>1. s \in ClientId /\ BufferInv
  BY MsgFacts DEF BasicInv
<1>2. missed[s] \subseteq missed'[s]
  BY <1>1, MissedStays
<1> QED
  BY <1>1, <1>2, GotStays, InboxStays, QueueStays, BeingSentStays DEF Settled

(* The release of a message begins its loop.                                *)
LEMMA OwedIsSent ==
  ASSUME TypeInv, TypeInv', FlowInv, OwedInv, QueuedFreeInv, [Next]_vars,
         NEW m \in Msg, Qos[m] = 2, Owed(m), ~ Owed(m)',
         NEW s \in Subscribers[m]
  PROVE  BeingSent(s, m)'
<1>1. /\ BeginRelease /\ dmsg.from = Publisher[m] /\ dmsg.pid = ppid[m]
      /\ pstate[m] \in {"sent", "released"}
  BY OwedEnds DEF OwedInv
<1>2. /\ dpc = "lock" /\ dmsg.type = "PUBREL"
      /\ PubStatus[dmsg.from][dmsg.pid] = "PUBREL"
  BY <1>1 DEF BeginRelease, Processing
<1>3. dmsg.from \in ClientId /\ dmsg.pid \in Pid
  BY <1>2, HandFacts DEF Acks
<1>4. PICK n \in Msg : /\ n = CacheMsg[dmsg.from][dmsg.pid] /\ Qos[n] = 2
                       /\ Publisher[n] = dmsg.from /\ ppid[n] = dmsg.pid
  BY <1>2, <1>3 DEF FlowInv, CacheInv
<1>5. Owed(n)
  BY <1>2, <1>3, <1>4 DEF Owed, Kept
<1>6. pstate[n] \in {"sent", "released"}
  BY <1>4, <1>5 DEF OwedInv
<1>7. n = m
  BY <1>1, <1>4, <1>6 DEF FlowInv, IdsInv
<1>8. Loop(m)
  BY <1>1, <1>4, <1>7, MsgFacts DEF BeginRelease
<1>9. /\ dpc' = "loop" /\ dmsg'.msg = m /\ dmsg'.type = "PUBREL"
      /\ todo' = Subscribers[m]
  BY <1>2, <1>8 DEF Loop, TypeInv, DispTypes, Request
<1> QED
  BY <1>9 DEF BeingSent

(* PUBACK comes from the goroutine that holds the message.                  *)
LEMMA PubackFollows ==
  ASSUME TypeInv, TypeInv', FlowInv, BasicInv, NamedInv, OnceInv,
         [Next]_vars, NEW m \in Msg, Publisher[m] \in ClientId, Qos[m] = 1,
         pstate[m] = "sent", NEW k \in DOMAIN inbox'[Publisher[m]],
         IsPuback(inbox'[Publisher[m]][k], ppid[m])
  PROVE  TakenOver(m)
<1> DEFINE s == Publisher[m]
<1>1. NetTypes /\ inbox'[s][k] \in Pubacks
  <2>1. inbox'[s] \in Seq(Wire)
    BY DEF TypeInv, NetTypes
  <2> QED
    BY <2>1 DEF TypeInv, Pubacks, IsPuback
<1>2. ASSUME NEW l \in DOMAIN inbox[s], inbox[s][l] = inbox'[s][k]
      PROVE  TakenOver(m)
  BY <1>2 DEF TakenOver, PubackIn, IsPuback
<1>3. CASE InboxFrame(Pubacks)
  <2>1. PICK d \in {0, 1} :
          k + d \in DOMAIN inbox[s] /\ inbox[s][k + d] = inbox'[s][k]
    BY <1>1, <1>3 DEF InboxFrame
  <2> QED
    BY <1>2, <2>1
<1>4. ASSUME NEW t \in ClientId, AckPublish(t), Qos[req[t].msg] = 1
      PROVE  TakenOver(m)
  <2> DEFINE n == req[t].msg
             p == Ack("PUBACK", req[t].pid)
  <2>1. n \in Msg /\ req[t].type = "PUBLISH" /\ gpc[t] = "ack"
    BY <1>4, AckSends
  <2>2. Publisher[n] = t /\ ppid[n] = req[t].pid
    BY <2>1 DEF BasicInv, OriginInv, Own, NamedInv, Named
  <2>3. IsPublish(req[t], n) /\ InRequest(t, n)
    BY <2>1 DEF InRequest, IsPublish
  <2>4. pstate[n] = "sent"
    BY <1>4, <2>1, <2>2, <2>3 DEF OnceInv, OnceOf
  <2>5. Write(t, <<p>>) /\ p \in Wire
    BY <1>4, AckPublishWrites, PacketFacts DEF Acks
  <2>6. p.pid = req[t].pid
    BY DEF Ack
  <2> HIDE DEF p
  <2>7. CASE t # s
    <3>1. inbox'[s] = inbox[s]
      BY <1>1, <2>5, <2>7 DEF Write, NetTypes
    <3> QED
      BY <1>2, <3>1
  <2>8. CASE t = s /\ inbox'[s][k] = p
    <3>1. ppid[n] = ppid[m]
      BY <2>2, <2>6, <2>8 DEF IsPuback
    <3>2. n = m
      BY <2>1, <2>2, <2>4, <2>8, <3>1 DEF FlowInv, IdsInv
    <3> QED
      BY <2>1, <2>3, <2>8, <3>2 DEF TakenOver
  <2>9. CASE t = s /\ inbox'[s][k] # p
    <3>1. k \in DOMAIN inbox[s] /\ inbox'[s][k] = inbox[s][k]
      BY <1>1, <2>5, <2>9, WriteElements
    <3> QED
      BY <1>2, <3>1
  <2> QED
    BY <2>7, <2>8, <2>9
<1> QED
  BY <1>3, <1>4, PubackSteps DEF BasicInv

LEMMA SettledStep ==
  ASSUME TypeInv, TypeInv', FlowInv, BasicInv, OwedInv, QueuedFreeInv,
         NamedInv, AnsweredOwedInv, OnceInv, PubackInv, SettledInv,
         [Next]_vars
  PROVE  SettledInv'
<1> SUFFICES ASSUME NEW m \in Msg, TakenOver(m)', NEW s \in Subscribers[m]
             PROVE  Settled(s, m)'
  BY DEF SettledInv
<1>1. Publisher[m] \in ClientId /\ (Qos[m] = 1 \/ Qos[m] = 2)
  BY DEF TakenOver
<1>2. CASE TakenOver(m)
  <2>1. Settled(s, m)
    BY <1>2 DEF SettledInv
  <2> QED
    BY <1>1, <2>1, SettledStays
<1>3. CASE ~ TakenOver(m) /\ Qos[m] = 2
  <2>1. pstate'[m] \in {"released", "done"} /\ ~ Owed(m)'
    BY <1>3 DEF TakenOver
  <2>2. ASSUME ~ Owed(m) PROVE FALSE
    <3>1. pstate[m] \notin {"released", "done"}
      BY <1>1, <1>3, <2>2 DEF TakenOver
    <3>2. CASE Still
      BY <2>1, <3>1, <3>2 DEF Still
    <3>3. ASSUME NEW t \in ClientId, NEW n \in Msg,
                 NEW x \in ClientPid \cup {NoPid}, ClientPublish(t, n, x)
          PROVE  FALSE
      BY <1>3, <2>1, <3>1, <3>3 DEF ClientPublish, TypeInv, ClientTypes
    <3>4. ASSUME NEW t \in ClientId, ClientPubDone(t) PROVE FALSE
      BY <1>3, <2>1, <3>1, <3>4, PubDoneProgress
    <3>5. ASSUME NEW t \in ClientId, ClientPubRec(t) PROVE FALSE
      <4>1. /\ Publisher[m] = t /\ ppid[m] = Head(inbox[t]).pid
            /\ pstate[m] = "sent"
        BY <2>1, <3>1, <3>5, PubRecProgress
      <4>2. PubrecIn(t, ppid[m])
        BY <3>5, <4>1, PubRecSends DEF PubrecIn, IsPubrec
      <4> QED
        BY <1>3, <2>2, <4>1, <4>2 DEF AnsweredOwedInv
    <3> QED
      BY <3>2, <3>3, <3>4, <3>5, StillSteps
  <2>3. BeingSent(s, m)'
    BY <1>3, <2>1, <2>2, OwedIsSent
  <2> QED
    BY <2>3 DEF Settled
<1>4. CASE ~ TakenOver(m) /\ Qos[m] = 1
  <2> DEFINE t == Publisher[m]
  <2>1. /\ ~ (gpc[t] = "ack" /\ IsPublish(req[t], m))
        /\ ~ (pstate[m] = "sent" /\ PubackIn(t, ppid[m]))
        /\ pstate[m] # "done" /\ pstate[m] # "released"
    BY <1>1, <1>4 DEF TakenOver, OnceInv, OnceOf
\* The dispatcher takes the message.
  <2>2. ASSUME gpc'[t] = "ack", IsPublish(req'[t], m)
        PROVE  Settled(s, m)'
    <3>1. DispatchRecv(t) /\ req[t].type = "PUBLISH" /\ req'[t] = req[t]
      BY <1>1, <2>1, <2>2, AckNew DEF BasicInv
    <3>2. dpc' = "lock" /\ dmsg'.msg = m /\ dmsg'.type = "PUBLISH"
      BY <2>2, <3>1 DEF DispatchRecv, IsPublish
    <3> QED
      BY <1>4, <3>2 DEF Settled, BeingSent
\* No other step begins with it.
  <2>3. ASSUME NEW n \in Msg, NEW x \in ClientPid \cup {NoPid},
               NEW c \in ClientId, ClientPublish(c, n, x)
        PROVE  Settled(s, m)'
    <3>1. /\ pstate[n] = "idle" /\ Publisher[n] = c
          /\ pstate' = [pstate EXCEPT ![n] =
                          IF Qos[n] = 0 THEN "done" ELSE "sent"]
          /\ ppid' = [ppid EXCEPT ![n] = x]
          /\ Qos[n] > 0 => InFlight(c, x) = {}
          /\ inbox' = inbox /\ gpc' = gpc /\ req' = req
      BY <2>3, PublishSends DEF goVars
    <3>2. pstate'[m] = "sent" /\ PubackIn(t, ppid[m])'
      <4>1. pstate'[m] # "done"
        BY <1>4, <2>1, <3>1 DEF TypeInv, ClientTypes
      <4> QED
        BY <1>4, <2>1, <3>1, <4>1 DEF TakenOver
    <3>3. CASE n = m
      <4>1. ppid'[m] = x
        BY <3>1, <3>3 DEF TypeInv, ClientTypes
      <4>2. PICK k \in DOMAIN inbox[t] : IsPuback(inbox[t][k], x)
        BY <3>1, <3>2, <4>1 DEF PubackIn, IsPuback
      <4>3. Acked(t, x)
        BY <1>1, <4>2 DEF PubackInv, IsPuback
      <4>4. InFlight(c, x) # {}
        BY <3>1, <3>3, <4>3 DEF Acked, InFlight
      <4> QED
        BY <1>4, <3>1, <3>3, <4>4
    <3>4. CASE n # m
      <4>1. pstate'[m] = pstate[m] /\ ppid'[m] = ppid[m]
        BY <3>1, <3>4 DEF TypeInv, ClientTypes
      <4> QED
        BY <2>1, <3>1, <3>2, <4>1 DEF PubackIn
    <3> QED
      BY <3>3, <3>4
  <2>4. CASE /\ pstate[m] = "sent"
             /\ PubackIn(t, ppid[m])' /\ ppid'[m] = ppid[m]
    <3>1. PICK k \in DOMAIN inbox'[t] : IsPuback(inbox'[t][k], ppid[m])
      BY <2>4 DEF PubackIn, IsPuback
    <3> QED
      BY <1>1, <1>4, <2>4, <3>1, PubackFollows
  <2>5. CASE Still
    <3>1. pstate'[m] # "done" /\ pstate'[m] = pstate[m] /\ ppid'[m] = ppid[m]
      BY <2>1, <2>5 DEF Still
    <3> QED
      BY <1>4, <2>2, <2>4, <3>1 DEF TakenOver
  <2>6. ASSUME NEW c \in ClientId, ClientPubRec(c)
        PROVE  Settled(s, m)'
    <3>1. pstate'[m] = pstate[m] /\ ppid'[m] = ppid[m]
      BY <1>4, <2>6, PubRecProgress
    <3> QED
      BY <1>4, <2>1, <2>2, <2>4, <3>1 DEF TakenOver
  <2>7. ASSUME NEW c \in ClientId, ClientPubDone(c)
        PROVE  Settled(s, m)'
    <3>1. /\ ppid'[m] = ppid[m]
          /\ \/ pstate'[m] = pstate[m]
             \/ /\ t = c /\ pstate[m] = "sent"
                /\ IsPuback(Head(inbox[c]), ppid[m])
      BY <2>1, <2>7, PubDoneProgress DEF IsPuback
    <3>2. Head(inbox[c]) = inbox[c][1] /\ 1 \in DOMAIN inbox[c]
      BY <2>7, PubDoneTakes
    <3>3. pstate'[m] = pstate[m]
      BY <2>1, <3>1, <3>2 DEF PubackIn, IsPuback
    <3> QED
      BY <1>4, <2>1, <2>2, <2>4, <3>1, <3>3 DEF TakenOver
  <2> QED
    BY <2>3, <2>5, <2>6, <2>7, StillSteps
<1> QED
  BY <1>1, <1>2, <1>3, <1>4

NotLostInv ==
  /\ NamedInv /\ AckingInv /\ AnsweredOwedInv
  /\ OnceInv /\ PubackInv /\ SettledInv

LEMMA NotLostInvariant == Spec => []NotLostInv
<1>1. Init => NotLostInv
  <2> SUFFICES ASSUME Init PROVE NotLostInv
    OBVIOUS
  <2>1. /\ \A s \in ClientId : /\ inbox[s] = <<>> /\ outbox[s] = <<>>
                               /\ gpc[s] \in {"read", "off"}
        /\ \A m \in Msg : pstate[m] = "idle"
    BY DEF Init
  <2>2. NamedInv /\ AckingInv /\ AnsweredOwedInv
    BY <2>1 DEF NamedInv, AckingInv, AnsweredOwedInv
  <2>3. OnceInv
    BY <2>1 DEF OnceInv, OnceOf, InOutbox, InRequest
  <2>4. PubackInv
    BY <2>1 DEF PubackInv
  <2>5. SettledInv
    BY <2>1 DEF SettledInv, TakenOver
  <2> QED
    BY <2>2, <2>3, <2>4, <2>5 DEF NotLostInv
<1>2. /\ DispInv /\ BasicInv /\ DeliveryOrderInv /\ QueuedFreeInv
      /\ NotLostInv /\ [Next]_vars
      => NotLostInv'
  <2> SUFFICES ASSUME DispInv, BasicInv, DeliveryOrderInv, QueuedFreeInv,
                      NotLostInv, [Next]_vars
               PROVE  NotLostInv'
    OBVIOUS
  <2>1. /\ TypeInv /\ FlowInv /\ DeliveryInv /\ SentInv /\ KeptInv /\ OwedInv
        /\ NamedInv /\ AckingInv /\ AnsweredOwedInv
        /\ OnceInv /\ PubackInv /\ SettledInv
    BY DEF DispInv, DeliveryOrderInv, KeptInv, NotLostInv
  <2>2. TypeInv'
    BY <2>1, TypeStep
  <2>3. BasicInv'
    BY <2>1, <2>2, BasicStep
  <2>4. NamedInv' /\ AckingInv' /\ AnsweredOwedInv'
    BY <2>1, <2>2, NamedStep, AckingStep, AnsweredOwedStep
  <2>5. OnceInv' /\ PubackInv'
    BY <2>1, <2>2, <2>3, OnceStep, PubackStep
  <2>6. SettledInv'
    BY <2>1, <2>2, SettledStep
  <2> QED
    BY <2>4, <2>5, <2>6 DEF NotLostInv
<1> QED
  BY <1>1, <1>2, DeliveryOrderInvariant, QueuedFreeInvariant, PTL DEF Spec

(* A message that was handed over was handed over at least once.            *)
LEMMA GotTimes ==
  ASSUME TypeInv, NEW s \in ClientId, NEW m \in Msg, InGot(s, m)
  PROVE  Times(s, m) > 0
<1> DEFINE I == {i \in DOMAIN got[s] : got[s][i] = m}
<1>1. got[s] \in Seq(Msg)
  BY DEF TypeInv, ClientTypes
<1>2. DOMAIN got[s] = 1..Len(got[s]) /\ Len(got[s]) \in Nat
  BY <1>1
<1>3. IsFiniteSet(I)
  <2>1. IsFiniteSet(1..Len(got[s]))
    BY <1>2, FS_Interval
  <2>2. I \subseteq 1..Len(got[s])
    BY <1>2
  <2> QED
    BY <2>1, <2>2, FS_Subset
<1>4. I # {}
  BY DEF InGot
<1>5. Cardinality(I) \in Nat /\ Cardinality(I) # 0
  BY <1>3, <1>4, FS_CardinalityType, FS_EmptySet
<1> QED
  BY <1>5 DEF Times

(* For any clients, messages, subscriptions, ids and lost connections,      *)
(* however many packets a Read takes: a message whose publisher has the     *)
(* final PUBACK or PUBCOMP was handed to each subscriber, or is in its      *)
(* connection, or in its queue, or the dispatcher has it in hand and is yet *)
(* to come to that subscriber; or it was sent, and lost with the connection *)
(* or taken by the client for a repetition.                                 *)
THEOREM AcknowledgedIsKept == Spec => []AcknowledgedIsNotLost
<1>1. DispInv /\ BasicInv /\ DeliveryOrderInv /\ NotLostInv
      => AcknowledgedIsNotLost
  <2> SUFFICES ASSUME DispInv, BasicInv, DeliveryOrderInv, NotLostInv,
                      NEW m \in Msg, Qos[m] > 0, pstate[m] = "done",
                      NEW s \in Subscribers[m]
               PROVE  Times(s, m) > 0 \/ Waiting(s, m) \/ m \in missed[s]
    BY DEF AcknowledgedIsNotLost
  <2>1. TypeInv /\ BegunInv /\ OwedInv /\ SettledInv
    BY DEF DispInv, BasicInv, DeliveryOrderInv, KeptInv, NotLostInv
  <2>2. s \in ClientId /\ Qos[m] \in 0..2
    BY MsgFacts
  <2>3. Publisher[m] \in ClientId
    BY <2>1 DEF Begun, BegunInv
  <2>4. TakenOver(m)
    <3>1. CASE Qos[m] = 2
      BY <2>1, <2>3, <3>1 DEF TakenOver, OwedInv
    <3>2. CASE Qos[m] = 1
      BY <2>3, <3>2 DEF TakenOver
    <3> QED
      BY <2>2, <3>1, <3>2
  <2>5. Settled(s, m)
    BY <2>1, <2>4 DEF SettledInv
  <2>6. CASE InGot(s, m)
    BY <2>1, <2>2, <2>6, GotTimes
  <2>7. ASSUME InInbox(s, m) \/ InQueue(s, m) PROVE Waiting(s, m)
    BY <2>7 DEF Waiting, InQueue
  <2>8. ASSUME BeingSent(s, m) PROVE Waiting(s, m)
    <3>1. dpc \in {"select", "lock", "loop"}
      BY <2>1 DEF TypeInv, DispTypes
    <3> QED
      BY <2>8, <3>1 DEF BeingSent, Waiting, BeingDispatched
  <2> QED
    BY <2>5, <2>6, <2>7, <2>8 DEF Settled
<1> QED
  BY DeliveryOrderInvariant, NotLostInvariant, <1>1, PTL

=============================================================================
