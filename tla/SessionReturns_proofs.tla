------------------------ MODULE SessionReturns_proofs ------------------------
(***************************************************************************)
(* Theorems about ClientSessions for clients that come back in turn: a     *)
(* client logs in again only when the server has closed its earlier        *)
(* connections (Redial # "takeover").  Then the connections of one client  *)
(* share a struct one after the other, and what is left to get wrong is    *)
(* the order of what they leave behind: an earlier connection may be over  *)
(* while its last request is still in the dispatcher's hand.               *)
(***************************************************************************)
EXTENDS ClientSessions_proofs

InTurn == Redial # "takeover"

-----------------------------------------------------------------------------
(* The inductive invariant.                                                 *)

\* The dispatcher has a request of this kind from client id.
InHand(type, id) == dmsg.type = type /\ dmsg.id = id

\* Connection c has a struct and has not handed over its MSG_CLIENT_ADD.
LoggingIn(c) == pc[c] \in InLogin \cup {"add"}

\* Its MSG_CLIENT_ADD is handed over, and its goroutine has not ended.
InUse(c) ==
  /\ pc[c] \in {"read", "sub", "unsub", "comp", "suback", "unsuback",
                "exit", "del"}
  /\ mqttClientData[c] # Nil

\* A request is about the client its struct belongs to.
RequestInv ==
  dmsg.type # "none" =>
    dmsg.ref \in Conn /\ dmsg.id \in ClientId /\ owner[dmsg.ref] = dmsg.id

\* Connections of one client are served one after the other, and the next
\* one has nothing before its CONNECT.
TurnInv ==
  dpc # "dead" =>
    /\ \A c \in Conn : pc[c] = "dial" =>
         who[c] = Nil /\ mqttClientData[c] = Nil
    /\ \A c, d \in Conn :
         c # d /\ who[c] # Nil /\ who[c] = who[d] =>
           pc[c] = "done" \/ pc[d] = "done"

\* Until its goroutine ends, a struct says what its connection wrote to it.
OwnInv ==
  dpc # "dead" =>
    \A c \in Conn :
      LET r == mqttClientData[c] IN
      /\ pc[c] = "install" \/ pc[c] = "add" \/ InUse(c) =>
           LoginSuccess[r] /\ clearSession[r] = wantClean[c]
      /\ pc[c] = "add" \/ InUse(c) => conn[r] = c

\* A connection in use is registered, or the dispatcher is about to do it,
\* and no earlier connection's MSG_CLIENT_ADD or _DEL is in hand any more.
MapInv ==
  dpc # "dead" =>
    \A c \in Conn : InUse(c) =>
      /\ ~ InHand("del", who[c])
      /\ InHand("add", who[c]) => dmsg.ref = mqttClientData[c]
      /\ \/ clientsMap[who[c]] = mqttClientData[c]
         \/ /\ dmsg.type = "add" /\ dmsg.ref = mqttClientData[c]
            /\ dpc # "cluster"

\* SUBSCRIBE, UNSUBSCRIBE and PUBCOMP find the session they are about, and
\* until SUBACK is written nothing else of its client is in hand.
AskInv ==
  dpc # "dead" =>
    /\ dmsg.type \in {"sub", "unsub", "comp"} => clientsMap[dmsg.id] # Nil
    /\ \A c \in Conn : pc[c] = "suback" =>
         IF dmsg.id = who[c]
         THEN dmsg.type = "sub" /\ dmsg.topics = arg[c]
         ELSE /\ clientsMap[who[c]] # Nil
              /\ arg[c] \subseteq SubInfo[clientsMap[who[c]]]

\* What a client was granted is stored, and a client whose struct is not the
\* registered one, or whose session ends, was granted nothing.
GrantInv ==
  /\ GrantedIsStored
  /\ dpc # "dead" =>
       /\ \A c \in Conn :
            /\ LoggingIn(c) /\ mqttClientData[c] # clientsMap[who[c]] =>
                 granted[who[c]] = {}
            /\ pc[c] = "del" => granted[who[c]] = {}
            /\ pc[c] = "unsub" => granted[who[c]] \cap arg[c] = {}
       /\ dmsg.type = "add" /\ dmsg.ref # clientsMap[dmsg.id] =>
            granted[dmsg.id] = {}
       /\ dmsg.type = "del" => granted[dmsg.id] = {}
       /\ dmsg.type = "unsub" => granted[dmsg.id] \cap dmsg.topics = {}

ReturnInv ==
  RequestInv /\ TurnInv /\ OwnInv /\ MapInv /\ AskInv /\ GrantInv

(* For clients that also wait for their MSG_CLIENT_DEL.                     *)

\* Neither a login nor a registration meets a second struct of its client
\* with subscriptions, and none runs beside a MSG_CLIENT_DEL of its client.
Bare(r, id) ==
  r # clientsMap[id] =>
    /\ SubInfo[r] = {}
    /\ clientsMap[id] # Nil => SubInfo[clientsMap[id]] = {}

EmptyInv ==
  /\ \A r \in Conn : owner[r] = Nil => SubInfo[r] = {}
  /\ dpc # "dead" =>
       /\ \A c \in Conn : who[c] # Nil /\ InHand("del", who[c]) =>
            pc[c] = "done"
       /\ \A c \in Conn : LoggingIn(c) =>
            /\ Bare(mqttClientData[c], who[c])
            /\ InHand("sub", who[c]) \/ InHand("unsub", who[c]) =>
                 mqttClientData[c] = clientsMap[who[c]]
       /\ dmsg.type = "add" => Bare(dmsg.ref, dmsg.id)

\* A client that never asked for a session to be kept leaves none behind.
AskedToKeep(id) == \E d \in Conn : who[d] = id /\ ~ wantClean[d]

CleanInv ==
  dpc # "dead" =>
    \A id \in ClientId :
      ~ AskedToKeep(id) /\ (clientsMap[id] # Nil \/ InHand("add", id)) =>
        \/ InHand("del", id)
        \/ \E c \in Conn : who[c] = id /\ InUse(c)

-----------------------------------------------------------------------------
(* The owner of the struct a request carries is the client it names.        *)
LEMMA RequestStep ==
  ASSUME TypeOK, GoroutineInv, MessageInv, HeapInv, RequestInv,
         [Next]_vars
  PROVE  RequestInv'
<1> USE ClientSessionsAssumption DEF TypeOK, GoroutineInv, HasId, HasStruct,
      Sending, InLogin, PCs, DPCs, NoMsg, Message, goVars, heapVars, lockVars,
      dispVars, MessageInv, HeapInv, RequestInv
<1>1. ASSUME NEW c \in Conn, Client(c) PROVE RequestInv'
  <2>1. CASE Accept(c)
    BY <2>1 DEF Accept, GoTo
  <2>2. CASE Drop(c)
    BY <2>2 DEF Drop
  <2>3. CASE Refuse(c)
    BY <2>3 DEF Refuse
  <2>4. CASE Disconnect(c)
    BY <2>4 DEF Disconnect, Logged
  <2>5. CASE ReadPubComp(c)
    BY <2>5 DEF ReadPubComp, GoTo, Logged
  <2>6. CASE \E id \in ClientId, clean \in BOOLEAN : ReadConnect(c, id, clean)
    BY <2>6 DEF ReadConnect, MayLogin, GoTo
  <2>7. CASE \E topics \in SUBSET Topic \ {{}} : ReadSubscribe(c, topics)
    BY <2>7 DEF ReadSubscribe, GoTo, Logged
  <2>8. CASE \E topics \in SUBSET Topic \ {{}} : ReadUnsubscribe(c, topics)
    BY <2>8 DEF ReadUnsubscribe, GoTo, Logged
  <2>9. CASE ReadEarly(c)
    BY <2>9 DEF ReadEarly, Panic
  <2> QED
    BY <1>1, <2>1, <2>2, <2>3, <2>4, <2>5, <2>6, <2>7, <2>8, <2>9
       DEF Client
<1>2. ASSUME NEW c \in Conn, Login(c) PROVE RequestInv'
  <2>1. CASE LoginLookup(c)
    BY <2>1 DEF LoginLookup, SessionFor, GoTo
  <2>2. CASE LoginFill(c)
    BY <2>2 DEF LoginFill, GoTo
  <2>3. CASE LoginInstall(c)
    BY <2>3 DEF LoginInstall, GoTo
  <2> QED
    BY <1>2, <2>1, <2>2, <2>3 DEF Login
<1>3. ASSUME NEW c \in Conn, Acknowledge(c) PROVE RequestInv'
  <2>1. CASE SubAck(c)
    BY <2>1 DEF SubAck, GoTo
  <2>2. CASE UnsubAck(c)
    BY <2>2 DEF UnsubAck, GoTo
  <2> QED
    BY <1>3, <2>1, <2>2 DEF Acknowledge
<1>4. ASSUME NEW c \in Conn, Exit(c) PROVE RequestInv'
  <2>1. CASE ReadError(c)
    BY <2>1 DEF ReadError, GoTo
  <2>2. CASE ExitPanic(c)
    BY <2>2 DEF ExitPanic, Panic
  <2>3. CASE ExitClear(c)
    BY <2>3 DEF ExitClear, GoTo
  <2>4. CASE ExitKeep(c)
    BY <2>4 DEF ExitKeep, GoTo
  <2> QED
    BY <1>4, <2>1, <2>2, <2>3, <2>4 DEF Exit
<1>5. ASSUME NEW c \in Conn, DispatchRecv(c) PROVE RequestInv'
  BY <1>5 DEF DispatchRecv, Request, AfterSend, GoTo
<1>6. CASE Dispatcher
  <2>1. CASE DispatchLock
    BY <2>1 DEF DispatchLock
  <2>2. CASE DispatchLocked
    BY <2>2 DEF DispatchLocked
  <2>3. CASE ProcessAdd
    BY <2>3 DEF ProcessAdd
  <2>4. CASE ProcessDel
    BY <2>4 DEF ProcessDel, Unlock
  <2>5. CASE ProcessSub
    BY <2>5 DEF ProcessSub, Unlock
  <2>6. CASE ProcessUnsub
    BY <2>6 DEF ProcessUnsub, Unlock
  <2>7. CASE ProcessComp
    BY <2>7 DEF ProcessComp, Unlock, Panic
  <2>8. CASE ClusterTake
    BY <2>8 DEF ClusterTake, Unlock
  <2> QED
    BY <1>6, <2>1, <2>2, <2>3, <2>4, <2>5, <2>6, <2>7, <2>8 DEF Dispatcher,
       Process
<1>7. CASE UNCHANGED vars
  BY <1>7 DEF vars
<1> QED
  BY <1>1, <1>2, <1>3, <1>4, <1>5, <1>6, <1>7 DEF Next, Terminated

(* A client logs in when its earlier connections are done.                 *)
LEMMA TurnStep ==
  ASSUME InTurn, TypeOK, GoroutineInv, LockInv, TurnInv, [Next]_vars
  PROVE  TurnInv'
<1> USE ClientSessionsAssumption DEF TypeOK, GoroutineInv, HasId, HasStruct,
      Sending, InLogin, PCs, DPCs, NoMsg, Message, goVars, heapVars, lockVars,
      dispVars, LockInv, InTurn, TurnInv
<1>1. ASSUME NEW c \in Conn, Client(c) PROVE TurnInv'
  <2>1. CASE Accept(c)
    BY <2>1 DEF Accept, GoTo
  <2>2. CASE Drop(c)
    BY <2>2 DEF Drop
  <2>3. CASE Refuse(c)
    BY <2>3 DEF Refuse
  <2>4. CASE Disconnect(c)
    BY <2>4 DEF Disconnect, Logged
  <2>5. CASE ReadPubComp(c)
    BY <2>5 DEF ReadPubComp, GoTo, Logged
  <2>6. CASE \E id \in ClientId, clean \in BOOLEAN : ReadConnect(c, id, clean)
    BY <2>6 DEF ReadConnect, MayLogin, GoTo
  <2>7. CASE \E topics \in SUBSET Topic \ {{}} : ReadSubscribe(c, topics)
    BY <2>7 DEF ReadSubscribe, GoTo, Logged
  <2>8. CASE \E topics \in SUBSET Topic \ {{}} : ReadUnsubscribe(c, topics)
    BY <2>8 DEF ReadUnsubscribe, GoTo, Logged
  <2>9. CASE ReadEarly(c)
    BY <2>9 DEF ReadEarly, Panic
  <2> QED
    BY <1>1, <2>1, <2>2, <2>3, <2>4, <2>5, <2>6, <2>7, <2>8, <2>9
       DEF Client
<1>2. ASSUME NEW c \in Conn, Login(c) PROVE TurnInv'
  <2>1. CASE LoginLookup(c)
    BY <2>1 DEF LoginLookup, SessionFor, GoTo
  <2>2. CASE LoginFill(c)
    BY <2>2 DEF LoginFill, GoTo
  <2>3. CASE LoginInstall(c)
    BY <2>3 DEF LoginInstall, GoTo
  <2> QED
    BY <1>2, <2>1, <2>2, <2>3 DEF Login
<1>3. ASSUME NEW c \in Conn, Acknowledge(c) PROVE TurnInv'
  <2>1. CASE SubAck(c)
    BY <2>1 DEF SubAck, GoTo
  <2>2. CASE UnsubAck(c)
    BY <2>2 DEF UnsubAck, GoTo
  <2> QED
    BY <1>3, <2>1, <2>2 DEF Acknowledge
<1>4. ASSUME NEW c \in Conn, Exit(c) PROVE TurnInv'
  <2>1. CASE ReadError(c)
    BY <2>1 DEF ReadError, GoTo
  <2>2. CASE ExitPanic(c)
    BY <2>2 DEF ExitPanic, Panic
  <2>3. CASE ExitClear(c)
    BY <2>3 DEF ExitClear, GoTo
  <2>4. CASE ExitKeep(c)
    BY <2>4 DEF ExitKeep, GoTo
  <2> QED
    BY <1>4, <2>1, <2>2, <2>3, <2>4 DEF Exit
<1>5. ASSUME NEW c \in Conn, DispatchRecv(c) PROVE TurnInv'
  BY <1>5 DEF DispatchRecv, Request, AfterSend, GoTo
<1>6. CASE Dispatcher
  <2>1. CASE DispatchLock
    BY <2>1 DEF DispatchLock
  <2>2. CASE DispatchLocked
    BY <2>2 DEF DispatchLocked
  <2>3. CASE ProcessAdd
    BY <2>3 DEF ProcessAdd
  <2>4. CASE ProcessDel
    BY <2>4 DEF ProcessDel, Unlock
  <2>5. CASE ProcessSub
    BY <2>5 DEF ProcessSub, Unlock
  <2>6. CASE ProcessUnsub
    BY <2>6 DEF ProcessUnsub, Unlock
  <2>7. CASE ProcessComp
    BY <2>7 DEF ProcessComp, Unlock, Panic
  <2>8. CASE ClusterTake
    BY <2>8 DEF ClusterTake, Unlock
  <2> QED
    BY <1>6, <2>1, <2>2, <2>3, <2>4, <2>5, <2>6, <2>7, <2>8 DEF Dispatcher,
       Process
<1>7. CASE UNCHANGED vars
  BY <1>7 DEF vars
<1> QED
  BY <1>1, <1>2, <1>3, <1>4, <1>5, <1>6, <1>7 DEF Next, Terminated

(* A struct is written by the one connection of its client.                *)
LEMMA OwnStep ==
  ASSUME TypeOK, GoroutineInv, LockInv, HeapInv, TurnInv, OwnInv,
         [Next]_vars
  PROVE  OwnInv'
<1> USE ClientSessionsAssumption DEF TypeOK, GoroutineInv, HasId, HasStruct,
      Sending, InLogin, PCs, DPCs, NoMsg, Message, goVars, heapVars, lockVars,
      dispVars, LockInv, HeapInv, TurnInv, OwnInv, InUse
<1>1. ASSUME NEW c \in Conn, Client(c) PROVE OwnInv'
  <2>1. CASE Accept(c)
    BY <2>1 DEF Accept, GoTo
  <2>2. CASE Drop(c)
    BY <2>2 DEF Drop
  <2>3. CASE Refuse(c)
    BY <2>3 DEF Refuse
  <2>4. CASE Disconnect(c)
    BY <2>4 DEF Disconnect, Logged
  <2>5. CASE ReadPubComp(c)
    BY <2>5 DEF ReadPubComp, GoTo, Logged
  <2>6. CASE \E id \in ClientId, clean \in BOOLEAN : ReadConnect(c, id, clean)
    BY <2>6 DEF ReadConnect, MayLogin, GoTo
  <2>7. CASE \E topics \in SUBSET Topic \ {{}} : ReadSubscribe(c, topics)
    BY <2>7 DEF ReadSubscribe, GoTo, Logged
  <2>8. CASE \E topics \in SUBSET Topic \ {{}} : ReadUnsubscribe(c, topics)
    BY <2>8 DEF ReadUnsubscribe, GoTo, Logged
  <2>9. CASE ReadEarly(c)
    BY <2>9 DEF ReadEarly, Panic
  <2> QED
    BY <1>1, <2>1, <2>2, <2>3, <2>4, <2>5, <2>6, <2>7, <2>8, <2>9
       DEF Client
<1>2. ASSUME NEW c \in Conn, Login(c) PROVE OwnInv'
  <2>1. CASE LoginLookup(c)
    BY <2>1 DEF LoginLookup, SessionFor, GoTo
  <2>2. CASE LoginFill(c)
    BY <2>2 DEF LoginFill, GoTo
  <2>3. CASE LoginInstall(c)
    BY <2>3 DEF LoginInstall, GoTo
  <2> QED
    BY <1>2, <2>1, <2>2, <2>3 DEF Login
<1>3. ASSUME NEW c \in Conn, Acknowledge(c) PROVE OwnInv'
  <2>1. CASE SubAck(c)
    BY <2>1 DEF SubAck, GoTo
  <2>2. CASE UnsubAck(c)
    BY <2>2 DEF UnsubAck, GoTo
  <2> QED
    BY <1>3, <2>1, <2>2 DEF Acknowledge
<1>4. ASSUME NEW c \in Conn, Exit(c) PROVE OwnInv'
  <2>1. CASE ReadError(c)
    BY <2>1 DEF ReadError, GoTo
  <2>2. CASE ExitPanic(c)
    BY <2>2 DEF ExitPanic, Panic
  <2>3. CASE ExitClear(c)
    BY <2>3 DEF ExitClear, GoTo
  <2>4. CASE ExitKeep(c)
    BY <2>4 DEF ExitKeep, GoTo
  <2> QED
    BY <1>4, <2>1, <2>2, <2>3, <2>4 DEF Exit
<1>5. ASSUME NEW c \in Conn, DispatchRecv(c) PROVE OwnInv'
  BY <1>5 DEF DispatchRecv, Request, AfterSend, GoTo
<1>6. CASE Dispatcher
  <2>1. CASE DispatchLock
    BY <2>1 DEF DispatchLock
  <2>2. CASE DispatchLocked
    BY <2>2 DEF DispatchLocked
  <2>3. CASE ProcessAdd
    BY <2>3 DEF ProcessAdd
  <2>4. CASE ProcessDel
    BY <2>4 DEF ProcessDel, Unlock
  <2>5. CASE ProcessSub
    BY <2>5 DEF ProcessSub, Unlock
  <2>6. CASE ProcessUnsub
    BY <2>6 DEF ProcessUnsub, Unlock
  <2>7. CASE ProcessComp
    BY <2>7 DEF ProcessComp, Unlock, Panic
  <2>8. CASE ClusterTake
    BY <2>8 DEF ClusterTake, Unlock
  <2> QED
    BY <1>6, <2>1, <2>2, <2>3, <2>4, <2>5, <2>6, <2>7, <2>8 DEF Dispatcher,
       Process
<1>7. CASE UNCHANGED vars
  BY <1>7 DEF vars
<1> QED
  BY <1>1, <1>2, <1>3, <1>4, <1>5, <1>6, <1>7 DEF Next, Terminated

(* A registration is undone by a MSG_CLIENT_DEL of its own connection only,  *)
(* and the dispatcher takes that after the registration.                     *)
LEMMA MapStep ==
  ASSUME TypeOK, GoroutineInv, LockInv, MessageInv, HeapInv, RequestInv,
         TurnInv, MapInv, [Next]_vars
  PROVE  MapInv'
<1> USE ClientSessionsAssumption DEF TypeOK, GoroutineInv, HasId, HasStruct,
      Sending, InLogin, PCs, DPCs, NoMsg, Message, goVars, heapVars, lockVars,
      dispVars, LockInv, MessageInv, HeapInv, RequestInv, TurnInv, MapInv,
      InUse, InHand
<1>1. ASSUME NEW c \in Conn, Client(c) PROVE MapInv'
  <2>1. CASE Accept(c)
    BY <2>1 DEF Accept, GoTo
  <2>2. CASE Drop(c)
    BY <2>2 DEF Drop
  <2>3. CASE Refuse(c)
    BY <2>3 DEF Refuse
  <2>4. CASE Disconnect(c)
    BY <2>4 DEF Disconnect, Logged
  <2>5. CASE ReadPubComp(c)
    BY <2>5 DEF ReadPubComp, GoTo, Logged
  <2>6. CASE \E id \in ClientId, clean \in BOOLEAN : ReadConnect(c, id, clean)
    BY <2>6 DEF ReadConnect, MayLogin, GoTo
  <2>7. CASE \E topics \in SUBSET Topic \ {{}} : ReadSubscribe(c, topics)
    BY <2>7 DEF ReadSubscribe, GoTo, Logged
  <2>8. CASE \E topics \in SUBSET Topic \ {{}} : ReadUnsubscribe(c, topics)
    BY <2>8 DEF ReadUnsubscribe, GoTo, Logged
  <2>9. CASE ReadEarly(c)
    BY <2>9 DEF ReadEarly, Panic
  <2> QED
    BY <1>1, <2>1, <2>2, <2>3, <2>4, <2>5, <2>6, <2>7, <2>8, <2>9
       DEF Client
<1>2. ASSUME NEW c \in Conn, Login(c) PROVE MapInv'
  <2>1. CASE LoginLookup(c)
    BY <2>1 DEF LoginLookup, SessionFor, GoTo
  <2>2. CASE LoginFill(c)
    BY <2>2 DEF LoginFill, GoTo
  <2>3. CASE LoginInstall(c)
    BY <2>3 DEF LoginInstall, GoTo
  <2> QED
    BY <1>2, <2>1, <2>2, <2>3 DEF Login
<1>3. ASSUME NEW c \in Conn, Acknowledge(c) PROVE MapInv'
  <2>1. CASE SubAck(c)
    BY <2>1 DEF SubAck, GoTo
  <2>2. CASE UnsubAck(c)
    BY <2>2 DEF UnsubAck, GoTo
  <2> QED
    BY <1>3, <2>1, <2>2 DEF Acknowledge
<1>4. ASSUME NEW c \in Conn, Exit(c) PROVE MapInv'
  <2>1. CASE ReadError(c)
    BY <2>1 DEF ReadError, GoTo
  <2>2. CASE ExitPanic(c)
    BY <2>2 DEF ExitPanic, Panic
  <2>3. CASE ExitClear(c)
    BY <2>3 DEF ExitClear, GoTo
  <2>4. CASE ExitKeep(c)
    BY <2>4 DEF ExitKeep, GoTo
  <2> QED
    BY <1>4, <2>1, <2>2, <2>3, <2>4 DEF Exit
<1>5. ASSUME NEW c \in Conn, DispatchRecv(c) PROVE MapInv'
  BY <1>5 DEF DispatchRecv, Request, AfterSend, GoTo
<1>6. CASE Dispatcher
  <2>1. CASE DispatchLock
    BY <2>1 DEF DispatchLock
  <2>2. CASE DispatchLocked
    BY <2>2 DEF DispatchLocked
  <2>3. CASE ProcessAdd
    BY <2>3 DEF ProcessAdd
  <2>4. CASE ProcessDel
    BY <2>4 DEF ProcessDel, Unlock
  <2>5. CASE ProcessSub
    BY <2>5 DEF ProcessSub, Unlock
  <2>6. CASE ProcessUnsub
    BY <2>6 DEF ProcessUnsub, Unlock
  <2>7. CASE ProcessComp
    BY <2>7 DEF ProcessComp, Unlock, Panic
  <2>8. CASE ClusterTake
    BY <2>8 DEF ClusterTake, Unlock
  <2> QED
    BY <1>6, <2>1, <2>2, <2>3, <2>4, <2>5, <2>6, <2>7, <2>8 DEF Dispatcher,
       Process
<1>7. CASE UNCHANGED vars
  BY <1>7 DEF vars
<1> QED
  BY <1>1, <1>2, <1>3, <1>4, <1>5, <1>6, <1>7 DEF Next, Terminated

(* The dispatcher stores a subscription before SUBACK counts for anything.   *)
LEMMA AskStep ==
  ASSUME TypeOK, GoroutineInv, LockInv, MessageInv, HeapInv, RequestInv,
         TurnInv, MapInv, AskInv, [Next]_vars
  PROVE  AskInv'
<1> USE ClientSessionsAssumption DEF TypeOK, GoroutineInv, HasId, HasStruct,
      Sending, InLogin, PCs, DPCs, NoMsg, Message, goVars, heapVars, lockVars,
      dispVars, LockInv, MessageInv, HeapInv, RequestInv, TurnInv, MapInv,
      AskInv, InUse, InHand
<1>1. ASSUME NEW c \in Conn, Client(c) PROVE AskInv'
  <2>1. CASE Accept(c)
    BY <2>1 DEF Accept, GoTo
  <2>2. CASE Drop(c)
    BY <2>2 DEF Drop
  <2>3. CASE Refuse(c)
    BY <2>3 DEF Refuse
  <2>4. CASE Disconnect(c)
    BY <2>4 DEF Disconnect, Logged
  <2>5. CASE ReadPubComp(c)
    BY <2>5 DEF ReadPubComp, GoTo, Logged
  <2>6. CASE \E id \in ClientId, clean \in BOOLEAN : ReadConnect(c, id, clean)
    BY <2>6 DEF ReadConnect, MayLogin, GoTo
  <2>7. CASE \E topics \in SUBSET Topic \ {{}} : ReadSubscribe(c, topics)
    BY <2>7 DEF ReadSubscribe, GoTo, Logged
  <2>8. CASE \E topics \in SUBSET Topic \ {{}} : ReadUnsubscribe(c, topics)
    BY <2>8 DEF ReadUnsubscribe, GoTo, Logged
  <2>9. CASE ReadEarly(c)
    BY <2>9 DEF ReadEarly, Panic
  <2> QED
    BY <1>1, <2>1, <2>2, <2>3, <2>4, <2>5, <2>6, <2>7, <2>8, <2>9
       DEF Client
<1>2. ASSUME NEW c \in Conn, Login(c) PROVE AskInv'
  <2>1. CASE LoginLookup(c)
    BY <2>1 DEF LoginLookup, SessionFor, GoTo
  <2>2. CASE LoginFill(c)
    BY <2>2 DEF LoginFill, GoTo
  <2>3. CASE LoginInstall(c)
    BY <2>3 DEF LoginInstall, GoTo
  <2> QED
    BY <1>2, <2>1, <2>2, <2>3 DEF Login
<1>3. ASSUME NEW c \in Conn, Acknowledge(c) PROVE AskInv'
  <2>1. CASE SubAck(c)
    BY <2>1 DEF SubAck, GoTo
  <2>2. CASE UnsubAck(c)
    BY <2>2 DEF UnsubAck, GoTo
  <2> QED
    BY <1>3, <2>1, <2>2 DEF Acknowledge
<1>4. ASSUME NEW c \in Conn, Exit(c) PROVE AskInv'
  <2>1. CASE ReadError(c)
    BY <2>1 DEF ReadError, GoTo
  <2>2. CASE ExitPanic(c)
    BY <2>2 DEF ExitPanic, Panic
  <2>3. CASE ExitClear(c)
    BY <2>3 DEF ExitClear, GoTo
  <2>4. CASE ExitKeep(c)
    BY <2>4 DEF ExitKeep, GoTo
  <2> QED
    BY <1>4, <2>1, <2>2, <2>3, <2>4 DEF Exit
<1>5. ASSUME NEW c \in Conn, DispatchRecv(c) PROVE AskInv'
  BY <1>5 DEF DispatchRecv, Request, AfterSend, GoTo
<1>6. CASE Dispatcher
  <2>1. CASE DispatchLock
    BY <2>1 DEF DispatchLock
  <2>2. CASE DispatchLocked
    BY <2>2 DEF DispatchLocked
  <2>3. CASE ProcessAdd
    BY <2>3 DEF ProcessAdd
  <2>4. CASE ProcessDel
    BY <2>4 DEF ProcessDel, Unlock
  <2>5. CASE ProcessSub
    BY <2>5 DEF ProcessSub, Unlock
  <2>6. CASE ProcessUnsub
    BY <2>6 DEF ProcessUnsub, Unlock
  <2>7. CASE ProcessComp
    BY <2>7 DEF ProcessComp, Unlock, Panic
  <2>8. CASE ClusterTake
    BY <2>8 DEF ClusterTake, Unlock
  <2> QED
    BY <1>6, <2>1, <2>2, <2>3, <2>4, <2>5, <2>6, <2>7, <2>8 DEF Dispatcher,
       Process
<1>7. CASE UNCHANGED vars
  BY <1>7 DEF vars
<1> QED
  BY <1>1, <1>2, <1>3, <1>4, <1>5, <1>6, <1>7 DEF Next, Terminated

(* Only SUBACK grants, and what it grants is stored; a registration puts no  *)
(* other struct in the place of one with granted topics.                     *)
LEMMA GrantStep ==
  ASSUME TypeOK, GoroutineInv, LockInv, MessageInv, HeapInv, RequestInv,
         TurnInv, MapInv, AskInv, GrantInv, [Next]_vars
  PROVE  GrantInv'
<1> USE ClientSessionsAssumption DEF TypeOK, GoroutineInv, HasId, HasStruct,
      Sending, InLogin, PCs, DPCs, NoMsg, Message, goVars, heapVars, lockVars,
      dispVars, LockInv, MessageInv, HeapInv, RequestInv, TurnInv, MapInv,
      AskInv, GrantInv, GrantedIsStored, LoggingIn, InUse, InHand
<1>1. ASSUME NEW c \in Conn, Client(c) PROVE GrantInv'
  <2>1. CASE Accept(c)
    BY <2>1 DEF Accept, GoTo
  <2>2. CASE Drop(c)
    BY <2>2 DEF Drop
  <2>3. CASE Refuse(c)
    BY <2>3 DEF Refuse
  <2>4. CASE Disconnect(c)
    BY <2>4 DEF Disconnect, Logged
  <2>5. CASE ReadPubComp(c)
    BY <2>5 DEF ReadPubComp, GoTo, Logged
  <2>6. CASE \E id \in ClientId, clean \in BOOLEAN : ReadConnect(c, id, clean)
    BY <2>6 DEF ReadConnect, MayLogin, GoTo
  <2>7. CASE \E topics \in SUBSET Topic \ {{}} : ReadSubscribe(c, topics)
    BY <2>7 DEF ReadSubscribe, GoTo, Logged
  <2>8. CASE \E topics \in SUBSET Topic \ {{}} : ReadUnsubscribe(c, topics)
    BY <2>8 DEF ReadUnsubscribe, GoTo, Logged
  <2>9. CASE ReadEarly(c)
    BY <2>9 DEF ReadEarly, Panic
  <2> QED
    BY <1>1, <2>1, <2>2, <2>3, <2>4, <2>5, <2>6, <2>7, <2>8, <2>9
       DEF Client
<1>2. ASSUME NEW c \in Conn, Login(c) PROVE GrantInv'
  <2>1. CASE LoginLookup(c)
    BY <2>1 DEF LoginLookup, SessionFor, GoTo
  <2>2. CASE LoginFill(c)
    BY <2>2 DEF LoginFill, GoTo
  <2>3. CASE LoginInstall(c)
    BY <2>3 DEF LoginInstall, GoTo
  <2> QED
    BY <1>2, <2>1, <2>2, <2>3 DEF Login
<1>3. ASSUME NEW c \in Conn, Acknowledge(c) PROVE GrantInv'
  <2>1. CASE SubAck(c)
    BY <2>1 DEF SubAck, GoTo
  <2>2. CASE UnsubAck(c)
    BY <2>2 DEF UnsubAck, GoTo
  <2> QED
    BY <1>3, <2>1, <2>2 DEF Acknowledge
<1>4. ASSUME NEW c \in Conn, Exit(c) PROVE GrantInv'
  <2>1. CASE ReadError(c)
    BY <2>1 DEF ReadError, GoTo
  <2>2. CASE ExitPanic(c)
    BY <2>2 DEF ExitPanic, Panic
  <2>3. CASE ExitClear(c)
    BY <2>3 DEF ExitClear, GoTo
  <2>4. CASE ExitKeep(c)
    BY <2>4 DEF ExitKeep, GoTo
  <2> QED
    BY <1>4, <2>1, <2>2, <2>3, <2>4 DEF Exit
<1>5. ASSUME NEW c \in Conn, DispatchRecv(c) PROVE GrantInv'
  BY <1>5 DEF DispatchRecv, Request, AfterSend, GoTo
<1>6. CASE Dispatcher
  <2>1. CASE DispatchLock
    BY <2>1 DEF DispatchLock
  <2>2. CASE DispatchLocked
    BY <2>2 DEF DispatchLocked
  <2>3. CASE ProcessAdd
    BY <2>3 DEF ProcessAdd
  <2>4. CASE ProcessDel
    BY <2>4 DEF ProcessDel, Unlock
  <2>5. CASE ProcessSub
    BY <2>5 DEF ProcessSub, Unlock
  <2>6. CASE ProcessUnsub
    BY <2>6 DEF ProcessUnsub, Unlock
  <2>7. CASE ProcessComp
    BY <2>7 DEF ProcessComp, Unlock, Panic
  <2>8. CASE ClusterTake
    BY <2>8 DEF ClusterTake, Unlock
  <2> QED
    BY <1>6, <2>1, <2>2, <2>3, <2>4, <2>5, <2>6, <2>7, <2>8 DEF Dispatcher,
       Process
<1>7. CASE UNCHANGED vars
  BY <1>7 DEF vars
<1> QED
  BY <1>1, <1>2, <1>3, <1>4, <1>5, <1>6, <1>7 DEF Next, Terminated

(* Subscriptions are made in the registered struct only, and what is not     *)
(* registered when a login begins stays without any.                         *)
LEMMA EmptyStep ==
  ASSUME Redial = "afterCleanup", TypeOK, GoroutineInv, LockInv, MessageInv,
         HeapInv, RequestInv, TurnInv, MapInv, AskInv, EmptyInv, [Next]_vars
  PROVE  EmptyInv'
<1> USE ClientSessionsAssumption DEF TypeOK, GoroutineInv, HasId, HasStruct,
      Sending, InLogin, PCs, DPCs, NoMsg, Message, goVars, heapVars, lockVars,
      dispVars, LockInv, MessageInv, HeapInv, RequestInv, TurnInv, MapInv,
      AskInv, EmptyInv, LoggingIn, Bare, InUse, InHand
<1>1. ASSUME NEW c \in Conn, Client(c) PROVE EmptyInv'
  <2>1. CASE Accept(c)
    BY <2>1 DEF Accept, GoTo
  <2>2. CASE Drop(c)
    BY <2>2 DEF Drop
  <2>3. CASE Refuse(c)
    BY <2>3 DEF Refuse
  <2>4. CASE Disconnect(c)
    BY <2>4 DEF Disconnect, Logged
  <2>5. CASE ReadPubComp(c)
    BY <2>5 DEF ReadPubComp, GoTo, Logged
  <2>6. CASE \E id \in ClientId, clean \in BOOLEAN : ReadConnect(c, id, clean)
    BY <2>6 DEF ReadConnect, MayLogin, GoTo
  <2>7. CASE \E topics \in SUBSET Topic \ {{}} : ReadSubscribe(c, topics)
    BY <2>7 DEF ReadSubscribe, GoTo, Logged
  <2>8. CASE \E topics \in SUBSET Topic \ {{}} : ReadUnsubscribe(c, topics)
    BY <2>8 DEF ReadUnsubscribe, GoTo, Logged
  <2>9. CASE ReadEarly(c)
    BY <2>9 DEF ReadEarly, Panic
  <2> QED
    BY <1>1, <2>1, <2>2, <2>3, <2>4, <2>5, <2>6, <2>7, <2>8, <2>9
       DEF Client
<1>2. ASSUME NEW c \in Conn, Login(c) PROVE EmptyInv'
  <2>1. CASE LoginLookup(c)
    BY <2>1 DEF LoginLookup, SessionFor, GoTo
  <2>2. CASE LoginFill(c)
    BY <2>2 DEF LoginFill, GoTo
  <2>3. CASE LoginInstall(c)
    BY <2>3 DEF LoginInstall, GoTo
  <2> QED
    BY <1>2, <2>1, <2>2, <2>3 DEF Login
<1>3. ASSUME NEW c \in Conn, Acknowledge(c) PROVE EmptyInv'
  <2>1. CASE SubAck(c)
    BY <2>1 DEF SubAck, GoTo
  <2>2. CASE UnsubAck(c)
    BY <2>2 DEF UnsubAck, GoTo
  <2> QED
    BY <1>3, <2>1, <2>2 DEF Acknowledge
<1>4. ASSUME NEW c \in Conn, Exit(c) PROVE EmptyInv'
  <2>1. CASE ReadError(c)
    BY <2>1 DEF ReadError, GoTo
  <2>2. CASE ExitPanic(c)
    BY <2>2 DEF ExitPanic, Panic
  <2>3. CASE ExitClear(c)
    BY <2>3 DEF ExitClear, GoTo
  <2>4. CASE ExitKeep(c)
    BY <2>4 DEF ExitKeep, GoTo
  <2> QED
    BY <1>4, <2>1, <2>2, <2>3, <2>4 DEF Exit
<1>5. ASSUME NEW c \in Conn, DispatchRecv(c) PROVE EmptyInv'
  BY <1>5, SMTT(30) DEF DispatchRecv, Request, AfterSend, GoTo
<1>6. CASE Dispatcher
  <2>1. CASE DispatchLock
    BY <2>1 DEF DispatchLock
  <2>2. CASE DispatchLocked
    BY <2>2 DEF DispatchLocked
  <2>3. CASE ProcessAdd
    BY <2>3 DEF ProcessAdd
  <2>4. CASE ProcessDel
    BY <2>4 DEF ProcessDel, Unlock
  <2>5. CASE ProcessSub
    BY <2>5 DEF ProcessSub, Unlock
  <2>6. CASE ProcessUnsub
    BY <2>6 DEF ProcessUnsub, Unlock
  <2>7. CASE ProcessComp
    BY <2>7 DEF ProcessComp, Unlock, Panic
  <2>8. CASE ClusterTake
    BY <2>8 DEF ClusterTake, Unlock
  <2> QED
    BY <1>6, <2>1, <2>2, <2>3, <2>4, <2>5, <2>6, <2>7, <2>8 DEF Dispatcher,
       Process
<1>7. CASE UNCHANGED vars
  BY <1>7 DEF vars
<1> QED
  BY <1>1, <1>2, <1>3, <1>4, <1>5, <1>6, <1>7 DEF Next, Terminated

(* The goroutine of a clean session ends with a MSG_CLIENT_DEL.             *)
LEMMA CleanStep ==
  ASSUME Redial = "afterCleanup", TypeOK, GoroutineInv, LockInv, MessageInv,
         HeapInv, RequestInv, TurnInv, OwnInv, MapInv, EmptyInv, CleanInv,
         [Next]_vars
  PROVE  CleanInv'
<1> USE ClientSessionsAssumption DEF TypeOK, GoroutineInv, HasId, HasStruct,
      Sending, InLogin, PCs, DPCs, NoMsg, Message, goVars, heapVars, lockVars,
      dispVars, LockInv, MessageInv, HeapInv, RequestInv, TurnInv, OwnInv,
      MapInv, EmptyInv, CleanInv, AskedToKeep, InUse, InHand
<1>1. ASSUME NEW c \in Conn, Client(c) PROVE CleanInv'
  <2>1. CASE Accept(c)
    BY <2>1 DEF Accept, GoTo
  <2>2. CASE Drop(c)
    BY <2>2 DEF Drop
  <2>3. CASE Refuse(c)
    BY <2>3 DEF Refuse
  <2>4. CASE Disconnect(c)
    BY <2>4 DEF Disconnect, Logged
  <2>5. CASE ReadPubComp(c)
    BY <2>5 DEF ReadPubComp, GoTo, Logged
  <2>6. CASE \E id \in ClientId, clean \in BOOLEAN : ReadConnect(c, id, clean)
    BY <2>6 DEF ReadConnect, MayLogin, GoTo
  <2>7. CASE \E topics \in SUBSET Topic \ {{}} : ReadSubscribe(c, topics)
    BY <2>7 DEF ReadSubscribe, GoTo, Logged
  <2>8. CASE \E topics \in SUBSET Topic \ {{}} : ReadUnsubscribe(c, topics)
    BY <2>8 DEF ReadUnsubscribe, GoTo, Logged
  <2>9. CASE ReadEarly(c)
    BY <2>9 DEF ReadEarly, Panic
  <2> QED
    BY <1>1, <2>1, <2>2, <2>3, <2>4, <2>5, <2>6, <2>7, <2>8, <2>9
       DEF Client
<1>2. ASSUME NEW c \in Conn, Login(c) PROVE CleanInv'
  <2>1. CASE LoginLookup(c)
    BY <2>1 DEF LoginLookup, SessionFor, GoTo
  <2>2. CASE LoginFill(c)
    BY <2>2, SMTT(30) DEF LoginFill, GoTo
  <2>3. CASE LoginInstall(c)
    BY <2>3 DEF LoginInstall, GoTo
  <2> QED
    BY <1>2, <2>1, <2>2, <2>3 DEF Login
<1>3. ASSUME NEW c \in Conn, Acknowledge(c) PROVE CleanInv'
  <2>1. CASE SubAck(c)
    BY <2>1 DEF SubAck, GoTo
  <2>2. CASE UnsubAck(c)
    BY <2>2 DEF UnsubAck, GoTo
  <2> QED
    BY <1>3, <2>1, <2>2 DEF Acknowledge
<1>4. ASSUME NEW c \in Conn, Exit(c) PROVE CleanInv'
  <2>1. CASE ReadError(c)
    BY <2>1 DEF ReadError, GoTo
  <2>2. CASE ExitPanic(c)
    BY <2>2 DEF ExitPanic, Panic
  <2>3. CASE ExitClear(c)
    BY <2>3 DEF ExitClear, GoTo
  <2>4. CASE ExitKeep(c)
    BY <2>4 DEF ExitKeep, GoTo
  <2> QED
    BY <1>4, <2>1, <2>2, <2>3, <2>4 DEF Exit
<1>5. ASSUME NEW c \in Conn, DispatchRecv(c) PROVE CleanInv'
  BY <1>5 DEF DispatchRecv, Request, AfterSend, GoTo
<1>6. CASE Dispatcher
  <2>1. CASE DispatchLock
    BY <2>1 DEF DispatchLock
  <2>2. CASE DispatchLocked
    BY <2>2 DEF DispatchLocked
  <2>3. CASE ProcessAdd
    BY <2>3 DEF ProcessAdd
  <2>4. CASE ProcessDel
    BY <2>4 DEF ProcessDel, Unlock
  <2>5. CASE ProcessSub
    BY <2>5 DEF ProcessSub, Unlock
  <2>6. CASE ProcessUnsub
    BY <2>6 DEF ProcessUnsub, Unlock
  <2>7. CASE ProcessComp
    BY <2>7 DEF ProcessComp, Unlock, Panic
  <2>8. CASE ClusterTake
    BY <2>8 DEF ClusterTake, Unlock
  <2> QED
    BY <1>6, <2>1, <2>2, <2>3, <2>4, <2>5, <2>6, <2>7, <2>8 DEF Dispatcher,
       Process
<1>7. CASE UNCHANGED vars
  BY <1>7 DEF vars
<1> QED
  BY <1>1, <1>2, <1>3, <1>4, <1>5, <1>6, <1>7 DEF Next, Terminated

-----------------------------------------------------------------------------
(* Every reachable state satisfies the inductive invariant.                 *)
THEOREM ReturnInvariance ==
  ASSUME InTurn
  PROVE  Spec => [](SessionInv /\ ReturnInv)
<1>1. Init => ReturnInv
  <2> SUFFICES ASSUME Init PROVE ReturnInv
    OBVIOUS
  <2> USE ClientSessionsAssumption DEF Init, NoMsg
  <2>1. RequestInv /\ TurnInv /\ OwnInv /\ MapInv
    BY DEF RequestInv, TurnInv, OwnInv, MapInv, InUse
  <2>2. AskInv /\ GrantInv
    BY DEF AskInv, GrantInv, GrantedIsStored, LoggingIn, InLogin
  <2> QED
    BY <2>1, <2>2 DEF ReturnInv
<1>2. SessionInv /\ ReturnInv /\ [Next]_vars => ReturnInv'
  BY InTurn, RequestStep, TurnStep, OwnStep, MapStep, AskStep, GrantStep
     DEF SessionInv, ReturnInv
<1> QED
  BY <1>1, <1>2, Invariance, PTL DEF Spec

(* A client whose login was processed is registered and online, and its     *)
(* messages go to its connection: nothing an earlier connection left behind *)
(* -- its deferred function, its last request, its struct -- takes that     *)
(* away.                                                                    *)
THEOREM LiveStaysRegistered ==
  ASSUME InTurn
  PROVE  Spec => []LiveClientRegistered
<1>1. SessionInv /\ ReturnInv => LiveClientRegistered
  <2> SUFFICES ASSUME SessionInv, ReturnInv, NEW c \in Conn, Settled(c)
               PROVE  /\ clientsMap[who[c]] = mqttClientData[c]
                      /\ LoginSuccess[mqttClientData[c]]
                      /\ conn[mqttClientData[c]] = c
    BY DEF LiveClientRegistered
  <2>1. dpc # "dead"
    BY DEF SessionInv, LockInv, Settled
  <2>2. InUse(c)
    BY DEF InUse, Settled
  <2> QED
    BY <2>1, <2>2 DEF ReturnInv, OwnInv, MapInv, Settled
<1> QED
  BY <1>1, ReturnInvariance, PTL

(* What SUBACK granted is in the session the map holds, or the dispatcher   *)
(* stores it before it takes another message, across reconnects and even if *)
(* the process dies, until the client gives it up or its session ends.      *)
THEOREM GrantedStaysStored ==
  ASSUME InTurn
  PROVE  Spec => []GrantedIsStored
<1>1. ReturnInv => GrantedIsStored
  BY DEF ReturnInv, GrantInv
<1> QED
  BY <1>1, ReturnInvariance, PTL

(* A request of a client that logged in finds its session: neither a        *)
(* deletion an earlier connection left behind nor the order of its own      *)
(* requests takes the entry away that the PUBCOMP case of processMsg        *)
(* dereferences without a look.                                             *)
THEOREM RequestsAreKnown ==
  ASSUME InTurn
  PROVE  Spec => []RequestFindsSession
<1>1. ReturnInv => RequestFindsSession
  BY DEF ReturnInv, AskInv, RequestFindsSession
<1> QED
  BY <1>1, ReturnInvariance, PTL

-----------------------------------------------------------------------------
(* Clients that wait for their MSG_CLIENT_DEL.                              *)
LEMMA EmptyInvariance ==
  ASSUME Redial = "afterCleanup"
  PROVE  Spec => [](SessionInv /\ ReturnInv /\ EmptyInv)
<1>0. InTurn
  BY DEF InTurn
<1>1. Init => EmptyInv
  BY ClientSessionsAssumption DEF Init, NoMsg, EmptyInv, InHand, LoggingIn,
     InLogin
<1>2. SessionInv /\ ReturnInv /\ EmptyInv /\ [Next]_vars => EmptyInv'
  BY EmptyStep DEF SessionInv, ReturnInv
<1> QED
  BY <1>0, <1>1, <1>2, ReturnInvariance, PTL DEF Spec

(* A clean login finds the subscriptions of a session its client asked to   *)
(* keep at some time, and none else: for clients that come back after their *)
(* MSG_CLIENT_DEL, whatever Cleansession flags they send, a session that    *)
(* was always to be deleted never comes back.                               *)
THEOREM CleanLoginInherits ==
  ASSUME Redial = "afterCleanup"
  PROVE  Spec => []CleanInheritsKept
<1>1. Init => CleanInv
  BY ClientSessionsAssumption DEF Init, NoMsg, CleanInv, InHand
<1>2. SessionInv /\ ReturnInv /\ EmptyInv /\ CleanInv /\ [Next]_vars
        => CleanInv'
  BY CleanStep DEF SessionInv, ReturnInv
<1>3. SessionInv /\ ReturnInv /\ EmptyInv /\ CleanInv => CleanInheritsKept
  <2> SUFFICES ASSUME SessionInv, ReturnInv, EmptyInv, CleanInv,
                      NEW c \in Conn, pc[c] = "add", wantClean[c],
                      ~ AskedToKeep(who[c])
               PROVE  SubInfo[mqttClientData[c]] = {}
    BY DEF CleanInheritsKept, AskedToKeep
  <2>1. /\ who[c] \in ClientId /\ who[c] # Nil
        /\ mqttClientData[c] \in Conn /\ mqttClientData[c] # Nil
    BY ClientSessionsAssumption DEF SessionInv, GoroutineInv, HasId,
       HasStruct, Sending
  <2>2. dpc # "dead"
    BY DEF SessionInv, LockInv
  <2>3. CASE clientsMap[who[c]] # mqttClientData[c]
    BY <2>2, <2>3 DEF EmptyInv, LoggingIn, Bare
  <2>4. CASE clientsMap[who[c]] = mqttClientData[c]
    <3>1. \/ InHand("del", who[c])
          \/ \E d \in Conn : who[d] = who[c] /\ InUse(d)
      BY <2>1, <2>2, <2>4 DEF CleanInv
    <3>2. ~ InHand("del", who[c])
      BY <2>1, <2>2 DEF EmptyInv
    <3>3. ~ \E d \in Conn : who[d] = who[c] /\ InUse(d)
      BY <2>1, <2>2 DEF ReturnInv, TurnInv, InUse
    <3> QED
      BY <3>1, <3>2, <3>3
  <2> QED
    BY <2>3, <2>4
<1> QED
  BY <1>1, <1>2, <1>3, EmptyInvariance, PTL DEF Spec

-----------------------------------------------------------------------------
(* The refinement of SessionRegistry.                                       *)

(* A step that leaves the map, the online flags and the subscriptions alone *)
(* is a stuttering step of the registry.                                    *)
LEMMA RegistryStutters ==
  ASSUME UNCHANGED <<clientsMap, LoginSuccess, SubInfo>>
  PROVE  UNCHANGED Registry!vars
BY DEF Registry!vars, sessionState, sessionSubs

(* A step about the session of one client leaves the others' as they are.   *)
LEMMA OneSession ==
  ASSUME NEW id \in ClientId,
         \A k \in ClientId \ {id} :
           /\ clientsMap'[k] = clientsMap[k]
           /\ clientsMap[k] # Nil =>
                /\ LoginSuccess'[clientsMap[k]] = LoginSuccess[clientsMap[k]]
                /\ SubInfo'[clientsMap[k]] = SubInfo[clientsMap[k]]
  PROVE  /\ sessionState' = [sessionState EXCEPT ![id] = sessionState'[id]]
         /\ sessionSubs' = [sessionSubs EXCEPT ![id] = sessionSubs'[id]]
<1>1. ASSUME NEW k \in ClientId \ {id}
      PROVE  sessionState'[k] = sessionState[k]
  BY <1>1 DEF sessionState
<1>2. ASSUME NEW k \in ClientId \ {id}
      PROVE  sessionSubs'[k] = sessionSubs[k]
  BY <1>2 DEF sessionSubs
<1>3. /\ sessionState = [k \in ClientId |-> sessionState[k]]
      /\ sessionState' = [k \in ClientId |-> sessionState'[k]]
  BY DEF sessionState
<1>4. /\ sessionSubs = [k \in ClientId |-> sessionSubs[k]]
      /\ sessionSubs' = [k \in ClientId |-> sessionSubs'[k]]
  BY DEF sessionSubs
<1>5. sessionState' = [sessionState EXCEPT ![id] = sessionState'[id]]
  BY <1>1, <1>3
<1>6. sessionSubs' = [sessionSubs EXCEPT ![id] = sessionSubs'[id]]
  BY <1>2, <1>4
<1> QED
  BY <1>5, <1>6

(* In terms of one client: what its session may do in a step.               *)
LEMMA SessionMoves ==
  ASSUME NEW id \in ClientId,
         sessionState' = [sessionState EXCEPT ![id] = sessionState'[id]],
         sessionSubs' = [sessionSubs EXCEPT ![id] = sessionSubs'[id]],
         \/ sessionSubs'[id] = sessionSubs[id]
            /\ (sessionState'[id] = "none" => sessionState[id] = "none")
         \/ sessionState'[id] = "none" /\ sessionSubs'[id] = {}
            /\ sessionState[id] # "none"
         \/ /\ sessionState'[id] = sessionState[id]
            /\ sessionState[id] # "none"
            /\ \E topics \in SUBSET Topic :
                 \/ sessionSubs'[id] = sessionSubs[id] \cup topics
                 \/ sessionSubs'[id] = sessionSubs[id] \ topics
  PROVE  [Registry!Next]_(Registry!vars)
<1> DEFINE st == sessionState[id]
           to == sessionState'[id]
<1>1. /\ st \in {"none", "online", "offline"}
      /\ to \in {"none", "online", "offline"}
  BY DEF sessionState
<1>2. /\ sessionState = [sessionState EXCEPT ![id] = st]
      /\ sessionSubs = [sessionSubs EXCEPT ![id] = sessionSubs[id]]
  <2>1. sessionState = [sessionState EXCEPT ![id] = st]
    BY DEF sessionState
  <2>2. sessionSubs = [k \in ClientId |-> sessionSubs[k]]
    BY DEF sessionSubs
  <2>3. sessionSubs = [sessionSubs EXCEPT ![id] = sessionSubs[id]]
    BY <2>2
  <2> QED
    BY <2>1, <2>3
<1>3. CASE sessionSubs'[id] = sessionSubs[id]
           /\ (to = "none" => st = "none")
  <2>1. sessionSubs' = sessionSubs
    BY <1>2, <1>3
  <2>2. CASE to = st
    BY <1>2, <2>1, <2>2 DEF Registry!vars
  <2>3. CASE to # st /\ st = "none"
    BY <1>1, <2>1, <2>3 DEF Registry!Next, Registry!Begin
  <2>4. CASE to # st /\ st = "offline"
    <3>1. to = "online"
      BY <1>1, <1>3, <2>4
    <3> QED
      BY <2>1, <2>4, <3>1 DEF Registry!Next, Registry!Resume
  <2>5. CASE to # st /\ st = "online"
    <3>1. to = "offline"
      BY <1>1, <1>3, <2>5
    <3> QED
      BY <2>1, <2>5, <3>1 DEF Registry!Next, Registry!Suspend
  <2> QED
    BY <1>1, <2>2, <2>3, <2>4, <2>5
<1>4. CASE to = "none" /\ sessionSubs'[id] = {} /\ st # "none"
  BY <1>4 DEF Registry!Next, Registry!End
<1>5. CASE /\ to = st /\ st # "none"
           /\ \E topics \in SUBSET Topic :
                \/ sessionSubs'[id] = sessionSubs[id] \cup topics
                \/ sessionSubs'[id] = sessionSubs[id] \ topics
  <2>1. sessionState' = sessionState
    BY <1>2, <1>5
  <2> QED
    BY <1>5, <2>1 DEF Registry!Next, Registry!Subscribe, Registry!Unsubscribe
<1> QED
  BY <1>3, <1>4, <1>5

(* Every step of the server is a step of the registry or a stutter: the     *)
(* online flag moves a session between online and offline, MSG_CLIENT_ADD   *)
(* begins one or replaces its struct by one that looks the same to the      *)
(* client, MSG_CLIENT_DEL ends it.                                          *)
LEMMA RegistryStep ==
  ASSUME SessionInv, ReturnInv, EmptyInv, [Next]_vars
  PROVE  [Registry!Next]_(Registry!vars)
<1> USE ClientSessionsAssumption
<1>1. ASSUME NEW c \in Conn, LoginFill(c) \/ ExitKeep(c)
      PROVE  [Registry!Next]_(Registry!vars)
  <2> DEFINE id == who[c]
             r == mqttClientData[c]
  <2>1. id \in ClientId /\ r \in Conn
    BY <1>1 DEF LoginFill, ExitKeep, SessionInv, TypeOK, GoroutineInv,
       HasStruct, HasId, InLogin
  <2>2. /\ UNCHANGED <<clientsMap, SubInfo>>
        /\ \A s \in Conn \ {r} : LoginSuccess'[s] = LoginSuccess[s]
    BY <1>1, <2>1 DEF LoginFill, ExitKeep, SessionInv, TypeOK
  <2>3. \A k \in ClientId \ {id} : clientsMap[k] # r
    BY <2>1 DEF SessionInv, HeapInv
  <2>4. \A k \in ClientId : clientsMap[k] \in Conn \cup {Nil}
    BY DEF SessionInv, TypeOK
  <2>5. /\ sessionState' = [sessionState EXCEPT ![id] = sessionState'[id]]
        /\ sessionSubs' = [sessionSubs EXCEPT ![id] = sessionSubs'[id]]
    BY <2>1, <2>2, <2>3, <2>4, OneSession
  <2>6. /\ sessionSubs'[id] = sessionSubs[id]
        /\ sessionState'[id] = "none" => sessionState[id] = "none"
    BY <2>1, <2>2 DEF sessionState, sessionSubs
  <2> QED
    BY <2>1, <2>5, <2>6, SessionMoves
<1>2. CASE ProcessAdd
  <2> DEFINE id == dmsg.id
             r == dmsg.ref
  <2>1. id \in ClientId /\ r \in Conn /\ owner[r] = id /\ dpc # "dead"
    BY <1>2 DEF ProcessAdd, ReturnInv, RequestInv
  <2>2. /\ clientsMap' = [clientsMap EXCEPT ![id] = r]
        /\ UNCHANGED <<LoginSuccess, SubInfo>>
    BY <1>2, <2>1 DEF ProcessAdd, heapVars
  <2>3. clientsMap'[id] = r /\ r # Nil
    BY <2>1, <2>2 DEF SessionInv, TypeOK
  <2>4. /\ sessionState' = [sessionState EXCEPT ![id] = sessionState'[id]]
        /\ sessionSubs' = [sessionSubs EXCEPT ![id] = sessionSubs'[id]]
    BY <2>1, <2>2, OneSession DEF SessionInv, TypeOK
  <2>5. Bare(r, id)
    BY <1>2, <2>1 DEF ProcessAdd, EmptyInv
  <2>6. sessionSubs'[id] = sessionSubs[id]
    <3>1. sessionSubs'[id] = SubInfo[r]
      BY <2>1, <2>2, <2>3 DEF sessionSubs
    <3>2. CASE clientsMap[id] = r
      BY <2>1, <2>3, <3>1, <3>2 DEF sessionSubs
    <3>3. CASE clientsMap[id] # r
      BY <2>1, <2>5, <3>1, <3>3 DEF sessionSubs, Bare
    <3> QED
      BY <3>2, <3>3
  <2>7. sessionState'[id] # "none"
    BY <2>1, <2>3 DEF sessionState
  <2> QED
    BY <2>1, <2>4, <2>6, <2>7, SessionMoves
<1>3. CASE ProcessDel
  <2> DEFINE id == dmsg.id
  <2>1. id \in ClientId
    BY <1>3 DEF ProcessDel, ReturnInv, RequestInv
  <2>2. /\ clientsMap' = [clientsMap EXCEPT ![id] = Nil]
        /\ UNCHANGED <<LoginSuccess, SubInfo>>
    BY <1>3 DEF ProcessDel, heapVars
  <2>3. clientsMap'[id] = Nil
    BY <2>1, <2>2 DEF SessionInv, TypeOK
  <2>4. /\ sessionState' = [sessionState EXCEPT ![id] = sessionState'[id]]
        /\ sessionSubs' = [sessionSubs EXCEPT ![id] = sessionSubs'[id]]
    BY <2>1, <2>2, OneSession DEF SessionInv, TypeOK
  <2>5. /\ sessionState'[id] = "none" /\ sessionSubs'[id] = {}
        /\ sessionState[id] = "none" => sessionSubs[id] = {}
    BY <2>1, <2>3 DEF sessionState, sessionSubs
  <2> QED
    BY <2>1, <2>4, <2>5, SessionMoves
<1>4. CASE ProcessSub \/ ProcessUnsub
  <2> DEFINE id == dmsg.id
             self == clientsMap[id]
  <2>1. id \in ClientId /\ self \in Conn /\ self # Nil
        /\ dmsg.topics \in SUBSET Topic
    <3>1. dmsg.type \in {"sub", "unsub"} /\ dpc = "process"
      BY <1>4 DEF ProcessSub, ProcessUnsub
    <3>2. dmsg \in Message
      BY <3>1 DEF SessionInv, TypeOK, NoMsg
    <3>3. id \in ClientId /\ dmsg.topics \in SUBSET Topic
      BY <3>2 DEF Message
    <3>4. self # Nil
      BY <3>1 DEF ReturnInv, AskInv
    <3>5. self \in Conn
      BY <3>3, <3>4 DEF SessionInv, TypeOK
    <3> QED
      BY <3>3, <3>4, <3>5
  <2>2. /\ UNCHANGED <<clientsMap, LoginSuccess>>
        /\ \/ SubInfo' = [SubInfo EXCEPT ![self] = @ \cup dmsg.topics]
           \/ SubInfo' = [SubInfo EXCEPT ![self] = @ \ dmsg.topics]
    BY <1>4, <2>1 DEF ProcessSub, ProcessUnsub
  <2>3. \A k \in ClientId \ {id} : clientsMap[k] # self
    BY <2>1 DEF SessionInv, HeapInv
  <2>4. /\ \A s \in Conn \ {self} : SubInfo'[s] = SubInfo[s]
        /\ \/ SubInfo'[self] = SubInfo[self] \cup dmsg.topics
           \/ SubInfo'[self] = SubInfo[self] \ dmsg.topics
    BY <2>1, <2>2 DEF SessionInv, TypeOK
  <2>5. \A k \in ClientId : clientsMap[k] \in Conn \cup {Nil}
    BY DEF SessionInv, TypeOK
  <2>6. /\ sessionState' = [sessionState EXCEPT ![id] = sessionState'[id]]
        /\ sessionSubs' = [sessionSubs EXCEPT ![id] = sessionSubs'[id]]
    BY <2>1, <2>2, <2>3, <2>4, <2>5, OneSession
  <2>7. /\ sessionState'[id] = sessionState[id]
        /\ sessionState[id] # "none"
    BY <2>1, <2>2 DEF sessionState
  <2>8. \/ sessionSubs'[id] = sessionSubs[id] \cup dmsg.topics
        \/ sessionSubs'[id] = sessionSubs[id] \ dmsg.topics
    BY <2>1, <2>2, <2>4 DEF sessionSubs
  <2> QED
    BY <2>1, <2>6, <2>7, <2>8, SessionMoves
<1>5. ASSUME NEW c \in Conn,
             Client(c) \/ Login(c) \/ Acknowledge(c) \/ Exit(c)
               \/ DispatchRecv(c)
      PROVE  \/ LoginFill(c) \/ ExitKeep(c)
             \/ UNCHANGED <<clientsMap, LoginSuccess, SubInfo>>
  BY <1>5 DEF Client, Accept, Drop, Refuse, ReadEarly, Disconnect, ReadPubComp,
     ReadConnect, ReadSubscribe, ReadUnsubscribe, Login, LoginLookup,
     LoginInstall, Acknowledge, SubAck, UnsubAck, Exit, ReadError, ExitPanic,
     ExitClear, DispatchRecv, heapVars
<1>6. ASSUME DispatchLock \/ DispatchLocked \/ ProcessComp \/ ClusterTake
             \/ UNCHANGED vars
      PROVE  UNCHANGED <<clientsMap, LoginSuccess, SubInfo>>
  BY <1>6 DEF DispatchLock, DispatchLocked, ProcessComp, ClusterTake, vars,
     heapVars
<1>7. CASE Dispatcher
  BY <1>2, <1>3, <1>4, <1>6, <1>7, RegistryStutters DEF Dispatcher, Process
<1> QED
  BY <1>1, <1>5, <1>6, <1>7, RegistryStutters DEF Next, Terminated

(* Goroutines, channel, lock and shared structs together implement the      *)
(* registry, for clients that come back after their MSG_CLIENT_DEL: a       *)
(* session begins empty, keeps its subscriptions while its client is away,  *)
(* and loses them only when it ends.                                        *)
THEOREM RegistryImplemented ==
  ASSUME Redial = "afterCleanup"
  PROVE  Spec => ImplementsRegistry
<1>1. Init => Registry!Init
  BY DEF Init, Registry!Init, sessionState, sessionSubs
<1>2. SessionInv /\ ReturnInv /\ EmptyInv /\ [Next]_vars
        => [Registry!Next]_(Registry!vars)
  BY RegistryStep
<1> QED
  BY <1>1, <1>2, EmptyInvariance, PTL DEF Spec, ImplementsRegistry,
     Registry!Spec

=============================================================================
