----------------------- MODULE ClientSessions_proofs -----------------------
(***************************************************************************)
(* Theorems about ClientSessions, for any number of connections, clients   *)
(* and topics and any way of logging in again.                             *)
(***************************************************************************)
EXTENDS ClientSessions, TLAPS

-----------------------------------------------------------------------------
(* The inductive invariant.                                                 *)

\* Past CONNECT a goroutine has a client id, past the lookup a struct.
HasId     == {"rlock", "suback", "unsuback"} \cup InLogin \cup Sending
HasStruct == HasId \ {"rlock"}

GoroutineInv ==
  \A c \in Conn :
    /\ pc[c] \in HasId => who[c] \in ClientId
    /\ pc[c] \in HasStruct => mqttClientData[c] \in Conn
    /\ pc[c] = "rlock" => mqttClientData[c] = Nil
    /\ mqttClientData[c] # Nil => who[c] # Nil

\* The lock's state is what the threads believe it is.
LockInv ==
  /\ dpc = "dead" => \A c \in Conn : pc[c] = "dead"
  /\ dpc # "dead" =>
       /\ \A c \in Conn : c \in readers <=> pc[c] \in InLogin
       /\ writer = "pending" <=> dpc = "wait"
       /\ writer = "held" <=> dpc \in {"process", "cluster"}
       /\ writer = "held" => readers = {}

\* The message in hand; the id of a MSG_CLIENT_DEL is that of its struct.
MessageInv ==
  /\ dpc = "select" => dmsg = NoMsg
  /\ dpc = "cluster" => dmsg.type = "add"
  /\ dmsg.type = "del" =>
       dmsg.ref \in Conn /\ dmsg.id \in ClientId /\ owner[dmsg.ref] = dmsg.id

\* A struct belongs to one client for good, and is known to that client's
\* connections and under that client's key only.
HeapInv ==
  /\ \A r \in Conn : owner[r] # Nil => mqttClientData[r] = r
  /\ \A id \in ClientId :
       clientsMap[id] # Nil => owner[clientsMap[id]] = id
  /\ \A c \in Conn : mqttClientData[c] # Nil =>
       \/ owner[mqttClientData[c]] = who[c]
       \/ /\ pc[c] \in {"fill", "dead"}
          /\ mqttClientData[c] = c /\ owner[c] = Nil

\* What keeps a struct that says "online" from staying so for good.
GhostInv ==
  \A r \in Conn : LoginSuccess[r] =>
    \/ \E c \in Conn : mqttClientData[c] = r /\ pc[c] # "done"
    \/ dmsg.type = "del" /\ dmsg.ref = r
    \/ /\ \A id \in ClientId : clientsMap[id] # r
       /\ ~ (dmsg.type = "add" /\ dmsg.ref = r)

SessionInv ==
  TypeOK /\ GoroutineInv /\ LockInv /\ MessageInv /\ HeapInv /\ GhostInv

-----------------------------------------------------------------------------
(* Every step keeps every variable in its type.                            *)
LEMMA TypeStep ==
  ASSUME TypeOK, GoroutineInv, HeapInv, [Next]_vars
  PROVE  TypeOK'
<1> USE ClientSessionsAssumption DEF TypeOK, GoroutineInv, HasId, HasStruct,
      Sending, InLogin, PCs, DPCs, NoMsg, Message, goVars, heapVars, lockVars,
      dispVars
<1>1. ASSUME NEW c \in Conn, Client(c) PROVE TypeOK'
  <2>1. CASE Accept(c)
    BY <2>1 DEF Accept, GoTo
  <2>2. CASE Drop(c)
    BY <2>2 DEF Drop
  <2>3. CASE Refuse(c)
    BY <2>3 DEF Refuse
  <2>4. CASE Disconnect(c)
    BY <2>4 DEF Disconnect
  <2>5. CASE ReadPubComp(c)
    BY <2>5 DEF ReadPubComp, GoTo, Logged
  <2>6. CASE \E id \in ClientId, clean \in BOOLEAN : ReadConnect(c, id, clean)
    BY <2>6 DEF ReadConnect, GoTo
  <2>7. CASE \E topics \in SUBSET Topic \ {{}} : ReadSubscribe(c, topics)
    BY <2>7 DEF ReadSubscribe, GoTo, Logged
  <2>8. CASE \E topics \in SUBSET Topic \ {{}} : ReadUnsubscribe(c, topics)
    BY <2>8 DEF ReadUnsubscribe, GoTo, Logged
  <2>9. CASE ReadEarly(c)
    BY <2>9 DEF ReadEarly, Panic
  <2> QED
    BY <1>1, <2>1, <2>2, <2>3, <2>4, <2>5, <2>6, <2>7, <2>8, <2>9
       DEF Client
<1>2. ASSUME NEW c \in Conn, Login(c) PROVE TypeOK'
  <2>1. CASE LoginLookup(c)
    BY <2>1 DEF LoginLookup, SessionFor, CanRLock, GoTo
  <2>2. CASE LoginFill(c)
    BY <2>2 DEF LoginFill, GoTo
  <2>3. CASE LoginInstall(c)
    BY <2>3 DEF LoginInstall, GoTo
  <2> QED
    BY <1>2, <2>1, <2>2, <2>3 DEF Login
<1>3. ASSUME NEW c \in Conn, Acknowledge(c) PROVE TypeOK'
  <2>1. CASE SubAck(c)
    BY <2>1 DEF SubAck, GoTo
  <2>2. CASE UnsubAck(c)
    BY <2>2 DEF UnsubAck, GoTo
  <2> QED
    BY <1>3, <2>1, <2>2 DEF Acknowledge
<1>4. ASSUME NEW c \in Conn, Exit(c) PROVE TypeOK'
  <2>1. CASE ReadError(c)
    BY <2>1 DEF ReadError, GoTo
  <2>2. CASE ExitPanic(c)
    BY <2>2 DEF ExitPanic, Panic
  <2>3. CASE ExitClear(c)
    BY <2>3 DEF ExitClear, GoTo
  <2>4. CASE ExitKeep(c)
    BY <2>4 DEF ExitKeep, GoTo
  <2> QED
    BY <1>4, <2>1, <2>2, <2>3, <2>4 DEF Exit
<1>5. ASSUME NEW c \in Conn, DispatchRecv(c) PROVE TypeOK'
  <2>1. mqttClientData[c] \in Conn /\ owner[mqttClientData[c]] \in ClientId
    BY <1>5 DEF DispatchRecv, HeapInv
  <2>2. Request(c) \in Message
    BY <1>5, <2>1 DEF DispatchRecv, Request
  <2> QED
    BY <1>5, <2>2 DEF DispatchRecv, AfterSend, GoTo
<1>6. CASE Dispatcher
  <2>1. CASE DispatchLock
    BY <2>1 DEF DispatchLock
  <2>2. CASE DispatchLocked
    BY <2>2 DEF DispatchLocked
  <2>3. CASE ProcessAdd
    <3>1. dmsg \in Message
      BY <2>3 DEF ProcessAdd
    <3>2. dmsg.ref \in Conn
      BY <3>1
    <3>3. clientsMap' \in [ClientId -> Conn \cup {Nil}]
      BY <2>3, <3>2 DEF ProcessAdd
    <3> QED
      BY <2>3, <3>3 DEF ProcessAdd
  <2>4. CASE ProcessDel
    BY <2>4 DEF ProcessDel, Unlock
  <2>5. CASE ProcessSub
    BY <2>5 DEF ProcessSub, Unlock
  <2>6. CASE ProcessUnsub
    BY <2>6 DEF ProcessUnsub, Unlock
  <2>7. CASE ProcessComp
    BY <2>7 DEF ProcessComp, Unlock, Panic
  <2>8. CASE ClusterTake
    BY <2>8 DEF ClusterTake, Unlock
  <2> QED
    BY <1>6, <2>1, <2>2, <2>3, <2>4, <2>5, <2>6, <2>7, <2>8 DEF Dispatcher,
       Process
<1>7. CASE UNCHANGED vars
  BY <1>7 DEF vars
<1> QED
  BY <1>1, <1>2, <1>3, <1>4, <1>5, <1>6, <1>7 DEF Next, Terminated

(* A goroutine gets its id and its struct before it needs them: CONNECT    *)
(* sets the id, the lookup under RLock the struct, and neither is unset.    *)
LEMMA GoroutineStep ==
  ASSUME TypeOK, GoroutineInv, [Next]_vars
  PROVE  GoroutineInv'
<1> USE ClientSessionsAssumption DEF TypeOK, GoroutineInv, HasId, HasStruct,
      Sending, InLogin, PCs, DPCs, NoMsg, Message, goVars, heapVars, lockVars,
      dispVars
<1>1. ASSUME NEW c \in Conn, Client(c) PROVE GoroutineInv'
  BY <1>1 DEF Client, Accept, GoTo, Drop, Refuse, ReadEarly, Panic,
     Disconnect, ReadPubComp, Logged, ReadConnect, ReadSubscribe,
     ReadUnsubscribe
<1>2. ASSUME NEW c \in Conn, Login(c) PROVE GoroutineInv'
  <2>1. CASE LoginLookup(c)
    BY <2>1 DEF LoginLookup, SessionFor, CanRLock, GoTo
  <2>2. CASE LoginFill(c)
    BY <2>2 DEF LoginFill, GoTo
  <2>3. CASE LoginInstall(c)
    BY <2>3 DEF LoginInstall, GoTo
  <2> QED
    BY <1>2, <2>1, <2>2, <2>3 DEF Login
<1>3. ASSUME NEW c \in Conn, Acknowledge(c) PROVE GoroutineInv'
  BY <1>3 DEF Acknowledge, SubAck, GoTo, UnsubAck
<1>4. ASSUME NEW c \in Conn, Exit(c) PROVE GoroutineInv'
  BY <1>4 DEF Exit, ReadError, GoTo, ExitPanic, Panic, ExitClear, ExitKeep
<1>5. ASSUME NEW c \in Conn, DispatchRecv(c) PROVE GoroutineInv'
  BY <1>5 DEF DispatchRecv, Request, AfterSend, GoTo
<1>6. CASE Dispatcher
  BY <1>6 DEF Dispatcher, Process, DispatchLock, DispatchLocked, ProcessAdd,
     ProcessDel, Unlock, ProcessSub, ProcessUnsub, ProcessComp, Panic,
     ClusterTake
<1>7. CASE UNCHANGED vars
  BY <1>7 DEF vars
<1> QED
  BY <1>1, <1>2, <1>3, <1>4, <1>5, <1>6, <1>7 DEF Next, Terminated

(* Lock and Unlock keep the RWMutex and the threads in agreement: only a    *)
(* login enters the readers, only while no writer waits, and the dispatcher *)
(* holds the lock from DispatchLocked to Unlock.                            *)
LEMMA LockStep ==
  ASSUME TypeOK, LockInv, [Next]_vars
  PROVE  LockInv'
<1> USE ClientSessionsAssumption DEF TypeOK, LockInv, Sending, InLogin, PCs,
      DPCs, NoMsg, Message, goVars, heapVars, lockVars, dispVars
<1>1. ASSUME NEW c \in Conn, Client(c) PROVE LockInv'
  BY <1>1 DEF Client, Accept, GoTo, Drop, Refuse, ReadEarly, Panic,
     Disconnect, ReadPubComp, Logged, ReadConnect, ReadSubscribe,
     ReadUnsubscribe
<1>2. ASSUME NEW c \in Conn, Login(c) PROVE LockInv'
  <2>1. CASE LoginLookup(c)
    BY <2>1 DEF LoginLookup, SessionFor, CanRLock, GoTo
  <2>2. CASE LoginFill(c)
    BY <2>2 DEF LoginFill, GoTo
  <2>3. CASE LoginInstall(c)
    BY <2>3 DEF LoginInstall, GoTo
  <2> QED
    BY <1>2, <2>1, <2>2, <2>3 DEF Login
<1>3. ASSUME NEW c \in Conn, Acknowledge(c) PROVE LockInv'
  BY <1>3 DEF Acknowledge, SubAck, GoTo, UnsubAck
<1>4. ASSUME NEW c \in Conn, Exit(c) PROVE LockInv'
  BY <1>4 DEF Exit, ReadError, GoTo, ExitPanic, Panic, ExitClear, ExitKeep
<1>5. ASSUME NEW c \in Conn, DispatchRecv(c) PROVE LockInv'
  BY <1>5 DEF DispatchRecv, Request, AfterSend, GoTo
<1>6. CASE Dispatcher
  <2>1. CASE DispatchLock
    BY <2>1 DEF DispatchLock
  <2>2. CASE DispatchLocked
    BY <2>2 DEF DispatchLocked
  <2>3. CASE ProcessAdd
    BY <2>3 DEF ProcessAdd
  <2>4. CASE ProcessDel
    BY <2>4 DEF ProcessDel, Unlock
  <2>5. CASE ProcessSub
    BY <2>5 DEF ProcessSub, Unlock
  <2>6. CASE ProcessUnsub
    BY <2>6 DEF ProcessUnsub, Unlock
  <2>7. CASE ProcessComp
    BY <2>7 DEF ProcessComp, Unlock, Panic
  <2>8. CASE ClusterTake
    BY <2>8 DEF ClusterTake, Unlock
  <2> QED
    BY <1>6, <2>1, <2>2, <2>3, <2>4, <2>5, <2>6, <2>7, <2>8 DEF Dispatcher,
       Process
<1>7. CASE UNCHANGED vars
  BY <1>7 DEF vars
<1> QED
  BY <1>1, <1>2, <1>3, <1>4, <1>5, <1>6, <1>7 DEF Next, Terminated

(* The message in hand stays what it was until Unlock, and the struct a    *)
(* MSG_CLIENT_DEL came from keeps the id the message carries.               *)
LEMMA MessageStep ==
  ASSUME TypeOK, GoroutineInv, MessageInv, HeapInv, [Next]_vars
  PROVE  MessageInv'
<1> USE ClientSessionsAssumption DEF TypeOK, GoroutineInv, HasId, HasStruct,
      MessageInv, HeapInv, Sending, InLogin, PCs, DPCs, NoMsg, Message,
      goVars, heapVars, lockVars, dispVars
<1>1. ASSUME NEW c \in Conn, Client(c) PROVE MessageInv'
  BY <1>1 DEF Client, Accept, GoTo, Drop, Refuse, ReadEarly, Panic,
     Disconnect, ReadPubComp, Logged, ReadConnect, ReadSubscribe,
     ReadUnsubscribe
<1>2. ASSUME NEW c \in Conn, Login(c) PROVE MessageInv'
  <2>1. CASE LoginLookup(c)
    BY <2>1 DEF LoginLookup, SessionFor, CanRLock, GoTo
  <2>2. CASE LoginFill(c)
    BY <2>2 DEF LoginFill, GoTo
  <2>3. CASE LoginInstall(c)
    BY <2>3 DEF LoginInstall, GoTo
  <2> QED
    BY <1>2, <2>1, <2>2, <2>3 DEF Login
<1>3. ASSUME NEW c \in Conn, Acknowledge(c) PROVE MessageInv'
  BY <1>3 DEF Acknowledge, SubAck, GoTo, UnsubAck
<1>4. ASSUME NEW c \in Conn, Exit(c) PROVE MessageInv'
  BY <1>4 DEF Exit, ReadError, GoTo, ExitPanic, Panic, ExitClear, ExitKeep
<1>5. ASSUME NEW c \in Conn, DispatchRecv(c) PROVE MessageInv'
  BY <1>5 DEF DispatchRecv, Request, AfterSend, GoTo
<1>6. CASE Dispatcher
  <2>1. CASE DispatchLock
    BY <2>1 DEF DispatchLock
  <2>2. CASE DispatchLocked
    BY <2>2 DEF DispatchLocked
  <2>3. CASE ProcessAdd
    BY <2>3 DEF ProcessAdd
  <2>4. CASE ProcessDel
    BY <2>4 DEF ProcessDel, Unlock
  <2>5. CASE ProcessSub
    BY <2>5 DEF ProcessSub, Unlock
  <2>6. CASE ProcessUnsub
    BY <2>6 DEF ProcessUnsub, Unlock
  <2>7. CASE ProcessComp
    BY <2>7 DEF ProcessComp, Unlock, Panic
  <2>8. CASE ClusterTake
    BY <2>8 DEF ClusterTake, Unlock
  <2> QED
    BY <1>6, <2>1, <2>2, <2>3, <2>4, <2>5, <2>6, <2>7, <2>8 DEF Dispatcher,
       Process
<1>7. CASE UNCHANGED vars
  BY <1>7 DEF vars
<1> QED
  BY <1>1, <1>2, <1>3, <1>4, <1>5, <1>6, <1>7 DEF Next, Terminated

(* A login reuses the struct of its own client or a fresh one, so structs   *)
(* never change hands and never appear under a second key.                  *)
LEMMA HeapStep ==
  ASSUME TypeOK, GoroutineInv, MessageInv, HeapInv, [Next]_vars
  PROVE  HeapInv'
<1> USE ClientSessionsAssumption DEF TypeOK, GoroutineInv, HasId, HasStruct,
      MessageInv, HeapInv, Sending, InLogin, PCs, DPCs, NoMsg, Message,
      goVars, heapVars, lockVars, dispVars
<1>1. ASSUME NEW c \in Conn, Client(c) PROVE HeapInv'
  BY <1>1 DEF Client, Accept, GoTo, Drop, Refuse, ReadEarly, Panic,
     Disconnect, ReadPubComp, Logged, ReadConnect, ReadSubscribe,
     ReadUnsubscribe
<1>2. ASSUME NEW c \in Conn, Login(c) PROVE HeapInv'
  <2>1. CASE LoginLookup(c)
    BY <2>1 DEF LoginLookup, SessionFor, CanRLock, GoTo
  <2>2. CASE LoginFill(c)
    BY <2>2 DEF LoginFill, GoTo
  <2>3. CASE LoginInstall(c)
    BY <2>3 DEF LoginInstall, GoTo
  <2> QED
    BY <1>2, <2>1, <2>2, <2>3 DEF Login
<1>3. ASSUME NEW c \in Conn, Acknowledge(c) PROVE HeapInv'
  BY <1>3 DEF Acknowledge, SubAck, GoTo, UnsubAck
<1>4. ASSUME NEW c \in Conn, Exit(c) PROVE HeapInv'
  BY <1>4 DEF Exit, ReadError, GoTo, ExitPanic, Panic, ExitClear, ExitKeep
<1>5. ASSUME NEW c \in Conn, DispatchRecv(c) PROVE HeapInv'
  BY <1>5 DEF DispatchRecv, Request, AfterSend, GoTo
<1>6. CASE Dispatcher
  <2>1. CASE DispatchLock
    BY <2>1 DEF DispatchLock
  <2>2. CASE DispatchLocked
    BY <2>2 DEF DispatchLocked
  <2>3. CASE ProcessAdd
    BY <2>3 DEF ProcessAdd
  <2>4. CASE ProcessDel
    BY <2>4 DEF ProcessDel, Unlock
  <2>5. CASE ProcessSub
    BY <2>5 DEF ProcessSub, Unlock
  <2>6. CASE ProcessUnsub
    BY <2>6 DEF ProcessUnsub, Unlock
  <2>7. CASE ProcessComp
    BY <2>7 DEF ProcessComp, Unlock, Panic
  <2>8. CASE ClusterTake
    BY <2>8 DEF ClusterTake, Unlock
  <2> QED
    BY <1>6, <2>1, <2>2, <2>3, <2>4, <2>5, <2>6, <2>7, <2>8 DEF Dispatcher,
       Process
<1>7. CASE UNCHANGED vars
  BY <1>7 DEF vars
<1> QED
  BY <1>1, <1>2, <1>3, <1>4, <1>5, <1>6, <1>7 DEF Next, Terminated

(* A struct marked online loses its last goroutine either by ExitKeep,      *)
(* which marks it offline, or by handing over a MSG_CLIENT_DEL, which      *)
(* removes it from the map before the dispatcher takes another message.     *)
LEMMA GhostStep ==
  ASSUME TypeOK, GoroutineInv, MessageInv, HeapInv, GhostInv, [Next]_vars
  PROVE  GhostInv'
<1> USE ClientSessionsAssumption DEF TypeOK, GoroutineInv, HasId, HasStruct,
      MessageInv, HeapInv, GhostInv, Sending, InLogin, PCs, DPCs, NoMsg,
      Message, goVars, heapVars, lockVars, dispVars
<1>1. ASSUME NEW c \in Conn, Client(c) PROVE GhostInv'
  BY <1>1 DEF Client, Accept, GoTo, Drop, Refuse, ReadEarly, Panic,
     Disconnect, ReadPubComp, Logged, ReadConnect, ReadSubscribe,
     ReadUnsubscribe
<1>2. ASSUME NEW c \in Conn, Login(c) PROVE GhostInv'
  <2>1. CASE LoginLookup(c)
    BY <2>1 DEF LoginLookup, SessionFor, CanRLock, GoTo
  <2>2. CASE LoginFill(c)
    BY <2>2 DEF LoginFill, GoTo
  <2>3. CASE LoginInstall(c)
    BY <2>3 DEF LoginInstall, GoTo
  <2> QED
    BY <1>2, <2>1, <2>2, <2>3 DEF Login
<1>3. ASSUME NEW c \in Conn, Acknowledge(c) PROVE GhostInv'
  BY <1>3 DEF Acknowledge, SubAck, GoTo, UnsubAck
<1>4. ASSUME NEW c \in Conn, Exit(c) PROVE GhostInv'
  <2>1. CASE ReadError(c)
    BY <2>1 DEF ReadError, GoTo
  <2>2. CASE ExitPanic(c)
    BY <2>2 DEF ExitPanic, Panic
  <2>3. CASE ExitClear(c)
    BY <2>3 DEF ExitClear, GoTo
  <2>4. CASE ExitKeep(c)
    BY <2>4 DEF ExitKeep, GoTo
  <2> QED
    BY <1>4, <2>1, <2>2, <2>3, <2>4 DEF Exit
<1>5. ASSUME NEW c \in Conn, DispatchRecv(c) PROVE GhostInv'
  BY <1>5 DEF DispatchRecv, Request, AfterSend, GoTo
<1>6. CASE Dispatcher
  <2>1. CASE DispatchLock
    BY <2>1 DEF DispatchLock
  <2>2. CASE DispatchLocked
    BY <2>2 DEF DispatchLocked
  <2>3. CASE ProcessAdd
    BY <2>3 DEF ProcessAdd
  <2>4. CASE ProcessDel
    BY <2>4 DEF ProcessDel, Unlock
  <2>5. CASE ProcessSub
    BY <2>5 DEF ProcessSub, Unlock
  <2>6. CASE ProcessUnsub
    BY <2>6 DEF ProcessUnsub, Unlock
  <2>7. CASE ProcessComp
    BY <2>7 DEF ProcessComp, Unlock, Panic
  <2>8. CASE ClusterTake
    BY <2>8 DEF ClusterTake, Unlock
  <2> QED
    BY <1>6, <2>1, <2>2, <2>3, <2>4, <2>5, <2>6, <2>7, <2>8 DEF Dispatcher,
       Process
<1>7. CASE UNCHANGED vars
  BY <1>7 DEF vars
<1> QED
  BY <1>1, <1>2, <1>3, <1>4, <1>5, <1>6, <1>7 DEF Next, Terminated

-----------------------------------------------------------------------------
(* Every reachable state satisfies the inductive invariant.                 *)
THEOREM Invariance == Spec => []SessionInv
<1>1. Init => SessionInv
  <2> SUFFICES ASSUME Init PROVE SessionInv
    OBVIOUS
  <2> USE ClientSessionsAssumption DEF Init, NoMsg
  <2>1. TypeOK
    BY DEF TypeOK, PCs, DPCs, Message
  <2>2. GoroutineInv
    BY DEF GoroutineInv, HasId, HasStruct, InLogin, Sending
  <2>3. LockInv
    BY DEF LockInv, InLogin
  <2>4. MessageInv /\ HeapInv /\ GhostInv
    BY DEF MessageInv, HeapInv, GhostInv
  <2> QED
    BY <2>1, <2>2, <2>3, <2>4 DEF SessionInv
<1>2. SessionInv /\ [Next]_vars => SessionInv'
  BY TypeStep, GoroutineStep, LockStep, MessageStep, HeapStep, GhostStep
     DEF SessionInv
<1> QED
  BY <1>1, <1>2, PTL DEF Spec

(* Type correctness: connections, structs, lock and dispatcher only ever    *)
(* hold the values their variables are meant for; in particular no request *)
(* reaches the dispatcher from a goroutine without a struct.                *)
THEOREM TypeCorrect == Spec => []TypeOK
<1>1. SessionInv => TypeOK
  BY DEF SessionInv
<1> QED
  BY <1>1, Invariance, PTL

(* While processMsg runs under GlobalClientsMapLock, and while it waits for *)
(* the cluster goroutine, no connection is between RLock and RUnlock.       *)
THEOREM LockExcludes == Spec => []LoginExcludesProcess
<1>1. SessionInv => LoginExcludesProcess
  BY DEF SessionInv, LockInv, LoginExcludesProcess
<1> QED
  BY <1>1, Invariance, PTL

(* No order in which connections of a client log in, share its struct and   *)
(* die leaves a session of the map online with nobody to take it offline,   *)
(* although the deferred function takes no lock.                            *)
THEOREM NoGhosts == Spec => []NoGhostLogin
<1>1. SessionInv => NoGhostLogin
  <2> SUFFICES ASSUME SessionInv, NEW id \in ClientId,
                      clientsMap[id] # Nil, LoginSuccess[clientsMap[id]]
               PROVE  \/ \E c \in Conn : /\ mqttClientData[c] = clientsMap[id]
                                         /\ pc[c] # "done"
                      \/ dmsg.type = "del" /\ dmsg.id = id
    BY DEF NoGhostLogin
  <2>1. clientsMap[id] \in Conn
    BY DEF SessionInv, TypeOK
  <2>2. owner[clientsMap[id]] = id
    BY DEF SessionInv, HeapInv
  <2>3. dmsg.type = "del" => owner[dmsg.ref] = dmsg.id
    BY DEF SessionInv, MessageInv
  <2> QED
    BY <2>1, <2>2, <2>3 DEF SessionInv, GhostInv
<1> QED
  BY <1>1, Invariance, PTL

=============================================================================
