------------------------ MODULE ServerProcess_proofs -----------------------
(***************************************************************************)
(* For any number of clients, requests, logins and packets, whoever reads  *)
(* or not: what a request of the HTTP manager counts is regular, and the   *)
(* type invariant.                                                         *)
(***************************************************************************)
EXTENDS ServerProcess, FiniteSetTheorems, TLAPS

Online == clientsMap \cap loginSuccess

\* A request that visits holds the read lock: the dispatcher does not work.
VisitInv ==
  \A r \in Request : hpc[r] = "visit" => dpc \in {"select", "lock"}

\* Those online now are between those always and those ever online, and those
\* always online are counted or still to visit.
CountInv ==
  \A r \in Request :
    /\ hpc[r] # "idle" =>
         steady[r] \subseteq Online /\ Online \subseteq ever[r]
    /\ hpc[r] = "visit" =>
         /\ visit[r] \subseteq clientsMap
         /\ steady[r] \subseteq counted[r] \cup visit[r]
         /\ counted[r] \subseteq ever[r]
    /\ hpc[r] = "answer" =>
         steady[r] \subseteq counted[r] /\ counted[r] \subseteq ever[r]

RequestTypes ==
  /\ hpc \in [Request -> {"idle", "rlock", "visit", "answer"}]
  /\ {visit, counted, steady, ever} \subseteq [Request -> SUBSET Client]
  /\ clientsMap \subseteq Client
  /\ dmsg.from \subseteq Client

RequestInv == RequestTypes /\ VisitInv /\ CountInv

(* At first there is no request.                                            *)
LEMMA RequestInit == Init => RequestInv
  BY DEF Init, RequestInv, RequestTypes, VisitInv, CountInv

(* Steps that leave the requests, the map and the logins alone, and do not  *)
(* set the dispatcher to work while a request visits.                       *)
LEMMA ElsewhereKeeps ==
  ASSUME RequestInv, UNCHANGED <<httpVars, mapVars>>,
         dmsg'.from \subseteq Client,
         dpc' \in {"select", "lock", dpc}
           \/ \A r \in Request : hpc[r] # "visit"
  PROVE  RequestInv'
<1> USE DEF httpVars, mapVars
<1>1. RequestTypes'
  BY DEF RequestInv, RequestTypes
<1>2. VisitInv'
  BY DEF RequestInv, VisitInv
<1>3. CountInv'
  BY DEF RequestInv, CountInv, Online
<1> QED
  BY <1>1, <1>2, <1>3 DEF RequestInv

(* A change of the map, which no request visits meanwhile, or of the logins *)
(* alone.                                                                   *)
LEMMA BecomeKeeps ==
  ASSUME RequestInv, NEW newMap \in SUBSET Client, NEW newLogins,
         Become(newMap, newLogins), UNCHANGED <<httpVars, dmsg>>,
         newMap = clientsMap \/ \A r \in Request : hpc[r] # "visit",
         dpc' \in {"select", "lock", dpc}
           \/ \A r \in Request : hpc[r] # "visit"
  PROVE  RequestInv'
<1> USE DEF httpVars
<1>1. Online' = newMap \cap newLogins
  BY DEF Become, Online
<1>2. \A r \in Request :
        /\ steady'[r] = IF hpc[r] # "idle" THEN steady[r] \cap Online' ELSE {}
        /\ ever'[r] = IF hpc[r] # "idle" THEN ever[r] \cup Online' ELSE {}
  BY <1>1 DEF Become
<1>3. RequestTypes'
  <2>1. /\ steady' \in [Request -> SUBSET Client]
        /\ ever' \in [Request -> SUBSET Client]
    BY DEF Become, RequestInv, RequestTypes
  <2> QED
    BY <2>1 DEF Become, RequestInv, RequestTypes
<1>4. VisitInv'
  BY DEF RequestInv, VisitInv
<1>5. CountInv'
  <2> SUFFICES ASSUME NEW r \in Request
               PROVE  CountInv!(r)'
    BY DEF CountInv
  <2> QED
    BY <1>2 DEF RequestInv, CountInv, Become
<1> QED
  BY <1>3, <1>4, <1>5 DEF RequestInv

(* Every step of a client, a connection, the dispatcher, the socket reader  *)
(* or a request keeps the invariant of the requests.                        *)
LEMMA RequestStep == RequestInv /\ [Next]_vars => RequestInv'
<1> SUFFICES ASSUME RequestInv, [Next]_vars PROVE RequestInv'
  OBVIOUS
<1>1. ASSUME NEW c \in Client,
             \/ Dial(c) \/ Send(c) \/ ClientReads(c) \/ Leave(c)
             \/ Connack(c) \/ Read(c) \/ Puback(c) \/ Forward(c)
      PROVE  RequestInv'
  <2>1. UNCHANGED <<httpVars, mapVars, dispVars>>
    BY <1>1 DEF Dial, Send, ClientReads, Leave, Connack, Read, Puback, Forward
  <2> QED
    BY <2>1, ElsewhereKeeps DEF dispVars, RequestInv, RequestTypes
<1>2. ASSUME NEW c \in Client, RLockLogin(c) \/ Exit(c)
      PROVE  RequestInv'
  <2>1. UNCHANGED <<httpVars, dispVars>> /\ clientsMap \in SUBSET Client
    BY <1>2 DEF RLockLogin, Exit, RequestInv, RequestTypes
  <2>2. PICK newLogins : Become(clientsMap, newLogins)
    BY <1>2 DEF RLockLogin, Exit
  <2> QED
    BY <2>1, <2>2, BecomeKeeps DEF dispVars
<1>3. ASSUME \/ \E c \in Client : TakeFrom(c) \/ Pubcomp(c) \/ Deliver(c)
             \/ TakeFromPeer \/ Lock \/ Delivered \/ ToCluster
             \/ PeerPublishes
      PROVE  RequestInv'
  <2>1. UNCHANGED <<httpVars, mapVars>>
    BY <1>3 DEF TakeFrom, Pubcomp, Deliver, TakeFromPeer, Lock, Delivered,
                ToCluster, PeerPublishes
  <2>2. dmsg'.from \subseteq Client
    BY <1>3 DEF TakeFrom, Pubcomp, Deliver, TakeFromPeer, Lock, Delivered,
                ToCluster, PeerPublishes, dispVars, RequestInv, RequestTypes
  <2>3. \/ dpc' \in {"select", "lock", dpc}
        \/ \A r \in Request : hpc[r] # "visit"
    BY <1>3 DEF TakeFrom, Pubcomp, Deliver, TakeFromPeer, Lock, Delivered,
                ToCluster, PeerPublishes, dispVars, RequestInv, VisitInv,
                Readers
  <2> QED
    BY <2>1, <2>2, <2>3, ElsewhereKeeps
<1>4. ASSUME ProcessAdd \/ ProcessDel
      PROVE  RequestInv'
  <2>1. UNCHANGED <<httpVars, dmsg>>
    BY <1>4 DEF ProcessAdd, ProcessDel
  <2>2. \A r \in Request : hpc[r] # "visit"
    BY <1>4 DEF ProcessAdd, ProcessDel, RequestInv, VisitInv
  <2>3. PICK newMap \in SUBSET Client :
          \E newLogins : Become(newMap, newLogins)
    BY <1>4 DEF ProcessAdd, ProcessDel, RequestInv, RequestTypes
  <2>4. PICK newLogins : Become(newMap, newLogins)
    BY <2>3
  <2> QED
    BY <2>1, <2>2, <2>4, BecomeKeeps
<1>5. ASSUME NEW r \in Request, Ask(r)
      PROVE  RequestInv'
  BY <1>5 DEF Ask, RequestInv, RequestTypes, VisitInv, CountInv, Online,
              dispVars
<1>6. ASSUME NEW r \in Request, RLockRequest(r)
      PROVE  RequestInv'
  BY <1>6 DEF RLockRequest, NoWriter, RequestInv, RequestTypes, VisitInv,
              CountInv, Online, mapVars, dispVars
<1>7. ASSUME NEW r \in Request, NEW c \in Client, Visit(r, c)
      PROVE  RequestInv'
  BY <1>7 DEF Visit, Counts, RequestInv, RequestTypes, VisitInv, CountInv,
              Online, mapVars, dispVars
<1>8. ASSUME NEW r \in Request, RUnlockRequest(r)
      PROVE  RequestInv'
  BY <1>8 DEF RUnlockRequest, RequestInv, RequestTypes, VisitInv, CountInv,
              Online, mapVars, dispVars
<1>9. ASSUME NEW r \in Request, Answer(r)
      PROVE  RequestInv'
  BY <1>9 DEF Answer, RequestInv, RequestTypes, VisitInv, CountInv, Online,
              dispVars
<1>10. CASE UNCHANGED vars
  <2>1. UNCHANGED <<httpVars, mapVars, dispVars>>
    BY <1>10 DEF vars
  <2> QED
    BY <2>1, ElsewhereKeeps DEF dispVars, RequestInv, RequestTypes
<1> QED
  BY <1>1, <1>2, <1>3, <1>4, <1>5, <1>6, <1>7, <1>8, <1>9, <1>10
  DEF Next, Connection, Dispatcher, Handler

(* What a request counts is right up to what changes while it counts.       *)
THEOREM Regular == Spec => []CountIsRegular
<1>1. RequestInv => CountIsRegular
  BY DEF RequestInv, CountInv, CountIsRegular
<1> QED
  BY RequestInit, RequestStep, <1>1, PTL DEF Spec

-----------------------------------------------------------------------------
(* Type correctness.                                                        *)

ConnTypes ==
  /\ conn \in [Client -> {"none", "open", "broken"}]
  /\ toServer \in [Client -> 0..Window]
  /\ toClient \in [Client -> 0..Window]

GoroutineTypes ==
  /\ cpc \in [Client -> {"off", "connect", "login", "puback", "cluster"}
                          \cup DOMAIN Sends \cup {"read"}]
  /\ rpc \in {"read", "send"}
  /\ loginSuccess \subseteq Client

\* The dispatcher works on a message it took; it deletes when no loop is open.
DispatcherTypes ==
  /\ dpc \in {"select", "lock", "add", "del", "publish", "pubrel", "release",
              "peer", "cluster"}
  /\ dmsg.type \in DOMAIN Sends \cup {"none", "peer"}
  /\ dpc = "lock" => dmsg.type # "none"
  /\ todo \subseteq clientsMap
  /\ dpc \in {"add", "del"} => todo = {}

HandlerTypes ==
  /\ \A r \in Request :
       hpc[r] = "visit" => visit[r] \cup counted[r] \subseteq clientsMap
  /\ num \in 0..Cardinality(Client)

TypeInv ==
  ConnTypes /\ GoroutineTypes /\ DispatcherTypes /\ HandlerTypes

(* No more clients are counted than there are.                              *)
LEMMA CountBound ==
  ASSUME NEW S \in SUBSET Client
  PROVE  Cardinality(S) \in 0..Cardinality(Client)
  BY FS_Subset, FS_CardinalityType, ServerProcessAssumption

(* The initial states are typed.                                            *)
LEMMA TypeInit == Init => TypeInv
<1> SUFFICES ASSUME Init PROVE TypeInv
  OBVIOUS
<1>1. num \in 0..Cardinality(Client)
  BY CountBound, FS_EmptySet DEF Init
<1> QED
  BY <1>1, ServerProcessAssumption
  DEF Init, TypeInv, ConnTypes, GoroutineTypes, DispatcherTypes, HandlerTypes,
      Sends

(* Packets in flight stay within the window.                                *)
LEMMA ConnStep == ConnTypes /\ [Next]_vars => ConnTypes'
<1> SUFFICES ASSUME ConnTypes, [Next]_vars PROVE ConnTypes'
  OBVIOUS
<1> USE ServerProcessAssumption DEF ConnTypes
<1>1. ASSUME NEW c \in Client, Dial(c) \/ Leave(c) \/ Exit(c) \/ TakeFrom(c)
      PROVE  ConnTypes'
  BY <1>1 DEF Dial, Leave, Exit, TakeFrom
<1>2. ASSUME NEW c \in Client, Send(c) \/ Read(c)
      PROVE  ConnTypes'
  <2>1. PICK n \in 0..Window : toServer' = [toServer EXCEPT ![c] = n]
    BY <1>2 DEF Send, Read
  <2> QED
    BY <1>2, <2>1 DEF Send, Read
<1>3. ASSUME NEW c \in Client,
             \/ ClientReads(c) \/ Connack(c) \/ Puback(c)
             \/ Pubcomp(c) \/ Deliver(c)
      PROVE  ConnTypes'
  <2>1. UNCHANGED <<conn, toServer>>
    BY <1>3 DEF ClientReads, Connack, Puback, Pubcomp, Deliver
  <2>2. \/ UNCHANGED toClient
        \/ \E n \in 0..Window : toClient' = [toClient EXCEPT ![c] = n]
    <3>1. CASE ClientReads(c)
      <4>1. toClient[c] - 1 \in 0..Window
        BY <3>1 DEF ClientReads
      <4> QED
        BY <3>1, <4>1 DEF ClientReads
    <3>2. CASE Write(c)
      <4>1. CASE conn[c] = "open"
        <5>1. toClient[c] + 1 \in 0..Window
          BY <3>2, <4>1 DEF Write
        <5> QED
          BY <3>2, <4>1, <5>1 DEF Write
      <4> QED
        BY <3>2, <4>1 DEF Write
    <3> QED
      BY <1>3, <3>1, <3>2 DEF Connack, Puback, Pubcomp, Deliver
  <2> QED
    BY <2>1, <2>2
<1>4. CASE UNCHANGED connVars
  BY <1>4 DEF connVars
<1>5. ASSUME NEW c \in Client, RLockLogin(c) \/ Forward(c)
      PROVE  UNCHANGED connVars
  BY <1>5 DEF RLockLogin, Forward
<1>6. ASSUME \/ TakeFromPeer \/ Lock \/ ProcessAdd \/ ProcessDel
             \/ Delivered \/ ToCluster \/ PeerPublishes
      PROVE  UNCHANGED connVars
  BY <1>6 DEF TakeFromPeer, Lock, ProcessAdd, ProcessDel, Delivered,
              ToCluster, PeerPublishes
<1>7. ASSUME NEW r \in Request, Ask(r) \/ Handler(r)
      PROVE  UNCHANGED connVars
  BY <1>7 DEF Ask, Handler, RLockRequest, Visit, RUnlockRequest, Answer
<1> QED
  BY <1>1, <1>2, <1>3, <1>4, <1>5, <1>6, <1>7
  DEF Next, Connection, Dispatcher, vars

(* Each goroutine is at one of its places.                                  *)
LEMMA GoroutineStep ==
  ASSUME GoroutineTypes, RequestInv, [Next]_vars
  PROVE  GoroutineTypes'
<1> USE DEF GoroutineTypes
<1>1. ASSUME NEW c \in Client,
             \/ Dial(c) \/ Connack(c) \/ Read(c) \/ Puback(c) \/ Forward(c)
      PROVE  GoroutineTypes'
  BY <1>1 DEF Dial, Connack, Read, Puback, Forward, mapVars, Sends
<1>2. ASSUME NEW c \in Client, RLockLogin(c) \/ Exit(c)
      PROVE  GoroutineTypes'
  BY <1>2 DEF RLockLogin, Exit, Become, Sends
<1>3. ASSUME NEW c \in Client, TakeFrom(c)
      PROVE  GoroutineTypes'
  BY <1>3 DEF TakeFrom, mapVars, Sends
<1>4. ASSUME NEW c \in Client,
             Send(c) \/ ClientReads(c) \/ Leave(c) \/ Pubcomp(c) \/ Deliver(c)
      PROVE  GoroutineTypes'
  BY <1>4 DEF Send, ClientReads, Leave, Pubcomp, Deliver, mapVars
<1>5. CASE ProcessAdd \/ ProcessDel
  BY <1>5 DEF ProcessAdd, ProcessDel, Become
<1>6. CASE TakeFromPeer \/ Lock \/ Delivered \/ ToCluster \/ PeerPublishes
  BY <1>6 DEF TakeFromPeer, Lock, Delivered, ToCluster, PeerPublishes, mapVars
<1>7. ASSUME NEW r \in Request, Ask(r) \/ Handler(r)
      PROVE  GoroutineTypes'
  BY <1>7 DEF Ask, Handler, RLockRequest, Visit, RUnlockRequest, Answer,
              mapVars
<1>8. CASE UNCHANGED vars
  BY <1>8 DEF vars, mapVars
<1> QED
  BY <1>1, <1>2, <1>3, <1>4, <1>5, <1>6, <1>7, <1>8
  DEF Next, Connection, Dispatcher

(* The dispatcher's loop is over sessions of the map: the map loses one only *)
(* when no loop is open.                                                    *)
LEMMA DispatcherStep ==
  ASSUME DispatcherTypes, [Next]_vars
  PROVE  DispatcherTypes'
<1> USE DEF DispatcherTypes
<1>1. ASSUME NEW c \in Client,
             \/ Dial(c) \/ Send(c) \/ ClientReads(c) \/ Leave(c)
             \/ Connack(c) \/ Read(c) \/ Puback(c) \/ Forward(c)
      PROVE  UNCHANGED <<clientsMap, dispVars>>
  BY <1>1 DEF Dial, Send, ClientReads, Leave, Connack, Read, Puback, Forward,
              mapVars
<1>2. ASSUME NEW c \in Client, RLockLogin(c) \/ Exit(c)
      PROVE  UNCHANGED <<clientsMap, dispVars>>
  BY <1>2 DEF RLockLogin, Exit, Become
<1>3. ASSUME NEW c \in Client, TakeFrom(c)
      PROVE  DispatcherTypes'
  BY <1>3 DEF TakeFrom, mapVars, Sends
<1>4. ASSUME NEW c \in Client, Pubcomp(c) \/ Deliver(c)
      PROVE  DispatcherTypes'
  BY <1>4 DEF Pubcomp, Deliver, mapVars
<1>5. CASE TakeFromPeer \/ Lock
  BY <1>5 DEF TakeFromPeer, Lock, mapVars, Sends
<1>6. CASE ProcessAdd \/ ProcessDel
  BY <1>6 DEF ProcessAdd, ProcessDel, Become
<1>7. CASE Delivered \/ ToCluster
  BY <1>7 DEF Delivered, ToCluster, mapVars
<1>8. PeerPublishes => UNCHANGED <<clientsMap, dispVars>>
  BY DEF PeerPublishes, mapVars
<1>9. ASSUME NEW r \in Request, Ask(r) \/ Handler(r)
      PROVE  UNCHANGED <<clientsMap, dispVars>>
  BY <1>9 DEF Ask, Handler, RLockRequest, Visit, RUnlockRequest, Answer,
              mapVars
<1>10. CASE UNCHANGED <<clientsMap, dispVars>>
  BY <1>10 DEF dispVars
<1> QED
  BY <1>1, <1>2, <1>3, <1>4, <1>5, <1>6, <1>7, <1>8, <1>9, <1>10
  DEF Next, Connection, Dispatcher, vars, mapVars

(* A request visits sessions of the map: it holds the lock meanwhile.       *)
LEMMA HandlerStep ==
  ASSUME HandlerTypes, RequestInv, [Next]_vars
  PROVE  HandlerTypes'
<1> USE DEF HandlerTypes
<1>1. CASE UNCHANGED <<clientsMap, httpVars>>
  BY <1>1 DEF httpVars
<1>2. ASSUME NEW c \in Client,
             \/ Dial(c) \/ Send(c) \/ ClientReads(c) \/ Leave(c)
             \/ Connection(c) \/ TakeFrom(c) \/ Pubcomp(c) \/ Deliver(c)
      PROVE  UNCHANGED <<clientsMap, httpVars>>
  BY <1>2 DEF Dial, Send, ClientReads, Leave, Connection, RLockLogin, Connack,
              Read, Puback, Forward, Exit, TakeFrom, Pubcomp, Deliver, Become,
              mapVars
<1>3. ASSUME TakeFromPeer \/ Lock \/ Delivered \/ ToCluster \/ PeerPublishes
      PROVE  UNCHANGED <<clientsMap, httpVars>>
  BY <1>3 DEF TakeFromPeer, Lock, Delivered, ToCluster, PeerPublishes, mapVars
<1>4. CASE ProcessAdd \/ ProcessDel
  BY <1>4 DEF ProcessAdd, ProcessDel, RequestInv, VisitInv, httpVars
<1>5. ASSUME NEW r \in Request, Ask(r) \/ Answer(r)
      PROVE  HandlerTypes'
  BY <1>5 DEF Ask, Answer, RequestInv, RequestTypes
<1>6. ASSUME NEW r \in Request, RLockRequest(r)
      PROVE  HandlerTypes'
  BY <1>6 DEF RLockRequest, RequestInv, RequestTypes, mapVars
<1>7. ASSUME NEW r \in Request, NEW c \in Client, Visit(r, c)
      PROVE  HandlerTypes'
  BY <1>7 DEF Visit, RequestInv, RequestTypes, mapVars
<1>8. ASSUME NEW r \in Request, RUnlockRequest(r)
      PROVE  HandlerTypes'
  <2>1. num' \in 0..Cardinality(Client)
    BY <1>8, CountBound DEF RUnlockRequest, RequestInv, RequestTypes
  <2> QED
    BY <1>8, <2>1 DEF RUnlockRequest, RequestInv, RequestTypes, mapVars
<1> QED
  BY <1>1, <1>2, <1>3, <1>4, <1>5, <1>6, <1>7, <1>8
  DEF Next, Dispatcher, Handler, vars, mapVars

(* The types hold in every reachable state, for any number of clients and   *)
(* requests; that a request visits sessions of the map only is the part     *)
(* that needs the lock.                                                     *)
THEOREM ServerTypeCorrect == Spec => []TypeOK
<1>1. RequestInv /\ TypeInv => TypeOK
  BY DEF RequestInv, RequestTypes, TypeInv, ConnTypes, GoroutineTypes,
         DispatcherTypes, HandlerTypes, TypeOK
<1>2. RequestInv /\ TypeInv /\ [Next]_vars => TypeInv'
  BY ConnStep, GoroutineStep, DispatcherStep, HandlerStep DEF TypeInv
<1> QED
  BY RequestInit, RequestStep, TypeInit, <1>1, <1>2, PTL DEF Spec

=============================================================================
