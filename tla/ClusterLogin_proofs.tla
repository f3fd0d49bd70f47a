------------------------ MODULE ClusterLogin_proofs ------------------------
(***************************************************************************)
(* For clusters of any size, any number of logins and faults: the type     *)
(* invariant of ClusterLogin, and that no server is brought down by        *)
(* clients that stay where they are.                                       *)
(***************************************************************************)
EXTENDS ClusterLogin, TLAPS

-----------------------------------------------------------------------------
(* Datagrams.                                                               *)

(* A datagram is a notice or a part of a session, and names a client.       *)
LEMMA DatagramFields ==
  ASSUME NEW d \in Datagram
  PROVE  /\ d.id \in ClientId
         /\ d.type \in {"login", "info"}
         /\ d.type = "login" => d = Notice(d.id)
  BY DEF Datagram, Notice, Info

LEMMA ChannelTypes ==
  ASSUME NEW w \in [Channel -> [Datagram -> Nat]], NEW c \in Channel,
         NEW f \in [Datagram -> Nat]
  PROVE  [w EXCEPT ![c] = f] \in [Channel -> [Datagram -> Nat]]
OBVIOUS

(* Taking a datagram leaves the wire with fewer of it, and otherwise alone. *)
LEMMA TakeLeaves ==
  ASSUME TypeOK, NEW s \in Server, NEW t \in Server, NEW d \in Datagram,
         Take(s, t, d)
  PROVE  /\ wire' \in [Channel -> [Datagram -> Nat]]
         /\ \A c \in Channel, e \in Datagram : wire'[c][e] <= wire[c][e]
<1>1. <<s, t>> \in Channel /\ wire[<<s, t>>][d] > 0
  BY DEF Take, OnWay, Channel
<1>2. wire \in [Channel -> [Datagram -> Nat]]
  BY DEF TypeOK
<1>3. wire' = [wire EXCEPT ![<<s, t>>] = [wire[<<s, t>>] EXCEPT ![d] = @ - 1]]
  BY DEF Take
<1>4. /\ wire[<<s, t>>] \in [Datagram -> Nat]
      /\ wire[<<s, t>>][d] - 1 \in Nat
  BY <1>1, <1>2
<1>5. [wire[<<s, t>>] EXCEPT ![d] = @ - 1] \in [Datagram -> Nat]
  BY <1>4
<1>6. wire' \in [Channel -> [Datagram -> Nat]]
  BY <1>1, <1>2, <1>3, <1>5, ChannelTypes
<1>7. ASSUME NEW c \in Channel, NEW e \in Datagram
      PROVE  wire'[c][e] <= wire[c][e]
  <2>1. wire[c] \in [Datagram -> Nat] /\ wire[c][e] \in Nat
    BY <1>2
  <2>2. CASE c = <<s, t>>
    <3>1. wire'[c] = [wire[c] EXCEPT ![d] = @ - 1]
      BY <1>1, <1>2, <1>3, <2>2
    <3>2. wire'[c][e] = IF e = d THEN wire[c][e] - 1 ELSE wire[c][e]
      BY <2>1, <3>1
    <3> QED
      BY <2>1, <3>2
  <2>3. CASE c # <<s, t>>
    BY <1>1, <1>2, <1>3, <2>1, <2>3
  <2> QED
    BY <2>2, <2>3
<1> QED
  BY <1>6, <1>7

(* A session on the wire leaves the notices there alone.                    *)
LEMMA SessionTypes ==
  ASSUME NEW w \in [Channel -> [Datagram -> Nat]], NEW c \in Channel,
         NEW id \in ClientId
  PROVE  /\ WithSession(w, c, id) \in [Channel -> [Datagram -> Nat]]
         /\ \A a \in Channel, i \in ClientId :
              WithSession(w, c, id)[a][Notice(i)] = w[a][Notice(i)]
<1> DEFINE now == [d \in Datagram |-> IF d.type = "info" /\ d.id = id
                                      THEN w[c][d] + 1 ELSE w[c][d]]
<1>1. now \in [Datagram -> Nat]
  <2>1. w[c] \in [Datagram -> Nat]
    OBVIOUS
  <2>2. \A d \in Datagram : (IF d.type = "info" /\ d.id = id
                             THEN w[c][d] + 1 ELSE w[c][d]) \in Nat
    <3>1. \A d \in Datagram : w[c][d] \in Nat /\ w[c][d] + 1 \in Nat
      BY <2>1
    <3> QED
      BY <3>1
  <2> QED
    BY <2>2
<1>2. \A i \in ClientId : now[Notice(i)] = w[c][Notice(i)]
  <2>1. \A i \in ClientId : Notice(i) \in Datagram
    BY DEF Datagram
  <2>2. \A i \in ClientId : Notice(i).type # "info"
    BY DEF Notice
  <2> QED
    BY <2>1, <2>2
<1>3. WithSession(w, c, id) = [w EXCEPT ![c] = now]
  BY DEF WithSession
<1> HIDE DEF now
<1> QED
  BY <1>1, <1>2, <1>3

-----------------------------------------------------------------------------
(* Types.                                                                   *)

(* Servers start with values of these types ...                            *)
LEMMA TypeInit == Init => TypeOK
<1> SUFFICES ASSUME Init PROVE TypeOK
  OBVIOUS
<1> USE ClusterLoginAssumption
<1>1. \A n \in Node : Server \ {n} \subseteq Server
  OBVIOUS
<1>2. peerHas \in [Peer -> SUBSET Moved]
  BY DEF Init
<1> QED
  BY <1>1, <1>2 DEF Init, TypeOK, Dispatch, Nothing

(* ... and keep to them, whatever arrives.                                  *)
LEMMA TypeStep == TypeOK /\ [Next]_vars => TypeOK'
<1> SUFFICES ASSUME TypeOK, [Next]_vars PROVE TypeOK'
  OBVIOUS
<1> USE ClusterLoginAssumption
<1>1. ASSUME NEW n \in Node, NEW id \in ClientId, Login(n, id)
      PROVE TypeOK'
  BY <1>1 DEF Login, TypeOK, procVars, sessVars, Dispatch
<1>2. ASSUME NEW n \in Node, NEW id \in ClientId, Exit(n, id)
      PROVE TypeOK'
  BY <1>2 DEF Exit, TypeOK, procVars, sessVars, envVars
<1>3. ASSUME NEW n \in Node, NEW id \in ClientId, TakeAdd(n, id)
      PROVE TypeOK'
  BY <1>3 DEF TakeAdd, TypeOK, procVars, sessVars, envVars, Dispatch
<1>4. ASSUME NEW n \in Node, ProcessAdd(n)
      PROVE TypeOK'
  <2>1. dmsg[n].id \in ClientId /\ n \in Server
    BY <1>4 DEF ProcessAdd, TypeOK, Dispatch, Nothing, Server
  <2>2. Notice(dmsg[n].id) \in Datagram
    BY <2>1 DEF Datagram
  <2>3. wire' \in [Channel -> [Datagram -> Nat]]
    <3>1. wire' = Announced(n, dmsg[n].id)
      BY <1>4 DEF ProcessAdd
    <3>2. ASSUME NEW c \in Channel
          PROVE /\ wire[c] \in [Datagram -> Nat]
                /\ [wire[c] EXCEPT ![Notice(dmsg[n].id)] = @ + 1]
                     \in [Datagram -> Nat]
      BY <2>2 DEF TypeOK
    <3> QED
      BY <3>1, <3>2 DEF Announced
  <2> QED
    BY <1>4, <2>1, <2>3 DEF ProcessAdd, TypeOK, procVars, envVars, Dispatch
<1>5. ASSUME NEW n \in Node, ProcessLogin(n)
      PROVE TypeOK'
  <2> USE <1>5 DEF ProcessLogin, SyncClient, Fresh
  <2>1. gpc' \in [Node -> [ClientId -> {"off", "add", "on"}]]
    BY DEF TypeOK
  <2>2. {clientsMap', merged', given'} \subseteq [Node -> SUBSET ClientId]
    BY DEF TypeOK
  <2>3. clientInfoMsg' \in [Node -> Seq(Datagram)]
    BY DEF TypeOK
  <2>4. alive' \in [Node -> SUBSET Server]
    BY DEF TypeOK
  <2>5. up' \in [Node -> BOOLEAN] /\ died' \subseteq Node
    BY DEF TypeOK
  <2>6. dmsg' \in [Node -> Dispatch]
    BY DEF TypeOK, Dispatch
  <2>7. ASSUME NEW k \in Node
        PROVE  /\ given'[k] \subseteq merged'[k]
               /\ merged'[k] \subseteq clientsMap'[k]
    <3>1. /\ clientsMap' = [clientsMap EXCEPT ![n] = {}]
          /\ merged' = [merged EXCEPT ![n] = {}]
          /\ given' = [given EXCEPT ![n] = {}]
      OBVIOUS
    <3>2. CASE k = n
      BY <3>1, <3>2 DEF TypeOK
    <3>3. CASE k # n
      BY <3>1, <3>3 DEF TypeOK
    <3> QED
      BY <3>2, <3>3
  <2>8. UNCHANGED <<wire, peerHas, logins, faults, visited>>
    BY DEF envVars
  <2> HIDE <1>5 DEF ProcessLogin, SyncClient, Fresh
  <2> QED
    BY <2>1, <2>2, <2>3, <2>4, <2>5, <2>6, <2>7, <2>8 DEF TypeOK
<1>6. ASSUME NEW n \in Node, IgnoreLogin(n)
      PROVE TypeOK'
  BY <1>6 DEF IgnoreLogin, TypeOK, procVars, sessVars, envVars, Dispatch
<1>7. ASSUME NEW n \in Node, ProcessInfo(n)
      PROVE TypeOK'
  BY <1>7 DEF ProcessInfo, Into, TypeOK, procVars, envVars, Dispatch
<1>8. ASSUME NEW n \in Node, Restart(n)
      PROVE TypeOK'
  BY <1>8 DEF Restart, TypeOK, sessVars, envVars
<1>9. \A n \in Node : n \in Server
  BY DEF Server
<1>10. \A id \in ClientId : /\ Notice(id) \in Datagram
                            /\ \A i \in 1..Parts : Info(id, i) \in Datagram
                            /\ Info(id, Parts) \in Datagram
  BY DEF Datagram
<1>11. ASSUME NEW s \in Server, NEW n \in Node, NEW id \in ClientId,
              RecvLogin(s, n, id)
       PROVE TypeOK'
  <2>1. wire' \in [Channel -> [Datagram -> Nat]]
    BY <1>9, <1>10, <1>11, TakeLeaves DEF RecvLogin
  <2> QED
    BY <1>11, <2>1 DEF RecvLogin, TypeOK, procVars, sessVars, envVars, Dispatch
<1>12. ASSUME NEW s \in Server, NEW n \in Node, NEW id \in ClientId,
              NEW i \in 1..Parts, RecvPart(s, n, id, i)
       PROVE TypeOK'
  <2>1. wire' \in [Channel -> [Datagram -> Nat]]
    BY <1>9, <1>10, <1>12, TakeLeaves DEF RecvPart
  <2>2. clientInfoMsg' \in [Node -> Seq(Datagram)]
    BY <1>10, <1>12 DEF RecvPart, TypeOK
  <2> QED
    BY <1>12, <2>1, <2>2 DEF RecvPart, TypeOK, procVars, sessVars, envVars
<1>13. ASSUME NEW s \in Server, NEW n \in Node, NEW id \in ClientId,
              RecvLast(s, n, id)
       PROVE TypeOK'
  <2>1. wire' \in [Channel -> [Datagram -> Nat]]
    BY <1>9, <1>10, <1>13, TakeLeaves DEF RecvLast
  <2>2. clientInfoMsg' \in [Node -> Seq(Datagram)]
    BY <1>13 DEF RecvLast, TypeOK
  <2>3. dmsg' \in [Node -> Dispatch]
    BY <1>13 DEF RecvLast, TypeOK, Dispatch
  <2> QED
    BY <1>13, <2>1, <2>2, <2>3
    DEF RecvLast, TypeOK, procVars, sessVars, envVars
<1>14. ASSUME NEW s \in Server, NEW n \in Node, NEW d \in Datagram,
              Discard(s, n, d)
       PROVE TypeOK'
  <2>1. wire' \in [Channel -> [Datagram -> Nat]]
    BY <1>9, <1>14, TakeLeaves DEF Discard
  <2> QED
    BY <1>14, <2>1 DEF Discard, TypeOK, procVars, sessVars, envVars
<1>15. ASSUME NEW s \in Server, NEW n \in Node, GiveUp(n, s) \/ Heard(n, s)
       PROVE TypeOK'
  <2>1. CASE GiveUp(n, s)
    BY <2>1 DEF GiveUp, TypeOK, sessVars
  <2>2. CASE Heard(n, s)
    BY <2>2 DEF Heard, TypeOK, sessVars, envVars
  <2> QED
    BY <1>15, <2>1, <2>2
<1>16. ASSUME NEW n \in Node, NEW p \in Peer, NEW id \in ClientId,
              PeerGives(n, p, id)
       PROVE TypeOK'
  <2> DEFINE rest == [wire EXCEPT ![<<n, p>>][Notice(id)] = @ - 1]
  <2>1. <<n, p>> \in Channel /\ <<p, n>> \in Channel
    BY DEF Channel, Server
  <2>2. rest \in [Channel -> [Datagram -> Nat]]
    <3>1. wire[<<n, p>>][Notice(id)] > 0
      BY <1>16 DEF PeerGives, OnWay
    <3>2. Take(n, p, Notice(id)) \/ wire' # rest
      BY <1>16 DEF PeerGives, Take
    <3>3. wire[<<n, p>>] \in [Datagram -> Nat]
      BY <2>1 DEF TypeOK
    <3>4. wire[<<n, p>>][Notice(id)] - 1 \in Nat
      BY <1>10, <3>1, <3>3
    <3> QED
      BY <1>10, <2>1, <3>3, <3>4 DEF TypeOK
  <2>3. wire' = WithSession(rest, <<p, n>>, id)
    BY <1>16 DEF PeerGives
  <2> HIDE DEF rest
  <2>4. wire' \in [Channel -> [Datagram -> Nat]]
    BY <2>1, <2>2, <2>3, SessionTypes
  <2>5. peerHas' \in [Peer -> SUBSET Moved]
    BY <1>16 DEF PeerGives, TypeOK
  <2> QED
    BY <1>16, <2>4, <2>5 DEF PeerGives, TypeOK, procVars, sessVars
<1>17. ASSUME NEW n \in Node, NEW p \in Peer, NEW id \in ClientId,
              PeerIgnores(n, p, id)
       PROVE TypeOK'
  <2>1. p \in Server
    BY DEF Server
  <2>2. wire' \in [Channel -> [Datagram -> Nat]]
    BY <1>9, <1>10, <1>17, <2>1, TakeLeaves DEF PeerIgnores
  <2> QED
    BY <1>17, <2>2 DEF PeerIgnores, TypeOK, procVars, sessVars, envVars
<1>18. ASSUME NEW s \in Server, NEW t \in Server, NEW d \in Datagram,
              Lose(s, t, d)
       PROVE TypeOK'
  <2>1. wire' \in [Channel -> [Datagram -> Nat]]
    BY <1>18, TakeLeaves DEF Lose
  <2> QED
    BY <1>18, <2>1 DEF Lose, TypeOK, procVars, sessVars
<1>19. CASE UNCHANGED vars
  BY <1>19 DEF TypeOK, vars, procVars, sessVars, envVars
<1> QED
  BY <1>1, <1>2, <1>3, <1>4, <1>5, <1>6, <1>7, <1>8, <1>11, <1>12, <1>13,
     <1>14, <1>15, <1>16, <1>18, <1>19, <1>17
  DEF Next, Idle

(* Type correctness, for any cluster: among the types, that a session took  *)
(* in only what the map still holds.                                        *)
THEOREM ClusterLoginTypeCorrect == Spec => []TypeOK
<1>1. TypeOK /\ [Next]_vars => TypeOK'
  BY TypeStep
<1> QED
  BY TypeInit, <1>1, PTL DEF Spec

-----------------------------------------------------------------------------
(* Clients that stay.                                                       *)

\* What is known of an id at a server, or under way to it, comes from a login.
NoticeInv ==
  \A s, t \in Server, id \in ClientId :
    <<s, t>> \in OnWay(Notice(id)) => s # t /\ s \in visited[id]

HereInv ==
  \A n \in Node :
    /\ alive[n] \subseteq Server \ {n}
    /\ \A id \in ClientId :
         gpc[n][id] # "off" \/ id \in clientsMap[n] => n \in visited[id]
    /\ dmsg[n].type = "add" => n \in visited[dmsg[n].id]
    /\ dmsg[n].type = "login" => \E s \in visited[dmsg[n].id] : s # n

StayInv == NoticeInv /\ HereInv /\ StayersAreSafe

(* At first nobody has been anywhere.                                      *)
LEMMA StayInit == Init => StayInv
<1> SUFFICES ASSUME Init PROVE StayInv
  OBVIOUS
<1>1. NoticeInv
  BY DEF Init, NoticeInv, OnWay, Channel, Datagram
<1>2. HereInv
  BY DEF Init, HereInv, Nothing
<1>3. StayersAreSafe
  BY DEF Init, StayersAreSafe
<1> QED
  BY <1>1, <1>2, <1>3 DEF StayInv

(* Notices stay true while visits grow and no notice is added.              *)
LEMMA NoticesKept ==
  ASSUME TypeOK, TypeOK', NoticeInv,
         \A id \in ClientId : visited[id] \subseteq visited'[id],
         \A c \in Channel, id \in ClientId :
           wire'[c][Notice(id)] <= wire[c][Notice(id)]
  PROVE  NoticeInv'
<1> SUFFICES ASSUME NEW s \in Server, NEW t \in Server, NEW id \in ClientId,
                    <<s, t>> \in Channel, wire'[<<s, t>>][Notice(id)] > 0
             PROVE  s # t /\ s \in visited'[id]
  BY DEF NoticeInv, OnWay
<1>1. Notice(id) \in Datagram
  BY DEF Datagram
<1>2. /\ wire[<<s, t>>][Notice(id)] \in Nat
      /\ wire'[<<s, t>>][Notice(id)] \in Nat
  BY <1>1 DEF TypeOK
<1>3. wire[<<s, t>>][Notice(id)] > 0
  BY <1>2
<1> QED
  BY <1>3 DEF NoticeInv, OnWay

(* A notice on the wire comes from a server its client logged in at, and    *)
(* goes to another.                                                         *)
LEMMA NoticeStep ==
  ASSUME TypeOK, TypeOK', StayInv, [Next]_vars
  PROVE  NoticeInv'
<1>1. NoticeInv /\ HereInv
  BY DEF StayInv
<1>2. \A id \in ClientId : /\ Notice(id) \in Datagram
                           /\ \A i \in 1..Parts : Info(id, i) \in Datagram
                           /\ Info(id, Parts) \in Datagram
  BY ClusterLoginAssumption DEF Datagram
<1>3. ASSUME UNCHANGED wire,
             \A id \in ClientId : visited[id] \subseteq visited'[id]
      PROVE  NoticeInv'
  <2>1. \A c \in Channel, id \in ClientId : wire[c][Notice(id)] \in Nat
    BY <1>2 DEF TypeOK
  <2>2. \A c \in Channel, id \in ClientId :
          wire'[c][Notice(id)] <= wire[c][Notice(id)]
    BY <1>3, <2>1
  <2> QED
    BY <1>1, <1>3, <2>2, NoticesKept
<1>4. ASSUME NEW s \in Server, NEW t \in Server, NEW d \in Datagram,
             Take(s, t, d), UNCHANGED visited
      PROVE  NoticeInv'
  <2>1. \A c \in Channel, id \in ClientId :
          wire'[c][Notice(id)] <= wire[c][Notice(id)]
    BY <1>2, <1>4, TakeLeaves
  <2> QED
    BY <1>1, <1>4, <2>1, NoticesKept
<1>5. ASSUME NEW n \in Node, NEW id \in ClientId, Login(n, id)
      PROVE  NoticeInv'
  BY <1>3, <1>5 DEF Login, TypeOK
<1>6. ASSUME NEW n \in Node, ProcessAdd(n)
      PROVE  NoticeInv'
  <2>1. n \in visited[dmsg[n].id] /\ n \in Server
    BY <1>1, <1>6 DEF HereInv, ProcessAdd, Server
  <2>2. wire' = Announced(n, dmsg[n].id) /\ UNCHANGED visited
    BY <1>6 DEF ProcessAdd, envVars
  <2> SUFFICES ASSUME NEW s \in Server, NEW t \in Server, NEW id \in ClientId,
                      <<s, t>> \in Channel, wire'[<<s, t>>][Notice(id)] > 0
               PROVE  s # t /\ s \in visited'[id]
    BY DEF NoticeInv, OnWay
  <2>3. wire[<<s, t>>] \in [Datagram -> Nat]
    BY DEF TypeOK
  <2>4. CASE wire[<<s, t>>][Notice(id)] > 0
    BY <1>1, <2>2, <2>4 DEF NoticeInv, OnWay
  <2>5. CASE ~ (wire[<<s, t>>][Notice(id)] > 0)
    <3>1. wire'[<<s, t>>] # wire[<<s, t>>]
      BY <2>5
    <3>2. /\ s = n /\ t \in alive[n]
          /\ wire'[<<s, t>>] =
               [wire[<<s, t>>] EXCEPT ![Notice(dmsg[n].id)] = @ + 1]
      BY <2>2, <3>1 DEF Announced
    <3>3. Notice(id) = Notice(dmsg[n].id)
      BY <1>2, <2>3, <2>5, <3>2
    <3>4. id = dmsg[n].id
      BY <3>3 DEF Notice
    <3> QED
      BY <1>1, <2>1, <2>2, <3>2, <3>4 DEF HereInv
  <2> QED
    BY <2>4, <2>5
<1>7. ASSUME NEW n \in Node, NEW p \in Peer, NEW id \in ClientId,
             PeerGives(n, p, id)
      PROVE  NoticeInv'
  <2> DEFINE rest == [wire EXCEPT ![<<n, p>>][Notice(id)] = @ - 1]
  <2>1. <<n, p>> \in Channel /\ <<p, n>> \in Channel /\ UNCHANGED visited
    BY <1>7 DEF PeerGives, Channel, Server
  <2>2. wire \in [Channel -> [Datagram -> Nat]]
    BY DEF TypeOK
  <2>3. /\ wire[<<n, p>>] \in [Datagram -> Nat]
        /\ wire[<<n, p>>][Notice(id)] - 1 \in Nat
    BY <1>2, <1>7, <2>1, <2>2 DEF PeerGives, OnWay
  <2>4. rest \in [Channel -> [Datagram -> Nat]]
    BY <1>2, <2>1, <2>2, <2>3
  <2>5. \A c \in Channel, i \in ClientId :
          rest[c][Notice(i)] <= wire[c][Notice(i)]
    <3> SUFFICES ASSUME NEW c \in Channel, NEW i \in ClientId
                 PROVE  rest[c][Notice(i)] <= wire[c][Notice(i)]
      OBVIOUS
    <3>1. wire[c][Notice(i)] \in Nat
      BY <1>2, <2>2
    <3>2. CASE c = <<n, p>> /\ Notice(i) = Notice(id)
      BY <1>2, <2>1, <2>2, <3>1, <3>2
    <3>3. CASE ~ (c = <<n, p>> /\ Notice(i) = Notice(id))
      BY <1>2, <2>1, <2>2, <3>1, <3>3
    <3> QED
      BY <3>2, <3>3
  <2>6. wire' = WithSession(rest, <<p, n>>, id)
    BY <1>7 DEF PeerGives
  <2> HIDE DEF rest
  <2>7. \A c \in Channel, i \in ClientId :
          wire'[c][Notice(i)] <= wire[c][Notice(i)]
    BY <2>1, <2>4, <2>5, <2>6, SessionTypes
  <2> QED
    BY <1>1, <2>1, <2>7, NoticesKept
<1>8. \A n \in Node : n \in Server
  BY DEF Server
<1>9. ASSUME NEW s \in Server, NEW n \in Node,
             \/ \E id \in ClientId :
                  \/ RecvLogin(s, n, id) \/ RecvLast(s, n, id)
                  \/ \E i \in 1..Parts : RecvPart(s, n, id, i)
             \/ \E d \in Datagram : Discard(s, n, d)
      PROVE  NoticeInv'
  <2>1. \E d \in Datagram : Take(s, n, d) /\ UNCHANGED visited
    BY <1>2, <1>9 DEF RecvLogin, RecvPart, RecvLast, Discard, envVars
  <2> QED
    BY <1>4, <1>8, <2>1
<1>10. ASSUME NEW s \in Server, NEW t \in Server, NEW d \in Datagram,
              Lose(s, t, d)
       PROVE  NoticeInv'
  BY <1>4, <1>10 DEF Lose
<1>11. ASSUME NEW n \in Node, NEW p \in Peer, NEW id \in ClientId,
              PeerIgnores(n, p, id)
       PROVE  NoticeInv'
  <2>1. p \in Server
    BY DEF Server
  <2> QED
    BY <1>2, <1>4, <1>8, <1>11, <2>1 DEF PeerIgnores, envVars
<1>12. ASSUME NEW n \in Node,
              \/ \E id \in ClientId : Exit(n, id) \/ TakeAdd(n, id)
              \/ ProcessLogin(n) \/ IgnoreLogin(n) \/ ProcessInfo(n)
              \/ Restart(n) \/ \E s \in Server : GiveUp(n, s) \/ Heard(n, s)
       PROVE  NoticeInv'
  <2>1. UNCHANGED wire /\ UNCHANGED visited
    BY <1>12 DEF Exit, TakeAdd, ProcessLogin, IgnoreLogin, ProcessInfo,
                 Restart, GiveUp, Heard, envVars
  <2> QED
    BY <1>3, <2>1
<1>13. CASE UNCHANGED vars
  BY <1>3, <1>13 DEF vars, envVars
<1> QED
  BY <1>5, <1>6, <1>7, <1>9, <1>10, <1>12, <1>13, <1>11 DEF Next, Idle

(* A session is where its client logged in, and a notice in the hands of a  *)
(* dispatcher tells of a login elsewhere.                                   *)
LEMMA HereStep ==
  ASSUME TypeOK, TypeOK', StayInv, [Next]_vars
  PROVE  HereInv'
<1>1. NoticeInv /\ HereInv
  BY DEF StayInv
<1>2. ASSUME NEW n \in Node, NEW id \in ClientId, Login(n, id)
      PROVE  HereInv'
  BY <1>1, <1>2
  DEF Login, HereInv, TypeOK, procVars, sessVars, Dispatch, Nothing
<1>3. ASSUME NEW n \in Node, NEW id \in ClientId, Exit(n, id) \/ TakeAdd(n, id)
      PROVE  HereInv'
  <2>1. CASE Exit(n, id)
    BY <1>1, <2>1 DEF Exit, HereInv, TypeOK, procVars, sessVars, envVars
  <2>2. CASE TakeAdd(n, id)
    <3>1. gpc[n][id] = "add" /\ n \in visited[id]
      BY <1>1, <2>2 DEF TakeAdd, HereInv
    <3> QED
      BY <1>1, <2>2, <3>1
      DEF TakeAdd, HereInv, TypeOK, procVars, sessVars, envVars
  <2> QED
    BY <1>3, <2>1, <2>2
<1>4. ASSUME NEW n \in Node, ProcessAdd(n)
      PROVE  HereInv'
  BY <1>1, <1>4 DEF ProcessAdd, HereInv, TypeOK, procVars, envVars, Nothing
<1>5. ASSUME NEW n \in Node, ProcessLogin(n)
      PROVE  HereInv'
  BY <1>1, <1>5
  DEF ProcessLogin, SyncClient, Fresh, HereInv, TypeOK, envVars, Nothing
<1>6. ASSUME NEW n \in Node, IgnoreLogin(n) \/ ProcessInfo(n) \/ Restart(n)
      PROVE  HereInv'
  <2>1. CASE IgnoreLogin(n)
    BY <1>1, <2>1
    DEF IgnoreLogin, HereInv, TypeOK, procVars, sessVars, envVars, Nothing
  <2>2. CASE ProcessInfo(n)
    <3>1. /\ dmsg' = [dmsg EXCEPT ![n] = Nothing]
          /\ UNCHANGED <<alive, gpc, clientsMap, visited>>
      BY <2>2 DEF ProcessInfo, procVars, envVars
    <3> QED
      BY <1>1, <3>1 DEF HereInv, TypeOK, Nothing
  <2>3. CASE Restart(n)
    BY <1>1, <2>3 DEF Restart, HereInv, sessVars, envVars
  <2> QED
    BY <1>6, <2>1, <2>2, <2>3
<1>7. ASSUME NEW s \in Server, NEW n \in Node, NEW id \in ClientId,
             RecvLogin(s, n, id)
      PROVE  HereInv'
  <2>1. n \in Server
    BY DEF Server
  <2>2. s # n /\ s \in visited[id]
    BY <1>1, <1>7, <2>1 DEF NoticeInv, RecvLogin, Take
  <2> QED
    BY <1>1, <1>7, <2>2
    DEF RecvLogin, HereInv, TypeOK, procVars, sessVars, envVars
<1>8. ASSUME NEW s \in Server, NEW n \in Node, NEW id \in ClientId,
             RecvLast(s, n, id)
      PROVE  HereInv'
  <2>1. \/ dmsg' = dmsg
        \/ dmsg' = [dmsg EXCEPT ![n] = [type |-> "info", id |-> id]]
    BY <1>8 DEF RecvLast
  <2>2. \A m \in Node : dmsg'[m] = dmsg[m] \/ dmsg'[m].type = "info"
    BY <2>1 DEF TypeOK
  <2>3. UNCHANGED <<alive, gpc, clientsMap, visited>>
    BY <1>8 DEF RecvLast, procVars, sessVars, envVars
  <2> QED
    BY <1>1, <2>2, <2>3 DEF HereInv
<1>9. ASSUME NEW s \in Server, NEW n \in Node, GiveUp(n, s) \/ Heard(n, s)
      PROVE  HereInv'
  <2>1. CASE GiveUp(n, s)
    BY <1>1, <2>1 DEF GiveUp, HereInv, TypeOK, sessVars
  <2>2. CASE Heard(n, s)
    BY <1>1, <2>2 DEF Heard, HereInv, TypeOK, sessVars, envVars
  <2> QED
    BY <1>9, <2>1, <2>2
<1>10. ASSUME UNCHANGED <<alive, gpc, clientsMap, dmsg, visited>>
       PROVE  HereInv'
  BY <1>1, <1>10 DEF HereInv
<1>11. ASSUME NEW s \in Server, NEW n \in Node,
              \/ \E id \in ClientId, i \in 1..Parts : RecvPart(s, n, id, i)
              \/ \E d \in Datagram : Discard(s, n, d)
       PROVE  HereInv'
  BY <1>10, <1>11 DEF RecvPart, Discard, procVars, sessVars, envVars
<1>12. ASSUME NEW n \in Node, NEW p \in Peer, NEW id \in ClientId,
              PeerGives(n, p, id) \/ PeerIgnores(n, p, id)
       PROVE  HereInv'
  BY <1>10, <1>12 DEF PeerGives, PeerIgnores, procVars, sessVars, envVars
<1>13. ASSUME NEW s \in Server, NEW t \in Server, NEW d \in Datagram,
              Lose(s, t, d)
       PROVE  HereInv'
  BY <1>10, <1>13 DEF Lose, procVars, sessVars
<1>14. CASE UNCHANGED vars
  BY <1>10, <1>14 DEF vars, procVars, sessVars, envVars
<1> QED
  BY <1>2, <1>3, <1>4, <1>5, <1>6, <1>7, <1>8, <1>9, <1>11, <1>12, <1>13,
     <1>14
  DEF Next, Idle

(* Only a session that is asked for from elsewhere brings a server down.    *)
LEMMA StayersStep ==
  ASSUME TypeOK, TypeOK', StayInv, [Next]_vars
  PROVE  StayersAreSafe'
<1>1. HereInv /\ StayersAreSafe
  BY DEF StayInv
<1>2. ASSUME NEW n \in Node, ProcessLogin(n)
      PROVE  StayersAreSafe'
  <2>1. /\ died' = died \cup {n} /\ visited' = visited
        /\ dmsg[n].type = "login" /\ dmsg[n].id \in clientsMap[n]
    BY <1>2 DEF ProcessLogin, SyncClient, Found, envVars
  <2>2. dmsg[n].id \in ClientId
    BY <2>1 DEF TypeOK
  <2>3. n \in visited[dmsg[n].id] /\ visited[dmsg[n].id] # {n}
    BY <1>1, <2>1, <2>2 DEF HereInv
  <2> QED
    BY <1>1, <2>1, <2>2, <2>3 DEF StayersAreSafe
<1>3. ASSUME NEW n \in Node, NEW id \in ClientId, Login(n, id)
      PROVE  StayersAreSafe'
  <2>1. died' = died /\ visited' = [visited EXCEPT ![id] = @ \cup {n}]
    BY <1>3 DEF Login, procVars
  <2> SUFFICES ASSUME NEW m \in died
               PROVE  \E i \in ClientId :
                        m \in visited'[i] /\ visited'[i] # {m}
    BY <2>1 DEF StayersAreSafe
  <2>2. PICK i \in ClientId : m \in visited[i] /\ visited[i] # {m}
    BY <1>1 DEF StayersAreSafe
  <2>3. m \in visited'[i] /\ visited'[i] # {m}
    BY <2>1, <2>2 DEF TypeOK
  <2> QED
    BY <2>3
<1>4. ASSUME UNCHANGED <<died, visited>>
      PROVE  StayersAreSafe'
  BY <1>1, <1>4 DEF StayersAreSafe
<1>5. ASSUME NEW n \in Node,
             \/ \E id \in ClientId : Exit(n, id) \/ TakeAdd(n, id)
             \/ ProcessAdd(n) \/ IgnoreLogin(n) \/ ProcessInfo(n) \/ Restart(n)
             \/ \E s \in Server :
                  \/ \E id \in ClientId :
                       \/ RecvLogin(s, n, id) \/ RecvLast(s, n, id)
                       \/ \E i \in 1..Parts : RecvPart(s, n, id, i)
                  \/ \E d \in Datagram : Discard(s, n, d)
                  \/ GiveUp(n, s) \/ Heard(n, s)
             \/ \E p \in Peer, id \in ClientId :
                  PeerGives(n, p, id) \/ PeerIgnores(n, p, id)
      PROVE  StayersAreSafe'
  <2>1. UNCHANGED <<died, visited>>
    BY <1>5
    DEF Exit, TakeAdd, ProcessAdd, IgnoreLogin, ProcessInfo, Restart,
        RecvLogin, RecvPart, RecvLast, Discard, GiveUp, Heard, PeerGives,
        PeerIgnores, procVars, envVars
  <2> QED
    BY <1>4, <2>1
<1>6. ASSUME NEW s \in Server, NEW t \in Server, NEW d \in Datagram,
             Lose(s, t, d)
      PROVE  StayersAreSafe'
  BY <1>4, <1>6 DEF Lose, procVars
<1>7. CASE UNCHANGED vars
  BY <1>4, <1>7 DEF vars, procVars, envVars
<1> QED
  BY <1>2, <1>3, <1>5, <1>6, <1>7 DEF Next, Idle

(* No server is brought down unless a client with a session there logged in *)
(* at another one too, whatever is lost, given up or restarted.             *)
THEOREM StayersSafe == Spec => []StayersAreSafe
<1>1. TypeOK /\ TypeOK' /\ StayInv /\ [Next]_vars => StayInv'
  BY NoticeStep, HereStep, StayersStep DEF StayInv
<1>2. StayInv => StayersAreSafe
  BY DEF StayInv
<1> QED
  BY StayInit, ClusterLoginTypeCorrect, <1>1, <1>2, PTL DEF Spec

=============================================================================
