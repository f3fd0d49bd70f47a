------------------------- MODULE ClusterMoves_proofs -------------------------
(***************************************************************************)
(* Where sessions end up while no datagram is lost and no node is given up *)
(* (faults = 0), for clusters of any size and any number of logins: in one *)
(* place, in whatever order the datagrams arrive.                          *)
(***************************************************************************)
EXTENDS ClusterLogin_proofs, FiniteSetTheorems

-----------------------------------------------------------------------------
(* The inductive invariant.                                                 *)

\* Server t is to hear from s, or has just heard, that id logged in elsewhere.
Sent(s, t, id) == wire[<<s, t>>][Notice(id)] > 0
Asked(n, id)   == dmsg[n] = [type |-> "login", id |-> id]
Told(s, n, id) == Sent(s, n, id) \/ Asked(n, id)

\* Nodes tell every server, one that is down has nothing.
NodeInv ==
  \A n \in Node :
    /\ alive[n] = Server \ {n}
    /\ ~ up[n] => clientsMap[n] = {} /\ dmsg[n] = Nothing

\* Of two servers with a session of the same client one is being told.
PairInv ==
  /\ \A n, m \in Node : \A id \in clientsMap[n] \cap clientsMap[m] :
       n # m => Told(n, m, id) \/ Told(m, n, id)
  /\ \A n \in Node, p \in Peer : \A id \in clientsMap[n] \cap peerHas[p] :
       Sent(n, p, id)
  /\ \A p, q \in Peer : p # q => peerHas[p] \cap peerHas[q] = {}

HolderInv == faults = 0 => NodeInv /\ PairInv

-----------------------------------------------------------------------------
(* One place.                                                               *)

(* Faults are counted, so without one now there was none before.            *)
LEMMA FaultsGrow ==
  ASSUME TypeOK, [Next]_vars, faults' = 0
  PROVE  /\ faults = 0
         /\ ~ \E s, t \in Server, d \in Datagram : Lose(s, t, d)
         /\ ~ \E n \in Node, s \in Server : GiveUp(n, s)
<1>1. faults \in Nat
  BY ClusterLoginAssumption DEF TypeOK
<1>2. ASSUME NEW s \in Server, NEW t \in Server, NEW d \in Datagram
      PROVE ~ Lose(s, t, d)
  <2>1. Lose(s, t, d) => faults' = faults + 1
    BY DEF Lose
  <2> QED
    BY <1>1, <2>1
<1>3. ~ \E n \in Node, s \in Server : GiveUp(n, s)
  BY <1>1 DEF GiveUp
<1>4. ASSUME NEW n \in Node, NEW id \in ClientId,
             Login(n, id) \/ Exit(n, id) \/ TakeAdd(n, id)
      PROVE  faults' = faults
  BY <1>4 DEF Login, Exit, TakeAdd, envVars
<1>5. ASSUME NEW n \in Node,
             ProcessAdd(n) \/ ProcessLogin(n) \/ IgnoreLogin(n)
               \/ ProcessInfo(n) \/ Restart(n)
      PROVE  faults' = faults
  BY <1>5 DEF ProcessAdd, ProcessLogin, IgnoreLogin, ProcessInfo, Restart,
     envVars
<1>6. ASSUME NEW s \in Server, NEW n \in Node,
             \/ \E id \in ClientId :
                  \/ RecvLogin(s, n, id) \/ RecvLast(s, n, id)
                  \/ \E i \in 1..Parts : RecvPart(s, n, id, i)
             \/ \E d \in Datagram : Discard(s, n, d)
             \/ Heard(n, s)
      PROVE  faults' = faults
  BY <1>6 DEF RecvLogin, RecvPart, RecvLast, Discard, Heard, envVars
<1>7. ASSUME NEW n \in Node, NEW p \in Peer, NEW id \in ClientId,
             PeerGives(n, p, id) \/ PeerIgnores(n, p, id)
      PROVE  faults' = faults
  BY <1>7 DEF PeerGives, PeerIgnores, envVars
<1>8. CASE UNCHANGED vars
  BY <1>2, <1>3, <1>8 DEF vars, envVars
<1> QED
  BY <1>2, <1>3, <1>4, <1>5, <1>6, <1>7, <1>8 DEF Next, Idle

(* A notice stays on the wire until it is taken.                            *)
LEMMA SentTaken ==
  ASSUME TypeOK, NEW s \in Server, NEW n \in Server, NEW d \in Datagram,
         Take(s, n, d), NEW a \in Server, NEW b \in Server,
         NEW id \in ClientId, Sent(a, b, id)
  PROVE  \/ Sent(a, b, id)'
         \/ <<a, b>> = <<s, n>> /\ d = Notice(id)
<1>1. <<s, n>> \in Channel /\ <<a, b>> \in Channel /\ Notice(id) \in Datagram
  BY DEF Channel, Datagram
<1>2. wire \in [Channel -> [Datagram -> Nat]]
  BY DEF TypeOK
<1>3. wire' = [wire EXCEPT ![<<s, n>>] = [wire[<<s, n>>] EXCEPT ![d] = @ - 1]]
  BY DEF Take
<1>4. CASE <<a, b>> = <<s, n>> /\ d # Notice(id)
  <2>1. wire[<<s, n>>] \in [Datagram -> Nat]
    BY <1>1, <1>2
  <2>2. wire'[<<s, n>>] = [wire[<<s, n>>] EXCEPT ![d] = @ - 1]
    BY <1>1, <1>2, <1>3
  <2>3. wire'[<<s, n>>][Notice(id)] = wire[<<s, n>>][Notice(id)]
    BY <1>1, <1>4, <2>1, <2>2
  <2> QED
    BY <1>4, <2>3 DEF Sent
<1>5. CASE <<a, b>> # <<s, n>>
  <2>1. wire'[<<a, b>>] = wire[<<a, b>>]
    BY <1>1, <1>2, <1>3, <1>5
  <2> QED
    BY <2>1 DEF Sent
<1> QED
  BY <1>4, <1>5

(* ProcessAdd leaves what is on the wire and sends its notice to every live *)
(* node.                                                                    *)
LEMMA SentAnnounced ==
  ASSUME TypeOK, NEW n \in Node, NEW i \in ClientId, wire' = Announced(n, i),
         NEW a \in Server, NEW b \in Server
  PROVE  /\ \A id \in ClientId : Sent(a, b, id) => Sent(a, b, id)'
         /\ a = n /\ b \in alive[n] => Sent(a, b, i)'
<1>1. /\ <<a, b>> \in Channel
      /\ \A id \in ClientId : Notice(id) \in Datagram
  BY DEF Channel, Datagram
<1>2. wire[<<a, b>>] \in [Datagram -> Nat]
  BY <1>1 DEF TypeOK
<1>3. CASE a = n /\ b \in alive[n]
  <2>1. wire'[<<a, b>>] = [wire[<<a, b>>] EXCEPT ![Notice(i)] = @ + 1]
    BY <1>1, <1>3 DEF Announced
  <2>2. \A id \in ClientId :
          wire'[<<a, b>>][Notice(id)] =
            IF Notice(id) = Notice(i) THEN wire[<<a, b>>][Notice(id)] + 1
            ELSE wire[<<a, b>>][Notice(id)]
    BY <1>1, <1>2, <2>1
  <2>3. \A id \in ClientId : wire[<<a, b>>][Notice(id)] \in Nat
    BY <1>1, <1>2
  <2> QED
    BY <2>2, <2>3 DEF Sent
<1>4. CASE ~ (a = n /\ b \in alive[n])
  <2>1. wire'[<<a, b>>] = wire[<<a, b>>]
    BY <1>1, <1>4 DEF Announced
  <2> QED
    BY <1>4, <2>1 DEF Sent
<1> QED
  BY <1>3, <1>4

LEMMA HolderInit == Init => HolderInv
<1> SUFFICES ASSUME Init PROVE NodeInv /\ PairInv
  BY DEF HolderInv
<1>1. PICK at \in [Moved -> Peer] :
        peerHas = [p \in Peer |-> {id \in Moved : at[id] = p}]
  BY DEF Init
<1> QED
  BY <1>1 DEF Init, NodeInv, PairInv

LEMMA NodeStep ==
  ASSUME TypeOK, NodeInv, [Next]_vars, faults' = 0
  PROVE  NodeInv'
<1> USE DEF TypeOK, NodeInv
<1>1. ASSUME UNCHANGED <<alive, up, clientsMap, dmsg>>
      PROVE  NodeInv'
  BY <1>1
<1>2. ASSUME NEW n \in Node, NEW id \in ClientId, TakeAdd(n, id)
      PROVE  NodeInv'
  BY <1>2 DEF TakeAdd, Free, procVars, sessVars
<1>3. ASSUME NEW n \in Node, ProcessAdd(n)
      PROVE  NodeInv'
  BY <1>3 DEF ProcessAdd, procVars, Nothing
<1>4. ASSUME NEW n \in Node, ProcessLogin(n)
      PROVE  NodeInv'
  BY <1>4 DEF ProcessLogin, SyncClient, Fresh
<1>5. ASSUME NEW n \in Node, IgnoreLogin(n)
      PROVE  NodeInv'
  BY <1>5 DEF IgnoreLogin, procVars, sessVars
<1>6. ASSUME NEW n \in Node, ProcessInfo(n)
      PROVE  NodeInv'
  BY <1>6 DEF ProcessInfo, procVars
<1>7. ASSUME NEW n \in Node, Restart(n)
      PROVE  NodeInv'
  BY <1>7 DEF Restart, sessVars
<1>8. ASSUME NEW s \in Server, NEW n \in Node, NEW id \in ClientId,
             RecvLogin(s, n, id) \/ RecvLast(s, n, id)
      PROVE  NodeInv'
  <2>1. /\ up[n] /\ UNCHANGED <<up, alive, clientsMap>>
        /\ \A m \in Node \ {n} : dmsg'[m] = dmsg[m]
    BY <1>8 DEF RecvLogin, RecvLast, Free, procVars, sessVars
  <2> QED
    BY <2>1
<1>9. ASSUME NEW n \in Node,
             \/ \E id \in ClientId : Login(n, id) \/ Exit(n, id)
             \/ \E s \in Server, d \in Datagram : Discard(s, n, d)
             \/ \E s \in Server, id \in ClientId, i \in 1..Parts :
                  RecvPart(s, n, id, i)
             \/ \E p \in Peer, id \in ClientId :
                  PeerGives(n, p, id) \/ PeerIgnores(n, p, id)
      PROVE  NodeInv'
  <2>1. UNCHANGED <<alive, up, clientsMap, dmsg>>
    BY <1>9 DEF Login, Exit, RecvPart, Discard, PeerGives, PeerIgnores,
       procVars, sessVars
  <2> QED
    BY <1>1, <2>1
<1>10. ASSUME NEW n \in Node, NEW s \in Server, Heard(n, s)
       PROVE  NodeInv'
  BY <1>10 DEF Heard
<1>11. CASE UNCHANGED vars
  BY <1>1, <1>11 DEF vars, procVars, sessVars
<1> QED
  BY <1>2, <1>3, <1>4, <1>5, <1>6, <1>7, <1>8, <1>9, <1>10, <1>11, FaultsGrow
     DEF Next, Idle

(* While no session appears, a step may drop a notice or forget a request   *)
(* only where the session it is about is gone.                              *)
LEMMA PairKept ==
  ASSUME PairInv,
         \A n \in Node : clientsMap'[n] \subseteq clientsMap[n],
         \A p \in Peer : peerHas'[p] \subseteq peerHas[p],
         \A s, n \in Node : \A id \in clientsMap'[n] :
           Told(s, n, id) => Told(s, n, id)',
         \A n \in Node, p \in Peer : \A id \in peerHas'[p] :
           Sent(n, p, id) => Sent(n, p, id)'
  PROVE  PairInv'
<1>1. ASSUME NEW n \in Node, NEW m \in Node, n # m,
             NEW id \in clientsMap'[n] \cap clientsMap'[m]
      PROVE  Told(n, m, id)' \/ Told(m, n, id)'
  <2>1. Told(n, m, id) \/ Told(m, n, id)
    BY <1>1 DEF PairInv
  <2> QED
    BY <1>1, <2>1
<1>2. ASSUME NEW n \in Node, NEW p \in Peer,
             NEW id \in clientsMap'[n] \cap peerHas'[p]
      PROVE  Sent(n, p, id)'
  <2>1. Sent(n, p, id)
    BY <1>2 DEF PairInv
  <2> QED
    BY <1>2, <2>1
<1>3. ASSUME NEW p \in Peer, NEW q \in Peer, p # q
      PROVE  peerHas'[p] \cap peerHas'[q] = {}
  BY <1>3 DEF PairInv
<1> QED
  BY <1>1, <1>2, <1>3 DEF PairInv

(* A peer that gives a session away takes one notice and adds none.         *)
LEMMA PeerTook ==
  ASSUME TypeOK, NEW n \in Node, NEW p \in Peer, NEW id \in ClientId,
         PeerGives(n, p, id), NEW a \in Server, NEW b \in Server,
         NEW i \in ClientId, Sent(a, b, i)
  PROVE  Sent(a, b, i)' \/ (<<a, b>> = <<n, p>> /\ i = id)
<1> DEFINE rest == [wire EXCEPT ![<<n, p>>] =
                      [wire[<<n, p>>] EXCEPT ![Notice(id)] = @ - 1]]
<1>1. /\ <<n, p>> \in Channel /\ <<p, n>> \in Channel /\ <<a, b>> \in Channel
      /\ \A j \in ClientId : Notice(j) \in Datagram
  BY DEF Channel, Server, Datagram
<1>2. wire \in [Channel -> [Datagram -> Nat]]
  BY DEF TypeOK
<1>3. /\ wire[<<n, p>>] \in [Datagram -> Nat]
      /\ wire[<<n, p>>][Notice(id)] - 1 \in Nat
  BY <1>1, <1>2 DEF PeerGives, OnWay
<1>4. [wire[<<n, p>>] EXCEPT ![Notice(id)] = @ - 1] \in [Datagram -> Nat]
  BY <1>3
<1>5. rest \in [Channel -> [Datagram -> Nat]]
  BY <1>1, <1>2, <1>4, ChannelTypes
<1>6. wire' = WithSession(rest, <<p, n>>, id)
  BY DEF PeerGives
<1>7. <<a, b>> # <<n, p>> => rest[<<a, b>>] = wire[<<a, b>>]
  BY <1>1, <1>2
<1>8. rest[<<n, p>>] = [wire[<<n, p>>] EXCEPT ![Notice(id)] = @ - 1]
  BY <1>1, <1>2
<1>9. Notice(i) # Notice(id) =>
        rest[<<n, p>>][Notice(i)] = wire[<<n, p>>][Notice(i)]
  BY <1>1, <1>3, <1>8
<1> HIDE DEF rest
<1>10. wire'[<<a, b>>][Notice(i)] = rest[<<a, b>>][Notice(i)]
  BY <1>1, <1>5, <1>6, SessionTypes
<1>11. i # id => Notice(i) # Notice(id)
  BY DEF Notice
<1>12. CASE <<a, b>> # <<n, p>>
  BY <1>7, <1>10, <1>12 DEF Sent
<1>13. CASE <<a, b>> = <<n, p>> /\ i # id
  <2>1. wire'[<<a, b>>][Notice(i)] = wire[<<a, b>>][Notice(i)]
    BY <1>9, <1>10, <1>11, <1>13
  <2> QED
    BY <2>1 DEF Sent
<1> QED
  BY <1>12, <1>13

(* Of two servers that have a session of one client, one is being told: the *)
(* later login sends the notice, and taking it costs the taker its session. *)
LEMMA PairStep ==
  ASSUME TypeOK, NodeInv, PairInv, [Next]_vars, faults' = 0
  PROVE  PairInv'
<1> USE ClusterLoginAssumption
<1>1. ASSUME UNCHANGED <<clientsMap, peerHas, wire>>,
             \A n \in Node : \A id \in ClientId : Asked(n, id) => Asked(n, id)'
      PROVE  PairInv'
  <2>1. \A s \in Server, n \in Server : \A id \in ClientId :
          Sent(s, n, id) => Sent(s, n, id)'
    BY <1>1 DEF Sent
  <2>2. /\ \A n \in Node : clientsMap[n] \subseteq ClientId
        /\ \A p \in Peer : peerHas[p] \subseteq ClientId
    BY DEF TypeOK
  <2> QED
    BY <1>1, <2>1, <2>2, PairKept DEF Told, Server
<1>2. ASSUME NEW n \in Node, NEW id \in ClientId,
             Login(n, id) \/ Exit(n, id) \/ TakeAdd(n, id)
      PROVE  PairInv'
  <2>1. UNCHANGED <<clientsMap, peerHas, wire>>
    BY <1>2 DEF Login, Exit, TakeAdd, sessVars, envVars
  <2>2. \A m \in Node : dmsg[m] # Nothing => dmsg'[m] = dmsg[m]
    BY <1>2 DEF Login, Exit, TakeAdd, Free, TypeOK
  <2> QED
    BY <1>1, <2>1, <2>2 DEF Asked, Nothing
<1>3. ASSUME NEW n \in Node, ProcessInfo(n) \/ Restart(n)
      PROVE  PairInv'
  <2>1. UNCHANGED <<clientsMap, peerHas, wire>>
    BY <1>3 DEF ProcessInfo, Restart, sessVars, envVars
  <2>2. \A m \in Node : dmsg[m].type = "login" => dmsg'[m] = dmsg[m]
    BY <1>3 DEF ProcessInfo, Restart, TypeOK
  <2> QED
    BY <1>1, <2>1, <2>2 DEF Asked
<1>4. ASSUME NEW n \in Node, ProcessLogin(n) \/ IgnoreLogin(n)
      PROVE  PairInv'
  <2>1. /\ \A m \in Node \ {n} : /\ clientsMap'[m] = clientsMap[m]
                                 /\ dmsg'[m] = dmsg[m]
        /\ clientsMap'[n] \subseteq clientsMap[n]
        /\ dmsg[n].id \notin clientsMap'[n]
        /\ UNCHANGED <<peerHas, wire>>
    BY <1>4 DEF ProcessLogin, SyncClient, Fresh, IgnoreLogin, Found, sessVars,
       envVars, TypeOK
  <2>2. \A s, m \in Server : \A id : Sent(s, m, id) => Sent(s, m, id)'
    BY <2>1 DEF Sent
  <2>3. \A m \in Node : \A id \in clientsMap'[m] :
          Asked(m, id) => Asked(m, id)'
    BY <2>1 DEF Asked
  <2>4. \A s, m \in Node : \A id \in clientsMap'[m] :
          Told(s, m, id) => Told(s, m, id)'
    BY <2>2, <2>3 DEF Told, Server
  <2>5. \A s \in Node, p \in Peer : \A id \in peerHas'[p] :
          Sent(s, p, id) => Sent(s, p, id)'
    BY <2>2 DEF Server
  <2>6. \A m \in Node : clientsMap'[m] \subseteq clientsMap[m]
    BY <2>1
  <2> QED
    BY <2>1, <2>4, <2>5, <2>6, PairKept
<1>5. ASSUME NEW s \in Server, NEW n \in Server, NEW d \in Datagram,
             Take(s, n, d), UNCHANGED <<clientsMap, peerHas>>,
             \A m \in Node, id \in ClientId : Asked(m, id) => Asked(m, id)',
             \A id \in ClientId : d = Notice(id) =>
               /\ n \in Node /\ id \in clientsMap'[n] => Asked(n, id)'
               /\ n \in Peer => id \notin peerHas'[n]
      PROVE  PairInv'
  <2>1. ASSUME NEW a \in Node, NEW m \in Node, NEW id \in clientsMap'[m],
               Told(a, m, id)
        PROVE  Told(a, m, id)'
    <3>1. a \in Server /\ m \in Server /\ id \in ClientId
      BY <1>5 DEF Server, TypeOK
    <3>2. CASE Asked(m, id)
      BY <1>5, <3>1, <3>2 DEF Told
    <3>3. CASE Sent(a, m, id)
      <4>1. \/ Sent(a, m, id)'
            \/ <<a, m>> = <<s, n>> /\ d = Notice(id)
        BY <1>5, <3>1, <3>3, SentTaken
      <4> QED
        BY <1>5, <2>1, <3>1, <4>1 DEF Told
    <3> QED
      BY <2>1, <3>2, <3>3 DEF Told
  <2>2. ASSUME NEW a \in Node, NEW p \in Peer, NEW id \in peerHas'[p],
               Sent(a, p, id)
        PROVE  Sent(a, p, id)'
    <3>1. a \in Server /\ p \in Server /\ id \in ClientId
      BY <1>5 DEF Server, TypeOK
    <3>2. Sent(a, p, id) /\ Take(s, n, d)
      BY <1>5, <2>2
    <3>3. Sent(a, p, id)' \/ (<<a, p>> = <<s, n>> /\ d = Notice(id))
      BY <3>1, <3>2, SentTaken
    <3> QED
      BY <1>5, <2>2, <3>1, <3>3
  <2> QED
    BY <1>5, <2>1, <2>2, PairKept
<1>6. ASSUME NEW s \in Server, NEW n \in Node, NEW id \in ClientId,
             \/ RecvLogin(s, n, id) \/ RecvLast(s, n, id)
             \/ \E i \in 1..Parts : RecvPart(s, n, id, i)
      PROVE  PairInv'
  <2>1. n \in Server /\ n \notin Peer /\ Notice(id) \in Datagram
    BY DEF Server, Datagram
  <2>2. /\ UNCHANGED <<clientsMap, peerHas>>
        /\ \A m \in Node : dmsg[m] # Nothing => dmsg'[m] = dmsg[m]
    BY <1>6 DEF RecvPart, RecvLast, RecvLogin, Free, sessVars, envVars, TypeOK
  <2>3. \A m \in Node, j \in ClientId : Asked(m, j) => Asked(m, j)'
    BY <2>2 DEF Asked, Nothing
  <2>4. CASE RecvLogin(s, n, id)
    <3>1. Take(s, n, Notice(id)) /\ Asked(n, id)'
      BY <2>4 DEF RecvLogin, Asked, TypeOK
    <3>2. \A j \in ClientId : Notice(id) = Notice(j) => j = id
      BY DEF Notice
    <3> QED
      BY <1>5, <2>1, <2>2, <2>3, <3>1, <3>2
  <2>5. CASE RecvLast(s, n, id) \/ \E i \in 1..Parts : RecvPart(s, n, id, i)
    <3>1. PICK i \in 1..Parts : Take(s, n, Info(id, i))
      BY <2>5 DEF RecvLast, RecvPart
    <3>2. Info(id, i) \in Datagram
      BY DEF Datagram
    <3>3. \A j \in ClientId : Info(id, i) # Notice(j)
      BY DEF Info, Notice
    <3> QED
      BY <1>5, <2>1, <2>2, <2>3, <3>1, <3>2, <3>3
  <2> QED
    BY <1>6, <2>4, <2>5
<1>7. ASSUME NEW s \in Server, NEW n \in Node, NEW d \in Datagram,
             Discard(s, n, d)
      PROVE  PairInv'
  <2>1. /\ Take(s, n, d) /\ n \in Server /\ n \notin Peer
        /\ UNCHANGED <<clientsMap, peerHas, dmsg>>
        /\ clientsMap'[n] = {}
    BY <1>7 DEF Discard, sessVars, envVars, NodeInv, Server
  <2> QED
    BY <1>5, <2>1 DEF Asked
<1>8. ASSUME NEW n \in Node, NEW p \in Peer, NEW i \in ClientId,
             PeerGives(n, p, i)
      PROVE  PairInv'
  <2>1. /\ UNCHANGED <<clientsMap, dmsg>>
        /\ peerHas' = [peerHas EXCEPT ![p] = @ \ {i}]
    BY <1>8 DEF PeerGives, sessVars
  <2>2. ASSUME NEW a \in Node, NEW b \in Server, NEW id \in ClientId,
               Sent(a, b, id)
        PROVE  Sent(a, b, id)' \/ (b = p /\ id = i)
    BY <1>8, <2>2, PeerTook DEF Server
  <2>3. /\ \A m \in Node : clientsMap'[m] \subseteq ClientId
        /\ \A q \in Peer : peerHas'[q] \subseteq ClientId
    BY <2>1 DEF TypeOK
  <2>4. \A a, m \in Node : \A id \in clientsMap'[m] :
          Told(a, m, id) => Told(a, m, id)'
    <3>1. \A m \in Node : m # p /\ m \in Server
      BY DEF Server
    <3> QED
      BY <2>1, <2>2, <2>3, <3>1 DEF Told, Asked
  <2>5. \A a \in Node, q \in Peer : \A id \in peerHas'[q] :
          Sent(a, q, id) => Sent(a, q, id)'
    <3>1. i \notin peerHas'[p]
      BY <2>1 DEF TypeOK
    <3> QED
      BY <2>2, <2>3, <3>1 DEF Server
  <2>6. /\ \A m \in Node : clientsMap'[m] \subseteq clientsMap[m]
        /\ \A q \in Peer : peerHas'[q] \subseteq peerHas[q]
    BY <2>1 DEF TypeOK
  <2> QED
    BY <2>4, <2>5, <2>6, PairKept
<1>9. ASSUME NEW n \in Node, NEW p \in Peer, NEW id \in ClientId,
              PeerIgnores(n, p, id)
       PROVE  PairInv'
  <2>1. /\ Take(n, p, Notice(id)) /\ n \in Server /\ p \in Server
        /\ p \notin Node /\ Notice(id) \in Datagram
        /\ UNCHANGED <<clientsMap, peerHas, dmsg>>
        /\ id \notin peerHas'[p]
    BY <1>9 DEF PeerIgnores, sessVars, envVars, Server, Datagram
  <2>2. \A j \in ClientId : Notice(id) = Notice(j) => j = id
    BY DEF Notice
  <2> QED
    BY <1>5, <2>1, <2>2 DEF Asked
<1>10. ASSUME NEW n \in Node, NEW s \in Server, Heard(n, s)
       PROVE  PairInv'
  BY <1>1, <1>10 DEF Heard, sessVars, envVars, Asked
<1>11. ASSUME NEW n \in Node, ProcessAdd(n), NEW i \in ClientId, i = dmsg[n].id
      PROVE  PairInv'
  <2>1. /\ clientsMap' = [clientsMap EXCEPT ![n] = @ \cup {i}]
        /\ wire' = Announced(n, i) /\ UNCHANGED peerHas
        /\ \A m \in Node : dmsg[m].type = "login" => dmsg'[m] = dmsg[m]
    BY <1>11 DEF ProcessAdd, envVars, TypeOK
  <2>2. \A a, b \in Server, id \in ClientId :
          Sent(a, b, id) => Sent(a, b, id)'
    <3>1. ASSUME NEW a \in Server, NEW b \in Server
          PROVE  \A id \in ClientId : Sent(a, b, id) => Sent(a, b, id)'
      BY <2>1, SentAnnounced
    <3> QED
      BY <3>1
  <2>3. \A b \in Server \ {n} : Sent(n, b, i)'
    <3>1. n \in Server /\ alive[n] = Server \ {n}
      BY DEF NodeInv, Server
    <3>2. ASSUME NEW b \in Server \ {n} PROVE Sent(n, b, i)'
      BY <2>1, <3>1, SentAnnounced
    <3> QED
      BY <3>2
  <2>4. \A a, m \in Node : \A id \in ClientId :
          Told(a, m, id) => Told(a, m, id)'
    <3>1. \A m \in Node, id \in ClientId : Asked(m, id) => Asked(m, id)'
      BY <2>1 DEF Asked
    <3> QED
      BY <2>2, <3>1 DEF Told, Server
  <2>5. ASSUME NEW a \in Node, NEW m \in Node, a # m,
               NEW id \in clientsMap'[a] \cap clientsMap'[m]
        PROVE  Told(a, m, id)' \/ Told(m, a, id)'
    <3>1. a \in Server /\ m \in Server /\ id \in ClientId
      BY <2>1 DEF Server, TypeOK
    <3>2. CASE id = i /\ (a = n \/ m = n)
      BY <2>3, <2>5, <3>1, <3>2 DEF Told
    <3>3. CASE ~ (id = i /\ (a = n \/ m = n))
      <4>1. id \in clientsMap[a] \cap clientsMap[m]
        BY <2>1, <2>5, <3>3 DEF TypeOK
      <4>2. Told(a, m, id) \/ Told(m, a, id)
        BY <2>5, <4>1 DEF PairInv
      <4> QED
        BY <2>4, <3>1, <4>2
    <3> QED
      BY <3>2, <3>3
  <2>6. ASSUME NEW a \in Node, NEW p \in Peer,
               NEW id \in clientsMap'[a] \cap peerHas'[p]
        PROVE  Sent(a, p, id)'
    <3>1. a \in Server /\ p \in Server /\ a # p /\ id \in ClientId
      BY <2>1 DEF Server, TypeOK
    <3>2. CASE id = i /\ a = n
      BY <2>3, <3>1, <3>2
    <3>3. CASE ~ (id = i /\ a = n)
      <4>1. id \in clientsMap[a] \cap peerHas[p]
        BY <2>1, <2>6, <3>3 DEF TypeOK
      <4> QED
        BY <2>2, <3>1, <4>1 DEF PairInv
    <3> QED
      BY <3>2, <3>3
  <2>7. \A p, q \in Peer : p # q => peerHas'[p] \cap peerHas'[q] = {}
    BY <2>1 DEF PairInv
  <2> QED
    BY <2>5, <2>6, <2>7 DEF PairInv
<1>12. CASE UNCHANGED vars
  BY <1>1, <1>12 DEF vars, sessVars, envVars, Asked
<1>13. ASSUME NEW n \in Node, ProcessAdd(n)
       PROVE  dmsg[n].id \in ClientId
  BY <1>13 DEF ProcessAdd, TypeOK, Dispatch, Nothing
<1> QED
  BY <1>2, <1>3, <1>4, <1>6, <1>7, <1>8, <1>9, <1>10, <1>11, <1>12, <1>13,
     FaultsGrow
     DEF Next, Idle

(* Once things have settled a client has its session in one place at most,  *)
(* however many servers it logged in at and however those logins overlap.   *)
THEOREM OnePlace == Spec => []OneHolder
<1>1. TypeOK /\ HolderInv /\ [Next]_vars => HolderInv'
  BY FaultsGrow, NodeStep, PairStep DEF HolderInv
<1>2. TypeOK /\ HolderInv => OneHolder
  <2> SUFFICES ASSUME TypeOK, HolderInv, Quiet, faults = 0, NEW id \in ClientId
               PROVE  Cardinality(Holders(id)) <= 1
    BY DEF OneHolder
  <2>1. \A s, t \in Server : ~ Sent(s, t, id)
    BY DEF Quiet, Sent, OnWay, Channel, Datagram
  <2>2. \A n \in Node : ~ Asked(n, id)
    BY DEF Quiet, Asked, Nothing
  <2>3. \A s, t \in Holders(id) : s = t
    BY <2>1, <2>2 DEF HolderInv, PairInv, Told, Holders, Server
  <2>4. CASE Holders(id) = {}
    BY <2>4, FS_EmptySet
  <2>5. CASE Holders(id) # {}
    <3>1. PICK s \in Holders(id) : TRUE
      BY <2>5
    <3>2. Holders(id) = {s}
      BY <2>3, <3>1
    <3> QED
      BY <3>2, FS_Singleton
  <2> QED
    BY <2>4, <2>5
<1> QED
  BY HolderInit, ClusterLoginTypeCorrect, <1>1, <1>2, PTL DEF Spec

=============================================================================
