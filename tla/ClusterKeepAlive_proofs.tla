---------------------- MODULE ClusterKeepAlive_proofs ----------------------
(***************************************************************************)
(* What the counters of ClusterKeepAlive mean, for any cluster, any        *)
(* periods, any traffic, any losses and crashes.                           *)
(***************************************************************************)
EXTENDS ClusterKeepAlive, TLAPS, WellFoundedInduction

\* A counter is the time allowed less the seconds and messages since.
AgeOf(s, n) ==
  KeepAliveTimeOut[s][n] =
    IF silent[s][n] + talk[s][n] < KeepAlive
    THEN KeepAlive - (silent[s][n] + talk[s][n]) ELSE 0

AgeInv == \A s \in Server : \A n \in Peers(s) : AgeOf(s, n)

KeepAliveInv == TypeOK /\ AgeInv

-----------------------------------------------------------------------------
(* The part of the assumption that arithmetic needs.                        *)
LEMMA Periods ==
  /\ KeepAlive \in Nat \ {0} /\ HeartPeriod \in Nat \ {0}
  /\ MaxTraffic \in Nat /\ MaxLosses \in Nat /\ MaxCrashes \in Nat
  BY ClusterKeepAliveAssumption

(* The first alive node, which Beat chooses, exists.                        *)
LEMMA SmallestExists ==
  ASSUME NEW S \in SUBSET Nat, S # {}
  PROVE  \E i \in S : \A j \in S : i <= j
<1> DEFINE Less == OpToRel(<, Nat)
<1>1. IsWellFoundedOn(Less, Nat)
  BY NatLessThanWellFounded, Zenon
<1>2. PICK i \in S : \A j \in S : ~ (<<j, i>> \in Less)
  <2> HIDE DEF Less
  <2> QED
    BY <1>1, WFMin
<1>3. \A j \in S : ~ (j < i)
  BY <1>2 DEF OpToRel
<1> QED
  BY <1>3

(* One call of KeepAliveTimeEscape1Sec per node of the list takes one off   *)
(* every counter of s that is not 0, and leaves the other servers alone.    *)
LEMMA EscapeCounts ==
  ASSUME TypeOK, NEW s \in Server, Escape(s)
  PROVE  /\ DOMAIN KeepAliveTimeOut' = Server
         /\ \A t \in Server \ {s} : KeepAliveTimeOut'[t] = KeepAliveTimeOut[t]
         /\ KeepAliveTimeOut'[s] \in [Peers(s) -> 0..KeepAlive]
         /\ \A n \in Peers(s) :
              KeepAliveTimeOut'[s][n] =
                KeepAliveTimeEscape1Sec(KeepAliveTimeOut[s][n])
  BY ClusterKeepAliveAssumption
     DEF TypeOK, Escape, KeepAliveTimeEscape1Sec

(* The steps that ask every node for its state: a second and a message.     *)
LEMMA AgeingStep ==
  ASSUME KeepAliveInv, NEW s \in Server, Tick(s) \/ Publish(s)
  PROVE  KeepAliveInv'
<1> USE Periods
<1>0. TypeOK /\ AgeInv /\ Escape(s)
  BY DEF KeepAliveInv, Tick, Publish
<1>1. /\ DOMAIN KeepAliveTimeOut' = Server
      /\ \A t \in Server \ {s} : KeepAliveTimeOut'[t] = KeepAliveTimeOut[t]
      /\ KeepAliveTimeOut'[s] \in [Peers(s) -> 0..KeepAlive]
      /\ \A n \in Peers(s) :
           KeepAliveTimeOut'[s][n] =
             KeepAliveTimeEscape1Sec(KeepAliveTimeOut[s][n])
  BY <1>0, EscapeCounts
<1>2. CASE Tick(s)
  <2>1. /\ DOMAIN silent' = Server /\ talk' = talk
        /\ \A t \in Server \ {s} : silent'[t] = silent[t]
        /\ silent'[s] \in [Peers(s) -> 0..KeepAlive]
        /\ \A n \in Peers(s) :
             silent'[s][n] = IF silent[s][n] < KeepAlive
                             THEN silent[s][n] + 1 ELSE silent[s][n]
    BY <1>0, <1>2 DEF TypeOK, Tick
  <2>2. hearts' \subseteq Server \X Server
    <3>1. hearts' = hearts \/ \E i \in DOMAIN Nodes[s] :
                                hearts' = hearts \cup {<<s, Nodes[s][i]>>}
      <4>1. CASE Alive(s) = {}
        BY <1>2, <4>1 DEF Tick, Beat
      <4>2. CASE Alive(s) # {}
        <5>1. /\ Alive(s) \subseteq DOMAIN Nodes[s]
              /\ DOMAIN Nodes[s] \subseteq Nat
          BY ClusterKeepAliveAssumption DEF Alive
        <5>2. PICK i \in Alive(s) : \A j \in Alive(s) : i <= j
          BY <4>2, <5>1, SmallestExists
        <5> QED
          BY <1>2, <5>1, <5>2 DEF Tick, Beat
      <4> QED
        BY <4>1, <4>2
    <3>2. \A i \in DOMAIN Nodes[s] : Nodes[s][i] \in Server
      BY ClusterKeepAliveAssumption
    <3> QED
      BY <1>0, <3>1, <3>2 DEF TypeOK
  <2>3. timeEscape1S' \in [Server -> 0..(HeartPeriod + 1)]
    BY <1>0, <1>2 DEF TypeOK, Tick, Beat
  <2>4. /\ ticked' = ticked \cup {s}
        /\ UNCHANGED <<up, losses, crashes>>
    BY <1>2 DEF Tick
  <2>5. TypeOK'
    BY <1>0, <1>1, <2>1, <2>2, <2>3, <2>4 DEF TypeOK
  <2>6. AgeInv'
    <3> SUFFICES ASSUME NEW t \in Server, NEW n \in Peers(t)
                 PROVE  AgeOf(t, n)'
      BY DEF AgeInv
    <3>1. AgeOf(t, n) /\ KeepAliveTimeOut[t][n] \in 0..KeepAlive
          /\ silent[t][n] \in 0..KeepAlive /\ talk[t][n] \in 0..MaxTraffic
      BY <1>0 DEF TypeOK, AgeInv
    <3>2. CASE t = s
      <4> n \in Peers(s)
        BY <3>2
      <4>1. /\ KeepAliveTimeOut'[s][n] =
                 KeepAliveTimeEscape1Sec(KeepAliveTimeOut[s][n])
            /\ silent'[s][n] = IF silent[s][n] < KeepAlive
                               THEN silent[s][n] + 1 ELSE silent[s][n]
            /\ talk'[s][n] = talk[s][n]
        BY <1>1, <2>1
      <4>2. AgeOf(s, n) /\ KeepAliveTimeOut[s][n] \in 0..KeepAlive
            /\ silent[s][n] \in 0..KeepAlive /\ talk[s][n] \in 0..MaxTraffic
        BY <3>1, <3>2
      <4>3. AgeOf(s, n)'
        BY <4>1, <4>2 DEF AgeOf, KeepAliveTimeEscape1Sec
      <4> QED
        BY <3>2, <4>3
    <3>3. CASE t # s
      BY <1>1, <2>1, <3>1, <3>3 DEF AgeOf
    <3> QED
      BY <3>2, <3>3
  <2> QED
    BY <2>5, <2>6 DEF KeepAliveInv
<1>3. CASE Publish(s)
  <2>1. /\ DOMAIN talk' = Server /\ silent' = silent
        /\ \A t \in Server \ {s} : talk'[t] = talk[t]
        /\ talk'[s] \in [Peers(s) -> 0..MaxTraffic]
        /\ \A n \in Peers(s) : talk'[s][n] = talk[s][n] + 1
    BY <1>0, <1>3 DEF TypeOK, Publish
  <2>2. UNCHANGED <<up, timeEscape1S, hearts, ticked, losses, crashes>>
    BY <1>3 DEF Publish
  <2>3. TypeOK'
    BY <1>0, <1>1, <2>1, <2>2 DEF TypeOK
  <2>4. AgeInv'
    <3> SUFFICES ASSUME NEW t \in Server, NEW n \in Peers(t)
                 PROVE  AgeOf(t, n)'
      BY DEF AgeInv
    <3>1. AgeOf(t, n) /\ KeepAliveTimeOut[t][n] \in 0..KeepAlive
          /\ silent[t][n] \in 0..KeepAlive /\ talk[t][n] \in 0..MaxTraffic
      BY <1>0 DEF TypeOK, AgeInv
    <3>2. CASE t = s
      <4> n \in Peers(s)
        BY <3>2
      <4>1. /\ KeepAliveTimeOut'[s][n] =
                 KeepAliveTimeEscape1Sec(KeepAliveTimeOut[s][n])
            /\ silent'[s][n] = silent[s][n]
            /\ talk'[s][n] = talk[s][n] + 1
        BY <1>1, <2>1
      <4>2. AgeOf(s, n) /\ KeepAliveTimeOut[s][n] \in 0..KeepAlive
            /\ silent[s][n] \in 0..KeepAlive /\ talk[s][n] \in 0..MaxTraffic
        BY <3>1, <3>2
      <4>3. AgeOf(s, n)'
        BY <4>1, <4>2 DEF AgeOf, KeepAliveTimeEscape1Sec
      <4> QED
        BY <3>2, <4>3
    <3>3. CASE t # s
      BY <1>1, <2>1, <3>1, <3>3 DEF AgeOf
    <3> QED
      BY <3>2, <3>3
  <2> QED
    BY <2>3, <2>4 DEF KeepAliveInv
<1> QED
  BY <1>2, <1>3

(* A heartbeat sets counter and history of its sender back together.        *)
LEMMA DeliverStep ==
  ASSUME KeepAliveInv, NEW from \in Server, NEW to \in Server,
         Deliver(from, to)
  PROVE  KeepAliveInv'
<1> USE Periods
<1>0. TypeOK /\ AgeInv
  BY DEF KeepAliveInv
<1>1. /\ hearts' \subseteq Server \X Server
      /\ UNCHANGED <<up, timeEscape1S, ticked, losses, crashes>>
  BY <1>0 DEF TypeOK, Deliver
<1>2. CASE up[to] /\ from \in Peers(to)
  <2>1. /\ DOMAIN KeepAliveTimeOut' = Server
        /\ KeepAliveTimeOut'[to] =
             [KeepAliveTimeOut[to] EXCEPT ![from] = KeepAlive]
        /\ \A t \in Server \ {to} :
             KeepAliveTimeOut'[t] = KeepAliveTimeOut[t]
    BY <1>0, <1>2 DEF TypeOK, Deliver, Heard
  <2>2. /\ DOMAIN silent' = Server
        /\ silent'[to] = [silent[to] EXCEPT ![from] = 0]
        /\ \A t \in Server \ {to} : silent'[t] = silent[t]
    BY <1>0, <1>2 DEF TypeOK, Deliver
  <2>3. /\ DOMAIN talk' = Server
        /\ talk'[to] = [talk[to] EXCEPT ![from] = 0]
        /\ \A t \in Server \ {to} : talk'[t] = talk[t]
    BY <1>0, <1>2 DEF TypeOK, Deliver
  <2>4. ASSUME NEW t \in Server
        PROVE  /\ KeepAliveTimeOut'[t] \in [Peers(t) -> 0..KeepAlive]
               /\ silent'[t] \in [Peers(t) -> 0..KeepAlive]
               /\ talk'[t] \in [Peers(t) -> 0..MaxTraffic]
    <3>1. /\ KeepAliveTimeOut[t] \in [Peers(t) -> 0..KeepAlive]
          /\ silent[t] \in [Peers(t) -> 0..KeepAlive]
          /\ talk[t] \in [Peers(t) -> 0..MaxTraffic]
      BY <1>0 DEF TypeOK
    <3>2. KeepAlive \in 0..KeepAlive /\ 0 \in 0..KeepAlive
          /\ 0 \in 0..MaxTraffic
      OBVIOUS
    <3>3. CASE t = to
      <4>1. /\ [KeepAliveTimeOut[t] EXCEPT ![from] = KeepAlive]
                 \in [Peers(t) -> 0..KeepAlive]
            /\ [silent[t] EXCEPT ![from] = 0] \in [Peers(t) -> 0..KeepAlive]
            /\ [talk[t] EXCEPT ![from] = 0] \in [Peers(t) -> 0..MaxTraffic]
        BY <3>1, <3>2
      <4> QED
        BY <2>1, <2>2, <2>3, <3>3, <4>1
    <3>4. CASE t # to
      BY <2>1, <2>2, <2>3, <3>1, <3>4
    <3> QED
      BY <3>3, <3>4
  <2>5. TypeOK'
    BY <1>0, <1>1, <2>1, <2>2, <2>3, <2>4 DEF TypeOK
  <2>6. AgeInv'
    <3> SUFFICES ASSUME NEW t \in Server, NEW n \in Peers(t)
                 PROVE  AgeOf(t, n)'
      BY DEF AgeInv
    <3>1. AgeOf(t, n) /\ n \in DOMAIN KeepAliveTimeOut[t]
          /\ n \in DOMAIN silent[t] /\ n \in DOMAIN talk[t]
      BY <1>0 DEF TypeOK, AgeInv
    <3>2. CASE t = to /\ n = from
      <4>1. /\ KeepAliveTimeOut'[t][n] = KeepAlive
            /\ silent'[t][n] = 0 /\ talk'[t][n] = 0
        BY <2>1, <2>2, <2>3, <3>1, <3>2
      <4> QED
        BY <4>1 DEF AgeOf
    <3>3. CASE t = to /\ n # from
      <4>1. /\ KeepAliveTimeOut'[t][n] = KeepAliveTimeOut[t][n]
            /\ silent'[t][n] = silent[t][n] /\ talk'[t][n] = talk[t][n]
        BY <2>1, <2>2, <2>3, <3>1, <3>3
      <4> QED
        BY <3>1, <4>1 DEF AgeOf
    <3>4. CASE t # to
      BY <2>1, <2>2, <2>3, <3>1, <3>4 DEF AgeOf
    <3> QED
      BY <3>2, <3>3, <3>4
  <2> QED
    BY <2>5, <2>6 DEF KeepAliveInv
<1>3. CASE ~ (up[to] /\ from \in Peers(to))
  <2>1. UNCHANGED <<KeepAliveTimeOut, silent, talk>>
    BY <1>3 DEF Deliver
  <2>2. TypeOK'
    BY <1>0, <1>1, <2>1 DEF TypeOK
  <2>3. AgeInv'
    BY <1>0, <2>1 DEF AgeInv, AgeOf
  <2> QED
    BY <2>2, <2>3 DEF KeepAliveInv
<1> QED
  BY <1>2, <1>3

(* Seconds that begin, crashes and lost heartbeats leave the counters.      *)
LEMMA OtherStep ==
  ASSUME KeepAliveInv,
         \/ NextSecond
         \/ \E s \in Server : Crash(s)
         \/ \E from, to \in Server : Lose(from, to)
         \/ UNCHANGED vars
  PROVE  KeepAliveInv'
<1> USE Periods
<1>1. UNCHANGED counters
  BY DEF NextSecond, Crash, Lose, vars
<1> DEFINE OthersOK == /\ up \in [Server -> BOOLEAN]
                       /\ hearts \subseteq Server \X Server
                       /\ ticked \subseteq Server
                       /\ losses \in 0..MaxLosses
                       /\ crashes \in 0..MaxCrashes
<1>2. OthersOK'
  <2>1. ASSUME NextSecond PROVE OthersOK'
    BY <2>1 DEF KeepAliveInv, TypeOK, NextSecond
  <2>2. ASSUME NEW s \in Server, Crash(s) PROVE OthersOK'
    BY <2>2 DEF KeepAliveInv, TypeOK, Crash
  <2>3. ASSUME NEW from \in Server, NEW to \in Server, Lose(from, to)
        PROVE  OthersOK'
    BY <2>3 DEF KeepAliveInv, TypeOK, Lose
  <2>4. ASSUME UNCHANGED vars PROVE OthersOK'
    BY <2>4 DEF KeepAliveInv, TypeOK, vars
  <2> QED
    BY <2>1, <2>2, <2>3, <2>4
<1> QED
  BY <1>1, <1>2 DEF KeepAliveInv, TypeOK, AgeInv, AgeOf, counters

(* A restarted server grants every node of its list the full time again.    *)
LEMMA RestartStep ==
  ASSUME KeepAliveInv, NEW s \in Server, Restart(s)
  PROVE  KeepAliveInv'
  BY ClusterKeepAliveAssumption
     DEF KeepAliveInv, TypeOK, AgeInv, AgeOf, Restart, Fresh, Zero

(* The counters always are what AgeInv says.                                *)
THEOREM CountersAreAges == Spec => []KeepAliveInv
<1>1. Init => KeepAliveInv
  BY ClusterKeepAliveAssumption
     DEF Init, KeepAliveInv, TypeOK, AgeInv, AgeOf, Fresh, Zero
<1>2. KeepAliveInv /\ [Next]_vars => KeepAliveInv'
  <2> SUFFICES ASSUME KeepAliveInv, [Next]_vars PROVE KeepAliveInv'
    OBVIOUS
  <2>1. ASSUME NEW s \in Server, Tick(s) \/ Publish(s) PROVE KeepAliveInv'
    BY <2>1, AgeingStep
  <2>2. ASSUME NEW s \in Server, Restart(s) PROVE KeepAliveInv'
    BY <2>2, RestartStep
  <2>3. ASSUME NEW from \in Server, NEW to \in Server, Deliver(from, to)
        PROVE  KeepAliveInv'
    BY <2>3, DeliverStep
  <2>4. ASSUME \/ NextSecond
               \/ \E s \in Server : Crash(s)
               \/ \E from, to \in Server : Lose(from, to)
               \/ UNCHANGED vars
        PROVE  KeepAliveInv'
    BY <2>4, OtherStep
  <2> QED
    BY <2>1, <2>2, <2>3, <2>4 DEF Next
<1> QED
  BY <1>1, <1>2, PTL DEF Spec

(* Every variable keeps its type; the int8 counters stay within 0..60.      *)
THEOREM KeepAliveTypeCorrect == Spec => []TypeOK
<1>1. KeepAliveInv => TypeOK
  BY DEF KeepAliveInv
<1> QED
  BY <1>1, CountersAreAges, PTL

(* A silent node is given up after KeepAlive seconds, come what may.        *)
THEOREM SilenceDetection == Spec => []SilenceIsDetected
<1>1. KeepAliveInv => SilenceIsDetected
  BY ClusterKeepAliveAssumption
     DEF KeepAliveInv, TypeOK, AgeInv, AgeOf, SilenceIsDetected
<1> QED
  BY <1>1, CountersAreAges, PTL

(* No node is given up before seconds and messages add up to KeepAlive.     *)
THEOREM GivingUp == Spec => []GivenUpForAReason
<1>1. KeepAliveInv => GivenUpForAReason
  BY ClusterKeepAliveAssumption
     DEF KeepAliveInv, TypeOK, AgeInv, AgeOf,
         GivenUpForAReason
<1> QED
  BY <1>1, CountersAreAges, PTL

=============================================================================
