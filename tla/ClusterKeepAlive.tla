-------------------------- MODULE ClusterKeepAlive --------------------------
(***************************************************************************)
(* How the servers of a cluster find out about each other's death: the     *)
(* once-a-second branch of startClusterServerCycly, the heartbeats, and    *)
(* what publishing to the cluster does to the same counters.               *)
(*                                                                         *)
(* Ten ticks of 100 ms are one step here.  Seconds of different servers    *)
(* are not aligned, but nobody starts a second before everybody finished   *)
(* the one before, and a heartbeat takes less than a second.               *)
(***************************************************************************)
EXTENDS Naturals, Sequences

CONSTANTS
  Server,
  Nodes,        \* Nodes[s]: the other servers, in the order of "coservers"
  KeepAlive,    \* 60: seconds without a heartbeat
  HeartPeriod,  \* 50: seconds between heartbeats
  MaxTraffic,   \* bound on messages a server sends to the cluster between
                \* two heartbeats it gets
  MaxLosses,    \* bound on lost heartbeats
  MaxCrashes    \* bound on crashes

Peers(s) == {Nodes[s][i] : i \in DOMAIN Nodes[s]}

ASSUME ClusterKeepAliveAssumption ==
  /\ \A s \in Server : Nodes[s] \in Seq(Server) /\ s \notin Peers(s)
  /\ KeepAlive \in 1..127   \* an int8
  /\ HeartPeriod \in Nat \ {0}
  /\ {MaxTraffic, MaxLosses, MaxCrashes} \subseteq Nat

VARIABLES
  up,
  KeepAliveTimeOut,  \* KeepAliveTimeOut[s][n] of the node n in the list of s
  timeEscape1S,
  hearts,            \* heartbeats on their way, <<from, to>>
  ticked,            \* servers that had their tick in this second
  losses, crashes,
  \* history, since s last heard from n or since s started
  silent,            \* seconds, counted up to KeepAlive
  talk               \* messages s sent to the cluster

counters == <<KeepAliveTimeOut, timeEscape1S, silent, talk>>
vars == <<up, counters, hearts, ticked, losses, crashes>>

Fresh(s) == [n \in Peers(s) |-> KeepAlive]
Zero(s)  == [n \in Peers(s) |-> 0]

Init ==
  /\ up = [s \in Server |-> TRUE]
  /\ KeepAliveTimeOut = [s \in Server |-> Fresh(s)]
  /\ timeEscape1S = [s \in Server |-> 0]
  /\ hearts = {}
  /\ ticked = {}
  /\ losses = 0 /\ crashes = 0
  /\ silent = [s \in Server |-> Zero(s)]
  /\ talk = [s \in Server |-> Zero(s)]

\* Slip: the counter is not held at 0.
KeepAliveTimeEscape1Sec_NoStop(k) == k - 1

\* Slip: off by one.
KeepAliveTimeEscape1Sec_Early(k) == IF k > 2 THEN k - 1 ELSE 0

\* The counter after KeepAliveTimeEscape1Sec, which stays at 0; a node is
\* alive if it is positive then.
KeepAliveTimeEscape1Sec(k) == IF k > 1 THEN k - 1 ELSE 0

Escape(s) == KeepAliveTimeOut' =
  [KeepAliveTimeOut EXCEPT ![s] =
     [n \in Peers(s) |-> KeepAliveTimeEscape1Sec(@[n])]]

\* The list positions of the nodes this very call finds alive.
Alive(s) ==
  {i \in DOMAIN Nodes[s] :
     KeepAliveTimeEscape1Sec(KeepAliveTimeOut[s][Nodes[s][i]]) > 0}

\* The reset stands inside the loop over the nodes, so the first one that is
\* alive gets the heartbeat and no other.  Without one the count runs past
\* HeartPeriod, and all that matters from there on is that it is past.
Beat(s) ==
  LET due == timeEscape1S[s] + 1 = HeartPeriod /\ Alive(s) # {}
      first == CHOOSE i \in Alive(s) : \A j \in Alive(s) : i <= j
  IN
  /\ hearts' = IF due THEN hearts \cup {<<s, Nodes[s][first]>>} ELSE hearts
  /\ timeEscape1S' = [timeEscape1S EXCEPT ![s] =
                        IF due THEN 0
                        ELSE IF @ > HeartPeriod THEN @ ELSE @ + 1]

\* One second of server s.
Tick(s) ==
  /\ up[s]
  /\ s \notin ticked
  /\ ticked' = ticked \cup {s}
  /\ Escape(s)
  /\ Beat(s)
  /\ silent' = [silent EXCEPT ![s] =
       [n \in Peers(s) |-> IF @[n] < KeepAlive THEN @[n] + 1 ELSE @[n]]]
  /\ UNCHANGED <<up, talk, losses, crashes>>

NextSecond ==
  /\ ticked # {}
  /\ \A s \in Server : up[s] => s \in ticked
  /\ hearts = {}
  /\ ticked' = {}
  /\ UNCHANGED <<up, counters, hearts, losses, crashes>>

\* CLUSTER_PUBLIC_MSG and CLUSTER_LOGIN_MSG from this server's dispatcher
\* and connections: asking whether a node is alive costs it a second.
Publish(s) ==
  /\ up[s]
  /\ \A n \in Peers(s) : talk[s][n] < MaxTraffic
  /\ Escape(s)
  /\ talk' = [talk EXCEPT ![s] = [n \in Peers(s) |-> @[n] + 1]]
  /\ UNCHANGED <<up, timeEscape1S, hearts, ticked, losses, crashes, silent>>

\* Slip: the time is added to what is left.
Heard_Adds(to, from) ==
  KeepAliveTimeOut' = [KeepAliveTimeOut EXCEPT ![to][from] = @ + KeepAlive]

\* CLUSTER_HEART_MSG from a node of the list.
Heard(to, from) ==
  KeepAliveTimeOut' = [KeepAliveTimeOut EXCEPT ![to][from] = KeepAlive]

Deliver(from, to) ==
  /\ <<from, to>> \in hearts
  /\ hearts' = hearts \ {<<from, to>>}
  /\ IF up[to] /\ from \in Peers(to)
     THEN /\ Heard(to, from)
          /\ silent' = [silent EXCEPT ![to][from] = 0]
          /\ talk' = [talk EXCEPT ![to][from] = 0]
     ELSE UNCHANGED <<KeepAliveTimeOut, silent, talk>>
  /\ UNCHANGED <<up, timeEscape1S, ticked, losses, crashes>>

\* UDP.
Lose(from, to) ==
  /\ <<from, to>> \in hearts
  /\ losses < MaxLosses
  /\ losses' = losses + 1
  /\ hearts' = hearts \ {<<from, to>>}
  /\ UNCHANGED <<up, counters, ticked, crashes>>

Crash(s) ==
  /\ up[s]
  /\ crashes < MaxCrashes
  /\ crashes' = crashes + 1
  /\ up' = [up EXCEPT ![s] = FALSE]
  /\ UNCHANGED <<counters, hearts, ticked, losses>>

\* Nothing is kept on disk: StartClusterServerNode starts over.
Restart(s) ==
  /\ ~ up[s]
  /\ up' = [up EXCEPT ![s] = TRUE]
  /\ KeepAliveTimeOut' = [KeepAliveTimeOut EXCEPT ![s] = Fresh(s)]
  /\ timeEscape1S' = [timeEscape1S EXCEPT ![s] = 0]
  /\ silent' = [silent EXCEPT ![s] = Zero(s)]
  /\ talk' = [talk EXCEPT ![s] = Zero(s)]
  /\ UNCHANGED <<hearts, ticked, losses, crashes>>

Next ==
  \/ NextSecond
  \/ \E s \in Server : Tick(s) \/ Publish(s) \/ Crash(s) \/ Restart(s)
  \/ \E from, to \in Server : Deliver(from, to) \/ Lose(from, to)

Spec == Init /\ [][Next]_vars

(* Tickers tick, the network delivers what it does not lose, and a server   *)
(* that crashed is started again.                                           *)
FairSpec ==
  /\ Spec
  /\ WF_vars(NextSecond)
  /\ \A s \in Server : WF_vars(Tick(s)) /\ WF_vars(Restart(s))
  /\ \A from, to \in Server : WF_vars(Deliver(from, to))

-----------------------------------------------------------------------------
TypeOK ==
  /\ up \in [Server -> BOOLEAN]
  /\ DOMAIN KeepAliveTimeOut = Server
  /\ DOMAIN silent = Server
  /\ DOMAIN talk = Server
  /\ \A s \in Server :
       /\ KeepAliveTimeOut[s] \in [Peers(s) -> 0..KeepAlive]
       /\ silent[s] \in [Peers(s) -> 0..KeepAlive]
       /\ talk[s] \in [Peers(s) -> 0..MaxTraffic]
  /\ timeEscape1S \in [Server -> 0..(HeartPeriod + 1)]
  /\ hearts \subseteq Server \X Server
  /\ ticked \subseteq Server
  /\ losses \in 0..MaxLosses
  /\ crashes \in 0..MaxCrashes

(* A node that has not been heard of for KeepAlive seconds is not alive any *)
(* more, whatever this server sent in between.                              *)
SilenceIsDetected ==
  \A s \in Server : \A n \in Peers(s) :
    silent[s][n] >= KeepAlive => KeepAliveTimeOut[s][n] = 0

(* The other way round: a node is given up only after KeepAlive seconds     *)
(* and messages to the cluster together.                                    *)
GivenUpForAReason ==
  \A s \in Server : \A n \in Peers(s) :
    KeepAliveTimeOut[s][n] = 0 => silent[s][n] + talk[s][n] >= KeepAlive

(* A node that runs and whose heartbeats arrive is never taken for dead:    *)
(* "maybe exception remove it" (cluster_server.go:204) is not said of it.   *)
RunningNodeIsAlive ==
  \A s \in Server : \A n \in Peers(s) :
    up[s] /\ up[n] => KeepAliveTimeOut[s][n] > 0

(* Once crashes and losses are over, running servers see each other again.  *)
RunningNodesMeet ==
  \A s \in Server : \A n \in Peers(s) :
    []<>(up[s] /\ up[n] => KeepAliveTimeOut[s][n] > 0)

=============================================================================
