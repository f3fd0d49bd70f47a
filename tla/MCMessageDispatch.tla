------------------------- MODULE MCMessageDispatch -------------------------
(* Small instances of MessageDispatch for TLC.                             *)
EXTENDS MessageDispatch, TLC

CONSTANTS a, b, c   \* three clients

\* Who publishes, with which QoS, for whom.
EachQos    == <<1, 2, 0, 1>>
AllFromA   == [m \in Msg |-> a]
AllQos2    == [m \in Msg |-> 2]
AllQos1    == [m \in Msg |-> 1]
AllToA     == [m \in Msg |-> {a}]
AllToB     == [m \in Msg |-> {b}]
AllToBAndC == [m \in Msg |-> {b, c}]
Qos1ToC    == [m \in Msg |-> IF EachQos[m] = 1 THEN {b, c} ELSE {b}]
OneQos2    == [m \in Msg |-> IF m = 2 THEN 2 ELSE 1]

\* The last message comes from a cluster peer.
LastFromPeer == [m \in Msg |-> IF m = NumMsg THEN NoClient ELSE a]

\* Packet ids are drawn at random, so they are alike.
Symmetry == Permutations(ServerPid)

=============================================================================
