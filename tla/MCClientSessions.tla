------------------------- MODULE MCClientSessions -------------------------
(* Small instances of ClientSessions for TLC.                              *)
EXTENDS ClientSessions, TLC

CONSTANTS p, q   \* two clients

\* p keeps its session across connections, q asks for a clean one.
FixedChoices == [id \in ClientId |-> {id = q}]

\* A client may change its mind from one connection to the next.
FreeChoices == [id \in ClientId |-> BOOLEAN]

\* Connections start out alike, and so do topics.
Symmetry == Permutations(Conn) \cup Permutations(Topic)

===========================================================================
