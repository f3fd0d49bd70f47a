--------------------------- MODULE MCClusterLogin ---------------------------
(* Small clusters for TLC.                                                 *)
EXTENDS ClusterLogin, TLC

\* Nodes are alike, and so are peers and the clients with a session at one.
Symmetry == Permutations(Node) \cup Permutations(Peer) \cup Permutations(Moved)

=============================================================================
