------------------------ MODULE MCClusterKeepAlive ------------------------
(* Small clusters for TLC.                                                 *)
EXTENDS ClusterKeepAlive, TLC

CONSTANTS a, b, c   \* servers

Pair   == (a :> <<b>>) @@ (b :> <<a>>)
Triple == (a :> <<b, c>>) @@ (b :> <<a, c>>) @@ (c :> <<a, b>>)

===========================================================================
