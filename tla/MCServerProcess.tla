-------------------------- MODULE MCServerProcess --------------------------
(* Small servers for TLC.                                                  *)
EXTENDS ServerProcess

CONSTANTS a, b   \* two clients

AllRead    == [c \in Client |-> "always"]
BStalls    == [c \in Client |-> IF c = b THEN "never" ELSE "always"]
AllBetween == [c \in Client |-> "between"]

=============================================================================
