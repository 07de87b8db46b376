--------------------------- MODULE MCGameSession ----------------------------
(* Constants of the runs of GameSession: all connections in one project.   *)
EXTENDS GameSession

SameRoom == [c \in Clients |-> CHOOSE p \in Projects : TRUE]
=============================================================================
