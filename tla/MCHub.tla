------------------------------- MODULE MCHub --------------------------------
(* Constants of the run of Hub: two connections of two users in one room. *)
EXTENDS Hub, TLC

CONSTANTS p1, c1, c2, u1, u2

OneRoom == c1 :> p1 @@ c2 :> p1
TwoUsers == c1 :> u1 @@ c2 :> u2
=============================================================================
