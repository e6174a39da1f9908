------------------------------ MODULE MCRiotCond ------------------------------
(* RiotCond with two consumers and a producer. *)
EXTENDS RiotCond

CONSTANTS c1, c2, p1, m1

\* A producer between two consumers.
MCPrio == c1 :> 0 @@ p1 :> 1 @@ c2 :> 2
=============================================================================
