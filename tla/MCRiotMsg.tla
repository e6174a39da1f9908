------------------------------ MODULE MCRiotMsg ------------------------------
(* RiotMsg: a server with a queue, and a client above and one below it. *)
EXTENDS RiotMsg

CONSTANTS s1, c1, c2

MCPrio == c1 :> 0 @@ s1 :> 1 @@ c2 :> 2
OnlyS1 == [t \in Threads |-> IF t = s1 THEN 1 ELSE 0]
BusOf == <<s1, c1>>
=============================================================================
