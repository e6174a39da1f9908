----------------------------- MODULE MCRiotMutex -----------------------------
(* RiotMutex on three threads. *)
EXTENDS RiotMutex

CONSTANTS t1, t2, t3, m1, m2

MCPrio == t1 :> 0 @@ t2 :> 1 @@ t3 :> 2
TwoPeers == t1 :> 0 @@ t2 :> 1 @@ t3 :> 1
=============================================================================
