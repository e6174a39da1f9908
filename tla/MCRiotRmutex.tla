---------------------------- MODULE MCRiotRmutex ----------------------------
(* RiotRmutex on three threads, with one plain and one recursive mutex. *)
EXTENDS RiotRmutex

CONSTANTS t1, t2, t3, m1, m2

TwoPeers == t1 :> 0 @@ t2 :> 1 @@ t3 :> 1
=============================================================================
