---------------------------- MODULE MCRiotThreads ----------------------------
(* RiotThreads on three threads. *)
EXTENDS RiotThreads

CONSTANTS t1, t2, t3
=============================================================================
