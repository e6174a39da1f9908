------------------------------ MODULE MCRiotMbox ------------------------------
(* RiotMbox with two producers and two consumers. *)
EXTENDS RiotMbox

CONSTANTS p1, p2, c1, c2

\* Every producer is more urgent than every consumer.
ProducersFirst == [t \in Threads |-> IF t \in Producers THEN 0 ELSE 1]
\* All threads are at one level.
AllEqual == [t \in Threads |-> 1]
=============================================================================
