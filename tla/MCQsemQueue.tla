----------------------------- MODULE MCQsemQueue -----------------------------
(* QsemQueue with three tasks, two messages and a ring of two nodes. *)
EXTENDS QsemQueue

CONSTANTS t1, t2, t3, m1, m2
=============================================================================
