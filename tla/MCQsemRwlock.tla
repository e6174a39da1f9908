---------------------------- MODULE MCQsemRwlock ----------------------------
(* Three tasks of three priorities; two mutexes and a counting semaphore,  *)
(* or a mutex and a read-write lock.                                       *)
EXTENDS QsemRwlock

CONSTANTS t1, t2, t3, m1, m2, s1

MCCreated == [t \in Tasks |-> IF t = t1 THEN 0 ELSE IF t = t2 THEN 1 ELSE 2]

MCCallers == [s \in Sems |-> IF s = s1 THEN {t2} ELSE Tasks]

MCLayouts == {<<{m1, m2, s1}, "none">>, <<{m2}, "unset">>}
=============================================================================
