--------------------------- MODULE QsemLocks_proofs ---------------------------
(***************************************************************************)
(* Theorems about QsemRwlock and the semaphores of QsemSem, for every set  *)
(* of tasks, mutexes, counting semaphores and read locks, every number of  *)
(* priorities and every layout.  First what the steps of QsemSem keep.     *)
(***************************************************************************)
EXTENDS QsemRwlock, ListFacts, FiniteSetTheorems

Waiting(t, s) == "PEND" \in status[t] /\ taskPend[t] = s

UnusedAreFree == \A m \in Mutexes : m \notin used => owner[m] = NoTask

\* What the call that holds OsSemPrioLock relies on.
StepOK ==
  /\ step.op = "none" => step = Idle
  /\ step.op = "pend" => step.task \in Tasks
  /\ step.op \in {"pend", "inherit"} => step.at \in Tasks /\ held[step.at] # {}
  /\ step.op = "pass" =>
       /\ step.task \in Tasks /\ "PEND" \notin status[step.task]
       /\ step.sem \in Mutexes /\ owner[step.sem] = step.task
       /\ step.at \in Tasks /\ step.at # step.task
  /\ step.op = "restore" => step.task \in Tasks /\ "PEND" \notin status[step.task]

WaitsOnce == \A t \in Tasks : ~ ("PEND" \in status[t] /\ "RW_PEND" \in status[t])

Base == TypeOK /\ OwnersAgree /\ UnusedAreFree /\ WaitersListed /\ StepOK /\ WaitsOnce

\* While a priority is on its way up, the walk stands where it is missing; who
\* gives a mutex away has no more to lend to its waiters.
Lent(m, t) ==
  \/ t \in unlent
  \/ prio[owner[m]] <= prio[t]
  \/ step.op = "pend" /\ owner[m] = step.at /\ t = step.task
  \/ step.op = "inherit" /\ owner[m] = step.at /\ step.prio <= prio[t]
  \/ step.op = "pass" /\ m = step.sem

LentOnTheWay == \A m \in Mutexes, t \in Tasks : Waiting(t, m) => Lent(m, t)

\* The task on its way to be the owner lends to the waiters it will have.
LentAhead ==
  step.op = "pass" =>
    \A t \in Tasks : Waiting(t, step.sem) => t \in unlent \/ prio[step.at] <= prio[t]

\* A task that only waits keeps its own priority during the walk, too; and if
\* OsPriorityRestore holds an old priority, the task has the new one already.
Returned ==
  /\ \A t \in Tasks :
       held[t] = {} /\ (step.op = "restore" => step.task # t) /\ t \notin stale => prio[t] = orig[t]
  /\ step.op = "restore" => orig[step.task] \in {step.prio, prio[step.task]}

SemInv == Base /\ UrgentFirst /\ LentOnTheWay /\ LentAhead /\ Returned

(***************************************************************************)
(* The place of a waiter.                                                  *)
(***************************************************************************)

LEMMA PlaceFacts ==
  ASSUME TypeOK, NEW l \in Seq(Tasks), NEW p \in Nat
  PROVE  /\ Place(l, p) \in 1..(Len(l) + 1)
         /\ \A j \in 1..Len(l) : j < Place(l, p) => prio[l[j]] <= p
         /\ Place(l, p) <= Len(l) => prio[l[Place(l, p)]] > p
<1> DEFINE behind == {i \in 1..Len(l) : prio[l[i]] > p}
<1>0. \A j \in 1..Len(l) : prio[l[j]] \in Nat
  <2>1. \A j \in 1..Len(l) : l[j] \in Tasks
    OBVIOUS
  <2>2. \A u \in Tasks : prio[u] \in Nat
    BY NumbersOK DEF TypeOK, Prios
  <2> QED BY <2>1, <2>2
<1>1. CASE behind = {}
  <2>1. Place(l, p) = Len(l) + 1
    BY <1>1 DEF Place
  <2>2. \A j \in 1..Len(l) : prio[l[j]] <= p
    BY <1>0, <1>1
  <2> QED BY <2>1, <2>2
<1>2. CASE behind # {}
  <2>1. Place(l, p) = Min(behind)
    BY <1>2 DEF Place
  <2>2. behind \in SUBSET Nat
    OBVIOUS
  <2>3. /\ Place(l, p) \in behind
        /\ \A y \in behind : Place(l, p) <= y
    <3> HIDE DEF behind
    <3> QED BY <1>2, <2>1, <2>2, MinOfNaturals
  <2>4. Place(l, p) \in 1..Len(l) /\ prio[l[Place(l, p)]] > p
    BY <2>3
  <2> HIDE DEF behind
  <2>5. ASSUME NEW j \in 1..Len(l), j < Place(l, p) PROVE prio[l[j]] <= p
    <3>1. j \notin behind
      BY <2>3, <2>4, <2>5
    <3> QED BY <3>1, <1>0 DEF behind
  <2> QED BY <2>4, <2>5
<1> QED BY <1>1, <1>2

\* A task put into a list that is sorted.
LEMMA InsertedFacts ==
  ASSUME TypeOK, NEW l \in Seq(Tasks), NEW t \in Tasks, NEW p \in Nat,
         ~Contains(l, t), NoDuplicates(l)
  PROVE  /\ Inserted(l, t, p) \in Seq(Tasks) /\ NoDuplicates(Inserted(l, t, p))
         /\ \A x : Contains(Inserted(l, t, p), x) <=> (x = t \/ Contains(l, x))
BY PlaceFacts, InsertFacts DEF Inserted

LEMMA InsertedSorted ==
  ASSUME TypeOK, NEW l \in Seq(Tasks), NEW t \in Tasks, NEW p \in Nat,
         ~Contains(l, t), NoDuplicates(l), SortedBy(l, prio),
         NEW f \in [Tasks -> Nat], f[t] = p, \A u \in Tasks : u # t => f[u] = prio[u]
  PROVE  SortedBy(Inserted(l, t, p), f)
<1> DEFINE i == Place(l, p)
<1>1. /\ i \in 1..(Len(l) + 1)
      /\ \A j \in 1..Len(l) : j < i => prio[l[j]] <= p
      /\ i <= Len(l) => prio[l[i]] > p
  BY PlaceFacts
<1>2. \A j \in 1..Len(l) : f[l[j]] = prio[l[j]]
  <2> TAKE j \in 1..Len(l)
  <2>1. l[j] \in Tasks /\ l[j] # t
    BY DEF Contains
  <2> QED BY <2>1
<1>3. SortedBy(l, f)
  BY <1>2 DEF SortedBy
<1>4. \A j \in 1..Len(l) : j < i => f[l[j]] <= f[t]
  BY <1>1, <1>2
<1>5. i <= Len(l) => f[l[i]] > f[t]
  BY <1>1, <1>2
<1> HIDE DEF i
<1>6. SortedBy(InsertAt(l, i, t), f)
  BY <1>1, <1>3, <1>4, <1>5, InsertSorted
<1> QED BY <1>6 DEF Inserted, i

-----------------------------------------------------------------------------
(***************************************************************************)
(* The four ways in which lists and waits change together.                 *)
(***************************************************************************)

LEMMA PendFacts ==
  ASSUME Base, NEW t \in Tasks, NEW s \in Sems, NEW timed, status[t] = {},
         s \in used, count[s] = 0, Pends(t, s, timed), UNCHANGED <<used, count>>
  PROVE  /\ list' \in [Sems -> Seq(Tasks)]
         /\ status' \in [Tasks -> SUBSET {"PEND", "RW_PEND", "TIMEOUT"}]
         /\ taskPend' \in [Tasks -> Sems \cup {NoSem}]
         /\ WaitersListed' /\ WaitsOnce'
         /\ "PEND" \in status'[t] /\ "RW_PEND" \notin status'[t] /\ taskPend'[t] = s
         /\ \A u \in Tasks : u # t => status'[u] = status[u] /\ taskPend'[u] = taskPend[u]
         /\ \A m \in Mutexes : list'[m] = IF m = s THEN Inserted(list[m], t, prio[t]) ELSE list[m]
<1>1. /\ list \in [Sems -> Seq(Tasks)] /\ prio[t] \in Nat
      /\ status \in [Tasks -> SUBSET {"PEND", "RW_PEND", "TIMEOUT"}]
      /\ taskPend \in [Tasks -> Sems \cup {NoSem}]
  BY NumbersOK DEF Base, TypeOK, Prios
<1>2. ~Contains(list[s], t) /\ NoDuplicates(list[s]) /\ list[s] \in Seq(Tasks)
  BY <1>1 DEF Base, WaitersListed
<1> DEFINE r == IF s \in Mutexes THEN Inserted(list[s], t, prio[t]) ELSE Append(list[s], t)
<1>3. /\ r \in Seq(Tasks) /\ NoDuplicates(r)
      /\ \A x : Contains(r, x) <=> (x = t \/ Contains(list[s], x))
  <2>1. CASE s \in Mutexes
    BY <2>1, <1>1, <1>2, InsertedFacts DEF Base
  <2>2. CASE s \notin Mutexes
    BY <2>2, <1>2, AppendFacts
  <2> QED BY <2>1, <2>2
<1>4. list' = [list EXCEPT ![s] = r]
  BY DEF Pends
<1> HIDE DEF r
<1>5. /\ status'[t] = IF timed THEN {"PEND", "TIMEOUT"} ELSE {"PEND"}
      /\ taskPend'[t] = s
      /\ \A u \in Tasks : u # t => status'[u] = status[u] /\ taskPend'[u] = taskPend[u]
      /\ status' \in [Tasks -> SUBSET {"PEND", "RW_PEND", "TIMEOUT"}]
      /\ taskPend' \in [Tasks -> Sems \cup {NoSem}]
  BY <1>1 DEF Pends
<1>6. "PEND" \in status'[t] /\ "RW_PEND" \notin status'[t]
  BY <1>5
<1>7. /\ list' \in [Sems -> Seq(Tasks)]
      /\ \A n \in Sems : list'[n] = IF n = s THEN r ELSE list[n]
  BY <1>1, <1>3, <1>4
<1>8. WaitersListed'
  <2>1. ASSUME NEW u \in Tasks, NEW n \in Sems
        PROVE  Contains(list'[n], u) <=> "PEND" \in status'[u] /\ taskPend'[u] = n
    <3>1. Contains(list[n], u) <=> "PEND" \in status[u] /\ taskPend[u] = n
      BY DEF Base, WaitersListed
    <3>2. CASE u = t
      BY <3>1, <3>2, <1>3, <1>5, <1>6, <1>7
    <3>3. CASE u # t
      BY <3>1, <3>3, <1>3, <1>5, <1>7
    <3> QED BY <3>2, <3>3
  <2>2. \A n \in Sems : NoDuplicates(list'[n]) /\ (list'[n] # << >> => n \in used /\ count[n] = 0)
    BY <1>3, <1>7 DEF Base, WaitersListed
  <2> QED BY <2>1, <2>2 DEF WaitersListed
<1>9. WaitsOnce'
  BY <1>5, <1>6 DEF WaitsOnce, Base
<1>10. \A m \in Mutexes : list'[m] = IF m = s THEN Inserted(list[m], t, prio[t]) ELSE list[m]
  BY <1>7 DEF r, Sems
<1> QED BY <1>5, <1>6, <1>7, <1>8, <1>9, <1>10

LEMMA WakeFacts ==
  ASSUME Base, NEW s \in Sems, list[s] # << >>, Wakes(s), UNCHANGED <<used, count>>
  PROVE  /\ Head(list[s]) \in Tasks /\ Waiting(Head(list[s]), s)
         /\ list' \in [Sems -> Seq(Tasks)]
         /\ status' \in [Tasks -> SUBSET {"PEND", "RW_PEND", "TIMEOUT"}]
         /\ taskPend' \in [Tasks -> Sems \cup {NoSem}]
         /\ WaitersListed' /\ WaitsOnce'
         /\ status'[Head(list[s])] = {}
         /\ \A u \in Tasks : u # Head(list[s]) => status'[u] = status[u] /\ taskPend'[u] = taskPend[u]
         /\ \A n \in Sems : list'[n] = IF n = s THEN Tail(list[n]) ELSE list[n]
<1> DEFINE next == Head(list[s])
<1>1. /\ list \in [Sems -> Seq(Tasks)]
      /\ status \in [Tasks -> SUBSET {"PEND", "RW_PEND", "TIMEOUT"}]
      /\ taskPend \in [Tasks -> Sems \cup {NoSem}]
  BY DEF Base, TypeOK
<1>2. /\ Tail(list[s]) \in Seq(Tasks) /\ NoDuplicates(Tail(list[s]))
      /\ next \in Tasks /\ Contains(list[s], next)
      /\ \A x : Contains(Tail(list[s]), x) <=> (x # next /\ Contains(list[s], x))
  <2>1. list[s] \in Seq(Tasks) /\ NoDuplicates(list[s])
    BY <1>1 DEF Base, WaitersListed
  <2> QED BY <2>1, TailFacts
<1>3. Waiting(next, s)
  BY <1>2 DEF Base, WaitersListed, Waiting
<1>4. /\ status' = [status EXCEPT ![next] = {}]
      /\ taskPend' = [taskPend EXCEPT ![next] = NoSem]
      /\ list' = [list EXCEPT ![s] = Tail(@)]
  BY DEF Wakes
<1> HIDE DEF next
<1>5. /\ status'[next] = {}
      /\ \A u \in Tasks : u # next => status'[u] = status[u] /\ taskPend'[u] = taskPend[u]
      /\ status' \in [Tasks -> SUBSET {"PEND", "RW_PEND", "TIMEOUT"}]
      /\ taskPend' \in [Tasks -> Sems \cup {NoSem}]
      /\ list' \in [Sems -> Seq(Tasks)]
      /\ \A n \in Sems : list'[n] = IF n = s THEN Tail(list[n]) ELSE list[n]
  BY <1>1, <1>2, <1>4
<1>6. WaitersListed'
  <2>1. ASSUME NEW u \in Tasks, NEW n \in Sems
        PROVE  Contains(list'[n], u) <=> "PEND" \in status'[u] /\ taskPend'[u] = n
    <3>1. Contains(list[n], u) <=> "PEND" \in status[u] /\ taskPend[u] = n
      BY DEF Base, WaitersListed
    <3>2. CASE u = next
      <4>1. "PEND" \notin status'[u]
        BY <3>2, <1>5
      <4>2. CASE n = s
        BY <3>2, <4>1, <4>2, <1>2, <1>5
      <4>3. CASE n # s
        BY <3>1, <3>2, <4>1, <4>3, <1>3, <1>5 DEF Waiting
      <4> QED BY <4>2, <4>3
    <3>3. CASE u # next
      BY <3>1, <3>3, <1>2, <1>5
    <3> QED BY <3>2, <3>3
  <2>2. ASSUME NEW n \in Sems
        PROVE  NoDuplicates(list'[n]) /\ (list'[n] # << >> => n \in used' /\ count'[n] = 0)
    <3>1. NoDuplicates(list[n]) /\ (list[n] # << >> => n \in used /\ count[n] = 0)
      BY DEF Base, WaitersListed
    <3>2. CASE n = s
      BY <3>1, <3>2, <1>2, <1>5
    <3>3. CASE n # s
      BY <3>1, <3>3, <1>5
    <3> QED BY <3>2, <3>3
  <2> QED BY <2>1, <2>2 DEF WaitersListed
<1>7. WaitsOnce'
  BY <1>5 DEF WaitsOnce, Base
<1> QED BY <1>2, <1>3, <1>5, <1>6, <1>7 DEF next

LEMMA ExpiryFacts ==
  ASSUME Base, NEW t \in Tasks, TimerExpires(t)
  PROVE  /\ list' \in [Sems -> Seq(Tasks)]
         /\ status' \in [Tasks -> SUBSET {"PEND", "RW_PEND", "TIMEOUT"}]
         /\ taskPend' \in [Tasks -> Sems \cup {NoSem}]
         /\ WaitersListed' /\ WaitsOnce'
         /\ status'[t] = {"TIMEOUT"}
         /\ \A u \in Tasks : u # t => status'[u] = status[u] /\ taskPend'[u] = taskPend[u]
         /\ \A n \in Sems : list'[n] = RemoveFirst(list[n], t)
<1>1. /\ list \in [Sems -> Seq(Tasks)]
      /\ status \in [Tasks -> SUBSET {"PEND", "RW_PEND", "TIMEOUT"}]
      /\ taskPend \in [Tasks -> Sems \cup {NoSem}]
  BY DEF Base, TypeOK
<1>2. ASSUME NEW n \in Sems
      PROVE  /\ RemoveFirst(list[n], t) \in Seq(Tasks) /\ NoDuplicates(RemoveFirst(list[n], t))
             /\ \A x : Contains(RemoveFirst(list[n], t), x) <=> (x # t /\ Contains(list[n], x))
  <2>1. list[n] \in Seq(Tasks) /\ NoDuplicates(list[n])
    BY <1>1 DEF Base, WaitersListed
  <2> QED BY <2>1, RemoveFacts
<1>3. /\ status'[t] = {"TIMEOUT"} /\ taskPend'[t] = NoSem
      /\ \A u \in Tasks : u # t => status'[u] = status[u] /\ taskPend'[u] = taskPend[u]
      /\ status' \in [Tasks -> SUBSET {"PEND", "RW_PEND", "TIMEOUT"}]
      /\ taskPend' \in [Tasks -> Sems \cup {NoSem}]
      /\ list' \in [Sems -> Seq(Tasks)]
      /\ \A n \in Sems : list'[n] = RemoveFirst(list[n], t)
      /\ UNCHANGED <<used, count>>
  BY <1>1, <1>2 DEF TimerExpires
<1>4. WaitersListed'
  <2>1. ASSUME NEW u \in Tasks, NEW n \in Sems
        PROVE  Contains(list'[n], u) <=> "PEND" \in status'[u] /\ taskPend'[u] = n
    <3>1. Contains(list[n], u) <=> "PEND" \in status[u] /\ taskPend[u] = n
      BY DEF Base, WaitersListed
    <3>2. CASE u = t
      BY <3>1, <3>2, <1>2, <1>3
    <3>3. CASE u # t
      BY <3>1, <3>3, <1>2, <1>3
    <3> QED BY <3>2, <3>3
  <2>2. ASSUME NEW n \in Sems
        PROVE  NoDuplicates(list'[n]) /\ (list'[n] # << >> => n \in used' /\ count'[n] = 0)
    <3>1. list'[n] # << >> => list[n] # << >>
      BY <1>1, <1>2, <1>3, EmptyFacts
    <3> QED BY <3>1, <1>2, <1>3 DEF Base, WaitersListed
  <2> QED BY <2>1, <2>2 DEF WaitersListed
<1>5. WaitsOnce'
  BY <1>3 DEF WaitsOnce, Base
<1> QED BY <1>3, <1>4, <1>5

LEMMA ResortFacts ==
  ASSUME Base, NEW o \in Tasks, NEW p \in Nat, list' = Resorted(o, p),
         UNCHANGED <<used, count, status, taskPend>>
  PROVE  /\ list' \in [Sems -> Seq(Tasks)] /\ WaitersListed'
         /\ \A n \in Sems : (OnMutex(o) /\ taskPend[o] = n) \/ list'[n] = list[n]
<1>1. list \in [Sems -> Seq(Tasks)]
  BY DEF Base, TypeOK
<1>2. CASE OnMutex(o)
  <2> DEFINE m == taskPend[o]
             rest == RemoveFirst(list[m], o)
             r == Inserted(rest, o, p)
  <2>1. m \in Mutexes /\ m \in Sems /\ list[m] \in Seq(Tasks) /\ Contains(list[m], o) /\ NoDuplicates(list[m])
    BY <1>1, <1>2 DEF OnMutex, Sems, Base, WaitersListed
  <2>2. /\ rest \in Seq(Tasks) /\ NoDuplicates(rest)
        /\ \A x : Contains(rest, x) <=> (x # o /\ Contains(list[m], x))
    BY <2>1, RemoveFacts
  <2>3. list' = [list EXCEPT ![m] = r]
    BY <1>2 DEF Resorted
  <2> HIDE DEF rest, m
  <2>4. /\ r \in Seq(Tasks) /\ NoDuplicates(r)
        /\ \A x : Contains(r, x) <=> (x = o \/ Contains(rest, x))
    BY <2>2, InsertedFacts DEF Base
  <2> HIDE DEF r
  <2>5. \A x : Contains(r, x) <=> Contains(list[m], x)
    BY <2>1, <2>2, <2>4
  <2>6. /\ list' \in [Sems -> Seq(Tasks)]
        /\ \A n \in Sems : list'[n] = IF n = m THEN r ELSE list[n]
    BY <1>1, <2>1, <2>3, <2>4
  <2>7. list[m] # << >>
    BY <2>1, EmptyFacts
  <2>8. \A n \in Sems, t \in Tasks : Contains(list'[n], t) <=> Contains(list[n], t)
    BY <2>5, <2>6
  <2>9. \A n \in Sems : NoDuplicates(list'[n]) /\ (list'[n] # << >> => n \in used /\ count[n] = 0)
    BY <2>4, <2>6, <2>7 DEF Base, WaitersListed
  <2>10. WaitersListed'
    BY <2>8, <2>9 DEF Base, WaitersListed
  <2> QED BY <1>2, <2>6, <2>10 DEF m
<1>3. CASE ~OnMutex(o)
  <2>1. list' = list
    BY <1>3 DEF Resorted
  <2> QED BY <1>1, <2>1 DEF Base, WaitersListed
<1> QED BY <1>2, <1>3

-----------------------------------------------------------------------------
(***************************************************************************)
(* What the invariant tells of waiters and owners.                         *)
(***************************************************************************)

LEMMA WaiterFacts ==
  ASSUME Base, NEW m \in Mutexes, NEW t \in Tasks, Waiting(t, m)
  PROVE  /\ m \in Sems /\ m \in used /\ count[m] = 0 /\ owner[m] \in Tasks /\ m \in held[owner[m]]
         /\ list[m] \in Seq(Tasks) /\ list[m] # << >> /\ Contains(list[m], t)
<1>1. m \in Sems /\ list[m] \in Seq(Tasks) /\ owner[m] \in Tasks \cup {NoTask}
  BY DEF Base, TypeOK, Sems
<1>2. Contains(list[m], t)
  BY <1>1 DEF Base, WaitersListed, Waiting
<1>3. list[m] # << >>
  BY <1>1, <1>2, EmptyFacts
<1>4. m \in used /\ count[m] = 0
  BY <1>1, <1>3 DEF Base, WaitersListed
<1>5. owner[m] # NoTask
  BY <1>4 DEF Base, OwnersAgree
<1> QED BY <1>1, <1>2, <1>3, <1>4, <1>5 DEF Base, OwnersAgree

LEMMA HeadFacts ==
  ASSUME Base, UrgentFirst, NEW m \in Mutexes, list[m] # << >>
  PROVE  /\ Head(list[m]) \in Tasks /\ Waiting(Head(list[m]), m)
         /\ \A t \in Tasks : Waiting(t, m) => prio[Head(list[m])] <= prio[t]
<1>1. /\ m \in Sems /\ list[m] \in Seq(Tasks) /\ NoDuplicates(list[m]) /\ prio \in [Tasks -> Nat]
  BY NumbersOK DEF Base, TypeOK, Sems, WaitersListed, Prios
<1>2. /\ Head(list[m]) \in Tasks /\ Contains(list[m], Head(list[m]))
      /\ \A x : Contains(Tail(list[m]), x) <=> (x # Head(list[m]) /\ Contains(list[m], x))
  BY <1>1, TailFacts
<1>3. SortedBy(list[m], prio)
  BY DEF UrgentFirst, SortedBy
<1>4. \A x : Contains(Tail(list[m]), x) => prio[Head(list[m])] <= prio[x]
  BY <1>1, <1>3, TailSorted
<1>5. \A t \in Tasks : Waiting(t, m) <=> Contains(list[m], t)
  BY <1>1 DEF Base, WaitersListed, Waiting
<1>6. ASSUME NEW t \in Tasks, Waiting(t, m) PROVE prio[Head(list[m])] <= prio[t]
  <2>1. CASE t = Head(list[m])
    BY <2>1, <1>1
  <2>2. CASE t # Head(list[m])
    BY <2>2, <1>2, <1>4, <1>5, <1>6
  <2> QED BY <2>1, <2>2
<1> QED BY <1>2, <1>5, <1>6

\* OsGetPendTskMaxPriority: at least as urgent as every waiter of the mutexes.
LEMMA MostUrgentFacts ==
  ASSUME Base, UrgentFirst, NEW ms \in SUBSET Mutexes, NEW base \in Prios
  PROVE  /\ MostUrgent(ms, base) \in Prios
         /\ \A m \in ms, t \in Tasks : Waiting(t, m) => MostUrgent(ms, base) <= prio[t]
         /\ ms = {} => MostUrgent(ms, base) = base
<1> DEFINE all == {base} \cup {prio[Head(list[m])] : m \in {n \in ms : list[n] # << >>}}
<1>1. prio \in [Tasks -> Prios] /\ Prios \subseteq Nat
  BY NumbersOK DEF Base, TypeOK, Prios
<1>2. all \subseteq Prios /\ base \in all
  BY <1>1, HeadFacts
<1>3. all \in SUBSET Nat /\ all # {}
  BY <1>1, <1>2
<1>4. ms = {} => all = {base}
  OBVIOUS
<1>5. \A m \in ms : list[m] # << >> => prio[Head(list[m])] \in all
  OBVIOUS
<1>6. MostUrgent(ms, base) = Min(all)
  BY DEF MostUrgent
<1> HIDE DEF all
<1>7. Min(all) \in all /\ \A y \in all : Min(all) <= y
  BY <1>3, MinOfNaturals
<1>8. ASSUME NEW m \in ms, NEW t \in Tasks, Waiting(t, m)
      PROVE  Min(all) <= prio[t]
  <2>1. list[m] # << >>
    BY <1>8, WaiterFacts
  <2>2. prio[Head(list[m])] <= prio[t] /\ Head(list[m]) \in Tasks
    BY <1>8, <2>1, HeadFacts
  <2>3. Min(all) <= prio[Head(list[m])]
    BY <1>5, <1>7, <2>1
  <2>4. Min(all) \in Nat /\ prio[Head(list[m])] \in Nat /\ prio[t] \in Nat
    BY <1>1, <1>2, <1>7, <2>2
  <2> QED BY <2>2, <2>3, <2>4
<1> QED BY <1>2, <1>4, <1>6, <1>7, <1>8

LEMMA IdleFacts ==
  ASSUME PrioLockFree
  PROVE  step = Idle /\ step.op = "none" /\ step.task = NoTask
BY DEF PrioLockFree, Idle

\* Idle is a step.
LEMMA IdleType == Idle \in Steps /\ Idle.op = "none" /\ Idle.task = NoTask
BY NumbersOK DEF Idle, Steps, Prios

-----------------------------------------------------------------------------
(***************************************************************************)
(* Every step keeps the invariant.                                         *)
(***************************************************************************)

\* A step that changes no list, no priority and no ownership.
LEMMA NestKeeps ==
  ASSUME SemInv, NEW t \in Tasks, NEW m \in Mutexes, Nests(t, m) \/ Unnests(t, m)
  PROVE  SemInv'
<1>1. /\ m \in Mutexes /\ owner[m] = t /\ recur \in [Mutexes -> 0..MaxNest]
      /\ UNCHANGED <<used, count, owner, list, taskVars, step, setting, stale, unlent>>
      /\ \/ recur' = [recur EXCEPT ![m] = @ + 1] /\ recur[m] < MaxNest
         \/ recur' = [recur EXCEPT ![m] = @ - 1] /\ recur[m] > 0
  BY DEF SemInv, Base, TypeOK, Nests, Unnests, history
<1>2. recur' \in [Mutexes -> 0..MaxNest] /\ \A n \in Mutexes : n # m => recur'[n] = recur[n]
  BY <1>1, NumbersOK
<1>3. TypeOK'
  BY <1>1, <1>2 DEF SemInv, Base, TypeOK, taskVars
<1>4. OwnersAgree' /\ UnusedAreFree'
  BY <1>1, <1>2, TasksFinite DEF SemInv, Base, OwnersAgree, UnusedAreFree, taskVars
<1>5. WaitersListed' /\ StepOK' /\ WaitsOnce'
  BY <1>1 DEF SemInv, Base, WaitersListed, StepOK, WaitsOnce, taskVars
<1>6. UrgentFirst' /\ LentOnTheWay' /\ LentAhead' /\ Returned'
  BY <1>1 DEF SemInv, UrgentFirst, LentOnTheWay, Lent, LentAhead, Waiting, Returned, taskVars
<1> QED BY <1>3, <1>4, <1>5, <1>6 DEF SemInv, Base

LEMMA TakesKeeps ==
  ASSUME SemInv, NEW t \in Tasks, NEW m \in Mutexes, Takes(t, m)
  PROVE  SemInv'
<1>1. /\ m \in used /\ count[m] > 0 /\ PrioLockFree
      /\ count' = [count EXCEPT ![m] = @ - 1]
      /\ owner' = [owner EXCEPT ![m] = t]
      /\ held' = [held EXCEPT ![t] = @ \cup {m}]
      /\ UNCHANGED <<used, recur, list, prio, orig, status, taskPend, step, setting, stale, unlent>>
  BY DEF Takes, Usable, history
<1>2. /\ m \in Sems /\ count \in [Sems -> 0..MaxCount] /\ owner \in [Mutexes -> Tasks \cup {NoTask}]
      /\ held \in [Tasks -> SUBSET Mutexes]
  BY DEF SemInv, Base, TypeOK, Sems
<1>3. owner[m] = NoTask /\ count[m] = 1 /\ list[m] = << >>
  BY <1>1, <1>2 DEF SemInv, Base, OwnersAgree, WaitersListed
<1>4. /\ count' \in [Sems -> 0..MaxCount] /\ count'[m] = 0
      /\ \A s \in Sems : s # m => count'[s] = count[s]
      /\ owner' \in [Mutexes -> Tasks \cup {NoTask}] /\ owner'[m] = t
      /\ \A n \in Mutexes : n # m => owner'[n] = owner[n]
      /\ held' \in [Tasks -> SUBSET Mutexes] /\ held'[t] = held[t] \cup {m}
      /\ \A u \in Tasks : u # t => held'[u] = held[u]
  BY <1>1, <1>2, <1>3, NumbersOK
<1>5. TypeOK'
  BY <1>1, <1>4 DEF SemInv, Base, TypeOK
<1>6. OwnersAgree'
  <2>1. \A u \in Tasks, n \in Mutexes : n \in held'[u] <=> owner'[n] = u
    BY <1>3, <1>4, TasksFinite DEF SemInv, Base, OwnersAgree
  <2>2. \A n \in Mutexes \cap used' : count'[n] = (IF owner'[n] = NoTask THEN 1 ELSE 0)
    BY <1>1, <1>4, TasksFinite DEF SemInv, Base, OwnersAgree, Sems
  <2>3. \A n \in Mutexes : owner'[n] = NoTask => recur'[n] = 0
    BY <1>1, <1>4, TasksFinite DEF SemInv, Base, OwnersAgree
  <2> QED BY <2>1, <2>2, <2>3 DEF OwnersAgree
<1>7. UnusedAreFree' /\ WaitsOnce'
  BY <1>1, <1>4 DEF SemInv, Base, UnusedAreFree, WaitsOnce
<1>8. WaitersListed'
  BY <1>1, <1>4 DEF SemInv, Base, WaitersListed
<1>9. StepOK'
  BY <1>1, IdleFacts DEF StepOK
<1>10. UrgentFirst'
  BY <1>1 DEF SemInv, UrgentFirst
<1>11. LentOnTheWay' /\ LentAhead'
  <2> SUFFICES ASSUME NEW n \in Mutexes, NEW u \in Tasks, Waiting(u, n)'
               PROVE  u \in unlent' \/ prio'[owner'[n]] <= prio'[u]
    BY <1>1, IdleFacts DEF LentOnTheWay, Lent, LentAhead
  <2>1. Waiting(u, n)
    BY <1>1 DEF Waiting
  <2>2. n # m
    BY <2>1, <1>3, WaiterFacts DEF SemInv
  <2>3. u \in unlent \/ prio[owner[n]] <= prio[u]
    BY <1>1, <2>1, IdleFacts DEF SemInv, LentOnTheWay, Lent
  <2> QED BY <1>1, <1>4, <2>2, <2>3
<1>12. Returned'
  BY <1>1, <1>4, IdleFacts DEF SemInv, Returned
<1> QED BY <1>5, <1>6, <1>7, <1>8, <1>9, <1>10, <1>11, <1>12 DEF SemInv, Base

LEMMA WaitsKeeps ==
  ASSUME SemInv, NEW t \in Tasks, NEW m \in Mutexes, NEW timed, Waits(t, m, timed)
  PROVE  SemInv'
<1>1. /\ status[t] = {} /\ m \in used /\ count[m] = 0 /\ PrioLockFree /\ Pends(t, m, timed)
      /\ step' = [op |-> "pend", task |-> t, sem |-> m, at |-> owner[m], prio |-> 0]
      /\ UNCHANGED <<used, count, owner, recur, prio, orig, held, setting, stale, unlent>>
  BY DEF Waits, Usable, Runs, history
<1>2. /\ m \in Sems /\ list \in [Sems -> Seq(Tasks)]
      /\ prio[t] \in Prios /\ prio \in [Tasks -> Nat] /\ prio[t] \in Nat
  BY NumbersOK DEF SemInv, Base, TypeOK, Sems, Prios
<1>3. owner[m] \in Tasks /\ m \in held[owner[m]]
  BY <1>1 DEF SemInv, Base, TypeOK, OwnersAgree
<1>4. /\ list' \in [Sems -> Seq(Tasks)]
      /\ status' \in [Tasks -> SUBSET {"PEND", "RW_PEND", "TIMEOUT"}]
      /\ taskPend' \in [Tasks -> Sems \cup {NoSem}]
      /\ WaitersListed' /\ WaitsOnce'
      /\ taskPend'[t] = m
      /\ \A u \in Tasks : u # t => status'[u] = status[u] /\ taskPend'[u] = taskPend[u]
      /\ \A n \in Mutexes : list'[n] = IF n = m THEN Inserted(list[n], t, prio[t]) ELSE list[n]
  BY <1>1, <1>2, PendFacts DEF SemInv
<1>5. step' \in Steps /\ step'.op = "pend" /\ step'.at = owner[m] /\ step'.task = t
  BY <1>1, <1>2, <1>3, NumbersOK DEF Steps, Prios
<1>6. TypeOK'
  BY <1>1, <1>4, <1>5 DEF SemInv, Base, TypeOK
<1>7. OwnersAgree' /\ UnusedAreFree'
  BY <1>1 DEF SemInv, Base, OwnersAgree, UnusedAreFree
<1>8. StepOK'
  BY <1>1, <1>3, <1>5 DEF StepOK
<1>9. UrgentFirst'
  <2>1. ~Contains(list[m], t) /\ NoDuplicates(list[m])
    BY <1>1, <1>2 DEF SemInv, Base, WaitersListed
  <2>2. SortedBy(list[m], prio)
    BY DEF SemInv, UrgentFirst, SortedBy
  <2>3. SortedBy(Inserted(list[m], t, prio[t]), prio)
    BY <1>2, <2>1, <2>2, InsertedSorted DEF SemInv, Base
  <2>4. \A n \in Mutexes : SortedBy(list'[n], prio)
    BY <1>4, <2>3 DEF SemInv, UrgentFirst, SortedBy
  <2> QED BY <1>1, <2>4 DEF UrgentFirst, SortedBy
<1>10. LentOnTheWay'
  <2> SUFFICES ASSUME NEW n \in Mutexes, NEW u \in Tasks, Waiting(u, n)'
               PROVE  \/ u \in unlent' \/ prio'[owner'[n]] <= prio'[u]
                      \/ step'.op = "pend" /\ owner'[n] = step'.at /\ u = step'.task
    BY DEF LentOnTheWay, Lent
  <2>1. CASE u = t
    <3>1. n = m
      BY <2>1, <1>4 DEF Waiting
    <3> QED BY <2>1, <3>1, <1>1, <1>5
  <2>2. CASE u # t
    <3>1. Waiting(u, n)
      BY <2>2, <1>4 DEF Waiting
    <3>2. u \in unlent \/ prio[owner[n]] <= prio[u]
      BY <1>1, <3>1, IdleFacts DEF SemInv, LentOnTheWay, Lent
    <3> QED BY <1>1, <3>2
  <2> QED BY <2>1, <2>2
<1>11. Returned' /\ LentAhead'
  BY <1>1, <1>5, IdleFacts DEF SemInv, Returned, LentAhead
<1> QED BY <1>4, <1>6, <1>7, <1>8, <1>9, <1>10, <1>11 DEF SemInv, Base

LEMMA InheritBeginsKeeps ==
  ASSUME SemInv, InheritBegins
  PROVE  SemInv'
<1>1. /\ step.op = "pend" /\ step.task \in Tasks /\ step \in Steps
      /\ step' = [step EXCEPT !.op = "inherit", !.prio = prio[step.task]]
      /\ UNCHANGED <<used, count, owner, recur, list, prio, orig, status, taskPend, held, setting, stale, unlent>>
  BY DEF InheritBegins, SemInv, Base, StepOK, TypeOK, semVars, taskVars, history
<1>2. prio[step.task] \in Prios /\ prio[step.task] \in Nat
  BY <1>1, NumbersOK DEF SemInv, Base, TypeOK, Prios
<1>3. /\ step' \in Steps /\ step'.op = "inherit" /\ step'.at = step.at
      /\ step'.prio = prio[step.task]
  BY <1>1, <1>2 DEF Steps
<1>4. TypeOK'
  BY <1>1, <1>3 DEF SemInv, Base, TypeOK
<1>5. OwnersAgree' /\ UnusedAreFree' /\ WaitersListed' /\ WaitsOnce'
  BY <1>1 DEF SemInv, Base, OwnersAgree, UnusedAreFree, WaitersListed, WaitsOnce
<1>6. StepOK'
  BY <1>1, <1>3 DEF SemInv, Base, StepOK
<1>7. UrgentFirst'
  BY <1>1 DEF SemInv, UrgentFirst
<1>8. LentOnTheWay'
  <2> SUFFICES ASSUME NEW n \in Mutexes, NEW u \in Tasks, Waiting(u, n)'
               PROVE  \/ u \in unlent' \/ prio'[owner'[n]] <= prio'[u]
                      \/ step'.op = "inherit" /\ owner'[n] = step'.at /\ step'.prio <= prio'[u]
    BY DEF LentOnTheWay, Lent
  <2>1. Waiting(u, n)
    BY <1>1 DEF Waiting
  <2>2. \/ u \in unlent \/ prio[owner[n]] <= prio[u]
        \/ owner[n] = step.at /\ u = step.task
    BY <1>1, <2>1 DEF SemInv, LentOnTheWay, Lent
  <2>3. prio[step.task] <= prio[step.task]
    BY <1>2
  <2> QED BY <1>1, <1>3, <2>2, <2>3
<1>9. LentAhead' /\ Returned'
  BY <1>1, <1>3 DEF SemInv, LentAhead, Returned
<1> QED BY <1>4, <1>5, <1>6, <1>7, <1>8, <1>9 DEF SemInv, Base

LEMMA InheritKeeps ==
  ASSUME SemInv, Inherit
  PROVE  SemInv'
<1> DEFINE o == step.at
           p == step.prio
<1>1. /\ step.op = "inherit" /\ o \in Tasks /\ held[o] # {} /\ step \in Steps
      /\ p \in Prios /\ p \in Nat
      /\ prio \in [Tasks -> Prios] /\ prio \in [Tasks -> Nat] /\ list \in [Sems -> Seq(Tasks)]
      /\ UNCHANGED <<used, count, owner, recur, orig, status, taskPend, held, setting, stale, unlent>>
  <2>1. step.op = "inherit" /\ UNCHANGED <<stale, unlent>>
    BY DEF Inherit, history
  <2>2. step \in Steps
    BY DEF SemInv, Base, TypeOK
  <2>3. p \in Prios
    BY <2>2 DEF Steps
  <2>4. o \in Tasks /\ held[o] # {}
    BY <2>1 DEF SemInv, Base, StepOK
  <2> QED BY <2>1, <2>2, <2>3, <2>4, NumbersOK DEF SemInv, Base, TypeOK, Prios, Inherit
<1>2. CASE prio[o] <= p
  <2>1. step' = Idle /\ UNCHANGED <<prio, list>>
    BY <1>2 DEF Inherit
  <2>2. step' \in Steps /\ step'.op = "none"
    BY <2>1, IdleType
  <2>3. Base'
    <3>1. TypeOK'
      BY <1>1, <2>1, <2>2 DEF SemInv, Base, TypeOK
    <3>2. OwnersAgree' /\ UnusedAreFree' /\ WaitersListed' /\ WaitsOnce'
      BY <1>1, <2>1 DEF SemInv, Base, OwnersAgree, UnusedAreFree, WaitersListed, WaitsOnce
    <3>3. StepOK'
      BY <2>1, <2>2 DEF StepOK, Idle
    <3> QED BY <3>1, <3>2, <3>3 DEF Base
  <2>4. UrgentFirst'
    BY <2>1 DEF SemInv, UrgentFirst
  <2>5. ASSUME NEW m \in Mutexes, NEW u \in Tasks, Waiting(u, m)'
        PROVE  u \in unlent' \/ prio'[owner'[m]] <= prio'[u]
    <3>1. Waiting(u, m)
      BY <1>1, <2>5 DEF Waiting
    <3>2. u \in unlent \/ prio[owner[m]] <= prio[u] \/ (owner[m] = o /\ p <= prio[u])
      BY <1>1, <3>1 DEF SemInv, LentOnTheWay, Lent
    <3>3. prio[u] \in Nat /\ prio[o] \in Nat
      BY <1>1
    <3>4. u \in unlent \/ prio[owner[m]] <= prio[u]
      BY <1>1, <1>2, <3>2, <3>3
    <3> QED BY <1>1, <2>1, <3>4
  <2>6. LentOnTheWay' /\ LentAhead'
    BY <2>2, <2>5 DEF LentOnTheWay, Lent, LentAhead
  <2>7. Returned'
    BY <1>1, <2>1, <2>2 DEF SemInv, Returned
  <2> QED BY <2>3, <2>4, <2>6, <2>7 DEF SemInv
<1>3. CASE ~ (prio[o] <= p)
  <2>1. /\ prio' = [prio EXCEPT ![o] = p] /\ list' = Resorted(o, p) /\ step' = Onward(o)
    BY <1>3 DEF Inherit
  <2> HIDE DEF o, p
  <2>2. /\ prio' \in [Tasks -> Prios] /\ prio' \in [Tasks -> Nat] /\ prio'[o] = p
        /\ \A u \in Tasks : u # o => prio'[u] = prio[u]
    BY <1>1, <2>1
  <2>3. /\ list' \in [Sems -> Seq(Tasks)] /\ WaitersListed'
        /\ \A n \in Sems : (OnMutex(o) /\ taskPend[o] = n) \/ list'[n] = list[n]
    BY <1>1, <2>1, ResortFacts DEF SemInv
  <2>4. ASSUME OnMutex(o)
        PROVE  /\ taskPend[o] \in Mutexes /\ Waiting(o, taskPend[o])
               /\ step' \in Steps /\ step'.op = "inherit" /\ step'.prio = p
               /\ step'.at = owner[taskPend[o]] /\ owner[taskPend[o]] \in Tasks
               /\ held[owner[taskPend[o]]] # {}
    <3>1. taskPend[o] \in Mutexes /\ Waiting(o, taskPend[o])
      BY <2>4 DEF OnMutex, Waiting
    <3>2. owner[taskPend[o]] \in Tasks /\ held[owner[taskPend[o]]] # {}
      BY <1>1, <3>1, WaiterFacts DEF SemInv
    <3>3. step' = [step EXCEPT !.at = owner[taskPend[o]]]
      BY <2>1, <2>4 DEF Onward
    <3> QED BY <1>1, <3>1, <3>2, <3>3 DEF Steps, p
  <2>5. ASSUME ~OnMutex(o)
        PROVE  step' = Idle /\ step' \in Steps /\ step'.op = "none"
    BY <2>1, <2>5, IdleType DEF Onward
  <2>6. Base'
    <3>1. TypeOK'
      BY <1>1, <2>2, <2>3, <2>4, <2>5 DEF SemInv, Base, TypeOK
    <3>2. OwnersAgree' /\ UnusedAreFree' /\ WaitsOnce'
      BY <1>1 DEF SemInv, Base, OwnersAgree, UnusedAreFree, WaitsOnce
    <3>3. StepOK'
      BY <1>1, <2>4, <2>5 DEF StepOK, Idle
    <3> QED BY <2>3, <3>1, <3>2, <3>3 DEF Base
  <2>7. UrgentFirst'
    <3>1. ASSUME NEW m \in Mutexes
          PROVE  SortedBy(list'[m], prio')
      <4>1. /\ m \in Sems /\ list[m] \in Seq(Tasks) /\ NoDuplicates(list[m])
            /\ SortedBy(list[m], prio)
        BY <1>1 DEF Sems, SemInv, Base, WaitersListed, UrgentFirst, SortedBy
      <4>2. CASE OnMutex(o) /\ taskPend[o] = m
        <5> DEFINE rest == RemoveFirst(list[m], o)
        <5>1. rest \in Seq(Tasks) /\ NoDuplicates(rest) /\ ~Contains(rest, o)
          BY <4>1, RemoveFacts
        <5>2. SortedBy(rest, prio)
          BY <4>1, RemoveSorted
        <5>3. list'[m] = Inserted(rest, o, p)
          BY <1>1, <2>1, <4>1, <4>2 DEF Resorted
        <5> HIDE DEF rest
        <5>4. SortedBy(Inserted(rest, o, p), prio')
          BY <1>1, <2>2, <5>1, <5>2, InsertedSorted DEF SemInv, Base
        <5> QED BY <5>3, <5>4
      <4>3. CASE ~ (OnMutex(o) /\ taskPend[o] = m)
        <5>1. list'[m] = list[m]
          BY <2>3, <4>1, <4>3
        <5>2. ~Contains(list[m], o)
          BY <1>1, <4>1, <4>3 DEF SemInv, Base, WaitersListed, OnMutex
        <5>3. \A j \in 1..Len(list[m]) : list[m][j] \in Tasks /\ list[m][j] # o
          BY <4>1, <5>2 DEF Contains
        <5>4. \A j \in 1..Len(list[m]) : prio'[list[m][j]] = prio[list[m][j]]
          BY <2>2, <5>3
        <5> QED BY <4>1, <5>1, <5>4 DEF SortedBy
      <4> QED BY <4>2, <4>3
    <3> QED BY <3>1 DEF UrgentFirst, SortedBy
  <2>8. LentOnTheWay' /\ LentAhead'
    <3> SUFFICES ASSUME NEW m \in Mutexes, NEW u \in Tasks, Waiting(u, m)'
                 PROVE  \/ u \in unlent' \/ prio'[owner'[m]] <= prio'[u]
                        \/ step'.op = "inherit" /\ owner'[m] = step'.at /\ step'.prio <= prio'[u]
      BY <2>4, <2>5 DEF LentOnTheWay, Lent, LentAhead
    <3>1. Waiting(u, m)
      BY <1>1 DEF Waiting
    <3>2. owner[m] \in Tasks /\ owner'[m] = owner[m]
      BY <1>1, <3>1, WaiterFacts DEF SemInv
    <3>3. u \in unlent \/ prio[owner[m]] <= prio[u] \/ (owner[m] = o /\ p <= prio[u])
      BY <1>1, <3>1 DEF SemInv, LentOnTheWay, Lent, o, p
    <3>4. prio[u] \in Nat /\ prio[o] \in Nat /\ prio'[u] \in Nat /\ prio[owner[m]] \in Nat
      BY <1>1, <2>2, <3>2
    <3>5. CASE u = o
      <4>1. OnMutex(o) /\ taskPend[o] = m
        BY <3>1, <3>5 DEF Waiting, OnMutex
      <4>2. step'.op = "inherit" /\ step'.at = owner[m] /\ step'.prio = p
        BY <2>4, <4>1
      <4>3. prio'[u] = p /\ p <= p
        BY <1>1, <2>2, <3>5
      <4> QED BY <3>2, <4>2, <4>3
    <3>6. CASE u # o /\ owner[m] = o
      <4>1. u \in unlent \/ p <= prio[u]
        BY <1>1, <1>3, <3>3, <3>4, <3>6 DEF o, p
      <4> QED BY <1>1, <2>2, <3>2, <3>6, <4>1
    <3>7. CASE u # o /\ owner[m] # o
      BY <1>1, <2>2, <3>2, <3>3, <3>7
    <3> QED BY <3>5, <3>6, <3>7
  <2>9. Returned'
    <3>1. ASSUME NEW u \in Tasks, held[u] = {}, u \notin stale
          PROVE  prio'[u] = orig[u]
      <4>1. u # o
        BY <1>1, <3>1 DEF o
      <4> QED BY <1>1, <2>2, <3>1, <4>1 DEF SemInv, Returned
    <3> QED BY <1>1, <2>4, <2>5, <3>1 DEF Returned
  <2> QED BY <2>6, <2>7, <2>8, <2>9 DEF SemInv
<1> QED BY <1>2, <1>3

LEMMA RestoreKeeps ==
  ASSUME SemInv, Restore
  PROVE  SemInv'
<1> DEFINE t == step.task
<1>1. /\ step.op = "restore" /\ step' = Idle
      /\ UNCHANGED <<semVars, orig, status, taskPend, held, setting, unlent>>
  BY DEF Restore
<1>2. PICK seen \in {step.prio, orig[t]} :
        IF prio[t] = seen
          THEN prio' = prio /\ stale' = stale \ {t}
          ELSE /\ prio' = [prio EXCEPT ![t] = MostUrgent(held[t], step.prio)]
               /\ stale' = IF orig[t] = step.prio THEN stale \ {t} ELSE stale \cup {t}
  BY DEF Restore
<1>3. /\ t \in Tasks /\ "PEND" \notin status[t] /\ step.prio \in Prios /\ prio \in [Tasks -> Prios]
      /\ held[t] \in SUBSET Mutexes /\ orig[t] \in Prios
  <2>1. step \in Steps
    BY DEF SemInv, Base, TypeOK
  <2>2. step.prio \in Prios
    BY <2>1 DEF Steps
  <2>3. t \in Tasks /\ "PEND" \notin status[t]
    BY <1>1 DEF SemInv, Base, StepOK
  <2> QED BY <2>2, <2>3 DEF SemInv, Base, TypeOK
<1>4. /\ MostUrgent(held[t], step.prio) \in Prios
      /\ \A m \in held[t], u \in Tasks : Waiting(u, m) => MostUrgent(held[t], step.prio) <= prio[u]
      /\ held[t] = {} => MostUrgent(held[t], step.prio) = step.prio
  BY <1>3, MostUrgentFacts DEF SemInv
<1>5. step' \in Steps /\ step'.op = "none"
  BY <1>1, IdleType
<1> HIDE DEF t
<1>6. /\ prio' \in [Tasks -> Prios]
      /\ \A u \in Tasks : u # t => prio'[u] = prio[u] /\ (u \in stale' <=> u \in stale)
      /\ prio'[t] = prio[t] \/ prio'[t] = MostUrgent(held[t], step.prio)
      /\ stale' \subseteq Tasks
  <2>1. stale \subseteq Tasks
    BY DEF SemInv, Base, TypeOK
  <2>2. CASE prio[t] = seen
    <3>1. prio' = prio /\ stale' = stale \ {t}
      BY <1>2, <2>2
    <3> QED BY <1>3, <2>1, <3>1
  <2>3. CASE prio[t] # seen
    <3>1. prio' = [prio EXCEPT ![t] = MostUrgent(held[t], step.prio)]
      BY <1>2, <2>3
    <3>2. stale' = stale \ {t} \/ stale' = stale \cup {t}
      BY <1>2, <2>3
    <3> QED BY <1>3, <1>4, <2>1, <3>1, <3>2
  <2> QED BY <2>2, <2>3
<1>7. Base'
  <2>1. TypeOK'
    BY <1>1, <1>3, <1>5, <1>6 DEF SemInv, Base, TypeOK, semVars
  <2>2. OwnersAgree' /\ UnusedAreFree' /\ WaitersListed' /\ WaitsOnce'
    BY <1>1 DEF SemInv, Base, OwnersAgree, UnusedAreFree, WaitersListed, WaitsOnce, semVars
  <2>3. StepOK'
    BY <1>1, <1>5 DEF StepOK, Idle
  <2> QED BY <2>1, <2>2, <2>3 DEF Base
<1>8. UrgentFirst'
  <2>1. ASSUME NEW m \in Mutexes, NEW j \in 1..Len(list[m])
        PROVE  prio'[list[m][j]] = prio[list[m][j]]
    <3>1. m \in Sems /\ list[m] \in Seq(Tasks)
      BY DEF Sems, SemInv, Base, TypeOK
    <3>2. list[m][j] \in Tasks /\ Contains(list[m], list[m][j])
      BY <3>1 DEF Contains
    <3>3. list[m][j] # t
      BY <1>3, <3>1, <3>2 DEF SemInv, Base, WaitersListed
    <3> QED BY <1>6, <3>2, <3>3
  <2> QED BY <1>1, <2>1 DEF SemInv, UrgentFirst, semVars
<1>9. LentOnTheWay' /\ LentAhead'
  <2> SUFFICES ASSUME NEW m \in Mutexes, NEW u \in Tasks, Waiting(u, m)'
               PROVE  u \in unlent' \/ prio'[owner'[m]] <= prio'[u]
    BY <1>5 DEF LentOnTheWay, Lent, LentAhead
  <2>1. Waiting(u, m) /\ owner' = owner
    BY <1>1 DEF Waiting, semVars
  <2>2. owner[m] \in Tasks /\ m \in held[owner[m]]
    BY <2>1, WaiterFacts DEF SemInv
  <2>3. u \in unlent \/ prio[owner[m]] <= prio[u]
    BY <1>1, <2>1 DEF SemInv, LentOnTheWay, Lent
  <2>4. u # t /\ prio'[u] = prio[u] /\ unlent' = unlent
    BY <1>1, <1>3, <1>6, <2>1 DEF Waiting
  <2>5. CASE owner[m] = t
    BY <1>4, <1>6, <2>1, <2>2, <2>3, <2>4, <2>5
  <2>6. CASE owner[m] # t
    BY <1>6, <2>1, <2>2, <2>3, <2>4, <2>6
  <2> QED BY <2>5, <2>6
<1>10. Returned'
  <2>1. ASSUME NEW u \in Tasks, held[u] = {}, u \notin stale'
        PROVE  prio'[u] = orig[u]
    <3>1. CASE u = t
      <4>1. orig[t] \in {step.prio, prio[t]}
        BY <1>1 DEF SemInv, Returned, t
      <4>2. CASE prio[t] = seen
        <5>1. prio' = prio
          BY <1>2, <4>2
        <5> QED BY <3>1, <4>1, <4>2, <5>1
      <4>3. CASE prio[t] # seen
        <5>1. /\ prio' = [prio EXCEPT ![t] = MostUrgent(held[t], step.prio)]
              /\ stale' = IF orig[t] = step.prio THEN stale \ {t} ELSE stale \cup {t}
          BY <1>2, <4>3
        <5>2. orig[t] = step.prio
          BY <2>1, <3>1, <5>1
        <5>3. prio'[t] = step.prio
          BY <1>3, <1>4, <2>1, <3>1, <5>1
        <5> QED BY <3>1, <5>2, <5>3
      <4> QED BY <4>2, <4>3
    <3>2. CASE u # t
      <4>1. u \notin stale
        BY <1>6, <2>1, <3>2
      <4>2. prio[u] = orig[u]
        BY <2>1, <3>2, <4>1 DEF SemInv, Returned, t
      <4> QED BY <1>6, <3>2, <4>2
    <3> QED BY <3>1, <3>2
  <2> QED BY <1>1, <1>5, <2>1 DEF Returned
<1> QED BY <1>7, <1>8, <1>9, <1>10 DEF SemInv

LEMMA PostsKeeps ==
  ASSUME SemInv, NEW t \in Tasks, NEW m \in Mutexes, Posts(t, m)
  PROVE  SemInv'
<1>1. /\ status[t] = {} /\ PrioLockFree /\ m \in used /\ owner[m] = t /\ recur[m] = 0
      /\ UNCHANGED <<used, recur, prio, orig, setting, stale>>
  BY DEF Posts, Runs, Usable
<1>2. /\ m \in Sems /\ count \in [Sems -> 0..MaxCount] /\ owner \in [Mutexes -> Tasks \cup {NoTask}]
      /\ held \in [Tasks -> SUBSET Mutexes] /\ orig[t] \in Prios /\ unlent \subseteq Tasks
      /\ list \in [Sems -> Seq(Tasks)]
      /\ status \in [Tasks -> SUBSET {"PEND", "RW_PEND", "TIMEOUT"}]
      /\ taskPend \in [Tasks -> Sems \cup {NoSem}]
  BY DEF SemInv, Base, TypeOK, Sems
<1>4. count[m] = 0 /\ m \in held[t]
  BY <1>1, TasksFinite DEF SemInv, Base, OwnersAgree
<1>5. \A n \in Mutexes, u \in Tasks : Waiting(u, n) => u \in unlent \/ prio[owner[n]] <= prio[u]
  BY <1>1, IdleFacts DEF SemInv, LentOnTheWay, Lent
<1>6. CASE list[m] # << >>
  <2> DEFINE next == Head(list[m])
  <2>1. /\ Wakes(m) /\ UNCHANGED <<count, owner, held>>
        /\ step' = [op |-> "pass", task |-> t, sem |-> m, at |-> next, prio |-> 0]
        /\ unlent' = unlent \ ToSet(list[m])
    BY <1>6 DEF Posts
  <2>2. /\ next \in Tasks /\ Waiting(next, m)
        /\ \A u \in Tasks : Waiting(u, m) => prio[next] <= prio[u]
    BY <1>6, HeadFacts DEF SemInv
  <2>3. /\ list' \in [Sems -> Seq(Tasks)]
        /\ status' \in [Tasks -> SUBSET {"PEND", "RW_PEND", "TIMEOUT"}]
        /\ taskPend' \in [Tasks -> Sems \cup {NoSem}]
        /\ WaitersListed' /\ WaitsOnce'
        /\ status'[next] = {}
        /\ \A u \in Tasks : u # next => status'[u] = status[u] /\ taskPend'[u] = taskPend[u]
        /\ \A n \in Sems : list'[n] = IF n = m THEN Tail(list[n]) ELSE list[n]
    BY <1>1, <1>2, <1>6, <2>1, WakeFacts DEF SemInv
  <2> HIDE DEF next
  <2>4. next # t
    BY <1>1, <2>2 DEF Waiting
  <2>5. /\ step' \in Steps /\ step'.op = "pass" /\ step'.task = t /\ step'.sem = m
        /\ step'.at = next
    BY <1>2, <2>1, <2>2, NumbersOK DEF Steps, Prios
  <2>6. unlent' \subseteq Tasks
        /\ \A u \in Tasks, n \in Mutexes : Waiting(u, n) /\ n # m => (u \in unlent <=> u \in unlent')
    <3>1. ASSUME NEW u \in Tasks, NEW n \in Mutexes, Waiting(u, n), n # m
          PROVE  u \notin ToSet(list[m])
      <4>1. ~Contains(list[m], u)
        BY <1>2, <3>1 DEF SemInv, Base, WaitersListed, Waiting
      <4> QED BY <1>2, <4>1 DEF ToSet, Contains
    <3> QED BY <1>2, <2>1, <3>1
  <2>7. TypeOK'
    BY <1>1, <2>1, <2>3, <2>5, <2>6 DEF SemInv, Base, TypeOK
  <2>8. OwnersAgree' /\ UnusedAreFree'
    BY <1>1, <2>1 DEF SemInv, Base, OwnersAgree, UnusedAreFree
  <2>9. StepOK'
    BY <1>1, <2>1, <2>2, <2>3, <2>4, <2>5 DEF StepOK
  <2>10. UrgentFirst'
    <3>1. ASSUME NEW n \in Mutexes PROVE SortedBy(list'[n], prio)
      <4>1. n \in Sems /\ list[n] \in Seq(Tasks) /\ SortedBy(list[n], prio)
        BY <1>2 DEF Sems, SemInv, UrgentFirst, SortedBy
      <4>2. CASE n = m
        <5>1. SortedBy(Tail(list[m]), prio)
          BY <1>6, <4>1, <4>2, TailSorted
        <5> QED BY <2>3, <4>1, <4>2, <5>1
      <4>3. CASE n # m
        BY <2>3, <4>1, <4>3
      <4> QED BY <4>2, <4>3
    <3> QED BY <1>1, <3>1 DEF UrgentFirst, SortedBy
  <2>11. LentOnTheWay' /\ LentAhead'
    <3>1. ASSUME NEW n \in Mutexes, NEW u \in Tasks, Waiting(u, n)'
          PROVE  Waiting(u, n)
      BY <2>3, <3>1 DEF Waiting
    <3>2. ASSUME NEW n \in Mutexes, NEW u \in Tasks, Waiting(u, n)', n # m
          PROVE  u \in unlent' \/ prio'[owner'[n]] <= prio'[u]
      BY <1>1, <1>5, <2>1, <2>6, <3>1, <3>2
    <3>3. LentOnTheWay'
      BY <2>5, <3>2 DEF LentOnTheWay, Lent
    <3>4. \A u \in Tasks : Waiting(u, m)' => prio'[next] <= prio'[u]
      BY <1>1, <2>2, <3>1
    <3> QED BY <2>5, <3>3, <3>4 DEF LentAhead
  <2>12. Returned'
    <3>1. ASSUME NEW u \in Tasks, held[u] = {}, u \notin stale
          PROVE  prio[u] = orig[u]
      BY <1>1, <3>1, IdleFacts DEF SemInv, Returned
    <3> QED BY <1>1, <2>1, <2>5, <3>1 DEF Returned
  <2> QED BY <2>3, <2>7, <2>8, <2>9, <2>10, <2>11, <2>12 DEF SemInv, Base
<1>7. CASE list[m] = << >>
  <2>1. /\ count' = [count EXCEPT ![m] = @ + 1] /\ owner' = [owner EXCEPT ![m] = NoTask]
        /\ held' = [held EXCEPT ![t] = @ \ {m}]
        /\ step' = [op |-> "restore", task |-> t, sem |-> m, at |-> t, prio |-> orig[t]]
        /\ UNCHANGED <<list, status, taskPend, unlent>>
    BY <1>7 DEF Posts
  <2>2. /\ count' \in [Sems -> 0..MaxCount] /\ count'[m] = 1
        /\ \A n \in Sems : n # m => count'[n] = count[n]
        /\ owner' \in [Mutexes -> Tasks \cup {NoTask}] /\ owner'[m] = NoTask
        /\ \A n \in Mutexes : n # m => owner'[n] = owner[n]
        /\ held' \in [Tasks -> SUBSET Mutexes] /\ held'[t] = held[t] \ {m}
        /\ \A u \in Tasks : u # t => held'[u] = held[u]
    BY <1>2, <1>4, <2>1, NumbersOK
  <2>11. step' \in Steps /\ step'.op = "restore" /\ step'.task = t /\ step'.prio = orig[t]
    BY <1>2, <2>1 DEF Steps
  <2>3. TypeOK'
    BY <1>1, <2>11, <2>1, <2>2 DEF SemInv, Base, TypeOK
  <2>4. OwnersAgree'
    <3>1. ASSUME NEW u \in Tasks, NEW n \in Mutexes PROVE n \in held'[u] <=> owner'[n] = u
      <4>1. n \in held[u] <=> owner[n] = u
        BY DEF SemInv, Base, OwnersAgree
      <4>2. CASE n = m
        BY <1>1, <4>1, <4>2, <2>2, TasksFinite
      <4>3. CASE n # m
        BY <4>1, <4>3, <2>2
      <4> QED BY <4>2, <4>3
    <3>2. \A n \in Mutexes \cap used' : count'[n] = (IF owner'[n] = NoTask THEN 1 ELSE 0)
      BY <1>1, <2>2 DEF SemInv, Base, OwnersAgree, Sems
    <3>3. \A n \in Mutexes : owner'[n] = NoTask => recur'[n] = 0
      BY <1>1, <2>2 DEF SemInv, Base, OwnersAgree
    <3> QED BY <3>1, <3>2, <3>3 DEF OwnersAgree
  <2>5. UnusedAreFree' /\ WaitsOnce'
    BY <1>1, <2>1, <2>2 DEF SemInv, Base, UnusedAreFree, WaitsOnce
  <2>6. WaitersListed'
    BY <1>1, <1>7, <2>1, <2>2 DEF SemInv, Base, WaitersListed
  <2>7. StepOK'
    BY <1>1, <2>11, <2>1 DEF StepOK
  <2>8. UrgentFirst'
    BY <1>1, <2>1 DEF SemInv, UrgentFirst
  <2>9. LentOnTheWay' /\ LentAhead'
    <3> SUFFICES ASSUME NEW n \in Mutexes, NEW u \in Tasks, Waiting(u, n)'
                 PROVE  u \in unlent' \/ prio'[owner'[n]] <= prio'[u]
      BY <2>11 DEF LentOnTheWay, Lent, LentAhead
    <3>1. Waiting(u, n)
      BY <2>1 DEF Waiting
    <3>2. n # m
      BY <1>7, <3>1, WaiterFacts DEF SemInv
    <3> QED BY <1>1, <1>5, <2>1, <2>2, <3>1, <3>2
  <2>10. Returned'
    <3>1. ASSUME NEW u \in Tasks, held'[u] = {}, u # t, u \notin stale
          PROVE  prio[u] = orig[u]
      BY <1>1, <2>2, <3>1, IdleFacts DEF SemInv, Returned
    <3> QED BY <1>1, <2>11, <3>1 DEF Returned
  <2> QED BY <2>3, <2>4, <2>5, <2>6, <2>7, <2>8, <2>9, <2>10 DEF SemInv, Base
<1> QED BY <1>6, <1>7

LEMMA HandsOverKeeps ==
  ASSUME SemInv, HandsOver
  PROVE  SemInv'
<1> DEFINE t == step.task
           m == step.sem
           next == step.at
<1>1. /\ step.op = "pass"
      /\ owner' = [owner EXCEPT ![m] = next]
      /\ held' = [held EXCEPT ![t] = @ \ {m}, ![next] = @ \cup {m}]
      /\ step' = [op |-> "restore", task |-> t, sem |-> m, at |-> t, prio |-> orig[t]]
      /\ UNCHANGED <<used, count, recur, list, prio, orig, status, taskPend, setting, stale, unlent>>
  BY DEF HandsOver, history
<1>2. /\ t \in Tasks /\ "PEND" \notin status[t] /\ m \in Mutexes /\ owner[m] = t
      /\ next \in Tasks /\ next # t
  BY <1>1 DEF SemInv, Base, StepOK
<1>3. /\ owner \in [Mutexes -> Tasks \cup {NoTask}] /\ held \in [Tasks -> SUBSET Mutexes]
      /\ orig[t] \in Prios
  BY <1>2 DEF SemInv, Base, TypeOK
<1>4. \A u \in Tasks : Waiting(u, m) => u \in unlent \/ prio[next] <= prio[u]
  BY <1>1 DEF SemInv, LentAhead
<1>5. \A n \in Mutexes, u \in Tasks : Waiting(u, n) /\ n # m => u \in unlent \/ prio[owner[n]] <= prio[u]
  BY <1>1 DEF SemInv, LentOnTheWay, Lent
<1>6. \A u \in Tasks : held[u] = {} /\ u \notin stale => prio[u] = orig[u]
  BY <1>1 DEF SemInv, Returned
<1> HIDE DEF t, m, next
<1>7. step' \in Steps /\ step'.op = "restore" /\ step'.task = t /\ step'.prio = orig[t]
  BY <1>1, <1>2, <1>3 DEF Steps
<1>8. /\ owner' \in [Mutexes -> Tasks \cup {NoTask}] /\ owner'[m] = next
      /\ \A n \in Mutexes : n # m => owner'[n] = owner[n]
      /\ held' \in [Tasks -> SUBSET Mutexes]
      /\ held'[t] = held[t] \ {m} /\ held'[next] = held[next] \cup {m}
      /\ \A u \in Tasks : u # t /\ u # next => held'[u] = held[u]
  BY <1>1, <1>2, <1>3
<1>9. TypeOK'
  BY <1>1, <1>7, <1>8 DEF SemInv, Base, TypeOK
<1>10. OwnersAgree'
  <2>1. ASSUME NEW u \in Tasks, NEW n \in Mutexes PROVE n \in held'[u] <=> owner'[n] = u
    <3>1. n \in held[u] <=> owner[n] = u
      BY DEF SemInv, Base, OwnersAgree
    <3>2. CASE n = m
      BY <1>2, <1>8, <3>1, <3>2
    <3>3. CASE n # m
      BY <1>2, <1>8, <3>1, <3>3
    <3> QED BY <3>2, <3>3
  <2>2. \A n \in Mutexes \cap used' : count'[n] = (IF owner'[n] = NoTask THEN 1 ELSE 0)
    BY <1>1, <1>2, <1>8, TasksFinite DEF SemInv, Base, OwnersAgree
  <2>3. \A n \in Mutexes : owner'[n] = NoTask => recur'[n] = 0
    BY <1>1, <1>2, <1>8, TasksFinite DEF SemInv, Base, OwnersAgree
  <2> QED BY <2>1, <2>2, <2>3 DEF OwnersAgree
<1>11. UnusedAreFree'
  BY <1>1, <1>2, <1>8, TasksFinite DEF SemInv, Base, UnusedAreFree
<1>12. WaitersListed' /\ WaitsOnce'
  BY <1>1 DEF SemInv, Base, WaitersListed, WaitsOnce
<1>13. StepOK'
  BY <1>1, <1>2, <1>7 DEF StepOK
<1>14. UrgentFirst'
  BY <1>1 DEF SemInv, UrgentFirst
<1>15. LentOnTheWay' /\ LentAhead'
  <2> SUFFICES ASSUME NEW n \in Mutexes, NEW u \in Tasks, Waiting(u, n)'
               PROVE  u \in unlent' \/ prio'[owner'[n]] <= prio'[u]
    BY <1>7 DEF LentOnTheWay, Lent, LentAhead
  <2>1. Waiting(u, n)
    BY <1>1 DEF Waiting
  <2>2. CASE n = m
    BY <1>1, <1>4, <1>8, <2>1, <2>2
  <2>3. CASE n # m
    BY <1>1, <1>5, <1>8, <2>1, <2>3
  <2> QED BY <2>2, <2>3
<1>16. Returned'
  <2>1. ASSUME NEW u \in Tasks, held'[u] = {}, u # t, u \notin stale
        PROVE  prio[u] = orig[u]
    <3>1. held[u] = {}
      BY <1>8, <2>1
    <3> QED BY <1>6, <2>1, <3>1
  <2> QED BY <1>1, <1>7, <2>1 DEF Returned
<1> QED BY <1>9, <1>10, <1>11, <1>12, <1>13, <1>14, <1>15, <1>16 DEF SemInv, Base

\* A step that changes no priority and no ownership, and adds no waiter to a mutex.
LEMMA CalmKeeps ==
  ASSUME SemInv, UNCHANGED <<owner, prio, orig, held, step, stale>>,
         \A m \in Mutexes : SortedBy(list'[m], prio),
         \A m \in Mutexes, u \in Tasks : Waiting(u, m)' => Waiting(u, m) /\ (u \in unlent => u \in unlent')
  PROVE  UrgentFirst' /\ LentOnTheWay' /\ LentAhead' /\ Returned'
<1>1. UrgentFirst' /\ Returned'
  BY DEF SemInv, UrgentFirst, Returned, SortedBy
<1>2. ASSUME NEW m \in Mutexes, NEW u \in Tasks, Waiting(u, m)'
      PROVE  Lent(m, u)'
  <2>1. Waiting(u, m) /\ (u \in unlent => u \in unlent')
    BY <1>2
  <2>2. Lent(m, u)
    BY <2>1 DEF SemInv, LentOnTheWay
  <2> QED BY <2>1, <2>2 DEF Lent
<1>3. ASSUME step.op = "pass", NEW u \in Tasks, Waiting(u, step.sem)'
      PROVE  u \in unlent' \/ prio[step.at] <= prio[u]
  <2>1. step.sem \in Mutexes
    BY <1>3 DEF SemInv, Base, StepOK
  <2>2. Waiting(u, step.sem) /\ (u \in unlent => u \in unlent')
    BY <1>3, <2>1
  <2> QED BY <1>3, <2>2 DEF SemInv, LentAhead
<1> QED BY <1>1, <1>2, <1>3 DEF LentOnTheWay, LentAhead

LEMMA SortedNow ==
  ASSUME SemInv, NEW m \in Mutexes
  PROVE  SortedBy(list[m], prio)
BY DEF SemInv, UrgentFirst, SortedBy

LEMMA TakesCountKeeps ==
  ASSUME SemInv, NEW t \in Tasks, NEW s \in Counting, TakesCount(t, s)
  PROVE  SemInv'
<1>1. /\ count[s] > 0 /\ count' = [count EXCEPT ![s] = @ - 1]
      /\ UNCHANGED <<used, owner, recur, list, taskVars, step, setting, stale, unlent>>
  BY DEF TakesCount, history
<1>2. s \in Sems /\ s \notin Mutexes /\ count \in [Sems -> 0..MaxCount]
  BY SemsOK DEF Sems, SemInv, Base, TypeOK
<1>3. /\ count' \in [Sems -> 0..MaxCount]
      /\ \A n \in Sems : n # s => count'[n] = count[n]
  BY <1>1, <1>2, NumbersOK
<1>4. TypeOK'
  BY <1>1, <1>3 DEF SemInv, Base, TypeOK, taskVars
<1>5. OwnersAgree' /\ UnusedAreFree' /\ WaitsOnce' /\ StepOK'
  BY <1>1, <1>2, <1>3 DEF SemInv, Base, OwnersAgree, UnusedAreFree, WaitsOnce, StepOK, taskVars, Sems
<1>6. WaitersListed'
  BY <1>1, <1>2, <1>3 DEF SemInv, Base, WaitersListed, taskVars
<1>7. UrgentFirst' /\ LentOnTheWay' /\ LentAhead' /\ Returned'
  <2>1. \A m \in Mutexes : SortedBy(list'[m], prio)
    BY <1>1, SortedNow
  <2>2. \A m \in Mutexes, u \in Tasks :
          Waiting(u, m)' => Waiting(u, m) /\ (u \in unlent => u \in unlent')
    BY <1>1 DEF taskVars, Waiting
  <2>3. UNCHANGED <<owner, prio, orig, held, step, stale>>
    BY <1>1 DEF taskVars
  <2> QED BY <2>1, <2>2, <2>3, CalmKeeps
<1> QED BY <1>4, <1>5, <1>6, <1>7 DEF SemInv, Base

LEMMA WaitsCountKeeps ==
  ASSUME SemInv, NEW t \in Tasks, NEW s \in Counting, NEW timed, WaitsCount(t, s, timed)
  PROVE  SemInv'
<1>1. /\ status[t] = {} /\ step.task # t /\ s \in used /\ count[s] = 0 /\ Pends(t, s, timed)
      /\ UNCHANGED <<used, count, owner, recur, prio, orig, held, step, setting, stale, unlent>>
  BY DEF WaitsCount, Runs, Usable, history
<1>2. s \in Sems /\ s \notin Mutexes
  BY SemsOK DEF Sems
<1>3. /\ list' \in [Sems -> Seq(Tasks)]
      /\ status' \in [Tasks -> SUBSET {"PEND", "RW_PEND", "TIMEOUT"}]
      /\ taskPend' \in [Tasks -> Sems \cup {NoSem}]
      /\ WaitersListed' /\ WaitsOnce' /\ taskPend'[t] = s
      /\ \A u \in Tasks : u # t => status'[u] = status[u] /\ taskPend'[u] = taskPend[u]
      /\ \A m \in Mutexes : list'[m] = IF m = s THEN Inserted(list[m], t, prio[t]) ELSE list[m]
  BY <1>1, <1>2, PendFacts DEF SemInv
<1>4. TypeOK'
  BY <1>1, <1>3 DEF SemInv, Base, TypeOK
<1>5. OwnersAgree' /\ UnusedAreFree'
  BY <1>1 DEF SemInv, Base, OwnersAgree, UnusedAreFree
<1>6. StepOK'
  BY <1>1, <1>3 DEF SemInv, Base, StepOK
<1>7. UrgentFirst' /\ LentOnTheWay' /\ LentAhead' /\ Returned'
  <2>1. \A m \in Mutexes : SortedBy(list'[m], prio)
    BY <1>2, <1>3, SortedNow
  <2>2. \A m \in Mutexes, u \in Tasks :
          Waiting(u, m)' => Waiting(u, m) /\ (u \in unlent => u \in unlent')
    BY <1>1, <1>2, <1>3 DEF Waiting
  <2>3. UNCHANGED <<owner, prio, orig, held, step, stale>>
    BY <1>1
  <2> QED BY <2>1, <2>2, <2>3, CalmKeeps
<1> QED BY <1>3, <1>4, <1>5, <1>6, <1>7 DEF SemInv, Base

LEMMA PostsCountKeeps ==
  ASSUME SemInv, NEW s \in Counting, PostsCount(s)
  PROVE  SemInv'
<1>1. /\ s \in used /\ count[s] < MaxCount
      /\ UNCHANGED <<used, owner, recur, prio, orig, held, step, setting, stale, unlent>>
  BY DEF PostsCount, Usable, history
<1>2. s \in Sems /\ s \notin Mutexes /\ count \in [Sems -> 0..MaxCount]
  BY SemsOK DEF Sems, SemInv, Base, TypeOK
<1>3. CASE list[s] # << >>
  <2> DEFINE next == Head(list[s])
  <2>1. Wakes(s) /\ UNCHANGED count
    BY <1>3 DEF PostsCount
  <2>2. /\ next \in Tasks /\ Waiting(next, s)
        /\ list' \in [Sems -> Seq(Tasks)]
        /\ status' \in [Tasks -> SUBSET {"PEND", "RW_PEND", "TIMEOUT"}]
        /\ taskPend' \in [Tasks -> Sems \cup {NoSem}]
        /\ WaitersListed' /\ WaitsOnce' /\ status'[next] = {}
        /\ \A u \in Tasks : u # next => status'[u] = status[u] /\ taskPend'[u] = taskPend[u]
        /\ \A n \in Sems : list'[n] = IF n = s THEN Tail(list[n]) ELSE list[n]
    BY <1>1, <1>2, <1>3, <2>1, WakeFacts DEF SemInv
  <2> HIDE DEF next
  <2>3. TypeOK'
    BY <1>1, <2>1, <2>2 DEF SemInv, Base, TypeOK
  <2>4. OwnersAgree' /\ UnusedAreFree'
    BY <1>1, <2>1 DEF SemInv, Base, OwnersAgree, UnusedAreFree
  <2>5. StepOK'
    BY <1>1, <2>2 DEF SemInv, Base, StepOK
  <2>6. UrgentFirst' /\ LentOnTheWay' /\ LentAhead' /\ Returned'
    <3>1. \A m \in Mutexes : SortedBy(list'[m], prio)
      BY <1>2, <2>2, SortedNow DEF Sems
    <3>2. \A m \in Mutexes, u \in Tasks :
            Waiting(u, m)' => Waiting(u, m) /\ (u \in unlent => u \in unlent')
      BY <1>1, <2>2 DEF Waiting
    <3>3. UNCHANGED <<owner, prio, orig, held, step, stale>>
      BY <1>1
    <3> QED BY <3>1, <3>2, <3>3, CalmKeeps
  <2> QED BY <2>2, <2>3, <2>4, <2>5, <2>6 DEF SemInv, Base
<1>4. CASE list[s] = << >>
  <2>1. count' = [count EXCEPT ![s] = @ + 1] /\ UNCHANGED <<list, status, taskPend>>
    BY <1>4 DEF PostsCount
  <2>2. /\ count' \in [Sems -> 0..MaxCount]
        /\ \A n \in Sems : n # s => count'[n] = count[n]
    BY <1>1, <1>2, <2>1, NumbersOK
  <2>3. TypeOK'
    BY <1>1, <2>1, <2>2 DEF SemInv, Base, TypeOK
  <2>4. OwnersAgree' /\ UnusedAreFree' /\ WaitsOnce' /\ StepOK'
    BY <1>1, <1>2, <2>1, <2>2 DEF SemInv, Base, OwnersAgree, UnusedAreFree, WaitsOnce, StepOK, Sems
  <2>5. WaitersListed'
    BY <1>1, <1>4, <2>1, <2>2 DEF SemInv, Base, WaitersListed
  <2>6. UrgentFirst' /\ LentOnTheWay' /\ LentAhead' /\ Returned'
    <3>1. \A m \in Mutexes : SortedBy(list'[m], prio)
      BY <2>1, SortedNow
    <3>2. \A m \in Mutexes, u \in Tasks :
            Waiting(u, m)' => Waiting(u, m) /\ (u \in unlent => u \in unlent')
      BY <1>1, <2>1 DEF Waiting
    <3>3. UNCHANGED <<owner, prio, orig, held, step, stale>>
      BY <1>1
    <3> QED BY <3>1, <3>2, <3>3, CalmKeeps
  <2> QED BY <2>3, <2>4, <2>5, <2>6 DEF SemInv, Base
<1> QED BY <1>3, <1>4

LEMMA ExpiryKeeps ==
  ASSUME SemInv, NEW t \in Tasks, TimerExpires(t)
  PROVE  SemInv'
<1>1. /\ UNCHANGED <<used, count, owner, recur, prio, orig, held, step, setting, stale>>
      /\ unlent' = unlent \ {t}
  BY DEF TimerExpires
<1>2. /\ list' \in [Sems -> Seq(Tasks)]
      /\ status' \in [Tasks -> SUBSET {"PEND", "RW_PEND", "TIMEOUT"}]
      /\ taskPend' \in [Tasks -> Sems \cup {NoSem}]
      /\ WaitersListed' /\ WaitsOnce' /\ status'[t] = {"TIMEOUT"}
      /\ \A u \in Tasks : u # t => status'[u] = status[u] /\ taskPend'[u] = taskPend[u]
      /\ \A n \in Sems : list'[n] = RemoveFirst(list[n], t)
  BY ExpiryFacts DEF SemInv
<1>3. TypeOK'
  BY <1>1, <1>2 DEF SemInv, Base, TypeOK
<1>4. OwnersAgree' /\ UnusedAreFree'
  BY <1>1 DEF SemInv, Base, OwnersAgree, UnusedAreFree
<1>5. StepOK'
  BY <1>1, <1>2 DEF SemInv, Base, StepOK
<1>6. UrgentFirst' /\ LentOnTheWay' /\ LentAhead' /\ Returned'
  <2>1. ASSUME NEW m \in Mutexes PROVE SortedBy(list'[m], prio)
    <3>1. m \in Sems /\ list[m] \in Seq(Tasks) /\ SortedBy(list[m], prio)
      BY SortedNow DEF Sems, SemInv, Base, TypeOK
    <3> QED BY <3>1, <1>2, RemoveSorted
  <2>2. \A m \in Mutexes, u \in Tasks :
          Waiting(u, m)' => Waiting(u, m) /\ (u \in unlent => u \in unlent')
    BY <1>1, <1>2 DEF Waiting
  <2>3. UNCHANGED <<owner, prio, orig, held, step, stale>>
    BY <1>1
  <2> QED BY <2>1, <2>2, <2>3, CalmKeeps
<1> QED BY <1>2, <1>3, <1>4, <1>5, <1>6 DEF SemInv, Base

LEMMA TimedOutKeeps ==
  ASSUME SemInv, NEW t \in Tasks, TimedOut(t)
  PROVE  SemInv'
<1>1. /\ status[t] = {"TIMEOUT"} /\ status' = [status EXCEPT ![t] = {}]
      /\ UNCHANGED <<semVars, prio, orig, taskPend, held, step, setting, stale, unlent>>
  BY DEF TimedOut, history
<1>2. /\ status \in [Tasks -> SUBSET {"PEND", "RW_PEND", "TIMEOUT"}]
      /\ status' \in [Tasks -> SUBSET {"PEND", "RW_PEND", "TIMEOUT"}]
      /\ \A u \in Tasks : u # t => status'[u] = status[u]
      /\ status'[t] = {}
  BY <1>1 DEF SemInv, Base, TypeOK
<1>3. TypeOK'
  BY <1>1, <1>2 DEF SemInv, Base, TypeOK, semVars
<1>4. \A u \in Tasks : "PEND" \in status'[u] <=> "PEND" \in status[u]
  <2>1. "PEND" \notin status[t] /\ "PEND" \notin status'[t]
    BY <1>1, <1>2
  <2> QED BY <1>2, <2>1
<1>5. OwnersAgree' /\ UnusedAreFree' /\ WaitersListed'
  BY <1>1, <1>4 DEF SemInv, Base, OwnersAgree, UnusedAreFree, WaitersListed, semVars
<1>6. StepOK' /\ WaitsOnce'
  BY <1>1, <1>2, <1>4 DEF SemInv, Base, StepOK, WaitsOnce, semVars
<1>7. UrgentFirst' /\ LentOnTheWay' /\ LentAhead' /\ Returned'
  <2>1. \A m \in Mutexes : SortedBy(list'[m], prio)
    BY <1>1, SortedNow DEF semVars
  <2>2. \A m \in Mutexes, u \in Tasks :
          Waiting(u, m)' => Waiting(u, m) /\ (u \in unlent => u \in unlent')
    BY <1>1, <1>4 DEF Waiting, semVars
  <2>3. UNCHANGED <<owner, prio, orig, held, step, stale>>
    BY <1>1 DEF semVars
  <2> QED BY <2>1, <2>2, <2>3, CalmKeeps
<1> QED BY <1>3, <1>5, <1>6, <1>7 DEF SemInv, Base

LEMMA CreateKeeps ==
  ASSUME SemInv, NEW s \in Sems, NEW n \in 0..MaxCount, Create(s, n)
  PROVE  SemInv'
<1>1. /\ s \notin used /\ (s \in Mutexes => n = 1) /\ used' = used \cup {s}
      /\ count' = [count EXCEPT ![s] = n]
      /\ list' = [list EXCEPT ![s] = << >>]
      /\ owner' = [m \in Mutexes |-> IF m = s THEN NoTask ELSE owner[m]]
      /\ recur' = [m \in Mutexes |-> IF m = s THEN 0 ELSE recur[m]]
      /\ UNCHANGED <<taskVars, step, setting, stale, unlent>>
  BY DEF Create, history
<1>2. /\ count \in [Sems -> 0..MaxCount] /\ list \in [Sems -> Seq(Tasks)]
      /\ owner \in [Mutexes -> Tasks \cup {NoTask}] /\ recur \in [Mutexes -> 0..MaxNest]
      /\ used \subseteq Sems
  BY DEF SemInv, Base, TypeOK
<1>3. /\ list[s] = << >>
      /\ s \in Mutexes => owner[s] = NoTask
  BY <1>1 DEF SemInv, Base, WaitersListed, UnusedAreFree
<1>4. list' = list /\ owner' = owner
  BY <1>1, <1>2, <1>3
<1>5. /\ used' \in SUBSET Sems /\ count' \in [Sems -> 0..MaxCount] /\ count'[s] = n
      /\ \A r \in Sems : r # s => count'[r] = count[r]
      /\ recur' \in [Mutexes -> 0..MaxNest]
      /\ \A m \in Mutexes : recur'[m] = recur[m] \/ recur'[m] = 0
  BY <1>1, <1>2, NumbersOK
<1>6. TypeOK'
  BY <1>1, <1>4, <1>5 DEF SemInv, Base, TypeOK, taskVars
<1>7. OwnersAgree'
  <2>1. \A t \in Tasks, m \in Mutexes : m \in held'[t] <=> owner'[m] = t
    BY <1>1, <1>4 DEF SemInv, Base, OwnersAgree, taskVars
  <2>2. \A m \in Mutexes \cap used' : count'[m] = (IF owner'[m] = NoTask THEN 1 ELSE 0)
    BY <1>1, <1>3, <1>4, <1>5 DEF SemInv, Base, OwnersAgree, Sems
  <2>3. \A m \in Mutexes : owner'[m] = NoTask => recur'[m] = 0
    BY <1>4, <1>5 DEF SemInv, Base, OwnersAgree
  <2> QED BY <2>1, <2>2, <2>3 DEF OwnersAgree
<1>8. UnusedAreFree' /\ StepOK' /\ WaitsOnce'
  BY <1>1, <1>4 DEF SemInv, Base, UnusedAreFree, StepOK, WaitsOnce, taskVars
<1>9. WaitersListed'
  BY <1>1, <1>3, <1>4, <1>5 DEF SemInv, Base, WaitersListed, taskVars
<1>10. UrgentFirst' /\ LentOnTheWay' /\ LentAhead' /\ Returned'
  <2>1. \A m \in Mutexes : SortedBy(list'[m], prio)
    BY <1>4, SortedNow
  <2>2. \A m \in Mutexes, u \in Tasks :
          Waiting(u, m)' => Waiting(u, m) /\ (u \in unlent => u \in unlent')
    BY <1>1 DEF Waiting, taskVars
  <2>3. UNCHANGED <<owner, prio, orig, held, step, stale>>
    BY <1>1, <1>4 DEF taskVars
  <2> QED BY <2>1, <2>2, <2>3, CalmKeeps
<1> QED BY <1>6, <1>7, <1>8, <1>9, <1>10 DEF SemInv, Base

LEMMA DeleteKeeps ==
  ASSUME SemInv, NEW s \in Sems, Delete(s)
  PROVE  SemInv'
<1>1. /\ list[s] = << >> /\ (s \in Mutexes => owner[s] = NoTask)
      /\ used' = used \ {s} /\ count' = [count EXCEPT ![s] = 0]
      /\ UNCHANGED <<owner, recur, list, taskVars, step, setting, stale, unlent>>
  BY DEF Delete, history
<1>2. /\ used' \in SUBSET Sems /\ count' \in [Sems -> 0..MaxCount]
      /\ \A r \in Sems : r # s => count'[r] = count[r]
  BY <1>1, NumbersOK DEF SemInv, Base, TypeOK
<1>3. TypeOK'
  BY <1>1, <1>2 DEF SemInv, Base, TypeOK, taskVars
<1>4. OwnersAgree' /\ UnusedAreFree' /\ StepOK' /\ WaitsOnce'
  BY <1>1, <1>2 DEF SemInv, Base, OwnersAgree, UnusedAreFree, StepOK, WaitsOnce, taskVars, Sems
<1>5. WaitersListed'
  BY <1>1, <1>2 DEF SemInv, Base, WaitersListed, taskVars
<1>6. UrgentFirst' /\ LentOnTheWay' /\ LentAhead' /\ Returned'
  <2>1. \A m \in Mutexes : SortedBy(list'[m], prio)
    BY <1>1, SortedNow
  <2>2. \A m \in Mutexes, u \in Tasks :
          Waiting(u, m)' => Waiting(u, m) /\ (u \in unlent => u \in unlent')
    BY <1>1 DEF Waiting, taskVars
  <2>3. UNCHANGED <<owner, prio, orig, held, step, stale>>
    BY <1>1 DEF taskVars
  <2> QED BY <2>1, <2>2, <2>3, CalmKeeps
<1> QED BY <1>3, <1>4, <1>5, <1>6 DEF SemInv, Base

\* Only a call of PRT_TaskSetPriority begins, or ends without effect.
LEMMA SettingKeeps ==
  ASSUME SemInv, setting' \in Tasks \cup {NoTask}, UNCHANGED <<semVars, taskVars, step, stale, unlent>>
  PROVE  SemInv'
<1>1. TypeOK'
  BY DEF SemInv, Base, TypeOK, semVars, taskVars
<1>2. OwnersAgree' /\ UnusedAreFree' /\ WaitersListed' /\ StepOK' /\ WaitsOnce'
  BY DEF SemInv, Base, OwnersAgree, UnusedAreFree, WaitersListed, StepOK, WaitsOnce, semVars, taskVars
<1>3. UrgentFirst' /\ LentOnTheWay' /\ LentAhead' /\ Returned'
  BY DEF SemInv, UrgentFirst, LentOnTheWay, Lent, LentAhead, Returned, Waiting, semVars, taskVars
<1> QED BY <1>1, <1>2, <1>3 DEF SemInv, Base

\* A changed priority disturbs no list, as the task is in none that is sorted, and
\* no waiter, as the check leaves the task as urgent as those that wait for it.
LEMMA SetsKeeps ==
  ASSUME SemInv, NEW t \in Tasks, NEW p \in Prios, SetsPriority(t, p),
         setting' \in Tasks \cup {NoTask}
  PROVE  SemInv'
<1>1. /\ orig[t] = prio[t] /\ ~OnMutex(t)
      /\ held[t] # {} => p <= MostUrgent(held[t], orig[t])
      /\ prio' = [prio EXCEPT ![t] = p] /\ orig' = [orig EXCEPT ![t] = p]
      /\ UNCHANGED <<semVars, status, taskPend, held, step, stale>>
  BY DEF SetsPriority, MaySet
<1>2. /\ prio \in [Tasks -> Prios] /\ prio \in [Tasks -> Nat] /\ orig \in [Tasks -> Prios]
      /\ held[t] \in SUBSET Mutexes /\ p \in Nat
  BY NumbersOK DEF SemInv, Base, TypeOK, Prios
<1>3. /\ prio' \in [Tasks -> Prios] /\ orig' \in [Tasks -> Prios]
      /\ prio'[t] = p /\ orig'[t] = p
      /\ \A u \in Tasks : u # t => prio'[u] = prio[u] /\ orig'[u] = orig[u]
  BY <1>1, <1>2
<1> DEFINE ahead == step.op = "pass" /\ step.at = t
           passed == ToSet(list[step.sem])
<1>9. unlent' = IF ahead THEN (unlent \ passed) \cup {u \in passed : prio[u] < p} ELSE unlent
  BY DEF SetsPriority
<1>10. ASSUME ahead
       PROVE  /\ passed \subseteq Tasks
              /\ \A u \in Tasks : u \in passed <=> Waiting(u, step.sem)
  <2>1. step.sem \in Mutexes /\ step.sem \in Sems
    BY <1>10 DEF SemInv, Base, StepOK, Sems
  <2>2. list[step.sem] \in Seq(Tasks)
    BY <2>1 DEF SemInv, Base, TypeOK
  <2>3. \A u : u \in passed <=> Contains(list[step.sem], u)
    BY <2>2 DEF ToSet, Contains
  <2>4. passed \subseteq Tasks
    BY <2>2 DEF ToSet
  <2> QED BY <2>1, <2>3, <2>4 DEF SemInv, Base, WaitersListed, Waiting
<1> HIDE DEF passed
<1>11. unlent' \subseteq Tasks
  BY <1>9, <1>10 DEF SemInv, Base, TypeOK
<1>4. TypeOK'
  BY <1>1, <1>3, <1>11 DEF SemInv, Base, TypeOK, semVars
<1>5. OwnersAgree' /\ UnusedAreFree' /\ WaitersListed' /\ StepOK' /\ WaitsOnce'
  BY <1>1 DEF SemInv, Base, OwnersAgree, UnusedAreFree, WaitersListed, StepOK, WaitsOnce, semVars
<1>6. UrgentFirst'
  <2>1. ASSUME NEW m \in Mutexes, NEW j \in 1..Len(list[m])
        PROVE  prio'[list[m][j]] = prio[list[m][j]]
    <3>1. m \in Sems /\ list[m] \in Seq(Tasks)
      BY DEF Sems, SemInv, Base, TypeOK
    <3>2. list[m][j] \in Tasks /\ Contains(list[m], list[m][j])
      BY <3>1 DEF Contains
    <3>3. list[m][j] # t
      BY <1>1, <3>1, <3>2 DEF SemInv, Base, WaitersListed, OnMutex
    <3> QED BY <1>3, <3>2, <3>3
  <2> QED BY <1>1, <2>1 DEF SemInv, UrgentFirst, semVars
<1>7. LentOnTheWay'
  <2> SUFFICES ASSUME NEW m \in Mutexes, NEW u \in Tasks, Waiting(u, m)'
               PROVE  Lent(m, u)'
    BY DEF LentOnTheWay
  <2>1. Waiting(u, m) /\ owner' = owner
    BY <1>1 DEF Waiting, semVars
  <2>2. owner[m] \in Tasks /\ m \in held[owner[m]]
    BY <2>1, WaiterFacts DEF SemInv
  <2>3. u # t
    BY <1>1, <2>1 DEF Waiting, OnMutex
  <2>4. CASE owner[m] = t
    <3>1. p <= MostUrgent(held[t], orig[t]) /\ held[t] # {}
      BY <1>1, <2>2, <2>4
    <3>2. /\ MostUrgent(held[t], orig[t]) \in Prios
          /\ MostUrgent(held[t], orig[t]) <= prio[u]
      BY <1>2, <2>1, <2>2, <2>4, MostUrgentFacts DEF SemInv
    <3>3. MostUrgent(held[t], orig[t]) \in Nat /\ prio[u] \in Nat
      BY <1>2, <3>2, NumbersOK DEF Prios
    <3>4. p <= prio[u]
      BY <1>2, <3>1, <3>2, <3>3
    <3> QED BY <1>3, <2>1, <2>3, <2>4, <3>4 DEF Lent
  <2>5. CASE owner[m] # t
    <3>1. Lent(m, u)
      BY <2>1 DEF SemInv, LentOnTheWay
    <3>2. CASE step.op = "pass" /\ m = step.sem
      BY <1>1, <3>2 DEF Lent
    <3>3. CASE ~ (step.op = "pass" /\ m = step.sem)
      <4>1. u \in unlent => u \in unlent'
        <5>1. CASE ahead
          <6>1. u \notin passed
            BY <1>10, <2>1, <3>3, <5>1 DEF Waiting
          <6> QED BY <1>9, <5>1, <6>1
        <5>2. CASE ~ahead
          BY <1>9, <5>2
        <5> QED BY <5>1, <5>2
      <4>2. prio'[owner'[m]] = prio[owner[m]] /\ prio'[u] = prio[u]
        BY <1>3, <2>1, <2>2, <2>3, <2>5
      <4> QED BY <1>1, <2>1, <3>1, <3>3, <4>1, <4>2 DEF Lent
    <3> QED BY <3>2, <3>3
  <2> QED BY <2>4, <2>5
<1>12. LentAhead'
  <2> SUFFICES ASSUME step.op = "pass", NEW u \in Tasks, Waiting(u, step.sem)
               PROVE  u \in unlent' \/ prio'[step.at] <= prio'[u]
    BY <1>1 DEF LentAhead, Waiting
  <2>1. step.sem \in Mutexes /\ step.at \in Tasks
    BY DEF SemInv, Base, StepOK
  <2>2. u # t
    BY <1>1, <2>1 DEF Waiting, OnMutex
  <2>3. u \in unlent \/ prio[step.at] <= prio[u]
    BY DEF SemInv, LentAhead
  <2>4. CASE ahead
    <3>1. u \in passed
      BY <1>10, <2>4
    <3>2. u \in unlent' <=> prio[u] < p
      BY <1>9, <2>4, <3>1
    <3>3. prio[u] \in Nat
      BY <1>2
    <3> QED BY <1>2, <1>3, <2>2, <2>4, <3>2, <3>3
  <2>5. CASE ~ahead
    BY <1>3, <1>9, <2>1, <2>2, <2>3, <2>5
  <2> QED BY <2>4, <2>5
<1>8. Returned'
  <2>1. \A u \in Tasks : prio[u] = orig[u] => prio'[u] = orig'[u]
    BY <1>3
  <2>2. step.op = "restore" => orig'[step.task] \in {step.prio, prio'[step.task]}
    <3> SUFFICES ASSUME step.op = "restore" PROVE orig'[step.task] \in {step.prio, prio'[step.task]}
      OBVIOUS
    <3>1. step.task \in Tasks /\ orig[step.task] \in {step.prio, prio[step.task]}
      BY DEF SemInv, Base, StepOK, Returned
    <3> QED BY <1>3, <3>1
  <2> QED BY <1>1, <2>1, <2>2 DEF SemInv, Returned
<1> QED BY <1>4, <1>5, <1>6, <1>7, <1>8, <1>12 DEF SemInv, Base

LEMMA SemInit == Init => SemInv
<1> SUFFICES ASSUME Init PROVE SemInv
  OBVIOUS
<1>1. Idle \in Steps /\ step = Idle
  BY IdleType DEF Init
<1>2. /\ list = [s \in Sems |-> << >>] /\ held = [t \in Tasks |-> {}]
      /\ status = [t \in Tasks |-> {}] /\ taskPend = [t \in Tasks |-> NoSem]
      /\ owner = [m \in Mutexes |-> NoTask] /\ recur = [m \in Mutexes |-> 0]
      /\ prio = Created /\ orig = Created /\ setting = NoTask /\ stale = {} /\ unlent = {}
      /\ used \in SUBSET Sems /\ count \in [Sems -> 0..MaxCount]
      /\ \A m \in Mutexes \cap used : count[m] = 1
  BY DEF Init, Sems
<1>3. /\ << >> \in Seq(Tasks) /\ Len(<< >>) = 0
      /\ \A x : ~Contains(<< >>, x)
      /\ NoDuplicates(<< >>)
  BY EmptySeq DEF Contains, NoDuplicates
<1>4. TypeOK
  BY <1>1, <1>2, <1>3, NumbersOK, TaskSetsOK DEF TypeOK
<1>5. OwnersAgree /\ UnusedAreFree
  BY <1>2, TasksFinite DEF OwnersAgree, UnusedAreFree
<1>6. WaitersListed
  BY <1>2, <1>3 DEF WaitersListed
<1>7. StepOK
  BY <1>1, IdleType DEF StepOK
<1>8. WaitsOnce /\ LentOnTheWay /\ LentAhead /\ Returned
  BY <1>1, <1>2, IdleType DEF WaitsOnce, LentOnTheWay, LentAhead, Waiting, Returned
<1>9. UrgentFirst
  <2>1. ASSUME NEW m \in Mutexes PROVE list[m] = << >>
    BY <1>2 DEF Sems
  <2> QED BY <1>3, <2>1 DEF UrgentFirst
<1> QED BY <1>4, <1>5, <1>6, <1>7, <1>8, <1>9 DEF SemInv, Base

LEMMA SemStep == SemInv /\ Next => SemInv'
<1> SUFFICES ASSUME SemInv, Next PROVE SemInv'
  OBVIOUS
<1>1. ASSUME NEW t \in Tasks, MutexCalls(t) PROVE SemInv'
  <2>1. PICK m \in Mutexes : \/ Nests(t, m) \/ Takes(t, m) \/ Unnests(t, m) \/ Posts(t, m)
                             \/ \E timed \in BOOLEAN : Waits(t, m, timed)
    BY <1>1 DEF MutexCalls
  <2> QED BY <2>1, NestKeeps, TakesKeeps, PostsKeeps, WaitsKeeps
<1>2. ASSUME NEW t \in Tasks, CountCalls(t) PROVE SemInv'
  <2>1. PICK s \in Counting : TakesCount(t, s) \/ \E timed \in BOOLEAN : WaitsCount(t, s, timed)
    BY <1>2 DEF CountCalls
  <2> QED BY <2>1, TakesCountKeeps, WaitsCountKeeps
<1>3. ASSUME NEW t \in Tasks, TimerExpires(t) \/ TimedOut(t) PROVE SemInv'
  BY <1>3, ExpiryKeeps, TimedOutKeeps
<1>4. ASSUME NEW s \in Counting, PostsCount(s) PROVE SemInv'
  BY <1>4, PostsCountKeeps
<1>5. ASSUME NEW s \in Deletable, Delete(s) \/ \E n \in 0..MaxCount : Create(s, n) PROVE SemInv'
  BY <1>5, UsesOK, DeleteKeeps, CreateKeeps
<1>6. ASSUME InheritBegins \/ Inherit \/ HandsOver \/ Restore PROVE SemInv'
  BY <1>6, InheritBeginsKeeps, InheritKeeps, HandsOverKeeps, RestoreKeeps
<1>7. ASSUME NEW t \in Tasks, SetUnlocked(t) PROVE SemInv'
  BY <1>7, SettingKeeps DEF SetUnlocked, history
<1>8. ASSUME NEW t \in Tasks, NEW p \in Targets, SetLocked(t, p) PROVE SemInv'
  <2>1. p \in Prios /\ SetsPriority(t, p) /\ setting' \in Tasks \cup {NoTask}
    BY <1>8, UsesOK DEF SetLocked, SemInv, Base, TypeOK
  <2> QED BY <2>1, SetsKeeps
<1>9. ASSUME NEW p \in Targets, SetsLate(p) PROVE SemInv'
  <2>1. p \in Prios /\ setting \in Tasks /\ setting' \in Tasks \cup {NoTask}
    BY <1>9, UsesOK DEF SetsLate, SemInv, Base, TypeOK
  <2>2. SetsPriority(setting, p) \/ UNCHANGED <<semVars, taskVars, step, stale, unlent>>
    BY <1>9 DEF SetsLate, history
  <2> QED BY <2>1, <2>2, SetsKeeps, SettingKeeps
<1> QED BY <1>1, <1>2, <1>3, <1>4, <1>5, <1>6, <1>7, <1>8, <1>9 DEF Next

\* The invariant holds what the runs check of semaphores.
LEMMA SemInvHolds ==
  ASSUME SemInv
  PROVE  TypeOK /\ OwnersAgree /\ WaitersListed /\ UrgentFirst /\ OwnersInherit /\ BorrowedIsReturned
<1>1. OwnersInherit
  <2> SUFFICES ASSUME step.op \notin {"pend", "inherit", "pass"}, NEW m \in Mutexes,
                      NEW t \in ToSet(list[m]) \ unlent
               PROVE  prio[owner[m]] <= prio[t]
    BY DEF OwnersInherit
  <2>1. m \in Sems /\ list[m] \in Seq(Tasks)
    BY DEF Sems, SemInv, Base, TypeOK
  <2>2. t \in Tasks /\ Contains(list[m], t)
    BY <2>1 DEF ToSet, Contains
  <2>3. Waiting(t, m)
    BY <2>1, <2>2 DEF SemInv, Base, WaitersListed, Waiting
  <2> QED BY <2>2, <2>3 DEF SemInv, LentOnTheWay, Lent
<1>2. BorrowedIsReturned
  BY DEF SemInv, Returned, BorrowedIsReturned
<1> QED BY <1>1, <1>2 DEF SemInv, Base

(***************************************************************************)
(* The read-write lock.                                                    *)
(***************************************************************************)

(***************************************************************************)
(* Counting the read locks f of the tasks.                                 *)
(***************************************************************************)

LocksOf(f) == {l \in Tasks \X (1..MaxReads) : l[2] <= f[l[1]]}

LEMMA LocksFinite ==
  ASSUME NEW f
  PROVE  IsFiniteSet(LocksOf(f)) /\ Cardinality(LocksOf(f)) \in Nat
<1>1. IsFiniteSet(Tasks) /\ IsFiniteSet(1..MaxReads)
  BY TasksFinite, RwBoundsOK, FS_Interval
<1>2. IsFiniteSet(Tasks \X (1..MaxReads))
  BY <1>1, FS_Product
<1>3. LocksOf(f) \in SUBSET (Tasks \X (1..MaxReads))
  BY DEF LocksOf
<1>4. IsFiniteSet(LocksOf(f))
  BY <1>2, <1>3, FS_Subset
<1> QED BY <1>4, FS_CardinalityType

LEMMA OneLockMore ==
  ASSUME NEW f \in [Tasks -> 0..MaxReads], NEW t \in Tasks, f[t] < MaxReads,
         NEW g, g = [f EXCEPT ![t] = @ + 1]
  PROVE  g \in [Tasks -> 0..MaxReads] /\ Cardinality(LocksOf(g)) = Cardinality(LocksOf(f)) + 1
<1> USE RwBoundsOK
<1>1. /\ g \in [Tasks -> 0..MaxReads] /\ g[t] = f[t] + 1
      /\ \A u \in Tasks : u # t => g[u] = f[u]
  OBVIOUS
<1> DEFINE new == <<t, f[t] + 1>>
<1>2. ASSUME NEW u \in Tasks, NEW n \in 1..MaxReads
      PROVE  n <= g[u] <=> (n <= f[u] \/ <<u, n>> = new)
  <2>1. f[u] \in Nat /\ f[t] \in Nat
    OBVIOUS
  <2>2. CASE u = t
    BY <1>1, <2>1, <2>2
  <2>3. CASE u # t
    BY <1>1, <2>3
  <2> QED BY <2>2, <2>3
<1>3. new \in Tasks \X (1..MaxReads)
  OBVIOUS
<1>4. new \notin LocksOf(f)
  BY DEF LocksOf
<1> HIDE DEF new
<1>5. LocksOf(g) = LocksOf(f) \cup {new}
  BY <1>2, <1>3 DEF LocksOf
<1>6. Cardinality(LocksOf(f) \cup {new}) = Cardinality(LocksOf(f)) + 1
  BY <1>4, LocksFinite, FS_AddElement
<1> QED BY <1>1, <1>5, <1>6

LEMMA OneLockLess ==
  ASSUME NEW f \in [Tasks -> 0..MaxReads], NEW t \in Tasks, f[t] > 0,
         NEW g, g = [f EXCEPT ![t] = @ - 1]
  PROVE  g \in [Tasks -> 0..MaxReads] /\ Cardinality(LocksOf(g)) = Cardinality(LocksOf(f)) - 1
<1> USE RwBoundsOK
<1>1. g \in [Tasks -> 0..MaxReads] /\ g[t] < MaxReads
  OBVIOUS
<1>2. f = [g EXCEPT ![t] = @ + 1]
  <2> DEFINE k == [g EXCEPT ![t] = @ + 1]
  <2>1. g[t] = f[t] - 1 /\ g[t] + 1 = f[t]
    OBVIOUS
  <2>2. k = [u \in Tasks |-> IF u = t THEN g[t] + 1 ELSE g[u]]
    BY <1>1
  <2>3. \A u \in Tasks : u # t => g[u] = f[u]
    OBVIOUS
  <2>4. \A u \in Tasks : k[u] = f[u]
    BY <2>1, <2>2, <2>3
  <2>5. f = [u \in Tasks |-> f[u]] /\ k = [u \in Tasks |-> k[u]]
    BY <2>2
  <2> HIDE DEF k
  <2>6. k = f
    BY <2>4, <2>5, Zenon
  <2> QED BY <2>6 DEF k
<1>3. Cardinality(LocksOf(f)) = Cardinality(LocksOf(g)) + 1
  BY <1>1, <1>2, OneLockMore
<1> QED BY <1>1, <1>3, LocksFinite

LEMMA NoLocks ==
  ASSUME NEW f \in [Tasks -> 0..MaxReads]
  PROVE  Cardinality(LocksOf(f)) = 0 <=> \A t \in Tasks : f[t] = 0
<1> USE RwBoundsOK
<1>1. Cardinality(LocksOf(f)) = 0 <=> LocksOf(f) = {}
  BY LocksFinite, FS_EmptySet
<1>2. ASSUME NEW t \in Tasks, f[t] # 0
      PROVE  <<t, 1>> \in LocksOf(f)
  <2>1. 1 <= f[t] /\ 1 \in 1..MaxReads
    BY <1>2
  <2> QED BY <2>1 DEF LocksOf
<1>3. ASSUME NEW l \in LocksOf(f)
      PROVE  l[1] \in Tasks /\ f[l[1]] # 0
  <2>1. l[1] \in Tasks /\ l[2] \in 1..MaxReads /\ l[2] <= f[l[1]]
    BY <1>3 DEF LocksOf
  <2> QED BY <2>1
<1> QED BY <1>1, <1>2, <1>3

(***************************************************************************)
(* Waking the first n readers of a list.                                   *)
(***************************************************************************)

LEMMA SplitFacts ==
  ASSUME NEW S, NEW l \in Seq(S), NoDuplicates(l), NEW n \in 0..Len(l)
  PROVE  LET next == ToSet(SubSeq(l, 1, n))
             rest == SubSeq(l, n + 1, Len(l))
         IN /\ next = {l[i] : i \in 1..n} /\ next \subseteq S
            /\ rest \in Seq(S) /\ NoDuplicates(rest)
            /\ \A x : Contains(rest, x) <=> (x \notin next /\ Contains(l, x))
            /\ n = Len(l) => rest = << >>
<1> DEFINE first == SubSeq(l, 1, n)
           next == {l[i] : i \in 1..n}
           rest == SubSeq(l, n + 1, Len(l))
<1>1. \A i \in 1..Len(l) : l[i] \in S
  OBVIOUS
<1>2. first \in Seq(S) /\ Len(first) = n /\ \A i \in 1..n : first[i] = l[i]
  <2>1. \A i \in 1..n : l[i] \in S
    BY <1>1
  <2> QED BY <2>1, SubSeqProperties
<1>3. /\ rest \in Seq(S) /\ Len(rest) = Len(l) - n
      /\ \A i \in 1..(Len(l) - n) : rest[i] = l[n + i]
  <2>1. \A i \in (n + 1)..Len(l) : l[i] \in S
    BY <1>1
  <2> QED BY <2>1, SubSeqProperties
<1> HIDE DEF first, rest
<1>4. ToSet(first) = next
  BY <1>2 DEF ToSet
<1>5. next \subseteq S
  BY <1>1
<1>6. NoDuplicates(rest)
  <2> SUFFICES ASSUME NEW i \in 1..Len(rest), NEW j \in 1..Len(rest), rest[i] = rest[j]
               PROVE  i = j
    BY DEF NoDuplicates
  <2>0. /\ i \in 1..(Len(l) - n) /\ rest[i] = l[n + i]
        /\ j \in 1..(Len(l) - n) /\ rest[j] = l[n + j]
    BY <1>3
  <2>a. Len(l) \in Nat /\ n \in Nat
    OBVIOUS
  <2>b. n + i \in 1..Len(l) /\ n + j \in 1..Len(l)
    <3>1. i \in Nat /\ j \in Nat /\ 1 <= i /\ 1 <= j /\ i <= Len(l) - n /\ j <= Len(l) - n
      BY <2>0, <2>a
    <3> QED BY <3>1, <2>a
  <2>1. n + i \in 1..Len(l) /\ n + j \in 1..Len(l) /\ l[n + i] = l[n + j]
    <3>1. l[n + i] = l[n + j]
      BY <2>0, Zenon
    <3> QED BY <2>b, <3>1
  <2>2. n + i = n + j
    BY <2>1 DEF NoDuplicates
  <2> QED BY <2>2, <1>3
<1>7. ASSUME NEW i \in 1..Len(rest)
      PROVE  rest[i] \notin next /\ Contains(l, rest[i])
  <2>1. n + i \in 1..Len(l) /\ rest[i] = l[n + i]
    BY <1>3
  <2>2. ASSUME NEW j \in 1..n, l[j] = l[n + i] PROVE FALSE
    <3>1. j = n + i
      BY <2>1, <2>2 DEF NoDuplicates
    <3> QED BY <3>1, <1>3
  <2> QED BY <2>1, <2>2 DEF Contains
<1>8. ASSUME NEW j \in 1..Len(l), l[j] \notin next
      PROVE  Contains(rest, l[j])
  <2>1. j > n
    BY <1>8
  <2>2. j - n \in 1..Len(rest) /\ rest[j - n] = l[n + (j - n)] /\ n + (j - n) = j
    BY <2>1, <1>3
  <2> QED BY <2>2 DEF Contains
<1>9. \A x : Contains(rest, x) <=> (x \notin next /\ Contains(l, x))
  <2> HIDE DEF next
  <2> TAKE x
  <2>1. Contains(rest, x) => x \notin next /\ Contains(l, x)
    BY <1>7 DEF Contains
  <2>2. x \notin next /\ Contains(l, x) => Contains(rest, x)
    BY <1>8 DEF Contains
  <2> QED BY <2>1, <2>2
<1>10. n = Len(l) => rest = << >>
  BY <1>3, EmptySeq
<1> QED BY <1>4, <1>5, <1>3, <1>6, <1>9, <1>10 DEF first, rest

\* Each of them then has one read lock.
LEMMA WokenLocks ==
  ASSUME NEW l \in Seq(Tasks), NoDuplicates(l), NEW n \in 0..Len(l),
         NEW g, g = [u \in Tasks |-> IF u \in {l[i] : i \in 1..n} THEN 1 ELSE 0]
  PROVE  g \in [Tasks -> 0..MaxReads] /\ Cardinality(LocksOf(g)) = n
<1> USE RwBoundsOK
<1> DEFINE h == [i \in 1..n |-> <<l[i], 1>>]
<1>1. g \in [Tasks -> 0..MaxReads]
  OBVIOUS
<1>2. \A i \in 1..n : l[i] \in Tasks /\ g[l[i]] = 1
  OBVIOUS
<1>3. \A i \in 1..n : <<l[i], 1>> \in LocksOf(g)
  BY <1>2 DEF LocksOf
<1>4. h \in [1..n -> LocksOf(g)]
  BY <1>3
<1>5. \A i, j \in 1..n : h[i] = h[j] => i = j
  BY DEF NoDuplicates
<1>6. ASSUME NEW k \in LocksOf(g)
      PROVE  \E i \in 1..n : h[i] = k
  <2>1. PICK u \in Tasks, m \in 1..MaxReads : k = <<u, m>> /\ m <= g[u]
    BY DEF LocksOf
  <2>2. u \in {l[i] : i \in 1..n} /\ m = 1
    BY <2>1
  <2>3. PICK i \in 1..n : u = l[i]
    BY <2>2
  <2> QED BY <2>1, <2>2, <2>3
<1>7. DOMAIN h = 1..n
  OBVIOUS
<1> HIDE DEF h
<1>8. h \in Bijection(1..n, LocksOf(g))
  BY <1>4, <1>5, <1>6, <1>7 DEF Bijection, Injection, Surjection, IsInjective
<1>9. Cardinality(LocksOf(g)) = n
  BY <1>8, FS_CountingElements DEF ExistsBijection
<1> QED BY <1>1, <1>9

-----------------------------------------------------------------------------
(***************************************************************************)
(* The invariant.                                                          *)
(***************************************************************************)

RwTyped ==
  /\ magic \in {"none", "unset", "set"} /\ rwCount \in Int /\ rwOwner \in Tasks \cup {NoTask}
  /\ rwRead \in Seq(Tasks) /\ rwWrite \in Seq(Tasks)
  /\ reads \in [Tasks -> 0..MaxReads] /\ writing \subseteq Tasks

\* AllWaitersListed, list by list.
RwLists ==
  /\ NoDuplicates(rwRead) /\ NoDuplicates(rwWrite)
  /\ \A t \in Tasks : ~ (Contains(rwRead, t) /\ Contains(rwWrite, t))
  /\ \A t \in Tasks : "RW_PEND" \in status[t] <=> Contains(rwRead, t) \/ Contains(rwWrite, t)
  /\ rwCount = 0 => rwRead = << >> /\ rwWrite = << >>

\* pthread_rwlock_init finds no waiters to forget.
FreeUnlessSet == magic # "set" => rwCount = 0

IInv == SemInv /\ RwTyped /\ RwLists /\ ReadersXorWriter /\ FreeUnlessSet

LEMMA EmptyList == /\ << >> \in Seq(Tasks) /\ NoDuplicates(<< >>)
                   /\ \A x : ~Contains(<< >>, x)
BY EmptySeq DEF NoDuplicates, Contains

LEMMA ReadersXorWriterDef ==
  ReadersXorWriter <=>
    /\ writing = IF rwOwner = NoTask THEN {} ELSE {rwOwner}
    /\ rwOwner = NoTask <=> rwCount >= 0
    /\ Cardinality(LocksOf(reads)) = (IF rwCount < 0 THEN 0 ELSE rwCount)
BY DEF ReadersXorWriter, ReadLocks, LocksOf

LEMMA PlaceInRange ==
  ASSUME TypeOK, NEW l \in Seq(Tasks), NEW p \in Prios
  PROVE  RwPlace(l, p) \in 1..(Len(l) + 1)
<1>1. \A i \in 1..Len(l) : prio[l[i]] \in Nat
  <2>1. \A i \in 1..Len(l) : l[i] \in Tasks
    OBVIOUS
  <2>2. \A u \in Tasks : prio[u] \in Nat
    BY NumbersOK DEF TypeOK, Prios
  <2> QED BY <2>1, <2>2
<1> DEFINE at == {i \in 1..Len(l) : prio[l[i]] >= p}
<1>2. CASE l = << >> \/ prio[Head(l)] > p
  BY <1>2 DEF RwPlace
<1>3. CASE ~ (l = << >> \/ prio[Head(l)] > p) /\ prio[Last(l)] <= p
  BY <1>3 DEF RwPlace
<1>4. CASE ~ (l = << >> \/ prio[Head(l)] > p) /\ ~ (prio[Last(l)] <= p)
  <2>1. Len(l) \in 1..Len(l) /\ Last(l) = l[Len(l)]
    BY <1>4, EmptySeq DEF Last
  <2>2. p \in Nat /\ prio[l[Len(l)]] >= p
    BY <1>1, <1>4, <2>1, NumbersOK DEF Prios
  <2>3. Len(l) \in at /\ at \in SUBSET Nat
    BY <2>1, <2>2
  <2>4. \A i \in at : i \in 1..Len(l)
    OBVIOUS
  <2>5. RwPlace(l, p) = Min(at) \/ RwPlace(l, p) = Min(at) + 1
    BY <1>4 DEF RwPlace
  <2> HIDE DEF at
  <2>6. Min(at) \in at
    BY <2>3, MinOfNaturals
  <2>7. Min(at) \in 1..Len(l)
    BY <2>4, <2>6
  <2> QED BY <2>5, <2>7
<1> QED BY <1>2, <1>3, <1>4

LEMMA ReadersNextFacts ==
  ASSUME RwTyped
  PROVE  /\ ReadersNext \in 0..Len(rwRead)
         /\ ReadersNext = 0 => rwRead = << >>
         /\ \A i \in 2..ReadersNext : AheadOfWriters(rwRead[i])
<1> DEFINE stops == {i \in 2..Len(rwRead) : ~AheadOfWriters(rwRead[i])}
<1>1. rwRead \in Seq(Tasks) /\ Len(rwRead) \in Nat /\ (Len(rwRead) = 0 => rwRead = << >>)
  BY EmptySeq DEF RwTyped
<1>2. CASE stops = {}
  <2>1. ReadersNext = Len(rwRead)
    BY <1>2 DEF ReadersNext
  <2> QED BY <1>1, <1>2, <2>1
<1>3. CASE stops # {}
  <2>1. ReadersNext = Min(stops) - 1
    BY <1>3 DEF ReadersNext
  <2>2. stops \in SUBSET Nat
    BY <1>1
  <2>3. \A i \in 2..Len(rwRead) : ~AheadOfWriters(rwRead[i]) => i \in stops
    OBVIOUS
  <2>4. \A i \in stops : i \in 2..Len(rwRead)
    OBVIOUS
  <2> HIDE DEF stops
  <2>5. Min(stops) \in stops /\ \A y \in stops : Min(stops) <= y
    BY <1>3, <2>2, MinOfNaturals
  <2>6. Min(stops) \in 2..Len(rwRead)
    BY <2>4, <2>5
  <2>7. ASSUME NEW i \in 2..ReadersNext PROVE AheadOfWriters(rwRead[i])
    <3>1. i \in 2..Len(rwRead) /\ i < Min(stops)
      BY <1>1, <2>1, <2>6
    <3>2. i \notin stops
      BY <2>5, <2>6, <3>1
    <3> QED BY <2>3, <3>1, <3>2
  <2>8. ReadersNext \in 1..Len(rwRead)
    BY <1>1, <2>1, <2>6
  <2> QED BY <1>1, <2>7, <2>8
<1> QED BY <1>2, <1>3

\* What a call on the lock leaves of the semaphores: it moves OS_TSK_RW_PEND only.
LEMMA LockCallsKeepSems ==
  ASSUME SemInv, UNCHANGED notWaiting,
         status' \in [Tasks -> SUBSET {"PEND", "RW_PEND", "TIMEOUT"}],
         \A t \in Tasks : "PEND" \in status'[t] <=> "PEND" \in status[t],
         \A t \in Tasks : ~ ("PEND" \in status'[t] /\ "RW_PEND" \in status'[t])
  PROVE  SemInv'
<1>1. TypeOK'
  BY DEF SemInv, Base, TypeOK, notWaiting, semVars, history
<1>2. OwnersAgree' /\ UnusedAreFree' /\ WaitersListed'
  BY DEF SemInv, Base, OwnersAgree, UnusedAreFree, WaitersListed, notWaiting, semVars, history
<1>3. StepOK' /\ WaitsOnce'
  BY DEF SemInv, Base, StepOK, WaitsOnce, notWaiting, semVars, history
<1>4. UrgentFirst' /\ LentOnTheWay' /\ LentAhead' /\ Returned'
  BY DEF SemInv, UrgentFirst, LentOnTheWay, Lent, LentAhead, Waiting, Returned, notWaiting, semVars, history
<1> QED BY <1>1, <1>2, <1>3, <1>4 DEF SemInv, Base

\* A call on the lock that changes no wait.
LEMMA LockCallsKeepVars ==
  ASSUME SemInv, UNCHANGED vars
  PROVE  SemInv'
<1>1. UNCHANGED notWaiting /\ UNCHANGED status
  BY DEF vars, taskVars, notWaiting
<1>2. /\ status' \in [Tasks -> SUBSET {"PEND", "RW_PEND", "TIMEOUT"}]
      /\ \A t \in Tasks : ~ ("PEND" \in status'[t] /\ "RW_PEND" \in status'[t])
  BY <1>1 DEF SemInv, Base, TypeOK, WaitsOnce
<1> QED BY <1>1, <1>2, LockCallsKeepSems

\* And what the calls on semaphores leave of the lock.
LEMMA SemCallsKeepLockWaits ==
  ASSUME SemInv, Next, NEW t \in Tasks
  PROVE  "RW_PEND" \in status'[t] <=> "RW_PEND" \in status[t]
<1>0. status \in [Tasks -> SUBSET {"PEND", "RW_PEND", "TIMEOUT"}]
  BY DEF SemInv, Base, TypeOK
<1>1. ASSUME NEW u \in Tasks, NEW s, NEW timed, status[u] = {}, Pends(u, s, timed)
      PROVE  "RW_PEND" \in status'[t] <=> "RW_PEND" \in status[t]
  <2>1. status' = [status EXCEPT ![u] = IF timed THEN {"PEND", "TIMEOUT"} ELSE {"PEND"}]
    BY <1>1 DEF Pends
  <2>2. CASE t = u
    <3>1. status'[t] = {"PEND", "TIMEOUT"} \/ status'[t] = {"PEND"}
      BY <1>0, <2>1, <2>2
    <3> QED BY <1>1, <2>2, <3>1
  <2>3. CASE t # u
    BY <1>0, <2>1, <2>3
  <2> QED BY <2>2, <2>3
<1>2. ASSUME NEW s \in Sems, list[s] # << >>, Wakes(s)
      PROVE  "RW_PEND" \in status'[t] <=> "RW_PEND" \in status[t]
  <2>1. list[s] \in Seq(Tasks) /\ NoDuplicates(list[s])
    BY DEF SemInv, Base, TypeOK, WaitersListed
  <2>2. Head(list[s]) \in Tasks /\ Contains(list[s], Head(list[s]))
    BY <1>2, <2>1, TailFacts
  <2>3. "RW_PEND" \notin status[Head(list[s])]
    BY <2>2 DEF SemInv, Base, WaitersListed, WaitsOnce
  <2>4. status' = [status EXCEPT ![Head(list[s])] = {}]
    BY <1>2 DEF Wakes
  <2> QED BY <1>0, <2>2, <2>3, <2>4
<1>3. ASSUME NEW u \in Tasks, TimerExpires(u) \/ TimedOut(u)
      PROVE  "RW_PEND" \in status'[t] <=> "RW_PEND" \in status[t]
  <2>1. /\ "RW_PEND" \notin status[u]
        /\ status' = [status EXCEPT ![u] = {"TIMEOUT"}] \/ status' = [status EXCEPT ![u] = {}]
    <3>1. CASE TimerExpires(u)
      BY <3>1 DEF TimerExpires, SemInv, Base, WaitsOnce
    <3>2. CASE TimedOut(u)
      BY <3>2 DEF TimedOut
    <3> QED BY <1>3, <3>1, <3>2
  <2>2. "RW_PEND" \notin status'[u] /\ (t # u => status'[t] = status[t])
    BY <1>0, <2>1
  <2> QED BY <2>1, <2>2
<1>4. ASSUME NEW u \in Tasks, MutexCalls(u)
      PROVE  "RW_PEND" \in status'[t] <=> "RW_PEND" \in status[t]
  <2>1. PICK m \in Mutexes : \/ Nests(u, m) \/ Takes(u, m) \/ Unnests(u, m) \/ Posts(u, m)
                             \/ \E timed \in BOOLEAN : Waits(u, m, timed)
    BY <1>4 DEF MutexCalls
  <2>2. CASE Nests(u, m) \/ Takes(u, m) \/ Unnests(u, m)
    BY <2>2 DEF Nests, Takes, Unnests, taskVars
  <2>3. CASE Posts(u, m)
    <3>1. (Wakes(m) /\ list[m] # << >>) \/ UNCHANGED status
      BY <2>3 DEF Posts
    <3> QED BY <1>2, <3>1 DEF Sems
  <2>4. ASSUME NEW timed \in BOOLEAN, Waits(u, m, timed)
        PROVE  "RW_PEND" \in status'[t] <=> "RW_PEND" \in status[t]
    BY <1>1, <2>4 DEF Waits, Runs
  <2> QED BY <2>1, <2>2, <2>3, <2>4
<1>5. ASSUME NEW u \in Tasks, CountCalls(u)
      PROVE  "RW_PEND" \in status'[t] <=> "RW_PEND" \in status[t]
  <2>1. PICK s \in Counting : TakesCount(u, s) \/ \E timed \in BOOLEAN : WaitsCount(u, s, timed)
    BY <1>5 DEF CountCalls
  <2>2. CASE TakesCount(u, s)
    BY <2>2 DEF TakesCount, taskVars
  <2>3. ASSUME NEW timed \in BOOLEAN, WaitsCount(u, s, timed)
        PROVE  "RW_PEND" \in status'[t] <=> "RW_PEND" \in status[t]
    BY <1>1, <2>3 DEF WaitsCount, Runs
  <2> QED BY <2>1, <2>2, <2>3
<1>6. ASSUME NEW s \in Counting, PostsCount(s)
      PROVE  "RW_PEND" \in status'[t] <=> "RW_PEND" \in status[t]
  <2>1. (Wakes(s) /\ list[s] # << >>) \/ UNCHANGED status
    BY <1>6 DEF PostsCount
  <2> QED BY <1>2, <2>1 DEF Sems
<1>7. ASSUME \/ \E s \in Deletable : Delete(s) \/ \E n \in 0..MaxCount : Create(s, n)
             \/ InheritBegins \/ Inherit \/ HandsOver \/ Restore
             \/ \E u \in Tasks : SetUnlocked(u) \/ \E p \in Targets : SetLocked(u, p)
             \/ \E p \in Targets : SetsLate(p)
      PROVE  UNCHANGED status
  BY <1>7 DEF Delete, Create, InheritBegins, Inherit, HandsOver, Restore,
         SetUnlocked, SetLocked, SetsLate, SetsPriority, taskVars
<1> QED BY <1>3, <1>4, <1>5, <1>6, <1>7 DEF Next

-----------------------------------------------------------------------------
(***************************************************************************)
(* Every step keeps the invariant.                                         *)
(***************************************************************************)

LEMMA SemCallsKeep ==
  ASSUME IInv, Next, UNCHANGED rwVars
  PROVE  IInv'
<1>1. SemInv'
  BY SemStep DEF IInv
<1>2. \A t \in Tasks : "RW_PEND" \in status'[t] <=> "RW_PEND" \in status[t]
  BY SemCallsKeepLockWaits DEF IInv
<1>3. RwTyped' /\ RwLists' /\ ReadersXorWriter' /\ FreeUnlessSet'
  BY <1>2 DEF IInv, RwTyped, RwLists, ReadersXorWriter, ReadLocks, FreeUnlessSet, rwVars
<1> QED BY <1>1, <1>3 DEF IInv

LEMMA MakeKeeps ==
  ASSUME IInv, RwCreate \/ RwDestroy
  PROVE  IInv'
<1>1. /\ rwCount = 0 /\ rwCount' = 0 /\ magic' \in {"set", "unset"}
      /\ rwOwner' = NoTask /\ rwRead' = << >> /\ rwWrite' = << >>
      /\ UNCHANGED <<vars, reads, writing>>
  BY DEF RwCreate, RwDestroy, IInv, FreeUnlessSet
<1>2. rwOwner = NoTask /\ rwRead = << >> /\ rwWrite = << >>
  BY <1>1 DEF IInv, ReadersXorWriter, RwLists
<1>3. SemInv'
  BY <1>1, LockCallsKeepVars DEF IInv
<1>4. RwTyped' /\ FreeUnlessSet'
  BY <1>1, EmptyList DEF IInv, RwTyped, FreeUnlessSet
<1>5. RwLists'
  BY <1>1, <1>2 DEF IInv, RwLists, vars, taskVars
<1>6. ReadersXorWriter'
  BY <1>1, <1>2 DEF IInv, ReadersXorWriter, ReadLocks
<1> QED BY <1>3, <1>4, <1>5, <1>6 DEF IInv

LEMMA RdLockKeeps ==
  ASSUME IInv, NEW t \in Tasks, RdLock(t)
  PROVE  IInv'
<1>1. /\ magic = "set" /\ reads[t] < MaxReads /\ rwCount >= 0 /\ rwCount' = rwCount + 1
      /\ reads' = [reads EXCEPT ![t] = @ + 1]
      /\ UNCHANGED <<vars, magic, rwOwner, rwRead, rwWrite, writing>>
  BY DEF RdLock, RwCalls
<1>2. reads \in [Tasks -> 0..MaxReads] /\ rwCount \in Int
  BY DEF IInv, RwTyped
<1>3. /\ reads' \in [Tasks -> 0..MaxReads]
      /\ Cardinality(LocksOf(reads')) = Cardinality(LocksOf(reads)) + 1
  BY <1>1, <1>2, OneLockMore
<1>4. SemInv'
  BY <1>1, LockCallsKeepVars DEF IInv
<1>5. RwTyped' /\ FreeUnlessSet'
  BY <1>1, <1>2, <1>3 DEF IInv, RwTyped, FreeUnlessSet
<1>6. RwLists'
  BY <1>1, <1>2 DEF IInv, RwLists, vars, taskVars
<1>7. ReadersXorWriter'
  <2>1. /\ writing = IF rwOwner = NoTask THEN {} ELSE {rwOwner}
        /\ rwOwner = NoTask <=> rwCount >= 0
        /\ Cardinality(LocksOf(reads)) = (IF rwCount < 0 THEN 0 ELSE rwCount)
    BY ReadersXorWriterDef DEF IInv
  <2>2. /\ writing' = IF rwOwner' = NoTask THEN {} ELSE {rwOwner'}
        /\ rwOwner' = NoTask <=> rwCount' >= 0
        /\ Cardinality(LocksOf(reads')) = (IF rwCount' < 0 THEN 0 ELSE rwCount')
    BY <1>1, <1>2, <1>3, <2>1
  <2> QED BY <2>2 DEF ReadersXorWriter, ReadLocks, LocksOf
<1> QED BY <1>4, <1>5, <1>6, <1>7 DEF IInv

LEMMA WrLockKeeps ==
  ASSUME IInv, NEW t \in Tasks, WrLock(t)
  PROVE  IInv'
<1>1. /\ magic = "set" /\ rwCount = 0 /\ rwCount' = -1 /\ rwOwner' = t /\ writing' = {t}
      /\ UNCHANGED <<vars, magic, rwRead, rwWrite, reads>>
  BY DEF WrLock, RwCalls
<1>2. SemInv'
  BY <1>1, LockCallsKeepVars DEF IInv
<1>3. RwTyped' /\ FreeUnlessSet'
  BY <1>1 DEF IInv, RwTyped, FreeUnlessSet
<1>4. RwLists'
  BY <1>1 DEF IInv, RwLists, vars, taskVars
<1>5. ReadersXorWriter'
  BY <1>1, TasksFinite DEF IInv, ReadersXorWriter, ReadLocks
<1> QED BY <1>2, <1>3, <1>4, <1>5 DEF IInv

\* A task that begins to wait for the lock.
LEMMA PendKeeps ==
  ASSUME IInv, NEW t \in Tasks, NEW timed, status[t] = {}, RwPend(t, timed),
         UNCHANGED <<notWaiting, magic, rwCount, rwOwner, reads, writing>>, rwCount # 0,
         \/ rwRead' = InsertAt(rwRead, RwPlace(rwRead, prio[t]), t) /\ UNCHANGED rwWrite
         \/ rwWrite' = InsertAt(rwWrite, RwPlace(rwWrite, prio[t]), t) /\ UNCHANGED rwRead
  PROVE  IInv'
<1>1. /\ status \in [Tasks -> SUBSET {"PEND", "RW_PEND", "TIMEOUT"}]
      /\ prio[t] \in Prios /\ TypeOK /\ rwRead \in Seq(Tasks) /\ rwWrite \in Seq(Tasks)
  BY DEF IInv, SemInv, Base, TypeOK, RwTyped
<1>2. status' = [status EXCEPT ![t] = {"RW_PEND"} \cup (IF timed THEN {"TIMEOUT"} ELSE {})]
  BY DEF RwPend
<1>3. /\ status' \in [Tasks -> SUBSET {"PEND", "RW_PEND", "TIMEOUT"}]
      /\ "PEND" \notin status'[t] /\ "RW_PEND" \in status'[t]
      /\ \A u \in Tasks : u # t => status'[u] = status[u]
  <2>1. ({"RW_PEND"} \cup (IF timed THEN {"TIMEOUT"} ELSE {})) \in SUBSET {"PEND", "RW_PEND", "TIMEOUT"}
    OBVIOUS
  <2>2. "PEND" \notin ({"RW_PEND"} \cup (IF timed THEN {"TIMEOUT"} ELSE {}))
    OBVIOUS
  <2> QED BY <1>1, <1>2, <2>1, <2>2
<1>4. SemInv'
  <2>1. \A u \in Tasks : "PEND" \in status'[u] <=> "PEND" \in status[u]
    BY <1>3
  <2>2. \A u \in Tasks : ~ ("PEND" \in status'[u] /\ "RW_PEND" \in status'[u])
    BY <1>3 DEF IInv, SemInv, Base, WaitsOnce
  <2> QED BY <1>3, <2>1, <2>2, LockCallsKeepSems DEF IInv
<1>5. ~Contains(rwRead, t) /\ ~Contains(rwWrite, t) /\ NoDuplicates(rwRead) /\ NoDuplicates(rwWrite)
  <2>1. "RW_PEND" \notin status[t]
    OBVIOUS
  <2> QED BY <2>1 DEF IInv, RwLists
<1>6. /\ rwRead' \in Seq(Tasks) /\ NoDuplicates(rwRead')
      /\ rwWrite' \in Seq(Tasks) /\ NoDuplicates(rwWrite')
      /\ \/ /\ \A x : Contains(rwRead', x) <=> (x = t \/ Contains(rwRead, x))
            /\ \A x : Contains(rwWrite', x) <=> Contains(rwWrite, x)
         \/ /\ \A x : Contains(rwWrite', x) <=> (x = t \/ Contains(rwWrite, x))
            /\ \A x : Contains(rwRead', x) <=> Contains(rwRead, x)
  <2>1. RwPlace(rwRead, prio[t]) \in 1..(Len(rwRead) + 1)
    BY <1>1, PlaceInRange
  <2>2. RwPlace(rwWrite, prio[t]) \in 1..(Len(rwWrite) + 1)
    BY <1>1, PlaceInRange
  <2>3. CASE rwRead' = InsertAt(rwRead, RwPlace(rwRead, prio[t]), t) /\ UNCHANGED rwWrite
    BY <1>1, <1>5, <2>1, <2>3, InsertFacts
  <2>4. CASE rwWrite' = InsertAt(rwWrite, RwPlace(rwWrite, prio[t]), t) /\ UNCHANGED rwRead
    BY <1>1, <1>5, <2>2, <2>4, InsertFacts
  <2> QED BY <2>3, <2>4
<1>7. RwTyped' /\ FreeUnlessSet'
  BY <1>6 DEF IInv, RwTyped, FreeUnlessSet
<1>8. RwLists'
  <2>1. ASSUME NEW u \in Tasks
        PROVE  /\ ~ (Contains(rwRead', u) /\ Contains(rwWrite', u))
               /\ "RW_PEND" \in status'[u] <=> Contains(rwRead', u) \/ Contains(rwWrite', u)
    <3>1. /\ ~ (Contains(rwRead, u) /\ Contains(rwWrite, u))
          /\ "RW_PEND" \in status[u] <=> Contains(rwRead, u) \/ Contains(rwWrite, u)
      BY DEF IInv, RwLists
    <3>2. CASE u = t
      BY <1>3, <1>5, <1>6, <3>2
    <3>3. CASE u # t
      BY <1>3, <1>6, <3>1, <3>3
    <3> QED BY <3>2, <3>3
  <2> QED BY <1>6, <2>1 DEF RwLists
<1>9. ReadersXorWriter'
  BY DEF IInv, ReadersXorWriter, ReadLocks
<1> QED BY <1>4, <1>7, <1>8, <1>9 DEF IInv

LEMMA WaitsForLockKeeps ==
  ASSUME IInv, NEW t \in Tasks, NEW timed, RdWaits(t, timed) \/ WrWaits(t, timed)
  PROVE  IInv'
<1>1. CASE RdWaits(t, timed)
  <2>1. rwCount # 0
    <3>1. rwCount < 0 \/ ~AheadOfWriters(t)
      BY <1>1 DEF RdWaits
    <3>2. CASE rwCount = 0
      <4>1. rwWrite = << >>
        BY <3>2 DEF IInv, RwLists
      <4> QED BY <3>1, <3>2, <4>1 DEF AheadOfWriters
    <3> QED BY <3>2
  <2> QED BY <1>1, <2>1, PendKeeps DEF RdWaits, RwCalls, Runs
<1>2. CASE WrWaits(t, timed)
  BY <1>2, PendKeeps DEF WrWaits, RwCalls, Runs
<1> QED BY <1>1, <1>2

LEMMA LockExpiryKeeps ==
  ASSUME IInv, NEW t \in Tasks, RwTimerExpires(t)
  PROVE  IInv'
<1>1. /\ "RW_PEND" \in status[t] /\ status' = [status EXCEPT ![t] = {"TIMEOUT"}]
      /\ rwRead' = RemoveFirst(rwRead, t) /\ rwWrite' = RemoveFirst(rwWrite, t)
      /\ UNCHANGED <<notWaiting, magic, rwCount, rwOwner, reads, writing>>
  BY DEF RwTimerExpires
<1>2. /\ status' \in [Tasks -> SUBSET {"PEND", "RW_PEND", "TIMEOUT"}]
      /\ "PEND" \notin status'[t] /\ "RW_PEND" \notin status'[t] /\ "PEND" \notin status[t]
      /\ \A u \in Tasks : u # t => status'[u] = status[u]
  BY <1>1 DEF IInv, SemInv, Base, TypeOK, WaitsOnce
<1>3. SemInv'
  <2>1. \A u \in Tasks : "PEND" \in status'[u] <=> "PEND" \in status[u]
    BY <1>2
  <2>2. \A u \in Tasks : ~ ("PEND" \in status'[u] /\ "RW_PEND" \in status'[u])
    BY <1>2 DEF IInv, SemInv, Base, WaitsOnce
  <2> QED BY <1>1, <1>2, <2>1, <2>2, LockCallsKeepSems DEF IInv
<1>4. rwRead \in Seq(Tasks) /\ NoDuplicates(rwRead) /\ rwWrite \in Seq(Tasks) /\ NoDuplicates(rwWrite)
  BY DEF IInv, RwTyped, RwLists
<1>5. /\ rwRead' \in Seq(Tasks) /\ NoDuplicates(rwRead')
      /\ \A x : Contains(rwRead', x) <=> (x # t /\ Contains(rwRead, x))
  BY <1>1, <1>4, RemoveFacts
<1>6. /\ rwWrite' \in Seq(Tasks) /\ NoDuplicates(rwWrite')
      /\ \A x : Contains(rwWrite', x) <=> (x # t /\ Contains(rwWrite, x))
  BY <1>1, <1>4, RemoveFacts
<1>7. RwTyped' /\ FreeUnlessSet'
  BY <1>1, <1>5, <1>6 DEF IInv, RwTyped, FreeUnlessSet
<1>8. RwLists'
  <2>1. ASSUME NEW u \in Tasks
        PROVE  /\ ~ (Contains(rwRead', u) /\ Contains(rwWrite', u))
               /\ "RW_PEND" \in status'[u] <=> Contains(rwRead', u) \/ Contains(rwWrite', u)
    BY <1>2, <1>5, <1>6 DEF IInv, RwLists
  <2>2. rwCount' = 0 => rwRead' = << >> /\ rwWrite' = << >>
    <3> SUFFICES ASSUME rwCount = 0 PROVE rwRead' = << >> /\ rwWrite' = << >>
      BY <1>1
    <3>1. rwRead = << >> /\ rwWrite = << >>
      BY DEF IInv, RwLists
    <3>2. \A x : ~Contains(rwRead', x) /\ ~Contains(rwWrite', x)
      BY <1>5, <1>6, <3>1, EmptyList
    <3>3. rwRead' = << >>
      BY <1>5, <3>2, EmptyFacts
    <3>4. rwWrite' = << >>
      BY <1>6, <3>2, EmptyFacts
    <3> QED BY <3>3, <3>4
  <2> QED BY <1>5, <1>6, <2>1, <2>2 DEF RwLists
<1>9. ReadersXorWriter'
  BY <1>1 DEF IInv, ReadersXorWriter, ReadLocks
<1> QED BY <1>3, <1>7, <1>8, <1>9 DEF IInv

\* The last one who unlocks leaves no lock behind.
LEMMA LastUnlock ==
  ASSUME IInv, NEW t \in Tasks, Unlock(t), ~ (rwCount > 1)
  PROVE  /\ ReadsLeft(t) = [u \in Tasks |-> 0]
         /\ writing \ {t} = {}
<1>1. /\ rwCount # 0 /\ rwCount \in Int /\ (rwCount < 0 => rwOwner = t)
      /\ t \in writing \/ reads[t] > 0
      /\ reads \in [Tasks -> 0..MaxReads]
      /\ writing = IF rwOwner = NoTask THEN {} ELSE {rwOwner}
      /\ rwOwner = NoTask <=> rwCount >= 0
      /\ Cardinality(LocksOf(reads)) = (IF rwCount < 0 THEN 0 ELSE rwCount)
  BY ReadersXorWriterDef DEF Unlock, IInv, RwTyped
<1>2. ReadsLeft(t) \in [Tasks -> 0..MaxReads] /\ Cardinality(LocksOf(ReadsLeft(t))) = 0
      /\ writing \ {t} = {}
  <2>1. CASE rwCount < 0
    <3>1. writing = {t} /\ Cardinality(LocksOf(reads)) = 0
      BY <1>1, <2>1, TasksFinite
    <3>2. ReadsLeft(t) = reads
      BY <3>1 DEF ReadsLeft
    <3> QED BY <1>1, <3>1, <3>2
  <2>2. CASE ~ (rwCount < 0)
    <3>1. rwCount = 1 /\ writing = {} /\ reads[t] > 0 /\ Cardinality(LocksOf(reads)) = 1
      BY <1>1, <2>2
    <3>2. ReadsLeft(t) = [reads EXCEPT ![t] = @ - 1]
      BY <3>1 DEF ReadsLeft
    <3>3. ReadsLeft(t) \in [Tasks -> 0..MaxReads] /\ Cardinality(LocksOf(ReadsLeft(t))) = 1 - 1
      BY <1>1, <3>1, <3>2, OneLockLess
    <3> QED BY <3>1, <3>3
  <2> QED BY <2>1, <2>2
<1>3. \A u \in Tasks : ReadsLeft(t)[u] = 0
  BY <1>2, NoLocks
<1> QED BY <1>2, <1>3

\* Waking tasks that wait for the lock.
LEMMA WakingKeeps ==
  ASSUME IInv, NEW next \in SUBSET Tasks, UNCHANGED <<notWaiting, magic>>, magic = "set",
         status' = [u \in Tasks |-> IF u \in next THEN {} ELSE status[u]],
         \A u \in next : "RW_PEND" \in status[u],
         rwRead' \in Seq(Tasks), NoDuplicates(rwRead'),
         rwWrite' \in Seq(Tasks), NoDuplicates(rwWrite'),
         \A x : Contains(rwRead', x) \/ Contains(rwWrite', x)
                 <=> (x \notin next /\ (Contains(rwRead, x) \/ Contains(rwWrite, x))),
         \A x : Contains(rwRead', x) => Contains(rwRead, x),
         \A x : Contains(rwWrite', x) => Contains(rwWrite, x),
         rwCount' = 0 => rwRead' = << >> /\ rwWrite' = << >>
  PROVE  SemInv' /\ RwLists' /\ FreeUnlessSet'
<1>1. /\ status \in [Tasks -> SUBSET {"PEND", "RW_PEND", "TIMEOUT"}]
      /\ \A u \in Tasks : ~ ("PEND" \in status[u] /\ "RW_PEND" \in status[u])
  BY DEF IInv, SemInv, Base, TypeOK, WaitsOnce
<1>2. /\ status' \in [Tasks -> SUBSET {"PEND", "RW_PEND", "TIMEOUT"}]
      /\ \A u \in Tasks : u \in next => "PEND" \notin status'[u] /\ "RW_PEND" \notin status'[u]
                                         /\ "PEND" \notin status[u]
      /\ \A u \in Tasks : u \notin next => status'[u] = status[u]
  BY <1>1
<1>3. SemInv'
  <2>1. \A u \in Tasks : "PEND" \in status'[u] <=> "PEND" \in status[u]
    BY <1>2
  <2>2. \A u \in Tasks : ~ ("PEND" \in status'[u] /\ "RW_PEND" \in status'[u])
    BY <1>1, <1>2
  <2> QED BY <1>2, <2>1, <2>2, LockCallsKeepSems DEF IInv
<1>4. RwLists'
  <2>1. ASSUME NEW u \in Tasks
        PROVE  /\ ~ (Contains(rwRead', u) /\ Contains(rwWrite', u))
               /\ "RW_PEND" \in status'[u] <=> Contains(rwRead', u) \/ Contains(rwWrite', u)
    BY <1>2 DEF IInv, RwLists
  <2> QED BY <2>1 DEF RwLists
<1>5. FreeUnlessSet'
  BY DEF FreeUnlessSet
<1> QED BY <1>3, <1>4, <1>5

LEMMA ToWriterKeeps ==
  ASSUME IInv, NEW t \in Tasks, Unlock(t), ~ (rwCount > 1), WriterNext, ToWriter(t)
  PROVE  IInv'
<1> DEFINE next == Head(rwWrite)
<1>1. /\ magic = "set" /\ UNCHANGED <<notWaiting, magic>>
      /\ rwCount' = -1 /\ rwOwner' = next /\ rwWrite' = Tail(rwWrite) /\ rwRead' = rwRead
      /\ status' = [status EXCEPT ![next] = {}]
      /\ reads' = ReadsLeft(t) /\ writing' = (writing \ {t}) \cup {next}
  BY DEF ToWriter, Unlock, RwCalls
<1>2. rwRead \in Seq(Tasks) /\ NoDuplicates(rwRead) /\ rwWrite \in Seq(Tasks) /\ NoDuplicates(rwWrite)
      /\ rwWrite # << >>
  BY DEF IInv, RwTyped, RwLists, WriterNext
<1>3. /\ Tail(rwWrite) \in Seq(Tasks) /\ NoDuplicates(Tail(rwWrite))
      /\ next \in Tasks /\ Contains(rwWrite, next)
      /\ \A x : Contains(Tail(rwWrite), x) <=> (x # next /\ Contains(rwWrite, x))
  BY <1>2, TailFacts
<1> HIDE DEF next
<1>4. reads' = [u \in Tasks |-> 0] /\ writing' = {next}
  BY <1>1, LastUnlock
<1>5. /\ reads' \in [Tasks -> 0..MaxReads]
      /\ Cardinality(LocksOf(reads')) = 0
  <2>1. reads' \in [Tasks -> 0..MaxReads] /\ \A u \in Tasks : reads'[u] = 0
    BY <1>4, RwBoundsOK
  <2> QED BY <2>1, NoLocks
<1>6. SemInv' /\ RwLists' /\ FreeUnlessSet'
  <2>1. "RW_PEND" \in status[next] /\ ~Contains(rwRead, next)
    BY <1>3 DEF IInv, RwLists
  <2>2. status' = [u \in Tasks |-> IF u \in {next} THEN {} ELSE status[u]]
    BY <1>1, <1>3 DEF IInv, SemInv, Base, TypeOK
  <2>3. \A x : Contains(rwRead, x) \/ Contains(Tail(rwWrite), x)
                 <=> (x \notin {next} /\ (Contains(rwRead, x) \/ Contains(rwWrite, x)))
    BY <1>3, <2>1
  <2>4. /\ rwRead' \in Seq(Tasks) /\ NoDuplicates(rwRead')
        /\ rwWrite' \in Seq(Tasks) /\ NoDuplicates(rwWrite')
        /\ \A x : Contains(rwRead', x) \/ Contains(rwWrite', x)
                   <=> (x \notin {next} /\ (Contains(rwRead, x) \/ Contains(rwWrite, x)))
        /\ \A x : Contains(rwRead', x) => Contains(rwRead, x)
        /\ \A x : Contains(rwWrite', x) => Contains(rwWrite, x)
        /\ rwCount' = 0 => rwRead' = << >> /\ rwWrite' = << >>
    BY <1>1, <1>2, <1>3, <2>3
  <2>5. {next} \in SUBSET Tasks /\ \A u \in {next} : "RW_PEND" \in status[u]
    BY <1>3, <2>1
  <2> QED BY <1>1, <2>2, <2>4, <2>5, WakingKeeps
<1>7. RwTyped'
  BY <1>1, <1>2, <1>3, <1>4, <1>5 DEF IInv, RwTyped
<1>8. ReadersXorWriter'
  <2>1. LocksOf(reads') = ReadLocks'
    BY DEF LocksOf, ReadLocks
  <2>2. next # NoTask
    BY <1>3, TasksFinite
  <2> QED BY <1>1, <1>4, <1>5, <2>1, <2>2 DEF ReadersXorWriter
<1> QED BY <1>6, <1>7, <1>8 DEF IInv

LEMMA ToReadersKeeps ==
  ASSUME IInv, NEW t \in Tasks, Unlock(t), ~ (rwCount > 1), ~WriterNext, ToReaders(t)
  PROVE  IInv'
<1> DEFINE n == ReadersNext
           next == ToSet(SubSeq(rwRead, 1, n))
           rest == SubSeq(rwRead, n + 1, Len(rwRead))
<1>1. /\ magic = "set" /\ UNCHANGED <<notWaiting, magic>>
      /\ rwCount' = n /\ rwOwner' = NoTask /\ rwRead' = rest /\ rwWrite' = rwWrite
      /\ status' = [u \in Tasks |-> IF u \in next THEN {} ELSE status[u]]
      /\ reads' = [u \in Tasks |-> ReadsLeft(t)[u] + (IF u \in next THEN 1 ELSE 0)]
      /\ writing' = writing \ {t}
  BY DEF ToReaders, Unlock, RwCalls
<1>2. rwRead \in Seq(Tasks) /\ NoDuplicates(rwRead) /\ rwWrite \in Seq(Tasks) /\ NoDuplicates(rwWrite)
  BY DEF IInv, RwTyped, RwLists
<1>3. n \in 0..Len(rwRead) /\ (n = 0 => rwRead = << >>)
  BY ReadersNextFacts DEF IInv
<1>4. /\ next = {rwRead[i] : i \in 1..n} /\ next \subseteq Tasks
      /\ rest \in Seq(Tasks) /\ NoDuplicates(rest)
      /\ \A x : Contains(rest, x) <=> (x \notin next /\ Contains(rwRead, x))
      /\ n = Len(rwRead) => rest = << >>
  <2> HIDE DEF n
  <2> QED BY <1>2, <1>3, SplitFacts
<1>5. \A u \in next : Contains(rwRead, u)
  BY <1>3, <1>4 DEF Contains
<1> HIDE DEF n, next, rest
<1>6. ReadsLeft(t) = [u \in Tasks |-> 0] /\ writing' = {}
  BY <1>1, LastUnlock
<1>7. reads' = [u \in Tasks |-> IF u \in {rwRead[i] : i \in 1..n} THEN 1 ELSE 0]
  BY <1>1, <1>4, <1>6
<1>8. reads' \in [Tasks -> 0..MaxReads] /\ Cardinality(LocksOf(reads')) = n
  BY <1>2, <1>3, <1>7, WokenLocks
<1>9. SemInv' /\ RwLists' /\ FreeUnlessSet'
  <2>1. \A u \in next : "RW_PEND" \in status[u] /\ ~Contains(rwWrite, u)
    BY <1>4, <1>5 DEF IInv, RwLists
  <2>2. n = 0 => rest = << >> /\ rwWrite = << >>
    <3> SUFFICES ASSUME n = 0 PROVE rest = << >> /\ rwWrite = << >>
      OBVIOUS
    <3>1. rwRead = << >> /\ Len(rwRead) = 0
      BY <1>3
    <3>2. rwWrite = << >>
      BY <3>1 DEF WriterNext
    <3> QED BY <1>4, <3>1, <3>2
  <2>3. \A x : Contains(rest, x) \/ Contains(rwWrite, x)
                 <=> (x \notin next /\ (Contains(rwRead, x) \/ Contains(rwWrite, x)))
    BY <1>4, <2>1
  <2> QED BY <1>1, <1>2, <1>4, <2>1, <2>2, <2>3, WakingKeeps
<1>10. RwTyped'
  BY <1>1, <1>2, <1>3, <1>4, <1>6, <1>8 DEF IInv, RwTyped
<1>11. ReadersXorWriter'
  <2>1. LocksOf(reads') = ReadLocks'
    BY DEF LocksOf, ReadLocks
  <2> QED BY <1>1, <1>3, <1>6, <1>8, <2>1 DEF ReadersXorWriter
<1> QED BY <1>9, <1>10, <1>11 DEF IInv

LEMMA UnlockKeeps ==
  ASSUME IInv, NEW t \in Tasks, Unlock(t)
  PROVE  IInv'
<1>1. CASE rwCount > 1
  <2>1. /\ magic = "set" /\ (t \in writing \/ reads[t] > 0)
        /\ rwCount' = rwCount - 1 /\ reads' = ReadsLeft(t)
        /\ UNCHANGED <<status, rwOwner, rwRead, rwWrite, writing, notWaiting, magic>>
    BY <1>1 DEF Unlock, RwCalls
  <2>2. /\ rwCount \in Int /\ reads \in [Tasks -> 0..MaxReads]
        /\ writing = IF rwOwner = NoTask THEN {} ELSE {rwOwner}
        /\ rwOwner = NoTask <=> rwCount >= 0
        /\ Cardinality(LocksOf(reads)) = (IF rwCount < 0 THEN 0 ELSE rwCount)
    BY ReadersXorWriterDef DEF IInv, RwTyped
  <2>3. writing = {} /\ reads[t] > 0
    BY <1>1, <2>1, <2>2
  <2>4. reads' = [reads EXCEPT ![t] = @ - 1]
    BY <2>1, <2>3 DEF ReadsLeft
  <2>5. /\ reads' \in [Tasks -> 0..MaxReads]
        /\ Cardinality(LocksOf(reads')) = Cardinality(LocksOf(reads)) - 1
    BY <2>2, <2>3, <2>4, OneLockLess
  <2>6. SemInv'
    <3>1. UNCHANGED vars
      BY <2>1 DEF notWaiting, vars, taskVars
    <3> QED BY <3>1, LockCallsKeepVars DEF IInv
  <2>7. RwTyped' /\ FreeUnlessSet'
    BY <2>1, <2>2, <2>5 DEF IInv, RwTyped, FreeUnlessSet
  <2>8. RwLists'
    BY <1>1, <2>1, <2>2 DEF IInv, RwLists
  <2>9. ReadersXorWriter'
    <3>1. LocksOf(reads') = ReadLocks'
      BY DEF LocksOf, ReadLocks
    <3>2. rwCount' = rwCount - 1 /\ rwCount' > 0 /\ rwOwner' = rwOwner /\ writing' = writing
      BY <1>1, <2>1, <2>2
    <3> QED BY <1>1, <2>2, <2>5, <3>1, <3>2 DEF ReadersXorWriter
  <2> QED BY <2>6, <2>7, <2>8, <2>9 DEF IInv
<1>2. CASE ~ (rwCount > 1)
  <2>1. (WriterNext /\ ToWriter(t)) \/ (~WriterNext /\ ToReaders(t))
    BY <1>2 DEF Unlock
  <2> QED BY <1>2, <2>1, ToWriterKeeps, ToReadersKeeps
<1> QED BY <1>1, <1>2

LEMMA LockInit == RwInit => IInv
<1> SUFFICES ASSUME RwInit PROVE IInv
  OBVIOUS
<1>1. /\ Init /\ magic \in {"none", "unset"} /\ rwCount = 0 /\ rwOwner = NoTask
      /\ rwRead = << >> /\ rwWrite = << >> /\ reads = [t \in Tasks |-> 0] /\ writing = {}
  BY DEF RwInit
<1>2. reads \in [Tasks -> 0..MaxReads] /\ \A t \in Tasks : reads[t] = 0
  BY <1>1, RwBoundsOK
<1>3. SemInv
  BY <1>1, SemInit
<1>4. RwTyped /\ FreeUnlessSet
  BY <1>1, <1>2, EmptyList DEF RwTyped, FreeUnlessSet
<1>5. RwLists
  <2>1. \A t \in Tasks : "RW_PEND" \notin status[t]
    BY <1>1 DEF Init
  <2> QED BY <1>1, <2>1, EmptyList DEF RwLists
<1>6. ReadersXorWriter
  <2>1. Cardinality(LocksOf(reads)) = 0
    BY <1>2, NoLocks
  <2> QED BY <1>1, <2>1, ReadersXorWriterDef
<1> QED BY <1>3, <1>4, <1>5, <1>6 DEF IInv

LEMMA LockStep == IInv /\ [RwNext]_allVars => IInv'
<1> SUFFICES ASSUME IInv, [RwNext]_allVars PROVE IInv'
  OBVIOUS
<1>1. CASE Next /\ UNCHANGED rwVars
  BY <1>1, SemCallsKeep
<1>2. CASE RwCreate \/ RwDestroy
  BY <1>2, MakeKeeps
<1>3. ASSUME NEW t \in Tasks, RdLock(t) \/ WrLock(t) \/ Unlock(t) \/ RwTimerExpires(t)
      PROVE  IInv'
  BY <1>3, RdLockKeeps, WrLockKeeps, UnlockKeeps, LockExpiryKeeps
<1>4. ASSUME NEW t \in Tasks, NEW timed \in BOOLEAN, RdWaits(t, timed) \/ WrWaits(t, timed)
      PROVE  IInv'
  BY <1>4, WaitsForLockKeeps
<1>5. CASE UNCHANGED allVars
  <2>1. UNCHANGED vars /\ UNCHANGED rwVars
    BY <1>5 DEF allVars
  <2>2. SemInv'
    BY <2>1, LockCallsKeepVars DEF IInv
  <2>3. RwTyped' /\ RwLists' /\ ReadersXorWriter' /\ FreeUnlessSet'
    BY <2>1 DEF IInv, RwTyped, RwLists, ReadersXorWriter, ReadLocks, FreeUnlessSet, rwVars, vars, taskVars
  <2> QED BY <2>2, <2>3 DEF IInv
<1> QED BY <1>1, <1>2, <1>3, <1>4, <1>5 DEF RwNext

-----------------------------------------------------------------------------
(***************************************************************************)
(* The theorems.                                                           *)
(***************************************************************************)

\* The inductive invariant: semaphores, inheritance at all moments of a walk and of a
\* hand-over, and the read-write lock.
THEOREM LockInvariant == RwSpec => []IInv
BY LockInit, LockStep, PTL DEF RwSpec

\* All state of semaphores and of the lock keeps its type; counts stay in range.
THEOREM LockTypesHold == RwSpec => []RwTypeOK
<1>1. IInv => RwTypeOK
  BY DEF IInv, SemInv, Base, RwTyped, RwTypeOK
<1> QED BY <1>1, LockInvariant, PTL

\* semOwner, semBList and the count of every mutex agree, whatever is created,
\* deleted, handed over or nested.
THEOREM OwnersStayAgreed == RwSpec => []OwnersAgree
<1>1. IInv => OwnersAgree
  BY DEF IInv, SemInv, Base
<1> QED BY <1>1, LockInvariant, PTL

\* A pended task is in the list it waits in, once, and nobody sleeps on what can
\* be had.
THEOREM AllWaitersStayListed == RwSpec => []AllWaitersListed
<1>1. IInv => AllWaitersListed
  <2> SUFFICES ASSUME IInv PROVE AllWaitersListed
    OBVIOUS
  <2>1. rwRead \in Seq(Tasks) /\ rwWrite \in Seq(Tasks)
    BY DEF IInv, RwTyped
  <2>2. \A t : Contains(rwRead, t) => t \in Tasks
    BY <2>1 DEF Contains
  <2>3. NoDuplicates(rwRead \o rwWrite)
    BY <2>1, <2>2, ConcatFacts DEF IInv, RwLists
  <2>4. \A t \in Tasks : "RW_PEND" \in status[t] <=> Contains(rwRead \o rwWrite, t)
    BY <2>1, ConcatFacts DEF IInv, RwLists
  <2> QED BY <2>3, <2>4 DEF AllWaitersListed, IInv, RwLists, SemInv, Base
<1> QED BY <1>1, LockInvariant, PTL

\* The waiters of a mutex stay sorted by priority while inheritance and
\* PRT_TaskSetPriority change the priorities.
THEOREM MutexListsStaySorted == RwSpec => []UrgentFirst
<1>1. IInv => UrgentFirst
  BY DEF IInv, SemInv
<1> QED BY <1>1, LockInvariant, PTL

\* Inheritance reaches the end of every chain of owners: between walks and
\* hand-overs each owner is as urgent as all tasks that wait for its mutexes, except
\* those that waited while PRT_TaskSetPriority set the next owner below them, between
\* its wake-up and semBList (prt_sem.c:343 to 355).
THEOREM InheritanceReaches == RwSpec => []OwnersInherit
<1>1. IInv => OwnersInherit
  BY SemInvHolds DEF IInv
<1> QED BY <1>1, LockInvariant, PTL

\* A task without mutexes has its own priority, unless PRT_TaskSetPriority came
\* between the two looks of OsPriorityRestore.
THEOREM PrioritiesReturn == RwSpec => []BorrowedIsReturned
<1>1. IInv => BorrowedIsReturned
  BY SemInvHolds DEF IInv
<1> QED BY <1>1, LockInvariant, PTL

\* rw_count and rw_owner tell who has the lock: readers, or one writer.
THEOREM LockStaysExclusive == RwSpec => []ReadersXorWriter
<1>1. IInv => ReadersXorWriter
  BY DEF IInv
<1> QED BY <1>1, LockInvariant, PTL

\* Whoever gets a read lock, by a call of its own or from OsRwLockPost, is more
\* urgent than the first writer that waits.
LEMMA ReadersAreAhead ==
  ASSUME IInv, [RwNext]_allVars, NEW t \in Tasks, reads'[t] > reads[t]
  PROVE  rwWrite' = << >> \/ prio[t] < prio[Head(rwWrite')]
<1>0. reads \in [Tasks -> 0..MaxReads] /\ reads[t] \in Nat /\ ~ (reads[t] > reads[t])
  BY RwBoundsOK DEF IInv, RwTyped
<1>1. ASSUME UNCHANGED reads PROVE FALSE
  BY <1>0, <1>1
<1>2. CASE \E u \in Tasks : RdLock(u)
  <2>1. PICK u \in Tasks : RdLock(u)
    BY <1>2
  <2>2. /\ AheadOfWriters(u) /\ rwWrite' = rwWrite
        /\ reads' = [reads EXCEPT ![u] = @ + 1]
    BY <2>1 DEF RdLock
  <2>3. t = u
    BY <1>0, <2>2
  <2> QED BY <2>2, <2>3 DEF AheadOfWriters
<1>3. CASE \E u \in Tasks : Unlock(u)
  <2>1. PICK u \in Tasks : Unlock(u)
    BY <1>3
  <2>2. ReadsLeft(u)[t] \in Nat /\ ReadsLeft(u)[t] <= reads[t]
    <3>1. CASE u \in writing
      BY <1>0, <3>1 DEF ReadsLeft
    <3>2. CASE u \notin writing
      <4>1. reads[u] > 0 /\ ReadsLeft(u) = [reads EXCEPT ![u] = @ - 1]
        BY <2>1, <3>2 DEF Unlock, ReadsLeft
      <4> QED BY <1>0, <4>1
    <3> QED BY <3>1, <3>2
  <2>3. reads' # ReadsLeft(u)
    BY <1>0, <2>2
  <2>4. ~WriterNext /\ ToReaders(u)
    BY <2>1, <2>3 DEF Unlock, ToWriter
  <2> DEFINE next == ToSet(SubSeq(rwRead, 1, ReadersNext))
  <2>5. /\ rwWrite' = rwWrite
        /\ reads'[t] = ReadsLeft(u)[t] + (IF t \in next THEN 1 ELSE 0)
    BY <2>4 DEF ToReaders
  <2>6. next = {rwRead[i] : i \in 1..ReadersNext}
    BY ReadersNextFacts, SplitFacts DEF IInv, RwTyped, RwLists
  <2> HIDE DEF next
  <2>7. t \in next
    BY <1>0, <2>2, <2>5
  <2>8. PICK i \in 1..ReadersNext : t = rwRead[i]
    BY <2>6, <2>7
  <2>9. rwRead \in Seq(Tasks) /\ ReadersNext \in 0..Len(rwRead)
    BY ReadersNextFacts DEF IInv, RwTyped
  <2>10. CASE i = 1
    <3>1. t = Head(rwRead) /\ rwRead # << >>
      BY <2>8, <2>9, <2>10
    <3>2. rwWrite = << >> \/ ~ (prio[Head(rwWrite)] <= prio[Head(rwRead)])
      BY <2>4, <3>1 DEF WriterNext
    <3>3. ASSUME rwWrite # << >> PROVE prio[t] < prio[Head(rwWrite)]
      <4>1. rwWrite \in Seq(Tasks)
        BY DEF IInv, RwTyped
      <4>2. Head(rwWrite) \in Tasks
        BY <3>3, <4>1, HeadTailProperties, EmptySeq
      <4>3. prio[t] \in Nat /\ prio[Head(rwWrite)] \in Nat
        BY <4>2, NumbersOK DEF IInv, SemInv, Base, TypeOK, Prios
      <4> QED BY <3>1, <3>2, <3>3, <4>3
    <3> QED BY <2>5, <3>3
  <2>11. CASE i # 1
    <3>1. i \in 2..ReadersNext
      BY <2>9, <2>11
    <3>2. AheadOfWriters(rwRead[i])
      BY <3>1, ReadersNextFacts DEF IInv
    <3> QED BY <2>5, <2>8, <3>2 DEF AheadOfWriters
  <2> QED BY <2>10, <2>11
<1>4. CASE \/ Next /\ UNCHANGED rwVars
           \/ RwCreate \/ RwDestroy
           \/ \E u \in Tasks :
                \/ WrLock(u) \/ RwTimerExpires(u)
                \/ \E timed \in BOOLEAN : RdWaits(u, timed) \/ WrWaits(u, timed)
           \/ UNCHANGED allVars
  BY <1>1, <1>4 DEF rwVars, allVars, RwCreate, RwDestroy, WrLock, RwTimerExpires, RdWaits, WrWaits
<1> QED BY <1>2, <1>3, <1>4 DEF RwNext

\* Whoever gets a read lock, by OsRwLockRdPend or by OsRwLockPost, is more urgent than
\* the first of the waiting writers, if there is one.
THEOREM WritersAreNotOvertaken == RwSpec => WriterNotOvertaken
<1>1. IInv /\ [RwNext]_allVars =>
        [\A t \in Tasks : reads'[t] > reads[t] =>
           rwWrite' = << >> \/ prio[t] < prio[Head(rwWrite')]]_allVars
  BY ReadersAreAhead
<1> QED BY <1>1, LockInvariant, PTL DEF RwSpec, WriterNotOvertaken
=============================================================================
