--------------------------- MODULE RiotSched_proofs ---------------------------
(***************************************************************************)
(* Facts about the operators of RiotSched: what they do to the type and to *)
(* the run queues of a kernel.                                             *)
(***************************************************************************)
EXTENDS RiotSched, ListFacts, FiniteSetTheorems

(***************************************************************************)
(* Kernels.                                                                *)
(***************************************************************************)

WellFormed(k) == k \in Kernels /\ RunqueuesMatch(k)

\* What a change of the run queues leaves alone.
QueuesOnly(m, k) ==
  /\ m.status = k.status /\ m.prio = k.prio /\ m.active = k.active
  /\ m.idle = k.idle /\ m.req = k.req /\ m.tail = k.tail

\* No list holds a thread twice, and the bits are those of the lists in use.
ListsOK(k) ==
  /\ \A q \in Prios : NoDuplicates(k.runq[q])
  /\ \A q \in Prios : q \in k.bits <=> k.runq[q] # << >>

\* A push of a thread that is in no list, and a pop of one that is in the list
\* of its level, change that list alone, and keep the bits right.
LEMMA PushFacts ==
  ASSUME NEW k \in Kernels, NEW t \in Threads, NEW p \in Prios,
         ListsOK(k), ~Contains(k.runq[p], t)
  PROVE  LET m == RunqueuePush(k, t, p)
         IN /\ m \in Kernels /\ QueuesOnly(m, k) /\ ListsOK(m)
            /\ \A q \in Prios, u \in Threads :
                 Contains(m.runq[q], u) <=> ((q = p /\ u = t) \/ Contains(k.runq[q], u))
<1> DEFINE m == RunqueuePush(k, t, p)
           r == Append(k.runq[p], t)
<1>1. k.runq[p] \in Seq(Threads) /\ NoDuplicates(k.runq[p])
  BY DEF Kernels, ListsOK
<1>2. /\ r \in Seq(Threads) /\ r # << >> /\ NoDuplicates(r)
      /\ \A x : Contains(r, x) <=> (x = t \/ Contains(k.runq[p], x))
  BY <1>1, AppendFacts
<1>3. m = [k EXCEPT !.runq = [k.runq EXCEPT ![p] = r], !.bits = k.bits \cup {p}]
  BY DEF RunqueuePush, Kernels
<1> HIDE DEF m, r
<1>4. /\ m \in Kernels /\ QueuesOnly(m, k)
      /\ m.runq = [k.runq EXCEPT ![p] = r] /\ m.bits = k.bits \cup {p}
  BY <1>2, <1>3 DEF Kernels, QueuesOnly
<1>5. \A q \in Prios : m.runq[q] = IF q = p THEN r ELSE k.runq[q]
  BY <1>4 DEF Kernels
<1>6. ListsOK(m)
  BY <1>2, <1>4, <1>5 DEF ListsOK
<1>7. \A q \in Prios, u \in Threads :
        Contains(m.runq[q], u) <=> ((q = p /\ u = t) \/ Contains(k.runq[q], u))
  BY <1>2, <1>5
<1> QED BY <1>4, <1>6, <1>7 DEF m

LEMMA PopFacts ==
  ASSUME NEW k \in Kernels, NEW t \in Threads,
         ListsOK(k), Contains(k.runq[k.prio[t]], t)
  PROVE  LET m == RunqueuePop(k, t)
         IN /\ m \in Kernels /\ QueuesOnly(m, k) /\ ListsOK(m)
            /\ \A q \in Prios, u \in Threads :
                 Contains(m.runq[q], u)
                   <=> (~ (q = k.prio[t] /\ u = t) /\ Contains(k.runq[q], u))
<1> DEFINE m == RunqueuePop(k, t)
           p == k.prio[t]
           r == RemoveFirst(k.runq[p], t)
           b == IF r = << >> THEN k.bits \ {p} ELSE k.bits
<1>1. /\ p \in Prios /\ k.runq[p] \in Seq(Threads) /\ NoDuplicates(k.runq[p])
      /\ k.runq[p] # << >>
  BY DEF Kernels, ListsOK, Contains
<1>2. /\ r \in Seq(Threads) /\ NoDuplicates(r)
      /\ \A x : Contains(r, x) <=> (x # t /\ Contains(k.runq[p], x))
  BY <1>1, RemoveFirstFacts
<1>3. m = [k EXCEPT !.runq = [k.runq EXCEPT ![p] = r], !.bits = b]
  BY DEF RunqueuePop, Kernels
<1> HIDE DEF m, r
<1>4. /\ m \in Kernels /\ QueuesOnly(m, k)
      /\ m.runq = [k.runq EXCEPT ![p] = r] /\ m.bits = b
  BY <1>1, <1>2, <1>3 DEF Kernels, QueuesOnly
<1>5. \A q \in Prios : m.runq[q] = IF q = p THEN r ELSE k.runq[q]
  BY <1>1, <1>4 DEF Kernels
<1>6. ListsOK(m)
  BY <1>1, <1>2, <1>4, <1>5 DEF ListsOK
<1>7. \A q \in Prios, u \in Threads :
        Contains(m.runq[q], u) <=> (~ (q = k.prio[t] /\ u = t) /\ Contains(k.runq[q], u))
  BY <1>1, <1>2, <1>5
<1> QED BY <1>4, <1>6, <1>7 DEF m

\* sched_set_status keeps a kernel well formed and changes, beside the run
\* queues, the one status.
LEMMA SetStatusFacts ==
  ASSUME NEW k, WellFormed(k), NEW t \in Threads, NEW s \in Blocked \cup OnRunqueue
  PROVE  LET m == SetStatus(k, t, s)
         IN /\ WellFormed(m)
            /\ m.status = [k.status EXCEPT ![t] = s]
            /\ m.prio = k.prio /\ m.active = k.active /\ m.idle = k.idle
            /\ m.req = k.req /\ m.tail = k.tail
<1> DEFINE moved == IF s \in OnRunqueue
                    THEN IF IsReady(k, t) THEN k ELSE RunqueuePush(k, t, k.prio[t])
                    ELSE IF IsReady(k, t) THEN RunqueuePop(k, t) ELSE k
           m == [moved EXCEPT !.status[t] = s]
           ready(u) == IF u = t THEN s \in OnRunqueue ELSE IsReady(k, u)
<1>0. m = SetStatus(k, t, s)
  BY DEF SetStatus
<1>1. /\ k \in Kernels /\ k.prio \in [Threads -> Prios] /\ ListsOK(k)
      /\ \A q \in Prios, u \in Threads :
           Contains(k.runq[q], u) <=> (k.prio[u] = q /\ IsReady(k, u))
  BY DEF WellFormed, RunqueuesMatch, Kernels, ListsOK
<1>2. /\ moved \in Kernels /\ QueuesOnly(moved, k) /\ ListsOK(moved)
      /\ \A q \in Prios, u \in Threads :
           Contains(moved.runq[q], u) <=> (k.prio[u] = q /\ ready(u))
  <2>1. CASE s \in OnRunqueue /\ ~IsReady(k, t)
    <3>1. moved = RunqueuePush(k, t, k.prio[t]) /\ ~Contains(k.runq[k.prio[t]], t)
      BY <2>1, <1>1
    <3> HIDE DEF moved
    <3> QED BY <3>1, <2>1, <1>1, PushFacts
  <2>2. CASE s \notin OnRunqueue /\ IsReady(k, t)
    <3>1. moved = RunqueuePop(k, t) /\ Contains(k.runq[k.prio[t]], t)
      BY <2>2, <1>1
    <3> HIDE DEF moved
    <3> QED BY <3>1, <2>2, <1>1, PopFacts
  <2>3. CASE s \in OnRunqueue <=> IsReady(k, t)
    <3>1. moved = k
      BY <2>3
    <3> HIDE DEF moved
    <3> QED BY <3>1, <1>1, <2>3 DEF QueuesOnly
  <2> QED BY <2>1, <2>2, <2>3
<1> HIDE DEF moved
<1>3. /\ m \in Kernels
      /\ m.status = [k.status EXCEPT ![t] = s]
      /\ m.prio = k.prio /\ m.active = k.active /\ m.idle = k.idle
      /\ m.req = k.req /\ m.tail = k.tail
      /\ m.runq = moved.runq /\ m.bits = moved.bits
  BY <1>2 DEF Kernels, QueuesOnly
<1> HIDE DEF m
<1>4. \A u \in Threads : IsReady(m, u) <=> ready(u)
  BY <1>1, <1>3 DEF IsReady, Kernels
<1>5. RunqueuesMatch(m)
  BY <1>2, <1>3, <1>4 DEF RunqueuesMatch, ListsOK
<1> QED BY <1>0, <1>3, <1>5 DEF WellFormed

\* sched_change_priority keeps a kernel well formed and changes, beside the run
\* queues, the one priority.
LEMMA SetPriorityFacts ==
  ASSUME NEW k, WellFormed(k), NEW t \in Threads, NEW p \in Prios
  PROVE  LET m == SetPriority(k, t, p)
         IN /\ WellFormed(m)
            /\ m.prio = [k.prio EXCEPT ![t] = p]
            /\ m.status = k.status /\ m.active = k.active /\ m.idle = k.idle
            /\ m.req = k.req /\ m.tail = k.tail
<1> DEFINE popped == RunqueuePop(k, t)
           moved == IF IsReady(k, t) THEN RunqueuePush(popped, t, p) ELSE k
           m == [moved EXCEPT !.prio[t] = p]
           at(u) == IF u = t THEN p ELSE k.prio[u]
<1>0. m = SetPriority(k, t, p)
  BY DEF SetPriority
<1>1. /\ k \in Kernels /\ k.prio \in [Threads -> Prios] /\ ListsOK(k)
      /\ \A q \in Prios, u \in Threads :
           Contains(k.runq[q], u) <=> (k.prio[u] = q /\ IsReady(k, u))
  BY DEF WellFormed, RunqueuesMatch, Kernels, ListsOK
<1>2. /\ moved \in Kernels /\ QueuesOnly(moved, k) /\ ListsOK(moved)
      /\ \A q \in Prios, u \in Threads :
           Contains(moved.runq[q], u) <=> (at(u) = q /\ IsReady(k, u))
  <2>1. CASE IsReady(k, t)
    <3>1. Contains(k.runq[k.prio[t]], t)
      BY <2>1, <1>1
    <3>2. /\ popped \in Kernels /\ QueuesOnly(popped, k) /\ ListsOK(popped)
          /\ \A q \in Prios, u \in Threads :
               Contains(popped.runq[q], u)
                 <=> (~ (q = k.prio[t] /\ u = t) /\ Contains(k.runq[q], u))
      BY <3>1, <1>1, PopFacts
    <3>3. ~Contains(popped.runq[p], t)
      BY <3>2, <1>1
    <3>4. moved = RunqueuePush(popped, t, p)
      BY <2>1
    <3> HIDE DEF popped, moved
    <3>5. /\ moved \in Kernels /\ QueuesOnly(moved, popped) /\ ListsOK(moved)
          /\ \A q \in Prios, u \in Threads :
               Contains(moved.runq[q], u)
                 <=> ((q = p /\ u = t) \/ Contains(popped.runq[q], u))
      BY <3>2, <3>3, <3>4, PushFacts
    <3> QED BY <3>2, <3>5, <2>1, <1>1 DEF QueuesOnly
  <2>2. CASE ~IsReady(k, t)
    <3>1. moved = k
      BY <2>2
    <3> HIDE DEF moved
    <3> QED BY <3>1, <1>1, <2>2 DEF QueuesOnly
  <2> QED BY <2>1, <2>2
<1> HIDE DEF moved
<1>3. /\ m \in Kernels
      /\ m.prio = [k.prio EXCEPT ![t] = p]
      /\ m.status = k.status /\ m.active = k.active /\ m.idle = k.idle
      /\ m.req = k.req /\ m.tail = k.tail
      /\ m.runq = moved.runq /\ m.bits = moved.bits
  BY <1>2 DEF Kernels, QueuesOnly
<1> HIDE DEF m
<1>4. /\ \A u \in Threads : IsReady(m, u) <=> IsReady(k, u)
      /\ \A u \in Threads : m.prio[u] = at(u)
  BY <1>1, <1>3 DEF IsReady
<1>5. RunqueuesMatch(m)
  BY <1>2, <1>3, <1>4 DEF RunqueuesMatch, ListsOK
<1> QED BY <1>0, <1>3, <1>5 DEF WellFormed

\* sched_runq_advance only reorders a list.
LEMMA AdvanceFacts ==
  ASSUME NEW k, WellFormed(k), NEW p \in Prios
  PROVE  WellFormed(RunqueueAdvance(k, p)) /\ QueuesOnly(RunqueueAdvance(k, p), k)
<1>1. k \in Kernels /\ k.runq[p] \in Seq(Threads) /\ NoDuplicates(k.runq[p])
  BY DEF WellFormed, RunqueuesMatch, Kernels
<1>2. CASE k.runq[p] = << >>
  BY <1>1, <1>2 DEF RunqueueAdvance, QueuesOnly
<1>3. CASE k.runq[p] # << >>
  <2> DEFINE r == Append(Tail(k.runq[p]), Head(k.runq[p]))
             m == RunqueueAdvance(k, p)
  <2>1. /\ r \in Seq(Threads) /\ r # << >> /\ NoDuplicates(r)
        /\ \A x : Contains(r, x) <=> Contains(k.runq[p], x)
    BY <1>1, <1>3, RotateFacts
  <2>2. m = [k EXCEPT !.runq = [k.runq EXCEPT ![p] = r]]
    BY <1>1, <1>3 DEF RunqueueAdvance, Kernels
  <2> HIDE DEF m, r
  <2>3. /\ m \in Kernels /\ QueuesOnly(m, k) /\ m.bits = k.bits
        /\ \A q \in Prios : m.runq[q] = IF q = p THEN r ELSE k.runq[q]
    BY <2>1, <2>2, <1>1 DEF Kernels, QueuesOnly
  <2>4. \A u \in Threads : IsReady(m, u) <=> IsReady(k, u)
    BY <2>3 DEF QueuesOnly, IsReady
  <2>5. RunqueuesMatch(m)
    BY <2>1, <2>3, <2>4, <1>3 DEF WellFormed, RunqueuesMatch, QueuesOnly
  <2> QED BY <2>3, <2>5 DEF WellFormed, m
<1> QED BY <1>2, <1>3

(***************************************************************************)
(* The scheduler.                                                          *)
(***************************************************************************)

\* A thread is ready exactly when its level lists it, so the next thread exists
\* and is ready whenever a bit is set.
LEMMA NextThreadIsReady ==
  ASSUME NEW k, WellFormed(k), k.bits # {}
  PROVE  NextThread(k) \in Threads /\ IsReady(k, NextThread(k))
<1> DEFINE p == Min(k.bits)
<1>1. k.bits \in SUBSET Nat
  BY PriosAreLevels DEF WellFormed, Kernels
<1>2. p \in k.bits
  BY <1>1, MinOfNaturals, Zenon
<1> HIDE DEF p
<1>3. p \in Prios /\ k.runq[p] \in Seq(Threads) /\ k.runq[p] # << >>
  BY <1>2 DEF WellFormed, RunqueuesMatch, Kernels
<1>4. Head(k.runq[p]) = k.runq[p][1] /\ 1 \in 1..Len(k.runq[p])
  BY <1>3
<1>5. Head(k.runq[p]) \in Threads /\ Contains(k.runq[p], Head(k.runq[p]))
  BY <1>3, <1>4 DEF Contains
<1>6. IsReady(k, Head(k.runq[p]))
  BY <1>3, <1>5 DEF WellFormed, RunqueuesMatch
<1> QED BY <1>5, <1>6 DEF NextThread, p

\* The status of ready threads may move between "running" and "pending" without
\* any effect on the run queues.
LEMMA SameQueues ==
  ASSUME NEW k, WellFormed(k), NEW m \in Kernels,
         m.runq = k.runq, m.bits = k.bits, m.prio = k.prio,
         \A u \in Threads : IsReady(m, u) <=> IsReady(k, u)
  PROVE  WellFormed(m)
BY DEF WellFormed, RunqueuesMatch

\* What unscheduling the active thread changes.
LEMMA UnscheduleFacts ==
  ASSUME NEW k, WellFormed(k), OneRunning(k)
  PROVE  LET m == Unschedule(k)
         IN /\ WellFormed(m)
            /\ m.runq = k.runq /\ m.bits = k.bits /\ m.prio = k.prio
            /\ m.active = k.active /\ m.idle = k.idle /\ m.req = k.req /\ m.tail = k.tail
            /\ \A u \in Threads : IsReady(m, u) <=> IsReady(k, u)
            /\ \A u \in Threads : m.status[u] # "running"
            /\ \A u \in Threads : ~IsReady(k, u) => m.status[u] = k.status[u]
<1> DEFINE m == Unschedule(k)
<1>1. k \in Kernels
  BY DEF WellFormed
<1>2. CASE k.active # NoThread /\ k.status[k.active] = "running"
  <2>1. k.active \in Threads
    BY <1>1, <1>2 DEF Kernels
  <2>2. m = [k EXCEPT !.status = [k.status EXCEPT ![k.active] = "pending"]]
    BY <1>1, <1>2 DEF Unschedule, Kernels
  <2> HIDE DEF m
  <2>3. /\ m \in Kernels /\ m.status = [k.status EXCEPT ![k.active] = "pending"]
        /\ m.runq = k.runq /\ m.bits = k.bits /\ m.prio = k.prio
        /\ m.active = k.active /\ m.idle = k.idle /\ m.req = k.req /\ m.tail = k.tail
    BY <1>1, <2>2 DEF Kernels, OnRunqueue
  <2>4. \A u \in Threads : IsReady(m, u) <=> IsReady(k, u)
    BY <1>1, <1>2, <2>3 DEF Kernels, IsReady, OnRunqueue
  <2>5. \A u \in Threads : m.status[u] # "running"
    BY <1>1, <2>1, <2>3 DEF OneRunning, Kernels
  <2>6. \A u \in Threads : ~IsReady(k, u) => m.status[u] = k.status[u]
    BY <1>1, <1>2, <2>3 DEF IsReady, OnRunqueue, Kernels
  <2> QED BY <2>3, <2>4, <2>5, <2>6, SameQueues DEF m
<1>3. CASE ~ (k.active # NoThread /\ k.status[k.active] = "running")
  <2>1. Unschedule(k) = k
    BY <1>3 DEF Unschedule
  <2>2. \A u \in Threads : k.status[u] # "running"
    BY <1>3, NoThreadIsNone DEF OneRunning
  <2> QED BY <2>1, <2>2
<1> QED BY <1>2, <1>3

\* sched_run changes no priority, leaves every thread in its list, marks at most
\* one thread as running, and activates a ready one or nobody new.
LEMMA SchedRunFacts ==
  ASSUME NEW k, WellFormed(k), OneRunning(k)
  PROVE  LET m == SchedRun(k)
         IN /\ WellFormed(m) /\ OneRunning(m)
            /\ m.runq = k.runq /\ m.bits = k.bits /\ m.prio = k.prio /\ m.tail = k.tail
            /\ \A u \in Threads : IsReady(m, u) <=> IsReady(k, u)
            /\ m.active = k.active \/ (m.active \in Threads /\ IsReady(k, m.active))
            /\ m.idle \/ (m.active \in Threads /\ IsReady(k, m.active))
            /\ \A u \in Threads : ~IsReady(k, u) => m.status[u] = k.status[u]
<1> DEFINE m == SchedRun(k)
<1>1. k \in Kernels
  BY DEF WellFormed
<1>2. CASE k.bits = {}
  <2> DEFINE n == Unschedule(k)
  <2>1. /\ WellFormed(n)
        /\ n.runq = k.runq /\ n.bits = k.bits /\ n.prio = k.prio
        /\ n.active = k.active /\ n.tail = k.tail
        /\ \A u \in Threads : IsReady(n, u) <=> IsReady(k, u)
        /\ \A u \in Threads : n.status[u] # "running"
        /\ \A u \in Threads : ~IsReady(k, u) => n.status[u] = k.status[u]
    BY UnscheduleFacts, Zenon
  <2>2. m = [n EXCEPT !.idle = TRUE]
    BY <1>2 DEF SchedRun
  <2> HIDE DEF n, m
  <2>3. /\ m \in Kernels /\ m.status = n.status
        /\ m.runq = n.runq /\ m.bits = n.bits /\ m.prio = n.prio
        /\ m.active = n.active /\ m.tail = n.tail /\ m.idle
    BY <2>1, <2>2 DEF WellFormed, Kernels
  <2>4. \A u \in Threads : IsReady(m, u) <=> IsReady(n, u)
    BY <2>3 DEF IsReady
  <2>5. WellFormed(m)
    BY <2>1, <2>3, <2>4, SameQueues
  <2> QED BY <2>1, <2>3, <2>4, <2>5 DEF OneRunning, m
<1>3. CASE k.bits # {}
  <2> DEFINE next == NextThread(k)
             left == IF next = k.active THEN k ELSE Unschedule(k)
  <2>1. next \in Threads /\ IsReady(k, next)
    BY <1>3, NextThreadIsReady
  <2>2. m = [left EXCEPT !.status[next] = "running", !.active = next,
                         !.idle = FALSE, !.req = FALSE]
    BY <1>3 DEF SchedRun
  <2> HIDE DEF next, m
  <2>3. /\ WellFormed(left)
        /\ left.runq = k.runq /\ left.bits = k.bits /\ left.prio = k.prio
        /\ left.tail = k.tail
        /\ \A u \in Threads : IsReady(left, u) <=> IsReady(k, u)
        /\ \A u \in Threads : left.status[u] = "running" => u = next
        /\ \A u \in Threads : ~IsReady(k, u) => left.status[u] = k.status[u]
    <3>1. CASE next = k.active
      <4>1. left = k
        BY <3>1
      <4> HIDE DEF left
      <4> QED BY <3>1, <4>1 DEF OneRunning
    <3>2. CASE next # k.active
      <4>1. left = Unschedule(k)
        BY <3>2
      <4> HIDE DEF left
      <4> QED BY <4>1, UnscheduleFacts
    <3> QED BY <3>1, <3>2
  <2> HIDE DEF left
  <2>4. /\ m \in Kernels /\ m.status = [left.status EXCEPT ![next] = "running"]
        /\ m.runq = left.runq /\ m.bits = left.bits /\ m.prio = left.prio
        /\ m.active = next /\ m.tail = left.tail
    BY <2>1, <2>2, <2>3 DEF WellFormed, Kernels, OnRunqueue
  <2>5. \A u \in Threads : IsReady(m, u) <=> IsReady(left, u)
    BY <2>1, <2>3, <2>4 DEF IsReady, OnRunqueue, WellFormed, Kernels
  <2>6. WellFormed(m)
    BY <2>3, <2>4, <2>5, SameQueues
  <2>7. OneRunning(m)
    BY <2>3, <2>4 DEF OneRunning, WellFormed, Kernels
  <2>8. \A u \in Threads : ~IsReady(k, u) => m.status[u] = k.status[u]
    BY <2>1, <2>3, <2>4 DEF WellFormed, Kernels
  <2> QED BY <2>1, <2>3, <2>4, <2>5, <2>6, <2>7, <2>8 DEF m
<1> QED BY <1>2, <1>3

\* The scheduler calls an operation may end with.
LEMMA TailTypes ==
  /\ NoTail \in TailCalls /\ YieldHigher \in TailCalls /\ Yield \in TailCalls
  /\ \A p \in Prios : Switch(p) \in TailCalls
  /\ \A p \in Prios, t \in Threads : Change(t, p) \in TailCalls
BY DEF TailCalls

\* Fields that no run queue depends on.
LEMMA EndsFacts ==
  ASSUME NEW k, WellFormed(k), NEW t \in Threads, NEW x \in TailCalls
  PROVE  LET m == Ends(k, t, x)
         IN /\ WellFormed(m)
            /\ m.status = k.status /\ m.runq = k.runq /\ m.bits = k.bits /\ m.prio = k.prio
            /\ m.active = k.active /\ m.idle = k.idle
            /\ m.tail = [k.tail EXCEPT ![t] = x]
            /\ \A u \in Threads : IsReady(m, u) <=> IsReady(k, u)
<1> DEFINE m == Ends(k, t, x)
<1>1. m = [k EXCEPT !.tail = [k.tail EXCEPT ![t] = x]]
  BY DEF Ends, WellFormed, Kernels
<1> HIDE DEF m
<1>2. /\ m \in Kernels
      /\ m.status = k.status /\ m.runq = k.runq /\ m.bits = k.bits /\ m.prio = k.prio
      /\ m.active = k.active /\ m.idle = k.idle
      /\ m.tail = [k.tail EXCEPT ![t] = x]
  BY <1>1 DEF WellFormed, Kernels
<1>3. \A u \in Threads : IsReady(m, u) <=> IsReady(k, u)
  BY <1>2 DEF IsReady
<1> QED BY <1>2, <1>3, SameQueues DEF m

\* A request for a context switch is not part of the run queues either.
LEMMA RequestFacts ==
  ASSUME NEW k, WellFormed(k), NEW r \in BOOLEAN
  PROVE  LET m == [k EXCEPT !.req = r]
         IN /\ WellFormed(m)
            /\ m.status = k.status /\ m.runq = k.runq /\ m.bits = k.bits /\ m.prio = k.prio
            /\ m.active = k.active /\ m.idle = k.idle /\ m.tail = k.tail
            /\ \A u \in Threads : IsReady(m, u) <=> IsReady(k, u)
<1> DEFINE m == [k EXCEPT !.req = r]
<1>2. /\ m \in Kernels
      /\ m.status = k.status /\ m.runq = k.runq /\ m.bits = k.bits /\ m.prio = k.prio
      /\ m.active = k.active /\ m.idle = k.idle /\ m.tail = k.tail
  BY DEF WellFormed, Kernels
<1> HIDE DEF m
<1>3. \A u \in Threads : IsReady(m, u) <=> IsReady(k, u)
  BY <1>2 DEF IsReady
<1> QED BY <1>2, <1>3, SameQueues DEF m

(***************************************************************************)
(* The same facts, for the calls that put these operators together.        *)
(***************************************************************************)

OnlyStatus(m, k, t, s) ==
  /\ m.status = [k.status EXCEPT ![t] = s]
  /\ m.prio = k.prio /\ m.active = k.active /\ m.idle = k.idle /\ m.tail = k.tail
OnlyPrio(m, k) ==
  m.status = k.status /\ m.active = k.active /\ m.idle = k.idle /\ m.tail = k.tail
OnlyTail(m, k, t, x) ==
  /\ m.status = k.status /\ m.prio = k.prio /\ m.active = k.active /\ m.idle = k.idle
  /\ m.tail = [k.tail EXCEPT ![t] = x]

LEMMA StatusSet ==
  ASSUME NEW k, WellFormed(k), NEW t \in Threads, NEW s \in Blocked \cup OnRunqueue
  PROVE  WellFormed(SetStatus(k, t, s)) /\ OnlyStatus(SetStatus(k, t, s), k, t, s)
<1> DEFINE m == SetStatus(k, t, s)
<1>1. WellFormed(m) /\ m.status = [k.status EXCEPT ![t] = s]
  BY SetStatusFacts
<1>2. m.prio = k.prio /\ m.active = k.active /\ m.idle = k.idle /\ m.tail = k.tail
  BY SetStatusFacts
<1> HIDE DEF m
<1>3. WellFormed(m) /\ OnlyStatus(m, k, t, s)
  BY <1>1, <1>2 DEF OnlyStatus
<1> QED BY <1>3 DEF m

LEMMA PrioritySet ==
  ASSUME NEW k, WellFormed(k), NEW t \in Threads, NEW p \in Prios
  PROVE  WellFormed(SetPriority(k, t, p)) /\ OnlyPrio(SetPriority(k, t, p), k)
BY SetPriorityFacts, Zenon DEF OnlyPrio

LEMMA TailSet ==
  ASSUME NEW k, WellFormed(k), NEW t \in Threads, NEW x \in TailCalls
  PROVE  WellFormed(Ends(k, t, x)) /\ OnlyTail(Ends(k, t, x), k, t, x)
<1> DEFINE m == Ends(k, t, x)
<1>1. WellFormed(m) /\ m.tail = [k.tail EXCEPT ![t] = x]
  BY EndsFacts
<1>2. m.status = k.status /\ m.prio = k.prio /\ m.active = k.active /\ m.idle = k.idle
  BY DEF Ends, WellFormed, Kernels
<1> HIDE DEF m
<1>3. WellFormed(m) /\ OnlyTail(m, k, t, x)
  BY <1>1, <1>2 DEF OnlyTail
<1> QED BY <1>3 DEF m

(***************************************************************************)
(* Kernels between two steps.                                              *)
(***************************************************************************)

\* The run queues match, one thread runs, and a thread that may make a call is
\* ready: between a call that blocks it and the scheduler it makes none.
KernelOK(k) ==
  /\ WellFormed(k)
  /\ OneRunning(k)
  /\ \A t \in Threads : Calls(k, t) => IsReady(k, t)

\* m results from k by scheduling: no thread has become ready or stopped being
\* ready, the others wait for what they waited for, and a newly active thread is a
\* ready one.
Scheduled(m, k) ==
  /\ m.prio = k.prio
  /\ \A u \in Threads : IsReady(m, u) <=> IsReady(k, u)
  /\ \A u \in Threads : ~IsReady(k, u) => m.status[u] = k.status[u]
  /\ m.active = k.active \/ (m.active \in Threads /\ IsReady(k, m.active))

LEMMA SchedRunOK ==
  ASSUME NEW k, WellFormed(k), OneRunning(k)
  PROVE  KernelOK(SchedRun(k)) /\ Scheduled(SchedRun(k), k)
<1> DEFINE m == SchedRun(k)
<1>1. /\ WellFormed(m) /\ OneRunning(m) /\ m.prio = k.prio
      /\ \A u \in Threads : IsReady(m, u) <=> IsReady(k, u)
      /\ m.active = k.active \/ (m.active \in Threads /\ IsReady(k, m.active))
      /\ m.idle \/ (m.active \in Threads /\ IsReady(k, m.active))
      /\ \A u \in Threads : ~IsReady(k, u) => m.status[u] = k.status[u]
  BY SchedRunFacts, Zenon
<1> HIDE DEF m
<1> QED BY <1>1 DEF KernelOK, Scheduled, Calls, Executes, m

\* The end of an interrupt keeps a kernel in order.
LEMMA IsrEndOK ==
  ASSUME NEW k, KernelOK(k)
  PROVE  KernelOK(IsrEnd(k)) /\ Scheduled(IsrEnd(k), k)
<1>1. CASE IsrEnd(k) = k
  BY <1>1 DEF Scheduled
<1>2. CASE IsrEnd(k) = SchedRun(k)
  BY <1>2, SchedRunOK DEF KernelOK
<1> QED BY <1>1, <1>2 DEF IsrEnd

\* So does the request an interrupt leaves.
LEMMA RequestOK ==
  ASSUME NEW k, KernelOK(k), NEW r \in BOOLEAN
  PROVE  /\ KernelOK([k EXCEPT !.req = r])
         /\ Scheduled([k EXCEPT !.req = r], k)
<1> DEFINE m == [k EXCEPT !.req = r]
<1>1. /\ WellFormed(m)
      /\ m.status = k.status /\ m.prio = k.prio
      /\ m.active = k.active /\ m.idle = k.idle /\ m.tail = k.tail
      /\ \A u \in Threads : IsReady(m, u) <=> IsReady(k, u)
  BY RequestFacts, Zenon DEF KernelOK
<1> HIDE DEF m
<1> QED BY <1>1 DEF KernelOK, Scheduled, OneRunning, Calls, Executes, m

LEMMA IsrSwitchOK ==
  ASSUME NEW k, KernelOK(k), NEW p
  PROVE  KernelOK(IsrSwitch(k, p)) /\ Scheduled(IsrSwitch(k, p), k)
<1>1. CASE IsrSwitch(k, p) = k
  BY <1>1 DEF Scheduled
<1>2. CASE IsrSwitch(k, p) = [k EXCEPT !.req = TRUE]
  BY <1>2, RequestOK, Zenon
<1> QED BY <1>1, <1>2 DEF IsrSwitch

\* The scheduler call at the end of an operation: a thread that is not ready
\* never gets past it.
LEMMA TailCallOK ==
  ASSUME NEW k, KernelOK(k), NEW t \in Threads, Executes(k, t), k.tail[t] # NoTail
  PROVE  KernelOK(TailCall(k, t)) /\ Scheduled(TailCall(k, t), k)
<1> DEFINE done == Ends(k, t, NoTail)
           adv == IF IsReady(k, t) THEN RunqueueAdvance(k, k.prio[t]) ELSE k
           late == Ends(adv, t, YieldHigher)
<1>1. /\ WellFormed(done) /\ OneRunning(done) /\ Scheduled(done, k)
      /\ done.idle = k.idle /\ done.active = k.active
      /\ done.tail = [k.tail EXCEPT ![t] = NoTail]
  <2>1. /\ WellFormed(done)
        /\ done.status = k.status /\ done.prio = k.prio
        /\ done.active = k.active /\ done.idle = k.idle
        /\ done.tail = [k.tail EXCEPT ![t] = NoTail]
        /\ \A u \in Threads : IsReady(done, u) <=> IsReady(k, u)
    BY EndsFacts, TailTypes DEF KernelOK
  <2> HIDE DEF done
  <2> QED BY <2>1 DEF KernelOK, OneRunning, Scheduled
<1>2. k.prio[t] \in Prios /\ k.tail \in [Threads -> TailCalls]
  BY DEF KernelOK, WellFormed, Kernels
<1>3. KernelOK(late) /\ Scheduled(late, k)
  <2>1. WellFormed(adv) /\ QueuesOnly(adv, k)
    <3>1. WellFormed(k) /\ QueuesOnly(k, k)
      BY DEF KernelOK, QueuesOnly
    <3>2. WellFormed(RunqueueAdvance(k, k.prio[t])) /\ QueuesOnly(RunqueueAdvance(k, k.prio[t]), k)
      BY <1>2, <3>1, AdvanceFacts, Zenon
    <3> QED BY <3>1, <3>2
  <2> HIDE DEF adv
  <2>2. /\ WellFormed(late) /\ late.status = adv.status /\ late.prio = adv.prio
        /\ late.active = adv.active /\ late.idle = adv.idle
        /\ late.tail = [adv.tail EXCEPT ![t] = YieldHigher]
        /\ \A u \in Threads : IsReady(late, u) <=> IsReady(adv, u)
    BY <2>1, EndsFacts, TailTypes
  <2> HIDE DEF late
  <2>3. /\ OneRunning(late) /\ Scheduled(late, k)
    BY <2>1, <2>2 DEF QueuesOnly, OneRunning, Scheduled, IsReady, KernelOK
  <2>4. \A u \in Threads : ~ Calls(late, u)
    <3>1. late.active = t /\ late.tail[t] = YieldHigher
      BY <1>2, <2>1, <2>2 DEF QueuesOnly, Executes
    <3> QED BY <3>1 DEF Calls, Executes, YieldHigher, NoTail
  <2> QED BY <2>2, <2>3, <2>4 DEF KernelOK
<1>4. CASE TailCall(k, t) = late
  BY <1>3, <1>4
<1>5. CASE TailCall(k, t) = SchedRun(done)
  <2> HIDE DEF done
  <2>1. KernelOK(SchedRun(done)) /\ Scheduled(SchedRun(done), done)
    BY <1>1, SchedRunOK, Zenon
  <2> QED BY <1>1, <1>5, <2>1 DEF Scheduled
<1>6. CASE TailCall(k, t) = done /\ ~SwitchWanted(k, k.tail[t].prio)
  <2>1. IsReady(k, t)
    BY <1>6 DEF SwitchWanted, Executes
  <2> HIDE DEF done
  <2>2. \A u \in Threads : Calls(done, u) => u = t
    BY <1>1 DEF Calls, Executes
  <2> QED BY <1>1, <1>6, <2>1, <2>2 DEF KernelOK, Scheduled
<1> QED BY <1>4, <1>5, <1>6 DEF TailCall

\* What the caller's section may do besides: no other thread starts running.
InSection(n, k) ==
  /\ n.active = k.active /\ n.idle = k.idle /\ n.tail = k.tail
  /\ \A u \in Threads : n.status[u] = "running" => k.status[u] = "running"

\* The section ends: n is the kernel the call has made.
LEMMA SectionEnds ==
  ASSUME NEW k, KernelOK(k), NEW t \in Threads, Calls(k, t), NEW x \in TailCalls,
         NEW n, WellFormed(n), InSection(n, k), x # NoTail \/ IsReady(n, t)
  PROVE  KernelOK(Ends(n, t, x)) /\ OnlyTail(Ends(n, t, x), n, t, x)
<1> DEFINE m == Ends(n, t, x)
<1>1. WellFormed(m) /\ OnlyTail(m, n, t, x)
  BY TailSet
<1> HIDE DEF m
<1>2. k \in Kernels /\ k.tail[t] = NoTail /\ k.active = t
  BY DEF KernelOK, WellFormed, Calls, Executes
<1>3. OneRunning(m)
  BY <1>1 DEF KernelOK, OneRunning, OnlyTail, InSection
<1>4. \A v \in Threads : Calls(m, v) => v = t /\ x = NoTail
  BY <1>1, <1>2 DEF Calls, Executes, Kernels, OnlyTail, InSection
<1>5. \A v \in Threads : Calls(m, v) => IsReady(m, v)
  BY <1>1, <1>4 DEF IsReady, OnlyTail
<1> QED BY <1>1, <1>3, <1>5 DEF KernelOK, m

\* Inside a section: one status more is changed, or one priority.
LEMMA SectionStatus ==
  ASSUME NEW k, NEW n, WellFormed(n), InSection(n, k),
         NEW u \in Threads, NEW s \in (Blocked \cup OnRunqueue) \ {"running"}
  PROVE  /\ WellFormed(SetStatus(n, u, s)) /\ InSection(SetStatus(n, u, s), k)
         /\ OnlyStatus(SetStatus(n, u, s), n, u, s)
         /\ \A v \in Threads : SetStatus(n, u, s).status[v] = IF v = u THEN s ELSE n.status[v]
<1> DEFINE m == SetStatus(n, u, s)
<1>1. WellFormed(m) /\ OnlyStatus(m, n, u, s)
  BY StatusSet
<1> HIDE DEF m
<1>2. n \in Kernels
  BY DEF WellFormed
<1>3. \A v \in Threads : m.status[v] = IF v = u THEN s ELSE n.status[v]
  BY <1>1, <1>2 DEF Kernels, OnlyStatus
<1>4. InSection(m, k)
  BY <1>1, <1>3 DEF OnlyStatus, InSection
<1> QED BY <1>1, <1>3, <1>4 DEF m

LEMMA SectionPrio ==
  ASSUME NEW k, NEW n, WellFormed(n), InSection(n, k), NEW u \in Threads, NEW p \in Prios
  PROVE  /\ WellFormed(SetPriority(n, u, p)) /\ InSection(SetPriority(n, u, p), k)
         /\ OnlyPrio(SetPriority(n, u, p), n)
<1> DEFINE m == SetPriority(n, u, p)
<1>1. WellFormed(m) /\ OnlyPrio(m, n)
  BY PrioritySet
<1> HIDE DEF m
<1>2. InSection(m, k)
  BY <1>1 DEF OnlyPrio, InSection
<1> QED BY <1>1, <1>2 DEF m

LEMMA SectionStarts == \A k : InSection(k, k)
BY DEF InSection

\* A call that changes one status, of a thread that does not run, or of the
\* caller when the scheduler is still to be called.
LEMMA CallOK ==
  ASSUME NEW k, KernelOK(k), NEW t \in Threads, Calls(k, t),
         NEW u \in Threads, NEW s \in (Blocked \cup OnRunqueue) \ {"running"},
         NEW x \in TailCalls,
         x # NoTail \/ u # t \/ s \in OnRunqueue
  PROVE  LET m == Ends(SetStatus(k, u, s), t, x)
         IN /\ KernelOK(m)
            /\ m.status = [k.status EXCEPT ![u] = s]
            /\ m.prio = k.prio /\ m.active = k.active
<1> DEFINE n == SetStatus(k, u, s)
           m == Ends(n, t, x)
<1>1. /\ WellFormed(n) /\ InSection(n, k) /\ OnlyStatus(n, k, u, s)
      /\ \A v \in Threads : n.status[v] = IF v = u THEN s ELSE k.status[v]
  BY SectionStatus, SectionStarts DEF KernelOK
<1> HIDE DEF n
<1>2. x # NoTail \/ IsReady(n, t)
  BY <1>1 DEF KernelOK, IsReady
<1>3. KernelOK(m) /\ OnlyTail(m, n, t, x)
  BY <1>1, <1>2, SectionEnds
<1> HIDE DEF m
<1>4. KernelOK(m) /\ m.status = [k.status EXCEPT ![u] = s] /\ m.prio = k.prio /\ m.active = k.active
  BY <1>1, <1>3 DEF OnlyTail, OnlyStatus
<1> QED BY <1>4 DEF m, n

\* An interrupt makes a thread ready.
LEMMA WokenOK ==
  ASSUME NEW k, KernelOK(k), NEW u \in Threads
  PROVE  LET m == SetStatus(k, u, "pending")
         IN /\ KernelOK(m) /\ m.prio = k.prio
            /\ \A v \in Threads : m.status[v] = IF v = u THEN "pending" ELSE k.status[v]
<1> DEFINE m == SetStatus(k, u, "pending")
<1>1. "pending" \in (Blocked \cup OnRunqueue) \ {"running"}
  BY DEF OnRunqueue
<1>2. /\ WellFormed(m) /\ InSection(m, k) /\ OnlyStatus(m, k, u, "pending")
      /\ \A v \in Threads : m.status[v] = IF v = u THEN "pending" ELSE k.status[v]
  BY <1>1, SectionStatus, SectionStarts DEF KernelOK
<1> HIDE DEF m
<1>3. OneRunning(m)
  BY <1>2 DEF KernelOK, OneRunning, InSection
<1>4. \A v \in Threads : Calls(m, v) => Calls(k, v)
  BY <1>2 DEF Calls, Executes, InSection
<1>5. \A v \in Threads : IsReady(k, v) => IsReady(m, v)
  BY <1>2 DEF IsReady, OnRunqueue
<1>6. KernelOK(m) /\ m.prio = k.prio
  BY <1>2, <1>3, <1>4, <1>5 DEF KernelOK, OnlyStatus
<1> QED BY <1>2, <1>6 DEF m

(***************************************************************************)
(* The threads that sleep for the reason s, across whole calls.            *)
(***************************************************************************)

Sleepers(k, s) == {t \in Threads : k.status[t] = s}

\* Scheduling wakes nobody and puts nobody to sleep.
LEMMA SleepersScheduled ==
  ASSUME NEW k, NEW m, Scheduled(m, k)
  PROVE  \A s \in Blocked : Sleepers(m, s) = Sleepers(k, s)
<1> TAKE s \in Blocked
<1>1. s \notin OnRunqueue
  BY DEF Blocked, OnRunqueue
<1>2. \A u \in Threads : m.status[u] = s <=> k.status[u] = s
  BY <1>1 DEF Scheduled, IsReady
<1> QED BY <1>2 DEF Sleepers

\* A call that changes the status of u.
LEMMA CallSleepers ==
  ASSUME NEW k, KernelOK(k), NEW t \in Threads, Calls(k, t),
         NEW u \in Threads, NEW s \in (Blocked \cup OnRunqueue) \ {"running"},
         NEW x \in TailCalls, x # NoTail
  PROVE  LET m == Ends(SetStatus(k, u, s), t, x)
         IN /\ KernelOK(m) /\ m.prio = k.prio
            /\ \A r \in Blocked : Sleepers(m, r) = IF r = s THEN Sleepers(k, r) \cup {u}
                                                  ELSE Sleepers(k, r) \ {u}
<1> DEFINE m == Ends(SetStatus(k, u, s), t, x)
<1>1. KernelOK(m) /\ m.status = [k.status EXCEPT ![u] = s] /\ m.prio = k.prio
  BY CallOK
<1> HIDE DEF m
<1>2. k.status \in [Threads -> Blocked \cup OnRunqueue]
  BY DEF KernelOK, WellFormed, Kernels
<1>3. \A v \in Threads : m.status[v] = IF v = u THEN s ELSE k.status[v]
  BY <1>1, <1>2
<1>4. \A r \in Blocked : Sleepers(m, r) = IF r = s THEN Sleepers(k, r) \cup {u}
                                         ELSE Sleepers(k, r) \ {u}
  BY <1>3 DEF Sleepers
<1> QED BY <1>1, <1>4 DEF m

\* An interrupt wakes u and asks for a switch.
LEMMA IsrSleepers ==
  ASSUME NEW k, KernelOK(k), NEW u \in Threads, NEW p
  PROVE  LET m == IsrEnd(IsrSwitch(SetStatus(k, u, "pending"), p))
         IN /\ KernelOK(m) /\ m.prio = k.prio
            /\ \A r \in Blocked : Sleepers(m, r) = Sleepers(k, r) \ {u}
<1> DEFINE n == SetStatus(k, u, "pending")
           s == IsrSwitch(n, p)
           m == IsrEnd(s)
<1>1. /\ KernelOK(n) /\ n.prio = k.prio
      /\ \A v \in Threads : n.status[v] = IF v = u THEN "pending" ELSE k.status[v]
  BY WokenOK
<1> HIDE DEF n
<1>2. KernelOK(s) /\ Scheduled(s, n)
  BY <1>1, IsrSwitchOK
<1> HIDE DEF s
<1>3. KernelOK(m) /\ Scheduled(m, s)
  BY <1>2, IsrEndOK
<1> HIDE DEF m
<1>4. m.prio = k.prio /\ \A r \in Blocked : Sleepers(m, r) = Sleepers(n, r)
  BY <1>1, <1>2, <1>3, SleepersScheduled DEF Scheduled
<1>5. "pending" \notin Blocked
  BY DEF Blocked
<1>6. \A r \in Blocked : Sleepers(n, r) = Sleepers(k, r) \ {u}
  BY <1>1, <1>5 DEF Sleepers
<1> QED BY <1>3, <1>4, <1>6 DEF m, s, n

\* The scheduler call at the end of a call.
LEMMA TailSleepers ==
  ASSUME NEW k, KernelOK(k), NEW t \in Threads, Executes(k, t), k.tail[t] # NoTail
  PROVE  /\ KernelOK(TailCall(k, t)) /\ TailCall(k, t).prio = k.prio
         /\ \A r \in Blocked : Sleepers(TailCall(k, t), r) = Sleepers(k, r)
<1> DEFINE m == TailCall(k, t)
<1>1. KernelOK(m) /\ Scheduled(m, k)
  BY TailCallOK
<1> HIDE DEF m
<1>2. m.prio = k.prio /\ \A r \in Blocked : Sleepers(m, r) = Sleepers(k, r)
  BY <1>1, SleepersScheduled DEF Scheduled
<1> QED BY <1>1, <1>2 DEF m

(***************************************************************************)
(* Wait lists and the start of the system.                                 *)
(***************************************************************************)

\* A thread put into a wait list is in it once, and the list stays sorted.
LEMMA AddFacts ==
  ASSUME NEW kk \in Kernels, NEW l \in Seq(Threads), NEW t \in Threads,
         NoDuplicates(l), ~Contains(l, t)
  PROVE  /\ AddToList(kk, l, t) \in Seq(Threads) /\ NoDuplicates(AddToList(kk, l, t))
         /\ AddToList(kk, l, t) # << >>
         /\ \A u : Contains(AddToList(kk, l, t), u) <=> (u = t \/ Contains(l, u))
         /\ SortedBy(l, kk.prio) => SortedBy(AddToList(kk, l, t), kk.prio)
<1> DEFINE later == {i \in 1..Len(l) : kk.prio[l[i]] > kk.prio[t]}
           i == IF later = {} THEN Len(l) + 1 ELSE Min(later)
<1>1. kk.prio \in [Threads -> Nat]
  BY PriosAreLevels DEF Kernels
<1>2. /\ i \in 1..(Len(l) + 1)
      /\ \A j \in 1..Len(l) : j < i => kk.prio[l[j]] <= kk.prio[t]
      /\ i <= Len(l) => kk.prio[l[i]] > kk.prio[t]
  <2>1. \A j \in 1..Len(l) : l[j] \in Threads /\ kk.prio[l[j]] \in Nat /\ kk.prio[t] \in Nat
    BY <1>1
  <2>2. CASE later = {}
    BY <2>1, <2>2
  <2>3. CASE later # {}
    <3>1. later \in SUBSET Nat /\ later \subseteq 1..Len(l)
      OBVIOUS
    <3> HIDE DEF later
    <3>2. Min(later) \in later /\ \A y \in later : Min(later) <= y
      BY <2>3, <3>1, MinOfNaturals
    <3>3. i = Min(later)
      BY <2>3
    <3> HIDE DEF i
    <3>4. i \in later /\ \A y \in later : i <= y
      BY <3>2, <3>3
    <3> QED BY <2>1, <3>1, <3>4 DEF later
  <2> QED BY <2>2, <2>3
<1>3. AddToList(kk, l, t) = InsertAt(l, i, t)
  BY DEF AddToList
<1> HIDE DEF i
<1>4. /\ InsertAt(l, i, t) \in Seq(Threads) /\ NoDuplicates(InsertAt(l, i, t))
      /\ \A u : Contains(InsertAt(l, i, t), u) <=> (u = t \/ Contains(l, u))
  BY <1>2, InsertFacts
<1>5. InsertAt(l, i, t) # << >>
  BY <1>4, EmptyFacts
<1>6. SortedBy(l, kk.prio) => SortedBy(InsertAt(l, i, t), kk.prio)
  BY <1>1, <1>2, InsertSorted
<1> QED BY <1>3, <1>4, <1>5, <1>6

\* The list of a finite set holds each element once.
LEMMA ListOfSet ==
  ASSUME NEW S, IsFiniteSet(S)
  PROVE  /\ SetToSeq(S) \in Seq(S) /\ NoDuplicates(SetToSeq(S))
         /\ \A x : Contains(SetToSeq(S), x) <=> x \in S
<1> DEFINE n == Cardinality(S)
           f == SetToSeq(S)
<1>1. n \in Nat /\ ExistsBijection(1..n, S)
  BY FS_CardinalityType
<1>2. \E g \in [1..n -> S] : IsInjective(g)
  BY <1>1 DEF ExistsBijection, Bijection, Injection
<1>3. f \in [1..n -> S] /\ IsInjective(f)
  BY <1>2 DEF SetToSeq
<1> HIDE DEF f
<1>4. IsFiniteSet(1..n) /\ Cardinality(1..n) = n
  <2>1. IsFiniteSet(1..n) /\ (Cardinality(1..n) = IF 1 > n THEN 0 ELSE n - 1 + 1)
    BY <1>1, FS_Interval
  <2> QED BY <1>1, <2>1
<1>5. f \in Injection(1..n, S)
  BY <1>3 DEF Injection
<1>6. f \in Surjection(1..n, S)
  BY <1>4, <1>5, FS_Injection
<1>7. f \in Seq(S) /\ Len(f) = n
  BY <1>1, <1>3
<1>8. \A x \in S : \E i \in 1..n : f[i] = x
  BY <1>6 DEF Surjection
<1>9. \A x : Contains(f, x) <=> x \in S
  BY <1>3, <1>7, <1>8 DEF Contains
<1>10. NoDuplicates(f)
  BY <1>3, <1>7 DEF NoDuplicates, IsInjective
<1> QED BY <1>7, <1>9, <1>10 DEF f

(***************************************************************************)
(* Who runs: no ready thread outside S is more urgent than the one that    *)
(* executes, unless that one is about to call the scheduler for its sake.  *)
(***************************************************************************)

\* t is about to make way, or will look whether it has to for the sake of u.
Yielding(k, t) ==
  \/ k.tail[t].call \in {"yield", "yield_higher"}
  \/ k.tail[t].call = "change" /\ k.tail[t].thread = t
WillLook(k, t, u) ==
  /\ \/ k.tail[t].call = "switch"
     \/ k.tail[t].call = "change" /\ k.tail[t].thread = u
  /\ k.tail[t].prio <= k.prio[u]

Urgent(k, S) ==
  \A t \in Threads : Executes(k, t) =>
    \/ Yielding(k, t)
    \/ /\ IsReady(k, t)
       /\ \A u \in Threads \ S :
            IsReady(k, u) => k.prio[t] <= k.prio[u] \/ WillLook(k, t, u)

\* sched_run picks the head of the most urgent level in use.
LEMMA SchedRunPicks ==
  ASSUME NEW k, WellFormed(k), OneRunning(k), NEW t \in Threads, Executes(SchedRun(k), t)
  PROVE  /\ \A u \in Threads : IsReady(k, u) => k.prio[t] <= k.prio[u]
         /\ Head(k.runq[k.prio[t]]) = t /\ IsReady(k, t)
<1> DEFINE m == SchedRun(k)
           left == IF NextThread(k) = k.active THEN k ELSE Unschedule(k)
<1>1. k.bits # {} /\ NextThread(k) = t
  <2>1. k \in Kernels
    BY DEF WellFormed
  <2>2. CASE k.bits = {}
    <3> DEFINE n == Unschedule(k)
    <3>1. m = [n EXCEPT !.idle = TRUE]
      BY <2>2 DEF SchedRun
    <3>2. n \in Kernels
      BY UnscheduleFacts DEF WellFormed
    <3> HIDE DEF n, m
    <3>3. m.idle = TRUE
      BY <3>1, <3>2 DEF Kernels
    <3> QED BY <3>3 DEF Executes, m
  <2>3. CASE k.bits # {}
    <3>1. m = [left EXCEPT !.status[NextThread(k)] = "running", !.active = NextThread(k),
                           !.idle = FALSE, !.req = FALSE]
      BY <2>3 DEF SchedRun
    <3>2. left \in Kernels
      BY <2>1, UnscheduleFacts DEF WellFormed
    <3>3. m.active = t
      BY DEF Executes
    <3> DEFINE next == NextThread(k)
    <3> HIDE DEF left, m, next
    <3>4. m.active = next
      BY <3>1, <3>2 DEF Kernels, next
    <3> QED BY <2>3, <3>3, <3>4 DEF next
  <2> QED BY <2>2, <2>3
<1> DEFINE p == Min(k.bits)
<1>2. k.bits \in SUBSET Nat /\ k.bits \subseteq Prios
  BY PriosAreLevels DEF WellFormed, Kernels
<1>3. p \in k.bits /\ \A q \in k.bits : p <= q
  BY <1>1, <1>2, MinOfNaturals, Zenon
<1>4. t = Head(k.runq[p])
  BY <1>1 DEF NextThread
<1> HIDE DEF p
<1>5. p \in Prios /\ k.runq[p] \in Seq(Threads) /\ k.runq[p] # << >>
  BY <1>2, <1>3 DEF WellFormed, RunqueuesMatch, Kernels
<1>6. Contains(k.runq[p], t)
  <2>1. t = k.runq[p][1] /\ 1 \in 1..Len(k.runq[p])
    BY <1>4, <1>5
  <2> QED BY <2>1 DEF Contains
<1>7. k.prio[t] = p /\ IsReady(k, t)
  BY <1>5, <1>6 DEF WellFormed, RunqueuesMatch
<1>8. ASSUME NEW u \in Threads, IsReady(k, u)
      PROVE  p <= k.prio[u]
  <2>1. k.prio[u] \in Prios /\ k.runq[k.prio[u]] \in Seq(Threads)
    BY DEF WellFormed, Kernels
  <2>2. Contains(k.runq[k.prio[u]], u)
    BY <1>8, <2>1 DEF WellFormed, RunqueuesMatch
  <2>3. k.runq[k.prio[u]] # << >>
    BY <2>1, <2>2, EmptyFacts
  <2> QED BY <1>3, <2>1, <2>3 DEF WellFormed, RunqueuesMatch
<1> QED BY <1>4, <1>7, <1>8

LEMMA SchedRunUrgent ==
  ASSUME NEW k, WellFormed(k), OneRunning(k), NEW S
  PROVE  Urgent(SchedRun(k), S)
<1> DEFINE m == SchedRun(k)
<1>1. m.prio = k.prio /\ \A u \in Threads : IsReady(m, u) <=> IsReady(k, u)
  BY SchedRunFacts
<1>2. ASSUME NEW t \in Threads, Executes(m, t)
      PROVE  /\ \A u \in Threads : IsReady(k, u) => k.prio[t] <= k.prio[u]
             /\ IsReady(k, t)
  BY <1>2, SchedRunPicks
<1> HIDE DEF m
<1> QED BY <1>1, <1>2 DEF Urgent, m

\* The kernel the system starts with.
LEMMA BootedOK ==
  ASSUME IsFiniteSet(Threads), NEW prio \in [Threads -> Prios]
  PROVE  /\ KernelOK(Booted(prio)) /\ Booted(prio).prio = prio /\ Urgent(Booted(prio), {})
         /\ \A t \in Threads : IsReady(Booted(prio), t)
<1> DEFINE level(p) == {t \in Threads : prio[t] = p}
           all == [status |-> [t \in Threads |-> "pending"],
                   prio   |-> prio,
                   runq   |-> [p \in Prios |-> SetToSeq(level(p))],
                   bits   |-> {prio[t] : t \in Threads},
                   active |-> NoThread,
                   idle   |-> FALSE,
                   req    |-> FALSE,
                   tail   |-> [t \in Threads |-> NoTail]]
<1>1. Booted(prio) = SchedRun(all)
  BY DEF Booted
<1>2. /\ all.status = [t \in Threads |-> "pending"] /\ all.prio = prio
      /\ all.runq = [p \in Prios |-> SetToSeq(level(p))]
      /\ all.bits = {prio[t] : t \in Threads}
  OBVIOUS
<1>3. ASSUME NEW p \in Prios
      PROVE  /\ SetToSeq(level(p)) \in Seq(Threads) /\ NoDuplicates(SetToSeq(level(p)))
             /\ \A x : Contains(SetToSeq(level(p)), x) <=> x \in level(p)
  <2>1. level(p) \subseteq Threads
    OBVIOUS
  <2> HIDE DEF level
  <2>2. IsFiniteSet(level(p))
    BY <2>1, FS_Subset
  <2>3. /\ SetToSeq(level(p)) \in Seq(level(p)) /\ NoDuplicates(SetToSeq(level(p)))
        /\ \A x : Contains(SetToSeq(level(p)), x) <=> x \in level(p)
    BY <2>2, ListOfSet
  <2> QED BY <2>1, <2>3
<1>5. all \in Kernels
  BY <1>3, TailTypes DEF Kernels, OnRunqueue
<1>6. \A t \in Threads, p \in Prios : t \in level(p) <=> prio[t] = p
  OBVIOUS
<1> HIDE DEF all, level
<1>7. /\ \A t \in Threads : IsReady(all, t) /\ all.status[t] = "pending"
      /\ \A p \in Prios : all.runq[p] = SetToSeq(level(p))
  BY <1>2 DEF IsReady, OnRunqueue
<1>8. \A p \in Prios : p \in all.bits <=> all.runq[p] # << >>
  <2> TAKE p \in Prios
  <2>1. p \in all.bits <=> \E t \in Threads : Contains(all.runq[p], t)
    BY <1>2, <1>3, <1>6, <1>7
  <2>2. all.runq[p] \in Seq(Threads)
    BY <1>3, <1>7
  <2>3. \A x : Contains(all.runq[p], x) => x \in Threads
    BY <2>2 DEF Contains
  <2> QED BY <2>1, <2>2, <2>3, EmptyFacts
<1>9. WellFormed(all)
  BY <1>2, <1>3, <1>5, <1>6, <1>7, <1>8 DEF WellFormed, RunqueuesMatch
<1>10. OneRunning(all)
  BY <1>7 DEF OneRunning
<1> DEFINE m == SchedRun(all)
<1>11. KernelOK(m) /\ Scheduled(m, all) /\ Urgent(m, {})
  BY <1>9, <1>10, SchedRunOK, SchedRunUrgent
<1> HIDE DEF m
<1>12. m.prio = prio /\ \A t \in Threads : IsReady(m, t)
  BY <1>2, <1>7, <1>11 DEF Scheduled
<1> QED BY <1>1, <1>11, <1>12 DEF m

\* The end of an interrupt keeps it.
LEMMA IsrEndUrgent ==
  ASSUME NEW k, WellFormed(k), OneRunning(k), NEW S,
         k.idle \/ k.req \/ Urgent(k, S)
  PROVE  Urgent(IsrEnd(k), S)
<1>1. CASE IsrEnd(k) = SchedRun(k)
  BY <1>1, SchedRunUrgent
<1>2. CASE IsrEnd(k) = k /\ k.idle
  BY <1>2 DEF Urgent, Executes
<1>3. CASE IsrEnd(k) = k /\ ~k.idle /\ ~k.req
  BY <1>3
<1> QED BY <1>1, <1>2, <1>3 DEF IsrEnd

\* An interrupt wakes u and asks for a switch to its level.
LEMMA IsrWakeUrgent ==
  ASSUME NEW k, KernelOK(k), NEW u \in Threads, NEW S, Urgent(k, S)
  PROVE  Urgent(IsrEnd(IsrSwitch(SetStatus(k, u, "pending"), k.prio[u])), S)
<1> DEFINE n == SetStatus(k, u, "pending")
           p == k.prio[u]
           s == IsrSwitch(n, p)
<1>1. "pending" \in (Blocked \cup OnRunqueue) \ {"running"}
  BY DEF OnRunqueue
<1>2. /\ WellFormed(n) /\ InSection(n, k) /\ OnlyStatus(n, k, u, "pending")
      /\ \A v \in Threads : n.status[v] = IF v = u THEN "pending" ELSE k.status[v]
  BY <1>1, SectionStatus, SectionStarts DEF KernelOK
<1>3. KernelOK(n) /\ n \in Kernels
  BY WokenOK DEF KernelOK, WellFormed
<1> HIDE DEF n
<1>4. KernelOK(s)
  BY <1>3, IsrSwitchOK
<1>5. CASE SwitchWanted(n, p)
  <2>1. s = [n EXCEPT !.req = TRUE]
    BY <1>5 DEF IsrSwitch
  <2> HIDE DEF s
  <2>2. s.req = TRUE
    BY <1>3, <2>1 DEF Kernels
  <2>3. Urgent(IsrEnd(s), S)
    BY <1>4, <2>2, IsrEndUrgent DEF KernelOK
  <2> QED BY <2>3 DEF s, n
<1>6. CASE ~SwitchWanted(n, p)
  <2>1. s = n
    BY <1>6 DEF IsrSwitch
  <2>2. \A v \in Threads : n.prio[v] \in Nat /\ n.prio[v] = k.prio[v]
    BY <1>2, <1>3, PriosAreLevels DEF Kernels, OnlyStatus
  <2>3. \A v \in Threads : v # u => (IsReady(n, v) <=> IsReady(k, v))
    BY <1>2 DEF IsReady
  <2>4. \A t \in Threads : Executes(n, t) => Executes(k, t) /\ n.active = t
    BY <1>2 DEF InSection, Executes
  <2>5. (IsReady(n, n.active) /\ n.prio[n.active] <= p) \/ n.active \notin Threads
    BY <1>6, <2>2 DEF SwitchWanted
  <2>6. IsReady(n, u) /\ p = n.prio[u]
    BY <1>2, <2>2 DEF IsReady, OnRunqueue
  <2>7. \A v, w \in Threads : /\ WillLook(k, v, w) <=> WillLook(n, v, w)
                              /\ Yielding(k, v) <=> Yielding(n, v)
    BY <1>2 DEF WillLook, Yielding, OnlyStatus
  <2> HIDE DEF p
  <2>8. ASSUME NEW t \in Threads, Executes(n, t), ~Yielding(n, t)
        PROVE  /\ IsReady(n, t)
               /\ \A v \in Threads \ S :
                    IsReady(n, v) => n.prio[t] <= n.prio[v] \/ WillLook(n, t, v)
    <3>1. Executes(k, t) /\ n.active = t /\ ~Yielding(k, t)
      BY <2>4, <2>7, <2>8
    <3>2. IsReady(k, t)
          /\ \A v \in Threads \ S :
            IsReady(k, v) => k.prio[t] <= k.prio[v] \/ WillLook(k, t, v)
      BY <3>1 DEF Urgent
    <3>3. IsReady(n, t)
      BY <2>3, <2>6, <3>2
    <3> QED BY <2>2, <2>3, <2>5, <2>6, <2>7, <3>1, <3>2, <3>3
  <2>9. Urgent(n, S)
    BY <2>8 DEF Urgent
  <2>10. Urgent(IsrEnd(n), S)
    BY <1>3, <2>9, IsrEndUrgent DEF KernelOK
  <2> QED BY <2>1, <2>10 DEF s, n, p
<1> QED BY <1>5, <1>6

\* The scheduler call at the end of t's call.
LEMMA TailUrgent ==
  ASSUME NEW k, KernelOK(k), NEW t \in Threads, Executes(k, t), k.tail[t] # NoTail,
         NEW S, Urgent(k, S)
  PROVE  Urgent(TailCall(k, t), S)
<1> DEFINE done == Ends(k, t, NoTail)
           adv == IF IsReady(k, t) THEN RunqueueAdvance(k, k.prio[t]) ELSE k
           late == Ends(adv, t, YieldHigher)
<1>1. /\ WellFormed(done)
      /\ done.status = k.status /\ done.prio = k.prio
      /\ done.active = k.active /\ done.idle = k.idle
      /\ done.tail = [k.tail EXCEPT ![t] = NoTail]
      /\ \A u \in Threads : IsReady(done, u) <=> IsReady(k, u)
  BY EndsFacts, TailTypes DEF KernelOK
<1>2. k.prio[t] \in Prios /\ k.tail \in [Threads -> TailCalls]
  BY DEF KernelOK, WellFormed, Kernels
<1>3. CASE TailCall(k, t) = late
  <2>1. WellFormed(adv) /\ QueuesOnly(adv, k)
    <3>1. WellFormed(k) /\ QueuesOnly(k, k)
      BY DEF KernelOK, QueuesOnly
    <3>2. WellFormed(RunqueueAdvance(k, k.prio[t])) /\ QueuesOnly(RunqueueAdvance(k, k.prio[t]), k)
      BY <1>2, <3>1, AdvanceFacts, Zenon
    <3> QED BY <3>1, <3>2
  <2> HIDE DEF adv
  <2>2. late.active = adv.active /\ late.tail = [adv.tail EXCEPT ![t] = YieldHigher]
    BY <2>1, EndsFacts, TailTypes
  <2> HIDE DEF late
  <2>3. late.active = t /\ late.tail[t] = YieldHigher
    BY <1>2, <2>1, <2>2 DEF QueuesOnly, Executes
  <2>4. Yielding(late, t)
    BY <2>3 DEF Yielding, YieldHigher
  <2> QED BY <1>3, <2>3, <2>4 DEF Urgent, Executes
<1>4. CASE TailCall(k, t) = SchedRun(done)
  <2> HIDE DEF done
  <2>1. OneRunning(done)
    BY <1>1 DEF OneRunning, KernelOK
  <2> QED BY <1>1, <1>4, <2>1, SchedRunUrgent
<1>5. CASE TailCall(k, t) = done /\ k.tail[t].call = "switch" /\ ~SwitchWanted(k, k.tail[t].prio)
  <2>1. k.active = t
    BY DEF Executes
  <2>2. IsReady(k, t) /\ ~ (k.prio[t] > k.tail[t].prio)
    BY <1>5, <2>1 DEF SwitchWanted
  <2>3. ~Yielding(k, t)
    BY <1>5 DEF Yielding
  <2>4. k.tail[t].prio \in Nat
    BY <1>2, PriosAreLevels DEF TailCalls, NoTail, Yield, YieldHigher, Switch, Change
  <2>5. \A u \in Threads : k.prio[u] \in Nat
    BY PriosAreLevels DEF KernelOK, WellFormed, Kernels
  <2>6. ASSUME NEW u \in Threads \ S, IsReady(k, u)
        PROVE  k.prio[t] <= k.prio[u]
    <3>1. k.prio[t] <= k.prio[u] \/ WillLook(k, t, u)
      BY <2>3, <2>6 DEF Urgent
    <3> QED BY <2>2, <2>4, <2>5, <3>1 DEF WillLook
  <2> HIDE DEF done
  <2>7. \A u \in Threads : Executes(done, u) => u = t
    BY <1>1, <2>1 DEF Executes
  <2>8. Urgent(done, S)
    BY <1>1, <2>2, <2>6, <2>7 DEF Urgent
  <2> QED BY <1>5, <2>8
<1> QED BY <1>3, <1>4, <1>5 DEF TailCall

\* A call of t that sends it to sleep and then yields, makes u ready and then asks
\* for a switch to its level, or puts another thread u to sleep.
LEMMA CallUrgent ==
  ASSUME NEW k, KernelOK(k), NEW t \in Threads, Calls(k, t), NEW S, Urgent(k, S),
         NEW u \in Threads, NEW s \in (Blocked \cup OnRunqueue) \ {"running"},
         NEW x \in TailCalls,
         \/ x \in {Yield, YieldHigher}
         \/ s = "pending" /\ x = Switch(k.prio[u])
         \/ u # t /\ x = NoTail /\ (s \in Blocked \/ u \in S)
  PROVE  Urgent(Ends(SetStatus(k, u, s), t, x), S)
<1> DEFINE n == SetStatus(k, u, s)
           m == Ends(n, t, x)
<1>1. /\ WellFormed(n) /\ InSection(n, k) /\ OnlyStatus(n, k, u, s)
      /\ \A v \in Threads : n.status[v] = IF v = u THEN s ELSE k.status[v]
  BY SectionStatus, SectionStarts DEF KernelOK
<1> HIDE DEF n
<1>2. WellFormed(m) /\ OnlyTail(m, n, t, x)
  BY <1>1, TailSet
<1> HIDE DEF m
<1>3. k.tail \in [Threads -> TailCalls] /\ k.active = t /\ ~k.idle /\ k.tail[t] = NoTail
  BY DEF KernelOK, WellFormed, Kernels, Calls, Executes
<1>4. /\ m.active = t /\ m.tail[t] = x /\ m.prio = k.prio
      /\ \A v \in Threads : m.status[v] = IF v = u THEN s ELSE k.status[v]
  BY <1>1, <1>2, <1>3 DEF OnlyTail, OnlyStatus
<1>5. \A v \in Threads : Executes(m, v) => v = t
  BY <1>4 DEF Executes
<1>6. CASE x \in {Yield, YieldHigher}
  <2>1. Yielding(m, t)
    BY <1>4, <1>6 DEF Yielding, Yield, YieldHigher
  <2> QED BY <1>5, <2>1 DEF Urgent, m, n
<1>7. CASE s = "pending" /\ x = Switch(k.prio[u])
  <2>1. ~Yielding(k, t) /\ \A v \in Threads : ~WillLook(k, t, v)
    BY <1>3 DEF Yielding, WillLook, NoTail
  <2>2. IsReady(k, t) /\ \A v \in Threads \ S : IsReady(k, v) => k.prio[t] <= k.prio[v]
    BY <2>1 DEF Urgent, Calls
  <2>3. \A v \in Threads : IsReady(m, v) <=> (v = u \/ IsReady(k, v))
    BY <1>4, <1>7 DEF IsReady, OnRunqueue
  <2>4. k.prio[u] \in Nat
    BY PriosAreLevels DEF KernelOK, WellFormed, Kernels
  <2>5. WillLook(m, t, u)
    BY <1>4, <1>7, <2>4 DEF WillLook, Switch
  <2>6. Urgent(m, S)
    BY <1>4, <1>5, <2>2, <2>3, <2>5 DEF Urgent
  <2> QED BY <2>6 DEF m, n
<1>8. CASE u # t /\ x = NoTail /\ (s \in Blocked \/ u \in S)
  <2>1. ~Yielding(k, t) /\ \A v \in Threads : ~WillLook(k, t, v)
    BY <1>3 DEF Yielding, WillLook, NoTail
  <2>2. IsReady(k, t) /\ \A v \in Threads \ S : IsReady(k, v) => k.prio[t] <= k.prio[v]
    BY <2>1 DEF Urgent, Calls
  <2>3. s \in Blocked => s \notin OnRunqueue
    BY DEF Blocked, OnRunqueue
  <2>4. IsReady(m, t) /\ \A v \in Threads \ S : IsReady(m, v) => IsReady(k, v)
    BY <1>4, <1>8, <2>2, <2>3 DEF IsReady
  <2>5. Urgent(m, S)
    BY <1>4, <1>5, <2>2, <2>4 DEF Urgent
  <2> QED BY <2>5 DEF m, n
<1> QED BY <1>6, <1>7, <1>8

(***************************************************************************)
(* A thread is the first of its level while it runs and does not yield.    *)
(***************************************************************************)

Leading(k, t) == k.runq[k.prio[t]] # << >> /\ Head(k.runq[k.prio[t]]) = t

Leads(k) == \A t \in Threads : Executes(k, t) => Yielding(k, t) \/ Leading(k, t)

\* u is put into or taken out of a list whose head is another thread.
LEMMA PushHead ==
  ASSUME NEW k \in Kernels, NEW u \in Threads, NEW p \in Prios, NEW q \in Prios,
         k.runq[q] # << >>
  PROVE  LET m == RunqueuePush(k, u, p)
         IN m.runq[q] # << >> /\ Head(m.runq[q]) = Head(k.runq[q])
<1> DEFINE m == RunqueuePush(k, u, p)
<1>1. m.runq[q] = IF q = p THEN Append(k.runq[p], u) ELSE k.runq[q]
  BY DEF RunqueuePush, Kernels
<1>2. k.runq[q] \in Seq(Threads)
  BY DEF Kernels
<1> HIDE DEF m
<1>3. Append(k.runq[q], u) # << >> /\ Head(Append(k.runq[q], u)) = Head(k.runq[q])
  BY <1>2, HeadKept
<1> QED BY <1>1, <1>3 DEF m

LEMMA PopHead ==
  ASSUME NEW k \in Kernels, NEW u \in Threads, NEW q \in Prios,
         k.runq[q] # << >>, Head(k.runq[q]) # u
  PROVE  LET m == RunqueuePop(k, u)
         IN m.runq[q] # << >> /\ Head(m.runq[q]) = Head(k.runq[q])
<1> DEFINE m == RunqueuePop(k, u)
<1>1. m.runq[q] = IF q = k.prio[u] THEN RemoveFirst(k.runq[q], u) ELSE k.runq[q]
  BY DEF RunqueuePop, Kernels
<1>2. k.runq[q] \in Seq(Threads)
  BY DEF Kernels
<1> HIDE DEF m
<1>3. RemoveFirst(k.runq[q], u) # << >> /\ Head(RemoveFirst(k.runq[q], u)) = Head(k.runq[q])
  BY <1>2, HeadKept
<1> QED BY <1>1, <1>3 DEF m

LEMMA StatusHead ==
  ASSUME NEW k, WellFormed(k), NEW t \in Threads, Leading(k, t),
         NEW u \in Threads, u # t, NEW s \in Blocked \cup OnRunqueue
  PROVE  Leading(SetStatus(k, u, s), t)
<1> DEFINE moved == IF s \in OnRunqueue
                    THEN IF IsReady(k, u) THEN k ELSE RunqueuePush(k, u, k.prio[u])
                    ELSE IF IsReady(k, u) THEN RunqueuePop(k, u) ELSE k
           m == SetStatus(k, u, s)
           q == k.prio[t]
<1>1. k \in Kernels /\ q \in Prios /\ k.prio[u] \in Prios
  BY DEF WellFormed, Kernels
<1>2. m.prio = k.prio
  BY SetStatusFacts
<1>3. m.runq = moved.runq
  <2>1. m = [moved EXCEPT !.status[u] = s]
    BY DEF SetStatus
  <2> HIDE DEF moved
  <2> QED BY <2>1
<1>4. moved.runq[q] # << >> /\ Head(moved.runq[q]) = t
  <2>1. k.runq[q] # << >> /\ Head(k.runq[q]) = t
    BY DEF Leading
  <2>2. /\ RunqueuePush(k, u, k.prio[u]).runq[q] # << >>
        /\ Head(RunqueuePush(k, u, k.prio[u]).runq[q]) = t
    BY <1>1, <2>1, PushHead
  <2>3. RunqueuePop(k, u).runq[q] # << >> /\ Head(RunqueuePop(k, u).runq[q]) = t
    BY <1>1, <2>1, PopHead
  <2> HIDE DEF q
  <2>4. \/ moved = k \/ moved = RunqueuePush(k, u, k.prio[u]) \/ moved = RunqueuePop(k, u)
    OBVIOUS
  <2> HIDE DEF moved
  <2> QED BY <2>1, <2>2, <2>3, <2>4
<1> HIDE DEF moved, m
<1> QED BY <1>2, <1>3, <1>4 DEF Leading, m

LEMMA PriorityHead ==
  ASSUME NEW k, WellFormed(k), NEW t \in Threads, Leading(k, t),
         NEW u \in Threads, u # t, NEW p \in Prios
  PROVE  Leading(SetPriority(k, u, p), t)
<1> DEFINE popped == RunqueuePop(k, u)
           moved == IF IsReady(k, u) THEN RunqueuePush(popped, u, p) ELSE k
           m == SetPriority(k, u, p)
           q == k.prio[t]
<1>1. /\ k \in Kernels /\ q \in Prios /\ ListsOK(k)
      /\ IsReady(k, u) => Contains(k.runq[k.prio[u]], u)
  BY DEF WellFormed, RunqueuesMatch, Kernels, ListsOK
<1>2. m.prio = [k.prio EXCEPT ![u] = p]
  BY SetPriorityFacts
<1>3. m.prio[t] = q
  BY <1>1, <1>2 DEF Kernels
<1>4. m.runq = moved.runq
  <2>1. m = [moved EXCEPT !.prio[u] = p]
    BY DEF SetPriority
  <2> HIDE DEF moved
  <2> QED BY <2>1
<1>5. moved.runq[q] # << >> /\ Head(moved.runq[q]) = t
  <2>1. k.runq[q] # << >> /\ Head(k.runq[q]) = t
    BY DEF Leading
  <2>2. CASE IsReady(k, u)
    <3>1. popped \in Kernels
      BY <1>1, <2>2, PopFacts
    <3>2. popped.runq[q] # << >> /\ Head(popped.runq[q]) = t
      BY <1>1, <2>1, PopHead
    <3>3. moved = RunqueuePush(popped, u, p)
      BY <2>2
    <3> HIDE DEF popped, q, moved
    <3> QED BY <1>1, <3>1, <3>2, <3>3, PushHead
  <2>3. CASE ~IsReady(k, u)
    <3>1. moved = k
      BY <2>3
    <3> HIDE DEF moved
    <3> QED BY <2>1, <3>1
  <2> QED BY <2>2, <2>3
<1> HIDE DEF moved, m
<1> QED BY <1>3, <1>4, <1>5 DEF Leading, m

LEMMA SchedRunLeads ==
  ASSUME NEW k, WellFormed(k), OneRunning(k)
  PROVE  Leads(SchedRun(k))
<1> DEFINE m == SchedRun(k)
<1>1. m.prio = k.prio /\ m.runq = k.runq
  BY SchedRunFacts
<1>2. ASSUME NEW t \in Threads, Executes(m, t)
      PROVE  Leading(m, t)
  <2>1. Head(k.runq[k.prio[t]]) = t /\ IsReady(k, t)
    BY <1>2, SchedRunPicks
  <2>2. k.prio[t] \in Prios /\ k.runq[k.prio[t]] \in Seq(Threads)
    BY DEF WellFormed, Kernels
  <2>3. Contains(k.runq[k.prio[t]], t)
    BY <2>1, <2>2 DEF WellFormed, RunqueuesMatch
  <2>4. k.runq[k.prio[t]] # << >>
    BY <2>2, <2>3, EmptyFacts
  <2> HIDE DEF m
  <2> QED BY <1>1, <2>1, <2>4 DEF Leading
<1> HIDE DEF m
<1> QED BY <1>2 DEF Leads, m

LEMMA IsrEndLeads ==
  ASSUME NEW k, WellFormed(k), OneRunning(k), Leads(k)
  PROVE  Leads(IsrEnd(k))
<1>1. IsrEnd(k) = SchedRun(k) \/ IsrEnd(k) = k
  BY DEF IsrEnd
<1> QED BY <1>1, SchedRunLeads

\* The scheduler call at the end of t's call.
LEMMA TailLeads ==
  ASSUME NEW k, KernelOK(k), NEW t \in Threads, Executes(k, t), k.tail[t] # NoTail, Leads(k)
  PROVE  Leads(TailCall(k, t))
<1> DEFINE done == Ends(k, t, NoTail)
           adv == IF IsReady(k, t) THEN RunqueueAdvance(k, k.prio[t]) ELSE k
           late == Ends(adv, t, YieldHigher)
<1>1. /\ WellFormed(done)
      /\ done.status = k.status /\ done.prio = k.prio /\ done.runq = k.runq
      /\ done.active = k.active
  <2>1. WellFormed(k) /\ NoTail \in TailCalls
    BY TailTypes DEF KernelOK
  <2>2. WellFormed(done) /\ OnlyTail(done, k, t, NoTail)
    BY <2>1, TailSet
  <2>3. done.runq = k.runq
    BY DEF Ends, KernelOK, WellFormed, Kernels
  <2> QED BY <2>2, <2>3 DEF OnlyTail
<1>2. k.prio[t] \in Prios /\ k.tail \in [Threads -> TailCalls]
  BY DEF KernelOK, WellFormed, Kernels
<1>3. CASE TailCall(k, t) = late
  <2>1. WellFormed(adv) /\ QueuesOnly(adv, k)
    <3>1. WellFormed(k) /\ QueuesOnly(k, k)
      BY DEF KernelOK, QueuesOnly
    <3>2. WellFormed(RunqueueAdvance(k, k.prio[t])) /\ QueuesOnly(RunqueueAdvance(k, k.prio[t]), k)
      BY <1>2, <3>1, AdvanceFacts, Zenon
    <3> QED BY <3>1, <3>2
  <2> HIDE DEF adv
  <2>2. late.active = adv.active /\ late.tail = [adv.tail EXCEPT ![t] = YieldHigher]
    BY <2>1, EndsFacts, TailTypes
  <2> HIDE DEF late
  <2>3. late.active = t /\ late.tail[t] = YieldHigher
    BY <1>2, <2>1, <2>2 DEF QueuesOnly, Executes
  <2>4. Yielding(late, t)
    BY <2>3 DEF Yielding, YieldHigher
  <2> QED BY <1>3, <2>3, <2>4 DEF Leads, Executes
<1>4. CASE TailCall(k, t) = SchedRun(done)
  <2> HIDE DEF done
  <2>1. OneRunning(done)
    BY <1>1 DEF OneRunning, KernelOK
  <2> QED BY <1>1, <1>4, <2>1, SchedRunLeads
<1>5. CASE TailCall(k, t) = done /\ k.tail[t].call = "switch"
  <2>1. ~Yielding(k, t)
    BY <1>5 DEF Yielding
  <2>2. Leading(k, t)
    BY <2>1 DEF Leads
  <2> HIDE DEF done
  <2>3. Leading(done, t)
    BY <1>1, <2>2 DEF Leading
  <2> QED BY <1>1, <1>5, <2>3 DEF Leads, Executes
<1> QED BY <1>3, <1>4, <1>5 DEF TailCall

\* A call of t that sends it to sleep and then yields, or changes another thread.
LEMMA CallLeads ==
  ASSUME NEW k, KernelOK(k), NEW t \in Threads, Calls(k, t), Leads(k),
         NEW u \in Threads, NEW s \in (Blocked \cup OnRunqueue) \ {"running"},
         NEW x \in TailCalls, x \in {Yield, YieldHigher} \/ u # t
  PROVE  Leads(Ends(SetStatus(k, u, s), t, x))
<1> DEFINE n == SetStatus(k, u, s)
           m == Ends(n, t, x)
<1>1. WellFormed(n) /\ OnlyStatus(n, k, u, s)
  BY SectionStatus, SectionStarts DEF KernelOK
<1>2. k.tail \in [Threads -> TailCalls] /\ k.active = t /\ k.tail[t] = NoTail /\ Executes(k, t)
  BY DEF KernelOK, WellFormed, Kernels, Calls, Executes
<1>3. u # t => Leading(n, t)
  <2>1. ~Yielding(k, t)
    BY <1>2 DEF Yielding, NoTail
  <2>2. Leading(k, t)
    BY <1>2, <2>1 DEF Leads
  <2> QED BY <2>2, StatusHead DEF KernelOK
<1> HIDE DEF n
<1>4. WellFormed(m) /\ OnlyTail(m, n, t, x) /\ m.runq = n.runq
  BY <1>1, TailSet, EndsFacts
<1> HIDE DEF m
<1>5. m.active = t /\ m.tail[t] = x /\ m.prio = n.prio
  BY <1>1, <1>2, <1>4 DEF OnlyTail, OnlyStatus
<1>6. CASE x \in {Yield, YieldHigher}
  <2>1. Yielding(m, t)
    BY <1>5, <1>6 DEF Yielding, Yield, YieldHigher
  <2> QED BY <1>5, <2>1 DEF Leads, Executes, m, n
<1>7. CASE u # t
  <2>1. Leading(m, t)
    BY <1>3, <1>4, <1>5, <1>7 DEF Leading
  <2> QED BY <1>5, <2>1 DEF Leads, Executes, m, n
<1> QED BY <1>6, <1>7

=============================================================================
