-------------------------- MODULE RiotThreads_proofs --------------------------
(***************************************************************************)
(* Theorems about RiotThreads, for every set of threads, of priorities and *)
(* every choice of the first thread.                                       *)
(***************************************************************************)
EXTENDS RiotThreads, RiotSched_proofs, FiniteSetTheorems

\* The inductive invariant.  A thread that makes a call must be ready (part of
\* KernelOK), or one that has just zombified itself could be freed while it is
\* active; a free slot must not be ready, or Create would move a queued thread to
\* another level without touching the lists.
IInv ==
  /\ KernelOK(k)
  /\ exists \subseteq Threads /\ IsFiniteSet(exists)
  /\ FreedThreadsAreGone
  /\ CountMatches

\* With it, who runs: the most urgent of the ready threads, the first of its level.
\* The thread that looks once more in sched_change_priority is ready for that reason.
UInv == IInv /\ Urgent(k, silent) /\ Leads(k)

LEMMA InitIInv == Init => IInv
<1> SUFFICES ASSUME Init PROVE IInv
  OBVIOUS
<1>1. k \in Kernels
  BY MainIsThread, TailTypes DEF Init, Kernels, Blocked, OnRunqueue
<1>2. /\ k.status = [t \in Threads |-> IF t = Main THEN "running" ELSE "stopped"]
      /\ k.prio = [t \in Threads |-> MainPrio]
      /\ k.runq = [p \in Prios |-> IF p = MainPrio THEN <<Main>> ELSE << >>]
      /\ k.bits = {MainPrio} /\ k.active = Main /\ ~k.idle
  BY DEF Init
<1>3. \A t \in Threads : IsReady(k, t) <=> t = Main
  BY <1>2 DEF IsReady, OnRunqueue
<1>4. RunqueuesMatch(k)
  BY <1>2, <1>3 DEF RunqueuesMatch, NoDuplicates, Contains
<1>5. OneRunning(k)
  BY <1>2 DEF OneRunning
<1>6. exists = {Main} /\ count = 1
  BY DEF Init
<1>7. \A t \in Threads : Calls(k, t) => IsReady(k, t)
  BY <1>2, <1>3 DEF Calls, Executes
<1>8. KernelOK(k)
  BY <1>1, <1>4, <1>5, <1>7 DEF KernelOK, WellFormed
<1>9. IsFiniteSet(exists) /\ CountMatches
  BY <1>6, FS_Singleton DEF CountMatches
<1> QED BY <1>2, <1>3, <1>6, <1>8, <1>9, MainIsThread DEF IInv, FreedThreadsAreGone

(***************************************************************************)
(* One lemma for each kind of step.                                        *)
(***************************************************************************)

\* A thread is created in a free slot: it is in no list yet, so giving it a
\* priority and a status "stopped" changes no run queue.
LEMMA FreshOK ==
  ASSUME IInv, NEW t \in Threads, Calls(k, t), NEW u \in Threads, u \notin exists,
         NEW p \in Prios
  PROVE  LET m == [k EXCEPT !.prio[u] = p, !.status[u] = "stopped", !.tail[u] = NoTail]
         IN /\ KernelOK(m) /\ Calls(m, t) /\ m.active = k.active /\ m.prio[u] = p
            /\ \A v \in Threads : IsReady(m, v) <=> IsReady(k, v)
            /\ Urgent(k, silent) => Urgent(m, silent)
            /\ Leads(k) => Leads(m)
<1> DEFINE m == [k EXCEPT !.prio[u] = p, !.status[u] = "stopped", !.tail[u] = NoTail]
<1>1. k \in Kernels /\ ~IsReady(k, u) /\ k.active # u /\ u # t
  BY DEF IInv, KernelOK, WellFormed, FreedThreadsAreGone, Calls, Executes
<1>2. m = [k EXCEPT !.prio = [k.prio EXCEPT ![u] = p],
                    !.status = [k.status EXCEPT ![u] = "stopped"],
                    !.tail = [k.tail EXCEPT ![u] = NoTail]]
  BY <1>1 DEF Kernels
<1> HIDE DEF m
<1>3. /\ m \in Kernels
      /\ m.prio = [k.prio EXCEPT ![u] = p]
      /\ m.status = [k.status EXCEPT ![u] = "stopped"]
      /\ m.tail = [k.tail EXCEPT ![u] = NoTail]
      /\ m.runq = k.runq /\ m.bits = k.bits /\ m.active = k.active /\ m.idle = k.idle
  BY <1>1, <1>2, TailTypes DEF Kernels, Blocked
<1>4. \A v \in Threads : IsReady(m, v) <=> IsReady(k, v)
  BY <1>1, <1>3 DEF IsReady, OnRunqueue, Kernels
<1>5. RunqueuesMatch(m)
  BY <1>1, <1>3, <1>4 DEF IInv, KernelOK, WellFormed, RunqueuesMatch, Kernels
<1>6. OneRunning(m)
  BY <1>1, <1>3 DEF IInv, KernelOK, OneRunning, Kernels
<1>7. Calls(m, t) /\ \A v \in Threads : Calls(m, v) => Calls(k, v)
  BY <1>1, <1>3 DEF Calls, Executes, Kernels
<1>8. KernelOK(m) /\ m.prio[u] = p
  BY <1>1, <1>3, <1>4, <1>5, <1>6, <1>7 DEF IInv, KernelOK, WellFormed, Kernels
<1>9. \A v \in Threads : /\ Executes(m, v) => v # u /\ Executes(k, v)
                         /\ v # u => m.prio[v] = k.prio[v] /\ m.tail[v] = k.tail[v]
  BY <1>1, <1>3 DEF Executes, Kernels
<1>10. ASSUME Urgent(k, silent) PROVE Urgent(m, silent)
  <2> SUFFICES ASSUME NEW v \in Threads, Executes(m, v), ~Yielding(m, v)
               PROVE  /\ IsReady(m, v)
                      /\ \A w \in Threads \ silent :
                           IsReady(m, w) => m.prio[v] <= m.prio[w] \/ WillLook(m, v, w)
    BY DEF Urgent
  <2>1. v # u /\ Executes(k, v) /\ ~Yielding(k, v)
    BY <1>9 DEF Yielding
  <2>2. IsReady(k, v) /\ \A w \in Threads \ silent :
                           IsReady(k, w) => k.prio[v] <= k.prio[w] \/ WillLook(k, v, w)
    BY <1>10, <2>1 DEF Urgent
  <2> QED BY <1>1, <1>4, <1>9, <2>1, <2>2 DEF WillLook
<1>11. ASSUME Leads(k) PROVE Leads(m)
  BY <1>3, <1>9, <1>11 DEF Leads, Leading, Yielding
<1> QED BY <1>3, <1>4, <1>7, <1>8, <1>10, <1>11 DEF m

\* The counter follows the set of the taken slots.
LEMMA CountAdds ==
  ASSUME IInv, NEW u \in Threads, u \notin exists,
         exists' = exists \cup {u}, count' = count + 1
  PROVE  exists' \subseteq Threads /\ IsFiniteSet(exists') /\ CountMatches'
<1>1. IsFiniteSet(exists') /\ Cardinality(exists') = Cardinality(exists) + 1
  BY FS_AddElement DEF IInv
<1> QED BY <1>1 DEF IInv, CountMatches

LEMMA CountRemoves ==
  ASSUME IInv, NEW u \in exists, exists' = exists \ {u}, count' = count - 1
  PROVE  exists' \subseteq Threads /\ IsFiniteSet(exists') /\ CountMatches'
<1>1. IsFiniteSet(exists') /\ Cardinality(exists') = Cardinality(exists) - 1
  BY FS_RemoveElement DEF IInv
<1> QED BY <1>1 DEF IInv, CountMatches

\* The executing thread has its slot.
LEMMA CallerExists ==
  ASSUME IInv, NEW t \in Threads, Executes(k, t)
  PROVE  t \in exists
BY DEF IInv, FreedThreadsAreGone, Executes

\* A step that only schedules keeps the invariant.
LEMMA ScheduledIInv ==
  ASSUME IInv, NEW m, KernelOK(m), Scheduled(m, k), k' = m, UNCHANGED <<exists, count>>
  PROVE  IInv'
<1>1. KernelOK(k)'
  OBVIOUS
<1>2. FreedThreadsAreGone'
  BY DEF IInv, FreedThreadsAreGone, Scheduled
<1> QED BY <1>1, <1>2 DEF IInv, CountMatches

\* A call that changes the status of a taken slot keeps the invariant.
LEMMA StatusIInv ==
  ASSUME IInv, NEW t \in Threads, Calls(k, t), NEW u \in exists,
         NEW s \in (Blocked \cup OnRunqueue) \ {"running"},
         NEW x \in TailCalls,
         x # NoTail \/ u # t \/ s \in OnRunqueue,
         k' = Ends(SetStatus(k, u, s), t, x), UNCHANGED <<exists, count>>
  PROVE  IInv'
<1>1. u \in Threads
  BY DEF IInv
<1>2. /\ KernelOK(k') /\ k'.status = [k.status EXCEPT ![u] = s]
      /\ k'.active = k.active
  BY <1>1, CallOK DEF IInv
<1>3. k \in Kernels
  BY DEF IInv, KernelOK, WellFormed
<1>4. FreedThreadsAreGone'
  BY <1>1, <1>2, <1>3 DEF IInv, FreedThreadsAreGone, IsReady, Kernels
<1> QED BY <1>2, <1>4 DEF IInv, CountMatches

\* A call that asks the scheduler for nothing.
LEMMA NothingToAsk ==
  ASSUME NEW m, KernelOK(m), NEW t \in Threads, Calls(m, t), NEW u \in Threads,
         NEW s \in Blocked \cup OnRunqueue
  PROVE  SetStatus(m, u, s) = Ends(SetStatus(m, u, s), t, NoTail)
<1> DEFINE n == SetStatus(m, u, s)
<1>1. WellFormed(n) /\ OnlyStatus(n, m, u, s)
  BY StatusSet DEF KernelOK
<1> HIDE DEF n
<1>2. n \in Kernels /\ n.tail[t] = NoTail
  BY <1>1 DEF WellFormed, OnlyStatus, Calls
<1>3. n = Ends(n, t, NoTail)
  BY <1>2 DEF Ends, Kernels
<1> QED BY <1>3 DEF n

LEMMA CreateIInv ==
  ASSUME IInv, NEW t \in Threads, NEW u \in Threads, NEW p \in Prios,
         NEW s \in {"pending", "sleeping"}, Create(t, u, p, s) \/ CreateWoutYield(t, u, p)
  PROVE  IInv'
<1> DEFINE m == [k EXCEPT !.prio[u] = p, !.status[u] = "stopped", !.tail[u] = NoTail]
<1>1. Calls(k, t) /\ u \notin exists /\ exists' = exists \cup {u} /\ count' = count + 1
  BY DEF Create, CreateWoutYield
<1>2. /\ KernelOK(m) /\ Calls(m, t) /\ m.active = k.active
      /\ \A v \in Threads : IsReady(m, v) <=> IsReady(k, v)
  BY <1>1, FreshOK
<1>3. PICK n \in {"pending", "sleeping"},
           x \in TailCalls :
        k' = Ends(SetStatus(m, u, n), t, x)
  <2>1. CASE Create(t, u, p, s)
    BY <2>1, TailTypes DEF Create
  <2>2. CASE CreateWoutYield(t, u, p)
    <3>1. k' = SetStatus(m, u, "pending")
      BY <2>2 DEF CreateWoutYield
    <3>2. "pending" \in Blocked \cup OnRunqueue
      BY DEF OnRunqueue
    <3> HIDE DEF m
    <3> QED BY <1>2, <3>1, <3>2, NothingToAsk, TailTypes
  <2> QED BY <2>1, <2>2
<1> HIDE DEF m
<1>4. u # t
  BY <1>1, CallerExists DEF Calls
<1>5. /\ KernelOK(k') /\ k'.status = [m.status EXCEPT ![u] = n]
      /\ k'.active = m.active
  BY <1>2, <1>3, <1>4, CallOK DEF Blocked, OnRunqueue
<1>6. m.status \in [Threads -> Blocked \cup OnRunqueue]
  BY <1>2 DEF KernelOK, WellFormed, Kernels
<1>7. FreedThreadsAreGone'
  BY <1>1, <1>2, <1>5, <1>6 DEF IInv, FreedThreadsAreGone, IsReady
<1> QED BY <1>1, <1>5, <1>7, CountAdds DEF IInv

LEMMA ExitIInv ==
  ASSUME IInv, NEW t \in Threads, Exit(t)
  PROVE  IInv' /\ Urgent(k', silent) /\ Leads(k')
<1> DEFINE n == SetStatus(k, t, "stopped")
           m == [n EXCEPT !.active = NoThread]
<1>1. /\ Calls(k, t) /\ t \in exists /\ k' = SchedRun(m)
      /\ exists' = exists \ {t} /\ count' = count - 1
  BY CallerExists DEF Exit, Calls
<1>2. /\ WellFormed(n) /\ n.status = [k.status EXCEPT ![t] = "stopped"]
  BY SetStatusFacts DEF IInv, KernelOK, Blocked
<1> HIDE DEF n
<1>3. /\ m \in Kernels /\ m.status = n.status /\ m.runq = n.runq /\ m.bits = n.bits
      /\ m.prio = n.prio /\ m.active = NoThread
  BY <1>2 DEF WellFormed, Kernels
<1> HIDE DEF m
<1>4. \A u \in Threads : IsReady(m, u) <=> IsReady(n, u)
  BY <1>3 DEF IsReady
<1>5. WellFormed(m)
  BY <1>2, <1>3, <1>4, SameQueues
<1>6. k \in Kernels /\ k.active = t
  BY <1>1 DEF IInv, KernelOK, WellFormed, Calls, Executes
<1>7. \A u \in Threads : m.status[u] = IF u = t THEN "stopped" ELSE k.status[u]
  BY <1>2, <1>3, <1>6 DEF Kernels
<1>8. OneRunning(m)
  BY <1>6, <1>7 DEF IInv, KernelOK, OneRunning
<1>9. KernelOK(k') /\ Scheduled(k', m) /\ Urgent(k', silent) /\ Leads(k')
  BY <1>1, <1>5, <1>8, SchedRunOK, SchedRunUrgent, SchedRunLeads
<1>10. \A u \in Threads : IsReady(m, u) => u # t /\ IsReady(k, u)
  BY <1>7 DEF IsReady, OnRunqueue
<1>11. FreedThreadsAreGone'
  BY <1>1, <1>3, <1>9, <1>10, NoThreadIsNone DEF IInv, FreedThreadsAreGone, Scheduled
<1> QED BY <1>1, <1>9, <1>11, CountRemoves DEF IInv

LEMMA KillZombieIInv ==
  ASSUME IInv, NEW t \in Threads, NEW u \in Threads, KillZombie(t, u)
  PROVE  IInv'
<1>1. /\ Calls(k, t) /\ u \in exists /\ k.status[u] = "zombie"
      /\ exists' = exists \ {u} /\ count' = count - 1
      /\ k' = SetStatus(k, u, "stopped")
  BY DEF KillZombie
<1>2. u # t /\ k.active = t
  BY <1>1 DEF IInv, KernelOK, Calls, Executes, IsReady, OnRunqueue
<1>3. /\ WellFormed(k') /\ k'.status = [k.status EXCEPT ![u] = "stopped"]
      /\ k'.active = k.active /\ k'.idle = k.idle /\ k'.tail = k.tail
  BY <1>1, SetStatusFacts DEF IInv, KernelOK, Blocked
<1>4. k \in Kernels
  BY DEF IInv, KernelOK, WellFormed
<1>5. \A v \in Threads : k'.status[v] = IF v = u THEN "stopped" ELSE k.status[v]
  BY <1>3, <1>4 DEF Kernels
<1>6. KernelOK(k')
  BY <1>1, <1>2, <1>3, <1>5 DEF IInv, KernelOK, OneRunning, Calls, Executes, IsReady
<1>7. FreedThreadsAreGone'
  BY <1>1, <1>2, <1>3, <1>5 DEF IInv, FreedThreadsAreGone, IsReady, OnRunqueue
<1> QED BY <1>1, <1>6, <1>7, CountRemoves DEF IInv

LEMMA ChangePriorityIInv ==
  ASSUME IInv, NEW t \in Threads, NEW u \in Threads, NEW p \in Prios,
         ChangePriority(t, u, p)
  PROVE  IInv'
<1> DEFINE n == SetPriority(k, u, p)
           x == Change(u, p)
<1>1. k' = Ends(n, t, x) /\ x \in TailCalls /\ x # NoTail
  BY TailTypes DEF ChangePriority, Change, NoTail
<1>2. WellFormed(n) /\ OnlyPrio(n, k)
  BY PrioritySet DEF IInv, KernelOK
<1> HIDE DEF n, x
<1>3. WellFormed(k') /\ OnlyTail(k', n, t, x)
  BY <1>1, <1>2, TailSet
<1>4. Calls(k, t) /\ UNCHANGED <<exists, count>>
  BY DEF ChangePriority
<1>5. KernelOK(k')
  BY <1>2, <1>3, <1>4 DEF OnlyPrio, OnlyTail, IInv, KernelOK, OneRunning, Calls, Executes, IsReady
<1>6. FreedThreadsAreGone'
  BY <1>2, <1>3, <1>4 DEF OnlyPrio, OnlyTail, IInv, FreedThreadsAreGone, IsReady
<1> QED BY <1>4, <1>5, <1>6 DEF IInv, CountMatches

\* The second half of sched_change_priority.
LEMMA ChangeCallOK ==
  ASSUME UInv, NEW t \in Threads, Executes(k, t), k.tail[t].call = "change"
  PROVE  /\ KernelOK(ChangeCall(k, t)) /\ Scheduled(ChangeCall(k, t), k)
         /\ Urgent(ChangeCall(k, t), silent) /\ Leads(ChangeCall(k, t))
<1> DEFINE c == k.tail[t]
           yields == c.thread = t \/ (k.prio[t] > c.prio /\ IsReady(k, c.thread))
           x == IF yields THEN YieldHigher ELSE NoTail
           m == Ends(k, t, x)
<1>1. /\ KernelOK(k) /\ WellFormed(k) /\ k \in Kernels /\ k.active = t
      /\ Urgent(k, silent) /\ Leads(k)
  BY DEF UInv, IInv, KernelOK, WellFormed, Executes
<1>2. c \in TailCalls /\ x \in TailCalls
  BY <1>1, TailTypes DEF Kernels
<1>3. ChangeCall(k, t) = m
  BY DEF ChangeCall
<1>4. WellFormed(m) /\ OnlyTail(m, k, t, x)
  BY <1>1, <1>2, TailSet
<1>5. m.runq = k.runq
  BY <1>1 DEF Ends, Kernels
<1>6. c.prio \in Nat /\ \A u \in Threads : k.prio[u] \in Nat
  <2>1. \A z \in TailCalls : z.prio \in Nat
    BY PriosAreLevels DEF TailCalls, NoTail, Yield, YieldHigher, Switch, Change
  <2>2. \A u \in Threads : k.prio[u] \in Nat
    BY <1>1, PriosAreLevels DEF Kernels
  <2> QED BY <1>2, <2>1, <2>2
<1> HIDE DEF m
<1>7. /\ m.active = t /\ m.tail[t] = x /\ m.prio = k.prio
      /\ \A u \in Threads : IsReady(m, u) <=> IsReady(k, u)
  BY <1>1, <1>4 DEF OnlyTail, Kernels, IsReady
<1>8. Scheduled(m, k) /\ OneRunning(m)
  BY <1>1, <1>4, <1>7 DEF Scheduled, OnlyTail, KernelOK, OneRunning
<1>9. CASE yields
  <2>1. Yielding(m, t) /\ ~Calls(m, t)
    BY <1>7, <1>9 DEF Yielding, YieldHigher, Calls, NoTail
  <2>2. Urgent(m, silent) /\ Leads(m)
    BY <1>7, <2>1 DEF Urgent, Leads, Executes
  <2>3. KernelOK(m)
    BY <1>4, <1>7, <1>8, <2>1 DEF KernelOK, Calls, Executes
  <2> QED BY <1>3, <1>8, <2>2, <2>3
<1>10. CASE ~yields
  <2>1. c.thread # t /\ (k.prio[t] <= c.prio \/ ~IsReady(k, c.thread))
    BY <1>6, <1>10
  <2>2. ~Yielding(k, t)
    BY <2>1 DEF Yielding
  <2>3. /\ IsReady(k, t) /\ Leading(k, t)
        /\ \A u \in Threads \ silent :
             IsReady(k, u) => k.prio[t] <= k.prio[u] \/ WillLook(k, t, u)
    BY <1>1, <2>2 DEF Urgent, Leads
  <2>4. ASSUME NEW u \in Threads \ silent, IsReady(k, u)
        PROVE  k.prio[t] <= k.prio[u]
    <3>1. CASE ~ (k.prio[t] <= k.prio[u])
      <4>1. c.thread = u /\ c.prio <= k.prio[u]
        BY <2>3, <2>4, <3>1 DEF WillLook
      <4> QED BY <1>6, <2>1, <2>4, <4>1
    <3> QED BY <3>1
  <2>5. Urgent(m, silent)
    BY <1>7, <2>3, <2>4 DEF Urgent, Executes
  <2>6. Leads(m)
    BY <1>5, <1>7, <2>3 DEF Leads, Leading, Executes
  <2>7. KernelOK(m)
    BY <1>4, <1>7, <1>8, <2>3 DEF KernelOK, Calls, Executes
  <2> QED BY <1>3, <1>8, <2>5, <2>6, <2>7
<1> QED BY <1>9, <1>10

\* The interrupt wakes its thread and may find another one to run.
LEMMA IsrWakeupIInv ==
  ASSUME IInv, NEW u \in Threads, IsrWakeup(u)
  PROVE  IInv'
<1> DEFINE m == SetStatus(k, u, "pending")
<1>1. u \in exists /\ UNCHANGED <<exists, count>>
  BY DEF IsrWakeup
<1>2. /\ WellFormed(m) /\ m.status = [k.status EXCEPT ![u] = "pending"]
      /\ m.active = k.active /\ m.idle = k.idle /\ m.tail = k.tail
  BY SetStatusFacts DEF IInv, KernelOK, OnRunqueue
<1>3. PICK n : k' = IsrEnd(n) /\ (n = IsrSwitch(m, k.prio[u])
                                  \/ \E r \in BOOLEAN : n = [m EXCEPT !.req = r])
  BY DEF IsrWakeup
<1> HIDE DEF m
<1>4. k \in Kernels
  BY DEF IInv, KernelOK, WellFormed
<1>5. \A v \in Threads : m.status[v] = IF v = u THEN "pending" ELSE k.status[v]
  BY <1>2, <1>4 DEF Kernels
<1>6. \A v \in Threads : IsReady(m, v) <=> (v = u \/ IsReady(k, v))
  BY <1>5 DEF IsReady, OnRunqueue
<1>7. OneRunning(m)
  BY <1>2, <1>5 DEF IInv, KernelOK, OneRunning
<1>8. KernelOK(m)
  BY <1>2, <1>6, <1>7 DEF IInv, KernelOK, Calls, Executes
<1>9. KernelOK(n) /\ Scheduled(n, m)
  BY <1>3, <1>8, IsrSwitchOK, RequestOK
<1>10. KernelOK(k') /\ Scheduled(k', n)
  BY <1>3, <1>9, IsrEndOK
<1>11. FreedThreadsAreGone'
  BY <1>1, <1>2, <1>6, <1>9, <1>10 DEF IInv, FreedThreadsAreGone, Scheduled
<1> QED BY <1>1, <1>10, <1>11 DEF IInv, CountMatches

(***************************************************************************)
(* The invariant and the theorems.                                         *)
(***************************************************************************)

LEMMA NextIInv == UInv /\ [Next]_allVars => IInv'
<1> SUFFICES ASSUME UInv, IInv, [Next]_allVars PROVE IInv'
  BY DEF UInv
<1>0. k \in Kernels /\ exists \subseteq Threads
  BY DEF IInv, KernelOK, WellFormed
<1>1. ASSUME NEW t \in Threads, NEW u \in Threads, NEW p \in Prios,
             NEW s \in {"pending", "sleeping"}, Create(t, u, p, s)
      PROVE  IInv'
  BY <1>1, CreateIInv
<1>2. ASSUME NEW t \in Threads, NEW u \in Threads, NEW p \in Prios,
             CreateWoutYield(t, u, p)
      PROVE  IInv'
  BY <1>2, CreateIInv
<1>3. ASSUME NEW t \in Threads, NEW u \in Threads, NEW p \in Prios,
             ChangePriority(t, u, p)
      PROVE  IInv'
  BY <1>3, ChangePriorityIInv
<1>4. ASSUME NEW t \in Threads, NEW u \in Threads, KillZombie(t, u)
      PROVE  IInv'
  BY <1>4, KillZombieIInv
<1>5. ASSUME NEW t \in Threads, NEW u \in Threads, Wakeup(t, u)
      PROVE  IInv'
  <2>1. k.prio[u] \in Prios
    BY <1>0 DEF Kernels
  <2> QED BY <1>5, <2>1, StatusIInv, TailTypes DEF Wakeup, OnRunqueue
<1>6. ASSUME NEW t \in Threads, Exit(t)
      PROVE  IInv'
  BY <1>6, ExitIInv
<1>7. ASSUME NEW t \in Threads, Sleep(t)
      PROVE  IInv'
  <2>1. Calls(k, t) /\ k' = Ends(SetStatus(k, t, "sleeping"), t, YieldHigher) /\ UNCHANGED <<exists, count>>
    BY <1>7 DEF Sleep
  <2>2. t \in exists /\ YieldHigher \in TailCalls /\ YieldHigher # NoTail
    BY <2>1, CallerExists, TailTypes DEF Calls, NoTail, YieldHigher
  <2>3. "sleeping" \in (Blocked \cup OnRunqueue) \ {"running"}
    BY DEF Blocked
  <2> QED BY <2>1, <2>2, <2>3, StatusIInv
<1>8. ASSUME NEW t \in Threads, YieldCall(t)
      PROVE  IInv'
  <2>1. Calls(k, t) /\ k' = Ends(k, t, Yield) /\ UNCHANGED <<exists, count>>
    BY <1>8 DEF YieldCall
  <2>2. /\ WellFormed(k') /\ k'.status = k.status
        /\ k'.active = k.active /\ k'.idle = k.idle
    <3>1. WellFormed(k) /\ Yield \in TailCalls
      BY TailTypes DEF IInv, KernelOK
    <3>2. OnlyTail(Ends(k, t, Yield), k, t, Yield) /\ WellFormed(Ends(k, t, Yield))
      BY <3>1, TailSet
    <3> QED BY <2>1, <3>2 DEF OnlyTail
  <2>3. KernelOK(k')
    BY <2>1, <2>2 DEF IInv, KernelOK, OneRunning, Calls, Executes, IsReady
  <2>4. FreedThreadsAreGone'
    BY <2>1, <2>2 DEF IInv, FreedThreadsAreGone, IsReady
  <2> QED BY <2>1, <2>3, <2>4 DEF IInv, CountMatches
<1>9. ASSUME NEW t \in Threads, Zombify(t)
      PROVE  IInv'
  BY <1>9, StatusIInv, CallerExists, TailTypes DEF Zombify, Calls, Blocked, OnRunqueue, NoTail, YieldHigher
<1>10. ASSUME NEW t \in Threads, Reschedule(t)
       PROVE  IInv'
  <2>1. /\ Executes(k, t) /\ k.tail[t] # NoTail /\ UNCHANGED <<exists, count>>
        /\ k' = IF k.tail[t].call = "change" THEN ChangeCall(k, t) ELSE TailCall(k, t)
    BY <1>10 DEF Reschedule
  <2>2. CASE k.tail[t].call = "change"
    BY <2>1, <2>2, ChangeCallOK, ScheduledIInv
  <2>3. CASE k.tail[t].call # "change"
    BY <2>1, <2>3, TailCallOK, ScheduledIInv DEF IInv
  <2> QED BY <2>2, <2>3
<1>11. ASSUME NEW u \in Threads, IsrWakeup(u)
       PROVE  IInv'
  BY <1>11, IsrWakeupIInv
<1>12. CASE UNCHANGED allVars
  BY <1>12 DEF allVars, vars, IInv, FreedThreadsAreGone, CountMatches
<1> QED BY <1>1, <1>2, <1>3, <1>4, <1>5, <1>6, <1>7, <1>8, <1>9, <1>10, <1>11, <1>12
        DEF Next, Step

(***************************************************************************)
(* Who runs: the most urgent of the ready threads, the first of its level. *)
(***************************************************************************)

LEMMA InitServes == Init => Urgent(k, silent) /\ Leads(k)
<1> SUFFICES ASSUME Init PROVE Urgent(k, silent) /\ Leads(k)
  OBVIOUS
<1>1. /\ \A t \in Threads : IsReady(k, t) <=> t = Main
      /\ k.active = Main /\ k.prio[Main] = MainPrio /\ k.runq[MainPrio] = <<Main>>
  BY MainIsThread DEF Init, IsReady, OnRunqueue
<1>2. MainPrio \in Nat
  BY MainIsThread, PriosAreLevels
<1>3. Leading(k, Main)
  BY <1>1 DEF Leading
<1> QED BY <1>1, <1>2, <1>3 DEF Urgent, Leads, Executes

\* The caller is the most urgent thread, and the first of its level.
LEMMA CallerServes ==
  ASSUME UInv, NEW t \in Threads, Calls(k, t)
  PROVE  /\ IsReady(k, t) /\ Leading(k, t) /\ Executes(k, t)
         /\ \A u \in Threads \ silent : IsReady(k, u) => k.prio[t] <= k.prio[u]
<1>1. Executes(k, t) /\ ~Yielding(k, t) /\ \A u \in Threads : ~WillLook(k, t, u)
  BY DEF Calls, Yielding, WillLook, NoTail
<1> QED BY <1>1 DEF UInv, Urgent, Leads

LEMMA CreateServes ==
  ASSUME UInv, NEW t \in Threads, NEW u \in Threads, NEW p \in Prios,
         NEW s \in {"pending", "sleeping"}
  PROVE  /\ Create(t, u, p, s) => Urgent(k', silent) /\ Leads(k')
         /\ CreateWoutYield(t, u, p) => Urgent(k', silent \cup {u}) /\ Leads(k')
<1> SUFFICES ASSUME Calls(k, t), u \notin exists
             PROVE  /\ Create(t, u, p, s) => Urgent(k', silent) /\ Leads(k')
                    /\ CreateWoutYield(t, u, p) => Urgent(k', silent \cup {u}) /\ Leads(k')
  BY DEF Create, CreateWoutYield
<1> DEFINE m == [k EXCEPT !.prio[u] = p, !.status[u] = "stopped", !.tail[u] = NoTail]
<1>1. /\ KernelOK(m) /\ Calls(m, t) /\ m.prio[u] = p /\ Urgent(m, silent) /\ Leads(m)
  BY FreshOK DEF UInv
<1>2. u # t
  BY CallerExists DEF UInv, Calls
<1>3. /\ "pending" \in (Blocked \cup OnRunqueue) \ {"running"}
      /\ "sleeping" \in (Blocked \cup OnRunqueue) \ {"running"} /\ "sleeping" \in Blocked
      /\ NoTail \in TailCalls /\ Switch(p) \in TailCalls
  BY TailTypes DEF Blocked, OnRunqueue
<1>4. ASSUME Create(t, u, p, "pending") PROVE Urgent(k', silent) /\ Leads(k')
  <2>1. k' = Ends(SetStatus(m, u, "pending"), t, Switch(p))
    BY <1>4 DEF Create
  <2> HIDE DEF m
  <2> QED BY <1>1, <1>2, <1>3, <2>1, CallUrgent, CallLeads
<1>5. ASSUME Create(t, u, p, "sleeping") PROVE Urgent(k', silent) /\ Leads(k')
  <2>1. k' = Ends(SetStatus(m, u, "sleeping"), t, NoTail)
    BY <1>5 DEF Create
  <2> HIDE DEF m
  <2> QED BY <1>1, <1>2, <1>3, <2>1, CallUrgent, CallLeads
<1>6. ASSUME CreateWoutYield(t, u, p) PROVE Urgent(k', silent \cup {u}) /\ Leads(k')
  <2>1. k' = SetStatus(m, u, "pending")
    BY <1>6 DEF CreateWoutYield
  <2> HIDE DEF m
  <2>2. k' = Ends(SetStatus(m, u, "pending"), t, NoTail)
    BY <1>1, <1>3, <2>1, NothingToAsk
  <2> DEFINE S == silent \cup {u}
  <2>3. Urgent(m, S) /\ u \in S
    BY <1>1 DEF Urgent
  <2> HIDE DEF S
  <2>4. Urgent(k', S) /\ Leads(k')
    BY <1>1, <1>2, <1>3, <2>2, <2>3, CallUrgent, CallLeads
  <2> QED BY <2>4 DEF S
<1> QED BY <1>4, <1>5, <1>6

LEMMA ChangePriorityServes ==
  ASSUME UInv, NEW t \in Threads, NEW u \in Threads, NEW p \in Prios,
         ChangePriority(t, u, p)
  PROVE  Urgent(k', silent) /\ Leads(k')
<1> DEFINE n == SetPriority(k, u, p)
           x == Change(u, p)
<1>1. Calls(k, t) /\ k' = Ends(n, t, x)
  BY DEF ChangePriority
<1>2. WellFormed(n) /\ OnlyPrio(n, k) /\ n.prio = [k.prio EXCEPT ![u] = p]
  BY PrioritySet, SetPriorityFacts DEF UInv, IInv, KernelOK
<1>3. /\ k.tail \in [Threads -> TailCalls] /\ k.prio \in [Threads -> Prios]
      /\ k.active = t /\ x \in TailCalls
  BY <1>1, TailTypes DEF UInv, IInv, KernelOK, WellFormed, Kernels, Calls, Executes
<1>4. u # t => Leading(n, t)
  BY <1>1, CallerServes, PriorityHead DEF UInv, IInv, KernelOK
<1> HIDE DEF n, x
<1>5. WellFormed(k') /\ OnlyTail(k', n, t, x) /\ k'.runq = n.runq
  <2>1. WellFormed(Ends(n, t, x)) /\ OnlyTail(Ends(n, t, x), n, t, x)
    BY <1>2, <1>3, TailSet
  <2>2. Ends(n, t, x).runq = n.runq
    BY <1>2 DEF Ends, WellFormed, Kernels
  <2> QED BY <1>1, <2>1, <2>2
<1>6. k'.active = t /\ k'.tail[t] = x /\ k'.prio = n.prio /\ k'.status = k.status
  BY <1>2, <1>3, <1>5 DEF OnlyTail, OnlyPrio
<1>7. /\ k'.tail[t].call = "change" /\ k'.tail[t].thread = u /\ k'.tail[t].prio = p
  BY <1>6 DEF Change, x
<1>8. CASE u = t
  <2>1. Yielding(k', t)
    BY <1>7, <1>8 DEF Yielding
  <2> QED BY <1>6, <2>1 DEF Urgent, Leads, Executes
<1>9. CASE u # t
  <2>1. \A v \in Threads : /\ IsReady(k', v) <=> IsReady(k, v)
                           /\ k'.prio[v] = IF v = u THEN p ELSE k.prio[v]
    BY <1>2, <1>3, <1>6 DEF IsReady
  <2>2. Leading(k', t)
    BY <1>4, <1>5, <1>6, <1>9 DEF Leading
  <2>3. IsReady(k, t) /\ \A v \in Threads \ silent : IsReady(k, v) => k.prio[t] <= k.prio[v]
    BY <1>1, CallerServes
  <2>4. WillLook(k', t, u)
    <3>1. p \in Nat /\ k'.prio[u] = p
      BY <2>1, PriosAreLevels
    <3> QED BY <1>7, <3>1 DEF WillLook
  <2>5. \A v \in Threads \ silent : IsReady(k', v) => k'.prio[t] <= k'.prio[v] \/ WillLook(k', t, v)
    BY <1>9, <2>1, <2>3, <2>4
  <2>6. IsReady(k', t)
    BY <2>1, <2>3
  <2> QED BY <1>6, <2>2, <2>5, <2>6 DEF Urgent, Leads, Executes
<1> QED BY <1>8, <1>9

LEMMA IsrWakeupServes ==
  ASSUME UInv, NEW u \in Threads, IsrWakeup(u)
  PROVE  Urgent(k', silent) /\ Leads(k')
<1> DEFINE m == SetStatus(k, u, "pending")
<1>1. KernelOK(k) /\ k \in Kernels /\ ~IsReady(k, u)
  BY DEF UInv, IInv, KernelOK, WellFormed, IsrWakeup, IsReady, OnRunqueue
<1>2. KernelOK(m) /\ WellFormed(m) /\ OnlyStatus(m, k, u, "pending")
  <2>1. KernelOK(m)
    BY <1>1, WokenOK
  <2>2. "pending" \in Blocked \cup OnRunqueue
    BY DEF OnRunqueue
  <2> QED BY <1>1, <2>1, <2>2, StatusSet DEF KernelOK
<1>3. \A t \in Threads : Leading(k, t) /\ t # u => Leading(m, t)
  <2>1. "pending" \in Blocked \cup OnRunqueue
    BY DEF OnRunqueue
  <2> QED BY <1>1, <2>1, StatusHead DEF KernelOK
<1>4. PICK n : k' = IsrEnd(n) /\ (n = m \/ \E r \in BOOLEAN : n = [m EXCEPT !.req = r])
               /\ (k.active # NoThread => n = IsrSwitch(m, k.prio[u]))
  BY DEF IsrWakeup, IsrSwitch
<1> HIDE DEF m
<1>5. /\ KernelOK(n) /\ n.runq = m.runq /\ n.prio = m.prio /\ n.tail = m.tail
      /\ n.active = m.active /\ n.idle = m.idle
  <2>1. CASE n = m
    BY <1>2, <2>1
  <2>2. ASSUME NEW r \in BOOLEAN, n = [m EXCEPT !.req = r]
        PROVE  /\ KernelOK(n) /\ n.runq = m.runq /\ n.prio = m.prio /\ n.tail = m.tail
               /\ n.active = m.active /\ n.idle = m.idle
    BY <1>2, <2>2, RequestOK, RequestFacts
  <2> QED BY <1>4, <2>1, <2>2
<1>6. Leads(n)
  <2> SUFFICES ASSUME NEW t \in Threads, Executes(n, t), ~Yielding(n, t)
               PROVE  Leading(n, t)
    BY DEF Leads
  <2>1. Executes(k, t) /\ ~Yielding(k, t)
    BY <1>2, <1>5 DEF Executes, Yielding, OnlyStatus
  <2>2. IsReady(k, t) /\ Leading(k, t)
    BY <2>1 DEF UInv, Urgent, Leads
  <2>3. Leading(m, t)
    BY <1>1, <1>3, <2>2
  <2> QED BY <1>5, <2>3 DEF Leading
<1>7. Leads(k')
  BY <1>4, <1>5, <1>6, IsrEndLeads DEF KernelOK
<1>8. CASE k.active # NoThread
  <2>1. k' = IsrEnd(IsrSwitch(SetStatus(k, u, "pending"), k.prio[u]))
    BY <1>4, <1>8 DEF m
  <2>2. Urgent(k', silent)
    BY <1>1, <2>1, IsrWakeUrgent DEF UInv
  <2> QED BY <1>7, <2>2
<1>9. CASE k.active = NoThread
  <2>1. Urgent(n, silent)
    BY <1>2, <1>5, <1>9, NoThreadIsNone DEF Urgent, Executes, OnlyStatus
  <2>2. Urgent(k', silent)
    BY <1>4, <1>5, <2>1, IsrEndUrgent DEF KernelOK
  <2> QED BY <1>7, <2>2
<1> QED BY <1>8, <1>9

\* The calls that change a status.
LEMMA StatusServes ==
  ASSUME UInv, NEW t \in Threads, NEW u \in Threads
  PROVE  /\ KillZombie(t, u) => Urgent(k', silent) /\ Leads(k')
         /\ Wakeup(t, u) => Urgent(k', silent) /\ Leads(k')
         /\ Sleep(t) => Urgent(k', silent) /\ Leads(k')
         /\ Zombify(t) => Urgent(k', silent) /\ Leads(k')
<1>1. KernelOK(k) /\ Urgent(k, silent) /\ Leads(k) /\ k.prio[u] \in Prios
  BY DEF UInv, IInv, KernelOK, WellFormed, Kernels
<1>2. /\ {"pending", "sleeping", "zombie", "stopped"} \subseteq (Blocked \cup OnRunqueue) \ {"running"}
      /\ "stopped" \in Blocked
      /\ NoTail \in TailCalls /\ YieldHigher \in TailCalls /\ Switch(k.prio[u]) \in TailCalls
  BY <1>1, TailTypes DEF Blocked, OnRunqueue
<1>3. Calls(k, t) => IsReady(k, t)
  BY <1>1 DEF KernelOK
<1>4. ASSUME KillZombie(t, u) PROVE Urgent(k', silent) /\ Leads(k')
  <2>1. Calls(k, t) /\ k.status[u] = "zombie" /\ k' = SetStatus(k, u, "stopped")
    BY <1>4 DEF KillZombie
  <2>2. u # t
    BY <1>3, <2>1 DEF IsReady, OnRunqueue
  <2>3. k' = Ends(SetStatus(k, u, "stopped"), t, NoTail)
    BY <1>1, <1>2, <2>1, NothingToAsk
  <2> QED BY <1>1, <1>2, <2>1, <2>2, <2>3, CallUrgent, CallLeads
<1>5. ASSUME Wakeup(t, u) PROVE Urgent(k', silent) /\ Leads(k')
  <2>1. /\ Calls(k, t) /\ k.status[u] = "sleeping"
        /\ k' = Ends(SetStatus(k, u, "pending"), t, Switch(k.prio[u]))
    BY <1>5 DEF Wakeup
  <2>2. u # t
    BY <1>3, <2>1 DEF IsReady, OnRunqueue
  <2> QED BY <1>1, <1>2, <2>1, <2>2, CallUrgent, CallLeads
<1>6. ASSUME Sleep(t) PROVE Urgent(k', silent) /\ Leads(k')
  <2>1. Calls(k, t) /\ k' = Ends(SetStatus(k, t, "sleeping"), t, YieldHigher)
    BY <1>6 DEF Sleep
  <2> QED BY <1>1, <1>2, <2>1, CallUrgent, CallLeads
<1>7. ASSUME Zombify(t) PROVE Urgent(k', silent) /\ Leads(k')
  <2>1. Calls(k, t) /\ k' = Ends(SetStatus(k, t, "zombie"), t, YieldHigher)
    BY <1>7 DEF Zombify
  <2> QED BY <1>1, <1>2, <2>1, CallUrgent, CallLeads
<1> QED BY <1>4, <1>5, <1>6, <1>7

LEMMA YieldServes ==
  ASSUME UInv, NEW t \in Threads, YieldCall(t)
  PROVE  Urgent(k', silent) /\ Leads(k')
<1>1. Calls(k, t) /\ k' = Ends(k, t, Yield)
  BY DEF YieldCall
<1>2. WellFormed(k) /\ Yield \in TailCalls /\ k.tail \in [Threads -> TailCalls] /\ k.active = t
  BY <1>1, TailTypes DEF UInv, IInv, KernelOK, WellFormed, Kernels, Calls, Executes
<1>3. k'.active = t /\ k'.tail[t] = Yield
  <2>1. OnlyTail(Ends(k, t, Yield), k, t, Yield)
    BY <1>2, TailSet
  <2> QED BY <1>1, <1>2, <2>1 DEF OnlyTail
<1>4. Yielding(k', t)
  BY <1>3 DEF Yielding, Yield
<1> QED BY <1>3, <1>4 DEF Urgent, Leads, Executes

LEMMA StepServes ==
  ASSUME UInv, Step
  PROVE  Urgent(k', silent) /\ Leads(k')
<1>1. ASSUME NEW t \in Threads, NEW u \in Threads, NEW p \in Prios,
             NEW s \in {"pending", "sleeping"}, Create(t, u, p, s)
      PROVE  Urgent(k', silent) /\ Leads(k')
  BY <1>1, CreateServes
<1>2. ASSUME NEW t \in Threads, NEW u \in Threads, NEW p \in Prios, ChangePriority(t, u, p)
      PROVE  Urgent(k', silent) /\ Leads(k')
  BY <1>2, ChangePriorityServes
<1>3. ASSUME NEW t \in Threads, NEW u \in Threads, KillZombie(t, u) \/ Wakeup(t, u)
      PROVE  Urgent(k', silent) /\ Leads(k')
  BY <1>3, StatusServes
<1>4. ASSUME NEW t \in Threads, Sleep(t) \/ Zombify(t)
      PROVE  Urgent(k', silent) /\ Leads(k')
  BY <1>4, StatusServes
<1>5. ASSUME NEW t \in Threads, Exit(t)
      PROVE  Urgent(k', silent) /\ Leads(k')
  BY <1>5, ExitIInv DEF UInv
<1>6. ASSUME NEW t \in Threads, YieldCall(t)
      PROVE  Urgent(k', silent) /\ Leads(k')
  BY <1>6, YieldServes
<1>7. ASSUME NEW t \in Threads, Reschedule(t)
      PROVE  Urgent(k', silent) /\ Leads(k')
  <2>1. /\ Executes(k, t) /\ k.tail[t] # NoTail
        /\ k' = IF k.tail[t].call = "change" THEN ChangeCall(k, t) ELSE TailCall(k, t)
    BY <1>7 DEF Reschedule
  <2>2. CASE k.tail[t].call = "change"
    BY <2>1, <2>2, ChangeCallOK
  <2>3. CASE k.tail[t].call # "change"
    BY <2>1, <2>3, TailUrgent, TailLeads DEF UInv, IInv
  <2> QED BY <2>2, <2>3
<1>8. ASSUME NEW u \in Threads, IsrWakeup(u)
      PROVE  Urgent(k', silent) /\ Leads(k')
  BY <1>8, IsrWakeupServes
<1> QED BY <1>1, <1>2, <1>3, <1>4, <1>5, <1>6, <1>7, <1>8 DEF Step

\* Overlooked drops only threads that keep nobody waiting.
LEMMA OverlookedServes ==
  ASSUME k' \in Kernels, NEW S, Urgent(k', S), silent' = Overlooked(S)
  PROVE  Urgent(k', silent')
<1> SUFFICES ASSUME NEW t \in Threads, Executes(k', t), ~Yielding(k', t),
                    NEW u \in Threads \ silent', IsReady(k', u)
             PROVE  k'.prio[t] <= k'.prio[u] \/ WillLook(k', t, u)
  BY DEF Urgent
<1>1. k'.active = t /\ t # NoThread /\ k'.prio[t] \in Nat /\ k'.prio[u] \in Nat
  BY NoThreadIsNone, PriosAreLevels DEF Executes, Kernels
<1>2. CASE u \in S
  BY <1>1, <1>2 DEF Overlooked
<1>3. CASE u \notin S
  BY <1>3 DEF Urgent
<1> QED BY <1>2, <1>3

LEMMA NextUInv == UInv /\ [Next]_allVars => UInv'
<1> SUFFICES ASSUME UInv, [Next]_allVars PROVE UInv'
  OBVIOUS
<1>1. IInv' /\ k' \in Kernels
  BY NextIInv DEF UInv, IInv, KernelOK, WellFormed
<1>2. CASE Step /\ silent' = Overlooked(silent)
  BY <1>1, <1>2, StepServes, OverlookedServes DEF UInv
<1>3. ASSUME NEW t \in Threads, NEW u \in Threads, NEW p \in Prios,
             CreateWoutYield(t, u, p), silent' = Overlooked(silent \cup {u})
      PROVE  UInv'
  <2>1. Urgent(k', silent \cup {u}) /\ Leads(k')
    BY <1>3, CreateServes
  <2> QED BY <1>1, <1>3, <2>1, OverlookedServes DEF UInv
<1>4. CASE UNCHANGED allVars
  BY <1>1, <1>4 DEF allVars, vars, UInv
<1> QED BY <1>2, <1>3, <1>4 DEF Next

(***************************************************************************)
(* The theorems.                                                           *)
(***************************************************************************)

\* The inductive invariant.
THEOREM InvariantHolds == Spec => []UInv
<1>1. Init => UInv
  BY InitIInv, InitServes DEF UInv
<1> QED BY <1>1, NextUInv, PTL DEF Spec

LEMMA SilentTyped == Spec => [](silent \subseteq Threads)
<1>1. Init => silent \subseteq Threads
  BY DEF Init
<1>2. silent \subseteq Threads /\ [Next]_allVars => (silent \subseteq Threads)'
  BY DEF Next, allVars, Overlooked
<1> QED BY <1>1, <1>2, PTL DEF Spec

\* The variables keep their types: no call or interrupt builds a kernel record
\* outside Kernels.
THEOREM TypesHold == Spec => []TypeOK
<1>1. UInv /\ silent \subseteq Threads => TypeOK
  <2> SUFFICES ASSUME IInv, silent \subseteq Threads PROVE TypeOK
    BY DEF UInv
  <2>1. Cardinality(exists) \in Nat
    BY FS_CardinalityType DEF IInv
  <2> QED BY <2>1 DEF IInv, TypeOK, KernelOK, WellFormed, CountMatches
<1> QED BY <1>1, InvariantHolds, SilentTyped, PTL

\* sched_set_status, sched_change_priority and sched_run never lose a ready
\* thread, queue one twice or leave one at a level it no longer has.
THEOREM RunqueuesAgree == Spec => []RunqueueConsistent
<1>1. UInv => RunqueueConsistent
  BY DEF UInv, IInv, RunqueueConsistent, KernelOK, WellFormed
<1> QED BY <1>1, InvariantHolds, PTL

\* Only sched_active_thread is STATUS_RUNNING.
THEOREM ActiveAloneRuns == Spec => []RunningIsActive
<1>1. UInv => RunningIsActive
  BY DEF UInv, IInv, RunningIsActive, KernelOK
<1> QED BY <1>1, InvariantHolds, PTL

\* A thread whose slot sched_task_exit or thread_kill_zombie has freed is never
\* scheduled on its old stack.
THEOREM FreedStayGone == Spec => []FreedThreadsAreGone
<1>1. UInv => FreedThreadsAreGone
  BY DEF UInv, IInv
<1> QED BY <1>1, InvariantHolds, PTL

\* sched.h: a thread runs "until it yields or another thread with higher priority is
\* runnable".  Whatever calls and interrupts did, a thread that is back in its own
\* code is ready, the first of its level, and no ready thread is more urgent, but for
\* those created with THREAD_CREATE_WOUT_YIELD.
THEOREM MostUrgentRuns == Spec => []UrgentRuns
<1>1. UInv => UrgentRuns
  BY CallerServes DEF UrgentRuns, Leading
<1> QED BY <1>1, InvariantHolds, PTL

=============================================================================
