--------------------------- MODULE RiotLocks_proofs ---------------------------
(***************************************************************************)
(* Theorems about RiotMutex and, on top of it, RiotRmutex and RiotCond,    *)
(* for every finite set of threads, every set of mutexes and of recursive  *)
(* mutexes, all consumers, producers and priorities, with and without      *)
(* inheritance, and whoever locks with a timeout.  First what every step   *)
(* of RiotMutex keeps.                                                     *)
(***************************************************************************)
EXTENDS RiotRmutex, RiotCond, RiotSched_proofs

(***************************************************************************)
(* The invariant.  Its parts see mutexes, calls and the kernel through a   *)
(* few views.                                                              *)
(***************************************************************************)

Queue(x, m) == x[m].queue
Locked(x, m) == x[m].locked
Asleep(kk) == {t \in Threads : kk.status[t] = "mutex"}
Waits(c, t, m) == c[t] \in {Calling("lock", m), Calling("cancelable", m)}

\* The call of t will return and say that t has m.
WillHave(c, cc, t, m) ==
  c[t] = Calling("lock", m) \/ (c[t] = Calling("cancelable", m) /\ ~cc[t])

\* The mutex was handed to t, which has not run since.
Given(t, m) == WillHave(call, cancelled, t, m) /\ ~Contains(Queue(mu, m), t)

HoldersAlone ==
  \A t \in Threads, m \in Mutexes :
    (m \in holds[t] \/ Given(t, m)) => Locked(mu, m) /\ holder[m] = t

QueuesMatch ==
  /\ \A t \in Threads, m \in Mutexes :
       Contains(Queue(mu, m), t) <=> t \in Asleep(k) /\ Waits(call, t, m)
  /\ \A m \in Mutexes :
       NoDuplicates(Queue(mu, m)) /\ (Queue(mu, m) # << >> => Locked(mu, m))

QueuesSorted == Inherit \/ \A m \in Mutexes : SortedBy(Queue(mu, m), k.prio)

\* Without timers every lock has its holder, or one that is about to return.
NothingLeftLocked ==
  Cancelers = {} =>
    /\ \A t \in Threads : call[t].op \in {"none", "lock"}
    /\ \A m \in Mutexes : Locked(mu, m) =>
         \E t \in Threads : holder[m] = t /\ (m \in holds[t] \/ call[t] = Calling("lock", m))

MutexInv ==
  /\ KernelOK(k) /\ TypeOK
  /\ HoldersAlone /\ QueuesMatch /\ QueuesSorted /\ NothingLeftLocked

Mutex_ts == [locked : BOOLEAN, queue : Seq(Threads),
             owner : Threads \cup {NoThread}, orig : Prios]
AllCalls == {NoCall} \cup {Calling(op, m) : op \in Ops, m \in Mutexes}

\* The module's own properties follow from these parts.
LEMMA PropertiesFollow ==
  ASSUME MutexInv
  PROVE  MutualExclusion /\ WaitersQueued /\ (Inherit \/ UrgentFirst)
<1>1. mu \in [Mutexes -> Mutex_ts] /\ holds \in [Threads -> SUBSET Mutexes]
  BY DEF MutexInv, TypeOK, Mutex_ts
<1>2. MutualExclusion
  BY <1>1 DEF MutexInv, HoldersAlone, MutualExclusion, Locked
<1>3. WaitersQueued
  BY DEF MutexInv, QueuesMatch, WaitersQueued, Queue, Locked, Asleep, Waits
<1>4. ASSUME ~Inherit PROVE UrgentFirst
  <2>1. \A m \in Mutexes : DOMAIN mu[m].queue = 1..Len(mu[m].queue)
    BY <1>1 DEF Mutex_ts
  <2> QED BY <2>1, <1>4 DEF MutexInv, QueuesSorted, SortedBy, UrgentFirst, Queue
<1> QED BY <1>2, <1>3, <1>4

LEMMA LockedFollows ==
  ASSUME MutexInv, Cancelers = {}
  PROVE  LockedIsHeld
BY DEF MutexInv, NothingLeftLocked, LockedIsHeld, Locked

(***************************************************************************)
(* Calls.                                                                  *)
(***************************************************************************)

LEMMA CallFacts ==
  /\ \A op, m : Calling(op, m).op = op /\ Calling(op, m).m = m
  /\ \A op, m : op # "none" => Calling(op, m) # NoCall
  /\ NoCall.op = "none"
<1>1. \A op, m : Calling(op, m).op = op /\ Calling(op, m).m = m
  BY DEF Calling
<1>2. NoCall.op = "none"
  BY DEF NoCall
<1> QED BY <1>1, <1>2

\* A thread waits for one mutex at most, and only in these two calls.
LEMMA WaitsFacts ==
  ASSUME NEW c, NEW cc, NEW t, NEW m
  PROVE  /\ WillHave(c, cc, t, m) => Waits(c, t, m)
         /\ Waits(c, t, m) => c[t].op \in {"lock", "cancelable"} /\ c[t].m = m
BY CallFacts DEF WillHave, Waits

(***************************************************************************)
(* What the parts of mutex.c do to a mutex.                                *)
(***************************************************************************)

LEMMA TakenFacts ==
  ASSUME NEW x \in Mutex_ts, NEW t \in Threads, NEW kk \in Kernels
  PROVE  /\ Taken(kk, x, t) \in Mutex_ts
         /\ Taken(kk, x, t).locked = TRUE /\ Taken(kk, x, t).queue = x.queue
<1>1. kk.prio[t] \in Prios
  BY DEF Kernels
<1> QED BY <1>1 DEF Taken, Mutex_ts

(***************************************************************************)
(* What the calls do to the kernel.                                        *)
(***************************************************************************)

KernelAfter(kk, sleepers) ==
  KernelOK(kk) /\ Asleep(kk) = sleepers /\ (Inherit \/ kk.prio = k.prio)

LEMMA CallersAreAwake ==
  ASSUME KernelOK(k), NEW t \in Threads, Calls(k, t)
  PROVE  t \notin Asleep(k) /\ k.status[t] \in OnRunqueue
BY DEF KernelOK, Asleep, IsReady, OnRunqueue

LEMMA SchedulingKeeps ==
  ASSUME NEW kk, NEW m, Scheduled(m, kk)
  PROVE  Asleep(m) = Asleep(kk) /\ m.prio = kk.prio
<1>1. \A u \in Threads : m.status[u] = "mutex" <=> kk.status[u] = "mutex"
  BY DEF Scheduled, IsReady, OnRunqueue
<1> QED BY <1>1 DEF Asleep, Scheduled

LEMMA YieldKernel ==
  ASSUME KernelOK(k), NEW t \in Threads, Calls(k, t), NEW x \in TailCalls
  PROVE  KernelAfter(Ends(k, t, x), Asleep(k))
<1> DEFINE m == Ends(k, t, x)
<1>1. KernelOK(m) /\ OnlyTail(m, k, t, x)
  BY SectionEnds, SectionStarts DEF KernelOK
<1> HIDE DEF m
<1> QED BY <1>1 DEF KernelAfter, OnlyTail, Asleep, m

\* _block, up to the end of its section: the owner of the mutex may be raised.
LEMMA BlockSection ==
  ASSUME KernelOK(k), NEW t \in Threads, Calls(k, t), NEW x \in Mutex_ts
  PROVE  LET b == BlockOn(k, x, t)
         IN /\ WellFormed(b) /\ InSection(b, k) /\ (Inherit \/ b.prio = k.prio)
            /\ \A v \in Threads : b.status[v] = IF v = t THEN "mutex" ELSE k.status[v]
<1> DEFINE n == SetStatus(k, t, "mutex")
           b == BlockOn(k, x, t)
<1>1. "mutex" \in (Blocked \cup OnRunqueue) \ {"running"}
  BY DEF Blocked
<1>2. /\ WellFormed(n) /\ InSection(n, k) /\ OnlyStatus(n, k, t, "mutex")
      /\ \A v \in Threads : n.status[v] = IF v = t THEN "mutex" ELSE k.status[v]
  BY <1>1, SectionStatus, SectionStarts DEF KernelOK
<1>3. WellFormed(b) /\ InSection(b, k) /\ b.status = n.status /\ (Inherit \/ b.prio = n.prio)
  <2>1. k.prio[t] \in Prios
    BY DEF KernelOK, WellFormed, Kernels
  <2>2. CASE Inherit /\ x.owner # NoThread /\ k.prio[x.owner] > k.prio[t]
    <3>1. x.owner \in Threads
      BY <2>2 DEF Mutex_ts
    <3>2. b = SetPriority(n, x.owner, k.prio[t])
      BY <2>2 DEF BlockOn
    <3> HIDE DEF n, b
    <3>3. WellFormed(b) /\ InSection(b, k) /\ OnlyPrio(b, n)
      BY <1>2, <2>1, <3>1, <3>2, SectionPrio
    <3> QED BY <2>2, <3>3 DEF OnlyPrio
  <2>3. CASE ~ (Inherit /\ x.owner # NoThread /\ k.prio[x.owner] > k.prio[t])
    <3>1. b = n
      BY <2>3 DEF BlockOn
    <3> HIDE DEF n, b
    <3> QED BY <1>2, <3>1
  <2> QED BY <2>2, <2>3
<1> HIDE DEF n, b
<1>4. /\ WellFormed(b) /\ InSection(b, k) /\ (Inherit \/ b.prio = k.prio)
      /\ \A v \in Threads : b.status[v] = IF v = t THEN "mutex" ELSE k.status[v]
  BY <1>2, <1>3 DEF OnlyStatus
<1> QED BY <1>4 DEF b

LEMMA BlockKernel ==
  ASSUME KernelOK(k), NEW t \in Threads, Calls(k, t), NEW x \in Mutex_ts
  PROVE  KernelAfter(Ends(BlockOn(k, x, t), t, YieldHigher), Asleep(k) \cup {t})
<1> DEFINE b == BlockOn(k, x, t)
           m == Ends(b, t, YieldHigher)
<1>1. /\ WellFormed(b) /\ InSection(b, k) /\ (Inherit \/ b.prio = k.prio)
      /\ \A v \in Threads : b.status[v] = IF v = t THEN "mutex" ELSE k.status[v]
  BY BlockSection
<1> HIDE DEF b
<1>2. YieldHigher \in TailCalls /\ YieldHigher # NoTail
  BY TailTypes DEF YieldHigher, NoTail
<1>3. KernelOK(m) /\ OnlyTail(m, b, t, YieldHigher)
  BY <1>1, <1>2, SectionEnds
<1> HIDE DEF m
<1>4. /\ \A v \in Threads : m.status[v] = IF v = t THEN "mutex" ELSE k.status[v]
      /\ Inherit \/ m.prio = k.prio
  BY <1>1, <1>3 DEF OnlyTail
<1> QED BY <1>3, <1>4 DEF KernelAfter, Asleep, m, b

\* mutex_unlock, up to the end of its section: the first waiter is woken, and the
\* priority of the owner may go back.
LEMMA UnlockSection ==
  ASSUME KernelOK(k), NEW x \in Mutex_ts, x.queue # << >>, Head(x.queue) \in Threads
  PROVE  LET b == UnlockOn(k, x)
         IN /\ WellFormed(b) /\ InSection(b, k) /\ (Inherit \/ b.prio = k.prio)
            /\ \A v \in Threads :
                 b.status[v] = IF v = Head(x.queue) THEN "pending" ELSE k.status[v]
<1> DEFINE u == Head(x.queue)
           n == SetStatus(k, u, "pending")
           b == UnlockOn(k, x)
<1>1. "pending" \in (Blocked \cup OnRunqueue) \ {"running"}
  BY DEF OnRunqueue
<1>2. /\ WellFormed(n) /\ InSection(n, k) /\ OnlyStatus(n, k, u, "pending")
      /\ \A v \in Threads : n.status[v] = IF v = u THEN "pending" ELSE k.status[v]
  <2>1. WellFormed(k) /\ InSection(k, k) /\ u \in Threads
    BY SectionStarts DEF KernelOK
  <2> HIDE DEF u
  <2> QED BY <1>1, <2>1, SectionStatus
<1>3. WellFormed(b) /\ InSection(b, k) /\ b.status = n.status /\ (Inherit \/ b.prio = n.prio)
  <2>1. CASE Inherit /\ x.owner # NoThread /\ n.prio[x.owner] # x.orig
    <3>1. x.owner \in Threads /\ x.orig \in Prios
      BY <2>1 DEF Mutex_ts
    <3>2. b = SetPriority(n, x.owner, x.orig)
      BY <2>1 DEF UnlockOn
    <3> HIDE DEF n, b
    <3>3. WellFormed(b) /\ InSection(b, k) /\ OnlyPrio(b, n)
      BY <1>2, <3>1, <3>2, SectionPrio
    <3> QED BY <2>1, <3>3 DEF OnlyPrio
  <2>2. CASE ~ (Inherit /\ x.owner # NoThread /\ n.prio[x.owner] # x.orig)
    <3>1. b = n
      BY <2>2 DEF UnlockOn
    <3> HIDE DEF n, b
    <3> QED BY <1>2, <3>1
  <2> QED BY <2>1, <2>2
<1> HIDE DEF n, b, u
<1>4. /\ WellFormed(b) /\ InSection(b, k) /\ (Inherit \/ b.prio = k.prio)
      /\ \A v \in Threads : b.status[v] = IF v = u THEN "pending" ELSE k.status[v]
  BY <1>2, <1>3 DEF OnlyStatus
<1> QED BY <1>4 DEF b, u

LEMMA UnlockKernel ==
  ASSUME KernelOK(k), NEW t \in Threads, Calls(k, t), NEW x \in Mutex_ts,
         x.queue # << >>, Head(x.queue) \in Threads
  PROVE  KernelAfter(Ends(UnlockOn(k, x), t, YieldHigher), Asleep(k) \ {Head(x.queue)})
<1> DEFINE u == Head(x.queue)
           b == UnlockOn(k, x)
           m == Ends(b, t, YieldHigher)
<1>1. /\ WellFormed(b) /\ InSection(b, k) /\ (Inherit \/ b.prio = k.prio)
      /\ \A v \in Threads : b.status[v] = IF v = u THEN "pending" ELSE k.status[v]
  BY UnlockSection
<1> HIDE DEF b, u
<1>2. YieldHigher \in TailCalls /\ YieldHigher # NoTail
  BY TailTypes DEF YieldHigher, NoTail
<1>3. KernelOK(m) /\ OnlyTail(m, b, t, YieldHigher)
  BY <1>1, <1>2, SectionEnds
<1> HIDE DEF m
<1>4. /\ \A v \in Threads : m.status[v] = IF v = u THEN "pending" ELSE k.status[v]
      /\ Inherit \/ m.prio = k.prio
  BY <1>1, <1>3 DEF OnlyTail
<1> QED BY <1>3, <1>4 DEF KernelAfter, Asleep, m, b, u

\* mutex_unlock_and_sleep: n is the kernel when the first waiter is ready.
LEMMA SleepKernel ==
  ASSUME KernelOK(k), NEW t \in Threads, Calls(k, t),
         NEW n, WellFormed(n), InSection(n, k), n.prio = k.prio
  PROVE  /\ KernelOK(Ends(SetStatus(n, t, "sleeping"), t, YieldHigher))
         /\ Ends(SetStatus(n, t, "sleeping"), t, YieldHigher).prio = k.prio
         /\ Asleep(Ends(SetStatus(n, t, "sleeping"), t, YieldHigher)) = Asleep(n) \ {t}
<1> DEFINE b == SetStatus(n, t, "sleeping")
           m == Ends(b, t, YieldHigher)
<1>1. "sleeping" \in (Blocked \cup OnRunqueue) \ {"running"}
  BY DEF Blocked
<1>2. /\ WellFormed(b) /\ InSection(b, k) /\ OnlyStatus(b, n, t, "sleeping")
      /\ \A v \in Threads : b.status[v] = IF v = t THEN "sleeping" ELSE n.status[v]
  BY <1>1, SectionStatus
<1> HIDE DEF b
<1>3. YieldHigher \in TailCalls /\ YieldHigher # NoTail
  BY TailTypes DEF YieldHigher, NoTail
<1>4. KernelOK(m) /\ OnlyTail(m, b, t, YieldHigher)
  BY <1>2, <1>3, SectionEnds
<1> HIDE DEF m
<1>5. m.prio = k.prio /\ Asleep(m) = Asleep(n) \ {t}
  BY <1>2, <1>4 DEF OnlyTail, OnlyStatus, Asleep
<1> QED BY <1>4, <1>5 DEF m, b

\* An interrupt wakes u: the timer of a waiter, or the end of a sleep.
LEMMA WakeKernel ==
  ASSUME KernelOK(k), NEW u \in Threads, NEW p
  PROVE  KernelAfter(IsrEnd(IsrSwitch(SetStatus(k, u, "pending"), p)), Asleep(k) \ {u})
<1> DEFINE n == SetStatus(k, u, "pending")
           s == IsrSwitch(n, p)
           m == IsrEnd(s)
<1>1. /\ KernelOK(n) /\ n.prio = k.prio
      /\ \A v \in Threads : n.status[v] = IF v = u THEN "pending" ELSE k.status[v]
  BY WokenOK
<1> HIDE DEF n
<1>2. KernelOK(s) /\ Scheduled(s, n)
  BY <1>1, IsrSwitchOK
<1> HIDE DEF s
<1>3. KernelOK(m) /\ Scheduled(m, s)
  BY <1>2, IsrEndOK
<1> HIDE DEF m
<1>4. Asleep(m) = Asleep(n) /\ m.prio = n.prio
  BY <1>2, <1>3, SchedulingKeeps
<1>5. Asleep(n) = Asleep(k) \ {u}
  BY <1>1 DEF Asleep
<1> QED BY <1>1, <1>3, <1>4, <1>5 DEF KernelAfter, m, s, n

(***************************************************************************)
(* What each kind of step keeps.                                           *)
(***************************************************************************)

LEMMA Types ==
  ASSUME MutexInv
  PROVE  /\ k \in Kernels /\ KernelOK(k) /\ mu \in [Mutexes -> Mutex_ts]
         /\ call \in [Threads -> AllCalls] /\ cancelled \in [Threads -> BOOLEAN]
         /\ holds \in [Threads -> SUBSET Mutexes]
         /\ holder \in [Mutexes -> Threads \cup {NoThread}]
         /\ \A m \in Mutexes : Queue(mu, m) \in Seq(Threads) /\ Locked(mu, m) \in BOOLEAN
<1>1. mu \in [Mutexes -> Mutex_ts]
  BY DEF MutexInv, TypeOK, Mutex_ts
<1>2. \A m \in Mutexes : Queue(mu, m) \in Seq(Threads) /\ Locked(mu, m) \in BOOLEAN
  BY <1>1 DEF Mutex_ts, Queue, Locked
<1> QED BY <1>1, <1>2 DEF MutexInv, TypeOK, AllCalls

LEMMA CallSet ==
  ASSUME MutexInv, NEW t \in Threads, NEW c \in AllCalls, call' = [call EXCEPT ![t] = c]
  PROVE  /\ call' \in [Threads -> AllCalls] /\ call'[t] = c
         /\ \A u \in Threads : u # t => call'[u] = call[u]
BY Types

\* The step changes mutex m only.
Changed(x, y, m) == \A n \in Mutexes : n # m => Queue(y, n) = Queue(x, n) /\ Locked(y, n) = Locked(x, n)

LEMMA MutexSet ==
  ASSUME MutexInv, NEW m \in Mutexes, NEW x \in Mutex_ts, mu' = [mu EXCEPT ![m] = x]
  PROVE  /\ mu' \in [Mutexes -> Mutex_ts] /\ Changed(mu, mu', m)
         /\ Queue(mu', m) = x.queue /\ Locked(mu', m) = x.locked
<1>1. mu \in [Mutexes -> Mutex_ts]
  BY Types
<1>2. mu'[m] = x /\ \A n \in Mutexes : n # m => mu'[n] = mu[n]
  BY <1>1
<1> QED BY <1>1, <1>2 DEF Queue, Locked, Changed

\* A thread that is awake and waits in no call is in no queue and was given nothing.
LEMMA IdleFacts ==
  ASSUME MutexInv, NEW t \in Threads, \A m \in Mutexes : ~Waits(call, t, m)
  PROVE  \A m \in Mutexes : ~Contains(Queue(mu, m), t) /\ ~Given(t, m)
BY WaitsFacts DEF MutexInv, QueuesMatch, Given

LEMMA NotWaiting ==
  ASSUME NEW c, NEW t, c[t] = NoCall \/ \E n : c[t] = Calling("armed", n) \/ c[t] = Calling("disarm", n)
  PROVE  \A cc : \A m \in Mutexes : ~Waits(c, t, m) /\ ~WillHave(c, cc, t, m)
BY CallFacts DEF Waits, WillHave

\* The mutex is free, and t takes it.
LEMMA TakesKeeps ==
  ASSUME MutexInv, NEW t \in Threads, NEW m \in Mutexes, Takes(t, m),
         NEW c \in {NoCall, Calling("disarm", m)}, call' = [call EXCEPT ![t] = c],
         call[t] \in {NoCall, Calling("armed", m)}, call[t] = NoCall => c = NoCall,
         UNCHANGED cancelled
  PROVE  MutexInv'
<1>1. /\ ~mu[m].locked /\ mu' = [mu EXCEPT ![m] = Taken(k, mu[m], t)]
      /\ holder' = [holder EXCEPT ![m] = t]
      /\ holds' = [holds EXCEPT ![t] = @ \cup {m}]
      /\ k' = k
  BY DEF Takes
<1>2. /\ c \in AllCalls /\ mu[m] \in Mutex_ts /\ k \in Kernels
  BY Types DEF AllCalls, Ops
<1>3. /\ mu' \in [Mutexes -> Mutex_ts] /\ Changed(mu, mu', m)
      /\ Queue(mu', m) = Queue(mu, m) /\ Locked(mu', m) = TRUE /\ ~Locked(mu, m)
  <2> DEFINE x == Taken(k, mu[m], t)
  <2>1. x \in Mutex_ts /\ x.locked = TRUE /\ x.queue = mu[m].queue
    BY <1>2, TakenFacts
  <2> HIDE DEF x
  <2>2. mu' = [mu EXCEPT ![m] = x]
    BY <1>1 DEF x
  <2>3. /\ mu' \in [Mutexes -> Mutex_ts] /\ Changed(mu, mu', m)
        /\ Queue(mu', m) = x.queue /\ Locked(mu', m) = x.locked
    BY <2>1, <2>2, MutexSet
  <2> QED BY <1>1, <2>1, <2>3 DEF Queue, Locked
<1>4. \A n \in Mutexes : Queue(mu', n) = Queue(mu, n)
  BY <1>3 DEF Changed
<1>5. \A n \in Mutexes : n # m => Locked(mu', n) = Locked(mu, n)
  BY <1>3 DEF Changed
<1>6. /\ call' \in [Threads -> AllCalls] /\ call'[t] = c
      /\ \A u \in Threads : u # t => call'[u] = call[u]
  BY <1>2, CallSet
<1>7. /\ \A cc : \A n \in Mutexes : ~Waits(call, t, n) /\ ~WillHave(call, cc, t, n)
      /\ \A cc : \A n \in Mutexes : ~Waits(call', t, n) /\ ~WillHave(call', cc, t, n)
  BY <1>6, NotWaiting
<1>8. \A cc : \A u \in Threads, n \in Mutexes :
        u # t => /\ Waits(call', u, n) <=> Waits(call, u, n)
                 /\ WillHave(call', cc, u, n) <=> WillHave(call, cc, u, n)
  BY <1>6 DEF Waits, WillHave
<1>9. /\ holds' \in [Threads -> SUBSET Mutexes] /\ holder' \in [Mutexes -> Threads \cup {NoThread}]
      /\ holder'[m] = t /\ \A n \in Mutexes : n # m => holder'[n] = holder[n]
      /\ \A u \in Threads : holds'[u] = IF u = t THEN holds[u] \cup {m} ELSE holds[u]
  BY <1>1, Types
<1>10. TypeOK'
  BY <1>1, <1>2, <1>3, <1>6, <1>9, Types DEF TypeOK, Mutex_ts, AllCalls
<1>11. HoldersAlone'
  <2>1. ASSUME NEW u \in Threads, NEW n \in Mutexes, n \in holds'[u] \/ Given(u, n)'
        PROVE  Locked(mu', n) /\ holder'[n] = u
    <3>1. (u = t /\ n = m) \/ n \in holds[u] \/ Given(u, n)
      <4>1. CASE n \in holds'[u]
        BY <4>1, <1>9
      <4>2. CASE Given(u, n)'
        <5>1. WillHave(call', cancelled, u, n) /\ ~Contains(Queue(mu, n), u)
          BY <4>2, <1>4 DEF Given
        <5>2. u # t
          BY <5>1, <1>7
        <5> QED BY <5>1, <5>2, <1>8 DEF Given
      <4> QED BY <2>1, <4>1, <4>2
    <3>2. CASE u = t /\ n = m
      BY <3>2, <1>3, <1>9
    <3>3. CASE n \in holds[u] \/ Given(u, n)
      <4>1. Locked(mu, n) /\ holder[n] = u
        BY <3>3 DEF MutexInv, HoldersAlone
      <4> QED BY <4>1, <1>3, <1>5, <1>9
    <3> QED BY <3>1, <3>2, <3>3
  <2> QED BY <2>1 DEF HoldersAlone
<1>12. QueuesMatch'
  <2>1. \A u \in Threads, n \in Mutexes :
          Contains(Queue(mu', n), u) <=> u \in Asleep(k') /\ Waits(call', u, n)
    BY <1>1, <1>4, <1>7, <1>8 DEF MutexInv, QueuesMatch
  <2>2. \A n \in Mutexes :
          NoDuplicates(Queue(mu', n)) /\ (Queue(mu', n) # << >> => Locked(mu', n))
    BY <1>3, <1>4, <1>5 DEF MutexInv, QueuesMatch
  <2> QED BY <2>1, <2>2 DEF QueuesMatch
<1>13. QueuesSorted'
  BY <1>1, <1>4 DEF MutexInv, QueuesSorted
<1>14. NothingLeftLocked'
  <2> SUFFICES ASSUME Cancelers = {} PROVE NothingLeftLocked'
    BY DEF NothingLeftLocked
  <2>1. /\ \A u \in Threads : call[u].op \in {"none", "lock"}
        /\ \A n \in Mutexes : Locked(mu, n) =>
             \E u \in Threads : holder[n] = u /\ (n \in holds[u] \/ call[u] = Calling("lock", n))
    BY DEF MutexInv, NothingLeftLocked
  <2>2. call[t] = NoCall /\ c = NoCall
    BY <2>1, CallFacts
  <2>3. \A u \in Threads : call'[u] = call[u]
    BY <2>2, <1>6
  <2>4. \A u \in Threads : call'[u].op \in {"none", "lock"}
    BY <2>1, <2>3
  <2>5. ASSUME NEW n \in Mutexes, Locked(mu', n)
        PROVE  \E u \in Threads : holder'[n] = u /\ (n \in holds'[u] \/ call'[u] = Calling("lock", n))
    <3>1. CASE n = m
      BY <3>1, <1>9
    <3>2. CASE n # m
      BY <3>2, <2>1, <2>3, <2>5, <1>5, <1>9
    <3> QED BY <3>1, <3>2
  <2> QED BY <2>4, <2>5 DEF NothingLeftLocked
<1> QED BY <1>1, <1>10, <1>11, <1>12, <1>13, <1>14 DEF MutexInv

\* The mutex is locked, and t waits for it.
LEMMA BlocksKeeps ==
  ASSUME MutexInv, NEW t \in Threads, NEW m \in Mutexes, Calls(k, t), BlocksOn(t, m),
         NEW c \in {Calling("lock", m), Calling("cancelable", m)},
         call' = [call EXCEPT ![t] = c],
         call[t] = NoCall \/ (call[t] = Calling("armed", m) /\ ~cancelled[t]),
         call[t] = NoCall => c = Calling("lock", m),
         UNCHANGED cancelled
  PROVE  MutexInv'
<1>1. /\ mu[m].locked /\ mu' = [mu EXCEPT ![m] = Queued(k, mu[m], t)]
      /\ k' = Ends(BlockOn(k, mu[m], t), t, YieldHigher)
      /\ holds' = holds /\ holder' = holder
  BY DEF BlocksOn
<1>2. /\ c \in AllCalls /\ mu[m] \in Mutex_ts /\ k \in Kernels /\ KernelOK(k)
  BY Types DEF AllCalls, Ops
<1>3. KernelOK(k') /\ Asleep(k') = Asleep(k) \cup {t} /\ (Inherit \/ k'.prio = k.prio)
  BY <1>1, <1>2, BlockKernel DEF KernelAfter
<1>4. t \notin Asleep(k) /\ \A n \in Mutexes : ~Contains(Queue(mu, n), t)
  BY <1>2, CallersAreAwake DEF MutexInv, QueuesMatch
<1>5. /\ call' \in [Threads -> AllCalls] /\ call'[t] = c
      /\ \A u \in Threads : u # t => call'[u] = call[u]
  BY <1>2, CallSet
<1>6. /\ \A cc : \A u \in Threads, n \in Mutexes :
           u # t => /\ Waits(call', u, n) <=> Waits(call, u, n)
                    /\ WillHave(call', cc, u, n) <=> WillHave(call, cc, u, n)
      /\ Waits(call', t, m) /\ \A n \in Mutexes : Waits(call', t, n) => n = m
  <2>1. c.m = m
    BY CallFacts
  <2> QED BY <1>5, <2>1, CallFacts DEF Waits, WillHave
<1> DEFINE q == AddToList(k, Queue(mu, m), t)
<1>7. /\ q \in Seq(Threads) /\ NoDuplicates(q) /\ q # << >>
      /\ \A u : Contains(q, u) <=> (u = t \/ Contains(Queue(mu, m), u))
      /\ SortedBy(Queue(mu, m), k.prio) => SortedBy(q, k.prio)
  <2>1. Queue(mu, m) \in Seq(Threads) /\ NoDuplicates(Queue(mu, m))
    BY Types DEF MutexInv, QueuesMatch
  <2> QED BY <1>2, <1>4, <2>1, AddFacts
<1>8. /\ Queued(k, mu[m], t) \in Mutex_ts /\ Queued(k, mu[m], t).queue = q
      /\ Queued(k, mu[m], t).locked = mu[m].locked
  <2>1. Queued(k, mu[m], t) = [mu[m] EXCEPT !.queue = q]
    BY DEF Queued, Queue
  <2> HIDE DEF q
  <2> QED BY <1>2, <1>7, <2>1 DEF Mutex_ts
<1> HIDE DEF q
<1>9. /\ mu' \in [Mutexes -> Mutex_ts] /\ Changed(mu, mu', m)
      /\ Queue(mu', m) = q /\ Locked(mu', m) /\ Locked(mu, m)
  BY <1>1, <1>8, MutexSet DEF Locked
<1>10. /\ \A n \in Mutexes : Locked(mu', n) <=> Locked(mu, n)
       /\ \A n \in Mutexes, u \in Threads :
            Contains(Queue(mu', n), u) <=> ((n = m /\ u = t) \/ Contains(Queue(mu, n), u))
  BY <1>7, <1>9 DEF Changed
<1>11. TypeOK'
  BY <1>1, <1>3, <1>5, <1>9, Types DEF TypeOK, Mutex_ts, AllCalls, KernelOK, WellFormed
<1>12. HoldersAlone'
  <2>1. ASSUME NEW u \in Threads, NEW n \in Mutexes, n \in holds'[u] \/ Given(u, n)'
        PROVE  Locked(mu', n) /\ holder'[n] = u
    <3>1. Given(u, n)' => Given(u, n)
      <4>1. CASE u = t
        BY <4>1, <1>5, <1>6, <1>10, WaitsFacts DEF Given
      <4>2. CASE u # t
        BY <4>2, <1>6, <1>10 DEF Given
      <4> QED BY <4>1, <4>2
    <3>2. Locked(mu, n) /\ holder[n] = u
      BY <2>1, <3>1, <1>1 DEF MutexInv, HoldersAlone
    <3> QED BY <3>2, <1>1, <1>10
  <2> QED BY <2>1 DEF HoldersAlone
<1>13. QueuesMatch'
  <2>1. ASSUME NEW u \in Threads, NEW n \in Mutexes
        PROVE  Contains(Queue(mu', n), u) <=> u \in Asleep(k') /\ Waits(call', u, n)
    <3>1. Contains(Queue(mu, n), u) <=> u \in Asleep(k) /\ Waits(call, u, n)
      BY DEF MutexInv, QueuesMatch
    <3>2. CASE u = t
      BY <3>1, <3>2, <1>3, <1>4, <1>6, <1>10
    <3>3. CASE u # t
      BY <3>1, <3>3, <1>3, <1>6, <1>10
    <3> QED BY <3>2, <3>3
  <2>2. \A n \in Mutexes :
          NoDuplicates(Queue(mu', n)) /\ (Queue(mu', n) # << >> => Locked(mu', n))
    BY <1>7, <1>9, <1>10 DEF MutexInv, QueuesMatch, Changed
  <2> QED BY <2>1, <2>2 DEF QueuesMatch
<1>14. QueuesSorted'
  BY <1>3, <1>7, <1>9 DEF MutexInv, QueuesSorted, Changed
<1>15. NothingLeftLocked'
  <2> SUFFICES ASSUME Cancelers = {} PROVE NothingLeftLocked'
    BY DEF NothingLeftLocked
  <2>1. /\ \A u \in Threads : call[u].op \in {"none", "lock"}
        /\ \A n \in Mutexes : Locked(mu, n) =>
             \E u \in Threads : holder[n] = u /\ (n \in holds[u] \/ call[u] = Calling("lock", n))
    BY DEF MutexInv, NothingLeftLocked
  <2>2. call[t] = NoCall /\ c = Calling("lock", m)
    BY <2>1, CallFacts
  <2>3. \A u \in Threads : call'[u].op \in {"none", "lock"}
    BY <2>1, <2>2, <1>5, CallFacts
  <2>4. ASSUME NEW n \in Mutexes, Locked(mu', n)
        PROVE  \E u \in Threads : holder'[n] = u /\ (n \in holds'[u] \/ call'[u] = Calling("lock", n))
    <3>1. PICK u \in Threads : holder[n] = u /\ (n \in holds[u] \/ call[u] = Calling("lock", n))
      BY <2>1, <2>4, <1>10
    <3>2. u = t => n \in holds[u]
      BY <3>1, <2>2, CallFacts
    <3> QED BY <3>1, <3>2, <1>1, <1>5
  <2> QED BY <2>3, <2>4 DEF NothingLeftLocked
<1> QED BY <1>3, <1>11, <1>12, <1>13, <1>14, <1>15 DEF MutexInv

\* t unlocks m: the first waiter, if there is one, has it now.
LEMMA GivesUpKeeps ==
  ASSUME MutexInv, NEW t \in Threads, NEW m \in holds[t], call[t] = NoCall,
         t \notin Asleep(k),
         mu' = [mu EXCEPT ![m] = Released(mu[m])],
         holder' = [holder EXCEPT ![m] = NextHolder(mu[m])],
         holds' = [holds EXCEPT ![t] = @ \ {m}],
         KernelAfter(k', IF Queue(mu, m) = << >> THEN Asleep(k)
                         ELSE Asleep(k) \ {Head(Queue(mu, m))}),
         UNCHANGED <<call, cancelled>>
  PROVE  MutexInv'
<1>1. m \in Mutexes /\ mu[m] \in Mutex_ts /\ Queue(mu, m) = mu[m].queue
  BY Types DEF Queue
<1>2. Locked(mu, m) /\ holder[m] = t
  BY <1>1 DEF MutexInv, HoldersAlone
<1>3. /\ \A u \in Threads, n \in Mutexes :
           Contains(Queue(mu, n), u) <=> u \in Asleep(k) /\ Waits(call, u, n)
      /\ \A n \in Mutexes : /\ Queue(mu, n) \in Seq(Threads) /\ NoDuplicates(Queue(mu, n))
                            /\ Queue(mu, n) # << >> => Locked(mu, n)
  BY Types DEF MutexInv, QueuesMatch
<1> DEFINE q == IF Queue(mu, m) = << >> THEN Queue(mu, m) ELSE Tail(Queue(mu, m))
           first == Head(Queue(mu, m))
<1>4. CASE Queue(mu, m) = << >>
  <2>1. /\ \A n \in Mutexes : Queue(mu', n) = Queue(mu, n)
        /\ \A n \in Mutexes : Locked(mu', n) <=> (n # m /\ Locked(mu, n))
        /\ mu' \in [Mutexes -> Mutex_ts]
    <3> DEFINE x == Released(mu[m])
    <3>1. x \in Mutex_ts /\ x.queue = mu[m].queue /\ x.locked = FALSE
      BY <1>1, <1>4 DEF Released, Mutex_ts
    <3> HIDE DEF x
    <3>2. /\ mu' \in [Mutexes -> Mutex_ts] /\ Changed(mu, mu', m)
          /\ Queue(mu', m) = x.queue /\ Locked(mu', m) = x.locked
      BY <1>1, <3>1, MutexSet DEF x
    <3> QED BY <1>1, <3>1, <3>2 DEF Changed
  <2>2. holder'[m] = NoThread /\ \A n \in Mutexes : n # m => holder'[n] = holder[n]
    BY <1>1, <1>4, Types DEF NextHolder
  <2>3. /\ holds' \in [Threads -> SUBSET Mutexes] /\ holder' \in [Mutexes -> Threads \cup {NoThread}]
        /\ \A u \in Threads : holds'[u] = IF u = t THEN holds[u] \ {m} ELSE holds[u]
    BY <1>1, <1>4, Types DEF NextHolder
  <2>4. KernelOK(k') /\ Asleep(k') = Asleep(k) /\ (Inherit \/ k'.prio = k.prio)
    BY <1>4 DEF KernelAfter
  <2>5. TypeOK'
    BY <2>1, <2>3, <2>4, Types DEF TypeOK, Mutex_ts, AllCalls, KernelOK, WellFormed
  <2>6. HoldersAlone'
    <3>1. ASSUME NEW u \in Threads, NEW n \in Mutexes, n \in holds'[u] \/ Given(u, n)'
          PROVE  Locked(mu', n) /\ holder'[n] = u
      <4>1. n \in holds'[u] \/ Given(u, n)
        BY <3>1, <2>1 DEF Given
      <4>2. Locked(mu, n) /\ holder[n] = u
        BY <4>1, <2>3 DEF MutexInv, HoldersAlone
      <4>3. n # m
        <5>1. ASSUME n = m PROVE FALSE
          <6>1. u = t
            BY <5>1, <4>2, <1>2
          <6>2. ~Given(t, m)
            BY CallFacts DEF Given, WillHave
          <6> QED BY <4>1, <5>1, <6>1, <6>2, <2>3
        <5> QED BY <5>1
      <4> QED BY <4>2, <4>3, <2>1, <2>2
    <3> QED BY <3>1 DEF HoldersAlone
  <2>7. QueuesMatch'
    BY <1>3, <1>4, <2>1, <2>4 DEF QueuesMatch
  <2>8. QueuesSorted'
    BY <2>1, <2>4 DEF MutexInv, QueuesSorted
  <2>9. NothingLeftLocked'
    <3> SUFFICES ASSUME Cancelers = {} PROVE NothingLeftLocked'
      BY DEF NothingLeftLocked
    <3>1. ASSUME NEW n \in Mutexes, Locked(mu', n)
          PROVE  \E u \in Threads : holder'[n] = u /\ (n \in holds'[u] \/ call'[u] = Calling("lock", n))
      <4>1. n # m /\ Locked(mu, n)
        BY <3>1, <2>1
      <4>2. PICK u \in Threads : holder[n] = u /\ (n \in holds[u] \/ call[u] = Calling("lock", n))
        BY <4>1 DEF MutexInv, NothingLeftLocked
      <4> QED BY <4>1, <4>2, <2>2, <2>3
    <3> QED BY <3>1 DEF MutexInv, NothingLeftLocked
  <2> QED BY <2>4, <2>5, <2>6, <2>7, <2>8, <2>9 DEF MutexInv
<1>5. CASE Queue(mu, m) # << >>
  <2>1. /\ q = Tail(Queue(mu, m)) /\ q \in Seq(Threads) /\ NoDuplicates(q)
        /\ first \in Threads /\ Contains(Queue(mu, m), first)
        /\ \A u : Contains(q, u) <=> (u # first /\ Contains(Queue(mu, m), u))
        /\ SortedBy(Queue(mu, m), k.prio) => SortedBy(q, k.prio)
    <3>1. Queue(mu, m) \in Seq(Threads) /\ NoDuplicates(Queue(mu, m))
      BY <1>1, <1>3
    <3>2. q = Tail(Queue(mu, m))
      BY <1>5
    <3> HIDE DEF q
    <3> QED BY <1>5, <3>1, <3>2, TailFacts, TailSorted
  <2>2. first \in Asleep(k) /\ Waits(call, first, m) /\ first # t
    BY <2>1, <1>1, <1>3
  <2>3. KernelOK(k') /\ Asleep(k') = Asleep(k) \ {first} /\ (Inherit \/ k'.prio = k.prio)
    BY <1>5 DEF KernelAfter
  <2>4. NextHolder(mu[m]) = first
    BY <1>1, <1>5 DEF NextHolder
  <2>5. /\ Released(mu[m]) \in Mutex_ts /\ Released(mu[m]).queue = q
        /\ Released(mu[m]).locked = mu[m].locked
    <3>1. Released(mu[m]) = [mu[m] EXCEPT !.queue = q]
      BY <1>1, <1>5 DEF Released
    <3> HIDE DEF q
    <3> QED BY <1>1, <2>1, <3>1 DEF Mutex_ts
  <2> HIDE DEF q, first
  <2>6. /\ mu' \in [Mutexes -> Mutex_ts] /\ Changed(mu, mu', m)
        /\ Queue(mu', m) = q /\ Locked(mu', m)
    BY <1>1, <1>2, <2>5, MutexSet DEF Locked
  <2>7. /\ \A n \in Mutexes : Locked(mu', n) <=> Locked(mu, n)
        /\ \A n \in Mutexes, u \in Threads :
             Contains(Queue(mu', n), u) <=> (~ (n = m /\ u = first) /\ Contains(Queue(mu, n), u))
    BY <1>2, <2>1, <2>6 DEF Changed
  <2>8. holder'[m] = first /\ \A n \in Mutexes : n # m => holder'[n] = holder[n]
    BY <1>1, <2>4, Types
  <2>9. /\ holds' \in [Threads -> SUBSET Mutexes] /\ holder' \in [Mutexes -> Threads \cup {NoThread}]
        /\ \A u \in Threads : holds'[u] = IF u = t THEN holds[u] \ {m} ELSE holds[u]
    BY <1>1, <2>1, <2>4, Types
  <2>10. TypeOK'
    BY <2>6, <2>9, <2>3, Types DEF TypeOK, Mutex_ts, AllCalls, KernelOK, WellFormed
  <2>11. HoldersAlone'
    <3>1. ASSUME NEW u \in Threads, NEW n \in Mutexes, n \in holds'[u] \/ Given(u, n)'
          PROVE  Locked(mu', n) /\ holder'[n] = u
      <4>1. CASE n = m /\ u = first
        BY <4>1, <2>6, <2>8
      <4>2. CASE ~ (n = m /\ u = first)
        <5>1. n \in holds'[u] \/ Given(u, n)
          BY <3>1, <4>2, <2>7 DEF Given
        <5>2. Locked(mu, n) /\ holder[n] = u
          BY <5>1, <2>9 DEF MutexInv, HoldersAlone
        <5>3. n # m
          <6>1. ASSUME n = m PROVE FALSE
            <7>1. u = t
              BY <6>1, <5>2, <1>2
            <7>2. ~Given(t, m)
              BY CallFacts DEF Given, WillHave
            <7> QED BY <5>1, <6>1, <7>1, <7>2, <2>9
          <6> QED BY <6>1
        <5> QED BY <5>2, <5>3, <2>7, <2>8
      <4> QED BY <4>1, <4>2
    <3> QED BY <3>1 DEF HoldersAlone
  <2>12. QueuesMatch'
    <3>1. ASSUME NEW u \in Threads, NEW n \in Mutexes
          PROVE  Contains(Queue(mu', n), u) <=> u \in Asleep(k') /\ Waits(call', u, n)
      <4>1. CASE u = first
        <5>1. Waits(call, u, n) => n = m
          BY <4>1, <2>2, CallFacts DEF Waits
        <5> QED BY <4>1, <5>1, <1>3, <2>3, <2>7
      <4>2. CASE u # first
        BY <4>2, <1>3, <2>3, <2>7
      <4> QED BY <4>1, <4>2
    <3>2. \A n \in Mutexes :
            NoDuplicates(Queue(mu', n)) /\ (Queue(mu', n) # << >> => Locked(mu', n))
      BY <1>3, <2>1, <2>6, <2>7 DEF Changed
    <3> QED BY <3>1, <3>2 DEF QueuesMatch
  <2>13. QueuesSorted'
    BY <1>1, <2>1, <2>3, <2>6 DEF MutexInv, QueuesSorted, Changed
  <2>14. NothingLeftLocked'
    <3> SUFFICES ASSUME Cancelers = {} PROVE NothingLeftLocked'
      BY DEF NothingLeftLocked
    <3>0. \A u \in Threads : call[u].op \in {"none", "lock"}
      BY DEF MutexInv, NothingLeftLocked
    <3>1. ASSUME NEW n \in Mutexes, Locked(mu', n)
          PROVE  \E u \in Threads : holder'[n] = u /\ (n \in holds'[u] \/ call'[u] = Calling("lock", n))
      <4>1. CASE n = m
        <5>1. call[first] = Calling("lock", m)
          BY <2>1, <2>2, <3>0, CallFacts DEF Waits
        <5> QED BY <4>1, <5>1, <2>1, <2>8
      <4>2. CASE n # m
        <5>1. Locked(mu, n)
          BY <3>1, <2>7
        <5>2. PICK u \in Threads : holder[n] = u /\ (n \in holds[u] \/ call[u] = Calling("lock", n))
          BY <5>1 DEF MutexInv, NothingLeftLocked
        <5> QED BY <4>2, <5>2, <2>8, <2>9
      <4> QED BY <4>1, <4>2
    <3> QED BY <3>0, <3>1 DEF NothingLeftLocked
  <2> QED BY <2>3, <2>10, <2>11, <2>12, <2>13, <2>14 DEF MutexInv
<1> QED BY <1>4, <1>5

\* The kernel may change, if no waiter wakes or sleeps.
LEMMA KernelKeeps ==
  ASSUME MutexInv, KernelAfter(k', Asleep(k)), UNCHANGED mutexVars
  PROVE  MutexInv'
<1>1. KernelOK(k') /\ Asleep(k') = Asleep(k) /\ (Inherit \/ k'.prio = k.prio)
  BY DEF KernelAfter
<1>2. TypeOK'
  BY <1>1 DEF MutexInv, TypeOK, mutexVars, KernelOK, WellFormed
<1>3. HoldersAlone' /\ QueuesMatch'
  BY <1>1 DEF MutexInv, HoldersAlone, Given, QueuesMatch, mutexVars
<1>4. QueuesSorted' /\ NothingLeftLocked'
  BY <1>1 DEF MutexInv, QueuesSorted, NothingLeftLocked, mutexVars
<1> QED BY <1>1, <1>2, <1>3, <1>4 DEF MutexInv

\* t goes from one place outside its waits to another.
LEMMA PlaceKeeps ==
  ASSUME MutexInv, NEW t \in Threads, NEW c \in AllCalls, call' = [call EXCEPT ![t] = c],
         \A m \in Mutexes : ~Waits(call, t, m) /\ ~Waits(call', t, m),
         c.op \in {"none", "lock"} \/ Cancelers # {},
         cancelled' \in [Threads -> BOOLEAN],
         \A u \in Threads : u # t => cancelled'[u] = cancelled[u],
         UNCHANGED <<k, mu, holds, holder>>
  PROVE  MutexInv'
<1>1. /\ call' \in [Threads -> AllCalls] /\ call'[t] = c
      /\ \A u \in Threads : u # t => call'[u] = call[u]
  BY CallSet
<1>2. TypeOK'
  BY <1>1 DEF MutexInv, TypeOK, AllCalls
<1>3. \A u \in Threads, m \in Mutexes : Waits(call', u, m) <=> Waits(call, u, m)
  BY <1>1 DEF Waits
<1>4. \A u \in Threads, m \in Mutexes : Given(u, m)' <=> Given(u, m)
  <2> TAKE u \in Threads, m \in Mutexes
  <2>1. CASE u = t
    BY <2>1, WaitsFacts DEF Given
  <2>2. CASE u # t
    BY <2>2, <1>1 DEF Given, WillHave
  <2> QED BY <2>1, <2>2
<1>5. HoldersAlone'
  BY <1>4 DEF MutexInv, HoldersAlone
<1>6. QueuesMatch' /\ QueuesSorted'
  BY <1>3 DEF MutexInv, QueuesMatch, QueuesSorted
<1>7. NothingLeftLocked'
  <2> SUFFICES ASSUME Cancelers = {} PROVE NothingLeftLocked'
    BY DEF NothingLeftLocked
  <2>1. \A u \in Threads : call'[u].op \in {"none", "lock"}
    BY <1>1 DEF MutexInv, NothingLeftLocked
  <2>2. \A m \in Mutexes, u \in Threads : call[u] = Calling("lock", m) => call'[u] = Calling("lock", m)
    BY <1>1 DEF Waits
  <2> QED BY <2>1, <2>2 DEF MutexInv, NothingLeftLocked
<1> QED BY <1>2, <1>5, <1>6, <1>7 DEF MutexInv

\* A call names the mutex it is about.
LEMMA CallShape ==
  ASSUME MutexInv, NEW t \in Threads
  PROVE  /\ call[t].op = "none" <=> call[t] = NoCall
         /\ call[t].op # "none" =>
              call[t].m \in Mutexes /\ call[t] = Calling(call[t].op, call[t].m) /\ call[t].op \in Ops
<1>1. call[t] \in AllCalls
  BY Types
<1>2. CASE call[t] = NoCall
  BY <1>2, CallFacts
<1>3. CASE call[t] # NoCall
  <2>1. PICK op \in Ops, m \in Mutexes : call[t] = Calling(op, m)
    BY <1>1, <1>3 DEF AllCalls
  <2>2. op # "none"
    BY DEF Ops
  <2> QED BY <2>1, <2>2, CallFacts
<1> QED BY <1>2, <1>3

\* The wait of t in a call for m is over, and t runs: it has m, or was cancelled.
LEMMA ResumeKeeps ==
  ASSUME MutexInv, NEW t \in Threads, NEW m \in Mutexes, t \notin Asleep(k), Waits(call, t, m),
         NEW c \in {NoCall, Calling("disarm", m)}, call' = [call EXCEPT ![t] = c],
         call[t] = Calling("lock", m) => c = NoCall,
         holds' = IF WillHave(call, cancelled, t, m)
                  THEN [holds EXCEPT ![t] = @ \cup {m}] ELSE holds,
         UNCHANGED <<k, mu, cancelled, holder>>
  PROVE  MutexInv'
<1>1. c \in AllCalls
  BY DEF AllCalls, Ops
<1>2. /\ call' \in [Threads -> AllCalls] /\ call'[t] = c
      /\ \A u \in Threads : u # t => call'[u] = call[u]
  BY <1>1, CallSet
<1>3. \A cc : \A n \in Mutexes : ~Waits(call', t, n) /\ ~WillHave(call', cc, t, n)
  BY <1>2, NotWaiting
<1>4. \A cc : \A u \in Threads, n \in Mutexes :
        u # t => /\ Waits(call', u, n) <=> Waits(call, u, n)
                 /\ WillHave(call', cc, u, n) <=> WillHave(call, cc, u, n)
  BY <1>2 DEF Waits, WillHave
<1>5. \A n \in Mutexes : ~Contains(Queue(mu, n), t)
  BY DEF MutexInv, QueuesMatch
<1>6. WillHave(call, cancelled, t, m) => Locked(mu, m) /\ holder[m] = t
  BY <1>5 DEF MutexInv, HoldersAlone, Given
<1>7. /\ holds' \in [Threads -> SUBSET Mutexes]
      /\ \A u \in Threads, n \in Mutexes :
           n \in holds'[u] <=> (n \in holds[u] \/ (u = t /\ n = m /\ WillHave(call, cancelled, t, m)))
  <2>1. CASE WillHave(call, cancelled, t, m)
    BY <2>1, Types
  <2>2. CASE ~WillHave(call, cancelled, t, m)
    BY <2>2, Types
  <2> QED BY <2>1, <2>2
<1>8. TypeOK'
  BY <1>2, <1>7 DEF MutexInv, TypeOK, AllCalls
<1>9. HoldersAlone'
  <2>1. ASSUME NEW u \in Threads, NEW n \in Mutexes, n \in holds'[u] \/ Given(u, n)'
        PROVE  Locked(mu', n) /\ holder'[n] = u
    <3>1. CASE u = t /\ n = m /\ WillHave(call, cancelled, t, m)
      BY <3>1, <1>6
    <3>2. CASE n \in holds[u]
      BY <3>2 DEF MutexInv, HoldersAlone
    <3>3. CASE Given(u, n)'
      <4>1. u # t
        BY <3>3, <1>3 DEF Given
      <4>2. Given(u, n)
        BY <3>3, <4>1, <1>4 DEF Given
      <4> QED BY <4>2 DEF MutexInv, HoldersAlone
    <3> QED BY <2>1, <3>1, <3>2, <3>3, <1>7
  <2> QED BY <2>1 DEF HoldersAlone
<1>10. QueuesMatch'
  <2>1. ASSUME NEW u \in Threads, NEW n \in Mutexes
        PROVE  Contains(Queue(mu', n), u) <=> u \in Asleep(k') /\ Waits(call', u, n)
    <3>1. Contains(Queue(mu, n), u) <=> u \in Asleep(k) /\ Waits(call, u, n)
      BY DEF MutexInv, QueuesMatch
    <3> QED BY <3>1, <1>3, <1>4
  <2> QED BY <2>1 DEF MutexInv, QueuesMatch
<1>11. QueuesSorted'
  BY DEF MutexInv, QueuesSorted
<1>12. NothingLeftLocked'
  <2> SUFFICES ASSUME Cancelers = {} PROVE NothingLeftLocked'
    BY DEF NothingLeftLocked
  <2>1. /\ \A u \in Threads : call[u].op \in {"none", "lock"}
        /\ \A n \in Mutexes : Locked(mu, n) =>
             \E u \in Threads : holder[n] = u /\ (n \in holds[u] \/ call[u] = Calling("lock", n))
    BY DEF MutexInv, NothingLeftLocked
  <2>2. call[t] = Calling("lock", m) /\ c = NoCall
    BY <2>1, CallFacts DEF Waits
  <2>3. \A u \in Threads : call'[u].op \in {"none", "lock"}
    BY <2>1, <2>2, <1>2, CallFacts
  <2>4. ASSUME NEW n \in Mutexes, Locked(mu', n)
        PROVE  \E u \in Threads : holder'[n] = u /\ (n \in holds'[u] \/ call'[u] = Calling("lock", n))
    <3>1. PICK u \in Threads : holder[n] = u /\ (n \in holds[u] \/ call[u] = Calling("lock", n))
      BY <2>1, <2>4
    <3>2. CASE u = t /\ n \notin holds[u]
      <4>1. n = m
        BY <3>1, <3>2, <2>2, CallFacts
      <4>2. WillHave(call, cancelled, t, m)
        BY <2>2 DEF WillHave
      <4> QED BY <3>1, <3>2, <4>1, <4>2, <1>7
    <3>3. CASE u # t \/ n \in holds[u]
      BY <3>1, <3>3, <1>2, <1>7
    <3> QED BY <3>2, <3>3
  <2> QED BY <2>3, <2>4 DEF NothingLeftLocked
<1> QED BY <1>8, <1>9, <1>10, <1>11, <1>12 DEF MutexInv

\* The timer of t fires: t leaves the queue of the mutex it waits for.
LEMMA CancelKeeps ==
  ASSUME MutexInv, NEW t \in Threads, NEW m \in Mutexes, Contains(Queue(mu, m), t),
         call[t].op \in Ops \ {"lock"},
         cancelled' = [cancelled EXCEPT ![t] = TRUE],
         mu' = [mu EXCEPT ![m].queue = RemoveFirst(@, t)],
         KernelAfter(k', Asleep(k) \ {t}),
         UNCHANGED <<call, holds, holder>>
  PROVE  MutexInv'
<1>1. KernelOK(k') /\ Asleep(k') = Asleep(k) \ {t} /\ (Inherit \/ k'.prio = k.prio)
  BY DEF KernelAfter
<1> DEFINE q == RemoveFirst(Queue(mu, m), t)
<1>2. /\ q \in Seq(Threads) /\ NoDuplicates(q)
      /\ \A u : Contains(q, u) <=> (u # t /\ Contains(Queue(mu, m), u))
      /\ SortedBy(Queue(mu, m), k.prio) => SortedBy(q, k.prio)
  <2>1. Queue(mu, m) \in Seq(Threads) /\ NoDuplicates(Queue(mu, m))
    BY Types DEF MutexInv, QueuesMatch
  <2> QED BY <2>1, RemoveFirstFacts, RemoveSorted
<1>3. /\ mu' \in [Mutexes -> Mutex_ts] /\ Changed(mu, mu', m)
      /\ Queue(mu', m) = q /\ Locked(mu', m) = Locked(mu, m)
  <2> DEFINE x == [mu[m] EXCEPT !.queue = q]
  <2>1. mu \in [Mutexes -> Mutex_ts] /\ mu[m] \in Mutex_ts /\ mu' = [mu EXCEPT ![m] = x]
    BY Types DEF Queue
  <2> HIDE DEF q
  <2>2. x \in Mutex_ts /\ x.queue = q /\ x.locked = mu[m].locked
    BY <1>2, <2>1 DEF Mutex_ts
  <2> HIDE DEF x
  <2> QED BY <2>1, <2>2, MutexSet DEF Locked
<1> HIDE DEF q
<1>4. /\ \A n \in Mutexes : Locked(mu', n) <=> Locked(mu, n)
      /\ \A n \in Mutexes, u \in Threads :
           Contains(Queue(mu', n), u) <=> (~ (n = m /\ u = t) /\ Contains(Queue(mu, n), u))
  BY <1>2, <1>3 DEF Changed
<1>5. /\ cancelled' \in [Threads -> BOOLEAN] /\ cancelled'[t] = TRUE
      /\ \A u \in Threads : u # t => cancelled'[u] = cancelled[u]
  BY Types
<1>6. TypeOK'
  BY <1>1, <1>3, <1>5, Types DEF TypeOK, Mutex_ts, AllCalls, KernelOK, WellFormed
<1>7. HoldersAlone'
  <2>1. ASSUME NEW u \in Threads, NEW n \in Mutexes, n \in holds'[u] \/ Given(u, n)'
        PROVE  Locked(mu', n) /\ holder'[n] = u
    <3>1. ~Given(t, n)'
      <4>1. call[t] # Calling("lock", n)
        BY CallFacts
      <4> QED BY <4>1, <1>5 DEF Given, WillHave
    <3>2. u # t /\ Given(u, n)' => Given(u, n)
      BY <1>4, <1>5 DEF Given, WillHave
    <3>3. Locked(mu, n) /\ holder[n] = u
      BY <2>1, <3>1, <3>2 DEF MutexInv, HoldersAlone
    <3> QED BY <3>3, <1>4
  <2> QED BY <2>1 DEF HoldersAlone
<1>8. QueuesMatch'
  <2>1. ASSUME NEW u \in Threads, NEW n \in Mutexes
        PROVE  Contains(Queue(mu', n), u) <=> u \in Asleep(k') /\ Waits(call', u, n)
    <3>1. Contains(Queue(mu, n), u) <=> u \in Asleep(k) /\ Waits(call, u, n)
      BY DEF MutexInv, QueuesMatch
    <3>2. CASE u = t
      <4>1. Waits(call, t, m) /\ (Waits(call, t, n) => n = m)
        BY CallFacts DEF MutexInv, QueuesMatch, Waits
      <4> QED BY <3>1, <3>2, <4>1, <1>1, <1>4
    <3>3. CASE u # t
      BY <3>1, <3>3, <1>1, <1>4 DEF Waits
    <3> QED BY <3>2, <3>3
  <2>2. \A n \in Mutexes :
          NoDuplicates(Queue(mu', n)) /\ (Queue(mu', n) # << >> => Locked(mu', n))
    <3> TAKE n \in Mutexes
    <3>1. NoDuplicates(Queue(mu, n)) /\ (Queue(mu, n) # << >> => Locked(mu, n))
      BY DEF MutexInv, QueuesMatch
    <3>2. Queue(mu, m) # << >>
      BY DEF Contains
    <3> QED BY <3>1, <3>2, <1>2, <1>3 DEF Changed, MutexInv, QueuesMatch
  <2> QED BY <2>1, <2>2 DEF QueuesMatch
<1>9. QueuesSorted'
  BY <1>1, <1>2, <1>3 DEF MutexInv, QueuesSorted, Changed
<1>10. NothingLeftLocked'
  <2> SUFFICES ASSUME Cancelers = {} PROVE FALSE
    BY DEF NothingLeftLocked
  <2> QED BY DEF MutexInv, NothingLeftLocked, Ops
<1> QED BY <1>1, <1>6, <1>7, <1>8, <1>9, <1>10 DEF MutexInv

\* The timer of t fires, and t is not in the queue: only the mark changes.
LEMMA MarkKeeps ==
  ASSUME MutexInv, NEW t \in Threads, call[t].op \in Ops \ {"lock"},
         \A m \in Mutexes : ~Contains(Queue(mu, m), t),
         cancelled' = [cancelled EXCEPT ![t] = TRUE],
         UNCHANGED <<k, mu, call, holds, holder>>
  PROVE  MutexInv'
<1>1. /\ cancelled' \in [Threads -> BOOLEAN] /\ cancelled'[t] = TRUE
      /\ \A u \in Threads : u # t => cancelled'[u] = cancelled[u]
  BY Types
<1>2. TypeOK'
  BY <1>1 DEF MutexInv, TypeOK
<1>3. ASSUME NEW u \in Threads, NEW m \in Mutexes, Given(u, m)'
      PROVE  Given(u, m)
  <2>1. u # t
    BY <1>1, <1>3, CallFacts DEF Given, WillHave
  <2> QED BY <1>1, <1>3, <2>1 DEF Given, WillHave
<1>4. HoldersAlone'
  BY <1>3 DEF MutexInv, HoldersAlone
<1>5. QueuesMatch' /\ QueuesSorted' /\ NothingLeftLocked'
  BY DEF MutexInv, QueuesMatch, QueuesSorted, NothingLeftLocked
<1> QED BY <1>2, <1>4, <1>5 DEF MutexInv

(***************************************************************************)
(* The steps.                                                              *)
(***************************************************************************)

LEMMA LockKeeps ==
  ASSUME MutexInv, NEW t \in Threads, NEW m \in Mutexes, Lock(t, m)
  PROVE  MutexInv'
<1>1. Calls(k, t) /\ call[t] = NoCall /\ UNCHANGED cancelled
  BY DEF Lock, Free
<1>2. CASE Takes(t, m) /\ UNCHANGED call
  <2>1. call' = [call EXCEPT ![t] = NoCall]
    BY <1>1, <1>2, Types
  <2> QED BY <1>1, <1>2, <2>1, TakesKeeps
<1>3. CASE BlocksOn(t, m) /\ call' = [call EXCEPT ![t] = Calling("lock", m)]
  BY <1>1, <1>3, BlocksKeeps
<1> QED BY <1>2, <1>3 DEF Lock

LEMMA LockCancelableKeeps ==
  ASSUME MutexInv, NEW t \in Threads, NEW m \in Mutexes, LockCancelable(t, m)
  PROVE  MutexInv'
<1>1. Calls(k, t) /\ call[t] = Calling("armed", m) /\ UNCHANGED cancelled
  BY DEF LockCancelable
<1>2. call[t] # NoCall
  BY <1>1, CallFacts
<1>3. CASE cancelled[t] /\ call' = [call EXCEPT ![t] = NoCall] /\ UNCHANGED <<k, mu, holds, holder>>
  <2>1. call'[t] = NoCall
    BY <1>3, Types
  <2>2. \A n \in Mutexes : ~Waits(call, t, n) /\ ~Waits(call', t, n)
    BY <1>1, <2>1, NotWaiting
  <2>3. NoCall \in AllCalls /\ NoCall.op \in {"none", "lock"}
    BY CallFacts DEF AllCalls
  <2>4. cancelled' \in [Threads -> BOOLEAN]
    BY <1>1, Types
  <2> QED BY <1>1, <1>3, <2>2, <2>3, <2>4, PlaceKeeps
<1>4. CASE ~cancelled[t] /\ Takes(t, m) /\ call' = [call EXCEPT ![t] = Calling("disarm", m)]
  BY <1>1, <1>2, <1>4, TakesKeeps
<1>5. CASE ~cancelled[t] /\ BlocksOn(t, m) /\ call' = [call EXCEPT ![t] = Calling("cancelable", m)]
  BY <1>1, <1>2, <1>5, BlocksKeeps
<1> QED BY <1>3, <1>4, <1>5 DEF LockCancelable

LEMMA ArmKeeps ==
  ASSUME MutexInv, NEW t \in Threads, NEW m \in Mutexes, Arm(t, m)
  PROVE  MutexInv'
<1> DEFINE c == Calling("armed", m)
<1>1. /\ call[t] = NoCall /\ Cancelers # {}
      /\ call' = [call EXCEPT ![t] = c] /\ cancelled' = [cancelled EXCEPT ![t] = FALSE]
      /\ UNCHANGED <<k, mu, holds, holder>>
  BY DEF Arm, Free
<1>2. c \in AllCalls
  BY DEF AllCalls, Ops
<1>3. call'[t] = c
  BY <1>1, <1>2, CallSet
<1>4. \A n \in Mutexes : ~Waits(call, t, n) /\ ~Waits(call', t, n)
  BY <1>1, <1>3, NotWaiting
<1>5. /\ cancelled' \in [Threads -> BOOLEAN]
      /\ \A u \in Threads : u # t => cancelled'[u] = cancelled[u]
  BY <1>1, Types
<1> HIDE DEF c
<1> QED BY <1>1, <1>2, <1>4, <1>5, PlaceKeeps

LEMMA DisarmKeeps ==
  ASSUME MutexInv, NEW t \in Threads, Disarm(t)
  PROVE  MutexInv'
<1>1. /\ call[t].op = "disarm" /\ call' = [call EXCEPT ![t] = NoCall]
      /\ UNCHANGED <<k, mu, cancelled, holds, holder>>
  BY DEF Disarm
<1>2. call[t] = Calling("disarm", call[t].m)
  BY <1>1, CallShape
<1>3. call'[t] = NoCall
  BY <1>1, Types
<1>4. \A n \in Mutexes : ~Waits(call, t, n) /\ ~Waits(call', t, n)
  BY <1>2, <1>3, NotWaiting
<1>5. NoCall \in AllCalls /\ NoCall.op \in {"none", "lock"}
  BY CallFacts DEF AllCalls
<1>6. cancelled' \in [Threads -> BOOLEAN]
  BY <1>1, Types
<1> QED BY <1>1, <1>4, <1>5, <1>6, PlaceKeeps

LEMMA ResumeStep ==
  ASSUME MutexInv, NEW t \in Threads, Resume(t)
  PROVE  MutexInv'
<1> DEFINE m == call[t].m
<1>1. KernelOK(k) /\ Calls(k, t) /\ UNCHANGED <<k, mu, cancelled, holder>>
  BY DEF MutexInv, Resume
<1>2. t \notin Asleep(k)
  BY <1>1, CallersAreAwake
<1>3. m \in Mutexes /\ call[t] = Calling(call[t].op, m) /\ call[t].op \in {"lock", "cancelable"}
  BY CallShape DEF Resume
<1>4. Waits(call, t, m)
  BY <1>3 DEF Waits
<1>5. WillHave(call, cancelled, t, m) <=> (call[t].op = "lock" \/ ~cancelled[t])
  BY <1>3, CallFacts DEF WillHave
<1> HIDE DEF m
<1>6. CASE call[t].op = "lock"
  BY <1>1, <1>2, <1>3, <1>4, <1>5, <1>6, ResumeKeeps DEF Resume, m
<1>7. CASE call[t].op = "cancelable" /\ cancelled[t]
  BY <1>1, <1>2, <1>3, <1>4, <1>5, <1>7, ResumeKeeps, CallFacts DEF Resume, m
<1>8. CASE call[t].op = "cancelable" /\ ~cancelled[t]
  BY <1>1, <1>2, <1>3, <1>4, <1>5, <1>8, ResumeKeeps, CallFacts DEF Resume, m
<1> QED BY <1>3, <1>6, <1>7, <1>8

LEMMA UnlockKeeps ==
  ASSUME MutexInv, NEW t \in Threads, NEW m \in Mutexes, Unlock(t, m)
  PROVE  MutexInv'
<1>1. /\ KernelOK(k) /\ Calls(k, t) /\ call[t] = NoCall /\ m \in holds[t]
      /\ k' = Ends(UnlockOn(k, mu[m]), t, IF mu[m].queue = << >> THEN NoTail ELSE YieldHigher)
      /\ mu' = [mu EXCEPT ![m] = Released(mu[m])]
      /\ holder' = [holder EXCEPT ![m] = NextHolder(mu[m])]
      /\ holds' = [holds EXCEPT ![t] = @ \ {m}]
      /\ UNCHANGED <<call, cancelled>>
  BY DEF MutexInv, Unlock, Free
<1>2. t \notin Asleep(k) /\ mu[m] \in Mutex_ts /\ Queue(mu, m) = mu[m].queue
  BY <1>1, CallersAreAwake, Types DEF Queue
<1>3. KernelAfter(k', IF Queue(mu, m) = << >> THEN Asleep(k) ELSE Asleep(k) \ {Head(Queue(mu, m))})
  <2>1. CASE Queue(mu, m) = << >>
    <3>1. k' = Ends(k, t, NoTail)
      BY <1>1, <1>2, <2>1 DEF UnlockOn
    <3> QED BY <1>1, <2>1, <3>1, YieldKernel, TailTypes
  <2>2. CASE Queue(mu, m) # << >>
    <3>1. k' = Ends(UnlockOn(k, mu[m]), t, YieldHigher)
      BY <1>1, <1>2, <2>2
    <3>2. Head(mu[m].queue) \in Threads
      BY <1>2, <2>2 DEF Mutex_ts
    <3> QED BY <1>1, <1>2, <2>2, <3>1, <3>2, UnlockKernel
  <2> QED BY <2>1, <2>2
<1> QED BY <1>1, <1>2, <1>3, GivesUpKeeps

LEMMA UnlockAndSleepKeeps ==
  ASSUME MutexInv, NEW t \in Threads, NEW m \in Mutexes, UnlockAndSleep(t, m)
  PROVE  MutexInv'
<1> DEFINE n == IF mu[m].queue = << >> THEN k ELSE SetStatus(k, Head(mu[m].queue), "pending")
<1>1. /\ KernelOK(k) /\ Calls(k, t) /\ call[t] = NoCall /\ m \in holds[t]
      /\ k' = Ends(SetStatus(n, t, "sleeping"), t, YieldHigher)
      /\ mu' = [mu EXCEPT ![m] = Released(mu[m])]
      /\ holder' = [holder EXCEPT ![m] = NextHolder(mu[m])]
      /\ holds' = [holds EXCEPT ![t] = @ \ {m}]
      /\ UNCHANGED <<call, cancelled>>
  BY DEF MutexInv, UnlockAndSleep, Free
<1>2. t \notin Asleep(k) /\ mu[m] \in Mutex_ts /\ Queue(mu, m) = mu[m].queue
  BY <1>1, CallersAreAwake, Types DEF Queue
<1>3. /\ WellFormed(n) /\ InSection(n, k) /\ n.prio = k.prio
      /\ Asleep(n) = IF Queue(mu, m) = << >> THEN Asleep(k) ELSE Asleep(k) \ {Head(Queue(mu, m))}
  <2>1. CASE Queue(mu, m) = << >>
    <3>1. n = k
      BY <1>2, <2>1
    <3> HIDE DEF n
    <3> QED BY <1>1, <2>1, <3>1, SectionStarts DEF KernelOK
  <2>2. CASE Queue(mu, m) # << >>
    <3> DEFINE u == Head(Queue(mu, m))
    <3>1. n = SetStatus(k, u, "pending") /\ u \in Threads
      BY <1>2, <2>2 DEF Mutex_ts
    <3> HIDE DEF n, u
    <3>2. "pending" \in (Blocked \cup OnRunqueue) \ {"running"}
      BY DEF OnRunqueue
    <3>3. /\ WellFormed(n) /\ InSection(n, k) /\ OnlyStatus(n, k, u, "pending")
          /\ \A v \in Threads : n.status[v] = IF v = u THEN "pending" ELSE k.status[v]
      BY <1>1, <3>1, <3>2, SectionStatus, SectionStarts DEF KernelOK
    <3>4. Asleep(n) = Asleep(k) \ {u}
      BY <3>3 DEF Asleep
    <3> QED BY <2>2, <3>3, <3>4 DEF OnlyStatus, u
  <2> QED BY <2>1, <2>2
<1> HIDE DEF n
<1>4. KernelAfter(k', IF Queue(mu, m) = << >> THEN Asleep(k) ELSE Asleep(k) \ {Head(Queue(mu, m))})
  <2>1. KernelOK(k') /\ k'.prio = k.prio /\ Asleep(k') = Asleep(n) \ {t}
    BY <1>1, <1>3, SleepKernel
  <2>2. t \notin Asleep(n)
    BY <1>2, <1>3
  <2> QED BY <1>3, <2>1, <2>2 DEF KernelAfter
<1> QED BY <1>1, <1>2, <1>4, GivesUpKeeps

LEMMA CancelStep ==
  ASSUME MutexInv, NEW t \in Threads, Cancel(t)
  PROVE  MutexInv'
<1> DEFINE m == call[t].m
<1>1. /\ KernelOK(k) /\ call[t].op \in Ops \ {"lock"}
      /\ cancelled' = [cancelled EXCEPT ![t] = TRUE]
      /\ UNCHANGED <<call, holds, holder>>
  BY DEF MutexInv, Cancel
<1>2. m \in Mutexes /\ call[t] = Calling(call[t].op, m)
  BY <1>1, CallShape DEF Ops
<1>3. CASE ~IsReady(k, t) /\ Contains(mu[m].queue, t)
  <2>1. /\ mu' = [mu EXCEPT ![m].queue = RemoveFirst(@, t)]
        /\ k' = IsrEnd(IsrSwitch(SetStatus(k, t, "pending"), k.prio[t]))
    BY <1>3 DEF Cancel
  <2>2. KernelAfter(k', Asleep(k) \ {t})
    BY <1>1, <2>1, WakeKernel
  <2>3. Contains(Queue(mu, m), t)
    BY <1>3 DEF Queue
  <2> HIDE DEF m
  <2> QED BY <1>1, <1>2, <2>1, <2>2, <2>3, CancelKeeps
<1>4. CASE ~ (~IsReady(k, t) /\ Contains(mu[m].queue, t))
  <2>1. UNCHANGED <<k, mu>>
    BY <1>4 DEF Cancel
  <2>2. ASSUME NEW n \in Mutexes, Contains(Queue(mu, n), t)
        PROVE  FALSE
    <3>1. t \in Asleep(k) /\ Waits(call, t, n)
      BY <2>2 DEF MutexInv, QueuesMatch
    <3>2. n = m
      BY <3>1, CallFacts DEF Waits
    <3>3. ~IsReady(k, t)
      BY <3>1 DEF Asleep, IsReady, OnRunqueue
    <3> QED BY <1>4, <2>2, <3>2, <3>3 DEF Queue
  <2> QED BY <1>1, <2>1, <2>2, MarkKeeps
<1> QED BY <1>3, <1>4

LEMMA IsrWakeupKeeps ==
  ASSUME MutexInv, NEW t \in Threads, IsrWakeup(t)
  PROVE  MutexInv'
<1>1. KernelOK(k) /\ KernelAfter(k', Asleep(k) \ {t})
  BY WakeKernel DEF MutexInv, IsrWakeup
<1>2. Asleep(k) \ {t} = Asleep(k)
  BY DEF IsrWakeup, Asleep
<1> QED BY <1>1, <1>2, KernelKeeps DEF IsrWakeup

LEMMA YieldsKeeps ==
  ASSUME MutexInv, NEW t \in Threads, Yields(t)
  PROVE  MutexInv'
<1>1. KernelOK(k) /\ Calls(k, t) /\ k' = Ends(k, t, Yield) /\ UNCHANGED mutexVars
  BY DEF MutexInv, Yields, Free
<1>2. KernelAfter(k', Asleep(k))
  BY <1>1, YieldKernel, TailTypes
<1> QED BY <1>1, <1>2, KernelKeeps

LEMMA RescheduleKeeps ==
  ASSUME MutexInv, NEW t \in Threads, Reschedule(t)
  PROVE  MutexInv'
<1>1. /\ KernelOK(k) /\ Executes(k, t) /\ k.tail[t] # NoTail
      /\ k' = TailCall(k, t) /\ UNCHANGED mutexVars
  BY DEF MutexInv, Reschedule
<1>2. KernelOK(k') /\ Scheduled(k', k)
  BY <1>1, TailCallOK
<1>3. KernelAfter(k', Asleep(k))
  BY <1>2, SchedulingKeeps DEF KernelAfter
<1> QED BY <1>1, <1>3, KernelKeeps

LEMMA MutexStep ==
  ASSUME MutexInv, [Next]_vars
  PROVE  MutexInv'
<1>1. ASSUME NEW t \in Threads, NEW m \in Mutexes,
             Lock(t, m) \/ Unlock(t, m) \/ UnlockAndSleep(t, m) \/ Arm(t, m) \/ LockCancelable(t, m)
      PROVE  MutexInv'
  BY <1>1, LockKeeps, UnlockKeeps, UnlockAndSleepKeeps, ArmKeeps, LockCancelableKeeps
<1>2. ASSUME NEW t \in Threads,
             Resume(t) \/ Disarm(t) \/ Yields(t) \/ Reschedule(t) \/ Cancel(t) \/ IsrWakeup(t)
      PROVE  MutexInv'
  BY <1>2, ResumeStep, DisarmKeeps, YieldsKeeps, RescheduleKeeps, CancelStep, IsrWakeupKeeps
<1>3. CASE UNCHANGED vars
  BY <1>3 DEF vars, mutexVars, MutexInv, TypeOK, HoldersAlone, Given, QueuesMatch,
              QueuesSorted, NothingLeftLocked
<1> QED BY <1>1, <1>2, <1>3 DEF Next

(***************************************************************************)
(* The first state.                                                        *)
(***************************************************************************)

\* A finite set can be listed.
LEMMA MutexInit == Init => MutexInv
<1> SUFFICES ASSUME Init PROVE MutexInv
  OBVIOUS
<1>1. KernelOK(k) /\ Asleep(k) = {}
  <2>1. KernelOK(k) /\ \A t \in Threads : IsReady(k, t)
    BY MutexPartsOK, BootedOK DEF Init
  <2> QED BY <2>1 DEF Asleep, IsReady, OnRunqueue
<1>2. /\ mu = [m \in Mutexes |-> Unlocked] /\ call = [t \in Threads |-> NoCall]
      /\ cancelled = [t \in Threads |-> FALSE]
      /\ holds = [t \in Threads |-> {}] /\ holder = [m \in Mutexes |-> NoThread]
  BY DEF Init
<1>3. Unlocked \in Mutex_ts /\ Unlocked.queue = << >> /\ Unlocked.locked = FALSE
  <2>1. Min(Prios) \in Prios
    BY PriosAreLevels, MinOfNaturals
  <2> QED BY <2>1 DEF Unlocked, Mutex_ts
<1> HIDE DEF Unlocked
<1>4. \A m \in Mutexes : Queue(mu, m) = << >> /\ ~Locked(mu, m)
  BY <1>2, <1>3 DEF Queue, Locked
<1>5. \A t \in Threads, m \in Mutexes : ~Waits(call, t, m) /\ ~Given(t, m)
  BY <1>2, NotWaiting DEF Given
<1>6. TypeOK
  BY <1>1, <1>2, <1>3 DEF TypeOK, Mutex_ts, KernelOK, WellFormed
<1>7. HoldersAlone
  BY <1>2, <1>5 DEF HoldersAlone
<1>8. QueuesMatch
  BY <1>1, <1>4 DEF QueuesMatch, Contains, NoDuplicates
<1>9. QueuesSorted
  BY <1>4 DEF QueuesSorted, SortedBy
<1>10. NothingLeftLocked
  BY <1>2, <1>4, CallFacts DEF NothingLeftLocked
<1> QED BY <1>1, <1>6, <1>7, <1>8, <1>9, <1>10 DEF MutexInv

(***************************************************************************)
(* The theorems.                                                           *)
(***************************************************************************)

\* The inductive invariant: queues, calls, statuses and locks of mutex.c agree.
THEOREM MutexesAgree == Spec => []MutexInv
<1> QED BY MutexInit, MutexStep, PTL DEF Spec

\* The variables keep their types.
THEOREM MutexTypes == Spec => []TypeOK
<1>1. MutexInv => TypeOK
  BY DEF MutexInv
<1> QED BY <1>1, MutexesAgree, PTL

\* Two threads never have a mutex at once: not when it is handed over by
\* mutex_unlock or mutex_unlock_and_sleep, and not when a timer cancels a lock.
THEOREM MutexesExclude == Spec => []MutualExclusion
<1>1. MutexInv => MutualExclusion
  BY PropertiesFollow
<1> QED BY <1>1, MutexesAgree, PTL

\* Nobody sleeps outside a queue and nobody in a queue is awake: mutex_cancel
\* takes out the thread it wakes, and no other.
THEOREM WaitersStayQueued == Spec => []WaitersQueued
<1>1. MutexInv => WaitersQueued
  BY PropertiesFollow
<1> QED BY <1>1, MutexesAgree, PTL

\* Without priority inheritance mutex_unlock wakes the most urgent waiter.
THEOREM UrgentWaitersFirst ==
  ASSUME ~Inherit PROVE Spec => []UrgentFirst
<1>1. MutexInv => UrgentFirst
  BY PropertiesFollow
<1> QED BY <1>1, MutexesAgree, PTL

\* When nobody locks with a timeout, a locked mutex always has a thread that will
\* unlock it.  With timeouts mutex_lock_cancelable can lose it.
THEOREM LocksAreHeld ==
  ASSUME Cancelers = {} PROVE Spec => []LockedIsHeld
<1>1. MutexInv => LockedIsHeld
  BY LockedFollows
<1> QED BY <1>1, MutexesAgree, PTL

(***************************************************************************)
(* Recursive mutexes.  rmutex.c needs no atomicity beyond that of mutex.c: *)
(* its accesses to the owner and the count are steps of their own here,    *)
(* and what they find is right for every number of threads and mutexes and *)
(* however deep the locks nest.                                            *)
(***************************************************************************)

AllPoints == {Outside} \cup {Inside(op, r) : op \in Points, r \in Rmutexes}

RmutexTypes ==
  /\ rowner \in [Rmutexes -> Threads \cup {NoThread}]
  /\ refcount \in [Rmutexes -> 0..MaxRefs]
  /\ at \in [Threads -> AllPoints]
  /\ depth \in [Threads -> [Rmutexes -> 0..MaxRefs]]

\* owner and refcount tell what the holder has counted, and nothing else.
Counted ==
  /\ \A t \in Threads, r \in Rmutexes :
       depth[t][r] > 0 => r \in holds[t] /\ rowner[r] = t /\ refcount[r] = depth[t][r]
  /\ \A t \in Threads, r \in Rmutexes : rowner[r] = t => depth[t][r] > 0
  /\ \A r \in Rmutexes : refcount[r] > 0 => \E t \in Threads : depth[t][r] > 0

\* A thread that has the mutex but does not own the rmutex is on its way to count
\* its lock, or to unlock the mutex.
Held ==
  \A t \in Threads, r \in Rmutexes :
    r \in holds[t] => depth[t][r] > 0 \/ at[t] \in {Inside("count", r), Inside("release", r)}

\* What the threads inside rmutex.c rely on.
Relied ==
  \A t \in Threads, r \in Rmutexes :
    /\ at[t] \in {Inside("check", r), Inside("count", r)} => depth[t][r] < MaxRefs
    /\ at[t] = Inside("wait", r) => r \notin holds[t]
    /\ at[t] = Inside("count", r) => r \in holds[t] \/ call[t] = Calling("lock", r)
    /\ at[t] = Inside("release", r) => r \in holds[t] /\ depth[t][r] = 0

\* The only call of mutex.c that blocks inside rmutex.c is mutex_lock, and the mutex
\* of an rmutex is locked there only.
Nested ==
  /\ \A t \in Threads : at[t] # Outside =>
       call[t] = NoCall \/ \E r \in Rmutexes : call[t] = Calling("lock", r) /\ at[t] = Inside("count", r)
  /\ \A t \in Threads, r \in Rmutexes, op \in Ops :
       call[t] = Calling(op, r) => op = "lock" /\ at[t] = Inside("count", r)

RmutexPart == RmutexTypes /\ Counted /\ Held /\ Relied /\ Nested
RmutexInv == MutexInv /\ RmutexPart

LEMMA AtFacts ==
  /\ \A op, r : Inside(op, r).op = op /\ Inside(op, r).r = r
  /\ Outside.op = "none"
  /\ \A op \in Points, r \in Rmutexes : Inside(op, r) \in AllPoints /\ Inside(op, r) # Outside
  /\ Outside \in AllPoints
<1>1. \A op, r : Inside(op, r).op = op /\ Inside(op, r).r = r
  BY DEF Inside
<1>2. Outside.op = "none"
  BY DEF Outside
<1>3. \A op \in Points : op # "none"
  BY DEF Points
<1> QED BY <1>1, <1>2, <1>3 DEF AllPoints

LEMMA RmutexTyped ==
  ASSUME RmutexPart
  PROVE  /\ MaxRefs \in Nat /\ Rmutexes \subseteq Mutexes
         /\ at \in [Threads -> AllPoints]
         /\ rowner \in [Rmutexes -> Threads \cup {NoThread}]
         /\ refcount \in [Rmutexes -> 0..MaxRefs]
         /\ depth \in [Threads -> [Rmutexes -> 0..MaxRefs]]
         /\ \A r \in Rmutexes : refcount[r] \in Nat
         /\ \A t \in Threads, r \in Rmutexes : depth[t][r] \in 0..MaxRefs /\ depth[t][r] \in Nat
<1>1. MaxRefs \in Nat /\ Rmutexes \subseteq Mutexes
  BY RmutexesOK
<1> QED BY <1>1 DEF RmutexPart, RmutexTypes

\* Only one thread has an rmutex's mutex.
LEMMA HolderUnique ==
  ASSUME MutexInv, NEW t \in Threads, NEW u \in Threads, NEW m \in holds[t], m \in holds[u]
  PROVE  t = u
<1>1. m \in Mutexes
  BY Types
<1> QED BY <1>1 DEF MutexInv, HoldersAlone

LEMMA CountedFollows ==
  ASSUME RmutexInv
  PROVE  CountedByHolder
<1> SUFFICES ASSUME NEW t \in Threads, NEW r \in Rmutexes
             PROVE  /\ depth[t][r] > 0 => holder[r] = t /\ rowner[r] = t /\ refcount[r] = depth[t][r]
                    /\ rowner[r] = t => depth[t][r] > 0
  BY DEF CountedByHolder
<1>1. r \in Mutexes
  BY RmutexesOK
<1>2. depth[t][r] > 0 => r \in holds[t] /\ rowner[r] = t /\ refcount[r] = depth[t][r]
  BY DEF RmutexInv, RmutexPart, Counted
<1>3. r \in holds[t] => holder[r] = t
  BY <1>1 DEF RmutexInv, MutexInv, HoldersAlone
<1>4. rowner[r] = t => depth[t][r] > 0
  BY DEF RmutexInv, RmutexPart, Counted
<1> QED BY <1>2, <1>3, <1>4

(***************************************************************************)
(* Steps that leave rmutex.c alone.                                        *)
(***************************************************************************)

\* A call about a mutex that is not in an rmutex.
Other(c) == c = NoCall \/ \E op \in Ops, m \in Mutexes \ Rmutexes : c = Calling(op, m)

LEMMA PlainKeeps ==
  ASSUME RmutexPart, UNCHANGED rmutexVars,
         \A u \in Threads, r \in Rmutexes : r \in holds'[u] <=> r \in holds[u],
         \A u \in Threads : call'[u] = call[u] \/ (at[u] = Outside /\ Other(call'[u]))
  PROVE  RmutexPart'
<1>1. rowner' = rowner /\ refcount' = refcount /\ at' = at /\ depth' = depth
  BY DEF rmutexVars
<1>2. RmutexTypes' /\ Counted' /\ Held'
  BY <1>1 DEF RmutexPart, RmutexTypes, Counted, Held
<1>3. \A u \in Threads : at[u] # Outside => call'[u] = call[u]
  OBVIOUS
<1>4. \A u \in Threads, r \in Rmutexes, op \in Ops :
        call'[u] = Calling(op, r) => call'[u] = call[u]
  <2>1. ASSUME NEW u \in Threads, NEW r \in Rmutexes, NEW op \in Ops, call'[u] = Calling(op, r)
        PROVE  ~Other(call'[u])
    <3>1. op # "none"
      BY DEF Ops
    <3> QED BY <2>1, <3>1, CallFacts DEF Other
  <2> QED BY <2>1
<1>5. \A u \in Threads, r \in Rmutexes :
        at[u] \in {Inside("check", r), Inside("count", r), Inside("wait", r), Inside("release", r)}
          => at[u] # Outside
  BY AtFacts DEF Points
<1>6. Relied'
  BY <1>1, <1>3, <1>5 DEF RmutexPart, Relied
<1>7. Nested'
  BY <1>1, <1>3, <1>4 DEF RmutexPart, Nested
<1> QED BY <1>2, <1>6, <1>7 DEF RmutexPart

LEMMA OtherFacts ==
  /\ Other(NoCall)
  /\ \A op \in Ops, m \in Mutexes : m \notin Rmutexes => Other(Calling(op, m))
BY DEF Other

LEMMA AtSet ==
  ASSUME RmutexPart, NEW t \in Threads, NEW w \in AllPoints, Goes(t, w)
  PROVE  at' \in [Threads -> AllPoints] /\ at'[t] = w /\ \A u \in Threads : u # t => at'[u] = at[u]
BY RmutexTyped DEF Goes

LEMMA HoldsAdded ==
  ASSUME MutexInv, NEW t \in Threads, NEW m \in Mutexes, holds' = [holds EXCEPT ![t] = @ \cup {m}]
  PROVE  \A u \in Threads, n \in Mutexes : n \in holds'[u] <=> (n \in holds[u] \/ (u = t /\ n = m))
BY Types

LEMMA HoldsRemoved ==
  ASSUME MutexInv, NEW t \in Threads, NEW m \in Mutexes, holds' = [holds EXCEPT ![t] = @ \ {m}]
  PROVE  \A u \in Threads, n \in Mutexes : n \in holds'[u] <=> (n \in holds[u] /\ ~ (u = t /\ n = m))
BY Types

\* What a step of mutex.c on another mutex does to this part.
LEMMA MutexCallKeeps ==
  ASSUME RmutexInv, NEW t \in Threads, MutexCall(t)
  PROVE  RmutexPart'
<1>1. at[t] = Outside /\ UNCHANGED rmutexVars /\ MutexInv /\ RmutexPart
  BY DEF MutexCall, RmutexInv
<1>2. SUFFICES /\ \A u \in Threads, r \in Rmutexes : r \in holds'[u] <=> r \in holds[u]
               /\ \A u \in Threads : call'[u] = call[u] \/ (u = t /\ Other(call'[u]))
  BY <1>1, PlainKeeps
<1>3. Rmutexes \subseteq Mutexes
  BY RmutexesOK
<1>4. ASSUME NEW m \in Mutexes \ Rmutexes, Lock(t, m) \/ Unlock(t, m) \/ UnlockAndSleep(t, m)
             \/ Arm(t, m) \/ LockCancelable(t, m)
      PROVE  /\ \A u \in Threads, r \in Rmutexes : r \in holds'[u] <=> r \in holds[u]
             /\ \A u \in Threads : call'[u] = call[u] \/ (u = t /\ Other(call'[u]))
  <2>1. \/ holds' = holds \/ holds' = [holds EXCEPT ![t] = @ \cup {m}]
        \/ holds' = [holds EXCEPT ![t] = @ \ {m}]
    BY <1>4 DEF Lock, Unlock, UnlockAndSleep, Arm, LockCancelable, Takes, BlocksOn
  <2>2. \A u \in Threads, r \in Rmutexes : r \in holds'[u] <=> r \in holds[u]
    <3>1. CASE holds' = holds
      BY <3>1
    <3>2. CASE holds' = [holds EXCEPT ![t] = @ \cup {m}]
      BY <3>2, <1>1, <1>3, HoldsAdded
    <3>3. CASE holds' = [holds EXCEPT ![t] = @ \ {m}]
      BY <3>3, <1>1, <1>3, HoldsRemoved
    <3> QED BY <2>1, <3>1, <3>2, <3>3
  <2>3. \/ call' = call \/ \E c \in {NoCall, Calling("lock", m), Calling("armed", m),
                                     Calling("disarm", m), Calling("cancelable", m)} :
                             call' = [call EXCEPT ![t] = c]
    BY <1>4 DEF Lock, Unlock, UnlockAndSleep, Arm, LockCancelable
  <2>4. \A c \in {NoCall, Calling("lock", m), Calling("armed", m),
                  Calling("disarm", m), Calling("cancelable", m)} : Other(c) /\ c \in AllCalls
    BY OtherFacts DEF Ops, AllCalls
  <2>5. \A u \in Threads : call'[u] = call[u] \/ (u = t /\ Other(call'[u]))
    <3>1. CASE call' = call
      BY <3>1
    <3>2. ASSUME NEW c \in {NoCall, Calling("lock", m), Calling("armed", m),
                            Calling("disarm", m), Calling("cancelable", m)},
                 call' = [call EXCEPT ![t] = c]
          PROVE  \A u \in Threads : call'[u] = call[u] \/ (u = t /\ Other(call'[u]))
      BY <3>2, <2>4, <1>1, CallSet
    <3> QED BY <2>3, <3>1, <3>2
  <2> QED BY <2>2, <2>5
<1>5. CASE Disarm(t)
  <2>1. holds' = holds /\ call' = [call EXCEPT ![t] = NoCall] /\ NoCall \in AllCalls
    BY <1>5 DEF Disarm, AllCalls
  <2> QED BY <2>1, <1>1, CallSet, OtherFacts
<1>6. CASE Yields(t)
  BY <1>6 DEF Yields, mutexVars
<1> QED BY <1>4, <1>5, <1>6 DEF MutexCall

LEMMA QuietKeeps ==
  ASSUME RmutexInv, NEW t \in Threads, Reschedule(t) \/ Cancel(t) \/ IsrWakeup(t), UNCHANGED rmutexVars
  PROVE  RmutexPart'
<1>1. call' = call /\ holds' = holds
  BY DEF Reschedule, Cancel, IsrWakeup, mutexVars
<1> QED BY <1>1, PlainKeeps DEF RmutexInv

\* mutex_lock returns: to the thread's own code, or to _lock.
LEMMA ResumedKeeps ==
  ASSUME RmutexInv, NEW t \in Threads, Resume(t), UNCHANGED rmutexVars
  PROVE  RmutexPart'
<1> DEFINE m == call[t].m
<1>1. MutexInv /\ RmutexPart /\ Rmutexes \subseteq Mutexes
  BY RmutexesOK DEF RmutexInv
<1>2. /\ call[t].op \in {"lock", "cancelable"}
      /\ m \in Mutexes /\ call[t] = Calling(call[t].op, m)
  BY <1>1, CallShape DEF Resume
<1>3. holds' = holds \/ holds' = [holds EXCEPT ![t] = @ \cup {m}]
  BY DEF Resume
<1>4. \E c \in {NoCall, Calling("disarm", m)} : call' = [call EXCEPT ![t] = c]
  BY DEF Resume
<1>5. call[t].op = "lock" => /\ holds' = [holds EXCEPT ![t] = @ \cup {m}]
                             /\ call' = [call EXCEPT ![t] = NoCall]
  BY DEF Resume
<1> HIDE DEF m
<1>6. \A u \in Threads, n \in Mutexes : n \in holds[u] \/ ~ (u = t /\ n = m) => (n \in holds'[u] <=> n \in holds[u])
  <2>1. CASE holds' = holds
    BY <2>1
  <2>2. CASE holds' = [holds EXCEPT ![t] = @ \cup {m}]
    BY <2>2, <1>1, <1>2, HoldsAdded
  <2> QED BY <1>3, <2>1, <2>2
<1>7. CASE m \notin Rmutexes
  <2>1. \A u \in Threads, r \in Rmutexes : r \in holds'[u] <=> r \in holds[u]
    BY <1>1, <1>6, <1>7
  <2>2. at[t] = Outside
    <3>1. call[t] # NoCall /\ \A r \in Rmutexes : call[t] # Calling("lock", r)
      BY <1>2, <1>7, CallFacts
    <3> QED BY <1>1, <3>1 DEF RmutexPart, Nested
  <2>3. \A c \in {NoCall, Calling("disarm", m)} : Other(c) /\ c \in AllCalls
    BY <1>2, <1>7, OtherFacts DEF Ops, AllCalls
  <2>4. PICK c \in {NoCall, Calling("disarm", m)} : call' = [call EXCEPT ![t] = c]
    BY <1>4
  <2>5. \A u \in Threads : call'[u] = call[u] \/ (u = t /\ Other(call'[u]))
    BY <1>1, <2>3, <2>4, CallSet
  <2> QED BY <1>1, <2>1, <2>2, <2>5, PlainKeeps
<1>8. CASE m \in Rmutexes
  <2>1. call[t] = Calling("lock", m) /\ at[t] = Inside("count", m)
    <3>1. call[t].op \in Ops
      BY <1>2 DEF Ops
    <3> QED BY <1>1, <1>2, <1>8, <3>1 DEF RmutexPart, Nested
  <2>2. holds' = [holds EXCEPT ![t] = @ \cup {m}] /\ call' = [call EXCEPT ![t] = NoCall]
    BY <1>5, <2>1, CallFacts
  <2>3. call'[t] = NoCall /\ \A u \in Threads : u # t => call'[u] = call[u]
    <3>1. NoCall \in AllCalls
      BY DEF AllCalls
    <3> QED BY <1>1, <2>2, <3>1, CallSet
  <2>4. \A u \in Threads, n \in Mutexes : n \in holds'[u] <=> (n \in holds[u] \/ (u = t /\ n = m))
    BY <1>1, <1>2, <2>2, HoldsAdded
  <2>5. rowner' = rowner /\ refcount' = refcount /\ at' = at /\ depth' = depth
    BY DEF rmutexVars
  <2>6. RmutexTypes' /\ Counted'
    BY <1>1, <2>4, <2>5 DEF RmutexPart, RmutexTypes, Counted
  <2>7. Held'
    BY <1>1, <2>1, <2>4, <2>5 DEF RmutexPart, Held
  <2>8. Relied'
    <3> SUFFICES ASSUME NEW u \in Threads, NEW r \in Rmutexes
                 PROVE  /\ at[u] \in {Inside("check", r), Inside("count", r)} => depth[u][r] < MaxRefs
                        /\ at[u] = Inside("wait", r) => r \notin holds'[u]
                        /\ at[u] = Inside("count", r) => r \in holds'[u] \/ call'[u] = Calling("lock", r)
                        /\ at[u] = Inside("release", r) => r \in holds'[u] /\ depth[u][r] = 0
      BY <2>5 DEF Relied
    <3>1. /\ at[u] \in {Inside("check", r), Inside("count", r)} => depth[u][r] < MaxRefs
          /\ at[u] = Inside("wait", r) => r \notin holds[u]
          /\ at[u] = Inside("count", r) => r \in holds[u] \/ call[u] = Calling("lock", r)
          /\ at[u] = Inside("release", r) => r \in holds[u] /\ depth[u][r] = 0
      BY <1>1 DEF RmutexPart, Relied
    <3>2. Inside("count", m) # Inside("wait", r)
      BY AtFacts
    <3>3. Inside("count", m) = Inside("count", r) => r = m
      BY AtFacts
    <3>4. CASE u = t
      BY <1>1, <2>1, <2>4, <3>1, <3>2, <3>3, <3>4
    <3>5. CASE u # t
      BY <1>1, <2>3, <2>4, <3>1, <3>5
    <3> QED BY <3>4, <3>5
  <2>9. Nested'
    <3>1. \A r \in Rmutexes, op \in Ops : Calling(op, r) # NoCall
      BY CallFacts DEF Ops
    <3> QED BY <1>1, <2>3, <2>5, <3>1 DEF RmutexPart, Nested
  <2> QED BY <2>6, <2>7, <2>8, <2>9 DEF RmutexPart
<1> QED BY <1>7, <1>8

(***************************************************************************)
(* Steps inside rmutex.c.                                                  *)
(***************************************************************************)

\* A thread that waits in no call goes on; it may get or give back mutexes it has
\* not counted.
LEMMA GoesKeeps ==
  ASSUME RmutexPart, NEW t \in Threads, NEW w \in AllPoints, Goes(t, w), call[t] = NoCall,
         UNCHANGED <<rowner, refcount, depth>>,
         \A u \in Threads : u # t => call'[u] = call[u],
         \A u \in Threads, n \in Rmutexes : u # t => (n \in holds'[u] <=> n \in holds[u]),
         \A n \in Rmutexes : depth[t][n] > 0 => n \in holds'[t],
         \A n \in Rmutexes : n \in holds'[t] => depth[t][n] > 0 \/ w \in {Inside("count", n), Inside("release", n)},
         \A n \in Rmutexes :
           /\ w \in {Inside("check", n), Inside("count", n)} => depth[t][n] < MaxRefs
           /\ w = Inside("wait", n) => n \notin holds'[t]
           /\ w = Inside("count", n) => n \in holds'[t] \/ call'[t] = Calling("lock", n)
           /\ w = Inside("release", n) => n \in holds'[t] /\ depth[t][n] = 0,
         call'[t] = NoCall \/ \E r \in Rmutexes : call'[t] = Calling("lock", r) /\ w = Inside("count", r)
  PROVE  RmutexPart'
<1>1. at' \in [Threads -> AllPoints] /\ at'[t] = w /\ \A u \in Threads : u # t => at'[u] = at[u]
  BY AtSet
<1>2. rowner' = rowner /\ refcount' = refcount /\ depth' = depth
  OBVIOUS
<1>3. RmutexTypes'
  BY <1>1, <1>2 DEF RmutexPart, RmutexTypes
<1>4. Counted'
  <2>1. \A u \in Threads, n \in Rmutexes :
          depth[u][n] > 0 => n \in holds'[u] /\ rowner[n] = u /\ refcount[n] = depth[u][n]
    <3> TAKE u \in Threads, n \in Rmutexes
    <3>1. depth[u][n] > 0 => n \in holds[u] /\ rowner[n] = u /\ refcount[n] = depth[u][n]
      BY DEF RmutexPart, Counted
    <3> QED BY <3>1
  <2> QED BY <2>1, <1>2 DEF RmutexPart, Counted
<1>5. Held'
  <2>1. ASSUME NEW u \in Threads, NEW n \in Rmutexes, n \in holds'[u]
        PROVE  depth[u][n] > 0 \/ at'[u] \in {Inside("count", n), Inside("release", n)}
    <3>1. CASE u = t
      BY <2>1, <3>1, <1>1
    <3>2. CASE u # t
      BY <2>1, <3>2, <1>1 DEF RmutexPart, Held
    <3> QED BY <3>1, <3>2
  <2> QED BY <2>1, <1>2 DEF Held
<1>6. Relied'
  <2>1. ASSUME NEW u \in Threads, NEW n \in Rmutexes
        PROVE  /\ at'[u] \in {Inside("check", n), Inside("count", n)} => depth[u][n] < MaxRefs
               /\ at'[u] = Inside("wait", n) => n \notin holds'[u]
               /\ at'[u] = Inside("count", n) => n \in holds'[u] \/ call'[u] = Calling("lock", n)
               /\ at'[u] = Inside("release", n) => n \in holds'[u] /\ depth[u][n] = 0
    <3>1. CASE u = t
      BY <3>1, <1>1
    <3>2. CASE u # t
      BY <3>2, <1>1 DEF RmutexPart, Relied
    <3> QED BY <3>1, <3>2
  <2> QED BY <2>1, <1>2 DEF Relied
<1>7. Nested'
  <2>1. ASSUME NEW u \in Threads, at'[u] # Outside
        PROVE  call'[u] = NoCall \/ \E r \in Rmutexes : call'[u] = Calling("lock", r) /\ at'[u] = Inside("count", r)
    <3>1. CASE u = t
      BY <3>1, <1>1
    <3>2. CASE u # t
      BY <2>1, <3>2, <1>1 DEF RmutexPart, Nested
    <3> QED BY <3>1, <3>2
  <2>2. ASSUME NEW u \in Threads, NEW r \in Rmutexes, NEW op \in Ops, call'[u] = Calling(op, r)
        PROVE  op = "lock" /\ at'[u] = Inside("count", r)
    <3>1. CASE u = t
      <4>1. Calling(op, r) # NoCall
        BY CallFacts DEF Ops
      <4>2. PICK x \in Rmutexes : call'[t] = Calling("lock", x) /\ w = Inside("count", x)
        BY <2>2, <3>1, <4>1
      <4>3. op = "lock" /\ x = r
        BY <2>2, <3>1, <4>2, CallFacts
      <4> QED BY <3>1, <4>2, <4>3, <1>1
    <3>2. CASE u # t
      BY <2>2, <3>2, <1>1 DEF RmutexPart, Nested
    <3> QED BY <3>1, <3>2
  <2> QED BY <2>1, <2>2 DEF Nested
<1> QED BY <1>3, <1>4, <1>5, <1>6, <1>7 DEF RmutexPart

\* A thread that takes the mutex, or joins its queue, goes on to count its lock.
LEMMA LocksKeeps ==
  ASSUME RmutexInv, NEW t \in Threads, NEW r \in Rmutexes,
         Free(t), Goes(t, Inside("count", r)), r \notin holds[t],
         \A n \in Rmutexes : n \in holds[t] => depth[t][n] > 0, depth[t][r] < MaxRefs,
         \/ Takes(t, r) /\ UNCHANGED call
         \/ BlocksOn(t, r) /\ call' = [call EXCEPT ![t] = Calling("lock", r)],
         UNCHANGED <<cancelled, rowner, refcount, depth>>
  PROVE  RmutexPart' /\ Lock(t, r)
<1>1. MutexInv /\ RmutexPart /\ r \in Mutexes /\ call[t] = NoCall
  BY RmutexesOK DEF RmutexInv, Free
<1>2. Lock(t, r)
  BY DEF Lock
<1> DEFINE w == Inside("count", r)
<1>3. w \in AllPoints /\ \A n : w = Inside("count", n) => n = r
  BY AtFacts DEF Points
<1>4. \A n : w # Inside("check", n) /\ w # Inside("wait", n) /\ w # Inside("release", n)
  BY AtFacts
<1>5. \A u \in Threads, n \in Rmutexes : u # t => (n \in holds'[u] <=> n \in holds[u])
  <2>1. CASE Takes(t, r)
    BY <2>1, <1>1, RmutexesOK, HoldsAdded DEF Takes
  <2>2. CASE BlocksOn(t, r)
    BY <2>2 DEF BlocksOn
  <2> QED BY <2>1, <2>2
<1>6. /\ \A n \in Rmutexes : n \in holds[t] => n \in holds'[t]
      /\ \A n \in Rmutexes : n \in holds'[t] => n \in holds[t] \/ n = r
      /\ r \in holds'[t] \/ call'[t] = Calling("lock", r)
      /\ call'[t] = NoCall \/ call'[t] = Calling("lock", r)
      /\ \A u \in Threads : u # t => call'[u] = call[u]
  <2>1. CASE Takes(t, r) /\ UNCHANGED call
    BY <2>1, <1>1, RmutexesOK, HoldsAdded DEF Takes
  <2>2. CASE BlocksOn(t, r) /\ call' = [call EXCEPT ![t] = Calling("lock", r)]
    <3>1. Calling("lock", r) \in AllCalls
      BY <1>1 DEF AllCalls, Ops
    <3> QED BY <2>2, <3>1, <1>1, CallSet DEF BlocksOn
  <2> QED BY <2>1, <2>2
<1>7. \A n \in Rmutexes : depth[t][n] > 0 => n \in holds[t]
  BY <1>1 DEF RmutexPart, Counted
<1> HIDE DEF w
<1>8. Goes(t, w)
  BY DEF w
<1>9. /\ \A n \in Rmutexes : depth[t][n] > 0 => n \in holds'[t]
      /\ \A n \in Rmutexes : n \in holds'[t] => depth[t][n] > 0 \/ w \in {Inside("count", n), Inside("release", n)}
      /\ \A n \in Rmutexes :
           /\ w \in {Inside("check", n), Inside("count", n)} => depth[t][n] < MaxRefs
           /\ w = Inside("wait", n) => n \notin holds'[t]
           /\ w = Inside("count", n) => n \in holds'[t] \/ call'[t] = Calling("lock", n)
           /\ w = Inside("release", n) => n \in holds'[t] /\ depth[t][n] = 0
      /\ call'[t] = NoCall \/ \E x \in Rmutexes : call'[t] = Calling("lock", x) /\ w = Inside("count", x)
  BY <1>3, <1>4, <1>6, <1>7 DEF w
<1>10. RmutexPart'
  BY <1>1, <1>3, <1>5, <1>6, <1>8, <1>9, GoesKeeps
<1> QED BY <1>2, <1>10

\* A thread outside the last steps of a call has counted all it has.
LEMMA AllCounted ==
  ASSUME RmutexPart, NEW t \in Threads,
         \A r \in Rmutexes : at[t] # Inside("count", r) /\ at[t] # Inside("release", r)
  PROVE  \A r \in Rmutexes : r \in holds[t] <=> depth[t][r] > 0
BY DEF RmutexPart, Held, Counted

LEMMA CalledKeeps ==
  ASSUME RmutexInv, NEW t \in Threads, NEW r \in Rmutexes, RmutexCalled(t, r)
  PROVE  RmutexPart' /\ (Lock(t, r) \/ UNCHANGED vars)
<1>1. /\ MutexInv /\ RmutexPart /\ r \in Mutexes /\ Free(t) /\ call[t] = NoCall /\ at[t] = Outside
      /\ depth[t][r] < MaxRefs /\ UNCHANGED <<call, cancelled, rowner, refcount, depth>>
  BY RmutexesOK DEF RmutexInv, RmutexCalled, Free
<1>2. \A n \in Rmutexes : n \in holds[t] <=> depth[t][n] > 0
  <2>1. \A n \in Rmutexes : Inside("count", n) # Outside /\ Inside("release", n) # Outside
    BY AtFacts DEF Points
  <2> QED BY <1>1, <2>1, AllCounted
<1>3. CASE Takes(t, r) /\ Goes(t, Inside("count", r))
  <2>1. r \notin holds[t]
    BY <1>1, <1>3 DEF Takes, MutexInv, HoldersAlone, Locked
  <2> QED BY <1>1, <1>2, <1>3, <2>1, LocksKeeps
<1>4. CASE mu[r].locked /\ Goes(t, Inside("check", r)) /\ UNCHANGED <<k, mu, holds, holder>>
  <2> DEFINE w == Inside("check", r)
  <2>1. w \in AllPoints /\ \A n : w = Inside("check", n) => n = r
    BY AtFacts DEF Points
  <2>2. \A n : w # Inside("count", n) /\ w # Inside("wait", n) /\ w # Inside("release", n)
    BY AtFacts
  <2> HIDE DEF w
  <2>3. Goes(t, w)
    BY <1>4 DEF w
  <2>4. RmutexPart'
    BY <1>1, <1>2, <1>4, <2>1, <2>2, <2>3, GoesKeeps
  <2>5. UNCHANGED vars
    BY <1>1, <1>4 DEF vars, mutexVars
  <2> QED BY <2>4, <2>5
<1> QED BY <1>3, <1>4 DEF RmutexCalled

\* The load of owner finds the thread itself exactly when it has the mutex.
LEMMA OwnerReadKeeps ==
  ASSUME RmutexInv, NEW t \in Threads, NEW r \in Rmutexes, OwnerRead(t, r)
  PROVE  RmutexPart' /\ UNCHANGED vars
<1>1. /\ RmutexPart /\ call[t] = NoCall /\ at[t] = Inside("check", r)
      /\ UNCHANGED <<vars, rowner, refcount, depth>>
  BY DEF RmutexInv, OwnerRead, Free
<1>2. call' = call /\ holds' = holds
  BY <1>1 DEF vars, mutexVars
<1>3. \A n \in Rmutexes : n \in holds[t] <=> depth[t][n] > 0
  <2>1. \A n \in Rmutexes : at[t] # Inside("count", n) /\ at[t] # Inside("release", n)
    BY <1>1, AtFacts
  <2> QED BY <1>1, <2>1, AllCounted
<1>4. depth[t][r] < MaxRefs
  BY <1>1 DEF RmutexPart, Relied
<1>5. rowner[r] = t <=> depth[t][r] > 0
  BY <1>1 DEF RmutexPart, Counted
<1>6. PICK w \in {Inside("count", r), Inside("wait", r), Outside} :
        Goes(t, w) /\ (w = Inside("count", r) <=> rowner[r] = t)
  BY AtFacts DEF OwnerRead, Points
<1>7. /\ w \in AllPoints
      /\ \A n : w # Inside("check", n) /\ w # Inside("release", n)
      /\ \A n : w = Inside("count", n) => n = r /\ rowner[r] = t
      /\ \A n : w = Inside("wait", n) => n = r /\ rowner[r] # t
  <2>1. CASE w = Outside
    <3>1. \A op, n : op # "none" => w # Inside(op, n)
      BY <2>1, AtFacts
    <3> QED BY <2>1, <3>1, AtFacts
  <2>2. CASE w = Inside("count", r)
    BY <1>6, <2>2, AtFacts DEF Points
  <2>3. CASE w = Inside("wait", r)
    <3>1. w # Inside("count", r)
      BY <2>3, AtFacts
    <3> QED BY <1>6, <2>3, <3>1, AtFacts DEF Points
  <2> QED BY <1>6, <2>1, <2>2, <2>3
<1>8. RmutexPart'
  BY <1>1, <1>2, <1>3, <1>4, <1>5, <1>6, <1>7, GoesKeeps
<1> QED BY <1>1, <1>8

LEMMA WaitsStepKeeps ==
  ASSUME RmutexInv, NEW t \in Threads, NEW r \in Rmutexes, RmutexWaits(t, r)
  PROVE  RmutexPart' /\ Lock(t, r)
<1>1. /\ RmutexPart /\ Free(t) /\ at[t] = Inside("wait", r) /\ Goes(t, Inside("count", r))
      /\ UNCHANGED <<cancelled, rowner, refcount, depth>>
  BY DEF RmutexInv, RmutexWaits
<1>2. \A n \in Rmutexes : n \in holds[t] <=> depth[t][n] > 0
  <2>1. \A n \in Rmutexes : at[t] # Inside("count", n) /\ at[t] # Inside("release", n)
    BY <1>1, AtFacts
  <2> QED BY <1>1, <2>1, AllCounted
<1>3. r \notin holds[t]
  BY <1>1 DEF RmutexPart, Relied
<1>4. depth[t][r] < MaxRefs
  <2>1. depth[t][r] = 0 /\ MaxRefs > 0
    BY <1>1, <1>2, <1>3, RmutexTyped, RmutexesOK
  <2> QED BY <2>1
<1> QED BY <1>1, <1>2, <1>3, <1>4, LocksKeeps DEF RmutexWaits

\* rmutex_unlock ends with mutex_unlock, of a mutex the thread has.
LEMMA ReleasesKeeps ==
  ASSUME RmutexInv, NEW t \in Threads, NEW r \in Rmutexes, Releases(t, r)
  PROVE  RmutexPart' /\ Unlock(t, r)
<1>1. /\ MutexInv /\ RmutexPart /\ r \in Mutexes /\ at[t] = Inside("release", r)
      /\ Unlock(t, r) /\ Goes(t, Outside) /\ UNCHANGED <<rowner, refcount, depth>>
  BY RmutexesOK DEF RmutexInv, Releases
<1>2. call' = call /\ call[t] = NoCall /\ holds' = [holds EXCEPT ![t] = @ \ {r}]
  BY <1>1 DEF Unlock, Free
<1>3. \A u \in Threads, n \in Rmutexes : n \in holds'[u] <=> (n \in holds[u] /\ ~ (u = t /\ n = r))
  BY <1>1, <1>2, RmutexesOK, HoldsRemoved
<1>4. depth[t][r] = 0
  BY <1>1 DEF RmutexPart, Relied
<1>5. \A n \in Rmutexes : n \in holds[t] /\ n # r => depth[t][n] > 0
  <2>1. \A n : at[t] # Inside("count", n) /\ (at[t] = Inside("release", n) => n = r)
    BY <1>1, AtFacts
  <2> QED BY <1>1, <2>1 DEF RmutexPart, Held
<1>6. \A n \in Rmutexes : depth[t][n] > 0 => n \in holds[t] /\ n # r
  BY <1>1, <1>4 DEF RmutexPart, Counted
<1>7. /\ Outside \in AllPoints
      /\ \A n \in Rmutexes : /\ Outside # Inside("check", n) /\ Outside # Inside("count", n)
                             /\ Outside # Inside("wait", n) /\ Outside # Inside("release", n)
  BY AtFacts DEF Points
<1> DEFINE w == Outside
<1> HIDE DEF w
<1>8. Goes(t, w) /\ w \in AllPoints
  BY <1>1, <1>7 DEF w
<1>9. \A n \in Rmutexes : /\ w # Inside("check", n) /\ w # Inside("count", n)
                          /\ w # Inside("wait", n) /\ w # Inside("release", n)
  BY <1>7 DEF w
<1>10. RmutexPart'
  BY <1>1, <1>2, <1>3, <1>5, <1>6, <1>8, <1>9, GoesKeeps
<1> QED BY <1>1, <1>10

\* While t has the mutex of r, no other thread has counted it, and refcount is the
\* number of locks t has counted.
LEMMA HolderCounts ==
  ASSUME RmutexInv, NEW t \in Threads, NEW r \in Rmutexes, r \in holds[t]
  PROVE  /\ \A u \in Threads : u # t => depth[u][r] = 0 /\ rowner[r] # u
         /\ refcount[r] = depth[t][r]
<1>1. MutexInv /\ RmutexPart
  BY DEF RmutexInv
<1>2. \A u \in Threads : u # t => depth[u][r] = 0 /\ rowner[r] # u
  <2>1. ASSUME NEW u \in Threads, u # t PROVE depth[u][r] = 0 /\ rowner[r] # u
    <3>1. r \notin holds[u]
      BY <1>1, <2>1, HolderUnique
    <3>2. ~ (depth[u][r] > 0)
      BY <1>1, <3>1 DEF RmutexPart, Counted
    <3>3. depth[u][r] = 0
      BY <1>1, <3>2, RmutexTyped
    <3>4. rowner[r] = u => depth[u][r] > 0
      BY <1>1 DEF RmutexPart, Counted
    <3> QED BY <3>2, <3>3, <3>4
  <2> QED BY <2>1
<1>3. refcount[r] = depth[t][r]
  <2>1. CASE depth[t][r] > 0
    BY <1>1, <2>1 DEF RmutexPart, Counted
  <2>2. CASE ~ (depth[t][r] > 0)
    <3>1. depth[t][r] = 0 /\ refcount[r] \in Nat
      BY <1>1, <2>2, RmutexTyped
    <3>2. \A u \in Threads : ~ (depth[u][r] > 0)
      BY <1>2, <3>1
    <3>3. ~ (refcount[r] > 0)
      BY <1>1, <3>2 DEF RmutexPart, Counted
    <3> QED BY <3>1, <3>3
  <2> QED BY <2>1, <2>2
<1> QED BY <1>2, <1>3

\* The thread t, which has the mutex of r, sets owner and count.
CountsSet(t, r, d, o, w) ==
  /\ rowner' = [rowner EXCEPT ![r] = o] /\ refcount' = [refcount EXCEPT ![r] = d]
  /\ depth' = [depth EXCEPT ![t][r] = d] /\ Goes(t, w) /\ UNCHANGED vars

LEMMA CountSet ==
  ASSUME RmutexInv, NEW t \in Threads, NEW r \in Rmutexes, r \in holds[t], call[t] = NoCall,
         NEW d \in 0..MaxRefs, NEW o \in {t, NoThread}, NEW w \in {Outside, Inside("release", r)},
         CountsSet(t, r, d, o, w), o = t <=> d > 0, w = Outside <=> d > 0,
         \A n \in Rmutexes : n \in holds[t] => n = r \/ depth[t][n] > 0
  PROVE  RmutexPart'
<1>0. /\ rowner' = [rowner EXCEPT ![r] = o] /\ refcount' = [refcount EXCEPT ![r] = d]
      /\ depth' = [depth EXCEPT ![t][r] = d] /\ Goes(t, w) /\ UNCHANGED vars
  BY DEF CountsSet
<1>1. MutexInv /\ RmutexPart /\ call' = call /\ holds' = holds
  BY <1>0 DEF RmutexInv, vars, mutexVars
<1>2. w \in AllPoints /\ Inside("release", r) # Outside
  BY AtFacts DEF Points
<1>3. at' \in [Threads -> AllPoints] /\ at'[t] = w /\ \A u \in Threads : u # t => at'[u] = at[u]
  BY <1>0, <1>1, <1>2, AtSet
<1>4. /\ rowner' \in [Rmutexes -> Threads \cup {NoThread}]
      /\ refcount' \in [Rmutexes -> 0..MaxRefs]
      /\ depth' \in [Threads -> [Rmutexes -> 0..MaxRefs]]
      /\ \A n \in Rmutexes : rowner'[n] = IF n = r THEN o ELSE rowner[n]
      /\ \A n \in Rmutexes : refcount'[n] = IF n = r THEN d ELSE refcount[n]
      /\ \A u \in Threads, n \in Rmutexes :
           depth'[u][n] = IF u = t /\ n = r THEN d ELSE depth[u][n]
  <2>1. /\ rowner \in [Rmutexes -> Threads \cup {NoThread}]
        /\ refcount \in [Rmutexes -> 0..MaxRefs]
        /\ depth \in [Threads -> [Rmutexes -> 0..MaxRefs]]
    BY <1>1, RmutexTyped
  <2> QED BY <1>0, <2>1
<1>5. RmutexTypes'
  BY <1>3, <1>4 DEF RmutexTypes
<1>6. /\ \A u \in Threads : u # t => depth[u][r] = 0 /\ rowner[r] # u
      /\ d \in Nat /\ \A u \in Threads, n \in Rmutexes : depth[u][n] \in Nat
  BY <1>1, HolderCounts, RmutexTyped
<1>7. Counted'
  <2>1. \A u \in Threads, n \in Rmutexes :
          depth'[u][n] > 0 => n \in holds'[u] /\ rowner'[n] = u /\ refcount'[n] = depth'[u][n]
    <3> TAKE u \in Threads, n \in Rmutexes
    <3>1. CASE n = r
      BY <1>1, <1>4, <1>6, <3>1
    <3>2. CASE n # r
      BY <1>1, <1>4, <3>2 DEF RmutexPart, Counted
    <3> QED BY <3>1, <3>2
  <2>2. \A u \in Threads, n \in Rmutexes : rowner'[n] = u => depth'[u][n] > 0
    <3> TAKE u \in Threads, n \in Rmutexes
    <3>1. CASE n = r
      BY <1>4, <3>1, NoThreadIsNone
    <3>2. CASE n # r
      BY <1>1, <1>4, <3>2 DEF RmutexPart, Counted
    <3> QED BY <3>1, <3>2
  <2>3. \A n \in Rmutexes : refcount'[n] > 0 => \E u \in Threads : depth'[u][n] > 0
    <3> TAKE n \in Rmutexes
    <3>1. CASE n = r
      BY <1>4, <3>1
    <3>2. CASE n # r
      BY <1>1, <1>4, <3>2 DEF RmutexPart, Counted
    <3> QED BY <3>1, <3>2
  <2> QED BY <2>1, <2>2, <2>3 DEF Counted
<1>8. Held'
  <2>1. ASSUME NEW u \in Threads, NEW n \in Rmutexes, n \in holds'[u]
        PROVE  depth'[u][n] > 0 \/ at'[u] \in {Inside("count", n), Inside("release", n)}
    <3>1. CASE u = t
      BY <1>1, <1>3, <1>4, <2>1, <3>1
    <3>2. CASE u # t
      BY <1>1, <1>3, <1>4, <2>1, <3>2 DEF RmutexPart, Held
    <3> QED BY <3>1, <3>2
  <2> QED BY <2>1 DEF Held
<1>9. Relied'
  <2>1. ASSUME NEW u \in Threads, NEW n \in Rmutexes
        PROVE  /\ at'[u] \in {Inside("check", n), Inside("count", n)} => depth'[u][n] < MaxRefs
               /\ at'[u] = Inside("wait", n) => n \notin holds'[u]
               /\ at'[u] = Inside("count", n) => n \in holds'[u] \/ call'[u] = Calling("lock", n)
               /\ at'[u] = Inside("release", n) => n \in holds'[u] /\ depth'[u][n] = 0
    <3>1. CASE u = t
      <4>1. w # Inside("check", n) /\ w # Inside("count", n) /\ w # Inside("wait", n)
        BY AtFacts DEF Points
      <4>2. w = Inside("release", n) => n = r /\ d = 0
        <5>1. Outside # Inside("release", n)
          BY AtFacts DEF Points
        <5>2. Inside("release", r) = Inside("release", n) => n = r
          BY AtFacts
        <5> QED BY <5>1, <5>2, <1>2, <1>6
      <4> QED BY <1>1, <1>3, <1>4, <3>1, <4>1, <4>2
    <3>2. CASE u # t
      BY <1>1, <1>3, <1>4, <3>2 DEF RmutexPart, Relied
    <3> QED BY <3>1, <3>2
  <2> QED BY <2>1 DEF Relied
<1>10. Nested'
  <2>1. \A n \in Rmutexes, op \in Ops : call[t] # Calling(op, n)
    BY CallFacts DEF Ops
  <2>2. ASSUME NEW u \in Threads, at'[u] # Outside
        PROVE  call'[u] = NoCall \/ \E n \in Rmutexes : call'[u] = Calling("lock", n) /\ at'[u] = Inside("count", n)
    <3>1. CASE u = t
      BY <1>1, <3>1
    <3>2. CASE u # t
      BY <1>1, <1>3, <2>2, <3>2 DEF RmutexPart, Nested
    <3> QED BY <3>1, <3>2
  <2>3. ASSUME NEW u \in Threads, NEW n \in Rmutexes, NEW op \in Ops, call'[u] = Calling(op, n)
        PROVE  op = "lock" /\ at'[u] = Inside("count", n)
    <3>1. u # t
      BY <1>1, <2>1, <2>3
    <3> QED BY <1>1, <1>3, <2>3, <3>1 DEF RmutexPart, Nested
  <2> QED BY <2>2, <2>3 DEF Nested
<1> QED BY <1>5, <1>7, <1>8, <1>9, <1>10 DEF RmutexPart

LEMMA CountsKeeps ==
  ASSUME RmutexInv, NEW t \in Threads, NEW r \in Rmutexes, Counts(t, r)
  PROVE  RmutexPart' /\ UNCHANGED vars
<1> DEFINE d == depth[t][r] + 1
<1>1. /\ MutexInv /\ RmutexPart /\ call[t] = NoCall /\ at[t] = Inside("count", r)
      /\ rowner' = [rowner EXCEPT ![r] = t] /\ refcount' = [refcount EXCEPT ![r] = refcount[r] + 1]
      /\ depth' = [depth EXCEPT ![t][r] = d] /\ Goes(t, Outside) /\ UNCHANGED vars
  BY DEF RmutexInv, Counts, Free
<1>2. r \in holds[t] /\ depth[t][r] < MaxRefs
  <2>1. call[t] # Calling("lock", r)
    BY <1>1, CallFacts
  <2> QED BY <1>1, <2>1 DEF RmutexPart, Relied
<1>3. refcount[r] + 1 = d /\ d \in 0..MaxRefs /\ d > 0
  BY <1>1, <1>2, HolderCounts, RmutexTyped
<1>4. \A n \in Rmutexes : n \in holds[t] => n = r \/ depth[t][n] > 0
  <2>1. \A n : at[t] # Inside("release", n) /\ (at[t] = Inside("count", n) => n = r)
    BY <1>1, AtFacts
  <2> QED BY <1>1, <2>1 DEF RmutexPart, Held
<1> HIDE DEF d
<1>5. refcount' = [refcount EXCEPT ![r] = d]
  BY <1>1, <1>3
<1>6. CountsSet(t, r, d, t, Outside)
  BY <1>1, <1>5 DEF CountsSet
<1>7. RmutexPart'
  BY <1>1, <1>2, <1>3, <1>4, <1>6, CountSet
<1> QED BY <1>1, <1>7

LEMMA UncountsKeeps ==
  ASSUME RmutexInv, NEW t \in Threads, NEW r \in Rmutexes, Uncounts(t, r)
  PROVE  RmutexPart' /\ UNCHANGED vars
<1> DEFINE d == depth[t][r] - 1
<1>1. /\ MutexInv /\ RmutexPart /\ call[t] = NoCall /\ at[t] = Outside /\ depth[t][r] > 0
      /\ refcount' = [refcount EXCEPT ![r] = refcount[r] - 1]
      /\ depth' = [depth EXCEPT ![t][r] = d] /\ UNCHANGED vars
  BY DEF RmutexInv, Uncounts, Free
<1>2. r \in holds[t] /\ rowner[r] = t /\ refcount[r] = depth[t][r]
  BY <1>1 DEF RmutexPart, Counted
<1>3. refcount[r] - 1 = d /\ d \in 0..MaxRefs /\ (refcount[r] = 1 <=> ~ (d > 0))
  BY <1>1, <1>2, RmutexTyped
<1>4. \A n \in Rmutexes : n \in holds[t] => n = r \/ depth[t][n] > 0
  <2>1. \A n \in Rmutexes : at[t] # Inside("count", n) /\ at[t] # Inside("release", n)
    BY <1>1, AtFacts DEF Points
  <2> QED BY <1>1, <2>1, AllCounted
<1>5. Inside("release", r) # Outside
  BY AtFacts DEF Points
<1> HIDE DEF d
<1>6. refcount' = [refcount EXCEPT ![r] = d]
  BY <1>1, <1>3
<1>7. \E o \in {t, NoThread}, w \in {Outside, Inside("release", r)} :
        /\ rowner' = [rowner EXCEPT ![r] = o] /\ Goes(t, w)
        /\ (o = t <=> d > 0) /\ (w = Outside <=> d > 0)
  <2>1. CASE refcount[r] = 1
    <3>1. Goes(t, Inside("release", r)) /\ rowner' = [rowner EXCEPT ![r] = NoThread]
      BY <2>1 DEF Uncounts
    <3> QED BY <1>3, <1>5, <2>1, <3>1, NoThreadIsNone
  <2>2. CASE refcount[r] # 1
    <3>1. Goes(t, Outside) /\ rowner' = [rowner EXCEPT ![r] = t]
      BY <1>1, <1>2, <2>2, RmutexTyped DEF Uncounts
    <3> QED BY <1>3, <2>2, <3>1
  <2> QED BY <2>1, <2>2
<1>8. PICK o \in {t, NoThread}, w \in {Outside, Inside("release", r)} :
        /\ rowner' = [rowner EXCEPT ![r] = o] /\ Goes(t, w)
        /\ (o = t <=> d > 0) /\ (w = Outside <=> d > 0)
  BY <1>7
<1>9. CountsSet(t, r, d, o, w)
  BY <1>1, <1>6, <1>8 DEF CountsSet
<1>10. d \in 0..MaxRefs
  BY <1>3
<1>11. RmutexPart'
  BY <1>2, <1>4, <1>8, <1>9, <1>10, CountSet DEF Uncounts, Free
<1> QED BY <1>1, <1>11

(***************************************************************************)
(* The invariant and the theorems.                                         *)
(***************************************************************************)

LEMMA RmutexStarts == RmutexInit => RmutexInv
<1> SUFFICES ASSUME RmutexInit PROVE RmutexInv
  OBVIOUS
<1>1. /\ MutexInv
      /\ rowner = [r \in Rmutexes |-> NoThread] /\ refcount = [r \in Rmutexes |-> 0]
      /\ at = [t \in Threads |-> Outside]
      /\ depth = [t \in Threads |-> [r \in Rmutexes |-> 0]]
      /\ holds = [t \in Threads |-> {}] /\ call = [t \in Threads |-> NoCall]
  BY MutexInit DEF RmutexInit, Init
<1>2. RmutexTypes
  BY <1>1, AtFacts, RmutexesOK DEF RmutexTypes
<1>3. Counted /\ Held
  BY <1>1, NoThreadIsNone DEF Counted, Held
<1>4. Relied
  <2>1. \A r \in Rmutexes : /\ Outside # Inside("check", r) /\ Outside # Inside("count", r)
                            /\ Outside # Inside("wait", r) /\ Outside # Inside("release", r)
    BY AtFacts DEF Points
  <2> QED BY <1>1, <2>1 DEF Relied
<1>5. Nested
  BY <1>1, CallFacts DEF Nested, Ops
<1> QED BY <1>1, <1>2, <1>3, <1>4, <1>5 DEF RmutexInv, RmutexPart

\* Every step of RiotRmutex is one of RiotMutex, or changes nothing there.
LEMMA RmutexStep ==
  ASSUME RmutexInv, [RmutexNext]_allVars
  PROVE  RmutexPart' /\ [Next]_vars
<1>1. ASSUME NEW t \in Threads, RmutexCall(t) PROVE RmutexPart' /\ [Next]_vars
  <2>1. PICK r \in Rmutexes : \/ RmutexCalled(t, r) \/ OwnerRead(t, r) \/ RmutexWaits(t, r)
                              \/ Counts(t, r) \/ Uncounts(t, r) \/ Releases(t, r)
    BY <1>1 DEF RmutexCall
  <2>2. RmutexPart' /\ (Lock(t, r) \/ Unlock(t, r) \/ UNCHANGED vars)
    BY <2>1, CalledKeeps, OwnerReadKeeps, WaitsStepKeeps, CountsKeeps, UncountsKeeps, ReleasesKeeps
  <2>3. r \in Mutexes
    BY RmutexesOK
  <2> QED BY <2>2, <2>3 DEF Next
<1>2. ASSUME NEW t \in Threads, MutexCall(t) PROVE RmutexPart' /\ [Next]_vars
  BY <1>2, MutexCallKeeps DEF MutexCall, Next
<1>3. ASSUME NEW t \in Threads, Resume(t) \/ Reschedule(t) \/ Cancel(t) \/ IsrWakeup(t),
             UNCHANGED rmutexVars
      PROVE  RmutexPart' /\ [Next]_vars
  BY <1>3, ResumedKeeps, QuietKeeps DEF Next
<1>4. CASE UNCHANGED allVars
  <2>1. UNCHANGED rmutexVars /\ UNCHANGED vars /\ RmutexPart
    BY <1>4 DEF allVars, RmutexInv
  <2>2. call' = call /\ holds' = holds
    BY <2>1 DEF vars, mutexVars
  <2> QED BY <2>1, <2>2, PlainKeeps
<1> QED BY <1>1, <1>2, <1>3, <1>4 DEF RmutexNext

\* What rmutex.c reads without a lock is what it takes it to be.
THEOREM RmutexesAgree == RmutexSpec => []RmutexInv
<1>1. RmutexInv /\ [RmutexNext]_allVars => RmutexInv'
  BY RmutexStep, MutexStep DEF RmutexInv
<1> QED BY <1>1, RmutexStarts, PTL DEF RmutexSpec

\* rmutex.c uses its mutex as mutex.h asks: it never locks one the thread has, nor
\* unlocks one it has not, so that what holds of mutexes holds of these, too.
THEOREM RmutexesAreMutexes == RmutexSpec => Spec
<1>1. RmutexInit => Init
  BY DEF RmutexInit
<1>2. RmutexInv /\ [RmutexNext]_allVars => [Next]_vars
  BY RmutexStep
<1> QED BY <1>1, <1>2, RmutexesAgree, PTL DEF RmutexSpec, Spec

\* "Other threads never set rmutex->owner to the pid of the current thread": a lock
\* is counted by the thread that has the mutex, and owner and refcount are its own.
THEOREM RmutexesCountRight == RmutexSpec => []CountedByHolder
<1>1. RmutexInv => CountedByHolder
  BY CountedFollows
<1> QED BY <1>1, RmutexesAgree, PTL

\* The variables keep their types, within MaxRefs nested locks.
THEOREM RmutexesTyped == RmutexSpec => []RmutexTypeOK
<1>1. RmutexInv => RmutexTypeOK
  BY DEF RmutexInv, MutexInv, RmutexPart, RmutexTypes, RmutexTypeOK, AllPoints
<1> QED BY <1>1, RmutexesAgree, PTL

\* So nobody is let into an rmutex beside its holder, and no thread that waits for
\* one is lost.
THEOREM RmutexesExclude == RmutexSpec => [](MutualExclusion /\ WaitersQueued)
<1> QED BY RmutexesAreMutexes, MutexesExclude, WaitersStayQueued, PTL

(***************************************************************************)
(* RiotCond: condition variables on the mutex.                             *)
(***************************************************************************)

Members(q) == {t \in Threads : Contains(q, t)}

\* Where a thread is in cond_wait, or in the mutex_lock before or at its end.
Relocking == Calling("lock", Mutex)
Awaiting == Calling("cond", Mutex)
Between == Calling("unlocked", Mutex)
CondCalls == {NoCall, Relocking, Awaiting, Between}

\* The kernel: who waits for the condition and who for the mutex.
CondKernel(kk, waiting, queued) ==
  KernelOK(kk) /\ Sleepers(kk, "cond") = waiting /\ Sleepers(kk, "mutex") = queued

\* The same inside the section of a call.
CondSection(kk, waiting, queued) ==
  /\ WellFormed(kk) /\ InSection(kk, k)
  /\ Sleepers(kk, "cond") = waiting /\ Sleepers(kk, "mutex") = queued

CondTypes ==
  /\ mu \in [Mutexes -> Mutex_ts] /\ call \in [Threads -> CondCalls]
  /\ holds \in [Threads -> SUBSET Mutexes]
  /\ holder \in [Mutexes -> Threads \cup {NoThread}]
  /\ immediate \in BOOLEAN /\ cq \in Seq(Consumers) /\ tokens \in 0..MaxTokens
  /\ want \subseteq Consumers /\ owes \subseteq Producers

\* A thread in cond_wait has given the mutex up and is still after a token.
CondPlaces ==
  \A t \in Threads :
    /\ call[t] \in {Awaiting, Between} => t \in want /\ Mutex \notin holds[t]
    /\ call[t] = Between => immediate
    /\ Contains(cq, t) => call[t] = Awaiting

CondLists == NoDuplicates(cq) /\ NoDuplicates(Queue(mu, Mutex))

\* The consumers that sleep are not too many for the tokens there are.
EnoughAwake(q, n, w, o) == q # << >> => n <= Cardinality(o) + Cardinality(w \ Members(q))

CondInv ==
  /\ CondTypes
  /\ CondKernel(k, Members(cq), Members(Queue(mu, Mutex)))
  /\ CondPlaces /\ CondLists
  /\ immediate \/ EnoughAwake(cq, tokens, want, owes)

(***************************************************************************)
(* The kernel in the calls of cond.c.                                      *)
(***************************************************************************)

LEMMA CondStarts ==
  ASSUME NEW w, NEW q, CondKernel(k, w, q)
  PROVE  CondSection(k, w, q)
BY SectionStarts DEF CondKernel, CondSection, KernelOK

\* A status is changed.
LEMMA CondStatus ==
  ASSUME NEW n, NEW w, NEW q, CondSection(n, w, q), NEW t \in Threads,
         NEW s \in {"cond", "sleeping", "pending"}
  PROVE  CondSection(SetStatus(n, t, s), IF s = "cond" THEN w \cup {t} ELSE w \ {t}, q \ {t})
<1> DEFINE m == SetStatus(n, t, s)
<1>1. s \in (Blocked \cup OnRunqueue) \ {"running"}
  BY DEF Blocked, OnRunqueue
<1>2. /\ WellFormed(m) /\ InSection(m, k)
      /\ \A v \in Threads : m.status[v] = IF v = t THEN s ELSE n.status[v]
  BY <1>1, SectionStatus DEF CondSection
<1> HIDE DEF m
<1>3. Sleepers(m, "cond") = IF s = "cond" THEN w \cup {t} ELSE w \ {t}
  BY <1>2 DEF Sleepers, CondSection
<1>4. Sleepers(m, "mutex") = q \ {t}
  BY <1>2 DEF Sleepers, CondSection
<1> QED BY <1>2, <1>3, <1>4 DEF CondSection, m

\* The caller blocks on the mutex.
LEMMA CondBlocks ==
  ASSUME NEW w, NEW q, CondKernel(k, w, q), NEW t \in Threads, Calls(k, t), NEW x \in Mutex_ts
  PROVE  CondSection(BlockOn(k, x, t), w, q \cup {t})
<1> DEFINE b == BlockOn(k, x, t)
<1>1. /\ WellFormed(b) /\ InSection(b, k)
      /\ \A v \in Threads : b.status[v] = IF v = t THEN "mutex" ELSE k.status[v]
  BY BlockSection DEF CondKernel
<1> HIDE DEF b
<1>2. k.status[t] # "cond"
  BY DEF CondKernel, KernelOK, IsReady, OnRunqueue
<1>3. Sleepers(b, "cond") = w /\ Sleepers(b, "mutex") = q \cup {t}
  BY <1>1, <1>2 DEF Sleepers, CondKernel
<1> QED BY <1>1, <1>3 DEF CondSection, b

\* mutex_unlock wakes the first waiter, who was not waiting for the condition.
LEMMA CondUnlocks ==
  ASSUME NEW w, NEW x \in Mutex_ts, CondKernel(k, w, Members(x.queue)), NoDuplicates(x.queue)
  PROVE  CondSection(UnlockOn(k, x), w, Members(Released(x).queue))
<1>1. CASE x.queue = << >>
  <2>1. UnlockOn(k, x) = k /\ Released(x).queue = x.queue
    BY <1>1 DEF UnlockOn, Released, Mutex_ts
  <2> QED BY <2>1, CondStarts
<1>2. CASE x.queue # << >>
  <2> DEFINE u == Head(x.queue)
             b == UnlockOn(k, x)
  <2>1. x.queue \in Seq(Threads)
    BY DEF Mutex_ts
  <2>2. /\ u \in Threads /\ Contains(x.queue, u)
        /\ \A v : Contains(Tail(x.queue), v) <=> (v # u /\ Contains(x.queue, v))
    BY <1>2, <2>1, TailFacts
  <2>3. /\ WellFormed(b) /\ InSection(b, k)
        /\ \A v \in Threads : b.status[v] = IF v = u THEN "pending" ELSE k.status[v]
    BY <1>2, <2>2, UnlockSection DEF CondKernel
  <2>4. Released(x).queue = Tail(x.queue)
    BY <1>2 DEF Released, Mutex_ts
  <2> HIDE DEF u, b
  <2>5. k.status[u] = "mutex"
    BY <2>2 DEF CondKernel, Sleepers, Members
  <2>6. Sleepers(b, "cond") = w
    BY <2>2, <2>3, <2>5 DEF Sleepers, CondKernel
  <2>7. Sleepers(b, "mutex") = Members(Tail(x.queue))
    BY <2>2, <2>3 DEF Sleepers, CondKernel, Members
  <2> QED BY <2>3, <2>4, <2>6, <2>7 DEF CondSection, b
<1> QED BY <1>1, <1>2

\* The section of t's call ends.
LEMMA CondEnds ==
  ASSUME KernelOK(k), NEW t \in Threads, Calls(k, t), NEW n, NEW w, NEW q,
         CondSection(n, w, q), NEW x \in TailCalls, x # NoTail \/ IsReady(n, t)
  PROVE  CondKernel(Ends(n, t, x), w, q)
<1> DEFINE m == Ends(n, t, x)
<1>1. KernelOK(m) /\ OnlyTail(m, n, t, x)
  BY SectionEnds DEF CondSection
<1> HIDE DEF m
<1>2. Sleepers(m, "cond") = w /\ Sleepers(m, "mutex") = q
  BY <1>1 DEF Sleepers, OnlyTail, CondSection
<1> QED BY <1>1, <1>2 DEF CondKernel, m

\* Scheduling changes nothing here.
LEMMA CondScheduled ==
  ASSUME NEW n, NEW m, NEW w, NEW q, KernelOK(m), Scheduled(m, n),
         Sleepers(n, "cond") = w, Sleepers(n, "mutex") = q
  PROVE  CondKernel(m, w, q)
<1>1. "cond" \in Blocked /\ "mutex" \in Blocked
  BY DEF Blocked
<1> QED BY <1>1, SleepersScheduled DEF CondKernel

\* Nor does sched_run inside cond_wait.
LEMMA CondRuns ==
  ASSUME KernelOK(k), NEW n, NEW w, NEW q, CondSection(n, w, q)
  PROVE  CondKernel(SchedRun(n), w, q)
<1>1. WellFormed(n) /\ OneRunning(n)
  BY DEF CondSection, InSection, KernelOK, OneRunning
<1>2. KernelOK(SchedRun(n)) /\ Scheduled(SchedRun(n), n)
  BY <1>1, SchedRunOK
<1> QED BY <1>2, CondScheduled DEF CondSection

\* An interrupt that has made threads ready ends.
LEMMA CondIsrEnds ==
  ASSUME NEW n, NEW w, NEW q, CondKernel(n, w, q), NEW p
  PROVE  CondKernel(IsrEnd(IsrSwitch(n, p)), w, q)
<1> DEFINE s == IsrSwitch(n, p)
<1>1. KernelOK(s) /\ Scheduled(s, n)
  BY IsrSwitchOK DEF CondKernel
<1> HIDE DEF s
<1>2. CondKernel(s, w, q)
  BY <1>1, CondScheduled DEF CondKernel
<1>3. KernelOK(IsrEnd(s)) /\ Scheduled(IsrEnd(s), s)
  BY <1>1, IsrEndOK
<1> QED BY <1>2, <1>3, CondScheduled DEF CondKernel, s

(***************************************************************************)
(* _cond_signal wakes the threads it has chosen, one after the other.      *)
(***************************************************************************)

Wakes(g, s) ==
  g = [i \in 0..Len(s) |-> IF i = 0 THEN k ELSE SetStatus(g[i - 1], s[i], "pending")]

LEMMA WakesExists ==
  ASSUME KernelOK(k), NEW s \in Seq(Threads)
  PROVE  \E g : Wakes(g, s)
<1> DEFINE K == {kk \in Kernels : WellFormed(kk)}
           f == [x \in K \X Threads |-> SetStatus(x[1], x[2], "pending")]
<1>1. k \in K
  BY DEF KernelOK, WellFormed
<1>2. \A kk \in K, u \in Threads : SetStatus(kk, u, "pending") \in K
  <2> TAKE kk \in K, u \in Threads
  <2>1. "pending" \in Blocked \cup OnRunqueue
    BY DEF OnRunqueue
  <2>2. WellFormed(SetStatus(kk, u, "pending"))
    BY <2>1, StatusSet
  <2> QED BY <2>2 DEF WellFormed
<1>3. f \in [K \X Threads -> K]
  BY <1>2
<1>4. \A kk \in K, u \in Threads : f[<<kk, u>>] = SetStatus(kk, u, "pending")
  OBVIOUS
<1> HIDE DEF f, K
<1>5. PICK g \in [0..Len(s) -> K] : Iterates(g, f, k, s, Len(s))
  BY <1>1, <1>3, IterationExists
<1>6. ASSUME NEW i \in 0..Len(s)
      PROVE  g[i] = IF i = 0 THEN k ELSE SetStatus(g[i - 1], s[i], "pending")
  <2>1. g[i] = IF i = 0 THEN k ELSE f[<<g[i - 1], s[i]>>]
    BY <1>5 DEF Iterates
  <2>2. CASE i # 0
    <3>1. i - 1 \in 0..Len(s) /\ s[i] \in Threads
      BY <2>2
    <3>2. g[i - 1] \in K
      BY <3>1, <1>5
    <3> QED BY <2>1, <2>2, <3>1, <3>2, <1>4
  <2> QED BY <2>1, <2>2
<1>7. g = [i \in 0..Len(s) |-> g[i]]
  BY <1>5
<1>8. Wakes(g, s)
  BY <1>6, <1>7 DEF Wakes
<1> QED BY <1>8

\* However many they are, these are ready then and no others.
LEMMA WakesFacts ==
  ASSUME KernelOK(k), NEW s \in Seq(Threads), NEW g, Wakes(g, s)
  PROVE  /\ KernelOK(g[Len(s)]) /\ InSection(g[Len(s)], k) /\ g[Len(s)].prio = k.prio
         /\ \A v \in Threads :
              g[Len(s)].status[v] = IF Contains(s, v) THEN "pending" ELSE k.status[v]
<1> DEFINE Good(i, m) ==
             /\ KernelOK(m) /\ InSection(m, k) /\ m.prio = k.prio
             /\ \A v \in Threads :
                  m.status[v] = IF \E j \in 1..i : s[j] = v THEN "pending" ELSE k.status[v]
           S == {i \in 0..Len(s) : Good(i, g[i])}
<1>1. Len(s) \in Nat /\ \A i \in 1..Len(s) : s[i] \in Threads
  OBVIOUS
<1>2. g[0] = k /\ \A i \in 1..Len(s) : g[i] = SetStatus(g[i - 1], s[i], "pending")
  BY <1>1 DEF Wakes
<1>3. 0 \in S
  <2>1. Good(0, k)
    BY SectionStarts
  <2> QED BY <1>1, <1>2, <2>1
<1>4. ASSUME NEW i \in 1..Len(s), i - 1 \in S PROVE i \in S
  <2> DEFINE m == g[i - 1]
  <2>1. Good(i - 1, m) /\ s[i] \in Threads
    BY <1>1, <1>4
  <2>2. g[i] = SetStatus(m, s[i], "pending")
    BY <1>2
  <2> DEFINE u == s[i]
  <2>3. /\ KernelOK(g[i]) /\ g[i].prio = m.prio
        /\ \A v \in Threads : g[i].status[v] = IF v = u THEN "pending" ELSE m.status[v]
    <3> HIDE DEF m, u
    <3>1. KernelOK(m) /\ u \in Threads /\ g[i] = SetStatus(m, u, "pending")
      BY <2>1, <2>2 DEF u
    <3> QED BY <3>1, WokenOK
  <2>4. InSection(g[i], k)
    <3>1. "pending" \in (Blocked \cup OnRunqueue) \ {"running"}
      BY DEF OnRunqueue
    <3> HIDE DEF m
    <3>2. WellFormed(m) /\ InSection(m, k)
      BY <2>1 DEF KernelOK
    <3> QED BY <2>1, <2>2, <3>1, <3>2, SectionStatus
  <2>5. \A v \in Threads : (\E j \in 1..i : s[j] = v) <=> (v = u \/ \E j \in 1..(i - 1) : s[j] = v)
    <3>1. \A j : j \in 1..i <=> (j = i \/ j \in 1..(i - 1))
      OBVIOUS
    <3> QED BY <3>1
  <2> HIDE DEF m, u
  <2>6. \A v \in Threads :
          g[i].status[v] = IF \E j \in 1..i : s[j] = v THEN "pending" ELSE k.status[v]
    BY <2>1, <2>3, <2>5
  <2>7. Good(i, g[i])
    BY <2>1, <2>3, <2>4, <2>6
  <2> HIDE DEF Good
  <2> QED BY <1>1, <2>7
<1> HIDE DEF S
<1>5. \A i \in 0..Len(s) : i \in S
  BY <1>1, <1>3, <1>4, UpTo
<1>6. Len(s) \in S
  BY <1>1, <1>5
<1> QED BY <1>6 DEF S, Contains

LEMMA CondTyped ==
  ASSUME CondInv
  PROVE  /\ KernelOK(k) /\ k \in Kernels /\ WellFormed(k)
         /\ mu[Mutex] \in Mutex_ts /\ mu[Mutex].queue \in Seq(Threads)
         /\ Queue(mu, Mutex) = mu[Mutex].queue /\ NoDuplicates(mu[Mutex].queue)
         /\ cq \in Seq(Threads) /\ NoDuplicates(cq) /\ Mutex \in Mutexes
         /\ CondKernel(k, Members(cq), Members(mu[Mutex].queue))
<1>1. Mutex \in Mutexes /\ Consumers \subseteq Threads
  BY CondPartsOK
<1>2. cq \in Seq(Threads)
  BY <1>1 DEF CondInv, CondTypes
<1>3. mu[Mutex] \in Mutex_ts
  BY <1>1 DEF CondInv, CondTypes
<1>4. mu[Mutex].queue \in Seq(Threads)
  BY <1>3 DEF Mutex_ts
<1>5. KernelOK(k) /\ WellFormed(k) /\ k \in Kernels
  BY DEF CondInv, CondKernel, KernelOK, WellFormed
<1> QED BY <1>1, <1>2, <1>3, <1>4, <1>5 DEF CondInv, CondLists, Queue

\* The waiters that are taken from the queue, and those that stay.
LEMMA ChosenFacts ==
  ASSUME CondInv, cq # << >>, NEW all \in BOOLEAN
  PROVE  /\ Chosen(all) \in Seq(Threads) /\ Members(Chosen(all)) # {}
         /\ Remaining(all) \in Seq(Consumers) /\ NoDuplicates(Remaining(all))
         /\ Members(Remaining(all)) = Members(cq) \ Members(Chosen(all))
         /\ Members(Chosen(all)) \subseteq Members(cq)
         /\ all \/ \E u \in Members(cq) : Members(Remaining(all)) = Members(cq) \ {u}
<1>1. cq \in Seq(Threads) /\ cq \in Seq(Consumers) /\ NoDuplicates(cq)
  BY CondTyped DEF CondInv, CondTypes
<1>2. /\ Head(cq) \in Threads /\ Contains(cq, Head(cq)) /\ NoDuplicates(Tail(cq))
      /\ \A x : Contains(Tail(cq), x) <=> (x # Head(cq) /\ Contains(cq, x))
  BY <1>1, TailFacts
<1>3. Tail(cq) \in Seq(Consumers)
  BY <1>1
<1>4. CASE all
  <2>1. Chosen(all) = cq /\ Remaining(all) = << >>
    BY <1>4 DEF Chosen, Remaining
  <2>2. Head(cq) \in Members(cq)
    BY <1>2 DEF Members
  <2>3. Members(<< >>) = {} /\ NoDuplicates(<< >>) /\ << >> \in Seq(Consumers)
    BY DEF Members, Contains, NoDuplicates
  <2> QED BY <1>1, <1>4, <2>1, <2>2, <2>3
<1>5. CASE ~all
  <2> DEFINE c == SubSeq(cq, 1, 1)
  <2>1. Chosen(all) = c /\ Remaining(all) = Tail(cq)
    BY <1>5 DEF Chosen, Remaining
  <2>2. c \in Seq(Threads) /\ Len(c) = 1 /\ c[1] = Head(cq)
    BY <1>1
  <2> HIDE DEF c
  <2>3. Members(c) = {Head(cq)}
    BY <1>2, <2>2 DEF Members, Contains
  <2>4. Members(Tail(cq)) = Members(cq) \ {Head(cq)}
    BY <1>2 DEF Members
  <2>5. Head(cq) \in Members(cq)
    BY <1>2 DEF Members
  <2> QED BY <1>2, <1>3, <2>1, <2>2, <2>3, <2>4, <2>5
<1> QED BY <1>4, <1>5

LEMMA WokenFacts ==
  ASSUME CondInv, cq # << >>, NEW all \in BOOLEAN
  PROVE  /\ KernelOK(Woken(all)) /\ InSection(Woken(all), k)
         /\ CondKernel(Woken(all), Members(Remaining(all)), Members(mu[Mutex].queue))
<1> DEFINE s == Chosen(all)
           m == Woken(all)
<1>1. /\ s \in Seq(Threads) /\ Members(s) \subseteq Members(cq)
      /\ Members(Remaining(all)) = Members(cq) \ Members(s)
  BY ChosenFacts
<1>2. /\ KernelOK(k) /\ Sleepers(k, "cond") = Members(cq)
      /\ Sleepers(k, "mutex") = Members(mu[Mutex].queue)
  BY CondTyped DEF CondKernel
<1>3. \E g : Wakes(g, s)
  BY <1>1, <1>2, WakesExists
<1>4. m = (CHOOSE g : Wakes(g, s))[Len(s)]
  BY DEF Woken, Wakes
<1> HIDE DEF s, m
<1>5. PICK g : Wakes(g, s) /\ m = g[Len(s)]
  BY <1>3, <1>4
<1>6. /\ KernelOK(m) /\ InSection(m, k)
      /\ \A v \in Threads : m.status[v] = IF Contains(s, v) THEN "pending" ELSE k.status[v]
  BY <1>1, <1>2, <1>5, WakesFacts
<1>7. Sleepers(m, "cond") = Members(Remaining(all))
  BY <1>1, <1>2, <1>6 DEF Sleepers, Members
<1>8. \A v \in Threads : Contains(s, v) => k.status[v] = "cond"
  BY <1>1, <1>2 DEF Sleepers, Members
<1>9. Sleepers(m, "mutex") = Sleepers(k, "mutex")
  BY <1>6, <1>8 DEF Sleepers
<1> QED BY <1>2, <1>6, <1>7, <1>9 DEF CondKernel, m

LEMMA MinPrioFacts ==
  ASSUME CondInv, cq # << >>, NEW all \in BOOLEAN
  PROVE  MinPrio(all) \in Prios
<1> DEFINE S == {k.prio[u] : u \in ToSet(Chosen(all))}
<1>1. Chosen(all) \in Seq(Threads) /\ Members(Chosen(all)) # {}
  BY ChosenFacts
<1>2. k.prio \in [Threads -> Prios]
  BY CondTyped DEF Kernels
<1>3. ToSet(Chosen(all)) = Members(Chosen(all))
  BY <1>1 DEF ToSet, Members, Contains
<1>4. S \subseteq Prios /\ S # {}
  BY <1>1, <1>2, <1>3 DEF Members
<1>5. S \in SUBSET Nat
  BY <1>4, PriosAreLevels
<1> HIDE DEF S
<1>6. Min(S) \in S
  BY <1>4, <1>5, MinOfNaturals
<1> QED BY <1>4, <1>6 DEF MinPrio, S


(***************************************************************************)
(* Counting the consumers that are awake and the signals still to come.    *)
(***************************************************************************)

LEMMA AwakeFacts ==
  ASSUME NEW q, NEW w \in SUBSET Threads, NEW o \in SUBSET Threads
  PROVE  /\ IsFiniteSet(w \ Members(q)) /\ IsFiniteSet(o)
         /\ Cardinality(w \ Members(q)) \in Nat /\ Cardinality(o) \in Nat
<1>1. IsFiniteSet(Threads)
  BY MutexPartsOK
<1>2. w \ Members(q) \in SUBSET Threads
  OBVIOUS
<1>3. IsFiniteSet(w \ Members(q)) /\ IsFiniteSet(o)
  BY <1>1, <1>2, FS_Subset
<1> QED BY <1>3, FS_CardinalityType

LEMMA EnoughTyped ==
  ASSUME CondInv
  PROVE  /\ want \in SUBSET Threads /\ owes \in SUBSET Threads /\ tokens \in Nat
         /\ want \subseteq Consumers /\ owes \subseteq Producers
BY CondPartsOK DEF CondInv, CondTypes

\* A consumer comes to the loop, or a waiter is taken from the queue.
LEMMA EnoughGrows ==
  ASSUME NEW q, NEW n \in Nat, NEW w \in SUBSET Threads, NEW o \in SUBSET Threads,
         EnoughAwake(q, n, w, o), q # << >>, NEW r, Members(r) \subseteq Members(q),
         NEW v \in SUBSET Threads, w \subseteq v
  PROVE  EnoughAwake(r, n, v, o)
<1>1. w \ Members(q) \in SUBSET (v \ Members(r))
  OBVIOUS
<1>2. /\ IsFiniteSet(v \ Members(r)) /\ Cardinality(v \ Members(r)) \in Nat
      /\ Cardinality(w \ Members(q)) \in Nat /\ Cardinality(o) \in Nat
  BY AwakeFacts
<1>3. Cardinality(w \ Members(q)) <= Cardinality(v \ Members(r))
  BY <1>1, <1>2, FS_Subset
<1> QED BY <1>2, <1>3 DEF EnoughAwake

\* A consumer that is awake takes a token.
LEMMA EnoughConsumed ==
  ASSUME NEW q, NEW n \in Nat, NEW w \in SUBSET Threads, NEW o \in SUBSET Threads,
         EnoughAwake(q, n, w, o), n > 0, NEW t \in w, t \notin Members(q)
  PROVE  EnoughAwake(q, n - 1, w \ {t}, o)
<1> DEFINE a == w \ Members(q)
<1>1. /\ IsFiniteSet(a) /\ Cardinality(a) \in Nat /\ Cardinality(o) \in Nat
  BY AwakeFacts
<1>2. t \in a /\ (w \ {t}) \ Members(q) = a \ {t}
  OBVIOUS
<1> HIDE DEF a
<1>3. Cardinality(a \ {t}) = Cardinality(a) - 1
  BY <1>1, <1>2, FS_RemoveElement
<1>4. q # << >> => n <= Cardinality(o) + Cardinality(a)
  BY DEF EnoughAwake, a
<1>5. q # << >> => n - 1 <= Cardinality(o) + (Cardinality(a) - 1)
  BY <1>1, <1>4
<1> QED BY <1>2, <1>3, <1>5 DEF EnoughAwake

\* A producer adds one and owes a signal.
LEMMA EnoughProduced ==
  ASSUME NEW q, NEW n \in Nat, NEW w \in SUBSET Threads, NEW o \in SUBSET Threads,
         EnoughAwake(q, n, w, o), NEW t \in Threads, t \notin o
  PROVE  EnoughAwake(q, n + 1, w, o \cup {t})
<1>1. /\ IsFiniteSet(o) /\ Cardinality(o) \in Nat /\ Cardinality(w \ Members(q)) \in Nat
  BY AwakeFacts
<1>2. Cardinality(o \cup {t}) = Cardinality(o) + 1
  BY <1>1, FS_AddElement
<1> QED BY <1>1, <1>2 DEF EnoughAwake

\* A producer's signal wakes a consumer.
LEMMA EnoughSignalled ==
  ASSUME NEW q, NEW n \in Nat, NEW w \in SUBSET Threads, NEW o \in SUBSET Threads,
         EnoughAwake(q, n, w, o), q # << >>, NEW t \in o,
         NEW u \in w, u \in Members(q), NEW r, Members(r) = Members(q) \ {u}
  PROVE  EnoughAwake(r, n, w, o \ {t})
<1> DEFINE a == w \ Members(q)
           b == w \ Members(r)
<1>1. /\ IsFiniteSet(a) /\ IsFiniteSet(o) /\ Cardinality(a) \in Nat /\ Cardinality(o) \in Nat
  BY AwakeFacts
<1>2. u \notin a /\ b = a \cup {u}
  OBVIOUS
<1>3. n <= Cardinality(o) + Cardinality(a)
  BY DEF EnoughAwake
<1> HIDE DEF a, b
<1>4. Cardinality(b) = Cardinality(a) + 1
  BY <1>1, <1>2, FS_AddElement
<1>5. Cardinality(o \ {t}) = Cardinality(o) - 1
  BY <1>1, FS_RemoveElement
<1>6. n <= (Cardinality(o) - 1) + (Cardinality(a) + 1)
  BY <1>1, <1>3
<1>7. n <= Cardinality(o \ {t}) + Cardinality(b)
  BY <1>4, <1>5, <1>6
<1> QED BY <1>7 DEF EnoughAwake, b

\* No tokens, or nobody asleep.
LEMMA EnoughForNone ==
  ASSUME NEW q, NEW n \in Nat, NEW w \in SUBSET Threads, NEW o \in SUBSET Threads,
         n = 0 \/ q = << >>
  PROVE  EnoughAwake(q, n, w, o)
<1>1. Cardinality(o) \in Nat /\ Cardinality(w \ Members(q)) \in Nat
  BY AwakeFacts
<1> QED BY <1>1 DEF EnoughAwake

(***************************************************************************)
(* What each step keeps.                                                   *)
(***************************************************************************)

LEMMA CondCallFacts ==
  /\ NoCall \notin {Relocking, Awaiting, Between} /\ Relocking \notin {Awaiting, Between}
  /\ Awaiting # Between
  /\ Relocking.op = "lock" /\ Awaiting.op = "cond" /\ Between.op = "unlocked"
  /\ NoCall.op = "none" /\ Relocking.m = Mutex
  /\ {NoCall, Relocking, Awaiting, Between} = CondCalls
<1>1. /\ Relocking.op = "lock" /\ Awaiting.op = "cond" /\ Between.op = "unlocked"
      /\ NoCall.op = "none" /\ Relocking.m = Mutex
  BY CallFacts DEF Relocking, Awaiting, Between
<1> QED BY <1>1 DEF CondCalls

LEMMA CondMuSet ==
  ASSUME CondInv, NEW x \in Mutex_ts, mu' = [mu EXCEPT ![Mutex] = x]
  PROVE  mu' \in [Mutexes -> Mutex_ts] /\ mu'[Mutex] = x
BY CondTyped DEF CondInv, CondTypes

LEMMA CondCallSet ==
  ASSUME CondInv, NEW t \in Threads, NEW c \in CondCalls, call' = [call EXCEPT ![t] = c]
  PROVE  /\ call' \in [Threads -> CondCalls] /\ call'[t] = c
         /\ \A u \in Threads : u # t => call'[u] = call[u]
BY DEF CondInv, CondTypes

\* A thread that makes a call waits for nothing.
LEMMA CondCallers ==
  ASSUME CondInv, NEW t \in Threads, Calls(k, t)
  PROVE  IsReady(k, t) /\ t \notin Members(cq) /\ t \notin Members(mu[Mutex].queue)
<1>1. IsReady(k, t)
  BY CondTyped DEF KernelOK
<1>2. k.status[t] # "cond" /\ k.status[t] # "mutex"
  BY <1>1 DEF IsReady, OnRunqueue
<1> QED BY <1>1, <1>2, CondTyped DEF CondKernel, Sleepers

\* Steps that touch the kernel only.
LEMMA CondKernelStep ==
  ASSUME CondInv, CondKernel(k', Members(cq), Members(mu[Mutex].queue)),
         UNCHANGED <<mutexVars, condVars>>
  PROVE  CondInv'
<1>1. Queue(mu, Mutex) = mu[Mutex].queue
  BY DEF Queue
<1> QED BY <1>1 DEF mutexVars, condVars, CondInv, CondTypes, CondPlaces, CondLists, Queue

\* t takes the mutex: its call, if it was in one, is over.
LEMMA CondTakes ==
  ASSUME CondInv, NEW t \in Threads, Calls(k, t), Takes(t, Mutex),
         call' \in [Threads -> CondCalls], call'[t] = NoCall,
         \A u \in Threads : u # t => call'[u] = call[u],
         UNCHANGED <<immediate, cq, tokens, owes>>,
         want \subseteq want', want' \subseteq Consumers
  PROVE  CondInv'
<1>1. /\ k' = k /\ mu' = [mu EXCEPT ![Mutex] = Taken(k, mu[Mutex], t)]
      /\ holder' = [holder EXCEPT ![Mutex] = t]
      /\ holds' = [holds EXCEPT ![t] = @ \cup {Mutex}]
  BY DEF Takes
<1> DEFINE x == Taken(k, mu[Mutex], t)
<1>2. x \in Mutex_ts /\ x.queue = mu[Mutex].queue
  BY CondTyped, TakenFacts
<1> HIDE DEF x
<1>3. mu' \in [Mutexes -> Mutex_ts] /\ mu'[Mutex] = x
  BY <1>1, <1>2, CondMuSet DEF x
<1>4. /\ holds' \in [Threads -> SUBSET Mutexes] /\ holder' \in [Mutexes -> Threads \cup {NoThread}]
      /\ \A u \in Threads : u # t => holds'[u] = holds[u]
  BY <1>1, CondTyped DEF CondInv, CondTypes
<1>5. CondTypes'
  BY <1>3, <1>4 DEF CondInv, CondTypes
<1>6. CondKernel(k', Members(cq'), Members(Queue(mu', Mutex)))
  BY <1>1, <1>2, <1>3, CondTyped DEF Queue
<1>7. CondPlaces'
  <2>1. t \notin Members(cq)
    BY CondCallers
  <2>2. ~Contains(cq, t)
    BY <2>1 DEF Members
  <2> QED BY <1>4, <2>2, CondCallFacts DEF CondInv, CondPlaces
<1>8. CondLists'
  BY <1>2, <1>3, CondTyped DEF CondLists, Queue
<1>9. immediate' \/ EnoughAwake(cq', tokens', want', owes')
  <2>1. want' \in SUBSET Threads
    BY CondPartsOK
  <2>2. CASE cq = << >>
    BY <2>1, <2>2, EnoughForNone, EnoughTyped
  <2>3. CASE cq # << >>
    BY <2>1, <2>3, EnoughGrows, EnoughTyped DEF CondInv
  <2> QED BY <2>2, <2>3
<1> QED BY <1>5, <1>6, <1>7, <1>8, <1>9 DEF CondInv

\* t has to wait for the mutex.
LEMMA CondBlocksOn ==
  ASSUME CondInv, NEW t \in Threads, Calls(k, t), BlocksOn(t, Mutex),
         call' \in [Threads -> CondCalls], call'[t] = Relocking,
         \A u \in Threads : u # t => call'[u] = call[u],
         UNCHANGED <<immediate, cq, tokens, owes>>,
         want \subseteq want', want' \subseteq Consumers
  PROVE  CondInv'
<1>1. /\ k' = Ends(BlockOn(k, mu[Mutex], t), t, YieldHigher)
      /\ mu' = [mu EXCEPT ![Mutex] = Queued(k, mu[Mutex], t)]
      /\ UNCHANGED <<holds, holder>>
  BY DEF BlocksOn
<1> DEFINE x == Queued(k, mu[Mutex], t)
<1>2. /\ x \in Mutex_ts /\ NoDuplicates(x.queue)
      /\ Members(x.queue) = Members(mu[Mutex].queue) \cup {t}
  <2> DEFINE q == mu[Mutex].queue
             r == AddToList(k, q, t)
  <2>1. t \notin Members(q) /\ q \in Seq(Threads) /\ NoDuplicates(q) /\ k \in Kernels
    BY CondCallers, CondTyped
  <2> HIDE DEF q
  <2>2. ~Contains(q, t)
    BY <2>1 DEF Members
  <2>3. /\ r \in Seq(Threads) /\ NoDuplicates(r)
        /\ \A u : Contains(r, u) <=> (u = t \/ Contains(q, u))
    BY <2>1, <2>2, AddFacts
  <2> HIDE DEF r
  <2>4. x.queue = r /\ x \in Mutex_ts
    BY <2>3, CondTyped DEF Queued, Mutex_ts, q, r
  <2> QED BY <2>3, <2>4 DEF Members, q
<1> HIDE DEF x
<1>3. mu' \in [Mutexes -> Mutex_ts] /\ mu'[Mutex] = x
  BY <1>1, <1>2, CondMuSet DEF x
<1>4. CondTypes'
  BY <1>1, <1>3 DEF CondInv, CondTypes
<1>5. CondKernel(k', Members(cq), Members(x.queue))
  <2>1. CondSection(BlockOn(k, mu[Mutex], t), Members(cq), Members(x.queue))
    BY <1>2, CondTyped, CondBlocks
  <2>2. YieldHigher \in TailCalls /\ YieldHigher # NoTail
    BY TailTypes DEF YieldHigher, NoTail
  <2> QED BY <1>1, <2>1, <2>2, CondEnds, CondTyped
<1>6. CondKernel(k', Members(cq'), Members(Queue(mu', Mutex)))
  BY <1>3, <1>5 DEF Queue
<1>7. CondPlaces'
  <2>1. t \notin Members(cq)
    BY CondCallers
  <2>2. ~Contains(cq, t)
    BY <2>1 DEF Members
  <2> QED BY <1>1, <2>2, CondCallFacts DEF CondInv, CondPlaces
<1>8. CondLists'
  BY <1>2, <1>3, CondTyped DEF CondLists, Queue
<1>9. immediate' \/ EnoughAwake(cq', tokens', want', owes')
  <2>1. want' \in SUBSET Threads
    BY CondPartsOK
  <2>2. CASE cq = << >>
    BY <2>1, <2>2, EnoughForNone, EnoughTyped
  <2>3. CASE cq # << >>
    BY <2>1, <2>3, EnoughGrows, EnoughTyped DEF CondInv
  <2> QED BY <2>2, <2>3
<1> QED BY <1>4, <1>6, <1>7, <1>8, <1>9 DEF CondInv


\* The mutex is given up: who is first in its queue leaves it.
LEMMA CondReleases ==
  ASSUME CondInv
  PROVE  LET x == Released(mu[Mutex])
         IN /\ x \in Mutex_ts /\ NoDuplicates(x.queue)
            /\ Members(x.queue) \subseteq Members(mu[Mutex].queue)
<1> DEFINE q == mu[Mutex].queue
           x == Released(mu[Mutex])
<1>1. mu[Mutex] \in Mutex_ts /\ q \in Seq(Threads) /\ NoDuplicates(q)
  BY CondTyped
<1>2. CASE q = << >>
  BY <1>1, <1>2 DEF Released, Mutex_ts
<1>3. CASE q # << >>
  <2>1. x = [mu[Mutex] EXCEPT !.queue = Tail(q)]
    BY <1>3 DEF Released
  <2> HIDE DEF x, q
  <2>2. /\ Tail(q) \in Seq(Threads) /\ NoDuplicates(Tail(q))
        /\ \A u : Contains(Tail(q), u) => Contains(q, u)
    BY <1>1, <1>3, TailFacts
  <2>3. x \in Mutex_ts /\ x.queue = Tail(q)
    BY <1>1, <2>1, <2>2 DEF Mutex_ts
  <2> QED BY <2>2, <2>3 DEF Members, x, q
<1> QED BY <1>2, <1>3

\* What t has then.
LEMMA CondGivesUp ==
  ASSUME CondInv, NEW t \in Threads, NEW h,
         mu' = [mu EXCEPT ![Mutex] = Released(mu[Mutex])],
         h \in Threads \cup {NoThread}, holder' = [holder EXCEPT ![Mutex] = h],
         holds' = [holds EXCEPT ![t] = @ \ {Mutex}]
  PROVE  /\ mu' \in [Mutexes -> Mutex_ts] /\ holds' \in [Threads -> SUBSET Mutexes]
         /\ holder' \in [Mutexes -> Threads \cup {NoThread}]
         /\ mu'[Mutex] = Released(mu[Mutex]) /\ NoDuplicates(Queue(mu', Mutex))
         /\ Mutex \notin holds'[t] /\ \A u \in Threads : holds'[u] \subseteq holds[u]
<1> DEFINE x == Released(mu[Mutex])
<1>1. x \in Mutex_ts /\ NoDuplicates(x.queue)
  BY CondReleases
<1> HIDE DEF x
<1>2. mu' \in [Mutexes -> Mutex_ts] /\ mu'[Mutex] = x
  BY <1>1, CondMuSet DEF x
<1>3. /\ holds' \in [Threads -> SUBSET Mutexes] /\ holder' \in [Mutexes -> Threads \cup {NoThread}]
      /\ Mutex \notin holds'[t] /\ \A u \in Threads : holds'[u] \subseteq holds[u]
  BY CondTyped DEF CondInv, CondTypes
<1> QED BY <1>1, <1>2, <1>3 DEF x, Queue

LEMMA NextHolderTyped ==
  ASSUME CondInv
  PROVE  NextHolder(mu[Mutex]) \in Threads \cup {NoThread}
<1>1. mu[Mutex].queue \in Seq(Threads)
  BY CondTyped
<1> QED BY <1>1 DEF NextHolder

\* mutex_unlock wakes the first waiter only; with the priorities or without.
LEMMA CondWakesFirst ==
  ASSUME CondInv
  PROVE  LET q == mu[Mutex].queue
             n == IF q = << >> THEN k ELSE SetStatus(k, Head(q), "pending")
         IN CondSection(n, Members(cq), Members(Released(mu[Mutex]).queue))
<1> DEFINE x == mu[Mutex]
           q == x.queue
           n == IF q = << >> THEN k ELSE SetStatus(k, Head(q), "pending")
           w == Members(cq)
<1>1. x \in Mutex_ts /\ q \in Seq(Threads) /\ NoDuplicates(q) /\ CondKernel(k, w, Members(q))
  BY CondTyped
<1>2. CondSection(k, w, Members(q))
  BY <1>1, CondStarts
<1>3. CASE q = << >>
  BY <1>2, <1>3 DEF Released, Mutex_ts
<1>4. CASE q # << >>
  <2>1. Released(x) = [x EXCEPT !.queue = Tail(q)]
    BY <1>4 DEF Released
  <2>2. Released(x).queue = Tail(q)
    BY <1>1, <2>1 DEF Mutex_ts
  <2> DEFINE u == Head(q)
  <2> HIDE DEF q, w, x
  <2>3. /\ u \in Threads /\ Contains(q, u)
        /\ \A v : Contains(Tail(q), v) <=> (v # u /\ Contains(q, v))
    BY <1>1, <1>4, TailFacts
  <2> HIDE DEF u
  <2>4. n = SetStatus(k, u, "pending")
    BY <1>4 DEF u
  <2> HIDE DEF n
  <2>5. CondSection(n, w \ {u}, Members(q) \ {u})
    <3> DEFINE s == "pending"
    <3>1. s \in {"cond", "sleeping", "pending"} /\ s # "cond"
      OBVIOUS
    <3>2. n = SetStatus(k, u, s)
      BY <2>4
    <3> HIDE DEF s
    <3>3. CondSection(SetStatus(k, u, s), IF s = "cond" THEN w \cup {u} ELSE w \ {u}, Members(q) \ {u})
      BY <1>2, <2>3, <3>1, CondStatus
    <3> QED BY <3>1, <3>2, <3>3
  <2>6. Members(Tail(q)) = Members(q) \ {u}
    BY <2>3 DEF Members
  <2>7. u \notin w
    <3>1. u \in Members(q)
      BY <2>3 DEF Members
    <3> QED BY <1>1, <3>1 DEF CondKernel, Sleepers
  <2>8. w \ {u} = w
    BY <2>7
  <2> QED BY <2>2, <2>5, <2>6, <2>8 DEF n, w, q, x
<1> QED BY <1>3, <1>4

\* The invariant after a step that gives the mutex up and leaves the condition alone.
LEMMA CondGivenUp ==
  ASSUME CondInv, NEW t \in Threads, t \notin want, NEW h,
         mu' = [mu EXCEPT ![Mutex] = Released(mu[Mutex])],
         h \in Threads \cup {NoThread}, holder' = [holder EXCEPT ![Mutex] = h],
         holds' = [holds EXCEPT ![t] = @ \ {Mutex}],
         CondKernel(k', Members(cq), Members(Released(mu[Mutex]).queue)),
         UNCHANGED <<call, condVars>>
  PROVE  CondInv'
<1>1. /\ mu' \in [Mutexes -> Mutex_ts] /\ holds' \in [Threads -> SUBSET Mutexes]
      /\ holder' \in [Mutexes -> Threads \cup {NoThread}]
      /\ mu'[Mutex] = Released(mu[Mutex]) /\ NoDuplicates(Queue(mu', Mutex))
      /\ \A u \in Threads : holds'[u] \subseteq holds[u]
  BY CondGivesUp
<1>2. CondTypes'
  BY <1>1 DEF CondInv, CondTypes, condVars
<1>3. CondKernel(k', Members(cq'), Members(Queue(mu', Mutex)))
  BY <1>1 DEF condVars, Queue
<1>4. CondPlaces'
  BY <1>1 DEF CondInv, CondPlaces, condVars
<1>5. CondLists'
  BY <1>1, CondTyped DEF CondLists, condVars
<1>6. immediate' \/ EnoughAwake(cq', tokens', want', owes')
  BY DEF CondInv, condVars
<1> QED BY <1>2, <1>3, <1>4, <1>5, <1>6 DEF CondInv

LEMMA LeaveKeeps ==
  ASSUME CondInv, NEW t \in Threads, Leave(t)
  PROVE  CondInv'
<1> DEFINE x == Released(mu[Mutex])
           q == mu[Mutex].queue
<1>1. t \notin want /\ UNCHANGED condVars
  BY DEF Leave
<1>2. NextHolder(mu[Mutex]) \in Threads \cup {NoThread}
  BY NextHolderTyped
<1>3. Calls(k, t) /\ KernelOK(k) /\ IsReady(k, t)
  BY CondTyped, CondCallers DEF Leave, Unlock, UnlockAndSleep, Free
<1>4. YieldHigher \in TailCalls /\ YieldHigher # NoTail /\ NoTail \in TailCalls
  BY TailTypes DEF YieldHigher, NoTail
<1>5. CASE Unlock(t, Mutex)
  <2>1. /\ k' = Ends(UnlockOn(k, mu[Mutex]), t, IF q = << >> THEN NoTail ELSE YieldHigher)
        /\ mu' = [mu EXCEPT ![Mutex] = x]
        /\ holder' = [holder EXCEPT ![Mutex] = NextHolder(mu[Mutex])]
        /\ holds' = [holds EXCEPT ![t] = @ \ {Mutex}]
        /\ UNCHANGED call
    BY <1>5 DEF Unlock
  <2>2. CondSection(UnlockOn(k, mu[Mutex]), Members(cq), Members(x.queue))
    BY CondTyped, CondUnlocks
  <2>3. CondKernel(k', Members(cq), Members(x.queue))
    <3>1. CASE q = << >>
      <4>1. UnlockOn(k, mu[Mutex]) = k /\ k' = Ends(UnlockOn(k, mu[Mutex]), t, NoTail)
        BY <2>1, <3>1 DEF UnlockOn
      <4> QED BY <1>3, <1>4, <2>2, <4>1, CondEnds
    <3>2. CASE q # << >>
      <4>1. k' = Ends(UnlockOn(k, mu[Mutex]), t, YieldHigher)
        BY <2>1, <3>2
      <4> QED BY <1>3, <1>4, <2>2, <4>1, CondEnds
    <3> QED BY <3>1, <3>2
  <2> QED BY <1>1, <1>2, <2>1, <2>3, CondGivenUp
<1>6. CASE UnlockAndSleep(t, Mutex)
  <2> DEFINE n == IF q = << >> THEN k ELSE SetStatus(k, Head(q), "pending")
  <2>1. /\ k' = Ends(SetStatus(n, t, "sleeping"), t, YieldHigher)
        /\ mu' = [mu EXCEPT ![Mutex] = x]
        /\ holder' = [holder EXCEPT ![Mutex] = NextHolder(mu[Mutex])]
        /\ holds' = [holds EXCEPT ![t] = @ \ {Mutex}]
        /\ UNCHANGED call
    BY <1>6 DEF UnlockAndSleep
  <2>2. CondSection(n, Members(cq), Members(x.queue))
    BY CondWakesFirst
  <2>3. t \notin Members(cq) /\ t \notin Members(x.queue)
    BY <1>3, CondCallers, CondReleases
  <2> DEFINE w == Members(cq)
             r == Members(x.queue)
             s == "sleeping"
  <2>4. s \in {"cond", "sleeping", "pending"} /\ s # "cond"
    OBVIOUS
  <2>5. k' = Ends(SetStatus(n, t, s), t, YieldHigher)
    BY <2>1
  <2>6. w \ {t} = w /\ r \ {t} = r
    BY <2>3
  <2> HIDE DEF n, w, r, s
  <2>7. CondSection(SetStatus(n, t, s), IF s = "cond" THEN w \cup {t} ELSE w \ {t}, r \ {t})
    BY <2>2, <2>4, CondStatus DEF w, r
  <2>8. CondSection(SetStatus(n, t, s), w, r)
    BY <2>4, <2>6, <2>7
  <2>9. CondKernel(k', w, r)
    BY <1>3, <1>4, <2>5, <2>8, CondEnds
  <2> QED BY <1>1, <1>2, <2>1, <2>9, CondGivenUp DEF w, r
<1> QED BY <1>5, <1>6 DEF Leave


\* t joins the queue of the condition; kk is the kernel after mutex_unlock.
LEMMA CondJoins ==
  ASSUME CondInv, NEW t \in Threads, Calls(k, t), t \in want,
         NEW kk, NEW q, CondSection(kk, Members(cq), q), t \notin q, Joins(kk, t)
  PROVE  /\ CondKernel(k', Members(cq'), q)
         /\ cq' \in Seq(Consumers) /\ NoDuplicates(cq')
         /\ \A u \in Threads : Contains(cq', u) <=> (u = t \/ Contains(cq, u))
         /\ call' \in [Threads -> CondCalls] /\ call'[t] = Awaiting
         /\ \A u \in Threads : u # t => call'[u] = call[u]
<1> DEFINE w == Members(cq)
<1>1. /\ k' = Ends(SetStatus(kk, t, "cond"), t, YieldHigher)
      /\ cq' = AddToList(kk, cq, t)
      /\ call' = [call EXCEPT ![t] = Awaiting]
  BY DEF Joins, Awaiting
<1>2. /\ call' \in [Threads -> CondCalls] /\ call'[t] = Awaiting
      /\ \A u \in Threads : u # t => call'[u] = call[u]
  <2>1. Awaiting \in CondCalls
    BY DEF CondCalls
  <2> QED BY <1>1, <2>1, CondCallSet
<1>3. cq \in Seq(Threads) /\ NoDuplicates(cq) /\ kk \in Kernels /\ ~Contains(cq, t) /\ KernelOK(k)
  <2>1. t \notin Members(cq)
    BY CondCallers
  <2> QED BY <2>1, CondTyped DEF Members, CondSection, WellFormed
<1>4. /\ cq' \in Seq(Threads) /\ NoDuplicates(cq')
      /\ \A u : Contains(cq', u) <=> (u = t \/ Contains(cq, u))
  BY <1>1, <1>3, AddFacts
<1>5. cq' \in Seq(Consumers)
  <2>1. \A u : Contains(cq', u) => u \in Consumers
    <3>1. cq \in Seq(Consumers) /\ t \in Consumers
      BY DEF CondInv, CondTypes
    <3>2. \A u : Contains(cq, u) => u \in Consumers
      <4>1. \A j \in 1..Len(cq) : cq[j] \in Consumers
        BY <3>1
      <4> QED BY <4>1 DEF Contains
    <3> QED BY <1>4, <3>1, <3>2
  <2>2. \A j \in 1..Len(cq') : cq'[j] \in Consumers
    BY <2>1 DEF Contains
  <2> QED BY <1>4, <2>2
<1>6. Members(cq') = w \cup {t}
  BY <1>4 DEF Members
<1>7. CondKernel(k', w \cup {t}, q)
  <2> DEFINE s == "cond"
  <2>1. s \in {"cond", "sleeping", "pending"} /\ s = "cond"
    OBVIOUS
  <2>2. k' = Ends(SetStatus(kk, t, s), t, YieldHigher)
    BY <1>1
  <2>3. q \ {t} = q
    OBVIOUS
  <2>4. YieldHigher \in TailCalls /\ YieldHigher # NoTail
    BY TailTypes DEF YieldHigher, NoTail
  <2> HIDE DEF s, w
  <2>5. CondSection(SetStatus(kk, t, s), IF s = "cond" THEN w \cup {t} ELSE w \ {t}, q \ {t})
    BY <2>1, CondStatus DEF w
  <2>6. CondSection(SetStatus(kk, t, s), w \cup {t}, q)
    BY <2>1, <2>3, <2>5
  <2> QED BY <1>3, <2>2, <2>4, <2>6, CondEnds
<1> QED BY <1>2, <1>4, <1>5, <1>6, <1>7

LEMMA MustWaitFacts ==
  ASSUME CondInv, NEW t \in Threads, MustWait(t)
  PROVE  /\ Calls(k, t) /\ t \in want /\ tokens = 0 /\ KernelOK(k)
         /\ t \notin Members(cq) /\ t \notin Members(Released(mu[Mutex]).queue)
<1>1. Calls(k, t) /\ t \in want /\ tokens = 0
  BY DEF MustWait, Free
<1> QED BY <1>1, CondTyped, CondCallers, CondReleases

LEMMA CondWaitKeeps ==
  ASSUME CondInv, NEW t \in Threads, CondWait(t)
  PROVE  CondInv'
<1> DEFINE q == Members(Released(mu[Mutex]).queue)
           kk == UnlockOn(k, mu[Mutex])
<1>1. /\ MustWait(t) /\ GivesUp(t) /\ Joins(kk, t)
      /\ UNCHANGED <<immediate, tokens, want, owes>>
  BY DEF CondWait
<1>2. Calls(k, t) /\ t \in want /\ tokens = 0 /\ t \notin q /\ t \notin Members(cq)
  BY <1>1, MustWaitFacts
<1>3. CondSection(kk, Members(cq), q)
  BY CondTyped, CondUnlocks
<1>4. /\ mu' \in [Mutexes -> Mutex_ts] /\ holds' \in [Threads -> SUBSET Mutexes]
      /\ holder' \in [Mutexes -> Threads \cup {NoThread}]
      /\ mu'[Mutex] = Released(mu[Mutex]) /\ NoDuplicates(Queue(mu', Mutex))
      /\ Mutex \notin holds'[t] /\ \A u \in Threads : holds'[u] \subseteq holds[u]
  BY <1>1, NextHolderTyped, CondGivesUp DEF GivesUp
<1> HIDE DEF kk
<1>5. /\ CondKernel(k', Members(cq'), q) /\ cq' \in Seq(Consumers) /\ NoDuplicates(cq')
      /\ \A u \in Threads : Contains(cq', u) <=> (u = t \/ Contains(cq, u))
      /\ call' \in [Threads -> CondCalls] /\ call'[t] = Awaiting
      /\ \A u \in Threads : u # t => call'[u] = call[u]
  BY <1>1, <1>2, <1>3, CondJoins
<1>6. CondTypes'
  BY <1>1, <1>4, <1>5 DEF CondInv, CondTypes
<1>7. CondKernel(k', Members(cq'), Members(Queue(mu', Mutex)))
  BY <1>4, <1>5 DEF Queue
<1>8. CondPlaces'
  BY <1>1, <1>2, <1>4, <1>5, CondCallFacts DEF CondInv, CondPlaces
<1>9. CondLists'
  BY <1>4, <1>5 DEF CondLists
<1>10. EnoughAwake(cq', tokens', want', owes')
  BY <1>1, <1>2, EnoughForNone, EnoughTyped
<1> QED BY <1>6, <1>7, <1>8, <1>9, <1>10 DEF CondInv

LEMMA CondWaitUnlocksKeeps ==
  ASSUME CondInv, NEW t \in Threads, CondWaitUnlocks(t)
  PROVE  CondInv'
<1> DEFINE q == Members(Released(mu[Mutex]).queue)
           kk == UnlockOn(k, mu[Mutex])
<1>1. /\ MustWait(t) /\ GivesUp(t) /\ immediate /\ k' = SchedRun(kk)
      /\ call' = [call EXCEPT ![t] = Between]
      /\ UNCHANGED condVars
  BY DEF CondWaitUnlocks, Between
<1>2. Calls(k, t) /\ t \in want /\ KernelOK(k) /\ t \notin Members(cq)
  BY <1>1, MustWaitFacts
<1>3. CondSection(kk, Members(cq), q)
  BY CondTyped, CondUnlocks
<1>4. /\ mu' \in [Mutexes -> Mutex_ts] /\ holds' \in [Threads -> SUBSET Mutexes]
      /\ holder' \in [Mutexes -> Threads \cup {NoThread}]
      /\ mu'[Mutex] = Released(mu[Mutex]) /\ NoDuplicates(Queue(mu', Mutex))
      /\ Mutex \notin holds'[t] /\ \A u \in Threads : holds'[u] \subseteq holds[u]
  BY <1>1, NextHolderTyped, CondGivesUp DEF GivesUp
<1>5. CondKernel(k', Members(cq), q)
  BY <1>1, <1>2, <1>3, CondRuns
<1>6. /\ call' \in [Threads -> CondCalls] /\ call'[t] = Between
      /\ \A u \in Threads : u # t => call'[u] = call[u]
  BY <1>1, CondCallSet, CondCallFacts
<1>7. CondTypes'
  BY <1>1, <1>4, <1>6 DEF CondInv, CondTypes, condVars
<1>8. CondKernel(k', Members(cq'), Members(Queue(mu', Mutex)))
  BY <1>1, <1>4, <1>5 DEF Queue, condVars
<1>9. CondPlaces'
  <2>1. ~Contains(cq, t)
    BY <1>2 DEF Members
  <2> QED BY <1>1, <1>2, <1>4, <1>6, <2>1, CondCallFacts DEF CondInv, CondPlaces, condVars
<1>10. CondLists'
  BY <1>1, <1>4, CondTyped DEF CondLists, condVars
<1> QED BY <1>1, <1>7, <1>8, <1>9, <1>10 DEF CondInv, condVars

LEMMA CondWaitJoinsKeeps ==
  ASSUME CondInv, NEW t \in Threads, CondWaitJoins(t)
  PROVE  CondInv'
<1> DEFINE q == Members(mu[Mutex].queue)
<1>1. /\ Calls(k, t) /\ call[t] = Between /\ Joins(k, t)
      /\ UNCHANGED <<mu, holds, holder, immediate, tokens, want, owes>>
  BY DEF CondWaitJoins, Between
<1>2. t \notin q /\ CondSection(k, Members(cq), q)
  BY <1>1, CondTyped, CondCallers, CondStarts
<1>3. t \in want /\ Mutex \notin holds[t] /\ immediate
  BY <1>1, CondCallFacts DEF CondInv, CondPlaces
<1>4. /\ CondKernel(k', Members(cq'), q) /\ cq' \in Seq(Consumers) /\ NoDuplicates(cq')
      /\ \A u \in Threads : Contains(cq', u) <=> (u = t \/ Contains(cq, u))
      /\ call' \in [Threads -> CondCalls] /\ call'[t] = Awaiting
      /\ \A u \in Threads : u # t => call'[u] = call[u]
  BY <1>1, <1>2, <1>3, CondJoins
<1>5. CondTypes'
  BY <1>1, <1>4 DEF CondInv, CondTypes
<1>6. CondKernel(k', Members(cq'), Members(Queue(mu', Mutex)))
  BY <1>1, <1>4 DEF Queue
<1>7. CondPlaces'
  BY <1>1, <1>3, <1>4, CondCallFacts DEF CondInv, CondPlaces
<1>8. CondLists'
  BY <1>1, <1>4, CondTyped DEF CondLists, Queue
<1> QED BY <1>1, <1>3, <1>5, <1>6, <1>7, <1>8 DEF CondInv

LEMMA CondWaitRelocksKeeps ==
  ASSUME CondInv, NEW t \in Threads, CondWaitRelocks(t)
  PROVE  CondInv'
<1>1. /\ Calls(k, t) /\ UNCHANGED condVars
      /\ \/ Takes(t, Mutex) /\ call' = [call EXCEPT ![t] = NoCall]
         \/ BlocksOn(t, Mutex) /\ call' = [call EXCEPT ![t] = Relocking]
  BY DEF CondWaitRelocks, Relocking
<1>2. want' = want /\ want' \subseteq Consumers
  BY <1>1, EnoughTyped DEF condVars
<1>3. CASE Takes(t, Mutex) /\ call' = [call EXCEPT ![t] = NoCall]
  <2>1. /\ call' \in [Threads -> CondCalls] /\ call'[t] = NoCall
        /\ \A u \in Threads : u # t => call'[u] = call[u]
    BY <1>3, CondCallSet, CondCallFacts
  <2> QED BY <1>1, <1>2, <1>3, <2>1, CondTakes DEF condVars
<1>4. CASE BlocksOn(t, Mutex) /\ call' = [call EXCEPT ![t] = Relocking]
  <2>1. /\ call' \in [Threads -> CondCalls] /\ call'[t] = Relocking
        /\ \A u \in Threads : u # t => call'[u] = call[u]
    BY <1>4, CondCallSet, CondCallFacts
  <2> QED BY <1>1, <1>2, <1>4, <2>1, CondBlocksOn DEF condVars
<1> QED BY <1>1, <1>3, <1>4

LEMMA EnterKeeps ==
  ASSUME CondInv, NEW t \in Threads, Enter(t)
  PROVE  CondInv'
<1>1. /\ Calls(k, t) /\ call[t] = NoCall /\ UNCHANGED <<immediate, cq, tokens, owes>>
      /\ want' = IF t \in Consumers THEN want \cup {t} ELSE want
      /\ \/ Takes(t, Mutex) /\ UNCHANGED call
         \/ BlocksOn(t, Mutex) /\ call' = [call EXCEPT ![t] = Relocking]
  BY DEF Enter, Lock, Free, Relocking
<1>2. want \subseteq want' /\ want' \subseteq Consumers
  BY <1>1, EnoughTyped
<1>3. CASE Takes(t, Mutex) /\ UNCHANGED call
  <2>1. /\ call' \in [Threads -> CondCalls] /\ call'[t] = NoCall
        /\ \A u \in Threads : u # t => call'[u] = call[u]
    BY <1>1, <1>3 DEF CondInv, CondTypes
  <2> QED BY <1>1, <1>2, <1>3, <2>1, CondTakes
<1>4. CASE BlocksOn(t, Mutex) /\ call' = [call EXCEPT ![t] = Relocking]
  <2>1. /\ call' \in [Threads -> CondCalls] /\ call'[t] = Relocking
        /\ \A u \in Threads : u # t => call'[u] = call[u]
    BY <1>4, CondCallSet, CondCallFacts
  <2> QED BY <1>1, <1>2, <1>4, <2>1, CondBlocksOn
<1> QED BY <1>1, <1>3, <1>4

LEMMA ConsumeKeeps ==
  ASSUME CondInv, NEW t \in Threads, Consume(t)
  PROVE  CondInv'
<1>1. /\ Calls(k, t) /\ call[t] = NoCall /\ t \in want /\ tokens > 0
      /\ tokens' = tokens - 1 /\ want' = want \ {t}
      /\ UNCHANGED <<vars, immediate, cq, owes>>
  BY DEF Consume, Free
<1>2. UNCHANGED <<k, mu, call, holds, holder, immediate, cq, owes>>
  BY <1>1 DEF vars, mutexVars
<1>3. t \notin Members(cq)
  BY <1>1, CondCallers
<1>4. tokens' \in 0..MaxTokens
  BY <1>1, CondPartsOK DEF CondInv, CondTypes
<1>5. CondTypes'
  BY <1>1, <1>2, <1>4 DEF CondInv, CondTypes
<1>6. CondPlaces'
  BY <1>1, <1>2, CondCallFacts DEF CondInv, CondPlaces
<1>7. CondKernel(k', Members(cq'), Members(Queue(mu', Mutex))) /\ CondLists'
  BY <1>2 DEF CondInv, CondLists
<1>8. immediate' \/ EnoughAwake(cq', tokens', want', owes')
  BY <1>1, <1>2, <1>3, EnoughConsumed, EnoughTyped DEF CondInv
<1> QED BY <1>5, <1>6, <1>7, <1>8 DEF CondInv

LEMMA ProduceKeeps ==
  ASSUME CondInv, NEW t \in Threads, Produce(t)
  PROVE  CondInv'
<1>1. /\ t \in Producers \ owes /\ tokens < MaxTokens
      /\ tokens' = tokens + 1 /\ owes' = owes \cup {t}
      /\ UNCHANGED <<vars, immediate, cq, want>>
  BY DEF Produce, Free
<1>2. UNCHANGED <<k, mu, call, holds, holder, immediate, cq, want>>
  BY <1>1 DEF vars, mutexVars
<1>3. tokens' \in 0..MaxTokens
  BY <1>1, CondPartsOK DEF CondInv, CondTypes
<1>4. CondTypes'
  BY <1>1, <1>2, <1>3 DEF CondInv, CondTypes
<1>5. CondPlaces'
  BY <1>2 DEF CondInv, CondPlaces
<1>6. CondKernel(k', Members(cq'), Members(Queue(mu', Mutex))) /\ CondLists'
  BY <1>2 DEF CondInv, CondLists
<1>7. immediate' \/ EnoughAwake(cq', tokens', want', owes')
  BY <1>1, <1>2, EnoughProduced, EnoughTyped, CondPartsOK DEF CondInv
<1> QED BY <1>4, <1>5, <1>6, <1>7 DEF CondInv


LEMMA CondResumeKeeps ==
  ASSUME CondInv, NEW t \in Threads, Resume(t), UNCHANGED condVars
  PROVE  CondInv'
<1>1. call[t] \in {NoCall, Relocking, Awaiting, Between}
  BY CondCallFacts DEF CondInv, CondTypes
<1>2. call[t].op \in {"lock", "cancelable"} /\ Calls(k, t)
  BY DEF Resume
<1>3. call[t] = Relocking
  BY <1>1, <1>2, CondCallFacts
<1>4. call[t].op = "lock" /\ call[t].m = Mutex
  BY <1>3, CondCallFacts
<1>5. /\ holds' = [holds EXCEPT ![t] = @ \cup {call[t].m}]
      /\ call' = [call EXCEPT ![t] = NoCall]
      /\ UNCHANGED <<k, mu, holder>>
  BY <1>4 DEF Resume
<1>6. /\ call' \in [Threads -> CondCalls] /\ call'[t] = NoCall
      /\ \A u \in Threads : u # t => call'[u] = call[u]
  BY <1>5, CondCallSet, CondCallFacts
<1>7. /\ holds' \in [Threads -> SUBSET Mutexes]
      /\ \A u \in Threads : u # t => holds'[u] = holds[u]
  BY <1>4, <1>5, CondTyped DEF CondInv, CondTypes
<1>8. CondTypes'
  BY <1>5, <1>6, <1>7 DEF CondInv, CondTypes, condVars
<1>9. CondPlaces'
  <2>1. ~Contains(cq, t)
    <3>1. t \notin Members(cq)
      BY <1>2, CondCallers
    <3> QED BY <3>1 DEF Members
  <2> QED BY <1>6, <1>7, <2>1, CondCallFacts DEF CondInv, CondPlaces, condVars
<1>10. CondKernel(k', Members(cq'), Members(Queue(mu', Mutex))) /\ CondLists'
  BY <1>5 DEF CondInv, CondLists, condVars
<1> QED BY <1>8, <1>9, <1>10 DEF CondInv, condVars

LEMMA CondYieldsKeeps ==
  ASSUME CondInv, NEW t \in Threads, Yields(t), UNCHANGED condVars
  PROVE  CondInv'
<1>1. Calls(k, t) /\ k' = Ends(k, t, Yield) /\ UNCHANGED mutexVars
  BY DEF Yields, Free
<1>2. Yield \in TailCalls /\ Yield # NoTail
  BY TailTypes DEF Yield, NoTail
<1>3. CondSection(k, Members(cq), Members(mu[Mutex].queue))
  BY CondTyped, CondStarts
<1>4. CondKernel(k', Members(cq), Members(mu[Mutex].queue))
  BY <1>1, <1>2, <1>3, CondTyped, CondEnds
<1> QED BY <1>1, <1>4, CondKernelStep

LEMMA CondRescheduleKeeps ==
  ASSUME CondInv, NEW t \in Threads, Reschedule(t), UNCHANGED condVars
  PROVE  CondInv'
<1>1. Executes(k, t) /\ k.tail[t] # NoTail /\ k' = TailCall(k, t) /\ UNCHANGED mutexVars
  BY DEF Reschedule
<1>2. KernelOK(TailCall(k, t)) /\ Scheduled(TailCall(k, t), k)
  BY <1>1, TailCallOK, CondTyped
<1>3. CondKernel(k', Members(cq), Members(mu[Mutex].queue))
  BY <1>1, <1>2, CondScheduled, CondTyped DEF CondKernel
<1> QED BY <1>1, <1>3, CondKernelStep

LEMMA CondIsrWakeupKeeps ==
  ASSUME CondInv, NEW t \in Threads, IsrWakeup(t), UNCHANGED condVars
  PROVE  CondInv'
<1> DEFINE w == Members(cq)
           q == Members(mu[Mutex].queue)
           n == SetStatus(k, t, "pending")
<1>1. /\ k.status[t] = "sleeping" /\ k' = IsrEnd(IsrSwitch(n, k.prio[t]))
      /\ UNCHANGED mutexVars
  BY DEF IsrWakeup
<1>2. KernelOK(k) /\ Sleepers(k, "cond") = w /\ Sleepers(k, "mutex") = q
  BY CondTyped DEF CondKernel
<1>3. /\ KernelOK(n)
      /\ \A v \in Threads : n.status[v] = IF v = t THEN "pending" ELSE k.status[v]
  BY <1>2, WokenOK
<1> HIDE DEF n, w, q
<1>4. Sleepers(n, "cond") = w /\ Sleepers(n, "mutex") = q
  BY <1>1, <1>2, <1>3 DEF Sleepers
<1>5. CondKernel(n, w, q)
  BY <1>3, <1>4 DEF CondKernel
<1>6. CondKernel(k', w, q)
  BY <1>1, <1>5, CondIsrEnds
<1> QED BY <1>1, <1>6, CondKernelStep DEF w, q

\* The waiters that were chosen leave the queue; o is what producers owe then.
LEMMA CondSignalled ==
  ASSUME CondInv, cq # << >>, NEW all \in BOOLEAN, cq' = Remaining(all),
         CondKernel(k', Members(Remaining(all)), Members(mu[Mutex].queue)),
         UNCHANGED <<mutexVars, immediate, tokens, want>>,
         owes' = owes \/ \E t \in owes : owes' = owes \ {t}
  PROVE  CondInv'
<1>1. /\ Remaining(all) \in Seq(Consumers) /\ NoDuplicates(Remaining(all))
      /\ Members(Remaining(all)) = Members(cq) \ Members(Chosen(all))
      /\ all \/ \E u \in Members(cq) : Members(Remaining(all)) = Members(cq) \ {u}
  BY ChosenFacts
<1>2. UNCHANGED <<mu, call, holds, holder, immediate, tokens, want>>
  BY DEF mutexVars
<1>3. CondTypes'
  BY <1>1, <1>2 DEF CondInv, CondTypes
<1>4. CondPlaces'
  <2>1. \A u \in Threads : Contains(cq', u) => Contains(cq, u)
    BY <1>1 DEF Members
  <2> QED BY <1>2, <2>1 DEF CondInv, CondPlaces
<1>5. CondKernel(k', Members(cq'), Members(Queue(mu', Mutex))) /\ CondLists'
  BY <1>1, <1>2 DEF CondInv, CondLists, Queue
<1>6. owes' \in SUBSET Threads
  BY EnoughTyped
<1>7. immediate' \/ EnoughAwake(cq', tokens', want', owes')
  <2>1. CASE immediate
    BY <1>2, <2>1
  <2>2. CASE ~immediate /\ all
    <3>1. cq' = << >>
      BY <2>2 DEF Remaining
    <3> QED BY <1>2, <1>6, <3>1, EnoughForNone, EnoughTyped
  <2>3. CASE ~immediate /\ ~all
    <3>1. PICK u \in Members(cq) : Members(cq') = Members(cq) \ {u}
      BY <1>1, <2>3
    <3>2. u \in want
      BY <3>1, CondCallFacts DEF CondInv, CondPlaces, Members
    <3>3. EnoughAwake(cq, tokens, want, owes)
      BY <2>3 DEF CondInv
    <3>4. CASE owes' = owes
      BY <1>2, <3>1, <3>3, <3>4, EnoughGrows, EnoughTyped
    <3>5. CASE \E t \in owes : owes' = owes \ {t}
      BY <1>2, <3>1, <3>2, <3>3, <3>5, EnoughSignalled, EnoughTyped
    <3> QED BY <3>4, <3>5
  <2> QED BY <2>1, <2>2, <2>3
<1> QED BY <1>3, <1>4, <1>5, <1>7 DEF CondInv

LEMMA SignalKeeps ==
  ASSUME CondInv, NEW t \in Threads, NEW all \in BOOLEAN, Signal(t, all)
  PROVE  CondInv'
<1>1. /\ Calls(k, t) /\ t \in owes /\ owes' = owes \ {t}
      /\ UNCHANGED <<mutexVars, immediate, tokens, want>>
  BY DEF Signal, Free
<1>2. CASE cq = << >>
  <2>1. UNCHANGED <<k, cq>>
    BY <1>2 DEF Signal
  <2>2. UNCHANGED <<mu, call, holds, holder, immediate, tokens, want>>
    BY <1>1 DEF mutexVars
  <2>3. EnoughAwake(cq', tokens', want', owes')
    <3>1. owes' \in SUBSET Threads
      BY <1>1, EnoughTyped
    <3> QED BY <1>2, <2>1, <2>2, <3>1, EnoughForNone, EnoughTyped
  <2>4. CondTypes'
    BY <1>1, <2>1, <2>2 DEF CondInv, CondTypes
  <2>5. CondPlaces' /\ CondLists'
    BY <2>1, <2>2 DEF CondInv, CondPlaces, CondLists
  <2>6. CondKernel(k', Members(cq'), Members(Queue(mu', Mutex)))
    BY <2>1, <2>2 DEF CondInv
  <2> QED BY <2>3, <2>4, <2>5, <2>6 DEF CondInv
<1>3. CASE cq # << >>
  <2> DEFINE n == Woken(all)
             x == Switch(MinPrio(all))
             w == Members(Remaining(all))
             q == Members(mu[Mutex].queue)
  <2>1. k' = Ends(n, t, x) /\ cq' = Remaining(all)
    BY <1>3 DEF Signal
  <2>2. KernelOK(n) /\ InSection(n, k) /\ CondKernel(n, w, q)
    BY <1>3, WokenFacts
  <2>3. x \in TailCalls /\ x # NoTail
    BY <1>3, MinPrioFacts, TailTypes DEF Switch, NoTail
  <2> HIDE DEF n, x, w, q
  <2>4. CondSection(n, w, q)
    BY <2>2 DEF CondSection, CondKernel, KernelOK
  <2>5. CondKernel(k', w, q)
    BY <1>1, <2>1, <2>3, <2>4, CondTyped, CondEnds
  <2> QED BY <1>1, <1>3, <2>1, <2>5, CondSignalled DEF w, q
<1> QED BY <1>2, <1>3

LEMMA IsrSignalKeeps ==
  ASSUME CondInv, NEW all \in BOOLEAN, IsrSignal(all)
  PROVE  CondInv'
<1> DEFINE n == Woken(all)
           w == Members(Remaining(all))
           q == Members(mu[Mutex].queue)
<1>1. /\ cq # << >> /\ k' = IsrEnd(IsrSwitch(n, MinPrio(all))) /\ cq' = Remaining(all)
      /\ UNCHANGED <<mutexVars, immediate, tokens, want, owes>>
  BY DEF IsrSignal
<1>2. CondKernel(n, w, q)
  BY <1>1, WokenFacts
<1> HIDE DEF n, w, q
<1>3. CondKernel(k', w, q)
  BY <1>1, <1>2, CondIsrEnds
<1> QED BY <1>1, <1>3, CondSignalled DEF w, q

LEMMA CondStep ==
  ASSUME CondInv, [CondNext]_condAllVars
  PROVE  CondInv'
<1>1. ASSUME NEW t \in Threads,
             \/ Enter(t) \/ Consume(t) \/ Produce(t) \/ Leave(t)
             \/ CondWait(t) \/ CondWaitUnlocks(t) \/ CondWaitJoins(t) \/ CondWaitRelocks(t)
      PROVE  CondInv'
  BY <1>1, EnterKeeps, ConsumeKeeps, ProduceKeeps, LeaveKeeps, CondWaitKeeps,
     CondWaitUnlocksKeeps, CondWaitJoinsKeeps, CondWaitRelocksKeeps
<1>2. ASSUME NEW t \in Threads, Resume(t) \/ Yields(t) \/ Reschedule(t) \/ IsrWakeup(t),
             UNCHANGED condVars
      PROVE  CondInv'
  BY <1>2, CondResumeKeeps, CondYieldsKeeps, CondRescheduleKeeps, CondIsrWakeupKeeps
<1>3. ASSUME NEW all \in BOOLEAN, IsrSignal(all) \/ \E t \in Threads : Signal(t, all)
      PROVE  CondInv'
  BY <1>3, SignalKeeps, IsrSignalKeeps
<1>4. CASE UNCHANGED condAllVars
  <2>1. UNCHANGED <<k, mu, call, holds, holder, immediate, cq, tokens, want, owes>>
    BY <1>4 DEF condAllVars, vars, mutexVars, condVars
  <2> QED BY <2>1 DEF CondInv, CondTypes, CondPlaces, CondLists
<1> QED BY <1>1, <1>2, <1>3, <1>4 DEF CondNext

LEMMA CondStart == CondInit => CondInv
<1> SUFFICES ASSUME CondInit PROVE CondInv
  OBVIOUS
<1>1. /\ Init /\ immediate \in BOOLEAN
      /\ cq = << >> /\ tokens = 0 /\ want = {} /\ owes = {}
  BY DEF CondInit
<1>2. KernelOK(k) /\ \A t \in Threads : IsReady(k, t)
  BY <1>1, MutexPartsOK, BootedOK DEF Init
<1>3. Sleepers(k, "cond") = {} /\ Sleepers(k, "mutex") = {}
  BY <1>2 DEF Sleepers, IsReady, OnRunqueue
<1>4. /\ mu \in [Mutexes -> Mutex_ts] /\ Queue(mu, Mutex) = << >>
  <2>1. Min(Prios) \in Prios
    BY PriosAreLevels, MinOfNaturals
  <2>2. Unlocked \in Mutex_ts /\ Unlocked.queue = << >>
    BY <2>1 DEF Unlocked, Mutex_ts
  <2> QED BY <1>1, <2>2, CondPartsOK DEF Init, Queue
<1>5. Members(<< >>) = {} /\ NoDuplicates(<< >>) /\ \A u : ~Contains(<< >>, u)
  BY DEF Members, Contains, NoDuplicates
<1>6. /\ call = [t \in Threads |-> NoCall] /\ holds = [t \in Threads |-> {}]
      /\ holder = [m \in Mutexes |-> NoThread]
  BY <1>1 DEF Init
<1>7. CondTypes
  <2>1. 0 \in 0..MaxTokens
    BY CondPartsOK
  <2> QED BY <1>1, <1>4, <1>6, <2>1, CondCallFacts DEF CondTypes
<1>8. CondKernel(k, Members(cq), Members(Queue(mu, Mutex))) /\ CondLists
  BY <1>1, <1>2, <1>3, <1>4, <1>5 DEF CondKernel, CondLists
<1>9. CondPlaces
  BY <1>1, <1>5, <1>6, CondCallFacts DEF CondPlaces
<1>10. EnoughAwake(cq, tokens, want, owes)
  BY <1>1 DEF EnoughAwake
<1> QED BY <1>7, <1>8, <1>9, <1>10 DEF CondInv

(***************************************************************************)
(* The theorems.                                                           *)
(***************************************************************************)

\* The inductive invariant of cond.c on the mutex and the scheduler.
THEOREM CondInvariant == CondSpec => []CondInv
<1>1. CondInv /\ [CondNext]_condAllVars => CondInv'
  BY CondStep
<1> QED BY <1>1, CondStart, PTL DEF CondSpec

\* Queues, calls and counts of cond.c and of the mutex below it keep their types,
\* whenever a platform switches inside cond_wait.
THEOREM CondTypesHold == CondSpec => []CondTypeOK
<1>1. CondInv => CondTypeOK
  <2> SUFFICES ASSUME CondInv PROVE CondTypeOK
    OBVIOUS
  <2>1. \A c \in CondCalls :
          c \in {NoCall} \cup {Calling(op, m) : op \in {"lock", "cond", "unlocked"}, m \in Mutexes}
    BY CondPartsOK DEF CondCalls, Relocking, Awaiting, Between
  <2>2. call \in [Threads -> {NoCall} \cup {Calling(op, m) : op \in {"lock", "cond", "unlocked"},
                                                              m \in Mutexes}]
    BY <2>1 DEF CondInv, CondTypes
  <2> QED BY <2>2, CondTyped DEF CondInv, CondTypes, CondTypeOK, Mutex_ts
<1> QED BY <1>1, CondInvariant, PTL

\* cond_wait and _cond_signal agree with the queue: a thread is STATUS_COND_BLOCKED
\* exactly while it is in the queue of the condition, once, and it has then given
\* the mutex up.
THEOREM CondWaitersStayListed == CondSpec => []CondWaitersListed
<1>1. CondInv => CondWaitersListed
  <2> SUFFICES ASSUME CondInv PROVE CondWaitersListed
    OBVIOUS
  <2>1. NoDuplicates(cq) /\ Sleepers(k, "cond") = Members(cq)
    BY CondTyped DEF CondKernel
  <2>2. \A t \in Threads : k.status[t] = "cond" <=> Contains(cq, t)
    BY <2>1 DEF Sleepers, Members
  <2>3. \A t \in Threads : Contains(cq, t) =>
          call[t] = Calling("cond", Mutex) /\ Mutex \notin holds[t]
    BY CondCallFacts DEF CondInv, CondPlaces, Awaiting
  <2> QED BY <2>1, <2>2, <2>3 DEF CondWaitersListed
<1> QED BY <1>1, CondInvariant, PTL

\* "When a thread is put to sleep with cond_wait, it atomically unlocks the
\* provided mutex and then goes to sleep", where the switch is pended: as long as
\* consumers sleep, every token has a consumer awake or a signal still to come.
\* Elsewhere this is false (RiotCondImmediate).
THEOREM NoSignalIsLost == CondSpec => []NoLostSignal
<1>1. CondInv => NoLostSignal
  <2> SUFFICES ASSUME CondInv, ~immediate PROVE Covered
    BY DEF NoLostSignal
  <2>1. ToSet(cq) = {cq[i] : i \in 1..Len(cq)}
    BY CondTyped DEF ToSet
  <2>2. want \ ToSet(cq) = want \ Members(cq)
    BY <2>1, CondTyped, EnoughTyped DEF Members, Contains
  <2>3. EnoughAwake(cq, tokens, want, owes)
    BY DEF CondInv
  <2> QED BY <2>2, <2>3 DEF EnoughAwake, Covered
<1> QED BY <1>1, CondInvariant, PTL

=============================================================================
