------------------------------- MODULE RiotMutex -------------------------------
(***************************************************************************)
(* Mutexes of RIOT (core/mutex.c, core/include/mutex.h) on the scheduler:  *)
(* lock, trylock, the lock a timer may cancel, unlock, and unlock and      *)
(* sleep, with or without core_mutex_priority_inheritance.                 *)
(*                                                                         *)
(* The threads use mutexes as locks: they unlock what they hold, do not    *)
(* lock a mutex twice, and follow the "canonical use" of mutex_cancel: one *)
(* mutex_cancel_t per thread, initialised before the timer is set.  The    *)
(* interrupt of the timer may come at any moment from then on until        *)
(* ztimer_remove.                                                          *)
(***************************************************************************)
EXTENDS RiotSched, FiniteSets, Integers

CONSTANTS Mutexes,
          Prio,      \* the priority each thread is created with
          Inherit,   \* is core_mutex_priority_inheritance used?
          Cancelers  \* the threads that lock with a timeout

ASSUME MutexPartsOK ==
  /\ IsFiniteSet(Threads)
  /\ Prio \in [Threads -> Prios]
  /\ Inherit \in BOOLEAN
  /\ Cancelers \subseteq Threads

VARIABLES k,
          mu,         \* the mutex_t of each mutex
          call,       \* what each thread does: see Calling
          cancelled,  \* mc->cancelled of each thread's mutex_cancel_t
          holds,      \* the mutexes each thread has: what its calls returned
          holder      \* history: the thread each mutex was last given to, while locked

mutexVars == <<mu, call, cancelled, holds, holder>>
vars == <<k, mutexVars>>

\* A mutex_t: queue.next is NULL (not locked), MUTEX_LOCKED (no waiter) or the
\* first waiter.  owner and orig exist with priority inheritance.
Unlocked == [locked |-> FALSE, queue |-> << >>, owner |-> NoThread, orig |-> Min(Prios)]

\* A thread is in no call, blocked in mutex_lock or mutex_lock_cancelable, or, with
\* its mutex_cancel_t in use, about to call the latter or to remove its timer.
NoCall == [op |-> "none"]
Calling(op, m) == [op |-> op, m |-> m]
Ops == {"lock", "cancelable", "armed", "disarm"}

Init ==
  /\ k = Booted(Prio)
  /\ mu = [m \in Mutexes |-> Unlocked]
  /\ call = [t \in Threads |-> NoCall]
  /\ cancelled = [t \in Threads |-> FALSE]
  /\ holds = [t \in Threads |-> {}]
  /\ holder = [m \in Mutexes |-> NoThread]

-----------------------------------------------------------------------------
(* The parts of mutex.c, on a kernel kk and a mutex x.                     *)

Taken(kk, x, t) ==
  IF Inherit THEN [x EXCEPT !.locked = TRUE, !.owner = t, !.orig = kk.prio[t]]
  ELSE [x EXCEPT !.locked = TRUE]

\* _block: t joins the queue and may raise the owner to its own priority.
Queued(kk, x, t) == [x EXCEPT !.queue = AddToList(kk, @, t)]
BlockOn(kk, x, t) ==
  LET blocked == SetStatus(kk, t, "mutex")
  IN IF Inherit /\ x.owner # NoThread /\ kk.prio[x.owner] > kk.prio[t]
     THEN SetPriority(blocked, x.owner, kk.prio[t]) ELSE blocked

\* Fault: the lock is released while waiters remain to be served.
ReleasedEmpty(x) ==
  [x EXCEPT !.locked = Len(x.queue) > 1, !.queue = IF @ = << >> THEN @ ELSE Tail(@)]

\* mutex_unlock: the mutex stays locked and the first waiter gets it.
Released(x) ==
  IF x.queue = << >> THEN [x EXCEPT !.locked = FALSE]
  ELSE [x EXCEPT !.queue = Tail(@)]

UnlockOn(kk, x) ==
  IF x.queue = << >> THEN kk
  ELSE LET woken == SetStatus(kk, Head(x.queue), "pending")
       IN IF Inherit /\ x.owner # NoThread /\ woken.prio[x.owner] # x.orig
          THEN SetPriority(woken, x.owner, x.orig) ELSE woken
NextHolder(x) == IF x.queue = << >> THEN NoThread ELSE Head(x.queue)

-----------------------------------------------------------------------------
(* Calls of threads.                                                       *)

Free(t) == Calls(k, t) /\ call[t] = NoCall

\* t's call returns and t has the mutex m.
Takes(t, m) ==
  /\ ~mu[m].locked
  /\ mu' = [mu EXCEPT ![m] = Taken(k, @, t)]
  /\ holder' = [holder EXCEPT ![m] = t]
  /\ holds' = [holds EXCEPT ![t] = @ \cup {m}]
  /\ UNCHANGED k

BlocksOn(t, m) ==
  /\ mu[m].locked
  /\ k' = Ends(BlockOn(k, mu[m], t), t, YieldHigher)
  /\ mu' = [mu EXCEPT ![m] = Queued(k, @, t)]
  /\ UNCHANGED <<holds, holder>>

\* mutex_lock, and mutex_trylock when it succeeds (it changes nothing when not).
Lock(t, m) ==
  /\ Free(t) /\ m \notin holds[t]
  /\ \/ Takes(t, m) /\ UNCHANGED call
     \/ BlocksOn(t, m) /\ call' = [call EXCEPT ![t] = Calling("lock", m)]
  /\ UNCHANGED cancelled

\* mutex_cancel_init, and the timer is set.
Arm(t, m) ==
  /\ Free(t) /\ t \in Cancelers /\ m \notin holds[t]
  /\ call' = [call EXCEPT ![t] = Calling("armed", m)]
  /\ cancelled' = [cancelled EXCEPT ![t] = FALSE]
  /\ UNCHANGED <<k, mu, holds, holder>>

\* mutex_lock_cancelable: cancelled early, or as mutex_lock.
LockCancelable(t, m) ==
  /\ Calls(k, t) /\ call[t] = Calling("armed", m)
  /\ \/ /\ cancelled[t]
        /\ call' = [call EXCEPT ![t] = NoCall]
        /\ UNCHANGED <<k, mu, holds, holder>>
     \/ /\ ~cancelled[t]
        /\ Takes(t, m)
        /\ call' = [call EXCEPT ![t] = Calling("disarm", m)]
     \/ /\ ~cancelled[t]
        /\ BlocksOn(t, m)
        /\ call' = [call EXCEPT ![t] = Calling("cancelable", m)]
  /\ UNCHANGED cancelled

\* The end of _block, and of the call: the mutex has been handed over, or the call
\* was cancelled.
Resume(t) ==
  /\ Calls(k, t)
  /\ \/ /\ call[t].op = "lock"
        /\ holds' = [holds EXCEPT ![t] = @ \cup {call[t].m}]
        /\ call' = [call EXCEPT ![t] = NoCall]
     \/ /\ call[t].op = "cancelable" /\ cancelled[t]
        /\ call' = [call EXCEPT ![t] = NoCall]
        /\ UNCHANGED holds
     \/ /\ call[t].op = "cancelable" /\ ~cancelled[t]
        /\ holds' = [holds EXCEPT ![t] = @ \cup {call[t].m}]
        /\ call' = [call EXCEPT ![t] = Calling("disarm", call[t].m)]
  /\ UNCHANGED <<k, mu, cancelled, holder>>

\* ztimer_remove, after the mutex has been locked.
Disarm(t) ==
  /\ Calls(k, t) /\ call[t].op = "disarm"
  /\ call' = [call EXCEPT ![t] = NoCall]
  /\ UNCHANGED <<k, mu, cancelled, holds, holder>>

Unlock(t, m) ==
  /\ Free(t) /\ m \in holds[t]
  /\ k' = Ends(UnlockOn(k, mu[m]), t, IF mu[m].queue = << >> THEN NoTail ELSE YieldHigher)
  /\ mu' = [mu EXCEPT ![m] = Released(@)]
  /\ holder' = [holder EXCEPT ![m] = NextHolder(mu[m])]
  /\ holds' = [holds EXCEPT ![t] = @ \ {m}]
  /\ UNCHANGED <<call, cancelled>>

\* mutex_unlock_and_sleep wakes the first waiter but leaves all priorities alone.
UnlockAndSleep(t, m) ==
  /\ Free(t) /\ m \in holds[t]
  /\ LET woken == IF mu[m].queue = << >> THEN k
                  ELSE SetStatus(k, Head(mu[m].queue), "pending")
     IN k' = Ends(SetStatus(woken, t, "sleeping"), t, YieldHigher)
  /\ mu' = [mu EXCEPT ![m] = Released(@)]
  /\ holder' = [holder EXCEPT ![m] = NextHolder(mu[m])]
  /\ holds' = [holds EXCEPT ![t] = @ \ {m}]
  /\ UNCHANGED <<call, cancelled>>

\* Fault: a yield by sched_switch to the level above, which level 0 has not.
YieldsToLevelAbove(t) ==
  /\ Free(t)
  /\ k' = Ends(k, t, Switch(k.prio[t] - 1))
  /\ UNCHANGED mutexVars

Yields(t) ==
  /\ Free(t)
  /\ k' = Ends(k, t, Yield)
  /\ UNCHANGED mutexVars

Reschedule(t) ==
  /\ Executes(k, t) /\ k.tail[t] # NoTail
  /\ k' = TailCall(k, t)
  /\ UNCHANGED mutexVars

-----------------------------------------------------------------------------
(* Interrupts.                                                             *)

\* Fault: mutex_cancel wakes the thread but leaves it in the queue.
CancelKeepsWaiter(t) ==
  /\ call[t].op \in Ops \ {"lock"} /\ ~cancelled[t]
  /\ cancelled' = [cancelled EXCEPT ![t] = TRUE]
  /\ IF IsReady(k, t) THEN UNCHANGED k
     ELSE k' = IsrEnd(IsrSwitch(SetStatus(k, t, "pending"), k.prio[t]))
  /\ UNCHANGED <<mu, call, holds, holder>>

\* The timer of t fires and calls mutex_cancel.
Cancel(t) ==
  /\ call[t].op \in Ops \ {"lock"} /\ ~cancelled[t]
  /\ cancelled' = [cancelled EXCEPT ![t] = TRUE]
  /\ LET m == call[t].m
     IN IF ~IsReady(k, t) /\ Contains(mu[m].queue, t)
        THEN /\ mu' = [mu EXCEPT ![m].queue = RemoveFirst(@, t)]
             /\ k' = IsrEnd(IsrSwitch(SetStatus(k, t, "pending"), k.prio[t]))
        ELSE UNCHANGED <<k, mu>>
  /\ UNCHANGED <<call, holds, holder>>

IsrWakeup(t) ==
  /\ k.status[t] = "sleeping"
  /\ k' = IsrEnd(IsrSwitch(SetStatus(k, t, "pending"), k.prio[t]))
  /\ UNCHANGED mutexVars

Next ==
  \E t \in Threads :
    \/ \E m \in Mutexes :
         \/ Lock(t, m) \/ Unlock(t, m) \/ UnlockAndSleep(t, m)
         \/ Arm(t, m) \/ LockCancelable(t, m)
    \/ Resume(t) \/ Disarm(t) \/ Yields(t) \/ Reschedule(t)
    \/ Cancel(t) \/ IsrWakeup(t)

Spec == Init /\ [][Next]_vars

-----------------------------------------------------------------------------
(* Properties.                                                             *)

TypeOK ==
  /\ k \in Kernels
  /\ mu \in [Mutexes -> [locked : BOOLEAN, queue : Seq(Threads),
                         owner : Threads \cup {NoThread}, orig : Prios]]
  /\ call \in [Threads -> {NoCall} \cup {Calling(op, m) : op \in Ops, m \in Mutexes}]
  /\ cancelled \in [Threads -> BOOLEAN]
  /\ holds \in [Threads -> SUBSET Mutexes]
  /\ holder \in [Mutexes -> Threads \cup {NoThread}]

\* A thread that mutex_lock, mutex_trylock or mutex_lock_cancelable has told it has
\* the mutex is the only one: across hand-over, cancellation and sleeping owners.
MutualExclusion ==
  \A t \in Threads : \A m \in holds[t] : mu[m].locked /\ holder[m] = t

\* A thread is STATUS_MUTEX_BLOCKED exactly while it is in the queue of the one
\* mutex it waits for, and only locked mutexes have waiters: no waiter is lost
\* when a timer cancels another one.
WaitersQueued ==
  /\ \A t \in Threads, m \in Mutexes :
       Contains(mu[m].queue, t)
         <=> k.status[t] = "mutex" /\ call[t] \in {Calling("lock", m), Calling("cancelable", m)}
  /\ \A m \in Mutexes : NoDuplicates(mu[m].queue) /\ (mu[m].queue # << >> => mu[m].locked)

\* A locked mutex will be unlocked by somebody: its holder knows it has it, or is
\* about to return from the call that got it.  mutex_lock_cancelable:
\* "-ECANCELED: The mutex was ***NOT*** locked".
LockedIsHeld ==
  \A m \in Mutexes : mu[m].locked => \E t \in Threads :
    /\ holder[m] = t
    /\ \/ m \in holds[t]
       \/ call[t] = Calling("lock", m)
       \/ call[t] = Calling("cancelable", m) /\ ~cancelled[t]

\* mutex_unlock: "This thread is the one with the highest priority, as the list is
\* sorted by priority": no unlock passes over a more urgent waiter (without
\* inheritance, which raises waiting threads where they are in the list).
UrgentFirst ==
  \A m \in Mutexes : \A i, j \in DOMAIN mu[m].queue :
    i < j => k.prio[mu[m].queue[i]] <= k.prio[mu[m].queue[j]]

\* Priority inheritance: the thread a mutex was given to is at least as urgent as
\* every thread that waits for it.
HolderInherits ==
  Inherit => \A m \in Mutexes : \A t \in ToSet(mu[m].queue) :
    k.prio[holder[m]] <= k.prio[t]

=============================================================================
