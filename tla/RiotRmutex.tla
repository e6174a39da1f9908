------------------------------ MODULE RiotRmutex ------------------------------
(***************************************************************************)
(* Recursive mutexes of RIOT (core/lib/rmutex.c): a mutex_t with the thread *)
(* that has it and a count.  Nothing in these calls masks interrupts: each *)
(* access to the mutex and to owner is a step of its own, so that a thread *)
(* may be preempted, and the mutex change hands, between any two of them.  *)
(* refcount is touched by the holder only, next to its store of owner.     *)
(*                                                                         *)
(* The threads unlock what they have locked; the other mutexes are used as *)
(* in RiotMutex, by the same threads.                                      *)
(***************************************************************************)
EXTENDS RiotMutex

CONSTANTS Rmutexes,  \* the mutexes that are the mutex of an rmutex_t
          MaxRefs    \* bound: how deep a thread nests its locks

ASSUME RmutexesOK == Rmutexes \subseteq Mutexes /\ MaxRefs \in Nat \ {0}

VARIABLES rowner,    \* owner of each rmutex_t
          refcount,  \* refcount of each
          at,        \* where in which call of rmutex.c each thread is
          depth      \* history: the locks each thread has got and not given back

rmutexVars == <<rowner, refcount, at, depth>>
allVars == <<vars, rmutexVars>>

\* A thread in _lock has found the mutex locked ("check"), has found another owner
\* ("wait"), or has the mutex or waits in mutex_lock to get it ("count"); in
\* rmutex_unlock it has cleared owner ("release").
Outside == [op |-> "none"]
Inside(op, r) == [op |-> op, r |-> r]
Points == {"check", "wait", "count", "release"}

RmutexInit ==
  /\ Init
  /\ rowner = [r \in Rmutexes |-> NoThread]
  /\ refcount = [r \in Rmutexes |-> 0]
  /\ at = [t \in Threads |-> Outside]
  /\ depth = [t \in Threads |-> [r \in Rmutexes |-> 0]]

Goes(t, where) == at' = [at EXCEPT ![t] = where]

-----------------------------------------------------------------------------
(* _lock, for rmutex_lock and rmutex_trylock.                              *)

\* mutex_trylock.
RmutexCalled(t, r) ==
  /\ Free(t) /\ at[t] = Outside
  /\ depth[t][r] < MaxRefs
  /\ \/ Takes(t, r) /\ Goes(t, Inside("count", r))
     \/ mu[r].locked /\ Goes(t, Inside("check", r)) /\ UNCHANGED <<k, mu, holds, holder>>
  /\ UNCHANGED <<call, cancelled, rowner, refcount, depth>>

\* The atomic load of owner: mine, or another's, where rmutex_trylock returns 0.
OwnerRead(t, r) ==
  /\ Free(t) /\ at[t] = Inside("check", r)
  /\ IF rowner[r] = t THEN Goes(t, Inside("count", r))
     ELSE Goes(t, Inside("wait", r)) \/ Goes(t, Outside)
  /\ UNCHANGED <<vars, rowner, refcount, depth>>

\* mutex_lock.
RmutexWaits(t, r) ==
  /\ Free(t) /\ at[t] = Inside("wait", r)
  /\ Goes(t, Inside("count", r))
  /\ \/ Takes(t, r) /\ UNCHANGED call
     \/ BlocksOn(t, r) /\ call' = [call EXCEPT ![t] = Calling("lock", r)]
  /\ UNCHANGED <<cancelled, rowner, refcount, depth>>

\* "I am holding the recursive mutex".
Counts(t, r) ==
  /\ Free(t) /\ at[t] = Inside("count", r)
  /\ rowner' = [rowner EXCEPT ![r] = t]
  /\ refcount' = [refcount EXCEPT ![r] = @ + 1]
  /\ depth' = [depth EXCEPT ![t][r] = @ + 1]
  /\ Goes(t, Outside)
  /\ UNCHANGED vars

-----------------------------------------------------------------------------
(* rmutex_unlock.                                                          *)

\* Fault: owner is left alone when the count comes to 0.
UncountsKeepingOwner(t, r) ==
  /\ Free(t) /\ at[t] = Outside
  /\ depth[t][r] > 0
  /\ refcount' = [refcount EXCEPT ![r] = @ - 1]
  /\ depth' = [depth EXCEPT ![t][r] = @ - 1]
  /\ Goes(t, IF refcount[r] = 1 THEN Inside("release", r) ELSE Outside)
  /\ UNCHANGED <<vars, rowner>>

\* Up to the store of owner.
Uncounts(t, r) ==
  /\ Free(t) /\ at[t] = Outside
  /\ depth[t][r] > 0
  /\ refcount' = [refcount EXCEPT ![r] = @ - 1]
  /\ depth' = [depth EXCEPT ![t][r] = @ - 1]
  /\ IF refcount[r] = 1
       THEN Goes(t, Inside("release", r)) /\ rowner' = [rowner EXCEPT ![r] = NoThread]
       ELSE Goes(t, Outside) /\ UNCHANGED rowner
  /\ UNCHANGED vars

\* mutex_unlock.
Releases(t, r) ==
  /\ at[t] = Inside("release", r)
  /\ Unlock(t, r)
  /\ Goes(t, Outside)
  /\ UNCHANGED <<rowner, refcount, depth>>

-----------------------------------------------------------------------------
RmutexCall(t) ==
  \E r \in Rmutexes :
    \/ RmutexCalled(t, r) \/ OwnerRead(t, r) \/ RmutexWaits(t, r)
    \/ Counts(t, r) \/ Uncounts(t, r) \/ Releases(t, r)

\* What a thread does with the other mutexes, outside the calls of rmutex.c.
MutexCall(t) ==
  /\ at[t] = Outside
  /\ \/ \E m \in Mutexes \ Rmutexes :
          \/ Lock(t, m) \/ Unlock(t, m) \/ UnlockAndSleep(t, m)
          \/ Arm(t, m) \/ LockCancelable(t, m)
     \/ Disarm(t) \/ Yields(t)
  /\ UNCHANGED rmutexVars

RmutexNext ==
  \E t \in Threads :
    \/ RmutexCall(t) \/ MutexCall(t)
    \/ /\ Resume(t) \/ Reschedule(t) \/ Cancel(t) \/ IsrWakeup(t)
       /\ UNCHANGED rmutexVars

RmutexSpec == RmutexInit /\ [][RmutexNext]_allVars

-----------------------------------------------------------------------------
(* Properties.                                                             *)

RmutexTypeOK ==
  /\ TypeOK
  /\ rowner \in [Rmutexes -> Threads \cup {NoThread}]
  /\ refcount \in [Rmutexes -> 0..MaxRefs]
  /\ at \in [Threads -> {Outside} \cup {Inside(op, r) : op \in Points, r \in Rmutexes}]
  /\ depth \in [Threads -> [Rmutexes -> 0..MaxRefs]]

\* "Other threads never set rmutex->owner to the pid of the current thread. Hence,
\* it is guaranteed that mutex_lock is eventually called" (rmutex.c:66-68): a thread
\* counts a lock only when it has the mutex, however often the mutex has changed
\* hands since its mutex_trylock failed, and owner and refcount are then its own, as
\* the assertions of rmutex_unlock demand.
CountedByHolder ==
  \A t \in Threads, r \in Rmutexes :
    /\ depth[t][r] > 0 => holder[r] = t /\ rowner[r] = t /\ refcount[r] = depth[t][r]
    /\ rowner[r] = t => depth[t][r] > 0
=============================================================================
