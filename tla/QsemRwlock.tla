----------------------------- MODULE QsemRwlock -----------------------------
(***************************************************************************)
(* The read-write lock pthread_rwlock_t (core/ipc/rwlock and the calls of  *)
(* litelibc that make, unlock and destroy it), and the mutexes of QsemSem  *)
(* next to it: a task may own a mutex while it waits for the lock, and     *)
(* inherits a priority where it is in the list.                            *)
(*                                                                         *)
(* A call runs with the interrupts of its core masked and takes no other   *)
(* lock: the tasks that use one lock are bound to one core.  They unlock   *)
(* what they hold.                                                         *)
(***************************************************************************)
EXTENDS QsemSem, Integers

CONSTANTS Layouts,     \* what the program has: pairs <<semaphores, rw_magic at the start>>
          MaxReads     \* bound: the read locks of one task

ASSUME LayoutsOK == Layouts \subseteq (SUBSET Sems) \X {"none", "unset"}
ASSUME RwBoundsOK == MaxReads \in Nat \ {0}

VARIABLES magic,    \* rw_magic: RWLOCK_MAGIC_NUM ("set") or not; "none" without a lock
          rwCount,  \* rw_count: the number of read locks, or -1
          rwOwner,  \* rw_owner, the writer
          rwRead,   \* rw_read, the tasks that wait to read
          rwWrite,  \* rw_write, the tasks that wait to write
          reads,    \* history: the read locks each task has got and not given back
          writing   \* history: the tasks that have got the write lock and not given it back

rwVars == <<magic, rwCount, rwOwner, rwRead, rwWrite, reads, writing>>
allVars == <<vars, rwVars>>
notWaiting == <<semVars, prio, orig, taskPend, held, step, setting, history>>

RwInit ==
  /\ Init /\ magic \in {"none", "unset"} /\ <<used, magic>> \in Layouts
  /\ rwCount = 0 /\ rwOwner = NoTask
  /\ rwRead = << >> /\ rwWrite = << >>
  /\ reads = [t \in Tasks |-> 0] /\ writing = {}

-----------------------------------------------------------------------------
(* The parts of prt_rwlock.c.                                              *)

\* OsRwLockPendFindPos: behind the first waiter of the same priority, unless
\* the last waiter has it.
RwPlace(l, p) ==
  LET first == Min({i \in 1..Len(l) : prio[l[i]] >= p})
  IN IF l = << >> \/ prio[Head(l)] > p THEN 1
     ELSE IF prio[Last(l)] <= p THEN Len(l) + 1
     ELSE IF prio[l[first]] > p THEN first ELSE first + 1

\* OsRwLockPendPre.
RwPend(t, timed) ==
  status' = [status EXCEPT ![t] = {"RW_PEND"} \cup (IF timed THEN {"TIMEOUT"} ELSE {})]

\* Fault: a reader may overtake a writer of its own priority.
AheadOrEqual(t) == rwWrite # << >> => prio[t] <= prio[Head(rwWrite)]

\* OsRwlockPriCompare: t is more urgent than the first writer that waits.
AheadOfWriters(t) == rwWrite # << >> => prio[t] < prio[Head(rwWrite)]

\* Does a writer come next, and if not, how many readers? (OsRwLockPost)
WriterNext ==
  rwWrite # << >> /\ (rwRead = << >> \/ prio[Head(rwWrite)] <= prio[Head(rwRead)])
ReadersNext ==
  LET stops == {i \in 2..Len(rwRead) : ~AheadOfWriters(rwRead[i])}
  IN IF stops = {} THEN Len(rwRead) ELSE Min(stops) - 1

\* The read locks when t has given one back, if that is what it unlocks.
ReadsLeft(t) == IF t \in writing THEN reads ELSE [reads EXCEPT ![t] = @ - 1]

\* OsRwLockPost, when t has unlocked.
ToWriter(t) ==
  LET next == Head(rwWrite)
  IN /\ rwCount' = -1 /\ rwOwner' = next
     /\ rwWrite' = Tail(rwWrite) /\ UNCHANGED rwRead
     /\ status' = [status EXCEPT ![next] = {}]
     /\ reads' = ReadsLeft(t)
     /\ writing' = (writing \ {t}) \cup {next}

\* Fault: rw_owner is set for a writer only.
ToReadersKeepingOwner(t) ==
  LET next == ToSet(SubSeq(rwRead, 1, ReadersNext))
  IN /\ rwCount' = ReadersNext /\ UNCHANGED rwOwner
     /\ rwRead' = SubSeq(rwRead, ReadersNext + 1, Len(rwRead)) /\ UNCHANGED rwWrite
     /\ status' = [u \in Tasks |-> IF u \in next THEN {} ELSE status[u]]
     /\ reads' = [u \in Tasks |-> ReadsLeft(t)[u] + (IF u \in next THEN 1 ELSE 0)]
     /\ writing' = writing \ {t}

\* All readers that are ahead of the writers, or, if none waits, nobody.
ToReaders(t) ==
  LET next == ToSet(SubSeq(rwRead, 1, ReadersNext))
  IN /\ rwCount' = ReadersNext /\ rwOwner' = NoTask
     /\ rwRead' = SubSeq(rwRead, ReadersNext + 1, Len(rwRead)) /\ UNCHANGED rwWrite
     /\ status' = [u \in Tasks |-> IF u \in next THEN {} ELSE status[u]]
     /\ reads' = [u \in Tasks |-> ReadsLeft(t)[u] + (IF u \in next THEN 1 ELSE 0)]
     /\ writing' = writing \ {t}

-----------------------------------------------------------------------------
(* The calls.  Those that fail change nothing, and those that try only and *)
(* succeed do as the others.  A call by the writer to lock again changes   *)
(* nothing either, though it returns OS_OK: the tasks unlock once for it.  *)

\* pthread_rwlock_init and pthread_rwlock_destroy.
RwCreate ==
  /\ magic = "unset" /\ magic' = "set"
  /\ rwCount' = 0 /\ rwOwner' = NoTask
  /\ rwRead' = << >> /\ rwWrite' = << >>
  /\ UNCHANGED <<vars, reads, writing>>

RwDestroy ==
  /\ magic = "set" /\ magic' = "unset"
  /\ rwCount = 0 /\ UNCHANGED rwCount
  /\ rwOwner' = NoTask
  /\ rwRead' = << >> /\ rwWrite' = << >>
  /\ UNCHANGED <<vars, reads, writing>>

RwCalls(t) == magic = "set" /\ Runs(t)

RdLock(t) ==
  /\ RwCalls(t) /\ reads[t] < MaxReads
  /\ rwCount >= 0 /\ AheadOfWriters(t)
  /\ rwCount' = rwCount + 1
  /\ reads' = [reads EXCEPT ![t] = @ + 1]
  /\ UNCHANGED <<vars, magic, rwOwner, rwRead, rwWrite, writing>>

RdWaits(t, timed) ==
  /\ RwCalls(t) /\ reads[t] < MaxReads
  /\ rwCount < 0 \/ ~AheadOfWriters(t)
  /\ rwOwner # t
  /\ RwPend(t, timed)
  /\ rwRead' = InsertAt(rwRead, RwPlace(rwRead, prio[t]), t)
  /\ UNCHANGED <<notWaiting, magic, rwCount, rwOwner, rwWrite, reads, writing>>

WrLock(t) ==
  /\ RwCalls(t) /\ rwCount = 0
  /\ rwCount' = -1 /\ rwOwner' = t
  /\ writing' = {t}
  /\ UNCHANGED <<vars, magic, rwRead, rwWrite, reads>>

WrWaits(t, timed) ==
  /\ RwCalls(t) /\ rwCount # 0 /\ rwOwner # t
  /\ RwPend(t, timed)
  /\ rwWrite' = InsertAt(rwWrite, RwPlace(rwWrite, prio[t]), t)
  /\ UNCHANGED <<notWaiting, magic, rwCount, rwOwner, rwRead, reads, writing>>

\* OsRwLockUnlock, by a task that has a lock to give back.
Unlock(t) ==
  /\ RwCalls(t) /\ rwCount # 0
  /\ rwCount < 0 => rwOwner = t
  /\ t \in writing \/ reads[t] > 0
  /\ IF rwCount > 1
       THEN /\ rwCount' = rwCount - 1 /\ reads' = ReadsLeft(t)
            /\ UNCHANGED <<status, rwOwner, rwRead, rwWrite, writing>>
       ELSE IF WriterNext THEN ToWriter(t) ELSE ToReaders(t)
  /\ UNCHANGED <<notWaiting, magic>>

\* Fault: a task that waited to write stays in the list.
RwTimerExpiresKeepsWriter(t) ==
  /\ {"RW_PEND", "TIMEOUT"} \subseteq status[t]
  /\ status' = [status EXCEPT ![t] = {"TIMEOUT"}]
  /\ rwRead' = RemoveFirst(rwRead, t)
  /\ UNCHANGED <<notWaiting, magic, rwCount, rwOwner, rwWrite, reads, writing>>

\* The timer of t: as for a semaphore.
RwTimerExpires(t) ==
  /\ {"RW_PEND", "TIMEOUT"} \subseteq status[t]
  /\ status' = [status EXCEPT ![t] = {"TIMEOUT"}]
  /\ rwRead' = RemoveFirst(rwRead, t)
  /\ rwWrite' = RemoveFirst(rwWrite, t)
  /\ UNCHANGED <<notWaiting, magic, rwCount, rwOwner, reads, writing>>

RwNext ==
  \/ Next /\ UNCHANGED rwVars
  \/ RwCreate \/ RwDestroy
  \/ \E t \in Tasks :
       \/ RdLock(t) \/ WrLock(t) \/ Unlock(t) \/ RwTimerExpires(t)
       \/ \E timed \in BOOLEAN : RdWaits(t, timed) \/ WrWaits(t, timed)

RwSpec == RwInit /\ [][RwNext]_allVars

-----------------------------------------------------------------------------
(* Properties.                                                             *)

RwTypeOK ==
  /\ TypeOK
  /\ magic \in {"none", "unset", "set"} /\ rwCount \in Int /\ rwOwner \in Tasks \cup {NoTask}
  /\ rwRead \in Seq(Tasks) /\ rwWrite \in Seq(Tasks)
  /\ reads \in [Tasks -> 0..MaxReads] /\ writing \subseteq Tasks

ReadLocks == {l \in Tasks \X (1..MaxReads) : l[2] <= reads[l[1]]}

\* Any number of readers or one writer: rw_count and rw_owner are what the calls
\* that have returned, or are about to, told the tasks.
ReadersXorWriter ==
  /\ writing = IF rwOwner = NoTask THEN {} ELSE {rwOwner}
  /\ rwOwner = NoTask <=> rwCount >= 0
  /\ Cardinality(ReadLocks) = (IF rwCount < 0 THEN 0 ELSE rwCount)

\* As WaitersListed, and a task with OS_TSK_RW_PEND is in one list of the lock,
\* once; a lock that nobody holds has no waiters.
AllWaitersListed ==
  /\ WaitersListed
  /\ NoDuplicates(rwRead \o rwWrite)
  /\ \A t \in Tasks : "RW_PEND" \in status[t] <=> Contains(rwRead \o rwWrite, t)
  /\ rwCount = 0 => rwRead = << >> /\ rwWrite = << >>

\* No reader gets the lock, by its own call or when another task unlocks, while
\* the writer that is first in the list is as urgent: a stream of readers does
\* not keep that one out.  The writers behind it are not looked at.
WriterNotOvertaken ==
  [][\A t \in Tasks : reads'[t] > reads[t] =>
       rwWrite' = << >> \/ prio[t] < prio[Head(rwWrite')]]_allVars
=============================================================================
