------------------------------- MODULE QsemSem -------------------------------
(***************************************************************************)
(* Semaphores of QSemOS (core/ipc/sem) on several cores: counting ones,    *)
(* whose waiters are served in order of arrival, and mutexes, which nest,  *)
(* serve the most urgent waiter first and lend its priority to their owner *)
(* (a smaller number is more urgent).  With them comes                     *)
(* PRT_TaskSetPriority, which may run on another core.                     *)
(*                                                                         *)
(* A call on a mutex holds the lock of the semaphore and the lock of       *)
(* priority inheritance, OsSemPrioLock, from its first look at the mutex   *)
(* to its end.  Three parts of it are steps of their own, as they take the *)
(* lock of one task's run queue after another, or none: OsPriorityInherit  *)
(* and each turn of its walk up the chain of owners, the hand-over to a    *)
(* task that has been woken, and OsPriorityRestore.  Timers expire then,   *)
(* counting semaphores are used, and PRT_TaskSetPriority runs for tasks    *)
(* that hold no mutex.  When a woken task runs is the scheduler's          *)
(* business: any ready task may step.                                      *)
(***************************************************************************)
EXTENDS Naturals, Sequences, FiniteSets, SequencesExt, Lists

CONSTANTS Tasks,
          Mutexes,    \* SEM_TYPE_BIN, SEM_MODE_PRIOR, with SEM_MUTEX_TYPE_RECUR
          Counting,   \* SEM_TYPE_COUNT, SEM_MODE_FIFO
          Lowest,     \* OS_TSK_PRIORITY_LOWEST, the number of the least urgent priority
          Created,    \* the priority each task is created with
          Adjusted,   \* the tasks PRT_TaskSetPriority is called for
          Targets,    \* the priorities it asks for
          Callers,    \* the tasks that pend on each semaphore
          Nested,     \* the mutexes they take again while they own them
          Deletable,  \* the semaphores that are deleted and created again
          MaxCount,   \* OS_SEM_COUNT_MAX
          MaxNest,    \* bound: how often a mutex is taken again by its owner
          NoTask,     \* OS_INVALID_OWNER_ID
          NoSem       \* NULL in taskPend

Sems == Mutexes \cup Counting
Prios == 0..Lowest

ASSUME TasksFinite == IsFiniteSet(Tasks) /\ NoTask \notin Tasks
ASSUME SemsOK == Mutexes \cap Counting = {} /\ NoSem \notin Sems
ASSUME NumbersOK == Lowest \in Nat /\ MaxCount \in Nat \ {0} /\ MaxNest \in Nat
ASSUME TaskSetsOK == Created \in [Tasks -> Prios] /\ Adjusted \subseteq Tasks
ASSUME UsesOK ==
  /\ Targets \subseteq Prios /\ Callers \in [Sems -> SUBSET Tasks]
  /\ Nested \subseteq Mutexes /\ Deletable \subseteq Sems

VARIABLES used,      \* the semaphores with semStat OS_SEM_USED
          count,     \* semCount
          owner,     \* semOwner of each mutex
          recur,     \* recurCount of each mutex
          list,      \* semList, the tasks that wait
          prio,      \* priority of each task
          orig,      \* origPriority of each task
          status,    \* PEND and TIMEOUT in the taskStatus of each task
          taskPend,  \* taskPend, the semaphore each task waits for
          held,      \* semBList of each task, the mutexes it owns
          step,      \* the call that holds OsSemPrioLock, between two steps
          setting,   \* the task PRT_TaskSetPriority is changing without OsSemPrioLock
          stale,     \* history: the tasks last restored to a priority they no longer had
          unlent     \* history: the waiters left behind when the next owner was set lower

semVars == <<used, count, owner, recur, list>>
taskVars == <<prio, orig, status, taskPend, held>>
history == <<stale, unlent>>
vars == <<semVars, taskVars, step, setting, history>>

Idle == [op |-> "none", task |-> NoTask, sem |-> NoSem, at |-> NoTask, prio |-> 0]

Init ==
  /\ used \in SUBSET Sems
  /\ count \in [Sems -> 0..MaxCount]
  /\ \A s \in Sems : IF s \notin used THEN count[s] = 0 ELSE s \in Mutexes => count[s] = 1
  /\ owner = [m \in Mutexes |-> NoTask]
  /\ recur = [m \in Mutexes |-> 0]
  /\ list = [s \in Sems |-> << >>]
  /\ prio = Created /\ orig = Created
  /\ status = [t \in Tasks |-> {}]
  /\ taskPend = [t \in Tasks |-> NoSem]
  /\ held = [t \in Tasks |-> {}]
  /\ step = Idle /\ setting = NoTask /\ stale = {} /\ unlent = {}

-----------------------------------------------------------------------------
(* The parts of prt_sem.c.                                                 *)

\* t can make a call: it is not pended and not inside a call.
Runs(t) == status[t] = {} /\ step.task # t

\* OsSemPrioLock is free; the lock of the semaphore s is.
PrioLockFree == step = Idle
Usable(s) == s \in used /\ step.sem # s

\* Insertion into a list before the first task that is less urgent than p.
Place(l, p) ==
  LET behind == {i \in 1..Len(l) : prio[l[i]] > p}
  IN IF behind = {} THEN Len(l) + 1 ELSE Min(behind)
Inserted(l, t, p) == InsertAt(l, Place(l, p), t)

\* OsGetPendTskMaxPriority: the most urgent of base and the first waiters of
\* the mutexes ms.
MostUrgent(ms, base) ==
  Min({base} \cup {prio[Head(list[m])] : m \in {n \in ms : list[n] # << >>}})

\* OsSemPendListPut up to OsPriorityInherit.
Pends(t, s, timed) ==
  /\ status' = [status EXCEPT ![t] = IF timed THEN {"PEND", "TIMEOUT"} ELSE {"PEND"}]
  /\ taskPend' = [taskPend EXCEPT ![t] = s]
  /\ list' = [list EXCEPT ![s] = IF s \in Mutexes THEN Inserted(@, t, prio[t])
                                 ELSE Append(@, t)]

\* OsSemPendListGet: the first waiter leaves the list and is ready.
Wakes(s) ==
  /\ status' = [status EXCEPT ![Head(list[s])] = {}]
  /\ taskPend' = [taskPend EXCEPT ![Head(list[s])] = NoSem]
  /\ list' = [list EXCEPT ![s] = Tail(@)]

-----------------------------------------------------------------------------
(* PRT_SemPend and PRT_SemPost on a mutex.  Calls that fail change nothing. *)

Nests(t, m) ==
  /\ Runs(t) /\ PrioLockFree /\ Usable(m)
  /\ owner[m] = t /\ m \in Nested /\ recur[m] < MaxNest
  /\ recur' = [recur EXCEPT ![m] = @ + 1]
  /\ UNCHANGED <<used, count, owner, list, taskVars, step, setting, history>>

Takes(t, m) ==
  /\ Runs(t) /\ PrioLockFree /\ Usable(m)
  /\ owner[m] # t /\ count[m] > 0
  /\ count' = [count EXCEPT ![m] = @ - 1]
  /\ owner' = [owner EXCEPT ![m] = t]
  /\ held' = [held EXCEPT ![t] = @ \cup {m}]
  /\ UNCHANGED <<used, recur, list, prio, orig, status, taskPend, step, setting, history>>

Waits(t, m, timed) ==
  /\ Runs(t) /\ PrioLockFree /\ Usable(m)
  /\ owner[m] # t /\ count[m] = 0
  /\ Pends(t, m, timed)
  /\ step' = [op |-> "pend", task |-> t, sem |-> m, at |-> owner[m], prio |-> 0]
  /\ UNCHANGED <<used, count, owner, recur, prio, orig, held, setting, history>>

OnMutex(o) == "PEND" \in status[o] /\ taskPend[o] \in Mutexes

\* Fault: the owner that waits itself stays where it is.
NotResorted(o, p) == list

\* OsResortSemList: the lists when the owner o gets the priority p.
Resorted(o, p) ==
  IF OnMutex(o) THEN [list EXCEPT ![taskPend[o]] = Inserted(RemoveFirst(@, o), o, p)]
  ELSE list

\* Fault: only the first owner inherits.
NotOnward(o) == Idle

\* From the owner o to the owner of the mutex that o waits for.
Onward(o) == IF OnMutex(o) THEN [step EXCEPT !.at = owner[taskPend[o]]] ELSE Idle

\* OsPriorityInherit takes the priority of the running task when the lock of its
\* run queue is free again: its timer may have expired, and the priority changed.
InheritBegins ==
  /\ step.op = "pend"
  /\ step' = [step EXCEPT !.op = "inherit", !.prio = prio[step.task]]
  /\ UNCHANGED <<semVars, taskVars, setting, history>>

\* One turn of the loop of OsPriorityInherit, under the run queue lock of the
\* owner it has come to.
Inherit ==
  /\ step.op = "inherit"
  /\ IF prio[step.at] <= step.prio
       THEN step' = Idle /\ UNCHANGED <<prio, list>>
       ELSE /\ prio' = [prio EXCEPT ![step.at] = step.prio]
            /\ list' = Resorted(step.at, step.prio)
            /\ step' = Onward(step.at)
  /\ UNCHANGED <<used, count, owner, recur, orig, status, taskPend, held, setting, history>>

\* A nested post needs no OsSemPrioLock.
Unnests(t, m) ==
  /\ Runs(t) /\ Usable(m)
  /\ owner[m] = t /\ recur[m] > 0
  /\ recur' = [recur EXCEPT ![m] = @ - 1]
  /\ UNCHANGED <<used, count, owner, list, taskVars, step, setting, history>>

\* The mutex is free, and OsPriorityRestore begins with a look at origPriority;
\* or the first waiter is woken, before it is made the owner.
Posts(t, m) ==
  /\ Runs(t) /\ PrioLockFree /\ Usable(m)
  /\ owner[m] = t /\ recur[m] = 0
  /\ IF list[m] # << >>
       THEN /\ Wakes(m)
            /\ step' = [op |-> "pass", task |-> t, sem |-> m, at |-> Head(list[m]), prio |-> 0]
            /\ unlent' = unlent \ ToSet(list[m])
            /\ UNCHANGED <<count, owner, held>>
       ELSE /\ count' = [count EXCEPT ![m] = @ + 1]
            /\ owner' = [owner EXCEPT ![m] = NoTask]
            /\ held' = [held EXCEPT ![t] = @ \ {m}]
            /\ step' = [op |-> "restore", task |-> t, sem |-> m, at |-> t, prio |-> orig[t]]
            /\ UNCHANGED <<list, status, taskPend, unlent>>
  /\ UNCHANGED <<used, recur, prio, orig, setting, stale>>

\* The rest of OsSemPendListGet up to OsPriorityRestore: semOwner and semBList,
\* without the lock of the woken task's run queue.
HandsOver ==
  /\ step.op = "pass"
  /\ LET t == step.task
         m == step.sem
     IN /\ owner' = [owner EXCEPT ![m] = step.at]
        /\ held' = [held EXCEPT ![t] = @ \ {m}, ![step.at] = @ \cup {m}]
        /\ step' = [op |-> "restore", task |-> t, sem |-> m, at |-> t, prio |-> orig[t]]
  /\ UNCHANGED <<used, count, recur, list, prio, orig, status, taskPend, setting, history>>

\* Fault: OsPriorityRestore is not called.
RestoreNothing ==
  /\ step.op = "restore"
  /\ step' = Idle
  /\ UNCHANGED <<semVars, taskVars, setting, history>>

\* The rest of OsPriorityRestore.  The test of line 235 is made without the lock
\* of the run queue, and the build may use the origPriority read before it.
Restore ==
  /\ step.op = "restore"
  /\ LET t == step.task
     IN \E seen \in {step.prio, orig[t]} :
          IF prio[t] = seen
            THEN prio' = prio /\ stale' = stale \ {t}
            ELSE /\ prio' = [prio EXCEPT ![t] = MostUrgent(held[t], step.prio)]
                 /\ stale' = IF orig[t] = step.prio THEN stale \ {t} ELSE stale \cup {t}
  /\ step' = Idle
  /\ UNCHANGED <<semVars, orig, status, taskPend, held, setting, unlent>>

-----------------------------------------------------------------------------
(* The same on a counting semaphore; interrupts may post it, too.          *)

TakesCount(t, s) ==
  /\ Runs(t) /\ Usable(s)
  /\ count[s] > 0
  /\ count' = [count EXCEPT ![s] = @ - 1]
  /\ UNCHANGED <<used, owner, recur, list, taskVars, step, setting, history>>

WaitsCount(t, s, timed) ==
  /\ Runs(t) /\ Usable(s)
  /\ count[s] = 0
  /\ Pends(t, s, timed)
  /\ UNCHANGED <<used, count, owner, recur, prio, orig, held, step, setting, history>>

\* Fault: the count has no limit.
PostsCountUnbounded(s) ==
  /\ Usable(s)
  /\ IF list[s] # << >>
       THEN Wakes(s) /\ UNCHANGED count
       ELSE /\ count' = [count EXCEPT ![s] = @ + 1]
            /\ UNCHANGED <<list, status, taskPend>>
  /\ UNCHANGED <<used, owner, recur, prio, orig, held, step, setting, history>>

PostsCount(s) ==
  /\ Usable(s) /\ count[s] < MaxCount
  /\ IF list[s] # << >>
       THEN Wakes(s) /\ UNCHANGED count
       ELSE /\ count' = [count EXCEPT ![s] = @ + 1]
            /\ UNCHANGED <<list, status, taskPend>>
  /\ UNCHANGED <<used, owner, recur, prio, orig, held, step, setting, history>>

-----------------------------------------------------------------------------
(* The end of a wait by time, creation and deletion.                       *)

\* The timer of t: t leaves its list and is ready, TIMEOUT stays.
TimerExpires(t) ==
  /\ {"PEND", "TIMEOUT"} \subseteq status[t]
  /\ status' = [status EXCEPT ![t] = {"TIMEOUT"}]
  /\ taskPend' = [taskPend EXCEPT ![t] = NoSem]
  /\ list' = [s \in Sems |-> RemoveFirst(list[s], t)]
  /\ unlent' = unlent \ {t}
  /\ UNCHANGED <<used, count, owner, recur, prio, orig, held, step, setting, stale>>

\* PRT_SemPend returns OS_ERRNO_SEM_TIMEOUT.
TimedOut(t) ==
  /\ status[t] = {"TIMEOUT"} /\ step.task # t
  /\ status' = [status EXCEPT ![t] = {}]
  /\ UNCHANGED <<semVars, prio, orig, taskPend, held, step, setting, history>>

\* PRT_SemCreate, PRT_SemMutexCreate.
Create(s, n) ==
  /\ s \notin used
  /\ s \in Mutexes => n = 1
  /\ used' = used \cup {s}
  /\ count' = [count EXCEPT ![s] = n]
  /\ list' = [list EXCEPT ![s] = << >>]
  /\ owner' = [m \in Mutexes |-> IF m = s THEN NoTask ELSE owner[m]]
  /\ recur' = [m \in Mutexes |-> IF m = s THEN 0 ELSE recur[m]]
  /\ UNCHANGED <<taskVars, step, setting, history>>

\* Fault: a mutex may be deleted while somebody owns it.
DeleteOwned(s) ==
  /\ Usable(s) /\ list[s] = << >>
  /\ used' = used \ {s}
  /\ count' = [count EXCEPT ![s] = 0]
  /\ UNCHANGED <<owner, recur, list, taskVars, step, setting, history>>

\* PRT_SemDelete.  The count of a deleted semaphore is of no use, and 0 here.
Delete(s) ==
  /\ Usable(s) /\ list[s] = << >>
  /\ s \in Mutexes => owner[s] = NoTask
  /\ used' = used \ {s}
  /\ count' = [count EXCEPT ![s] = 0]
  /\ UNCHANGED <<owner, recur, list, taskVars, step, setting, history>>

-----------------------------------------------------------------------------
(* PRT_TaskSetPriority.                                                    *)

\* OsCheckPrioritySet.
MaySet(t, p) ==
  /\ orig[t] = prio[t]
  /\ ~OnMutex(t)
  /\ held[t] # {} => p <= MostUrgent(held[t], orig[t])

\* The tasks that wait for a mutex on its way to t are looked at by nobody.
SetsPriority(t, p) ==
  /\ MaySet(t, p)
  /\ prio' = [prio EXCEPT ![t] = p]
  /\ orig' = [orig EXCEPT ![t] = p]
  /\ unlent' = IF step.op = "pass" /\ step.at = t
               THEN LET waiters == ToSet(list[step.sem])
                    IN (unlent \ waiters) \cup {u \in waiters : prio[u] < p}
               ELSE unlent
  /\ UNCHANGED <<semVars, status, taskPend, held, step, stale>>

\* OsSemPrioBListLock finds that t holds no mutex, and takes no lock: what
\* follows, under the lock of t's run queue, may come later.
SetUnlocked(t) ==
  /\ setting = NoTask /\ t \in Adjusted /\ held[t] = {}
  /\ setting' = t
  /\ UNCHANGED <<semVars, taskVars, step, history>>

SetsLate(p) ==
  /\ setting # NoTask
  /\ setting' = NoTask
  /\ IF MaySet(setting, p) THEN SetsPriority(setting, p)
     ELSE UNCHANGED <<semVars, taskVars, step, history>>

\* t holds a mutex, and OsSemPrioLock is taken for the check.
SetLocked(t, p) ==
  /\ t \in Adjusted /\ held[t] # {} /\ PrioLockFree
  /\ SetsPriority(t, p)
  /\ UNCHANGED setting

-----------------------------------------------------------------------------
MutexCalls(t) ==
  \E m \in {n \in Mutexes : t \in Callers[n]} :
    \/ Nests(t, m) \/ Takes(t, m) \/ Unnests(t, m) \/ Posts(t, m)
    \/ \E timed \in BOOLEAN : Waits(t, m, timed)

CountCalls(t) ==
  \E s \in {n \in Counting : t \in Callers[n]} :
    TakesCount(t, s) \/ \E timed \in BOOLEAN : WaitsCount(t, s, timed)

Next ==
  \/ \E t \in Tasks : MutexCalls(t) \/ CountCalls(t) \/ TimerExpires(t) \/ TimedOut(t)
  \/ \E s \in Counting : PostsCount(s)
  \/ \E s \in Deletable : Delete(s) \/ \E n \in 0..MaxCount : Create(s, n)
  \/ InheritBegins \/ Inherit \/ HandsOver \/ Restore
  \/ \E t \in Tasks : SetUnlocked(t) \/ \E p \in Targets : SetLocked(t, p)
  \/ \E p \in Targets : SetsLate(p)

Spec == Init /\ [][Next]_vars

-----------------------------------------------------------------------------
(* Properties.                                                             *)

Steps == [op : {"none", "pend", "inherit", "pass", "restore"}, task : Tasks \cup {NoTask},
          sem : Mutexes \cup {NoSem}, at : Tasks \cup {NoTask}, prio : Prios]

TypeOK ==
  /\ used \in SUBSET Sems
  /\ count \in [Sems -> 0..MaxCount]
  /\ owner \in [Mutexes -> Tasks \cup {NoTask}]
  /\ recur \in [Mutexes -> 0..MaxNest]
  /\ list \in [Sems -> Seq(Tasks)]
  /\ prio \in [Tasks -> Prios] /\ orig \in [Tasks -> Prios]
  /\ status \in [Tasks -> SUBSET {"PEND", "RW_PEND", "TIMEOUT"}]
  /\ taskPend \in [Tasks -> Sems \cup {NoSem}]
  /\ held \in [Tasks -> SUBSET Mutexes]
  /\ step \in Steps
  /\ setting \in Tasks \cup {NoTask}
  /\ stale \subseteq Tasks /\ unlent \subseteq Tasks

\* A mutex has one owner, which has it in its semBList, or is free; it is never
\* counted as free while somebody owns it, waits for it or has it nested.
OwnersAgree ==
  /\ \A t \in Tasks, m \in Mutexes : m \in held[t] <=> owner[m] = t
  /\ \A m \in Mutexes \cap used : count[m] = (IF owner[m] = NoTask THEN 1 ELSE 0)
  /\ \A m \in Mutexes : owner[m] = NoTask => recur[m] = 0

\* A task with OS_TSK_PEND is in the list of the semaphore it waits for, once, and
\* nobody else is in a list; and nobody sleeps on a semaphore that can be had.
WaitersListed ==
  /\ \A t \in Tasks, s \in Sems :
       Contains(list[s], t) <=> "PEND" \in status[t] /\ taskPend[t] = s
  /\ \A s \in Sems : NoDuplicates(list[s]) /\ (list[s] # << >> => s \in used /\ count[s] = 0)

\* prt_sem.h:378 promises that a post wakes the most urgent task that waits:
\* whatever inheritance and PRT_TaskSetPriority do to the priorities of tasks
\* that wait for a mutex, its list stays sorted.
UrgentFirst ==
  \A m \in Mutexes : \A i, j \in 1..Len(list[m]) :
    i < j => prio[list[m][i]] <= prio[list[m][j]]

\* Priority inheritance: when no walk and no hand-over is under way, the owner of
\* a mutex is as urgent as every task that waits for it, along the whole chain of
\* owners; except the tasks that waited while PRT_TaskSetPriority made the next
\* owner less urgent, between its wake-up and the hand-over (prt_sem.c:343 to 355).
OwnersInherit ==
  step.op \notin {"pend", "inherit", "pass"} =>
    \A m \in Mutexes : \A t \in ToSet(list[m]) \ unlent : prio[owner[m]] <= prio[t]

\* A task that has given back its last mutex has its own priority again, unless
\* PRT_TaskSetPriority came in between the two looks of OsPriorityRestore.
BorrowedIsReturned ==
  \A t \in Tasks : held[t] = {} /\ step.task # t /\ t \notin stale => prio[t] = orig[t]
=============================================================================
