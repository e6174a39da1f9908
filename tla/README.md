# TLA+ models of the kernels in PriCodeBench-collab

The repository collects two embedded operating systems and the scripts that use
them as benchmarks. This directory holds TLA+ models of the kernels' own logic, the TLC
configurations that check them on small systems, and TLAPS proofs for systems of
any size. The models cover the core of RIOT, and the message
queues, semaphores and read-write locks of QSemOS.

Contents:
1. the parts of the system, 2. how the models are made, 3. the modules, 4. the
runs, 5. disagreements between code and documentation, 6. bounds, 7. fairness
and deadlock, 8. proofs, 9. what is not modelled, 10. the plan.

## 1. The system's parts

### RIOT (`src/Open_source/RIOT`)

A kernel for one processor. One thread runs at a time; interrupts may come
whenever they are not masked; a critical section is a pair `irq_disable` /
`irq_restore`. All parts share the thread control block: its `status`, its
`priority`, the list node `rq_entry` (used by the run queues and by every wait
list), and the pointer `wait_data`.

| part | state | operations | talks to | correct when |
|---|---|---|---|---|
| scheduler, `core/sched.c` | run queues, bit cache, active thread, context switch request, statuses, priorities | `sched_run`, `sched_switch`, `sched_set_status`, `sched_change_priority`, `sched_task_exit` | every other part calls it; interrupts leave requests that their end carries out | queues, bits, statuses and priorities agree; the most urgent ready thread runs; peers take turns |
| threads, `core/thread.c` | `sched_threads`, number of threads | create, sleep, wake up, yield, zombify, kill zombie, add to a wait list | scheduler | a freed thread never runs again |
| mailboxes, `core/mbox.c` | ring of messages, lists of blocked readers and writers | put, get, and their `try` variants, by threads and interrupts | wait lists, scheduler | first-in first-out, nothing lost, nobody sleeps beside what it waits for |
| mutexes, `core/mutex.c` | one word that is unlocked, locked or a wait list; `owner` and its original priority with priority inheritance; `mutex_cancel_t` | lock, trylock, cancelable lock, unlock, unlock and sleep, cancel | wait lists, scheduler, timers | mutual exclusion, no waiter lost, the most urgent waiter first |
| condition variables, `core/cond.c` | list of waiters | wait, signal, broadcast | mutex, scheduler | no signal is lost between unlocking and sleeping |
| messages, `core/msg.c`, `core/msg_bus.c` | per thread: queue, list of blocked senders, `wait_data`; per bus: subscribers | send, try, request and reply, to oneself, from interrupts, over a bus, receive | wait lists, scheduler | nothing lost, order per sender, requests get their own reply |
| thread flags, `core/thread_flags.c` | flags per thread | set, clear, wait for any, all or one | scheduler, messages, mailboxes | no flag is lost |
| recursive mutexes, `core/lib/rmutex.c` | mutex, owner, count | lock, trylock, unlock | mutex | the owner alone counts, whatever others read |
| containers, `core/lib` | ring buffer, circular list, priority queue, index buffer | sequential | used by all | equal to a sequence |

What is hard here: each call is a critical section followed by a call of the
scheduler *after* `irq_restore`, so interrupts and, through them, other threads run
between the two, and again before a thread that was woken really runs. What a
call found out before it blocked can be stale when it goes on.

### QSemOS (`src/Closed_source/QSemOS`)

A multiprocessor kernel: tasks, a scheduler per core, and, on top of it,
message queues (`prt_queue.c`), semaphores and mutex semaphores with inheritance
(`prt_sem.c`), read-write locks (`prt_rwlock.c`), signals (`prt_signal.c`) and
software timers (`prt_swtmr_minor.c`). They keep pend lists of tasks that wait
with a timeout, under per-object and per-run-queue spinlocks. Hard: several
cores, timeouts against posts, hand-off reservations, and error paths that leave
locks. Many internal headers of the kernel are not in the repository, so a
model of it has to take parts of the task layer as external.

| part | state | operations | talks to | correct when |
|---|---|---|---|---|
| message queues, `core/ipc/queue` | ring of nodes with head and tail, `readableCnt`, `writableCnt`, pend lists of readers and writers, `nodePeak` | read, write (normal or urgent), with a timeout, for ever or without waiting, by tasks and interrupts | pend status and timer of tasks, scheduler | each node is claimed once, messages come in order with urgent ones first, waiters are served |
| semaphores, `core/ipc/sem`, and `PRT_TaskSetPriority` | count, pend list, owner, nesting; per task: the mutexes it owns (`semBList`), `priority`, `origPriority`, `taskPend` | pend, post, create, delete, set priority | priorities and pend status of tasks, timers | owner lists and counts agree, the owner inherits from all who wait for it along the chain, and gives it back |
| read-write locks, `core/ipc/rwlock` | count of readers, writer, two pend lists by priority | read, write, try, timed, unlock, init, destroy | tasks, timers, the priorities that mutexes change | readers or one writer, no waiter stranded, no writer overtaken by readers of its level |
| software timers, `core/kernel/timer/swtmr` | sorted list, state per timer | create, start, stop, restart, delete, expiry | tick | a stopped timer does not fire |
| signals, `core/ipc/signal` | pending and masked sets, wait list | kill, mask, wait, suspend | tasks | no signal is lost |

### The rest

Boards, CPUs, drivers, packages, file systems, C libraries, network stacks, and the
Python scripts of the benchmark. Section 9 says why they are left out.

`PROJECT.json` lists every part under `components`, the hazards of this code at the
lines where they bite under `hazards`, and the source lines of each definition
under `map`.

## 2. How the models are made

- **A critical section is one step.** On one processor nothing can run between
  `irq_disable` and `irq_restore`. The step includes every call made inside it.
- **The scheduler call after it is a step of its own.** What is left to do is kept in
  `k.tail[t]` (`thread_yield_higher`, `thread_yield`, `sched_switch(p)`, or the rest of `sched_change_priority`), and
  `Reschedule(t)` does it. Interrupts may come between the two steps.
  `thread_yield` has a critical section of its own that rotates the run queue, so it
  takes two steps. `sched_change_priority` decides after `irq_restore` whether to yield, from what the priorities and statuses are then: its
  look (`ChangeCall`) is a step, and the yield is the next one.
- **An interrupt handler is one step** that ends with `IsrEnd`, the scheduler run at
  the end of an interrupt (`cpu/native/cpu.c`): a request made by `sched_switch` or
  `thread_yield_higher` in the handler, or one left over, is carried out there. An
  interrupt that finds the kernel in its idle loop lets `sched_run` look again.
- **A thread that was switched away stays where it was.** Its own variables say how
  far its call has come (`call`, `sending`, `asking`), and it can take its next step when
  `Executes(k, t)` holds again.
- **A blocked thread is linked into exactly one list by the code**; the models keep
  run queues and wait lists apart, and properties say that the two views agree.
- **QSemOS is modelled without its scheduler.** A call on a queue holds the spinlock of its queue
  except inside `OsTskSchedule`, so a call that does not pend is one step, and one that
  pends is the step before and the step after it. On several cores any ready task may come
  next, so every task that is ready can take its next step at any time.
- **QSemOS mutexes take three kinds of locks** in turn: the one of the semaphore, `OsSemPrioLock`, and the run queue locks
  of one task after another. A call on a mutex holds the first two throughout, so its parts under different run queue locks, or between two of them
  (`Waits`, `InheritBegins`, each turn of `Inherit`; `Posts`, `HandsOver`, `Restore`), are steps, between which only what needs none of the locks may happen: timers, counting
  semaphores, nested posts, and the half of `PRT_TaskSetPriority` that runs without `OsSemPrioLock` because the task owned no mutex
  when it looked. Fields read without their lock (`priority` and `origPriority` in `OsPriorityRestore`, `semBList` in `PRT_TaskSetPriority`) are
  read as a whole, at any of the moments the build may choose.
- **Read-write locks of QSemOS only mask interrupts.** They are sound for tasks bound to one core, which the model assumes of
  the tasks that share one; every call is one step.
- **Recursive mutexes of RIOT mask nothing.** Each access to the mutex and to `owner` is a step.
- **Applications follow the documentation**: a mutex is unlocked by the thread that
  has it, a reply answers a request, a condition is changed with its mutex held.
  Within that they do anything in any order.
- Definitions under a comment `\* Fault:` are variations of the definition that
  follows them, with one plausible mistake in each. No specification uses them;
  replacing the definition by its variation must make a run fail, which is how
  each property is known to depend on the code (`mutants` in `PROJECT.json`).

## 3. The modules

| module | models | state and its code |
|---|---|---|
| `RiotSched` | `core/sched.c`, list helpers of `core/thread.c`, as operators on one record | `status`, `prio`, `runq` (`sched_runqueues`), `bits` (`runqueue_bitcache`), `active`, `idle` (the loop around `sched_arch_idle`), `req` (`sched_context_switch_request`), `tail` |
| `RiotThreads` | `core/thread.c` and the rest of `core/sched.c` as a system of threads and interrupts | the kernel `k`, `exists` (`sched_threads[p] # NULL`), `count` (`sched_num_threads`) |
| `RiotMbox` | `core/mbox.c` on `RiotSched` | `queue` (the ring), `readers`, `writers`, `sending` (the message of a blocked put) |
| `Mailbox` | what a mailbox promises | the messages accepted and received so far |
| `RiotMutex` | `core/mutex.c` on `RiotSched` | `mu` (the `mutex_t`s), `cancelled` (`mutex_cancel_t`), `call`, `holds` |
| `RiotRmutex` | `core/lib/rmutex.c` on `RiotMutex` | `rowner`, `refcount` (fields of `rmutex_t`), `at` (where in which call a thread is), `depth` (history: locks got and not given back) |
| `RiotCond` | `core/cond.c` on `RiotMutex` | `cq` (the queue), `immediate` (how the platform yields), `tokens` (the condition), `want`, `owes` (where consumers and producers are) |
| `RiotMsg` | `core/msg.c`, `core/msg_bus.c` on `RiotSched` | `cap`, `queue`, `waiters` (`msg_waiters`), `out` (`wait_data`), `asking` |
| `QsemQueue` | `core/ipc/queue/prt_queue.c` of QSemOS, one queue | `node` (`srcPid` and the data of each `QueNode`), `head`, `tail`, `readable`, `writable`, `peak` (fields of `TagQueCb`), `readList`, `writeList`, `status` (`OS_TSK_QUEUE_PEND`, `OS_TSK_QUEUE_BUSY`, `OS_TSK_TIMEOUT`), `call` (the stack of a pended task), `highest` (history) |
| `QsemSem` | `core/ipc/sem` of QSemOS and `kernel/task/smp/prt_task_priority.c` | `used`, `count`, `owner`, `recur`, `list` (fields of `TagSemCb`), `prio`, `orig`, `status`, `taskPend`, `held` (fields of `TagTskCb`), `step` (the call that holds `OsSemPrioLock`), `setting` (the call of `PRT_TaskSetPriority` that does not), `stale`, `unlent` (history) |
| `QsemRwlock` | `core/ipc/rwlock` and the `pthread_rwlock` calls around it, on `QsemSem` | `magic`, `rwCount`, `rwOwner`, `rwRead`, `rwWrite` (fields of `pthread_rwlock_t`), `reads`, `writing` (history: what the calls have told the tasks) |
| `UrgentQueue` | what a queue promises | its content |
| `Lists` | lists without duplicates, for both systems | |
| `ListFacts`, `RiotSched_proofs`, `RiotThreads_proofs`, `RiotLocks_proofs` (mutexes, recursive mutexes, condition variables), `RiotMbox_proofs`, `RiotMsg_proofs`, `QsemQueue_proofs`, `QsemLocks_proofs` (semaphores, read-write locks) | proofs | |
| `MCRiot...`, `MCQsem...` | constants for TLC | |

Composition: every RIOT module EXTENDS `RiotSched` and has one variable `k` for the kernel, so
that a mutex or a mailbox is checked together with the scheduler it drives, not
against an idealised one. `RiotCond` and `RiotRmutex` EXTEND `RiotMutex` and reuse its actions. `QsemRwlock` EXTENDS
`QsemSem`: mutexes change the priorities by which a lock chooses who comes next.
`RiotMbox` INSTANCEs `Mailbox` and is checked to implement it. `QsemQueue` INSTANCEs `UrgentQueue`
and is checked and proved to implement it.

Some correspondences that are not obvious:

- `thread_create` takes the first free pid; the model takes any free one, since no
  property depends on which.
- `Init` of `RiotThreads` is the system after `kernel_init` with one running thread. The other
  modules start with all their threads created and the first of the most
  urgent ones scheduled (`Booted`).
- `sched_task_exit` sets `sched_active_thread` to NULL. If no thread is ready, the
  idle loop runs with it, and `sched_switch` in an interrupt reads the status and the
  priority through NULL. `IsrWakeup` in `RiotThreads` allows both outcomes of that read.
- A getter blocked in `mbox_get` has a pointer to its message in `wait_data`. A message
  counts as received when it is stored there; the getter needs no further step.
- The `mutex_t` is one word. The model has `locked` and `queue`, and the property
  `WaitersQueued` says that only a locked mutex has waiters, which is what the encoding by one
  word relies on.
- `cond_wait` calls `mutex_unlock` with interrupts masked. Its `thread_yield_higher` is
  pended on platforms with PendSV and on native, and switches at once on AVR, MSP430,
  RISC-V and ARM7. `immediate` is chosen at the start and covers both.
- An entry of a message bus has a mask of the events it subscribed to. `SendBus` and `IsrSend` take the set of subscribers whose mask has the bit of
  the message's event: any set, since masks and events are the application's choice. `THREAD_PRIORITY_IDLE`, the last level (`IdlePrio`), is the one a receiver that releases its sender
  does not call `sched_switch` for.
- The hand-over of a QSemOS mutex is in two parts. `OsSemPendListGet` makes the next owner ready under the lock of its run queue (`Posts`) and fills in
  `semOwner` and `semBList` without that lock (`HandsOver`). In between, the task is neither pended nor an owner.
- `readableCnt` of QSemOS is not the number of messages. The waker of a pended reader does not increment it,
  and the reader does not decrement it: the difference is the messages held back for readers that have been woken and
  have not run (`Woken`). `NodesAreClaimedOnce` is this account.
- A call that finds the count positive (`ReadNow`, `WriteNow`) leaves no trace of its caller, so the model does not say which task
  or interrupt it was. A call that fails (no wait, in an interrupt, task locked, wrong size) changes nothing and is no action.
- The code writes `OS_QUEUE_PID_INVALID` into a node that has been read, but never reads `srcPid`: it tells the nodes in use by the counts and
  the indices only. The model keeps the mark to say which nodes are in use (`Used`), and the properties compare it with counts and indices.

## 4. The runs

The runs marked *violation* state what a line of documentation says and show that the code
does otherwise (section 5).

| run | what it asks |
|---|---|
| `riot_threads` | Three threads on three levels create, wake, re-prioritise, kill and leave each other, with interrupts. `RunqueueConsistent`: no ready thread is forgotten, queued twice or at the wrong level. `RunningIsActive`. `UrgentRuns`: after each call and interrupt the most urgent ready thread runs, except for threads that were created with `THREAD_CREATE_WOUT_YIELD` (the history variable `silent`). `FreedThreadsAreGone`: a freed slot's thread is never scheduled. `PeersTakeTurns` (liveness): `thread_yield` starves nobody of the same level. |
| `riot_mbox` | Two producers above two consumers and interrupts share a mailbox of two places. `WaitersListed`, `FreePlacesAreClaimed` (a free place is never left with a writer asleep and none on its way), `ReadersSleepOnEmpty`, and `ImplementsMailbox`: a FIFO channel that loses and duplicates nothing, and in which what is accepted is received in the end. |
| `riot_mbox_peers` | *violation* With all threads at one level, `ReadersSleepOnEmpty` fails. |
| `riot_mutex` | Three threads, two of them peers, nest a mutex and a recursive mutex, yield and sleep while a timer cancels the lock of the mutex. `MutualExclusion`, `WaitersQueued`, `UrgentFirst` of both mutexes, and `CountedByHolder`: a thread counts a lock only when it has the mutex, however the mutex changes hands between its look at the mutex and its look at `owner`. |
| `riot_mutex_cancel` | *violation* `LockedIsHeld` fails when the timer fires after the hand-over. |
| `riot_mutex_inherit` | *violation* `HolderInherits` fails after a hand-over. |
| `riot_cond` | Two consumers and a producer between them, on both kinds of platform, with inheritance. `CondWaitersListed`, and `NoLostSignal` where the yield is pended. This run also shows that the protocol cannot deadlock. |
| `riot_cond_immediate` | *violation* The same, `NoLostSignalAnywhere`, on the other platforms. |
| `riot_msg` | A server with a queue of one place that may exit, a client above it and one below it that itself receives without a queue. `SendersListed`, `NothingLost`, `InOrder` (per sender, across queue, blocked senders and direct delivery), `RepliesMatch`, `ReceiversSleepOnEmpty`. |
| `riot_msg_gone` | *violation* `RunsWhileReady` fails for a request to a thread that has exited. |
| `qsem_queue` | Three tasks and interrupts read and write a queue of two nodes. `NodesAreClaimedOnce`, `MessagesInOneRun` (a write never meets an unread message, although head and tail move both ways), `WaitersAreListed` (a pended task is in one list, once, and never sleeps while its count is positive), `PeakIsHighest` (the formula for `nodePeak` is right for a full ring), `ImplementsUrgentQueue`, and `WaitersAreServed` (liveness). No deadlock. |
| `qsem_rwlock` | Three tasks of three priorities, one of which `PRT_TaskSetPriority` changes, on several cores; either two mutexes and a counting semaphore, or a mutex and a read-write lock. `OwnersAgree` (owner, `semBList`, count and nesting agree, across deletion), `AllWaitersListed` (a pended task is in one list, once, and nobody waits for what is free), `UrgentFirst` (the list of a mutex stays sorted while priorities change), `OwnersInherit` (an owner is as urgent as all who wait for it, along the chain) and `BorrowedIsReturned` (a task that owns no mutex has its own priority), each but for one race, see section 5, `ReadersXorWriter`, and `WriterNotOvertaken` (no reader gets the lock while the writer that is first in the list is as urgent). |

Each module also has one type invariant (`TypeOK`, `CondTypeOK`, `RmutexTypeOK`, `RwTypeOK`), which includes the bounds of the
queues.

## 5. Where code and documentation disagree

Details, with the quoted lines, are under `findings` in `PROJECT.json`.

1. **A reader can sleep on a mailbox that is not empty** (`mbox.c:73`). A writer that was blocked only looks
   at the queue when it wakes. If a reader of the same level took the message that
   made room and then blocked on the empty mailbox, the writer queues its message
   beside it. The next put wakes the reader, but with its own, newer message. With
   every writer above every reader the run `riot_mbox` shows it cannot happen, because a
   woken writer runs before the reader can come back.
2. **`mutex_lock_cancelable` can return -ECANCELED with the mutex locked** (`mutex.c:272`, `176`).
   A timer that fires after the hand-over and before the thread runs sets
   `cancelled` although it finds nothing to cancel.
3. **Priority inheritance ends with the first hand-over** (`mutex.c:204-224`): `owner` is not updated.
4. **`cond_wait` is not atomic where `thread_yield_higher` ignores the interrupt mask** (`cond.c:37`).
5. **`msg_send_receive` to a thread that is gone** (`msg.c:278`) returns -1 but leaves the caller
   blocked for a reply and off its run queue: it runs only until the scheduler is called next.

Four observations on QSemOS have no run of their own, and are listed as hazards:

- **A writer may lock a read-write lock twice** (`prt_rwlock.c:321`, and `:162` for `trywrlock`): it is told `OS_OK` and nothing is counted, so that
  its first unlock gives the lock away. `doc/zh/uniproton_apis.md:2310` says that `trywrlock` fails if any thread has the lock. The model
  leaves such calls out; with them, `ReadersXorWriter` could not hold.
- **The next owner of a mutex can be set below those that wait for it** (`prt_sem.c:343`). `OsSemPendListGet` clears `OS_TSK_PEND` and releases the run queue lock
  before `semOwner` and `semBList` are filled in. `PRT_TaskSetPriority` on another core, which found `semBList` empty and took no `OsSemPrioLock`, finds no pend and no
  mutex in between and accepts any priority, though it promises to refuse one below the tasks that wait (`prt_task.h:905`, `OS_ERRNO_TSK_PRIOR_LOWER_THAN_PENDTSK`). The tasks left in the list
  do not lend to the new owner any more; only one that comes later does. The history variable `unlent` names the tasks this has happened to while they wait, and `OwnersInherit` says that it is the only way.
- **A priority can be restored to one the task no longer has** (`prt_sem.c:234`). `PRT_TaskSetPriority` finds that a task owns no mutex, takes no
  `OsSemPrioLock`, and sets `origPriority` after `OsPriorityRestore` has read it: `priority` gets a value from the old one. It stays until the
  task next posts a mutex, since `PRT_TaskSetPriority` refuses a task whose two priorities differ. The history variable `stale` names the tasks this has
  happened to, and `BorrowedIsReturned` says that it is the only way.
- **A writer that times out leaves the readers behind it waiting** (`prt_rwlock.c:214`) for a lock that is held for reading, until the next unlock.

## 6. Bounds

- Three threads (four in the mailbox) on two or three levels. The scheduler's decisions compare two threads at a
  time; three give a running thread, a ready one and a blocked one, or two waiters
  and the one that serves them. What depends on the number of threads alone is proved for any number (section 8).
- `MaxMsgs` (4): calls of put or send. A queue of one or two places is filled, one sender blocks
  behind it and one message comes by interrupt. `MaxRests` (3) bounds how often a thread goes to sleep
  for reasons of its own, in the mailbox only. `MaxTokens` (2): tokens at a time, enough for both
  consumers; their number over time is not bounded.
- Two mutexes, one of them recursive, so that a thread may block while it holds another one. `MaxRefs` (2): one lock inside another;
  `Counts` and `Uncounts` only tell the last from the others.
- `QsemRwlock`: three tasks on three priorities, so that a chain of two owners can inherit and two tasks can be in one list. `Layouts` names what the
  program has: two mutexes and a counting semaphore, or a mutex and a read-write lock. The parts of a layout touch each other only through a task's
  priority and pend status, and each layout has what changes them. `Adjusted`, `Targets`: `PRT_TaskSetPriority` is called for the least urgent task, for
  the highest and the lowest priority. `Callers`: one task pends on the counting semaphore, which is there to be the wait at the end of a chain.
  `Nested`, `MaxNest`: one mutex is taken again once. `Deletable`: the other one is deleted and created again. `MaxCount` (1): the limit of the
  count is reached. `MaxReads` (1): one read lock per task; three tasks can still share the lock.
- `QsemQueue`: two nodes (the ring wraps, is full and empty, and has a state between the two), three tasks (two wait on one
  list, and a third acts, or times out, between the wake-up and the run of the first), two messages.
  There is no other bound, and the proofs cover every size.
- `RiotThreads`, `RiotMutex`, `RiotRmutex`, `RiotCond`, `QsemQueue` and `QsemRwlock` have no bound on the length of a behaviour: their state
  spaces are finite. The largest run, `qsem_rwlock`, has about 810 000 states.

## 7. Fairness and deadlock

- `WF(Reschedule(t))`: the processor executes the code of the active thread. `WF(PutResumes(t))`
  is the same for the rest of a blocking put.
- `SF(YieldCall(t))` in `RiotThreads`: RIOT schedules threads of one level cooperatively, so they take turns only
  if they yield; without this assumption one thread may run for ever, as
  documented. `PeersTakeTurns` then says that the kernel's part of the bargain, the rotation
  of the run queue, starves nobody.
- In `RiotMbox`: interrupts that resting threads wait for happen; a producer that runs puts and
  then makes way; a consumer that runs again and again gets again and again. Nothing is assumed about interrupts
  that put or get.
- In `QsemQueue`: `WF(Resumes(t))`, a task that is ready runs, the scheduler's part; `WF(ReadNow)` and `WF(Write)`, others keep reading and writing
  while there is something to read or room to write: without them a reader rightly waits for ever on an empty queue. Nothing is assumed about timers. `WaitersAreServed` then says
  that callers who come later never overtake a waiter for good.
- Deadlock is checked in `riot_cond` and `qsem_queue`. Elsewhere the system may stop: the last thread may exit or
  become a zombie (`riot_threads`), messages run out (`riot_mbox`, `riot_msg`), and two threads may lock two
  mutexes in opposite orders, which both systems leave to the application (`riot_mutex`, `qsem_rwlock`).

## 8. Proofs

`RiotThreads_proofs` proves, for every set of threads, every non-empty set of levels and every
choice of the main thread, that `RiotThreads` keeps

- `TypeOK` (theorem `TypesHold`),
- `RunqueueConsistent` (`RunqueuesAgree`),
- `RunningIsActive` (`ActiveAloneRuns`),
- `FreedThreadsAreGone` (`FreedStayGone`),
- `UrgentRuns` (`MostUrgentRuns`).

They rest on the assumptions named in the modules (`PriosAreLevels`, `NoThreadIsNone`, `MainIsThread`) and on one inductive
invariant, `UInv` (`InvariantHolds`), which is `IInv` with `Urgent` and `Leads`. None of them is inductive alone:

- `RunqueueConsistent` needs the type of the kernel, for `_runqueue_pop` finds the right list only
  through `priority`, and `RunningIsActive` needs `RunqueueConsistent`, since `sched_run` takes its next thread from a list.
- `FreedThreadsAreGone` says of a free slot that it is neither ready nor active; that it is not active
  needs the invariant that `sched_run` picks ready threads only.
- `CountMatches` (`sched_num_threads` counts the slots taken) goes along to keep the number in `Nat`.
- `UrgentRuns` speaks of the moments between two calls. `Urgent` says of all moments that an executing thread is about to yield, or that any
  ready thread above it is one it will look for: its pending `sched_switch` carries a priority that is enough to choose it, or its pending look in
  `sched_change_priority` is for that thread and its new priority. `Leads` says that the
  thread is the head of its level's list unless it is about to yield; without it `sched_switch`, which compares priorities only, could keep
  a thread that has been rotated to the end. `IInv` alone is not inductive: `sched_change_priority` may end without a yield, which leaves its caller ready only
  because a thread that is not is `Yielding`.

`RiotSched_proofs` holds the argument's core as lemmas about the operators on kernels that have no
system around them: pushing, popping, rotating, changing a status and changing a priority keep a kernel well-formed,
and so do `SchedRun`, `TailCall`, `IsrSwitch` and `IsrEnd`. All the other modules use the same operators, so the
lemmas are the base of their proofs too. `InSection` and `SectionEnds` are what such a proof uses: in the critical section of a
call nothing may start to run, and whatever else it did, the kernel is in order when the section ends with a call of the scheduler.

`RiotLocks_proofs` proves, for every finite set of threads, all mutexes, priorities and sets of threads that lock with a timeout
(assumptions `MutexPartsOK`, `PriosAreLevels`, `NoThreadIsNone`), that `RiotMutex` keeps

- `MutualExclusion` (`MutexesExclude`) and `WaitersQueued` (`WaitersStayQueued`), with and without priority inheritance,
- `UrgentFirst` if there is no inheritance (`UrgentWaitersFirst`),
- `LockedIsHeld` if nobody locks with a timeout (`LocksAreHeld`). With timeouts the run `riot_mutex_cancel` refutes it, so the theorem says
  that `mutex_cancel` is the only reason.

The invariant `MutexInv` (`MutexesAgree`) strengthens `MutualExclusion` by the mutexes that are on their way: `Given(t, m)` says that an unlock has
handed `m` to `t`, which has not run since. It is then in no queue, though its call is still `mutex_lock`, and `m` must be locked for it;
this needs `QueuesMatch`, that a thread asleep is in a queue, since otherwise a thread just blocked would count as given. A call can only be made by a thread that is awake
(`KernelOK`), which is why `Resume` of a blocked call means that the mutex was given or the call cancelled.

For `RiotRmutex` it proves for all numbers of recursive mutexes and any depth `MaxRefs` (assumption `RmutexesOK`)

- `RmutexSpec => Spec` (`RmutexesAreMutexes`): seen through its mutexes, `rmutex.c` behaves as a user of `mutex.c` should, so that
  everything proved of `RiotMutex` holds of it (`RmutexesExclude`),
- `CountedByHolder` (`RmutexesCountRight`) and `RmutexTypeOK` (`RmutexesTyped`).

The invariant `RmutexInv` (`RmutexesAgree`) says for each point between two accesses what the thread there relies on (`Relied`), which no step of another
thread may take away: a thread that has read another owner does not have the mutex, and cannot come to have it before its own `mutex_lock`; one
that has cleared `owner` still has the mutex. `Held` and `Counted` say that a mutex that is held without being counted belongs to such a thread.

For `RiotCond`, and any sets of consumers and producers, numbers of tokens and levels, it proves

- `CondTypeOK` (`CondTypesHold`) and `CondWaitersListed` (`CondWaitersStayListed`) on both kinds of platform,
- `NoLostSignal` (`NoSignalIsLost`) where `cond_wait` cannot be left between its unlocking and its sleep; the run
  `riot_cond_immediate` refutes it elsewhere.

`CondInv` (`CondInvariant`) goes through `cond_wait`: a thread `Between` the unlock and the sleep exists on immediate platforms only, one that is
`Awaiting` or `Between` has given the mutex up and still wants a token, and those asleep on the condition are exactly the members of `cq`. `EnoughAwake` counts:
while somebody sleeps there, the tokens are at most the producers that owe a signal and the consumers that are awake. A signal takes one consumer out of `cq` and
one producer out of those that owe; a consumer falls asleep only when there is no token. Because the unlock inside `cond_wait` may hand the mutex to another thread, the proof needs
the whole section (unlock, then sleep) as one step on the kernel (`UnlockSection`, `BlockSection`). `_cond_signal` wakes its waiters one after the other: the kernel
that results is the last value of a function on `0..n`, which exists by `IterationExists` and whose values are characterised by `UpTo` (both in `ListFacts`), induction in
the form of a set of naturals, which needs no operator as a parameter.

`RiotMbox_proofs` proves, for every finite set of threads, any producers, consumers, interrupts, messages and size of the queue (assumption `PartsOK`), that `RiotMbox` keeps

- `TypeOK` (`MboxTypesHold`), `WaitersListed` (`MboxWaitersListed`) and `FreePlacesAreClaimed` (`MboxPlacesClaimed`),
- `ReadersSleepOnEmpty` (`MboxReadersSleepOnEmpty`) and the refinement of `Mailbox` (`MboxIsChannel`: the initial states and every step; its fairness is left to the run), if `ProducersPreempt`:
  every producer is more urgent than every consumer.

`ProducersPreempt` is no convenience: `riot_mbox_peers` refutes `ReadersSleepOnEmpty` without it, and a message is then handed over before an older one that
is queued. The run `riot_mbox` has such priorities. `MboxInv` (`MboxInvariant`) has beside types, kernel and lists the account of places (`Claimed`): while a writer is
listed, the free places are at most the writers that have been woken and have still to queue their message. `NothingOvertaken` says, under `ProducersPreempt`, that what is accepted is what is received followed by the ring,
and that no reader is listed while a message is queued or a woken writer is on its way: the woken writer is more urgent than
any reader, so that no consumer executes before it has queued its message.

`QsemQueue_proofs` proves, for every number of nodes, every finite set of tasks and every set of messages
(assumptions `NodeNumOK`, `TasksOK`, `InvalidOK`), all safety properties of `QsemQueue` and the refinement:

- `TypeOK` (`QueueTypeCorrect`), `NodesAreClaimedOnce` (`ClaimsAreKept`), `MessagesInOneRun` (`MessagesStayInOneRun`),
  `WaitersAreListed` (`WaitersStayListed`), `PeakIsHighest` (`PeakIsExact`),
- `Spec => ImplementsUrgentQueue` (`QueueImplementsUrgentQueue`).

The invariant `IInv` puts three things together, since none of them holds alone. *The ring* (`RingOK`): the messages are one run, which
tells `Fetch` that it takes a message and `Store` that it meets none, as long as the ring is not empty or not full. *The account*: counts plus
woken tasks are the messages and the free nodes; it gives those two premises to every call. *The lists* (`ListOf`): a task that is
woken is taken from a list in which it is once, so it was not woken before, and its place in the account is new. The refinement maps the content
to the ring from `head` on; `FetchTakes`, `StoreNormalPuts` and `StoreUrgentPuts` show that the three ways to change the
ring are the three actions of `UrgentQueue`, and `StepsArePutOrTake` that all other steps leave the content alone.
`ListFacts` holds what both families of proofs need about lists without duplicates.

`QsemLocks_proofs` proves all safety properties of the semaphores and of the read-write lock on top of them,
for every finite set of tasks, all sets of mutexes and counting semaphores, every number of priorities, nested and read locks, and
every layout (assumptions `TasksFinite`, `SemsOK`, `NumbersOK`, `TaskSetsOK`, `UsesOK`, `LayoutsOK`, `RwBoundsOK`):

- `RwTypeOK` (`LockTypesHold`), `OwnersAgree` (`OwnersStayAgreed`), `AllWaitersListed` (`AllWaitersStayListed`),
- `UrgentFirst` (`MutexListsStaySorted`), `OwnersInherit` (`InheritanceReaches`), `BorrowedIsReturned` (`PrioritiesReturn`),
- `ReadersXorWriter` (`LockStaysExclusive`), and the action property `WriterNotOvertaken` (`WritersAreNotOvertaken`).

The theorems are about `RwSpec`, so that they hold of mutexes and lock together. `LockInvariant` has two halves:

- `SemInv`, of the semaphores. `OwnersInherit` speaks of the moments when no walk along the owners and no hand-over is under way. `LentOnTheWay` speaks of all
  moments: if an owner is less urgent than one of its waiters, and that one is not in `unlent`, then the walk stands at that owner and brings a priority that is enough, or it
  is about to begin there for that waiter. `LentAhead` says the same of a mutex on its way: the task that has been woken is as urgent as the waiters it will have, but for those in `unlent`, so
  that `HandsOver` keeps `LentOnTheWay`.
  This holds for chains of any length because a step that raises the owner of one mutex moves the walk to the owner of the mutex it waits for
  itself, and it needs `UrgentFirst`, because a post hands the mutex to the first waiter and nothing raises the new owner.
  `Returned` adds the task whose restore is under way to `BorrowedIsReturned`.
- The lock: `RwLists` (each list without duplicates, a task in one of them only, no waiters of a free lock), `FreeUnlessSet` (a destroyed or
  zeroed lock has none either, so `pthread_rwlock_init` forgets nobody), and `ReadersXorWriter` itself. Read locks are counted as
  a finite set of pairs; `SplitFacts` shows that the readers woken together are the front of the list, no more.

`LockCallsKeepSems` and `SemCallsKeep` are the frame: a call of one module touches the other's part of a task's status at most in ways that
keep its half of the invariant. `WritersAreNotOvertaken` needs of it only the lists: each reader that is given the lock has been compared with the first writer, and no writer is added in that step.

`RiotMsg_proofs` proves, for every finite set of threads, all priorities, sizes of queues, receivers and buses, and any number of messages
(assumption `MsgPartsOK`), all safety properties of `RiotMsg`:

- `TypeOK` (`MsgTypesHold`), `SendersListed` (`SendersStayListed`), `ReceiversSleepOnEmpty` (`ReceiversSleepRightly`),
- `NothingLost` (`NothingGetsLost`), `InOrder` (`OrderIsKept`) and `RepliesMatch` (`RepliesAnswerRequests`).

`MsgPartsOK` asks that a bus has no thread twice: a thread subscribes with one entry, the one `msg_bus_get_entry` finds, though nothing in
`msg_bus_attach` refuses a second one, with which the same message would be received twice. The invariant is `MsgInv` (`MsgInvariant`):

- *The kernel* is `Steady` and not `KernelOK`: a thread whose `msg_send_receive` went to a PID that is free executes on although it is
  `STATUS_REPLY_BLOCKED` (the run `riot_msg_gone`). Such `Strays` are in no list of waiters and in no request; that is what every later call of theirs relies on.
  The data part sees of the kernel only the `Mood` of each thread: ready, or what it is blocked in.
- *The mail of each receiver* (`Mail`): what is received and queued is in order for each sender (`Chrono`), and a message that is still with its blocked sender is younger than what is kept from that
  sender. So a message that moves into the place that got free, behind other senders' messages, still comes after its own predecessors. `StreamFacts` puts the waiters' messages behind;
  `ChronoCounts` turns order into count: nothing in the stream is there twice, because an equal message would be older than itself.
- *The requests* (`Asked`, `Answering`): a request without a reply is the one its sender is in, and no other receiver has it. With `Mail` it follows that the sender of a
  request that has been received is in no list any more, so that `msg_reply` wakes nobody who is still linked.

The sends to one thread are instances of one lemma, `Delivered`: a new message is put before some threads, or none, and those that slept are awake. `PublishedFacts` shows that
`msg_send_bus`, one thread after the other, does that too, by the same iteration as `_cond_signal`.

`CallersStayReady` is the counterpart of the run `riot_msg_gone`: if no thread exits (`Mortal = {}`), `RunsWhileReady` holds, since then every call of
`msg.c` that leaves a thread blocked also leaves it a call of the scheduler to do. The failing `msg_send_receive` is the only one that does not.

Only model-checked: liveness (`PeersTakeTurns`, `WaitersAreServed`, and the fairness in `ImplementsMailbox`), which is beyond the prover together with fairness.
The runs that expect a violation are counterexamples and have nothing to prove; where a premise excludes them, a theorem above says so.

## 9. Not modelled

- Callbacks for scheduler statistics, stack tests, MPU and TLS hooks, the debug variant of the mutex: no effect
  on scheduling.
- Thread flags and the containers of `core/lib`: planned.
- Two writes of `msg_init_queue` with interrupts enabled are one step; a second call for the same
  thread is not modelled. Subscribers of a bus are constant.
- A mailbox of size 0 has no run: a writer that blocks first is not seen by a later reader. It is listed as a hazard.
- The inheritance of priorities over several mutexes (`mutex.c:118`) is contained in `RiotMutex` but
  no property states what it should be.
- `QsemQueue`: allocation, sizes and the error paths of creation (`prt_queue_init.c:129` leaves the lock of the queue table taken);
  suspending a task that is pended; deletion of a queue, which is not in the repository. The expiry of a timer is
  modelled from how `prt_queue.c` uses it (external): the pend list and `OS_TSK_QUEUE_PEND` are left, `OS_TSK_TIMEOUT` stays.
- `QsemSem`: the table of control blocks and its free list; `semOwner` of a counting semaphore and `taskPend` of a task that waits for a
  read-write lock, which nothing reads; tasks that are suspended or deleted; calls that fail. The expiry of a timer is external, as for queues.
- `QsemRwlock`: more than `S32_MAX` read locks; unlocking by a task that has no lock; tasks of several cores on one lock.
- Software timers: `OsSwTmrStart` and the scan by the tick are not in the repository, and these are where a timer changes state concurrently.
- Signals and the rest of QSemOS: planned (section 10), except for its scheduler, of which the repository lacks
  internal headers.
- Boards, CPUs, drivers, networks, libraries, Python: hardware access, vendored code, or sequential I/O.

## 10. Plan

In order of importance:

1. *(done)* `RiotSched`, `RiotThreads`, `RiotMutex`, `RiotRmutex` with proofs; `RiotMbox` with `Mailbox`; `RiotCond`; `RiotMsg`;
   `QsemQueue` with `UrgentQueue`, `QsemSem` and `QsemRwlock`, with proofs.
2. *(done)* `RiotCond` on the invariant of the mutex; `UrgentRuns`; the steps of `RiotMbox` against `Mailbox`.
3. *(done)* The safety properties of `RiotMsg`, proved.
4. `RiotFlags`: thread flags, on `RiotSched`; `QsemSignal`.
5. Containers as pure functions against sequences.
