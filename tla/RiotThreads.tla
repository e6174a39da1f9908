----------------------------- MODULE RiotThreads -----------------------------
(***************************************************************************)
(* Threads and the scheduler of RIOT: creation, exit, sleep and wake-up,   *)
(* yield, zombies and changes of priority, called by the running thread or *)
(* (wake-up) by an interrupt at any moment interrupts are enabled.         *)
(***************************************************************************)
EXTENDS RiotSched, FiniteSets

CONSTANTS Main,        \* the thread that is running after kernel_init
          MainPrio

ASSUME MainIsThread == Main \in Threads /\ MainPrio \in Prios

VARIABLES k,        \* the kernel
          exists,   \* the pids p with sched_threads[p] # NULL
          count,    \* sched_num_threads
          silent    \* history: ready threads, created with THREAD_CREATE_WOUT_YIELD,
                    \* that the active thread still keeps from running

vars == <<k, exists, count>>
allVars == <<vars, silent>>

Init ==
  /\ k = [status |-> [t \in Threads |-> IF t = Main THEN "running" ELSE "stopped"],
          prio   |-> [t \in Threads |-> MainPrio],
          runq   |-> [p \in Prios |-> IF p = MainPrio THEN <<Main>> ELSE << >>],
          bits   |-> {MainPrio},
          active |-> Main,
          idle   |-> FALSE,
          req    |-> FALSE,
          tail   |-> [t \in Threads |-> NoTail]]
  /\ exists = {Main}
  /\ count = 1
  /\ silent = {}

-----------------------------------------------------------------------------
(* Calls of the executing thread t.                                        *)

\* thread_create: any free slot stands for the first free pid.
Create(t, u, p, s) ==
  /\ Calls(k, t)
  /\ u \notin exists
  /\ exists' = exists \cup {u}
  /\ count' = count + 1
  /\ LET fresh == [k EXCEPT !.prio[u] = p, !.status[u] = "stopped", !.tail[u] = NoTail]
     IN k' = Ends(SetStatus(fresh, u, s), t, IF s = "pending" THEN Switch(p) ELSE NoTail)

CreateWoutYield(t, u, p) ==
  /\ Calls(k, t)
  /\ u \notin exists
  /\ exists' = exists \cup {u}
  /\ count' = count + 1
  /\ LET fresh == [k EXCEPT !.prio[u] = p, !.status[u] = "stopped", !.tail[u] = NoTail]
     IN k' = SetStatus(fresh, u, "pending")

\* Fault: the status of the exiting thread is left alone.
ExitStaysQueued(t) ==
  /\ Calls(k, t)
  /\ exists' = exists \ {t}
  /\ count' = count - 1
  /\ k' = SchedRun([k EXCEPT !.active = NoThread])

\* sched_task_exit, up to the sched_run of cpu_switch_context_exit.
Exit(t) ==
  /\ Calls(k, t)
  /\ exists' = exists \ {t}
  /\ count' = count - 1
  /\ k' = SchedRun([SetStatus(k, t, "stopped") EXCEPT !.active = NoThread])

Sleep(t) ==
  /\ Calls(k, t)
  /\ k' = Ends(SetStatus(k, t, "sleeping"), t, YieldHigher)
  /\ UNCHANGED <<exists, count>>

YieldCall(t) ==
  /\ Calls(k, t)
  /\ k' = Ends(k, t, Yield)
  /\ UNCHANGED <<exists, count>>

Zombify(t) ==
  /\ Calls(k, t)
  /\ k' = Ends(SetStatus(k, t, "zombie"), t, YieldHigher)
  /\ UNCHANGED <<exists, count>>

\* Fault: thread_get(pid) is not compared with NULL, nor its status looked at.
KillAnyPid(t, u) ==
  /\ Calls(k, t)
  /\ u # t
  /\ exists' = exists \ {u}
  /\ count' = count - 1
  /\ k' = SetStatus(k, u, "stopped")

KillZombie(t, u) ==
  /\ Calls(k, t)
  /\ u \in exists
  /\ k.status[u] = "zombie"
  /\ exists' = exists \ {u}
  /\ count' = count - 1
  /\ k' = SetStatus(k, u, "stopped")

Wakeup(t, u) ==
  /\ Calls(k, t)
  /\ u \in exists
  /\ k.status[u] = "sleeping"
  /\ k' = Ends(SetStatus(k, u, "pending"), t, Switch(k.prio[u]))
  /\ UNCHANGED <<exists, count>>

\* sched_change_priority up to irq_restore.
ChangePriority(t, u, p) ==
  /\ Calls(k, t)
  /\ u \in exists
  /\ k.prio[u] # p
  /\ k' = Ends(SetPriority(k, u, p), t, Change(u, p))
  /\ UNCHANGED <<exists, count>>

\* The scheduler call at the end of an operation.
Reschedule(t) ==
  /\ Executes(k, t)
  /\ k.tail[t] # NoTail
  /\ k' = IF k.tail[t].call = "change" THEN ChangeCall(k, t) ELSE TailCall(k, t)
  /\ UNCHANGED <<exists, count>>

-----------------------------------------------------------------------------
\* An interrupt handler calls thread_wakeup.  sched_switch reads the priority of
\* the active thread, which is NULL once the last ready thread has exited: the
\* request is then set or not, as the bytes at that address have it.
IsrWakeup(u) ==
  /\ u \in exists
  /\ k.status[u] = "sleeping"
  /\ LET woken == SetStatus(k, u, "pending")
     IN IF k.active = NoThread
        THEN \E r \in BOOLEAN : k' = IsrEnd([woken EXCEPT !.req = r])
        ELSE k' = IsrEnd(IsrSwitch(woken, k.prio[u]))
  /\ UNCHANGED <<exists, count>>

Step ==
  \/ \E t, u \in Threads, p \in Prios :
       \/ \E s \in {"pending", "sleeping"} : Create(t, u, p, s)
       \/ ChangePriority(t, u, p)
  \/ \E t, u \in Threads : KillZombie(t, u) \/ Wakeup(t, u)
  \/ \E t \in Threads : Exit(t) \/ Sleep(t) \/ YieldCall(t) \/ Zombify(t) \/ Reschedule(t)
  \/ \E u \in Threads : IsrWakeup(u)

\* The threads of S that are ready and more urgent than the active one after a step.
Overlooked(S) ==
  {u \in S : IsReady(k', u) /\ k'.active # NoThread /\ k'.prio[u] < k'.prio[k'.active]}

Next ==
  \/ Step /\ silent' = Overlooked(silent)
  \/ \E t, u \in Threads, p \in Prios :
       CreateWoutYield(t, u, p) /\ silent' = Overlooked(silent \cup {u})

Spec == Init /\ [][Next]_allVars

\* The processor runs the active thread, and applications are written for a
\* cooperative scheduler: a thread that runs again and again also yields again
\* and again.
Fairness == \A t \in Threads : WF_vars(Reschedule(t)) /\ SF_vars(YieldCall(t))

FairSpec == Spec /\ Fairness

-----------------------------------------------------------------------------
(* Properties.                                                             *)

TypeOK ==
  /\ k \in Kernels
  /\ exists \subseteq Threads /\ count \in Nat
  /\ silent \subseteq Threads

\* The run queues, the bit cache and the statuses and priorities of the threads
\* agree: no ready thread is forgotten, queued twice or queued at a level it has
\* left, whatever changes its status or its priority (sched_set_status,
\* sched_change_priority).
RunqueueConsistent == RunqueuesMatch(k)

\* At most one thread is STATUS_RUNNING and it is sched_active_thread.
RunningIsActive == OneRunning(k)

\* A thread runs "until it yields or another thread with higher priority is
\* runnable": no call or interrupt leaves a more urgent ready thread behind once
\* the call has returned to the application, but for those it has asked to be
\* created without a yield, and a thread heads its level while it runs.
UrgentRuns ==
  \A t \in Threads : Calls(k, t) =>
    /\ IsReady(k, t) /\ Head(k.runq[k.prio[t]]) = t
    /\ \A u \in Threads \ silent : IsReady(k, u) => k.prio[t] <= k.prio[u]

\* A thread whose slot in sched_threads is free is neither ready nor active, so
\* its stack can be reused (sched_task_exit, thread_kill_zombie).
FreedThreadsAreGone ==
  \A t \in Threads \ exists : ~IsReady(k, t) /\ k.active # t

\* sched_num_threads counts the taken slots.
CountMatches == count = Cardinality(exists)

\* Threads of one level take turns: a thread that stays ready, at the most urgent
\* level in use, runs in the end, however often its peers sleep, are woken, change
\* their level or yield (sched_runq_advance in thread_yield, pushes at the tail).
PeersTakeTurns ==
  \A t \in Threads :
    []<>(Executes(k, t) \/ ~IsReady(k, t) \/ k.prio[t] # Min(k.bits))

=============================================================================
