------------------------------ MODULE RiotSched ------------------------------
(***************************************************************************)
(* The scheduler core of RIOT (core/sched.c, core/include/sched.h and the  *)
(* list helpers of core/thread.c) as operators on one record, the kernel:  *)
(*                                                                         *)
(*   status   thread_t.status, per thread                                  *)
(*   prio     thread_t.priority; 0 is the most urgent level                *)
(*   runq     sched_runqueues: the circular list of each level, from the   *)
(*            element the list's pointer has as "next" to the last one     *)
(*   bits     runqueue_bitcache: the levels whose bit is set               *)
(*   active   sched_active_thread                                          *)
(*   idle     sched_run is in its sched_arch_idle loop                     *)
(*   req      sched_context_switch_request                                 *)
(*   tail     what the call a thread is in still has to ask the scheduler  *)
(*            once irq_restore has let interrupts in again                 *)
(*                                                                         *)
(* The calls of the kernel run with interrupts masked from irq_disable to  *)
(* irq_restore, so each such section is one step of the modules that use   *)
(* this one.  The call of the scheduler that follows irq_restore is a step *)
(* of its own (Tail), and interrupts may run in between.                   *)
(***************************************************************************)
EXTENDS Naturals, Sequences, SequencesExt, Lists

CONSTANTS Threads,    \* the thread control blocks
          Prios,      \* 0 .. SCHED_PRIO_LEVELS - 1
          NoThread    \* the NULL thread_t pointer

ASSUME PriosAreLevels == Prios \subseteq Nat /\ Prios # {}
ASSUME NoThreadIsNone == NoThread \notin Threads

\* thread_status_t; those of the second line are >= STATUS_ON_RUNQUEUE.
Blocked == {"stopped", "zombie", "sleeping", "mutex", "receive", "send",
            "reply", "flag_any", "flag_all", "mbox", "cond"}
OnRunqueue == {"running", "pending"}

\* The scheduler calls that end an operation: nothing, thread_yield_higher(),
\* thread_yield(), sched_switch(prio), and what sched_change_priority(thread, prio)
\* has to do after its critical section.
NoTail == [call |-> "none", prio |-> 0]
YieldHigher == [call |-> "yield_higher", prio |-> 0]
Yield == [call |-> "yield", prio |-> 0]
Switch(p) == [call |-> "switch", prio |-> p]
Change(t, p) == [call |-> "change", prio |-> p, thread |-> t]
TailCalls == {NoTail, YieldHigher, Yield} \cup {Switch(p) : p \in Prios}
             \cup {Change(t, p) : t \in Threads, p \in Prios}

Kernels == [status : [Threads -> Blocked \cup OnRunqueue],
            prio   : [Threads -> Prios],
            runq   : [Prios -> Seq(Threads)],
            bits   : SUBSET Prios,
            active : Threads \cup {NoThread},
            idle   : BOOLEAN,
            req    : BOOLEAN,
            tail   : [Threads -> TailCalls]]

IsReady(k, t) == k.status[t] \in OnRunqueue

-----------------------------------------------------------------------------
(* Run queues.                                                             *)

RunqueuePush(k, t, p) ==
  [k EXCEPT !.runq[p] = Append(@, t), !.bits = @ \cup {p}]

RunqueuePop(k, t) ==
  LET p == k.prio[t]
      q == RemoveFirst(k.runq[p], t)
  IN [k EXCEPT !.runq[p] = q, !.bits = IF q = << >> THEN @ \ {p} ELSE @]

SetStatus(k, t, s) ==
  LET moved == IF s \in OnRunqueue
               THEN IF IsReady(k, t) THEN k ELSE RunqueuePush(k, t, k.prio[t])
               ELSE IF IsReady(k, t) THEN RunqueuePop(k, t) ELSE k
  IN [moved EXCEPT !.status[t] = s]

\* Fault: thread_yield keeps its place.
KeepHead(k, p) == k

\* sched_runq_advance: the head of a level becomes its last element.
RunqueueAdvance(k, p) ==
  IF k.runq[p] = << >> THEN k
  ELSE [k EXCEPT !.runq[p] = Append(Tail(@), Head(@))]

\* Fault: the thread stays in the list of its old level.
PriorityWithoutPop(k, t, p) ==
  LET moved == IF IsReady(k, t) THEN RunqueuePush(k, t, p) ELSE k
  IN [moved EXCEPT !.prio[t] = p]

\* The critical section of sched_change_priority.
SetPriority(k, t, p) ==
  LET moved == IF IsReady(k, t) THEN RunqueuePush(RunqueuePop(k, t), t, p) ELSE k
  IN [moved EXCEPT !.prio[t] = p]

-----------------------------------------------------------------------------
(* The scheduler.                                                          *)

Unschedule(k) ==
  IF k.active # NoThread /\ k.status[k.active] = "running"
  THEN [k EXCEPT !.status[k.active] = "pending"] ELSE k

NextThread(k) == Head(k.runq[Min(k.bits)])

\* Fault: the thread that is left stays STATUS_RUNNING.
SchedRunWithoutUnschedule(k) ==
  IF k.bits = {} THEN [k EXCEPT !.idle = TRUE]
  ELSE [k EXCEPT !.status[NextThread(k)] = "running", !.active = NextThread(k),
                 !.idle = FALSE, !.req = FALSE]

\* sched_run.  With every run queue empty it unschedules the active thread and
\* stays in its idle loop until an interrupt has made a thread ready.
SchedRun(k) ==
  IF k.bits = {} THEN [Unschedule(k) EXCEPT !.idle = TRUE]
  ELSE LET next == NextThread(k)
           left == IF next = k.active THEN k ELSE Unschedule(k)
       IN [left EXCEPT !.status[next] = "running", !.active = next,
                       !.idle = FALSE, !.req = FALSE]

\* The condition under which sched_switch(p) leaves the active thread.
SwitchWanted(k, p) == ~IsReady(k, k.active) \/ k.prio[k.active] > p

\* sched_switch and thread_yield_higher in an interrupt only leave a request.
IsrSwitch(k, p) == IF SwitchWanted(k, p) THEN [k EXCEPT !.req = TRUE] ELSE k
IsrYield(k) == [k EXCEPT !.req = TRUE]

\* The end of an interrupt: the idle loop goes on or finds a thread; elsewhere
\* the scheduler runs if it was asked for.
IsrEnd(k) ==
  IF k.idle THEN IF k.bits = {} THEN k ELSE SchedRun(k)
  ELSE IF k.req THEN SchedRun(k) ELSE k

\* t is the thread whose code the processor executes.
Executes(k, t) == k.active = t /\ ~k.idle

\* t executes and is between two calls of the kernel.
Calls(k, t) == Executes(k, t) /\ k.tail[t] = NoTail

\* t's critical section ends: tail is left to do.
Ends(k, t, tail) == [k EXCEPT !.tail[t] = tail]

\* Fault: the look is at the thread that has been changed alone.
OthersStay(k, t) == Ends(k, t, IF k.tail[t].thread = t THEN YieldHigher ELSE NoTail)

\* sched_change_priority looks whether the change matters, with interrupts enabled,
\* and is to yield or has ended.
ChangeCall(k, t) ==
  LET changed == k.tail[t].thread
      yields == changed = t \/ (k.prio[t] > k.tail[t].prio /\ IsReady(k, changed))
  IN Ends(k, t, IF yields THEN YieldHigher ELSE NoTail)

\* The scheduler call that ends t's operation.  thread_yield has a critical
\* section of its own before it calls thread_yield_higher.
TailCall(k, t) ==
  LET call == k.tail[t].call
      done == Ends(k, t, NoTail)
  IN IF call = "yield"
     THEN Ends(IF IsReady(k, t) THEN RunqueueAdvance(k, k.prio[t]) ELSE k, t, YieldHigher)
     ELSE IF call = "switch" /\ ~SwitchWanted(k, k.tail[t].prio) THEN done
     ELSE SchedRun(done)

\* A system whose threads have all been created, without yielding, and where the
\* first of the most urgent ones has just been scheduled.
Booted(prio) ==
  LET all == [status |-> [t \in Threads |-> "pending"],
              prio   |-> prio,
              runq   |-> [p \in Prios |-> SetToSeq({t \in Threads : prio[t] = p})],
              bits   |-> {prio[t] : t \in Threads},
              active |-> NoThread,
              idle   |-> FALSE,
              req    |-> FALSE,
              tail   |-> [t \in Threads |-> NoTail]]
  IN SchedRun(all)

-----------------------------------------------------------------------------
(* Wait lists: thread_add_to_list inserts before the first less urgent     *)
(* waiter, list_remove_head takes the head and list_remove a given node.   *)

\* Fault: waiters are kept in the order they came.
AppendToList(k, list, t) == Append(list, t)

AddToList(k, list, t) ==
  LET later == {i \in 1..Len(list) : k.prio[list[i]] > k.prio[t]}
  IN InsertAt(list, IF later = {} THEN Len(list) + 1 ELSE Min(later), t)

-----------------------------------------------------------------------------
(* Well-formedness of a kernel.                                            *)

\* A thread is in the list of its own level exactly when its status says so,
\* is there once, and the bit of a level is set iff its list is not empty.
RunqueuesMatch(k) ==
  /\ \A p \in Prios : NoDuplicates(k.runq[p])
  /\ \A p \in Prios, t \in Threads :
       Contains(k.runq[p], t) <=> (k.prio[t] = p /\ IsReady(k, t))
  /\ \A p \in Prios : p \in k.bits <=> k.runq[p] # << >>

\* Only the active thread is marked as running.
OneRunning(k) == \A t \in Threads : k.status[t] = "running" => t = k.active

=============================================================================
