------------------------------- MODULE RiotMbox -------------------------------
(***************************************************************************)
(* Mailboxes of RIOT (core/mbox.c) on the scheduler: one mailbox, threads  *)
(* that put and get, blocking or not, and interrupts that try to.          *)
(*                                                                         *)
(* Messages are numbered in the order the calls of mbox_put are made.  A   *)
(* blocked getter waits with wait_data pointing at its msg_t: the message  *)
(* counts as received when it is stored there.                             *)
(***************************************************************************)
EXTENDS RiotSched, FiniteSets

CONSTANTS Producers, Consumers,  \* the threads that put and those that get
          Prio,                  \* the priority of each thread
          Size,                  \* mbox_size; 0 when there is no queue
          MaxMsgs,               \* bound: calls of mbox_put
          MaxRests               \* bound: times a thread goes to sleep

ASSUME PartsOK ==
  /\ IsFiniteSet(Threads)
  /\ Producers \subseteq Threads /\ Consumers \subseteq Threads
  /\ Prio \in [Threads -> Prios]
  /\ Size \in Nat /\ MaxMsgs \in Nat /\ MaxRests \in Nat

VARIABLES k,
          queue,     \* msg_array between the read and the write index of the cib
          readers,   \* mbox->readers
          writers,   \* mbox->writers
          sending,   \* the message of the blocking put each thread is in, or 0
          made,      \* the number of messages made so far
          rests,     \* the number of rests so far
          accepted,  \* history: messages taken over from the callers of put
          received   \* history: messages handed to the callers of get

vars == <<k, queue, readers, writers, sending, made, rests, accepted, received>>

Msgs == 1..MaxMsgs

Init ==
  /\ k = Booted(Prio)
  /\ queue = << >> /\ readers = << >> /\ writers = << >>
  /\ sending = [t \in Threads |-> 0]
  /\ made = 0 /\ rests = 0
  /\ accepted = << >> /\ received = << >>

\* Fault: cib_full one off.
FullTooLate == Len(queue) > Size

\* cib_full: the queue of a mailbox without one is always full.
Full == Len(queue) >= Size

-----------------------------------------------------------------------------
(* The parts of _mbox_put and _mbox_get.                                   *)

\* A reader waits: the message is stored in its msg_t and it is made ready.
HandOver(m) ==
  /\ readers # << >>
  /\ readers' = Tail(readers)
  /\ accepted' = Append(accepted, m) /\ received' = Append(received, m)
  /\ UNCHANGED <<queue, writers>>

\* The message goes into the queue.
Enqueue(m) ==
  /\ ~Full
  /\ queue' = Append(queue, m)
  /\ accepted' = Append(accepted, m)
  /\ UNCHANGED <<readers, writers, received>>

\* Fault: the woken writer stays in the list.
DequeueKeepsWriter ==
  /\ queue # << >>
  /\ queue' = Tail(queue)
  /\ received' = Append(received, Head(queue))
  /\ UNCHANGED <<readers, writers, accepted>>

\* Fault: the newest message is taken.
DequeueNewest ==
  /\ queue # << >>
  /\ queue' = Front(queue)
  /\ received' = Append(received, Last(queue))
  /\ writers' = IF writers = << >> THEN << >> ELSE Tail(writers)
  /\ UNCHANGED <<readers, accepted>>

\* The oldest message leaves the queue, and the first waiting writer its list.
Dequeue ==
  /\ queue # << >>
  /\ queue' = Tail(queue)
  /\ received' = Append(received, Head(queue))
  /\ writers' = IF writers = << >> THEN << >> ELSE Tail(writers)
  /\ UNCHANGED <<readers, accepted>>

\* _wait, up to thread_yield.
Block(t) == SetStatus(k, t, "mbox")
Wait(t) == k' = Ends(Block(t), t, Yield)

\* Fault: the waiter is made ready but the scheduler is not asked.
WakeQuietly(t, u) == k' = SetStatus(k, u, "pending")

\* _wake_waiter called by a thread and by an interrupt.
Wake(t, u) == k' = Ends(SetStatus(k, u, "pending"), t, Switch(k.prio[u]))
IsrWake(u) == k' = IsrEnd(IsrSwitch(SetStatus(k, u, "pending"), k.prio[u]))

-----------------------------------------------------------------------------
(* Calls of threads.                                                       *)

Idle(t) == Calls(k, t) /\ sending[t] = 0

NewMsg == made < MaxMsgs /\ made' = made + 1 /\ UNCHANGED rests

PutHandsOver(t) ==
  /\ Idle(t) /\ t \in Producers /\ NewMsg
  /\ HandOver(made')
  /\ Wake(t, Head(readers))
  /\ UNCHANGED sending

PutQueues(t) ==
  /\ Idle(t) /\ t \in Producers /\ NewMsg
  /\ readers = << >>
  /\ Enqueue(made')
  /\ UNCHANGED <<k, sending>>

PutBlocks(t) ==
  /\ Idle(t) /\ t \in Producers /\ NewMsg
  /\ readers = << >> /\ Full
  /\ Wait(t)
  /\ writers' = AddToList(k, writers, t)
  /\ sending' = [sending EXCEPT ![t] = made']
  /\ UNCHANGED <<queue, readers, accepted, received>>

\* mbox_try_put on a full mailbox gives the message up.
TryPutFails(t) ==
  /\ Idle(t) /\ t \in Producers /\ NewMsg
  /\ readers = << >> /\ Full
  /\ UNCHANGED <<k, queue, readers, writers, sending, accepted, received>>

Put(t) == PutHandsOver(t) \/ PutQueues(t) \/ PutBlocks(t) \/ TryPutFails(t)

\* After thread_yield the loop of a blocking put looks at the queue again, not at
\* the readers.
PutResumes(t) ==
  /\ Calls(k, t) /\ sending[t] # 0
  /\ \/ /\ Enqueue(sending[t])
        /\ sending' = [sending EXCEPT ![t] = 0]
        /\ UNCHANGED k
     \/ /\ Full
        /\ Wait(t)
        /\ writers' = AddToList(k, writers, t)
        /\ UNCHANGED <<queue, readers, sending, accepted, received>>
  /\ UNCHANGED <<made, rests>>

Get(t) ==
  /\ Idle(t) /\ t \in Consumers
  /\ Dequeue
  /\ IF writers = << >> THEN UNCHANGED k ELSE Wake(t, Head(writers))
  /\ UNCHANGED <<sending, made, rests>>

\* The getter needs no step of its own when it runs again: its message is there.
GetBlocks(t) ==
  /\ Idle(t) /\ t \in Consumers
  /\ queue = << >>
  /\ Wait(t)
  /\ readers' = AddToList(k, readers, t)
  /\ UNCHANGED <<queue, writers, sending, made, rests, accepted, received>>

\* The scheduler call at the end of a call.
Reschedule(t) ==
  /\ Executes(k, t) /\ k.tail[t] # NoTail
  /\ k' = TailCall(k, t)
  /\ UNCHANGED <<queue, readers, writers, sending, made, rests, accepted, received>>

\* A thread does something else for a while, asleep, until an interrupt wakes it; a
\* producer that has no message left sleeps for good.
Done(t) == t \in Producers /\ made = MaxMsgs

Rest(t) ==
  /\ Idle(t)
  /\ IF Done(t) THEN UNCHANGED rests ELSE rests < MaxRests /\ rests' = rests + 1
  /\ k' = Ends(SetStatus(k, t, "sleeping"), t, YieldHigher)
  /\ UNCHANGED <<queue, readers, writers, sending, made, accepted, received>>

-----------------------------------------------------------------------------
(* Interrupts: the non-blocking calls, and the wake-up of a resting thread. *)

IsrPut ==
  /\ NewMsg
  /\ \/ HandOver(made') /\ IsrWake(Head(readers))
     \/ readers = << >> /\ Enqueue(made') /\ UNCHANGED k
  /\ UNCHANGED sending

\* Fault: mbox_try_get forgets the writers.
IsrGetAlone ==
  /\ queue # << >>
  /\ queue' = Tail(queue)
  /\ received' = Append(received, Head(queue))
  /\ UNCHANGED <<k, readers, writers, sending, made, rests, accepted>>

IsrGet ==
  /\ Dequeue
  /\ IF writers = << >> THEN UNCHANGED k ELSE IsrWake(Head(writers))
  /\ UNCHANGED <<sending, made, rests>>

IsrWakeup(u) ==
  /\ k.status[u] = "sleeping" /\ ~Done(u)
  /\ IsrWake(u)
  /\ UNCHANGED <<queue, readers, writers, sending, made, rests, accepted, received>>

Next ==
  \/ \E t \in Threads :
       \/ Put(t) \/ PutResumes(t) \/ Get(t) \/ GetBlocks(t)
       \/ Reschedule(t) \/ Rest(t) \/ IsrWakeup(t)
  \/ IsrPut \/ IsrGet

\* The processor runs the active thread on through a call; what a resting thread
\* waits for happens; a producer that runs puts its messages and, done, makes way;
\* a consumer that runs again and again gets again and again.
Fairness ==
  /\ \A t \in Threads : WF_vars(Reschedule(t)) /\ WF_vars(PutResumes(t)) /\ WF_vars(IsrWakeup(t))
  /\ \A t \in Producers : WF_vars(Put(t)) /\ WF_vars(Done(t) /\ Rest(t))
  /\ \A t \in Consumers : SF_vars(Get(t))

Spec == Init /\ [][Next]_vars /\ Fairness

-----------------------------------------------------------------------------
(* Properties.                                                             *)

TypeOK ==
  /\ k \in Kernels
  /\ queue \in Seq(Msgs) /\ Len(queue) <= Size
  /\ readers \in Seq(Threads) /\ writers \in Seq(Threads)
  /\ sending \in [Threads -> 0..MaxMsgs] /\ made \in 0..MaxMsgs /\ rests \in 0..MaxRests
  /\ accepted \in Seq(Msgs) /\ received \in Seq(Msgs)

\* A thread is STATUS_MBOX_BLOCKED exactly while one of the two lists holds it:
\* wake-ups by threads and interrupts neither lose a waiter nor leave one behind.
WaitersListed ==
  /\ NoDuplicates(readers \o writers)
  /\ \A t \in Threads : k.status[t] = "mbox" <=> Contains(readers \o writers, t)

\* While writers wait, every free place of the queue has a woken writer on its way
\* to it, also when an interrupt takes the place before the writer runs.
FreePlacesAreClaimed ==
  writers # << >> =>
    Size - Len(queue) <= Cardinality({t \in Threads : sending[t] # 0 /\ ~Contains(writers, t)})

\* mbox_get: "If the mailbox is empty, this function will block until a message
\* becomes available": no reader sleeps on a mailbox that holds a message.
ReadersSleepOnEmpty == readers # << >> => queue = << >>

\* The mailbox is a bounded FIFO channel: across direct hand-over, blocked writers
\* and interrupts no message is lost, duplicated or overtaken, and every accepted
\* message is received in the end.
Channel == INSTANCE Mailbox
ImplementsMailbox == Channel!Spec

=============================================================================
