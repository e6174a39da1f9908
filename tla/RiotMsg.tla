------------------------------- MODULE RiotMsg -------------------------------
(***************************************************************************)
(* Messages between threads of RIOT (core/msg.c) on the scheduler: blocking *)
(* and non-blocking sends, requests with replies, messages to oneself, from *)
(* interrupts and over a bus (core/msg_bus.c), with and without a message  *)
(* queue, and receivers that exit.                                         *)
(*                                                                         *)
(* A reply is sent once, to a request that was received with msg_receive   *)
(* ("Sender must have sent the message with msg_send_receive()"), by the   *)
(* thread or by an interrupt it has delegated that to.  The build is one   *)
(* without thread flags.                                                   *)
(***************************************************************************)
EXTENDS RiotSched, FiniteSets

CONSTANTS Prio,      \* the priority of each thread
          QueueSize, \* what each thread passes to msg_init_queue, or 0
          Receivers, \* the threads that receive
          Mortal,    \* those that may exit
          Bus,       \* the subscribers of the bus, in its order, each with one entry
          Isr,       \* KERNEL_PID_ISR
          IdlePrio,  \* THREAD_PRIORITY_IDLE, the last level
          MaxMsgs    \* bound: messages made

ASSUME MsgPartsOK ==
  /\ Prio \in [Threads -> Prios] /\ QueueSize \in [Threads -> Nat]
  /\ Receivers \subseteq Threads /\ Mortal \subseteq Threads
  /\ IsFiniteSet(Threads) /\ Bus \in Seq(Threads) /\ NoDuplicates(Bus)
  /\ Isr \notin Threads /\ MaxMsgs \in Nat
  /\ IdlePrio \in Prios /\ \A p \in Prios : p <= IdlePrio

VARIABLES k,
          exists,    \* the pids p with sched_threads[p] # NULL
          cap,       \* size of the cib msg_queue of each thread, 0 without one
          queue,     \* the messages in it
          waiters,   \* msg_waiters of each thread
          out,       \* what wait_data of a thread in a waiter list points to
          received,  \* history: what each thread has received
          accepted,  \* history: the messages to each thread that were not refused
          asking,    \* the request of the msg_send_receive a thread is in, or 0
          answer,    \* the request the last reply to each thread was for, or 0
          replied,   \* history: the requests that have been replied to
          made       \* the number of messages made

buffers == <<queue, received, accepted>>
links == <<waiters, out>>
requests == <<asking, answer, replied>>
vars == <<k, exists, cap, buffers, links, requests, made>>

\* A msg_t: its sender, its content and whether the sender wants a reply.
Msgs == [from : Threads \cup {Isr}, id : 1..MaxMsgs, ask : BOOLEAN]
NoMsg == [from |-> Isr, id |-> 0, ask |-> FALSE]

Init ==
  /\ k = Booted(Prio)
  /\ exists = Threads
  /\ cap = [t \in Threads |-> 0]
  /\ queue = [t \in Threads |-> << >>]
  /\ waiters = [t \in Threads |-> << >>]
  /\ out = [t \in Threads |-> NoMsg]
  /\ received = [t \in Threads |-> << >>]
  /\ accepted = [t \in Threads |-> {}]
  /\ asking = [t \in Threads |-> 0] /\ answer = [t \in Threads |-> 0]
  /\ replied = {}
  /\ made = 0

\* Between two calls; msg_send_receive has returned.
Free(t) == t \in exists /\ Calls(k, t) /\ asking[t] = 0

NewMsg(from, ask) == [from |-> from, id |-> made + 1, ask |-> ask]
Makes == made < MaxMsgs /\ made' = made + 1

-----------------------------------------------------------------------------
(* Delivery to u.                                                          *)

\* Fault: the queue takes one message too many.
RoomTooLate(u) == Len(queue[u]) <= cap[u]

\* queue_msg, and the copy into the buffer of a thread that is STATUS_RECEIVE_BLOCKED.
Room(u) == Len(queue[u]) < cap[u]

Queues(u, m) ==
  /\ queue' = [queue EXCEPT ![u] = Append(@, m)]
  /\ accepted' = [accepted EXCEPT ![u] = @ \cup {m}]
  /\ UNCHANGED received

Copies(u, m) ==
  /\ received' = [received EXCEPT ![u] = Append(@, m)]
  /\ accepted' = [accepted EXCEPT ![u] = @ \cup {m}]
  /\ UNCHANGED queue

\* _msg_send, on the kernel kk that msg_send_receive may have changed.
SendDirect(kk, t, u, m) ==
  /\ kk.status[u] = "receive"
  /\ Copies(u, m)
  /\ k' = Ends(SetStatus(kk, u, "pending"), t, YieldHigher)
  /\ UNCHANGED links

SendQueued(kk, t, u, m) ==
  /\ kk.status[u] # "receive" /\ Room(u)
  /\ Queues(u, m)
  /\ k' = Ends(kk, t, IF kk.status[t] = "reply" THEN YieldHigher ELSE NoTail)
  /\ UNCHANGED links

SendBlocks(kk, t, u, m) ==
  /\ kk.status[u] # "receive" /\ ~Room(u)
  /\ LET s == IF kk.status[t] = "reply" THEN "reply" ELSE "send"
     IN k' = Ends(SetStatus(kk, t, s), t, YieldHigher)
  /\ waiters' = [waiters EXCEPT ![u] = AddToList(kk, @, t)]
  /\ out' = [out EXCEPT ![t] = m]
  /\ accepted' = [accepted EXCEPT ![u] = @ \cup {m}]
  /\ UNCHANGED <<queue, received>>

-----------------------------------------------------------------------------
(* Calls of threads.                                                       *)

\* msg_init_queue, once.
InitQueue(t) ==
  /\ Free(t) /\ cap[t] = 0 /\ QueueSize[t] > 0
  /\ cap' = [cap EXCEPT ![t] = QueueSize[t]]
  /\ UNCHANGED <<k, exists, buffers, links, requests, made>>

Send(t, u) ==
  /\ Free(t) /\ u \in exists \ {t} /\ Makes
  /\ LET m == NewMsg(t, FALSE)
     IN SendDirect(k, t, u, m) \/ SendQueued(k, t, u, m) \/ SendBlocks(k, t, u, m)
  /\ UNCHANGED <<exists, cap, requests>>

\* msg_try_send; a message it does not deliver is given up.
TrySend(t, u) ==
  /\ Free(t) /\ u \in exists \ {t} /\ Makes
  /\ LET m == NewMsg(t, FALSE)
     IN \/ SendDirect(k, t, u, m)
        \/ SendQueued(k, t, u, m)
        \/ k.status[u] # "receive" /\ ~Room(u) /\ UNCHANGED <<k, buffers, links>>
  /\ UNCHANGED <<exists, cap, requests>>

SendToSelf(t) ==
  /\ Free(t) /\ Makes
  /\ IF Room(t) THEN Queues(t, NewMsg(t, FALSE)) ELSE UNCHANGED buffers
  /\ UNCHANGED <<k, exists, cap, links, requests>>

SendReceive(t, u) ==
  /\ Free(t) /\ u \in exists \ {t} /\ Makes
  /\ LET m == NewMsg(t, TRUE)
         waits == SetStatus(k, t, "reply")
     IN SendDirect(waits, t, u, m) \/ SendQueued(waits, t, u, m) \/ SendBlocks(waits, t, u, m)
  /\ asking' = [asking EXCEPT ![t] = made']
  /\ UNCHANGED <<exists, cap, answer, replied>>

\* To a PID that has become free msg_send_receive returns -1; its sched_set_status
\* has been done.
SendReceiveFails(t, u) ==
  /\ Free(t) /\ u \in Threads \ exists
  /\ k' = SetStatus(k, t, "reply")
  /\ UNCHANGED <<exists, cap, buffers, links, requests, made>>

\* msg_send_receive returns.
Answered(t) ==
  /\ Calls(k, t) /\ asking[t] # 0
  /\ asking' = [asking EXCEPT ![t] = 0]
  /\ UNCHANGED <<k, exists, cap, buffers, links, answer, replied, made>>

\* sched_switch after _msg_receive has made the sender s ready, if s is above the
\* idle level.
SwitchTo(s) == IF k.prio[s] < IdlePrio THEN Switch(k.prio[s]) ELSE NoTail

\* Fault: the sender of a request is made ready like the sender of a message.
ReleasesAll(t) ==
  LET s == Head(waiters[t])
  IN /\ waiters' = [waiters EXCEPT ![t] = Tail(@)]
     /\ out' = [out EXCEPT ![s] = NoMsg]
     /\ k' = Ends(SetStatus(k, s, "pending"), t, SwitchTo(s))

\* Fault: the sender stays in the list.
ReleasesInPlace(t) ==
  LET s == Head(waiters[t])
  IN /\ out' = [out EXCEPT ![s] = NoMsg]
     /\ IF k.status[s] = "reply" THEN UNCHANGED k
        ELSE k' = Ends(SetStatus(k, s, "pending"), t, SwitchTo(s))
     /\ UNCHANGED waiters

\* The first waiter s of t's list leaves it: a sender of a request stays blocked.
Releases(t) ==
  LET s == Head(waiters[t])
  IN /\ waiters' = [waiters EXCEPT ![t] = Tail(@)]
     /\ out' = [out EXCEPT ![s] = NoMsg]
     /\ IF k.status[s] = "reply" THEN UNCHANGED k
        ELSE k' = Ends(SetStatus(k, s, "pending"), t, SwitchTo(s))

\* Fault: the message of the waiter is not moved into the queue.
ReceiveQueuedDrops(t) ==
  /\ queue[t] # << >>
  /\ received' = [received EXCEPT ![t] = Append(@, Head(queue[t]))]
  /\ queue' = [queue EXCEPT ![t] = Tail(@)]
  /\ IF waiters[t] = << >> THEN UNCHANGED <<k, links>> ELSE Releases(t)

\* Fault: the message of the waiter is received before those queued.
ReceiveWaiterFirst(t) ==
  /\ queue[t] # << >>
  /\ IF waiters[t] = << >>
     THEN /\ received' = [received EXCEPT ![t] = Append(@, Head(queue[t]))]
          /\ queue' = [queue EXCEPT ![t] = Tail(@)] /\ UNCHANGED <<k, links>>
     ELSE /\ received' = [received EXCEPT ![t] = Append(@, out[Head(waiters[t])])]
          /\ Releases(t) /\ UNCHANGED queue

\* _msg_receive.  The message of a waiter moves into the place that got free in the
\* queue, or is received at once if nothing was queued.
ReceiveQueued(t) ==
  /\ queue[t] # << >>
  /\ received' = [received EXCEPT ![t] = Append(@, Head(queue[t]))]
  /\ IF waiters[t] = << >>
     THEN queue' = [queue EXCEPT ![t] = Tail(@)] /\ UNCHANGED <<k, links>>
     ELSE /\ queue' = [queue EXCEPT ![t] = Append(Tail(@), out[Head(waiters[t])])]
          /\ Releases(t)

ReceiveFromWaiter(t) ==
  /\ queue[t] = << >> /\ waiters[t] # << >>
  /\ received' = [received EXCEPT ![t] = Append(@, out[Head(waiters[t])])]
  /\ Releases(t)
  /\ UNCHANGED queue

\* Fault: only the queue is looked at.
ReceiveBlocksEarly(t) ==
  /\ queue[t] = << >>
  /\ k' = Ends(SetStatus(k, t, "receive"), t, YieldHigher)
  /\ UNCHANGED <<queue, received, links>>

\* msg_receive only; msg_try_receive would return -1.
ReceiveBlocks(t) ==
  /\ queue[t] = << >> /\ waiters[t] = << >>
  /\ k' = Ends(SetStatus(k, t, "receive"), t, YieldHigher)
  /\ UNCHANGED <<queue, received, links>>

Receive(t) ==
  /\ Free(t) /\ t \in Receivers
  /\ ReceiveQueued(t) \/ ReceiveFromWaiter(t) \/ ReceiveBlocks(t)
  /\ UNCHANGED <<exists, cap, accepted, requests, made>>

\* The requests t has received and not replied to.
Owed(t) == {m \in ToSet(received[t]) : m.ask /\ m.id \notin replied}

\* What msg_reply and msg_reply_int leave in the client.
Answers(m) ==
  /\ replied' = replied \cup {m.id}
  /\ answer' = [answer EXCEPT ![m.from] = m.id]
  /\ UNCHANGED <<exists, cap, buffers, links, asking, made>>

Reply(t, m) ==
  /\ Free(t) /\ m \in Owed(t)
  /\ k.status[m.from] = "reply"
  /\ k' = Ends(SetStatus(k, m.from, "pending"), t, Switch(k.prio[m.from]))
  /\ Answers(m)

\* _msg_send_oneway of m to the threads of a sequence, on the kernel and the queues.
Oneway(s, u, m) ==
  IF s.k.status[u] = "receive"
  THEN [s EXCEPT !.k = IsrYield(SetStatus(@, u, "pending")),
                 !.received[u] = Append(@, m), !.accepted[u] = @ \cup {m}]
  ELSE IF Len(s.queue[u]) < cap[u]
       THEN [s EXCEPT !.queue[u] = Append(@, m), !.accepted[u] = @ \cup {m}]
       ELSE s

\* m to those of the sequence us that subscribed to its event: subs.
Published(m, us, subs) ==
  LET start == [k |-> k, queue |-> queue, received |-> received, accepted |-> accepted]
      s[i \in 0..Len(us)] ==
        IF i = 0 THEN start
        ELSE IF us[i] \in exists \cap subs THEN Oneway(s[i - 1], us[i], m) ELSE s[i - 1]
  IN s[Len(us)]

Publishes(s) ==
  /\ queue' = s.queue /\ received' = s.received /\ accepted' = s.accepted
  /\ UNCHANGED <<exists, cap, links, requests>>

\* msg_send_bus by a thread, of an event of which the entries of the threads subs
\* have the bit in their event_mask.
SendBus(t, subs) ==
  /\ Free(t) /\ Bus # << >> /\ Makes
  /\ LET s == Published(NewMsg(t, FALSE), Bus, subs)
     IN /\ Publishes(s)
        /\ k' = Ends(s.k, t, IF s.k.req THEN YieldHigher ELSE NoTail)

\* sched_task_exit of a thread, whatever waits for it.
Exit(t) ==
  /\ Free(t) /\ t \in Mortal
  /\ exists' = exists \ {t}
  /\ k' = SchedRun([SetStatus(k, t, "stopped") EXCEPT !.active = NoThread])
  /\ UNCHANGED <<cap, buffers, links, requests, made>>

Reschedule(t) ==
  /\ Executes(k, t) /\ k.tail[t] # NoTail
  /\ k' = TailCall(k, t)
  /\ UNCHANGED <<exists, cap, buffers, links, requests, made>>

-----------------------------------------------------------------------------
(* Interrupts.                                                             *)

\* msg_send_int, or msg_send_bus in an interrupt.
IsrSend(us, subs) ==
  /\ Makes
  /\ LET s == Published(NewMsg(Isr, FALSE), us, subs)
     IN Publishes(s) /\ k' = IsrEnd(s.k)

\* msg_reply_int.
IsrReply(t, m) ==
  /\ m \in Owed(t)
  /\ k.status[m.from] = "reply"
  /\ k' = IsrEnd(IsrYield(SetStatus(k, m.from, "pending")))
  /\ Answers(m)

Next ==
  \/ \E t \in Threads :
       \/ InitQueue(t) \/ SendToSelf(t) \/ Answered(t) \/ Receive(t)
       \/ Exit(t) \/ Reschedule(t)
       \/ \E subs \in SUBSET ToSet(Bus) : SendBus(t, subs)
       \/ \E m \in Owed(t) : Reply(t, m) \/ IsrReply(t, m)
       \/ \E u \in Receivers :
            Send(t, u) \/ TrySend(t, u) \/ SendReceive(t, u) \/ SendReceiveFails(t, u)
  \/ \E u \in Receivers : IsrSend(<<u>>, {u})
  \/ \E subs \in SUBSET ToSet(Bus) : IsrSend(Bus, subs)

Spec == Init /\ [][Next]_vars

-----------------------------------------------------------------------------
(* Properties.                                                             *)

TypeOK ==
  /\ k \in Kernels /\ exists \subseteq Threads
  /\ cap \in [Threads -> Nat] /\ queue \in [Threads -> Seq(Msgs)]
  /\ waiters \in [Threads -> Seq(Threads)] /\ out \in [Threads -> Msgs \cup {NoMsg}]
  /\ received \in [Threads -> Seq(Msgs)] /\ accepted \in [Threads -> SUBSET Msgs]
  /\ asking \in [Threads -> 0..MaxMsgs] /\ answer \in [Threads -> 0..MaxMsgs]
  /\ replied \subseteq 1..MaxMsgs /\ made \in 0..MaxMsgs
  /\ \A t \in Threads : Len(queue[t]) <= cap[t]

\* A thread is in at most one list of waiters, with its message, once, and blocked
\* until a receiver has taken the message.
SendersListed ==
  /\ \A t \in Threads : NoDuplicates(waiters[t])
  /\ \A t, u \in Threads : Contains(waiters[u], t) =>
       /\ k.status[t] \in {"send", "reply"} /\ out[t].from = t
       /\ \A v \in Threads \ {u} : ~Contains(waiters[v], t)
  /\ \A t \in Threads : k.status[t] = "send" => \E u \in Threads : Contains(waiters[u], t)

\* The messages on their way to u, the oldest first, after those it has received.
Stream(u) == received[u] \o queue[u] \o [i \in 1..Len(waiters[u]) |-> out[waiters[u][i]]]

\* Every message msg_send and its variants have not refused is received, in the
\* queue or with a blocked sender, once.
NothingLost ==
  \A u \in Threads :
    /\ ToSet(Stream(u)) = accepted[u]
    /\ Len(Stream(u)) = Cardinality(accepted[u])

\* The messages of one sender to one receiver are received in the order they were
\* sent, also where a queue follows blocked senders or a message jumps into the
\* place that got free.
InOrder ==
  \A u \in Threads : \A i, j \in DOMAIN Stream(u) :
    i < j /\ Stream(u)[i].from = Stream(u)[j].from => Stream(u)[i].id < Stream(u)[j].id

\* msg_send_receive "blocks until target has sent a reply": it returns with the
\* reply to its own request and not when the request is merely received.
RepliesMatch ==
  \A t \in Threads : asking[t] # 0 /\ IsReady(k, t) => answer[t] = asking[t]

\* No receiver sleeps while a message is queued for it or a sender waits.
ReceiversSleepOnEmpty ==
  \A u \in Threads : k.status[u] = "receive" => queue[u] = << >> /\ waiters[u] = << >>

\* "A thread in RIOT may run until it yields or another thread with higher priority
\* is runnable again": one that runs is in its run queue, or the next interrupt
\* ends it.
RunsWhileReady == \A t \in exists : Calls(k, t) => IsReady(k, t)

=============================================================================
