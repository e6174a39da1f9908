------------------------------ MODULE QsemQueue ------------------------------
(***************************************************************************)
(* A message queue of QSemOS (core/ipc/queue): a ring of NodeNum nodes,    *)
(* tasks that read and write it with or without a timeout, interrupts that *)
(* do so without waiting, and the timer that ends a wait.                  *)
(*                                                                         *)
(* A call of PRT_QueueRead or PRT_QueueWrite runs under the lock of the    *)
(* queue, except while its task is pended: a call that does not pend is    *)
(* one step, a call that pends is the step up to OsTskSchedule and the     *)
(* step after it.  The waker of a task does not give it the message or the *)
(* node: it leaves the count alone, and so holds one back for the task     *)
(* until that runs.  When it runs is the scheduler's business: any ready   *)
(* task may take the next step.                                            *)
(***************************************************************************)
EXTENDS Naturals, Sequences, FiniteSets, SequencesExt, Lists

CONSTANTS Tasks,     \* those of the fixed array of task control blocks
          Msgs,
          Invalid,   \* OS_QUEUE_PID_INVALID in srcPid: the node holds no message
          NodeNum    \* nodeNum

ASSUME NodeNumOK == NodeNum \in Nat \ {0}
ASSUME InvalidOK == Invalid \notin Msgs
ASSUME TasksOK == IsFiniteSet(Tasks)

VARIABLES node,      \* the message in each node
          head,      \* queueHead
          tail,      \* queueTail
          readable,  \* readableCnt
          writable,  \* writableCnt
          peak,      \* nodePeak
          readList,  \* readList
          writeList, \* writeList
          status,    \* the queue's flags in the taskStatus of each task
          call,      \* the call each pended or woken task is in
          highest    \* history: the most messages the queue has held

ring == <<node, head, tail, peak, highest>>
vars == <<ring, readable, writable, readList, writeList, status, call>>

Nodes == 0..(NodeNum - 1)

NoCall == [op |-> "none", msg |-> Invalid, urgent |-> FALSE]
ReadCall == [op |-> "read", msg |-> Invalid, urgent |-> FALSE]
WriteCall(m, urgent) == [op |-> "write", msg |-> m, urgent |-> urgent]

Used == {i \in Nodes : node[i] # Invalid}

Larger(a, b) == IF a > b THEN a ELSE b

\* OsQueueCreate.
Init ==
  /\ node = [i \in Nodes |-> Invalid]
  /\ head = 0 /\ tail = 0
  /\ readable = 0 /\ writable = NodeNum
  /\ peak = 0 /\ highest = 0
  /\ readList = << >> /\ writeList = << >>
  /\ status = [t \in Tasks |-> {}]
  /\ call = [t \in Tasks |-> NoCall]

-----------------------------------------------------------------------------
(* The ring.                                                               *)

\* Fault: the index wraps one node late.
SuccLate(i) == IF i = NodeNum THEN 0 ELSE i + 1

Succ(i) == IF i + 1 = NodeNum THEN 0 ELSE i + 1

Pred(i) == IF i = 0 THEN NodeNum - 1 ELSE i - 1

\* Fault: a full ring counts as an empty one.
SpanFullIsEmpty(h, t) == IF t >= h THEN t - h ELSE NodeNum - h + t

\* The messages in the ring after a write, from its two indices.
Span(h, t) == IF t > h THEN t - h ELSE NodeNum - h + t

\* Fault: an urgent message is put in front of the wrong node.
StoreUrgentAtHead(m, urgent) ==
  /\ IF urgent
       THEN /\ node' = [node EXCEPT ![head] = m]
            /\ head' = Pred(head) /\ UNCHANGED tail
       ELSE /\ node' = [node EXCEPT ![tail] = m]
            /\ tail' = Succ(tail) /\ UNCHANGED head
  /\ peak' = Larger(peak, Span(head', tail'))
  /\ highest' = Larger(highest, Cardinality(Used'))

\* OsQueueCpData2Node.
Store(m, urgent) ==
  /\ IF urgent
       THEN /\ node' = [node EXCEPT ![Pred(head)] = m]
            /\ head' = Pred(head) /\ UNCHANGED tail
       ELSE /\ node' = [node EXCEPT ![tail] = m]
            /\ tail' = Succ(tail) /\ UNCHANGED head
  /\ peak' = Larger(peak, Span(head', tail'))
  /\ highest' = Larger(highest, Cardinality(Used'))

\* The second part of PRT_QueueRead.
Fetch ==
  /\ node' = [node EXCEPT ![head] = Invalid]
  /\ head' = Succ(head)
  /\ UNCHANGED <<tail, peak, highest>>

-----------------------------------------------------------------------------
(* Waking and pending.                                                     *)

\* Fault: a node is also counted as free when a writer is woken for it.
FreeNodeCountsTwice(st) ==
  IF writeList = << >>
    THEN /\ writable' = writable + 1
         /\ status' = st /\ UNCHANGED writeList
    ELSE /\ status' = [st EXCEPT ![Head(writeList)] = {"BUSY"}]
         /\ writeList' = Tail(writeList)
         /\ writable' = writable + 1

\* A node has become free: OsQueuePendNeedProc wakes the first writer for it,
\* or it is counted.  st is the status of the tasks before.
FreeNode(st) ==
  IF writeList = << >>
    THEN /\ writable' = writable + 1
         /\ status' = st /\ UNCHANGED writeList
    ELSE /\ status' = [st EXCEPT ![Head(writeList)] = {"BUSY"}]
         /\ writeList' = Tail(writeList)
         /\ UNCHANGED writable

\* A message has been stored: the same for the readers.
NewMessage(st) ==
  IF readList = << >>
    THEN /\ readable' = readable + 1
         /\ status' = st /\ UNCHANGED readList
    ELSE /\ status' = [st EXCEPT ![Head(readList)] = {"BUSY"}]
         /\ readList' = Tail(readList)
         /\ UNCHANGED readable

\* OsInnerPend up to OsTskSchedule: task t waits, with a timeout or forever.
Pend(t, c, timed) ==
  /\ status[t] = {}
  /\ status' = [status EXCEPT ![t] = IF timed THEN {"PEND", "TIMEOUT"} ELSE {"PEND"}]
  /\ call' = [call EXCEPT ![t] = c]

\* OsInnerPend after OsTskSchedule: the task is back without a timeout.
Granted(t, op) == status[t] = {"BUSY"} /\ call[t].op = op
Returns(t) == call' = [call EXCEPT ![t] = NoCall]
NotWaiting(t) == [status EXCEPT ![t] = {}]

-----------------------------------------------------------------------------
(* PRT_QueueRead and PRT_QueueWrite.  A call that fails changes nothing.   *)

\* A call of a task or of an interrupt that finds a message.
ReadNow ==
  /\ readable > 0
  /\ readable' = readable - 1
  /\ Fetch /\ FreeNode(status)
  /\ UNCHANGED <<readList, call>>

\* Fault: the task pends without a look at the count.
ReadPendsAlways(t, timed) ==
  /\ Pend(t, ReadCall, timed)
  /\ readList' = Append(readList, t)
  /\ UNCHANGED <<ring, readable, writable, writeList>>

\* Fault: the task goes to the front of the list.
ReadPendsInFront(t, timed) ==
  /\ readable = 0
  /\ Pend(t, ReadCall, timed)
  /\ readList' = <<t>> \o readList
  /\ UNCHANGED <<ring, readable, writable, writeList>>

ReadPends(t, timed) ==
  /\ readable = 0
  /\ Pend(t, ReadCall, timed)
  /\ readList' = Append(readList, t)
  /\ UNCHANGED <<ring, readable, writable, writeList>>

ReadResumes(t) ==
  /\ Granted(t, "read")
  /\ Fetch /\ FreeNode(NotWaiting(t)) /\ Returns(t)
  /\ UNCHANGED <<readList, readable>>

WriteNow(m, urgent) ==
  /\ writable > 0
  /\ writable' = writable - 1
  /\ Store(m, urgent) /\ NewMessage(status)
  /\ UNCHANGED <<writeList, call>>

WritePends(t, m, urgent, timed) ==
  /\ writable = 0
  /\ Pend(t, WriteCall(m, urgent), timed)
  /\ writeList' = Append(writeList, t)
  /\ UNCHANGED <<ring, readable, writable, readList>>

WriteResumes(t) ==
  /\ Granted(t, "write")
  /\ Store(call[t].msg, call[t].urgent)
  /\ NewMessage(NotWaiting(t)) /\ Returns(t)
  /\ UNCHANGED <<writeList, writable>>

\* The call of a task whose time is up returns OS_ERRNO_QUEUE_TIMEOUT.
TimedOut(t) ==
  /\ "TIMEOUT" \in status[t] /\ "PEND" \notin status[t]
  /\ status' = NotWaiting(t) /\ Returns(t)
  /\ UNCHANGED <<ring, readable, writable, readList, writeList>>

\* The timer ends a wait: the task leaves its list and is ready, TIMEOUT stays.
TimerExpires(t) ==
  /\ {"PEND", "TIMEOUT"} \subseteq status[t]
  /\ status' = [status EXCEPT ![t] = {"TIMEOUT"}]
  /\ readList' = RemoveFirst(readList, t)
  /\ writeList' = RemoveFirst(writeList, t)
  /\ UNCHANGED <<ring, readable, writable, call>>

Write == \E m \in Msgs, urgent \in BOOLEAN : WriteNow(m, urgent)

Resumes(t) == ReadResumes(t) \/ WriteResumes(t) \/ TimedOut(t)

Next ==
  \/ ReadNow \/ Write
  \/ \E t \in Tasks :
       \/ Resumes(t) \/ TimerExpires(t)
       \/ \E timed \in BOOLEAN :
            \/ ReadPends(t, timed)
            \/ \E m \in Msgs, urgent \in BOOLEAN : WritePends(t, m, urgent, timed)

Spec == Init /\ [][Next]_vars

\* A ready task gets to run, and other parts of the system keep reading and
\* writing the queue.
FairSpec ==
  Spec /\ WF_vars(ReadNow) /\ WF_vars(Write) /\ \A t \in Tasks : WF_vars(Resumes(t))

-----------------------------------------------------------------------------
(* Properties.                                                             *)

Woken(op) == {t \in Tasks : Granted(t, op)}

Statuses == {{}, {"PEND"}, {"PEND", "TIMEOUT"}, {"TIMEOUT"}, {"BUSY"}}

Calls == [op : {"none", "read", "write"}, msg : Msgs \cup {Invalid}, urgent : BOOLEAN]

\* The indices stay inside the ring and the counts inside its size, whatever
\* wraps around in PRT_QueueRead and OsQueueCpData2Node.
TypeOK ==
  /\ node \in [Nodes -> Msgs \cup {Invalid}]
  /\ head \in Nodes /\ tail \in Nodes
  /\ readable \in 0..NodeNum /\ writable \in 0..NodeNum
  /\ peak \in 0..NodeNum /\ highest \in 0..NodeNum
  /\ readList \in Seq(Tasks) /\ writeList \in Seq(Tasks)
  /\ status \in [Tasks -> Statuses]
  /\ call \in [Tasks -> Calls]

\* The hand-off of OsQueuePendNeedProc loses nothing and promises nothing
\* twice: every message in the ring is either counted as readable or held
\* back for one woken reader, every free node counted as writable or held
\* back for one woken writer.
NodesAreClaimedOnce ==
  /\ readable + Cardinality(Woken("read")) = Cardinality(Used)
  /\ writable + Cardinality(Woken("write")) = NodeNum - Cardinality(Used)

\* The messages lie in one run of the ring, from queueHead up to queueTail, so
\* that a normal write never meets an unread message, and neither does an
\* urgent one that moves queueHead back.
MessagesInOneRun ==
  Used = IF head < tail THEN head..(tail - 1)
         ELSE IF tail < head \/ readable + Cardinality(Woken("read")) > 0
                THEN Nodes \ (tail..(head - 1))
                ELSE {}

\* A task with OS_TSK_QUEUE_PEND is in the list of its call, once, and nobody
\* else is, and no task sleeps in OsInnerPend while the count it waits for is
\* not zero.
WaitersAreListed ==
  /\ NoDuplicates(readList) /\ NoDuplicates(writeList)
  /\ \A t \in Tasks :
       LET waits(op) == "PEND" \in status[t] /\ call[t].op = op
       IN  /\ waits("read") <=> Contains(readList, t)
           /\ waits("write") <=> Contains(writeList, t)
  /\ readList # << >> => readable = 0
  /\ writeList # << >> => writable = 0

\* nodePeak, computed from the two indices in OsQueueCpData2Node, is the most
\* messages the queue has ever held: prt_queue.h promises the highest use of
\* the queue since it was created.
PeakIsHighest == peak = highest

\* The queue seen as a sequence, from queueHead on and around the ring.
Around(i) == IF i < NodeNum THEN i ELSE i - NodeNum

Content == [i \in 1..Cardinality(Used) |-> node[Around(head + i - 1)]]

Abstract == INSTANCE UrgentQueue WITH content <- Content, Capacity <- NodeNum

\* Behind the ring, the counts and the hand-off is a bounded queue: normal
\* messages in the order of their writes, urgent ones in front of them, each
\* read once.
ImplementsUrgentQueue == Abstract!Spec

\* A task that waits in OsInnerPend is served, or its time is up: as long as
\* others read and write, no stream of later callers keeps it waiting.
WaitersAreServed ==
  \A t \in Tasks : "PEND" \in status[t] ~> "PEND" \notin status[t]
=============================================================================
