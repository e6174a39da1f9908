--------------------------- MODULE QsemQueue_proofs ---------------------------
(***************************************************************************)
(* Theorems about QsemQueue, for every size of the ring and every finite   *)
(* set of tasks and set of messages.                                       *)
(***************************************************************************)
EXTENDS QsemQueue, ListFacts, FiniteSetTheorems

(***************************************************************************)
(* The ring: U is the set of nodes in use, h and t the two indices.        *)
(***************************************************************************)

OneRun(U, h, t) ==
  U = IF h < t THEN h..(t - 1)
      ELSE IF t < h \/ U # {} THEN Nodes \ (t..(h - 1)) ELSE {}

\* Reading takes the node at queueHead, which is in use.
LEMMA RunFetch ==
  ASSUME NEW h \in Nodes, NEW t \in Nodes, NEW U, U # {}, OneRun(U, h, t)
  PROVE  h \in U /\ Succ(h) \in Nodes /\ OneRun(U \ {h}, Succ(h), t)
<1> USE NodeNumOK DEF Nodes
<1>1. h \in U
  BY DEF OneRun
<1>2. Succ(h) \in Nodes
  BY DEF Succ
<1>3. CASE h < t
  <2>1. U = h..(t - 1) /\ Succ(h) = h + 1
    BY <1>3 DEF OneRun, Succ
  <2>2. U \ {h} = (h + 1)..(t - 1)
    BY <2>1
  <2> QED BY <1>1, <1>2, <1>3, <2>1, <2>2 DEF OneRun
<1>4. CASE ~ (h < t)
  <2>1. U = Nodes \ (t..(h - 1))
    BY <1>4 DEF OneRun
  <2>2. U \ {h} = Nodes \ (t..h)
    BY <2>1, <1>4
  <2>3. CASE h + 1 = NodeNum
    <3>1. Succ(h) = 0
      BY <2>3 DEF Succ
    <3>2. U \ {h} = 0..(t - 1)
      BY <2>2, <2>3
    <3> QED BY <1>1, <1>2, <3>1, <3>2 DEF OneRun
  <2>4. CASE h + 1 # NodeNum
    <3>1. Succ(h) = h + 1 /\ t < h + 1
      BY <2>4, <1>4 DEF Succ
    <3> QED BY <1>1, <1>2, <3>1, <2>2 DEF OneRun
  <2> QED BY <2>3, <2>4
<1> QED BY <1>3, <1>4

\* A normal write takes the node at queueTail, which is free.
LEMMA RunAppend ==
  ASSUME NEW h \in Nodes, NEW t \in Nodes, NEW U, U # Nodes, OneRun(U, h, t)
  PROVE  t \notin U /\ Succ(t) \in Nodes /\ OneRun(U \cup {t}, h, Succ(t))
<1> USE NodeNumOK DEF Nodes
<1>0. ASSUME ~ (t < h)
      PROVE  U = h..(t - 1)
  <2>1. CASE h < t
    BY <2>1 DEF OneRun
  <2>2. CASE h = t
    <3>1. h..(t - 1) = {} /\ t..(h - 1) = {}
      BY <2>2
    <3>2. U # {} => U = Nodes
      BY <2>2, <3>1 DEF OneRun
    <3> QED BY <3>1, <3>2
  <2> QED BY <2>1, <2>2, <1>0
<1>1. t \notin U
  <2>1. CASE t < h
    BY <2>1 DEF OneRun
  <2>2. CASE ~ (t < h)
    BY <2>2, <1>0
  <2> QED BY <2>1, <2>2
<1>2. Succ(t) \in Nodes
  BY DEF Succ
<1>3. CASE t < h
  <2>1. U = Nodes \ (t..(h - 1)) /\ Succ(t) = t + 1
    BY <1>3 DEF OneRun, Succ
  <2>2. U \cup {t} = Nodes \ ((t + 1)..(h - 1))
    BY <2>1
  <2> QED BY <1>1, <1>2, <1>3, <2>1, <2>2 DEF OneRun
<1>4. CASE ~ (t < h)
  <2>1. U = h..(t - 1)
    BY <1>4, <1>0
  <2>2. U \cup {t} = h..t
    BY <2>1, <1>4
  <2>3. CASE t + 1 = NodeNum
    <3>1. Succ(t) = 0
      BY <2>3 DEF Succ
    <3>2. U \cup {t} = Nodes \ (0..(h - 1))
      BY <2>2, <2>3
    <3> QED BY <1>1, <1>2, <3>1, <3>2 DEF OneRun
  <2>4. CASE t + 1 # NodeNum
    <3>1. Succ(t) = t + 1 /\ h < t + 1
      BY <2>4, <1>4 DEF Succ
    <3> QED BY <1>1, <1>2, <3>1, <2>2 DEF OneRun
  <2> QED BY <2>3, <2>4
<1> QED BY <1>3, <1>4

\* An urgent write takes the node before queueHead, which is free.
LEMMA RunPrepend ==
  ASSUME NEW h \in Nodes, NEW t \in Nodes, NEW U, U # Nodes, OneRun(U, h, t)
  PROVE  Pred(h) \notin U /\ Pred(h) \in Nodes /\ OneRun(U \cup {Pred(h)}, Pred(h), t)
<1> USE NodeNumOK DEF Nodes
<1>0. ASSUME ~ (t < h)
      PROVE  U = h..(t - 1)
  <2>1. CASE h < t
    BY <2>1 DEF OneRun
  <2>2. CASE h = t
    <3>1. h..(t - 1) = {} /\ t..(h - 1) = {}
      BY <2>2
    <3>2. U # {} => U = Nodes
      BY <2>2, <3>1 DEF OneRun
    <3> QED BY <3>1, <3>2
  <2> QED BY <2>1, <2>2, <1>0
<1> DEFINE p == Pred(h)
<1>1. p \in Nodes /\ (IF h = 0 THEN p = NodeNum - 1 ELSE p = h - 1)
  BY DEF Pred
<1> HIDE DEF p
<1>2. CASE t < h
  <2>1. U = Nodes \ (t..(h - 1)) /\ p = h - 1
    BY <1>1, <1>2 DEF OneRun
  <2>2. p \notin U /\ U \cup {p} = Nodes \ (t..(p - 1))
    BY <1>1, <1>2, <2>1
  <2>3. p \in U \cup {p} /\ t <= p
    BY <1>2, <2>1
  <2> QED BY <1>1, <2>2, <2>3 DEF OneRun, p
<1>3. CASE ~ (t < h)
  <2>1. U = h..(t - 1)
    BY <1>3, <1>0
  <2>2. CASE h = 0
    <3>1. p = NodeNum - 1 /\ p \notin U /\ U \cup {p} = Nodes \ (t..(p - 1))
      BY <1>1, <2>1, <2>2
    <3>2. p \in U \cup {p} /\ t <= p
      BY <3>1
    <3> QED BY <1>1, <3>1, <3>2 DEF OneRun, p
  <2>3. CASE h # 0
    <3>1. p = h - 1 /\ p < t /\ p \notin U /\ U \cup {p} = p..(t - 1)
      BY <1>1, <1>3, <2>1, <2>3
    <3> QED BY <1>1, <3>1 DEF OneRun, p
  <2> QED BY <2>2, <2>3
<1> QED BY <1>2, <1>3

\* The span of the two indices is the number of the messages.
LEMMA RunSpan ==
  ASSUME NEW h \in Nodes, NEW t \in Nodes, NEW U, U # {}, OneRun(U, h, t)
  PROVE  Cardinality(U) = Span(h, t)
<1> USE NodeNumOK DEF Nodes
<1>1. CASE h < t
  <2>1. U = h..(t - 1) /\ Span(h, t) = t - h
    BY <1>1 DEF OneRun, Span
  <2>2. Cardinality(h..(t - 1)) = (t - 1) - h + 1
    BY <1>1, FS_Interval
  <2> QED BY <2>1, <2>2
<1>2. CASE ~ (h < t)
  <2>1. U = Nodes \ (t..(h - 1)) /\ Span(h, t) = NodeNum - h + t
    BY <1>2 DEF OneRun, Span
  <2> DEFINE A == 0..(t - 1)
             B == h..(NodeNum - 1)
  <2>2. U = A \cup B /\ A \cap B = {}
    BY <1>2, <2>1
  <2>3. t \in Nat /\ h \in Nat /\ t <= NodeNum - 1 /\ h <= NodeNum - 1 /\ NodeNum \in Nat
    OBVIOUS
  <2>4. IsFiniteSet(A) /\ Cardinality(A) = t
    <3>1. IsFiniteSet(A) /\ Cardinality(A) = IF 0 > t - 1 THEN 0 ELSE (t - 1) - 0 + 1
      BY <2>3, FS_Interval
    <3> QED BY <2>3, <3>1
  <2>5. IsFiniteSet(B) /\ Cardinality(B) = NodeNum - h
    <3>1. /\ IsFiniteSet(B)
          /\ Cardinality(B) = IF h > NodeNum - 1 THEN 0 ELSE (NodeNum - 1) - h + 1
      BY <2>3, FS_Interval
    <3> QED BY <2>3, <3>1
  <2> HIDE DEF A, B
  <2>6. Cardinality(A \cup B) = Cardinality(A) + Cardinality(B) - Cardinality(A \cap B)
    BY <2>4, <2>5, FS_Union
  <2>7. Cardinality(A \cap B) = 0
    BY <2>2, FS_EmptySet
  <2> QED BY <2>1, <2>2, <2>3, <2>4, <2>5, <2>6, <2>7
<1> QED BY <1>1, <1>2

(***************************************************************************)
(* The tasks: st is the status of each, c its call.                        *)
(***************************************************************************)

BusyIn(st, c, op) == {t \in Tasks : st[t] = {"BUSY"} /\ c[t].op = op}

\* The list of the tasks pended in the calls op.
ListOf(list, st, c, op) ==
  /\ list \in Seq(Tasks) /\ NoDuplicates(list)
  /\ \A t \in Tasks : Contains(list, t) <=> ("PEND" \in st[t] /\ c[t].op = op)

\* m is st with task t at x.
Moves(st, m, t, x) ==
  /\ m \in [Tasks -> Statuses]
  /\ m[t] = x /\ \A u \in Tasks : u # t => m[u] = st[u]

LEMMA MovesFacts ==
  ASSUME NEW st \in [Tasks -> Statuses], NEW t \in Tasks, NEW x \in Statuses
  PROVE  Moves(st, [st EXCEPT ![t] = x], t, x)
BY DEF Moves

\* OsQueuePendNeedProc makes the first task of a list the one more that holds
\* something back, and keeps the other list.
LEMMA WakeFacts ==
  ASSUME NEW st \in [Tasks -> Statuses], NEW c, NEW op,
         NEW list, list # << >>, ListOf(list, st, c, op),
         NEW m, Moves(st, m, Head(list), {"BUSY"})
  PROVE  /\ ListOf(Tail(list), m, c, op)
         /\ Cardinality(BusyIn(m, c, op)) = Cardinality(BusyIn(st, c, op)) + 1
<1> DEFINE t == Head(list)
<1>1. /\ t \in Tasks /\ "PEND" \in st[t] /\ c[t].op = op
      /\ Tail(list) \in Seq(Tasks) /\ NoDuplicates(Tail(list))
      /\ \A u : Contains(Tail(list), u) <=> (u # t /\ Contains(list, u))
  BY TailFacts DEF ListOf
<1>3. m[t] = {"BUSY"} /\ \A u \in Tasks : u # t => m[u] = st[u]
  BY DEF Moves
<1> HIDE DEF t
<1>4. ListOf(Tail(list), m, c, op)
  <2>1. \A u \in Tasks : Contains(list, u) <=> ("PEND" \in st[u] /\ c[u].op = op)
    BY DEF ListOf
  <2>2. ASSUME NEW u \in Tasks
        PROVE  Contains(Tail(list), u) <=> ("PEND" \in m[u] /\ c[u].op = op)
    <3>1. CASE u = t
      BY <3>1, <1>1, <1>3
    <3>2. CASE u # t
      BY <3>2, <1>1, <1>3, <2>1
    <3> QED BY <3>1, <3>2
  <2> QED BY <1>1, <2>2 DEF ListOf
<1>5. st[t] # {"BUSY"}
  BY <1>1
<1>6. BusyIn(m, c, op) = BusyIn(st, c, op) \cup {t} /\ t \notin BusyIn(st, c, op)
  BY <1>1, <1>3, <1>5 DEF BusyIn
<1>7. IsFiniteSet(BusyIn(st, c, op))
  BY TasksOK, FS_Subset DEF BusyIn
<1>8. Cardinality(BusyIn(m, c, op)) = Cardinality(BusyIn(st, c, op)) + 1
  BY <1>6, <1>7, FS_AddElement
<1> QED BY <1>4, <1>8

LEMMA WakeKeepsOthers ==
  ASSUME NEW st \in [Tasks -> Statuses], NEW c, NEW op,
         NEW t \in Tasks, "PEND" \in st[t], c[t].op # op,
         NEW m, Moves(st, m, t, {"BUSY"}), NEW list, ListOf(list, st, c, op)
  PROVE  ListOf(list, m, c, op) /\ BusyIn(m, c, op) = BusyIn(st, c, op)
<1>1. m[t] = {"BUSY"} /\ \A u \in Tasks : u # t => m[u] = st[u]
  BY DEF Moves
<1>2. ListOf(list, m, c, op)
  BY <1>1 DEF ListOf
<1>3. BusyIn(m, c, op) = BusyIn(st, c, op)
  BY <1>1 DEF BusyIn
<1> QED BY <1>2, <1>3

\* A task that is in no list joins the one of its call.
LEMMA JoinFacts ==
  ASSUME NEW st \in [Tasks -> Statuses], NEW c, NEW op,
         NEW t \in Tasks, st[t] = {}, NEW list, ListOf(list, st, c, op),
         NEW x, "PEND" \in x, NEW m, Moves(st, m, t, x),
         NEW e, e[t].op = op, \A u \in Tasks : u # t => e[u] = c[u]
  PROVE  ListOf(Append(list, t), m, e, op)
<1>1. m[t] = x /\ \A u \in Tasks : u # t => m[u] = st[u]
  BY DEF Moves
<1>2. ~Contains(list, t)
  BY DEF ListOf
<1>3. /\ Append(list, t) \in Seq(Tasks) /\ NoDuplicates(Append(list, t))
      /\ \A u : Contains(Append(list, t), u) <=> (u = t \/ Contains(list, u))
  BY <1>2, AppendFacts DEF ListOf
<1> QED BY <1>1, <1>3 DEF ListOf

\* A task that is in no list takes up or leaves another call than op.
LEMMA OutsideFacts ==
  ASSUME NEW st \in [Tasks -> Statuses], NEW c, NEW op,
         NEW t \in Tasks, "PEND" \notin st[t], NEW list, ListOf(list, st, c, op),
         NEW x, NEW m, Moves(st, m, t, x), NEW e, x = {} \/ e[t].op # op,
         \A u \in Tasks : u # t => e[u] = c[u]
  PROVE  ListOf(list, m, e, op) /\ BusyIn(m, e, op) = BusyIn(st, c, op) \ {t}
<1>1. m[t] = x /\ \A u \in Tasks : u # t => m[u] = st[u]
  BY DEF Moves
<1>2. ListOf(list, m, e, op)
  BY <1>1 DEF ListOf
<1>3. BusyIn(m, e, op) = BusyIn(st, c, op) \ {t}
  BY <1>1 DEF BusyIn
<1> QED BY <1>2, <1>3

LEMMA BusyKept ==
  ASSUME NEW st, NEW c, NEW op, NEW t \in Tasks, st[t] # {"BUSY"},
         NEW x, x # {"BUSY"}, NEW m, Moves(st, m, t, x),
         NEW e, \A u \in Tasks : u # t => e[u] = c[u]
  PROVE  BusyIn(m, e, op) = BusyIn(st, c, op)
<1>1. m[t] = x /\ \A u \in Tasks : u # t => m[u] = st[u]
  BY DEF Moves
<1> QED BY <1>1 DEF BusyIn

\* The timer takes a task out of its list.
LEMMA ExpiryFacts ==
  ASSUME NEW st \in [Tasks -> Statuses], NEW c, NEW op, NEW t \in Tasks,
         "PEND" \in st[t], NEW list, ListOf(list, st, c, op),
         NEW m, Moves(st, m, t, {"TIMEOUT"})
  PROVE  /\ ListOf(RemoveFirst(list, t), m, c, op)
         /\ BusyIn(m, c, op) = BusyIn(st, c, op)
         /\ list = << >> => RemoveFirst(list, t) = << >>
<1>1. m[t] = {"TIMEOUT"} /\ \A u \in Tasks : u # t => m[u] = st[u]
  BY DEF Moves
<1>2. /\ RemoveFirst(list, t) \in Seq(Tasks) /\ NoDuplicates(RemoveFirst(list, t))
      /\ \A u : Contains(RemoveFirst(list, t), u) <=> (u # t /\ Contains(list, u))
  BY RemoveFacts DEF ListOf
<1>3. ListOf(RemoveFirst(list, t), m, c, op)
  BY <1>1, <1>2 DEF ListOf
<1>4. BusyIn(m, c, op) = BusyIn(st, c, op)
  BY <1>1 DEF BusyIn
<1>5. list = << >> => RemoveFirst(list, t) = << >>
  BY DEF RemoveFirst
<1> QED BY <1>3, <1>4, <1>5

(***************************************************************************)
(* The inductive invariant.                                                *)
(***************************************************************************)

RingOK ==
  /\ node \in [Nodes -> Msgs \cup {Invalid}]
  /\ head \in Nodes /\ tail \in Nodes
  /\ peak \in 0..NodeNum /\ highest = peak
  /\ OneRun(Used, head, tail)

\* The lists are needed to know that the task a waker takes from one has not
\* been woken before, and that what it holds back is for a call of that kind.
IInv ==
  /\ RingOK
  /\ readable \in Nat /\ writable \in Nat
  /\ status \in [Tasks -> Statuses] /\ call \in [Tasks -> Calls]
  /\ \A t \in Tasks : call[t].op = "write" => call[t].msg \in Msgs
  /\ ListOf(readList, status, call, "read")
  /\ ListOf(writeList, status, call, "write")
  /\ readable + Cardinality(BusyIn(status, call, "read")) = Cardinality(Used)
  /\ writable + Cardinality(BusyIn(status, call, "write")) = NodeNum - Cardinality(Used)
  /\ readList # << >> => readable = 0
  /\ writeList # << >> => writable = 0

LEMMA NodesFacts ==
  /\ IsFiniteSet(Nodes) /\ Cardinality(Nodes) = NodeNum
  /\ IsFiniteSet(Used) /\ Cardinality(Used) \in 0..NodeNum
  /\ Cardinality(Used) = 0 => Used = {}
  /\ Cardinality(Used) = NodeNum <=> Used = Nodes
<1>1. IsFiniteSet(Nodes) /\ Cardinality(Nodes) = NodeNum
  <2>1. /\ IsFiniteSet(0..(NodeNum - 1))
        /\ Cardinality(0..(NodeNum - 1)) = IF 0 > NodeNum - 1 THEN 0 ELSE (NodeNum - 1) - 0 + 1
    BY NodeNumOK, FS_Interval
  <2> QED BY <2>1, NodeNumOK DEF Nodes
<1>2. Used \subseteq Nodes
  BY DEF Used
<1>3. /\ IsFiniteSet(Used) /\ Cardinality(Used) <= Cardinality(Nodes)
      /\ Cardinality(Used) = Cardinality(Nodes) => Used = Nodes
  BY <1>1, <1>2, FS_Subset
<1>4. Cardinality(Used) \in Nat
  BY <1>3, FS_CardinalityType
<1>5. Cardinality(Used) = 0 <=> Used = {}
  BY <1>3, FS_EmptySet
<1> QED BY <1>1, <1>3, <1>4, <1>5, NodeNumOK

LEMMA BusyFacts ==
  ASSUME NEW st, NEW c, NEW op
  PROVE  /\ IsFiniteSet(BusyIn(st, c, op))
         /\ Cardinality(BusyIn(st, c, op)) \in Nat
<1>1. IsFiniteSet(BusyIn(st, c, op))
  BY TasksOK, FS_Subset DEF BusyIn
<1> QED BY <1>1, FS_CardinalityType

\* Taking the message at queueHead.
LEMMA FetchKeepsRing ==
  ASSUME RingOK, Used # {}, Fetch
  PROVE  RingOK' /\ Cardinality(Used') = Cardinality(Used) - 1
<1>1. head \in Used /\ Succ(head) \in Nodes /\ OneRun(Used \ {head}, Succ(head), tail)
  BY RunFetch DEF RingOK
<1>2. /\ node' \in [Nodes -> Msgs \cup {Invalid}]
      /\ \A i \in Nodes : node'[i] = IF i = head THEN Invalid ELSE node[i]
  BY DEF RingOK, Fetch
<1>3. Used' = Used \ {head}
  BY <1>2 DEF Used, Nodes
<1>4. Cardinality(Used') = Cardinality(Used) - 1
  BY <1>1, <1>3, NodesFacts, FS_RemoveElement
<1>5. RingOK'
  BY <1>1, <1>2, <1>3 DEF RingOK, Fetch, OneRun, Nodes
<1> QED BY <1>4, <1>5

\* Storing a message, at either end.
LEMMA StoreKeepsRing ==
  ASSUME RingOK, Used # Nodes, NEW m \in Msgs, NEW urgent \in BOOLEAN, Store(m, urgent)
  PROVE  RingOK' /\ Cardinality(Used') = Cardinality(Used) + 1
<1> DEFINE at == IF urgent THEN Pred(head) ELSE tail
<1>1. /\ at \in Nodes /\ at \notin Used /\ head' \in Nodes /\ tail' \in Nodes
      /\ OneRun(Used \cup {at}, head', tail')
  <2>1. CASE urgent
    <3>1. head' = Pred(head) /\ tail' = tail /\ at = Pred(head)
      BY <2>1 DEF Store
    <3>2. /\ Pred(head) \notin Used /\ Pred(head) \in Nodes
          /\ OneRun(Used \cup {Pred(head)}, Pred(head), tail)
      BY RunPrepend DEF RingOK
    <3> HIDE DEF at
    <3> QED BY <3>1, <3>2 DEF RingOK
  <2>2. CASE ~urgent
    <3>1. head' = head /\ tail' = Succ(tail) /\ at = tail
      BY <2>2 DEF Store
    <3> QED BY <3>1, RunAppend DEF RingOK
  <2> QED BY <2>1, <2>2
<1>2. node' = [node EXCEPT ![at] = m]
  BY DEF Store
<1> HIDE DEF at
<1>3. /\ node' \in [Nodes -> Msgs \cup {Invalid}]
      /\ \A i \in Nodes : node'[i] = IF i = at THEN m ELSE node[i]
  BY <1>1, <1>2 DEF RingOK
<1>4. Used' = Used \cup {at}
  BY <1>1, <1>3, InvalidOK DEF Used, Nodes
<1>5. Cardinality(Used') = Cardinality(Used) + 1
  BY <1>1, <1>4, NodesFacts, FS_AddElement
<1>6. OneRun(Used', head', tail')
  BY <1>1, <1>4
<1>7. Cardinality(Used') = Span(head', tail')
  <2>1. Used' # {}
    BY <1>4
  <2> QED BY <2>1, <1>1, <1>6, RunSpan
<1>8. Cardinality(Used') \in 0..NodeNum
  <2>1. Cardinality(Used) # NodeNum
    BY NodesFacts
  <2> QED BY <2>1, <1>5, NodesFacts, NodeNumOK
<1>9. peak' \in 0..NodeNum /\ highest' = peak'
  BY <1>7, <1>8 DEF Store, RingOK, Larger
<1> QED BY <1>1, <1>3, <1>5, <1>6, <1>9 DEF RingOK, OneRun, Nodes

(***************************************************************************)
(* The theorems.                                                           *)
(***************************************************************************)

\* What the steps that free a node or store a message do to the writers and
\* the readers: st and c are the status and the calls before the wake-up.
LEMMA FreeNodeFacts ==
  ASSUME NEW st \in [Tasks -> Statuses], writable \in Nat, call' \in [Tasks -> Calls],
         ListOf(readList, st, call', "read"), ListOf(writeList, st, call', "write"),
         FreeNode(st)
  PROVE  /\ status' \in [Tasks -> Statuses] /\ writable' \in Nat
         /\ ListOf(readList, status', call', "read")
         /\ ListOf(writeList', status', call', "write")
         /\ BusyIn(status', call', "read") = BusyIn(st, call', "read")
         /\ writable' + Cardinality(BusyIn(status', call', "write"))
              = writable + Cardinality(BusyIn(st, call', "write")) + 1
         /\ (writeList # << >> => writable = 0) => (writeList' # << >> => writable' = 0)
<1>0. Cardinality(BusyIn(st, call', "write")) \in Nat
  BY BusyFacts
<1>1. CASE writeList = << >>
  BY <1>0, <1>1 DEF FreeNode
<1>2. CASE writeList # << >>
  <2>1. /\ status' = [st EXCEPT ![Head(writeList)] = {"BUSY"}]
        /\ writeList' = Tail(writeList) /\ writable' = writable
    BY <1>2 DEF FreeNode
  <2>2. /\ status' \in [Tasks -> Statuses]
        /\ ListOf(Tail(writeList), status', call', "write")
        /\ ListOf(readList, status', call', "read")
        /\ Cardinality(BusyIn(status', call', "write"))
             = Cardinality(BusyIn(st, call', "write")) + 1
        /\ BusyIn(status', call', "read") = BusyIn(st, call', "read")
    <3>1. /\ Head(writeList) \in Tasks /\ "PEND" \in st[Head(writeList)]
          /\ call'[Head(writeList)].op = "write"
      BY <1>2, TailFacts DEF ListOf
    <3>2. Moves(st, status', Head(writeList), {"BUSY"})
      BY <2>1, <3>1, MovesFacts DEF Statuses
    <3>3. status' \in [Tasks -> Statuses]
      BY <3>2 DEF Moves
    <3>4. /\ ListOf(Tail(writeList), status', call', "write")
          /\ Cardinality(BusyIn(status', call', "write"))
               = Cardinality(BusyIn(st, call', "write")) + 1
      BY <1>2, <3>2, WakeFacts
    <3>5. call'[Head(writeList)].op # "read"
      BY <3>1
    <3>6. /\ ListOf(readList, status', call', "read")
          /\ BusyIn(status', call', "read") = BusyIn(st, call', "read")
      BY <3>1, <3>2, <3>5, WakeKeepsOthers
    <3> QED BY <3>3, <3>4, <3>6
  <2> QED BY <1>0, <1>2, <2>1, <2>2
<1> QED BY <1>1, <1>2

LEMMA NewMessageFacts ==
  ASSUME NEW st \in [Tasks -> Statuses], readable \in Nat, call' \in [Tasks -> Calls],
         ListOf(readList, st, call', "read"), ListOf(writeList, st, call', "write"),
         NewMessage(st)
  PROVE  /\ status' \in [Tasks -> Statuses] /\ readable' \in Nat
         /\ ListOf(readList', status', call', "read")
         /\ ListOf(writeList, status', call', "write")
         /\ BusyIn(status', call', "write") = BusyIn(st, call', "write")
         /\ readable' + Cardinality(BusyIn(status', call', "read"))
              = readable + Cardinality(BusyIn(st, call', "read")) + 1
         /\ (readList # << >> => readable = 0) => (readList' # << >> => readable' = 0)
<1>0. Cardinality(BusyIn(st, call', "read")) \in Nat
  BY BusyFacts
<1>1. CASE readList = << >>
  BY <1>0, <1>1 DEF NewMessage
<1>2. CASE readList # << >>
  <2>1. /\ status' = [st EXCEPT ![Head(readList)] = {"BUSY"}]
        /\ readList' = Tail(readList) /\ readable' = readable
    BY <1>2 DEF NewMessage
  <2>2. /\ status' \in [Tasks -> Statuses]
        /\ ListOf(Tail(readList), status', call', "read")
        /\ ListOf(writeList, status', call', "write")
        /\ Cardinality(BusyIn(status', call', "read"))
             = Cardinality(BusyIn(st, call', "read")) + 1
        /\ BusyIn(status', call', "write") = BusyIn(st, call', "write")
    <3>1. /\ Head(readList) \in Tasks /\ "PEND" \in st[Head(readList)]
          /\ call'[Head(readList)].op = "read"
      BY <1>2, TailFacts DEF ListOf
    <3>2. Moves(st, status', Head(readList), {"BUSY"})
      BY <2>1, <3>1, MovesFacts DEF Statuses
    <3>3. status' \in [Tasks -> Statuses]
      BY <3>2 DEF Moves
    <3>4. /\ ListOf(Tail(readList), status', call', "read")
          /\ Cardinality(BusyIn(status', call', "read"))
               = Cardinality(BusyIn(st, call', "read")) + 1
      BY <1>2, <3>2, WakeFacts
    <3>5. call'[Head(readList)].op # "write"
      BY <3>1
    <3>6. /\ ListOf(writeList, status', call', "write")
          /\ BusyIn(status', call', "write") = BusyIn(st, call', "write")
      BY <3>1, <3>2, <3>5, WakeKeepsOthers
    <3> QED BY <3>3, <3>4, <3>6
  <2> QED BY <1>0, <1>2, <2>1, <2>2
<1> QED BY <1>1, <1>2

LEMMA InitIInv == Init => IInv
<1> SUFFICES ASSUME Init PROVE IInv
  OBVIOUS
<1>1. Used = {} /\ Cardinality(Used) = 0
  BY FS_EmptySet DEF Init, Used
<1>2. RingOK
  BY <1>1, NodeNumOK DEF Init, RingOK, OneRun, Nodes
<1>3. \A op : BusyIn(status, call, op) = {}
  BY DEF Init, BusyIn
<1>4. \A op : ListOf(<< >>, status, call, op)
  BY DEF Init, ListOf, NoDuplicates, Contains
<1>5. status \in [Tasks -> Statuses] /\ call \in [Tasks -> Calls]
  BY DEF Init, Statuses, Calls, NoCall
<1>6. \A t \in Tasks : call[t].op # "write"
  BY DEF Init, NoCall
<1>7. /\ Cardinality(BusyIn(status, call, "read")) = 0
      /\ Cardinality(BusyIn(status, call, "write")) = 0
  BY <1>3, FS_EmptySet
<1>8. /\ readable + Cardinality(BusyIn(status, call, "read")) = Cardinality(Used)
      /\ writable + Cardinality(BusyIn(status, call, "write")) = NodeNum - Cardinality(Used)
  BY <1>1, <1>7, NodeNumOK DEF Init
<1> QED BY <1>2, <1>4, <1>5, <1>6, <1>8, NodeNumOK DEF Init, IInv

\* One task changes its status to x and its call to d.
LEMMA CallStep ==
  ASSUME IInv, NEW t \in Tasks, NEW x \in Statuses, NEW d \in Calls,
         d.op = "write" => d.msg \in Msgs,
         NEW m, m = [status EXCEPT ![t] = x], call' = [call EXCEPT ![t] = d]
  PROVE  /\ Moves(status, m, t, x) /\ m \in [Tasks -> Statuses]
         /\ call' \in [Tasks -> Calls] /\ call'[t] = d
         /\ \A u \in Tasks : u # t => call'[u] = call[u]
         /\ \A u \in Tasks : call'[u].op = "write" => call'[u].msg \in Msgs
<1>1. status \in [Tasks -> Statuses] /\ call \in [Tasks -> Calls]
  BY DEF IInv
<1>2. Moves(status, m, t, x) /\ m \in [Tasks -> Statuses]
  BY <1>1 DEF Moves
<1>3. /\ call' \in [Tasks -> Calls] /\ call'[t] = d
      /\ \A u \in Tasks : u # t => call'[u] = call[u]
  BY <1>1
<1>4. \A u \in Tasks : call'[u].op = "write" => call'[u].msg \in Msgs
  BY <1>3 DEF IInv
<1> QED BY <1>2, <1>3, <1>4

\* A task that has been woken is counted in one more claim than zero.
LEMMA GrantedFacts ==
  ASSUME NEW t \in Tasks, NEW op, Granted(t, op)
  PROVE  /\ t \in BusyIn(status, call, op)
         /\ Cardinality(BusyIn(status, call, op)) > 0
         /\ Cardinality(BusyIn(status, call, op) \ {t})
              = Cardinality(BusyIn(status, call, op)) - 1
<1> DEFINE B == BusyIn(status, call, op)
<1>1. t \in B
  BY DEF Granted, BusyIn
<1>2. IsFiniteSet(B) /\ Cardinality(B) \in Nat
  BY BusyFacts
<1>3. Cardinality(B) # 0
  BY <1>1, <1>2, FS_EmptySet
<1>4. Cardinality(B \ {t}) = Cardinality(B) - 1
  BY <1>1, <1>2, FS_RemoveElement
<1> HIDE DEF B
<1>5. t \in B /\ Cardinality(B) > 0 /\ Cardinality(B \ {t}) = Cardinality(B) - 1
  BY <1>1, <1>2, <1>3, <1>4
<1> QED BY <1>5 DEF B

\* The rest of PRT_QueueRead once the task or interrupt may take a message: r is
\* readableCnt after the claim, st the status of the tasks then.
LEMMA ReadStep ==
  ASSUME IInv, NEW st \in [Tasks -> Statuses], Used # {}, Fetch, FreeNode(st),
         ListOf(readList, st, call', "read"), ListOf(writeList, st, call', "write"),
         call' \in [Tasks -> Calls],
         \A u \in Tasks : call'[u].op = "write" => call'[u].msg \in Msgs,
         readable' \in Nat, readList' = readList, readList # << >> => readable' = 0,
         readable' + Cardinality(BusyIn(st, call', "read")) = Cardinality(Used) - 1,
         BusyIn(st, call', "write") = BusyIn(status, call, "write")
  PROVE  IInv'
<1>1. RingOK' /\ Cardinality(Used') = Cardinality(Used) - 1
  BY FetchKeepsRing DEF IInv
<1>2. /\ status' \in [Tasks -> Statuses] /\ writable' \in Nat
      /\ ListOf(readList, status', call', "read")
      /\ ListOf(writeList', status', call', "write")
      /\ BusyIn(status', call', "read") = BusyIn(st, call', "read")
      /\ writable' + Cardinality(BusyIn(status', call', "write"))
           = writable + Cardinality(BusyIn(st, call', "write")) + 1
      /\ writeList' # << >> => writable' = 0
  BY FreeNodeFacts DEF IInv
<1>3. readable' + Cardinality(BusyIn(status', call', "read")) = Cardinality(Used')
  BY <1>1, <1>2
<1>4. writable' + Cardinality(BusyIn(status', call', "write")) = NodeNum - Cardinality(Used')
  <2>1. writable + Cardinality(BusyIn(status, call, "write")) = NodeNum - Cardinality(Used)
    BY DEF IInv
  <2>2. Cardinality(Used) \in Nat /\ NodeNum \in Nat
    BY NodesFacts, NodeNumOK
  <2> QED BY <1>1, <1>2, <2>1, <2>2
<1> QED BY <1>1, <1>2, <1>3, <1>4 DEF IInv

\* The rest of PRT_QueueWrite.
LEMMA WriteStep ==
  ASSUME IInv, NEW st \in [Tasks -> Statuses], Used # Nodes,
         NEW m \in Msgs, NEW urgent \in BOOLEAN, Store(m, urgent), NewMessage(st),
         ListOf(readList, st, call', "read"), ListOf(writeList, st, call', "write"),
         call' \in [Tasks -> Calls],
         \A u \in Tasks : call'[u].op = "write" => call'[u].msg \in Msgs,
         writable' \in Nat, writeList' = writeList, writeList # << >> => writable' = 0,
         writable' + Cardinality(BusyIn(st, call', "write"))
           = NodeNum - Cardinality(Used) - 1,
         BusyIn(st, call', "read") = BusyIn(status, call, "read")
  PROVE  IInv'
<1>1. RingOK' /\ Cardinality(Used') = Cardinality(Used) + 1
  BY StoreKeepsRing DEF IInv
<1>2. /\ status' \in [Tasks -> Statuses] /\ readable' \in Nat
      /\ ListOf(readList', status', call', "read")
      /\ ListOf(writeList, status', call', "write")
      /\ BusyIn(status', call', "write") = BusyIn(st, call', "write")
      /\ readable' + Cardinality(BusyIn(status', call', "read"))
           = readable + Cardinality(BusyIn(st, call', "read")) + 1
      /\ readList' # << >> => readable' = 0
  BY NewMessageFacts DEF IInv
<1>3. readable' + Cardinality(BusyIn(status', call', "read")) = Cardinality(Used')
  <2>1. readable + Cardinality(BusyIn(status, call, "read")) = Cardinality(Used)
    BY DEF IInv
  <2> QED BY <1>1, <1>2, <2>1
<1>4. writable' + Cardinality(BusyIn(status', call', "write")) = NodeNum - Cardinality(Used')
  <2>1. Cardinality(Used) \in Nat /\ NodeNum \in Nat
    BY NodesFacts, NodeNumOK
  <2> QED BY <1>1, <1>2, <2>1
<1> QED BY <1>1, <1>2, <1>3, <1>4 DEF IInv

LEMMA ReadNowStep == IInv /\ ReadNow => IInv'
<1> SUFFICES ASSUME IInv, ReadNow PROVE IInv'
  OBVIOUS
<1>1. call' = call /\ readList' = readList /\ readable' = readable - 1 /\ readable > 0
  BY DEF ReadNow
<1>2. Cardinality(BusyIn(status, call, "read")) \in Nat
  BY BusyFacts
<1>3. Used # {}
  <2>1. Cardinality(Used) > 0
    BY <1>1, <1>2 DEF IInv
  <2> QED BY <2>1, FS_EmptySet
<1>4. readable' \in Nat /\ readList = << >>
  BY <1>1 DEF IInv
<1>5. readable' + Cardinality(BusyIn(status, call', "read")) = Cardinality(Used) - 1
  BY <1>1, <1>2 DEF IInv
<1>6. Fetch /\ FreeNode(status)
  BY DEF ReadNow
<1>7. /\ status \in [Tasks -> Statuses] /\ call' \in [Tasks -> Calls]
      /\ ListOf(readList, status, call', "read") /\ ListOf(writeList, status, call', "write")
      /\ \A u \in Tasks : call'[u].op = "write" => call'[u].msg \in Msgs
      /\ BusyIn(status, call', "write") = BusyIn(status, call, "write")
  BY <1>1 DEF IInv
<1> QED BY <1>1, <1>3, <1>4, <1>5, <1>6, <1>7, ReadStep

LEMMA WriteNowStep ==
  ASSUME IInv, NEW m \in Msgs, NEW urgent \in BOOLEAN, WriteNow(m, urgent)
  PROVE  IInv'
<1>1. call' = call /\ writeList' = writeList /\ writable' = writable - 1 /\ writable > 0
  BY DEF WriteNow
<1>2. Cardinality(BusyIn(status, call, "write")) \in Nat
  BY BusyFacts
<1>3. Used # Nodes
  BY <1>1, <1>2, NodesFacts DEF IInv
<1>4. writable' \in Nat /\ writeList = << >>
  BY <1>1 DEF IInv
<1>5. writable' + Cardinality(BusyIn(status, call', "write"))
        = NodeNum - Cardinality(Used) - 1
  <2>1. Cardinality(Used) \in Nat /\ NodeNum \in Nat
    BY NodesFacts, NodeNumOK
  <2> QED BY <1>1, <1>2, <2>1 DEF IInv
<1>6. Store(m, urgent) /\ NewMessage(status)
  BY DEF WriteNow
<1>7. /\ status \in [Tasks -> Statuses] /\ call' \in [Tasks -> Calls]
      /\ ListOf(readList, status, call', "read") /\ ListOf(writeList, status, call', "write")
      /\ \A u \in Tasks : call'[u].op = "write" => call'[u].msg \in Msgs
      /\ BusyIn(status, call', "read") = BusyIn(status, call, "read")
  BY <1>1 DEF IInv
<1> QED BY <1>1, <1>3, <1>4, <1>5, <1>6, <1>7, WriteStep

\* What the return of a task from its call does to the lists and the claims.
LEMMA ReturnStep ==
  ASSUME IInv, NEW t \in Tasks, "PEND" \notin status[t], Returns(t)
  PROVE  /\ NotWaiting(t) \in [Tasks -> Statuses] /\ call' \in [Tasks -> Calls]
         /\ \A u \in Tasks : call'[u].op = "write" => call'[u].msg \in Msgs
         /\ ListOf(readList, NotWaiting(t), call', "read")
         /\ ListOf(writeList, NotWaiting(t), call', "write")
         /\ BusyIn(NotWaiting(t), call', "read") = BusyIn(status, call, "read") \ {t}
         /\ BusyIn(NotWaiting(t), call', "write") = BusyIn(status, call, "write") \ {t}
<1> DEFINE m == NotWaiting(t)
<1>1. m = [status EXCEPT ![t] = {}] /\ call' = [call EXCEPT ![t] = NoCall]
  BY DEF NotWaiting, Returns
<1>2. {} \in Statuses /\ NoCall \in Calls /\ NoCall.op # "write"
  BY DEF Statuses, Calls, NoCall
<1> HIDE DEF m
<1>3. /\ Moves(status, m, t, {}) /\ m \in [Tasks -> Statuses]
      /\ call' \in [Tasks -> Calls]
      /\ \A u \in Tasks : u # t => call'[u] = call[u]
      /\ \A u \in Tasks : call'[u].op = "write" => call'[u].msg \in Msgs
  BY <1>1, <1>2, CallStep
<1>4. /\ status \in [Tasks -> Statuses]
      /\ ListOf(readList, status, call, "read") /\ ListOf(writeList, status, call, "write")
  BY DEF IInv
<1>5. /\ ListOf(readList, m, call', "read")
      /\ BusyIn(m, call', "read") = BusyIn(status, call, "read") \ {t}
  BY <1>3, <1>4, OutsideFacts
<1>6. /\ ListOf(writeList, m, call', "write")
      /\ BusyIn(m, call', "write") = BusyIn(status, call, "write") \ {t}
  BY <1>3, <1>4, OutsideFacts
<1> QED BY <1>3, <1>5, <1>6 DEF m

LEMMA ReadResumesStep ==
  ASSUME IInv, NEW t \in Tasks, ReadResumes(t)
  PROVE  IInv'
<1>1. /\ Granted(t, "read") /\ Returns(t) /\ Fetch /\ FreeNode(NotWaiting(t))
      /\ readList' = readList /\ readable' = readable
  BY DEF ReadResumes
<1>2. status[t] = {"BUSY"} /\ call[t].op = "read"
  BY <1>1 DEF Granted
<1>3. /\ Cardinality(BusyIn(status, call, "read")) > 0
      /\ Cardinality(BusyIn(status, call, "read") \ {t})
           = Cardinality(BusyIn(status, call, "read")) - 1
  BY <1>1, GrantedFacts
<1>4. Cardinality(BusyIn(status, call, "read")) \in Nat
  BY BusyFacts
<1>5. Used # {}
  <2>1. Cardinality(Used) > 0
    BY <1>3, <1>4 DEF IInv
  <2> QED BY <2>1, FS_EmptySet
<1>6. /\ NotWaiting(t) \in [Tasks -> Statuses] /\ call' \in [Tasks -> Calls]
      /\ \A u \in Tasks : call'[u].op = "write" => call'[u].msg \in Msgs
      /\ ListOf(readList, NotWaiting(t), call', "read")
      /\ ListOf(writeList, NotWaiting(t), call', "write")
      /\ BusyIn(NotWaiting(t), call', "read") = BusyIn(status, call, "read") \ {t}
      /\ BusyIn(NotWaiting(t), call', "write") = BusyIn(status, call, "write") \ {t}
  BY <1>1, <1>2, ReturnStep
<1>7. t \notin BusyIn(status, call, "write")
  BY <1>2 DEF BusyIn
<1>8. BusyIn(NotWaiting(t), call', "write") = BusyIn(status, call, "write")
  BY <1>6, <1>7
<1>9. readable' + Cardinality(BusyIn(NotWaiting(t), call', "read")) = Cardinality(Used) - 1
  <2>1. Cardinality(BusyIn(NotWaiting(t), call', "read"))
          = Cardinality(BusyIn(status, call, "read")) - 1
    BY <1>3, <1>6
  <2>2. readable + Cardinality(BusyIn(status, call, "read")) = Cardinality(Used)
    BY DEF IInv
  <2>3. readable \in Nat
    BY DEF IInv
  <2> QED BY <1>1, <1>4, <2>1, <2>2, <2>3
<1>10. readable' \in Nat /\ (readList # << >> => readable' = 0)
  BY <1>1 DEF IInv
<1> QED BY <1>1, <1>5, <1>6, <1>8, <1>9, <1>10, ReadStep

LEMMA WriteResumesStep ==
  ASSUME IInv, NEW t \in Tasks, WriteResumes(t)
  PROVE  IInv'
<1>1. /\ Granted(t, "write") /\ Returns(t)
      /\ Store(call[t].msg, call[t].urgent) /\ NewMessage(NotWaiting(t))
      /\ writeList' = writeList /\ writable' = writable
  BY DEF WriteResumes
<1>2. status[t] = {"BUSY"} /\ call[t].op = "write"
  BY <1>1 DEF Granted
<1>3. /\ Cardinality(BusyIn(status, call, "write")) > 0
      /\ Cardinality(BusyIn(status, call, "write") \ {t})
           = Cardinality(BusyIn(status, call, "write")) - 1
  BY <1>1, GrantedFacts
<1>4. Cardinality(BusyIn(status, call, "write")) \in Nat
  BY BusyFacts
<1>5. Used # Nodes
  BY <1>3, <1>4, NodesFacts DEF IInv
<1>6. /\ NotWaiting(t) \in [Tasks -> Statuses] /\ call' \in [Tasks -> Calls]
      /\ \A u \in Tasks : call'[u].op = "write" => call'[u].msg \in Msgs
      /\ ListOf(readList, NotWaiting(t), call', "read")
      /\ ListOf(writeList, NotWaiting(t), call', "write")
      /\ BusyIn(NotWaiting(t), call', "read") = BusyIn(status, call, "read") \ {t}
      /\ BusyIn(NotWaiting(t), call', "write") = BusyIn(status, call, "write") \ {t}
  BY <1>1, <1>2, ReturnStep
<1>7. t \notin BusyIn(status, call, "read")
  BY <1>2 DEF BusyIn
<1>8. BusyIn(NotWaiting(t), call', "read") = BusyIn(status, call, "read")
  BY <1>6, <1>7
<1>9. writable' + Cardinality(BusyIn(NotWaiting(t), call', "write"))
        = NodeNum - Cardinality(Used) - 1
  <2>1. Cardinality(Used) \in Nat /\ NodeNum \in Nat
    BY NodesFacts, NodeNumOK
  <2>2. writable + Cardinality(BusyIn(status, call, "write")) = NodeNum - Cardinality(Used)
    BY DEF IInv
  <2>3. writable \in Nat
    BY DEF IInv
  <2>4. Cardinality(BusyIn(NotWaiting(t), call', "write"))
          = Cardinality(BusyIn(status, call, "write")) - 1
    BY <1>3, <1>6
  <2> QED BY <1>1, <1>4, <2>1, <2>2, <2>3, <2>4
<1>10. writable' \in Nat /\ (writeList # << >> => writable' = 0)
  BY <1>1 DEF IInv
<1>11. call[t].msg \in Msgs /\ call[t].urgent \in BOOLEAN
  BY <1>2 DEF IInv, Calls
<1> QED BY <1>1, <1>5, <1>6, <1>8, <1>9, <1>10, <1>11, WriteStep

LEMMA TimedOutStep ==
  ASSUME IInv, NEW t \in Tasks, TimedOut(t)
  PROVE  IInv'
<1>1. /\ Returns(t) /\ status' = NotWaiting(t) /\ "PEND" \notin status[t]
      /\ "TIMEOUT" \in status[t]
      /\ UNCHANGED <<ring, readable, writable, readList, writeList>>
  BY DEF TimedOut
<1>2. /\ status' \in [Tasks -> Statuses] /\ call' \in [Tasks -> Calls]
      /\ \A u \in Tasks : call'[u].op = "write" => call'[u].msg \in Msgs
      /\ ListOf(readList, status', call', "read")
      /\ ListOf(writeList, status', call', "write")
      /\ BusyIn(status', call', "read") = BusyIn(status, call, "read") \ {t}
      /\ BusyIn(status', call', "write") = BusyIn(status, call, "write") \ {t}
  BY <1>1, ReturnStep
<1>3. t \notin BusyIn(status, call, "read") /\ t \notin BusyIn(status, call, "write")
  BY <1>1 DEF BusyIn
<1>4. /\ BusyIn(status', call', "read") = BusyIn(status, call, "read")
      /\ BusyIn(status', call', "write") = BusyIn(status, call, "write")
  BY <1>2, <1>3
<1>5. RingOK' /\ Used' = Used
  BY <1>1 DEF IInv, RingOK, OneRun, ring, Used
<1> QED BY <1>1, <1>2, <1>4, <1>5 DEF IInv

LEMMA TimerExpiresStep ==
  ASSUME IInv, NEW t \in Tasks, TimerExpires(t)
  PROVE  IInv'
<1>1. /\ status' = [status EXCEPT ![t] = {"TIMEOUT"}] /\ "PEND" \in status[t]
      /\ readList' = RemoveFirst(readList, t) /\ writeList' = RemoveFirst(writeList, t)
      /\ UNCHANGED <<ring, readable, writable, call>>
  BY DEF TimerExpires
<1>2. /\ status \in [Tasks -> Statuses]
      /\ ListOf(readList, status, call, "read") /\ ListOf(writeList, status, call, "write")
  BY DEF IInv
<1>3. Moves(status, status', t, {"TIMEOUT"}) /\ status' \in [Tasks -> Statuses]
  BY <1>1, <1>2 DEF Moves, Statuses
<1>4. /\ ListOf(readList', status', call, "read")
      /\ BusyIn(status', call, "read") = BusyIn(status, call, "read")
      /\ readList = << >> => readList' = << >>
  BY <1>1, <1>2, <1>3, ExpiryFacts
<1>5. /\ ListOf(writeList', status', call, "write")
      /\ BusyIn(status', call, "write") = BusyIn(status, call, "write")
      /\ writeList = << >> => writeList' = << >>
  BY <1>1, <1>2, <1>3, ExpiryFacts
<1>6. RingOK' /\ Used' = Used
  BY <1>1 DEF IInv, RingOK, OneRun, ring, Used
<1> QED BY <1>1, <1>3, <1>4, <1>5, <1>6 DEF IInv

LEMMA ReadPendsStep ==
  ASSUME IInv, NEW t \in Tasks, NEW timed \in BOOLEAN, ReadPends(t, timed)
  PROVE  IInv'
<1> DEFINE x == IF timed THEN {"PEND", "TIMEOUT"} ELSE {"PEND"}
<1>1. /\ status[t] = {} /\ status' = [status EXCEPT ![t] = x] /\ readable = 0
      /\ call' = [call EXCEPT ![t] = ReadCall] /\ readList' = Append(readList, t)
      /\ UNCHANGED <<ring, readable, writable, writeList>>
  BY DEF ReadPends, Pend
<1>2. x \in Statuses /\ "PEND" \in x /\ x # {"BUSY"}
  BY DEF Statuses
<1>3. ReadCall \in Calls /\ ReadCall.op = "read"
  BY DEF ReadCall, Calls
<1> HIDE DEF x
<1>4. /\ Moves(status, status', t, x) /\ status' \in [Tasks -> Statuses]
      /\ call' \in [Tasks -> Calls] /\ call'[t] = ReadCall
      /\ \A u \in Tasks : u # t => call'[u] = call[u]
      /\ \A u \in Tasks : call'[u].op = "write" => call'[u].msg \in Msgs
  BY <1>1, <1>2, <1>3, CallStep
<1>5. /\ status \in [Tasks -> Statuses] /\ status[t] # {"BUSY"} /\ "PEND" \notin status[t]
      /\ ListOf(readList, status, call, "read") /\ ListOf(writeList, status, call, "write")
  BY <1>1 DEF IInv
<1>6. ListOf(readList', status', call', "read")
  BY <1>1, <1>2, <1>3, <1>4, <1>5, JoinFacts
<1>7. ListOf(writeList, status', call', "write")
  <2>1. x = {} \/ call'[t].op # "write"
    BY <1>3, <1>4
  <2>2. ListOf(writeList, status, call, "write") /\ status \in [Tasks -> Statuses]
    BY <1>5
  <2>3. "PEND" \notin status[t] /\ Moves(status, status', t, x)
    BY <1>4, <1>5
  <2>4. \A u \in Tasks : u # t => call'[u] = call[u]
    BY <1>4
  <2> QED BY <2>1, <2>2, <2>3, <2>4, OutsideFacts
<1>8. /\ BusyIn(status', call', "read") = BusyIn(status, call, "read")
      /\ BusyIn(status', call', "write") = BusyIn(status, call, "write")
  BY <1>2, <1>4, <1>5, BusyKept
<1>9. RingOK' /\ Used' = Used
  BY <1>1 DEF IInv, RingOK, OneRun, ring, Used
<1> QED BY <1>1, <1>4, <1>6, <1>7, <1>8, <1>9 DEF IInv

LEMMA WritePendsStep ==
  ASSUME IInv, NEW t \in Tasks, NEW w \in Msgs, NEW urgent \in BOOLEAN,
         NEW timed \in BOOLEAN, WritePends(t, w, urgent, timed)
  PROVE  IInv'
<1> DEFINE x == IF timed THEN {"PEND", "TIMEOUT"} ELSE {"PEND"}
           d == WriteCall(w, urgent)
<1>1. /\ status[t] = {} /\ status' = [status EXCEPT ![t] = x] /\ writable = 0
      /\ call' = [call EXCEPT ![t] = d] /\ writeList' = Append(writeList, t)
      /\ UNCHANGED <<ring, readable, writable, readList>>
  BY DEF WritePends, Pend
<1>2. x \in Statuses /\ "PEND" \in x /\ x # {"BUSY"}
  BY DEF Statuses
<1>3. d \in Calls /\ d.op = "write" /\ d.msg \in Msgs
  BY DEF WriteCall, Calls
<1> HIDE DEF x, d
<1>4. /\ Moves(status, status', t, x) /\ status' \in [Tasks -> Statuses]
      /\ call' \in [Tasks -> Calls] /\ call'[t] = d
      /\ \A u \in Tasks : u # t => call'[u] = call[u]
      /\ \A u \in Tasks : call'[u].op = "write" => call'[u].msg \in Msgs
  BY <1>1, <1>2, <1>3, CallStep
<1>5. /\ status \in [Tasks -> Statuses] /\ status[t] # {"BUSY"} /\ "PEND" \notin status[t]
      /\ ListOf(readList, status, call, "read") /\ ListOf(writeList, status, call, "write")
  BY <1>1 DEF IInv
<1>6. ListOf(writeList', status', call', "write")
  BY <1>1, <1>2, <1>3, <1>4, <1>5, JoinFacts
<1>7. ListOf(readList, status', call', "read")
  <2>1. x = {} \/ call'[t].op # "read"
    BY <1>3, <1>4
  <2>2. ListOf(readList, status, call, "read") /\ status \in [Tasks -> Statuses]
    BY <1>5
  <2>3. "PEND" \notin status[t] /\ Moves(status, status', t, x)
    BY <1>4, <1>5
  <2>4. \A u \in Tasks : u # t => call'[u] = call[u]
    BY <1>4
  <2> QED BY <2>1, <2>2, <2>3, <2>4, OutsideFacts
<1>8. /\ BusyIn(status', call', "read") = BusyIn(status, call, "read")
      /\ BusyIn(status', call', "write") = BusyIn(status, call, "write")
  BY <1>2, <1>4, <1>5, BusyKept
<1>9. RingOK' /\ Used' = Used
  BY <1>1 DEF IInv, RingOK, OneRun, ring, Used
<1> QED BY <1>1, <1>4, <1>6, <1>7, <1>8, <1>9 DEF IInv

LEMMA StepIInv == IInv /\ [Next]_vars => IInv'
<1> SUFFICES ASSUME IInv, [Next]_vars PROVE IInv'
  OBVIOUS
<1>1. CASE ReadNow
  BY <1>1, ReadNowStep
<1>2. CASE Write
  BY <1>2, WriteNowStep DEF Write
<1>3. ASSUME NEW t \in Tasks, Resumes(t)
      PROVE  IInv'
  BY <1>3, ReadResumesStep, WriteResumesStep, TimedOutStep DEF Resumes
<1>4. ASSUME NEW t \in Tasks, TimerExpires(t)
      PROVE  IInv'
  BY <1>4, TimerExpiresStep
<1>5. ASSUME NEW t \in Tasks, NEW timed \in BOOLEAN, ReadPends(t, timed)
      PROVE  IInv'
  BY <1>5, ReadPendsStep
<1>6. ASSUME NEW t \in Tasks, NEW timed \in BOOLEAN, NEW m \in Msgs,
             NEW urgent \in BOOLEAN, WritePends(t, m, urgent, timed)
      PROVE  IInv'
  BY <1>6, WritePendsStep
<1>7. CASE UNCHANGED vars
  BY <1>7 DEF vars, ring, IInv, RingOK, OneRun, Used, ListOf, BusyIn
<1> QED BY <1>1, <1>2, <1>3, <1>4, <1>5, <1>6, <1>7 DEF Next

LEMMA Invariance == Spec => []IInv
<1>1. Init => IInv
  BY InitIInv
<1>2. IInv /\ [Next]_vars => IInv'
  BY StepIInv
<1> QED BY <1>1, <1>2, PTL DEF Spec

\* The set of the woken tasks of a call, as the specification writes it.
LEMMA WokenIsBusy == \A op : Woken(op) = BusyIn(status, call, op)
BY DEF Woken, Granted, BusyIn

\* The indices of the ring and the counts of prt_queue.c stay in range.
THEOREM QueueTypeCorrect == Spec => []TypeOK
<1>1. IInv => TypeOK
  <2> SUFFICES ASSUME IInv PROVE TypeOK
    OBVIOUS
  <2>1. readable \in 0..NodeNum /\ writable \in 0..NodeNum
    <3>1. /\ Cardinality(BusyIn(status, call, "read")) \in Nat
          /\ Cardinality(BusyIn(status, call, "write")) \in Nat
      BY BusyFacts
    <3>2. Cardinality(Used) \in 0..NodeNum /\ NodeNum \in Nat
      BY NodesFacts, NodeNumOK
    <3>3. /\ readable \in Nat /\ writable \in Nat
          /\ readable + Cardinality(BusyIn(status, call, "read")) = Cardinality(Used)
          /\ writable + Cardinality(BusyIn(status, call, "write")) = NodeNum - Cardinality(Used)
      BY DEF IInv
    <3> QED BY <3>1, <3>2, <3>3
  <2>2. readList \in Seq(Tasks) /\ writeList \in Seq(Tasks)
    BY DEF IInv, ListOf
  <2> QED BY <2>1, <2>2 DEF IInv, RingOK, TypeOK
<1> QED BY <1>1, Invariance, PTL

\* The hand-off of OsQueuePendNeedProc keeps the books: each message and each
\* free node is counted or held back for one woken task, for any ring and any
\* number of tasks.
THEOREM ClaimsAreKept == Spec => []NodesAreClaimedOnce
<1>1. IInv => NodesAreClaimedOnce
  BY WokenIsBusy DEF IInv, NodesAreClaimedOnce
<1> QED BY <1>1, Invariance, PTL

\* No write of prt_queue.c, normal or urgent, meets an unread message: the
\* messages are always one run of the ring.
THEOREM MessagesStayInOneRun == Spec => []MessagesInOneRun
<1>1. IInv => MessagesInOneRun
  <2> SUFFICES ASSUME IInv PROVE MessagesInOneRun
    OBVIOUS
  <2>1. readable + Cardinality(Woken("read")) = Cardinality(Used)
    BY WokenIsBusy DEF IInv
  <2>2. Cardinality(Used) > 0 <=> Used # {}
    BY NodesFacts, FS_EmptySet
  <2> QED BY <2>1, <2>2 DEF IInv, RingOK, OneRun, MessagesInOneRun
<1> QED BY <1>1, Invariance, PTL

\* The lists of a queue hold exactly the tasks pended on it, and none of them
\* sleeps while there is something for it.
THEOREM WaitersStayListed == Spec => []WaitersAreListed
<1>1. IInv => WaitersAreListed
  BY DEF IInv, ListOf, WaitersAreListed
<1> QED BY <1>1, Invariance, PTL

\* nodePeak is the high-water mark of the queue.
THEOREM PeakIsExact == Spec => []PeakIsHighest
<1>1. IInv => PeakIsHighest
  BY DEF IInv, RingOK, PeakIsHighest
<1> QED BY <1>1, Invariance, PTL

(***************************************************************************)
(* The queue implements UrgentQueue.                                       *)
(***************************************************************************)

\* queueTail is as many nodes after queueHead as there are messages.
LEMMA RunTail ==
  ASSUME NEW h \in Nodes, NEW t \in Nodes, NEW U, OneRun(U, h, t), IsFiniteSet(U)
  PROVE  t = Around(h + Cardinality(U))
<1> USE NodeNumOK DEF Nodes
<1>1. CASE U = {}
  <2>1. h = t
    <3>1. ~ (h < t)
      BY <1>1 DEF OneRun
    <3>2. ASSUME t < h PROVE FALSE
      <4>1. U = Nodes \ (t..(h - 1))
        BY <3>2 DEF OneRun
      <4>2. h \in U
        BY <4>1
      <4> QED BY <4>2, <1>1
    <3> QED BY <3>1, <3>2
  <2>2. Cardinality(U) = 0
    BY <1>1, FS_EmptySet
  <2> QED BY <2>1, <2>2 DEF Around
<1>2. CASE U # {}
  <2>1. Cardinality(U) = Span(h, t)
    BY <1>2, RunSpan
  <2> QED BY <2>1 DEF Span, Around
<1> QED BY <1>1, <1>2

LEMMA AroundFacts ==
  ASSUME NEW h \in Nodes, NEW n \in 0..NodeNum
  PROVE  /\ \A i \in 1..n : Around(h + i - 1) \in Nodes
         /\ Around(h) = h
         /\ n < NodeNum => \A i \in 1..n : Around(h + i - 1) # Around(h + n)
         /\ n < NodeNum => \A i \in 1..n : /\ Around(h + i - 1) # Pred(h)
                                         /\ Around(Pred(h) + i) = Around(h + i - 1)
         /\ n > 0 => \A i \in 1..(n - 1) : /\ Around(h + i) # h
                                         /\ Around(Succ(h) + i - 1) = Around(h + i)
<1> USE NodeNumOK DEF Nodes
<1>1. \A i \in 1..n : Around(h + i - 1) \in Nodes
  BY DEF Around
<1>2. Around(h) = h
  BY DEF Around
<1>3. n < NodeNum => \A i \in 1..n : Around(h + i - 1) # Around(h + n)
  BY DEF Around
<1>4. n < NodeNum => \A i \in 1..n : /\ Around(h + i - 1) # Pred(h)
                                     /\ Around(Pred(h) + i) = Around(h + i - 1)
  BY DEF Around, Pred
<1>5. n > 0 => \A i \in 1..(n - 1) : /\ Around(h + i) # h
                                     /\ Around(Succ(h) + i - 1) = Around(h + i)
  BY DEF Around, Succ
<1> QED BY <1>1, <1>2, <1>3, <1>4, <1>5

\* The content is a sequence as long as there are messages.
ContentOK ==
  /\ Content \in Seq(Msgs \cup {Invalid}) /\ Len(Content) = Cardinality(Used)
  /\ \A i \in 1..Cardinality(Used) : Content[i] = node[Around(head + i - 1)]

LEMMA ContentType == RingOK => ContentOK
<1> SUFFICES ASSUME RingOK PROVE ContentOK
  OBVIOUS
<1>1. Cardinality(Used) \in 0..NodeNum /\ head \in Nodes /\ Cardinality(Used) \in Nat
  BY NodesFacts, NodeNumOK DEF RingOK
<1>2. \A i \in 1..Cardinality(Used) : Around(head + i - 1) \in Nodes
  BY <1>1, AroundFacts
<1>3. \A i \in 1..Cardinality(Used) : node[Around(head + i - 1)] \in Msgs \cup {Invalid}
  BY <1>2 DEF RingOK
<1> QED BY <1>1, <1>3 DEF Content, ContentOK

\* A read takes the first message.
LEMMA FetchTakes ==
  ASSUME RingOK, Used # {}, Fetch
  PROVE  Abstract!Take
<1> DEFINE n == Cardinality(Used)
           S == Msgs \cup {Invalid}
<1>1. RingOK' /\ Cardinality(Used') = n - 1
  BY FetchKeepsRing
<1>2. n \in 1..NodeNum
  BY NodesFacts, FS_EmptySet
<1>3. /\ Content \in Seq(S) /\ Len(Content) = n
      /\ \A i \in 1..n : Content[i] = node[Around(head + i - 1)]
  BY ContentType DEF ContentOK
<1>4. /\ Content' \in Seq(S) /\ Len(Content') = n - 1
      /\ \A i \in 1..(n - 1) : Content'[i] = node'[Around(head' + i - 1)]
  <2>1. ContentOK'
    BY <1>1, ContentType, PTL
  <2> QED BY <1>1, <2>1 DEF ContentOK
<1> HIDE DEF n, S
<1>5. head \in Nodes /\ head' = Succ(head) /\ node' = [node EXCEPT ![head] = Invalid]
  BY DEF RingOK, Fetch
<1>6. ASSUME NEW i \in 1..(n - 1)
      PROVE  Content'[i] = Content[i + 1]
  <2>1. Around(head + i) # head /\ Around(Succ(head) + i - 1) = Around(head + i)
    BY <1>2, <1>5, AroundFacts
  <2>2. Around(head + (i + 1) - 1) \in Nodes /\ head + (i + 1) - 1 = head + i
    BY <1>2, <1>5, AroundFacts DEF Nodes
  <2>3. Content[i + 1] = node[Around(head + i)]
    BY <1>2, <1>3, <2>2
  <2>4. Content'[i] = node'[Around(head + i)]
    BY <1>4, <1>5, <2>1
  <2>5. node'[Around(head + i)] = node[Around(head + i)]
    BY <1>5, <2>1, <2>2 DEF RingOK
  <2> QED BY <2>3, <2>4, <2>5
<1>7. Content # << >>
  BY <1>2, <1>3
<1>8. /\ Tail(Content) \in Seq(S) /\ Len(Tail(Content)) = n - 1
      /\ \A i \in 1..(n - 1) : Tail(Content)[i] = Content[i + 1]
  BY <1>2, <1>3, <1>7, HeadTailProperties
<1>9. Content' = Tail(Content)
  BY <1>4, <1>6, <1>8, SeqEqual
<1> QED BY <1>7, <1>9 DEF Abstract!Take

\* A normal write appends its message.
LEMMA StoreNormalPuts ==
  ASSUME RingOK, Used # Nodes, NEW m \in Msgs, Store(m, FALSE)
  PROVE  Abstract!Put(m)
<1> DEFINE n == Cardinality(Used)
           S == Msgs \cup {Invalid}
<1>1. RingOK' /\ Cardinality(Used') = n + 1
  BY StoreKeepsRing
<1>2. n \in 0..(NodeNum - 1) /\ n \in 0..NodeNum /\ n < NodeNum
  BY NodesFacts, NodeNumOK
<1>3. /\ Content \in Seq(S) /\ Len(Content) = n
      /\ \A i \in 1..n : Content[i] = node[Around(head + i - 1)]
  BY ContentType DEF ContentOK
<1>4. /\ Content' \in Seq(S) /\ Len(Content') = n + 1
      /\ \A i \in 1..(n + 1) : Content'[i] = node'[Around(head' + i - 1)]
  <2>1. ContentOK'
    BY <1>1, ContentType, PTL
  <2> QED BY <1>1, <2>1 DEF ContentOK
<1>5. tail = Around(head + n)
  BY RunTail, NodesFacts DEF RingOK
<1> HIDE DEF n, S
<1>6. /\ head \in Nodes /\ tail \in Nodes /\ node \in [Nodes -> Msgs \cup {Invalid}]
      /\ head' = head /\ node' = [node EXCEPT ![tail] = m]
  BY DEF RingOK, Store
<1>7. ASSUME NEW i \in 1..n
      PROVE  Content'[i] = Content[i]
  <2>1. Around(head + i - 1) \in Nodes /\ Around(head + i - 1) # tail
    BY <1>2, <1>5, <1>6, AroundFacts
  <2>2. node'[Around(head + i - 1)] = node[Around(head + i - 1)]
    BY <1>6, <2>1
  <2>3. i \in 1..(n + 1)
    BY <1>2
  <2> QED BY <1>3, <1>4, <1>6, <2>2, <2>3
<1>8. Content'[n + 1] = m
  <2>1. Content'[n + 1] = node'[Around(head + (n + 1) - 1)]
    BY <1>2, <1>4, <1>6
  <2>2. head + (n + 1) - 1 = head + n
    BY <1>2, <1>6, NodeNumOK DEF Nodes
  <2> QED BY <1>5, <1>6, <2>1, <2>2
<1>9. m \in S
  BY DEF S
<1>10. /\ Append(Content, m) \in Seq(S) /\ Len(Append(Content, m)) = n + 1
       /\ \A i \in 1..n : Append(Content, m)[i] = Content[i]
       /\ Append(Content, m)[n + 1] = m
  BY <1>3, <1>9, AppendProperties
<1>11. \A i \in 1..(n + 1) : Content'[i] = Append(Content, m)[i]
  BY <1>2, <1>7, <1>8, <1>10
<1>12. Content' = Append(Content, m)
  BY <1>4, <1>10, <1>11, SeqEqual
<1> QED BY <1>2, <1>3, <1>12 DEF Abstract!Put

\* An urgent write puts its message in front.
LEMMA StoreUrgentPuts ==
  ASSUME RingOK, Used # Nodes, NEW m \in Msgs, Store(m, TRUE)
  PROVE  Abstract!PutUrgent(m)
<1> DEFINE n == Cardinality(Used)
           S == Msgs \cup {Invalid}
           r == <<m>> \o Content
<1>1. RingOK' /\ Cardinality(Used') = n + 1
  BY StoreKeepsRing
<1>2. n \in 0..(NodeNum - 1) /\ n \in 0..NodeNum /\ n < NodeNum
  BY NodesFacts, NodeNumOK
<1>3. /\ Content \in Seq(S) /\ Len(Content) = n
      /\ \A i \in 1..n : Content[i] = node[Around(head + i - 1)]
  BY ContentType DEF ContentOK
<1>4. /\ Content' \in Seq(S) /\ Len(Content') = n + 1
      /\ \A i \in 1..(n + 1) : Content'[i] = node'[Around(head' + i - 1)]
  <2>1. ContentOK'
    BY <1>1, ContentType, PTL
  <2> QED BY <1>1, <2>1 DEF ContentOK
<1>5. m \in S
  OBVIOUS
<1>6. <<m>> \in Seq(S) /\ Len(<<m>>) = 1 /\ <<m>>[1] = m
  BY <1>5
<1>7. /\ r \in Seq(S) /\ Len(r) = n + 1 /\ r[1] = m
      /\ \A i \in 2..(n + 1) : r[i] = Content[i - 1]
  <2>1. /\ r \in Seq(S) /\ Len(r) = 1 + n
        /\ \A i \in 1..(1 + n) : r[i] = IF i <= 1 THEN <<m>>[i] ELSE Content[i - 1]
    BY <1>3, <1>6, ConcatProperties
  <2> QED BY <1>2, <1>6, <2>1
<1> HIDE DEF n, S, r
<1>8. /\ head \in Nodes /\ node \in [Nodes -> Msgs \cup {Invalid}]
      /\ head' = Pred(head) /\ node' = [node EXCEPT ![Pred(head)] = m]
      /\ Pred(head) \in Nodes
  BY RunPrepend DEF RingOK, Store
<1>9. Content'[1] = m
  <2>1. Pred(head) + 1 - 1 = Pred(head) /\ Pred(head) < NodeNum
    BY <1>8, NodeNumOK DEF Nodes
  <2>2. Around(Pred(head)) = Pred(head)
    BY <2>1 DEF Around
  <2>3. Content'[1] = node'[Around(Pred(head) + 1 - 1)]
    BY <1>2, <1>4, <1>8
  <2> QED BY <1>8, <2>1, <2>2, <2>3
<1>10. ASSUME NEW i \in 2..(n + 1)
       PROVE  Content'[i] = Content[i - 1]
  <2>1. i - 1 \in 1..n /\ i \in 1..(n + 1)
    BY <1>2
  <2>2. /\ Around(head + (i - 1) - 1) \in Nodes /\ Around(head + (i - 1) - 1) # Pred(head)
        /\ Around(Pred(head) + (i - 1)) = Around(head + (i - 1) - 1)
    BY <1>2, <1>8, <2>1, AroundFacts
  <2>3. Pred(head) + i - 1 = Pred(head) + (i - 1)
    BY <1>8, <2>1, NodeNumOK DEF Nodes
  <2>4. Content'[i] = node'[Around(head + (i - 1) - 1)]
    BY <1>4, <1>8, <2>1, <2>2, <2>3
  <2>5. Content[i - 1] = node[Around(head + (i - 1) - 1)]
    BY <1>3, <2>1
  <2> QED BY <1>8, <2>2, <2>4, <2>5
<1>11. \A i \in 1..(n + 1) : Content'[i] = r[i]
  <2> TAKE i \in 1..(n + 1)
  <2>1. CASE i = 1
    BY <2>1, <1>7, <1>9
  <2>2. CASE i # 1
    <3>1. i \in 2..(n + 1)
      BY <2>2, <1>2
    <3> QED BY <3>1, <1>7, <1>10
  <2> QED BY <2>1, <2>2
<1>12. Content' = r
  BY <1>4, <1>7, <1>11, SeqEqual
<1> QED BY <1>2, <1>3, <1>12 DEF Abstract!PutUrgent, r

\* A message that is taken or held back is in the ring, a free node not in it.
LEMMA ClaimedForReaders ==
  ASSUME IInv, readable > 0 \/ \E t \in Tasks : Granted(t, "read")
  PROVE  Used # {}
<1>1. Cardinality(BusyIn(status, call, "read")) \in Nat
  BY BusyFacts
<1>2. readable > 0 \/ Cardinality(BusyIn(status, call, "read")) > 0
  BY GrantedFacts
<1>3. Cardinality(Used) > 0
  BY <1>1, <1>2 DEF IInv
<1> QED BY <1>3, FS_EmptySet

LEMMA ClaimedForWriters ==
  ASSUME IInv, writable > 0 \/ \E t \in Tasks : Granted(t, "write")
  PROVE  Used # Nodes
<1>1. Cardinality(BusyIn(status, call, "write")) \in Nat
  BY BusyFacts
<1>2. writable > 0 \/ Cardinality(BusyIn(status, call, "write")) > 0
  BY GrantedFacts
<1>3. Cardinality(Used) < NodeNum
  <2>1. Cardinality(Used) \in Nat /\ NodeNum \in Nat
    BY NodesFacts, NodeNumOK
  <2> QED BY <1>1, <1>2, <2>1 DEF IInv
<1> QED BY <1>3, NodesFacts, NodeNumOK

LEMMA StorePuts ==
  ASSUME RingOK, Used # Nodes, NEW m \in Msgs, NEW urgent \in BOOLEAN, Store(m, urgent)
  PROVE  Abstract!Next
<1>1. CASE urgent = TRUE
  <2>1. Abstract!PutUrgent(m)
    BY <1>1, StoreUrgentPuts
  <2> QED BY <2>1 DEF Abstract!Next
<1>2. CASE urgent = FALSE
  <2>1. Abstract!Put(m)
    BY <1>2, StoreNormalPuts
  <2> QED BY <2>1 DEF Abstract!Next
<1> QED BY <1>1, <1>2

LEMMA StepsArePutOrTake == IInv /\ [Next]_vars => [Abstract!Next]_Content
<1> SUFFICES ASSUME IInv, [Next]_vars PROVE [Abstract!Next]_Content
  OBVIOUS
<1>1. CASE ReadNow
  <2>1. Used # {} /\ Fetch /\ RingOK
    BY <1>1, ClaimedForReaders DEF ReadNow, IInv
  <2>2. Abstract!Take
    BY <2>1, FetchTakes
  <2> QED BY <2>2 DEF Abstract!Next
<1>2. ASSUME NEW m \in Msgs, NEW urgent \in BOOLEAN, WriteNow(m, urgent)
      PROVE  Abstract!Next
  <2>1. Used # Nodes /\ Store(m, urgent) /\ RingOK
    BY <1>2, ClaimedForWriters DEF WriteNow, IInv
  <2> QED BY <2>1, StorePuts
<1>3. ASSUME NEW t \in Tasks, ReadResumes(t)
      PROVE  Abstract!Next
  <2>1. Used # {} /\ Fetch /\ RingOK
    BY <1>3, ClaimedForReaders DEF ReadResumes, IInv
  <2>2. Abstract!Take
    BY <2>1, FetchTakes
  <2> QED BY <2>2 DEF Abstract!Next
<1>4. ASSUME NEW t \in Tasks, WriteResumes(t)
      PROVE  Abstract!Next
  <2>1. Used # Nodes /\ Store(call[t].msg, call[t].urgent) /\ RingOK
    BY <1>4, ClaimedForWriters DEF WriteResumes, IInv
  <2>2. call[t].op = "write" /\ call[t] \in Calls
    BY <1>4 DEF WriteResumes, Granted, IInv
  <2>3. call[t].msg \in Msgs /\ call[t].urgent \in BOOLEAN
    BY <2>2 DEF IInv, Calls
  <2> QED BY <2>1, <2>3, StorePuts
<1>5. ASSUME UNCHANGED ring
      PROVE  UNCHANGED Content
  BY <1>5 DEF ring, Content, Used
<1>6. ASSUME NEW t \in Tasks, TimedOut(t) \/ TimerExpires(t)
      PROVE  UNCHANGED ring
  BY <1>6 DEF TimedOut, TimerExpires
<1>7. ASSUME NEW t \in Tasks, NEW timed \in BOOLEAN,
             ReadPends(t, timed)
               \/ \E m \in Msgs, urgent \in BOOLEAN : WritePends(t, m, urgent, timed)
      PROVE  UNCHANGED ring
  BY <1>7 DEF ReadPends, WritePends
<1>8. CASE UNCHANGED vars
  BY <1>8, <1>5 DEF vars
<1> QED BY <1>1, <1>2, <1>3, <1>4, <1>5, <1>6, <1>7, <1>8 DEF Next, Write, Resumes

\* For every number of nodes, tasks and messages the ring, the counts and the
\* hand-off of prt_queue.c behave as the bounded queue with urgent messages.
THEOREM QueueImplementsUrgentQueue == Spec => ImplementsUrgentQueue
<1>1. Init => Abstract!Init
  <2> SUFFICES ASSUME Init PROVE Abstract!Init
    OBVIOUS
  <2>1. Used = {}
    BY DEF Init, Used
  <2>2. Cardinality(Used) = 0
    BY <2>1, FS_EmptySet
  <2>3. RingOK
    BY InitIInv DEF IInv
  <2>4. Content \in Seq(Msgs \cup {Invalid}) /\ Len(Content) = 0
    BY <2>2, <2>3, ContentType DEF ContentOK
  <2> QED BY <2>4 DEF Abstract!Init
<1>2. IInv /\ [Next]_vars => [Abstract!Next]_Content
  BY StepsArePutOrTake
<1> QED BY <1>1, <1>2, Invariance, PTL DEF Spec, Abstract!Spec, ImplementsUrgentQueue
=============================================================================
