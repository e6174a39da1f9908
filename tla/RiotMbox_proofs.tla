---------------------------- MODULE RiotMbox_proofs ----------------------------
(***************************************************************************)
(* Theorems about RiotMbox, for every finite set of threads, all           *)
(* priorities, every size of the mailbox and any number of messages.       *)
(***************************************************************************)
EXTENDS RiotMbox, RiotSched_proofs

(***************************************************************************)
(* The invariant.                                                          *)
(***************************************************************************)

Listed(r, w) == {t \in Threads : Contains(r, t) \/ Contains(w, t)}

\* The woken writers: their messages are still to be queued.
Claims(s, w) == {t \in Threads : s[t] # 0 /\ ~Contains(w, t)}

\* The kernel: who waits for the mailbox and who rests.
KernelIs(kk, waiting, resting) ==
  /\ KernelOK(kk) /\ Urgent(kk, {}) /\ kk.prio = Prio
  /\ Sleepers(kk, "mbox") = waiting /\ Sleepers(kk, "sleeping") = resting
  /\ \A s \in Blocked \ {"mbox", "sleeping"} : Sleepers(kk, s) = {}

KernelPart ==
  \E resting \in SUBSET Threads :
    /\ KernelIs(k, Listed(readers, writers), resting)
    /\ \A t \in resting : sending[t] = 0

\* A thread is in one list at most, and has a message only as a writer.
ListsPart ==
  /\ NoDuplicates(readers) /\ NoDuplicates(writers)
  /\ \A t \in Threads : /\ Contains(readers, t) => sending[t] = 0
                        /\ Contains(writers, t) => sending[t] # 0
                        /\ sending[t] # 0 => t \in Producers

\* The message of a blocked put is accepted once only.
NumbersPart ==
  /\ \A m : Contains(accepted, m) => m <= made
  /\ \A t \in Threads : /\ sending[t] <= made
                        /\ sending[t] # 0 => ~Contains(accepted, sending[t])
  /\ \A t, u \in Threads : t # u /\ sending[t] # 0 => sending[t] # sending[u]

Claimed == writers # << >> => Size - Len(queue) <= Cardinality(Claims(sending, writers))

\* When every producer is more urgent than every consumer, no reader blocks while
\* a woken writer is on its way, and so nothing is handed over that overtakes what
\* is queued: the queue is what has been accepted and not received.
ProducersPreempt == \A p \in Producers, c \in Consumers : Prio[p] < Prio[c]

NothingOvertaken ==
  ProducersPreempt =>
    /\ accepted = received \o queue
    /\ readers # << >> => queue = << >> /\ Claims(sending, writers) = {}

MboxInv ==
  TypeOK /\ KernelPart /\ ListsPart /\ NumbersPart /\ Claimed /\ NothingOvertaken

(***************************************************************************)
(* What the calls do to the kernel.                                        *)
(***************************************************************************)

LEMMA CallersListed ==
  ASSUME NEW w, NEW r, KernelIs(k, w, r), NEW t \in Threads, Calls(k, t)
  PROVE  t \notin w /\ t \notin r /\ IsReady(k, t)
<1>1. IsReady(k, t)
  BY DEF KernelIs, KernelOK
<1>2. k.status[t] # "mbox" /\ k.status[t] # "sleeping"
  BY <1>1 DEF IsReady, OnRunqueue
<1> QED BY <1>1, <1>2 DEF KernelIs, Sleepers

\* Who neither waits nor rests is ready.
LEMMA OthersReady ==
  ASSUME NEW w, NEW r, KernelIs(k, w, r), NEW t \in Threads, t \notin w, t \notin r
  PROVE  IsReady(k, t)
<1>1. k.status[t] \in Blocked \cup OnRunqueue
  BY DEF KernelIs, KernelOK, WellFormed, Kernels
<1>2. \A s \in Blocked : k.status[t] # s
  BY DEF KernelIs, Sleepers
<1> QED BY <1>1, <1>2 DEF IsReady

\* t blocks and yields: it waits for the mailbox, or rests.
LEMMA SleepIs ==
  ASSUME NEW w, NEW r, KernelIs(k, w, r), NEW t \in Threads, Calls(k, t),
         NEW x \in {Yield, YieldHigher}
  PROVE  /\ KernelIs(Ends(SetStatus(k, t, "mbox"), t, x), w \cup {t}, r)
         /\ KernelIs(Ends(SetStatus(k, t, "sleeping"), t, x), w, r \cup {t})
<1>1. /\ x \in TailCalls /\ x # NoTail
      /\ "mbox" \in (Blocked \cup OnRunqueue) \ {"running"}
      /\ "sleeping" \in (Blocked \cup OnRunqueue) \ {"running"}
      /\ "mbox" \in Blocked /\ "sleeping" \in Blocked
  BY TailTypes DEF Yield, YieldHigher, NoTail, Blocked
<1>2. t \notin w /\ t \notin r
  BY CallersListed
<1>3. KernelOK(k) /\ Urgent(k, {})
  BY DEF KernelIs
<1>4. ASSUME NEW s \in {"mbox", "sleeping"}
      PROVE  LET m == Ends(SetStatus(k, t, s), t, x)
             IN /\ KernelOK(m) /\ m.prio = k.prio /\ Urgent(m, {})
                /\ \A q \in Blocked : Sleepers(m, q) = IF q = s THEN Sleepers(k, q) \cup {t}
                                                      ELSE Sleepers(k, q) \ {t}
  BY <1>1, <1>3, CallSleepers, CallUrgent
<1>5. KernelIs(Ends(SetStatus(k, t, "mbox"), t, x), w \cup {t}, r)
  <2> DEFINE m == Ends(SetStatus(k, t, "mbox"), t, x)
  <2>1. /\ KernelOK(m) /\ m.prio = k.prio /\ Urgent(m, {})
        /\ \A q \in Blocked : Sleepers(m, q) = IF q = "mbox" THEN Sleepers(k, q) \cup {t}
                                               ELSE Sleepers(k, q) \ {t}
    BY <1>4
  <2> HIDE DEF m
  <2>2. KernelIs(m, w \cup {t}, r)
    BY <1>1, <1>2, <2>1 DEF KernelIs
  <2> QED BY <2>2 DEF m
<1>6. KernelIs(Ends(SetStatus(k, t, "sleeping"), t, x), w, r \cup {t})
  <2> DEFINE m == Ends(SetStatus(k, t, "sleeping"), t, x)
  <2>1. /\ KernelOK(m) /\ m.prio = k.prio /\ Urgent(m, {})
        /\ \A q \in Blocked : Sleepers(m, q) = IF q = "sleeping" THEN Sleepers(k, q) \cup {t}
                                               ELSE Sleepers(k, q) \ {t}
    BY <1>4
  <2> HIDE DEF m
  <2>2. KernelIs(m, w, r \cup {t})
    BY <1>1, <1>2, <2>1 DEF KernelIs
  <2> QED BY <2>2 DEF m
<1> QED BY <1>5, <1>6

\* u is woken, by a call of t or by an interrupt.
LEMMA WakeIs ==
  ASSUME NEW w, NEW r, KernelIs(k, w, r), NEW u \in Threads
  PROVE  /\ KernelIs(IsrEnd(IsrSwitch(SetStatus(k, u, "pending"), k.prio[u])), w \ {u}, r \ {u})
         /\ \A t \in Threads : Calls(k, t) =>
              KernelIs(Ends(SetStatus(k, u, "pending"), t, Switch(k.prio[u])), w \ {u}, r \ {u})
<1>1. KernelOK(k) /\ Urgent(k, {})
  BY DEF KernelIs
<1>2. /\ "pending" \in (Blocked \cup OnRunqueue) \ {"running"} /\ "pending" \notin Blocked
      /\ "mbox" \in Blocked /\ "sleeping" \in Blocked
  BY DEF Blocked, OnRunqueue
<1>3. Switch(k.prio[u]) \in TailCalls /\ Switch(k.prio[u]) # NoTail
  <2>1. k.prio[u] \in Prios
    BY <1>1 DEF KernelOK, WellFormed, Kernels
  <2> QED BY <2>1, TailTypes DEF Switch, NoTail
<1>4. KernelIs(IsrEnd(IsrSwitch(SetStatus(k, u, "pending"), k.prio[u])), w \ {u}, r \ {u})
  <2> DEFINE m == IsrEnd(IsrSwitch(SetStatus(k, u, "pending"), k.prio[u]))
  <2>1. /\ KernelOK(m) /\ m.prio = k.prio
        /\ \A q \in Blocked : Sleepers(m, q) = Sleepers(k, q) \ {u}
    BY <1>1, IsrSleepers
  <2>2. Urgent(m, {})
    BY <1>1, IsrWakeUrgent
  <2> HIDE DEF m
  <2>3. KernelIs(m, w \ {u}, r \ {u})
    BY <1>2, <2>1, <2>2 DEF KernelIs
  <2> QED BY <2>3 DEF m
<1>5. ASSUME NEW t \in Threads, Calls(k, t)
      PROVE  KernelIs(Ends(SetStatus(k, u, "pending"), t, Switch(k.prio[u])), w \ {u}, r \ {u})
  <2> DEFINE s == "pending"
             x == Switch(k.prio[u])
             m == Ends(SetStatus(k, u, s), t, x)
  <2>0. s \in (Blocked \cup OnRunqueue) \ {"running"} /\ s \notin Blocked
        /\ x \in TailCalls /\ x # NoTail
    BY <1>2, <1>3
  <2> HIDE DEF s, x
  <2>1. /\ KernelOK(m) /\ m.prio = k.prio
        /\ \A q \in Blocked : Sleepers(m, q) = IF q = s THEN Sleepers(k, q) \cup {u}
                                               ELSE Sleepers(k, q) \ {u}
    BY <1>1, <1>5, <2>0, CallSleepers
  <2> USE DEF s, x
  <2>2. Urgent(m, {})
    BY <1>1, <1>2, <1>3, <1>5, CallUrgent
  <2> HIDE DEF m, s, x
  <2>3. KernelIs(m, w \ {u}, r \ {u})
    BY <1>2, <2>0, <2>1, <2>2 DEF KernelIs
  <2> QED BY <2>3 DEF m, s, x
<1> QED BY <1>4, <1>5

LEMMA TailIs ==
  ASSUME NEW w, NEW r, KernelIs(k, w, r), NEW t \in Threads,
         Executes(k, t), k.tail[t] # NoTail
  PROVE  KernelIs(TailCall(k, t), w, r)
<1> DEFINE m == TailCall(k, t)
<1>1. KernelOK(k) /\ Urgent(k, {}) /\ "mbox" \in Blocked /\ "sleeping" \in Blocked
  BY DEF KernelIs, Blocked
<1>2. /\ KernelOK(m) /\ m.prio = k.prio
      /\ \A q \in Blocked : Sleepers(m, q) = Sleepers(k, q)
  BY <1>1, TailSleepers
<1>3. Urgent(m, {})
  BY <1>1, TailUrgent
<1> HIDE DEF m
<1>4. KernelIs(m, w, r)
  BY <1>1, <1>2, <1>3 DEF KernelIs
<1> QED BY <1>4 DEF m

(***************************************************************************)
(* What each kind of step keeps.                                           *)
(***************************************************************************)

LEMMA Types ==
  ASSUME MboxInv
  PROVE  /\ queue \in Seq(Msgs) /\ Len(queue) <= Size /\ Len(queue) \in Nat
         /\ readers \in Seq(Threads) /\ writers \in Seq(Threads)
         /\ sending \in [Threads -> 0..MaxMsgs] /\ made \in 0..MaxMsgs
         /\ accepted \in Seq(Msgs) /\ received \in Seq(Msgs)
         /\ MaxMsgs \in Nat /\ Size \in Nat
         /\ made < MaxMsgs => made + 1 \in Msgs /\ made + 1 \in 0..MaxMsgs
BY PartsOK DEF MboxInv, TypeOK, Msgs

LEMMA KernelTyped ==
  ASSUME NEW kk, NEW w, NEW r, KernelIs(kk, w, r)
  PROVE  kk \in Kernels
BY DEF KernelIs, KernelOK, WellFormed

LEMMA ClaimsFinite ==
  ASSUME NEW s, NEW w
  PROVE  IsFiniteSet(Claims(s, w)) /\ Cardinality(Claims(s, w)) \in Nat
<1>1. Claims(s, w) \in SUBSET Threads
  BY DEF Claims
<1>2. IsFiniteSet(Claims(s, w))
  BY <1>1, PartsOK, FS_Subset
<1> QED BY <1>2, FS_CardinalityType

\* A message that has just been made.
LEMMA Fresh ==
  ASSUME MboxInv, NewMsg
  PROVE  /\ made' \in Msgs /\ made' \in 0..MaxMsgs /\ made' = made + 1 /\ rests' = rests
         /\ ~Contains(accepted, made') /\ \A t \in Threads : sending[t] # made'
<1>1. /\ made \in 0..MaxMsgs /\ made < MaxMsgs /\ made' = made + 1 /\ rests' = rests
      /\ MaxMsgs \in Nat
  BY Types DEF NewMsg
<1>2. \A m : Contains(accepted, m) => m <= made
  BY DEF MboxInv, NumbersPart
<1>3. \A t \in Threads : sending[t] <= made
  BY DEF MboxInv, NumbersPart
<1>4. ~ (made + 1 <= made)
  BY <1>1
<1> QED BY <1>1, <1>2, <1>3, <1>4 DEF Msgs

\* A message goes straight to the first reader.
LEMMA HandOverKeeps ==
  ASSUME MboxInv, NewMsg, HandOver(made'), sending' = sending,
         NEW r \in SUBSET Threads, \A t \in r : sending[t] = 0,
         KernelIs(k', Listed(readers, writers) \ {Head(readers)}, r)
  PROVE  MboxInv'
<1> DEFINE m == made'
<1>1. /\ m \in Msgs /\ m \in 0..MaxMsgs /\ m = made + 1 /\ rests' = rests
      /\ ~Contains(accepted, m) /\ \A t \in Threads : sending[t] # m
  BY Fresh
<1>2. /\ readers # << >> /\ readers' = Tail(readers)
      /\ accepted' = Append(accepted, m) /\ received' = Append(received, m)
      /\ queue' = queue /\ writers' = writers /\ sending' = sending /\ made' = m
  BY DEF HandOver
<1>3. /\ readers \in Seq(Threads) /\ NoDuplicates(readers)
      /\ accepted \in Seq(Msgs) /\ received \in Seq(Msgs) /\ queue \in Seq(Msgs)
  BY Types DEF MboxInv, ListsPart
<1>4. /\ readers' \in Seq(Threads) /\ NoDuplicates(readers')
      /\ Head(readers) \in Threads /\ Contains(readers, Head(readers))
      /\ \A x : Contains(readers', x) <=> (x # Head(readers) /\ Contains(readers, x))
  BY <1>2, <1>3, TailFacts
<1>5. /\ accepted' \in Seq(Msgs) /\ \A x : Contains(accepted', x) <=> (x = m \/ Contains(accepted, x))
  BY <1>1, <1>2, <1>3, GrowFacts
<1>6. received' \in Seq(Msgs)
  BY <1>1, <1>2, <1>3, GrowFacts
<1>7. TypeOK'
  <2>1. k' \in Kernels
    BY KernelTyped
  <2> HIDE DEF m
  <2> QED BY <1>1, <1>2, <1>4, <1>5, <1>6, <2>1 DEF MboxInv, TypeOK
<1>8. KernelPart'
  <2>1. ~Contains(writers, Head(readers))
    BY <1>4 DEF MboxInv, ListsPart
  <2>2. Listed(readers', writers') = Listed(readers, writers) \ {Head(readers)}
    BY <1>2, <1>4, <2>1 DEF Listed
  <2> QED BY <1>2, <2>2 DEF KernelPart
<1>9. ListsPart'
  BY <1>2, <1>4 DEF MboxInv, ListsPart
<1> HIDE DEF m
<1>10. NumbersPart'
  <2>1. made \in Nat /\ \A t \in Threads : sending[t] \in Nat
    BY Types
  <2>2. \A x : Contains(accepted', x) => x <= m
    <3> TAKE x
    <3>1. CASE x = m
      BY <1>1, <2>1, <3>1
    <3>2. CASE Contains(accepted, x)
      <4>1. x <= made /\ x \in Msgs
        BY <1>3, <3>2 DEF MboxInv, NumbersPart, Contains
      <4> QED BY <1>1, <2>1, <4>1 DEF Msgs
    <3> QED BY <1>5, <3>1, <3>2
  <2> QED BY <1>1, <1>2, <1>5, <2>1, <2>2 DEF MboxInv, NumbersPart
<1>11. Claimed'
  BY <1>2 DEF MboxInv, Claimed
<1>12. NothingOvertaken'
  <2> SUFFICES ASSUME ProducersPreempt
               PROVE  accepted' = received' \o queue' /\ queue' = << >> /\ Claims(sending', writers') = {}
    BY DEF NothingOvertaken, ProducersPreempt
  <2>1. accepted = received \o queue /\ queue = << >> /\ Claims(sending, writers) = {}
    BY <1>2 DEF MboxInv, NothingOvertaken
  <2>2. accepted = received /\ received' \o queue = received'
    BY <1>3, <1>6, <2>1, ConcatEmptySeq
  <2> QED BY <1>2, <2>1, <2>2
<1> QED BY <1>7, <1>8, <1>9, <1>10, <1>11, <1>12 DEF MboxInv

\* A message that has just been made goes into the queue.
LEMMA EnqueueKeeps ==
  ASSUME MboxInv, NewMsg, readers = << >>, Enqueue(made'), UNCHANGED <<k, sending>>
  PROVE  MboxInv'
<1> DEFINE m == made'
<1>1. /\ m \in Msgs /\ m \in 0..MaxMsgs /\ m = made + 1 /\ rests' = rests
      /\ ~Contains(accepted, m) /\ \A t \in Threads : sending[t] # m
  BY Fresh
<1>2. /\ ~Full /\ queue' = Append(queue, m) /\ accepted' = Append(accepted, m)
      /\ received' = received /\ readers' = readers /\ writers' = writers
      /\ sending' = sending /\ k' = k /\ made' = m
  BY DEF Enqueue
<1>3. /\ accepted \in Seq(Msgs) /\ received \in Seq(Msgs) /\ queue \in Seq(Msgs)
      /\ Len(queue) \in Nat /\ Size \in Nat
  BY Types
<1>4. /\ accepted' \in Seq(Msgs) /\ \A x : Contains(accepted', x) <=> (x = m \/ Contains(accepted, x))
  BY <1>1, <1>2, <1>3, GrowFacts
<1>5. queue' \in Seq(Msgs) /\ Len(queue') = Len(queue) + 1
  BY <1>1, <1>2, <1>3, GrowFacts
<1> HIDE DEF m
<1>6. TypeOK'
  <2>1. Len(queue') <= Size
    BY <1>2, <1>3, <1>5 DEF Full
  <2> QED BY <1>1, <1>2, <1>4, <1>5, <2>1 DEF MboxInv, TypeOK
<1>7. KernelPart' /\ ListsPart'
  BY <1>2 DEF MboxInv, KernelPart, ListsPart
<1>8. NumbersPart'
  <2>1. made \in Nat /\ \A t \in Threads : sending[t] \in Nat
    BY Types
  <2>2. \A x : Contains(accepted', x) => x <= m
    <3> TAKE x
    <3>1. CASE x = m
      BY <1>1, <2>1, <3>1
    <3>2. CASE Contains(accepted, x)
      <4>1. x <= made /\ x \in Msgs
        BY <1>3, <3>2 DEF MboxInv, NumbersPart, Contains
      <4> QED BY <1>1, <2>1, <4>1 DEF Msgs
    <3> QED BY <1>4, <3>1, <3>2
  <2> QED BY <1>1, <1>2, <1>4, <2>1, <2>2 DEF MboxInv, NumbersPart
<1>9. Claimed'
  <2>1. Cardinality(Claims(sending, writers)) \in Nat
    BY ClaimsFinite
  <2> QED BY <1>2, <1>3, <1>5, <2>1 DEF MboxInv, Claimed
<1>10. NothingOvertaken'
  <2> SUFFICES ASSUME ProducersPreempt
               PROVE  accepted' = received' \o queue'
    BY <1>2 DEF NothingOvertaken, ProducersPreempt
  <2>1. accepted = received \o queue
    BY DEF MboxInv, NothingOvertaken
  <2>2. Append(received \o queue, m) = received \o Append(queue, m)
    <3>1. received \in Seq(Msgs) /\ queue \in Seq(Msgs) /\ m \in Msgs
      BY <1>1, <1>3
    <3>2. /\ received \o queue \in Seq(Msgs) /\ <<m>> \in Seq(Msgs)
          /\ Append(received \o queue, m) = (received \o queue) \o <<m>>
          /\ Append(queue, m) = queue \o <<m>>
      BY <3>1, ConcatProperties, AppendIsConcat
    <3> QED BY <3>1, <3>2, ConcatAssociative
  <2> QED BY <1>1, <1>2, <2>1, <2>2
<1> QED BY <1>6, <1>7, <1>8, <1>9, <1>10 DEF MboxInv

\* A woken writer finds a place for its message.
LEMMA ClaimKeeps ==
  ASSUME MboxInv, NEW t \in Threads, Calls(k, t), sending[t] # 0, Enqueue(sending[t]),
         sending' = [sending EXCEPT ![t] = 0], UNCHANGED <<k, made, rests>>
  PROVE  MboxInv'
<1> DEFINE m == sending[t]
<1>1. PICK r \in SUBSET Threads :
        KernelIs(k, Listed(readers, writers), r) /\ \A u \in r : sending[u] = 0
  BY DEF MboxInv, KernelPart
<1>2. ~Contains(readers, t) /\ ~Contains(writers, t)
  BY <1>1, CallersListed DEF Listed
<1>3. /\ accepted \in Seq(Msgs) /\ received \in Seq(Msgs) /\ queue \in Seq(Msgs)
      /\ Len(queue) \in Nat /\ Size \in Nat /\ MaxMsgs \in Nat
      /\ sending \in [Threads -> 0..MaxMsgs]
  BY Types
<1>4. /\ m \in Msgs /\ m <= made /\ ~Contains(accepted, m)
      /\ \A u \in Threads : u # t => sending[u] # m
  BY <1>3 DEF MboxInv, NumbersPart, Msgs
<1>5. /\ ~Full /\ queue' = Append(queue, m) /\ accepted' = Append(accepted, m)
      /\ received' = received /\ readers' = readers /\ writers' = writers
      /\ k' = k /\ made' = made /\ rests' = rests
  BY DEF Enqueue
<1>6. /\ accepted' \in Seq(Msgs) /\ \A x : Contains(accepted', x) <=> (x = m \/ Contains(accepted, x))
  BY <1>3, <1>4, <1>5, GrowFacts
<1>7. queue' \in Seq(Msgs) /\ Len(queue') = Len(queue) + 1
  BY <1>3, <1>4, <1>5, GrowFacts
<1> HIDE DEF m
<1>8. /\ sending' \in [Threads -> 0..MaxMsgs]
      /\ sending'[t] = 0 /\ \A u \in Threads : u # t => sending'[u] = sending[u]
  BY <1>3
<1>9. TypeOK'
  <2>1. Len(queue') <= Size
    BY <1>3, <1>5, <1>7 DEF Full
  <2> QED BY <1>5, <1>6, <1>7, <1>8, <2>1 DEF MboxInv, TypeOK
<1>10. KernelPart'
  <2>1. \A u \in r : sending'[u] = 0
    BY <1>1, <1>8
  <2> QED BY <1>1, <1>5, <2>1 DEF KernelPart
<1>11. ListsPart'
  BY <1>2, <1>5, <1>8 DEF MboxInv, ListsPart
<1>12. NumbersPart'
  <2>1. 0 <= made
    BY Types
  <2> QED BY <1>4, <1>5, <1>6, <1>8, <2>1 DEF MboxInv, NumbersPart
<1>13. /\ t \in Claims(sending, writers)
       /\ Claims(sending', writers') = Claims(sending, writers) \ {t}
  BY <1>2, <1>5, <1>8 DEF Claims
<1>14. Claimed'
  <2>1. /\ Cardinality(Claims(sending', writers')) = Cardinality(Claims(sending, writers)) - 1
        /\ Cardinality(Claims(sending, writers)) \in Nat
    BY <1>13, ClaimsFinite, FS_RemoveElement
  <2> QED BY <1>3, <1>5, <1>7, <2>1 DEF MboxInv, Claimed
<1>15. NothingOvertaken'
  <2> SUFFICES ASSUME ProducersPreempt
               PROVE  accepted' = received' \o queue' /\ readers' = << >>
    BY DEF NothingOvertaken, ProducersPreempt
  <2>1. accepted = received \o queue /\ readers = << >>
    BY <1>13 DEF MboxInv, NothingOvertaken
  <2>2. Append(received \o queue, m) = received \o Append(queue, m)
    <3>1. received \in Seq(Msgs) /\ queue \in Seq(Msgs) /\ m \in Msgs
      BY <1>3, <1>4
    <3>2. /\ received \o queue \in Seq(Msgs) /\ <<m>> \in Seq(Msgs)
          /\ Append(received \o queue, m) = (received \o queue) \o <<m>>
          /\ Append(queue, m) = queue \o <<m>>
      BY <3>1, ConcatProperties, AppendIsConcat
    <3> QED BY <3>1, <3>2, ConcatAssociative
  <2> QED BY <1>4, <1>5, <2>1, <2>2
<1> QED BY <1>9, <1>10, <1>11, <1>12, <1>14, <1>15 DEF MboxInv

\* The oldest message is received, and the first writer is woken.
LEMMA DequeueKeeps ==
  ASSUME MboxInv, Dequeue, UNCHANGED <<sending, made, rests>>,
         NEW r \in SUBSET Threads, \A t \in r : sending[t] = 0,
         KernelIs(k', Listed(readers, writers)
                        \ (IF writers = << >> THEN {} ELSE {Head(writers)}), r)
  PROVE  MboxInv'
<1>1. /\ queue # << >> /\ queue' = Tail(queue)
      /\ received' = Append(received, Head(queue))
      /\ writers' = IF writers = << >> THEN << >> ELSE Tail(writers)
      /\ readers' = readers /\ accepted' = accepted
      /\ sending' = sending /\ made' = made /\ rests' = rests
  BY DEF Dequeue
<1>2. /\ accepted \in Seq(Msgs) /\ received \in Seq(Msgs) /\ queue \in Seq(Msgs)
      /\ Len(queue) \in Nat /\ Size \in Nat /\ Len(queue) <= Size
      /\ writers \in Seq(Threads) /\ NoDuplicates(writers)
  BY Types DEF MboxInv, ListsPart
<1>3. Head(queue) \in Msgs /\ queue' \in Seq(Msgs) /\ Len(queue') = Len(queue) - 1
  BY <1>1, <1>2, HeadTailProperties
<1>4. received' \in Seq(Msgs)
  BY <1>1, <1>2, <1>3, GrowFacts
<1> DEFINE W == IF writers = << >> THEN {} ELSE {Head(writers)}
<1>5. /\ writers' \in Seq(Threads) /\ NoDuplicates(writers')
      /\ W \subseteq Threads /\ \A x \in W : Contains(writers, x) /\ sending[x] # 0
      /\ \A x : Contains(writers', x) <=> (x \notin W /\ Contains(writers, x))
  <2>1. CASE writers = << >>
    BY <1>1, <1>2, <2>1 DEF Contains
  <2>2. CASE writers # << >>
    <3>1. /\ Tail(writers) \in Seq(Threads) /\ NoDuplicates(Tail(writers))
          /\ Head(writers) \in Threads /\ Contains(writers, Head(writers))
          /\ \A x : Contains(Tail(writers), x) <=> (x # Head(writers) /\ Contains(writers, x))
      BY <1>2, <2>2, TailFacts
    <3>2. sending[Head(writers)] # 0
      BY <3>1 DEF MboxInv, ListsPart
    <3> QED BY <1>1, <2>2, <3>1, <3>2
  <2> QED BY <2>1, <2>2
<1>6. KernelIs(k', Listed(readers, writers) \ W, r)
  OBVIOUS
<1>7. writers' # << >> => \E u \in Threads : W = {u}
  BY <1>1, <1>5
<1> HIDE DEF W
<1>8. TypeOK'
  <2>1. k' \in Kernels
    BY KernelTyped
  <2> QED BY <1>1, <1>2, <1>3, <1>4, <1>5, <2>1 DEF MboxInv, TypeOK
<1>9. KernelPart'
  <2>1. \A x \in W : ~Contains(readers, x)
    BY <1>5 DEF MboxInv, ListsPart
  <2>2. Listed(readers', writers') = Listed(readers, writers) \ W
    BY <1>1, <1>5, <2>1 DEF Listed
  <2> QED BY <1>1, <1>6, <2>2 DEF KernelPart
<1>10. ListsPart'
  BY <1>1, <1>5 DEF MboxInv, ListsPart
<1>11. NumbersPart'
  BY <1>1 DEF MboxInv, NumbersPart
<1>12. Claims(sending', writers') = Claims(sending, writers) \cup W
  BY <1>1, <1>5 DEF Claims
<1>13. Claimed'
  <2> SUFFICES ASSUME writers' # << >>
               PROVE  Size - Len(queue') <= Cardinality(Claims(sending', writers'))
    BY DEF Claimed
  <2>1. PICK u \in Threads : W = {u}
    BY <1>7
  <2>2. u \notin Claims(sending, writers)
    BY <1>5, <2>1 DEF Claims
  <2>3. /\ Cardinality(Claims(sending', writers')) = Cardinality(Claims(sending, writers)) + 1
        /\ Cardinality(Claims(sending, writers)) \in Nat
    BY <1>12, <2>1, <2>2, ClaimsFinite, FS_AddElement
  <2>4. writers # << >>
    BY <1>1
  <2> QED BY <1>2, <1>3, <2>3, <2>4 DEF MboxInv, Claimed
<1>14. NothingOvertaken'
  <2> SUFFICES ASSUME ProducersPreempt
               PROVE  accepted' = received' \o queue' /\ readers' = << >>
    BY DEF NothingOvertaken, ProducersPreempt
  <2>1. accepted = received \o queue /\ readers = << >>
    BY <1>1 DEF MboxInv, NothingOvertaken
  <2> QED BY <1>1, <1>2, <2>1, MoveFacts
<1> QED BY <1>8, <1>9, <1>10, <1>11, <1>13, <1>14 DEF MboxInv

\* A writer blocks: the caller of mbox_put with the message v it has just made, or
\* a woken writer whose place was taken.
LEMMA WriterBlocks ==
  ASSUME MboxInv, NEW t \in Threads, t \in Producers, Calls(k, t), Full, Wait(t),
         writers' = AddToList(k, writers, t),
         NEW v \in Msgs, sending' = [sending EXCEPT ![t] = v],
         ~Contains(accepted, v), \A u \in Threads : u # t => sending[u] # v,
         made' \in 0..MaxMsgs, made <= made', v <= made', rests' = rests,
         UNCHANGED <<queue, readers, accepted, received>>,
         ProducersPreempt /\ readers # << >> => sending[t] # 0
  PROVE  MboxInv'
<1>1. PICK r \in SUBSET Threads :
        KernelIs(k, Listed(readers, writers), r) /\ \A u \in r : sending[u] = 0
  BY DEF MboxInv, KernelPart
<1>2. ~Contains(readers, t) /\ ~Contains(writers, t) /\ t \notin r
  BY <1>1, CallersListed DEF Listed
<1>3. /\ queue' = queue /\ readers' = readers /\ accepted' = accepted /\ received' = received
      /\ k \in Kernels /\ writers \in Seq(Threads) /\ NoDuplicates(writers)
      /\ sending \in [Threads -> 0..MaxMsgs] /\ v \in 0..MaxMsgs /\ v # 0
      /\ made \in 0..MaxMsgs /\ Len(queue) \in Nat /\ Size \in Nat
  BY Types, PartsOK DEF MboxInv, TypeOK, ListsPart, Msgs
<1>4. /\ writers' \in Seq(Threads) /\ NoDuplicates(writers')
      /\ \A u : Contains(writers', u) <=> (u = t \/ Contains(writers, u))
  BY <1>2, <1>3, AddFacts
<1>5. /\ sending' \in [Threads -> 0..MaxMsgs]
      /\ sending'[t] = v /\ \A u \in Threads : u # t => sending'[u] = sending[u]
  BY <1>3
<1>6. KernelIs(k', Listed(readers, writers) \cup {t}, r)
  BY <1>1, SleepIs DEF Wait, Block
<1>7. TypeOK'
  <2>1. k' \in Kernels
    BY <1>6, KernelTyped
  <2> QED BY <1>3, <1>4, <1>5, <2>1 DEF MboxInv, TypeOK
<1>8. KernelPart'
  <2>1. Listed(readers', writers') = Listed(readers, writers) \cup {t}
    BY <1>3, <1>4 DEF Listed
  <2>2. \A u \in r : sending'[u] = 0
    BY <1>1, <1>2, <1>5
  <2> QED BY <1>6, <2>1, <2>2 DEF KernelPart
<1>9. ListsPart'
  BY <1>2, <1>3, <1>4, <1>5 DEF MboxInv, ListsPart
<1>10. NumbersPart'
  <2>1. \A u \in Threads : sending[u] \in Nat /\ sending[u] <= made
    BY <1>3 DEF MboxInv, NumbersPart
  <2>2. \A u \in Threads : sending'[u] <= made'
    BY <1>3, <1>5, <2>1
  <2>3. \A x : Contains(accepted', x) => x <= made'
    <3>1. accepted \in Seq(Msgs)
      BY Types
    <3>2. \A x : Contains(accepted, x) => x \in Nat
      <4>1. \A i \in 1..Len(accepted) : accepted[i] \in Msgs
        BY <3>1
      <4> QED BY <4>1 DEF Contains, Msgs
    <3>3. \A x : Contains(accepted, x) => x <= made
      BY DEF MboxInv, NumbersPart
    <3> QED BY <1>3, <3>2, <3>3
  <2> QED BY <1>3, <1>5, <2>2, <2>3 DEF MboxInv, NumbersPart
<1>11. Claimed'
  <2>1. Cardinality(Claims(sending', writers')) \in Nat
    BY ClaimsFinite
  <2>2. Size <= Len(queue')
    BY <1>3 DEF Full
  <2> QED BY <1>3, <2>1, <2>2 DEF Claimed
<1>12. NothingOvertaken'
  <2>1. Claims(sending', writers') \subseteq Claims(sending, writers)
    BY <1>4, <1>5 DEF Claims
  <2> QED BY <1>3, <2>1 DEF MboxInv, NothingOvertaken, ProducersPreempt
<1> QED BY <1>7, <1>8, <1>9, <1>10, <1>11, <1>12 DEF MboxInv

\* A reader blocks: no woken writer is on its way, or it would run.
LEMMA GetBlocksKeeps ==
  ASSUME MboxInv, NEW t \in Threads, GetBlocks(t)
  PROVE  MboxInv'
<1>1. PICK r \in SUBSET Threads :
        KernelIs(k, Listed(readers, writers), r) /\ \A u \in r : sending[u] = 0
  BY DEF MboxInv, KernelPart
<1>2. /\ Calls(k, t) /\ sending[t] = 0 /\ t \in Consumers /\ queue = << >> /\ Wait(t)
      /\ readers' = AddToList(k, readers, t)
      /\ queue' = queue /\ writers' = writers /\ sending' = sending /\ made' = made
      /\ rests' = rests /\ accepted' = accepted /\ received' = received
  BY DEF GetBlocks, Idle
<1>3. ~Contains(readers, t) /\ ~Contains(writers, t)
  BY <1>1, <1>2, CallersListed DEF Listed
<1>4. k \in Kernels /\ readers \in Seq(Threads) /\ NoDuplicates(readers)
  BY DEF MboxInv, TypeOK, ListsPart
<1>5. /\ readers' \in Seq(Threads) /\ NoDuplicates(readers')
      /\ \A u : Contains(readers', u) <=> (u = t \/ Contains(readers, u))
  BY <1>2, <1>3, <1>4, AddFacts
<1>6. KernelIs(k', Listed(readers, writers) \cup {t}, r)
  BY <1>1, <1>2, SleepIs DEF Wait, Block
<1>7. TypeOK'
  <2>1. k' \in Kernels
    BY <1>6, KernelTyped
  <2> QED BY <1>2, <1>5, <2>1 DEF MboxInv, TypeOK
<1>8. KernelPart'
  <2>1. Listed(readers', writers') = Listed(readers, writers) \cup {t}
    BY <1>2, <1>5 DEF Listed
  <2> QED BY <1>1, <1>2, <1>6, <2>1 DEF KernelPart
<1>9. ListsPart'
  BY <1>2, <1>3, <1>5 DEF MboxInv, ListsPart
<1>10. NumbersPart' /\ Claimed'
  BY <1>2 DEF MboxInv, NumbersPart, Claimed
<1>11. NothingOvertaken'
  <2> SUFFICES ASSUME ProducersPreempt
               PROVE  Claims(sending, writers) = {}
    BY <1>2 DEF MboxInv, NothingOvertaken, ProducersPreempt
  <2> SUFFICES ASSUME NEW u \in Claims(sending, writers)
               PROVE  FALSE
    OBVIOUS
  <2>1. u \in Threads /\ sending[u] # 0 /\ ~Contains(writers, u)
    BY DEF Claims
  <2>2. u \in Producers /\ ~Contains(readers, u) /\ u \notin r
    BY <1>1, <2>1 DEF MboxInv, ListsPart
  <2>3. IsReady(k, u)
    BY <1>1, <2>1, <2>2, OthersReady DEF Listed
  <2>4. k.prio = Prio /\ Urgent(k, {}) /\ k.tail[t] = NoTail /\ Executes(k, t)
    BY <1>1, <1>2 DEF KernelIs, Calls
  <2>5. ~Yielding(k, t) /\ ~WillLook(k, t, u)
    BY <2>4 DEF Yielding, WillLook, NoTail
  <2>6. Prio[t] <= Prio[u]
    BY <2>1, <2>3, <2>4, <2>5 DEF Urgent
  <2>7. Prio[u] < Prio[t]
    BY <1>2, <2>2 DEF ProducersPreempt
  <2>8. Prio[u] \in Nat /\ Prio[t] \in Nat
    BY <2>1, PartsOK, PriosAreLevels
  <2> QED BY <2>6, <2>7, <2>8
<1> QED BY <1>7, <1>8, <1>9, <1>10, <1>11 DEF MboxInv

\* Steps that leave the mailbox alone.
LEMMA KernelKeeps ==
  ASSUME MboxInv, UNCHANGED <<queue, readers, writers, sending, accepted, received>>,
         made' \in 0..MaxMsgs, made <= made', rests' \in 0..MaxRests,
         NEW r \in SUBSET Threads, \A t \in r : sending[t] = 0,
         KernelIs(k', Listed(readers, writers), r)
  PROVE  MboxInv'
<1>1. /\ queue' = queue /\ readers' = readers /\ writers' = writers /\ sending' = sending
      /\ accepted' = accepted /\ received' = received
  OBVIOUS
<1>2. k' \in Kernels
  BY KernelTyped
<1>3. TypeOK'
  BY <1>1, <1>2 DEF MboxInv, TypeOK
<1>4. KernelPart' /\ ListsPart' /\ Claimed' /\ NothingOvertaken'
  BY <1>1 DEF MboxInv, KernelPart, ListsPart, Claimed, NothingOvertaken, ProducersPreempt
<1>5. NumbersPart'
  <2>1. made \in Nat /\ made' \in Nat /\ \A u \in Threads : sending[u] \in Nat
    BY Types
  <2>2. \A x : Contains(accepted, x) => x \in Nat
    BY Types DEF Contains, Msgs
  <2>3. /\ \A x : Contains(accepted, x) => x <= made
        /\ \A u \in Threads : sending[u] <= made
    BY DEF MboxInv, NumbersPart
  <2>4. /\ \A x : Contains(accepted, x) => x <= made'
        /\ \A u \in Threads : sending[u] <= made'
    BY <2>1, <2>2, <2>3
  <2> QED BY <1>1, <2>4 DEF MboxInv, NumbersPart
<1> QED BY <1>3, <1>4, <1>5 DEF MboxInv

(***************************************************************************)
(* The actions.                                                            *)
(***************************************************************************)

LEMMA RestIs ==
  ASSUME MboxInv
  PROVE  \E r \in SUBSET Threads :
           KernelIs(k, Listed(readers, writers), r) /\ \A u \in r : sending[u] = 0
BY DEF MboxInv, KernelPart

\* The head of a waiting list, woken by a thread or by an interrupt.
LEMMA HeadWaits ==
  ASSUME MboxInv
  PROVE  /\ readers # << >> => Head(readers) \in Threads
         /\ writers # << >> => Head(writers) \in Threads
<1>1. /\ readers \in Seq(Threads) /\ NoDuplicates(readers)
      /\ writers \in Seq(Threads) /\ NoDuplicates(writers)
  BY Types DEF MboxInv, ListsPart
<1> QED BY <1>1, TailFacts

LEMMA PutHandsOverInv ==
  ASSUME MboxInv, NEW t \in Threads, PutHandsOver(t)
  PROVE  MboxInv'
<1>1. /\ Calls(k, t) /\ NewMsg /\ HandOver(made') /\ Wake(t, Head(readers))
      /\ sending' = sending
  BY DEF PutHandsOver, Idle
<1>2. Head(readers) \in Threads
  BY <1>1, HeadWaits DEF HandOver
<1>3. PICK r \in SUBSET Threads :
        KernelIs(k, Listed(readers, writers), r) /\ \A u \in r : sending[u] = 0
  BY RestIs
<1>4. KernelIs(k', Listed(readers, writers) \ {Head(readers)}, r \ {Head(readers)})
  BY <1>1, <1>2, <1>3, WakeIs DEF Wake
<1>5. r \ {Head(readers)} \in SUBSET Threads /\ \A u \in r \ {Head(readers)} : sending[u] = 0
  BY <1>3
<1> QED BY <1>1, <1>4, <1>5, HandOverKeeps

LEMMA IsrPutInv ==
  ASSUME MboxInv, IsrPut
  PROVE  MboxInv'
<1>1. NewMsg /\ sending' = sending
  BY DEF IsrPut
<1>2. CASE HandOver(made') /\ IsrWake(Head(readers))
  <2>1. Head(readers) \in Threads
    BY <1>2, HeadWaits DEF HandOver
  <2>2. PICK r \in SUBSET Threads :
          KernelIs(k, Listed(readers, writers), r) /\ \A u \in r : sending[u] = 0
    BY RestIs
  <2>3. KernelIs(k', Listed(readers, writers) \ {Head(readers)}, r \ {Head(readers)})
    BY <1>2, <2>1, <2>2, WakeIs DEF IsrWake
  <2>4. r \ {Head(readers)} \in SUBSET Threads /\ \A u \in r \ {Head(readers)} : sending[u] = 0
    BY <2>2
  <2> QED BY <1>1, <1>2, <2>3, <2>4, HandOverKeeps
<1>3. CASE readers = << >> /\ Enqueue(made') /\ UNCHANGED k
  BY <1>1, <1>3, EnqueueKeeps
<1> QED BY <1>2, <1>3 DEF IsrPut

LEMMA PutInv ==
  ASSUME MboxInv, NEW t \in Threads, Put(t)
  PROVE  MboxInv'
<1>1. CASE PutHandsOver(t)
  BY <1>1, PutHandsOverInv
<1>2. CASE PutQueues(t)
  BY <1>2, EnqueueKeeps DEF PutQueues
<1>3. CASE PutBlocks(t)
  <2> DEFINE v == made'
  <2>1. /\ t \in Producers /\ Calls(k, t) /\ NewMsg /\ readers = << >> /\ Full /\ Wait(t)
        /\ writers' = AddToList(k, writers, t)
        /\ sending' = [sending EXCEPT ![t] = v]
        /\ UNCHANGED <<queue, readers, accepted, received>>
    BY <1>3 DEF PutBlocks, Idle
  <2>2. /\ v \in Msgs /\ v \in 0..MaxMsgs /\ v = made + 1 /\ rests' = rests
        /\ ~Contains(accepted, v) /\ \A u \in Threads : sending[u] # v
    BY <2>1, Fresh
  <2>3. made <= v /\ v <= v /\ made' = v
    <3>1. made \in Nat
      BY Types
    <3> QED BY <2>2, <3>1
  <2> HIDE DEF v
  <2> QED BY <2>1, <2>2, <2>3, WriterBlocks
<1>4. CASE TryPutFails(t)
  <2>1. /\ NewMsg
        /\ k' = k /\ UNCHANGED <<queue, readers, writers, sending, accepted, received>>
    BY <1>4 DEF TryPutFails
  <2>2. made' \in 0..MaxMsgs /\ made <= made' /\ rests' \in 0..MaxRests
    <3>1. made' \in 0..MaxMsgs /\ made' = made + 1 /\ rests' = rests
      BY <2>1, Fresh
    <3>2. made \in Nat /\ rests \in 0..MaxRests
      BY Types DEF MboxInv, TypeOK
    <3> QED BY <3>1, <3>2
  <2>3. PICK r \in SUBSET Threads :
          KernelIs(k, Listed(readers, writers), r) /\ \A u \in r : sending[u] = 0
    BY RestIs
  <2> QED BY <2>1, <2>2, <2>3, KernelKeeps
<1> QED BY <1>1, <1>2, <1>3, <1>4 DEF Put

LEMMA PutResumesInv ==
  ASSUME MboxInv, NEW t \in Threads, PutResumes(t)
  PROVE  MboxInv'
<1>1. Calls(k, t) /\ sending[t] # 0 /\ made' = made /\ rests' = rests
  BY DEF PutResumes
<1>2. CASE Enqueue(sending[t]) /\ sending' = [sending EXCEPT ![t] = 0] /\ UNCHANGED k
  BY <1>1, <1>2, ClaimKeeps
<1>3. CASE /\ Full /\ Wait(t) /\ writers' = AddToList(k, writers, t)
           /\ UNCHANGED <<queue, readers, sending, accepted, received>>
  <2> DEFINE v == sending[t]
  <2>1. /\ v \in Msgs /\ v <= made /\ ~Contains(accepted, v) /\ t \in Producers
        /\ \A u \in Threads : u # t => sending[u] # v
    <3>1. sending \in [Threads -> 0..MaxMsgs] /\ MaxMsgs \in Nat
      BY Types
    <3> QED BY <1>1, <3>1 DEF MboxInv, NumbersPart, ListsPart, Msgs
  <2>2. sending' = [sending EXCEPT ![t] = v]
    <3>1. sending \in [Threads -> 0..MaxMsgs]
      BY Types
    <3> QED BY <1>3, <3>1
  <2>3. made' \in 0..MaxMsgs /\ made <= made' /\ v <= made'
    <3>1. made \in 0..MaxMsgs
      BY Types
    <3> QED BY <1>1, <2>1, <3>1
  <2>4. sending[t] # 0
    BY <1>1
  <2> HIDE DEF v
  <2> QED BY <1>1, <1>3, <2>1, <2>2, <2>3, <2>4, WriterBlocks
<1> QED BY <1>2, <1>3 DEF PutResumes

LEMMA GetInv ==
  ASSUME MboxInv, NEW t \in Threads, Get(t)
  PROVE  MboxInv'
<1>1. /\ Calls(k, t) /\ Dequeue /\ UNCHANGED <<sending, made, rests>>
      /\ IF writers = << >> THEN k' = k ELSE Wake(t, Head(writers))
  BY DEF Get, Idle
<1>2. PICK r \in SUBSET Threads :
        KernelIs(k, Listed(readers, writers), r) /\ \A u \in r : sending[u] = 0
  BY RestIs
<1>3. CASE writers = << >>
  BY <1>1, <1>2, <1>3, DequeueKeeps
<1>4. CASE writers # << >>
  <2>1. KernelIs(k', Listed(readers, writers) \ {Head(writers)}, r \ {Head(writers)})
    <3>1. Head(writers) \in Threads
      BY <1>4, HeadWaits
    <3>2. Wake(t, Head(writers))
      BY <1>1, <1>4
    <3>3. KernelIs(k, Listed(readers, writers), r)
      BY <1>2
    <3> QED BY <1>1, <3>1, <3>2, <3>3, WakeIs DEF Wake
  <2>2. r \ {Head(writers)} \in SUBSET Threads /\ \A u \in r \ {Head(writers)} : sending[u] = 0
    BY <1>2
  <2> QED BY <1>1, <1>4, <2>1, <2>2, DequeueKeeps
<1> QED BY <1>3, <1>4

LEMMA IsrGetInv ==
  ASSUME MboxInv, IsrGet
  PROVE  MboxInv'
<1>1. /\ Dequeue /\ UNCHANGED <<sending, made, rests>>
      /\ IF writers = << >> THEN k' = k ELSE IsrWake(Head(writers))
  BY DEF IsrGet
<1>2. PICK r \in SUBSET Threads :
        KernelIs(k, Listed(readers, writers), r) /\ \A u \in r : sending[u] = 0
  BY RestIs
<1>3. CASE writers = << >>
  BY <1>1, <1>2, <1>3, DequeueKeeps
<1>4. CASE writers # << >>
  <2>1. KernelIs(k', Listed(readers, writers) \ {Head(writers)}, r \ {Head(writers)})
    <3>1. Head(writers) \in Threads
      BY <1>4, HeadWaits
    <3>2. IsrWake(Head(writers))
      BY <1>1, <1>4
    <3>3. KernelIs(k, Listed(readers, writers), r)
      BY <1>2
    <3> QED BY <1>1, <3>1, <3>2, <3>3, WakeIs DEF IsrWake
  <2>2. r \ {Head(writers)} \in SUBSET Threads /\ \A u \in r \ {Head(writers)} : sending[u] = 0
    BY <1>2
  <2> QED BY <1>1, <1>4, <2>1, <2>2, DequeueKeeps
<1> QED BY <1>3, <1>4

LEMMA RescheduleInv ==
  ASSUME MboxInv, NEW t \in Threads, Reschedule(t)
  PROVE  MboxInv'
<1>1. /\ Executes(k, t) /\ k.tail[t] # NoTail /\ k' = TailCall(k, t)
      /\ UNCHANGED <<queue, readers, writers, sending, accepted, received>>
      /\ made' = made /\ rests' = rests
  BY DEF Reschedule
<1>2. made' \in 0..MaxMsgs /\ made <= made' /\ rests' \in 0..MaxRests
  <2>1. made \in 0..MaxMsgs /\ rests \in 0..MaxRests
    BY DEF MboxInv, TypeOK
  <2> QED BY <1>1, <2>1
<1>3. PICK r \in SUBSET Threads :
        KernelIs(k, Listed(readers, writers), r) /\ \A u \in r : sending[u] = 0
  BY RestIs
<1>4. KernelIs(k', Listed(readers, writers), r)
  BY <1>1, <1>3, TailIs
<1> QED BY <1>1, <1>2, <1>3, <1>4, KernelKeeps

LEMMA RestInv ==
  ASSUME MboxInv, NEW t \in Threads, Rest(t)
  PROVE  MboxInv'
<1>1. /\ Calls(k, t) /\ sending[t] = 0
      /\ k' = Ends(SetStatus(k, t, "sleeping"), t, YieldHigher)
      /\ UNCHANGED <<queue, readers, writers, sending, accepted, received>> /\ made' = made
  BY DEF Rest, Idle
<1>2. made' \in 0..MaxMsgs /\ made <= made' /\ rests' \in 0..MaxRests
  <2>1. made \in 0..MaxMsgs /\ rests \in 0..MaxRests
    BY DEF MboxInv, TypeOK
  <2>2. rests' = rests \/ (rests < MaxRests /\ rests' = rests + 1)
    BY DEF Rest
  <2> QED BY <1>1, <2>1, <2>2, PartsOK
<1>3. PICK r \in SUBSET Threads :
        KernelIs(k, Listed(readers, writers), r) /\ \A u \in r : sending[u] = 0
  BY RestIs
<1>4. KernelIs(k', Listed(readers, writers), r \cup {t})
  BY <1>1, <1>3, SleepIs
<1>5. r \cup {t} \in SUBSET Threads /\ \A u \in r \cup {t} : sending[u] = 0
  BY <1>1, <1>3
<1> QED BY <1>1, <1>2, <1>4, <1>5, KernelKeeps

LEMMA IsrWakeupInv ==
  ASSUME MboxInv, NEW u \in Threads, IsrWakeup(u)
  PROVE  MboxInv'
<1>1. /\ k.status[u] = "sleeping"
      /\ k' = IsrEnd(IsrSwitch(SetStatus(k, u, "pending"), k.prio[u]))
      /\ UNCHANGED <<queue, readers, writers, sending, accepted, received>>
      /\ made' = made /\ rests' = rests
  BY DEF IsrWakeup, IsrWake
<1>2. made' \in 0..MaxMsgs /\ made <= made' /\ rests' \in 0..MaxRests
  <2>1. made \in 0..MaxMsgs /\ rests \in 0..MaxRests
    BY DEF MboxInv, TypeOK
  <2> QED BY <1>1, <2>1
<1>3. PICK r \in SUBSET Threads :
        KernelIs(k, Listed(readers, writers), r) /\ \A x \in r : sending[x] = 0
  BY RestIs
<1>4. u \notin Listed(readers, writers)
  <2>1. Sleepers(k, "mbox") = Listed(readers, writers)
    BY <1>3 DEF KernelIs
  <2>2. u \notin Sleepers(k, "mbox")
    BY <1>1 DEF Sleepers
  <2> QED BY <2>1, <2>2
<1>5. KernelIs(k', Listed(readers, writers) \ {u}, r \ {u})
  BY <1>1, <1>3, WakeIs
<1>6. KernelIs(k', Listed(readers, writers), r \ {u})
  <2>1. Listed(readers, writers) \ {u} = Listed(readers, writers)
    BY <1>4
  <2> QED BY <1>5, <2>1
<1>7. r \ {u} \in SUBSET Threads /\ \A x \in r \ {u} : sending[x] = 0
  BY <1>3
<1> QED BY <1>1, <1>2, <1>6, <1>7, KernelKeeps

(***************************************************************************)
(* The invariant is one.                                                   *)
(***************************************************************************)

LEMMA MboxInit == Init => MboxInv
<1> SUFFICES ASSUME Init PROVE MboxInv
  OBVIOUS
<1>1. /\ k = Booted(Prio) /\ queue = << >> /\ readers = << >> /\ writers = << >>
      /\ sending = [t \in Threads |-> 0] /\ made = 0 /\ rests = 0
      /\ accepted = << >> /\ received = << >>
  BY DEF Init
<1>2. /\ KernelOK(k) /\ k.prio = Prio /\ Urgent(k, {}) /\ \A t \in Threads : IsReady(k, t)
  BY <1>1, PartsOK, BootedOK
<1>3. /\ \A x : ~Contains(readers, x) /\ ~Contains(writers, x) /\ ~Contains(accepted, x)
      /\ NoDuplicates(readers) /\ NoDuplicates(writers)
  BY <1>1 DEF Contains, NoDuplicates
<1>4. Listed(readers, writers) = {}
  BY <1>3 DEF Listed
<1>5. KernelPart
  <2>1. \A s \in Blocked : Sleepers(k, s) = {}
    BY <1>2 DEF Sleepers, IsReady, Blocked, OnRunqueue
  <2>2. KernelIs(k, {}, {})
    BY <1>2, <2>1 DEF KernelIs, Blocked
  <2> QED BY <1>4, <2>2 DEF KernelPart
<1>6. TypeOK
  <2>1. k \in Kernels
    BY <1>2 DEF KernelOK, WellFormed
  <2> QED BY <1>1, <2>1, PartsOK DEF TypeOK
<1>7. ListsPart /\ NumbersPart
  BY <1>1, <1>3 DEF ListsPart, NumbersPart
<1>8. Claimed /\ NothingOvertaken
  BY <1>1 DEF Claimed, NothingOvertaken
<1> QED BY <1>5, <1>6, <1>7, <1>8 DEF MboxInv

LEMMA MboxStep == MboxInv /\ [Next]_vars => MboxInv'
<1> SUFFICES ASSUME MboxInv, [Next]_vars PROVE MboxInv'
  OBVIOUS
<1>1. ASSUME NEW t \in Threads, Put(t) PROVE MboxInv'
  BY <1>1, PutInv
<1>2. ASSUME NEW t \in Threads, PutResumes(t) PROVE MboxInv'
  BY <1>2, PutResumesInv
<1>3. ASSUME NEW t \in Threads, Get(t) PROVE MboxInv'
  BY <1>3, GetInv
<1>4. ASSUME NEW t \in Threads, GetBlocks(t) PROVE MboxInv'
  BY <1>4, GetBlocksKeeps
<1>5. ASSUME NEW t \in Threads, Reschedule(t) PROVE MboxInv'
  BY <1>5, RescheduleInv
<1>6. ASSUME NEW t \in Threads, Rest(t) PROVE MboxInv'
  BY <1>6, RestInv
<1>7. ASSUME NEW t \in Threads, IsrWakeup(t) PROVE MboxInv'
  BY <1>7, IsrWakeupInv
<1>8. CASE IsrPut
  BY <1>8, IsrPutInv
<1>9. CASE IsrGet
  BY <1>9, IsrGetInv
<1>10. CASE UNCHANGED vars
  BY <1>10 DEF vars, MboxInv, TypeOK, KernelPart, ListsPart, NumbersPart, Claimed,
               NothingOvertaken, ProducersPreempt
<1> QED BY <1>1, <1>2, <1>3, <1>4, <1>5, <1>6, <1>7, <1>8, <1>9, <1>10 DEF Next

\* The invariant that the theorems below follow from.
THEOREM MboxInvariant == Spec => []MboxInv
<1> QED BY MboxInit, MboxStep, PTL DEF Spec

\* The variables keep their types: the queue never holds more messages than
\* msg_array has places, and the kernel record stays one of Kernels.
THEOREM MboxTypesHold == Spec => []TypeOK
<1>1. MboxInv => TypeOK
  BY DEF MboxInv
<1> QED BY <1>1, MboxInvariant, PTL

\* _wait and _wake_waiter agree with the lists: whoever is STATUS_MBOX_BLOCKED is in
\* exactly one of readers and writers, once, and nobody else is.
THEOREM MboxWaitersListed == Spec => []WaitersListed
<1>1. MboxInv => WaitersListed
  <2> SUFFICES ASSUME MboxInv PROVE WaitersListed
    OBVIOUS
  <2>1. readers \in Seq(Threads) /\ writers \in Seq(Threads)
    BY Types
  <2>2. /\ \A x : Contains(readers \o writers, x) <=> (Contains(readers, x) \/ Contains(writers, x))
        /\ NoDuplicates(readers \o writers) <=> /\ NoDuplicates(readers) /\ NoDuplicates(writers)
                                                /\ \A x : ~ (Contains(readers, x) /\ Contains(writers, x))
    BY <2>1, ConcatFacts
  <2>3. \A x : Contains(readers, x) => x \in Threads
    BY <2>1 DEF Contains
  <2>4. \A x \in Threads : ~ (Contains(readers, x) /\ Contains(writers, x))
    BY DEF MboxInv, ListsPart
  <2>5. NoDuplicates(readers \o writers)
    BY <2>2, <2>3, <2>4 DEF MboxInv, ListsPart
  <2>6. PICK r \in SUBSET Threads :
          KernelIs(k, Listed(readers, writers), r) /\ \A u \in r : sending[u] = 0
    BY RestIs
  <2>7. \A t \in Threads : k.status[t] = "mbox" <=> (Contains(readers, t) \/ Contains(writers, t))
    BY <2>6 DEF KernelIs, Sleepers, Listed
  <2> QED BY <2>2, <2>5, <2>7 DEF WaitersListed
<1> QED BY <1>1, MboxInvariant, PTL

\* No writer sleeps on in mbox_put while a place of the queue is free for it: each
\* free place has a woken writer that has not yet come to take it.
THEOREM MboxPlacesClaimed == Spec => []FreePlacesAreClaimed
<1>1. MboxInv => FreePlacesAreClaimed
  BY DEF MboxInv, Claimed, Claims, FreePlacesAreClaimed
<1> QED BY <1>1, MboxInvariant, PTL

\* mbox_get blocks "until a message becomes available" only: while a reader sleeps
\* the queue is empty.  Among threads of one level this is false (RiotMboxPeers).
THEOREM MboxReadersSleepOnEmpty ==
  ASSUME ProducersPreempt PROVE Spec => []ReadersSleepOnEmpty
<1>1. MboxInv => ReadersSleepOnEmpty
  BY ProducersPreempt DEF MboxInv, NothingOvertaken, ReadersSleepOnEmpty
<1> QED BY <1>1, MboxInvariant, PTL

(***************************************************************************)
(* The refinement: every step is a step of the channel or leaves it alone. *)
(***************************************************************************)

\* The channel holds what the queue does, and accepts what is new to it.
LEMMA ChannelView ==
  ASSUME ProducersPreempt, MboxInv
  PROVE  /\ accepted = received \o queue
         /\ Channel!Backlog = Len(queue)
         /\ queue # << >> => accepted[Len(received) + 1] = Head(queue)
         /\ \A m \in Msgs : ~Contains(accepted, m) => Channel!New(m)
<1>1. accepted = received \o queue
  BY DEF MboxInv, NothingOvertaken
<1>2. received \in Seq(Msgs) /\ queue \in Seq(Msgs)
  BY Types
<1>3. /\ Len(received \o queue) = Len(received) + Len(queue)
      /\ queue # << >> => (received \o queue)[Len(received) + 1] = Head(queue)
  BY <1>2, MoveFacts
<1>4. Channel!Backlog = Len(queue)
  <2>1. Len(received) \in Nat /\ Len(queue) \in Nat
    BY <1>2
  <2>2. Channel!Backlog = Len(accepted) - Len(received)
    BY DEF Channel!Backlog
  <2>3. Len(accepted) = Len(received) + Len(queue)
    BY <1>1, <1>3
  <2> QED BY <2>1, <2>2, <2>3
<1>5. \A m \in Msgs : ~Contains(accepted, m) => Channel!New(m)
  BY DEF Channel!New, Contains
<1> QED BY <1>1, <1>3, <1>4, <1>5

LEMMA AcceptStep ==
  ASSUME ProducersPreempt, MboxInv, NEW m \in Msgs, ~Contains(accepted, m), Enqueue(m)
  PROVE  Channel!Next
<1>1. Channel!New(m) /\ Channel!Backlog = Len(queue)
  BY ChannelView
<1>2. Len(queue) < Size
  BY Types DEF Enqueue, Full
<1>3. Channel!Accept(m)
  BY <1>1, <1>2 DEF Channel!Accept, Enqueue
<1> QED BY <1>3 DEF Channel!Next

LEMMA HandOverStep ==
  ASSUME ProducersPreempt, MboxInv, NewMsg, HandOver(made')
  PROVE  Channel!Next
<1> DEFINE m == made'
<1>1. m \in Msgs /\ ~Contains(accepted, m)
  BY Fresh
<1>2. readers # << >> /\ accepted' = Append(accepted, m) /\ received' = Append(received, m)
  BY DEF HandOver
<1> HIDE DEF m
<1>3. queue = << >>
  BY <1>2 DEF MboxInv, NothingOvertaken
<1>4. Channel!New(m) /\ Channel!Backlog = 0
  <2>1. Channel!New(m) /\ Channel!Backlog = Len(queue)
    BY <1>1, ChannelView
  <2>2. Len(queue) = 0
    BY <1>3
  <2> QED BY <2>1, <2>2
<1>5. Channel!HandOver(m)
  BY <1>2, <1>4 DEF Channel!HandOver
<1> QED BY <1>1, <1>5 DEF Channel!Next

LEMMA ReceiveStep ==
  ASSUME ProducersPreempt, MboxInv, Dequeue
  PROVE  Channel!Next
<1>1. /\ queue # << >> /\ received' = Append(received, Head(queue)) /\ accepted' = accepted
  BY DEF Dequeue
<1>2. Channel!Backlog = Len(queue) /\ accepted[Len(received) + 1] = Head(queue)
  BY <1>1, ChannelView
<1>3. Len(queue) > 0
  <2>1. queue \in Seq(Msgs)
    BY Types
  <2> QED BY <1>1, <2>1, EmptySeq
<1>4. Channel!Receive
  BY <1>1, <1>2, <1>3 DEF Channel!Receive
<1> QED BY <1>4 DEF Channel!Next

LEMMA ChannelStep ==
  ASSUME ProducersPreempt, MboxInv, [Next]_vars
  PROVE  [Channel!Next]_(Channel!chan)
<1>1. ASSUME NEW t \in Threads, Put(t) PROVE [Channel!Next]_(Channel!chan)
  <2>1. CASE PutHandsOver(t)
    BY <2>1, HandOverStep DEF PutHandsOver
  <2>2. CASE PutQueues(t)
    <3>1. NewMsg /\ Enqueue(made')
      BY <2>2 DEF PutQueues
    <3>2. made' \in Msgs /\ ~Contains(accepted, made')
      BY <3>1, Fresh
    <3> DEFINE m == made'
    <3>3. m \in Msgs /\ ~Contains(accepted, m) /\ Enqueue(m)
      BY <3>1, <3>2
    <3> HIDE DEF m
    <3> QED BY <3>3, AcceptStep
  <2>3. CASE PutBlocks(t) \/ TryPutFails(t)
    BY <2>3 DEF PutBlocks, TryPutFails, Channel!chan
  <2> QED BY <1>1, <2>1, <2>2, <2>3 DEF Put
<1>2. ASSUME NEW t \in Threads, PutResumes(t) PROVE [Channel!Next]_(Channel!chan)
  <2>1. CASE Enqueue(sending[t])
    <3>1. sending[t] \in Msgs /\ ~Contains(accepted, sending[t])
      <4>1. sending \in [Threads -> 0..MaxMsgs] /\ MaxMsgs \in Nat /\ sending[t] # 0
        BY <1>2, Types DEF PutResumes
      <4> QED BY <4>1 DEF MboxInv, NumbersPart, Msgs
    <3> QED BY <2>1, <3>1, AcceptStep
  <2>2. CASE UNCHANGED <<accepted, received>>
    BY <2>2 DEF Channel!chan
  <2> QED BY <1>2, <2>1, <2>2 DEF PutResumes
<1>3. ASSUME NEW t \in Threads, Get(t) PROVE [Channel!Next]_(Channel!chan)
  BY <1>3, ReceiveStep DEF Get
<1>4. ASSUME NEW t \in Threads, GetBlocks(t) \/ Reschedule(t) \/ Rest(t) \/ IsrWakeup(t)
      PROVE  [Channel!Next]_(Channel!chan)
  BY <1>4 DEF GetBlocks, Reschedule, Rest, IsrWakeup, Channel!chan
<1>5. CASE IsrPut
  <2>1. CASE HandOver(made')
    BY <1>5, <2>1, HandOverStep DEF IsrPut
  <2>2. CASE Enqueue(made')
    <3>1. NewMsg
      BY <1>5 DEF IsrPut
    <3>2. made' \in Msgs /\ ~Contains(accepted, made')
      BY <3>1, Fresh
    <3> DEFINE m == made'
    <3>3. m \in Msgs /\ ~Contains(accepted, m) /\ Enqueue(m)
      BY <2>2, <3>2
    <3> HIDE DEF m
    <3> QED BY <3>3, AcceptStep
  <2> QED BY <1>5, <2>1, <2>2 DEF IsrPut
<1>6. CASE IsrGet
  BY <1>6, ReceiveStep DEF IsrGet
<1>7. CASE UNCHANGED vars
  BY <1>7 DEF vars, Channel!chan
<1> QED BY <1>1, <1>2, <1>3, <1>4, <1>5, <1>6, <1>7 DEF Next

\* mbox_put, mbox_get and their non-blocking forms, called by threads and by
\* interrupts, are a bounded FIFO channel: no message is lost, duplicated or
\* overtaken.  (That accepted messages are received in the end, the fairness part
\* of ImplementsMailbox, is left to the run.)
THEOREM MboxIsChannel ==
  ASSUME ProducersPreempt
  PROVE  Spec => Channel!Init /\ [][Channel!Next]_(Channel!chan)
<1>1. Init => Channel!Init
  BY DEF Init, Channel!Init
<1>2. MboxInv /\ [Next]_vars => [Channel!Next]_(Channel!chan)
  BY ProducersPreempt, ChannelStep
<1> QED BY <1>1, <1>2, MboxInvariant, PTL DEF Spec

=============================================================================
