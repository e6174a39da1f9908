---------------------------- MODULE RiotMsg_proofs ----------------------------
(***************************************************************************)
(* Theorems about RiotMsg, for every finite set of threads, all priorities, *)
(* every size of their queues, every bus and any number of messages.       *)
(***************************************************************************)
EXTENDS RiotMsg, RiotSched_proofs

(***************************************************************************)
(* The kernel.  A thread whose msg_send_receive has failed executes although *)
(* it is STATUS_REPLY_BLOCKED, so the kernel is in order but for those      *)
(* strays; the other calls see of it who is ready and what the others wait  *)
(* for.                                                                     *)
(***************************************************************************)

Steady(kk, strays) ==
  /\ WellFormed(kk) /\ OneRunning(kk)
  /\ \A t \in Threads :
       Calls(kk, t) => IsReady(kk, t) \/ (t \in strays /\ kk.status[t] = "reply")

Moods == {"ready"} \cup Blocked
Mood(kk) == [t \in Threads |-> IF IsReady(kk, t) THEN "ready" ELSE kk.status[t]]

\* n comes from k in a section: it may have woken some.
WakesOnly(n, kk) ==
  /\ WellFormed(n) /\ InSection(n, kk)
  /\ \A t \in Threads : n.status[t] = kk.status[t] \/ n.status[t] = "pending"

LEMMA MoodTyped ==
  ASSUME NEW kk \in Kernels
  PROVE  Mood(kk) \in [Threads -> Moods]
BY DEF Mood, Moods, Kernels, IsReady

LEMMA MoodIs ==
  ASSUME NEW kk \in Kernels, NEW t \in Threads, NEW s \in Blocked
  PROVE  kk.status[t] = s <=> Mood(kk)[t] = s
BY DEF Mood, Kernels, IsReady, Blocked, OnRunqueue

LEMMA OrderIsSteady ==
  ASSUME NEW kk, KernelOK(kk), NEW S
  PROVE  Steady(kk, S)
BY DEF KernelOK, Steady

LEMMA ScheduledMood ==
  ASSUME NEW m, NEW kk, Scheduled(m, kk)
  PROVE  Mood(m) = Mood(kk)
BY DEF Scheduled, Mood

\* One status is changed inside a section.
LEMMA StatusMood ==
  ASSUME NEW n, WellFormed(n), InSection(n, k), NEW u \in Threads,
         NEW s \in Blocked \cup {"pending"}
  PROVE  LET m == SetStatus(n, u, s)
         IN /\ WellFormed(m) /\ InSection(m, k)
            /\ \A v \in Threads : m.status[v] = IF v = u THEN s ELSE n.status[v]
            /\ Mood(m) = [Mood(n) EXCEPT ![u] = IF s = "pending" THEN "ready" ELSE s]
<1> DEFINE m == SetStatus(n, u, s)
<1>1. s \in (Blocked \cup OnRunqueue) \ {"running"}
  BY DEF Blocked, OnRunqueue
<1>2. /\ WellFormed(m) /\ InSection(m, k)
      /\ \A v \in Threads : m.status[v] = IF v = u THEN s ELSE n.status[v]
  BY <1>1, SectionStatus
<1> HIDE DEF m
<1>3. IsReady(m, u) <=> s = "pending"
  BY <1>2 DEF IsReady, Blocked, OnRunqueue
<1>4. \A v \in Threads : v # u => (IsReady(m, v) <=> IsReady(n, v)) /\ m.status[v] = n.status[v]
  BY <1>2 DEF IsReady
<1>5. Mood(m) = [Mood(n) EXCEPT ![u] = IF s = "pending" THEN "ready" ELSE s]
  BY <1>2, <1>3, <1>4 DEF Mood
<1> QED BY <1>2, <1>5 DEF m

\* A thread that is made ready leaves the others as they are.
LEMMA WakesOther ==
  ASSUME WellFormed(k), InSection(k, k), NEW t \in Threads, NEW h \in Threads, NEW n,
         n = SetStatus(k, h, "pending")
  PROVE  /\ IsReady(k, t) => IsReady(n, t)
         /\ h # t => n.status[t] = k.status[t]
<1> DEFINE s == "pending"
<1>1. s \in Blocked \cup {"pending"} /\ s \in OnRunqueue
  BY DEF OnRunqueue
<1>2. n = SetStatus(k, h, s)
  OBVIOUS
<1> HIDE DEF s
<1>3. \A v \in Threads : n.status[v] = IF v = h THEN s ELSE k.status[v]
  BY <1>1, <1>2, StatusMood
<1> QED BY <1>1, <1>3 DEF IsReady

\* The call of the scheduler after a sender has been made ready.
LEMMA SwitchToTail ==
  ASSUME k \in Kernels, NEW h \in Threads
  PROVE  SwitchTo(h) \in TailCalls
<1>1. k.prio[h] \in Prios
  BY DEF Kernels
<1>2. Switch(k.prio[h]) \in TailCalls
  BY <1>1, TailTypes DEF TailCalls, Switch
<1>3. NoTail \in TailCalls
  BY TailTypes
<1> QED BY <1>2, <1>3 DEF SwitchTo

\* The section of t's call ends; n is the kernel it has made.
LEMMA CallEnds ==
  ASSUME NEW S, Steady(k, S), NEW t \in Threads, Calls(k, t), NEW x \in TailCalls, NEW T,
         NEW n, WellFormed(n), InSection(n, k),
         x # NoTail \/ IsReady(n, t) \/ (t \in T /\ n.status[t] = "reply")
  PROVE  Steady(Ends(n, t, x), T) /\ Mood(Ends(n, t, x)) = Mood(n)
<1> DEFINE m == Ends(n, t, x)
<1>1. WellFormed(m) /\ OnlyTail(m, n, t, x)
  BY TailSet
<1> HIDE DEF m
<1>2. k \in Kernels /\ k.tail[t] = NoTail /\ k.active = t
  BY DEF Steady, WellFormed, Calls, Executes
<1>3. OneRunning(m)
  BY <1>1 DEF Steady, OneRunning, OnlyTail, InSection
<1>4. \A v \in Threads : Calls(m, v) => v = t /\ x = NoTail
  BY <1>1, <1>2 DEF Calls, Executes, Kernels, OnlyTail, InSection
<1>5. \A v \in Threads : Calls(m, v) => IsReady(m, v) \/ (v \in T /\ m.status[v] = "reply")
  BY <1>1, <1>4 DEF IsReady, OnlyTail
<1>6. Mood(m) = Mood(n)
  BY <1>1 DEF OnlyTail, Mood, IsReady
<1> QED BY <1>1, <1>3, <1>5, <1>6 DEF Steady, m

\* The scheduler call at the end of a call: a stray does not get past it.
LEMMA TailSteady ==
  ASSUME NEW S, Steady(k, S), NEW t \in Threads, Executes(k, t), k.tail[t] # NoTail, NEW T
  PROVE  Steady(TailCall(k, t), T) /\ Mood(TailCall(k, t)) = Mood(k)
<1>1. KernelOK(k)
  BY DEF Steady, KernelOK, Calls, Executes
<1>2. KernelOK(TailCall(k, t)) /\ Scheduled(TailCall(k, t), k)
  BY <1>1, TailCallOK
<1> QED BY <1>2, OrderIsSteady, ScheduledMood

\* An interrupt that has woken some ends.
LEMMA IsrSteady ==
  ASSUME NEW S, Steady(k, S), NEW n, WakesOnly(n, k)
  PROVE  Steady(IsrEnd(n), S) /\ Mood(IsrEnd(n)) = Mood(n)
<1>1. WellFormed(n) /\ OneRunning(n)
  BY DEF Steady, WakesOnly, OneRunning, InSection
<1>2. \A t \in Threads : Calls(n, t) => Calls(k, t)
  BY DEF WakesOnly, InSection, Calls, Executes
<1>3. \A t \in Threads :
        Calls(n, t) => IsReady(n, t) \/ (t \in S /\ n.status[t] = "reply")
  BY <1>2 DEF Steady, WakesOnly, IsReady, OnRunqueue
<1>4. Steady(n, S)
  BY <1>1, <1>3 DEF Steady
<1>5. KernelOK(SchedRun(n)) /\ Scheduled(SchedRun(n), n)
  BY <1>1, SchedRunOK
<1>6. Steady(SchedRun(n), S) /\ Mood(SchedRun(n)) = Mood(n)
  BY <1>5, OrderIsSteady, ScheduledMood
<1> QED BY <1>4, <1>6 DEF IsrEnd

\* u is woken, in a section, and a switch asked for.
LEMMA WakesOne ==
  ASSUME NEW n, WakesOnly(n, k), NEW u \in Threads
  PROVE  LET m == IsrYield(SetStatus(n, u, "pending"))
         IN WakesOnly(m, k) /\ Mood(m) = [Mood(n) EXCEPT ![u] = "ready"]
<1> DEFINE s == "pending"
           b == SetStatus(n, u, s)
           m == IsrYield(b)
<1>0. s \in Blocked \cup {"pending"} /\ s = "pending"
  OBVIOUS
<1> HIDE DEF s
<1>1. WellFormed(n) /\ InSection(n, k)
  BY DEF WakesOnly
<1>2. /\ WellFormed(b) /\ InSection(b, k)
      /\ \A v \in Threads : b.status[v] = IF v = u THEN s ELSE n.status[v]
      /\ Mood(b) = [Mood(n) EXCEPT ![u] = IF s = "pending" THEN "ready" ELSE s]
  BY <1>0, <1>1, StatusMood
<1> HIDE DEF b
<1>3. /\ WellFormed(m) /\ m.status = b.status /\ m.active = b.active /\ m.idle = b.idle
      /\ m.tail = b.tail /\ \A v \in Threads : IsReady(m, v) <=> IsReady(b, v)
  BY <1>2, RequestFacts DEF IsrYield
<1> HIDE DEF m
<1>4. WakesOnly(m, k)
  BY <1>0, <1>2, <1>3 DEF WakesOnly, InSection
<1>5. Mood(m) = [Mood(n) EXCEPT ![u] = "ready"]
  BY <1>0, <1>2, <1>3 DEF Mood
<1> QED BY <1>4, <1>5 DEF m, b, s

\* t exits.
LEMMA ExitSteady ==
  ASSUME NEW S, Steady(k, S), NEW t \in Threads, Calls(k, t), NEW T
  PROVE  LET m == SchedRun([SetStatus(k, t, "stopped") EXCEPT !.active = NoThread])
         IN Steady(m, T) /\ Mood(m) = [Mood(k) EXCEPT ![t] = "stopped"]
<1> DEFINE s == "stopped"
           n == SetStatus(k, t, s)
           m == [n EXCEPT !.active = NoThread]
<1>0. s \in Blocked \cup {"pending"} /\ s = "stopped" /\ s # "running"
  BY DEF Blocked
<1> HIDE DEF s
<1>1. WellFormed(k) /\ InSection(k, k)
  BY SectionStarts DEF Steady
<1>2. /\ WellFormed(n)
      /\ \A v \in Threads : n.status[v] = IF v = t THEN s ELSE k.status[v]
      /\ Mood(n) = [Mood(k) EXCEPT ![t] = IF s = "pending" THEN "ready" ELSE s]
  BY <1>0, <1>1, StatusMood
<1> HIDE DEF n
<1>3. /\ m \in Kernels /\ m.status = n.status /\ m.runq = n.runq /\ m.bits = n.bits
      /\ m.prio = n.prio
  BY <1>2 DEF WellFormed, Kernels
<1> HIDE DEF m
<1>4. \A u \in Threads : IsReady(m, u) <=> IsReady(n, u)
  BY <1>3 DEF IsReady
<1>5. WellFormed(m)
  BY <1>2, <1>3, <1>4, SameQueues
<1>6. k.active = t
  BY DEF Calls, Executes
<1>7. OneRunning(m)
  BY <1>0, <1>2, <1>3, <1>6 DEF Steady, OneRunning
<1>8. KernelOK(SchedRun(m)) /\ Scheduled(SchedRun(m), m)
  BY <1>5, <1>7, SchedRunOK
<1>9. Steady(SchedRun(m), T) /\ Mood(SchedRun(m)) = Mood(m)
  BY <1>8, OrderIsSteady, ScheduledMood
<1>10. Mood(m) = [Mood(k) EXCEPT ![t] = s]
  <2>1. Mood(m) = Mood(n)
    BY <1>3, <1>4 DEF Mood
  <2> QED BY <1>0, <1>2, <2>1
<1>11. Steady(SchedRun(m), T) /\ Mood(SchedRun(m)) = [Mood(k) EXCEPT ![t] = s]
  BY <1>9, <1>10
<1> QED BY <1>11 DEF m, n, s

(***************************************************************************)
(* The messages to one thread: s are those received and queued, w the       *)
(* senders blocked on it with the messages o, acc those accepted.           *)
(***************************************************************************)

Older(s, m) == \A i \in 1..Len(s) : s[i].from = m.from => s[i].id < m.id
Chrono(s) ==
  \A i, j \in 1..Len(s) : i < j /\ s[i].from = s[j].from => s[i].id < s[j].id

\* A message that is still with its sender is younger than those in front of it.
Mail(s, w, o, acc) ==
  /\ Chrono(s)
  /\ \A v \in Threads : Contains(w, v) => Older(s, o[v])
  /\ \A x \in Msgs : x \in acc <=> \/ Contains(s, x)
                                   \/ \E v \in Threads : Contains(w, v) /\ x = o[v]

Letters == [Threads -> Msgs \cup {NoMsg}]
FromSender(w, o) == \A v \in Threads : Contains(w, v) => o[v] \in Msgs /\ o[v].from = v

LEMMA MsgFields ==
  ASSUME NEW m \in Msgs
  PROVE  /\ m.id \in 1..MaxMsgs /\ m.id \in Nat /\ m.from \in Threads \cup {Isr}
         /\ m.ask \in BOOLEAN /\ m # NoMsg
<1>1. m.id \in 1..MaxMsgs /\ m.from \in Threads \cup {Isr} /\ m.ask \in BOOLEAN
  BY DEF Msgs
<1>2. m.id \in Nat /\ m.id # 0
  BY <1>1, MsgPartsOK
<1> QED BY <1>1, <1>2 DEF NoMsg

LEMMA ChronoAppend ==
  ASSUME NEW s \in Seq(Msgs), NEW m \in Msgs, Chrono(s), Older(s, m)
  PROVE  Chrono(Append(s, m))
<1> DEFINE a == Append(s, m)
<1>1. /\ Len(s) \in Nat /\ Len(a) = Len(s) + 1 /\ a[Len(s) + 1] = m
      /\ \A i \in 1..Len(s) : a[i] = s[i]
  OBVIOUS
<1> HIDE DEF a
<1>2. SUFFICES ASSUME NEW i \in 1..Len(a), NEW j \in 1..Len(a), i < j, a[i].from = a[j].from
               PROVE  a[i].id < a[j].id
  BY DEF Chrono, a
<1>3. i \in 1..Len(s) /\ a[i] = s[i]
  BY <1>1, <1>2
<1>4. CASE j \in 1..Len(s)
  BY <1>1, <1>2, <1>3, <1>4 DEF Chrono
<1>5. CASE j = Len(s) + 1
  BY <1>1, <1>2, <1>3, <1>5 DEF Older
<1> QED BY <1>1, <1>4, <1>5

LEMMA OlderAppend ==
  ASSUME NEW s \in Seq(Msgs), NEW m \in Msgs, NEW x, Older(s, x), m.from # x.from
  PROVE  Older(Append(s, m), x)
<1> DEFINE a == Append(s, m)
<1>1. /\ Len(s) \in Nat /\ Len(a) = Len(s) + 1 /\ a[Len(s) + 1] = m
      /\ \A i \in 1..Len(s) : a[i] = s[i]
  OBVIOUS
<1> HIDE DEF a
<1>2. SUFFICES ASSUME NEW i \in 1..Len(a), a[i].from = x.from PROVE a[i].id < x.id
  BY DEF Older, a
<1>3. i \in 1..Len(s) /\ a[i] = s[i]
  BY <1>1, <1>2
<1> QED BY <1>2, <1>3 DEF Older

\* The message just made is the youngest.
LEMMA NewestIsYounger ==
  ASSUME NEW n \in Nat, NEW s \in Seq(Msgs), NEW m \in Msgs, m.id = n + 1,
         \A x \in Msgs : Contains(s, x) => x.id <= n
  PROVE  Older(s, m) /\ ~Contains(s, m)
<1>1. \A i \in 1..Len(s) : s[i] \in Msgs /\ Contains(s, s[i])
  BY DEF Contains
<1>2. \A i \in 1..Len(s) : s[i].id <= n /\ s[i].id \in Nat
  BY <1>1, MsgFields
<1> QED BY <1>2 DEF Older, Contains

\* A new message is received or queued.
LEMMA MailPut ==
  ASSUME NEW s \in Seq(Msgs), NEW w \in Seq(Threads), NEW o \in Letters, NEW acc,
         Mail(s, w, o, acc), FromSender(w, o),
         NEW n \in Nat, NEW m \in Msgs, m.id = n + 1, \A x \in acc : x.id <= n,
         \A v \in Threads : Contains(w, v) => v # m.from
  PROVE  Mail(Append(s, m), w, o, acc \cup {m})
<1>1. \A x \in Msgs : Contains(s, x) => x.id <= n
  BY DEF Mail
<1>2. Older(s, m)
  BY <1>1, NewestIsYounger
<1>3. Chrono(Append(s, m))
  BY <1>2, ChronoAppend DEF Mail
<1>4. ASSUME NEW v \in Threads, Contains(w, v) PROVE Older(Append(s, m), o[v])
  <2>1. Older(s, o[v]) /\ m.from # o[v].from
    BY <1>4 DEF Mail, FromSender
  <2> QED BY <2>1, OlderAppend
<1>5. \A x : Contains(Append(s, m), x) <=> (x = m \/ Contains(s, x))
  BY GrowFacts
<1> QED BY <1>3, <1>4, <1>5 DEF Mail

\* A sender blocks with a new message.
LEMMA MailBlock ==
  ASSUME NEW s \in Seq(Msgs), NEW w \in Seq(Threads), NEW o \in Letters, NEW acc,
         Mail(s, w, o, acc), NEW n \in Nat, NEW m \in Msgs, m.id = n + 1,
         \A x \in acc : x.id <= n, NEW t \in Threads, ~Contains(w, t),
         NEW w2 \in Seq(Threads), \A v \in Threads : Contains(w2, v) <=> (v = t \/ Contains(w, v))
  PROVE  Mail(s, w2, [o EXCEPT ![t] = m], acc \cup {m})
<1> DEFINE p == [o EXCEPT ![t] = m]
<1>1. \A x \in Msgs : Contains(s, x) => x.id <= n
  BY DEF Mail
<1>2. Older(s, m)
  BY <1>1, NewestIsYounger
<1>3. \A v \in Threads : p[v] = IF v = t THEN m ELSE o[v]
  BY DEF Letters
<1> HIDE DEF p
<1>4. \A v \in Threads : Contains(w2, v) => Older(s, p[v])
  BY <1>2, <1>3 DEF Mail
<1>5. ASSUME NEW x \in Msgs
      PROVE  (\E v \in Threads : Contains(w2, v) /\ x = p[v])
               <=> x = m \/ \E v \in Threads : Contains(w, v) /\ x = o[v]
  BY <1>3
<1>6. Mail(s, w2, p, acc \cup {m})
  BY <1>4, <1>5 DEF Mail
<1> QED BY <1>6 DEF p

\* Another thread's message appears or goes.
LEMMA MailElsewhere ==
  ASSUME NEW s, NEW w, NEW o \in Letters, NEW acc, Mail(s, w, o, acc),
         NEW t \in Threads, ~Contains(w, t), NEW m
  PROVE  Mail(s, w, [o EXCEPT ![t] = m], acc)
<1> DEFINE p == [o EXCEPT ![t] = m]
<1>1. \A v \in Threads : Contains(w, v) => p[v] = o[v]
  BY DEF Letters
<1> HIDE DEF p
<1>2. Mail(s, w, p, acc)
  BY <1>1 DEF Mail
<1> QED BY <1>2 DEF p

\* The first waiter's message follows what was queued.
LEMMA MailTake ==
  ASSUME NEW s \in Seq(Msgs), NEW w \in Seq(Threads), NEW o \in Letters, NEW acc,
         Mail(s, w, o, acc), FromSender(w, o), NoDuplicates(w), w # << >>
  PROVE  Mail(Append(s, o[Head(w)]), Tail(w), [o EXCEPT ![Head(w)] = NoMsg], acc)
<1> DEFINE h == Head(w)
           m == o[h]
           p == [o EXCEPT ![h] = NoMsg]
           y == Tail(w)
<1>1. h \in Threads /\ Contains(w, h) /\ \A x : Contains(y, x) <=> (x # h /\ Contains(w, x))
  BY TailFacts
<1>2. \A v \in Threads : Contains(y, v) => p[v] = o[v]
  BY <1>1 DEF Letters
<1> HIDE DEF h, p, y
<1>3. m \in Msgs /\ m.from = h /\ Older(s, m)
  BY <1>1 DEF Mail, FromSender
<1>4. Chrono(Append(s, m))
  BY <1>3, ChronoAppend DEF Mail
<1>5. ASSUME NEW v \in Threads, Contains(y, v) PROVE Older(Append(s, m), p[v])
  <2>1. Older(s, o[v]) /\ m.from # o[v].from /\ p[v] = o[v]
    BY <1>1, <1>2, <1>3, <1>5 DEF Mail, FromSender
  <2> HIDE DEF m
  <2> QED BY <1>3, <2>1, OlderAppend
<1>6. \A x : Contains(Append(s, m), x) <=> (x = m \/ Contains(s, x))
  BY <1>3, GrowFacts
<1>7. ASSUME NEW x \in Msgs
      PROVE  (x = m \/ \E v \in Threads : Contains(y, v) /\ x = p[v])
               <=> \E v \in Threads : Contains(w, v) /\ x = o[v]
  BY <1>1, <1>2
<1>8. Mail(Append(s, m), y, p, acc)
  BY <1>4, <1>5, <1>6, <1>7 DEF Mail
<1> QED BY <1>8 DEF h, p, y

(***************************************************************************)
(* The invariant.  b has the moods of the threads and where the messages    *)
(* are; w, o, a, an, rp and n stand for waiters, out, asking, answer,       *)
(* replied and made.                                                        *)
(***************************************************************************)

Boxes == [mood     : [Threads -> Moods],
          queue    : [Threads -> Seq(Msgs)],
          received : [Threads -> Seq(Msgs)],
          accepted : [Threads -> SUBSET Msgs]]

Kept(b, u) == b.received[u] \o b.queue[u]

\* Who is in a list of waiters is blocked and has its message there.
Listings(f, w, o, a) ==
  /\ \A u \in Threads : NoDuplicates(w[u]) /\ FromSender(w[u], o)
  /\ \A t, u \in Threads : Contains(w[u], t) =>
       /\ f[t] \in {"send", "reply"} /\ a[t] \in {0, o[t].id}
       /\ \A v \in Threads \ {u} : ~Contains(w[v], t)
  /\ \A t \in Threads : f[t] = "send" => \E u \in Threads : Contains(w[u], t)

\* A thread in msg_send_receive is blocked or has its answer.
Answering(f, a, an, rp) ==
  \A t \in Threads : /\ a[t] # 0 => f[t] = "reply" \/ (f[t] = "ready" /\ an[t] = a[t])
                     /\ an[t] # 0 => an[t] \in rp

\* A receiver that sleeps has nothing to receive.
Sleeping(f, w, q) == \A u \in Threads : f[u] = "receive" => q[u] = << >> /\ w[u] = << >>

\* A request without a reply is the one its sender is in, and it is nowhere twice.
Asked(acc, rp, a, n) ==
  /\ \A u \in Threads : \A x \in acc[u] :
       /\ x.id <= n
       /\ x.ask => x.from \in Threads /\ (x.id \notin rp => a[x.from] = x.id)
  /\ \A u, v \in Threads : \A x \in acc[u], y \in acc[v] : u # v /\ x.ask => x.id # y.id

Typed(b, w, o, a, an, rp, n) ==
  /\ b \in Boxes /\ w \in [Threads -> Seq(Threads)] /\ o \in Letters
  /\ a \in [Threads -> 0..MaxMsgs] /\ an \in [Threads -> 0..MaxMsgs]
  /\ rp \subseteq 1..MaxMsgs /\ n \in 0..MaxMsgs

DataOK(b, w, o, a, an, rp, n) ==
  /\ Typed(b, w, o, a, an, rp, n)
  /\ Listings(b.mood, w, o, a) /\ Answering(b.mood, a, an, rp)
  /\ Sleeping(b.mood, w, b.queue) /\ Asked(b.accepted, rp, a, n)
  /\ \A u \in Threads : Mail(Kept(b, u), w[u], o, b.accepted[u])

\* The threads in no call and in no list: one that executes may be a stray.
Strays(w, a) == {t \in Threads : a[t] = 0 /\ \A u \in Threads : ~Contains(w[u], t)}

BoxOf(kk) ==
  [mood |-> Mood(kk), queue |-> queue, received |-> received, accepted |-> accepted]

MsgInv ==
  /\ Steady(k, Strays(waiters, asking))
  /\ exists \subseteq Threads /\ cap \in [Threads -> Nat]
  /\ \A t \in Threads : Len(queue[t]) <= cap[t]
  /\ DataOK(BoxOf(k), waiters, out, asking, answer, replied, made)

(***************************************************************************)
(* Delivery of a message m: from b to c it is put before v, or nothing       *)
(* happens to v.                                                            *)
(***************************************************************************)

Same(b, c, v) ==
  /\ c.mood[v] = b.mood[v] /\ c.queue[v] = b.queue[v]
  /\ c.received[v] = b.received[v] /\ c.accepted[v] = b.accepted[v]

Put(b, c, m, v) ==
  /\ c.accepted[v] = b.accepted[v] \cup {m}
  /\ \/ /\ b.mood[v] = "receive" /\ c.mood[v] = "ready"
        /\ c.queue[v] = b.queue[v] /\ c.received[v] = Append(b.received[v], m)
     \/ /\ b.mood[v] # "receive" /\ c.mood[v] = b.mood[v] /\ Len(b.queue[v]) < cap[v]
        /\ c.queue[v] = Append(b.queue[v], m) /\ c.received[v] = b.received[v]

Delivers(b, c, m) == \A v \in Threads : Same(b, c, v) \/ Put(b, c, m, v)

LEMMA BoxFields ==
  ASSUME NEW b \in Boxes, NEW u \in Threads
  PROVE  /\ b.mood[u] \in Moods /\ b.queue[u] \in Seq(Msgs) /\ b.received[u] \in Seq(Msgs)
         /\ b.accepted[u] \subseteq Msgs /\ Kept(b, u) \in Seq(Msgs)
<1>1. /\ b.mood[u] \in Moods /\ b.queue[u] \in Seq(Msgs) /\ b.received[u] \in Seq(Msgs)
      /\ b.accepted[u] \in SUBSET Msgs
  BY DEF Boxes
<1>2. b.received[u] \o b.queue[u] \in Seq(Msgs)
  BY <1>1
<1> QED BY <1>1, <1>2 DEF Kept

\* What is put before a thread follows all that is kept for it.
LEMMA PutKept ==
  ASSUME NEW b \in Boxes, NEW c \in Boxes, NEW m \in Msgs, NEW v \in Threads, Put(b, c, m, v),
         b.mood[v] = "receive" => b.queue[v] = << >>
  PROVE  Kept(c, v) = Append(Kept(b, v), m)
<1>1. b.queue[v] \in Seq(Msgs) /\ b.received[v] \in Seq(Msgs)
  BY BoxFields
<1>2. CASE b.mood[v] = "receive"
  <2>1. c.queue[v] = << >> /\ b.queue[v] = << >> /\ c.received[v] = Append(b.received[v], m)
    BY <1>2 DEF Put
  <2>2. Append(b.received[v], m) \in Seq(Msgs)
    BY <1>1
  <2>3. Kept(b, v) = b.received[v]
    BY <1>1, <2>1, ConcatEmptySeq DEF Kept
  <2>4. Kept(c, v) = Append(b.received[v], m)
    BY <2>1, <2>2, ConcatEmptySeq DEF Kept
  <2> QED BY <2>3, <2>4
<1>3. CASE b.mood[v] # "receive"
  <2>1. c.queue[v] = Append(b.queue[v], m) /\ c.received[v] = b.received[v]
    BY <1>3 DEF Put
  <2> DEFINE r == b.received[v]
             q == b.queue[v]
  <2> HIDE DEF r, q
  <2>2. r \in Seq(Msgs) /\ q \in Seq(Msgs) /\ Append(q, m) \in Seq(Msgs)
    BY <1>1 DEF r, q
  <2>3. Append(r \o q, m) = r \o Append(q, m)
    BY <2>2
  <2> QED BY <2>1, <2>3 DEF Kept, r, q
<1> QED BY <1>2, <1>3

\* A message that was not made before is delivered to some, a request to one; its
\* sender is not in a list.
LEMMA Delivered ==
  ASSUME NEW b, NEW w, NEW o, NEW a, NEW an, NEW rp, NEW n,
         DataOK(b, w, o, a, an, rp, n), n + 1 \in 0..MaxMsgs,
         NEW m \in Msgs, m.id = n + 1, NEW c \in Boxes, Delivers(b, c, m),
         \A u \in Threads : ~Contains(w[u], m.from),
         m.ask => /\ m.from \in Threads /\ a[m.from] = m.id
                  /\ \E u \in Threads : \A v \in Threads \ {u} : Same(b, c, v)
  PROVE  DataOK(c, w, o, a, an, rp, n + 1)
<1>1. /\ b \in Boxes /\ w \in [Threads -> Seq(Threads)] /\ o \in Letters
      /\ n \in Nat /\ Typed(c, w, o, a, an, rp, n + 1)
  BY MsgPartsOK DEF DataOK, Typed
<1>2. \A v \in Threads : Same(b, c, v) \/ Put(b, c, m, v)
  BY DEF Delivers
<1>3. \A v \in Threads :
        \/ c.mood[v] = b.mood[v]
        \/ b.mood[v] = "receive" /\ c.mood[v] = "ready"
  BY <1>2 DEF Same, Put
<1>4. Listings(c.mood, w, o, a)
  BY <1>3 DEF DataOK, Listings
<1>5. Answering(c.mood, a, an, rp)
  BY <1>3 DEF DataOK, Answering
<1>6. Sleeping(c.mood, w, c.queue)
  BY <1>2 DEF DataOK, Sleeping, Same, Put
<1>7. ASSUME NEW u \in Threads
      PROVE  Mail(Kept(c, u), w[u], o, c.accepted[u])
  <2>1. Mail(Kept(b, u), w[u], o, b.accepted[u])
    BY DEF DataOK
  <2>2. CASE Same(b, c, u)
    BY <2>1, <2>2 DEF Same, Kept
  <2>3. CASE Put(b, c, m, u)
    <3>1. b.mood[u] = "receive" => b.queue[u] = << >>
      BY DEF DataOK, Sleeping
    <3>0. c.accepted[u] = b.accepted[u] \cup {m}
      BY <2>3 DEF Put
    <3>2. Kept(c, u) = Append(Kept(b, u), m)
      BY <1>1, <2>3, <3>1, PutKept, SMT
    <3>3. Kept(b, u) \in Seq(Msgs) /\ w[u] \in Seq(Threads) /\ FromSender(w[u], o)
      BY <1>1, BoxFields DEF DataOK, Listings
    <3>4. \A x \in b.accepted[u] : x.id <= n
      BY DEF DataOK, Asked
    <3>5. \A v \in Threads : Contains(w[u], v) => v # m.from
      OBVIOUS
    <3> DEFINE s == Kept(b, u)
               y == w[u]
               acc == b.accepted[u]
    <3> HIDE DEF s, y, acc
    <3>6. Mail(Append(s, m), y, o, acc \cup {m})
      <4>1. /\ s \in Seq(Msgs) /\ y \in Seq(Threads) /\ FromSender(y, o) /\ Mail(s, y, o, acc)
            /\ \A x \in acc : x.id <= n
            /\ \A v \in Threads : Contains(y, v) => v # m.from
        BY <2>1, <3>3, <3>4, <3>5 DEF s, y, acc
      <4> QED BY <1>1, <4>1, MailPut
    <3> QED BY <3>0, <3>2, <3>6 DEF s, y, acc
  <2> QED BY <1>2, <2>2, <2>3
<1>8. \A u \in Threads : c.accepted[u] = b.accepted[u] \/ c.accepted[u] = b.accepted[u] \cup {m}
  BY <1>2 DEF Same, Put
<1>9. \A u \in Threads : \A x \in b.accepted[u] : x.id <= n /\ x.id \in Nat
  <2>1. \A u \in Threads : \A x \in b.accepted[u] : x \in Msgs
    BY <1>1, BoxFields
  <2> QED BY <2>1, MsgFields DEF DataOK, Asked
<1>10. Asked(c.accepted, rp, a, n + 1)
  <2>1. ASSUME NEW u \in Threads, NEW x \in c.accepted[u]
        PROVE  /\ x.id <= n + 1
               /\ x.ask => x.from \in Threads /\ (x.id \notin rp => a[x.from] = x.id)
    <3>1. CASE x \in b.accepted[u]
      BY <1>1, <1>9, <3>1 DEF DataOK, Asked
    <3>2. CASE x = m
      BY <1>1, <3>2
    <3> QED BY <1>8, <3>1, <3>2
  <2>2. ASSUME NEW u \in Threads, NEW v \in Threads, NEW x \in c.accepted[u],
               NEW y \in c.accepted[v], u # v, x.ask
        PROVE  x.id # y.id
    <3>1. CASE x \in b.accepted[u] /\ y \in b.accepted[v]
      BY <2>2, <3>1 DEF DataOK, Asked
    <3>2. CASE x \in b.accepted[u] /\ y = m
      BY <1>1, <1>9, <3>2
    <3>3. CASE x = m /\ y \in b.accepted[v]
      BY <1>1, <1>9, <3>3
    <3>4. CASE x = m /\ y = m
      <4>1. x \notin b.accepted[u] /\ y \notin b.accepted[v]
        BY <1>1, <1>9, <3>4
      <4>2. ~Same(b, c, u) /\ ~Same(b, c, v)
        BY <4>1 DEF Same
      <4> QED BY <2>2, <3>4, <4>2
    <3> QED BY <1>8, <3>1, <3>2, <3>3, <3>4
  <2> QED BY <2>1, <2>2 DEF Asked
<1> QED BY <1>1, <1>4, <1>5, <1>6, <1>7, <1>10 DEF DataOK

(***************************************************************************)
(* The other steps.                                                        *)
(***************************************************************************)

Unlisted(w, t) == \A u \in Threads : ~Contains(w[u], t)

\* Another mood of a thread that is in no list and in no request.
LEMMA MoodChanges ==
  ASSUME NEW b, NEW w, NEW o, NEW a, NEW an, NEW rp, NEW n,
         DataOK(b, w, o, a, an, rp, n), NEW t \in Threads, NEW s \in Moods,
         Unlisted(w, t), a[t] = 0, s # "send",
         s = "receive" => b.queue[t] = << >> /\ w[t] = << >>
  PROVE  DataOK([b EXCEPT !.mood = [b.mood EXCEPT ![t] = s]], w, o, a, an, rp, n)
<1> DEFINE f == [b.mood EXCEPT ![t] = s]
           c == [b EXCEPT !.mood = f]
<1>1. b \in Boxes /\ b.mood \in [Threads -> Moods]
  BY DEF DataOK, Typed, Boxes
<1>2. f \in [Threads -> Moods] /\ \A v \in Threads : f[v] = IF v = t THEN s ELSE b.mood[v]
  BY <1>1
<1> HIDE DEF f
<1>3. /\ c \in Boxes /\ c.mood = f /\ c.queue = b.queue /\ c.received = b.received
      /\ c.accepted = b.accepted
  BY <1>1, <1>2 DEF Boxes
<1> HIDE DEF c
<1>4. Listings(f, w, o, a)
  BY <1>2 DEF DataOK, Listings, Unlisted
<1>5. Answering(f, a, an, rp)
  BY <1>2 DEF DataOK, Answering
<1>6. Sleeping(f, w, b.queue)
  BY <1>2 DEF DataOK, Sleeping
<1>7. DataOK(c, w, o, a, an, rp, n)
  BY <1>3, <1>4, <1>5, <1>6 DEF DataOK, Typed, Kept
<1> QED BY <1>7 DEF c, f

\* t enters msg_send_receive with a request it is about to make.
LEMMA AskBegins ==
  ASSUME NEW b, NEW w, NEW o, NEW a, NEW an, NEW rp, NEW n,
         DataOK(b, w, o, a, an, rp, n), n + 1 \in 0..MaxMsgs, NEW t \in Threads,
         Unlisted(w, t), a[t] = 0
  PROVE  DataOK([b EXCEPT !.mood = [b.mood EXCEPT ![t] = "reply"]],
                w, o, [a EXCEPT ![t] = n + 1], an, rp, n)
<1> DEFINE s == "reply"
           f == [b.mood EXCEPT ![t] = s]
           c == [b EXCEPT !.mood = f]
           x == [a EXCEPT ![t] = n + 1]
<1>0. s \in Moods /\ s = "reply"
  BY DEF Moods, Blocked
<1> HIDE DEF s
<1>1. b \in Boxes /\ b.mood \in [Threads -> Moods] /\ a \in [Threads -> 0..MaxMsgs]
  BY DEF DataOK, Typed, Boxes
<1>2. f \in [Threads -> Moods] /\ \A v \in Threads : f[v] = IF v = t THEN s ELSE b.mood[v]
  BY <1>0, <1>1
<1> HIDE DEF f
<1>3. /\ c \in Boxes /\ c.mood = f /\ c.queue = b.queue /\ c.received = b.received
      /\ c.accepted = b.accepted
  BY <1>1, <1>2 DEF Boxes
<1> HIDE DEF c
<1>4. /\ x \in [Threads -> 0..MaxMsgs]
      /\ \A v \in Threads : x[v] = IF v = t THEN n + 1 ELSE a[v]
  BY <1>1
<1> HIDE DEF x
<1>5. Listings(f, w, o, x)
  BY <1>0, <1>2, <1>4 DEF DataOK, Listings, Unlisted
<1>6. Answering(f, x, an, rp)
  BY <1>0, <1>2, <1>4 DEF DataOK, Answering
<1>7. Sleeping(f, w, b.queue)
  BY <1>0, <1>2 DEF DataOK, Sleeping
<1>8. Asked(b.accepted, rp, x, n)
  <2>1. \A u \in Threads : \A y \in b.accepted[u] : y.id # 0
    <3>1. \A u \in Threads : b.accepted[u] \subseteq Msgs
      BY <1>1, BoxFields
    <3>2. \A y \in Msgs : y.id # 0
      BY MsgFields
    <3> QED BY <3>1, <3>2
  <2>2. \A u \in Threads : \A y \in b.accepted[u] :
          y.ask => y.from \in Threads /\ (y.id \notin rp => a[y.from] = y.id /\ y.from # t)
    BY <2>1 DEF DataOK, Asked
  <2> QED BY <1>4, <2>2 DEF DataOK, Asked
<1>9. DataOK(c, w, o, x, an, rp, n)
  BY <1>3, <1>4, <1>5, <1>6, <1>7, <1>8 DEF DataOK, Typed, Kept
<1> QED BY <1>9 DEF c, f, x, s

\* msg_send_receive returns.
LEMMA AskEnds ==
  ASSUME NEW b, NEW w, NEW o, NEW a, NEW an, NEW rp, NEW n,
         DataOK(b, w, o, a, an, rp, n), NEW t \in Threads, a[t] # 0, b.mood[t] = "ready"
  PROVE  DataOK(b, w, o, [a EXCEPT ![t] = 0], an, rp, n)
<1> DEFINE x == [a EXCEPT ![t] = 0]
<1>1. a \in [Threads -> 0..MaxMsgs] /\ 0 \in 0..MaxMsgs
  BY MsgPartsOK DEF DataOK, Typed
<1>2. x \in [Threads -> 0..MaxMsgs] /\ \A v \in Threads : x[v] = IF v = t THEN 0 ELSE a[v]
  BY <1>1
<1> HIDE DEF x
<1>3. Listings(b.mood, w, o, x)
  BY <1>2 DEF DataOK, Listings
<1>4. Answering(b.mood, x, an, rp)
  BY <1>2 DEF DataOK, Answering
<1>5. a[t] \in rp
  BY DEF DataOK, Answering
<1>6. \A u \in Threads : \A y \in b.accepted[u] :
        y.ask => y.from \in Threads /\ (y.id \notin rp => a[y.from] = y.id /\ y.from # t)
  BY <1>5 DEF DataOK, Asked
<1>7. Asked(b.accepted, rp, x, n)
  BY <1>2, <1>6 DEF DataOK, Asked
<1>8. DataOK(b, w, o, x, an, rp, n)
  BY <1>2, <1>3, <1>4, <1>7 DEF DataOK, Typed
<1> QED BY <1>8 DEF x

\* The request m, which t has received, is answered: its sender is in no list.
LEMMA Replies ==
  ASSUME NEW b, NEW w, NEW o, NEW a, NEW an, NEW rp, NEW n,
         DataOK(b, w, o, a, an, rp, n), NEW t \in Threads, NEW m \in Msgs,
         Contains(b.received[t], m), m.ask, m.id \notin rp
  PROVE  /\ m.from \in Threads
         /\ DataOK([b EXCEPT !.mood = [b.mood EXCEPT ![m.from] = "ready"]], w, o, a,
                   [an EXCEPT ![m.from] = m.id], rp \cup {m.id}, n)
<1> DEFINE s == "ready"
           v == m.from
           f == [b.mood EXCEPT ![v] = s]
           c == [b EXCEPT !.mood = f]
           x == [an EXCEPT ![v] = m.id]
           r == rp \cup {m.id}
<1>0. s \in Moods /\ s = "ready"
  BY DEF Moods
<1> HIDE DEF s
<1>1. /\ b \in Boxes /\ b.mood \in [Threads -> Moods] /\ an \in [Threads -> 0..MaxMsgs]
      /\ w \in [Threads -> Seq(Threads)]
  BY DEF DataOK, Typed, Boxes
<1>2. Contains(Kept(b, t), m)
  <2>1. b.received[t] \in Seq(Msgs) /\ b.queue[t] \in Seq(Msgs)
    BY <1>1, BoxFields
  <2> QED BY <2>1, ConcatFacts DEF Kept
<1>3. m \in b.accepted[t]
  BY <1>2 DEF DataOK, Mail
<1>4. v \in Threads /\ a[v] = m.id /\ m.id \in 1..MaxMsgs /\ m.id \in Nat /\ m.id \in 0..MaxMsgs
  <2>1. v \in Threads /\ a[v] = m.id
    BY <1>3 DEF DataOK, Asked
  <2>2. m.id \in 1..MaxMsgs /\ m.id \in Nat
    BY MsgFields
  <2> QED BY <2>1, <2>2, MsgPartsOK
<1>5. ASSUME NEW u \in Threads, Contains(w[u], v) PROVE FALSE
  <2>1. o[v] \in Msgs /\ o[v].from = v /\ o[v].id = m.id
    <3>1. a[v] \in {0, o[v].id} /\ FromSender(w[u], o)
      BY <1>4, <1>5 DEF DataOK, Listings
    <3> QED BY <1>4, <1>5, <3>1 DEF FromSender
  <2>2. Mail(Kept(b, u), w[u], o, b.accepted[u])
    BY DEF DataOK
  <2>3. o[v] \in b.accepted[u]
    BY <1>4, <1>5, <2>1, <2>2 DEF Mail
  <2>4. CASE u = t
    <3>1. Older(Kept(b, t), o[v])
      BY <1>4, <1>5, <2>2, <2>4 DEF Mail
    <3>2. m.id < o[v].id
      BY <1>2, <2>1, <3>1 DEF Older, Contains
    <3> QED BY <1>4, <2>1, <3>2
  <2>5. CASE u # t
    BY <1>3, <2>1, <2>3, <2>5 DEF DataOK, Asked
  <2> QED BY <2>4, <2>5
<1> HIDE DEF v
<1>6. f \in [Threads -> Moods] /\ \A y \in Threads : f[y] = IF y = v THEN s ELSE b.mood[y]
  BY <1>0, <1>1, <1>4
<1> HIDE DEF f
<1>7. /\ c \in Boxes /\ c.mood = f /\ c.queue = b.queue /\ c.received = b.received
      /\ c.accepted = b.accepted
  BY <1>1, <1>6 DEF Boxes
<1> HIDE DEF c
<1>8. /\ x \in [Threads -> 0..MaxMsgs]
      /\ \A y \in Threads : x[y] = IF y = v THEN m.id ELSE an[y]
  BY <1>1, <1>4
<1> HIDE DEF x
<1>9. Listings(f, w, o, a)
  BY <1>0, <1>5, <1>6 DEF DataOK, Listings
<1>10. Answering(f, a, x, r)
  BY <1>0, <1>4, <1>6, <1>8 DEF DataOK, Answering
<1>11. Sleeping(f, w, b.queue)
  BY <1>0, <1>6 DEF DataOK, Sleeping
<1>12. Asked(b.accepted, r, a, n) /\ r \subseteq 1..MaxMsgs
  BY <1>4 DEF DataOK, Asked, Typed
<1> HIDE DEF r
<1>13. DataOK(c, w, o, a, x, r, n)
  BY <1>7, <1>8, <1>9, <1>10, <1>11, <1>12 DEF DataOK, Typed, Kept
<1> QED BY <1>4, <1>13 DEF c, f, x, r, s, v

\* Nothing blocked, and what is received was the oldest in the queue.
LEMMA KeptSame ==
  ASSUME NEW b, NEW w, NEW o, NEW a, NEW an, NEW rp, NEW n,
         DataOK(b, w, o, a, an, rp, n), NEW c \in Boxes,
         c.mood = b.mood, c.accepted = b.accepted,
         \A u \in Threads : Kept(c, u) = Kept(b, u),
         \A u \in Threads : b.mood[u] = "receive" => c.queue[u] = b.queue[u]
  PROVE  DataOK(c, w, o, a, an, rp, n)
BY DEF DataOK, Typed, Sleeping

\* t blocks on u with a message m that was not made before.
LEMMA Blocks ==
  ASSUME NEW b, NEW w, NEW o, NEW a, NEW an, NEW rp, NEW n,
         DataOK(b, w, o, a, an, rp, n), n + 1 \in 0..MaxMsgs,
         NEW t \in Threads, NEW u \in Threads, t # u, NEW m \in Msgs, m.id = n + 1, m.from = t,
         Unlisted(w, t), b.mood[u] # "receive", NEW kk \in Kernels,
         NEW s \in {"send", "reply"}, a[t] \in {0, m.id}, a[t] # 0 => s = "reply",
         m.ask => a[t] = m.id
  PROVE  DataOK([mood |-> [b.mood EXCEPT ![t] = s], queue |-> b.queue, received |-> b.received,
                 accepted |-> [b.accepted EXCEPT ![u] = b.accepted[u] \cup {m}]],
                [w EXCEPT ![u] = AddToList(kk, w[u], t)], [o EXCEPT ![t] = m], a, an, rp, n + 1)
<1> DEFINE f == [b.mood EXCEPT ![t] = s]
           e == [b.accepted EXCEPT ![u] = b.accepted[u] \cup {m}]
           l == AddToList(kk, w[u], t)
           y == [w EXCEPT ![u] = l]
           p == [o EXCEPT ![t] = m]
           c == [mood |-> f, queue |-> b.queue, received |-> b.received, accepted |-> e]
<1>1. /\ b \in Boxes /\ b.mood \in [Threads -> Moods] /\ b.accepted \in [Threads -> SUBSET Msgs]
      /\ w \in [Threads -> Seq(Threads)] /\ o \in Letters /\ n \in Nat /\ s \in Moods
  BY MsgPartsOK DEF DataOK, Typed, Boxes, Moods, Blocked
<1>2. /\ l \in Seq(Threads) /\ NoDuplicates(l)
      /\ \A v : Contains(l, v) <=> (v = t \/ Contains(w[u], v))
  <2>1. w[u] \in Seq(Threads) /\ NoDuplicates(w[u]) /\ ~Contains(w[u], t)
    BY <1>1 DEF DataOK, Listings, Unlisted
  <2> QED BY <2>1, AddFacts
<1> HIDE DEF l
<1>3. f \in [Threads -> Moods] /\ \A v \in Threads : f[v] = IF v = t THEN s ELSE b.mood[v]
  BY <1>1
<1> HIDE DEF f
<1>4. /\ e \in [Threads -> SUBSET Msgs]
      /\ \A v \in Threads : e[v] = IF v = u THEN b.accepted[u] \cup {m} ELSE b.accepted[v]
  BY <1>1
<1> HIDE DEF e
<1>5. /\ y \in [Threads -> Seq(Threads)]
      /\ \A v \in Threads : y[v] = IF v = u THEN l ELSE w[v]
  BY <1>1, <1>2
<1>6. p \in Letters /\ \A v \in Threads : p[v] = IF v = t THEN m ELSE o[v]
  BY <1>1 DEF Letters
<1>7. /\ c \in Boxes /\ c.mood = f /\ c.queue = b.queue /\ c.received = b.received
      /\ c.accepted = e
  BY <1>1, <1>3, <1>4 DEF Boxes
<1> HIDE DEF c, y
<1>8. \A v, z \in Threads : Contains(y[v], z) <=> (Contains(w[v], z) \/ (v = u /\ z = t))
  BY <1>2, <1>5
<1>9. Listings(f, y, p, a)
  <2> HIDE DEF p
  <2>1. \A v \in Threads : NoDuplicates(y[v])
    BY <1>2, <1>5 DEF DataOK, Listings
  <2>2. \A v \in Threads : FromSender(y[v], p)
    BY <1>6, <1>8 DEF DataOK, Listings, FromSender
  <2>3. ASSUME NEW z \in Threads, NEW v \in Threads, Contains(y[v], z)
        PROVE  /\ f[z] \in {"send", "reply"} /\ a[z] \in {0, p[z].id}
               /\ \A x \in Threads \ {v} : ~Contains(y[x], z)
    <3>1. CASE z = t
      <4>1. v = u
        BY <1>8, <2>3, <3>1 DEF Unlisted
      <4> QED BY <1>3, <1>6, <1>8, <3>1, <4>1 DEF Unlisted
    <3>2. CASE z # t
      <4>1. Contains(w[v], z)
        BY <1>8, <2>3, <3>2
      <4>2. /\ b.mood[z] \in {"send", "reply"} /\ a[z] \in {0, o[z].id}
            /\ \A x \in Threads \ {v} : ~Contains(w[x], z)
        BY <4>1 DEF DataOK, Listings
      <4> QED BY <1>3, <1>6, <1>8, <3>2, <4>2
    <3> QED BY <3>1, <3>2
  <2>4. \A z \in Threads : f[z] = "send" => \E v \in Threads : Contains(y[v], z)
    BY <1>3, <1>8 DEF DataOK, Listings
  <2> QED BY <2>1, <2>2, <2>3, <2>4 DEF Listings
<1>10. Answering(f, a, an, rp)
  BY <1>3 DEF DataOK, Answering
<1>11. Sleeping(f, y, b.queue)
  BY <1>3, <1>5 DEF DataOK, Sleeping
<1>12. \A v \in Threads : \A x \in b.accepted[v] : x.id <= n /\ x.id \in Nat
  <2>1. \A v \in Threads : \A x \in b.accepted[v] : x \in Msgs
    BY <1>1, BoxFields
  <2> QED BY <2>1, MsgFields DEF DataOK, Asked
<1>13. ASSUME NEW v \in Threads
       PROVE  Mail(Kept(b, v), y[v], p, e[v])
  <2>1. Mail(Kept(b, v), w[v], o, b.accepted[v]) /\ ~Contains(w[v], t)
    BY DEF DataOK, Unlisted
  <2>2. CASE v # u
    <3>1. Mail(Kept(b, v), w[v], p, b.accepted[v])
      <4> DEFINE q == Kept(b, v)
                 z == w[v]
                 acc == b.accepted[v]
      <4> HIDE DEF q, z, acc
      <4>1. Mail(q, z, o, acc) /\ ~Contains(z, t)
        BY <2>1 DEF q, z, acc
      <4>2. Mail(q, z, p, acc)
        BY <1>1, <4>1, MailElsewhere
      <4> QED BY <4>2 DEF q, z, acc
    <3> QED BY <1>4, <1>5, <2>2, <3>1
  <2>3. CASE v = u
    <3>1. Kept(b, u) \in Seq(Msgs) /\ w[u] \in Seq(Threads)
      BY <1>1, BoxFields
    <3>2. Mail(Kept(b, u), l, p, b.accepted[u] \cup {m})
      <4> DEFINE q == Kept(b, u)
                 z == w[u]
                 acc == b.accepted[u]
      <4> HIDE DEF q, z, acc
      <4>1. /\ Mail(q, z, o, acc) /\ ~Contains(z, t) /\ q \in Seq(Msgs) /\ z \in Seq(Threads)
            /\ \A x \in acc : x.id <= n
        BY <1>12, <2>1, <2>3, <3>1 DEF q, z, acc
      <4>2. l \in Seq(Threads) /\ \A x \in Threads : Contains(l, x) <=> (x = t \/ Contains(z, x))
        BY <1>2 DEF z
      <4>3. Mail(q, l, p, acc \cup {m})
        BY <1>1, <4>1, <4>2, MailBlock
      <4> QED BY <4>3 DEF q, z, acc
    <3> QED BY <1>4, <1>5, <2>3, <3>2
  <2> QED BY <2>2, <2>3
<1>14. Asked(e, rp, a, n + 1)
  <2>1. ASSUME NEW v \in Threads, NEW x \in e[v]
        PROVE  /\ x.id <= n + 1
               /\ x.ask => x.from \in Threads /\ (x.id \notin rp => a[x.from] = x.id)
    <3>1. CASE x \in b.accepted[v]
      BY <1>1, <1>12, <3>1 DEF DataOK, Asked
    <3>2. CASE x = m
      BY <1>1, <3>2
    <3> QED BY <1>4, <3>1, <3>2
  <2>2. ASSUME NEW v \in Threads, NEW z \in Threads, NEW x \in e[v], NEW r \in e[z],
               v # z, x.ask
        PROVE  x.id # r.id
    <3>1. CASE x \in b.accepted[v] /\ r \in b.accepted[z]
      BY <2>2, <3>1 DEF DataOK, Asked
    <3>2. CASE x \in b.accepted[v] /\ r = m
      BY <1>1, <1>12, <3>2
    <3>3. CASE x = m /\ r \in b.accepted[z]
      BY <1>1, <1>12, <3>3
    <3>4. CASE x = m /\ r = m /\ x \notin b.accepted[v] /\ r \notin b.accepted[z]
      BY <1>4, <2>2, <3>4
    <3> QED BY <1>4, <3>1, <3>2, <3>3, <3>4
  <2> QED BY <2>1, <2>2 DEF Asked
<1> HIDE DEF p
<1>15. DataOK(c, y, p, a, an, rp, n + 1)
  <2>1. \A v \in Threads : Kept(c, v) = Kept(b, v)
    BY <1>7 DEF Kept
  <2>2. Typed(c, y, p, a, an, rp, n + 1)
    BY <1>5, <1>6, <1>7 DEF DataOK, Typed
  <2> QED BY <1>7, <1>9, <1>10, <1>11, <1>13, <1>14, <2>1, <2>2 DEF DataOK
<1> QED BY <1>15 DEF c, y, p, f, e, l

\* h is freed unless it waits for a reply.
Frees(b, c, h) ==
  c.mood = IF b.mood[h] = "reply" THEN b.mood ELSE [b.mood EXCEPT ![h] = "ready"]
Follows(b, c, t, m) == Kept(c, t) = Append(Kept(b, t), m)

\* t takes the message of the first thread that is blocked on it.
LEMMA Takes ==
  ASSUME NEW b, NEW w, NEW o, NEW a, NEW an, NEW rp, NEW n,
         DataOK(b, w, o, a, an, rp, n), NEW t \in Threads, w[t] # << >>,
         NEW h \in Threads, h = Head(w[t]), NEW c \in Boxes,
         Frees(b, c, h), c.accepted = b.accepted, b.mood[t] # "receive",
         Follows(b, c, t, o[h]),
         \A u \in Threads \ {t} : c.queue[u] = b.queue[u] /\ c.received[u] = b.received[u]
  PROVE  DataOK(c, [w EXCEPT ![t] = Tail(w[t])], [o EXCEPT ![h] = NoMsg], a, an, rp, n)
<1> DEFINE l == Tail(w[t])
           y == [w EXCEPT ![t] = l]
           p == [o EXCEPT ![h] = NoMsg]
           f == c.mood
<1>1. /\ b \in Boxes /\ b.mood \in [Threads -> Moods]
      /\ w \in [Threads -> Seq(Threads)] /\ o \in Letters
  BY DEF DataOK, Typed, Boxes
<1>2. /\ l \in Seq(Threads) /\ NoDuplicates(l) /\ Contains(w[t], h)
      /\ \A v : Contains(l, v) <=> (v # h /\ Contains(w[t], v))
  <2>1. w[t] \in Seq(Threads) /\ NoDuplicates(w[t])
    BY <1>1 DEF DataOK, Listings
  <2> QED BY <2>1, TailFacts
<1>3. \A v \in Threads \ {t} : ~Contains(w[v], h)
  BY <1>2 DEF DataOK, Listings
<1>4. \A v \in Threads : f[v] = IF v = h /\ b.mood[h] # "reply" THEN "ready" ELSE b.mood[v]
  BY <1>1 DEF Frees
<1>5. /\ y \in [Threads -> Seq(Threads)]
      /\ \A v \in Threads : y[v] = IF v = t THEN l ELSE w[v]
  BY <1>1, <1>2
<1>6. p \in Letters /\ \A v \in Threads : v # h => p[v] = o[v]
  BY <1>1 DEF Letters
<1> HIDE DEF l, y, p, f
<1>7. \A v, z \in Threads : Contains(y[v], z) <=> (Contains(w[v], z) /\ z # h)
  BY <1>2, <1>3, <1>5
<1>8. Listings(f, y, p, a)
  <2>1. \A v \in Threads : NoDuplicates(y[v])
    BY <1>2, <1>5 DEF DataOK, Listings
  <2>2. \A v \in Threads : FromSender(y[v], p)
    BY <1>6, <1>7 DEF DataOK, Listings, FromSender
  <2>3. ASSUME NEW z \in Threads, NEW v \in Threads, Contains(y[v], z)
        PROVE  /\ f[z] \in {"send", "reply"} /\ a[z] \in {0, p[z].id}
               /\ \A x \in Threads \ {v} : ~Contains(y[x], z)
    <3>1. Contains(w[v], z) /\ z # h
      BY <1>7, <2>3
    <3>2. /\ b.mood[z] \in {"send", "reply"} /\ a[z] \in {0, o[z].id}
          /\ \A x \in Threads \ {v} : ~Contains(w[x], z)
      BY <3>1 DEF DataOK, Listings
    <3> QED BY <1>4, <1>6, <1>7, <3>1, <3>2
  <2>4. ASSUME NEW z \in Threads, f[z] = "send"
        PROVE  \E v \in Threads : Contains(y[v], z)
    <3>1. z # h /\ b.mood[z] = "send"
      <4>1. b.mood[h] \in {"send", "reply"}
        BY <1>2 DEF DataOK, Listings
      <4> QED BY <1>4, <2>4, <4>1
    <3>2. \E v \in Threads : Contains(w[v], z)
      BY <3>1 DEF DataOK, Listings
    <3> QED BY <1>7, <3>1, <3>2
  <2> QED BY <2>1, <2>2, <2>3, <2>4 DEF Listings
<1>9. b.mood[h] # "reply" => a[h] = 0
  <2>1. b.mood[h] \in {"send", "reply"}
    BY <1>2 DEF DataOK, Listings
  <2> QED BY <2>1 DEF DataOK, Answering
<1>10. Answering(f, a, an, rp)
  BY <1>4, <1>9 DEF DataOK, Answering
<1>11. Sleeping(f, y, c.queue)
  <2>1. \A u \in Threads : f[u] = "receive" => u # t /\ b.mood[u] = "receive"
    BY <1>4
  <2> QED BY <1>5, <2>1 DEF DataOK, Sleeping
<1>12. ASSUME NEW v \in Threads
       PROVE  Mail(Kept(c, v), y[v], p, c.accepted[v])
  <2>1. Mail(Kept(b, v), w[v], o, b.accepted[v])
    BY DEF DataOK
  <2>2. CASE v # t
    <3>1. Mail(Kept(b, v), w[v], p, b.accepted[v])
      <4> DEFINE q == Kept(b, v)
                 z == w[v]
                 acc == b.accepted[v]
      <4> HIDE DEF q, z, acc
      <4>1. Mail(q, z, o, acc) /\ ~Contains(z, h)
        BY <1>3, <2>1, <2>2 DEF q, z, acc
      <4>2. Mail(q, z, p, acc)
        BY <1>1, <4>1, MailElsewhere DEF p
      <4> QED BY <4>2 DEF q, z, acc
    <3>2. Kept(c, v) = Kept(b, v)
      BY <2>2 DEF Kept
    <3> QED BY <1>5, <2>2, <3>1, <3>2
  <2>3. CASE v = t
    <3>1. /\ Kept(b, t) \in Seq(Msgs) /\ w[t] \in Seq(Threads)
          /\ FromSender(w[t], o) /\ NoDuplicates(w[t])
      BY <1>1, BoxFields DEF DataOK, Listings
    <3>2. Mail(Append(Kept(b, t), o[h]), l, p, b.accepted[t])
      <4> DEFINE q == Kept(b, t)
                 z == w[t]
                 acc == b.accepted[t]
      <4> HIDE DEF q, z, acc
      <4>1. /\ Mail(q, z, o, acc) /\ q \in Seq(Msgs) /\ z \in Seq(Threads)
            /\ FromSender(z, o) /\ NoDuplicates(z) /\ z # << >>
        BY <2>1, <2>3, <3>1 DEF q, z, acc
      <4>2. Mail(Append(q, o[Head(z)]), Tail(z), [o EXCEPT ![Head(z)] = NoMsg], acc)
        BY <1>1, <4>1, MailTake
      <4> QED BY <4>2 DEF q, z, acc, l, p
    <3> QED BY <1>5, <2>3, <3>2 DEF Follows
  <2> QED BY <2>2, <2>3
<1>13. DataOK(c, y, p, a, an, rp, n)
  <2>1. Typed(c, y, p, a, an, rp, n) /\ Asked(c.accepted, rp, a, n)
    BY <1>5, <1>6 DEF DataOK, Typed
  <2> QED BY <1>8, <1>10, <1>11, <1>12, <2>1 DEF DataOK, f
<1> QED BY <1>13 DEF y, p, l

(***************************************************************************)
(* Sends of one thread t to one thread u.                                   *)
(***************************************************************************)

LEMMA BoxTyped ==
  ASSUME NEW kk \in Kernels, NEW q \in [Threads -> Seq(Msgs)],
         NEW r \in [Threads -> Seq(Msgs)], NEW e \in [Threads -> SUBSET Msgs]
  PROVE  [mood |-> Mood(kk), queue |-> q, received |-> r, accepted |-> e] \in Boxes
BY MoodTyped DEF Boxes

LEMMA InvTypes ==
  ASSUME MsgInv
  PROVE  /\ k \in Kernels /\ WellFormed(k) /\ InSection(k, k)
         /\ queue \in [Threads -> Seq(Msgs)] /\ received \in [Threads -> Seq(Msgs)]
         /\ accepted \in [Threads -> SUBSET Msgs] /\ waiters \in [Threads -> Seq(Threads)]
         /\ out \in Letters /\ asking \in [Threads -> 0..MaxMsgs]
         /\ answer \in [Threads -> 0..MaxMsgs] /\ replied \subseteq 1..MaxMsgs
         /\ made \in 0..MaxMsgs /\ made \in Nat /\ MaxMsgs \in Nat
         /\ cap \in [Threads -> Nat]
<1>1. k \in Kernels /\ WellFormed(k) /\ InSection(k, k)
  BY SectionStarts DEF MsgInv, Steady, WellFormed
<1>2. Typed(BoxOf(k), waiters, out, asking, answer, replied, made)
  BY DEF MsgInv, DataOK
<1>3. /\ queue \in [Threads -> Seq(Msgs)] /\ received \in [Threads -> Seq(Msgs)]
      /\ accepted \in [Threads -> SUBSET Msgs]
  BY <1>2 DEF Typed, BoxOf, Boxes
<1> QED BY <1>1, <1>2, <1>3, MsgPartsOK DEF Typed, MsgInv

\* Who calls is in no list of waiters, and ready or a stray.
LEMMA Callers ==
  ASSUME MsgInv, NEW t \in Threads, Calls(k, t)
  PROVE  /\ Unlisted(waiters, t)
         /\ IsReady(k, t) \/ (k.status[t] = "reply" /\ asking[t] = 0)
         /\ Mood(k)[t] \in {"ready", "reply"}
<1>1. IsReady(k, t) \/ (t \in Strays(waiters, asking) /\ k.status[t] = "reply")
  BY DEF MsgInv, Steady
<1>2. Mood(k)[t] \in {"ready", "reply"}
  BY <1>1 DEF Mood
<1>3. CASE IsReady(k, t)
  <2>1. Mood(k)[t] = "ready"
    BY <1>3 DEF Mood
  <2>2. \A u \in Threads : ~Contains(waiters[u], t)
    BY <2>1 DEF MsgInv, DataOK, Listings, BoxOf
  <2> QED BY <1>2, <1>3, <2>2 DEF Unlisted
<1>4. CASE t \in Strays(waiters, asking) /\ k.status[t] = "reply"
  BY <1>2, <1>4 DEF Strays, Unlisted
<1> QED BY <1>1, <1>3, <1>4

\* The message that is made next.
LEMMA NewMsgFacts ==
  ASSUME MsgInv, Makes, NEW f \in Threads \cup {Isr}, NEW q \in BOOLEAN
  PROVE  LET m == NewMsg(f, q)
         IN /\ m \in Msgs /\ m.id = made + 1 /\ m.from = f /\ m.ask = q
            /\ made + 1 \in 0..MaxMsgs /\ made' = made + 1
<1>1. made + 1 \in 1..MaxMsgs /\ made + 1 \in 0..MaxMsgs /\ made' = made + 1
  BY InvTypes DEF Makes
<1> QED BY <1>1 DEF NewMsg, Msgs

\* kk is the kernel and x the requests when t is about to send m.
Sending(kk, x, t, u, m) ==
  /\ MsgInv /\ t \in Threads /\ u \in Threads /\ t # u /\ Calls(k, t)
  /\ WellFormed(kk) /\ InSection(kk, k) /\ (IsReady(kk, t) \/ kk.status[t] = "reply")
  /\ DataOK(BoxOf(kk), waiters, out, x, answer, replied, made)
  /\ m \in Msgs /\ m.id = made + 1 /\ made + 1 \in 0..MaxMsgs /\ m.from = t
  /\ x[t] \in {0, m.id} /\ (x[t] # 0 => kk.status[t] = "reply") /\ (m.ask => x[t] = m.id)

LEMMA SendsDirect ==
  ASSUME NEW kk, NEW x, NEW t, NEW u, NEW m, Sending(kk, x, t, u, m),
         SendDirect(kk, t, u, m),
         UNCHANGED <<exists, cap, answer, replied>>, asking' = x, made' = made + 1
  PROVE  MsgInv'
<1> DEFINE s == "pending"
           n == SetStatus(kk, u, s)
           c == [mood |-> Mood(k'), queue |-> queue', received |-> received',
                 accepted |-> accepted']
           b == BoxOf(kk)
<1>0. s \in Blocked \cup {"pending"} /\ s = "pending"
  OBVIOUS
<1>1. /\ MsgInv /\ t \in Threads /\ u \in Threads /\ t # u /\ Calls(k, t)
      /\ WellFormed(kk) /\ InSection(kk, k) /\ kk \in Kernels
      /\ m \in Msgs /\ m.id = made + 1 /\ made + 1 \in 0..MaxMsgs /\ m.from = t
      /\ m.ask => x[t] = m.id
  BY DEF Sending, WellFormed
<1>2. DataOK(b, waiters, out, x, answer, replied, made)
  BY DEF Sending
<1>3. /\ kk.status[u] = "receive" /\ k' = Ends(n, t, YieldHigher)
      /\ received' = [received EXCEPT ![u] = Append(received[u], m)]
      /\ accepted' = [accepted EXCEPT ![u] = accepted[u] \cup {m}]
      /\ queue' = queue /\ waiters' = waiters /\ out' = out
  BY DEF SendDirect, Copies, links
<1> HIDE DEF s
<1>4. /\ WellFormed(n) /\ InSection(n, k)
      /\ Mood(n) = [Mood(kk) EXCEPT ![u] = IF s = "pending" THEN "ready" ELSE s]
  BY <1>0, <1>1, StatusMood
<1> HIDE DEF n
<1>5. YieldHigher \in TailCalls /\ YieldHigher # NoTail
  BY TailTypes DEF YieldHigher, NoTail
<1>6. Steady(k', Strays(waiters', asking')) /\ Mood(k') = Mood(n)
  <2>1. Steady(k, Strays(waiters, asking))
    BY <1>1 DEF MsgInv
  <2> QED BY <1>1, <1>3, <1>4, <1>5, <2>1, CallEnds
<1>7. k' \in Kernels
  BY <1>6 DEF Steady, WellFormed
<1>8. /\ received \in [Threads -> Seq(Msgs)] /\ accepted \in [Threads -> SUBSET Msgs]
      /\ queue \in [Threads -> Seq(Msgs)]
  BY <1>1, InvTypes
<1>9. c \in Boxes
  <2>1. received' \in [Threads -> Seq(Msgs)]
    BY <1>1, <1>3, <1>8
  <2>2. accepted' \in [Threads -> SUBSET Msgs]
    BY <1>1, <1>3, <1>8
  <2> QED BY <1>3, <1>7, <1>8, <2>1, <2>2, BoxTyped
<1>10. Mood(kk)[u] = "receive" /\ Mood(kk) \in [Threads -> Moods]
  BY <1>1, <1>3, MoodTyped, MoodIs DEF Blocked
<1>11. Put(b, c, m, u) /\ \A v \in Threads \ {u} : Same(b, c, v)
  BY <1>0, <1>1, <1>3, <1>4, <1>6, <1>8, <1>10 DEF Put, Same, BoxOf
<1>12. Unlisted(waiters, t)
  BY <1>1, Callers
<1> HIDE DEF b, c
<1>13. DataOK(c, waiters, out, x, answer, replied, made + 1)
  <2>1. Delivers(b, c, m)
    BY <1>11 DEF Delivers
  <2>2. \A v \in Threads : ~Contains(waiters[v], m.from)
    BY <1>1, <1>12 DEF Unlisted
  <2>3. m.ask => /\ m.from \in Threads /\ x[m.from] = m.id
                 /\ \E y \in Threads : \A v \in Threads \ {y} : Same(b, c, v)
    BY <1>1, <1>11
  <2> QED BY <1>1, <1>2, <1>9, <2>1, <2>2, <2>3, Delivered
<1>14. \A v \in Threads : Len(queue'[v]) <= cap'[v]
  BY <1>1, <1>3 DEF MsgInv
<1> QED BY <1>1, <1>3, <1>6, <1>13, <1>14 DEF MsgInv, BoxOf, c

LEMMA SendsQueued ==
  ASSUME NEW kk, NEW x, NEW t, NEW u, NEW m, Sending(kk, x, t, u, m),
         SendQueued(kk, t, u, m),
         UNCHANGED <<exists, cap, answer, replied>>, asking' = x, made' = made + 1
  PROVE  MsgInv'
<1> DEFINE z == IF kk.status[t] = "reply" THEN YieldHigher ELSE NoTail
           c == [mood |-> Mood(k'), queue |-> queue', received |-> received',
                 accepted |-> accepted']
           b == BoxOf(kk)
<1>1. /\ MsgInv /\ t \in Threads /\ u \in Threads /\ t # u /\ Calls(k, t)
      /\ WellFormed(kk) /\ InSection(kk, k) /\ kk \in Kernels
      /\ IsReady(kk, t) \/ kk.status[t] = "reply"
      /\ m \in Msgs /\ m.id = made + 1 /\ made + 1 \in 0..MaxMsgs /\ m.from = t
      /\ m.ask => x[t] = m.id
  BY DEF Sending, WellFormed
<1>2. DataOK(b, waiters, out, x, answer, replied, made)
  BY DEF Sending
<1>3. /\ kk.status[u] # "receive" /\ Len(queue[u]) < cap[u] /\ k' = Ends(kk, t, z)
      /\ queue' = [queue EXCEPT ![u] = Append(queue[u], m)]
      /\ accepted' = [accepted EXCEPT ![u] = accepted[u] \cup {m}]
      /\ received' = received /\ waiters' = waiters /\ out' = out
  BY DEF SendQueued, Queues, links, Room
<1>4. z \in TailCalls /\ (z # NoTail \/ IsReady(kk, t))
  BY <1>1, TailTypes DEF YieldHigher, NoTail
<1> HIDE DEF z
<1>5. Steady(k', Strays(waiters', asking')) /\ Mood(k') = Mood(kk)
  <2>1. Steady(k, Strays(waiters, asking))
    BY <1>1 DEF MsgInv
  <2> QED BY <1>1, <1>3, <1>4, <2>1, CallEnds
<1>6. k' \in Kernels
  BY <1>5 DEF Steady, WellFormed
<1>7. /\ received \in [Threads -> Seq(Msgs)] /\ accepted \in [Threads -> SUBSET Msgs]
      /\ queue \in [Threads -> Seq(Msgs)] /\ cap \in [Threads -> Nat]
  BY <1>1, InvTypes
<1>8. c \in Boxes
  <2>1. queue' \in [Threads -> Seq(Msgs)]
    BY <1>1, <1>3, <1>7
  <2>2. accepted' \in [Threads -> SUBSET Msgs]
    BY <1>1, <1>3, <1>7
  <2> QED BY <1>3, <1>6, <1>7, <2>1, <2>2, BoxTyped
<1>9. Mood(kk)[u] # "receive"
  BY <1>1, <1>3, MoodIs DEF Blocked
<1>10. Put(b, c, m, u) /\ \A v \in Threads \ {u} : Same(b, c, v)
  BY <1>1, <1>3, <1>5, <1>7, <1>9 DEF Put, Same, BoxOf
<1>11. Unlisted(waiters, t)
  BY <1>1, Callers
<1> HIDE DEF b, c
<1>12. DataOK(c, waiters, out, x, answer, replied, made + 1)
  <2>1. Delivers(b, c, m)
    BY <1>10 DEF Delivers
  <2>2. \A v \in Threads : ~Contains(waiters[v], m.from)
    BY <1>1, <1>11 DEF Unlisted
  <2>3. m.ask => /\ m.from \in Threads /\ x[m.from] = m.id
                 /\ \E y \in Threads : \A v \in Threads \ {y} : Same(b, c, v)
    BY <1>1, <1>10
  <2> QED BY <1>1, <1>2, <1>8, <2>1, <2>2, <2>3, Delivered
<1>13. \A v \in Threads : Len(queue'[v]) <= cap'[v]
  <2>1. Len(Append(queue[u], m)) = Len(queue[u]) + 1 /\ Len(queue[u]) \in Nat
    BY <1>1, <1>7
  <2>2. queue'[u] = Append(queue[u], m) /\ \A v \in Threads \ {u} : queue'[v] = queue[v]
    BY <1>1, <1>3, <1>7
  <2>3. Len(queue'[u]) <= cap[u]
    BY <1>1, <1>3, <1>7, <2>1, <2>2
  <2>4. \A v \in Threads \ {u} : Len(queue'[v]) <= cap[v]
    BY <1>1, <2>2 DEF MsgInv
  <2> QED BY <2>3, <2>4
<1> QED BY <1>1, <1>3, <1>5, <1>12, <1>13 DEF MsgInv, BoxOf, c

LEMMA SendsBlocked ==
  ASSUME NEW kk, NEW x, NEW t, NEW u, NEW m, Sending(kk, x, t, u, m),
         SendBlocks(kk, t, u, m),
         UNCHANGED <<exists, cap, answer, replied>>, asking' = x, made' = made + 1
  PROVE  MsgInv'
<1> DEFINE s == IF kk.status[t] = "reply" THEN "reply" ELSE "send"
           n == SetStatus(kk, t, s)
           c == [mood |-> Mood(k'), queue |-> queue', received |-> received',
                 accepted |-> accepted']
           b == BoxOf(kk)
<1>0. s \in Blocked \cup {"pending"} /\ s # "pending" /\ s \in {"send", "reply"}
  BY DEF Blocked
<1>1. /\ MsgInv /\ t \in Threads /\ u \in Threads /\ t # u /\ Calls(k, t)
      /\ WellFormed(kk) /\ InSection(kk, k) /\ kk \in Kernels
      /\ m \in Msgs /\ m.id = made + 1 /\ made + 1 \in 0..MaxMsgs /\ m.from = t
      /\ m.ask => x[t] = m.id
  BY DEF Sending, WellFormed
<1>2. x[t] \in {0, m.id} /\ (x[t] # 0 => s = "reply")
  BY DEF Sending
<1>3. DataOK(b, waiters, out, x, answer, replied, made)
  BY DEF Sending
<1>4. /\ kk.status[u] # "receive" /\ k' = Ends(n, t, YieldHigher)
      /\ waiters' = [waiters EXCEPT ![u] = AddToList(kk, waiters[u], t)]
      /\ out' = [out EXCEPT ![t] = m]
      /\ accepted' = [accepted EXCEPT ![u] = accepted[u] \cup {m}]
      /\ queue' = queue /\ received' = received
  BY DEF SendBlocks
<1> HIDE DEF s
<1>5. /\ WellFormed(n) /\ InSection(n, k)
      /\ Mood(n) = [Mood(kk) EXCEPT ![t] = IF s = "pending" THEN "ready" ELSE s]
  BY <1>0, <1>1, StatusMood
<1> HIDE DEF n
<1>6. YieldHigher \in TailCalls /\ YieldHigher # NoTail
  BY TailTypes DEF YieldHigher, NoTail
<1>7. Steady(k', Strays(waiters', asking')) /\ Mood(k') = Mood(n)
  <2>1. Steady(k, Strays(waiters, asking))
    BY <1>1 DEF MsgInv
  <2> QED BY <1>1, <1>4, <1>5, <1>6, <2>1, CallEnds
<1>8. Mood(k') = [Mood(kk) EXCEPT ![t] = s]
  BY <1>0, <1>5, <1>7
<1>9. Mood(kk)[u] # "receive"
  BY <1>1, <1>4, MoodIs DEF Blocked
<1>10. Unlisted(waiters, t)
  BY <1>1, Callers
<1>11. b.mood = Mood(kk) /\ b.queue = queue /\ b.received = received /\ b.accepted = accepted
  BY DEF BoxOf
<1> HIDE DEF b
<1>12. DataOK([mood |-> [b.mood EXCEPT ![t] = s], queue |-> b.queue, received |-> b.received,
               accepted |-> [b.accepted EXCEPT ![u] = b.accepted[u] \cup {m}]],
              [waiters EXCEPT ![u] = AddToList(kk, waiters[u], t)], [out EXCEPT ![t] = m],
              x, answer, replied, made + 1)
  BY <1>0, <1>1, <1>2, <1>3, <1>9, <1>10, <1>11, Blocks
<1>13. DataOK(c, waiters', out', x, answer, replied, made + 1)
  BY <1>4, <1>8, <1>11, <1>12
<1>14. \A v \in Threads : Len(queue'[v]) <= cap'[v]
  BY <1>1, <1>4 DEF MsgInv
<1> QED BY <1>1, <1>7, <1>13, <1>14 DEF MsgInv, BoxOf, c

\* msg_send and msg_try_send.
LEMMA SendInv ==
  ASSUME MsgInv, NEW t \in Threads, NEW u \in Threads, Send(t, u) \/ TrySend(t, u)
  PROVE  MsgInv'
<1> DEFINE m == NewMsg(t, FALSE)
<1>1. Free(t) /\ u # t /\ Makes /\ UNCHANGED <<exists, cap, requests>>
  BY DEF Send, TrySend
<1>2. UNCHANGED <<exists, cap, answer, replied>> /\ asking' = asking
  BY <1>1 DEF requests
<1>3. /\ m \in Msgs /\ m.id = made + 1 /\ m.from = t /\ ~m.ask
      /\ made + 1 \in 0..MaxMsgs /\ made' = made + 1
  BY <1>1, NewMsgFacts
<1>4. SendDirect(k, t, u, m) \/ SendQueued(k, t, u, m) \/ SendBlocks(k, t, u, m)
      \/ UNCHANGED <<k, buffers, links>>
  BY DEF Send, TrySend
<1> HIDE DEF m
<1>5. Calls(k, t) /\ asking[t] = 0
  BY <1>1 DEF Free
<1>6. Sending(k, asking, t, u, m)
  <2>1. IsReady(k, t) \/ k.status[t] = "reply"
    BY <1>5, Callers
  <2>2. WellFormed(k) /\ InSection(k, k)
    BY InvTypes
  <2>3. DataOK(BoxOf(k), waiters, out, asking, answer, replied, made)
    BY DEF MsgInv
  <2> QED BY <1>1, <1>3, <1>5, <2>1, <2>2, <2>3 DEF Sending
<1>7. CASE SendDirect(k, t, u, m)
  BY <1>2, <1>3, <1>6, <1>7, SendsDirect
<1>8. CASE SendQueued(k, t, u, m)
  BY <1>2, <1>3, <1>6, <1>8, SendsQueued
<1>9. CASE SendBlocks(k, t, u, m)
  BY <1>2, <1>3, <1>6, <1>9, SendsBlocked
<1>10. CASE UNCHANGED <<k, buffers, links>>
  <2>1. /\ k' = k /\ queue' = queue /\ received' = received /\ accepted' = accepted
        /\ waiters' = waiters /\ out' = out
    BY <1>10 DEF buffers, links
  <2> DEFINE b == BoxOf(k)
  <2>2. b \in Boxes
    BY DEF MsgInv, DataOK, Typed
  <2>3. DataOK(b, waiters, out, asking, answer, replied, made)
    BY DEF MsgInv
  <2>4. Unlisted(waiters, t)
    BY <1>5, Callers
  <2> HIDE DEF b
  <2>5. Delivers(b, b, m)
    BY DEF Delivers, Same
  <2>6. \A v \in Threads : ~Contains(waiters[v], m.from)
    BY <1>3, <2>4 DEF Unlisted
  <2>7. DataOK(b, waiters, out, asking, answer, replied, made + 1)
    BY <1>3, <2>2, <2>3, <2>5, <2>6, Delivered
  <2> QED BY <1>2, <1>3, <2>1, <2>7 DEF MsgInv, BoxOf, b
<1> QED BY <1>4, <1>7, <1>8, <1>9, <1>10

\* msg_send_receive.
LEMMA SendReceiveInv ==
  ASSUME MsgInv, NEW t \in Threads, NEW u \in Threads, SendReceive(t, u)
  PROVE  MsgInv'
<1> DEFINE m == NewMsg(t, TRUE)
           s == "reply"
           n == SetStatus(k, t, s)
           x == [asking EXCEPT ![t] = made + 1]
<1>0. s \in Blocked \cup {"pending"} /\ s = "reply" /\ s # "pending"
  BY DEF Blocked
<1>1. Free(t) /\ u # t /\ Makes /\ UNCHANGED <<exists, cap, answer, replied>>
  BY DEF SendReceive
<1>2. /\ m \in Msgs /\ m.id = made + 1 /\ m.from = t /\ m.ask
      /\ made + 1 \in 0..MaxMsgs /\ made' = made + 1
  BY <1>1, NewMsgFacts
<1>3. SendDirect(n, t, u, m) \/ SendQueued(n, t, u, m) \/ SendBlocks(n, t, u, m)
  BY DEF SendReceive
<1>4. asking' = x
  BY <1>2 DEF SendReceive
<1>5. Calls(k, t) /\ asking[t] = 0
  BY <1>1 DEF Free
<1> HIDE DEF m, s
<1>6. /\ WellFormed(n) /\ InSection(n, k)
      /\ \A v \in Threads : n.status[v] = IF v = t THEN s ELSE k.status[v]
      /\ Mood(n) = [Mood(k) EXCEPT ![t] = IF s = "pending" THEN "ready" ELSE s]
  <2>1. WellFormed(k) /\ InSection(k, k)
    BY InvTypes
  <2> QED BY <1>0, <2>1, StatusMood
<1> HIDE DEF n
<1>7. Mood(n) = [Mood(k) EXCEPT ![t] = "reply"]
  BY <1>0, <1>6
<1>8. DataOK(BoxOf(n), waiters, out, x, answer, replied, made)
  <2> DEFINE b == BoxOf(k)
  <2>1. DataOK(b, waiters, out, asking, answer, replied, made)
    BY DEF MsgInv
  <2>2. Unlisted(waiters, t)
    BY <1>5, Callers
  <2> HIDE DEF b
  <2>3. DataOK([b EXCEPT !.mood = [b.mood EXCEPT ![t] = "reply"]],
               waiters, out, x, answer, replied, made)
    BY <1>2, <1>5, <2>1, <2>2, AskBegins
  <2>4. [b EXCEPT !.mood = [b.mood EXCEPT ![t] = "reply"]] = BoxOf(n)
    BY <1>7 DEF BoxOf, b
  <2> QED BY <2>3, <2>4
<1>9. x[t] = made + 1
  BY InvTypes
<1>10. Sending(n, x, t, u, m)
  BY <1>0, <1>1, <1>2, <1>5, <1>6, <1>8, <1>9 DEF Sending
<1> HIDE DEF x
<1>11. CASE SendDirect(n, t, u, m)
  BY <1>1, <1>2, <1>4, <1>10, <1>11, SendsDirect
<1>12. CASE SendQueued(n, t, u, m)
  BY <1>1, <1>2, <1>4, <1>10, <1>12, SendsQueued
<1>13. CASE SendBlocks(n, t, u, m)
  BY <1>1, <1>2, <1>4, <1>10, <1>13, SendsBlocked
<1> QED BY <1>3, <1>11, <1>12, <1>13

(***************************************************************************)
(* Sends to several threads, one after the other.                           *)
(***************************************************************************)

\* The kernel and the queues on the way, as threads see them.
Posts == [k        : Kernels,
          queue    : [Threads -> Seq(Msgs)],
          received : [Threads -> Seq(Msgs)],
          accepted : [Threads -> SUBSET Msgs]]

View(s) ==
  [mood |-> Mood(s.k), queue |-> s.queue, received |-> s.received, accepted |-> s.accepted]

\* _msg_send_oneway puts a message before one thread at most.
LEMMA OnewayFacts ==
  ASSUME NEW s \in Posts, WakesOnly(s.k, k), NEW u \in Threads, NEW m \in Msgs
  PROVE  LET z == Oneway(s, u, m)
         IN /\ z \in Posts /\ WakesOnly(z.k, k)
            /\ \A v \in Threads \ {u} : Same(View(s), View(z), v)
            /\ Same(View(s), View(z), u) \/ Put(View(s), View(z), m, u)
<1> DEFINE z == Oneway(s, u, m)
           n == IsrYield(SetStatus(s.k, u, "pending"))
           r == [s.received EXCEPT ![u] = Append(s.received[u], m)]
           q == [s.queue EXCEPT ![u] = Append(s.queue[u], m)]
           e == [s.accepted EXCEPT ![u] = s.accepted[u] \cup {m}]
           b == View(s)
           c == View(z)
<1>1. /\ s.k \in Kernels /\ s.queue \in [Threads -> Seq(Msgs)]
      /\ s.received \in [Threads -> Seq(Msgs)] /\ s.accepted \in [Threads -> SUBSET Msgs]
  BY DEF Posts
<1>2. r \in [Threads -> Seq(Msgs)] /\ \A v \in Threads : r[v] = IF v = u THEN Append(s.received[u], m) ELSE s.received[v]
  BY <1>1
<1>3. q \in [Threads -> Seq(Msgs)] /\ \A v \in Threads : q[v] = IF v = u THEN Append(s.queue[u], m) ELSE s.queue[v]
  BY <1>1
<1>4. e \in [Threads -> SUBSET Msgs] /\ \A v \in Threads : e[v] = IF v = u THEN s.accepted[u] \cup {m} ELSE s.accepted[v]
  BY <1>1
<1>5. Mood(s.k)[u] = "receive" <=> s.k.status[u] = "receive"
  BY <1>1, MoodIs DEF Blocked
<1>6. WakesOnly(n, k) /\ Mood(n) = [Mood(s.k) EXCEPT ![u] = "ready"]
  BY WakesOne
<1>7. Mood(s.k) \in [Threads -> Moods]
  BY <1>1, MoodTyped
<1>8. CASE s.k.status[u] = "receive"
  <2>1. z = [s EXCEPT !.k = n, !.received = r, !.accepted = e]
    BY <1>8 DEF Oneway, Posts
  <2> HIDE DEF n, r, e
  <2>2. n \in Kernels
    BY <1>6 DEF WakesOnly, WellFormed
  <2>3. /\ z \in Posts /\ z.k = n /\ z.received = r /\ z.accepted = e /\ z.queue = s.queue
    BY <1>2, <1>4, <2>1, <2>2 DEF Posts
  <2> HIDE DEF z
  <2>4. Put(b, c, m, u)
    BY <1>2, <1>4, <1>5, <1>6, <1>7, <1>8, <2>3 DEF Put, View
  <2>5. \A v \in Threads \ {u} : Same(b, c, v)
    BY <1>2, <1>4, <1>6, <1>7, <2>3 DEF Same, View
  <2> QED BY <1>6, <2>3, <2>4, <2>5 DEF z
<1>9. CASE s.k.status[u] # "receive" /\ Len(s.queue[u]) < cap[u]
  <2>1. z = [s EXCEPT !.queue = q, !.accepted = e]
    BY <1>9 DEF Oneway, Posts
  <2> HIDE DEF q, e
  <2>3. /\ z \in Posts /\ z.k = s.k /\ z.queue = q /\ z.accepted = e /\ z.received = s.received
    BY <1>3, <1>4, <2>1 DEF Posts
  <2> HIDE DEF z
  <2>4. Put(b, c, m, u)
    BY <1>3, <1>4, <1>5, <1>9, <2>3 DEF Put, View
  <2>5. \A v \in Threads \ {u} : Same(b, c, v)
    BY <1>3, <1>4, <2>3 DEF Same, View
  <2> QED BY <2>3, <2>4, <2>5 DEF z
<1>10. CASE s.k.status[u] # "receive" /\ ~(Len(s.queue[u]) < cap[u])
  <2>1. z = s
    BY <1>10 DEF Oneway
  <2>2. \A v \in Threads : Same(b, c, v)
    BY <2>1 DEF Same
  <2> QED BY <2>1, <2>2
<1> QED BY <1>8, <1>9, <1>10

Now == [k |-> k, queue |-> queue, received |-> received, accepted |-> accepted]

\* g has the results for the first threads of us, of which those in to are given m.
Publishing(g, m, us, to) ==
  g = [i \in 0..Len(us) |->
         IF i = 0 THEN Now
         ELSE IF us[i] \in to THEN Oneway(g[i - 1], us[i], m) ELSE g[i - 1]]

LEMMA PublishingExists ==
  ASSUME MsgInv, NEW m \in Msgs, NEW us \in Seq(Threads), NEW to
  PROVE  \E g : Publishing(g, m, us, to)
<1> DEFINE K == {s \in Posts : WakesOnly(s.k, k)}
           F(s, u) == IF u \in to THEN Oneway(s, u, m) ELSE s
           f == [x \in K \X Threads |-> F(x[1], x[2])]
<1>1. Now \in K
  <2>1. Now \in Posts
    BY InvTypes DEF Now, Posts
  <2>2. WakesOnly(Now.k, k)
    BY InvTypes DEF Now, WakesOnly
  <2> QED BY <2>1, <2>2
<1>2. \A s \in K, u \in Threads : F(s, u) \in K
  <2> TAKE s \in K, u \in Threads
  <2>1. s \in Posts /\ WakesOnly(s.k, k)
    OBVIOUS
  <2>2. Oneway(s, u, m) \in Posts /\ WakesOnly(Oneway(s, u, m).k, k)
    BY <2>1, OnewayFacts
  <2> QED BY <2>1, <2>2
<1> HIDE DEF F, K
<1>3. f \in [K \X Threads -> K]
  BY <1>2
<1>4. \A s \in K, u \in Threads : f[<<s, u>>] = F(s, u)
  OBVIOUS
<1> HIDE DEF f
<1>5. PICK g \in [0..Len(us) -> K] : Iterates(g, f, Now, us, Len(us))
  BY <1>1, <1>3, IterationExists
<1>6. ASSUME NEW i \in 0..Len(us)
      PROVE  g[i] = IF i = 0 THEN Now ELSE F(g[i - 1], us[i])
  <2>1. g[i] = IF i = 0 THEN Now ELSE f[<<g[i - 1], us[i]>>]
    BY <1>5 DEF Iterates
  <2>2. CASE i # 0
    <3>1. i - 1 \in 0..Len(us) /\ us[i] \in Threads
      BY <2>2
    <3>2. g[i - 1] \in K
      BY <3>1, <1>5
    <3> QED BY <2>1, <2>2, <3>1, <3>2, <1>4
  <2> QED BY <2>1, <2>2
<1>7. g = [i \in 0..Len(us) |-> g[i]]
  BY <1>5
<1>8. Publishing(g, m, us, to)
  BY <1>6, <1>7 DEF Publishing, F
<1> QED BY <1>8

\* What does not change after a delivery.
LEMMA DeliveredOn ==
  ASSUME NEW b, NEW x, NEW y, NEW m, NEW v, Same(x, y, v)
  PROVE  /\ Same(b, x, v) => Same(b, y, v)
         /\ Put(b, x, m, v) => Put(b, y, m, v)
BY DEF Same, Put

\* In the end the message has been put before some of the threads, once each, and
\* those of them that slept are awake.
LEMMA PublishingFacts ==
  ASSUME MsgInv, NEW m \in Msgs, NEW us \in Seq(Threads), NoDuplicates(us),
         NEW to, NEW g, Publishing(g, m, us, to)
  PROVE  /\ g[Len(us)] \in Posts /\ WakesOnly(g[Len(us)].k, k)
         /\ Delivers(BoxOf(k), View(g[Len(us)]), m)
<1> DEFINE b == BoxOf(k)
           Good(i, s) == /\ s \in Posts /\ WakesOnly(s.k, k) /\ Delivers(b, View(s), m)
                         /\ \A v \in Threads : (\A j \in 1..i : us[j] # v) => Same(b, View(s), v)
           S == {i \in 0..Len(us) : Good(i, g[i])}
<1>1. Len(us) \in Nat /\ \A i \in 1..Len(us) : us[i] \in Threads
  OBVIOUS
<1>2. /\ g[0] = Now
      /\ \A i \in 1..Len(us) :
           g[i] = IF us[i] \in to THEN Oneway(g[i - 1], us[i], m) ELSE g[i - 1]
  BY <1>1 DEF Publishing
<1>3. 0 \in S
  <2>1. Now \in Posts
    BY InvTypes DEF Now, Posts
  <2>2. WakesOnly(Now.k, k) /\ View(Now) = b
    BY InvTypes DEF Now, WakesOnly, View, BoxOf
  <2> HIDE DEF b
  <2>3. \A v \in Threads : Same(b, View(Now), v)
    BY <2>2 DEF Same
  <2>4. Good(0, Now)
    BY <2>1, <2>2, <2>3 DEF Delivers
  <2> HIDE DEF Good
  <2> QED BY <1>1, <1>2, <2>4
<1>4. ASSUME NEW i \in 1..Len(us), i - 1 \in S PROVE i \in S
  <2> DEFINE s == g[i - 1]
             u == us[i]
             z == Oneway(s, u, m)
  <2>1. Good(i - 1, s) /\ u \in Threads
    BY <1>1, <1>4
  <2>2. g[i] = IF u \in to THEN z ELSE s
    BY <1>2
  <2>3. \A j \in 1..(i - 1) : us[j] # u
    BY <1>1 DEF NoDuplicates
  <2>4. \A v : (\A j \in 1..i : us[j] # v) => v # u /\ \A j \in 1..(i - 1) : us[j] # v
    BY <1>1
  <2> HIDE DEF s, u, b
  <2>5. /\ s \in Posts /\ WakesOnly(s.k, k) /\ Delivers(b, View(s), m) /\ Same(b, View(s), u)
        /\ \A v \in Threads : (\A j \in 1..(i - 1) : us[j] # v) => Same(b, View(s), v)
    BY <2>1, <2>3
  <2>6. CASE u \notin to
    <3>1. Good(i, s)
      BY <2>4, <2>5
    <3> HIDE DEF Good
    <3> QED BY <1>1, <2>2, <2>6, <3>1
  <2>7. CASE u \in to
    <3>1. /\ z \in Posts /\ WakesOnly(z.k, k)
          /\ \A v \in Threads \ {u} : Same(View(s), View(z), v)
          /\ Same(View(s), View(z), u) \/ Put(View(s), View(z), m, u)
      BY <2>1, <2>5, OnewayFacts
    <3> DEFINE x == View(s)
               y == View(z)
    <3> HIDE DEF x, y, z
    <3>2. /\ Delivers(b, x, m) /\ Same(b, x, u)
          /\ \A v \in Threads \ {u} : Same(x, y, v)
          /\ Same(x, y, u) \/ Put(x, y, m, u)
          /\ \A v \in Threads : (\A j \in 1..(i - 1) : us[j] # v) => Same(b, x, v)
      BY <2>5, <3>1 DEF x, y
    <3>3. Same(b, y, u) \/ Put(b, y, m, u)
      BY <3>2 DEF Same, Put
    <3>4. \A v \in Threads \ {u} : Same(b, y, v) \/ Put(b, y, m, v)
      <4> SUFFICES ASSUME NEW v \in Threads \ {u} PROVE Same(b, y, v) \/ Put(b, y, m, v)
        OBVIOUS
      <4>1. Same(x, y, v)
        BY <3>2
      <4>2. Same(b, x, v) \/ Put(b, x, m, v)
        BY <3>2 DEF Delivers
      <4> HIDE DEF Good, S
      <4> QED BY <4>1, <4>2, DeliveredOn
    <3>5. \A v \in Threads : (\A j \in 1..i : us[j] # v) => Same(b, y, v)
      <4> SUFFICES ASSUME NEW v \in Threads, \A j \in 1..i : us[j] # v PROVE Same(b, y, v)
        OBVIOUS
      <4>1. v # u /\ \A j \in 1..(i - 1) : us[j] # v
        BY <2>4
      <4>2. Same(x, y, v) /\ Same(b, x, v)
        BY <3>2, <4>1
      <4> HIDE DEF Good, S
      <4> QED BY <4>2, DeliveredOn
    <3>6. Delivers(b, y, m)
      BY <3>3, <3>4 DEF Delivers
    <3>7. Good(i, z)
      BY <3>1, <3>5, <3>6 DEF y
    <3> HIDE DEF Good
    <3> QED BY <1>1, <2>2, <2>7, <3>7
  <2> QED BY <2>6, <2>7
<1> HIDE DEF S
<1>5. \A i \in 0..Len(us) : i \in S
  BY <1>1, <1>3, <1>4, UpTo
<1>6. Len(us) \in S
  BY <1>1, <1>5
<1> QED BY <1>6 DEF S

\* The same of the operator of the model.
LEMMA PublishedFacts ==
  ASSUME MsgInv, NEW m \in Msgs, NEW us \in Seq(Threads), NoDuplicates(us), NEW subs
  PROVE  /\ Published(m, us, subs) \in Posts /\ WakesOnly(Published(m, us, subs).k, k)
         /\ Delivers(BoxOf(k), View(Published(m, us, subs)), m)
<1> DEFINE g == CHOOSE h : Publishing(h, m, us, exists \cap subs)
<1>1. Published(m, us, subs) = g[Len(us)]
  BY DEF Published, Publishing, Now
<1>2. Publishing(g, m, us, exists \cap subs)
  BY PublishingExists
<1> HIDE DEF g
<1> QED BY <1>1, <1>2, PublishingFacts

\* What the boxes are after a step.
BoxAfter ==
  [mood |-> Mood(k'), queue |-> queue', received |-> received', accepted |-> accepted']

\* A message that is not a request has been delivered, or given up.
LEMMA DeliveryInv ==
  ASSUME MsgInv, Makes, NEW f \in Threads \cup {Isr}, Unlisted(waiters, f),
         BoxAfter \in Boxes, Delivers(BoxOf(k), BoxAfter, NewMsg(f, FALSE)),
         Steady(k', Strays(waiters, asking)), UNCHANGED <<exists, cap, links, requests>>
  PROVE  MsgInv'
<1> DEFINE b == BoxOf(k)
           c == BoxAfter
           m == NewMsg(f, FALSE)
<1>1. /\ exists' = exists /\ cap' = cap /\ waiters' = waiters /\ out' = out
      /\ asking' = asking /\ answer' = answer /\ replied' = replied
  BY DEF links, requests
<1>2. /\ m \in Msgs /\ m.id = made + 1 /\ m.from = f /\ ~m.ask
      /\ made + 1 \in 0..MaxMsgs /\ made' = made + 1
  BY NewMsgFacts
<1>3. DataOK(b, waiters, out, asking, answer, replied, made)
  BY DEF MsgInv
<1>4. Delivers(b, c, m) /\ c \in Boxes
  OBVIOUS
<1> HIDE DEF m
<1>5. \A v \in Threads : Len(queue'[v]) <= cap[v]
  <2> SUFFICES ASSUME NEW v \in Threads PROVE Len(queue'[v]) <= cap[v]
    OBVIOUS
  <2>1. b.queue = queue /\ c.queue = queue'
    BY DEF BoxOf, BoxAfter
  <2>2. Same(b, c, v) \/ Put(b, c, m, v)
    BY <1>4 DEF Delivers
  <2>3. Len(queue[v]) <= cap[v] /\ cap[v] \in Nat /\ queue[v] \in Seq(Msgs)
    BY InvTypes DEF MsgInv
  <2> HIDE DEF b, c
  <2>4. queue'[v] = queue[v] \/ (Len(queue[v]) < cap[v] /\ queue'[v] = Append(queue[v], m))
    BY <2>1, <2>2 DEF Same, Put
  <2>5. Len(Append(queue[v], m)) = Len(queue[v]) + 1 /\ Len(queue[v]) \in Nat
    BY <1>2, <2>3
  <2> QED BY <2>3, <2>4, <2>5
<1>6. \A u \in Threads : ~Contains(waiters[u], m.from)
  BY <1>2 DEF Unlisted
<1> HIDE DEF b, c
<1>7. DataOK(c, waiters, out, asking, answer, replied, made + 1)
  BY <1>2, <1>3, <1>4, <1>6, Delivered
<1> QED BY <1>1, <1>2, <1>5, <1>7 DEF MsgInv, BoxOf, BoxAfter, c

\* The kernel after the message has been put before several threads is any one with
\* the moods the last of them left.
LEMMA PublishesInv ==
  ASSUME MsgInv, Makes, NEW f \in Threads \cup {Isr}, Unlisted(waiters, f),
         NEW us \in Seq(Threads), NoDuplicates(us), NEW subs,
         Publishes(Published(NewMsg(f, FALSE), us, subs)),
         Steady(k', Strays(waiters, asking)),
         Mood(k') = Mood(Published(NewMsg(f, FALSE), us, subs).k)
  PROVE  MsgInv'
<1> DEFINE m == NewMsg(f, FALSE)
           s == Published(m, us, subs)
<1>1. m \in Msgs
  BY NewMsgFacts
<1> HIDE DEF m
<1>2. s \in Posts /\ Delivers(BoxOf(k), View(s), m)
  BY <1>1, PublishedFacts
<1>3. /\ queue' = s.queue /\ received' = s.received /\ accepted' = s.accepted
      /\ UNCHANGED <<exists, cap, links, requests>> /\ Mood(k') = Mood(s.k)
  BY DEF Publishes, m
<1> HIDE DEF s
<1>4. BoxAfter = View(s)
  BY <1>3 DEF BoxAfter, View
<1>5. View(s) \in Boxes
  <2>1. /\ s.k \in Kernels /\ s.queue \in [Threads -> Seq(Msgs)]
        /\ s.received \in [Threads -> Seq(Msgs)] /\ s.accepted \in [Threads -> SUBSET Msgs]
    BY <1>2 DEF Posts
  <2> QED BY <2>1, BoxTyped DEF View
<1>6. BoxAfter \in Boxes /\ Delivers(BoxOf(k), BoxAfter, NewMsg(f, FALSE))
  BY <1>2, <1>4, <1>5 DEF m
<1> QED BY <1>3, <1>6, DeliveryInv

LEMMA SendBusInv ==
  ASSUME MsgInv, NEW t \in Threads, NEW subs, SendBus(t, subs)
  PROVE  MsgInv'
<1> DEFINE m == NewMsg(t, FALSE)
           s == Published(m, Bus, subs)
           n == s.k
           x == IF n.req THEN YieldHigher ELSE NoTail
           S == Strays(waiters, asking)
<1>1. Free(t) /\ Makes /\ Publishes(s) /\ k' = Ends(n, t, x)
  BY DEF SendBus
<1>2. Bus \in Seq(Threads) /\ NoDuplicates(Bus)
  BY MsgPartsOK
<1>3. Calls(k, t) /\ asking[t] = 0
  BY <1>1 DEF Free
<1>4. m \in Msgs
  BY <1>1, NewMsgFacts
<1> HIDE DEF m
<1>5. WakesOnly(n, k)
  BY <1>2, <1>4, PublishedFacts
<1> HIDE DEF s, n
<1>6. x \in TailCalls
  BY TailTypes DEF YieldHigher, NoTail
<1> HIDE DEF x
<1>7. Unlisted(waiters, t) /\ (IsReady(k, t) \/ k.status[t] = "reply")
  BY <1>3, Callers
<1>8. IsReady(n, t) \/ (t \in S /\ n.status[t] = "reply")
  <2>1. t \in S
    BY <1>3, <1>7 DEF Strays, Unlisted
  <2>2. n.status[t] = k.status[t] \/ n.status[t] = "pending"
    BY <1>5 DEF WakesOnly
  <2> QED BY <1>7, <2>1, <2>2 DEF IsReady, OnRunqueue
<1>9. WellFormed(n) /\ InSection(n, k) /\ Steady(k, S)
  BY <1>5 DEF WakesOnly, MsgInv
<1> HIDE DEF S
<1>10. Steady(k', S) /\ Mood(k') = Mood(n)
  BY <1>1, <1>3, <1>6, <1>8, <1>9, CallEnds
<1> QED BY <1>1, <1>2, <1>7, <1>10, PublishesInv DEF m, s, n, S

LEMMA IsrSendInv ==
  ASSUME MsgInv, NEW us \in Seq(Threads), NoDuplicates(us), NEW subs, IsrSend(us, subs)
  PROVE  MsgInv'
<1> DEFINE m == NewMsg(Isr, FALSE)
           s == Published(m, us, subs)
           n == s.k
<1>1. Makes /\ Publishes(s) /\ k' = IsrEnd(n)
  BY DEF IsrSend
<1>2. m \in Msgs
  BY <1>1, NewMsgFacts
<1> HIDE DEF m
<1>3. WakesOnly(n, k)
  BY <1>2, PublishedFacts
<1>4. Unlisted(waiters, Isr)
  <2>1. \A u \in Threads : waiters[u] \in Seq(Threads)
    BY InvTypes
  <2> QED BY <2>1, MsgPartsOK DEF Unlisted, Contains
<1>5. Steady(k', Strays(waiters, asking)) /\ Mood(k') = Mood(n)
  <2>1. Steady(k, Strays(waiters, asking))
    BY DEF MsgInv
  <2> HIDE DEF n
  <2> QED BY <1>1, <1>3, <2>1, IsrSteady
<1> QED BY <1>1, <1>4, <1>5, PublishesInv DEF m

\* msg_send_to_self.
LEMMA SendToSelfInv ==
  ASSUME MsgInv, NEW t \in Threads, SendToSelf(t)
  PROVE  MsgInv'
<1> DEFINE b == BoxOf(k)
           c == BoxAfter
           m == NewMsg(t, FALSE)
<1>1. Free(t) /\ Makes /\ k' = k /\ UNCHANGED <<exists, cap, links, requests>>
  BY DEF SendToSelf
<1>2. m \in Msgs
  BY <1>1, NewMsgFacts
<1> HIDE DEF m
<1>3. /\ queue \in [Threads -> Seq(Msgs)] /\ received \in [Threads -> Seq(Msgs)]
      /\ accepted \in [Threads -> SUBSET Msgs] /\ k \in Kernels
  BY InvTypes
<1>4. Unlisted(waiters, t) /\ Mood(k)[t] \in {"ready", "reply"}
  BY <1>1, Callers DEF Free
<1>5. CASE Room(t) /\ Queues(t, m)
  <2>1. /\ Len(queue[t]) < cap[t] /\ received' = received
        /\ queue' = [queue EXCEPT ![t] = Append(queue[t], m)]
        /\ accepted' = [accepted EXCEPT ![t] = accepted[t] \cup {m}]
    BY <1>5 DEF Room, Queues
  <2>2. /\ queue' \in [Threads -> Seq(Msgs)]
        /\ \A v \in Threads : queue'[v] = IF v = t THEN Append(queue[t], m) ELSE queue[v]
    BY <1>2, <1>3, <2>1
  <2>3. /\ accepted' \in [Threads -> SUBSET Msgs]
        /\ \A v \in Threads : accepted'[v] = IF v = t THEN accepted[t] \cup {m} ELSE accepted[v]
    BY <1>2, <1>3, <2>1
  <2>4. c \in Boxes
    BY <1>1, <1>3, <2>1, <2>2, <2>3, BoxTyped DEF BoxAfter
  <2>5. Put(b, c, m, t)
    BY <1>1, <1>4, <2>1, <2>2, <2>3 DEF Put, BoxOf, BoxAfter
  <2>6. \A v \in Threads \ {t} : Same(b, c, v)
    BY <1>1, <2>1, <2>2, <2>3 DEF Same, BoxOf, BoxAfter
  <2>7. Delivers(b, c, m)
    BY <2>5, <2>6 DEF Delivers
  <2> HIDE DEF b, c
  <2>8. Steady(k', Strays(waiters, asking))
    BY <1>1 DEF MsgInv
  <2> QED BY <1>1, <1>4, <2>4, <2>7, <2>8, DeliveryInv DEF b, c, m
<1>6. CASE UNCHANGED buffers
  <2>1. queue' = queue /\ received' = received /\ accepted' = accepted
    BY <1>6 DEF buffers
  <2>2. c \in Boxes /\ b = c
    BY <1>1, <1>3, <2>1, BoxTyped DEF BoxAfter, BoxOf
  <2>3. Delivers(b, c, m)
    BY <2>2 DEF Delivers, Same
  <2>4. Steady(k', Strays(waiters, asking))
    BY <1>1 DEF MsgInv
  <2> QED BY <1>1, <1>4, <2>2, <2>3, <2>4, DeliveryInv DEF b, c, m
<1>7. (Room(t) /\ Queues(t, m)) \/ UNCHANGED buffers
  BY DEF SendToSelf, m
<1> QED BY <1>5, <1>6, <1>7

(***************************************************************************)
(* The actions that deliver nothing.                                       *)
(***************************************************************************)

LEMMA MoreStrays ==
  ASSUME NEW kk, NEW S, NEW T, Steady(kk, S), S \subseteq T
  PROVE  Steady(kk, T)
BY DEF Steady

\* One thread in no list and in no request has another mood.
LEMMA MoodInv ==
  ASSUME MsgInv, NEW t \in Threads, NEW s \in Moods, Unlisted(waiters, t), asking[t] = 0,
         s # "send", s = "receive" => queue[t] = << >> /\ waiters[t] = << >>,
         Steady(k', Strays(waiters, asking)), Mood(k') = [Mood(k) EXCEPT ![t] = s],
         exists' \subseteq exists, UNCHANGED <<cap, buffers, links, requests, made>>
  PROVE  MsgInv'
<1> DEFINE b == BoxOf(k)
<1>1. /\ cap' = cap /\ waiters' = waiters /\ out' = out /\ queue' = queue
      /\ received' = received /\ accepted' = accepted /\ made' = made
      /\ asking' = asking /\ answer' = answer /\ replied' = replied
  BY DEF buffers, links, requests
<1>2. DataOK(b, waiters, out, asking, answer, replied, made)
  BY DEF MsgInv
<1>3. s = "receive" => b.queue[t] = << >> /\ waiters[t] = << >>
  BY DEF BoxOf
<1>4. BoxAfter = [b EXCEPT !.mood = [b.mood EXCEPT ![t] = s]]
  BY <1>1 DEF BoxAfter, BoxOf
<1> HIDE DEF b
<1>5. DataOK(BoxAfter, waiters, out, asking, answer, replied, made)
  BY <1>2, <1>3, <1>4, MoodChanges
<1> QED BY <1>1, <1>5 DEF MsgInv, BoxOf, BoxAfter

LEMMA SendReceiveFailsInv ==
  ASSUME MsgInv, NEW t \in Threads, NEW u, SendReceiveFails(t, u)
  PROVE  MsgInv'
<1> DEFINE s == "reply"
           n == SetStatus(k, t, s)
           S == Strays(waiters, asking)
<1>0. s \in Blocked \cup {"pending"} /\ s \in Moods /\ s = "reply" /\ s # "pending"
  BY DEF Blocked, Moods
<1>1. /\ Calls(k, t) /\ asking[t] = 0 /\ k' = n
      /\ UNCHANGED <<exists, cap, buffers, links, requests, made>>
  BY DEF SendReceiveFails, Free
<1> HIDE DEF s
<1>2. Unlisted(waiters, t)
  BY <1>1, Callers
<1>3. /\ WellFormed(n) /\ InSection(n, k)
      /\ \A v \in Threads : n.status[v] = IF v = t THEN s ELSE k.status[v]
      /\ Mood(n) = [Mood(k) EXCEPT ![t] = IF s = "pending" THEN "ready" ELSE s]
  <2>1. WellFormed(k) /\ InSection(k, k)
    BY InvTypes
  <2> QED BY <1>0, <2>1, StatusMood
<1> HIDE DEF n
<1>4. t \in S
  BY <1>1, <1>2 DEF Strays, Unlisted
<1>5. Steady(n, S)
  <2>1. OneRunning(n)
    BY <1>3 DEF MsgInv, Steady, OneRunning, InSection
  <2>2. \A v \in Threads : Calls(n, v) => v = t
    BY <1>1, <1>3 DEF Calls, Executes, InSection
  <2> QED BY <1>0, <1>3, <1>4, <2>1, <2>2 DEF Steady
<1>6. Steady(k', S) /\ Mood(k') = [Mood(k) EXCEPT ![t] = s]
  BY <1>0, <1>1, <1>3, <1>5
<1> QED BY <1>0, <1>1, <1>2, <1>6, MoodInv DEF S

LEMMA ExitInv ==
  ASSUME MsgInv, NEW t \in Threads, Exit(t)
  PROVE  MsgInv'
<1> DEFINE S == Strays(waiters, asking)
           s == "stopped"
<1>0. s \in Moods /\ s # "send" /\ s # "receive" /\ s = "stopped"
  BY DEF Moods, Blocked
<1>1. /\ Calls(k, t) /\ asking[t] = 0 /\ exists' \subseteq exists
      /\ k' = SchedRun([SetStatus(k, t, "stopped") EXCEPT !.active = NoThread])
      /\ UNCHANGED <<cap, buffers, links, requests, made>>
  BY DEF Exit, Free
<1> HIDE DEF s
<1>2. Unlisted(waiters, t)
  BY <1>1, Callers
<1>3. Steady(k, S)
  BY DEF MsgInv
<1>4. Steady(k', S) /\ Mood(k') = [Mood(k) EXCEPT ![t] = "stopped"]
  BY <1>1, <1>3, ExitSteady
<1> QED BY <1>0, <1>1, <1>2, <1>4, MoodInv DEF S

LEMMA ReceiveBlocksInv ==
  ASSUME MsgInv, NEW t \in Threads, Free(t), ReceiveBlocks(t),
         UNCHANGED <<exists, cap, accepted, requests, made>>
  PROVE  MsgInv'
<1> DEFINE s == "receive"
           n == SetStatus(k, t, s)
           S == Strays(waiters, asking)
<1>0. s \in Blocked \cup {"pending"} /\ s \in Moods /\ s = "receive" /\ s # "pending" /\ s # "send"
  BY DEF Blocked, Moods
<1>1. /\ Calls(k, t) /\ asking[t] = 0 /\ queue[t] = << >> /\ waiters[t] = << >>
      /\ k' = Ends(n, t, YieldHigher)
      /\ UNCHANGED <<cap, buffers, links, requests, made>> /\ exists' \subseteq exists
  BY DEF ReceiveBlocks, Free, buffers
<1> HIDE DEF s
<1>2. Unlisted(waiters, t)
  BY <1>1, Callers
<1>3. /\ WellFormed(n) /\ InSection(n, k)
      /\ Mood(n) = [Mood(k) EXCEPT ![t] = IF s = "pending" THEN "ready" ELSE s]
  <2>1. WellFormed(k) /\ InSection(k, k)
    BY InvTypes
  <2> QED BY <1>0, <2>1, StatusMood
<1> HIDE DEF n
<1>4. YieldHigher \in TailCalls /\ YieldHigher # NoTail
  BY TailTypes DEF YieldHigher, NoTail
<1>5. Steady(k', S) /\ Mood(k') = Mood(n)
  <2>1. Steady(k, S)
    BY DEF MsgInv
  <2> HIDE DEF S
  <2> QED BY <1>1, <1>3, <1>4, <2>1, CallEnds
<1>6. Mood(k') = [Mood(k) EXCEPT ![t] = s]
  BY <1>0, <1>3, <1>5
<1> QED BY <1>0, <1>1, <1>2, <1>5, <1>6, MoodInv DEF S

LEMMA RescheduleInv ==
  ASSUME MsgInv, NEW t \in Threads, Reschedule(t)
  PROVE  MsgInv'
<1>1. /\ Executes(k, t) /\ k.tail[t] # NoTail /\ k' = TailCall(k, t)
      /\ exists' = exists /\ cap' = cap /\ waiters' = waiters /\ out' = out /\ queue' = queue
      /\ received' = received /\ accepted' = accepted /\ made' = made
      /\ asking' = asking /\ answer' = answer /\ replied' = replied
  BY DEF Reschedule, buffers, links, requests
<1>2. Steady(k', Strays(waiters, asking)) /\ Mood(k') = Mood(k)
  <2>1. Steady(k, Strays(waiters, asking))
    BY DEF MsgInv
  <2> QED BY <1>1, <2>1, TailSteady
<1> QED BY <1>1, <1>2 DEF MsgInv, BoxOf

LEMMA InitQueueInv ==
  ASSUME MsgInv, NEW t \in Threads, InitQueue(t)
  PROVE  MsgInv'
<1>1. /\ k' = k /\ exists' = exists /\ waiters' = waiters /\ out' = out /\ queue' = queue
      /\ received' = received /\ accepted' = accepted /\ made' = made
      /\ asking' = asking /\ answer' = answer /\ replied' = replied
      /\ cap[t] = 0 /\ cap' = [cap EXCEPT ![t] = QueueSize[t]]
  BY DEF InitQueue, buffers, links, requests
<1>2. /\ QueueSize[t] \in Nat /\ cap \in [Threads -> Nat] /\ queue \in [Threads -> Seq(Msgs)]
      /\ \A v \in Threads : Len(queue[v]) <= cap[v]
  BY MsgPartsOK, InvTypes DEF MsgInv
<1>3. cap' \in [Threads -> Nat] /\ \A v \in Threads : cap'[v] = IF v = t THEN QueueSize[t] ELSE cap[v]
  BY <1>1, <1>2
<1>4. \A v \in Threads : Len(queue[v]) \in Nat
  BY <1>2
<1>5. \A v \in Threads : Len(queue[v]) <= cap'[v]
  BY <1>1, <1>2, <1>3, <1>4
<1> QED BY <1>1, <1>3, <1>5 DEF MsgInv, BoxOf

LEMMA AnsweredInv ==
  ASSUME MsgInv, NEW t \in Threads, Answered(t)
  PROVE  MsgInv'
<1> DEFINE b == BoxOf(k)
<1>1. /\ k' = k /\ exists' = exists /\ cap' = cap /\ waiters' = waiters /\ out' = out
      /\ queue' = queue /\ received' = received /\ accepted' = accepted /\ made' = made
      /\ asking' = [asking EXCEPT ![t] = 0] /\ answer' = answer /\ replied' = replied
      /\ Calls(k, t) /\ asking[t] # 0
  BY DEF Answered, buffers, links
<1>2. DataOK(b, waiters, out, asking, answer, replied, made)
  BY DEF MsgInv
<1>3. b.mood[t] = "ready"
  <2>1. IsReady(k, t)
    BY <1>1, Callers
  <2> QED BY <2>1 DEF BoxOf, Mood
<1> HIDE DEF b
<1>4. DataOK(b, waiters, out, asking', answer, replied, made)
  BY <1>1, <1>2, <1>3, AskEnds
<1>5. \A v \in Threads : asking[v] = 0 => asking'[v] = 0
  BY <1>1, InvTypes
<1>6. Strays(waiters, asking) \subseteq Strays(waiters, asking')
  BY <1>5 DEF Strays
<1>7. Steady(k, Strays(waiters, asking'))
  BY <1>6, MoreStrays DEF MsgInv
<1> QED BY <1>1, <1>4, <1>7 DEF MsgInv, BoxOf, b

(***************************************************************************)
(* Receiving.                                                              *)
(***************************************************************************)

\* t, which has no waiters, takes the oldest message of its queue.
LEMMA ReceiveQueuedInv ==
  ASSUME MsgInv, NEW t \in Threads, Free(t), ReceiveQueued(t), waiters[t] = << >>,
         UNCHANGED <<exists, cap, accepted, requests, made>>
  PROVE  MsgInv'
<1> DEFINE b == BoxOf(k)
           c == BoxAfter
<1>1. /\ queue[t] # << >> /\ received' = [received EXCEPT ![t] = Append(received[t], Head(queue[t]))]
      /\ queue' = [queue EXCEPT ![t] = Tail(queue[t])]
      /\ k' = k /\ exists' = exists /\ cap' = cap /\ waiters' = waiters /\ out' = out
      /\ accepted' = accepted /\ made' = made
      /\ asking' = asking /\ answer' = answer /\ replied' = replied
  BY DEF ReceiveQueued, links, requests
<1>2. /\ queue \in [Threads -> Seq(Msgs)] /\ received \in [Threads -> Seq(Msgs)]
      /\ accepted \in [Threads -> SUBSET Msgs] /\ k \in Kernels /\ cap \in [Threads -> Nat]
  BY InvTypes
<1>3. /\ Head(queue[t]) \in Msgs /\ Tail(queue[t]) \in Seq(Msgs)
      /\ Len(Tail(queue[t])) = Len(queue[t]) - 1 /\ Len(queue[t]) \in Nat
      /\ Append(received[t], Head(queue[t])) \in Seq(Msgs)
  BY <1>1, <1>2
<1>4. /\ received' \in [Threads -> Seq(Msgs)]
      /\ \A v \in Threads : received'[v] = IF v = t THEN Append(received[t], Head(queue[t]))
                                           ELSE received[v]
  BY <1>1, <1>2, <1>3
<1>5. /\ queue' \in [Threads -> Seq(Msgs)]
      /\ \A v \in Threads : queue'[v] = IF v = t THEN Tail(queue[t]) ELSE queue[v]
  BY <1>1, <1>2, <1>3
<1>6. c \in Boxes
  BY <1>1, <1>2, <1>4, <1>5, BoxTyped DEF BoxAfter
<1>7. /\ c.mood = b.mood /\ c.accepted = b.accepted /\ c.queue = queue' /\ c.received = received'
      /\ b.queue = queue /\ b.received = received /\ b.mood = Mood(k)
  BY <1>1 DEF BoxAfter, BoxOf
<1> HIDE DEF b, c
<1>8. ASSUME NEW u \in Threads PROVE Kept(c, u) = Kept(b, u)
  <2>1. CASE u # t
    BY <1>4, <1>5, <1>7, <2>1 DEF Kept
  <2>2. CASE u = t
    <3> DEFINE r == received[t]
               q == queue[t]
    <3>1. r \in Seq(Msgs) /\ q \in Seq(Msgs) /\ q # << >>
      BY <1>1, <1>2
    <3> HIDE DEF r, q
    <3>2. Append(r, Head(q)) \o Tail(q) = r \o q
      BY <3>1, MoveFacts
    <3> QED BY <1>4, <1>5, <1>7, <2>2, <3>2 DEF Kept, r, q
  <2> QED BY <2>1, <2>2
<1>9. \A u \in Threads : b.mood[u] = "receive" => c.queue[u] = b.queue[u]
  <2>1. Mood(k)[t] # "receive"
    BY Callers DEF Free
  <2> QED BY <1>5, <1>7, <2>1
<1>10. DataOK(c, waiters, out, asking, answer, replied, made)
  <2>1. DataOK(b, waiters, out, asking, answer, replied, made)
    BY DEF MsgInv, b
  <2> QED BY <1>6, <1>7, <1>8, <1>9, <2>1, KeptSame
<1>11. \A v \in Threads : Len(queue'[v]) <= cap[v]
  <2>1. Len(queue[t]) <= cap[t] /\ cap[t] \in Nat /\ \A v \in Threads : Len(queue[v]) <= cap[v]
    BY <1>2 DEF MsgInv
  <2>2. Len(Tail(queue[t])) <= cap[t]
    BY <1>3, <2>1
  <2> QED BY <1>5, <2>1, <2>2
<1> QED BY <1>1, <1>10, <1>11 DEF MsgInv, BoxOf, BoxAfter, c

\* t takes the message of its first waiter behind what was kept.
LEMMA TakesInv ==
  ASSUME MsgInv, NEW t \in Threads, Free(t), waiters[t] # << >>, Releases(t),
         UNCHANGED <<exists, cap, accepted, requests, made>>,
         queue' \in [Threads -> Seq(Msgs)], received' \in [Threads -> Seq(Msgs)],
         received'[t] \o queue'[t] = Append(received[t] \o queue[t], out[Head(waiters[t])]),
         Len(queue'[t]) <= cap[t],
         \A v \in Threads \ {t} : queue'[v] = queue[v] /\ received'[v] = received[v]
  PROVE  MsgInv'
<1> DEFINE b == BoxOf(k)
           c == BoxAfter
           h == Head(waiters[t])
           s == "pending"
           n == SetStatus(k, h, s)
           z == SwitchTo(h)
           y == [waiters EXCEPT ![t] = Tail(waiters[t])]
           T == Strays(y, asking)
<1>0. s \in Blocked \cup {"pending"} /\ s = "pending"
  OBVIOUS
<1>1. /\ waiters' = y /\ out' = [out EXCEPT ![h] = NoMsg]
      /\ exists' = exists /\ cap' = cap /\ accepted' = accepted /\ made' = made
      /\ asking' = asking /\ answer' = answer /\ replied' = replied
      /\ (k.status[h] = "reply" /\ k' = k) \/ (k.status[h] # "reply" /\ k' = Ends(n, t, z))
  BY DEF Releases, requests
<1>2. /\ accepted \in [Threads -> SUBSET Msgs] /\ k \in Kernels /\ cap \in [Threads -> Nat]
      /\ waiters \in [Threads -> Seq(Threads)] /\ WellFormed(k) /\ InSection(k, k)
  BY InvTypes
<1>3. /\ h \in Threads /\ \A v : Contains(Tail(waiters[t]), v) => Contains(waiters[t], v)
  <2>1. waiters[t] \in Seq(Threads) /\ NoDuplicates(waiters[t])
    BY <1>2 DEF MsgInv, DataOK, Listings
  <2> QED BY <2>1, TailFacts
<1>4. Strays(waiters, asking) \subseteq T
  <2>1. \A v \in Threads : y[v] = IF v = t THEN Tail(waiters[t]) ELSE waiters[v]
    BY <1>2
  <2>2. \A u, v \in Threads : Contains(y[u], v) => Contains(waiters[u], v)
    BY <1>3, <2>1
  <2> HIDE DEF y
  <2> QED BY <2>2 DEF Strays
<1>5. Steady(k, T) /\ Steady(k, Strays(waiters, asking))
  BY <1>4, MoreStrays DEF MsgInv
<1>6. Calls(k, t) /\ Mood(k)[t] # "receive"
  BY Callers DEF Free
<1>7. k.status[h] = "reply" <=> Mood(k)[h] = "reply"
  BY <1>2, <1>3, MoodIs DEF Blocked
<1>17. (IsReady(k, t) \/ k.status[t] = "reply") /\ h # t /\ t \in T
  <2>1. Unlisted(waiters, t) /\ (IsReady(k, t) \/ k.status[t] = "reply") /\ asking[t] = 0
    BY Callers DEF Free
  <2>2. Contains(waiters[t], h)
    <3>1. waiters[t] \in Seq(Threads) /\ NoDuplicates(waiters[t])
      BY <1>2 DEF MsgInv, DataOK, Listings
    <3> QED BY <3>1, TailFacts
  <2>3. t \in Strays(waiters, asking)
    BY <2>1 DEF Strays, Unlisted
  <2> HIDE DEF h, T
  <2> QED BY <1>4, <2>1, <2>2, <2>3 DEF Unlisted
<1> HIDE DEF s, h, T
<1>8. /\ Steady(k', T)
      /\ Mood(k') = IF Mood(k)[h] = "reply" THEN Mood(k) ELSE [Mood(k) EXCEPT ![h] = "ready"]
  <2>1. CASE k.status[h] = "reply"
    BY <1>1, <1>5, <1>7, <2>1
  <2>2. CASE k.status[h] # "reply"
    <3>1. k' = Ends(n, t, z)
      BY <1>1, <2>2
    <3>2. /\ WellFormed(n) /\ InSection(n, k)
          /\ Mood(n) = [Mood(k) EXCEPT ![h] = IF s = "pending" THEN "ready" ELSE s]
      BY <1>0, <1>2, <1>3, StatusMood
    <3>3. z \in TailCalls
      BY <1>2, <1>3, SwitchToTail
    <3>5. IsReady(n, t) \/ (t \in T /\ n.status[t] = "reply")
      <4>1. n = SetStatus(k, h, "pending")
        BY <1>0
      <4> HIDE DEF n
      <4> QED BY <1>2, <1>3, <1>17, <4>1, WakesOther
    <3> DEFINE S == Strays(waiters, asking)
    <3>6. Steady(k, S) /\ Calls(k, t)
      BY <1>5, <1>6
    <3> HIDE DEF n, z, S, y, b, c
    <3>7. Steady(Ends(n, t, z), T) /\ Mood(Ends(n, t, z)) = Mood(n)
      <4>1. WellFormed(n) /\ InSection(n, k)
        BY <3>2
      <4>2. z # NoTail \/ IsReady(n, t) \/ (t \in T /\ n.status[t] = "reply")
        BY <3>5
      <4> QED BY <3>3, <3>6, <4>1, <4>2, CallEnds
    <3>4. Steady(k', T) /\ Mood(k') = Mood(n)
      BY <3>1, <3>7
    <3> QED BY <1>0, <1>7, <2>2, <3>2, <3>4
  <2> QED BY <2>1, <2>2
<1>9. c \in Boxes
  <2>1. k' \in Kernels
    BY <1>8 DEF Steady, WellFormed
  <2> QED BY <1>1, <1>2, <2>1, BoxTyped DEF BoxAfter
<1>10. /\ c.mood = Mood(k') /\ c.accepted = b.accepted /\ c.queue = queue' /\ c.received = received'
       /\ b.queue = queue /\ b.received = received /\ b.mood = Mood(k)
  BY <1>1 DEF BoxAfter, BoxOf
<1>11. DataOK(b, waiters, out, asking, answer, replied, made)
  BY DEF MsgInv
<1>12. Follows(b, c, t, out[h])
  BY <1>10 DEF Follows, Kept, h
<1> HIDE DEF b, c
<1>13. \A u \in Threads \ {t} : c.queue[u] = b.queue[u] /\ c.received[u] = b.received[u]
  BY <1>10
<1>14. Frees(b, c, h)
  BY <1>8, <1>10 DEF Frees
<1>15. DataOK(c, y, [out EXCEPT ![h] = NoMsg], asking, answer, replied, made)
  <2>1. /\ h = Head(waiters[t]) /\ waiters[t] # << >> /\ b.mood[t] # "receive" /\ h \in Threads
        /\ c.accepted = b.accepted
    BY <1>3, <1>6, <1>10 DEF h
  <2> HIDE DEF n, z, y
  <2>2. DataOK(c, [waiters EXCEPT ![t] = Tail(waiters[t])], [out EXCEPT ![h] = NoMsg],
               asking, answer, replied, made)
    BY <1>9, <1>11, <1>12, <1>13, <1>14, <2>1, Takes
  <2> QED BY <2>2 DEF y
<1>16. \A v \in Threads : Len(queue'[v]) <= cap[v]
  BY DEF MsgInv
<1> HIDE DEF y
<1> QED BY <1>1, <1>8, <1>15, <1>16 DEF MsgInv, BoxOf, BoxAfter, c, T

LEMMA ReceiveInv ==
  ASSUME MsgInv, NEW t \in Threads, Receive(t)
  PROVE  MsgInv'
<1> DEFINE m == out[Head(waiters[t])]
           r == received[t]
           q == queue[t]
<1>1. Free(t) /\ UNCHANGED <<exists, cap, accepted, requests, made>>
  BY DEF Receive
<1>2. /\ queue \in [Threads -> Seq(Msgs)] /\ received \in [Threads -> Seq(Msgs)]
      /\ r \in Seq(Msgs) /\ q \in Seq(Msgs) /\ Len(q) \in Nat /\ Len(q) <= cap[t] /\ cap[t] \in Nat
  BY InvTypes DEF MsgInv
<1>3. waiters[t] # << >> => m \in Msgs
  <2>1. waiters[t] \in Seq(Threads) /\ NoDuplicates(waiters[t]) /\ FromSender(waiters[t], out)
    BY InvTypes DEF MsgInv, DataOK, Listings
  <2>2. waiters[t] # << >> => Head(waiters[t]) \in Threads /\ Contains(waiters[t], Head(waiters[t]))
    BY <2>1, TailFacts
  <2> QED BY <2>1, <2>2 DEF FromSender
<1>4. CASE ReceiveQueued(t) /\ waiters[t] = << >>
  BY <1>1, <1>4, ReceiveQueuedInv
<1>5. CASE ReceiveQueued(t) /\ waiters[t] # << >>
  <2> DEFINE x == Append(r, Head(q))
             l == Tail(q)
  <2>1. /\ q # << >> /\ received' = [received EXCEPT ![t] = x] /\ Releases(t)
        /\ queue' = [queue EXCEPT ![t] = Append(l, m)]
    BY <1>5 DEF ReceiveQueued
  <2> HIDE DEF m, r, q
  <2>2. /\ Head(q) \in Msgs /\ l \in Seq(Msgs) /\ x \in Seq(Msgs) /\ Len(l) = Len(q) - 1
    BY <1>2, <2>1
  <2>3. x \o l = r \o q
    BY <1>2, <2>1, MoveFacts
  <2> HIDE DEF x, l
  <2>4. x \o Append(l, m) = Append(x \o l, m) /\ Append(l, m) \in Seq(Msgs)
        /\ Len(Append(l, m)) = Len(l) + 1
    BY <1>3, <1>5, <2>2
  <2>5. queue' \in [Threads -> Seq(Msgs)] /\ queue'[t] = Append(l, m)
        /\ \A v \in Threads \ {t} : queue'[v] = queue[v]
    BY <1>2, <2>1, <2>4
  <2>6. received' \in [Threads -> Seq(Msgs)] /\ received'[t] = x
        /\ \A v \in Threads \ {t} : received'[v] = received[v]
    BY <1>2, <2>1, <2>2
  <2>7. Len(queue'[t]) <= cap[t]
    BY <1>2, <2>2, <2>4, <2>5
  <2>8. received'[t] \o queue'[t] = Append(received[t] \o queue[t], out[Head(waiters[t])])
    BY <2>3, <2>4, <2>5, <2>6 DEF m, r, q
  <2> QED BY <1>1, <1>5, <2>1, <2>5, <2>6, <2>7, <2>8, TakesInv
<1>6. CASE ReceiveFromWaiter(t)
  <2> DEFINE x == Append(r, m)
  <2>1. /\ q = << >> /\ waiters[t] # << >> /\ received' = [received EXCEPT ![t] = x] /\ Releases(t)
        /\ queue' = queue
    BY <1>6 DEF ReceiveFromWaiter
  <2> HIDE DEF m, r, q
  <2>2. x \in Seq(Msgs)
    BY <1>2, <1>3, <2>1
  <2>3. x \o q = x /\ r \o q = r
    BY <1>2, <2>1, <2>2, ConcatEmptySeq
  <2> HIDE DEF x
  <2>4. queue' \in [Threads -> Seq(Msgs)] /\ queue'[t] = q /\ Len(queue'[t]) <= cap[t]
        /\ \A v \in Threads \ {t} : queue'[v] = queue[v]
    BY <1>2, <2>1 DEF q
  <2>5. received' \in [Threads -> Seq(Msgs)] /\ received'[t] = x
        /\ \A v \in Threads \ {t} : received'[v] = received[v]
    BY <1>2, <2>1, <2>2
  <2>6. received'[t] \o queue'[t] = Append(received[t] \o queue[t], out[Head(waiters[t])])
    BY <2>3, <2>4, <2>5 DEF m, r, q, x
  <2> QED BY <1>1, <2>1, <2>4, <2>5, <2>6, TakesInv
<1>7. CASE ReceiveBlocks(t)
  BY <1>1, <1>7, ReceiveBlocksInv
<1>8. ReceiveQueued(t) \/ ReceiveFromWaiter(t) \/ ReceiveBlocks(t)
  BY DEF Receive
<1> QED BY <1>4, <1>5, <1>6, <1>7, <1>8

(***************************************************************************)
(* Replies.                                                                *)
(***************************************************************************)

\* The request m has been answered and its sender woken.
LEMMA RepliesInv ==
  ASSUME MsgInv, NEW t \in Threads, NEW m \in Owed(t)
  PROVE  /\ m.from \in Threads
         /\ /\ Answers(m) /\ Steady(k', Strays(waiters, asking))
            /\ Mood(k') = [Mood(k) EXCEPT ![m.from] = "ready"]
            => MsgInv'
<1> DEFINE b == BoxOf(k)
<1>1. m \in Msgs /\ Contains(received[t], m) /\ m.ask /\ m.id \notin replied
  <2>1. received[t] \in Seq(Msgs)
    BY InvTypes
  <2>2. DOMAIN received[t] = 1..Len(received[t])
    BY <2>1
  <2> QED BY <2>1, <2>2 DEF Owed, ToSet, Contains
<1>2. DataOK(b, waiters, out, asking, answer, replied, made)
  BY DEF MsgInv
<1>3. Contains(b.received[t], m)
  BY <1>1 DEF BoxOf
<1> DEFINE c == [b EXCEPT !.mood = [b.mood EXCEPT ![m.from] = "ready"]]
<1>4. /\ m.from \in Threads
      /\ DataOK(c, waiters, out, asking, [answer EXCEPT ![m.from] = m.id], replied \cup {m.id}, made)
  <2> HIDE DEF b
  <2> QED BY <1>1, <1>2, <1>3, Replies
<1>5. ASSUME Answers(m), Steady(k', Strays(waiters, asking)),
             Mood(k') = [Mood(k) EXCEPT ![m.from] = "ready"]
      PROVE  MsgInv'
  <2>1. /\ exists' = exists /\ cap' = cap /\ waiters' = waiters /\ out' = out /\ queue' = queue
        /\ received' = received /\ accepted' = accepted /\ made' = made
        /\ asking' = asking /\ answer' = [answer EXCEPT ![m.from] = m.id]
        /\ replied' = replied \cup {m.id}
    BY <1>5 DEF Answers, buffers, links
  <2>2. BoxAfter = c
    BY <1>5, <2>1 DEF BoxAfter, BoxOf
  <2> HIDE DEF c
  <2>3. DataOK(BoxAfter, waiters', out', asking', answer', replied', made')
    BY <1>4, <2>1, <2>2
  <2> QED BY <1>5, <2>1, <2>3 DEF MsgInv, BoxOf, BoxAfter
<1> QED BY <1>4, <1>5

LEMMA ReplyInv ==
  ASSUME MsgInv, NEW t \in Threads, NEW m \in Owed(t), Reply(t, m)
  PROVE  MsgInv'
<1> DEFINE u == m.from
           s == "pending"
           n == SetStatus(k, u, s)
           z == Switch(k.prio[u])
           S == Strays(waiters, asking)
<1>0. s \in Blocked \cup {"pending"} /\ s = "pending"
  OBVIOUS
<1>1. Calls(k, t) /\ k' = Ends(n, t, z) /\ Answers(m)
  BY DEF Reply, Free
<1>2. u \in Threads
  BY RepliesInv
<1>3. WellFormed(k) /\ InSection(k, k) /\ k \in Kernels /\ Steady(k, S)
  BY InvTypes DEF MsgInv
<1> HIDE DEF s, u, S
<1>4. /\ WellFormed(n) /\ InSection(n, k)
      /\ Mood(n) = [Mood(k) EXCEPT ![u] = IF s = "pending" THEN "ready" ELSE s]
  BY <1>0, <1>2, <1>3, StatusMood
<1>5. z \in TailCalls /\ z # NoTail
  <2>1. k.prio[u] \in Prios
    BY <1>2, <1>3 DEF Kernels
  <2> QED BY <2>1, TailTypes DEF TailCalls, Switch, NoTail
<1> HIDE DEF n, z
<1>6. Steady(k', S) /\ Mood(k') = Mood(n)
  BY <1>1, <1>3, <1>4, <1>5, CallEnds
<1>7. Mood(k') = [Mood(k) EXCEPT ![m.from] = "ready"]
  BY <1>0, <1>4, <1>6 DEF u
<1> QED BY <1>1, <1>6, <1>7, RepliesInv DEF S

LEMMA IsrReplyInv ==
  ASSUME MsgInv, NEW t \in Threads, NEW m \in Owed(t), IsrReply(t, m)
  PROVE  MsgInv'
<1> DEFINE u == m.from
           n == IsrYield(SetStatus(k, u, "pending"))
           S == Strays(waiters, asking)
<1>1. k' = IsrEnd(n) /\ Answers(m)
  BY DEF IsrReply
<1>2. u \in Threads
  BY RepliesInv
<1>3. WakesOnly(k, k) /\ Steady(k, S)
  BY InvTypes DEF WakesOnly, MsgInv
<1> HIDE DEF u, S
<1>4. WakesOnly(n, k) /\ Mood(n) = [Mood(k) EXCEPT ![u] = "ready"]
  BY <1>2, <1>3, WakesOne
<1> HIDE DEF n
<1>5. Steady(k', S) /\ Mood(k') = Mood(n)
  BY <1>1, <1>3, <1>4, IsrSteady
<1>6. Mood(k') = [Mood(k) EXCEPT ![m.from] = "ready"]
  BY <1>4, <1>5 DEF u
<1> QED BY <1>1, <1>5, <1>6, RepliesInv DEF S

(***************************************************************************)
(* The invariant holds.                                                    *)
(***************************************************************************)

LEMMA MsgStarts == Init => MsgInv
<1> SUFFICES ASSUME Init PROVE MsgInv
  OBVIOUS
<1> DEFINE b == BoxOf(k)
<1>1. /\ k = Booted(Prio) /\ exists = Threads /\ made = 0 /\ replied = {}
      /\ cap = [t \in Threads |-> 0] /\ queue = [t \in Threads |-> << >>]
      /\ waiters = [t \in Threads |-> << >>] /\ out = [t \in Threads |-> NoMsg]
      /\ received = [t \in Threads |-> << >>] /\ accepted = [t \in Threads |-> {}]
      /\ asking = [t \in Threads |-> 0] /\ answer = [t \in Threads |-> 0]
  BY DEF Init
<1>2. KernelOK(k) /\ \A t \in Threads : IsReady(k, t)
  BY <1>1, BootedOK, MsgPartsOK
<1>3. Steady(k, Strays(waiters, asking)) /\ k \in Kernels
  BY <1>2, OrderIsSteady DEF KernelOK, WellFormed
<1>4. b \in Boxes
  <2>1. << >> \in Seq(Msgs)
    OBVIOUS
  <2>2. /\ queue \in [Threads -> Seq(Msgs)] /\ received \in [Threads -> Seq(Msgs)]
        /\ accepted \in [Threads -> SUBSET Msgs]
    BY <1>1, <2>1
  <2> QED BY <1>3, <2>2, BoxTyped DEF BoxOf
<1>5. /\ \A t \in Threads : b.mood[t] = "ready" /\ b.queue[t] = << >> /\ b.received[t] = << >>
      /\ \A t \in Threads : b.accepted[t] = {}
  BY <1>1, <1>2 DEF BoxOf, Mood
<1> HIDE DEF b
<1>6. /\ \A t \in Threads : waiters[t] = << >> /\ asking[t] = 0 /\ answer[t] = 0
      /\ \A t, v \in Threads : ~Contains(waiters[t], v)
  BY <1>1 DEF Contains
<1>7. Typed(b, waiters, out, asking, answer, replied, made)
  <2>1. waiters \in [Threads -> Seq(Threads)]
    BY <1>1
  <2>2. out \in Letters
    BY <1>1 DEF Letters
  <2>3. 0 \in 0..MaxMsgs
    BY MsgPartsOK
  <2>4. asking \in [Threads -> 0..MaxMsgs] /\ answer \in [Threads -> 0..MaxMsgs]
    BY <1>1, <2>3
  <2> QED BY <1>1, <1>4, <2>1, <2>2, <2>3, <2>4 DEF Typed
<1>8. Listings(b.mood, waiters, out, asking)
  BY <1>5, <1>6 DEF Listings, FromSender, NoDuplicates
<1>9. Answering(b.mood, asking, answer, replied) /\ Sleeping(b.mood, waiters, b.queue)
  BY <1>5, <1>6 DEF Answering, Sleeping
<1>10. Asked(b.accepted, replied, asking, made)
  BY <1>5 DEF Asked
<1>11. ASSUME NEW u \in Threads PROVE Mail(Kept(b, u), waiters[u], out, b.accepted[u])
  <2>1. Kept(b, u) = << >>
    BY <1>5 DEF Kept
  <2>2. Len(<< >>) = 0 /\ \A x : ~Contains(<< >>, x)
    BY DEF Contains
  <2> QED BY <1>5, <1>6, <2>1, <2>2 DEF Mail, Chrono
<1>12. DataOK(b, waiters, out, asking, answer, replied, made)
  BY <1>7, <1>8, <1>9, <1>10, <1>11 DEF DataOK
<1>13. cap \in [Threads -> Nat] /\ \A t \in Threads : Len(queue[t]) <= cap[t]
  BY <1>1
<1> QED BY <1>1, <1>3, <1>12, <1>13 DEF MsgInv, b

LEMMA MsgStep == MsgInv /\ [Next]_vars => MsgInv'
<1> SUFFICES ASSUME MsgInv, [Next]_vars PROVE MsgInv'
  OBVIOUS
<1>1. ASSUME NEW t \in Threads,
             \/ InitQueue(t) \/ SendToSelf(t) \/ Answered(t) \/ Receive(t)
             \/ Exit(t) \/ Reschedule(t)
             \/ \E subs \in SUBSET ToSet(Bus) : SendBus(t, subs)
      PROVE  MsgInv'
  BY <1>1, InitQueueInv, SendToSelfInv, AnsweredInv, ReceiveInv, SendBusInv, ExitInv,
     RescheduleInv
<1>2. ASSUME NEW t \in Threads, NEW m \in Owed(t), Reply(t, m) \/ IsrReply(t, m)
      PROVE  MsgInv'
  BY <1>2, ReplyInv, IsrReplyInv
<1>3. ASSUME NEW t \in Threads, NEW u \in Receivers,
             Send(t, u) \/ TrySend(t, u) \/ SendReceive(t, u) \/ SendReceiveFails(t, u)
      PROVE  MsgInv'
  <2>1. u \in Threads
    BY MsgPartsOK
  <2> QED BY <1>3, <2>1, SendInv, SendReceiveInv, SendReceiveFailsInv
<1>4. ASSUME NEW u \in Receivers, IsrSend(<<u>>, {u}) PROVE MsgInv'
  <2>1. u \in Threads
    BY MsgPartsOK
  <2>2. <<u>> \in Seq(Threads) /\ NoDuplicates(<<u>>)
    BY <2>1 DEF NoDuplicates
  <2> QED BY <1>4, <2>2, IsrSendInv
<1>5. ASSUME NEW subs \in SUBSET ToSet(Bus), IsrSend(Bus, subs) PROVE MsgInv'
  BY <1>5, MsgPartsOK, IsrSendInv
<1>6. CASE UNCHANGED vars
  <2>1. /\ k' = k /\ exists' = exists /\ cap' = cap /\ waiters' = waiters /\ out' = out
        /\ queue' = queue /\ received' = received /\ accepted' = accepted /\ made' = made
        /\ asking' = asking /\ answer' = answer /\ replied' = replied
    BY <1>6 DEF vars, buffers, links, requests
  <2> QED BY <2>1 DEF MsgInv, BoxOf
<1> QED BY <1>1, <1>2, <1>3, <1>4, <1>5, <1>6 DEF Next

\* Whatever is sent, received, asked, answered and published, and whoever exits, the
\* lists, the statuses and the messages agree.
THEOREM MsgInvariant == Spec => []MsgInv
<1> QED BY MsgStarts, MsgStep, PTL DEF Spec

\* The queues never hold more than msg_init_queue was told, and every variable keeps
\* its type.
THEOREM MsgTypesHold == Spec => []TypeOK
<1>1. ASSUME MsgInv PROVE TypeOK
  <2>1. out \in [Threads -> Msgs \cup {NoMsg}] /\ exists \subseteq Threads
        /\ \A t \in Threads : Len(queue[t]) <= cap[t]
    BY <1>1, InvTypes DEF Letters, MsgInv
  <2> QED BY <1>1, <2>1, InvTypes DEF TypeOK
<1> QED BY <1>1, MsgInvariant, PTL

\* A sender is blocked in one list, once and with its message, until a receiver has
\* taken that (msg_waiters of _msg_send and _msg_receive).
THEOREM SendersStayListed == Spec => []SendersListed
<1>1. ASSUME MsgInv PROVE SendersListed
  <2>1. k \in Kernels
    BY <1>1, InvTypes
  <2>2. Listings(Mood(k), waiters, out, asking)
    BY <1>1 DEF MsgInv, DataOK, BoxOf
  <2>3. \A t \in Threads : /\ k.status[t] = "send" <=> Mood(k)[t] = "send"
                           /\ k.status[t] = "reply" <=> Mood(k)[t] = "reply"
    BY <2>1, MoodIs DEF Blocked
  <2>4. \A t \in Threads : NoDuplicates(waiters[t])
    BY <2>2 DEF Listings
  <2>5. ASSUME NEW t \in Threads, NEW u \in Threads, Contains(waiters[u], t)
        PROVE  /\ k.status[t] \in {"send", "reply"} /\ out[t].from = t
               /\ \A v \in Threads \ {u} : ~Contains(waiters[v], t)
    BY <2>2, <2>3, <2>5 DEF Listings, FromSender
  <2>6. \A t \in Threads : k.status[t] = "send" => \E u \in Threads : Contains(waiters[u], t)
    BY <2>2, <2>3 DEF Listings
  <2> QED BY <2>4, <2>5, <2>6 DEF SendersListed
<1> QED BY <1>1, MsgInvariant, PTL

\* msg_send_receive does not return before its own request has been replied to.
THEOREM RepliesAnswerRequests == Spec => []RepliesMatch
<1>1. ASSUME MsgInv PROVE RepliesMatch
  <2> SUFFICES ASSUME NEW t \in Threads, asking[t] # 0, IsReady(k, t)
               PROVE  answer[t] = asking[t]
    BY DEF RepliesMatch
  <2>1. Mood(k)[t] = "ready"
    BY DEF Mood
  <2>2. Answering(Mood(k), asking, answer, replied)
    BY <1>1 DEF MsgInv, DataOK, BoxOf
  <2> QED BY <2>1, <2>2 DEF Answering
<1> QED BY <1>1, MsgInvariant, PTL

\* A thread that is STATUS_RECEIVE_BLOCKED has nothing in its queue and no waiters.
THEOREM ReceiversSleepRightly == Spec => []ReceiversSleepOnEmpty
<1>1. ASSUME MsgInv PROVE ReceiversSleepOnEmpty
  <2> SUFFICES ASSUME NEW u \in Threads, k.status[u] = "receive"
               PROVE  queue[u] = << >> /\ waiters[u] = << >>
    BY DEF ReceiversSleepOnEmpty
  <2>1. Mood(k)[u] = "receive"
    BY <1>1, InvTypes, MoodIs DEF Blocked
  <2>2. Sleeping(Mood(k), waiters, queue)
    BY <1>1 DEF MsgInv, DataOK, BoxOf
  <2> QED BY <2>1, <2>2 DEF Sleeping
<1> QED BY <1>1, MsgInvariant, PTL

(***************************************************************************)
(* The messages on their way to one thread: s those it has received and     *)
(* those queued, behind them those of its waiters.                          *)
(***************************************************************************)

Behind(w, o) == [i \in 1..Len(w) |-> o[w[i]]]

LEMMA StreamFacts ==
  ASSUME NEW s \in Seq(Msgs), NEW w \in Seq(Threads), NEW o \in Letters,
         NEW acc \in SUBSET Msgs, Mail(s, w, o, acc), FromSender(w, o), NoDuplicates(w)
  PROVE  LET q == s \o Behind(w, o)
         IN /\ q \in Seq(Msgs) /\ Chrono(q)
            /\ \A x : x \in acc <=> \E i \in 1..Len(q) : x = q[i]
<1> DEFINE z == Behind(w, o)
           q == s \o z
           n == Len(s)
<1>1. \A i \in 1..Len(w) : w[i] \in Threads /\ Contains(w, w[i])
  BY DEF Contains
<1>2. /\ z \in Seq(Msgs) /\ Len(z) = Len(w) /\ Len(w) \in Nat
      /\ \A i \in 1..Len(w) : z[i] = o[w[i]] /\ z[i].from = w[i]
  <2>1. \A i \in 1..Len(w) : o[w[i]] \in Msgs /\ o[w[i]].from = w[i]
    BY <1>1 DEF FromSender
  <2> QED BY <2>1 DEF Behind
<1> HIDE DEF z
<1>3. /\ q \in Seq(Msgs) /\ Len(q) = n + Len(w) /\ n \in Nat
      /\ \A i \in 1..n : q[i] = s[i]
      /\ \A i \in 1..Len(w) : q[n + i] = z[i]
  <2>0. z \in Seq(Msgs)
    BY <1>2
  <2>1. /\ q \in Seq(Msgs) /\ Len(q) = n + Len(z)
        /\ \A i \in 1..(n + Len(z)) : q[i] = IF i <= n THEN s[i] ELSE z[i - n]
    BY <2>0, ConcatProperties, Zenon
  <2> HIDE DEF q
  <2>2. n \in Nat
    OBVIOUS
  <2> HIDE DEF n
  <2>3. \A i \in 1..n : q[i] = s[i]
    BY <1>2, <2>1, <2>2
  <2>4. ASSUME NEW i \in 1..Len(w) PROVE q[n + i] = z[i]
    <3>1. n + i \in 1..(n + Len(z)) /\ ~(n + i <= n) /\ (n + i) - n = i
      BY <1>2, <2>2
    <3> QED BY <2>1, <3>1
  <2> QED BY <1>2, <2>1, <2>2, <2>3, <2>4
<1> HIDE DEF q
<1>4. ASSUME NEW i \in 1..Len(q)
      PROVE  i \in 1..n \/ \E e \in 1..Len(w) : i = n + e
  <2>1. CASE i <= n
    BY <1>3, <2>1
  <2>2. CASE i > n
    <3>1. i - n \in 1..Len(w) /\ i = n + (i - n)
      BY <1>2, <1>3, <2>2
    <3> QED BY <3>1
  <2> QED BY <1>3, <2>1, <2>2
<1>5. Chrono(q)
  <2> SUFFICES ASSUME NEW i \in 1..Len(q), NEW j \in 1..Len(q), i < j, q[i].from = q[j].from
               PROVE  q[i].id < q[j].id
    BY DEF Chrono
  <2>1. CASE i \in 1..n /\ j \in 1..n
    <3>1. q[i] = s[i] /\ q[j] = s[j]
      BY <1>3, <2>1
    <3> QED BY <2>1, <3>1 DEF Mail, Chrono
  <2>2. ASSUME i \in 1..n, NEW e \in 1..Len(w), j = n + e PROVE q[i].id < q[j].id
    <3>1. q[i] = s[i] /\ q[j] = o[w[e]]
      BY <1>2, <1>3, <2>2
    <3>2. Older(s, o[w[e]])
      BY <1>1 DEF Mail
    <3> QED BY <2>2, <3>1, <3>2 DEF Older
  <2>3. ASSUME NEW d \in 1..Len(w), NEW e \in 1..Len(w), i = n + d, j = n + e PROVE FALSE
    <3>1. q[i].from = w[d] /\ q[j].from = w[e]
      BY <1>2, <1>3, <2>3
    <3>2. d = e
      BY <3>1 DEF NoDuplicates
    <3> QED BY <1>3, <2>3, <3>2
  <2>4. ASSUME NEW d \in 1..Len(w), i = n + d, j \in 1..n PROVE FALSE
    BY <1>3, <2>4
  <2> QED BY <1>4, <2>1, <2>2, <2>3, <2>4
<1>6. ASSUME NEW x
      PROVE  x \in acc <=> \E i \in 1..Len(q) : x = q[i]
  <2>1. \A y \in Msgs : y \in acc <=> \/ Contains(s, y)
                                      \/ \E v \in Threads : Contains(w, v) /\ y = o[v]
    BY DEF Mail
  <2>2. ASSUME NEW i \in 1..Len(q), x = q[i] PROVE x \in acc
    <3>0. x \in Msgs
      BY <1>3, <2>2
    <3>1. CASE i \in 1..n
      <4>1. Contains(s, x)
        BY <1>3, <2>2, <3>1 DEF Contains
      <4> QED BY <2>1, <3>0, <4>1
    <3>2. ASSUME NEW e \in 1..Len(w), i = n + e PROVE x \in acc
      <4>1. x = o[w[e]]
        BY <1>2, <1>3, <2>2, <3>2
      <4> QED BY <1>1, <2>1, <3>0, <4>1
    <3> QED BY <1>4, <3>1, <3>2
  <2>3. ASSUME x \in acc PROVE \E i \in 1..Len(q) : x = q[i]
    <3>1. CASE Contains(s, x)
      <4>1. PICK i \in 1..n : s[i] = x
        BY <3>1 DEF Contains
      <4>2. i \in 1..Len(q) /\ q[i] = x
        BY <1>2, <1>3, <4>1
      <4> QED BY <4>2
    <3>2. ASSUME NEW v \in Threads, Contains(w, v), x = o[v]
          PROVE  \E i \in 1..Len(q) : x = q[i]
      <4>1. PICK e \in 1..Len(w) : w[e] = v
        BY <3>2 DEF Contains
      <4>2. n + e \in 1..Len(q) /\ q[n + e] = x
        BY <1>2, <1>3, <3>2, <4>1
      <4> QED BY <4>2
    <3> QED BY <2>1, <2>3, <3>1, <3>2
  <2> QED BY <2>2, <2>3
<1> QED BY <1>3, <1>5, <1>6 DEF q, z

\* Who has nothing twice has as many as there are.
LEMMA ChronoCounts ==
  ASSUME NEW q \in Seq(Msgs), Chrono(q), NEW acc,
         \A x : x \in acc <=> \E i \in 1..Len(q) : x = q[i]
  PROVE  ToSet(q) = acc /\ Len(q) = Cardinality(acc)
<1> DEFINE n == Len(q)
<1>1. n \in Nat /\ DOMAIN q = 1..n /\ \A i \in 1..n : q[i] \in Msgs
  OBVIOUS
<1>2. ToSet(q) = acc
  BY <1>1 DEF ToSet
<1>3. ASSUME NEW i \in 1..n, NEW j \in 1..n, q[i] = q[j] PROVE i = j
  <2>1. q[i].id \in Nat /\ q[j].id \in Nat
    BY <1>1, MsgFields
  <2>2. ~(i < j) /\ ~(j < i)
    BY <1>3, <2>1 DEF Chrono
  <2> QED BY <1>1, <2>2
<1>4. q \in [1..n -> acc]
  BY <1>1
<1> HIDE DEF n
<1>5. q \in Bijection(1..n, acc)
  <2>1. IsInjective(q)
    BY <1>1, <1>3 DEF IsInjective
  <2>2. \A x \in acc : \E i \in 1..n : q[i] = x
    BY DEF n
  <2> QED BY <1>4, <2>1, <2>2 DEF Bijection, Injection, Surjection
<1>6. Cardinality(acc) = n
  BY <1>1, <1>5, FS_CountingElements DEF ExistsBijection
<1> QED BY <1>2, <1>6 DEF n

LEMMA Streams ==
  ASSUME MsgInv, NEW u \in Threads
  PROVE  /\ Stream(u) \in Seq(Msgs) /\ Chrono(Stream(u))
         /\ \A x : x \in accepted[u] <=> \E i \in 1..Len(Stream(u)) : x = Stream(u)[i]
<1> DEFINE s == received[u] \o queue[u]
           w == waiters[u]
           acc == accepted[u]
<1>1. /\ s \in Seq(Msgs) /\ w \in Seq(Threads) /\ out \in Letters /\ acc \in SUBSET Msgs
  <2>1. received[u] \in Seq(Msgs) /\ queue[u] \in Seq(Msgs)
    BY InvTypes
  <2>2. w \in Seq(Threads) /\ out \in Letters /\ acc \in SUBSET Msgs
    BY InvTypes
  <2> QED BY <2>1, <2>2
<1>2. Mail(s, w, out, acc)
  BY DEF MsgInv, DataOK, BoxOf, Kept
<1>3. FromSender(w, out) /\ NoDuplicates(w)
  BY DEF MsgInv, DataOK, Listings
<1>4. Stream(u) = s \o Behind(w, out)
  BY DEF Stream, Behind
<1> HIDE DEF s, w, acc
<1> DEFINE q == s \o Behind(w, out)
<1>5. /\ q \in Seq(Msgs) /\ Chrono(q)
      /\ \A x : x \in acc <=> \E i \in 1..Len(q) : x = q[i]
  BY <1>1, <1>2, <1>3, StreamFacts
<1> HIDE DEF q
<1>6. Stream(u) = q
  BY <1>4 DEF q
<1> QED BY <1>5, <1>6 DEF acc

\* Every message that msg_send and its variants have not refused is received, queued
\* or with its blocked sender, in one place.
THEOREM NothingGetsLost == Spec => []NothingLost
<1>1. ASSUME MsgInv PROVE NothingLost
  <2>1. ASSUME NEW u \in Threads
        PROVE  ToSet(Stream(u)) = accepted[u] /\ Len(Stream(u)) = Cardinality(accepted[u])
    <3> DEFINE q == Stream(u)
               acc == accepted[u]
    <3>1. /\ q \in Seq(Msgs) /\ Chrono(q)
          /\ \A x : x \in acc <=> \E i \in 1..Len(q) : x = q[i]
      BY <1>1, Streams
    <3> HIDE DEF q, acc
    <3>2. ToSet(q) = acc /\ Len(q) = Cardinality(acc)
      BY <3>1, ChronoCounts
    <3> QED BY <3>2 DEF q, acc
  <2> QED BY <2>1 DEF NothingLost
<1> QED BY <1>1, MsgInvariant, PTL

\* What one thread sends to another arrives in the order it was sent.
THEOREM OrderIsKept == Spec => []InOrder
<1>1. ASSUME MsgInv PROVE InOrder
  <2>1. ASSUME NEW u \in Threads
        PROVE  /\ Chrono(Stream(u)) /\ DOMAIN Stream(u) = 1..Len(Stream(u))
    BY <1>1, Streams
  <2> QED BY <2>1 DEF InOrder, Chrono
<1> QED BY <1>1, MsgInvariant, PTL

(***************************************************************************)
(* Without exits there are no strays: each step keeps the kernel in order.  *)
(***************************************************************************)

Undisturbed == MsgInv /\ exists = Threads /\ Steady(k, {})

\* The calls that set one status, or none, and end.
LEMMA EndsSteady ==
  ASSUME Steady(k, {}), NEW t \in Threads, Calls(k, t), NEW kk, WellFormed(kk),
         InSection(kk, k), NEW u \in Threads, NEW s \in Blocked \cup {"pending"},
         NEW x \in TailCalls, x # NoTail
  PROVE  Steady(Ends(SetStatus(kk, u, s), t, x), {}) /\ Steady(Ends(kk, t, x), {})
<1> DEFINE n == SetStatus(kk, u, s)
<1>1. WellFormed(n) /\ InSection(n, k)
  BY StatusMood
<1> HIDE DEF n
<1>2. Steady(Ends(n, t, x), {})
  BY <1>1, CallEnds
<1>3. Steady(Ends(kk, t, x), {})
  BY CallEnds
<1> QED BY <1>2, <1>3 DEF n

LEMMA OneSendSteady ==
  ASSUME Steady(k, {}), NEW t \in Threads, Calls(k, t), NEW kk, WellFormed(kk),
         InSection(kk, k), IsReady(kk, t) \/ kk.status[t] = "reply",
         NEW u \in Threads, NEW m,
         SendDirect(kk, t, u, m) \/ SendQueued(kk, t, u, m) \/ SendBlocks(kk, t, u, m)
  PROVE  Steady(k', {})
<1>1. YieldHigher \in TailCalls /\ YieldHigher # NoTail /\ NoTail \in TailCalls
  BY TailTypes DEF YieldHigher, NoTail
<1>2. CASE SendDirect(kk, t, u, m)
  <2> DEFINE s == "pending"
  <2>1. s \in Blocked \cup {"pending"} /\ k' = Ends(SetStatus(kk, u, s), t, YieldHigher)
    BY <1>2 DEF SendDirect
  <2> HIDE DEF s
  <2> QED BY <1>1, <2>1, EndsSteady
<1>3. CASE SendQueued(kk, t, u, m)
  <2> DEFINE z == IF kk.status[t] = "reply" THEN YieldHigher ELSE NoTail
  <2>1. k' = Ends(kk, t, z) /\ z \in TailCalls /\ (z # NoTail \/ IsReady(kk, t))
    BY <1>1, <1>3 DEF SendQueued
  <2> HIDE DEF z
  <2> QED BY <2>1, CallEnds
<1>4. CASE SendBlocks(kk, t, u, m)
  <2> DEFINE s == IF kk.status[t] = "reply" THEN "reply" ELSE "send"
  <2>1. s \in Blocked \cup {"pending"} /\ k' = Ends(SetStatus(kk, t, s), t, YieldHigher)
    BY <1>4 DEF SendBlocks, Blocked
  <2> HIDE DEF s
  <2> QED BY <1>1, <2>1, EndsSteady
<1> QED BY <1>2, <1>3, <1>4

LEMMA SendSteady ==
  ASSUME Undisturbed, NEW t \in Threads, NEW u \in Threads,
         Send(t, u) \/ TrySend(t, u) \/ SendReceive(t, u)
  PROVE  Steady(k', {})
<1>1. /\ Steady(k, {}) /\ WellFormed(k) /\ InSection(k, k)
  BY InvTypes DEF Undisturbed
<1>2. Calls(k, t) /\ IsReady(k, t)
  BY <1>1 DEF Send, TrySend, SendReceive, Free, Steady
<1>3. ASSUME NEW m, SendDirect(k, t, u, m) \/ SendQueued(k, t, u, m) \/ SendBlocks(k, t, u, m)
      PROVE  Steady(k', {})
  BY <1>1, <1>2, <1>3, OneSendSteady
<1>4. CASE Send(t, u) \/ TrySend(t, u)
  <2>1. \/ \E m : SendDirect(k, t, u, m) \/ SendQueued(k, t, u, m) \/ SendBlocks(k, t, u, m)
        \/ k' = k
    BY <1>4 DEF Send, TrySend
  <2> QED BY <1>1, <1>3, <2>1
<1>5. CASE SendReceive(t, u)
  <2> DEFINE s == "reply"
             n == SetStatus(k, t, s)
  <2>1. s \in Blocked \cup {"pending"} /\ s = "reply"
    BY DEF Blocked
  <2>2. \E m : SendDirect(n, t, u, m) \/ SendQueued(n, t, u, m) \/ SendBlocks(n, t, u, m)
    BY <1>5 DEF SendReceive
  <2> HIDE DEF s
  <2>3. WellFormed(n) /\ InSection(n, k) /\ n.status[t] = "reply"
    BY <1>1, <2>1, StatusMood
  <2> HIDE DEF n
  <2>4. PICK m : SendDirect(n, t, u, m) \/ SendQueued(n, t, u, m) \/ SendBlocks(n, t, u, m)
    BY <2>2
  <2> QED BY <1>1, <1>2, <2>3, <2>4, OneSendSteady
<1> QED BY <1>4, <1>5

LEMMA ReceiveSteady ==
  ASSUME Undisturbed, NEW t \in Threads, Receive(t)
  PROVE  Steady(k', {})
<1>1. /\ Steady(k, {}) /\ WellFormed(k) /\ InSection(k, k) /\ k \in Kernels
  BY InvTypes DEF Undisturbed
<1>2. Calls(k, t)
  BY DEF Receive, Free
<1>3. CASE ReceiveBlocks(t)
  <2> DEFINE s == "receive"
  <2>1. s \in Blocked \cup {"pending"} /\ k' = Ends(SetStatus(k, t, s), t, YieldHigher)
    BY <1>3 DEF ReceiveBlocks, Blocked
  <2>2. YieldHigher \in TailCalls /\ YieldHigher # NoTail
    BY TailTypes DEF YieldHigher, NoTail
  <2> HIDE DEF s
  <2> QED BY <1>1, <1>2, <2>1, <2>2, EndsSteady
<1>4. CASE waiters[t] # << >> /\ Releases(t)
  <2> DEFINE h == Head(waiters[t])
             s == "pending"
             z == SwitchTo(h)
             n == SetStatus(k, h, s)
  <2>1. k' = k \/ k' = Ends(n, t, z)
    BY <1>4 DEF Releases
  <2>2. h \in Threads
    <3>1. waiters[t] \in Seq(Threads)
      BY InvTypes DEF Undisturbed
    <3> QED BY <1>4, <3>1
  <2>3. s \in Blocked \cup {"pending"}
    OBVIOUS
  <2>4. z \in TailCalls
    BY <1>1, <2>2, SwitchToTail
  <2>5. IsReady(n, t)
    <3>1. IsReady(k, t)
      BY <1>1, <1>2 DEF Steady
    <3>2. n = SetStatus(k, h, "pending")
      OBVIOUS
    <3> HIDE DEF n, h
    <3> QED BY <1>1, <2>2, <3>1, <3>2, WakesOther
  <2> HIDE DEF h, s
  <2>6. WellFormed(n) /\ InSection(n, k)
    BY <1>1, <2>2, <2>3, StatusMood
  <2> HIDE DEF n, z
  <2>7. CASE k' = k
    BY <1>1, <2>7
  <2>8. CASE k' = Ends(n, t, z)
    BY <1>1, <1>2, <2>4, <2>5, <2>6, <2>8, CallEnds
  <2> QED BY <2>1, <2>7, <2>8
<1>5. CASE k' = k
  BY <1>1, <1>5
<1>6. ReceiveBlocks(t) \/ (waiters[t] # << >> /\ Releases(t)) \/ k' = k
  BY DEF Receive, ReceiveQueued, ReceiveFromWaiter
<1> QED BY <1>3, <1>4, <1>5, <1>6

LEMMA BusSteady ==
  ASSUME Undisturbed, NEW t \in Threads, NEW subs, SendBus(t, subs)
  PROVE  Steady(k', {})
<1> DEFINE n == Published(NewMsg(t, FALSE), Bus, subs).k
           x == IF n.req THEN YieldHigher ELSE NoTail
<1>1. /\ MsgInv /\ Steady(k, {}) /\ Calls(k, t) /\ Makes /\ k' = Ends(n, t, x)
  BY DEF Undisturbed, SendBus, Free
<1>2. NewMsg(t, FALSE) \in Msgs
  BY <1>1, NewMsgFacts
<1>3. WakesOnly(n, k)
  BY <1>1, <1>2, MsgPartsOK, PublishedFacts
<1> HIDE DEF n
<1>4. x \in TailCalls
  BY TailTypes DEF YieldHigher, NoTail
<1> HIDE DEF x
<1>5. IsReady(n, t)
  BY <1>1, <1>3 DEF Steady, WakesOnly, IsReady, OnRunqueue
<1> QED BY <1>1, <1>3, <1>4, <1>5, CallEnds DEF WakesOnly

LEMMA IsrSendSteady ==
  ASSUME Undisturbed, NEW us \in Seq(Threads), NoDuplicates(us), NEW subs, IsrSend(us, subs)
  PROVE  Steady(k', {})
<1> DEFINE n == Published(NewMsg(Isr, FALSE), us, subs).k
<1>1. MsgInv /\ Steady(k, {}) /\ Makes /\ k' = IsrEnd(n)
  BY DEF Undisturbed, IsrSend
<1>2. NewMsg(Isr, FALSE) \in Msgs
  BY <1>1, NewMsgFacts
<1>3. WakesOnly(n, k)
  BY <1>1, <1>2, PublishedFacts
<1> HIDE DEF n
<1> QED BY <1>1, <1>3, IsrSteady

LEMMA ReplySteady ==
  ASSUME Undisturbed, NEW t \in Threads, NEW m \in Owed(t), Reply(t, m) \/ IsrReply(t, m)
  PROVE  Steady(k', {})
<1> DEFINE u == m.from
           s == "pending"
           z == Switch(k.prio[u])
           n == IsrYield(SetStatus(k, u, "pending"))
<1>1. /\ MsgInv /\ Steady(k, {}) /\ WellFormed(k) /\ InSection(k, k) /\ k \in Kernels
  BY InvTypes DEF Undisturbed
<1>2. u \in Threads /\ s \in Blocked \cup {"pending"}
  BY <1>1, RepliesInv
<1>3. CASE Reply(t, m)
  <2>1. Calls(k, t) /\ k' = Ends(SetStatus(k, u, s), t, z)
    BY <1>3 DEF Reply, Free
  <2> HIDE DEF u, s
  <2>2. z \in TailCalls /\ z # NoTail
    <3>1. k.prio[u] \in Prios
      BY <1>1, <1>2 DEF Kernels
    <3> QED BY <3>1, TailTypes DEF TailCalls, Switch, NoTail
  <2> HIDE DEF z
  <2> QED BY <1>1, <1>2, <2>1, <2>2, EndsSteady
<1>4. CASE IsrReply(t, m)
  <2>1. k' = IsrEnd(n)
    BY <1>4 DEF IsrReply
  <2>2. WakesOnly(k, k)
    BY <1>1 DEF WakesOnly
  <2> HIDE DEF u
  <2>3. WakesOnly(n, k)
    BY <1>2, <2>2, WakesOne
  <2> HIDE DEF n
  <2> QED BY <1>1, <2>1, <2>3, IsrSteady
<1> QED BY <1>3, <1>4

LEMMA UndisturbedStep ==
  ASSUME Mortal = {}, Undisturbed, [Next]_vars
  PROVE  exists' = Threads /\ Steady(k', {})
<1>1. Steady(k, {}) /\ exists = Threads
  BY DEF Undisturbed
<1>2. ASSUME NEW t \in Threads, InitQueue(t) \/ SendToSelf(t) \/ Answered(t)
      PROVE  exists' = exists /\ Steady(k', {})
  BY <1>1, <1>2 DEF InitQueue, SendToSelf, Answered
<1>3. ASSUME NEW t \in Threads, Receive(t) PROVE exists' = exists /\ Steady(k', {})
  BY <1>3, ReceiveSteady DEF Receive
<1>4. ASSUME NEW t \in Threads, NEW subs, SendBus(t, subs) PROVE exists' = exists /\ Steady(k', {})
  BY <1>4, BusSteady DEF SendBus, Publishes
<1>5. ASSUME NEW t \in Threads, Reschedule(t) PROVE exists' = exists /\ Steady(k', {})
  BY <1>1, <1>5, TailSteady DEF Reschedule
<1>6. ASSUME NEW t \in Threads, NEW m \in Owed(t), Reply(t, m) \/ IsrReply(t, m)
      PROVE  exists' = exists /\ Steady(k', {})
  BY <1>6, ReplySteady DEF Reply, IsrReply, Answers
<1>7. ASSUME NEW t \in Threads, NEW u \in Receivers, Send(t, u) \/ TrySend(t, u) \/ SendReceive(t, u)
      PROVE  exists' = exists /\ Steady(k', {})
  <2>1. u \in Threads
    BY MsgPartsOK
  <2> QED BY <1>7, <2>1, SendSteady DEF Send, TrySend, SendReceive
<1>8. ASSUME NEW us \in Seq(Threads), NoDuplicates(us), NEW subs, IsrSend(us, subs)
      PROVE  exists' = exists /\ Steady(k', {})
  BY <1>8, IsrSendSteady DEF IsrSend, Publishes
<1>9. ASSUME NEW u \in Receivers, IsrSend(<<u>>, {u}) PROVE exists' = exists /\ Steady(k', {})
  <2>1. u \in Threads
    BY MsgPartsOK
  <2>2. <<u>> \in Seq(Threads) /\ NoDuplicates(<<u>>)
    BY <2>1 DEF NoDuplicates
  <2> QED BY <1>8, <1>9, <2>2
<1>10. ASSUME NEW subs, IsrSend(Bus, subs) PROVE exists' = exists /\ Steady(k', {})
  <2>1. Bus \in Seq(Threads) /\ NoDuplicates(Bus)
    BY MsgPartsOK
  <2>2. exists' = exists /\ Steady(k', {})
    BY <1>8, <1>10, <2>1
  <2> QED BY <1>1, <2>2
<1>11. CASE UNCHANGED vars
  BY <1>1, <1>11 DEF vars
<1>12. \A t \in Threads : ~Exit(t)
  BY DEF Exit
<1>13. \A t \in Threads, u \in Receivers : ~SendReceiveFails(t, u)
  BY <1>1 DEF SendReceiveFails
<1> QED BY <1>1, <1>2, <1>3, <1>4, <1>5, <1>6, <1>7, <1>9, <1>10, <1>11, <1>12, <1>13 DEF Next

\* While no thread exits, a thread that is between two calls of the kernel is ready:
\* the failing msg_send_receive to a PID that has become free is the only call of
\* msg.c that leaves a thread running out of its run queue.
THEOREM CallersStayReady ==
  ASSUME Mortal = {}
  PROVE  Spec => []RunsWhileReady
<1>1. Init => exists = Threads /\ Steady(k, {})
  <2> SUFFICES ASSUME Init PROVE exists = Threads /\ Steady(k, {})
    OBVIOUS
  <2>1. exists = Threads /\ k = Booted(Prio)
    BY DEF Init
  <2>2. KernelOK(k)
    BY <2>1, BootedOK, MsgPartsOK
  <2> QED BY <2>1, <2>2, OrderIsSteady
<1>2. MsgInv /\ (exists = Threads /\ Steady(k, {})) /\ [Next]_vars
        => (exists = Threads /\ Steady(k, {}))'
  BY Mortal = {}, UndisturbedStep DEF Undisturbed
<1>3. exists = Threads /\ Steady(k, {}) => RunsWhileReady
  BY DEF RunsWhileReady, Steady
<1> QED BY <1>1, <1>2, <1>3, MsgInvariant, PTL DEF Spec

=============================================================================
