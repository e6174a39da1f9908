------------------------------- MODULE RiotCond -------------------------------
(***************************************************************************)
(* Condition variables of RIOT (core/cond.c) with the mutex of RiotMutex,  *)
(* used as core/include/cond.h says: consumers wait in a loop for a token, *)
(* producers add one and signal, all with the mutex held, and interrupts   *)
(* may signal at any time.                                                 *)
(*                                                                         *)
(* cond_wait calls mutex_unlock with interrupts masked.  Its               *)
(* thread_yield_higher is pended until they are unmasked on some platforms *)
(* (PendSV on cortexm_common, native) and switches at once on others       *)
(* (avr8_common, msp430, riscv_common, arm7_common).                       *)
(***************************************************************************)
EXTENDS RiotMutex

CONSTANTS Consumers, Producers,
          Mutex,      \* the mutex of the condition
          MaxTokens   \* bound: tokens there are at a time

ASSUME CondPartsOK ==
  /\ Consumers \subseteq Threads /\ Producers \subseteq Threads
  /\ Mutex \in Mutexes /\ MaxTokens \in Nat

VARIABLES immediate,  \* the platform: does thread_yield_higher ignore the mask?
          cq,         \* cond->queue
          tokens,     \* what the condition is about
          want,       \* consumers on their way to a token: inside the loop
          owes        \* producers that have added a token and not yet signalled

condVars == <<immediate, cq, tokens, want, owes>>
condAllVars == <<vars, condVars>>

CondInit ==
  /\ Init
  /\ immediate \in BOOLEAN
  /\ cq = << >> /\ tokens = 0 /\ want = {} /\ owes = {}

\* A thread that was switched away inside cond_wait runs with interrupts masked.
Masked == \E t \in Threads : Executes(k, t) /\ call[t] = Calling("unlocked", Mutex)

-----------------------------------------------------------------------------
\* while (condition_is_not_true) in the loop of a consumer.
MustWait(t) == Free(t) /\ t \in want /\ Mutex \in holds[t] /\ tokens = 0

\* What mutex_unlock does to the mutex in cond_wait.
GivesUp(t) ==
  /\ mu' = [mu EXCEPT ![Mutex] = Released(@)]
  /\ holder' = [holder EXCEPT ![Mutex] = NextHolder(mu[Mutex])]
  /\ holds' = [holds EXCEPT ![t] = @ \ {Mutex}]

\* The rest of cond_wait up to its own thread_yield_higher, on a kernel kk.
Joins(kk, t) ==
  /\ k' = Ends(SetStatus(kk, t, "cond"), t, YieldHigher)
  /\ cq' = AddToList(kk, cq, t)
  /\ call' = [call EXCEPT ![t] = Calling("cond", Mutex)]

\* cond_wait where no switch happens inside: the yield is pended, or none is asked.
CondWait(t) ==
  /\ MustWait(t)
  /\ ~immediate \/ mu[Mutex].queue = << >>
  /\ GivesUp(t)
  /\ Joins(UnlockOn(k, mu[Mutex]), t)
  /\ UNCHANGED <<cancelled, immediate, tokens, want, owes>>

\* Fault: interrupts are masked only after mutex_unlock.
UnlocksUnmasked(t) ==
  /\ MustWait(t)
  /\ mu[Mutex].queue # << >>
  /\ GivesUp(t)
  /\ k' = SchedRun(UnlockOn(k, mu[Mutex]))
  /\ call' = [call EXCEPT ![t] = Calling("unlocked", Mutex)]
  /\ UNCHANGED <<cancelled, condVars>>

\* Where it is not: mutex_unlock runs the scheduler before the thread is queued.
CondWaitUnlocks(t) ==
  /\ MustWait(t)
  /\ immediate /\ mu[Mutex].queue # << >>
  /\ GivesUp(t)
  /\ k' = SchedRun(UnlockOn(k, mu[Mutex]))
  /\ call' = [call EXCEPT ![t] = Calling("unlocked", Mutex)]
  /\ UNCHANGED <<cancelled, condVars>>

CondWaitJoins(t) ==
  /\ Calls(k, t) /\ call[t] = Calling("unlocked", Mutex)
  /\ Joins(k, t)
  /\ UNCHANGED <<mu, cancelled, holds, holder, immediate, tokens, want, owes>>

\* Signalled: the mutex_lock at the end of cond_wait.
CondWaitRelocks(t) ==
  /\ Calls(k, t) /\ call[t] = Calling("cond", Mutex)
  /\ \/ Takes(t, Mutex) /\ call' = [call EXCEPT ![t] = NoCall]
     \/ BlocksOn(t, Mutex) /\ call' = [call EXCEPT ![t] = Calling("lock", Mutex)]
  /\ UNCHANGED <<cancelled, condVars>>

-----------------------------------------------------------------------------
\* _cond_signal: the waiters taken from the queue and the most urgent of them.
Chosen(all) == IF all THEN cq ELSE SubSeq(cq, 1, 1)

\* Fault: cond_signal drops the waiters it does not wake.
DropsRest(all) == << >>

Remaining(all) == IF all THEN << >> ELSE Tail(cq)
Woken(all) ==
  LET w[i \in 0..Len(Chosen(all))] ==
        IF i = 0 THEN k ELSE SetStatus(w[i - 1], Chosen(all)[i], "pending")
  IN w[Len(Chosen(all))]

\* Fault: the priority of the threads that are woken is not looked up.
MinPrioUnset(all) == Max(Prios) + 1

MinPrio(all) == Min({k.prio[u] : u \in ToSet(Chosen(all))})

Signal(t, all) ==
  /\ Free(t) /\ t \in owes
  /\ owes' = owes \ {t}
  /\ IF cq = << >> THEN UNCHANGED <<k, cq>>
     ELSE /\ k' = Ends(Woken(all), t, Switch(MinPrio(all)))
          /\ cq' = Remaining(all)
  /\ UNCHANGED <<mutexVars, immediate, tokens, want>>

IsrSignal(all) ==
  /\ ~Masked
  /\ cq # << >>
  /\ k' = IsrEnd(IsrSwitch(Woken(all), MinPrio(all)))
  /\ cq' = Remaining(all)
  /\ UNCHANGED <<mutexVars, immediate, tokens, want, owes>>

-----------------------------------------------------------------------------
(* The code of consumers and producers around these calls.                 *)

Enter(t) ==
  /\ t \notin want \cup owes
  /\ Lock(t, Mutex)
  /\ want' = IF t \in Consumers THEN want \cup {t} ELSE want
  /\ UNCHANGED <<immediate, cq, tokens, owes>>

Consume(t) ==
  /\ Free(t) /\ t \in want /\ Mutex \in holds[t]
  /\ tokens > 0
  /\ tokens' = tokens - 1
  /\ want' = want \ {t}
  /\ UNCHANGED <<vars, immediate, cq, owes>>

Produce(t) ==
  /\ Free(t) /\ t \in Producers \ owes /\ Mutex \in holds[t]
  /\ tokens < MaxTokens
  /\ tokens' = tokens + 1
  /\ owes' = owes \cup {t}
  /\ UNCHANGED <<vars, immediate, cq, want>>

\* Some threads rest until an interrupt has work for them.
Leave(t) ==
  /\ t \notin want
  /\ Unlock(t, Mutex) \/ (t \notin owes /\ UnlockAndSleep(t, Mutex))
  /\ UNCHANGED condVars

CondNext ==
  \/ \E t \in Threads :
       \/ Enter(t) \/ Consume(t) \/ Produce(t) \/ Leave(t)
       \/ CondWait(t) \/ CondWaitUnlocks(t) \/ CondWaitJoins(t) \/ CondWaitRelocks(t)
       \/ (Resume(t) \/ Yields(t) \/ Reschedule(t)) /\ UNCHANGED condVars
       \/ \E all \in BOOLEAN : Signal(t, all)
  \/ ~Masked /\ UNCHANGED condVars /\ \E t \in Threads : IsrWakeup(t)
  \/ \E all \in BOOLEAN : IsrSignal(all)

CondSpec == CondInit /\ [][CondNext]_condAllVars

-----------------------------------------------------------------------------
(* Properties.                                                             *)

CondTypeOK ==
  /\ k \in Kernels
  /\ mu \in [Mutexes -> [locked : BOOLEAN, queue : Seq(Threads),
                         owner : Threads \cup {NoThread}, orig : Prios]]
  /\ call \in [Threads -> {NoCall} \cup {Calling(op, m) : op \in {"lock", "cond", "unlocked"},
                                                          m \in Mutexes}]
  /\ holds \in [Threads -> SUBSET Mutexes]
  /\ holder \in [Mutexes -> Threads \cup {NoThread}]
  /\ immediate \in BOOLEAN /\ cq \in Seq(Consumers) /\ tokens \in 0..MaxTokens
  /\ want \subseteq Consumers /\ owes \subseteq Producers

\* A thread is STATUS_COND_BLOCKED exactly while the queue of the condition holds
\* it, once, and then it has not kept the mutex.
CondWaitersListed ==
  /\ NoDuplicates(cq)
  /\ \A t \in Threads :
       /\ k.status[t] = "cond" <=> Contains(cq, t)
       /\ Contains(cq, t) => call[t] = Calling("cond", Mutex) /\ Mutex \notin holds[t]

\* While consumers sleep, every token has a consumer that is awake and will look
\* for it, or a producer that has still to signal.
Covered == cq # << >> => tokens <= Cardinality(owes) + Cardinality(want \ ToSet(cq))

\* "When a thread is put to sleep with cond_wait, it atomically unlocks the
\* provided mutex and then goes to sleep": no signal falls between the two.  Where
\* the switch is pended:
NoLostSignal == ~immediate => Covered

\* and on every platform:
NoLostSignalAnywhere == Covered

=============================================================================
