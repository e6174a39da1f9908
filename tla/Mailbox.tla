------------------------------- MODULE Mailbox -------------------------------
(***************************************************************************)
(* What core/mbox.c promises: a bounded first-in first-out channel.  A     *)
(* message that has been accepted is received once, after those accepted   *)
(* before it, and at most Size of them wait in the mailbox.                *)
(***************************************************************************)
EXTENDS Naturals, Sequences

CONSTANTS Msgs, Size

VARIABLES accepted,   \* the messages put, in the order the mailbox took them
          received    \* the messages got, in the order they were handed out

chan == <<accepted, received>>

Backlog == Len(accepted) - Len(received)

Init == accepted = << >> /\ received = << >>

New(m) == m \in Msgs /\ \A i \in 1..Len(accepted) : accepted[i] # m

\* The message goes into the queue.
Accept(m) ==
  /\ New(m)
  /\ Backlog < Size
  /\ accepted' = Append(accepted, m)
  /\ UNCHANGED received

\* The oldest queued message is received.
Receive ==
  /\ Backlog > 0
  /\ received' = Append(received, accepted[Len(received) + 1])
  /\ UNCHANGED accepted

\* With nothing queued, a message may go straight to a receiver.
HandOver(m) ==
  /\ New(m)
  /\ Backlog = 0
  /\ accepted' = Append(accepted, m)
  /\ received' = Append(received, m)

Next == Receive \/ \E m \in Msgs : Accept(m) \/ HandOver(m)

Spec == Init /\ [][Next]_chan /\ WF_chan(Receive)

=============================================================================
