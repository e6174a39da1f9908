----------------------------- MODULE UrgentQueue -----------------------------
(***************************************************************************)
(* What prt_queue.c promises of the messages in a queue: at most Capacity  *)
(* of them, read from the front; a normal message joins at the back, an    *)
(* urgent one at the front.                                                *)
(***************************************************************************)
EXTENDS Naturals, Sequences

CONSTANTS Msgs, Capacity

VARIABLE content

Init == content = << >>

Put(m) == Len(content) < Capacity /\ content' = Append(content, m)

PutUrgent(m) == Len(content) < Capacity /\ content' = <<m>> \o content

Take == content # << >> /\ content' = Tail(content)

Next == Take \/ \E m \in Msgs : Put(m) \/ PutUrgent(m)

Spec == Init /\ [][Next]_content
=============================================================================
