----------------------------- MODULE ReadyFifo -----------------------------
(***************************************************************************)
(* What the scheduler promises of its ready queue: a bounded FIFO of TIDs. *)
(* The answer of the last operation is part of the promise.                *)
(***************************************************************************)
EXTENDS Naturals, Sequences

CONSTANTS Capacity, Values

VARIABLES queue, answer

Refused    == [ok |-> FALSE, tid |-> 0]
Accepted   == [ok |-> TRUE, tid |-> 0]
Granted(v) == [ok |-> TRUE, tid |-> v]

Init == queue = <<>> /\ answer = Refused

Enqueue(v) ==
    \/ Len(queue) < Capacity /\ queue' = Append(queue, v) /\ answer' = Accepted
    \/ Len(queue) = Capacity /\ queue' = queue /\ answer' = Refused

Dequeue ==
    \/ queue # <<>> /\ queue' = Tail(queue) /\ answer' = Granted(Head(queue))
    \/ queue = <<>> /\ queue' = queue /\ answer' = Refused

Next == Dequeue \/ \E v \in Values : Enqueue(v)

Spec == Init /\ [][Next]_<<queue, answer>>
=============================================================================
