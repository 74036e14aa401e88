----------------------------- MODULE ReadyRing -----------------------------
(***************************************************************************)
(* The ready queue of src/sched.rs as the code keeps it: an array of       *)
(* MAX_TASKS TIDs, the index of the oldest, and a count.  Sched.tla uses a *)
(* sequence; Fifo below says that this ring is one.                        *)
(***************************************************************************)
EXTENDS Integers, Sequences

CONSTANT MAX_TASKS

ASSUME RingAssumption == MAX_TASKS \in Nat \ {0}

VARIABLES
    ready_queue,    \* Scheduler::ready_queue
    head,           \* Scheduler::head
    count,          \* Scheduler::count
    answer          \* what the last call returned: done or refused, and a TID

vars == <<ready_queue, head, count, answer>>

Tids == 1 .. MAX_TASKS - 1

new ==
    /\ ready_queue = [i \in 0 .. MAX_TASKS - 1 |-> 0]
    /\ head = 0
    /\ count = 0
    /\ answer = [ok |-> FALSE, tid |-> 0]

enqueue_when_full(tid) ==                                                       \* mutant
    \/ count > MAX_TASKS /\ answer' = [ok |-> FALSE, tid |-> 0] /\ UNCHANGED <<ready_queue, head, count>>
    \/ /\ count <= MAX_TASKS
       /\ ready_queue' = [ready_queue EXCEPT ![(head + count) % MAX_TASKS] = tid]
       /\ count' = count + 1
       /\ answer' = [ok |-> TRUE, tid |-> 0]
       /\ UNCHANGED head

enqueue_past_tail(tid) ==                                                       \* mutant
    \/ count >= MAX_TASKS /\ answer' = [ok |-> FALSE, tid |-> 0] /\ UNCHANGED <<ready_queue, head, count>>
    \/ /\ count < MAX_TASKS
       /\ ready_queue' = [ready_queue EXCEPT ![(head + count + 1) % MAX_TASKS] = tid]
       /\ count' = count + 1
       /\ answer' = [ok |-> TRUE, tid |-> 0]
       /\ UNCHANGED head

enqueue(tid) ==
    \/ /\ count >= MAX_TASKS
       /\ answer' = [ok |-> FALSE, tid |-> 0]
       /\ UNCHANGED <<ready_queue, head, count>>
    \/ /\ count < MAX_TASKS
       /\ ready_queue' = [ready_queue EXCEPT ![(head + count) % MAX_TASKS] = tid]
       /\ count' = count + 1
       /\ answer' = [ok |-> TRUE, tid |-> 0]
       /\ UNCHANGED head

dequeue ==
    \/ /\ count = 0
       /\ answer' = [ok |-> FALSE, tid |-> 0]
       /\ UNCHANGED <<ready_queue, head, count>>
    \/ /\ count > 0
       /\ answer' = [ok |-> TRUE, tid |-> ready_queue[head]]
       /\ head' = (head + 1) % MAX_TASKS
       /\ count' = count - 1
       /\ UNCHANGED ready_queue

Next == dequeue \/ \E tid \in Tids : enqueue(tid)

Spec == new /\ [][Next]_vars

(***************************************************************************)
(* Properties.                                                             *)
(***************************************************************************)
TypeOK ==
    /\ ready_queue \in [0 .. MAX_TASKS - 1 -> 0 .. MAX_TASKS - 1]
    /\ head \in 0 .. MAX_TASKS - 1
    /\ count \in 0 .. MAX_TASKS
    /\ answer \in [ok : BOOLEAN, tid : 0 .. MAX_TASKS - 1]

\* The entries from head on, in order, wrapping at the end of the array.
Contents == [i \in 1 .. count |-> ready_queue[(head + i - 1) % MAX_TASKS]]

\* enqueue and dequeue implement a bounded FIFO: entries leave in the order they
\* came, none is lost or duplicated at the wrap, and only a full ring refuses.
Fifo == INSTANCE ReadyFifo WITH
    Capacity <- MAX_TASKS, Values <- Tids, queue <- Contents
FifoSpec == Fifo!Spec
=============================================================================
