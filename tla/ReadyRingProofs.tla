-------------------------- MODULE ReadyRingProofs --------------------------
(***************************************************************************)
(* The ready ring of src/sched.rs keeps its types and implements a bounded *)
(* FIFO, for every MAX_TASKS.                                              *)
(***************************************************************************)
EXTENDS ReadyRing, SequenceTheorems, TLAPS

Index == 0 .. MAX_TASKS - 1

\* A sum that has passed the end of the array at most once, back in the array.
Wrapped(a) == IF a < MAX_TASKS THEN a ELSE a - MAX_TASKS

\* The only sums that the ring reduces are below twice its length: they wrap
\* once or not at all.
LEMMA WrapOnce ==
  \A a \in Nat : a < MAX_TASKS + MAX_TASKS
    => a % MAX_TASKS = Wrapped(a)
<1> SUFFICES ASSUME NEW n \in Nat \ {0}
             PROVE  \A a \in Nat : a < n + n => a % n = IF a < n THEN a ELSE a - n
  BY RingAssumption DEF Wrapped
<1> SUFFICES ASSUME NEW a \in Nat, a < n + n
             PROVE  a % n = IF a < n THEN a ELSE a - n
  OBVIOUS
<1>1. CASE a < n
  BY <1>1
<1>2. CASE a >= n
  <2> DEFINE q == a \div n
             r == a % n
  <2>1. q \in Int /\ r \in 0 .. n - 1 /\ a = n * q + r
    OBVIOUS
  <2>2. q = 1
    <3>1. q > 0
      <4> SUFFICES ASSUME q <= 0 PROVE FALSE
        BY <2>1
      <4>1. n * q <= 0
        BY <2>1
      <4> QED
        BY <1>2, <2>1, <4>1
    <3>2. q < 2
      <4> SUFFICES ASSUME q >= 2 PROVE FALSE
        BY <2>1
      <4>1. n * q >= n + n
        BY <2>1
      <4> QED
        BY <2>1, <4>1
    <3> QED
      BY <2>1, <3>1, <3>2
  <2> QED
    BY <1>2, <2>1, <2>2
<1> QED
  BY <1>1, <1>2

\* So one position is one entry: within a window of the ring's length, two
\* entries share no cell.
LEMMA Positions ==
  ASSUME NEW h \in Index, NEW i \in Index, NEW j \in Index
  PROVE  /\ (h + i) % MAX_TASKS \in Index
         /\ (h + i) % MAX_TASKS = (h + j) % MAX_TASKS => i = j
<1>1. MAX_TASKS \in Nat \ {0}
  BY RingAssumption
<1>2. /\ h + i \in Nat /\ h + i < MAX_TASKS + MAX_TASKS
      /\ h + j \in Nat /\ h + j < MAX_TASKS + MAX_TASKS
  BY <1>1 DEF Index
<1>3. (h + i) % MAX_TASKS = Wrapped(h + i)
  BY <1>2, WrapOnce, Zenon
<1>4. (h + j) % MAX_TASKS = Wrapped(h + j)
  BY <1>2, WrapOnce, Zenon
<1> QED
  BY <1>1, <1>3, <1>4 DEF Index, Wrapped

\* The cell after a cell: what dequeue makes of head.
LEMMA Successor ==
  ASSUME NEW h \in Index, NEW i \in Nat, i + 1 < MAX_TASKS
  PROVE  /\ (h + 1) % MAX_TASKS \in Index
         /\ (((h + 1) % MAX_TASKS) + i) % MAX_TASKS = (h + i + 1) % MAX_TASKS
<1>1. MAX_TASKS \in Nat \ {0}
  BY RingAssumption
<1>2. (h + 1) % MAX_TASKS = Wrapped(h + 1)
  <2>1. h + 1 \in Nat /\ h + 1 < MAX_TASKS + MAX_TASKS
    BY <1>1 DEF Index
  <2> QED
    BY <2>1, WrapOnce, Zenon
<1>3. (h + i + 1) % MAX_TASKS
        = Wrapped(h + i + 1)
  <2>1. h + i + 1 \in Nat /\ h + i + 1 < MAX_TASKS + MAX_TASKS
    BY <1>1 DEF Index
  <2> QED
    BY <2>1, WrapOnce, Zenon
<1>4. CASE h + 1 < MAX_TASKS
  BY <1>1, <1>2, <1>4 DEF Index, Wrapped
<1>5. CASE h + 1 >= MAX_TASKS
  <2>1. (h + 1) % MAX_TASKS = 0 /\ h + 1 = MAX_TASKS
    BY <1>1, <1>2, <1>5 DEF Index, Wrapped
  <2>2. i % MAX_TASKS = i
    BY <1>1, WrapOnce DEF Index, Wrapped
  <2> QED
    BY <1>1, <1>3, <2>1, <2>2 DEF Index, Wrapped
<1> QED
  BY <1>1, <1>4, <1>5 DEF Index

----------------------------------------------------------------------------
\* The empty ring is well typed.
LEMMA InitType == new => TypeOK
BY RingAssumption DEF new, TypeOK

\* enqueue, refused or not, keeps the types.
LEMMA EnqueueType ==
  ASSUME TypeOK, NEW tid \in Tids, enqueue(tid)
  PROVE  TypeOK'
<1>0. /\ MAX_TASKS \in Nat \ {0} /\ head \in 0 .. MAX_TASKS - 1 /\ count \in 0 .. MAX_TASKS
      /\ ready_queue \in [0 .. MAX_TASKS - 1 -> 0 .. MAX_TASKS - 1]
      /\ answer \in [ok : BOOLEAN, tid : 0 .. MAX_TASKS - 1]
  BY RingAssumption DEF TypeOK
<1>1. CASE count >= MAX_TASKS
  <2>1. /\ ready_queue' = ready_queue /\ head' = head /\ count' = count
        /\ answer' = [ok |-> FALSE, tid |-> 0]
    BY <1>0, <1>1 DEF enqueue
  <2> QED
    BY <1>0, <2>1 DEF TypeOK
<1>2. CASE count < MAX_TASKS
  <2>1. /\ ready_queue' = [ready_queue EXCEPT ![(head + count) % MAX_TASKS] = tid]
        /\ head' = head /\ count' = count + 1
        /\ answer' = [ok |-> TRUE, tid |-> 0]
    BY <1>0, <1>2 DEF enqueue
  <2>2. ready_queue' \in [0 .. MAX_TASKS - 1 -> 0 .. MAX_TASKS - 1]
    <3>1. tid \in 0 .. MAX_TASKS - 1
      BY <1>0 DEF Tids
    <3> QED
      BY <1>0, <2>1, <3>1
  <2>3. head' \in 0 .. MAX_TASKS - 1 /\ count' \in 0 .. MAX_TASKS
    BY <1>0, <1>2, <2>1
  <2>4. answer' \in [ok : BOOLEAN, tid : 0 .. MAX_TASKS - 1]
    BY <1>0, <2>1
  <2> QED
    BY <2>2, <2>3, <2>4 DEF TypeOK
<1> QED
  BY <1>0, <1>1, <1>2

\* So does dequeue, with an entry or without.
LEMMA DequeueType ==
  ASSUME TypeOK, dequeue
  PROVE  TypeOK'
<1>0. /\ MAX_TASKS \in Nat \ {0} /\ head \in 0 .. MAX_TASKS - 1 /\ count \in 0 .. MAX_TASKS
      /\ ready_queue \in [0 .. MAX_TASKS - 1 -> 0 .. MAX_TASKS - 1]
      /\ answer \in [ok : BOOLEAN, tid : 0 .. MAX_TASKS - 1]
  BY RingAssumption DEF TypeOK
<1>1. CASE count = 0
  <2>1. /\ ready_queue' = ready_queue /\ head' = head /\ count' = count
        /\ answer' = [ok |-> FALSE, tid |-> 0]
    BY <1>0, <1>1 DEF dequeue
  <2> QED
    BY <1>0, <2>1 DEF TypeOK
<1>2. CASE count > 0
  <2>1. /\ answer' = [ok |-> TRUE, tid |-> ready_queue[head]]
        /\ head' = (head + 1) % MAX_TASKS
        /\ count' = count - 1 /\ ready_queue' = ready_queue
    BY <1>0, <1>2 DEF dequeue
  <2>2. (head + 1) % MAX_TASKS \in 0 .. MAX_TASKS - 1
    BY <1>0
  <2>3. count' \in 0 .. MAX_TASKS
    BY <1>0, <1>2, <2>1
  <2>4. answer' \in [ok : BOOLEAN, tid : 0 .. MAX_TASKS - 1]
    <3>1. ready_queue[head] \in 0 .. MAX_TASKS - 1
      BY <1>0
    <3> QED
      BY <2>1, <3>1
  <2> QED
    BY <1>0, <2>1, <2>2, <2>3, <2>4 DEF TypeOK
<1> QED
  BY <1>0, <1>1, <1>2

\* The ring's indices never leave the array and the count never passes its
\* length, whoever calls enqueue and dequeue. (Scheduler::enqueue, dequeue)
THEOREM RingTypes == Spec => []TypeOK
<1>1. TypeOK /\ [Next]_vars => TypeOK'
  <2> SUFFICES ASSUME TypeOK, [Next]_vars PROVE TypeOK'
    OBVIOUS
  <2>1. CASE dequeue
    BY <2>1, DequeueType
  <2>2. ASSUME NEW tid \in Tids, enqueue(tid) PROVE TypeOK'
    BY <2>2, EnqueueType
  <2>3. CASE UNCHANGED vars
    BY <2>3 DEF TypeOK, vars
  <2> QED
    BY <2>1, <2>2, <2>3 DEF Next
<1> QED
  BY InitType, <1>1, PTL DEF Spec

----------------------------------------------------------------------------
\* A function on 1 .. n is a sequence of n entries.
LEMMA FunctionIsSeq ==
  ASSUME NEW S, NEW n \in Nat, NEW f \in [1 .. n -> S]
  PROVE  f \in Seq(S) /\ Len(f) = n
OBVIOUS

\* The contents are a sequence of count entries.
LEMMA ContentsType ==
  ASSUME TypeOK
  PROVE  /\ Contents \in Seq(Index) /\ Len(Contents) = count
         /\ \A i \in 1 .. count : Contents[i] = ready_queue[(head + i - 1) % MAX_TASKS]
<1>1. ASSUME NEW i \in 1 .. count PROVE ready_queue[(head + i - 1) % MAX_TASKS] \in Index
  <2>1. i - 1 \in Index /\ head \in Index
    BY RingAssumption DEF TypeOK, Index
  <2>2. (head + (i - 1)) % MAX_TASKS \in Index
    BY <2>1, Positions
  <2>3. head + (i - 1) = head + i - 1
    BY <2>1 DEF Index
  <2> QED
    BY <2>2, <2>3 DEF TypeOK, Index
<1>2. Contents \in [1 .. count -> Index]
  BY <1>1 DEF Contents
<1>3. count \in Nat
  BY RingAssumption DEF TypeOK
<1> QED
  BY <1>2, <1>3 DEF Contents

\* A stored entry goes behind the others and disturbs none of them.
LEMMA EnqueueStep ==
  ASSUME TypeOK, NEW tid \in Tids, enqueue(tid)
  PROVE  Fifo!Enqueue(tid)
<1>0. MAX_TASKS \in Nat \ {0}
  BY RingAssumption
<1>1. /\ Contents \in Seq(Index) /\ Len(Contents) = count
      /\ \A i \in 1 .. count : Contents[i] = ready_queue[(head + i - 1) % MAX_TASKS]
  BY ContentsType
<1>2. CASE count >= MAX_TASKS
  <2>1. count = MAX_TASKS /\ UNCHANGED <<ready_queue, head, count>>
        /\ answer' = [ok |-> FALSE, tid |-> 0]
    BY <1>0, <1>2 DEF enqueue, TypeOK
  <2>2. Contents' = Contents
    BY <2>1 DEF Contents
  <2> QED
    BY <1>1, <2>1, <2>2 DEF Fifo!Enqueue, Fifo!Refused
<1>3. CASE count < MAX_TASKS
  <2>1. /\ ready_queue' = [ready_queue EXCEPT ![(head + count) % MAX_TASKS] = tid]
        /\ count' = count + 1 /\ head' = head
        /\ answer' = [ok |-> TRUE, tid |-> 0]
        /\ count \in Index /\ head \in Index
        /\ ready_queue \in [Index -> Index]
    <3>1. /\ ready_queue' = [ready_queue EXCEPT ![(head + count) % MAX_TASKS] = tid]
          /\ count' = count + 1 /\ head' = head
          /\ answer' = [ok |-> TRUE, tid |-> 0]
      BY <1>0, <1>3 DEF enqueue, TypeOK
    <3>2. count \in Index
      BY <1>0, <1>3 DEF TypeOK, Index
    <3>3. head \in Index /\ ready_queue \in [Index -> Index]
      BY DEF TypeOK, Index
    <3> QED
      BY <3>1, <3>2, <3>3
  <2>2. ASSUME NEW i \in 1 .. count + 1
        PROVE  ready_queue'[(head + i - 1) % MAX_TASKS]
                 = IF i = count + 1 THEN tid ELSE ready_queue[(head + i - 1) % MAX_TASKS]
    <3>1. i - 1 \in Index /\ head + (i - 1) = head + i - 1
      BY <1>0, <2>1 DEF Index
    <3>2. /\ (head + i - 1) % MAX_TASKS \in Index
          /\ (head + i - 1) % MAX_TASKS = (head + count) % MAX_TASKS => i - 1 = count
      BY <2>1, <3>1, Positions
    <3>3. i = count + 1 => head + i - 1 = head + count
      BY <2>1 DEF Index
    <3>4. CASE i = count + 1
      BY <2>1, <3>2, <3>3, <3>4
    <3>5. CASE i # count + 1
      <4>1. (head + i - 1) % MAX_TASKS # (head + count) % MAX_TASKS
        BY <2>1, <3>2, <3>5 DEF Index
      <4> QED
        BY <2>1, <3>2, <3>5, <4>1
    <3> QED
      BY <3>4, <3>5
  <2>3. Contents' = [i \in 1 .. count + 1 |->
                       IF i = count + 1 THEN tid ELSE ready_queue[(head + i - 1) % MAX_TASKS]]
    BY <2>1, <2>2 DEF Contents
  <2>4. Contents' = Append(Contents, tid)
    <3>1. tid \in Index
      BY DEF Tids, Index
    <3>2. /\ Append(Contents, tid) \in Seq(Index) /\ Len(Append(Contents, tid)) = count + 1
          /\ \A i \in 1 .. count : Append(Contents, tid)[i] = Contents[i]
          /\ Append(Contents, tid)[count + 1] = tid
      BY <1>1, <3>1, AppendProperties
    <3>3. /\ Contents' \in Seq(Index) /\ Len(Contents') = count + 1
      <4>1. count + 1 \in Nat
        BY <2>1 DEF Index
      <4>2. ASSUME NEW i \in 1 .. count + 1
            PROVE  (IF i = count + 1 THEN tid ELSE ready_queue[(head + i - 1) % MAX_TASKS]) \in Index
        <5>1. CASE i = count + 1
          BY <3>1, <5>1
        <5>2. CASE i # count + 1
          <6>1. i \in 1 .. count
            BY <2>1, <5>2 DEF Index
          <6>2. Contents[i] \in Index
            BY <1>1, <6>1, ElementOfSeq
          <6> QED
            BY <1>1, <5>2, <6>1, <6>2
        <5> QED
          BY <5>1, <5>2
      <4>3. Contents' \in [1 .. count + 1 -> Index]
        BY <2>3, <4>2
      <4> QED
        BY <4>1, <4>3, FunctionIsSeq
    <3>4. ASSUME NEW i \in 1 .. count + 1
          PROVE  Contents'[i] = Append(Contents, tid)[i]
      <4>1. Contents'[i]
              = IF i = count + 1 THEN tid ELSE ready_queue[(head + i - 1) % MAX_TASKS]
        BY <2>3
      <4>2. CASE i = count + 1
        BY <3>2, <4>1, <4>2
      <4>3. CASE i # count + 1
        <5>1. i \in 1 .. count
          BY <2>1, <4>3 DEF Index
        <5> QED
          BY <1>1, <3>2, <4>1, <4>3, <5>1
      <4> QED
        BY <4>2, <4>3
    <3> QED
      BY <3>2, <3>3, <3>4, SeqEqual
  <2> QED
    BY <1>1, <1>3, <2>1, <2>4 DEF Fifo!Enqueue, Fifo!Accepted
<1> QED
  BY <1>0, <1>2, <1>3 DEF TypeOK

\* The oldest entry is granted and the others move up.
LEMMA DequeueStep ==
  ASSUME TypeOK, dequeue
  PROVE  Fifo!Dequeue
<1>0. MAX_TASKS \in Nat \ {0}
  BY RingAssumption
<1>1. /\ Contents \in Seq(Index) /\ Len(Contents) = count
      /\ \A i \in 1 .. count : Contents[i] = ready_queue[(head + i - 1) % MAX_TASKS]
  BY ContentsType
<1>2. CASE count = 0
  <2>1. UNCHANGED <<ready_queue, head, count>> /\ answer' = [ok |-> FALSE, tid |-> 0]
    BY <1>0, <1>2 DEF dequeue, TypeOK
  <2>2. Contents' = Contents /\ Contents = <<>>
    BY <1>1, <1>2, <2>1 DEF Contents
  <2> QED
    BY <2>1, <2>2 DEF Fifo!Dequeue, Fifo!Refused
<1>3. CASE count > 0
  <2>1. /\ answer' = [ok |-> TRUE, tid |-> ready_queue[head]]
        /\ head' = (head + 1) % MAX_TASKS
        /\ count' = count - 1 /\ ready_queue' = ready_queue
        /\ head \in Index /\ count \in 1 .. MAX_TASKS
    BY <1>0, <1>3 DEF dequeue, TypeOK, Index
  <2>2. Contents # <<>> /\ Head(Contents) = ready_queue[head]
    <3>1. head + 1 - 1 = head /\ head % MAX_TASKS = head
      BY <1>0, <2>1, WrapOnce DEF Index, Wrapped
    <3> QED
      BY <1>0, <1>1, <2>1, <3>1
  <2>3. ASSUME NEW i \in 1 .. count - 1
        PROVE  (head' + i - 1) % MAX_TASKS = (head + (i + 1) - 1) % MAX_TASKS
    <3>1. i - 1 \in Nat /\ (i - 1) + 1 < MAX_TASKS
      BY <1>0, <2>1
    <3>2. /\ (head + 1) % MAX_TASKS \in Index
          /\ (((head + 1) % MAX_TASKS) + (i - 1)) % MAX_TASKS = (head + (i - 1) + 1) % MAX_TASKS
      BY <2>1, <3>1, Successor
    <3>3. head' + (i - 1) = head' + i - 1 /\ head + (i - 1) + 1 = head + (i + 1) - 1
      BY <2>1, <3>2 DEF Index
    <3> QED
      BY <2>1, <3>2, <3>3
  <2>4. Contents' = [i \in 1 .. count - 1 |-> ready_queue[(head + (i + 1) - 1) % MAX_TASKS]]
    BY <2>1, <2>3 DEF Contents
  <2>5. Contents' = Tail(Contents)
    <3>1. /\ Tail(Contents) \in Seq(Index) /\ Len(Tail(Contents)) = count - 1
          /\ \A i \in 1 .. count - 1 : Tail(Contents)[i] = Contents[i + 1]
      BY <1>1, <2>2, HeadTailProperties
    <3>2. Contents' \in Seq(Index) /\ Len(Contents') = count - 1
      <4>1. count - 1 \in Nat
        BY <2>1
      <4>2. ASSUME NEW i \in 1 .. count - 1
            PROVE  ready_queue[(head + (i + 1) - 1) % MAX_TASKS] \in Index
        <5>1. i + 1 \in 1 .. count
          BY <2>1
        <5>2. Contents[i + 1] \in Index
          BY <1>1, <5>1, ElementOfSeq
        <5> QED
          BY <1>1, <5>1, <5>2
      <4>3. Contents' \in [1 .. count - 1 -> Index]
        BY <2>4, <4>2
      <4> QED
        BY <4>1, <4>3, FunctionIsSeq
    <3>3. ASSUME NEW i \in 1 .. count - 1
          PROVE  Contents'[i] = Tail(Contents)[i]
      <4>1. i + 1 \in 1 .. count
        BY <2>1
      <4>2. Contents'[i] = ready_queue[(head + (i + 1) - 1) % MAX_TASKS]
        BY <2>4
      <4> QED
        BY <1>1, <3>1, <4>1, <4>2
    <3> QED
      BY <3>1, <3>2, <3>3, SeqEqual
  <2> QED
    BY <2>1, <2>2, <2>5 DEF Fifo!Dequeue, Fifo!Granted
<1> QED
  BY <1>0, <1>2, <1>3 DEF TypeOK

\* The array, the head and the count are a bounded FIFO of TIDs, for every
\* MAX_TASKS and through every wrap: none is lost, doubled or overtaken, and
\* only a full ring refuses. (Scheduler::enqueue, dequeue)
THEOREM RingImplementsFifo == Spec => FifoSpec
<1>1. new => Fifo!Init
  <2> SUFFICES ASSUME new PROVE Fifo!Init
    OBVIOUS
  <2>1. TypeOK /\ count = 0
    BY InitType DEF new
  <2>2. Contents = <<>>
    BY <2>1, ContentsType
  <2> QED
    BY <2>2 DEF new, Fifo!Init, Fifo!Refused
<1>2. TypeOK /\ [Next]_vars => [Fifo!Next]_<<Contents, answer>>
  <2> SUFFICES ASSUME TypeOK, [Next]_vars PROVE [Fifo!Next]_<<Contents, answer>>
    OBVIOUS
  <2>1. CASE dequeue
    BY <2>1, DequeueStep DEF Fifo!Next
  <2>2. ASSUME NEW tid \in Tids, enqueue(tid) PROVE Fifo!Next
    BY <2>2, EnqueueStep DEF Fifo!Next
  <2>3. CASE UNCHANGED vars
    BY <2>3 DEF vars, Contents
  <2> QED
    BY <2>1, <2>2, <2>3 DEF Next
<1> QED
  BY <1>1, <1>2, RingTypes, PTL DEF Spec, FifoSpec, Fifo!Spec
=============================================================================
