------------------------- MODULE KernelQueueProofs -------------------------
(***************************************************************************)
(* The ready queue of Kernel: every Ready task is in it, at most one entry *)
(* is stale, and the ring never refuses one, for every MAX_TASKS and every *)
(* set of calls.                                                           *)
(***************************************************************************)
EXTENDS KernelProofs, SequenceTheorems

ReadyTasks(st) == {t \in Tids : st[t] = "Ready"}

\* Every Ready task of a table st has an entry in a queue q.
Covers(q, st) == \A t \in Tids : st[t] = "Ready" => \E i \in DOMAIN q : q[i] = t

\* The entries of q, but for the k-th, name Ready tasks, each once.  The k-th is
\* the stale one; there is none when k is 0.
SoundBut(q, st, k) ==
    /\ \A i \in DOMAIN q \ {k} : st[q[i]] = "Ready"
    /\ \A i, j \in DOMAIN q \ {k} : q[i] = q[j] => i = j
Sound(q, st)    == Covers(q, st) /\ SoundBut(q, st, 0)
OneStale(q, st) == Covers(q, st) /\ \E k \in 0 .. Len(q) : SoundBut(q, st, k)

(***************************************************************************)
(* Sequences, by their entries.                                            *)
(***************************************************************************)
LEMMA QueueFacts ==
    ASSUME NEW q \in Queues
    PROVE  /\ Len(q) \in Nat /\ DOMAIN q = 1 .. Len(q) /\ Len(q) <= MAX_TASKS
           /\ \A i \in DOMAIN q : q[i] \in Tids
           /\ q \in Seq(Tids)
BY DEF Queues

\* What is left of a queue without its head.
LEMMA TailFacts ==
    ASSUME NEW q \in Seq(Tids), q # <<>>
    PROVE  /\ Tail(q) \in Seq(Tids) /\ Len(q) \in Nat /\ Len(q) >= 1
           /\ DOMAIN q = 1 .. Len(q) /\ DOMAIN Tail(q) = 1 .. Len(q) - 1
           /\ Len(Tail(q)) = Len(q) - 1
           /\ \A i \in 1 .. Len(q) - 1 : Tail(q)[i] = q[i + 1]
           /\ Head(q) = q[1] /\ Head(q) \in Tids
OBVIOUS

LEMMA ConcatFacts ==
    ASSUME NEW q \in Seq(Tids), NEW w \in Seq(Tids)
    PROVE  /\ q \o w \in Seq(Tids) /\ Len(q \o w) = Len(q) + Len(w)
           /\ DOMAIN q = 1 .. Len(q) /\ DOMAIN w = 1 .. Len(w)
           /\ DOMAIN (q \o w) = 1 .. Len(q) + Len(w)
           /\ Len(q) \in Nat /\ Len(w) \in Nat
           /\ \A i \in 1 .. Len(q) : (q \o w)[i] = q[i]
           /\ \A i \in 1 .. Len(w) : (q \o w)[Len(q) + i] = w[i]
OBVIOUS

\* There is one TID less than the ring has entries.
LEMMA TidsFinite == IsFiniteSet(Tids) /\ Cardinality(Tids) = MAX_TASKS - 1
BY FS_Interval, MaxTasksAssumption DEF Tids

\* A scan meets every task of its set exactly once.
LEMMA ScanOrderMeetsAll ==
    ASSUME NEW W \in SUBSET Tids, NEW w \in ScanOrders(W)
    PROVE  /\ \A i \in DOMAIN w : w[i] \in W
           /\ \A i, j \in DOMAIN w : w[i] = w[j] => i = j
           /\ \A t \in W : \E i \in DOMAIN w : w[i] = t
<1> DEFINE n == Cardinality(W)
<1>1. n \in Nat /\ DOMAIN w = 1 .. n /\ w \in [1 .. n -> W]
    BY ScanOrderType DEF ScanOrders
<1>2. \A i, j \in 1 .. n : i < j => w[i] < w[j]
    BY <1>1 DEF ScanOrders
<1>3. \A i \in 1 .. n : w[i] \in Int
    <2>1. \A t \in W : t \in Int
        BY DEF Tids
    <2> HIDE DEF n
    <2> QED BY <1>1, <2>1
<1>4. \A i, j \in 1 .. n : w[i] = w[j] => i = j
    BY <1>1, <1>2, <1>3
<1>5. IsFiniteSet(W)
    BY TidsFinite, FS_Subset
<1>6. Cardinality(1 .. n) = n
    BY <1>1, FS_Interval
<1>7. w \in Injection(1 .. n, W)
    BY <1>1, <1>4 DEF Injection, IsInjective
<1>8. w \in Surjection(1 .. n, W)
    BY <1>5, <1>6, <1>7, FS_Injection
<1> QED BY <1>1, <1>4, <1>8 DEF Surjection

(***************************************************************************)
(* Room in the ring: the entries but one are as many different Ready tasks.*)
(***************************************************************************)
LEMMA UpToSize ==
    ASSUME NEW n \in Nat
    PROVE  IsFiniteSet(1 .. n) /\ Cardinality(1 .. n) = n
BY FS_Interval

LEMMA EntriesBound ==
    ASSUME NEW q \in Seq(Tids), NEW st, NEW k \in 0 .. Len(q), SoundBut(q, st, k)
    PROVE  /\ Cardinality(ReadyTasks(st)) \in Nat
           /\ Len(q) <= Cardinality(ReadyTasks(st)) + (IF k = 0 THEN 0 ELSE 1)
<1> DEFINE D == DOMAIN q \ {k}
           f == [i \in D |-> q[i]]
<1>1. Len(q) \in Nat /\ DOMAIN q = 1 .. Len(q) /\ \A i \in DOMAIN q : q[i] \in Tids
    OBVIOUS
<1>2. IsFiniteSet(1 .. Len(q)) /\ Cardinality(1 .. Len(q)) = Len(q)
    BY <1>1, UpToSize
<1>3. IsFiniteSet(D) /\ Cardinality(D) = IF k = 0 THEN Len(q) ELSE Len(q) - 1
    <2>1. CASE k = 0
        <3>1. D = 1 .. Len(q)
            BY <1>1, <2>1
        <3> QED BY <1>2, <2>1, <3>1
    <2>2. CASE k # 0
        <3>1. k \in 1 .. Len(q) /\ D = (1 .. Len(q)) \ {k}
            BY <1>1, <2>2
        <3> HIDE DEF D
        <3> QED BY <1>2, <2>2, <3>1, FS_RemoveElement
    <2> QED BY <2>1, <2>2
<1>4. IsFiniteSet(ReadyTasks(st)) /\ Cardinality(ReadyTasks(st)) \in Nat
    <2>1. ReadyTasks(st) \in SUBSET Tids
        BY DEF ReadyTasks
    <2> QED BY <2>1, TidsFinite, FS_Subset, FS_CardinalityType
<1>5. f \in Injection(D, ReadyTasks(st))
    BY <1>1 DEF Injection, IsInjective, ReadyTasks, SoundBut
<1>6. Cardinality(D) <= Cardinality(ReadyTasks(st))
    BY <1>4, <1>5, FS_Injection
<1> HIDE DEF D
<1> QED BY <1>1, <1>3, <1>4, <1>6

\* So a queue with at most one stale entry fits in the ring.
LEMMA Fits ==
    ASSUME NEW q \in Seq(Tids), NEW st, OneStale(q, st)
    PROVE  Len(q) <= MAX_TASKS
<1>1. PICK k \in 0 .. Len(q) : SoundBut(q, st, k)
    BY DEF OneStale
<1>2. /\ Cardinality(ReadyTasks(st)) \in Nat
      /\ Len(q) <= Cardinality(ReadyTasks(st)) + (IF k = 0 THEN 0 ELSE 1)
    BY <1>1, EntriesBound
<1>3. Cardinality(ReadyTasks(st)) <= Cardinality(Tids)
    <2>1. ReadyTasks(st) \in SUBSET Tids
        BY DEF ReadyTasks
    <2> QED BY <2>1, TidsFinite, FS_Subset
<1> QED BY <1>2, <1>3, TidsFinite, MaxTasksAssumption

\* Waking a set of tasks that are not Ready, in any order, adds exactly their
\* entries; none is refused.
LEMMA WakeQueue ==
    ASSUME NEW q \in Queues, NEW st \in States, NEW W \in SUBSET Tids,
           \A t \in W : st[t] # "Ready",
           NEW w \in ScanOrders(W), OneStale(q, st)
    PROVE  /\ enqueue_all(q, w) = q \o w
           /\ enqueue_all(q, w) \in Queues
           /\ OneStale(enqueue_all(q, w), Woken(st, W))
           /\ Sound(q, st) => Sound(enqueue_all(q, w), Woken(st, W))
<1> DEFINE st2 == Woken(st, W)
           q2 == q \o w
<1>1. /\ q \in Seq(Tids) /\ w \in Seq(Tids) /\ Len(q) <= MAX_TASKS
    BY QueueFacts, ScanOrderType
<1>2. /\ q2 \in Seq(Tids) /\ Len(q2) = Len(q) + Len(w)
      /\ DOMAIN q = 1 .. Len(q) /\ DOMAIN w = 1 .. Len(w)
      /\ DOMAIN q2 = 1 .. Len(q) + Len(w)
      /\ Len(q) \in Nat /\ Len(w) \in Nat
      /\ \A i \in 1 .. Len(q) : q2[i] = q[i]
      /\ \A i \in 1 .. Len(w) : q2[Len(q) + i] = w[i]
    BY <1>1, ConcatFacts
<1>3. \A t \in Tids : st2[t] = IF t \in W THEN "Ready" ELSE st[t]
    BY TidFacts DEF Woken
<1>4. /\ \A i \in 1 .. Len(w) : w[i] \in W
      /\ \A i, j \in 1 .. Len(w) : w[i] = w[j] => i = j
      /\ \A t \in W : \E i \in 1 .. Len(w) : w[i] = t
    BY <1>2, ScanOrderMeetsAll
<1>5. \A i \in 1 .. Len(q) : q[i] \in Tids
    BY <1>1
<1> HIDE DEF st2, q2
<1>6. Covers(q2, st2)
    <2> SUFFICES ASSUME NEW t \in Tids, st2[t] = "Ready"
                 PROVE  \E i \in DOMAIN q2 : q2[i] = t
        BY DEF Covers
    <2>1. CASE t \in W
        <3>1. PICK i \in 1 .. Len(w) : w[i] = t
            BY <1>4, <2>1
        <3>2. Len(q) + i \in DOMAIN q2 /\ q2[Len(q) + i] = t
            BY <1>2, <3>1
        <3> QED BY <3>2
    <2>2. CASE t \notin W
        <3>1. PICK i \in DOMAIN q : q[i] = t
            BY <1>3, <2>2 DEF OneStale, Covers
        <3>2. i \in DOMAIN q2 /\ q2[i] = t
            BY <1>2, <3>1
        <3> QED BY <3>2
    <2> QED BY <2>1, <2>2
<1>7. ASSUME NEW k \in 0 .. Len(q), SoundBut(q, st, k)
      PROVE  SoundBut(q2, st2, k)
    <2>1. ASSUME NEW i \in DOMAIN q2 \ {k}
          PROVE  \/ i \in 1 .. Len(q) /\ q2[i] = q[i] /\ st[q[i]] = "Ready" /\ q[i] \in Tids \ W
                 \/ i - Len(q) \in 1 .. Len(w) /\ q2[i] = w[i - Len(q)] /\ q2[i] \in W
        <3>1. CASE i <= Len(q)
            <4>1. i \in 1 .. Len(q) /\ i \in DOMAIN q \ {k}
                BY <1>2, <3>1
            <4>2. q2[i] = q[i] /\ st[q[i]] = "Ready" /\ q[i] \in Tids
                BY <1>2, <1>5, <1>7, <4>1 DEF SoundBut
            <4> QED BY <4>1, <4>2
        <3>2. CASE i > Len(q)
            <4>1. i - Len(q) \in 1 .. Len(w) /\ Len(q) + (i - Len(q)) = i
                BY <1>2, <3>2
            <4> QED BY <1>2, <1>4, <4>1
        <3> QED BY <1>2, <3>1, <3>2
    <2>2. ASSUME NEW i \in DOMAIN q2 \ {k} PROVE st2[q2[i]] = "Ready"
        BY <1>3, <2>1
    <2>3. ASSUME NEW i \in DOMAIN q2 \ {k}, NEW j \in DOMAIN q2 \ {k}, q2[i] = q2[j]
          PROVE  i = j
        <3>1. CASE i \in 1 .. Len(q) /\ j \in 1 .. Len(q)
            <4>1. q[i] = q[j] /\ i \in DOMAIN q \ {k} /\ j \in DOMAIN q \ {k}
                BY <1>2, <2>3, <3>1
            <4> QED BY <1>7, <4>1 DEF SoundBut
        <3>2. CASE q2[i] \in W
            <4>1. /\ i - Len(q) \in 1 .. Len(w) /\ q2[i] = w[i - Len(q)]
                  /\ j - Len(q) \in 1 .. Len(w) /\ q2[j] = w[j - Len(q)]
                BY <2>1, <2>3, <3>2
            <4>2. i - Len(q) = j - Len(q)
                BY <1>4, <2>3, <4>1
            <4> QED BY <1>2, <4>2
        <3> QED BY <2>1, <2>3, <3>1, <3>2
    <2> QED BY <2>2, <2>3 DEF SoundBut
<1>8. OneStale(q2, st2)
    <2>1. PICK k \in 0 .. Len(q) : SoundBut(q, st, k)
        BY DEF OneStale
    <2>2. k \in 0 .. Len(q2)
        BY <1>2
    <2> QED BY <1>6, <1>7, <2>1, <2>2 DEF OneStale
<1>9. Sound(q, st) => Sound(q2, st2)
    BY <1>2, <1>6, <1>7 DEF Sound
<1>10. Len(q) + Len(w) <= MAX_TASKS
    BY <1>2, <1>8, Fits
<1>11. enqueue_all(q, w) = q2
    <2>1. SubSeq(q2, 1, Len(q2)) = q2
        BY <1>2, SubSeqFull
    <2> QED BY <1>2, <1>10, <2>1 DEF enqueue_all, q2
<1> QED BY <1>2, <1>8, <1>9, <1>10, <1>11 DEF Queues, st2, q2

\* A task that is not Ready joins the queue as it becomes Ready.
LEMMA EnqueueOne ==
    ASSUME NEW q \in Queues, NEW st \in States, NEW t \in Tids, st[t] # "Ready",
           OneStale(q, st)
    PROVE  /\ enqueue(q, t) \in Queues
           /\ OneStale(enqueue(q, t), [st EXCEPT ![t] = "Ready"])
           /\ Sound(q, st) => Sound(enqueue(q, t), [st EXCEPT ![t] = "Ready"])
<1> DEFINE st2 == [st EXCEPT ![t] = "Ready"]
           q2 == Append(q, t)
<1>1. /\ q \in Seq(Tids) /\ Len(q) \in Nat /\ DOMAIN q = 1 .. Len(q)
      /\ q2 \in Seq(Tids) /\ Len(q2) = Len(q) + 1 /\ DOMAIN q2 = 1 .. Len(q) + 1
      /\ \A i \in 1 .. Len(q) : q2[i] = q[i] /\ q[i] \in Tids
      /\ q2[Len(q) + 1] = t
    BY DEF Queues
<1>2. \A u \in Tids : st2[u] = IF u = t THEN "Ready" ELSE st[u]
    BY TidFacts DEF States
<1> HIDE DEF st2, q2
<1>3. Covers(q2, st2)
    BY <1>1, <1>2 DEF OneStale, Covers
<1>4. ASSUME NEW k \in 0 .. Len(q), SoundBut(q, st, k)
      PROVE  SoundBut(q2, st2, k)
    <2>1. ASSUME NEW i \in DOMAIN q2 \ {k}, i # Len(q) + 1
          PROVE  i \in DOMAIN q \ {k} /\ q2[i] = q[i] /\ st[q[i]] = "Ready" /\ q[i] \in Tids \ {t}
        BY <1>1, <1>4, <2>1 DEF SoundBut
    <2>2. ASSUME NEW i \in DOMAIN q2 \ {k} PROVE st2[q2[i]] = "Ready"
        BY <1>1, <1>2, <2>1
    <2>3. ASSUME NEW i \in DOMAIN q2 \ {k}, NEW j \in DOMAIN q2 \ {k}, q2[i] = q2[j]
          PROVE  i = j
        BY <1>1, <1>4, <2>1, <2>3 DEF SoundBut
    <2> QED BY <2>2, <2>3 DEF SoundBut
<1>5. OneStale(q2, st2)
    <2>1. PICK k \in 0 .. Len(q) : SoundBut(q, st, k)
        BY DEF OneStale
    <2>2. k \in 0 .. Len(q2)
        BY <1>1
    <2> QED BY <1>3, <1>4, <2>1, <2>2 DEF OneStale
<1>6. Sound(q, st) => Sound(q2, st2)
    BY <1>1, <1>3, <1>4 DEF Sound
<1>7. Len(q2) <= MAX_TASKS
    BY <1>1, <1>5, Fits
<1>8. enqueue(q, t) = q2
    <2>1. ~(Len(q) >= MAX_TASKS)
        BY <1>1, <1>7, MaxTasksAssumption
    <2> QED BY <2>1 DEF enqueue, q2
<1> QED BY <1>1, <1>5, <1>6, <1>7, <1>8 DEF Queues, st2

\* Dequeueing a task that becomes Running leaves at most one stale entry: if the
\* head was the stale one, the entry that also names it is stale now.
LEMMA DequeueQueue ==
    ASSUME NEW q \in Queues, NEW st \in States, OneStale(q, st), q # <<>>
    PROVE  OneStale(Tail(q), [st EXCEPT ![Head(q)] = "Running"])
<1> DEFINE h == Head(q)
           st2 == [st EXCEPT ![h] = "Running"]
           q2 == Tail(q)
<1>1. /\ q \in Seq(Tids) /\ Len(q) \in Nat /\ Len(q) >= 1
      /\ DOMAIN q = 1 .. Len(q) /\ DOMAIN q2 = 1 .. Len(q) - 1 /\ Len(q2) = Len(q) - 1
      /\ \A i \in 1 .. Len(q) - 1 : q2[i] = q[i + 1]
      /\ h = q[1] /\ h \in Tids
      /\ \A i \in 1 .. Len(q) : q[i] \in Tids
    <2>1. q \in Seq(Tids)
        BY DEF Queues
    <2> QED BY <2>1, TailFacts
<1>2. \A u \in Tids : st2[u] = IF u = h THEN "Running" ELSE st[u]
    BY <1>1, TidFacts DEF States
<1>3. PICK k \in 0 .. Len(q) : SoundBut(q, st, k)
    BY DEF OneStale
<1> HIDE DEF h, st2, q2
<1>4. Covers(q2, st2)
    <2> SUFFICES ASSUME NEW t \in Tids, st2[t] = "Ready"
                 PROVE  \E i \in DOMAIN q2 : q2[i] = t
        BY DEF Covers
    <2>1. t # h /\ st[t] = "Ready"
        BY <1>2
    <2>2. PICK i \in DOMAIN q : q[i] = t
        BY <2>1 DEF OneStale, Covers
    <2>3. i - 1 \in DOMAIN q2 /\ q2[i - 1] = q[(i - 1) + 1] /\ (i - 1) + 1 = i
        BY <1>1, <2>1, <2>2
    <2> QED BY <2>2, <2>3
<1>5. ASSUME NEW m \in 0 .. Len(q2),
             \A i \in 1 .. Len(q) - 1 : i # m => i + 1 # k /\ q[i + 1] # h
      PROVE  OneStale(q2, st2)
    <2>1. ASSUME NEW i \in DOMAIN q2 \ {m}
          PROVE  /\ i + 1 \in DOMAIN q \ {k} /\ q2[i] = q[i + 1] /\ q[i + 1] # h
                 /\ q[i + 1] \in Tids /\ st[q[i + 1]] = "Ready"
        BY <1>1, <1>3, <1>5 DEF SoundBut
    <2>2. ASSUME NEW i \in DOMAIN q2 \ {m} PROVE st2[q2[i]] = "Ready"
        BY <1>2, <2>1
    <2>3. ASSUME NEW i \in DOMAIN q2 \ {m}, NEW j \in DOMAIN q2 \ {m}, q2[i] = q2[j]
          PROVE  i = j
        <3>1. i + 1 = j + 1
            BY <1>3, <2>1, <2>3 DEF SoundBut
        <3> QED BY <1>1, <3>1
    <2> QED BY <1>4, <2>2, <2>3 DEF OneStale, SoundBut
<1>6. CASE k # 1
    \* The head was in order, and no other ordered entry names it.
    <2> DEFINE m == IF k = 0 THEN 0 ELSE k - 1
    <2>1. m \in 0 .. Len(q2)
        BY <1>1, <1>6
    <2>2. ASSUME NEW i \in 1 .. Len(q) - 1, i # m
          PROVE  i + 1 # k /\ q[i + 1] # h
        <3>1. i + 1 # k /\ i + 1 \in DOMAIN q \ {k} /\ 1 \in DOMAIN q \ {k} /\ i + 1 # 1
            BY <1>1, <1>6, <2>2
        <3> QED BY <1>1, <1>3, <3>1 DEF SoundBut
    <2> QED BY <1>5, <2>1, <2>2 DEF q2, st2, h
<1>7. CASE k = 1 /\ \A i \in 2 .. Len(q) : q[i] # h
    <2>1. 0 \in 0 .. Len(q2)
        BY <1>1
    <2>2. ASSUME NEW i \in 1 .. Len(q) - 1
          PROVE  i + 1 # k /\ q[i + 1] # h
        BY <1>1, <1>7
    <2> QED BY <1>5, <2>1, <2>2 DEF q2, st2, h
<1>8. CASE k = 1 /\ \E i \in 2 .. Len(q) : q[i] = h
    <2>1. PICK d \in 2 .. Len(q) : q[d] = h
        BY <1>8
    <2>2. d - 1 \in 0 .. Len(q2)
        BY <1>1, <2>1
    <2>3. ASSUME NEW i \in 1 .. Len(q) - 1, i # d - 1
          PROVE  i + 1 # k /\ q[i + 1] # h
        <3>1. i + 1 # k /\ i + 1 \in DOMAIN q \ {k} /\ d \in DOMAIN q \ {k} /\ i + 1 # d
            BY <1>1, <1>8, <2>1, <2>3
        <3> QED BY <1>3, <2>1, <3>1 DEF SoundBut
    <2> QED BY <1>5, <2>2, <2>3 DEF q2, st2, h
<1> QED BY <1>6, <1>7, <1>8

\* A queue with nothing to switch to has lost its stale entry.
LEMMA StayQueue ==
    ASSUME NEW q \in Queues, NEW st \in States, OneStale(q, st), ~CanSwitch(st, q)
    PROVE  Sound(IF q = <<>> THEN q ELSE Tail(q), st)
<1>1. PICK k \in 0 .. Len(q) : SoundBut(q, st, k)
    BY DEF OneStale
<1>2. CASE q = <<>>
    BY <1>1, <1>2 DEF OneStale, Sound, SoundBut
<1>3. CASE q # <<>>
    <2> DEFINE q2 == Tail(q)
    <2>1. /\ q \in Seq(Tids) /\ Len(q) \in Nat /\ Len(q) >= 1
          /\ DOMAIN q = 1 .. Len(q) /\ DOMAIN q2 = 1 .. Len(q) - 1
          /\ \A i \in 1 .. Len(q) - 1 : q2[i] = q[i + 1]
          /\ Head(q) = q[1] /\ Head(q) \in Tids
        <3>1. q \in Seq(Tids)
            BY DEF Queues
        <3> QED BY <1>3, <3>1, TailFacts
    <2>2. st[q[1]] = "Exited"
        BY <1>3, <2>1, TidFacts DEF CanSwitch, task
    <2> HIDE DEF q2
    <2>3. k = 1
        BY <1>1, <2>1, <2>2 DEF SoundBut
    <2>4. ASSUME NEW i \in DOMAIN q2 \ {0}
          PROVE  i + 1 \in DOMAIN q \ {k} /\ q2[i] = q[i + 1]
        BY <2>1, <2>3
    <2>5. Covers(q2, st)
        <3> SUFFICES ASSUME NEW t \in Tids, st[t] = "Ready"
                     PROVE  \E i \in DOMAIN q2 : q2[i] = t
            BY DEF Covers
        <3>1. PICK i \in DOMAIN q : q[i] = t
            BY DEF OneStale, Covers
        <3>2. i - 1 \in DOMAIN q2 /\ q2[i - 1] = q[(i - 1) + 1] /\ (i - 1) + 1 = i
            BY <2>1, <2>2, <3>1
        <3> QED BY <3>1, <3>2
    <2>6. SoundBut(q2, st, 0)
        <3>1. ASSUME NEW i \in DOMAIN q2 \ {0} PROVE st[q2[i]] = "Ready"
            BY <1>1, <2>4 DEF SoundBut
        <3>2. ASSUME NEW i \in DOMAIN q2 \ {0}, NEW j \in DOMAIN q2 \ {0}, q2[i] = q2[j]
              PROVE  i = j
            <4>1. i + 1 = j + 1
                BY <1>1, <2>4, <3>2 DEF SoundBut
            <4> QED BY <2>1, <4>1
        <3> QED BY <3>1, <3>2 DEF SoundBut
    <2> QED BY <1>3, <2>5, <2>6 DEF Sound, q2
<1> QED BY <1>2, <1>3

\* A task that blocks or dies leaves at most its own entry behind, if it had
\* been woken before it could leave the CPU.
LEMMA LeaveQueue ==
    ASSUME NEW q \in Queues, NEW st \in States, NEW t \in Tids, OneStale(q, st),
           st[t] = "Ready" => Sound(q, st), NEW x, x # "Ready"
    PROVE  OneStale(q, [st EXCEPT ![t] = x])
<1> DEFINE st2 == [st EXCEPT ![t] = x]
<1>1. /\ Len(q) \in Nat /\ DOMAIN q = 1 .. Len(q)
      /\ \A i \in DOMAIN q : q[i] \in Tids
    BY QueueFacts
<1>2. \A u \in Tids : st2[u] = IF u = t THEN x ELSE st[u]
    BY TidFacts DEF States
<1> HIDE DEF st2
<1>3. Covers(q, st2)
    BY <1>2 DEF OneStale, Covers
<1>4. CASE st[t] # "Ready"
    <2>1. PICK k \in 0 .. Len(q) : SoundBut(q, st, k)
        BY DEF OneStale
    <2>2. SoundBut(q, st2, k)
        BY <1>1, <1>2, <1>4, <2>1 DEF SoundBut
    <2> QED BY <1>1, <1>3, <2>1, <2>2 DEF OneStale, st2
<1>5. CASE st[t] = "Ready"
    <2>1. SoundBut(q, st, 0) /\ Covers(q, st)
        BY <1>5 DEF Sound
    <2>2. PICK k \in DOMAIN q : q[k] = t
        BY <1>5, <2>1 DEF Covers
    <2>3. \A i \in DOMAIN q \ {k} : q[i] # t
        BY <1>1, <2>1, <2>2 DEF SoundBut
    <2>4. SoundBut(q, st2, k)
        BY <1>1, <1>2, <2>1, <2>3 DEF SoundBut
    <2>5. k \in 0 .. Len(q)
        BY <1>1
    <2> QED BY <1>3, <2>4, <2>5 DEF OneStale, st2
<1> QED BY <1>4, <1>5

(***************************************************************************)
(* The invariant of the queue.  A task that found nothing to switch to     *)
(* runs on although it is Blocked, and a wake can make it Ready and queue  *)
(* it; when it then leaves the CPU its entry goes stale.  There is never a *)
(* second stale entry, because the first is gone by the time the queue has *)
(* nothing to switch to.                                                   *)
(***************************************************************************)
InSession   == mode \in {"el0", "launch"} /\ ~oops /\ current_tid # 0
LostCurrent == InSession /\ state[current_tid] # "Running"

QueueInv ==
    /\ OneStale(ready_queue, state)
    /\ LostCurrent => Sound(ready_queue, state)
    /\ InSession => state[current_tid] # "Exited"
    /\ mode = "monitor" /\ ~oops => current_tid = 0
    /\ mode = "launch" => current_tid # 0

(***************************************************************************)
(* The steps of the scheduler.  Whatever the call, a handler does one of   *)
(* three things to the table and the queue: it wakes Blocked tasks, or     *)
(* wakes them and switches away from the current task, or wakes them and   *)
(* finds nothing to switch to.                                             *)
(***************************************************************************)
\* How the current task leaves the CPU: as it is, Blocked, or Exited.
Ways == {"keep", "Blocked", "Exited"}
Left(x) == IF x = "keep" THEN state ELSE [state EXCEPT ![current_tid] = x]

AllBlocked(W) == W \in SUBSET Tids /\ \A t \in W : state[t] = "Blocked"
SavesFrame(f) == f \in Frames /\ f.own = frame.own /\ f.el = frame.el

Wakes(W) ==
    /\ AllBlocked(W)
    /\ state' = Woken(state, W)
    /\ \E w \in ScanOrders(W) : ready_queue' = enqueue_all(ready_queue, w)
    /\ UNCHANGED <<saved, current_tid>>

Leaves(x, W, f) ==
    /\ current_tid # 0
    /\ x \in Ways
    /\ AllBlocked(W)
    /\ x # "keep" => current_tid \notin W
    /\ SavesFrame(f)
    /\ x = "keep" => f.svc \in {frame.svc, NoCall}
\* What the task that leaves is to wait for, if it blocks on a call c that it
\* will repeat.
BlocksOn(c) ==
    /\ c.sys = "recvblk" => mailbox'[current_tid].len = 0
    /\ c.sys = "sendblk" => /\ blocked_send_dst'[current_tid] = c.a
                            /\ c.a \in Tids /\ mailbox'[c.a].len > 0
    /\ c.sys = "wait" => waiting_on'[current_tid] = c.a
Switches(x, W, f) ==
    /\ Leaves(x, W, f)
    /\ x = "Blocked" => BlocksOn(f.svc)
    /\ \E w \in ScanOrders(W) :
         save_and_switch(Woken(Left(x), W), enqueue_all(ready_queue, w), f)
Stays(x, W, f) ==
    /\ Leaves(x, W, f)
    /\ \E w \in ScanOrders(W) :
         save_and_stay(Woken(Left(x), W), enqueue_all(ready_queue, w), f)

\* The handler returns to the code it interrupted.
Kept ==
    /\ frame'.own = frame.own /\ frame'.el = frame.el
    /\ frame'.svc \in {frame.svc, NoCall}
    /\ UNCHANGED <<ttbr0, sp_el1, mode, oops, preempt>>

KeptBy(x) == Kept /\ x # "Exited" /\ (x = "Blocked" => frame'.svc = NoCall)

SchedStep ==
    \/ \E W : Wakes(W) /\ (Kept \/ park \/ (current_tid = 0 /\ on_el0_return))
    \/ \E x, W, f : Switches(x, W, f) /\ Resumed
    \/ \E x, W, f : Stays(x, W, f) /\ (KeptBy(x) \/ on_el0_return)

\* Waking nobody, and waking one task.
LEMMA NoWake ==
    /\ <<>> \in ScanOrders({})
    /\ \A st \in States : Woken(st, {}) = st
    /\ \A q \in Queues : enqueue_all(q, <<>>) = q
<1>1. Cardinality({}) = 0
    BY FS_EmptySet
<1>2. <<>> \in ScanOrders({})
    BY <1>1 DEF ScanOrders
<1>3. ASSUME NEW q \in Queues PROVE enqueue_all(q, <<>>) = q
    <2>1. q \in Seq(Tids) /\ Len(q) \in Nat /\ Len(q) <= MAX_TASKS
        BY QueueFacts
    <2>2. q \o <<>> = q /\ Len(<<>>) = 0 /\ Len(q) + 0 = Len(q)
        BY <2>1
    <2>3. SubSeq(q, 1, Len(q)) = q
        BY <2>1, SubSeqFull
    <2> QED BY <2>1, <2>2, <2>3 DEF enqueue_all
<1> QED BY <1>2, <1>3 DEF Woken, States

LEMMA OneWake ==
    ASSUME NEW t \in Tids
    PROVE  /\ <<t>> \in ScanOrders({t})
           /\ \A st \in States : Woken(st, {t}) = [st EXCEPT ![t] = "Ready"]
           /\ \A q \in Queues : enqueue_all(q, <<t>>) = enqueue(q, t)
<1>1. Cardinality({t}) = 1
    BY FS_Singleton
<1>2. <<t>> \in ScanOrders({t})
    BY <1>1 DEF ScanOrders
<1>3. ASSUME NEW q \in Queues PROVE enqueue_all(q, <<t>>) = enqueue(q, t)
    <2>1. q \in Seq(Tids) /\ Len(q) \in Nat /\ Len(q) <= MAX_TASKS /\ Len(<<t>>) = 1
        BY QueueFacts
    <2>2. q \o <<t>> = Append(q, t) /\ Append(q, t) \in Seq(Tids) /\ Len(Append(q, t)) = Len(q) + 1
        BY <2>1
    <2>3. CASE Len(q) < MAX_TASKS
        <3>1. SubSeq(Append(q, t), 1, Len(q) + 1) = Append(q, t)
            BY <2>2, SubSeqFull
        <3>2. Len(q) + 1 <= MAX_TASKS /\ ~(Len(q) >= MAX_TASKS)
            BY <2>1, <2>3, MaxTasksAssumption
        <3> QED BY <2>1, <2>2, <3>1, <3>2 DEF enqueue_all, enqueue
    <2>4. CASE Len(q) = MAX_TASKS
        <3>1. SubSeq(Append(q, t), 1, Len(q)) = q
            BY <2>1, <2>2
        <3>2. ~(Len(q) + 1 <= MAX_TASKS) /\ Len(q) >= MAX_TASKS
            BY <2>1, <2>4
        <3> QED BY <2>1, <2>2, <2>4, <3>1, <3>2 DEF enqueue_all, enqueue
    <2> QED BY <2>1, <2>3, <2>4, MaxTasksAssumption
<1> QED BY <1>2, <1>3 DEF Woken, States

\* A step that leaves the table and the queue alone wakes nobody.
LEMMA SameWakes ==
    ASSUME IInv, UNCHANGED <<state, saved, ready_queue, current_tid>>
    PROVE  Wakes({})
<1>1. state \in States /\ ready_queue \in Queues
    BY DEF IInv, TasksOK, AtMostCurrent, SwitchOK
<1>2. /\ state' = Woken(state, {})
      /\ <<>> \in ScanOrders({}) /\ ready_queue' = enqueue_all(ready_queue, <<>>)
    BY <1>1, NoWake
<1> QED BY <1>2 DEF Wakes, AllBlocked

LEMMA LeftTable ==
    ASSUME IInv, current_tid # 0, NEW x \in Ways
    PROVE  /\ current_tid \in Tids
           /\ Left(x) \in States
           /\ \A t \in Slots : Left(x)[t] = IF t = current_tid /\ x # "keep" THEN x ELSE state[t]
BY TidFacts DEF IInv, CpuOK, TasksOK, AtMostCurrent, States, Left, Ways, TaskState

\* Leaving the CPU without waking anybody.
LEMMA LeavesQuietly ==
    ASSUME IInv, current_tid # 0, NEW x \in Ways, NEW f, SavesFrame(f),
           x = "keep" => f.svc \in {frame.svc, NoCall}
    PROVE  /\ save_and_switch(Left(x), ready_queue, f) /\ (x = "Blocked" => BlocksOn(f.svc))
                 => Switches(x, {}, f)
           /\ save_and_stay(Left(x), ready_queue, f) => Stays(x, {}, f)
<1>1. Left(x) \in States /\ ready_queue \in Queues
    BY LeftTable DEF IInv, SwitchOK
<1>2. /\ Woken(Left(x), {}) = Left(x)
      /\ <<>> \in ScanOrders({}) /\ enqueue_all(ready_queue, <<>>) = ready_queue
    BY <1>1, NoWake
<1>3. Leaves(x, {}, f)
    BY DEF Leaves, AllBlocked
<1> QED BY <1>2, <1>3 DEF Switches, Stays

\* block_and_switch is save_and_switch of a task that is Blocked first.
LEMMA BlockLeaves ==
    ASSUME IInv, current_tid # 0, state[current_tid] # "Exited", NEW f, SavesFrame(f)
    PROVE  /\ block_and_switch(f) /\ BlocksOn(f.svc) => Switches("Blocked", {}, f)
           /\ block_and_stay(f) => Stays("Blocked", {}, f)
<1> DEFINE x == "Blocked"
<1>1. x \in Ways
    BY DEF Ways
<1>2. /\ current_tid \in Tids /\ current_tid \in Slots
      /\ \A t \in Slots : Left(x)[t] = IF t = current_tid /\ x # "keep" THEN x ELSE state[t]
    BY <1>1, LeftTable, TidFacts
<1>3. BlockedState = Left(x)
    BY <1>2 DEF BlockedState, Left, task
<1>4. Left(x)[current_tid] # "Running" /\ task(Left(x), current_tid) = task(state, current_tid)
    BY <1>2 DEF task
<1>5. /\ ReadyState(Left(x)) = Left(x)
      /\ ReadyQueue(Left(x), ready_queue) = ready_queue
      /\ SaveCurrent(Left(x), f) = SaveCurrent(state, f)
    BY <1>4 DEF ReadyState, ReadyQueue, Requeues, SaveCurrent
<1>6. block_and_switch(f) => save_and_switch(Left(x), ready_queue, f)
    BY <1>3, <1>5 DEF block_and_switch, save_and_switch
<1>7. block_and_stay(f) => save_and_stay(Left(x), ready_queue, f)
    BY <1>3, <1>5 DEF block_and_stay, save_and_stay
<1> QED BY <1>1, <1>6, <1>7, LeavesQuietly

\* A fault leaves the saved frame of the task it kills alone.
LEMMA FaultLeaves ==
    ASSUME IInv, current_tid # 0
    PROVE  LET st == [state EXCEPT ![current_tid] = "Exited"] IN
           /\ Load(st, ready_queue, saved) => Switches("Exited", {}, frame)
           /\ Stay(st, ready_queue, saved) => Stays("Exited", {}, frame)
<1> DEFINE st == Left("Exited")
<1>1. "Exited" \in Ways /\ SavesFrame(frame)
    BY DEF Ways, SavesFrame, IInv, CpuOK
<1>2. st[current_tid] = "Exited"
    BY <1>1, LeftTable, TidFacts
<1>3. st = [state EXCEPT ![current_tid] = "Exited"]
    BY DEF Left
<1> HIDE DEF st
<1>4. /\ ReadyState(st) = st /\ ReadyQueue(st, ready_queue) = ready_queue
      /\ SaveCurrent(st, frame) = saved
    BY <1>2 DEF ReadyState, ReadyQueue, Requeues, SaveCurrent, task
<1>5. /\ Load(st, ready_queue, saved) => save_and_switch(st, ready_queue, frame)
      /\ Stay(st, ready_queue, saved) => save_and_stay(st, ready_queue, frame)
    BY <1>4 DEF save_and_switch, save_and_stay
<1> QED BY <1>1, <1>3, <1>5, LeavesQuietly DEF st

LEMMA FramesSaved ==
    ASSUME IInv
    PROVE  /\ SavesFrame(frame)
           /\ SavesFrame([frame EXCEPT !.svc = NoCall])
           /\ [frame EXCEPT !.svc = NoCall].svc = NoCall
           /\ \A c \in Calls : SavesFrame(Rewound(c)) /\ Rewound(c).svc = c
BY DEF IInv, CpuOK, SavesFrame, Frames, Rewound

LEMMA ReturnedKeeps ==
    ASSUME IInv, Returned
    PROVE  Kept /\ frame'.svc = NoCall
BY DEF IInv, CpuOK, Frames, Returned, Kept, devVars

\* Every handler is one of the three, and leaves the address spaces alone.
LEMMA ReturnSchedules == ASSUME IInv, Return PROVE SchedStep /\ space' = space
BY SameWakes, ReturnedKeeps DEF Return, SchedStep, infoVars

LEMMA ParkSchedules ==
    ASSUME IInv, park, UNCHANGED <<infoVars, state, saved, ready_queue>>
    PROVE  SchedStep /\ space' = space
BY SameWakes DEF SchedStep, park, infoVars

LEMMA SoloSchedules ==
    ASSUME IInv, current_tid = 0, on_el0_return,
           UNCHANGED <<infoVars, state, saved, ready_queue, current_tid>>
    PROVE  SchedStep /\ space' = space
BY SameWakes DEF SchedStep, infoVars

LEMMA BlockSchedules ==
    ASSUME IInv, QueueInv, mode = "el0", ~oops, NEW f, SavesFrame(f), space' = space,
           \/ block_and_switch(f) /\ BlocksOn(f.svc) /\ Resumed
           \/ block_and_stay(f) /\ Returned
    PROVE  SchedStep
<1>1. CASE current_tid = 0
    BY <1>1, SameWakes, ReturnedKeeps DEF block_and_switch, block_and_stay, SchedStep
<1>2. CASE current_tid # 0
    <2>1. state[current_tid] # "Exited"
        BY <1>2 DEF QueueInv, InSession
    <2>2. block_and_switch(f) /\ BlocksOn(f.svc) => Switches("Blocked", {}, f)
        BY <1>2, <2>1, BlockLeaves
    <2>3. block_and_stay(f) => Stays("Blocked", {}, f)
        BY <1>2, <2>1, BlockLeaves
    <2> QED BY <2>2, <2>3, ReturnedKeeps DEF SchedStep, KeptBy
<1> QED BY <1>1, <1>2

LEMMA SendSchedules ==
    ASSUME IInv, NEW c \in Calls, SendCommon(c)
    PROVE  SchedStep /\ space' = space
<1>1. CASE park /\ UNCHANGED <<infoVars, state, saved, ready_queue>>
    BY <1>1, ParkSchedules
<1>2. CASE Return
    BY <1>2, ReturnSchedules
<1>3. CASE /\ ipc_send(c.a, c.n)
           /\ Returned
           /\ UNCHANGED <<waitVars, exit_code, space, saved, current_tid>>
    <2>1. c.a \in Tids /\ state \in States /\ ready_queue \in Queues
        BY <1>3 DEF ipc_send, ipc_send_result, ESRCH, IInv, TasksOK, AtMostCurrent, SwitchOK
    <2>2. CASE state[c.a] = "Blocked"
        <3>1. state' = Woken(state, {c.a}) /\ ready_queue' = enqueue_all(ready_queue, <<c.a>>)
            BY <1>3, <2>1, <2>2, OneWake DEF ipc_send
        <3>2. Wakes({c.a})
            BY <1>3, <2>1, <2>2, <3>1, OneWake DEF Wakes, AllBlocked
        <3> QED BY <1>3, <3>2, ReturnedKeeps DEF SchedStep
    <2>3. CASE state[c.a] # "Blocked"
        BY <1>3, <2>3, SameWakes, ReturnedKeeps DEF ipc_send, SchedStep
    <2> QED BY <2>2, <2>3
<1> QED BY <1>1, <1>2, <1>3 DEF SendCommon

LEMMA RecvSchedules ==
    ASSUME IInv, NEW c \in Calls, RecvCommon(c)
    PROVE  SchedStep /\ space' = space
<1>1. CASE Return
    BY <1>1, ReturnSchedules
<1>2. CASE /\ ipc_recv
           /\ IF BufferFault(c) THEN park ELSE Returned /\ UNCHANGED current_tid
           /\ UNCHANGED <<wake_tick, waiting_on, exit_code, space, saved>>
    <2> DEFINE W == {t \in Tids : state[t] = "Blocked" /\ blocked_send_dst[t] = current_tid}
    <2>1. /\ state' = Woken(state, W)
          /\ \E w \in ScanOrders(W) : ready_queue' = enqueue_all(ready_queue, w)
        BY <1>2 DEF ipc_recv, wake_blocked_senders
    <2>2. AllBlocked(W)
        BY DEF AllBlocked
    <2>3. current_tid' = current_tid /\ saved' = saved /\ space' = space
        BY <1>2 DEF park
    <2> HIDE DEF W
    <2>4. Wakes(W)
        BY <2>1, <2>2, <2>3 DEF Wakes
    <2> QED BY <1>2, <2>3, <2>4, ReturnedKeeps DEF SchedStep
<1> QED BY <1>1, <1>2 DEF RecvCommon

LEMMA ExitLeaves ==
    ASSUME IInv, NEW c \in Calls, Exit(c), current_tid # 0
    PROVE  \E W : \/ Switches("Exited", W, frame) /\ Resumed
                  \/ Stays("Exited", W, frame) /\ on_el0_return
<1> DEFINE W == Waiters(current_tid) \ {current_tid}
<1>1. \E w \in ScanOrders(W) :
           LET q == enqueue_all(ready_queue, w) IN
           \/ save_and_switch(Woken([state EXCEPT ![current_tid] = "Exited"], W), q, frame) /\ Resumed
           \/ save_and_stay(Woken([state EXCEPT ![current_tid] = "Exited"], W), q, frame) /\ on_el0_return
    BY DEF Exit
<1>2. Leaves("Exited", W, frame)
    BY FramesSaved DEF Leaves, Ways, AllBlocked, Waiters
<1>3. [state EXCEPT ![current_tid] = "Exited"] = Left("Exited")
    BY DEF Left
<1> HIDE DEF W
<1> QED BY <1>1, <1>2, <1>3 DEF Switches, Stays

LEMMA ExitSchedules ==
    ASSUME IInv, NEW c \in Calls, Exit(c)
    PROVE  SchedStep /\ space' = space
<1>1. CASE current_tid = 0
    BY <1>1, SoloSchedules DEF Exit
<1>2. CASE current_tid # 0
    BY <1>2, ExitLeaves DEF SchedStep, Exit
<1> QED BY <1>1, <1>2

LEMMA FaultSchedules == ASSUME IInv, Fault PROVE SchedStep /\ space' = space
<1>1. CASE current_tid = 0
    BY <1>1, SoloSchedules DEF Fault
<1>2. CASE current_tid # 0
    BY <1>2, FaultLeaves DEF Fault, SchedStep
<1> QED BY <1>1, <1>2

LEMMA IrqSchedules == ASSUME IInv, handle_irq PROVE SchedStep /\ space' = space
<1>1. AllBlocked(Sleepers)
    BY DEF AllBlocked, Sleepers, Due
<1>2. PICK w \in ScanOrders(Sleepers) :
        LET st == Woken(state, Sleepers)
            q  == enqueue_all(ready_queue, w) IN
        \/ /\ preempt /\ current_tid # 0
           /\ save_and_switch(st, q, frame)
           /\ Resumed
        \/ /\ preempt /\ current_tid # 0
           /\ save_and_stay(st, q, frame)
           /\ UNCHANGED <<frame, ttbr0, sp_el1, mode, devVars>>
        \/ /\ ~(preempt /\ current_tid # 0)
           /\ state' = st /\ ready_queue' = q
           /\ UNCHANGED <<saved, cpuVars, mode, devVars>>
    BY DEF handle_irq
<1>3. space' = space /\ Left("keep") = state
    BY DEF handle_irq, Left
<1>4. CASE current_tid # 0 /\ save_and_switch(Woken(state, Sleepers), enqueue_all(ready_queue, w), frame) /\ Resumed
    <2>1. Switches("keep", Sleepers, frame)
        BY <1>1, <1>3, <1>4, FramesSaved DEF Switches, Leaves, Ways
    <2> QED BY <1>3, <1>4, <2>1 DEF SchedStep
<1>5. CASE /\ current_tid # 0 /\ save_and_stay(Woken(state, Sleepers), enqueue_all(ready_queue, w), frame)
           /\ UNCHANGED <<frame, ttbr0, sp_el1, mode, devVars>>
    <2>1. Stays("keep", Sleepers, frame) /\ KeptBy("keep")
        BY <1>1, <1>3, <1>5, FramesSaved DEF Stays, Leaves, Ways, Kept, KeptBy, devVars
    <2> QED BY <1>3, <2>1 DEF SchedStep
<1>6. CASE /\ state' = Woken(state, Sleepers) /\ ready_queue' = enqueue_all(ready_queue, w)
           /\ UNCHANGED <<saved, cpuVars, mode, devVars>>
    <2>1. Wakes(Sleepers) /\ Kept
        BY <1>1, <1>6 DEF Wakes, Kept, cpuVars, devVars
    <2> QED BY <1>3, <2>1 DEF SchedStep
<1> QED BY <1>2, <1>4, <1>5, <1>6

LEMMA CallSchedules ==
    ASSUME IInv, QueueInv, NEW c \in Calls, handle_svc_from_el0(c)
    PROVE  SchedStep /\ space' = space
<1>1. CASE Write(c)
    BY <1>1, ParkSchedules, ReturnSchedules DEF Write
<1>2. CASE Yield(c)
    <2> DEFINE f == [frame EXCEPT !.svc = NoCall]
    <2>1. SavesFrame(f) /\ f.svc = NoCall /\ "keep" \in Ways /\ Left("keep") = state
        BY FramesSaved DEF Ways, Left
    <2>2. CASE Return
        BY <2>2, ReturnSchedules
    <2> HIDE DEF f
    <2>3. CASE current_tid # 0 /\ save_and_switch(state, ready_queue, f) /\ Resumed /\ UNCHANGED infoVars
        <3>1. Switches("keep", {}, f)
            BY <2>1, <2>3, LeavesQuietly
        <3> QED BY <2>3, <3>1 DEF SchedStep, infoVars
    <2>4. CASE current_tid # 0 /\ save_and_stay(state, ready_queue, f) /\ Returned /\ UNCHANGED infoVars
        <3>1. Stays("keep", {}, f)
            BY <2>1, <2>4, LeavesQuietly
        <3> QED BY <2>4, <3>1, ReturnedKeeps DEF SchedStep, KeptBy, infoVars
    <2> QED BY <1>2, <2>2, <2>3, <2>4 DEF Yield, f
<1>3. CASE Send(c)
    BY <1>3, SendSchedules, ReturnSchedules DEF Send
<1>4. CASE Recv(c)
    BY <1>4, RecvSchedules, ReturnSchedules DEF Recv
<1>5. CASE RecvBlk(c)
    <2>1. mode = "el0" /\ ~oops /\ c.sys = "recvblk" /\ Rewound(c).svc = c /\ SavesFrame(Rewound(c))
        BY <1>5, FramesSaved DEF RecvBlk, InSvc
    <2>2. CASE RecvCommon(c)
        BY <2>2, RecvSchedules
    <2>3. CASE /\ NothingFor(c)
               /\ \/ block_and_switch(Rewound(c)) /\ Resumed
                  \/ block_and_stay(Rewound(c)) /\ Returned
               /\ UNCHANGED infoVars
        <3>1. block_and_switch(Rewound(c)) => mailbox'[current_tid].len = 0
            BY <2>3, TidFacts DEF NothingFor, ipc_recv_empty, infoVars, IInv, CpuOK, block_and_switch
        <3>2. block_and_switch(Rewound(c)) => BlocksOn(c)
            BY <2>1, <3>1 DEF BlocksOn
        <3> QED BY <2>1, <2>3, <3>2, BlockSchedules DEF infoVars
    <2> QED BY <1>5, <2>2, <2>3 DEF RecvBlk
<1>6. CASE SendBlk(c)
    <2>1. mode = "el0" /\ ~oops /\ c.sys = "sendblk" /\ Rewound(c).svc = c /\ SavesFrame(Rewound(c))
        BY <1>6, FramesSaved DEF SendBlk, InSvc
    <2>2. CASE SendCommon(c)
        BY <2>2, SendSchedules
    <2>3. CASE Return
        BY <2>3, ReturnSchedules
    <2>4. CASE /\ Reaches(c) /\ send_x0(c) = EAGAIN /\ current_tid # 0
               /\ \/ /\ block_and_switch(Rewound(c))
                     /\ Resumed
                     /\ blocked_send_dst' = [blocked_send_dst EXCEPT ![current_tid] = c.a]
                  \/ /\ block_and_stay(Rewound(c))
                     /\ Returned
                     /\ blocked_send_dst' = [blocked_send_dst EXCEPT ![current_tid] = 0]
               /\ UNCHANGED <<mailbox, wake_tick, waiting_on, exit_code, space>>
        <3>1. c.a \in Tids /\ mailbox[c.a].len > 0
            BY <2>4 DEF Reaches, send_x0, ipc_send_result, EAGAIN, ESRCH
        <3>2. ASSUME blocked_send_dst' = [blocked_send_dst EXCEPT ![current_tid] = c.a]
              PROVE  BlocksOn(c)
            BY <2>1, <2>4, <3>1, <3>2 DEF BlocksOn, IInv, CpuOK, InfoOK
        <3> QED BY <2>1, <2>4, <3>2, BlockSchedules
    <2> QED BY <1>6, <2>2, <2>3, <2>4 DEF SendBlk
<1>7. CASE Sleep(c)
    <2> DEFINE f == [frame EXCEPT !.svc = NoCall]
    <2>1. mode = "el0" /\ ~oops /\ SavesFrame(f) /\ BlocksOn(f.svc)
        BY <1>7, FramesSaved DEF Sleep, InSvc, BlocksOn, NoCall
    <2>2. CASE Return
        BY <2>2, ReturnSchedules
    <2> HIDE DEF f
    <2>3. CASE /\ \/ block_and_switch(f) /\ Resumed
                  \/ block_and_stay(f) /\ Returned
               /\ space' = space
        BY <2>1, <2>3, BlockSchedules
    <2> QED BY <1>7, <2>2, <2>3 DEF Sleep, f
<1>8. CASE Wait(c)
    <2>1. mode = "el0" /\ ~oops /\ c.sys = "wait" /\ Rewound(c).svc = c /\ SavesFrame(Rewound(c))
        BY <1>8, FramesSaved DEF Wait, InSvc
    <2>2. CASE Return
        BY <2>2, ReturnSchedules
    <2>3. CASE /\ \/ /\ block_and_switch(Rewound(c))
                     /\ Resumed
                     /\ waiting_on' = [waiting_on EXCEPT ![current_tid] = c.a]
                  \/ /\ block_and_stay(Rewound(c))
                     /\ Returned
                     /\ waiting_on' = Cleared(waiting_on, {current_tid})
               /\ UNCHANGED <<mailbox, blocked_send_dst, wake_tick, exit_code, space>>
        <3>1. ASSUME waiting_on' = [waiting_on EXCEPT ![current_tid] = c.a]
              PROVE  BlocksOn(c)
            BY <2>1, <3>1 DEF BlocksOn, IInv, CpuOK, InfoOK
        <3> QED BY <2>1, <2>3, <3>1, BlockSchedules
    <2> QED BY <1>8, <2>2, <2>3 DEF Wait
<1>9. CASE Exit(c)
    BY <1>9, ExitSchedules
<1>10. CASE Unknown(c)
    BY <1>10, ReturnSchedules DEF Unknown
<1> QED
    BY <1>1, <1>2, <1>3, <1>4, <1>5, <1>6, <1>7, <1>8, <1>9, <1>10 DEF handle_svc_from_el0

\* A task that is Ready while it is current has been woken after it got lost.
LEMMA LostBeforeWoken ==
    ASSUME QueueInv, IInv, mode = "el0" \/ mode = "launch", ~oops, current_tid # 0,
           state[current_tid] = "Ready"
    PROVE  Sound(ready_queue, state)
BY DEF QueueInv, LostCurrent, InSession

\* Woken(Left(x), W) and the queue with W's entries, for each way to leave.
LEMMA LeavesSound ==
    ASSUME IInv, QueueInv, mode \in {"el0", "launch"}, ~oops,
           NEW x, NEW W, NEW f, Leaves(x, W, f), NEW w \in ScanOrders(W)
    PROVE  LET st == Woken(Left(x), W)
               q  == enqueue_all(ready_queue, w) IN
           /\ ReadyState(st) \in States
           /\ ReadyQueue(st, q) \in Queues
           /\ OneStale(ReadyQueue(st, q), ReadyState(st))
<1> DEFINE st == Woken(Left(x), W)
           q  == enqueue_all(ready_queue, w)
<1>1. /\ current_tid \in Tids /\ current_tid # 0 /\ x \in Ways
      /\ Left(x) \in States
      /\ \A t \in Slots : Left(x)[t] = IF t = current_tid /\ x # "keep" THEN x ELSE state[t]
      /\ W \in SUBSET Tids /\ \A t \in W : state[t] = "Blocked"
      /\ state \in States /\ ready_queue \in Queues
    BY LeftTable DEF Leaves, AllBlocked, IInv, TasksOK, AtMostCurrent, SwitchOK
<1>2. OneStale(ready_queue, Left(x))
    <2>1. CASE x = "keep"
        BY <2>1 DEF QueueInv, Left
    <2>2. CASE x # "keep"
        <3>1. Left(x) = [state EXCEPT ![current_tid] = x] /\ x # "Ready"
            BY <1>1, <2>2 DEF Left, Ways
        <3>2. OneStale(ready_queue, state)
            BY DEF QueueInv
        <3>3. state[current_tid] = "Ready" => Sound(ready_queue, state)
            BY <1>1, LostBeforeWoken
        <3>4. OneStale(ready_queue, [state EXCEPT ![current_tid] = x])
            BY <1>1, <3>1, <3>2, <3>3, LeaveQueue
        <3> QED BY <3>1, <3>4
    <2> QED BY <2>1, <2>2
<1>3. \A t \in W : Left(x)[t] # "Ready"
    BY <1>1, TidFacts DEF Leaves, Ways
<1>4. /\ q \in Queues /\ OneStale(q, st)
    BY <1>1, <1>2, <1>3, WakeQueue
<1>5. st \in States
    BY <1>1, TidFacts DEF Woken, States, TaskState
<1> HIDE DEF st, q
<1>6. CASE Requeues(st)
    <2>1. st[current_tid] # "Ready"
        BY <1>6 DEF Requeues
    <2>2. /\ ReadyState(st) = [st EXCEPT ![current_tid] = "Ready"]
          /\ ReadyQueue(st, q) = enqueue(q, current_tid)
        BY <1>6 DEF ReadyState, ReadyQueue
    <2>3. [st EXCEPT ![current_tid] = "Ready"] \in States
        BY <1>5 DEF States, TaskState
    <2>4. enqueue(q, current_tid) \in Queues
        BY <1>1, <1>4, EnqueueType
    <2>5. OneStale(enqueue(q, current_tid), [st EXCEPT ![current_tid] = "Ready"])
        BY <1>1, <1>4, <1>5, <2>1, EnqueueOne
    <2> QED BY <2>2, <2>3, <2>4, <2>5 DEF st, q
<1>7. CASE ~Requeues(st)
    <2>1. ReadyState(st) = st /\ ReadyQueue(st, q) = q
        BY <1>7 DEF ReadyState, ReadyQueue
    <2> QED BY <1>4, <1>5, <2>1 DEF st, q
<1> QED BY <1>6, <1>7

LEMMA SwitchesQueue ==
    ASSUME IInv, QueueInv, mode \in {"el0", "launch"}, ~oops,
           NEW x, NEW W, NEW f, Switches(x, W, f)
    PROVE  /\ OneStale(ready_queue, state)'
           /\ state'[current_tid'] = "Running"
           /\ current_tid' \in Tids
<1>1. PICK w \in ScanOrders(W) :
        save_and_switch(Woken(Left(x), W), enqueue_all(ready_queue, w), f)
    BY DEF Switches
<1> DEFINE st == ReadyState(Woken(Left(x), W))
           q  == ReadyQueue(Woken(Left(x), W), enqueue_all(ready_queue, w))
<1>2. st \in States /\ q \in Queues /\ OneStale(q, st)
    BY LeavesSound DEF Switches
<1>3. /\ q # <<>>
      /\ state' = [st EXCEPT ![Head(q)] = "Running"]
      /\ ready_queue' = Tail(q)
      /\ current_tid' = Head(q)
    BY <1>1 DEF save_and_switch, Load, CanSwitch
<1> HIDE DEF st, q
<1>4. OneStale(Tail(q), [st EXCEPT ![Head(q)] = "Running"])
    BY <1>2, <1>3, DequeueQueue
<1>5. Head(q) \in Tids /\ Head(q) \in Slots
    <2>1. q \in Seq(Tids)
        BY <1>2, QueueFacts
    <2> QED BY <1>3, <2>1, TailFacts, TidFacts
<1>6. OneStale(ready_queue, state)'
    <2> DEFINE q2 == Tail(q)
               st2 == [st EXCEPT ![Head(q)] = "Running"]
    <2>1. ready_queue' = q2 /\ state' = st2 /\ OneStale(q2, st2)
        BY <1>3, <1>4
    <2> HIDE DEF q2, st2
    <2> QED BY <2>1 DEF OneStale, Covers, SoundBut
<1>7. state'[current_tid'] = "Running"
    BY <1>2, <1>3, <1>5 DEF States
<1> QED BY <1>3, <1>5, <1>6, <1>7

LEMMA StaysQueue ==
    ASSUME IInv, QueueInv, mode \in {"el0", "launch"}, ~oops,
           NEW x, NEW W, NEW f, Stays(x, W, f)
    PROVE  /\ Sound(ready_queue, state)' /\ OneStale(ready_queue, state)' /\ current_tid' = current_tid
           /\ x # "Exited" => state'[current_tid'] # "Exited"
<1>1. PICK w \in ScanOrders(W) :
        save_and_stay(Woken(Left(x), W), enqueue_all(ready_queue, w), f)
    BY DEF Stays
<1> DEFINE st == ReadyState(Woken(Left(x), W))
           q  == ReadyQueue(Woken(Left(x), W), enqueue_all(ready_queue, w))
<1>2. st \in States /\ q \in Queues /\ OneStale(q, st)
    BY LeavesSound DEF Stays
<1>3. /\ ~CanSwitch(st, q)
      /\ state' = st
      /\ ready_queue' = IF q = <<>> THEN q ELSE Tail(q)
      /\ current_tid' = current_tid
    BY <1>1 DEF save_and_stay, Stay
<1> HIDE DEF st, q
<1>4. Sound(IF q = <<>> THEN q ELSE Tail(q), st)
    BY <1>2, <1>3, StayQueue
<1>5. Sound(ready_queue, state)'
    <2> DEFINE q2 == IF q = <<>> THEN q ELSE Tail(q)
    <2>1. ready_queue' = q2 /\ state' = st /\ Sound(q2, st)
        BY <1>3, <1>4
    <2> HIDE DEF q2
    <2> QED BY <2>1 DEF Sound, Covers, SoundBut
<1>6. ready_queue' \in Queues
    BY <1>2, <1>3, MaxTasksAssumption DEF Queues
<1>7. 0 \in 0 .. Len(ready_queue')
    BY <1>6, QueueFacts
<1>8. x # "Exited" => st[current_tid] # "Exited"
    <2>1. /\ current_tid \in Slots /\ Left(x)[current_tid] = IF x # "keep" THEN x ELSE state[current_tid]
          /\ Left(x) \in States /\ state[current_tid] # "Exited"
        BY LeftTable, TidFacts DEF Stays, Leaves, QueueInv, InSession
    <2> QED BY <2>1 DEF st, Woken, ReadyState, Requeues, States
<1> QED BY <1>3, <1>5, <1>7, <1>8 DEF Sound, OneStale

LEMMA WakesQueue ==
    ASSUME IInv, QueueInv, NEW W, Wakes(W)
    PROVE  /\ OneStale(ready_queue, state)'
           /\ Sound(ready_queue, state) => Sound(ready_queue, state)'
           /\ current_tid' = current_tid
           /\ current_tid # 0 /\ state[current_tid] = "Running" => state'[current_tid] = "Running"
           /\ current_tid # 0 /\ state[current_tid] # "Exited" => state'[current_tid] # "Exited"
<1>1. PICK w \in ScanOrders(W) : ready_queue' = enqueue_all(ready_queue, w)
    BY DEF Wakes
<1>2. /\ W \in SUBSET Tids /\ \A t \in W : state[t] # "Ready" /\ state[t] # "Running"
      /\ state' = Woken(state, W) /\ current_tid' = current_tid
      /\ state \in States /\ ready_queue \in Queues /\ current_tid \in Slots
    BY DEF Wakes, AllBlocked, IInv, TasksOK, AtMostCurrent, SwitchOK, CpuOK
<1>3. /\ OneStale(enqueue_all(ready_queue, w), Woken(state, W))
      /\ Sound(ready_queue, state) => Sound(enqueue_all(ready_queue, w), Woken(state, W))
    BY <1>2, WakeQueue DEF QueueInv
<1> DEFINE q2 == enqueue_all(ready_queue, w)
           st2 == Woken(state, W)
<1>7. ready_queue' = q2 /\ state' = st2 /\ OneStale(q2, st2)
    BY <1>1, <1>2, <1>3
<1>8. Sound(ready_queue, state) => Sound(q2, st2)
    BY <1>3
<1> HIDE DEF q2, st2
<1>4. OneStale(ready_queue, state)'
    BY <1>7 DEF OneStale, Covers, SoundBut
<1>5. Sound(ready_queue, state) => Sound(ready_queue, state)'
    BY <1>7, <1>8 DEF Sound, Covers, SoundBut
<1>6. /\ state[current_tid] = "Running" => state'[current_tid] = "Running"
      /\ state[current_tid] # "Exited" => state'[current_tid] # "Exited"
    BY <1>2 DEF Woken
<1> QED BY <1>2, <1>4, <1>5, <1>6

\* A handler that is not a nested exception.  In the monitor there is no task
\* to switch away from.
LEMMA SchedQueue ==
    ASSUME IInv, QueueInv, ~oops, SchedStep, mode \in {"monitor", "el0", "launch"}
    PROVE  QueueInv'
<1>1. ASSUME NEW W, Wakes(W), Kept \/ park \/ (current_tid = 0 /\ on_el0_return)
      PROVE  QueueInv'
    <2>1. /\ OneStale(ready_queue, state)'
          /\ Sound(ready_queue, state) => Sound(ready_queue, state)'
          /\ current_tid' = current_tid
          /\ current_tid # 0 /\ state[current_tid] = "Running" => state'[current_tid] = "Running"
          /\ current_tid # 0 /\ state[current_tid] # "Exited" => state'[current_tid] # "Exited"
        BY <1>1, WakesQueue
    <2>2. CASE Kept
        <3>1. mode' = mode /\ oops' = oops
            BY <2>2 DEF Kept
        <3>2. /\ LostCurrent' => LostCurrent
              /\ InSession' => state'[current_tid'] # "Exited"
            BY <2>1, <3>1 DEF LostCurrent, InSession, QueueInv
        <3> QED BY <2>1, <3>1, <3>2 DEF QueueInv
    <2>3. CASE park \/ on_el0_return
        BY <2>1, <2>3 DEF QueueInv, LostCurrent, InSession, park, on_el0_return
    <2> QED BY <1>1, <2>2, <2>3
<1>2. ASSUME current_tid # 0 PROVE mode \in {"el0", "launch"}
    BY <1>2 DEF QueueInv
<1>3. ASSUME NEW x, NEW W, NEW f, Switches(x, W, f), Resumed
      PROVE  QueueInv'
    <2>1. /\ OneStale(ready_queue, state)'
          /\ state'[current_tid'] = "Running"
        BY <1>2, <1>3, SwitchesQueue DEF Switches, Leaves
    <2>2. mode' # "monitor" /\ mode' # "launch" /\ ~LostCurrent'
        BY <1>3, <2>1 DEF Resumed, LostCurrent
    <2> QED BY <2>1, <2>2 DEF QueueInv
<1>4. ASSUME NEW x, NEW W, NEW f, Stays(x, W, f), KeptBy(x) \/ on_el0_return
      PROVE  QueueInv'
    <2>1. /\ Sound(ready_queue, state)' /\ OneStale(ready_queue, state)' /\ mode \in {"el0", "launch"}
          /\ x # "Exited" => state'[current_tid'] # "Exited"
        BY <1>2, <1>4, StaysQueue DEF Stays, Leaves
    <2>2. /\ mode' = "monitor" => oops'
          /\ InSession' => state'[current_tid'] # "Exited"
          /\ mode' = "launch" => current_tid' # 0
        BY <1>4, <2>1, StaysQueue DEF Kept, KeptBy, on_el0_return, InSession, Stays, Leaves
    <2> QED BY <2>1, <2>2 DEF QueueInv
<1> QED BY <1>1, <1>3, <1>4 DEF SchedStep

\* Starting a session: the spawned tasks are queued, and the first entry runs.
LEMMA LaunchQueue ==
    ASSUME IInv, QueueInv, NEW timed \in Demos, LaunchCommand(timed)
    PROVE  QueueInv'
<1>1. PICK W \in AllocatedSlots(NSPAWN) : \E w \in ScanOrders(W) :
        LET st == Woken(state, W)
            q  == enqueue_all(ready_queue, w) IN
        /\ CanSwitch(st, q)
        /\ state' = [st EXCEPT ![Head(q)] = "Running"]
        /\ ready_queue' = Tail(q)
        /\ current_tid' = Head(q)
        /\ spawn_fields(w)
    BY DEF LaunchCommand
<1>2. PICK w \in ScanOrders(W) :
        LET st == Woken(state, W)
            q  == enqueue_all(ready_queue, w) IN
        /\ CanSwitch(st, q)
        /\ state' = [st EXCEPT ![Head(q)] = "Running"]
        /\ ready_queue' = Tail(q)
        /\ current_tid' = Head(q)
    BY <1>1
<1> DEFINE st == Woken(state, W)
           q  == enqueue_all(ready_queue, w)
<1>3. /\ W \in SUBSET Tids /\ \A t \in W : state[t] # "Ready"
      /\ state \in States /\ ready_queue \in Queues
    BY DEF AllocatedSlots, FreeSlots, IInv, TasksOK, AtMostCurrent, SwitchOK
<1>4. q \in Queues /\ OneStale(q, st)
    BY <1>3, WakeQueue DEF QueueInv
<1>5. st \in States
    BY <1>3, TidFacts DEF Woken, States, TaskState
<1>6. /\ q # <<>>
      /\ state' = [st EXCEPT ![Head(q)] = "Running"]
      /\ ready_queue' = Tail(q)
      /\ current_tid' = Head(q)
    BY <1>2 DEF CanSwitch
<1> HIDE DEF st, q
<1>7. OneStale(Tail(q), [st EXCEPT ![Head(q)] = "Running"])
    BY <1>4, <1>5, <1>6, DequeueQueue
<1>8. OneStale(ready_queue, state)'
    <2> DEFINE q2 == Tail(q)
               st2 == [st EXCEPT ![Head(q)] = "Running"]
    <2>1. ready_queue' = q2 /\ state' = st2 /\ OneStale(q2, st2)
        BY <1>6, <1>7
    <2> HIDE DEF q2, st2
    <2> QED BY <2>1 DEF OneStale, Covers, SoundBut
<1>9. Head(q) \in Slots /\ Head(q) # 0
    <2>1. q \in Seq(Tids)
        BY <1>4, QueueFacts
    <2> QED BY <1>6, <2>1, TailFacts, TidFacts
<1>10. state'[current_tid'] = "Running" /\ mode' = "launch" /\ current_tid' # 0
    BY <1>5, <1>6, <1>9 DEF States, LaunchCommand
<1> QED BY <1>8, <1>10 DEF QueueInv, LostCurrent

LEMMA TableFullQueue ==
    ASSUME IInv, QueueInv, LaunchTableFull
    PROVE  QueueInv'
<1>1. PICK w \in ScanOrders(FreeSlots) :
        state' = Woken(state, FreeSlots) /\ ready_queue' = enqueue_all(ready_queue, w)
    BY DEF LaunchTableFull
<1>2. FreeSlots \in SUBSET Tids /\ \A t \in FreeSlots : state[t] # "Ready"
    BY DEF FreeSlots
<1>3. OneStale(enqueue_all(ready_queue, w), Woken(state, FreeSlots))
    BY <1>2, WakeQueue DEF QueueInv, IInv, TasksOK, AtMostCurrent, SwitchOK
<1>4. OneStale(ready_queue, state)'
    <2> DEFINE q2 == enqueue_all(ready_queue, w)
               st2 == Woken(state, FreeSlots)
    <2>1. ready_queue' = q2 /\ state' = st2 /\ OneStale(q2, st2)
        BY <1>1, <1>3
    <2> HIDE DEF q2, st2
    <2> QED BY <2>1 DEF OneStale, Covers, SoundBut
<1>5. mode = "monitor" /\ UNCHANGED <<mode, oops, current_tid>>
    BY DEF LaunchTableFull, cpuVars, devVars
<1> QED BY <1>4, <1>5 DEF QueueInv, LostCurrent, InSession

\* The other steps leave the table and the queue alone.
LEMMA SameQueue ==
    ASSUME QueueInv, UNCHANGED <<state, ready_queue>>,
           LostCurrent' => LostCurrent, InSession' => InSession \/ state'[current_tid'] # "Exited",
           current_tid' = current_tid, mode' = "launch" => mode = "launch", mode' = "monitor" /\ ~oops' => current_tid' = 0
    PROVE  QueueInv'
<1>1. OneStale(ready_queue, state)' /\ (Sound(ready_queue, state) => Sound(ready_queue, state)')
    BY DEF QueueInv, OneStale, Sound, Covers, SoundBut
<1> QED BY <1>1 DEF QueueInv

LEMMA QueueStep == IInv /\ QueueInv /\ [Next]_vars => QueueInv'
<1> SUFFICES ASSUME IInv, QueueInv, [Next]_vars PROVE QueueInv'
    OBVIOUS
<1>1. ASSUME NEW c \in Calls, handle_svc_from_el0(c) PROVE QueueInv'
    <2>1. ~oops /\ mode = "el0"
        BY <1>1 DEF handle_svc_from_el0, InSvc, Write, Yield, Send, Recv, RecvBlk, SendBlk,
                    Sleep, Wait, Exit, Unknown
    <2> QED BY <1>1, <2>1, CallSchedules, SchedQueue
<1>2. CASE Fault
    BY <1>2, FaultSchedules, SchedQueue DEF Fault
<1>3. CASE handle_irq
    BY <1>3, IrqSchedules, SchedQueue DEF handle_irq, IrqTaken
<1>4. CASE NestedException \/ FatalCommand
    BY <1>4, SameQueue DEF NestedException, FatalCommand, park, LostCurrent, InSession
<1>5. CASE TickCommand
    BY <1>5, SameQueue
    DEF TickCommand, schedVars, cpuVars, LostCurrent, InSession, QueueInv
<1>6. CASE SoloCommand
    BY <1>6, SameQueue DEF SoloCommand, devVars, LostCurrent, InSession, QueueInv
<1>7. ASSUME NEW timed \in Demos, LaunchCommand(timed) PROVE QueueInv'
    BY <1>7, LaunchQueue
<1>8. CASE LaunchTableFull
    BY <1>8, TableFullQueue
<1>9. CASE drop_to_el0_with
    BY <1>9, SameQueue DEF drop_to_el0_with, devVars, LostCurrent, InSession
<1>10. CASE UNCHANGED vars
    BY <1>10, SameQueue DEF vars, schedVars, cpuVars, LostCurrent, InSession, QueueInv
<1> QED
    BY <1>1, <1>2, <1>3, <1>4, <1>5, <1>6, <1>7, <1>8, <1>9, <1>10 DEF Next, Halted

LEMMA QueueInit == Init => QueueInv
<1> SUFFICES ASSUME Init PROVE QueueInv
    OBVIOUS
<1>1. ready_queue = <<>> /\ \A t \in Tids : state[t] # "Ready"
    BY TidFacts DEF Init, TableInit, Empty
<1>2. Sound(ready_queue, state) /\ OneStale(ready_queue, state)
    BY <1>1 DEF Sound, OneStale, Covers, SoundBut
<1> QED BY <1>2 DEF QueueInv, InSession, Init, TableInit

\* QueueInv holds throughout every run of the kernel.
THEOREM QueueInvariance == Spec => []QueueInv
BY QueueInit, QueueStep, Invariance, PTL DEF Spec

\* No wake is lost, for every ring and table size: whatever made a task Ready,
\* the ring names it until it runs.
THEOREM NoWakeLost == Spec => []ReadyIsQueued
<1>1. QueueInv => ReadyIsQueued
    BY DEF QueueInv, OneStale, Covers, ReadyIsQueued
<1> QED BY <1>1, QueueInvariance, PTL

\* The ring holds at most one entry more than there are Ready tasks.
THEOREM RingHasRoom == Spec => []AtMostOneStale
<1>1. ASSUME IInv, QueueInv PROVE AtMostOneStale
    <2>1. ready_queue \in Seq(Tids)
        BY <1>1 DEF IInv, SwitchOK, Queues
    <2>2. PICK k \in 0 .. Len(ready_queue) : SoundBut(ready_queue, state, k)
        BY <1>1 DEF QueueInv, OneStale
    <2>3. /\ Cardinality(ReadyTasks(state)) \in Nat
          /\ Len(ready_queue) <= Cardinality(ReadyTasks(state)) + (IF k = 0 THEN 0 ELSE 1)
        BY <2>1, <2>2, EntriesBound
    <2>4. Len(ready_queue) \in Nat
        BY <2>1
    <2> QED BY <2>3, <2>4 DEF AtMostOneStale, ReadyTasks
<1> QED BY <1>1, QueueInvariance, Invariance, PTL
=============================================================================
