------------------------------- MODULE Sched -------------------------------
(***************************************************************************)
(* The task table, the ready queue and the context switch of src/sched.rs. *)
(*                                                                         *)
(* The kernel runs on one core and every function of sched.rs runs inside  *)
(* an exception handler (DAIF set), so each is one indivisible piece of a  *)
(* step.  A handler calls several of them in a row, so the operators here  *)
(* are pieces of actions: they take the intermediate task states st, queue *)
(* q and saved contexts sv that the calls before them produced, and say    *)
(* what the primed variables become.  Kernel.tla puts them together.       *)
(***************************************************************************)
EXTENDS Integers, Sequences, FiniteSets

CONSTANT MAX_TASKS      \* slots of TASK_TABLE, slot 0 included; the code has 8

ASSUME MaxTasksAssumption == MAX_TASKS \in Nat /\ MAX_TASKS >= 2

VARIABLES
    state,              \* Task::state
    mailbox,            \* Task::mailbox_len and Task::mailbox_from
    blocked_send_dst,   \* Task::blocked_send_dst
    wake_tick,          \* Task::wake_tick - TICKS: the ticks left to sleep
    exit_code,          \* Task::exit_code
    waiting_on,         \* Task::waiting_on
    space,              \* Task::ttbr0_pa and kstack_top: the memory slot, 0 none
    saved,              \* Task::saved
    ready_queue,        \* Scheduler: the ring, oldest entry first
    current_tid,        \* CURRENT_TID
    frame,              \* what eret resumes: the trap frame of the code running
    ttbr0,              \* TTBR0_EL1: the memory slot it points at, 0 the empty root
    sp_el1              \* SP_EL1 at EL0: the slot of the kernel stack, 0 the boot stack

waitVars  == <<blocked_send_dst, wake_tick, waiting_on>>
cpuVars   == <<current_tid, frame, ttbr0, sp_el1>>
schedVars == <<state, mailbox, waitVars, exit_code, space, saved, ready_queue, cpuVars>>

(***************************************************************************)
(* Tasks.  A TID is an index of TASK_TABLE; slot 0 stands for the kernel   *)
(* and always reads Exited.                                                *)
(***************************************************************************)
Slots == 0 .. MAX_TASKS - 1
Tids  == 1 .. MAX_TASKS - 1

TaskState == {"Exited", "Ready", "Running", "Blocked"}

\* sched::task(tid) is Some: the TID is in range and its slot is in use.
task(st, tid) == tid \in Slots /\ st[tid] # "Exited"

\* A system call as EL0 issues it: the number in x8, the first argument, a
\* length, and where the buffer it names lies.
NoCall == [sys |-> "none", a |-> 0, n |-> 0, buf |-> "user"]

\* A trap frame: whose registers it holds, the exception level that eret
\* returns to, and the svc that ELR was rewound to (NoCall when it was not).
UserFrame(tid) == [own |-> tid, el |-> 0, svc |-> NoCall]
KernelFrame    == [own |-> 0,   el |-> 1, svc |-> NoCall]

EmptyMailbox == [len |-> 0, from |-> 0]

Empty(v) == [t \in Slots |-> v]

TableInit ==
    /\ state = Empty("Exited")
    /\ mailbox = Empty(EmptyMailbox)
    /\ blocked_send_dst = Empty(0)
    /\ wake_tick = Empty(0)
    /\ exit_code = Empty(0)
    /\ waiting_on = Empty(0)
    /\ space = Empty(0)
    /\ saved = Empty(KernelFrame)
    /\ ready_queue = <<>>
    /\ current_tid = 0
    /\ frame = KernelFrame
    /\ ttbr0 = 0
    /\ sp_el1 = 0

(***************************************************************************)
(* The ready queue.  ReadyRing.tla shows that the ring of sched.rs is this *)
(* sequence.  enqueue refuses when the ring is full, and no caller looks   *)
(* at its answer.                                                          *)
(***************************************************************************)
enqueue_in_front(q, tid) == IF Len(q) >= MAX_TASKS THEN q ELSE <<tid>> \o q     \* mutant
enqueue(q, tid) == IF Len(q) >= MAX_TASKS THEN q ELSE Append(q, tid)

enqueue_all(q, w) ==
    SubSeq(q \o w, 1, IF Len(q) + Len(w) <= MAX_TASKS THEN Len(q) + Len(w) ELSE MAX_TASKS)

\* The loops `for tid in 1..MAX_TASKS` meet the tasks of W in TID order.
ScanOrders(W) ==
    {w \in [1 .. Cardinality(W) -> W] : \A i, j \in DOMAIN w : i < j => w[i] < w[j]}

\* A wake: state Ready, then enqueue, for each task of W in scan order.
Woken(st, W) == [t \in Slots |-> IF t \in W THEN "Ready" ELSE st[t]]
Cleared(f, W) == [t \in Slots |-> IF t \in W THEN 0 ELSE f[t]]

(***************************************************************************)
(* The tail of save_and_switch, block_and_switch and kill_current_task:    *)
(* dequeue, look the TID up, load its frame, mark it Running, install its  *)
(* address space, leave its kernel stack pending for __vectors_restore,    *)
(* record it as current.                                                   *)
(***************************************************************************)
CanSwitch(st, q) == q # <<>> /\ task(st, Head(q))

Load_without_space(st, q, sv) ==                                                \* mutant
    /\ CanSwitch(st, q)
    /\ state' = [st EXCEPT ![Head(q)] = "Running"]
    /\ ready_queue' = Tail(q)
    /\ saved' = sv
    /\ frame' = sv[Head(q)]
    /\ current_tid' = Head(q)
    /\ UNCHANGED <<ttbr0, sp_el1>>

Load(st, q, sv) ==
    LET next == Head(q) IN
    /\ CanSwitch(st, q)
    /\ state' = [st EXCEPT ![next] = "Running"]
    /\ ready_queue' = Tail(q)
    /\ saved' = sv
    /\ frame' = sv[next]
    /\ ttbr0' = IF space[next] # 0 THEN space[next] ELSE ttbr0
    /\ sp_el1' = IF space[next] # 0 THEN space[next] ELSE sp_el1
    /\ current_tid' = next

\* The same tail returning false: nothing to dequeue, or a TID whose slot is
\* Exited, which stays dequeued.  The caller decides on frame.
Stay(st, q, sv) ==
    /\ ~CanSwitch(st, q)
    /\ state' = st
    /\ ready_queue' = IF q = <<>> THEN q ELSE Tail(q)
    /\ saved' = sv
    /\ UNCHANGED current_tid

\* The head of save_and_switch: save the frame f of the current task, and put
\* the task back in the queue if it was Running.
SaveCurrent(st, f) ==
    IF current_tid # 0 /\ task(st, current_tid) THEN [saved EXCEPT ![current_tid] = f] ELSE saved
Requeues(st) == current_tid # 0 /\ st[current_tid] = "Running"
ReadyState_still_running(st) == st                                              \* mutant
ReadyState(st) == IF Requeues(st) THEN [st EXCEPT ![current_tid] = "Ready"] ELSE st
ReadyQueue_forgotten(st, q) == q                                                \* mutant
ReadyQueue(st, q) == IF Requeues(st) THEN enqueue(q, current_tid) ELSE q

save_and_switch(st, q, f) == Load(ReadyState(st), ReadyQueue(st, q), SaveCurrent(st, f))
save_and_stay(st, q, f)   == Stay(ReadyState(st), ReadyQueue(st, q), SaveCurrent(st, f))

\* block_and_switch: the current task is saved with f and marked Blocked.  When
\* there is no task to switch to it returns false, and the mark stays.
BlockedState == IF task(state, current_tid) THEN [state EXCEPT ![current_tid] = "Blocked"] ELSE state

block_and_switch(f) ==
    /\ current_tid # 0
    /\ Load(BlockedState, ready_queue, SaveCurrent(state, f))

block_and_stay(f) ==
    \/ /\ current_tid = 0
       /\ UNCHANGED <<state, ready_queue, saved, current_tid>>
    \/ /\ current_tid # 0
       /\ Stay(BlockedState, ready_queue, SaveCurrent(state, f))

(***************************************************************************)
(* Message passing.  A message is represented by its length in bytes.      *)
(***************************************************************************)
ESRCH   == 3
EAGAIN  == 11
MSG_MAX == 32

MinOf(a, b) == IF a <= b THEN a ELSE b

ipc_send_result_overwriting(dst) ==                                             \* mutant
    IF dst \notin Tids \/ state[dst] = "Exited" THEN ESRCH ELSE 0

\* What ipc_send answers; 0 is Ok.
ipc_send_result(dst) ==
    IF dst \notin Tids \/ state[dst] = "Exited" THEN ESRCH
    ELSE IF mailbox[dst].len > 0 THEN EAGAIN ELSE 0

ipc_send_uncut(dst, n) ==                                                       \* mutant
    /\ ipc_send_result(dst) = 0
    /\ mailbox' = [mailbox EXCEPT ![dst] = [len |-> n, from |-> current_tid]]
    /\ UNCHANGED <<state, ready_queue>>

ipc_send_without_wake(dst, n) ==                                                \* mutant
    /\ ipc_send_result(dst) = 0
    /\ mailbox' = [mailbox EXCEPT ![dst] = [len |-> MinOf(n, MSG_MAX), from |-> current_tid]]
    /\ UNCHANGED <<state, ready_queue>>

ipc_send_without_enqueue(dst, n) ==                                             \* mutant
    /\ ipc_send_result(dst) = 0
    /\ mailbox' = [mailbox EXCEPT ![dst] = [len |-> MinOf(n, MSG_MAX), from |-> current_tid]]
    /\ state' = IF state[dst] = "Blocked" THEN [state EXCEPT ![dst] = "Ready"] ELSE state
    /\ UNCHANGED ready_queue

ipc_send_waking_anyone(dst, n) ==                                               \* mutant
    /\ ipc_send_result(dst) = 0
    /\ mailbox' = [mailbox EXCEPT ![dst] = [len |-> MinOf(n, MSG_MAX), from |-> current_tid]]
    /\ state' = [state EXCEPT ![dst] = "Ready"]
    /\ ready_queue' = enqueue(ready_queue, dst)

\* ipc_send when it answers Ok: fill the mailbox, and wake the receiver if it
\* is Blocked, whatever it is blocked on.
ipc_send(dst, n) ==
    /\ ipc_send_result(dst) = 0
    /\ mailbox' = [mailbox EXCEPT ![dst] = [len |-> MinOf(n, MSG_MAX), from |-> current_tid]]
    /\ IF state[dst] = "Blocked"
       THEN /\ state' = [state EXCEPT ![dst] = "Ready"]
            /\ ready_queue' = enqueue(ready_queue, dst)
       ELSE UNCHANGED <<state, ready_queue>>

ipc_recv_empty == current_tid \notin Tids \/ mailbox[current_tid].len = 0

wake_blocked_senders_never(tid) ==                                              \* mutant
    UNCHANGED <<state, blocked_send_dst, ready_queue>>

wake_blocked_senders(tid) ==
    LET W == {t \in Tids : state[t] = "Blocked" /\ blocked_send_dst[t] = tid} IN
    /\ state' = Woken(state, W)
    /\ blocked_send_dst' = Cleared(blocked_send_dst, W)
    /\ \E w \in ScanOrders(W) : ready_queue' = enqueue_all(ready_queue, w)

\* ipc_recv when it answers Ok: drain the mailbox and wake the senders that
\* found it full.
ipc_recv ==
    /\ ~ipc_recv_empty
    /\ mailbox' = [mailbox EXCEPT ![current_tid] = EmptyMailbox]
    /\ wake_blocked_senders(current_tid)

(***************************************************************************)
(* The timer's and the lifecycle's wakes.  wake_tick counts down, so a     *)
(* deadline that on_tick has just reached reads 1 here.                    *)
(***************************************************************************)
Due      == {t \in Tids : wake_tick[t] = 1}
Sleepers_in_any_state == Due                                                    \* mutant
Sleepers == {t \in Due : state[t] = "Blocked"}

ElapseTick_uncounted == UNCHANGED wake_tick                                     \* mutant

ElapseTick ==
    wake_tick' = [t \in Slots |-> IF wake_tick[t] > 0 THEN wake_tick[t] - 1 ELSE 0]

\* What try_wait answers for a TID: Err(ESRCH), Err(EAGAIN), or the exit code.
try_wait_result(tid) ==
    IF tid \notin Tids THEN "ESRCH" ELSE IF state[tid] = "Exited" THEN "Ok" ELSE "EAGAIN"

Waiters(tid) == {t \in Tids : state[t] = "Blocked" /\ waiting_on[t] = tid}

(***************************************************************************)
(* spawn: the lowest free slots, zeroed and filled in, in spawn order.     *)
(***************************************************************************)
FreeSlots == {t \in Tids : state[t] = "Exited"}

\* The slots that n calls of alloc_task in a row find.
AllocatedSlots(n) ==
    {W \in SUBSET FreeSlots : /\ Cardinality(W) = n
                              /\ \A f \in FreeSlots \ W, t \in W : t < f}

\* The table after spawning one task per element of the sequence w, the k-th
\* in memory slot k.  state and ready_queue are left to the caller.
spawn_fields(w) ==
    LET new == {w[i] : i \in DOMAIN w}
        SlotOf(t) == CHOOSE i \in DOMAIN w : w[i] = t IN
    /\ mailbox' = [t \in Slots |-> IF t \in new THEN EmptyMailbox ELSE mailbox[t]]
    /\ blocked_send_dst' = Cleared(blocked_send_dst, new)
    /\ wake_tick' = Cleared(wake_tick, new)
    /\ exit_code' = Cleared(exit_code, new)
    /\ waiting_on' = Cleared(waiting_on, new)
    /\ space' = [t \in Slots |-> IF t \in new THEN SlotOf(t) ELSE space[t]]
    /\ saved' = [t \in Slots |-> IF t \in new THEN UserFrame(t) ELSE saved[t]]
=============================================================================
