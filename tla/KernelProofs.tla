---------------------------- MODULE KernelProofs ----------------------------
(***************************************************************************)
(* Theorems about Kernel for every MAX_TASKS, every number of tasks in a   *)
(* session and every set of calls, with their proofs.                      *)
(***************************************************************************)
EXTENDS Kernel, TLAPS, FiniteSetTheorems

States == [Slots -> TaskState]
Queues == {q \in Seq(Tids) : Len(q) <= MAX_TASKS}

\* A table whose only Running task, if any, is the current one, and a table with
\* no Running task at all.  Slot 0 is never used.
AtMostCurrent(st) ==
    /\ st \in States
    /\ st[0] = "Exited"
    /\ \A t \in Tids : st[t] = "Running" => t = current_tid
NoneRuns(st) ==
    /\ st \in States
    /\ st[0] = "Exited"
    /\ \A t \in Tids : st[t] # "Running"

\* The inductive invariant: the parts of TypeOK, RunningIsCurrent, and, what
\* makes it inductive, that the monitor never runs beside a Running task.
TasksOK ==
    /\ AtMostCurrent(state)
    /\ mode = "monitor" => NoneRuns(state)
SwitchOK ==
    /\ ready_queue \in Queues
    /\ saved \in [Slots -> Frames]
InfoOK ==
    /\ mailbox \in [Slots -> [len : 0 .. MSG_MAX, from : Slots]]
    /\ blocked_send_dst \in [Slots -> AnyTid]
    /\ wake_tick \in [Slots -> Nat]
    /\ exit_code \in [Slots -> Int]
    /\ waiting_on \in [Slots -> AnyTid]
    /\ space \in [Slots -> 0 .. NSPAWN]
IInv == TasksOK /\ SwitchOK /\ InfoOK /\ CpuOK /\ DeviceOK

(***************************************************************************)
(* Lemmas about the operators of Sched.                                    *)
(***************************************************************************)
LEMMA TidFacts == Tids \subseteq Slots /\ 0 \in Slots /\ Slots = Tids \cup {0} /\ 0 \notin Tids
BY MaxTasksAssumption DEF Tids, Slots

\* A scan order of a set of tasks is a sequence of them.
LEMMA ScanOrderType ==
    ASSUME NEW W \in SUBSET Tids, NEW w \in ScanOrders(W)
    PROVE  /\ w \in Seq(Tids)
           /\ Len(w) = Cardinality(W)
           /\ DOMAIN w = 1 .. Cardinality(W)
           /\ Cardinality(W) \in Nat
<1>1. IsFiniteSet(Tids)
    BY FS_Interval, MaxTasksAssumption DEF Tids
<1>2. Cardinality(W) \in Nat
    BY <1>1, FS_Subset, FS_CardinalityType
<1>3. w \in [1 .. Cardinality(W) -> Tids]
    BY DEF ScanOrders
<1> QED BY <1>2, <1>3

\* enqueue keeps the queue a queue of TIDs within the ring's capacity.
LEMMA EnqueueType ==
    ASSUME NEW q \in Queues, NEW t \in Tids
    PROVE  enqueue(q, t) \in Queues
BY MaxTasksAssumption DEF Queues, enqueue

LEMMA EnqueueAllType ==
    ASSUME NEW q \in Queues, NEW w \in Seq(Tids)
    PROVE  enqueue_all(q, w) \in Queues
<1> DEFINE k == IF Len(q) + Len(w) <= MAX_TASKS THEN Len(q) + Len(w) ELSE MAX_TASKS
<1>1. q \o w \in Seq(Tids) /\ Len(q \o w) = Len(q) + Len(w)
    BY DEF Queues
<1>2. k \in Nat /\ k <= Len(q \o w) /\ k <= MAX_TASKS
    BY <1>1, MaxTasksAssumption DEF Queues
<1>3. SubSeq(q \o w, 1, k) \in Seq(Tids) /\ Len(SubSeq(q \o w, 1, k)) = k
    <2> HIDE DEF k
    <2> QED BY <1>1, <1>2
<1> QED BY <1>2, <1>3 DEF enqueue_all, Queues

LEMMA ClearedType ==
    ASSUME NEW W
    PROVE  /\ \A g \in [Slots -> AnyTid] : Cleared(g, W) \in [Slots -> AnyTid]
           /\ \A g \in [Slots -> Nat] : Cleared(g, W) \in [Slots -> Nat]
           /\ \A g \in [Slots -> Int] : Cleared(g, W) \in [Slots -> Int]
<1>1. 0 \in AnyTid
    BY MaxTasksAssumption DEF AnyTid
<1> QED BY <1>1 DEF Cleared

\* A wake makes no task Running.
LEMMA WokenTable ==
    ASSUME NEW st, AtMostCurrent(st), NEW W \in SUBSET Tids
    PROVE  /\ AtMostCurrent(Woken(st, W))
           /\ NoneRuns(st) => NoneRuns(Woken(st, W))
BY TidFacts DEF AtMostCurrent, NoneRuns, Woken, States, TaskState

\* The heads of the switching functions take the current task off the CPU.
LEMMA ReadyTable ==
    ASSUME CpuOK, NEW st, AtMostCurrent(st), NEW q \in Queues
    PROVE  NoneRuns(ReadyState(st)) /\ ReadyQueue(st, q) \in Queues
<1>1. NoneRuns(ReadyState(st))
    BY TidFacts DEF AtMostCurrent, NoneRuns, ReadyState, Requeues, States, TaskState, CpuOK
<1>2. CASE Requeues(st)
    <2>1. current_tid \in Tids
        BY <1>2, TidFacts DEF Requeues, CpuOK
    <2> QED BY <1>1, <1>2, <2>1, EnqueueType DEF ReadyQueue
<1>3. CASE ~Requeues(st)
    BY <1>1, <1>3 DEF ReadyQueue
<1> QED BY <1>2, <1>3

LEMMA BlockedTable ==
    ASSUME CpuOK, AtMostCurrent(state)
    PROVE  NoneRuns(BlockedState) \/ current_tid = 0
BY TidFacts DEF AtMostCurrent, NoneRuns, BlockedState, task, States, TaskState, CpuOK

LEMMA SaveType ==
    ASSUME CpuOK, SwitchOK, NEW st, NEW f \in Frames
    PROVE  SaveCurrent(st, f) \in [Slots -> Frames]
BY DEF SwitchOK, SaveCurrent, CpuOK

\* What Load and Stay leave behind when no task runs in the table they are given.
LEMMA LoadResult ==
    ASSUME CpuOK, InfoOK,
           NEW st, NoneRuns(st), NEW q \in Queues, NEW sv \in [Slots -> Frames],
           Load(st, q, sv)
    PROVE  /\ AtMostCurrent(state)'
           /\ SwitchOK'
           /\ CpuOK'
<1>1. q # <<>> /\ Head(q) \in Tids /\ Tail(q) \in Queues
    BY MaxTasksAssumption DEF Load, CanSwitch, Queues
<1>2. Head(q) \in Slots /\ Head(q) # 0
    BY <1>1, TidFacts
<1>3. AtMostCurrent(state)'
    BY <1>2, TidFacts DEF Load, AtMostCurrent, NoneRuns, States, TaskState
<1>4. space[Head(q)] \in 0 .. NSPAWN /\ sv[Head(q)] \in Frames
    BY <1>2 DEF InfoOK
<1>5. CpuOK'
    BY <1>2, <1>4, KernelAssumption, MaxTasksAssumption DEF Load, CpuOK, SoloSpace
<1> QED BY <1>1, <1>3, <1>5 DEF Load, SwitchOK

LEMMA StayResult ==
    ASSUME NEW st, NoneRuns(st), NEW q \in Queues, NEW sv \in [Slots -> Frames],
           Stay(st, q, sv)
    PROVE  NoneRuns(state)' /\ SwitchOK' /\ current_tid' = current_tid
<1>1. q = <<>> \/ Tail(q) \in Queues
    BY MaxTasksAssumption DEF Queues
<1> QED BY <1>1 DEF Stay, NoneRuns, SwitchOK

LEMMA NoneIsAtMost ==
    ASSUME NoneRuns(state)'
    PROVE  AtMostCurrent(state)'
BY DEF NoneRuns, AtMostCurrent

\* save_and_switch and block_and_switch, switching or not.
LEMMA SaveAndSwitch ==
    ASSUME IInv, NEW st, AtMostCurrent(st), NEW q \in Queues, NEW f \in Frames
    PROVE  /\ save_and_switch(st, q, f) => AtMostCurrent(state)' /\ SwitchOK' /\ CpuOK'
           /\ save_and_stay(st, q, f) => NoneRuns(state)' /\ SwitchOK' /\ current_tid' = current_tid
<1>1. CpuOK /\ SwitchOK /\ InfoOK
    BY DEF IInv
<1>2. NoneRuns(ReadyState(st)) /\ ReadyQueue(st, q) \in Queues
    BY <1>1, ReadyTable
<1>3. SaveCurrent(st, f) \in [Slots -> Frames]
    BY <1>1, SaveType
<1>4. ASSUME save_and_switch(st, q, f) PROVE AtMostCurrent(state)' /\ SwitchOK' /\ CpuOK'
    BY <1>1, <1>2, <1>3, <1>4, LoadResult DEF save_and_switch
<1>5. ASSUME save_and_stay(st, q, f)
      PROVE  NoneRuns(state)' /\ SwitchOK' /\ current_tid' = current_tid
    BY <1>2, <1>3, <1>5, StayResult DEF save_and_stay
<1> QED BY <1>4, <1>5

LEMMA BlockAndSwitch ==
    ASSUME IInv, NEW f \in Frames
    PROVE  /\ block_and_switch(f) => AtMostCurrent(state)' /\ SwitchOK' /\ CpuOK'
           /\ block_and_stay(f) => AtMostCurrent(state)' /\ SwitchOK' /\ current_tid' = current_tid
<1>1. CpuOK /\ SwitchOK /\ InfoOK /\ AtMostCurrent(state) /\ ready_queue \in Queues
    BY DEF IInv, TasksOK, SwitchOK
<1>2. SaveCurrent(state, f) \in [Slots -> Frames]
    BY <1>1, SaveType
<1>3. NoneRuns(BlockedState) \/ current_tid = 0
    BY <1>1, BlockedTable
<1>4. ASSUME block_and_switch(f) PROVE AtMostCurrent(state)' /\ SwitchOK' /\ CpuOK'
    BY <1>1, <1>2, <1>3, <1>4, LoadResult DEF block_and_switch
<1>5. ASSUME block_and_stay(f), current_tid # 0
      PROVE  AtMostCurrent(state)' /\ SwitchOK' /\ current_tid' = current_tid
    BY <1>1, <1>2, <1>3, <1>5, StayResult, NoneIsAtMost DEF block_and_stay
<1>6. ASSUME block_and_stay(f), current_tid = 0
      PROVE  AtMostCurrent(state)' /\ SwitchOK' /\ current_tid' = current_tid
    BY <1>1, <1>6 DEF block_and_stay, AtMostCurrent, SwitchOK, Stay
<1> QED BY <1>4, <1>5, <1>6

(***************************************************************************)
(* Calls, frames and the ways out of a handler.                            *)
(***************************************************************************)
LEMMA CallType ==
    ASSUME NEW c \in Calls
    PROVE  /\ c.sys \in {"send", "sendblk", "wait"} => c.a \in AnyTid
           /\ c.sys = "sleep" => c.a \in Nat
           /\ c.sys = "exit" => c.a \in Int
           /\ c.sys \in {"send", "sendblk"} => c.n \in Nat
BY KernelAssumption DEF Calls, AnyCall

LEMMA FrameType ==
    ASSUME CpuOK, NEW c \in Calls
    PROVE  /\ [frame EXCEPT !.svc = NoCall] \in Frames
           /\ Rewound(c) \in Frames
           /\ KernelFrame \in Frames
           /\ \A t \in Slots : UserFrame(t) \in Frames
BY TidFacts DEF CpuOK, Frames, Rewound, KernelFrame, UserFrame

\* Returning to the caller keeps the registers and the devices as they should be.
LEMMA ReturnedType ==
    ASSUME CpuOK, DeviceOK, Returned, current_tid' = current_tid
    PROVE  CpuOK' /\ DeviceOK' /\ mode' = mode
BY DEF CpuOK, DeviceOK, Returned, Frames, devVars

LEMMA ResumedType ==
    ASSUME DeviceOK, Resumed
    PROVE  DeviceOK' /\ mode' # "monitor"
BY DEF DeviceOK, Resumed, devVars, Modes

LEMMA ReturnToMonitorType ==
    ASSUME CpuOK, DeviceOK, on_el0_return, current_tid' = current_tid
    PROVE  CpuOK' /\ DeviceOK'
<1>1. KernelFrame \in Frames
    BY TidFacts DEF KernelFrame, Frames
<1>2. 0 \in 0 .. SoloSpace
    BY KernelAssumption, MaxTasksAssumption DEF SoloSpace
<1>3. CpuOK'
    BY <1>1, <1>2 DEF CpuOK, on_el0_return
<1>4. DeviceOK'
    BY DEF on_el0_return, DeviceOK, Modes
<1> QED BY <1>3, <1>4

LEMMA ParkType ==
    ASSUME CpuOK, DeviceOK, park
    PROVE  CpuOK' /\ DeviceOK' /\ mode' # "monitor" /\ current_tid' = current_tid
BY TidFacts DEF CpuOK, DeviceOK, park, Modes, KernelFrame, Frames

\* A step that leaves the table, the queue and CURRENT_TID alone.
LEMMA SameTable ==
    ASSUME AtMostCurrent(state), SwitchOK, UNCHANGED <<state, saved, ready_queue, current_tid>>
    PROVE  AtMostCurrent(state)' /\ SwitchOK' /\ (NoneRuns(state) => NoneRuns(state)')
BY DEF AtMostCurrent, NoneRuns, SwitchOK

LEMMA SameInfo ==
    ASSUME InfoOK, UNCHANGED infoVars
    PROVE  InfoOK'
BY DEF InfoOK, infoVars, waitVars

LEMMA ReturnStep ==
    ASSUME IInv, mode = "el0", Return
    PROVE  IInv'
<1>1. AtMostCurrent(state)' /\ SwitchOK'
    BY SameTable DEF Return, IInv, TasksOK
<1>2. CpuOK' /\ DeviceOK' /\ mode' = mode
    BY ReturnedType DEF Return, IInv
<1>3. InfoOK'
    BY SameInfo DEF Return, IInv
<1> QED BY <1>1, <1>2, <1>3 DEF IInv, TasksOK

LEMMA ParkStep ==
    ASSUME IInv, park, UNCHANGED <<state, saved, ready_queue>>, InfoOK'
    PROVE  IInv'
<1>1. CpuOK' /\ DeviceOK' /\ mode' # "monitor" /\ current_tid' = current_tid
    BY ParkType DEF IInv
<1>2. AtMostCurrent(state)' /\ SwitchOK'
    BY <1>1, SameTable DEF IInv, TasksOK
<1> QED BY <1>1, <1>2 DEF IInv, TasksOK

(***************************************************************************)
(* One lemma per action: it preserves the invariant.                       *)
(***************************************************************************)
LEMMA WriteStep == ASSUME IInv, NEW c \in Calls, Write(c) PROVE IInv'
<1>1. mode = "el0" BY DEF Write, InSvc
<1>2. CASE park /\ UNCHANGED <<infoVars, state, saved, ready_queue>>
    BY <1>2, ParkStep, SameInfo DEF IInv
<1>3. CASE Return
    BY <1>1, <1>3, ReturnStep
<1> QED BY <1>2, <1>3 DEF Write

LEMMA YieldStep == ASSUME IInv, NEW c \in Calls, Yield(c) PROVE IInv'
<1> DEFINE f == [frame EXCEPT !.svc = NoCall]
<1>1. mode = "el0" BY DEF Yield, InSvc
<1>2. f \in Frames /\ AtMostCurrent(state) /\ ready_queue \in Queues
    BY FrameType DEF IInv, TasksOK, SwitchOK
<1>3. CASE Return
    BY <1>1, <1>3, ReturnStep
<1>4. CASE save_and_switch(state, ready_queue, f) /\ Resumed /\ UNCHANGED infoVars
    <2>1. AtMostCurrent(state)' /\ SwitchOK' /\ CpuOK'
        BY <1>2, <1>4, SaveAndSwitch
    <2>2. DeviceOK' /\ mode' # "monitor"
        BY <1>4, ResumedType DEF IInv
    <2> QED BY <1>4, <2>1, <2>2, SameInfo DEF IInv, TasksOK
<1>5. CASE save_and_stay(state, ready_queue, f) /\ Returned /\ UNCHANGED infoVars
    <2>1. NoneRuns(state)' /\ SwitchOK' /\ current_tid' = current_tid
        BY <1>2, <1>5, SaveAndSwitch
    <2>2. CpuOK' /\ DeviceOK'
        BY <1>5, <2>1, ReturnedType DEF IInv
    <2> QED BY <1>5, <2>1, <2>2, SameInfo, NoneIsAtMost DEF IInv, TasksOK
<1> QED BY <1>3, <1>4, <1>5 DEF Yield

\* Filling a mailbox and waking its owner.
LEMMA SendCommonStep ==
    ASSUME IInv, mode = "el0", NEW c \in Calls, c.sys \in {"send", "sendblk"}, SendCommon(c)
    PROVE  IInv'
<1>1. CASE park /\ UNCHANGED <<infoVars, state, saved, ready_queue>>
    BY <1>1, ParkStep, SameInfo DEF IInv
<1>2. CASE Return
    BY <1>2, ReturnStep
<1>3. CASE /\ ipc_send(c.a, c.n)
           /\ Returned
           /\ UNCHANGED <<waitVars, exit_code, space, saved, current_tid>>
    <2>1. c.a \in Tids /\ c.a \in Slots /\ c.n \in Nat
        BY <1>3, CallType, TidFacts DEF ipc_send, ipc_send_result, ESRCH
    <2>2. MinOf(c.n, MSG_MAX) \in 0 .. MSG_MAX
        BY <2>1 DEF MinOf, MSG_MAX
    <2>3. InfoOK'
        BY <1>3, <2>1, <2>2 DEF ipc_send, waitVars, IInv, InfoOK, CpuOK
    <2>4. AtMostCurrent(state)'
        BY <1>3, <2>1, TidFacts DEF ipc_send, IInv, TasksOK, AtMostCurrent, States, TaskState
    <2>5. SwitchOK'
        BY <1>3, <2>1, EnqueueType DEF ipc_send, IInv, SwitchOK
    <2>6. CpuOK' /\ DeviceOK' /\ mode' = mode
        BY <1>3, ReturnedType DEF IInv
    <2> QED BY <2>3, <2>4, <2>5, <2>6 DEF IInv, TasksOK
<1> QED BY <1>1, <1>2, <1>3 DEF SendCommon

LEMMA SendStep == ASSUME IInv, NEW c \in Calls, Send(c) PROVE IInv'
<1>1. mode = "el0" /\ c.sys = "send" BY DEF Send, InSvc
<1> QED BY <1>1, SendCommonStep, ReturnStep DEF Send

\* Draining a mailbox and waking the senders that found it full.
LEMMA RecvCommonStep ==
    ASSUME IInv, mode = "el0", NEW c \in Calls, RecvCommon(c)
    PROVE  IInv'
<1>1. CASE Return
    BY <1>1, ReturnStep
<1>2. CASE /\ ipc_recv
           /\ IF BufferFault(c) THEN park ELSE Returned /\ UNCHANGED current_tid
           /\ UNCHANGED <<wake_tick, waiting_on, exit_code, space, saved>>
    <2> DEFINE W == {t \in Tids : state[t] = "Blocked" /\ blocked_send_dst[t] = current_tid}
    <2>1. current_tid \in Slots
        BY DEF IInv, CpuOK
    <2>2. /\ state' = Woken(state, W)
          /\ blocked_send_dst' = Cleared(blocked_send_dst, W)
          /\ \E w \in ScanOrders(W) : ready_queue' = enqueue_all(ready_queue, w)
          /\ mailbox' = [mailbox EXCEPT ![current_tid] = EmptyMailbox]
        BY <1>2 DEF ipc_recv, wake_blocked_senders
    <2>3. CpuOK' /\ DeviceOK' /\ mode' # "monitor" /\ current_tid' = current_tid
        BY <1>2, ReturnedType, ParkType DEF IInv
    <2>4. W \in SUBSET Tids
        OBVIOUS
    <2>5. InfoOK'
        <3>1. mailbox' \in [Slots -> [len : 0 .. MSG_MAX, from : Slots]]
            BY <2>1, <2>2, TidFacts DEF IInv, InfoOK, EmptyMailbox, MSG_MAX
        <3>2. blocked_send_dst' \in [Slots -> AnyTid]
            BY <2>2, ClearedType DEF IInv, InfoOK
        <3> QED BY <1>2, <3>1, <3>2 DEF IInv, InfoOK
    <2>6. SwitchOK'
        <3>1. PICK w \in ScanOrders(W) : ready_queue' = enqueue_all(ready_queue, w)
            BY <2>2
        <3>2. w \in Seq(Tids)
            BY <2>4, ScanOrderType
        <3> QED BY <1>2, <3>1, <3>2, EnqueueAllType DEF IInv, SwitchOK
    <2>7. AtMostCurrent(state)'
        <3>1. AtMostCurrent(Woken(state, W))
            BY <2>4, WokenTable DEF IInv, TasksOK
        <3> QED BY <2>2, <2>3, <3>1 DEF AtMostCurrent
    <2> QED BY <2>3, <2>5, <2>6, <2>7 DEF IInv, TasksOK
<1> QED BY <1>1, <1>2 DEF RecvCommon

LEMMA RecvStep == ASSUME IInv, NEW c \in Calls, Recv(c) PROVE IInv'
<1>1. mode = "el0" BY DEF Recv, InSvc
<1> QED BY <1>1, RecvCommonStep, ReturnStep DEF Recv

\* The two ends of a call that blocks, given that the caller keeps InfoOK.
LEMMA BlockStep ==
    ASSUME IInv, mode = "el0", NEW f \in Frames, InfoOK',
           \/ block_and_switch(f) /\ Resumed
           \/ block_and_stay(f) /\ Returned
    PROVE  IInv'
<1>1. CASE block_and_switch(f) /\ Resumed
    <2>1. AtMostCurrent(state)' /\ SwitchOK' /\ CpuOK'
        BY <1>1, BlockAndSwitch
    <2>2. DeviceOK' /\ mode' # "monitor"
        BY <1>1, ResumedType DEF IInv
    <2> QED BY <2>1, <2>2 DEF IInv, TasksOK
<1>2. CASE block_and_stay(f) /\ Returned
    <2>1. AtMostCurrent(state)' /\ SwitchOK' /\ current_tid' = current_tid
        BY <1>2, BlockAndSwitch
    <2>2. CpuOK' /\ DeviceOK' /\ mode' = mode
        BY <1>2, <2>1, ReturnedType DEF IInv
    <2> QED BY <2>1, <2>2 DEF IInv, TasksOK
<1> QED BY <1>1, <1>2

LEMMA RecvBlkStep == ASSUME IInv, NEW c \in Calls, RecvBlk(c) PROVE IInv'
<1>1. mode = "el0" /\ Rewound(c) \in Frames
    BY FrameType DEF RecvBlk, InSvc, IInv
<1>2. CASE RecvCommon(c)
    BY <1>1, <1>2, RecvCommonStep
<1>3. CASE /\ \/ block_and_switch(Rewound(c)) /\ Resumed
              \/ block_and_stay(Rewound(c)) /\ Returned
           /\ UNCHANGED infoVars
    BY <1>1, <1>3, BlockStep, SameInfo DEF IInv
<1> QED BY <1>2, <1>3 DEF RecvBlk

LEMMA SendBlkStep == ASSUME IInv, NEW c \in Calls, SendBlk(c) PROVE IInv'
<1>1. mode = "el0" /\ c.sys = "sendblk" /\ c.a \in AnyTid /\ Rewound(c) \in Frames
    BY FrameType, CallType DEF SendBlk, InSvc, IInv
<1>2. CASE SendCommon(c)
    BY <1>1, <1>2, SendCommonStep
<1>3. CASE Return
    BY <1>1, <1>3, ReturnStep
<1>4. CASE /\ \/ /\ block_and_switch(Rewound(c))
                 /\ Resumed
                 /\ blocked_send_dst' = [blocked_send_dst EXCEPT ![current_tid] = c.a]
              \/ /\ block_and_stay(Rewound(c))
                 /\ Returned
                 /\ blocked_send_dst' = [blocked_send_dst EXCEPT ![current_tid] = 0]
           /\ UNCHANGED <<mailbox, wake_tick, waiting_on, exit_code, space>>
    <2>1. 0 \in AnyTid
        BY MaxTasksAssumption DEF AnyTid
    <2>2. InfoOK'
        BY <1>1, <1>4, <2>1 DEF IInv, InfoOK
    <2> QED BY <1>1, <1>4, <2>2, BlockStep
<1> QED BY <1>2, <1>3, <1>4 DEF SendBlk

LEMMA SleepStep == ASSUME IInv, NEW c \in Calls, Sleep(c) PROVE IInv'
<1> DEFINE f == [frame EXCEPT !.svc = NoCall]
<1>1. mode = "el0" /\ c.a \in Nat /\ f \in Frames
    BY FrameType, CallType DEF Sleep, InSvc, IInv
<1>2. CASE Return
    BY <1>1, <1>2, ReturnStep
<1>3. CASE /\ \/ /\ block_and_switch(f)
                 /\ Resumed
                 /\ wake_tick' = [wake_tick EXCEPT ![current_tid] = c.a]
              \/ /\ block_and_stay(f)
                 /\ Returned
                 /\ wake_tick' = [wake_tick EXCEPT ![current_tid] = 0]
           /\ UNCHANGED <<mailbox, blocked_send_dst, waiting_on, exit_code, space>>
    <2> HIDE DEF f
    <2>1. wake_tick' \in [Slots -> Nat]
        BY <1>1, <1>3 DEF IInv, InfoOK
    <2>2. InfoOK'
        BY <1>3, <2>1 DEF IInv, InfoOK
    <2> QED BY <1>1, <1>3, <2>2, BlockStep
<1> QED BY <1>2, <1>3 DEF Sleep

LEMMA WaitStep == ASSUME IInv, NEW c \in Calls, Wait(c) PROVE IInv'
<1>1. mode = "el0" /\ c.a \in AnyTid /\ Rewound(c) \in Frames
    BY FrameType, CallType DEF Wait, InSvc, IInv
<1>2. CASE Return
    BY <1>1, <1>2, ReturnStep
<1>3. CASE /\ \/ /\ block_and_switch(Rewound(c))
                 /\ Resumed
                 /\ waiting_on' = [waiting_on EXCEPT ![current_tid] = c.a]
              \/ /\ block_and_stay(Rewound(c))
                 /\ Returned
                 /\ waiting_on' = Cleared(waiting_on, {current_tid})
           /\ UNCHANGED <<mailbox, blocked_send_dst, wake_tick, exit_code, space>>
    <2>1. waiting_on' \in [Slots -> AnyTid]
        <3>1. waiting_on \in [Slots -> AnyTid]
            BY DEF IInv, InfoOK
        <3>2. Cleared(waiting_on, {current_tid}) \in [Slots -> AnyTid]
            BY <3>1, ClearedType
        <3> QED BY <1>1, <1>3, <3>1, <3>2
    <2>2. InfoOK'
        BY <1>3, <2>1 DEF IInv, InfoOK
    <2> QED BY <1>1, <1>3, <2>2, BlockStep
<1> QED BY <1>2, <1>3 DEF Wait

\* The last task has gone: back to the monitor with nothing Running.
LEMMA ToMonitor ==
    ASSUME IInv, NoneRuns(state)', SwitchOK', current_tid' = current_tid, InfoOK', on_el0_return
    PROVE  IInv'
<1>1. CpuOK' /\ DeviceOK'
    BY ReturnToMonitorType DEF IInv
<1> QED BY <1>1, NoneIsAtMost DEF IInv, TasksOK

\* The same from a program without a task, which finds nothing Running.
LEMMA SoloToMonitor ==
    ASSUME IInv, current_tid = 0, on_el0_return,
           UNCHANGED <<infoVars, state, saved, ready_queue, current_tid>>
    PROVE  IInv'
<1>1. NoneRuns(state)
    BY TidFacts DEF IInv, TasksOK, AtMostCurrent, NoneRuns
<1>2. NoneRuns(state)' /\ SwitchOK'
    BY <1>1, SameTable DEF IInv, TasksOK
<1> QED BY <1>2, ToMonitor, SameInfo DEF IInv

\* The dying task leaves the CPU.
LEMMA ExitedTable ==
    ASSUME CpuOK, AtMostCurrent(state)
    PROVE  NoneRuns([state EXCEPT ![current_tid] = "Exited"])
BY TidFacts DEF CpuOK, AtMostCurrent, NoneRuns, States, TaskState

LEMMA ExitStep == ASSUME IInv, NEW c \in Calls, Exit(c) PROVE IInv'
<1> DEFINE W  == Waiters(current_tid) \ {current_tid}
           dead == [state EXCEPT ![current_tid] = "Exited"]
           st == Woken(dead, W)
<1>1. c.a \in Int /\ frame \in Frames
    BY CallType DEF Exit, IInv, CpuOK
<1>2. CASE current_tid = 0
    BY <1>2, SoloToMonitor DEF Exit
<1>3. CASE current_tid # 0
    <2>1. W \in SUBSET Tids
        BY DEF Waiters
    <2>2. AtMostCurrent(st)
        <3>1. NoneRuns(dead)
            BY ExitedTable DEF IInv, TasksOK
        <3>2. AtMostCurrent(dead)
            BY <3>1 DEF NoneRuns, AtMostCurrent
        <3> HIDE DEF dead, W
        <3> QED BY <2>1, <3>2, WokenTable
    <2>3. PICK w \in ScanOrders(W) :
            LET q == enqueue_all(ready_queue, w) IN
            \/ save_and_switch(st, q, frame) /\ Resumed
            \/ save_and_stay(st, q, frame) /\ on_el0_return
        BY <1>3 DEF Exit
    <2> DEFINE q == enqueue_all(ready_queue, w)
    <2>4. q \in Queues
        BY <2>1, ScanOrderType, EnqueueAllType DEF IInv, SwitchOK
    <2>5. InfoOK'
        <3>1. waiting_on' = Cleared(waiting_on, W)
            BY <1>3 DEF Exit
        <3>2. waiting_on' \in [Slots -> AnyTid]
            BY <3>1, ClearedType DEF IInv, InfoOK
        <3>3. /\ exit_code' = [exit_code EXCEPT ![current_tid] = c.a]
              /\ UNCHANGED <<mailbox, blocked_send_dst, wake_tick, space>>
            BY <1>3 DEF Exit
        <3> QED BY <1>1, <3>2, <3>3 DEF IInv, InfoOK
    <2> HIDE DEF st, q
    <2>6. CASE save_and_switch(st, q, frame) /\ Resumed
        <3>1. AtMostCurrent(state)' /\ SwitchOK' /\ CpuOK'
            BY <1>1, <2>2, <2>4, <2>6, SaveAndSwitch
        <3>2. DeviceOK' /\ mode' # "monitor"
            BY <2>6, ResumedType DEF IInv
        <3> QED BY <2>5, <3>1, <3>2 DEF IInv, TasksOK
    <2>7. CASE save_and_stay(st, q, frame) /\ on_el0_return
        BY <1>1, <2>2, <2>4, <2>5, <2>7, SaveAndSwitch, ToMonitor
    <2> QED BY <2>3, <2>6, <2>7 DEF q
<1> QED BY <1>2, <1>3

LEMMA UnknownStep == ASSUME IInv, NEW c \in Calls, Unknown(c) PROVE IInv'
BY ReturnStep DEF Unknown, InSvc

LEMMA FaultStep == ASSUME IInv, Fault PROVE IInv'
<1> DEFINE dead == [state EXCEPT ![current_tid] = "Exited"]
<1>1. CpuOK /\ InfoOK /\ ready_queue \in Queues /\ saved \in [Slots -> Frames]
    BY DEF IInv, SwitchOK
<1>2. CASE current_tid = 0
    BY <1>2, SoloToMonitor DEF Fault
<1>3. CASE current_tid # 0
    <2>1. NoneRuns(dead)
        BY ExitedTable DEF IInv, TasksOK
    <2>2. /\ mailbox' = [mailbox EXCEPT ![current_tid] = EmptyMailbox]
          /\ blocked_send_dst' = [blocked_send_dst EXCEPT ![current_tid] = 0]
          /\ wake_tick' = [wake_tick EXCEPT ![current_tid] = 0]
          /\ waiting_on' = [waiting_on EXCEPT ![current_tid] = 0]
          /\ exit_code' = [exit_code EXCEPT ![current_tid] = -1]
          /\ UNCHANGED space
        BY <1>3 DEF Fault
    <2>3. 0 \in AnyTid /\ EmptyMailbox \in [len : 0 .. MSG_MAX, from : Slots]
        BY MaxTasksAssumption, TidFacts DEF AnyTid, EmptyMailbox, MSG_MAX
    <2>4. InfoOK'
        <3>1. mailbox' \in [Slots -> [len : 0 .. MSG_MAX, from : Slots]]
            BY <1>1, <2>2, <2>3 DEF InfoOK
        <3>2. /\ blocked_send_dst' \in [Slots -> AnyTid]
              /\ waiting_on' \in [Slots -> AnyTid]
            BY <1>1, <2>2, <2>3 DEF InfoOK
        <3>3. wake_tick' \in [Slots -> Nat]
            BY <1>1, <2>2 DEF InfoOK
        <3>4. -1 \in Int
            OBVIOUS
        <3>5. exit_code' \in [Slots -> Int]
            BY <1>1, <2>2, <3>4 DEF InfoOK
        <3> QED BY <1>1, <2>2, <3>1, <3>2, <3>3, <3>5 DEF InfoOK
    <2> HIDE DEF dead
    <2>5. CASE Load(dead, ready_queue, saved) /\ Resumed
        <3>1. AtMostCurrent(state)' /\ SwitchOK' /\ CpuOK'
            BY <1>1, <2>1, <2>5, LoadResult
        <3>2. DeviceOK' /\ mode' # "monitor"
            BY <2>5, ResumedType DEF IInv
        <3> QED BY <2>4, <3>1, <3>2 DEF IInv, TasksOK
    <2>6. CASE Stay(dead, ready_queue, saved) /\ on_el0_return
        <3>1. NoneRuns(state)' /\ SwitchOK' /\ current_tid' = current_tid
            BY <1>1, <2>1, <2>6, StayResult
        <3> QED BY <2>4, <2>6, <3>1, ToMonitor
    <2> QED BY <1>3, <2>5, <2>6 DEF Fault, dead
<1> QED BY <1>2, <1>3

LEMMA TickType ==
    ASSUME InfoOK, ElapseTick
    PROVE  wake_tick' \in [Slots -> Nat]
BY DEF InfoOK, ElapseTick

LEMMA IrqStep == ASSUME IInv, handle_irq PROVE IInv'
<1> DEFINE st == Woken(state, Sleepers)
<1>1. Sleepers \in SUBSET Tids /\ frame \in Frames
    BY DEF Sleepers, Due, IInv, CpuOK
<1>2. AtMostCurrent(st) /\ (mode = "monitor" => NoneRuns(st))
    BY <1>1, WokenTable DEF IInv, TasksOK
<1>3. PICK w \in ScanOrders(Sleepers) :
        LET q == enqueue_all(ready_queue, w) IN
        \/ /\ preempt /\ current_tid # 0
           /\ save_and_switch(st, q, frame)
           /\ Resumed
        \/ /\ preempt /\ current_tid # 0
           /\ save_and_stay(st, q, frame)
           /\ UNCHANGED <<frame, ttbr0, sp_el1, mode, devVars>>
        \/ /\ ~(preempt /\ current_tid # 0)
           /\ state' = st /\ ready_queue' = q
           /\ UNCHANGED <<saved, cpuVars, mode, devVars>>
    BY DEF handle_irq
<1> DEFINE q == enqueue_all(ready_queue, w)
<1>4. q \in Queues
    BY <1>1, ScanOrderType, EnqueueAllType DEF IInv, SwitchOK
<1>5. InfoOK'
    <2>1. wake_tick' \in [Slots -> Nat]
        BY TickType DEF handle_irq, IInv
    <2>2. UNCHANGED <<mailbox, blocked_send_dst, waiting_on, exit_code, space>>
        BY DEF handle_irq
    <2> QED BY <2>1, <2>2 DEF IInv, InfoOK
<1> HIDE DEF st, q
<1>6. CASE save_and_switch(st, q, frame) /\ Resumed
    <2>1. AtMostCurrent(state)' /\ SwitchOK' /\ CpuOK'
        BY <1>1, <1>2, <1>4, <1>6, SaveAndSwitch
    <2>2. DeviceOK' /\ mode' # "monitor"
        BY <1>6, ResumedType DEF IInv
    <2> QED BY <1>5, <2>1, <2>2 DEF IInv, TasksOK
<1>7. CASE save_and_stay(st, q, frame) /\ UNCHANGED <<frame, ttbr0, sp_el1, mode, devVars>>
    <2>1. NoneRuns(state)' /\ SwitchOK' /\ current_tid' = current_tid
        BY <1>1, <1>2, <1>4, <1>7, SaveAndSwitch
    <2>2. CpuOK' /\ DeviceOK'
        BY <1>7, <2>1 DEF IInv, CpuOK, DeviceOK, devVars
    <2> QED BY <1>5, <2>1, <2>2, NoneIsAtMost DEF IInv, TasksOK
<1>8. CASE state' = st /\ ready_queue' = q /\ UNCHANGED <<saved, cpuVars, mode, devVars>>
    <2>1. AtMostCurrent(state)' /\ (mode' = "monitor" => NoneRuns(state)')
        BY <1>2, <1>8 DEF AtMostCurrent, NoneRuns, cpuVars
    <2>2. SwitchOK'
        BY <1>4, <1>8 DEF IInv, SwitchOK
    <2>3. CpuOK' /\ DeviceOK'
        BY <1>8 DEF IInv, CpuOK, DeviceOK, cpuVars, devVars
    <2> QED BY <1>5, <2>1, <2>2, <2>3 DEF IInv, TasksOK
<1> QED BY <1>3, <1>6, <1>7, <1>8 DEF q

LEMMA MonitorSteps ==
    ASSUME IInv, NestedException \/ FatalCommand \/ TickCommand
    PROVE  IInv'
<1>1. CASE NestedException \/ FatalCommand
    BY <1>1, ParkStep, SameInfo DEF NestedException, FatalCommand, IInv
<1>2. CASE TickCommand
    <2>1. CpuOK' /\ InfoOK' /\ SwitchOK'
        BY <1>2 DEF TickCommand, IInv, CpuOK, InfoOK, SwitchOK, schedVars, cpuVars, waitVars
    <2>2. TasksOK'
        BY <1>2, SameTable DEF TickCommand, IInv, TasksOK, schedVars, cpuVars
    <2>3. DeviceOK'
        BY <1>2 DEF TickCommand, IInv, DeviceOK
    <2> QED BY <2>1, <2>2, <2>3 DEF IInv
<1> QED BY <1>1, <1>2

LEMMA SoloStep == ASSUME IInv, SoloCommand PROVE IInv'
<1>1. AtMostCurrent(state)' /\ SwitchOK'
    BY SameTable DEF SoloCommand, IInv, TasksOK
<1>2. UserFrame(0) \in Frames /\ SoloSpace \in 0 .. SoloSpace
    BY FrameType, TidFacts, KernelAssumption, MaxTasksAssumption DEF IInv, UserFrame, Frames, SoloSpace
<1>3. CpuOK'
    BY <1>2 DEF SoloCommand, IInv, CpuOK
<1>4. DeviceOK' /\ mode' # "monitor"
    BY DEF SoloCommand, IInv, DeviceOK, Modes, devVars
<1>5. InfoOK'
    BY SameInfo DEF SoloCommand, IInv
<1> QED BY <1>1, <1>3, <1>4, <1>5 DEF IInv, TasksOK

(***************************************************************************)
(* Starting a session.                                                     *)
(***************************************************************************)
\* spawn gives the tasks of a scan order fresh, well-typed slots.
LEMMA SpawnType ==
    ASSUME InfoOK, SwitchOK, NEW W \in SUBSET Tids, NEW w \in ScanOrders(W),
           Cardinality(W) <= NSPAWN, spawn_fields(w)
    PROVE  InfoOK' /\ saved' \in [Slots -> Frames]
<1> DEFINE fresh == {w[i] : i \in DOMAIN w}
           SlotOf(t) == CHOOSE i \in DOMAIN w : w[i] = t
<1>1. /\ mailbox' = [t \in Slots |-> IF t \in fresh THEN EmptyMailbox ELSE mailbox[t]]
      /\ blocked_send_dst' = Cleared(blocked_send_dst, fresh)
      /\ wake_tick' = Cleared(wake_tick, fresh)
      /\ exit_code' = Cleared(exit_code, fresh)
      /\ waiting_on' = Cleared(waiting_on, fresh)
      /\ space' = [t \in Slots |-> IF t \in fresh THEN SlotOf(t) ELSE space[t]]
      /\ saved' = [t \in Slots |-> IF t \in fresh THEN UserFrame(t) ELSE saved[t]]
    BY DEF spawn_fields
<1>2. ASSUME NEW t \in fresh PROVE SlotOf(t) \in 0 .. NSPAWN
    <2>1. DOMAIN w = 1 .. Cardinality(W) /\ Cardinality(W) \in Nat
        BY ScanOrderType
    <2>2. SlotOf(t) \in DOMAIN w
        BY <1>2
    <2> HIDE DEF SlotOf
    <2> QED BY <2>1, <2>2, KernelAssumption, MaxTasksAssumption
<1> HIDE DEF fresh, SlotOf
<1>3. space' \in [Slots -> 0 .. NSPAWN]
    BY <1>1, <1>2 DEF InfoOK
<1>4. mailbox' \in [Slots -> [len : 0 .. MSG_MAX, from : Slots]]
    BY <1>1, TidFacts DEF InfoOK, EmptyMailbox, MSG_MAX
<1>5. /\ blocked_send_dst' \in [Slots -> AnyTid] /\ waiting_on' \in [Slots -> AnyTid]
      /\ wake_tick' \in [Slots -> Nat] /\ exit_code' \in [Slots -> Int]
    BY <1>1, ClearedType DEF InfoOK
<1>6. saved' \in [Slots -> Frames]
    <2>1. \A t \in Slots : UserFrame(t) \in Frames
        BY DEF UserFrame, Frames
    <2> QED BY <1>1, <2>1 DEF SwitchOK
<1> QED BY <1>3, <1>4, <1>5, <1>6 DEF InfoOK

LEMMA LaunchStep == ASSUME IInv, NEW timed \in Demos, LaunchCommand(timed) PROVE IInv'
<1>0. PICK W \in AllocatedSlots(NSPAWN) : \E w \in ScanOrders(W) :
        LET st == Woken(state, W)
            q  == enqueue_all(ready_queue, w) IN
        /\ CanSwitch(st, q)
        /\ state' = [st EXCEPT ![Head(q)] = "Running"]
        /\ ready_queue' = Tail(q)
        /\ current_tid' = Head(q)
        /\ spawn_fields(w)
    BY DEF LaunchCommand
<1>1. PICK w \in ScanOrders(W) :
        LET st == Woken(state, W)
            q  == enqueue_all(ready_queue, w) IN
        /\ CanSwitch(st, q)
        /\ state' = [st EXCEPT ![Head(q)] = "Running"]
        /\ ready_queue' = Tail(q)
        /\ current_tid' = Head(q)
        /\ spawn_fields(w)
    BY <1>0
<1> DEFINE st == Woken(state, W)
           q  == enqueue_all(ready_queue, w)
<1>2. W \in SUBSET Tids /\ Cardinality(W) = NSPAWN /\ mode = "monitor"
    BY DEF AllocatedSlots, FreeSlots, LaunchCommand
<1>3. NoneRuns(st)
    BY <1>2, WokenTable DEF IInv, TasksOK
<1>4. q \in Queues
    BY <1>2, ScanOrderType, EnqueueAllType DEF IInv, SwitchOK
<1>5. InfoOK' /\ saved' \in [Slots -> Frames]
    BY <1>1, <1>2, SpawnType, KernelAssumption, MaxTasksAssumption DEF IInv
<1>6. /\ CanSwitch(st, q)
      /\ state' = [st EXCEPT ![Head(q)] = "Running"]
      /\ ready_queue' = Tail(q)
      /\ current_tid' = Head(q)
    BY <1>1
<1> HIDE DEF st, q
<1>7. Head(q) \in Tids /\ Tail(q) \in Queues
    BY <1>4, <1>6, MaxTasksAssumption DEF CanSwitch, Queues
<1>8. AtMostCurrent(state)'
    BY <1>3, <1>6, <1>7, TidFacts DEF AtMostCurrent, NoneRuns, States, TaskState
<1>9. SwitchOK'
    BY <1>5, <1>6, <1>7 DEF SwitchOK
<1>10. CpuOK'
    BY <1>6, <1>7, TidFacts DEF LaunchCommand, IInv, CpuOK
<1>11. DeviceOK' /\ mode' # "monitor"
    BY DEF LaunchCommand, IInv, DeviceOK, Modes
<1> QED BY <1>5, <1>8, <1>9, <1>10, <1>11 DEF IInv, TasksOK

LEMMA TableFullStep == ASSUME IInv, LaunchTableFull PROVE IInv'
<1>1. FreeSlots \in SUBSET Tids /\ mode = "monitor" /\ Cardinality(FreeSlots) < NSPAWN
    BY DEF FreeSlots, LaunchTableFull
<1>2. PICK w \in ScanOrders(FreeSlots) :
        /\ state' = Woken(state, FreeSlots)
        /\ ready_queue' = enqueue_all(ready_queue, w)
        /\ spawn_fields(w)
    BY DEF LaunchTableFull
<1>3. Cardinality(FreeSlots) <= NSPAWN
    BY <1>1, ScanOrderType, KernelAssumption, MaxTasksAssumption
<1>4. InfoOK' /\ saved' \in [Slots -> Frames]
    BY <1>1, <1>2, <1>3, SpawnType DEF IInv
<1>5. SwitchOK'
    BY <1>1, <1>2, <1>4, ScanOrderType, EnqueueAllType DEF IInv, SwitchOK
<1>6. NoneRuns(state)'
    <2>1. NoneRuns(Woken(state, FreeSlots))
        BY <1>1, WokenTable DEF IInv, TasksOK
    <2> QED BY <1>2, <2>1 DEF NoneRuns
<1>7. CpuOK' /\ DeviceOK' 
    BY DEF LaunchTableFull, IInv, CpuOK, DeviceOK, cpuVars, devVars
<1> QED BY <1>4, <1>5, <1>6, <1>7, NoneIsAtMost DEF IInv, TasksOK

LEMMA DropStep == ASSUME IInv, drop_to_el0_with PROVE IInv'
<1>1. AtMostCurrent(state)' /\ SwitchOK'
    BY SameTable DEF drop_to_el0_with, IInv, TasksOK
<1>2. UserFrame(current_tid) \in Frames /\ space[current_tid] \in 0 .. SoloSpace
    BY KernelAssumption, MaxTasksAssumption DEF IInv, CpuOK, InfoOK, UserFrame, Frames, SoloSpace
<1>3. CpuOK'
    BY <1>2 DEF drop_to_el0_with, IInv, CpuOK
<1>4. DeviceOK' /\ mode' # "monitor"
    BY DEF drop_to_el0_with, IInv, DeviceOK, Modes, devVars
<1>5. InfoOK'
    BY SameInfo DEF drop_to_el0_with, IInv
<1> QED BY <1>1, <1>3, <1>4, <1>5 DEF IInv, TasksOK

LEMMA StutterStep == ASSUME IInv, UNCHANGED vars PROVE IInv'
<1>1. AtMostCurrent(state)' /\ SwitchOK' /\ (NoneRuns(state) => NoneRuns(state)')
    BY SameTable DEF vars, schedVars, cpuVars, IInv, TasksOK
<1>2. InfoOK' /\ CpuOK' /\ DeviceOK' /\ mode' = mode
    BY DEF vars, schedVars, cpuVars, waitVars, IInv, InfoOK, CpuOK, DeviceOK
<1> QED BY <1>1, <1>2 DEF IInv, TasksOK

(***************************************************************************)
(* The theorems.                                                           *)
(***************************************************************************)
LEMMA InitInv == Init => IInv
<1> SUFFICES ASSUME Init PROVE IInv
    OBVIOUS
<1>1. TasksOK
    BY TidFacts DEF Init, TableInit, TasksOK, AtMostCurrent, NoneRuns, States, TaskState, Empty
<1>2. SwitchOK
    BY TidFacts, MaxTasksAssumption DEF Init, TableInit, SwitchOK, Queues, Frames, KernelFrame, Empty
<1>3. InfoOK
    BY TidFacts, KernelAssumption, MaxTasksAssumption
    DEF Init, TableInit, InfoOK, EmptyMailbox, MSG_MAX, AnyTid, Empty
<1>4. CpuOK
    BY TidFacts, KernelAssumption, MaxTasksAssumption
    DEF Init, TableInit, CpuOK, Frames, KernelFrame, SoloSpace
<1>5. DeviceOK
    BY DEF Init, DeviceOK, Modes
<1> QED BY <1>1, <1>2, <1>3, <1>4, <1>5 DEF IInv

LEMMA StepInv == IInv /\ [Next]_vars => IInv'
<1> SUFFICES ASSUME IInv, [Next]_vars PROVE IInv'
    OBVIOUS
<1>1. ASSUME NEW c \in Calls, handle_svc_from_el0(c) PROVE IInv'
    BY <1>1, WriteStep, YieldStep, SendStep, RecvStep, RecvBlkStep, SendBlkStep,
       SleepStep, WaitStep, ExitStep, UnknownStep DEF handle_svc_from_el0
<1>2. CASE Fault BY <1>2, FaultStep
<1>3. CASE handle_irq BY <1>3, IrqStep
<1>4. CASE NestedException \/ FatalCommand \/ TickCommand BY <1>4, MonitorSteps
<1>5. CASE SoloCommand BY <1>5, SoloStep
<1>6. ASSUME NEW timed \in Demos, LaunchCommand(timed) PROVE IInv'
    BY <1>6, LaunchStep
<1>7. CASE LaunchTableFull BY <1>7, TableFullStep
<1>8. CASE drop_to_el0_with BY <1>8, DropStep
<1>9. CASE UNCHANGED vars BY <1>9, StutterStep
<1> QED
    BY <1>1, <1>2, <1>3, <1>4, <1>5, <1>6, <1>7, <1>8, <1>9 DEF Next, Halted

\* IInv holds throughout every run of the kernel.
THEOREM Invariance == Spec => []IInv
BY InitInv, StepInv, PTL DEF Spec

\* No step, whatever EL0 does, takes a TID, a queue entry, an address space or a
\* frame out of its range: the indexing that task(), save_and_switch and the
\* ring do without a check is safe.
THEOREM TypeCorrect == Spec => []TypeOK
<1>1. IInv => TypeOK
    BY DEF IInv, TasksOK, AtMostCurrent, SwitchOK, InfoOK, States, Queues, TypeOK, TableOK, QueueOK
<1> QED BY <1>1, Invariance, PTL

\* At most one task is Running, and it is the one CURRENT_TID names.
THEOREM OneRunning == Spec => []RunningIsCurrent
<1>1. IInv => RunningIsCurrent
    BY DEF IInv, TasksOK, AtMostCurrent, RunningIsCurrent
<1> QED BY <1>1, Invariance, PTL
=============================================================================
