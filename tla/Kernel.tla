------------------------------- MODULE Kernel -------------------------------
(***************************************************************************)
(* The kernel as EL0 and the monitor see it: the system calls of           *)
(* handle_svc_from_el0, user faults, the timer interrupt, the monitor      *)
(* commands that start an EL0 session, and the way back to the monitor.    *)
(*                                                                         *)
(* Each action is one whole exception, from the vector stub to eret: the   *)
(* handlers run with DAIF set, so nothing interleaves with them.  What     *)
(* interleaves is EL0 code, the timer, and the monitor.  User programs are *)
(* arbitrary: at EL0 any call may come next, except that a frame whose ELR *)
(* was rewound can only issue that call again.                             *)
(***************************************************************************)
EXTENDS Sched

CONSTANTS
    NSPAWN,         \* tasks a session spawns; the demos spawn 2
    Syscalls,       \* the system calls that user programs make
    Lens,           \* buffer lengths that calls pass
    SleepTicks,     \* arguments of sleep
    ExitCodes,      \* values of x0 at an exit
    Buffers,        \* where a buffer may lie: "user", "kernel", "unmapped"
    Demos           \* the demos the monitor may start: TRUE with the timer

AllSyscalls ==
    {"write", "yield", "send", "recv", "recvblk", "sendblk", "sleep", "exit", "wait", "unknown"}

ASSUME KernelAssumption ==
    /\ NSPAWN \in 1 .. MAX_TASKS - 1
    /\ Syscalls \subseteq AllSyscalls
    /\ Lens \subseteq Nat
    /\ SleepTicks \subseteq Nat
    /\ ExitCodes \subseteq Int
    /\ Buffers \subseteq {"user", "kernel", "unmapped"}
    /\ Demos \subseteq BOOLEAN

VARIABLES
    mode,       \* what the core executes: the monitor, a demo's last steps
                \* before eret, EL0 code, park(), or a kernel frame that eret
                \* resumed on the wrong stack
    oops,       \* OOPS, as the next exception finds it
    preempt,    \* PREEMPT
    timer,      \* the virtual timer is armed and re-armed
    irq         \* DAIF.I is clear at EL1 (at EL0 it always is)

vars == <<schedVars, mode, oops, preempt, timer, irq>>
devVars == <<oops, preempt, timer, irq>>
infoVars == <<mailbox, waitVars, exit_code, space>>

Modes == {"monitor", "launch", "el0", "parked", "wild"}

SoloSpace == NSPAWN + 1         \* USER_TABLES: the address space of el0 and el0fault

\* The calls EL0 may issue.
AnyTid == 0 .. MAX_TASKS
AnyCall ==
    [sys : {"write"}, a : {1, 2}, n : Lens \cup {257}, buf : Buffers]
      \cup [sys : {"send", "sendblk"}, a : AnyTid, n : Lens, buf : Buffers]
      \cup [sys : {"recv", "recvblk"}, a : {0}, n : Lens, buf : Buffers]
      \cup [sys : {"sleep"}, a : SleepTicks, n : {0}, buf : {"user"}]
      \cup [sys : {"exit"}, a : ExitCodes, n : {0}, buf : {"user"}]
      \cup [sys : {"wait"}, a : AnyTid, n : {0}, buf : {"user"}]
      \cup [sys : {"yield", "unknown"}, a : {0}, n : {0}, buf : {"user"}]
Calls == {c \in AnyCall : c.sys \in Syscalls}

Init ==
    /\ TableInit
    /\ mode = "monitor"
    /\ oops = FALSE
    /\ preempt = FALSE
    /\ timer = FALSE
    /\ irq = FALSE

(***************************************************************************)
(* Ways out of a handler.                                                  *)
(***************************************************************************)
\* The handler returns to the frame it was entered with.  An svc leaves ELR past
\* itself, so a rewound call is over.
Returned ==
    /\ frame' = [frame EXCEPT !.svc = NoCall]
    /\ UNCHANGED <<ttbr0, sp_el1, mode, devVars>>

\* A call that only sets x0.
Return ==
    /\ Returned
    /\ UNCHANGED <<infoVars, state, saved, ready_queue, current_tid>>

\* The handler returns through another task's frame.
Resumed ==
    /\ mode' = IF frame'.el = 0 THEN "el0" ELSE "wild"
    /\ UNCHANGED devVars

\* preempt_off, condemn_low_half and on_el0_return: the handler never returns,
\* so the oops_exit at the end of exception_dispatch is not reached.
on_el0_return ==
    /\ mode' = "monitor"
    /\ frame' = KernelFrame
    /\ ttbr0' = 0
    /\ oops' = TRUE
    /\ preempt' = FALSE
    /\ timer' = FALSE
    /\ irq' = FALSE
    /\ UNCHANGED sp_el1

\* park(): the core waits for events with everything as it is.
park ==
    /\ mode' = "parked"
    /\ frame' = KernelFrame
    /\ oops' = TRUE
    /\ UNCHANGED <<current_tid, ttbr0, sp_el1, preempt, timer, irq>>

\* EL0 issues call c and exception_dispatch lets it through.
InSvc(c) ==
    /\ mode = "el0"
    /\ ~oops
    /\ frame.svc \in {NoCall, c}

(***************************************************************************)
(* System calls.                                                           *)
(***************************************************************************)
\* is_valid_user_range: the low half passes, mapped or not.
is_valid_user_range(c) == c.buf # "kernel"

\* Reading or writing an unmapped user buffer faults inside the handler, with
\* OOPS set: exception_dispatch takes it for a nested exception.
BufferFault(c) == c.buf = "unmapped" /\ c.n > 0

\* What the calls leave in x0 when they do not block.
write_x0(c) ==
    IF c.a # 1 THEN -1 ELSE IF c.n > 256 THEN -7
    ELSE IF ~is_valid_user_range(c) THEN -14 ELSE c.n
send_x0(c) ==
    IF c.n = 0 THEN 0 ELSE IF ~is_valid_user_range(c) THEN -14 ELSE ipc_send_result(c.a)

Write(c) ==
    /\ InSvc(c)
    /\ c.sys = "write"
    /\ IF write_x0(c) >= 0 /\ BufferFault(c)
       THEN park /\ UNCHANGED <<infoVars, state, saved, ready_queue>>
       ELSE Return

Yield(c) ==
    /\ InSvc(c)
    /\ c.sys = "yield"
    /\ LET f == [frame EXCEPT !.svc = NoCall] IN
       \/ current_tid = 0 /\ Return
       \/ /\ current_tid # 0
          /\ save_and_switch(state, ready_queue, f)
          /\ Resumed
          /\ UNCHANGED infoVars
       \/ /\ current_tid # 0
          /\ save_and_stay(state, ready_queue, f)
          /\ Returned
          /\ UNCHANGED infoVars

\* The part send and sendblk share: c faults, or reaches ipc_send and is
\* delivered, or is answered without a change.
Reaches(c) == c.n > 0 /\ is_valid_user_range(c) /\ ~BufferFault(c)

SendCommon(c) ==
    \/ BufferFault(c) /\ park /\ UNCHANGED <<infoVars, state, saved, ready_queue>>
    \/ /\ Reaches(c)
       /\ ipc_send(c.a, c.n)
       /\ Returned
       /\ UNCHANGED <<waitVars, exit_code, space, saved, current_tid>>
    \/ (c.n = 0 \/ ~is_valid_user_range(c)) /\ Return
    \/ Reaches(c) /\ send_x0(c) = ESRCH /\ Return

Send(c) ==
    /\ InSvc(c)
    /\ c.sys = "send"
    /\ SendCommon(c) \/ (Reaches(c) /\ send_x0(c) = EAGAIN /\ Return)

\* The part recv and recvblk share: reject the buffer, or drain the mailbox.
RecvCommon(c) ==
    \/ (c.n = 0 \/ ~is_valid_user_range(c)) /\ Return
    \/ /\ c.n > 0 /\ is_valid_user_range(c)
       /\ ipc_recv
       /\ IF BufferFault(c) THEN park ELSE Returned /\ UNCHANGED current_tid
       /\ UNCHANGED <<wake_tick, waiting_on, exit_code, space, saved>>

\* A receive with a good buffer that found the mailbox empty.
NothingFor(c) == c.n > 0 /\ is_valid_user_range(c) /\ ipc_recv_empty

Recv(c) ==
    /\ InSvc(c)
    /\ c.sys = "recv"
    /\ RecvCommon(c) \/ (NothingFor(c) /\ Return)

\* Rewinding ELR by 4 before block_and_switch: the task re-issues c when it runs
\* again.  block_and_stay's callers move ELR back and answer -EAGAIN.
Rewound_past_svc(c) == [frame EXCEPT !.svc = NoCall]                            \* mutant
Rewound(c) == [frame EXCEPT !.svc = c]

RecvBlk(c) ==
    /\ InSvc(c)
    /\ c.sys = "recvblk"
    /\ \/ RecvCommon(c)
       \/ /\ NothingFor(c)
          /\ \/ block_and_switch(Rewound(c)) /\ Resumed
             \/ block_and_stay(Rewound(c)) /\ Returned
          /\ UNCHANGED infoVars

SendBlk(c) ==
    /\ InSvc(c)
    /\ c.sys = "sendblk"
    /\ \/ SendCommon(c)
       \/ Reaches(c) /\ send_x0(c) = EAGAIN /\ current_tid = 0 /\ Return
       \/ /\ Reaches(c) /\ send_x0(c) = EAGAIN /\ current_tid # 0
          /\ \/ /\ block_and_switch(Rewound(c))
                /\ Resumed
                /\ blocked_send_dst' = [blocked_send_dst EXCEPT ![current_tid] = c.a]
             \/ /\ block_and_stay(Rewound(c))
                /\ Returned
                /\ blocked_send_dst' = [blocked_send_dst EXCEPT ![current_tid] = 0]
          /\ UNCHANGED <<mailbox, wake_tick, waiting_on, exit_code, space>>

\* sleep sets x0 = 0 first and does not rewind ELR: the wake completes it.
Sleep(c) ==
    /\ InSvc(c)
    /\ c.sys = "sleep"
    /\ \/ (c.a = 0 \/ current_tid = 0) /\ Return
       \/ /\ c.a > 0 /\ current_tid # 0
          /\ LET f == [frame EXCEPT !.svc = NoCall] IN
             \/ /\ block_and_switch(f)
                /\ Resumed
                /\ wake_tick' = [wake_tick EXCEPT ![current_tid] = c.a]
             \/ /\ block_and_stay(f)
                /\ Returned
                /\ wake_tick' = [wake_tick EXCEPT ![current_tid] = 0]
          /\ UNCHANGED <<mailbox, blocked_send_dst, waiting_on, exit_code, space>>

\* wait on a slot that is Exited returns its exit code, whoever used it.
Wait(c) ==
    /\ InSvc(c)
    /\ c.sys = "wait"
    /\ \/ try_wait_result(c.a) \in {"Ok", "ESRCH"} /\ Return
       \/ /\ try_wait_result(c.a) = "EAGAIN"
          /\ \/ /\ block_and_switch(Rewound(c))
                /\ Resumed
                /\ waiting_on' = [waiting_on EXCEPT ![current_tid] = c.a]
             \/ /\ block_and_stay(Rewound(c))
                /\ Returned
                /\ waiting_on' = Cleared(waiting_on, {current_tid})
          /\ UNCHANGED <<mailbox, blocked_send_dst, wake_tick, exit_code, space>>

\* exit and exit_code: mark the task Exited, wake the tasks waiting for it, and
\* switch; with nobody Ready, back to the monitor.
Exit(c) ==
    /\ InSvc(c)
    /\ c.sys = "exit"
    /\ \/ /\ current_tid = 0
          /\ on_el0_return
          /\ UNCHANGED <<infoVars, state, saved, ready_queue, current_tid>>
       \/ /\ current_tid # 0
          /\ LET W  == Waiters(current_tid) \ {current_tid}
                 st == Woken([state EXCEPT ![current_tid] = "Exited"], W) IN
             /\ \E w \in ScanOrders(W) :
                  LET q == enqueue_all(ready_queue, w) IN
                  \/ save_and_switch(st, q, frame) /\ Resumed
                  \/ save_and_stay(st, q, frame) /\ on_el0_return
             /\ waiting_on' = Cleared(waiting_on, W)
          /\ exit_code' = [exit_code EXCEPT ![current_tid] = c.a]
          /\ UNCHANGED <<mailbox, blocked_send_dst, wake_tick, space>>

Unknown(c) == InSvc(c) /\ c.sys = "unknown" /\ Return

handle_svc_from_el0(c) ==
    \/ Write(c) \/ Yield(c) \/ Send(c) \/ Recv(c) \/ RecvBlk(c) \/ SendBlk(c)
    \/ Sleep(c) \/ Wait(c) \/ Exit(c) \/ Unknown(c)

(***************************************************************************)
(* A fault at EL0: kill_task_from_el0.  The current task is in use (see    *)
(* ContextIsCurrent), so its fields are always cleared.                    *)
(***************************************************************************)
Fault ==
    /\ mode = "el0" /\ ~oops /\ frame.svc = NoCall
    /\ \/ /\ current_tid = 0
          /\ on_el0_return
          /\ UNCHANGED <<infoVars, state, saved, ready_queue, current_tid>>
       \/ /\ current_tid # 0
          /\ LET st == [state EXCEPT ![current_tid] = "Exited"] IN
             \/ Load(st, ready_queue, saved) /\ Resumed
             \/ Stay(st, ready_queue, saved) /\ on_el0_return
          /\ mailbox' = [mailbox EXCEPT ![current_tid] = EmptyMailbox]
          /\ blocked_send_dst' = [blocked_send_dst EXCEPT ![current_tid] = 0]
          /\ wake_tick' = [wake_tick EXCEPT ![current_tid] = 0]
          /\ waiting_on' = [waiting_on EXCEPT ![current_tid] = 0]
          /\ exit_code' = [exit_code EXCEPT ![current_tid] = -1]
          /\ UNCHANGED space

(***************************************************************************)
(* The timer interrupt, from EL0 or from EL1 with DAIF.I clear.            *)
(***************************************************************************)
IrqTaken == timer /\ (mode = "el0" \/ (mode \in {"monitor", "launch"} /\ irq))

handle_irq ==
    /\ IrqTaken /\ ~oops
    /\ ElapseTick
    /\ LET st == Woken(state, Sleepers) IN
       \E w \in ScanOrders(Sleepers) :
         LET q == enqueue_all(ready_queue, w) IN
         \/ /\ preempt /\ current_tid # 0
            /\ save_and_switch(st, q, frame)
            /\ Resumed
         \/ /\ preempt /\ current_tid # 0
            /\ save_and_stay(st, q, frame)
            /\ UNCHANGED <<frame, ttbr0, sp_el1, mode, devVars>>
         \/ /\ ~(preempt /\ current_tid # 0)
            /\ state' = st /\ ready_queue' = q
            /\ UNCHANGED <<saved, cpuVars, mode, devVars>>
    /\ UNCHANGED <<mailbox, blocked_send_dst, waiting_on, exit_code, space>>

(***************************************************************************)
(* An exception while OOPS is set: an EL0 trap, an interrupt, or the       *)
(* monitor's own brk and svc commands.  exception_dispatch parks.          *)
(***************************************************************************)
NestedException ==
    /\ oops
    /\ mode \in {"el0", "monitor"} \/ IrqTaken
    /\ park
    /\ UNCHANGED <<infoVars, state, saved, ready_queue>>

(***************************************************************************)
(* The monitor.                                                            *)
(***************************************************************************)
\* The commands that fault on purpose (guard, wx, noexec, low, abort).
FatalCommand ==
    /\ mode = "monitor" /\ ~oops
    /\ park
    /\ UNCHANGED <<infoVars, state, saved, ready_queue>>

\* tick and ticktest: arm the timer and clear DAIF.I, which stays clear.
TickCommand ==
    /\ mode = "monitor"
    /\ timer' = TRUE /\ irq' = TRUE
    /\ UNCHANGED <<schedVars, mode, oops, preempt>>

\* el0 and el0fault: a program without a TCB; CURRENT_TID stays as it was.
SoloCommand ==
    /\ mode = "monitor"
    /\ mode' = "el0"
    /\ frame' = UserFrame(0)
    /\ ttbr0' = SoloSpace
    /\ UNCHANGED <<infoVars, state, saved, ready_queue, current_tid, sp_el1, devVars>>

\* The demos up to the point where CURRENT_TID is set: spawn NSPAWN tasks; a
\* timer demo (preempt, sleep) arms the timer, turns preemption on and, last,
\* clears DAIF.I; dequeue the first task and mark it Running.
LaunchCommand(timed) ==
    /\ mode = "monitor"
    /\ \E W \in AllocatedSlots(NSPAWN) : \E w \in ScanOrders(W) :
         LET st == Woken(state, W)
             q  == enqueue_all(ready_queue, w) IN
         /\ CanSwitch(st, q)
         /\ state' = [st EXCEPT ![Head(q)] = "Running"]
         /\ ready_queue' = Tail(q)
         /\ current_tid' = Head(q)
         /\ spawn_fields(w)
    /\ mode' = "launch"
    /\ IF timed THEN timer' = TRUE /\ preempt' = TRUE /\ irq' = TRUE
                ELSE UNCHANGED <<timer, preempt, irq>>
    /\ UNCHANGED <<frame, ttbr0, sp_el1, oops>>

\* The same with too few free slots: the tasks that were spawned stay Ready and
\* the command returns.
LaunchTableFull ==
    /\ mode = "monitor"
    /\ Cardinality(FreeSlots) < NSPAWN
    /\ \E w \in ScanOrders(FreeSlots) :
         /\ state' = Woken(state, FreeSlots)
         /\ ready_queue' = enqueue_all(ready_queue, w)
         /\ spawn_fields(w)
    /\ UNCHANGED <<cpuVars, mode, devVars>>

\* drop_to_el0_with: TTBR0, SPSR, ELR, SP_EL0, eret; SP_EL1 is left alone.
drop_to_el0_with ==
    /\ mode = "launch"
    /\ mode' = "el0"
    /\ frame' = UserFrame(current_tid)
    /\ ttbr0' = space[current_tid]
    /\ UNCHANGED <<infoVars, state, saved, ready_queue, current_tid, sp_el1, devVars>>

\* park() and a core running off a stale stack never come back.
Halted == mode \in {"parked", "wild"} /\ UNCHANGED vars

Next ==
    \/ \E c \in Calls : handle_svc_from_el0(c)
    \/ Fault
    \/ handle_irq
    \/ NestedException
    \/ FatalCommand
    \/ TickCommand
    \/ SoloCommand
    \/ \E timed \in Demos : LaunchCommand(timed)
    \/ LaunchTableFull
    \/ drop_to_el0_with
    \/ Halted

Spec == Init /\ [][Next]_vars

\* The timer is periodic and EL0 runs with DAIF clear, so a timer interrupt
\* always comes, to handle_irq or to the nested-exception tripwire.
FairSpec == Spec /\ WF_vars(IrqTaken /\ (handle_irq \/ NestedException))

(***************************************************************************)
(* Properties of every run of the kernel.                                  *)
(***************************************************************************)
Frames == [own : Slots, el : {0, 1}, svc : Calls \cup {NoCall}]

TableOK ==
    /\ state \in [Slots -> TaskState]
    /\ mailbox \in [Slots -> [len : 0 .. MSG_MAX, from : Slots]]
    /\ blocked_send_dst \in [Slots -> AnyTid]
    /\ wake_tick \in [Slots -> Nat]
    /\ exit_code \in [Slots -> Int]
    /\ waiting_on \in [Slots -> AnyTid]
    /\ space \in [Slots -> 0 .. NSPAWN]
    /\ saved \in [Slots -> Frames]

QueueOK ==
    /\ ready_queue \in Seq(Tids)
    /\ Len(ready_queue) <= MAX_TASKS

CpuOK ==
    /\ current_tid \in Slots
    /\ frame \in Frames
    /\ ttbr0 \in 0 .. SoloSpace
    /\ sp_el1 \in 0 .. NSPAWN

DeviceOK ==
    /\ mode \in Modes
    /\ oops \in BOOLEAN
    /\ preempt \in BOOLEAN
    /\ timer \in BOOLEAN
    /\ irq \in BOOLEAN

\* Every table entry, queue entry and register holds a value of its kind: the
\* slot indexes the code never checks stay in range, and the ring stays within
\* its MAX_TASKS entries.
TypeOK == TableOK /\ QueueOK /\ CpuOK /\ DeviceOK

\* At most one task is Running, and it is the one CURRENT_TID names, through
\* every yield, block, exit, fault and preemption (sched.rs, TaskState::Running).
RunningIsCurrent == \A t \in Tids : state[t] = "Running" => t = current_tid

\* No wake is lost: a Ready task is in the ready queue, however it became Ready
\* (spawn, yield, preemption or one of the four wakes).
ReadyIsQueued ==
    \A t \in Tids : state[t] = "Ready" => \E i \in DOMAIN ready_queue : ready_queue[i] = t

\* At most one entry of the queue is stale: it names a task that is not Ready,
\* or one that another entry names.  The ring is one longer than there are
\* tasks, so enqueue never refuses, and its callers may ignore the answer.
AtMostOneStale ==
    Len(ready_queue) <= Cardinality({t \in Tids : state[t] = "Ready"}) + 1

\* EL0 runs on the registers, and in the address space, of the task that
\* CURRENT_TID names, and that task exists: a handler that looks it up finds it.
\* It traps on its own kernel stack; only the task that a session starts with
\* stays on the boot stack, until the first switch.
ContextIsCurrent ==
    mode = "el0" /\ ~oops =>
        /\ frame.own = current_tid
        /\ current_tid # 0 =>
              /\ state[current_tid] # "Exited"
              /\ ttbr0 = space[current_tid]
              /\ sp_el1 \in {0, space[current_tid]}

\* A Blocked task that will re-issue recvblk has an empty mailbox, one that will
\* re-issue sendblk has a full mailbox to wait for and is on record as waiting
\* for it, and one that will re-issue wait is on record as waiting.  Otherwise
\* the wake it sleeps for has already happened, or never will.
SleepsOnACondition ==
    ~oops => \A t \in Tids \ {current_tid} : state[t] = "Blocked" =>
        LET c == saved[t].svc IN
        /\ c.sys = "recvblk" => mailbox[t].len = 0
        /\ c.sys = "sendblk" => /\ blocked_send_dst[t] = c.a
                                /\ state[c.a] # "Exited" => mailbox[c.a].len > 0
        /\ c.sys = "wait" => waiting_on[t] = c.a

\* A trap, a fault or a tick takes nothing from the tasks that are not on the
\* CPU: their saved frames stay, and all that may happen to them is a wake
\* (Blocked to Ready) or getting the CPU.
OthersKeepTheirPlace ==
    [][mode = "el0" => \A t \in Tids \ {current_tid} :
         /\ saved'[t] = saved[t]
         /\ \/ state'[t] = state[t]
            \/ state[t] = "Blocked" /\ state'[t] = "Ready"
            \/ state[t] \in {"Ready", "Blocked"} /\ state'[t] = "Running" /\ current_tid' = t]_vars

\* Nobody is overtaken: whatever is woken, spawned, preempted and killed, a Ready
\* task gets the CPU or its entry in the queue does not move back, and each
\* preempting tick moves it forward. So it waits for one tick more, at most, than
\* there were entries in front of it: the preemption is round robin.
NobodyOvertakes ==
    [][\A i \in DOMAIN ready_queue :
         LET t == ready_queue[i] IN
         state[t] = "Ready" /\ t # current_tid =>
           \/ state'[t] = "Running" /\ current_tid' = t
           \/ /\ state'[t] = "Ready"
              /\ \E j \in DOMAIN ready_queue' :
                   /\ ready_queue'[j] = t
                   /\ j <= i
                   /\ handle_irq /\ preempt /\ current_tid # 0 => j < i]_vars

\* Nobody oversleeps: whatever the others do, a task that sleeps is woken or has
\* no longer to sleep than before, each tick makes it less, and the tick that
\* ends it wakes the task.
NobodyOversleeps ==
    [][\A t \in Tids \ {current_tid} : state[t] = "Blocked" /\ wake_tick[t] > 0 =>
         \/ state'[t] # "Blocked"
         \/ /\ 0 < wake_tick'[t] /\ wake_tick'[t] <= wake_tick[t]
            /\ handle_irq => wake_tick'[t] < wake_tick[t]]_vars

\* Message passing as its users see it (Mailbox.tla): what a live task has been
\* sent stays until that task receives it or dies, one message at a time.
Box == INSTANCE Mailbox WITH
    Boxes <- Tids,
    None  <- EmptyMailbox,
    box   <- [t \in Tids |-> mailbox[t]],
    live  <- {t \in Tids : state[t] # "Exited"},
    cpu   <- current_tid
MailboxSpec == Box!Spec

\* Preemption is round robin: a Ready task gets the CPU however long the others
\* spin, unless the session ends.
ReadyRuns ==
    \A t \in Tids : (mode = "el0" /\ preempt /\ state[t] = "Ready")
                      ~> (state[t] # "Ready" \/ mode # "el0")

\* A task that sleeps while the timer runs is woken.
SleeperWakes ==
    \A t \in Tids : (mode = "el0" /\ timer /\ t # current_tid /\ state[t] = "Blocked" /\ wake_tick[t] > 0)
                      ~> (state[t] # "Blocked" \/ mode # "el0")

(***************************************************************************)
(* What the comments say and the code does not do: each of these fails in  *)
(* a run of its own.                                                       *)
(***************************************************************************)
\* "Recoverable faults flip the flag back on exit": OOPS is clear whenever the
\* monitor reads commands.
OopsClearInMonitor == mode = "monitor" => ~oops

\* Blocked: "the thing it waits for will wake it back to Ready", and in wait "the
\* parent blocks until this task exits".  Every Blocked task off the CPU waits for
\* a message, a full mailbox, a tick, or a child that is still there.
BlockedWaitsForSomething ==
    \A t \in Tids \ {current_tid} : state[t] = "Blocked" =>
        \/ saved[t].svc.sys = "recvblk"
        \/ blocked_send_dst[t] # 0 \/ wake_tick[t] # 0
        \/ waiting_on[t] # 0 /\ state[waiting_on[t]] # "Exited"

\* The frame a tick saves "is the user's EL0 register state, since the timer
\* interrupted EL0".
SavedFrameIsUsers == \A t \in Tids : state[t] # "Exited" => saved[t].el = 0
=============================================================================
