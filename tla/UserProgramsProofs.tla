------------------------- MODULE UserProgramsProofs -------------------------
(***************************************************************************)
(* The embedded programs run on Kernel: no program counter ever leaves its *)
(* program, so each step of a demo is a step that Kernel allows, and what  *)
(* is proved of Kernel holds of the demos, for every MAX_TASKS. And each   *)
(* demo without the timer follows its script, call by call.                *)
(***************************************************************************)
EXTENDS UserPrograms, KernelPromisesProofs

(***************************************************************************)
(* The programs.                                                           *)
(***************************************************************************)
Endings == {"exit", "fault", "spin"}

\* Execution never runs past the end of p.
Closed(p) == \A k \in DOMAIN p : k + 1 \in DOMAIN p \/ p[k].call.sys \in Endings

\* The n instructions of p, the last of which is the end of its task.
EndsAt(p, n) == n \in Nat \ {0} /\ DOMAIN p = 1 .. n /\ p[n].call.sys \in Endings

LEMMA EndsClosed ==
    ASSUME NEW p, NEW n, EndsAt(p, n)
    PROVE  Closed(p) /\ 1 \in DOMAIN p
BY DEF Closed, EndsAt

LEMMA EndingCalls ==
    /\ \A n \in Nat : Exits(n).call.sys \in Endings
    /\ Store0.call.sys \in Endings
    /\ Spin.call.sys \in Endings
BY DEF Exits, Store0, Spin, Svc, Endings

Programs == {
    USER_PROGRAM, USER_FAULT_PROGRAM, TASK_B_PROGRAM, TASK_PREEMPT_A,
    TASK_PREEMPT_B, TASK_IPC_SENDER, TASK_IPC_RECEIVER, TASK_BLKIPC_SENDER,
    TASK_BLKIPC_RECEIVER, TASK_SENDBLK_SENDER, TASK_SENDBLK_RECEIVER, TASK_FAULTKILL_A,
    TASK_FAULTKILL_B, TASK_SLEEP_A, TASK_SLEEP_B, TASK_WAIT_PARENT,
    TASK_WAIT_CHILD}

LEMMA ProgramsClosed == \A p \in Programs : Closed(p) /\ 1 \in DOMAIN p
<1>1. Closed(USER_PROGRAM) /\ 1 \in DOMAIN USER_PROGRAM
    <2>1. DOMAIN USER_PROGRAM = 1 .. 4 /\ USER_PROGRAM[4] = Exits(17)
        BY DEF USER_PROGRAM
    <2>2. EndsAt(USER_PROGRAM, 4)
        BY <2>1, EndingCalls DEF EndsAt
    <2> QED BY <2>2, EndsClosed
<1>2. Closed(USER_FAULT_PROGRAM) /\ 1 \in DOMAIN USER_FAULT_PROGRAM
    <2>1. DOMAIN USER_FAULT_PROGRAM = 1 .. 1 /\ USER_FAULT_PROGRAM[1] = Store0
        BY DEF USER_FAULT_PROGRAM
    <2>2. EndsAt(USER_FAULT_PROGRAM, 1)
        BY <2>1, EndingCalls DEF EndsAt
    <2> QED BY <2>2, EndsClosed
<1>3. Closed(TASK_B_PROGRAM) /\ 1 \in DOMAIN TASK_B_PROGRAM
    <2>1. DOMAIN TASK_B_PROGRAM = 1 .. 4 /\ TASK_B_PROGRAM[4] = Exits(8)
        BY DEF TASK_B_PROGRAM
    <2>2. EndsAt(TASK_B_PROGRAM, 4)
        BY <2>1, EndingCalls DEF EndsAt
    <2> QED BY <2>2, EndsClosed
<1>4. Closed(TASK_PREEMPT_A) /\ 1 \in DOMAIN TASK_PREEMPT_A
    <2>1. DOMAIN TASK_PREEMPT_A = 1 .. 2 /\ TASK_PREEMPT_A[2] = Spin
        BY DEF TASK_PREEMPT_A
    <2>2. EndsAt(TASK_PREEMPT_A, 2)
        BY <2>1, EndingCalls DEF EndsAt
    <2> QED BY <2>2, EndsClosed
<1>5. Closed(TASK_PREEMPT_B) /\ 1 \in DOMAIN TASK_PREEMPT_B
    <2>1. DOMAIN TASK_PREEMPT_B = 1 .. 2 /\ TASK_PREEMPT_B[2] = Spin
        BY DEF TASK_PREEMPT_B
    <2>2. EndsAt(TASK_PREEMPT_B, 2)
        BY <2>1, EndingCalls DEF EndsAt
    <2> QED BY <2>2, EndsClosed
<1>6. Closed(TASK_IPC_SENDER) /\ 1 \in DOMAIN TASK_IPC_SENDER
    <2>1. DOMAIN TASK_IPC_SENDER = 1 .. 5 /\ TASK_IPC_SENDER[5] = Exits(8)
        BY DEF TASK_IPC_SENDER
    <2>2. EndsAt(TASK_IPC_SENDER, 5)
        BY <2>1, EndingCalls DEF EndsAt
    <2> QED BY <2>2, EndsClosed
<1>7. Closed(TASK_IPC_RECEIVER) /\ 1 \in DOMAIN TASK_IPC_RECEIVER
    <2>1. DOMAIN TASK_IPC_RECEIVER = 1 .. 5 /\ TASK_IPC_RECEIVER[5] = Exits(13)
        BY DEF TASK_IPC_RECEIVER
    <2>2. EndsAt(TASK_IPC_RECEIVER, 5)
        BY <2>1, EndingCalls DEF EndsAt
    <2> QED BY <2>2, EndsClosed
<1>8. Closed(TASK_BLKIPC_SENDER) /\ 1 \in DOMAIN TASK_BLKIPC_SENDER
    <2>1. DOMAIN TASK_BLKIPC_SENDER = 1 .. 5 /\ TASK_BLKIPC_SENDER[5] = Exits(9)
        BY DEF TASK_BLKIPC_SENDER
    <2>2. EndsAt(TASK_BLKIPC_SENDER, 5)
        BY <2>1, EndingCalls DEF EndsAt
    <2> QED BY <2>2, EndsClosed
<1>9. Closed(TASK_BLKIPC_RECEIVER) /\ 1 \in DOMAIN TASK_BLKIPC_RECEIVER
    <2>1. DOMAIN TASK_BLKIPC_RECEIVER = 1 .. 4 /\ TASK_BLKIPC_RECEIVER[4] = Exits(10)
        BY DEF TASK_BLKIPC_RECEIVER
    <2>2. EndsAt(TASK_BLKIPC_RECEIVER, 4)
        BY <2>1, EndingCalls DEF EndsAt
    <2> QED BY <2>2, EndsClosed
<1>10. Closed(TASK_SENDBLK_SENDER) /\ 1 \in DOMAIN TASK_SENDBLK_SENDER
    <2>1. DOMAIN TASK_SENDBLK_SENDER = 1 .. 5 /\ TASK_SENDBLK_SENDER[5] = Exits(10)
        BY DEF TASK_SENDBLK_SENDER
    <2>2. EndsAt(TASK_SENDBLK_SENDER, 5)
        BY <2>1, EndingCalls DEF EndsAt
    <2> QED BY <2>2, EndsClosed
<1>11. Closed(TASK_SENDBLK_RECEIVER) /\ 1 \in DOMAIN TASK_SENDBLK_RECEIVER
    <2>1. DOMAIN TASK_SENDBLK_RECEIVER = 1 .. 6 /\ TASK_SENDBLK_RECEIVER[6] = Exits(9)
        BY DEF TASK_SENDBLK_RECEIVER
    <2>2. EndsAt(TASK_SENDBLK_RECEIVER, 6)
        BY <2>1, EndingCalls DEF EndsAt
    <2> QED BY <2>2, EndsClosed
<1>12. Closed(TASK_FAULTKILL_A) /\ 1 \in DOMAIN TASK_FAULTKILL_A
    <2>1. DOMAIN TASK_FAULTKILL_A = 1 .. 2 /\ TASK_FAULTKILL_A[2] = Store0
        BY DEF TASK_FAULTKILL_A
    <2>2. EndsAt(TASK_FAULTKILL_A, 2)
        BY <2>1, EndingCalls DEF EndsAt
    <2> QED BY <2>2, EndsClosed
<1>13. Closed(TASK_FAULTKILL_B) /\ 1 \in DOMAIN TASK_FAULTKILL_B
    <2>1. DOMAIN TASK_FAULTKILL_B = 1 .. 2 /\ TASK_FAULTKILL_B[2] = Exits(7)
        BY DEF TASK_FAULTKILL_B
    <2>2. EndsAt(TASK_FAULTKILL_B, 2)
        BY <2>1, EndingCalls DEF EndsAt
    <2> QED BY <2>2, EndsClosed
<1>14. Closed(TASK_SLEEP_A) /\ 1 \in DOMAIN TASK_SLEEP_A
    <2>1. DOMAIN TASK_SLEEP_A = 1 .. 4 /\ TASK_SLEEP_A[4] = Exits(9)
        BY DEF TASK_SLEEP_A
    <2>2. EndsAt(TASK_SLEEP_A, 4)
        BY <2>1, EndingCalls DEF EndsAt
    <2> QED BY <2>2, EndsClosed
<1>15. Closed(TASK_SLEEP_B) /\ 1 \in DOMAIN TASK_SLEEP_B
    <2>1. DOMAIN TASK_SLEEP_B = 1 .. 2 /\ TASK_SLEEP_B[2] = Spin
        BY DEF TASK_SLEEP_B
    <2>2. EndsAt(TASK_SLEEP_B, 2)
        BY <2>1, EndingCalls DEF EndsAt
    <2> QED BY <2>2, EndsClosed
<1>16. Closed(TASK_WAIT_PARENT) /\ 1 \in DOMAIN TASK_WAIT_PARENT
    <2>1. DOMAIN TASK_WAIT_PARENT = 1 .. 4 /\ TASK_WAIT_PARENT[4] = Exits(10)
        BY DEF TASK_WAIT_PARENT
    <2>2. EndsAt(TASK_WAIT_PARENT, 4)
        BY <2>1, EndingCalls DEF EndsAt
    <2> QED BY <2>2, EndsClosed
<1>17. Closed(TASK_WAIT_CHILD) /\ 1 \in DOMAIN TASK_WAIT_CHILD
    <2>1. DOMAIN TASK_WAIT_CHILD = 1 .. 4 /\ TASK_WAIT_CHILD[4] = Exits(42)
        BY DEF TASK_WAIT_CHILD
    <2>2. EndsAt(TASK_WAIT_CHILD, 4)
        BY <2>1, EndingCalls DEF EndsAt
    <2> QED BY <2>2, EndsClosed
<1> QED
    BY <1>1, <1>2, <1>3, <1>4, <1>5, <1>6, <1>7, <1>8, <1>9, <1>10, <1>11, <1>12, <1>13,
       <1>14, <1>15, <1>16, <1>17
    DEF Programs

LEMMA DemoPrograms ==
    /\ \A d \in TaskDemos : d.a \in Programs /\ d.b \in Programs
    /\ \A d \in SoloDemos : d.a \in Programs /\ d.b = <<>>
BY DEF TaskDemos, TimerDemos, SoloDemos, Programs, scheduled, ipc, blkipc, sendblk, faultkill,
       wait, preempt_demo, sleep, el0, el0fault

(***************************************************************************)
(* Where the program counters are.                                         *)
(***************************************************************************)
\* Until OOPS is set, whoever can run next is inside its program.
ProgInv ==
    /\ demo \in AllDemos
    /\ DOMAIN pc = Slots
    /\ ~oops /\ mode \in {"launch", "el0"} =>
         /\ \A t \in Tids : state[t] # "Exited" => pc[t] \in DOMAIN Program(space[t])
         /\ current_tid = 0 => pc[0] \in DOMAIN Program(ttbr0)

KInv == IInv /\ QueueInv /\ ContextInv /\ SleepInv

LEMMA ProgramIs ==
    ASSUME demo \in AllDemos, NEW slot
    PROVE  /\ Program(slot) \in {demo.a, demo.b} /\ Closed(Program(slot))
           /\ slot # 2 \/ demo \in TaskDemos => 1 \in DOMAIN Program(slot)
           /\ \A k \in DOMAIN Program(slot) :
                \/ Program(slot)[k].call \in Calls
                \/ Program(slot)[k].call.sys \in {"fault", "spin"}
<1>1. Closed(<<>>)
    BY DEF Closed
<1>2. Program(slot) \in {demo.a, demo.b}
    BY DEF Program
<1>3. Closed(Program(slot))
    BY <1>1, <1>2, DemoPrograms, ProgramsClosed DEF AllDemos
<1>4. slot # 2 \/ demo \in TaskDemos => 1 \in DOMAIN Program(slot)
    BY DemoPrograms, ProgramsClosed DEF AllDemos, Program
<1> QED BY <1>2, <1>3, <1>4, UserProgramsAssumption

\* The instruction that EL0 is at.
LEMMA FetchesOwn ==
    ASSUME KInv, ProgInv, mode = "el0", ~oops
    PROVE  /\ frame.own = current_tid /\ current_tid \in Slots
           /\ pc[current_tid] \in DOMAIN Program(ttbr0)
           /\ current_tid # 0 => ttbr0 = space[current_tid]
           /\ Fetched = Program(ttbr0)[pc[current_tid]]
           /\ Fetched.call \in Calls \/ Fetched.call.sys \in {"fault", "spin"}
<1>1. frame.own = current_tid /\ (current_tid # 0 => ttbr0 = space[current_tid])
    BY DEF KInv, ContextInv
<1>2. current_tid \in Slots /\ (current_tid # 0 => current_tid \in Tids)
    BY TidFacts DEF KInv, IInv, CpuOK
<1>3. pc[current_tid] \in DOMAIN Program(ttbr0)
    BY <1>1, <1>2 DEF ProgInv, KInv, QueueInv, InSession
<1> QED BY <1>1, <1>2, <1>3, ProgramIs DEF Fetched, ProgInv

\* So each step of a program is a call or a fault that Kernel allows.
LEMMA UserStepIsKernels ==
    ASSUME KInv, ProgInv, UserStep
    PROVE  /\ mode = "el0" /\ ~oops
           /\ \/ Fetched.call \in Calls /\ handle_svc_from_el0(Fetched.call)
              \/ Fetched.call.sys = "fault" /\ Fault
<1>1. mode = "el0"
    BY DEF UserStep
<1>2. \/ handle_svc_from_el0(Fetched.call)
      \/ Fetched.call.sys = "fault" /\ Fault
    BY DEF UserStep
<1>3. CASE handle_svc_from_el0(Fetched.call)
    <2>1. ~oops /\ Fetched.call.sys \notin {"fault", "spin"}
        BY <1>3 DEF handle_svc_from_el0, InSvc, Write, Yield, Send, Recv, RecvBlk, SendBlk,
                    Sleep, Wait, Exit, Unknown
    <2> QED BY <1>1, <1>3, <2>1, FetchesOwn
<1>4. CASE Fetched.call.sys = "fault" /\ Fault
    BY <1>1, <1>4 DEF Fault
<1> QED BY <1>2, <1>3, <1>4

\* Who can run after a scheduling step could run before.
LEMMA Survivors ==
    ASSUME IInv, QueueInv, ~oops, mode \in {"el0", "launch"}, SchedStep, ~oops'
    PROVE  /\ \A t \in Tids : state'[t] # "Exited" => state[t] # "Exited"
           /\ current_tid' = 0 => current_tid = 0 /\ ttbr0' = ttbr0
<1>1. ASSUME NEW W, Wakes(W), Kept \/ park \/ (current_tid = 0 /\ on_el0_return)
      PROVE  /\ \A t \in Tids : state'[t] # "Exited" => state[t] # "Exited"
             /\ current_tid' = 0 => current_tid = 0 /\ ttbr0' = ttbr0
    <2>1. Kept
        BY <1>1 DEF park, on_el0_return
    <2> QED BY <1>1, <2>1, WakesTable DEF Kept
<1>2. ASSUME NEW x, NEW W, NEW f, Switches(x, W, f)
      PROVE  /\ \A t \in Tids : state'[t] # "Exited" => state[t] # "Exited"
             /\ current_tid' = 0 => current_tid = 0 /\ ttbr0' = ttbr0
    <2>1. current_tid' \in Tids
        BY <1>2, SwitchesTable
    <2>2. Live' \subseteq Live
        BY <1>2, SchedLive
    <2> QED BY <2>1, <2>2, TidFacts DEF Live
<1>3. ASSUME NEW x, NEW W, NEW f, Stays(x, W, f)
      PROVE  /\ \A t \in Tids : state'[t] # "Exited" => state[t] # "Exited"
             /\ current_tid' = 0 => current_tid = 0 /\ ttbr0' = ttbr0
    <2>1. current_tid' = current_tid /\ current_tid # 0
        BY <1>3, StaysTable DEF Stays, Leaves
    <2>2. Live' \subseteq Live
        BY <1>3, SchedLive
    <2> QED BY <2>1, <2>2 DEF Live
<1> QED BY <1>1, <1>2, <1>3 DEF SchedStep

\* Exit and a fault are the end of the task.
LEMMA EndOfTask ==
    ASSUME IInv, Fault \/ (\E c \in Calls : Exit(c)), ~oops'
    PROVE  current_tid # 0 /\ current_tid \in Tids /\ state'[current_tid] = "Exited"
<1>1. current_tid # 0
    BY DEF Fault, Exit, on_el0_return
<1>2. \E W : Switches("Exited", W, frame) \/ Stays("Exited", W, frame)
    BY <1>1, ExitLeaves, FaultLeaves DEF Fault
<1>3. PICK W : Switches("Exited", W, frame) \/ Stays("Exited", W, frame)
    BY <1>2
<1>4. CASE Switches("Exited", W, frame)
    BY <1>1, <1>4, SwitchesTable
<1>5. CASE Stays("Exited", W, frame)
    BY <1>1, <1>5, StaysTable
<1> QED BY <1>3, <1>4, <1>5

LEMMA KStep == KInv /\ [Next]_vars => KInv'
BY StepInv, QueueStep, ContextStep, SleepStepInv DEF KInv

\* A program counter that moves on stays in its program.
LEMMA UserProg ==
    ASSUME KInv, KInv', ProgInv, UserStep
    PROVE  [Next]_vars /\ ProgInv'
<1> DEFINE t == current_tid
           p == Program(ttbr0)
<1>1. /\ mode = "el0" /\ ~oops
      /\ \/ Fetched.call \in Calls /\ handle_svc_from_el0(Fetched.call)
         \/ Fetched.call.sys = "fault" /\ Fault
    BY UserStepIsKernels
<1>2. [Next]_vars
    BY <1>1 DEF Next
<1>3. SchedStep /\ space' = space
    BY <1>1, CallSchedules, FaultSchedules DEF KInv
<1>4. /\ frame.own = t /\ t \in Slots /\ pc[t] \in DOMAIN p /\ Closed(p)
      /\ t # 0 => ttbr0 = space[t]
      /\ Fetched = p[pc[t]]
    BY <1>1, FetchesOwn, ProgramIs DEF ProgInv
<1>5. demo' = demo /\ pc' \in {pc, [pc EXCEPT ![t] = pc[t] + 1]}
    BY <1>4 DEF UserStep
<1>6. DOMAIN pc' = Slots /\ (\A u \in Slots \ {t} : pc'[u] = pc[u]) /\ pc'[t] \in {pc[t], pc[t] + 1}
    BY <1>4, <1>5 DEF ProgInv
<1>7. ASSUME ~oops' PROVE /\ \A u \in Tids : state'[u] # "Exited" => pc'[u] \in DOMAIN Program(space[u])
                          /\ current_tid' = 0 => pc'[0] \in DOMAIN Program(ttbr0')
    <2>1. /\ \A u \in Tids : state'[u] # "Exited" => state[u] # "Exited"
          /\ current_tid' = 0 => t = 0 /\ ttbr0' = ttbr0
        BY <1>1, <1>3, <1>7, Survivors DEF KInv
    <2>2. CASE Fetched.call.sys \in Endings
        <3>1. Fault \/ \E c \in Calls : Exit(c)
            BY <1>1, <2>2 DEF Endings, handle_svc_from_el0, Write, Yield, Send, Recv, RecvBlk,
                              SendBlk, Sleep, Wait, Unknown
        <3>2. t # 0 /\ state'[t] = "Exited"
            BY <1>7, <3>1, EndOfTask DEF KInv
        <3> QED BY <1>1, <1>6, <2>1, <3>2, TidFacts DEF ProgInv
    <2>3. CASE Fetched.call.sys \notin Endings
        <3>1. pc'[t] \in DOMAIN p
            BY <1>4, <1>6, <2>3 DEF Closed
        <3>2. \A u \in Tids : state'[u] # "Exited" => pc'[u] \in DOMAIN Program(space[u])
            BY <1>1, <1>4, <1>6, <2>1, <3>1, TidFacts DEF ProgInv
        <3> QED BY <2>1, <3>1, <3>2
    <2> QED BY <2>2, <2>3
<1>8. demo' \in AllDemos /\ \A s : Program(s)' = Program(s)
    BY <1>5 DEF ProgInv, Program
<1>9. /\ ~oops' => \A u \in Tids : state'[u] # "Exited" => pc'[u] \in DOMAIN Program(space[u])'
      /\ ~oops' /\ current_tid' = 0 => pc'[0] \in DOMAIN Program(ttbr0)'
    BY <1>3, <1>5, <1>7 DEF Program
<1> QED BY <1>2, <1>6, <1>8, <1>9 DEF ProgInv

\* A launch starts its tasks at their first instruction.
LEMMA LaunchProg ==
    ASSUME KInv, KInv', ProgInv, NEW d \in TaskDemos, LaunchDemo(d)
    PROVE  [Next]_vars /\ ProgInv'
<1>1. (d \in TimerDemos) \in Demos
    BY UserProgramsAssumption
<1>2. LaunchCommand(d \in TimerDemos) /\ Starts(d)
    BY DEF LaunchDemo
<1>3. [Next]_vars
    BY <1>1, <1>2 DEF Next
<1>4. /\ demo' = d /\ d \in AllDemos /\ DOMAIN pc' = Slots
      /\ mode = "monitor" /\ mode' = "launch" /\ oops' = oops
    BY <1>2 DEF LaunchCommand, Starts, AllDemos
<1>5. ASSUME ~oops PROVE \A t \in Tids : pc'[t] = 1
    <2>1. \A t \in Tids : state[t] = "Exited"
        BY <1>4, <1>5 DEF KInv, SleepInv
    <2> QED BY <1>2, <2>1, TidFacts DEF Starts
<1>6. \A s : 1 \in DOMAIN Program(s)'
    BY <1>4, DemoPrograms, ProgramsClosed DEF Program
<1>7. current_tid' # 0
    BY <1>4 DEF KInv, QueueInv
<1> QED BY <1>3, <1>4, <1>5, <1>6, <1>7 DEF ProgInv

LEMMA SoloProg ==
    ASSUME KInv, ProgInv, NEW d \in SoloDemos, SoloDemo(d)
    PROVE  [Next]_vars /\ ProgInv'
<1>1. SoloCommand /\ Starts(d)
    BY DEF SoloDemo
<1>2. [Next]_vars
    BY <1>1 DEF Next
<1>3. /\ demo' = d /\ d \in AllDemos /\ DOMAIN pc' = Slots
      /\ mode = "monitor" /\ oops' = oops /\ state' = state /\ ttbr0' = 3
    BY <1>1, UserProgramsAssumption DEF SoloCommand, Starts, AllDemos, devVars, SoloSpace
<1>4. 1 \in DOMAIN Program(ttbr0)'
    BY <1>3, DemoPrograms, ProgramsClosed DEF Program
<1>5. pc'[0] = 1
    BY <1>1, TidFacts DEF Starts, KInv, IInv, TasksOK, AtMostCurrent
<1>6. ~oops => \A t \in Tids : state'[t] = "Exited"
    BY <1>3 DEF KInv, SleepInv
<1> QED BY <1>2, <1>3, <1>4, <1>5, <1>6 DEF ProgInv

\* The rest leaves the programs alone.
LEMMA OthersProg ==
    ASSUME KInv, ProgInv, UNCHANGED progVars,
           \/ handle_irq \/ NestedTrap \/ FatalCommand \/ TickCommand \/ drop_to_el0_with
           \/ Halted \/ UNCHANGED vars
    PROVE  [Next]_vars /\ ProgInv'
<1>1. [Next]_vars
    BY DEF Next, NestedTrap
<1> SUFFICES ProgInv'
    BY <1>1
<1>2. demo' = demo /\ pc' = pc
    BY DEF progVars
<1>3. \A s : Program(s)' = Program(s)
    BY <1>2 DEF Program
<1>4. CASE handle_irq
    <2>1. SchedStep /\ space' = space /\ ~oops /\ mode \in {"monitor", "launch", "el0"}
        BY <1>4, IrqSchedules DEF KInv, handle_irq, IrqTaken
    <2>2. CASE mode = "monitor"
        <3>1. current_tid = 0
            BY <2>1, <2>2 DEF KInv, QueueInv
        <3>2. mode' = "monitor"
            BY <1>4, <2>2, <3>1 DEF handle_irq
        <3> QED BY <1>2, <3>2 DEF ProgInv
    <2>3. CASE mode # "monitor"
        <3>1. ASSUME ~oops' PROVE /\ \A t \in Tids : state'[t] # "Exited" => state[t] # "Exited"
                                  /\ current_tid' = 0 => current_tid = 0 /\ ttbr0' = ttbr0
            BY <2>1, <2>3, <3>1, Survivors DEF KInv
        <3>2. ASSUME ~oops' PROVE /\ \A t \in Tids : state'[t] # "Exited" =>
                                       pc'[t] \in DOMAIN Program(space[t])'
                                  /\ current_tid' = 0 => pc'[0] \in DOMAIN Program(ttbr0)'
            BY <1>2, <2>1, <2>3, <3>1, <3>2 DEF ProgInv, Program
        <3> QED BY <1>2, <3>2 DEF ProgInv
    <2> QED BY <2>2, <2>3
<1>5. CASE NestedTrap \/ FatalCommand
    BY <1>2, <1>5 DEF NestedTrap, NestedException, FatalCommand, park, ProgInv
<1>6. CASE TickCommand
    BY <1>2, <1>6 DEF TickCommand, ProgInv
<1>7. CASE drop_to_el0_with
    <2>1. /\ mode = "launch" /\ UNCHANGED <<state, space, current_tid, oops>> /\ current_tid # 0
        BY <1>7 DEF drop_to_el0_with, infoVars, devVars, KInv, QueueInv
    <2> QED BY <1>2, <2>1 DEF ProgInv, Program
<1>8. CASE Halted \/ UNCHANGED vars
    <2>1. UNCHANGED <<mode, oops, state, space, current_tid, ttbr0>>
        BY <1>8 DEF Halted, vars, schedVars, cpuVars
    <2> QED BY <1>2, <2>1 DEF ProgInv, Program
<1> QED BY <1>4, <1>5, <1>6, <1>7, <1>8

LEMMA DemoStep == KInv /\ ProgInv /\ [DemoNext]_allVars => [Next]_vars /\ KInv' /\ ProgInv'
<1> SUFFICES ASSUME KInv, ProgInv, [DemoNext]_allVars
             PROVE  [Next]_vars /\ KInv' /\ ProgInv'
    OBVIOUS
<1>1. CASE UserStep
    <2>1. [Next]_vars
        BY <1>1, UserStepIsKernels DEF Next
    <2> QED BY <1>1, <2>1, KStep, UserProg
<1>2. ASSUME NEW d \in TaskDemos, LaunchDemo(d) PROVE [Next]_vars /\ KInv' /\ ProgInv'
    <2>1. (d \in TimerDemos) \in Demos /\ LaunchCommand(d \in TimerDemos)
        BY <1>2, UserProgramsAssumption DEF LaunchDemo
    <2>2. [Next]_vars
        BY <2>1 DEF Next
    <2> QED BY <1>2, <2>2, KStep, LaunchProg
<1>3. ASSUME NEW d \in SoloDemos, SoloDemo(d) PROVE [Next]_vars /\ KInv' /\ ProgInv'
    BY <1>3, SoloProg, KStep
<1>4. CASE /\ handle_irq \/ NestedTrap \/ FatalCommand \/ TickCommand \/ drop_to_el0_with \/ Halted
           /\ UNCHANGED progVars
    BY <1>4, OthersProg, KStep
<1>5. CASE UNCHANGED allVars
    <2>1. UNCHANGED vars /\ UNCHANGED progVars
        BY <1>5 DEF allVars, progVars
    <2> QED BY <2>1, OthersProg, KStep
<1> QED BY <1>1, <1>2, <1>3, <1>4, <1>5 DEF DemoNext

LEMMA DemoStart == DemoInit => Init /\ KInv /\ ProgInv
<1> SUFFICES ASSUME DemoInit PROVE Init /\ KInv /\ ProgInv
    OBVIOUS
<1>1. Init /\ KInv
    BY InitInv, QueueInit, ContextInit, SleepInit DEF DemoInit, KInv
<1>2. demo \in AllDemos
    BY DEF DemoInit, AllDemos, SoloDemos
<1>3. DOMAIN pc = Slots /\ mode = "monitor"
    BY DEF DemoInit, Empty, Init
<1> QED BY <1>1, <1>2, <1>3 DEF ProgInv

(***************************************************************************)
(* What the demos without the timer print.  Their scheduling leaves no     *)
(* choice, so the invariant is the script of each: who has the CPU, at     *)
(* which call, what the other task waits for, the mailbox of B, and how    *)
(* many lines are out.  The lemmas say what each kind of call does to such a *)
(* scene.                                                                  *)
(***************************************************************************)
\* The first n lines of the description are out.
Printed(n) == n \in Nat /\ n <= Len(demo.prints) /\ out = SubSeq(demo.prints, 1, n)

\* Task t has the CPU, u is the other task.
Pair(t, u) ==
    /\ t \in {1, 2} /\ u \in {1, 2} /\ t # u
    /\ ~oops /\ ~preempt
    /\ current_tid = t /\ state[t] = "Running"
    /\ \A v \in Tids \ {t, u} : state[v] = "Exited"
    /\ \A v \in {t, u} : space[v] = v /\ wake_tick[v] = 0

\* It runs at its p-th call, and u is at its r-th call in mood m: Ready,
\* Exited, or Blocked to receive, to send to B, or for B to exit.  B's mailbox
\* has a message of l bytes, none if l is 0, and n lines are out.
Table(t, p, u, r, m, l, n) ==
    /\ Pair(t, u)
    /\ pc[t] = p
    /\ state[u] = IF m \in {"Ready", "Exited"} THEN m ELSE "Blocked"
    /\ m # "Exited" => pc[u] = r /\ saved[u].el = 0
    /\ m = "Send" => blocked_send_dst[u] = 2
    /\ m = "Wait" => waiting_on[u] = 2
    /\ m = "Exited" /\ u = 2 => exit_code[u] = 42
    /\ ready_queue = IF m = "Ready" THEN <<u>> ELSE <<>>
    /\ mailbox[2].len = l /\ (l > 0 => mailbox[2].from = 1)
    /\ Printed(n)
Runs(t, p, u, r, m, l, n) == mode = "el0" /\ Table(t, p, u, r, m, l, n)

\* What CallsDoTheirWork asks of the call that task t makes.
Works ==
    \A t \in Tids : pc'[t] > pc[t] =>
         LET c == Program(space[t])[pc[t]].call IN
         /\ c.sys \in {"recv", "recvblk"} => mailbox[t].len > 0 /\ mailbox[t].from = 1
         /\ c.sys \in {"send", "sendblk"} => mailbox[2].len = 0 /\ mailbox'[2].len = c.n
         /\ c.sys = "wait" => state[2] = "Exited" /\ exit_code[2] = 42

DInv == KInv /\ ProgInv /\ pc \in [Slots -> Nat]

LEMMA TwoTids == 1 \in Tids /\ 2 \in Tids /\ 3 \notin {1, 2} /\ SoloSpace = 3
BY UserProgramsAssumption, KernelAssumption, MaxTasksAssumption DEF Tids, SoloSpace

LEMMA OneCall ==
    ASSUME NEW c, handle_svc_from_el0(c)
    PROVE  /\ InSvc(c)
           /\ c.sys = "write" => Write(c)
           /\ c.sys = "yield" => Yield(c)
           /\ c.sys = "send" => Send(c)
           /\ c.sys = "sendblk" => SendBlk(c)
           /\ c.sys = "recv" => Recv(c)
           /\ c.sys = "recvblk" => RecvBlk(c)
           /\ c.sys = "wait" => Wait(c)
           /\ c.sys = "exit" => Exit(c)
BY DEF handle_svc_from_el0, Write, Yield, Send, Recv, RecvBlk, SendBlk, Sleep, Wait, Exit, Unknown

\* The call that a step of a program makes.
LEMMA Steps ==
    ASSUME DInv, UserStep, NEW t, NEW u, Pair(t, u)
    PROVE  /\ t \in Tids /\ u \in Tids /\ t \in Slots /\ u \in Slots /\ 2 \in Slots
           /\ Tids \subseteq Slots
           /\ mode = "el0" /\ frame.own = t /\ ttbr0 = t /\ Fetched = Program(t)[pc[t]]
           /\ Program(space[t])[pc[t]] = Fetched
           /\ demo' = demo
           /\ state \in States /\ saved \in [Slots -> Frames] /\ frame \in Frames /\ frame.el = 0
           /\ current_tid = t /\ t # 0 /\ t # u /\ state[t] = "Running"
           /\ Fetched.call.sys # "fault" =>
                Fetched.call \in Calls /\ handle_svc_from_el0(Fetched.call)
           /\ Fetched.call.sys = "fault" => Fault
<1>1. t \in Tids /\ u \in Tids
    BY TwoTids DEF Pair
<1>2. mode = "el0" /\ ~oops /\ current_tid = t /\ t # 0 /\ space[t] = t /\ space[u] = u
    BY <1>1, TidFacts DEF Pair, UserStep
<1>3. frame.own = t /\ ttbr0 = t
    BY <1>2 DEF DInv, KInv, ContextInv
<1>4. Fetched = Program(t)[pc[t]]
    BY <1>2, <1>3, FetchesOwn DEF DInv
<1>6. \/ Fetched.call \in Calls /\ handle_svc_from_el0(Fetched.call)
      \/ Fetched.call.sys = "fault" /\ Fault
    BY UserStepIsKernels DEF DInv
<1>7. handle_svc_from_el0(Fetched.call) => Fetched.call.sys # "fault"
    BY DEF handle_svc_from_el0, Write, Yield, Send, Recv, RecvBlk, SendBlk, Sleep, Wait, Exit, Unknown
<1>8. /\ state \in States /\ saved \in [Slots -> Frames] /\ frame \in Frames /\ frame.el = 0
      /\ t # u /\ state[t] = "Running"
    BY <1>2 DEF DInv, KInv, IInv, TasksOK, AtMostCurrent, SwitchOK, CpuOK, ContextInv, Pair
<1> QED BY <1>1, <1>2, <1>3, <1>4, <1>6, <1>7, <1>8, TwoTids, TidFacts DEF UserStep

\* A call that is over moves the program counter on; one that is to be repeated
\* does not.
LEMMA Moves ==
    ASSUME DInv, UserStep, NEW t, NEW u, Pair(t, u)
    PROVE  LET ELR == IF frame'.own = t THEN frame' ELSE saved'[t] IN
           /\ ELR.svc # Fetched.call => pc'[t] = pc[t] + 1 /\ pc'[u] = pc[u]
           /\ ELR.svc = Fetched.call => pc' = pc
           /\ LET c == Fetched.call IN
              (ELR.svc # c =>
                 /\ c.sys \in {"recv", "recvblk"} => mailbox[t].len > 0 /\ mailbox[t].from = 1
                 /\ c.sys \in {"send", "sendblk"} => mailbox[2].len = 0 /\ mailbox'[2].len = c.n
                 /\ c.sys = "wait" => state[2] = "Exited" /\ exit_code[2] = 42)
              => Works
<1> DEFINE ELR == IF frame'.own = t THEN frame' ELSE saved'[t]
<1>1. /\ frame.own = t /\ t \in Slots /\ u \in Slots /\ Tids \subseteq Slots
      /\ Program(space[t])[pc[t]] = Fetched
    BY Steps
<1>2. pc' = IF ELR.svc = Fetched.call THEN pc ELSE [pc EXCEPT ![t] = @ + 1]
    BY <1>1 DEF UserStep
<1>3. pc \in [Slots -> Nat] /\ t # u
    BY DEF DInv, Pair
<1>4. ELR.svc # Fetched.call => pc'[t] = pc[t] + 1 /\ pc'[u] = pc[u]
    BY <1>1, <1>2, <1>3
<1>5. \A v \in Tids : pc'[v] > pc[v] => v = t /\ ELR.svc # Fetched.call
    BY <1>1, <1>2, <1>3
<1> QED BY <1>1, <1>2, <1>4, <1>5 DEF Works

\* Descriptions are sequences of lines.
LEMMA FewLines ==
    ASSUME NEW S, NEW x \in S, NEW y \in S, NEW z \in S, NEW w \in S
    PROVE  <<>> \in Seq(S) /\ <<x, y>> \in Seq(S) /\ <<x, y, z>> \in Seq(S) /\ <<x, y, z, w>> \in Seq(S)
OBVIOUS

LEMMA Descriptions == ASSUME NEW d \in AllDemos PROVE \E S : d.prints \in Seq(S)
<1>1. /\ scheduled.prints = <<"hello, EL0!", "task B!", "back from yield", "B done!">>
      /\ ipc.prints = <<"A: sending", "B: waiting", "A: sent", "B: got msg!">>
      /\ blkipc.prints = <<"A: send", "B: block", "A: done", "B: woke!">>
      /\ sendblk.prints = <<"A: send2", "B: recv2", "A: sent2", "B: got2">>
      /\ wait.prints = <<"A: wait", "B: hi", "B: bye", "A: woke!">>
    BY DEF scheduled, ipc, blkipc, sendblk, wait
<1>2. /\ faultkill.prints = <<"A: alive", "B: ok">>
      /\ preempt_demo.prints = <<"A", "B">>
      /\ sleep.prints = <<"A: sleep", "B: run", "A: woke!">>
      /\ el0.prints = <<"hello, EL0!", "back from yield">>
      /\ el0fault.prints = <<>>
    BY DEF faultkill, preempt_demo, sleep, el0, el0fault
<1>3. \E w, x, y, z : d.prints \in {<<>>, <<w, x>>, <<w, x, y>>, <<w, x, y, z>>}
    <2>1. d \in {scheduled, ipc, blkipc, sendblk, wait} => \E w, x, y, z : d.prints = <<w, x, y, z>>
        BY <1>1
    <2>2. d \in {faultkill, preempt_demo, el0} => \E w, x : d.prints = <<w, x>>
        BY <1>2
    <2> QED BY <1>2, <2>1, <2>2 DEF AllDemos, SoloDemos, TaskDemos, TimerDemos
<1>4. PICK w, x, y, z : d.prints \in {<<>>, <<w, x>>, <<w, x, y>>, <<w, x, y, z>>}
    BY <1>3
<1> DEFINE S == {w, x, y, z}
<1>5. w \in S /\ x \in S /\ y \in S /\ z \in S
    OBVIOUS
<1> HIDE DEF S
<1>6. /\ <<>> \in Seq(S) /\ <<w, x>> \in Seq(S)
      /\ <<w, x, y>> \in Seq(S) /\ <<w, x, y, z>> \in Seq(S)
    BY <1>5, FewLines
<1>7. d.prints \in Seq(S)
    BY <1>4, <1>6, Zenon
<1> QED BY <1>7

\* Lines are printed in the order of the description.
LEMMA PrintsNext ==
    ASSUME demo \in AllDemos, NEW n, Printed(n), n + 1 <= Len(demo.prints),
           demo' = demo, out' = Append(out, demo.prints[n + 1])
    PROVE  Printed(n + 1)'
<1>1. PICK S : demo.prints \in Seq(S)
    BY Descriptions
<1>2. n \in Nat /\ out = SubSeq(demo.prints, 1, n)
    BY DEF Printed
<1>3. Append(SubSeq(demo.prints, 1, n), demo.prints[n + 1]) = SubSeq(demo.prints, 1, n + 1)
    BY <1>1, <1>2
<1> QED BY <1>2, <1>3 DEF Printed

\* A line goes to the console whole.
LEMMA WriteAnswer ==
    ASSUME NEW k \in 1 .. 256, NEW c, c.a = 1, c.n = k, c.buf = "user"
    PROVE  write_x0(c) = k /\ write_x0(c) > 0 /\ ~BufferFault(c)
<1>1. is_valid_user_range(c) /\ ~BufferFault(c)
    BY DEF is_valid_user_range, BufferFault
<1>2. write_x0(c) = k
    BY <1>1 DEF write_x0
<1> QED BY <1>1, <1>2

LEMMA SayScene ==
    ASSUME DInv, UserStep, NEW t, NEW p, NEW u, NEW r, NEW m, NEW l, NEW n,
           Runs(t, p, u, r, m, l, n), n + 1 <= Len(demo.prints),
           NEW k \in 1 .. 256, Program(t)[p] = Say(demo.prints[n + 1], k)
    PROVE  Runs(t, p + 1, u, r, m, l, n + 1)' /\ Works
<1> DEFINE c == Fetched.call
<1>1. Pair(t, u) /\ pc[t] = p
    BY DEF Runs, Table
<1>2. /\ Fetched = Say(demo.prints[n + 1], k) /\ frame.own = t /\ demo' = demo /\ mode = "el0"
      /\ t \in Slots /\ u \in Slots
    BY <1>1, Steps
<1>3. /\ c = [sys |-> "write", a |-> 1, n |-> k, buf |-> "user"] /\ Fetched.text = demo.prints[n + 1]
      /\ c.sys = "write" /\ c.a = 1 /\ c.n = k /\ c.buf = "user"
    BY <1>2 DEF Say, Svc
<1>4. Write(c)
    BY <1>1, <1>3, Steps, OneCall
<1>5. write_x0(c) > 0 /\ ~BufferFault(c)
    BY <1>3, WriteAnswer
<1>6. Return
    BY <1>4, <1>5 DEF Write
<1>7. frame'.own = t /\ frame'.svc = NoCall /\ NoCall # c
    <2>1. frame \in Frames
        BY DEF DInv, KInv, IInv, CpuOK
    <2> QED BY <1>2, <1>3, <1>6, <2>1 DEF Return, Returned, NoCall, Frames
<1>8. pc'[t] = p + 1 /\ pc'[u] = pc[u] /\ Works
    BY <1>1, <1>3, <1>7, Moves
<1>9. out' = Append(out, demo.prints[n + 1])
    <2>1. out' = IF c.sys = "write" /\ write_x0(c) > 0 THEN Append(out, Fetched.text) ELSE out
        BY DEF UserStep
    <2>2. c.sys = "write" /\ write_x0(c) > 0
        BY <1>3, <1>5
    <2>3. out' = Append(out, Fetched.text)
        BY <2>1, <2>2
    <2> QED BY <1>3, <2>3
<1>10. Printed(n + 1)'
    BY <1>2, <1>9, PrintsNext DEF Runs, Table, DInv, ProgInv
<1>11. UNCHANGED <<mode, oops, preempt, infoVars, state, saved, ready_queue, current_tid>>
    BY <1>6 DEF Return, Returned, devVars
<1> QED BY <1>8, <1>10, <1>11 DEF Runs, Table, Pair, infoVars, waitVars

\* Queues of two.
LEMMA TwoEntries ==
    ASSUME NEW x \in Tids, NEW y \in Tids
    PROVE  Append(<<x>>, y) = <<x, y>> /\ Head(<<x, y>>) = x /\ Tail(<<x, y>>) = <<y>> /\ Len(<<x>>) = 1
<1> DEFINE a == Append(<<x>>, y)
<1>1. <<x>> \in Seq(Tids) /\ Len(<<x>>) = 1 /\ <<x, y>> \in Seq(Tids) /\ Len(<<x, y>>) = 2
    OBVIOUS
<1>2. a \in Seq(Tids) /\ Len(a) = 2 /\ a[1] = x /\ a[2] = y
    BY <1>1
<1>3. <<x, y>>[1] = x /\ <<x, y>>[2] = y
    OBVIOUS
<1> HIDE DEF a
<1>4. \A i \in 1 .. 2 : a[i] = <<x, y>>[i]
    BY <1>2, <1>3
<1>5. a = <<x, y>>
    BY <1>1, <1>2, <1>4, SeqEqual
<1> QED BY <1>1, <1>5 DEF a

LEMMA ScansNone == \A w \in ScanOrders({}) : w = <<>>
<1>1. Cardinality({}) = 0
    BY FS_EmptySet
<1> QED BY <1>1 DEF ScanOrders

LEMMA ScansOne == ASSUME NEW t PROVE \A w \in ScanOrders({t}) : w = <<t>>
<1>1. Cardinality({t}) = 1
    BY FS_Singleton
<1>2. \A w \in [1 .. 1 -> {t}] : w = <<t>>
    OBVIOUS
<1> QED BY <1>1, <1>2 DEF ScanOrders

\* The other task gets the CPU.
LEMMA Passes ==
    ASSUME DInv, NEW t, NEW u, Pair(t, u), state[u] # "Exited", saved[u].el = 0,
           NEW st \in States, NEW q, Head(q) = u, NEW sv, sv[u] = saved[u],
           Load(st, q, sv), Resumed
    PROVE  /\ mode' = "el0" /\ oops' = oops /\ preempt' = preempt
           /\ current_tid' = u /\ ready_queue' = Tail(q) /\ saved' = sv
           /\ \A v \in Tids : state'[v] = IF v = u THEN "Running" ELSE st[v]
           /\ frame'.own = u
<1>1. u \in Tids /\ u \in Slots
    BY TwoTids, TidFacts DEF Pair
<1>2. /\ state' = [st EXCEPT ![u] = "Running"] /\ ready_queue' = Tail(q) /\ saved' = sv
      /\ frame' = saved[u] /\ current_tid' = u
    BY DEF Load
<1>3. saved[u].own = u
    BY <1>1 DEF DInv, KInv, ContextInv
<1> QED BY <1>1, <1>2, <1>3, TidFacts DEF Resumed, devVars, States

\* With the other task ready, yield and a call that blocks hand over the CPU.
LEMMA Yields ==
    ASSUME DInv, UserStep, NEW t, NEW p, NEW u, NEW r, NEW l, NEW n,
           Runs(t, p, u, r, "Ready", l, n), Program(t)[p] = YieldCpu
    PROVE  Runs(u, r, t, p + 1, "Ready", l, n)' /\ Works
<1> DEFINE c == Fetched.call
           f == [frame EXCEPT !.svc = NoCall]
<1>1. /\ Pair(t, u) /\ pc[t] = p /\ pc[u] = r
      /\ state[u] = "Ready" /\ saved[u].el = 0 /\ ready_queue = <<u>>
    BY DEF Runs, Table
<1>2. /\ Fetched = YieldCpu /\ frame.own = t /\ demo' = demo
      /\ t \in Tids /\ u \in Tids /\ t \in Slots /\ u \in Slots
    BY <1>1, Steps
<1>3. c = [sys |-> "yield", a |-> 0, n |-> 0, buf |-> "user"]
    BY <1>2 DEF YieldCpu, Svc
<1>4. Yield(c)
    <2>1. handle_svc_from_el0(c)
        BY <1>1, <1>3, Steps
    <2> QED BY <1>3, <2>1, OneCall
<1>5. /\ current_tid = t /\ t # 0 /\ t # u /\ state[t] = "Running"
      /\ state \in States /\ saved \in [Slots -> Frames] /\ frame \in Frames /\ frame.el = 0
    BY <1>1, Steps
<1>6. ReadyState(state) = [state EXCEPT ![t] = "Ready"]
    BY <1>5 DEF ReadyState, Requeues
<1>7. ReadyQueue(state, ready_queue) = <<u, t>>
    <2>1. Len(<<u>>) = 1 /\ Append(<<u>>, t) = <<u, t>>
        BY <1>2, TwoEntries
    <2>2. ~(1 >= MAX_TASKS)
        BY MaxTasksAssumption
    <2> QED BY <1>1, <1>5, <2>1, <2>2 DEF ReadyQueue, Requeues, enqueue
<1>8. f = [own |-> t, el |-> 0, svc |-> NoCall]
    BY <1>2, <1>5 DEF Frames
<1> HIDE DEF f
<1>9. /\ SaveCurrent(state, f) = [saved EXCEPT ![t] = f]
      /\ SaveCurrent(state, f)[u] = saved[u] /\ SaveCurrent(state, f)[t] = f
    BY <1>2, <1>5 DEF SaveCurrent, task
<1>10. ReadyState(state) \in States /\ ReadyState(state)[u] = "Ready" /\ ReadyState(state)[t] = "Ready"
    BY <1>1, <1>2, <1>5, <1>6 DEF States, TaskState
<1>11. Head(<<u, t>>) = u /\ Tail(<<u, t>>) = <<t>> /\ <<u, t>> # <<>>
    OBVIOUS
<1>12. /\ Load(ReadyState(state), ReadyQueue(state, ready_queue), SaveCurrent(state, f))
       /\ Resumed /\ UNCHANGED infoVars
    <2>1. CanSwitch(ReadyState(state), <<u, t>>)
        BY <1>2, <1>10, <1>11 DEF CanSwitch, task
    <2>2. \/ save_and_switch(state, ready_queue, f) /\ Resumed /\ UNCHANGED infoVars
          \/ save_and_stay(state, ready_queue, f)
        BY <1>4, <1>5 DEF Yield, f
    <2> QED BY <1>7, <2>1, <2>2 DEF save_and_switch, save_and_stay, Stay
<1>13. /\ mode' = "el0" /\ oops' = oops /\ preempt' = preempt
       /\ current_tid' = u /\ ready_queue' = <<t>> /\ saved'[t] = f
       /\ \A v \in Tids : state'[v] = IF v = u THEN "Running" ELSE ReadyState(state)[v]
       /\ frame'.own = u
    <2> DEFINE st == ReadyState(state)
               sv == SaveCurrent(state, f)
    <2>1. /\ st \in States /\ sv[u] = saved[u] /\ state[u] # "Exited"
          /\ Head(<<u, t>>) = u /\ Load(st, <<u, t>>, sv)
        BY <1>1, <1>7, <1>9, <1>10, <1>11, <1>12
    <2> HIDE DEF st, sv
    <2>2. /\ mode' = "el0" /\ oops' = oops /\ preempt' = preempt
          /\ current_tid' = u /\ ready_queue' = Tail(<<u, t>>) /\ saved' = sv
          /\ \A v \in Tids : state'[v] = IF v = u THEN "Running" ELSE st[v]
          /\ frame'.own = u
        BY <1>1, <1>12, <2>1, Passes
    <2> QED BY <1>9, <1>11, <2>2 DEF st, sv
<1>14. pc'[t] = p + 1 /\ pc'[u] = r /\ Works
    <2>1. NoCall # c
        BY <1>3 DEF NoCall
    <2> QED BY <1>1, <1>3, <1>5, <1>8, <1>13, <2>1, Moves
<1>15. out' = out
    BY <1>3 DEF UserStep
<1>16. UNCHANGED infoVars /\ demo' = demo
    BY <1>2, <1>12
<1>17. \A v \in Tids \ {t, u} : state'[v] = state[v]
    BY <1>5, <1>6, <1>13, TidFacts DEF States
<1>18. Pair(u, t)'
    <2>1. /\ t \in {1, 2} /\ u \in {1, 2} /\ t # u /\ ~oops /\ ~preempt
          /\ \A v \in Tids \ {t, u} : state[v] = "Exited"
          /\ \A v \in {t, u} : space[v] = v /\ wake_tick[v] = 0
        BY <1>1 DEF Pair
    <2>2. state'[u] = "Running" /\ space' = space /\ wake_tick' = wake_tick
        BY <1>2, <1>13, <1>16 DEF infoVars, waitVars
    <2>3. \A v \in Tids \ {u, t} : state'[v] = "Exited"
        BY <1>17, <2>1
    <2>4. ~oops' /\ ~preempt' /\ current_tid' = u
        BY <1>13, <2>1
    <2> QED BY <2>1, <2>2, <2>3, <2>4 DEF Pair
<1>19. Printed(n)'
    BY <1>15, <1>16 DEF Runs, Table, Printed
<1>20. mailbox' = mailbox
    BY <1>16 DEF infoVars
<1> QED BY <1>1, <1>2, <1>5, <1>8, <1>10, <1>13, <1>14, <1>18, <1>19, <1>20 DEF Runs, Table

\* A call that returns at once.
LEMMA Answered ==
    ASSUME DInv, UserStep, NEW t, NEW u, Pair(t, u), Returned, Fetched.call.sys # "none",
           LET c == Fetched.call IN
             /\ c.sys \in {"recv", "recvblk"} => mailbox[t].len > 0 /\ mailbox[t].from = 1
             /\ c.sys \in {"send", "sendblk"} => mailbox[2].len = 0 /\ mailbox'[2].len = c.n
             /\ c.sys = "wait" => state[2] = "Exited" /\ exit_code[2] = 42
    PROVE  /\ pc'[t] = pc[t] + 1 /\ pc'[u] = pc[u] /\ Works
           /\ mode' = mode /\ oops' = oops /\ preempt' = preempt
<1>1. frame'.own = t /\ frame'.svc = NoCall
    <2>1. frame \in Frames /\ frame.own = t
        BY Steps
    <2> QED BY <2>1 DEF Returned, Frames
<1>2. NoCall # Fetched.call
    BY DEF NoCall
<1> QED BY <1>1, <1>2, Moves DEF Returned, devVars

\* Only write prints.
LEMMA Silent ==
    ASSUME UserStep, Fetched.call.sys # "write", NEW n, Printed(n), demo' = demo
    PROVE  Printed(n)'
BY DEF UserStep, Printed

\* A call that blocks, with the other task ready: it never degrades.
LEMMA Blocks ==
    ASSUME DInv, UserStep, NEW t, NEW p, NEW u, NEW r, NEW l, NEW n,
           Runs(t, p, u, r, "Ready", l, n), Fetched.call.sys # "write",
           LET f == Rewound(Fetched.call) IN (block_and_switch(f) /\ Resumed) \/ block_and_stay(f)
    PROVE  /\ Resumed
           /\ ~block_and_stay(Rewound(Fetched.call))
           /\ mode' = "el0" /\ ~oops' /\ ~preempt' /\ current_tid' = u /\ ready_queue' = <<>>
           /\ state'[u] = "Running" /\ state'[t] = "Blocked"
           /\ \A v \in Tids \ {t, u} : state'[v] = "Exited"
           /\ saved'[t].el = 0 /\ pc'[t] = p /\ pc'[u] = r /\ Works
           /\ demo' = demo /\ Printed(n)'
<1> DEFINE c == Fetched.call
           f == Rewound(c)
<1>1. /\ Pair(t, u) /\ pc[t] = p /\ pc[u] = r
      /\ state[u] = "Ready" /\ saved[u].el = 0 /\ ready_queue = <<u>>
    BY DEF Runs, Table
<1>2. /\ frame.own = t /\ demo' = demo /\ t \in Tids /\ u \in Tids /\ t \in Slots /\ u \in Slots
      /\ current_tid = t /\ t # 0 /\ t # u /\ state[t] = "Running"
      /\ state \in States /\ saved \in [Slots -> Frames] /\ frame \in Frames /\ frame.el = 0
    BY <1>1, Steps
<1>3. f = [own |-> t, el |-> 0, svc |-> c]
    BY <1>2 DEF Frames, Rewound
<1> HIDE DEF f
<1>4. BlockedState = [state EXCEPT ![t] = "Blocked"]
    BY <1>2 DEF BlockedState, task
<1>5. /\ SaveCurrent(state, f)[u] = saved[u] /\ SaveCurrent(state, f)[t] = f
    BY <1>2 DEF SaveCurrent, task
<1>6. BlockedState \in States /\ BlockedState[u] = "Ready" /\ BlockedState[t] = "Blocked"
    BY <1>1, <1>2, <1>4 DEF States, TaskState
<1>7. Head(<<u>>) = u /\ Tail(<<u>>) = <<>> /\ <<u>> # <<>>
    OBVIOUS
<1>8. CanSwitch(BlockedState, ready_queue)
    BY <1>1, <1>2, <1>6, <1>7 DEF CanSwitch, task
<1>9. ~block_and_stay(f)
    BY <1>2, <1>8 DEF block_and_stay, Stay
<1>10. Load(BlockedState, ready_queue, SaveCurrent(state, f)) /\ Resumed
    BY <1>9 DEF block_and_switch, f
<1>11. /\ mode' = "el0" /\ oops' = oops /\ preempt' = preempt
       /\ current_tid' = u /\ ready_queue' = <<>> /\ saved'[t] = f
       /\ \A v \in Tids : state'[v] = IF v = u THEN "Running" ELSE BlockedState[v]
       /\ frame'.own = u
    <2> DEFINE st == BlockedState
               sv == SaveCurrent(state, f)
    <2>1. /\ st \in States /\ sv[u] = saved[u] /\ state[u] # "Exited"
          /\ Head(<<u>>) = u /\ Load(st, <<u>>, sv)
        BY <1>1, <1>5, <1>6, <1>7, <1>10
    <2> HIDE DEF st, sv
    <2>2. /\ mode' = "el0" /\ oops' = oops /\ preempt' = preempt
          /\ current_tid' = u /\ ready_queue' = Tail(<<u>>) /\ saved' = sv
          /\ \A v \in Tids : state'[v] = IF v = u THEN "Running" ELSE st[v]
          /\ frame'.own = u
        BY <1>1, <1>10, <2>1, Passes
    <2> QED BY <1>5, <1>7, <2>2 DEF st, sv
<1>12. pc'[t] = p /\ pc'[u] = r /\ Works
    BY <1>1, <1>2, <1>3, <1>11, Moves
<1>13. \A v \in Tids \ {t, u} : state'[v] = "Exited"
    <2>1. \A v \in Tids \ {t, u} : BlockedState[v] = state[v]
        BY <1>2, <1>4, TidFacts DEF States
    <2> QED BY <1>1, <1>11, <2>1 DEF Pair
<1>14. Printed(n)'
    BY <1>2, Silent DEF Runs, Table
<1> QED BY <1>1, <1>2, <1>3, <1>6, <1>9, <1>10, <1>11, <1>12, <1>13, <1>14 DEF Pair, f

\* Yielding with nobody ready: the task goes on.
LEMMA YieldsToNobody ==
    ASSUME DInv, UserStep, NEW t, NEW p, NEW u, NEW r, NEW m, m # "Ready", NEW l, NEW n,
           Runs(t, p, u, r, m, l, n), Program(t)[p] = YieldCpu
    PROVE  Runs(t, p + 1, u, r, m, l, n)' /\ Works
<1> DEFINE c == Fetched.call
           f == [frame EXCEPT !.svc = NoCall]
<1>1. Pair(t, u) /\ pc[t] = p /\ ready_queue = <<>>
    BY DEF Runs, Table
<1>2. /\ Fetched = YieldCpu /\ frame.own = t /\ demo' = demo
      /\ t \in Tids /\ u \in Tids /\ t \in Slots /\ u \in Slots
    BY <1>1, Steps
<1>3. c = [sys |-> "yield", a |-> 0, n |-> 0, buf |-> "user"]
    BY <1>2 DEF YieldCpu, Svc
<1>4. Yield(c)
    <2>1. handle_svc_from_el0(c)
        BY <1>1, <1>3, Steps
    <2> QED BY <1>3, <2>1, OneCall
<1>5. /\ current_tid = t /\ t # 0 /\ t # u /\ state[t] = "Running"
      /\ state \in States /\ saved \in [Slots -> Frames] /\ frame \in Frames /\ frame.el = 0
    BY <1>1, Steps
<1>6. ReadyState(state) = [state EXCEPT ![t] = "Ready"]
    BY <1>5 DEF ReadyState, Requeues
<1>7. ReadyQueue(state, ready_queue) = <<t>> /\ <<t>> # <<>> /\ Head(<<t>>) = t /\ Tail(<<t>>) = <<>>
    <2>1. Len(<<>>) = 0 /\ Append(<<>>, t) = <<t>>
        BY <1>2
    <2>2. ~(0 >= MAX_TASKS)
        BY MaxTasksAssumption
    <2> QED BY <1>1, <1>5, <2>1, <2>2 DEF ReadyQueue, Requeues, enqueue
<1>8. f = [own |-> t, el |-> 0, svc |-> NoCall]
    BY <1>2, <1>5 DEF Frames
<1> HIDE DEF f
<1>9. SaveCurrent(state, f) = [saved EXCEPT ![t] = f]
    BY <1>2, <1>5 DEF SaveCurrent, task
<1>10. /\ Load(ReadyState(state), ReadyQueue(state, ready_queue), SaveCurrent(state, f))
       /\ Resumed /\ UNCHANGED infoVars
    <2>1. CanSwitch(ReadyState(state), <<t>>)
        BY <1>2, <1>5, <1>6, <1>7 DEF CanSwitch, task, States
    <2>2. \/ save_and_switch(state, ready_queue, f) /\ Resumed /\ UNCHANGED infoVars
          \/ save_and_stay(state, ready_queue, f)
        BY <1>4, <1>5 DEF Yield, f
    <2> QED BY <1>7, <2>1, <2>2 DEF save_and_switch, save_and_stay, Stay
<1>11. /\ state' = [[state EXCEPT ![t] = "Ready"] EXCEPT ![t] = "Running"] /\ ready_queue' = <<>>
       /\ saved' = [saved EXCEPT ![t] = f] /\ frame' = [saved EXCEPT ![t] = f][t] /\ current_tid' = t
    BY <1>6, <1>7, <1>9, <1>10 DEF Load
<1>12. state' = state /\ frame' = f /\ saved'[u] = saved[u]
    BY <1>2, <1>5, <1>11 DEF States
<1>13. mode' = "el0" /\ oops' = oops /\ preempt' = preempt
    BY <1>8, <1>10, <1>12 DEF Resumed, devVars
<1>14. pc'[t] = p + 1 /\ pc'[u] = pc[u] /\ Works
    <2>1. NoCall # c
        BY <1>3 DEF NoCall
    <2> QED BY <1>1, <1>3, <1>8, <1>12, <2>1, Moves
<1>15. Printed(n)'
    BY <1>2, <1>3, Silent DEF Runs, Table
<1>16. UNCHANGED infoVars
    BY <1>10
<1>17. Pair(t, u)'
    BY <1>1, <1>5, <1>11, <1>12, <1>13, <1>16 DEF Pair, infoVars, waitVars
<1>18. UNCHANGED <<mailbox, blocked_send_dst, waiting_on, exit_code>>
    BY <1>16 DEF infoVars, waitVars
<1> QED BY <1>1, <1>11, <1>12, <1>13, <1>14, <1>15, <1>17, <1>18 DEF Runs, Table

\* The calls that move messages.
LEMMA MessageCalls ==
    /\ \A k : /\ SendB(k).call = [sys |-> "send", a |-> 2, n |-> k, buf |-> "user"]
             /\ SendBlkB(k).call = [sys |-> "sendblk", a |-> 2, n |-> k, buf |-> "user"]
    /\ Receive.call = [sys |-> "recv", a |-> 0, n |-> 97, buf |-> "user"]
    /\ ReceiveBlk.call = [sys |-> "recvblk", a |-> 0, n |-> 97, buf |-> "user"]
BY DEF SendB, SendBlkB, Receive, ReceiveBlk, Svc

\* A sends to B, whose mailbox is empty: the message is delivered, and wakes B if
\* B waits for one.
LEMMA Delivers ==
    ASSUME DInv, UserStep, NEW p, NEW r, NEW m \in {"Ready", "Recv"}, NEW n, NEW k \in 1 .. 32,
           Runs(1, p, 2, r, m, 0, n), Program(1)[p] \in {SendB(k), SendBlkB(k)}
    PROVE  Runs(1, p + 1, 2, r, "Ready", k, n)' /\ Works
<1> DEFINE c == Fetched.call
<1>1. Pair(1, 2) /\ pc[1] = p /\ pc[2] = r /\ saved[2].el = 0 /\ mailbox[2].len = 0
      /\ state[2] = (IF m = "Ready" THEN "Ready" ELSE "Blocked")
      /\ ready_queue = (IF m = "Ready" THEN <<2>> ELSE <<>>)
    BY DEF Runs, Table
<1>2. /\ Fetched \in {SendB(k), SendBlkB(k)} /\ demo' = demo /\ 1 \in Slots /\ 2 \in Slots /\ 2 \in Tids
      /\ state \in States /\ mode = "el0" /\ current_tid = 1
    BY <1>1, Steps
<1>3. c.sys \in {"send", "sendblk"} /\ c.a = 2 /\ c.n = k /\ c.buf = "user"
    <2>1. c = SendB(k).call \/ c = SendBlkB(k).call
        BY <1>2
    <2>2. /\ SendB(k).call = [sys |-> "send", a |-> 2, n |-> k, buf |-> "user"]
          /\ SendBlkB(k).call = [sys |-> "sendblk", a |-> 2, n |-> k, buf |-> "user"]
        BY MessageCalls, Zenon
    <2> HIDE DEF c
    <2> QED BY <2>1, <2>2
<1>4. Send(c) \/ SendBlk(c)
    <2>1. handle_svc_from_el0(c)
        BY <1>1, <1>3, Steps
    <2> QED BY <1>3, <2>1, OneCall
<1>5. ipc_send_result(2) = 0 /\ send_x0(c) = 0 /\ ~BufferFault(c) /\ is_valid_user_range(c) /\ c.n # 0
    BY <1>1, <1>2, <1>3 DEF ipc_send_result, send_x0, BufferFault, is_valid_user_range
<1>6. /\ ipc_send(2, k) /\ Returned
      /\ UNCHANGED <<waitVars, exit_code, space, saved, current_tid>>
    BY <1>3, <1>4, <1>5 DEF Send, SendBlk, SendCommon, ESRCH, EAGAIN
<1>7. mailbox' = [mailbox EXCEPT ![2] = [len |-> k, from |-> 1]]
    <2>1. MinOf(k, MSG_MAX) = k
        BY DEF MinOf, MSG_MAX
    <2> QED BY <1>2, <1>6, <2>1 DEF ipc_send
<1>8. mailbox'[2].len = k /\ mailbox'[2].from = 1
    BY <1>2, <1>7 DEF DInv, KInv, IInv, InfoOK
<1>9. /\ pc'[1] = p + 1 /\ pc'[2] = r /\ Works
      /\ mode' = mode /\ oops' = oops /\ preempt' = preempt
    BY <1>1, <1>3, <1>6, <1>8, Answered
<1>10. /\ ready_queue' = <<2>> /\ state'[2] = "Ready"
       /\ \A v \in Tids \ {2} : state'[v] = state[v]
    <2>1. enqueue(<<>>, 2) = <<2>>
        <3>1. Len(<<>>) = 0 /\ Append(<<>>, 2) = <<2>> /\ ~(0 >= MAX_TASKS)
            BY MaxTasksAssumption
        <3> QED BY <3>1 DEF enqueue
    <2>2. CASE m = "Ready"
        BY <1>1, <1>6, <2>2 DEF ipc_send
    <2>3. CASE m = "Recv"
        BY <1>1, <1>2, <1>6, <2>1, <2>3, TidFacts DEF ipc_send, States
    <2> QED BY <2>2, <2>3
<1>11. Printed(n)'
    BY <1>2, <1>3, Silent DEF Runs, Table
<1>12. Pair(1, 2)'
    BY <1>1, <1>2, <1>6, <1>9, <1>10, TwoTids DEF Pair, waitVars
<1> QED BY <1>1, <1>2, <1>6, <1>8, <1>9, <1>10, <1>11, <1>12 DEF Runs, Table, waitVars

\* A sends to B, whose mailbox is full: A blocks, to send again.
LEMMA SendWaits ==
    ASSUME DInv, UserStep, NEW p, NEW r, NEW l \in 1 .. 32, NEW n, NEW k \in 1 .. 32,
           Runs(1, p, 2, r, "Ready", l, n), Program(1)[p] = SendBlkB(k)
    PROVE  Runs(2, r, 1, p, "Send", l, n)' /\ Works
<1> DEFINE c == Fetched.call
<1>1. Pair(1, 2) /\ pc[1] = p /\ mailbox[2].len = l /\ mailbox[2].from = 1 /\ state[2] = "Ready"
    BY DEF Runs, Table
<1>2. /\ Fetched = SendBlkB(k) /\ 1 \in Slots /\ 2 \in Slots /\ 2 \in Tids /\ current_tid = 1
    BY <1>1, Steps
<1>3. c = [sys |-> "sendblk", a |-> 2, n |-> k, buf |-> "user"]
    BY <1>2 DEF SendBlkB, Svc
<1>4. SendBlk(c)
    <2>1. handle_svc_from_el0(c)
        BY <1>1, <1>3, Steps
    <2> QED BY <1>3, <2>1, OneCall
<1>5. /\ ipc_send_result(2) = EAGAIN /\ send_x0(c) = EAGAIN
      /\ ~BufferFault(c) /\ is_valid_user_range(c) /\ c.n # 0
    BY <1>1, <1>2, <1>3 DEF ipc_send_result, send_x0, BufferFault, is_valid_user_range
<1>6. /\ \/ /\ block_and_switch(Rewound(c)) /\ Resumed
            /\ blocked_send_dst' = [blocked_send_dst EXCEPT ![1] = 2]
         \/ block_and_stay(Rewound(c))
      /\ UNCHANGED <<mailbox, wake_tick, waiting_on, exit_code, space>>
    BY <1>2, <1>3, <1>4, <1>5 DEF SendBlk, SendCommon, ipc_send, ESRCH, EAGAIN
<1>7. /\ Resumed
      /\ ~block_and_stay(Rewound(c))
      /\ mode' = "el0" /\ ~oops' /\ ~preempt' /\ current_tid' = 2 /\ ready_queue' = <<>>
      /\ state'[2] = "Running" /\ state'[1] = "Blocked"
      /\ \A v \in Tids \ {1, 2} : state'[v] = "Exited"
      /\ saved'[1].el = 0 /\ pc'[1] = p /\ pc'[2] = r /\ Works
      /\ demo' = demo /\ Printed(n)'
    BY <1>3, <1>6, Blocks
<1>8. blocked_send_dst'[1] = 2
    BY <1>2, <1>6, <1>7 DEF DInv, KInv, IInv, InfoOK
<1>9. Pair(2, 1)'
    BY <1>1, <1>6, <1>7 DEF Pair
<1> QED BY <1>1, <1>6, <1>7, <1>8, <1>9 DEF Runs, Table

\* B takes a message; if A waits for that, it is woken.
LEMMA Receives ==
    ASSUME DInv, UserStep, NEW p, NEW r, NEW m \in {"Ready", "Exited", "Send"}, NEW n,
           NEW l \in 1 .. 32,
           Runs(2, p, 1, r, m, l, n), Program(2)[p] \in {Receive, ReceiveBlk}
    PROVE  Runs(2, p + 1, 1, r, IF m = "Exited" THEN "Exited" ELSE "Ready", 0, n)' /\ Works
<1> DEFINE c == Fetched.call
<1>1. /\ Pair(2, 1) /\ pc[2] = p /\ mailbox[2].len = l /\ mailbox[2].from = 1
      /\ m # "Exited" => pc[1] = r /\ saved[1].el = 0
      /\ state[1] = (IF m \in {"Ready", "Exited"} THEN m ELSE "Blocked")
      /\ ready_queue = (IF m = "Ready" THEN <<1>> ELSE <<>>)
      /\ m = "Send" => blocked_send_dst[1] = 2
    <2>1. l > 0
        OBVIOUS
    <2> QED BY <2>1 DEF Runs, Table
<1>2. /\ Fetched \in {Receive, ReceiveBlk} /\ demo' = demo
      /\ 1 \in Slots /\ 2 \in Slots /\ 1 \in Tids /\ 2 \in Tids
      /\ state \in States /\ mode = "el0" /\ current_tid = 2 /\ state[2] = "Running"
    BY <1>1, Steps
<1>3. c.sys \in {"recv", "recvblk"} /\ c.n = 97 /\ c.buf = "user"
    BY <1>2, MessageCalls
<1>4. Recv(c) \/ RecvBlk(c)
    <2>1. handle_svc_from_el0(c)
        BY <1>1, <1>3, Steps
    <2> QED BY <1>3, <2>1, OneCall
<1>5. ~ipc_recv_empty /\ ~BufferFault(c) /\ is_valid_user_range(c) /\ c.n > 0 /\ c.n # 0
    BY <1>1, <1>2, <1>3 DEF ipc_recv_empty, BufferFault, is_valid_user_range
<1>6. /\ ipc_recv /\ Returned
      /\ UNCHANGED <<wake_tick, waiting_on, exit_code, space, saved, current_tid>>
    BY <1>4, <1>5 DEF Recv, RecvBlk, RecvCommon, NothingFor
<1>7. mailbox'[2].len = 0
    BY <1>2, <1>6 DEF ipc_recv, EmptyMailbox, DInv, KInv, IInv, InfoOK
<1>8. /\ pc'[2] = p + 1 /\ pc'[1] = pc[1] /\ Works
      /\ mode' = mode /\ oops' = oops /\ preempt' = preempt
    BY <1>1, <1>3, <1>6, Answered
<1>9. /\ ready_queue' = (IF m = "Exited" THEN <<>> ELSE <<1>>)
      /\ state'[1] = (IF m = "Exited" THEN "Exited" ELSE "Ready")
      /\ \A v \in Tids \ {1} : state'[v] = state[v]
    <2> DEFINE W == {t \in Tids : state[t] = "Blocked" /\ blocked_send_dst[t] = 2}
    <2>1. /\ state' = Woken(state, W)
          /\ \E w \in ScanOrders(W) : ready_queue' = enqueue_all(ready_queue, w)
        BY <1>2, <1>6 DEF ipc_recv, wake_blocked_senders
    <2>2. W = IF m = "Send" THEN {1} ELSE {}
        BY <1>1, <1>2 DEF Pair
    <2> HIDE DEF W
    <2>3. ready_queue \in Queues
        BY DEF DInv, KInv, IInv, SwitchOK
    <2>4. CASE m = "Send"
        <3>1. ready_queue' = enqueue_all(ready_queue, <<1>>) /\ state' = Woken(state, {1})
            BY <2>1, <2>2, <2>4, ScansOne
        <3>2. ready_queue' = enqueue(<<>>, 1) /\ state' = [state EXCEPT ![1] = "Ready"]
            BY <1>1, <1>2, <2>3, <2>4, <3>1, OneWake
        <3>3. enqueue(<<>>, 1) = <<1>>
            <4>1. Len(<<>>) = 0 /\ Append(<<>>, 1) = <<1>> /\ ~(0 >= MAX_TASKS)
                BY MaxTasksAssumption
            <4> QED BY <4>1 DEF enqueue
        <3> QED BY <1>2, <2>4, <3>2, <3>3, TidFacts DEF States
    <2>5. CASE m # "Send"
        <3>1. ready_queue' = enqueue_all(ready_queue, <<>>) /\ state' = Woken(state, {})
            BY <2>1, <2>2, <2>5, ScansNone
        <3>2. ready_queue' = ready_queue /\ state' = state
            BY <1>2, <2>3, <3>1, NoWake
        <3> QED BY <1>1, <2>5, <3>2
    <2> QED BY <2>4, <2>5
<1>10. Printed(n)'
    BY <1>2, <1>3, Silent DEF Runs, Table
<1>11. Pair(2, 1)'
    BY <1>1, <1>2, <1>6, <1>8, <1>9 DEF Pair
<1> QED BY <1>1, <1>2, <1>6, <1>7, <1>8, <1>9, <1>10, <1>11 DEF Runs, Table

\* B waits for a message that is not there yet.
LEMMA RecvWaits ==
    ASSUME DInv, UserStep, NEW p, NEW r, NEW n,
           Runs(2, p, 1, r, "Ready", 0, n), Program(2)[p] = ReceiveBlk
    PROVE  Runs(1, r, 2, p, "Recv", 0, n)' /\ Works
<1> DEFINE c == Fetched.call
<1>1. Pair(2, 1) /\ pc[2] = p /\ mailbox[2].len = 0
    BY DEF Runs, Table
<1>2. /\ Fetched = ReceiveBlk /\ 1 \in Slots /\ 2 \in Slots /\ 2 \in Tids /\ current_tid = 2
    BY <1>1, Steps
<1>3. c = [sys |-> "recvblk", a |-> 0, n |-> 97, buf |-> "user"]
    BY <1>2 DEF ReceiveBlk, Svc
<1>4. RecvBlk(c)
    <2>1. handle_svc_from_el0(c)
        BY <1>1, <1>3, Steps
    <2> QED BY <1>3, <2>1, OneCall
<1>5. ipc_recv_empty /\ is_valid_user_range(c) /\ c.n # 0
    BY <1>1, <1>2, <1>3 DEF ipc_recv_empty, is_valid_user_range
<1>6. /\ (block_and_switch(Rewound(c)) /\ Resumed) \/ block_and_stay(Rewound(c))
      /\ UNCHANGED infoVars
    BY <1>3, <1>4, <1>5 DEF RecvBlk, RecvCommon, ipc_recv
<1>7. /\ mode' = "el0" /\ ~oops' /\ ~preempt' /\ current_tid' = 1 /\ ready_queue' = <<>>
      /\ state'[1] = "Running" /\ state'[2] = "Blocked"
      /\ \A v \in Tids \ {1, 2} : state'[v] = "Exited"
      /\ saved'[2].el = 0 /\ pc'[2] = p /\ pc'[1] = r /\ Works
      /\ demo' = demo /\ Printed(n)'
    BY <1>3, <1>6, Blocks
<1>8. Pair(1, 2)'
    BY <1>1, <1>6, <1>7 DEF Pair, infoVars, waitVars
<1> QED BY <1>1, <1>6, <1>7, <1>8 DEF Runs, Table, infoVars, waitVars

\* A waits for B to exit, or finds that it has.
LEMMA WaitWaits ==
    ASSUME DInv, UserStep, NEW p, NEW r, NEW l, NEW n,
           Runs(1, p, 2, r, "Ready", l, n), Program(1)[p] = WaitB
    PROVE  Runs(2, r, 1, p, "Wait", l, n)' /\ Works
<1> DEFINE c == Fetched.call
<1>1. /\ Pair(1, 2) /\ pc[1] = p /\ state[2] = "Ready"
      /\ mailbox[2].len = l /\ (l > 0 => mailbox[2].from = 1)
    BY DEF Runs, Table
<1>2. /\ Fetched = WaitB /\ 1 \in Slots /\ 2 \in Slots /\ 2 \in Tids /\ current_tid = 1
    BY <1>1, Steps
<1>3. c = [sys |-> "wait", a |-> 2, n |-> 0, buf |-> "user"]
    BY <1>2 DEF WaitB, Svc
<1>4. Wait(c)
    <2>1. handle_svc_from_el0(c)
        BY <1>1, <1>3, Steps
    <2> QED BY <1>3, <2>1, OneCall
<1>5. try_wait_result(2) = "EAGAIN"
    BY <1>1, <1>2 DEF try_wait_result
<1>6. /\ \/ /\ block_and_switch(Rewound(c)) /\ Resumed
            /\ waiting_on' = [waiting_on EXCEPT ![1] = 2]
         \/ block_and_stay(Rewound(c))
      /\ UNCHANGED <<mailbox, blocked_send_dst, wake_tick, exit_code, space>>
    BY <1>2, <1>3, <1>4, <1>5 DEF Wait
<1>7. /\ ~block_and_stay(Rewound(c))
      /\ mode' = "el0" /\ ~oops' /\ ~preempt' /\ current_tid' = 2 /\ ready_queue' = <<>>
      /\ state'[2] = "Running" /\ state'[1] = "Blocked"
      /\ \A v \in Tids \ {1, 2} : state'[v] = "Exited"
      /\ saved'[1].el = 0 /\ pc'[1] = p /\ pc'[2] = r /\ Works
      /\ demo' = demo /\ Printed(n)'
    BY <1>3, <1>6, Blocks
<1>8. waiting_on'[1] = 2
    BY <1>2, <1>6, <1>7 DEF DInv, KInv, IInv, InfoOK
<1>9. Pair(2, 1)'
    BY <1>1, <1>6, <1>7 DEF Pair
<1> QED BY <1>1, <1>6, <1>7, <1>8, <1>9 DEF Runs, Table

LEMMA WaitEnds ==
    ASSUME DInv, UserStep, NEW p, NEW r, NEW l, NEW n,
           Runs(1, p, 2, r, "Exited", l, n), Program(1)[p] = WaitB
    PROVE  Runs(1, p + 1, 2, r, "Exited", l, n)' /\ Works
<1> DEFINE c == Fetched.call
<1>1. Pair(1, 2) /\ pc[1] = p /\ state[2] = "Exited" /\ exit_code[2] = 42
    BY DEF Runs, Table
<1>2. /\ Fetched = WaitB /\ 2 \in Tids /\ demo' = demo
    BY <1>1, Steps
<1>3. c = [sys |-> "wait", a |-> 2, n |-> 0, buf |-> "user"]
    BY <1>2 DEF WaitB, Svc
<1>4. Wait(c)
    <2>1. handle_svc_from_el0(c)
        BY <1>1, <1>3, Steps
    <2> QED BY <1>3, <2>1, OneCall
<1>5. try_wait_result(2) = "Ok"
    BY <1>1, <1>2 DEF try_wait_result
<1>6. Return
    BY <1>3, <1>4, <1>5 DEF Wait
<1>7. pc'[1] = p + 1 /\ Works /\ mode' = mode /\ oops' = oops /\ preempt' = preempt
    BY <1>1, <1>3, <1>6, Answered DEF Return
<1>8. Printed(n)'
    BY <1>2, <1>3, Silent DEF Runs, Table
<1>9. UNCHANGED <<infoVars, state, saved, ready_queue, current_tid>>
    BY <1>6 DEF Return
<1> QED BY <1>1, <1>7, <1>8, <1>9 DEF Runs, Table, Pair, infoVars, waitVars

\* What an exit of task t with code k leaves, u being in mood m.
ExitOutcome(t, u, m, k, n) ==
    LET st == Woken([state EXCEPT ![t] = "Exited"], IF m = "Wait" THEN {u} ELSE {})
        q  == IF m = "Exited" THEN <<>> ELSE <<u>> IN
    /\ st \in States /\ st[t] = "Exited" /\ st[u] = (IF m = "Exited" THEN "Exited" ELSE "Ready")
    /\ \A v \in Tids \ {t, u} : st[v] = "Exited"
    /\ \/ save_and_switch(st, q, frame) /\ Resumed
       \/ save_and_stay(st, q, frame) /\ on_el0_return
    /\ exit_code' = [exit_code EXCEPT ![t] = k]
    /\ UNCHANGED <<mailbox, blocked_send_dst, wake_tick, space>>
    /\ demo' = demo /\ Printed(n)' /\ Works

\* The task on the CPU exits; its waiter is woken.
LEMMA ExitWakes ==
    ASSUME DInv, UserStep, NEW t, NEW p, NEW u, NEW r, NEW m, NEW l, NEW n,
           Runs(t, p, u, r, m, l, n), NEW k, Program(t)[p] = Exits(k),
           m \in {"Ready", "Exited"} \/ (m = "Wait" /\ t = 2)
    PROVE  ExitOutcome(t, u, m, k, n)
<1> DEFINE c == Fetched.call
           s0 == [state EXCEPT ![t] = "Exited"]
           W  == Waiters(t) \ {t}
           V  == IF m = "Wait" THEN {u} ELSE {}
<1>1. /\ Pair(t, u) /\ pc[t] = p
      /\ state[u] = (IF m \in {"Ready", "Exited"} THEN m ELSE "Blocked")
      /\ ready_queue = (IF m = "Ready" THEN <<u>> ELSE <<>>)
      /\ m = "Wait" => waiting_on[u] = 2
    BY DEF Runs, Table
<1>2. /\ Fetched = Exits(k) /\ demo' = demo /\ t \in Slots /\ u \in Slots /\ t \in Tids /\ u \in Tids
      /\ state \in States /\ mode = "el0" /\ current_tid = t /\ t # 0 /\ t # u /\ state[t] = "Running"
    BY <1>1, Steps
<1>3. c = [sys |-> "exit", a |-> k, n |-> 0, buf |-> "user"]
    BY <1>2 DEF Exits, Svc
<1>4. Exit(c)
    <2>1. handle_svc_from_el0(c)
        BY <1>1, <1>3, Steps
    <2> QED BY <1>3, <2>1, OneCall
<1>5. /\ \E w \in ScanOrders(W) :
           LET q == enqueue_all(ready_queue, w) IN
           \/ save_and_switch(Woken(s0, W), q, frame) /\ Resumed
           \/ save_and_stay(Woken(s0, W), q, frame) /\ on_el0_return
      /\ exit_code' = [exit_code EXCEPT ![t] = k]
      /\ UNCHANGED <<mailbox, blocked_send_dst, wake_tick, space>>
    <2>1. current_tid # 0
        BY <1>2
    <2>2. /\ \E w \in ScanOrders(Waiters(current_tid) \ {current_tid}) :
               LET st == Woken([state EXCEPT ![current_tid] = "Exited"],
                               Waiters(current_tid) \ {current_tid})
                   q  == enqueue_all(ready_queue, w) IN
               \/ save_and_switch(st, q, frame) /\ Resumed
               \/ save_and_stay(st, q, frame) /\ on_el0_return
          /\ exit_code' = [exit_code EXCEPT ![current_tid] = c.a]
          /\ UNCHANGED <<mailbox, blocked_send_dst, wake_tick, space>>
        BY <1>4, <2>1 DEF Exit
    <2> HIDE DEF c
    <2> QED BY <1>2, <1>3, <2>2
<1>6. W = V
    BY <1>1, <1>2 DEF Pair, Waiters
<1>7. ready_queue \in Queues
    BY DEF DInv, KInv, IInv, SwitchOK
<1>8. /\ s0 \in States /\ s0[t] = "Exited" /\ s0[u] = state[u]
      /\ \A v \in Tids \ {t, u} : s0[v] = "Exited"
    BY <1>1, <1>2, TidFacts DEF States, TaskState, Pair
<1> HIDE DEF W, V, s0
<1>9. \A w \in ScanOrders(V) : enqueue_all(ready_queue, w) = IF m = "Exited" THEN <<>> ELSE <<u>>
    <2>1. CASE m = "Wait"
        <3>1. enqueue(<<>>, u) = <<u>>
            <4>1. Len(<<>>) = 0 /\ Append(<<>>, u) = <<u>> /\ ~(0 >= MAX_TASKS)
                BY <1>2, MaxTasksAssumption
            <4> QED BY <4>1 DEF enqueue
        <3>2. enqueue_all(ready_queue, <<u>>) = enqueue(ready_queue, u)
            BY <1>2, <1>7, OneWake
        <3>3. \A w \in ScanOrders({u}) : w = <<u>>
            BY ScansOne
        <3> QED BY <1>1, <2>1, <3>1, <3>2, <3>3 DEF V
    <2>2. CASE m # "Wait"
        <3>1. enqueue_all(ready_queue, <<>>) = ready_queue
            BY <1>7, NoWake
        <3>2. \A w \in ScanOrders({}) : w = <<>>
            BY ScansNone
        <3>3. ready_queue = IF m = "Exited" THEN <<>> ELSE <<u>>
            BY <1>1, <2>2
        <3> QED BY <2>2, <3>1, <3>2, <3>3 DEF V
    <2> QED BY <2>1, <2>2
<1>10. /\ Woken(s0, V) \in States /\ Woken(s0, V)[t] = "Exited"
       /\ Woken(s0, V)[u] = (IF m = "Exited" THEN "Exited" ELSE "Ready")
       /\ \A v \in Tids \ {t, u} : Woken(s0, V)[v] = "Exited"
    BY <1>1, <1>2, <1>8, TidFacts DEF Woken, V, States, TaskState
<1>11. Works
    BY <1>1, <1>3, Moves
<1>12. Printed(n)'
    BY <1>2, <1>3, Silent DEF Runs, Table
<1> DEFINE q == IF m = "Exited" THEN <<>> ELSE <<u>>
<1>13. \/ save_and_switch(Woken(s0, V), q, frame) /\ Resumed
       \/ save_and_stay(Woken(s0, V), q, frame) /\ on_el0_return
    BY <1>5, <1>6, <1>9
<1> QED BY <1>2, <1>5, <1>10, <1>11, <1>12, <1>13 DEF V, s0, ExitOutcome

LEMMA ExitPasses ==
    ASSUME DInv, UserStep, NEW t, NEW p, NEW u, NEW r, NEW m, NEW l, NEW n,
           Runs(t, p, u, r, m, l, n), NEW k, Program(t)[p] = Exits(k), t = 2 => k = 42,
           m = "Ready" \/ (m = "Wait" /\ t = 2)
    PROVE  Runs(u, r, t, 0, "Exited", l, n)' /\ Works
<1> DEFINE st == Woken([state EXCEPT ![t] = "Exited"], IF m = "Wait" THEN {u} ELSE {})
<1>1. /\ Pair(t, u) /\ pc[t] = p /\ pc[u] = r /\ state[u] # "Exited" /\ saved[u].el = 0
      /\ mailbox[2].len = l /\ (l > 0 => mailbox[2].from = 1)
    BY DEF Runs, Table
<1>2. /\ t \in Slots /\ u \in Slots /\ t \in Tids /\ u \in Tids
      /\ current_tid = t /\ t # 0 /\ t # u /\ Fetched = Exits(k)
    BY <1>1, Steps
<1>3. /\ st \in States /\ st[t] = "Exited" /\ st[u] = "Ready"
      /\ \A v \in Tids \ {t, u} : st[v] = "Exited"
      /\ \/ save_and_switch(st, <<u>>, frame) /\ Resumed
         \/ save_and_stay(st, <<u>>, frame)
      /\ exit_code' = [exit_code EXCEPT ![t] = k]
      /\ UNCHANGED <<mailbox, blocked_send_dst, wake_tick, space>>
      /\ demo' = demo /\ Printed(n)' /\ Works
    <2> DEFINE q == IF m = "Exited" THEN <<>> ELSE <<u>>
    <2>1. ExitOutcome(t, u, m, k, n)
        BY ExitWakes
    <2>2. /\ st \in States /\ st[t] = "Exited" /\ st[u] = (IF m = "Exited" THEN "Exited" ELSE "Ready")
          /\ \A v \in Tids \ {t, u} : st[v] = "Exited"
          /\ \/ save_and_switch(st, q, frame) /\ Resumed
             \/ save_and_stay(st, q, frame) /\ on_el0_return
          /\ exit_code' = [exit_code EXCEPT ![t] = k]
          /\ UNCHANGED <<mailbox, blocked_send_dst, wake_tick, space>>
          /\ demo' = demo /\ Printed(n)' /\ Works
        BY <2>1 DEF ExitOutcome
    <2>3. q = <<u>> /\ m # "Exited"
        OBVIOUS
    <2> HIDE DEF st, q
    <2> QED BY <2>2, <2>3
<1> HIDE DEF st
<1>4. ReadyState(st) = st /\ ReadyQueue(st, <<u>>) = <<u>> /\ SaveCurrent(st, frame) = saved
    BY <1>2, <1>3 DEF ReadyState, ReadyQueue, Requeues, SaveCurrent, task
<1>5. Head(<<u>>) = u /\ Tail(<<u>>) = <<>> /\ <<u>> # <<>>
    OBVIOUS
<1>6. Load(st, <<u>>, saved) /\ Resumed
    <2>1. CanSwitch(st, <<u>>)
        BY <1>2, <1>3, <1>5 DEF CanSwitch, task
    <2> QED BY <1>3, <1>4, <2>1 DEF save_and_switch, save_and_stay, Stay
<1>7. /\ mode' = "el0" /\ oops' = oops /\ preempt' = preempt
      /\ current_tid' = u /\ ready_queue' = <<>> /\ saved' = saved
      /\ \A v \in Tids : state'[v] = IF v = u THEN "Running" ELSE st[v]
      /\ frame'.own = u
    <2> DEFINE q == <<u>>
    <2>1. Head(q) = u /\ Tail(q) = <<>> /\ Load(st, q, saved)
        BY <1>5, <1>6
    <2> HIDE DEF q
    <2>2. /\ mode' = "el0" /\ oops' = oops /\ preempt' = preempt
          /\ current_tid' = u /\ ready_queue' = Tail(q) /\ saved' = saved
          /\ \A v \in Tids : state'[v] = IF v = u THEN "Running" ELSE st[v]
          /\ frame'.own = u
        BY <1>1, <1>3, <1>6, <2>1, Passes
    <2> QED BY <2>1, <2>2
<1>8. pc'[u] = r
    <2>1. pc' = pc \/ pc'[u] = pc[u]
        BY <1>1, Moves
    <2> QED BY <1>1, <2>1
<1>9. t = 2 => exit_code'[t] = 42
    BY <1>2, <1>3 DEF DInv, KInv, IInv, InfoOK
<1>10. Pair(u, t)'
    BY <1>1, <1>2, <1>3, <1>7 DEF Pair
<1> QED BY <1>1, <1>2, <1>3, <1>7, <1>8, <1>9, <1>10 DEF Runs, Table

\* The last task exits: back to the monitor.
LEMMA ExitEnds ==
    ASSUME DInv, UserStep, NEW t, NEW p, NEW u, NEW r, NEW l, NEW n,
           Runs(t, p, u, r, "Exited", l, n), NEW k, Program(t)[p] = Exits(k)
    PROVE  /\ mode' = "monitor" /\ oops' /\ demo' = demo /\ Printed(n)' /\ Works
           /\ \A v \in Tids : state'[v] = "Exited"
<1> DEFINE st == Woken([state EXCEPT ![t] = "Exited"], {})
<1>1. Pair(t, u)
    BY DEF Runs, Table
<1>2. current_tid = t /\ t # 0
    BY <1>1, Steps
<1>3. /\ st \in States /\ st[t] = "Exited" /\ st[u] = "Exited"
      /\ \A v \in Tids \ {t, u} : st[v] = "Exited"
      /\ \/ save_and_switch(st, <<>>, frame)
         \/ save_and_stay(st, <<>>, frame) /\ on_el0_return
      /\ demo' = demo /\ Printed(n)' /\ Works
    <2>1. ExitOutcome(t, u, "Exited", k, n)
        BY ExitWakes
    <2>2. (IF "Exited" = "Exited" THEN <<>> ELSE <<u>>) = <<>>
          /\ (IF "Exited" = "Wait" THEN {u} ELSE {}) = {}
        OBVIOUS
    <2> QED BY <2>1, <2>2 DEF ExitOutcome
<1> HIDE DEF st
<1>4. ReadyState(st) = st /\ ReadyQueue(st, <<>>) = <<>>
    BY <1>2, <1>3 DEF ReadyState, ReadyQueue, Requeues
<1>5. state' = st /\ on_el0_return
    BY <1>3, <1>4 DEF save_and_switch, save_and_stay, Load, CanSwitch, Stay
<1> QED BY <1>3, <1>5 DEF on_el0_return

\* A faults: B goes on.
LEMMA FaultPasses ==
    ASSUME DInv, UserStep, NEW p, NEW r, NEW l, NEW n,
           Runs(1, p, 2, r, "Ready", l, n), Program(1)[p] = Store0
    PROVE  Runs(2, r, 1, 0, "Exited", l, n)' /\ Works
<1> DEFINE st == [state EXCEPT ![1] = "Exited"]
<1>1. /\ Pair(1, 2) /\ pc[1] = p /\ pc[2] = r /\ state[2] = "Ready" /\ saved[2].el = 0
      /\ mailbox[2].len = l /\ (l > 0 => mailbox[2].from = 1) /\ ready_queue = <<2>>
    BY DEF Runs, Table
<1>2. /\ 1 \in Slots /\ 2 \in Slots /\ 1 \in Tids /\ 2 \in Tids
      /\ current_tid = 1 /\ Fetched = Store0 /\ state \in States /\ demo' = demo
    BY <1>1, Steps
<1>3. Fetched.call.sys = "fault"
    BY <1>2 DEF Store0, Svc
<1>4. Fault
    BY <1>1, <1>3, Steps
<1>5. /\ (Load(st, ready_queue, saved) /\ Resumed) \/ Stay(st, ready_queue, saved)
      /\ mailbox' = [mailbox EXCEPT ![1] = EmptyMailbox]
      /\ wake_tick' = [wake_tick EXCEPT ![1] = 0]
      /\ UNCHANGED space
    BY <1>2, <1>4 DEF Fault
<1>6. st \in States /\ st[1] = "Exited" /\ st[2] = "Ready" /\ \A v \in Tids \ {1, 2} : st[v] = "Exited"
    BY <1>1, <1>2, TidFacts DEF States, TaskState, Pair
<1> HIDE DEF st
<1>7. Head(<<2>>) = 2 /\ Tail(<<2>>) = <<>> /\ <<2>> # <<>>
    OBVIOUS
<1>8. Load(st, <<2>>, saved) /\ Resumed
    <2>1. CanSwitch(st, <<2>>)
        BY <1>2, <1>6, <1>7 DEF CanSwitch, task
    <2> QED BY <1>1, <1>5, <2>1 DEF Stay
<1>9. /\ mode' = "el0" /\ oops' = oops /\ preempt' = preempt
      /\ current_tid' = 2 /\ ready_queue' = <<>> /\ saved' = saved
      /\ \A v \in Tids : state'[v] = IF v = 2 THEN "Running" ELSE st[v]
      /\ frame'.own = 2
    <2> DEFINE q == <<2>>
    <2>1. Head(q) = 2 /\ Tail(q) = <<>> /\ Load(st, q, saved)
        BY <1>7, <1>8
    <2> HIDE DEF q
    <2>2. /\ mode' = "el0" /\ oops' = oops /\ preempt' = preempt
          /\ current_tid' = 2 /\ ready_queue' = Tail(q) /\ saved' = saved
          /\ \A v \in Tids : state'[v] = IF v = 2 THEN "Running" ELSE st[v]
          /\ frame'.own = 2
        BY <1>1, <1>6, <1>8, <2>1, Passes
    <2> QED BY <2>1, <2>2
<1>10. pc'[2] = r /\ Works
    <2>1. (pc' = pc \/ pc'[2] = pc[2]) /\ Works
        BY <1>1, <1>3, Moves
    <2> QED BY <1>1, <2>1
<1>11. Printed(n)'
    BY <1>2, <1>3, Silent DEF Runs, Table
<1>12. mailbox'[2] = mailbox[2] /\ wake_tick'[1] = 0 /\ wake_tick'[2] = wake_tick[2]
    BY <1>2, <1>5 DEF DInv, KInv, IInv, InfoOK
<1>13. Pair(2, 1)'
    BY <1>1, <1>2, <1>5, <1>6, <1>9, <1>12 DEF Pair
<1> QED BY <1>1, <1>2, <1>6, <1>9, <1>10, <1>11, <1>12, <1>13 DEF Runs, Table

\* A program without a TCB is at its p-th call.
Solo(p, n) ==
    /\ mode = "el0" /\ ~oops /\ ~preempt
    /\ current_tid = 0 /\ pc[0] = p /\ ttbr0 = SoloSpace
    /\ \A v \in Tids : state[v] = "Exited"
    /\ Printed(n)

\* All n lines are out, nobody is left, and the monitor has the core.
Over(n) == mode = "monitor" /\ oops /\ Printed(n) /\ \A v \in Tids : state[v] = "Exited"

LEMMA SoloSteps ==
    ASSUME DInv, UserStep, NEW p, NEW n, Solo(p, n)
    PROVE  /\ frame.own = 0 /\ 0 \in Slots /\ frame \in Frames /\ Fetched = demo.a[p] /\ demo' = demo
           /\ Fetched.call.sys # "fault" => handle_svc_from_el0(Fetched.call)
           /\ Fetched.call.sys = "fault" => Fault
           /\ Works
<1>1. /\ frame.own = 0 /\ Fetched = demo.a[p] /\ frame \in Frames
    BY FetchesOwn, TwoTids DEF Solo, DInv, KInv, IInv, CpuOK, Program
<1>2. \/ Fetched.call \in Calls /\ handle_svc_from_el0(Fetched.call)
      \/ Fetched.call.sys = "fault" /\ Fault
    BY UserStepIsKernels DEF DInv
<1>3. handle_svc_from_el0(Fetched.call) => Fetched.call.sys # "fault"
    BY DEF handle_svc_from_el0, Write, Yield, Send, Recv, RecvBlk, SendBlk, Sleep, Wait, Exit, Unknown
<1>4. Works
    <2>1. pc' = pc \/ pc' = [pc EXCEPT ![0] = @ + 1]
        BY <1>1 DEF UserStep
    <2>2. \A v \in Tids : v \in Slots /\ v # 0 /\ ~(pc[v] > pc[v])
        BY TidFacts DEF DInv
    <2>3. \A v \in Tids : pc'[v] = pc[v]
        BY <2>1, <2>2 DEF DInv
    <2> QED BY <2>2, <2>3 DEF Works
<1> QED BY <1>1, <1>2, <1>3, <1>4, TidFacts DEF UserStep

\* Its calls return to it.
LEMMA SoloReturns ==
    ASSUME DInv, UserStep, NEW p, NEW n, Solo(p, n), Return, Fetched.call.sys # "none",
           NEW i, Printed(i)'
    PROVE  Solo(p + 1, i)'
<1>1. frame'.svc = NoCall /\ frame'.own = 0 /\ NoCall # Fetched.call
    BY SoloSteps DEF Return, Returned, Frames, NoCall
<1>2. pc'[0] = p + 1
    <2>1. frame.own = 0 /\ 0 \in Slots /\ pc \in [Slots -> Nat] /\ pc[0] = p
        BY SoloSteps DEF DInv, Solo
    <2>2. pc' = [pc EXCEPT ![0] = @ + 1]
        BY <1>1, <2>1 DEF UserStep
    <2> QED BY <2>1, <2>2
<1>3. UNCHANGED <<mode, oops, preempt, ttbr0, current_tid, state>>
    BY DEF Return, Returned, devVars
<1> QED BY <1>2, <1>3 DEF Solo

LEMMA SoloSays ==
    ASSUME DInv, UserStep, NEW p, NEW n, Solo(p, n), n + 1 <= Len(demo.prints),
           NEW k \in 1 .. 256, demo.a[p] = Say(demo.prints[n + 1], k)
    PROVE  Solo(p + 1, n + 1)' /\ Works
<1> DEFINE c == Fetched.call
<1>1. Fetched = Say(demo.prints[n + 1], k) /\ demo' = demo
    BY SoloSteps
<1>2. /\ c = [sys |-> "write", a |-> 1, n |-> k, buf |-> "user"] /\ Fetched.text = demo.prints[n + 1]
      /\ c.sys = "write" /\ c.a = 1 /\ c.n = k /\ c.buf = "user"
    BY <1>1 DEF Say, Svc
<1>3. Write(c)
    BY <1>2, SoloSteps, OneCall
<1>4. write_x0(c) > 0 /\ ~BufferFault(c)
    BY <1>2, WriteAnswer
<1>5. Return
    BY <1>3, <1>4 DEF Write
<1>6. out' = Append(out, demo.prints[n + 1])
    <2>1. out' = IF c.sys = "write" /\ write_x0(c) > 0 THEN Append(out, Fetched.text) ELSE out
        BY DEF UserStep
    <2>2. c.sys = "write" /\ write_x0(c) > 0
        BY <1>2, <1>4
    <2>3. out' = Append(out, Fetched.text)
        BY <2>1, <2>2
    <2> QED BY <1>2, <2>3
<1>7. Printed(n + 1)'
    BY <1>1, <1>6, PrintsNext DEF Solo, DInv, ProgInv
<1> QED BY <1>2, <1>5, <1>7, SoloReturns, SoloSteps

LEMMA SoloYields ==
    ASSUME DInv, UserStep, NEW p, NEW n, Solo(p, n), demo.a[p] = YieldCpu
    PROVE  Solo(p + 1, n)' /\ Works
<1>1. Fetched.call.sys = "yield" /\ demo' = demo
    <2>1. Fetched = YieldCpu /\ demo' = demo
        BY SoloSteps
    <2> QED BY <2>1 DEF YieldCpu, Svc
<1>2. Yield(Fetched.call)
    BY <1>1, SoloSteps, OneCall
<1>3. Return
    BY <1>2 DEF Yield, Solo
<1>4. Printed(n)'
    BY <1>1, Silent DEF Solo
<1> QED BY <1>1, <1>3, <1>4, SoloReturns, SoloSteps

LEMMA SoloEnds ==
    ASSUME DInv, UserStep, NEW p, NEW n, Solo(p, n),
           demo.a[p] = Store0 \/ (\E k : demo.a[p] = Exits(k))
    PROVE  Over(n)' /\ Works
<1>1. Fetched.call.sys \in {"fault", "exit"} /\ demo' = demo
    <2>1. (Fetched = Store0 \/ \E k : Fetched = Exits(k)) /\ demo' = demo
        BY SoloSteps
    <2>2. Store0.call.sys = "fault" /\ \A k : Exits(k).call.sys = "exit"
        BY DEF Store0, Exits, Svc
    <2> QED BY <2>1, <2>2
<1>2. Exit(Fetched.call) \/ Fault
    BY <1>1, SoloSteps, OneCall
<1>3. on_el0_return /\ state' = state
    BY <1>2 DEF Exit, Fault, Solo
<1>4. Printed(n)'
    BY <1>1, Silent DEF Solo
<1> QED BY <1>3, <1>4, SoloSteps DEF Solo, Over, on_el0_return

(***************************************************************************)
(* The scripts: the scenes of each demo in order, and that each scene leads *)
(* to the next or, after the last line, back to the monitor.               *)
(***************************************************************************)
\* Task A (TID 1), or task B (TID 2), has the CPU.
AB(p, r, m, l, n) == Runs(1, p, 2, r, m, l, n)
BA(p, r, m, l, n) == Runs(2, p, 1, r, m, l, n)

LEMMA LinesOf ==
    ASSUME NEW s
    PROVE  /\ \A x, y, z, w : s = <<x, y, z, w>> =>
                Len(s) = 4 /\ s[1] = x /\ s[2] = y /\ s[3] = z /\ s[4] = w
           /\ \A x, y : s = <<x, y>> => Len(s) = 2 /\ s[1] = x /\ s[2] = y
OBVIOUS

\* Two programs that yield to each other.
ScheduledScene ==
    \/ AB(1, 1, "Ready", 0, 0) \/ AB(2, 1, "Ready", 0, 1) \/ BA(1, 3, "Ready", 0, 1)
    \/ BA(2, 3, "Ready", 0, 2) \/ AB(3, 3, "Ready", 0, 2) \/ AB(4, 3, "Ready", 0, 3)
    \/ BA(3, 0, "Exited", 0, 3) \/ BA(4, 0, "Exited", 0, 4)

LEMMA ScheduledLines ==
    /\ scheduled.a[1] = Say(scheduled.prints[1], 13) /\ scheduled.a[2] = YieldCpu
    /\ scheduled.a[3] = Say(scheduled.prints[3], 17) /\ scheduled.a[4] = Exits(17)
    /\ scheduled.b[1] = Say(scheduled.prints[2], 8) /\ scheduled.b[2] = YieldCpu
    /\ scheduled.b[3] = Say(scheduled.prints[4], 8) /\ scheduled.b[4] = Exits(8)
    /\ Len(scheduled.prints) = 4
<1>1. /\ scheduled.prints = <<"hello, EL0!", "task B!", "back from yield", "B done!">>
      /\ scheduled.a = USER_PROGRAM /\ scheduled.b = TASK_B_PROGRAM
    BY DEF scheduled
<1>2. /\ USER_PROGRAM[1] = Say("hello, EL0!", 13) /\ USER_PROGRAM[2] = YieldCpu
      /\ USER_PROGRAM[3] = Say("back from yield", 17) /\ USER_PROGRAM[4] = Exits(17)
    BY DEF USER_PROGRAM
<1>3. /\ TASK_B_PROGRAM[1] = Say("task B!", 8) /\ TASK_B_PROGRAM[2] = YieldCpu
      /\ TASK_B_PROGRAM[3] = Say("B done!", 8) /\ TASK_B_PROGRAM[4] = Exits(8)
    BY DEF TASK_B_PROGRAM
<1>4. \E w, x, y, z :
         /\ scheduled.prints = <<w, x, y, z>>
         /\ scheduled.a[1] = Say(w, 13) /\ scheduled.a[2] = YieldCpu /\ scheduled.a[3] = Say(y, 17)
         /\ scheduled.a[4] = Exits(17)
         /\ scheduled.b[1] = Say(x, 8) /\ scheduled.b[2] = YieldCpu /\ scheduled.b[3] = Say(z, 8)
         /\ scheduled.b[4] = Exits(8)
    BY <1>1, <1>2, <1>3
<1> QED BY <1>4, LinesOf

LEMMA ScheduledGoes ==
    ASSUME DInv, UserStep, demo = scheduled, ScheduledScene
    PROVE  demo' = demo /\ (ScheduledScene' \/ Over(4)') /\ Works
<1>1. Program(1) = demo.a /\ Program(2) = demo.b
    BY DEF Program
<1>2. demo' = demo
    BY DEF UserStep
<1>3. AB(1, 1, "Ready", 0, 0) => AB(2, 1, "Ready", 0, 1)' /\ Works
    BY <1>1, ScheduledLines, SayScene DEF AB
<1>4. AB(2, 1, "Ready", 0, 1) => BA(1, 3, "Ready", 0, 1)' /\ Works
    BY <1>1, ScheduledLines, Yields DEF AB, BA
<1>5. BA(1, 3, "Ready", 0, 1) => BA(2, 3, "Ready", 0, 2)' /\ Works
    BY <1>1, ScheduledLines, SayScene DEF BA
<1>6. BA(2, 3, "Ready", 0, 2) => AB(3, 3, "Ready", 0, 2)' /\ Works
    BY <1>1, ScheduledLines, Yields DEF AB, BA
<1>7. AB(3, 3, "Ready", 0, 2) => AB(4, 3, "Ready", 0, 3)' /\ Works
    BY <1>1, ScheduledLines, SayScene DEF AB
<1>8. AB(4, 3, "Ready", 0, 3) => BA(3, 0, "Exited", 0, 3)' /\ Works
    BY <1>1, ScheduledLines, ExitPasses DEF AB, BA
<1>9. BA(3, 0, "Exited", 0, 3) => BA(4, 0, "Exited", 0, 4)' /\ Works
    BY <1>1, ScheduledLines, SayScene DEF BA
<1>10. BA(4, 0, "Exited", 0, 4) => Over(4)' /\ Works
    BY <1>1, ScheduledLines, ExitEnds DEF BA, Over
<1> QED BY <1>2, <1>3, <1>4, <1>5, <1>6, <1>7, <1>8, <1>9, <1>10 DEF ScheduledScene

\* B receives what A sent before its turn came.
IpcScene ==
    \/ AB(1, 1, "Ready", 0, 0) \/ AB(2, 1, "Ready", 0, 1) \/ AB(3, 1, "Ready", 8, 1)
    \/ BA(1, 4, "Ready", 8, 1) \/ BA(2, 4, "Ready", 8, 2) \/ AB(4, 3, "Ready", 8, 2)
    \/ AB(5, 3, "Ready", 8, 3) \/ BA(3, 0, "Exited", 8, 3) \/ BA(4, 0, "Exited", 0, 3)
    \/ BA(5, 0, "Exited", 0, 4)

LEMMA IpcLines ==
    /\ ipc.a[1] = Say(ipc.prints[1], 12) /\ ipc.a[2] = SendB(8)
    /\ ipc.a[3] = YieldCpu /\ ipc.a[4] = Say(ipc.prints[3], 8)
    /\ ipc.a[5] = Exits(8)
    /\ ipc.b[1] = Say(ipc.prints[2], 12) /\ ipc.b[2] = YieldCpu
    /\ ipc.b[3] = Receive /\ ipc.b[4] = Say(ipc.prints[4], 13)
    /\ ipc.b[5] = Exits(13)
    /\ Len(ipc.prints) = 4
<1>1. /\ ipc.prints = <<"A: sending", "B: waiting", "A: sent", "B: got msg!">>
      /\ ipc.a = TASK_IPC_SENDER /\ ipc.b = TASK_IPC_RECEIVER
    BY DEF ipc
<1>2. /\ TASK_IPC_SENDER[1] = Say("A: sending", 12) /\ TASK_IPC_SENDER[2] = SendB(8)
      /\ TASK_IPC_SENDER[3] = YieldCpu /\ TASK_IPC_SENDER[4] = Say("A: sent", 8)
      /\ TASK_IPC_SENDER[5] = Exits(8)
    BY DEF TASK_IPC_SENDER
<1>3. /\ TASK_IPC_RECEIVER[1] = Say("B: waiting", 12) /\ TASK_IPC_RECEIVER[2] = YieldCpu
      /\ TASK_IPC_RECEIVER[3] = Receive /\ TASK_IPC_RECEIVER[4] = Say("B: got msg!", 13)
      /\ TASK_IPC_RECEIVER[5] = Exits(13)
    BY DEF TASK_IPC_RECEIVER
<1>4. \E w, x, y, z :
         /\ ipc.prints = <<w, x, y, z>>
         /\ ipc.a[1] = Say(w, 12) /\ ipc.a[2] = SendB(8) /\ ipc.a[3] = YieldCpu
         /\ ipc.a[4] = Say(y, 8) /\ ipc.a[5] = Exits(8)
         /\ ipc.b[1] = Say(x, 12) /\ ipc.b[2] = YieldCpu /\ ipc.b[3] = Receive
         /\ ipc.b[4] = Say(z, 13) /\ ipc.b[5] = Exits(13)
    BY <1>1, <1>2, <1>3
<1> QED BY <1>4, LinesOf

LEMMA IpcGoes ==
    ASSUME DInv, UserStep, demo = ipc, IpcScene
    PROVE  demo' = demo /\ (IpcScene' \/ Over(4)') /\ Works
<1>1. Program(1) = demo.a /\ Program(2) = demo.b
    BY DEF Program
<1>2. demo' = demo
    BY DEF UserStep
<1>3. AB(1, 1, "Ready", 0, 0) => AB(2, 1, "Ready", 0, 1)' /\ Works
    BY <1>1, IpcLines, SayScene DEF AB
<1>4. AB(2, 1, "Ready", 0, 1) => AB(3, 1, "Ready", 8, 1)' /\ Works
    BY <1>1, IpcLines, Delivers DEF AB
<1>5. AB(3, 1, "Ready", 8, 1) => BA(1, 4, "Ready", 8, 1)' /\ Works
    BY <1>1, IpcLines, Yields DEF AB, BA
<1>6. BA(1, 4, "Ready", 8, 1) => BA(2, 4, "Ready", 8, 2)' /\ Works
    BY <1>1, IpcLines, SayScene DEF BA
<1>7. BA(2, 4, "Ready", 8, 2) => AB(4, 3, "Ready", 8, 2)' /\ Works
    BY <1>1, IpcLines, Yields DEF AB, BA
<1>8. AB(4, 3, "Ready", 8, 2) => AB(5, 3, "Ready", 8, 3)' /\ Works
    BY <1>1, IpcLines, SayScene DEF AB
<1>9. AB(5, 3, "Ready", 8, 3) => BA(3, 0, "Exited", 8, 3)' /\ Works
    BY <1>1, IpcLines, ExitPasses DEF AB, BA
<1>10. BA(3, 0, "Exited", 8, 3) => BA(4, 0, "Exited", 0, 3)' /\ Works
    BY <1>1, IpcLines, Receives DEF BA
<1>11. BA(4, 0, "Exited", 0, 3) => BA(5, 0, "Exited", 0, 4)' /\ Works
    BY <1>1, IpcLines, SayScene DEF BA
<1>12. BA(5, 0, "Exited", 0, 4) => Over(4)' /\ Works
    BY <1>1, IpcLines, ExitEnds DEF BA, Over
<1> QED BY <1>2, <1>3, <1>4, <1>5, <1>6, <1>7, <1>8, <1>9, <1>10, <1>11, <1>12 DEF IpcScene

\* B waits for a message that A sends later.
BlkipcScene ==
    \/ AB(1, 1, "Ready", 0, 0) \/ AB(2, 1, "Ready", 0, 1) \/ BA(1, 3, "Ready", 0, 1)
    \/ BA(2, 3, "Ready", 0, 2) \/ AB(3, 2, "Recv", 0, 2) \/ AB(4, 2, "Ready", 5, 2)
    \/ AB(5, 2, "Ready", 5, 3) \/ BA(2, 0, "Exited", 5, 3) \/ BA(3, 0, "Exited", 0, 3)
    \/ BA(4, 0, "Exited", 0, 4)

LEMMA BlkipcLines ==
    /\ blkipc.a[1] = Say(blkipc.prints[1], 9) /\ blkipc.a[2] = YieldCpu
    /\ blkipc.a[3] = SendB(5) /\ blkipc.a[4] = Say(blkipc.prints[3], 9)
    /\ blkipc.a[5] = Exits(9)
    /\ blkipc.b[1] = Say(blkipc.prints[2], 10) /\ blkipc.b[2] = ReceiveBlk
    /\ blkipc.b[3] = Say(blkipc.prints[4], 10) /\ blkipc.b[4] = Exits(10)
    /\ Len(blkipc.prints) = 4
<1>1. /\ blkipc.prints = <<"A: send", "B: block", "A: done", "B: woke!">>
      /\ blkipc.a = TASK_BLKIPC_SENDER /\ blkipc.b = TASK_BLKIPC_RECEIVER
    BY DEF blkipc
<1>2. /\ TASK_BLKIPC_SENDER[1] = Say("A: send", 9) /\ TASK_BLKIPC_SENDER[2] = YieldCpu
      /\ TASK_BLKIPC_SENDER[3] = SendB(5) /\ TASK_BLKIPC_SENDER[4] = Say("A: done", 9)
      /\ TASK_BLKIPC_SENDER[5] = Exits(9)
    BY DEF TASK_BLKIPC_SENDER
<1>3. /\ TASK_BLKIPC_RECEIVER[1] = Say("B: block", 10) /\ TASK_BLKIPC_RECEIVER[2] = ReceiveBlk
      /\ TASK_BLKIPC_RECEIVER[3] = Say("B: woke!", 10) /\ TASK_BLKIPC_RECEIVER[4] = Exits(10)
    BY DEF TASK_BLKIPC_RECEIVER
<1>4. \E w, x, y, z :
         /\ blkipc.prints = <<w, x, y, z>>
         /\ blkipc.a[1] = Say(w, 9) /\ blkipc.a[2] = YieldCpu /\ blkipc.a[3] = SendB(5)
         /\ blkipc.a[4] = Say(y, 9) /\ blkipc.a[5] = Exits(9)
         /\ blkipc.b[1] = Say(x, 10) /\ blkipc.b[2] = ReceiveBlk /\ blkipc.b[3] = Say(z, 10)
         /\ blkipc.b[4] = Exits(10)
    BY <1>1, <1>2, <1>3
<1> QED BY <1>4, LinesOf

LEMMA BlkipcGoes ==
    ASSUME DInv, UserStep, demo = blkipc, BlkipcScene
    PROVE  demo' = demo /\ (BlkipcScene' \/ Over(4)') /\ Works
<1>1. Program(1) = demo.a /\ Program(2) = demo.b
    BY DEF Program
<1>2. demo' = demo
    BY DEF UserStep
<1>3. AB(1, 1, "Ready", 0, 0) => AB(2, 1, "Ready", 0, 1)' /\ Works
    BY <1>1, BlkipcLines, SayScene DEF AB
<1>4. AB(2, 1, "Ready", 0, 1) => BA(1, 3, "Ready", 0, 1)' /\ Works
    BY <1>1, BlkipcLines, Yields DEF AB, BA
<1>5. BA(1, 3, "Ready", 0, 1) => BA(2, 3, "Ready", 0, 2)' /\ Works
    BY <1>1, BlkipcLines, SayScene DEF BA
<1>6. BA(2, 3, "Ready", 0, 2) => AB(3, 2, "Recv", 0, 2)' /\ Works
    BY <1>1, BlkipcLines, RecvWaits DEF AB, BA
<1>7. AB(3, 2, "Recv", 0, 2) => AB(4, 2, "Ready", 5, 2)' /\ Works
    BY <1>1, BlkipcLines, Delivers DEF AB
<1>8. AB(4, 2, "Ready", 5, 2) => AB(5, 2, "Ready", 5, 3)' /\ Works
    BY <1>1, BlkipcLines, SayScene DEF AB
<1>9. AB(5, 2, "Ready", 5, 3) => BA(2, 0, "Exited", 5, 3)' /\ Works
    BY <1>1, BlkipcLines, ExitPasses DEF AB, BA
<1>10. BA(2, 0, "Exited", 5, 3) => BA(3, 0, "Exited", 0, 3)' /\ Works
    BY <1>1, BlkipcLines, Receives DEF BA
<1>11. BA(3, 0, "Exited", 0, 3) => BA(4, 0, "Exited", 0, 4)' /\ Works
    BY <1>1, BlkipcLines, SayScene DEF BA
<1>12. BA(4, 0, "Exited", 0, 4) => Over(4)' /\ Works
    BY <1>1, BlkipcLines, ExitEnds DEF BA, Over
<1> QED BY <1>2, <1>3, <1>4, <1>5, <1>6, <1>7, <1>8, <1>9, <1>10, <1>11, <1>12 DEF BlkipcScene

\* A waits for B to empty its mailbox.
SendblkScene ==
    \/ AB(1, 1, "Ready", 0, 0) \/ AB(2, 1, "Ready", 0, 1) \/ AB(3, 1, "Ready", 5, 1)
    \/ BA(1, 3, "Send", 5, 1) \/ BA(2, 3, "Send", 5, 2) \/ BA(3, 3, "Ready", 0, 2)
    \/ AB(3, 4, "Ready", 0, 2) \/ AB(4, 4, "Ready", 6, 2) \/ AB(5, 4, "Ready", 6, 3)
    \/ BA(4, 0, "Exited", 6, 3) \/ BA(5, 0, "Exited", 0, 3) \/ BA(6, 0, "Exited", 0, 4)

LEMMA SendblkLines ==
    /\ sendblk.a[1] = Say(sendblk.prints[1], 10) /\ sendblk.a[2] = SendBlkB(5)
    /\ sendblk.a[3] = SendBlkB(6) /\ sendblk.a[4] = Say(sendblk.prints[3], 10)
    /\ sendblk.a[5] = Exits(10)
    /\ sendblk.b[1] = Say(sendblk.prints[2], 10) /\ sendblk.b[2] = Receive
    /\ sendblk.b[3] = YieldCpu /\ sendblk.b[4] = Receive
    /\ sendblk.b[5] = Say(sendblk.prints[4], 9) /\ sendblk.b[6] = Exits(9)
    /\ Len(sendblk.prints) = 4
<1>1. /\ sendblk.prints = <<"A: send2", "B: recv2", "A: sent2", "B: got2">>
      /\ sendblk.a = TASK_SENDBLK_SENDER /\ sendblk.b = TASK_SENDBLK_RECEIVER
    BY DEF sendblk
<1>2. /\ TASK_SENDBLK_SENDER[1] = Say("A: send2", 10) /\ TASK_SENDBLK_SENDER[2] = SendBlkB(5)
      /\ TASK_SENDBLK_SENDER[3] = SendBlkB(6) /\ TASK_SENDBLK_SENDER[4] = Say("A: sent2", 10)
      /\ TASK_SENDBLK_SENDER[5] = Exits(10)
    BY DEF TASK_SENDBLK_SENDER
<1>3. /\ TASK_SENDBLK_RECEIVER[1] = Say("B: recv2", 10) /\ TASK_SENDBLK_RECEIVER[2] = Receive
      /\ TASK_SENDBLK_RECEIVER[3] = YieldCpu /\ TASK_SENDBLK_RECEIVER[4] = Receive
      /\ TASK_SENDBLK_RECEIVER[5] = Say("B: got2", 9) /\ TASK_SENDBLK_RECEIVER[6] = Exits(9)
    BY DEF TASK_SENDBLK_RECEIVER
<1>4. \E w, x, y, z :
         /\ sendblk.prints = <<w, x, y, z>>
         /\ sendblk.a[1] = Say(w, 10) /\ sendblk.a[2] = SendBlkB(5) /\ sendblk.a[3] = SendBlkB(6)
         /\ sendblk.a[4] = Say(y, 10) /\ sendblk.a[5] = Exits(10)
         /\ sendblk.b[1] = Say(x, 10) /\ sendblk.b[2] = Receive /\ sendblk.b[3] = YieldCpu
         /\ sendblk.b[4] = Receive /\ sendblk.b[5] = Say(z, 9) /\ sendblk.b[6] = Exits(9)
    BY <1>1, <1>2, <1>3
<1> QED BY <1>4, LinesOf

LEMMA SendblkGoes ==
    ASSUME DInv, UserStep, demo = sendblk, SendblkScene
    PROVE  demo' = demo /\ (SendblkScene' \/ Over(4)') /\ Works
<1>1. Program(1) = demo.a /\ Program(2) = demo.b
    BY DEF Program
<1>2. demo' = demo
    BY DEF UserStep
<1>3. AB(1, 1, "Ready", 0, 0) => AB(2, 1, "Ready", 0, 1)' /\ Works
    BY <1>1, SendblkLines, SayScene DEF AB
<1>4. AB(2, 1, "Ready", 0, 1) => AB(3, 1, "Ready", 5, 1)' /\ Works
    BY <1>1, SendblkLines, Delivers DEF AB
<1>5. AB(3, 1, "Ready", 5, 1) => BA(1, 3, "Send", 5, 1)' /\ Works
    BY <1>1, SendblkLines, SendWaits DEF AB, BA
<1>6. BA(1, 3, "Send", 5, 1) => BA(2, 3, "Send", 5, 2)' /\ Works
    BY <1>1, SendblkLines, SayScene DEF BA
<1>7. BA(2, 3, "Send", 5, 2) => BA(3, 3, "Ready", 0, 2)' /\ Works
    BY <1>1, SendblkLines, Receives DEF BA
<1>8. BA(3, 3, "Ready", 0, 2) => AB(3, 4, "Ready", 0, 2)' /\ Works
    BY <1>1, SendblkLines, Yields DEF AB, BA
<1>9. AB(3, 4, "Ready", 0, 2) => AB(4, 4, "Ready", 6, 2)' /\ Works
    BY <1>1, SendblkLines, Delivers DEF AB
<1>10. AB(4, 4, "Ready", 6, 2) => AB(5, 4, "Ready", 6, 3)' /\ Works
    BY <1>1, SendblkLines, SayScene DEF AB
<1>11. AB(5, 4, "Ready", 6, 3) => BA(4, 0, "Exited", 6, 3)' /\ Works
    BY <1>1, SendblkLines, ExitPasses DEF AB, BA
<1>12. BA(4, 0, "Exited", 6, 3) => BA(5, 0, "Exited", 0, 3)' /\ Works
    <2>1. Program(2)[4] = Receive
        BY <1>1, SendblkLines
    <2>2. BA(4, 0, "Exited", 6, 3) =>
            Runs(2, 4 + 1, 1, 0, IF "Exited" = "Exited" THEN "Exited" ELSE "Ready", 0, 3)' /\ Works
        BY <2>1, Receives DEF BA
    <2> QED BY <2>2 DEF BA
<1>13. BA(5, 0, "Exited", 0, 3) => BA(6, 0, "Exited", 0, 4)' /\ Works
    BY <1>1, SendblkLines, SayScene DEF BA
<1>14. BA(6, 0, "Exited", 0, 4) => Over(4)' /\ Works
    BY <1>1, SendblkLines, ExitEnds DEF BA, Over
<1> QED BY <1>2, <1>3, <1>4, <1>5, <1>6, <1>7, <1>8, <1>9, <1>10, <1>11, <1>12, <1>13,
        <1>14 DEF SendblkScene

\* A faults: B goes on.
FaultkillScene ==
    \/ AB(1, 1, "Ready", 0, 0) \/ AB(2, 1, "Ready", 0, 1) \/ BA(1, 0, "Exited", 0, 1)
    \/ BA(2, 0, "Exited", 0, 2)

LEMMA FaultkillLines ==
    /\ faultkill.a[1] = Say(faultkill.prints[1], 10) /\ faultkill.a[2] = Store0
    /\ faultkill.b[1] = Say(faultkill.prints[2], 7) /\ faultkill.b[2] = Exits(7)
    /\ Len(faultkill.prints) = 2
<1>1. /\ faultkill.prints = <<"A: alive", "B: ok">>
      /\ faultkill.a = TASK_FAULTKILL_A /\ faultkill.b = TASK_FAULTKILL_B
    BY DEF faultkill
<1>2. /\ TASK_FAULTKILL_A[1] = Say("A: alive", 10) /\ TASK_FAULTKILL_A[2] = Store0
    BY DEF TASK_FAULTKILL_A
<1>3. /\ TASK_FAULTKILL_B[1] = Say("B: ok", 7) /\ TASK_FAULTKILL_B[2] = Exits(7)
    BY DEF TASK_FAULTKILL_B
<1>4. \E w, x :
         /\ faultkill.prints = <<w, x>>
         /\ faultkill.a[1] = Say(w, 10) /\ faultkill.a[2] = Store0
         /\ faultkill.b[1] = Say(x, 7) /\ faultkill.b[2] = Exits(7)
    BY <1>1, <1>2, <1>3
<1> QED BY <1>4, LinesOf

LEMMA FaultkillGoes ==
    ASSUME DInv, UserStep, demo = faultkill, FaultkillScene
    PROVE  demo' = demo /\ (FaultkillScene' \/ Over(2)') /\ Works
<1>1. Program(1) = demo.a /\ Program(2) = demo.b
    BY DEF Program
<1>2. demo' = demo
    BY DEF UserStep
<1>3. AB(1, 1, "Ready", 0, 0) => AB(2, 1, "Ready", 0, 1)' /\ Works
    BY <1>1, FaultkillLines, SayScene DEF AB
<1>4. AB(2, 1, "Ready", 0, 1) => BA(1, 0, "Exited", 0, 1)' /\ Works
    BY <1>1, FaultkillLines, FaultPasses DEF AB, BA
<1>5. BA(1, 0, "Exited", 0, 1) => BA(2, 0, "Exited", 0, 2)' /\ Works
    BY <1>1, FaultkillLines, SayScene DEF BA
<1>6. BA(2, 0, "Exited", 0, 2) => Over(2)' /\ Works
    BY <1>1, FaultkillLines, ExitEnds DEF BA, Over
<1> QED BY <1>2, <1>3, <1>4, <1>5, <1>6 DEF FaultkillScene

\* A waits for the exit of B.
WaitScene ==
    \/ AB(1, 1, "Ready", 0, 0) \/ AB(2, 1, "Ready", 0, 1) \/ BA(1, 2, "Wait", 0, 1)
    \/ BA(2, 2, "Wait", 0, 2) \/ BA(3, 2, "Wait", 0, 2) \/ BA(4, 2, "Wait", 0, 3)
    \/ AB(2, 0, "Exited", 0, 3) \/ AB(3, 0, "Exited", 0, 3) \/ AB(4, 0, "Exited", 0, 4)

LEMMA WaitLines ==
    /\ wait.a[1] = Say(wait.prints[1], 9) /\ wait.a[2] = WaitB
    /\ wait.a[3] = Say(wait.prints[4], 10) /\ wait.a[4] = Exits(10)
    /\ wait.b[1] = Say(wait.prints[2], 6) /\ wait.b[2] = YieldCpu
    /\ wait.b[3] = Say(wait.prints[3], 7) /\ wait.b[4] = Exits(42)
    /\ Len(wait.prints) = 4
<1>1. /\ wait.prints = <<"A: wait", "B: hi", "B: bye", "A: woke!">>
      /\ wait.a = TASK_WAIT_PARENT /\ wait.b = TASK_WAIT_CHILD
    BY DEF wait
<1>2. /\ TASK_WAIT_PARENT[1] = Say("A: wait", 9) /\ TASK_WAIT_PARENT[2] = WaitB
      /\ TASK_WAIT_PARENT[3] = Say("A: woke!", 10) /\ TASK_WAIT_PARENT[4] = Exits(10)
    BY DEF TASK_WAIT_PARENT
<1>3. /\ TASK_WAIT_CHILD[1] = Say("B: hi", 6) /\ TASK_WAIT_CHILD[2] = YieldCpu
      /\ TASK_WAIT_CHILD[3] = Say("B: bye", 7) /\ TASK_WAIT_CHILD[4] = Exits(42)
    BY DEF TASK_WAIT_CHILD
<1>4. \E w, x, y, z :
         /\ wait.prints = <<w, x, y, z>>
         /\ wait.a[1] = Say(w, 9) /\ wait.a[2] = WaitB /\ wait.a[3] = Say(z, 10)
         /\ wait.a[4] = Exits(10)
         /\ wait.b[1] = Say(x, 6) /\ wait.b[2] = YieldCpu /\ wait.b[3] = Say(y, 7)
         /\ wait.b[4] = Exits(42)
    BY <1>1, <1>2, <1>3
<1> QED BY <1>4, LinesOf

LEMMA WaitGoes ==
    ASSUME DInv, UserStep, demo = wait, WaitScene
    PROVE  demo' = demo /\ (WaitScene' \/ Over(4)') /\ Works
<1>1. Program(1) = demo.a /\ Program(2) = demo.b
    BY DEF Program
<1>2. demo' = demo
    BY DEF UserStep
<1>3. AB(1, 1, "Ready", 0, 0) => AB(2, 1, "Ready", 0, 1)' /\ Works
    BY <1>1, WaitLines, SayScene DEF AB
<1>4. AB(2, 1, "Ready", 0, 1) => BA(1, 2, "Wait", 0, 1)' /\ Works
    BY <1>1, WaitLines, WaitWaits DEF AB, BA
<1>5. BA(1, 2, "Wait", 0, 1) => BA(2, 2, "Wait", 0, 2)' /\ Works
    BY <1>1, WaitLines, SayScene DEF BA
<1>6. BA(2, 2, "Wait", 0, 2) => BA(3, 2, "Wait", 0, 2)' /\ Works
    BY <1>1, WaitLines, YieldsToNobody DEF BA
<1>7. BA(3, 2, "Wait", 0, 2) => BA(4, 2, "Wait", 0, 3)' /\ Works
    BY <1>1, WaitLines, SayScene DEF BA
<1>8. BA(4, 2, "Wait", 0, 3) => AB(2, 0, "Exited", 0, 3)' /\ Works
    BY <1>1, WaitLines, ExitPasses DEF AB, BA
<1>9. AB(2, 0, "Exited", 0, 3) => AB(3, 0, "Exited", 0, 3)' /\ Works
    BY <1>1, WaitLines, WaitEnds DEF AB
<1>10. AB(3, 0, "Exited", 0, 3) => AB(4, 0, "Exited", 0, 4)' /\ Works
    BY <1>1, WaitLines, SayScene DEF AB
<1>11. AB(4, 0, "Exited", 0, 4) => Over(4)' /\ Works
    BY <1>1, WaitLines, ExitEnds DEF AB, Over
<1> QED BY <1>2, <1>3, <1>4, <1>5, <1>6, <1>7, <1>8, <1>9, <1>10, <1>11 DEF WaitScene

El0Scene == Solo(1, 0) \/ Solo(2, 1) \/ Solo(3, 1) \/ Solo(4, 2)

LEMMA El0Lines ==
    /\ el0.a[1] = Say(el0.prints[1], 13) /\ el0.a[2] = YieldCpu
    /\ el0.a[3] = Say(el0.prints[2], 17) /\ el0.a[4] = Exits(17)
    /\ Len(el0.prints) = 2
<1>1. el0.prints = <<"hello, EL0!", "back from yield">> /\ el0.a = USER_PROGRAM
    BY DEF el0
<1>2. /\ USER_PROGRAM[1] = Say("hello, EL0!", 13) /\ USER_PROGRAM[2] = YieldCpu
      /\ USER_PROGRAM[3] = Say("back from yield", 17) /\ USER_PROGRAM[4] = Exits(17)
    BY DEF USER_PROGRAM
<1>3. \E w, x :
         /\ el0.prints = <<w, x>>
         /\ el0.a[1] = Say(w, 13) /\ el0.a[2] = YieldCpu
         /\ el0.a[3] = Say(x, 17) /\ el0.a[4] = Exits(17)
    BY <1>1, <1>2
<1> QED BY <1>3, LinesOf

LEMMA El0Goes ==
    ASSUME DInv, UserStep, demo = el0, El0Scene
    PROVE  demo' = demo /\ (El0Scene' \/ Over(2)') /\ Works
<1>1. demo' = demo
    BY DEF UserStep
<1>2. Solo(1, 0) => Solo(2, 1)' /\ Works
    BY El0Lines, SoloSays
<1>3. Solo(2, 1) => Solo(3, 1)' /\ Works
    BY El0Lines, SoloYields
<1>4. Solo(3, 1) => Solo(4, 2)' /\ Works
    BY El0Lines, SoloSays
<1>5. Solo(4, 2) => Over(2)' /\ Works
    BY El0Lines, SoloEnds
<1> QED BY <1>1, <1>2, <1>3, <1>4, <1>5 DEF El0Scene

LEMMA El0faultGoes ==
    ASSUME DInv, UserStep, demo = el0fault, Solo(1, 0)
    PROVE  demo' = demo /\ Over(0)' /\ Works
<1>1. demo' = demo
    BY DEF UserStep
<1>2. el0fault.a[1] = Store0
    BY DEF el0fault, USER_FAULT_PROGRAM
<1> QED BY <1>1, <1>2, SoloEnds

Scene ==
    \/ demo = scheduled /\ ScheduledScene
    \/ demo = ipc /\ IpcScene
    \/ demo = blkipc /\ BlkipcScene
    \/ demo = sendblk /\ SendblkScene
    \/ demo = faultkill /\ FaultkillScene
    \/ demo = wait /\ WaitScene
    \/ demo = el0 /\ El0Scene
    \/ demo = el0fault /\ Solo(1, 0)

LEMMA SceneStep ==
    ASSUME DInv, UserStep, Scene
    PROVE  demo' = demo /\ (Scene' \/ Over(Len(demo.prints))') /\ Works
<1>1. /\ Len(scheduled.prints) = 4 /\ Len(ipc.prints) = 4 /\ Len(blkipc.prints) = 4
      /\ Len(sendblk.prints) = 4 /\ Len(faultkill.prints) = 2 /\ Len(wait.prints) = 4
      /\ Len(el0.prints) = 2
    BY ScheduledLines, IpcLines, BlkipcLines, SendblkLines, FaultkillLines, WaitLines, El0Lines
<1>2. Len(el0fault.prints) = 0
    BY DEF el0fault
<1>3. CASE demo = scheduled /\ ScheduledScene
    BY <1>1, <1>3, ScheduledGoes DEF Scene
<1>4. CASE demo = ipc /\ IpcScene
    BY <1>1, <1>4, IpcGoes DEF Scene
<1>5. CASE demo = blkipc /\ BlkipcScene
    BY <1>1, <1>5, BlkipcGoes DEF Scene
<1>6. CASE demo = sendblk /\ SendblkScene
    BY <1>1, <1>6, SendblkGoes DEF Scene
<1>7. CASE demo = faultkill /\ FaultkillScene
    BY <1>1, <1>7, FaultkillGoes DEF Scene
<1>8. CASE demo = wait /\ WaitScene
    BY <1>1, <1>8, WaitGoes DEF Scene
<1>9. CASE demo = el0 /\ El0Scene
    BY <1>1, <1>9, El0Goes DEF Scene
<1>10. CASE demo = el0fault /\ Solo(1, 0)
    BY <1>2, <1>10, El0faultGoes DEF Scene
<1> QED BY <1>3, <1>4, <1>5, <1>6, <1>7, <1>8, <1>9, <1>10 DEF Scene

\* Where the script starts: both tasks are spawned and A has the CPU.
First == Table(1, 1, 2, 1, "Ready", 0, 0)

LEMMA FirstScene ==
    ASSUME mode = "el0", demo \in AllDemos \ TimerDemos,
           IF demo \in TaskDemos THEN First ELSE Solo(1, 0)
    PROVE  Scene
<1>1. AB(1, 1, "Ready", 0, 0) \/ demo \notin TaskDemos
    BY DEF AB, Runs, First
<1>2. \/ demo \in {scheduled, ipc, blkipc, sendblk, faultkill, wait}
      \/ demo \notin TaskDemos /\ demo \in {el0, el0fault}
    BY DEF AllDemos, TaskDemos, SoloDemos
<1> QED BY <1>1, <1>2 DEF Scene, ScheduledScene, IpcScene, BlkipcScene, SendblkScene,
        FaultkillScene, WaitScene, El0Scene, TaskDemos

\* Between two sessions.
Fresh == current_tid = 0 /\ ready_queue = <<>> /\ ~preempt

ScriptInv ==
    /\ pc \in [Slots -> Nat \ {0}]
    /\ mode = "monitor" /\ ~oops => Fresh
    /\ demo \notin TimerDemos =>
         /\ mode = "launch" /\ ~oops => demo \in TaskDemos /\ First
         /\ mode = "el0" /\ ~oops => Scene
    /\ PrintsAsDescribed

\* In every scene EL0 runs, a task or a program without a TCB.
LEMMA SceneIs ==
    ASSUME Scene
    PROVE  \/ \E t, p, u, r, m, l, n : Runs(t, p, u, r, m, l, n)
           \/ \E p, n : Solo(p, n)
BY DEF Scene, ScheduledScene, IpcScene, BlkipcScene, SendblkScene, FaultkillScene, WaitScene,
       El0Scene, AB, BA
LEMMA NextSceneIs ==
    ASSUME Scene'
    PROVE  mode' = "el0" /\ ~oops' /\ \E n : Printed(n)'
<1>1. \/ \E t, p, u, r, m, l, n : Runs(t, p, u, r, m, l, n)'
      \/ \E p, n : Solo(p, n)'
    BY DEF Scene, ScheduledScene, IpcScene, BlkipcScene, SendblkScene, FaultkillScene, WaitScene,
           El0Scene, AB, BA
<1> QED BY <1>1 DEF Runs, Table, Pair, Solo

LEMMA PrintedPrefix ==
    ASSUME NEW d \in AllDemos, NEW n \in Nat, n <= Len(d.prints), NEW o, o = SubSeq(d.prints, 1, n)
    PROVE  IsPrefix(o, d.prints) /\ (n = Len(d.prints) => o = d.prints)
<1>1. PICK S : d.prints \in Seq(S)
    BY Descriptions
<1> DEFINE s == d.prints
<1>2. n \in 0 .. Len(s) /\ o = SubSeq(s, 1, n) /\ s \in Seq(S)
    BY <1>1
<1> HIDE DEF s
<1>3. SubSeq(s, 1, n) \in Seq(S) /\ Len(SubSeq(s, 1, n)) = n
    BY <1>2
<1>4. \A i \in 1 .. n : SubSeq(s, 1, n)[i] = s[i]
    BY <1>2
<1>5. SubSeq(o, 1, n) = o
    <2>1. /\ SubSeq(o, 1, n) \in Seq(S) /\ Len(SubSeq(o, 1, n)) = n
          /\ \A i \in 1 .. n : SubSeq(o, 1, n)[i] = o[i]
        BY <1>2, <1>3
    <2> QED BY <1>2, <1>3, <2>1, SeqEqual
<1>6. n = Len(s) => SubSeq(s, 1, n) = s
    BY <1>2, <1>3, <1>4, SeqEqual
<1> QED BY <1>2, <1>3, <1>5, <1>6 DEF IsPrefix, s

(***************************************************************************)
(* Every step follows the script.                                          *)
(***************************************************************************)
SInv == KInv /\ ProgInv /\ ScriptInv

LEMMA SInvIs == SInv => DInv
BY DEF SInv, DInv, ScriptInv

\* The timer demos only print, sleep, exit and spin.
Plain(i) == i.call.sys \in {"write", "sleep", "exit", "spin"}

LEMMA PlainLines ==
    ASSUME NEW s
    PROVE  /\ \A x, y : s = <<x, y>> /\ Plain(x) /\ Plain(y) => \A k \in DOMAIN s : Plain(s[k])
           /\ \A x, y, z, w : s = <<x, y, z, w>> /\ Plain(x) /\ Plain(y) /\ Plain(z) /\ Plain(w)
                => \A k \in DOMAIN s : Plain(s[k])
OBVIOUS

LEMMA PlainPrograms ==
    \A p \in {TASK_PREEMPT_A, TASK_PREEMPT_B, TASK_SLEEP_A, TASK_SLEEP_B} :
        \A k \in DOMAIN p : Plain(p[k])
<1>1. Plain(Spin) /\ Plain(SleepFor(3)) /\ Plain(Exits(9)) /\ \A x, k : Plain(Say(x, k))
    BY DEF Plain, Spin, SleepFor, Exits, Say, Svc
<1>2. \A k \in DOMAIN TASK_PREEMPT_A : Plain(TASK_PREEMPT_A[k])
    BY <1>1, PlainLines, Zenon DEF TASK_PREEMPT_A
<1>3. \A k \in DOMAIN TASK_PREEMPT_B : Plain(TASK_PREEMPT_B[k])
    BY <1>1, PlainLines, Zenon DEF TASK_PREEMPT_B
<1>4. \A k \in DOMAIN TASK_SLEEP_A : Plain(TASK_SLEEP_A[k])
    BY <1>1, PlainLines, Zenon DEF TASK_SLEEP_A
<1>5. \A k \in DOMAIN TASK_SLEEP_B : Plain(TASK_SLEEP_B[k])
    BY <1>1, PlainLines, Zenon DEF TASK_SLEEP_B
<1> QED BY <1>2, <1>3, <1>4, <1>5

LEMMA TimerCalls ==
    ASSUME DInv, UserStep, demo \in TimerDemos
    PROVE  Fetched.call.sys \in {"write", "sleep", "exit"}
<1>1. /\ mode = "el0" /\ ~oops
      /\ \/ Fetched.call \in Calls /\ handle_svc_from_el0(Fetched.call)
         \/ Fetched.call.sys = "fault" /\ Fault
    BY UserStepIsKernels DEF DInv
<1>2. Fetched = Program(ttbr0)[pc[current_tid]] /\ pc[current_tid] \in DOMAIN Program(ttbr0)
    BY <1>1, FetchesOwn DEF DInv
<1>3. Program(ttbr0) \in {TASK_PREEMPT_A, TASK_PREEMPT_B, TASK_SLEEP_A, TASK_SLEEP_B}
    <2>1. /\ preempt_demo.a = TASK_PREEMPT_A /\ preempt_demo.b = TASK_PREEMPT_B
          /\ sleep.a = TASK_SLEEP_A /\ sleep.b = TASK_SLEEP_B
        BY DEF preempt_demo, sleep
    <2> QED BY <2>1 DEF TimerDemos, Program
<1>4. Plain(Fetched)
    BY <1>2, <1>3, PlainPrograms
<1>5. handle_svc_from_el0(Fetched.call) => Fetched.call.sys # "spin"
    BY DEF handle_svc_from_el0, Write, Yield, Send, Recv, RecvBlk, SendBlk, Sleep, Wait, Exit, Unknown
<1> QED BY <1>1, <1>4, <1>5 DEF Plain

LEMMA TimerWorks ==
    ASSUME DInv, UserStep, demo \in TimerDemos
    PROVE  Works
<1>1. mode = "el0" /\ ~oops
    BY UserStepIsKernels DEF DInv
<1>2. frame.own = current_tid /\ (current_tid # 0 => ttbr0 = space[current_tid])
    BY <1>1, FetchesOwn DEF DInv
<1>3. pc' = pc \/ pc' = [pc EXCEPT ![current_tid] = @ + 1]
    BY <1>2 DEF UserStep
<1>4. \A t \in Tids : t \in Slots /\ t # 0 /\ pc[t] \in Nat /\ ~(pc[t] > pc[t])
    BY TidFacts DEF DInv
<1>5. \A t \in Tids : pc'[t] > pc[t] => t = current_tid
    BY <1>3, <1>4 DEF DInv
<1>6. \A t \in Tids : pc'[t] > pc[t] => Program(space[t])[pc[t]].call = Fetched.call
    BY <1>2, <1>4, <1>5 DEF Fetched
<1>7. \A t \in Tids : pc'[t] > pc[t] => Program(space[t])[pc[t]].call.sys \in {"write", "sleep", "exit"}
    BY <1>6, TimerCalls
<1> QED BY <1>7 DEF Works

\* No call comes back to the monitor with OOPS clear.
LEMMA CallsStay ==
    ASSUME UserStep
    PROVE  mode' # "launch" /\ (mode' = "monitor" => oops')
<1>1. handle_svc_from_el0(Fetched.call) \/ Fault
    BY DEF UserStep
<1>2. mode = "el0"
    BY DEF UserStep
<1> QED BY <1>1, <1>2 DEF handle_svc_from_el0, Write, Yield, Send, Recv, RecvBlk, SendBlk, Sleep,
        Wait, Exit, Unknown, SendCommon, RecvCommon, Fault, Return, Returned, Resumed, park,
        on_el0_return

LEMMA UserScript ==
    ASSUME SInv, ProgInv', UserStep
    PROVE  ScriptInv' /\ Works
<1>1. DInv /\ mode = "el0" /\ ~oops /\ frame.own \in Slots /\ demo' = demo /\ demo \in AllDemos
    BY SInvIs, UserStepIsKernels, FetchesOwn DEF SInv, UserStep, ProgInv
<1>2. pc' \in [Slots -> Nat \ {0}]
    <2>1. pc \in [Slots -> Nat \ {0}]
        BY DEF SInv, ScriptInv
    <2>2. \A i \in Nat \ {0} : i + 1 \in Nat \ {0}
        OBVIOUS
    <2>3. pc' = pc \/ pc' = [pc EXCEPT ![frame.own] = @ + 1]
        BY DEF UserStep
    <2> QED BY <1>1, <2>1, <2>2, <2>3
<1>3. ~(mode' = "monitor" /\ ~oops') /\ mode' # "launch"
    BY CallsStay
<1>4. CASE demo \in TimerDemos
    BY <1>1, <1>2, <1>3, <1>4, TimerWorks DEF ScriptInv, PrintsAsDescribed
<1>5. CASE demo \notin TimerDemos
    <2>1. (Scene' \/ Over(Len(demo.prints))') /\ Works
        BY <1>1, <1>5, SceneStep DEF SInv, ScriptInv
    <2>2. CASE Scene'
        <3>1. mode' = "el0" /\ \E n : Printed(n)'
            BY <2>2, NextSceneIs
        <3>2. IsPrefix(out', demo'.prints)
            BY <1>1, <3>1, PrintedPrefix DEF Printed
        <3>3. PrintsAsDescribed'
            BY <3>1, <3>2 DEF PrintsAsDescribed
        <3> QED BY <1>2, <1>3, <2>1, <2>2, <3>1, <3>3 DEF ScriptInv
    <2>3. CASE Over(Len(demo.prints))'
        <3>1. /\ mode' = "monitor" /\ oops' /\ Printed(Len(demo.prints))'
              /\ \A v \in Tids : state'[v] = "Exited"
            BY <1>1, <2>3 DEF Over
        <3>2. IsPrefix(out', demo'.prints) /\ out' = demo'.prints
            BY <1>1, <3>1, PrintedPrefix DEF Printed
        <3>3. PrintsAsDescribed'
            BY <3>1, <3>2 DEF PrintsAsDescribed
        <3> QED BY <1>2, <1>3, <2>1, <3>1, <3>3 DEF ScriptInv
    <2> QED BY <2>1, <2>2, <2>3
<1> QED BY <1>4, <1>5

\* What one has printed at the start of a demo.
LEMMA NothingPrinted ==
    ASSUME NEW d \in AllDemos
    PROVE  0 <= Len(d.prints) /\ <<>> = SubSeq(d.prints, 1, 0) /\ IsPrefix(<<>>, d.prints)
<1>1. PICK S : d.prints \in Seq(S)
    BY Descriptions
<1> DEFINE s == d.prints
<1>2. 0 <= Len(s) /\ <<>> = SubSeq(s, 1, 0)
    <2>1. s \in Seq(S)
        BY <1>1
    <2> HIDE DEF s
    <2>2. SubSeq(s, 1, 0) \in Seq(S) /\ Len(SubSeq(s, 1, 0)) = 0
        BY <2>1
    <2> QED BY <2>1, <2>2
<1> QED BY <1>2, PrintedPrefix

\* A start puts every program counter on a first instruction.
LEMMA StartsScript ==
    ASSUME SInv, NEW d \in AllDemos, Starts(d)
    PROVE  /\ pc' \in [Slots -> Nat \ {0}] /\ demo' = d
           /\ IsPrefix(out', demo'.prints) /\ Printed(0)'
           /\ \A t \in Slots : pc'[t] > pc[t] => pc[t] \notin Nat \ {0}
           /\ \A t \in Slots : state[t] = "Exited" => pc'[t] = 1
<1>1. pc \in [Slots -> Nat \ {0}] /\ 1 \in Nat \ {0}
    BY DEF SInv, ScriptInv
<1>2. pc' = [t \in Slots |-> IF state[t] = "Exited" THEN 1 ELSE pc[t]] /\ demo' = d /\ out' = <<>>
    BY DEF Starts
<1>3. \A t \in Slots : pc[t] \in Nat \ {0} => ~(pc'[t] > pc[t])
    BY <1>1, <1>2
<1> QED BY <1>1, <1>2, <1>3, NothingPrinted DEF Printed

\* The first two tasks of an empty table.
LEMMA FirstTwo ==
    ASSUME \A t \in Tids : state[t] = "Exited", NEW W \in AllocatedSlots(2)
    PROVE  W = {1, 2}
<1>1. FreeSlots = Tids
    BY DEF FreeSlots
<1>2. W \in SUBSET Tids /\ Cardinality(W) = 2 /\ \A f \in Tids \ W, t \in W : t < f
    BY <1>1 DEF AllocatedSlots
<1>3. IsFiniteSet(W)
    <2>1. IsFiniteSet(Tids)
        BY FS_Interval, MaxTasksAssumption DEF Tids
    <2> QED BY <1>2, <2>1, FS_Subset
<1>4. PICK x, y \in W : x # y /\ W = {x, y}
    <2>1. W # {}
        BY <1>2, FS_EmptySet
    <2>2. PICK x : x \in W
        BY <2>1
    <2>3. Cardinality(W \ {x}) = 1 /\ IsFiniteSet(W \ {x})
        <3>1. IsFiniteSet(W \ {x})
            BY <1>3, FS_Subset
        <3>2. Cardinality(W \ {x}) = 2 - 1
            BY <1>2, <1>3, <2>2, FS_RemoveElement
        <3> QED BY <3>1, <3>2
    <2>4. PICK y : W \ {x} = {y}
        BY <2>3, FS_Singleton
    <2> QED BY <2>2, <2>4
<1>5. 1 \in Tids /\ 2 \in Tids
    BY TwoTids
<1>6. x \in Nat /\ y \in Nat /\ x >= 1 /\ y >= 1
    BY <1>2, <1>4, MaxTasksAssumption DEF Tids
<1>7. 1 \in W
    BY <1>2, <1>4, <1>5, <1>6
<1>8. 2 \in W
    BY <1>2, <1>4, <1>5, <1>6, <1>7
<1> QED BY <1>4, <1>7, <1>8

LEMMA ScansTwo == \A w \in ScanOrders({1, 2}) : w = <<1, 2>>
<1>1. Cardinality({1, 2}) = 2
    <2>1. 2 \notin {1} /\ {1} \cup {2} = {1, 2}
        OBVIOUS
    <2>2. Cardinality({1} \cup {2}) = 1 + 1
        <3>1. IsFiniteSet({1}) /\ Cardinality({1}) = 1
            BY FS_Singleton
        <3>2. \A S, x : IsFiniteSet(S) /\ x \notin S => Cardinality(S \cup {x}) = Cardinality(S) + 1
            BY FS_AddElement
        <3> QED BY <2>1, <3>1, <3>2
    <2> QED BY <2>1, <2>2
<1> SUFFICES ASSUME NEW w \in ScanOrders({1, 2}) PROVE w = <<1, 2>>
    OBVIOUS
<1>2. w \in [1 .. 2 -> {1, 2}] /\ w[1] < w[2]
    BY <1>1 DEF ScanOrders
<1>3. w[1] = 1 /\ w[2] = 2
    BY <1>2
<1> QED BY <1>2, <1>3

LEMMA LaunchScript ==
    ASSUME SInv, KInv', ProgInv', NEW d \in TaskDemos, LaunchDemo(d)
    PROVE  ScriptInv' /\ Works
<1>1. LaunchCommand(d \in TimerDemos) /\ Starts(d) /\ d \in AllDemos
    BY DEF LaunchDemo, AllDemos
<1>2. mode = "monitor" /\ mode' = "launch" /\ oops' = oops /\ demo' = d
    BY <1>1 DEF LaunchCommand, Starts
<1>3. /\ pc' \in [Slots -> Nat \ {0}] /\ PrintsAsDescribed' /\ Printed(0)'
      /\ \A t \in Slots : state[t] = "Exited" => pc'[t] = 1
    BY <1>1, <1>2, StartsScript DEF PrintsAsDescribed
<1>4. Works
    <2>1. \A t \in Tids : ~(pc'[t] > pc[t])
        BY <1>1, StartsScript, TidFacts DEF SInv, ScriptInv
    <2> QED BY <2>1 DEF Works
<1>5. ASSUME ~oops, d \notin TimerDemos PROVE First'
    <2>1. Fresh /\ \A t \in Tids : state[t] = "Exited"
        BY <1>2, <1>5 DEF SInv, ScriptInv, KInv, SleepInv
    <2>2. preempt' = preempt
        BY <1>1, <1>5 DEF LaunchCommand
    <2>3. PICK W \in AllocatedSlots(2) : \E w \in ScanOrders(W) :
            LET st == Woken(state, W)
                q  == enqueue_all(ready_queue, w) IN
            /\ state' = [st EXCEPT ![Head(q)] = "Running"]
            /\ ready_queue' = Tail(q)
            /\ current_tid' = Head(q)
            /\ spawn_fields(w)
        BY <1>1, UserProgramsAssumption DEF LaunchCommand
    <2>4. W = {1, 2}
        BY <2>1, FirstTwo
    <2>5. LET st == Woken(state, {1, 2})
              q  == enqueue_all(<<>>, <<1, 2>>) IN
            /\ state' = [st EXCEPT ![Head(q)] = "Running"]
            /\ ready_queue' = Tail(q)
            /\ current_tid' = Head(q)
            /\ spawn_fields(<<1, 2>>)
        BY <2>1, <2>3, <2>4, ScansTwo DEF Fresh
    <2>6. enqueue_all(<<>>, <<1, 2>>) = <<1, 2>>
        <3>1. MAX_TASKS \in Nat /\ 2 <= MAX_TASKS
            BY MaxTasksAssumption
        <3>2. Len(<<>>) = 0 /\ Len(<<1, 2>>) = 2 /\ <<>> \o <<1, 2>> = <<1, 2>>
            OBVIOUS
        <3>3. SubSeq(<<1, 2>>, 1, 2) = <<1, 2>>
            <4> DEFINE q == <<1, 2>>
            <4>1. q \in Seq(Nat) /\ Len(q) = 2
                OBVIOUS
            <4> HIDE DEF q
            <4>2. SubSeq(q, 1, 2) = q
                BY <4>1
            <4> QED BY <4>2 DEF q
        <3> QED BY <3>1, <3>2, <3>3 DEF enqueue_all
    <2>7. Head(<<1, 2>>) = 1 /\ Tail(<<1, 2>>) = <<2>>
        OBVIOUS
    <2>8. /\ state' = [Woken(state, {1, 2}) EXCEPT ![1] = "Running"]
          /\ ready_queue' = <<2>> /\ current_tid' = 1 /\ spawn_fields(<<1, 2>>)
        BY <2>5, <2>6, <2>7
    <2>9. 1 \in Tids /\ 2 \in Tids /\ 1 \in Slots /\ 2 \in Slots /\ Tids \subseteq Slots
        BY TwoTids, TidFacts
    <2>10. state'[1] = "Running" /\ state'[2] = "Ready" /\ \A v \in Tids \ {1, 2} : state'[v] = "Exited"
        BY <2>1, <2>8, <2>9 DEF Woken
    <2>11. /\ space'[1] = 1 /\ space'[2] = 2 /\ wake_tick'[1] = 0 /\ wake_tick'[2] = 0
           /\ mailbox'[2] = EmptyMailbox /\ saved'[2] = UserFrame(2)
        <3> DEFINE w == <<1, 2>>
                   new == {w[i] : i \in DOMAIN w}
                   SlotOf(t) == CHOOSE i \in DOMAIN w : w[i] = t
        <3>1. DOMAIN w = 1 .. 2 /\ w[1] = 1 /\ w[2] = 2
            OBVIOUS
        <3>2. /\ mailbox' = [t \in Slots |-> IF t \in new THEN EmptyMailbox ELSE mailbox[t]]
              /\ wake_tick' = Cleared(wake_tick, new)
              /\ space' = [t \in Slots |-> IF t \in new THEN SlotOf(t) ELSE space[t]]
              /\ saved' = [t \in Slots |-> IF t \in new THEN UserFrame(t) ELSE saved[t]]
            BY <2>8 DEF spawn_fields
        <3> HIDE DEF w
        <3>3. 1 \in new /\ 2 \in new
            BY <3>1
        <3>4. SlotOf(1) = 1 /\ SlotOf(2) = 2
            BY <3>1
        <3> QED BY <2>9, <3>2, <3>3, <3>4 DEF Cleared
    <2>12. pc'[1] = 1 /\ pc'[2] = 1
        BY <1>3, <2>1, <2>9
    <2>13. Pair(1, 2)'
        BY <1>2, <1>5, <2>1, <2>2, <2>8, <2>10, <2>11 DEF Pair, Fresh
    <2>14. saved'[2].el = 0 /\ mailbox'[2].len = 0
        BY <2>11 DEF UserFrame, EmptyMailbox
    <2> QED BY <1>3, <2>8, <2>10, <2>12, <2>13, <2>14 DEF First, Table
<1> QED BY <1>2, <1>3, <1>4, <1>5 DEF ScriptInv

LEMMA SoloScript ==
    ASSUME SInv, NEW d \in SoloDemos, SoloDemo(d)
    PROVE  ScriptInv' /\ Works
<1>1. SoloCommand /\ Starts(d) /\ d \in AllDemos /\ d \notin TaskDemos
    <2>1. \A e \in TaskDemos : e.b # <<>>
        <3>1. \A e \in TaskDemos : 1 \in DOMAIN e.b
            BY DemoPrograms, ProgramsClosed
        <3> QED BY <3>1
    <2>2. d.b = <<>>
        BY DemoPrograms
    <2> QED BY <2>1, <2>2 DEF SoloDemo, AllDemos
<1>2. /\ mode = "monitor" /\ mode' = "el0" /\ demo' = d /\ ttbr0' = SoloSpace
      /\ UNCHANGED <<state, current_tid, oops, preempt>>
    BY <1>1 DEF SoloCommand, Starts, devVars
<1>3. /\ pc' \in [Slots -> Nat \ {0}] /\ PrintsAsDescribed' /\ Printed(0)'
      /\ \A t \in Slots : state[t] = "Exited" => pc'[t] = 1
    BY <1>1, <1>2, StartsScript DEF PrintsAsDescribed
<1>4. Works
    <2>1. \A t \in Tids : ~(pc'[t] > pc[t])
        BY <1>1, StartsScript, TidFacts DEF SInv, ScriptInv
    <2> QED BY <2>1 DEF Works
<1>5. ASSUME ~oops PROVE Scene'
    <2>1. Fresh /\ \A t \in Tids : state[t] = "Exited"
        BY <1>2, <1>5 DEF SInv, ScriptInv, KInv, SleepInv
    <2>2. 0 \in Slots /\ state[0] = "Exited"
        BY TidFacts DEF SInv, KInv, IInv, TasksOK, AtMostCurrent
    <2>3. Solo(1, 0)'
        BY <1>2, <1>3, <1>5, <2>1, <2>2 DEF Solo, Fresh
    <2> QED BY <1>2, <2>3 DEF Scene, SoloDemos, El0Scene
<1> QED BY <1>2, <1>3, <1>4, <1>5 DEF ScriptInv

\* A tick with nobody to wake and no preemption: the sleepers' counts are all
\* that it changes.
LEMMA IdleTick ==
    ASSUME KInv, handle_irq, Sleepers = {}, ~preempt \/ current_tid = 0
    PROVE  UNCHANGED <<mode, oops, preempt, state, ready_queue, current_tid, ttbr0, space, saved,
                       mailbox, blocked_send_dst, waiting_on, exit_code>>
<1>1. ready_queue \in Queues /\ state \in States
    BY DEF KInv, IInv, SwitchOK, TasksOK, AtMostCurrent
<1>2. Woken(state, {}) = state /\ enqueue_all(ready_queue, <<>>) = ready_queue
    BY <1>1, NoWake
<1>3. \E w \in ScanOrders({}) :
        /\ state' = Woken(state, {}) /\ ready_queue' = enqueue_all(ready_queue, w)
        /\ UNCHANGED <<saved, cpuVars, mode, devVars>>
    BY DEF handle_irq
<1>4. state' = state /\ ready_queue' = ready_queue /\ UNCHANGED <<saved, cpuVars, mode, devVars>>
    BY <1>2, <1>3, ScansNone
<1> QED BY <1>4 DEF handle_irq, cpuVars, devVars

LEMMA StillPair ==
    ASSUME UNCHANGED <<oops, preempt, state, current_tid, space>>, NEW t, NEW u, Pair(t, u),
           \A v \in {t, u} : wake_tick'[v] = 0
    PROVE  Pair(t, u)'
BY DEF Pair

LEMMA StillTable ==
    ASSUME UNCHANGED <<oops, preempt, state, current_tid, space, pc, saved, blocked_send_dst,
                       waiting_on, exit_code, ready_queue, mailbox, demo, out>>,
           NEW t, NEW p, NEW u, NEW r, NEW m, NEW l, NEW n, Table(t, p, u, r, m, l, n),
           \A v \in {t, u} : wake_tick'[v] = 0
    PROVE  Table(t, p, u, r, m, l, n)'
<1>1. Pair(t, u) /\ Printed(n)
    BY DEF Table
<1>2. Pair(t, u)'
    BY <1>1, StillPair
<1>3. Printed(n)'
    BY <1>1 DEF Printed
<1> QED BY <1>2, <1>3 DEF Table

LEMMA StillSolo ==
    ASSUME UNCHANGED <<mode, oops, preempt, state, current_tid, pc, ttbr0, demo, out>>,
           NEW p, NEW n, Solo(p, n)
    PROVE  Solo(p, n)'
BY DEF Solo, Printed

LEMMA NoSleeper ==
    ASSUME KInv, NEW t, NEW u, Pair(t, u)
    PROVE  Sleepers = {} /\ (ElapseTick => \A v \in {t, u} : wake_tick'[v] = 0)
<1>1. \A v \in {t, u} : v \in Tids /\ v \in Slots /\ wake_tick[v] = 0
    BY TwoTids, TidFacts DEF Pair
<1>2. Sleepers = {}
    BY <1>1, TidFacts DEF Pair, Sleepers, Due
<1>3. ElapseTick => \A v \in {t, u} : wake_tick'[v] = 0
    BY <1>1 DEF ElapseTick
<1> QED BY <1>2, <1>3

LEMMA SceneStays ==
    ASSUME UNCHANGED <<mode, oops, preempt, state, current_tid, space, pc, ttbr0, saved,
                       blocked_send_dst, waiting_on, exit_code, ready_queue, mailbox, demo, out>>,
           \A t, u : Pair(t, u) => \A v \in {t, u} : wake_tick'[v] = 0
    PROVE  (Scene => Scene') /\ (First => First')
<1>0. ASSUME NEW t, NEW p, NEW u, NEW r, NEW m, NEW l, NEW n, Table(t, p, u, r, m, l, n)
      PROVE  Table(t, p, u, r, m, l, n)'
    <2>1. Pair(t, u)
        BY <1>0 DEF Table
    <2>2. \A v \in {t, u} : wake_tick'[v] = 0
        BY <2>1
    <2> QED BY <1>0, <2>2, StillTable
<1>1. \A t, p, u, r, m, l, n : Runs(t, p, u, r, m, l, n) => Runs(t, p, u, r, m, l, n)'
    BY <1>0 DEF Runs
<1>2. \A p, n : Solo(p, n) => Solo(p, n)'
    BY StillSolo
<1>3. First => First'
    BY <1>0 DEF First
<1>4. \A p, r, m, l, n : /\ AB(p, r, m, l, n) => AB(p, r, m, l, n)'
                         /\ BA(p, r, m, l, n) => BA(p, r, m, l, n)'
    BY <1>1 DEF AB, BA
<1>5. /\ ScheduledScene => ScheduledScene'
      /\ IpcScene => IpcScene'
      /\ BlkipcScene => BlkipcScene'
    BY <1>4 DEF ScheduledScene, IpcScene, BlkipcScene
<1>6. /\ SendblkScene => SendblkScene'
      /\ FaultkillScene => FaultkillScene'
      /\ WaitScene => WaitScene'
    BY <1>4 DEF SendblkScene, FaultkillScene, WaitScene
<1>7. El0Scene => El0Scene'
    BY <1>2 DEF El0Scene
<1> QED BY <1>2, <1>3, <1>5, <1>6, <1>7 DEF Scene

LEMMA TickScript ==
    ASSUME SInv, handle_irq, UNCHANGED progVars
    PROVE  ScriptInv'
<1>1. mode \in {"monitor", "launch", "el0"} /\ ~oops /\ ElapseTick
    BY DEF handle_irq, IrqTaken
<1>2. demo' = demo /\ pc' = pc /\ out' = out
    BY DEF progVars
<1>3. /\ pc' \in [Slots -> Nat \ {0}]
      /\ demo \notin TimerDemos => IsPrefix(out', demo'.prints)
    BY <1>2 DEF SInv, ScriptInv, PrintsAsDescribed
<1>4. CASE mode = "monitor"
    <2>1. Fresh /\ \A t \in Tids : state[t] = "Exited"
        BY <1>1, <1>4 DEF SInv, ScriptInv, KInv, SleepInv
    <2>2. Sleepers = {} /\ current_tid = 0
        BY <2>1, TidFacts DEF Sleepers, Due, Fresh
    <2>3. UNCHANGED <<mode, oops, preempt, state, ready_queue, current_tid>>
        BY <2>2, IdleTick DEF SInv
    <2> QED BY <1>1, <1>2, <1>3, <1>4, <2>1, <2>3 DEF ScriptInv, Fresh, PrintsAsDescribed
<1>5. CASE mode # "monitor" /\ demo \in TimerDemos
    <2>1. mode' # "monitor"
        BY <1>5 DEF handle_irq, Resumed
    <2> QED BY <1>2, <1>3, <1>5, <2>1 DEF ScriptInv, PrintsAsDescribed
<1>6. CASE mode # "monitor" /\ demo \notin TimerDemos
    <2>1. (mode = "launch" /\ First /\ demo \in TaskDemos) \/ (mode = "el0" /\ Scene)
        BY <1>1, <1>6 DEF SInv, ScriptInv
    <2>2. \/ \E t, u : Pair(t, u)
          \/ \E p, n : Solo(p, n)
        BY <2>1, SceneIs DEF First, Runs, Table
    <2>3. Sleepers = {} /\ ~preempt
        <3>1. ASSUME NEW t, NEW u, Pair(t, u) PROVE Sleepers = {} /\ ~preempt
            BY <3>1, NoSleeper DEF SInv, Pair
        <3>2. ASSUME NEW p, NEW n, Solo(p, n) PROVE Sleepers = {} /\ ~preempt
            BY <3>2, TidFacts DEF Solo, Sleepers, Due
        <3> QED BY <2>2, <3>1, <3>2
    <2>4. UNCHANGED <<mode, oops, preempt, state, ready_queue, current_tid, ttbr0, space, saved,
                      mailbox, blocked_send_dst, waiting_on, exit_code>>
        BY <2>3, IdleTick DEF SInv
    <2>5. \A t, u : Pair(t, u) => \A v \in {t, u} : wake_tick'[v] = 0
        BY <1>1, NoSleeper DEF SInv
    <2>6. (Scene => Scene') /\ (First => First')
        BY <1>2, <2>4, <2>5, SceneStays
    <2>7. mode' = mode
        BY <2>4
    <2> QED BY <1>2, <1>3, <1>6, <2>1, <2>6, <2>7 DEF ScriptInv, PrintsAsDescribed
<1> QED BY <1>4, <1>5, <1>6

LEMMA OthersScript ==
    ASSUME SInv, UNCHANGED progVars,
           \/ handle_irq \/ NestedTrap \/ FatalCommand \/ TickCommand \/ drop_to_el0_with
           \/ Halted \/ UNCHANGED vars
    PROVE  ScriptInv' /\ Works
<1>1. demo' = demo /\ pc' = pc /\ out' = out
    BY DEF progVars
<1>2. Works
    <2>1. \A t \in Tids : ~(pc'[t] > pc[t])
        BY <1>1, TidFacts DEF SInv, ScriptInv
    <2> QED BY <2>1 DEF Works
<1>3. /\ pc' \in [Slots -> Nat \ {0}]
      /\ demo \notin TimerDemos => IsPrefix(out', demo'.prints)
    BY <1>1 DEF SInv, ScriptInv, PrintsAsDescribed
<1>4. CASE handle_irq
    BY <1>2, <1>4, TickScript
<1>5. CASE NestedTrap \/ FatalCommand
    <2>1. mode' = "parked"
        BY <1>5 DEF NestedTrap, NestedException, FatalCommand, park
    <2> QED BY <1>1, <1>2, <1>3, <2>1 DEF ScriptInv, PrintsAsDescribed
<1>6. CASE TickCommand
    <2>1. mode = "monitor" /\ UNCHANGED <<mode, oops, preempt, current_tid, ready_queue, state>>
        BY <1>6 DEF TickCommand, schedVars, cpuVars
    <2> QED BY <1>1, <1>2, <1>3, <2>1 DEF SInv, ScriptInv, PrintsAsDescribed, Fresh
<1>7. CASE drop_to_el0_with
    <2>1. /\ mode = "launch" /\ mode' = "el0"
          /\ UNCHANGED <<oops, preempt, state, current_tid, space, saved, blocked_send_dst,
                         waiting_on, wake_tick, exit_code, ready_queue, mailbox>>
        BY <1>7 DEF drop_to_el0_with, infoVars, waitVars, devVars
    <2>2. ASSUME ~oops, demo \notin TimerDemos PROVE Scene'
        <3>1. demo \in TaskDemos /\ First
            BY <2>1, <2>2 DEF SInv, ScriptInv
        <3>2. Pair(1, 2)
            BY <3>1 DEF First, Table
        <3>3. Table(1, 1, 2, 1, "Ready", 0, 0)'
            BY <1>1, <2>1, <3>1, <3>2, StillTable DEF First, Pair
        <3>4. AB(1, 1, "Ready", 0, 0)'
            BY <2>1, <3>3 DEF AB, Runs
        <3>5. demo' \in {scheduled, ipc, blkipc, sendblk, faultkill, wait}
            BY <1>1, <2>2, <3>1 DEF TaskDemos
        <3> QED BY <3>4, <3>5 DEF Scene, ScheduledScene, IpcScene, BlkipcScene, SendblkScene,
                                  FaultkillScene, WaitScene
    <2> QED BY <1>1, <1>2, <1>3, <2>1, <2>2 DEF ScriptInv, PrintsAsDescribed
<1>8. CASE Halted
    <2>1. mode \in {"parked", "wild"} /\ mode' = mode
        BY <1>8 DEF Halted, vars
    <2> QED BY <1>1, <1>2, <1>3, <2>1 DEF ScriptInv, PrintsAsDescribed
<1>9. CASE UNCHANGED vars
    <2>1. UNCHANGED <<mode, oops, preempt, state, current_tid, space, pc, ttbr0, saved,
                      blocked_send_dst, waiting_on, wake_tick, exit_code, ready_queue, mailbox,
                      demo, out>>
        BY <1>1, <1>9 DEF vars, schedVars, cpuVars, waitVars
    <2>2. \A t, u : Pair(t, u) => \A v \in {t, u} : wake_tick'[v] = 0
        BY <2>1 DEF Pair
    <2>3. (Scene => Scene') /\ (First => First')
        BY <2>1, <2>2, SceneStays
    <2> QED BY <1>1, <1>2, <1>3, <2>1, <2>3 DEF SInv, ScriptInv, PrintsAsDescribed, Fresh
<1> QED BY <1>4, <1>5, <1>6, <1>7, <1>8, <1>9

LEMMA ScriptStep == SInv /\ [DemoNext]_allVars => SInv' /\ Works
<1> SUFFICES ASSUME SInv, [DemoNext]_allVars PROVE SInv' /\ Works
    OBVIOUS
<1>1. KInv' /\ ProgInv'
    BY DemoStep DEF SInv
<1>2. CASE UserStep
    BY <1>1, <1>2, UserScript DEF SInv
<1>3. CASE \E d \in TaskDemos : LaunchDemo(d)
    BY <1>1, <1>3, LaunchScript DEF SInv
<1>4. CASE \E d \in SoloDemos : SoloDemo(d)
    BY <1>1, <1>4, SoloScript DEF SInv
<1>5. CASE /\ handle_irq \/ NestedTrap \/ FatalCommand \/ TickCommand \/ drop_to_el0_with \/ Halted
           /\ UNCHANGED progVars
    BY <1>1, <1>5, OthersScript DEF SInv
<1>6. CASE UNCHANGED allVars
    <2>1. UNCHANGED vars /\ UNCHANGED progVars
        BY <1>6 DEF allVars, progVars
    <2> QED BY <1>1, <2>1, OthersScript DEF SInv
<1> QED BY <1>2, <1>3, <1>4, <1>5, <1>6 DEF DemoNext

LEMMA ScriptStart == DemoInit => SInv
<1> SUFFICES ASSUME DemoInit PROVE SInv
    OBVIOUS
<1>1. KInv /\ ProgInv
    BY DemoStart
<1>2. /\ mode = "monitor" /\ ~oops /\ current_tid = 0 /\ ready_queue = <<>> /\ ~preempt
      /\ pc = Empty(1) /\ out = <<>> /\ demo = el0
    BY DEF DemoInit, Init, TableInit
<1>3. pc \in [Slots -> Nat \ {0}]
    BY <1>2 DEF Empty
<1>4. IsPrefix(out, demo.prints)
    BY <1>2, NothingPrinted DEF AllDemos, SoloDemos
<1> QED BY <1>1, <1>2, <1>3, <1>4 DEF SInv, ScriptInv, Fresh, PrintsAsDescribed


(***************************************************************************)
(* What follows.                                                           *)
(***************************************************************************)
\* The programs only do what Kernel lets a program do: no program counter runs
\* past the end of its program, whatever is spawned, killed and switched.
THEOREM DemosRunOnKernel == DemoSpec => Spec
BY DemoStart, DemoStep, PTL DEF DemoSpec, Spec

\* So what holds of every program holds of these.
THEOREM DemosKeepPromises ==
    DemoSpec => /\ []TypeOK /\ []RunningIsCurrent /\ []ReadyIsQueued /\ []ContextIsCurrent
                /\ []SleepsOnACondition /\ OthersKeepTheirPlace /\ MailboxSpec
                /\ NobodyOvertakes /\ NobodyOversleeps
BY DemosRunOnKernel, TypeCorrect, OneRunning, NoWakeLost, RunsInItsContext,
   NobodySleepsOnAWake, OthersUndisturbed, KernelImplementsMailbox, NobodyIsOvertaken,
   DeadlinesAreKept, PTL

\* Each demo without the timer prints a beginning of what its description says,
\* line by line and in that order, and is back in the monitor only when all of
\* it is printed and every task is gone.
THEOREM DemosPrintAsDescribed == DemoSpec => []PrintsAsDescribed
<1>1. SInv => PrintsAsDescribed
    BY DEF SInv, ScriptInv
<1> QED BY <1>1, ScriptStart, ScriptStep, PTL DEF DemoSpec

\* No program goes past a call that did not do its work.
THEOREM ProgramsNeedNotCheck == DemoSpec => CallsDoTheirWork
<1>1. SInv /\ [DemoNext]_allVars => [\A t \in Tids : pc'[t] > pc[t] =>
         LET c == Program(space[t])[pc[t]].call IN
         /\ c.sys \in {"recv", "recvblk"} => mailbox[t].len > 0 /\ mailbox[t].from = 1
         /\ c.sys \in {"send", "sendblk"} => mailbox[2].len = 0 /\ mailbox'[2].len = c.n
         /\ c.sys = "wait" => state[2] = "Exited" /\ exit_code[2] = 42]_allVars
    BY ScriptStep DEF Works
<1> QED BY <1>1, ScriptStart, ScriptStep, PTL DEF DemoSpec, CallsDoTheirWork
=============================================================================
