---------------------------- MODULE UserPrograms ----------------------------
(***************************************************************************)
(* The user programs that the kernel carries as machine code, running on   *)
(* Kernel's system calls.  Each is a straight line of calls; it ends in an *)
(* exit, a store that faults, or a loop on the spot.                       *)
(*                                                                         *)
(* Kernel lets EL0 issue any call at any time; here EL0 issues the call    *)
(* that its program counter is at, fetched through TTBR0, and the monitor  *)
(* starts the demos by name.                                               *)
(***************************************************************************)
EXTENDS Kernel, SequencesExt

VARIABLES
    demo,       \* whose programs the task memory holds
    pc,         \* for each register set, the next call of its program
    out         \* what the session's tasks have printed

allVars == <<vars, demo, pc, out>>
progVars == <<demo, pc, out>>

(***************************************************************************)
(* Instructions: an svc with its registers, and the text a write points    *)
(* at; `str x1, [x0]` with x0 = 0; `b .`                                   *)
(***************************************************************************)
Svc(sys, a, n) == [call |-> [sys |-> sys, a |-> a, n |-> n, buf |-> "user"], text |-> ""]

Say(text, n) == [Svc("write", 1, n) EXCEPT !.text = text]
YieldCpu     == Svc("yield", 0, 0)
SendB(n)     == Svc("send", 2, n)           \* the receiver is always TID 2
SendBlkB(n)  == Svc("sendblk", 2, n)
Receive      == Svc("recv", 0, 97)          \* `movz x1, #97`, though the listings have 32
ReceiveBlk   == Svc("recvblk", 0, 97)
SleepFor(n)  == Svc("sleep", n, 0)
WaitB        == Svc("wait", 2, 0)
Exits(code)  == Svc("exit", code, 0)        \* SYS_EXIT finds the last write's x0
Store0       == Svc("fault", 0, 0)
Spin         == Svc("spin", 0, 0)

USER_PROGRAM == <<Say("hello, EL0!", 13), YieldCpu, Say("back from yield", 17), Exits(17)>>
USER_FAULT_PROGRAM == <<Store0>>
TASK_B_PROGRAM == <<Say("task B!", 8), YieldCpu, Say("B done!", 8), Exits(8)>>
TASK_PREEMPT_A == <<Say("A", 2), Spin>>
TASK_PREEMPT_B == <<Say("B", 2), Spin>>
TASK_IPC_SENDER == <<Say("A: sending", 12), SendB(8), YieldCpu, Say("A: sent", 8), Exits(8)>>
TASK_IPC_RECEIVER == <<Say("B: waiting", 12), YieldCpu, Receive, Say("B: got msg!", 13), Exits(13)>>
TASK_BLKIPC_SENDER == <<Say("A: send", 9), YieldCpu, SendB(5), Say("A: done", 9), Exits(9)>>
TASK_BLKIPC_RECEIVER == <<Say("B: block", 10), ReceiveBlk, Say("B: woke!", 10), Exits(10)>>
TASK_SENDBLK_SENDER == <<Say("A: send2", 10), SendBlkB(5), SendBlkB(6), Say("A: sent2", 10), Exits(10)>>
TASK_SENDBLK_RECEIVER ==
    <<Say("B: recv2", 10), Receive, YieldCpu, Receive, Say("B: got2", 9), Exits(9)>>
TASK_FAULTKILL_A == <<Say("A: alive", 10), Store0>>
TASK_FAULTKILL_B == <<Say("B: ok", 7), Exits(7)>>
TASK_SLEEP_A == <<Say("A: sleep", 10), SleepFor(3), Say("A: woke!", 9), Exits(9)>>
TASK_SLEEP_B == <<Say("B: run", 7), Spin>>
TASK_WAIT_PARENT == <<Say("A: wait", 9), WaitB, Say("A: woke!", 10), Exits(10)>>
TASK_WAIT_CHILD == <<Say("B: hi", 6), YieldCpu, Say("B: bye", 7), Exits(42)>>

(***************************************************************************)
(* The demos: the programs of task A and task B, in memory slots 1 and 2,  *)
(* or one program without a TCB; and what their descriptions say they      *)
(* print.  The timer demos' lines come in the order of the ticks.          *)
(***************************************************************************)
scheduled == [a |-> USER_PROGRAM, b |-> TASK_B_PROGRAM,
    prints |-> <<"hello, EL0!", "task B!", "back from yield", "B done!">>]
ipc == [a |-> TASK_IPC_SENDER, b |-> TASK_IPC_RECEIVER,
    prints |-> <<"A: sending", "B: waiting", "A: sent", "B: got msg!">>]
blkipc == [a |-> TASK_BLKIPC_SENDER, b |-> TASK_BLKIPC_RECEIVER,
    prints |-> <<"A: send", "B: block", "A: done", "B: woke!">>]
sendblk == [a |-> TASK_SENDBLK_SENDER, b |-> TASK_SENDBLK_RECEIVER,
    prints |-> <<"A: send2", "B: recv2", "A: sent2", "B: got2">>]
faultkill == [a |-> TASK_FAULTKILL_A, b |-> TASK_FAULTKILL_B,
    prints |-> <<"A: alive", "B: ok">>]
wait == [a |-> TASK_WAIT_PARENT, b |-> TASK_WAIT_CHILD,
    prints |-> <<"A: wait", "B: hi", "B: bye", "A: woke!">>]
preempt_demo == [a |-> TASK_PREEMPT_A, b |-> TASK_PREEMPT_B, prints |-> <<"A", "B">>]
sleep == [a |-> TASK_SLEEP_A, b |-> TASK_SLEEP_B, prints |-> <<"A: sleep", "B: run", "A: woke!">>]
el0 == [a |-> USER_PROGRAM, b |-> <<>>, prints |-> <<"hello, EL0!", "back from yield">>]
el0fault == [a |-> USER_FAULT_PROGRAM, b |-> <<>>, prints |-> <<>>]

SoloDemos  == {el0, el0fault}
TimerDemos == {preempt_demo, sleep}
TaskDemos  == {scheduled, ipc, blkipc, sendblk, faultkill, wait} \cup TimerDemos

AllDemos   == SoloDemos \cup TaskDemos

\* Two tasks a session, either kind of demo, and every call of a program among
\* those that Kernel lets EL0 issue.
ASSUME UserProgramsAssumption ==
    /\ NSPAWN = 2
    /\ Demos = BOOLEAN
    /\ \A d \in AllDemos : \A p \in {d.a, d.b} : \A k \in DOMAIN p :
         p[k].call \in Calls \/ p[k].call.sys \in {"fault", "spin"}

\* What the program counter of the code on the CPU is at.
Program(slot) == IF slot = 2 THEN demo.b ELSE demo.a
Fetched == Program(ttbr0)[pc[frame.own]]

DemoInit ==
    /\ Init
    /\ demo = el0
    /\ pc = Empty(1)
    /\ out = <<>>

\* EL0 reaches its next call, fault or branch.  The program counter moves on
\* unless the handler rewound ELR, in the frame it returns to or the one it saved.
UserStep ==
    /\ mode = "el0"
    /\ LET i   == Fetched
           t   == frame.own
           ELR == IF frame'.own = t THEN frame' ELSE saved'[t] IN
       /\ handle_svc_from_el0(i.call) \/ (i.call.sys = "fault" /\ Fault)
       /\ pc' = IF ELR.svc = i.call THEN pc ELSE [pc EXCEPT ![t] = @ + 1]
       /\ out' = IF i.call.sys = "write" /\ write_x0(i.call) > 0 THEN Append(out, i.text) ELSE out
       /\ UNCHANGED demo

\* A demo is started: its programs are copied into the task memory, and a new
\* task starts at the first instruction.
Starts(d) ==
    /\ demo' = d
    /\ pc' = [t \in Slots |-> IF state[t] = "Exited" THEN 1 ELSE pc[t]]
    /\ out' = <<>>

LaunchDemo(d) == LaunchCommand(d \in TimerDemos) /\ Starts(d)
SoloDemo(d) == SoloCommand /\ Starts(d)

\* An svc, a fault or a tick while OOPS is set; a loop on the spot only has ticks.
NestedTrap ==
    /\ mode = "el0" /\ Fetched = Spin => IrqTaken
    /\ NestedException

DemoNext ==
    \/ UserStep
    \/ \E d \in TaskDemos : LaunchDemo(d)
    \/ \E d \in SoloDemos : SoloDemo(d)
    \/ /\ handle_irq \/ NestedTrap \/ FatalCommand \/ TickCommand \/ drop_to_el0_with \/ Halted
       /\ UNCHANGED progVars

DemoSpec == DemoInit /\ [][DemoNext]_allVars

\* EL0 gets instructions done between ticks (a tick a second), the launch goes
\* on to eret, and the timer is periodic.
FairDemoSpec ==
    /\ DemoSpec
    /\ SF_allVars(UserStep)
    /\ WF_allVars(drop_to_el0_with /\ UNCHANGED progVars)
    /\ WF_allVars(IrqTaken /\ (handle_irq \/ NestedTrap) /\ UNCHANGED progVars)

(***************************************************************************)
(* Properties.                                                             *)
(***************************************************************************)
\* The demos' order of output, which only the kernel's scheduling decides: what
\* a demo without the timer has printed is always a beginning of what its
\* description says, and it is back in the monitor only when all is printed and
\* every task is gone.
PrintsAsDescribed ==
    demo \notin TimerDemos =>
        /\ IsPrefix(out, demo.prints)
        /\ mode = "monitor" /\ oops =>
              out = demo.prints /\ \A t \in Tids : state[t] = "Exited"

\* The programs never look at x0, so they rely on this: when a program gets past
\* a receive there was a message from A, past a send the message is in B's
\* mailbox, and past wait the child has exited with 42.
CallsDoTheirWork ==
    [][\A t \in Tids : pc'[t] > pc[t] =>
         LET c == Program(space[t])[pc[t]].call IN
         /\ c.sys \in {"recv", "recvblk"} => mailbox[t].len > 0 /\ mailbox[t].from = 1
         /\ c.sys \in {"send", "sendblk"} => mailbox[2].len = 0 /\ mailbox'[2].len = c.n
         /\ c.sys = "wait" => state[2] = "Exited" /\ exit_code[2] = 42]_allVars

=============================================================================
