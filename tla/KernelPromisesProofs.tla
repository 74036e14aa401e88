------------------------ MODULE KernelPromisesProofs ------------------------
(***************************************************************************)
(* What Kernel promises EL0, for every MAX_TASKS, every number of tasks    *)
(* and every set of calls: a program runs in its own context, nobody off   *)
(* the CPU loses its place, nobody sleeps on a wake that has happened, and *)
(* the mailboxes implement Mailbox.  The proofs go by the three kinds of   *)
(* scheduling step of KernelQueueProofs.                                   *)
(***************************************************************************)
EXTENDS KernelQueueProofs

(***************************************************************************)
(* What a scheduling step does to each task.                               *)
(***************************************************************************)
LEMMA WakesTable ==
    ASSUME IInv, NEW W, Wakes(W)
    PROVE  /\ \A t \in Tids : state'[t] = IF t \in W THEN "Ready" ELSE state[t]
           /\ \A t \in W : state[t] = "Blocked"
           /\ saved' = saved /\ current_tid' = current_tid
BY TidFacts DEF Wakes, AllBlocked, Woken

\* The table and the frames that a task leaves behind, before the next is loaded.
LEMMA LeavesTable ==
    ASSUME IInv, NEW x, NEW W, NEW f, Leaves(x, W, f)
    PROVE  LET st == ReadyState(Woken(Left(x), W))
               sv == SaveCurrent(Woken(Left(x), W), f) IN
           /\ current_tid \in Tids
           /\ st \in States /\ DOMAIN sv = Slots
           /\ \A t \in Tids \ {current_tid} : st[t] = IF t \in W THEN "Ready" ELSE state[t]
           /\ \A t \in Tids \ {current_tid} : sv[t] = saved[t]
           /\ x # "keep" => st[current_tid] = x
           /\ x = "keep" => st[current_tid] \in {state[current_tid], "Ready"}
           /\ x = "keep" /\ state[current_tid] = "Exited" => st[current_tid] = "Exited"
           /\ st[current_tid] # "Exited" => sv[current_tid] = f
<1> DEFINE st == Woken(Left(x), W)
<1>1. /\ current_tid \in Tids /\ x \in Ways /\ Left(x) \in States
      /\ \A t \in Slots : Left(x)[t] = IF t = current_tid /\ x # "keep" THEN x ELSE state[t]
    BY LeftTable DEF Leaves
<1>2. /\ W \in SUBSET Tids /\ \A t \in W : state[t] = "Blocked"
      /\ x # "keep" => current_tid \notin W
    BY DEF Leaves, AllBlocked
<1>3. /\ st \in States
      /\ \A t \in Tids : st[t] = IF t \in W THEN "Ready"
                                 ELSE IF t = current_tid /\ x # "keep" THEN x ELSE state[t]
    BY <1>1, <1>2, TidFacts DEF Woken, States, TaskState
<1> HIDE DEF st
<1>4. /\ ReadyState(st) \in States
      /\ \A t \in Tids : ReadyState(st)[t] =
            IF t = current_tid /\ st[t] = "Running" THEN "Ready" ELSE st[t]
    BY <1>1, <1>3, TidFacts DEF ReadyState, Requeues, States, TaskState
<1>5. /\ DOMAIN SaveCurrent(st, f) = Slots
      /\ \A t \in Tids : SaveCurrent(st, f)[t] =
            IF t = current_tid /\ st[t] # "Exited" THEN f ELSE saved[t]
    BY <1>1, TidFacts DEF SaveCurrent, task, IInv, SwitchOK
<1>6. x # "keep" => x # "Running"
    BY <1>1 DEF Ways
<1>7. x = "keep" => st[current_tid] \in {state[current_tid], "Ready"}
    BY <1>1, <1>3
<1>8. x = "keep" /\ state[current_tid] = "Exited" => st[current_tid] = "Exited"
    BY <1>1, <1>2, <1>3
<1> QED BY <1>1, <1>2, <1>3, <1>4, <1>5, <1>6, <1>7, <1>8 DEF st

\* Switching: the next task runs, on its own frame and in its own space, and the
\* others are where the one that left put them.
LEMMA SwitchesTable ==
    ASSUME IInv, NEW x, NEW W, NEW f, Switches(x, W, f)
    PROVE  /\ current_tid \in Tids /\ current_tid' \in Tids
           /\ W \in SUBSET Tids /\ \A t \in W : state[t] = "Blocked"
           /\ state'[current_tid'] = "Running"
           /\ \A t \in Tids \ {current_tid, current_tid'} :
                state'[t] = IF t \in W THEN "Ready" ELSE state[t]
           /\ \A t \in Tids \ {current_tid} : saved'[t] = saved[t]
           /\ current_tid' # current_tid => state[current_tid'] # "Exited"
           /\ current_tid' = current_tid => x # "Exited"
           /\ current_tid' # current_tid /\ x # "keep" => state'[current_tid] = x
           /\ current_tid' # current_tid /\ x = "keep" =>
                /\ state'[current_tid] \in {state[current_tid], "Ready"}
                /\ state[current_tid] = "Exited" => state'[current_tid] = "Exited"
           /\ state'[current_tid] # "Exited" => saved'[current_tid] = f
           /\ frame' = saved'[current_tid']
           /\ ttbr0' = IF space[current_tid'] # 0 THEN space[current_tid'] ELSE ttbr0
           /\ sp_el1' = IF space[current_tid'] # 0 THEN space[current_tid'] ELSE sp_el1
<1>1. PICK w \in ScanOrders(W) :
        save_and_switch(Woken(Left(x), W), enqueue_all(ready_queue, w), f)
    BY DEF Switches
<1> DEFINE st == ReadyState(Woken(Left(x), W))
           sv == SaveCurrent(Woken(Left(x), W), f)
           q  == ReadyQueue(Woken(Left(x), W), enqueue_all(ready_queue, w))
           next == Head(q)
<1>2. /\ current_tid \in Tids
      /\ st \in States /\ DOMAIN sv = Slots
      /\ \A t \in Tids \ {current_tid} : st[t] = IF t \in W THEN "Ready" ELSE state[t]
      /\ \A t \in Tids \ {current_tid} : sv[t] = saved[t]
      /\ x # "keep" => st[current_tid] = x
      /\ x = "keep" => st[current_tid] \in {state[current_tid], "Ready"}
      /\ x = "keep" /\ state[current_tid] = "Exited" => st[current_tid] = "Exited"
      /\ st[current_tid] # "Exited" => sv[current_tid] = f
    BY LeavesTable DEF Switches
<1>3. W \in SUBSET Tids /\ (\A t \in W : state[t] = "Blocked") /\ x \in Ways
    BY DEF Switches, Leaves, AllBlocked
<1>4. /\ q # <<>> /\ task(st, next)
      /\ state' = [st EXCEPT ![next] = "Running"]
      /\ saved' = sv
      /\ frame' = sv[next]
      /\ ttbr0' = IF space[next] # 0 THEN space[next] ELSE ttbr0
      /\ sp_el1' = IF space[next] # 0 THEN space[next] ELSE sp_el1
      /\ current_tid' = next
    BY <1>1 DEF save_and_switch, Load, CanSwitch
<1>5. next \in Tids
    <2>1. enqueue_all(ready_queue, w) \in Queues
        BY <1>3, ScanOrderType, EnqueueAllType DEF IInv, SwitchOK
    <2>2. q \in Queues
        BY <1>2, <2>1, EnqueueType DEF ReadyQueue
    <2> QED BY <1>4, <2>2, QueueFacts, TailFacts
<1> HIDE DEF st, sv, q, next
<1>6. next \in Slots /\ st[next] # "Exited"
    BY <1>4, <1>5, TidFacts DEF task
<1>7. \A t \in Slots : state'[t] = IF t = next THEN "Running" ELSE st[t]
    BY <1>2, <1>4 DEF States
<1>8. next # current_tid => state[next] # "Exited"
    BY <1>2, <1>3, <1>5, <1>6
<1>9. next = current_tid => x # "Exited"
    BY <1>2, <1>6
<1>10. state'[current_tid] # "Exited" => saved'[current_tid] = f
    BY <1>2, <1>4, <1>6, <1>7, TidFacts
<1>11. \A t \in Tids \ {current_tid, next} : state'[t] = IF t \in W THEN "Ready" ELSE state[t]
    BY <1>2, <1>7, TidFacts
<1>12. next # current_tid => state'[current_tid] = st[current_tid]
    BY <1>2, <1>7, TidFacts
<1> QED BY <1>2, <1>3, <1>4, <1>5, <1>6, <1>7, <1>8, <1>9, <1>10, <1>11, <1>12

\* Staying: the same task runs on, in whatever state it left itself.
LEMMA StaysTable ==
    ASSUME IInv, NEW x, NEW W, NEW f, Stays(x, W, f)
    PROVE  /\ current_tid \in Tids /\ current_tid' = current_tid
           /\ W \in SUBSET Tids /\ \A t \in W : state[t] = "Blocked"
           /\ \A t \in Tids \ {current_tid} : state'[t] = IF t \in W THEN "Ready" ELSE state[t]
           /\ \A t \in Tids \ {current_tid} : saved'[t] = saved[t]
           /\ x # "keep" => state'[current_tid] = x
           /\ x = "keep" => state'[current_tid] \in {state[current_tid], "Ready"}
           /\ state'[current_tid] # "Exited" => saved'[current_tid] = f
<1>1. PICK w \in ScanOrders(W) :
        save_and_stay(Woken(Left(x), W), enqueue_all(ready_queue, w), f)
    BY DEF Stays
<1> DEFINE st == ReadyState(Woken(Left(x), W))
           sv == SaveCurrent(Woken(Left(x), W), f)
<1>2. /\ current_tid \in Tids
      /\ \A t \in Tids \ {current_tid} : st[t] = IF t \in W THEN "Ready" ELSE state[t]
      /\ \A t \in Tids \ {current_tid} : sv[t] = saved[t]
      /\ x # "keep" => st[current_tid] = x
      /\ x = "keep" => st[current_tid] \in {state[current_tid], "Ready"}
      /\ st[current_tid] # "Exited" => sv[current_tid] = f
    BY LeavesTable DEF Stays
<1>3. W \in SUBSET Tids /\ (\A t \in W : state[t] = "Blocked")
    BY DEF Stays, Leaves, AllBlocked
<1>4. state' = st /\ saved' = sv /\ current_tid' = current_tid
    BY <1>1 DEF save_and_stay, Stay
<1> HIDE DEF st, sv
<1> QED BY <1>2, <1>3, <1>4

(***************************************************************************)
(* Whose registers, address space and stack EL0 runs on.                   *)
(***************************************************************************)
\* The monitor and a demo's last steps run on the kernel's own frame; the frame
\* of a task that was saved at EL0 is its own.
ContextInv ==
    /\ mode \in {"monitor", "launch"} =>
         /\ frame.el = 1 /\ frame.svc = NoCall
         /\ ~oops => sp_el1 = 0
    /\ \A t \in Tids : state[t] # "Exited" =>
         /\ space[t] # 0
         /\ saved[t].el = 0 => saved[t].own = t
    /\ mode = "el0" /\ ~oops =>
         /\ frame.el = 0
         /\ frame.own = current_tid
         /\ current_tid # 0 =>
              /\ ttbr0 = space[current_tid]
              /\ sp_el1 \in {0, space[current_tid]}

\* Saving the current frame keeps the second part.
LEMMA SavedOwn ==
    ASSUME IInv, ContextInv, QueueInv, mode \in {"el0", "launch"}, ~oops,
           NEW f, SavesFrame(f)
    PROVE  f.el = 0 => f.own = current_tid
BY DEF ContextInv, SavesFrame

LEMMA SchedContext ==
    ASSUME IInv, QueueInv, ContextInv, ~oops, mode \in {"monitor", "el0", "launch"},
           SchedStep, space' = space
    PROVE  ContextInv'
<1>0. ASSUME current_tid # 0 PROVE mode \in {"el0", "launch"} /\ state[current_tid] # "Exited"
    BY <1>0 DEF QueueInv, InSession
<1>1. ASSUME NEW W, Wakes(W), Kept \/ park \/ (current_tid = 0 /\ on_el0_return)
      PROVE  ContextInv'
    <2>1. /\ \A t \in Tids : state'[t] # "Exited" => state[t] # "Exited"
          /\ saved' = saved /\ current_tid' = current_tid
        BY <1>1, WakesTable
    <2>2. CASE Kept
        BY <2>1, <2>2 DEF ContextInv, Kept
    <2>3. CASE park
        BY <2>1, <2>3 DEF ContextInv, park, KernelFrame
    <2>4. CASE on_el0_return
        BY <2>1, <2>4 DEF ContextInv, on_el0_return, KernelFrame
    <2> QED BY <1>1, <2>2, <2>3, <2>4
<1>2. ASSUME NEW x, NEW W, NEW f, Switches(x, W, f), Resumed
      PROVE  ContextInv'
    <2>1. /\ current_tid \in Tids /\ current_tid' \in Tids
          /\ \A t \in W : state[t] = "Blocked"
          /\ \A t \in Tids \ {current_tid, current_tid'} :
               state'[t] = IF t \in W THEN "Ready" ELSE state[t]
          /\ \A t \in Tids \ {current_tid} : saved'[t] = saved[t]
          /\ current_tid' # current_tid => state[current_tid'] # "Exited"
          /\ state'[current_tid] # "Exited" => saved'[current_tid] = f
          /\ state'[current_tid'] = "Running"
          /\ frame' = saved'[current_tid']
          /\ ttbr0' = IF space[current_tid'] # 0 THEN space[current_tid'] ELSE ttbr0
          /\ sp_el1' = IF space[current_tid'] # 0 THEN space[current_tid'] ELSE sp_el1
        BY <1>2, SwitchesTable
    <2>2. f.el = 0 => f.own = current_tid
        <3>1. current_tid # 0 /\ SavesFrame(f)
            BY <1>2 DEF Switches, Leaves
        <3> QED BY <1>0, <3>1, SavedOwn
    <2>3. ASSUME NEW t \in Tids, state'[t] # "Exited" PROVE state[t] # "Exited"
        BY <1>0, <2>1, <2>3, TidFacts
    <2>4. ASSUME NEW t \in Tids, state'[t] # "Exited"
          PROVE  space'[t] # 0 /\ (saved'[t].el = 0 => saved'[t].own = t)
        <3>1. space[t] # 0 /\ (saved[t].el = 0 => saved[t].own = t)
            BY <2>3, <2>4 DEF ContextInv
        <3> QED BY <2>1, <2>2, <2>4, <3>1
    <2>5. space'[current_tid'] # 0 /\ (frame'.el = 0 => frame'.own = current_tid')
        BY <2>1, <2>4
    <2>6. /\ mode' = IF frame'.el = 0 THEN "el0" ELSE "wild"
          /\ ttbr0' = space'[current_tid'] /\ sp_el1' = space'[current_tid']
        BY <1>2, <2>1, <2>5 DEF Resumed
    <2> QED BY <2>4, <2>5, <2>6 DEF ContextInv
<1>3. ASSUME NEW x, NEW W, NEW f, Stays(x, W, f), KeptBy(x) \/ on_el0_return
      PROVE  ContextInv'
    <2>1. /\ current_tid \in Tids /\ current_tid' = current_tid
          /\ \A t \in W : state[t] = "Blocked"
          /\ \A t \in Tids \ {current_tid} : state'[t] = IF t \in W THEN "Ready" ELSE state[t]
          /\ \A t \in Tids \ {current_tid} : saved'[t] = saved[t]
          /\ state'[current_tid] # "Exited" => saved'[current_tid] = f
        BY <1>3, StaysTable
    <2>2. f.el = 0 => f.own = current_tid
        <3>1. current_tid # 0 /\ SavesFrame(f)
            BY <1>3 DEF Stays, Leaves
        <3> QED BY <1>0, <3>1, SavedOwn
    <2>3. ASSUME NEW t \in Tids, state'[t] # "Exited" PROVE state[t] # "Exited"
        BY <1>0, <2>1, <2>3, TidFacts
    <2>4. ASSUME NEW t \in Tids, state'[t] # "Exited"
          PROVE  space'[t] # 0 /\ (saved'[t].el = 0 => saved'[t].own = t)
        <3>1. space[t] # 0 /\ (saved[t].el = 0 => saved[t].own = t)
            BY <2>3, <2>4 DEF ContextInv
        <3> QED BY <2>1, <2>2, <2>4, <3>1
    <2>5. CASE Kept
        BY <2>1, <2>4, <2>5 DEF ContextInv, Kept
    <2>6. CASE on_el0_return
        BY <2>4, <2>6 DEF ContextInv, on_el0_return, KernelFrame
    <2> QED BY <1>3, <2>5, <2>6 DEF KeptBy
<1> QED BY <1>1, <1>2, <1>3 DEF SchedStep

\* What spawn gives the tasks of a scan order.
LEMMA SpawnedTasks ==
    ASSUME IInv, NEW W \in SUBSET Tids, NEW w \in ScanOrders(W), spawn_fields(w)
    PROVE  /\ \A t \in W : /\ space'[t] # 0 /\ saved'[t] = UserFrame(t)
                           /\ mailbox'[t] = EmptyMailbox
           /\ \A t \in Tids \ W : /\ space'[t] = space[t] /\ saved'[t] = saved[t]
                                  /\ mailbox'[t] = mailbox[t]
<1> DEFINE fresh == {w[i] : i \in DOMAIN w}
           SlotOf(t) == CHOOSE i \in DOMAIN w : w[i] = t
<1>1. fresh = W
    <2>1. (\A i \in DOMAIN w : w[i] \in W) /\ (\A t \in W : \E i \in DOMAIN w : w[i] = t)
        BY ScanOrderMeetsAll
    <2> QED BY <2>1
<1>2. /\ mailbox' = [t \in Slots |-> IF t \in fresh THEN EmptyMailbox ELSE mailbox[t]]
      /\ space' = [t \in Slots |-> IF t \in fresh THEN SlotOf(t) ELSE space[t]]
      /\ saved' = [t \in Slots |-> IF t \in fresh THEN UserFrame(t) ELSE saved[t]]
    BY DEF spawn_fields
<1>3. ASSUME NEW t \in fresh PROVE SlotOf(t) # 0
    <2>1. DOMAIN w = 1 .. Cardinality(W) /\ Cardinality(W) \in Nat
        BY ScanOrderType
    <2>2. SlotOf(t) \in DOMAIN w
        BY <1>3
    <2> HIDE DEF SlotOf
    <2> QED BY <2>1, <2>2
<1> HIDE DEF fresh, SlotOf
<1> QED BY <1>1, <1>2, <1>3, TidFacts

LEMMA LaunchContext ==
    ASSUME IInv, ContextInv, NEW timed \in Demos, LaunchCommand(timed)
    PROVE  ContextInv'
<1>1. PICK W \in AllocatedSlots(NSPAWN) : \E w \in ScanOrders(W) :
        LET st == Woken(state, W)
            q  == enqueue_all(ready_queue, w) IN
        /\ CanSwitch(st, q)
        /\ state' = [st EXCEPT ![Head(q)] = "Running"]
        /\ ready_queue' = Tail(q)
        /\ current_tid' = Head(q)
        /\ spawn_fields(w)
    BY DEF LaunchCommand
<1>2. PICK w \in ScanOrders(W) :
        LET st == Woken(state, W)
            q  == enqueue_all(ready_queue, w) IN
        /\ CanSwitch(st, q)
        /\ state' = [st EXCEPT ![Head(q)] = "Running"]
        /\ spawn_fields(w)
    BY <1>1
<1> DEFINE next == Head(enqueue_all(ready_queue, w))
           st == Woken(state, W)
<1>3. /\ state' = [st EXCEPT ![next] = "Running"] /\ st[next] # "Exited"
      /\ spawn_fields(w)
    BY <1>2 DEF CanSwitch, task
<1>4. W \in SUBSET Tids
    BY DEF AllocatedSlots, FreeSlots
<1>5. \A t \in Slots : st[t] = IF t \in W THEN "Ready" ELSE state[t]
    BY DEF Woken
<1>6. DOMAIN st = Slots
    BY DEF Woken
<1> HIDE DEF next, st
<1>7. \A t \in Tids : state'[t] # "Exited" => t \in W \/ state[t] # "Exited"
    BY <1>3, <1>5, <1>6, TidFacts
<1>8. /\ \A t \in W : space'[t] # 0 /\ saved'[t] = UserFrame(t)
      /\ \A t \in Tids \ W : space'[t] = space[t] /\ saved'[t] = saved[t]
    BY <1>3, <1>4, SpawnedTasks
<1>9. ASSUME NEW t \in Tids, state'[t] # "Exited"
      PROVE  space'[t] # 0 /\ (saved'[t].el = 0 => saved'[t].own = t)
    <2>1. CASE t \in W
        <3>1. space'[t] # 0 /\ saved'[t] = UserFrame(t)
            BY <1>8, <2>1
        <3>2. UserFrame(t).own = t
            BY DEF UserFrame
        <3> QED BY <3>1, <3>2
    <2>2. CASE t \notin W
        BY <1>7, <1>8, <1>9, <2>2 DEF ContextInv
    <2> QED BY <2>1, <2>2
<1>10. /\ mode = "monitor" /\ mode' = "launch"
       /\ UNCHANGED <<frame, sp_el1, oops>>
    BY DEF LaunchCommand
<1> QED BY <1>9, <1>10 DEF ContextInv

LEMMA TableFullContext ==
    ASSUME IInv, ContextInv, LaunchTableFull
    PROVE  ContextInv'
<1>1. PICK w \in ScanOrders(FreeSlots) : state' = Woken(state, FreeSlots) /\ spawn_fields(w)
    BY DEF LaunchTableFull
<1>2. FreeSlots \in SUBSET Tids
    BY DEF FreeSlots
<1>3. \A t \in Tids : state'[t] # "Exited" => t \in FreeSlots \/ state[t] # "Exited"
    BY <1>1, TidFacts DEF Woken
<1>4. /\ \A t \in FreeSlots : space'[t] # 0 /\ saved'[t] = UserFrame(t)
      /\ \A t \in Tids \ FreeSlots : space'[t] = space[t] /\ saved'[t] = saved[t]
    BY <1>1, <1>2, SpawnedTasks
<1>5. ASSUME NEW t \in Tids, state'[t] # "Exited"
      PROVE  space'[t] # 0 /\ (saved'[t].el = 0 => saved'[t].own = t)
    <2>1. CASE t \in FreeSlots
        <3>1. space'[t] # 0 /\ saved'[t] = UserFrame(t)
            BY <1>4, <2>1
        <3>2. UserFrame(t).own = t
            BY DEF UserFrame
        <3> QED BY <3>1, <3>2
    <2>2. CASE t \notin FreeSlots
        BY <1>3, <1>4, <1>5, <2>2 DEF ContextInv
    <2> QED BY <2>1, <2>2
<1>6. mode = "monitor" /\ UNCHANGED <<mode, oops, frame, sp_el1>>
    BY DEF LaunchTableFull, cpuVars, devVars
<1> QED BY <1>5, <1>6 DEF ContextInv

LEMMA ContextStep == IInv /\ QueueInv /\ ContextInv /\ [Next]_vars => ContextInv'
<1> SUFFICES ASSUME IInv, QueueInv, ContextInv, [Next]_vars PROVE ContextInv'
    OBVIOUS
<1>1. ASSUME NEW c \in Calls, handle_svc_from_el0(c) PROVE ContextInv'
    <2>1. ~oops /\ mode = "el0"
        BY <1>1 DEF handle_svc_from_el0, InSvc, Write, Yield, Send, Recv, RecvBlk, SendBlk,
                    Sleep, Wait, Exit, Unknown
    <2> QED BY <1>1, <2>1, CallSchedules, SchedContext
<1>2. CASE Fault
    BY <1>2, FaultSchedules, SchedContext DEF Fault
<1>3. CASE handle_irq
    BY <1>3, IrqSchedules, SchedContext DEF handle_irq, IrqTaken
<1>4. CASE NestedException \/ FatalCommand
    BY <1>4 DEF NestedException, FatalCommand, park, ContextInv, infoVars
<1>5. CASE TickCommand
    BY <1>5 DEF TickCommand, schedVars, cpuVars, ContextInv
<1>6. CASE SoloCommand
    <2>1. ~oops => current_tid = 0
        BY <1>6 DEF QueueInv, SoloCommand
    <2> QED BY <1>6, <2>1 DEF SoloCommand, devVars, infoVars, ContextInv, UserFrame
<1>7. ASSUME NEW timed \in Demos, LaunchCommand(timed) PROVE ContextInv'
    BY <1>7, LaunchContext
<1>8. CASE LaunchTableFull
    BY <1>8, TableFullContext
<1>9. CASE drop_to_el0_with
    BY <1>9 DEF drop_to_el0_with, devVars, infoVars, ContextInv, UserFrame
<1>10. CASE UNCHANGED vars
    BY <1>10 DEF vars, schedVars, cpuVars, ContextInv
<1> QED
    BY <1>1, <1>2, <1>3, <1>4, <1>5, <1>6, <1>7, <1>8, <1>9, <1>10 DEF Next, Halted

LEMMA ContextInit == Init => ContextInv
BY TidFacts DEF Init, TableInit, Empty, KernelFrame, ContextInv

\* Whose frames and spaces there are, throughout every run of the kernel.
THEOREM ContextInvariance == Spec => []ContextInv
BY ContextInit, ContextStep, Invariance, QueueInvariance, PTL DEF Spec

\* EL0 runs as the task that CURRENT_TID names, in its address space, and traps
\* on its own kernel stack, whatever switched to it.
THEOREM RunsInItsContext == Spec => []ContextIsCurrent
<1>1. QueueInv /\ ContextInv => ContextIsCurrent
    BY DEF QueueInv, InSession, ContextInv, ContextIsCurrent
<1> QED BY <1>1, QueueInvariance, ContextInvariance, PTL

(***************************************************************************)
(* The tasks that are not on the CPU.                                      *)
(***************************************************************************)
OthersKept ==
    \A t \in Tids \ {current_tid} :
        /\ saved'[t] = saved[t]
        /\ \/ state'[t] = state[t]
           \/ state[t] = "Blocked" /\ state'[t] = "Ready"
           \/ state[t] \in {"Ready", "Blocked"} /\ state'[t] = "Running" /\ current_tid' = t

LEMMA SchedOthers == ASSUME IInv, SchedStep PROVE OthersKept
<1>1. ASSUME NEW W, Wakes(W) PROVE OthersKept
    BY <1>1, WakesTable DEF OthersKept
<1>2. ASSUME NEW x, NEW W, NEW f, Switches(x, W, f) PROVE OthersKept
    <2> SUFFICES ASSUME NEW t \in Tids \ {current_tid}
                 PROVE  /\ saved'[t] = saved[t]
                        /\ \/ state'[t] = state[t]
                           \/ state[t] = "Blocked" /\ state'[t] = "Ready"
                           \/ /\ state[t] \in {"Ready", "Blocked"}
                              /\ state'[t] = "Running" /\ current_tid' = t
        BY DEF OthersKept
    <2>1. /\ \A u \in W : state[u] = "Blocked"
          /\ \A u \in Tids \ {current_tid, current_tid'} :
               state'[u] = IF u \in W THEN "Ready" ELSE state[u]
          /\ \A u \in Tids \ {current_tid} : saved'[u] = saved[u]
          /\ current_tid' # current_tid => state[current_tid'] # "Exited"
          /\ state'[current_tid'] = "Running"
        BY <1>2, SwitchesTable
    <2>2. CASE t # current_tid'
        BY <2>1, <2>2
    <2>3. CASE t = current_tid'
        <3>1. state[t] \in TaskState /\ state[t] # "Running"
            BY TidFacts DEF IInv, TasksOK, AtMostCurrent, States
        <3> QED BY <2>1, <2>3, <3>1 DEF TaskState
    <2> QED BY <2>2, <2>3
<1>3. ASSUME NEW x, NEW W, NEW f, Stays(x, W, f) PROVE OthersKept
    BY <1>3, StaysTable DEF OthersKept
<1> QED BY <1>1, <1>2, <1>3 DEF SchedStep

\* A step of EL0, of a tick or of a nested exception is a scheduling step or
\* parks the core.
LEMMA El0Schedules ==
    ASSUME IInv, QueueInv, Next, mode = "el0"
    PROVE  \/ ~oops /\ SchedStep /\ space' = space
           \/ oops /\ park /\ UNCHANGED <<infoVars, state, saved, ready_queue>>
<1>1. ASSUME NEW c \in Calls, handle_svc_from_el0(c) PROVE ~oops /\ SchedStep /\ space' = space
    <2>1. ~oops
        BY <1>1 DEF handle_svc_from_el0, InSvc, Write, Yield, Send, Recv, RecvBlk, SendBlk,
                    Sleep, Wait, Exit, Unknown
    <2> QED BY <1>1, <2>1, CallSchedules
<1>2. CASE Fault
    BY <1>2, FaultSchedules DEF Fault
<1>3. CASE handle_irq
    BY <1>3, IrqSchedules DEF handle_irq
<1>4. CASE NestedException
    BY <1>4 DEF NestedException
<1> QED
    BY <1>1, <1>2, <1>3, <1>4
    DEF Next, FatalCommand, TickCommand, SoloCommand, LaunchCommand, LaunchTableFull,
        drop_to_el0_with, Halted

\* Whatever a program, a fault or a tick does, the tasks off the CPU keep their
\* registers, and at most are woken or get the CPU.
THEOREM OthersUndisturbed == Spec => OthersKeepTheirPlace
<1>1. IInv /\ QueueInv /\ [Next]_vars =>
        [mode = "el0" => \A t \in Tids \ {current_tid} :
           /\ saved'[t] = saved[t]
           /\ \/ state'[t] = state[t]
              \/ state[t] = "Blocked" /\ state'[t] = "Ready"
              \/ state[t] \in {"Ready", "Blocked"} /\ state'[t] = "Running" /\ current_tid' = t]_vars
    <2>1. ASSUME IInv, QueueInv, Next, mode = "el0" PROVE OthersKept
        <3>1. CASE SchedStep
            BY <2>1, <3>1, SchedOthers
        <3>2. CASE UNCHANGED <<state, saved, ready_queue>>
            BY <3>2 DEF OthersKept
        <3> QED BY <2>1, <3>1, <3>2, El0Schedules
    <2> QED BY <2>1 DEF OthersKept
<1> QED BY <1>1, Invariance, QueueInvariance, PTL DEF Spec, OthersKeepTheirPlace

(***************************************************************************)
(* Turns.                                                                  *)
(***************************************************************************)
\* The i-th entry names a Ready task that is not on the CPU.
Waits(i) ==
    /\ i \in DOMAIN ready_queue
    /\ state[ready_queue[i]] = "Ready" /\ ready_queue[i] # current_tid

\* Its task gets the CPU, or still waits with n entries or fewer up to its own.
TurnComes(i, n) ==
    LET t == ready_queue[i] IN
    \/ state'[t] = "Running" /\ current_tid' = t
    \/ /\ state'[t] = "Ready"
       /\ \E j \in Nat : j \in DOMAIN ready_queue' /\ ready_queue'[j] = t /\ j <= n

\* Appending leaves the entries that are there where they are.
LEMMA AppendKeepsEntries ==
    ASSUME NEW q \in Queues, NEW i \in DOMAIN q
    PROVE  /\ \A w \in Seq(Tids) : /\ enqueue_all(q, w) \in Seq(Tids)
                                   /\ i \in DOMAIN enqueue_all(q, w)
                                   /\ enqueue_all(q, w)[i] = q[i]
           /\ \A t \in Tids : /\ enqueue(q, t) \in Seq(Tids)
                              /\ i \in DOMAIN enqueue(q, t)
                              /\ enqueue(q, t)[i] = q[i]
<1>1. q \in Seq(Tids) /\ Len(q) \in Nat /\ Len(q) <= MAX_TASKS /\ i \in 1 .. Len(q)
    BY QueueFacts
<1>2. ASSUME NEW w \in Seq(Tids)
      PROVE  /\ enqueue_all(q, w) \in Seq(Tids)
             /\ i \in DOMAIN enqueue_all(q, w)
             /\ enqueue_all(q, w)[i] = q[i]
    <2> DEFINE n == IF Len(q) + Len(w) <= MAX_TASKS THEN Len(q) + Len(w) ELSE MAX_TASKS
    <2>1. /\ q \o w \in Seq(Tids) /\ Len(q \o w) = Len(q) + Len(w) /\ Len(w) \in Nat
          /\ (q \o w)[i] = q[i]
        BY <1>1, ConcatFacts
    <2>2. n \in Nat /\ n <= Len(q \o w) /\ i <= n
        BY <1>1, <2>1, MaxTasksAssumption
    <2>3. enqueue_all(q, w) = SubSeq(q \o w, 1, n)
        BY DEF enqueue_all
    <2> HIDE DEF n
    <2> QED BY <1>1, <2>1, <2>2, <2>3
<1>3. ASSUME NEW t \in Tids
      PROVE  /\ enqueue(q, t) \in Seq(Tids)
             /\ i \in DOMAIN enqueue(q, t)
             /\ enqueue(q, t)[i] = q[i]
    BY <1>1 DEF enqueue
<1> QED BY <1>2, <1>3

\* Whoever leaves the CPU, and whoever is woken, the others' entries stay.
LEMMA LeavesTurns ==
    ASSUME IInv, NEW x, NEW W, NEW f, Leaves(x, W, f), NEW w \in ScanOrders(W),
           NEW i, Waits(i)
    PROVE  LET st == Woken(Left(x), W)
               q  == ReadyQueue(st, enqueue_all(ready_queue, w)) IN
           /\ q \in Seq(Tids) /\ i \in DOMAIN q /\ q[i] = ready_queue[i]
           /\ ready_queue[i] \in Tids /\ ReadyState(st)[ready_queue[i]] = "Ready"
           /\ DOMAIN ReadyState(st) = Slots
<1> DEFINE st == Woken(Left(x), W)
           q1 == enqueue_all(ready_queue, w)
<1>1. ready_queue \in Queues /\ i \in DOMAIN ready_queue /\ ready_queue[i] \in Tids
    BY QueueFacts DEF IInv, SwitchOK, Waits
<1>2. W \in SUBSET Tids /\ (\A t \in W : state[t] = "Blocked")
    BY DEF Leaves, AllBlocked
<1>3. w \in Seq(Tids)
    BY <1>2, ScanOrderType
<1>4. q1 \in Seq(Tids) /\ i \in DOMAIN q1 /\ q1[i] = ready_queue[i]
    BY <1>1, <1>3, AppendKeepsEntries
<1>5. q1 \in Queues
    BY <1>1, <1>3, EnqueueAllType
<1>6. /\ current_tid \in Tids
      /\ ReadyState(st) \in States
      /\ \A t \in Tids \ {current_tid} : ReadyState(st)[t] = IF t \in W THEN "Ready" ELSE state[t]
    BY LeavesTable
<1> HIDE DEF q1, st
<1>7. ReadyQueue(st, q1) \in {q1, enqueue(q1, current_tid)}
    BY DEF ReadyQueue
<1>8. /\ ReadyQueue(st, q1) \in Seq(Tids) /\ i \in DOMAIN ReadyQueue(st, q1)
      /\ ReadyQueue(st, q1)[i] = ready_queue[i]
  <2>1. /\ enqueue(q1, current_tid) \in Seq(Tids) /\ i \in DOMAIN enqueue(q1, current_tid)
        /\ enqueue(q1, current_tid)[i] = ready_queue[i]
    BY <1>4, <1>5, <1>6, AppendKeepsEntries
  <2> QED
    BY <1>4, <1>7, <2>1, Zenon
<1>9. ReadyState(st)[ready_queue[i]] = "Ready"
    BY <1>1, <1>2, <1>6 DEF Waits
<1>10. DOMAIN ReadyState(st) = Slots
    BY <1>6 DEF States
<1> QED BY <1>1, <1>8, <1>9, <1>10 DEF q1, st

LEMMA SwitchTurns ==
    ASSUME IInv, NEW x, NEW W, NEW f, Switches(x, W, f) \/ Stays(x, W, f), NEW i, Waits(i)
    PROVE  TurnComes(i, i - 1)
<1> DEFINE t == ready_queue[i]
<1>1. Leaves(x, W, f)
    BY DEF Switches, Stays
<1>2. PICK w \in ScanOrders(W) :
        \/ save_and_switch(Woken(Left(x), W), enqueue_all(ready_queue, w), f)
        \/ save_and_stay(Woken(Left(x), W), enqueue_all(ready_queue, w), f)
    BY DEF Switches, Stays
<1> DEFINE st == ReadyState(Woken(Left(x), W))
           q  == ReadyQueue(Woken(Left(x), W), enqueue_all(ready_queue, w))
           sv == SaveCurrent(Woken(Left(x), W), f)
<1>3. /\ q \in Seq(Tids) /\ i \in DOMAIN q /\ q[i] = t /\ t \in Tids
      /\ st[t] = "Ready" /\ DOMAIN st = Slots
    BY <1>1, LeavesTurns
<1>4. Load(st, q, sv) \/ Stay(st, q, sv)
    BY <1>2 DEF save_and_switch, save_and_stay
<1> HIDE DEF st, q, sv, t
<1>5. /\ q # <<>> /\ Len(q) \in Nat /\ i \in 1 .. Len(q)
      /\ Tail(q) \in Seq(Tids) /\ DOMAIN Tail(q) = 1 .. Len(q) - 1
      /\ Head(q) = q[1] /\ Head(q) \in Tids
      /\ \A k \in 1 .. Len(q) - 1 : Tail(q)[k] = q[k + 1]
    BY <1>3
<1>6. i # 1 => i - 1 \in DOMAIN Tail(q) /\ Tail(q)[i - 1] = t
    BY <1>3, <1>5
<1>7. CASE Load(st, q, sv)
    <2>1. /\ state' = [st EXCEPT ![Head(q)] = "Running"]
          /\ current_tid' = Head(q) /\ ready_queue' = Tail(q)
        BY <1>7 DEF Load
    <2>2. CASE Head(q) = t
        <3>1. state'[t] = "Running" /\ current_tid' = t
            BY <1>3, <2>1, <2>2, TidFacts
        <3> QED BY <3>1 DEF TurnComes, t
    <2>3. CASE Head(q) # t
        <3>1. state'[t] = "Ready" /\ i # 1
            BY <1>3, <1>5, <2>1, <2>3
        <3>2. i - 1 \in DOMAIN ready_queue' /\ ready_queue'[i - 1] = t /\ i - 1 \in Nat
            BY <1>5, <1>6, <2>1, <3>1
        <3> QED BY <3>1, <3>2 DEF TurnComes, t
    <2> QED BY <2>2, <2>3
<1>8. CASE Stay(st, q, sv)
    <2>1. ~CanSwitch(st, q) /\ state' = st /\ ready_queue' = Tail(q)
        BY <1>5, <1>8 DEF Stay
    <2>2. i # 1
        BY <1>3, <1>5, <2>1, TidFacts DEF CanSwitch, task
    <2>3. i - 1 \in DOMAIN ready_queue' /\ ready_queue'[i - 1] = t /\ i - 1 \in Nat
        BY <1>5, <1>6, <2>1, <2>2
    <2> QED BY <1>3, <2>1, <2>3 DEF TurnComes, t
<1> QED BY <1>4, <1>7, <1>8

\* Waking and spawning only append.
LEMMA AppendTurns ==
    ASSUME IInv, NEW W \in SUBSET Tids, NEW w \in ScanOrders(W), NEW i, Waits(i),
           state' = Woken(state, W), ready_queue' = enqueue_all(ready_queue, w)
    PROVE  TurnComes(i, i)
<1>1. ready_queue \in Queues /\ i \in DOMAIN ready_queue /\ ready_queue[i] \in Tids /\ i \in Nat
    BY QueueFacts DEF IInv, SwitchOK, Waits
<1>2. i \in DOMAIN ready_queue' /\ ready_queue'[i] = ready_queue[i]
    BY <1>1, ScanOrderType, AppendKeepsEntries
<1>3. state'[ready_queue[i]] = "Ready"
    BY <1>1, TidFacts DEF Woken, Waits
<1> QED BY <1>1, <1>2, <1>3 DEF TurnComes

LEMMA SchedTurns == ASSUME IInv, SchedStep, NEW i, Waits(i) PROVE TurnComes(i, i)
<1>1. i \in Nat
    BY QueueFacts DEF IInv, SwitchOK, Waits
<1>2. CASE \E W : Wakes(W)
    BY <1>2, AppendTurns DEF Wakes, AllBlocked
<1>3. CASE \E x, W, f : Switches(x, W, f) \/ Stays(x, W, f)
    <2>1. TurnComes(i, i - 1)
        BY <1>3, SwitchTurns
    <2> QED BY <1>1, <2>1 DEF TurnComes
<1> QED BY <1>2, <1>3 DEF SchedStep

\* A preempting tick moves everybody forward.
LEMMA TickTurns ==
    ASSUME IInv, handle_irq, preempt, current_tid # 0, NEW i, Waits(i)
    PROVE  TurnComes(i, i - 1)
<1>1. PICK w \in ScanOrders(Sleepers) :
        \/ save_and_switch(Woken(state, Sleepers), enqueue_all(ready_queue, w), frame)
        \/ save_and_stay(Woken(state, Sleepers), enqueue_all(ready_queue, w), frame)
    BY DEF handle_irq
<1>2. Leaves("keep", Sleepers, frame) /\ Left("keep") = state /\ BlocksOn(NoCall)
    BY FramesSaved DEF Leaves, Ways, AllBlocked, Sleepers, Due, Left, BlocksOn, NoCall
<1>3. Switches("keep", Sleepers, frame) \/ Stays("keep", Sleepers, frame)
    BY <1>1, <1>2 DEF Switches, Stays
<1> QED BY <1>3, SwitchTurns

\* A launch appends its tasks and runs the first in the queue.
LEMMA LaunchTurns ==
    ASSUME IInv, NEW timed \in Demos, LaunchCommand(timed), NEW i, Waits(i)
    PROVE  TurnComes(i, i)
<1>1. PICK W \in AllocatedSlots(NSPAWN) : \E w \in ScanOrders(W) :
        LET st == Woken(state, W)
            q  == enqueue_all(ready_queue, w) IN
        /\ state' = [st EXCEPT ![Head(q)] = "Running"]
        /\ ready_queue' = Tail(q)
        /\ current_tid' = Head(q)
    BY DEF LaunchCommand
<1>2. PICK w \in ScanOrders(W) :
        LET st == Woken(state, W)
            q  == enqueue_all(ready_queue, w) IN
        /\ state' = [st EXCEPT ![Head(q)] = "Running"]
        /\ ready_queue' = Tail(q)
        /\ current_tid' = Head(q)
    BY <1>1
<1> DEFINE st == Woken(state, W)
           q  == enqueue_all(ready_queue, w)
           t  == ready_queue[i]
<1>3. W \in SUBSET Tids /\ ready_queue \in Queues /\ i \in DOMAIN ready_queue /\ t \in Tids /\ i \in Nat
    BY QueueFacts DEF AllocatedSlots, FreeSlots, IInv, SwitchOK, Waits
<1>4. q \in Seq(Tids) /\ i \in DOMAIN q /\ q[i] = t
    BY <1>3, ScanOrderType, AppendKeepsEntries
<1>5. st[t] = "Ready" /\ DOMAIN st = Slots
    BY <1>3, TidFacts DEF Woken, Waits
<1>6. /\ state' = [st EXCEPT ![Head(q)] = "Running"]
      /\ ready_queue' = Tail(q) /\ current_tid' = Head(q)
    BY <1>2
<1> HIDE DEF st, q, t
<1>7. /\ Len(q) \in Nat /\ i \in 1 .. Len(q) /\ Head(q) = q[1]
      /\ DOMAIN Tail(q) = 1 .. Len(q) - 1
      /\ \A k \in 1 .. Len(q) - 1 : Tail(q)[k] = q[k + 1]
    BY <1>4
<1>8. CASE Head(q) = t
    BY <1>3, <1>5, <1>6, <1>8, TidFacts DEF TurnComes, t
<1>9. CASE Head(q) # t
    <2>1. i # 1 /\ state'[t] = "Ready"
        BY <1>4, <1>5, <1>6, <1>7, <1>9
    <2>2. i - 1 \in DOMAIN ready_queue' /\ ready_queue'[i - 1] = t /\ i - 1 \in Nat /\ i - 1 <= i
        BY <1>4, <1>6, <1>7, <2>1
    <2> QED BY <2>1, <2>2 DEF TurnComes, t
<1> QED BY <1>8, <1>9

LEMMA TurnStep ==
    ASSUME IInv, QueueInv, [Next]_vars, NEW i, Waits(i)
    PROVE  /\ TurnComes(i, i)
           /\ handle_irq /\ preempt /\ current_tid # 0 => TurnComes(i, i - 1)
<1> SUFFICES TurnComes(i, i)
    BY TickTurns
<1>1. ASSUME NEW c \in Calls, handle_svc_from_el0(c) PROVE TurnComes(i, i)
    BY <1>1, CallSchedules, SchedTurns
<1>2. CASE Fault \/ handle_irq
    BY <1>2, FaultSchedules, IrqSchedules, SchedTurns
<1>3. ASSUME NEW timed \in Demos, LaunchCommand(timed) PROVE TurnComes(i, i)
    BY <1>3, LaunchTurns
<1>4. CASE LaunchTableFull
    <2>1. FreeSlots \in SUBSET Tids
        BY DEF FreeSlots
    <2> QED BY <1>4, <2>1, AppendTurns DEF LaunchTableFull
<1>5. CASE UNCHANGED <<state, ready_queue>>
    <2>1. i \in Nat
        BY QueueFacts DEF IInv, SwitchOK, Waits
    <2> QED BY <1>5, <2>1 DEF TurnComes, Waits
<1> QED
    BY <1>1, <1>2, <1>3, <1>4, <1>5
    DEF Next, NestedException, FatalCommand, TickCommand, SoloCommand, drop_to_el0_with, Halted,
        vars, schedVars

\* Round robin: no wake, spawn or preemption puts a task in front of one that
\* waits, and every preempting tick brings each that waits closer to the CPU.
THEOREM NobodyIsOvertaken == Spec => NobodyOvertakes
<1> DEFINE Turns ==
             \A i \in DOMAIN ready_queue :
               LET t == ready_queue[i] IN
               state[t] = "Ready" /\ t # current_tid =>
                 \/ state'[t] = "Running" /\ current_tid' = t
                 \/ /\ state'[t] = "Ready"
                    /\ \E j \in DOMAIN ready_queue' :
                         /\ ready_queue'[j] = t
                         /\ j <= i
                         /\ handle_irq /\ preempt /\ current_tid # 0 => j < i
<1>1. IInv /\ QueueInv /\ [Next]_vars => [Turns]_vars
    <2> SUFFICES ASSUME IInv, QueueInv, [Next]_vars, NEW i \in DOMAIN ready_queue,
                        state[ready_queue[i]] = "Ready", ready_queue[i] # current_tid
                 PROVE  LET t == ready_queue[i] IN
                        \/ state'[t] = "Running" /\ current_tid' = t
                        \/ /\ state'[t] = "Ready"
                           /\ \E j \in DOMAIN ready_queue' :
                                /\ ready_queue'[j] = t
                                /\ j <= i
                                /\ handle_irq /\ preempt /\ current_tid # 0 => j < i
        OBVIOUS
    <2>1. Waits(i)
        BY DEF Waits
    <2>2. CASE handle_irq /\ preempt /\ current_tid # 0
        <3>1. TurnComes(i, i - 1)
            BY <2>1, <2>2, TurnStep
        <3>2. i \in Nat
            BY QueueFacts DEF IInv, SwitchOK
        <3>3. \A j \in Nat : j <= i - 1 => j <= i /\ j < i
            BY <3>2
        <3> QED BY <3>1, <3>3 DEF TurnComes
    <2>3. CASE ~(handle_irq /\ preempt /\ current_tid # 0)
        <3>1. TurnComes(i, i)
            BY <2>1, TurnStep
        <3> QED BY <2>3, <3>1 DEF TurnComes
    <2> QED BY <2>2, <2>3
<1> QED BY <1>1, Invariance, QueueInvariance, PTL DEF Spec, NobodyOvertakes

\* The calls of one task leave the deadlines of the others alone.
LEMMA CallDeadlines ==
    ASSUME IInv, NEW t \in Tids \ {current_tid},
           Fault \/ \E c \in Calls : handle_svc_from_el0(c)
    PROVE  wake_tick'[t] = wake_tick[t]
<1>1. t \in Slots /\ DOMAIN wake_tick = Slots
    BY TidFacts DEF IInv, InfoOK
<1>2. CASE Fault
    BY <1>1, <1>2 DEF Fault, infoVars, waitVars
<1>3. ASSUME NEW c \in Calls, handle_svc_from_el0(c) PROVE wake_tick'[t] = wake_tick[t]
    BY <1>1, <1>3
    DEF handle_svc_from_el0, Write, Yield, Send, Recv, RecvBlk, SendBlk, Sleep, Wait, Exit, Unknown,
        SendCommon, RecvCommon, Return, infoVars, waitVars
<1> QED BY <1>2, <1>3

\* A tick wakes the sleepers whose time has come.
LEMMA TickWakes ==
    ASSUME IInv, handle_irq, NEW t \in Sleepers \ {current_tid}
    PROVE  state'[t] # "Blocked"
<1>1. PICK w \in ScanOrders(Sleepers) :
        \/ /\ current_tid # 0
           /\ \/ save_and_switch(Woken(state, Sleepers), enqueue_all(ready_queue, w), frame)
              \/ save_and_stay(Woken(state, Sleepers), enqueue_all(ready_queue, w), frame)
        \/ state' = Woken(state, Sleepers)
    BY DEF handle_irq
<1>2. t \in Tids /\ t \in Slots
    BY TidFacts DEF Sleepers, Due
<1>3. CASE state' = Woken(state, Sleepers)
    BY <1>2, <1>3 DEF Woken
<1>4. CASE state' # Woken(state, Sleepers)
    <2>1. Leaves("keep", Sleepers, frame) /\ Left("keep") = state /\ BlocksOn(NoCall)
        BY <1>1, <1>4, FramesSaved
        DEF Leaves, Ways, AllBlocked, Sleepers, Due, Left, BlocksOn, NoCall
    <2>2. Switches("keep", Sleepers, frame) \/ Stays("keep", Sleepers, frame)
        BY <1>1, <1>4, <2>1 DEF Switches, Stays
    <2>3. CASE Switches("keep", Sleepers, frame)
        BY <1>2, <2>3, SwitchesTable
    <2>4. CASE Stays("keep", Sleepers, frame)
        BY <1>2, <2>4, StaysTable
    <2> QED BY <2>2, <2>3, <2>4
<1> QED BY <1>3, <1>4

\* A launch gives deadlines to nobody but the tasks it makes.
LEMMA SpawnDeadlines ==
    ASSUME NEW t \in Tids, state[t] # "Exited",
           NEW W \in SUBSET FreeSlots, NEW w \in ScanOrders(W), spawn_fields(w)
    PROVE  wake_tick'[t] = wake_tick[t]
<1>1. W \in SUBSET Tids /\ t \notin W /\ t \in Slots
    BY TidFacts DEF FreeSlots
<1>2. t \notin {w[i] : i \in DOMAIN w}
    BY <1>1, ScanOrderMeetsAll
<1> QED BY <1>1, <1>2 DEF spawn_fields, Cleared

\* A sleeper's deadline comes closer with each tick and is never lost before it
\* is woken, whatever calls, faults, sessions and other wakes happen.
THEOREM DeadlinesAreKept == Spec => NobodyOversleeps
<1> DEFINE OnTime(t) ==
             \/ state'[t] # "Blocked"
             \/ /\ 0 < wake_tick'[t] /\ wake_tick'[t] <= wake_tick[t]
                /\ handle_irq => wake_tick'[t] < wake_tick[t]
<1>1. IInv /\ [Next]_vars =>
        [\A t \in Tids \ {current_tid} : state[t] = "Blocked" /\ wake_tick[t] > 0 => OnTime(t)]_vars
    <2> SUFFICES ASSUME IInv, [Next]_vars, NEW t \in Tids \ {current_tid},
                        state[t] = "Blocked", wake_tick[t] > 0
                 PROVE  OnTime(t)
        OBVIOUS
    <2>1. t \in Slots /\ wake_tick[t] \in Nat
        BY TidFacts DEF IInv, InfoOK
    <2>2. CASE handle_irq
        <3>1. wake_tick'[t] = wake_tick[t] - 1
            BY <2>1, <2>2 DEF handle_irq, ElapseTick
        <3>2. CASE wake_tick[t] = 1
            <4>1. t \in Sleepers
                BY <3>2 DEF Sleepers, Due
            <4>2. state'[t] # "Blocked"
                BY <2>2, <4>1, TickWakes
            <4> QED BY <4>2
        <3>3. CASE wake_tick[t] # 1
            BY <2>1, <3>1, <3>3
        <3> QED BY <3>2, <3>3
    <2>3. CASE ~handle_irq /\ wake_tick'[t] = wake_tick[t]
        BY <2>1, <2>3
    <2>4. ASSUME Fault \/ \E c \in Calls : handle_svc_from_el0(c)
          PROVE  wake_tick'[t] = wake_tick[t]
        BY <2>4, CallDeadlines
    <2>5. ASSUME NEW timed \in Demos, LaunchCommand(timed) PROVE wake_tick'[t] = wake_tick[t]
        <3>1. PICK W \in AllocatedSlots(NSPAWN) : \E w \in ScanOrders(W) : spawn_fields(w)
            BY <2>5 DEF LaunchCommand
        <3>2. W \in SUBSET FreeSlots
            BY DEF AllocatedSlots
        <3> QED BY <3>1, <3>2, SpawnDeadlines
    <2>6. ASSUME LaunchTableFull PROVE wake_tick'[t] = wake_tick[t]
        BY <2>6, SpawnDeadlines DEF LaunchTableFull
    <2>7. \/ handle_irq
          \/ Fault \/ \E c \in Calls : handle_svc_from_el0(c)
          \/ \E timed \in Demos : LaunchCommand(timed)
          \/ LaunchTableFull
          \/ UNCHANGED wake_tick
        BY DEF Next, NestedException, FatalCommand, TickCommand, SoloCommand, drop_to_el0_with,
               Halted, vars, schedVars, infoVars, waitVars
    <2> QED BY <2>2, <2>3, <2>4, <2>5, <2>6, <2>7
<1> QED BY <1>1, Invariance, PTL DEF Spec, NobodyOversleeps

(***************************************************************************)
(* What the Blocked tasks wait for.                                        *)
(***************************************************************************)
\* A Blocked task t will be woken for the call it repeats.
Sleeps(t) ==
    LET c == saved[t].svc IN
    /\ c.sys = "recvblk" => mailbox[t].len = 0
    /\ c.sys = "sendblk" => /\ blocked_send_dst[t] = c.a /\ c.a \in Tids
                            /\ state[c.a] # "Exited" => mailbox[c.a].len > 0
    /\ c.sys = "wait" => waiting_on[t] = c.a

\* A task that is Blocked while it runs has no call to repeat; and before the
\* first session there are no tasks.
SleepInv ==
    ~oops =>
        /\ \A t \in Tids \ {current_tid} : state[t] = "Blocked" => Sleeps(t)
        /\ mode \in {"el0", "launch"} /\ current_tid # 0 /\ frame.svc # NoCall
             => state[current_tid] # "Blocked"
        /\ mode = "monitor" \/ (mode = "el0" /\ current_tid = 0)
             => \A t \in Tids : state[t] = "Exited"

\* What a step leaves as it was for the tasks that stay Blocked: their own
\* mailboxes and records, and the full mailbox of a live task.
SleepersKept ==
    \A t \in Tids \ {current_tid} : state'[t] = "Blocked" =>
        /\ mailbox[t].len = 0 => mailbox'[t].len = 0
        /\ blocked_send_dst'[t] = blocked_send_dst[t]
        /\ waiting_on'[t] = waiting_on[t]
        /\ \A d \in Tids : blocked_send_dst[t] = d /\ mailbox[d].len > 0 /\ state'[d] # "Exited"
                             => mailbox'[d].len > 0

\* With that, a scheduling step keeps the sleepers' conditions.
LEMMA SchedSleepers ==
    ASSUME IInv, QueueInv, ContextInv, SleepInv, ~oops, mode \in {"monitor", "el0", "launch"},
           SchedStep, SleepersKept
    PROVE  SleepInv'
<1>0. ASSUME current_tid # 0 PROVE mode \in {"el0", "launch"} /\ state[current_tid] # "Exited"
    BY <1>0 DEF QueueInv, InSession
<1>1. ASSUME NEW t \in Tids \ {current_tid}, state'[t] = "Blocked",
             \A u \in Tids : state'[u] # "Exited" => state[u] # "Exited"
      PROVE  Sleeps(t)'
    <2>1. state[t] = "Blocked" /\ saved'[t] = saved[t]
        BY <1>1, SchedOthers DEF OthersKept
    <2>2. Sleeps(t)
        BY <2>1 DEF SleepInv
    <2> DEFINE c == saved[t].svc
    <2>3. c.sys = "sendblk" => c.a \in Tids /\ (state'[c.a] # "Exited" => mailbox'[c.a].len > 0)
        BY <1>1, <2>2 DEF Sleeps, SleepersKept
    <2>4. /\ c.sys = "recvblk" => mailbox'[t].len = 0
          /\ c.sys = "sendblk" => blocked_send_dst'[t] = c.a
          /\ c.sys = "wait" => waiting_on'[t] = c.a
        BY <1>1, <2>2 DEF Sleeps, SleepersKept
    <2> QED BY <2>1, <2>3, <2>4 DEF Sleeps
<1>2. ASSUME NEW W, Wakes(W), Kept \/ park \/ (current_tid = 0 /\ on_el0_return)
      PROVE  SleepInv'
    <2>1. /\ \A t \in Tids : state'[t] = IF t \in W THEN "Ready" ELSE state[t]
          /\ \A t \in W : state[t] = "Blocked"
          /\ current_tid' = current_tid
        BY <1>2, WakesTable
    <2>2. CASE Kept
        <3>1. mode' = mode /\ oops' = oops /\ frame'.svc \in {frame.svc, NoCall}
            BY <2>2 DEF Kept
        <3>2. \A t \in Tids \ {current_tid'} : state'[t] = "Blocked" => Sleeps(t)'
            BY <1>1, <2>1
        <3>3. mode \in {"el0", "launch"} /\ current_tid # 0 /\ frame'.svc # NoCall
                => state'[current_tid'] # "Blocked"
            <4>1. current_tid # 0 => current_tid \in Tids
                BY TidFacts DEF IInv, CpuOK
            <4> QED BY <2>1, <3>1, <4>1 DEF SleepInv
        <3>4. mode = "monitor" \/ (mode = "el0" /\ current_tid = 0)
                => \A t \in Tids : state'[t] = "Exited"
            BY <2>1 DEF SleepInv
        <3> QED BY <2>1, <3>1, <3>2, <3>3, <3>4 DEF SleepInv
    <2>3. CASE park \/ on_el0_return
        BY <2>3 DEF park, on_el0_return, SleepInv
    <2> QED BY <1>2, <2>2, <2>3
<1>3. ASSUME NEW x, NEW W, NEW f, Switches(x, W, f), Resumed
      PROVE  SleepInv'
    <2>1. /\ current_tid \in Tids /\ current_tid' \in Tids
          /\ \A t \in W : state[t] = "Blocked"
          /\ state'[current_tid'] = "Running"
          /\ \A t \in Tids \ {current_tid, current_tid'} :
               state'[t] = IF t \in W THEN "Ready" ELSE state[t]
          /\ current_tid' # current_tid => state[current_tid'] # "Exited"
          /\ current_tid' # current_tid /\ x # "keep" => state'[current_tid] = x
          /\ current_tid' # current_tid /\ x = "keep" =>
                state'[current_tid] \in {state[current_tid], "Ready"}
          /\ state'[current_tid] # "Exited" => saved'[current_tid] = f
        BY <1>3, SwitchesTable
    <2>2. /\ x \in Ways /\ (x = "Blocked" => BlocksOn(f.svc))
          /\ x = "keep" => f.svc \in {frame.svc, NoCall}
        BY <1>3 DEF Switches, Leaves
    <2>3. \A u \in Tids : state'[u] # "Exited" => state[u] # "Exited"
        BY <1>0, <2>1, TidFacts
    <2>4. ASSUME NEW t \in Tids, t = current_tid, t # current_tid', state'[t] = "Blocked"
          PROVE  Sleeps(t)'
        <3>1. saved'[t] = f
            BY <2>1, <2>4
        <3>2. CASE x = "Blocked"
            <4>1. BlocksOn(f.svc)
                BY <2>2, <3>2
            <4> QED BY <2>4, <3>1, <4>1 DEF BlocksOn, Sleeps
        <3>3. CASE x = "keep"
            <4>1. state[current_tid] = "Blocked"
                BY <2>1, <2>4, <3>3
            <4>2. f.svc = NoCall
                BY <1>0, <2>1, <2>2, <3>3, <4>1, TidFacts DEF SleepInv
            <4> QED BY <3>1, <4>2 DEF Sleeps, NoCall
        <3>4. CASE x = "Exited"
            BY <2>1, <2>4, <3>4
        <3> QED BY <2>2, <3>2, <3>3, <3>4 DEF Ways
    <2>5. \A t \in Tids \ {current_tid'} : state'[t] = "Blocked" => Sleeps(t)'
        BY <1>1, <2>3, <2>4
    <2>6. current_tid' # 0 /\ mode' # "monitor"
        BY <1>3, <2>1, TidFacts DEF Resumed
    <2> QED BY <2>1, <2>5, <2>6 DEF SleepInv
<1>4. ASSUME NEW x, NEW W, NEW f, Stays(x, W, f), KeptBy(x) \/ on_el0_return
      PROVE  SleepInv'
    <2>1. /\ current_tid \in Tids /\ current_tid' = current_tid
          /\ \A t \in W : state[t] = "Blocked"
          /\ \A t \in Tids \ {current_tid} : state'[t] = IF t \in W THEN "Ready" ELSE state[t]
          /\ x = "keep" => state'[current_tid] \in {state[current_tid], "Ready"}
        BY <1>4, StaysTable
    <2>2. x \in Ways
        BY <1>4 DEF Stays, Leaves
    <2>3. CASE KeptBy(x)
        <3>1. /\ mode' = mode /\ oops' = oops /\ frame'.svc \in {frame.svc, NoCall}
              /\ x # "Exited" /\ (x = "Blocked" => frame'.svc = NoCall)
            BY <2>3 DEF KeptBy, Kept
        <3>2. mode \in {"el0", "launch"} /\ current_tid # 0 /\ state[current_tid] # "Exited"
            BY <1>0, <2>1, TidFacts
        <3>3. \A u \in Tids : state'[u] # "Exited" => state[u] # "Exited"
            BY <2>1, <3>2
        <3>4. \A t \in Tids \ {current_tid'} : state'[t] = "Blocked" => Sleeps(t)'
            BY <1>1, <2>1, <3>3
        <3>5. frame'.svc # NoCall => state'[current_tid'] # "Blocked"
            BY <2>1, <2>2, <3>1, <3>2 DEF SleepInv, Ways
        <3> QED BY <2>1, <3>1, <3>2, <3>4, <3>5 DEF SleepInv
    <2>4. CASE on_el0_return
        BY <2>4 DEF on_el0_return, SleepInv
    <2> QED BY <1>4, <2>3, <2>4
<1> QED BY <1>2, <1>3, <1>4 DEF SchedStep

LEMMA SameSleepers ==
    ASSUME UNCHANGED <<mailbox, blocked_send_dst, waiting_on>>
    PROVE  SleepersKept
BY DEF SleepersKept

\* A send fills an empty box of a task that it wakes if it is Blocked.
LEMMA SendSleepers ==
    ASSUME IInv, NEW c \in Calls, c.sys \in {"send", "sendblk"}, SendCommon(c)
    PROVE  SleepersKept
<1>1. CASE UNCHANGED infoVars
    BY <1>1, SameSleepers DEF infoVars, waitVars
<1>2. CASE Reaches(c) /\ ipc_send(c.a, c.n) /\ UNCHANGED waitVars
    <2>1. c.a \in Tids /\ c.a \in Slots /\ c.n \in Nat /\ c.n > 0
        BY <1>2, CallType, TidFacts DEF ipc_send, ipc_send_result, ESRCH, Reaches
    <2>2. MinOf(c.n, MSG_MAX) > 0
        BY <2>1 DEF MinOf, MSG_MAX
    <2>3. /\ \A t \in Tids : mailbox'[t] =
               IF t = c.a THEN [len |-> MinOf(c.n, MSG_MAX), from |-> current_tid] ELSE mailbox[t]
          /\ state[c.a] = "Blocked" => state' = [state EXCEPT ![c.a] = "Ready"]
          /\ state[c.a] # "Blocked" => state' = state
        BY <1>2, <2>1, TidFacts DEF ipc_send, IInv, InfoOK
    <2>4. state'[c.a] # "Blocked"
        BY <2>1, <2>3 DEF IInv, TasksOK, AtMostCurrent, States
    <2> QED BY <1>2, <2>2, <2>3, <2>4 DEF SleepersKept, waitVars
<1> QED BY <1>1, <1>2 DEF SendCommon, Return

\* A receive empties the box of the current task, and wakes whoever waits for it.
LEMMA RecvSleepers ==
    ASSUME IInv, NEW c \in Calls, RecvCommon(c)
    PROVE  SleepersKept
<1>1. CASE UNCHANGED infoVars
    BY <1>1, SameSleepers DEF infoVars, waitVars
<1>2. CASE ipc_recv /\ UNCHANGED waiting_on
    <2> DEFINE W == {t \in Tids : state[t] = "Blocked" /\ blocked_send_dst[t] = current_tid}
    <2>1. /\ state' = Woken(state, W)
          /\ blocked_send_dst' = Cleared(blocked_send_dst, W)
          /\ mailbox' = [mailbox EXCEPT ![current_tid] = EmptyMailbox]
        BY <1>2 DEF ipc_recv, wake_blocked_senders
    <2> SUFFICES ASSUME NEW t \in Tids \ {current_tid}, state'[t] = "Blocked"
                 PROVE  /\ mailbox[t].len = 0 => mailbox'[t].len = 0
                        /\ blocked_send_dst'[t] = blocked_send_dst[t]
                        /\ waiting_on'[t] = waiting_on[t]
                        /\ \A d \in Tids :
                             blocked_send_dst[t] = d /\ mailbox[d].len > 0 /\ state'[d] # "Exited"
                               => mailbox'[d].len > 0
        BY DEF SleepersKept
    <2>2. t \in Slots /\ t \notin W /\ state[t] = "Blocked"
        BY <2>1, TidFacts DEF Woken
    <2>3. blocked_send_dst[t] # current_tid
        BY <2>2
    <2>4. \A d \in Tids : d # current_tid => mailbox'[d] = mailbox[d]
        BY <2>1, TidFacts DEF IInv, InfoOK
    <2>5. blocked_send_dst'[t] = blocked_send_dst[t]
        BY <2>1, <2>2 DEF Cleared
    <2> QED BY <1>2, <2>3, <2>4, <2>5
<1> QED BY <1>1, <1>2 DEF RecvCommon, Return

\* A call that blocks writes the current task's records only.
LEMMA BlockSleepers ==
    ASSUME IInv, mailbox' = mailbox,
           NEW a, NEW b,
           \/ blocked_send_dst' = blocked_send_dst
           \/ blocked_send_dst' = [blocked_send_dst EXCEPT ![current_tid] = a],
           \/ waiting_on' = waiting_on
           \/ waiting_on' = [waiting_on EXCEPT ![current_tid] = b]
           \/ waiting_on' = Cleared(waiting_on, {current_tid})
    PROVE  SleepersKept
<1>1. \A t \in Tids \ {current_tid} :
        blocked_send_dst'[t] = blocked_send_dst[t] /\ waiting_on'[t] = waiting_on[t]
    BY TidFacts DEF IInv, InfoOK, Cleared
<1> QED BY <1>1 DEF SleepersKept

\* The tasks that an exit wakes are Blocked no more.
LEMMA ExitSleepers ==
    ASSUME IInv, NEW c \in Calls, Exit(c)
    PROVE  SleepersKept
<1>1. CASE UNCHANGED infoVars
    BY <1>1, SameSleepers DEF infoVars, waitVars
<1>2. CASE current_tid # 0
    <2> DEFINE W == Waiters(current_tid) \ {current_tid}
               dead == [state EXCEPT ![current_tid] = "Exited"]
    <2>1. PICK w \in ScanOrders(W) :
            LET q == enqueue_all(ready_queue, w) IN
            \/ save_and_switch(Woken(dead, W), q, frame)
            \/ save_and_stay(Woken(dead, W), q, frame)
        BY <1>2 DEF Exit
    <2>2. /\ waiting_on' = Cleared(waiting_on, W)
          /\ UNCHANGED <<mailbox, blocked_send_dst>>
        BY <1>2 DEF Exit
    <2>3. dead = Left("Exited") /\ Leaves("Exited", W, frame)
        BY <1>2, FramesSaved DEF Left, Leaves, Ways, AllBlocked, Waiters
    <2> HIDE DEF W, dead
    <2>4. Switches("Exited", W, frame) \/ Stays("Exited", W, frame)
        BY <2>1, <2>3 DEF Switches, Stays
    <2>5. \A t \in Tids \ {current_tid} : state'[t] = "Blocked" => t \notin W
        BY <2>4, SwitchesTable, StaysTable
    <2>6. \A t \in Tids \ {current_tid} : state'[t] = "Blocked" => waiting_on'[t] = waiting_on[t]
        BY <2>2, <2>5, TidFacts DEF Cleared
    <2> QED BY <2>2, <2>6 DEF SleepersKept
<1> QED BY <1>1, <1>2 DEF Exit

\* A fault takes the message of a task that is dead after it.
LEMMA FaultSleepers == ASSUME IInv, Fault PROVE SleepersKept
<1>1. CASE UNCHANGED infoVars
    BY <1>1, SameSleepers DEF infoVars, waitVars
<1>2. CASE current_tid # 0
    <2>1. Switches("Exited", {}, frame) \/ Stays("Exited", {}, frame)
        BY <1>2, FaultLeaves DEF Fault
    <2>2. state'[current_tid] = "Exited"
        BY <2>1, SwitchesTable, StaysTable
    <2>3. /\ \A t \in Tids \ {current_tid} :
               /\ mailbox'[t] = mailbox[t]
               /\ blocked_send_dst'[t] = blocked_send_dst[t]
               /\ waiting_on'[t] = waiting_on[t]
        BY <1>2, TidFacts DEF Fault, IInv, InfoOK
    <2> QED BY <2>2, <2>3 DEF SleepersKept
<1> QED BY <1>1, <1>2 DEF Fault

LEMMA CallSleepers ==
    ASSUME IInv, NEW c \in Calls, handle_svc_from_el0(c)
    PROVE  SleepersKept
<1>0. ASSUME UNCHANGED infoVars PROVE SleepersKept
    BY <1>0, SameSleepers DEF infoVars, waitVars
<1>1. CASE Write(c)
    BY <1>0, <1>1 DEF Write, Return
<1>2. CASE Yield(c)
    BY <1>0, <1>2 DEF Yield, Return
<1>3. CASE Send(c)
    BY <1>0, <1>3, SendSleepers DEF Send, Return
<1>4. CASE Recv(c)
    BY <1>0, <1>4, RecvSleepers DEF Recv, Return
<1>5. CASE RecvBlk(c)
    BY <1>0, <1>5, RecvSleepers DEF RecvBlk
<1>6. CASE SendBlk(c)
    BY <1>0, <1>6, SendSleepers, BlockSleepers DEF SendBlk, Return
<1>7. CASE Sleep(c)
    BY <1>0, <1>7, BlockSleepers DEF Sleep, Return
<1>8. CASE Wait(c)
    BY <1>0, <1>8, BlockSleepers DEF Wait, Return
<1>9. CASE Exit(c)
    BY <1>9, ExitSleepers
<1>10. CASE Unknown(c)
    BY <1>0, <1>10 DEF Unknown, Return
<1> QED
    BY <1>1, <1>2, <1>3, <1>4, <1>5, <1>6, <1>7, <1>8, <1>9, <1>10 DEF handle_svc_from_el0

LEMMA SleepStepInv == IInv /\ QueueInv /\ ContextInv /\ SleepInv /\ [Next]_vars => SleepInv'
<1> SUFFICES ASSUME IInv, QueueInv, ContextInv, SleepInv, [Next]_vars PROVE SleepInv'
    OBVIOUS
<1>1. ASSUME NEW c \in Calls, handle_svc_from_el0(c) PROVE SleepInv'
    <2>1. ~oops /\ mode = "el0"
        BY <1>1 DEF handle_svc_from_el0, InSvc, Write, Yield, Send, Recv, RecvBlk, SendBlk,
                    Sleep, Wait, Exit, Unknown
    <2> QED BY <1>1, <2>1, CallSchedules, CallSleepers, SchedSleepers
<1>2. CASE Fault
    BY <1>2, FaultSchedules, FaultSleepers, SchedSleepers DEF Fault
<1>3. CASE handle_irq
    <2>1. SleepersKept
        BY <1>3, SameSleepers DEF handle_irq
    <2> QED BY <1>3, <2>1, IrqSchedules, SchedSleepers DEF handle_irq, IrqTaken
<1>4. CASE NestedException \/ FatalCommand
    BY <1>4 DEF NestedException, FatalCommand, park, SleepInv
<1>5. CASE TickCommand
    BY <1>5 DEF TickCommand, schedVars, cpuVars, waitVars, SleepInv, Sleeps
<1>6. CASE SoloCommand
    BY <1>6 DEF SoloCommand, devVars, infoVars, waitVars, SleepInv, Sleeps, UserFrame
<1>7. ASSUME NEW timed \in Demos, LaunchCommand(timed), ~oops PROVE SleepInv'
    \* In the first session every task is new: Ready, or Running.
    <2>0. PICK W \in AllocatedSlots(NSPAWN) : \E w \in ScanOrders(W) :
            LET st == Woken(state, W)
                q  == enqueue_all(ready_queue, w) IN
            state' = [st EXCEPT ![Head(q)] = "Running"]
        BY <1>7 DEF LaunchCommand
    <2>1. PICK w \in ScanOrders(W) :
            LET st == Woken(state, W)
                q  == enqueue_all(ready_queue, w) IN
            state' = [st EXCEPT ![Head(q)] = "Running"]
        BY <2>0
    <2>2. \A t \in Tids : state[t] = "Exited"
        BY <1>7 DEF SleepInv, LaunchCommand
    <2> DEFINE h == Head(enqueue_all(ready_queue, w))
               st == Woken(state, W)
    <2>3. state' = [st EXCEPT ![h] = "Running"]
        BY <2>1
    <2>4. DOMAIN st = Slots /\ \A t \in Tids : st[t] # "Blocked"
        BY <2>2, TidFacts DEF Woken
    <2> HIDE DEF h, st
    <2>5. \A t \in Tids : state'[t] # "Blocked"
        BY <2>3, <2>4, TidFacts
    <2>6. mode' = "launch" /\ frame' = frame /\ frame.svc = NoCall
        BY <1>7 DEF LaunchCommand, ContextInv
    <2> QED BY <2>5, <2>6 DEF SleepInv
<1>8. CASE LaunchTableFull /\ ~oops
    \* Before the first session every slot is free, and there are enough.
    <2>1. \A t \in Tids : state[t] = "Exited"
        BY <1>8 DEF SleepInv, LaunchTableFull
    <2>2. FreeSlots = Tids
        BY <2>1 DEF FreeSlots
    <2>3. Cardinality(Tids) < NSPAWN
        BY <1>8, <2>2 DEF LaunchTableFull
    <2> QED BY <2>3, TidsFinite, KernelAssumption, MaxTasksAssumption
<1>9. CASE drop_to_el0_with
    <2>1. ~oops => current_tid # 0
        BY <1>9 DEF drop_to_el0_with, QueueInv
    <2> QED BY <1>9, <2>1 DEF drop_to_el0_with, devVars, infoVars, waitVars, SleepInv, Sleeps, UserFrame
<1>10. CASE UNCHANGED vars
    BY <1>10 DEF vars, schedVars, cpuVars, waitVars, SleepInv, Sleeps
<1>11. CASE oops /\ oops' = oops
    BY <1>11 DEF SleepInv
<1>12. LaunchTableFull \/ (\E timed \in Demos : LaunchCommand(timed)) => oops' = oops
    BY DEF LaunchTableFull, LaunchCommand, devVars
<1> QED
    BY <1>1, <1>2, <1>3, <1>4, <1>5, <1>6, <1>7, <1>8, <1>9, <1>10, <1>11, <1>12 DEF Next, Halted

LEMMA SleepInit == Init => SleepInv
BY TidFacts DEF Init, TableInit, Empty, SleepInv

\* What the Blocked tasks wait for, throughout every run of the kernel.
THEOREM SleepInvariance == Spec => []SleepInv
BY SleepInit, SleepStepInv, Invariance, QueueInvariance, ContextInvariance, PTL DEF Spec

\* No task sleeps on a message, a full mailbox or a child that a wake has already
\* answered for, for every number of tasks and every order of calls.
THEOREM NobodySleepsOnAWake == Spec => []SleepsOnACondition
<1>1. SleepInv => SleepsOnACondition
    BY DEF SleepInv, Sleeps, SleepsOnACondition
<1> QED BY <1>1, SleepInvariance, PTL

(***************************************************************************)
(* The refinement of Mailbox.                                              *)
(***************************************************************************)
\* A mailbox of length 0 has no sender: None is its only value.
BoxInv == \A t \in Tids : mailbox[t].len = 0 => mailbox[t] = EmptyMailbox

Live == {t \in Tids : state[t] # "Exited"}

\* Tasks neither begin nor end, and the boxes keep what they hold: a stutter of
\* Mailbox, which calls it the creation of nobody.
LEMMA NobodyCreated ==
    ASSUME Live' = Live, \A t \in Tids : mailbox'[t] = mailbox[t]
    PROVE  Box!Create
BY DEF Box!Create, Live

\* Which tasks live after a scheduling step: the one that exits is dead, and
\* nobody else dies or comes to life.
LEMMA SchedLive ==
    ASSUME IInv, QueueInv, ~oops, mode \in {"monitor", "el0", "launch"}
    PROVE  /\ \A W : Wakes(W) => Live' = Live
           /\ \A x, W, f : Switches(x, W, f) \/ Stays(x, W, f) =>
                /\ current_tid \in Live
                /\ x # "Exited" => Live' = Live
                /\ x = "Exited" => Live' = Live \ {current_tid}
<1>1. ASSUME NEW W, Wakes(W) PROVE Live' = Live
    BY <1>1, WakesTable DEF Live
<1>2. ASSUME NEW x, NEW W, NEW f, Leaves(x, W, f)
      PROVE  current_tid \in Tids /\ state[current_tid] # "Exited" /\ x \in Ways
    BY <1>2, TidFacts DEF Leaves, QueueInv, InSession, IInv, CpuOK
<1>3. ASSUME NEW x, NEW W, NEW f, Switches(x, W, f) \/ Stays(x, W, f)
      PROVE  /\ \A t \in Tids \ {current_tid} : state'[t] # "Exited" <=> state[t] # "Exited"
             /\ x # "Exited" => state'[current_tid] # "Exited"
             /\ x = "Exited" => state'[current_tid] = "Exited"
    <2>1. current_tid \in Tids /\ state[current_tid] # "Exited" /\ x \in Ways
        BY <1>2, <1>3 DEF Switches, Stays
    <2>2. CASE Switches(x, W, f)
        <3>1. /\ \A t \in W : state[t] = "Blocked"
              /\ state'[current_tid'] = "Running"
              /\ \A t \in Tids \ {current_tid, current_tid'} :
                   state'[t] = IF t \in W THEN "Ready" ELSE state[t]
              /\ current_tid' # current_tid => state[current_tid'] # "Exited"
              /\ current_tid' = current_tid => x # "Exited"
              /\ current_tid' # current_tid /\ x # "keep" => state'[current_tid] = x
              /\ current_tid' # current_tid /\ x = "keep" =>
                   state'[current_tid] \in {state[current_tid], "Ready"}
            BY <2>2, SwitchesTable
        <3> QED BY <2>1, <3>1 DEF Ways
    <2>3. CASE Stays(x, W, f)
        <3>1. /\ \A t \in W : state[t] = "Blocked"
              /\ \A t \in Tids \ {current_tid} : state'[t] = IF t \in W THEN "Ready" ELSE state[t]
              /\ x # "keep" => state'[current_tid] = x
              /\ x = "keep" => state'[current_tid] \in {state[current_tid], "Ready"}
            BY <2>3, StaysTable
        <3> QED BY <2>1, <3>1 DEF Ways
    <2> QED BY <1>3, <2>2, <2>3
<1>4. ASSUME NEW x, NEW W, NEW f, Switches(x, W, f) \/ Stays(x, W, f)
      PROVE  /\ current_tid \in Live
             /\ x # "Exited" => Live' = Live
             /\ x = "Exited" => Live' = Live \ {current_tid}
    <2>1. current_tid \in Tids /\ state[current_tid] # "Exited"
        BY <1>2, <1>4 DEF Switches, Stays
    <2> QED BY <1>3, <1>4, <2>1 DEF Live
<1> QED BY <1>1, <1>4

\* A scheduling step that leaves the mailboxes alone.
LEMMA SchedBox ==
    ASSUME IInv, QueueInv, ~oops, mode \in {"monitor", "el0", "launch"}, SchedStep,
           mailbox' = mailbox
    PROVE  Box!Next
<1>1. \/ Live' = Live
      \/ Live' = Live \ {current_tid} /\ current_tid \in Live
    BY SchedLive DEF SchedStep
<1>2. CASE Live' = Live
    BY <1>2, NobodyCreated DEF Box!Next
<1>3. CASE Live' = Live \ {current_tid} /\ current_tid \in Live
    <2>1. Box!Die
        BY <1>3 DEF Box!Die, Live
    <2> QED BY <2>1 DEF Box!Next
<1> QED BY <1>1, <1>2, <1>3

\* Before the first session, and in a program without a task, nobody is there to
\* be sent to.
LEMMA SenderLives ==
    ASSUME IInv, QueueInv, SleepInv, mode = "el0", ~oops,
           NEW d \in Tids, d \in Live \/ d = current_tid
    PROVE  current_tid \in Live /\ current_tid \in Tids /\ state[current_tid] # "Exited"
BY TidFacts DEF IInv, CpuOK, QueueInv, InSession, SleepInv, Live

LEMMA SendBox ==
    ASSUME IInv, QueueInv, SleepInv, BoxInv, mode = "el0", ~oops,
           NEW c \in Calls, c.sys \in {"send", "sendblk"}, Reaches(c), ipc_send(c.a, c.n)
    PROVE  Box!Next /\ BoxInv'
<1> DEFINE m == [len |-> MinOf(c.n, MSG_MAX), from |-> current_tid]
<1>1. /\ c.a \in Tids /\ c.a \in Slots /\ c.n \in Nat /\ c.n > 0
      /\ state[c.a] # "Exited" /\ ~(mailbox[c.a].len > 0)
    BY CallType, TidFacts DEF ipc_send, ipc_send_result, ESRCH, EAGAIN, Reaches
<1>2. m.len > 0 /\ m.from = current_tid /\ m # EmptyMailbox
    BY <1>1 DEF MinOf, MSG_MAX, EmptyMailbox
<1>3. mailbox[c.a] = EmptyMailbox
    <2>1. mailbox[c.a].len \in Nat
        <3>1. mailbox[c.a] \in [len : 0 .. MSG_MAX, from : Slots]
            BY <1>1 DEF IInv, InfoOK
        <3>2. mailbox[c.a].len \in 0 .. MSG_MAX
            BY <3>1
        <3> QED BY <3>2 DEF MSG_MAX
    <2> QED BY <1>1, <2>1 DEF BoxInv
<1>4. \A t \in Tids : mailbox'[t] = IF t = c.a THEN m ELSE mailbox[t]
    BY <1>1, TidFacts DEF ipc_send, IInv, InfoOK
<1>5. Live' = Live
    BY <1>1, TidFacts DEF ipc_send, Live, IInv, TasksOK, AtMostCurrent, States
<1>6. current_tid \in Live /\ c.a \in Live
    BY <1>1, SenderLives DEF Live
<1> HIDE DEF m
<1>7. Box!Post(c.a)
    BY <1>1, <1>2, <1>3, <1>4, <1>5, <1>6 DEF Box!Post, Live
<1>8. BoxInv'
    BY <1>2, <1>4 DEF BoxInv
<1> QED BY <1>1, <1>7, <1>8 DEF Box!Next

LEMMA RecvBox ==
    ASSUME IInv, QueueInv, SleepInv, BoxInv, mode = "el0", ~oops, ipc_recv
    PROVE  Box!Next /\ BoxInv'
<1> DEFINE W == {t \in Tids : state[t] = "Blocked" /\ blocked_send_dst[t] = current_tid}
<1>1. /\ current_tid \in Tids /\ mailbox[current_tid].len # 0
      /\ mailbox' = [mailbox EXCEPT ![current_tid] = EmptyMailbox]
      /\ state' = Woken(state, W)
    BY DEF ipc_recv, ipc_recv_empty, wake_blocked_senders
<1>2. \A t \in Tids : mailbox'[t] = IF t = current_tid THEN EmptyMailbox ELSE mailbox[t]
    BY <1>1, TidFacts DEF IInv, InfoOK
<1>3. Live' = Live
    BY <1>1, TidFacts DEF Live, Woken
<1>4. current_tid \in Live
    BY <1>1, SenderLives
<1>5. mailbox[current_tid] # EmptyMailbox
    BY <1>1 DEF EmptyMailbox
<1>6. Box!Take
    BY <1>1, <1>2, <1>3, <1>4, <1>5 DEF Box!Take, Live
<1>7. BoxInv'
    BY <1>2 DEF BoxInv
<1> QED BY <1>6, <1>7 DEF Box!Next

LEMMA FaultBox ==
    ASSUME IInv, QueueInv, BoxInv, Fault
    PROVE  Box!Next /\ BoxInv'
<1>0. ~oops /\ mode = "el0"
    BY DEF Fault
<1>1. CASE mailbox' = mailbox
    BY <1>0, <1>1, FaultSchedules, SchedBox DEF BoxInv
<1>2. CASE current_tid # 0 /\ mailbox' = [mailbox EXCEPT ![current_tid] = EmptyMailbox]
    <2>1. Switches("Exited", {}, frame) \/ Stays("Exited", {}, frame)
        BY <1>2, FaultLeaves DEF Fault
    <2>2. Live' = Live \ {current_tid} /\ current_tid \in Live
        BY <1>0, <2>1, SchedLive
    <2>3. \A t \in Tids : mailbox'[t] = IF t = current_tid THEN EmptyMailbox ELSE mailbox[t]
        BY <1>2, TidFacts DEF IInv, InfoOK
    <2>4. current_tid \in Tids
        BY <2>2 DEF Live
    <2>5. Box!Die
        <3>1. [t \in Tids |-> mailbox'[t]] =
                [[t \in Tids |-> mailbox[t]] EXCEPT ![current_tid] = EmptyMailbox]
            BY <2>3, <2>4
        <3> QED BY <2>2, <3>1 DEF Box!Die, Live
    <2>6. BoxInv'
        BY <2>3 DEF BoxInv
    <2> QED BY <2>5, <2>6 DEF Box!Next
<1> QED BY <1>1, <1>2 DEF Fault, infoVars

LEMMA CallBox ==
    ASSUME IInv, QueueInv, SleepInv, BoxInv, NEW c \in Calls, handle_svc_from_el0(c)
    PROVE  Box!Next /\ BoxInv'
<1>1. ~oops /\ mode = "el0"
    BY DEF handle_svc_from_el0, InSvc, Write, Yield, Send, Recv, RecvBlk, SendBlk,
           Sleep, Wait, Exit, Unknown
<1>2. \/ mailbox' = mailbox
      \/ c.sys \in {"send", "sendblk"} /\ Reaches(c) /\ ipc_send(c.a, c.n)
      \/ ipc_recv
    BY DEF handle_svc_from_el0, Write, Yield, Send, Recv, RecvBlk, SendBlk,
           Sleep, Wait, Exit, Unknown, Return, infoVars, SendCommon, RecvCommon
<1>3. CASE mailbox' = mailbox
    BY <1>1, <1>3, CallSchedules, SchedBox DEF BoxInv
<1> QED BY <1>1, <1>2, <1>3, SendBox, RecvBox

\* Starting a session creates its tasks with empty boxes.
LEMMA SpawnBox ==
    ASSUME IInv, BoxInv, NEW W \in SUBSET Tids, \A t \in W : state[t] = "Exited",
           NEW w \in ScanOrders(W), spawn_fields(w),
           \A t \in Tids : state'[t] # "Exited" <=> t \in W \/ state[t] # "Exited"
    PROVE  Box!Next /\ BoxInv'
<1>1. /\ \A t \in W : mailbox'[t] = EmptyMailbox
      /\ \A t \in Tids \ W : mailbox'[t] = mailbox[t]
    BY SpawnedTasks
<1>2. Live \subseteq Live' /\ Live' \ Live = W
    BY DEF Live
<1>3. Box!Create
    BY <1>1, <1>2 DEF Box!Create, Live
<1>4. BoxInv'
    BY <1>1 DEF BoxInv
<1> QED BY <1>3, <1>4 DEF Box!Next

LEMMA LaunchBox ==
    ASSUME IInv, BoxInv, NEW timed \in Demos, LaunchCommand(timed)
    PROVE  Box!Next /\ BoxInv'
<1>1. PICK W \in AllocatedSlots(NSPAWN) : \E w \in ScanOrders(W) :
        LET st == Woken(state, W)
            q  == enqueue_all(ready_queue, w) IN
        /\ CanSwitch(st, q)
        /\ state' = [st EXCEPT ![Head(q)] = "Running"]
        /\ spawn_fields(w)
    BY DEF LaunchCommand
<1>2. PICK w \in ScanOrders(W) :
        LET st == Woken(state, W)
            q  == enqueue_all(ready_queue, w) IN
        /\ CanSwitch(st, q)
        /\ state' = [st EXCEPT ![Head(q)] = "Running"]
        /\ spawn_fields(w)
    BY <1>1
<1> DEFINE next == Head(enqueue_all(ready_queue, w))
           st == Woken(state, W)
<1>3. /\ state' = [st EXCEPT ![next] = "Running"] /\ st[next] # "Exited"
      /\ spawn_fields(w)
    BY <1>2 DEF CanSwitch, task
<1>4. W \in SUBSET Tids /\ \A t \in W : state[t] = "Exited"
    BY DEF AllocatedSlots, FreeSlots
<1>5. /\ \A t \in Tids : st[t] = IF t \in W THEN "Ready" ELSE state[t]
      /\ DOMAIN st = Slots
    BY TidFacts DEF Woken
<1> HIDE DEF next, st
<1>6. \A t \in Tids : state'[t] # "Exited" <=> t \in W \/ state[t] # "Exited"
    BY <1>3, <1>5, TidFacts
<1> QED BY <1>3, <1>4, <1>6, SpawnBox

LEMMA TableFullBox ==
    ASSUME IInv, BoxInv, LaunchTableFull
    PROVE  Box!Next /\ BoxInv'
<1>1. PICK w \in ScanOrders(FreeSlots) : state' = Woken(state, FreeSlots) /\ spawn_fields(w)
    BY DEF LaunchTableFull
<1>2. FreeSlots \in SUBSET Tids /\ \A t \in FreeSlots : state[t] = "Exited"
    BY DEF FreeSlots
<1>3. \A t \in Tids : state'[t] # "Exited" <=> t \in FreeSlots \/ state[t] # "Exited"
    BY <1>1, TidFacts DEF Woken
<1> QED BY <1>1, <1>2, <1>3, SpawnBox

LEMMA BoxStep ==
    IInv /\ QueueInv /\ SleepInv /\ BoxInv /\ [Next]_vars => BoxInv' /\ [Box!Next]_(Box!vars)
<1> SUFFICES ASSUME IInv, QueueInv, SleepInv, BoxInv, [Next]_vars
             PROVE  BoxInv' /\ [Box!Next]_(Box!vars)
    OBVIOUS
<1>1. ASSUME NEW c \in Calls, handle_svc_from_el0(c) PROVE Box!Next /\ BoxInv'
    BY <1>1, CallBox
<1>2. CASE Fault
    BY <1>2, FaultBox
<1>3. CASE handle_irq
    <2>1. mailbox' = mailbox /\ ~oops /\ mode \in {"monitor", "el0", "launch"}
        BY <1>3 DEF handle_irq, IrqTaken
    <2> QED BY <1>3, <2>1, IrqSchedules, SchedBox DEF BoxInv
<1>4. ASSUME state' = state, mailbox' = mailbox PROVE Box!Next /\ BoxInv'
    BY <1>4, NobodyCreated DEF Box!Next, BoxInv, Live
<1>5. CASE NestedException \/ FatalCommand
    BY <1>4, <1>5 DEF NestedException, FatalCommand, infoVars
<1>6. CASE TickCommand
    BY <1>4, <1>6 DEF TickCommand, schedVars
<1>7. CASE SoloCommand \/ drop_to_el0_with
    BY <1>4, <1>7 DEF SoloCommand, drop_to_el0_with, infoVars
<1>8. ASSUME NEW timed \in Demos, LaunchCommand(timed) PROVE Box!Next /\ BoxInv'
    BY <1>8, LaunchBox
<1>9. CASE LaunchTableFull
    BY <1>9, TableFullBox
<1>10. CASE UNCHANGED vars
    BY <1>4, <1>10 DEF vars, schedVars
<1> QED
    BY <1>1, <1>2, <1>3, <1>5, <1>6, <1>7, <1>8, <1>9, <1>10 DEF Next, Halted

LEMMA BoxInit == Init => BoxInv /\ Box!Init
BY TidFacts DEF Init, TableInit, Empty, BoxInv, Box!Init

\* What a live task has been sent stays until that task receives it or dies, one
\* message at a time, for every number of tasks: the kernel implements Mailbox,
\* step by step.
THEOREM KernelImplementsMailbox == Spec => MailboxSpec
<1>1. Spec => []BoxInv
    BY BoxInit, BoxStep, Invariance, QueueInvariance, SleepInvariance, PTL DEF Spec
<1>2. Spec => Box!Spec
    BY <1>1, BoxInit, BoxStep, Invariance, QueueInvariance, SleepInvariance, PTL DEF Spec, Box!Spec
<1> QED BY <1>2 DEF MailboxSpec
=============================================================================
