------------------------------ MODULE Mailbox ------------------------------
(***************************************************************************)
(* What message passing promises its users, whatever the scheduler does.   *)
(* Every task has a box for one message.  The task on the CPU posts into   *)
(* the empty box of a live task, or takes what is in its own.  A message   *)
(* is dropped only with its receiver.  Kernel.tla is shown to implement    *)
(* this specification.                                                     *)
(***************************************************************************)
CONSTANTS
    Boxes,      \* the tasks that have a box
    None        \* an empty box

VARIABLES
    box,        \* the message in each box, or None
    live,       \* the tasks that exist
    cpu         \* the task that runs; any step may change it

vars == <<box, live, cpu>>

Init ==
    /\ box = [t \in Boxes |-> None]
    /\ live = {}

\* The running task posts m, which carries its name, into t's empty box.
Post(t) ==
    /\ cpu \in live /\ t \in live
    /\ box[t] = None
    /\ box'[t] # None /\ box'[t].from = cpu
    /\ \A u \in Boxes \ {t} : box'[u] = box[u]
    /\ UNCHANGED live

\* The running task empties its own box.
Take ==
    /\ cpu \in live
    /\ box[cpu] # None
    /\ box' = [box EXCEPT ![cpu] = None]
    /\ UNCHANGED live

\* The running task ends; its box may keep its message, which nobody reads.
Die ==
    /\ cpu \in live
    /\ live' = live \ {cpu}
    /\ box' \in {box, [box EXCEPT ![cpu] = None]}

\* Tasks are created, perhaps none, with empty boxes.
Create ==
    /\ live \subseteq live'
    /\ box' = [t \in Boxes |-> IF t \in live' \ live THEN None ELSE box[t]]

Next == (\E t \in Boxes : Post(t)) \/ Take \/ Die \/ Create

Spec == Init /\ [][Next]_vars
=============================================================================
