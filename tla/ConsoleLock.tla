---------------------------- MODULE ConsoleLock ----------------------------
(***************************************************************************)
(* The console lock of src/sync.rs, the print path of src/main.rs and the  *)
(* part of the exception dispatcher that both lean on: DAIF, OOPS and the  *)
(* stack of interrupted contexts.                                          *)
(*                                                                         *)
(* There is one core. What runs is the last context of ctx; the ones below *)
(* it are frozen until it returns. SpinLock::with is taken apart, because  *)
(* an exception may come between any two of its steps.                     *)
(***************************************************************************)
EXTENDS Naturals, Sequences

VARIABLES
  locked,   \* CONSOLE_LOCK.locked
  oops,     \* OOPS: bypass the lock
  masked,   \* the interrupts PSTATE masks now: "I", "F"
  ctx       \* the contexts, the running one last

lockVars == <<locked, oops, masked, ctx>>

Interrupts == {"I", "F"}

\* Where a context can be: in kernel code, in SpinLock::with, at EL0, in the
\* handler of an exception, or stopped.
InWith   == {"masking", "locking", "owner", "written", "released"}
Handlers == {"irq", "eoi", "fiq", "sync", "fault"}
Stopped  == {"nested", "parked", "wedged"}
Places   == {"run", "el0"} \cup InWith \cup Handlers \cup Stopped

\* caller: where SpinLock::with was called from. daif: its saved DAIF.
\* spsr: what the interrupted code had masked, for eret.
Context(pc, spsr) == [pc |-> pc, caller |-> "run", daif |-> {}, spsr |-> spsr]

Top == ctx[Len(ctx)]
At(pc) == Top.pc = pc
Goto(c) == ctx' = [ctx EXCEPT ![Len(ctx)] = c]
Below == SubSeq(ctx, 1, Len(ctx) - 1)

LockTypeOK ==
  /\ locked \in BOOLEAN /\ oops \in BOOLEAN
  /\ masked \subseteq Interrupts
  /\ ctx \in Seq([pc : Places, caller : Places, daif : SUBSET Interrupts,
                  spsr : SUBSET Interrupts])
  /\ ctx # <<>>

LockInit ==
  /\ locked = FALSE
  /\ oops = FALSE
  /\ masked = Interrupts
  /\ ctx = <<Context("run", {})>>

----------------------------------------------------------------------------
\* console_print, with the lock: SpinLock::with starts with daif_mask_save,
\* which reads DAIF and then masks I and F.
console_print ==
  /\ Top.pc \in {"run", "fiq", "sync", "fault"}
  /\ ~oops
  /\ Goto([Top EXCEPT !.pc = "masking", !.caller = Top.pc])
  /\ UNCHANGED <<locked, oops, masked>>

daif_mask_nothing ==    \* mutant
  /\ At("masking")
  /\ Goto([Top EXCEPT !.pc = "locking", !.daif = masked])
  /\ UNCHANGED <<locked, oops, masked>>

daif_mask_save ==
  /\ At("masking")
  /\ Goto([Top EXCEPT !.pc = "locking", !.daif = masked])
  /\ masked' = Interrupts
  /\ UNCHANGED <<locked, oops>>

\* The compare-exchange that succeeds. While the lock is taken the context
\* spins: it has no step.
acquire ==
  /\ At("locking") /\ ~locked
  /\ locked' = TRUE
  /\ Goto([Top EXCEPT !.pc = "owner"])
  /\ UNCHANGED <<oops, masked>>

write_fmt ==
  /\ At("owner")
  /\ Goto([Top EXCEPT !.pc = "written"])
  /\ UNCHANGED <<locked, oops, masked>>

restore_early ==        \* mutant: unmask, and release later
  /\ At("written")
  /\ masked' = Top.daif
  /\ Goto([Top EXCEPT !.pc = "released"])
  /\ UNCHANGED <<locked, oops>>

release ==
  /\ At("written")
  /\ locked' = FALSE
  /\ Goto([Top EXCEPT !.pc = "released"])
  /\ UNCHANGED <<oops, masked>>

daif_enable ==          \* mutant: re-enable instead of restoring
  /\ At("released")
  /\ masked' = {}
  /\ Goto(Context(Top.caller, Top.spsr))
  /\ UNCHANGED <<locked, oops>>

\* daif_restore, and the return from console_print.
daif_restore ==
  /\ At("released")
  /\ masked' = Top.daif
  /\ Goto(Context(Top.caller, Top.spsr))
  /\ UNCHANGED <<locked, oops>>

----------------------------------------------------------------------------
dispatch_quietly(kind) ==   \* mutant: OOPS is not set
  /\ ctx' = Append(ctx, Context(IF oops THEN "nested" ELSE kind, masked))
  /\ masked' = Interrupts
  /\ UNCHANGED <<locked, oops>>

\* The hardware masks I and F and saves the mask in SPSR; the dispatcher sets
\* OOPS and, if it was set already, reports a nested exception and parks.
exception_dispatch(kind) ==
  /\ ctx' = Append(ctx, Context(IF oops THEN "nested" ELSE kind, masked))
  /\ oops' = TRUE
  /\ masked' = Interrupts
  /\ UNCHANGED locked

\* The end of the dispatcher (oops_exit) and the eret of the restore stub.
exception_return ==
  /\ Len(ctx) > 1
  /\ oops' = FALSE
  /\ masked' = Top.spsr
  /\ ctx' = Below
  /\ UNCHANGED locked

\* die() of a fault that cannot be recovered, and the end of a nested report.
die ==
  /\ Top.pc \in {"fault", "nested"}
  /\ Goto([Top EXCEPT !.pc = "parked"])
  /\ UNCHANGED <<locked, oops, masked>>

----------------------------------------------------------------------------
\* No context waits for a lock that a context below it holds: that would be
\* for ever, on the only core. (sync.rs on why the lock is dropped before
\* interrupts are restored, and OOPS for the handlers that print.)
NoSelfDeadlock == ~(At("locking") /\ locked)

\* Whoever was interrupted while it held the lock is never resumed: only a
\* fault can interrupt it, and that is reported and parks the core. So no
\* message is printed into the middle of another that goes on after it.
WholeMessages ==
  \A i \in 1 .. Len(ctx) - 1 :
    ctx[i].pc \in {"owner", "written"} => Top.pc \in {"fault"} \cup Stopped

\* The lock is held exactly by the one context that is between acquire and
\* release.
OneOwner ==
  /\ locked <=> \E i \in 1 .. Len(ctx) : ctx[i].pc \in {"owner", "written"}
  /\ \A i, j \in 1 .. Len(ctx) :
       {ctx[i].pc, ctx[j].pc} \subseteq {"owner", "written"} => i = j

\* Whoever runs at EL1 has FIQ masked, handler or not, whichever exceptions
\* and prints came before: every saved mask is put back where it belongs.
FiqOnlyAtEL0 == Top.pc \notin {"el0"} => "F" \in masked
=============================================================================
