------------------------------ MODULE Heartbeat ------------------------------
(***************************************************************************)
(* The virtual timer of src/arch/aarch64/timer.rs, and the way its         *)
(* interrupt reaches the core: through the GIC of src/hal/gicv2.rs on the  *)
(* virt board, straight to FIQ on the Apple board. The comparator and the  *)
(* GIC are hardware, modelled by what the code relies on.                  *)
(***************************************************************************)
EXTENDS Naturals

VARIABLES
  ctl,          \* the bits of CNTV_CTL_EL0 that were written: 0 ENABLE, 1 IMASK
  reached,      \* the counter has reached CNTV_CVAL_EL0
  period,       \* TICK_PERIOD > 0
  ticks,        \* TICKS, modulo TickWrap
  gic,          \* the GIC was brought up
  ppi           \* the timer's PPI at the GIC: pending, active

timerVars == <<ctl, reached, period, ticks, gic, ppi>>

TickWrap == 2

TimerTypeOK ==
  /\ ctl \subseteq {0, 1}
  /\ reached \in BOOLEAN /\ period \in BOOLEAN /\ gic \in BOOLEAN
  /\ ticks \in 0 .. TickWrap - 1
  /\ ppi \subseteq {"pending", "active"}

TimerInit ==
  /\ ctl = {} /\ reached = FALSE
  /\ period = FALSE /\ ticks = 0
  /\ gic = FALSE /\ ppi = {}

----------------------------------------------------------------------------
\* Bit 2, ISTATUS, is the comparator's answer while the timer is enabled.
ctl_read == ctl \cup (IF 0 \in ctl /\ reached THEN {2} ELSE {})

\* The test that handle_fiq makes.
fired == 1 \in ctl_read

\* The timer's output, before any interrupt controller.
Line == 2 \in ctl_read /\ 1 \notin ctl

arm ==
  /\ ctl' = {0} /\ reached' = FALSE /\ period' = TRUE
  /\ UNCHANGED <<ticks, gic, ppi>>

disable ==
  /\ ctl' = {}
  /\ UNCHANGED <<reached, period, ticks, gic, ppi>>

Tick_unarmed ==         \* mutant: CVAL is not moved on
  /\ ticks' = (ticks + 1) % TickWrap
  /\ UNCHANGED <<ctl, period, reached>>

\* on_tick and rearm.
Tick ==
  /\ ticks' = (ticks + 1) % TickWrap
  /\ reached' = (reached /\ ~period)
  /\ UNCHANGED <<ctl, period>>

\* GicV2::init and enable_irq: from here on the PPI is forwarded.
gic_init ==
  /\ gic' = TRUE
  /\ UNCHANGED <<ctl, reached, period, ticks, ppi>>

\* Time passes. init makes the PPI edge-triggered: a rising line is latched,
\* and stays latched when the line falls.
CounterReaches ==
  /\ 0 \in ctl /\ ~reached
  /\ reached' = TRUE
  /\ ppi' = IF gic /\ 1 \notin ctl THEN ppi \cup {"pending"} ELSE ppi
  /\ UNCHANGED <<ctl, period, ticks, gic>>

\* What the GIC signals: nothing while the interrupt of the same priority is
\* active.
IrqLine == gic /\ ppi = {"pending"}

\* handle_irq up to end_interrupt: acknowledge finds the timer's ID, for no
\* other source is enabled.
acknowledge_and_tick ==
  /\ "pending" \in ppi
  /\ ppi' = {"active"}
  /\ Tick
  /\ UNCHANGED gic

no_end ==               \* mutant: the interrupt stays active
  UNCHANGED timerVars

end_interrupt ==
  /\ ppi' = ppi \ {"active"}
  /\ UNCHANGED <<ctl, reached, period, ticks, gic>>
=============================================================================
