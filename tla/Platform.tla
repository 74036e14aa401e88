------------------------------ MODULE Platform ------------------------------
(***************************************************************************)
(* The kernel around its tasks: kmain's boot and board selection, the      *)
(* boards' init, the monitor's commands that touch the machine, and EL0    *)
(* sessions as far as the exception path, the timer and the translation    *)
(* tables see them. It puts together the console lock, the timer, the      *)
(* tables, the devicetree parser and the range check. Which task a session *)
(* switches to is Kernel's subject; here any of its slots may come next.   *)
(***************************************************************************)
EXTENDS ConsoleLock, Heartbeat, PageTables, Fdt, UserRange

CONSTANTS
  Blobs,          \* what the boot loader may hand over
  PageOf,         \* the page of an address that a reg property holds
  MonitorPages,   \* the pages that the user gives to mapdev
  Uart0,          \* the page of UART0_BASE
  Calls,          \* buffers of system calls: <<address, length>>
  Sessions,       \* the sets of slots that a session uses
  EarlyBases      \* what set_uart_base may be given: {} in the repository

\* Registers hold addresses and lengths of 64 bits. DevicePages are the pages
\* that ioremap is asked for: by mapdev, and by board::apple::init at the reg
\* of each device that it finds.
ASSUME PlatformAssumption ==
  /\ Calls \subseteq Address \X Address
  /\ MonitorPages \subseteq DevicePages
  /\ \A b \in Blobs : \A compat \in {S5L_UART, APPLE_AIC, SIMPLE_FB} :
       LET found == find_by_compatible(b, compat)
       IN  found # None => PageOf[reg_base(b, found[1])] \in DevicePages
  /\ EarlyBases \subseteq Page

VARIABLES
  stage,          \* how far kmain, a board's init or a launch has come
  kind,           \* BOARD_KIND
  uart_base,      \* the page of S5L_UART_BASE, or none: 0
  aic,            \* AIC # 0
  fb,             \* FB_VA # 0
  blob,           \* the devicetree, while something reads it
  live,           \* the slots of the session
  call            \* the buffer of the system call being handled

boardVars == <<kind, uart_base, aic, fb, blob>>
userVars == <<live, call>>
platformVars == <<lockVars, timerVars, tableVars, stage, boardVars, userVars>>

NoBlob == [whole |-> FALSE, magic |-> FALSE]
NoCall == <<>>

\* The stages at which kernel code prints, and the stage after the print.
After == [ banner |-> "handoff", parsed |-> "select", selected |-> "init",
           uart_failed |-> "init_aic", aic_failed |-> "init_fb",
           fb_said |-> "inited", inited |-> "monitor", monitor |-> "monitor",
           installed |-> "leave" ]

Stages == DOMAIN After \cup
  {"entry", "kmain", "handoff", "parse", "select", "init", "init_aic", "init_fb",
   "spawn", "leave"}

TypeOK ==
  /\ LockTypeOK /\ TimerTypeOK /\ TablesTypeOK
  /\ stage \in Stages
  /\ kind \in {"Virt", "Apple"}
  /\ uart_base \in {<<>>} \cup Page
  /\ aic \in BOOLEAN /\ fb \in BOOLEAN
  /\ blob \in Blobs \cup {NoBlob}
  /\ live \subseteq Slots
  /\ call \in Calls \cup {NoCall}

Init ==
  /\ LockInit /\ TimerInit /\ TablesInit
  /\ stage = "entry"
  /\ kind = "Virt" /\ uart_base = <<>> /\ aic = FALSE /\ fb = FALSE
  /\ blob = NoBlob
  /\ live = {} /\ call = NoCall

Run(s) == At("run") /\ stage = s
FromEL0 == Len(ctx) > 1 /\ ctx[Len(ctx) - 1].pc = "el0"

\* console(): the board's UART, at an address that translates or does not.
ConsoleMapped ==
  LET base == IF kind = "Virt" THEN Uart0 ELSE uart_base
  IN  base # <<>> /\ HighHalf(base) # Fault

----------------------------------------------------------------------------
\* Printing, in whatever context.
StartPrint ==
  /\ At("run") => stage \in DOMAIN After
  /\ console_print
  /\ UNCHANGED <<timerVars, tableVars, stage, boardVars, userVars>>

EnterCriticalSection ==
  /\ daif_mask_save \/ acquire
  /\ UNCHANGED <<timerVars, tableVars, stage, boardVars, userVars>>

\* Rendering: it faults where the console is not mapped.
Render ==
  /\ IF ConsoleMapped THEN write_fmt
     ELSE At("owner") /\ exception_dispatch("fault")
  /\ UNCHANGED <<timerVars, tableVars, stage, boardVars, userVars>>

LeaveCriticalSection ==
  /\ \/ release /\ UNCHANGED stage
     \/ /\ daif_restore
        /\ stage' = IF Top.caller = "run" THEN After[stage] ELSE stage
  /\ UNCHANGED <<timerVars, tableVars, boardVars, userVars>>

\* With OOPS set nothing is locked: in the monitor after a session that left
\* it set, and in every handler.
PrintUnlocked ==
  /\ oops /\ At("run") /\ stage \in DOMAIN After /\ ConsoleMapped
  /\ stage' = After[stage]
  /\ UNCHANGED <<lockVars, timerVars, tableVars, boardVars, userVars>>

Report ==
  /\ \/ ~FromEL0 /\ ConsoleMapped /\ die
     \/ At("nested") /\ ConsoleMapped /\ die
     \/ At("fault") /\ ~ConsoleMapped /\ exception_dispatch("fault")
     \/ /\ At("nested") /\ ~ConsoleMapped     \* and so on, down the stack
        /\ Goto(Context("wedged", Top.spsr))
        /\ UNCHANGED <<locked, oops, masked>>
  /\ UNCHANGED <<timerVars, tableVars, stage, boardVars, userVars>>

----------------------------------------------------------------------------
\* The boot.
boot_stub ==
  /\ Run("entry") /\ opal_build_tables
  /\ stage' = "kmain"
  /\ UNCHANGED <<lockVars, timerVars, boardVars, userVars>>

kmain ==
  /\ Run("kmain") /\ condemn_low_half
  /\ stage' = "banner"
  /\ UNCHANGED <<lockVars, timerVars, boardVars, userVars>>

\* fdt_at, at x0 or at the start of RAM.
fdt_at ==
  /\ Run("handoff")
  /\ \/ blob' \in Blobs /\ stage' = "parse"
     \/ UNCHANGED blob /\ stage' = "inited"
  /\ UNCHANGED <<lockVars, timerVars, tableVars, kind, uart_base, aic, fb, userVars>>

parse_unwraps ==        \* mutant: insists on a header that is valid
  /\ Run("parse")
  /\ Fdtr_new(blob)
  /\ stage' = "parsed"
  /\ UNCHANGED blob
  /\ UNCHANGED <<lockVars, timerVars, tableVars, kind, uart_base, aic, fb, userVars>>

\* With a header that is not valid the kernel goes on, without a board.
parse ==
  /\ Run("parse")
  /\ stage' = IF Fdtr_new(blob) THEN "parsed" ELSE "inited"
  /\ blob' = IF Fdtr_new(blob) THEN blob ELSE NoBlob
  /\ UNCHANGED <<lockVars, timerVars, tableVars, kind, uart_base, aic, fb, userVars>>

set_board_kind ==
  /\ Run("select")
  /\ kind' = which(blob)
  /\ blob' = IF kind' = "Apple" THEN blob ELSE NoBlob
  /\ stage' = "selected"
  /\ UNCHANGED <<lockVars, timerVars, tableVars, uart_base, aic, fb, userVars>>

\* "Called before init so the console is live for the banner" (board/apple.rs).
\* Nothing in the repository calls it. With EarlyBases = {} nothing does here,
\* with others a kernel that may, before kmain's line on the board.
set_uart_base ==
  /\ Run("selected") /\ kind = "Apple" /\ uart_base = <<>>
  /\ uart_base' \in EarlyBases
  /\ UNCHANGED <<lockVars, timerVars, tableVars, stage, kind, aic, fb, blob, userVars>>

virt_init ==
  /\ Run("init") /\ kind = "Virt"
  /\ gic_init
  /\ stage' = "inited"
  /\ UNCHANGED <<lockVars, tableVars, boardVars, userVars>>

----------------------------------------------------------------------------
\* board::apple::init: three devices, each found by its compatible name and
\* mapped at its reg; a failure is reported, and the next one is tried.
Found(compat) == find_by_compatible(blob, compat)
RegPage(compat) == PageOf[reg_base(blob, Found(compat)[1])]

StoredBase_physical(compat) ==      \* mutant: set_uart_base with an address as it is
  <<reg_base(blob, Found(compat)[1])>>
StoredBase(compat) == RegPage(compat)

init_uart ==
  /\ Run("init") /\ kind = "Apple"
  /\ IF Found(S5L_UART) = None
     THEN stage' = "init_aic" /\ UNCHANGED <<tableVars, uart_base>>
     ELSE LET p == RegPage(S5L_UART) IN
          \/ ioremap_ok(p, "Device") /\ uart_base' = StoredBase(S5L_UART)
               /\ stage' = "init_aic"
          \/ ioremap_err(p) /\ UNCHANGED uart_base /\ stage' = "uart_failed"
  /\ UNCHANGED <<lockVars, timerVars, kind, aic, fb, blob, userVars>>

init_aic ==
  /\ Run("init_aic")
  /\ IF Found(APPLE_AIC) = None
     THEN stage' = "init_fb" /\ UNCHANGED <<tableVars, aic>>
     ELSE LET p == RegPage(APPLE_AIC) IN
          \/ ioremap_ok(p, "Device") /\ aic' = TRUE /\ stage' = "init_fb"
          \/ ioremap_err(p) /\ UNCHANGED aic /\ stage' = "aic_failed"
  /\ UNCHANGED <<lockVars, timerVars, kind, uart_base, fb, blob, userVars>>

\* hal::fb::init_from_fdt: a geometry with a zero in it (the model takes any)
\* and a null base are refused before anything is mapped.
init_from_fdt ==
  /\ Run("init_fb")
  /\ IF Found(SIMPLE_FB) = None
     THEN stage' = "inited" /\ UNCHANGED <<tableVars, fb>>
     ELSE /\ stage' = "fb_said"
          /\ IF reg_base(blob, Found(SIMPLE_FB)[1]) = 0
             THEN UNCHANGED <<tableVars, fb>>
             ELSE LET p == RegPage(SIMPLE_FB) IN
                  \/ ioremap_ok(p, "Framebuffer") /\ fb' = TRUE
                  \/ UNCHANGED <<tableVars, fb>>
                  \/ ioremap_err(p) /\ UNCHANGED fb
  /\ blob' = NoBlob
  /\ UNCHANGED <<lockVars, timerVars, kind, uart_base, aic, userVars>>

----------------------------------------------------------------------------
\* The monitor's commands. mapdev takes any page, one of the image too, and
\* fdtcons maps the console's. What becomes of a kernel whose own page is a
\* device from then on is left to it: here it carries on, and a fault that
\* it takes for it at the monitor is one of Fault_command's.
mapdev ==
  /\ Run("monitor")
  /\ \E p \in MonitorPages : ioremap_ok(p, "Device") \/ ioremap_err(p)
  /\ UNCHANGED <<lockVars, timerVars, stage, boardVars, userVars>>

\* tick, ticktest: arm, and clear DAIF.I.
tick ==
  /\ Run("monitor")
  /\ arm
  /\ masked' = masked \ {"I"}
  /\ UNCHANGED <<locked, oops, ctx, tableVars, stage, boardVars, userVars>>

\* brk and svc come back; guard, wx, noexec, low and abort do not.
Fault_command ==
  /\ Run("monitor")
  /\ \E k \in {"sync", "fault"} : exception_dispatch(k)
  /\ UNCHANGED <<timerVars, tableVars, stage, boardVars, userVars>>

\* The first part of every drop_to_el0_*: the slots of the session, one by one.
build_task_user_space ==
  /\ At("run") /\ stage \in {"monitor", "spawn"}
  /\ \E s \in Slots \ live :
       /\ \E session \in Sessions : live \cup {s} \subseteq session
       /\ wire_user_tables(s)
       /\ live' = live \cup {s}
  /\ stage' = "spawn"
  /\ UNCHANGED <<lockVars, timerVars, boardVars, call>>

install_early ==        \* mutant: before every slot is wired
  /\ Run("spawn")
  /\ \E s \in Slots : set_user_ttbr0(s)
  /\ arm \/ UNCHANGED timerVars
  /\ stage' = "installed"
  /\ UNCHANGED <<lockVars, boardVars, userVars>>

\* The timed demos arm the timer; all install the first task's root.
install ==
  /\ Run("spawn") /\ live \in Sessions
  /\ \E s \in live : set_user_ttbr0(s)
  /\ arm \/ UNCHANGED timerVars
  /\ stage' = "installed"
  /\ UNCHANGED <<lockVars, boardVars, userVars>>

\* eret, with nothing masked in SPSR_EL1.
drop_to_el0 ==
  /\ Run("leave")
  /\ Goto(Context("el0", {}))
  /\ masked' = {}
  /\ stage' = "monitor"
  /\ UNCHANGED <<locked, oops, timerVars, tableVars, boardVars, userVars>>

----------------------------------------------------------------------------
\* Exceptions, and the way back from them.
svc ==
  /\ At("el0")
  /\ call' \in Calls
  /\ exception_dispatch("sync")
  /\ UNCHANGED <<timerVars, tableVars, stage, boardVars, live>>

user_fault ==
  /\ At("el0")
  /\ exception_dispatch("sync")
  /\ UNCHANGED <<timerVars, tableVars, stage, boardVars, userVars>>

\* The kernel touches a buffer that it accepted and nobody mapped.
copy_fault ==
  /\ At("sync") /\ call # NoCall
  /\ is_valid_user_range(call[1], call[2]) /\ call[2] > 0
  /\ exception_dispatch("fault")
  /\ UNCHANGED <<timerVars, tableVars, stage, boardVars, userVars>>

TakeIrq ==
  /\ IrqLine /\ "I" \notin masked /\ Top.pc \notin Stopped
  /\ exception_dispatch("irq")
  /\ UNCHANGED <<timerVars, tableVars, stage, boardVars, userVars>>

TakeFiq ==
  /\ kind = "Apple" /\ Line /\ "F" \notin masked /\ Top.pc \notin Stopped
  /\ exception_dispatch("fiq")
  /\ UNCHANGED <<timerVars, tableVars, stage, boardVars, userVars>>

\* A handler that found EL0 below it may have switched to another task.
MaySwitch ==
  \/ UNCHANGED tableVars
  \/ FromEL0 /\ \E s \in live : set_user_ttbr0(s)

handle_irq ==
  /\ At("irq")
  /\ acknowledge_and_tick
  /\ MaySwitch
  /\ Goto(Context("eoi", Top.spsr))
  /\ UNCHANGED <<locked, oops, masked, stage, boardVars, userVars>>

irq_end ==
  /\ At("eoi")
  /\ end_interrupt
  /\ exception_return
  /\ UNCHANGED <<tableVars, stage, boardVars, userVars>>

handle_fiq ==
  /\ At("fiq")
  /\ IF fired THEN Tick /\ UNCHANGED <<gic, ppi>> /\ MaySwitch
     ELSE UNCHANGED <<timerVars, tableVars>>
  /\ exception_return
  /\ UNCHANGED <<stage, boardVars, userVars>>

sync_end ==
  /\ At("sync")
  /\ MaySwitch
  /\ exception_return
  /\ call' = NoCall
  /\ UNCHANGED <<timerVars, stage, boardVars, live>>

\* The last task is gone: return_to_monitor and on_el0_return, which never
\* come back to the end of the dispatcher.
return_to_monitor ==
  /\ At("sync") /\ FromEL0
  /\ condemn_low_half
  /\ disable
  /\ ctx' = <<Context("run", {})>>
  /\ masked' = masked \cup {"I"}
  /\ live' = {} /\ call' = NoCall
  /\ UNCHANGED <<locked, oops, stage, boardVars>>

CounterAdvances ==
  /\ CounterReaches
  /\ UNCHANGED <<lockVars, tableVars, stage, boardVars, userVars>>

----------------------------------------------------------------------------
\* What the core does of itself, and what the user of the monitor or a user
\* program makes it do.
Boot ==
  \/ boot_stub \/ kmain \/ fdt_at \/ parse \/ set_board_kind
  \/ set_uart_base \/ virt_init \/ init_uart \/ init_aic \/ init_from_fdt

Printing ==
  \/ EnterCriticalSection \/ Render \/ LeaveCriticalSection \/ PrintUnlocked
  \/ StartPrint

Handling ==
  \/ Report \/ copy_fault \/ handle_irq \/ irq_end \/ handle_fiq
  \/ sync_end \/ return_to_monitor

Command == mapdev \/ tick \/ Fault_command \/ build_task_user_space
User == svc \/ user_fault

Next ==
  \/ Boot \/ Printing \/ Handling
  \/ Command \/ install \/ drop_to_el0
  \/ User
  \/ TakeIrq \/ TakeFiq \/ CounterAdvances

Spec == Init /\ [][Next]_platformVars

\* The core executes; an unmasked interrupt is taken sooner or later though
\* the mask comes and goes; the counter counts.
FairSpec ==
  /\ Spec
  /\ WF_platformVars(Boot \/ Printing \/ Handling)
  /\ SF_platformVars(TakeIrq)
  /\ WF_platformVars(CounterAdvances)

----------------------------------------------------------------------------
\* A buffer is accepted only if every byte that the copy touches, wrap-around
\* included, lies below the kernel's half; and one that does and starts
\* there is accepted. (is_valid_user_range)
UserRangeExact == At("sync") /\ call # NoCall => RangeExact(call[1], call[2])

\* The tables are only changed in the ways, and in the order, for which
\* PageTables shows what holds of them.
TablesOrder == TablesSpec

\* The PPI is edge-triggered, so a tick comes only if the line falls before
\* the next one: whenever the line is up its edge is latched and yet to be
\* handled. And an interrupt that was acknowledged is on its way to its end,
\* which holds back the next only while its own handler runs. (gicv2.rs and
\* timer.rs: ack, rearm, EOI, in this order)
NoEdgeLost ==
  /\ gic /\ Line => "pending" \in ppi
  /\ "active" \in ppi <=> \E i \in 1 .. Len(ctx) : ctx[i].pc = "eoi"

\* While the timer runs and interrupts are let through, ticks keep coming,
\* on the board with the GIC: every tick leaves the comparator and the GIC
\* ready for the next.
HeartbeatGoesOn ==
  \A n \in 0 .. TickWrap - 1 :
    (gic /\ 0 \in ctl /\ "I" \notin masked /\ ticks = n)
      ~> (ticks # n \/ 0 \notin ctl \/ Top.pc \in Stopped)

\* A FIQ that the timer raised is a tick: handle_fiq's comment, "did the
\* virtual timer fire? If so, service the tick".
FiqCountsTicks == [][handle_fiq /\ Line => ticks' # ticks]_platformVars

\* The boot reaches the monitor whatever the devicetree says and whichever
\* device cannot be mapped. On the Apple board it never does: nothing gives
\* the console a base before the line that kmain prints ahead of init, so the
\* print faults, with the lock held, and so does every report of it.
BootReachesMonitor == <>(stage = "monitor")

\* On QEMU's board, and with no board selected, it does so as the code is:
\* with no devicetree, a broken one, or one that says nothing of the board.
VirtReachesMonitor == <>(stage = "monitor" \/ kind = "Apple")
=============================================================================
