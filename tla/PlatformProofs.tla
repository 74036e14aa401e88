--------------------------- MODULE PlatformProofs ---------------------------
(***************************************************************************)
(* What holds of the whole machine for every pool, every set of slots,     *)
(* devicetrees, pages and buffers: the console lock under exceptions, and  *)
(* that kmain, the boards, the monitor and the sessions use the            *)
(* translation tables in the order for which PageTablesProofs and          *)
(* AddressSpaceProofs show what holds of them. First the range check.      *)
(***************************************************************************)
EXTENDS Platform, AddressSpaceProofs

(***************************************************************************)
(* is_valid_user_range decides what it is for, for every base of the       *)
(* kernel's half, every size of the address space and every buffer.        *)
(***************************************************************************)
\* An address below TOP is not wrapped.
LEMMA NoWrap ==
  ASSUME NEW a \in Nat, a < TOP
  PROVE  a % TOP = a
BY RangeAssumption

\* A buffer is accepted exactly when it starts below the kernel's half and
\* every byte that the copy loop touches, wrap-around included, lies there.
\* (is_valid_user_range: the checked_add is what makes it so)
THEOREM UserRangeIsExact ==
  \A va, len \in Address : RangeExact(va, len)
<1> SUFFICES ASSUME NEW va \in Address, NEW len \in Address PROVE RangeExact(va, len)
  OBVIOUS
<1> DEFINE low == 0 .. KERNEL_BASE - 1
<1>0. /\ va \in Nat /\ len \in Nat /\ TOP \in Nat /\ KERNEL_BASE \in Nat
      /\ va < TOP /\ KERNEL_BASE < TOP
  BY RangeAssumption DEF Address
<1>1. ASSUME is_valid_user_range(va, len)
      PROVE  va \in low /\ Touched(va, len) \subseteq low
  <2>1. ASSUME NEW i \in 0 .. len - 1 PROVE (va + i) % TOP \in low
    <3>1. va + i \in Nat /\ va + i < KERNEL_BASE
      BY <1>0, <1>1 DEF is_valid_user_range
    <3> QED
      BY <1>0, <3>1, NoWrap
  <2>2. va \in low
    BY <1>0, <1>1 DEF is_valid_user_range
  <2> QED
    BY <2>1, <2>2 DEF Touched
<1>2. ASSUME va \in low, Touched(va, len) \subseteq low
      PROVE  is_valid_user_range(va, len)
  <2>1. CASE len = 0
    BY <1>0, <1>2, <2>1 DEF is_valid_user_range
  <2>2. CASE len # 0 /\ va + len <= KERNEL_BASE
    BY <1>0, <1>2, <2>2 DEF is_valid_user_range
  <2>3. CASE va + len > KERNEL_BASE    \* then the copy meets KERNEL_BASE
    <3> DEFINE i == KERNEL_BASE - va
    <3>1. i \in 0 .. len - 1 /\ va + i = KERNEL_BASE
      BY <1>0, <1>2, <2>3
    <3>2. (va + i) % TOP = KERNEL_BASE
      BY <1>0, <3>1, NoWrap
    <3>3. KERNEL_BASE \in Touched(va, len)
      BY <3>1, <3>2 DEF Touched
    <3> QED
      BY <1>0, <1>2, <3>3
  <2> QED
    BY <1>0, <2>1, <2>2, <2>3
<1> QED
  BY <1>1, <1>2 DEF RangeExact

Contexts == [pc : Places, caller : Places, daif : SUBSET Interrupts, spsr : SUBSET Interrupts]

Depth == Len(ctx)
Bottom == ctx[1]

(***************************************************************************)
(* The console lock. There are three contexts at most: the kernel's or the *)
(* user's, a handler on top of it, and on top of that a nested report that *)
(* never returns. Only the bottom one is ever inside SpinLock::with; what  *)
(* can interrupt it there is an IRQ before it has masked, or a fault while *)
(* it writes. And every mask that is saved while EL1 runs has F in it.     *)
(***************************************************************************)
Layers ==
  /\ Depth \in 1 .. 3
  /\ Bottom.pc \in {"run", "el0"} \cup InWith
  /\ Bottom.pc \in InWith => Bottom.caller = "run"
  /\ Depth >= 2 => ctx[2].pc \in Handlers \cup Stopped
  /\ Depth = 3 => ctx[3].pc \in Stopped

Masks ==
  /\ Depth >= 2 => oops /\ masked = Interrupts
  /\ Depth = 1 /\ Bottom.pc \in {"run", "masking"} => "F" \in masked
  /\ Depth = 1 /\ Bottom.pc \in {"locking", "owner", "written", "released"} =>
       masked = Interrupts /\ "F" \in Bottom.daif
  /\ Depth >= 2 /\ Bottom.pc # "el0" => "F" \in ctx[2].spsr

Holder ==
  /\ locked <=> Bottom.pc \in {"owner", "written"}
  /\ Depth >= 2 /\ Bottom.pc \in InWith =>
       \/ Bottom.pc = "masking"
       \/ Bottom.pc = "owner" /\ ctx[2].pc \in {"fault"} \cup Stopped

LockInv == LockTypeOK /\ Layers /\ Masks /\ Holder

\* A context, and the three ways in which the stack of them changes.
LEMMA ContextFacts ==
  ASSUME NEW pc \in Places, NEW spsr \in SUBSET Interrupts
  PROVE  /\ Context(pc, spsr) \in Contexts
         /\ Context(pc, spsr).pc = pc /\ Context(pc, spsr).spsr = spsr
         /\ Context(pc, spsr).caller = "run"
BY DEF Context, Contexts, Places

LEMMA TopFacts ==
  ASSUME LockTypeOK, Layers
  PROVE  /\ Depth \in {1, 2, 3} /\ ctx \in Seq(Contexts) /\ Top \in Contexts
         /\ Top = ctx[Depth] /\ Bottom \in Contexts
         /\ Depth >= 2 => ctx[2] \in Contexts
         /\ Depth = 1 => Top = Bottom
         /\ Depth = 2 => Top = ctx[2]
         /\ Depth = 3 => Top = ctx[3]
<1>1. ctx \in Seq(Contexts)
  BY DEF LockTypeOK, Contexts
<1>2. Depth \in {1, 2, 3} /\ Depth = Len(ctx)
  BY DEF Layers, Depth
<1>3. \A i \in 1 .. Depth : ctx[i] \in Contexts
  BY <1>1, <1>2
<1> QED
  BY <1>1, <1>2, <1>3 DEF Bottom, Top

LEMMA GotoFacts ==
  ASSUME LockTypeOK, Layers, NEW c \in Contexts, Goto(c)
  PROVE  /\ ctx' \in Seq(Contexts) /\ Depth' = Depth
         /\ Depth = 1 => Bottom' = c
         /\ Depth >= 2 => Bottom' = Bottom
         /\ Depth = 2 => ctx'[2] = c
         /\ Depth = 3 => ctx'[2] = ctx[2] /\ ctx'[3] = c
BY TopFacts DEF Goto, Depth, Bottom

LEMMA PushFacts ==
  ASSUME LockTypeOK, Layers, NEW c \in Contexts, ctx' = Append(ctx, c)
  PROVE  /\ ctx' \in Seq(Contexts) /\ Depth' = Depth + 1 /\ Bottom' = Bottom
         /\ Depth = 1 => ctx'[2] = c
         /\ Depth = 2 => ctx'[2] = ctx[2] /\ ctx'[3] = c
BY TopFacts DEF Depth, Bottom

LEMMA PopFacts ==
  ASSUME LockTypeOK, Layers, Depth = 2, ctx' = Below
  PROVE  ctx' \in Seq(Contexts) /\ Depth' = 1 /\ Bottom' = Bottom
BY TopFacts DEF Depth, Bottom, Below

LEMMA LockTyped ==
  ASSUME locked' \in BOOLEAN, oops' \in BOOLEAN, masked' \subseteq Interrupts,
         ctx' \in Seq(Contexts), Depth' \in 1 .. 3
  PROVE  LockTypeOK'
BY DEF LockTypeOK, Depth, Contexts

LEMMA LockStart == LockInit => LockInv
<1> SUFFICES ASSUME LockInit PROVE LockInv
  OBVIOUS
<1>1. Context("run", {}) \in Contexts /\ Context("run", {}).pc = "run"
  BY ContextFacts DEF Places
<1>2. ctx \in Seq(Contexts) /\ Depth = 1 /\ Bottom = Context("run", {})
  BY <1>1 DEF LockInit, Depth, Bottom
<1>3. LockTypeOK
  BY <1>2 DEF LockTypeOK, LockInit, Contexts, Depth
<1> QED
  BY <1>1, <1>2, <1>3 DEF LockInv, LockInit, Layers, Masks, Holder, Interrupts, InWith

LEMMA LockStays == LockInv /\ UNCHANGED lockVars => LockInv'
BY DEF LockInv, LockTypeOK, Layers, Masks, Holder, lockVars, Depth, Bottom

\* Who starts to print without OOPS is the bottom context.
LEMMA PrintKeepsLock == LockInv /\ console_print => LockInv' /\ Bottom'.pc # "el0" /\ Bottom.pc = "run"
<1> SUFFICES ASSUME LockInv, console_print
             PROVE  LockInv' /\ Bottom'.pc # "el0" /\ Bottom.pc = "run"
  OBVIOUS
<1> DEFINE c == [Top EXCEPT !.pc = "masking", !.caller = Top.pc]
<1>1. Depth = 1 /\ Top = Bottom /\ Top \in Contexts /\ ~oops
  BY TopFacts DEF LockInv, Masks, console_print
<1>2. Bottom.pc = "run" /\ "run" \in Places /\ "masking" \in Places
  BY <1>1 DEF LockInv, Layers, console_print, InWith, Places
<1>3. /\ c \in Contexts /\ c.pc = "masking" /\ c.caller = "run"
      /\ Goto(c) /\ UNCHANGED <<locked, oops, masked>>
  BY <1>1, <1>2 DEF Contexts, console_print
<1> HIDE DEF c
<1>4. ctx' \in Seq(Contexts) /\ Depth' = 1 /\ Bottom' = c
  BY <1>1, <1>3, GotoFacts DEF LockInv
<1>5. LockTypeOK'
  BY <1>3, <1>4, LockTyped DEF LockInv, LockTypeOK
<1> QED
  BY <1>1, <1>2, <1>3, <1>4, <1>5 DEF LockInv, Layers, Masks, Holder, InWith

\* Inside SpinLock::with: the steps between the print and its return.
LEMMA WithinDepth ==
  ASSUME LockInv, Top.pc \in InWith
  PROVE  Depth = 1 /\ Top = Bottom /\ Top \in Contexts
BY TopFacts DEF LockInv, Layers, InWith, Handlers, Stopped

LEMMA MaskKeepsLock == LockInv /\ daif_mask_save => LockInv' /\ Bottom'.pc # "el0" /\ Bottom.pc \in InWith
<1> SUFFICES ASSUME LockInv, daif_mask_save
             PROVE  LockInv' /\ Bottom'.pc # "el0" /\ Bottom.pc \in InWith
  OBVIOUS
<1> DEFINE c == [Top EXCEPT !.pc = "locking", !.daif = masked]
<1>1. Depth = 1 /\ Top = Bottom /\ Top \in Contexts /\ Bottom.pc = "masking"
  BY WithinDepth DEF daif_mask_save, At, InWith
<1>2. "F" \in masked /\ masked \subseteq Interrupts /\ Bottom.caller = "run"
  BY <1>1 DEF LockInv, Masks, Layers, LockTypeOK, InWith
<1>3. /\ c \in Contexts /\ c.pc = "locking" /\ c.caller = "run" /\ c.daif = masked
      /\ Goto(c) /\ masked' = Interrupts /\ UNCHANGED <<locked, oops>>
  BY <1>1, <1>2 DEF Contexts, daif_mask_save, Places, InWith
<1> HIDE DEF c
<1>4. ctx' \in Seq(Contexts) /\ Depth' = 1 /\ Bottom' = c
  BY <1>1, <1>3, GotoFacts DEF LockInv
<1>5. LockTypeOK'
  BY <1>3, <1>4, LockTyped DEF LockInv, LockTypeOK
<1> QED
  BY <1>1, <1>2, <1>3, <1>4, <1>5 DEF LockInv, Layers, Masks, Holder, InWith

\* acquire, write_fmt and release move the owner on with everything masked.
LEMMA OwnerKeepsLock ==
  ASSUME LockInv, NEW from \in InWith \ {"masking"}, NEW to \in InWith \ {"masking"}, At(from),
         Goto([Top EXCEPT !.pc = to]), UNCHANGED <<oops, masked>>,
         locked' \in BOOLEAN, locked' <=> to \in {"owner", "written"}
  PROVE  LockInv' /\ Bottom'.pc # "el0" /\ Bottom.pc \in InWith
<1> DEFINE c == [Top EXCEPT !.pc = to]
<1>1. Depth = 1 /\ Top = Bottom /\ Top \in Contexts /\ Bottom.pc = from
  BY WithinDepth DEF At
<1>2. /\ masked = Interrupts /\ "F" \in Bottom.daif /\ Bottom.caller = "run"
      /\ from \in {"locking", "owner", "written", "released"}
      /\ to \in {"locking", "owner", "written", "released"}
  BY <1>1 DEF LockInv, Masks, Layers, InWith
<1>3. c \in Contexts /\ c.pc = to /\ c.caller = "run" /\ c.daif = Bottom.daif /\ Goto(c)
  BY <1>1, <1>2 DEF Contexts, Places
<1> HIDE DEF c
<1>4. ctx' \in Seq(Contexts) /\ Depth' = 1 /\ Bottom' = c
  BY <1>1, <1>3, GotoFacts DEF LockInv
<1>5. LockTypeOK'
  BY <1>4, LockTyped DEF LockInv, LockTypeOK
<1> QED
  BY <1>1, <1>2, <1>3, <1>4, <1>5 DEF LockInv, Layers, Masks, Holder, InWith

LEMMA CriticalKeepsLock ==
  LockInv /\ (acquire \/ write_fmt \/ release) =>
    LockInv' /\ Bottom'.pc # "el0" /\ Bottom.pc \in InWith
<1>1. /\ {"locking", "owner", "written", "released"} \subseteq InWith \ {"masking"}
      /\ "locking" \notin {"owner", "written"} /\ "released" \notin {"owner", "written"}
  BY DEF InWith
<1>2. ASSUME LockInv, acquire PROVE LockInv' /\ Bottom'.pc # "el0" /\ Bottom.pc \in InWith
  <2>1. At("locking") /\ Goto([Top EXCEPT !.pc = "owner"])
        /\ UNCHANGED <<oops, masked>> /\ locked' = TRUE
    BY <1>2 DEF acquire
  <2> QED
    BY <1>1, <1>2, <2>1, OwnerKeepsLock
<1>3. ASSUME LockInv, write_fmt PROVE LockInv' /\ Bottom'.pc # "el0" /\ Bottom.pc \in InWith
  <2>1. At("owner") /\ Goto([Top EXCEPT !.pc = "written"])
        /\ UNCHANGED <<oops, masked>> /\ locked' = locked
    BY <1>3 DEF write_fmt
  <2>2. locked' = TRUE
    BY <1>1, <1>3, <2>1, WithinDepth DEF At, LockInv, Holder, LockTypeOK
  <2> QED
    BY <1>1, <1>3, <2>1, <2>2, OwnerKeepsLock
<1>4. ASSUME LockInv, release PROVE LockInv' /\ Bottom'.pc # "el0" /\ Bottom.pc \in InWith
  <2>1. At("written") /\ Goto([Top EXCEPT !.pc = "released"])
        /\ UNCHANGED <<oops, masked>> /\ locked' = FALSE
    BY <1>4 DEF release
  <2> QED
    BY <1>1, <1>4, <2>1, OwnerKeepsLock
<1> QED
  BY <1>2, <1>3, <1>4

LEMMA RestoreKeepsLock ==
  LockInv /\ daif_restore =>
    LockInv' /\ Top.caller = "run" /\ Bottom'.pc = "run" /\ Bottom.pc = "released"
<1> SUFFICES ASSUME LockInv, daif_restore
             PROVE  /\ LockInv' /\ Top.caller = "run"
                    /\ Bottom'.pc = "run" /\ Bottom.pc = "released"
  OBVIOUS
<1> DEFINE c == Context(Top.caller, Top.spsr)
<1>1. Depth = 1 /\ Top = Bottom /\ Top \in Contexts /\ Bottom.pc = "released"
  BY WithinDepth DEF daif_restore, At, InWith
<1>2. "F" \in Bottom.daif /\ Bottom.caller = "run" /\ Bottom.daif \subseteq Interrupts
  BY <1>1 DEF LockInv, Masks, Layers, InWith, Contexts
<1>3. /\ c \in Contexts /\ c.pc = "run"
      /\ Goto(c) /\ masked' = Bottom.daif /\ UNCHANGED <<locked, oops>>
  BY <1>1, <1>2, ContextFacts DEF Contexts, daif_restore
<1> HIDE DEF c
<1>4. ctx' \in Seq(Contexts) /\ Depth' = 1 /\ Bottom' = c
  BY <1>1, <1>3, GotoFacts DEF LockInv
<1>5. LockTypeOK'
  BY <1>2, <1>3, <1>4, LockTyped DEF LockInv, LockTypeOK
<1> QED
  BY <1>1, <1>2, <1>3, <1>4, <1>5 DEF LockInv, Layers, Masks, Holder, InWith

\* An exception: from EL0 or from an EL1 that has not masked it, from the
\* owner of the lock whose write faults, or inside a handler, which is then
\* reported as nested.
LEMMA DispatchKeepsLock ==
  ASSUME LockInv, NEW k \in Handlers, exception_dispatch(k),
         \/ Depth = 1 /\ Bottom.pc \in {"run", "masking", "el0"}
         \/ Depth = 1 /\ Bottom.pc = "owner" /\ k = "fault"
         \/ Depth = 2
  PROVE  LockInv' /\ Bottom' = Bottom
<1> DEFINE c == Context(IF oops THEN "nested" ELSE k, masked)
<1>1. masked \in SUBSET Interrupts /\ (IF oops THEN "nested" ELSE k) \in Places
  BY DEF LockInv, LockTypeOK, Places, Stopped
<1>2. /\ c \in Contexts /\ c.pc = (IF oops THEN "nested" ELSE k) /\ c.spsr = masked
      /\ ctx' = Append(ctx, c) /\ oops' = TRUE /\ masked' = Interrupts /\ locked' = locked
  BY <1>1, ContextFacts DEF exception_dispatch
<1> HIDE DEF c
<1>3. /\ ctx' \in Seq(Contexts) /\ Depth' = Depth + 1 /\ Bottom' = Bottom
      /\ Depth = 1 => ctx'[2] = c
      /\ Depth = 2 => ctx'[2] = ctx[2] /\ ctx'[3] = c
  BY <1>2, PushFacts DEF LockInv
<1>4. LockTypeOK'
  BY <1>2, <1>3, LockTyped DEF LockInv, LockTypeOK
<1>7. /\ oops => c.pc \in Stopped
      /\ ~oops => c.pc \in Handlers
  BY <1>2 DEF Stopped
<1>5. CASE Depth = 1
  <2>0. c.pc \in Handlers \cup Stopped
    BY <1>7
  <2>1. Depth' = 2 /\ ctx'[2] = c /\ c.pc \in Handlers \cup Stopped
    BY <1>3, <1>5, <2>0
  <2>2. Layers'
    BY <1>3, <2>1 DEF LockInv, Layers
  <2>3. Bottom.pc # "el0" => "F" \in masked
    BY <1>5 DEF LockInv, Masks, Interrupts
  <2>4. Masks'
    BY <1>2, <1>3, <2>1, <2>3 DEF Masks
  <2>5. Holder'
    BY <1>2, <1>3, <1>5, <2>1 DEF LockInv, Holder, InWith, Stopped
  <2> QED
    BY <1>3, <1>4, <2>2, <2>4, <2>5 DEF LockInv
<1>6. CASE Depth = 2
  <2>1. Depth' = 3 /\ ctx'[2] = ctx[2] /\ ctx'[3] = c /\ c.pc \in Stopped
    <3>1. c.pc \in Stopped
      BY <1>6, <1>7 DEF LockInv, Masks
    <3> QED
      BY <1>3, <1>6, <3>1
  <2>2. Layers'
    BY <1>3, <1>6, <2>1 DEF LockInv, Layers
  <2>3. Masks'
    BY <1>2, <1>3, <1>6, <2>1 DEF LockInv, Masks
  <2>4. Holder'
    BY <1>2, <1>3, <1>6, <2>1 DEF LockInv, Holder
  <2> QED
    BY <1>3, <1>4, <2>2, <2>3, <2>4 DEF LockInv
<1> QED
  BY <1>5, <1>6

\* A handler that is on top is the second context.
LEMMA HandlerDepth ==
  ASSUME LockInv, Top.pc \in Handlers
  PROVE  Depth = 2 /\ Top = ctx[2] /\ Top \in Contexts
BY TopFacts DEF LockInv, Layers, InWith, Handlers, Stopped

\* The way back from a handler puts the mask of what it interrupted back.
LEMMA ReturnKeepsLock ==
  ASSUME LockInv, Top.pc \in Handlers \ {"fault"}, exception_return
  PROVE  LockInv' /\ Bottom' = Bottom /\ Depth' = 1
<1>1. Depth = 2 /\ Top = ctx[2] /\ Top \in Contexts
  BY HandlerDepth
<1>2. /\ ctx' = Below /\ oops' = FALSE /\ masked' = ctx[2].spsr /\ locked' = locked
      /\ ctx[2].spsr \subseteq Interrupts
  BY <1>1 DEF exception_return, Contexts
<1>3. ctx' \in Seq(Contexts) /\ Depth' = 1 /\ Bottom' = Bottom
  BY <1>1, <1>2, PopFacts DEF LockInv
<1>4. Bottom.pc \in {"run", "masking", "el0"}
  BY <1>1 DEF LockInv, Layers, Holder, Handlers, Stopped, InWith
<1>5. LockTypeOK'
  <2>1. locked' \in BOOLEAN /\ oops' \in BOOLEAN
    BY <1>2 DEF LockInv, LockTypeOK
  <2>2. masked' \subseteq Interrupts /\ Depth' \in 1 .. 3
    BY <1>2, <1>3
  <2> QED
    BY <1>3, <2>1, <2>2, LockTyped
<1> QED
  BY <1>1, <1>2, <1>3, <1>4, <1>5 DEF LockInv, Layers, Masks, Holder

\* A handler or a report goes on to its next place.
LEMMA HandlerGoesOn ==
  ASSUME LockInv, Top.pc \in Handlers \cup {"nested"}, NEW c \in Contexts, Goto(c),
         c.spsr = Top.spsr, UNCHANGED <<locked, oops, masked>>,
         \/ c.pc \in Stopped
         \/ Top.pc \in Handlers \ {"fault"} /\ c.pc \in Handlers
  PROVE  LockInv' /\ Bottom' = Bottom
<1>1. /\ Depth \in {2, 3} /\ Top \in Contexts /\ Bottom' = Bottom /\ Depth' = Depth
      /\ ctx' \in Seq(Contexts)
      /\ Depth = 2 => Top = ctx[2] /\ ctx'[2] = c
      /\ Depth = 3 => Top = ctx[3] /\ ctx'[2] = ctx[2] /\ ctx'[3] = c
  BY TopFacts, GotoFacts DEF LockInv, Layers, InWith, Handlers, Stopped
<1>2. LockTypeOK'
  <2>1. Depth' \in 1 .. 3
    BY <1>1
  <2>2. locked' \in BOOLEAN /\ oops' \in BOOLEAN /\ masked' \subseteq Interrupts
    BY DEF LockInv, LockTypeOK
  <2> QED
    BY <1>1, <2>1, <2>2, LockTyped
<1>3. CASE Depth = 3
  <2>1. c.pc \in Stopped
    BY <1>1, <1>3 DEF LockInv, Layers, Handlers, Stopped
  <2> QED
    BY <1>1, <1>2, <1>3, <2>1 DEF LockInv, Layers, Masks, Holder
<1>4. CASE Depth = 2
  <2>1. Layers' /\ Masks'
    BY <1>1, <1>4 DEF LockInv, Layers, Masks
  <2>2. Holder'
    BY <1>1, <1>4 DEF LockInv, Holder, Handlers, Stopped
  <2> QED
    BY <1>1, <1>2, <2>1, <2>2 DEF LockInv
<1> QED
  BY <1>1, <1>3, <1>4

LEMMA RunFacts ==
  ASSUME LockInv, At("run")
  PROVE  Depth = 1 /\ Bottom.pc = "run" /\ Top = Bottom
BY TopFacts DEF LockInv, Layers, At, Handlers, Stopped

(***************************************************************************)
(* Which stage goes with which tables, session and devicetree.             *)
(***************************************************************************)
Order ==
  /\ stage \in Stages
  /\ stage = "entry" <=> ~Built
  /\ stage \notin {"entry", "kmain"} => ttbr0 # L0
  /\ stage \notin {"entry", "kmain", "installed", "leave"} /\ Bottom.pc # "el0" =>
       ttbr0 = EmptyRoot

Session ==
  /\ live \subseteq Slots
  /\ stage \notin {"monitor", "spawn", "installed", "leave"} => live = {}
  /\ \A s \in live : Wired(s)
  /\ Bottom.pc = "el0" => stage = "monitor"
  /\ Bottom.pc \in InWith => stage \in DOMAIN After

WithTree == {"parse", "parsed", "select", "uart_failed", "init_aic", "aic_failed", "init_fb"}

Handed ==
  /\ blob \in Blobs \cup {NoBlob}
  /\ stage \in WithTree \/ (stage \in {"selected", "init"} /\ kind = "Apple") => blob \in Blobs

Rest ==
  /\ kind \in {"Virt", "Apple"}
  /\ uart_base \in {<<>>} \cup Page
  /\ aic \in BOOLEAN /\ fb \in BOOLEAN
  /\ call \in Calls \cup {NoCall}

PInv == LockInv /\ TimerTypeOK /\ TInv /\ UInv /\ Order /\ Session /\ Handed /\ Rest

LEMMA AfterFacts ==
  /\ DOMAIN After = {"banner", "parsed", "selected", "uart_failed", "aic_failed", "fb_said",
                     "inited", "monitor", "installed"}
  /\ After["banner"] = "handoff" /\ After["parsed"] = "select"
  /\ After["selected"] = "init" /\ After["uart_failed"] = "init_aic"
  /\ After["aic_failed"] = "init_fb" /\ After["fb_said"] = "inited"
  /\ After["inited"] = "monitor" /\ After["monitor"] = "monitor"
  /\ After["installed"] = "leave"
BY DEF After

LEMMA StageNames ==
  Stages = {"banner", "parsed", "selected", "uart_failed", "aic_failed", "fb_said", "inited",
            "monitor", "installed", "entry", "kmain", "handoff", "parse", "select", "init",
            "init_aic", "init_fb", "spawn", "leave"}
BY AfterFacts DEF Stages

LEMMA NowWired ==
  ASSUME TInv, NEW s \in Slots, wire_user_tables(s)
  PROVE  Wired(s)'
<1>1. pt'[UserL0(s)] = [pt[UserL0(s)] EXCEPT ![0] = table_desc(UserL1(s))]
  BY WireWrites
<1>2. pt[UserL0(s)] \in [Idx -> Desc] /\ 0 \in Idx /\ table_desc(UserL1(s)) # Invalid
  BY UserNames, DescFacts, TablesAssumption DEF TInv, TablesTypeOK
<1> QED
  BY <1>1, <1>2 DEF Wired

\* What every step that the tables allow leaves true.
LEMMA TablesMove ==
  ASSUME TInv, UInv, [TablesNext]_tableVars
  PROVE  /\ TInv' /\ UInv'
         /\ Built => Built'
         /\ \A s \in Slots : Wired(s) => Wired(s)'
<1>1. TInv' /\ UInv'
  BY TNext, UNext
<1>3. CASE ~Built /\ opal_build_tables
  <2>2. ASSUME NEW s \in Slots PROVE ~Wired(s)
    <3>1. pt[UserL0(s)] = AllInvalid
      BY <1>3, UserNames DEF TInv, NotBuilt
    <3> QED
      BY <3>1, TablesAssumption DEF Wired, AllInvalid
  <2> QED
    BY <1>1, <1>3, <2>2
<1>4. CASE pt' = pt
  BY <1>1, <1>4 DEF Built, Wired
<1>5. CASE MapDevice
  <2>1. PICK p \in DevicePages :
          \/ \E attr \in {"Device", "Framebuffer"} : ioremap_ok(p, attr)
          \/ ioremap_err(p)
    BY <1>5 DEF MapDevice
  <2>2. Built /\ Built'
    BY <1>5, <2>1, BuiltUnlessRoot, TMap DEF MapDevice
  <2>3. ASSUME NEW s \in Slots PROVE pt'[UserL0(s)] = pt[UserL0(s)]
    BY <2>1, <2>2, MapSides, UserNames
  <2> QED
    BY <1>1, <2>2, <2>3 DEF Wired
<1>6. ASSUME NEW s \in Slots, ttbr0 = EmptyRoot, wire_user_tables(s)
      PROVE  Built' /\ \A r \in Slots : Wired(r) => Wired(r)'
  <2>1. Built /\ Built'
    BY <1>6, BuiltUnlessRoot, Names, TWire
  <2>2. Wired(s)'
    BY <1>6, NowWired
  <2>3. ASSUME NEW r \in Slots, r # s PROVE pt'[UserL0(r)] = pt[UserL0(r)]
    <3>1. UserL0(r) \in Tables \ {UserL0(s), UserL1(s), UserL2(s), UserL3(s)}
      BY <2>3, UserNames DEF UserL0, UserL1, UserL2, UserL3
    <3> QED
      BY <1>6, <3>1, WireWrites
  <2> QED
    BY <2>1, <2>2, <2>3 DEF Wired
<1> QED
  BY <1>1, <1>3, <1>4, <1>5, <1>6 DEF TablesNext, tableVars, condemn_low_half, set_user_ttbr0

\* A step of the lock, a handler or the timer, with stage, tables, board and
\* session as they were.
LEMMA Elsewhere ==
  ASSUME PInv, LockInv', TimerTypeOK', UNCHANGED <<tableVars, stage, boardVars, live>>,
         call' \in Calls \cup {NoCall},
         \/ Bottom'.pc = Bottom.pc
         \/ Bottom.pc # "el0" /\ Bottom'.pc # "el0" /\ stage \in DOMAIN After
  PROVE  PInv' /\ [TablesNext]_tableVars
<1>1. [TablesNext]_tableVars
  OBVIOUS
<1>2. TInv' /\ UInv'
  BY <1>1, TablesMove DEF PInv
<1>3. Order'
  BY DEF PInv, Order, tableVars, Built
<1>4. Session'
  BY DEF PInv, Session, tableVars, Wired
<1>5. Handed' /\ Rest'
  BY DEF PInv, Handed, Rest, boardVars
<1> QED
  BY <1>1, <1>2, <1>3, <1>4, <1>5 DEF PInv

\* A handler that may have switched to another task of the session.
LEMMA SwitchStep ==
  ASSUME PInv, Depth = 2, MaySwitch, LockInv', TimerTypeOK', Bottom' = Bottom,
         UNCHANGED <<stage, boardVars, live>>, call' \in Calls \cup {NoCall}
  PROVE  PInv' /\ [TablesNext]_tableVars
<1>1. CASE UNCHANGED tableVars
  BY <1>1, Elsewhere
<1>2. ASSUME NEW s \in live, FromEL0, set_user_ttbr0(s)
      PROVE  PInv' /\ [TablesNext]_tableVars
  <2>1. Bottom.pc = "el0" /\ stage = "monitor" /\ s \in Slots /\ Wired(s) /\ ttbr0 # L0
    BY <1>2 DEF FromEL0, Depth, Bottom, PInv, Session, Order
  <2>2. [TablesNext]_tableVars
    BY <1>2, <2>1 DEF TablesNext
  <2>3. pt' = pt /\ ttbr0' = UserL0(s) /\ ttbr0' # L0
    BY <1>2, <2>1, UserNames, Names DEF set_user_ttbr0, KernelTables
  <2>4. Order'
    BY <2>1, <2>3 DEF PInv, Order, Built
  <2>5. Session'
    BY <2>1, <2>3 DEF PInv, Session, Wired
  <2>6. Handed' /\ Rest'
    BY DEF PInv, Handed, Rest, boardVars
  <2> QED
    BY <2>2, <2>4, <2>5, <2>6, TablesMove DEF PInv
<1> QED
  BY <1>1, <1>2 DEF MaySwitch

\* A step of kmain, a board or a monitor command. Only the kernel's own
\* context is there, and the lock is not touched.
LEMMA KernelStep ==
  ASSUME PInv, Bottom.pc = "run", Bottom'.pc = "run", LockInv', TimerTypeOK',
         [TablesNext]_tableVars, ttbr0' \in {ttbr0, EmptyRoot},
         stage # "entry" \/ Built',
         stage' \in Stages \ {"entry", "kmain"} \/ (stage = "entry" /\ stage' = "kmain"),
         stage \in {"entry", "kmain"} => ttbr0' = EmptyRoot \/ stage' = "kmain",
         stage \in {"installed", "leave"} => stage' \in {"installed", "leave"},
         stage \in {"monitor", "spawn", "installed", "leave"} =>
           stage' \in {"monitor", "spawn", "installed", "leave"},
         live' \subseteq Slots, \A s \in live' : s \in live \/ Wired(s)',
         live' = live \/ stage' \in {"monitor", "spawn", "installed", "leave"},
         Handed', Rest'
  PROVE  PInv' /\ [TablesNext]_tableVars
<1>1. TInv' /\ UInv' /\ (Built => Built') /\ \A s \in Slots : Wired(s) => Wired(s)'
  BY TablesMove DEF PInv
<1>2. EmptyRoot # L0
  BY Names
<1>3. Order'
  BY <1>1, <1>2, StageNames DEF PInv, Order
<1>4. Session'
  <2>1. \A s \in live' : Wired(s)'
    BY <1>1 DEF PInv, Session
  <2>2. stage' \notin {"monitor", "spawn", "installed", "leave"} => live' = {}
    BY DEF PInv, Session
  <2> QED
    BY <2>1, <2>2 DEF Session, InWith
<1> QED
  BY <1>1, <1>3, <1>4 DEF PInv

(***************************************************************************)
(* The steps, one by one.                                                  *)
(***************************************************************************)
LEMMA TimerStays == TimerTypeOK /\ UNCHANGED timerVars => TimerTypeOK'
BY DEF TimerTypeOK, timerVars

LEMMA PrintStep ==
  ASSUME PInv, StartPrint \/ EnterCriticalSection \/ Render
  PROVE  PInv' /\ [TablesNext]_tableVars
<1>1. /\ LockInv /\ TimerTypeOK' /\ UNCHANGED <<tableVars, stage, boardVars, live>>
      /\ call' \in Calls \cup {NoCall}
  BY TimerStays DEF PInv, Rest, StartPrint, EnterCriticalSection, Render, userVars
<1>2. CASE StartPrint
  <2>1. LockInv' /\ Bottom'.pc # "el0" /\ Bottom.pc = "run"
    BY <1>1, <1>2, PrintKeepsLock DEF StartPrint
  <2>2. stage \in DOMAIN After
    <3>1. Top = Bottom
      BY <1>1, <1>2, <2>1, TopFacts DEF StartPrint, console_print, LockInv, Masks
    <3> QED
      BY <1>2, <2>1, <3>1 DEF StartPrint, At
  <2> QED
    BY <1>1, <2>1, <2>2, Elsewhere
<1>3. CASE EnterCriticalSection
  <2>1. LockInv' /\ Bottom'.pc # "el0" /\ Bottom.pc \in InWith
    BY <1>1, <1>3, MaskKeepsLock, CriticalKeepsLock DEF EnterCriticalSection
  <2>2. stage \in DOMAIN After /\ Bottom.pc # "el0"
    BY <2>1 DEF PInv, Session, InWith
  <2> QED
    BY <1>1, <2>1, <2>2, Elsewhere
<1>4. CASE Render /\ write_fmt
  <2>1. LockInv' /\ Bottom'.pc # "el0" /\ Bottom.pc \in InWith
    BY <1>1, <1>4, CriticalKeepsLock
  <2>2. stage \in DOMAIN After /\ Bottom.pc # "el0"
    BY <2>1 DEF PInv, Session, InWith
  <2> QED
    BY <1>1, <2>1, <2>2, Elsewhere
<1>5. CASE Render /\ At("owner") /\ exception_dispatch("fault")
  <2>1. Depth = 1 /\ Bottom.pc = "owner"
    BY <1>1, <1>5, WithinDepth DEF At, InWith
  <2>2. LockInv' /\ Bottom' = Bottom
    BY <1>1, <1>5, <2>1, DispatchKeepsLock DEF Handlers
  <2> QED
    BY <1>1, <2>2, Elsewhere
<1> QED
  BY <1>2, <1>3, <1>4, <1>5 DEF Render

\* The message is out: the kernel goes on where it printed.
LEMMA PrintedStep ==
  ASSUME PInv, LockInv', Bottom.pc \in InWith \/ Bottom.pc = "run", Bottom'.pc = "run",
         stage \in DOMAIN After, stage' = After[stage],
         UNCHANGED <<timerVars, tableVars, boardVars, userVars>>
  PROVE  PInv' /\ [TablesNext]_tableVars
<1>1. TimerTypeOK' /\ [TablesNext]_tableVars /\ TInv' /\ UInv'
  BY TimerStays, TablesMove DEF PInv
<1>2. Bottom.pc # "el0"
  BY DEF InWith
<1>3. /\ stage \notin {"entry", "kmain", "leave"}
      /\ stage' \notin {"entry", "kmain", "spawn", "installed"} /\ stage' \in Stages
      /\ stage' = "leave" <=> stage = "installed"
      /\ stage' = "monitor" <=> stage \in {"inited", "monitor"}
      /\ stage' \in WithTree => stage \in WithTree
      /\ stage' \notin {"selected"} /\ (stage' = "init" => stage = "selected")
  BY AfterFacts, StageNames DEF WithTree
<1>4. Order'
  BY <1>2, <1>3 DEF PInv, Order, tableVars, Built
<1>5. Session'
  <2>1. live' = live /\ pt' = pt
    BY DEF userVars, tableVars
  <2>2. stage' \notin {"monitor", "spawn", "installed", "leave"} => live = {}
    BY <1>3, AfterFacts DEF PInv, Session
  <2> QED
    BY <2>1, <2>2 DEF PInv, Session, Wired, InWith
<1>6. Handed' /\ Rest'
  BY <1>3 DEF PInv, Handed, Rest, boardVars, userVars
<1> QED
  BY <1>1, <1>4, <1>5, <1>6 DEF PInv

LEMMA PrintEnds ==
  ASSUME PInv, LeaveCriticalSection \/ PrintUnlocked
  PROVE  PInv' /\ [TablesNext]_tableVars
<1>1. CASE LeaveCriticalSection /\ release
  <2>1. LockInv' /\ Bottom'.pc # "el0" /\ Bottom.pc \in InWith
    BY <1>1, CriticalKeepsLock DEF PInv
  <2>2. stage \in DOMAIN After /\ Bottom.pc # "el0"
    BY <2>1 DEF PInv, Session, InWith
  <2>3. /\ TimerTypeOK' /\ UNCHANGED <<tableVars, stage, boardVars, live>>
        /\ call' \in Calls \cup {NoCall}
    <3>1. UNCHANGED <<timerVars, tableVars, boardVars, userVars>>
      BY <1>1 DEF LeaveCriticalSection
    <3>2. UNCHANGED stage
      <4>1. At("written")
        BY <1>1 DEF release
      <4>2. ~daif_restore
        BY <4>1 DEF daif_restore, At
      <4> QED
        BY <1>1, <4>2 DEF LeaveCriticalSection
    <3> QED
      BY <3>1, <3>2, TimerStays DEF PInv, Rest, userVars
  <2> QED
    BY <2>1, <2>2, <2>3, Elsewhere
<1>2. CASE LeaveCriticalSection /\ daif_restore
  <2>1. /\ LockInv' /\ Top.caller = "run" /\ Bottom'.pc = "run" /\ Bottom.pc = "released"
    BY <1>2, RestoreKeepsLock DEF PInv
  <2>2. Bottom.pc \in InWith /\ stage \in DOMAIN After
    BY <2>1 DEF PInv, Session, InWith
  <2>3. /\ stage' = After[stage]
        /\ UNCHANGED <<timerVars, tableVars, boardVars, userVars>>
    <3>1. ~release
      BY <1>2 DEF daif_restore, release, At
    <3> QED
      BY <1>2, <2>1, <3>1 DEF LeaveCriticalSection
  <2> QED
    BY <2>1, <2>2, <2>3, PrintedStep
<1>3. CASE PrintUnlocked
  <2>1. Bottom.pc = "run" /\ LockInv' /\ Bottom'.pc = "run"
    BY <1>3, RunFacts, LockStays DEF PrintUnlocked, PInv, lockVars, Bottom
  <2> QED
    BY <1>3, <2>1, PrintedStep DEF PrintUnlocked
<1> QED
  BY <1>1, <1>2, <1>3 DEF LeaveCriticalSection

LEMMA ReportStep ==
  ASSUME PInv, Report
  PROVE  PInv' /\ [TablesNext]_tableVars
<1>1. /\ TimerTypeOK' /\ UNCHANGED <<tableVars, stage, boardVars, live>>
      /\ call' \in Calls \cup {NoCall}
  BY TimerStays DEF PInv, Rest, Report, userVars
<1>2. CASE die
  <2> DEFINE c == [Top EXCEPT !.pc = "parked"]
  <2>1. Top \in Contexts /\ Top.pc \in Handlers \cup {"nested"}
    BY <1>2, TopFacts DEF PInv, LockInv, die, Handlers
  <2>2. c \in Contexts /\ c.pc \in Stopped /\ c.spsr = Top.spsr
    BY <2>1 DEF Contexts, Places, Stopped
  <2>3. Goto(c) /\ UNCHANGED <<locked, oops, masked>>
    BY <1>2 DEF die
  <2> HIDE DEF c
  <2>4. LockInv' /\ Bottom' = Bottom
    BY <2>1, <2>2, <2>3, HandlerGoesOn DEF PInv
  <2> QED
    BY <1>1, <2>4, Elsewhere
<1>3. CASE At("fault") /\ exception_dispatch("fault")
  <2>1. Depth = 2 /\ "fault" \in Handlers
    BY <1>3, HandlerDepth DEF PInv, At, Handlers
  <2>2. LockInv' /\ Bottom' = Bottom
    BY <1>3, <2>1, DispatchKeepsLock DEF PInv
  <2> QED
    BY <1>1, <2>2, Elsewhere
<1>4. CASE /\ At("nested") /\ Goto(Context("wedged", Top.spsr))
           /\ UNCHANGED <<locked, oops, masked>>
  <2> DEFINE c == Context("wedged", Top.spsr)
  <2>1. Top \in Contexts /\ Top.pc \in Handlers \cup {"nested"}
    BY <1>4, TopFacts DEF PInv, LockInv, At
  <2>2. c \in Contexts /\ c.pc \in Stopped /\ c.spsr = Top.spsr
    BY <2>1, ContextFacts DEF Contexts, Places, Stopped
  <2> HIDE DEF c
  <2>3. LockInv' /\ Bottom' = Bottom
    BY <1>4, <2>1, <2>2, HandlerGoesOn DEF PInv, c
  <2> QED
    BY <1>1, <2>3, Elsewhere
<1> QED
  BY <1>2, <1>3, <1>4 DEF Report

\* Where an exception may come from.
LEMMA UserDepth ==
  ASSUME LockInv, At("el0")
  PROVE  Depth = 1 /\ Bottom.pc = "el0"
BY TopFacts DEF LockInv, Layers, At, Handlers, Stopped

LEMMA UnmaskedDepth ==
  ASSUME LockInv, NEW i \in Interrupts, i \notin masked
  PROVE  Depth = 1 /\ Bottom.pc \in {"run", "masking", "el0"}
<1>1. Depth = 1
  BY TopFacts DEF LockInv, Masks
<1> QED
  BY <1>1 DEF LockInv, Layers, Masks, InWith

LEMMA ExceptionStep ==
  ASSUME PInv, svc \/ user_fault \/ copy_fault \/ TakeIrq \/ TakeFiq \/ Fault_command
  PROVE  PInv' /\ [TablesNext]_tableVars
<1>1. /\ TimerTypeOK' /\ UNCHANGED <<tableVars, stage, boardVars, live>>
      /\ call' \in Calls \cup {NoCall}
  BY TimerStays DEF PInv, Rest, svc, user_fault, copy_fault, TakeIrq, TakeFiq, Fault_command,
       userVars
<1>2. ASSUME svc \/ user_fault PROVE LockInv' /\ Bottom' = Bottom
  <2>1. At("el0") /\ exception_dispatch("sync")
    BY <1>2 DEF svc, user_fault
  <2> QED
    BY <2>1, UserDepth, DispatchKeepsLock DEF PInv, Handlers
<1>3. ASSUME copy_fault PROVE LockInv' /\ Bottom' = Bottom
  <2>1. Depth = 2 /\ exception_dispatch("fault")
    BY <1>3, HandlerDepth DEF copy_fault, PInv, At, Handlers
  <2> QED
    BY <2>1, DispatchKeepsLock DEF PInv, Handlers
<1>4. ASSUME TakeIrq PROVE LockInv' /\ Bottom' = Bottom
  <2>1. "I" \in Interrupts /\ "I" \notin masked /\ exception_dispatch("irq")
    BY <1>4 DEF TakeIrq, Interrupts
  <2> QED
    BY <2>1, UnmaskedDepth, DispatchKeepsLock DEF PInv, Handlers
<1>5. ASSUME TakeFiq PROVE LockInv' /\ Bottom' = Bottom
  <2>1. "F" \in Interrupts /\ "F" \notin masked /\ exception_dispatch("fiq")
    BY <1>5 DEF TakeFiq, Interrupts
  <2> QED
    BY <2>1, UnmaskedDepth, DispatchKeepsLock DEF PInv, Handlers
<1>6. ASSUME Fault_command PROVE LockInv' /\ Bottom' = Bottom
  <2>1. Depth = 1 /\ Bottom.pc = "run"
    BY <1>6, RunFacts DEF Fault_command, Run, PInv
  <2>2. PICK k \in {"sync", "fault"} : exception_dispatch(k)
    BY <1>6 DEF Fault_command
  <2> QED
    BY <2>1, <2>2, DispatchKeepsLock DEF PInv, Handlers
<1> QED
  BY <1>1, <1>2, <1>3, <1>4, <1>5, <1>6, Elsewhere

LEMMA TimerSteps ==
  ASSUME TimerTypeOK, \/ acknowledge_and_tick \/ end_interrupt \/ (Tick /\ UNCHANGED <<gic, ppi>>)
                      \/ arm \/ disable \/ gic_init \/ CounterReaches
  PROVE  TimerTypeOK'
<1>1. ASSUME Tick, gic' = gic, ppi' \subseteq {"pending", "active"} PROVE TimerTypeOK'
  <2>1. (ticks + 1) % TickWrap \in 0 .. TickWrap - 1
    BY DEF TimerTypeOK, TickWrap
  <2> QED
    BY <1>1, <2>1 DEF TimerTypeOK, Tick
<1>2. ASSUME acknowledge_and_tick PROVE TimerTypeOK'
  BY <1>1, <1>2 DEF acknowledge_and_tick
<1>3. ASSUME Tick, UNCHANGED <<gic, ppi>> PROVE TimerTypeOK'
  BY <1>1, <1>3 DEF TimerTypeOK
<1>4. ASSUME end_interrupt \/ arm \/ disable \/ gic_init PROVE TimerTypeOK'
  BY <1>4 DEF TimerTypeOK, end_interrupt, arm, disable, gic_init
<1>5. ASSUME CounterReaches PROVE TimerTypeOK'
  BY <1>5 DEF TimerTypeOK, CounterReaches
<1> QED
  BY <1>2, <1>3, <1>4, <1>5

LEMMA HandlerStep ==
  ASSUME PInv, handle_irq \/ irq_end \/ handle_fiq \/ sync_end
  PROVE  PInv' /\ [TablesNext]_tableVars
<1>1. CASE handle_irq
  <2> DEFINE c == Context("eoi", Top.spsr)
  <2>1. Depth = 2 /\ Top \in Contexts /\ Top.pc = "irq"
    BY <1>1, HandlerDepth DEF handle_irq, At, PInv, Handlers
  <2>2. c \in Contexts /\ c.pc = "eoi" /\ c.spsr = Top.spsr
    BY <2>1, ContextFacts DEF Contexts, Places, Handlers
  <2>3. Goto(c) /\ UNCHANGED <<locked, oops, masked>>
    BY <1>1 DEF handle_irq
  <2> HIDE DEF c
  <2>4. LockInv' /\ Bottom' = Bottom
    BY <2>1, <2>2, <2>3, HandlerGoesOn DEF PInv, Handlers
  <2>5. TimerTypeOK' /\ MaySwitch /\ UNCHANGED <<stage, boardVars, userVars>>
    BY <1>1, TimerSteps DEF handle_irq, PInv
  <2> QED
    BY <2>1, <2>4, <2>5, SwitchStep DEF userVars, PInv, Rest
<1>2. CASE irq_end
  <2>1. LockInv' /\ Bottom' = Bottom
    BY <1>2, ReturnKeepsLock DEF irq_end, At, PInv, Handlers
  <2>2. TimerTypeOK' /\ UNCHANGED <<tableVars, stage, boardVars, userVars>>
    BY <1>2, TimerSteps DEF irq_end, PInv
  <2> QED
    BY <2>1, <2>2, Elsewhere DEF userVars, PInv, Rest
<1>3. CASE handle_fiq
  <2>1. LockInv' /\ Bottom' = Bottom /\ Depth = 2
    BY <1>3, ReturnKeepsLock, HandlerDepth DEF handle_fiq, At, PInv, Handlers
  <2>2. TimerTypeOK' /\ MaySwitch /\ UNCHANGED <<stage, boardVars, userVars>>
    BY <1>3, TimerSteps, TimerStays DEF handle_fiq, MaySwitch, PInv
  <2> QED
    BY <2>1, <2>2, SwitchStep DEF userVars, PInv, Rest
<1>4. CASE sync_end
  <2>1. LockInv' /\ Bottom' = Bottom /\ Depth = 2
    BY <1>4, ReturnKeepsLock, HandlerDepth DEF sync_end, At, PInv, Handlers
  <2>2. /\ TimerTypeOK' /\ MaySwitch /\ UNCHANGED <<stage, boardVars, live>>
        /\ call' \in Calls \cup {NoCall}
    BY <1>4, TimerStays DEF sync_end, PInv
  <2> QED
    BY <2>1, <2>2, SwitchStep
<1> QED
  BY <1>1, <1>2, <1>3, <1>4

\* What a step of kmain or of the monitor starts from.
LEMMA KernelRuns ==
  ASSUME PInv, NEW s, Run(s), UNCHANGED lockVars
  PROVE  Bottom.pc = "run" /\ Bottom'.pc = "run" /\ LockInv' /\ stage = s
BY RunFacts, LockStays DEF PInv, Run, lockVars, Bottom

LEMMA BootStubStep ==
  ASSUME PInv, boot_stub
  PROVE  PInv' /\ [TablesNext]_tableVars
<1>1. Bottom.pc = "run" /\ Bottom'.pc = "run" /\ LockInv' /\ stage = "entry"
  BY KernelRuns DEF boot_stub
<1>2. ~Built /\ opal_build_tables /\ Built'
  BY <1>1, TBoot DEF PInv, Order, boot_stub
<1>3. [TablesNext]_tableVars /\ ttbr0' = ttbr0
  BY <1>2 DEF TablesNext, opal_build_tables
<1>4. /\ stage' = "kmain" /\ UNCHANGED <<timerVars, boardVars, userVars>> /\ TimerTypeOK'
  BY TimerStays DEF boot_stub, PInv
<1>5. Handed' /\ Rest'
  BY <1>1, <1>4 DEF PInv, Handed, Rest, boardVars, userVars, WithTree
<1>6. live' = live /\ live \subseteq Slots
  BY <1>4 DEF PInv, Session, userVars
<1> QED
  BY <1>1, <1>2, <1>3, <1>4, <1>5, <1>6, KernelStep

LEMMA KmainStep ==
  ASSUME PInv, kmain
  PROVE  PInv' /\ [TablesNext]_tableVars
<1>1. Bottom.pc = "run" /\ Bottom'.pc = "run" /\ LockInv' /\ stage = "kmain"
  BY KernelRuns DEF kmain
<1>2. Built /\ [TablesNext]_tableVars /\ ttbr0' = EmptyRoot
  BY <1>1 DEF PInv, Order, kmain, TablesNext, condemn_low_half
<1>3. /\ stage' = "banner" /\ UNCHANGED <<timerVars, boardVars, userVars>> /\ TimerTypeOK'
      /\ stage' \in Stages
  BY TimerStays, StageNames DEF kmain, PInv
<1>4. Handed' /\ Rest'
  BY <1>1, <1>3 DEF PInv, Handed, Rest, boardVars, userVars, WithTree
<1>5. live' = live /\ live \subseteq Slots
  BY <1>3 DEF PInv, Session, userVars
<1> QED
  BY <1>1, <1>2, <1>3, <1>4, <1>5, KernelStep

\* From the banner to the board's init nothing is mapped.
LEMMA SelectStep ==
  ASSUME PInv, fdt_at \/ parse \/ set_board_kind \/ set_uart_base \/ virt_init
  PROVE  PInv' /\ [TablesNext]_tableVars
<1>1. /\ Bottom.pc = "run" /\ Bottom'.pc = "run" /\ LockInv'
      /\ stage \in {"handoff", "parse", "select", "selected", "init"}
  BY KernelRuns DEF fdt_at, parse, set_board_kind, set_uart_base, virt_init
<1>2. UNCHANGED <<tableVars, userVars, aic, fb>>
  BY DEF fdt_at, parse, set_board_kind, set_uart_base, virt_init, boardVars
<1>3. TimerTypeOK'
  BY TimerStays, TimerSteps DEF fdt_at, parse, set_board_kind, set_uart_base, virt_init, PInv
<1>4. stage' \in Stages \ {"entry", "kmain"}
  BY <1>1, StageNames DEF fdt_at, parse, set_board_kind, set_uart_base, virt_init
<1>5. Handed'
  <2>1. CASE fdt_at
    BY <2>1 DEF fdt_at, Handed, WithTree, PInv
  <2>2. CASE parse
    <3>1. blob \in Blobs
      BY <2>2 DEF parse, Run, PInv, Handed, WithTree
    <3> QED
      BY <2>2, <3>1 DEF parse, Handed, WithTree
  <2>3. CASE set_board_kind
    <3>1. blob \in Blobs
      BY <2>3 DEF set_board_kind, Run, PInv, Handed, WithTree
    <3> QED
      BY <2>3, <3>1 DEF set_board_kind, Handed, WithTree
  <2>4. CASE virt_init
    BY <2>4 DEF virt_init, PInv, Handed, boardVars, WithTree
  <2>5. CASE set_uart_base
    BY <2>5 DEF set_uart_base, PInv, Handed, WithTree
  <2> QED
    BY <2>1, <2>2, <2>3, <2>4, <2>5
<1>6. Rest'
  <2>1. kind' \in {"Virt", "Apple"}
    BY DEF fdt_at, parse, set_board_kind, set_uart_base, virt_init, PInv, Rest, boardVars, which
  <2>2. uart_base' \in {<<>>} \cup Page
    BY PlatformAssumption DEF fdt_at, parse, set_board_kind, set_uart_base, virt_init, PInv, Rest, boardVars
  <2> QED
    BY <1>2, <2>1, <2>2 DEF PInv, Rest, userVars
<1>7. Built' /\ [TablesNext]_tableVars /\ ttbr0' = ttbr0
  BY <1>1, <1>2 DEF PInv, Order, tableVars, Built
<1>8. live' = live /\ live \subseteq Slots
  BY <1>2 DEF PInv, Session, userVars
<1> QED
  BY <1>1, <1>3, <1>4, <1>5, <1>6, <1>7, <1>8, KernelStep

\* An ioremap of a board or of the monitor.
LEMMA MapKeeps ==
  ASSUME PInv, ttbr0 # L0,
         \/ \E p \in DevicePages :
              \/ \E attr \in {"Device", "Framebuffer"} : ioremap_ok(p, attr)
              \/ ioremap_err(p)
         \/ UNCHANGED tableVars
  PROVE  [TablesNext]_tableVars /\ ttbr0' = ttbr0
<1>1. CASE UNCHANGED tableVars
  BY <1>1 DEF tableVars
<1>2. ASSUME NEW p \in DevicePages,
             \/ \E attr \in {"Device", "Framebuffer"} : ioremap_ok(p, attr)
             \/ ioremap_err(p)
      PROVE  [TablesNext]_tableVars /\ ttbr0' = ttbr0
  <2>1. MapDevice
    BY <1>2 DEF MapDevice
  <2>2. Built
    BY BuiltUnlessRoot DEF PInv
  <2>3. ttbr0' = ttbr0
    BY <1>2, <2>2, TMap DEF PInv
  <2> QED
    BY <2>1, <2>3 DEF TablesNext
<1> QED
  BY <1>1, <1>2

\* The page that a board's init asks for is a device's.
LEMMA RegPages ==
  ASSUME blob \in Blobs, NEW compat \in {S5L_UART, APPLE_AIC, SIMPLE_FB}, Found(compat) # None
  PROVE  RegPage(compat) \in DevicePages /\ RegPage(compat) \in Page
<1>1. RegPage(compat) \in DevicePages
  BY PlatformAssumption DEF RegPage, Found
<1> QED
  BY <1>1, DeviceTypes

LEMMA BoardStep ==
  ASSUME PInv, init_uart \/ init_aic \/ init_from_fdt
  PROVE  PInv' /\ [TablesNext]_tableVars
<1>1. /\ Bottom.pc = "run" /\ Bottom'.pc = "run" /\ LockInv'
      /\ stage \in {"init", "init_aic", "init_fb"}
  BY KernelRuns DEF init_uart, init_aic, init_from_fdt
<1>2. UNCHANGED <<timerVars, userVars, kind>> /\ TimerTypeOK' /\ ttbr0 # L0
  BY <1>1, TimerStays DEF init_uart, init_aic, init_from_fdt, PInv, Order
<1>3. blob \in Blobs
  BY DEF init_uart, init_aic, init_from_fdt, Run, PInv, Handed, WithTree
<1>4. /\ stage' \in {"init_aic", "uart_failed", "init_fb", "aic_failed", "inited", "fb_said"}
      /\ blob' = blob \/ (blob' = NoBlob /\ stage' \in {"inited", "fb_said"})
  BY DEF init_uart, init_aic, init_from_fdt
<1>5. /\ \/ \E p \in DevicePages :
              \/ \E attr \in {"Device", "Framebuffer"} : ioremap_ok(p, attr)
              \/ ioremap_err(p)
         \/ UNCHANGED tableVars
      /\ uart_base' \in {uart_base} \cup Page
      /\ aic' \in {aic, TRUE} /\ fb' \in {fb, TRUE}
  <2>1. CASE init_uart
    BY <1>3, <2>1, RegPages DEF init_uart, StoredBase
  <2>2. CASE init_aic
    BY <1>3, <2>2, RegPages DEF init_aic
  <2>3. CASE init_from_fdt
    BY <1>3, <2>3, RegPages DEF init_from_fdt
  <2> QED
    BY <2>1, <2>2, <2>3
<1>6. [TablesNext]_tableVars /\ ttbr0' = ttbr0
  BY <1>2, <1>5, MapKeeps
<1>7. Handed'
  BY <1>3, <1>4 DEF Handed, WithTree
<1>8. Rest'
  BY <1>2, <1>5 DEF PInv, Rest, userVars
<1>9. live' = live /\ live \subseteq Slots /\ stage' \in Stages
  BY <1>2, <1>4, StageNames DEF PInv, Session, userVars
<1> QED
  BY <1>1, <1>2, <1>4, <1>6, <1>7, <1>8, <1>9, KernelStep

LEMMA CommandStep ==
  ASSUME PInv, mapdev \/ tick
  PROVE  PInv' /\ [TablesNext]_tableVars
<1>1. /\ UNCHANGED <<stage, boardVars, userVars>> /\ stage = "monitor" /\ At("run")
      /\ Bottom.pc = "run" /\ ttbr0 # L0 /\ Depth = 1
  BY RunFacts DEF mapdev, tick, Run, PInv, Order
<1>2. LockInv' /\ Bottom'.pc = "run"
  <2>1. CASE mapdev
    BY <1>1, <2>1, LockStays DEF mapdev, PInv, lockVars, Bottom
  <2>2. CASE tick
    <3>1. /\ UNCHANGED <<locked, oops, ctx>> /\ masked' = masked \ {"I"}
          /\ Depth' = 1 /\ Bottom' = Bottom
      BY <1>1, <2>2 DEF tick, Depth, Bottom
    <3> QED
      BY <1>1, <3>1 DEF PInv, LockInv, LockTypeOK, Layers, Masks, Holder, InWith
  <2> QED
    BY <2>1, <2>2
<1>3. TimerTypeOK'
  BY TimerStays, TimerSteps DEF mapdev, tick, PInv
<1>4. [TablesNext]_tableVars /\ ttbr0' = ttbr0
  <2>1. CASE mapdev
    <3>1. \E p \in DevicePages : \/ \E attr \in {"Device", "Framebuffer"} : ioremap_ok(p, attr)
                                 \/ ioremap_err(p)
      BY <2>1, PlatformAssumption DEF mapdev
    <3> QED
      BY <1>1, <3>1, MapKeeps
  <2>2. CASE tick
    BY <2>2 DEF tick, tableVars
  <2> QED
    BY <2>1, <2>2
<1>5. Handed' /\ Rest'
  BY <1>1 DEF PInv, Handed, Rest, boardVars, userVars, WithTree
<1>6. live' = live /\ live \subseteq Slots /\ stage' = "monitor" /\ "monitor" \in Stages
  BY <1>1, StageNames DEF PInv, Session, userVars
<1> QED
  BY <1>1, <1>2, <1>3, <1>4, <1>5, <1>6, KernelStep

LEMMA SpawnStep ==
  ASSUME PInv, build_task_user_space
  PROVE  PInv' /\ [TablesNext]_tableVars
<1>1. /\ Bottom.pc = "run" /\ Bottom'.pc = "run" /\ LockInv' /\ stage \in {"monitor", "spawn"}
      /\ ttbr0 = EmptyRoot
  BY RunFacts, LockStays DEF build_task_user_space, PInv, Order, lockVars, Bottom
<1>2. PICK s \in Slots \ live : wire_user_tables(s) /\ live' = live \cup {s}
  BY DEF build_task_user_space
<1>3. [TablesNext]_tableVars /\ ttbr0' = ttbr0 /\ Wired(s)'
  BY <1>1, <1>2, NowWired DEF TablesNext, wire_user_tables, PInv
<1>4. /\ stage' = "spawn" /\ "spawn" \in Stages /\ TimerTypeOK'
      /\ UNCHANGED <<boardVars, call>>
  BY TimerStays, StageNames DEF build_task_user_space, PInv
<1>5. Handed' /\ Rest'
  BY <1>4 DEF PInv, Handed, Rest, boardVars, WithTree
<1>6. live' \subseteq Slots /\ \A r \in live' : r \in live \/ Wired(r)'
  BY <1>2, <1>3 DEF PInv, Session
<1> QED
  BY <1>1, <1>3, <1>4, <1>5, <1>6, KernelStep

LEMMA InstallsStep ==
  ASSUME PInv, install
  PROVE  PInv' /\ [TablesNext]_tableVars
<1>1. /\ Bottom.pc = "run" /\ Bottom'.pc = "run" /\ LockInv' /\ stage = "spawn" /\ ttbr0 # L0
  BY KernelRuns DEF install, PInv, Order
<1>2. PICK s \in live : set_user_ttbr0(s)
  BY DEF install
<1>3. s \in Slots /\ Wired(s)
  BY <1>2 DEF PInv, Session
<1>4. [TablesNext]_tableVars /\ pt' = pt /\ ttbr0' = UserL0(s) /\ ttbr0' # L0
  BY <1>1, <1>2, <1>3, UserNames DEF TablesNext, set_user_ttbr0, KernelTables
<1>5. TInv' /\ UInv'
  BY <1>4, TablesMove DEF PInv
<1>6. /\ stage' = "installed" /\ TimerTypeOK' /\ UNCHANGED <<boardVars, userVars>>
  BY TimerStays, TimerSteps DEF install, PInv
<1>7. Order'
  BY <1>1, <1>4, <1>6, StageNames DEF PInv, Order, Built
<1>8. Session'
  BY <1>1, <1>4, <1>6 DEF PInv, Session, Wired, InWith, userVars
<1>9. Handed' /\ Rest'
  BY <1>6 DEF PInv, Handed, Rest, boardVars, userVars, WithTree
<1> QED
  BY <1>1, <1>4, <1>5, <1>6, <1>7, <1>8, <1>9 DEF PInv

LEMMA DropStep ==
  ASSUME PInv, drop_to_el0
  PROVE  PInv' /\ [TablesNext]_tableVars
<1> DEFINE c == Context("el0", {})
<1>1. Depth = 1 /\ Bottom.pc = "run" /\ stage = "leave"
  BY RunFacts DEF drop_to_el0, Run, PInv
<1>2. c \in Contexts /\ c.pc = "el0"
  BY ContextFacts DEF Places
<1>3. /\ Goto(c) /\ masked' = {} /\ stage' = "monitor"
      /\ UNCHANGED <<locked, oops, timerVars, tableVars, boardVars, userVars>>
  BY DEF drop_to_el0
<1> HIDE DEF c
<1>4. ctx' \in Seq(Contexts) /\ Depth' = 1 /\ Bottom' = c
  BY <1>1, <1>2, <1>3, GotoFacts DEF PInv, LockInv
<1>5. LockTypeOK'
  BY <1>3, <1>4, LockTyped DEF PInv, LockInv, LockTypeOK
<1>6. LockInv'
  BY <1>1, <1>2, <1>3, <1>4, <1>5 DEF PInv, LockInv, Layers, Masks, Holder, InWith
<1>7. [TablesNext]_tableVars /\ TInv' /\ UInv' /\ TimerTypeOK'
  BY <1>3, TablesMove, TimerStays DEF PInv
<1>8. Order'
  BY <1>1, <1>2, <1>3, <1>4, StageNames DEF PInv, Order, tableVars, Built
<1>9. Session'
  BY <1>1, <1>2, <1>3, <1>4 DEF PInv, Session, tableVars, userVars, Wired, InWith
<1>10. Handed' /\ Rest'
  BY <1>3 DEF PInv, Handed, Rest, boardVars, userVars, WithTree
<1> QED
  BY <1>6, <1>7, <1>8, <1>9, <1>10 DEF PInv

LEMMA ReturnStep ==
  ASSUME PInv, return_to_monitor
  PROVE  PInv' /\ [TablesNext]_tableVars
<1> DEFINE c == Context("run", {})
<1>1. Depth = 2 /\ masked = Interrupts
  BY HandlerDepth DEF return_to_monitor, At, PInv, LockInv, Masks, Handlers
<1>2. Bottom.pc = "el0" /\ stage = "monitor"
  BY <1>1 DEF return_to_monitor, FromEL0, Depth, Bottom, PInv, Session
<1>3. c \in Contexts /\ c.pc = "run"
  BY ContextFacts DEF Places
<1>4. /\ ctx' = <<c>> /\ masked' = masked \cup {"I"} /\ live' = {} /\ call' = NoCall
      /\ UNCHANGED <<locked, oops, stage, boardVars>> /\ condemn_low_half /\ disable
  BY DEF return_to_monitor
<1> HIDE DEF c
<1>5. ctx' \in Seq(Contexts) /\ Depth' = 1 /\ Bottom' = c
  BY <1>3, <1>4 DEF Depth, Bottom
<1>6. masked' = Interrupts /\ ~locked
  BY <1>1, <1>2, <1>4 DEF Interrupts, PInv, LockInv, Holder
<1>7. LockTypeOK'
  BY <1>4, <1>5, <1>6, LockTyped DEF PInv, LockInv, LockTypeOK
<1>8. LockInv'
  BY <1>3, <1>4, <1>5, <1>6, <1>7 DEF LockInv, Layers, Masks, Holder, InWith, Interrupts
<1>9. Built /\ [TablesNext]_tableVars /\ pt' = pt /\ ttbr0' = EmptyRoot
  BY <1>2, <1>4 DEF PInv, Order, TablesNext, condemn_low_half
<1>10. TInv' /\ UInv' /\ TimerTypeOK'
  BY <1>4, <1>9, TablesMove, TimerSteps DEF PInv
<1>11. Order'
  BY <1>2, <1>4, <1>9, Names, StageNames DEF PInv, Order, Built
<1>12. Session'
  BY <1>2, <1>3, <1>4, <1>5 DEF Session, InWith
<1>13. Handed' /\ Rest'
  BY <1>4 DEF PInv, Handed, Rest, boardVars, WithTree
<1> QED
  BY <1>8, <1>9, <1>10, <1>11, <1>12, <1>13 DEF PInv

LEMMA PlatformStep == PInv /\ [Next]_platformVars => PInv' /\ [TablesNext]_tableVars
<1> SUFFICES ASSUME PInv, [Next]_platformVars PROVE PInv' /\ [TablesNext]_tableVars
  OBVIOUS
<1>1. CASE Boot
  BY <1>1, BootStubStep, KmainStep, SelectStep, BoardStep DEF Boot
<1>2. CASE Printing
  BY <1>2, PrintStep, PrintEnds DEF Printing
<1>3. CASE Handling
  BY <1>3, ReportStep, ExceptionStep, HandlerStep, ReturnStep DEF Handling
<1>4. CASE Command \/ install \/ drop_to_el0
  BY <1>4, CommandStep, ExceptionStep, SpawnStep, InstallsStep, DropStep DEF Command
<1>5. CASE User \/ TakeIrq \/ TakeFiq
  BY <1>5, ExceptionStep DEF User
<1>6. CASE CounterAdvances
  <2>1. LockInv' /\ Bottom' = Bottom
    BY <1>6, LockStays DEF CounterAdvances, PInv, lockVars, Bottom
  <2>2. TimerTypeOK' /\ UNCHANGED <<tableVars, stage, boardVars, userVars>>
    BY <1>6, TimerSteps DEF CounterAdvances, PInv
  <2> QED
    BY <2>1, <2>2, Elsewhere DEF userVars, PInv, Rest
<1>7. CASE UNCHANGED platformVars
  <2>1. LockInv' /\ Bottom' = Bottom
    BY <1>7, LockStays DEF platformVars, PInv, lockVars, Bottom
  <2>2. TimerTypeOK' /\ UNCHANGED <<tableVars, stage, boardVars, userVars>>
    BY <1>7, TimerStays DEF platformVars, PInv
  <2> QED
    BY <2>1, <2>2, Elsewhere DEF userVars, PInv, Rest
<1> QED
  BY <1>1, <1>2, <1>3, <1>4, <1>5, <1>6, <1>7 DEF Next

(***************************************************************************)
(* The heartbeat: the timer is not on before the monitor runs, and a       *)
(* comparator that is on has a period to move on by. So no edge comes      *)
(* before the GIC listens, and a tick always takes the line down.          *)
(***************************************************************************)
Ending == Depth >= 2 /\ ctx[2].pc = "eoi"

Beats ==
  /\ 0 \in ctl => period /\ stage \in {"monitor", "spawn", "installed", "leave"}
  /\ gic /\ Line => "pending" \in ppi

BeatInv == Beats /\ ("active" \in ppi <=> Ending)

\* Where the handler is that ends an interrupt.
LEMMA EndingStays ==
  ASSUME LockInv, UNCHANGED ctx \/ (Depth = 1 /\ \E c \in Contexts : Goto(c))
  PROVE  Ending' = Ending
<1>1. CASE UNCHANGED ctx
  BY <1>1 DEF Ending, Depth
<1>2. CASE Depth = 1 /\ \E c \in Contexts : Goto(c)
  BY <1>2, GotoFacts DEF LockInv, Ending
<1> QED
  BY <1>1, <1>2

LEMMA EndingDispatch ==
  ASSUME LockInv, NEW k \in Handlers \ {"eoi"}, exception_dispatch(k), Depth \in {1, 2}
  PROVE  Ending' <=> Ending
<1> DEFINE c == Context(IF oops THEN "nested" ELSE k, masked)
<1>1. masked \in SUBSET Interrupts /\ (IF oops THEN "nested" ELSE k) \in Places
  BY DEF LockInv, LockTypeOK, Places, Stopped
<1>2. c \in Contexts /\ c.pc # "eoi" /\ ctx' = Append(ctx, c)
  BY <1>1, ContextFacts DEF exception_dispatch
<1> HIDE DEF c
<1>3. /\ Depth' = Depth + 1
      /\ Depth = 1 => ctx'[2] = c
      /\ Depth = 2 => ctx'[2] = ctx[2]
  BY <1>2, PushFacts DEF LockInv
<1>4. CASE Depth = 1
  <2>1. ~Ending
    BY <1>4 DEF Ending
  <2>2. ctx'[2].pc # "eoi"
    BY <1>2, <1>3, <1>4
  <2>3. ~Ending'
    BY <2>2 DEF Ending
  <2> QED
    BY <2>1, <2>3
<1>5. CASE Depth = 2
  <2>1. Ending <=> ctx[2].pc = "eoi"
    BY <1>5 DEF Ending
  <2>2. Ending' <=> ctx[2].pc = "eoi"
    BY <1>3, <1>5 DEF Ending
  <2> QED
    BY <2>1, <2>2
<1> QED
  BY <1>4, <1>5

LEMMA EndingGoesOn ==
  ASSUME LockInv, Top.pc \in Handlers \cup {"nested"}, NEW c \in Contexts, Goto(c)
  PROVE  /\ c.pc \in Stopped /\ Top.pc # "eoi" => Ending' = Ending
         /\ Top.pc = "irq" /\ c.pc = "eoi" => Ending' /\ ~Ending
<1>1. /\ Depth \in {2, 3} /\ Top \in Contexts /\ Depth' = Depth
      /\ Depth = 2 => Top = ctx[2] /\ ctx'[2] = c
      /\ Depth = 3 => Top = ctx[3] /\ ctx'[2] = ctx[2]
  BY TopFacts, GotoFacts DEF LockInv, Layers, InWith, Handlers, Stopped
<1>2. CASE Depth = 2
  BY <1>1, <1>2 DEF Ending, Stopped
<1>3. CASE Depth = 3
  <2>1. Top.pc \in Stopped
    BY <1>1, <1>3 DEF LockInv, Layers
  <2> QED
    BY <1>1, <1>3, <2>1 DEF Ending, Stopped
<1> QED
  BY <1>1, <1>2, <1>3

\* What does not touch the timer.
LEMMA BeatStays ==
  ASSUME BeatInv, UNCHANGED timerVars, Ending' <=> Ending,
         stage \in {"monitor", "spawn", "installed", "leave"} =>
           stage' \in {"monitor", "spawn", "installed", "leave"}
  PROVE  BeatInv'
BY DEF BeatInv, Beats, timerVars, Line, ctl_read

LEMMA LineFacts ==
  ASSUME TimerTypeOK
  PROVE  Line <=> 0 \in ctl /\ reached /\ 1 \notin ctl
<1>1. 2 \notin ctl
  BY DEF TimerTypeOK
<1>2. 2 \in ctl_read <=> 0 \in ctl /\ reached
  BY <1>1 DEF ctl_read
<1> QED
  BY <1>2 DEF Line

LEMMA LineFactsNext ==
  ASSUME TimerTypeOK'
  PROVE  Line' <=> 0 \in ctl' /\ reached' /\ 1 \notin ctl'
<1>1. 2 \notin ctl'
  BY DEF TimerTypeOK
<1>2. 2 \in ctl_read' <=> 0 \in ctl' /\ reached'
  BY <1>1 DEF ctl_read
<1> QED
  BY <1>2 DEF Line

LEMMA PrintBeats ==
  ASSUME PInv, BeatInv, Printing \/ Report
  PROVE  BeatInv'
<1>1. UNCHANGED timerVars
  BY DEF Printing, StartPrint, EnterCriticalSection, Render, LeaveCriticalSection,
         PrintUnlocked, Report
<1>2. stage \in {"monitor", "spawn", "installed", "leave"} =>
        stage' \in {"monitor", "spawn", "installed", "leave"}
  <2>1. stage' = stage \/ (stage \in DOMAIN After /\ stage' = After[stage])
    <3>1. CASE LeaveCriticalSection /\ daif_restore
      <4>1. stage \in DOMAIN After
        BY <3>1, RestoreKeepsLock DEF PInv, Session, InWith
      <4> QED
        BY <3>1, <4>1 DEF LeaveCriticalSection
    <3> QED
      BY <3>1 DEF Printing, StartPrint, EnterCriticalSection, Render, LeaveCriticalSection,
                  PrintUnlocked, Report
  <2> QED
    BY <2>1, AfterFacts
<1>3. CASE UNCHANGED ctx
  BY <1>1, <1>2, <1>3, EndingStays, BeatStays DEF PInv
<1>4. CASE StartPrint
  <2>1. Depth = 1 /\ Top \in Contexts
    BY <1>4, TopFacts DEF PInv, LockInv, Masks, StartPrint, console_print
  <2>2. [Top EXCEPT !.pc = "masking", !.caller = Top.pc] \in Contexts
    BY <2>1 DEF Contexts, Places, InWith
  <2>3. Ending' <=> Ending
    BY <1>4, <2>1, <2>2, EndingStays DEF PInv, StartPrint, console_print
  <2> QED
    BY <1>1, <1>2, <2>3, BeatStays
<1>5. ASSUME daif_mask_save \/ acquire \/ write_fmt \/ release \/ daif_restore
      PROVE  BeatInv'
  <2>1. Depth = 1 /\ Top \in Contexts
    BY <1>5, WithinDepth DEF PInv, At, InWith, daif_mask_save, acquire, write_fmt, release,
                             daif_restore
  <2>2. masked \in SUBSET Interrupts
    BY DEF PInv, LockInv, LockTypeOK
  <2>3. \E c \in Contexts : Goto(c)
    <3>1. [Top EXCEPT !.pc = "locking", !.daif = masked] \in Contexts
      BY <2>1, <2>2 DEF Contexts, Places, InWith
    <3>2. \A to \in InWith : [Top EXCEPT !.pc = to] \in Contexts
      BY <2>1 DEF Contexts, Places
    <3>3. Context(Top.caller, Top.spsr) \in Contexts
      BY <2>1, ContextFacts DEF Contexts
    <3> QED
      BY <1>5, <3>1, <3>2, <3>3 DEF daif_mask_save, acquire, write_fmt, release, daif_restore,
                                    InWith
  <2>4. Ending' <=> Ending
    BY <2>1, <2>3, EndingStays DEF PInv
  <2> QED
    BY <1>1, <1>2, <2>4, BeatStays
<1>6. ASSUME At("owner") \/ At("fault"), exception_dispatch("fault")
      PROVE  BeatInv'
  <2>1. Depth \in {1, 2} /\ "fault" \in Handlers \ {"eoi"}
    BY <1>6, WithinDepth, HandlerDepth DEF PInv, At, InWith, Handlers
  <2>2. Ending' <=> Ending
    BY <1>6, <2>1, EndingDispatch DEF PInv
  <2> QED
    BY <1>1, <1>2, <2>2, BeatStays
<1>7. CASE die
  <2>1. Top \in Contexts /\ Top.pc \in Handlers \cup {"nested"} /\ Top.pc # "eoi"
    BY <1>7, TopFacts DEF PInv, LockInv, die, Handlers
  <2>2. [Top EXCEPT !.pc = "parked"] \in Contexts /\ [Top EXCEPT !.pc = "parked"].pc \in Stopped
    BY <2>1 DEF Contexts, Places, Stopped
  <2>3. Ending' <=> Ending
    BY <1>7, <2>1, <2>2, EndingGoesOn DEF PInv, die
  <2> QED
    BY <1>1, <1>2, <2>3, BeatStays
<1>8. ASSUME At("nested"), Goto(Context("wedged", Top.spsr)) PROVE BeatInv'
  <2>1. Top \in Contexts /\ Top.pc = "nested"
    BY <1>8, TopFacts DEF PInv, LockInv, At
  <2>2. /\ Context("wedged", Top.spsr) \in Contexts
        /\ Context("wedged", Top.spsr).pc \in Stopped
    BY <2>1, ContextFacts DEF Contexts, Places, Stopped
  <2>3. Ending' <=> Ending
    BY <1>8, <2>1, <2>2, EndingGoesOn DEF PInv
  <2> QED
    BY <1>1, <1>2, <2>3, BeatStays
<1> QED
  BY <1>3, <1>4, <1>5, <1>6, <1>7, <1>8
     DEF Printing, StartPrint, EnterCriticalSection, Render, LeaveCriticalSection,
         PrintUnlocked, Report, lockVars

\* An exception leaves the timer as it is, and who ends an interrupt.
LEMMA ExceptionBeats ==
  ASSUME PInv, BeatInv, svc \/ user_fault \/ copy_fault \/ TakeIrq \/ TakeFiq \/ Fault_command
  PROVE  BeatInv'
<1>1. UNCHANGED timerVars /\ stage' = stage
  BY DEF svc, user_fault, copy_fault, TakeIrq, TakeFiq, Fault_command
<1>2. PICK k \in {"sync", "fault", "irq", "fiq"} : exception_dispatch(k)
  BY DEF svc, user_fault, copy_fault, TakeIrq, TakeFiq, Fault_command
<1>3. Depth \in {1, 2}
  <2>1. CASE svc \/ user_fault
    BY <2>1, UserDepth DEF svc, user_fault, PInv
  <2>2. CASE copy_fault
    BY <2>2, HandlerDepth DEF copy_fault, At, Handlers, PInv
  <2>3. CASE TakeIrq \/ TakeFiq
    BY <2>3, UnmaskedDepth DEF TakeIrq, TakeFiq, Interrupts, PInv
  <2>4. CASE Fault_command
    BY <2>4, RunFacts DEF Fault_command, Run, PInv
  <2> QED
    BY <2>1, <2>2, <2>3, <2>4
<1>4. Ending' <=> Ending
  <2>1. k \in Handlers \ {"eoi"}
    BY DEF Handlers
  <2> QED
    BY <1>2, <1>3, <2>1, EndingDispatch DEF PInv
<1> QED
  BY <1>1, <1>4, BeatStays

\* The tick: the comparator is on only with a period to move on by, so the
\* line is down afterwards.
LEMMA TickTakesLineDown ==
  ASSUME TimerTypeOK, TimerTypeOK', Beats, Tick
  PROVE  ~Line' /\ (0 \in ctl' => period')
BY LineFactsNext DEF Beats, Tick

LEMMA IrqBeats ==
  ASSUME PInv, PInv', BeatInv, handle_irq
  PROVE  BeatInv'
<1> DEFINE c == Context("eoi", Top.spsr)
<1>1. Top.pc = "irq" /\ Top \in Contexts
  BY TopFacts DEF handle_irq, At, PInv, LockInv
<1>2. c \in Contexts /\ c.pc = "eoi" /\ Goto(c)
  BY <1>1, ContextFacts DEF Contexts, Places, Handlers, handle_irq
<1> HIDE DEF c
<1>3. Ending'
  BY <1>1, <1>2, EndingGoesOn DEF PInv, Handlers
<1>4. Tick /\ ppi' = {"active"} /\ ctl' = ctl /\ stage' = stage
  BY DEF handle_irq, acknowledge_and_tick, Tick
<1>5. ~Line' /\ (0 \in ctl' => period')
  BY <1>4, TickTakesLineDown DEF BeatInv, PInv
<1> QED
  BY <1>3, <1>4, <1>5 DEF BeatInv, Beats

LEMMA ReturnBeats ==
  ASSUME PInv, PInv', BeatInv, irq_end \/ handle_fiq \/ sync_end
  PROVE  BeatInv'
<1>1. Top.pc \in {"eoi", "fiq", "sync"} /\ exception_return /\ stage' = stage
  BY DEF irq_end, handle_fiq, sync_end, At
<1>2. Depth = 2 /\ Top = ctx[2] /\ Depth' = 1
  BY <1>1, HandlerDepth, ReturnKeepsLock DEF PInv, Handlers
<1>3. ~Ending' /\ (Ending <=> Top.pc = "eoi")
  BY <1>2 DEF Ending
<1>4. CASE irq_end
  <2>1. /\ ppi' = ppi \ {"active"}
        /\ UNCHANGED <<ctl, reached, period, gic>>
    BY <1>4 DEF irq_end, end_interrupt
  <2>2. Line' = Line
    BY <2>1 DEF Line, ctl_read
  <2> QED
    BY <1>1, <1>3, <2>1, <2>2 DEF BeatInv, Beats
<1>5. CASE handle_fiq
  <2>1. ~Ending /\ gic' = gic /\ ppi' = ppi /\ ctl' = ctl
    BY <1>3, <1>5 DEF handle_fiq, At, Tick, timerVars
  <2>2. CASE Tick
    <3>1. ~Line' /\ (0 \in ctl' => period')
      BY <2>2, TickTakesLineDown DEF BeatInv, PInv
    <3> QED
      BY <1>1, <1>3, <2>1, <3>1 DEF BeatInv, Beats
  <2>3. CASE UNCHANGED timerVars
    BY <1>1, <1>3, <2>1, <2>3, BeatStays
  <2> QED
    BY <1>5, <2>2, <2>3 DEF handle_fiq
<1>6. CASE sync_end
  <2>1. ~Ending /\ UNCHANGED timerVars
    BY <1>3, <1>6 DEF sync_end, At
  <2> QED
    BY <1>1, <1>3, <2>1, BeatStays
<1> QED
  BY <1>4, <1>5, <1>6

LEMMA MonitorBeats ==
  ASSUME PInv, PInv', BeatInv, return_to_monitor
  PROVE  BeatInv'
<1>1. Depth = 2 /\ Top = ctx[2] /\ Top.pc = "sync"
  BY HandlerDepth DEF return_to_monitor, At, PInv, Handlers
<1>2. Depth' = 1
  BY DEF return_to_monitor, Depth
<1>3. ~Ending /\ ~Ending'
  BY <1>1, <1>2 DEF Ending
<1>4. ctl' = {} /\ ppi' = ppi
  BY DEF return_to_monitor, disable
<1>5. ~Line'
  BY <1>4, LineFactsNext DEF PInv
<1> QED
  BY <1>3, <1>4, <1>5 DEF BeatInv, Beats

\* The boot, the commands and the way to EL0.
LEMMA BootBeats ==
  ASSUME PInv, PInv', BeatInv, Boot
  PROVE  BeatInv'
<1>1. /\ UNCHANGED ctx
      /\ stage \notin {"monitor", "spawn", "installed", "leave"}
  BY DEF Boot, boot_stub, kmain, fdt_at, parse, set_board_kind, set_uart_base, virt_init, init_uart,
         init_aic, init_from_fdt, Run, lockVars
<1>2. Ending' = Ending
  BY <1>1, EndingStays DEF PInv
<1>3. CASE UNCHANGED timerVars
  BY <1>1, <1>2, <1>3, BeatStays
<1>4. CASE gic_init
  <2>1. 0 \notin ctl' /\ ppi' = ppi
    BY <1>1, <1>4 DEF BeatInv, Beats, gic_init
  <2>2. ~Line'
    BY <2>1, LineFactsNext DEF PInv
  <2> QED
    BY <1>2, <2>1, <2>2 DEF BeatInv, Beats
<1> QED
  BY <1>3, <1>4 DEF Boot, boot_stub, kmain, fdt_at, parse, set_board_kind, set_uart_base, virt_init,
                    init_uart, init_aic, init_from_fdt

LEMMA CommandBeats ==
  ASSUME PInv, PInv', BeatInv,
         mapdev \/ tick \/ build_task_user_space \/ install \/ drop_to_el0
  PROVE  BeatInv'
<1>1. /\ Depth = 1
      /\ stage \in {"monitor", "spawn", "leave"}
      /\ stage' \in {"monitor", "spawn", "installed"}
  BY RunFacts DEF mapdev, tick, build_task_user_space, install, drop_to_el0, Run, PInv
<1>2. Ending' = Ending
  <2>1. UNCHANGED ctx \/ \E c \in Contexts : Goto(c)
    <3>1. Context("el0", {}) \in Contexts
      BY ContextFacts DEF Places
    <3> QED
      BY <3>1 DEF mapdev, tick, build_task_user_space, install, drop_to_el0, lockVars
  <2> QED
    BY <1>1, <2>1, EndingStays DEF PInv
<1>3. CASE UNCHANGED timerVars
  BY <1>1, <1>2, <1>3, BeatStays
<1>4. CASE arm
  <2>1. ctl' = {0} /\ ~reached' /\ period' /\ ppi' = ppi
    BY <1>4 DEF arm
  <2>2. ~Line'
    BY <2>1, LineFactsNext DEF PInv
  <2> QED
    BY <1>1, <1>2, <2>1, <2>2 DEF BeatInv, Beats
<1> QED
  BY <1>3, <1>4 DEF mapdev, tick, build_task_user_space, install, drop_to_el0

LEMMA CounterBeats ==
  ASSUME PInv, PInv', BeatInv, CounterAdvances
  PROVE  BeatInv'
<1>1. /\ UNCHANGED <<ctx, stage, ctl, period, gic>>
      /\ ppi' = IF gic /\ 1 \notin ctl THEN ppi \cup {"pending"} ELSE ppi
  BY DEF CounterAdvances, CounterReaches, lockVars
<1>2. Ending' = Ending
  BY <1>1, EndingStays DEF PInv
<1>3. gic' /\ Line' => "pending" \in ppi'
  BY <1>1, LineFactsNext DEF PInv
<1>4. "active" \in ppi' <=> "active" \in ppi
  BY <1>1
<1> QED
  BY <1>1, <1>2, <1>3, <1>4 DEF BeatInv, Beats

LEMMA BeatStep ==
  ASSUME PInv, BeatInv, [Next]_platformVars
  PROVE  BeatInv'
<1>1. PInv'
  BY PlatformStep
<1>2. CASE UNCHANGED platformVars
  <2>1. UNCHANGED <<ctx, timerVars, stage>>
    BY <1>2 DEF platformVars, lockVars
  <2> QED
    BY <2>1, EndingStays, BeatStays DEF PInv
<1> QED
  BY <1>1, <1>2, PrintBeats, ExceptionBeats, IrqBeats, ReturnBeats, MonitorBeats, BootBeats,
     CommandBeats, CounterBeats DEF Next, Handling, Command, User

LEMMA BeatsAtFirst == Init => BeatInv
<1> SUFFICES ASSUME Init PROVE BeatInv
  OBVIOUS
<1>1. ~Ending
  BY DEF Init, LockInit, Ending, Depth
<1> QED
  BY <1>1 DEF Init, TimerInit, BeatInv, Beats

LEMMA PlatformStart == Init => PInv /\ TablesInit
<1> SUFFICES ASSUME Init PROVE PInv /\ TablesInit
  OBVIOUS
<1>1. TablesInit /\ TInv /\ UInv
  BY TInit, UInit DEF Init
<1>2. LockInv /\ Bottom.pc = "run"
  BY LockStart, ContextFacts DEF Init, LockInit, Bottom, Context
<1>3. TimerTypeOK
  <2>1. 0 \in 0 .. TickWrap - 1
    BY DEF TickWrap
  <2> QED
    BY <2>1 DEF Init, TimerInit, TimerTypeOK
<1>4. ~Built
  BY Names, TablesAssumption DEF Init, TablesInit, Built, AllInvalid
<1>5. Order
  BY <1>4, StageNames DEF Init, Order
<1>6. Session
  BY <1>2 DEF Init, Session, InWith
<1>7. Handed /\ Rest
  BY DEF Init, Handed, Rest, WithTree
<1> QED
  BY <1>1, <1>2, <1>3, <1>5, <1>6, <1>7 DEF PInv

(***************************************************************************)
(* What follows.                                                           *)
(***************************************************************************)
\* The inductive invariant of the machine: where the contexts are and what
\* they mask, what the tables look like, and which stage goes with which.
THEOREM PlatformInvariance == Spec => []PInv
<1>1. Init => PInv
  BY PlatformStart
<1>2. PInv /\ [Next]_platformVars => PInv'
  BY PlatformStep
<1> QED
  BY <1>1, <1>2, PTL DEF Spec

\* Every variable of the machine holds what its type says: above all, the
\* devicetree that board init reads is one of those handed over.
THEOREM PlatformTyped == Spec => []TypeOK
<1>1. PInv => TypeOK
  BY DEF PInv, LockInv, TInv, Order, Session, Handed, Rest, TypeOK
<1> QED
  BY <1>1, PlatformInvariance, PTL

\* Nobody waits for a lock that a context below holds, on the one core.
\* (sync.rs: mask before acquire, release before restore; OOPS in handlers)
THEOREM LockNeverSelfDeadlocks == Spec => []NoSelfDeadlock
<1>1. PInv => NoSelfDeadlock
  <2> SUFFICES ASSUME PInv, At("locking"), locked PROVE FALSE
    BY DEF NoSelfDeadlock
  <2> QED
    BY WithinDepth DEF PInv, LockInv, Holder, At, InWith
<1> QED
  BY <1>1, PlatformInvariance, PTL

\* The lock is held exactly while one context is between acquire and release.
THEOREM LockHasOneOwner == Spec => []OneOwner
<1>1. PInv => OneOwner
  <2> SUFFICES ASSUME PInv PROVE OneOwner
    OBVIOUS
  <2>1. Len(ctx) \in 1 .. 3
    BY DEF PInv, LockInv, Layers, Depth
  <2>2. ASSUME NEW i \in 1 .. Len(ctx), ctx[i].pc \in {"owner", "written"}
        PROVE  i = 1
    BY <2>1, <2>2 DEF PInv, LockInv, Layers, Depth, Handlers, Stopped
  <2>3. locked <=> ctx[1].pc \in {"owner", "written"}
    BY DEF PInv, LockInv, Holder, Bottom
  <2> QED
    BY <2>1, <2>2, <2>3 DEF OneOwner
<1> QED
  BY <1>1, PlatformInvariance, PTL

\* A message that was interrupted in the middle is never taken up again: only
\* a fault interrupts it, and that ends in a report and a parked core.
THEOREM MessagesStayWhole == Spec => []WholeMessages
<1>1. PInv => WholeMessages
  <2> SUFFICES ASSUME PInv, NEW i \in 1 .. Len(ctx) - 1, ctx[i].pc \in {"owner", "written"}
               PROVE  Top.pc \in {"fault"} \cup Stopped
    BY DEF WholeMessages
  <2>1. Depth \in {2, 3} /\ i = 1
    BY TopFacts DEF PInv, LockInv, Layers, Depth, Handlers, Stopped
  <2> QED
    BY <2>1, TopFacts DEF PInv, LockInv, Layers, Holder, Bottom, InWith
<1> QED
  BY <1>1, PlatformInvariance, PTL

\* FIQ is masked whenever the core is at EL1, whatever was saved and put back
\* on the way.
THEOREM FiqMaskedAtEL1 == Spec => []FiqOnlyAtEL0
<1>1. PInv => FiqOnlyAtEL0
  BY TopFacts DEF PInv, LockInv, Layers, Masks, Interrupts, InWith, FiqOnlyAtEL0
<1> QED
  BY <1>1, PlatformInvariance, PTL

\* No edge of the timer is lost on the way to the core, and an interrupt that
\* is active is on its way to its end.
THEOREM NoTickIsLost == Spec => []NoEdgeLost
<1>1. Init => PInv /\ BeatInv
  BY PlatformStart, BeatsAtFirst
<1>2. PInv /\ BeatInv /\ [Next]_platformVars => PInv' /\ BeatInv'
  BY PlatformStep, BeatStep
<1>3. PInv /\ BeatInv => NoEdgeLost
  <2> SUFFICES ASSUME PInv, BeatInv PROVE NoEdgeLost
    OBVIOUS
  <2>1. Depth = Len(ctx) /\ Depth \in {1, 2, 3}
    BY TopFacts DEF PInv, LockInv, Depth
  <2>2. \A i \in 1 .. Len(ctx) : ctx[i].pc = "eoi" => i = 2
    <3>1. ctx[1].pc # "eoi"
      BY DEF PInv, LockInv, Layers, Bottom, InWith
    <3>2. Depth = 3 => ctx[3].pc # "eoi"
      BY DEF PInv, LockInv, Layers, Stopped
    <3> QED
      BY <2>1, <3>1, <3>2
  <2>3. Ending <=> \E i \in 1 .. Len(ctx) : ctx[i].pc = "eoi"
    BY <2>1, <2>2 DEF Ending
  <2> QED
    BY <2>3 DEF BeatInv, Beats, NoEdgeLost
<1> QED
  BY <1>1, <1>2, <1>3, PTL DEF Spec

\* The check of a system call's buffer is exact whenever one is handled.
THEOREM CallsCheckedExactly == Spec => []UserRangeExact
<1>1. PInv => UserRangeExact
  BY UserRangeIsExact, PlatformAssumption DEF PInv, Rest, UserRangeExact
<1> QED
  BY <1>1, PlatformInvariance, PTL

\* Boot, boards, monitor and sessions use the tables as TablesSpec allows:
\* built once and before anything is mapped, wired only while no user root
\* is installed, installed only when wired.
THEOREM PlatformUsesTables == Spec => TablesOrder
<1>1. Init => TablesInit
  BY PlatformStart
<1>2. PInv /\ [Next]_platformVars => [TablesNext]_tableVars
  BY PlatformStep
<1> QED
  BY <1>1, <1>2, PlatformInvariance, PTL DEF Spec, TablesOrder, TablesSpec

\* So the whole machine keeps what the tables' theorems say: the tree, that
\* only ioremap unprotects and only the page it is asked for, the software
\* walk, and the two maps that the tables implement.
THEOREM PlatformProtectsKernel ==
  Spec => []TablesFormATree /\ []OnlyIoremapUnprotects /\ []SoftWalkAgrees /\ AddressSpaceSpec
BY PlatformUsesTables, TablesAreATree, TablesProtectKernel, SoftWalkIsTheWalk,
   TablesImplementAddressSpace, PTL DEF TablesOrder
=============================================================================
