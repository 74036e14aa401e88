----------------------------- MODULE PageTables -----------------------------
(***************************************************************************)
(* The translation tables of src/arch/aarch64/mmu.rs and the user tables   *)
(* of src/arch/aarch64/user.rs: what the boot stub builds, what            *)
(* ioremap_device adds at run time from a pool of eight tables, what       *)
(* wire_user_tables writes, and which root TTBR0 holds. TTBR1 holds the    *)
(* root of the kernel's tables from opal_mmu_enable on.                    *)
(*                                                                         *)
(* An address is the tuple of its four table indices. phys_to_virt adds    *)
(* KERNEL_BASE, so a page of the kernel's half has the tuple of the        *)
(* physical page it is the alias of; which half is said by the root. Every *)
(* change in the code ends with a TLB flush: there is no TLB here.         *)
(***************************************************************************)
EXTENDS Integers, Sequences

CONSTANTS
  Idx,            \* indices of a table: 0 .. 2047 in the code
  POOL,           \* TABLES.runtime: 8 tables
  Slots,          \* the user address spaces: USER_TABLES and two UserTaskMem
  MmioSlot,       \* l2i(UART0_BASE)
  ImageSlot,      \* l2i(RAM_BASE): the 32 MiB with the kernel image
  PastSlot,       \* l2i(RAM_BASE + RAM_SIZE)
  MmioPages,      \* l3 indices of the UART, the GICD and the GICC
  text_start, text_end, rodata_end, guard_bottom, stack_bottom,
                  \* linker symbols, as l3 indices
  CodeIdx, StackIdx,  \* l3 indices of USER_CODE_VA and USER_STACK_VA
  CodeFrame, StackFrame,  \* Slots -> l3 indices of the pages in .bss
  DevicePages,    \* the pages that ioremap is called for
  Probes          \* the pages at which properties look

ASSUME TablesAssumption ==
  /\ Idx \subseteq Nat /\ 0 \in Idx
  /\ POOL \in Nat
  /\ {MmioSlot, ImageSlot, PastSlot} \subseteq Idx
  /\ MmioSlot < ImageSlot /\ ImageSlot < PastSlot
  /\ MmioPages \subseteq Idx
  /\ {text_start, text_end, rodata_end, guard_bottom, stack_bottom} \subseteq Nat
  /\ text_start < text_end /\ text_end < rodata_end
  /\ rodata_end < guard_bottom /\ stack_bottom = guard_bottom + 1
  /\ CodeIdx \in Idx /\ StackIdx \in Idx /\ CodeIdx # StackIdx
  /\ CodeFrame \in [Slots -> Idx] /\ StackFrame \in [Slots -> Idx]
  /\ \A s, r \in Slots :    \* distinct pages of .data and .bss
       /\ CodeFrame[s] # StackFrame[r]
       /\ s # r => CodeFrame[s] # CodeFrame[r] /\ StackFrame[s] # StackFrame[r]
       /\ {CodeFrame[s], StackFrame[s]} \subseteq rodata_end .. guard_bottom - 1

\* Any page may be asked for, a page of the image included: nothing between
\* the monitor's mapdev and the write to the table looks at which it is.
ASSUME PagesAssumption ==
  /\ Probes \subseteq Idx \X Idx \X Idx \X Idx
  /\ DevicePages \subseteq Probes

VARIABLES
  pt,             \* every table: its descriptor at every index
  runtime_idx,    \* RUNTIME_IDX, the tables taken from the pool
  ttbr0           \* TTBR0_EL1: the root of the low half

tableVars == <<pt, runtime_idx, ttbr0>>

----------------------------------------------------------------------------
\* The tables.
L0 == <<"l0", 0>>
L1 == <<"l1", 0>>
L2 == <<"l2", 0>>
L3Kernel == <<"l3_kernel", 0>>
L3Mmio == <<"l3_mmio", 0>>
EmptyRoot == <<"empty_root", 0>>
Runtime(n) == <<"runtime", n>>
UserL0(s) == <<"user_l0", s>>
UserL1(s) == <<"user_l1", s>>
UserL2(s) == <<"user_l2", s>>
UserL3(s) == <<"user_l3", s>>

KernelTables == {L0, L1, L2, L3Kernel, L3Mmio}
Pool == {Runtime(n) : n \in 0 .. POOL - 1}
UserTables == UNION {{UserL0(s), UserL1(s), UserL2(s), UserL3(s)} : s \in Slots}
Tables == KernelTables \cup {EmptyRoot} \cup Pool \cup UserTables

TABLES_of_the_boot == KernelTables \cup {EmptyRoot}     \* mutant: not the pool

\* TABLES, the static that walk checks its pointers against.
TABLES == KernelTables \cup {EmptyRoot} \cup Pool

Page == Idx \X Idx \X Idx \X Idx
ImagePage(i) == <<0, 0, ImageSlot, i>>

Attrs == {"TextRx", "Ro", "Rw", "Device", "UserRw", "UserRx", "Framebuffer"}

\* leaf_bits: AP and the two execute-never bits, as what they allow.
CanWrite(attr) == attr \in {"Rw", "Device", "UserRw", "Framebuffer"}
CanExecute(attr) == attr \in {"TextRx", "UserRx"}
AtEL0(attr) == attr \in {"UserRw", "UserRx"}

Invalid == [type |-> "invalid"]
table_desc(t) == [type |-> "table", to |-> t]
block_desc(i, attr) == [type |-> "block", slot |-> i, attr |-> attr]
page_desc(pa, attr) == [type |-> "page", pa |-> pa, attr |-> attr]

Desc ==
  {Invalid} \cup [type : {"table"}, to : Tables]
    \cup [type : {"block"}, slot : Idx, attr : Attrs]
    \cup [type : {"page"}, pa : Page, attr : Attrs]

AllInvalid == [i \in Idx |-> Invalid]

TablesTypeOK ==
  /\ pt \in [Tables -> [Idx -> Desc]]
  /\ runtime_idx \in 0 .. POOL
  /\ ttbr0 \in Tables

TablesInit ==       \* .bss, zeroed by the boot stub
  /\ pt = [t \in Tables |-> AllInvalid]
  /\ runtime_idx = 0
  /\ ttbr0 = L0

----------------------------------------------------------------------------
\* The walk of the hardware: the descriptor that each lookup of page p
\* reads, and what it makes of the last one. A block is a leaf at level 2
\* only, a page at level 3 only.
Step(tables, d, i) == IF d.type = "table" THEN tables[d.to][i] ELSE Invalid

Lookup0(tables, ttbr, p) == tables[ttbr][p[1]]
Lookup1(tables, ttbr, p) == Step(tables, Lookup0(tables, ttbr, p), p[2])
Lookup2(tables, ttbr, p) == Step(tables, Lookup1(tables, ttbr, p), p[3])
Lookup3(tables, ttbr, p) == Step(tables, Lookup2(tables, ttbr, p), p[4])

Fault == [pa |-> <<>>, attr |-> "none"]

Walk(tables, ttbr, p) ==
  LET d2 == Lookup2(tables, ttbr, p)
      d3 == Lookup3(tables, ttbr, p)
  IN  IF d2.type = "block" THEN [pa |-> <<0, 0, d2.slot, p[4]>>, attr |-> d2.attr]
      ELSE IF d3.type = "page" THEN [pa |-> d3.pa, attr |-> d3.attr]
      ELSE Fault

HighHalf(p) == Walk(pt, L0, p)
LowHalf(p) == Walk(pt, ttbr0, p)

\* The monitor's walk: the same lookups in software, which gives up on a
\* table pointer outside TABLES.
SoftWalk(ttbr, p) ==
  LET path == {ttbr} \cup
        {d.to : d \in {e \in {Lookup0(pt, ttbr, p), Lookup1(pt, ttbr, p),
                              Lookup2(pt, ttbr, p)} : e.type = "table"}}
  IN  IF path \subseteq TABLES THEN Walk(pt, ttbr, p) ELSE Fault

----------------------------------------------------------------------------
kernel_entry_late_guard(i) ==   \* mutant: unmaps the page above the guard
  IF i \in guard_bottom + 1 .. stack_bottom THEN Invalid
  ELSE page_desc(ImagePage(i), IF i < rodata_end THEN "TextRx" ELSE "Rw")

\* opal_build_tables with the image where it was linked (delta = 0).
kernel_entry(i) ==
  IF i \in guard_bottom .. stack_bottom - 1 THEN Invalid
  ELSE page_desc(ImagePage(i),
         CASE i < text_start -> "Ro"                    \* the DTB window
           [] i \in text_start .. text_end - 1 -> "TextRx"
           [] i \in text_end .. rodata_end - 1 -> "Ro"
           [] i >= rodata_end -> "Rw")

l2_entry(i) ==
  CASE i = MmioSlot -> table_desc(L3Mmio)
    [] i = ImageSlot -> table_desc(L3Kernel)
    [] i \in ImageSlot + 1 .. PastSlot - 1 -> block_desc(i, "Rw")
    [] i = PastSlot -> block_desc(i, "Device")          \* the bus-error window
    [] OTHER -> Invalid

mmio_entry(i) ==
  IF i \in MmioPages THEN page_desc(<<0, 0, MmioSlot, i>>, "Device") ELSE Invalid

opal_build_tables ==
  /\ pt' = [pt EXCEPT ![L3Kernel] = [i \in Idx |-> kernel_entry(i)],
                      ![L3Mmio] = [i \in Idx |-> mmio_entry(i)],
                      ![L2] = [i \in Idx |-> l2_entry(i)],
                      ![L1][0] = table_desc(L2),
                      ![L0][0] = table_desc(L1)]
  /\ UNCHANGED <<runtime_idx, ttbr0>>

condemn_low_half ==
  /\ ttbr0' = EmptyRoot
  /\ UNCHANGED <<pt, runtime_idx>>

set_user_ttbr0(s) ==
  /\ ttbr0' = UserL0(s)
  /\ UNCHANGED <<pt, runtime_idx>>

----------------------------------------------------------------------------
NewTable_first == Runtime(0)        \* mutant: the cursor is not looked at

\* alloc_runtime_table and the table descriptor that ensure_table writes.
NewTable == Runtime(runtime_idx)

\* ioremap_device and ioremap_framebuffer, by what ensure_table finds at
\* levels 1 and 2. All callers map a page at its own alias.
map_in_place(p, attr) ==
  LET d == Lookup2(pt, L0, p)
  IN  /\ d.type = "table"
      /\ pt' = [pt EXCEPT ![d.to][p[4]] = page_desc(p, attr)]
      /\ UNCHANGED <<runtime_idx, ttbr0>>

map_new_l3_anyway(p, attr) ==       \* mutant: replaces a table that is there
  LET d == Lookup1(pt, L0, p)
  IN  /\ d.type = "table"
      /\ runtime_idx < POOL
      /\ pt' = [pt EXCEPT ![d.to][p[3]] = table_desc(NewTable),
                          ![NewTable][p[4]] = page_desc(p, attr)]
      /\ runtime_idx' = runtime_idx + 1
      /\ UNCHANGED ttbr0

map_new_l3(p, attr) ==
  LET d == Lookup1(pt, L0, p)
  IN  /\ d.type = "table"
      /\ pt[d.to][p[3]].type = "invalid"
      /\ runtime_idx < POOL
      /\ pt' = [pt EXCEPT ![d.to][p[3]] = table_desc(NewTable),
                          ![NewTable][p[4]] = page_desc(p, attr)]
      /\ runtime_idx' = runtime_idx + 1
      /\ UNCHANGED ttbr0

map_new_l2(p, attr) ==
  LET d == Lookup0(pt, L0, p)
      next == Runtime(runtime_idx + 1)
  IN  /\ d.type = "table"
      /\ pt[d.to][p[2]].type = "invalid"
      /\ runtime_idx + 1 < POOL
      /\ pt' = [pt EXCEPT ![d.to][p[2]] = table_desc(NewTable),
                          ![NewTable][p[3]] = table_desc(next),
                          ![next][p[4]] = page_desc(p, attr)]
      /\ runtime_idx' = runtime_idx + 2
      /\ UNCHANGED ttbr0

ioremap_ok(p, attr) ==
  map_in_place(p, attr) \/ map_new_l3(p, attr) \/ map_new_l2(p, attr)

\* OutOfTables at level 2, after level 1 took the last table: it stays linked.
run_out(p) ==
  LET d == Lookup0(pt, L0, p)
  IN  /\ d.type = "table"
      /\ pt[d.to][p[2]].type = "invalid"
      /\ runtime_idx = POOL - 1
      /\ pt' = [pt EXCEPT ![d.to][p[2]] = table_desc(NewTable)]
      /\ runtime_idx' = POOL
      /\ UNCHANGED ttbr0

\* OutOfTables before anything is written, and BlockInPath. (The cursor goes
\* on counting past the pool; the model stops it at POOL.)
refused(p) ==
  /\ \/ Lookup0(pt, L0, p).type # "table"
     \/ Lookup2(pt, L0, p).type = "block"
     \/ /\ runtime_idx = POOL
        /\ Lookup2(pt, L0, p).type = "invalid"
  /\ UNCHANGED tableVars

ioremap_err(p) == run_out(p) \/ refused(p)

\* wire_user_tables: two pages in four tables of the slot's own.
wire_user_tables(s) ==
  /\ pt' = [pt EXCEPT
        ![UserL0(s)][0] = table_desc(UserL1(s)),
        ![UserL1(s)][0] = table_desc(UserL2(s)),
        ![UserL2(s)][0] = table_desc(UserL3(s)),
        ![UserL3(s)][CodeIdx] = page_desc(ImagePage(CodeFrame[s]), "UserRx"),
        ![UserL3(s)][StackIdx] = page_desc(ImagePage(StackFrame[s]), "UserRw")]
  /\ UNCHANGED <<runtime_idx, ttbr0>>

----------------------------------------------------------------------------
\* The order in which kmain, the monitor and the sessions call them.
Built == pt[L0][0] # Invalid
Wired(s) == pt[UserL0(s)][0] # Invalid

MapDevice ==
  /\ ttbr0 # L0
  /\ \E p \in DevicePages :
       \/ \E attr \in {"Device", "Framebuffer"} : ioremap_ok(p, attr)
       \/ ioremap_err(p)

TablesNext ==
  \/ ~Built /\ opal_build_tables
  \/ Built /\ condemn_low_half
  \/ MapDevice
  \/ ttbr0 = EmptyRoot /\ \E s \in Slots : wire_user_tables(s)
  \/ ttbr0 # L0 /\ \E s \in Slots : Wired(s) /\ set_user_ttbr0(s)

TablesSpec == TablesInit /\ [][TablesNext]_tableVars

----------------------------------------------------------------------------
\* Every table is pointed at from one place at most, and a table of the pool
\* that was not handed out is empty; the roots are pointed at from nowhere;
\* a kernel table leads to kernel tables only, a user table to tables of its
\* own slot; the empty root stays empty. So what one address space or one
\* ioremap writes can only be met on the way to its own pages. (ensure_table
\* writes a descriptor for a table before anything is in it, and an error
\* leaves that table behind.)
Links == {l \in Tables \X Idx : pt[l[1]][l[2]].type = "table"}
Target(l) == pt[l[1]][l[2]].to

TablesFormATree ==
  /\ \A l, m \in Links : Target(l) = Target(m) => l = m
  /\ \A l \in Links :
       \/ l[1] \in KernelTables \cup Pool /\ Target(l) \in (KernelTables \ {L0}) \cup Pool
       \/ \E s \in Slots : /\ l[1] \in {UserL0(s), UserL1(s), UserL2(s)}
                          /\ Target(l) \in {UserL1(s), UserL2(s), UserL3(s)}
  /\ pt[EmptyRoot] = AllInvalid
  /\ \A n \in runtime_idx .. POOL - 1 :
       pt[Runtime(n)] = AllInvalid /\ \A l \in Links : Target(l) # Runtime(n)

\* The tables implement the address space: one ioremap changes where one
\* page leads or, when it fails, none, although it may have linked tables;
\* wiring a slot changes nothing that is installed; and an installed slot
\* opens its two pages to EL0 and nothing else.
UserView(s) ==
  [p \in Probes |->
    CASE p = <<0, 0, 0, CodeIdx>> ->
           [pa |-> ImagePage(CodeFrame[s]), attr |-> "UserRx"]
      [] p = <<0, 0, 0, StackIdx>> ->
           [pa |-> ImagePage(StackFrame[s]), attr |-> "UserRw"]
      [] OTHER -> Fault]

HighMap == [p \in Probes |-> HighHalf(p)]
LowMap == [p \in Probes |-> LowHalf(p)]

AS == INSTANCE AddressSpace WITH
        Pages <- Probes, Kernel <- {"TextRx", "Ro", "Rw", "Device"},
        Device <- {"Device", "Framebuffer"},
        Users <- {UserView(s) : s \in Slots}, high <- HighMap, low <- LowMap
AddressSpaceSpec == AS!Spec

\* A translation that respects what the linker script lays out: the kernel
\* executes its text and nothing else, text and read-only data are not
\* writable, the guard page below the stack is not there, and EL0 reaches no
\* page of the image but the two of its slot.
Protected(leaf) ==
  /\ leaf.attr = "TextRx" =>
       \E i \in text_start .. text_end - 1 : leaf.pa = ImagePage(i)
  /\ leaf # Fault /\ CanWrite(leaf.attr) =>
       \A i \in text_start .. rodata_end - 1 : leaf.pa # ImagePage(i)
  /\ \A i \in guard_bottom .. stack_bottom - 1 : leaf.pa # ImagePage(i)
  /\ AtEL0(leaf.attr) =>
       \E s \in Slots : leaf.pa \in {ImagePage(CodeFrame[s]), ImagePage(StackFrame[s])}

\* "`.text` cannot be written, data cannot be executed" (docs/04), and "the
\* guard page has no mapping" (the monitor): every translation of either
\* half is protected, for as long as the kernel runs. ioremap_device breaks
\* it when it is asked for a page of the image.
KernelProtected ==
  Built => \A p \in Probes : Protected(HighHalf(p)) /\ Protected(LowHalf(p))

\* That is all that breaks it. Whatever is mapped, wired and installed, in
\* whatever order and with whatever failures, a translation that is not
\* protected is the kernel's alias of one page that ioremap was asked for, as
\* ioremap maps it: never executable and never EL0's. No ioremap takes
\* the protection from another page, and none reaches the low half.
OnlyIoremapUnprotects ==
  Built => \A p \in Probes :
    /\ Protected(LowHalf(p))
    /\ \/ Protected(HighHalf(p))
       \/ /\ p \in DevicePages
          /\ HighHalf(p) \in [pa : {p}, attr : {"Device", "Framebuffer"}]

\* The monitor's walk prints the answer that the hardware gives: its check
\* against TABLES rejects no table that a kernel address leads to.
SoftWalkAgrees == \A p \in Probes : SoftWalk(L0, p) = HighHalf(p)
=============================================================================
