----------------------------- MODULE MCPlatform -----------------------------
(***************************************************************************)
(* Devicetrees, pages and buffers for TLC.                                 *)
(***************************************************************************)
EXTENDS ParserReference

Node(name, props, kids) == [name |-> name, props |-> props, kids |-> kids]
Prop(name, data) == [name |-> name, data |-> data]
Device_(name, compat, reg) ==
  Node(WithUnit(name), <<Prop(REG, <<reg, 2>>), Prop(COMPATIBLE, <<compat>>)>>, <<>>)

\* Properties before and after each other, a node with no property, two
\* nodes of one name, one two levels deep. Data repeat the token values.
QemuTree ==
  Node(ROOT, <<Prop(COMPATIBLE, <<QEMU_VIRT>>)>>,
    <<Node(WithUnit(MEMORY), <<Prop(REG, <<3, 2>>)>>, <<>>),
      Node(SOC, <<>>, <<Device_(SERIAL, PL011, 1)>>),
      Node(SERIAL, <<Prop(REG, <<>>)>>, <<>>)>>)

AppleTree(uart, aicreg, fbreg) ==
  Node(ROOT, <<Prop(REG, <<9>>), Prop(COMPATIBLE, <<APPLE_T8103, QEMU_VIRT>>)>>,
    <<Node(SOC, <<>>, <<Device_(SERIAL, S5L_UART, uart), Device_(MEMORY, APPLE_AIC, aicreg)>>),
      Node(SERIAL, <<Prop(COMPATIBLE, <<SIMPLE_FB>>), Prop(REG, <<fbreg>>)>>, <<>>)>>)

\* No console; the vendor's other name first.
BareTree ==
  Node(ROOT, <<Prop(COMPATIBLE, <<APPLE_T8103>>)>>,
    <<Node(SOC, <<Prop(COMPATIBLE, <<T8103_AIC, APPLE_AIC>>)>>, <<>>)>>)

\* No compatible at the root.
PlainTree == Node(ROOT, <<>>, <<Device_(SERIAL, PL011, 1)>>)
NoTree == Node(ROOT, <<>>, <<>>)

Trees == {QemuTree, AppleTree(2, 3, 0), AppleTree(4, 2, 3), BareTree, PlainTree, NoTree}

\* Whole, with NOPs and without; and each tree with its tail cut off.
mcBlobs ==
  {Blob(t, nop, 0, 0) : t \in Trees, nop \in BOOLEAN}
    \cup {Blob(QemuTree, FALSE, n, IF n % 2 = 0 THEN 0 ELSE n) :
             n \in 1 .. Len(Serialise(QemuTree, FALSE))}
    \cup {Blob(AppleTree(2, 3, 0), FALSE, n, 0) : n \in {8, 20}}
    \cup {[Blob(NoTree, FALSE, 0, 0) EXCEPT !.size_dt_struct = 9, !.whole = FALSE]}

mcAppleBlobs == {b \in mcBlobs : Fdtr_new(b) /\ which(b) = "Apple"}

mcPaths == {<<>>, <<MEMORY>>, <<WithUnit(MEMORY)>>, <<SOC, SERIAL>>,
            <<SOC, WithUnit(SERIAL)>>, <<SERIAL>>, <<SERIAL, SERIAL>>}

\* An address of 0, a page of the UART's table, one that needs a table, one
\* that needs two, and one outside the level 0 entry that is there.
mcUart0 == <<0, 0, 1, 0>>
mcPageOf == [n \in 0 .. 4 |->
  CASE n = 0 -> <<0, 0, 0, 0>>
    [] n = 1 -> mcUart0
    [] n = 2 -> <<0, 0, 1, 1>>
    [] n = 3 -> <<0, 1, 0, 0>>
    [] n = 4 -> <<1, 0, 0, 0>>]
\* A page that the boot has mapped, and one that it has not.
mcEarlyBases == {mcUart0, mcPageOf[3]}
\* And two pages of the image: its text and the guard page.
mcText == <<0, 0, 2, 1>>
mcImagePages == {mcText, <<0, 0, 2, 7>>}
mcDevicePages == {mcPageOf[n] : n \in 0 .. 4} \cup mcImagePages
mcMonitorPages == {mcPageOf[n] : n \in {0, 3, 4}} \cup {mcText}
mcProbes ==
  {mcPageOf[n] : n \in 0 .. 4} \cup {<<0, 0, 2, n>> : n \in {0, 1, 2, 4, 7, 8}}
    \cup {<<0, 0, 0, 1>>, <<0, 0, 0, 2>>, <<0, 0, 3, 0>>, <<0, 0, 4, 0>>, <<0, 1, 0, 1>>}

mcCodeFrame == [s \in {1, 2} |-> 1 + 2 * s]
mcStackFrame == [s \in {1, 2} |-> 2 + 2 * s]

\* TOP is 16 and KERNEL_BASE 12: ends at, before and past each.
mcCalls == {<<0, 3>>, <<11, 1>>, <<11, 2>>, <<11, 7>>, <<13, 0>>}
mcSessions == {{1, 2}}
=============================================================================
