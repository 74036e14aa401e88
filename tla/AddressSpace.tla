---------------------------- MODULE AddressSpace ----------------------------
(***************************************************************************)
(* What the translation tables promise, without tables: two halves, each a *)
(* map from pages to where they lead. The kernel's half is linear, and     *)
(* after the boot it changes one page at a time. The low half is never     *)
(* edited: it is the kernel's mirror until kmain condemns it, and then it  *)
(* holds nothing, or one user address space.                               *)
(***************************************************************************)
CONSTANTS
  Pages,        \* the pages of a half
  Fault,        \* what an unmapped page leads to
  Kernel,       \* how the boot may map a page for the kernel
  Device,       \* how ioremap may map one
  Users         \* the user address spaces, as maps of the low half

VARIABLES high, low

Nothing == [p \in Pages |-> Fault]

Init == high = Nothing /\ low = Nothing

\* A page of the kernel leads to itself: phys_to_virt is the only map.
Linear(map, attrs) ==
  \A p \in Pages : map[p] = Fault \/ map[p] \in [pa : {p}, attr : attrs]

Build ==
  /\ high = Nothing
  /\ high' \in [Pages -> {high'[p] : p \in Pages}]
  /\ Linear(high', Kernel)
  /\ low' = high'

Condemn == low' = Nothing /\ UNCHANGED high

Map(p, attr) ==
  /\ high'[p] = [pa |-> p, attr |-> attr]
  /\ high' = [high EXCEPT ![p] = [pa |-> p, attr |-> attr]]
  /\ UNCHANGED low

Install(user) == low' = user /\ UNCHANGED high

Next ==
  \/ Build
  \/ Condemn
  \/ \E p \in Pages, attr \in Device : Map(p, attr)
  \/ \E user \in Users : Install(user)

Spec == Init /\ [][Next]_<<high, low>>
=============================================================================
