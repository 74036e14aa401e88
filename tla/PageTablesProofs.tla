-------------------------- MODULE PageTablesProofs --------------------------
(***************************************************************************)
(* What holds of the translation tables for every pool, every number of    *)
(* slots and pages, and every order of ioremap, wire and install.          *)
(***************************************************************************)
EXTENDS PageTables, TLAPS

\* A table descriptor at index i of table t leads to table u.
Arrow(f, t, i, u) == f[t][i] = table_desc(u)

\* The links that a slot's tables have once it is wired.
UserLink(s, t, i, u) ==
  /\ i = 0
  /\ \/ t = UserL0(s) /\ u = UserL1(s)
     \/ t = UserL1(s) /\ u = UserL2(s)
     \/ t = UserL2(s) /\ u = UserL3(s)

KernelSide == KernelTables \cup Pool
Inner == (KernelTables \ {L0}) \cup Pool

\* TablesFormATree, arrow by arrow, and what makes it inductive: a user table
\* is linked from its own slot's parent only, and nothing is linked before
\* the boot stub has built the kernel's tables.
OneParent(f) ==
  \A t, t2, u \in Tables : \A i, j \in Idx :
    Arrow(f, t, i, u) /\ Arrow(f, t2, j, u) => t = t2 /\ i = j
TwoSides(f) ==
  \A t, u \in Tables : \A i \in Idx : Arrow(f, t, i, u) =>
    \/ t \in KernelSide /\ u \in Inner
    \/ \E s \in Slots : UserLink(s, t, i, u)
EmptyStays(f) == \A i \in Idx : f[EmptyRoot][i] = Invalid
Unused(f, n) ==
  /\ \A i \in Idx : f[Runtime(n)][i] = Invalid
  /\ \A t \in Tables : \A i \in Idx : ~Arrow(f, t, i, Runtime(n))
RestUnused(f, from) == \A n \in from .. POOL - 1 : Unused(f, n)

Tree(f, from) == OneParent(f) /\ TwoSides(f) /\ EmptyStays(f) /\ RestUnused(f, from)

NotBuilt ==
  /\ pt = [t \in Tables |-> AllInvalid]
  /\ ttbr0 = L0 /\ runtime_idx = 0

TInv ==
  /\ TablesTypeOK
  /\ Tree(pt, runtime_idx)
  /\ ~Built => NotBuilt

(***************************************************************************)
(* The tables are all different.                                           *)
(***************************************************************************)
LEMMA Names ==
  /\ L0 \in Tables /\ L1 \in Tables /\ L2 \in Tables
  /\ L3Kernel \in Tables /\ L3Mmio \in Tables /\ EmptyRoot \in Tables
  /\ L1 \in Inner /\ L2 \in Inner /\ L3Kernel \in Inner /\ L3Mmio \in Inner
  /\ Inner \subseteq KernelSide /\ KernelSide \subseteq Tables /\ Pool \subseteq Inner
  /\ L0 \notin Inner /\ EmptyRoot \notin KernelSide /\ L0 \in KernelSide
  /\ L0 # L1 /\ L0 # L2 /\ L0 # L3Kernel /\ L0 # L3Mmio
  /\ L1 # L2 /\ L1 # L3Kernel /\ L1 # L3Mmio
  /\ L2 # L3Kernel /\ L2 # L3Mmio /\ L3Kernel # L3Mmio
BY DEF Tables, KernelTables, Pool, UserTables, KernelSide, Inner, L0, L1, L2, L3Kernel,
       L3Mmio, EmptyRoot, Runtime, UserL0, UserL1, UserL2, UserL3

LEMMA RuntimeNames ==
  ASSUME NEW n \in Nat
  PROVE  /\ n < POOL => Runtime(n) \in Pool
         /\ Runtime(n) \notin KernelTables /\ Runtime(n) # EmptyRoot
         /\ \A m \in Nat : Runtime(m) = Runtime(n) => m = n
         /\ \A s \in Slots : Runtime(n) \notin {UserL0(s), UserL1(s), UserL2(s), UserL3(s)}
BY TablesAssumption DEF KernelTables, Pool, L0, L1, L2, L3Kernel, L3Mmio, EmptyRoot,
       Runtime, UserL0, UserL1, UserL2, UserL3

LEMMA UserNames ==
  ASSUME NEW s \in Slots
  PROVE  /\ UserL0(s) \in Tables /\ UserL1(s) \in Tables
         /\ UserL2(s) \in Tables /\ UserL3(s) \in Tables
         /\ \A t \in {UserL0(s), UserL1(s), UserL2(s), UserL3(s)} :
              t \notin KernelSide /\ t # EmptyRoot /\ t # L0
         /\ UserL0(s) # UserL1(s) /\ UserL0(s) # UserL2(s) /\ UserL0(s) # UserL3(s)
         /\ UserL1(s) # UserL2(s) /\ UserL1(s) # UserL3(s) /\ UserL2(s) # UserL3(s)
         /\ \A r \in Slots :
              /\ UserL0(s) = UserL0(r) => s = r
              /\ UserL1(s) = UserL1(r) => s = r
              /\ UserL2(s) = UserL2(r) => s = r
              /\ UserL3(s) = UserL3(r) => s = r
              /\ UserL0(s) \notin {UserL1(r), UserL2(r), UserL3(r)}
              /\ UserL1(s) \notin {UserL0(r), UserL2(r), UserL3(r)}
              /\ UserL2(s) \notin {UserL0(r), UserL1(r), UserL3(r)}
              /\ UserL3(s) \notin {UserL0(r), UserL1(r), UserL2(r)}
BY DEF Tables, KernelTables, Pool, UserTables, KernelSide, L0, L1, L2, L3Kernel,
       L3Mmio, EmptyRoot, Runtime, UserL0, UserL1, UserL2, UserL3

LEMMA DescFacts ==
  /\ Invalid \in Desc
  /\ \A t \in Tables : table_desc(t) \in Desc /\ table_desc(t) # Invalid
  /\ \A i \in Idx, a \in Attrs : block_desc(i, a) \in Desc
  /\ \A p \in Page, a \in Attrs : page_desc(p, a) \in Desc
  /\ \A t, u \in Tables : table_desc(t) = table_desc(u) => t = u
  /\ \A t : table_desc(t).to = t /\ table_desc(t).type = "table"
  /\ \A p, a, t : page_desc(p, a) # table_desc(t)
  /\ \A i, a, t : block_desc(i, a) # table_desc(t)
  /\ \A d \in Desc : d.type = "table" => d.to \in Tables /\ d = table_desc(d.to)
  /\ Invalid.type = "invalid"
BY DEF Desc, Invalid, table_desc, block_desc, page_desc

(***************************************************************************)
(* The two writes that the tables see: a table descriptor, and a leaf.     *)
(***************************************************************************)
Contents == [Tables -> [Idx -> Desc]]
Written(f, t, i, d) == [f EXCEPT ![t][i] = d]

LEMMA WrittenFacts ==
  ASSUME NEW f \in Contents, NEW t \in Tables, NEW i \in Idx, NEW d \in Desc
  PROVE  /\ Written(f, t, i, d) \in Contents
         /\ Written(f, t, i, d)[t][i] = d
         /\ \A t2 \in Tables, j \in Idx :
              <<t2, j>> # <<t, i>> => Written(f, t, i, d)[t2][j] = f[t2][j]
         /\ \A t2 \in Tables : t2 # t => Written(f, t, i, d)[t2] = f[t2]
BY DEF Contents, Written

LEMMA WrittenAt ==
  ASSUME NEW f \in Contents, NEW t \in Tables, NEW i \in Idx, NEW d \in Desc
  PROVE  Written(f, t, i, d)[t][i] = d
BY DEF Contents, Written

LEMMA WrittenOther ==
  ASSUME NEW f \in Contents, NEW t \in Tables, NEW i \in Idx, NEW d \in Desc,
         NEW t2 \in Tables, NEW j \in Idx, t2 # t \/ j # i
  PROVE  Written(f, t, i, d)[t2][j] = f[t2][j]
BY DEF Contents, Written

LEMMA WrittenElse ==
  ASSUME NEW f \in Contents, NEW t \in Tables, NEW i \in Idx, NEW d \in Desc,
         NEW t2 \in Tables, t2 # t
  PROVE  Written(f, t, i, d)[t2] = f[t2]
BY DEF Contents, Written

LEMMA WrittenArrows ==
  ASSUME NEW f \in Contents, NEW t \in Tables, NEW i \in Idx, NEW u \in Tables,
         NEW t2 \in Tables, NEW u2 \in Tables, NEW j \in Idx,
         Arrow(Written(f, t, i, table_desc(u)), t2, j, u2)
  PROVE  Arrow(f, t2, j, u2) \/ (t2 = t /\ j = i /\ u2 = u)
<1>1. table_desc(u) \in Desc
  BY DescFacts
<1>2. CASE <<t2, j>> # <<t, i>>
  BY <1>1, <1>2, WrittenFacts DEF Arrow
<1>3. CASE t2 = t /\ j = i
  <2>1. table_desc(u) = table_desc(u2)
    BY <1>1, <1>3, WrittenFacts DEF Arrow
  <2> QED
    BY <2>1, <1>3, DescFacts
<1> QED
  BY <1>2, <1>3

\* A table outside the unused part of the pool.
Taken(t, n) == t # EmptyRoot /\ \A k \in n .. POOL - 1 : t # Runtime(k)

\* A leaf in a table in use leaves the tree as it is.
LEMMA LeafTree ==
  ASSUME NEW f \in Contents, NEW n \in Nat, Tree(f, n),
         NEW t \in Tables, NEW i \in Idx, NEW d \in Desc,
         Taken(t, n), \A u : d # table_desc(u)
  PROVE  Written(f, t, i, d) \in Contents /\ Tree(Written(f, t, i, d), n)
<1> DEFINE g == Written(f, t, i, d)
<1>1. g \in Contents
  BY WrittenFacts
<1>2. \A t2, u \in Tables, j \in Idx : Arrow(g, t2, j, u) => Arrow(f, t2, j, u)
  BY WrittenFacts DEF Arrow
<1>3. OneParent(g) /\ TwoSides(g)
  BY <1>2 DEF Tree, OneParent, TwoSides
<1>4. EmptyStays(g)
  <2>1. EmptyRoot \in Tables /\ t # EmptyRoot
    BY Names DEF Taken
  <2>2. g[EmptyRoot] = f[EmptyRoot]
    BY <2>1, WrittenFacts
  <2> QED
    BY <2>2 DEF Tree, EmptyStays
<1>5. RestUnused(g, n)
  <2> SUFFICES ASSUME NEW k \in n .. POOL - 1 PROVE Unused(g, k)
    BY DEF RestUnused
  <2>1. Runtime(k) \in Tables
    BY RuntimeNames, Names, TablesAssumption
  <2>2. Runtime(k) # t
    BY DEF Taken
  <2>3. Unused(f, k)
    BY DEF Tree, RestUnused
  <2> QED
    BY <1>2, <2>1, <2>2, <2>3, WrittenFacts DEF Unused
<1> QED
  BY <1>1, <1>3, <1>4, <1>5 DEF Tree

\* A link from a table in use to the next table of the pool takes that one.
LEMMA LinkTree ==
  ASSUME NEW f \in Contents, NEW n \in Nat, n < POOL, Tree(f, n),
         NEW t \in KernelSide, NEW i \in Idx, Taken(t, n)
  PROVE  LET g == Written(f, t, i, table_desc(Runtime(n)))
         IN  /\ g \in Contents
             /\ Tree(g, n + 1)
             /\ Taken(Runtime(n), n + 1)
<1> DEFINE u0 == Runtime(n)
           g == Written(f, t, i, table_desc(u0))
<1>1. u0 \in Inner /\ u0 \in Tables /\ t \in Tables /\ table_desc(u0) \in Desc
  BY RuntimeNames, Names, DescFacts
<1>2. g \in Contents
  BY <1>1, WrittenFacts
<1>3. \A t2, u \in Tables, j \in Idx : Arrow(g, t2, j, u) =>
        \/ Arrow(f, t2, j, u)
        \/ t2 = t /\ j = i /\ u = u0
  BY <1>1, WrittenArrows
<1>4. \A t2 \in Tables, j \in Idx : ~Arrow(f, t2, j, u0)
  BY TablesAssumption DEF Tree, RestUnused, Unused
<1>5. OneParent(g)
  BY <1>3, <1>4 DEF Tree, OneParent
<1>6. TwoSides(g)
  BY <1>1, <1>3 DEF Tree, TwoSides
<1>7. EmptyStays(g)
  <2>1. EmptyRoot \in Tables /\ t # EmptyRoot
    BY <1>1, Names DEF Taken
  <2>2. g[EmptyRoot] = f[EmptyRoot]
    BY <1>1, <2>1, WrittenFacts
  <2> QED
    BY <2>2 DEF Tree, EmptyStays
<1>8. RestUnused(g, n + 1)
  <2> SUFFICES ASSUME NEW k \in n + 1 .. POOL - 1 PROVE Unused(g, k)
    BY DEF RestUnused
  <2>0. k \in Nat /\ k < POOL /\ k \in n .. POOL - 1 /\ k # n
    BY TablesAssumption
  <2>1. Runtime(k) \in Tables /\ Runtime(k) # u0
    BY <2>0, RuntimeNames, Names
  <2>2. Runtime(k) # t
    BY <2>0 DEF Taken
  <2>3. Unused(f, k)
    BY <2>0 DEF Tree, RestUnused
  <2>4. \A j \in Idx : g[Runtime(k)][j] = Invalid
    BY <1>1, <2>1, <2>2, <2>3, WrittenFacts DEF Unused
  <2>5. \A t2 \in Tables, j \in Idx : ~Arrow(g, t2, j, Runtime(k))
    BY <1>3, <2>1, <2>3 DEF Unused
  <2> QED
    BY <2>4, <2>5 DEF Unused
<1>9. Taken(u0, n + 1)
  <2>1. u0 # EmptyRoot
    BY RuntimeNames
  <2>2. ASSUME NEW k \in n + 1 .. POOL - 1 PROVE u0 # Runtime(k)
    BY RuntimeNames, TablesAssumption
  <2> QED
    BY <2>1, <2>2 DEF Taken
<1> QED
  BY <1>2, <1>5, <1>6, <1>7, <1>8, <1>9 DEF Tree

\* A link inside a slot.
LEMMA WireTree ==
  ASSUME NEW f \in Contents, NEW n \in Nat, Tree(f, n), NEW s \in Slots,
         NEW t \in Tables, NEW u \in Tables, UserLink(s, t, 0, u)
  PROVE  LET g == Written(f, t, 0, table_desc(u))
         IN  g \in Contents /\ Tree(g, n)
<1> DEFINE g == Written(f, t, 0, table_desc(u))
<1>0. 0 \in Idx /\ table_desc(u) \in Desc
  BY TablesAssumption, DescFacts
<1>1. g \in Contents
  BY <1>0, WrittenFacts
<1>2. \A t2, u2 \in Tables, j \in Idx : Arrow(g, t2, j, u2) =>
        \/ Arrow(f, t2, j, u2)
        \/ t2 = t /\ j = 0 /\ u2 = u
  BY <1>0, TablesAssumption, WrittenArrows
<1>3. u \notin KernelSide /\ t \notin KernelSide /\ t # EmptyRoot
  BY UserNames DEF UserLink
<1>4. \A t2 \in Tables, j \in Idx : Arrow(f, t2, j, u) => t2 = t /\ j = 0
  <2> SUFFICES ASSUME NEW t2 \in Tables, NEW j \in Idx, Arrow(f, t2, j, u)
               PROVE  t2 = t /\ j = 0
    OBVIOUS
  <2>1. PICK r \in Slots : UserLink(r, t2, j, u)
    BY <1>3, Names DEF Tree, TwoSides
  <2>2. r = s
    BY <2>1, UserNames DEF UserLink
  <2> QED
    BY <2>1, <2>2, UserNames DEF UserLink
<1>5. OneParent(g)
  BY <1>2, <1>4 DEF Tree, OneParent
<1>6. TwoSides(g)
  BY <1>2 DEF Tree, TwoSides
<1>7. EmptyStays(g)
  <2>1. EmptyRoot \in Tables /\ t # EmptyRoot
    BY <1>0, <1>3, Names DEF Taken
  <2>2. g[EmptyRoot] = f[EmptyRoot]
    BY <1>0, <1>3, <2>1, WrittenFacts
  <2> QED
    BY <2>2 DEF Tree, EmptyStays
<1>8. RestUnused(g, n)
  <2> SUFFICES ASSUME NEW k \in n .. POOL - 1 PROVE Unused(g, k)
    BY DEF RestUnused
  <2>0. Runtime(k) \in Pool /\ Runtime(k) \in Tables /\ Runtime(k) \in KernelSide
    BY RuntimeNames, Names, TablesAssumption
  <2>1. Unused(f, k)
    BY DEF Tree, RestUnused
  <2> QED
    BY <1>0, <1>2, <1>3, <2>0, <2>1, WrittenFacts DEF Unused
<1> QED
  BY <1>1, <1>5, <1>6, <1>7, <1>8 DEF Tree

(***************************************************************************)
(* Lookups that start at the kernel's root stay on the kernel's side.      *)
(***************************************************************************)
LEMMA Descend ==
  ASSUME NEW f \in Contents, NEW n \in Nat, Tree(f, n),
         NEW t \in KernelSide, NEW i \in Idx, f[t][i].type = "table"
  PROVE  /\ f[t][i].to \in Inner
         /\ Arrow(f, t, i, f[t][i].to)
         /\ Taken(f[t][i].to, n)
<1>1. t \in Tables /\ f[t][i] \in Desc
  BY Names DEF Contents
<1>2. f[t][i].to \in Tables /\ Arrow(f, t, i, f[t][i].to)
  BY <1>1, DescFacts DEF Arrow
<1>3. f[t][i].to \in Inner
  BY <1>1, <1>2, UserNames DEF Tree, TwoSides, UserLink
<1>4. Taken(f[t][i].to, n)
  <2>1. f[t][i].to # EmptyRoot
    BY <1>3, Names
  <2>2. ASSUME NEW k \in n .. POOL - 1 PROVE f[t][i].to # Runtime(k)
    BY <1>1, <1>2 DEF Tree, RestUnused, Unused
  <2> QED
    BY <2>1, <2>2 DEF Taken
<1> QED
  BY <1>2, <1>3, <1>4

LEMMA RootTaken ==
  ASSUME NEW n \in Nat
  PROVE  Taken(L0, n) /\ L0 \in KernelSide
<1>1. ASSUME NEW k \in n .. POOL - 1 PROVE L0 # Runtime(k)
  BY RuntimeNames, TablesAssumption DEF KernelTables
<1> QED
  BY <1>1, Names DEF Taken, KernelTables

\* The table that the walk of p meets at level k, when there is one.
LEMMA Lookups ==
  ASSUME NEW f \in Contents, NEW n \in Nat, Tree(f, n), NEW p \in Page
  PROVE  /\ Lookup0(f, L0, p).type = "table" =>
              /\ Lookup0(f, L0, p).to \in Inner
              /\ Taken(Lookup0(f, L0, p).to, n)
              /\ Arrow(f, L0, p[1], Lookup0(f, L0, p).to)
         /\ Lookup1(f, L0, p).type = "table" =>
              /\ Lookup0(f, L0, p).type = "table"
              /\ Lookup1(f, L0, p).to \in Inner
              /\ Taken(Lookup1(f, L0, p).to, n)
              /\ Arrow(f, Lookup0(f, L0, p).to, p[2], Lookup1(f, L0, p).to)
         /\ Lookup2(f, L0, p).type = "table" =>
              /\ Lookup1(f, L0, p).type = "table"
              /\ Lookup2(f, L0, p).to \in Inner
              /\ Taken(Lookup2(f, L0, p).to, n)
              /\ Arrow(f, Lookup1(f, L0, p).to, p[3], Lookup2(f, L0, p).to)
<1> DEFINE d0 == Lookup0(f, L0, p)
           d1 == Lookup1(f, L0, p)
           d2 == Lookup2(f, L0, p)
<1>0. p[1] \in Idx /\ p[2] \in Idx /\ p[3] \in Idx /\ Invalid.type # "table"
  BY DescFacts DEF Page
<1>1. d0.type = "table" =>
        d0.to \in Inner /\ Taken(d0.to, n) /\ Arrow(f, L0, p[1], d0.to)
  BY <1>0, Descend, Names DEF Lookup0
<1>2. d1.type = "table" => d0.type = "table" /\ d1 = f[d0.to][p[2]]
  BY <1>0 DEF Lookup1, Step
<1>3. d1.type = "table" =>
        d1.to \in Inner /\ Taken(d1.to, n) /\ Arrow(f, d0.to, p[2], d1.to)
  BY <1>0, <1>1, <1>2, Descend, Names
<1>4. d2.type = "table" => d1.type = "table" /\ d2 = f[d1.to][p[3]]
  BY <1>0 DEF Lookup2, Step
<1>5. d2.type = "table" =>
        d2.to \in Inner /\ Taken(d2.to, n) /\ Arrow(f, d1.to, p[3], d2.to)
  BY <1>0, <1>3, <1>4, Descend, Names
<1> QED
  BY <1>1, <1>2, <1>3, <1>4, <1>5

(***************************************************************************)
(* What each case of ioremap writes.                                       *)
(***************************************************************************)
LEMMA InPlaceWrites ==
  ASSUME TInv, NEW p \in Page, NEW attr \in Attrs, map_in_place(p, attr)
  PROVE  LET t == Lookup2(pt, L0, p).to
         IN  /\ t \in Inner /\ Taken(t, runtime_idx)
             /\ pt' = Written(pt, t, p[4], page_desc(p, attr))
             /\ Tree(pt', runtime_idx') /\ pt' \in Contents
<1> DEFINE t == Lookup2(pt, L0, p).to
<1>0. pt \in Contents /\ runtime_idx \in Nat /\ p[4] \in Idx
  BY TablesAssumption DEF TInv, TablesTypeOK, Contents, Page
<1>1. t \in Inner /\ Taken(t, runtime_idx)
  BY <1>0, Lookups DEF TInv, map_in_place
<1>2. pt' = Written(pt, t, p[4], page_desc(p, attr)) /\ runtime_idx' = runtime_idx
  BY DEF map_in_place, Written
<1>3. page_desc(p, attr) \in Desc /\ \A u : page_desc(p, attr) # table_desc(u)
  BY DescFacts
<1> QED
  BY <1>0, <1>1, <1>2, <1>3, LeafTree, Names DEF TInv

LEMMA NewL3Writes ==
  ASSUME TInv, NEW p \in Page, NEW attr \in Attrs, map_new_l3(p, attr)
  PROVE  LET t == Lookup1(pt, L0, p).to
             u == Runtime(runtime_idx)
             f == Written(pt, t, p[3], table_desc(u))
         IN  /\ t \in Inner /\ Taken(t, runtime_idx)
             /\ runtime_idx \in 0 .. POOL - 1 /\ runtime_idx' = runtime_idx + 1
             /\ f \in Contents
             /\ pt' = Written(f, u, p[4], page_desc(p, attr))
             /\ Tree(pt', runtime_idx') /\ pt' \in Contents
<1> DEFINE t == Lookup1(pt, L0, p).to
           u == Runtime(runtime_idx)
           f == Written(pt, t, p[3], table_desc(u))
<1>0. /\ pt \in Contents /\ runtime_idx \in Nat /\ p[3] \in Idx /\ p[4] \in Idx
      /\ runtime_idx \in 0 .. POOL - 1 /\ runtime_idx < POOL
  BY TablesAssumption DEF TInv, TablesTypeOK, Contents, Page, map_new_l3
<1>1. t \in Inner /\ Taken(t, runtime_idx)
  BY <1>0, Lookups DEF TInv, map_new_l3
<1>2. pt' = Written(f, u, p[4], page_desc(p, attr)) /\ runtime_idx' = runtime_idx + 1
  BY DEF map_new_l3, Written, NewTable
<1>3. f \in Contents /\ Tree(f, runtime_idx + 1) /\ Taken(u, runtime_idx + 1)
  BY <1>0, <1>1, LinkTree, Names DEF TInv
<1>4. page_desc(p, attr) \in Desc /\ \A v : page_desc(p, attr) # table_desc(v)
  BY DescFacts
<1>5. u \in Tables
  BY <1>0, RuntimeNames, Names
<1>6. Tree(pt', runtime_idx + 1) /\ pt' \in Contents
  BY <1>0, <1>2, <1>3, <1>4, <1>5, LeafTree
<1> QED
  BY <1>0, <1>1, <1>2, <1>3, <1>6

LEMMA NewL2Writes ==
  ASSUME TInv, NEW p \in Page, NEW attr \in Attrs, map_new_l2(p, attr)
  PROVE  LET t == Lookup0(pt, L0, p).to
             u == Runtime(runtime_idx)
             v == Runtime(runtime_idx + 1)
             f == Written(pt, t, p[2], table_desc(u))
             g == Written(f, u, p[3], table_desc(v))
         IN  /\ t \in Inner /\ Taken(t, runtime_idx)
             /\ runtime_idx \in 0 .. POOL - 2 /\ runtime_idx' = runtime_idx + 2
             /\ f \in Contents /\ g \in Contents
             /\ pt' = Written(g, v, p[4], page_desc(p, attr))
             /\ Tree(pt', runtime_idx') /\ pt' \in Contents
<1> DEFINE t == Lookup0(pt, L0, p).to
           u == Runtime(runtime_idx)
           v == Runtime(runtime_idx + 1)
           f == Written(pt, t, p[2], table_desc(u))
           g == Written(f, u, p[3], table_desc(v))
<1>0. /\ pt \in Contents /\ runtime_idx \in Nat
      /\ p[2] \in Idx /\ p[3] \in Idx /\ p[4] \in Idx
      /\ runtime_idx \in 0 .. POOL - 2 /\ runtime_idx < POOL /\ runtime_idx + 1 < POOL
  BY TablesAssumption DEF TInv, TablesTypeOK, Contents, Page, map_new_l2
<1>1. t \in Inner /\ Taken(t, runtime_idx)
  BY <1>0, Lookups DEF TInv, map_new_l2
<1>2. pt' = Written(g, v, p[4], page_desc(p, attr)) /\ runtime_idx' = runtime_idx + 2
  BY DEF map_new_l2, Written, NewTable
<1>3. f \in Contents /\ Tree(f, runtime_idx + 1) /\ Taken(u, runtime_idx + 1)
  BY <1>0, <1>1, LinkTree, Names DEF TInv
<1>4. u \in KernelSide
  BY <1>0, RuntimeNames, Names
<1>5. g \in Contents /\ Tree(g, (runtime_idx + 1) + 1) /\ Taken(v, (runtime_idx + 1) + 1)
  <2> DEFINE n == runtime_idx + 1
  <2>1. n \in Nat /\ n < POOL
    BY <1>0
  <2>2. f \in Contents /\ Tree(f, n) /\ Taken(u, n) /\ v = Runtime(n)
    BY <1>3
  <2> HIDE DEF n, f, u, v
  <2>3. Written(f, u, p[3], table_desc(Runtime(n))) \in Contents
        /\ Tree(Written(f, u, p[3], table_desc(Runtime(n))), n + 1)
        /\ Taken(Runtime(n), n + 1)
    BY <1>0, <1>4, <2>1, <2>2, LinkTree
  <2> QED
    BY <2>2, <2>3 DEF n
<1>6. v \in Tables
  BY <1>0, RuntimeNames, Names
<1>7. Tree(pt', runtime_idx + 2) /\ pt' \in Contents
  <2>1. (runtime_idx + 1) + 1 = runtime_idx + 2 /\ runtime_idx + 2 \in Nat
    BY <1>0
  <2>2. page_desc(p, attr) \in Desc /\ \A w : page_desc(p, attr) # table_desc(w)
    BY DescFacts
  <2> HIDE DEF g, v
  <2> QED
    BY <1>0, <1>2, <1>5, <1>6, <2>1, <2>2, LeafTree
<1> QED
  BY <1>0, <1>1, <1>2, <1>3, <1>5, <1>7

LEMMA RunOutWrites ==
  ASSUME TInv, NEW p \in Page, run_out(p)
  PROVE  LET t == Lookup0(pt, L0, p).to
             u == Runtime(runtime_idx)
         IN  /\ t \in Inner /\ Taken(t, runtime_idx)
             /\ runtime_idx \in 0 .. POOL - 1 /\ runtime_idx' = runtime_idx + 1
             /\ pt' = Written(pt, t, p[2], table_desc(u))
             /\ Tree(pt', runtime_idx') /\ pt' \in Contents
<1> DEFINE t == Lookup0(pt, L0, p).to
           u == Runtime(runtime_idx)
<1>0. /\ pt \in Contents /\ runtime_idx \in Nat /\ p[2] \in Idx
      /\ runtime_idx \in 0 .. POOL - 1 /\ runtime_idx < POOL /\ runtime_idx + 1 = POOL
  BY TablesAssumption DEF TInv, TablesTypeOK, Contents, Page, run_out
<1>1. t \in Inner /\ Taken(t, runtime_idx)
  BY <1>0, Lookups DEF TInv, run_out
<1>2. pt' = Written(pt, t, p[2], table_desc(u)) /\ runtime_idx' = runtime_idx + 1
  BY <1>0 DEF run_out, Written, NewTable
<1>3. Tree(pt', runtime_idx + 1) /\ pt' \in Contents
  BY <1>0, <1>1, <1>2, LinkTree, Names DEF TInv
<1> QED
  BY <1>0, <1>1, <1>2, <1>3

(***************************************************************************)
(* What opal_build_tables leaves.                                          *)
(***************************************************************************)
LEMMA BootEntries ==
  ASSUME NEW i \in Idx
  PROVE  /\ kernel_entry(i) \in Desc /\ \A u : kernel_entry(i) # table_desc(u)
         /\ mmio_entry(i) \in Desc /\ \A u : mmio_entry(i) # table_desc(u)
         /\ l2_entry(i) \in Desc
         /\ \A u : l2_entry(i) = table_desc(u) =>
              (i = MmioSlot /\ u = L3Mmio) \/ (i = ImageSlot /\ u = L3Kernel)
<1>0. i \in Nat /\ ImagePage(i) \in Page /\ <<0, 0, MmioSlot, i>> \in Page
  BY TablesAssumption DEF ImagePage, Page
<1>1. \E attr \in Attrs : kernel_entry(i) \in {Invalid, page_desc(ImagePage(i), attr)}
  BY <1>0, TablesAssumption DEF kernel_entry, Attrs
<1>2. mmio_entry(i) \in {Invalid, page_desc(<<0, 0, MmioSlot, i>>, "Device")}
  BY DEF mmio_entry
<1>3. \/ i = MmioSlot /\ l2_entry(i) = table_desc(L3Mmio)
      \/ i = ImageSlot /\ l2_entry(i) = table_desc(L3Kernel)
      \/ l2_entry(i) \in {Invalid, block_desc(i, "Rw"), block_desc(i, "Device")}
  BY DEF l2_entry
<1>4. "Rw" \in Attrs /\ "Device" \in Attrs
  BY DEF Attrs
<1>5. \A u : Invalid # table_desc(u)
  BY DEF Invalid, table_desc
<1>6. kernel_entry(i) \in Desc /\ \A u : kernel_entry(i) # table_desc(u)
  BY <1>0, <1>1, <1>5, DescFacts
<1>7. mmio_entry(i) \in Desc /\ \A u : mmio_entry(i) # table_desc(u)
  BY <1>0, <1>2, <1>4, <1>5, DescFacts
<1>8. l2_entry(i) \in Desc
  BY <1>3, <1>4, DescFacts, Names
<1>9. ASSUME NEW u, l2_entry(i) = table_desc(u)
      PROVE  (i = MmioSlot /\ u = L3Mmio) \/ (i = ImageSlot /\ u = L3Kernel)
  BY <1>3, <1>5, <1>9, DescFacts
<1> QED
  BY <1>6, <1>7, <1>8, <1>9

LEMMA BootWrites ==
  ASSUME NotBuilt, opal_build_tables
  PROVE  /\ pt' \in Contents
         /\ pt'[L3Kernel] = [i \in Idx |-> kernel_entry(i)]
         /\ pt'[L3Mmio] = [i \in Idx |-> mmio_entry(i)]
         /\ pt'[L2] = [i \in Idx |-> l2_entry(i)]
         /\ pt'[L1] = [AllInvalid EXCEPT ![0] = table_desc(L2)]
         /\ pt'[L0] = [AllInvalid EXCEPT ![0] = table_desc(L1)]
         /\ \A t \in Tables \ KernelTables : pt'[t] = AllInvalid
<1>1. AllInvalid \in [Idx -> Desc] /\ pt \in Contents
  BY DescFacts DEF NotBuilt, AllInvalid, Contents
<1>2. /\ [i \in Idx |-> kernel_entry(i)] \in [Idx -> Desc]
      /\ [i \in Idx |-> mmio_entry(i)] \in [Idx -> Desc]
      /\ [i \in Idx |-> l2_entry(i)] \in [Idx -> Desc]
  BY BootEntries
<1>3. table_desc(L1) \in Desc /\ table_desc(L2) \in Desc /\ 0 \in Idx
  BY DescFacts, Names, TablesAssumption
<1>4. /\ [AllInvalid EXCEPT ![0] = table_desc(L2)] \in [Idx -> Desc]
      /\ [AllInvalid EXCEPT ![0] = table_desc(L1)] \in [Idx -> Desc]
  BY <1>1, <1>3
<1>5. pt' = [pt EXCEPT ![L3Kernel] = [i \in Idx |-> kernel_entry(i)],
                       ![L3Mmio] = [i \in Idx |-> mmio_entry(i)],
                       ![L2] = [i \in Idx |-> l2_entry(i)],
                       ![L1] = [AllInvalid EXCEPT ![0] = table_desc(L2)],
                       ![L0] = [AllInvalid EXCEPT ![0] = table_desc(L1)]]
  BY <1>1, Names DEF opal_build_tables, NotBuilt, Contents
<1>6. \A t \in Tables \ KernelTables : pt[t] = AllInvalid
  BY DEF NotBuilt
<1> HIDE DEF NotBuilt, opal_build_tables
<1> QED
  BY <1>1, <1>2, <1>4, <1>5, <1>6, Names DEF Contents, KernelTables

LEMMA BootArrows ==
  ASSUME NotBuilt, opal_build_tables,
         NEW t \in Tables, NEW i \in Idx, NEW u, Arrow(pt', t, i, u)
  PROVE  \/ t = L0 /\ i = 0 /\ u = L1
         \/ t = L1 /\ i = 0 /\ u = L2
         \/ t = L2 /\ i = MmioSlot /\ u = L3Mmio
         \/ t = L2 /\ i = ImageSlot /\ u = L3Kernel
<1>0. Invalid # table_desc(u) /\ AllInvalid[i] = Invalid
  BY DEF Invalid, table_desc, AllInvalid
<1>1. CASE t = L3Kernel
  BY <1>1, BootWrites, BootEntries DEF Arrow
<1>2. CASE t = L3Mmio
  BY <1>2, BootWrites, BootEntries DEF Arrow
<1>3. CASE t = L2
  BY <1>3, BootWrites, BootEntries DEF Arrow
<1>4. CASE t = L1
  <2>1. pt'[L1][i] = IF i = 0 THEN table_desc(L2) ELSE Invalid
    BY BootWrites DEF AllInvalid
  <2> QED
    BY <1>0, <1>4, <2>1, DescFacts DEF Arrow
<1>5. CASE t = L0
  <2>1. pt'[L0][i] = IF i = 0 THEN table_desc(L1) ELSE Invalid
    BY BootWrites DEF AllInvalid
  <2> QED
    BY <1>0, <1>5, <2>1, DescFacts DEF Arrow
<1>6. CASE t \notin KernelTables
  BY <1>0, <1>6, BootWrites DEF Arrow
<1> QED
  BY <1>1, <1>2, <1>3, <1>4, <1>5, <1>6 DEF KernelTables

LEMMA BootTree ==
  ASSUME NotBuilt, opal_build_tables
  PROVE  Tree(pt', 0)
<1>1. OneParent(pt')
  <2> SUFFICES ASSUME NEW t \in Tables, NEW t2 \in Tables, NEW u \in Tables,
                      NEW i \in Idx, NEW j \in Idx,
                      Arrow(pt', t, i, u), Arrow(pt', t2, j, u)
               PROVE  t = t2 /\ i = j
    BY DEF OneParent
  <2> QED
    BY BootArrows, Names
<1>2. TwoSides(pt')
  BY BootArrows, Names DEF TwoSides
<1>3. EmptyStays(pt')
  BY BootWrites, Names DEF EmptyStays, AllInvalid, KernelSide
<1>4. RestUnused(pt', 0)
  <2> SUFFICES ASSUME NEW n \in 0 .. POOL - 1 PROVE Unused(pt', n)
    BY DEF RestUnused
  <2>1. n \in Nat /\ Runtime(n) \in Tables \ KernelTables
    BY RuntimeNames, Names, TablesAssumption
  <2>2. \A i \in Idx : pt'[Runtime(n)][i] = Invalid
    BY <2>1, BootWrites DEF AllInvalid
  <2>3. \A t \in Tables, i \in Idx : ~Arrow(pt', t, i, Runtime(n))
    BY <2>1, BootArrows DEF KernelTables
  <2> QED
    BY <2>2, <2>3 DEF Unused
<1> QED
  BY <1>1, <1>2, <1>3, <1>4 DEF Tree

LEMMA EmptyTree ==
  ASSUME NotBuilt
  PROVE  pt \in Contents /\ Tree(pt, 0)
<1>1. \A t \in Tables, i \in Idx : pt[t][i] = Invalid
  BY DEF NotBuilt, AllInvalid
<1>2. \A t \in Tables, i \in Idx, u \in Tables : ~Arrow(pt, t, i, u)
  BY <1>1, DescFacts DEF Arrow
<1>3. RestUnused(pt, 0)
  BY <1>1, <1>2, RuntimeNames, Names, TablesAssumption DEF RestUnused, Unused
<1>4. pt \in Contents
  BY DescFacts DEF NotBuilt, AllInvalid, Contents
<1> QED
  BY <1>1, <1>2, <1>3, <1>4, Names DEF Tree, OneParent, TwoSides, EmptyStays

(***************************************************************************)
(* What wire_user_tables writes.                                           *)
(***************************************************************************)
CodePage(s) == page_desc(ImagePage(CodeFrame[s]), "UserRx")
StackPage(s) == page_desc(ImagePage(StackFrame[s]), "UserRw")

LEMMA FramePages ==
  ASSUME NEW s \in Slots
  PROVE  /\ CodePage(s) \in Desc /\ \A u : CodePage(s) # table_desc(u)
         /\ StackPage(s) \in Desc /\ \A u : StackPage(s) # table_desc(u)
<1>1. ImagePage(CodeFrame[s]) \in Page /\ ImagePage(StackFrame[s]) \in Page
  BY TablesAssumption DEF ImagePage, Page
<1>2. "UserRx" \in Attrs /\ "UserRw" \in Attrs
  BY DEF Attrs
<1> QED
  BY <1>1, <1>2, DescFacts DEF CodePage, StackPage

LEMMA WireWrites ==
  ASSUME TInv, NEW s \in Slots, wire_user_tables(s)
  PROVE  /\ Tree(pt', runtime_idx') /\ pt' \in Contents
         /\ pt'[UserL0(s)] = [pt[UserL0(s)] EXCEPT ![0] = table_desc(UserL1(s))]
         /\ pt'[UserL1(s)] = [pt[UserL1(s)] EXCEPT ![0] = table_desc(UserL2(s))]
         /\ pt'[UserL2(s)] = [pt[UserL2(s)] EXCEPT ![0] = table_desc(UserL3(s))]
         /\ pt'[UserL3(s)] = [pt[UserL3(s)] EXCEPT ![CodeIdx] = CodePage(s),
                                                   ![StackIdx] = StackPage(s)]
         /\ \A t \in Tables \ {UserL0(s), UserL1(s), UserL2(s), UserL3(s)} : pt'[t] = pt[t]
<1> DEFINE n == runtime_idx
           f1 == Written(pt, UserL0(s), 0, table_desc(UserL1(s)))
           f2 == Written(f1, UserL1(s), 0, table_desc(UserL2(s)))
           f3 == Written(f2, UserL2(s), 0, table_desc(UserL3(s)))
           f4 == Written(f3, UserL3(s), CodeIdx, CodePage(s))
           f5 == Written(f4, UserL3(s), StackIdx, StackPage(s))
<1>0. /\ pt \in Contents /\ n \in Nat /\ Tree(pt, n) /\ 0 \in Idx
      /\ CodeIdx \in Idx /\ StackIdx \in Idx
  BY TablesAssumption DEF TInv, TablesTypeOK, Contents
<1>1. pt' = f5 /\ runtime_idx' = n
  BY DEF wire_user_tables, Written, CodePage, StackPage
<1>2. Taken(UserL3(s), n)
  <2>1. ASSUME NEW k \in n .. POOL - 1 PROVE UserL3(s) # Runtime(k)
    BY <1>0, RuntimeNames, TablesAssumption
  <2> QED
    BY <2>1, UserNames DEF Taken
<1>3. /\ UserLink(s, UserL0(s), 0, UserL1(s))
      /\ UserLink(s, UserL1(s), 0, UserL2(s))
      /\ UserLink(s, UserL2(s), 0, UserL3(s))
  BY DEF UserLink
<1>4. f1 \in Contents /\ Tree(f1, n)
  BY <1>0, <1>3, WireTree, UserNames
<1> HIDE DEF f1, n
<1>5. f2 \in Contents /\ Tree(f2, n)
  BY <1>0, <1>3, <1>4, WireTree, UserNames
<1> HIDE DEF f2
<1>6. f3 \in Contents /\ Tree(f3, n)
  BY <1>0, <1>3, <1>5, WireTree, UserNames
<1> HIDE DEF f3
<1>7. f4 \in Contents /\ Tree(f4, n)
  BY <1>0, <1>2, <1>6, LeafTree, FramePages, UserNames
<1> HIDE DEF f4
<1>8. f5 \in Contents /\ Tree(f5, n)
  BY <1>0, <1>2, <1>7, LeafTree, FramePages, UserNames
<1>9. pt' = [pt EXCEPT ![UserL0(s)] = [pt[UserL0(s)] EXCEPT ![0] = table_desc(UserL1(s))],
                       ![UserL1(s)] = [pt[UserL1(s)] EXCEPT ![0] = table_desc(UserL2(s))],
                       ![UserL2(s)] = [pt[UserL2(s)] EXCEPT ![0] = table_desc(UserL3(s))],
                       ![UserL3(s)] = [pt[UserL3(s)] EXCEPT ![CodeIdx] = CodePage(s),
                                                            ![StackIdx] = StackPage(s)]]
  BY <1>0, UserNames DEF wire_user_tables, Contents, CodePage, StackPage
<1>10. Tree(pt', runtime_idx') /\ pt' \in Contents
  BY <1>1, <1>8 DEF n
<1> HIDE DEF f5
<1> QED
  BY <1>0, <1>9, <1>10, UserNames DEF Contents

(***************************************************************************)
(* TInv is an invariant.                                                   *)
(***************************************************************************)
LEMMA TInit == TablesInit => TInv
<1> SUFFICES ASSUME TablesInit PROVE TInv
  OBVIOUS
<1>1. NotBuilt
  BY DEF TablesInit, NotBuilt
<1>2. Tree(pt, runtime_idx) /\ pt \in [Tables -> [Idx -> Desc]]
  BY <1>1, EmptyTree DEF NotBuilt, Contents
<1>3. runtime_idx \in 0 .. POOL /\ ttbr0 \in Tables
  BY <1>1, Names, TablesAssumption DEF NotBuilt
<1> QED
  BY <1>1, <1>2, <1>3 DEF TInv, TablesTypeOK

LEMMA TBoot == TInv /\ ~Built /\ opal_build_tables => TInv' /\ Built'
<1> SUFFICES ASSUME TInv, ~Built, opal_build_tables PROVE TInv' /\ Built'
  OBVIOUS
<1>1. NotBuilt /\ runtime_idx' = runtime_idx /\ ttbr0' = ttbr0
  BY DEF TInv, opal_build_tables
<1>2. pt'[L0] = [AllInvalid EXCEPT ![0] = table_desc(L1)] /\ pt' \in Contents
  BY <1>1, BootWrites
<1>3. pt'[L0][0] # Invalid
  BY <1>2, DescFacts, Names, TablesAssumption DEF AllInvalid
<1>4. Tree(pt', runtime_idx')
  BY <1>1, BootTree DEF NotBuilt
<1> QED
  BY <1>1, <1>2, <1>3, <1>4 DEF TInv, TablesTypeOK, Built, Contents

LEMMA DeviceTypes ==
  ASSUME NEW p \in DevicePages, NEW attr \in {"Device", "Framebuffer"}
  PROVE  p \in Page /\ p \in Probes /\ attr \in Attrs
BY PagesAssumption DEF Page, Attrs

\* An ioremap leaves the root as it is, so the tables stay built.
LEMMA TMap ==
  ASSUME TInv, Built, NEW p \in DevicePages,
         \/ \E attr \in {"Device", "Framebuffer"} : ioremap_ok(p, attr)
         \/ ioremap_err(p)
  PROVE  TInv' /\ Built' /\ pt'[L0] = pt[L0] /\ ttbr0' = ttbr0
<1>0. p \in Page /\ runtime_idx \in 0 .. POOL /\ POOL \in Nat /\ pt \in Contents /\ ttbr0 \in Tables
  BY DeviceTypes, TablesAssumption DEF TInv, TablesTypeOK, Contents
<1>1. SUFFICES /\ Tree(pt', runtime_idx') /\ pt' \in Contents
               /\ runtime_idx' \in 0 .. POOL
               /\ pt'[L0] = pt[L0] /\ ttbr0' = ttbr0
  BY <1>0 DEF TInv, TablesTypeOK, Contents, Built
<1>2. ASSUME NEW attr \in {"Device", "Framebuffer"}, map_in_place(p, attr)
      PROVE  /\ Tree(pt', runtime_idx') /\ pt' \in Contents
             /\ runtime_idx' \in 0 .. POOL
             /\ pt'[L0] = pt[L0] /\ ttbr0' = ttbr0
  <2>1. attr \in Attrs /\ page_desc(p, attr) \in Desc /\ p[4] \in Idx
    BY <1>0, DeviceTypes, DescFacts DEF Page
  <2>2. pt'[L0] = pt[L0]
    BY <1>0, <1>2, <2>1, InPlaceWrites, WrittenElse, Names
  <2> QED
    BY <1>0, <1>2, <2>1, <2>2, InPlaceWrites DEF map_in_place
<1>3. ASSUME NEW attr \in {"Device", "Framebuffer"}, map_new_l3(p, attr)
      PROVE  /\ Tree(pt', runtime_idx') /\ pt' \in Contents
             /\ runtime_idx' \in 0 .. POOL
             /\ pt'[L0] = pt[L0] /\ ttbr0' = ttbr0
  <2> DEFINE t == Lookup1(pt, L0, p).to
             u == Runtime(runtime_idx)
             f == Written(pt, t, p[3], table_desc(u))
  <2>1. attr \in Attrs /\ page_desc(p, attr) \in Desc /\ p[3] \in Idx /\ p[4] \in Idx
    BY <1>0, DeviceTypes, DescFacts DEF Page
  <2>2. /\ t \in Inner /\ f \in Contents /\ runtime_idx \in 0 .. POOL - 1
        /\ runtime_idx' = runtime_idx + 1
        /\ pt' = Written(f, u, p[4], page_desc(p, attr))
        /\ Tree(pt', runtime_idx') /\ pt' \in Contents
    BY <1>0, <1>3, <2>1, NewL3Writes
  <2>3. runtime_idx \in Nat /\ runtime_idx < POOL
    BY <1>0, <2>2
  <2>4. u \in Tables /\ u # L0 /\ t # L0 /\ t \in Tables /\ table_desc(u) \in Desc
    BY <2>2, <2>3, RuntimeNames, Names, DescFacts
  <2>5. f[L0] = pt[L0]
    BY <1>0, <2>1, <2>4, WrittenElse, Names
  <2> HIDE DEF f, u, t
  <2>6. pt'[L0] = f[L0]
    BY <2>1, <2>2, <2>4, WrittenElse, Names
  <2> QED
    BY <1>0, <1>3, <2>2, <2>5, <2>6 DEF map_new_l3
<1>4. ASSUME NEW attr \in {"Device", "Framebuffer"}, map_new_l2(p, attr)
      PROVE  /\ Tree(pt', runtime_idx') /\ pt' \in Contents
             /\ runtime_idx' \in 0 .. POOL
             /\ pt'[L0] = pt[L0] /\ ttbr0' = ttbr0
  <2> DEFINE t == Lookup0(pt, L0, p).to
             u == Runtime(runtime_idx)
             v == Runtime(runtime_idx + 1)
             f == Written(pt, t, p[2], table_desc(u))
             g == Written(f, u, p[3], table_desc(v))
  <2>1. /\ attr \in Attrs /\ page_desc(p, attr) \in Desc
        /\ p[2] \in Idx /\ p[3] \in Idx /\ p[4] \in Idx
    BY <1>0, DeviceTypes, DescFacts DEF Page
  <2>2. /\ t \in Inner /\ f \in Contents /\ g \in Contents
        /\ runtime_idx \in 0 .. POOL - 2 /\ runtime_idx' = runtime_idx + 2
        /\ pt' = Written(g, v, p[4], page_desc(p, attr))
        /\ Tree(pt', runtime_idx') /\ pt' \in Contents
    BY <1>0, <1>4, <2>1, NewL2Writes
  <2>3. runtime_idx \in Nat /\ runtime_idx < POOL /\ runtime_idx + 1 < POOL
    BY <1>0, <2>2
  <2>4. /\ u \in Tables /\ u # L0 /\ v \in Tables /\ v # L0 /\ t # L0 /\ t \in Tables
        /\ table_desc(u) \in Desc /\ table_desc(v) \in Desc
    BY <2>2, <2>3, RuntimeNames, Names, DescFacts
  <2>5. f[L0] = pt[L0]
    BY <1>0, <2>1, <2>4, WrittenElse, Names
  <2> HIDE DEF f, u, v, t
  <2>6. g[L0] = f[L0]
    BY <2>1, <2>2, <2>4, WrittenElse, Names
  <2> HIDE DEF g
  <2>7. pt'[L0] = g[L0]
    BY <2>1, <2>2, <2>4, WrittenElse, Names
  <2> QED
    BY <1>0, <1>4, <2>2, <2>5, <2>6, <2>7 DEF map_new_l2
<1>5. ASSUME run_out(p)
      PROVE  /\ Tree(pt', runtime_idx') /\ pt' \in Contents
             /\ runtime_idx' \in 0 .. POOL
             /\ pt'[L0] = pt[L0] /\ ttbr0' = ttbr0
  <2>1. runtime_idx \in Nat /\ runtime_idx < POOL /\ p[2] \in Idx
    BY <1>0, <1>5, RunOutWrites DEF Page
  <2>2. table_desc(Runtime(runtime_idx)) \in Desc
    BY <2>1, RuntimeNames, Names, DescFacts
  <2>3. pt'[L0] = pt[L0]
    BY <1>0, <1>5, <2>1, <2>2, RunOutWrites, WrittenElse, Names
  <2>4. Tree(pt', runtime_idx') /\ pt' \in Contents
    BY <1>0, <1>5, RunOutWrites
  <2>5. runtime_idx' = POOL /\ ttbr0' = ttbr0
    BY <1>5 DEF run_out
  <2> QED
    BY <1>0, <2>3, <2>4, <2>5
<1>6. ASSUME refused(p)
      PROVE  /\ Tree(pt', runtime_idx') /\ pt' \in Contents
             /\ runtime_idx' \in 0 .. POOL
             /\ pt'[L0] = pt[L0] /\ ttbr0' = ttbr0
  BY <1>0, <1>6 DEF refused, tableVars, TInv
<1> QED
  BY <1>2, <1>3, <1>4, <1>5, <1>6 DEF ioremap_ok, ioremap_err

LEMMA TWire ==
  ASSUME TInv, Built, NEW s \in Slots, wire_user_tables(s)
  PROVE  TInv' /\ Built'
<1>1. Tree(pt', runtime_idx') /\ pt' \in Contents
  BY WireWrites
<1>2. pt'[L0] = pt[L0]
  BY WireWrites, UserNames, Names
<1>3. runtime_idx' = runtime_idx /\ ttbr0' = ttbr0
  BY DEF wire_user_tables
<1> QED
  BY <1>1, <1>2, <1>3 DEF TInv, TablesTypeOK, Built, Contents

LEMMA BuiltUnlessRoot == TInv /\ ttbr0 # L0 => Built
BY DEF TInv, NotBuilt

LEMMA TNext == TInv /\ [TablesNext]_tableVars => TInv'
<1> SUFFICES ASSUME TInv, [TablesNext]_tableVars PROVE TInv'
  OBVIOUS
<1>1. CASE ~Built /\ opal_build_tables
  BY <1>1, TBoot
<1>2. CASE Built /\ condemn_low_half
  BY <1>2, Names DEF condemn_low_half, TInv, TablesTypeOK, Built
<1>3. CASE MapDevice
  BY <1>3, BuiltUnlessRoot, TMap DEF MapDevice
<1>4. ASSUME NEW s \in Slots, ttbr0 = EmptyRoot, wire_user_tables(s) PROVE TInv'
  BY <1>4, BuiltUnlessRoot, Names, TWire
<1>5. ASSUME NEW s \in Slots, ttbr0 # L0, set_user_ttbr0(s) PROVE TInv'
  BY <1>5, BuiltUnlessRoot, UserNames DEF set_user_ttbr0, TInv, TablesTypeOK, Built
<1>6. CASE UNCHANGED tableVars
  BY <1>6 DEF tableVars, TInv, TablesTypeOK, Built, NotBuilt
<1> QED
  BY <1>1, <1>2, <1>3, <1>4, <1>5, <1>6 DEF TablesNext

THEOREM TablesInvariant == TablesSpec => []TInv
<1>1. TablesInit => TInv
  BY TInit
<1>2. TInv /\ [TablesNext]_tableVars => TInv'
  BY TNext
<1> QED
  BY <1>1, <1>2, PTL DEF TablesSpec

\* Every table holds descriptors, the cursor stays within the pool and TTBR0
\* holds a table, whatever is mapped, wired and installed in which order.
THEOREM TablesTyped == TablesSpec => []TablesTypeOK
<1>1. TInv => TablesTypeOK
  BY DEF TInv
<1> QED
  BY <1>1, TablesInvariant, PTL

\* The tables form a tree: every one has one parent, what the pool has not
\* handed out is empty and unlinked, and no path of one address space leads
\* into another. No failed ioremap breaks it.
THEOREM TablesAreATree == TablesSpec => []TablesFormATree
<1>1. TInv => TablesFormATree
  <2> SUFFICES ASSUME TInv PROVE TablesFormATree
    OBVIOUS
  <2>0. pt \in Contents /\ runtime_idx \in Nat /\ POOL \in Nat
    BY TablesAssumption DEF TInv, TablesTypeOK, Contents
  <2>1. ASSUME NEW l \in Links
        PROVE  /\ l[1] \in Tables /\ l[2] \in Idx /\ l = <<l[1], l[2]>>
               /\ Target(l) \in Tables /\ Arrow(pt, l[1], l[2], Target(l))
    <3>1. l \in Tables \X Idx /\ pt[l[1]][l[2]].type = "table"
      BY DEF Links
    <3>2. l[1] \in Tables /\ l[2] \in Idx /\ l = <<l[1], l[2]>>
      BY <3>1
    <3>3. pt[l[1]][l[2]] \in Desc
      BY <2>0, <3>2 DEF Contents
    <3> QED
      BY <3>1, <3>2, <3>3, DescFacts DEF Target, Arrow
  <2>2. ASSUME NEW l \in Links, NEW m \in Links, Target(l) = Target(m) PROVE l = m
    <3>1. l[1] = m[1] /\ l[2] = m[2]
      BY <2>1, <2>2 DEF TInv, Tree, OneParent
    <3> QED
      BY <2>1, <3>1
  <2>3. ASSUME NEW l \in Links
        PROVE  \/ l[1] \in KernelTables \cup Pool
                  /\ Target(l) \in (KernelTables \ {L0}) \cup Pool
               \/ \E s \in Slots : /\ l[1] \in {UserL0(s), UserL1(s), UserL2(s)}
                                   /\ Target(l) \in {UserL1(s), UserL2(s), UserL3(s)}
    BY <2>1 DEF TInv, Tree, TwoSides, KernelSide, Inner, UserLink
  <2>4. pt[EmptyRoot] = AllInvalid
    <3>1. pt[EmptyRoot] \in [Idx -> Desc] /\ \A i \in Idx : pt[EmptyRoot][i] = Invalid
      BY <2>0, Names DEF Contents, TInv, Tree, EmptyStays
    <3> QED
      BY <3>1 DEF AllInvalid
  <2>5. ASSUME NEW n \in runtime_idx .. POOL - 1
        PROVE  pt[Runtime(n)] = AllInvalid /\ \A l \in Links : Target(l) # Runtime(n)
    <3>0. Runtime(n) \in Tables
      BY <2>0, RuntimeNames, Names
    <3>1. Unused(pt, n)
      BY DEF TInv, Tree, RestUnused
    <3>2. pt[Runtime(n)] \in [Idx -> Desc]
      BY <2>0, <3>0 DEF Contents
    <3>3. pt[Runtime(n)] = AllInvalid
      BY <3>1, <3>2 DEF Unused, AllInvalid
    <3> QED
      BY <2>1, <3>1, <3>3 DEF Unused
  <2> QED
    BY <2>2, <2>3, <2>4, <2>5 DEF TablesFormATree
<1> QED
  BY <1>1, TablesInvariant, PTL
=============================================================================
