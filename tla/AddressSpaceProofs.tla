------------------------- MODULE AddressSpaceProofs -------------------------
(***************************************************************************)
(* The translation tables implement the address space: every step of       *)
(* PageTables is a step of AddressSpace on the two maps that a walk of the *)
(* tables defines, or a stutter.                                           *)
(***************************************************************************)
EXTENDS PageTablesProofs

(***************************************************************************)
(* Paths from the kernel's root. A table has one parent, so it is met at   *)
(* one level, and by the pages that share the indices that lead to it.     *)
(***************************************************************************)
LEMMA Paths ==
  ASSUME NEW f \in Contents, NEW n \in Nat, Tree(f, n), NEW p \in Page, NEW q \in Page
  PROVE  /\ Lookup0(f, L0, p).type = "table" /\ Lookup0(f, L0, q).type = "table"
            /\ Lookup0(f, L0, p).to = Lookup0(f, L0, q).to
              => p[1] = q[1]
         /\ Lookup1(f, L0, p).type = "table" /\ Lookup1(f, L0, q).type = "table"
            /\ Lookup1(f, L0, p).to = Lookup1(f, L0, q).to
              => p[1] = q[1] /\ p[2] = q[2]
         /\ Lookup2(f, L0, p).type = "table" /\ Lookup2(f, L0, q).type = "table"
            /\ Lookup2(f, L0, p).to = Lookup2(f, L0, q).to
              => p[1] = q[1] /\ p[2] = q[2] /\ p[3] = q[3]
         /\ Lookup1(f, L0, p).type = "table" /\ Lookup0(f, L0, q).type = "table"
              => Lookup1(f, L0, p).to # Lookup0(f, L0, q).to
         /\ Lookup2(f, L0, p).type = "table" /\ Lookup0(f, L0, q).type = "table"
              => Lookup2(f, L0, p).to # Lookup0(f, L0, q).to
         /\ Lookup2(f, L0, p).type = "table" /\ Lookup1(f, L0, q).type = "table"
              => Lookup2(f, L0, p).to # Lookup1(f, L0, q).to
<1> DEFINE d0(r) == Lookup0(f, L0, r)
           d1(r) == Lookup1(f, L0, r)
           d2(r) == Lookup2(f, L0, r)
<1>1. \A r \in {p, q} :
        /\ r[1] \in Idx /\ r[2] \in Idx /\ r[3] \in Idx
        /\ d0(r).type = "table" =>
             d0(r).to \in Tables /\ d0(r).to # L0 /\ Arrow(f, L0, r[1], d0(r).to)
        /\ d1(r).type = "table" =>
             /\ d0(r).type = "table" /\ d1(r).to \in Tables /\ d1(r).to # L0
             /\ Arrow(f, d0(r).to, r[2], d1(r).to)
        /\ d2(r).type = "table" =>
             /\ d1(r).type = "table" /\ d2(r).to \in Tables /\ d2(r).to # L0
             /\ Arrow(f, d1(r).to, r[3], d2(r).to)
  BY Lookups, Names DEF Page
<1>2. \A t, t2, u \in Tables : \A i, j \in Idx :
        Arrow(f, t, i, u) /\ Arrow(f, t2, j, u) => t = t2 /\ i = j
  BY DEF Tree, OneParent
<1>3. L0 \in Tables
  BY Names
<1> HIDE DEF d0, d1, d2
<1>4. ASSUME d0(p).type = "table", d0(q).type = "table", d0(p).to = d0(q).to
      PROVE  p[1] = q[1]
  BY <1>1, <1>2, <1>3, <1>4
<1>5. ASSUME d1(p).type = "table", d1(q).type = "table", d1(p).to = d1(q).to
      PROVE  p[1] = q[1] /\ p[2] = q[2] /\ d0(p).to = d0(q).to
  <2>1. d0(p).to = d0(q).to /\ p[2] = q[2]
    BY <1>1, <1>2, <1>5
  <2> QED
    BY <1>1, <1>4, <1>5, <2>1
<1>6. ASSUME d2(p).type = "table", d2(q).type = "table", d2(p).to = d2(q).to
      PROVE  p[1] = q[1] /\ p[2] = q[2] /\ p[3] = q[3]
  <2>1. d1(p).to = d1(q).to /\ p[3] = q[3]
    BY <1>1, <1>2, <1>6
  <2> QED
    BY <1>1, <1>5, <1>6, <2>1
<1>7. d1(p).type = "table" /\ d0(q).type = "table" => d1(p).to # d0(q).to
  BY <1>1, <1>2, <1>3
<1>8. d2(p).type = "table" /\ d0(q).type = "table" => d2(p).to # d0(q).to
  BY <1>1, <1>2, <1>3
<1>9. ASSUME d2(p).type = "table", d1(q).type = "table" PROVE d2(p).to # d1(q).to
  <2>1. d2(p).to = d1(q).to => d1(p).to = d0(q).to
    BY <1>1, <1>2, <1>9
  <2> QED
    BY <1>1, <1>7, <1>9, <2>1
<1> QED
  BY <1>4, <1>5, <1>6, <1>7, <1>8, <1>9 DEF d0, d1, d2

\* Two families of tables that agree along a path agree on where it leads.
LEMMA SameWalk ==
  ASSUME NEW f, NEW g, NEW r, NEW q,
         Lookup0(g, r, q) = Lookup0(f, r, q),
         Lookup0(f, r, q).type = "table" =>
           g[Lookup0(f, r, q).to][q[2]] = f[Lookup0(f, r, q).to][q[2]],
         Lookup1(f, r, q).type = "table" =>
           g[Lookup1(f, r, q).to][q[3]] = f[Lookup1(f, r, q).to][q[3]],
         Lookup2(f, r, q).type = "table" =>
           g[Lookup2(f, r, q).to][q[4]] = f[Lookup2(f, r, q).to][q[4]]
  PROVE  Walk(g, r, q) = Walk(f, r, q)
<1>1. Lookup1(g, r, q) = Lookup1(f, r, q)
  BY DEF Lookup1, Step
<1>2. Lookup2(g, r, q) = Lookup2(f, r, q)
  BY <1>1 DEF Lookup2, Step
<1>3. Lookup3(g, r, q) = Lookup3(f, r, q)
  BY <1>2 DEF Lookup3, Step
<1> QED
  BY <1>2, <1>3 DEF Walk

\* A lookup that meets an invalid descriptor ends in a fault.
LEMMA FaultWalk ==
  ASSUME NEW f, NEW r, NEW q,
         \/ Lookup0(f, r, q) = Invalid
         \/ Lookup1(f, r, q) = Invalid
         \/ Lookup2(f, r, q) = Invalid
         \/ Lookup3(f, r, q) = Invalid /\ Lookup2(f, r, q).type # "block"
  PROVE  Walk(f, r, q) = Fault
<1>0. Invalid.type = "invalid"
  BY DescFacts
<1>1. Lookup0(f, r, q) = Invalid => Lookup1(f, r, q) = Invalid
  BY <1>0 DEF Lookup1, Step
<1>2. Lookup1(f, r, q) = Invalid => Lookup2(f, r, q) = Invalid
  BY <1>0 DEF Lookup2, Step
<1>3. Lookup2(f, r, q) = Invalid =>
        Lookup3(f, r, q) = Invalid /\ Lookup2(f, r, q).type # "block"
  BY <1>0 DEF Lookup3, Step
<1> QED
  BY <1>0, <1>1, <1>2, <1>3 DEF Walk

LEMMA PageWalk ==
  ASSUME NEW f, NEW r, NEW q, NEW pa, NEW attr,
         Lookup2(f, r, q).type = "table", Lookup3(f, r, q) = page_desc(pa, attr)
  PROVE  Walk(f, r, q) = [pa |-> pa, attr |-> attr]
BY DEF Walk, page_desc

LEMMA InvalidDesc ==
  ASSUME NEW d \in Desc, d.type = "invalid"
  PROVE  d = Invalid
BY DEF Desc, Invalid

(***************************************************************************)
(* Where the kernel's pages lead after an ioremap of page p.               *)
(***************************************************************************)
MapsOne(p, attr) ==
  \A q \in Page : Walk(pt', L0, q) =
                    IF q = p THEN [pa |-> p, attr |-> attr] ELSE Walk(pt, L0, q)

LEMMA TupleSplit ==
  ASSUME NEW p \in Page, NEW q \in Page,
         p[1] = q[1], p[2] = q[2], p[3] = q[3], p[4] = q[4]
  PROVE  p = q
BY DEF Page

LEMMA InPlaceMaps ==
  ASSUME TInv, NEW p \in Page, NEW attr \in Attrs, map_in_place(p, attr)
  PROVE  MapsOne(p, attr)
<1> SUFFICES ASSUME NEW q \in Page
             PROVE  Walk(pt', L0, q) =
                      IF q = p THEN [pa |-> p, attr |-> attr] ELSE Walk(pt, L0, q)
  BY DEF MapsOne
<1> DEFINE f == pt
           g == pt'
           t == Lookup2(pt, L0, p).to
           d == page_desc(p, attr)
<1>0. /\ f \in Contents /\ runtime_idx \in Nat /\ Tree(f, runtime_idx) /\ d \in Desc
      /\ p[4] \in Idx /\ q[1] \in Idx /\ q[2] \in Idx /\ q[3] \in Idx /\ q[4] \in Idx
  BY TablesAssumption, DescFacts DEF TInv, TablesTypeOK, Contents, Page
<1>1. t \in Inner /\ t \in Tables /\ t # L0 /\ Lookup2(f, L0, p).type = "table"
      /\ g = Written(f, t, p[4], d)
  BY InPlaceWrites, Names DEF map_in_place
<1>2. \A x \in Tables, j \in Idx : x # t \/ j # p[4] => g[x][j] = f[x][j]
  BY <1>0, <1>1, WrittenOther
<1>3. g[t][p[4]] = d
  BY <1>0, <1>1, WrittenFacts
<1> HIDE DEF f, g, d
<1>4. Lookup0(g, L0, q) = Lookup0(f, L0, q)
  BY <1>0, <1>1, <1>2, Names DEF Lookup0
<1>5. Lookup0(f, L0, q).type = "table" =>
        g[Lookup0(f, L0, q).to][q[2]] = f[Lookup0(f, L0, q).to][q[2]]
  BY <1>0, <1>1, <1>2, Paths, Lookups, Names DEF f
<1>6. Lookup1(f, L0, q).type = "table" =>
        g[Lookup1(f, L0, q).to][q[3]] = f[Lookup1(f, L0, q).to][q[3]]
  BY <1>0, <1>1, <1>2, Paths, Lookups, Names DEF f
<1>7. CASE q # p
  <2>1. Lookup2(f, L0, q).type = "table" =>
          /\ Lookup2(f, L0, q).to \in Tables
          /\ Lookup2(f, L0, q).to # t \/ q[4] # p[4]
    BY <1>0, <1>1, <1>7, Paths, Lookups, Names, TupleSplit DEF f
  <2>2. Lookup2(f, L0, q).type = "table" =>
          g[Lookup2(f, L0, q).to][q[4]] = f[Lookup2(f, L0, q).to][q[4]]
    BY <1>0, <1>2, <2>1
  <2>3. Walk(g, L0, q) = Walk(f, L0, q)
    BY <1>4, <1>5, <1>6, <2>2, SameWalk
  <2> QED
    BY <1>7, <2>3 DEF f, g
<1>8. CASE q = p
  <2>1. Lookup1(g, L0, q) = Lookup1(f, L0, q)
    BY <1>4, <1>5 DEF Lookup1, Step
  <2>2. Lookup2(g, L0, q) = Lookup2(f, L0, q)
    BY <1>6, <2>1 DEF Lookup2, Step
  <2>3. Lookup2(g, L0, q).type = "table" /\ Lookup2(g, L0, q).to = t
    BY <1>1, <1>8, <2>2 DEF f
  <2>4. Lookup3(g, L0, q) = d
    BY <1>3, <1>8, <2>3 DEF Lookup3, Step
  <2>5. Walk(g, L0, q) = [pa |-> p, attr |-> attr]
    BY <2>3, <2>4, PageWalk DEF d
  <2> QED
    BY <1>8, <2>5 DEF g
<1> QED
  BY <1>7, <1>8

LEMMA NewL3Maps ==
  ASSUME TInv, NEW p \in Page, NEW attr \in Attrs, map_new_l3(p, attr)
  PROVE  MapsOne(p, attr)
<1> SUFFICES ASSUME NEW q \in Page
             PROVE  Walk(pt', L0, q) =
                      IF q = p THEN [pa |-> p, attr |-> attr] ELSE Walk(pt, L0, q)
  BY DEF MapsOne
<1> DEFINE n == runtime_idx
           f == pt
           g == pt'
           t == Lookup1(pt, L0, p).to
           u == Runtime(runtime_idx)
           h == Written(pt, t, p[3], table_desc(u))
           d == page_desc(p, attr)
<1>0. /\ f \in Contents /\ n \in Nat /\ Tree(f, n) /\ d \in Desc
      /\ p[3] \in Idx /\ p[4] \in Idx
      /\ q[1] \in Idx /\ q[2] \in Idx /\ q[3] \in Idx /\ q[4] \in Idx
  BY TablesAssumption, DescFacts DEF TInv, TablesTypeOK, Contents, Page
<1>1. /\ t \in Inner /\ t \in Tables /\ t # L0 /\ Taken(t, n)
      /\ Lookup1(f, L0, p).type = "table" /\ f[t][p[3]].type = "invalid"
      /\ n \in 0 .. POOL - 1 /\ h \in Contents /\ g = Written(h, u, p[4], d)
  BY NewL3Writes, Names DEF map_new_l3
<1>2. /\ n < POOL /\ u \in Tables /\ u # L0 /\ u # t /\ table_desc(u) \in Desc
      /\ \A x : Taken(x, n) => x # u
  BY <1>0, <1>1, RuntimeNames, Names, DescFacts, TablesAssumption DEF Taken
<1>3. f[t][p[3]] = Invalid /\ \A j \in Idx : f[u][j] = Invalid
  <2>1. f[t][p[3]] \in Desc
    BY <1>0, <1>1 DEF Contents
  <2>2. Unused(f, n)
    BY <1>0, <1>1 DEF Tree, RestUnused
  <2> QED
    BY <1>1, <2>1, <2>2, InvalidDesc DEF Unused
<1> HIDE DEF u, d, t
<1>4. \A x \in Tables, j \in Idx : x # u /\ (x # t \/ j # p[3]) => g[x][j] = f[x][j]
  <2> SUFFICES ASSUME NEW x \in Tables, NEW j \in Idx, x # u, x # t \/ j # p[3]
               PROVE  g[x][j] = f[x][j]
    OBVIOUS
  <2>1. h[x][j] = f[x][j]
    BY <1>0, <1>1, <1>2, WrittenOther
  <2> HIDE DEF h
  <2> QED
    BY <1>0, <1>1, <1>2, <2>1, WrittenOther
<1>5. g[t][p[3]] = table_desc(u)
  <2>1. h[t][p[3]] = table_desc(u)
    BY <1>0, <1>1, <1>2, WrittenAt
  <2> HIDE DEF h
  <2> QED
    BY <1>0, <1>1, <1>2, <2>1, WrittenOther
<1>6. g[u][p[4]] = d /\ \A j \in Idx : j # p[4] => g[u][j] = Invalid
  <2>1. ASSUME NEW j \in Idx PROVE h[u][j] = Invalid
    <3>1. h[u][j] = f[u][j]
      BY <1>0, <1>1, <1>2, WrittenOther
    <3> QED
      BY <1>3, <3>1
  <2> HIDE DEF h
  <2>2. g[u][p[4]] = d
    BY <1>0, <1>1, <1>2, WrittenAt
  <2>3. ASSUME NEW j \in Idx, j # p[4] PROVE g[u][j] = Invalid
    <3>1. g[u][j] = h[u][j]
      BY <1>0, <1>1, <1>2, <2>3, WrittenOther
    <3> QED
      BY <2>1, <3>1
  <2> QED
    BY <2>2, <2>3
<1> HIDE DEF f, g, h, n
<1>7. Lookup0(g, L0, q) = Lookup0(f, L0, q)
  BY <1>0, <1>1, <1>2, <1>4, Names DEF Lookup0
<1>8. Lookup0(f, L0, q).type = "table" =>
        g[Lookup0(f, L0, q).to][q[2]] = f[Lookup0(f, L0, q).to][q[2]]
  BY <1>0, <1>1, <1>2, <1>4, Paths, Lookups, Names DEF t, f
<1>9. Lookup1(g, L0, q) = Lookup1(f, L0, q)
  BY <1>7, <1>8 DEF Lookup1, Step
<1>10. CASE q[1] = p[1] /\ q[2] = p[2] /\ q[3] = p[3]
  <2>1. Lookup1(f, L0, q) = Lookup1(f, L0, p)
    BY <1>10 DEF Lookup0, Lookup1, Step
  <2>2. Lookup2(f, L0, q) = Invalid
    BY <1>1, <1>3, <1>10, <2>1 DEF Lookup2, Step, t, f
  <2>3. Walk(f, L0, q) = Fault
    BY <2>2, FaultWalk
  <2>4. Lookup2(g, L0, q) = table_desc(u)
    BY <1>1, <1>5, <1>9, <1>10, <2>1 DEF Lookup2, Step, t, f
  <2>5. Lookup3(g, L0, q) = g[u][q[4]] /\ Lookup2(g, L0, q).type = "table"
    BY <2>4, DescFacts DEF Lookup3, Step
  <2>6. CASE q[4] = p[4]
    <3>1. q = p
      BY <1>10, <2>6, TupleSplit
    <3>2. Walk(g, L0, q) = [pa |-> p, attr |-> attr]
      BY <1>6, <2>5, <2>6, PageWalk DEF d
    <3> QED
      BY <3>1, <3>2 DEF g
  <2>7. CASE q[4] # p[4]
    <3>1. Walk(g, L0, q) = Fault
      BY <1>0, <1>6, <2>5, <2>7, FaultWalk
    <3> QED
      BY <2>3, <2>7, <3>1 DEF f, g
  <2> QED
    BY <2>6, <2>7
<1>11. CASE ~(q[1] = p[1] /\ q[2] = p[2] /\ q[3] = p[3])
  <2>1. Lookup1(f, L0, q).type = "table" =>
          g[Lookup1(f, L0, q).to][q[3]] = f[Lookup1(f, L0, q).to][q[3]]
    <3>1. Lookup1(f, L0, q).type = "table" =>
            /\ Lookup1(f, L0, q).to \in Tables /\ Lookup1(f, L0, q).to # u
            /\ Lookup1(f, L0, q).to # t \/ q[3] # p[3]
      BY <1>0, <1>1, <1>2, <1>11, Paths, Lookups, Names DEF t, f
    <3> QED
      BY <1>0, <1>4, <3>1
  <2>2. Lookup2(f, L0, q).type = "table" =>
          g[Lookup2(f, L0, q).to][q[4]] = f[Lookup2(f, L0, q).to][q[4]]
    <3>1. Lookup2(f, L0, q).type = "table" =>
            /\ Lookup2(f, L0, q).to \in Tables /\ Lookup2(f, L0, q).to # u
            /\ Lookup2(f, L0, q).to # t
      BY <1>0, <1>1, <1>2, Paths, Lookups, Names DEF t, f
    <3> QED
      BY <1>0, <1>4, <3>1
  <2>3. Walk(g, L0, q) = Walk(f, L0, q)
    BY <1>7, <1>8, <2>1, <2>2, SameWalk
  <2> QED
    BY <1>11, <2>3 DEF f, g
<1> QED
  BY <1>10, <1>11

LEMMA RunOutMaps ==
  ASSUME TInv, NEW p \in Page, run_out(p)
  PROVE  \A q \in Page : Walk(pt', L0, q) = Walk(pt, L0, q)
<1> SUFFICES ASSUME NEW q \in Page
             PROVE  Walk(pt', L0, q) = Walk(pt, L0, q)
  OBVIOUS
<1> DEFINE n == runtime_idx
           f == pt
           g == pt'
           t == Lookup0(pt, L0, p).to
           u == Runtime(runtime_idx)
<1>0. /\ f \in Contents /\ n \in Nat /\ Tree(f, n)
      /\ p[2] \in Idx /\ p[1] \in Idx
      /\ q[1] \in Idx /\ q[2] \in Idx /\ q[3] \in Idx /\ q[4] \in Idx
  BY TablesAssumption DEF TInv, TablesTypeOK, Contents, Page
<1>1. /\ t \in Inner /\ t \in Tables /\ t # L0 /\ Taken(t, n)
      /\ Lookup0(f, L0, p).type = "table" /\ f[t][p[2]].type = "invalid"
      /\ n \in 0 .. POOL - 1 /\ g = Written(f, t, p[2], table_desc(u))
  BY RunOutWrites, Names DEF run_out
<1>2. /\ n < POOL /\ u \in Tables /\ u # t /\ table_desc(u) \in Desc
      /\ \A x : Taken(x, n) => x # u
  BY <1>0, <1>1, RuntimeNames, Names, DescFacts, TablesAssumption DEF Taken
<1>3. f[t][p[2]] = Invalid /\ \A j \in Idx : f[u][j] = Invalid
  <2>1. f[t][p[2]] \in Desc
    BY <1>0, <1>1 DEF Contents
  <2>2. Unused(f, n)
    BY <1>0, <1>1 DEF Tree, RestUnused
  <2> QED
    BY <1>1, <2>1, <2>2, InvalidDesc DEF Unused
<1> HIDE DEF u, t
<1>4. \A x \in Tables, j \in Idx : x # t \/ j # p[2] => g[x][j] = f[x][j]
  BY <1>0, <1>1, <1>2, WrittenOther
<1>5. g[t][p[2]] = table_desc(u)
  BY <1>0, <1>1, <1>2, WrittenFacts
<1>6. \A j \in Idx : g[u][j] = Invalid
  BY <1>2, <1>3, <1>4
<1> HIDE DEF f, g, n
<1>7. Lookup0(g, L0, q) = Lookup0(f, L0, q)
  BY <1>0, <1>1, <1>4, Names DEF Lookup0
<1>8. CASE q[1] = p[1] /\ q[2] = p[2]
  <2>1. Lookup0(f, L0, q) = Lookup0(f, L0, p)
    BY <1>8 DEF Lookup0
  <2>2. Lookup1(f, L0, q) = Invalid
    BY <1>1, <1>3, <1>8, <2>1 DEF Lookup1, Step, t, f
  <2>3. Lookup1(g, L0, q) = table_desc(u)
    BY <1>1, <1>5, <1>7, <1>8, <2>1 DEF Lookup1, Step, t, f
  <2>4. Lookup2(g, L0, q) = Invalid
    BY <1>0, <1>6, <2>3, DescFacts DEF Lookup2, Step
  <2>5. Walk(f, L0, q) = Fault /\ Walk(g, L0, q) = Fault
    BY <2>2, <2>4, FaultWalk
  <2> QED
    BY <2>5 DEF f, g
<1>9. CASE ~(q[1] = p[1] /\ q[2] = p[2])
  <2>1. Lookup0(f, L0, q).type = "table" =>
          g[Lookup0(f, L0, q).to][q[2]] = f[Lookup0(f, L0, q).to][q[2]]
    <3>1. Lookup0(f, L0, q).type = "table" =>
            /\ Lookup0(f, L0, q).to \in Tables
            /\ Lookup0(f, L0, q).to # t \/ q[2] # p[2]
      BY <1>0, <1>1, <1>9, Paths, Lookups, Names DEF t, f
    <3> QED
      BY <1>0, <1>4, <3>1
  <2>2. Lookup1(f, L0, q).type = "table" =>
          g[Lookup1(f, L0, q).to][q[3]] = f[Lookup1(f, L0, q).to][q[3]]
    <3>1. Lookup1(f, L0, q).type = "table" =>
            /\ Lookup1(f, L0, q).to \in Tables
            /\ Lookup1(f, L0, q).to # t
      BY <1>0, <1>1, Paths, Lookups, Names DEF t, f
    <3> QED
      BY <1>0, <1>4, <3>1
  <2>3. Lookup2(f, L0, q).type = "table" =>
          g[Lookup2(f, L0, q).to][q[4]] = f[Lookup2(f, L0, q).to][q[4]]
    <3>1. Lookup2(f, L0, q).type = "table" =>
            /\ Lookup2(f, L0, q).to \in Tables
            /\ Lookup2(f, L0, q).to # t
      BY <1>0, <1>1, Paths, Lookups, Names DEF t, f
    <3> QED
      BY <1>0, <1>4, <3>1
  <2>4. Walk(g, L0, q) = Walk(f, L0, q)
    BY <1>7, <2>1, <2>2, <2>3, SameWalk
  <2> QED
    BY <2>4 DEF f, g
<1> QED
  BY <1>8, <1>9

LEMMA NewL2Maps ==
  ASSUME TInv, NEW p \in Page, NEW attr \in Attrs, map_new_l2(p, attr)
  PROVE  MapsOne(p, attr)
<1> SUFFICES ASSUME NEW q \in Page
             PROVE  Walk(pt', L0, q) =
                      IF q = p THEN [pa |-> p, attr |-> attr] ELSE Walk(pt, L0, q)
  BY DEF MapsOne
<1> DEFINE n == runtime_idx
           f == pt
           g == pt'
           t == Lookup0(pt, L0, p).to
           u == Runtime(runtime_idx)
           v == Runtime(runtime_idx + 1)
           h == Written(pt, t, p[2], table_desc(u))
           k == Written(h, u, p[3], table_desc(v))
           d == page_desc(p, attr)
<1>0. /\ f \in Contents /\ n \in Nat /\ Tree(f, n) /\ d \in Desc
      /\ p[2] \in Idx /\ p[3] \in Idx /\ p[4] \in Idx
      /\ q[1] \in Idx /\ q[2] \in Idx /\ q[3] \in Idx /\ q[4] \in Idx
  BY TablesAssumption, DescFacts DEF TInv, TablesTypeOK, Contents, Page
<1>1. /\ t \in Inner /\ t \in Tables /\ t # L0 /\ Taken(t, n)
      /\ Lookup0(f, L0, p).type = "table" /\ f[t][p[2]].type = "invalid"
      /\ n \in 0 .. POOL - 2 /\ h \in Contents /\ k \in Contents
      /\ g = Written(k, v, p[4], d)
  BY NewL2Writes, Names DEF map_new_l2
<1>2. /\ u \in Tables /\ u # L0 /\ u # t /\ table_desc(u) \in Desc
      /\ v \in Tables /\ v # L0 /\ v # t /\ v # u /\ table_desc(v) \in Desc
      /\ \A x : Taken(x, n) => x # u /\ x # v
  <2>1. /\ n \in Nat /\ n + 1 \in Nat /\ n < POOL /\ n + 1 < POOL
        /\ n \in n .. POOL - 1 /\ n + 1 \in n .. POOL - 1
    BY <1>0, <1>1, TablesAssumption
  <2>2. /\ u \in Tables /\ u # L0 /\ table_desc(u) \in Desc
        /\ v \in Tables /\ v # L0 /\ table_desc(v) \in Desc /\ v # u
    BY <2>1, RuntimeNames, Names, DescFacts
  <2>3. \A x : Taken(x, n) => x # u /\ x # v
    BY <2>1 DEF Taken
  <2> QED
    BY <1>1, <2>2, <2>3
<1>3. /\ f[t][p[2]] = Invalid
      /\ \A j \in Idx : f[u][j] = Invalid /\ f[v][j] = Invalid
  <2>1. f[t][p[2]] \in Desc
    BY <1>0, <1>1 DEF Contents
  <2>2. Unused(f, n) /\ Unused(f, n + 1)
    BY <1>0, <1>1, TablesAssumption DEF Tree, RestUnused
  <2> QED
    BY <1>1, <2>1, <2>2, InvalidDesc DEF Unused
<1> HIDE DEF u, v, d, t
<1>4. \A x \in Tables, j \in Idx :
        x # u /\ x # v /\ (x # t \/ j # p[2]) => g[x][j] = f[x][j]
  <2> SUFFICES ASSUME NEW x \in Tables, NEW j \in Idx,
                      x # u, x # v, x # t \/ j # p[2]
               PROVE  g[x][j] = f[x][j]
    OBVIOUS
  <2>1. h[x][j] = f[x][j]
    BY <1>0, <1>1, <1>2, WrittenOther
  <2> HIDE DEF h
  <2>2. k[x][j] = h[x][j]
    BY <1>0, <1>1, <1>2, WrittenOther
  <2> HIDE DEF k
  <2>3. g[x][j] = k[x][j]
    <3>1. /\ k \in Contents /\ v \in Tables /\ p[4] \in Idx /\ d \in Desc
          /\ g = Written(k, v, p[4], d)
      BY <1>0, <1>1, <1>2
    <3> QED
      BY <3>1, WrittenOther
  <2> QED
    BY <2>1, <2>2, <2>3
<1>5. g[t][p[2]] = table_desc(u)
  <2>1. h[t][p[2]] = table_desc(u)
    BY <1>0, <1>1, <1>2, WrittenAt
  <2> HIDE DEF h
  <2>2. k[t][p[2]] = h[t][p[2]]
    BY <1>0, <1>1, <1>2, WrittenOther
  <2> HIDE DEF k
  <2>3. g[t][p[2]] = k[t][p[2]]
    BY <1>0, <1>1, <1>2, WrittenOther
  <2> QED
    BY <2>1, <2>2, <2>3
<1>6. g[u][p[3]] = table_desc(v) /\ \A j \in Idx : j # p[3] => g[u][j] = Invalid
  <2>1. ASSUME NEW j \in Idx PROVE g[u][j] = k[u][j]
    <3> HIDE DEF k, h
    <3> QED
      BY <1>0, <1>1, <1>2, WrittenOther
  <2>2. ASSUME NEW j \in Idx PROVE h[u][j] = Invalid
    <3>1. h[u][j] = f[u][j]
      BY <1>0, <1>1, <1>2, WrittenOther
    <3> QED
      BY <1>3, <3>1
  <2> HIDE DEF h
  <2>3. k[u][p[3]] = table_desc(v)
    BY <1>0, <1>1, <1>2, WrittenAt
  <2>4. ASSUME NEW j \in Idx, j # p[3] PROVE k[u][j] = h[u][j]
    BY <1>0, <1>1, <1>2, <2>4, WrittenOther
  <2> HIDE DEF k
  <2> QED
    BY <1>0, <2>1, <2>2, <2>3, <2>4
<1>7. g[v][p[4]] = d /\ \A j \in Idx : j # p[4] => g[v][j] = Invalid
  <2>1. ASSUME NEW j \in Idx PROVE h[v][j] = Invalid
    <3>1. h[v][j] = f[v][j]
      BY <1>0, <1>1, <1>2, WrittenOther
    <3> QED
      BY <1>3, <3>1
  <2> HIDE DEF h
  <2>2. ASSUME NEW j \in Idx PROVE k[v][j] = h[v][j]
    BY <1>0, <1>1, <1>2, WrittenOther
  <2> HIDE DEF k
  <2>3. g[v][p[4]] = d
    BY <1>0, <1>1, <1>2, WrittenAt
  <2>4. ASSUME NEW j \in Idx, j # p[4] PROVE g[v][j] = k[v][j]
    BY <1>0, <1>1, <1>2, <2>4, WrittenOther
  <2> QED
    BY <2>1, <2>2, <2>3, <2>4
<1> HIDE DEF f, g, h, k, n
<1>8. Lookup0(g, L0, q) = Lookup0(f, L0, q)
  BY <1>0, <1>1, <1>2, <1>4, Names DEF Lookup0
<1>9. CASE q[1] = p[1] /\ q[2] = p[2]
  <2>1. Lookup0(f, L0, q) = Lookup0(f, L0, p)
    BY <1>9 DEF Lookup0
  <2>2. Lookup1(f, L0, q) = Invalid
    BY <1>1, <1>3, <1>9, <2>1 DEF Lookup1, Step, t, f
  <2>3. Walk(f, L0, q) = Fault
    BY <2>2, FaultWalk
  <2>4. Lookup1(g, L0, q) = table_desc(u)
    BY <1>1, <1>5, <1>8, <1>9, <2>1 DEF Lookup1, Step, t, f
  <2>5. Lookup2(g, L0, q) = g[u][q[3]]
    BY <2>4, DescFacts DEF Lookup2, Step
  <2>6. CASE q[3] # p[3]
    <3>1. Walk(g, L0, q) = Fault
      BY <1>0, <1>6, <2>5, <2>6, FaultWalk
    <3> QED
      BY <2>3, <2>6, <3>1 DEF f, g
  <2>7. CASE q[3] = p[3]
    <3>1. Lookup3(g, L0, q) = g[v][q[4]] /\ Lookup2(g, L0, q).type = "table"
      BY <1>6, <2>5, <2>7, DescFacts DEF Lookup3, Step
    <3>2. CASE q[4] = p[4]
      <4>1. q = p
        BY <1>9, <2>7, <3>2, TupleSplit
      <4>2. Walk(g, L0, q) = [pa |-> p, attr |-> attr]
        BY <1>7, <3>1, <3>2, PageWalk DEF d
      <4> QED
        BY <4>1, <4>2 DEF g
    <3>3. CASE q[4] # p[4]
      <4>1. Walk(g, L0, q) = Fault
        BY <1>0, <1>7, <3>1, <3>3, FaultWalk
      <4> QED
        BY <2>3, <3>3, <4>1 DEF f, g
    <3> QED
      BY <3>2, <3>3
  <2> QED
    BY <2>6, <2>7
<1>10. CASE ~(q[1] = p[1] /\ q[2] = p[2])
  <2>1. Lookup0(f, L0, q).type = "table" =>
          g[Lookup0(f, L0, q).to][q[2]] = f[Lookup0(f, L0, q).to][q[2]]
    <3>1. Lookup0(f, L0, q).type = "table" =>
            /\ Lookup0(f, L0, q).to \in Tables
            /\ Lookup0(f, L0, q).to # u /\ Lookup0(f, L0, q).to # v
            /\ Lookup0(f, L0, q).to # t \/ q[2] # p[2]
      BY <1>0, <1>1, <1>2, <1>10, Paths, Lookups, Names DEF t, f
    <3> QED
      BY <1>0, <1>4, <3>1
  <2>2. Lookup1(f, L0, q).type = "table" =>
          g[Lookup1(f, L0, q).to][q[3]] = f[Lookup1(f, L0, q).to][q[3]]
    <3>1. Lookup1(f, L0, q).type = "table" =>
            /\ Lookup1(f, L0, q).to \in Tables
            /\ Lookup1(f, L0, q).to # u /\ Lookup1(f, L0, q).to # v
            /\ Lookup1(f, L0, q).to # t
      BY <1>0, <1>1, <1>2, Paths, Lookups, Names DEF t, f
    <3> QED
      BY <1>0, <1>4, <3>1
  <2>3. Lookup2(f, L0, q).type = "table" =>
          g[Lookup2(f, L0, q).to][q[4]] = f[Lookup2(f, L0, q).to][q[4]]
    <3>1. Lookup2(f, L0, q).type = "table" =>
            /\ Lookup2(f, L0, q).to \in Tables
            /\ Lookup2(f, L0, q).to # u /\ Lookup2(f, L0, q).to # v
            /\ Lookup2(f, L0, q).to # t
      BY <1>0, <1>1, <1>2, Paths, Lookups, Names DEF t, f
    <3> QED
      BY <1>0, <1>4, <3>1
  <2>4. Walk(g, L0, q) = Walk(f, L0, q)
    BY <1>8, <2>1, <2>2, <2>3, SameWalk
  <2>5. q # p
    BY <1>10
  <2> QED
    BY <2>4, <2>5 DEF f, g
<1> QED
  BY <1>9, <1>10

(***************************************************************************)
(* Writes on one side do not change where the other side leads.            *)
(***************************************************************************)
\* The kernel's pages see the kernel's tables only.
LEMMA KernelSees ==
  ASSUME NEW f \in Contents, NEW n \in Nat, Tree(f, n), NEW g,
         \A t \in KernelSide : g[t] = f[t],
         NEW q \in Page
  PROVE  Walk(g, L0, q) = Walk(f, L0, q)
<1>1. L0 \in KernelSide /\ \A t \in Inner : t \in KernelSide
  BY Names
<1>2. Lookup0(g, L0, q) = Lookup0(f, L0, q)
  BY <1>1 DEF Lookup0
<1>3. Lookup0(f, L0, q).type = "table" =>
        g[Lookup0(f, L0, q).to][q[2]] = f[Lookup0(f, L0, q).to][q[2]]
  BY <1>1, Lookups
<1>4. Lookup1(f, L0, q).type = "table" =>
        g[Lookup1(f, L0, q).to][q[3]] = f[Lookup1(f, L0, q).to][q[3]]
  BY <1>1, Lookups
<1>5. Lookup2(f, L0, q).type = "table" =>
        g[Lookup2(f, L0, q).to][q[4]] = f[Lookup2(f, L0, q).to][q[4]]
  BY <1>1, Lookups
<1> QED
  BY <1>2, <1>3, <1>4, <1>5, SameWalk

\* What an installed slot opens: its code page and its stack page.
Blank(f, s) ==
  \A t \in {UserL0(s), UserL1(s), UserL2(s), UserL3(s)} : f[t] = AllInvalid
Shaped(f, s) ==
  /\ f[UserL0(s)] = [AllInvalid EXCEPT ![0] = table_desc(UserL1(s))]
  /\ f[UserL1(s)] = [AllInvalid EXCEPT ![0] = table_desc(UserL2(s))]
  /\ f[UserL2(s)] = [AllInvalid EXCEPT ![0] = table_desc(UserL3(s))]
  /\ f[UserL3(s)] = [AllInvalid EXCEPT ![CodeIdx] = CodePage(s), ![StackIdx] = StackPage(s)]

LEMMA OneEntry ==
  ASSUME NEW d, NEW i \in Idx
  PROVE  [AllInvalid EXCEPT ![0] = d][i] = IF i = 0 THEN d ELSE Invalid
BY DEF AllInvalid

LEMMA UserWalk ==
  ASSUME NEW f, NEW s \in Slots, Shaped(f, s), NEW q \in Probes
  PROVE  Walk(f, UserL0(s), q) = UserView(s)[q]
<1> DEFINE r == UserL0(s)
           c == <<0, 0, 0, CodeIdx>>
           k == <<0, 0, 0, StackIdx>>
<1>0. /\ q \in Page /\ q[1] \in Idx /\ q[2] \in Idx /\ q[3] \in Idx /\ q[4] \in Idx
      /\ c \in Page /\ k \in Page /\ CodeIdx # StackIdx
  BY PagesAssumption, TablesAssumption DEF Page
<1>10. ASSUME NEW j \in Idx
       PROVE  /\ f[UserL0(s)][j] = IF j = 0 THEN table_desc(UserL1(s)) ELSE Invalid
              /\ f[UserL1(s)][j] = IF j = 0 THEN table_desc(UserL2(s)) ELSE Invalid
              /\ f[UserL2(s)][j] = IF j = 0 THEN table_desc(UserL3(s)) ELSE Invalid
              /\ f[UserL3(s)][j] = IF j = StackIdx THEN StackPage(s)
                                   ELSE IF j = CodeIdx THEN CodePage(s) ELSE Invalid
  <2>1. f[UserL0(s)][j] = IF j = 0 THEN table_desc(UserL1(s)) ELSE Invalid
    BY OneEntry DEF Shaped
  <2>2. f[UserL1(s)][j] = IF j = 0 THEN table_desc(UserL2(s)) ELSE Invalid
    BY OneEntry DEF Shaped
  <2>3. f[UserL2(s)][j] = IF j = 0 THEN table_desc(UserL3(s)) ELSE Invalid
    <3>1. f[UserL2(s)] = [AllInvalid EXCEPT ![0] = table_desc(UserL3(s))]
      BY DEF Shaped
    <3> QED
      BY <3>1, OneEntry
  <2>4. f[UserL3(s)][j] = IF j = StackIdx THEN StackPage(s)
                          ELSE IF j = CodeIdx THEN CodePage(s) ELSE Invalid
    <3>1. f[UserL3(s)] =
            [AllInvalid EXCEPT ![CodeIdx] = CodePage(s), ![StackIdx] = StackPage(s)]
      BY DEF Shaped
    <3> QED
      BY <3>1 DEF AllInvalid
  <2> QED
    BY <2>1, <2>2, <2>3, <2>4
<1>11. \A t : table_desc(t).type = "table" /\ table_desc(t).to = t
  BY DescFacts
<1>1. Lookup0(f, r, q) = IF q[1] = 0 THEN table_desc(UserL1(s)) ELSE Invalid
  BY <1>0, <1>10 DEF Lookup0
<1>2. q[1] = 0 =>
        Lookup1(f, r, q) = IF q[2] = 0 THEN table_desc(UserL2(s)) ELSE Invalid
  <2>1. q[1] = 0 => Lookup1(f, r, q) = f[UserL1(s)][q[2]]
    BY <1>1, <1>11 DEF Lookup1, Step
  <2> QED
    BY <1>0, <1>10, <2>1
<1>3. q[1] = 0 /\ q[2] = 0 =>
        Lookup2(f, r, q) = IF q[3] = 0 THEN table_desc(UserL3(s)) ELSE Invalid
  <2>1. q[1] = 0 /\ q[2] = 0 => Lookup2(f, r, q) = f[UserL2(s)][q[3]]
    BY <1>2, <1>11 DEF Lookup2, Step
  <2> QED
    BY <1>0, <1>10, <2>1
<1>4. q[1] = 0 /\ q[2] = 0 /\ q[3] = 0 =>
        /\ Lookup2(f, r, q).type = "table"
        /\ Lookup3(f, r, q) = IF q[4] = StackIdx THEN StackPage(s)
                              ELSE IF q[4] = CodeIdx THEN CodePage(s) ELSE Invalid
  <2>1. q[1] = 0 /\ q[2] = 0 /\ q[3] = 0 =>
          Lookup2(f, r, q).type = "table" /\ Lookup3(f, r, q) = f[UserL3(s)][q[4]]
    BY <1>3, <1>11 DEF Lookup3, Step
  <2> QED
    BY <1>0, <1>10, <2>1
<1>5. UserView(s)[q] =
        IF q = c THEN [pa |-> ImagePage(CodeFrame[s]), attr |-> "UserRx"]
        ELSE IF q = k THEN [pa |-> ImagePage(StackFrame[s]), attr |-> "UserRw"]
        ELSE Fault
  BY <1>0 DEF UserView
<1>6. CASE q[1] = 0 /\ q[2] = 0 /\ q[3] = 0
  <2>1. CASE q[4] = CodeIdx
    <3>1. q = c
      BY <1>0, <1>6, <2>1, TupleSplit
    <3>2. Walk(f, r, q) = [pa |-> ImagePage(CodeFrame[s]), attr |-> "UserRx"]
      BY <1>0, <1>4, <1>6, <2>1, PageWalk DEF CodePage
    <3> QED
      BY <1>5, <3>1, <3>2
  <2>2. CASE q[4] = StackIdx
    <3>1. q = k /\ q # c
      BY <1>0, <1>6, <2>2, TupleSplit
    <3>2. Walk(f, r, q) = [pa |-> ImagePage(StackFrame[s]), attr |-> "UserRw"]
      BY <1>0, <1>4, <1>6, <2>2, PageWalk DEF StackPage
    <3> QED
      BY <1>5, <3>1, <3>2
  <2>3. CASE q[4] # CodeIdx /\ q[4] # StackIdx
    <3>1. q # c /\ q # k
      BY <2>3
    <3>2. Walk(f, r, q) = Fault
      BY <1>4, <1>6, <2>3, FaultWalk
    <3> QED
      BY <1>5, <3>1, <3>2
  <2> QED
    BY <2>1, <2>2, <2>3
<1>7. CASE ~(q[1] = 0 /\ q[2] = 0 /\ q[3] = 0)
  <2>1. q # c /\ q # k
    BY <1>7
  <2>2. Walk(f, r, q) = Fault
    BY <1>1, <1>2, <1>3, <1>7, FaultWalk
  <2> QED
    BY <1>5, <2>1, <2>2
<1> QED
  BY <1>6, <1>7

LEMMA EmptyWalk ==
  ASSUME NEW f, EmptyStays(f), NEW q \in Page
  PROVE  Walk(f, EmptyRoot, q) = Fault
<1>1. q[1] \in Idx
  BY DEF Page
<1>2. Lookup0(f, EmptyRoot, q) = Invalid
  BY <1>1 DEF Lookup0, EmptyStays
<1> QED
  BY <1>2, FaultWalk

(***************************************************************************)
(* The slots, and what TTBR0 may hold.                                     *)
(***************************************************************************)
UInv ==
  /\ \A s \in Slots : Blank(pt, s) \/ Shaped(pt, s)
  /\ ttbr0 \in {L0, EmptyRoot} \/ \E s \in Slots : ttbr0 = UserL0(s) /\ Shaped(pt, s)

LEMMA WiredIsShaped ==
  ASSUME NEW s \in Slots
  PROVE  /\ Blank(pt, s) => ~Wired(s)
         /\ Shaped(pt, s) => Wired(s)
<1>1. 0 \in Idx /\ Invalid # table_desc(UserL1(s))
  BY TablesAssumption, DescFacts, UserNames
<1>2. Blank(pt, s) => ~Wired(s)
  BY <1>1 DEF Blank, Wired, AllInvalid
<1>3. Shaped(pt, s) => Wired(s)
  BY <1>1, OneEntry DEF Shaped, Wired
<1> QED
  BY <1>2, <1>3

\* No case of ioremap touches a table of a slot, or the empty root.
LEMMA MapSides ==
  ASSUME TInv, Built, NEW p \in DevicePages,
         \/ \E attr \in {"Device", "Framebuffer"} : ioremap_ok(p, attr)
         \/ ioremap_err(p),
         NEW x \in Tables, x \notin KernelSide
  PROVE  pt'[x] = pt[x]
<1>0. /\ p \in Page /\ pt \in Contents /\ runtime_idx \in Nat /\ POOL \in Nat
      /\ p[2] \in Idx /\ p[3] \in Idx /\ p[4] \in Idx
  BY DeviceTypes, TablesAssumption DEF TInv, TablesTypeOK, Contents, Page
<1>1. ASSUME NEW t \in Inner PROVE t \in Tables /\ x # t
  BY Names
<1>2. ASSUME NEW k \in Nat, k < POOL
      PROVE  Runtime(k) \in Tables /\ x # Runtime(k) /\ table_desc(Runtime(k)) \in Desc
  BY <1>2, RuntimeNames, Names, DescFacts
<1>3. ASSUME NEW attr \in {"Device", "Framebuffer"}
      PROVE  attr \in Attrs /\ page_desc(p, attr) \in Desc
  BY <1>0, DeviceTypes, DescFacts
<1>4. ASSUME NEW attr \in {"Device", "Framebuffer"}, map_in_place(p, attr)
      PROVE  pt'[x] = pt[x]
  <2> DEFINE t == Lookup2(pt, L0, p).to
  <2>1. t \in Inner /\ pt' = Written(pt, t, p[4], page_desc(p, attr))
    BY <1>0, <1>3, <1>4, InPlaceWrites
  <2> HIDE DEF t
  <2> QED
    BY <1>0, <1>1, <1>3, <2>1, WrittenElse
<1>5. ASSUME NEW attr \in {"Device", "Framebuffer"}, map_new_l3(p, attr)
      PROVE  pt'[x] = pt[x]
  <2> DEFINE t == Lookup1(pt, L0, p).to
             u == Runtime(runtime_idx)
             f == Written(pt, t, p[3], table_desc(u))
  <2>1. /\ t \in Inner /\ runtime_idx \in 0 .. POOL - 1 /\ f \in Contents
        /\ pt' = Written(f, u, p[4], page_desc(p, attr))
    BY <1>0, <1>3, <1>5, NewL3Writes
  <2>2. t \in Tables /\ x # t /\ u \in Tables /\ x # u /\ table_desc(u) \in Desc
    BY <1>0, <1>1, <1>2, <2>1
  <2> HIDE DEF t, u
  <2>3. f[x] = pt[x]
    BY <1>0, <2>2, WrittenElse
  <2> HIDE DEF f
  <2>4. pt'[x] = f[x]
    BY <1>0, <1>3, <2>1, <2>2, WrittenElse
  <2> QED
    BY <2>3, <2>4
<1>6. ASSUME NEW attr \in {"Device", "Framebuffer"}, map_new_l2(p, attr)
      PROVE  pt'[x] = pt[x]
  <2> DEFINE t == Lookup0(pt, L0, p).to
             u == Runtime(runtime_idx)
             v == Runtime(runtime_idx + 1)
             f == Written(pt, t, p[2], table_desc(u))
             g == Written(f, u, p[3], table_desc(v))
  <2>1. /\ t \in Inner /\ runtime_idx \in 0 .. POOL - 2 /\ f \in Contents /\ g \in Contents
        /\ pt' = Written(g, v, p[4], page_desc(p, attr))
    BY <1>0, <1>3, <1>6, NewL2Writes
  <2>2. /\ t \in Tables /\ x # t /\ u \in Tables /\ x # u /\ table_desc(u) \in Desc
        /\ v \in Tables /\ x # v /\ table_desc(v) \in Desc
    BY <1>0, <1>1, <1>2, <2>1
  <2> HIDE DEF t, u, v
  <2>3. f[x] = pt[x]
    BY <1>0, <2>2, WrittenElse
  <2> HIDE DEF f
  <2>4. g[x] = f[x]
    BY <1>0, <2>1, <2>2, WrittenElse
  <2> HIDE DEF g
  <2>5. pt'[x] = g[x]
    BY <1>0, <1>3, <2>1, <2>2, WrittenElse
  <2> QED
    BY <2>3, <2>4, <2>5
<1>7. ASSUME run_out(p) PROVE pt'[x] = pt[x]
  <2> DEFINE t == Lookup0(pt, L0, p).to
             u == Runtime(runtime_idx)
  <2>1. t \in Inner /\ runtime_idx \in 0 .. POOL - 1 /\ pt' = Written(pt, t, p[2], table_desc(u))
    BY <1>0, <1>7, RunOutWrites
  <2>2. t \in Tables /\ x # t /\ table_desc(u) \in Desc
    BY <1>0, <1>1, <1>2, <2>1
  <2> HIDE DEF t, u
  <2> QED
    BY <1>0, <2>1, <2>2, WrittenElse
<1>8. ASSUME refused(p) PROVE pt'[x] = pt[x]
  BY <1>8 DEF refused, tableVars
<1> QED
  BY <1>4, <1>5, <1>6, <1>7, <1>8 DEF ioremap_ok, ioremap_err

LEMMA UMap ==
  ASSUME TInv, UInv, Built, NEW p \in DevicePages,
         \/ \E attr \in {"Device", "Framebuffer"} : ioremap_ok(p, attr)
         \/ ioremap_err(p)
  PROVE  UInv'
<1>1. ASSUME NEW s \in Slots
      PROVE  /\ pt'[UserL0(s)] = pt[UserL0(s)] /\ pt'[UserL1(s)] = pt[UserL1(s)]
             /\ pt'[UserL2(s)] = pt[UserL2(s)] /\ pt'[UserL3(s)] = pt[UserL3(s)]
  BY MapSides, UserNames
<1>2. ASSUME NEW s \in Slots
      PROVE  (Blank(pt, s) => Blank(pt', s)) /\ (Shaped(pt, s) => Shaped(pt', s))
  BY <1>1 DEF Blank, Shaped
<1>3. ttbr0' = ttbr0
  BY TMap
<1> QED
  BY <1>2, <1>3 DEF UInv

LEMMA UWire ==
  ASSUME TInv, UInv, NEW s \in Slots, wire_user_tables(s)
  PROVE  UInv' /\ Shaped(pt', s)
<1>0. CodeIdx \in Idx /\ StackIdx \in Idx /\ 0 \in Idx
  BY TablesAssumption
<1>1. Shaped(pt', s)
  <2>1. CASE Blank(pt, s)
    BY <2>1, WireWrites DEF Blank, Shaped
  <2>2. CASE Shaped(pt, s)
    <3>1. pt'[UserL0(s)] = [AllInvalid EXCEPT ![0] = table_desc(UserL1(s))]
      <4>1. pt[UserL0(s)] = [AllInvalid EXCEPT ![0] = table_desc(UserL1(s))]
        BY <2>2 DEF Shaped
      <4>2. pt'[UserL0(s)] = [pt[UserL0(s)] EXCEPT ![0] = table_desc(UserL1(s))]
        BY WireWrites
      <4> QED
        BY <4>1, <4>2 DEF AllInvalid
    <3>2. pt'[UserL1(s)] = [AllInvalid EXCEPT ![0] = table_desc(UserL2(s))]
      <4>1. pt[UserL1(s)] = [AllInvalid EXCEPT ![0] = table_desc(UserL2(s))]
        BY <2>2 DEF Shaped
      <4>2. pt'[UserL1(s)] = [pt[UserL1(s)] EXCEPT ![0] = table_desc(UserL2(s))]
        BY WireWrites
      <4> QED
        BY <4>1, <4>2 DEF AllInvalid
    <3>3. pt'[UserL2(s)] = [AllInvalid EXCEPT ![0] = table_desc(UserL3(s))]
      <4>1. pt[UserL2(s)] = [AllInvalid EXCEPT ![0] = table_desc(UserL3(s))]
        BY <2>2 DEF Shaped
      <4>2. pt'[UserL2(s)] = [pt[UserL2(s)] EXCEPT ![0] = table_desc(UserL3(s))]
        BY WireWrites
      <4> QED
        BY <4>1, <4>2 DEF AllInvalid
    <3>4. pt'[UserL3(s)] =
            [AllInvalid EXCEPT ![CodeIdx] = CodePage(s), ![StackIdx] = StackPage(s)]
      BY <2>2, WireWrites, TablesAssumption DEF Shaped, AllInvalid
    <3> QED
      BY <3>1, <3>2, <3>3, <3>4 DEF Shaped
  <2> QED
    BY <2>1, <2>2 DEF UInv
<1>2. ASSUME NEW r \in Slots, r # s
      PROVE  (Blank(pt, r) => Blank(pt', r)) /\ (Shaped(pt, r) => Shaped(pt', r))
  <2>1. /\ pt'[UserL0(r)] = pt[UserL0(r)] /\ pt'[UserL1(r)] = pt[UserL1(r)]
        /\ pt'[UserL2(r)] = pt[UserL2(r)] /\ pt'[UserL3(r)] = pt[UserL3(r)]
    BY <1>2, WireWrites, UserNames
  <2> QED
    BY <2>1 DEF Blank, Shaped
<1>3. ttbr0' = ttbr0
  BY DEF wire_user_tables
<1> QED
  BY <1>1, <1>2, <1>3 DEF UInv

LEMMA UNext == TInv /\ UInv /\ [TablesNext]_tableVars => UInv'
<1> SUFFICES ASSUME TInv, UInv, [TablesNext]_tableVars PROVE UInv'
  OBVIOUS
<1>1. CASE ~Built /\ opal_build_tables
  <2>1. NotBuilt
    BY <1>1 DEF TInv
  <2>2. ASSUME NEW s \in Slots PROVE Blank(pt', s)
    BY <1>1, <2>1, BootWrites, UserNames DEF Blank, KernelSide
  <2>3. ttbr0' = L0
    BY <1>1, <2>1 DEF opal_build_tables, NotBuilt
  <2> QED
    BY <2>2, <2>3 DEF UInv
<1>2. CASE Built /\ condemn_low_half
  BY <1>2 DEF condemn_low_half, UInv, Blank, Shaped
<1>3. CASE MapDevice
  BY <1>3, BuiltUnlessRoot, UMap DEF MapDevice
<1>4. ASSUME NEW s \in Slots, wire_user_tables(s) PROVE UInv'
  BY <1>4, UWire
<1>5. ASSUME NEW s \in Slots, Wired(s), set_user_ttbr0(s) PROVE UInv'
  <2>1. Shaped(pt, s)
    BY <1>5, WiredIsShaped DEF UInv
  <2> QED
    BY <1>5, <2>1 DEF set_user_ttbr0, UInv, Blank, Shaped
<1>6. CASE UNCHANGED tableVars
  BY <1>6 DEF tableVars, UInv, Blank, Shaped
<1> QED
  BY <1>1, <1>2, <1>3, <1>4, <1>5, <1>6 DEF TablesNext

LEMMA UInit == TablesInit => UInv
<1> SUFFICES ASSUME TablesInit PROVE UInv
  OBVIOUS
<1>1. ASSUME NEW s \in Slots PROVE Blank(pt, s)
  BY UserNames DEF TablesInit, Blank
<1> QED
  BY <1>1 DEF UInv, TablesInit

(***************************************************************************)
(* The steps of the address space.                                         *)
(***************************************************************************)
LEMMA ProbePages == \A q \in Probes : q \in Page
BY PagesAssumption DEF Page

\* Where a page leads once the boot stub is done.
BootLeaf(w, q) ==
  \/ w = Fault
  \/ /\ w \in [pa : {q}, attr : {"TextRx", "Ro", "Rw", "Device"}]
     /\ q[3] # ImageSlot => w.attr # "TextRx"
     /\ q[3] = ImageSlot => kernel_entry(q[4]) = page_desc(q, w.attr)

LEMMA BootWalk ==
  ASSUME NotBuilt, opal_build_tables, NEW q \in Probes
  PROVE  BootLeaf(Walk(pt', L0, q), q)
<1> DEFINE w == Walk(pt', L0, q)
<1>0. /\ q \in Page /\ q[1] \in Idx /\ q[2] \in Idx /\ q[3] \in Idx /\ q[4] \in Idx
      /\ q = <<q[1], q[2], q[3], q[4]>>
  BY ProbePages DEF Page
<1>1. Lookup0(pt', L0, q) = IF q[1] = 0 THEN table_desc(L1) ELSE Invalid
  BY <1>0, BootWrites DEF Lookup0, AllInvalid
<1>2. q[1] = 0 =>
        Lookup1(pt', L0, q) = IF q[2] = 0 THEN table_desc(L2) ELSE Invalid
  <2>1. q[1] = 0 => Lookup1(pt', L0, q) = pt'[L1][q[2]]
    BY <1>1, DescFacts DEF Lookup1, Step
  <2> QED
    BY <1>0, <2>1, BootWrites DEF AllInvalid
<1>3. q[1] = 0 /\ q[2] = 0 => Lookup2(pt', L0, q) = l2_entry(q[3])
  <2>1. q[1] = 0 /\ q[2] = 0 => Lookup2(pt', L0, q) = pt'[L2][q[3]]
    BY <1>2, DescFacts DEF Lookup2, Step
  <2> QED
    BY <1>0, <2>1, BootWrites
<1>4. CASE ~(q[1] = 0 /\ q[2] = 0)
  BY <1>1, <1>2, <1>4, FaultWalk DEF BootLeaf
<1>5. CASE q[1] = 0 /\ q[2] = 0
  <2>1. CASE q[3] = MmioSlot
    <3>1. Lookup2(pt', L0, q) = table_desc(L3Mmio)
      BY <1>3, <1>5, <2>1, TablesAssumption DEF l2_entry
    <3>2. Lookup3(pt', L0, q) = mmio_entry(q[4]) /\ Lookup2(pt', L0, q).type = "table"
      BY <1>0, <3>1, BootWrites, DescFacts DEF Lookup3, Step
    <3>3. CASE mmio_entry(q[4]) = Invalid
      BY <3>2, <3>3, FaultWalk DEF BootLeaf
    <3>4. CASE mmio_entry(q[4]) = page_desc(<<0, 0, MmioSlot, q[4]>>, "Device")
      <4>1. w = [pa |-> <<0, 0, MmioSlot, q[4]>>, attr |-> "Device"]
        BY <3>2, <3>4, PageWalk
      <4> QED
        BY <1>0, <1>5, <2>1, <4>1, TablesAssumption DEF BootLeaf
    <3> QED
      BY <3>3, <3>4 DEF mmio_entry
  <2>2. CASE q[3] = ImageSlot
    <3>1. Lookup2(pt', L0, q) = table_desc(L3Kernel)
      BY <1>3, <1>5, <2>2, TablesAssumption DEF l2_entry
    <3>2. Lookup3(pt', L0, q) = kernel_entry(q[4]) /\ Lookup2(pt', L0, q).type = "table"
      BY <1>0, <3>1, BootWrites, DescFacts DEF Lookup3, Step
    <3>3. CASE kernel_entry(q[4]) = Invalid
      BY <3>2, <3>3, FaultWalk DEF BootLeaf
    <3>4. ASSUME NEW attr \in {"TextRx", "Ro", "Rw"},
                 kernel_entry(q[4]) = page_desc(ImagePage(q[4]), attr)
          PROVE  BootLeaf(w, q)
      <4>1. w = [pa |-> ImagePage(q[4]), attr |-> attr]
        BY <3>2, <3>4, PageWalk
      <4> QED
        BY <1>0, <1>5, <2>2, <3>4, <4>1 DEF ImagePage, BootLeaf
    <3>5. \/ kernel_entry(q[4]) = Invalid
          \/ \E attr \in {"TextRx", "Ro", "Rw"} :
               kernel_entry(q[4]) = page_desc(ImagePage(q[4]), attr)
      BY <1>0, TablesAssumption DEF kernel_entry
    <3> QED
      BY <3>3, <3>4, <3>5
  <2>3. CASE q[3] # MmioSlot /\ q[3] # ImageSlot
    <3>1. \/ Lookup2(pt', L0, q) = Invalid
          \/ \E attr \in {"Rw", "Device"} : Lookup2(pt', L0, q) = block_desc(q[3], attr)
      BY <1>3, <1>5, <2>3 DEF l2_entry
    <3>2. ASSUME NEW attr \in {"Rw", "Device"},
                 Lookup2(pt', L0, q) = block_desc(q[3], attr)
          PROVE  BootLeaf(w, q)
      <4>1. w = [pa |-> <<0, 0, q[3], q[4]>>, attr |-> attr]
        BY <3>2 DEF Walk, block_desc
      <4> QED
        BY <1>0, <1>5, <2>3, <4>1 DEF BootLeaf
    <3> QED
      BY <3>1, <3>2, FaultWalk DEF BootLeaf
  <2> QED
    BY <2>1, <2>2, <2>3
<1> QED
  BY <1>4, <1>5

LEMMA BootStep ==
  ASSUME TInv, ~Built, opal_build_tables
  PROVE  AS!Build
<1>0. NotBuilt /\ ttbr0 = L0 /\ ttbr0' = L0
  BY DEF TInv, NotBuilt, opal_build_tables
<1>1. ASSUME NEW q \in Probes PROVE Walk(pt, L0, q) = Fault
  <2>1. q[1] \in Idx
    BY ProbePages DEF Page
  <2>2. Lookup0(pt, L0, q) = Invalid
    BY <1>0, <2>1, Names DEF NotBuilt, Lookup0, AllInvalid
  <2> QED
    BY <2>2, FaultWalk
<1>2. ASSUME NEW q \in Probes
      PROVE  \/ Walk(pt', L0, q) = Fault
             \/ Walk(pt', L0, q) \in [pa : {q}, attr : {"TextRx", "Ro", "Rw", "Device"}]
  BY <1>0, BootWalk DEF BootLeaf
<1>3. HighMap = AS!Nothing
  BY <1>1 DEF HighMap, HighHalf, AS!Nothing
<1>4. AS!Linear(HighMap', {"TextRx", "Ro", "Rw", "Device"})
  BY <1>2 DEF HighMap, HighHalf, AS!Linear
<1>5. LowMap' = HighMap'
  BY <1>0 DEF LowMap, LowHalf, HighMap, HighHalf
<1>6. HighMap' \in [Probes -> {HighMap'[q] : q \in Probes}]
  BY DEF HighMap
<1> QED
  BY <1>3, <1>4, <1>5, <1>6 DEF AS!Build

LEMMA MapStep ==
  ASSUME TInv, UInv, ttbr0 # L0, NEW p \in DevicePages,
         \/ \E attr \in {"Device", "Framebuffer"} : ioremap_ok(p, attr)
         \/ ioremap_err(p)
  PROVE  AS!Next \/ UNCHANGED <<HighMap, LowMap>>
<1>0. Built /\ ttbr0' = ttbr0 /\ pt \in Contents /\ p \in Page /\ p \in Probes
  BY BuiltUnlessRoot, TMap, DeviceTypes DEF TInv, TablesTypeOK, Contents
<1>1. UNCHANGED LowMap
  <2> SUFFICES ASSUME NEW q \in Probes PROVE Walk(pt', ttbr0, q) = Walk(pt, ttbr0, q)
    BY <1>0 DEF LowMap, LowHalf
  <2>1. CASE ttbr0 = EmptyRoot
    <3>1. EmptyStays(pt) /\ EmptyStays(pt')
      BY <1>0, TMap DEF TInv, Tree
    <3> QED
      BY <2>1, <3>1, EmptyWalk, ProbePages
  <2>2. ASSUME NEW s \in Slots, ttbr0 = UserL0(s), Shaped(pt, s)
        PROVE  Walk(pt', ttbr0, q) = Walk(pt, ttbr0, q)
    <3>1. /\ pt'[UserL0(s)] = pt[UserL0(s)] /\ pt'[UserL1(s)] = pt[UserL1(s)]
          /\ pt'[UserL2(s)] = pt[UserL2(s)] /\ pt'[UserL3(s)] = pt[UserL3(s)]
      BY <1>0, MapSides, UserNames
    <3>2. Shaped(pt', s)
      BY <2>2, <3>1 DEF Shaped
    <3> QED
      BY <2>2, <3>2, UserWalk
  <2> QED
    BY <2>1, <2>2 DEF UInv
<1>2. ASSUME NEW attr \in {"Device", "Framebuffer"}, ioremap_ok(p, attr) PROVE AS!Next
  <2>1. MapsOne(p, attr)
    BY <1>0, <1>2, DeviceTypes, InPlaceMaps, NewL3Maps, NewL2Maps DEF ioremap_ok
  <2>2. \A q \in Probes : HighMap'[q] =
          IF q = p THEN [pa |-> p, attr |-> attr] ELSE HighMap[q]
    BY <2>1, ProbePages DEF MapsOne, HighMap, HighHalf
  <2>3. HighMap' = [HighMap EXCEPT ![p] = [pa |-> p, attr |-> attr]]
    BY <2>2 DEF HighMap
  <2>4. HighMap'[p] = [pa |-> p, attr |-> attr]
    BY <1>0, <2>2
  <2>5. AS!Map(p, attr)
    BY <1>1, <2>3, <2>4 DEF AS!Map
  <2> QED
    BY <1>0, <2>5 DEF AS!Next
<1>3. ASSUME ioremap_err(p) PROVE UNCHANGED <<HighMap, LowMap>>
  <2>1. \A q \in Probes : Walk(pt', L0, q) = Walk(pt, L0, q)
    BY <1>0, <1>3, RunOutMaps, ProbePages DEF ioremap_err, refused, tableVars
  <2> QED
    BY <1>1, <2>1 DEF HighMap, HighHalf
<1> QED
  BY <1>2, <1>3

LEMMA WireStep ==
  ASSUME TInv, UInv, Built, ttbr0 = EmptyRoot, NEW s \in Slots, wire_user_tables(s)
  PROVE  UNCHANGED <<HighMap, LowMap>>
<1>0. /\ pt \in Contents /\ runtime_idx \in Nat /\ Tree(pt, runtime_idx)
      /\ ttbr0' = EmptyRoot
  BY TablesAssumption DEF TInv, TablesTypeOK, Contents, wire_user_tables
<1>1. ASSUME NEW t \in KernelSide PROVE pt'[t] = pt[t]
  <2>1. t \in Tables /\ t \notin {UserL0(s), UserL1(s), UserL2(s), UserL3(s)}
    BY UserNames, Names
  <2> QED
    BY <2>1, WireWrites
<1>2. ASSUME NEW q \in Probes PROVE Walk(pt', L0, q) = Walk(pt, L0, q)
  BY <1>0, <1>1, KernelSees, ProbePages
<1>3. EmptyStays(pt) /\ EmptyStays(pt')
  BY WireWrites DEF TInv, Tree
<1>4. ASSUME NEW q \in Probes PROVE Walk(pt', EmptyRoot, q) = Walk(pt, EmptyRoot, q)
  BY <1>3, EmptyWalk, ProbePages
<1> QED
  BY <1>0, <1>2, <1>4 DEF HighMap, HighHalf, LowMap, LowHalf

LEMMA InstallStep ==
  ASSUME UInv, NEW s \in Slots, Wired(s), set_user_ttbr0(s)
  PROVE  AS!Next
<1>1. Shaped(pt, s) /\ pt' = pt /\ ttbr0' = UserL0(s)
  BY WiredIsShaped DEF UInv, set_user_ttbr0
<1>2. UserView(s) = [q \in Probes |-> UserView(s)[q]]
  BY DEF UserView
<1>3. LowMap' = UserView(s)
  BY <1>1, <1>2, UserWalk DEF LowMap, LowHalf
<1>4. HighMap' = HighMap
  BY <1>1 DEF HighMap, HighHalf
<1>5. AS!Install(UserView(s))
  BY <1>3, <1>4 DEF AS!Install
<1> QED
  BY <1>5 DEF AS!Next

LEMMA CondemnStep ==
  ASSUME TInv, condemn_low_half
  PROVE  AS!Next
<1>1. pt' = pt /\ ttbr0' = EmptyRoot /\ EmptyStays(pt)
  BY DEF condemn_low_half, TInv, Tree
<1>2. LowMap' = AS!Nothing
  BY <1>1, EmptyWalk, ProbePages DEF LowMap, LowHalf, AS!Nothing
<1>3. HighMap' = HighMap
  BY <1>1 DEF HighMap, HighHalf
<1> QED
  BY <1>2, <1>3 DEF AS!Next, AS!Condemn

LEMMA StepRefines ==
  TInv /\ UInv /\ [TablesNext]_tableVars => [AS!Next]_<<HighMap, LowMap>>
<1> SUFFICES ASSUME TInv, UInv, [TablesNext]_tableVars
             PROVE  AS!Next \/ UNCHANGED <<HighMap, LowMap>>
  OBVIOUS
<1>1. CASE ~Built /\ opal_build_tables
  BY <1>1, BootStep DEF AS!Next
<1>2. CASE condemn_low_half
  BY <1>2, CondemnStep
<1>3. CASE MapDevice
  BY <1>3, MapStep DEF MapDevice
<1>4. ASSUME NEW s \in Slots, ttbr0 = EmptyRoot, wire_user_tables(s)
      PROVE  UNCHANGED <<HighMap, LowMap>>
  BY <1>4, WireStep, BuiltUnlessRoot, Names
<1>5. ASSUME NEW s \in Slots, Wired(s), set_user_ttbr0(s) PROVE AS!Next
  BY <1>5, InstallStep
<1>6. CASE UNCHANGED tableVars
  BY <1>6 DEF tableVars, HighMap, HighHalf, LowMap, LowHalf
<1> QED
  BY <1>1, <1>2, <1>3, <1>4, <1>5, <1>6 DEF TablesNext

LEMMA InitRefines == TablesInit => AS!Init
<1> SUFFICES ASSUME TablesInit PROVE AS!Init
  OBVIOUS
<1>1. ASSUME NEW q \in Probes PROVE Walk(pt, L0, q) = Fault
  <2>1. q[1] \in Idx
    BY ProbePages DEF Page
  <2>2. Lookup0(pt, L0, q) = Invalid
    BY <2>1, Names DEF TablesInit, Lookup0, AllInvalid
  <2> QED
    BY <2>2, FaultWalk
<1> QED
  BY <1>1 DEF TablesInit, HighMap, HighHalf, LowMap, LowHalf, AS!Init, AS!Nothing

\* The tables implement the address space: the boot maps each half once and
\* linearly, an ioremap moves one page of the kernel's half or none, wiring a
\* slot is invisible, and what TTBR0 shows is nothing or one whole user space.
THEOREM TablesImplementAddressSpace == TablesSpec => AddressSpaceSpec
<1>1. TablesSpec => [](TInv /\ UInv)
  <2>1. TablesInit => TInv /\ UInv
    BY TInit, UInit
  <2>2. TInv /\ UInv /\ [TablesNext]_tableVars => TInv' /\ UInv'
    BY TNext, UNext
  <2> QED
    BY <2>1, <2>2, PTL DEF TablesSpec
<1>2. TablesInit => AS!Init
  BY InitRefines
<1>3. TInv /\ UInv /\ [TablesNext]_tableVars => [AS!Next]_<<HighMap, LowMap>>
  BY StepRefines
<1> QED
  BY <1>1, <1>2, <1>3, PTL DEF TablesSpec, AddressSpaceSpec, AS!Spec

(***************************************************************************)
(* OnlyIoremapUnprotects: what the linker script lays out is reachable as  *)
(* the boot mapped it and, once ioremap was asked for it, as ioremap maps  *)
(* it; a slot opens its own two frames only. While TTBR0 holds the         *)
(* kernel's root nothing was asked for, so the low half is the boot's.     *)
(***************************************************************************)
Protects(w, q) ==
  \/ w = Fault
  \/ /\ w.pa = q /\ ~AtEL0(w.attr)
     /\ w.attr = "TextRx" => \E i \in text_start .. text_end - 1 : q = ImagePage(i)
     /\ CanWrite(w.attr) => \A i \in text_start .. rodata_end - 1 : q # ImagePage(i)
     /\ \A i \in guard_bottom .. stack_bottom - 1 : q # ImagePage(i)

\* The kernel's alias of a page that ioremap was asked for.
Asked(w, q) ==
  /\ ttbr0 # L0 /\ q \in DevicePages
  /\ w \in [pa : {q}, attr : {"Device", "Framebuffer"}]

HInv == Built => \A q \in Probes : Protects(HighMap[q], q) \/ Asked(HighMap[q], q)

LEMMA HMap ==
  ASSUME TInv, UInv, HInv, ttbr0 # L0, NEW p \in DevicePages,
         \/ \E attr \in {"Device", "Framebuffer"} : ioremap_ok(p, attr)
         \/ ioremap_err(p)
  PROVE  HInv'
<1>0. Built /\ p \in Page
  BY BuiltUnlessRoot, DeviceTypes
<1>1. ttbr0' = ttbr0
  BY DEF ioremap_ok, map_in_place, map_new_l3, map_new_l2, ioremap_err, run_out, refused,
         tableVars
<1>2. ASSUME NEW attr \in {"Device", "Framebuffer"}, ioremap_ok(p, attr) PROVE HInv'
  <2>1. MapsOne(p, attr)
    BY <1>0, <1>2, DeviceTypes, InPlaceMaps, NewL3Maps, NewL2Maps DEF ioremap_ok
  <2>2. ASSUME NEW q \in Probes
        PROVE  (Protects(HighMap[q], q) \/ Asked(HighMap[q], q))'
    <3>1. HighMap'[q] = IF q = p THEN [pa |-> p, attr |-> attr] ELSE HighMap[q]
      BY <2>1, ProbePages DEF MapsOne, HighMap, HighHalf
    <3>2. CASE q = p
      BY <1>1, <3>1, <3>2 DEF Asked
    <3>3. CASE q # p
      BY <1>0, <1>1, <3>1, <3>3 DEF HInv, Asked
    <3> QED
      BY <3>2, <3>3
  <2> QED
    BY <2>2 DEF HInv
<1>3. ASSUME ioremap_err(p) PROVE HInv'
  <2>1. \A q \in Probes : Walk(pt', L0, q) = Walk(pt, L0, q)
    BY <1>0, <1>3, RunOutMaps, ProbePages DEF ioremap_err, refused, tableVars
  <2>2. HighMap' = HighMap
    BY <2>1 DEF HighMap, HighHalf
  <2> QED
    BY <1>0, <1>1, <2>2 DEF HInv, Asked
<1> QED
  BY <1>2, <1>3

LEMMA HBoot ==
  ASSUME TInv, ~Built, opal_build_tables
  PROVE  HInv'
<1>0. NotBuilt
  BY DEF TInv
<1>1. SUFFICES ASSUME NEW q \in Probes PROVE Protects(Walk(pt', L0, q), q)
  BY DEF HInv, HighMap, HighHalf
<1> DEFINE w == Walk(pt', L0, q)
<1>2. BootLeaf(w, q)
  BY <1>0, BootWalk
<1>3. q[4] \in Nat
  BY ProbePages, TablesAssumption DEF Page
<1> HIDE DEF w
<1>4. CASE w = Fault
  BY <1>4 DEF Protects, w
<1>5. CASE w # Fault /\ q[3] # ImageSlot
  <2>1. \A i : q # ImagePage(i)
    BY <1>5 DEF ImagePage
  <2>2. w.pa = q /\ w.attr \in {"Ro", "Rw", "Device"}
    BY <1>2, <1>5 DEF BootLeaf
  <2> QED
    BY <2>1, <2>2 DEF Protects, AtEL0, w
<1>6. CASE w # Fault /\ q[3] = ImageSlot
  <2>1. w.pa = q /\ w.attr \in {"TextRx", "Ro", "Rw", "Device"}
        /\ kernel_entry(q[4]) = page_desc(q, w.attr)
    BY <1>2, <1>6 DEF BootLeaf
  <2>2. /\ q = ImagePage(q[4])
        /\ q[4] \notin guard_bottom .. stack_bottom - 1
        /\ w.attr = "TextRx" => q[4] \in text_start .. text_end - 1
        /\ CanWrite(w.attr) => q[4] >= rodata_end
    BY <1>3, <2>1, TablesAssumption DEF kernel_entry, page_desc, Invalid, CanWrite
  <2>3. \A i : q = ImagePage(i) => i = q[4]
    BY DEF ImagePage
  <2>4. CanWrite(w.attr) => \A i \in text_start .. rodata_end - 1 : q # ImagePage(i)
    BY <1>3, <2>2, <2>3, TablesAssumption
  <2>5. \A i \in guard_bottom .. stack_bottom - 1 : q # ImagePage(i)
    BY <2>2, <2>3
  <2>6. w.attr = "TextRx" => \E i \in text_start .. text_end - 1 : q = ImagePage(i)
    BY <2>2
  <2> QED
    BY <2>1, <2>4, <2>5, <2>6 DEF Protects, AtEL0, w
<1> QED
  BY <1>4, <1>5, <1>6 DEF w

LEMMA HNext == TInv /\ UInv /\ HInv /\ [TablesNext]_tableVars => HInv'
<1> SUFFICES ASSUME TInv, UInv, HInv, [TablesNext]_tableVars PROVE HInv'
  OBVIOUS
<1>1. CASE ~Built /\ opal_build_tables
  BY <1>1, HBoot
<1>2. CASE condemn_low_half
  BY <1>2, Names DEF condemn_low_half, HInv, Asked, Built, HighMap, HighHalf
<1>3. CASE MapDevice
  BY <1>3, HMap DEF MapDevice
<1>4. ASSUME NEW s \in Slots, ttbr0 = EmptyRoot, wire_user_tables(s) PROVE HInv'
  <2>1. Built /\ HighMap' = HighMap
    BY <1>4, WireStep, BuiltUnlessRoot, Names
  <2> QED
    BY <1>4, <2>1 DEF HInv, Asked, wire_user_tables
<1>5. ASSUME NEW s \in Slots, set_user_ttbr0(s) PROVE HInv'
  <2>1. ttbr0' # L0 /\ pt' = pt
    BY <1>5 DEF set_user_ttbr0, UserL0, L0
  <2> QED
    BY <2>1 DEF HInv, Asked, Built, HighMap, HighHalf
<1>6. CASE UNCHANGED tableVars
  BY <1>6 DEF tableVars, HInv, Asked, Built, HighMap, HighHalf
<1> QED
  BY <1>1, <1>2, <1>3, <1>4, <1>5, <1>6 DEF TablesNext

\* What a page of a slot leads to.
LEMMA FramesProtect ==
  ASSUME NEW s \in Slots, NEW q \in Probes,
         NEW w, w = UserView(s)[q]
  PROVE  \/ w = Fault
         \/ /\ w.pa \in {ImagePage(CodeFrame[s]), ImagePage(StackFrame[s])}
            /\ w.attr # "TextRx"
            /\ \A i \in text_start .. rodata_end - 1 : w.pa # ImagePage(i)
            /\ \A i \in guard_bottom .. stack_bottom - 1 : w.pa # ImagePage(i)
<1>1. \/ w = Fault
      \/ w = [pa |-> ImagePage(CodeFrame[s]), attr |-> "UserRx"]
      \/ w = [pa |-> ImagePage(StackFrame[s]), attr |-> "UserRw"]
  BY DEF UserView
<1>2. ASSUME NEW k \in rodata_end .. guard_bottom - 1
      PROVE  /\ \A i \in text_start .. rodata_end - 1 : ImagePage(k) # ImagePage(i)
             /\ \A i \in guard_bottom .. stack_bottom - 1 : ImagePage(k) # ImagePage(i)
  BY TablesAssumption DEF ImagePage
<1>3. /\ CodeFrame[s] \in rodata_end .. guard_bottom - 1
      /\ StackFrame[s] \in rodata_end .. guard_bottom - 1
  BY TablesAssumption
<1> QED
  BY <1>1, <1>2, <1>3

\* In every order of ioremap, wire and install, failures included: the low
\* half respects the linker script's layout; the kernel's half does but for
\* pages that ioremap was asked for, and those are devices. So no ioremap
\* takes the protection from another page than its own, none makes anything
\* executable or EL0's, and text is executed, and the guard is missing, until
\* someone asks for just that page.
THEOREM TablesProtectKernel == TablesSpec => []OnlyIoremapUnprotects
<1>1. TablesSpec => [](TInv /\ UInv /\ HInv)
  <2>1. TablesInit => TInv /\ UInv /\ HInv
    <3>1. TablesInit => ~Built
      BY Names, TablesAssumption DEF TablesInit, Built, AllInvalid
    <3> QED
      BY <3>1, TInit, UInit DEF HInv
  <2>2. TInv /\ UInv /\ HInv /\ [TablesNext]_tableVars => TInv' /\ UInv' /\ HInv'
    BY TNext, UNext, HNext
  <2> QED
    BY <2>1, <2>2, PTL DEF TablesSpec
<1>2. TInv /\ UInv /\ HInv => OnlyIoremapUnprotects
  <2> SUFFICES ASSUME TInv, UInv, HInv, Built, NEW q \in Probes
               PROVE  /\ Protected(HighHalf(q)) \/ Asked(HighHalf(q), q)
                      /\ Protected(LowHalf(q))
    BY DEF OnlyIoremapUnprotects, Asked
  <2>1. Protected(Fault)
    BY DEF Protected, Fault, AtEL0, ImagePage
  <2>2. Protected(HighHalf(q)) \/ Asked(HighHalf(q), q)
    <3>1. Protects(HighHalf(q), q) \/ Asked(HighHalf(q), q)
      BY DEF HInv, HighMap
    <3> QED
      BY <2>1, <3>1 DEF Protects, Protected
  <2>3. CASE ttbr0 = L0
    BY <2>2, <2>3 DEF HighHalf, LowHalf, Asked
  <2>4. CASE ttbr0 = EmptyRoot
    <3>1. LowHalf(q) = Fault
      BY <2>4, EmptyWalk, ProbePages DEF LowHalf, TInv, Tree
    <3> QED
      BY <2>1, <2>2, <3>1
  <2>5. ASSUME NEW s \in Slots, ttbr0 = UserL0(s), Shaped(pt, s)
        PROVE  Protected(LowHalf(q))
    <3>1. LowHalf(q) = UserView(s)[q]
      BY <2>5, UserWalk DEF LowHalf
    <3> QED
      BY <2>1, <3>1, FramesProtect DEF Protected
  <2> QED
    BY <2>2, <2>3, <2>4, <2>5 DEF UInv
<1> QED
  BY <1>1, <1>2, PTL

\* What the docs promise without a condition, KernelProtected, holds where no
\* page of the image is asked for: a test in ioremap_device would keep it.
COROLLARY ProtectedUnlessAsked ==
  ASSUME \A p \in DevicePages : p[3] # ImageSlot
  PROVE  TablesSpec => []KernelProtected
<1>1. OnlyIoremapUnprotects => KernelProtected
  <2> SUFFICES ASSUME OnlyIoremapUnprotects, Built, NEW q \in DevicePages,
                      HighHalf(q) \in [pa : {q}, attr : {"Device", "Framebuffer"}]
               PROVE  Protected(HighHalf(q))
    BY DEF OnlyIoremapUnprotects, KernelProtected
  <2>1. \A i : q # ImagePage(i)
    BY DEF ImagePage
  <2> QED
    BY <2>1 DEF Protected, AtEL0
<1> QED
  BY <1>1, TablesProtectKernel, PTL

\* The monitor's walk in software answers as the hardware does: no table that
\* a kernel address leads to is outside the static it checks against.
THEOREM SoftWalkIsTheWalk == TablesSpec => []SoftWalkAgrees
<1>1. TInv => SoftWalkAgrees
  <2> SUFFICES ASSUME TInv, NEW q \in Probes PROVE SoftWalk(L0, q) = Walk(pt, L0, q)
    BY DEF SoftWalkAgrees, HighHalf
  <2>1. pt \in Contents /\ runtime_idx \in Nat /\ Tree(pt, runtime_idx) /\ q \in Page
    BY ProbePages, TablesAssumption DEF TInv, TablesTypeOK, Contents
  <2>2. L0 \in TABLES /\ Inner \subseteq TABLES
    BY DEF TABLES, KernelTables, Inner
  <2>3. \A d \in {Lookup0(pt, L0, q), Lookup1(pt, L0, q), Lookup2(pt, L0, q)} :
          d.type = "table" => d.to \in TABLES
    BY <2>1, <2>2, Lookups
  <2> QED
    BY <2>2, <2>3 DEF SoftWalk
<1> QED
  BY <1>1, TablesInvariant, PTL
=============================================================================
