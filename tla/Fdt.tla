-------------------------------- MODULE Fdt --------------------------------
(***************************************************************************)
(* The devicetree parser of src/arch/aarch64/fdt.rs, and board::which.     *)
(*                                                                         *)
(* A blob is a sequence of cells of four bytes, and an offset counts cells *)
(* from 0. Tokens, lengths and values are numbers; so are names, each one  *)
(* a number of its own, and a property is named by its name rather than by *)
(* an offset into the string block. A name with a unit address (50 and up) *)
(* takes two cells. An Option is a sequence of at most one element.        *)
(***************************************************************************)
EXTENDS Integers, Sequences
LOCAL INSTANCE SequencesExt

FDT_BEGIN_NODE == 1
FDT_END_NODE == 2
FDT_PROP == 3
FDT_NOP == 4
FDT_END == 9

None == <<>>
Some(x) == <<x>>

Header_SIZE == 1        \* the ten words of the header, as one cell

\* Names: of properties, of nodes, and in compatible lists.
COMPATIBLE == 20    REG == 21
ROOT == 40 (* "" *)  MEMORY == 41        SERIAL == 42        SOC == 43
QEMU_VIRT == 30     APPLE_T8103 == 31   PL011 == 32         S5L_UART == 33
APPLE_AIC == 34     SIMPLE_FB == 35     T8103_AIC == 36

\* memory@40000000 for memory, and the name without the address.
WithUnit(name) == name + 10
HasUnit(name) == name >= 50
Bare(name) == IF HasUnit(name) THEN name - 10 ELSE name
Width(name) == IF HasUnit(name) THEN 2 ELSE 1

\* str::contains and starts_with("apple,"), on the names above.
Mentions(compat, substr) == compat = substr
StartsWithApple(compat) == compat \in {APPLE_T8103, S5L_UART, APPLE_AIC, T8103_AIC}

----------------------------------------------------------------------------
\* Fdtr::new, after fdt_at found the magic.
Fdtr_new(b) ==
  /\ b.magic
  /\ b.off_dt_struct + b.size_dt_struct <= b.totalsize
  /\ b.off_dt_struct >= Header_SIZE

struct_end(b) == b.off_dt_struct + b.size_dt_struct

\* struct_u32 and struct_cstr: -1 stands for None.
struct_u32(b, off) == IF off < b.totalsize THEN b.cells[off + 1] ELSE -1

struct_cstr(b, off) ==
  LET name == struct_u32(b, off)
  IN  IF name # -1 /\ off + Width(name) <= b.totalsize THEN name ELSE -1

struct_bytes(b, off, len) ==
  IF len >= 0 /\ off + len <= b.totalsize
  THEN Some(SubSeq(b.cells, off + 1, off + len)) ELSE None

root(b) ==
  LET off == b.off_dt_struct
  IN  IF struct_u32(b, off) = FDT_BEGIN_NODE THEN Some(off) ELSE None

NodeName(b, node) == struct_cstr(b, node + 1)

full_name(b, node) == IF NodeName(b, node) = -1 THEN ROOT ELSE NodeName(b, node)

\* The first cell after a node's name.
FirstItem(b, node) == node + 1 + Width(NodeName(b, node))

prop(b, node, name) ==
  LET scan[off \in Nat] ==
        LET token == struct_u32(b, off)
            len   == struct_u32(b, off + 1)
            data  == struct_bytes(b, off + 3, len)
        IN  IF off + 1 > struct_end(b) THEN None
            ELSE CASE token = FDT_NOP -> scan[off + 1]
                   [] token = FDT_PROP /\ data # None ->
                        IF struct_u32(b, off + 2) = name THEN data
                        ELSE scan[off + 3 + len]
                   [] OTHER -> None
  IN  IF NodeName(b, node) = -1 THEN None ELSE scan[FirstItem(b, node)]

\* The first entry of the list, 0 for the empty string.
compatible(b, node) ==
  LET data == prop(b, node, COMPATIBLE)
  IN  IF data = None \/ data[1] = <<>> THEN 0 ELSE data[1][1]

\* prop_cells(..).next().unwrap_or(0), the first of a pair of cells.
reg_base(b, node) ==
  LET data == prop(b, node, REG)
  IN  IF data = None \/ data[1] = <<>> THEN 0 ELSE data[1][1]

first_child_unskipped(b, node) ==   \* mutant: takes data for tokens
  LET scan[off \in Nat] ==
        LET token == struct_u32(b, off)
        IN  IF off + 1 > struct_end(b) THEN None
            ELSE CASE token = FDT_PROP -> scan[off + 3]
                   [] token = FDT_NOP -> scan[off + 1]
                   [] token = FDT_BEGIN_NODE -> Some(off)
                   [] OTHER -> None
  IN  IF NodeName(b, node) = -1 THEN None ELSE scan[FirstItem(b, node)]

first_child_offset(b, node) ==
  LET scan[off \in Nat] ==
        LET token == struct_u32(b, off)
            len   == struct_u32(b, off + 1)
        IN  IF off + 1 > struct_end(b) THEN None
            ELSE CASE token = FDT_PROP /\ len >= 0 -> scan[off + 3 + len]
                   [] token = FDT_NOP -> scan[off + 1]
                   [] token = FDT_BEGIN_NODE -> Some(off)
                   [] OTHER -> None
  IN  IF NodeName(b, node) = -1 THEN None ELSE scan[FirstItem(b, node)]

NodeIter_flat(b, offset, depth0) ==     \* mutant: loses count of the depth
  LET next[off \in Nat] ==
        LET token == struct_u32(b, off)
            len   == struct_u32(b, off + 1)
            name  == struct_cstr(b, off + 1)
        IN  IF off = 0 \/ off + 1 > struct_end(b) THEN <<>>
            ELSE CASE token = FDT_BEGIN_NODE /\ name # -1 ->
                        <<off>> \o next[off + 1 + Width(name)]
                   [] token \in {FDT_END_NODE, FDT_NOP} -> next[off + 1]
                   [] token = FDT_PROP /\ len >= 0 -> next[off + 3 + len]
                   [] OTHER -> <<>>
  IN  next[offset]

\* NodeIter, run to its end: what next() yields from (offset, depth).
NodeIter(b, offset, depth0) ==
  LET next[off \in Nat, depth \in Nat] ==
        LET token == struct_u32(b, off)
            len   == struct_u32(b, off + 1)
            name  == struct_cstr(b, off + 1)
        IN  IF off = 0 \/ off + 1 > struct_end(b) THEN <<>>
            ELSE CASE token = FDT_BEGIN_NODE /\ name # -1 ->
                        IF depth = 0
                        THEN <<off>> \o next[off + 1 + Width(name), 1]
                        ELSE next[off + 1 + Width(name), depth + 1]
                   [] token = FDT_END_NODE /\ depth > 0 -> next[off + 1, depth - 1]
                   [] token = FDT_PROP /\ len >= 0 -> next[off + 3 + len, depth]
                   [] token = FDT_NOP -> next[off + 1, depth]
                   [] OTHER -> <<>>
  IN  next[offset, depth0]

children(b, node) ==
  LET first == first_child_offset(b, node)
  IN  IF first = None THEN <<>> ELSE NodeIter(b, first[1], 0)

\* find: the path as the sequence of its components.
find(b, path) ==
  LET Matches(node, component) ==
        \/ full_name(b, node) = component
        \/ ~HasUnit(component) /\ Bare(full_name(b, node)) = component
      Into(component, node) ==
        IF node = None THEN None
        ELSE LET hits == SelectSeq(children(b, node[1]),
                           LAMBDA child : Matches(child, component))
             IN  IF hits = <<>> THEN None ELSE Some(hits[1])
  IN  FoldLeft(LAMBDA node, component : Into(component, node), root(b), path)

find_by_compatible(b, substr) ==
  LET search[node \in Nat] ==
        IF Mentions(compatible(b, node), substr) THEN Some(node)
        ELSE LET hits == SelectSeq(children(b, node),
                           LAMBDA child : search[child] # None)
             IN  IF hits = <<>> THEN None ELSE search[hits[1]]
  IN  IF root(b) = None THEN None ELSE search[root(b)[1]]

\* board::which.
which(b) ==
  LET compat == IF root(b) = None THEN 0 ELSE compatible(b, root(b)[1])
  IN  IF StartsWithApple(compat) /\ ~Mentions(compat, QEMU_VIRT)
      THEN "Apple" ELSE "Virt"
=============================================================================
