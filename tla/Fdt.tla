-------------------------------- MODULE Fdt --------------------------------
(***************************************************************************)
(* fdt_scan: the walk over the device tree's tokens that firmware and      *)
(* kernel each carry a copy of (firmware/fdt.c, kernel/fdt.c).  Nothing of *)
(* the tree is kept: a stack of node states, whose slots are used again by *)
(* every later node of the same depth, collects what the properties say    *)
(* and the END_NODE token decides.                                         *)
(*                                                                         *)
(* The tokens come from the environment one at a time, as any device tree  *)
(* would give them; tree, path and closed remember the tree itself, for    *)
(* the properties only.  fdt_get_memory, fdt_find_virtio_mmio and          *)
(* fdt_get_timebase are three readings of the same scan.                   *)
(***************************************************************************)
EXTENDS Naturals, Sequences, FiniteSets, SequencesExt

CONSTANTS MaxNodes,
          MaxDepth,   \* 32 in the code: no deeper tree is given to the scan
          MaxBases,   \* 8 in the callers
          CellBase,   \* 2^32 in the code
          Counts,     \* values of #address-cells and #size-cells
          Regs,       \* values of "reg", sequences of cells
          Rates       \* values of timebase-frequency

\* A "reg" has at least one cell.
ASSUME FdtAssumption == /\ MaxDepth \in Nat \ {0} /\ MaxBases \in Nat
                        /\ CellBase \in Nat /\ CellBase > 1
                        /\ Counts \subseteq Nat /\ Regs \subseteq Seq(Nat) \ {<<>>}

VARIABLES scan,    \* fdt_scan's locals and outputs
          tree,    \* nodes in the order they begin
          path,    \* nodes begun and not ended
          closed   \* nodes in the order they ended

fdtvars == <<scan, tree, path, closed>>

Clear == [is_memory |-> FALSE, is_virtio |-> FALSE, reg_valid |-> FALSE,
          reg_base |-> 0, reg_size |-> 0]
Unset == <<>>
NewNode(up) == [up |-> up, mem |-> FALSE, virtio |-> FALSE, reg |-> Unset,
                addr |-> Unset, size |-> Unset]

\* The stack is not initialised: junk in every slot.
FdtInit ==
    /\ scan = [rc |-> "running", depth |-> 0, addr |-> 2, size |-> 2,
               stack |-> [d \in 1..MaxDepth |->
                            [Clear EXCEPT !.is_memory = TRUE, !.is_virtio = TRUE, !.reg_valid = TRUE]],
               mem_base |-> 0, mem_size |-> 0, bases |-> <<>>, timebase |-> 0]
    /\ tree = <<>> /\ path = <<>> /\ closed = <<>>

\* uint64_t: the cells above the last two are shifted out.
fdt_read_num(cells) == FoldLeft(LAMBDA v, c : (v * CellBase + c) % (CellBase * CellBase), 0, cells)

-----------------------------------------------------------------------------
Node_Keep(up) ==
    /\ scan' = [scan EXCEPT !.depth = @ + 1]
    /\ tree' = Append(tree, NewNode(up))
    /\ path' = Append(path, Len(tree) + 1)
    /\ UNCHANGED closed
Node(up) ==
    /\ scan' = [scan EXCEPT !.stack[scan.depth + 1] = Clear, !.depth = @ + 1]
    /\ tree' = Append(tree, NewNode(up))
    /\ path' = Append(path, Len(tree) + 1)
    /\ UNCHANGED closed

\* A node states its cells before it has children, as QEMU's trees do.
BeginNode ==
    /\ scan.rc = "running" /\ Len(tree) < MaxNodes /\ Len(path) < MaxDepth
    /\ IF path = <<>> THEN tree = <<>>
       ELSE tree[Last(path)].addr # Unset /\ tree[Last(path)].size # Unset
    /\ Node(IF path = <<>> THEN 0 ELSE Last(path))

EndNode ==
    /\ scan.rc = "running" /\ path # <<>>
    /\ LET cur == scan.stack[scan.depth]
           mem == cur.is_memory /\ cur.reg_valid /\ scan.mem_size = 0
           virtio == cur.is_virtio /\ cur.reg_valid /\ Len(scan.bases) < MaxBases
       IN  scan' = [scan EXCEPT
                      !.depth = @ - 1,
                      !.mem_base = IF mem THEN cur.reg_base ELSE @,
                      !.mem_size = IF mem THEN cur.reg_size ELSE @,
                      !.bases = IF virtio THEN Append(@, cur.reg_base) ELSE @]
    /\ path' = Front(path)
    /\ closed' = Append(closed, Last(path))
    /\ UNCHANGED tree

\* Properties come before children: the node on top is the last one begun.
InNode == scan.rc = "running" /\ path # <<>> /\ Last(path) = Len(tree)
Top == scan.depth
Cells(i) == <<tree[i].addr, tree[i].size>>
\* A bus states cells; a device, somewhere under the root, has the rest.  Memory
\* and virtio devices sit on buses that count cells as the root does.
OnBus == InNode /\ LET n == tree[Len(tree)] IN ~n.mem /\ ~n.virtio /\ n.reg = Unset
OnDevice == InNode /\ Len(tree) > 1 /\ tree[Len(tree)].addr = Unset
AsRoot == OnDevice /\ Cells(tree[Len(tree)].up) = Cells(1)

CellsAt1(field, n) == IF scan.depth = 1 THEN [scan EXCEPT ![field] = n] ELSE scan

PropAddressCells(n) ==
    /\ OnBus /\ tree[Len(tree)].addr = Unset
    /\ scan' = CellsAt1("addr", n)
    /\ tree' = [tree EXCEPT ![Len(tree)].addr = <<n>>]
    /\ UNCHANGED <<path, closed>>

PropSizeCells(n) ==
    /\ OnBus /\ tree[Len(tree)].addr # Unset /\ tree[Len(tree)].size = Unset
    /\ scan' = CellsAt1("size", n)
    /\ tree' = [tree EXCEPT ![Len(tree)].size = <<n>>]
    /\ UNCHANGED <<path, closed>>

PropDeviceType ==
    /\ AsRoot /\ ~tree[Len(tree)].virtio
    /\ scan' = [scan EXCEPT !.stack[Top].is_memory = TRUE]
    /\ tree' = [tree EXCEPT ![Len(tree)].mem = TRUE]
    /\ UNCHANGED <<path, closed>>

\* fdt_strlist_contains: "virtio,mmio" is one of the strings of the list.
PropCompatible ==
    /\ AsRoot /\ ~tree[Len(tree)].mem
    /\ scan' = [scan EXCEPT !.stack[Top].is_virtio = TRUE]
    /\ tree' = [tree EXCEPT ![Len(tree)].virtio = TRUE]
    /\ UNCHANGED <<path, closed>>

\* "reg" is read with the root's cell counts wherever the node is.
PropReg(cells) ==
    /\ OnDevice /\ tree[Len(tree)].reg = Unset
    /\ scan' = IF Len(cells) < scan.addr + scan.size THEN scan
               ELSE [scan EXCEPT !.stack[Top] =
                       [@ EXCEPT !.reg_valid = TRUE,
                                 !.reg_base = fdt_read_num(SubSeq(cells, 1, scan.addr)),
                                 !.reg_size = fdt_read_num(SubSeq(cells, scan.addr + 1,
                                                                  scan.addr + scan.size))]]
    /\ tree' = [tree EXCEPT ![Len(tree)].reg = cells]
    /\ UNCHANGED <<path, closed>>

\* Only the firmware's copy reads the timebase.
PropTimebase(hz) ==
    /\ OnBus
    /\ scan' = [scan EXCEPT !.timebase = IF @ = 0 THEN hz ELSE @]
    /\ UNCHANGED <<tree, path, closed>>

EndTree == /\ scan.rc = "running" /\ path = <<>> /\ tree # <<>>
           /\ scan' = [scan EXCEPT !.rc = "ok"]
           /\ UNCHANGED <<tree, path, closed>>

\* The kernel's copy checks every read against the end of the structure
\* block, and both refuse an unknown token or a bad magic number.  The count of
\* virtio bases stays 0 then, and no caller looks at the rest.
BadTree == /\ scan.rc = "running"
           /\ scan' = [scan EXCEPT !.rc = "error", !.depth = 0, !.bases = <<>>]
           /\ tree' = <<>> /\ path' = <<>> /\ closed' = <<>>

FdtNext == \/ BeginNode \/ EndNode \/ PropDeviceType \/ PropCompatible \/ EndTree \/ BadTree
           \/ \E n \in Counts : PropAddressCells(n) \/ PropSizeCells(n)
           \/ \E cells \in Regs : PropReg(cells)
           \/ \E hz \in Rates : PropTimebase(hz)

FdtSpec == FdtInit /\ [][FdtNext]_fdtvars

fdt_get_memory == IF scan.rc = "ok" /\ scan.mem_size # 0
                  THEN <<scan.mem_base, scan.mem_size>> ELSE <<>>

-----------------------------------------------------------------------------
FdtTypeOK ==
    /\ scan.depth = Len(path) /\ scan.depth \in 0..MaxDepth
    /\ scan.rc \in {"running", "ok", "error"}
    /\ DOMAIN scan.stack = 1..MaxDepth
    /\ Len(scan.bases) <= MaxBases

\* What the tree says of node i: its "reg" in the cells its parent counts in.
Addr(i) == tree[tree[i].up].addr[1]
Cell(i) == Addr(i) + tree[tree[i].up].size[1]
Decodes(i) == tree[i].up # 0 /\ tree[i].reg # Unset /\ Len(tree[i].reg) >= Cell(i)
RegBase(i) == fdt_read_num(SubSeq(tree[i].reg, 1, Addr(i)))
RegSize(i) == fdt_read_num(SubSeq(tree[i].reg, Addr(i) + 1, Cell(i)))
MemNodes == {k \in DOMAIN closed : tree[closed[k]].mem /\ Decodes(closed[k]) /\ RegSize(closed[k]) # 0}
VirtioNodes == {k \in DOMAIN closed : tree[closed[k]].virtio /\ Decodes(closed[k])}
Rank(k) == Cardinality({j \in VirtioNodes : j <= k})

\* fdt_get_memory answers the first memory node, in the order nodes end, that
\* has a size; nothing a node said reaches a later node in the same stack slot.
MemoryIsTheTrees ==
    scan.rc = "ok" =>
      IF MemNodes = {} THEN fdt_get_memory = <<>>
      ELSE \E k \in MemNodes : /\ \A j \in MemNodes : k <= j
                              /\ fdt_get_memory = <<RegBase(closed[k]), RegSize(closed[k])>>

\* fdt_find_virtio_mmio answers the virtio nodes in the order they end, each
\* with its own base, and drops the ones past the caller's array.
BasesAreTheTrees ==
    /\ Len(scan.bases) = Min({Cardinality(VirtioNodes), MaxBases})
    /\ \A k \in VirtioNodes : Rank(k) <= MaxBases => scan.bases[Rank(k)] = RegBase(closed[k])

\* The scan answers what the tree says, for kernel and firmware alike
\* (fdt_get_memory, fdt_find_virtio_mmio).
TreeRead == FdtTypeOK /\ MemoryIsTheTrees /\ BasesAreTheTrees
=============================================================================
