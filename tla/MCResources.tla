---------------------------- MODULE MCResources ----------------------------
(***************************************************************************)
(* Small instances of AddrSpace, the pages of memory, and of Fat32, the    *)
(* clusters of the disk.  Each behaviour runs one of the two, the other    *)
(* stays as it started.                                                    *)
(*                                                                         *)
(* No step depends on which page is which, so two states that differ by a  *)
(* permutation of Pages need not both be explored.  AddrView names the     *)
(* state up to such a permutation: while every page has one owner, who has *)
(* a page where, and how many pages are free, determine the state.  States *)
(* in which a page has another number of owners are told apart from all    *)
(* others by the last component, so none is taken for a good one.          *)
(***************************************************************************)
EXTENDS AddrSpace, Fat32, TLC

VARIABLE which

\* One page; two segments in one page; a segment that reaches the stack.
MCImages == {<<0>>, <<0, 0>>, <<0, 1, 2>>}

Shape(r) ==
  IF r \in Pages
  THEN <<tab[r].l1 # Nil, {k \in Regions : tab[r].l0[k] # Nil}, Mapped(r, VA)>>
  ELSE <<>>

AddrView ==
  <<st, sz, parent, short, cur,
    [p \in Procs |-> <<tf[p] # Nil, Shape(pt[p])>>],
    {p \in Procs : pt[p] = satp}, satp = BootRoot,
    [op EXCEPT !.root = Shape(@)], {p \in Procs : pt[p] = op.root},
    Cardinality(free), Cardinality(lost), PageOwnedOnce>>

\* wrote matters to WrittenReadsBack alone.
NoWrote == <<fat, tag, hint, dir, node, pool, nfile, stray, failed>>

View == <<which, IF which = "pages" THEN AddrView ELSE NoWrote>>

\* Where stray is TRUE the invariants of Fat32 have nothing more to say.
InStep == ~stray
Perms == Permutations(Names) \cup Permutations(Handles)

MCInit == which \in {"pages", "clusters"} /\ AsInit /\ Init
MCNext == \/ which = "pages" /\ AsNext /\ UNCHANGED <<vars, which>>
          \/ which = "clusters" /\ Next /\ UNCHANGED <<asvars, which>>
MCSpec == MCInit /\ [][MCNext]_<<asvars, vars, which>>
=============================================================================
