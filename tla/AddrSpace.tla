----------------------------- MODULE AddrSpace -----------------------------
(***************************************************************************)
(* Physical pages and user address spaces: kernel/mm.c, kernel/vm.c, and   *)
(* the calls of proc.c, elf.c and syscall.c that build and tear down page  *)
(* tables when memory may run out at any kalloc.                           *)
(*                                                                         *)
(* A table is named by its root page.  Virtual page 0 stands for           *)
(* USER_BASE; the stack is the top of the user range.  Addresses given to  *)
(* brk count half pages, so that rounding to a page matters.               *)
(*                                                                         *)
(* fork, exec and a growing brk take one step per page they map, each a    *)
(* kalloc that may fail.  They run inside a trap with interrupts off, so   *)
(* no other process moves meanwhile.  Calls that fail before they take a   *)
(* page that they keep (no slot, no page for the trapframe, the root or    *)
(* the first table) leave everything as it was and have no action.         *)
(***************************************************************************)
EXTENDS Integers, FiniteSets, Sequences

CONSTANTS
  Pages,      \* what kinit puts on the free list
  NPROC,      \* process slots; slot 0 gets the first process
  NVA,        \* user virtual pages (USER_BASE .. USER_LIMIT)
  StackBase,  \* first page of the stack (USER_STACK_BASE)
  Span,       \* virtual pages under one level-0 table (512)
  Images,     \* executables: the pages of their segments, in mapping order
  BootRoot,   \* the root table boot.c built
  Nil

VA == 0 .. NVA - 1
Procs == 0 .. NPROC - 1
Regions == {va \div Span : va \in VA}
Breaks == 0 .. 2 * StackBase

\* The linker script of the programs lays their sections out one behind the
\* other from USER_BASE on, so an image has no holes.
ASSUME AddrAssumption ==
  /\ IsFiniteSet(Pages) /\ BootRoot \notin Pages
  /\ NPROC \in Nat \ {0} /\ Span \in Nat \ {0}
  /\ NVA \in Nat /\ StackBase \in VA \ {0}
  /\ Images \subseteq Seq(VA)
  /\ \A img \in Images : \E n \in 1 .. NVA : {img[i] : i \in DOMAIN img} = 0 .. n - 1
  /\ Nil \notin Pages \cup {BootRoot} \cup Nat

VARIABLES
  free,    \* the pages on g_freelist
  tab,     \* tab[r]: the user part of the table with root page r
  st,      \* state of a slot: "unused", "used", "ready" or "zombie"
  pt,      \* p->pagetable (Nil once freed: the stale pointer is not read)
  tf,      \* p->tf
  sz,      \* p->sz, in half pages
  parent,
  cur,     \* g_current
  satp,    \* the root the hart translates with
  op,      \* the call under way
  lost,    \* history: pages no one can free any more
  short    \* history: p has seen a brk fail since its last exec

asvars == <<free, tab, st, pt, tf, sz, parent, cur, satp, op, lost, short>>
procVars == <<st, pt, tf, sz, parent, cur, satp>>

NoTable == [l1 |-> Nil, l0 |-> [k \in Regions |-> Nil], leaf |-> [v \in VA |-> Nil]]
Idle == [kind |-> "idle", p |-> Nil, c |-> Nil, root |-> Nil,
         todo |-> <<>>, nsz |-> 0]

AsInit ==
  /\ free = Pages
  /\ tab = [r \in Pages |-> NoTable]
  /\ st = [p \in Procs |-> "unused"]
  /\ pt = [p \in Procs |-> Nil]
  /\ tf = [p \in Procs |-> Nil]
  /\ sz = [p \in Procs |-> 0]
  /\ parent = [p \in Procs |-> Nil]
  /\ cur = Nil
  /\ satp = BootRoot
  /\ op = Idle
  /\ lost = {}
  /\ short = [p \in Procs |-> FALSE]

-----------------------------------------------------------------------------
\* The head of g_freelist.  Which page it is does not matter: nothing in the
\* kernel looks at a page's address.
Kalloc(S) == CHOOSE pg \in S : TRUE

\* PGROUNDUP, from half pages to pages.
PgRoundUp(a) == (a + 1) \div 2

\* The pages reached from a root through user mappings, and the root.
TablePages(r) ==
  ({r, tab[r].l1} \cup {tab[r].l0[k] : k \in Regions}
                  \cup {tab[r].leaf[v] : v \in VA}) \ {Nil}

\* uvm_free: freewalk from the root, then the root itself.
UvmFree(r) == tab' = [tab EXCEPT ![r] = NoTable]

\* Mutant: the copied root keeps the low entry of the table in use.
UvmCreate_SharesLow(r, l1) ==
  tab' = [tab EXCEPT ![r] = IF satp = BootRoot THEN [NoTable EXCEPT !.l1 = l1]
                            ELSE [tab[satp] EXCEPT !.l1 = l1]]

\* uvm_create: a copy of the current root, whose kernel entries are shared,
\* with a fresh table for the low gigabyte.
UvmCreate(r, l1) == tab' = [tab EXCEPT ![r] = [NoTable EXCEPT !.l1 = l1]]

Mapped(r, S) == {v \in S : tab[r].leaf[v] # Nil}

\* The pages of S in increasing order.
Ascending(S) ==
  CHOOSE s \in [1 .. Cardinality(S) -> S] : \A i, j \in DOMAIN s : i < j => s[i] < s[j]

\* proc_find_unused.
FindUnused(c) == st[c] = "unused" /\ \A d \in Procs : d < c => st[d] # "unused"

\* elf_load's maxva, as a page: the end of the image.
ImageEnd(img) ==
  CHOOSE n \in 0 .. NVA :
    /\ \A i \in DOMAIN img : img[i] < n
    /\ n = 0 \/ \E i \in DOMAIN img : img[i] = n - 1

-----------------------------------------------------------------------------
\* proc_alloc: slot c gets a trapframe and an empty table.
ProcAlloc(c) ==
  LET t  == Kalloc(free)
      r  == Kalloc(free \ {t})
      l1 == Kalloc(free \ {t, r})
  IN  /\ FindUnused(c)
      /\ Cardinality(free) >= 3
      /\ free' = free \ {t, r, l1}
      /\ UvmCreate(r, l1)
      /\ st' = [st EXCEPT ![c] = "used"]
      /\ pt' = [pt EXCEPT ![c] = r]
      /\ tf' = [tf EXCEPT ![c] = t]
      /\ sz' = [sz EXCEPT ![c] = 0]
      /\ short' = [short EXCEPT ![c] = FALSE]
      /\ UNCHANGED <<parent, cur, satp, lost>>

\* kernel_main: the slot of the first process, before /bin/sh is loaded.
Boot ==
  /\ op = Idle /\ \A p \in Procs : st[p] = "unused"
  /\ ProcAlloc(0)
  /\ op' = [Idle EXCEPT !.kind = "boot"]

\* proc_fork, up to the loops that copy the pages below sz and the stack.
ForkStart(p, c) ==
  /\ op = Idle /\ cur = p
  /\ ProcAlloc(c)
  /\ op' = [kind |-> "fork", p |-> p, c |-> c, root |-> pt'[c], nsz |-> sz[p],
            todo |-> Ascending(Mapped(pt[p], 0 .. PgRoundUp(sz[p]) - 1))
                       \o Ascending(Mapped(pt[p], StackBase .. NVA - 1))]

\* proc_exec_common_depth, up to elf_load; kernel_main loads /bin/sh this way
\* when no process runs yet.
ExecStart(p, img) ==
  LET r  == Kalloc(free)
      l1 == Kalloc(free \ {r})
  IN  /\ \/ op = Idle /\ cur = p
         \/ op.kind = "boot" /\ p = 0
      /\ Cardinality(free) >= 2
      /\ free' = free \ {r, l1}
      /\ UvmCreate(r, l1)
      /\ op' = [kind |-> "exec", p |-> p, c |-> Nil, root |-> r, nsz |-> 2 * ImageEnd(img),
                todo |-> img \o Ascending(StackBase .. NVA - 1)]
      /\ UNCHANGED <<procVars, lost, short>>

\* sys_brk above the break: uvm_alloc.
BrkGrow(p, new) ==
  /\ op = Idle /\ cur = p
  /\ new > sz[p]
  /\ op' = [kind |-> "brk", p |-> p, c |-> Nil, root |-> pt[p], nsz |-> new,
            todo |-> Ascending(PgRoundUp(sz[p]) .. PgRoundUp(new) - 1)]
  /\ UNCHANGED <<free, tab, procVars, lost, short>>

\* Mutant: the end of the range is rounded down, and the last page stays.
Dealloc_EndDown(p, new) == PgRoundUp(new) .. (sz[p] \div 2) - 1

\* The range that uvm_dealloc unmaps.
Dealloc(p, new) == PgRoundUp(new) .. PgRoundUp(sz[p]) - 1

\* sys_brk below the break: uvm_dealloc and uvm_unmap.
BrkShrink(p, new) ==
  LET gone == Mapped(pt[p], Dealloc(p, new))
      leaf == tab[pt[p]].leaf
  IN  /\ op = Idle /\ cur = p
      /\ new < sz[p]
      /\ free' = free \cup {leaf[v] : v \in gone}
      /\ tab' = [tab EXCEPT ![pt[p]].leaf =
                   [v \in VA |-> IF v \in gone THEN Nil ELSE leaf[v]]]
      /\ sz' = [sz EXCEPT ![p] = new]
      /\ UNCHANGED <<st, pt, tf, parent, cur, satp, op, lost, short>>

-----------------------------------------------------------------------------
\* What uvm_map of the page mem at v needs besides mem: a level-0 table, if
\* walk finds none.
NeedsL0(v) == tab[op.root].l0[v \div Span] = Nil

\* The next page: kalloc, walk and the store of the leaf.
MapNext ==
  LET v   == Head(op.todo)
      mem == Kalloc(free)
      l0  == Kalloc(free \ {mem})
  IN  /\ op.todo # <<>>
      /\ Cardinality(free) >= IF NeedsL0(v) THEN 2 ELSE 1
      /\ tab[op.root].leaf[v] = Nil
      /\ IF NeedsL0(v)
           THEN /\ free' = free \ {mem, l0}
                /\ tab' = [tab EXCEPT ![op.root].leaf[v] = mem,
                                      ![op.root].l0[v \div Span] = l0]
           ELSE /\ free' = free \ {mem}
                /\ tab' = [tab EXCEPT ![op.root].leaf[v] = mem]
      /\ op' = [op EXCEPT !.todo = Tail(@)]
      /\ UNCHANGED <<procVars, lost, short>>

\* kalloc, or the kalloc in walk, finds nothing; or the page is mapped.
CannotMap ==
  /\ op.todo # <<>>
  /\ LET v == Head(op.todo)
     IN  \/ Cardinality(free) < IF NeedsL0(v) THEN 2 ELSE 1
         \/ tab[op.root].leaf[v] # Nil

\* proc_fork when a copy fails: the child's table, trapframe and slot go back.
ForkFail ==
  /\ op.kind = "fork" /\ CannotMap
  /\ free' = free \cup TablePages(op.root) \cup {tf[op.c]}
  /\ UvmFree(op.root)
  /\ st' = [st EXCEPT ![op.c] = "unused"]
  /\ pt' = [pt EXCEPT ![op.c] = Nil]
  /\ tf' = [tf EXCEPT ![op.c] = Nil]
  /\ op' = Idle
  /\ UNCHANGED <<sz, parent, cur, satp, lost, short>>

\* The loops are done: the child can run.
ForkDone ==
  /\ op.kind = "fork" /\ op.todo = <<>>
  /\ sz' = [sz EXCEPT ![op.c] = op.nsz]
  /\ parent' = [parent EXCEPT ![op.c] = op.p]
  /\ st' = [st EXCEPT ![op.c] = "ready"]
  /\ op' = Idle
  /\ UNCHANGED <<free, tab, pt, tf, cur, satp, lost, short>>

\* exec gives up: uvm_free of the new table.  kernel_main halts if it could
\* not load the first process.
ExecUndo(dropped) ==
  /\ op.kind = "exec"
  /\ free' = (free \ dropped) \cup TablePages(op.root)
  /\ lost' = lost \cup dropped
  /\ UvmFree(op.root)
  /\ op' = IF cur = op.p THEN Idle ELSE [Idle EXCEPT !.kind = "halt"]
  /\ UNCHANGED <<procVars, short>>

\* elf_load could not read or map a segment (it frees the page it could not
\* map), or the arguments do not fit the stack.
ExecFail ==
  /\ Len(op.todo) >= NVA - StackBase \/ op.todo = <<>>
  /\ ExecUndo({})

\* The loop over the stack could not map a page; it does not free it.
ExecNoStack ==
  /\ CannotMap /\ Len(op.todo) <= NVA - StackBase
  /\ ExecUndo(IF free = {} THEN {} ELSE {Kalloc(free)})

\* Mutant: the hart keeps translating with the old table.
ExecSatp_Kept == satp

\* exec of the running process switches the hart to the new table.
ExecSatp == IF cur = op.p THEN op.root ELSE satp

\* exec succeeds: the new table replaces the old one, which is freed after
\* the switch.  kernel_main makes the first process runnable.
ExecDone ==
  /\ op.kind = "exec" /\ op.todo = <<>>
  /\ pt' = [pt EXCEPT ![op.p] = op.root]
  /\ sz' = [sz EXCEPT ![op.p] = op.nsz]
  /\ short' = [short EXCEPT ![op.p] = FALSE]
  /\ satp' = ExecSatp
  /\ free' = free \cup TablePages(pt[op.p])
  /\ UvmFree(pt[op.p])
  /\ st' = [st EXCEPT ![op.p] = "ready"]
  /\ op' = Idle
  /\ UNCHANGED <<tf, parent, cur, lost>>

\* uvm_alloc fails: the pages it has mapped stay, and so does sz.
BrkFail ==
  /\ op.kind = "brk" /\ CannotMap
  /\ short' = [short EXCEPT ![op.p] = TRUE]
  /\ op' = Idle
  /\ UNCHANGED <<free, tab, procVars, lost>>

BrkDone ==
  /\ op.kind = "brk" /\ op.todo = <<>>
  /\ sz' = [sz EXCEPT ![op.p] = op.nsz]
  /\ op' = Idle
  /\ UNCHANGED <<free, tab, st, pt, tf, parent, cur, satp, lost, short>>

-----------------------------------------------------------------------------
\* proc_exit, and the yield it ends with: the table stays, and in use.
Exit(p) ==
  /\ op = Idle /\ cur = p
  /\ st' = [st EXCEPT ![p] = "zombie"]
  /\ cur' = Nil
  /\ UNCHANGED <<free, tab, pt, tf, sz, parent, satp, op, lost, short>>

\* The zombies that proc_wait may take.
Reapable(p, c) == parent[c] = p /\ st[c] = "zombie"

\* proc_wait finds a zombie: its memory and its slot are free.
Reap(p, c) ==
  /\ op = Idle /\ cur = p
  /\ Reapable(p, c)
  /\ free' = free \cup TablePages(pt[c]) \cup {tf[c]}
  /\ UvmFree(pt[c])
  /\ st' = [st EXCEPT ![c] = "unused"]
  /\ pt' = [pt EXCEPT ![c] = Nil]
  /\ tf' = [tf EXCEPT ![c] = Nil]
  /\ parent' = [parent EXCEPT ![c] = Nil]
  /\ UNCHANGED <<sz, cur, satp, op, lost, short>>

\* proc_yield.
Yield(p) ==
  /\ op = Idle /\ cur = p
  /\ cur' = Nil
  /\ UNCHANGED <<free, tab, st, pt, tf, sz, parent, satp, op, lost, short>>

\* scheduler: the hart translates with the table of the process it runs.
Dispatch(p) ==
  /\ op = Idle /\ cur = Nil /\ st[p] = "ready"
  /\ cur' = p
  /\ satp' = pt[p]
  /\ UNCHANGED <<free, tab, st, pt, tf, sz, parent, op, lost, short>>

AsNext ==
  \/ Boot
  \/ \E p \in Procs :
       \/ \E c \in Procs : ForkStart(p, c) \/ Reap(p, c)
       \/ \E img \in Images : ExecStart(p, img)
       \/ \E new \in Breaks : BrkGrow(p, new) \/ BrkShrink(p, new)
       \/ Exit(p) \/ Yield(p) \/ Dispatch(p)
  \/ MapNext
  \/ ForkFail \/ ForkDone \/ ExecFail \/ ExecNoStack \/ ExecDone \/ BrkFail \/ BrkDone

AsSpec == AsInit /\ [][AsNext]_asvars

-----------------------------------------------------------------------------
(* Properties *)

\* Every variable keeps the shape the C declarations give it.
AddrTypeOK ==
  /\ free \subseteq Pages /\ lost \subseteq Pages
  /\ tab \in [Pages -> [l1 : Pages \cup {Nil}, l0 : [Regions -> Pages \cup {Nil}],
                        leaf : [VA -> Pages \cup {Nil}]]]
  /\ st \in [Procs -> {"unused", "used", "ready", "zombie"}]
  /\ pt \in [Procs -> Pages \cup {Nil}] /\ tf \in [Procs -> Pages \cup {Nil}]
  /\ sz \in [Procs -> Breaks] /\ parent \in [Procs -> Procs \cup {Nil}]
  /\ cur \in Procs \cup {Nil} /\ satp \in Pages \cup {BootRoot}
  /\ op.kind \in {"idle", "boot", "halt", "fork", "exec", "brk"}
  /\ op.p \in Procs \cup {Nil} /\ op.c \in Procs \cup {Nil}
  /\ op.root \in Pages \cup {Nil} /\ op.todo \in Seq(VA) /\ op.nsz \in 0 .. 2 * NVA
  /\ short \in [Procs -> BOOLEAN]

\* The tables that exist: one per slot in use, and the one under construction.
Roots == {pt[p] : p \in {q \in Procs : st[q] # "unused"}}
           \cup (IF op.kind = "exec" THEN {op.root} ELSE {})

\* The places of page pg in the table of root r, and everything that refers to pg.
InTable(r, pg) ==
  {<<"l1", r>> : x \in {pg} \cap {tab[r].l1}}
    \cup {<<"l0", <<r, k>>>> : k \in {j \in Regions : tab[r].l0[j] = pg}}
    \cup {<<"leaf", <<r, v>>>> : v \in {w \in VA : tab[r].leaf[w] = pg}}
Owners(pg) ==
  {<<"free">> : x \in {pg} \cap free} \cup {<<"lost">> : x \in {pg} \cap lost}
    \cup {<<"tf", p>> : p \in {q \in Procs : st[q] # "unused" /\ tf[q] = pg}}
    \cup {<<"root", p>> : p \in {q \in Procs : st[q] # "unused" /\ pt[q] = pg}}
    \cup {<<"new">> : x \in {y \in {op.root} : op.kind = "exec" /\ y = pg}}
    \cup UNION {InTable(r, pg) : r \in Roots}

\* Every page has exactly one owner, at every kalloc of fork, exec and brk and
\* on every path that gives up: no page is used by two processes or in two
\* places of a table, none is freed while it is mapped or freed twice, and
\* none is dropped except the stack page that a failing exec forgets.
PageOwnedOnce == \A pg \in Pages : Cardinality(Owners(pg)) = 1

\* The hart never translates with a freed table: satp is the root of a slot
\* that is in use, the running process's while one runs.
SatpLive ==
  /\ satp # BootRoot => \E p \in Procs : st[p] # "unused" /\ pt[p] = satp
  /\ cur # Nil => satp = pt[cur]

\* The pages below a process's break, and its stack.
Granted(p) == (0 .. PgRoundUp(sz[p]) - 1) \cup (StackBase .. NVA - 1)

\* A process that can run has a page behind every address below its break
\* and in its stack, whatever failed before: what fork copied, what exec
\* loaded and what brk granted is there.
SpaceBacked ==
  \A p \in Procs : st[p] = "ready" => Granted(p) \subseteq Mapped(pt[p], VA)

\* It has nothing else, unless a brk of its own has failed: a shrunk heap
\* gives back its last page too.
SpaceExact ==
  \A p \in Procs :
    st[p] = "ready" /\ ~short[p] /\ op.kind # "brk" =>
      Mapped(pt[p], VA) \subseteq Granted(p)

\* A process that can run has what it was granted and nothing more, whatever
\* exec, fork and brk failed at (elf_load, uvm_copy, sys_brk).
SpaceSound == AddrTypeOK /\ SpaceBacked /\ SpaceExact
=============================================================================
