------------------------------- MODULE Ramfs -------------------------------
(***************************************************************************)
(* The memory file system mounted on /ram and the path walk above it:      *)
(* kernel/ramfs.c, the walks of kernel/vfs.c and the calls of              *)
(* kernel/syscall.c that name a path.  A call runs with interrupts off, so *)
(* it is one step.                                                         *)
(*                                                                         *)
(* A vnode never changes once it is wrapped around a node and is never     *)
(* freed (vfs_free_vnode has no caller), so a vnode is kept by value, as   *)
(* the sequence of vnodes its parent pointers go through: <<>> is the root *)
(* directory of the disk, <<x>> the root of /ram.  Only the number of      *)
(* vnodes taken from the pool is counted.  Names are equal here when       *)
(* name_eq_nocase finds them equal.  Calls that only look (fstatat,        *)
(* getdents64, reads) change nothing here but the count of vnodes, as a    *)
(* chdir that fails does, and have no action.                              *)
(*                                                                         *)
(* A path that leaves /ram for another file of the disk is not followed.   *)
(***************************************************************************)
EXTENDS Integers, FiniteSets, Sequences, SequencesExt

CONSTANTS
  Callers,  \* processes
  NNODE,    \* RAMFS_MAX_NODES (128)
  MAXSIZE,  \* RAMFS_MAX_FILE_SIZE (4096)
  NVNODE,   \* vnodes left in the pool (of VNODE_POOL_SIZE, 256) at first
  Names,    \* names of files and directories
  Paths,    \* the paths the processes use
  Flags,    \* the sets of openat's flags they use
  Bytes     \* what they write, but for zero

Slash == "/"  \* the first element of a path that starts at the root
Up == ".."
Ram == "ram"

Comps(path) == IF Head(path) = Slash THEN Tail(path) ELSE path

ASSUME RamAssumption ==
  /\ IsFiniteSet(Callers) /\ NNODE \in Nat \ {0} /\ MAXSIZE \in Nat
  /\ NVNODE \in Nat /\ 0 \notin Bytes /\ Flags \subseteq SUBSET {"creat", "trunc"}
  /\ \A path \in Paths : path # <<>> /\ Comps(path) \in Seq(Names \cup {Up, Ram})

VARIABLES
  node,     \* g_nodes
  nvn,      \* vnodes taken from the pool since then
  live,     \* processes that are neither UNUSED nor ZOMBIE
  cwd,      \* p->cwd
  open,     \* the vnodes in /ram that p has open for writing
  strayed,  \* ghost: an entry was made in a removed directory or in a file
  fault     \* ghost: how the last killed process died

rvars == <<node, nvn, live, cwd, open, strayed, fault>>

Nodes == 1 .. NNODE
Root == 1
Offsets == 0 .. MAXSIZE - 1
Zeros == [o \in Offsets |-> 0]
Zeroed == [used |-> FALSE, type |-> "file", name |-> "", parent |-> 0,
           child |-> 0, sibling |-> 0, size |-> 0, data |-> Zeros]

\* A vnode around node k; "gone" is a ghost, set when k is unlinked.
Vnode(k, t) == [data |-> k, type |-> t, gone |-> FALSE]
Vnodes == [data : Nodes, type : {"file", "dir"}, gone : BOOLEAN]

\* After boot, when the shell has changed to /ram and started the Callers.
RamInit ==
  /\ node = [k \in Nodes |->
               IF k = Root THEN [Zeroed EXCEPT !.used = TRUE, !.type = "dir",
                                               !.parent = Root]
               ELSE Zeroed]
  /\ nvn = 0
  /\ live = Callers
  /\ cwd = [p \in Callers |-> <<Vnode(Root, "dir")>>]
  /\ open = [p \in Callers |-> {}]
  /\ strayed = FALSE
  /\ fault = "none"

-----------------------------------------------------------------------------
\* The children of d in the order the loops of ramfs.c meet them.  A chain
\* longer than the table would be a loop that does not end.
Chain(nodes, d) ==
  LET at[i \in 0 .. NNODE] ==
        IF i = 0 THEN nodes[d].child
        ELSE IF at[i - 1] = 0 THEN 0 ELSE nodes[at[i - 1]].sibling
  IN  [i \in {j \in 1 .. NNODE + 1 : at[j - 1] # 0} |-> at[i - 1]]

FindChild(nodes, d, name) ==
  SelectInSeq(Chain(nodes, d), LAMBDA k : nodes[k].name = name)

\* ramfs_alloc_node: the first unused node, 0 if there is none.
AllocNode(nodes) ==
  LET free == {k \in Nodes : ~nodes[k].used}
  IN  IF free = {} THEN 0 ELSE CHOOSE k \in free : \A j \in free : k <= j

\* Clear k and put it at the head of d's chain.  d may be k itself, when it
\* is the directory of a process that was removed; the link is then lost to
\* memset before d->child is read.
LinkNew(nodes, k, d, name, t) ==
  LET clear == [nodes EXCEPT ![k] = [Zeroed EXCEPT !.used = TRUE, !.type = t,
                                                   !.name = name, !.parent = d]]
      chained == [clear EXCEPT ![k].sibling = clear[d].child]
  IN  [chained EXCEPT ![d].child = k]

(***************************************************************************)
(* A walk w: res is "ok" while cur is a vnode, "null" when cur is NULL,    *)
(* "fault" when NULL was used, or the error; node, nvn and strayed are     *)
(* what the walk makes of the variables.                                   *)
(***************************************************************************)
Start(p, path) ==
  [res |-> "ok", cur |-> IF Head(path) = Slash THEN <<>> ELSE cwd[p],
   node |-> node, nvn |-> nvn, strayed |-> strayed]

\* ramfs_wrap_node: NULL, which the callers do not test, when the pool is empty.
Wrap(w, k) ==
  IF w.nvn = NVNODE THEN [w EXCEPT !.res = "null"]
  ELSE [w EXCEPT !.nvn = @ + 1,
                 !.cur = Append(@, Vnode(k, w.node[k].type))]

\* The part of ramfs_create and ramfs_mkdir that makes an entry, whatever the
\* vnode they are given is around.
AddEntry(w, name, t) ==
  LET k == AllocNode(w.node)
      d == Last(w.cur)
  IN  IF k = 0 THEN [w EXCEPT !.res = "ENOMEM"]
      ELSE Wrap([w EXCEPT !.node = LinkNew(@, k, d.data, name, t),
                          !.strayed = @ \/ d.gone \/ d.type # "dir"], k)

\* The disk's own lookup of "ram", and vfs_follow_mount; fat32_lookup_cb does
\* test for an empty pool.
DiskStep(w, name) ==
  IF name # Ram THEN [w EXCEPT !.res = "elsewhere"]
  ELSE IF w.nvn = NVNODE THEN [w EXCEPT !.res = "ENOMEM"]
  ELSE [w EXCEPT !.nvn = @ + 1, !.cur = <<Vnode(Root, "dir")>>]

\* One component, as vfs_lookup_at (mk = FALSE) and vfs_resolve_parent_at
\* with create_parents treat it.
WalkStep(w, name, mk) ==
  IF w.res = "null" THEN [w EXCEPT !.res = "fault"]
  ELSE IF w.res # "ok" THEN w
  ELSE IF name = Up THEN [w EXCEPT !.cur = IF @ = <<>> THEN @ ELSE Front(@)]
  ELSE IF w.cur = <<>> THEN DiskStep(w, name)
  ELSE IF Last(w.cur).type # "dir" THEN [w EXCEPT !.res = "ENOTDIR"]
  ELSE LET i == FindChild(w.node, Last(w.cur).data, name)
       IN  IF i # 0 THEN Wrap(w, Chain(w.node, Last(w.cur).data)[i])
           ELSE IF mk THEN AddEntry(w, name, "dir")
           ELSE [w EXCEPT !.res = "ENOENT"]

WalkTo(w, path, mk) ==
  LET at[i \in 0 .. Len(path)] ==
        IF i = 0 THEN w ELSE WalkStep(at[i - 1], path[i], mk)
  IN  at[Len(path)]

Walk(w, path) == WalkTo(w, path, FALSE)
WalkParent(w, path, mk) ==
  IF path = <<>> THEN [w EXCEPT !.res = "EINVAL"] ELSE WalkTo(w, Front(path), mk)

\* ramfs_create and ramfs_mkdir: an entry of the same type is returned, one of
\* the other type is an error.
MakeEntry(w, name, t) ==
  LET d == Last(w.cur).data
      i == FindChild(w.node, d, name)
  IN  IF w.cur = <<>> THEN [w EXCEPT !.res = "elsewhere"]
      ELSE IF i = 0 THEN AddEntry(w, name, t)
      ELSE IF w.node[Chain(w.node, d)[i]].type = t
           THEN Wrap(w, Chain(w.node, d)[i])
      ELSE [w EXCEPT !.res = "EEXIST"]

\* vfs_create_at and vfs_mkdir_at: look the path up, and if it is not there
\* walk it again, making the directories that are missing on the way.
MakeIn(par, name, t) ==
  IF par.res = "null" THEN [par EXCEPT !.res = "fault"]
  ELSE IF par.res # "ok" THEN par ELSE MakeEntry(par, name, t)

MakeAfter(found, w, path, t) ==
  IF found.res = "null" THEN [found EXCEPT !.res = "fault"]
  ELSE IF found.res = "ok"
       THEN IF found.cur = <<>> \/ Last(found.cur).type = t THEN found
            ELSE [found EXCEPT !.res = "EEXIST"]
  ELSE IF found.res # "ENOENT" THEN found
  ELSE MakeIn(WalkParent([w EXCEPT !.nvn = found.nvn], path, TRUE), Last(path), t)

MakeAt(w, path, t) == MakeAfter(Walk(w, path), w, path, t)

\* The call returns to p; what the walk changed stays, even on an error.
Effects(w) == node' = w.node /\ nvn' = w.nvn /\ strayed' = w.strayed

\* A page fault in the kernel: kernel_trap_handler has p exit.
Killed(p, why) ==
  /\ live' = live \ {p}
  /\ cwd' = [cwd EXCEPT ![p] = <<>>]
  /\ open' = [open EXCEPT ![p] = {}]
  /\ fault' = why

\* A use of NULL from an empty pool; vn is NULL also when res is "null".
NoVnode(p, w) ==
  /\ w.res \in {"null", "fault"}
  /\ Effects(w)
  /\ Killed(p, "pool")

Returns(w) == w.res \notin {"null", "fault", "elsewhere"}
-----------------------------------------------------------------------------
\* Mutant: the bytes that are cut off are not cleared.
TruncatedTo_KeepsData(n, size) == [n EXCEPT !.size = size]

\* ramfs_truncate of a file.
TruncatedTo(n, size) ==
  [n EXCEPT !.size = size,
            !.data = [o \in Offsets |-> IF size <= o /\ o < n.size THEN 0
                                        ELSE n.data[o]]]

\* sys_openat for writing, with or without O_CREAT and O_TRUNC.
Openat(p, path, flags) ==
  LET w == IF "creat" \in flags THEN MakeAt(Start(p, path), Comps(path), "file")
           ELSE Walk(Start(p, path), Comps(path))
      v == Last(w.cur)
      isFile == w.res = "ok" /\ w.cur # <<>> /\ v.type = "file"
  IN  \/ NoVnode(p, w)
      \/ /\ Returns(w)
         /\ IF isFile /\ "trunc" \in flags
            THEN Effects([w EXCEPT !.node[v.data] = TruncatedTo(@, 0)])
            ELSE Effects(w)
         /\ open' = IF isFile THEN [open EXCEPT ![p] = @ \cup {v}] ELSE open
         /\ UNCHANGED <<live, cwd, fault>>

\* sys_mkdirat passes NULL for out, and ramfs_mkdir stores through it.
Mkdirat(p, path) ==
  LET w == MakeAt(Start(p, path), Comps(path), "dir")
      stores == /\ Walk(Start(p, path), Comps(path)).res = "ENOENT"
                /\ w.res \in {"ok", "null"}
  IN  \/ stores /\ Effects(w) /\ Killed(p, "mkdir")
      \/ ~stores /\ NoVnode(p, w)
      \/ /\ ~stores /\ Returns(w)
         /\ Effects(w)
         /\ UNCHANGED <<live, cwd, open, fault>>

Chdir(p, path) ==
  LET w == Walk(Start(p, path), Comps(path))
      isDir == w.res = "ok" /\ (w.cur = <<>> \/ Last(w.cur).type = "dir")
  IN  \/ NoVnode(p, w)
      \/ /\ Returns(w)
         /\ Effects(w)
         /\ cwd' = IF isDir THEN [cwd EXCEPT ![p] = w.cur] ELSE cwd
         /\ UNCHANGED <<live, open, fault>>

\* Mutant: the chain keeps the node that is marked unused.
UnlinkAt_NoPrev(nodes, d, i) ==
  [nodes EXCEPT ![Chain(nodes, d)[i]].used = FALSE]

\* The node at position i of d's chain is taken out and marked unused.
UnlinkAt(nodes, d, i) ==
  LET chain == Chain(nodes, d)
      k == chain[i]
      next == nodes[k].sibling
      out == IF i = 1 THEN [nodes EXCEPT ![d].child = next]
             ELSE [nodes EXCEPT ![chain[i - 1]].sibling = next]
  IN  [out EXCEPT ![k].used = FALSE]

NotEmpty(n) == n.type = "dir" /\ n.child # 0

Gone(v, k) == IF v.data = k THEN [v EXCEPT !.gone = TRUE] ELSE v

Unlinkat(p, path) ==
  LET comps == Comps(path)
      w == WalkParent(Start(p, path), comps, FALSE)
      d == Last(w.cur).data
      i == FindChild(w.node, d, Last(comps))
      k == Chain(w.node, d)[i]
      found == w.res = "ok" /\ w.cur # <<>> /\ i # 0
  IN  \/ NoVnode(p, w)
      \/ /\ Returns(w) /\ ~(w.res = "ok" /\ w.cur = <<>>)
         /\ ~(found /\ ~NotEmpty(w.node[k]))
         /\ Effects(w)
         /\ UNCHANGED <<live, cwd, open, fault>>
      \/ /\ found /\ ~NotEmpty(w.node[k])
         /\ Effects([w EXCEPT !.node = UnlinkAt(@, d, i)])
         /\ cwd' = [q \in Callers |-> [j \in DOMAIN cwd[q] |-> Gone(cwd[q][j], k)]]
         /\ open' = [q \in Callers |-> {Gone(v, k) : v \in open[q]}]
         /\ UNCHANGED <<live, fault>>

\* vfs_write through an open file at an offset lseek may have set anywhere.
Write(p, v, off, len, b) ==
  /\ v \in open[p]
  /\ node[v.data].type = "file"
  /\ off < MAXSIZE
  /\ LET to == IF off + len > MAXSIZE THEN MAXSIZE ELSE off + len
         n == node[v.data]
     IN  node' = [node EXCEPT ![v.data] =
           [n EXCEPT !.data = [o \in Offsets |-> IF off <= o /\ o < to THEN b
                                                 ELSE n.data[o]],
                     !.size = IF to > @ THEN to ELSE @]]
  /\ UNCHANGED <<nvn, live, cwd, open, strayed, fault>>

Ftruncate(p, v, length) ==
  /\ v \in open[p]
  /\ node[v.data].type = "file"
  /\ LET size == IF length > MAXSIZE THEN MAXSIZE ELSE length
     IN  node' = [node EXCEPT ![v.data] = TruncatedTo(@, size)]
  /\ UNCHANGED <<nvn, live, cwd, open, strayed, fault>>

Close(p, v) ==
  /\ v \in open[p]
  /\ open' = [open EXCEPT ![p] = @ \ {v}]
  /\ UNCHANGED <<node, nvn, live, cwd, strayed, fault>>

Fork(p, q) ==
  /\ q \notin live
  /\ live' = live \cup {q}
  /\ cwd' = [cwd EXCEPT ![q] = cwd[p]]
  /\ open' = [open EXCEPT ![q] = open[p]]
  /\ UNCHANGED <<node, nvn, strayed, fault>>

\* System calls with paths, open flags, offsets and lengths from small sets,
\* by the given processes.
Calls(procs, paths, flagsets, offs, lens) ==
  \E p \in live \cap procs :
    \/ \E path \in paths :
         \/ \E flags \in flagsets : Openat(p, path, flags)
         \/ Mkdirat(p, path)
         \/ Chdir(p, path)
         \/ Unlinkat(p, path)
    \/ \E v \in open[p] :
         \/ \E off \in offs, len \in lens \ {0}, b \in Bytes : Write(p, v, off, len, b)
         \/ \E length \in lens : Ftruncate(p, v, length)
         \/ Close(p, v)
    \/ \E q \in procs : Fork(p, q)

RamNext == Calls(Callers, Paths, Flags, Offsets, 0 .. MAXSIZE + 1)

RamSpec == RamInit /\ [][RamNext]_rvars
-----------------------------------------------------------------------------
\* Type invariant.
RamTypeOK ==
  /\ node \in [Nodes -> [used : BOOLEAN, type : {"file", "dir"},
                         name : Names \cup {"", Up, Ram},
                         parent : Nodes \cup {0}, child : Nodes \cup {0},
                         sibling : Nodes \cup {0}, size : 0 .. MAXSIZE,
                         data : [Offsets -> Bytes \cup {0}]]]
  /\ nvn \in 0 .. NVNODE
  /\ live \subseteq Callers
  /\ cwd \in [Callers -> Seq(Vnodes)]
  /\ open \in [Callers -> SUBSET Vnodes]
  /\ \A p \in Callers : \A i \in DOMAIN cwd[p] : cwd[p][i].type = "dir"
  /\ \A p \in Callers : \A v \in open[p] : v.type = "file"
  /\ strayed \in BOOLEAN
  /\ fault \in {"none", "mkdir", "pool"}

\* The pointers the loops of ramfs.c may follow to k.  An unlinked node keeps
\* its sibling, but nothing leads to that pointer.
LinksTo(k) ==
  {<<d, "child">> : d \in {x \in Nodes : node[x].child = k}}
    \cup {<<d, "sibling">> : d \in {x \in Nodes : node[x].used
                                                  /\ node[x].sibling = k}}

\* Every loop over children ends, and no node is in two chains or twice in one:
\* ramfs_alloc_node takes a node only when no pointer is left to it, even when
\* entries are made in a directory that was removed while it was a process's
\* cwd, and that directory's own node is the one taken.
LinkedOnce ==
  /\ \A k \in Nodes : Cardinality(LinksTo(k)) <= IF node[k].used THEN 1 ELSE 0
  /\ \A d \in Nodes : Len(Chain(node, d)) <= NNODE

\* What the pointers lead to from the root: the least set they do not leave.
Closed(S) == \A k \in S : {node[k].child, node[k].sibling} \subseteq S \cup {0}
Reach == {k \in Nodes : \A S \in SUBSET Nodes : Root \in S /\ Closed(S) => k \in S}

\* No node is lost and none is shared with the free ones: the nodes in use are
\* those a walk from /ram can reach, until an entry is made in a directory that
\* was removed while in use (ramfs_unlink does not look for users), or in a
\* file (see FilesAreLeaves): when that is removed, the entry is lost.
UsedIsReachable == ~strayed => {k \in Nodes : node[k].used} = Reach

\* What lies beyond the end of a file is zero, so a write after lseek past the
\* end, or an ftruncate that extends, never shows bytes of an earlier owner of
\* the node or bytes that were cut off: ramfs_write leaves the gap as it is.
TailIsZero ==
  \A k \in Nodes : \A o \in Offsets : o >= node[k].size => node[k].data[o] = 0

\* A vnode that a process holds, open or on its way to cwd, is around the node
\* it was wrapped around, of the same type, unless that node was unlinked.
HeldIsKept ==
  \A p \in Callers :
    \A v \in open[p] \cup {cwd[p][i] : i \in DOMAIN cwd[p]} :
      ~v.gone => node[v.data].used /\ node[v.data].type = v.type

\* The chains of ramfs.c, the nodes in use and the vnodes of processes agree,
\* after any calls of any process.
TreeSound == RamTypeOK /\ LinkedOnce /\ UsedIsReachable /\ HeldIsKept

\* mkdir of a name that is free returns to its caller
\* (selftest.c: vfs_mkdir("/ram/RTest", NULL) == 0).
MkdirReturns == fault # "mkdir"

\* A path that goes through a file makes nothing: "touch 自动创建父目录时，如果路径
\* 中间遇到普通文件，返回 -ENOTDIR" (when the parents of a new file are made and a
\* plain file is met in the middle of the path, -ENOTDIR is returned;
\* Prompt/chat_history_full.md:928).
FilesAreLeaves == \A k \in Nodes : node[k].used /\ node[k].type = "file" => node[k].child = 0
============================================================================
