------------------------------- MODULE Fat32 -------------------------------
(***************************************************************************)
(* Clusters, chains and directory entries of kernel/fat32.c, as the calls  *)
(* that open, write, cut and remove files of the root directory change     *)
(* them.  The disk answers every request, and a call runs with interrupts  *)
(* off, so it is one step.                                                 *)
(*                                                                         *)
(* Every open gets a fat32_node of its own: where its entry is, and the    *)
(* first cluster and the size it last knew.  write and truncate trust that *)
(* copy; read, and only read, refreshes it.                                *)
(*                                                                         *)
(* Sizes count units of which CS make a cluster.  The contents of a        *)
(* cluster are the file that last wrote to it, 0 when it was zeroed since. *)
(* The directory has NSLOT entries and does not grow, a name takes one     *)
(* entry, and its own clusters are not among Clusters.                     *)
(***************************************************************************)
EXTENDS Integers, FiniteSets, Sequences, SequencesExt

CONSTANTS
  MaxCluster,  \* cluster_count + 1
  CS,          \* units in a cluster
  MaxSize,     \* bound on the size of files, in units
  NSLOT,       \* entries of the directory
  NNODE,       \* fat32_nodes left at Init (of the 256 of g_nodes)
  MaxFiles,    \* bound on the files ever created
  Names,
  Handles,     \* open files
  NULL

Clusters == 2 .. MaxCluster
EOC == MaxCluster + 1
Slots == 1 .. NSLOT
Sizes == 0 .. MaxSize
CeilDiv(a, b) == (a + b - 1) \div b

\* The fat32_nodes of n files.
Node(n) == [slot : Slots, id : 1 .. n, cluster : Clusters \cup {0}, size : Sizes]

ASSUME FatAssumption ==
  /\ MaxCluster \in Nat /\ MaxCluster >= 2
  /\ CS \in Nat \ {0} /\ MaxSize \in Nat /\ NSLOT \in Nat
  /\ NNODE \in Nat /\ MaxFiles \in Nat
  /\ NULL \notin Names \cup Handles /\ NULL \notin Node(MaxFiles)

VARIABLES
  fat,     \* the FAT, its two reserved entries included
  tag,     \* tag[c]: what is in cluster c
  hint,    \* fs->alloc_hint
  dir,     \* the directory's slots; the name of one that is free is NULL
  node,    \* node[h]: the fat32_node of open file h, or NULL
  pool,    \* fat32_nodes left: none is ever given back
  nfile,   \* ghost: files created so far; their numbers name them
  stray,   \* ghost: a file was changed through a node that was out of date
  failed,  \* ghost: a call has run out of clusters
  wrote    \* ghost: the write that has just returned with success, or NULL

vars == <<fat, tag, hint, dir, node, pool, nfile, stray, failed, wrote>>

FreeSlot == [name |-> NULL, id |-> 0, cluster |-> 0, size |-> 0]

\* After fat32_mount of an empty disk.
Init ==
  /\ fat = [c \in 0 .. MaxCluster |-> IF c < 2 THEN EOC ELSE 0]
  /\ tag = [c \in 0 .. MaxCluster |-> 0]
  /\ hint = 2
  /\ dir = [s \in Slots |-> FreeSlot]
  /\ node = [h \in Handles |-> NULL]
  /\ pool = NNODE
  /\ nfile = 0 /\ stray = FALSE /\ failed = FALSE /\ wrote = NULL

-----------------------------------------------------------------------------
(***************************************************************************)
(* The disk as a call sees it: d.fat, d.tag, d.hint; d.ok is FALSE once an *)
(* allocation has failed, and nothing happens from then on.                *)
(***************************************************************************)
Disk == [fat |-> fat, tag |-> tag, hint |-> hint, ok |-> TRUE]

\* fat32_alloc_cluster: the first free cluster from the hint on, then from
\* the start; 0 if there is none.
FreeCluster(d) ==
  LET from(a) == {c \in Clusters : c >= a /\ d.fat[c] = 0}
      least(S) == CHOOSE c \in S : \A b \in S : c <= b
  IN  IF from(d.hint) # {} THEN least(from(d.hint))
      ELSE IF from(2) # {} THEN least(from(2)) ELSE 0

\* Mutants: the cluster is not marked, and it is not zeroed.
Take_NotMarked(d, c) == [d EXCEPT !.tag[c] = 0, !.hint = c + 1]
Take_NotZeroed(d, c) == [d EXCEPT !.fat[c] = EOC, !.hint = c + 1]

\* The cluster is marked as the end of a chain and zeroed.
Take(d, c) == [d EXCEPT !.fat[c] = EOC, !.tag[c] = 0, !.hint = c + 1]

\* The clusters met from c on: at most n of them, up to an end mark.
ChainOf(F, c, n) ==
  LET met[i \in 1 .. n] ==
        IF i = 1 THEN <<c>>
        ELSE LET s == met[i - 1]
             IN  IF F[Last(s)] >= EOC THEN s ELSE Append(s, F[Last(s)])
  IN  met[n]

\* The chain with a new cluster linked behind last.
Extend(d, last) ==
  LET c == FreeCluster(d)
  IN  IF ~d.ok \/ c = 0 THEN [d EXCEPT !.ok = FALSE]
      ELSE [Take(d, c) EXCEPT !.fat[last] = c]

\* fat32_ensure_chain for a node whose first cluster is start: the disk
\* afterwards and the first cluster.  Clusters it took stay taken when it
\* fails.
EnsureChain(d, start, needed) ==
  LET c == FreeCluster(d)
      fresh == start = 0
      first == IF fresh THEN c ELSE start
      d1 == IF fresh /\ c # 0 THEN Take(d, c) ELSE d
      have == ChainOf(d1.fat, first, needed)
      \* One more cluster for each that is missing.
      grown[k \in Len(have) .. needed] ==
        IF k = Len(have) THEN [disk |-> d1, last |-> Last(have)]
        ELSE LET g == grown[k - 1]
                 e == Extend(g.disk, g.last)
             IN  [disk |-> e, last |-> IF e.ok THEN FreeCluster(g.disk) ELSE g.last]
  IN  IF needed = 0 THEN [disk |-> d, start |-> start]
      ELSE IF fresh /\ c = 0 THEN [disk |-> [d EXCEPT !.ok = FALSE], start |-> 0]
      ELSE [disk |-> grown[needed].disk, start |-> first]

\* fat32_free_chain: each cluster is freed before the next is looked at.
FreeChain(d, start) ==
  LET step[i \in 0 .. MaxCluster] ==
        IF i = 0 THEN [disk |-> d, at |-> start]
        ELSE LET g == step[i - 1]
             IN  IF g.at \notin Clusters THEN g
                 ELSE [disk |-> [g.disk EXCEPT !.fat[g.at] = 0], at |-> g.disk.fat[g.at]]
  IN  step[MaxCluster].disk

-----------------------------------------------------------------------------
\* The directory after fat32_update_dirent: the entry n points at gets n's
\* first cluster and size, whoever has the slot now.
UpdateDirent(n) == [dir EXCEPT ![n.slot].cluster = n.cluster, ![n.slot].size = n.size]

\* h's node says what the entry says, and the entry is still its file's.  After
\* a first write that failed the node has clusters that the entry has not.
Current(n) ==
  LET e == dir[n.slot]
  IN  e.id = n.id /\ e.size = n.size /\ e.cluster \in {n.cluster, 0}

SetDisk(d) ==
  /\ fat' = d.fat /\ tag' = d.tag /\ hint' = d.hint
  /\ failed' = (failed \/ ~d.ok)

\* fat32_truncate_op through node n: what becomes of the disk and of n, and
\* whether the entry is rewritten.
Truncated(d, n, size) ==
  LET needed == CeilDiv(size, CS)
      en == EnsureChain(d, n.cluster, needed)
      n1 == [n EXCEPT !.cluster = en.start]
      chain == ChainOf(en.disk.fat, en.start, needed)
      last == Last(chain)
      next == en.disk.fat[last]
      cut == IF next < EOC THEN FreeChain([en.disk EXCEPT !.fat[last] = EOC], next)
             ELSE en.disk
  IN  IF size = n.size THEN [disk |-> d, node |-> n, upd |-> FALSE]
      ELSE IF size = 0
           THEN [disk |-> FreeChain(d, n.cluster),
                 node |-> [n EXCEPT !.cluster = 0, !.size = 0], upd |-> TRUE]
      \* ENOSPC, or EIO of get_cluster_at, which takes no cluster below 2.
      ELSE IF ~en.disk.ok \/ (\E i \in 1 .. Len(chain) : chain[i] < 2)
           THEN [disk |-> en.disk, node |-> n1, upd |-> FALSE]
      ELSE [disk |-> cut, node |-> [n1 EXCEPT !.size = size], upd |-> TRUE]
-----------------------------------------------------------------------------
\* The slot that holds name, NULL if there is none.
Lookup(name) ==
  IF \E s \in Slots : dir[s].name = name
  THEN CHOOSE s \in Slots : dir[s].name = name ELSE NULL

NewNode(s, e) == [slot |-> s, id |-> e.id, cluster |-> e.cluster, size |-> e.size]

\* The struct file h gets node n.  There may be none: openat finds no free
\* struct file or descriptor, or the call is one that only looks a name up
\* (fstatat).  h is NULL then, and what the call did before stays.
OpensAs(h, n) ==
  /\ h # NULL => node[h] = NULL
  /\ node' = IF h = NULL THEN node ELSE [node EXCEPT ![h] = n]

\* openat of a file that is there; with O_TRUNC it is cut through its new node.
Open(h, name, trunc) ==
  /\ Lookup(name) # NULL /\ pool > 0
  /\ pool' = pool - 1
  /\ LET n == NewNode(Lookup(name), dir[Lookup(name)])
         t == IF trunc THEN Truncated(Disk, n, 0)
              ELSE [disk |-> Disk, node |-> n, upd |-> FALSE]
     IN  /\ SetDisk(t.disk)
         /\ OpensAs(h, t.node)
         /\ dir' = IF t.upd THEN UpdateDirent(t.node) ELSE dir
  /\ wrote' = NULL
  /\ UNCHANGED <<nfile, stray>>

\* openat with O_CREAT of a name that is free.  The entry is written before a
\* node is looked for, and stays when there is none.
Create(h, name) ==
  /\ Lookup(name) = NULL /\ nfile < MaxFiles
  /\ pool = 0 => h = NULL
  /\ \E s \in Slots :
       LET e == [name |-> name, id |-> nfile + 1, cluster |-> 0, size |-> 0]
       IN  /\ dir[s].name = NULL /\ \A r \in Slots : r < s => dir[r].name # NULL
           /\ dir' = [dir EXCEPT ![s] = e]
           /\ OpensAs(h, NewNode(s, e))
  /\ pool' = IF pool = 0 THEN 0 ELSE pool - 1
  /\ nfile' = nfile + 1
  /\ wrote' = NULL
  /\ UNCHANGED <<fat, tag, hint, stray, failed>>

\* fat32_write_op.
Write(h, off, len) ==
  /\ node[h] # NULL
  /\ LET n == node[h]
         end == off + len
         needed == CeilDiv(end, CS)
         en == EnsureChain(Disk, n.cluster, needed)
         chain == ChainOf(en.disk.fat, en.start, needed)
         hit == {chain[i] : i \in off \div CS + 1 .. needed}
         n1 == [n EXCEPT !.cluster = en.start]
         n2 == [n1 EXCEPT !.size = IF end > @ THEN end ELSE @]
     IN  IF en.disk.ok
         THEN /\ SetDisk([en.disk EXCEPT !.tag =
                 [c \in DOMAIN tag |-> IF c \in hit THEN n.id ELSE @[c]]])
              /\ node' = [node EXCEPT ![h] = n2]
              /\ dir' = IF end > n.size THEN UpdateDirent(n2) ELSE dir
              /\ wrote' = [slot |-> n.slot, id |-> n.id, off |-> off, end |-> end]
         ELSE /\ SetDisk(en.disk)
              /\ node' = [node EXCEPT ![h] = n1]
              /\ wrote' = NULL
              /\ UNCHANGED dir
  /\ stray' = (stray \/ ~Current(node[h]))
  /\ UNCHANGED <<pool, nfile>>

\* ftruncate.
Ftruncate(h, size) ==
  /\ node[h] # NULL
  /\ LET t == Truncated(Disk, node[h], size)
     IN  /\ SetDisk(t.disk)
         /\ node' = [node EXCEPT ![h] = t.node]
         /\ dir' = IF t.upd THEN UpdateDirent(t.node) ELSE dir
  /\ stray' = (stray \/ (size # node[h].size /\ ~Current(node[h])))
  /\ wrote' = NULL
  /\ UNCHANGED <<pool, nfile>>

\* fat32_read_op refreshes the node from the slot it points at.
Read(h) ==
  /\ node[h] # NULL
  /\ LET e == dir[node[h].slot]
     IN  node' = [node EXCEPT ![h].cluster = e.cluster, ![h].size = e.size]
  /\ wrote' = NULL
  /\ UNCHANGED <<fat, tag, hint, dir, pool, nfile, stray, failed>>

\* fat32_unlink_op: the chain is freed, then the slot is cleared; files that
\* have it open are not looked for.
Unlink(name) ==
  /\ Lookup(name) # NULL
  /\ SetDisk(FreeChain(Disk, dir[Lookup(name)].cluster))
  /\ dir' = [dir EXCEPT ![Lookup(name)] = FreeSlot]
  /\ wrote' = NULL
  /\ UNCHANGED <<node, pool, nfile, stray>>

\* The last close of an open file; its node is not given back.
Close(h) ==
  /\ node[h] # NULL
  /\ node' = [node EXCEPT ![h] = NULL]
  /\ wrote' = NULL
  /\ UNCHANGED <<fat, tag, hint, dir, pool, nfile, stray, failed>>

Next ==
  \/ \E h \in Handles \cup {NULL}, name \in Names :
       \/ \E trunc \in BOOLEAN : Open(h, name, trunc)
       \/ Create(h, name)
  \/ \E h \in Handles :
       \/ \E off \in Sizes : \E len \in 1 .. MaxSize - off : Write(h, off, len)
       \/ \E size \in Sizes : Ftruncate(h, size)
       \/ Read(h)
       \/ Close(h)
  \/ \E name \in Names : Unlink(name)

Spec == Init /\ [][Next]_vars
-----------------------------------------------------------------------------
Live == {s \in Slots : dir[s].name # NULL}

\* A whole chain, which a loop in the FAT would make longer than the disk.
Chain(c) == IF c = 0 THEN <<>> ELSE ChainOf(fat, c, MaxCluster + 1)
Owned(s) == ToSet(Chain(dir[s].cluster))

\* Type invariant.
FatTypeOK ==
  /\ fat \in [0 .. MaxCluster -> 0 .. EOC]
  /\ tag \in [0 .. MaxCluster -> 0 .. nfile]
  /\ hint \in 2 .. MaxCluster + 1
  /\ dir \in [Slots -> [name : Names \cup {NULL}, id : 0 .. nfile,
                        cluster : Clusters \cup {0}, size : Sizes]]
  /\ node \in [Handles -> Node(nfile) \cup {NULL}]
  /\ pool \in 0 .. NNODE /\ nfile \in 0 .. MaxFiles
  /\ stray \in BOOLEAN /\ failed \in BOOLEAN

\* Until a file is changed through a node that is out of date, every file's
\* chain ends, has only clusters that are taken, shares none with another file
\* and holds at least its size, also when calls run out of clusters in the
\* middle of fat32_ensure_chain.
ChainsApart ==
  ~stray => \A s \in Live :
    /\ Chain(dir[s].cluster) # <<>> => fat[Last(Chain(dir[s].cluster))] = EOC
    /\ IsInjective(Chain(dir[s].cluster)) /\ Owned(s) \subseteq Clusters
    /\ Len(Chain(dir[s].cluster)) >= CeilDiv(dir[s].size, CS)
    /\ \A r \in Live \ {s} : Owned(s) \cap Owned(r) = {}

\* As long as no call has run out of clusters either, none is lost and none is
\* held in excess: what the FAT has as taken is what the files need.
NoneLost ==
  ~stray /\ ~failed =>
    /\ {c \in Clusters : fat[c] # 0} = UNION {Owned(s) : s \in Live}
    /\ \A s \in Live : Len(Chain(dir[s].cluster)) = CeilDiv(dir[s].size, CS)

\* Every cluster is free or in one file's chain, and files have as many as they
\* need, under the provisos above.
ClustersSound == FatTypeOK /\ ChainsApart /\ NoneLost

\* A file never shows what another one wrote: its clusters hold its own data or
\* zeros, also those of a gap that lseek or ftruncate made, because
\* fat32_alloc_cluster zeroes what it takes.
NoForeignData ==
  ~stray => \A s \in Live : \A c \in Owned(s) : tag[c] \in {0, dir[s].id}

\* What a write to a file that still has its name stored can be read back from
\* there once the write has returned.
WrittenReadsBack ==
  wrote # NULL /\ dir[wrote.slot].id = wrote.id =>
    LET e == dir[wrote.slot]
    IN  /\ e.size >= wrote.end
        /\ \A i \in wrote.off \div CS + 1 .. CeilDiv(wrote.end, CS) :
             i <= Len(Chain(e.cluster)) /\ tag[Chain(e.cluster)[i]] = e.id
============================================================================
