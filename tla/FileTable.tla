----------------------------- MODULE FileTable -----------------------------
(***************************************************************************)
(* Descriptors and the table of open files: kernel/file.c and the calls of *)
(* kernel/syscall.c and kernel/proc.c that share, drop and recycle entries *)
(* of g_file.  What is read and written through an open file is left to    *)
(* the file systems; this module keeps who holds which entry.              *)
(*                                                                         *)
(* Calls that fail (bad descriptor, no free descriptor, full table) leave  *)
(* the tables as they were, the entry allocated by an openat that then     *)
(* finds no descriptor included, and have no action.                       *)
(***************************************************************************)
EXTENDS Integers, FiniteSets

CONSTANTS
  Procs,    \* process slots
  Shell,    \* the slot of the first process
  NOFILE,   \* descriptors of a process (16 in include/proc.h)
  FirstFd,  \* first descriptor fdalloc hands out (3: after the console)
  NFILE,    \* entries of g_file (64)
  Vnodes,   \* what openat may resolve to
  NULL

ASSUME FileAssumption ==
  /\ IsFiniteSet(Procs) /\ Shell \in Procs
  /\ NOFILE \in Nat /\ FirstFd \in 0 .. NOFILE - 1
  /\ NFILE \in Nat \ {0}
  /\ NULL \notin Vnodes /\ NULL \notin Nat

VARIABLES
  live,   \* processes that have a descriptor table: neither UNUSED nor ZOMBIE
  ofile,  \* ofile[<<p, fd>>]: an index of g_file, or NULL
  used,   \* g_file_used
  ref,    \* g_file[f].ref
  vn      \* g_file[f].vn

fvars == <<live, ofile, used, ref, vn>>

Fds == 0 .. NOFILE - 1
Files == 0 .. NFILE - 1
Desc == Procs \X Fds

FileInit ==
  /\ live = {Shell}
  /\ ofile = [x \in Desc |-> NULL]
  /\ used = [f \in Files |-> FALSE]
  /\ ref = [f \in Files |-> 0]
  /\ vn = [f \in Files |-> NULL]

-----------------------------------------------------------------------------
\* file_alloc returns f: the first entry that is not in use.
FileAlloc(f) ==
  /\ ~used[f]
  /\ \A g \in Files : g < f => used[g]

\* fdalloc returns fd: the first empty descriptor after the console's.
FdAlloc(p, fd) ==
  /\ fd >= FirstFd
  /\ ofile[<<p, fd>>] = NULL
  /\ \A d \in Fds : FirstFd <= d /\ d < fd => ofile[<<p, d>>] # NULL

\* How many descriptors of p refer to f.
Held(p, f) == Cardinality({fd \in Fds : ofile[<<p, fd>>] = f})

\* Mutant: the entry stays in use when its last descriptor goes.
FileClose_NeverFrees(r) ==
  /\ ref' = r
  /\ UNCHANGED <<used, vn>>

\* file_close, for whatever references have been taken off: an entry whose
\* count reaches 0 is cleared and free again.
FileClose(r) ==
  /\ ref' = r
  /\ used' = [f \in Files |-> used[f] /\ r[f] # 0]
  /\ vn' = [f \in Files |-> IF used[f] /\ r[f] = 0 THEN NULL ELSE vn[f]]

-----------------------------------------------------------------------------
\* sys_openat, from file_alloc on, for a path that resolves to v.
Open(p, v, f, fd) ==
  /\ p \in live
  /\ FileAlloc(f) /\ FdAlloc(p, fd)
  /\ used' = [used EXCEPT ![f] = TRUE]
  /\ ref' = [ref EXCEPT ![f] = 1]
  /\ vn' = [vn EXCEPT ![f] = v]
  /\ ofile' = [ofile EXCEPT ![<<p, fd>>] = f]
  /\ UNCHANGED live

\* sys_close.
Close(p, fd) ==
  /\ p \in live
  /\ ofile[<<p, fd>>] # NULL
  /\ FileClose([ref EXCEPT ![ofile[<<p, fd>>]] = @ - 1])
  /\ ofile' = [ofile EXCEPT ![<<p, fd>>] = NULL]
  /\ UNCHANGED live

\* sys_dup.
Dup(p, fd, newfd) ==
  /\ p \in live
  /\ ofile[<<p, fd>>] # NULL
  /\ FdAlloc(p, newfd)
  /\ ref' = [ref EXCEPT ![ofile[<<p, fd>>]] = @ + 1]
  /\ ofile' = [ofile EXCEPT ![<<p, newfd>>] = ofile[<<p, fd>>]]
  /\ UNCHANGED <<live, used, vn>>

\* sys_dup3: the old occupant of newfd is closed first; closing it cannot
\* free oldfd's entry, which oldfd still counts.
Dup3(p, oldfd, newfd) ==
  /\ p \in live
  /\ ofile[<<p, oldfd>>] # NULL
  /\ oldfd # newfd
  /\ LET closed == IF ofile[<<p, newfd>>] = NULL THEN ref
                   ELSE [ref EXCEPT ![ofile[<<p, newfd>>]] = @ - 1]
     IN  FileClose([closed EXCEPT ![ofile[<<p, oldfd>>]] = @ + 1])
  /\ ofile' = [ofile EXCEPT ![<<p, newfd>>] = ofile[<<p, oldfd>>]]
  /\ UNCHANGED live

\* Mutant: the child gets the parent's pointers and the counts stay.
ForkFiles_NoDup(p, c) ==
  /\ p \in live /\ c \in Procs \ live
  /\ ofile' = [x \in Desc |->
                 IF x[1] = c THEN ofile[<<p, x[2]>>] ELSE ofile[x]]
  /\ live' = live \cup {c}
  /\ UNCHANGED <<used, ref, vn>>

\* proc_fork's loop over the parent's descriptors, into the child's zeroed
\* slot.
ForkFiles(p, c) ==
  /\ p \in live /\ c \in Procs \ live
  /\ ofile' = [x \in Desc |->
                 IF x[1] = c THEN ofile[<<p, x[2]>>] ELSE ofile[x]]
  /\ ref' = [f \in Files |-> ref[f] + Held(p, f)]
  /\ live' = live \cup {c}
  /\ UNCHANGED <<used, vn>>

\* proc_exit's loop over the descriptors.
ExitFiles(p) ==
  /\ p \in live
  /\ FileClose([f \in Files |-> ref[f] - Held(p, f)])
  /\ ofile' = [x \in Desc |-> IF x[1] = p THEN NULL ELSE ofile[x]]
  /\ live' = live \ {p}

FileNext ==
  \E p \in Procs :
    \/ \E v \in Vnodes, f \in Files, fd \in Fds : Open(p, v, f, fd)
    \/ \E fd \in Fds : Close(p, fd)
    \/ \E fd, newfd \in Fds : Dup(p, fd, newfd) \/ Dup3(p, fd, newfd)
    \/ \E c \in Procs : ForkFiles(p, c)
    \/ ExitFiles(p)

FileSpec == FileInit /\ [][FileNext]_fvars

-----------------------------------------------------------------------------
(* Properties *)

\* The descriptors, of any process, that refer to f.
Refs(f) == {x \in Desc : ofile[x] = f}

\* Every variable keeps the shape the C declarations give it.
FileTypeOK ==
  /\ live \in SUBSET Procs
  /\ ofile \in [Desc -> Files \cup {NULL}]
  /\ used \in [Files -> BOOLEAN]
  /\ ref \in [Files -> Nat]
  /\ vn \in [Files -> Vnodes \cup {NULL}]

\* An entry's count is the number of descriptors that refer to it, over all
\* processes and whatever mix of openat, dup, dup3, close, fork and exit led
\* there; an entry is in use exactly while that number is not 0, so no entry
\* leaks and none is freed under a descriptor.
RefsCounted ==
  \A f \in Files :
    /\ ref[f] = Cardinality(Refs(f))
    /\ used[f] <=> Refs(f) # {}

\* A process that has exited holds no entry: zeroing its slot in proc_alloc
\* cannot lose a reference.
DeadHoldNothing ==
  \A x \in Desc : x[1] \notin live => ofile[x] = NULL

\* g_file and the descriptors agree, after any calls of any process.
TableSound == FileTypeOK /\ RefsCounted /\ DeadHoldNothing

\* A descriptor that is not itself closed or replaced keeps naming the same
\* vnode: no step of this or another process recycles the entry under it.
DescriptorStable ==
  [][\A x \in Desc :
       ofile[x] # NULL /\ ofile'[x] = ofile[x] =>
         vn'[ofile[x]] = vn[ofile[x]] /\ vn[ofile[x]] # NULL]_fvars
=============================================================================
