------------------------------- MODULE FileIo -------------------------------
(***************************************************************************)
(* Offsets and contents: the chunk loops of sys_read and sys_write, lseek, *)
(* ftruncate and O_APPEND over the entries that processes share after a    *)
(* fork (kernel/syscall.c, kernel/file.c), and the copy loop of            *)
(* user/src/cp.c among them.  Counts of entries are in FileTable.          *)
(*                                                                         *)
(* A system call is one step: the kernel is not preempted.  Two openings   *)
(* of one file of the disk have a size each, which is Fat32's subject;     *)
(* here such a file is open for one entry at a time.                       *)
(***************************************************************************)
EXTENDS Integers, FiniteSets, Sequences, SequencesExt, FiniteSetsExt

CONSTANTS Users,      \* processes, and the byte each of them writes
          Ram,        \* names of files in /ram
          OnDisk,     \* names of files on the disk
          Chunk,      \* sizeof(tmp) in sys_read and sys_write: 256
          BufSize,    \* sizeof(buf) in copy_file: 512
          Limit,      \* RAMFS_MAX_FILE_SIZE
          NENTRY,     \* entries of g_file
          Contents,   \* what the files may hold at first
          Rooms,      \* clusters left, as the size a file of the disk can have
          MaxCalls,   \* calls of the users: a bound of the model
          MaxBeside   \* how many of them go with a run of cp: a bound, too

\* A file holds bytes; a buffer and a chunk hold one at least.
ASSUME IoAssumption ==
    /\ Users \subseteq Nat /\ Contents \subseteq Seq(Nat) /\ Rooms \subseteq Nat
    /\ {Chunk, BufSize, Limit} \subseteq Nat \ {0} /\ NENTRY \in Nat

VARIABLES data,   \* data[f]: the bytes of file f, or Absent
          entry,  \* entry[e]: struct file, or Unused
          has,    \* has[u]: the entry behind u's descriptor, or 0
          cp,     \* the run of copy_file
          job,    \* history: job[f], the last openat that f was written after
          calls

iovars == <<data, entry, has, cp, job, calls>>

Absent == <<-1>>  \* no file: -1 is no byte
Unused == [f |-> "none"]
NoFile == "none"
NoJob == [by |-> {}, base |-> <<>>, log |-> <<>>, kept |-> FALSE]
Entries == 1 .. NENTRY
Names == Ram \cup OnDisk

IoInit ==
    /\ data \in [Names -> Contents \cup {Absent}]
    /\ \A f \in Ram : Len(data[f]) <= Limit
    /\ entry = [e \in Entries |-> Unused]
    /\ has = [u \in Users |-> 0]
    /\ cp = [at |-> "start", src |-> NoFile, dst |-> NoFile, in |-> 0, out |-> 0,
             buf |-> <<>>, ret |-> 0, alone |-> TRUE]
    /\ job = [f \in Names |-> NoJob]
    /\ calls = 0

-----------------------------------------------------------------------------
\* vfs_truncate: what is beyond the old end reads as zeros.
Cut(d, size) == [i \in 1 .. size |-> IF i <= Len(d) THEN d[i] ELSE 0]

\* vfs_write's effect on the bytes, a gap that lseek left included.
Put(d, off, s) ==
    IF s = <<>> THEN d
    ELSE [i \in 1 .. Max({Len(d), off + Len(s)}) |->
            IF i \in off + 1 .. off + Len(s) THEN s[i - off]
            ELSE IF i <= Len(d) THEN d[i] ELSE 0]

\* What vfs_write answers for n bytes at off: a file in /ram ends at its limit,
\* one on the disk gets all its clusters, as far as there is room, or none.
Takes(f, off, n, room) ==
    IF f \in Ram THEN Max({0, Min({n, Limit - off})})
    ELSE IF off + n <= room THEN n ELSE -1

\* sys_write on an open file: chunks until one is short or refused.  The bytes
\* of earlier chunks stay and the offset stands behind them also when the call
\* answers with an error.
SysWrite(f, off, s, room) ==
    LET n(i) == Min({Chunk, Len(s) - i})
        starts == {i \in 0 .. Len(s) - 1 : i % Chunk = 0}
        short == {i \in starts : Takes(f, off + i, n(i), room) < n(i)}
        last == Takes(f, off + Min(short), n(Min(short)), room)
        stored == IF short = {} THEN Len(s) ELSE Min(short) + Max({0, last})
    IN  [data |-> Put(data[f], off, SubSeq(s, 1, stored)), off |-> off + stored,
         ret |-> IF short # {} /\ last < 0 THEN -1 ELSE stored]

\* sys_read on an open file: chunks until one is empty.
SysRead(f, off, len) ==
    LET n == Max({0, Min({len, Len(data[f]) - off})})
    IN  SubSeq(data[f], off + 1, off + n)

-----------------------------------------------------------------------------
\* file_alloc, as far as the offsets depend on it.
Taken == {has[u] : u \in Users} \cup {cp.in, cp.out}
Lowest(e) == e \in Entries \ Taken /\ \A g \in Entries \ Taken : e <= g

\* Two openings of one file of the disk are left to Fat32.
MayOpen(f) == f \in OnDisk => \A e \in Entries \cap Taken : entry[e].f # f

\* A job is the processes that hold one opening of f, what f held then, and
\* what their writes say they added; kept until somebody else changes the file
\* or the offset moves in another way.
Spoilt(f) == [job EXCEPT ![f] = NoJob]
Began(u, f, d) == [job EXCEPT ![f] = [by |-> {u}, base |-> d, log |-> <<>>, kept |-> TRUE]]
Logged(u, f, s) == IF u \in job[f].by THEN [job EXCEPT ![f].log = @ \o s] ELSE Spoilt(f)

Touches(f) == [cp EXCEPT !.alone = @ /\ f \notin {cp.src, cp.dst}]

\* sys_openat with O_CREAT and one of O_TRUNC, O_APPEND (the shell's > and >>)
\* or neither.  The file is made and cut before an entry is looked for, so
\* that is done also where the answer is EMFILE.
SysOpenat(u, f, how) ==
    /\ has[u] = 0 /\ MayOpen(f)
    /\ LET d == IF data[f] = Absent \/ how = "trunc" THEN <<>> ELSE data[f]
           off == IF how = "append" THEN Len(d) ELSE 0
           open == [f |-> f, off |-> off, mode |-> IF how = "both" THEN "rw" ELSE "w"]
       IN  /\ data' = [data EXCEPT ![f] = d]
           /\ cp' = IF d = data[f] THEN cp ELSE Touches(f)
           /\ \/ \E e \in Entries :
                   /\ Lowest(e)
                   /\ entry' = [entry EXCEPT ![e] = open]
                   /\ has' = [has EXCEPT ![u] = e]
                   /\ job' = IF off = Len(d) THEN Began(u, f, d) ELSE Spoilt(f)
              \/ /\ Entries \subseteq Taken
                 /\ job' = Spoilt(f)
                 /\ UNCHANGED <<has, entry>>

\* proc_fork: the child has the parent's entries.
ForkShares_Copies(u) ==
    {<<e, [entry EXCEPT ![e] = entry[has[u]]]>> : e \in {x \in Entries : has[u] # 0 /\ Lowest(x)}}
ForkShares(u) == IF has[u] = 0 THEN {} ELSE {<<has[u], entry>>}
SysFork(u, v) ==
    /\ u # v /\ has[v] = 0
    /\ \E x \in ForkShares(u) : has' = [has EXCEPT ![v] = x[1]] /\ entry' = x[2]
    /\ job' = [f \in DOMAIN job |-> IF u \in job[f].by THEN [job[f] EXCEPT !.by = @ \cup {v}] ELSE job[f]]
    /\ UNCHANGED <<data, cp>>

SysCloseFile(u) ==
    /\ has[u] # 0
    /\ has' = [has EXCEPT ![u] = 0]
    /\ job' = [f \in DOMAIN job |-> [job[f] EXCEPT !.by = @ \ {u}]]
    /\ UNCHANGED <<data, entry, cp>>

UserWrite(u, n, room) ==
    /\ has[u] # 0
    /\ LET e == has[u]
           f == entry[e].f
           w == SysWrite(f, entry[e].off, [i \in 1 .. n |-> u], room)
       IN  /\ data' = [data EXCEPT ![f] = w.data]
           /\ entry' = [entry EXCEPT ![e].off = w.off]
           /\ job' = IF w.ret < 0 THEN Spoilt(f) ELSE Logged(u, f, [i \in 1 .. w.ret |-> u])
           /\ cp' = Touches(f)
    /\ UNCHANGED has

UserRead(u, n) ==
    /\ has[u] # 0 /\ entry[has[u]].mode = "rw"
    /\ LET e == has[u]
           f == entry[e].f
           got == Len(SysRead(f, entry[e].off, n))
       IN  got > 0 /\ entry' = [entry EXCEPT ![e].off = @ + got] /\ job' = Spoilt(f)
    /\ UNCHANGED <<data, has, cp>>

\* sys_lseek: a negative result is EINVAL and moves nothing.  What a gap in a
\* file of the disk holds is left to Fat32, here and in ftruncate.
SysLseek(u, delta, whence) ==
    /\ has[u] # 0
    /\ LET e == has[u]
           f == entry[e].f
           from == [set |-> 0, cur |-> entry[e].off, end |-> Len(data[f])]
           to == from[whence] + delta
       IN  /\ to \in 0 .. IF f \in Ram THEN Limit + 1 ELSE Len(data[f])
           /\ entry' = [entry EXCEPT ![e].off = to]
           /\ job' = IF to = entry[e].off THEN job ELSE Spoilt(f)
    /\ UNCHANGED <<data, has, cp>>

\* file_truncate: the offset of this entry follows a cut, others do not.
SysFtruncate(u, size) ==
    /\ has[u] # 0
    /\ LET e == has[u]
           f == entry[e].f
       IN  /\ f \in Ram \/ size <= Len(data[f])
           /\ data' = [data EXCEPT ![f] = Cut(@, size)]
           /\ entry' = [entry EXCEPT ![e].off = Min({@, size})]
           /\ job' = Spoilt(f)
           /\ cp' = Touches(f)
    /\ UNCHANGED has

-----------------------------------------------------------------------------
\* copy_file of user/src/cp.c, one system call after the other.
CpReturn(ret) == cp' = [cp EXCEPT !.at = "done", !.ret = ret, !.in = 0, !.out = 0]

CpStat(src, dst) ==
    /\ cp.at = "start"
    /\ cp' = [cp EXCEPT !.src = src, !.dst = dst,
                        !.at = IF data[dst] = Absent THEN "openIn" ELSE "ask"]
    /\ UNCHANGED <<data, entry, job>>

confirm_overwrite(yes) ==
    /\ cp.at = "ask"
    /\ cp' = [cp EXCEPT !.at = IF yes THEN "openIn" ELSE "kept"]
    /\ UNCHANGED <<data, entry, job>>

CpOpenIn ==
    /\ cp.at = "openIn" /\ MayOpen(cp.src)
    /\ \/ (data[cp.src] = Absent \/ Entries \subseteq Taken) /\ CpReturn(-1) /\ UNCHANGED entry
       \/ /\ data[cp.src] # Absent
          /\ \E e \in Entries :
               /\ Lowest(e)
               /\ entry' = [entry EXCEPT ![e] = [f |-> cp.src, off |-> 0, mode |-> "r"]]
               /\ cp' = [cp EXCEPT !.at = "openOut", !.in = e]
    /\ UNCHANGED <<data, job>>

CpOpenOut ==
    /\ cp.at = "openOut" /\ MayOpen(cp.dst)
    /\ \E e \in Entries :
         /\ Lowest(e)
         /\ data' = [data EXCEPT ![cp.dst] = <<>>]
         /\ entry' = [entry EXCEPT ![e] = [f |-> cp.dst, off |-> 0, mode |-> "w"]]
         /\ job' = Spoilt(cp.dst)
         /\ cp' = [cp EXCEPT !.at = "read", !.out = e, !.alone = TRUE]

\* The second open fails: the file cannot be made or cut, or it was and no
\* entry is left.
CpNoOut ==
    /\ cp.at = "openOut" /\ CpReturn(-1)
    /\ \/ UNCHANGED <<data, job>>
       \/ /\ Entries \subseteq Taken
          /\ data' = [data EXCEPT ![cp.dst] = <<>>] /\ job' = Spoilt(cp.dst)
    /\ UNCHANGED entry

CpRead ==
    /\ cp.at = "read"
    /\ LET s == SysRead(cp.src, entry[cp.in].off, BufSize)
       IN  IF s = <<>> THEN CpReturn(0) /\ UNCHANGED entry
           ELSE /\ cp' = [cp EXCEPT !.at = "write", !.buf = s]
                /\ entry' = [entry EXCEPT ![cp.in].off = @ + Len(s)]
    /\ UNCHANGED <<data, job>>

\* What a short write leaves is written again from there; one of 0 bytes, at
\* the limit of /ram, leaves cp where it is.
CpRest_WholeBuffer(w) == <<>>
CpRest(w) == SubSeq(cp.buf, w.ret + 1, Len(cp.buf))
CpWrite(room) ==
    /\ cp.at = "write"
    /\ LET w == SysWrite(cp.dst, entry[cp.out].off, cp.buf, room)
       IN  /\ data' = [data EXCEPT ![cp.dst] = w.data]
           /\ entry' = [entry EXCEPT ![cp.out].off = w.off]
           /\ job' = Spoilt(cp.dst)
           /\ IF w.ret < 0 THEN CpReturn(-1)
              ELSE cp' = [cp EXCEPT !.buf = CpRest(w), !.at = IF CpRest(w) = <<>> THEN "read" ELSE "write"]

CopyFile == \/ \E src, dst \in Names : CpStat(src, dst)
            \/ \E yes \in BOOLEAN : confirm_overwrite(yes)
            \/ CpOpenIn \/ CpOpenOut \/ CpNoOut \/ CpRead
            \/ \E room \in Rooms : CpWrite(room)

UserCall ==
    \E u \in Users :
      \/ \E f \in Names, how \in {"trunc", "append", "both"} : SysOpenat(u, f, how)
      \/ \E v \in Users : SysFork(u, v)
      \/ SysCloseFile(u)
      \/ \E n \in 1 .. BufSize, room \in Rooms : UserWrite(u, n, room)
      \/ \E n \in 1 .. BufSize : UserRead(u, n)
      \/ \E delta \in -1 .. 1, whence \in {"set", "cur", "end"} : SysLseek(u, delta, whence)
      \/ \E size \in {0, 1, Limit} : SysFtruncate(u, size)

IoNext == \/ calls < (IF cp.at = "start" THEN MaxCalls ELSE MaxBeside) /\ calls' = calls + 1 /\ UserCall
          \/ calls <= MaxBeside /\ CopyFile /\ UNCHANGED <<has, calls>>

IoSpec == IoInit /\ [][IoNext]_iovars

-----------------------------------------------------------------------------
OpenEntry == [f : Names, off : Nat, mode : {"r", "w", "rw"}]
IoTypeOK ==
    /\ data \in [Names -> Seq(Int)] /\ entry \in [Entries -> OpenEntry \cup {Unused}]
    /\ has \in [Users -> Entries \cup {0}]
    /\ \A f \in Ram : Len(data[f]) <= Limit
    /\ \A e \in Entries : entry[e] # Unused /\ entry[e].f \in Ram => entry[e].off <= Limit + 1

(* A redirected command and its children write one after the other: what   *)
(* their calls said they wrote stands in the file behind what was there,   *)
(* once and in order, for as long as nobody else changes the file and the  *)
(* offset only moves by writing; at the limit of /ram and at a full disk.  *)
SharedWritesKept ==
    /\ IoTypeOK
    /\ \A f \in Names : job[f].kept => data[f] = job[f].base \o job[f].log

(* When cp answers 0 for two different files it was alone with, the copy   *)
(* is the source; while it runs, or when it fails, it is a beginning of it.*)
CopyIsSource ==
    cp.src # cp.dst /\ cp.alone =>
      /\ cp.at \in {"read", "write"} => IsPrefix(data[cp.dst], data[cp.src])
      /\ cp.at = "done" /\ cp.ret = 0 => data[cp.dst] = data[cp.src]
=============================================================================
