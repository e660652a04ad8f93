------------------------------- MODULE FatDir -------------------------------
(***************************************************************************)
(* One directory of kernel/fat32.c entry by entry: the short names it      *)
(* makes up, the long-name entries before them, the search for a run of    *)
(* free entries, growth by a cluster, and every write to the disk a step   *)
(* of its own, so that power may fail between any two.  Nothing repairs    *)
(* the disk afterwards: the next boot mounts what is there.                *)
(*                                                                         *)
(* FileNames are sequences of one-letter strings.  Which cluster is free   *)
(* first, and chains of more than one cluster, are Fat32's; files here     *)
(* have at most one.                                                       *)
(***************************************************************************)
EXTENDS Naturals, Sequences, FiniteSets, SequencesExt

CONSTANTS FileNames,     \* names given to create, mkdir, unlink
          Upper,     \* upper-case form of the lower-case letters
          Invalid,   \* letters no name may have
          ShortChars,\* letters fat32_is_short_char accepts
          Code,      \* the bytes of the letters of short names and of " "
          SumBits,   \* bits of the checksum of a short name, 8 in the code
          BaseLen,   \* 8 in the code
          ExtLen,    \* 3
          LfnChars,  \* letters in one long-name entry, 13
          MaxName,   \* FAT32_MAX_NAME, 255
          MaxSuffix, \* 99
          PerCluster,\* entries in a cluster
          NClusters, \* clusters besides the directory's first one
          MaxFiles,  \* bound on files created, a crash counted as one
          MaxCrashes

NUL == ""

\* Names are C strings; two digits hold every number behind a "~".
ASSUME DirAssumption ==
    /\ FileNames \subseteq Seq(STRING) /\ \A name \in FileNames : NUL \notin Range(name)
    /\ Upper \in [DOMAIN Upper -> STRING]
    /\ Code \in [DOMAIN Code -> Nat] /\ SumBits \in Nat \ {0}
    /\ LfnChars \in Nat \ {0} /\ PerCluster \in Nat \ {0}
    /\ {BaseLen, ExtLen, MaxName, NClusters} \subseteq Nat /\ MaxSuffix \in 0 .. 99

VARIABLES slots,   \* the directory's entries on the disk
          fat,     \* fat[c]: cluster c is marked used
          dots,    \* entries "." and ".." written in cluster c: 0, 1 or 2
          todo,    \* disk writes the running call has still to make
          op,      \* that call
          files,   \* ghost: files the finished calls have made
          hurt,    \* ghost: short names of files whose change a crash cut off
          touched, \* ghost: such a file was used again
          count    \* ghost: files created and crashes so far

dvars == <<slots, fat, dots, todo, op, files, hurt, touched, count>>

Clusters == 1..NClusters
End == [k |-> "end"]                 \* name[0] = 0x00
Del == [k |-> "del"]                 \* name[0] = 0xE5
NoOp == [kind |-> "none"]
Digits == <<"0", "1", "2", "3", "4", "5", "6", "7", "8", "9">>

DirInit ==
    /\ slots = [i \in 1..PerCluster |-> End]
    /\ fat = [c \in Clusters |-> FALSE]
    /\ dots = [c \in Clusters |-> 0]
    /\ todo = <<>> /\ op = NoOp
    /\ files = {} /\ hurt = {} /\ touched = FALSE
    /\ count = [file |-> 0, crash |-> 0]

-----------------------------------------------------------------------------
(* fat32_iter_dir: the entries a reader sees, with the name it reads, the  *)
(* place of the short entry and the long-name entries counted before it.   *)
Strlen(s) == IF \E k \in 1..Len(s) : s[k] = NUL
             THEN (CHOOSE k \in 1..Len(s) : s[k] = NUL /\ \A j \in 1..(k - 1) : s[j] # NUL) - 1
             ELSE Len(s)
Blank == [k \in 1..MaxName |-> NUL]
Unlong == [buf |-> Blank, valid |-> FALSE, sum |-> 0, n |-> 0, seen |-> <<>>, stop |-> FALSE]

fat32_lfn_write(buf, e) ==
    [k \in 1..MaxName |->
       LET i == k - (e.ord - 1) * LfnChars
       IN  IF i \in 1..LfnChars THEN e.chars[i] ELSE buf[k]]

ShortToName(sn) == sn.base \o (IF sn.ext = <<>> THEN <<>> ELSE <<".">> \o sn.ext)

\* The checksum that ties long-name entries to a short one: rotate right and
\* add, over base and extension filled up with blanks.
Padded(s, n) == s \o [k \in 1 .. n - Len(s) |-> " "]
fat32_lfn_checksum(sn) ==
    LET Add(sum, c) == ((sum % 2) * 2 ^ (SumBits - 1) + sum \div 2 + Code[c]) % 2 ^ SumBits
    IN  FoldLeft(Add, 0, Padded(sn.base, BaseLen) \o Padded(sn.ext, ExtLen))

View(st, e, i) ==
    LET long == st.valid /\ st.buf[1] # NUL /\ st.sum = fat32_lfn_checksum(e.sn)
    IN  [name |-> IF long THEN SubSeq(st.buf, 1, Strlen(st.buf)) ELSE ShortToName(e.sn),
         at |-> i, lfn |-> st.n, e |-> e]

\* What an entry does to the long name collected so far: the first of a name
\* starts it, one with another checksum ends it.
Collect(st, e) ==
    LET s1 == IF e.last THEN [st EXCEPT !.buf = Blank, !.valid = TRUE, !.sum = e.sum, !.n = 0] ELSE st
    IN  IF s1.valid /\ e.sum = s1.sum THEN [s1 EXCEPT !.buf = fat32_lfn_write(@, e), !.n = @ + 1]
        ELSE [s1 EXCEPT !.valid = FALSE, !.n = 0]

Scan(st, e, i) ==
    IF st.stop THEN st
    ELSE CASE e.k = "end" -> [st EXCEPT !.stop = TRUE]
           [] e.k = "del" -> [st EXCEPT !.valid = FALSE, !.n = 0]
           [] e.k = "lfn" -> Collect(st, e)
           [] e.k = "short" -> [st EXCEPT !.valid = FALSE, !.n = 0, !.seen = Append(@, View(st, e, i))]

fat32_iter_dir ==
    LET st[i \in 0 .. Len(slots)] == IF i = 0 THEN Unlong ELSE Scan(st[i - 1], slots[i], i)
    IN  st[Len(slots)].seen

\* name_eq_nocase
Fold(name) == [k \in DOMAIN name |-> IF name[k] \in DOMAIN Upper THEN Upper[name[k]] ELSE name[k]]

\* fat32_find_entry and the lookup callback: the first that matches of what an
\* iteration has seen, if any.
fat32_find_entry(seen, name) ==
    LET Eq(k) == Fold(seen[k].name) = Fold(name)
    IN  {k \in DOMAIN seen : Eq(k) /\ \A j \in 1 .. k - 1 : ~Eq(j)}

-----------------------------------------------------------------------------
(* fat32_make_short_name *)
LastDot(name) == IF \E k \in DOMAIN name : name[k] = "."
                 THEN CHOOSE k \in DOMAIN name : name[k] = "." /\ \A j \in (k + 1)..Len(name) : name[j] # "."
                 ELSE Len(name) + 1
BaseOf(name) == SubSeq(name, 1, LastDot(name) - 1)
ExtOf(name) == SubSeq(name, LastDot(name) + 1, Len(name))
Upcase(s) == [k \in DOMAIN s |-> IF Fold(s)[k] \in ShortChars THEN Fold(s)[k] ELSE "_"]
Cut(s, n) == SubSeq(s, 1, IF Len(s) < n THEN Len(s) ELSE n)

fat32_short_exists(seen, sn) == \E v \in Range(seen) : v.e.sn = sn

\* The number behind the "~".
Suffix(n) == <<"~">> \o (IF n < 10 THEN <<>> ELSE <<Digits[(n \div 10) + 1]>>) \o <<Digits[(n % 10) + 1]>>

fat32_make_short_name_Blind(seen, name) ==
    {[sn |-> [base |-> Cut(Upcase(BaseOf(name)), BaseLen), ext |-> Cut(Upcase(ExtOf(name)), ExtLen)], lfn |-> TRUE]}

\* At most one, and none when every number is taken.
fat32_make_short_name(seen, name) ==
    LET b == BaseOf(name)
        x == ExtOf(name)
        base == IF b = <<>> THEN <<"_">> ELSE Cut(Upcase(b), BaseLen)
        ext == Cut(Upcase(x), ExtLen)
        simple == Len(b) <= BaseLen /\ Len(x) <= ExtLen
        plain == [base |-> base, ext |-> ext]
        tail(n) == [base |-> Cut(base, BaseLen - Len(Suffix(n))) \o Suffix(n), ext |-> ext]
        free == {n \in 1 .. MaxSuffix : ~fat32_short_exists(seen, tail(n))}
    IN  IF simple /\ ~fat32_short_exists(seen, plain)
        THEN {[sn |-> plain, lfn |-> b = <<>> \/ Upcase(b) # b \/ Upcase(x) # x]}
        ELSE {[sn |-> tail(n), lfn |-> TRUE] : n \in {n \in free : \A m \in free : n <= m}}

\* What a listing shows it as: the name itself, less a dot at its end when it has
\* no long-name entries.
Listed(name, lfn) == IF ~lfn /\ Last(name) = "." THEN Front(name) ELSE name

\* fat32_dir_find_free: the first run of entries that are free, or the free
\* entries at the end and as many new clusters as it takes.
Free(i) == i > Len(slots) \/ slots[i].k \in {"end", "del"}
fat32_dir_find_free(needed) ==
    CHOOSE i \in 1..(Len(slots) + 1) :
      /\ \A k \in i..(i + needed - 1) : Free(k)
      /\ \A j \in 1..(i - 1) : \E k \in j..(j + needed - 1) : ~Free(k)

CeilDiv(a, b) == (a + b - 1) \div b
NewClusters(at, needed) ==
    IF at + needed - 1 <= Len(slots) THEN 0 ELSE CeilDiv(at + needed - 1 - Len(slots), PerCluster)

-----------------------------------------------------------------------------
(* The disk writes of the calls, in the order they are made. *)
Fat(c, v) == [t |-> "fat", c |-> c, v |-> v]
Zero(c) == [t |-> "zero", c |-> c]
Dot(c, n) == [t |-> "dot", c |-> c, n |-> n]
Put(i, e) == [t |-> "put", i |-> i, e |-> e]
Link == [t |-> "link"]

\* The free clusters in some order; which is next is alloc_hint's business.
FreeSeq == SetToSeq({c \in Clusters : ~fat[c]})
Grow(n) ==
    [k \in 1 .. 3 * n |-> LET c == FreeSeq[(k + 2) \div 3]
                         IN  CASE k % 3 = 1 -> Fat(c, TRUE) [] k % 3 = 2 -> Zero(c) [] OTHER -> Link]

\* "of" is ghost: the short name the entry was written for.
LfnChar(name, i) == IF i <= Len(name) THEN name[i] ELSE NUL
fat32_fill_lfn_entry(name, ord, last, sn) ==
    [k |-> "lfn", ord |-> ord, last |-> last, sum |-> fat32_lfn_checksum(sn), of |-> sn,
     chars |-> [i \in 1..LfnChars |-> LfnChar(name, (ord - 1) * LfnChars + i)]]
Short(sn, id, dir, c) == [k |-> "short", sn |-> sn, id |-> id, dir |-> dir, cluster |-> c]

LfnWrites(name, at, n, sn) ==
    [i \in 1..n |-> Put(at + i - 1, fat32_fill_lfn_entry(name, n - i + 1, i = 1, sn))]

MkdirWrites(c) == <<Fat(c, TRUE), Zero(c), Dot(c, 1), Dot(c, 2)>>

Begin(writes, o) == todo' = writes /\ op' = o

\* A file whose last change was cut off: it or its short name is met again.
Meets(sn) == touched' = (touched \/ sn \in hurt)

fat32_validate_name(name) ==
    /\ name \notin {<<>>, <<".">>, <<".", ".">>} /\ Len(name) <= MaxName
    /\ \A k \in DOMAIN name : name[k] \notin Invalid

\* fat32_create_entry with no entry of that name: long-name entries from the
\* last part to the first, the short entry last.
create(seen, name, dir) ==
    /\ todo = <<>> /\ count.file + count.crash < MaxFiles
    /\ fat32_validate_name(name) /\ fat32_find_entry(seen, name) = {}
    /\ \E made \in fat32_make_short_name(seen, name) :
         LET sn == made.sn
             n == IF made.lfn THEN CeilDiv(Len(name), LfnChars) ELSE 0
             at == fat32_dir_find_free(n + 1)
             more == NewClusters(at, n + 1)
             room == more + (IF dir THEN 1 ELSE 0) <= Len(FreeSeq)
             id == count.file + 1
             c == IF dir THEN FreeSeq[more + 1] ELSE 0
         IN  /\ \/ /\ ~room /\ more # 0 /\ FreeSeq # <<>>
                   /\ Begin(Grow(IF more < Len(FreeSeq) THEN more ELSE Len(FreeSeq)),
                            [kind |-> "grow", begun |-> FALSE, sn |-> sn])
                \/ /\ room
                   /\ Begin(Grow(more) \o (IF dir THEN MkdirWrites(c) ELSE <<>>)
                             \o LfnWrites(name, at, n, sn) \o <<Put(at + n, Short(sn, id, dir, c))>>,
                            [kind |-> "create", begun |-> FALSE, sn |-> sn,
                             file |-> [name |-> Listed(name, made.lfn), id |-> id, sn |-> sn,
                                       dir |-> dir, cluster |-> c]])
             /\ count' = [count EXCEPT !.file = @ + 1]
             /\ Meets(sn)
    /\ UNCHANGED <<slots, fat, dots, files, hurt>>

\* The first cluster of an empty file (fat32_ensure_chain, then the entry).
WriteWrites_EntryFirst(v, c) == <<Put(v.at, [v.e EXCEPT !.cluster = c]), Fat(c, TRUE), Zero(c)>>

WriteWrites(v, c) == <<Fat(c, TRUE), Zero(c), Put(v.at, [v.e EXCEPT !.cluster = c])>>

write(seen, name) ==
    /\ todo = <<>>
    /\ \E k \in fat32_find_entry(seen, name) :
         LET v == seen[k]
         IN  /\ ~v.e.dir /\ v.e.cluster = 0 /\ FreeSeq # <<>>
             /\ Begin(WriteWrites(v, FreeSeq[1]),
                      [kind |-> "write", begun |-> FALSE, sn |-> v.e.sn, id |-> v.e.id,
                       cluster |-> FreeSeq[1]])
             /\ Meets(v.e.sn)
    /\ UNCHANGED <<slots, fat, dots, files, hurt, count>>

\* fat32_truncate_op to 0: the chain is freed before the entry is written.
TruncateWrites(v) == <<Fat(v.e.cluster, FALSE), Put(v.at, [v.e EXCEPT !.cluster = 0])>>
truncate(seen, name) ==
    /\ todo = <<>>
    /\ \E k \in fat32_find_entry(seen, name) :
         LET v == seen[k]
         IN  /\ ~v.e.dir /\ v.e.cluster # 0
             /\ Begin(TruncateWrites(v),
                      [kind |-> "truncate", begun |-> FALSE, sn |-> v.e.sn, id |-> v.e.id,
                       cluster |-> 0])
             /\ Meets(v.e.sn)
    /\ UNCHANGED <<slots, fat, dots, files, hurt, count>>

\* fat32_unlink_op: the chain, then the entries from the first long-name one.
\* A directory made here is empty, which is what fat32_dir_is_empty asks.
UnlinkWrites(v) ==
    (IF v.e.cluster # 0 THEN <<Fat(v.e.cluster, FALSE)>> ELSE <<>>)
    \o [i \in 1..(v.lfn + 1) |-> Put(v.at - v.lfn + i - 1, Del)]
unlink(seen, name) ==
    /\ todo = <<>>
    /\ \E k \in fat32_find_entry(seen, name) :
         LET v == seen[k]
         IN  /\ Begin(UnlinkWrites(v),
                      [kind |-> "unlink", begun |-> FALSE, sn |-> v.e.sn, id |-> v.e.id])
             /\ Meets(v.e.sn)
    /\ UNCHANGED <<slots, fat, dots, files, hurt, count>>

\* The next write reaches the disk; after the last one the call has returned.
Apply(w) ==
    /\ fat' = IF w.t = "fat" THEN [fat EXCEPT ![w.c] = w.v] ELSE fat
    /\ dots' = CASE w.t = "zero" -> [dots EXCEPT ![w.c] = 0]
                 [] w.t = "dot" -> [dots EXCEPT ![w.c] = w.n]
                 [] OTHER -> dots
    /\ slots' = CASE w.t = "put" -> [slots EXCEPT ![w.i] = w.e]
                  [] w.t = "link" -> slots \o [k \in 1..PerCluster |-> End]
                  [] OTHER -> slots

Returned ==
    CASE op.kind = "create" -> files \cup {op.file}
      [] op.kind = "unlink" -> {f \in files : f.id # op.id}
      [] op.kind \in {"write", "truncate"} ->
           {IF f.id = op.id THEN [f EXCEPT !.cluster = op.cluster] ELSE f : f \in files}
      [] OTHER -> files

Step ==
    /\ todo # <<>>
    /\ Apply(Head(todo))
    /\ todo' = Tail(todo)
    /\ IF Tail(todo) = <<>> THEN op' = NoOp /\ files' = Returned
       ELSE op' = [op EXCEPT !.begun = TRUE] /\ UNCHANGED files
    /\ UNCHANGED <<hurt, touched, count>>

\* Power fails: the writes not made are lost, as is everything in memory.
Cuts == op.begun /\ op.kind \in {"create", "truncate", "unlink"}
Crash ==
    /\ count.crash < MaxCrashes /\ todo # <<>>
    /\ todo' = <<>> /\ op' = NoOp
    /\ hurt' = IF Cuts THEN hurt \cup {op.sn} ELSE hurt
    /\ count' = [count EXCEPT !.crash = @ + 1]
    /\ UNCHANGED <<slots, fat, dots, files, touched>>

DirNext == \/ Step \/ Crash
           \/ /\ todo = <<>>
              /\ LET seen == fat32_iter_dir
                 IN  \E name \in FileNames :
                       \/ \E dir \in BOOLEAN : create(seen, name, dir)
                       \/ write(seen, name) \/ truncate(seen, name) \/ unlink(seen, name)

DirSpec == DirInit /\ [][DirNext]_dvars

-----------------------------------------------------------------------------
DirTypeOK ==
    /\ Len(slots) % PerCluster = 0
    /\ \A i \in DOMAIN slots : slots[i].k \in {"end", "del", "lfn", "short"}
    /\ dots \in [Clusters -> 0..2]
    /\ todo = <<>> <=> op = NoOp

Seen == {<<v.name, v.e.id, v.e.dir>> : v \in Range(fat32_iter_dir)}

\* Between calls, while power has never failed, a listing shows every file made
\* and not removed under exactly the name it was given (Listed), once, and
\* nothing else.
ListingIsRight ==
    todo = <<>> /\ count.crash = 0 =>
      /\ Seen = {<<f.name, f.id, f.dir>> : f \in files}
      /\ Len(fat32_iter_dir) = Cardinality(files)

\* No two entries of the directory have the same short name, whatever was
\* created, removed or cut off by a crash.
ShortNamesDiffer ==
    \A i, j \in DOMAIN slots :
      i # j /\ slots[i].k = "short" /\ slots[j].k = "short" => slots[i].sn # slots[j].sn

\* The entries of a directory keep names apart and lists show them as they
\* were given (fat32_make_short_name, fat32_iter_dir).
DirSound == DirTypeOK /\ ListingIsRight /\ ShortNamesDiffer

\* The short names whose entries a crash cut off, or whose call is running.
AtRisk == hurt \cup (IF op = NoOp THEN {} ELSE {op.sn})

\* A file is shown under its own name.  Only one without long-name entries can
\* get another, from the long-name entries a crash left before its short one, and
\* only if the checksums agree.
NamedRight(v, f) ==
    \/ v.name = f.name
    \/ /\ f.name = ShortToName(f.sn)
       /\ \E sn \in AtRisk : fat32_lfn_checksum(sn) = fat32_lfn_checksum(f.sn)

\* A crash costs at most the file being created, cut or removed: as long as that
\* name is left alone, every other file is still listed, under its name unless
\* that takes a colliding checksum, has its entry's cluster to itself, marked used,
\* and a directory has its dot entries.  A write cut off loses a cluster and no file.
OthersSurvive ==
    ~touched =>
      LET seen == Range(fat32_iter_dir)
          safe == {f \in files : f.sn \notin AtRisk}
      IN  \A f \in safe :
            /\ \E v \in seen : v.e.id = f.id /\ v.e.dir = f.dir /\ NamedRight(v, f)
            /\ \E i \in DOMAIN slots :
                 /\ slots[i].k = "short" /\ slots[i].id = f.id
                 /\ LET c == slots[i].cluster
                    IN  c # 0 => /\ fat[c]
                                 /\ f.dir => dots[c] = 2
                                 /\ \A g \in safe \ {f} : \A j \in DOMAIN slots :
                                      slots[j].k = "short" /\ slots[j].id = g.id => slots[j].cluster # c
=============================================================================
