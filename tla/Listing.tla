------------------------------- MODULE Listing -------------------------------
(***************************************************************************)
(* Reading a directory while others change it: sys_getdents64 with the     *)
(* offset of the open file, opendir and readdir of user/lib/dirent.c, and  *)
(* the sorted list of user/src/ls.c.                                       *)
(*                                                                         *)
(* The offset counts names, in the order vfs_readdir meets them: in /ram a *)
(* new name comes first; on the disk it takes the first gap that is long   *)
(* enough for its entries, or the end, so it may come anywhere.  Names are *)
(* numbered as ci_cmp orders them, "." and ".." are 1 and 2.               *)
(***************************************************************************)
EXTENDS Naturals, Sequences, FiniteSets, SequencesExt, FiniteSetsExt

CONSTANTS DirNames,
          RecLen,     \* RecLen[n]: size of n's record
          RecHead,    \* sizeof(struct linux_dirent64)
          BufLen,     \* size of the reader's buffer: 512 in ls and in DIR
          TmpLen,     \* size of tmp in sys_getdents64: 256
          MaxChanges  \* bound on what is made and removed

\* The longest name makes a record of 280 bytes, which the buffer could hold.
ASSUME ListingAssumption ==
    /\ DirNames \subseteq Nat /\ \A n \in DirNames : n > 2
    /\ RecLen \in [DirNames \cup {1, 2} -> Nat]
    /\ RecHead \in Nat /\ BufLen \in Nat /\ TmpLen \in Nat /\ RecHead + 1 < BufLen
    /\ \A n \in DOMAIN RecLen : RecHead < RecLen[n] /\ RecLen[n] <= BufLen

VARIABLES fs,       \* "ram" or "disk"
          names,    \* what is in the directory, in its order
          reader,   \* the DIR and what readdir has returned
          changes

lsvars == <<fs, names, reader, changes>>

ClosedDir == [at |-> "closed", off |-> 0, buf |-> <<>>, got |-> <<>>, first |-> {},
           made |-> {}, gone |-> {}, cut |-> FALSE]

\* What vfs_readdir has for each offset.
Live == <<1, 2>> \o names

ListingInit ==
    /\ fs \in {"ram", "disk"}
    /\ names \in {s \in UNION {[1 .. k -> DirNames] : k \in 0 .. Cardinality(DirNames)} : IsInjective(s)}
    /\ reader = ClosedDir
    /\ changes = 0

-----------------------------------------------------------------------------
\* The loop of sys_getdents64: the i-th record behind off is tried when there
\* may be room, copied when it fits into both buffers; one that only the
\* kernel's buffer cannot hold ends the call with EINVAL.
Written(off, i) ==
    LET w[k \in 0 .. i] == IF k = 0 THEN 0 ELSE w[k - 1] + RecLen[Live[off + k]] IN w[i]
Tries(off, i) == off + i <= Len(Live) /\ Written(off, i - 1) + RecHead + 1 < BufLen
HasRoom(off, i) == Tries(off, i) /\ Written(off, i) <= BufLen
Copied(off) == Max({i \in 0 .. Len(Live) : \A j \in 1 .. i : HasRoom(off, j) /\ RecLen[Live[off + j]] <= TmpLen})

getdents64_Counts(off) ==
    LET n == Copied(off)
    IN  [err |-> HasRoom(off, n + 1), found |-> SubSeq(Live, off + 1, off + n),
         off |-> off + n + (IF Tries(off, n + 1) THEN 1 ELSE 0)]

getdents64(off) ==
    LET n == Copied(off)
    IN  [err |-> HasRoom(off, n + 1), found |-> SubSeq(Live, off + 1, off + n), off |-> off + n]

-----------------------------------------------------------------------------
opendir ==
    /\ reader.at = "closed"
    /\ reader' = [ClosedDir EXCEPT !.at = "open", !.first = Range(Live)]
    /\ UNCHANGED <<fs, names, changes>>

\* readdir with an empty buffer; NULL when there is nothing more, or an error.
ReaddirFill ==
    /\ reader.at = "open" /\ reader.buf = <<>>
    /\ LET g == getdents64(reader.off)
       IN  reader' = IF g.err THEN [reader EXCEPT !.at = "null", !.cut = TRUE]
                     ELSE IF g.found = <<>> THEN [reader EXCEPT !.at = "null", !.off = g.off]
                     ELSE [reader EXCEPT !.buf = g.found, !.off = g.off]
    /\ UNCHANGED <<fs, names, changes>>

ReaddirNext ==
    /\ reader.at = "open" /\ reader.buf # <<>>
    /\ reader' = [reader EXCEPT !.got = Append(@, Head(reader.buf)), !.buf = Tail(@)]
    /\ UNCHANGED <<fs, names, changes>>

rewinddir ==
    /\ reader.at \in {"open", "null"} /\ reader.off > 0
    /\ reader' = [ClosedDir EXCEPT !.at = "open", !.first = Range(Live)]
    /\ UNCHANGED <<fs, names, changes>>

closedir == reader.at # "closed" /\ reader' = ClosedDir /\ UNCHANGED <<fs, names, changes>>

\* What others do in between, a system call each.
Inserted(i, n) == SubSeq(names, 1, i - 1) \o <<n>> \o SubSeq(names, i, Len(names))
Made(n) == {Inserted(i, n) : i \in IF fs = "ram" THEN {1} ELSE 1 .. Len(names) + 1}
Without(n) ==
    LET i == CHOOSE i \in DOMAIN names : names[i] = n
    IN  SubSeq(names, 1, i - 1) \o SubSeq(names, i + 1, Len(names))

Create(n) ==
    /\ changes < MaxChanges /\ n \notin Range(names)
    /\ names' \in Made(n)
    /\ reader' = IF reader.at = "closed" THEN reader ELSE [reader EXCEPT !.made = @ \cup {n}]
    /\ changes' = changes + 1 /\ UNCHANGED fs

Unlink(n) ==
    /\ changes < MaxChanges /\ n \in Range(names)
    /\ names' = Without(n)
    /\ reader' = IF reader.at = "closed" THEN reader ELSE [reader EXCEPT !.gone = @ \cup {n}]
    /\ changes' = changes + 1 /\ UNCHANGED fs

ListingNext == opendir \/ ReaddirFill \/ ReaddirNext \/ rewinddir \/ closedir
               \/ \E n \in DirNames : Create(n) \/ Unlink(n)

ListingSpec == ListingInit /\ [][ListingNext]_lsvars

-----------------------------------------------------------------------------
\* list_dir: "." and ".." first, then the others; sort_entries takes every pair
\* and exchanges it when out of order.
Exchange(s, i, j) == IF s[i] > s[j] THEN [s EXCEPT ![i] = s[j], ![j] = s[i]] ELSE s
Pass(s, i) ==
    LET t[j \in 0 .. Len(s)] == IF j <= i THEN s ELSE Exchange(t[j - 1], i, j) IN t[Len(s)]
sort_entries(s) ==
    LET t[i \in 0 .. Len(s)] == IF i = 0 THEN s ELSE Pass(t[i - 1], i) IN t[Len(s)]

\* What it keeps of the names read: the dots apart, the others in ents.
ents(got) ==
    LET e[k \in 0 .. Len(got)] == IF k = 0 THEN <<>>
                                  ELSE IF got[k] > 2 THEN Append(e[k - 1], got[k])
                                  ELSE e[k - 1]
    IN  e[Len(got)]

list_dir == LET dots(n) == IF n \in Range(reader.got) THEN <<n>> ELSE <<>>
            IN  dots(1) \o dots(2) \o sort_entries(ents(reader.got))

(* A program that reads a directory to its end while others work in it     *)
(* meets every name that was there unless something was removed, none      *)
(* twice unless something was made, and no other name; ls shows the same   *)
(* names in order.  The one exception is a name too long for the kernel's  *)
(* buffer, which cuts the list off (sys_getdents64, readdir, list_dir).    *)
ListedOnce ==
    reader.at = "null" /\ ~reader.cut =>
      /\ reader.gone = {} => reader.first \subseteq Range(reader.got)
      /\ reader.made = {} => IsInjective(reader.got)
      /\ Range(reader.got) \subseteq reader.first \cup reader.made
      /\ \A i, j \in DOMAIN list_dir : i < j => list_dir[i] <= list_dir[j]
      /\ \A n \in Range(Live) : Quantify(DOMAIN list_dir, LAMBDA i : list_dir[i] = n)
                                  = Quantify(DOMAIN reader.got, LAMBDA i : reader.got[i] = n)
=============================================================================
