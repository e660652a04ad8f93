---------------------------- MODULE FatDirProofs ----------------------------
(***************************************************************************)
(* Whatever is created, written, cut and removed in a directory of the     *)
(* disk, and wherever power fails between two writes: no two entries have  *)
(* one short name, a listing shows every file under exactly its name until *)
(* power has failed, and a failure costs no file but the one the call was  *)
(* about.  For any names, any letters, any sizes of names, entries and     *)
(* clusters.                                                               *)
(*                                                                         *)
(* An iteration of the directory is a recursive function over its entries: *)
(* Iterate shows that such a definition has a solution, and InductionUpTo  *)
(* carries a fact from each entry to the next.                             *)
(*                                                                         *)
(* The invariant (DirInv) has two parts.  One holds whatever happens: the  *)
(* writes to come stay within the directory and keep its entries without a *)
(* gap and their short names apart.  The other holds until a file that a   *)
(* crash has hurt is met: every other file has its entries (Home), and the *)
(* writes to come are about one short name and complete what it stands for *)
(* (OwnWrites, EndRight).                                                  *)
(***************************************************************************)
EXTENDS FatDir, FiniteSetTheorems, TLAPS

-----------------------------------------------------------------------------
(* Induction and functions defined by recursion *)

\* A set of naturals has a least element.
LEMMA LeastNat ==
  ASSUME NEW S \in SUBSET Nat, S # {}
  PROVE  \E n \in S : \A m \in S : n <= m
  <1> DEFINE U == {0 .. n : n \in S}
  <1>1. U \subseteq FiniteSubsetsOf(Nat)
    <2> SUFFICES ASSUME NEW n \in S PROVE 0 .. n \in FiniteSubsetsOf(Nat)
      OBVIOUS
    <2> QED
      BY FS_Interval DEF FiniteSubsetsOf
  <1>2. PICK u \in U : \A v \in U : <<v, u>> \notin StrictSubsetOrdering(Nat)
    <2>1. U # {}
      OBVIOUS
    <2> HIDE DEF U
    <2> QED
      BY <1>1, <2>1, FS_StrictSubsetOrderingWellFounded, WFMin
  <1>3. PICK n \in S : u = 0 .. n
    OBVIOUS
  <1>4. ASSUME NEW m \in S, m < n PROVE FALSE
    <2>1. 0 .. m \in U /\ n \notin 0 .. m /\ n \in u /\ 0 .. m \subseteq u
      BY <1>3, <1>4
    <2>2. <<0 .. m, u>> \in StrictSubsetOrdering(Nat)
      BY <2>1, <1>3 DEF StrictSubsetOrdering
    <2> QED
      BY <1>2, <2>1, <2>2
  <1> QED
    BY <1>3, <1>4

\* Induction up to n, for the numbers of a set P.
LEMMA InductionUpTo ==
  ASSUME NEW n \in Nat, NEW P \in SUBSET Nat, 0 \in P, \A i \in 0 .. n - 1 : i \in P => i + 1 \in P
  PROVE  \A i \in 0 .. n : i \in P
  <1> SUFFICES ASSUME NEW b \in 0 .. n, b \notin P PROVE FALSE
    OBVIOUS
  <1> DEFINE S == {i \in 0 .. n : i \notin P}
  <1>1. S \in SUBSET Nat /\ S # {}
    OBVIOUS
  <1>2. PICK i \in S : \A j \in S : i <= j
    <2> HIDE DEF S
    <2> QED
      BY <1>1, LeastNat
  <1>3. i # 0 /\ i - 1 \in 0 .. n - 1 /\ i - 1 \in 0 .. n /\ (i - 1) + 1 = i
    BY <1>2
  <1>4. i - 1 \in P
    BY <1>2, <1>3
  <1> QED
    BY <1>2, <1>3, <1>4

\* f starts with c, and G makes the next value of a step and the value before.
Follows(f, S, G, c, n) ==
  f \in [0 .. n -> S] /\ f[0] = c /\ \A i \in 1 .. n : f[i] = G[<<i, f[i - 1]>>]

LEMMA Iterate ==
  ASSUME NEW S, NEW n \in Nat, NEW G \in [(1 .. n) \X S -> S], NEW c \in S
  PROVE  \E f : Follows(f, S, G, c, n)
  <1> DEFINE Sol(f, m) == /\ f \in [0 .. m -> S] /\ f[0] = c
                          /\ \A i \in 1 .. m : f[i] = G[<<i, f[i - 1]>>]
             P == {m \in Nat : \E f : Sol(f, m)}
  <1>1. 0 \in P
    <2>1. Sol([i \in 0 .. 0 |-> c], 0)
      OBVIOUS
    <2> HIDE DEF Sol
    <2> QED
      BY <2>1
  <1>2. ASSUME NEW m \in 0 .. n - 1, m \in P PROVE m + 1 \in P
    <2>1. PICK f : Sol(f, m)
      BY <1>2
    <2> DEFINE g == [i \in 0 .. m + 1 |-> IF i = m + 1 THEN G[<<m + 1, f[m]>>] ELSE f[i]]
    <2>2. \A i \in 0 .. m : i \in 0 .. m + 1 /\ g[i] = f[i] /\ f[i] \in S
      BY <2>1
    <2>3. g[m + 1] = G[<<m + 1, f[m]>>] /\ G[<<m + 1, f[m]>>] \in S
      <3>1. m \in 0 .. m /\ m + 1 \in 1 .. n /\ m + 1 \in 0 .. m + 1
        OBVIOUS
      <3>2. f[m] \in S
        BY <2>2, <3>1
      <3>3. <<m + 1, f[m]>> \in (1 .. n) \X S
        BY <3>1, <3>2
      <3> QED
        BY <3>1, <3>3
    <2>4. g \in [0 .. m + 1 -> S]
      <3>1. \A i \in 0 .. m + 1 : i = m + 1 \/ i \in 0 .. m
        OBVIOUS
      <3>2. \A i \in 0 .. m + 1 : g[i] \in S
        BY <2>2, <2>3, <3>1
      <3> HIDE DEF g
      <3>3. g = [i \in 0 .. m + 1 |-> g[i]]
        BY DEF g
      <3> QED
        BY <3>2, <3>3
    <2>5. g[0] = c
      BY <2>1, <2>2
    <2>6. ASSUME NEW i \in 1 .. m + 1 PROVE g[i] = G[<<i, g[i - 1]>>]
      <3>1. i - 1 \in 0 .. m /\ g[i - 1] = f[i - 1]
        BY <2>2
      <3>2. CASE i = m + 1
        <4>1. i - 1 = m
          BY <3>2
        <4> QED
          BY <2>3, <3>1, <3>2, <4>1
      <3>3. CASE i # m + 1
        <4>1. i \in 1 .. m /\ i \in 0 .. m
          BY <3>3
        <4> QED
          BY <2>1, <2>2, <3>1, <4>1
      <3> QED
        BY <3>2, <3>3
    <2>7. Sol(g, m + 1)
      BY <2>4, <2>5, <2>6
    <2> HIDE DEF Sol
    <2> QED
      BY <2>7
  <1>3. n \in P
    <2>0. P \in SUBSET Nat /\ n \in 0 .. n
      OBVIOUS
    <2> HIDE DEF P
    <2> QED
      BY <1>1, <1>2, <2>0, InductionUpTo
  <1>4. PICK f : Sol(f, n)
    BY <1>3
  <1> QED
    BY <1>4 DEF Follows

-----------------------------------------------------------------------------
(* What entries, views and the states of an iteration are. *)

Letters == STRING \cup {NUL, ".", "_", "~"} \cup {Digits[i] : i \in 1 .. 10}
SNames == [base : Seq(Letters), ext : Seq(Letters)]
Sums == {fat32_lfn_checksum(sn) : sn \in SNames}
Lfns == {e \in [k : {"lfn"}, ord : Nat, last : BOOLEAN, sum : Sums, of : SNames,
                 chars : [1 .. LfnChars -> Letters]] : e.sum = fat32_lfn_checksum(e.of)}
Shorts == [k : {"short"}, sn : SNames, id : Nat, dir : BOOLEAN, cluster : Nat]
DirEntries == {End, Del} \cup Lfns \cup Shorts
Buffers == [1 .. MaxName -> Letters]
Views == [name : Seq(Letters), at : Nat, lfn : Nat, e : Shorts]
ScanStates == [buf : Buffers, valid : BOOLEAN, sum : {0} \cup Sums, n : Nat,
               seen : Seq(Views), stop : BOOLEAN]

LEMMA Kinds ==
  ASSUME NEW e \in DirEntries
  PROVE  /\ e.k \in {"end", "del", "lfn", "short"}
         /\ e.k = "end" <=> e = End
         /\ e.k = "del" <=> e = Del
         /\ e.k = "lfn" <=> e \in Lfns
         /\ e.k = "short" <=> e \in Shorts
  BY DEF DirEntries, End, Del, Lfns, Shorts

LEMMA DirNumbers ==
  /\ LfnChars \in Nat \ {0} /\ PerCluster \in Nat \ {0} /\ BaseLen \in Nat /\ ExtLen \in Nat
  /\ MaxName \in Nat /\ NClusters \in Nat /\ MaxSuffix \in 0 .. 99
  BY DirAssumption

LEMMA StrlenIs ==
  ASSUME NEW b \in Buffers
  PROVE  /\ Strlen(b) \in 0 .. MaxName /\ \A k \in 1 .. Strlen(b) : b[k] # NUL
         /\ Strlen(b) < MaxName => b[Strlen(b) + 1] = NUL
  <1>1. MaxName \in Nat /\ Len(b) = MaxName
    BY DirNumbers DEF Buffers
  <1>2. CASE ~\E k \in 1 .. Len(b) : b[k] = NUL
    BY <1>1, <1>2 DEF Strlen
  <1>3. CASE \E k \in 1 .. Len(b) : b[k] = NUL
    <2> DEFINE S == {k \in 1 .. MaxName : b[k] = NUL}
               F(k) == k \in 1 .. Len(b) /\ b[k] = NUL /\ \A j \in 1 .. (k - 1) : b[j] # NUL
    <2>1. S \in SUBSET Nat /\ S # {}
      BY <1>1, <1>3
    <2>2. PICK k \in S : \A m \in S : k <= m
      <3> HIDE DEF S
      <3> QED
        BY <2>1, LeastNat
    <2>3. \A j \in 1 .. k - 1 : j \in 1 .. MaxName /\ ~(k <= j)
      BY <1>1, <2>2
    <2>4. F(k)
      BY <1>1, <2>2, <2>3
    <2> DEFINE c == CHOOSE x \in 1 .. Len(b) : b[x] = NUL /\ \A j \in 1 .. (x - 1) : b[j] # NUL
    <2>5. F(c)
      BY <2>4
    <2>6. Strlen(b) = c - 1
      BY <1>3 DEF Strlen
    <2> HIDE DEF c
    <2> QED
      BY <1>1, <2>5, <2>6
  <1> QED
    BY <1>2, <1>3

LEMMA ShortToNameIs == \A sn \in SNames : ShortToName(sn) \in Seq(Letters)
  <1> SUFFICES ASSUME NEW sn \in SNames PROVE ShortToName(sn) \in Seq(Letters)
    OBVIOUS
  <1>1. sn.base \in Seq(Letters) /\ sn.ext \in Seq(Letters)
    BY DEF SNames
  <1>2. <<>> \in Seq(Letters) /\ <<".">> \in Seq(Letters)
    BY DEF Letters
  <1>3. (IF sn.ext = <<>> THEN <<>> ELSE <<".">> \o sn.ext) \in Seq(Letters)
    BY <1>1, <1>2
  <1> QED
    BY <1>1, <1>3 DEF ShortToName

LEMMA ViewIs ==
  ASSUME NEW st \in ScanStates, NEW e \in Shorts, NEW i \in Nat
  PROVE  View(st, e, i) \in Views
  <1>1. st.buf \in Buffers /\ st.n \in Nat /\ e.sn \in SNames
    BY DEF ScanStates, Shorts
  <1>2. ShortToName(e.sn) \in Seq(Letters)
    BY <1>1, ShortToNameIs
  <1>3. SubSeq(st.buf, 1, Strlen(st.buf)) \in Seq(Letters)
    <2>1. Strlen(st.buf) \in 0 .. MaxName /\ MaxName \in Nat
      BY <1>1, StrlenIs, DirNumbers
    <2>2. st.buf \in Seq(Letters) /\ Len(st.buf) = MaxName
      BY <1>1, <2>1 DEF Buffers
    <2> QED
      BY <2>1, <2>2
  <1> QED
    BY <1>1, <1>2, <1>3 DEF View, Views

LEMMA BlankIs == Blank \in Buffers /\ Unlong \in ScanStates
  <1>1. NUL \in Letters
    BY DEF Letters
  <1>2. Blank \in Buffers
    BY <1>1, DirNumbers DEF Blank, Buffers
  <1>3. <<>> \in Seq(Views)
    OBVIOUS
  <1> QED
    BY <1>2, <1>3 DEF Unlong, ScanStates

LEMMA LfnWriteIs ==
  ASSUME NEW b \in Buffers, NEW e \in Lfns
  PROVE  fat32_lfn_write(b, e) \in Buffers
  <1>1. LfnChars \in Nat /\ MaxName \in Nat /\ e.ord \in Nat /\ e.chars \in [1 .. LfnChars -> Letters]
    BY DirNumbers DEF Lfns
  <1> DEFINE m == (e.ord - 1) * LfnChars
  <1>2. \A k \in 1 .. MaxName : (IF k - m \in 1 .. LfnChars THEN e.chars[k - m] ELSE b[k]) \in Letters
    <2> HIDE DEF m
    <2> QED
      BY <1>1 DEF Buffers
  <1>3. fat32_lfn_write(b, e) = [k \in 1 .. MaxName |-> IF k - m \in 1 .. LfnChars THEN e.chars[k - m] ELSE b[k]]
    BY DEF fat32_lfn_write
  <1> HIDE DEF m
  <1> QED
    BY <1>2, <1>3 DEF Buffers

LEMMA Cleared ==
  ASSUME NEW st \in ScanStates, NEW c, c = [st EXCEPT !.valid = FALSE, !.n = 0]
  PROVE  /\ c \in ScanStates /\ ~c.valid /\ c.n = 0 /\ c.seen = st.seen /\ c.stop = st.stop
  BY DEF ScanStates

LEMMA Fields1 ==
  ASSUME NEW st \in ScanStates
  PROVE  /\ st.buf \in Buffers /\ st.n \in Nat /\ st.seen \in Seq(Views)
         /\ st.valid \in BOOLEAN /\ st.stop \in BOOLEAN
  BY DEF ScanStates

LEMMA CollectIs ==
  ASSUME NEW st \in ScanStates, NEW e \in Lfns
  PROVE  /\ Collect(st, e) \in ScanStates /\ Collect(st, e).stop = st.stop /\ Collect(st, e).seen = st.seen
         /\ Collect(st, e).valid => Collect(st, e).sum = e.sum
         /\ Collect(st, e).n = 0 \/ Collect(st, e).n = st.n + 1 \/ Collect(st, e).n = 1
         /\ e.last => /\ Collect(st, e).valid /\ Collect(st, e).sum = e.sum /\ Collect(st, e).n = 1
                      /\ Collect(st, e).buf = fat32_lfn_write(Blank, e)
         /\ ~e.last /\ st.valid /\ st.sum = e.sum =>
               /\ Collect(st, e).valid /\ Collect(st, e).sum = e.sum /\ Collect(st, e).n = st.n + 1
               /\ Collect(st, e).buf = fat32_lfn_write(st.buf, e)
  <1> DEFINE s1 == IF e.last THEN [st EXCEPT !.buf = Blank, !.valid = TRUE, !.sum = e.sum, !.n = 0] ELSE st
  <1>1. /\ s1 \in ScanStates /\ s1.stop = st.stop /\ s1.seen = st.seen
        /\ e.last => s1.valid /\ s1.sum = e.sum /\ s1.n = 0 /\ s1.buf = Blank
        /\ ~e.last => s1 = st
    BY BlankIs DEF ScanStates, Lfns
  <1>2. Collect(st, e) = IF s1.valid /\ e.sum = s1.sum
                         THEN [s1 EXCEPT !.buf = fat32_lfn_write(s1.buf, e), !.n = s1.n + 1]
                         ELSE [s1 EXCEPT !.valid = FALSE, !.n = 0]
    BY DEF Collect
  <1> HIDE DEF s1
  <1>3. fat32_lfn_write(s1.buf, e) \in Buffers
    BY <1>1, LfnWriteIs DEF ScanStates
  <1>4. CASE s1.valid /\ e.sum = s1.sum
    <2> DEFINE c == [s1 EXCEPT !.buf = fat32_lfn_write(s1.buf, e), !.n = s1.n + 1]
    <2>1. /\ c \in ScanStates /\ c.stop = s1.stop /\ c.seen = s1.seen /\ c.valid = s1.valid
          /\ c.sum = s1.sum /\ c.n = s1.n + 1 /\ c.buf = fat32_lfn_write(s1.buf, e) /\ s1.n \in Nat /\ st.n \in Nat
      <3> HIDE DEF c
      <3>1. s1.n \in Nat /\ s1.n + 1 \in Nat /\ st.n \in Nat
        BY <1>1, Fields1
      <3>2. c = [s1 EXCEPT !.buf = fat32_lfn_write(s1.buf, e), !.n = s1.n + 1]
        BY DEF c
      <3>3. PICK b \in Buffers, m \in Nat : b = fat32_lfn_write(s1.buf, e) /\ m = s1.n + 1
        BY <1>3, <3>1
      <3>4. c = [s1 EXCEPT !.buf = b, !.n = m]
        BY <3>2, <3>3, Zenon
      <3>5. s1 \in ScanStates
        BY <1>1
      <3>6. /\ c \in ScanStates /\ c.buf = b /\ c.n = m /\ c.valid = s1.valid /\ c.sum = s1.sum
            /\ c.seen = s1.seen /\ c.stop = s1.stop
        BY <3>3, <3>4, <3>5 DEF ScanStates
      <3> QED
        BY <3>1, <3>3, <3>6
    <2>2. Collect(st, e) = c
      BY <1>2, <1>4
    <2> HIDE DEF c
    <2>3. e.last => c.n = 1
      BY <1>1, <2>1
    <2>4. ~e.last => c.n = st.n + 1 /\ c.buf = fat32_lfn_write(st.buf, e)
      BY <1>1, <2>1
    <2> QED
      BY <1>1, <1>4, <2>1, <2>2, <2>3, <2>4
  <1>5. CASE ~(s1.valid /\ e.sum = s1.sum)
    <2>1. Collect(st, e) = [s1 EXCEPT !.valid = FALSE, !.n = 0]
      BY <1>2, <1>5
    <2>2. ~e.last
      BY <1>1, <1>5
    <2> QED
      BY <1>1, <1>5, <2>1, <2>2, Cleared
  <1> QED
    BY <1>4, <1>5

\* What each kind of entry does to a scan that goes on.
Scanned(st, e, i, new) ==
  /\ new \in ScanStates
  /\ st.stop => new = st
  /\ ~st.stop => /\ new.stop <=> e.k = "end"
                 /\ e.k \in {"del", "short"} => ~new.valid /\ new.n = 0
                 /\ e.k = "lfn" => new = Collect(st, e)
                 /\ e.k = "short" => new.seen = Append(st.seen, View(st, e, i))
                 /\ e.k # "short" => new.seen = st.seen

LEMMA ScanStep ==
  ASSUME NEW st \in ScanStates, NEW e \in DirEntries, NEW i \in Nat
  PROVE  Scanned(st, e, i, Scan(st, e, i))
  <1>1. CASE st.stop
    BY <1>1 DEF Scan, Scanned
  <1>2. CASE ~st.stop /\ e.k = "end"
    <2>1. Scan(st, e, i) = [st EXCEPT !.stop = TRUE]
      BY <1>2 DEF Scan
    <2> QED
      BY <1>2, <2>1 DEF Scanned, ScanStates
  <1>3. CASE ~st.stop /\ e.k = "del"
    <2>1. Scan(st, e, i) = [st EXCEPT !.valid = FALSE, !.n = 0]
      BY <1>3 DEF Scan
    <2> QED
      BY <1>3, <2>1, Cleared DEF Scanned
  <1>4. CASE ~st.stop /\ e.k = "lfn"
    <2>1. Scan(st, e, i) = Collect(st, e)
      BY <1>4 DEF Scan
    <2>2. Collect(st, e) \in ScanStates /\ Collect(st, e).stop = st.stop /\ Collect(st, e).seen = st.seen
      BY <1>4, Kinds, CollectIs
    <2>3. st.stop \in BOOLEAN
      BY DEF ScanStates
    <2> QED
      BY <1>4, <2>1, <2>2, <2>3 DEF Scanned
  <1>5. CASE ~st.stop /\ e.k = "short"
    <2> DEFINE v == View(st, e, i)
    <2>1. Scan(st, e, i) = [st EXCEPT !.valid = FALSE, !.n = 0, !.seen = Append(st.seen, v)]
      BY <1>5 DEF Scan
    <2>2. Append(st.seen, v) \in Seq(Views)
      <3>1. v \in Views /\ st.seen \in Seq(Views)
        BY <1>5, Kinds, ViewIs DEF ScanStates
      <3> HIDE DEF v
      <3> QED
        BY <3>1
    <2> HIDE DEF v
    <2> DEFINE L == Append(st.seen, v)
    <2>3. L \in Seq(Views)
      BY <2>2
    <2>4. Scan(st, e, i) = [st EXCEPT !.valid = FALSE, !.n = 0, !.seen = L]
      BY <2>1
    <2> HIDE DEF L
    <2>5. PICK c : c = Scan(st, e, i)
      OBVIOUS
    <2>6. c \in ScanStates /\ ~c.valid /\ c.n = 0 /\ c.seen = L /\ c.stop = st.stop
      <3> HIDE DEF L
      <3>1. c = [st EXCEPT !.valid = FALSE, !.n = 0, !.seen = L]
        BY <2>4, <2>5
      <3> QED
        BY <2>3, <3>1 DEF ScanStates
    <2>7. c.seen = Append(st.seen, View(st, e, i))
      BY <2>6 DEF L, v
    <2> QED
      BY <1>5, <2>5, <2>6, <2>7 DEF Scanned
  <1> QED
    BY <1>1, <1>2, <1>3, <1>4, <1>5, Kinds

\* f goes along the entries: f[i] is the scan after i of them.
ScanOf(f, s) ==
  /\ f \in [0 .. Len(s) -> ScanStates] /\ f[0] = Unlong
  /\ \A i \in 1 .. Len(s) : f[i] = Scan(f[i - 1], s[i], i)

LEMMA ScanExists ==
  ASSUME slots \in Seq(DirEntries)
  PROVE  \E f : ScanOf(f, slots) /\ fat32_iter_dir = f[Len(slots)].seen
  <1> DEFINE n == Len(slots)
             S == ScanStates
             G == [q \in (1 .. n) \X S |-> Scan(q[2], slots[q[1]], q[1])]
             Rec(g) == [i \in 0 .. Len(slots) |-> IF i = 0 THEN Unlong ELSE Scan(g[i - 1], slots[i], i)]
             at == CHOOSE g : g = Rec(g)
  <1>0. n \in Nat /\ \A i \in 1 .. n : i \in Nat /\ slots[i] \in DirEntries
    OBVIOUS
  <1>1. fat32_iter_dir = at[n].seen
    BY DEF fat32_iter_dir
  <1>2. G \in [(1 .. n) \X S -> S] /\ Unlong \in S
    <2>1. ASSUME NEW q \in (1 .. n) \X S PROVE Scan(q[2], slots[q[1]], q[1]) \in S
      <3>1. q[1] \in 1 .. n /\ q[2] \in S
        OBVIOUS
      <3> HIDE DEF n
      <3> QED
        BY <1>0, <3>1, ScanStep DEF Scanned
    <2> HIDE DEF S, n
    <2> QED
      BY <2>1, BlankIs DEF S
  <1>3. \A i \in 1 .. n, u \in S : G[<<i, u>>] = Scan(u, slots[i], i)
    <2> HIDE DEF S, n
    <2> QED
      OBVIOUS
  <1>4. PICK f : Follows(f, S, G, Unlong, n)
    <2> HIDE DEF S, G, n
    <2> QED
      BY <1>0, <1>2, Iterate
  <1>5. f \in [0 .. n -> S] /\ f[0] = Unlong /\ \A i \in 1 .. n : f[i] = Scan(f[i - 1], slots[i], i)
    <2>1. f \in [0 .. n -> S] /\ f[0] = Unlong /\ \A i \in 1 .. n : f[i] = G[<<i, f[i - 1]>>]
      <3> HIDE DEF S, G, n
      <3> QED
        BY <1>4 DEF Follows
    <2>2. \A i \in 1 .. n : i - 1 \in 0 .. n
      BY <1>0
    <2> HIDE DEF S, G, n
    <2> QED
      BY <1>3, <2>1, <2>2
  <1>6. f = Rec(f)
    <2>1. \A i \in 0 .. n : i = 0 \/ i \in 1 .. n
      BY <1>0
    <2>2. \A i \in 0 .. n : f[i] = IF i = 0 THEN Unlong ELSE Scan(f[i - 1], slots[i], i)
      <3> HIDE DEF S, G, n
      <3> QED
        BY <1>5, <2>1
    <2> HIDE DEF S, G
    <2> QED
      BY <1>5, <2>2
  <1>7. at = Rec(at)
    <2> HIDE DEF Rec
    <2> QED
      BY <1>6
  <1>8. ASSUME NEW i \in 0 .. n PROVE at[i] = IF i = 0 THEN Unlong ELSE Scan(at[i - 1], slots[i], i)
    <2> HIDE DEF at
    <2> QED
      BY <1>7
  <1>a. DOMAIN at = 0 .. n
    <2>1. DOMAIN Rec(at) = 0 .. n
      OBVIOUS
    <2> HIDE DEF at, Rec
    <2> QED
      BY <1>7, <2>1
  <1> HIDE DEF at, Rec, G
  <1> DEFINE P == {i \in Nat : i <= n => at[i] \in S}
  <1>9. \A i \in 0 .. n : i \in P
    <2>1. 0 \in P
      BY <1>0, <1>2, <1>8
    <2>2. ASSUME NEW i \in 0 .. n - 1, i \in P PROVE i + 1 \in P
      <3>1. i + 1 \in 1 .. n /\ i + 1 \in 0 .. n /\ i + 1 # 0 /\ (i + 1) - 1 = i /\ i <= n /\ i + 1 \in Nat
        BY <1>0
      <3>2. at[i] \in S /\ slots[i + 1] \in DirEntries /\ at[i + 1] = Scan(at[i], slots[i + 1], i + 1)
        BY <1>0, <1>8, <2>2, <3>1
      <3>3. at[i + 1] \in S
        BY <3>1, <3>2, ScanStep DEF Scanned
      <3> QED
        BY <3>1, <3>3
    <2>3. P \in SUBSET Nat
      OBVIOUS
    <2> HIDE DEF P, n
    <2> QED
      BY <1>0, <2>1, <2>2, <2>3, InductionUpTo
  <1>10. ScanOf(at, slots)
    <2>1. \A i \in 0 .. n : at[i] \in S
      BY <1>9
    <2>2. at = [i \in 0 .. n |-> at[i]]
      BY <1>7, <1>a DEF Rec
    <2>3. at \in [0 .. n -> S]
      BY <2>1, <2>2
    <2>4. \A i \in 1 .. n : i \in 0 .. n /\ i # 0
      BY <1>0
    <2>5. at[0] = Unlong
      BY <1>0, <1>8
    <2>6. \A i \in 1 .. n : at[i] = Scan(at[i - 1], slots[i], i)
      BY <1>8, <2>4
    <2> QED
      BY <2>3, <2>5, <2>6 DEF ScanOf
  <1> QED
    BY <1>1, <1>10

NoEnd(s, i) == \A j \in 1 .. i : s[j].k # "end"
Shows(f, s, v, i) ==
  /\ v \in Views /\ v.at \in 1 .. i /\ s[v.at].k = "short" /\ NoEnd(s, v.at)
  /\ v = View(f[v.at - 1], s[v.at], v.at)
Upto(L, f, s, i) ==
  /\ \A k \in 1 .. Len(L) : Shows(f, s, L[k], i)
  /\ \A k, l \in 1 .. Len(L) : k < l => L[k].at < L[l].at
  /\ \A j \in 1 .. i : s[j].k = "short" /\ NoEnd(s, j) => \E k \in 1 .. Len(L) : L[k].at = j
State(st, s, i) ==
  /\ st \in ScanStates /\ (st.stop <=> ~NoEnd(s, i))
  /\ ~st.stop => /\ st.valid => i >= 1 /\ s[i].k = "lfn" /\ s[i].sum = st.sum
                 /\ st.n <= i /\ \A j \in 1 .. i : i - st.n < j => s[j].k = "lfn"

(***************************************************************************)
(* Append, read by index: the new element is the last one and the others    *)
(* keep their places.                                                       *)
(***************************************************************************)
LEMMA Appended ==
  ASSUME NEW S, NEW L \in Seq(S), NEW v \in S
  PROVE  /\ Append(L, v) \in Seq(S) /\ Len(Append(L, v)) = Len(L) + 1 /\ Len(L) \in Nat
         /\ Append(L, v)[Len(L) + 1] = v
         /\ \A k \in 1 .. Len(L) : Append(L, v)[k] = L[k] /\ k \in 1 .. Len(Append(L, v))
         /\ \A k \in 1 .. Len(Append(L, v)) : k = Len(L) + 1 \/ k \in 1 .. Len(L)
  <1>1. Append(L, v) \in Seq(S) /\ Len(Append(L, v)) = Len(L) + 1 /\ Len(L) \in Nat
    OBVIOUS
  <1>2. Append(L, v)[Len(L) + 1] = v
    OBVIOUS
  <1>3. \A k \in 1 .. Len(L) : Append(L, v)[k] = L[k]
    OBVIOUS
  <1>4. \A k \in 1 .. Len(L) : k \in 1 .. Len(L) + 1
    BY <1>1
  <1>5. \A k \in 1 .. Len(L) + 1 : k = Len(L) + 1 \/ k \in 1 .. Len(L)
    BY <1>1
  <1> QED
    BY <1>1, <1>2, <1>3, <1>4, <1>5

LEMMA ScannedOn ==
  ASSUME NEW s \in Seq(DirEntries), NEW f, ScanOf(f, s), NEW i \in 0 .. Len(s) - 1, NEW m, m = i + 1,
         State(f[i], s, i), Upto(f[i].seen, f, s, i)
  PROVE  State(f[m], s, m) /\ Upto(f[m].seen, f, s, m)
  <1> DEFINE st == f[i]
             e == s[m]
             L == st.seen
             v == View(st, e, m)
  <1>1. /\ i \in Nat /\ m \in Nat /\ m \in 1 .. Len(s) /\ m - 1 = i /\ st \in ScanStates /\ e \in DirEntries
        /\ \A j \in 1 .. m : j = m \/ j \in 1 .. i
        /\ \A j \in 1 .. i : j \in 1 .. m /\ j < m
    BY DEF ScanOf
  <1>2. f[m] = Scan(st, e, m)
    BY <1>1 DEF ScanOf
  <1>3. Scanned(st, e, m, f[m])
    BY <1>1, <1>2, ScanStep
  <1>4. NoEnd(s, m) <=> NoEnd(s, i) /\ e.k # "end"
    BY <1>1 DEF NoEnd
  <1>5. L \in Seq(Views) /\ st.n \in Nat /\ st.stop \in BOOLEAN
    BY <1>1, Fields1
  <1>6. f[m] \in ScanStates /\ (f[m].stop <=> ~NoEnd(s, m))
    BY <1>3, <1>4, <1>5 DEF Scanned, State
  <1>7. ASSUME ~f[m].stop, f[m].valid PROVE m >= 1 /\ s[m].k = "lfn" /\ s[m].sum = f[m].sum
    <2>1. ~st.stop /\ e.k # "end"
      BY <1>4, <1>6, <1>7 DEF State
    <2>2. e.k = "lfn" /\ f[m] = Collect(st, e)
      BY <1>1, <1>3, <1>7, <2>1, Kinds DEF Scanned
    <2>3. Collect(st, e).valid => Collect(st, e).sum = e.sum
      BY <1>1, <2>2, Kinds, CollectIs
    <2> QED
      BY <1>1, <1>7, <2>2, <2>3
  <1>8. ASSUME ~f[m].stop PROVE f[m].n <= m /\ \A j \in 1 .. m : m - f[m].n < j => s[j].k = "lfn"
    <2>1. ~st.stop /\ e.k # "end"
      BY <1>4, <1>6, <1>8 DEF State
    <2>2. CASE e.k # "lfn"
      <3>1. f[m].n = 0
        BY <1>1, <1>3, <2>1, <2>2, Kinds DEF Scanned
      <3> QED
        BY <1>1, <3>1
    <2>3. CASE e.k = "lfn"
      <3>1. f[m] = Collect(st, e) /\ e \in Lfns
        BY <1>1, <1>3, <2>1, <2>3, Kinds DEF Scanned
      <3>2. f[m].n = 0 \/ f[m].n = st.n + 1 \/ f[m].n = 1
        BY <1>1, <3>1, CollectIs
      <3>3. st.n <= i /\ \A j \in 1 .. i : i - st.n < j => s[j].k = "lfn"
        BY <2>1 DEF State
      <3>4. f[m].n <= m
        BY <1>1, <1>5, <3>2, <3>3
      <3>5. ASSUME NEW j \in 1 .. m, m - f[m].n < j PROVE s[j].k = "lfn"
        <4>1. CASE j = m
          BY <2>3, <4>1
        <4>2. CASE j # m
          <5>1. j \in 1 .. i
            BY <1>1, <4>2
          <5>2. f[m].n = st.n + 1
            BY <1>1, <1>5, <3>2, <3>5, <5>1
          <5>3. i - st.n < j
            BY <1>1, <1>5, <3>5, <5>1, <5>2
          <5> QED
            BY <3>3, <5>1, <5>3
        <4> QED
          BY <4>1, <4>2
      <3> QED
        BY <3>4, <3>5
    <2> QED
      BY <2>2, <2>3
  <1>9. State(f[m], s, m)
    BY <1>6, <1>7, <1>8 DEF State
  <1>10. ASSUME NEW w, Shows(f, s, w, i) PROVE Shows(f, s, w, m) /\ w.at < m
    BY <1>1, <1>10 DEF Shows
  <1>11. CASE st.stop \/ e.k # "short"
    <2>1. f[m].seen = L
      BY <1>3, <1>11 DEF Scanned
    <2>2. ASSUME NEW j \in 1 .. m, s[j].k = "short", NoEnd(s, j) PROVE j \in 1 .. i
      <3>1. CASE j = m
        <4>1. NoEnd(s, i) /\ e.k = "short"
          BY <1>4, <2>2, <3>1
        <4> QED
          BY <1>11, <4>1 DEF State
      <3> QED
        BY <1>1, <3>1
    <2>3. Upto(L, f, s, m)
      BY <1>10, <2>2 DEF Upto
    <2> QED
      BY <1>9, <2>1, <2>3
  <1>12. CASE ~st.stop /\ e.k = "short"
    <2>1. f[m].seen = Append(L, v) /\ v \in Views
      BY <1>1, <1>3, <1>12, Kinds, ViewIs DEF Scanned
    <2>2. v.at = m /\ NoEnd(s, m)
      BY <1>4, <1>12 DEF State, View
    <2>3. Shows(f, s, v, m)
      BY <1>1, <1>12, <2>1, <2>2 DEF Shows
    <2> HIDE DEF v, L
    <2> DEFINE K == Append(L, v)
    <2>4. /\ K \in Seq(Views) /\ Len(K) = Len(L) + 1 /\ Len(L) \in Nat /\ K[Len(L) + 1] = v
          /\ \A k \in 1 .. Len(L) : K[k] = L[k] /\ k \in 1 .. Len(K)
          /\ \A k \in 1 .. Len(K) : k = Len(L) + 1 \/ k \in 1 .. Len(L)
      <3>1. L \in Seq(Views)
        BY <1>5 DEF L
      <3> QED
        BY <2>1, <3>1, Appended
    <2> HIDE DEF K
    <2>5. /\ \A k \in 1 .. Len(L) : Shows(f, s, L[k], m) /\ L[k].at < m
          /\ \A k, l \in 1 .. Len(L) : k < l => L[k].at < L[l].at
          /\ \A j \in 1 .. i : s[j].k = "short" /\ NoEnd(s, j) => \E k \in 1 .. Len(L) : L[k].at = j
      BY <1>10 DEF Upto, L
    <2>6. \A k \in 1 .. Len(K) : Shows(f, s, K[k], m)
      BY <2>3, <2>4, <2>5
    <2>7. ASSUME NEW k \in 1 .. Len(K), NEW l \in 1 .. Len(K), k < l PROVE K[k].at < K[l].at
      <3>1. k \in 1 .. Len(L) /\ K[k] = L[k]
        BY <2>4, <2>7
      <3>2. CASE l = Len(L) + 1
        BY <2>2, <2>4, <2>5, <3>1, <3>2
      <3>3. CASE l \in 1 .. Len(L)
        BY <2>4, <2>5, <2>7, <3>1, <3>3
      <3> QED
        BY <2>4, <3>2, <3>3
    <2>8. ASSUME NEW j \in 1 .. m, s[j].k = "short", NoEnd(s, j) PROVE \E k \in 1 .. Len(K) : K[k].at = j
      <3>1. CASE j = m
        <4>1. Len(L) + 1 \in 1 .. Len(K)
          BY <2>4
        <4> QED
          BY <2>2, <2>4, <3>1, <4>1
      <3>2. CASE j # m
        <4>1. j \in 1 .. i
          BY <1>1, <3>2
        <4>2. PICK k \in 1 .. Len(L) : L[k].at = j
          BY <2>5, <2>8, <4>1
        <4> QED
          BY <2>4, <4>2
      <3> QED
        BY <3>1, <3>2
    <2>9. Upto(K, f, s, m)
      BY <2>6, <2>7, <2>8 DEF Upto
    <2> QED
      BY <1>9, <2>1, <2>9 DEF K
  <1> QED
    BY <1>11, <1>12

LEMMA ScanIs ==
  ASSUME slots \in Seq(DirEntries)
  PROVE  \E f : /\ ScanOf(f, slots) /\ Upto(fat32_iter_dir, f, slots, Len(slots))
                /\ fat32_iter_dir \in Seq(Views)
                /\ \A i \in 0 .. Len(slots) : State(f[i], slots, i)
  <1> DEFINE n == Len(slots)
  <1>1. PICK f : ScanOf(f, slots) /\ fat32_iter_dir = f[n].seen
    BY ScanExists
  <1> DEFINE P == {i \in Nat : i <= n => State(f[i], slots, i) /\ Upto(f[i].seen, f, slots, i)}
  <1>2. n \in Nat /\ 0 \in 0 .. n /\ n \in 0 .. n
    OBVIOUS
  <1>3. 0 \in P
    <2>1. f[0] = Unlong /\ Unlong \in ScanStates
      BY <1>1, BlankIs DEF ScanOf
    <2>2. Unlong.n = 0 /\ Unlong.seen = <<>> /\ ~Unlong.stop /\ ~Unlong.valid
      BY DEF Unlong
    <2>3. State(f[0], slots, 0)
      BY <2>1, <2>2 DEF State, NoEnd
    <2>4. Upto(f[0].seen, f, slots, 0)
      BY <2>1, <2>2 DEF Upto
    <2> QED
      BY <2>3, <2>4
  <1>4. ASSUME NEW i \in 0 .. n - 1, i \in P PROVE i + 1 \in P
    <2>1. i <= n /\ i + 1 \in Nat
      BY <1>2
    <2>2. State(f[i], slots, i) /\ Upto(f[i].seen, f, slots, i)
      BY <1>4, <2>1
    <2>3. State(f[i + 1], slots, i + 1) /\ Upto(f[i + 1].seen, f, slots, i + 1)
      BY <1>1, <2>2, ScannedOn
    <2> QED
      BY <2>1, <2>3
  <1>5. \A i \in 0 .. n : i \in P
    <2>1. P \in SUBSET Nat
      OBVIOUS
    <2> HIDE DEF P, n
    <2> QED
      BY <1>2, <1>3, <1>4, <2>1, InductionUpTo
  <1>6. \A i \in 0 .. n : State(f[i], slots, i) /\ Upto(f[i].seen, f, slots, i)
    BY <1>5
  <1>7. f[n] \in ScanStates
    BY <1>2, <1>6 DEF State
  <1> QED
    BY <1>1, <1>2, <1>6, <1>7, Fields1

-----------------------------------------------------------------------------
(* What holds of the directory whatever has happened to it. *)

Writes == [t : {"fat"}, c : Clusters, v : BOOLEAN] \cup [t : {"zero"}, c : Clusters]
          \cup [t : {"dot"}, c : Clusters, n : 0 .. 2] \cup {Link}
          \cup [t : {"put"}, i : Nat \ {0}, e : DirEntries \ {End}]
Files == [name : Seq(Letters), id : Nat, sn : SNames, dir : BOOLEAN, cluster : {0} \cup Clusters]
Ops == {NoOp} \cup [kind : {"grow"}, begun : BOOLEAN, sn : SNames]
       \cup [kind : {"create"}, begun : BOOLEAN, sn : SNames, file : Files]
       \cup [kind : {"write", "truncate"}, begun : BOOLEAN, sn : SNames, id : Nat, cluster : {0} \cup Clusters]
       \cup [kind : {"unlink"}, begun : BOOLEAN, sn : SNames, id : Nat]

DirTyped ==
  /\ slots \in Seq(DirEntries) /\ \E q \in Nat : Len(slots) = PerCluster * q
  /\ \A i \in DOMAIN slots : slots[i].k = "short" => slots[i].cluster \in {0} \cup Clusters
  /\ fat \in [Clusters -> BOOLEAN] /\ dots \in [Clusters -> 0 .. 2]
  /\ todo \in Seq(Writes) /\ op \in Ops /\ (todo = <<>> <=> op = NoOp)
  /\ files \subseteq Files /\ hurt \subseteq SNames /\ touched \in BOOLEAN
  /\ count \in [file : Nat, crash : Nat]

PutAt(k) == k \in DOMAIN todo /\ todo[k].t = "put"

\* No entry lies behind the end, and the writes to come keep it so.
Packed ==
  /\ \A i, j \in DOMAIN slots : i < j /\ slots[i] = End => slots[j] = End
  /\ \A k \in DOMAIN todo : PutAt(k) =>
       \A j \in 1 .. todo[k].i - 1 :
         \/ j \in DOMAIN slots /\ slots[j] # End
         \/ \E l \in 1 .. k - 1 : PutAt(l) /\ todo[l].i = j

\* The r clusters still to be linked are linked before an entry is written, one
\* every three writes, and there is room for every entry when they are.
Roomy ==
  \E r \in Nat, m \in Nat :
    /\ \A k \in DOMAIN todo : todo[k].t = "link" <=> \E q \in 0 .. r - 1 : k = m - 3 * q
    /\ \A q \in 0 .. r - 1 : m - 3 * q \in DOMAIN todo
    /\ \A k \in DOMAIN todo : PutAt(k) => k > m /\ todo[k].i <= Len(slots) + PerCluster * r

\* Short names and the numbers of files are in one entry each, and stay so.
Distinct ==
  /\ \A i, j \in DOMAIN slots : slots[i].k = "short" /\ slots[j].k = "short" /\ i # j =>
       slots[i].sn # slots[j].sn /\ slots[i].id # slots[j].id
  /\ \A i \in DOMAIN slots : slots[i].k = "short" => slots[i].id <= count.file
  /\ \A k \in DOMAIN todo : PutAt(k) /\ todo[k].e.k = "short" =>
       /\ todo[k].e.id <= count.file /\ k = Len(todo) /\ todo[k].e.cluster \in {0} \cup Clusters
       /\ \A j \in DOMAIN slots : slots[j].k = "short" /\ j # todo[k].i =>
            slots[j].sn # todo[k].e.sn /\ slots[j].id # todo[k].e.id
  /\ \A f, g \in files : f.id = g.id => f = g
  /\ \A f \in files : f.id <= count.file
  /\ op.kind = "create" => op.file.id <= count.file /\ \A f \in files : f.id # op.file.id

DirBasics == DirTyped /\ Packed /\ Roomy /\ Distinct

-----------------------------------------------------------------------------
(* What holds of every file that no crash has hurt. *)

Places == Nat \ {0}
NameOf(e) == CASE e.k = "lfn" -> <<e.of>> [] e.k = "short" -> <<e.sn>> [] OTHER -> <<>>

\* The entries on the disk, and as they will be when the call has returned.
Now == [i \in Places |-> IF i \in DOMAIN slots THEN slots[i] ELSE End]
After(W, N) ==
  [i \in Places |-> IF \E k \in DOMAIN W : W[k].t = "put" /\ W[k].i = i
                    THEN W[CHOOSE k \in DOMAIN W : W[k].t = "put" /\ W[k].i = i].e ELSE N[i]]
Final == After(todo, Now)

\* The short entry of file f is at a, behind the n long-name entries of f, and no
\* other entry has that short name or was written for it.
Want(f, a, n, i) ==
  IF i = a THEN Short(f.sn, f.id, f.dir, f.cluster)
  ELSE fat32_fill_lfn_entry(f.name, a - i, i = a - n, f.sn)
LongName(name) == Len(name) \in 1 .. MaxName /\ \A k \in 1 .. Len(name) : name[k] # NUL
Home(S, f, a, n) ==
  /\ n < a /\ \A i \in Places : NameOf(S[i]) = <<f.sn>> <=> i \in a - n .. a
  /\ \A i \in a - n .. a : S[i] = Want(f, a, n, i)
  /\ \/ n = 0 /\ f.name = ShortToName(f.sn)
     \/ n = CeilDiv(Len(f.name), LfnChars) /\ LongName(f.name)

\* S holds the file of F with short name s, if there is one, and nothing of
\* another.
Right(S, F, s) ==
  /\ \A f \in F : f.sn = s => \E a \in Places, n \in Nat : Home(S, f, a, n)
  /\ \A f, g \in F : f.sn = s /\ g.sn = s => f = g
  /\ \A i \in Places : NameOf(S[i]) = <<s>> => \E f \in F : f.sn = s

\* The short names whose entries a crash has left, or would leave now, half done.
Exempt(s) == s \in hurt \/ (todo # <<>> /\ Cuts /\ s = op.sn)

FatEnd(c) == /\ fat[c] \/ \E k \in DOMAIN todo : todo[k] = Fat(c, TRUE)
             /\ \A k \in DOMAIN todo : todo[k] # Fat(c, FALSE)
DotsLeft(k, c) == \A j \in DOMAIN todo : j > k /\ todo[j].t \in {"zero", "dot"} => todo[j].c # c
DotEnd(c) == (dots[c] = 2 /\ DotsLeft(0, c)) \/ \E k \in DOMAIN todo : todo[k] = Dot(c, 2) /\ DotsLeft(k, c)

NowRight == \A s \in SNames : ~Exempt(s) => Right(Now, files, s)
NowClusters ==
  \A f \in files : ~Exempt(f.sn) /\ f.cluster # 0 =>
    /\ fat[f.cluster] /\ (f.dir => dots[f.cluster] = 2)
    /\ \A g \in files : ~Exempt(g.sn) /\ g.cluster = f.cluster => g = f

\* The writes to come are about one short name, and complete what it stands for.
OwnCall ==
  /\ op.sn \notin hurt
  /\ op.kind \in {"write", "truncate", "unlink"} => \A f \in files : f.id = op.id => f.sn = op.sn
  /\ op.kind = "create" => op.file.sn = op.sn
OwnEntries ==
  /\ \A k, l \in DOMAIN todo : PutAt(k) /\ PutAt(l) /\ todo[k].i = todo[l].i => k = l
  /\ \A k \in DOMAIN todo : PutAt(k) =>
       /\ NameOf(todo[k].e) \in {<<>>, <<op.sn>>}
       /\ NameOf(Now[todo[k].i]) \in {<<>>, <<op.sn>>} \cup {<<h>> : h \in hurt}
       /\ op.kind \in {"create", "unlink"} \/ k = Len(todo)
OwnClusters ==
  \A k \in DOMAIN todo : todo[k].t \in {"fat", "zero", "dot"} =>
    \A f \in files : f.sn \notin hurt /\ f.cluster = todo[k].c =>
      f.sn = op.sn /\ op.kind \in {"truncate", "unlink"}
EndClusters ==
  \A f \in Returned : f.sn = op.sn /\ f.cluster # 0 =>
    /\ FatEnd(f.cluster) /\ (f.dir => DotEnd(f.cluster))
    /\ \A g \in files : g.sn \notin hurt /\ g.sn # op.sn => g.cluster # f.cluster
OwnWrites == OwnCall /\ OwnEntries /\ OwnClusters
EndRight == Right(Final, Returned, op.sn) /\ EndClusters

DirInv ==
  /\ DirBasics
  /\ count.crash = 0 => hurt = {} /\ ~touched
  /\ ~touched => NowRight /\ NowClusters /\ (todo # <<>> => OwnWrites /\ EndRight)

-----------------------------------------------------------------------------
(* Arithmetic of clusters and of long-name entries. *)

LEMMA CeilIs ==
  ASSUME NEW a \in Nat, NEW b \in Nat \ {0}
  PROVE  CeilDiv(a, b) \in Nat /\ CeilDiv(a, b) * b >= a /\ (a # 0 => CeilDiv(a, b) # 0)
  <1> DEFINE q == CeilDiv(a, b)
             x == a + b - 1
  <1>1. x \in Nat /\ q = x \div b
    BY DEF CeilDiv
  <1>2. x = b * (x \div b) + (x % b) /\ x % b \in 0 .. b - 1 /\ x \div b \in Int
    BY <1>1
  <1>3. q \in Int /\ b * q = x - (x % b) /\ b * q > x - b /\ b * q = q * b
    BY <1>1, <1>2
  <1>4. b * q >= a
    BY <1>2, <1>3
  <1>5. q \in Nat
    <2>1. CASE q < 0
      <3>1. b * q <= -b
        BY <1>3, <2>1
      <3>2. -b < 0 /\ b * q \in Int
        BY <1>3
      <3> HIDE DEF q
      <3> QED
        BY <1>4, <3>1, <3>2
    <2> QED
      BY <1>3, <2>1
  <1> QED
    BY <1>3, <1>4, <1>5

LEMMA MultipleIs ==
  ASSUME NEW q \in Nat, NEW b \in Nat \ {0}
  PROVE  (b * q) % b = 0 /\ b * (q + 1) = b * q + b
  OBVIOUS

-----------------------------------------------------------------------------
(* What an iteration sees. *)

EndsLast == \A i, j \in DOMAIN slots : i < j /\ slots[i] = End => slots[j] = End
SeenAt(v) ==
  /\ v \in Views /\ v.at \in DOMAIN slots /\ v.e = slots[v.at] /\ v.e \in Shorts
  /\ v.lfn < v.at /\ \A j \in 1 .. v.lfn : slots[v.at - j].k = "lfn"
Sees(seen) ==
  /\ seen \in Seq(Views) /\ \A k \in DOMAIN seen : SeenAt(seen[k])
  /\ \A k, l \in DOMAIN seen : k # l => seen[k].at # seen[l].at
  /\ \A i \in DOMAIN slots : slots[i].k = "short" => \E k \in DOMAIN seen : seen[k].at = i

LEMMA SeenIs ==
  ASSUME slots \in Seq(DirEntries), EndsLast
  PROVE  Sees(fat32_iter_dir)
  <1> DEFINE L == fat32_iter_dir
             n == Len(slots)
  <1>1. PICK f : /\ ScanOf(f, slots) /\ Upto(L, f, slots, n) /\ L \in Seq(Views)
                 /\ \A i \in 0 .. n : State(f[i], slots, i)
    BY ScanIs
  <1> HIDE DEF L
  <1>2. n \in Nat /\ DOMAIN slots = 1 .. n /\ DOMAIN L = 1 .. Len(L) /\ \A i \in 1 .. n : slots[i] \in DirEntries
    BY <1>1
  <1>3. ASSUME NEW k \in DOMAIN L PROVE SeenAt(L[k])
    <2> DEFINE v == L[k]
               p == v.at - 1
               st == f[p]
               e == slots[v.at]
    <2>1. v \in Views /\ v.at \in 1 .. n /\ e.k = "short" /\ NoEnd(slots, v.at) /\ v = View(st, e, v.at)
      BY <1>1, <1>2, <1>3 DEF Upto, Shows
    <2>2. p \in 0 .. n /\ e \in Shorts /\ \A j \in 1 .. p : j \in 1 .. v.at
      BY <1>2, <2>1, Kinds
    <2>3. State(st, slots, p) /\ st \in ScanStates
      BY <1>1, <2>2 DEF State
    <2>4. NoEnd(slots, p)
      BY <2>1, <2>2 DEF NoEnd
    <2>5. v.lfn = st.n /\ v.e = e
      <3> HIDE DEF v, st, e
      <3> QED
        BY <2>1 DEF View
    <2>6. st.n \in Nat /\ st.n <= p /\ \A j \in 1 .. p : p - st.n < j => slots[j].k = "lfn"
      BY <2>3, <2>4, Fields1 DEF State
    <2> HIDE DEF v, st, e
    <2>7. ASSUME NEW j \in 1 .. v.lfn PROVE slots[v.at - j].k = "lfn"
      <3>1. v.at - j \in 1 .. p /\ p - st.n < v.at - j
        BY <2>1, <2>2, <2>5, <2>6
      <3> QED
        BY <2>6, <3>1
    <2>8. v.lfn < v.at
      BY <2>1, <2>2, <2>5, <2>6
    <2> QED
      BY <1>2, <2>1, <2>2, <2>5, <2>7, <2>8 DEF SeenAt, v, e
  <1>4. ASSUME NEW k \in DOMAIN L, NEW l \in DOMAIN L, k # l PROVE L[k].at # L[l].at
    <2>1. L[k].at \in Nat /\ L[l].at \in Nat /\ (k < l \/ l < k)
      BY <1>1, <1>2, <1>3, <1>4 DEF Views, SeenAt
    <2>2. (k < l => L[k].at < L[l].at) /\ (l < k => L[l].at < L[k].at)
      BY <1>1, <1>2 DEF Upto
    <2> QED
      BY <2>1, <2>2
  <1>5. ASSUME NEW i \in DOMAIN slots, slots[i].k = "short" PROVE \E k \in DOMAIN L : L[k].at = i
    <2>1. ASSUME NEW j \in 1 .. i, slots[j].k = "end" PROVE FALSE
      <3>1. j \in DOMAIN slots /\ slots[j] = End
        BY <1>2, <2>1, Kinds
      <3>2. slots[i] # End /\ j # i
        BY <1>5, <2>1 DEF End
      <3> QED
        BY <1>2, <3>1, <3>2 DEF EndsLast
    <2>2. NoEnd(slots, i)
      BY <2>1 DEF NoEnd
    <2> QED
      BY <1>1, <1>2, <1>5, <2>2 DEF Upto
  <1> QED
    BY <1>1, <1>3, <1>4, <1>5 DEF Sees, L

\* The part of a long name that is collected when its last t parts have been seen.
Part(name, n, t) ==
  [k \in 1 .. MaxName |-> IF k > (n - t) * LfnChars THEN LfnChar(name, k) ELSE NUL]

LEMMA LfnCharIs ==
  ASSUME NEW name \in Seq(Letters), NEW k \in Nat \ {0}
  PROVE  LfnChar(name, k) \in Letters
  <1>1. NUL \in Letters
    BY DEF Letters
  <1>2. k <= Len(name) => name[k] \in Letters
    OBVIOUS
  <1> QED
    BY <1>1, <1>2 DEF LfnChar

LEMMA FillIs ==
  ASSUME NEW name \in Seq(Letters), NEW sn \in SNames, NEW o \in Nat \ {0}, NEW last \in BOOLEAN
  PROVE  LET e == fat32_fill_lfn_entry(name, o, last, sn)
         IN  /\ e \in Lfns /\ e.sum = fat32_lfn_checksum(sn) /\ e.of = sn /\ e.ord = o /\ e.last = last
             /\ \A i \in 1 .. LfnChars : e.chars[i] = LfnChar(name, (o - 1) * LfnChars + i)
  <1> DEFINE e == fat32_fill_lfn_entry(name, o, last, sn)
             C == [i \in 1 .. LfnChars |-> LfnChar(name, (o - 1) * LfnChars + i)]
  <1>1. e = [k |-> "lfn", ord |-> o, last |-> last, sum |-> fat32_lfn_checksum(sn), of |-> sn, chars |-> C]
    BY DEF fat32_fill_lfn_entry
  <1>2. ASSUME NEW i \in 1 .. LfnChars PROVE LfnChar(name, (o - 1) * LfnChars + i) \in Letters
    <2>1. LfnChars \in Nat /\ o - 1 \in Nat /\ i \in Nat \ {0}
      BY DirNumbers
    <2>2. (o - 1) * LfnChars \in Nat
      BY <2>1
    <2>3. (o - 1) * LfnChars + i \in Nat \ {0}
      BY <2>1, <2>2
    <2> QED
      BY <2>3, LfnCharIs
  <1>3. C \in [1 .. LfnChars -> Letters] /\ fat32_lfn_checksum(sn) \in Sums
    BY <1>2 DEF Sums
  <1>4. \A i \in 1 .. LfnChars : C[i] = LfnChar(name, (o - 1) * LfnChars + i)
    OBVIOUS
  <1> HIDE DEF C
  <1> QED
    BY <1>1, <1>3, <1>4 DEF Lfns

LEMMA PartIs ==
  ASSUME NEW name \in Seq(Letters), NEW sn \in SNames, NEW n \in Nat, NEW t \in 0 .. n - 1,
         NEW last \in BOOLEAN, NEW o, o = n - t
  PROVE  fat32_lfn_write(Part(name, n, t), fat32_fill_lfn_entry(name, o, last, sn)) = Part(name, n, t + 1)
  <1> DEFINE e == fat32_fill_lfn_entry(name, o, last, sn)
             P == Part(name, n, t)
             m == (o - 1) * LfnChars
  <1>1. o \in Nat \ {0} /\ LfnChars \in Nat \ {0} /\ MaxName \in Nat
    BY DirNumbers
  <1>2. e.ord = o /\ \A i \in 1 .. LfnChars : e.chars[i] = LfnChar(name, m + i)
    <2> HIDE DEF e, m
    <2>1. e = fat32_fill_lfn_entry(name, o, last, sn)
      BY DEF e
    <2>2. PICK p \in Nat \ {0} : p = o
      BY <1>1
    <2>3. /\ fat32_fill_lfn_entry(name, p, last, sn).ord = p
          /\ \A i \in 1 .. LfnChars :
               fat32_fill_lfn_entry(name, p, last, sn).chars[i] = LfnChar(name, (p - 1) * LfnChars + i)
      BY FillIs
    <2>4. m = (p - 1) * LfnChars
      BY <2>2 DEF m
    <2> QED
      BY <2>1, <2>2, <2>3, <2>4
  <1>3. m \in Nat /\ (n - t) * LfnChars = m + LfnChars /\ (n - (t + 1)) * LfnChars = m
    <2>1. o - 1 \in Nat /\ n - t = (o - 1) + 1 /\ n - (t + 1) = o - 1
      BY <1>1
    <2>2. ((o - 1) + 1) * LfnChars = (o - 1) * LfnChars + LfnChars
      BY <1>1, <2>1
    <2> QED
      BY <1>1, <2>1, <2>2
  <1>4. fat32_lfn_write(P, e) = [k \in 1 .. MaxName |-> IF k - m \in 1 .. LfnChars THEN e.chars[k - m] ELSE P[k]]
    BY <1>2 DEF fat32_lfn_write
  <1>5. \A k \in 1 .. MaxName : P[k] = IF k > m + LfnChars THEN LfnChar(name, k) ELSE NUL
    BY <1>3 DEF Part
  <1>6. Part(name, n, t + 1) = [k \in 1 .. MaxName |-> IF k > m THEN LfnChar(name, k) ELSE NUL]
    BY <1>3 DEF Part
  <1> HIDE DEF m, P, e
  <1>7. ASSUME NEW k \in 1 .. MaxName
        PROVE  (IF k - m \in 1 .. LfnChars THEN e.chars[k - m] ELSE P[k])
               = IF k > m THEN LfnChar(name, k) ELSE NUL
    <2>1. CASE k <= m
      BY <1>1, <1>3, <1>5, <2>1
    <2>2. CASE k > m /\ k <= m + LfnChars
      <3>1. k - m \in 1 .. LfnChars /\ m + (k - m) = k
        BY <1>1, <1>3, <2>2
      <3> QED
        BY <1>2, <2>2, <3>1
    <2>3. CASE k > m + LfnChars
      BY <1>1, <1>3, <1>5, <2>3
    <2> QED
      BY <1>1, <1>3, <2>1, <2>2, <2>3
  <1> QED
    BY <1>4, <1>6, <1>7 DEF e, P

\* After t of the long-name entries of a file.
Gathered(st, name, sn, n, t) ==
  st.valid /\ st.sum = fat32_lfn_checksum(sn) /\ st.n = t /\ st.buf = Part(name, n, t)

LEMMA GatherOn ==
  ASSUME NEW st \in ScanStates, ~st.stop, NEW name \in Seq(Letters), NEW sn \in SNames,
         LongName(name), NEW n \in Nat, n * LfnChars >= Len(name), NEW t \in 0 .. n - 1,
         t = 0 \/ Gathered(st, name, sn, n, t), NEW o, o = n - t, NEW i \in Nat
  PROVE  Gathered(Scan(st, fat32_fill_lfn_entry(name, o, o = n, sn), i), name, sn, n, t + 1)
  <1> DEFINE e == fat32_fill_lfn_entry(name, o, o = n, sn)
             c == Collect(st, e)
  <1>1. o \in Nat \ {0} /\ (o = n) \in BOOLEAN /\ (o = n <=> t = 0)
    OBVIOUS
  <1>2. e \in Lfns /\ e.sum = fat32_lfn_checksum(sn) /\ (e.last <=> t = 0)
    <2> HIDE DEF e
    <2>1. CASE t = 0
      <3>1. e = fat32_fill_lfn_entry(name, o, TRUE, sn)
        BY <1>1, <2>1 DEF e
      <3>2. e \in Lfns
        BY <1>1, <3>1, FillIs
      <3>3. e.sum = fat32_lfn_checksum(sn) /\ e.last = TRUE
        BY <3>1 DEF fat32_fill_lfn_entry
      <3> QED
        BY <2>1, <3>2, <3>3
    <2>2. CASE t # 0
      <3>1. e = fat32_fill_lfn_entry(name, o, FALSE, sn)
        BY <1>1, <2>2 DEF e
      <3>2. e \in Lfns
        BY <1>1, <3>1, FillIs
      <3>3. e.sum = fat32_lfn_checksum(sn) /\ e.last = FALSE
        BY <3>1 DEF fat32_fill_lfn_entry
      <3> QED
        BY <2>2, <3>2, <3>3
    <2> QED
      BY <2>1, <2>2
  <1>3. \A q \in 1 .. MaxName : q > n * LfnChars => LfnChar(name, q) = NUL
    BY DirNumbers DEF LfnChar
  <1>4. Part(name, n, 0) = Blank
    BY <1>3, DirNumbers DEF Part, Blank
  <1>5. fat32_lfn_write(Part(name, n, t), e) = Part(name, n, t + 1)
    <2>1. CASE t = 0
      <3>1. e = fat32_fill_lfn_entry(name, o, TRUE, sn)
        BY <1>1, <2>1
      <3> HIDE DEF e
      <3> QED
        BY <3>1, PartIs
    <2>2. CASE t # 0
      <3>1. e = fat32_fill_lfn_entry(name, o, FALSE, sn)
        BY <1>1, <2>2
      <3> HIDE DEF e
      <3> QED
        BY <3>1, PartIs
    <2> QED
      BY <2>1, <2>2
  <1> HIDE DEF e
  <1>6. Scan(st, e, i) = c
    BY <1>2 DEF Scan, Lfns
  <1>7. CASE t = 0
    <2>1. c.valid /\ c.sum = e.sum /\ c.n = 1 /\ c.buf = fat32_lfn_write(Blank, e)
      BY <1>2, <1>7, CollectIs
    <2> QED
      BY <1>2, <1>4, <1>5, <1>6, <1>7, <2>1 DEF Gathered, e
  <1>8. CASE t # 0
    <2>1. st.valid /\ st.sum = e.sum /\ st.n = t /\ st.buf = Part(name, n, t) /\ ~e.last
      BY <1>2, <1>8 DEF Gathered
    <2>2. c.valid /\ c.sum = e.sum /\ c.n = st.n + 1 /\ c.buf = fat32_lfn_write(st.buf, e)
      BY <1>2, <2>1, CollectIs
    <2> QED
      BY <1>2, <1>5, <1>6, <2>1, <2>2 DEF Gathered, e
  <1> QED
    BY <1>7, <1>8

LEMMA LongRead ==
  ASSUME NEW name \in Seq(Letters), LongName(name)
  PROVE  LET b == [k \in 1 .. MaxName |-> LfnChar(name, k)]
         IN  b[1] # NUL /\ SubSeq(b, 1, Strlen(b)) = name
  <1> DEFINE b == [k \in 1 .. MaxName |-> LfnChar(name, k)]
             s == Strlen(b)
  <1>1. Len(name) \in 1 .. MaxName /\ MaxName \in Nat /\ \A k \in 1 .. Len(name) : name[k] # NUL
    BY DirNumbers DEF LongName
  <1>2. \A k \in 1 .. MaxName : b[k] = (IF k <= Len(name) THEN name[k] ELSE NUL) /\ b[k] \in Letters
    BY LfnCharIs DEF LfnChar
  <1> HIDE DEF b
  <1>3. b \in Buffers /\ b \in Seq(Letters)
    <2>1. b = [k \in 1 .. MaxName |-> b[k]]
      BY DEF b
    <2>2. b \in Buffers
      BY <1>2, <2>1 DEF Buffers
    <2> QED
      BY <1>1, <2>2 DEF Buffers
  <1>4. /\ s \in 0 .. MaxName /\ \A k \in 1 .. s : b[k] # NUL
        /\ s < MaxName => b[s + 1] = NUL
    BY <1>3, StrlenIs
  <1> HIDE DEF s
  <1>5. s = Len(name)
    <2>1. CASE s < Len(name)
      BY <1>1, <1>2, <1>4, <2>1
    <2>2. CASE s > Len(name)
      <3>1. s \in 1 .. s /\ s \in 1 .. MaxName /\ b[s] = NUL
        BY <1>1, <1>2, <1>4, <2>2
      <3> QED
        BY <1>4, <3>1
    <2> QED
      BY <1>1, <1>4, <2>1, <2>2
  <1>6. \A k \in 1 .. s : b[k] = name[k]
    BY <1>1, <1>2, <1>5
  <1>7. Len(b) = MaxName
    BY <1>1, <1>3 DEF Buffers
  <1>8. SubSeq(b, 1, s) = name
    <2>1. SubSeq(b, 1, s) \in Seq(Letters) /\ Len(SubSeq(b, 1, s)) = s
      BY <1>1, <1>3, <1>5, <1>7
    <2>2. \A k \in 1 .. s : SubSeq(b, 1, s)[k] = b[k]
      BY <1>1, <1>3, <1>5, <1>7
    <2> QED
      BY <1>5, <1>6, <2>1, <2>2
  <1> QED
    BY <1>1, <1>2, <1>8 DEF s, b

LEMMA NowIs ==
  ASSUME slots \in Seq(DirEntries)
  PROVE  /\ Now \in [Places -> DirEntries]
         /\ \A i \in DOMAIN slots : i \in Places /\ Now[i] = slots[i]
         /\ \A i \in Places : i \notin DOMAIN slots => Now[i] = End
  <1>1. DOMAIN slots = 1 .. Len(slots) /\ Len(slots) \in Nat /\ End \in DirEntries
    BY DEF DirEntries
  <1>2. \A i \in Places : (IF i \in DOMAIN slots THEN slots[i] ELSE End) \in DirEntries
    BY <1>1
  <1> QED
    BY <1>1, <1>2 DEF Now, Places

\* The short entry of a file, read with what stands before it.
\* The parts of a long name that stand after b, read one after the other.
LEMMA GatheredAll ==
  ASSUME NEW f, NEW name \in Seq(Letters), NEW sn \in SNames, LongName(name), NEW n \in Nat, n # 0,
         n * LfnChars >= Len(name), NEW b \in Nat, \A i \in b .. b + n : f[i] \in ScanStates /\ ~f[i].stop,
         \A t \in 0 .. n - 1 :
           f[b + t + 1] = Scan(f[b + t], fat32_fill_lfn_entry(name, n - t, n - t = n, sn), b + t + 1)
  PROVE  Gathered(f[b + n], name, sn, n, n)
  <1> DEFINE P == {t \in Nat : t = 0 \/ Gathered(f[b + t], name, sn, n, t)}
  <1>1. 0 \in P
    OBVIOUS
  <1>2. ASSUME NEW t \in 0 .. n - 1, t \in P PROVE t + 1 \in P
    <2>1. t = 0 \/ Gathered(f[b + t], name, sn, n, t)
      BY <1>2
    <2>2. PICK i \in Nat, o \in Nat : i = b + t + 1 /\ o = n - t
      OBVIOUS
    <2>3. b + t \in b .. b + n
      OBVIOUS
    <2>4. PICK st : st = f[b + t]
      OBVIOUS
    <2>5. st \in ScanStates /\ ~st.stop
      BY <2>3, <2>4
    <2>6. t = 0 \/ Gathered(st, name, sn, n, t)
      BY <2>1, <2>4
    <2>7. Gathered(Scan(st, fat32_fill_lfn_entry(name, o, o = n, sn), i), name, sn, n, t + 1)
      BY <2>2, <2>5, <2>6, GatherOn
    <2>8. f[b + t + 1] = Scan(st, fat32_fill_lfn_entry(name, o, o = n, sn), i)
      BY <2>2, <2>4
    <2>9. b + (t + 1) = b + t + 1 /\ t + 1 \in Nat
      OBVIOUS
    <2>10. Gathered(f[b + (t + 1)], name, sn, n, t + 1)
      BY <2>7, <2>8, <2>9
    <2> QED
      BY <2>9, <2>10
  <1>3. n \in P
    <2>1. P \in SUBSET Nat /\ n \in 0 .. n
      OBVIOUS
    <2> HIDE DEF P
    <2> QED
      BY <1>1, <1>2, <2>1, InductionUpTo
  <1> QED
    BY <1>3

LEMMA PlaceIs ==
  ASSUME NEW n \in Nat, NEW a \in Nat, n < a, NEW N \in Nat, a <= N, NEW t \in Nat, t < n,
         NEW b \in Nat, b = (a - 1) - n, NEW i \in Nat, i = b + t + 1, NEW o \in Nat, o = n - t
  PROVE  i \in a - n .. a /\ i # a /\ a - i = o /\ (i = a - n <=> o = n) /\ i - 1 = b + t /\ i \in 1 .. N
  OBVIOUS

Placing(n, a, N, t, b, i, o) ==
  /\ n \in Nat /\ a \in Nat /\ N \in Nat /\ t \in Nat /\ b \in Nat /\ i \in Nat /\ o \in Nat
  /\ n < a /\ a <= N /\ t < n /\ b = (a - 1) - n /\ i = b + t + 1 /\ o = n - t
Placed(n, a, N, t, b, i, o) ==
  i \in a - n .. a /\ i # a /\ a - i = o /\ (i = a - n <=> o = n) /\ i - 1 = b + t /\ i \in 1 .. N

LEMMA PlacedAt ==
  ASSUME NEW n, NEW a, NEW N, NEW t, NEW b, NEW i, NEW o, Placing(n, a, N, t, b, i, o)
  PROVE  Placed(n, a, N, t, b, i, o)
  BY PlaceIs DEF Placing, Placed

\* The short entry at a is right behind a long-name entry with its checksum.
Misled(F, a) ==
  /\ F.name = ShortToName(F.sn)
  /\ a - 1 \in DOMAIN slots /\ slots[a - 1].k = "lfn" /\ slots[a - 1].sum = fat32_lfn_checksum(F.sn)

LEMMA SeenName ==
  ASSUME slots \in Seq(DirEntries), EndsLast, NEW k \in DOMAIN fat32_iter_dir,
         NEW F \in Files, NEW n \in Nat, NEW a \in Nat, a = fat32_iter_dir[k].at, Home(Now, F, a, n)
  PROVE  /\ fat32_iter_dir[k].name = F.name \/ (n = 0 /\ Misled(F, a))
         /\ n <= fat32_iter_dir[k].lfn
  <1> DEFINE L == fat32_iter_dir
             v == L[k]
             N == Len(slots)
             p == a - 1
             sn == F.sn
  <1>1. PICK f : /\ ScanOf(f, slots) /\ Upto(L, f, slots, N) /\ L \in Seq(Views)
                 /\ \A i \in 0 .. N : State(f[i], slots, i)
    BY ScanIs
  <1> HIDE DEF L
  <1>2. /\ N \in Nat /\ DOMAIN slots = 1 .. N /\ k \in 1 .. Len(L) /\ sn \in SNames /\ F.name \in Seq(Letters)
        /\ F.id \in Nat /\ F.dir \in BOOLEAN
    BY <1>1 DEF Files, L
  <1>3. a \in 1 .. N /\ NoEnd(slots, a) /\ v = View(f[p], slots[a], a)
    BY <1>1, <1>2 DEF Upto, Shows, L
  <1> HIDE DEF v
  <1>4. n < a /\ \A i \in a - n .. a : i \in 1 .. N /\ slots[i] = Want(F, a, n, i)
    <2>1. n < a /\ \A i \in a - n .. a : Now[i] = Want(F, a, n, i)
      BY DEF Home
    <2>2. \A i \in a - n .. a : i \in 1 .. N
      BY <1>2, <1>3, <2>1
    <2> QED
      BY <1>2, <2>1, <2>2, NowIs
  <1>5. slots[a].sn = sn
    <2>1. a \in a - n .. a
      BY <1>3
    <2>2. slots[a] = Short(F.sn, F.id, F.dir, F.cluster)
      BY <1>4, <2>1 DEF Want
    <2> QED
      BY <2>2 DEF Short
  <1>6. \A i \in 0 .. p : i \in 0 .. N /\ f[i] \in ScanStates /\ ~f[i].stop
    <2> SUFFICES ASSUME NEW i \in 0 .. p PROVE i \in 0 .. N /\ f[i] \in ScanStates /\ ~f[i].stop
      OBVIOUS
    <2>1. i \in 0 .. N /\ NoEnd(slots, i)
      BY <1>2, <1>3 DEF NoEnd
    <2> QED
      BY <1>1, <2>1 DEF State
  <1>7. v.name = (IF f[p].valid /\ f[p].buf[1] # NUL /\ f[p].sum = fat32_lfn_checksum(sn)
                  THEN SubSeq(f[p].buf, 1, Strlen(f[p].buf)) ELSE ShortToName(sn))
        /\ v.lfn = f[p].n
    BY <1>3, <1>5 DEF View
  <1>8. CASE n = 0 /\ F.name = ShortToName(sn)
    <2>1. ASSUME f[p].valid, f[p].sum = fat32_lfn_checksum(sn) PROVE Misled(F, a)
      <3>1. p \in 0 .. p /\ p \in 0 .. N
        BY <1>2, <1>3
      <3>2. p >= 1 /\ slots[p].k = "lfn" /\ slots[p].sum = fat32_lfn_checksum(sn)
        BY <1>1, <1>6, <2>1, <3>1 DEF State
      <3> QED
        BY <1>2, <1>8, <3>1, <3>2 DEF Misled
    <2>2. f[p].n \in Nat
      BY <1>3, <1>6, Fields1
    <2> QED
      BY <1>7, <1>8, <2>1, <2>2 DEF v, L
  <1>9. CASE n = CeilDiv(Len(F.name), LfnChars) /\ LongName(F.name)
    <2>1. n # 0 /\ n * LfnChars >= Len(F.name)
      <3>1. Len(F.name) \in Nat /\ Len(F.name) # 0
        BY <1>9, DirNumbers DEF LongName
      <3>2. PICK b : b = LfnChars /\ b \in Nat \ {0}
        BY DirNumbers
      <3>3. CeilDiv(Len(F.name), b) * b >= Len(F.name) /\ CeilDiv(Len(F.name), b) # 0
        BY <3>1, <3>2, CeilIs
      <3> QED
        BY <1>9, <3>2, <3>3
    <2>2. PICK b \in Nat : b = p - n
      BY <1>3, <1>4
    <2>3. \A i \in b .. b + n : f[i] \in ScanStates /\ ~f[i].stop
      <3>1. \A i \in b .. b + n : i \in 0 .. p
        BY <1>3, <2>2
      <3> QED
        BY <1>6, <3>1
    <2>4. ASSUME NEW t \in 0 .. n - 1
          PROVE  f[b + t + 1] = Scan(f[b + t], fat32_fill_lfn_entry(F.name, n - t, n - t = n, sn), b + t + 1)
      <3>1. PICK i \in Nat, o \in Nat : i = b + t + 1 /\ o = n - t
        OBVIOUS
      <3>2. /\ i \in a - n .. a /\ i # a /\ a - i = o /\ (i = a - n <=> o = n) /\ i - 1 = b + t /\ i \in 1 .. N
        <4>1. b = (a - 1) - n /\ n < a /\ a <= N /\ N \in Nat /\ t \in Nat /\ t < n
          BY <1>2, <1>3, <1>4, <2>2
        <4> HIDE DEF N, p
        <4>2. Placing(n, a, N, t, b, i, o)
          BY <3>1, <4>1 DEF Placing
        <4>3. Placed(n, a, N, t, b, i, o)
          BY <4>2, PlacedAt
        <4> QED
          BY <4>3 DEF Placed
      <3>3. slots[i] = fat32_fill_lfn_entry(F.name, a - i, i = a - n, sn)
        BY <1>4, <3>2 DEF Want
      <3>4. f[i] = Scan(f[i - 1], slots[i], i)
        BY <1>1, <3>2 DEF ScanOf
      <3>5. slots[i] = fat32_fill_lfn_entry(F.name, o, o = n, sn)
        <4>1. CASE o = n
          BY <3>2, <3>3, <4>1
        <4>2. CASE o # n
          BY <3>2, <3>3, <4>2
        <4> QED
          BY <4>1, <4>2
      <3> QED
        BY <3>1, <3>2, <3>4, <3>5
    <2>5. Gathered(f[p], F.name, sn, n, n)
      <3>1. Gathered(f[b + n], F.name, sn, n, n)
        BY <1>2, <1>9, <2>1, <2>3, <2>4, GatheredAll
      <3>2. b + n = p
        BY <1>3, <2>2
      <3> QED
        BY <3>1, <3>2
    <2>6. Part(F.name, n, n) = [q \in 1 .. MaxName |-> LfnChar(F.name, q)]
      <3>1. (n - n) * LfnChars = 0 /\ MaxName \in Nat
        BY DirNumbers
      <3> QED
        BY <3>1 DEF Part
    <2>7. f[p].buf[1] # NUL /\ SubSeq(f[p].buf, 1, Strlen(f[p].buf)) = F.name
      <3>1. f[p].buf = [q \in 1 .. MaxName |-> LfnChar(F.name, q)]
        BY <2>5, <2>6 DEF Gathered
      <3> QED
        BY <1>2, <1>9, <3>1, LongRead
    <2> QED
      BY <1>7, <2>5, <2>7 DEF Gathered, v, L
  <1> QED
    BY <1>8, <1>9 DEF Home

-----------------------------------------------------------------------------
(* The short name made up for a name. *)

LEMMA CutIs ==
  ASSUME NEW s \in Seq(Letters), NEW n \in Int
  PROVE  Cut(s, n) \in Seq(Letters) /\ (Len(s) <= n => Cut(s, n) = s)
  <1> DEFINE m == IF Len(s) < n THEN Len(s) ELSE n
  <1>1. m \in Int /\ m <= Len(s) /\ Cut(s, n) = SubSeq(s, 1, m)
    BY DEF Cut
  <1>2. CASE m < 1
    <2>1. Cut(s, n) = <<>>
      <3> HIDE DEF m
      <3>1. SubSeq(s, 1, m) = <<>>
        BY <1>1, <1>2
      <3> QED
        BY <1>1, <3>1
    <2>2. Len(s) <= n => s = <<>>
      BY <1>2
    <2> QED
      BY <2>1, <2>2
  <1>3. CASE m >= 1
    <2>1. m \in 1 .. Len(s)
      BY <1>1, <1>3
    <2>2. Len(s) <= n => m = Len(s)
      OBVIOUS
    <2> HIDE DEF m
    <2>3. SubSeq(s, 1, m) \in Seq(Letters)
      BY <2>1
    <2>4. SubSeq(s, 1, Len(s)) = s
      OBVIOUS
    <2> QED
      BY <1>1, <2>2, <2>3, <2>4
  <1> QED
    BY <1>1, <1>2, <1>3

LEMMA UpcaseIs ==
  ASSUME NEW s \in Seq(STRING)
  PROVE  Upcase(s) \in Seq(Letters) /\ Len(Upcase(s)) = Len(s)
  <1>1. ASSUME NEW k \in DOMAIN s PROVE (IF Fold(s)[k] \in ShortChars THEN Fold(s)[k] ELSE "_") \in Letters
    <2>1. s[k] \in STRING /\ Fold(s)[k] = IF s[k] \in DOMAIN Upper THEN Upper[s[k]] ELSE s[k]
      BY DEF Fold
    <2>2. Fold(s)[k] \in STRING
      BY <2>1, DirAssumption
    <2> QED
      BY <2>2 DEF Letters
  <1>2. DOMAIN s = 1 .. Len(s) /\ Len(s) \in Nat
    OBVIOUS
  <1>3. Upcase(s) = [k \in 1 .. Len(s) |-> IF Fold(s)[k] \in ShortChars THEN Fold(s)[k] ELSE "_"]
    BY <1>2 DEF Upcase
  <1> DEFINE u == [k \in 1 .. Len(s) |-> IF Fold(s)[k] \in ShortChars THEN Fold(s)[k] ELSE "_"]
  <1>4. u \in [1 .. Len(s) -> Letters]
    BY <1>1, <1>2
  <1> HIDE DEF u
  <1>5. u \in Seq(Letters) /\ Len(u) = Len(s)
    BY <1>2, <1>4
  <1> QED
    BY <1>3, <1>5 DEF u

LEMMA LastDotIs ==
  ASSUME NEW name \in Seq(STRING)
  PROVE  \/ LastDot(name) = Len(name) + 1 /\ \A j \in 1 .. Len(name) : name[j] # "."
         \/ /\ LastDot(name) \in 1 .. Len(name) /\ name[LastDot(name)] = "."
            /\ \A j \in LastDot(name) + 1 .. Len(name) : name[j] # "."
  <1> DEFINE N == Len(name)
  <1>1. N \in Nat /\ DOMAIN name = 1 .. N
    OBVIOUS
  <1>2. CASE ~\E k \in DOMAIN name : name[k] = "."
    BY <1>1, <1>2 DEF LastDot
  <1>3. CASE \E k \in DOMAIN name : name[k] = "."
    <2> DEFINE S == {m \in 0 .. N - 1 : name[N - m] = "."}
               G(k) == k \in DOMAIN name /\ name[k] = "." /\ \A j \in (k + 1) .. N : name[j] # "."
    <2>1. S \in SUBSET Nat /\ S # {}
      <3>1. PICK k \in 1 .. N : name[k] = "."
        BY <1>1, <1>3
      <3>2. N - k \in 0 .. N - 1 /\ N - (N - k) = k
        BY <1>1
      <3>3. PICK m \in 0 .. N - 1 : m = N - k
        BY <3>2
      <3>4. N - m = k
        BY <1>1, <3>1, <3>3
      <3>5. name[N - m] = "."
        BY <3>1, <3>4
      <3>6. m \in S
        BY <3>5
      <3>7. S \in SUBSET (0 .. N - 1)
        OBVIOUS
      <3> HIDE DEF S
      <3>8. 0 .. N - 1 \in SUBSET Nat
        BY <1>1
      <3> QED
        BY <3>6, <3>7, <3>8
    <2>2. PICK m \in S : \A j \in S : m <= j
      <3> HIDE DEF S
      <3> QED
        BY <2>1, LeastNat
    <2>3. m \in 0 .. N - 1 /\ name[N - m] = "."
      BY <2>2
    <2>4. ASSUME NEW j \in (N - m + 1) .. N, name[j] = "." PROVE FALSE
      <3>1. N - j \in 0 .. N - 1 /\ N - (N - j) = j /\ N - j < m
        BY <1>1, <2>3, <2>4
      <3>2. N - j \in S
        BY <2>4, <3>1
      <3> QED
        BY <2>2, <2>3, <3>1, <3>2
    <2>5. G(N - m)
      BY <1>1, <2>3, <2>4
    <2> DEFINE c == CHOOSE k \in DOMAIN name : name[k] = "." /\ \A j \in (k + 1) .. Len(name) : name[j] # "."
    <2>6. G(c)
      BY <2>5
    <2>7. LastDot(name) = c
      BY <1>3 DEF LastDot
    <2> HIDE DEF c
    <2>8. c \in 1 .. Len(name) /\ name[c] = "." /\ \A j \in c + 1 .. Len(name) : name[j] # "."
      BY <1>1, <2>6
    <2> QED
      BY <2>7, <2>8
  <1> QED
    BY <1>2, <1>3

LEMMA PartsIs ==
  ASSUME NEW name \in Seq(STRING)
  PROVE  BaseOf(name) \in Seq(STRING) /\ ExtOf(name) \in Seq(STRING)
  <1> DEFINE d == LastDot(name)
  <1>1. d \in 1 .. Len(name) + 1 /\ Len(name) \in Nat
    BY LastDotIs
  <1> HIDE DEF d
  <1>2. SubSeq(name, 1, d - 1) \in Seq(STRING) /\ SubSeq(name, d + 1, Len(name)) \in Seq(STRING)
    BY <1>1
  <1> QED
    BY <1>2 DEF BaseOf, ExtOf, d

\* A name without long-name entries is its own two parts and the dot between them.
LEMMA ListedIs ==
  ASSUME NEW name \in Seq(STRING), name # <<>>, NEW b, b = BaseOf(name), NEW x, x = ExtOf(name)
  PROVE  Listed(name, FALSE) = b \o (IF x = <<>> THEN <<>> ELSE <<".">> \o x)
  <1> DEFINE d == LastDot(name)
             N == Len(name)
  <1>1. N \in Nat \ {0} /\ Listed(name, FALSE) = IF name[N] = "." THEN SubSeq(name, 1, N - 1) ELSE name
    BY DEF Listed, Last, Front
  <1>2. b = SubSeq(name, 1, d - 1) /\ x = SubSeq(name, d + 1, N)
    BY DEF BaseOf, ExtOf
  <1>3. CASE d = N + 1 /\ \A j \in 1 .. N : name[j] # "."
    <2> HIDE DEF d
    <2>1. b = name /\ x = <<>> /\ name[N] # "."
      BY <1>1, <1>2, <1>3
    <2>2. name \o <<>> = name
      OBVIOUS
    <2> QED
      BY <1>1, <2>1, <2>2
  <1>4. CASE d \in 1 .. N /\ name[d] = "." /\ \A j \in d + 1 .. N : name[j] # "."
    <2> HIDE DEF d
    <2>1. CASE d = N
      <3>1. x = <<>> /\ b = SubSeq(name, 1, N - 1) /\ name[N] = "."
        BY <1>1, <1>2, <1>4, <2>1
      <3>2. b \in Seq(STRING)
        BY PartsIs
      <3>3. b \o <<>> = b
        BY <3>2
      <3> QED
        BY <1>1, <3>1, <3>3
    <2>2. CASE d # N
      <3>1. /\ b \in Seq(STRING) /\ Len(b) = d - 1 /\ \A j \in 1 .. d - 1 : b[j] = name[j]
            /\ x \in Seq(STRING) /\ Len(x) = N - d /\ \A j \in 1 .. N - d : x[j] = name[d + j]
        BY <1>1, <1>2, <1>4, <2>2
      <3>2. N \in d + 1 .. N
        BY <1>1, <1>4, <2>2
      <3>3. x # <<>> /\ Listed(name, FALSE) = name
        <4>1. name[N] # "."
          BY <1>4, <3>2
        <4>2. Len(x) # 0
          BY <1>1, <1>4, <2>2, <3>1
        <4> QED
          BY <1>1, <4>1, <4>2
      <3> DEFINE T == b \o (<<".">> \o x)
      <3>4. T \in Seq(STRING \cup {"."}) /\ Len(T) = N /\ name \in Seq(STRING \cup {"."})
        BY <1>1, <1>4, <2>2, <3>1
      <3>5. ASSUME NEW j \in 1 .. N PROVE T[j] = name[j]
        <4>1. CASE j < d
          BY <1>4, <3>1, <4>1
        <4>2. CASE j = d
          BY <1>4, <3>1, <4>2
        <4>3. CASE j > d
          <5>1. j - d \in 1 .. N - d /\ d + (j - d) = j
            BY <1>4, <4>3
          <5>2. T[j] = x[j - d]
            BY <1>4, <3>1, <4>3, <5>1
          <5> QED
            BY <3>1, <5>1, <5>2
        <4>4. j < d \/ j = d \/ j > d
          BY <1>1, <1>4
        <4> QED
          BY <4>1, <4>2, <4>3, <4>4
      <3> HIDE DEF T
      <3>6. T = name
        BY <3>4, <3>5
      <3> QED
        BY <3>3, <3>6 DEF T
    <2> QED
      BY <2>1, <2>2
  <1> QED
    BY <1>3, <1>4, LastDotIs

LEMMA SuffixIs ==
  ASSUME NEW n \in 1 .. 99
  PROVE  Suffix(n) \in Seq(Letters)
  <1>1. (n \div 10) + 1 \in 1 .. 10 /\ (n % 10) + 1 \in 1 .. 10
    OBVIOUS
  <1>2. \A i \in 1 .. 10 : Digits[i] \in Letters
    BY DEF Letters
  <1>3. "~" \in Letters
    BY DEF Letters
  <1>4. <<"~">> \in Seq(Letters) /\ <<>> \in Seq(Letters)
    BY <1>3
  <1> DEFINE x == Digits[(n \div 10) + 1]
             y == Digits[(n % 10) + 1]
  <1>5. x \in Letters /\ y \in Letters
    BY <1>1, <1>2
  <1>6. Suffix(n) = <<"~">> \o (IF n < 10 THEN <<>> ELSE <<x>>) \o <<y>>
    BY DEF Suffix
  <1> HIDE DEF x, y
  <1>7. <<x>> \in Seq(Letters) /\ <<y>> \in Seq(Letters)
    BY <1>5
  <1>8. (IF n < 10 THEN <<>> ELSE <<x>>) \in Seq(Letters)
    BY <1>4, <1>7
  <1> QED
    BY <1>4, <1>6, <1>7, <1>8

LEMMA MadeIs ==
  ASSUME NEW seen, NEW name \in FileNames, name # <<>>, NEW made \in fat32_make_short_name(seen, name)
  PROVE  /\ made.sn \in SNames /\ made.lfn \in BOOLEAN /\ ~fat32_short_exists(seen, made.sn)
         /\ ~made.lfn => Listed(name, made.lfn) = ShortToName(made.sn)
  <1> DEFINE b == BaseOf(name)
             x == ExtOf(name)
             base == IF b = <<>> THEN <<"_">> ELSE Cut(Upcase(b), BaseLen)
             ext == Cut(Upcase(x), ExtLen)
             simple == Len(b) <= BaseLen /\ Len(x) <= ExtLen
             plain == [base |-> base, ext |-> ext]
             tail(n) == [base |-> Cut(base, BaseLen - Len(Suffix(n))) \o Suffix(n), ext |-> ext]
             free == {n \in 1 .. MaxSuffix : ~fat32_short_exists(seen, tail(n))}
             own == b = <<>> \/ Upcase(b) # b \/ Upcase(x) # x
  <1>1. made \in IF simple /\ ~fat32_short_exists(seen, plain) THEN {[sn |-> plain, lfn |-> own]}
                 ELSE {[sn |-> tail(n), lfn |-> TRUE] : n \in {n \in free : \A m \in free : n <= m}}
    BY DEF fat32_make_short_name
  <1>2. name \in Seq(STRING)
    BY DirAssumption
  <1>3. b \in Seq(STRING) /\ x \in Seq(STRING)
    BY <1>2, PartsIs
  <1>4. BaseLen \in Int /\ ExtLen \in Int /\ MaxSuffix \in 0 .. 99 /\ BaseLen \in Nat
    BY DirNumbers
  <1>5. base \in Seq(Letters) /\ ext \in Seq(Letters)
    <2>1. PICK u : u = "_"
      OBVIOUS
    <2>2. <<u>> \in Seq(Letters)
      <3>1. u \in Letters
        BY <2>1 DEF Letters
      <3> QED
        BY <3>1
    <2>3. Upcase(b) \in Seq(Letters) /\ Upcase(x) \in Seq(Letters)
      BY <1>3, UpcaseIs
    <2>4. Cut(Upcase(b), BaseLen) \in Seq(Letters) /\ ext \in Seq(Letters)
      BY <1>4, <2>3, CutIs
    <2>5. base = IF b = <<>> THEN <<u>> ELSE Cut(Upcase(b), BaseLen)
      BY <2>1
    <2> HIDE DEF base, ext, b, x
    <2> QED
      BY <2>2, <2>4, <2>5
  <1>6. CASE simple /\ ~fat32_short_exists(seen, plain)
    <2>1. made = [sn |-> plain, lfn |-> own]
      BY <1>1, <1>6
    <2>2. plain \in SNames
      BY <1>5 DEF SNames
    <2>3. ASSUME ~own PROVE Listed(name, FALSE) = ShortToName(plain)
      <3>1. b # <<>> /\ Upcase(b) = b /\ Upcase(x) = x
        BY <2>3
      <3>2. b \in Seq(Letters) /\ x \in Seq(Letters)
        BY <1>3, <3>1, UpcaseIs
      <3>3. Cut(b, BaseLen) = b /\ Cut(x, ExtLen) = x
        BY <1>4, <1>6, <3>2, CutIs
      <3>4. base = b /\ ext = x
        BY <3>1, <3>3
      <3>5. ShortToName(plain) = b \o (IF x = <<>> THEN <<>> ELSE <<".">> \o x)
        BY <3>4 DEF ShortToName
      <3> QED
        BY <1>2, <3>5, ListedIs
    <2> HIDE DEF plain, own
    <2>4. made.sn = plain /\ made.lfn = own
      BY <2>1, Zenon
    <2>5. made.lfn \in BOOLEAN
      BY <2>4 DEF own
    <2>6. ~made.lfn => made.lfn = FALSE /\ ~own
      BY <2>4, <2>5
    <2> QED
      BY <1>6, <2>2, <2>3, <2>4, <2>5, <2>6
  <1>7. CASE ~(simple /\ ~fat32_short_exists(seen, plain))
    <2>1. PICK n \in free : made = [sn |-> tail(n), lfn |-> TRUE]
      BY <1>1, <1>7
    <2>2. n \in 1 .. 99 /\ ~fat32_short_exists(seen, tail(n))
      <3> HIDE DEF tail
      <3>1. n \in 1 .. MaxSuffix /\ ~fat32_short_exists(seen, tail(n))
        OBVIOUS
      <3> QED
        BY <1>4, <3>1
    <2>b. PICK sfx : sfx = Suffix(n)
      OBVIOUS
    <2> DEFINE cut == Cut(base, BaseLen - Len(sfx))
    <2>a. tail(n) = [base |-> cut \o sfx, ext |-> ext]
      BY <2>b
    <2> HIDE DEF tail, free, base, ext
    <2>3. sfx \in Seq(Letters) /\ Len(sfx) \in Nat
      <3>1. PICK q \in 1 .. 99 : q = n
        BY <2>2
      <3>2. Suffix(q) \in Seq(Letters)
        BY SuffixIs
      <3> QED
        BY <2>b, <3>1, <3>2
    <2>4. BaseLen - Len(sfx) \in Int
      BY <1>4, <2>3
    <2>5. cut \in Seq(Letters)
      BY <1>5, <2>4, CutIs
    <2> HIDE DEF cut
    <2>6. cut \o sfx \in Seq(Letters)
      BY <2>3, <2>5
    <2>7. tail(n) \in SNames
      BY <1>5, <2>6, <2>a DEF SNames
    <2> QED
      BY <2>1, <2>2, <2>7
  <1> QED
    BY <1>6, <1>7

-----------------------------------------------------------------------------
(* Free entries, free clusters and the writes that add clusters. *)

LEMMA FindFreeIs ==
  ASSUME slots \in Seq(DirEntries), EndsLast, NEW n \in Nat, NEW at, at = fat32_dir_find_free(n + 1)
  PROVE  /\ at \in 1 .. Len(slots) + 1 /\ \A i \in at .. at + n : Free(i)
         /\ \A j \in 1 .. at - 1 : j \in DOMAIN slots /\ slots[j] # End
  <1> DEFINE N == Len(slots)
             S == {i \in 1 .. N + 1 : \A k \in i .. i + n : Free(k)}
             G(i) == /\ i \in 1 .. (N + 1) /\ \A k \in i .. (i + (n + 1) - 1) : Free(k)
                     /\ \A j \in 1 .. (i - 1) : \E k \in j .. (j + (n + 1) - 1) : ~Free(k)
  <1>1. N \in Nat /\ DOMAIN slots = 1 .. N
    OBVIOUS
  <1>2. N + 1 \in S /\ S \in SUBSET Nat
    BY <1>1 DEF Free
  <1>3. PICK i \in S : \A j \in S : i <= j
    <2> HIDE DEF S
    <2> QED
      BY <1>2, LeastNat
  <1>4. G(i)
    <2>1. \A k : k + (n + 1) - 1 = k + n \/ k \notin Nat
      OBVIOUS
    <2>2. ASSUME NEW j \in 1 .. i - 1 PROVE \E k \in j .. j + n : ~Free(k)
      <3>1. j \in 1 .. N + 1 /\ ~(i <= j)
        BY <1>1, <1>3
      <3> QED
        BY <1>3, <3>1
    <2> QED
      BY <1>1, <1>3, <2>2
  <1>5. G(at)
    <2>1. at = CHOOSE x : G(x)
      BY DEF fat32_dir_find_free
    <2> HIDE DEF G
    <2> QED
      BY <1>4, <2>1
  <1>6. \A k \in at .. at + n : Free(k)
    BY <1>1, <1>5
  <1>7. ASSUME NEW j \in 1 .. at - 1 PROVE j \in DOMAIN slots /\ slots[j] # End
    <2>1. j \in DOMAIN slots
      BY <1>1, <1>5
    <2>2. ASSUME slots[j] = End PROVE FALSE
      <3>1. PICK k \in j .. (j + (n + 1) - 1) : ~Free(k)
        BY <1>5
      <3>2. k \in DOMAIN slots /\ slots[k].k \notin {"end", "del"}
        BY <1>1, <2>1, <3>1 DEF Free
      <3>3. k = j \/ slots[k] = End
        BY <1>1, <2>1, <2>2, <3>1, <3>2 DEF EndsLast
      <3> QED
        BY <2>2, <3>2, <3>3 DEF End
    <2> QED
      BY <2>1, <2>2
  <1> QED
    BY <1>5, <1>6, <1>7

LEMMA FreeSeqIs ==
  ASSUME fat \in [Clusters -> BOOLEAN]
  PROVE  /\ FreeSeq \in Seq(Clusters) /\ \A k \in DOMAIN FreeSeq : ~fat[FreeSeq[k]]
         /\ \A k, l \in DOMAIN FreeSeq : FreeSeq[k] = FreeSeq[l] => k = l
  <1> DEFINE S == {c \in Clusters : ~fat[c]}
             n == Cardinality(S)
  <1>1. IsFiniteSet(S) /\ S \subseteq Clusters
    <2>1. IsFiniteSet(Clusters)
      BY DirNumbers, FS_Interval DEF Clusters
    <2> QED
      BY <2>1, FS_Subset
  <1>2. \A c \in S : ~fat[c]
    OBVIOUS
  <1>3. FreeSeq = CHOOSE f \in [1 .. n -> S] : IsInjective(f)
    BY DEF FreeSeq, SetToSeq
  <1> HIDE DEF S
  <1>4. n \in Nat /\ ExistsBijection(1 .. n, S)
    BY <1>1, FS_CardinalityType
  <1>5. \E f \in [1 .. n -> S] : IsInjective(f)
    BY <1>4 DEF ExistsBijection, Bijection, Injection
  <1>6. FreeSeq \in [1 .. n -> S] /\ IsInjective(FreeSeq)
    <2> HIDE DEF n
    <2> QED
      BY <1>3, <1>5
  <1> HIDE DEF n
  <1>7. FreeSeq \in Seq(Clusters)
    <2>1. FreeSeq \in [1 .. n -> Clusters]
      BY <1>1, <1>6
    <2> QED
      BY <1>4, <2>1
  <1> QED
    BY <1>2, <1>6, <1>7 DEF IsInjective

LEMMA GrowIs ==
  ASSUME fat \in [Clusters -> BOOLEAN], NEW n \in Nat, n <= Len(FreeSeq), NEW G, G = Grow(n)
  PROVE  /\ G \in Seq(Writes) /\ Len(G) = 3 * n
         /\ \A k \in 1 .. 3 * n : /\ G[k] = Link <=> k % 3 = 0
                                  /\ G[k].t \in {"fat", "zero", "link"} /\ (G[k].t = "link" <=> G[k] = Link)
                                  /\ G[k].t \in {"fat", "zero"} => \E l \in 1 .. n : G[k].c = FreeSeq[l]
                                  /\ G[k].t = "fat" => G[k].v
  <1>1. FreeSeq \in Seq(Clusters) /\ DOMAIN FreeSeq = 1 .. Len(FreeSeq) /\ Len(FreeSeq) \in Nat
    BY FreeSeqIs
  <1>2. ASSUME NEW k \in 1 .. 3 * n
        PROVE  /\ G[k] \in Writes /\ (G[k] = Link <=> k % 3 = 0)
               /\ G[k].t \in {"fat", "zero", "link"} /\ (G[k].t = "link" <=> G[k] = Link)
               /\ G[k].t \in {"fat", "zero"} => \E l \in 1 .. n : G[k].c = FreeSeq[l]
               /\ G[k].t = "fat" => G[k].v
    <2> DEFINE l == (k + 2) \div 3
               c == FreeSeq[l]
    <2>1. l \in 1 .. n /\ k % 3 \in 0 .. 2
      OBVIOUS
    <2>2. c \in Clusters
      BY <1>1, <2>1
    <2>3. G[k] = CASE k % 3 = 1 -> Fat(c, TRUE) [] k % 3 = 2 -> Zero(c) [] OTHER -> Link
      BY DEF Grow
    <2> HIDE DEF c
    <2>4. CASE k % 3 = 1
      <3>1. G[k] = [t |-> "fat", c |-> c, v |-> TRUE]
        BY <2>3, <2>4 DEF Fat
      <3> QED
        BY <2>1, <2>2, <2>4, <3>1 DEF Writes, Link, c
    <2>5. CASE k % 3 = 2
      <3>1. G[k] = [t |-> "zero", c |-> c]
        BY <2>3, <2>5 DEF Zero
      <3> QED
        BY <2>1, <2>2, <2>5, <3>1 DEF Writes, Link, c
    <2>6. CASE k % 3 = 0
      <3>1. G[k] = Link
        <4>1. k % 3 # 1 /\ k % 3 # 2
          BY <2>6
        <4> QED
          BY <2>3, <4>1, Zenon
      <3> QED
        BY <2>6, <3>1 DEF Writes, Link
    <2> QED
      BY <2>1, <2>4, <2>5, <2>6
  <1>3. DOMAIN G = 1 .. 3 * n /\ G = [k \in 1 .. 3 * n |-> G[k]]
    BY DEF Grow
  <1>4. G \in [1 .. 3 * n -> Writes]
    BY <1>2, <1>3
  <1>5. 3 * n \in Nat
    OBVIOUS
  <1> QED
    BY <1>2, <1>4, <1>5

LEMMA GrowClusters ==
  ASSUME fat \in [Clusters -> BOOLEAN], NEW n \in Nat, n <= Len(FreeSeq), NEW G, G = Grow(n),
         NEW k \in 1 .. 3 * n, G[k].t \in {"fat", "zero"}
  PROVE  G[k].c \in Clusters /\ ~fat[G[k].c]
  <1>1. PICK l \in 1 .. n : G[k].c = FreeSeq[l]
    BY GrowIs
  <1>2. FreeSeq \in Seq(Clusters) /\ (\A j \in DOMAIN FreeSeq : ~fat[FreeSeq[j]]) /\ Len(FreeSeq) \in Nat
    BY FreeSeqIs
  <1>3. l \in DOMAIN FreeSeq
    BY <1>1, <1>2
  <1> QED
    BY <1>1, <1>2, <1>3

LEMMA RoomIs ==
  ASSUME slots \in Seq(DirEntries), NEW n \in Nat, NEW at \in 1 .. Len(slots) + 1
  PROVE  /\ NewClusters(at, n + 1) \in Nat
         /\ at + n <= Len(slots) + PerCluster * NewClusters(at, n + 1)
  <1> DEFINE N == Len(slots)
             x == at + n - N
  <1>0. N \in Nat /\ PerCluster \in Nat \ {0} /\ at \in Nat /\ at + (n + 1) - 1 = at + n /\ at + (n + 1) - 1 - N = x
    BY DirNumbers
  <1>1. CASE at + n <= N
    <2>1. NewClusters(at, n + 1) = 0
      BY <1>0, <1>1 DEF NewClusters
    <2> QED
      BY <1>0, <1>1, <2>1
  <1>2. CASE at + n > N
    <2>1. NewClusters(at, n + 1) = CeilDiv(x, PerCluster) /\ x \in Nat
      BY <1>0, <1>2 DEF NewClusters
    <2>2. PICK q \in Nat : q = CeilDiv(x, PerCluster) /\ q * PerCluster >= x
      <3> HIDE DEF x
      <3> QED
        BY <1>0, <2>1, CeilIs
    <2>3. q * PerCluster = PerCluster * q
      BY <1>0
    <2> QED
      BY <1>0, <2>1, <2>2, <2>3
  <1> QED
    BY <1>0, <1>1, <1>2

-----------------------------------------------------------------------------
(* A write reaches the disk, or the power fails. *)

LEMMA TailIs ==
  ASSUME NEW S, NEW T \in Seq(S), T # <<>>
  PROVE  /\ Tail(T) \in Seq(S) /\ Len(Tail(T)) = Len(T) - 1 /\ Len(T) \in Nat /\ 1 \in DOMAIN T
         /\ Head(T) = T[1] /\ T[1] \in S
         /\ \A k \in DOMAIN Tail(T) : k \in Nat /\ k # 0 /\ k + 1 \in DOMAIN T /\ Tail(T)[k] = T[k + 1]
         /\ \A k \in DOMAIN T : k \in Nat /\ (k = 1 \/ (k - 1 \in DOMAIN Tail(T) /\ Tail(T)[k - 1] = T[k]))
  OBVIOUS

LEMMA WriteKinds ==
  ASSUME NEW w \in Writes
  PROVE  /\ w.t \in {"fat", "zero", "dot", "link", "put"}
         /\ w.t = "fat" => w.c \in Clusters /\ w.v \in BOOLEAN /\ w = Fat(w.c, w.v)
         /\ w.t = "zero" => w.c \in Clusters
         /\ w.t = "dot" => w.c \in Clusters /\ w.n \in 0 .. 2 /\ w = Dot(w.c, w.n)
         /\ w.t = "link" => w = Link
         /\ w.t = "put" => w.i \in Nat \ {0} /\ w.e \in DirEntries /\ w.e # End
  BY DEF Writes, Link, Fat, Dot

\* No cluster is still to be linked when the next write is an entry.
LEMMA RoomNow ==
  ASSUME DirTyped, Roomy, todo # <<>>, todo[1].t = "put"
  PROVE  todo[1].i \in DOMAIN slots
  <1>1. slots \in Seq(DirEntries) /\ todo \in Seq(Writes) /\ PerCluster \in Nat
    BY DirNumbers DEF DirTyped
  <1>2. 1 \in DOMAIN todo /\ DOMAIN todo = 1 .. Len(todo) /\ Len(todo) \in Nat
    BY <1>1, TailIs
  <1>3. PICK r \in Nat, m \in Nat :
          /\ \A q \in 0 .. r - 1 : m - 3 * q \in DOMAIN todo
          /\ \A k \in DOMAIN todo : PutAt(k) => k > m /\ todo[k].i <= Len(slots) + PerCluster * r
    BY DEF Roomy
  <1>4. todo[1].i \in Nat \ {0}
    BY <1>1, <1>2, TailIs, WriteKinds
  <1>5. 1 > m /\ todo[1].i <= Len(slots) + PerCluster * r
    BY <1>2, <1>3 DEF PutAt
  <1>6. r = 0
    <2>1. r # 0 => 0 \in 0 .. r - 1 /\ m - 3 * 0 = 0
      BY <1>5
    <2> QED
      BY <1>2, <1>3, <2>1
  <1>7. PerCluster * r = 0
    BY <1>1, <1>6
  <1> QED
    BY <1>1, <1>4, <1>5, <1>7

\* The entries after a write.
Written(w) ==
  /\ slots' \in Seq(DirEntries)
  /\ Len(slots') = Len(slots) + IF w.t = "link" THEN PerCluster ELSE 0
  /\ DOMAIN slots \subseteq DOMAIN slots'
  /\ \A i \in DOMAIN slots' :
       slots'[i] = IF w.t = "put" /\ i = w.i THEN w.e ELSE IF i \in DOMAIN slots THEN slots[i] ELSE End

LEMMA WrittenIs ==
  ASSUME DirTyped, Roomy, Step, NEW w, w = todo[1]
  PROVE  /\ Written(w) /\ (w.t = "put" => w.i \in DOMAIN slots)
         /\ w \in Writes /\ todo # <<>> /\ todo' = Tail(todo)
         /\ UNCHANGED <<hurt, touched, count>>
  <1>1. slots \in Seq(DirEntries) /\ todo \in Seq(Writes) /\ PerCluster \in Nat /\ todo # <<>>
    BY DirNumbers DEF DirTyped, Step
  <1>2. w \in Writes /\ Head(todo) = w
    BY <1>1, TailIs
  <1>3. slots' = CASE w.t = "put" -> [slots EXCEPT ![w.i] = w.e]
                   [] w.t = "link" -> slots \o [k \in 1 .. PerCluster |-> End]
                   [] OTHER -> slots
    BY <1>2 DEF Step, Apply
  <1>4. w.t = "put" => w.i \in DOMAIN slots
    BY <1>1, RoomNow
  <1>5. CASE w.t = "put"
    <2>1. w.e \in DirEntries
      BY <1>2, <1>5, WriteKinds
    <2>2. slots' = [slots EXCEPT ![w.i] = w.e]
      BY <1>3, <1>5
    <2> QED
      BY <1>1, <1>2, <1>4, <1>5, <2>1, <2>2 DEF Written, Step
  <1>6. CASE w.t = "link"
    <2> DEFINE E == [k \in 1 .. PerCluster |-> End]
    <2>1. E \in Seq(DirEntries) /\ Len(E) = PerCluster /\ \A k \in 1 .. PerCluster : E[k] = End
      BY <1>1 DEF DirEntries
    <2>2. slots' = slots \o E
      BY <1>3, <1>6
    <2> HIDE DEF E
    <2>3. /\ slots' \in Seq(DirEntries) /\ Len(slots') = Len(slots) + PerCluster
          /\ DOMAIN slots' = 1 .. Len(slots) + PerCluster /\ DOMAIN slots = 1 .. Len(slots) /\ Len(slots) \in Nat
      <3>1. slots \o E \in Seq(DirEntries) /\ Len(slots \o E) = Len(slots) + Len(E)
        BY <1>1, <2>1
      <3>2. slots' \in Seq(DirEntries) /\ Len(slots') = Len(slots) + PerCluster
        BY <2>1, <2>2, <3>1
      <3> QED
        BY <1>1, <3>2
    <2>4. ASSUME NEW i \in DOMAIN slots'
          PROVE  slots'[i] = IF i \in DOMAIN slots THEN slots[i] ELSE End
      <3>1. CASE i \in DOMAIN slots
        BY <1>1, <2>1, <2>2, <3>1
      <3>2. CASE i \notin DOMAIN slots
        <4>1. i - Len(slots) \in 1 .. PerCluster
          BY <1>1, <2>3, <3>2
        <4>2. slots'[i] = E[i - Len(slots)]
          BY <1>1, <2>1, <2>2, <2>3, <3>2, <4>1
        <4> QED
          BY <2>1, <3>2, <4>1, <4>2
      <3> QED
        BY <3>1, <3>2
    <2>5. DOMAIN slots \subseteq DOMAIN slots'
      BY <1>1, <2>3
    <2> QED
      BY <1>1, <1>2, <1>6, <2>3, <2>4, <2>5 DEF Written, Step
  <1>7. CASE w.t \notin {"put", "link"}
    <2>1. slots' = slots
      BY <1>3, <1>7
    <2>2. Written(w)
      BY <1>1, <1>7, <2>1 DEF Written
    <2> QED
      BY <1>1, <1>2, <1>7, <2>2 DEF Step
  <1> QED
    BY <1>5, <1>6, <1>7

LEMMA OpIs ==
  ASSUME NEW o \in Ops, o # NoOp
  PROVE  /\ o.kind \in {"grow", "create", "write", "truncate", "unlink"} /\ o.begun \in BOOLEAN /\ o.sn \in SNames
         /\ o.kind = "create" => o.file \in Files
         /\ o.kind \in {"write", "truncate"} => o.cluster \in {0} \cup Clusters
         /\ o.kind \in {"write", "truncate", "unlink"} => o.id \in Nat
  BY DEF Ops, NoOp

LEMMA BegunIs ==
  ASSUME NEW o \in Ops, o # NoOp, NEW p, p = [o EXCEPT !.begun = TRUE]
  PROVE  /\ p \in Ops /\ p # NoOp /\ p.kind = o.kind /\ p.begun = TRUE /\ p.sn = o.sn
         /\ o.kind = "create" => p.file = o.file
         /\ o.kind \in {"write", "truncate"} => p.cluster = o.cluster
         /\ o.kind \in {"write", "truncate", "unlink"} => p.id = o.id
  <1>1. CASE o \in [kind : {"grow"}, begun : BOOLEAN, sn : SNames]
    BY <1>1 DEF Ops, NoOp
  <1>2. CASE o \in [kind : {"create"}, begun : BOOLEAN, sn : SNames, file : Files]
    BY <1>2 DEF Ops, NoOp
  <1>3. CASE o \in [kind : {"write", "truncate"}, begun : BOOLEAN, sn : SNames, id : Nat, cluster : {0} \cup Clusters]
    BY <1>3 DEF Ops, NoOp
  <1>4. CASE o \in [kind : {"unlink"}, begun : BOOLEAN, sn : SNames, id : Nat]
    BY <1>4 DEF Ops, NoOp
  <1> QED
    BY <1>1, <1>2, <1>3, <1>4 DEF Ops

LEMMA FileIs ==
  ASSUME NEW f \in Files, NEW c \in {0} \cup Clusters, NEW g, g = [f EXCEPT !.cluster = c]
  PROVE  /\ g \in Files /\ g.name = f.name /\ g.id = f.id /\ g.sn = f.sn /\ g.dir = f.dir /\ g.cluster = c
  BY DEF Files

LEMMA ReturnedIs ==
  ASSUME op \in Ops, op # NoOp, files \subseteq Files
  PROVE  /\ Returned \subseteq Files
         /\ op.kind = "create" => Returned = files \cup {op.file}
         /\ op.kind = "unlink" => Returned = {f \in files : f.id # op.id}
         /\ op.kind \in {"write", "truncate"} =>
              Returned = {IF f.id = op.id THEN [f EXCEPT !.cluster = op.cluster] ELSE f : f \in files}
         /\ op.kind = "grow" => Returned = files
  <1>1. CASE op.kind = "create"
    BY <1>1, OpIs DEF Returned
  <1>2. CASE op.kind = "unlink"
    BY <1>2, OpIs DEF Returned
  <1>3. CASE op.kind \in {"write", "truncate"}
    <2>1. Returned = {IF f.id = op.id THEN [f EXCEPT !.cluster = op.cluster] ELSE f : f \in files}
      BY <1>3 DEF Returned
    <2>2. ASSUME NEW f \in files PROVE (IF f.id = op.id THEN [f EXCEPT !.cluster = op.cluster] ELSE f) \in Files
      BY <1>3, OpIs, FileIs
    <2> QED
      BY <1>3, <2>1, <2>2
  <1>4. CASE op.kind = "grow"
    BY <1>4 DEF Returned
  <1> QED
    BY <1>1, <1>2, <1>3, <1>4, OpIs

LEMMA StepTyped == DirBasics /\ Step => DirTyped'
  <1> SUFFICES ASSUME DirBasics, Step PROVE DirTyped'
    OBVIOUS
  <1> DEFINE w == todo[1]
  <1>1. DirTyped /\ Roomy /\ Distinct
    BY DEF DirBasics
  <1>2. /\ Written(w) /\ w \in Writes /\ todo # <<>> /\ todo' = Tail(todo)
        /\ UNCHANGED <<hurt, touched, count>> /\ todo \in Seq(Writes) /\ Head(todo) = w /\ 1 \in DOMAIN todo
    BY <1>1, WrittenIs, TailIs DEF DirTyped
  <1>3. fat' \in [Clusters -> BOOLEAN] /\ dots' \in [Clusters -> 0 .. 2]
    <2>1. fat \in [Clusters -> BOOLEAN] /\ dots \in [Clusters -> 0 .. 2]
      BY <1>1 DEF DirTyped
    <2>2. fat' = IF w.t = "fat" THEN [fat EXCEPT ![w.c] = w.v] ELSE fat
      BY <1>2 DEF Step, Apply
    <2>3. dots' = CASE w.t = "zero" -> [dots EXCEPT ![w.c] = 0]
                    [] w.t = "dot" -> [dots EXCEPT ![w.c] = w.n]
                    [] OTHER -> dots
      BY <1>2 DEF Step, Apply
    <2>4. (w.t = "fat" => w.v \in BOOLEAN) /\ (w.t = "dot" => w.n \in 0 .. 2)
      BY <1>2, WriteKinds
    <2>5. fat' \in [Clusters -> BOOLEAN]
      BY <2>1, <2>2, <2>4
    <2>6. dots' \in [Clusters -> 0 .. 2]
      <3>1. CASE w.t = "zero"
        <4>1. dots' = [dots EXCEPT ![w.c] = 0] /\ 0 \in 0 .. 2
          BY <2>3, <3>1
        <4> QED
          BY <2>1, <4>1
      <3>2. CASE w.t = "dot"
        BY <2>1, <2>3, <2>4, <3>2
      <3>3. CASE w.t \notin {"zero", "dot"}
        BY <2>1, <2>3, <3>3
      <3> QED
        BY <3>1, <3>2, <3>3
    <2> QED
      BY <2>5, <2>6
  <1>4. /\ todo' \in Seq(Writes) /\ op' \in Ops /\ (todo' = <<>> <=> op' = NoOp) /\ files' \subseteq Files
    <2>1. op \in Ops /\ op # NoOp /\ files \subseteq Files
      BY <1>1, <1>2 DEF DirTyped
    <2>2. todo' \in Seq(Writes)
      BY <1>2, TailIs
    <2>3. CASE Tail(todo) = <<>>
      <3>1. op' = NoOp /\ files' = Returned
        BY <2>3 DEF Step
      <3> QED
        BY <1>2, <2>1, <2>2, <2>3, <3>1, ReturnedIs DEF Ops
    <2>4. CASE Tail(todo) # <<>>
      <3>1. op' = [op EXCEPT !.begun = TRUE] /\ files' = files
        BY <2>4 DEF Step
      <3> QED
        BY <1>2, <2>1, <2>2, <2>4, <3>1, BegunIs
    <2> QED
      BY <2>3, <2>4
  <1>5. slots' \in Seq(DirEntries) /\ \E q \in Nat : Len(slots') = PerCluster * q
    <2>1. PICK q \in Nat : Len(slots) = PerCluster * q
      BY <1>1 DEF DirTyped
    <2>2. CASE w.t = "link"
      <3>1. Len(slots') = PerCluster * (q + 1) /\ q + 1 \in Nat
        BY <1>2, <2>1, <2>2, DirNumbers, MultipleIs DEF Written
      <3> QED
        BY <1>2, <3>1 DEF Written
    <2>3. CASE w.t # "link"
      <3>1. Len(slots') = PerCluster * q
        BY <1>2, <2>1, <2>3, DirNumbers DEF Written
      <3> QED
        BY <1>2, <3>1 DEF Written
    <2> QED
      BY <2>2, <2>3
  <1>6. ASSUME NEW i \in DOMAIN slots', slots'[i].k = "short" PROVE slots'[i].cluster \in {0} \cup Clusters
    <2>1. CASE w.t = "put" /\ i = w.i
      <3>1. slots'[i] = w.e
        BY <1>2, <2>1 DEF Written
      <3>2. PutAt(1)
        BY <1>2, <2>1 DEF PutAt
      <3> QED
        BY <1>1, <1>2, <1>6, <3>1, <3>2 DEF Distinct
    <2>2. CASE ~(w.t = "put" /\ i = w.i)
      <3>1. slots'[i] = IF i \in DOMAIN slots THEN slots[i] ELSE End
        BY <1>2, <2>2 DEF Written
      <3> QED
        BY <1>1, <1>6, <3>1 DEF DirTyped, End
    <2> QED
      BY <2>1, <2>2
  <1> QED
    <2>1. hurt' \subseteq SNames /\ touched' \in BOOLEAN /\ count' \in [file : Nat, crash : Nat]
      BY <1>1, <1>2 DEF DirTyped
    <2> QED
      BY <1>3, <1>4, <1>5, <1>6, <2>1 DEF DirTyped

LEMMA StepPacked == DirBasics /\ Step => Packed'
  <1> SUFFICES ASSUME DirBasics, Step PROVE Packed'
    OBVIOUS
  <1> DEFINE w == todo[1]
  <1>1. DirTyped /\ Roomy /\ Packed
    BY DEF DirBasics
  <1>2. /\ Written(w) /\ w \in Writes /\ todo # <<>> /\ todo' = Tail(todo) /\ (w.t = "put" => w.i \in DOMAIN slots)
        /\ todo \in Seq(Writes)
    BY <1>1, WrittenIs DEF DirTyped
  <1>3. /\ 1 \in DOMAIN todo /\ DOMAIN todo = 1 .. Len(todo)
        /\ \A k \in DOMAIN todo' : k \in Nat /\ k # 0 /\ k + 1 \in DOMAIN todo /\ todo'[k] = todo[k + 1]
        /\ \A k \in DOMAIN todo : k \in Nat /\ (k = 1 \/ (k - 1 \in DOMAIN todo' /\ todo'[k - 1] = todo[k]))
    BY <1>2, TailIs
  <1>4. /\ DOMAIN slots = 1 .. Len(slots) /\ Len(slots) \in Nat /\ DOMAIN slots' = 1 .. Len(slots')
        /\ Len(slots') \in Nat /\ DOMAIN slots \subseteq DOMAIN slots'
        /\ \A i \in DOMAIN slots' : slots'[i] = IF w.t = "put" /\ i = w.i THEN w.e
                                                ELSE IF i \in DOMAIN slots THEN slots[i] ELSE End
    BY <1>1, <1>2 DEF DirTyped, Written
  <1>5. w.t = "put" => w.e # End
    BY <1>2, WriteKinds
  <1>6. w.t = "put" => \A j \in 1 .. w.i - 1 : j \in DOMAIN slots /\ slots[j] # End
    <2> SUFFICES ASSUME w.t = "put" PROVE \A j \in 1 .. w.i - 1 : j \in DOMAIN slots /\ slots[j] # End
      OBVIOUS
    <2>1. PutAt(1)
      BY <1>3 DEF PutAt
    <2> QED
      BY <1>1, <1>3, <2>1 DEF Packed
  <1>7. ASSUME NEW i \in DOMAIN slots', NEW j \in DOMAIN slots', i < j, slots'[i] = End PROVE slots'[j] = End
    <2>1. ~(w.t = "put" /\ i = w.i)
      BY <1>4, <1>5, <1>7
    <2>2. ~(w.t = "put" /\ j = w.i)
      <3> SUFFICES ASSUME w.t = "put", j = w.i PROVE FALSE
        OBVIOUS
      <3>1. i \in 1 .. w.i - 1
        BY <1>4, <1>7
      <3> QED
        BY <1>4, <1>6, <1>7, <2>1, <3>1
    <2>3. slots'[i] = (IF i \in DOMAIN slots THEN slots[i] ELSE End)
          /\ slots'[j] = (IF j \in DOMAIN slots THEN slots[j] ELSE End)
      BY <1>4, <2>1, <2>2
    <2>4. j \in DOMAIN slots => i \in DOMAIN slots
      BY <1>4, <1>7
    <2> QED
      BY <1>1, <1>7, <2>3, <2>4 DEF Packed
  <1>8. ASSUME NEW k \in DOMAIN todo', PutAt(k)', NEW j \in 1 .. todo'[k].i - 1
        PROVE  \/ j \in DOMAIN slots' /\ slots'[j] # End
               \/ \E l \in 1 .. k - 1 : PutAt(l)' /\ todo'[l].i = j
    <2>1. k + 1 \in DOMAIN todo /\ PutAt(k + 1) /\ todo'[k] = todo[k + 1] /\ k \in Nat
      BY <1>3, <1>8 DEF PutAt
    <2>2. \/ j \in DOMAIN slots /\ slots[j] # End
          \/ \E l \in 1 .. (k + 1) - 1 : PutAt(l) /\ todo[l].i = j
      BY <1>1, <2>1 DEF Packed
    <2>3. CASE j \in DOMAIN slots /\ slots[j] # End
      <3>1. j \in DOMAIN slots' /\ slots'[j] # End
        BY <1>4, <1>5, <2>3
      <3> QED
        BY <3>1
    <2>4. ASSUME NEW l \in 1 .. (k + 1) - 1, PutAt(l), todo[l].i = j
          PROVE  \/ j \in DOMAIN slots' /\ slots'[j] # End
                 \/ \E q \in 1 .. k - 1 : PutAt(q)' /\ todo'[q].i = j
      <3>1. CASE l = 1
        <4>1. w.t = "put" /\ w.i = j
          BY <2>4, <3>1 DEF PutAt
        <4> QED
          BY <1>2, <1>4, <1>5, <4>1
      <3>2. CASE l # 1
        <4>1. l \in DOMAIN todo /\ l - 1 \in DOMAIN todo' /\ todo'[l - 1] = todo[l]
          BY <1>3, <2>4, <3>2 DEF PutAt
        <4>2. l - 1 \in 1 .. k - 1 /\ PutAt(l - 1)'
          BY <1>3, <2>1, <2>4, <3>2, <4>1 DEF PutAt
        <4> QED
          BY <2>4, <4>1, <4>2
      <3> QED
        BY <3>1, <3>2
    <2> QED
      BY <2>2, <2>3, <2>4
  <1> QED
    BY <1>7, <1>8 DEF Packed

LEMMA StepRoomy == DirBasics /\ Step => Roomy'
  <1> SUFFICES ASSUME DirBasics, Step PROVE Roomy'
    OBVIOUS
  <1> DEFINE w == todo[1]
  <1>1. DirTyped /\ Roomy
    BY DEF DirBasics
  <1>2. /\ Written(w) /\ w \in Writes /\ todo # <<>> /\ todo' = Tail(todo) /\ todo \in Seq(Writes)
    BY <1>1, WrittenIs DEF DirTyped
  <1>3. /\ 1 \in DOMAIN todo /\ DOMAIN todo = 1 .. Len(todo) /\ Len(todo) \in Nat
        /\ \A k \in DOMAIN todo' : k \in Nat /\ k # 0 /\ k + 1 \in DOMAIN todo /\ todo'[k] = todo[k + 1]
        /\ \A k \in DOMAIN todo : k \in Nat /\ (k = 1 \/ (k - 1 \in DOMAIN todo' /\ todo'[k - 1] = todo[k]))
    BY <1>2, TailIs
  <1>4. PICK r \in Nat, m \in Nat :
          /\ \A k \in DOMAIN todo : todo[k].t = "link" <=> \E q \in 0 .. r - 1 : k = m - 3 * q
          /\ \A q \in 0 .. r - 1 : m - 3 * q \in DOMAIN todo
          /\ \A k \in DOMAIN todo : PutAt(k) => k > m /\ todo[k].i <= Len(slots) + PerCluster * r
    BY <1>1 DEF Roomy
  <1>5. /\ Len(slots) \in Nat /\ PerCluster \in Nat \ {0}
        /\ Len(slots') = Len(slots) + IF w.t = "link" THEN PerCluster ELSE 0
    BY <1>1, <1>2, DirNumbers DEF DirTyped, Written
  <1>6. \A k \in DOMAIN todo' : PutAt(k)' => PutAt(k + 1)
    BY <1>3 DEF PutAt
  <1>7. CASE r = 0
    <2>1. w.t # "link"
      BY <1>3, <1>4, <1>7
    <2>2. \A k \in DOMAIN todo' : todo'[k].t # "link"
      BY <1>3, <1>4, <1>7
    <2>3. \A k \in DOMAIN todo' : PutAt(k)' => k > 0 /\ todo'[k].i <= Len(slots') + PerCluster * 0
      BY <1>3, <1>4, <1>5, <1>6, <1>7, <2>1
    <2> QED
      BY <2>2, <2>3 DEF Roomy
  <1>8. CASE r # 0 /\ w.t # "link"
    <2>1. \A q \in 0 .. r - 1 : m - 3 * q # 1 /\ m - 3 * q \in DOMAIN todo
      BY <1>3, <1>4, <1>8
    <2>2. \A q \in 0 .. r - 1 : (m - 1) - 3 * q \in DOMAIN todo'
      <3> SUFFICES ASSUME NEW q \in 0 .. r - 1 PROVE (m - 1) - 3 * q \in DOMAIN todo'
        OBVIOUS
      <3>1. m - 3 * q - 1 \in DOMAIN todo'
        BY <1>3, <2>1
      <3>2. m - 3 * q - 1 = (m - 1) - 3 * q
        OBVIOUS
      <3> QED
        BY <3>1, <3>2
    <2>3. m - 1 \in Nat
      <3>1. 0 \in 0 .. r - 1 /\ m - 3 * 0 = m
        BY <1>8
      <3> QED
        BY <1>3, <2>1, <3>1
    <2>4. ASSUME NEW k \in DOMAIN todo' PROVE todo'[k].t = "link" <=> \E q \in 0 .. r - 1 : k = (m - 1) - 3 * q
      <3>1. k + 1 \in DOMAIN todo /\ todo'[k] = todo[k + 1] /\ k \in Nat
        BY <1>3
      <3>2. \A q \in 0 .. r - 1 : k + 1 = m - 3 * q <=> k = (m - 1) - 3 * q
        BY <3>1
      <3> QED
        BY <1>4, <3>1, <3>2
    <2>5. \A k \in DOMAIN todo' : PutAt(k)' => k > m - 1 /\ todo'[k].i <= Len(slots') + PerCluster * r
      BY <1>3, <1>4, <1>5, <1>6, <1>8
    <2> QED
      BY <2>2, <2>3, <2>4, <2>5 DEF Roomy
  <1>9. CASE r # 0 /\ w.t = "link"
    <2>1. PICK q0 \in 0 .. r - 1 : 1 = m - 3 * q0
      BY <1>3, <1>4, <1>9
    <2>2. q0 = r - 1
      <3>1. q0 + 1 \in 0 .. r - 1 => m - 3 * (q0 + 1) \in DOMAIN todo
        BY <1>4
      <3>2. m - 3 * (q0 + 1) = -2
        BY <2>1
      <3> QED
        BY <1>3, <3>1, <3>2
    <2>3. \A q \in 0 .. (r - 1) - 1 : q \in 0 .. r - 1 /\ m - 3 * q # 1
      BY <2>1, <2>2
    <2>4. \A q \in 0 .. (r - 1) - 1 : (m - 1) - 3 * q \in DOMAIN todo'
      <3> SUFFICES ASSUME NEW q \in 0 .. (r - 1) - 1 PROVE (m - 1) - 3 * q \in DOMAIN todo'
        OBVIOUS
      <3>1. m - 3 * q - 1 \in DOMAIN todo'
        BY <1>3, <1>4, <2>3
      <3>2. m - 3 * q - 1 = (m - 1) - 3 * q
        OBVIOUS
      <3> QED
        BY <3>1, <3>2
    <2>5. m - 1 \in Nat /\ r - 1 \in Nat
      BY <1>9, <2>1
    <2>6. ASSUME NEW k \in DOMAIN todo'
          PROVE  todo'[k].t = "link" <=> \E q \in 0 .. (r - 1) - 1 : k = (m - 1) - 3 * q
      <3>1. k + 1 \in DOMAIN todo /\ todo'[k] = todo[k + 1] /\ k \in Nat /\ k # 0
        BY <1>3
      <3>2. \A q \in 0 .. r - 1 : k + 1 = m - 3 * q <=> k = (m - 1) - 3 * q
        BY <3>1
      <3>3. \A q \in 0 .. r - 1 : q = q0 \/ q \in 0 .. (r - 1) - 1
        BY <2>2
      <3>4. k # (m - 1) - 3 * q0
        BY <2>1, <3>1
      <3>5. todo'[k].t = "link" <=> \E q \in 0 .. r - 1 : k + 1 = m - 3 * q
        BY <1>4, <3>1
      <3> QED
        BY <2>3, <3>2, <3>3, <3>4, <3>5
    <2>7. Len(slots') + PerCluster * (r - 1) = Len(slots) + PerCluster * r
      <3>1. PerCluster * ((r - 1) + 1) = PerCluster * (r - 1) + PerCluster
        BY <1>5, <2>5, MultipleIs
      <3>2. (r - 1) + 1 = r
        BY <2>5
      <3> QED
        BY <1>5, <1>9, <2>5, <3>1, <3>2
    <2>8. \A k \in DOMAIN todo' : PutAt(k)' => k > m - 1 /\ todo'[k].i <= Len(slots') + PerCluster * (r - 1)
      BY <1>3, <1>4, <1>6, <2>7
    <2> QED
      BY <2>4, <2>5, <2>6, <2>8 DEF Roomy
  <1> QED
    BY <1>7, <1>8, <1>9

LEMMA StepDistinct == DirBasics /\ Step => Distinct'
  <1> SUFFICES ASSUME DirBasics, Step PROVE Distinct'
    OBVIOUS
  <1> DEFINE w == todo[1]
  <1>1. DirTyped /\ Roomy /\ Distinct
    BY DEF DirBasics
  <1>2. /\ Written(w) /\ w \in Writes /\ todo # <<>> /\ todo' = Tail(todo)
        /\ (w.t = "put" => w.i \in DOMAIN slots) /\ todo \in Seq(Writes) /\ UNCHANGED count
    BY <1>1, WrittenIs DEF DirTyped
  <1>3. /\ 1 \in DOMAIN todo /\ Len(todo') = Len(todo) - 1 /\ Len(todo) \in Nat
        /\ \A k \in DOMAIN todo' : k \in Nat /\ k # 0 /\ k + 1 \in DOMAIN todo /\ todo'[k] = todo[k + 1]
    BY <1>2, TailIs
  <1>4. \A i \in DOMAIN slots' : slots'[i] = IF w.t = "put" /\ i = w.i THEN w.e
                                              ELSE IF i \in DOMAIN slots THEN slots[i] ELSE End
    BY <1>2 DEF Written
  <1>5. ASSUME NEW i \in DOMAIN slots', slots'[i].k = "short", ~(w.t = "put" /\ i = w.i)
        PROVE  i \in DOMAIN slots /\ slots[i] = slots'[i]
    BY <1>4, <1>5 DEF End
  <1>6. w.t = "put" /\ w.e.k = "short" =>
          /\ w.e.id <= count.file
          /\ \A j \in DOMAIN slots : slots[j].k = "short" /\ j # w.i => slots[j].sn # w.e.sn /\ slots[j].id # w.e.id
    BY <1>1, <1>3 DEF Distinct, PutAt
  <1>7. ASSUME NEW i \in DOMAIN slots', NEW j \in DOMAIN slots', slots'[i].k = "short", slots'[j].k = "short", i # j
        PROVE  slots'[i].sn # slots'[j].sn /\ slots'[i].id # slots'[j].id
    <2>1. CASE w.t = "put" /\ i = w.i
      BY <1>4, <1>5, <1>6, <1>7, <2>1
    <2>2. CASE w.t = "put" /\ j = w.i
      BY <1>4, <1>5, <1>6, <1>7, <2>2
    <2>3. CASE ~(w.t = "put" /\ i = w.i) /\ ~(w.t = "put" /\ j = w.i)
      BY <1>1, <1>5, <1>7, <2>3 DEF Distinct
    <2> QED
      BY <2>1, <2>2, <2>3
  <1>8. ASSUME NEW i \in DOMAIN slots', slots'[i].k = "short" PROVE slots'[i].id <= count'.file
    <2>1. CASE w.t = "put" /\ i = w.i
      BY <1>2, <1>4, <1>6, <1>8, <2>1
    <2>2. CASE ~(w.t = "put" /\ i = w.i)
      BY <1>1, <1>2, <1>5, <1>8, <2>2 DEF Distinct
    <2> QED
      BY <2>1, <2>2
  <1>9. ASSUME NEW k \in DOMAIN todo', PutAt(k)', todo'[k].e.k = "short"
        PROVE  /\ todo'[k].e.id <= count'.file /\ k = Len(todo') /\ todo'[k].e.cluster \in {0} \cup Clusters
               /\ \A j \in DOMAIN slots' : slots'[j].k = "short" /\ j # todo'[k].i =>
                    slots'[j].sn # todo'[k].e.sn /\ slots'[j].id # todo'[k].e.id
    <2>1. k + 1 \in DOMAIN todo /\ todo'[k] = todo[k + 1] /\ PutAt(k + 1) /\ k \in Nat /\ k # 0
      BY <1>3, <1>9 DEF PutAt
    <2>2. /\ todo[k + 1].e.id <= count.file /\ k + 1 = Len(todo) /\ todo[k + 1].e.cluster \in {0} \cup Clusters
          /\ \A j \in DOMAIN slots : slots[j].k = "short" /\ j # todo[k + 1].i =>
               slots[j].sn # todo[k + 1].e.sn /\ slots[j].id # todo[k + 1].e.id
      BY <1>1, <1>9, <2>1 DEF Distinct
    <2>3. ASSUME NEW j \in DOMAIN slots', slots'[j].k = "short" PROVE j \in DOMAIN slots /\ slots[j] = slots'[j]
      <3>1. CASE w.t = "put" /\ w.e.k = "short"
        <4>1. PutAt(1) /\ 1 = Len(todo)
          BY <1>1, <1>3, <3>1 DEF Distinct, PutAt
        <4>2. k + 1 = 1 /\ k \in Nat
          BY <2>1, <2>2, <4>1
        <4>3. k = 0
          BY <4>2
        <4> QED
          BY <2>1, <4>3
      <3>2. CASE ~(w.t = "put" /\ w.e.k = "short")
        BY <1>4, <1>5, <2>3, <3>2
      <3> QED
        BY <3>1, <3>2
    <2>4. k = Len(todo')
      BY <1>3, <2>1, <2>2
    <2> QED
      BY <1>2, <2>1, <2>2, <2>3, <2>4
  <1>10. op \in Ops /\ op # NoOp /\ files \subseteq Files
    BY <1>1, <1>2 DEF DirTyped
  <1>11. count \in [file : Nat, crash : Nat] /\ count' = count
    BY <1>1, <1>2 DEF DirTyped
  <1>12. /\ \A f, g \in files : f.id = g.id => f = g
         /\ \A f \in files : f.id <= count.file
         /\ op.kind = "create" => op.file.id <= count.file /\ \A f \in files : f.id # op.file.id
    BY <1>1 DEF Distinct
  <1>13. CASE Tail(todo) # <<>>
    <2>1. op' = [op EXCEPT !.begun = TRUE] /\ files' = files
      BY <1>13 DEF Step
    <2>2. op'.kind = op.kind /\ (op.kind = "create" => op'.file = op.file)
      BY <1>10, <2>1, BegunIs
    <2>3. /\ \A f, g \in files' : f.id = g.id => f = g
          /\ \A f \in files' : f.id <= count'.file
          /\ op'.kind = "create" => op'.file.id <= count'.file /\ \A f \in files' : f.id # op'.file.id
      BY <1>11, <1>12, <2>1, <2>2
    <2> QED
      BY <1>7, <1>8, <1>9, <2>3 DEF Distinct
  <1>14. CASE Tail(todo) = <<>>
    <2>1. op' = NoOp /\ files' = Returned
      BY <1>14 DEF Step
    <2>2. op'.kind # "create"
      BY <2>1 DEF NoOp
    <2>3. (\A f, g \in files' : f.id = g.id => f = g) /\ \A f \in files' : f.id <= count.file
      <3>1. CASE op.kind = "create"
        <4>1. files' = files \cup {op.file}
          BY <1>10, <2>1, <3>1, ReturnedIs
        <4> QED
          BY <1>12, <3>1, <4>1
      <3>2. CASE op.kind \in {"unlink", "grow"}
        <4>1. files' \subseteq files
          BY <1>10, <2>1, <3>2, ReturnedIs
        <4> QED
          BY <1>12, <4>1
      <3>3. CASE op.kind \in {"write", "truncate"}
        <4> DEFINE Of(f) == IF f.id = op.id THEN [f EXCEPT !.cluster = op.cluster] ELSE f
        <4>1. files' = {Of(f) : f \in files}
          BY <1>10, <2>1, <3>3, ReturnedIs
        <4>2. \A f \in files : Of(f).id = f.id
          BY <1>10, <3>3, OpIs, FileIs
        <4> HIDE DEF Of
        <4>3. ASSUME NEW f \in files', NEW g \in files', f.id = g.id PROVE f = g
          <5>1. PICK u \in files, v \in files : f = Of(u) /\ g = Of(v)
            BY <4>1
          <5> QED
            BY <1>12, <4>2, <4>3, <5>1
        <4>4. ASSUME NEW f \in files' PROVE f.id <= count.file
          <5>1. PICK u \in files : f = Of(u)
            BY <4>1
          <5> QED
            BY <1>12, <4>2, <5>1
        <4> QED
          BY <4>3, <4>4
      <3> QED
        BY <1>10, <3>1, <3>2, <3>3, OpIs
    <2> QED
      BY <1>7, <1>8, <1>9, <1>11, <2>2, <2>3 DEF Distinct
  <1> QED
    BY <1>13, <1>14

LEMMA StepBasics == DirBasics /\ Step => DirBasics'
  BY StepTyped, StepPacked, StepRoomy, StepDistinct DEF DirBasics

LEMMA CrashBasics == DirBasics /\ Crash => DirBasics'
  <1> SUFFICES ASSUME DirBasics, Crash PROVE DirBasics'
    OBVIOUS
  <1>1. DirTyped /\ Packed /\ Distinct
    BY DEF DirBasics
  <1>2. /\ todo' = <<>> /\ op' = NoOp /\ UNCHANGED <<slots, fat, dots, files, touched>>
        /\ hurt' = (IF Cuts THEN hurt \cup {op.sn} ELSE hurt) /\ count' = [count EXCEPT !.crash = @ + 1]
    BY DEF Crash
  <1>3. count' \in [file : Nat, crash : Nat] /\ count'.file = count.file
    <2>1. count \in [file : Nat, crash : Nat]
      BY <1>1 DEF DirTyped
    <2>2. count' = [count EXCEPT !.crash = @ + 1]
      BY <1>2
    <2> QED
      BY <2>1, <2>2
  <1>4. hurt' \subseteq SNames
    <2>1. Cuts => op.sn \in SNames
      BY <1>1, OpIs DEF DirTyped, Cuts, NoOp
    <2> QED
      BY <1>1, <1>2, <2>1 DEF DirTyped
  <1>5. DirTyped'
    BY <1>1, <1>2, <1>3, <1>4 DEF DirTyped, Ops
  <1>6. Packed'
    BY <1>1, <1>2 DEF Packed
  <1>7. Roomy'
    <2>1. DOMAIN todo' = {}
      BY <1>2
    <2>2. 0 .. 0 - 1 = {}
      OBVIOUS
    <2> QED
      BY <2>1, <2>2 DEF Roomy
  <1>8. Distinct'
    <2>1. DOMAIN todo' = {} /\ op'.kind # "create"
      BY <1>2 DEF NoOp
    <2> QED
      BY <1>1, <1>2, <1>3, <2>1 DEF Distinct
  <1> QED
    BY <1>5, <1>6, <1>7, <1>8 DEF DirBasics

LEMMA InitInv == DirInit => DirInv
  <1> SUFFICES ASSUME DirInit PROVE DirInv
    OBVIOUS
  <1>1. /\ slots = [i \in 1 .. PerCluster |-> End] /\ PerCluster \in Nat \ {0}
        /\ todo = <<>> /\ op = NoOp /\ files = {} /\ hurt = {} /\ touched = FALSE
        /\ count = [file |-> 0, crash |-> 0]
    BY DirNumbers DEF DirInit
  <1>2. /\ slots \in Seq(DirEntries) /\ Len(slots) = PerCluster /\ \A i \in DOMAIN slots : slots[i] = End
        /\ DOMAIN todo = {}
    BY <1>1 DEF DirEntries
  <1>3. Len(slots) = PerCluster * 1
    BY <1>1, <1>2
  <1>4. DirTyped
    <2>1. fat \in [Clusters -> BOOLEAN] /\ dots \in [Clusters -> 0 .. 2]
      BY DEF DirInit
    <2>2. op \in Ops /\ todo \in Seq(Writes) /\ count \in [file : Nat, crash : Nat]
      BY <1>1 DEF Ops
    <2>3. \A i \in DOMAIN slots : slots[i].k # "short"
      BY <1>2 DEF End
    <2> QED
      BY <1>1, <1>2, <1>3, <2>1, <2>2, <2>3 DEF DirTyped
  <1>5. Packed
    BY <1>2 DEF Packed
  <1>6. Roomy
    <2>1. 0 .. 0 - 1 = {}
      OBVIOUS
    <2> QED
      BY <1>2, <2>1 DEF Roomy
  <1>7. Distinct
    <2>1. op.kind # "create" /\ \A i \in DOMAIN slots : slots[i].k # "short"
      BY <1>1, <1>2 DEF NoOp, End
    <2> QED
      BY <1>1, <1>2, <2>1 DEF Distinct
  <1>8. NowRight /\ NowClusters
    <2>1. \A i \in Places : Now[i] = End
      BY <1>2, NowIs
    <2>2. \A i \in Places : \A s : NameOf(Now[i]) # <<s>>
      BY <2>1 DEF NameOf, End
    <2> QED
      BY <1>1, <2>2 DEF NowRight, NowClusters, Right
  <1> QED
    BY <1>1, <1>4, <1>5, <1>6, <1>7, <1>8 DEF DirInv, DirBasics

-----------------------------------------------------------------------------
(* The writes of each call. *)

Concat(S, A, B, C) ==
  /\ C \in Seq(S) /\ Len(C) = Len(A) + Len(B) /\ Len(A) \in Nat /\ Len(B) \in Nat /\ DOMAIN C = 1 .. Len(A) + Len(B)
  /\ \A k \in 1 .. Len(A) : C[k] = A[k] /\ A[k] \in S
  /\ \A k \in 1 .. Len(A) + Len(B) : k > Len(A) => k - Len(A) \in 1 .. Len(B) /\ C[k] = B[k - Len(A)]

LEMMA Concatenated ==
  ASSUME NEW S, NEW A \in Seq(S), NEW B \in Seq(S), NEW C, C = A \o B
  PROVE  Concat(S, A, B, C)
  <1>1. Len(A) \in Nat /\ Len(B) \in Nat /\ C \in Seq(S) /\ Len(C) = Len(A) + Len(B)
    OBVIOUS
  <1>2. ASSUME NEW k \in 1 .. Len(A) + Len(B), k > Len(A)
        PROVE  k - Len(A) \in 1 .. Len(B) /\ C[k] = B[k - Len(A)]
    <2>1. k - Len(A) \in 1 .. Len(B)
      BY <1>1, <1>2
    <2> QED
      BY <1>1, <1>2, <2>1
  <1>3. DOMAIN C = 1 .. Len(A) + Len(B) /\ \A k \in 1 .. Len(A) : C[k] = A[k] /\ A[k] \in S
    BY <1>1
  <1> QED
    BY <1>1, <1>2, <1>3 DEF Concat

LEMMA SomeSeq ==
  ASSUME NEW S, NEW W \in Seq(S), Len(W) # 0
  PROVE  W # <<>>
  OBVIOUS

LEMMA Tuple0 ==
  ASSUME NEW S, NEW A, A = <<>>
  PROVE  A \in Seq(S) /\ Len(A) = 0
  OBVIOUS

LEMMA Tuple1 ==
  ASSUME NEW S, NEW x \in S, NEW A, A = <<x>>
  PROVE  A \in Seq(S) /\ Len(A) = 1 /\ A[1] = x
  OBVIOUS

LEMMA Tuple4 ==
  ASSUME NEW S, NEW x \in S, NEW y \in S, NEW z \in S, NEW u \in S, NEW A, A = <<x, y, z, u>>
  PROVE  A \in Seq(S) /\ Len(A) = 4 /\ A[1] = x /\ A[2] = y /\ A[3] = z /\ A[4] = u
  OBVIOUS

LEMMA Listed1 ==
  ASSUME NEW S, NEW n \in Nat, NEW e, \A i \in 1 .. n : e[i] \in S, e = [i \in 1 .. n |-> e[i]]
  PROVE  e \in Seq(S) /\ Len(e) = n
  <1>1. e \in [1 .. n -> S]
    OBVIOUS
  <1> QED
    BY <1>1

\* d writes about a cluster, then an entry at each place from a.
Deletes(W, d, v) ==
  /\ W \in Seq(Writes) /\ d \in {0, 1} /\ Len(W) = d + v.lfn + 1 /\ DOMAIN W = 1 .. d + v.lfn + 1
  /\ d = 1 <=> v.e.cluster # 0
  /\ d = 1 => W[1] = Fat(v.e.cluster, FALSE)
  /\ \A k \in d + 1 .. d + v.lfn + 1 : W[k] = Put(v.at - v.lfn + (k - d) - 1, Del)

LEMMA UnlinkIs ==
  ASSUME DirTyped, NEW v, SeenAt(v)
  PROVE  \E d : Deletes(UnlinkWrites(v), d, v)
  <1> DEFINE n == v.lfn
             d == IF v.e.cluster # 0 THEN 1 ELSE 0
             A == IF v.e.cluster # 0 THEN <<Fat(v.e.cluster, FALSE)>> ELSE <<>>
             B == [i \in 1 .. (n + 1) |-> Put(v.at - n + i - 1, Del)]
             W == UnlinkWrites(v)
  <1>1. n \in Nat /\ v.at \in Nat /\ n < v.at /\ v.e.cluster \in {0} \cup Clusters /\ n + 1 \in Nat
    BY DEF DirTyped, SeenAt, Views, Shorts
  <1>2. W = A \o B
    BY DEF UnlinkWrites
  <1>3. A \in Seq(Writes) /\ Len(A) = d /\ (d = 1 => A[1] = Fat(v.e.cluster, FALSE))
    <2>1. v.e.cluster # 0 => Fat(v.e.cluster, FALSE) \in Writes
      BY <1>1 DEF Fat, Writes
    <2>2. CASE v.e.cluster # 0
      <3>1. PICK x \in Writes : x = Fat(v.e.cluster, FALSE)
        BY <2>1, <2>2
      <3>2. A = <<x>> /\ d = 1
        BY <2>2, <3>1
      <3> HIDE DEF A, d
      <3>3. A \in Seq(Writes) /\ Len(A) = 1 /\ A[1] = x
        BY <3>2, Tuple1
      <3> QED
        BY <3>1, <3>2, <3>3
    <2>3. CASE v.e.cluster = 0
      <3>1. A = <<>> /\ d = 0
        BY <2>3
      <3> HIDE DEF A, d
      <3>2. A \in Seq(Writes) /\ Len(A) = 0
        BY <3>1, Tuple0
      <3> QED
        BY <3>1, <3>2
    <2> QED
      BY <2>2, <2>3
  <1>4. \A i \in 1 .. n + 1 : B[i] = Put(v.at - n + i - 1, Del) /\ B[i] \in Writes
    <2> SUFFICES ASSUME NEW i \in 1 .. n + 1 PROVE Put(v.at - n + i - 1, Del) \in Writes
      OBVIOUS
    <2>1. v.at - n + i - 1 \in Nat \ {0} /\ Del \in DirEntries /\ Del # End
      BY <1>1 DEF DirEntries, Del, End
    <2> QED
      BY <2>1 DEF Put, Writes
  <1>5. B \in Seq(Writes) /\ Len(B) = n + 1
    <2>1. B = [i \in 1 .. n + 1 |-> B[i]]
      OBVIOUS
    <2> HIDE DEF B
    <2>2. PICK m \in Nat : m = n + 1
      BY <1>1
    <2>3. B = [i \in 1 .. m |-> B[i]] /\ \A i \in 1 .. m : B[i] \in Writes
      BY <1>4, <2>1, <2>2
    <2>4. B \in Seq(Writes) /\ Len(B) = m
      BY <2>3, Listed1
    <2> QED
      BY <2>2, <2>4
  <1>6. d \in {0, 1} /\ (d = 1 <=> v.e.cluster # 0)
    OBVIOUS
  <1> HIDE DEF A, B, W, d
  <1>7. /\ W \in Seq(Writes) /\ Len(W) = d + n + 1 /\ DOMAIN W = 1 .. d + n + 1
        /\ d = 1 => W[1] = A[1]
        /\ \A k \in d + 1 .. d + n + 1 : k - d \in 1 .. n + 1 /\ W[k] = B[k - d]
    <2>1. /\ W \in Seq(Writes) /\ Len(W) = d + (n + 1) /\ DOMAIN W = 1 .. d + (n + 1)
          /\ \A k \in 1 .. d : W[k] = A[k]
          /\ \A k \in 1 .. d + (n + 1) : k > d => k - d \in 1 .. n + 1 /\ W[k] = B[k - d]
      <3>1. Concat(Writes, A, B, W)
        BY <1>2, <1>3, <1>5, Concatenated
      <3> QED
        BY <1>3, <1>5, <3>1 DEF Concat
    <2>2. d + (n + 1) = d + n + 1 /\ \A k \in d + 1 .. d + n + 1 : k \in 1 .. d + (n + 1) /\ k > d
      BY <1>1, <1>6
    <2> QED
      BY <1>1, <1>6, <2>1, <2>2
  <1>8. \A k \in d + 1 .. d + n + 1 : W[k] = Put(v.at - n + (k - d) - 1, Del)
    BY <1>4, <1>7
  <1> QED
    BY <1>3, <1>6, <1>7, <1>8 DEF Deletes, W

\* The writes of a create with m new clusters and, for a directory, d = 4 writes
\* to its own cluster c.
Creates(W, m, d, n, at, name, sn, id, dir, c) ==
  /\ W \in Seq(Writes) /\ Len(W) = 3 * m + d + n + 1 /\ DOMAIN W = 1 .. 3 * m + d + n + 1
  /\ d = IF dir THEN 4 ELSE 0
  /\ \A k \in 1 .. 3 * m : W[k] = Grow(m)[k]
  /\ dir => /\ W[3 * m + 1] = Fat(c, TRUE) /\ W[3 * m + 2] = Zero(c)
            /\ W[3 * m + 3] = Dot(c, 1) /\ W[3 * m + 4] = Dot(c, 2)
  /\ \A i \in 1 .. n : W[3 * m + d + i] = Put(at + i - 1, fat32_fill_lfn_entry(name, n - i + 1, i = 1, sn))
  /\ W[3 * m + d + n + 1] = Put(at + n, Short(sn, id, dir, c))

CreateWrites(m, n, at, name, sn, id, dir, c) ==
  Grow(m) \o (IF dir THEN MkdirWrites(c) ELSE <<>>) \o LfnWrites(name, at, n, sn)
  \o <<Put(at + n, Short(sn, id, dir, c))>>

LEMMA CreateIs ==
  ASSUME DirTyped, NEW m \in Nat, m <= Len(FreeSeq), NEW dir \in BOOLEAN, NEW n \in Nat, NEW at \in Nat \ {0},
         NEW name \in Seq(Letters), NEW sn \in SNames, NEW id \in Nat,
         NEW c \in {0} \cup Clusters, dir => c \in Clusters
  PROVE  \E d \in {0, 4} :
           Creates(CreateWrites(m, n, at, name, sn, id, dir, c), m, d, n, at, name, sn, id, dir, c)
  <1> DEFINE G == Grow(m)
             d == IF dir THEN 4 ELSE 0
             M == IF dir THEN MkdirWrites(c) ELSE <<>>
             B == LfnWrites(name, at, n, sn)
             p == Put(at + n, Short(sn, id, dir, c))
             W == G \o M \o B \o <<p>>
             g == 3 * m
  <1>1. G \in Seq(Writes) /\ Len(G) = g /\ g \in Nat
    BY GrowIs DEF DirTyped
  <1>2. M \in Seq(Writes) /\ Len(M) = d /\ d \in {0, 4}
        /\ (dir => M[1] = Fat(c, TRUE) /\ M[2] = Zero(c) /\ M[3] = Dot(c, 1) /\ M[4] = Dot(c, 2))
    <2>1. dir => Fat(c, TRUE) \in Writes /\ Zero(c) \in Writes /\ Dot(c, 1) \in Writes /\ Dot(c, 2) \in Writes
      BY DEF Fat, Zero, Dot, Writes
    <2>2. CASE dir
      <3>1. PICK x \in Writes, y \in Writes, z \in Writes, u \in Writes :
              x = Fat(c, TRUE) /\ y = Zero(c) /\ z = Dot(c, 1) /\ u = Dot(c, 2)
        BY <2>1, <2>2
      <3>2. M = <<x, y, z, u>> /\ d = 4
        BY <2>2, <3>1 DEF MkdirWrites
      <3> HIDE DEF M, d
      <3>3. M \in Seq(Writes) /\ Len(M) = 4 /\ M[1] = x /\ M[2] = y /\ M[3] = z /\ M[4] = u
        BY <3>2, Tuple4
      <3> QED
        BY <3>1, <3>2, <3>3
    <2>3. CASE ~dir
      <3>1. M = <<>> /\ d = 0
        BY <2>3
      <3> HIDE DEF M, d
      <3>2. M \in Seq(Writes) /\ Len(M) = 0
        BY <3>1, Tuple0
      <3> QED
        BY <2>3, <3>1, <3>2
    <2> QED
      BY <2>2, <2>3
  <1>3. \A i \in 1 .. n : /\ B[i] = Put(at + i - 1, fat32_fill_lfn_entry(name, n - i + 1, i = 1, sn))
                          /\ B[i] \in Writes
    <2> SUFFICES ASSUME NEW i \in 1 .. n
                 PROVE  /\ B[i] = Put(at + i - 1, fat32_fill_lfn_entry(name, n - i + 1, i = 1, sn))
                        /\ B[i] \in Writes
      OBVIOUS
    <2> DEFINE e == fat32_fill_lfn_entry(name, n - i + 1, i = 1, sn)
    <2>1. B[i] = Put(at + i - 1, e)
      BY DEF LfnWrites
    <2>2. n - i + 1 \in Nat \ {0} /\ at + i - 1 \in Nat \ {0}
      OBVIOUS
    <2>3. e \in Lfns
      <3>1. CASE i = 1
        <4>1. e = fat32_fill_lfn_entry(name, n - i + 1, TRUE, sn)
          BY <3>1
        <4> HIDE DEF e
        <4> QED
          BY <2>2, <4>1, FillIs
      <3>2. CASE i # 1
        <4>1. e = fat32_fill_lfn_entry(name, n - i + 1, FALSE, sn)
          BY <3>2
        <4> HIDE DEF e
        <4> QED
          BY <2>2, <4>1, FillIs
      <3> QED
        BY <3>1, <3>2
    <2> HIDE DEF e
    <2>4. e \in DirEntries /\ e # End
      BY <2>3 DEF DirEntries, Lfns, End
    <2>5. B[i] \in Writes
      BY <2>1, <2>2, <2>4 DEF Put, Writes
    <2> QED
      BY <2>1, <2>5 DEF e
  <1>4. B \in Seq(Writes) /\ Len(B) = n
    <2>1. B = [i \in 1 .. n |-> B[i]]
      BY DEF LfnWrites
    <2> HIDE DEF B
    <2>2. \A i \in 1 .. n : B[i] \in Writes
      BY <1>3
    <2> QED
      BY <2>1, <2>2, Listed1
  <1>5. <<p>> \in Seq(Writes) /\ Len(<<p>>) = 1 /\ <<p>>[1] = p
    <2>1. Short(sn, id, dir, c) \in Shorts
      BY DEF Short, Shorts, Clusters
    <2>2. Short(sn, id, dir, c) \in DirEntries /\ Short(sn, id, dir, c) # End
      BY <2>1 DEF DirEntries, Shorts, End
    <2>3. p \in Writes
      BY <2>2 DEF Put, Writes
    <2>4. PICK x \in Writes : x = p
      BY <2>3
    <2>5. PICK A : A = <<x>>
      OBVIOUS
    <2>6. A \in Seq(Writes) /\ Len(A) = 1 /\ A[1] = x
      BY <2>5, Tuple1
    <2> HIDE DEF p
    <2> QED
      BY <2>4, <2>5, <2>6
  <1> DEFINE U == G \o M
             V == U \o B
  <1>6. W = V \o <<p>>
    OBVIOUS
  <1> HIDE DEF G, M, B, p, W, d, g
  <1>7. /\ U \in Seq(Writes) /\ Len(U) = g + d /\ \A k \in 1 .. g : U[k] = G[k]
        /\ \A k \in 1 .. g + d : k > g => k - g \in 1 .. d /\ U[k] = M[k - g]
    <2>1. Concat(Writes, G, M, U)
      BY <1>1, <1>2, Concatenated DEF U
    <2> HIDE DEF U
    <2> QED
      BY <1>1, <1>2, <2>1 DEF Concat
  <1> HIDE DEF U
  <1>8. /\ V \in Seq(Writes) /\ Len(V) = g + d + n /\ \A k \in 1 .. g + d : V[k] = U[k]
        /\ \A k \in 1 .. g + d + n : k > g + d => k - (g + d) \in 1 .. n /\ V[k] = B[k - (g + d)]
    <2>1. Concat(Writes, U, B, V)
      BY <1>4, <1>7, Concatenated DEF V
    <2> HIDE DEF V
    <2> QED
      BY <1>4, <1>7, <2>1 DEF Concat
  <1> HIDE DEF V
  <1>9. /\ W \in Seq(Writes) /\ Len(W) = g + d + n + 1 /\ DOMAIN W = 1 .. g + d + n + 1
        /\ \A k \in 1 .. g + d + n : W[k] = V[k]
        /\ \A k \in 1 .. g + d + n + 1 : k > g + d + n => W[k] = <<p>>[k - (g + d + n)]
    <2>1. PICK P \in Seq(Writes) : P = <<p>> /\ Len(P) = 1
      BY <1>5
    <2>2. W = V \o P
      BY <1>6, <2>1
    <2>3. Concat(Writes, V, P, W)
      BY <1>8, <2>2, Concatenated
    <2> QED
      BY <1>8, <2>1, <2>3 DEF Concat
  <1>10. \A k \in 1 .. g : W[k] = G[k]
    <2>1. \A k \in 1 .. g : k \in 1 .. g + d /\ k \in 1 .. g + d + n
      BY <1>1, <1>2
    <2> QED
      BY <1>7, <1>8, <1>9, <2>1
  <1>11. ASSUME dir PROVE W[g + 1] = M[1] /\ W[g + 2] = M[2] /\ W[g + 3] = M[3] /\ W[g + 4] = M[4]
    <2>1. d = 4
      BY <1>11 DEF d
    <2>2. ASSUME NEW j \in 1 .. 4 PROVE W[g + j] = M[j]
      <3>1. g + j \in 1 .. g + d /\ g + j \in 1 .. g + d + n /\ g + j > g /\ (g + j) - g = j
        BY <1>1, <2>1
      <3> QED
        BY <1>7, <1>8, <1>9, <3>1
    <2> QED
      BY <2>2
  <1>12. ASSUME NEW i \in 1 .. n PROVE W[g + d + i] = B[i]
    <2>1. g + d + i \in 1 .. g + d + n /\ g + d + i > g + d /\ (g + d + i) - (g + d) = i
      BY <1>1, <1>2
    <2> QED
      BY <1>8, <1>9, <2>1
  <1>13. W[g + d + n + 1] = p
    <2>1. /\ g + d + n + 1 \in 1 .. g + d + n + 1 /\ g + d + n + 1 > g + d + n
          /\ (g + d + n + 1) - (g + d + n) = 1
      BY <1>1, <1>2
    <2> QED
      BY <1>5, <1>9, <2>1
  <1>14. Creates(W, m, d, n, at, name, sn, id, dir, c)
    BY <1>2, <1>3, <1>9, <1>10, <1>11, <1>12, <1>13 DEF Creates, G, d, p, g
  <1> QED
    BY <1>2, <1>14 DEF W, G, M, B, p, CreateWrites

CreateArgs(m, n, at, name, sn, id, dir, c) ==
  /\ m \in Nat /\ m <= Len(FreeSeq) /\ n \in Nat /\ at \in Nat \ {0} /\ name \in Seq(Letters) /\ sn \in SNames
  /\ id \in Nat /\ dir \in BOOLEAN /\ c \in {0} \cup Clusters /\ (dir => c \in Clusters)

LEMMA CreateAny ==
  ASSUME DirTyped, NEW m, NEW n, NEW at, NEW name, NEW sn, NEW id, NEW dir, NEW c,
         CreateArgs(m, n, at, name, sn, id, dir, c)
  PROVE  \E d \in {0, 4} :
           Creates(CreateWrites(m, n, at, name, sn, id, dir, c), m, d, n, at, name, sn, id, dir, c)
  BY CreateIs DEF CreateArgs

-----------------------------------------------------------------------------
(* A call begins. *)

LEMMA BeginBasics ==
  ASSUME DirBasics, UNCHANGED <<slots, fat, dots, files, hurt>>, touched' \in BOOLEAN,
         count' \in [file : Nat, crash : Nat], count'.file >= count.file,
         todo' \in Seq(Writes), todo' # <<>>, op' \in Ops, op' # NoOp, Roomy',
         \A k \in DOMAIN todo' : PutAt(k)' =>
           \A j \in 1 .. todo'[k].i - 1 :
             \/ j \in DOMAIN slots /\ slots[j] # End
             \/ \E l \in 1 .. k - 1 : PutAt(l)' /\ todo'[l].i = j,
         \A k \in DOMAIN todo' : PutAt(k)' /\ todo'[k].e.k = "short" =>
           /\ todo'[k].e.id <= count'.file /\ k = Len(todo') /\ todo'[k].e.cluster \in {0} \cup Clusters
           /\ \A j \in DOMAIN slots : slots[j].k = "short" /\ j # todo'[k].i =>
                slots[j].sn # todo'[k].e.sn /\ slots[j].id # todo'[k].e.id,
         op'.kind = "create" => op'.file.id <= count'.file /\ \A f \in files : f.id # op'.file.id
  PROVE  DirBasics'
  <1>1. DirTyped /\ Packed /\ Distinct
    BY DEF DirBasics
  <1>2. DirTyped'
    BY <1>1 DEF DirTyped
  <1>3. Packed'
    BY <1>1 DEF Packed
  <1>4. Distinct'
    <2>1. count.file \in Nat /\ count'.file \in Nat /\ \A i \in DOMAIN slots : slots[i].k = "short" => slots[i].id \in Nat
      <3>1. \A i \in DOMAIN slots : slots[i] \in DirEntries
        BY <1>1 DEF DirTyped
      <3>2. \A i \in DOMAIN slots : slots[i].k = "short" => slots[i] \in Shorts
        BY <3>1, Kinds
      <3> QED
        BY <1>1, <3>2 DEF DirTyped, Shorts
    <2>2. \A i \in DOMAIN slots : slots[i].k = "short" => slots[i].id <= count'.file
      BY <1>1, <2>1 DEF Distinct
    <2>3. \A f \in files : f.id <= count'.file
      BY <1>1, <2>1 DEF Distinct, DirTyped, Files
    <2> QED
      BY <1>1, <2>2, <2>3 DEF Distinct
  <1> QED
    BY <1>2, <1>3, <1>4 DEF DirBasics

LEMMA PackedEnds == Packed => EndsLast
  BY DEF Packed, EndsLast

\* The writes that end with a new short entry for the one seen.
Rewrites(W, v, c) ==
  /\ W \in Seq(Writes) /\ W # <<>> /\ W[Len(W)] = Put(v.at, [v.e EXCEPT !.cluster = c])
  /\ \A k \in DOMAIN W : k # Len(W) => W[k].t \in {"fat", "zero"}

LEMMA RewriteBasics ==
  ASSUME DirBasics, NEW v, SeenAt(v), NEW c \in {0} \cup Clusters, Rewrites(todo', v, c),
         UNCHANGED <<slots, fat, dots, files, hurt, count>>, touched' \in BOOLEAN,
         op' \in Ops, op' # NoOp, op'.kind # "create"
  PROVE  DirBasics'
  <1> DEFINE e == [v.e EXCEPT !.cluster = c]
             n == Len(todo')
  <1>1. DirTyped /\ Packed /\ Distinct
    BY DEF DirBasics
  <1>2. slots \in Seq(DirEntries) /\ DOMAIN slots = 1 .. Len(slots) /\ Len(slots) \in Nat
    BY <1>1 DEF DirTyped
  <1>3. v.at \in DOMAIN slots /\ v.e = slots[v.at] /\ v.e \in Shorts /\ v.e.k = "short"
    BY DEF SeenAt, Shorts
  <1>4. e \in Shorts /\ e.sn = v.e.sn /\ e.id = v.e.id /\ e.cluster = c
    BY <1>3 DEF Shorts, Clusters
  <1>5. todo'[n] = Put(v.at, e) /\ n \in DOMAIN todo' /\ DOMAIN todo' = 1 .. n /\ n \in Nat \ {0}
    BY DEF Rewrites
  <1> HIDE DEF e, n
  <1>6. todo'[n].t = "put" /\ todo'[n].i = v.at /\ todo'[n].e = e
    BY <1>5 DEF Put
  <1>7. \A k \in DOMAIN todo' : (PutAt(k)' <=> k = n) /\ todo'[k].t # "link"
    <2>1. \A k \in DOMAIN todo' : k # n => todo'[k].t \in {"fat", "zero"}
      BY DEF Rewrites, n
    <2> QED
      BY <1>6, <2>1 DEF PutAt
  <1>8. Roomy'
    <2>1. \A k \in DOMAIN todo' : PutAt(k)' => k > 0 /\ todo'[k].i <= Len(slots) + PerCluster * 0
      BY <1>2, <1>3, <1>5, <1>6, <1>7, DirNumbers
    <2>2. 0 .. 0 - 1 = {}
      OBVIOUS
    <2> QED
      BY <1>7, <2>1, <2>2 DEF Roomy
  <1>9. ASSUME NEW k \in DOMAIN todo', PutAt(k)', NEW j \in 1 .. todo'[k].i - 1
        PROVE  j \in DOMAIN slots /\ slots[j] # End
    <2>1. j \in DOMAIN slots /\ j < v.at
      BY <1>2, <1>3, <1>6, <1>7, <1>9
    <2>2. slots[v.at] # End
      BY <1>3 DEF End
    <2> QED
      BY <1>1, <1>3, <2>1, <2>2 DEF Packed
  <1>10. ASSUME NEW k \in DOMAIN todo', PutAt(k)'
         PROVE  /\ todo'[k].e.id <= count'.file /\ k = Len(todo') /\ todo'[k].e.cluster \in {0} \cup Clusters
                /\ \A j \in DOMAIN slots : slots[j].k = "short" /\ j # todo'[k].i =>
                     slots[j].sn # todo'[k].e.sn /\ slots[j].id # todo'[k].e.id
    <2>1. k = n /\ todo'[k].e = e /\ todo'[k].i = v.at
      BY <1>6, <1>7, <1>10
    <2> QED
      BY <1>1, <1>3, <1>4, <2>1 DEF Distinct, n
  <1>11. todo' \in Seq(Writes) /\ todo' # <<>> /\ count' \in [file : Nat, crash : Nat] /\ count'.file >= count.file
    BY <1>1 DEF Rewrites, DirTyped
  <1> QED
    BY <1>8, <1>9, <1>10, <1>11, BeginBasics

LEMMA UnlinkBasics ==
  ASSUME DirBasics, NEW v, SeenAt(v), NEW d, Deletes(todo', d, v),
         UNCHANGED <<slots, fat, dots, files, hurt, count>>, touched' \in BOOLEAN,
         op' \in Ops, op' # NoOp, op'.kind # "create"
  PROVE  DirBasics'
  <1> DEFINE n == v.lfn
  <1>1. DirTyped /\ Packed /\ Distinct
    BY DEF DirBasics
  <1>2. slots \in Seq(DirEntries) /\ DOMAIN slots = 1 .. Len(slots) /\ Len(slots) \in Nat
    BY <1>1 DEF DirTyped
  <1>3. v.at \in DOMAIN slots /\ slots[v.at].k = "short" /\ n \in Nat /\ n < v.at
    BY DEF SeenAt, Shorts, Views
  <1>4. /\ todo' \in Seq(Writes) /\ d \in {0, 1} /\ Len(todo') = d + n + 1 /\ DOMAIN todo' = 1 .. d + n + 1
        /\ d = 1 => todo'[1].t = "fat"
        /\ \A k \in d + 1 .. d + n + 1 : todo'[k] = Put(v.at - n + (k - d) - 1, Del)
    BY DEF Deletes, Fat
  <1> HIDE DEF n
  <1>5. ASSUME NEW k \in DOMAIN todo'
        PROVE  /\ todo'[k].t # "link"
               /\ PutAt(k)' => todo'[k].i = v.at - n + (k - d) - 1 /\ todo'[k].e = Del /\ k \in d + 1 .. d + n + 1
    <2>1. CASE k \in d + 1 .. d + n + 1
      <3>1. todo'[k] = Put(v.at - n + (k - d) - 1, Del)
        BY <1>4, <2>1
      <3> QED
        BY <2>1, <3>1 DEF Put
    <2>2. CASE k \notin d + 1 .. d + n + 1
      <3>1. d = 1 /\ k = 1
        BY <1>3, <1>4, <2>2
      <3> QED
        BY <1>4, <3>1 DEF PutAt
    <2> QED
      BY <2>1, <2>2
  <1>6. Roomy'
    <2>1. \A k \in DOMAIN todo' : PutAt(k)' => k > 0 /\ todo'[k].i <= Len(slots) + PerCluster * 0
      BY <1>2, <1>3, <1>4, <1>5, DirNumbers
    <2>2. 0 .. 0 - 1 = {}
      OBVIOUS
    <2> QED
      BY <1>5, <2>1, <2>2 DEF Roomy
  <1>7. ASSUME NEW k \in DOMAIN todo', PutAt(k)', NEW j \in 1 .. todo'[k].i - 1
        PROVE  j \in DOMAIN slots /\ slots[j] # End
    <2>1. j \in DOMAIN slots /\ j < v.at
      <3>1. todo'[k].i = v.at - n + (k - d) - 1 /\ k \in d + 1 .. d + n + 1
        BY <1>5, <1>7
      <3>2. todo'[k].i <= v.at /\ v.at \in 1 .. Len(slots) /\ todo'[k].i \in Int
        <4>1. d \in Nat /\ n \in Nat /\ v.at \in 1 .. Len(slots) /\ k \in Int /\ k <= d + n + 1
          BY <1>2, <1>3, <1>4, <3>1
        <4>2. v.at - n + (k - d) - 1 <= v.at
          BY <1>2, <4>1
        <4> QED
          BY <1>2, <3>1, <4>1, <4>2
      <3>3. j \in Int /\ 1 <= j /\ j <= todo'[k].i - 1
        BY <3>2
      <3> QED
        BY <1>2, <3>2, <3>3
    <2>2. slots[v.at] # End
      BY <1>3 DEF End
    <2> QED
      BY <1>1, <1>3, <2>1, <2>2 DEF Packed
  <1>8. \A k \in DOMAIN todo' : PutAt(k)' => todo'[k].e.k # "short"
    BY <1>5 DEF Del
  <1>9. todo' # <<>> /\ count' \in [file : Nat, crash : Nat] /\ count'.file >= count.file
    <2>1. Len(todo') # 0
      BY <1>3, <1>4
    <2> QED
      BY <1>1, <2>1 DEF DirTyped
  <1> QED
    BY <1>4, <1>6, <1>7, <1>8, <1>9, BeginBasics

\* g writes to clusters, then n long-name entries and the short one.
Laid(W, g, m, d, n, at, name, sn, id, dir, c) ==
  /\ g \in Nat /\ 3 * m \in Nat /\ Len(W) = g + n + 1 /\ DOMAIN W = 1 .. g + n + 1 /\ (d = 4 <=> dir)
  /\ \A k \in 1 .. g : /\ W[k].t \in {"fat", "zero", "dot", "link"}
                       /\ W[k].t = "link" <=> k <= 3 * m /\ k % 3 = 0
                       /\ k <= 3 * m => W[k] = Grow(m)[k]
                       /\ k > 3 * m => dir /\ W[k].c = c /\ W[k].t # "link"
                       /\ W[k].t = "fat" => W[k].v
  /\ \A k \in g + 1 .. g + n : W[k] = Put(at + (k - g) - 1, fat32_fill_lfn_entry(name, n - (k - g) + 1, k - g = 1, sn))
  /\ W[g + n + 1] = Put(at + n, Short(sn, id, dir, c))

LEMMA CreatesIs ==
  ASSUME DirTyped, NEW m \in Nat, m <= Len(FreeSeq), NEW dir \in BOOLEAN, NEW n \in Nat, NEW at \in Nat \ {0},
         NEW name, NEW sn, NEW id, NEW c, NEW d \in {0, 4}, NEW W, Creates(W, m, d, n, at, name, sn, id, dir, c),
         NEW g, g = 3 * m + d
  PROVE  Laid(W, g, m, d, n, at, name, sn, id, dir, c)
  <1>1. g \in Nat /\ 3 * m \in Nat
    OBVIOUS
  <1>2. /\ Len(W) = g + n + 1 /\ DOMAIN W = 1 .. g + n + 1 /\ d = (IF dir THEN 4 ELSE 0)
        /\ \A k \in 1 .. 3 * m : W[k] = Grow(m)[k]
        /\ dir => /\ W[3 * m + 1] = Fat(c, TRUE) /\ W[3 * m + 2] = Zero(c)
                  /\ W[3 * m + 3] = Dot(c, 1) /\ W[3 * m + 4] = Dot(c, 2)
        /\ \A i \in 1 .. n : W[g + i] = Put(at + i - 1, fat32_fill_lfn_entry(name, n - i + 1, i = 1, sn))
        /\ W[g + n + 1] = Put(at + n, Short(sn, id, dir, c))
    BY DEF Creates
  <1>3. \A k \in 1 .. 3 * m : /\ Grow(m)[k] = Link <=> k % 3 = 0
                              /\ Grow(m)[k].t \in {"fat", "zero", "link"} /\ (Grow(m)[k].t = "link" <=> Grow(m)[k] = Link)
                              /\ Grow(m)[k].t = "fat" => Grow(m)[k].v
    <2>1. PICK G : G = Grow(m)
      OBVIOUS
    <2>2. fat \in [Clusters -> BOOLEAN]
      BY DEF DirTyped
    <2> QED
      BY <2>1, <2>2, GrowIs
  <1>4. ASSUME NEW k \in 1 .. g
        PROVE  /\ W[k].t \in {"fat", "zero", "dot", "link"}
               /\ W[k].t = "link" <=> k <= 3 * m /\ k % 3 = 0
               /\ k <= 3 * m => W[k] = Grow(m)[k]
               /\ k > 3 * m => dir /\ W[k].c = c /\ W[k].t # "link"
               /\ W[k].t = "fat" => W[k].v
    <2>1. CASE k <= 3 * m
      <3>1. k \in 1 .. 3 * m
        BY <1>1, <2>1
      <3>2. W[k] = Grow(m)[k]
        BY <1>2, <3>1
      <3>3. /\ W[k] = Link <=> k % 3 = 0
            /\ W[k].t \in {"fat", "zero", "link"} /\ (W[k].t = "link" <=> W[k] = Link) /\ (W[k].t = "fat" => W[k].v)
        BY <1>3, <3>1, <3>2
      <3> QED
        BY <1>1, <2>1, <3>2, <3>3
    <2>2. CASE k > 3 * m
      <3>1. dir /\ k \in 3 * m + 1 .. 3 * m + 4
        BY <1>1, <1>2, <2>2
      <3>2. k = 3 * m + 1 \/ k = 3 * m + 2 \/ k = 3 * m + 3 \/ k = 3 * m + 4
        BY <1>1, <3>1
      <3>3. W[k] \in {Fat(c, TRUE), Zero(c), Dot(c, 1), Dot(c, 2)}
        BY <1>2, <3>1, <3>2
      <3>4. W[k].t \in {"fat", "zero", "dot"} /\ W[k].c = c /\ (W[k].t = "fat" => W[k].v)
        BY <3>3 DEF Fat, Zero, Dot
      <3>5. ~(k <= 3 * m)
        BY <1>1, <2>2
      <3> QED
        BY <3>1, <3>4, <3>5
    <2> QED
      BY <1>1, <2>1, <2>2
  <1>5. ASSUME NEW k \in g + 1 .. g + n
        PROVE  W[k] = Put(at + (k - g) - 1, fat32_fill_lfn_entry(name, n - (k - g) + 1, k - g = 1, sn))
    <2>1. k - g \in 1 .. n /\ g + (k - g) = k
      BY <1>1
    <2>2. PICK i \in 1 .. n : i = k - g
      BY <2>1
    <2>3. g + i = k
      BY <2>1, <2>2
    <2>4. W[g + i] = Put(at + i - 1, fat32_fill_lfn_entry(name, n - i + 1, i = 1, sn))
      BY <1>2
    <2> QED
      BY <2>2, <2>3, <2>4
  <1>6. d = 4 <=> dir
    BY <1>2
  <1> QED
    BY <1>1, <1>2, <1>4, <1>5, <1>6 DEF Laid

LEMMA LinksIs ==
  ASSUME NEW m \in Nat, NEW k \in Nat \ {0}
  PROVE  (k <= 3 * m /\ k % 3 = 0) <=> \E q \in 0 .. m - 1 : k = 3 * m - 3 * q
  <1>1. ASSUME k <= 3 * m, k % 3 = 0 PROVE \E q \in 0 .. m - 1 : k = 3 * m - 3 * q
    <2>1. PICK j \in Nat : k = 3 * j
      <3>1. k = 3 * (k \div 3) /\ k \div 3 \in Nat
        BY <1>1
      <3> QED
        BY <3>1
    <2>2. m - j \in 0 .. m - 1 /\ k = 3 * m - 3 * (m - j)
      BY <1>1, <2>1
    <2> QED
      BY <2>2
  <1>2. ASSUME NEW q \in 0 .. m - 1, k = 3 * m - 3 * q PROVE k <= 3 * m /\ k % 3 = 0
    <2>1. k = 3 * (m - q)
      BY <1>2
    <2> QED
      BY <1>2, <2>1
  <1> QED
    BY <1>1, <1>2

\* A create begins, with n long-name entries at entry at.
CreateCall(m, dir, n, at, name, sn, c, d, id) ==
  /\ m <= Len(FreeSeq) /\ id = count.file + 1 /\ Creates(todo', m, d, n, at, name, sn, id, dir, c)
  /\ UNCHANGED <<slots, fat, dots, files, hurt>> /\ touched' \in BOOLEAN /\ count' = [count EXCEPT !.file = @ + 1]
  /\ op' \in Ops /\ op' # NoOp /\ op'.kind = "create" /\ op'.file.id = id
CreatePlace(m, n, at, sn) ==
  /\ \A j \in 1 .. at - 1 : j \in DOMAIN slots /\ slots[j] # End
  /\ at + n <= Len(slots) + PerCluster * m
  /\ \A j \in DOMAIN slots : slots[j].k = "short" => slots[j].sn # sn

LEMMA CreateBasics ==
  ASSUME DirBasics, NEW m \in Nat, NEW dir \in BOOLEAN, NEW n \in Nat, NEW at \in Nat \ {0},
         NEW name, NEW sn, NEW c \in {0} \cup Clusters, NEW d \in {0, 4}, NEW id,
         CreateCall(m, dir, n, at, name, sn, c, d, id), CreatePlace(m, n, at, sn)
  PROVE  DirBasics'
  <1>0. PICK g \in Nat : g = 3 * m + d
    OBVIOUS
  <1>1. DirTyped /\ Packed /\ Distinct
    BY DEF DirBasics
  <1>u. slots' = slots /\ count' = [count EXCEPT !.file = count.file + 1] /\ id = count.file + 1
    BY DEF CreateCall
  <1>2. /\ slots \in Seq(DirEntries) /\ DOMAIN slots = 1 .. Len(slots) /\ Len(slots) \in Nat
        /\ count \in [file : Nat, crash : Nat] /\ files \subseteq Files /\ PerCluster \in Nat \ {0}
    BY <1>1, DirNumbers DEF DirTyped
  <1>3. /\ g \in Nat /\ 3 * m \in Nat /\ Len(todo') = g + n + 1 /\ DOMAIN todo' = 1 .. g + n + 1
        /\ \A k \in 1 .. g : /\ todo'[k].t \in {"fat", "zero", "dot", "link"}
                             /\ todo'[k].t = "link" <=> k <= 3 * m /\ k % 3 = 0
        /\ \A k \in g + 1 .. g + n :
             todo'[k] = Put(at + (k - g) - 1, fat32_fill_lfn_entry(name, n - (k - g) + 1, k - g = 1, sn))
        /\ todo'[g + n + 1] = Put(at + n, Short(sn, id, dir, c))
    <2>1. Laid(todo', g, m, d, n, at, name, sn, id, dir, c)
      <3>1. m <= Len(FreeSeq) /\ Creates(todo', m, d, n, at, name, sn, id, dir, c)
        BY DEF CreateCall
      <3> QED
        BY <1>0, <1>1, <3>1, CreatesIs
    <2> QED
      BY <2>1 DEF Laid
  <1>g. g >= 3 * m
    BY <1>0
  <1>4. ASSUME NEW k \in DOMAIN todo'
        PROVE  /\ PutAt(k)' <=> k > g
               /\ k > g => todo'[k].i = at + (k - g) - 1 /\ (todo'[k].e.k = "short" => k = g + n + 1)
               /\ todo'[k].t = "link" <=> k <= 3 * m /\ k % 3 = 0
    <2>1. CASE k \in 1 .. g
      <3>1. todo'[k].t \in {"fat", "zero", "dot", "link"} /\ (todo'[k].t = "link" <=> k <= 3 * m /\ k % 3 = 0)
        BY <1>3, <2>1
      <3>2. ~(k > g)
        BY <1>3, <2>1
      <3> QED
        BY <3>1, <3>2 DEF PutAt
    <2>2. CASE k \in g + 1 .. g + n
      <3>1. todo'[k] = Put(at + (k - g) - 1, fat32_fill_lfn_entry(name, n - (k - g) + 1, k - g = 1, sn))
        BY <1>3, <2>2
      <3>2. todo'[k].t = "put" /\ todo'[k].i = at + (k - g) - 1 /\ todo'[k].e.k = "lfn"
        BY <3>1 DEF Put, fat32_fill_lfn_entry
      <3> QED
        BY <1>3, <1>g, <2>2, <3>2 DEF PutAt
    <2>3. CASE k = g + n + 1
      <3>1. todo'[k].t = "put" /\ todo'[k].i = at + n
        BY <1>3, <2>3 DEF Put
      <3>2. at + n = at + (k - g) - 1 /\ k > g /\ ~(k <= 3 * m)
        BY <1>3, <1>g, <2>3
      <3> QED
        BY <1>3, <2>3, <3>1, <3>2 DEF PutAt
    <2>4. k \in 1 .. g \/ k \in g + 1 .. g + n \/ k = g + n + 1
      BY <1>3
    <2> QED
      BY <2>1, <2>2, <2>3, <2>4
  <1>5. Roomy'
    <2>1. \A k \in DOMAIN todo' : k \in Nat \ {0}
      BY <1>3
    <2>2. \A k \in DOMAIN todo' : todo'[k].t = "link" <=> \E q \in 0 .. m - 1 : k = 3 * m - 3 * q
      BY <1>4, <2>1, LinksIs
    <2>3. \A q \in 0 .. m - 1 : 3 * m - 3 * q \in DOMAIN todo'
      <3> SUFFICES ASSUME NEW q \in 0 .. m - 1 PROVE 3 * m - 3 * q \in DOMAIN todo'
        OBVIOUS
      <3>1. 3 * m - 3 * q \in 1 .. 3 * m
        OBVIOUS
      <3> QED
        BY <1>3, <1>g, <3>1
    <2>4. ASSUME NEW k \in DOMAIN todo', PutAt(k)' PROVE k > 3 * m /\ todo'[k].i <= Len(slots') + PerCluster * m
      <3>1. k > g /\ todo'[k].i = at + (k - g) - 1
        BY <1>4, <2>4
      <3>2. at + (k - g) - 1 <= at + n /\ k > 3 * m
        BY <1>3, <1>g, <3>1
      <3>3. at + n <= Len(slots') + PerCluster * m
        BY <1>u DEF CreatePlace
      <3>4. PICK r \in Nat : r = Len(slots') + PerCluster * m
        BY <1>2, <1>u
      <3>5. PICK q \in Nat : q = at + (k - g) - 1
        BY <1>3, <3>1
      <3> QED
        BY <3>1, <3>2, <3>3, <3>4, <3>5
    <2> QED
      BY <1>3, <2>2, <2>3, <2>4 DEF Roomy
  <1>6. ASSUME NEW k \in DOMAIN todo', PutAt(k)', NEW j \in 1 .. todo'[k].i - 1
        PROVE  \/ j \in DOMAIN slots /\ slots[j] # End
               \/ \E l \in 1 .. k - 1 : PutAt(l)' /\ todo'[l].i = j
    <2>1. k > g /\ todo'[k].i = at + (k - g) - 1 /\ k \in Nat
      BY <1>3, <1>4, <1>6
    <2>2. CASE j < at
      BY <2>1, <2>2 DEF CreatePlace
    <2>3. CASE j >= at
      <3> DEFINE l == g + (j - at) + 1
      <3>1. l \in 1 .. k - 1 /\ l \in DOMAIN todo' /\ l > g /\ at + (l - g) - 1 = j
        BY <1>3, <2>1, <2>3
      <3>2. PutAt(l)' /\ todo'[l].i = j
        <4> HIDE DEF l
        <4> QED
          BY <1>4, <3>1
      <3> QED
        BY <3>1, <3>2
    <2> QED
      BY <2>1, <2>2, <2>3
  <1>7. \A j \in DOMAIN slots : slots[j].k = "short" => slots[j].id # id
    <2>1. \A j \in DOMAIN slots : slots[j].k = "short" => slots[j] \in Shorts
      <3>1. \A j \in DOMAIN slots : slots[j] \in DirEntries
        BY <1>2
      <3> QED
        BY <3>1, Kinds
    <2>2. \A j \in DOMAIN slots : slots[j].k = "short" => slots[j].id \in Nat /\ slots[j].id <= count.file
      BY <1>1, <2>1 DEF Distinct, Shorts
    <2>3. count.file \in Nat
      BY <1>2
    <2> QED
      BY <1>u, <2>2, <2>3
  <1>8. count' \in [file : Nat, crash : Nat] /\ count'.file = id /\ count'.file >= count.file /\ id \in Nat
    <2>1. count.file \in Nat /\ id \in Nat /\ id >= count.file
      BY <1>2, <1>u
    <2>2. count' = [count EXCEPT !.file = id]
      BY <1>u
    <2> QED
      BY <1>2, <2>1, <2>2
  <1>9. ASSUME NEW k \in DOMAIN todo', PutAt(k)', todo'[k].e.k = "short"
        PROVE  /\ todo'[k].e.id <= count'.file /\ k = Len(todo') /\ todo'[k].e.cluster \in {0} \cup Clusters
               /\ \A j \in DOMAIN slots : slots[j].k = "short" /\ j # todo'[k].i =>
                    slots[j].sn # todo'[k].e.sn /\ slots[j].id # todo'[k].e.id
    <2>1. k = g + n + 1
      BY <1>4, <1>9
    <2>2. todo'[k].e.sn = sn /\ todo'[k].e.id = id /\ todo'[k].e.cluster = c
      BY <1>3, <2>1 DEF Put, Short
    <2>3. id <= id
      BY <1>8
    <2>4. \A j \in DOMAIN slots : slots[j].k = "short" => slots[j].sn # sn /\ slots[j].id # id
      BY <1>7 DEF CreatePlace
    <2> QED
      BY <1>3, <1>8, <2>1, <2>2, <2>3, <2>4
  <1>10. \A f \in files : f.id # id
    <2>1. \A f \in files : f.id \in Nat /\ f.id <= count.file
      BY <1>1, <1>2 DEF Distinct, Files
    <2>2. count.file \in Nat
      BY <1>2
    <2> QED
      BY <1>u, <2>1, <2>2
  <1>11. todo' \in Seq(Writes) /\ todo' # <<>>
    <2>1. todo' \in Seq(Writes)
      BY DEF CreateCall, Creates
    <2>2. Len(todo') # 0
      BY <1>3
    <2> QED
      BY <2>1, <2>2, SomeSeq
  <1>12. op'.file.id <= count'.file /\ \A f \in files : f.id # op'.file.id
    <2>1. op'.file.id = id /\ id <= id
      BY <1>8 DEF CreateCall
    <2> QED
      BY <1>8, <1>10, <2>1
  <1>13. UNCHANGED <<slots, fat, dots, files, hurt>> /\ touched' \in BOOLEAN /\ op' \in Ops /\ op' # NoOp
    BY DEF CreateCall
  <1> QED
    BY <1>5, <1>6, <1>8, <1>9, <1>11, <1>12, <1>13, BeginBasics

LEMMA GrowBasics ==
  ASSUME DirBasics, NEW m \in Nat \ {0}, m <= Len(FreeSeq), todo' = Grow(m),
         UNCHANGED <<slots, fat, dots, files, hurt>>, touched' \in BOOLEAN, count' = [count EXCEPT !.file = @ + 1],
         op' \in Ops, op' # NoOp, op'.kind = "grow"
  PROVE  DirBasics'
  <1>1. DirTyped
    BY DEF DirBasics
  <1>2. /\ todo' \in Seq(Writes) /\ Len(todo') = 3 * m /\ DOMAIN todo' = 1 .. 3 * m
        /\ \A k \in 1 .. 3 * m : /\ todo'[k] = Link <=> k % 3 = 0
                                 /\ todo'[k].t \in {"fat", "zero", "link"}
                                 /\ (todo'[k].t = "link" <=> todo'[k] = Link)
    <2>1. /\ todo' \in Seq(Writes) /\ Len(todo') = 3 * m
          /\ \A k \in 1 .. 3 * m : /\ todo'[k] = Link <=> k % 3 = 0
                                   /\ todo'[k].t \in {"fat", "zero", "link"}
                                   /\ (todo'[k].t = "link" <=> todo'[k] = Link)
      BY <1>1, GrowIs DEF DirTyped
    <2> QED
      BY <2>1
  <1>3. \A k \in DOMAIN todo' : ~PutAt(k)'
    BY <1>2 DEF PutAt
  <1>4. Roomy'
    <2>1. ASSUME NEW k \in DOMAIN todo' PROVE todo'[k].t = "link" <=> \E q \in 0 .. m - 1 : k = 3 * m - 3 * q
      <3>1. k \in Nat \ {0} /\ k <= 3 * m /\ (todo'[k].t = "link" <=> k % 3 = 0)
        BY <1>2
      <3> QED
        BY <3>1, LinksIs
    <2>2. ASSUME NEW q \in 0 .. m - 1 PROVE 3 * m - 3 * q \in DOMAIN todo'
      BY <1>2
    <2>3. m \in Nat /\ 3 * m \in Nat
      OBVIOUS
    <2> QED
      BY <1>3, <2>1, <2>2, <2>3 DEF Roomy
  <1>5. todo' # <<>>
    <2>1. Len(todo') # 0
      BY <1>2
    <2> QED
      BY <2>1
  <1>6. count' \in [file : Nat, crash : Nat] /\ count'.file >= count.file
    <2>1. count \in [file : Nat, crash : Nat]
      BY <1>1 DEF DirTyped
    <2> QED
      BY <2>1
  <1> QED
    BY <1>2, <1>3, <1>4, <1>5, <1>6, BeginBasics

LEMMA SeqOfMore ==
  ASSUME NEW S, NEW T, S \subseteq T, NEW s \in Seq(S)
  PROVE  s \in Seq(T)
  OBVIOUS

\* What a create that finds room does, and one that finds only some.
CreatesFile(name, dir, made, n, at, m, c, d) ==
  /\ made.sn \in SNames /\ made.lfn \in BOOLEAN /\ name # <<>> /\ Len(name) <= MaxName
  /\ ~made.lfn => Listed(name, made.lfn) = ShortToName(made.sn)
  /\ n \in Nat /\ n = IF made.lfn THEN CeilDiv(Len(name), LfnChars) ELSE 0
  /\ \A j \in DOMAIN slots : slots[j].k = "short" => slots[j].sn # made.sn
  /\ at \in Nat \ {0} /\ (\A i \in at .. at + n : Free(i)) /\ \A j \in 1 .. at - 1 : j \in DOMAIN slots /\ slots[j] # End
  /\ m \in Nat /\ m <= Len(FreeSeq) /\ at + n <= Len(slots) + PerCluster * m
  /\ c = (IF dir THEN FreeSeq[m + 1] ELSE 0) /\ (dir => m + 1 <= Len(FreeSeq)) /\ c \in {0} \cup Clusters
  /\ d \in {0, 4} /\ Creates(todo', m, d, n, at, name, made.sn, count.file + 1, dir, c)
  /\ op' = [kind |-> "create", begun |-> FALSE, sn |-> made.sn,
            file |-> [name |-> Listed(name, made.lfn), id |-> count.file + 1, sn |-> made.sn, dir |-> dir, cluster |-> c]]
GrowsOnly(m, sn) ==
  /\ m \in Nat \ {0} /\ m <= Len(FreeSeq) /\ todo' = Grow(m) /\ sn \in SNames
  /\ op' = [kind |-> "grow", begun |-> FALSE, sn |-> sn]
  /\ \A j \in DOMAIN slots : slots[j].k = "short" => slots[j].sn # sn

LEMMA CreateUnfolded ==
  ASSUME DirBasics, NEW name \in FileNames, NEW dir \in BOOLEAN, create(fat32_iter_dir, name, dir)
  PROVE  /\ todo = <<>> /\ UNCHANGED <<slots, fat, dots, files, hurt>> /\ count' = [count EXCEPT !.file = @ + 1]
         /\ touched' = (touched \/ op'.sn \in hurt)
         /\ \/ \E m, sn : GrowsOnly(m, sn)
            \/ \E made, n, at, m, c, d : CreatesFile(name, dir, made, n, at, m, c, d)
  <1> DEFINE seen == fat32_iter_dir
  <1>1. DirTyped /\ Packed
    BY DEF DirBasics
  <1>2. slots \in Seq(DirEntries) /\ fat \in [Clusters -> BOOLEAN] /\ count \in [file : Nat, crash : Nat]
    BY <1>1 DEF DirTyped
  <1>3. EndsLast /\ Sees(seen)
    BY <1>1, <1>2, PackedEnds, SeenIs
  <1> HIDE DEF seen
  <1>4. name # <<>> /\ Len(name) <= MaxName /\ name \in Seq(STRING) /\ name \in Seq(Letters)
    <2>1. name # <<>> /\ Len(name) <= MaxName
      BY DEF create, fat32_validate_name
    <2>2. name \in Seq(STRING)
      BY DirAssumption
    <2>3. STRING \subseteq Letters
      BY DEF Letters
    <2> QED
      BY <2>1, <2>2, <2>3, SeqOfMore
  <1> DEFINE N(made) == IF made.lfn THEN CeilDiv(Len(name), LfnChars) ELSE 0
             A(made) == fat32_dir_find_free(N(made) + 1)
             M(made) == NewClusters(A(made), N(made) + 1)
             room(made) == M(made) + (IF dir THEN 1 ELSE 0) <= Len(FreeSeq)
             id == count.file + 1
             C(made) == IF dir THEN FreeSeq[M(made) + 1] ELSE 0
             some(made) == IF M(made) < Len(FreeSeq) THEN M(made) ELSE Len(FreeSeq)
             T(made) == Grow(M(made)) \o (IF dir THEN MkdirWrites(C(made)) ELSE <<>>)
                        \o LfnWrites(name, A(made), N(made), made.sn) \o <<Put(A(made) + N(made), Short(made.sn, id, dir, C(made)))>>
             O(made) == [kind |-> "create", begun |-> FALSE, sn |-> made.sn,
                         file |-> [name |-> Listed(name, made.lfn), id |-> id, sn |-> made.sn, dir |-> dir, cluster |-> C(made)]]
  <1>5. PICK made \in fat32_make_short_name(seen, name) :
          /\ \/ ~room(made) /\ M(made) # 0 /\ FreeSeq # <<>> /\ todo' = Grow(some(made))
                /\ op' = [kind |-> "grow", begun |-> FALSE, sn |-> made.sn]
             \/ room(made) /\ todo' = T(made) /\ op' = O(made)
          /\ count' = [count EXCEPT !.file = @ + 1]
          /\ touched' = (touched \/ made.sn \in hurt)
    <2> HIDE DEF T, O
    <2> QED
      BY DEF create, Begin, Meets, seen, T, O
  <1> DEFINE n == N(made)
             at == A(made)
             m == M(made)
             c == C(made)
             sn == made.sn
  <1>6. todo = <<>> /\ UNCHANGED <<slots, fat, dots, files, hurt>>
    BY DEF create
  <1>7. /\ sn \in SNames /\ made.lfn \in BOOLEAN /\ ~fat32_short_exists(seen, sn)
        /\ ~made.lfn => Listed(name, made.lfn) = ShortToName(sn)
    BY <1>4, MadeIs
  <1>8. n \in Nat
    <2>1. Len(name) \in Nat
      BY <1>4
    <2> QED
      BY <1>7, <2>1, CeilIs, DirNumbers
  <1>n. n = N(made) /\ at = fat32_dir_find_free(n + 1) /\ m = NewClusters(at, n + 1)
    OBVIOUS
  <1> HIDE DEF n
  <1>9. at \in 1 .. Len(slots) + 1 /\ (\A i \in at .. at + n : Free(i))
        /\ \A j \in 1 .. at - 1 : j \in DOMAIN slots /\ slots[j] # End
    <2> HIDE DEF at
    <2> QED
      BY <1>2, <1>3, <1>8, <1>n, FindFreeIs
  <1>10. at \in Nat \ {0} /\ Len(slots) \in Nat
    BY <1>2, <1>9
  <1>11. m \in Nat /\ at + n <= Len(slots) + PerCluster * m
    <2> HIDE DEF at, m
    <2> QED
      BY <1>2, <1>8, <1>9, <1>n, RoomIs
  <1>12. ASSUME NEW j \in DOMAIN slots, slots[j].k = "short" PROVE slots[j].sn # sn
    <2>1. PICK k \in DOMAIN seen : seen[k].at = j
      BY <1>3, <1>12 DEF Sees
    <2>2. seen[k].e = slots[j] /\ seen[k] \in Range(seen)
      BY <1>3, <2>1 DEF Sees, SeenAt, Range
    <2> QED
      BY <1>7, <2>2 DEF fat32_short_exists
  <1>13. FreeSeq \in Seq(Clusters) /\ Len(FreeSeq) \in Nat
    BY <1>2, FreeSeqIs
  <1>14. CASE ~room(made) /\ M(made) # 0 /\ FreeSeq # <<>> /\ todo' = Grow(some(made))
              /\ op' = [kind |-> "grow", begun |-> FALSE, sn |-> made.sn]
    <2> DEFINE s == some(made)
    <2>1. s \in Nat \ {0} /\ s <= Len(FreeSeq)
      <3>1. Len(FreeSeq) # 0
        BY <1>13, <1>14
      <3> HIDE DEF m
      <3>2. M(made) = m /\ m \in Nat
        BY <1>11 DEF m
      <3> QED
        BY <1>13, <1>14, <3>1, <3>2
    <2> HIDE DEF s
    <2>2. GrowsOnly(s, sn)
      BY <1>7, <1>12, <1>14, <2>1 DEF GrowsOnly, s
    <2>3. op'.sn = made.sn
      BY <1>14
    <2> QED
      BY <1>5, <1>6, <2>2, <2>3
  <1>15. CASE room(made) /\ todo' = T(made) /\ op' = O(made)
    <2>1. m + (IF dir THEN 1 ELSE 0) <= Len(FreeSeq)
      BY <1>15
    <2>2. m <= Len(FreeSeq) /\ (dir => m + 1 <= Len(FreeSeq))
      <3> HIDE DEF m
      <3> QED
        BY <1>11, <1>13, <2>1
    <2>3. c = (IF dir THEN FreeSeq[m + 1] ELSE 0) /\ c \in {0} \cup Clusters /\ (dir => c \in Clusters)
      <3>1. c = (IF dir THEN FreeSeq[m + 1] ELSE 0)
        OBVIOUS
      <3> HIDE DEF m, c
      <3>2. dir => FreeSeq[m + 1] \in Clusters
        BY <1>11, <1>13, <2>2
      <3> QED
        BY <3>1, <3>2
    <2>4. todo' = Grow(m) \o (IF dir THEN MkdirWrites(c) ELSE <<>>) \o LfnWrites(name, at, n, sn)
                  \o <<Put(at + n, Short(sn, id, dir, c))>>
      <3>1. T(made) = Grow(m) \o (IF dir THEN MkdirWrites(c) ELSE <<>>) \o LfnWrites(name, at, n, sn)
                  \o <<Put(at + n, Short(sn, id, dir, c))>>
        BY DEF n
      <3> HIDE DEF T
      <3> QED
        BY <1>15, <3>1
    <2>5. op' = [kind |-> "create", begun |-> FALSE, sn |-> sn,
                 file |-> [name |-> Listed(name, made.lfn), id |-> id, sn |-> sn, dir |-> dir, cluster |-> c]]
      BY <1>15
    <2>6. id \in Nat
      BY <1>2
    <2> HIDE DEF m, c, at, T, O, id
    <2>7. PICK d \in {0, 4} : Creates(todo', m, d, n, at, name, sn, id, dir, c)
      <3> DEFINE W == CreateWrites(m, n, at, name, sn, id, dir, c)
      <3>0. m \in Nat /\ n \in Nat /\ at \in Nat \ {0} /\ c \in {0} \cup Clusters /\ sn \in SNames
        BY <1>7, <1>8, <1>10, <1>11, <2>3
      <3>1. \E d \in {0, 4} : Creates(W, m, d, n, at, name, sn, id, dir, c)
        <4>1. CreateArgs(m, n, at, name, sn, id, dir, c)
          BY <1>4, <2>2, <2>3, <2>6, <3>0 DEF CreateArgs
        <4> QED
          BY <1>1, <4>1, CreateAny
      <3>2. todo' = W
        BY <2>4 DEF CreateWrites
      <3> HIDE DEF W
      <3> QED
        BY <3>1, <3>2
    <2>8. n = IF made.lfn THEN CeilDiv(Len(name), LfnChars) ELSE 0
      BY DEF n
    <2>9. CreatesFile(name, dir, made, n, at, m, c, d)
      BY <1>4, <1>7, <1>8, <1>9, <1>10, <1>11, <1>12, <2>2, <2>3, <2>5, <2>7, <2>8 DEF CreatesFile, id
    <2>10. op'.sn = made.sn
      BY <2>5
    <2> QED
      BY <1>5, <1>6, <2>9, <2>10
  <1> QED
    BY <1>5, <1>14, <1>15

-----------------------------------------------------------------------------
(* The calls about an entry that is there. *)

\* v is what the search for a name finds, and the call that found it begins.
Finds(v, s) ==
  /\ SeenAt(v) /\ (\E k \in DOMAIN fat32_iter_dir : v = fat32_iter_dir[k]) /\ s = v.e.sn /\ s \in SNames
  /\ v.e.cluster \in {0} \cup Clusters /\ v.e.id \in Nat
  /\ todo = <<>> /\ UNCHANGED <<slots, fat, dots, files, hurt, count>>
  /\ touched' = (touched \/ s \in hurt)

LEMMA FoundIs ==
  ASSUME DirBasics, NEW name, NEW k \in fat32_find_entry(fat32_iter_dir, name), NEW v, v = fat32_iter_dir[k],
         todo = <<>>, UNCHANGED <<slots, fat, dots, files, hurt, count>>, touched' = (touched \/ v.e.sn \in hurt)
  PROVE  Finds(v, v.e.sn)
  <1>1. DirTyped /\ Packed
    BY DEF DirBasics
  <1>2. Sees(fat32_iter_dir)
    BY <1>1, PackedEnds, SeenIs DEF DirTyped
  <1>3. k \in DOMAIN fat32_iter_dir
    BY DEF fat32_find_entry
  <1>4. SeenAt(v)
    BY <1>2, <1>3 DEF Sees
  <1>5. v.e \in Shorts /\ v.e.k = "short" /\ v.at \in DOMAIN slots /\ v.e = slots[v.at]
    BY <1>4 DEF SeenAt, Shorts
  <1>6. v.e.sn \in SNames /\ v.e.id \in Nat
    BY <1>5 DEF Shorts
  <1>7. v.e.cluster \in {0} \cup Clusters
    BY <1>1, <1>5 DEF DirTyped
  <1> QED
    BY <1>3, <1>4, <1>6, <1>7 DEF Finds

\* What write, truncate and unlink begin.
Writing(v, c) ==
  /\ Finds(v, v.e.sn) /\ ~v.e.dir /\ c \in Clusters /\ ~fat[c] /\ todo' = WriteWrites(v, c)
  /\ op' = [kind |-> "write", begun |-> FALSE, sn |-> v.e.sn, id |-> v.e.id, cluster |-> c]
Truncating(v) ==
  /\ Finds(v, v.e.sn) /\ v.e.cluster \in Clusters /\ todo' = TruncateWrites(v)
  /\ op' = [kind |-> "truncate", begun |-> FALSE, sn |-> v.e.sn, id |-> v.e.id, cluster |-> 0]
Unlinking(v) ==
  /\ Finds(v, v.e.sn) /\ todo' = UnlinkWrites(v)
  /\ op' = [kind |-> "unlink", begun |-> FALSE, sn |-> v.e.sn, id |-> v.e.id]

LEMMA WriteUnfolded ==
  ASSUME DirBasics, NEW name, write(fat32_iter_dir, name)
  PROVE  \E v, c : Writing(v, c)
  <1>1. PICK k \in fat32_find_entry(fat32_iter_dir, name) :
          /\ ~fat32_iter_dir[k].e.dir /\ FreeSeq # <<>>
          /\ Begin(WriteWrites(fat32_iter_dir[k], FreeSeq[1]),
                   [kind |-> "write", begun |-> FALSE, sn |-> fat32_iter_dir[k].e.sn,
                    id |-> fat32_iter_dir[k].e.id, cluster |-> FreeSeq[1]])
          /\ Meets(fat32_iter_dir[k].e.sn)
    BY DEF write
  <1>2. todo = <<>> /\ UNCHANGED <<slots, fat, dots, files, hurt, count>>
    BY DEF write
  <1>3. PICK v : v = fat32_iter_dir[k]
    OBVIOUS
  <1>4. PICK c : c = FreeSeq[1]
    OBVIOUS
  <1>5. Finds(v, v.e.sn)
    BY <1>1, <1>2, <1>3, FoundIs DEF Meets
  <1>6. c \in Clusters /\ ~fat[c]
    <2>1. fat \in [Clusters -> BOOLEAN]
      BY DEF DirBasics, DirTyped
    <2>2. FreeSeq \in Seq(Clusters) /\ \A l \in DOMAIN FreeSeq : ~fat[FreeSeq[l]]
      BY <2>1, FreeSeqIs
    <2>3. 1 \in DOMAIN FreeSeq
      BY <1>1, <2>2
    <2> QED
      BY <1>4, <2>2, <2>3
  <1> QED
    BY <1>1, <1>3, <1>4, <1>5, <1>6 DEF Writing, Begin

LEMMA TruncateUnfolded ==
  ASSUME DirBasics, NEW name, truncate(fat32_iter_dir, name)
  PROVE  \E v : Truncating(v)
  <1>1. PICK k \in fat32_find_entry(fat32_iter_dir, name) :
          /\ fat32_iter_dir[k].e.cluster # 0
          /\ Begin(TruncateWrites(fat32_iter_dir[k]),
                   [kind |-> "truncate", begun |-> FALSE, sn |-> fat32_iter_dir[k].e.sn,
                    id |-> fat32_iter_dir[k].e.id, cluster |-> 0])
          /\ Meets(fat32_iter_dir[k].e.sn)
    BY DEF truncate
  <1>2. todo = <<>> /\ UNCHANGED <<slots, fat, dots, files, hurt, count>>
    BY DEF truncate
  <1>3. PICK v : v = fat32_iter_dir[k]
    OBVIOUS
  <1>4. Finds(v, v.e.sn)
    BY <1>1, <1>2, <1>3, FoundIs DEF Meets
  <1>5. v.e.cluster \in Clusters
    BY <1>1, <1>3, <1>4 DEF Finds
  <1> QED
    BY <1>1, <1>3, <1>4, <1>5 DEF Truncating, Begin

LEMMA UnlinkUnfolded ==
  ASSUME DirBasics, NEW name, unlink(fat32_iter_dir, name)
  PROVE  \E v : Unlinking(v)
  <1>1. PICK k \in fat32_find_entry(fat32_iter_dir, name) :
          /\ Begin(UnlinkWrites(fat32_iter_dir[k]),
                   [kind |-> "unlink", begun |-> FALSE, sn |-> fat32_iter_dir[k].e.sn,
                    id |-> fat32_iter_dir[k].e.id])
          /\ Meets(fat32_iter_dir[k].e.sn)
    BY DEF unlink
  <1>2. todo = <<>> /\ UNCHANGED <<slots, fat, dots, files, hurt, count>>
    BY DEF unlink
  <1>3. PICK v : v = fat32_iter_dir[k]
    OBVIOUS
  <1>4. Finds(v, v.e.sn)
    BY <1>1, <1>2, <1>3, FoundIs DEF Meets
  <1> QED
    BY <1>1, <1>3, <1>4 DEF Unlinking, Begin

LEMMA RewritesIs ==
  ASSUME NEW v, SeenAt(v), NEW c \in Clusters, v.e.cluster \in {0} \cup Clusters
  PROVE  /\ Rewrites(WriteWrites(v, c), v, c)
         /\ v.e.cluster # 0 => Rewrites(TruncateWrites(v), v, 0)
  <1>1. v.e \in Shorts /\ v.at \in Nat \ {0}
    BY DEF SeenAt, Views
  <1>2. ASSUME NEW x \in {0} \cup Clusters PROVE Put(v.at, [v.e EXCEPT !.cluster = x]) \in Writes
    <2>1. [v.e EXCEPT !.cluster = x] \in Shorts
      BY <1>1 DEF Shorts, Clusters
    <2>2. [v.e EXCEPT !.cluster = x] \in DirEntries /\ [v.e EXCEPT !.cluster = x] # End
      BY <2>1 DEF DirEntries, Shorts, End
    <2> QED
      BY <1>1, <2>2 DEF Writes, Put
  <1>3. ASSUME NEW x \in Clusters, NEW b \in BOOLEAN
        PROVE  Fat(x, b) \in Writes /\ Zero(x) \in Writes /\ Fat(x, b).t = "fat" /\ Zero(x).t = "zero"
    BY DEF Writes, Fat, Zero
  <1>4. Rewrites(WriteWrites(v, c), v, c)
    <2>1. PICK p \in Writes : p = Put(v.at, [v.e EXCEPT !.cluster = c])
      BY <1>2
    <2>2. PICK a \in Writes, b \in Writes : a = Fat(c, TRUE) /\ b = Zero(c) /\ a.t = "fat" /\ b.t = "zero"
      BY <1>3
    <2>3. PICK W : W = WriteWrites(v, c)
      OBVIOUS
    <2>4. W = <<a, b, p>>
      BY <2>1, <2>2, <2>3 DEF WriteWrites
    <2>5. W \in Seq(Writes) /\ Len(W) = 3 /\ W[1] = a /\ W[2] = b /\ W[3] = p /\ DOMAIN W = 1 .. 3
      BY <2>4
    <2>6. \A k \in DOMAIN W : k # 3 => k = 1 \/ k = 2
      BY <2>5
    <2>7. W # <<>> /\ Len(W) = 3 /\ W[3] = p
      <3>1. Len(W) = 3 /\ W[3] = p
        BY <2>5
      <3>2. W # <<>>
        <4>1. W \in Seq(Writes)
          BY <2>5
        <4>2. Len(W) # 0
          BY <3>1
        <4> QED
          BY <4>1, <4>2, SomeSeq
      <3> QED
        BY <3>1, <3>2
    <2>8. \A k \in DOMAIN W : k # Len(W) => W[k].t \in {"fat", "zero"}
      <3> SUFFICES ASSUME NEW k \in DOMAIN W, k # 3 PROVE W[k].t \in {"fat", "zero"}
        BY <2>7
      <3>1. k = 1 \/ k = 2
        BY <2>6
      <3> QED
        BY <2>2, <2>5, <3>1
    <2> QED
      BY <2>1, <2>3, <2>5, <2>7, <2>8 DEF Rewrites
  <1>5. ASSUME v.e.cluster # 0 PROVE Rewrites(TruncateWrites(v), v, 0)
    <2>1. PICK p \in Writes : p = Put(v.at, [v.e EXCEPT !.cluster = 0])
      BY <1>2
    <2>2. PICK a \in Writes : a = Fat(v.e.cluster, FALSE) /\ a.t = "fat"
      BY <1>3, <1>5
    <2>3. PICK W : W = TruncateWrites(v)
      OBVIOUS
    <2>4. W = <<a, p>>
      BY <2>1, <2>2, <2>3 DEF TruncateWrites
    <2>5. W \in Seq(Writes) /\ Len(W) = 2 /\ W[1] = a /\ W[2] = p /\ DOMAIN W = 1 .. 2
      BY <2>4
    <2>6. \A k \in DOMAIN W : k # 2 => k = 1
      BY <2>5
    <2>7. W # <<>> /\ Len(W) = 2 /\ W[2] = p
      <3>1. Len(W) = 2 /\ W[2] = p
        BY <2>5
      <3>2. W # <<>>
        <4>1. W \in Seq(Writes)
          BY <2>5
        <4>2. Len(W) # 0
          BY <3>1
        <4> QED
          BY <4>1, <4>2, SomeSeq
      <3> QED
        BY <3>1, <3>2
    <2>8. \A k \in DOMAIN W : k # Len(W) => W[k].t \in {"fat", "zero"}
      <3> SUFFICES ASSUME NEW k \in DOMAIN W, k # 2 PROVE W[k].t \in {"fat", "zero"}
        BY <2>7
      <3>1. k = 1
        BY <2>6
      <3> QED
        BY <2>2, <2>5, <3>1
    <2> QED
      BY <2>1, <2>3, <2>5, <2>7, <2>8 DEF Rewrites
  <1> QED
    BY <1>4, <1>5

\* Every call leaves the directory in order when it begins.
LEMMA FoundBasics ==
  ASSUME DirBasics, NEW v, NEW c, Writing(v, c) \/ Truncating(v) \/ Unlinking(v)
  PROVE  DirBasics'
  <1>1. Finds(v, v.e.sn)
    BY DEF Writing, Truncating, Unlinking
  <1>2. /\ SeenAt(v) /\ v.e.sn \in SNames /\ v.e.id \in Nat /\ v.e.cluster \in {0} \cup Clusters
        /\ UNCHANGED <<slots, fat, dots, files, hurt, count>> /\ touched' \in BOOLEAN
    BY <1>1 DEF Finds, DirBasics, DirTyped
  <1>3. CASE Writing(v, c)
    <2>1. c \in Clusters /\ c \in {0} \cup Clusters /\ Rewrites(todo', v, c)
      BY <1>2, <1>3, RewritesIs DEF Writing
    <2>2. op' \in Ops /\ op' # NoOp /\ op'.kind # "create"
      BY <1>2, <1>3, <2>1 DEF Writing, Ops, NoOp
    <2> QED
      BY <1>2, <2>1, <2>2, RewriteBasics
  <1>4. CASE Truncating(v)
    <2>1. 0 \in {0} \cup Clusters /\ v.e.cluster \in Clusters /\ v.e.cluster # 0
      BY <1>4 DEF Truncating, Clusters
    <2>2. Rewrites(todo', v, 0)
      BY <1>2, <1>4, <2>1, RewritesIs DEF Truncating
    <2>3. op' \in Ops /\ op' # NoOp /\ op'.kind # "create"
      BY <1>2, <1>4, <2>1 DEF Truncating, Ops, NoOp
    <2> QED
      BY <1>2, <2>1, <2>2, <2>3, RewriteBasics
  <1>5. CASE Unlinking(v)
    <2>1. PICK d : Deletes(todo', d, v)
      BY <1>2, <1>5, UnlinkIs DEF Unlinking, DirBasics
    <2>2. op' \in Ops /\ op' # NoOp /\ op'.kind # "create"
      BY <1>2, <1>5 DEF Unlinking, Ops, NoOp
    <2> QED
      BY <1>2, <2>1, <2>2, UnlinkBasics
  <1> QED
    BY <1>3, <1>4, <1>5

\* The file a create makes is one.
LEMMA MadeFile ==
  ASSUME DirTyped, NEW name \in FileNames, NEW dir \in BOOLEAN, NEW made, NEW n, NEW at, NEW m, NEW c, NEW d,
         CreatesFile(name, dir, made, n, at, m, c, d)
  PROVE  /\ op' \in Ops /\ op' # NoOp /\ op'.kind = "create" /\ op'.sn = made.sn /\ op'.file \in Files /\ ~op'.begun
         /\ op'.file.sn = made.sn /\ op'.file.id = count.file + 1 /\ op'.file.dir = dir /\ op'.file.cluster = c
         /\ made.lfn => op'.file.name = name
         /\ ~made.lfn => op'.file.name = ShortToName(made.sn)
  <1>1. /\ made.sn \in SNames /\ made.lfn \in BOOLEAN /\ c \in {0} \cup Clusters
        /\ ~made.lfn => Listed(name, made.lfn) = ShortToName(made.sn)
        /\ op' = [kind |-> "create", begun |-> FALSE, sn |-> made.sn,
                  file |-> [name |-> Listed(name, made.lfn), id |-> count.file + 1, sn |-> made.sn,
                            dir |-> dir, cluster |-> c]]
    BY DEF CreatesFile
  <1>2. made.lfn => Listed(name, made.lfn) = name
    BY DEF Listed
  <1>3. name \in Seq(Letters)
    <2>1. STRING \subseteq Letters /\ name \in Seq(STRING)
      BY DirAssumption DEF Letters
    <2> QED
      BY <2>1, SeqOfMore
  <1>4. Listed(name, made.lfn) \in Seq(Letters)
    BY <1>1, <1>2, <1>3, ShortToNameIs
  <1>5. count.file + 1 \in Nat
    BY DEF DirTyped
  <1>6. PICK f : f = [name |-> Listed(name, made.lfn), id |-> count.file + 1, sn |-> made.sn, dir |-> dir, cluster |-> c]
    OBVIOUS
  <1>7. f \in Files /\ f.sn = made.sn /\ f.id = count.file + 1 /\ f.dir = dir /\ f.cluster = c /\ f.name = Listed(name, made.lfn)
    BY <1>1, <1>4, <1>5, <1>6 DEF Files
  <1>8. op' = [kind |-> "create", begun |-> FALSE, sn |-> made.sn, file |-> f]
    BY <1>1, <1>6
  <1>9. op' \in Ops /\ op' # NoOp /\ op'.kind = "create" /\ op'.sn = made.sn /\ op'.file = f /\ ~op'.begun
    BY <1>1, <1>7, <1>8 DEF Ops, NoOp
  <1> QED
    BY <1>1, <1>2, <1>7, <1>9

LEMMA MadeBasics ==
  ASSUME DirBasics, NEW name \in FileNames, NEW dir \in BOOLEAN, create(fat32_iter_dir, name, dir)
  PROVE  DirBasics'
  <1>1. DirTyped
    BY DEF DirBasics
  <1>2. /\ UNCHANGED <<slots, fat, dots, files, hurt>> /\ count' = [count EXCEPT !.file = @ + 1]
        /\ touched' = (touched \/ op'.sn \in hurt)
        /\ \/ \E m, sn : GrowsOnly(m, sn)
           \/ \E made, n, at, m, c, d : CreatesFile(name, dir, made, n, at, m, c, d)
    BY CreateUnfolded
  <1>3. touched' \in BOOLEAN
    BY <1>1, <1>2 DEF DirTyped
  <1>4. ASSUME NEW m, NEW sn, GrowsOnly(m, sn) PROVE DirBasics'
    <2>1. m \in Nat \ {0} /\ m <= Len(FreeSeq) /\ todo' = Grow(m) /\ sn \in SNames
          /\ op' = [kind |-> "grow", begun |-> FALSE, sn |-> sn]
      BY <1>4 DEF GrowsOnly
    <2>2. op' \in Ops /\ op' # NoOp /\ op'.kind = "grow"
      BY <2>1 DEF Ops, NoOp
    <2> QED
      BY <1>2, <1>3, <2>1, <2>2, GrowBasics
  <1>5. ASSUME NEW made, NEW n, NEW at, NEW m, NEW c, NEW d, CreatesFile(name, dir, made, n, at, m, c, d) PROVE DirBasics'
    <2>1. op' \in Ops /\ op' # NoOp /\ op'.kind = "create" /\ op'.file.id = count.file + 1
      BY <1>1, <1>5, MadeFile
    <2>2. PICK id, sn : id = count.file + 1 /\ sn = made.sn
      OBVIOUS
    <2>3. /\ n \in Nat /\ at \in Nat \ {0} /\ m \in Nat /\ m <= Len(FreeSeq) /\ c \in {0} \cup Clusters /\ d \in {0, 4}
          /\ Creates(todo', m, d, n, at, name, sn, id, dir, c)
          /\ \A j \in 1 .. at - 1 : j \in DOMAIN slots /\ slots[j] # End
          /\ at + n <= Len(slots) + PerCluster * m
          /\ \A j \in DOMAIN slots : slots[j].k = "short" => slots[j].sn # sn
      BY <1>5, <2>2 DEF CreatesFile
    <2>4. op'.kind = "create" /\ op'.file.id = id
      BY <2>1, <2>2
    <2>5. CreateCall(m, dir, n, at, name, sn, c, d, id)
      BY <1>2, <1>3, <2>1, <2>2, <2>3, <2>4 DEF CreateCall
    <2>6. CreatePlace(m, n, at, sn)
      BY <2>3 DEF CreatePlace
    <2> QED
      BY <2>3, <2>5, <2>6, CreateBasics
  <1> QED
    BY <1>2, <1>4, <1>5

-----------------------------------------------------------------------------
(* A call begins while no file that a crash has hurt is met. *)

\* Nothing is on its way, and every file that is not hurt is whole.
Whole ==
  /\ DirBasics /\ todo = <<>> /\ ~touched
  /\ \A s \in SNames : s \notin hurt => Right(Now, files, s)
  /\ \A f \in files : f.sn \notin hurt /\ f.cluster # 0 =>
       /\ fat[f.cluster]
       /\ \A g \in files : g.sn \notin hurt /\ g.cluster = f.cluster => g = f

LEMMA WholeIs ==
  ASSUME DirInv, todo = <<>>, ~touched
  PROVE  Whole
  <1>1. NowRight /\ NowClusters /\ DirBasics
    BY DEF DirInv
  <1>2. \A s : Exempt(s) <=> s \in hurt
    BY DEF Exempt
  <1> QED
    BY <1>1, <1>2 DEF Whole, NowRight, NowClusters

LEMMA ShortIs ==
  ASSUME NEW s \in SNames, NEW id \in Nat, NEW dir \in BOOLEAN, NEW c \in Nat, NEW e, e = Short(s, id, dir, c)
  PROVE  /\ e \in Shorts /\ e \in DirEntries /\ e # End /\ e # Del /\ NameOf(e) = <<s>>
         /\ e.k = "short" /\ e.sn = s /\ e.id = id /\ e.dir = dir /\ e.cluster = c
  BY DEF Short, Shorts, DirEntries, End, Del, NameOf

\* What a file's place holds.
LEMMA HomeIs ==
  ASSUME NEW S, NEW f \in Files, NEW a \in Places, NEW n \in Nat, Home(S, f, a, n)
  PROVE  /\ S[a] = Short(f.sn, f.id, f.dir, f.cluster) /\ S[a] \in Shorts /\ S[a].k = "short"
         /\ S[a].sn = f.sn /\ S[a].id = f.id /\ S[a].dir = f.dir /\ S[a].cluster = f.cluster
         /\ \A i \in a - n .. a : i # a => S[i].k = "lfn"
         /\ \A i \in Places : NameOf(S[i]) = <<f.sn>> <=> i \in a - n .. a
  <1>1. a \in a - n .. a
    BY DEF Places
  <1>2. S[a] = Short(f.sn, f.id, f.dir, f.cluster)
    BY <1>1 DEF Home, Want
  <1>3. f.sn \in SNames /\ f.id \in Nat /\ f.dir \in BOOLEAN /\ f.cluster \in Nat
    BY DEF Files, Clusters
  <1>4. /\ S[a] \in Shorts /\ S[a].k = "short"
        /\ S[a].sn = f.sn /\ S[a].id = f.id /\ S[a].dir = f.dir /\ S[a].cluster = f.cluster
    BY <1>2, <1>3, ShortIs
  <1>5. ASSUME NEW i \in a - n .. a, i # a PROVE S[i].k = "lfn"
    <2>1. S[i] = fat32_fill_lfn_entry(f.name, a - i, i = a - n, f.sn)
      BY <1>5 DEF Home, Want
    <2> QED
      BY <2>1 DEF fat32_fill_lfn_entry
  <1> QED
    BY <1>2, <1>4, <1>5 DEF Home

\* The file of a short entry that is not hurt.
LEMMA SeenHome ==
  ASSUME DirTyped, NEW i \in DOMAIN slots, slots[i].k = "short", Right(Now, files, slots[i].sn)
  PROVE  \E f \in files, n \in Nat : f.sn = slots[i].sn /\ Home(Now, f, i, n) /\ i \in Places
  <1>1. slots \in Seq(DirEntries) /\ files \subseteq Files
    BY DEF DirTyped
  <1>2. i \in Places /\ Now[i] = slots[i]
    BY <1>1, NowIs
  <1>3. NameOf(Now[i]) = <<slots[i].sn>>
    BY <1>2 DEF NameOf
  <1>4. PICK f \in files : f.sn = slots[i].sn
    BY <1>2, <1>3 DEF Right
  <1>5. PICK a \in Places, n \in Nat : Home(Now, f, a, n)
    BY <1>4 DEF Right
  <1>6. i \in a - n .. a /\ (i # a => Now[i].k = "lfn")
    BY <1>1, <1>2, <1>3, <1>4, <1>5, HomeIs
  <1> QED
    BY <1>2, <1>4, <1>5, <1>6

\* Right is about the entries of that one short name.
LEMMA RightStays ==
  ASSUME NEW S, NEW T, NEW F, NEW G, NEW s, Right(S, F, s),
         \A i \in Places : T[i] = S[i] \/ (NameOf(S[i]) # <<s>> /\ NameOf(T[i]) # <<s>>),
         \A f \in G : f.sn = s => f \in F, \A f \in F : f.sn = s => f \in G
  PROVE  Right(T, G, s)
  <1>1. ASSUME NEW f \in G, f.sn = s PROVE \E a \in Places, n \in Nat : Home(T, f, a, n)
    <2>1. PICK a \in Places, n \in Nat : Home(S, f, a, n)
      BY <1>1 DEF Right
    <2>2. \A i \in Places : NameOf(T[i]) = <<f.sn>> <=> i \in a - n .. a
      BY <1>1, <2>1 DEF Home
    <2>3. ASSUME NEW i \in a - n .. a PROVE T[i] = Want(f, a, n, i)
      <3>1. i \in Places /\ NameOf(S[i]) = <<s>>
        BY <1>1, <2>1 DEF Home, Places
      <3> QED
        BY <2>1, <3>1 DEF Home
    <2>4. Home(T, f, a, n)
      BY <2>1, <2>2, <2>3 DEF Home
    <2> QED
      BY <2>4
  <1>2. \A f, g \in G : f.sn = s /\ g.sn = s => f = g
    BY DEF Right
  <1>3. \A i \in Places : NameOf(T[i]) = <<s>> => \E f \in G : f.sn = s
    BY DEF Right
  <1> QED
    BY <1>1, <1>2, <1>3 DEF Right

LEMMA BeginKeeps ==
  ASSUME DirInv, DirBasics', todo = <<>>, UNCHANGED <<slots, fat, dots, files, hurt>>, ~op'.begun,
         count'.crash = count.crash, touched' = (touched \/ op'.sn \in hurt),
         Whole /\ op'.sn \notin hurt => OwnWrites' /\ EndRight'
  PROVE  DirInv'
  <1>1. count'.crash = 0 => hurt' = {} /\ ~touched'
    BY DEF DirInv
  <1>2. ASSUME ~touched' PROVE NowRight' /\ NowClusters' /\ OwnWrites' /\ EndRight'
    <2>1. ~touched /\ op'.sn \notin hurt
      BY <1>2
    <2>2. NowRight /\ NowClusters
      BY <2>1 DEF DirInv
    <2>3. OwnWrites' /\ EndRight'
      BY <2>1, WholeIs
    <2>4. Now' = Now
      BY DEF Now
    <2>5. \A s : Exempt(s)' <=> Exempt(s)
      BY DEF Exempt, Cuts
    <2>6. NowRight'
      BY <2>2, <2>4, <2>5 DEF NowRight
    <2>7. NowClusters'
      BY <2>2, <2>5 DEF NowClusters
    <2> QED
      BY <2>3, <2>6, <2>7
  <1> QED
    BY <1>1, <1>2 DEF DirInv

LEMMA AfterIs ==
  ASSUME NEW W, NEW N, NEW A, A = After(W, N),
         \A k, l \in DOMAIN W : W[k].t = "put" /\ W[l].t = "put" /\ W[k].i = W[l].i => k = l
  PROVE  /\ \A k \in DOMAIN W : W[k].t = "put" /\ W[k].i \in Places => A[W[k].i] = W[k].e
         /\ \A i \in Places : (\A k \in DOMAIN W : ~(W[k].t = "put" /\ W[k].i = i)) => A[i] = N[i]
  <1>1. ASSUME NEW k \in DOMAIN W, W[k].t = "put", W[k].i \in Places PROVE A[W[k].i] = W[k].e
    <2> DEFINE P(l) == l \in DOMAIN W /\ W[l].t = "put" /\ W[l].i = W[k].i
    <2>1. k = CHOOSE l \in DOMAIN W : W[l].t = "put" /\ W[l].i = W[k].i
      BY <1>1
    <2> QED
      BY <1>1, <2>1 DEF After
  <1>2. ASSUME NEW i \in Places, \A k \in DOMAIN W : ~(W[k].t = "put" /\ W[k].i = i) PROVE A[i] = N[i]
    BY <1>2 DEF After
  <1> QED
    BY <1>1, <1>2

\* A call that ends with a new short entry for the file it found.
LEMMA RewriteKeeps ==
  ASSUME Whole, NEW v, SeenAt(v), NEW c \in {0} \cup Clusters, Rewrites(todo', v, c),
         UNCHANGED <<slots, files, hurt>>, op' \in Ops, op'.kind \in {"write", "truncate"}, op'.sn = v.e.sn,
         op'.id = v.e.id, op'.cluster = c, op'.sn \notin hurt
  PROVE  /\ OwnCall' /\ OwnEntries' /\ Right(Final', Returned', op'.sn)
         /\ \E f \in files : /\ f.sn = op'.sn /\ f.id = op'.id /\ f.cluster = v.e.cluster /\ f.dir = v.e.dir
                             /\ Returned' = {IF g.id = f.id THEN [g EXCEPT !.cluster = c] ELSE g : g \in files}
  <1> DEFINE a == v.at
             s == v.e.sn
             len == Len(todo')
  <1>1. DirTyped /\ Distinct
    BY DEF Whole, DirBasics
  <1>2. a \in DOMAIN slots /\ v.e = slots[a] /\ v.e \in Shorts /\ slots[a].k = "short" /\ slots[a].sn = s /\ s \in SNames
    BY DEF SeenAt, Shorts
  <1>3. Right(Now, files, s)
    BY <1>2 DEF Whole
  <1>4. PICK f \in files, n \in Nat : f.sn = s /\ Home(Now, f, a, n) /\ a \in Places
    BY <1>1, <1>2, <1>3, SeenHome
  <1>5. f \in Files /\ files \subseteq Files /\ slots \in Seq(DirEntries)
    BY <1>1 DEF DirTyped
  <1>6. Now[a] = slots[a]
    BY <1>2, <1>5, NowIs
  <1>7. /\ f.id = v.e.id /\ f.dir = v.e.dir /\ f.cluster = v.e.cluster
        /\ v.e = Short(f.sn, f.id, f.dir, f.cluster)
        /\ \A i \in a - n .. a : i # a => Now[i].k = "lfn"
        /\ \A i \in Places : NameOf(Now[i]) = <<s>> <=> i \in a - n .. a
    BY <1>2, <1>4, <1>5, <1>6, HomeIs
  <1> DEFINE R == {IF g.id = f.id THEN [g EXCEPT !.cluster = c] ELSE g : g \in files}
  <1>8. Returned' = R
    BY <1>7 DEF Returned
  <1>9. PICK h : h = [f EXCEPT !.cluster = c]
    OBVIOUS
  <1>10. h \in Files /\ h.name = f.name /\ h.id = f.id /\ h.sn = f.sn /\ h.dir = f.dir /\ h.cluster = c
    BY <1>5, <1>9, FileIs
  <1>11. \A g \in files : g.id = f.id => g = f
    BY <1>1 DEF Distinct
  <1>12. \A g \in R : g = h \/ (g \in files /\ g # f)
    BY <1>9, <1>11
  <1>13. h \in R
    BY <1>9
  <1>14. \A g \in R : g.sn = s => g = h
    <2>1. \A g \in files : g.sn = s => g = f
      BY <1>3, <1>4 DEF Right
    <2> QED
      BY <1>12, <2>1
  <1>15. PICK e : e = [v.e EXCEPT !.cluster = c]
    OBVIOUS
  <1>16. e = Short(s, f.id, f.dir, c)
    <2>1. v.e = Short(s, f.id, f.dir, f.cluster)
      BY <1>4, <1>7
    <2> QED
      BY <1>15, <2>1 DEF Short
  <1>17. NameOf(e) = <<s>> /\ e = Want(h, a, n, a)
    BY <1>4, <1>10, <1>16 DEF NameOf, Short, Want
  <1>18. /\ len \in DOMAIN todo' /\ todo'[len].t = "put" /\ todo'[len].i = a /\ todo'[len].e = e
         /\ \A k \in DOMAIN todo' : k # len => todo'[k].t # "put"
    BY <1>15 DEF Rewrites, Put
  <1>19. Now' = Now
    BY DEF Now
  <1> DEFINE A == After(todo', Now)
  <1>20. /\ A[a] = e
         /\ \A i \in Places : i # a => A[i] = Now[i]
    <2>1. PICK W, N, X : W = todo' /\ N = Now /\ X = A
      OBVIOUS
    <2>2. X = After(W, N)
      BY <2>1
    <2>3. \A k, l \in DOMAIN W : W[k].t = "put" /\ W[l].t = "put" /\ W[k].i = W[l].i => k = l
      BY <1>18, <2>1
    <2>4. /\ \A k \in DOMAIN W : W[k].t = "put" /\ W[k].i \in Places => X[W[k].i] = W[k].e
          /\ \A i \in Places : (\A k \in DOMAIN W : ~(W[k].t = "put" /\ W[k].i = i)) => X[i] = N[i]
      BY <2>2, <2>3, AfterIs
    <2> HIDE DEF A, len
    <2> QED
      BY <1>4, <1>18, <2>1, <2>4
  <1> HIDE DEF A, len, R
  <1>21. Home(A, h, a, n)
    <2>1. n < a
      BY <1>4 DEF Home
    <2>2. a \in a - n .. a
      BY <1>4 DEF Places
    <2>3. \A i \in Places : NameOf(A[i]) = <<h.sn>> <=> i \in a - n .. a
      BY <1>4, <1>7, <1>10, <1>17, <1>20, <2>2
    <2>4. ASSUME NEW i \in a - n .. a PROVE A[i] = Want(h, a, n, i)
      <3>1. CASE i = a
        BY <1>17, <1>20, <3>1
      <3>2. CASE i # a
        <4>1. i \in Places /\ Now[i] = Want(f, a, n, i)
          BY <1>4, <2>1 DEF Home, Places
        <4>2. Want(f, a, n, i) = Want(h, a, n, i)
          BY <1>10, <3>2 DEF Want
        <4> QED
          BY <1>20, <3>2, <4>1, <4>2
      <3> QED
        BY <3>1, <3>2
    <2>5. \/ n = 0 /\ h.name = ShortToName(h.sn)
          \/ n = CeilDiv(Len(h.name), LfnChars) /\ LongName(h.name)
      BY <1>4, <1>10 DEF Home
    <2> QED
      BY <2>1, <2>3, <2>4, <2>5 DEF Home
  <1>22. Right(A, R, s)
    <2>1. \A g \in R : g.sn = s => Home(A, g, a, n)
      BY <1>14, <1>21
    <2>2. h.sn = s
      BY <1>4, <1>10
    <2> QED
      BY <1>4, <1>13, <1>14, <2>1, <2>2 DEF Right
  <1>23. Final' = A
    BY <1>19 DEF Final, A
  <1>24. OwnCall'
    BY <1>4, <1>7, <1>11 DEF OwnCall
  <1>25. OwnEntries'
    <2>1. \A k \in DOMAIN todo' : PutAt(k)' => k = len
      BY <1>18 DEF PutAt
    <2>2. NameOf(todo'[len].e) = <<op'.sn>> /\ NameOf(Now[todo'[len].i]) = <<op'.sn>>
      BY <1>2, <1>6, <1>17, <1>18 DEF NameOf
    <2> QED
      BY <1>19, <2>1, <2>2 DEF OwnEntries, len
  <1>26. f.sn = op'.sn /\ f.id = op'.id /\ f.cluster = v.e.cluster /\ f.dir = v.e.dir
    BY <1>4, <1>7
  <1> QED
    BY <1>8, <1>22, <1>23, <1>24, <1>25, <1>26 DEF R

LEMMA WritingKeeps ==
  ASSUME Whole, NEW v, NEW c, Writing(v, c), op'.sn \notin hurt
  PROVE  OwnWrites' /\ EndRight'
  <1>1. /\ SeenAt(v) /\ c \in Clusters /\ c \in {0} \cup Clusters /\ ~fat[c] /\ todo' = WriteWrites(v, c) /\ ~v.e.dir
        /\ UNCHANGED <<slots, fat, dots, files, hurt, count>> /\ v.e.sn \in SNames /\ v.e.id \in Nat
        /\ op' = [kind |-> "write", begun |-> FALSE, sn |-> v.e.sn, id |-> v.e.id, cluster |-> c]
    BY DEF Writing, Finds
  <1>2. op' \in Ops /\ op'.kind = "write" /\ op'.sn = v.e.sn /\ op'.id = v.e.id /\ op'.cluster = c
    BY <1>1 DEF Ops
  <1>3. Rewrites(todo', v, c)
    BY <1>1, RewritesIs DEF Writing, Finds
  <1>4. /\ OwnCall' /\ OwnEntries' /\ Right(Final', Returned', op'.sn)
        /\ \E f \in files : /\ f.sn = op'.sn /\ f.id = op'.id /\ f.cluster = v.e.cluster /\ f.dir = v.e.dir
                            /\ Returned' = {IF g.id = f.id THEN [g EXCEPT !.cluster = c] ELSE g : g \in files}
    <2>1. /\ SeenAt(v) /\ UNCHANGED <<slots, files, hurt>> /\ op' \in Ops /\ op'.kind \in {"write", "truncate"}
          /\ op'.sn = v.e.sn /\ op'.id = v.e.id /\ op'.cluster = c /\ c \in {0} \cup Clusters
      BY <1>1, <1>2
    <2> QED
      BY <1>3, <2>1, RewriteKeeps
  <1>5. PICK f \in files : /\ f.sn = op'.sn /\ f.dir = v.e.dir
                           /\ Returned' = {IF g.id = f.id THEN [g EXCEPT !.cluster = c] ELSE g : g \in files}
    BY <1>4
  <1>6. \A g \in files : g.sn \notin hurt => g.cluster # c
    <2>1. c # 0
      BY <1>1 DEF Clusters
    <2> QED
      BY <1>1, <2>1 DEF Whole
  <1>7. PICK W : W = todo'
    OBVIOUS
  <1>8. W = <<Fat(c, TRUE), Zero(c), Put(v.at, [v.e EXCEPT !.cluster = c])>>
    BY <1>1, <1>7 DEF WriteWrites
  <1>9. /\ DOMAIN W = 1 .. 3 /\ W[1] = Fat(c, TRUE) /\ W[2].t = "zero" /\ W[2].c = c /\ W[3].t = "put"
    BY <1>8 DEF Zero, Put
  <1>10. \A k \in DOMAIN W : k = 1 \/ k = 2 \/ k = 3
    BY <1>9
  <1>11. \A k \in DOMAIN W : W[k].t \in {"fat", "zero", "dot"} => W[k].c = c
    BY <1>9, <1>10 DEF Fat
  <1>12. OwnClusters'
    BY <1>1, <1>6, <1>7, <1>11 DEF OwnClusters
  <1>13. FatEnd(c)'
    <2>1. \A k \in DOMAIN W : W[k] # Fat(c, FALSE)
      BY <1>9, <1>10 DEF Fat
    <2>2. 1 \in DOMAIN W
      BY <1>9
    <2> QED
      BY <1>7, <1>9, <2>1, <2>2 DEF FatEnd
  <1>14. EndClusters'
    <2>1. ASSUME NEW h \in Returned', h.sn = op'.sn PROVE h.cluster = c /\ ~h.dir
      <3>1. PICK g \in files : h = IF g.id = f.id THEN [g EXCEPT !.cluster = c] ELSE g
        BY <1>5, <2>1
      <3>2. g \in Files /\ f \in Files
        BY DEF Whole, DirBasics, DirTyped
      <3>3. h.sn = g.sn
        BY <1>1, <3>1, <3>2, FileIs
      <3>4. g = f
        <4>1. Right(Now, files, op'.sn)
          BY <1>1, <1>2 DEF Whole
        <4> QED
          BY <1>5, <2>1, <3>3, <4>1 DEF Right
      <3> QED
        BY <1>1, <1>5, <3>1, <3>2, <3>4, FileIs
    <2> QED
      BY <1>1, <1>6, <1>13, <2>1 DEF EndClusters
  <1> QED
    BY <1>4, <1>12, <1>14 DEF OwnWrites, EndRight

LEMMA TruncatingKeeps ==
  ASSUME Whole, NEW v, Truncating(v), op'.sn \notin hurt
  PROVE  OwnWrites' /\ EndRight'
  <1>1. /\ SeenAt(v) /\ v.e.cluster \in Clusters /\ todo' = TruncateWrites(v)
        /\ UNCHANGED <<slots, fat, dots, files, hurt, count>> /\ v.e.sn \in SNames /\ v.e.id \in Nat
        /\ op' = [kind |-> "truncate", begun |-> FALSE, sn |-> v.e.sn, id |-> v.e.id, cluster |-> 0]
    BY DEF Truncating, Finds
  <1>2. op' \in Ops /\ op'.kind = "truncate" /\ op'.sn = v.e.sn /\ op'.id = v.e.id /\ op'.cluster = 0
    BY <1>1 DEF Ops
  <1>3. v.e.cluster # 0 /\ Rewrites(todo', v, 0) /\ 0 \in {0} \cup Clusters
    <2>1. v.e.cluster # 0
      BY <1>1 DEF Clusters
    <2> QED
      BY <1>1, <2>1, RewritesIs
  <1>4. /\ OwnCall' /\ OwnEntries' /\ Right(Final', Returned', op'.sn)
        /\ \E f \in files : /\ f.sn = op'.sn /\ f.id = op'.id /\ f.cluster = v.e.cluster /\ f.dir = v.e.dir
                            /\ Returned' = {IF g.id = f.id THEN [g EXCEPT !.cluster = 0] ELSE g : g \in files}
    <2>1. PICK c \in {0} \cup Clusters : c = 0
      OBVIOUS
    <2>2. Rewrites(todo', v, c) /\ op'.cluster = c
      BY <1>2, <1>3, <2>1
    <2>3. /\ OwnCall' /\ OwnEntries' /\ Right(Final', Returned', op'.sn)
          /\ \E f \in files : /\ f.sn = op'.sn /\ f.id = op'.id /\ f.cluster = v.e.cluster /\ f.dir = v.e.dir
                              /\ Returned' = {IF g.id = f.id THEN [g EXCEPT !.cluster = c] ELSE g : g \in files}
      <3>1. /\ SeenAt(v) /\ UNCHANGED <<slots, files, hurt>> /\ op' \in Ops /\ op'.kind \in {"write", "truncate"}
            /\ op'.sn = v.e.sn /\ op'.id = v.e.id
        BY <1>1, <1>2
      <3> QED
        BY <2>2, <3>1, RewriteKeeps
    <2> QED
      BY <2>1, <2>3
  <1>5. PICK f \in files : /\ f.sn = op'.sn /\ f.cluster = v.e.cluster
                           /\ Returned' = {IF g.id = f.id THEN [g EXCEPT !.cluster = 0] ELSE g : g \in files}
    BY <1>4
  <1>6. \A g \in files : g.sn \notin hurt /\ g.cluster = v.e.cluster => g.sn = op'.sn
    BY <1>3, <1>5 DEF Whole
  <1>7. PICK W : W = todo'
    OBVIOUS
  <1>8. W = <<Fat(v.e.cluster, FALSE), Put(v.at, [v.e EXCEPT !.cluster = 0])>>
    BY <1>1, <1>7 DEF TruncateWrites
  <1>9. /\ DOMAIN W = 1 .. 2 /\ W[1].c = v.e.cluster /\ W[2].t = "put"
    BY <1>8 DEF Fat, Put
  <1>10. \A k \in DOMAIN W : W[k].t \in {"fat", "zero", "dot"} => W[k].c = v.e.cluster
    <2>1. \A k \in DOMAIN W : k = 1 \/ k = 2
      BY <1>9
    <2> QED
      BY <1>9, <2>1
  <1>11. OwnClusters'
    BY <1>1, <1>2, <1>6, <1>7, <1>10 DEF OwnClusters
  <1>12. EndClusters'
    <2>1. ASSUME NEW h \in Returned', h.sn = op'.sn PROVE h.cluster = 0
      <3>1. PICK g \in files : h = IF g.id = f.id THEN [g EXCEPT !.cluster = 0] ELSE g
        BY <1>5, <2>1
      <3>2. g \in Files /\ f \in Files
        BY DEF Whole, DirBasics, DirTyped
      <3>3. h.sn = g.sn
        BY <1>3, <3>1, <3>2, FileIs
      <3>4. g = f
        <4>1. Right(Now, files, op'.sn)
          BY <1>1, <1>2 DEF Whole
        <4> QED
          BY <1>5, <2>1, <3>3, <4>1 DEF Right
      <3> QED
        BY <1>3, <3>1, <3>2, <3>4, FileIs
    <2> QED
      BY <2>1 DEF EndClusters
  <1> QED
    BY <1>4, <1>11, <1>12 DEF OwnWrites, EndRight

\* The long-name entries counted before a short one are its own, or of a file
\* that a crash has hurt.
LEMMA BeforeIs ==
  ASSUME Whole, NEW v, SeenAt(v), v.e.sn \in SNames, NEW j \in v.at - v.lfn .. v.at
  PROVE  /\ j \in Places /\ j \in DOMAIN slots
         /\ NameOf(Now[j]) \in {<<>>, <<v.e.sn>>} \cup {<<h>> : h \in hurt}
  <1>1. /\ v.at \in DOMAIN slots /\ v.e = slots[v.at] /\ v.e.k = "short" /\ v.lfn \in Nat /\ v.lfn < v.at
        /\ \A i \in 1 .. v.lfn : slots[v.at - i].k = "lfn"
    BY DEF SeenAt, Shorts, Views
  <1>2. slots \in Seq(DirEntries) /\ files \subseteq Files
    BY DEF Whole, DirBasics, DirTyped
  <1>3. v.at \in Nat /\ v.at <= Len(slots) /\ DOMAIN slots = 1 .. Len(slots) /\ Len(slots) \in Nat
    BY <1>1, <1>2
  <1>4. ASSUME NEW i \in v.at - v.lfn .. v.at, i # v.at PROVE i \in DOMAIN slots /\ slots[i].k = "lfn"
    <2>1. v.at - i \in 1 .. v.lfn /\ v.at - (v.at - i) = i /\ i \in 1 .. Len(slots)
      BY <1>1, <1>3, <1>4
    <2> QED
      BY <1>1, <1>3, <2>1
  <1>5. j \in DOMAIN slots /\ j \in Places /\ Now[j] = slots[j]
    BY <1>1, <1>2, <1>4, NowIs
  <1>6. CASE j = v.at
    BY <1>1, <1>5, <1>6 DEF NameOf
  <1>7. CASE j # v.at
    <2>1. slots[j] \in Lfns
      <3>1. slots[j] \in DirEntries /\ slots[j].k = "lfn"
        BY <1>2, <1>4, <1>5, <1>7
      <3> QED
        BY <3>1, Kinds
    <2>2. PICK t \in SNames : slots[j].of = t
      BY <2>1 DEF Lfns
    <2>3. NameOf(Now[j]) = <<t>>
      BY <1>5, <2>1, <2>2 DEF NameOf, Lfns
    <2>4. ASSUME t \notin hurt, t # v.e.sn PROVE FALSE
      <3>1. Right(Now, files, t)
        BY <2>4 DEF Whole
      <3>2. PICK f \in files : f.sn = t
        BY <1>5, <2>3, <3>1 DEF Right
      <3>3. PICK a \in Places, n \in Nat : Home(Now, f, a, n)
        BY <3>1, <3>2 DEF Right
      <3>4. /\ Now[a].k = "short" /\ (\A i \in a - n .. a : i # a => Now[i].k = "lfn")
            /\ \A i \in Places : NameOf(Now[i]) = <<t>> <=> i \in a - n .. a
        <4>1. f \in Files
          BY <1>2
        <4>2. /\ Now[a].k = "short" /\ (\A i \in a - n .. a : i # a => Now[i].k = "lfn")
              /\ \A i \in Places : NameOf(Now[i]) = <<f.sn>> <=> i \in a - n .. a
          BY <3>3, <4>1, HomeIs
        <4> QED
          BY <3>2, <4>2
      <3>5. j \in a - n .. a /\ j # a
        <4>1. Now[j].k = "lfn"
          BY <1>5, <2>1 DEF Lfns
        <4> QED
          BY <1>5, <2>3, <3>4, <4>1
      <3>6. v.at \in Places /\ v.at \notin a - n .. a
        <4>1. v.at \in Places /\ Now[v.at] = slots[v.at]
          BY <1>1, <1>2, NowIs
        <4>2. NameOf(Now[v.at]) = <<v.e.sn>>
          BY <1>1, <4>1 DEF NameOf
        <4>3. <<v.e.sn>> # <<t>>
          BY <2>4
        <4> QED
          BY <3>4, <4>1, <4>2, <4>3
      <3>7. a \in v.at - v.lfn .. v.at /\ a # v.at
        <4>1. a \in Nat /\ j \in Nat /\ v.at \in Nat /\ n \in Nat
          BY <1>3, <1>5 DEF Places
        <4> QED
          BY <1>1, <1>7, <3>5, <3>6, <4>1
      <3>8. a \in DOMAIN slots /\ slots[a].k = "lfn" /\ Now[a] = slots[a]
        BY <1>2, <1>4, <3>7, NowIs
      <3> QED
        BY <3>4, <3>8
    <2> QED
      BY <1>5, <2>3, <2>4
  <1> QED
    BY <1>5, <1>6, <1>7

\* The l + 1 entries up to a are deleted, one by one.
Deleted(W, d, a, l, c) ==
  /\ l \in Nat /\ a \in Nat /\ l < a /\ d \in {0, 1} /\ DOMAIN W = 1 .. d + l + 1
  /\ \A k \in DOMAIN W : W[k].t = "put" <=> k > d
  /\ \A k \in DOMAIN W : W[k].t = "put" => /\ W[k].i = a - l + (k - d) - 1 /\ W[k].i \in a - l .. a
                                           /\ W[k].e = Del
  /\ \A i \in a - l .. a : \E k \in DOMAIN W : W[k].t = "put" /\ W[k].i = i
  /\ \A k \in DOMAIN W : W[k].t # "put" => W[k] = Fat(c, FALSE) /\ c # 0

LEMMA DeletesIs ==
  ASSUME NEW v, SeenAt(v), NEW d, NEW W, Deletes(W, d, v)
  PROVE  Deleted(W, d, v.at, v.lfn, v.e.cluster)
  <1> DEFINE a == v.at
             l == v.lfn
  <1>1. l \in Nat /\ a \in Nat /\ l < a
    BY DEF SeenAt, Views
  <1>2. /\ d \in {0, 1} /\ DOMAIN W = 1 .. d + l + 1 /\ (d = 1 <=> v.e.cluster # 0)
        /\ d = 1 => W[1] = Fat(v.e.cluster, FALSE)
        /\ \A k \in d + 1 .. d + l + 1 : W[k] = Put(a - l + (k - d) - 1, Del)
    BY DEF Deletes
  <1>3. ASSUME NEW k \in DOMAIN W, k > d
        PROVE  W[k].t = "put" /\ W[k].i = a - l + (k - d) - 1 /\ W[k].i \in a - l .. a /\ W[k].e = Del
    <2>1. W[k] = Put(a - l + (k - d) - 1, Del) /\ a - l + (k - d) - 1 \in a - l .. a
      BY <1>1, <1>2, <1>3
    <2> QED
      BY <2>1 DEF Put
  <1>4. ASSUME NEW k \in DOMAIN W, ~(k > d) PROVE W[k].t # "put" /\ W[k] = Fat(v.e.cluster, FALSE) /\ v.e.cluster # 0
    <2>1. d = 1 /\ k = 1
      BY <1>1, <1>2, <1>4
    <2> QED
      BY <1>2, <2>1 DEF Fat
  <1>5. ASSUME NEW i \in a - l .. a PROVE \E k \in DOMAIN W : W[k].t = "put" /\ W[k].i = i
    <2>1. PICK k : k = d + (i - a + l) + 1
      OBVIOUS
    <2>2. k \in DOMAIN W /\ k > d /\ a - l + (k - d) - 1 = i
      <3>1. i \in Int /\ a - l <= i /\ i <= a /\ d \in Nat
        BY <1>1, <1>2
      <3>2. k \in Int /\ k > d /\ k <= d + l + 1 /\ a - l + (k - d) - 1 = i
        BY <1>1, <2>1, <3>1
      <3> QED
        BY <1>1, <1>2, <3>1, <3>2
    <2> QED
      BY <1>3, <2>2
  <1> QED
    BY <1>1, <1>2, <1>3, <1>4, <1>5 DEF Deleted

LEMMA UnlinkingKeeps ==
  ASSUME Whole, NEW v, Unlinking(v), op'.sn \notin hurt
  PROVE  OwnWrites' /\ EndRight'
  <1> DEFINE s == v.e.sn
  <1>1. /\ SeenAt(v) /\ todo' = UnlinkWrites(v) /\ (\E k \in DOMAIN fat32_iter_dir : v = fat32_iter_dir[k])
        /\ UNCHANGED <<slots, fat, dots, files, hurt, count>> /\ s \in SNames /\ v.e.id \in Nat
        /\ op' = [kind |-> "unlink", begun |-> FALSE, sn |-> s, id |-> v.e.id]
    BY DEF Unlinking, Finds
  <1>2. op'.kind = "unlink" /\ op'.sn = s /\ op'.id = v.e.id
    BY <1>1
  <1>3. DirTyped /\ Distinct /\ Packed
    BY DEF Whole, DirBasics
  <1>4. PICK d : Deletes(todo', d, v)
    BY <1>1, <1>3, UnlinkIs
  <1>5. PICK a, l : a = v.at /\ l = v.lfn
    OBVIOUS
  <1>6. /\ l \in Nat /\ a \in Nat /\ l < a /\ d \in {0, 1} /\ DOMAIN todo' = 1 .. d + l + 1
        /\ \A k \in DOMAIN todo' : todo'[k].t = "put" <=> k > d
        /\ \A k \in DOMAIN todo' : todo'[k].t = "put" => /\ todo'[k].i = a - l + (k - d) - 1 /\ todo'[k].i \in a - l .. a
                                                         /\ todo'[k].e = Del
        /\ \A i \in a - l .. a : \E k \in DOMAIN todo' : todo'[k].t = "put" /\ todo'[k].i = i
        /\ \A k \in DOMAIN todo' : todo'[k].t # "put" => todo'[k] = Fat(v.e.cluster, FALSE) /\ v.e.cluster # 0
    <2>1. Deleted(todo', d, v.at, v.lfn, v.e.cluster)
      BY <1>1, <1>4, DeletesIs
    <2>2. Deleted(todo', d, a, l, v.e.cluster)
      BY <1>5, <2>1
    <2> QED
      BY <2>2 DEF Deleted
  <1>7. v.e = slots[a] /\ v.e.k = "short" /\ a \in DOMAIN slots /\ Right(Now, files, s)
    BY <1>1, <1>2, <1>5 DEF SeenAt, Shorts, Whole
  <1>8. PICK f \in files, n \in Nat : f.sn = s /\ Home(Now, f, a, n) /\ a \in Places
    BY <1>3, <1>7, SeenHome
  <1>9. f \in Files /\ slots \in Seq(DirEntries)
    BY <1>3, <1>8 DEF DirTyped
  <1>10. f.id = v.e.id /\ f.cluster = v.e.cluster /\ \A i \in Places : NameOf(Now[i]) = <<s>> <=> i \in a - n .. a
    <2>1. Now[a] = v.e
      BY <1>7, <1>9, NowIs
    <2>2. /\ Now[a].id = f.id /\ Now[a].cluster = f.cluster
          /\ \A i \in Places : NameOf(Now[i]) = <<f.sn>> <=> i \in a - n .. a
      BY <1>8, <1>9, HomeIs
    <2> QED
      BY <1>8, <2>1, <2>2
  <1>11. n <= l
    <2>1. EndsLast
      BY <1>3, PackedEnds
    <2>2. PICK k \in DOMAIN fat32_iter_dir : v = fat32_iter_dir[k]
      BY <1>1
    <2>3. a = fat32_iter_dir[k].at /\ l = fat32_iter_dir[k].lfn
      BY <1>5, <2>2
    <2>4. n <= fat32_iter_dir[k].lfn
      <3>1. PICK b \in Nat : b = a
        BY <1>6
      <3>2. b = fat32_iter_dir[k].at /\ Home(Now, f, b, n) /\ f \in Files /\ slots \in Seq(DirEntries)
        BY <1>8, <1>9, <2>3, <3>1
      <3> QED
        BY <2>1, <3>2, SeenName
    <2> QED
      BY <2>3, <2>4
  <1>12. Now' = Now
    BY <1>1 DEF Now
  <1>13. \A k, j \in DOMAIN todo' : todo'[k].t = "put" /\ todo'[j].t = "put" /\ todo'[k].i = todo'[j].i => k = j
    <2> SUFFICES ASSUME NEW k \in DOMAIN todo', NEW j \in DOMAIN todo', todo'[k].t = "put", todo'[j].t = "put",
                        todo'[k].i = todo'[j].i
                 PROVE  k = j
      OBVIOUS
    <2>1. a - l + (k - d) - 1 = a - l + (j - d) - 1
      <3>1. todo'[k].i = a - l + (k - d) - 1
        BY <1>6
      <3>2. todo'[j].i = a - l + (j - d) - 1
        BY <1>6
      <3> QED
        BY <3>1, <3>2
    <2> QED
      BY <1>6, <2>1
  <1>14. PICK A : A = After(todo', Now)
    OBVIOUS
  <1>15. /\ \A i \in a - l .. a : i \in Places => A[i] = Del
         /\ \A i \in Places : i \notin a - l .. a => A[i] = Now[i]
    <2>1. PICK W, N : W = todo' /\ N = Now
      OBVIOUS
    <2>2. A = After(W, N)
      BY <1>14, <2>1
    <2>3. \A k, j \in DOMAIN W : W[k].t = "put" /\ W[j].t = "put" /\ W[k].i = W[j].i => k = j
      BY <1>13, <2>1
    <2>4. /\ \A k \in DOMAIN W : W[k].t = "put" /\ W[k].i \in Places => A[W[k].i] = W[k].e
          /\ \A i \in Places : (\A k \in DOMAIN W : ~(W[k].t = "put" /\ W[k].i = i)) => A[i] = N[i]
      BY <2>2, <2>3, AfterIs
    <2>5. \A i \in a - l .. a : \E k \in DOMAIN W : W[k].t = "put" /\ W[k].i = i /\ W[k].e = Del
      BY <1>6, <2>1
    <2>6. \A k \in DOMAIN W : W[k].t = "put" => W[k].i \in a - l .. a
      BY <1>6, <2>1
    <2> QED
      BY <2>1, <2>4, <2>5, <2>6
  <1>16. Returned' = {g \in files : g.id # v.e.id}
    BY <1>1 DEF Returned
  <1>17. \A g \in Returned' : g.sn # s
    <2>1. \A g \in files : g.sn = s => g = f
      BY <1>7, <1>8 DEF Right
    <2> QED
      BY <1>10, <1>16, <2>1
  <1>18. Right(A, Returned', s)
    <2>1. ASSUME NEW i \in Places, NameOf(A[i]) = <<s>> PROVE FALSE
      <3>1. CASE i \in a - l .. a
        <4>1. A[i] = Del
          BY <1>15, <3>1
        <4>2. NameOf(Del) = <<>>
          BY DEF NameOf, Del
        <4>3. <<s>> # <<>>
          OBVIOUS
        <4> QED
          BY <2>1, <4>1, <4>2, <4>3
      <3>2. CASE i \notin a - l .. a
        <4>1. NameOf(Now[i]) = <<s>>
          BY <1>15, <2>1, <3>2
        <4>2. i \in a - n .. a
          BY <1>10, <4>1
        <4> QED
          BY <1>6, <1>11, <3>2, <4>2
      <3> QED
        BY <3>1, <3>2
    <2> QED
      BY <1>17, <2>1 DEF Right
  <1>19. OwnCall'
    <2>1. \A g \in files : g.id = f.id => g = f
      BY <1>3, <1>8 DEF Distinct
    <2> QED
      BY <1>1, <1>2, <1>8, <1>10, <2>1 DEF OwnCall
  <1>20. OwnEntries'
    <2>1. ASSUME NEW k \in DOMAIN todo', PutAt(k)'
          PROVE  /\ NameOf(todo'[k].e) = <<>>
                 /\ NameOf(Now[todo'[k].i]) \in {<<>>, <<s>>} \cup {<<h>> : h \in hurt}
      <3>1. todo'[k].e = Del /\ todo'[k].i \in v.at - v.lfn .. v.at
        BY <1>5, <1>6, <2>1 DEF PutAt
      <3>2. NameOf(Now[todo'[k].i]) \in {<<>>, <<v.e.sn>>} \cup {<<h>> : h \in hurt}
        BY <1>1, <3>1, BeforeIs
      <3> QED
        BY <3>1, <3>2 DEF NameOf, Del
    <2> QED
      BY <1>1, <1>2, <1>12, <1>13, <2>1 DEF OwnEntries, PutAt
  <1>21. OwnClusters'
    <2>1. \A g \in files : g.sn \notin hurt /\ g.cluster = v.e.cluster /\ v.e.cluster # 0 => g.sn = s
      BY <1>2, <1>8, <1>10 DEF Whole
    <2>2. \A k \in DOMAIN todo' : todo'[k].t \in {"fat", "zero", "dot"} => todo'[k].c = v.e.cluster /\ v.e.cluster # 0
      <3> SUFFICES ASSUME NEW k \in DOMAIN todo', todo'[k].t \in {"fat", "zero", "dot"}
                   PROVE  todo'[k].c = v.e.cluster /\ v.e.cluster # 0
        OBVIOUS
      <3>1. todo'[k] = Fat(v.e.cluster, FALSE) /\ v.e.cluster # 0
        BY <1>6
      <3> QED
        BY <3>1 DEF Fat
    <2> QED
      BY <1>1, <1>2, <2>1, <2>2 DEF OwnClusters
  <1>22. EndClusters'
    BY <1>2, <1>17 DEF EndClusters
  <1>23. Final' = A
    BY <1>12, <1>14 DEF Final
  <1> QED
    BY <1>2, <1>18, <1>19, <1>20, <1>21, <1>22, <1>23 DEF OwnWrites, EndRight

LEMMA FreshIs ==
  ASSUME Whole, NEW s \in SNames, s \notin hurt, \A j \in DOMAIN slots : slots[j].k = "short" => slots[j].sn # s
  PROVE  /\ \A f \in files : f.sn # s
         /\ \A i \in Places : NameOf(Now[i]) # <<s>>
  <1>1. Right(Now, files, s)
    BY DEF Whole
  <1>2. slots \in Seq(DirEntries) /\ files \subseteq Files
    BY DEF Whole, DirBasics, DirTyped
  <1>3. ASSUME NEW f \in files, f.sn = s PROVE FALSE
    <2>1. PICK a \in Places, n \in Nat : Home(Now, f, a, n)
      BY <1>1, <1>3 DEF Right
    <2>2. f \in Files
      BY <1>2
    <2>3. Now[a].k = "short" /\ Now[a].sn = s
      BY <1>3, <2>1, <2>2, HomeIs
    <2>4. CASE a \in DOMAIN slots
      BY <1>2, <2>3, <2>4, NowIs
    <2>5. CASE a \notin DOMAIN slots
      BY <1>2, <2>3, <2>5, NowIs DEF End
    <2> QED
      BY <2>4, <2>5
  <1>4. \A i \in Places : NameOf(Now[i]) # <<s>>
    BY <1>1, <1>3 DEF Right
  <1> QED
    BY <1>3, <1>4

LEMMA UnusedIs ==
  ASSUME Whole, NEW c \in Clusters, ~fat[c]
  PROVE  \A f \in files : f.sn \notin hurt => f.cluster # c
  <1>1. c # 0
    BY DEF Clusters
  <1> QED
    BY <1>1 DEF Whole

\* g writes to free clusters, then the n + 1 entries from at.
Created(W, g, n, at, name, sn, id, dir, c) ==
  /\ g \in Nat /\ n \in Nat /\ at \in Nat \ {0} /\ DOMAIN W = 1 .. g + n + 1
  /\ \A k \in DOMAIN W : W[k].t = "put" <=> k > g
  /\ \A k \in DOMAIN W : k > g => W[k].i = at + (k - g) - 1
  /\ \A k \in DOMAIN W : k > g /\ k # g + n + 1 => W[k].e = fat32_fill_lfn_entry(name, n - (k - g) + 1, k - g = 1, sn)
  /\ W[g + n + 1].e = Short(sn, id, dir, c)
  /\ \A k \in DOMAIN W : W[k].t \in {"fat", "zero", "dot"} => W[k].c \in Clusters /\ ~fat[W[k].c]
  /\ \A k \in DOMAIN W : W[k].t = "fat" => W[k].v
  /\ dir => /\ g \in DOMAIN W /\ W[g] = Dot(c, 2) /\ c \in Clusters /\ ~fat[c]
            /\ \E k \in DOMAIN W : W[k] = Fat(c, TRUE)

LEMMA CreatedIs ==
  ASSUME DirTyped, NEW name, NEW dir \in BOOLEAN, NEW made, NEW n \in Nat, NEW at \in Nat \ {0},
         NEW m \in Nat, NEW c, NEW d \in {0, 4}, CreatesFile(name, dir, made, n, at, m, c, d), NEW sn, sn = made.sn, NEW id, id = count.file + 1,
         NEW g, g = 3 * m + d
  PROVE  Created(todo', g, n, at, name, sn, id, dir, c)
  <1>1. /\ n \in Nat /\ at \in Nat \ {0} /\ m \in Nat /\ m <= Len(FreeSeq) /\ d \in {0, 4}
        /\ Creates(todo', m, d, n, at, name, sn, id, dir, c)
        /\ c = (IF dir THEN FreeSeq[m + 1] ELSE 0) /\ (dir => m + 1 <= Len(FreeSeq))
    BY DEF CreatesFile
  <1>2. PICK W : W = todo'
    OBVIOUS
  <1>3. Creates(W, m, d, n, at, name, sn, id, dir, c)
    BY <1>1, <1>2
  <1>4. /\ g \in Nat /\ 3 * m \in Nat /\ Len(W) = g + n + 1 /\ DOMAIN W = 1 .. g + n + 1 /\ (d = 4 <=> dir)
        /\ \A k \in 1 .. g : /\ W[k].t \in {"fat", "zero", "dot", "link"}
                             /\ W[k].t = "link" <=> k <= 3 * m /\ k % 3 = 0
                             /\ k <= 3 * m => W[k] = Grow(m)[k]
                             /\ k > 3 * m => dir /\ W[k].c = c /\ W[k].t # "link"
                             /\ W[k].t = "fat" => W[k].v
        /\ \A k \in g + 1 .. g + n : W[k] = Put(at + (k - g) - 1, fat32_fill_lfn_entry(name, n - (k - g) + 1, k - g = 1, sn))
        /\ W[g + n + 1] = Put(at + n, Short(sn, id, dir, c))
    <2>1. m <= Len(FreeSeq)
      BY <1>1
    <2>2. Laid(W, g, m, d, n, at, name, sn, id, dir, c)
      BY <1>3, <2>1, CreatesIs
    <2> QED
      BY <2>2 DEF Laid
  <1>5. /\ FreeSeq \in Seq(Clusters) /\ Len(FreeSeq) \in Nat /\ DOMAIN FreeSeq = 1 .. Len(FreeSeq)
        /\ \A k \in DOMAIN FreeSeq : FreeSeq[k] \in Clusters /\ ~fat[FreeSeq[k]]
    BY FreeSeqIs DEF DirTyped
  <1>6. dir => c \in Clusters /\ ~fat[c]
    BY <1>1, <1>5
  <1>7. ASSUME NEW k \in DOMAIN W, k > g, k # g + n + 1
        PROVE  /\ W[k].t = "put" /\ W[k].i = at + (k - g) - 1
               /\ W[k].e = fat32_fill_lfn_entry(name, n - (k - g) + 1, k - g = 1, sn)
    <2>1. k \in g + 1 .. g + n
      BY <1>1, <1>4, <1>7
    <2>2. W[k] = Put(at + (k - g) - 1, fat32_fill_lfn_entry(name, n - (k - g) + 1, k - g = 1, sn))
      BY <1>4, <2>1
    <2> QED
      BY <2>2 DEF Put
  <1>8. W[g + n + 1].t = "put" /\ W[g + n + 1].i = at + ((g + n + 1) - g) - 1 /\ W[g + n + 1].e = Short(sn, id, dir, c)
    <2>1. at + ((g + n + 1) - g) - 1 = at + n
      BY <1>1, <1>4
    <2> QED
      BY <1>4, <2>1 DEF Put
  <1>9. ASSUME NEW k \in DOMAIN W, ~(k > g)
        PROVE  /\ W[k].t # "put" /\ (W[k].t = "fat" => W[k].v)
               /\ W[k].t \in {"fat", "zero", "dot"} => W[k].c \in Clusters /\ ~fat[W[k].c]
    <2>1. k \in 1 .. g
      BY <1>4, <1>9
    <2>2. W[k].t \in {"fat", "zero", "dot", "link"} /\ (W[k].t = "fat" => W[k].v)
      BY <1>4, <2>1
    <2>3. ASSUME W[k].t \in {"fat", "zero", "dot"} PROVE W[k].c \in Clusters /\ ~fat[W[k].c]
      <3>1. CASE k <= 3 * m
        <4>1. PICK G : G = Grow(m)
          OBVIOUS
        <4>2. W[k] = G[k] /\ k \in 1 .. 3 * m
          BY <1>4, <2>1, <3>1, <4>1
        <4>3. k > 0 /\ k <= 3 * m /\ (G[k].t \in {"fat", "zero"})
          <5>1. G[k].t \in {"fat", "zero", "link"} /\ fat \in [Clusters -> BOOLEAN]
            BY <1>1, <4>1, <4>2, GrowIs DEF DirTyped
          <5>2. G[k].t # "link"
            BY <2>3, <4>2
          <5> QED
            BY <4>2, <5>1, <5>2
        <4>4. m \in Nat /\ m <= Len(FreeSeq) /\ fat \in [Clusters -> BOOLEAN]
          BY <1>1 DEF DirTyped
        <4> QED
          BY <4>1, <4>2, <4>3, <4>4, GrowClusters
      <3>2. CASE k > 3 * m
        BY <1>4, <1>6, <2>1, <3>2
      <3> QED
        BY <1>4, <2>1, <3>1, <3>2
    <2> QED
      BY <2>2, <2>3
  <1>10. \A k \in DOMAIN W : (W[k].t = "put" <=> k > g) /\ (k > g => W[k].i = at + (k - g) - 1)
    <2> SUFFICES ASSUME NEW k \in DOMAIN W PROVE (W[k].t = "put" <=> k > g) /\ (k > g => W[k].i = at + (k - g) - 1)
      OBVIOUS
    <2>1. CASE ~(k > g)
      BY <1>9, <2>1
    <2>2. CASE k > g /\ k # g + n + 1
      BY <1>7, <2>2
    <2>3. CASE k = g + n + 1
      <3>1. k > g
        BY <1>1, <1>4, <2>3
      <3> QED
        BY <1>8, <2>3, <3>1
    <2> QED
      BY <2>1, <2>2, <2>3
  <1>11. ASSUME dir PROVE /\ g \in DOMAIN W /\ W[g] = Dot(c, 2) /\ c \in Clusters /\ ~fat[c]
                          /\ \E k \in DOMAIN W : W[k] = Fat(c, TRUE)
    <2>1. W[3 * m + 1] = Fat(c, TRUE) /\ W[3 * m + 4] = Dot(c, 2) /\ d = 4
      BY <1>3, <1>11 DEF Creates
    <2>2. 3 * m + 1 \in DOMAIN W /\ g \in DOMAIN W /\ g = 3 * m + 4
      BY <1>1, <1>4, <2>1
    <2> QED
      BY <1>6, <1>11, <2>1, <2>2
  <1>12. \A k \in DOMAIN W : /\ W[k].t = "fat" => W[k].v
                             /\ W[k].t \in {"fat", "zero", "dot"} => W[k].c \in Clusters /\ ~fat[W[k].c]
    BY <1>9, <1>10
  <1>13. Created(W, g, n, at, name, sn, id, dir, c)
    BY <1>1, <1>4, <1>7, <1>8, <1>10, <1>11, <1>12 DEF Created
  <1> QED
    BY <1>2, <1>13

\* Where the entries of a new file go.
Index(g, n, at, i, k) ==
  g \in Nat /\ n \in Nat /\ at \in Nat /\ i \in Nat /\ k \in Nat /\ at # 0 /\ at <= i /\ i <= at + n /\ k = g + (i - at) + 1
Indexed(g, n, at, i, k) ==
  /\ k \in 1 .. g + n + 1 /\ k > g /\ at + (k - g) - 1 = i /\ (k = g + n + 1 <=> i = at + n)
  /\ n - (k - g) + 1 = (at + n) - i /\ (k - g = 1 <=> i = (at + n) - n) /\ i \in Nat \ {0}

LEMMA IndexIs ==
  ASSUME NEW g \in Nat, NEW n \in Nat, NEW at \in Nat, NEW i \in Nat, NEW k \in Nat, at # 0, at <= i, i <= at + n,
         k = g + (i - at) + 1
  PROVE  /\ k \in 1 .. g + n + 1 /\ k > g /\ at + (k - g) - 1 = i /\ (k = g + n + 1 <=> i = at + n)
         /\ n - (k - g) + 1 = (at + n) - i /\ (k - g = 1 <=> i = (at + n) - n) /\ i \in Nat \ {0}
  OBVIOUS

LEMMA IndexAt ==
  ASSUME NEW g, NEW n, NEW at, NEW i, NEW k, Index(g, n, at, i, k)
  PROVE  Indexed(g, n, at, i, k)
  BY IndexIs DEF Index, Indexed

\* f is placed at the n + 1 entries from at, and nothing else is changed.
Placement(A, N, f, at, n) ==
  /\ \A i \in at .. at + n : i \in Places /\ A[i] = Want(f, at + n, n, i)
  /\ \A i \in Places : i \notin at .. at + n => A[i] = N[i]
NewFile(f, n, name, sn, id, dir, c) ==
  f.sn = sn /\ f.id = id /\ f.dir = dir /\ f.cluster = c /\ (n # 0 => f.name = name)
PutsOnce(W) == \A k, l \in DOMAIN W : W[k].t = "put" /\ W[l].t = "put" /\ W[k].i = W[l].i => k = l

LEMMA CreatedAfter ==
  ASSUME NEW W, NEW g, NEW n, NEW at, NEW name, NEW sn, NEW id, NEW dir, NEW c,
         Created(W, g, n, at, name, sn, id, dir, c), NEW f, NewFile(f, n, name, sn, id, dir, c), NEW N, NEW A, A = After(W, N)
  PROVE  Placement(A, N, f, at, n) /\ PutsOnce(W)
  <1>1. /\ g \in Nat /\ n \in Nat /\ at \in Nat \ {0} /\ DOMAIN W = 1 .. g + n + 1
        /\ \A k \in DOMAIN W : W[k].t = "put" <=> k > g
        /\ \A k \in DOMAIN W : k > g => W[k].i = at + (k - g) - 1
        /\ \A k \in DOMAIN W : k > g /\ k # g + n + 1 =>
             W[k].e = fat32_fill_lfn_entry(name, n - (k - g) + 1, k - g = 1, sn)
        /\ W[g + n + 1].e = Short(sn, id, dir, c)
    BY DEF Created
  <1>2. PutsOnce(W)
    <2> SUFFICES ASSUME NEW k \in DOMAIN W, NEW l \in DOMAIN W, W[k].t = "put", W[l].t = "put", W[k].i = W[l].i
                 PROVE  k = l
      BY DEF PutsOnce
    <2>1. at + (k - g) - 1 = at + (l - g) - 1
      <3>1. W[k].i = at + (k - g) - 1
        BY <1>1
      <3>2. W[l].i = at + (l - g) - 1
        BY <1>1
      <3> QED
        BY <3>1, <3>2
    <2> QED
      BY <1>1, <2>1
  <1>3. /\ \A k \in DOMAIN W : W[k].t = "put" /\ W[k].i \in Places => A[W[k].i] = W[k].e
        /\ \A i \in Places : (\A k \in DOMAIN W : ~(W[k].t = "put" /\ W[k].i = i)) => A[i] = N[i]
    BY <1>2, AfterIs DEF PutsOnce
  <1>4. ASSUME NEW i \in at .. at + n PROVE i \in Places /\ A[i] = Want(f, at + n, n, i)
    <2>1. PICK k \in Nat : k = g + (i - at) + 1
      BY <1>1
    <2>2. Index(g, n, at, i, k)
      BY <1>1, <2>1 DEF Index
    <2>3. Indexed(g, n, at, i, k)
      BY <2>2, IndexAt
    <2>4. k \in DOMAIN W /\ k > g /\ i \in Places /\ at + (k - g) - 1 = i
      BY <1>1, <2>3 DEF Indexed, Places
    <2>5. A[i] = W[k].e
      BY <1>1, <1>3, <2>4
    <2>6. CASE i = at + n
      <3>1. k = g + n + 1
        BY <2>3, <2>6 DEF Indexed
      <3> QED
        BY <1>1, <2>4, <2>5, <2>6, <3>1 DEF Want, NewFile
    <2>7. CASE i # at + n
      <3>1. k # g + n + 1
        BY <2>3, <2>7 DEF Indexed
      <3>2. A[i] = fat32_fill_lfn_entry(name, n - (k - g) + 1, k - g = 1, sn)
        BY <1>1, <2>4, <2>5, <3>1
      <3>3. n - (k - g) + 1 = (at + n) - i /\ (k - g = 1 <=> i = (at + n) - n)
        BY <2>3 DEF Indexed
      <3>4. A[i] = fat32_fill_lfn_entry(name, (at + n) - i, i = (at + n) - n, sn)
        <4>1. CASE k - g = 1
          BY <3>2, <3>3, <4>1
        <4>2. CASE k - g # 1
          BY <3>2, <3>3, <4>2
        <4> QED
          BY <4>1, <4>2
      <3>5. n # 0
        BY <1>1, <2>7
      <3> QED
        BY <2>4, <2>7, <3>4, <3>5 DEF Want, NewFile
    <2> QED
      BY <2>6, <2>7
  <1>5. ASSUME NEW i \in Places, i \notin at .. at + n PROVE A[i] = N[i]
    <2>1. ASSUME NEW k \in DOMAIN W, W[k].t = "put" PROVE W[k].i \in at .. at + n
      <3>1. k > g /\ W[k].i = at + (k - g) - 1
        BY <1>1, <2>1
      <3>2. at + (k - g) - 1 \in at .. at + n
        BY <1>1, <3>1
      <3> QED
        BY <3>1, <3>2
    <2> QED
      BY <1>3, <1>5, <2>1
  <1> QED
    BY <1>2, <1>4, <1>5 DEF Placement

\* A file so placed is where it belongs, when nothing had its short name.
LEMMA PlacedHome ==
  ASSUME NEW A, NEW N, NEW f, NEW at \in Nat \ {0}, NEW n \in Nat, Placement(A, N, f, at, n),
         \A i \in Places : NameOf(N[i]) # <<f.sn>>,
         \/ n = 0 /\ f.name = ShortToName(f.sn)
         \/ n = CeilDiv(Len(f.name), LfnChars) /\ LongName(f.name)
  PROVE  Home(A, f, at + n, n)
  <1>1. PICK a \in Nat : a = at + n
    OBVIOUS
  <1>2. n < a /\ a - n = at
    BY <1>1
  <1>3. ASSUME NEW i \in a - n .. a PROVE i \in Places /\ A[i] = Want(f, a, n, i)
    <2>1. i \in at .. at + n
      BY <1>1, <1>2
    <2> QED
      BY <1>1, <2>1 DEF Placement
  <1>4. \A i : NameOf(Want(f, a, n, i)) = <<f.sn>>
    BY DEF NameOf, Want, Short, fat32_fill_lfn_entry
  <1>5. ASSUME NEW i \in Places, i \notin a - n .. a PROVE NameOf(A[i]) # <<f.sn>>
    <2>1. i \notin at .. at + n
      BY <1>1, <1>2, <1>5
    <2> QED
      BY <2>1 DEF Placement
  <1>6. Home(A, f, a, n)
    BY <1>2, <1>3, <1>4, <1>5 DEF Home
  <1> QED
    BY <1>1, <1>6

\* What is known of a file that a create makes.
Makes(f, sn, id, dir, n) ==
  /\ f = op'.file /\ f.sn = sn /\ f.id = id /\ f.dir = dir /\ sn \in SNames /\ op'.sn = sn /\ op'.kind = "create"
  /\ \/ n = 0 /\ f.name = ShortToName(f.sn)
     \/ n = CeilDiv(Len(f.name), LfnChars) /\ LongName(f.name)

LEMMA MakesIs ==
  ASSUME DirTyped, NEW name \in FileNames, NEW dir \in BOOLEAN, NEW made, NEW n, NEW at, NEW m, NEW c, NEW d,
         CreatesFile(name, dir, made, n, at, m, c, d)
  PROVE  /\ Makes(op'.file, made.sn, count.file + 1, dir, n)
         /\ NewFile(op'.file, n, name, made.sn, count.file + 1, dir, c)
  <1>1. /\ op'.kind = "create" /\ op'.sn = made.sn
        /\ op'.file.sn = made.sn /\ op'.file.id = count.file + 1 /\ op'.file.dir = dir /\ op'.file.cluster = c
        /\ made.lfn => op'.file.name = name
        /\ ~made.lfn => op'.file.name = ShortToName(made.sn)
    BY MadeFile
  <1>2. /\ made.sn \in SNames /\ made.lfn \in BOOLEAN /\ name # <<>> /\ Len(name) <= MaxName
        /\ n = IF made.lfn THEN CeilDiv(Len(name), LfnChars) ELSE 0
    BY DEF CreatesFile
  <1>3. LongName(name)
    <2>1. name \in Seq(STRING) /\ NUL \notin Range(name)
      BY DirAssumption
    <2>2. Len(name) # 0 /\ Len(name) \in Nat
      BY <1>2, <2>1
    <2>3. \A k \in 1 .. Len(name) : name[k] # NUL
      BY <2>1 DEF Range
    <2>4. MaxName \in Nat
      BY DirNumbers
    <2> QED
      BY <1>2, <2>2, <2>3, <2>4 DEF LongName
  <1>4. CASE made.lfn
    BY <1>1, <1>2, <1>3, <1>4 DEF Makes, NewFile
  <1>5. CASE ~made.lfn
    BY <1>1, <1>2, <1>5 DEF Makes, NewFile
  <1> QED
    BY <1>2, <1>4, <1>5

LEMMA WantEntry ==
  ASSUME NEW f, NEW a, NEW n, NEW i
  PROVE  NameOf(Want(f, a, n, i)) = <<f.sn>>
  BY DEF NameOf, Want, Short, fat32_fill_lfn_entry

LEMMA FreeEntry ==
  ASSUME slots \in Seq(DirEntries), NEW i \in Places, Free(i)
  PROVE  NameOf(Now[i]) = <<>>
  <1>1. CASE i \in DOMAIN slots
    <2>1. Now[i] = slots[i] /\ slots[i].k \in {"end", "del"}
      BY <1>1, NowIs DEF Free
    <2> QED
      BY <2>1 DEF NameOf
  <1>2. CASE i \notin DOMAIN slots
    <2>1. Now[i] = End
      BY <1>2, NowIs
    <2> QED
      BY <2>1 DEF NameOf, End
  <1> QED
    BY <1>1, <1>2

\* A create begins with everything right about the short name it has made up.
LEMMA CreatingKeeps ==
  ASSUME Whole, NEW name \in FileNames, NEW dir \in BOOLEAN, NEW made, NEW n, NEW at, NEW m, NEW c, NEW d,
         CreatesFile(name, dir, made, n, at, m, c, d), UNCHANGED <<slots, fat, dots, files, hurt>>, op'.sn \notin hurt
  PROVE  OwnWrites' /\ EndRight'
  <1>1. DirTyped /\ Distinct /\ slots \in Seq(DirEntries)
    BY DEF Whole, DirBasics, DirTyped
  <1>2. /\ n \in Nat /\ at \in Nat \ {0} /\ m \in Nat /\ d \in {0, 4} /\ c = (IF dir THEN FreeSeq[m + 1] ELSE 0)
        /\ \A i \in at .. at + n : Free(i)
        /\ \A j \in DOMAIN slots : slots[j].k = "short" => slots[j].sn # made.sn
    BY DEF CreatesFile
  <1>3. PICK g \in Nat : g = 3 * m + d
    BY <1>2
  <1>s. PICK sn, id : sn = made.sn /\ id = count.file + 1
    OBVIOUS
  <1>4. PICK f : f = op'.file
    OBVIOUS
  <1>5. Makes(f, sn, id, dir, n) /\ NewFile(f, n, name, sn, id, dir, c)
    BY <1>1, <1>s, <1>4, MakesIs
  <1>6. sn \in SNames /\ op'.sn = sn /\ op'.kind = "create" /\ f.sn = sn /\ f.cluster = c /\ f.dir = dir /\ op'.file = f
    BY <1>5 DEF Makes, NewFile
  <1>7. PICK W : W = todo'
    OBVIOUS
  <1>8. Created(W, g, n, at, name, sn, id, dir, c)
    BY <1>1, <1>2, <1>3, <1>s, <1>7, CreatedIs
  <1>9. (\A h \in files : h.sn # sn) /\ \A i \in Places : NameOf(Now[i]) # <<sn>>
    BY <1>2, <1>s, <1>6, FreshIs
  <1>10. PICK N, A : N = Now /\ A = After(W, N)
    OBVIOUS
  <1>11. Placement(A, N, f, at, n) /\ PutsOnce(W)
    BY <1>5, <1>8, <1>10, CreatedAfter
  <1>12. Final' = A
    <2>1. Now' = Now
      BY DEF Now
    <2> QED
      BY <1>7, <1>10, <2>1 DEF Final
  <1>13. Home(A, f, at + n, n) /\ at + n \in Places
    <2>1. at + n \in Places
      BY <1>2 DEF Places
    <2>2. \A i \in Places : NameOf(N[i]) # <<f.sn>>
      BY <1>6, <1>9, <1>10
    <2>3. \/ n = 0 /\ f.name = ShortToName(f.sn)
          \/ n = CeilDiv(Len(f.name), LfnChars) /\ LongName(f.name)
      BY <1>5 DEF Makes
    <2> QED
      BY <1>2, <1>11, <2>1, <2>2, <2>3, PlacedHome
  <1>14. Returned' = files \cup {f}
    BY <1>6 DEF Returned
  <1>15. Right(A, files \cup {f}, sn)
    <2>1. \A h \in files \cup {f} : h.sn = sn => h = f
      BY <1>9
    <2>2. PICK a \in Places : Home(A, f, a, n)
      BY <1>13
    <2> QED
      BY <1>2, <1>6, <2>1, <2>2 DEF Right
  <1>16. OwnCall'
    BY <1>6 DEF OwnCall
  <1>17. OwnEntries'
    <2>1. ASSUME NEW k \in DOMAIN W, W[k].t = "put"
          PROVE  NameOf(W[k].e) = <<sn>> /\ NameOf(Now[W[k].i]) = <<>>
      <3>1. W[k].i \in at .. at + n
        <4>1. k > g /\ k \in 1 .. g + n + 1 /\ W[k].i = at + (k - g) - 1
          BY <1>8, <2>1 DEF Created
        <4>2. at + (k - g) - 1 \in at .. at + n
          BY <1>2, <4>1
        <4> QED
          BY <4>1, <4>2
      <3>2. W[k].i \in Places /\ A[W[k].i] = Want(f, at + n, n, W[k].i)
        BY <1>11, <3>1 DEF Placement
      <3>3. A[W[k].i] = W[k].e
        BY <1>10, <1>11, <2>1, <3>2, AfterIs DEF PutsOnce
      <3>4. NameOf(W[k].e) = <<sn>>
        BY <1>6, <3>2, <3>3, WantEntry
      <3>5. NameOf(Now[W[k].i]) = <<>>
        BY <1>1, <1>2, <3>1, <3>2, FreeEntry
      <3> QED
        BY <3>4, <3>5
    <2>2. Now' = Now
      BY DEF Now
    <2>3. \A k, l \in DOMAIN W : W[k].t = "put" /\ W[l].t = "put" /\ W[k].i = W[l].i => k = l
      BY <1>11 DEF PutsOnce
    <2> QED
      BY <1>6, <1>7, <2>1, <2>2, <2>3 DEF OwnEntries, PutAt
  <1>18. OwnClusters'
    <2>1. ASSUME NEW k \in DOMAIN W, W[k].t \in {"fat", "zero", "dot"}, NEW h \in files, h.sn \notin hurt
          PROVE  h.cluster # W[k].c
      <3>1. PICK e \in Clusters : e = W[k].c /\ ~fat[e]
        BY <1>8, <2>1 DEF Created
      <3> QED
        BY <2>1, <3>1, UnusedIs
    <2> QED
      BY <1>7, <2>1 DEF OwnClusters
  <1>19. ASSUME c # 0
         PROVE  /\ FatEnd(c)' /\ DotEnd(c)'
                /\ \A h \in files : h.sn \notin hurt => h.cluster # c
    <2>1. dir
      BY <1>2, <1>19
    <2>2. /\ g \in DOMAIN W /\ W[g] = Dot(c, 2) /\ c \in Clusters /\ ~fat[c] /\ \E k \in DOMAIN W : W[k] = Fat(c, TRUE)
          /\ \A k \in DOMAIN W : W[k].t = "fat" => W[k].v
          /\ \A k \in DOMAIN W : W[k].t = "put" <=> k > g
      BY <1>8, <2>1 DEF Created
    <2>3. \A k \in DOMAIN W : W[k] # Fat(c, FALSE)
      BY <2>2 DEF Fat
    <2>4. FatEnd(c)'
      BY <1>7, <2>2, <2>3 DEF FatEnd
    <2>5. \A k \in DOMAIN W : k > g => W[k].t \notin {"zero", "dot"}
      BY <2>2
    <2>6. DotEnd(c)'
      BY <1>7, <2>2, <2>5 DEF DotEnd, DotsLeft
    <2>7. \A h \in files : h.sn \notin hurt => h.cluster # c
      BY <2>2, UnusedIs
    <2> QED
      BY <2>4, <2>6, <2>7
  <1>20. EndClusters'
    <2>1. \A h \in files \cup {f} : h.sn = sn => h = f
      BY <1>9
    <2>2. ASSUME NEW h \in Returned', h.sn = op'.sn, h.cluster # 0
          PROVE  /\ FatEnd(h.cluster)' /\ DotEnd(h.cluster)'
                 /\ \A e \in files : e.sn \notin hurt => e.cluster # h.cluster
      <3>1. h = f /\ h.cluster = c
        BY <1>6, <1>14, <2>1, <2>2
      <3> QED
        BY <1>19, <2>2, <3>1
    <2> QED
      BY <2>2 DEF EndClusters
  <1> QED
    BY <1>6, <1>12, <1>14, <1>15, <1>16, <1>17, <1>18, <1>20 DEF OwnWrites, EndRight

\* So does one that finds no room and only adds the clusters there are.
LEMMA GrowingKeeps ==
  ASSUME Whole, NEW m, NEW sn, GrowsOnly(m, sn), UNCHANGED <<slots, fat, dots, files, hurt>>, op'.sn \notin hurt
  PROVE  OwnWrites' /\ EndRight'
  <1>1. DirTyped /\ slots \in Seq(DirEntries) /\ fat \in [Clusters -> BOOLEAN]
    BY DEF Whole, DirBasics, DirTyped
  <1>2. /\ m \in Nat /\ m <= Len(FreeSeq) /\ todo' = Grow(m) /\ sn \in SNames /\ op'.sn = sn /\ op'.kind = "grow"
        /\ \A j \in DOMAIN slots : slots[j].k = "short" => slots[j].sn # sn
    BY DEF GrowsOnly
  <1>3. PICK W : W = todo'
    OBVIOUS
  <1>4. DOMAIN W = 1 .. 3 * m /\ \A k \in 1 .. 3 * m : W[k].t \in {"fat", "zero", "link"}
    <2>1. W \in Seq(Writes) /\ Len(W) = 3 * m /\ \A k \in 1 .. 3 * m : W[k].t \in {"fat", "zero", "link"}
      BY <1>1, <1>2, <1>3, GrowIs
    <2> QED
      BY <2>1
  <1>5. (\A h \in files : h.sn # sn) /\ \A i \in Places : NameOf(Now[i]) # <<sn>>
    BY <1>2, FreshIs
  <1>6. Returned' = files
    BY <1>2 DEF Returned
  <1>7. Final' = After(W, Now)
    <2>1. Now' = Now
      BY DEF Now
    <2> QED
      BY <1>3, <2>1 DEF Final
  <1>8. \A i \in Places : After(W, Now)[i] = Now[i]
    BY <1>4 DEF After
  <1>9. Right(Final', Returned', op'.sn)
    BY <1>2, <1>5, <1>6, <1>7, <1>8 DEF Right
  <1>10. OwnCall'
    BY <1>2 DEF OwnCall
  <1>11. OwnEntries'
    BY <1>3, <1>4 DEF OwnEntries, PutAt
  <1>12. OwnClusters'
    <2>1. ASSUME NEW k \in DOMAIN W, W[k].t \in {"fat", "zero", "dot"}, NEW h \in files, h.sn \notin hurt
          PROVE  h.cluster # W[k].c
      <3>1. k \in 1 .. 3 * m /\ W[k].t \in {"fat", "zero"}
        BY <1>4, <2>1
      <3>2. W[k].c \in Clusters /\ ~fat[W[k].c]
        BY <1>1, <1>2, <1>3, <3>1, GrowClusters
      <3>3. PICK e \in Clusters : e = W[k].c /\ ~fat[e]
        BY <3>2
      <3> QED
        BY <2>1, <3>3, UnusedIs
    <2> QED
      BY <1>3, <2>1 DEF OwnClusters
  <1>13. EndClusters'
    BY <1>2, <1>5, <1>6 DEF EndClusters
  <1> QED
    BY <1>9, <1>10, <1>11, <1>12, <1>13 DEF OwnWrites, EndRight

\* Every call begins with the invariant kept.
LEMMA FoundInv ==
  ASSUME DirInv, NEW v, NEW c, Writing(v, c) \/ Truncating(v) \/ Unlinking(v)
  PROVE  DirInv'
  <1>1. DirBasics
    BY DEF DirInv
  <1>2. DirBasics'
    BY <1>1, FoundBasics
  <1>3. /\ todo = <<>> /\ UNCHANGED <<slots, fat, dots, files, hurt>> /\ ~op'.begun /\ count' = count
        /\ touched' = (touched \/ op'.sn \in hurt)
    BY DEF Writing, Truncating, Unlinking, Finds
  <1>4. Whole /\ op'.sn \notin hurt => OwnWrites' /\ EndRight'
    BY WritingKeeps, TruncatingKeeps, UnlinkingKeeps
  <1> QED
    BY <1>2, <1>3, <1>4, BeginKeeps

LEMMA CreateInv ==
  ASSUME DirInv, NEW name \in FileNames, NEW dir \in BOOLEAN, create(fat32_iter_dir, name, dir)
  PROVE  DirInv'
  <1>1. DirBasics /\ DirTyped
    BY DEF DirInv, DirBasics
  <1>2. DirBasics'
    BY <1>1, MadeBasics
  <1>3. /\ todo = <<>> /\ UNCHANGED <<slots, fat, dots, files, hurt>> /\ count' = [count EXCEPT !.file = @ + 1]
        /\ touched' = (touched \/ op'.sn \in hurt)
        /\ \/ \E m, sn : GrowsOnly(m, sn)
           \/ \E made, n, at, m, c, d : CreatesFile(name, dir, made, n, at, m, c, d)
    BY <1>1, CreateUnfolded
  <1>4. count'.crash = count.crash
    BY <1>1, <1>3 DEF DirTyped
  <1>5. CASE \E m, sn : GrowsOnly(m, sn)
    <2>1. PICK m, sn : GrowsOnly(m, sn)
      BY <1>5
    <2>2. Whole /\ op'.sn \notin hurt => OwnWrites' /\ EndRight'
      BY <1>3, <2>1, GrowingKeeps
    <2>3. ~op'.begun
      BY <2>1 DEF GrowsOnly
    <2> QED
      BY <1>2, <1>3, <1>4, <2>2, <2>3, BeginKeeps
  <1>6. CASE \E made, n, at, m, c, d : CreatesFile(name, dir, made, n, at, m, c, d)
    <2>1. PICK made, n, at, m, c, d : CreatesFile(name, dir, made, n, at, m, c, d)
      BY <1>6
    <2>2. Whole /\ op'.sn \notin hurt => OwnWrites' /\ EndRight'
      BY <1>3, <2>1, CreatingKeeps
    <2>3. ~op'.begun
      BY <2>1 DEF CreatesFile
    <2> QED
      BY <1>2, <1>3, <1>4, <2>2, <2>3, BeginKeeps
  <1> QED
    BY <1>3, <1>5, <1>6

-----------------------------------------------------------------------------
(* A write reaches the disk while no file that a crash has hurt is met. *)

\* What the write w does.
Stepped(w) ==
  /\ w = todo[1] /\ w \in Writes /\ todo \in Seq(Writes) /\ todo # <<>> /\ todo' = Tail(todo)
  /\ UNCHANGED <<hurt, touched, count>> /\ op \in Ops /\ op # NoOp /\ op.sn \in SNames /\ files \subseteq Files
  /\ \A i \in Places : Now'[i] = IF w.t = "put" /\ i = w.i THEN w.e ELSE Now[i]
  /\ \A c \in Clusters : fat'[c] = IF w.t = "fat" /\ w.c = c THEN w.v ELSE fat[c]
  /\ \A c \in Clusters : dots'[c] = IF w.t = "zero" /\ w.c = c THEN 0
                                    ELSE IF w.t = "dot" /\ w.c = c THEN w.n ELSE dots[c]
Goes == todo' # <<>> /\ op' = [op EXCEPT !.begun = TRUE] /\ files' = files
Ends == todo' = <<>> /\ op' = NoOp /\ files' = Returned

LEMMA SteppedIs ==
  ASSUME DirBasics, Step
  PROVE  Stepped(todo[1]) /\ (Goes \/ Ends)
  <1>1. DirTyped /\ Roomy
    BY DEF DirBasics
  <1>2. PICK w : w = todo[1]
    OBVIOUS
  <1>3. /\ Written(w) /\ (w.t = "put" => w.i \in DOMAIN slots)
        /\ w \in Writes /\ todo # <<>> /\ todo' = Tail(todo) /\ UNCHANGED <<hurt, touched, count>>
    BY <1>1, <1>2, WrittenIs
  <1>4. /\ slots \in Seq(DirEntries) /\ todo \in Seq(Writes) /\ op \in Ops /\ files \subseteq Files
        /\ fat \in [Clusters -> BOOLEAN] /\ dots \in [Clusters -> 0 .. 2] /\ (todo = <<>> <=> op = NoOp)
    BY <1>1 DEF DirTyped
  <1>5. op # NoOp /\ op.sn \in SNames
    BY <1>3, <1>4, OpIs
  <1>6. Head(todo) = w
    BY <1>2, <1>3, <1>4, TailIs
  <1>7. ASSUME NEW i \in Places PROVE Now'[i] = IF w.t = "put" /\ i = w.i THEN w.e ELSE Now[i]
    <2>1. Now'[i] = IF i \in DOMAIN slots' THEN slots'[i] ELSE End
      BY DEF Now
    <2>2. Now[i] = IF i \in DOMAIN slots THEN slots[i] ELSE End
      BY DEF Now
    <2>3. /\ DOMAIN slots \subseteq DOMAIN slots'
          /\ i \in DOMAIN slots' => slots'[i] = IF w.t = "put" /\ i = w.i THEN w.e
                                                ELSE IF i \in DOMAIN slots THEN slots[i] ELSE End
      BY <1>3 DEF Written
    <2>4. CASE i \in DOMAIN slots'
      BY <2>1, <2>2, <2>3, <2>4
    <2>5. CASE i \notin DOMAIN slots'
      BY <1>3, <2>1, <2>2, <2>3, <2>5
    <2> QED
      BY <2>4, <2>5
  <1>8. ASSUME NEW c \in Clusters PROVE fat'[c] = IF w.t = "fat" /\ w.c = c THEN w.v ELSE fat[c]
    <2>1. fat' = IF w.t = "fat" THEN [fat EXCEPT ![w.c] = w.v] ELSE fat
      BY <1>6 DEF Step, Apply
    <2> QED
      BY <1>4, <2>1
  <1>9. ASSUME NEW c \in Clusters
        PROVE  dots'[c] = IF w.t = "zero" /\ w.c = c THEN 0 ELSE IF w.t = "dot" /\ w.c = c THEN w.n ELSE dots[c]
    <2>1. dots' = CASE w.t = "zero" -> [dots EXCEPT ![w.c] = 0]
                    [] w.t = "dot" -> [dots EXCEPT ![w.c] = w.n]
                    [] OTHER -> dots
      BY <1>6 DEF Step, Apply
    <2>2. CASE w.t = "zero"
      BY <1>4, <2>1, <2>2
    <2>3. CASE w.t = "dot"
      BY <1>4, <2>1, <2>3
    <2>4. CASE w.t # "zero" /\ w.t # "dot"
      <3>1. dots' = dots
        BY <2>1, <2>4, Zenon
      <3> QED
        BY <2>4, <3>1
    <2> QED
      BY <2>2, <2>3, <2>4
  <1>10. Stepped(w)
    BY <1>2, <1>3, <1>4, <1>5, <1>7, <1>8, <1>9 DEF Stepped
  <1>11. Goes \/ Ends
    BY <1>3 DEF Step, Goes, Ends
  <1> QED
    BY <1>2, <1>10, <1>11

\* The writes after the first one.
TailOf(W, T) ==
  /\ 1 \in DOMAIN W /\ T = Tail(W) /\ Len(T) = Len(W) - 1 /\ Len(W) \in Nat
  /\ \A k \in DOMAIN T : k \in Nat /\ k # 0 /\ k + 1 \in DOMAIN W /\ T[k] = W[k + 1]
  /\ \A k \in DOMAIN W : k \in Nat /\ (k = 1 \/ (k - 1 \in DOMAIN T /\ T[k - 1] = W[k]))

LEMMA TailTail ==
  ASSUME NEW W \in Seq(Writes), W # <<>>
  PROVE  TailOf(W, Tail(W))
  BY TailIs DEF TailOf

LEMMA AfterTail ==
  ASSUME NEW W, NEW T, TailOf(W, T), PutsOnce(W), NEW N, NEW M,
         \A i \in Places : M[i] = IF W[1].t = "put" /\ i = W[1].i THEN W[1].e ELSE N[i]
  PROVE  PutsOnce(T) /\ \A i \in Places : After(T, M)[i] = After(W, N)[i]
  <1>1. /\ 1 \in DOMAIN W
        /\ \A k \in DOMAIN T : k \in Nat /\ k # 0 /\ k + 1 \in DOMAIN W /\ T[k] = W[k + 1]
        /\ \A k \in DOMAIN W : k \in Nat /\ (k = 1 \/ (k - 1 \in DOMAIN T /\ T[k - 1] = W[k]))
    BY DEF TailOf
  <1>2. PutsOnce(T)
    <2> SUFFICES ASSUME NEW k \in DOMAIN T, NEW l \in DOMAIN T, T[k].t = "put", T[l].t = "put", T[k].i = T[l].i
                 PROVE  k = l
      BY DEF PutsOnce
    <2>1. k + 1 = l + 1
      BY <1>1 DEF PutsOnce
    <2> QED
      BY <1>1, <2>1
  <1>3. PICK A, B : A = After(W, N) /\ B = After(T, M)
    OBVIOUS
  <1>4. /\ \A k \in DOMAIN W : W[k].t = "put" /\ W[k].i \in Places => A[W[k].i] = W[k].e
        /\ \A i \in Places : (\A k \in DOMAIN W : ~(W[k].t = "put" /\ W[k].i = i)) => A[i] = N[i]
    BY <1>3, AfterIs DEF PutsOnce
  <1>5. /\ \A k \in DOMAIN T : T[k].t = "put" /\ T[k].i \in Places => B[T[k].i] = T[k].e
        /\ \A i \in Places : (\A k \in DOMAIN T : ~(T[k].t = "put" /\ T[k].i = i)) => B[i] = M[i]
    BY <1>2, <1>3, AfterIs DEF PutsOnce
  <1>6. ASSUME NEW i \in Places PROVE B[i] = A[i]
    <2>1. CASE \E k \in DOMAIN T : T[k].t = "put" /\ T[k].i = i
      <3>1. PICK k \in DOMAIN T : T[k].t = "put" /\ T[k].i = i
        BY <2>1
      <3>2. PICK l \in DOMAIN W : l = k + 1 /\ W[l] = T[k]
        BY <1>1
      <3>3. B[i] = T[k].e
        BY <1>5, <3>1
      <3>4. A[i] = W[l].e
        BY <1>4, <3>1, <3>2
      <3> QED
        BY <3>2, <3>3, <3>4
    <2>2. CASE ~\E k \in DOMAIN T : T[k].t = "put" /\ T[k].i = i
      <3>1. B[i] = M[i]
        BY <1>5, <2>2
      <3>2. CASE W[1].t = "put" /\ i = W[1].i
        BY <1>1, <1>4, <3>1, <3>2
      <3>3. CASE ~(W[1].t = "put" /\ i = W[1].i)
        <4>1. \A k \in DOMAIN W : ~(W[k].t = "put" /\ W[k].i = i)
          BY <1>1, <2>2, <3>3
        <4> QED
          BY <1>4, <3>1, <3>3, <4>1
      <3> QED
        BY <3>2, <3>3
    <2> QED
      BY <2>1, <2>2
  <1> QED
    BY <1>2, <1>3, <1>6

\* The files of the other short names stay when the call returns.
LEMMA OthersStay ==
  ASSUME op \in Ops, op # NoOp, files \subseteq Files, OwnCall
  PROVE  \A f : f.sn # op.sn => (f \in Returned <=> f \in files)
  <1> SUFFICES ASSUME NEW f, f.sn # op.sn PROVE f \in Returned <=> f \in files
    OBVIOUS
  <1>1. CASE op.kind = "create"
    BY <1>1, ReturnedIs DEF OwnCall
  <1>2. CASE op.kind = "unlink"
    BY <1>2, ReturnedIs DEF OwnCall
  <1>3. CASE op.kind = "grow"
    BY <1>3, ReturnedIs
  <1>4. CASE op.kind \in {"write", "truncate"}
    <2>1. Returned = {IF g.id = op.id THEN [g EXCEPT !.cluster = op.cluster] ELSE g : g \in files}
      BY <1>4, ReturnedIs
    <2>2. \A g \in files : g.id = op.id => g.sn = op.sn
      BY <1>4 DEF OwnCall
    <2>3. op.cluster \in {0} \cup Clusters
      BY <1>4, OpIs
    <2>4. ASSUME NEW g \in files, g.id = op.id PROVE [g EXCEPT !.cluster = op.cluster].sn = op.sn
      BY <2>2, <2>3, <2>4, FileIs
    <2>5. ASSUME f \in Returned PROVE f \in files
      <3>1. PICK g \in files : f = IF g.id = op.id THEN [g EXCEPT !.cluster = op.cluster] ELSE g
        BY <2>1, <2>5
      <3>2. CASE g.id = op.id
        <4>1. PICK h : h = [g EXCEPT !.cluster = op.cluster]
          OBVIOUS
        <4>2. f = h
          BY <3>1, <3>2, <4>1
        <4> QED
          BY <2>4, <3>2, <4>1, <4>2
      <3>3. CASE g.id # op.id
        BY <3>1, <3>3
      <3> QED
        BY <3>2, <3>3
    <2>6. ASSUME f \in files PROVE f \in Returned
      <3>1. f.id # op.id
        BY <2>2, <2>6
      <3> QED
        BY <2>1, <2>6, <3>1
    <2> QED
      BY <2>5, <2>6
  <1> QED
    BY <1>1, <1>2, <1>3, <1>4, OpIs

\* Whose short name the first write is about.
LEMMA FirstIs ==
  ASSUME NEW w, Stepped(w), OwnWrites, w.t = "put"
  PROVE  /\ \A s : s # op.sn /\ s \notin hurt => NameOf(w.e) # <<s>> /\ NameOf(Now[w.i]) # <<s>>
         /\ op.kind \in {"create", "unlink"} \/ todo' = <<>>
  <1>1. TailOf(todo, todo') /\ w = todo[1] /\ PutAt(1) /\ todo' \in Seq(Writes) /\ todo \in Seq(Writes)
    <2>1. todo \in Seq(Writes) /\ todo # <<>> /\ todo' = Tail(todo) /\ w = todo[1]
      BY DEF Stepped
    <2>2. TailOf(todo, todo') /\ todo' \in Seq(Writes)
      BY <2>1, TailTail, TailIs
    <2> QED
      BY <2>1, <2>2 DEF PutAt, TailOf
  <1>2. /\ NameOf(w.e) \in {<<>>, <<op.sn>>} /\ NameOf(Now[w.i]) \in {<<>>, <<op.sn>>} \cup {<<h>> : h \in hurt}
        /\ op.kind \in {"create", "unlink"} \/ 1 = Len(todo)
    <2>1. 1 \in DOMAIN todo
      BY <1>1 DEF TailOf
    <2> QED
      BY <1>1, <2>1 DEF OwnWrites, OwnEntries
  <1>3. 1 = Len(todo) => todo' = <<>>
    <2>1. Len(todo') = Len(todo) - 1
      BY <1>1 DEF TailOf
    <2> QED
      BY <1>1, <2>1
  <1>4. ASSUME NEW s, s # op.sn, s \notin hurt PROVE NameOf(w.e) # <<s>> /\ NameOf(Now[w.i]) # <<s>>
    BY <1>2, <1>4
  <1> QED
    BY <1>2, <1>3, <1>4

\* What a step that is not the last leaves exempt was so before.
LEMMA ExemptGoes ==
  ASSUME NEW w, Stepped(w), Goes, OwnWrites, NEW s, ~Exempt(s)'
  PROVE  /\ s \notin hurt /\ ~Exempt(s)
         /\ s = op.sn => op.kind \in {"grow", "write"}
  <1>1. /\ todo' # <<>> /\ op' = [op EXCEPT !.begun = TRUE] /\ hurt' = hurt /\ op \in Ops /\ op # NoOp
    BY DEF Stepped, Goes
  <1>2. op'.kind = op.kind /\ op'.begun = TRUE /\ op'.sn = op.sn
    BY <1>1, BegunIs
  <1>3. s \notin hurt /\ (s = op.sn => op.kind \notin {"create", "truncate", "unlink"})
    BY <1>1, <1>2 DEF Exempt, Cuts
  <1>4. s = op.sn => op.kind \in {"grow", "write"}
    BY <1>1, <1>3, OpIs
  <1> QED
    BY <1>3, <1>4 DEF Exempt, Cuts

LEMMA RightGoes ==
  ASSUME NEW w, Stepped(w), Goes, OwnWrites, NowRight
  PROVE  NowRight'
  <1> SUFFICES ASSUME NEW s \in SNames, ~Exempt(s)' PROVE Right(Now', files', s)
    BY DEF NowRight
  <1>1. s \notin hurt /\ ~Exempt(s) /\ (s = op.sn => op.kind \in {"grow", "write"})
    BY ExemptGoes
  <1>2. Right(Now, files, s) /\ files' = files /\ todo' # <<>>
    BY <1>1 DEF NowRight, Goes
  <1>3. \A i \in Places : Now'[i] = IF w.t = "put" /\ i = w.i THEN w.e ELSE Now[i]
    BY DEF Stepped
  <1>4. \A i \in Places : Now'[i] = Now[i] \/ (NameOf(Now[i]) # <<s>> /\ NameOf(Now'[i]) # <<s>>)
    <2>1. CASE w.t # "put"
      BY <1>3, <2>1
    <2>2. CASE w.t = "put"
      <3>1. s # op.sn
        BY <1>1, <1>2, <2>2, FirstIs
      <3>2. NameOf(w.e) # <<s>> /\ NameOf(Now[w.i]) # <<s>>
        BY <1>1, <2>2, <3>1, FirstIs
      <3> QED
        BY <1>3, <3>2
    <2> QED
      BY <2>1, <2>2
  <1>5. PICK S, T : S = Now /\ T = Now'
    OBVIOUS
  <1>6. Right(T, files, s)
    <2>1. Right(S, files, s) /\ \A i \in Places : T[i] = S[i] \/ (NameOf(S[i]) # <<s>> /\ NameOf(T[i]) # <<s>>)
      BY <1>2, <1>4, <1>5
    <2> QED
      BY <2>1, RightStays
  <1> QED
    BY <1>2, <1>5, <1>6

\* The entries when a call ends are those it was to end with.
LEMMA NowFinal ==
  ASSUME NEW w, Stepped(w), OwnWrites
  PROVE  \A i \in Places : Final'[i] = Final[i] /\ (todo' = <<>> => Now'[i] = Final[i])
  <1>1. TailOf(todo, todo')
    BY TailTail DEF Stepped
  <1>2. PICK W, T, N, M : W = todo /\ T = todo' /\ N = Now /\ M = Now'
    OBVIOUS
  <1>3. PutsOnce(W)
    BY <1>2 DEF OwnWrites, OwnEntries, PutAt, PutsOnce
  <1>4. \A i \in Places : M[i] = IF W[1].t = "put" /\ i = W[1].i THEN W[1].e ELSE N[i]
    BY <1>2 DEF Stepped
  <1>5. \A i \in Places : After(T, M)[i] = After(W, N)[i]
    BY <1>1, <1>2, <1>3, <1>4, AfterTail
  <1>6. Final' = After(T, M) /\ Final = After(W, N)
    BY <1>2 DEF Final
  <1>7. ASSUME T = <<>>, NEW i \in Places PROVE After(T, M)[i] = M[i]
    <2>1. \A k \in DOMAIN T : FALSE
      BY <1>7
    <2> QED
      BY <2>1 DEF After
  <1> QED
    BY <1>2, <1>5, <1>6, <1>7

LEMMA RightEnds ==
  ASSUME NEW w, Stepped(w), Ends, OwnWrites, EndRight, NowRight
  PROVE  NowRight'
  <1> SUFFICES ASSUME NEW s \in SNames, ~Exempt(s)' PROVE Right(Now', files', s)
    BY DEF NowRight
  <1>1. s \notin hurt /\ todo' = <<>> /\ files' = Returned
    BY DEF Exempt, Stepped, Ends
  <1>2. PICK S, T, E, F : S = Now /\ T = Now' /\ E = Final /\ F = Returned
    OBVIOUS
  <1>3. CASE s = op.sn
    <2>1. Right(E, F, s)
      BY <1>2, <1>3 DEF EndRight
    <2>2. \A i \in Places : T[i] = E[i]
      BY <1>1, <1>2, NowFinal
    <2>3. Right(T, F, s)
      BY <2>1, <2>2, RightStays
    <2> QED
      BY <1>1, <1>2, <2>3
  <1>4. CASE s # op.sn
    <2>1. Right(S, files, s)
      BY <1>1, <1>2, <1>4 DEF NowRight, Exempt
    <2>2. \A i \in Places : T[i] = S[i] \/ (NameOf(S[i]) # <<s>> /\ NameOf(T[i]) # <<s>>)
      <3>1. \A i \in Places : T[i] = IF w.t = "put" /\ i = w.i THEN w.e ELSE S[i]
        BY <1>2 DEF Stepped
      <3>2. w.t = "put" => NameOf(w.e) # <<s>> /\ NameOf(S[w.i]) # <<s>>
        BY <1>1, <1>2, <1>4, FirstIs
      <3> QED
        BY <3>1, <3>2
    <2>3. \A f : f.sn = s => (f \in F <=> f \in files)
      BY <1>2, <1>4, OthersStay DEF Stepped, OwnWrites
    <2>4. Right(T, F, s)
      BY <2>1, <2>2, <2>3, RightStays
    <2> QED
      BY <1>1, <1>2, <2>4
  <1> QED
    BY <1>3, <1>4

\* What the first write does to the cluster of a file that it is not about.
LEMMA ClusterStays ==
  ASSUME NEW w, Stepped(w), OwnWrites, NEW f \in files, f.sn \notin hurt, f.cluster \in Clusters,
         f.sn # op.sn \/ op.kind \notin {"truncate", "unlink"}
  PROVE  fat'[f.cluster] = fat[f.cluster] /\ dots'[f.cluster] = dots[f.cluster]
  <1>1. 1 \in DOMAIN todo /\ w = todo[1]
    <2>1. TailOf(todo, Tail(todo))
      BY TailTail DEF Stepped
    <2> QED
      BY <2>1 DEF TailOf, Stepped
  <1>2. w.t \in {"fat", "zero", "dot"} => w.c # f.cluster
    BY <1>1 DEF OwnWrites, OwnClusters
  <1> QED
    BY <1>2 DEF Stepped

LEMMA ClustersGo ==
  ASSUME NEW w, Stepped(w), Goes, OwnWrites, NowClusters
  PROVE  NowClusters'
  <1> SUFFICES ASSUME NEW f \in files, ~Exempt(f.sn)', f.cluster # 0
               PROVE  /\ fat'[f.cluster] /\ (f.dir => dots'[f.cluster] = 2)
                      /\ \A g \in files : ~Exempt(g.sn)' /\ g.cluster = f.cluster => g = f
    BY DEF NowClusters, Goes
  <1>1. f.sn \notin hurt /\ ~Exempt(f.sn) /\ (f.sn = op.sn => op.kind \in {"grow", "write"})
    BY ExemptGoes
  <1>2. f.cluster \in Clusters
    BY DEF Stepped, Files
  <1>3. fat[f.cluster] /\ (f.dir => dots[f.cluster] = 2)
        /\ \A g \in files : ~Exempt(g.sn) /\ g.cluster = f.cluster => g = f
    BY <1>1 DEF NowClusters
  <1>4. fat'[f.cluster] = fat[f.cluster] /\ dots'[f.cluster] = dots[f.cluster]
    <2>1. f.sn # op.sn \/ op.kind \notin {"truncate", "unlink"}
      BY <1>1
    <2> QED
      BY <1>1, <1>2, <2>1, ClusterStays
  <1>5. ASSUME NEW g \in files, ~Exempt(g.sn)', g.cluster = f.cluster PROVE g = f
    <2>1. ~Exempt(g.sn)
      BY <1>5, ExemptGoes
    <2> QED
      BY <1>3, <1>5, <2>1
  <1> QED
    BY <1>3, <1>4, <1>5

\* The clusters of the short name the call is about, after the next write.
LEMMA FatStep ==
  ASSUME NEW w, Stepped(w), NEW c \in Clusters, fat \in [Clusters -> BOOLEAN], FatEnd(c)
  PROVE  FatEnd(c)' /\ (todo' = <<>> => fat'[c])
  <1>1. TailOf(todo, todo') /\ w = todo[1] /\ w \in Writes
        /\ fat'[c] = IF w.t = "fat" /\ w.c = c THEN w.v ELSE fat[c]
    BY TailTail DEF Stepped
  <1>2. PICK W, T : W = todo /\ T = todo'
    OBVIOUS
  <1>3. /\ fat[c] \/ \E k \in DOMAIN W : W[k] = Fat(c, TRUE)
        /\ \A k \in DOMAIN W : W[k] # Fat(c, FALSE)
    BY <1>2 DEF FatEnd
  <1>4. /\ 1 \in DOMAIN W
        /\ \A k \in DOMAIN T : k \in Nat /\ k # 0 /\ k + 1 \in DOMAIN W /\ T[k] = W[k + 1]
        /\ \A k \in DOMAIN W : k \in Nat /\ (k = 1 \/ (k - 1 \in DOMAIN T /\ T[k - 1] = W[k]))
    BY <1>1, <1>2 DEF TailOf
  <1>5. w.t = "fat" /\ w.c = c => w.v = TRUE
    <2>1. ASSUME w.t = "fat", w.c = c PROVE w.v = TRUE
      <3>1. w = Fat(w.c, w.v) /\ w.v \in BOOLEAN
        BY <1>1, <2>1, WriteKinds
      <3>2. w # Fat(c, FALSE)
        BY <1>1, <1>2, <1>3, <1>4
      <3>3. CASE w.v = TRUE
        BY <3>3
      <3>4. CASE w.v = FALSE
        BY <2>1, <3>1, <3>2, <3>4
      <3> QED
        BY <3>1, <3>3, <3>4
    <2> QED
      BY <2>1
  <1>6. \A k \in DOMAIN T : T[k] # Fat(c, FALSE)
    BY <1>3, <1>4
  <1>7. fat'[c] \/ \E k \in DOMAIN T : T[k] = Fat(c, TRUE)
    <2>1. CASE fat[c]
      BY <1>1, <1>5, <2>1
    <2>2. CASE \E k \in DOMAIN W : W[k] = Fat(c, TRUE)
      <3>1. PICK k \in DOMAIN W : W[k] = Fat(c, TRUE)
        BY <2>2
      <3>2. CASE k = 1
        <4>1. w = Fat(c, TRUE)
          BY <1>1, <1>2, <3>1, <3>2
        <4>2. w.t = "fat" /\ w.c = c
          BY <4>1 DEF Fat
        <4> QED
          BY <1>1, <1>5, <4>2
      <3>3. CASE k # 1
        BY <1>4, <3>1, <3>3
      <3> QED
        BY <3>2, <3>3
    <2> QED
      BY <1>3, <2>1, <2>2
  <1>8. FatEnd(c)'
    BY <1>2, <1>6, <1>7 DEF FatEnd
  <1>9. T = <<>> => fat'[c]
    <2>1. T = <<>> => \A k \in DOMAIN T : FALSE
      OBVIOUS
    <2> QED
      BY <1>7, <2>1
  <1> QED
    BY <1>2, <1>8, <1>9

LEMMA DotStep ==
  ASSUME NEW w, Stepped(w), NEW c \in Clusters, DotEnd(c)
  PROVE  DotEnd(c)' /\ (todo' = <<>> => dots'[c] = 2)
  <1>1. /\ TailOf(todo, todo') /\ w = todo[1] /\ w \in Writes
        /\ dots'[c] = IF w.t = "zero" /\ w.c = c THEN 0 ELSE IF w.t = "dot" /\ w.c = c THEN w.n ELSE dots[c]
    BY TailTail DEF Stepped
  <1>2. PICK W, T : W = todo /\ T = todo'
    OBVIOUS
  <1> DEFINE Left(X, k) == \A j \in DOMAIN X : j > k /\ X[j].t \in {"zero", "dot"} => X[j].c # c
  <1>3. (dots[c] = 2 /\ Left(W, 0)) \/ \E k \in DOMAIN W : W[k] = Dot(c, 2) /\ Left(W, k)
    BY <1>2 DEF DotEnd, DotsLeft
  <1>4. /\ 1 \in DOMAIN W
        /\ \A k \in DOMAIN T : k \in Nat /\ k # 0 /\ k + 1 \in DOMAIN W /\ T[k] = W[k + 1]
        /\ \A k \in DOMAIN W : k \in Nat /\ (k = 1 \/ (k - 1 \in DOMAIN T /\ T[k - 1] = W[k]))
    BY <1>1, <1>2 DEF TailOf
  <1>5. ASSUME NEW k \in Nat, NEW l \in Nat, l = k - 1 \/ (k = 0 /\ l = 0), Left(W, k) PROVE Left(T, l)
    <2> SUFFICES ASSUME NEW j \in DOMAIN T, j > l, T[j].t \in {"zero", "dot"} PROVE T[j].c # c
      OBVIOUS
    <2>1. j + 1 \in DOMAIN W /\ T[j] = W[j + 1] /\ j \in Nat
      BY <1>4
    <2>2. j + 1 > k
      BY <1>5, <2>1
    <2> QED
      BY <1>5, <2>1, <2>2
  <1>6. (dots'[c] = 2 /\ Left(T, 0)) \/ \E k \in DOMAIN T : T[k] = Dot(c, 2) /\ Left(T, k)
    <2>1. CASE dots[c] = 2 /\ Left(W, 0)
      <3>1. ~(w.t \in {"zero", "dot"} /\ w.c = c)
        <4>1. 1 > 0
          OBVIOUS
        <4> QED
          BY <1>1, <1>2, <1>4, <2>1, <4>1
      <3>2. Left(T, 0)
        BY <1>5, <2>1
      <3> HIDE DEF Left
      <3> QED
        BY <1>1, <2>1, <3>1, <3>2
    <2>2. CASE \E k \in DOMAIN W : W[k] = Dot(c, 2) /\ Left(W, k)
      <3>1. PICK k \in DOMAIN W : W[k] = Dot(c, 2) /\ Left(W, k)
        BY <2>2
      <3>2. CASE k = 1
        <4>1. w.t = "dot" /\ w.c = c /\ w.n = 2
          BY <1>1, <1>2, <3>1, <3>2 DEF Dot
        <4>2. Left(T, 0)
          <5> HIDE DEF Left
          <5>1. Left(W, 1)
            BY <3>1, <3>2
          <5> QED
            BY <1>5, <5>1
        <4> HIDE DEF Left
        <4> QED
          BY <1>1, <4>1, <4>2
      <3>3. CASE k # 1
        <4> HIDE DEF Left
        <4>1. PICK l \in DOMAIN T : l = k - 1 /\ T[l] = W[k]
          BY <1>4, <3>3
        <4>2. k \in Nat /\ l \in Nat
          BY <1>4
        <4>3. Left(T, l)
          BY <1>5, <3>1, <4>1, <4>2
        <4> QED
          BY <3>1, <4>1, <4>3
      <3> QED
        BY <3>2, <3>3
    <2> QED
      BY <1>3, <2>1, <2>2
  <1>7. DotEnd(c)'
    BY <1>2, <1>6 DEF DotEnd, DotsLeft
  <1>8. T = <<>> => dots'[c] = 2
    <2>1. T = <<>> => \A k \in DOMAIN T : FALSE
      OBVIOUS
    <2> QED
      BY <1>6, <2>1
  <1> QED
    BY <1>2, <1>7, <1>8

LEMMA ClustersEnd ==
  ASSUME NEW w, Stepped(w), Ends, OwnWrites, EndRight, NowClusters, fat \in [Clusters -> BOOLEAN]
  PROVE  NowClusters'
  <1> SUFFICES ASSUME NEW f \in Returned, f.sn \notin hurt, f.cluster # 0
               PROVE  /\ fat'[f.cluster] /\ (f.dir => dots'[f.cluster] = 2)
                      /\ \A g \in Returned : g.sn \notin hurt /\ g.cluster = f.cluster => g = f
    BY DEF NowClusters, Ends, Stepped, Exempt
  <1>1. /\ \A g : g.sn # op.sn => (g \in Returned <=> g \in files)
        /\ \A g \in Returned : g \in Files
    BY OthersStay, ReturnedIs DEF OwnWrites, Stepped
  <1>2. f.cluster \in Clusters
    BY <1>1 DEF Files
  <1>3. \A g \in Returned : g.sn = op.sn /\ g.cluster # 0 =>
          /\ FatEnd(g.cluster) /\ (g.dir => DotEnd(g.cluster))
          /\ \A h \in files : h.sn \notin hurt /\ h.sn # op.sn => h.cluster # g.cluster
    BY DEF EndRight, EndClusters
  <1>4. CASE f.sn # op.sn
    <2>1. f \in files /\ ~Exempt(f.sn)
      BY <1>1, <1>4 DEF Exempt
    <2>2. fat[f.cluster] /\ (f.dir => dots[f.cluster] = 2)
          /\ \A g \in files : ~Exempt(g.sn) /\ g.cluster = f.cluster => g = f
      BY <2>1 DEF NowClusters
    <2>3. fat'[f.cluster] = fat[f.cluster] /\ dots'[f.cluster] = dots[f.cluster]
      BY <1>2, <1>4, <2>1, ClusterStays
    <2>4. ASSUME NEW g \in Returned, g.sn \notin hurt, g.cluster = f.cluster PROVE g = f
      <3>1. CASE g.sn = op.sn
        BY <1>3, <1>4, <2>1, <2>4, <3>1
      <3>2. CASE g.sn # op.sn
        BY <1>1, <2>2, <2>4, <3>2 DEF Exempt
      <3> QED
        BY <3>1, <3>2
    <2> QED
      BY <2>2, <2>3, <2>4
  <1>5. CASE f.sn = op.sn
    <2>1. FatEnd(f.cluster) /\ (f.dir => DotEnd(f.cluster)) /\ todo' = <<>>
      BY <1>3, <1>5 DEF Ends
    <2>2. fat'[f.cluster] /\ (f.dir => dots'[f.cluster] = 2)
      BY <1>2, <2>1, FatStep, DotStep
    <2>3. ASSUME NEW g \in Returned, g.sn \notin hurt, g.cluster = f.cluster PROVE g = f
      <3>1. CASE g.sn = op.sn
        BY <1>5, <3>1 DEF EndRight, Right
      <3>2. CASE g.sn # op.sn
        BY <1>1, <1>3, <1>5, <2>3, <3>2
      <3> QED
        BY <3>1, <3>2
    <2> QED
      BY <2>2, <2>3
  <1> QED
    BY <1>4, <1>5

\* The call goes on: the writes left are still its own, and end as they would.
LEMMA OwnGoes ==
  ASSUME NEW w, Stepped(w), Goes, OwnWrites
  PROVE  OwnWrites'
  <1>1. /\ op' \in Ops /\ op'.kind = op.kind /\ op'.sn = op.sn /\ files' = files /\ hurt' = hurt
        /\ op.kind = "create" => op'.file = op.file
        /\ op.kind \in {"write", "truncate", "unlink"} => op'.id = op.id
    BY BegunIs DEF Stepped, Goes
  <1>2. TailOf(todo, todo') /\ w = todo[1] /\ todo \in Seq(Writes)
    BY TailTail DEF Stepped
  <1>3. PICK W, T : W = todo /\ T = todo'
    OBVIOUS
  <1>4. /\ 1 \in DOMAIN W /\ Len(T) = Len(W) - 1 /\ Len(W) \in Nat
        /\ \A k \in DOMAIN T : k \in Nat /\ k # 0 /\ k + 1 \in DOMAIN W /\ T[k] = W[k + 1]
    BY <1>2, <1>3 DEF TailOf
  <1>5. OwnCall'
    BY <1>1 DEF OwnWrites, OwnCall
  <1>6. ASSUME NEW k \in DOMAIN T, T[k].t = "put"
        PROVE  /\ NameOf(T[k].e) \in {<<>>, <<op.sn>>}
               /\ NameOf(Now'[T[k].i]) \in {<<>>, <<op.sn>>} \cup {<<h>> : h \in hurt}
               /\ op.kind \in {"create", "unlink"} \/ k = Len(T)
    <2>1. PICK l \in DOMAIN W : l = k + 1 /\ T[k] = W[l] /\ k \in Nat /\ k # 0
      BY <1>4
    <2>2. /\ NameOf(W[l].e) \in {<<>>, <<op.sn>>}
          /\ NameOf(Now[W[l].i]) \in {<<>>, <<op.sn>>} \cup {<<h>> : h \in hurt}
          /\ op.kind \in {"create", "unlink"} \/ l = Len(W)
      BY <1>3, <1>6, <2>1 DEF OwnWrites, OwnEntries, PutAt
    <2>3. ~(w.t = "put" /\ T[k].i = w.i)
      <3> SUFFICES ASSUME w.t = "put", T[k].i = w.i PROVE FALSE
        OBVIOUS
      <3>1. l = 1
        BY <1>2, <1>3, <1>4, <1>6, <2>1 DEF OwnWrites, OwnEntries, PutAt
      <3> QED
        BY <2>1, <3>1
    <2>4. T[k].i \in Places
      <3>1. W[l] \in Writes /\ W[l].t = "put"
        BY <1>2, <1>3, <1>6, <2>1
      <3> QED
        BY <2>1, <3>1, WriteKinds DEF Places
    <2>5. Now'[T[k].i] = Now[T[k].i]
      BY <2>3, <2>4 DEF Stepped
    <2>6. l = Len(W) => k = Len(T)
      BY <1>4, <2>1
    <2> QED
      BY <2>1, <2>2, <2>5, <2>6
  <1>7. ASSUME NEW k \in DOMAIN T, NEW l \in DOMAIN T, T[k].t = "put", T[l].t = "put", T[k].i = T[l].i
        PROVE  k = l
    <2>1. k + 1 = l + 1
      BY <1>3, <1>4, <1>7 DEF OwnWrites, OwnEntries, PutAt
    <2> QED
      BY <1>4, <2>1
  <1>8. OwnEntries'
    BY <1>1, <1>3, <1>6, <1>7 DEF OwnEntries, PutAt
  <1>9. OwnClusters'
    <2>1. ASSUME NEW k \in DOMAIN T, T[k].t \in {"fat", "zero", "dot"}, NEW f \in files, f.sn \notin hurt, f.cluster = T[k].c
          PROVE  f.sn = op.sn /\ op.kind \in {"truncate", "unlink"}
      <3>1. k + 1 \in DOMAIN W /\ T[k] = W[k + 1]
        BY <1>4
      <3> QED
        BY <1>3, <2>1, <3>1 DEF OwnWrites, OwnClusters
    <2> QED
      BY <1>1, <1>3, <2>1 DEF OwnClusters
  <1> QED
    BY <1>5, <1>8, <1>9 DEF OwnWrites

LEMMA EndGoes ==
  ASSUME NEW w, Stepped(w), Goes, OwnWrites, EndRight, fat \in [Clusters -> BOOLEAN]
  PROVE  EndRight'
  <1>1. /\ op \in Ops /\ op # NoOp /\ op'.kind = op.kind /\ op'.sn = op.sn /\ files' = files /\ hurt' = hurt
        /\ op.kind = "create" => op'.file = op.file
        /\ op.kind \in {"write", "truncate"} => op'.cluster = op.cluster
        /\ op.kind \in {"write", "truncate", "unlink"} => op'.id = op.id
    BY BegunIs DEF Stepped, Goes
  <1>2. Returned' = Returned
    <2>1. CASE op.kind = "create"
      BY <1>1, <2>1 DEF Returned
    <2>2. CASE op.kind = "unlink"
      BY <1>1, <2>2 DEF Returned
    <2>3. CASE op.kind \in {"write", "truncate"}
      BY <1>1, <2>3 DEF Returned
    <2>4. CASE op.kind = "grow"
      BY <1>1, <2>4, Zenon DEF Returned
    <2> QED
      BY <1>1, <2>1, <2>2, <2>3, <2>4, OpIs
  <1>3. Right(Final', Returned', op'.sn)
    <2>1. PICK S, T, F : S = Final /\ T = Final' /\ F = Returned
      OBVIOUS
    <2>2. Right(S, F, op.sn) /\ \A i \in Places : T[i] = S[i]
      BY <2>1, NowFinal DEF EndRight
    <2>3. Right(T, F, op.sn)
      BY <2>2, RightStays
    <2> QED
      BY <1>1, <1>2, <2>1, <2>3
  <1>4. \A f \in Returned : f \in Files
    BY <1>1, ReturnedIs DEF Stepped
  <1>5. ASSUME NEW f \in Returned, f.sn = op.sn, f.cluster # 0
        PROVE  /\ FatEnd(f.cluster)' /\ (f.dir => DotEnd(f.cluster)')
               /\ \A g \in files : g.sn \notin hurt /\ g.sn # op.sn => g.cluster # f.cluster
    <2>1. PICK c \in Clusters : c = f.cluster
      BY <1>4, <1>5 DEF Files
    <2>2. FatEnd(c) /\ (f.dir => DotEnd(c)) /\ \A g \in files : g.sn \notin hurt /\ g.sn # op.sn => g.cluster # c
      BY <1>5, <2>1 DEF EndRight, EndClusters
    <2>3. FatEnd(c)' /\ (f.dir => DotEnd(c)')
      BY <2>2, FatStep, DotStep
    <2> QED
      BY <2>1, <2>2, <2>3 DEF FatEnd, DotEnd, DotsLeft
  <1>6. EndClusters'
    BY <1>1, <1>2, <1>5 DEF EndClusters
  <1> QED
    BY <1>3, <1>6 DEF EndRight

LEMMA StepInv ==
  ASSUME DirInv, Step
  PROVE  DirInv'
  <1>1. DirBasics /\ DirBasics' /\ fat \in [Clusters -> BOOLEAN]
    BY StepBasics DEF DirInv, DirBasics, DirTyped
  <1>2. PICK w : w = todo[1]
    OBVIOUS
  <1>3. Stepped(w) /\ (Goes \/ Ends)
    BY <1>1, <1>2, SteppedIs
  <1>4. todo # <<>> /\ UNCHANGED <<hurt, touched, count>>
    BY <1>3 DEF Stepped
  <1>5. ASSUME ~touched PROVE NowRight' /\ NowClusters' /\ (todo' # <<>> => OwnWrites' /\ EndRight')
    <2>1. NowRight /\ NowClusters /\ OwnWrites /\ EndRight
      BY <1>4, <1>5 DEF DirInv
    <2>2. CASE Goes
      BY <1>1, <1>3, <2>1, <2>2, RightGoes, ClustersGo, OwnGoes, EndGoes
    <2>3. CASE Ends
      <3>1. todo' = <<>>
        BY <2>3 DEF Ends
      <3> QED
        BY <1>1, <1>3, <2>1, <2>3, <3>1, RightEnds, ClustersEnd
    <2> QED
      BY <1>3, <2>2, <2>3
  <1>6. count'.crash = 0 => hurt' = {} /\ ~touched'
    BY <1>4 DEF DirInv
  <1>7. ~touched' => NowRight' /\ NowClusters' /\ (todo' # <<>> => OwnWrites' /\ EndRight')
    BY <1>4, <1>5
  <1> QED
    BY <1>1, <1>6, <1>7 DEF DirInv

LEMMA CrashInv ==
  ASSUME DirInv, Crash
  PROVE  DirInv'
  <1>1. DirBasics /\ DirBasics'
    BY CrashBasics DEF DirInv
  <1>2. /\ todo # <<>> /\ todo' = <<>> /\ op' = NoOp /\ UNCHANGED <<slots, fat, dots, files, touched>>
        /\ hurt' = (IF Cuts THEN hurt \cup {op.sn} ELSE hurt) /\ count' = [count EXCEPT !.crash = @ + 1]
    BY DEF Crash
  <1>3. count'.crash # 0
    <2>1. count \in [file : Nat, crash : Nat]
      BY <1>1 DEF DirBasics, DirTyped
    <2> QED
      BY <1>2, <2>1
  <1>4. \A s : Exempt(s)' <=> Exempt(s)
    BY <1>2 DEF Exempt
  <1>5. Now' = Now
    BY <1>2 DEF Now
  <1>6. NowRight => NowRight'
    BY <1>2, <1>4, <1>5 DEF NowRight
  <1>7. NowClusters => NowClusters'
    BY <1>2, <1>4 DEF NowClusters
  <1> QED
    BY <1>1, <1>2, <1>3, <1>6, <1>7 DEF DirInv

LEMMA DirInductive ==
  ASSUME DirInv, [DirNext]_dvars
  PROVE  DirInv'
  <1>1. CASE Step
    BY <1>1, StepInv
  <1>2. CASE Crash
    BY <1>2, CrashInv
  <1>3. CASE \E name \in FileNames : \/ \E dir \in BOOLEAN : create(fat32_iter_dir, name, dir)
                                     \/ write(fat32_iter_dir, name) \/ truncate(fat32_iter_dir, name)
                                     \/ unlink(fat32_iter_dir, name)
    <2>1. PICK name \in FileNames : \/ \E dir \in BOOLEAN : create(fat32_iter_dir, name, dir)
                                    \/ write(fat32_iter_dir, name) \/ truncate(fat32_iter_dir, name)
                                    \/ unlink(fat32_iter_dir, name)
      BY <1>3
    <2>2. DirBasics
      BY DEF DirInv
    <2>3. CASE \E dir \in BOOLEAN : create(fat32_iter_dir, name, dir)
      BY <2>3, CreateInv
    <2>4. CASE write(fat32_iter_dir, name)
      BY <2>2, <2>4, WriteUnfolded, FoundInv
    <2>5. CASE truncate(fat32_iter_dir, name)
      BY <2>2, <2>5, TruncateUnfolded, FoundInv
    <2>6. CASE unlink(fat32_iter_dir, name)
      BY <2>2, <2>6, UnlinkUnfolded, FoundInv
    <2> QED
      BY <2>1, <2>3, <2>4, <2>5, <2>6
  <1>4. CASE UNCHANGED dvars
    <2>1. /\ slots' = slots /\ fat' = fat /\ dots' = dots /\ todo' = todo /\ op' = op /\ files' = files
          /\ hurt' = hurt /\ touched' = touched /\ count' = count
      BY <1>4 DEF dvars
    <2>2. DirBasics'
      <3>1. DirTyped' = DirTyped
        BY <2>1 DEF DirTyped
      <3>2. Packed' = Packed
        BY <2>1 DEF Packed, PutAt
      <3>3. Roomy' = Roomy
        BY <2>1 DEF Roomy, PutAt
      <3>4. Distinct' = Distinct
        BY <2>1 DEF Distinct, PutAt
      <3> QED
        BY <3>1, <3>2, <3>3, <3>4 DEF DirInv, DirBasics
    <2>3. Now' = Now /\ Final' = Final /\ Returned' = Returned
      BY <2>1 DEF Now, Final, Returned
    <2>4. OwnWrites' = OwnWrites
      BY <2>1, <2>3 DEF OwnWrites, OwnCall, OwnEntries, OwnClusters, PutAt
    <2>5. EndClusters' = EndClusters
      BY <2>1, <2>3 DEF EndClusters, FatEnd, DotEnd, DotsLeft
    <2>6. EndRight' = EndRight
      BY <2>1, <2>3, <2>5 DEF EndRight
    <2>7. NowRight' = NowRight /\ NowClusters' = NowClusters
      BY <2>1, <2>3 DEF NowRight, NowClusters, Exempt, Cuts
    <2> QED
      BY <2>1, <2>2, <2>4, <2>6, <2>7 DEF DirInv
  <1> QED
    BY <1>1, <1>2, <1>3, <1>4 DEF DirNext

-----------------------------------------------------------------------------
(* What a listing shows. *)

\* Two short names with one checksum, a crash or the running call having left the
\* second's entries half done.
Collides(sn, s) == s \in SNames /\ Exempt(s) /\ fat32_lfn_checksum(s) = fat32_lfn_checksum(sn)

\* View v shows the file f, under its name unless that collides.
Shown(v, f) ==
  /\ v.name = f.name \/ (f.name = ShortToName(f.sn) /\ \E s : Collides(f.sn, s))
  /\ v.at \in DOMAIN slots /\ v.e = slots[v.at] /\ v.e.k = "short"
  /\ v.e.sn = f.sn /\ v.e.id = f.id /\ v.e.dir = f.dir /\ v.e.cluster = f.cluster

\* A long-name entry right before a file's only entry is another file's, and that
\* one is half done.
LEMMA MisledBy ==
  ASSUME DirBasics, NowRight, NEW f \in Files, NEW a \in Nat, Home(Now, f, a, 0), Misled(f, a)
  PROVE  \E s : Collides(f.sn, s)
  <1>1. slots \in Seq(DirEntries) /\ files \subseteq Files
    BY DEF DirBasics, DirTyped
  <1> DEFINE p == a - 1
             t == slots[p].of
  <1>2. /\ p \in DOMAIN slots /\ slots[p].k = "lfn" /\ slots[p].sum = fat32_lfn_checksum(f.sn)
        /\ p \in Places /\ Now[p] = slots[p]
    BY <1>1, NowIs DEF Misled
  <1>3. slots[p] \in Lfns
    BY <1>1, <1>2, Kinds
  <1>4. t \in SNames /\ slots[p].sum = fat32_lfn_checksum(t)
    BY <1>3 DEF Lfns
  <1>5. NameOf(Now[p]) = <<t>>
    BY <1>2 DEF NameOf
  <1>6. /\ a \in Places /\ p \notin a - 0 .. a /\ a \in a - 0 .. a /\ p \in Nat
    BY <1>2 DEF Places
  <1>7. NameOf(Now[p]) # <<f.sn>> /\ NameOf(Now[a]) = <<f.sn>> /\ Now[a].k = "short"
    BY <1>6, <1>2, HomeIs DEF Home
  <1> HIDE DEF p, t
  <1>8. ASSUME ~Exempt(t) PROVE FALSE
    <2>1. Right(Now, files, t)
      BY <1>4, <1>8 DEF NowRight
    <2>2. PICK g \in files : g.sn = t
      BY <1>2, <1>5, <2>1 DEF Right
    <2>3. PICK b \in Places, n \in Nat : Home(Now, g, b, n)
      BY <2>1, <2>2 DEF Right
    <2>4. /\ (\A i \in b - n .. b : i # b => Now[i].k = "lfn") /\ Now[b].k = "short"
          /\ \A i \in Places : NameOf(Now[i]) = <<g.sn>> <=> i \in b - n .. b
      BY <1>1, <2>2, <2>3, HomeIs
    <2>5. p \in b - n .. b /\ p # b
      BY <1>2, <1>5, <2>2, <2>4
    <2>6. a \in b - n .. b
      BY <1>6, <2>3, <2>5 DEF p, Places
    <2>7. NameOf(Now[a]) = <<t>>
      BY <1>6, <2>2, <2>4, <2>6
    <2> QED
      BY <1>5, <1>7, <2>7
  <1> QED
    BY <1>2, <1>4, <1>8 DEF Collides

LEMMA HomeSeen ==
  ASSUME DirBasics, NowRight, NEW k \in DOMAIN fat32_iter_dir, NEW f \in files, NEW a, NEW n \in Nat,
         a = fat32_iter_dir[k].at, Home(Now, f, a, n)
  PROVE  Shown(fat32_iter_dir[k], f)
  <1>1. slots \in Seq(DirEntries) /\ files \subseteq Files /\ EndsLast
    BY PackedEnds DEF DirBasics, DirTyped
  <1>2. PICK v : v = fat32_iter_dir[k]
    OBVIOUS
  <1>3. v.at \in DOMAIN slots /\ v.e = slots[v.at] /\ v.e.k = "short"
    <2>1. SeenAt(v)
      BY <1>1, <1>2, SeenIs DEF Sees
    <2> QED
      BY <2>1 DEF SeenAt, Shorts
  <1>4. a \in Nat /\ a \in Places /\ Now[a] = v.e
    BY <1>1, <1>2, <1>3, NowIs DEF Places
  <1>5. f \in Files
    BY <1>1
  <1>6. v.name = f.name \/ (f.name = ShortToName(f.sn) /\ \E s : Collides(f.sn, s))
    <2>1. v.name = f.name \/ (n = 0 /\ Misled(f, a))
      BY <1>1, <1>2, <1>4, <1>5, SeenName
    <2>2. CASE n = 0 /\ Misled(f, a)
      BY <1>4, <1>5, <2>2, MisledBy DEF Misled
    <2> QED
      BY <2>1, <2>2
  <1>7. v.e.sn = f.sn /\ v.e.id = f.id /\ v.e.dir = f.dir /\ v.e.cluster = f.cluster
    BY <1>4, <1>5, HomeIs
  <1> QED
    BY <1>2, <1>3, <1>6, <1>7 DEF Shown

\* A short name that is right is listed as its file.
LEMMA FileOfSeen ==
  ASSUME DirBasics, NowRight, NEW k \in DOMAIN fat32_iter_dir, Right(Now, files, fat32_iter_dir[k].e.sn)
  PROVE  \E f \in files : Shown(fat32_iter_dir[k], f)
  <1>1. slots \in Seq(DirEntries) /\ EndsLast /\ DirTyped
    BY PackedEnds DEF DirBasics, DirTyped
  <1>2. PICK i : i = fat32_iter_dir[k].at
    OBVIOUS
  <1>3. i \in DOMAIN slots /\ fat32_iter_dir[k].e = slots[i] /\ slots[i].k = "short"
    <2>1. SeenAt(fat32_iter_dir[k])
      BY <1>1, SeenIs DEF Sees
    <2> QED
      BY <1>2, <2>1 DEF SeenAt, Shorts
  <1>4. PICK f \in files, n \in Nat : Home(Now, f, i, n)
    BY <1>1, <1>3, SeenHome
  <1> QED
    BY <1>2, <1>4, HomeSeen

\* And its file is listed.
LEMMA SeenOfFile ==
  ASSUME DirBasics, NowRight, NEW f \in files, Right(Now, files, f.sn)
  PROVE  \E k \in DOMAIN fat32_iter_dir : Shown(fat32_iter_dir[k], f)
  <1>1. slots \in Seq(DirEntries) /\ EndsLast /\ files \subseteq Files
    BY PackedEnds DEF DirBasics, DirTyped
  <1>2. PICK a \in Places, n \in Nat : Home(Now, f, a, n)
    BY DEF Right
  <1>3. Now[a].k = "short"
    BY <1>1, <1>2, HomeIs
  <1>4. a \in DOMAIN slots /\ slots[a].k = "short"
    BY <1>1, <1>3, NowIs DEF End
  <1>5. PICK k \in DOMAIN fat32_iter_dir : fat32_iter_dir[k].at = a
    BY <1>1, <1>4, SeenIs DEF Sees
  <1> QED
    BY <1>2, <1>5, HomeSeen

\* Two entries with one short name, or one number, are one entry.
LEMMA OneEntry ==
  ASSUME Distinct, NEW i \in DOMAIN slots, NEW j \in DOMAIN slots, slots[i].k = "short", slots[j].k = "short",
         slots[i].sn = slots[j].sn \/ slots[i].id = slots[j].id
  PROVE  i = j
  BY DEF Distinct

LEMMA ListedAll ==
  ASSUME DirInv, todo = <<>>, count.crash = 0
  PROVE  ListingIsRight
  <1>1. DirBasics /\ NowRight /\ hurt = {} /\ slots \in Seq(DirEntries) /\ EndsLast /\ Distinct
    BY PackedEnds DEF DirInv, DirBasics, DirTyped
  <1>2. \A s \in SNames : Right(Now, files, s)
    BY <1>1 DEF NowRight, Exempt
  <1>3. \A f \in files : f.sn \in SNames
    BY <1>1 DEF DirBasics, DirTyped, Files
  <1>4. PICK L : L = fat32_iter_dir
    OBVIOUS
  <1>5. L \in Seq(Views) /\ (\A k \in DOMAIN L : SeenAt(L[k])) /\ \A k, l \in DOMAIN L : k # l => L[k].at # L[l].at
    BY <1>1, <1>4, SeenIs DEF Sees
  <1>6. ASSUME NEW k \in DOMAIN L PROVE \E f \in files : Shown(L[k], f)
    <2>1. L[k].e.sn \in SNames
      BY <1>5 DEF SeenAt, Shorts
    <2> QED
      BY <1>1, <1>2, <1>4, <2>1, FileOfSeen
  <1>7. ASSUME NEW f \in files PROVE \E k \in DOMAIN L : Shown(L[k], f)
    BY <1>1, <1>2, <1>3, <1>4, SeenOfFile
  <1>10. \A k \in DOMAIN L : \A f \in files : Shown(L[k], f) => L[k].name = f.name
    BY <1>1 DEF Shown, Collides, Exempt
  <1>8. Seen = {<<f.name, f.id, f.dir>> : f \in files}
    <2>1. Seen = {<<L[k].name, L[k].e.id, L[k].e.dir>> : k \in DOMAIN L}
      BY <1>4 DEF Seen, Range
    <2>2. \A k \in DOMAIN L : \E f \in files : <<L[k].name, L[k].e.id, L[k].e.dir>> = <<f.name, f.id, f.dir>>
      BY <1>6, <1>10 DEF Shown
    <2>3. \A f \in files : \E k \in DOMAIN L : <<L[k].name, L[k].e.id, L[k].e.dir>> = <<f.name, f.id, f.dir>>
      BY <1>7, <1>10 DEF Shown
    <2> QED
      BY <2>1, <2>2, <2>3
  <1>9. Cardinality(files) = Len(L)
    <2> DEFINE h == [k \in 1 .. Len(L) |-> CHOOSE f \in files : Shown(L[k], f)]
    <2>1. DOMAIN L = 1 .. Len(L) /\ Len(L) \in Nat
      BY <1>5
    <2>2. \A k \in 1 .. Len(L) : h[k] \in files /\ Shown(L[k], h[k])
      BY <1>6, <2>1
    <2>3. h \in [1 .. Len(L) -> files]
      BY <2>2
    <2> HIDE DEF h
    <2>4. ASSUME NEW k \in 1 .. Len(L), NEW l \in 1 .. Len(L), h[k] = h[l] PROVE k = l
      <3>1. Shown(L[k], h[k]) /\ Shown(L[l], h[k])
        BY <2>2, <2>4
      <3>2. L[k].at = L[l].at
        BY <1>1, <3>1, OneEntry DEF Shown
      <3> QED
        BY <1>5, <2>1, <3>2
    <2>5. ASSUME NEW f \in files PROVE \E k \in 1 .. Len(L) : h[k] = f
      <3>1. PICK k \in 1 .. Len(L) : Shown(L[k], f)
        BY <1>7, <2>1
      <3>2. h[k] \in files /\ Shown(L[k], h[k])
        BY <2>2
      <3>3. h[k].id = f.id
        BY <3>1, <3>2 DEF Shown
      <3>4. h[k] = f
        BY <1>1, <3>2, <3>3 DEF Distinct
      <3> QED
        BY <3>4
    <2>6. h \in Bijection(1 .. Len(L), files)
      BY <2>3, <2>4, <2>5 DEF Bijection, Injection, Surjection, IsInjective
    <2>7. IsFiniteSet(1 .. Len(L)) /\ Cardinality(1 .. Len(L)) = Len(L)
      BY <2>1, FS_Interval
    <2> QED
      BY <2>6, <2>7, FS_Bijection DEF ExistsBijection
  <1> QED
    BY <1>4, <1>8, <1>9 DEF ListingIsRight

LEMMA DirSoundIs == DirInv => DirSound
  <1> SUFFICES ASSUME DirInv PROVE DirSound
    OBVIOUS
  <1>1. DirTyped /\ Distinct
    BY DEF DirInv, DirBasics
  <1>2. DirTypeOK
    <2>1. PICK q \in Nat : Len(slots) = PerCluster * q
      BY <1>1 DEF DirTyped
    <2>2. Len(slots) % PerCluster = 0
      BY <2>1, DirNumbers, MultipleIs
    <2>3. \A i \in DOMAIN slots : slots[i].k \in {"end", "del", "lfn", "short"}
      <3>1. \A i \in DOMAIN slots : slots[i] \in DirEntries
        BY <1>1 DEF DirTyped
      <3> QED
        BY <3>1, Kinds
    <2> QED
      BY <1>1, <2>2, <2>3 DEF DirTypeOK, DirTyped
  <1>3. ListingIsRight
    <2>1. CASE todo = <<>> /\ count.crash = 0
      BY <2>1, ListedAll
    <2>2. CASE ~(todo = <<>> /\ count.crash = 0)
      BY <2>2 DEF ListingIsRight
    <2> QED
      BY <2>1, <2>2
  <1>4. ShortNamesDiffer
    BY <1>1 DEF ShortNamesDiffer, Distinct
  <1> QED
    BY <1>2, <1>3, <1>4 DEF DirSound

LEMMA OthersSurviveIs == DirInv => OthersSurvive
  <1> DEFINE safe == {f \in files : f.sn \notin AtRisk}
             IsListed(f) == \E v \in Range(fat32_iter_dir) : v.e.id = f.id /\ v.e.dir = f.dir /\ NamedRight(v, f)
  <1> SUFFICES ASSUME DirInv, ~touched, NEW f \in safe
               PROVE  /\ IsListed(f)
                      /\ \E i \in DOMAIN slots :
                           /\ slots[i].k = "short" /\ slots[i].id = f.id
                           /\ slots[i].cluster # 0 =>
                                /\ fat[slots[i].cluster]
                                /\ f.dir => dots[slots[i].cluster] = 2
                                /\ \A g \in safe \ {f} : \A j \in DOMAIN slots :
                                     slots[j].k = "short" /\ slots[j].id = g.id => slots[j].cluster # slots[i].cluster
    BY DEF OthersSurvive
  <1>1. DirBasics /\ NowRight /\ NowClusters /\ Distinct /\ files \subseteq Files /\ (todo = <<>> <=> op = NoOp)
    BY DEF DirInv, DirBasics, DirTyped
  <1>2. \A g \in safe : g \in files /\ ~Exempt(g.sn) /\ g.sn \in SNames
    BY <1>1 DEF Exempt, Files, AtRisk
  <1>7. \A s : Exempt(s) => s \in AtRisk
    BY <1>1 DEF Exempt, AtRisk
  <1> HIDE DEF safe
  <1>3. ASSUME NEW g \in safe
        PROVE  \E i \in DOMAIN slots : /\ IsListed(g)
                                       /\ slots[i].k = "short" /\ slots[i].id = g.id /\ slots[i].cluster = g.cluster
    <2>1. Right(Now, files, g.sn) /\ g \in files
      BY <1>1, <1>2 DEF NowRight
    <2>2. PICK k \in DOMAIN fat32_iter_dir : Shown(fat32_iter_dir[k], g)
      BY <1>1, <2>1, SeenOfFile
    <2>3. PICK v : v = fat32_iter_dir[k]
      OBVIOUS
    <2>4. IsListed(g)
      <3>1. v \in Range(fat32_iter_dir)
        BY <2>3 DEF Range
      <3>2. v.e.id = g.id /\ v.e.dir = g.dir
        BY <2>2, <2>3 DEF Shown
      <3>3. NamedRight(v, g)
        BY <1>7, <2>2, <2>3 DEF Shown, Collides, NamedRight
      <3> QED
        BY <3>1, <3>2, <3>3
    <2>5. v.at \in DOMAIN slots /\ slots[v.at].k = "short" /\ slots[v.at].id = g.id /\ slots[v.at].cluster = g.cluster
      BY <2>2, <2>3 DEF Shown
    <2> QED
      BY <2>4, <2>5
  <1>4. PICK i \in DOMAIN slots : /\ IsListed(f)
                                  /\ slots[i].k = "short" /\ slots[i].id = f.id /\ slots[i].cluster = f.cluster
    BY <1>3
  <1>5. ASSUME f.cluster # 0
        PROVE  /\ fat[f.cluster] /\ (f.dir => dots[f.cluster] = 2)
               /\ \A g \in files : ~Exempt(g.sn) /\ g.cluster = f.cluster => g = f
    BY <1>1, <1>2, <1>5 DEF NowClusters
  <1>6. ASSUME f.cluster # 0, NEW g \in safe \ {f}, NEW j \in DOMAIN slots, slots[j].k = "short", slots[j].id = g.id
        PROVE  slots[j].cluster # f.cluster
    <2>1. PICK m \in DOMAIN slots : slots[m].k = "short" /\ slots[m].id = g.id /\ slots[m].cluster = g.cluster
      BY <1>3, <1>6
    <2>2. j = m
      BY <1>1, <1>6, <2>1, OneEntry
    <2> QED
      BY <1>2, <1>5, <1>6, <2>1, <2>2
  <1> QED
    BY <1>4, <1>5, <1>6

LEMMA DirInvariant == DirSpec => []DirInv
  <1>1. DirInit => DirInv
    BY InitInv
  <1>2. DirInv /\ [DirNext]_dvars => DirInv'
    BY DirInductive
  <1> QED
    BY <1>1, <1>2, PTL DEF DirSpec

\* Whatever the names, the sizes and the crashes: between calls, until power has
\* failed, fat32_iter_dir shows every file under exactly its name, once, and
\* nothing else; and no two entries ever have one short name.
THEOREM DirCorrect == DirSpec => []DirSound
  BY DirInvariant, DirSoundIs, PTL

\* A crash in the middle of fat32_create_entry, fat32_truncate_op, fat32_unlink_op
\* or a first write costs no other file its entry or its cluster, nor its name,
\* unless it has no long name and fat32_lfn_checksum gives its short name the
\* checksum of the file that was cut off.
THEOREM SurviveCorrect == DirSpec => []OthersSurvive
  BY DirInvariant, OthersSurviveIs, PTL
=============================================================================
