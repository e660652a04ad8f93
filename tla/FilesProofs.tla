---------------------------- MODULE FilesProofs ----------------------------
(***************************************************************************)
(* What lies behind a descriptor, for every number of processes,           *)
(* descriptors and entries and every size of the buffers: the reference    *)
(* counts of g_file are exact (FileTable), the screen shows what the       *)
(* readers of the console get (Tty), and files hold what was written to    *)
(* them and what cp copied (FileIo).                                       *)
(***************************************************************************)
EXTENDS FileTable, Tty, FileIo, FiniteSetTheorems, TLAPS

-----------------------------------------------------------------------------
(* Part one: the table of open files *)

\* The inductive invariant of the descriptor tables.
FileInv == FileTypeOK /\ RefsCounted /\ DeadHoldNothing

\* The descriptors of p, as pairs, that refer to f.
HeldPairs(p, f) == {p} \X {fd \in Fds : ofile[<<p, fd>>] = f}

-----------------------------------------------------------------------------
(* Finite sets of descriptors *)

LEMMA FdsFinite == IsFiniteSet(Fds) /\ IsFiniteSet(Desc)
<1>1. IsFiniteSet(Fds)
  BY FileAssumption, FS_Interval DEF Fds
<1> QED
  BY <1>1, FileAssumption, FS_Product DEF Desc

LEMMA RefsFinite ==
  ASSUME NEW f
  PROVE  /\ IsFiniteSet(Refs(f)) /\ Cardinality(Refs(f)) \in Nat
         /\ Cardinality(Refs(f)) = 0 <=> Refs(f) = {}
<1>1. IsFiniteSet(Refs(f))
  BY FdsFinite, FS_Subset DEF Refs
<1> QED
  BY <1>1, FS_CardinalityType, FS_EmptySet

LEMMA HeldFacts ==
  ASSUME NEW p, NEW f
  PROVE  /\ IsFiniteSet(HeldPairs(p, f))
         /\ Cardinality(HeldPairs(p, f)) = Held(p, f)
         /\ Held(p, f) \in Nat
<1> DEFINE D == {fd \in Fds : ofile[<<p, fd>>] = f}
<1>1. IsFiniteSet(D)
  BY FdsFinite, FS_Subset
<1>2. Cardinality(D) \in Nat
  BY <1>1, FS_CardinalityType
<1>3. IsFiniteSet({p}) /\ Cardinality({p}) = 1
  BY FS_Singleton
<1>4. IsFiniteSet({p} \X D) /\ Cardinality({p} \X D) = 1 * Cardinality(D)
  BY <1>1, <1>3, FS_Product
<1> QED
  BY <1>2, <1>4 DEF HeldPairs, Held

\* Storing y at one descriptor moves it between reference sets.
LEMMA RefsAfterSet ==
  ASSUME NEW x \in Desc, NEW y, NEW g, FileTypeOK,
         ofile' = [ofile EXCEPT ![x] = y]
  PROVE  Refs(g)' = IF y = g THEN Refs(g) \cup {x} ELSE Refs(g) \ {x}
  BY DEF Refs, FileTypeOK

-----------------------------------------------------------------------------
LEMMA InitFileInv == FileInit => FileInv
<1> SUFFICES ASSUME FileInit PROVE FileInv
  OBVIOUS
<1> USE FileAssumption
<1>1. FileTypeOK
  BY DEF FileInit, FileTypeOK
<1>2. ASSUME NEW f \in Files PROVE Refs(f) = {}
  BY DEF FileInit, Refs, Files
<1>3. RefsCounted
  BY <1>2, FS_EmptySet DEF FileInit, RefsCounted
<1>4. DeadHoldNothing
  BY DEF FileInit, DeadHoldNothing
<1> QED
  BY <1>1, <1>3, <1>4 DEF FileInv

\* What an action that goes through file_close owes: r is the count of the
\* references that remain.
LEMMA CloseCounts ==
  ASSUME FileTypeOK, NEW r, r \in [Files -> Int], FileClose(r),
         \A f \in Files :
           /\ r[f] = Cardinality(Refs(f)') /\ IsFiniteSet(Refs(f)')
           /\ ~used[f] => Refs(f)' = {}
  PROVE  /\ RefsCounted'
         /\ used' \in [Files -> BOOLEAN] /\ ref' \in [Files -> Nat]
         /\ vn' \in [Files -> Vnodes \cup {NULL}]
<1> SUFFICES ASSUME NEW f \in Files
             PROVE  /\ ref'[f] = Cardinality(Refs(f)') /\ ref'[f] \in Nat
                    /\ used'[f] <=> Refs(f)' # {}
  BY DEF FileClose, RefsCounted, FileTypeOK
<1>1. /\ Cardinality(Refs(f)') = 0 <=> Refs(f)' = {}
      /\ Cardinality(Refs(f)') \in Nat
  BY FS_EmptySet, FS_CardinalityType
<1>2. ref'[f] = r[f] /\ (used'[f] <=> used[f] /\ r[f] # 0)
  BY DEF FileClose, FileTypeOK
<1> QED
  BY <1>1, <1>2

LEMMA OpenStep ==
  ASSUME FileInv, NEW p \in Procs, NEW v \in Vnodes, NEW f \in Files,
         NEW fd \in Fds, Open(p, v, f, fd)
  PROVE  FileInv'
<1> USE FileAssumption
<1>1. PICK x \in Desc : x = <<p, fd>>
  BY DEF Desc
<1>2. /\ p \in live /\ x[1] = p /\ ~used[f] /\ ofile[x] = NULL
      /\ used' = [used EXCEPT ![f] = TRUE] /\ ref' = [ref EXCEPT ![f] = 1]
      /\ vn' = [vn EXCEPT ![f] = v] /\ live' = live
      /\ ofile' = [ofile EXCEPT ![x] = f]
  BY <1>1 DEF Open, FileAlloc, FdAlloc
<1>3. FileTypeOK /\ RefsCounted /\ DeadHoldNothing
  BY DEF FileInv
<1>4. FileTypeOK'
  BY <1>2, <1>3 DEF FileTypeOK
<1>5. Refs(f)' = {x}
  <2>1. Refs(f)' = Refs(f) \cup {x}
    BY <1>2, <1>3, RefsAfterSet
  <2> QED
    BY <1>2, <1>3, <2>1 DEF RefsCounted
<1>6. ASSUME NEW g \in Files, g # f PROVE Refs(g)' = Refs(g)
  <2>1. Refs(g)' = Refs(g) \ {x}
    BY <1>2, <1>3, <1>6, RefsAfterSet
  <2>2. x \notin Refs(g)
    BY <1>2 DEF Refs, Files
  <2> QED
    BY <2>1, <2>2
<1>7. RefsCounted'
  BY <1>2, <1>3, <1>5, <1>6, FS_Singleton DEF RefsCounted, FileTypeOK
<1>8. DeadHoldNothing'
  BY <1>2, <1>3 DEF DeadHoldNothing, FileTypeOK
<1> QED
  BY <1>4, <1>7, <1>8 DEF FileInv

LEMMA CloseStep ==
  ASSUME FileInv, NEW p \in Procs, NEW fd \in Fds, Close(p, fd)
  PROVE  FileInv'
<1> USE FileAssumption
<1>1. PICK x \in Desc : x = <<p, fd>>
  BY DEF Desc
<1>2. PICK f : f = ofile[x]
  OBVIOUS
<1>3. PICK r : r = [ref EXCEPT ![f] = @ - 1]
  OBVIOUS
<1>4. /\ p \in live /\ x[1] = p /\ f # NULL /\ FileClose(r) /\ live' = live
      /\ ofile' = [ofile EXCEPT ![x] = NULL]
  BY <1>1, <1>2, <1>3 DEF Close
<1>5. FileTypeOK /\ RefsCounted /\ DeadHoldNothing
  BY DEF FileInv
<1>6. f \in Files /\ x \in Refs(f) /\ r \in [Files -> Int]
  BY <1>2, <1>3, <1>4, <1>5 DEF FileTypeOK, Refs
<1>7. ASSUME NEW g \in Files PROVE Refs(g)' = Refs(g) \ {x}
  <2>1. NULL # g
    BY DEF Files
  <2> QED
    BY <1>4, <1>5, <2>1, RefsAfterSet
<1>8. ASSUME NEW g \in Files
      PROVE  /\ r[g] = Cardinality(Refs(g)') /\ IsFiniteSet(Refs(g)')
             /\ ~used[g] => Refs(g)' = {}
  <2>1. ref[g] = Cardinality(Refs(g)) /\ (used[g] <=> Refs(g) # {})
    BY <1>5 DEF RefsCounted
  <2>2. /\ IsFiniteSet(Refs(g)')
        /\ Cardinality(Refs(g)') = IF x \in Refs(g) THEN Cardinality(Refs(g)) - 1
                                   ELSE Cardinality(Refs(g))
    BY <1>7, RefsFinite, FS_RemoveElement
  <2>3. x \in Refs(g) <=> g = f
    BY <1>2 DEF Refs
  <2> QED
    BY <1>3, <1>5, <1>7, <2>1, <2>2, <2>3 DEF FileTypeOK
<1>9. /\ RefsCounted' /\ used' \in [Files -> BOOLEAN] /\ ref' \in [Files -> Nat]
      /\ vn' \in [Files -> Vnodes \cup {NULL}]
  BY <1>4, <1>5, <1>6, <1>8, CloseCounts
<1>10. FileTypeOK' /\ DeadHoldNothing'
  BY <1>4, <1>5, <1>9 DEF DeadHoldNothing, FileTypeOK
<1> QED
  BY <1>9, <1>10 DEF FileInv

LEMMA DupStep ==
  ASSUME FileInv, NEW p \in Procs, NEW fd \in Fds, NEW newfd \in Fds,
         Dup(p, fd, newfd)
  PROVE  FileInv'
<1> USE FileAssumption
<1>1. PICK x \in Desc : x = <<p, fd>>
  BY DEF Desc
<1>2. PICK y \in Desc : y = <<p, newfd>>
  BY DEF Desc
<1>3. PICK f : f = ofile[x]
  OBVIOUS
<1>4. /\ p \in live /\ y[1] = p /\ f # NULL /\ ofile[y] = NULL
      /\ ref' = [ref EXCEPT ![f] = @ + 1] /\ ofile' = [ofile EXCEPT ![y] = f]
      /\ UNCHANGED <<live, used, vn>>
  BY <1>1, <1>2, <1>3 DEF Dup, FdAlloc
<1>5. FileTypeOK /\ RefsCounted /\ DeadHoldNothing
  BY DEF FileInv
<1>6. f \in Files /\ x \in Refs(f)
  BY <1>3, <1>4, <1>5 DEF FileTypeOK, Refs
<1>7. ASSUME NEW g \in Files PROVE y \notin Refs(g)
  BY <1>4 DEF Refs, Files
<1>8. RefsCounted'
  <2> SUFFICES ASSUME NEW g \in Files
               PROVE  ref'[g] = Cardinality(Refs(g)') /\ (used'[g] <=> Refs(g)' # {})
    BY DEF RefsCounted
  <2>1. ref[g] = Cardinality(Refs(g)) /\ (used[g] <=> Refs(g) # {})
    BY <1>5 DEF RefsCounted
  <2>2. CASE g = f
    <3>1. Refs(g)' = Refs(g) \cup {y}
      BY <1>4, <1>5, <2>2, RefsAfterSet
    <3>2. Cardinality(Refs(g)') = Cardinality(Refs(g)) + 1
      BY <1>7, <3>1, RefsFinite, FS_AddElement
    <3> QED
      BY <1>4, <1>5, <1>6, <2>1, <2>2, <3>1, <3>2 DEF FileTypeOK
  <2>3. CASE g # f
    <3>1. Refs(g)' = Refs(g) \ {y}
      BY <1>4, <1>5, <2>3, RefsAfterSet
    <3>2. Refs(g)' = Refs(g)
      BY <1>7, <3>1
    <3> QED
      BY <1>4, <1>5, <2>1, <2>3, <3>2 DEF FileTypeOK
  <2> QED
    BY <2>2, <2>3
<1>9. FileTypeOK' /\ DeadHoldNothing'
  BY <1>4, <1>5, <1>6 DEF DeadHoldNothing, FileTypeOK
<1> QED
  BY <1>8, <1>9 DEF FileInv

LEMMA Dup3Step ==
  ASSUME FileInv, NEW p \in Procs, NEW oldfd \in Fds, NEW newfd \in Fds,
         Dup3(p, oldfd, newfd)
  PROVE  FileInv'
<1> USE FileAssumption
<1>1. PICK x \in Desc : x = <<p, oldfd>>
  BY DEF Desc
<1>2. PICK y \in Desc : y = <<p, newfd>>
  BY DEF Desc
<1>3. PICK f : f = ofile[x]
  OBVIOUS
<1>4. PICK h : h = ofile[y]
  OBVIOUS
<1>5. PICK k : k = IF h = NULL THEN ref ELSE [ref EXCEPT ![h] = @ - 1]
  OBVIOUS
<1>6. PICK r : r = [k EXCEPT ![f] = @ + 1]
  OBVIOUS
<1>7. /\ p \in live /\ y[1] = p /\ x # y /\ f # NULL /\ FileClose(r)
      /\ ofile' = [ofile EXCEPT ![y] = f] /\ live' = live
  BY <1>1, <1>2, <1>3, <1>4, <1>5, <1>6 DEF Dup3
<1>8. FileTypeOK /\ RefsCounted /\ DeadHoldNothing
  BY DEF FileInv
<1>9. f \in Files /\ h \in Files \cup {NULL} /\ x \in Refs(f)
  BY <1>3, <1>4, <1>7, <1>8 DEF FileTypeOK, Refs
<1>10. k \in [Files -> Int] /\ r \in [Files -> Int]
  BY <1>5, <1>6, <1>8, <1>9 DEF FileTypeOK
<1>11. ASSUME NEW g \in Files
       PROVE  /\ r[g] = Cardinality(Refs(g)') /\ IsFiniteSet(Refs(g)')
              /\ ~used[g] => Refs(g)' = {}
  <2>1. /\ ref[g] = Cardinality(Refs(g)) /\ (used[g] <=> Refs(g) # {})
        /\ ref[g] \in Nat /\ IsFiniteSet(Refs(g))
    BY <1>8, RefsFinite DEF RefsCounted, FileTypeOK
  <2>2. y \in Refs(g) <=> g = h
    BY <1>4 DEF Refs
  <2>3. CASE g = f
    <3>1. Refs(g)' = Refs(g) \cup {y}
      BY <1>7, <1>8, <2>3, RefsAfterSet
    <3>2. /\ IsFiniteSet(Refs(g)')
          /\ Cardinality(Refs(g)') = IF g = h THEN ref[g] ELSE ref[g] + 1
      BY <2>1, <2>2, <3>1, FS_AddElement
    <3>3. r[g] = IF g = h THEN ref[g] ELSE ref[g] + 1
      BY <1>5, <1>6, <1>8, <1>9, <1>10, <2>1, <2>3 DEF FileTypeOK, Files
    <3> QED
      BY <1>9, <2>1, <2>3, <3>2, <3>3
  <2>4. CASE g # f
    <3>1. Refs(g)' = Refs(g) \ {y}
      BY <1>7, <1>8, <2>4, RefsAfterSet
    <3>2. /\ IsFiniteSet(Refs(g)')
          /\ Cardinality(Refs(g)') = IF g = h THEN ref[g] - 1 ELSE ref[g]
      BY <2>1, <2>2, <3>1, FS_RemoveElement
    <3>3. r[g] = IF g = h THEN ref[g] - 1 ELSE ref[g]
      BY <1>5, <1>6, <1>8, <1>9, <1>10, <2>1, <2>4 DEF FileTypeOK, Files
    <3> QED
      BY <2>1, <3>1, <3>2, <3>3
  <2> QED
    BY <2>3, <2>4
<1>12. /\ RefsCounted' /\ used' \in [Files -> BOOLEAN] /\ ref' \in [Files -> Nat]
       /\ vn' \in [Files -> Vnodes \cup {NULL}]
  BY <1>7, <1>8, <1>10, <1>11, CloseCounts
<1>13. FileTypeOK' /\ DeadHoldNothing'
  BY <1>7, <1>8, <1>9, <1>12 DEF DeadHoldNothing, FileTypeOK
<1> QED
  BY <1>12, <1>13 DEF FileInv

\* Membership in the pairs, without the product.
LEMMA InHeldPairs ==
  ASSUME NEW p, NEW q \in Procs, NEW f, NEW x \in Desc, FileTypeOK
  PROVE  /\ x[1] \in Procs /\ x[2] \in Fds /\ x = <<x[1], x[2]>>
         /\ x \in {q} \X {fd \in Fds : ofile[<<p, fd>>] = f}
              <=> x[1] = q /\ ofile[<<p, x[2]>>] = f
  BY DEF Desc

LEMMA ForkStep ==
  ASSUME FileInv, NEW p \in Procs, NEW c \in Procs, ForkFiles(p, c)
  PROVE  FileInv'
<1> USE FileAssumption
<1>1. /\ p \in live /\ c \notin live /\ live' = live \cup {c}
      /\ ofile' = [x \in Desc |->
                     IF x[1] = c THEN ofile[<<p, x[2]>>] ELSE ofile[x]]
      /\ ref' = [f \in Files |-> ref[f] + Held(p, f)]
      /\ UNCHANGED <<used, vn>>
  BY DEF ForkFiles
<1>2. FileTypeOK /\ RefsCounted /\ DeadHoldNothing
  BY DEF FileInv
<1>3. ASSUME NEW x \in Desc PROVE <<p, x[2]>> \in Desc
  BY DEF Desc
<1>4. FileTypeOK'
  <2>1. ofile' \in [Desc -> Files \cup {NULL}]
    BY <1>1, <1>2, <1>3 DEF FileTypeOK
  <2>2. ref' \in [Files -> Nat]
    BY <1>1, <1>2, HeldFacts DEF FileTypeOK
  <2> QED
    BY <1>1, <1>2, <2>1, <2>2 DEF FileTypeOK
<1>5. ASSUME NEW f \in Files
      PROVE  ref'[f] = Cardinality(Refs(f)') /\ (used'[f] <=> Refs(f)' # {})
  <2> DEFINE D == {fd \in Fds : ofile[<<p, fd>>] = f}
             New == {c} \X D
  <2>1. Refs(f)' = Refs(f) \cup New
    <3>1. Refs(f)' \subseteq Desc /\ Refs(f) \cup New \subseteq Desc
      BY DEF Refs, Desc
    <3>2. ASSUME NEW x \in Desc PROVE x \in Refs(f)' <=> x \in Refs(f) \cup New
      <4>1. x \in New <=> x[1] = c /\ ofile[<<p, x[2]>>] = f
        BY <1>2, InHeldPairs
      <4>2. x[1] = c => ofile[x] # f
        BY <1>1, <1>2 DEF DeadHoldNothing, Files
      <4> QED
        BY <1>1, <4>1, <4>2 DEF Refs
    <3> QED
      BY <3>1, <3>2
  <2>2. Refs(f) \cap New = {}
    <3>1. ASSUME NEW x \in Refs(f), x \in New PROVE FALSE
      BY <1>1, <1>2, <3>1 DEF DeadHoldNothing, Refs, Files
    <3> QED
      BY <3>1
  <2>3. IsFiniteSet(D) /\ Cardinality(D) = Held(p, f) /\ Held(p, f) \in Nat
    <3>1. IsFiniteSet(D)
      BY FdsFinite, FS_Subset
    <3>2. Cardinality(D) = Held(p, f)
      BY DEF Held
    <3>3. Held(p, f) \in Nat
      BY HeldFacts
    <3> QED
      BY <3>1, <3>2, <3>3
  <2>4. IsFiniteSet(New) /\ Cardinality(New) = Held(p, f)
    <3>1. IsFiniteSet({c}) /\ Cardinality({c}) = 1
      BY FS_Singleton
    <3>2. IsFiniteSet({c} \X D) /\ Cardinality({c} \X D) = 1 * Cardinality(D)
      BY <2>3, <3>1, FS_Product
    <3> QED
      BY <2>3, <3>2
  <2>5. Cardinality(Refs(f)') = Cardinality(Refs(f)) + Held(p, f)
    <3> HIDE DEF New
    <3>1. IsFiniteSet(Refs(f)) /\ Cardinality(Refs(f)) \in Nat
      BY RefsFinite
    <3>2. Cardinality(Refs(f) \cup New)
            = Cardinality(Refs(f)) + Cardinality(New) - Cardinality(Refs(f) \cap New)
      BY <2>4, <3>1, FS_Union
    <3>3. Cardinality(Refs(f) \cap New) = 0
      BY <2>2, FS_EmptySet
    <3> QED
      BY <2>1, <2>3, <2>4, <3>1, <3>2, <3>3
  <2>6. New # {} => Refs(f) # {}
    BY <1>2 DEF Refs, Desc
  <2> QED
    BY <1>1, <1>2, <2>1, <2>5, <2>6 DEF RefsCounted
<1>6. DeadHoldNothing'
  BY <1>1, <1>2 DEF DeadHoldNothing
<1> QED
  BY <1>4, <1>5, <1>6 DEF FileInv, RefsCounted

LEMMA ExitStep ==
  ASSUME FileInv, NEW p \in Procs, ExitFiles(p)
  PROVE  FileInv'
<1> USE FileAssumption
<1>1. PICK r : r = [f \in Files |-> ref[f] - Held(p, f)]
  OBVIOUS
<1>2. /\ FileClose(r) /\ live' = live \ {p}
      /\ ofile' = [x \in Desc |-> IF x[1] = p THEN NULL ELSE ofile[x]]
  BY <1>1 DEF ExitFiles
<1>3. FileTypeOK /\ RefsCounted /\ DeadHoldNothing
  BY DEF FileInv
<1>4. r \in [Files -> Int]
  BY <1>1, <1>3, HeldFacts DEF FileTypeOK
<1>5. ASSUME NEW f \in Files
      PROVE  /\ r[f] = Cardinality(Refs(f)') /\ IsFiniteSet(Refs(f)')
             /\ ~used[f] => Refs(f)' = {}
  <2>1. /\ ref[f] = Cardinality(Refs(f)) /\ (used[f] <=> Refs(f) # {})
    BY <1>3 DEF RefsCounted
  <2>2. Refs(f)' = Refs(f) \ HeldPairs(p, f)
    <3>1. ASSUME NEW x \in Desc
          PROVE  x \in Refs(f)' <=> x \in Refs(f) \ HeldPairs(p, f)
      <4>1. /\ x = <<x[1], x[2]>>
            /\ x \in HeldPairs(p, f) <=> x[1] = p /\ ofile[<<p, x[2]>>] = f
        <5>1. x = <<x[1], x[2]>> /\ x[2] \in Fds
          BY DEF Desc
        <5>2. x \in HeldPairs(p, f) => x[1] = p /\ ofile[<<p, x[2]>>] = f
          BY DEF HeldPairs
        <5>3. x[1] = p /\ ofile[<<p, x[2]>>] = f => x \in HeldPairs(p, f)
          BY <5>1 DEF HeldPairs
        <5> QED
          BY <5>1, <5>2, <5>3
      <4> QED
        BY <1>2, <4>1 DEF Refs, Files
    <3>2. Refs(f)' \subseteq Desc /\ Refs(f) \subseteq Desc
      BY DEF Refs
    <3> QED
      BY <3>1, <3>2
  <2>3. HeldPairs(p, f) \subseteq Refs(f)
    BY DEF HeldPairs, Refs, Desc
  <2>4. Refs(f) \cap HeldPairs(p, f) = HeldPairs(p, f)
    BY <2>3
  <2>5. /\ IsFiniteSet(Refs(f)')
        /\ Cardinality(Refs(f)') = Cardinality(Refs(f)) - Held(p, f)
    <3>1. IsFiniteSet(Refs(f))
      BY RefsFinite
    <3>2. /\ IsFiniteSet(Refs(f) \ HeldPairs(p, f))
          /\ Cardinality(Refs(f) \ HeldPairs(p, f))
               = Cardinality(Refs(f)) - Cardinality(Refs(f) \cap HeldPairs(p, f))
      BY <3>1, HeldFacts, FS_Difference
    <3>3. Cardinality(HeldPairs(p, f)) = Held(p, f)
      BY HeldFacts
    <3> QED
      BY <2>2, <2>4, <3>2, <3>3
  <2> QED
    BY <1>1, <2>1, <2>2, <2>5
<1>6. /\ RefsCounted' /\ used' \in [Files -> BOOLEAN] /\ ref' \in [Files -> Nat]
      /\ vn' \in [Files -> Vnodes \cup {NULL}]
  BY <1>2, <1>3, <1>4, <1>5, CloseCounts
<1>7. FileTypeOK' /\ DeadHoldNothing'
  BY <1>2, <1>3, <1>6 DEF DeadHoldNothing, FileTypeOK
<1> QED
  BY <1>6, <1>7 DEF FileInv
-----------------------------------------------------------------------------
LEMMA FileInvStep ==
  FileInv /\ [FileNext]_fvars => FileInv'
<1> SUFFICES ASSUME FileInv, [FileNext]_fvars PROVE FileInv'
  OBVIOUS
<1>1. CASE FileNext
  <2>1. PICK p \in Procs :
          \/ \E v \in Vnodes, f \in Files, fd \in Fds : Open(p, v, f, fd)
          \/ \E fd \in Fds : Close(p, fd)
          \/ \E fd, newfd \in Fds : Dup(p, fd, newfd) \/ Dup3(p, fd, newfd)
          \/ \E c \in Procs : ForkFiles(p, c)
          \/ ExitFiles(p)
    BY <1>1 DEF FileNext
  <2>2. CASE \E v \in Vnodes, f \in Files, fd \in Fds : Open(p, v, f, fd)
    BY <2>2, OpenStep
  <2>3. CASE \E fd \in Fds : Close(p, fd)
    BY <2>3, CloseStep
  <2>4. CASE \E fd, newfd \in Fds : Dup(p, fd, newfd) \/ Dup3(p, fd, newfd)
    BY <2>4, DupStep, Dup3Step
  <2>5. CASE \E c \in Procs : ForkFiles(p, c)
    BY <2>5, ForkStep
  <2>6. CASE ExitFiles(p)
    BY <2>6, ExitStep
  <2> QED
    BY <2>1, <2>2, <2>3, <2>4, <2>5, <2>6
<1>2. CASE UNCHANGED fvars
  <2>1. UNCHANGED <<live, ofile, used, ref, vn>>
    BY <1>2 DEF fvars
  <2>2. ASSUME NEW f \in Files PROVE Refs(f)' = Refs(f)
    BY <2>1 DEF Refs
  <2>3. FileTypeOK' /\ DeadHoldNothing'
    BY <2>1 DEF FileInv, FileTypeOK, DeadHoldNothing
  <2>4. RefsCounted'
    BY <2>1, <2>2 DEF FileInv, RefsCounted
  <2> QED
    BY <2>3, <2>4 DEF FileInv
<1> QED
  BY <1>1, <1>2

\* An entry in use has a vnode.
UsedHasVnode == \A f \in Files : used[f] => vn[f] # NULL

\* What the actions do to an entry that is in use before and after: nothing,
\* or it is claimed by an openat that found it free.
LEMMA UsedStep ==
  ASSUME FileInv, UsedHasVnode, [FileNext]_fvars
  PROVE  /\ UsedHasVnode'
         /\ \A f \in Files : used[f] /\ used'[f] => vn'[f] = vn[f]
<1> USE FileAssumption
<1>1. FileTypeOK
  BY DEF FileInv
<1>2. ASSUME NEW r, FileClose(r)
      PROVE  /\ UsedHasVnode'
             /\ \A f \in Files : used[f] /\ used'[f] => vn'[f] = vn[f]
  BY <1>1, <1>2 DEF FileClose, UsedHasVnode, FileTypeOK
<1>3. ASSUME NEW p \in Procs, NEW v \in Vnodes, NEW f \in Files,
             NEW fd \in Fds, Open(p, v, f, fd)
      PROVE  /\ UsedHasVnode'
             /\ \A g \in Files : used[g] /\ used'[g] => vn'[g] = vn[g]
  BY <1>1, <1>3 DEF Open, FileAlloc, UsedHasVnode, FileTypeOK
<1>4. CASE UNCHANGED <<used, vn>>
  BY <1>4 DEF UsedHasVnode
<1>5. ASSUME NEW p \in Procs, NEW fd \in Fds, Close(p, fd)
      PROVE  \E r : FileClose(r)
  BY <1>5 DEF Close
<1>6. ASSUME NEW p \in Procs, NEW fd \in Fds, NEW newfd \in Fds,
             Dup3(p, fd, newfd)
      PROVE  \E r : FileClose(r)
  BY <1>6 DEF Dup3
<1>7. ASSUME NEW p \in Procs, ExitFiles(p) PROVE \E r : FileClose(r)
  BY <1>7 DEF ExitFiles
<1>8. ASSUME NEW p \in Procs, NEW fd \in Fds, NEW newfd \in Fds,
             Dup(p, fd, newfd)
      PROVE  UNCHANGED <<used, vn>>
  BY <1>8 DEF Dup
<1>9. ASSUME NEW p \in Procs, NEW c \in Procs, ForkFiles(p, c)
      PROVE  UNCHANGED <<used, vn>>
  BY <1>9 DEF ForkFiles
<1>10. CASE UNCHANGED fvars
  BY <1>4, <1>10 DEF fvars
<1> QED
  BY <1>2, <1>3, <1>4, <1>5, <1>6, <1>7, <1>8, <1>9, <1>10 DEF FileNext

LEMMA InitUsedHasVnode == FileInit => UsedHasVnode
  BY DEF FileInit, UsedHasVnode

\* Both invariants hold of every reachable state of the descriptor tables.
LEMMA FileInvAlways == FileSpec => [](FileInv /\ UsedHasVnode)
<1>1. FileInit => FileInv /\ UsedHasVnode
  BY InitFileInv, InitUsedHasVnode
<1>2. FileInv /\ UsedHasVnode /\ [FileNext]_fvars => (FileInv /\ UsedHasVnode)'
  BY FileInvStep, UsedStep
<1> QED
  BY <1>1, <1>2, PTL DEF FileSpec

-----------------------------------------------------------------------------
\* The descriptor tables and g_file keep their types: in particular no count
\* goes below 0 in file_close.
THEOREM FileTypeCorrect == FileSpec => []FileTypeOK
<1>1. FileInv => FileTypeOK
  BY DEF FileInv
<1> QED
  BY FileInvAlways, <1>1, PTL

\* Every entry's count is the number of descriptors that refer to it, and the
\* entry is in use exactly while there is one.
THEOREM RefsCorrect == FileSpec => []RefsCounted
<1>1. FileInv => RefsCounted
  BY DEF FileInv
<1> QED
  BY FileInvAlways, <1>1, PTL

\* A process that has exited holds no entry of g_file.
THEOREM DeadCorrect == FileSpec => []DeadHoldNothing
<1>1. FileInv => DeadHoldNothing
  BY DEF FileInv
<1> QED
  BY FileInvAlways, <1>1, PTL

\* g_file and the descriptors agree, for every number of processes, descriptors
\* and entries.
THEOREM TableCorrect == FileSpec => []TableSound
<1>1. FileInv => TableSound
  BY DEF FileInv, TableSound
<1> QED
  BY FileInvAlways, <1>1, PTL

\* A descriptor that a step does not replace keeps its vnode.
THEOREM StableCorrect == FileSpec => DescriptorStable
<1> DEFINE Keeps == \A x \in Desc :
                      ofile[x] # NULL /\ ofile'[x] = ofile[x] =>
                        vn'[ofile[x]] = vn[ofile[x]] /\ vn[ofile[x]] # NULL
<1>1. FileInv /\ UsedHasVnode /\ [FileNext]_fvars => Keeps
  <2> SUFFICES ASSUME FileInv, UsedHasVnode, [FileNext]_fvars,
                      NEW x \in Desc, ofile[x] # NULL, ofile'[x] = ofile[x]
               PROVE  vn'[ofile[x]] = vn[ofile[x]] /\ vn[ofile[x]] # NULL
    OBVIOUS
  <2>1. PICK f : f = ofile[x]
    OBVIOUS
  <2>2. FileInv'
    BY FileInvStep
  <2>3. f \in Files /\ x \in Refs(f) /\ x \in Refs(f)'
    BY <2>1 DEF FileInv, FileTypeOK, Refs
  <2>4. used[f] /\ used'[f]
    BY <2>2, <2>3 DEF FileInv, RefsCounted
  <2>5. vn'[f] = vn[f] /\ vn[f] # NULL
    BY <2>3, <2>4, UsedStep DEF UsedHasVnode
  <2> QED
    BY <2>1, <2>5
<1> QED
  BY <1>1, FileInvAlways, PTL DEF FileSpec, DescriptorStable

-----------------------------------------------------------------------------
(* Part two: the console.                                                  *)
(*                                                                         *)
(* What is not output is counted: the k-th such byte on the screen is the  *)
(* k-th of the input.  A key adds one to both and an erase key takes one   *)
(* from both, since the line being edited is the end of the screen.        *)

(* What the screen shows *)

Bytes == Chars \cup {"w"}

LEMMA KeyedIs ==
  ASSUME NEW s \in Seq(Bytes), NEW n \in Nat, n <= Len(s)
  PROVE  /\ Keyed(s, n) \in Nat
         /\ n = 0 => Keyed(s, n) = 0
         /\ n > 0 => Keyed(s, n) = Keyed(s, n - 1) + (IF s[n] # "w" THEN 1 ELSE 0)
  <1> DEFINE K(m) == {i \in 1 .. m : s[i] # "w"}
  <1>1. \A m \in Nat : IsFiniteSet(K(m)) /\ Cardinality(K(m)) \in Nat
    <2> SUFFICES ASSUME NEW m \in Nat PROVE IsFiniteSet(K(m)) /\ Cardinality(K(m)) \in Nat
      OBVIOUS
    <2>1. IsFiniteSet(1 .. m) /\ K(m) \subseteq 1 .. m
      BY FS_Interval
    <2> QED
      BY <2>1, FS_Subset, FS_CardinalityType
  <1>2. ASSUME n = 0 PROVE Keyed(s, n) = 0
    <2>1. K(n) = {}
      BY <1>2
    <2> QED
      BY <2>1, FS_EmptySet DEF Keyed
  <1>3. ASSUME n > 0 PROVE Keyed(s, n) = Keyed(s, n - 1) + (IF s[n] # "w" THEN 1 ELSE 0)
    <2>1. n - 1 \in Nat /\ \A i : i \in 1 .. n <=> i \in 1 .. n - 1 \/ i = n
      BY <1>3
    <2>2. K(n) = IF s[n] # "w" THEN K(n - 1) \cup {n} ELSE K(n - 1)
      BY <2>1
    <2>3. n \notin K(n - 1)
      BY <2>1
    <2> HIDE DEF K
    <2>4. Cardinality(K(n - 1) \cup {n}) = Cardinality(K(n - 1)) + 1
      BY <1>1, <2>1, <2>3, FS_AddElement
    <2>5. Cardinality(K(n)) = Cardinality(K(n - 1)) + (IF s[n] # "w" THEN 1 ELSE 0)
      <3>1. CASE s[n] # "w"
        BY <2>2, <2>4, <3>1
      <3>2. CASE s[n] = "w"
        <4>1. K(n) = K(n - 1)
          BY <2>2, <3>2
        <4> QED
          BY <1>1, <2>1, <3>2, <4>1
      <3> QED
        BY <3>1, <3>2
    <2> QED
      BY <2>5 DEF Keyed, K
  <1> QED
    BY <1>1, <1>2, <1>3 DEF Keyed

\* Only the first n bytes count.
LEMMA KeyedSame ==
  ASSUME NEW s, NEW t, NEW n \in Nat, \A i \in 1 .. n : s[i] = t[i]
  PROVE  Keyed(s, n) = Keyed(t, n)
  <1>1. {i \in 1 .. n : s[i] # "w"} = {i \in 1 .. n : t[i] # "w"}
    OBVIOUS
  <1> QED
    BY <1>1 DEF Keyed

\* A byte that is not output has its place among those up to a later one.
LEMMA KeyedAt ==
  ASSUME NEW s \in Seq(Bytes), NEW n \in Nat, n <= Len(s), NEW i \in 1 .. n, s[i] # "w"
  PROVE  Keyed(s, i) \in 1 .. Keyed(s, n)
  <1> DEFINE K(m) == {j \in 1 .. m : s[j] # "w"}
  <1>1. IsFiniteSet(K(n)) /\ K(i) \subseteq K(n) /\ i \in K(i)
    <2>1. IsFiniteSet(1 .. n) /\ K(n) \subseteq 1 .. n
      BY FS_Interval
    <2> QED
      BY <2>1, FS_Subset
  <1>2. Cardinality(K(i)) <= Cardinality(K(n)) /\ IsFiniteSet(K(i))
    BY <1>1, FS_Subset
  <1>3. Cardinality(K(i)) # 0 /\ Cardinality(K(i)) \in Nat /\ Cardinality(K(n)) \in Nat
    BY <1>1, <1>2, FS_EmptySet, FS_CardinalityType
  <1> QED
    BY <1>2, <1>3 DEF Keyed

LEMMA AppendIs ==
  ASSUME NEW S, NEW s \in Seq(S), NEW c \in S
  PROVE  /\ Append(s, c) \in Seq(S) /\ Len(Append(s, c)) = Len(s) + 1 /\ Len(s) \in Nat
         /\ Append(s, c)[Len(s) + 1] = c
         /\ \A i \in 1 .. Len(s) : Append(s, c)[i] = s[i]
  OBVIOUS

LEMMA Prefix ==
  ASSUME NEW S, NEW s \in Seq(S), NEW n \in Nat, n <= Len(s)
  PROVE  /\ SubSeq(s, 1, n) \in Seq(S) /\ Len(SubSeq(s, 1, n)) = n
         /\ \A i \in 1 .. n : SubSeq(s, 1, n)[i] = s[i]
  OBVIOUS

LEMMA FrontIs ==
  ASSUME NEW S, NEW s \in Seq(S), s # <<>>
  PROVE  /\ Front(s) \in Seq(S) /\ Len(Front(s)) = Len(s) - 1 /\ Len(s) - 1 \in Nat
         /\ \A i \in 1 .. Len(s) - 1 : Front(s)[i] = s[i]
  <1>1. Len(s) \in Nat /\ Len(s) # 0
    OBVIOUS
  <1>2. Len(s) - 1 \in Nat /\ Len(s) - 1 <= Len(s)
    BY <1>1
  <1> QED
    BY <1>2, Prefix DEF Front

LEMMA FrontOfConcat ==
  ASSUME NEW S, NEW s \in Seq(S), NEW t \in Seq(S), t # <<>>
  PROVE  Front(s \o t) = s \o Front(t)
  <1> DEFINE n == Len(t) - 1
  <1>1. n \in Nat /\ n <= Len(t) /\ Len(s \o t) - 1 = Len(s) + n /\ Len(s) \in Nat
    <2>1. Len(t) \in Nat \ {0} /\ Len(s) \in Nat /\ Len(s \o t) = Len(s) + Len(t)
      OBVIOUS
    <2> QED
      BY <2>1
  <1> HIDE DEF n
  <1>2. SubSeq(s \o t, 1, Len(s) + n) = s \o SubSeq(t, 1, n)
    BY <1>1
  <1> QED
    BY <1>1, <1>2 DEF Front, n

LEMMA AppendToConcat ==
  ASSUME NEW S, NEW s \in Seq(S), NEW t \in Seq(S), NEW c \in S
  PROVE  s \o t \in Seq(S) /\ Append(s \o t, c) = s \o Append(t, c)
  OBVIOUS

\* Output.
LEMMA ShowsOutput ==
  ASSUME NEW s \in Seq(Bytes), NEW in \in Seq(Chars), Shows(s, in)
  PROVE  Shows(Append(s, "w"), in)
  <1> DEFINE t == Append(s, "w")
  <1>1. /\ t \in Seq(Bytes) /\ Len(t) = Len(s) + 1 /\ t[Len(s) + 1] = "w" /\ Len(s) \in Nat
        /\ \A i \in 1 .. Len(s) : t[i] = s[i]
    BY AppendIs DEF Bytes
  <1> HIDE DEF t
  <1>2. \A i \in 0 .. Len(s) : Keyed(t, i) = Keyed(s, i)
    BY <1>1, KeyedSame
  <1>3. Keyed(t, Len(t)) = Keyed(s, Len(s))
    <2>1. Keyed(t, Len(t)) = Keyed(t, Len(t) - 1) + (IF t[Len(t)] # "w" THEN 1 ELSE 0)
      BY <1>1, KeyedIs
    <2>2. Keyed(s, Len(s)) \in Nat
      BY <1>1, KeyedIs
    <2> QED
      BY <1>1, <1>2, <2>1, <2>2
  <1>4. ASSUME NEW i \in 1 .. Len(t), t[i] # "w" PROVE t[i] = in[Keyed(t, i)]
    <2>1. i \in 1 .. Len(s)
      BY <1>1, <1>4
    <2> QED
      BY <1>1, <1>2, <1>4, <2>1 DEF Shows
  <1> QED
    BY <1>3, <1>4 DEF Shows, t

\* A key and its echo.
LEMMA ShowsKey ==
  ASSUME NEW s \in Seq(Bytes), NEW in \in Seq(Chars), Shows(s, in), NEW c \in Chars
  PROVE  Shows(Append(s, c), Append(in, c))
  <1> DEFINE t == Append(s, c)
             u == Append(in, c)
  <1>0. c # "w" /\ c \in Bytes
    BY DEF Chars, Bytes
  <1>1. /\ t \in Seq(Bytes) /\ Len(t) = Len(s) + 1 /\ t[Len(s) + 1] = c /\ Len(s) \in Nat
        /\ \A i \in 1 .. Len(s) : t[i] = s[i]
    BY <1>0, AppendIs
  <1>2. /\ Len(u) = Len(in) + 1 /\ u[Len(in) + 1] = c /\ Len(in) \in Nat
        /\ \A i \in 1 .. Len(in) : u[i] = in[i]
    BY AppendIs
  <1> HIDE DEF t, u
  <1>3. \A i \in 0 .. Len(s) : Keyed(t, i) = Keyed(s, i)
    BY <1>1, KeyedSame
  <1>4. Keyed(t, Len(t)) = Len(u)
    <2>1. Keyed(t, Len(t)) = Keyed(t, Len(t) - 1) + (IF t[Len(t)] # "w" THEN 1 ELSE 0)
      BY <1>1, KeyedIs
    <2>2. Keyed(s, Len(s)) = Len(in)
      BY DEF Shows
    <2> QED
      BY <1>0, <1>1, <1>2, <1>3, <2>1, <2>2
  <1>5. ASSUME NEW i \in 1 .. Len(t), t[i] # "w" PROVE t[i] = u[Keyed(t, i)]
    <2>1. CASE i = Len(t)
      BY <1>1, <1>2, <1>4, <2>1
    <2>2. CASE i # Len(t)
      <3>1. i \in 1 .. Len(s) /\ i \in 0 .. Len(s)
        BY <1>1, <2>2
      <3>2. s[i] # "w" /\ s[i] = in[Keyed(s, i)] /\ Keyed(s, Len(s)) = Len(in)
        BY <1>1, <1>5, <3>1 DEF Shows
      <3>3. Keyed(s, i) \in 1 .. Len(in)
        BY <1>1, <3>1, <3>2, KeyedAt
      <3> QED
        BY <1>1, <1>2, <1>3, <3>1, <3>2, <3>3
    <2> QED
      BY <2>1, <2>2
  <1> QED
    BY <1>4, <1>5 DEF Shows, t, u

\* An erase key, when the last byte shown is not output.
LEMMA ShowsErase ==
  ASSUME NEW s \in Seq(Bytes), NEW in \in Seq(Chars), Shows(s, in), s # <<>>, s[Len(s)] # "w"
  PROVE  in # <<>> /\ Shows(Front(s), Front(in))
  <1> DEFINE t == Front(s)
             u == Front(in)
  <1>1. /\ t \in Seq(Bytes) /\ Len(t) = Len(s) - 1 /\ Len(t) \in Nat
        /\ \A i \in 1 .. Len(t) : t[i] = s[i]
    BY FrontIs
  <1>2. Len(s) \in Nat /\ Len(s) > 0 /\ Keyed(s, Len(s)) = Len(in)
    BY <1>1 DEF Shows
  <1>3. Keyed(s, Len(s)) = Keyed(s, Len(t)) + 1 /\ Keyed(s, Len(t)) \in Nat
    <2> HIDE DEF t
    <2>1. Keyed(s, Len(s)) = Keyed(s, Len(s) - 1) + 1
      BY <1>2, KeyedIs
    <2>2. Keyed(s, Len(t)) \in Nat
      BY <1>1, <1>2, KeyedIs
    <2> QED
      BY <1>1, <2>1, <2>2
  <1>4. in # <<>>
    <2>1. Len(in) # 0
      BY <1>2, <1>3
    <2> QED
      BY <2>1
  <1>5. Len(u) = Len(in) - 1 /\ \A i \in 1 .. Len(u) : u[i] = in[i]
    BY <1>4, FrontIs
  <1> HIDE DEF t, u
  <1>6. \A i \in 0 .. Len(t) : Keyed(t, i) = Keyed(s, i)
    BY <1>1, KeyedSame
  <1>7. Keyed(t, Len(t)) = Len(u)
    <2>1. Keyed(t, Len(t)) = Keyed(s, Len(t))
      BY <1>1, <1>6
    <2>2. Len(in) = Keyed(s, Len(t)) + 1
      BY <1>2, <1>3
    <2>3. Len(u) = Len(in) - 1
      BY <1>5
    <2> QED
      BY <1>3, <2>1, <2>2, <2>3
  <1>8. ASSUME NEW i \in 1 .. Len(t), t[i] # "w" PROVE t[i] = u[Keyed(t, i)]
    <2>1. i \in 1 .. Len(s) /\ i \in 0 .. Len(t)
      BY <1>1
    <2>2. s[i] # "w" /\ s[i] = in[Keyed(s, i)]
      BY <1>1, <1>8, <2>1 DEF Shows
    <2>3. Keyed(t, i) \in 1 .. Keyed(t, Len(t))
      <3>1. Len(t) <= Len(t)
        BY <1>1
      <3> QED
        BY <1>1, <1>8, <3>1, KeyedAt
    <2> QED
      BY <1>1, <1>5, <1>6, <1>7, <1>8, <2>1, <2>2, <2>3
  <1> QED
    BY <1>4, <1>7, <1>8 DEF Shows, t, u

-----------------------------------------------------------------------------
(* The inductive invariant *)

\* What the read in progress has echoed is the end of the screen.
Edited == want # Idle /\ Echo =>
            /\ Len(tmp) <= Len(screen)
            /\ \A i \in 1 .. Len(tmp) : screen[Len(screen) - Len(tmp) + i] = tmp[i]

TtyInv == /\ TtyTypeOK /\ ScreenIsInput /\ Edited
          /\ want = Idle => tmp = <<>>

LEMMA TtyStarts == TtyInit => TtyInv
  <1> SUFFICES ASSUME TtyInit PROVE TtyInv
    OBVIOUS
  <1>1. TtyTypeOK
    <2>1. \A S : <<>> \in Seq(S)
      OBVIOUS
    <2>2. Len(<<>>) = 0 /\ 0 <= Fifo /\ 0 <= TmpSize /\ 0 \in 0 .. MaxTyped
      BY TtyAssumption
    <2> QED
      BY <2>1, <2>2 DEF TtyInit, TtyTypeOK
  <1>2. ScreenIsInput
    <2>1. <<>> \in Seq(Bytes) /\ Len(<<>>) = 0 /\ <<>> \o <<>> = <<>>
      OBVIOUS
    <2>2. Keyed(<<>>, 0) = 0
      <3>1. 0 \in Nat /\ 0 <= Len(<<>>)
        BY <2>1
      <3> QED
        BY <2>1, <3>1, KeyedIs
    <2>3. Shows(<<>>, <<>>)
      BY <2>1, <2>2 DEF Shows
    <2> QED
      BY <2>1, <2>3 DEF TtyInit, ScreenIsInput
  <1> QED
    BY <1>1, <1>2 DEF TtyInit, TtyInv, Edited

LEMMA NextKey ==
  ASSUME rx \in Seq(Keys), rx # <<>>
  PROVE  /\ Tail(rx) \in Seq(Keys) /\ Len(Tail(rx)) <= Len(rx)
         /\ Char(Head(rx)) \in Chars
  BY DEF Char, Keys, Chars

\* The steps that leave what was read and what is shown alone.
LEMMA QuietSteps ==
  ASSUME TtyInv, (\E k \in Keys : Type(k)) \/ (\E flags \in SUBSET {"ICANON", "ECHO"} : sys_ioctl(flags))
                 \/ (\E len \in Lens : sys_read(len)) \/ UNCHANGED ttyvars
  PROVE  TtyInv'
  <1>1. ASSUME NEW k \in Keys, Type(k) PROVE TtyInv'
    <2>1. rx' \in Seq(Keys) /\ Len(rx') <= Fifo
      BY <1>1, TtyAssumption DEF TtyInv, TtyTypeOK, Type
    <2>2. typed' \in 0 .. MaxTyped
      BY <1>1, TtyAssumption DEF TtyInv, TtyTypeOK, Type
    <2> QED
      BY <1>1, <2>1, <2>2 DEF TtyInv, TtyTypeOK, Type, ScreenIsInput, Edited, Echo
  <1>2. ASSUME NEW flags \in SUBSET {"ICANON", "ECHO"}, sys_ioctl(flags) PROVE TtyInv'
    BY <1>2 DEF TtyInv, TtyTypeOK, sys_ioctl, ScreenIsInput, Edited, Echo
  <1>3. ASSUME NEW len \in Lens, sys_read(len) PROVE TtyInv'
    <2>1. tmp = <<>> /\ tmp' = tmp /\ Len(tmp') = 0 /\ UNCHANGED <<lflag, rx, screen, got, typed, apart>>
      BY <1>3 DEF sys_read, TtyInv
    <2>2. TtyTypeOK'
      BY <1>3, <2>1 DEF TtyInv, TtyTypeOK, sys_read
    <2>3. Edited'
      <3>1. Len(screen) \in Nat
        BY DEF TtyInv, TtyTypeOK
      <3> QED
        BY <2>1, <3>1 DEF Edited
    <2> QED
      BY <2>1, <2>2, <2>3 DEF TtyInv, ScreenIsInput
  <1>4. CASE UNCHANGED ttyvars
    BY <1>4 DEF ttyvars, TtyInv, TtyTypeOK, ScreenIsInput, Edited, Echo
  <1> QED
    BY <1>1, <1>2, <1>3, <1>4

LEMMA WriteStep == TtyInv /\ sys_write => TtyInv'
  <1> SUFFICES ASSUME TtyInv, sys_write PROVE TtyInv'
    OBVIOUS
  <1>1. /\ want = Idle /\ screen' = Append(screen, "w")
        /\ UNCHANGED <<lflag, rx, want, tmp, got, typed, apart>>
    BY DEF sys_write
  <1>2. screen \in Seq(Bytes) /\ tmp \in Seq(Chars) /\ got \in Seq(Chars)
    BY DEF TtyInv, TtyTypeOK, Bytes
  <1>3. screen' \in Seq(Bytes)
    BY <1>1, <1>2, AppendIs DEF Bytes
  <1>4. TtyTypeOK'
    BY <1>1, <1>3 DEF TtyInv, TtyTypeOK, Bytes
  <1>5. ScreenIsInput'
    <2>1. got \o tmp \in Seq(Chars)
      BY <1>2
    <2> QED
      BY <1>1, <1>2, <2>1, ShowsOutput DEF TtyInv, ScreenIsInput
  <1> QED
    BY <1>1, <1>4, <1>5 DEF TtyInv, Edited

\* A key that the read takes, with or without its echo.
LEMMA TakeKey ==
  ASSUME TtyInv, want # Idle, NEW c \in Chars, Len(tmp) < TmpSize,
         rx' \in Seq(Keys), Len(rx') <= Fifo,
         tmp' = Append(tmp, c), screen' = IF Echo THEN Append(screen, c) ELSE screen,
         apart' = (apart \/ ~Echo), UNCHANGED <<lflag, want, got, typed>>
  PROVE  TtyInv'
  <1>1. /\ screen \in Seq(Bytes) /\ tmp \in Seq(Chars) /\ got \in Seq(Chars)
        /\ c \in Bytes /\ apart \in BOOLEAN
    BY DEF TtyInv, TtyTypeOK, Bytes
  <1>2. /\ tmp' \in Seq(Chars) /\ Len(tmp') = Len(tmp) + 1 /\ Len(tmp) \in Nat
        /\ tmp'[Len(tmp) + 1] = c /\ \A i \in 1 .. Len(tmp) : tmp'[i] = tmp[i]
    BY <1>1, AppendIs
  <1>3. screen' \in Seq(Bytes)
    BY <1>1, AppendIs
  <1>4. TtyTypeOK'
    <2>1. Len(tmp') <= TmpSize
      BY <1>2, TtyAssumption
    <2>2. apart' \in BOOLEAN
      OBVIOUS
    <2> QED
      BY <1>2, <1>3, <2>1, <2>2 DEF TtyInv, TtyTypeOK, Bytes
  <1>5. ScreenIsInput'
    <2> SUFFICES ASSUME ~apart' PROVE Shows(screen', got \o tmp')
      BY DEF ScreenIsInput
    <2>1. ~apart /\ Echo /\ screen' = Append(screen, c)
      OBVIOUS
    <2>2. got \o tmp \in Seq(Chars)
      BY <1>1
    <2>3. got \o tmp' = Append(got \o tmp, c)
      BY <1>1, AppendToConcat, SMTT(30)
    <2>4. Shows(screen, got \o tmp)
      BY <2>1 DEF TtyInv, ScreenIsInput
    <2>5. Shows(Append(screen, c), Append(got \o tmp, c))
      BY <1>1, <2>2, <2>4, ShowsKey
    <2> QED
      BY <2>1, <2>3, <2>5
  <1>6. Edited'
    <2> SUFFICES ASSUME Echo PROVE
          /\ Len(tmp') <= Len(screen')
          /\ \A i \in 1 .. Len(tmp') : screen'[Len(screen') - Len(tmp') + i] = tmp'[i]
      BY DEF Edited, Echo
    <2>1. Len(tmp) <= Len(screen) /\ \A i \in 1 .. Len(tmp) : screen[Len(screen) - Len(tmp) + i] = tmp[i]
      BY DEF TtyInv, Edited
    <2>2. /\ Len(screen') = Len(screen) + 1 /\ Len(screen) \in Nat
          /\ screen'[Len(screen) + 1] = c /\ \A i \in 1 .. Len(screen) : screen'[i] = screen[i]
      BY <1>1, AppendIs
    <2>3. ASSUME NEW i \in 1 .. Len(tmp') PROVE screen'[Len(screen') - Len(tmp') + i] = tmp'[i]
      <3>1. Len(screen') - Len(tmp') = Len(screen) - Len(tmp)
        BY <1>2, <2>2
      <3>2. CASE i = Len(tmp) + 1
        BY <1>2, <2>2, <3>1, <3>2
      <3>3. CASE i # Len(tmp) + 1
        <4>1. i \in 1 .. Len(tmp) /\ Len(screen) - Len(tmp) + i \in 1 .. Len(screen)
          BY <1>2, <2>1, <2>2, <3>3
        <4> QED
          BY <1>2, <2>1, <2>2, <3>1, <4>1
      <3> QED
        BY <3>2, <3>3
    <2>4. Len(tmp') <= Len(screen')
      BY <1>2, <2>1, <2>2
    <2> QED
      BY <2>3, <2>4
  <1> QED
    BY <1>4, <1>5, <1>6 DEF TtyInv

\* With echo, the last byte shown is the last one of the line being edited.
LEMMA LastShown ==
  ASSUME TtyInv, want # Idle, Echo, tmp # <<>>
  PROVE  screen \in Seq(Bytes) /\ screen # <<>> /\ screen[Len(screen)] # "w"
  <1>1. screen \in Seq(Bytes) /\ tmp \in Seq(Chars) /\ Len(tmp) \in Nat \ {0} /\ Len(screen) \in Nat
    BY DEF TtyInv, TtyTypeOK, Bytes
  <1>2. Len(tmp) <= Len(screen) /\ screen[Len(screen) - Len(tmp) + Len(tmp)] = tmp[Len(tmp)]
    BY <1>1 DEF TtyInv, Edited
  <1>3. Len(screen) - Len(tmp) + Len(tmp) = Len(screen) /\ Len(screen) # 0
    BY <1>1, <1>2
  <1>4. tmp[Len(tmp)] \in Chars
    BY <1>1
  <1> QED
    BY <1>1, <1>2, <1>3, <1>4 DEF Chars

\* An erase key with something to erase.
LEMMA EraseKey ==
  ASSUME TtyInv, want # Idle, tmp # <<>>,
         rx' \in Seq(Keys), Len(rx') <= Fifo,
         tmp' = Front(tmp), screen' = IF Echo THEN Front(screen) ELSE screen,
         apart' = (apart \/ ~Echo), UNCHANGED <<lflag, want, got, typed>>
  PROVE  TtyInv'
  <1>1. /\ screen \in Seq(Bytes) /\ tmp \in Seq(Chars) /\ got \in Seq(Chars)
        /\ apart \in BOOLEAN
    BY DEF TtyInv, TtyTypeOK, Bytes
  <1>2. /\ tmp' \in Seq(Chars) /\ Len(tmp') = Len(tmp) - 1 /\ Len(tmp') \in Nat
        /\ \A i \in 1 .. Len(tmp') : tmp'[i] = tmp[i]
    BY <1>1, FrontIs
  <1>3. Echo => /\ screen' \in Seq(Bytes) /\ Len(screen') = Len(screen) - 1 /\ Len(screen') \in Nat
                /\ \A i \in 1 .. Len(screen') : screen'[i] = screen[i]
    BY <1>1, LastShown, FrontIs
  <1>4. TtyTypeOK'
    <2>1. Len(tmp') <= TmpSize
      BY <1>1, <1>2, TtyAssumption DEF TtyInv, TtyTypeOK
    <2>2. screen' \in Seq(Bytes) /\ apart' \in BOOLEAN
      BY <1>1, <1>3
    <2> QED
      BY <1>2, <2>1, <2>2 DEF TtyInv, TtyTypeOK, Bytes
  <1>5. ScreenIsInput'
    <2> SUFFICES ASSUME ~apart' PROVE Shows(screen', got \o tmp')
      BY DEF ScreenIsInput
    <2>1. ~apart /\ Echo /\ screen' = Front(screen)
      OBVIOUS
    <2>2. got \o tmp \in Seq(Chars) /\ Front(got \o tmp) = got \o Front(tmp)
      <3>1. got \o tmp \in Seq(Chars)
        BY <1>1
      <3>2. Front(got \o tmp) = got \o Front(tmp)
        BY <1>1, FrontOfConcat
      <3> QED
        BY <3>1, <3>2
    <2>3. Shows(screen, got \o tmp)
      BY <2>1 DEF TtyInv, ScreenIsInput
    <2>4. Shows(Front(screen), Front(got \o tmp))
      BY <2>1, <2>2, <2>3, LastShown, ShowsErase
    <2> QED
      BY <2>1, <2>2, <2>4
  <1>6. Edited'
    <2> SUFFICES ASSUME Echo PROVE
          /\ Len(tmp') <= Len(screen')
          /\ \A i \in 1 .. Len(tmp') : screen'[Len(screen') - Len(tmp') + i] = tmp'[i]
      BY DEF Edited, Echo
    <2>1. Len(tmp) <= Len(screen) /\ \A i \in 1 .. Len(tmp) : screen[Len(screen) - Len(tmp) + i] = tmp[i]
      BY DEF TtyInv, Edited
    <2>2. Len(tmp) \in Nat /\ Len(screen) \in Nat
      BY <1>1
    <2>3. Len(screen') - Len(tmp') = Len(screen) - Len(tmp) /\ Len(tmp') <= Len(screen')
      BY <1>2, <1>3, <2>1, <2>2
    <2>4. ASSUME NEW i \in 1 .. Len(tmp') PROVE screen'[Len(screen') - Len(tmp') + i] = tmp'[i]
      <3>1. i \in 1 .. Len(tmp) /\ Len(screen) - Len(tmp) + i \in 1 .. Len(screen')
        BY <1>2, <1>3, <2>1, <2>2
      <3> QED
        BY <1>2, <1>3, <2>1, <2>3, <3>1
    <2> QED
      BY <2>3, <2>4
  <1> QED
    BY <1>4, <1>5, <1>6 DEF TtyInv

LEMMA CanonStep == TtyInv /\ CanonKey => TtyInv'
  <1> SUFFICES ASSUME TtyInv, CanonKey PROVE TtyInv'
    OBVIOUS
  <1> DEFINE c == Char(Head(rx))
  <1>1. rx' \in Seq(Keys) /\ Len(rx') <= Fifo /\ c \in Chars
    <2>1. rx \in Seq(Keys) /\ rx # <<>> /\ Len(rx) <= Fifo /\ rx' = Tail(rx)
      BY DEF CanonKey, TtyInv, TtyTypeOK
    <2>2. Len(rx) \in Nat /\ Len(rx') \in Nat
      BY <2>1
    <2> QED
      BY <2>1, <2>2, NextKey, TtyAssumption
  <1>2. /\ want # Idle /\ Len(tmp) < TmpSize /\ apart' = (apart \/ ~Echo)
        /\ UNCHANGED <<lflag, want, got, typed>>
    BY DEF CanonKey
  <1>3. CASE c # "del"
    <2>1. tmp' = Append(tmp, c) /\ screen' = IF Echo THEN Append(screen, c) ELSE screen
      BY <1>3 DEF CanonKey
    <2> HIDE DEF c
    <2> QED
      BY <1>1, <1>2, <2>1, TakeKey
  <1>4. CASE c = "del" /\ tmp # <<>>
    <2>1. tmp' = Front(tmp) /\ screen' = IF Echo THEN Front(screen) ELSE screen
      BY <1>4 DEF CanonKey
    <2> QED
      BY <1>1, <1>2, <1>4, <2>1, EraseKey
  <1>5. CASE c = "del" /\ tmp = <<>>
    <2>1. tmp' = tmp /\ screen' = screen
      BY <1>5 DEF CanonKey
    <2> HIDE DEF c
    <2>2. TtyTypeOK'
      BY <1>1, <1>2, <2>1 DEF TtyInv, TtyTypeOK
    <2>3. ScreenIsInput' /\ Edited'
      BY <1>2, <2>1 DEF TtyInv, ScreenIsInput, Edited, Echo
    <2> QED
      BY <1>2, <2>1, <2>2, <2>3 DEF TtyInv
  <1> QED
    BY <1>3, <1>4, <1>5

LEMMA RawStep == TtyInv /\ RawKey => TtyInv'
  <1> SUFFICES ASSUME TtyInv, RawKey PROVE TtyInv'
    OBVIOUS
  <1> DEFINE c == Char(Head(rx))
  <1>1. rx' \in Seq(Keys) /\ Len(rx') <= Fifo /\ c \in Chars
    <2>1. rx \in Seq(Keys) /\ rx # <<>> /\ Len(rx) <= Fifo /\ rx' = Tail(rx)
      BY DEF RawKey, TtyInv, TtyTypeOK
    <2>2. Len(rx) \in Nat /\ Len(rx') \in Nat
      BY <2>1
    <2> QED
      BY <2>1, <2>2, NextKey, TtyAssumption
  <1>2. /\ want # Idle /\ tmp = <<>> /\ tmp' = <<c>> /\ apart' = (apart \/ ~Echo)
        /\ screen' = IF Echo THEN Append(screen, c) ELSE screen
        /\ UNCHANGED <<lflag, want, got, typed>>
    BY DEF RawKey
  <1> HIDE DEF c
  <1>3. Append(<<>>, c) = <<c>> /\ Len(<<>>) < TmpSize
    BY TtyAssumption
  <1> QED
    BY <1>1, <1>2, <1>3, TakeKey

LEMMA ReturnStep == ASSUME TtyInv, NEW fault \in BOOLEAN, ReadReturn(fault) PROVE TtyInv'
  <1>1. /\ got' = IF fault THEN got ELSE got \o tmp
        /\ apart' = (apart \/ fault)
        /\ want' = Idle /\ tmp' = <<>> /\ UNCHANGED <<lflag, rx, screen, typed>>
    BY DEF ReadReturn
  <1>2. tmp \in Seq(Chars) /\ got \in Seq(Chars) /\ apart \in BOOLEAN
    BY DEF TtyInv, TtyTypeOK
  <1>3. got' \in Seq(Chars) /\ got' \o <<>> = got'
    BY <1>1, <1>2
  <1>4. TtyTypeOK'
    <2>1. tmp' \in Seq(Chars) /\ Len(tmp') <= TmpSize /\ apart' \in BOOLEAN
      BY <1>1, <1>2, TtyAssumption
    <2> QED
      BY <1>1, <1>3, <2>1 DEF TtyInv, TtyTypeOK
  <1>5. ScreenIsInput'
    <2> SUFFICES ASSUME ~apart' PROVE Shows(screen', got' \o tmp')
      BY DEF ScreenIsInput
    <2>1. ~apart /\ ~fault
      BY <1>1, <1>2
    <2> QED
      BY <1>1, <1>3, <2>1 DEF TtyInv, ScreenIsInput
  <1> QED
    BY <1>1, <1>4, <1>5 DEF TtyInv, Edited

LEMMA TtySteps == TtyInv /\ [TtyNext]_ttyvars => TtyInv'
  BY QuietSteps, WriteStep, CanonStep, RawStep, ReturnStep DEF TtyNext

LEMMA TtyInvHolds == TtySpec => []TtyInv
  BY TtyStarts, TtySteps, PTL DEF TtySpec

\* For every size of the buffers and every sequence of keys, reads, writes and
\* changes of mode: what the screen shows is what the readers get.
THEOREM ConsoleCorrect == TtySpec => []ConsoleSound
  <1>1. TtyInv => ConsoleSound
    BY DEF TtyInv, ConsoleSound
  <1> QED
    BY <1>1, TtyInvHolds, PTL

\* No erase key takes back output of a program.
THEOREM OutputStaysCorrect == TtySpec => OutputStays
  <1> DEFINE Stays == \A i \in DOMAIN screen : screen[i] = "w" => i \in DOMAIN screen' /\ screen'[i] = "w"
  <1>1. TtyInv /\ [TtyNext]_ttyvars => [Stays]_ttyvars
    <2> SUFFICES ASSUME TtyInv, TtyNext PROVE Stays
      OBVIOUS
    <2>0. screen \in Seq(Bytes) /\ Len(screen) \in Nat /\ DOMAIN screen = 1 .. Len(screen)
      BY DEF TtyInv, TtyTypeOK, Bytes
    <2>1. ASSUME NEW c \in Bytes, screen' = Append(screen, c) PROVE Stays
      <3>1. /\ screen' \in Seq(Bytes) /\ Len(screen') = Len(screen) + 1
            /\ \A i \in 1 .. Len(screen) : screen'[i] = screen[i]
        BY <2>0, <2>1, AppendIs
      <3>2. DOMAIN screen' = 1 .. Len(screen')
        BY <3>1
      <3> QED
        BY <2>0, <3>1, <3>2
    <2>2. ASSUME want # Idle, tmp # <<>>, Echo, screen' = Front(screen) PROVE Stays
      <3>1. /\ screen' \in Seq(Bytes) /\ Len(screen') = Len(screen) - 1 /\ screen[Len(screen)] # "w"
            /\ \A i \in 1 .. Len(screen) - 1 : screen'[i] = screen[i]
        BY <2>2, LastShown, FrontIs
      <3>2. DOMAIN screen' = 1 .. Len(screen')
        BY <3>1
      <3> QED
        BY <2>0, <3>1, <3>2
    <2>3. CASE screen' = screen
      BY <2>3
    <2>4. \/ screen' = screen
          \/ \E c \in Bytes : screen' = Append(screen, c)
          \/ want # Idle /\ tmp # <<>> /\ Echo /\ screen' = Front(screen)
      <3>1. (CanonKey \/ RawKey) => Char(Head(rx)) \in Bytes
        BY NextKey DEF CanonKey, RawKey, TtyInv, TtyTypeOK, Bytes
      <3>2. "w" \in Bytes
        BY DEF Bytes
      <3>3. CASE CanonKey
        BY <3>1, <3>3 DEF CanonKey
      <3>4. CASE RawKey
        BY <3>1, <3>4 DEF RawKey
      <3> QED
        BY <3>2, <3>3, <3>4 DEF TtyNext, Type, sys_ioctl, sys_read, ReadReturn, sys_write
    <2> QED
      BY <2>1, <2>2, <2>3, <2>4
  <1> QED
    BY <1>1, TtyInvHolds, PTL DEF TtySpec, OutputStays

-----------------------------------------------------------------------------
(* Part three: offsets and contents *)

\* A run of cp and the jobs, as records.
CpRuns == [at : {"start", "ask", "kept", "openIn", "openOut", "read", "write", "done"},
           src : Names \cup {NoFile}, dst : Names \cup {NoFile},
           in : Entries \cup {0}, out : Entries \cup {0}, buf : Seq(Int), ret : Int,
           alone : BOOLEAN]
Jobs == [by : SUBSET Users, base : Seq(Int), log : Seq(Int), kept : BOOLEAN]
RunTypeOK ==
    /\ cp \in CpRuns /\ job \in [Names -> Jobs]
    /\ cp.at # "start" => cp.src \in Names /\ cp.dst \in Names

\* The entries of cp are open, two, and no user's.
Exclusive ==
    /\ \A u \in Users : has[u] # 0 => entry[has[u]] \in OpenEntry /\ has[u] \notin {cp.in, cp.out}
    /\ \A e \in {cp.in, cp.out} \ {0} : entry[e] \in OpenEntry
    /\ cp.in # 0 => cp.in # cp.out
    /\ cp.at \in {"openOut", "read", "write"} => cp.in # 0 /\ entry[cp.in].f = cp.src
    /\ cp.at = "openOut" => entry[cp.in].off = 0
    /\ cp.at \in {"read", "write"} => cp.out # 0 /\ entry[cp.out].f = cp.dst

\* Who works on a kept job stands at the end of the file.
JobOK(f) ==
    job[f].kept =>
      /\ data[f] = job[f].base \o job[f].log
      /\ \A u \in job[f].by : /\ has[u] # 0 /\ entry[has[u]].f = f
                              /\ entry[has[u]].off = Len(data[f])
      /\ \A u, v \in job[f].by : has[u] = has[v]

\* What cp has read is what it has written and what is in its buffer.
CopyOK ==
    cp.src # cp.dst /\ cp.alone =>
      /\ cp.at \in {"read", "write"} => /\ entry[cp.out].off = Len(data[cp.dst])
                                        /\ entry[cp.in].off <= Len(data[cp.src])
      /\ cp.at = "read" => data[cp.dst] = SubSeq(data[cp.src], 1, entry[cp.in].off)
      /\ cp.at = "write" => data[cp.dst] \o cp.buf = SubSeq(data[cp.src], 1, entry[cp.in].off)
      /\ cp.at = "done" /\ cp.ret = 0 => data[cp.dst] = data[cp.src]

IoInv == IoTypeOK /\ RunTypeOK /\ Exclusive /\ (\A f \in Names : JobOK(f)) /\ CopyOK

-----------------------------------------------------------------------------
(* Numbers, sequences and chunks *)

LEMMA MinMaxOfTwo ==
  ASSUME NEW a \in Int, NEW b \in Int
  PROVE  /\ Min({a, b}) = IF a <= b THEN a ELSE b
         /\ Max({a, b}) = IF a <= b THEN b ELSE a
<1>1. PICK x \in {a, b} : \A y \in {a, b} : x <= y
  OBVIOUS
<1>2. Min({a, b}) \in {a, b} /\ \A y \in {a, b} : Min({a, b}) <= y
  BY <1>1 DEF Min
<1>3. PICK z \in {a, b} : \A y \in {a, b} : z >= y
  OBVIOUS
<1>4. Max({a, b}) \in {a, b} /\ \A y \in {a, b} : Max({a, b}) >= y
  BY <1>3 DEF Max
<1> QED
  BY <1>2, <1>4

LEMMA MaxWithZero ==
  ASSUME NEW b, b \in Int
  PROVE  Max({0, b}) = IF 0 <= b THEN b ELSE 0
<1>1. PICK x \in {0, b} : \A y \in {0, b} : x >= y
  OBVIOUS
<1>2. Max({0, b}) \in {0, b} /\ \A y \in {0, b} : Max({0, b}) >= y
  BY <1>1 DEF Max
<1> QED
  BY <1>2

\* A set of naturals has a least element.
LEMMA LeastNat ==
  ASSUME NEW S \in SUBSET Nat, S # {}
  PROVE  \E n \in S : \A m \in S : n <= m
  <1> DEFINE U == {0 .. n : n \in S}
  <1>1. U \subseteq FiniteSubsetsOf(Nat)
    <2> SUFFICES ASSUME NEW n \in S PROVE 0 .. n \in FiniteSubsetsOf(Nat)
      OBVIOUS
    <2> QED
      BY FS_Interval DEF FiniteSubsetsOf
  <1>2. PICK u \in U : \A v \in U : <<v, u>> \notin StrictSubsetOrdering(Nat)
    <2>1. U # {}
      OBVIOUS
    <2> HIDE DEF U
    <2> QED
      BY <1>1, <2>1, FS_StrictSubsetOrderingWellFounded, WFMin
  <1>3. PICK n \in S : u = 0 .. n
    OBVIOUS
  <1>4. ASSUME NEW m \in S, m < n PROVE FALSE
    <2>1. 0 .. m \in U /\ n \notin 0 .. m /\ n \in u /\ 0 .. m \subseteq u
      BY <1>3, <1>4
    <2>2. <<0 .. m, u>> \in StrictSubsetOrdering(Nat)
      BY <2>1, <1>3 DEF StrictSubsetOrdering
    <2> QED
      BY <1>2, <2>1, <2>2
  <1> QED
    BY <1>3, <1>4

LEMMA LeastOf ==
  ASSUME NEW S \in SUBSET Nat, S # {}
  PROVE  Min(S) \in S /\ \A y \in S : Min(S) <= y
<1>1. PICK x \in S : \A y \in S : x <= y
  BY LeastNat
<1> QED
  BY <1>1 DEF Min

LEMMA ChunkStarts ==
  ASSUME NEW i \in Nat, NEW c \in Nat \ {0}
  PROVE  /\ (i + c) % c = i % c
         /\ i < c => i % c = i
         /\ 0 % c = 0
<1>1. i = c * (i \div c) + (i % c) /\ i % c \in 0 .. c - 1 /\ i \div c \in Nat
  OBVIOUS
<1>2. i + c = c * ((i + c) \div c) + ((i + c) % c) /\ (i + c) % c \in 0 .. c - 1 /\ (i + c) \div c \in Nat
  OBVIOUS
<1>3. \A k \in Int : k >= 1 => c * k >= c
  OBVIOUS
<1>4. \A k \in Int : k <= -1 => c * k <= -c
  OBVIOUS
<1> DEFINE k == (i + c) \div c - i \div c - 1
<1>5. k \in Int /\ c * k = (i % c) - ((i + c) % c)
  BY <1>1, <1>2
<1>6. k = 0
  <2>1. ~(k >= 1)
    BY <1>1, <1>2, <1>3, <1>5
  <2>2. ~(k <= -1)
    BY <1>1, <1>2, <1>4, <1>5
  <2> QED BY <2>1, <2>2, <1>5
<1>7. (i + c) % c = i % c
  BY <1>1, <1>2, <1>5, <1>6
<1>8. ASSUME i < c PROVE i % c = i
  <2>1. ~(i \div c >= 1)
    BY <1>1, <1>3, <1>8
  <2> QED BY <1>1, <2>1
<1>9. 0 % c = 0
  OBVIOUS
<1> QED BY <1>7, <1>8, <1>9

LEMMA SameSeq ==
  ASSUME NEW s \in Seq(Int), NEW t \in Seq(Int), Len(s) = Len(t),
         \A i \in 1 .. Len(s) : s[i] = t[i]
  PROVE  s = t
  OBVIOUS

LEMMA ConcatFacts ==
  ASSUME NEW a \in Seq(Int), NEW b \in Seq(Int)
  PROVE  /\ a \o b \in Seq(Int) /\ Len(a \o b) = Len(a) + Len(b)
         /\ \A i \in 1 .. Len(a) + Len(b) : (a \o b)[i] = IF i <= Len(a) THEN a[i] ELSE b[i - Len(a)]
  OBVIOUS

LEMMA Associates ==
  ASSUME NEW a \in Seq(Int), NEW b \in Seq(Int), NEW c \in Seq(Int)
  PROVE  (a \o b) \o c = a \o (b \o c)
<1> DEFINE l == (a \o b) \o c
           r == a \o (b \o c)
<1>1. a \o b \in Seq(Int) /\ b \o c \in Seq(Int) /\ l \in Seq(Int) /\ r \in Seq(Int)
  OBVIOUS
<1>2. Len(l) = Len(r)
  BY <1>1
<1>3. ASSUME NEW i \in 1 .. Len(l) PROVE l[i] = r[i]
  <2>1. Len(a) \in Nat /\ Len(b) \in Nat /\ Len(c) \in Nat
    OBVIOUS
  <2>2. Len(a \o b) = Len(a) + Len(b) /\ Len(b \o c) = Len(b) + Len(c)
    BY ConcatFacts
  <2>3. i \in 1 .. Len(a) + Len(b) + Len(c)
    BY <1>1, <2>2, ConcatFacts
  <2>4. l[i] = IF i <= Len(a) + Len(b) THEN (a \o b)[i] ELSE c[i - (Len(a) + Len(b))]
    BY <1>1, <2>2, <2>3, ConcatFacts
  <2>5. r[i] = IF i <= Len(a) THEN a[i] ELSE (b \o c)[i - Len(a)]
    BY <1>1, <2>1, <2>2, <2>3, ConcatFacts
  <2> HIDE DEF l, r
  <2>6. CASE i <= Len(a) + Len(b)
    <3>1. (a \o b)[i] = IF i <= Len(a) THEN a[i] ELSE b[i - Len(a)]
      BY <2>1, <2>3, <2>6, ConcatFacts
    <3>2. i > Len(a) => (b \o c)[i - Len(a)] = b[i - Len(a)]
      BY <2>1, <2>3, <2>6, ConcatFacts
    <3> QED
      BY <2>4, <2>5, <2>6, <3>1, <3>2
  <2>7. CASE i > Len(a) + Len(b)
    <3>1. (b \o c)[i - Len(a)] = c[(i - Len(a)) - Len(b)]
      BY <2>1, <2>3, <2>7, ConcatFacts
    <3>2. (i - Len(a)) - Len(b) = i - (Len(a) + Len(b))
      BY <2>1, <2>3
    <3>3. ~(i <= Len(a)) /\ ~(i <= Len(a) + Len(b))
      BY <2>1, <2>3, <2>7
    <3> QED
      BY <2>4, <2>5, <3>1, <3>2, <3>3
  <2> QED
    BY <2>1, <2>3, <2>6, <2>7
<1> HIDE DEF l, r
<1>4. l = r
  BY <1>1, <1>2, <1>3, SameSeq
<1> QED
  BY <1>4 DEF l, r

(* The same with a name for the concatenation, for the steps at which the     *)
(* sequences are fields of the state.                                         *)
Joined(a, b) == a \o b

LEMMA JoinedAssociates ==
  ASSUME NEW a \in Seq(Int), NEW b \in Seq(Int), NEW c \in Seq(Int)
  PROVE  Joined(Joined(a, b), c) = Joined(a, Joined(b, c))
  BY Associates DEF Joined

LEMMA SubSeqFacts ==
  ASSUME NEW s \in Seq(Int), NEW m \in Nat \ {0}, NEW n \in Nat, n <= Len(s), m <= n + 1
  PROVE  /\ SubSeq(s, m, n) \in Seq(Int) /\ Len(SubSeq(s, m, n)) = n - m + 1
         /\ \A i \in 1 .. n - m + 1 : SubSeq(s, m, n)[i] = s[m + i - 1]
  OBVIOUS

LEMMA PartsJoin ==
  ASSUME NEW s \in Seq(Int), NEW m \in Nat, NEW n \in Nat, m <= n, n <= Len(s)
  PROVE  SubSeq(s, 1, m) \o SubSeq(s, m + 1, n) = SubSeq(s, 1, n)
<1> DEFINE a == SubSeq(s, 1, m)
           b == SubSeq(s, m + 1, n)
           c == SubSeq(s, 1, n)
<1>1. /\ a \in Seq(Int) /\ Len(a) = m /\ \A i \in 1 .. m : a[i] = s[i]
      /\ b \in Seq(Int) /\ Len(b) = n - m /\ \A i \in 1 .. n - m : b[i] = s[m + i]
      /\ c \in Seq(Int) /\ Len(c) = n /\ \A i \in 1 .. n : c[i] = s[i]
  OBVIOUS
<1> HIDE DEF a, b, c
<1>0. n - m \in Nat /\ m + (n - m) = n
  OBVIOUS
<1>2. a \o b \in Seq(Int) /\ Len(a \o b) = n
  BY <1>0, <1>1, ConcatFacts
<1>3. ASSUME NEW i \in 1 .. n PROVE (a \o b)[i] = s[i]
  <2>1. (a \o b)[i] = IF i <= m THEN a[i] ELSE b[i - m]
    <3>1. i \in 1 .. Len(a) + Len(b)
      BY <1>0, <1>1
    <3> QED
      BY <3>1, <1>1, ConcatFacts
  <2>2. i <= m => i \in 1 .. m
    OBVIOUS
  <2>3. i > m => i - m \in 1 .. n - m /\ m + (i - m) = i
    OBVIOUS
  <2> QED
    BY <1>1, <2>1, <2>2, <2>3
<1>4. a \o b = c
  BY <1>1, <1>2, <1>3, SameSeq
<1> QED
  BY <1>4 DEF a, b, c

-----------------------------------------------------------------------------
(* The operators of FileIo *)

LEMMA IoConstants ==
  /\ Chunk \in Nat \ {0} /\ BufSize \in Nat \ {0} /\ Limit \in Nat \ {0} /\ NENTRY \in Nat
  /\ Users \subseteq Nat /\ Rooms \subseteq Nat /\ Contents \subseteq Seq(Int)
<1>1. Seq(Nat) \subseteq Seq(Int)
  OBVIOUS
<1> QED
  BY <1>1, IoAssumption

LEMMA TakesFacts ==
  ASSUME NEW f, NEW off \in Nat, NEW n \in Nat, NEW room \in Nat
  PROVE  /\ Takes(f, off, n, room) \in {-1} \cup 0 .. n
         /\ f \in Ram => /\ Takes(f, off, n, room) \in 0 .. n
                         /\ Takes(f, off, n, room) > 0 => off + Takes(f, off, n, room) <= Limit
<1>1. CASE f \in Ram
  <2>1. Limit - off \in Int /\ n \in Int
    BY IoConstants
  <2> DEFINE m == Min({n, Limit - off})
  <2>2. m = IF n <= Limit - off THEN n ELSE Limit - off
    BY <2>1, MinMaxOfTwo
  <2>5. Takes(f, off, n, room) = Max({0, m})
    BY <1>1 DEF Takes
  <2> HIDE DEF m
  <2>3. m \in Int
    BY <2>1, <2>2
  <2>4. Max({0, m}) = IF 0 <= m THEN m ELSE 0
    BY <2>3, MaxWithZero, Zenon
  <2> QED
    BY <2>1, <2>2, <2>3, <2>4, <2>5, <1>1, IoConstants
<1>2. CASE f \notin Ram
  BY <1>2 DEF Takes
<1> QED
  BY <1>1, <1>2

\* What sys_write stores is a beginning of what it was given, and all that
\* it says it stored; in /ram it ends at the limit.
Stores(w, f, d, off, s, k) ==
  /\ k \in 0 .. Len(s) /\ w.ret \in {-1, k}
  /\ w.data = Put(d, off, SubSeq(s, 1, k)) /\ w.off = off + k
  /\ f \in Ram /\ k > 0 => off + k <= Limit

LEMMA SysWriteStores ==
  ASSUME NEW f, NEW off \in Nat, NEW s \in Seq(Int), NEW room \in Nat
  PROVE  \E k \in Nat : Stores(SysWrite(f, off, s, room), f, data[f], off, s, k)
<1> DEFINE n(i) == Min({Chunk, Len(s) - i})
           starts == {i \in 0 .. Len(s) - 1 : i % Chunk = 0}
           short == {i \in starts : Takes(f, off + i, n(i), room) < n(i)}
           last == Takes(f, off + Min(short), n(Min(short)), room)
           stored == IF short = {} THEN Len(s) ELSE Min(short) + Max({0, last})
           w == SysWrite(f, off, s, room)
<1>0. Len(s) \in Nat /\ Chunk \in Nat \ {0}
  BY IoConstants
<1>1. /\ w.data = Put(data[f], off, SubSeq(s, 1, stored)) /\ w.off = off + stored
      /\ w.ret = IF short # {} /\ last < 0 THEN -1 ELSE stored
  BY DEF SysWrite
<1>2. \A i \in 0 .. Len(s) - 1 : n(i) = IF Chunk <= Len(s) - i THEN Chunk ELSE Len(s) - i
  BY <1>0, MinMaxOfTwo
<1>s. /\ \A i \in 0 .. Len(s) - 1 : i \in starts <=> i % Chunk = 0
      /\ \A i \in starts : i \in 0 .. Len(s) - 1 /\ i % Chunk = 0
      /\ short \subseteq starts
      /\ \A i \in starts : i \in short <=> Takes(f, off + i, n(i), room) < n(i)
  OBVIOUS
<1>t. /\ last = Takes(f, off + Min(short), n(Min(short)), room)
      /\ stored = IF short = {} THEN Len(s) ELSE Min(short) + Max({0, last})
      /\ w = SysWrite(f, off, s, room)
  OBVIOUS
<1> HIDE DEF n, starts, short, last, stored, w
<1>3. \A i \in starts : n(i) \in Nat \ {0} /\ i + n(i) <= Len(s)
  <2> SUFFICES ASSUME NEW i \in starts PROVE n(i) \in Nat \ {0} /\ i + n(i) <= Len(s)
    OBVIOUS
  <2>1. i \in 0 .. Len(s) - 1
    BY <1>s
  <2>2. n(i) = IF Chunk <= Len(s) - i THEN Chunk ELSE Len(s) - i
    BY <2>1, <1>2, Zenon
  <2> QED
    BY <2>1, <2>2, <1>0
<1>4. \A i \in starts : off + i \in Nat /\ i \in Nat
  BY <1>0, <1>s
<1>5. ASSUME f \in Ram, NEW i \in starts, i \notin short
      PROVE  off + i + n(i) <= Limit
  <2>1. Takes(f, off + i, n(i), room) \in 0 .. n(i)
    BY <1>3, <1>4, <1>5, TakesFacts
  <2>2. Takes(f, off + i, n(i), room) = n(i)
    BY <2>1, <1>3, <1>5, <1>s
  <2> QED
    <3>1. i \in Nat /\ off + i \in Nat /\ n(i) \in Nat /\ n(i) > 0
      BY <1>3, <1>4
    <3>2. Takes(f, off + i, n(i), room) > 0 => off + i + Takes(f, off + i, n(i), room) <= Limit
      BY <3>1, <1>5, TakesFacts
    <3> QED
      BY <2>2, <3>1, <3>2
<1>6. CASE short = {}
  <2>1. stored = Len(s) /\ w.ret = stored
    BY <1>1, <1>6, <1>t
  <2>2. ASSUME f \in Ram, Len(s) > 0 PROVE off + Len(s) <= Limit
    <3> DEFINE left == {Len(s) - 1 - i : i \in starts}
    <3>1. left \in SUBSET Nat /\ left # {}
      <4>1. 0 \in starts
        <5>1. 0 % Chunk = 0
          BY <1>0, ChunkStarts
        <5>2. 0 \in 0 .. Len(s) - 1
          BY <2>2, <1>0
        <5> QED
          BY <5>1, <5>2, <1>s
      <4>2. \A i \in starts : Len(s) - 1 - i \in Nat
        <5> SUFFICES ASSUME NEW i \in starts PROVE Len(s) - 1 - i \in Nat
          OBVIOUS
        <5>1. i \in 0 .. Len(s) - 1
          BY <1>s
        <5> QED
          BY <5>1, <1>0
      <4> QED
        BY <4>1, <4>2
    <3>2. PICK m \in left : \A y \in left : m <= y
      <4> HIDE DEF left
      <4> QED
        BY <3>1, LeastNat
    <3>3. PICK i \in starts : m = Len(s) - 1 - i
      BY <3>2
    <3>4. i + Chunk >= Len(s)
      <4>0. i \in Nat /\ i % Chunk = 0
        BY <1>4, <1>s
      <4>1. SUFFICES ASSUME i + Chunk < Len(s) PROVE FALSE
        BY <4>0, <1>0
      <4>2. i + Chunk \in 0 .. Len(s) - 1 /\ (i + Chunk) % Chunk = 0
        <5>1. (i + Chunk) % Chunk = i % Chunk
          BY <4>0, <1>0, ChunkStarts
        <5> QED
          BY <5>1, <4>0, <4>1, <1>0
      <4>3. Len(s) - 1 - (i + Chunk) \in left
        BY <4>2, <1>s
      <4> QED
        <5>1. m <= Len(s) - 1 - (i + Chunk)
          BY <4>3, <3>2
        <5> QED
          BY <5>1, <4>0, <3>3, <1>0
    <3>5. n(i) = Len(s) - i
      <4>1. i \in 0 .. Len(s) - 1
        BY <1>s
      <4>2. n(i) = IF Chunk <= Len(s) - i THEN Chunk ELSE Len(s) - i
        BY <4>1, <1>2, Zenon
      <4> QED
        BY <4>1, <4>2, <3>4, <1>0
    <3>6. off + i + n(i) <= Limit
      BY <1>5, <1>6, <2>2
    <3> QED
      BY <3>5, <3>6, <1>0, <1>4
  <2> QED
    <3>1. /\ Len(s) \in 0 .. Len(s) /\ w.ret \in {-1, Len(s)}
          /\ w.data = Put(data[f], off, SubSeq(s, 1, Len(s))) /\ w.off = off + Len(s)
      BY <1>0, <1>1, <2>1
    <3>2. Stores(w, f, data[f], off, s, Len(s))
      BY <2>2, <3>1 DEF Stores
    <3> QED
      BY <1>0, <1>t, <3>2
<1>7. CASE short # {}
  <2> DEFINE i == Min(short)
  <2>1. i \in short /\ \A y \in short : i <= y
    <3>1. short \in SUBSET Nat
      BY <1>4, <1>s
    <3> QED
      BY <1>7, <3>1, LeastOf
  <2>2. i \in starts /\ i \in Nat /\ i <= Len(s) - 1 /\ i % Chunk = 0
    BY <2>1, <1>s, <1>0
  <2>3. n(i) \in Nat \ {0} /\ i + n(i) <= Len(s) /\ last < n(i)
    BY <2>1, <2>2, <1>3, <1>s, <1>t
  <2> HIDE DEF i
  <2>4. last = Takes(f, off + i, n(i), room)
    BY <1>t DEF i
  <2>5. /\ last \in {-1} \cup 0 .. n(i)
        /\ f \in Ram => last \in 0 .. n(i) /\ (last > 0 => off + i + last <= Limit)
    BY <2>2, <2>3, <2>4, <1>4, TakesFacts
  <2>a. last \in Int
    BY <2>3, <2>5
  <2>6. Max({0, last}) = IF 0 <= last THEN last ELSE 0
    BY <2>a, MaxWithZero, Zenon
  <2>7. stored = i + Max({0, last})
    BY <1>7, <1>t DEF i
  <2>8. stored \in 0 .. Len(s) /\ w.ret \in {-1, stored}
    <3>1. n(i) \in Nat /\ last < n(i)
      BY <2>3
    <3>2. stored \in 0 .. Len(s)
      BY <2>2, <2>3, <3>1, <2>a, <2>6, <2>7, <1>0
    <3> QED
      BY <3>2, <1>1
  <2>9. ASSUME f \in Ram, stored > 0 PROVE off + stored <= Limit
    <3>1. CASE last > 0
      <4>1. off + i + last <= Limit /\ stored = i + last
        BY <3>1, <2>9, <2>5, <2>6, <2>7, <2>a
      <4> QED
        BY <4>1, <2>2, <2>a
    <3>2. CASE ~(last > 0)
      <4>1. stored = i /\ i > 0
        BY <3>2, <2>9, <2>2, <2>5, <2>6, <2>7
      <4>2. i >= Chunk
        <5>1. i < Chunk => i % Chunk = i
          BY <2>2, <1>0, ChunkStarts
        <5> QED
          BY <5>1, <4>1, <2>2, <1>0
      <4>3. i - Chunk \in Nat /\ i - Chunk \in 0 .. Len(s) - 1 /\ (i - Chunk) + Chunk = i
        BY <4>2, <2>2, <1>0
      <4>4. (i - Chunk) % Chunk = 0
        <5>1. ((i - Chunk) + Chunk) % Chunk = (i - Chunk) % Chunk
          BY <4>3, <1>0, ChunkStarts
        <5> QED
          BY <5>1, <4>3, <2>2
      <4>5. i - Chunk \in starts /\ i - Chunk \notin short
        <5>1. i - Chunk \in starts
          BY <4>3, <4>4, <1>s
        <5>2. ~(i <= i - Chunk)
          BY <2>2, <1>0
        <5> QED
          BY <5>1, <5>2, <2>1
      <4>6. n(i - Chunk) = Chunk
        <5>1. n(i - Chunk) = IF Chunk <= Len(s) - (i - Chunk) THEN Chunk ELSE Len(s) - (i - Chunk)
          BY <4>3, <1>2, Zenon
        <5>2. Chunk <= Len(s) - (i - Chunk)
          BY <2>2, <1>0
        <5> QED
          BY <5>1, <5>2
      <4>7. off + (i - Chunk) + n(i - Chunk) <= Limit
        BY <4>5, <1>5, <2>9
      <4> QED
        BY <4>1, <4>3, <4>6, <4>7, <1>0, <2>2
    <3> QED
      BY <3>1, <3>2, <2>5
  <2> QED
    BY <1>1, <1>t, <2>8, <2>9 DEF Stores
<1> QED
  BY <1>6, <1>7, <1>t

LEMMA PutFacts ==
  ASSUME NEW d \in Seq(Int), NEW off \in Nat, NEW s \in Seq(Int)
  PROVE  /\ Put(d, off, s) \in Seq(Int)
         /\ Len(Put(d, off, s)) = IF s = <<>> \/ Len(d) >= off + Len(s) THEN Len(d) ELSE off + Len(s)
         /\ off = Len(d) => Put(d, off, s) = d \o s
<1>1. CASE s = <<>>
  BY <1>1 DEF Put
<1>2. CASE s # <<>>
  <2> DEFINE m == Max({Len(d), off + Len(s)})
             p == [i \in 1 .. m |-> IF i \in off + 1 .. off + Len(s) THEN s[i - off]
                                    ELSE IF i <= Len(d) THEN d[i] ELSE 0]
  <2>1. m = IF Len(d) >= off + Len(s) THEN Len(d) ELSE off + Len(s)
    <3>1. Len(d) \in Int /\ off + Len(s) \in Int
      OBVIOUS
    <3>2. Max({Len(d), off + Len(s)}) = IF Len(d) <= off + Len(s) THEN off + Len(s) ELSE Len(d)
      BY <3>1, MinMaxOfTwo
    <3> QED
      BY <3>1, <3>2
  <2>2. Put(d, off, s) = p
    BY <1>2 DEF Put
  <2>3. m \in Nat
    <3> HIDE DEF m
    <3> QED
      BY <2>1
  <2> HIDE DEF m
  <2>4. p \in Seq(Int) /\ Len(p) = m
    <3>1. \A i \in 1 .. m : (IF i \in off + 1 .. off + Len(s) THEN s[i - off]
                             ELSE IF i <= Len(d) THEN d[i] ELSE 0) \in Int
      BY <2>3
    <3> QED
      BY <3>1, <2>3
  <2>5. ASSUME off = Len(d) PROVE p = d \o s
    <3>1. m = Len(d) + Len(s) /\ Len(s) \in Nat /\ Len(d) \in Nat
      BY <2>1, <2>5
    <3>2. d \o s \in Seq(Int) /\ Len(d \o s) = m
      BY <3>1
    <3>3. \A i \in 1 .. m : p[i] = (d \o s)[i]
      BY <3>1, <2>5
    <3> HIDE DEF p
    <3> QED
      BY <2>4, <3>2, <3>3, SameSeq
  <2> QED
    BY <1>2, <2>1, <2>2, <2>4, <2>5
<1> QED
  BY <1>1, <1>2

LEMMA CutFacts ==
  ASSUME NEW d \in Seq(Int), NEW size \in Nat
  PROVE  Cut(d, size) \in Seq(Int) /\ Len(Cut(d, size)) = size
<1>1. \A i \in 1 .. size : (IF i <= Len(d) THEN d[i] ELSE 0) \in Int
  OBVIOUS
<1> QED
  BY <1>1 DEF Cut

\* sys_read returns what stands behind the offset, and nothing at the end only.
LEMMA SysReadFacts ==
  ASSUME NEW f, data[f] \in Seq(Int), NEW off \in Nat, NEW len \in Nat \ {0}
  PROVE  /\ SysRead(f, off, len) \in Seq(Int)
         /\ off <= Len(data[f]) =>
              /\ off + Len(SysRead(f, off, len)) <= Len(data[f])
              /\ SysRead(f, off, len) = SubSeq(data[f], off + 1, off + Len(SysRead(f, off, len)))
              /\ SysRead(f, off, len) = <<>> => off = Len(data[f])
         /\ off >= Len(data[f]) => SysRead(f, off, len) = <<>>
<1> DEFINE d == data[f]
           m == Min({len, Len(d) - off})
           n == Max({0, m})
<1>0. Len(d) \in Nat
  OBVIOUS
<1>1. m = IF len <= Len(d) - off THEN len ELSE Len(d) - off
  BY <1>0, MinMaxOfTwo
<1>4. SysRead(f, off, len) = SubSeq(d, off + 1, off + n)
  BY DEF SysRead
<1> HIDE DEF m
<1>2. m \in Int
  BY <1>0, <1>1
<1>3. n = IF 0 <= m THEN m ELSE 0
  <2>1. Max({0, m}) = IF 0 <= m THEN m ELSE 0
    BY <1>2, MaxWithZero, Zenon
  <2> QED
    BY <2>1
<1> HIDE DEF n
<1>5. CASE off <= Len(d)
  <2>1. n \in Nat /\ off + n <= Len(d) /\ (n = 0 => off = Len(d))
    BY <1>0, <1>1, <1>3, <1>5
  <2>2. SubSeq(d, off + 1, off + n) \in Seq(Int) /\ Len(SubSeq(d, off + 1, off + n)) = n
    BY <2>1, SubSeqFacts
  <2> DEFINE r == SysRead(f, off, len)
  <2>3. r \in Seq(Int) /\ Len(r) = n /\ r = SubSeq(d, off + 1, off + Len(r))
    BY <1>4, <2>2
  <2>4. r = <<>> => off = Len(d)
    <3>1. Len(<<>>) = 0
      OBVIOUS
    <3> HIDE DEF r
    <3> QED
      BY <2>1, <2>3, <3>1
  <2>5. off >= Len(d) => r = <<>>
    <3> HIDE DEF r
    <3>1. off >= Len(d) => Len(r) = 0
      BY <2>1, <2>3, <1>0
    <3> QED
      BY <2>3, <3>1
  <2>6. off + Len(r) <= Len(d)
    BY <2>1, <2>3
  <2> HIDE DEF r
  <2>7. /\ r \in Seq(Int)
        /\ off <= Len(d) => /\ off + Len(r) <= Len(d)
                            /\ r = SubSeq(d, off + 1, off + Len(r))
                            /\ r = <<>> => off = Len(d)
        /\ off >= Len(d) => r = <<>>
    BY <2>3, <2>4, <2>5, <2>6
  <2> QED
    BY <2>7 DEF r
<1>6. CASE off > Len(d)
  <2>1. n = 0
    BY <1>0, <1>1, <1>3, <1>6
  <2>2. SubSeq(d, off + 1, off + n) = <<>>
    BY <2>1, <1>0
  <2>3. SysRead(f, off, len) = <<>>
    BY <1>4, <2>2
  <2>4. ~(off <= Len(d)) /\ <<>> \in Seq(Int)
    BY <1>0, <1>6
  <2> QED
    BY <2>3, <2>4
<1> QED
  BY <1>0, <1>5, <1>6

-----------------------------------------------------------------------------
(* What a step leaves alone *)

LEMMA TouchesFacts ==
  ASSUME RunTypeOK, NEW f
  PROVE  /\ Touches(f) \in CpRuns
         /\ Touches(f).at = cp.at /\ Touches(f).src = cp.src /\ Touches(f).dst = cp.dst
         /\ Touches(f).in = cp.in /\ Touches(f).out = cp.out
         /\ Touches(f).buf = cp.buf /\ Touches(f).ret = cp.ret
         /\ Touches(f).alone => cp.alone /\ f # cp.src /\ f # cp.dst
<1> DEFINE b == cp.alone /\ f \notin {cp.src, cp.dst}
<1>1. Touches(f) = [cp EXCEPT !.alone = b]
  BY DEF Touches
<1>2. b \in BOOLEAN /\ (b => cp.alone /\ f # cp.src /\ f # cp.dst)
  OBVIOUS
<1> HIDE DEF b
<1> QED
  BY <1>1, <1>2 DEF RunTypeOK, CpRuns

\* cp, its entries and, while it is alone, its files are as they were.
SameRun ==
  /\ cp'.at = cp.at /\ cp'.src = cp.src /\ cp'.dst = cp.dst /\ cp'.in = cp.in /\ cp'.out = cp.out
  /\ cp'.buf = cp.buf /\ cp'.ret = cp.ret
  /\ cp'.alone => cp.alone
  /\ cp.at # "start" /\ cp'.alone => data'[cp.src] = data[cp.src] /\ data'[cp.dst] = data[cp.dst]
  /\ \A e \in {cp.in, cp.out} \ {0} : entry'[e] = entry[e]

LEMMA CopyFrame ==
  ASSUME Exclusive, CopyOK, SameRun
  PROVE  CopyOK'
<1>1. cp.at \in {"read", "write"} => entry'[cp.in] = entry[cp.in] /\ entry'[cp.out] = entry[cp.out]
  BY DEF SameRun, Exclusive
<1> SUFFICES ASSUME cp.src # cp.dst, cp'.alone
             PROVE  /\ cp.at \in {"read", "write"} => /\ entry'[cp.out].off = Len(data'[cp.dst])
                                                     /\ entry'[cp.in].off <= Len(data'[cp.src])
                    /\ cp.at = "read" => data'[cp.dst] = SubSeq(data'[cp.src], 1, entry'[cp.in].off)
                    /\ cp.at = "write" => data'[cp.dst] \o cp.buf = SubSeq(data'[cp.src], 1, entry'[cp.in].off)
                    /\ cp.at = "done" /\ cp.ret = 0 => data'[cp.dst] = data'[cp.src]
  BY DEF SameRun, CopyOK
<1>2. cp.at # "start" => data'[cp.src] = data[cp.src] /\ data'[cp.dst] = data[cp.dst]
  BY DEF SameRun
<1>3. cp.alone
  BY DEF SameRun
<1> QED
  BY <1>1, <1>2, <1>3 DEF CopyOK

LEMMA JobFrame ==
  ASSUME NEW g, JobOK(g), job'[g] = job[g], data'[g] = data[g],
         \A v \in job[g].by : has'[v] = has[v] /\ (has[v] # 0 => entry'[has[v]] = entry[has[v]])
  PROVE  JobOK(g)'
<1> SUFFICES ASSUME job[g].kept
             PROVE  /\ data'[g] = job[g].base \o job[g].log
                    /\ \A v \in job[g].by : /\ has'[v] # 0 /\ entry'[has'[v]].f = g
                                            /\ entry'[has'[v]].off = Len(data'[g])
                    /\ \A v, w \in job[g].by : has'[v] = has'[w]
  BY Zenon DEF JobOK
<1>1. /\ data[g] = job[g].base \o job[g].log
      /\ \A v \in job[g].by : has[v] # 0 /\ entry[has[v]].f = g /\ entry[has[v]].off = Len(data[g])
      /\ \A v, w \in job[g].by : has[v] = has[w]
  BY Zenon DEF JobOK
<1>2. \A v \in job[g].by : has'[v] = has[v] /\ entry'[has[v]] = entry[has[v]]
  BY <1>1, Zenon
<1>3. ASSUME NEW v \in job[g].by
      PROVE  /\ has'[v] # 0 /\ entry'[has'[v]].f = g
             /\ entry'[has'[v]].off = Len(data'[g])
  <2>1. PICK x : x = has[v]
    OBVIOUS
  <2>2. x # 0 /\ entry[x].f = g /\ entry[x].off = Len(data[g])
    BY <1>1, <2>1, Zenon
  <2>3. has'[v] = x /\ entry'[x] = entry[x]
    BY <1>2, <2>1, Zenon
  <2> QED
    BY <2>2, <2>3
<1>4. ASSUME NEW v \in job[g].by, NEW w \in job[g].by PROVE has'[v] = has'[w]
  BY <1>1, <1>2
<1> QED
  BY <1>1, <1>3, <1>4, Zenon

LEMMA JobSpoilt ==
  ASSUME NEW f \in Names, NEW g \in Names, job \in [Names -> Jobs], job' = Spoilt(f)
  PROVE  /\ job' \in [Names -> Jobs]
         /\ g = f => JobOK(g)'
         /\ g # f => job'[g] = job[g]
<1>1. NoJob \in Jobs /\ NoJob.kept = FALSE
  BY DEF NoJob, Jobs
<1>2. job' = [job EXCEPT ![f] = NoJob]
  BY DEF Spoilt
<1>3. job'[f] = NoJob /\ (g # f => job'[g] = job[g]) /\ job' \in [Names -> Jobs]
  BY <1>1, <1>2
<1> QED
  BY <1>1, <1>3 DEF JobOK

LEMMA EntryMoved ==
  ASSUME IoTypeOK, NEW e \in Entries, entry[e] \in OpenEntry, NEW k \in Nat,
         entry' = [entry EXCEPT ![e].off = k]
  PROVE  /\ entry' \in [Entries -> OpenEntry \cup {Unused}]
         /\ entry'[e] \in OpenEntry /\ entry'[e].f = entry[e].f /\ entry'[e].off = k
         /\ \A x \in Entries \ {e} : entry'[x] = entry[x]
<1>1. entry \in [Entries -> OpenEntry \cup {Unused}]
  BY DEF IoTypeOK
<1>2. entry' = [entry EXCEPT ![e] = [entry[e] EXCEPT !.off = k]]
  BY <1>1
<1>3. /\ [entry[e] EXCEPT !.off = k] \in OpenEntry /\ [entry[e] EXCEPT !.off = k].f = entry[e].f
      /\ [entry[e] EXCEPT !.off = k].off = k
  BY DEF OpenEntry
<1> QED
  BY <1>1, <1>2, <1>3

\* A user moves the offset k of its entry and leaves d in the file.
Moves(u, d, k) ==
  LET f == entry[has[u]].f IN
  /\ d \in Seq(Int) /\ k \in Nat
  /\ f \in Ram => k <= Limit + 1 /\ Len(d) <= Limit
  /\ entry' = [entry EXCEPT ![has[u]].off = k] /\ data' = [data EXCEPT ![f] = d] /\ has' = has
  /\ \/ cp' = Touches(f)
     \/ cp' = cp /\ d = data[f]
  /\ \/ job' = Spoilt(f)
     \/ job' = job /\ d = data[f] /\ k = entry[has[u]].off
     \/ /\ u \in job[f].by
        /\ \E s \in Seq(Int) :
             /\ job' = [job EXCEPT ![f].log = @ \o s]
             /\ entry[has[u]].off = Len(data[f]) => d = data[f] \o s /\ k = Len(data[f]) + Len(s)

LEMMA UserMoves ==
  ASSUME IoInv, NEW u \in Users, has[u] # 0, NEW d, NEW k, Moves(u, d, k),
         NEW e, e = has[u], NEW f, f = entry[e].f
  PROVE  IoInv'
<1>1. e \in Entries /\ entry[e] \in OpenEntry /\ f \in Names /\ e \notin {cp.in, cp.out}
  BY DEF IoInv, IoTypeOK, Exclusive, OpenEntry
<1>2. d \in Seq(Int) /\ k \in Nat /\ (f \in Ram => k <= Limit + 1 /\ Len(d) <= Limit)
  BY DEF Moves
<1>3. entry' = [entry EXCEPT ![e].off = k] /\ data' = [data EXCEPT ![f] = d] /\ has' = has
  BY DEF Moves
<1>4. \/ cp' = Touches(f)
      \/ cp' = cp /\ d = data[f]
  BY DEF Moves
<1>5. \/ job' = Spoilt(f)
      \/ job' = job /\ d = data[f] /\ k = entry[e].off
      \/ /\ u \in job[f].by
         /\ \E s \in Seq(Int) :
              /\ job' = [job EXCEPT ![f].log = @ \o s]
              /\ entry[e].off = Len(data[f]) => d = data[f] \o s /\ k = Len(data[f]) + Len(s)
  BY DEF Moves
<1>6. /\ entry' \in [Entries -> OpenEntry \cup {Unused}]
      /\ entry'[e] \in OpenEntry /\ entry'[e].f = f /\ entry'[e].off = k
      /\ \A x \in Entries \ {e} : entry'[x] = entry[x]
  BY <1>1, <1>2, <1>3, EntryMoved DEF IoInv
<1>7. data' \in [Names -> Seq(Int)] /\ data'[f] = d /\ \A g \in Names \ {f} : data'[g] = data[g]
  BY <1>1, <1>2, <1>3 DEF IoInv, IoTypeOK
<1>8. IoTypeOK'
  <2>1. \A g \in Ram : Len(data'[g]) <= Limit
    BY <1>2, <1>7 DEF IoInv, IoTypeOK, Names
  <2>2. \A x \in Entries : entry'[x] # Unused /\ entry'[x].f \in Ram => entry'[x].off <= Limit + 1
    BY <1>2, <1>6 DEF IoInv, IoTypeOK
  <2> QED
    BY <1>3, <1>6, <1>7, <2>1, <2>2 DEF IoInv, IoTypeOK
<1>9. SameRun /\ cp' \in CpRuns
  <2>1. CASE cp' = Touches(f)
    <3>1. /\ cp' \in CpRuns
          /\ cp'.at = cp.at /\ cp'.src = cp.src /\ cp'.dst = cp.dst /\ cp'.in = cp.in /\ cp'.out = cp.out
          /\ cp'.buf = cp.buf /\ cp'.ret = cp.ret
          /\ cp'.alone => cp.alone /\ f # cp.src /\ f # cp.dst
      BY <2>1, TouchesFacts DEF IoInv
    <3>2. \A x \in {cp.in, cp.out} \ {0} : x \in Entries \ {e}
      BY <1>1 DEF IoInv, RunTypeOK, CpRuns
    <3>3. cp.at # "start" => cp.src \in Names /\ cp.dst \in Names
      BY DEF IoInv, RunTypeOK
    <3> QED
      BY <3>1, <3>2, <3>3, <1>6, <1>7 DEF SameRun
  <2>2. CASE cp' = cp /\ d = data[f]
    <3>1. data' = data
      BY <2>2, <1>1, <1>3 DEF IoInv, IoTypeOK
    <3>2. \A x \in {cp.in, cp.out} \ {0} : x \in Entries \ {e}
      BY <1>1 DEF IoInv, RunTypeOK, CpRuns
    <3>3. cp \in CpRuns
      BY DEF IoInv, RunTypeOK
    <3> QED
      BY <2>2, <3>1, <3>2, <3>3, <1>6 DEF SameRun
  <2> QED
    BY <1>4, <2>1, <2>2
<1>10. CopyOK'
  BY <1>9, CopyFrame DEF IoInv
<1>11. Exclusive'
  <2>1. \A v \in Users : has[v] # 0 => entry'[has[v]] \in OpenEntry
    BY <1>1, <1>6 DEF IoInv, IoTypeOK, Exclusive
  <2> QED
    <3>1. \A v \in Users : has'[v] # 0 => entry'[has'[v]] \in OpenEntry /\ has'[v] \notin {cp'.in, cp'.out}
      BY <1>3, <1>9, <2>1 DEF IoInv, Exclusive, SameRun
    <3>2. \A x \in {cp.in, cp.out} \ {0} : entry'[x] = entry[x]
      BY <1>9 DEF SameRun
    <3>3. /\ cp'.at = cp.at /\ cp'.src = cp.src /\ cp'.dst = cp.dst /\ cp'.in = cp.in /\ cp'.out = cp.out
      BY <1>9 DEF SameRun
    <3>4. /\ \A x \in {cp.in, cp.out} \ {0} : entry[x] \in OpenEntry
          /\ cp.in # 0 => cp.in # cp.out
          /\ cp.at \in {"openOut", "read", "write"} => cp.in # 0 /\ entry[cp.in].f = cp.src
          /\ cp.at = "openOut" => entry[cp.in].off = 0
          /\ cp.at \in {"read", "write"} => cp.out # 0 /\ entry[cp.out].f = cp.dst
      BY DEF IoInv, Exclusive
    <3> QED
      BY <3>1, <3>2, <3>3, <3>4 DEF Exclusive
<1>12. job' \in [Names -> Jobs] /\ \A g \in Names : JobOK(g)'
  <2>0. job \in [Names -> Jobs]
    BY DEF IoInv, RunTypeOK
  <2>1. ASSUME NEW g \in Names, g # f, job'[g] = job[g] PROVE JobOK(g)'
    <3>1. CASE ~job[g].kept
      BY <3>1, <2>1 DEF JobOK
    <3>2. CASE job[g].kept
      <4>1. \A v \in job[g].by : v \in Users /\ has[v] # 0 /\ entry[has[v]].f = g
        BY <3>2, <2>0 DEF IoInv, JobOK, Jobs
      <4>2. \A v \in job[g].by : has[v] \in Entries \ {e}
        BY <4>1, <2>1 DEF IoInv, IoTypeOK
      <4>3. data'[g] = data[g] /\ \A v \in job[g].by : has'[v] = has[v] /\ entry'[has[v]] = entry[has[v]]
        BY <4>2, <1>3, <1>6, <1>7, <2>1
      <4> QED
        BY <4>3, <2>1, JobFrame DEF IoInv
    <3> QED
      BY <3>1, <3>2
  <2>2. CASE job' = Spoilt(f)
    BY <2>0, <2>1, <2>2, <1>1, JobSpoilt
  <2>3. CASE job' = job /\ d = data[f] /\ k = entry[e].off
    <3>1. data' = data
      BY <2>3, <1>1, <1>3 DEF IoInv, IoTypeOK
    <3>2. entry' = entry
      <4>1. [entry[e] EXCEPT !.off = k] = entry[e]
        BY <2>3, <1>1 DEF OpenEntry
      <4>2. entry' = [entry EXCEPT ![e] = [entry[e] EXCEPT !.off = k]]
        BY <1>1, <1>3 DEF IoInv, IoTypeOK
      <4> QED
        BY <4>1, <4>2, <1>1 DEF IoInv, IoTypeOK
    <3> QED
      BY <2>0, <2>3, <3>1, <3>2, <1>3, JobFrame DEF IoInv
  <2>4. ASSUME u \in job[f].by, NEW s \in Seq(Int), job' = [job EXCEPT ![f].log = @ \o s],
               entry[e].off = Len(data[f]) => d = data[f] \o s /\ k = Len(data[f]) + Len(s)
        PROVE  job' \in [Names -> Jobs] /\ \A g \in Names : JobOK(g)'
    <3> DEFINE j == [job[f] EXCEPT !.log = job[f].log \o s]
    <3>1. job' = [job EXCEPT ![f] = j]
      BY <2>0, <2>4, <1>1
    <3>2. job[f] \in Jobs
      BY <2>0, <1>1
    <3>3. job[f].base \in Seq(Int) /\ job[f].log \in Seq(Int) /\ job[f].by \subseteq Users
      BY <3>2 DEF Jobs
    <3>4. /\ j \in Jobs /\ j.by = job[f].by /\ j.base = job[f].base
          /\ j.log = job[f].log \o s
          /\ j.kept => job[f].kept
      <4>1. job[f].log \o s \in Seq(Int)
        BY <3>3, <2>4, ConcatFacts
      <4> DEFINE l == job[f].log \o s
      <4> HIDE DEF l
      <4>2. [job[f] EXCEPT !.log = l].kept = job[f].kept
        BY <3>2, Zenon DEF Jobs
      <4>3. ASSUME l \in Seq(Int)
            PROVE  /\ [job[f] EXCEPT !.log = l] \in Jobs /\ [job[f] EXCEPT !.log = l].by = job[f].by
                   /\ [job[f] EXCEPT !.log = l].base = job[f].base /\ [job[f] EXCEPT !.log = l].log = l
        BY <3>2, <4>3 DEF Jobs
      <4> QED
        BY <4>1, <4>2, <4>3, Zenon DEF j, l
    <3> HIDE DEF j
    <3>5. job' \in [Names -> Jobs] /\ job'[f] = j /\ \A g \in Names \ {f} : job'[g] = job[g]
      BY <2>0, <3>1, <3>4, <1>1
    <3>6. ASSUME job[f].kept PROVE JobOK(f)'
      <4>1. /\ data[f] = job[f].base \o job[f].log
            /\ \A v \in job[f].by : has[v] # 0 /\ entry[has[v]].f = f /\ entry[has[v]].off = Len(data[f])
            /\ \A v, w \in job[f].by : has[v] = has[w]
        BY <3>6, <1>1 DEF IoInv, JobOK
      <4>2. d = data[f] \o s /\ k = Len(data[f]) + Len(s)
        BY <4>1, <2>4
      <4>3. d = job[f].base \o (job[f].log \o s) /\ Len(d) = k
        <5>1. (job[f].base \o job[f].log) \o s = job[f].base \o (job[f].log \o s)
          <6>1. job[f].base \in Seq(Int) /\ job[f].log \in Seq(Int) /\ s \in Seq(Int)
            BY <3>3, <2>4
          <6>2. Joined(Joined(job[f].base, job[f].log), s) = Joined(job[f].base, Joined(job[f].log, s))
            BY <6>1, JoinedAssociates
          <6> QED
            BY <6>2, Zenon DEF Joined
        <5>2. data[f] \in Seq(Int)
          BY <1>1 DEF IoInv, IoTypeOK
        <5>3. Len(data[f] \o s) = Len(data[f]) + Len(s)
          BY <5>2, <2>4, ConcatFacts
        <5> QED
          BY <4>1, <4>2, <5>1, <5>3
      <4>4. \A v \in job[f].by : has[v] = e
        BY <4>1, <2>4
      <4>5. /\ data'[f] = job'[f].base \o job'[f].log
            /\ \A v \in job'[f].by : /\ has'[v] # 0 /\ entry'[has'[v]].f = f
                                     /\ entry'[has'[v]].off = Len(data'[f])
            /\ \A v, w \in job'[f].by : has'[v] = has'[w]
        <5>1. \A v \in job'[f].by : has'[v] = e
          BY <4>4, <3>4, <3>5, <1>3
        <5>2. data'[f] = job'[f].base \o job'[f].log
          BY <4>3, <3>4, <3>5, <1>7
        <5>3. e # 0 /\ entry'[e].f = f /\ entry'[e].off = Len(data'[f])
          BY <4>3, <1>1, <1>6, <1>7, IoConstants DEF Entries
        <5> QED
          BY <5>1, <5>2, <5>3, Zenon
      <4> QED
        BY <4>5, Zenon DEF JobOK
    <3>7. ASSUME ~job[f].kept PROVE JobOK(f)'
      BY <3>7, <3>4, <3>5, Zenon DEF JobOK
    <3>8. JobOK(f)'
      BY <3>6, <3>7, Zenon
    <3> QED
      BY <2>1, <3>5, <3>8
  <2> QED
    BY <1>5, <2>2, <2>3, <2>4
<1>13. RunTypeOK'
  BY <1>9, <1>12 DEF IoInv, RunTypeOK, SameRun
<1> QED
  BY <1>8, <1>10, <1>11, <1>12, <1>13 DEF IoInv

-----------------------------------------------------------------------------
(* The calls of the users *)

LEMMA UserEntry ==
  ASSUME IoInv, NEW u \in Users, has[u] # 0, NEW e, e = has[u], NEW f, f = entry[e].f
  PROVE  /\ e \in Entries /\ entry[e] \in OpenEntry /\ f \in Names /\ entry[e].off \in Nat
         /\ data[f] \in Seq(Int) /\ Len(data[f]) \in Nat
         /\ f \in Ram => Len(data[f]) <= Limit /\ entry[e].off <= Limit + 1
         /\ [data EXCEPT ![f] = data[f]] = data
<1>1. e \in Entries /\ entry[e] \in OpenEntry
  BY DEF IoInv, IoTypeOK, Exclusive
<1>2. f \in Names /\ entry[e].off \in Nat /\ entry[e] # Unused
  BY <1>1 DEF OpenEntry, Unused
<1> QED
  BY <1>1, <1>2 DEF IoInv, IoTypeOK

LEMMA UserWriteStep ==
  ASSUME IoInv, NEW u \in Users, NEW n \in 1 .. BufSize, NEW room \in Rooms, UserWrite(u, n, room)
  PROVE  IoInv'
<1>1. PICK e, f : e = has[u] /\ f = entry[e].f
  OBVIOUS
<1> DEFINE s == [i \in 1 .. n |-> u]
           w == SysWrite(f, entry[e].off, s, room)
<1>2. /\ has[u] # 0 /\ has' = has
      /\ data' = [data EXCEPT ![f] = w.data] /\ entry' = [entry EXCEPT ![e].off = w.off]
      /\ job' = IF w.ret < 0 THEN Spoilt(f) ELSE Logged(u, f, [i \in 1 .. w.ret |-> u])
      /\ cp' = Touches(f)
  BY <1>1 DEF UserWrite
<1>3. /\ e \in Entries /\ f \in Names /\ entry[e].off \in Nat
      /\ data[f] \in Seq(Int) /\ Len(data[f]) \in Nat
      /\ f \in Ram => Len(data[f]) <= Limit /\ entry[e].off <= Limit + 1
  BY <1>1, <1>2, UserEntry
<1>4. room \in Nat /\ u \in Int /\ n \in Nat /\ Limit \in Nat
  BY IoConstants
<1>5. s \in Seq(Int) /\ Len(s) = n
  BY <1>4
<1>6. PICK k \in Nat : Stores(w, f, data[f], entry[e].off, s, k)
  <2> HIDE DEF s
  <2> QED
    BY <1>3, <1>4, <1>5, SysWriteStores
<1> DEFINE t == SubSeq(s, 1, k)
<1>7. t \in Seq(Int) /\ Len(t) = k /\ t = [i \in 1 .. k |-> u] /\ k <= n
  <2>1. k <= n
    BY <1>5, <1>6 DEF Stores
  <2> QED
    BY <2>1, <1>4
<1> HIDE DEF s, t, w
<1>8. /\ w.ret \in {-1, k} /\ w.data = Put(data[f], entry[e].off, t) /\ w.off = entry[e].off + k
      /\ f \in Ram /\ k > 0 => entry[e].off + k <= Limit
  BY <1>6 DEF Stores, t
<1>9. /\ w.data \in Seq(Int)
      /\ Len(w.data) = IF t = <<>> \/ Len(data[f]) >= entry[e].off + Len(t)
                       THEN Len(data[f]) ELSE entry[e].off + Len(t)
      /\ entry[e].off = Len(data[f]) => w.data = data[f] \o t
  <2> DEFINE p == Put(data[f], entry[e].off, t)
  <2>1. /\ p \in Seq(Int)
        /\ Len(p) = IF t = <<>> \/ Len(data[f]) >= entry[e].off + Len(t)
                    THEN Len(data[f]) ELSE entry[e].off + Len(t)
        /\ entry[e].off = Len(data[f]) => p = data[f] \o t
    BY <1>3, <1>7, PutFacts, Zenon
  <2>2. w.data = p
    BY <1>8
  <2> HIDE DEF p
  <2> QED
    BY <2>1, <2>2
<1>10. f \in Ram => w.off <= Limit + 1 /\ Len(w.data) <= Limit
  <2> SUFFICES ASSUME f \in Ram PROVE w.off <= Limit + 1 /\ Len(w.data) <= Limit
    OBVIOUS
  <2>1. k = 0 => t = <<>>
    BY <1>7
  <2>2. k > 0 => entry[e].off + k <= Limit
    BY <1>8
  <2>3. w.off = entry[e].off + k
    BY <1>8
  <2>4. w.off <= Limit + 1
    BY <2>2, <2>3, <1>3, <1>4
  <2>5. Len(w.data) = Len(data[f]) \/ (k > 0 /\ Len(w.data) = entry[e].off + k)
    BY <2>1, <1>7, <1>9
  <2> QED
    BY <2>2, <2>4, <2>5, <1>3
<1>11. w.off \in Nat
  BY <1>3, <1>8
<1>12. \/ job' = Spoilt(f)
       \/ /\ u \in job[f].by
          /\ \E x \in Seq(Int) :
               /\ job' = [job EXCEPT ![f].log = @ \o x]
               /\ entry[e].off = Len(data[f]) => w.data = data[f] \o x /\ w.off = Len(data[f]) + Len(x)
  <2>1. CASE job' # Spoilt(f)
    <3>1. w.ret = k
      BY <2>1, <1>2, <1>8
    <3>2. u \in job[f].by /\ job' = [job EXCEPT ![f].log = @ \o t]
      BY <2>1, <3>1, <1>2, <1>7 DEF Logged
    <3> QED
      BY <3>2, <1>7, <1>8, <1>9
  <2> QED
    BY <2>1
<1>13. Moves(u, w.data, w.off)
  BY <1>1, <1>2, <1>9, <1>10, <1>11, <1>12 DEF Moves
<1> QED
  BY <1>1, <1>2, <1>13, UserMoves

LEMMA UserReadStep ==
  ASSUME IoInv, NEW u \in Users, NEW n \in 1 .. BufSize, UserRead(u, n)
  PROVE  IoInv'
<1>1. PICK e, f : e = has[u] /\ f = entry[e].f
  OBVIOUS
<1> DEFINE gain == Len(SysRead(f, entry[e].off, n))
<1>2. /\ has[u] # 0 /\ has' = has /\ data' = data /\ cp' = cp
      /\ gain > 0 /\ entry' = [entry EXCEPT ![e].off = @ + gain] /\ job' = Spoilt(f)
  BY <1>1 DEF UserRead
<1>3. /\ e \in Entries /\ f \in Names /\ entry[e].off \in Nat
      /\ data[f] \in Seq(Int) /\ Len(data[f]) \in Nat
      /\ f \in Ram => Len(data[f]) <= Limit /\ entry[e].off <= Limit + 1
      /\ [data EXCEPT ![f] = data[f]] = data
  BY <1>1, <1>2, UserEntry
<1>4. n \in Nat \ {0} /\ Limit \in Nat
  BY IoConstants
<1>5. /\ SysRead(f, entry[e].off, n) \in Seq(Int)
      /\ entry[e].off <= Len(data[f]) => entry[e].off + gain <= Len(data[f])
      /\ entry[e].off >= Len(data[f]) => SysRead(f, entry[e].off, n) = <<>>
  BY <1>3, <1>4, SysReadFacts
<1>6. gain \in Nat /\ (entry[e].off >= Len(data[f]) => gain = 0)
  BY <1>5
<1> HIDE DEF gain
<1>7. f \in Ram => entry[e].off + gain <= Limit + 1
  BY <1>2, <1>3, <1>4, <1>5, <1>6
<1>8. entry' = [entry EXCEPT ![e].off = entry[e].off + gain]
  BY <1>2, <1>3 DEF IoInv, IoTypeOK
<1>9. Moves(u, data[f], entry[e].off + gain)
  BY <1>1, <1>2, <1>3, <1>6, <1>7, <1>8 DEF Moves
<1> QED
  BY <1>1, <1>2, <1>9, UserMoves

LEMMA SysLseekStep ==
  ASSUME IoInv, NEW u \in Users, NEW delta, NEW whence, SysLseek(u, delta, whence)
  PROVE  IoInv'
<1>1. PICK e, f : e = has[u] /\ f = entry[e].f
  OBVIOUS
<1>2. PICK to : /\ to \in 0 .. IF f \in Ram THEN Limit + 1 ELSE Len(data[f])
                /\ entry' = [entry EXCEPT ![e].off = to]
                /\ job' = IF to = entry[e].off THEN job ELSE Spoilt(f)
  BY <1>1 DEF SysLseek
<1>3. has[u] # 0 /\ has' = has /\ data' = data /\ cp' = cp
  BY DEF SysLseek
<1>4. /\ data[f] \in Seq(Int) /\ Len(data[f]) \in Nat
      /\ f \in Ram => Len(data[f]) <= Limit
      /\ [data EXCEPT ![f] = data[f]] = data
  BY <1>1, <1>3, UserEntry
<1>5. to \in Nat /\ (f \in Ram => to <= Limit + 1)
  BY <1>2, <1>4, IoConstants
<1>6. Moves(u, data[f], to)
  BY <1>1, <1>2, <1>3, <1>4, <1>5 DEF Moves
<1> QED
  BY <1>1, <1>3, <1>6, UserMoves

LEMMA SysFtruncateStep ==
  ASSUME IoInv, NEW u \in Users, NEW size \in {0, 1, Limit}, SysFtruncate(u, size)
  PROVE  IoInv'
<1>1. PICK e, f : e = has[u] /\ f = entry[e].f
  OBVIOUS
<1>2. /\ has[u] # 0 /\ has' = has
      /\ data' = [data EXCEPT ![f] = Cut(@, size)]
      /\ entry' = [entry EXCEPT ![e].off = Min({@, size})]
      /\ job' = Spoilt(f) /\ cp' = Touches(f)
  BY <1>1 DEF SysFtruncate
<1>3. /\ e \in Entries /\ f \in Names /\ entry[e].off \in Nat /\ data[f] \in Seq(Int)
      /\ f \in Ram => entry[e].off <= Limit + 1
  BY <1>1, <1>2, UserEntry
<1>4. size \in Nat /\ size <= Limit
  BY IoConstants
<1>5. Cut(data[f], size) \in Seq(Int) /\ Len(Cut(data[f], size)) = size
  BY <1>3, <1>4, CutFacts
<1> DEFINE k == Min({entry[e].off, size})
<1>6. k = IF entry[e].off <= size THEN entry[e].off ELSE size
  BY <1>3, <1>4, MinMaxOfTwo
<1>7. entry' = [entry EXCEPT ![e].off = k] /\ data' = [data EXCEPT ![f] = Cut(data[f], size)]
  BY <1>2, <1>3 DEF IoInv, IoTypeOK
<1> HIDE DEF k
<1>8. k \in Nat /\ (f \in Ram => k <= Limit + 1)
  BY <1>3, <1>4, <1>6, IoConstants
<1>9. Moves(u, Cut(data[f], size), k)
  BY <1>1, <1>2, <1>4, <1>5, <1>7, <1>8 DEF Moves
<1> QED
  BY <1>1, <1>2, <1>9, UserMoves

LEMMA SysOpenatStep ==
  ASSUME IoInv, NEW u \in Users, NEW f \in Names, NEW how, SysOpenat(u, f, how)
  PROVE  IoInv'
<1>1. PICK d, off, mode :
        /\ d \in {<<>>, data[f]} /\ off \in {0, Len(d)} /\ mode \in {"rw", "w"}
        /\ data' = [data EXCEPT ![f] = d]
        /\ cp' = IF d = data[f] THEN cp ELSE Touches(f)
        /\ \/ \E e \in Entries :
                /\ Lowest(e)
                /\ entry' = [entry EXCEPT ![e] = [f |-> f, off |-> off, mode |-> mode]]
                /\ has' = [has EXCEPT ![u] = e]
                /\ job' = IF off = Len(d) THEN Began(u, f, d) ELSE Spoilt(f)
           \/ job' = Spoilt(f) /\ has' = has /\ entry' = entry
  <2> DEFINE d0 == IF data[f] = Absent \/ how = "trunc" THEN <<>> ELSE data[f]
             off0 == IF how = "append" THEN Len(d0) ELSE 0
             mode0 == IF how = "both" THEN "rw" ELSE "w"
  <2>1. d0 \in {<<>>, data[f]} /\ off0 \in {0, Len(d0)} /\ mode0 \in {"rw", "w"}
    OBVIOUS
  <2>2. /\ data' = [data EXCEPT ![f] = d0]
        /\ cp' = IF d0 = data[f] THEN cp ELSE Touches(f)
        /\ \/ \E e \in Entries :
                /\ Lowest(e)
                /\ entry' = [entry EXCEPT ![e] = [f |-> f, off |-> off0, mode |-> mode0]]
                /\ has' = [has EXCEPT ![u] = e]
                /\ job' = IF off0 = Len(d0) THEN Began(u, f, d0) ELSE Spoilt(f)
           \/ job' = Spoilt(f) /\ has' = has /\ entry' = entry
    BY Zenon DEF SysOpenat
  <2> HIDE DEF d0, off0, mode0
  <2> QED
    BY <2>1, <2>2
<1>2. has[u] = 0
  BY DEF SysOpenat
<1>3. /\ data \in [Names -> Seq(Int)] /\ entry \in [Entries -> OpenEntry \cup {Unused}]
      /\ has \in [Users -> Entries \cup {0}] /\ job \in [Names -> Jobs]
  BY DEF IoInv, IoTypeOK, RunTypeOK
<1>4. /\ data' \in [Names -> Seq(Int)] /\ data'[f] = d /\ \A g \in Names \ {f} : data'[g] = data[g]
      /\ d \in Seq(Int) /\ Len(d) \in Nat /\ (f \in Ram => Len(d) <= Limit)
  <2>1. d \in Seq(Int) /\ Len(d) \in Nat
    <3>1. <<>> \in Seq(Int) /\ data[f] \in Seq(Int)
      BY <1>3
    <3>2. d \in Seq(Int)
      BY <3>1, <1>1
    <3> QED
      BY <3>2
  <2>2. f \in Ram => Len(d) <= Limit
    <3>1. CASE d = <<>>
      BY <3>1, IoConstants
    <3>2. CASE d = data[f]
      BY <3>2 DEF IoInv, IoTypeOK
    <3> QED
      BY <3>1, <3>2, <1>1
  <2> QED
    BY <2>1, <2>2, <1>1, <1>3
<1>5. \A g \in Ram : Len(data'[g]) <= Limit
  BY <1>4 DEF IoInv, IoTypeOK, Names
<1>6. /\ cp' \in CpRuns
      /\ cp'.at = cp.at /\ cp'.src = cp.src /\ cp'.dst = cp.dst /\ cp'.in = cp.in /\ cp'.out = cp.out
      /\ cp'.buf = cp.buf /\ cp'.ret = cp.ret
      /\ cp'.alone => cp.alone
      /\ cp.at # "start" /\ cp'.alone => data'[cp.src] = data[cp.src] /\ data'[cp.dst] = data[cp.dst]
  <2>1. cp.at # "start" => cp.src \in Names /\ cp.dst \in Names
    BY DEF IoInv, RunTypeOK
  <2>2. CASE d = data[f]
    <3>1. cp' = cp /\ data' = data
      BY <2>2, <1>1, <1>3
    <3> QED
      BY <3>1 DEF IoInv, RunTypeOK
  <2>3. CASE d # data[f]
    <3>1. cp' = Touches(f)
      BY <2>3, <1>1
    <3>2. /\ cp' \in CpRuns
          /\ cp'.at = cp.at /\ cp'.src = cp.src /\ cp'.dst = cp.dst /\ cp'.in = cp.in /\ cp'.out = cp.out
          /\ cp'.buf = cp.buf /\ cp'.ret = cp.ret
          /\ cp'.alone => cp.alone /\ f # cp.src /\ f # cp.dst
      BY <3>1, TouchesFacts DEF IoInv
    <3> QED
      BY <3>2, <2>1, <1>4
  <2> QED
    BY <2>2, <2>3
<1>7. ASSUME NEW g \in Names, g # f, job'[g] = job[g],
             \A v \in job[g].by : has'[v] = has[v] /\ (has[v] # 0 => entry'[has[v]] = entry[has[v]])
      PROVE  JobOK(g)'
  BY <1>4, <1>7, JobFrame DEF IoInv
<1>8. CASE job' = Spoilt(f) /\ has' = has /\ entry' = entry
  <2>1. IoTypeOK'
    BY <1>3, <1>4, <1>5, <1>8 DEF IoInv, IoTypeOK
  <2>2. RunTypeOK' /\ \A g \in Names : JobOK(g)'
    <3>1. job' \in [Names -> Jobs] /\ \A g \in Names : JobOK(g)'
      <4>1. SUFFICES ASSUME NEW g \in Names PROVE job' \in [Names -> Jobs] /\ JobOK(g)'
        OBVIOUS
      <4> QED
        BY <1>3, <1>7, <1>8, JobSpoilt
    <3> QED
      BY <1>6, <3>1 DEF IoInv, RunTypeOK
  <2>3. CopyOK'
    <3>1. SameRun
      BY <1>6, <1>8 DEF SameRun
    <3> QED
      BY <3>1, CopyFrame DEF IoInv
  <2>4. Exclusive'
    BY <1>6, <1>8 DEF IoInv, Exclusive
  <2> QED
    BY <2>1, <2>2, <2>3, <2>4 DEF IoInv
<1>9. ASSUME NEW e \in Entries, Lowest(e),
             entry' = [entry EXCEPT ![e] = [f |-> f, off |-> off, mode |-> mode]],
             has' = [has EXCEPT ![u] = e],
             job' = IF off = Len(d) THEN Began(u, f, d) ELSE Spoilt(f)
      PROVE  IoInv'
  <2>1. e \notin {cp.in, cp.out} /\ e # 0 /\ \A v \in Users : has[v] # e
    BY <1>9, IoConstants DEF Lowest, Taken, Entries
  <2> DEFINE o == [f |-> f, off |-> off, mode |-> mode]
  <2>2. o \in OpenEntry /\ o.f = f /\ o.off = off /\ (f \in Ram => off <= Limit + 1)
    BY <1>1, <1>4, IoConstants DEF OpenEntry
  <2> HIDE DEF o
  <2>3. /\ entry' \in [Entries -> OpenEntry \cup {Unused}] /\ entry'[e] = o
        /\ \A x \in Entries \ {e} : entry'[x] = entry[x]
    BY <1>3, <1>9, <2>2 DEF o
  <2>4. has' \in [Users -> Entries \cup {0}] /\ has'[u] = e /\ \A v \in Users \ {u} : has'[v] = has[v]
    BY <1>3, <1>9
  <2>5. IoTypeOK'
    <3>1. \A x \in Entries : entry'[x] # Unused /\ entry'[x].f \in Ram => entry'[x].off <= Limit + 1
      BY <2>2, <2>3 DEF IoInv, IoTypeOK
    <3> QED
      BY <1>4, <1>5, <2>3, <2>4, <3>1 DEF IoTypeOK
  <2>6. \A x \in {cp.in, cp.out} \ {0} : x \in Entries \ {e}
    BY <2>1 DEF IoInv, RunTypeOK, CpRuns
  <2>7. SameRun
    BY <1>6, <2>3, <2>6 DEF SameRun
  <2>8. CopyOK'
    BY <2>7, CopyFrame DEF IoInv
  <2>9. Exclusive'
    <3>1. \A v \in Users : has'[v] # 0 => entry'[has'[v]] \in OpenEntry /\ has'[v] \notin {cp'.in, cp'.out}
      <4> SUFFICES ASSUME NEW v \in Users, has'[v] # 0
                   PROVE  entry'[has'[v]] \in OpenEntry /\ has'[v] \notin {cp'.in, cp'.out}
        OBVIOUS
      <4>1. CASE v = u
        BY <4>1, <1>6, <2>1, <2>2, <2>3, <2>4
      <4>2. CASE v # u
        <5>1. has'[v] = has[v] /\ has[v] \in Entries \ {e}
          BY <4>2, <1>3, <2>1, <2>4
        <5> QED
          BY <5>1, <1>6, <2>3 DEF IoInv, Exclusive
      <4> QED
        BY <4>1, <4>2
    <3>2. \A x \in {cp.in, cp.out} \ {0} : entry'[x] = entry[x]
      BY <2>3, <2>6
    <3>3. /\ \A x \in {cp.in, cp.out} \ {0} : entry[x] \in OpenEntry
          /\ cp.in # 0 => cp.in # cp.out
          /\ cp.at \in {"openOut", "read", "write"} => cp.in # 0 /\ entry[cp.in].f = cp.src
          /\ cp.at = "openOut" => entry[cp.in].off = 0
          /\ cp.at \in {"read", "write"} => cp.out # 0 /\ entry[cp.out].f = cp.dst
      BY DEF IoInv, Exclusive
    <3> QED
      BY <1>6, <3>1, <3>2, <3>3 DEF Exclusive
  <2>10. job' \in [Names -> Jobs] /\ \A g \in Names : JobOK(g)'
    <3>1. ASSUME NEW g \in Names, g # f, job'[g] = job[g] PROVE JobOK(g)'
      <4>1. CASE ~job[g].kept
        BY <4>1, <3>1 DEF JobOK
      <4>2. CASE job[g].kept
        <5>1. \A v \in job[g].by : v \in Users /\ has[v] # 0
          BY <4>2, <1>3 DEF IoInv, JobOK, Jobs
        <5>2. \A v \in job[g].by : has[v] \in Entries \ {e} /\ v # u
          BY <5>1, <1>2, <1>3, <2>1
        <5>3. \A v \in job[g].by : has'[v] = has[v] /\ entry'[has[v]] = entry[has[v]]
          BY <5>1, <5>2, <2>3, <2>4
        <5> QED
          BY <5>3, <3>1, <1>7
      <4> QED
        BY <4>1, <4>2
    <3>2. CASE job' = Spoilt(f)
      <4> SUFFICES ASSUME NEW g \in Names PROVE job' \in [Names -> Jobs] /\ JobOK(g)'
        OBVIOUS
      <4> QED
        BY <1>3, <3>1, <3>2, JobSpoilt
    <3>3. CASE off = Len(d) /\ job' = Began(u, f, d)
      <4> DEFINE j == [by |-> {u}, base |-> d, log |-> <<>>, kept |-> TRUE]
      <4>1. j \in Jobs /\ j.by = {u} /\ j.base = d /\ j.log = <<>>
        BY <1>4 DEF Jobs
      <4>2. job' = [job EXCEPT ![f] = j]
        BY <3>3 DEF Began
      <4> HIDE DEF j
      <4>3. job' \in [Names -> Jobs] /\ job'[f] = j /\ \A g \in Names \ {f} : job'[g] = job[g]
        BY <1>3, <4>1, <4>2
      <4>4. JobOK(f)'
        <5>1. data'[f] = job'[f].base \o job'[f].log
          <6>1. d \o <<>> = d
            BY <1>4
          <6> QED
            BY <6>1, <1>4, <4>1, <4>3
        <5>2. \A v \in job'[f].by : has'[v] = e
          BY <2>4, <4>1, <4>3
        <5>3. entry'[e].f = f /\ entry'[e].off = Len(data'[f])
          BY <3>3, <1>4, <2>2, <2>3
        <5> QED
          BY <5>1, <5>2, <5>3, <2>1, Zenon DEF JobOK
      <4> QED
        BY <3>1, <4>3, <4>4
    <3> QED
      BY <3>2, <3>3, <1>9
  <2>11. RunTypeOK'
    BY <1>6, <2>10 DEF IoInv, RunTypeOK
  <2> QED
    BY <2>5, <2>8, <2>9, <2>10, <2>11 DEF IoInv
<1> QED
  BY <1>1, <1>8, <1>9

LEMMA SysForkStep ==
  ASSUME IoInv, NEW u \in Users, NEW v \in Users, SysFork(u, v)
  PROVE  IoInv'
<1>1. /\ u # v /\ has[v] = 0 /\ has[u] # 0
      /\ has' = [has EXCEPT ![v] = has[u]] /\ entry' = entry /\ data' = data /\ cp' = cp
      /\ job' = [f \in DOMAIN job |-> IF u \in job[f].by THEN [job[f] EXCEPT !.by = @ \cup {v}] ELSE job[f]]
  <2>1. PICK x \in ForkShares(u) : has' = [has EXCEPT ![v] = x[1]] /\ entry' = x[2]
    BY DEF SysFork
  <2>2. has[u] # 0 /\ x[1] = has[u] /\ x[2] = entry
    BY <2>1 DEF ForkShares
  <2> QED
    BY <2>1, <2>2 DEF SysFork
<1>2. has \in [Users -> Entries \cup {0}] /\ job \in [Names -> Jobs]
  BY DEF IoInv, IoTypeOK, RunTypeOK
<1>3. has' \in [Users -> Entries \cup {0}] /\ has'[v] = has[u] /\ \A x \in Users \ {v} : has'[x] = has[x]
  BY <1>1, <1>2
<1>4. IoTypeOK' /\ CopyOK'
  BY <1>1, <1>3 DEF IoInv, IoTypeOK, CopyOK
<1>5. Exclusive'
  <2>1. \A x \in Users : \E y \in Users : has'[x] = has[y]
    BY <1>3
  <2>2. \A x \in Users : has'[x] # 0 => entry[has'[x]] \in OpenEntry /\ has'[x] \notin {cp.in, cp.out}
    BY <2>1 DEF IoInv, Exclusive
  <2> QED
    BY <1>1, <2>2 DEF IoInv, Exclusive
<1>6. ASSUME NEW g \in Names
      PROVE  /\ job'[g] \in Jobs /\ job'[g].base = job[g].base /\ job'[g].log = job[g].log
             /\ job'[g].kept => job[g].kept
             /\ \A x \in job'[g].by : \/ x \in job[g].by
                                      \/ x = v /\ u \in job[g].by
  <2>1. CASE u \notin job[g].by
    BY <2>1, <1>1, <1>2
  <2>2. CASE u \in job[g].by
    <3> DEFINE j == job[g]
    <3>1. j \in Jobs
      BY <1>2
    <3>2. job'[g] = [j EXCEPT !.by = j.by \cup {v}]
      BY <2>2, <1>1, <1>2
    <3> HIDE DEF j
    <3> DEFINE b == j.by \cup {v}
    <3>3. b \in SUBSET Users
      BY <3>1 DEF Jobs
    <3> HIDE DEF b
    <3>4. /\ [j EXCEPT !.by = b] \in Jobs /\ [j EXCEPT !.by = b].by = b
          /\ [j EXCEPT !.by = b].base = j.base /\ [j EXCEPT !.by = b].log = j.log
      BY <3>1, <3>3 DEF Jobs
    <3>5. [j EXCEPT !.by = b].kept = j.kept
      BY <3>1, Zenon DEF Jobs
    <3>6. /\ job'[g] \in Jobs /\ job'[g].base = j.base /\ job'[g].log = j.log /\ job'[g].by = b
      BY <3>2, <3>4 DEF b
    <3>7. job'[g].kept => j.kept
      BY <3>2, <3>5, Zenon DEF b
    <3> QED
      BY <3>6, <3>7, <2>2 DEF b, j
  <2> QED
    BY <2>1, <2>2
<1>7. ASSUME NEW g \in Names PROVE JobOK(g)'
  <2>1. CASE ~job'[g].kept
    BY <2>1, Zenon DEF JobOK
  <2>2. CASE job'[g].kept
    <3>1. /\ data[g] = job[g].base \o job[g].log
          /\ \A x \in job[g].by : has[x] # 0 /\ entry[has[x]].f = g /\ entry[has[x]].off = Len(data[g])
          /\ \A x, y \in job[g].by : has[x] = has[y]
      BY <2>2, <1>6 DEF IoInv, JobOK
    <3>2. \A x \in job'[g].by : \E y \in job[g].by : has'[x] = has[y]
      <4> SUFFICES ASSUME NEW x \in job'[g].by PROVE \E y \in job[g].by : has'[x] = has[y]
        OBVIOUS
      <4>0. x \in Users
        BY <1>6 DEF Jobs
      <4>1. CASE x = v
        <5>1. u \in job[g].by \/ v \in job[g].by
          BY <4>1, <1>6
        <5>2. v \notin job[g].by
          BY <3>1, <1>1
        <5> QED
          BY <5>1, <5>2, <4>1, <1>3
      <4>2. CASE x # v
        BY <4>0, <4>2, <1>3, <1>6
      <4> QED
        BY <4>1, <4>2
    <3>3. \A x, y \in job'[g].by : has'[x] = has'[y]
      BY <3>1, <3>2
    <3>4. ASSUME NEW x \in job'[g].by
          PROVE  has'[x] # 0 /\ entry'[has'[x]].f = g /\ entry'[has'[x]].off = Len(data'[g])
      <4>1. PICK y \in job[g].by : has'[x] = has[y]
        BY <3>2
      <4>2. has[y] # 0 /\ entry[has[y]].f = g /\ entry[has[y]].off = Len(data[g])
        BY <3>1
      <4> QED
        BY <4>1, <4>2, <1>1
    <3>5. data'[g] = job'[g].base \o job'[g].log
      BY <3>1, <1>1, <1>6
    <3> QED
      BY <3>3, <3>4, <3>5, Zenon DEF JobOK
  <2> QED
    BY <2>1, <2>2
<1>8. RunTypeOK'
  <2>1. job' \in [Names -> Jobs]
    <3>1. DOMAIN job' = Names /\ \A g \in Names : job'[g] \in Jobs
      BY <1>1, <1>2, <1>6
    <3>2. job' = [g \in Names |-> job'[g]]
      BY <1>1, <1>2
    <3> QED
      BY <3>1, <3>2
  <2> QED
    BY <1>1, <2>1 DEF IoInv, RunTypeOK
<1> QED
  BY <1>4, <1>5, <1>7, <1>8 DEF IoInv

LEMMA SysCloseFileStep ==
  ASSUME IoInv, NEW u \in Users, SysCloseFile(u)
  PROVE  IoInv'
<1>1. /\ has' = [has EXCEPT ![u] = 0] /\ entry' = entry /\ data' = data /\ cp' = cp
      /\ job' = [f \in DOMAIN job |-> [job[f] EXCEPT !.by = @ \ {u}]]
  BY DEF SysCloseFile
<1>2. has \in [Users -> Entries \cup {0}] /\ job \in [Names -> Jobs]
  BY DEF IoInv, IoTypeOK, RunTypeOK
<1>3. has' \in [Users -> Entries \cup {0}] /\ has'[u] = 0 /\ \A x \in Users \ {u} : has'[x] = has[x]
  BY <1>1, <1>2
<1>4. IoTypeOK' /\ CopyOK'
  BY <1>1, <1>3 DEF IoInv, IoTypeOK, CopyOK
<1>5. Exclusive'
  <2>1. \A x \in Users : has'[x] # 0 => has'[x] = has[x]
    BY <1>3
  <2>2. \A x \in Users : has'[x] # 0 => entry[has'[x]] \in OpenEntry /\ has'[x] \notin {cp.in, cp.out}
    BY <2>1 DEF IoInv, Exclusive
  <2> QED
    BY <1>1, <2>2 DEF IoInv, Exclusive
<1>6. ASSUME NEW g \in Names
      PROVE  /\ job'[g] \in Jobs /\ job'[g].base = job[g].base /\ job'[g].log = job[g].log
             /\ job'[g].kept => job[g].kept
             /\ \A x \in job'[g].by : x \in job[g].by /\ x # u
  <2> DEFINE j == job[g]
  <2>1. j \in Jobs
    BY <1>2
  <2>2. job'[g] = [j EXCEPT !.by = j.by \ {u}]
    BY <1>1, <1>2
  <2> HIDE DEF j
  <2> DEFINE b == j.by \ {u}
  <2>3. b \in SUBSET Users
    BY <2>1 DEF Jobs
  <2> HIDE DEF b
  <2>4. /\ [j EXCEPT !.by = b] \in Jobs /\ [j EXCEPT !.by = b].by = b
        /\ [j EXCEPT !.by = b].base = j.base /\ [j EXCEPT !.by = b].log = j.log
    BY <2>1, <2>3 DEF Jobs
  <2>5. [j EXCEPT !.by = b].kept = j.kept
    BY <2>1, Zenon DEF Jobs
  <2>6. job'[g] \in Jobs /\ job'[g].base = j.base /\ job'[g].log = j.log /\ job'[g].by = b
    BY <2>2, <2>4 DEF b
  <2>7. job'[g].kept => j.kept
    BY <2>2, <2>5, Zenon DEF b
  <2> QED
    BY <2>6, <2>7 DEF b, j
<1>7. ASSUME NEW g \in Names PROVE JobOK(g)'
  <2>1. CASE ~job'[g].kept
    BY <2>1, Zenon DEF JobOK
  <2>2. CASE job'[g].kept
    <3>1. /\ data[g] = job[g].base \o job[g].log
          /\ \A x \in job[g].by : has[x] # 0 /\ entry[has[x]].f = g /\ entry[has[x]].off = Len(data[g])
          /\ \A x, y \in job[g].by : has[x] = has[y]
      BY <2>2, <1>6 DEF IoInv, JobOK
    <3>2. \A x \in job'[g].by : x \in job[g].by /\ has'[x] = has[x]
      BY <1>2, <1>3, <1>6 DEF Jobs
    <3>3. \A x, y \in job'[g].by : has'[x] = has'[y]
      BY <3>1, <3>2
    <3>4. ASSUME NEW x \in job'[g].by
          PROVE  has'[x] # 0 /\ entry'[has'[x]].f = g /\ entry'[has'[x]].off = Len(data'[g])
      <4>1. x \in job[g].by /\ has'[x] = has[x]
        BY <3>2
      <4>2. has[x] # 0 /\ entry[has[x]].f = g /\ entry[has[x]].off = Len(data[g])
        BY <4>1, <3>1
      <4> QED
        BY <4>1, <4>2, <1>1
    <3>5. data'[g] = job'[g].base \o job'[g].log
      BY <3>1, <1>1, <1>6
    <3> QED
      BY <3>3, <3>4, <3>5, Zenon DEF JobOK
  <2> QED
    BY <2>1, <2>2
<1>8. RunTypeOK'
  <2>1. job' \in [Names -> Jobs]
    <3>1. DOMAIN job' = Names /\ \A g \in Names : job'[g] \in Jobs
      BY <1>1, <1>2, <1>6
    <3>2. job' = [g \in Names |-> job'[g]]
      BY <1>1, <1>2
    <3> QED
      BY <3>1, <3>2
  <2> QED
    BY <1>1, <2>1 DEF IoInv, RunTypeOK
<1> QED
  BY <1>4, <1>5, <1>7, <1>8 DEF IoInv

-----------------------------------------------------------------------------
(* The steps of cp *)

LEMMA CpStatStep ==
  ASSUME IoInv, NEW src \in Names, NEW dst \in Names, CpStat(src, dst), has' = has
  PROVE  IoInv'
<1>1. /\ cp.at = "start" /\ data' = data /\ entry' = entry /\ job' = job /\ has' = has
      /\ \E at \in {"openIn", "ask"} : cp' = [cp EXCEPT !.src = src, !.dst = dst, !.at = at]
  BY DEF CpStat
<1>2. cp \in CpRuns
  BY DEF IoInv, RunTypeOK
<1>3. /\ cp' \in CpRuns /\ cp'.src = src /\ cp'.dst = dst /\ cp'.at \in {"openIn", "ask"}
      /\ cp'.in = cp.in /\ cp'.out = cp.out
  <2>1. PICK at \in {"openIn", "ask"} : cp' = [cp EXCEPT !.src = src, !.dst = dst, !.at = at]
    BY <1>1
  <2> QED
    BY <2>1, <1>2 DEF CpRuns
<1>4. IoTypeOK'
  BY <1>1 DEF IoInv, IoTypeOK
<1>5. RunTypeOK'
  BY <1>1, <1>3 DEF IoInv, RunTypeOK
<1>6. Exclusive'
  BY <1>1, <1>3 DEF IoInv, Exclusive
<1>7. CopyOK'
  BY <1>3 DEF CopyOK
<1>8. \A g \in Names : JobOK(g)'
  BY <1>1, JobFrame DEF IoInv
<1> QED
  BY <1>4, <1>5, <1>6, <1>7, <1>8 DEF IoInv

LEMMA ConfirmStep ==
  ASSUME IoInv, NEW yes \in BOOLEAN, confirm_overwrite(yes), has' = has
  PROVE  IoInv'
<1>1. /\ cp.at = "ask" /\ data' = data /\ entry' = entry /\ job' = job /\ has' = has
      /\ \E at \in {"openIn", "kept"} : cp' = [cp EXCEPT !.at = at]
  BY DEF confirm_overwrite
<1>2. cp \in CpRuns /\ cp.src \in Names /\ cp.dst \in Names
  BY <1>1 DEF IoInv, RunTypeOK
<1>3. /\ cp' \in CpRuns /\ cp'.src = cp.src /\ cp'.dst = cp.dst /\ cp'.at \in {"openIn", "kept"}
      /\ cp'.in = cp.in /\ cp'.out = cp.out
  BY <1>1, <1>2 DEF CpRuns
<1>4. IoTypeOK'
  BY <1>1 DEF IoInv, IoTypeOK
<1>5. RunTypeOK'
  BY <1>1, <1>2, <1>3 DEF IoInv, RunTypeOK
<1>6. Exclusive'
  BY <1>1, <1>3 DEF IoInv, Exclusive
<1>7. CopyOK'
  BY <1>3 DEF CopyOK
<1>8. \A g \in Names : JobOK(g)'
  BY <1>1, JobFrame DEF IoInv
<1> QED
  BY <1>4, <1>5, <1>6, <1>7, <1>8 DEF IoInv

\* cp ends with an error, or with 0 when it has copied everything.
LEMMA CpEnds ==
  ASSUME IoInv, cp.at # "start", has' = has, NEW ret \in Int, CpReturn(ret),
         IoTypeOK', job' \in [Names -> Jobs], \A g \in Names : JobOK(g)',
         \A u \in Users : has[u] # 0 => entry'[has[u]] \in OpenEntry,
         ret = 0 /\ cp.src # cp.dst /\ cp.alone => data'[cp.dst] = data'[cp.src]
  PROVE  IoInv'
<1>1. cp \in CpRuns /\ cp.src \in Names /\ cp.dst \in Names
  BY DEF IoInv, RunTypeOK
<1>2. cp' = [cp EXCEPT !.at = "done", !.ret = ret, !.in = 0, !.out = 0]
  BY DEF CpReturn
<1>3. /\ cp' \in CpRuns /\ cp'.src = cp.src /\ cp'.dst = cp.dst /\ cp'.at = "done"
      /\ cp'.in = 0 /\ cp'.out = 0 /\ cp'.ret = ret
  BY <1>1, <1>2 DEF CpRuns
<1>4. cp'.alone => cp.alone
  BY <1>1, <1>2, Zenon DEF CpRuns
<1>5. RunTypeOK'
  BY <1>1, <1>3 DEF RunTypeOK
<1>6. Exclusive'
  BY <1>3 DEF Exclusive
<1>7. CopyOK'
  BY <1>3, <1>4 DEF CopyOK
<1> QED
  BY <1>5, <1>6, <1>7 DEF IoInv

\* What cp does to an entry of its own leaves the users' jobs alone.
LEMMA CpEntryFrame ==
  ASSUME IoInv, has' = has, NEW e \in Entries, \A u \in Users : has[u] # e,
         \A x \in Entries \ {e} : entry'[x] = entry[x],
         NEW g \in Names, job'[g] = job[g], data'[g] = data[g]
  PROVE  JobOK(g)'
<1>1. job[g] \in Jobs
  BY DEF IoInv, RunTypeOK
<1>2. ASSUME NEW v \in job[g].by
      PROVE  has'[v] = has[v] /\ (has[v] # 0 => entry'[has[v]] = entry[has[v]])
  <2>1. v \in Users
    BY <1>1 DEF Jobs
  <2> QED
    BY <2>1 DEF IoInv, IoTypeOK
<1> QED
  BY <1>2, JobFrame DEF IoInv

LEMMA CpOpenInStep ==
  ASSUME IoInv, CpOpenIn, has' = has
  PROVE  IoInv'
<1>0. cp.at = "openIn" /\ data' = data /\ job' = job
  BY DEF CpOpenIn
<1>1. CASE CpReturn(-1) /\ entry' = entry
  <2>1. IoTypeOK' /\ job' \in [Names -> Jobs]
    BY <1>0, <1>1 DEF IoInv, IoTypeOK, RunTypeOK
  <2>2. \A g \in Names : JobOK(g)'
    BY <1>0, <1>1, JobFrame DEF IoInv
  <2>3. \A u \in Users : has[u] # 0 => entry'[has[u]] \in OpenEntry
    BY <1>1 DEF IoInv, Exclusive
  <2> QED
    BY <1>0, <1>1, <2>1, <2>2, <2>3, CpEnds
<1>2. ASSUME NEW e \in Entries, Lowest(e),
             entry' = [entry EXCEPT ![e] = [f |-> cp.src, off |-> 0, mode |-> "r"]],
             cp' = [cp EXCEPT !.at = "openOut", !.in = e]
      PROVE  IoInv'
  <2>1. e \notin {cp.in, cp.out} /\ e # 0 /\ \A v \in Users : has[v] # e
    BY <1>2, IoConstants DEF Lowest, Taken, Entries
  <2>2. cp \in CpRuns /\ cp.src \in Names /\ cp.dst \in Names /\ entry \in [Entries -> OpenEntry \cup {Unused}]
    BY <1>0 DEF IoInv, IoTypeOK, RunTypeOK
  <2> DEFINE o == [f |-> cp.src, off |-> 0, mode |-> "r"]
  <2>3. o \in OpenEntry /\ o.f = cp.src /\ o.off = 0
    BY <2>2 DEF OpenEntry
  <2>4. entry' = [entry EXCEPT ![e] = o]
    BY <1>2
  <2> HIDE DEF o
  <2>5. /\ entry' \in [Entries -> OpenEntry \cup {Unused}] /\ entry'[e] = o
        /\ \A x \in Entries \ {e} : entry'[x] = entry[x]
    BY <2>2, <2>3, <2>4
  <2>6. /\ cp' \in CpRuns /\ cp'.at = "openOut" /\ cp'.in = e /\ cp'.out = cp.out
        /\ cp'.src = cp.src /\ cp'.dst = cp.dst
    BY <1>2, <2>2 DEF CpRuns
  <2>7. IoTypeOK'
    <3>1. \A x \in Entries : entry'[x] # Unused /\ entry'[x].f \in Ram => entry'[x].off <= Limit + 1
      BY <2>3, <2>5, IoConstants DEF IoInv, IoTypeOK
    <3> QED
      BY <1>0, <2>5, <3>1 DEF IoInv, IoTypeOK
  <2>8. \A g \in Names : JobOK(g)'
    BY <1>0, <2>1, <2>5, CpEntryFrame
  <2>9. RunTypeOK'
    BY <1>0, <2>2, <2>6 DEF IoInv, RunTypeOK
  <2>10. CopyOK'
    BY <2>6 DEF CopyOK
  <2>11. Exclusive'
    <3>1. \A v \in Users : has'[v] # 0 => entry'[has'[v]] \in OpenEntry /\ has'[v] \notin {cp'.in, cp'.out}
      BY <2>1, <2>5, <2>6 DEF IoInv, IoTypeOK, Exclusive
    <3>2. \A x \in {cp'.in, cp'.out} \ {0} : entry'[x] \in OpenEntry
      BY <2>1, <2>2, <2>3, <2>5, <2>6 DEF IoInv, Exclusive, CpRuns
    <3> QED
      BY <2>1, <2>3, <2>5, <2>6, <3>1, <3>2 DEF Exclusive
  <2> QED
    BY <2>7, <2>8, <2>9, <2>10, <2>11 DEF IoInv
<1> QED
  BY <1>1, <1>2 DEF CpOpenIn

LEMMA CpOpenOutStep ==
  ASSUME IoInv, CpOpenOut, has' = has
  PROVE  IoInv'
<1>1. PICK e \in Entries :
        /\ Lowest(e)
        /\ data' = [data EXCEPT ![cp.dst] = <<>>]
        /\ entry' = [entry EXCEPT ![e] = [f |-> cp.dst, off |-> 0, mode |-> "w"]]
        /\ job' = Spoilt(cp.dst)
        /\ cp' = [cp EXCEPT !.at = "read", !.out = e, !.alone = TRUE]
  BY DEF CpOpenOut
<1>2. /\ cp.at = "openOut" /\ cp \in CpRuns /\ cp.src \in Names /\ cp.dst \in Names
      /\ entry \in [Entries -> OpenEntry \cup {Unused}] /\ data \in [Names -> Seq(Int)]
      /\ job \in [Names -> Jobs]
  BY DEF CpOpenOut, IoInv, IoTypeOK, RunTypeOK
<1>3. e \notin {cp.in, cp.out} /\ e # 0 /\ \A v \in Users : has[v] # e
  BY <1>1, IoConstants DEF Lowest, Taken, Entries
<1>4. PICK dst : dst = cp.dst
  OBVIOUS
<1> DEFINE o == [f |-> dst, off |-> 0, mode |-> "w"]
<1>5. o \in OpenEntry /\ o.f = dst /\ o.off = 0
  BY <1>2, <1>4 DEF OpenEntry
<1>6. entry' = [entry EXCEPT ![e] = o]
  BY <1>1, <1>4
<1> HIDE DEF o
<1>7. /\ entry' \in [Entries -> OpenEntry \cup {Unused}] /\ entry'[e] = o
      /\ \A x \in Entries \ {e} : entry'[x] = entry[x]
  BY <1>2, <1>5, <1>6
<1>8. /\ cp' \in CpRuns /\ cp'.at = "read" /\ cp'.in = cp.in /\ cp'.out = e
      /\ cp'.src = cp.src /\ cp'.dst = dst
  BY <1>1, <1>2, <1>4 DEF CpRuns
<1>9. data' \in [Names -> Seq(Int)] /\ data'[dst] = <<>> /\ \A g \in Names \ {dst} : data'[g] = data[g]
  BY <1>1, <1>2, <1>4
<1>10. IoTypeOK'
  <2>1. \A x \in Entries : entry'[x] # Unused /\ entry'[x].f \in Ram => entry'[x].off <= Limit + 1
    BY <1>5, <1>7, IoConstants DEF IoInv, IoTypeOK
  <2>2. \A f \in Ram : Len(data'[f]) <= Limit
    BY <1>9, IoConstants DEF IoInv, IoTypeOK, Names
  <2>3. has' \in [Users -> Entries \cup {0}]
    BY DEF IoInv, IoTypeOK
  <2> QED
    BY <1>7, <1>9, <2>1, <2>2, <2>3 DEF IoTypeOK
<1>11. job' \in [Names -> Jobs] /\ \A g \in Names : JobOK(g)'
  <2> SUFFICES ASSUME NEW g \in Names PROVE job' \in [Names -> Jobs] /\ JobOK(g)'
    BY <1>2
  <2>1. job' = Spoilt(dst) /\ dst \in Names
    BY <1>1, <1>2, <1>4
  <2>2. /\ job' \in [Names -> Jobs]
        /\ g = dst => JobOK(g)'
        /\ g # dst => job'[g] = job[g]
    BY <2>1, <1>2, JobSpoilt
  <2>3. g # dst => JobOK(g)'
    BY <2>2, <1>3, <1>7, <1>9, CpEntryFrame
  <2> QED
    BY <2>2, <2>3
<1>12. RunTypeOK'
  BY <1>2, <1>4, <1>8, <1>11 DEF RunTypeOK
<1>13. cp.in \in Entries \ {e} /\ entry[cp.in] \in OpenEntry /\ entry[cp.in].f = cp.src /\ entry[cp.in].off = 0
  BY <1>2, <1>3 DEF IoInv, Exclusive, CpRuns
<1>14. Exclusive'
  <2>1. \A v \in Users : has'[v] # 0 => entry'[has'[v]] \in OpenEntry /\ has'[v] \notin {cp'.in, cp'.out}
    BY <1>3, <1>7, <1>8 DEF IoInv, IoTypeOK, Exclusive
  <2>2. entry'[cp'.in] = entry[cp.in] /\ entry'[cp'.out] = o
    BY <1>7, <1>8, <1>13
  <2>3. cp'.in # 0 /\ cp'.in # cp'.out /\ cp'.out # 0
    BY <1>3, <1>8, <1>13, IoConstants DEF Entries
  <2> QED
    BY <2>1, <2>2, <2>3, <1>5, <1>8, <1>13 DEF Exclusive
<1>15. CopyOK'
  <2>1. cp.src # dst => data'[cp.src] = data[cp.src] /\ data[cp.src] \in Seq(Int)
    BY <1>2, <1>9
  <2>2. entry'[cp.in].off = 0 /\ entry'[e].off = 0
    BY <1>5, <1>7, <1>13
  <2>3. cp.src # dst => Len(data'[cp.src]) >= 0 /\ SubSeq(data'[cp.src], 1, 0) = <<>>
    BY <2>1
  <2> QED
    BY <2>2, <2>3, <1>8, <1>9 DEF CopyOK
<1> QED
  BY <1>10, <1>11, <1>12, <1>14, <1>15 DEF IoInv

LEMMA CpNoOutStep ==
  ASSUME IoInv, CpNoOut, has' = has
  PROVE  IoInv'
<1>1. /\ cp.at = "openOut" /\ CpReturn(-1) /\ entry' = entry
      /\ \/ data' = data /\ job' = job
         \/ data' = [data EXCEPT ![cp.dst] = <<>>] /\ job' = Spoilt(cp.dst)
  BY DEF CpNoOut
<1>2. \A u \in Users : has[u] # 0 => entry'[has[u]] \in OpenEntry
  BY <1>1 DEF IoInv, Exclusive
<1>3. /\ data \in [Names -> Seq(Int)] /\ job \in [Names -> Jobs] /\ cp.dst \in Names
      /\ \A f \in Ram : Len(data[f]) <= Limit
  BY <1>1 DEF IoInv, IoTypeOK, RunTypeOK
<1>4. CASE data' = data /\ job' = job
  <2>1. IoTypeOK'
    BY <1>1, <1>4 DEF IoInv, IoTypeOK
  <2>2. \A g \in Names : JobOK(g)'
    BY <1>1, <1>4, JobFrame DEF IoInv
  <2> QED
    BY <1>1, <1>2, <1>3, <1>4, <2>1, <2>2, CpEnds
<1>5. CASE data' = [data EXCEPT ![cp.dst] = <<>>] /\ job' = Spoilt(cp.dst)
  <2>1. PICK dst \in Names : dst = cp.dst
    BY <1>3
  <2>2. data' \in [Names -> Seq(Int)] /\ data'[dst] = <<>> /\ \A g \in Names \ {dst} : data'[g] = data[g]
    BY <1>3, <1>5, <2>1
  <2>3. \A f \in Ram : Len(data'[f]) <= Limit
    <3> SUFFICES ASSUME NEW f \in Ram PROVE Len(data'[f]) <= Limit
      OBVIOUS
    <3>1. CASE f = dst
      BY <3>1, <2>2, IoConstants
    <3>2. CASE f # dst
      BY <3>2, <1>3, <2>2 DEF Names
    <3> QED
      BY <3>1, <3>2
  <2>4. IoTypeOK'
    BY <1>1, <2>2, <2>3 DEF IoInv, IoTypeOK
  <2>5. job' \in [Names -> Jobs] /\ \A g \in Names : JobOK(g)'
    <3> SUFFICES ASSUME NEW g \in Names PROVE job' \in [Names -> Jobs] /\ JobOK(g)'
      OBVIOUS
    <3>1. /\ job' \in [Names -> Jobs]
          /\ g = dst => JobOK(g)'
          /\ g # dst => job'[g] = job[g]
      BY <1>3, <1>5, <2>1, JobSpoilt
    <3>2. g # dst => JobOK(g)'
      BY <3>1, <2>2, <1>1, JobFrame DEF IoInv
    <3> QED
      BY <3>1, <3>2
  <2> QED
    BY <1>1, <1>2, <2>4, <2>5, CpEnds
<1> QED
  BY <1>1, <1>4, <1>5

LEMMA CpReadStep ==
  ASSUME IoInv, CpRead, has' = has
  PROVE  IoInv'
<1>1. PICK src, dst, e, k : src = cp.src /\ dst = cp.dst /\ e = cp.in /\ k = entry[cp.in].off
  OBVIOUS
<1> DEFINE s == SysRead(src, k, BufSize)
<1>2. /\ cp.at = "read" /\ data' = data /\ job' = job
      /\ \/ s = <<>> /\ CpReturn(0) /\ entry' = entry
         \/ /\ s # <<>> /\ cp' = [cp EXCEPT !.at = "write", !.buf = s]
            /\ entry' = [entry EXCEPT ![e].off = @ + Len(s)]
  BY <1>1 DEF CpRead
<1>3. /\ cp \in CpRuns /\ src \in Names /\ dst \in Names /\ job \in [Names -> Jobs]
      /\ entry \in [Entries -> OpenEntry \cup {Unused}] /\ data[src] \in Seq(Int)
  BY <1>1, <1>2 DEF IoInv, IoTypeOK, RunTypeOK
<1>4. /\ e \in Entries /\ entry[e] \in OpenEntry /\ entry[e].f = src /\ k \in Nat /\ entry[e].off = k
      /\ e # cp.out /\ cp.out \in Entries /\ \A v \in Users : has[v] # e
      /\ entry[cp.out] \in OpenEntry /\ entry[cp.out].f = dst
  <2>1. e # 0 /\ e \in Entries /\ cp.out # 0 /\ cp.out \in Entries /\ entry[e] \in OpenEntry
    BY <1>1, <1>2, <1>3 DEF IoInv, Exclusive, CpRuns
  <2> QED
    BY <2>1, <1>1, <1>2, <1>3 DEF IoInv, Exclusive, OpenEntry
<1>5. /\ s \in Seq(Int)
      /\ k <= Len(data[src]) =>
           /\ k + Len(s) <= Len(data[src])
           /\ s = SubSeq(data[src], k + 1, k + Len(s))
           /\ s = <<>> => k = Len(data[src])
      /\ k >= Len(data[src]) => s = <<>>
  <2>1. BufSize \in Nat \ {0}
    BY IoConstants
  <2>2. data[src] \in Seq(Int) /\ k \in Nat
    BY <1>3, <1>4
  <2> QED
    BY <2>1, <2>2, SysReadFacts
<1> HIDE DEF s
<1>6. CopyOK
  BY DEF IoInv
<1>7. CASE s = <<>> /\ CpReturn(0) /\ entry' = entry
  <2>1. IoTypeOK'
    BY <1>2, <1>7 DEF IoInv, IoTypeOK
  <2>2. \A g \in Names : JobOK(g)'
    BY <1>2, <1>7, JobFrame DEF IoInv
  <2>3. ASSUME src # dst, cp.alone PROVE data'[dst] = data'[src]
    <3>1. k <= Len(data[src]) /\ data[dst] = SubSeq(data[src], 1, k)
      BY <2>3, <1>1, <1>2, <1>6 DEF CopyOK
    <3>2. k = Len(data[src])
      BY <3>1, <1>5, <1>7
    <3>3. SubSeq(data[src], 1, Len(data[src])) = data[src]
      BY <1>3
    <3> QED
      BY <3>1, <3>2, <3>3, <1>2
  <2>4. \A u \in Users : has[u] # 0 => entry'[has[u]] \in OpenEntry
    BY <1>7 DEF IoInv, Exclusive
  <2> QED
    BY <1>1, <1>2, <1>3, <1>7, <2>1, <2>2, <2>3, <2>4, CpEnds
<1>8. CASE /\ s # <<>> /\ cp' = [cp EXCEPT !.at = "write", !.buf = s]
           /\ entry' = [entry EXCEPT ![e].off = @ + Len(s)]
  <2>1. k <= Len(data[src]) /\ k + Len(s) <= Len(data[src]) /\ Len(s) \in Nat
    BY <1>3, <1>4, <1>5, <1>8
  <2>2. entry' = [entry EXCEPT ![e].off = k + Len(s)] /\ k + Len(s) \in Nat
    BY <1>3, <1>4, <1>8, <2>1
  <2>3. /\ entry' \in [Entries -> OpenEntry \cup {Unused}]
        /\ entry'[e] \in OpenEntry /\ entry'[e].f = src /\ entry'[e].off = k + Len(s)
        /\ \A x \in Entries \ {e} : entry'[x] = entry[x]
    BY <1>4, <2>2, EntryMoved DEF IoInv
  <2>4. /\ cp' \in CpRuns /\ cp'.at = "write" /\ cp'.buf = s /\ cp'.in = e /\ cp'.out = cp.out
        /\ cp'.src = src /\ cp'.dst = dst
    BY <1>1, <1>3, <1>5, <1>8 DEF CpRuns
  <2>5. cp'.alone => cp.alone
    BY <1>3, <1>8, Zenon DEF CpRuns
  <2>6. IoTypeOK'
    <3>1. src \in Ram => k + Len(s) <= Limit + 1
      <4>1. src \in Ram => Len(data[src]) <= Limit
        BY DEF IoInv, IoTypeOK
      <4> QED
        BY <4>1, <2>1, <1>3, <1>4, IoConstants
    <3>2. \A x \in Entries : entry'[x] # Unused /\ entry'[x].f \in Ram => entry'[x].off <= Limit + 1
      BY <3>1, <2>3 DEF IoInv, IoTypeOK
    <3> QED
      BY <1>2, <2>3, <3>2 DEF IoInv, IoTypeOK
  <2>7. \A g \in Names : JobOK(g)'
    BY <1>2, <1>4, <2>3, CpEntryFrame
  <2>8. RunTypeOK'
    BY <1>2, <1>3, <2>4 DEF IoInv, RunTypeOK
  <2>9. Exclusive'
    <3>1. \A v \in Users : has'[v] # 0 => entry'[has'[v]] \in OpenEntry /\ has'[v] \notin {cp'.in, cp'.out}
      BY <1>1, <1>4, <2>3, <2>4 DEF IoInv, IoTypeOK, Exclusive
    <3>2. entry'[cp'.out] = entry[cp.out] /\ e # 0 /\ cp.out # 0
      BY <1>4, <2>3, <2>4, IoConstants DEF Entries
    <3> QED
      BY <3>1, <3>2, <1>4, <2>3, <2>4 DEF Exclusive
  <2>10. CopyOK'
    <3> SUFFICES ASSUME src # dst, cp.alone
                 PROVE  /\ entry'[cp.out].off = Len(data[dst]) /\ k + Len(s) <= Len(data[src])
                        /\ data[dst] \o s = SubSeq(data[src], 1, k + Len(s))
      BY <1>2, <2>3, <2>4, <2>5 DEF CopyOK
    <3>1. entry[cp.out].off = Len(data[dst]) /\ data[dst] = SubSeq(data[src], 1, k)
      BY <1>1, <1>2, <1>6 DEF CopyOK
    <3>2. s = SubSeq(data[src], k + 1, k + Len(s))
      BY <1>5, <2>1
    <3>3. SubSeq(data[src], 1, k) \o SubSeq(data[src], k + 1, k + Len(s)) = SubSeq(data[src], 1, k + Len(s))
      <4>1. PICK n \in Nat : n = k + Len(s)
        BY <2>2
      <4>2. k <= n /\ n <= Len(data[src])
        BY <1>4, <2>1, <4>1
      <4>3. SubSeq(data[src], 1, k) \o SubSeq(data[src], k + 1, n) = SubSeq(data[src], 1, n)
        BY <1>3, <1>4, <4>2, PartsJoin
      <4> QED
        BY <4>1, <4>3
    <3>4. entry'[cp.out] = entry[cp.out]
      BY <1>4, <2>3
    <3> QED
      BY <2>1, <3>1, <3>2, <3>3, <3>4
  <2> QED
    BY <2>6, <2>7, <2>8, <2>9, <2>10 DEF IoInv
<1> QED
  BY <1>2, <1>7, <1>8

LEMMA CpWriteStep ==
  ASSUME IoInv, NEW room \in Rooms, CpWrite(room), has' = has
  PROVE  IoInv'
<1>1. PICK src, dst, e, off, b :
        src = cp.src /\ dst = cp.dst /\ e = cp.out /\ off = entry[cp.out].off /\ b = cp.buf
  OBVIOUS
<1> DEFINE w == SysWrite(dst, off, b, room)
<1>2. /\ cp.at = "write"
      /\ data' = [data EXCEPT ![dst] = w.data] /\ entry' = [entry EXCEPT ![e].off = w.off]
      /\ job' = Spoilt(dst)
      /\ IF w.ret < 0 THEN CpReturn(-1)
         ELSE cp' = [cp EXCEPT !.buf = CpRest(w), !.at = IF CpRest(w) = <<>> THEN "read" ELSE "write"]
  BY <1>1 DEF CpWrite
<1>3. /\ cp \in CpRuns /\ src \in Names /\ dst \in Names /\ job \in [Names -> Jobs] /\ b \in Seq(Int)
      /\ data \in [Names -> Seq(Int)] /\ data[dst] \in Seq(Int) /\ Len(data[dst]) \in Nat
      /\ data[src] \in Seq(Int)
  BY <1>1, <1>2 DEF IoInv, IoTypeOK, RunTypeOK, CpRuns
<1>4. /\ e \in Entries /\ entry[e] \in OpenEntry /\ entry[e].f = dst /\ off \in Nat /\ entry[e].off = off
      /\ e # cp.in /\ cp.in \in Entries /\ \A v \in Users : has[v] # e
      /\ entry[cp.in] \in OpenEntry /\ entry[cp.in].f = src
  <2>1. e # 0 /\ e \in Entries /\ cp.in # 0 /\ cp.in \in Entries /\ entry[e] \in OpenEntry
    BY <1>1, <1>2, <1>3 DEF IoInv, Exclusive, CpRuns
  <2> QED
    BY <2>1, <1>1, <1>2, <1>3 DEF IoInv, Exclusive, OpenEntry
<1>5. PICK k \in Nat : Stores(w, dst, data[dst], off, b, k)
  <2>1. room \in Nat
    BY IoConstants
  <2> QED
    BY <2>1, <1>3, <1>4, SysWriteStores
<1> DEFINE t == SubSeq(b, 1, k)
           r == SubSeq(b, k + 1, Len(b))
<1>6. /\ k \in 0 .. Len(b) /\ w.ret \in {-1, k} /\ w.data = Put(data[dst], off, t) /\ w.off = off + k
      /\ dst \in Ram /\ k > 0 => off + k <= Limit
  BY <1>5 DEF Stores
<1>7. /\ t \in Seq(Int) /\ Len(t) = k /\ r \in Seq(Int) /\ t \o r = b
  <2>1. k <= Len(b) /\ Len(b) \in Nat /\ Len(b) <= Len(b)
    BY <1>3, <1>6
  <2>2. t \in Seq(Int) /\ Len(t) = k /\ r \in Seq(Int)
    BY <1>3, <2>1
  <2>3. t \o r = SubSeq(b, 1, Len(b))
    BY <1>3, <2>1, PartsJoin
  <2>4. SubSeq(b, 1, Len(b)) = b
    BY <1>3
  <2> QED
    BY <2>2, <2>3, <2>4
<1>8. w.ret = k => CpRest(w) = r
  BY <1>1 DEF CpRest
<1> HIDE DEF w, t, r
<1>9. /\ w.data \in Seq(Int)
      /\ Len(w.data) = IF t = <<>> \/ Len(data[dst]) >= off + Len(t) THEN Len(data[dst]) ELSE off + Len(t)
      /\ off = Len(data[dst]) => w.data = data[dst] \o t
  <2> DEFINE p == Put(data[dst], off, t)
  <2>1. /\ p \in Seq(Int)
        /\ Len(p) = IF t = <<>> \/ Len(data[dst]) >= off + Len(t) THEN Len(data[dst]) ELSE off + Len(t)
        /\ off = Len(data[dst]) => p = data[dst] \o t
    <3>1. PICK d \in Seq(Int) : d = data[dst]
      BY <1>3
    <3>2. /\ Put(d, off, t) \in Seq(Int)
          /\ Len(Put(d, off, t)) = IF t = <<>> \/ Len(d) >= off + Len(t) THEN Len(d) ELSE off + Len(t)
          /\ off = Len(d) => Put(d, off, t) = d \o t
      <4>1. off \in Nat /\ t \in Seq(Int)
        BY <1>4, <1>7
      <4> QED
        BY <4>1, PutFacts, Zenon
    <3> QED
      BY <3>1, <3>2
  <2>2. w.data = p
    BY <1>6
  <2> HIDE DEF p
  <2> QED
    BY <2>1, <2>2
<1>10. /\ entry' \in [Entries -> OpenEntry \cup {Unused}]
       /\ entry'[e] \in OpenEntry /\ entry'[e].f = dst /\ entry'[e].off = off + k
       /\ \A x \in Entries \ {e} : entry'[x] = entry[x]
  <2>1. entry' = [entry EXCEPT ![e].off = off + k] /\ off + k \in Nat
    BY <1>2, <1>4, <1>6
  <2> QED
    BY <2>1, <1>4, EntryMoved DEF IoInv
<1>11. data' \in [Names -> Seq(Int)] /\ data'[dst] = w.data /\ \A g \in Names \ {dst} : data'[g] = data[g]
  BY <1>2, <1>3, <1>9
<1>12. IoTypeOK'
  <2>1. dst \in Ram => Len(data[dst]) <= Limit /\ off <= Limit + 1
    <3>1. entry[e] # Unused
      BY <1>4 DEF OpenEntry, Unused
    <3> QED
      BY <3>1, <1>4 DEF IoInv, IoTypeOK
  <2>2. dst \in Ram => off + k <= Limit + 1 /\ Len(w.data) <= Limit
    <3>1. k = 0 => t = <<>>
      BY <1>7
    <3>2. Limit \in Nat
      BY IoConstants
    <3> QED
      BY <2>1, <3>1, <3>2, <1>3, <1>4, <1>6, <1>7, <1>9
  <2>3. \A x \in Entries : entry'[x] # Unused /\ entry'[x].f \in Ram => entry'[x].off <= Limit + 1
    BY <2>2, <1>10 DEF IoInv, IoTypeOK
  <2>4. \A f \in Ram : Len(data'[f]) <= Limit
    <3> SUFFICES ASSUME NEW f \in Ram PROVE Len(data'[f]) <= Limit
      OBVIOUS
    <3>1. CASE f = dst
      BY <3>1, <2>2, <1>11
    <3>2. CASE f # dst
      BY <3>2, <1>11 DEF IoInv, IoTypeOK, Names
    <3> QED
      BY <3>1, <3>2
  <2> QED
    BY <2>3, <2>4, <1>10, <1>11 DEF IoInv, IoTypeOK
<1>13. job' \in [Names -> Jobs] /\ \A g \in Names : JobOK(g)'
  <2> SUFFICES ASSUME NEW g \in Names PROVE job' \in [Names -> Jobs] /\ JobOK(g)'
    BY <1>3
  <2>1. /\ job' \in [Names -> Jobs]
        /\ g = dst => JobOK(g)'
        /\ g # dst => job'[g] = job[g]
    BY <1>2, <1>3, JobSpoilt
  <2>2. g # dst => JobOK(g)'
    BY <2>1, <1>4, <1>10, <1>11, CpEntryFrame
  <2> QED
    BY <2>1, <2>2
<1>14. CASE w.ret < 0
  <2>1. \A u \in Users : has[u] # 0 => entry'[has[u]] \in OpenEntry
    BY <1>4, <1>10 DEF IoInv, IoTypeOK, Exclusive
  <2> QED
    BY <2>1, <1>2, <1>12, <1>13, <1>14, CpEnds
<1>15. CASE ~(w.ret < 0)
  <2>1. w.ret = k
    BY <1>6, <1>15
  <2>2. PICK at \in {"read", "write"} :
          cp' = [cp EXCEPT !.buf = r, !.at = at] /\ (at = "read" => r = <<>>)
    BY <2>1, <1>2, <1>8, <1>15
  <2>3. /\ cp' \in CpRuns /\ cp'.at = at /\ cp'.buf = r /\ cp'.in = cp.in /\ cp'.out = e
        /\ cp'.src = src /\ cp'.dst = dst
    BY <1>1, <1>3, <1>7, <2>2 DEF CpRuns
  <2>4. cp'.alone => cp.alone
    BY <1>3, <2>2, Zenon DEF CpRuns
  <2>5. RunTypeOK'
    BY <1>3, <1>13, <2>3 DEF RunTypeOK
  <2>6. entry'[cp.in] = entry[cp.in] /\ e # 0 /\ cp.in # 0
    BY <1>4, <1>10, IoConstants DEF Entries
  <2>7. Exclusive'
    <3>1. \A v \in Users : has'[v] # 0 => entry'[has'[v]] \in OpenEntry /\ has'[v] \notin {cp'.in, cp'.out}
      BY <1>1, <1>4, <1>10, <2>3 DEF IoInv, IoTypeOK, Exclusive
    <3> QED
      BY <3>1, <1>4, <1>10, <2>2, <2>3, <2>6 DEF Exclusive
  <2>8. CopyOK'
    <3> DEFINE i == entry[cp.in].off
    <3> SUFFICES ASSUME src # dst, cp.alone
                 PROVE  /\ off + k = Len(w.data) /\ i <= Len(data[src])
                        /\ w.data \o r = SubSeq(data[src], 1, i)
                        /\ r = <<>> => w.data = SubSeq(data[src], 1, i)
      <4>1. data'[src] = data[src] \/ src = dst
        BY <1>3, <1>11
      <4>2. entry'[cp'.out].off = off + k /\ entry'[cp'.in].off = i
        BY <1>10, <2>3, <2>6
      <4>3. cp'.at \in {"read", "write"} /\ (cp'.at = "read" => r = <<>>) /\ cp'.buf = r
        BY <2>2, <2>3
      <4>4. data'[cp'.dst] = w.data /\ cp'.src = src /\ cp'.dst = dst
        BY <1>11, <2>3
      <4> HIDE DEF i
      <4> QED
        BY <4>1, <4>2, <4>3, <4>4, <2>4 DEF CopyOK
    <3>1. off = Len(data[dst]) /\ i <= Len(data[src]) /\ data[dst] \o b = SubSeq(data[src], 1, i)
      BY <1>1, <1>2 DEF IoInv, CopyOK
    <3>2. w.data = data[dst] \o t
      BY <3>1, <1>9
    <3>3. (data[dst] \o t) \o r = data[dst] \o (t \o r)
      <4>1. PICK d \in Seq(Int) : d = data[dst]
        BY <1>3
      <4>2. t \in Seq(Int) /\ r \in Seq(Int)
        BY <1>7
      <4>3. (d \o t) \o r = d \o (t \o r)
        BY <4>2, Associates
      <4> QED
        BY <4>1, <4>3
    <3>4. w.data \o r = SubSeq(data[src], 1, i)
      BY <3>1, <3>2, <3>3, <1>7
    <3>5. r = <<>> => w.data \o r = w.data
      BY <1>9
    <3>6. Len(data[dst] \o t) = Len(data[dst]) + Len(t)
      BY <1>3, <1>7, ConcatFacts
    <3> QED
      BY <3>1, <3>2, <3>4, <3>5, <3>6, <1>7
  <2> QED
    BY <2>5, <2>7, <2>8, <1>12, <1>13 DEF IoInv
<1> QED
  BY <1>14, <1>15

-----------------------------------------------------------------------------
(* The invariant and the theorems *)

LEMMA IoInvInit == IoInit => IoInv
<1> SUFFICES ASSUME IoInit PROVE IoInv
  OBVIOUS
<1>1. IoTypeOK
  <2>1. Contents \cup {Absent} \subseteq Seq(Int)
    <3>1. <<-1>> \in Seq(Int)
      OBVIOUS
    <3> QED
      BY <3>1, IoConstants DEF Absent
  <2> QED
    BY <2>1 DEF IoInit, IoTypeOK
<1>2. RunTypeOK
  <2>1. NoJob \in Jobs
    BY DEF NoJob, Jobs
  <2> QED
    BY <2>1 DEF IoInit, RunTypeOK, CpRuns
<1>3. \A f \in Names : JobOK(f)
  BY DEF IoInit, JobOK, NoJob
<1>4. Exclusive /\ CopyOK
  BY DEF IoInit, Exclusive, CopyOK
<1> QED
  BY <1>1, <1>2, <1>3, <1>4 DEF IoInv

LEMMA IoInvStep == IoInv /\ [IoNext]_iovars => IoInv'
<1> SUFFICES ASSUME IoInv, [IoNext]_iovars PROVE IoInv'
  OBVIOUS
<1>1. CASE UNCHANGED iovars
  BY <1>1, JobFrame DEF iovars, IoInv, IoTypeOK, RunTypeOK, Exclusive, CopyOK
<1>2. CASE UserCall
  <2>1. PICK u \in Users :
          \/ \E f \in Names, how \in {"trunc", "append", "both"} : SysOpenat(u, f, how)
          \/ \E v \in Users : SysFork(u, v)
          \/ SysCloseFile(u)
          \/ \E n \in 1 .. BufSize, room \in Rooms : UserWrite(u, n, room)
          \/ \E n \in 1 .. BufSize : UserRead(u, n)
          \/ \E delta \in -1 .. 1, whence \in {"set", "cur", "end"} : SysLseek(u, delta, whence)
          \/ \E size \in {0, 1, Limit} : SysFtruncate(u, size)
    BY <1>2 DEF UserCall
  <2> QED
    BY <2>1, SysOpenatStep, SysForkStep, SysCloseFileStep, UserWriteStep, UserReadStep,
       SysLseekStep, SysFtruncateStep
<1>3. CASE CopyFile /\ has' = has
  <2>1. \/ \E src, dst \in Names : CpStat(src, dst)
        \/ \E yes \in BOOLEAN : confirm_overwrite(yes)
        \/ CpOpenIn \/ CpOpenOut \/ CpNoOut \/ CpRead
        \/ \E room \in Rooms : CpWrite(room)
    BY <1>3 DEF CopyFile
  <2> QED
    BY <1>3, <2>1, CpStatStep, ConfirmStep, CpOpenInStep, CpOpenOutStep, CpNoOutStep, CpReadStep, CpWriteStep
<1> QED
  BY <1>1, <1>2, <1>3 DEF IoNext

\* What is written to a file stands there, behind what was there, for as long
\* as only those who share one opening write it.
THEOREM WritesCorrect == IoSpec => []SharedWritesKept
<1>1. IoInv => SharedWritesKept
  BY DEF IoInv, JobOK, SharedWritesKept
<1> QED
  BY <1>1, IoInvInit, IoInvStep, PTL DEF IoSpec

\* A copy that cp finishes is the source, one that it has begun is a beginning
\* of it.
THEOREM CopyCorrect == IoSpec => []CopyIsSource
<1>1. IoInv => CopyIsSource
  <2> SUFFICES ASSUME IoInv, cp.src # cp.dst, cp.alone
               PROVE  /\ cp.at \in {"read", "write"} => IsPrefix(data[cp.dst], data[cp.src])
                      /\ cp.at = "done" /\ cp.ret = 0 => data[cp.dst] = data[cp.src]
    BY DEF CopyIsSource
  <2>1. ASSUME cp.at \in {"read", "write"} PROVE IsPrefix(data[cp.dst], data[cp.src])
    <3> DEFINE d == data[cp.dst]
               s == data[cp.src]
               i == entry[cp.in].off
               b == IF cp.at = "write" THEN cp.buf ELSE <<>>
    <3>1. d \in Seq(Int) /\ s \in Seq(Int) /\ b \in Seq(Int) /\ i \in Nat
      <4>1. /\ cp.src \in Names /\ cp.dst \in Names /\ cp.buf \in Seq(Int)
            /\ cp.in # 0 /\ cp.in \in Entries \cup {0}
        BY <2>1 DEF IoInv, RunTypeOK, Exclusive, CpRuns
      <4>2. entry[cp.in] \in OpenEntry
        BY <4>1 DEF IoInv, Exclusive
      <4> QED
        BY <4>1, <4>2 DEF IoInv, IoTypeOK, OpenEntry
    <3>2. d \o b = SubSeq(s, 1, i) /\ i <= Len(s)
      <4>1. cp.at = "read" => d \o <<>> = d
        BY <3>1
      <4> QED
        BY <4>1, <2>1 DEF IoInv, CopyOK
    <3> HIDE DEF d, s, i, b
    <3>3. /\ Len(d \o b) = Len(d) + Len(b) /\ \A j \in 1 .. Len(d) : (d \o b)[j] = d[j]
      BY <3>1
    <3>4. Len(SubSeq(s, 1, i)) = i /\ \A j \in 1 .. i : SubSeq(s, 1, i)[j] = s[j]
      BY <3>1, <3>2
    <3>5. Len(d) <= i /\ Len(d) <= Len(s) /\ \A j \in 1 .. Len(d) : d[j] = s[j]
      BY <3>1, <3>2, <3>3, <3>4
    <3>6. SubSeq(d, 1, Len(d)) = SubSeq(s, 1, Len(d))
      BY <3>1, <3>5
    <3> QED
      BY <3>5, <3>6 DEF IsPrefix, d, s
  <2> QED
    BY <2>1 DEF IoInv, CopyOK
<1> QED
  BY <1>1, IoInvInit, IoInvStep, PTL DEF IoSpec
=============================================================================
