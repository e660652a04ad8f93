----------------------------- MODULE RamfsProofs -----------------------------
(***************************************************************************)
(* Whatever processes make, write, cut and remove in /ram, with vnodes     *)
(* that nobody gives back: the chains of children stay apart and end, what *)
(* a process holds is what it was wrapped around, and nothing but zeros    *)
(* lies beyond a file's end.  For any number of nodes, vnodes, processes   *)
(* and paths.  And whatever others make and remove in a directory that a   *)
(* process reads to its end: what it lists (Listing, the last part).       *)
(*                                                                         *)
(* The chain of a directory and a walk along a path are recursive          *)
(* functions.  Iterate shows that such a definition has a solution, and    *)
(* InductionUpTo carries a fact from each value to the next.               *)
(***************************************************************************)
EXTENDS Ramfs, Listing, FiniteSetTheorems, TLAPS

-----------------------------------------------------------------------------
(* The inductive invariant *)

Records == [used : BOOLEAN, type : {"file", "dir"}, name : Names \cup {"", Up, Ram},
            parent : Nodes \cup {0}, child : Nodes \cup {0}, sibling : Nodes \cup {0},
            size : 0 .. MAXSIZE, data : [Offsets -> Bytes \cup {0}]]
Tables == [Nodes -> Records]

\* The pointers that the loops follow: child of any node, for a removed
\* directory may still be somebody's cwd, and sibling of a node in use.
\* No two lead to the same node, and none to a free one or to the root.
Linked(N) ==
  /\ N[Root].used /\ N[Root].type = "dir"
  /\ \A x \in Nodes : N[x].child # 0 => N[N[x].child].used /\ N[x].child # Root
  /\ \A x \in Nodes : N[x].used /\ N[x].sibling # 0
                        => N[N[x].sibling].used /\ N[x].sibling # Root
  /\ \A x, y \in Nodes : N[x].child # 0 /\ N[x].child = N[y].child => x = y
  /\ \A x, y \in Nodes : N[x].used /\ N[y].used /\ N[x].sibling # 0
                           /\ N[x].sibling = N[y].sibling => x = y
  /\ \A x, y \in Nodes : N[x].child # 0 /\ N[y].used => N[x].child # N[y].sibling

Tails(N) == \A k \in Nodes : \A o \in Offsets : o >= N[k].size => N[k].data[o] = 0

\* Only directories in use have entries, and every node in use is in each set
\* that holds the root and is not left by pointers.
ClosedIn(N, S) == \A k \in S : {N[k].child, N[k].sibling} \subseteq S \cup {0}
Whole(N) ==
  /\ \A k \in Nodes : ~(N[k].used /\ N[k].type = "dir") => N[k].child = 0
  /\ \A S \in SUBSET Nodes : Root \in S /\ ClosedIn(N, S)
                               => \A k \in Nodes : N[k].used => k \in S

\* The vnodes of the set V are around what they were wrapped around.
Kept(N, V) == \A v \in V : ~v.gone => N[v.data].used /\ N[v.data].type = v.type

Good(N) == N \in Tables /\ Linked(N) /\ Tails(N)

\* A process with cwd c and open vnodes o.
Holds(N, c, o) ==
  /\ c \in Seq(Vnodes) /\ \A i \in 1 .. Len(c) : c[i].type = "dir"
  /\ o \in SUBSET Vnodes /\ \A v \in o : v.type = "file"
  /\ Kept(N, o \cup ToSet(c))

RamInv ==
  /\ Good(node) /\ (~strayed => Whole(node))
  /\ cwd \in [Callers -> Seq(Vnodes)] /\ open \in [Callers -> SUBSET Vnodes]
  /\ \A p \in Callers : Holds(node, cwd[p], open[p])
  /\ nvn \in 0 .. NVNODE /\ live \subseteq Callers /\ strayed \in BOOLEAN
  /\ fault \in {"none", "mkdir", "pool"}
-----------------------------------------------------------------------------
(* Induction and functions defined by recursion *)

\* A set of naturals has a least element.
LEMMA LeastNat ==
  ASSUME NEW S \in SUBSET Nat, S # {}
  PROVE  \E n \in S : \A m \in S : n <= m
  <1> DEFINE U == {0 .. n : n \in S}
  <1>1. U \subseteq FiniteSubsetsOf(Nat)
    <2> SUFFICES ASSUME NEW n \in S PROVE 0 .. n \in FiniteSubsetsOf(Nat)
      OBVIOUS
    <2> QED
      BY FS_Interval DEF FiniteSubsetsOf
  <1>2. PICK u \in U : \A v \in U : <<v, u>> \notin StrictSubsetOrdering(Nat)
    <2>1. U # {}
      OBVIOUS
    <2> HIDE DEF U
    <2> QED
      BY <1>1, <2>1, FS_StrictSubsetOrderingWellFounded, WFMin
  <1>3. PICK n \in S : u = 0 .. n
    OBVIOUS
  <1>4. ASSUME NEW m \in S, m < n PROVE FALSE
    <2>1. 0 .. m \in U /\ n \notin 0 .. m /\ n \in u /\ 0 .. m \subseteq u
      BY <1>3, <1>4
    <2>2. <<0 .. m, u>> \in StrictSubsetOrdering(Nat)
      BY <2>1, <1>3 DEF StrictSubsetOrdering
    <2> QED
      BY <1>2, <2>1, <2>2
  <1> QED
    BY <1>3, <1>4

\* Induction up to n, for the numbers of a set P.
LEMMA InductionUpTo ==
  ASSUME NEW n \in Nat, NEW P \in SUBSET Nat, 0 \in P, \A i \in 0 .. n - 1 : i \in P => i + 1 \in P
  PROVE  \A i \in 0 .. n : i \in P
  <1> SUFFICES ASSUME NEW b \in 0 .. n, b \notin P PROVE FALSE
    OBVIOUS
  <1> DEFINE S == {i \in 0 .. n : i \notin P}
  <1>1. S \in SUBSET Nat /\ S # {}
    OBVIOUS
  <1>2. PICK i \in S : \A j \in S : i <= j
    <2> HIDE DEF S
    <2> QED
      BY <1>1, LeastNat
  <1>3. i # 0 /\ i - 1 \in 0 .. n - 1 /\ i - 1 \in 0 .. n /\ (i - 1) + 1 = i
    BY <1>2
  <1>4. i - 1 \in P
    BY <1>2, <1>3
  <1> QED
    BY <1>2, <1>3, <1>4

\* f starts with c, and G makes the next value of a step and the value before.
Follows(f, S, G, c, n) ==
  f \in [0 .. n -> S] /\ f[0] = c /\ \A i \in 1 .. n : f[i] = G[<<i, f[i - 1]>>]

LEMMA Iterate ==
  ASSUME NEW S, NEW n \in Nat, NEW G \in [(1 .. n) \X S -> S], NEW c \in S
  PROVE  \E f : Follows(f, S, G, c, n)
  <1> DEFINE Sol(f, m) == /\ f \in [0 .. m -> S] /\ f[0] = c
                          /\ \A i \in 1 .. m : f[i] = G[<<i, f[i - 1]>>]
             P == {m \in Nat : \E f : Sol(f, m)}
  <1>1. 0 \in P
    <2>1. Sol([i \in 0 .. 0 |-> c], 0)
      OBVIOUS
    <2> HIDE DEF Sol
    <2> QED
      BY <2>1
  <1>2. ASSUME NEW m \in 0 .. n - 1, m \in P PROVE m + 1 \in P
    <2>1. PICK f : Sol(f, m)
      BY <1>2
    <2> DEFINE g == [i \in 0 .. m + 1 |-> IF i = m + 1 THEN G[<<m + 1, f[m]>>] ELSE f[i]]
    <2>2. \A i \in 0 .. m : i \in 0 .. m + 1 /\ g[i] = f[i] /\ f[i] \in S
      BY <2>1
    <2>3. g[m + 1] = G[<<m + 1, f[m]>>] /\ G[<<m + 1, f[m]>>] \in S
      <3>1. m \in 0 .. m /\ m + 1 \in 1 .. n /\ m + 1 \in 0 .. m + 1
        OBVIOUS
      <3>2. f[m] \in S
        BY <2>2, <3>1
      <3>3. <<m + 1, f[m]>> \in (1 .. n) \X S
        BY <3>1, <3>2
      <3> QED
        BY <3>1, <3>3
    <2>4. g \in [0 .. m + 1 -> S]
      <3>1. \A i \in 0 .. m + 1 : i = m + 1 \/ i \in 0 .. m
        OBVIOUS
      <3>2. \A i \in 0 .. m + 1 : g[i] \in S
        BY <2>2, <2>3, <3>1
      <3> HIDE DEF g
      <3>3. g = [i \in 0 .. m + 1 |-> g[i]]
        BY DEF g
      <3> QED
        BY <3>2, <3>3
    <2>5. g[0] = c
      BY <2>1, <2>2
    <2>6. ASSUME NEW i \in 1 .. m + 1 PROVE g[i] = G[<<i, g[i - 1]>>]
      <3>1. i - 1 \in 0 .. m /\ g[i - 1] = f[i - 1]
        BY <2>2
      <3>2. CASE i = m + 1
        <4>1. i - 1 = m
          BY <3>2
        <4> QED
          BY <2>3, <3>1, <3>2, <4>1
      <3>3. CASE i # m + 1
        <4>1. i \in 1 .. m /\ i \in 0 .. m
          BY <3>3
        <4> QED
          BY <2>1, <2>2, <3>1, <4>1
      <3> QED
        BY <3>2, <3>3
    <2>7. Sol(g, m + 1)
      BY <2>4, <2>5, <2>6
    <2> HIDE DEF Sol
    <2> QED
      BY <2>7
  <1>3. n \in P
    <2>0. P \in SUBSET Nat /\ n \in 0 .. n
      OBVIOUS
    <2> HIDE DEF P
    <2> QED
      BY <1>1, <1>2, <2>0, InductionUpTo
  <1>4. PICK f : Sol(f, n)
    BY <1>3
  <1> QED
    BY <1>4 DEF Follows

\* The function that a recursive definition chooses is such an f.
LEMMA Defined ==
  ASSUME NEW S, NEW n \in Nat, NEW G \in [(1 .. n) \X S -> S], NEW c \in S,
         NEW f, f = [i \in 0 .. n |-> IF i = 0 THEN c ELSE f[i]],
         \A i \in 1 .. n : f[i - 1] \in S => f[i] = G[<<i, f[i - 1]>>]
  PROVE  Follows(f, S, G, c, n)
  <1> DEFINE P == {i \in Nat : i <= n => f[i] \in S}
  <1>0. f[0] = c /\ DOMAIN f = 0 .. n
    <2>1. 0 \in 0 .. n
      OBVIOUS
    <2> QED
      BY <2>1
  <1>1. 0 \in P
    BY <1>0
  <1>2. ASSUME NEW i \in 0 .. n - 1, i \in P PROVE i + 1 \in P
    <2>1. i + 1 \in 1 .. n /\ (i + 1) - 1 = i /\ i <= n /\ i + 1 \in Nat
      OBVIOUS
    <2>2. f[i] \in S
      BY <1>2, <2>1
    <2>3. f[i + 1] = G[<<i + 1, f[i]>>] /\ <<i + 1, f[i]>> \in (1 .. n) \X S
      BY <2>1, <2>2
    <2> QED
      BY <2>1, <2>3
  <1>3. \A i \in 0 .. n : i \in P
    <2>0. P \in SUBSET Nat
      OBVIOUS
    <2> HIDE DEF P
    <2> QED
      BY <1>1, <1>2, <2>0, InductionUpTo
  <1>4. \A i \in 0 .. n : f[i] \in S
    BY <1>3
  <1>5. f \in [0 .. n -> S]
    BY <1>0, <1>4
  <1>6. \A i \in 1 .. n : i - 1 \in 0 .. n
    OBVIOUS
  <1> QED
    BY <1>0, <1>4, <1>5, <1>6 DEF Follows
-----------------------------------------------------------------------------
(* Chains *)

LEMMA Numbers ==
  /\ NNODE \in Nat /\ NNODE >= 1 /\ Root \in Nodes /\ 0 \notin Nodes
  /\ \A k \in Nodes : k \in Nat
  /\ IsFiniteSet(Nodes) /\ Cardinality(Nodes) = NNODE
  <1>1. NNODE \in Nat /\ NNODE >= 1
    BY RamAssumption
  <1>2. IsFiniteSet(1 .. NNODE) /\ Cardinality(1 .. NNODE) = NNODE
    <2> DEFINE a == 1
    <2>1. a \in Int /\ NNODE \in Int /\ a <= NNODE
      BY <1>1
    <2> HIDE DEF a
    <2>2. IsFiniteSet(a .. NNODE) /\ Cardinality(a .. NNODE) = NNODE - a + 1
      BY <2>1, FS_Interval
    <2> QED
      BY <1>1, <2>2 DEF a
  <1> QED
    BY <1>1, <1>2 DEF Nodes, Root

LEMMA Fields ==
  ASSUME NEW N \in Tables, NEW k \in Nodes
  PROVE  /\ N[k] \in Records /\ N[k].used \in BOOLEAN /\ N[k].type \in {"file", "dir"}
         /\ N[k].child \in Nodes \cup {0} /\ N[k].sibling \in Nodes \cup {0}
         /\ N[k].size \in 0 .. MAXSIZE /\ N[k].data \in [Offsets -> Bytes \cup {0}]
  BY DEF Tables, Records

\* The nodes of d's chain, then zeros.
Links(at, N, d) ==
  /\ at \in [0 .. NNODE -> Nodes \cup {0}]
  /\ at[0] = N[d].child
  /\ \A i \in 1 .. NNODE : at[i] = IF at[i - 1] = 0 THEN 0 ELSE N[at[i - 1]].sibling

LEMMA ChainIs ==
  ASSUME NEW N \in Tables, NEW d \in Nodes
  PROVE  \E at : /\ Links(at, N, d)
                 /\ Chain(N, d) = [i \in {j \in 1 .. NNODE + 1 : at[j - 1] # 0} |-> at[i - 1]]
  <1> DEFINE S == Nodes \cup {0}
             c == N[d].child
             next(a) == IF a = 0 THEN 0 ELSE N[a].sibling
             G == [q \in (1 .. NNODE) \X S |-> next(q[2])]
             Rec(g) == [i \in 0 .. NNODE |->
                          IF i = 0 THEN N[d].child
                          ELSE IF g[i - 1] = 0 THEN 0 ELSE N[g[i - 1]].sibling]
             at == CHOOSE g : g = Rec(g)
  <1>1. Chain(N, d) = [i \in {j \in 1 .. NNODE + 1 : at[j - 1] # 0} |-> at[i - 1]]
    BY DEF Chain
  <1>2. G \in [(1 .. NNODE) \X S -> S] /\ c \in S
    <2>1. ASSUME NEW q \in (1 .. NNODE) \X S PROVE next(q[2]) \in S
      BY Fields
    <2>2. c \in S
      BY Fields
    <2> HIDE DEF S, next
    <2> QED
      BY <2>1, <2>2
  <1>3. \A i \in 1 .. NNODE, a \in S : G[<<i, a>>] = next(a)
    <2> HIDE DEF S, next
    <2> QED
      OBVIOUS
  <1>4. PICK f : Follows(f, S, G, c, NNODE)
    <2> HIDE DEF S, G, c
    <2> QED
      BY <1>2, Numbers, Iterate
  <1>5. f \in [0 .. NNODE -> S] /\ f[0] = c /\ \A i \in 1 .. NNODE : f[i] = next(f[i - 1])
    <2>1. f \in [0 .. NNODE -> S] /\ f[0] = c /\ \A i \in 1 .. NNODE : f[i] = G[<<i, f[i - 1]>>]
      <3> HIDE DEF S, G, c
      <3> QED
        BY <1>4 DEF Follows
    <2>2. \A i \in 1 .. NNODE : i - 1 \in 0 .. NNODE
      BY Numbers
    <2> HIDE DEF S, G, next
    <2> QED
      BY <1>3, <2>1, <2>2
  <1>6. f = Rec(f)
    <2>1. ASSUME NEW i \in 0 .. NNODE PROVE f[i] = Rec(f)[i]
      <3>1. CASE i = 0
        BY <1>5, <3>1
      <3>2. CASE i # 0
        <4>1. i \in 1 .. NNODE
          BY <3>2
        <4> QED
          BY <1>5, <3>2, <4>1
      <3> QED
        BY <3>1, <3>2
    <2> QED
      BY <1>5, <2>1
  <1>7. at = Rec(at)
    <2> HIDE DEF Rec
    <2> QED
      BY <1>6
  <1> HIDE DEF at
  <1>8. at[0] = c /\ \A i \in 1 .. NNODE : at[i] = next(at[i - 1])
    <2>1. 0 \in 0 .. NNODE /\ \A i \in 1 .. NNODE : i \in 0 .. NNODE /\ i # 0
      BY Numbers
    <2>2. at[0] = Rec(at)[0] /\ \A i \in 1 .. NNODE : at[i] = Rec(at)[i]
      BY <1>7
    <2> QED
      BY <2>1, <2>2
  <1>9. Follows(at, S, G, c, NNODE)
    <2>1. DOMAIN at = 0 .. NNODE
      BY <1>7
    <2>3. at = [i \in 0 .. NNODE |-> IF i = 0 THEN c ELSE at[i]]
      <3>1. at = [i \in 0 .. NNODE |-> at[i]]
        BY <1>7
      <3> HIDE DEF c
      <3>2. \A i \in 0 .. NNODE : at[i] = IF i = 0 THEN c ELSE at[i]
        BY <1>8
      <3> QED
        BY <3>1, <3>2
    <2>4. \A i \in 1 .. NNODE : at[i - 1] \in S => at[i] = G[<<i, at[i - 1]>>]
      <3> HIDE DEF S, G, next
      <3> QED
        BY <1>3, <1>8
    <2> HIDE DEF S, G, c
    <2> QED
      BY <1>2, <2>3, <2>4, Numbers, Defined
  <1>10. at \in [0 .. NNODE -> S]
    <2> HIDE DEF S, G, c
    <2> QED
      BY <1>9 DEF Follows
  <1> QED
    BY <1>1, <1>8, <1>10 DEF Links

\* No node is met twice, and each is in use.
LEMMA LinksApart ==
  ASSUME NEW N \in Tables, Linked(N), NEW d \in Nodes, NEW at, Links(at, N, d)
  PROVE  /\ \A i \in 0 .. NNODE : at[i] # 0 => N[at[i]].used /\ at[i] # Root
         /\ \A i, j \in 0 .. NNODE : at[i] # 0 /\ at[i] = at[j] => i = j
  <1>1. /\ \A i \in 0 .. NNODE : at[i] \in Nodes \cup {0}
        /\ at[0] = N[d].child
        /\ \A i \in 0 .. NNODE - 1 : at[i + 1] = IF at[i] = 0 THEN 0 ELSE N[at[i]].sibling
    <2>1. \A i \in 0 .. NNODE - 1 : i + 1 \in 1 .. NNODE /\ (i + 1) - 1 = i
      BY Numbers
    <2> QED
      BY <2>1 DEF Links
  <1> DEFINE P == {i \in Nat : i <= NNODE /\ at[i] # 0 => N[at[i]].used /\ at[i] # Root}
             Q == {i \in Nat : i <= NNODE =>
                     \A j \in 0 .. NNODE : at[i] # 0 /\ at[i] = at[j] => i = j}
  <1>2. \A i \in 0 .. NNODE : i \in P
    <2>1. 0 \in P
      BY <1>1 DEF Linked
    <2>2. ASSUME NEW i \in 0 .. NNODE - 1, i \in P PROVE i + 1 \in P
      <3>1. i \in 0 .. NNODE /\ i <= NNODE /\ i + 1 \in Nat
        BY Numbers
      <3> SUFFICES ASSUME at[i + 1] # 0 PROVE N[at[i + 1]].used /\ at[i + 1] # Root
        BY <3>1
      <3>2. at[i] # 0 /\ at[i] \in Nodes /\ N[at[i]].used /\ at[i + 1] = N[at[i]].sibling
        BY <1>1, <2>2, <3>1
      <3> QED
        BY <3>2 DEF Linked
    <2>3. P \in SUBSET Nat
      OBVIOUS
    <2> HIDE DEF P
    <2> QED
      BY <2>1, <2>2, <2>3, Numbers, InductionUpTo
  <1>3. \A i \in 0 .. NNODE : at[i] # 0 => N[at[i]].used /\ at[i] # Root
    BY <1>2
  <1> HIDE DEF P
  <1>4. ASSUME NEW j \in 1 .. NNODE, at[j] # 0 PROVE at[j] # at[0]
    <2>1. j - 1 \in 0 .. NNODE - 1 /\ (j - 1) + 1 = j /\ j - 1 \in 0 .. NNODE
      BY Numbers
    <2>2. at[j - 1] # 0 /\ at[j - 1] \in Nodes /\ at[j] = N[at[j - 1]].sibling
      BY <1>1, <1>4, <2>1
    <2>3. N[at[j - 1]].used
      BY <1>3, <2>1, <2>2
    <2> QED
      BY <1>1, <1>4, <2>2, <2>3 DEF Linked
  <1>5. \A i \in 0 .. NNODE : i \in Q
    <2>1. 0 \in Q
      <3>1. \A j \in 0 .. NNODE : j = 0 \/ j \in 1 .. NNODE
        OBVIOUS
      <3> QED
        BY <1>4, <3>1
    <2>2. ASSUME NEW i \in 0 .. NNODE - 1, i \in Q PROVE i + 1 \in Q
      <3>1. i \in 0 .. NNODE /\ i <= NNODE /\ i + 1 \in Nat /\ i + 1 \in 1 .. NNODE
        BY Numbers
      <3> SUFFICES ASSUME NEW j \in 0 .. NNODE, at[i + 1] # 0, at[i + 1] = at[j]
                   PROVE  i + 1 = j
        BY <3>1
      <3>2. j # 0
        BY <1>4, <3>1
      <3>3. j - 1 \in 0 .. NNODE - 1 /\ (j - 1) + 1 = j /\ j - 1 \in 0 .. NNODE
        BY <3>2, Numbers
      <3>4. at[i] # 0 /\ at[i] \in Nodes /\ at[i + 1] = N[at[i]].sibling
        BY <1>1, <3>1
      <3>5. at[j - 1] # 0 /\ at[j - 1] \in Nodes /\ at[j] = N[at[j - 1]].sibling
        BY <1>1, <3>3
      <3>6. N[at[i]].used /\ N[at[j - 1]].used
        BY <1>3, <3>1, <3>3, <3>4, <3>5
      <3>7. at[i] = at[j - 1]
        BY <3>4, <3>5, <3>6 DEF Linked
      <3>8. i = j - 1
        BY <2>2, <3>1, <3>3, <3>4, <3>7
      <3> QED
        BY <3>3, <3>8
    <2>3. Q \in SUBSET Nat
      OBVIOUS
    <2> HIDE DEF Q
    <2> QED
      BY <2>1, <2>2, <2>3, Numbers, InductionUpTo
  <1>6. \A i, j \in 0 .. NNODE : at[i] # 0 /\ at[i] = at[j] => i = j
    BY <1>5
  <1> QED
    BY <1>3, <1>6

\* A chain ends, for there are no more than NNODE nodes.
LEMMA LinksEnd ==
  ASSUME NEW N \in Tables, Linked(N), NEW d \in Nodes, NEW at, Links(at, N, d)
  PROVE  \E m \in 0 .. NNODE : \A i \in 0 .. NNODE : at[i] = 0 <=> i >= m
  <1> DEFINE Z == {i \in 0 .. NNODE : at[i] = 0}
  <1>1. \A i \in 0 .. NNODE : at[i] \in Nodes \cup {0}
    BY DEF Links
  <1>2. Z # {}
    <2> SUFFICES ASSUME \A i \in 0 .. NNODE : at[i] # 0 PROVE FALSE
      OBVIOUS
    <2>1. at \in [0 .. NNODE -> Nodes]
      BY <1>1 DEF Links
    <2>2. \A i, j \in 0 .. NNODE : at[i] = at[j] => i = j
      BY LinksApart
    <2>3. at \in Injection(0 .. NNODE, Nodes)
      BY <2>1, <2>2 DEF Injection, IsInjective
    <2>4. Cardinality(0 .. NNODE) = NNODE + 1
      <3> DEFINE a == 0
      <3>1. a \in Int /\ NNODE \in Int /\ a <= NNODE
        BY Numbers
      <3> HIDE DEF a
      <3>2. Cardinality(a .. NNODE) = NNODE - a + 1
        BY <3>1, FS_Interval
      <3> QED
        BY <3>2, Numbers DEF a
    <2>5. Cardinality(0 .. NNODE) <= Cardinality(Nodes)
      BY <2>3, Numbers, FS_Injection
    <2> QED
      BY <2>4, <2>5, Numbers
  <1>3. PICK m \in Z : \A i \in Z : m <= i
    <2>1. Z \in SUBSET Nat
      OBVIOUS
    <2> HIDE DEF Z
    <2> QED
      BY <1>2, <2>1, LeastNat
  <1>4. m \in 0 .. NNODE /\ at[m] = 0
    BY <1>3
  <1>5. \A i \in 0 .. NNODE : i >= m => at[i] = 0
    <2> DEFINE P == {i \in Nat : i <= NNODE /\ i >= m => at[i] = 0}
    <2>1. 0 \in P
      BY <1>4
    <2>2. ASSUME NEW i \in 0 .. NNODE - 1, i \in P PROVE i + 1 \in P
      <3>1. i + 1 \in 1 .. NNODE /\ (i + 1) - 1 = i /\ i <= NNODE /\ i + 1 \in Nat
        BY Numbers
      <3>2. i + 1 = m \/ i >= m \/ ~(i + 1 >= m)
        BY <1>4, <3>1
      <3>3. at[i] = 0 => at[i + 1] = 0
        BY <3>1 DEF Links
      <3> QED
        BY <1>4, <2>2, <3>1, <3>2, <3>3
    <2>3. P \in SUBSET Nat
      OBVIOUS
    <2>4. \A i \in 0 .. NNODE : i \in P
      <3> HIDE DEF P
      <3> QED
        BY <2>1, <2>2, <2>3, Numbers, InductionUpTo
    <2> QED
      BY <2>4
  <1>6. \A i \in 0 .. NNODE : at[i] = 0 => i >= m
    BY <1>3
  <1> QED
    BY <1>4, <1>5, <1>6

\* What a chain s of the directory d is.
IsChain(s, N, d) ==
  /\ s \in Seq(Nodes) /\ Len(s) \in 0 .. NNODE
  /\ N[d].child = 0 <=> Len(s) = 0
  /\ Len(s) # 0 => s[1] = N[d].child
  /\ \A i \in 1 .. Len(s) : N[s[i]].used /\ s[i] # Root
  /\ \A i \in 2 .. Len(s) : s[i] = N[s[i - 1]].sibling
  /\ \A i, j \in 1 .. Len(s) : s[i] = s[j] => i = j

LEMMA ChainSound ==
  ASSUME NEW N \in Tables, Linked(N), NEW d \in Nodes
  PROVE  IsChain(Chain(N, d), N, d)
  <1>1. PICK at : /\ Links(at, N, d)
                  /\ Chain(N, d) = [i \in {j \in 1 .. NNODE + 1 : at[j - 1] # 0} |-> at[i - 1]]
    BY ChainIs
  <1>2. PICK m \in 0 .. NNODE : \A i \in 0 .. NNODE : at[i] = 0 <=> i >= m
    BY <1>1, LinksEnd
  <1>3. {j \in 1 .. NNODE + 1 : at[j - 1] # 0} = 1 .. m
    <2>1. \A j \in 1 .. NNODE + 1 : j - 1 \in 0 .. NNODE
      BY Numbers
    <2> QED
      BY <1>2, <2>1, Numbers
  <1> DEFINE s == [i \in 1 .. m |-> at[i - 1]]
  <1>4. Chain(N, d) = s
    BY <1>1, <1>3
  <1>5. \A i \in 1 .. m : /\ i - 1 \in 0 .. NNODE /\ at[i - 1] # 0 /\ at[i - 1] \in Nodes
                          /\ s[i] = at[i - 1]
    <2> SUFFICES ASSUME NEW i \in 1 .. m
                 PROVE  i - 1 \in 0 .. NNODE /\ at[i - 1] # 0 /\ at[i - 1] \in Nodes
      OBVIOUS
    <2>1. i - 1 \in 0 .. NNODE /\ ~(i - 1 >= m)
      BY <1>2, Numbers
    <2> QED
      BY <1>1, <1>2, <2>1 DEF Links
  <1>6. s \in Seq(Nodes) /\ Len(s) = m /\ m \in Nat
    BY <1>2, <1>5
  <1>7. N[d].child = 0 <=> m = 0
    <2>1. 0 \in 0 .. NNODE /\ (0 >= m <=> m = 0)
      BY <1>2, Numbers
    <2> QED
      BY <1>1, <1>2, <2>1 DEF Links
  <1>8. m # 0 => s[1] = N[d].child
    <2>1. m # 0 => 1 \in 1 .. m /\ 1 - 1 = 0
      BY <1>6
    <2> QED
      BY <1>1, <2>1 DEF Links
  <1>9. \A i \in 1 .. m : N[s[i]].used /\ s[i] # Root
    BY <1>1, <1>5, LinksApart
  <1>10. \A i \in 2 .. m : s[i] = N[s[i - 1]].sibling
    <2> SUFFICES ASSUME NEW i \in 2 .. m PROVE s[i] = N[s[i - 1]].sibling
      OBVIOUS
    <2>1. i \in 1 .. m /\ i - 1 \in 1 .. m /\ i - 1 \in 1 .. NNODE
      BY <1>2, Numbers
    <2>2. at[i - 1] = IF at[(i - 1) - 1] = 0 THEN 0 ELSE N[at[(i - 1) - 1]].sibling
      BY <1>1, <2>1 DEF Links
    <2> HIDE DEF s
    <2> QED
      BY <1>5, <2>1, <2>2
  <1>11. \A i, j \in 1 .. m : s[i] = s[j] => i = j
    <2> SUFFICES ASSUME NEW i \in 1 .. m, NEW j \in 1 .. m, s[i] = s[j] PROVE i = j
      OBVIOUS
    <2>1. at[i - 1] = at[j - 1] /\ at[i - 1] # 0 /\ i - 1 \in 0 .. NNODE /\ j - 1 \in 0 .. NNODE
      BY <1>5
    <2>2. i - 1 = j - 1
      BY <1>1, <2>1, LinksApart
    <2> QED
      BY <2>2
  <1> HIDE DEF s
  <1> QED
    BY <1>2, <1>4, <1>6, <1>7, <1>8, <1>9, <1>10, <1>11 DEF IsChain
-----------------------------------------------------------------------------
(* Entries made and removed *)

\* M is N after node k was made an entry of type t in d.
Entered(N, M, k, d, t) ==
  /\ ~N[k].used
  /\ \A x \in Nodes \ {k} :
       /\ M[x].used = N[x].used /\ M[x].type = N[x].type /\ M[x].sibling = N[x].sibling
       /\ M[x].size = N[x].size /\ M[x].data = N[x].data
  /\ \A x \in Nodes \ {k, d} : M[x].child = N[x].child
  /\ M[k].used /\ M[k].type = t /\ M[k].data = Zeros
  /\ M[d].child = k
  /\ M[k].sibling = IF d = k THEN 0 ELSE N[d].child
  /\ d # k => M[k].child = 0

\* M is N after node k was taken out of d's chain, where prev came before it
\* (0 if it was the first).
Removed(N, M, k, d, prev) ==
  /\ N[k].used /\ k # Root /\ ~M[k].used
  /\ \A x \in Nodes \ {k} : M[x].used = N[x].used
  /\ \A x \in Nodes : M[x].type = N[x].type /\ M[x].size = N[x].size /\ M[x].data = N[x].data
  /\ IF prev = 0
     THEN /\ N[d].child = k /\ M[d].child = N[k].sibling
          /\ \A x \in Nodes \ {d} : M[x].child = N[x].child
          /\ \A x \in Nodes : M[x].sibling = N[x].sibling
     ELSE /\ prev \in Nodes \ {k} /\ N[prev].used /\ N[prev].sibling = k
          /\ M[prev].sibling = N[k].sibling
          /\ \A x \in Nodes \ {prev} : M[x].sibling = N[x].sibling
          /\ \A x \in Nodes : M[x].child = N[x].child

LEMMA EnteredLinked ==
  ASSUME NEW N \in Tables, NEW M, Linked(N), NEW k \in Nodes, NEW d \in Nodes, NEW t,
         Entered(N, M, k, d, t)
  PROVE  Linked(M)
  <1>0. /\ \A x \in Nodes : N[x].child \in Nodes \cup {0} /\ N[x].sibling \in Nodes \cup {0}
        /\ 0 \notin Nodes /\ Root \in Nodes /\ Root # k /\ ~N[k].used
    BY Fields, Numbers DEF Linked, Entered
  <1>1. \A x \in Nodes : N[x].child # k /\ (N[x].used => N[x].sibling # k)
    BY <1>0 DEF Linked
  <1>2. \A x \in Nodes : M[x].child = IF x = d THEN k ELSE IF x = k THEN 0 ELSE N[x].child
    BY DEF Entered
  <1>3. \A x \in Nodes : M[x].sibling = IF x # k THEN N[x].sibling
                                        ELSE IF d = k THEN 0 ELSE N[d].child
    BY DEF Entered
  <1>4. \A x \in Nodes : M[x].used <=> (N[x].used \/ x = k)
    BY DEF Entered
  <1>5. M[Root].used /\ M[Root].type = "dir"
    BY <1>0 DEF Entered, Linked
  <1>6. \A x \in Nodes : M[x].child # 0 => M[M[x].child].used /\ M[x].child # Root
    BY <1>0, <1>1, <1>2, <1>4 DEF Linked
  <1>7. \A x \in Nodes : M[x].used /\ M[x].sibling # 0
                           => M[M[x].sibling].used /\ M[x].sibling # Root
    BY <1>0, <1>1, <1>3, <1>4 DEF Linked
  <1>8. \A x, y \in Nodes : M[x].child # 0 /\ M[x].child = M[y].child => x = y
    BY <1>0, <1>1, <1>2 DEF Linked
  <1>9. \A x, y \in Nodes : M[x].used /\ M[y].used /\ M[x].sibling # 0
                              /\ M[x].sibling = M[y].sibling => x = y
    BY <1>0, <1>1, <1>3, <1>4 DEF Linked
  <1>10. \A x, y \in Nodes : M[x].child # 0 /\ M[y].used => M[x].child # M[y].sibling
    BY <1>0, <1>1, <1>2, <1>3, <1>4 DEF Linked
  <1> QED
    BY <1>5, <1>6, <1>7, <1>8, <1>9, <1>10 DEF Linked

LEMMA EnteredWhole ==
  ASSUME NEW N \in Tables, NEW M, Linked(N), NEW k \in Nodes, NEW d \in Nodes, NEW t,
         Entered(N, M, k, d, t), Whole(N), N[d].used, N[d].type = "dir"
  PROVE  Whole(M)
  <1>0. /\ \A x \in Nodes : N[x].child \in Nodes \cup {0} /\ N[x].sibling \in Nodes \cup {0}
        /\ 0 \notin Nodes /\ Root \in Nodes /\ N[Root].used /\ ~N[k].used /\ d # k
    BY Fields, Numbers DEF Linked, Entered
  <1>1. \A x \in Nodes : ~(M[x].used /\ M[x].type = "dir") => M[x].child = 0
    BY <1>0 DEF Entered, Whole
  <1>2. ASSUME NEW S \in SUBSET Nodes, Root \in S, ClosedIn(M, S),
               NEW x \in Nodes, M[x].used
        PROVE  x \in S
    <2> DEFINE T == {y \in S : N[y].used}
    <2>1. ASSUME NEW y \in T PROVE {N[y].child, N[y].sibling} \subseteq T \cup {0}
      <3>1. y \in S /\ y \in Nodes /\ y # k /\ N[y].used
        BY <1>0
      <3>2. M[y].child \in S \cup {0} /\ M[y].sibling \in S \cup {0}
        BY <1>2, <3>1 DEF ClosedIn
      <3>3. N[y].sibling \in T \cup {0}
        <4>1. M[y].sibling = N[y].sibling
          BY <3>1 DEF Entered
        <4> QED
          BY <1>0, <3>1, <3>2, <4>1 DEF Linked
      <3>4. N[y].child \in S \cup {0}
        <4>1. CASE y = d
          <5>1. M[y].child = k /\ k \in S
            BY <1>0, <3>2, <4>1 DEF Entered
          <5>2. M[k].sibling \in S \cup {0} /\ M[k].sibling = N[d].child
            BY <1>0, <1>2, <5>1 DEF ClosedIn, Entered
          <5> QED
            BY <4>1, <5>2
        <4>2. CASE y # d
          BY <3>1, <3>2, <4>2 DEF Entered
        <4> QED
          BY <4>1, <4>2
      <3>5. N[y].child \in T \cup {0}
        BY <1>0, <3>1, <3>4 DEF Linked
      <3> QED
        BY <3>3, <3>5
    <2>2. T \in SUBSET Nodes /\ Root \in T /\ ClosedIn(N, T)
      BY <1>0, <1>2, <2>1 DEF ClosedIn
    <2>3. \A y \in Nodes : N[y].used => y \in S
      <3>1. \A y \in Nodes : N[y].used => y \in T
        <4> HIDE DEF T
        <4> QED
          BY <2>2 DEF Whole
      <3> QED
        BY <3>1
    <2>4. k \in S
      <3>1. d \in S /\ M[d].child = k
        BY <2>3 DEF Entered
      <3> QED
        BY <1>0, <1>2, <3>1 DEF ClosedIn
    <2>5. x = k \/ N[x].used
      BY <1>2 DEF Entered
    <2> QED
      BY <2>3, <2>4, <2>5
  <1> QED
    BY <1>1, <1>2 DEF Whole

LEMMA RemovedLinked ==
  ASSUME NEW N \in Tables, NEW M, Linked(N), NEW k \in Nodes, NEW d \in Nodes,
         NEW prev \in Nodes \cup {0}, Removed(N, M, k, d, prev)
  PROVE  Linked(M)
  <1>0. /\ \A x \in Nodes : N[x].child \in Nodes \cup {0} /\ N[x].sibling \in Nodes \cup {0}
        /\ 0 \notin Nodes /\ Root \in Nodes /\ Root # k /\ N[k].used /\ ~M[k].used
    BY Fields, Numbers DEF Removed
  <1>1. \A x \in Nodes : M[x].used <=> (N[x].used /\ x # k)
    BY <1>0 DEF Removed
  <1>2. M[Root].used /\ M[Root].type = "dir"
    BY <1>0 DEF Removed, Linked
  <1>3. CASE prev = 0
    <2>1. /\ N[d].child = k /\ M[d].child = N[k].sibling
          /\ \A x \in Nodes : M[x].child = IF x = d THEN N[k].sibling ELSE N[x].child
          /\ \A x \in Nodes : M[x].sibling = N[x].sibling
      BY <1>3 DEF Removed
    <2>2. /\ \A x \in Nodes : x # d => N[x].child # k
          /\ \A x \in Nodes : N[x].used => N[x].sibling # k
      BY <1>0, <2>1 DEF Linked
    <2>3. \A x \in Nodes : M[x].child # 0 => M[M[x].child].used /\ M[x].child # Root
      BY <1>0, <1>1, <2>1, <2>2 DEF Linked
    <2>4. \A x \in Nodes : M[x].used /\ M[x].sibling # 0
                             => M[M[x].sibling].used /\ M[x].sibling # Root
      BY <1>0, <1>1, <2>1, <2>2 DEF Linked
    <2>5. \A x, y \in Nodes : M[x].child # 0 /\ M[x].child = M[y].child => x = y
      BY <1>0, <2>1, <2>2 DEF Linked
    <2>6. \A x, y \in Nodes : M[x].used /\ M[y].used /\ M[x].sibling # 0
                                /\ M[x].sibling = M[y].sibling => x = y
      BY <1>0, <1>1, <2>1 DEF Linked
    <2>7. \A x, y \in Nodes : M[x].child # 0 /\ M[y].used => M[x].child # M[y].sibling
      BY <1>0, <1>1, <2>1, <2>2 DEF Linked
    <2> QED
      BY <1>2, <2>3, <2>4, <2>5, <2>6, <2>7 DEF Linked
  <1>4. CASE prev # 0
    <2>1. /\ prev \in Nodes /\ prev # k /\ N[prev].used /\ N[prev].sibling = k
          /\ \A x \in Nodes : M[x].sibling = IF x = prev THEN N[k].sibling ELSE N[x].sibling
          /\ \A x \in Nodes : M[x].child = N[x].child
      BY <1>4 DEF Removed
    <2>2. /\ \A x \in Nodes : N[x].child # k
          /\ \A x \in Nodes : N[x].used /\ x # prev => N[x].sibling # k
      BY <1>0, <2>1 DEF Linked
    <2>3. \A x \in Nodes : M[x].child # 0 => M[M[x].child].used /\ M[x].child # Root
      BY <1>0, <1>1, <2>1, <2>2 DEF Linked
    <2>4. \A x \in Nodes : M[x].used /\ M[x].sibling # 0
                             => M[M[x].sibling].used /\ M[x].sibling # Root
      BY <1>0, <1>1, <2>1, <2>2 DEF Linked
    <2>5. \A x, y \in Nodes : M[x].child # 0 /\ M[x].child = M[y].child => x = y
      BY <1>0, <2>1 DEF Linked
    <2>6. \A x, y \in Nodes : M[x].used /\ M[y].used /\ M[x].sibling # 0
                                /\ M[x].sibling = M[y].sibling => x = y
      BY <1>0, <1>1, <2>1, <2>2 DEF Linked
    <2>7. \A x, y \in Nodes : M[x].child # 0 /\ M[y].used => M[x].child # M[y].sibling
      BY <1>0, <1>1, <2>1, <2>2 DEF Linked
    <2> QED
      BY <1>2, <2>3, <2>4, <2>5, <2>6, <2>7 DEF Linked
  <1> QED
    BY <1>3, <1>4

LEMMA RemovedWhole ==
  ASSUME NEW N \in Tables, NEW M, Linked(N), NEW k \in Nodes, NEW d \in Nodes,
         NEW prev \in Nodes \cup {0}, Removed(N, M, k, d, prev), Whole(N), ~NotEmpty(N[k])
  PROVE  Whole(M)
  <1>0. /\ \A x \in Nodes : N[x].child \in Nodes \cup {0} /\ N[x].sibling \in Nodes \cup {0}
        /\ 0 \notin Nodes /\ Root \in Nodes /\ N[Root].used /\ Root # k /\ N[k].used /\ ~M[k].used
        /\ N[k].type \in {"file", "dir"}
    BY Fields, Numbers DEF Linked, Removed
  <1>1. N[k].child = 0
    BY <1>0 DEF NotEmpty, Whole
  <1>2. N[k].sibling # k
    BY <1>0 DEF Removed, Linked
  <1>3. \A x \in Nodes : ~(M[x].used /\ M[x].type = "dir") => M[x].child = 0
    <2> SUFFICES ASSUME NEW x \in Nodes, ~(M[x].used /\ M[x].type = "dir")
                 PROVE  M[x].child = 0
      OBVIOUS
    <2>1. N[x].child = 0
      BY <1>1 DEF Removed, Whole
    <2>2. ~(prev = 0 /\ x = d)
      BY <1>0, <2>1 DEF Removed
    <2> QED
      BY <2>1, <2>2 DEF Removed
  <1>4. ASSUME NEW S \in SUBSET Nodes, Root \in S, ClosedIn(M, S),
               NEW x \in Nodes, M[x].used
        PROVE  x \in S
    <2> DEFINE from == IF prev = 0 THEN d ELSE prev
               T == IF from \in S THEN S \cup {k} ELSE S
    <2>1. /\ from \in Nodes /\ N[from].used /\ from # k
          /\ \A y \in Nodes \ {from} : M[y].child = N[y].child /\ M[y].sibling = N[y].sibling
          /\ M[from].child = N[from].child \/ (N[from].child = k /\ M[from].child = N[k].sibling)
          /\ M[from].sibling = N[from].sibling
               \/ (N[from].sibling = k /\ M[from].sibling = N[k].sibling)
          /\ M[from].child = N[k].sibling \/ M[from].sibling = N[k].sibling
      <3>1. CASE prev = 0
        <4>1. N[d].child = k
          BY <3>1 DEF Removed
        <4>2. N[d].used /\ d # k
          BY <1>0, <1>1, <4>1 DEF Whole
        <4> QED
          BY <3>1, <4>1, <4>2 DEF Removed
      <3>2. CASE prev # 0
        BY <3>2 DEF Removed
      <3> QED
        BY <3>1, <3>2
    <2> HIDE DEF from
    <2>2. \A y \in S : M[y].child \in S \cup {0} /\ M[y].sibling \in S \cup {0}
      BY <1>4 DEF ClosedIn
    <2>3. ASSUME NEW y \in T PROVE {N[y].child, N[y].sibling} \subseteq T \cup {0}
      <3>1. CASE from \notin S
        BY <2>1, <2>2, <3>1
      <3>2. CASE from \in S
        <4>1. N[k].sibling \in S \cup {0}
          BY <2>1, <2>2, <3>2
        <4>2. CASE y = k
          BY <1>1, <3>2, <4>1, <4>2
        <4>3. CASE y = from
          BY <2>1, <2>2, <3>2, <4>3
        <4>4. CASE y \in S /\ y # from
          BY <2>1, <2>2, <3>2, <4>4
        <4> QED
          BY <3>2, <4>2, <4>3, <4>4
      <3> QED
        BY <3>1, <3>2
    <2>4. T \in SUBSET Nodes /\ Root \in T /\ ClosedIn(N, T)
      BY <1>4, <2>3 DEF ClosedIn
    <2>5. \A y \in Nodes : N[y].used => y \in T
      <3> HIDE DEF T
      <3> QED
        BY <2>4 DEF Whole
    <2>6. x # k /\ N[x].used
      BY <1>4 DEF Removed
    <2> QED
      BY <2>5, <2>6
  <1> QED
    BY <1>3, <1>4 DEF Whole

\* What is in use in N still is in M, with its type.
Grown(N, M) == \A x \in Nodes : N[x].used => M[x].used /\ M[x].type = N[x].type

LEMMA GrownKept ==
  ASSUME NEW N, NEW M, Grown(N, M), NEW V \in SUBSET Vnodes, Kept(N, V)
  PROVE  Kept(M, V)
  <1>1. \A v \in V : v.data \in Nodes
    BY DEF Vnodes
  <1> QED
    BY <1>1 DEF Kept, Grown

LEMMA Sizes ==
  /\ MAXSIZE \in Nat /\ 0 \in 0 .. MAXSIZE /\ Zeros \in [Offsets -> Bytes \cup {0}]
  /\ \A o \in Offsets : Zeros[o] = 0 /\ o \in Nat /\ o < MAXSIZE
  BY RamAssumption DEF Zeros, Offsets

\* Entry names, which are not empty.
EntryNames == Names \cup {Up, Ram}

LEMMA LinkNewEnters ==
  ASSUME NEW N \in Tables, NEW k \in Nodes, ~N[k].used, NEW d \in Nodes,
         NEW name \in EntryNames, NEW t \in {"file", "dir"}
  PROVE  LinkNew(N, k, d, name, t) \in Tables /\ Entered(N, LinkNew(N, k, d, name, t), k, d, t)
  <1> DEFINE new == [Zeroed EXCEPT !.used = TRUE, !.type = t, !.name = name, !.parent = d]
             clear == [N EXCEPT ![k] = new]
             chained == [clear EXCEPT ![k].sibling = clear[d].child]
             M == [chained EXCEPT ![d].child = k]
  <1>1. LinkNew(N, k, d, name, t) = M
    BY DEF LinkNew
  <1>2. Zeroed \in Records
    BY Sizes DEF Zeroed, Records
  <1>3. new \in Records
    BY <1>2 DEF Records, EntryNames
  <1>4. new.used /\ new.type = t /\ new.child = 0 /\ new.sibling = 0 /\ new.size = 0
          /\ new.data = Zeros
    <2>1. Zeroed.child = 0 /\ Zeroed.sibling = 0 /\ Zeroed.size = 0 /\ Zeroed.data = Zeros
      BY DEF Zeroed
    <2> QED
      BY <1>2, <2>1 DEF Records
  <1> HIDE DEF new
  <1>5. clear \in Tables /\ clear[k] = new /\ \A x \in Nodes \ {k} : clear[x] = N[x]
    BY <1>3 DEF Tables
  <1> HIDE DEF clear
  <1>6. clear[k] \in Records /\ clear[d].child \in Nodes \cup {0}
    BY <1>5, Fields
  <1>7. [clear[k] EXCEPT !.sibling = clear[d].child] \in Records
    BY <1>6 DEF Records
  <1>8. /\ chained \in Tables
        /\ chained[k] = [clear[k] EXCEPT !.sibling = clear[d].child]
        /\ \A x \in Nodes \ {k} : chained[x] = clear[x]
    BY <1>5, <1>7 DEF Tables
  <1> HIDE DEF chained
  <1>9. chained[d] \in Records
    BY <1>8, Fields
  <1>10. [chained[d] EXCEPT !.child = k] \in Records
    BY <1>9 DEF Records
  <1>11. M \in Tables /\ M[d] = [chained[d] EXCEPT !.child = k]
           /\ \A x \in Nodes \ {d} : M[x] = chained[x]
    BY <1>8, <1>10 DEF Tables
  <1> HIDE DEF M
  <1>12. /\ M[d].child = k /\ M[d].used = chained[d].used /\ M[d].type = chained[d].type
         /\ M[d].sibling = chained[d].sibling /\ M[d].size = chained[d].size
         /\ M[d].data = chained[d].data
    BY <1>9, <1>11 DEF Records
  <1>13. /\ chained[k].sibling = clear[d].child /\ chained[k].used /\ chained[k].type = t
         /\ chained[k].child = 0 /\ chained[k].size = 0 /\ chained[k].data = Zeros
    BY <1>4, <1>5, <1>6, <1>8 DEF Records
  <1>14. Entered(N, M, k, d, t)
    <2>1. \A x \in Nodes \ {k} :
            /\ M[x].used = N[x].used /\ M[x].type = N[x].type /\ M[x].sibling = N[x].sibling
            /\ M[x].size = N[x].size /\ M[x].data = N[x].data
      <3> SUFFICES ASSUME NEW x \in Nodes \ {k}
                   PROVE  /\ M[x].used = N[x].used /\ M[x].type = N[x].type
                          /\ M[x].sibling = N[x].sibling
                          /\ M[x].size = N[x].size /\ M[x].data = N[x].data
        OBVIOUS
      <3>1. chained[x] = N[x]
        BY <1>5, <1>8
      <3>2. CASE x = d
        BY <1>12, <3>1, <3>2
      <3>3. CASE x # d
        BY <1>11, <3>1, <3>3
      <3> QED
        BY <3>2, <3>3
    <2>2. \A x \in Nodes \ {k, d} : M[x].child = N[x].child
      BY <1>5, <1>8, <1>11
    <2>3. M[k].used /\ M[k].type = t /\ M[k].data = Zeros
      BY <1>11, <1>12, <1>13
    <2>4. M[k].sibling = IF d = k THEN 0 ELSE N[d].child
      <3>1. clear[d].child = IF d = k THEN 0 ELSE N[d].child
        BY <1>4, <1>5
      <3>2. CASE d = k
        BY <1>12, <1>13, <3>1, <3>2
      <3>3. CASE d # k
        <4>1. M[k] = chained[k]
          BY <1>11, <3>3
        <4> QED
          BY <1>13, <3>1, <3>3, <4>1
      <3> QED
        BY <3>2, <3>3
    <2>5. d # k => M[k].child = 0
      BY <1>11, <1>13
    <2> QED
      BY <1>12, <2>1, <2>2, <2>3, <2>4, <2>5 DEF Entered
  <1> QED
    BY <1>1, <1>11, <1>14

LEMMA EnteredGood ==
  ASSUME NEW N, Good(N), NEW M \in Tables, NEW k \in Nodes, NEW d \in Nodes,
         NEW t, Entered(N, M, k, d, t)
  PROVE  Good(M) /\ Grown(N, M)
  <1>1. Linked(M)
    BY EnteredLinked DEF Good
  <1>2. Tails(M)
    <2> SUFFICES ASSUME NEW x \in Nodes, NEW o \in Offsets, o >= M[x].size
                 PROVE  M[x].data[o] = 0
      BY DEF Tails
    <2>1. CASE x = k
      BY <2>1, Sizes DEF Entered
    <2>2. CASE x # k
      BY <2>2 DEF Entered, Tails, Good
    <2> QED
      BY <2>1, <2>2
  <1>3. Grown(N, M)
    BY DEF Entered, Grown
  <1> QED
    BY <1>1, <1>2, <1>3 DEF Good

LEMMA AllocIsFree ==
  ASSUME NEW N, AllocNode(N) # 0
  PROVE  AllocNode(N) \in Nodes /\ ~N[AllocNode(N)].used
  <1> DEFINE free == {k \in Nodes : ~N[k].used}
  <1>1. free # {} /\ AllocNode(N) = CHOOSE k \in free : \A j \in free : k <= j
    BY DEF AllocNode
  <1>2. free \in SUBSET Nat
    BY Numbers
  <1>3. \E k \in free : \A j \in free : k <= j
    <2> HIDE DEF free
    <2> QED
      BY <1>1, <1>2, LeastNat
  <1>4. AllocNode(N) \in free
    <2> HIDE DEF free
    <2> QED
      BY <1>1, <1>3
  <1> QED
    BY <1>4

LEMMA UnlinkRemoves ==
  ASSUME NEW N \in Tables, NEW d \in Nodes, NEW i \in 1 .. Len(Chain(N, d)),
         IsChain(Chain(N, d), N, d)
  PROVE  \E k \in Nodes, prev \in Nodes \cup {0} :
           k = Chain(N, d)[i] /\ UnlinkAt(N, d, i) \in Tables
             /\ Removed(N, UnlinkAt(N, d, i), k, d, prev)
  <1> DEFINE s == Chain(N, d)
             k == s[i]
             next == N[k].sibling
             one == [N EXCEPT ![d].child = next]
             prev == s[i - 1]
             other == [N EXCEPT ![prev].sibling = next]
             out == IF i = 1 THEN one ELSE other
             M == [out EXCEPT ![k].used = FALSE]
  <1>1. UnlinkAt(N, d, i) = M
    BY DEF UnlinkAt
  <1>2. /\ Len(s) \in Nat /\ s \in [1 .. Len(s) -> Nodes]
        /\ Len(s) # 0 => s[1] = N[d].child
        /\ \A j \in 1 .. Len(s) : N[s[j]].used /\ s[j] # Root
        /\ \A j \in 2 .. Len(s) : s[j] = N[s[j - 1]].sibling
        /\ \A j, l \in 1 .. Len(s) : s[j] = s[l] => j = l
    <2>1. s \in Seq(Nodes)
      BY DEF IsChain
    <2>2. Len(s) \in Nat /\ s \in [1 .. Len(s) -> Nodes]
      BY <2>1
    <2> HIDE DEF s
    <2> QED
      BY <2>2 DEF IsChain, s
  <1> HIDE DEF s
  <1>3. k \in Nodes /\ N[k].used /\ k # Root /\ next \in Nodes \cup {0} /\ N[k] \in Records
    BY <1>2, Fields DEF s
  <1>4. i # 1 => /\ prev \in Nodes \ {k} /\ N[prev].used /\ N[prev].sibling = k
    <2> SUFFICES ASSUME i # 1 PROVE prev \in Nodes \ {k} /\ N[prev].used /\ N[prev].sibling = k
      OBVIOUS
    <2>1. i \in 1 .. Len(s) /\ i \in 2 .. Len(s) /\ i - 1 \in 1 .. Len(s) /\ i - 1 # i
      BY <1>2 DEF s
    <2> QED
      BY <1>2, <2>1
  <1>5. i = 1 => k = N[d].child
    BY <1>2 DEF s
  <1> HIDE DEF k, next, prev
  <1>6. [N[d] EXCEPT !.child = next] \in Records
    <2>1. N[d] \in Records
      BY Fields
    <2> QED
      BY <1>3, <2>1 DEF Records
  <1>7. i # 1 => [N[prev] EXCEPT !.sibling = next] \in Records
    <2> SUFFICES ASSUME i # 1 PROVE [N[prev] EXCEPT !.sibling = next] \in Records
      OBVIOUS
    <2>1. N[prev] \in Records
      BY <1>4, Fields
    <2> QED
      BY <1>3, <2>1 DEF Records
  <1>8. out \in Tables
    BY <1>4, <1>6, <1>7 DEF Tables
  <1>9. /\ \A x \in Nodes : out[x].used = N[x].used /\ out[x].type = N[x].type
             /\ out[x].size = N[x].size /\ out[x].data = N[x].data
        /\ i = 1 => /\ out[d].child = next
                    /\ \A x \in Nodes \ {d} : out[x].child = N[x].child
                    /\ \A x \in Nodes : out[x].sibling = N[x].sibling
        /\ i # 1 => /\ out[prev].sibling = next
                    /\ \A x \in Nodes \ {prev} : out[x].sibling = N[x].sibling
                    /\ \A x \in Nodes : out[x].child = N[x].child
    <2>1. \A x \in Nodes : N[x] \in Records
      BY Fields
    <2>2. CASE i = 1
      <3>1. out = one /\ one[d] = [N[d] EXCEPT !.child = next]
              /\ \A x \in Nodes \ {d} : one[x] = N[x]
        BY <2>2 DEF Tables
      <3> HIDE DEF out, one
      <3>2. /\ one[d].child = next /\ one[d].used = N[d].used /\ one[d].type = N[d].type
            /\ one[d].size = N[d].size /\ one[d].data = N[d].data /\ one[d].sibling = N[d].sibling
        BY <2>1, <3>1 DEF Records
      <3> QED
        BY <2>2, <3>1, <3>2
    <2>3. CASE i # 1
      <3>0. prev \in Nodes
        BY <1>4, <2>3
      <3>1. out = other /\ other[prev] = [N[prev] EXCEPT !.sibling = next]
              /\ \A x \in Nodes \ {prev} : other[x] = N[x]
        BY <2>3, <3>0 DEF Tables
      <3> HIDE DEF out, other
      <3>2. /\ other[prev].sibling = next /\ other[prev].used = N[prev].used
            /\ other[prev].type = N[prev].type /\ other[prev].size = N[prev].size
            /\ other[prev].data = N[prev].data /\ other[prev].child = N[prev].child
        BY <2>1, <3>0, <3>1 DEF Records
      <3> QED
        BY <2>3, <3>1, <3>2
    <2> QED
      BY <2>2, <2>3
  <1> HIDE DEF out
  <1>10. [out[k] EXCEPT !.used = FALSE] \in Records /\ out[k] \in Records
    <2>1. out[k] \in Records
      BY <1>3, <1>8, Fields
    <2> QED
      BY <2>1 DEF Records
  <1>11. M \in Tables /\ M[k] = [out[k] EXCEPT !.used = FALSE]
           /\ \A x \in Nodes \ {k} : M[x] = out[x]
    BY <1>3, <1>8, <1>10 DEF Tables
  <1> HIDE DEF M
  <1>12. /\ ~M[k].used /\ M[k].type = out[k].type /\ M[k].size = out[k].size
         /\ M[k].data = out[k].data /\ M[k].child = out[k].child /\ M[k].sibling = out[k].sibling
    BY <1>10, <1>11 DEF Records
  <1>13. \A x \in Nodes : /\ M[x].type = out[x].type /\ M[x].size = out[x].size
                          /\ M[x].data = out[x].data /\ M[x].child = out[x].child
                          /\ M[x].sibling = out[x].sibling
    BY <1>11, <1>12
  <1>14. Removed(N, M, k, d, IF i = 1 THEN 0 ELSE prev)
    <2>1. \A x \in Nodes \ {k} : M[x].used = N[x].used
      BY <1>9, <1>11
    <2>2. \A x \in Nodes : M[x].type = N[x].type /\ M[x].size = N[x].size /\ M[x].data = N[x].data
      BY <1>9, <1>13
    <2>3. CASE i = 1
      BY <1>3, <1>5, <1>9, <1>12, <1>13, <2>1, <2>2, <2>3 DEF Removed, next
    <2>4. CASE i # 1
      <3>1. prev # 0
        BY <1>4, <2>4, Numbers
      <3> QED
        BY <1>3, <1>4, <1>9, <1>12, <1>13, <2>1, <2>2, <2>4, <3>1 DEF Removed, next
    <2> QED
      BY <2>3, <2>4
  <1> QED
    BY <1>1, <1>3, <1>4, <1>11, <1>14 DEF k, s

LEMMA RemovedGood ==
  ASSUME NEW N, Good(N), NEW M \in Tables, NEW k \in Nodes, NEW d \in Nodes,
         NEW prev \in Nodes \cup {0}, Removed(N, M, k, d, prev)
  PROVE  Good(M)
  <1>1. Linked(M)
    BY RemovedLinked DEF Good
  <1>2. Tails(M)
    BY DEF Removed, Tails, Good
  <1> QED
    BY <1>1, <1>2 DEF Good
-----------------------------------------------------------------------------
(* Walks *)

Results == {"ok", "null", "fault", "elsewhere",
            "ENOENT", "ENOTDIR", "EEXIST", "ENOMEM", "EINVAL"}
Walkers == [res : Results, cur : Seq(Vnodes), node : Tables, nvn : 0 .. NVNODE,
            strayed : BOOLEAN]

\* A walk that began with table N and may have made entries.
Ends(N) ==
  {w \in Walkers : /\ Good(w.node) /\ Grown(N, w.node)
                   /\ ~w.strayed => Whole(w.node)
                   /\ Kept(w.node, ToSet(w.cur))}

\* All vnodes it went through, but the last, are directories.
OnWay(N) == {w \in Ends(N) : \A i \in 1 .. Len(w.cur) - 1 : w.cur[i].type = "dir"}
AllDirs(w) == \A i \in 1 .. Len(w.cur) : w.cur[i].type = "dir"

LEMMA ToSetIs ==
  ASSUME NEW S, NEW s \in Seq(S)
  PROVE  /\ Len(s) \in Nat /\ s \in [1 .. Len(s) -> S]
         /\ ToSet(s) = {s[i] : i \in 1 .. Len(s)} /\ ToSet(s) \subseteq S
  BY DEF ToSet

\* The last vnode of a walk.
LEMMA LastVnode ==
  ASSUME NEW s \in Seq(Vnodes), s # <<>>
  PROVE  /\ Last(s) \in Vnodes /\ Last(s) \in ToSet(s) /\ Last(s).data \in Nodes
         /\ Last(s) = s[Len(s)] /\ Len(s) \in 1 .. Len(s)
  <1>1. Len(s) \in 1 .. Len(s)
    BY ToSetIs
  <1>2. s[Len(s)] \in ToSet(s) /\ s[Len(s)] \in Vnodes
    BY <1>1, ToSetIs
  <1> QED
    BY <1>1, <1>2 DEF Last, Vnodes

\* A walk that fails stays where it is.
LEMMA Fails ==
  ASSUME NEW N, NEW r \in Results, NEW w
  PROVE  /\ w \in Ends(N) => [w EXCEPT !.res = r] \in Ends(N)
         /\ w \in OnWay(N) => [w EXCEPT !.res = r] \in OnWay(N)
  <1>1. ASSUME w \in Ends(N) PROVE [w EXCEPT !.res = r] \in Ends(N)
    <2>1. w \in Walkers
      BY <1>1 DEF Ends
    <2> DEFINE u == [w EXCEPT !.res = r]
    <2>2. u \in Walkers /\ u.node = w.node /\ u.cur = w.cur /\ u.strayed = w.strayed
      BY <2>1 DEF Walkers
    <2> HIDE DEF u
    <2>3. u \in Ends(N)
      BY <1>1, <2>2 DEF Ends
    <2> QED
      BY <2>3 DEF u
  <1>2. ASSUME w \in OnWay(N) PROVE [w EXCEPT !.res = r] \in OnWay(N)
    <2>1. w \in Ends(N) /\ w \in Walkers
      BY <1>2 DEF OnWay, Ends
    <2>2. [w EXCEPT !.res = r].cur = w.cur
      BY <2>1 DEF Walkers
    <2> QED
      BY <1>1, <1>2, <2>1, <2>2 DEF OnWay
  <1> QED
    BY <1>1, <1>2

LEMMA WrapEnds ==
  ASSUME NEW N, NEW w \in Ends(N), NEW k \in Nodes, w.node[k].used
  PROVE  Wrap(w, k) \in Ends(N) /\ (AllDirs(w) => Wrap(w, k) \in OnWay(N))
  <1>1. w \in Walkers /\ w.node \in Tables
    BY DEF Ends, Walkers
  <1>2. CASE w.nvn = NVNODE
    <2>1. Wrap(w, k) = [w EXCEPT !.res = "null"] /\ "null" \in Results
      BY <1>2 DEF Wrap, Results
    <2>2. AllDirs(w) => w \in OnWay(N)
      <3>1. Len(w.cur) \in Nat
        BY <1>1 DEF Walkers
      <3>2. \A i \in 1 .. Len(w.cur) - 1 : i \in 1 .. Len(w.cur)
        BY <3>1
      <3> QED
        BY <3>2 DEF AllDirs, OnWay
    <2> QED
      BY <2>1, <2>2, Fails
  <1>3. CASE w.nvn # NVNODE
    <2> DEFINE v == Vnode(k, w.node[k].type)
               u == [w EXCEPT !.nvn = @ + 1, !.cur = Append(@, v)]
    <2>1. Wrap(w, k) = u
      BY <1>3 DEF Wrap
    <2>2. v \in Vnodes /\ v.data = k /\ v.type = w.node[k].type
      BY <1>1, Fields DEF Vnode, Vnodes
    <2> HIDE DEF v
    <2>3. w.nvn + 1 \in 0 .. NVNODE /\ Append(w.cur, v) \in Seq(Vnodes)
      BY <1>1, <1>3, <2>2, RamAssumption DEF Walkers
    <2>4. /\ u \in Walkers /\ u.node = w.node /\ u.strayed = w.strayed
          /\ u.cur = Append(w.cur, v)
      BY <1>1, <2>3 DEF Walkers
    <2> HIDE DEF u
    <2>5. /\ Len(w.cur) \in Nat /\ Len(u.cur) = Len(w.cur) + 1 /\ u.cur[Len(w.cur) + 1] = v
          /\ \A i \in 1 .. Len(w.cur) : u.cur[i] = w.cur[i]
      BY <1>1, <2>2, <2>4 DEF Walkers
    <2>6. Kept(u.node, ToSet(u.cur))
      <3>1. ASSUME NEW i \in 1 .. Len(u.cur), ~u.cur[i].gone
            PROVE  u.node[u.cur[i].data].used /\ u.node[u.cur[i].data].type = u.cur[i].type
        <4>1. CASE i = Len(w.cur) + 1
          BY <2>2, <2>4, <2>5, <4>1
        <4>2. CASE i # Len(w.cur) + 1
          <5>1. i \in 1 .. Len(w.cur)
            BY <2>5, <4>2
          <5>2. w.cur[i] \in ToSet(w.cur) /\ u.cur[i] = w.cur[i]
            BY <1>1, <2>5, <5>1, ToSetIs DEF Walkers
          <5> QED
            BY <2>4, <3>1, <5>2 DEF Ends, Kept
        <4> QED
          BY <4>1, <4>2
      <3>2. ToSet(u.cur) = {u.cur[i] : i \in 1 .. Len(u.cur)}
        BY <2>4, ToSetIs DEF Walkers
      <3> QED
        BY <3>1, <3>2 DEF Kept
    <2>7. u \in Ends(N)
      BY <2>4, <2>6 DEF Ends
    <2>8. ASSUME AllDirs(w), NEW i \in 1 .. Len(u.cur) - 1 PROVE u.cur[i].type = "dir"
      BY <2>5, <2>8 DEF AllDirs
    <2> QED
      BY <2>1, <2>7, <2>8 DEF OnWay
  <1> QED
    BY <1>2, <1>3

LEMMA AddEntryEnds ==
  ASSUME NEW N, NEW w \in Ends(N), w.cur # <<>>, NEW name \in EntryNames,
         NEW t \in {"file", "dir"}
  PROVE  /\ AddEntry(w, name, t) \in Ends(N)
         /\ AllDirs(w) => AddEntry(w, name, t) \in OnWay(N)
  <1> DEFINE k == AllocNode(w.node)
             d == Last(w.cur)
  <1>1. /\ w \in Walkers /\ w.node \in Tables /\ w.cur \in Seq(Vnodes) /\ Good(w.node)
        /\ Linked(w.node) /\ Grown(N, w.node) /\ Kept(w.node, ToSet(w.cur))
    BY DEF Ends, Walkers, Good
  <1>2. CASE k = 0
    <2>1. AddEntry(w, name, t) = [w EXCEPT !.res = "ENOMEM"] /\ "ENOMEM" \in Results
      BY <1>2 DEF AddEntry, Results
    <2>2. AllDirs(w) => w \in OnWay(N)
      <3>1. Len(w.cur) \in Nat
        BY <1>1
      <3>2. \A i \in 1 .. Len(w.cur) - 1 : i \in 1 .. Len(w.cur)
        BY <3>1
      <3> QED
        BY <3>2 DEF AllDirs, OnWay
    <2> QED
      BY <2>1, <2>2, Fails
  <1>3. CASE k # 0
    <2> DEFINE M == LinkNew(w.node, k, d.data, name, t)
               g == w.strayed \/ d.gone \/ d.type # "dir"
               u == [w EXCEPT !.node = LinkNew(@, k, d.data, name, t),
                              !.strayed = @ \/ d.gone \/ d.type # "dir"]
    <2>1. AddEntry(w, name, t) = Wrap(u, k)
      BY <1>3 DEF AddEntry
    <2>2. k \in Nodes /\ ~w.node[k].used
      BY <1>3, AllocIsFree
    <2>3. d \in Vnodes /\ d \in ToSet(w.cur) /\ d.data \in Nodes
      BY <1>1, LastVnode
    <2> HIDE DEF k, d
    <2>4. M \in Tables /\ Entered(w.node, M, k, d.data, t)
      BY <1>1, <2>2, <2>3, LinkNewEnters
    <2>5. Good(M) /\ Grown(w.node, M)
      BY <1>1, <2>2, <2>3, <2>4, EnteredGood
    <2>6. u \in Walkers /\ u.node = M /\ u.cur = w.cur /\ (u.strayed <=> g)
      <3>1. g \in BOOLEAN
        OBVIOUS
      <3> HIDE DEF M
      <3> QED
        BY <1>1, <2>4, <3>1 DEF Walkers, M
    <2>7. ~g => Whole(M)
      <3> SUFFICES ASSUME ~w.strayed, ~d.gone, d.type = "dir" PROVE Whole(M)
        OBVIOUS
      <3>1. Whole(w.node)
        BY DEF Ends
      <3>2. w.node[d.data].used /\ w.node[d.data].type = "dir"
        BY <1>1, <2>3 DEF Kept
      <3> HIDE DEF M
      <3> QED
        BY <1>1, <2>2, <2>3, <2>4, <3>1, <3>2, EnteredWhole
    <2>8. Grown(N, M)
      BY <1>1, <2>5 DEF Grown
    <2>9. Kept(M, ToSet(w.cur))
      BY <1>1, <2>5, ToSetIs, GrownKept
    <2>10. M[k].used
      BY <2>4 DEF Entered
    <2> HIDE DEF M, g, u
    <2>11. u \in Ends(N)
      BY <2>5, <2>6, <2>7, <2>8, <2>9 DEF Ends
    <2>12. AllDirs(w) => AllDirs(u)
      BY <2>6 DEF AllDirs
    <2> QED
      BY <2>1, <2>2, <2>6, <2>10, <2>11, <2>12, WrapEnds
  <1> QED
    BY <1>2, <1>3

\* The entry that FindChild finds, if it does.
LEMMA Found ==
  ASSUME NEW N, Good(N), NEW d \in Nodes, NEW name, FindChild(N, d, name) # 0
  PROVE  /\ FindChild(N, d, name) \in 1 .. Len(Chain(N, d))
         /\ Chain(N, d)[FindChild(N, d, name)] \in Nodes
         /\ N[Chain(N, d)[FindChild(N, d, name)]].used
  <1> DEFINE s == Chain(N, d)
             I == {i \in 1 .. Len(s) : N[s[i]].name = name}
  <1>1. IsChain(s, N, d)
    BY ChainSound DEF Good
  <1>2. FindChild(N, d, name) = IF I # {} THEN Min(I) ELSE 0
    BY DEF FindChild, SelectInSeq
  <1>3. I # {} /\ FindChild(N, d, name) = Min(I)
    BY <1>2
  <1>4. Len(s) \in Nat /\ s \in [1 .. Len(s) -> Nodes]
    <2>1. s \in Seq(Nodes)
      BY <1>1 DEF IsChain
    <2> HIDE DEF s
    <2> QED
      BY <2>1
  <1>5. Min(I) \in I
    <2>1. I \in SUBSET Nat
      OBVIOUS
    <2> HIDE DEF I
    <2>2. \E n \in I : \A m \in I : n <= m
      BY <1>3, <2>1, LeastNat
    <2> QED
      BY <2>2 DEF Min
  <1>6. Min(I) \in 1 .. Len(s)
    BY <1>5
  <1> HIDE DEF I, s
  <1> QED
    BY <1>1, <1>3, <1>4, <1>6 DEF IsChain, s

LEMMA Results9 ==
  {"null", "fault", "elsewhere", "ENOENT", "ENOTDIR", "EEXIST", "ENOMEM", "EINVAL"}
    \subseteq Results
  BY DEF Results

LEMMA FrontOf ==
  ASSUME NEW S, NEW s \in Seq(S), s # <<>>
  PROVE  /\ Front(s) \in Seq(S) /\ Len(Front(s)) = Len(s) - 1 /\ Len(s) \in Nat
         /\ \A i \in 1 .. Len(s) - 1 : Front(s)[i] = s[i]
         /\ ToSet(Front(s)) \subseteq ToSet(s)
  <1>1. Len(s) \in Nat /\ Len(s) >= 1
    OBVIOUS
  <1>2. /\ Front(s) \in Seq(S) /\ Len(Front(s)) = Len(s) - 1
        /\ \A i \in 1 .. Len(s) - 1 : Front(s)[i] = s[i]
    <2> DEFINE n == Len(s) - 1
    <2>1. Front(s) = SubSeq(s, 1, n)
      BY DEF Front
    <2>2. n \in 0 .. Len(s)
      BY <1>1
    <2>3. SubSeq(s, 1, n) = [i \in 1 .. n |-> s[i]]
      <3>1. SubSeq(s, 1, n) = [i \in 1 .. (1 + n - 1) |-> s[1 + i - 1]]
        OBVIOUS
      <3>2. 1 + n - 1 = n /\ \A i \in 1 .. n : 1 + i - 1 = i
        BY <2>2
      <3> QED
        BY <3>1, <3>2
    <2>4. \A i \in 1 .. n : i \in 1 .. Len(s)
      BY <2>2
    <2> HIDE DEF n
    <2>5. [i \in 1 .. n |-> s[i]] \in Seq(S) /\ Len([i \in 1 .. n |-> s[i]]) = n
      BY <1>1, <2>2, <2>4
    <2> QED
      BY <2>1, <2>3, <2>5 DEF n
  <1>3. ToSet(Front(s)) \subseteq ToSet(s)
    <2>1. \A i \in 1 .. Len(Front(s)) : i \in 1 .. Len(s) /\ Front(s)[i] = s[i]
      BY <1>1, <1>2
    <2>2. ToSet(Front(s)) = {Front(s)[i] : i \in 1 .. Len(Front(s))}
      BY <1>2, ToSetIs
    <2>3. ToSet(s) = {s[i] : i \in 1 .. Len(s)}
      BY ToSetIs
    <2> QED
      BY <2>1, <2>2, <2>3
  <1> QED
    BY <1>1, <1>2, <1>3

LEMMA UpOnWay ==
  ASSUME NEW N, NEW w \in OnWay(N), w.cur # <<>>
  PROVE  [w EXCEPT !.cur = Front(@)] \in OnWay(N)
  <1> DEFINE u == [w EXCEPT !.cur = Front(@)]
  <1>1. w \in Ends(N) /\ w \in Walkers /\ w.cur \in Seq(Vnodes)
    BY DEF OnWay, Ends, Walkers
  <1>2. /\ Front(w.cur) \in Seq(Vnodes) /\ Len(Front(w.cur)) = Len(w.cur) - 1
        /\ Len(w.cur) \in Nat
        /\ \A i \in 1 .. Len(w.cur) - 1 : Front(w.cur)[i] = w.cur[i]
        /\ ToSet(Front(w.cur)) \subseteq ToSet(w.cur)
    BY <1>1, FrontOf
  <1>3. /\ u \in Walkers /\ u.node = w.node /\ u.strayed = w.strayed
        /\ u.cur = Front(w.cur)
    BY <1>1, <1>2 DEF Walkers
  <1> HIDE DEF u
  <1>4. u \in Ends(N)
    BY <1>1, <1>2, <1>3 DEF Ends, Kept
  <1>5. \A i \in 1 .. Len(u.cur) - 1 : u.cur[i].type = "dir"
    BY <1>2, <1>3 DEF OnWay
  <1>6. u \in OnWay(N)
    BY <1>4, <1>5 DEF OnWay
  <1> QED
    BY <1>6 DEF u

LEMMA DiskOnWay ==
  ASSUME NEW N, NEW w \in OnWay(N), NEW name
  PROVE  DiskStep(w, name) \in OnWay(N)
  <1>1. CASE name # Ram
    BY <1>1, Fails, Results9 DEF DiskStep
  <1>2. CASE name = Ram /\ w.nvn = NVNODE
    BY <1>2, Fails, Results9 DEF DiskStep
  <1>3. CASE name = Ram /\ w.nvn # NVNODE
    <2> DEFINE v == Vnode(Root, "dir")
               u == [w EXCEPT !.nvn = @ + 1, !.cur = <<v>>]
    <2>1. DiskStep(w, name) = u
      BY <1>3 DEF DiskStep
    <2>2. v \in Vnodes /\ v.data = Root /\ v.type = "dir"
      BY Numbers DEF Vnode, Vnodes
    <2> HIDE DEF v
    <2>3. w \in Walkers /\ w \in Ends(N)
      BY DEF OnWay, Ends
    <2>4. w.nvn + 1 \in 0 .. NVNODE /\ <<v>> \in Seq(Vnodes)
      BY <1>3, <2>2, <2>3, RamAssumption DEF Walkers
    <2>5. u \in Walkers /\ u.node = w.node /\ u.strayed = w.strayed /\ u.cur = <<v>>
      BY <2>3, <2>4 DEF Walkers
    <2> HIDE DEF u
    <2>6. Kept(u.node, ToSet(u.cur))
      <3>1. ToSet(u.cur) = {v}
        BY <2>5 DEF ToSet
      <3> QED
        BY <2>2, <2>3, <2>5, <3>1 DEF Kept, Ends, Good, Linked
    <2>7. \A i \in 1 .. Len(u.cur) - 1 : u.cur[i].type = "dir"
      BY <2>5
    <2> QED
      BY <2>1, <2>3, <2>5, <2>6, <2>7 DEF Ends, OnWay
  <1> QED
    BY <1>1, <1>2, <1>3

LEMMA StepOnWay ==
  ASSUME NEW N, NEW w \in OnWay(N), NEW name \in EntryNames, NEW mk \in BOOLEAN
  PROVE  WalkStep(w, name, mk) \in OnWay(N)
  <1>0. /\ w \in Ends(N) /\ w \in Walkers /\ w.cur \in Seq(Vnodes) /\ Good(w.node)
        /\ w.node \in Tables
    BY DEF OnWay, Ends, Walkers
  <1>1. CASE w.res = "null"
    <2>1. WalkStep(w, name, mk) = [w EXCEPT !.res = "fault"]
      BY <1>1 DEF WalkStep
    <2> QED
      BY <2>1, Fails, Results9
  <1>2. CASE w.res # "null" /\ w.res # "ok"
    BY <1>2 DEF WalkStep
  <1>3. CASE w.res = "ok" /\ name = Up
    <2>1. CASE w.cur = <<>>
      <3>1. WalkStep(w, name, mk) = [w EXCEPT !.cur = w.cur]
        BY <1>3, <2>1 DEF WalkStep
      <3>2. [w EXCEPT !.cur = w.cur] = w
        BY <1>0 DEF Walkers
      <3> QED
        BY <3>1, <3>2
    <2>2. CASE w.cur # <<>>
      <3>1. WalkStep(w, name, mk) = [w EXCEPT !.cur = Front(@)]
        BY <1>3, <2>2 DEF WalkStep
      <3> QED
        BY <2>2, <3>1, UpOnWay
    <2> QED
      BY <2>1, <2>2
  <1>4. CASE w.res = "ok" /\ name # Up /\ w.cur = <<>>
    BY <1>4, DiskOnWay DEF WalkStep
  <1>5. CASE w.res = "ok" /\ name # Up /\ w.cur # <<>>
    <2> DEFINE d == Last(w.cur)
               i == FindChild(w.node, d.data, name)
    <2>1. d \in Vnodes /\ d.data \in Nodes /\ d = w.cur[Len(w.cur)] /\ Len(w.cur) \in Nat
      BY <1>0, <1>5, LastVnode, ToSetIs
    <2> HIDE DEF d
    <2>2. CASE d.type # "dir"
      <3>1. WalkStep(w, name, mk) = [w EXCEPT !.res = "ENOTDIR"]
        BY <1>5, <2>2 DEF WalkStep, d
      <3> QED
        BY <3>1, Fails, Results9
    <2>3. CASE d.type = "dir"
      <3>1. AllDirs(w)
        <4>1. \A j \in 1 .. Len(w.cur) : j \in 1 .. Len(w.cur) - 1 \/ j = Len(w.cur)
          BY <2>1
        <4> QED
          BY <2>1, <2>3, <4>1 DEF AllDirs, OnWay
      <3>2. CASE i # 0
        <4>1. WalkStep(w, name, mk) = Wrap(w, Chain(w.node, d.data)[i])
          BY <1>5, <2>3, <3>2 DEF WalkStep, d
        <4>2. Chain(w.node, d.data)[i] \in Nodes /\ w.node[Chain(w.node, d.data)[i]].used
          BY <1>0, <2>1, <3>2, Found
        <4> QED
          BY <1>0, <3>1, <4>1, <4>2, WrapEnds
      <3>3. CASE i = 0 /\ mk
        <4>1. WalkStep(w, name, mk) = AddEntry(w, name, "dir")
          BY <1>5, <2>3, <3>3 DEF WalkStep, d
        <4> QED
          BY <1>0, <1>5, <3>1, <4>1, AddEntryEnds
      <3>4. CASE i = 0 /\ ~mk
        <4>1. WalkStep(w, name, mk) = [w EXCEPT !.res = "ENOENT"]
          BY <1>5, <2>3, <3>4 DEF WalkStep, d
        <4>2. "ENOENT" \in Results
          BY Results9
        <4> QED
          BY <4>1, <4>2, Fails
      <3> QED
        BY <3>2, <3>3, <3>4
    <2> QED
      BY <2>2, <2>3
  <1> QED
    BY <1>1, <1>2, <1>3, <1>4, <1>5

LEMMA WalkToOnWay ==
  ASSUME NEW N, NEW w \in OnWay(N), NEW path \in Seq(EntryNames), NEW mk \in BOOLEAN
  PROVE  WalkTo(w, path, mk) \in OnWay(N)
  <1> DEFINE S == OnWay(N)
             n == Len(path)
             G == [q \in (1 .. n) \X S |-> WalkStep(q[2], path[q[1]], mk)]
             Rec(g) == [i \in 0 .. Len(path) |->
                          IF i = 0 THEN w ELSE WalkStep(g[i - 1], path[i], mk)]
             at == CHOOSE g : g = Rec(g)
  <1>1. WalkTo(w, path, mk) = at[n]
    BY DEF WalkTo
  <1>2. n \in Nat /\ \A i \in 1 .. n : path[i] \in EntryNames
    OBVIOUS
  <1>3. G \in [(1 .. n) \X S -> S] /\ \A i \in 1 .. n, a \in S : G[<<i, a>>] = WalkStep(a, path[i], mk)
    <2>1. ASSUME NEW q \in (1 .. n) \X S PROVE WalkStep(q[2], path[q[1]], mk) \in S
      BY <1>2, StepOnWay
    <2> HIDE DEF S, n
    <2> QED
      BY <2>1
  <1> HIDE DEF n
  <1>4. PICK f : Follows(f, S, G, w, n)
    <2> HIDE DEF S, G
    <2>1. w \in S
      BY DEF S
    <2> QED
      BY <1>2, <1>3, <2>1, Iterate
  <1>5. f \in [0 .. n -> S] /\ f[0] = w /\ \A i \in 1 .. n : f[i] = WalkStep(f[i - 1], path[i], mk)
    <2>1. f \in [0 .. n -> S] /\ f[0] = w /\ \A i \in 1 .. n : f[i] = G[<<i, f[i - 1]>>]
      BY <1>4 DEF Follows
    <2>2. \A i \in 1 .. n : i - 1 \in 0 .. n
      BY <1>2
    <2> HIDE DEF S, G
    <2> QED
      BY <1>3, <2>1, <2>2
  <1>6. f = Rec(f)
    <2>1. ASSUME NEW i \in 0 .. n PROVE f[i] = Rec(f)[i]
      <3>1. CASE i = 0
        BY <1>5, <3>1 DEF n
      <3>2. CASE i # 0
        <4>1. i \in 1 .. n
          BY <1>2, <3>2
        <4> QED
          BY <1>5, <3>2, <4>1 DEF n
      <3> QED
        BY <3>1, <3>2
    <2> HIDE DEF S
    <2> QED
      BY <1>5, <2>1 DEF n
  <1>7. at = Rec(at)
    <2> HIDE DEF Rec
    <2> QED
      BY <1>6
  <1> HIDE DEF at
  <1>8. at[0] = w /\ \A i \in 1 .. n : at[i] = WalkStep(at[i - 1], path[i], mk)
    <2>1. 0 \in 0 .. n /\ \A i \in 1 .. n : i \in 0 .. n /\ i # 0
      BY <1>2
    <2>2. at[0] = Rec(at)[0] /\ \A i \in 1 .. n : at[i] = Rec(at)[i]
      BY <1>7
    <2> QED
      BY <2>1, <2>2 DEF n
  <1>9. Follows(at, S, G, w, n)
    <2>1. at = [i \in 0 .. n |-> at[i]]
      BY <1>7 DEF n
    <2>2. \A i \in 0 .. n : at[i] = IF i = 0 THEN w ELSE at[i]
      BY <1>8
    <2>3. at = [i \in 0 .. n |-> IF i = 0 THEN w ELSE at[i]]
      BY <2>1, <2>2
    <2>4. \A i \in 1 .. n : at[i - 1] \in S => at[i] = G[<<i, at[i - 1]>>]
      <3> HIDE DEF S, G
      <3> QED
        BY <1>3, <1>8
    <2>5. w \in S
      OBVIOUS
    <2> HIDE DEF S, G
    <2> QED
      BY <1>2, <1>3, <2>3, <2>4, <2>5, Defined
  <1>10. n \in 0 .. n
    BY <1>2
  <1>11. at[n] \in S
    <2> HIDE DEF S, G
    <2> QED
      BY <1>9, <1>10 DEF Follows
  <1> QED
    BY <1>1, <1>11

LEMMA WalkParentOnWay ==
  ASSUME NEW N, NEW w \in OnWay(N), NEW path \in Seq(EntryNames), NEW mk \in BOOLEAN
  PROVE  /\ WalkParent(w, path, mk) \in OnWay(N)
         /\ WalkParent(w, path, mk).res = "ok" => path # <<>>
  <1>1. CASE path = <<>>
    <2>1. WalkParent(w, path, mk) = [w EXCEPT !.res = "EINVAL"] /\ "EINVAL" \in Results
      BY <1>1 DEF WalkParent, Results
    <2>2. w \in Walkers
      BY DEF OnWay, Ends
    <2>3. [w EXCEPT !.res = "EINVAL"].res = "EINVAL"
      BY <2>2 DEF Walkers
    <2>4. [w EXCEPT !.res = "EINVAL"] \in OnWay(N)
      BY <2>1, Fails
    <2>5. WalkParent(w, path, mk).res # "ok"
      BY <2>1, <2>3
    <2> QED
      BY <2>1, <2>4, <2>5
  <1>2. CASE path # <<>>
    <2>1. Front(path) \in Seq(EntryNames)
      BY <1>2, FrontOf
    <2> QED
      BY <1>2, <2>1, WalkToOnWay DEF WalkParent
  <1> QED
    BY <1>1, <1>2

LEMMA MakeEntryEnds ==
  ASSUME NEW N, NEW w \in OnWay(N), NEW name \in EntryNames, NEW t \in {"file", "dir"}
  PROVE  MakeEntry(w, name, t) \in Ends(N)
  <1>0. /\ w \in Ends(N) /\ w \in Walkers /\ w.cur \in Seq(Vnodes) /\ Good(w.node)
    BY DEF OnWay, Ends, Walkers
  <1> DEFINE d == Last(w.cur).data
             i == FindChild(w.node, d, name)
  <1>1. CASE w.cur = <<>>
    <2>1. MakeEntry(w, name, t) = [w EXCEPT !.res = "elsewhere"] /\ "elsewhere" \in Results
      BY <1>1 DEF MakeEntry, Results
    <2> QED
      BY <1>0, <2>1, Fails
  <1>2. CASE w.cur # <<>> /\ i = 0
    <2>1. MakeEntry(w, name, t) = AddEntry(w, name, t)
      BY <1>2 DEF MakeEntry
    <2> QED
      BY <1>0, <1>2, <2>1, AddEntryEnds
  <1>3. CASE w.cur # <<>> /\ i # 0
    <2>1. d \in Nodes
      BY <1>0, <1>3, LastVnode
    <2> HIDE DEF d
    <2>2. Chain(w.node, d)[i] \in Nodes /\ w.node[Chain(w.node, d)[i]].used
      BY <1>0, <1>3, <2>1, Found
    <2>3. CASE w.node[Chain(w.node, d)[i]].type = t
      <3>1. MakeEntry(w, name, t) = Wrap(w, Chain(w.node, d)[i])
        BY <1>3, <2>3 DEF MakeEntry, d
      <3> QED
        BY <1>0, <2>2, <3>1, WrapEnds
    <2>4. CASE w.node[Chain(w.node, d)[i]].type # t
      <3>1. MakeEntry(w, name, t) = [w EXCEPT !.res = "EEXIST"] /\ "EEXIST" \in Results
        BY <1>3, <2>4 DEF MakeEntry, Results, d
      <3> QED
        BY <1>0, <3>1, Fails
    <2> QED
      BY <2>3, <2>4
  <1> QED
    BY <1>1, <1>2, <1>3

\* A path is looked up, or its last component made, by a sound walk.
LEMMA MakeAtEnds ==
  ASSUME NEW N, NEW w \in OnWay(N), NEW path \in Seq(EntryNames), NEW t \in {"file", "dir"}
  PROVE  MakeAt(w, path, t) \in Ends(N)
  <1> DEFINE found == Walk(w, path)
             again == [w EXCEPT !.nvn = found.nvn]
             par == WalkParent(again, path, TRUE)
  <1>1. found \in OnWay(N) /\ found \in Ends(N) /\ found \in Walkers /\ w \in Walkers
        /\ w \in Ends(N)
    BY WalkToOnWay DEF Walk, OnWay, Ends
  <1> HIDE DEF found
  <1>2. again \in OnWay(N)
    <2>1. again \in Walkers /\ again.node = w.node /\ again.cur = w.cur /\ again.strayed = w.strayed
      BY <1>1 DEF Walkers
    <2> HIDE DEF again
    <2>2. again \in Ends(N)
      BY <1>1, <2>1 DEF Ends
    <2> QED
      BY <2>1, <2>2 DEF OnWay
  <1>3. par \in OnWay(N) /\ (par.res = "ok" => path # <<>>) /\ par \in Ends(N)
    <2> HIDE DEF again
    <2>1. par \in OnWay(N) /\ (par.res = "ok" => path # <<>>)
      BY <1>2, WalkParentOnWay
    <2> QED
      BY <2>1 DEF OnWay
  <1> HIDE DEF par
  <1>4. MakeIn(par, Last(path), t) \in Ends(N)
    <2>1. CASE par.res = "null"
      <3>1. MakeIn(par, Last(path), t) = [par EXCEPT !.res = "fault"] /\ "fault" \in Results
        BY <2>1 DEF MakeIn, Results
      <3> QED
        BY <1>3, <3>1, Fails
    <2>2. CASE par.res # "null" /\ par.res # "ok"
      BY <1>3, <2>2 DEF MakeIn
    <2>3. CASE par.res = "ok"
      <3>1. path # <<>> /\ Len(path) \in Nat /\ path \in Seq(EntryNames)
        BY <1>3, <2>3
      <3>2. Last(path) \in EntryNames
        <4>1. path[Len(path)] \in EntryNames
          BY ONLY <3>1
        <4> QED
          BY <4>1 DEF Last
      <3>3. MakeIn(par, Last(path), t) = MakeEntry(par, Last(path), t)
        BY <2>3 DEF MakeIn
      <3> QED
        BY <1>3, <3>2, <3>3, MakeEntryEnds
    <2> QED
      BY <2>1, <2>2, <2>3
  <1>5. MakeAt(w, path, t) =
          IF found.res = "null" THEN [found EXCEPT !.res = "fault"]
          ELSE IF found.res = "ok"
               THEN IF found.cur = <<>> \/ Last(found.cur).type = t THEN found
                    ELSE [found EXCEPT !.res = "EEXIST"]
          ELSE IF found.res # "ENOENT" THEN found
          ELSE MakeIn(par, Last(path), t)
    BY DEF MakeAt, MakeAfter, found, par
  <1>6. [found EXCEPT !.res = "fault"] \in Ends(N) /\ [found EXCEPT !.res = "EEXIST"] \in Ends(N)
    <2>1. "fault" \in Results /\ "EEXIST" \in Results
      BY DEF Results
    <2> QED
      BY <1>1, <2>1, Fails
  <1> QED
    BY <1>1, <1>4, <1>5, <1>6
-----------------------------------------------------------------------------
(* System calls *)

LEMMA InitInv == RamInit => RamInv
  <1> SUFFICES ASSUME RamInit PROVE RamInv
    OBVIOUS
  <1>1. Root \in Nodes /\ NVNODE \in Nat
    BY Numbers, RamAssumption
  <1> DEFINE top == [Zeroed EXCEPT !.used = TRUE, !.type = "dir", !.parent = Root]
  <1>2. Zeroed \in Records /\ Zeroed.child = 0 /\ Zeroed.sibling = 0 /\ Zeroed.data = Zeros
          /\ ~Zeroed.used
    BY Sizes DEF Zeroed, Records
  <1>3. top \in Records /\ top.child = 0 /\ top.sibling = 0 /\ top.data = Zeros
          /\ top.used /\ top.type = "dir"
    BY <1>1, <1>2 DEF Records
  <1> HIDE DEF top
  <1>4. \A k \in Nodes : node[k] = IF k = Root THEN top ELSE Zeroed
    BY DEF RamInit, top
  <1>5. node = [k \in Nodes |-> IF k = Root THEN top ELSE Zeroed]
    BY DEF RamInit, top
  <1>6. node \in Tables
    BY <1>2, <1>3, <1>5 DEF Tables
  <1>7. Linked(node)
    BY <1>1, <1>2, <1>3, <1>4 DEF Linked
  <1>8. Tails(node)
    BY <1>2, <1>3, <1>4, Sizes DEF Tails
  <1>9. Whole(node)
    BY <1>1, <1>2, <1>3, <1>4 DEF Whole
  <1>10. ASSUME NEW p \in Callers PROVE Holds(node, cwd[p], open[p])
    <2> DEFINE v == Vnode(Root, "dir")
    <2>1. v \in Vnodes /\ v.data = Root /\ v.type = "dir"
      BY <1>1 DEF Vnode, Vnodes
    <2>2. cwd[p] = <<v>> /\ open[p] = {}
      BY DEF RamInit
    <2> HIDE DEF v
    <2>3. ToSet(<<v>>) = {v}
      BY DEF ToSet
    <2>4. Kept(node, {v})
      BY <1>1, <1>3, <1>4, <2>1 DEF Kept
    <2> QED
      BY <2>1, <2>2, <2>3, <2>4 DEF Holds
  <1>11. cwd \in [Callers -> Seq(Vnodes)] /\ open \in [Callers -> SUBSET Vnodes]
    <2>1. Vnode(Root, "dir") \in Vnodes
      BY <1>1 DEF Vnode, Vnodes
    <2> QED
      BY <2>1 DEF RamInit
  <1>12. nvn \in 0 .. NVNODE /\ live \subseteq Callers
    BY <1>1 DEF RamInit
  <1>13. strayed \in BOOLEAN /\ fault \in {"none", "mkdir", "pool"}
    BY DEF RamInit
  <1> QED
    BY <1>6, <1>7, <1>8, <1>9, <1>10, <1>11, <1>12, <1>13 DEF RamInv, Good

\* What others hold is as sound as before.
LEMMA HoldsGrown ==
  ASSUME NEW N, NEW M, Grown(N, M), NEW c, NEW o, Holds(N, c, o)
  PROVE  Holds(M, c, o)
  <1>1. o \cup ToSet(c) \in SUBSET Vnodes
    BY ToSetIs DEF Holds
  <1>2. Kept(M, o \cup ToSet(c))
    BY <1>1, GrownKept DEF Holds
  <1> QED
    BY <1>2 DEF Holds

LEMMA StartOnWay ==
  ASSUME RamInv, NEW p \in Callers, NEW path
  PROVE  Start(p, path) \in OnWay(node)
  <1> DEFINE c == IF Head(path) = Slash THEN <<>> ELSE cwd[p]
             w == [res |-> "ok", cur |-> c, node |-> node, nvn |-> nvn, strayed |-> strayed]
  <1>1. Start(p, path) = w
    BY DEF Start
  <1>2. c \in Seq(Vnodes) /\ (\A i \in 1 .. Len(c) : c[i].type = "dir") /\ Kept(node, ToSet(c))
    <2>1. CASE Head(path) = Slash
      <3>1. ToSet(<<>>) = {}
        BY DEF ToSet
      <3> QED
        BY <2>1, <3>1 DEF Kept
    <2>2. CASE Head(path) # Slash
      BY <2>2 DEF RamInv, Holds, Kept
    <2> QED
      BY <2>1, <2>2
  <1> HIDE DEF c
  <1>3. w \in Walkers /\ w.node = node /\ w.cur = c /\ w.strayed = strayed
    BY <1>2 DEF Walkers, Results, RamInv, Good
  <1> HIDE DEF w
  <1>4. w \in Ends(node)
    BY <1>2, <1>3 DEF Ends, RamInv, Grown
  <1>5. \A i \in 1 .. Len(c) - 1 : i \in 1 .. Len(c)
    <2>1. Len(c) \in Nat
      BY <1>2
    <2> QED
      BY <2>1
  <1> QED
    BY <1>1, <1>2, <1>3, <1>4, <1>5 DEF OnWay

LEMMA CompsAre ==
  ASSUME NEW path \in Paths
  PROVE  Comps(path) \in Seq(EntryNames)
  BY RamAssumption DEF EntryNames

\* A call of p that ends with the walk w, after which p holds c and o.
LEMMA CallInv ==
  ASSUME RamInv, NEW p \in Callers, NEW w \in Ends(node), Effects(w),
         NEW c, NEW o, Holds(w.node, c, o),
         cwd' = [cwd EXCEPT ![p] = c], open' = [open EXCEPT ![p] = o],
         live' \subseteq Callers, fault' \in {"none", "mkdir", "pool"}
  PROVE  RamInv'
  <1>1. /\ w \in Walkers /\ Good(w.node) /\ Grown(node, w.node)
        /\ (~w.strayed => Whole(w.node))
    BY DEF Ends
  <1>2. node' = w.node /\ nvn' = w.nvn /\ strayed' = w.strayed
    BY DEF Effects
  <1>3. nvn' \in 0 .. NVNODE /\ strayed' \in BOOLEAN
    BY <1>1, <1>2 DEF Walkers
  <1>4. cwd' \in [Callers -> Seq(Vnodes)] /\ open' \in [Callers -> SUBSET Vnodes]
    BY DEF RamInv, Holds
  <1>5. ASSUME NEW q \in Callers PROVE Holds(node', cwd'[q], open'[q])
    <2>1. CASE q = p
      BY <1>2, <2>1 DEF RamInv
    <2>2. CASE q # p
      <3>1. cwd'[q] = cwd[q] /\ open'[q] = open[q]
        BY <2>2 DEF RamInv
      <3>2. Holds(node, cwd[q], open[q])
        BY DEF RamInv
      <3> QED
        BY <1>1, <1>2, <3>1, <3>2, HoldsGrown
    <2> QED
      BY <2>1, <2>2
  <1> QED
    BY <1>1, <1>2, <1>3, <1>4, <1>5 DEF RamInv

LEMMA NoVnodeInv ==
  ASSUME RamInv, NEW p \in Callers, NEW w \in Ends(node), Effects(w),
         NEW why \in {"mkdir", "pool"}, Killed(p, why)
  PROVE  RamInv'
  <1>1. Holds(w.node, <<>>, {})
    <2>1. ToSet(<<>>) = {}
      BY DEF ToSet
    <2> QED
      BY <2>1 DEF Holds, Kept
  <1>2. live' \subseteq Callers /\ fault' \in {"none", "mkdir", "pool"}
    BY DEF Killed, RamInv
  <1>3. cwd' = [cwd EXCEPT ![p] = <<>>] /\ open' = [open EXCEPT ![p] = {}]
    BY DEF Killed
  <1> QED
    BY <1>1, <1>2, <1>3, CallInv

\* A call after which p holds what it held.
LEMMA SameInv ==
  ASSUME RamInv, NEW p \in Callers, NEW w \in Ends(node), Effects(w),
         UNCHANGED <<live, cwd, open, fault>>
  PROVE  RamInv'
  <1>1. Holds(node, cwd[p], open[p]) /\ Grown(node, w.node)
    BY DEF RamInv, Ends
  <1>2. Holds(w.node, cwd[p], open[p])
    BY <1>1, HoldsGrown
  <1>3. cwd' = [cwd EXCEPT ![p] = cwd[p]] /\ open' = [open EXCEPT ![p] = open[p]]
    BY DEF RamInv
  <1>4. live' \subseteq Callers /\ fault' \in {"none", "mkdir", "pool"}
    BY DEF RamInv
  <1> QED
    BY <1>2, <1>3, <1>4, CallInv

LEMMA MkdirInv ==
  ASSUME RamInv, NEW p \in Callers, NEW path \in Paths, Mkdirat(p, path)
  PROVE  RamInv'
  <1> DEFINE w == MakeAt(Start(p, path), Comps(path), "dir")
  <1>1. w \in Ends(node)
    BY StartOnWay, CompsAre, MakeAtEnds
  <1>2. Effects(w) /\ \/ Killed(p, "mkdir") \/ Killed(p, "pool")
                      \/ UNCHANGED <<live, cwd, open, fault>>
    BY DEF Mkdirat, NoVnode
  <1> HIDE DEF w
  <1> QED
    BY <1>1, <1>2, NoVnodeInv, SameInv

LEMMA ChdirInv ==
  ASSUME RamInv, NEW p \in Callers, NEW path \in Paths, Chdir(p, path)
  PROVE  RamInv'
  <1> DEFINE w == Walk(Start(p, path), Comps(path))
             isDir == w.res = "ok" /\ (w.cur = <<>> \/ Last(w.cur).type = "dir")
  <1>1. w \in OnWay(node) /\ w \in Ends(node) /\ w \in Walkers
    <2>1. w \in OnWay(node)
      BY StartOnWay, CompsAre, WalkToOnWay DEF Walk
    <2> QED
      BY <2>1 DEF OnWay, Ends
  <1>2. \/ Effects(w) /\ Killed(p, "pool")
        \/ /\ Effects(w)
           /\ cwd' = IF isDir THEN [cwd EXCEPT ![p] = w.cur] ELSE cwd
           /\ UNCHANGED <<live, open, fault>>
    BY DEF Chdir, NoVnode
  <1> HIDE DEF w
  <1>3. CASE Effects(w) /\ Killed(p, "pool")
    BY <1>1, <1>3, NoVnodeInv
  <1>4. CASE Effects(w) /\ isDir /\ cwd' = [cwd EXCEPT ![p] = w.cur]
               /\ UNCHANGED <<live, open, fault>>
    <2>1. w.cur \in Seq(Vnodes) /\ Kept(w.node, ToSet(w.cur)) /\ Grown(node, w.node)
      BY <1>1 DEF Walkers, Ends
    <2>2. \A i \in 1 .. Len(w.cur) : w.cur[i].type = "dir"
      <3>1. w.cur # <<>> => Last(w.cur) = w.cur[Len(w.cur)]
        BY <2>1, LastVnode
      <3>2. \A i \in 1 .. Len(w.cur) : i \in 1 .. Len(w.cur) - 1 \/ i = Len(w.cur)
        <4>1. Len(w.cur) \in Nat
          BY <2>1
        <4> QED
          BY <4>1
      <3>3. w.cur = <<>> => Len(w.cur) = 0
        OBVIOUS
      <3> QED
        BY <1>1, <1>4, <3>1, <3>2, <3>3 DEF OnWay
    <2>3. Holds(w.node, cwd[p], open[p])
      BY <2>1, HoldsGrown DEF RamInv
    <2>4. Holds(w.node, w.cur, open[p])
      BY <2>1, <2>2, <2>3 DEF Holds, Kept
    <2>5. open' = [open EXCEPT ![p] = open[p]]
      BY <1>4 DEF RamInv
    <2>6. live' \subseteq Callers /\ fault' \in {"none", "mkdir", "pool"}
      BY <1>4 DEF RamInv
    <2> QED
      BY <1>1, <1>4, <2>4, <2>5, <2>6, CallInv
  <1>5. CASE Effects(w) /\ UNCHANGED <<live, cwd, open, fault>>
    BY <1>1, <1>5, SameInv
  <1> QED
    BY <1>2, <1>3, <1>4, <1>5

\* m is n with other contents, and nothing but zeros beyond their end.
Rewritten(n, m) ==
  /\ m \in Records
  /\ m.used = n.used /\ m.type = n.type /\ m.child = n.child /\ m.sibling = n.sibling
  /\ \A o \in Offsets : o >= m.size => m.data[o] = 0

LEMMA RewrittenGood ==
  ASSUME NEW N, Good(N), NEW k \in Nodes, NEW m, Rewritten(N[k], m)
  PROVE  LET M == [N EXCEPT ![k] = m]
         IN  Good(M) /\ Grown(N, M) /\ (Whole(N) => Whole(M))
  <1> DEFINE M == [N EXCEPT ![k] = m]
  <1>1. M \in Tables /\ M[k] = m /\ \A x \in Nodes \ {k} : M[x] = N[x]
    BY DEF Tables, Good, Rewritten
  <1> HIDE DEF M
  <1>2. \A x \in Nodes : /\ M[x].used = N[x].used /\ M[x].type = N[x].type
                         /\ M[x].child = N[x].child /\ M[x].sibling = N[x].sibling
    BY <1>1 DEF Rewritten
  <1>3. \A x \in Nodes : N[x].child \in Nodes \cup {0} /\ N[x].sibling \in Nodes \cup {0}
    BY Fields DEF Good
  <1>4. Linked(M)
    BY <1>2, <1>3, Numbers DEF Linked, Good
  <1>5. Tails(M)
    <2> SUFFICES ASSUME NEW x \in Nodes, NEW o \in Offsets, o >= M[x].size
                 PROVE  M[x].data[o] = 0
      BY DEF Tails
    <2>1. CASE x = k
      BY <1>1, <2>1 DEF Rewritten
    <2>2. CASE x # k
      BY <1>1, <2>2 DEF Tails, Good
    <2> QED
      BY <2>1, <2>2
  <1>6. Grown(N, M)
    BY <1>2 DEF Grown
  <1>7. ASSUME Whole(N) PROVE Whole(M)
    <2>1. \A x \in Nodes : ~(M[x].used /\ M[x].type = "dir") => M[x].child = 0
      BY <1>2, <1>7 DEF Whole
    <2>2. ASSUME NEW S \in SUBSET Nodes, Root \in S, ClosedIn(M, S)
          PROVE  \A x \in Nodes : M[x].used => x \in S
      <3>1. ClosedIn(N, S)
        BY <1>2, <2>2 DEF ClosedIn
      <3> QED
        BY <1>2, <1>7, <2>2, <3>1 DEF Whole
    <2> QED
      BY <2>1, <2>2 DEF Whole
  <1> QED
    BY <1>1, <1>4, <1>5, <1>6, <1>7 DEF Good, M

\* ramfs_truncate clears what it cuts off.
LEMMA TruncatedZero ==
  ASSUME NEW N, Good(N), NEW k \in Nodes, NEW size \in 0 .. MAXSIZE
  PROVE  Rewritten(N[k], TruncatedTo(N[k], size))
  <1> DEFINE n == N[k]
             data == [o \in Offsets |-> IF size <= o /\ o < n.size THEN 0 ELSE n.data[o]]
             m == [n EXCEPT !.size = size, !.data = data]
  <1>1. TruncatedTo(N[k], size) = m
    BY DEF TruncatedTo
  <1>2. /\ n \in Records /\ n.size \in 0 .. MAXSIZE /\ n.data \in [Offsets -> Bytes \cup {0}]
        /\ \A o \in Offsets : o >= n.size => n.data[o] = 0
    BY Fields DEF Good, Tails
  <1> HIDE DEF n
  <1>3. data \in [Offsets -> Bytes \cup {0}]
    BY <1>2
  <1>4. \A o \in Offsets : o >= size => data[o] = 0
    BY <1>2, Sizes
  <1> HIDE DEF data
  <1>5. /\ m \in Records /\ m.used = n.used /\ m.type = n.type /\ m.child = n.child
        /\ m.sibling = n.sibling /\ m.size = size /\ m.data = data
    BY <1>2, <1>3 DEF Records
  <1> HIDE DEF m
  <1> QED
    BY <1>1, <1>4, <1>5 DEF Rewritten, n

LEMMA OpenatInv ==
  ASSUME RamInv, NEW p \in Callers, NEW path \in Paths, NEW flags, Openat(p, path, flags)
  PROVE  RamInv'
  <1> DEFINE w == IF "creat" \in flags THEN MakeAt(Start(p, path), Comps(path), "file")
                  ELSE Walk(Start(p, path), Comps(path))
             v == Last(w.cur)
             isFile == w.res = "ok" /\ w.cur # <<>> /\ v.type = "file"
             u == [w EXCEPT !.node[v.data] = TruncatedTo(@, 0)]
  <1>1. w \in Ends(node)
    <2>1. MakeAt(Start(p, path), Comps(path), "file") \in Ends(node)
      BY StartOnWay, CompsAre, MakeAtEnds
    <2>2. Walk(Start(p, path), Comps(path)) \in Ends(node)
      <3>1. Walk(Start(p, path), Comps(path)) \in OnWay(node)
        BY StartOnWay, CompsAre, WalkToOnWay DEF Walk
      <3> QED
        BY <3>1 DEF OnWay
    <2> QED
      BY <2>1, <2>2
  <1>2. \/ Effects(w) /\ Killed(p, "pool")
        \/ /\ IF isFile /\ "trunc" \in flags THEN Effects(u) ELSE Effects(w)
           /\ open' = IF isFile THEN [open EXCEPT ![p] = @ \cup {v}] ELSE open
           /\ UNCHANGED <<live, cwd, fault>>
    BY DEF Openat, NoVnode
  <1> HIDE DEF w
  <1>3. w \in Walkers /\ w.cur \in Seq(Vnodes) /\ Good(w.node) /\ Kept(w.node, ToSet(w.cur))
    BY <1>1 DEF Ends, Walkers
  <1>4. w.cur # <<>> => v \in Vnodes /\ v.data \in Nodes /\ v \in ToSet(w.cur)
    BY <1>3, LastVnode
  <1> HIDE DEF v
  <1>5. isFile => u \in Ends(node) /\ Grown(w.node, u.node)
    <2> SUFFICES ASSUME isFile PROVE u \in Ends(node) /\ Grown(w.node, u.node)
      OBVIOUS
    <2> DEFINE M == [w.node EXCEPT ![v.data] = TruncatedTo(w.node[v.data], 0)]
    <2>1. Good(M) /\ Grown(w.node, M) /\ (Whole(w.node) => Whole(M))
      BY <1>3, <1>4, Sizes, TruncatedZero, RewrittenGood
    <2>2. u \in Walkers /\ u.node = M /\ u.cur = w.cur /\ u.strayed = w.strayed
      BY <1>3, <2>1 DEF Walkers, Good
    <2> HIDE DEF M, u
    <2>3. Kept(M, ToSet(w.cur))
      BY <1>3, <2>1, ToSetIs, GrownKept
    <2>4. Grown(node, M)
      BY <1>1, <2>1 DEF Grown, Ends
    <2>5. ~u.strayed => Whole(M)
      BY <1>1, <2>1, <2>2 DEF Ends
    <2> QED
      BY <2>1, <2>2, <2>3, <2>4, <2>5 DEF Ends
  <1> HIDE DEF u
  <1>6. ASSUME NEW x \in Ends(node), Effects(x), Grown(w.node, x.node), isFile,
               open' = [open EXCEPT ![p] = @ \cup {v}], UNCHANGED <<live, cwd, fault>>
        PROVE  RamInv'
    <2>1. Holds(node, cwd[p], open[p]) /\ Grown(node, x.node)
      BY <1>6 DEF RamInv, Ends
    <2>2. Holds(x.node, cwd[p], open[p])
      BY <2>1, HoldsGrown
    <2>3. Kept(x.node, ToSet(w.cur))
      BY <1>3, <1>6, ToSetIs, GrownKept
    <2>4. Holds(x.node, cwd[p], open[p] \cup {v})
      BY <1>4, <1>6, <2>2, <2>3 DEF Holds, Kept
    <2>5. /\ cwd' = [cwd EXCEPT ![p] = cwd[p]] /\ open' = [open EXCEPT ![p] = open[p] \cup {v}]
          /\ live' \subseteq Callers /\ fault' \in {"none", "mkdir", "pool"}
      BY <1>6 DEF RamInv
    <2> DEFINE o == open[p] \cup {v}
               c == cwd[p]
    <2>6. x \in Ends(node) /\ Effects(x) /\ Holds(x.node, c, o)
            /\ cwd' = [cwd EXCEPT ![p] = c] /\ open' = [open EXCEPT ![p] = o]
      BY <1>6, <2>4, <2>5
    <2> HIDE DEF o, c
    <2> QED
      BY <2>5, <2>6, CallInv
  <1>7. Grown(w.node, w.node)
    BY DEF Grown
  <1>8. CASE Effects(w) /\ Killed(p, "pool")
    BY <1>1, <1>8, NoVnodeInv
  <1>9. CASE isFile /\ UNCHANGED <<live, cwd, fault>>
               /\ open' = [open EXCEPT ![p] = @ \cup {v}]
               /\ (Effects(u) \/ Effects(w))
    BY <1>1, <1>5, <1>6, <1>7, <1>9
  <1>10. CASE ~isFile /\ Effects(w) /\ open' = open /\ UNCHANGED <<live, cwd, fault>>
    BY <1>1, <1>10, SameInv
  <1> HIDE DEF isFile
  <1> QED
    BY <1>2, <1>8, <1>9, <1>10

\* A call that rewrites one file's contents.
LEMMA ContentsInv ==
  ASSUME RamInv, NEW k \in Nodes, NEW m, Rewritten(node[k], m), node' = [node EXCEPT ![k] = m],
         UNCHANGED <<nvn, live, cwd, open, strayed, fault>>
  PROVE  RamInv'
  <1>1. Good(node') /\ Grown(node, node') /\ (Whole(node) => Whole(node'))
    BY RewrittenGood DEF RamInv
  <1>2. \A q \in Callers : Holds(node', cwd[q], open[q])
    BY <1>1, HoldsGrown DEF RamInv
  <1> QED
    BY <1>1, <1>2 DEF RamInv

LEMMA OpenIsNode ==
  ASSUME RamInv, NEW p \in Callers, NEW v \in open[p]
  PROVE  v.data \in Nodes
  BY DEF RamInv, Vnodes

LEMMA WriteInv ==
  ASSUME RamInv, NEW p \in Callers, NEW v, NEW off \in Offsets, NEW len \in Nat \ {0},
         NEW b \in Bytes, Write(p, v, off, len, b)
  PROVE  RamInv'
  <1> DEFINE k == v.data
             n == node[k]
             to == IF off + len > MAXSIZE THEN MAXSIZE ELSE off + len
             data == [o \in Offsets |-> IF off <= o /\ o < to THEN b ELSE n.data[o]]
             size == IF to > n.size THEN to ELSE n.size
             m == [n EXCEPT !.data = data, !.size = size]
  <1>1. k \in Nodes /\ Good(node)
    BY OpenIsNode DEF Write, RamInv
  <1>2. node' = [node EXCEPT ![k] = m] /\ UNCHANGED <<nvn, live, cwd, open, strayed, fault>>
    BY DEF Write
  <1> HIDE DEF k
  <1>3. /\ n \in Records /\ n.size \in 0 .. MAXSIZE /\ n.data \in [Offsets -> Bytes \cup {0}]
        /\ \A o \in Offsets : o >= n.size => n.data[o] = 0
    BY <1>1, Fields DEF Good, Tails
  <1> HIDE DEF n
  <1>4. to \in 0 .. MAXSIZE
    BY Sizes
  <1>5. size \in 0 .. MAXSIZE /\ size >= to /\ size >= n.size /\ to \in Int /\ n.size \in Int
    BY <1>3, <1>4, Sizes
  <1>6. data \in [Offsets -> Bytes \cup {0}]
    BY <1>3
  <1> HIDE DEF to, size
  <1>7. \A o \in Offsets : o >= size => data[o] = 0
    BY <1>3, <1>5, Sizes
  <1> HIDE DEF data
  <1>8. /\ m \in Records /\ m.used = n.used /\ m.type = n.type /\ m.child = n.child
        /\ m.sibling = n.sibling /\ m.size = size /\ m.data = data
    BY <1>3, <1>5, <1>6 DEF Records
  <1> HIDE DEF m
  <1>9. Rewritten(node[k], m)
    BY <1>7, <1>8 DEF Rewritten, n
  <1> QED
    BY <1>1, <1>2, <1>9, ContentsInv

LEMMA FtruncateInv ==
  ASSUME RamInv, NEW p \in Callers, NEW v, NEW length \in Nat, Ftruncate(p, v, length)
  PROVE  RamInv'
  <1> DEFINE size == IF length > MAXSIZE THEN MAXSIZE ELSE length
  <1>1. v.data \in Nodes /\ Good(node)
    BY OpenIsNode DEF Ftruncate, RamInv
  <1>2. size \in 0 .. MAXSIZE
    BY Sizes
  <1>3. node' = [node EXCEPT ![v.data] = TruncatedTo(node[v.data], size)]
          /\ UNCHANGED <<nvn, live, cwd, open, strayed, fault>>
    BY DEF Ftruncate
  <1> HIDE DEF size
  <1> QED
    BY <1>1, <1>2, <1>3, TruncatedZero, ContentsInv

\* After k was taken out and marked in what a process holds, it holds what it
\* did and k's vnodes are marked.
LEMMA MarkedHolds ==
  ASSUME NEW N, NEW M, NEW k, NEW c, NEW o, Holds(N, c, o),
         \A x \in Nodes : x # k => M[x].used = N[x].used,
         \A x \in Nodes : M[x].type = N[x].type
  PROVE  Holds(M, [j \in DOMAIN c |-> Gone(c[j], k)], {Gone(v, k) : v \in o})
  <1> DEFINE c1 == [j \in DOMAIN c |-> Gone(c[j], k)]
             o1 == {Gone(v, k) : v \in o}
  <1>1. /\ c \in Seq(Vnodes) /\ \A i \in 1 .. Len(c) : c[i].type = "dir"
        /\ o \in SUBSET Vnodes /\ \A v \in o : v.type = "file"
        /\ \A v \in o \cup ToSet(c) : ~v.gone => N[v.data].used /\ N[v.data].type = v.type
    BY DEF Holds, Kept
  <1>2. Len(c) \in Nat /\ DOMAIN c = 1 .. Len(c) /\ \A i \in 1 .. Len(c) : c[i] \in Vnodes
    BY <1>1, ToSetIs
  <1>3. ASSUME NEW v \in Vnodes
        PROVE  /\ Gone(v, k) \in Vnodes /\ Gone(v, k).type = v.type
               /\ (~v.gone => N[v.data].used /\ N[v.data].type = v.type)
                    => (~Gone(v, k).gone => /\ M[Gone(v, k).data].used
                                            /\ M[Gone(v, k).data].type = Gone(v, k).type)
    <2>1. CASE v.data = k
      <3> DEFINE u == [v EXCEPT !.gone = TRUE]
      <3>1. u \in Vnodes /\ u.type = v.type /\ u.gone
        BY DEF Vnodes
      <3>2. Gone(v, k) = u
        BY <2>1 DEF Gone
      <3> QED
        BY <3>1, <3>2
    <2>2. CASE v.data # k
      <3>1. Gone(v, k) = v /\ v.data \in Nodes
        BY <2>2 DEF Gone, Vnodes
      <3> QED
        BY <2>2, <3>1
    <2> QED
      BY <2>1, <2>2
  <1>4. \A i \in 1 .. Len(c) : c1[i] = Gone(c[i], k)
    BY <1>2
  <1>5. c1 \in Seq(Vnodes) /\ Len(c1) = Len(c)
    <2>1. c1 \in [1 .. Len(c) -> Vnodes]
      BY <1>2, <1>3
    <2> HIDE DEF c1
    <2> QED
      BY <1>2, <2>1
  <1>6. ToSet(c1) = {c1[i] : i \in 1 .. Len(c)}
    BY <1>5, ToSetIs
  <1>7. ToSet(c) = {c[i] : i \in 1 .. Len(c)}
    BY <1>1, ToSetIs
  <1> HIDE DEF c1
  <1>8. \A i \in 1 .. Len(c1) : c1[i].type = "dir"
    BY <1>1, <1>2, <1>3, <1>4, <1>5
  <1>9. o1 \in SUBSET Vnodes /\ \A v \in o1 : v.type = "file"
    BY <1>1, <1>3
  <1>10. Kept(M, o1 \cup ToSet(c1))
    <2> SUFFICES ASSUME NEW u \in o1 \cup ToSet(c1), ~u.gone
                 PROVE  M[u.data].used /\ M[u.data].type = u.type
      BY DEF Kept
    <2>1. PICK v \in o \cup ToSet(c) : u = Gone(v, k)
      <3>1. CASE u \in o1
        BY <3>1
      <3>2. CASE u \in ToSet(c1)
        BY <1>4, <1>6, <1>7, <3>2
      <3> QED
        BY <3>1, <3>2
    <2>2. v \in Vnodes
      BY <1>1, <1>2, <1>7
    <2> QED
      BY <1>1, <1>3, <2>1, <2>2
  <1> HIDE DEF o1
  <1> QED
    BY <1>5, <1>8, <1>9, <1>10 DEF Holds, c1, o1

LEMMA UnlinkatInv ==
  ASSUME RamInv, NEW p \in Callers, NEW path \in Paths, Unlinkat(p, path)
  PROVE  RamInv'
  <1> DEFINE comps == Comps(path)
             w == WalkParent(Start(p, path), comps, FALSE)
             d == Last(w.cur).data
             i == FindChild(w.node, d, Last(comps))
             k == Chain(w.node, d)[i]
             found == w.res = "ok" /\ w.cur # <<>> /\ i # 0
             M == UnlinkAt(w.node, d, i)
             u == [w EXCEPT !.node = M]
  <1>1. w \in OnWay(node) /\ w \in Ends(node) /\ w \in Walkers
    <2>1. w \in OnWay(node)
      BY StartOnWay, CompsAre, WalkParentOnWay
    <2> QED
      BY <2>1 DEF OnWay, Ends
  <1>2. \/ Effects(w) /\ Killed(p, "pool")
        \/ Effects(w) /\ UNCHANGED <<live, cwd, open, fault>>
        \/ /\ found /\ ~NotEmpty(w.node[k]) /\ Effects([w EXCEPT !.node = UnlinkAt(@, d, i)])
           /\ cwd' = [q \in Callers |-> [j \in DOMAIN cwd[q] |-> Gone(cwd[q][j], k)]]
           /\ open' = [q \in Callers |-> {Gone(v, k) : v \in open[q]}]
           /\ UNCHANGED <<live, fault>>
    BY DEF Unlinkat, NoVnode
  <1> HIDE DEF w, comps
  <1>3. [w EXCEPT !.node = UnlinkAt(@, d, i)] = u
    BY <1>1 DEF Walkers
  <1>4. CASE Effects(w) /\ Killed(p, "pool")
    BY <1>1, <1>4, NoVnodeInv
  <1>5. CASE Effects(w) /\ UNCHANGED <<live, cwd, open, fault>>
    BY <1>1, <1>5, SameInv
  <1>6. CASE /\ found /\ ~NotEmpty(w.node[k]) /\ Effects(u)
             /\ cwd' = [q \in Callers |-> [j \in DOMAIN cwd[q] |-> Gone(cwd[q][j], k)]]
             /\ open' = [q \in Callers |-> {Gone(v, k) : v \in open[q]}]
             /\ UNCHANGED <<live, fault>>
    <2>1. Good(w.node) /\ w.cur \in Seq(Vnodes) /\ Grown(node, w.node)
            /\ (~w.strayed => Whole(w.node)) /\ w.nvn \in 0 .. NVNODE /\ w.strayed \in BOOLEAN
      BY <1>1 DEF Walkers, Ends
    <2>2. d \in Nodes
      BY <1>6, <2>1, LastVnode
    <2> HIDE DEF d
    <2>3. i \in 1 .. Len(Chain(w.node, d)) /\ k \in Nodes
      BY <1>6, <2>1, <2>2, Found
    <2> HIDE DEF i
    <2>4. w.node \in Tables /\ IsChain(Chain(w.node, d), w.node, d)
      BY <2>1, <2>2, ChainSound DEF Good
    <2>5. PICK prev \in Nodes \cup {0} : M \in Tables /\ Removed(w.node, M, k, d, prev)
      BY <2>2, <2>3, <2>4, UnlinkRemoves
    <2>6. u.node = M /\ u.nvn = w.nvn /\ u.strayed = w.strayed
      BY <1>1 DEF Walkers
    <2>7. node' = M /\ nvn' = w.nvn /\ strayed' = w.strayed
      BY <1>6, <2>6 DEF Effects
    <2> HIDE DEF u, M, k
    <2>8. Good(M)
      BY <2>1, <2>2, <2>3, <2>5, RemovedGood
    <2>9. ~w.strayed => Whole(M)
      BY <1>6, <2>1, <2>2, <2>3, <2>5, RemovedWhole DEF Good
    <2>10. ASSUME NEW q \in Callers PROVE Holds(node', cwd'[q], open'[q])
      <3> DEFINE c == cwd[q]
                 o == open[q]
      <3>1. Holds(w.node, c, o)
        BY <2>1, HoldsGrown DEF RamInv
      <3>2. /\ \A x \in Nodes : x # k => M[x].used = w.node[x].used
            /\ \A x \in Nodes : M[x].type = w.node[x].type
        BY <2>5 DEF Removed
      <3>3. /\ cwd'[q] = [j \in DOMAIN c |-> Gone(c[j], k)]
            /\ open'[q] = {Gone(v, k) : v \in o}
        BY <1>6
      <3> HIDE DEF c, o
      <3> QED
        BY <2>7, <3>1, <3>2, <3>3, MarkedHolds
    <2>11. cwd' \in [Callers -> Seq(Vnodes)] /\ open' \in [Callers -> SUBSET Vnodes]
      <3>1. \A q \in Callers : cwd'[q] \in Seq(Vnodes) /\ open'[q] \in SUBSET Vnodes
        BY <2>10 DEF Holds
      <3> QED
        BY <1>6, <3>1
    <2> QED
      BY <1>6, <2>1, <2>7, <2>8, <2>9, <2>10, <2>11 DEF RamInv
  <1> QED
    BY <1>2, <1>3, <1>4, <1>5, <1>6

LEMMA CloseInv ==
  ASSUME RamInv, NEW p \in Callers, NEW v, Close(p, v)
  PROVE  RamInv'
  <1> DEFINE c == cwd[p]
             o == open[p]
  <1>1. Holds(node, c, o)
    BY DEF RamInv
  <1>2. Holds(node, c, o \ {v})
    BY <1>1 DEF Holds, Kept
  <1>3. UNCHANGED <<node, nvn, live, cwd, strayed, fault>>
          /\ open' = [open EXCEPT ![p] = o \ {v}]
    BY DEF Close
  <1>4. open' \in [Callers -> SUBSET Vnodes]
    BY <1>2, <1>3 DEF Holds, RamInv
  <1>5. ASSUME NEW q \in Callers PROVE Holds(node', cwd'[q], open'[q])
    <2>1. CASE q = p
      BY <1>2, <1>3, <2>1 DEF RamInv
    <2>2. CASE q # p
      BY <1>3, <2>2 DEF RamInv
    <2> QED
      BY <2>1, <2>2
  <1> QED
    BY <1>3, <1>4, <1>5 DEF RamInv

LEMMA ForkInv ==
  ASSUME RamInv, NEW p \in Callers, NEW q \in Callers, Fork(p, q)
  PROVE  RamInv'
  <1>1. /\ UNCHANGED <<node, nvn, strayed, fault>> /\ live' = live \cup {q}
        /\ cwd' = [cwd EXCEPT ![q] = cwd[p]] /\ open' = [open EXCEPT ![q] = open[p]]
    BY DEF Fork
  <1>2. cwd' \in [Callers -> Seq(Vnodes)] /\ open' \in [Callers -> SUBSET Vnodes]
    BY <1>1 DEF RamInv
  <1>3. ASSUME NEW r \in Callers PROVE Holds(node', cwd'[r], open'[r])
    <2>1. CASE r = q
      BY <1>1, <2>1 DEF RamInv
    <2>2. CASE r # q
      BY <1>1, <2>2 DEF RamInv
    <2> QED
      BY <2>1, <2>2
  <1>4. live' \subseteq Callers
    BY <1>1 DEF RamInv
  <1> QED
    BY <1>1, <1>2, <1>3, <1>4 DEF RamInv

LEMMA NextInv == RamInv /\ [RamNext]_rvars => RamInv'
  <1> SUFFICES ASSUME RamInv, [RamNext]_rvars PROVE RamInv'
    OBVIOUS
  <1>1. CASE UNCHANGED rvars
    BY <1>1 DEF RamInv, rvars
  <1>2. CASE RamNext
    <2>1. PICK p \in live :
            \/ \E path \in Paths : \/ \E flags \in Flags : Openat(p, path, flags)
                                   \/ Mkdirat(p, path)
                                   \/ Chdir(p, path)
                                   \/ Unlinkat(p, path)
            \/ \E v \in open[p] :
                 \/ \E off \in Offsets, len \in (0 .. MAXSIZE + 1) \ {0}, b \in Bytes :
                      Write(p, v, off, len, b)
                 \/ \E length \in 0 .. MAXSIZE + 1 : Ftruncate(p, v, length)
                 \/ Close(p, v)
            \/ \E q \in Callers : Fork(p, q)
      BY <1>2 DEF RamNext, Calls
    <2>2. p \in Callers
      BY DEF RamInv
    <2>3. \A n \in 0 .. MAXSIZE + 1 : n \in Nat
      BY Sizes
    <2>4. CASE \E path \in Paths, flags \in Flags : Openat(p, path, flags)
      BY <2>2, <2>4, OpenatInv
    <2>5. CASE \E path \in Paths : Mkdirat(p, path)
      BY <2>2, <2>5, MkdirInv
    <2>6. CASE \E path \in Paths : Chdir(p, path)
      BY <2>2, <2>6, ChdirInv
    <2>7. CASE \E path \in Paths : Unlinkat(p, path)
      BY <2>2, <2>7, UnlinkatInv
    <2>8. CASE \E v \in open[p], off \in Offsets, len \in (0 .. MAXSIZE + 1) \ {0}, b \in Bytes :
                 Write(p, v, off, len, b)
      <3>1. PICK v \in open[p], off \in Offsets, len \in (0 .. MAXSIZE + 1) \ {0}, b \in Bytes :
              Write(p, v, off, len, b)
        BY <2>8
      <3>2. len \in Nat \ {0}
        BY <2>3
      <3> QED
        BY <2>2, <3>1, <3>2, WriteInv
    <2>9. CASE \E v \in open[p], length \in 0 .. MAXSIZE + 1 : Ftruncate(p, v, length)
      BY <2>2, <2>3, <2>9, FtruncateInv
    <2>10. CASE \E v \in open[p] : Close(p, v)
      BY <2>2, <2>10, CloseInv
    <2>11. CASE \E q \in Callers : Fork(p, q)
      BY <2>2, <2>11, ForkInv
    <2> QED
      BY <2>1, <2>4, <2>5, <2>6, <2>7, <2>8, <2>9, <2>10, <2>11
  <1> QED
    BY <1>1, <1>2

\* RamInv holds in every state: vfs_openat, vfs_mkdir_at, vfs_chdir,
\* vfs_unlink_at, ramfs_write and ramfs_truncate keep the nodes, the chains and
\* the vnodes of processes in step.
THEOREM RamInvHolds == RamSpec => []RamInv
  BY InitInv, NextInv, PTL DEF RamSpec
-----------------------------------------------------------------------------
(* What it says *)

LEMMA LinksOnce ==
  ASSUME RamInv, NEW k \in Nodes
  PROVE  Cardinality(LinksTo(k)) <= IF node[k].used THEN 1 ELSE 0
  <1> DEFINE L == LinksTo(k)
  <1>1. k # 0 /\ Linked(node)
    BY Numbers DEF RamInv, Good
  <1>2. \A a \in L : \E d \in Nodes :
          \/ a = <<d, "child">> /\ node[d].child = k
          \/ a = <<d, "sibling">> /\ node[d].used /\ node[d].sibling = k
    BY DEF LinksTo
  <1> HIDE DEF L
  <1>3. \A a, b \in L : a = b
    <2> SUFFICES ASSUME NEW a \in L, NEW b \in L PROVE a = b
      OBVIOUS
    <2>1. PICK d \in Nodes : \/ a = <<d, "child">> /\ node[d].child = k
                             \/ a = <<d, "sibling">> /\ node[d].used /\ node[d].sibling = k
      BY <1>2
    <2>2. PICK e \in Nodes : \/ b = <<e, "child">> /\ node[e].child = k
                             \/ b = <<e, "sibling">> /\ node[e].used /\ node[e].sibling = k
      BY <1>2
    <2> QED
      BY <1>1, <2>1, <2>2 DEF Linked
  <1>4. L # {} => node[k].used
    BY <1>1, <1>2 DEF Linked
  <1>5. CASE L = {}
    <2>1. Cardinality(L) = 0
      BY <1>5, FS_EmptySet
    <2> QED
      BY <2>1 DEF L
  <1>6. CASE L # {}
    <2>1. PICK a \in L : L = {a}
      BY <1>3, <1>6
    <2>2. Cardinality(L) = 1
      BY <2>1, FS_Singleton
    <2> QED
      BY <1>4, <1>6, <2>2 DEF L
  <1> QED
    BY <1>5, <1>6

\* The nodes in use are the least set that holds the root and that no pointer
\* leaves.
LEMMA UsedReached ==
  ASSUME RamInv
  PROVE  UsedIsReachable
  <1> DEFINE U == {k \in Nodes : node[k].used}
  <1> SUFFICES ASSUME ~strayed PROVE U = Reach
    BY DEF UsedIsReachable
  <1>1. node \in Tables /\ Linked(node) /\ Whole(node) /\ Root \in Nodes
    BY Numbers DEF RamInv, Good
  <1>2. Root \in U /\ Closed(U)
    <2>1. \A k \in Nodes : /\ node[k].child \in Nodes \cup {0}
                           /\ node[k].sibling \in Nodes \cup {0}
      BY <1>1, Fields
    <2> QED
      BY <1>1, <2>1 DEF Linked, Closed
  <1>3. \A S \in SUBSET Nodes : Root \in S /\ Closed(S) => U \subseteq S
    BY <1>1 DEF Whole, Closed, ClosedIn
  <1> QED
    BY <1>2, <1>3 DEF Reach

LEMMA InvTree == RamInv => TreeSound
  <1> SUFFICES ASSUME RamInv PROVE TreeSound
    OBVIOUS
  <1>1. /\ Good(node) /\ node \in Tables
        /\ \A p \in Callers : Holds(node, cwd[p], open[p])
    BY DEF RamInv, Good
  <1>2. \A p \in Callers : cwd[p] \in Seq(Vnodes) /\ DOMAIN cwd[p] = 1 .. Len(cwd[p])
    BY ToSetIs DEF RamInv
  <1>3. RamTypeOK
    <2>1. \A p \in Callers : /\ \A i \in DOMAIN cwd[p] : cwd[p][i].type = "dir"
                           /\ \A v \in open[p] : v.type = "file"
      BY <1>1, <1>2 DEF Holds
    <2>2. node \in [Nodes -> [used : BOOLEAN, type : {"file", "dir"},
                              name : Names \cup {"", Up, Ram},
                              parent : Nodes \cup {0}, child : Nodes \cup {0},
                              sibling : Nodes \cup {0}, size : 0 .. MAXSIZE,
                              data : [Offsets -> Bytes \cup {0}]]]
      BY <1>1 DEF Tables, Records
    <2> QED
      BY <2>1, <2>2 DEF RamTypeOK, RamInv
  <1>4. LinkedOnce
    <2>1. \A d \in Nodes : Len(Chain(node, d)) <= NNODE
      <3> SUFFICES ASSUME NEW d \in Nodes PROVE Len(Chain(node, d)) <= NNODE
        OBVIOUS
      <3>1. IsChain(Chain(node, d), node, d)
        BY <1>1, ChainSound DEF Good
      <3>2. Len(Chain(node, d)) \in 0 .. NNODE
        BY <3>1 DEF IsChain
      <3> QED
        BY <3>2, Numbers
    <2> QED
      BY <2>1, LinksOnce DEF LinkedOnce
  <1>5. HeldIsKept
    <2> SUFFICES ASSUME NEW p \in Callers,
                        NEW v \in open[p] \cup {cwd[p][i] : i \in DOMAIN cwd[p]}, ~v.gone
                 PROVE  node[v.data].used /\ node[v.data].type = v.type
      BY DEF HeldIsKept
    <2>1. v \in open[p] \cup ToSet(cwd[p])
      BY <1>2, ToSetIs
    <2> QED
      BY <1>1, <2>1 DEF Holds, Kept
  <1> QED
    BY <1>3, <1>4, <1>5, UsedReached DEF TreeSound

\* The chains of ramfs.c end and stay apart, no node in use is lost while no
\* entry was made in a removed directory or in a file, and a vnode a process
\* holds is around the node it was wrapped around: ramfs_create, ramfs_mkdir,
\* ramfs_unlink and the walks of vfs.c, in whatever order processes call them.
THEOREM TreeCorrect == RamSpec => []TreeSound
  BY RamInvHolds, InvTree, PTL

\* Nothing but zeros lies beyond the end of a file, which ramfs_write, that
\* leaves a gap as it is, relies on ramfs_truncate and memset for.
THEOREM TailCorrect == RamSpec => []TailIsZero
  <1>1. RamInv => TailIsZero
    <2>1. RamInv => Tails(node)
      BY DEF RamInv, Good
    <2>2. Tails(node) => TailIsZero
      BY DEF Tails, TailIsZero
    <2> QED
      BY <2>1, <2>2
  <1> QED
    BY <1>1, RamInvHolds, PTL

-----------------------------------------------------------------------------
(* A directory read while others change it (Listing).                      *)
(*                                                                         *)
(* ls sorts what it has read.  Count is how often a value occurs.          *)

Holding(s, v) == {i \in DOMAIN s : s[i] = v}
Count(s, v) == Cardinality(Holding(s, v))

LEMMA Functional ==
  ASSUME NEW n \in Nat, NEW V, NEW s \in [1 .. n -> V]
  PROVE  s \in Seq(V) /\ Len(s) = n /\ DOMAIN s = 1 .. n
  OBVIOUS

LEMMA Sequential ==
  ASSUME NEW V, NEW s \in Seq(V)
  PROVE  Len(s) \in Nat /\ s \in [1 .. Len(s) -> V] /\ DOMAIN s = 1 .. Len(s)
  OBVIOUS

Array(s, n, V) == n \in Nat /\ V \in SUBSET Nat /\ s \in [1 .. n -> V]

Joined(a, b, c, V) == a \in Seq(V) /\ b \in Seq(V) /\ c = a \o b

LEMMA JoinedSeq ==
  ASSUME NEW V, NEW a, NEW b, NEW c, Joined(a, b, c, V)
  PROVE  /\ c \in Seq(V) /\ Len(c) = Len(a) + Len(b)
         /\ \A i \in 1 .. Len(a) : c[i] = a[i]
         /\ \A i \in 1 .. Len(b) : c[Len(a) + i] = b[i]
  BY DEF Joined

Appended(a, m, b, k, c, V) == Array(a, m, V) /\ Array(b, k, V) /\ c = a \o b

LEMMA Concat ==
  ASSUME NEW m, NEW k, NEW V, NEW a, NEW b, NEW c, Appended(a, m, b, k, c, V)
  PROVE  /\ Array(c, m + k, V)
         /\ \A i \in 1 .. m : c[i] = a[i]
         /\ \A i \in 1 .. k : c[m + i] = b[i]
         /\ \A i \in m + 1 .. m + k : i - m \in 1 .. k /\ c[i] = b[i - m]
  <1>1. /\ a \in Seq(V) /\ b \in Seq(V) /\ Len(a) = m /\ Len(b) = k /\ m \in Nat /\ k \in Nat
        /\ V \in SUBSET Nat
    BY DEF Appended, Array
  <1>2. Joined(a, b, c, V)
    BY <1>1 DEF Joined, Appended
  <1>3. /\ c \in Seq(V) /\ Len(c) = Len(a) + Len(b)
        /\ \A i \in 1 .. Len(a) : c[i] = a[i]
        /\ \A i \in 1 .. Len(b) : c[Len(a) + i] = b[i]
    BY <1>2, JoinedSeq
  <1>4. c \in [1 .. m + k -> V] /\ m + k \in Nat
    BY <1>1, <1>3
  <1>5. \A i \in 1 .. m : c[i] = a[i]
    BY <1>1, <1>3
  <1>6. \A i \in 1 .. k : c[m + i] = b[i]
    BY <1>1, <1>3
  <1>7. ASSUME NEW i \in m + 1 .. m + k PROVE i - m \in 1 .. k /\ c[i] = b[i - m]
    <2>1. PICK l \in 1 .. k : l = i - m /\ m + l = i
      BY <1>1
    <2> QED
      BY <1>6, <2>1
  <1>8. Array(c, m + k, V)
    BY <1>1, <1>4 DEF Array
  <1> QED
    BY <1>5, <1>6, <1>7, <1>8

LEMMA CountIs ==
  ASSUME NEW n \in Nat, NEW V, NEW s \in [1 .. n -> V], NEW v
  PROVE  /\ IsFiniteSet(Holding(s, v)) /\ Count(s, v) \in Nat
         /\ Count(s, v) = 0 <=> \A i \in 1 .. n : s[i] # v
  <1> DEFINE T == Holding(s, v)
  <1>1. IsFiniteSet(1 .. n)
    BY FS_Interval
  <1>2. T \in SUBSET (1 .. n) /\ (T = {} <=> \A i \in 1 .. n : s[i] # v)
    BY DEF Holding
  <1>3. IsFiniteSet(T)
    <2> HIDE DEF T
    <2> QED
      BY <1>1, <1>2, FS_Subset
  <1>4. Cardinality(T) \in Nat /\ (Cardinality(T) = 0 <=> T = {})
    <2> HIDE DEF T
    <2> QED
      BY <1>3, FS_CardinalityType, FS_EmptySet
  <1> QED
    BY <1>2, <1>3, <1>4 DEF Count

\* s and t hold v equally often if f carries what holds it from s to t, g back.
Carries(f, g, S, T) ==
  /\ \A i \in S : f[i] \in T /\ g[f[i]] = i
  /\ \A k \in T : g[k] \in S /\ f[g[k]] = k

LEMMA SameCount ==
  ASSUME NEW s, NEW t, NEW v, NEW f, NEW g, IsFiniteSet(Holding(s, v)),
         Carries(f, g, Holding(s, v), Holding(t, v))
  PROVE  Count(s, v) = Count(t, v)
  <1> DEFINE S == Holding(s, v)
             T == Holding(t, v)
             h == [i \in S |-> f[i]]
  <1>1. IsFiniteSet(S)
    OBVIOUS
  <1> HIDE DEF S, T
  <1>0. Carries(f, g, S, T)
    BY DEF S, T
  <1>2. h \in [S -> T]
    BY <1>0 DEF Carries
  <1>3. \A i, j \in S : h[i] = h[j] => i = j
    BY <1>0 DEF Carries
  <1>4. \A k \in T : \E i \in S : h[i] = k
    BY <1>0 DEF Carries
  <1>5. h \in Bijection(S, T)
    <2> HIDE DEF h
    <2> QED
      BY <1>2, <1>3, <1>4 DEF Bijection, Injection, Surjection, IsInjective
  <1>6. ExistsBijection(S, T)
    <2> HIDE DEF h
    <2> QED
      BY <1>5 DEF ExistsBijection
  <1>7. Cardinality(T) = Cardinality(S)
    <2> HIDE DEF h
    <2> QED
      BY <1>1, <1>6, FS_Bijection
  <1> QED
    BY <1>7 DEF Count, S, T

\* The first i - 1 are in order, and none behind is smaller.
Below(s, n, i) == \A a \in 1 .. i - 1 : \A b \in a .. n : s[a] <= s[b]
\* None of the next, up to j, is smaller than the i-th.
Lowest(s, i, j) == \A b \in i .. j : s[i] <= s[b]

\* An exchange of the pass for i, when j is next.
Ready(s, n, V, i, j) ==
  /\ n \in Nat /\ V \in SUBSET Nat /\ s \in [1 .. n -> V] /\ i \in 1 .. n /\ j \in 1 .. n
  /\ i < j /\ Below(s, n, i) /\ Lowest(s, i, j - 1)

LEMMA ExchangeIs ==
  ASSUME NEW n, NEW V, NEW s, NEW i, NEW j, Ready(s, n, V, i, j)
  PROVE  /\ Exchange(s, i, j) \in [1 .. n -> V]
         /\ Below(Exchange(s, i, j), n, i) /\ Lowest(Exchange(s, i, j), i, j)
         /\ \A v : Count(Exchange(s, i, j), v) = Count(s, v)
  <1> USE DEF Ready
  <1> DEFINE t == [s EXCEPT ![i] = s[j], ![j] = s[i]]
  <1>0. \A k \in 1 .. n : s[k] \in Nat
    OBVIOUS
  <1>1. CASE s[i] <= s[j]
    <2>1. Exchange(s, i, j) = s
      BY <1>0, <1>1 DEF Exchange
    <2>2. Lowest(s, i, j)
      BY <1>1 DEF Lowest
    <2> QED
      BY <2>1, <2>2
  <1>2. CASE s[i] > s[j]
    <2>1. Exchange(s, i, j) = t
      BY <1>2 DEF Exchange
    <2>2. t \in [1 .. n -> V] /\ t[i] = s[j] /\ t[j] = s[i] /\ \A k \in (1 .. n) \ {i, j} : t[k] = s[k]
      OBVIOUS
    <2> HIDE DEF t
    <2>3. Below(t, n, i)
      <3>1. ASSUME NEW a \in 1 .. i - 1, NEW b \in a .. n PROVE t[a] <= t[b]
        <4>1. t[a] = s[a]
          BY <2>2
        <4>2. s[a] <= s[b] /\ s[a] <= s[i] /\ s[a] <= s[j]
          BY DEF Below
        <4> QED
          BY <2>2, <4>1, <4>2
      <3> QED
        BY <3>1 DEF Below
    <2>4. Lowest(t, i, j)
      <3>1. ASSUME NEW b \in i .. j PROVE t[i] <= t[b]
        <4>1. CASE b = i
          BY <1>0, <2>2, <4>1
        <4>2. CASE b = j
          BY <1>0, <1>2, <2>2, <4>2
        <4>3. CASE b # i /\ b # j
          <5>1. s[i] <= s[b] /\ t[b] = s[b] /\ b \in 1 .. n
            BY <2>2, <4>3 DEF Lowest
          <5> QED
            BY <1>0, <1>2, <2>2, <5>1
        <4> QED
          BY <4>1, <4>2, <4>3
      <3> QED
        BY <3>1 DEF Lowest
    <2>5. ASSUME NEW v PROVE Count(t, v) = Count(s, v)
      <3> DEFINE f == [k \in 1 .. n |-> IF k = i THEN j ELSE IF k = j THEN i ELSE k]
      <3>1. f \in [1 .. n -> 1 .. n] /\ \A k \in 1 .. n : f[f[k]] = k
        OBVIOUS
      <3>2. \A k \in 1 .. n : t[f[k]] = s[k] /\ s[f[k]] = t[k]
        BY <2>2
      <3> HIDE DEF f
      <3>3. Carries(f, f, Holding(s, v), Holding(t, v))
        BY <2>2, <3>1, <3>2 DEF Carries, Holding
      <3>4. IsFiniteSet(Holding(s, v))
        BY CountIs
      <3> QED
        BY <3>3, <3>4, SameCount
    <2> QED
      BY <2>1, <2>2, <2>3, <2>4, <2>5
  <1> QED
    BY <1>0, <1>1, <1>2

LEMMA PassIs ==
  ASSUME NEW n, NEW V, NEW s, Array(s, n, V), NEW i \in 1 .. n
  PROVE  /\ Pass(s, i) \in [1 .. n -> V]
         /\ Below(s, n, i) => Below(Pass(s, i), n, i + 1) /\ \A v : Count(Pass(s, i), v) = Count(s, v)
  <1> USE DEF Array
  <1> DEFINE S == [1 .. n -> V]
             step(j, u) == IF j <= i THEN s ELSE Exchange(u, i, j)
             G == [q \in (1 .. n) \X S |-> step(q[1], q[2])]
             Rec(g) == [j \in 0 .. Len(s) |-> IF j <= i THEN s ELSE Exchange(g[j - 1], i, j)]
             at == CHOOSE g : g = Rec(g)
  <1>0. Len(s) = n
    BY Functional
  <1>1. Pass(s, i) = at[n]
    BY <1>0 DEF Pass
  <1>2. G \in [(1 .. n) \X S -> S] /\ s \in S
    <2>1. ASSUME NEW q \in (1 .. n) \X S PROVE step(q[1], q[2]) \in S
      BY <2>1 DEF Exchange
    <2> HIDE DEF S, step
    <2> QED
      BY <2>1 DEF S
  <1>3. \A j \in 1 .. n, u \in S : G[<<j, u>>] = step(j, u)
    <2> HIDE DEF S, step
    <2> QED
      OBVIOUS
  <1>4. PICK f : Follows(f, S, G, s, n)
    <2> HIDE DEF S, G
    <2> QED
      BY <1>2, Iterate
  <1>5. f \in [0 .. n -> S] /\ f[0] = s /\ \A j \in 1 .. n : f[j] = step(j, f[j - 1])
    <2>1. f \in [0 .. n -> S] /\ f[0] = s /\ \A j \in 1 .. n : f[j] = G[<<j, f[j - 1]>>]
      <3> HIDE DEF S, G
      <3> QED
        BY <1>4 DEF Follows
    <2>2. \A j \in 1 .. n : j - 1 \in 0 .. n
      OBVIOUS
    <2> HIDE DEF S, G, step
    <2> QED
      BY <1>3, <2>1, <2>2
  <1>6. f = Rec(f)
    <2>1. \A j \in 0 .. n : f[j] = IF j <= i THEN s ELSE Exchange(f[j - 1], i, j)
      <3>1. \A j \in 0 .. n : j = 0 \/ j \in 1 .. n
        OBVIOUS
      <3> HIDE DEF S, G
      <3> QED
        BY <1>5, <3>1
    <2>2. DOMAIN f = 0 .. n
      BY <1>5
    <2> HIDE DEF S, G, step
    <2> QED
      BY <1>0, <1>5, <2>1
  <1>7. at = Rec(at)
    <2> HIDE DEF Rec
    <2> QED
      BY <1>6
  <1>8. \A j \in 0 .. n : at[j] = step(j, at[j - 1])
    <2> HIDE DEF at
    <2> QED
      BY <1>0, <1>7
  <1> HIDE DEF at, Rec, G
  <1> DEFINE SoFar(u, j) == Below(u, n, i) /\ (i <= j => Lowest(u, i, j)) /\ \A v : Count(u, v) = Count(s, v)
             P == {j \in Nat : j <= n => at[j] \in S /\ (Below(s, n, i) => SoFar(at[j], j))}
  <1>9. ASSUME NEW j \in 0 .. n, j <= i PROVE j \in P
    <2>1. at[j] = s
      BY <1>8, <1>9
    <2>2. ASSUME i <= j PROVE Lowest(s, i, j)
      <3>1. \A b \in i .. j : b = i
        BY <1>9
      <3>2. s[i] \in Nat
        OBVIOUS
      <3> QED
        BY <3>1, <3>2 DEF Lowest
    <2> QED
      BY <2>1, <2>2
  <1>10. ASSUME NEW j \in 0 .. n - 1, j \in P PROVE j + 1 \in P
    <2>1. CASE j + 1 <= i
      BY <1>9, <2>1
    <2>2. CASE i < j + 1
      <3>1. j + 1 \in 0 .. n /\ (j + 1) - 1 = j /\ j \in 0 .. n /\ j <= n /\ i <= j /\ ~(j + 1 <= i) /\ j + 1 \in 1 .. n
        BY <2>2
      <3>2. PICK u \in S : u = at[j] /\ (Below(s, n, i) => SoFar(u, j))
        BY <1>10, <3>1
      <3>3. PICK q \in 1 .. n : q = j + 1
        BY <3>1
      <3>4. PICK e : e = Exchange(u, i, q)
        OBVIOUS
      <3>5. at[q] = e
        BY <1>8, <3>1, <3>2, <3>3, <3>4
      <3>6. e \in S
        BY <3>4 DEF Exchange
      <3>7. ASSUME Below(s, n, i) PROVE SoFar(e, q)
        <4>1. Below(u, n, i)
          BY <3>2, <3>7
        <4>2. i < q /\ Lowest(u, i, q - 1)
          BY <2>2, <3>1, <3>2, <3>3, <3>7
        <4>3. u \in [1 .. n -> V]
          OBVIOUS
        <4> HIDE DEF SoFar, P, S, step
        <4>5. /\ Below(Exchange(u, i, q), n, i) /\ Lowest(Exchange(u, i, q), i, q)
              /\ \A v : Count(Exchange(u, i, q), v) = Count(u, v)
          <5>1. Ready(u, n, V, i, q)
            BY <4>1, <4>2, <4>3 DEF Ready
          <5> QED
            BY <5>1, ExchangeIs
        <4>4. Below(e, n, i) /\ Lowest(e, i, q) /\ \A v : Count(e, v) = Count(u, v)
          BY <3>4, <4>5
        <4> USE DEF SoFar
        <4> QED
          BY <3>2, <3>7, <4>4
      <3> HIDE DEF SoFar
      <3>8. q \in P
        BY <3>5, <3>6, <3>7
      <3> QED
        BY <3>3, <3>8
    <2> QED
      BY <2>1, <2>2
  <1>11. n \in P
    <2>0. P \in SUBSET Nat /\ n \in 0 .. n
      OBVIOUS
    <2>1. 0 \in P
      BY <1>9
    <2> HIDE DEF P
    <2> QED
      BY <1>10, <2>0, <2>1, InductionUpTo
  <1>12. at[n] \in S /\ (Below(s, n, i) => SoFar(at[n], n))
    BY <1>11
  <1>13. ASSUME Below(s, n, i) PROVE Below(at[n], n, i + 1)
    <2>1. ASSUME NEW a \in 1 .. i, NEW b \in a .. n PROVE at[n][a] <= at[n][b]
      <3>1. a \in 1 .. i - 1 \/ a = i
        OBVIOUS
      <3> QED
        BY <1>12, <1>13, <3>1 DEF Below, Lowest
    <2>2. (i + 1) - 1 = i
      OBVIOUS
    <2> QED
      BY <2>1, <2>2 DEF Below
  <1> QED
    BY <1>1, <1>12, <1>13

LEMMA SortIs ==
  ASSUME NEW V \in SUBSET Nat, NEW s \in Seq(V)
  PROVE  /\ sort_entries(s) \in Seq(V) /\ Len(sort_entries(s)) = Len(s)
         /\ \A i, j \in 1 .. Len(s) : i < j => sort_entries(s)[i] <= sort_entries(s)[j]
         /\ \A v : Count(sort_entries(s), v) = Count(s, v)
  <1>n. PICK n \in Nat : n = Len(s)
    BY Sequential
  <1> DEFINE S == [1 .. n -> V]
             G == [q \in (1 .. n) \X S |-> Pass(q[2], q[1])]
             Rec(g) == [i \in 0 .. Len(s) |-> IF i = 0 THEN s ELSE Pass(g[i - 1], i)]
             at == CHOOSE g : g = Rec(g)
  <1>0. s \in S
    BY <1>n, Sequential
  <1>1. sort_entries(s) = at[n]
    BY <1>n DEF sort_entries
  <1>2. G \in [(1 .. n) \X S -> S]
    <2>1. ASSUME NEW q \in (1 .. n) \X S PROVE Pass(q[2], q[1]) \in S
      <3>1. Array(q[2], n, V) /\ q[1] \in 1 .. n
        BY DEF Array
      <3> QED
        BY <3>1, PassIs
    <2> HIDE DEF S
    <2> QED
      BY <2>1
  <1>3. \A i \in 1 .. n, u \in S : G[<<i, u>>] = Pass(u, i)
    <2> HIDE DEF S
    <2> QED
      OBVIOUS
  <1>4. PICK f : Follows(f, S, G, s, n)
    <2> HIDE DEF S, G
    <2> QED
      BY <1>0, <1>2, Iterate
  <1>5. f \in [0 .. n -> S] /\ f[0] = s /\ \A i \in 1 .. n : f[i] = Pass(f[i - 1], i)
    <2>1. f \in [0 .. n -> S] /\ f[0] = s /\ \A i \in 1 .. n : f[i] = G[<<i, f[i - 1]>>]
      <3> HIDE DEF S, G
      <3> QED
        BY <1>4 DEF Follows
    <2>2. \A i \in 1 .. n : i - 1 \in 0 .. n
      OBVIOUS
    <2> HIDE DEF S, G
    <2> QED
      BY <1>3, <2>1, <2>2
  <1>6. f = Rec(f)
    <2>1. \A i \in 0 .. n : f[i] = IF i = 0 THEN s ELSE Pass(f[i - 1], i)
      <3>1. \A i \in 0 .. n : i = 0 \/ i \in 1 .. n
        OBVIOUS
      <3> HIDE DEF S, G
      <3> QED
        BY <1>5, <3>1
    <2> HIDE DEF S, G
    <2> QED
      BY <1>n, <1>5, <2>1
  <1>7. at = Rec(at)
    <2> HIDE DEF Rec
    <2> QED
      BY <1>6
  <1>8. at[0] = s /\ \A i \in 1 .. n : at[i] = Pass(at[i - 1], i)
    <2>1. \A i \in 0 .. n : at[i] = IF i = 0 THEN s ELSE Pass(at[i - 1], i)
      <3> HIDE DEF at
      <3> QED
        BY <1>n, <1>7
    <2> HIDE DEF at
    <2> QED
      BY <2>1
  <1> HIDE DEF at, Rec, G
  <1> DEFINE SoFar(u, i) == Below(u, n, i + 1) /\ \A v : Count(u, v) = Count(s, v)
             P == {i \in Nat : i <= n => at[i] \in S /\ SoFar(at[i], i)}
  <1>9. 0 \in P
    BY <1>0, <1>8 DEF Below
  <1>10. ASSUME NEW i \in 0 .. n - 1, i \in P PROVE i + 1 \in P
    <2>1. PICK u \in S : u = at[i] /\ SoFar(u, i)
      BY <1>10
    <2>2. PICK q \in 1 .. n : q = i + 1
      OBVIOUS
    <2>3. PICK e : e = Pass(u, q)
      OBVIOUS
    <2>4. at[q] = e
      <3>1. q - 1 = i
        BY <2>2
      <3> QED
        BY <1>8, <2>1, <2>2, <2>3, <3>1
    <2>5. u \in [1 .. n -> V] /\ Below(u, n, q)
      BY <2>1, <2>2
    <2>6. e \in [1 .. n -> V] /\ Below(e, n, q + 1) /\ \A v : Count(e, v) = Count(u, v)
      <3> HIDE DEF SoFar, P, S
      <3>1. /\ Pass(u, q) \in [1 .. n -> V] /\ Below(Pass(u, q), n, q + 1)
            /\ \A v : Count(Pass(u, q), v) = Count(u, v)
        <4>1. Array(u, n, V)
          BY <2>5 DEF Array
        <4> QED
          BY <2>5, <4>1, PassIs
      <3> QED
        BY <2>3, <3>1
    <2>7. SoFar(e, q) /\ e \in S
      BY <2>1, <2>6
    <2> HIDE DEF SoFar, S
    <2>8. q \in P
      BY <2>4, <2>7
    <2> QED
      BY <2>2, <2>8
  <1>11. n \in P
    <2>0. P \in SUBSET Nat /\ n \in 0 .. n
      OBVIOUS
    <2> HIDE DEF P
    <2> QED
      BY <1>9, <1>10, <2>0, InductionUpTo
  <1>12. PICK t \in S : t = sort_entries(s) /\ SoFar(t, n)
    BY <1>1, <1>11
  <1>13. ASSUME NEW i \in 1 .. n, NEW j \in 1 .. n, i < j PROVE t[i] <= t[j]
    <2>1. i \in 1 .. (n + 1) - 1 /\ j \in i .. n
      BY <1>13
    <2> QED
      BY <1>12, <2>1 DEF Below
  <1> QED
    BY <1>n, <1>12, <1>13, Functional

LEMMA CountAppend ==
  ASSUME NEW V, NEW s \in Seq(V), NEW x, NEW v
  PROVE  Count(Append(s, x), v) = Count(s, v) + (IF x = v THEN 1 ELSE 0) /\ Count(s, v) \in Nat
  <1>1. PICK n \in Nat : n = Len(s) /\ s \in [1 .. n -> V]
    BY Sequential
  <1>2. IsFiniteSet(Holding(s, v)) /\ Count(s, v) \in Nat
    BY <1>1, CountIs
  <1>3. n + 1 \notin Holding(s, v)
    BY <1>1 DEF Holding
  <1>4. Holding(Append(s, x), v) = IF x = v THEN Holding(s, v) \cup {n + 1} ELSE Holding(s, v)
    BY <1>1 DEF Holding
  <1>5. Cardinality(Holding(s, v) \cup {n + 1}) = Cardinality(Holding(s, v)) + 1
    BY <1>2, <1>3, FS_AddElement
  <1> QED
    BY <1>2, <1>4, <1>5 DEF Count

Upto(s, k) == [i \in 1 .. k |-> s[i]]
Entries == {x \in Nat : x > 2}

LEMMA EntsIs ==
  ASSUME NEW s \in Seq(Nat)
  PROVE  ents(s) \in Seq(Entries) /\ \A v \in Entries : Count(ents(s), v) = Count(s, v)
  <1>n. PICK n \in Nat : n = Len(s) /\ s \in [1 .. n -> Nat]
    BY Sequential
  <1> DEFINE S == Seq(Entries)
             step(k, u) == IF s[k] > 2 THEN Append(u, s[k]) ELSE u
             G == [q \in (1 .. n) \X S |-> step(q[1], q[2])]
             Rec(g) == [k \in 0 .. Len(s) |-> IF k = 0 THEN <<>>
                                             ELSE IF s[k] > 2 THEN Append(g[k - 1], s[k]) ELSE g[k - 1]]
             at == CHOOSE g : g = Rec(g)
  <1>1. ents(s) = at[n]
    BY <1>n DEF ents
  <1>2. ASSUME NEW k \in 1 .. n, NEW u \in S PROVE step(k, u) \in S
    <2>1. s[k] \in Nat /\ (s[k] > 2 => s[k] \in Entries)
      BY <1>n DEF Entries
    <2>2. s[k] > 2 => Append(u, s[k]) \in Seq(Entries)
      BY <2>1
    <2> QED
      BY <2>2
  <1>3. G \in [(1 .. n) \X S -> S] /\ <<>> \in S
    <2>1. ASSUME NEW q \in (1 .. n) \X S PROVE step(q[1], q[2]) \in S
      BY <1>2
    <2>2. <<>> \in S
      OBVIOUS
    <2> HIDE DEF S, step
    <2> QED
      BY <2>1, <2>2
  <1>a. \A k \in 1 .. n, u \in S : G[<<k, u>>] = step(k, u)
    <2> HIDE DEF S, step
    <2> QED
      OBVIOUS
  <1>4. PICK f : Follows(f, S, G, <<>>, n)
    <2> HIDE DEF S, G
    <2> QED
      BY <1>3, Iterate
  <1>5. f \in [0 .. n -> S] /\ f[0] = <<>> /\ \A k \in 1 .. n : f[k] = step(k, f[k - 1])
    <2>1. f \in [0 .. n -> S] /\ f[0] = <<>> /\ \A k \in 1 .. n : f[k] = G[<<k, f[k - 1]>>]
      <3> HIDE DEF S, G
      <3> QED
        BY <1>4 DEF Follows
    <2>2. \A k \in 1 .. n : k - 1 \in 0 .. n
      OBVIOUS
    <2> HIDE DEF S, G, step
    <2> QED
      BY <1>a, <2>1, <2>2
  <1>6. f = Rec(f)
    <2>1. \A k \in 0 .. n : f[k] = IF k = 0 THEN <<>> ELSE step(k, f[k - 1])
      <3>1. \A k \in 0 .. n : k = 0 \/ k \in 1 .. n
        OBVIOUS
      <3> HIDE DEF S, G, step
      <3> QED
        BY <1>5, <3>1
    <2> HIDE DEF S, G
    <2> QED
      BY <1>n, <1>5, <2>1
  <1>7. at = Rec(at)
    <2> HIDE DEF Rec
    <2> QED
      BY <1>6
  <1>8. at[0] = <<>> /\ \A k \in 1 .. n : at[k] = step(k, at[k - 1])
    <2>1. \A k \in 0 .. n : at[k] = IF k = 0 THEN <<>> ELSE step(k, at[k - 1])
      <3> HIDE DEF at
      <3> QED
        BY <1>n, <1>7
    <2> HIDE DEF at, step
    <2> QED
      BY <2>1
  <1> HIDE DEF at, Rec, G
  <1> DEFINE SoFar(u, k) == \A v \in Entries : Count(u, v) = Count(Upto(s, k), v)
             P == {k \in Nat : k <= n => at[k] \in S /\ SoFar(at[k], k)}
  <1>9. 0 \in P
    <2>1. at[0] = <<>> /\ Upto(s, 0) = <<>>
      BY <1>8 DEF Upto
    <2>2. SoFar(at[0], 0)
      BY <2>1
    <2>3. at[0] \in S
      BY <2>1
    <2> HIDE DEF S, step, SoFar
    <2> QED
      BY <2>2, <2>3
  <1>10. ASSUME NEW k \in 0 .. n - 1, k \in P PROVE k + 1 \in P
    <2>1. PICK u \in S : u = at[k] /\ SoFar(u, k)
      BY <1>10
    <2>2. PICK q \in 1 .. n : q = k + 1
      OBVIOUS
    <2>3. at[q] = step(q, u)
      <3>1. q - 1 = k
        BY <2>2
      <3> QED
        BY <1>8, <2>1, <2>2, <3>1
    <2>4. step(q, u) \in S
      BY <1>2
    <2>5. Upto(s, q) = Append(Upto(s, k), s[q]) /\ Upto(s, k) \in Seq(Nat) /\ s[q] \in Nat
      BY <1>n, <2>2 DEF Upto
    <2>6. ASSUME NEW v \in Entries PROVE Count(step(q, u), v) = Count(Upto(s, q), v)
      <3>1. v > 2 /\ v \in Nat
        BY DEF Entries
      <3>2. Count(Upto(s, q), v) = Count(Upto(s, k), v) + (IF s[q] = v THEN 1 ELSE 0)
        BY <2>5, CountAppend
      <3>3. Count(u, v) = Count(Upto(s, k), v) /\ Count(u, v) \in Nat
        BY <2>1, CountAppend
      <3>4. CASE s[q] > 2
        <4>1. Count(Append(u, s[q]), v) = Count(u, v) + (IF s[q] = v THEN 1 ELSE 0)
          BY CountAppend
        <4> QED
          BY <3>2, <3>3, <3>4, <4>1
      <3>5. CASE ~(s[q] > 2)
        <4>1. s[q] # v
          BY <2>5, <3>1, <3>5
        <4> QED
          BY <3>2, <3>3, <3>5, <4>1
      <3> QED
        BY <3>4, <3>5
    <2> HIDE DEF S, step
    <2>7. q \in P
      BY <2>3, <2>4, <2>6
    <2> QED
      BY <2>2, <2>7
  <1>11. n \in P
    <2>0. P \in SUBSET Nat /\ n \in 0 .. n
      OBVIOUS
    <2> HIDE DEF P
    <2> QED
      BY <1>9, <1>10, <2>0, InductionUpTo
  <1>12. Upto(s, n) = s
    BY <1>n DEF Upto
  <1> QED
    BY <1>1, <1>11, <1>12

\* What ls shows of what it has read, if the dots came first.
LEMMA ListIs ==
  ASSUME NEW s, s = reader.got, s \in Seq(Nat),
         \A i \in 1 .. Len(s) : IF i <= 2 THEN s[i] = i ELSE s[i] > 2
  PROVE  /\ \A i, j \in DOMAIN list_dir : i < j => list_dir[i] <= list_dir[j]
         /\ \A v \in Nat \ {0} : Count(list_dir, v) = Count(s, v)
  <1>n. PICK n \in Nat : n = Len(s) /\ s \in [1 .. n -> Nat]
    BY Sequential
  <1>t. PICK t : t = sort_entries(ents(s))
    OBVIOUS
  <1>m. PICK m \in 0 .. 2 : m <= n /\ (m < 2 => n = m)
    <2>1. n < 2 \/ 2 <= n
      OBVIOUS
    <2> QED
      BY <2>1
  <1>1. /\ t \in Seq(Entries) /\ \A i, j \in 1 .. Len(t) : i < j => t[i] <= t[j]
        /\ \A v \in Entries : Count(t, v) = Count(s, v)
    <2>1. PICK e : e = ents(s)
      OBVIOUS
    <2>2. e \in Seq(Entries) /\ \A v \in Entries : Count(e, v) = Count(s, v)
      BY <2>1, EntsIs
    <2>3. Entries \in SUBSET Nat
      BY DEF Entries
    <2>4. /\ t \in Seq(Entries) /\ Len(t) = Len(e)
          /\ \A i, j \in 1 .. Len(e) : i < j => t[i] <= t[j]
          /\ \A v : Count(t, v) = Count(e, v)
      BY <2>1, <2>2, <2>3, <1>t, SortIs
    <2> QED
      BY <2>2, <2>4
  <1>k. PICK k \in Nat : k = Len(t) /\ t \in [1 .. k -> Entries]
    BY <1>1, Sequential
  <1> DEFINE pre == [i \in 1 .. m |-> i]
             d == pre \o t
  <1>2. \A v \in {1, 2} : v \in Range(s) <=> v <= m
    <2>1. Range(s) = {s[i] : i \in 1 .. n}
      BY <1>n DEF Range
    <2>2. ASSUME NEW v \in {1, 2}, v <= m PROVE v \in Range(s)
      <3>1. v \in 1 .. n /\ s[v] = v
        BY <2>2, <1>n, <1>m
      <3> QED
        BY <2>1, <3>1
    <2>3. ASSUME NEW v \in {1, 2}, v \in Range(s) PROVE v <= m
      <3>1. PICK i \in 1 .. n : s[i] = v
        BY <2>1, <2>3
      <3>2. i <= 2 /\ i = v
        <4>1. IF i <= 2 THEN s[i] = i ELSE s[i] > 2
          BY <1>n
        <4>2. ~(s[i] > 2)
          BY <3>1
        <4> QED
          BY <3>1, <4>1, <4>2
      <3> QED
        BY <1>m, <3>2
    <2> QED
      BY <2>2, <2>3
  <1>3. list_dir = d
    <2>1. list_dir = (IF 1 \in Range(s) THEN <<1>> ELSE <<>>) \o (IF 2 \in Range(s) THEN <<2>> ELSE <<>>) \o t
      BY <1>t DEF list_dir
    <2>2. (IF 1 \in Range(s) THEN <<1>> ELSE <<>>) \o (IF 2 \in Range(s) THEN <<2>> ELSE <<>>) = pre
      <3>0. m = 0 \/ m = 1 \/ m = 2
        OBVIOUS
      <3>1. CASE m = 0
        BY <1>2, <3>1
      <3>2. CASE m = 1
        BY <1>2, <3>2
      <3>3. CASE m = 2
        BY <1>2, <3>3
      <3> QED
        BY <3>0, <3>1, <3>2, <3>3
    <2> QED
      BY <2>1, <2>2
  <1>4. /\ d \in [1 .. m + k -> Nat] /\ \A i \in 1 .. m : d[i] = i
        /\ \A i \in 1 .. k : d[m + i] = t[i] /\ t[i] > 2
        /\ \A i \in m + 1 .. m + k : d[i] = t[i - m] /\ i - m \in 1 .. k
    <2>1. pre \in [1 .. m -> Nat] /\ \A i \in 1 .. m : pre[i] = i
      OBVIOUS
    <2>2. t \in [1 .. k -> Nat] /\ \A i \in 1 .. k : t[i] > 2
      BY <1>k DEF Entries
    <2> HIDE DEF pre
    <2>3. /\ d \in [1 .. m + k -> Nat]
          /\ \A i \in 1 .. m : d[i] = pre[i]
          /\ \A i \in 1 .. k : d[m + i] = t[i]
          /\ \A i \in m + 1 .. m + k : i - m \in 1 .. k /\ d[i] = t[i - m]
      <3>1. Array(pre, m, Nat) /\ Array(t, k, Nat)
        BY <2>1, <2>2 DEF Array
      <3>0. Appended(pre, m, t, k, d, Nat)
        BY <3>1 DEF Appended
      <3> HIDE DEF d
      <3>2. /\ Array(d, m + k, Nat)
            /\ \A i \in 1 .. m : d[i] = pre[i]
            /\ \A i \in 1 .. k : d[m + i] = t[i]
            /\ \A i \in m + 1 .. m + k : i - m \in 1 .. k /\ d[i] = t[i - m]
        BY <3>0, Concat
      <3>3. m + k \in Nat
        OBVIOUS
      <3> QED
        BY <3>2 DEF Array
    <2> HIDE DEF d
    <2> QED
      BY <2>1, <2>2, <2>3
  <1>d. DOMAIN d = 1 .. m + k
    BY <1>4
  <1> HIDE DEF pre, d
  <1>5. ASSUME NEW i \in 1 .. m + k, NEW j \in 1 .. m + k, i < j PROVE d[i] <= d[j]
    <2>1. CASE j <= m
      BY <1>4, <1>5, <2>1
    <2>2. CASE m < j /\ i <= m
      <3>1. d[i] = i /\ i <= 2
        BY <1>4, <2>2
      <3>2. PICK a \in 1 .. k : d[j] = t[a] /\ t[a] > 2 /\ t[a] \in Nat
        <4>1. j \in m + 1 .. m + k
          BY <2>2
        <4>2. PICK a \in 1 .. k : a = j - m /\ d[j] = t[a] /\ t[a] > 2
          BY <1>4, <4>1
        <4>3. t[a] \in Nat
          BY <1>k DEF Entries
        <4> QED
          BY <4>2, <4>3
      <3> QED
        BY <3>1, <3>2
    <2>3. CASE m < i
      <3>1. PICK a \in 1 .. k, b \in 1 .. k : d[i] = t[a] /\ d[j] = t[b] /\ a < b
        <4>1. i \in m + 1 .. m + k /\ j \in m + 1 .. m + k
          BY <1>5, <2>3
        <4>2. PICK a \in 1 .. k : a = i - m /\ d[i] = t[a]
          BY <1>4, <4>1
        <4>3. PICK b \in 1 .. k : b = j - m /\ d[j] = t[b]
          BY <1>4, <4>1
        <4>4. a < b
          BY <1>5, <4>2, <4>3
        <4> QED
          BY <4>2, <4>3, <4>4
      <3> QED
        BY <1>1, <1>k, <3>1
    <2> QED
      BY <2>1, <2>2, <2>3
  <1>6. ASSUME NEW v \in Nat \ {0} PROVE Count(d, v) = Count(s, v)
    <2>1. CASE v <= 2
      <3>1. ASSUME NEW i \in Nat PROVE i \in Holding(d, v) <=> i \in Holding(s, v)
        <4>1. i \in Holding(d, v) <=> i = v /\ i <= m
          <5>1. i \in Holding(d, v) <=> i \in 1 .. m + k /\ d[i] = v
            BY <1>d DEF Holding
          <5>2. CASE i \in 1 .. m
            BY <1>4, <5>1, <5>2
          <5>3. CASE i \in m + 1 .. m + k
            <6>1. PICK a \in 1 .. k : d[i] = t[a] /\ t[a] > 2 /\ t[a] \in Nat
              BY <1>4, <5>3, <1>k DEF Entries
            <6> QED
              BY <2>1, <5>1, <5>3, <6>1
          <5>4. CASE i \notin 1 .. m + k
            BY <5>1, <5>4
          <5> QED
            BY <5>2, <5>3, <5>4
        <4>2. i \in Holding(s, v) <=> i = v /\ i <= n
          <5>1. i \in Holding(s, v) <=> i \in 1 .. n /\ s[i] = v
            BY <1>n DEF Holding
          <5> QED
            BY <1>n, <2>1, <5>1
        <4> QED
          BY <1>m, <2>1, <4>1, <4>2
      <3>2. Holding(d, v) \subseteq Nat /\ Holding(s, v) \subseteq Nat
        BY <1>d, <1>n DEF Holding
      <3>3. Holding(d, v) = Holding(s, v)
        BY <3>1, <3>2
      <3> QED
        BY <3>3 DEF Count
    <2>2. CASE v > 2
      <3> DEFINE f == [i \in 1 .. k |-> i + m]
                 g == [i \in m + 1 .. m + k |-> i - m]
      <3>1. /\ \A i \in Holding(t, v) : i \in 1 .. k /\ t[i] = v
            /\ \A i \in 1 .. k : t[i] = v => i \in Holding(t, v)
        BY <1>k DEF Holding
      <3>2. \A i \in 1 .. m + k : d[i] = v <=> i \in Holding(d, v)
        BY <1>d DEF Holding
      <3>3. \A i \in Holding(d, v) : i \in m + 1 .. m + k
        <4>1. \A i \in Holding(d, v) : i \in 1 .. m + k /\ d[i] = v
          BY <1>d DEF Holding
        <4> QED
          BY <1>4, <2>2, <4>1
      <3>4. ASSUME NEW i \in Holding(t, v) PROVE f[i] \in Holding(d, v) /\ g[f[i]] = i
        <4>1. i \in 1 .. k /\ i + m \in 1 .. m + k /\ i + m \in m + 1 .. m + k /\ (i + m) - m = i /\ m + i = i + m
          BY <3>1
        <4>2. d[i + m] = v
          BY <1>4, <3>1, <4>1
        <4> QED
          BY <3>2, <4>1, <4>2
      <3>5. ASSUME NEW i \in Holding(d, v) PROVE g[i] \in Holding(t, v) /\ f[g[i]] = i
        <4>1. i \in m + 1 .. m + k /\ i \in 1 .. m + k /\ i - m \in 1 .. k /\ (i - m) + m = i
          BY <3>3
        <4>2. t[i - m] = v
          BY <1>4, <3>2, <4>1
        <4> QED
          BY <3>1, <4>1, <4>2
      <3> HIDE DEF f, g
      <3>6. Carries(f, g, Holding(t, v), Holding(d, v))
        BY <3>4, <3>5 DEF Carries
      <3>7. Count(t, v) = Count(d, v)
        <4>1. IsFiniteSet(Holding(t, v))
          BY <1>k, CountIs
        <4> QED
          BY <3>6, <4>1, SameCount
      <3> QED
        BY <1>1, <2>2, <3>7 DEF Entries
    <2> QED
      BY <2>1, <2>2
  <1> QED
    BY <1>3, <1>d, <1>5, <1>6

-----------------------------------------------------------------------------
(* The inductive invariant: M is what the reader r has met, which readdir  *)
(* returned or still holds, and L what the directory has for each offset.  *)
LiveOf(s) == <<1, 2>> \o s
MetOf(r) == r.got \o r.buf

\* The dots come first, and no other name is met than was there or was made.
MetIs(r, M, L) ==
  /\ r.off = Len(M)
  /\ \A i \in 1 .. Len(M) : IF i <= 2 THEN M[i] = i ELSE M[i] \in DirNames
  /\ \A i \in 1 .. Len(M) : M[i] \in r.first \cup r.made
  /\ \A k \in 1 .. Len(L) : L[k] \in r.first \cup r.made

\* Unless something was made, what is ahead of the offset was not met yet.
MetOnce(r, M, L) ==
  r.made = {} => /\ \A i, j \in 1 .. Len(M) : M[i] = M[j] => i = j
                 /\ \A i \in 1 .. Len(M), k \in 1 .. Len(L) : r.off < k => M[i] # L[k]

\* Unless something was removed, what was there and was not met is ahead.
MetAll(r, M, L) ==
  r.gone = {} => \A n \in r.first :
                   \/ \E i \in 1 .. Len(M) : M[i] = n
                   \/ r.at = "open" /\ \E k \in 1 .. Len(L) : r.off < k /\ L[k] = n
                   \/ r.cut

MetInv(r, M, L) == MetIs(r, M, L) /\ MetOnce(r, M, L) /\ MetAll(r, M, L)

Named(s) == s \in Seq(DirNames) /\ \A i, j \in 1 .. Len(s) : s[i] = s[j] => i = j
Readers == [at : {"closed", "open", "null"}, off : Nat, buf : Seq(Nat), got : Seq(Nat),
            first : SUBSET Nat, made : SUBSET DirNames, gone : SUBSET DirNames, cut : BOOLEAN]

ListInv == /\ fs \in {"ram", "disk"} /\ Named(names) /\ reader \in Readers
           /\ reader.at = "null" => reader.buf = <<>>
           /\ reader.at # "closed" => MetInv(reader, MetOf(reader), LiveOf(names))

LEMMA LiveIs ==
  ASSUME NEW s, Named(s)
  PROVE  /\ LiveOf(s) \in Seq(Nat) /\ Len(LiveOf(s)) = Len(s) + 2 /\ Len(s) \in Nat
         /\ LiveOf(s)[1] = 1 /\ LiveOf(s)[2] = 2
         /\ \A k \in 1 .. Len(s) : LiveOf(s)[k + 2] = s[k] /\ s[k] \in DirNames /\ s[k] > 2
         /\ \A i, j \in 1 .. Len(LiveOf(s)) : LiveOf(s)[i] = LiveOf(s)[j] => i = j
  <1>0. s \in Seq(DirNames) /\ DirNames \subseteq Nat /\ \A n \in DirNames : n > 2
    BY ListingAssumption DEF Named
  <1>n. PICK n \in Nat : n = Len(s) /\ s \in [1 .. n -> DirNames]
    BY <1>0, Sequential
  <1>1. Len(s) \in Nat /\ \A k \in 1 .. Len(s) : s[k] \in DirNames /\ s[k] > 2 /\ s[k] \in Nat
    BY <1>0, <1>n
  <1>2. PICK p : p = LiveOf(s)
    OBVIOUS
  <1>p. PICK q : q = <<1, 2>>
    OBVIOUS
  <1>q. q \in Seq(Nat) /\ Len(q) = 2 /\ q[1] = 1 /\ q[2] = 2
    BY <1>p
  <1>3. Joined(q, s, p, Nat)
    <2>1. s \in [1 .. n -> Nat]
      BY <1>0, <1>n
    <2>2. s \in Seq(Nat)
      BY <2>1, Functional
    <2> QED
      BY <1>2, <1>p, <1>q, <2>2 DEF Joined, LiveOf
  <1>4. /\ p \in Seq(Nat) /\ Len(p) = Len(q) + Len(s)
        /\ \A i \in 1 .. Len(q) : p[i] = q[i]
        /\ \A i \in 1 .. Len(s) : p[Len(q) + i] = s[i]
    BY <1>3, JoinedSeq
  <1>5. Len(p) = Len(s) + 2 /\ p[1] = 1 /\ p[2] = 2 /\ \A i \in 1 .. Len(s) : p[i + 2] = s[i]
    <2>1. Len(q) = 2 /\ q[1] = 1 /\ q[2] = 2
      BY <1>q
    <2>2. \A i \in 1 .. Len(s) : i + 2 = 2 + i
      BY <1>1
    <2> QED
      BY <1>1, <1>4, <2>1, <2>2
  <1>6. ASSUME NEW i \in 1 .. Len(p), NEW j \in 1 .. Len(p), p[i] = p[j], i < j PROVE FALSE
    <2>1. CASE j <= 2
      <3>1. i = 1 /\ j = 2
        BY <1>6, <2>1
      <3> QED
        BY <1>5, <1>6, <3>1
    <2>2. CASE j > 2
      <3>1. PICK b \in 1 .. Len(s) : b = j - 2 /\ p[j] = s[b]
        <4>1. j - 2 \in 1 .. Len(s) /\ (j - 2) + 2 = j
          BY <1>1, <1>5, <2>2
        <4> QED
          BY <1>5, <4>1
      <3>2. CASE i <= 2
        <4>1. i = 1 \/ i = 2
          BY <3>2
        <4>2. s[b] # 1 /\ s[b] # 2
          BY <1>1, <3>1
        <4> QED
          BY <1>5, <1>6, <3>1, <4>1, <4>2
      <3>3. CASE i > 2
        <4>1. PICK a \in 1 .. Len(s) : a = i - 2 /\ p[i] = s[a]
          <5>1. i - 2 \in 1 .. Len(s) /\ (i - 2) + 2 = i
            BY <1>1, <1>5, <3>3
          <5> QED
            BY <1>5, <5>1
        <4>2. a = b
          BY <1>6, <3>1, <4>1 DEF Named
        <4> QED
          BY <1>6, <3>1, <4>1, <4>2
      <3> QED
        BY <3>2, <3>3
    <2> QED
      BY <2>1, <2>2
  <1>7. ASSUME NEW i \in 1 .. Len(p), NEW j \in 1 .. Len(p), p[i] = p[j] PROVE i = j
    <2>1. ~(i < j) /\ ~(j < i)
      BY <1>6, <1>7
    <2> QED
      BY <1>1, <1>5, <2>1
  <1> QED
    BY <1>1, <1>2, <1>4, <1>5, <1>7

\* The greatest number up to l that is in a set.
LEMMA GreatestUpTo ==
  ASSUME NEW l \in Nat, NEW S \in SUBSET (0 .. l), S # {}
  PROVE  \E x \in S : \A y \in S : x >= y
  <1> DEFINE D == {l - x : x \in S}
  <1>1. D \in SUBSET Nat /\ D # {}
    <2>1. \A x \in 0 .. l : l - x \in Nat
      OBVIOUS
    <2> QED
      BY <2>1
  <1>2. PICK d \in D : \A c \in D : d <= c
    <2> HIDE DEF D
    <2> QED
      BY <1>1, LeastNat
  <1>3. PICK x \in S : d = l - x
    OBVIOUS
  <1>4. ASSUME NEW y \in S PROVE x >= y
    <2>1. l - y \in D
      OBVIOUS
    <2>2. d <= l - y
      BY <1>2, <2>1
    <2> QED
      BY <1>3, <2>2
  <1> QED
    BY <1>4

\* The first record behind off is all that decides whether there is anything.
LEMMA FirstWritten ==
  ASSUME NEW off \in Nat
  PROVE  Written(off, 0) = 0 /\ Written(off, 1) = 0 + RecLen[Live[off + 1]]
  <1>1. Written(off, 0) = 0
    <2> DEFINE Rec(g) == [k \in 0 .. 0 |-> IF k = 0 THEN 0 ELSE g[k - 1] + RecLen[Live[off + k]]]
               at == CHOOSE g : g = Rec(g)
    <2>1. Written(off, 0) = at[0]
      BY DEF Written
    <2>2. \E f : f = Rec(f)
      <3>1. [k \in 0 .. 0 |-> 0] = Rec([k \in 0 .. 0 |-> 0])
        OBVIOUS
      <3> HIDE DEF Rec
      <3> QED
        BY <3>1
    <2>3. at = Rec(at)
      <3> HIDE DEF Rec
      <3> QED
        BY <2>2
    <2> HIDE DEF at
    <2> QED
      BY <2>1, <2>3
  <1>2. Written(off, 1) = 0 + RecLen[Live[off + 1]]
    <2> DEFINE Rec(g) == [k \in 0 .. 1 |-> IF k = 0 THEN 0 ELSE g[k - 1] + RecLen[Live[off + k]]]
               at == CHOOSE g : g = Rec(g)
               w == [k \in 0 .. 1 |-> IF k = 0 THEN 0 ELSE 0 + RecLen[Live[off + k]]]
    <2>1. Written(off, 1) = at[1]
      BY DEF Written
    <2>2. \E f : f = Rec(f)
      <3>1. \A k \in 0 .. 1 : w[k] = IF k = 0 THEN 0 ELSE w[k - 1] + RecLen[Live[off + k]]
        <4>1. w[0] = 0
          OBVIOUS
        <4>2. \A k \in 0 .. 1 : k # 0 => k = 1 /\ k - 1 = 0
          OBVIOUS
        <4>3. w[1] = 0 + RecLen[Live[off + 1]]
          OBVIOUS
        <4> HIDE DEF w
        <4>4. w[1] = w[0] + RecLen[Live[off + 1]]
          BY <4>1, <4>3
        <4> QED
          BY <4>1, <4>2, <4>4
      <3>2. w = Rec(w)
        <4>1. w = [k \in 0 .. 1 |-> w[k]]
          OBVIOUS
        <4> HIDE DEF w
        <4> QED
          BY <3>1, <4>1
      <3> HIDE DEF Rec, w
      <3> QED
        BY <3>2
    <2>3. at = Rec(at)
      <3> HIDE DEF Rec
      <3> QED
        BY <2>2
    <2>4. at[0] = 0 /\ at[1] = at[0] + RecLen[Live[off + 1]]
      <3> HIDE DEF at
      <3> QED
        BY <2>3
    <2> HIDE DEF at, Rec
    <2> QED
      BY <2>1, <2>4
  <1> QED
    BY <1>1, <1>2

\* What sys_getdents64 copies: the n names behind off, and none only at the
\* end of the directory, unless it fails.
LEMMA DentsIs ==
  ASSUME NEW off \in Nat, Named(names)
  PROVE  \E n \in Nat :
           /\ getdents64(off).off = off + n /\ getdents64(off).found = SubSeq(Live, off + 1, off + n)
           /\ n > 0 => off + n <= Len(Live)
           /\ n = 0 /\ ~getdents64(off).err => Len(Live) <= off
  <1>1. Live = LiveOf(names)
    BY DEF Live, LiveOf
  <1>2. PICK l \in Nat : l = Len(Live) /\ \A k \in 1 .. l : Live[k] \in DirNames \cup {1, 2}
    <2>1. \A k \in 1 .. Len(Live) : k = 1 \/ k = 2 \/ (k - 2 \in 1 .. Len(names) /\ (k - 2) + 2 = k)
      BY <1>1, LiveIs
    <2>2. PICK L : L = Live
      OBVIOUS
    <2>3. /\ Len(L) \in Nat /\ L[1] = 1 /\ L[2] = 2
          /\ \A k \in 1 .. Len(names) : L[k + 2] = names[k] /\ names[k] \in DirNames
      BY <1>1, <2>2, LiveIs
    <2>4. ASSUME NEW k \in 1 .. Len(L) PROVE L[k] \in DirNames \cup {1, 2}
      <3>1. k = 1 \/ k = 2 \/ (k - 2 \in 1 .. Len(names) /\ (k - 2) + 2 = k)
        BY <2>1, <2>2
      <3>2. CASE k - 2 \in 1 .. Len(names) /\ (k - 2) + 2 = k
        <4>1. PICK a \in 1 .. Len(names) : a + 2 = k
          BY <3>2
        <4> QED
          BY <2>3, <4>1
      <3> QED
        BY <2>3, <3>1, <3>2
    <2> QED
      BY <2>2, <2>3, <2>4
  <1> DEFINE S == {i \in 0 .. Len(Live) : \A j \in 1 .. i : HasRoom(off, j) /\ RecLen[Live[off + j]] <= TmpLen}
  <1>3. S \in SUBSET (0 .. l) /\ 0 \in S
    BY <1>2
  <1>4. PICK n \in S : n = Copied(off)
    <2>1. \E x \in S : \A y \in S : x >= y
      <3> HIDE DEF S
      <3> QED
        BY <1>3, GreatestUpTo
    <2>2. Copied(off) = CHOOSE x \in S : \A y \in S : x >= y
      BY DEF Copied, Max
    <2> HIDE DEF S
    <2> QED
      BY <2>1, <2>2
  <1>5. n \in Nat
    BY <1>2
  <1>6. /\ getdents64(off).off = off + n /\ getdents64(off).found = SubSeq(Live, off + 1, off + n)
        /\ getdents64(off).err = HasRoom(off, n + 1)
    BY <1>4 DEF getdents64
  <1>7. n > 0 => off + n <= Len(Live)
    <2>1. n > 0 => HasRoom(off, n)
      BY <1>5
    <2> QED
      BY <2>1 DEF HasRoom, Tries
  <1>8. ASSUME n = 0, ~(Len(Live) <= off) PROVE HasRoom(off, n + 1)
    <2>1. off + 1 <= Len(Live) /\ off + 1 \in 1 .. l
      BY <1>2, <1>8
    <2>2. RecLen[Live[off + 1]] \in Nat /\ RecLen[Live[off + 1]] <= BufLen /\ RecHead + 1 < BufLen /\ RecHead \in Nat
      BY <1>2, <2>1, ListingAssumption
    <2>3. Written(off, 0) = 0 /\ Written(off, 1) = 0 + RecLen[Live[off + 1]]
      BY FirstWritten
    <2>4. Tries(off, 1)
      <3>1. 1 - 1 = 0
        OBVIOUS
      <3> QED
        BY <2>1, <2>2, <2>3, <3>1 DEF Tries
    <2>5. HasRoom(off, 1)
      BY <2>2, <2>3, <2>4 DEF HasRoom
    <2> QED
      BY <1>8, <2>5
  <1> HIDE DEF S
  <1> QED
    BY <1>5, <1>6, <1>7, <1>8

-----------------------------------------------------------------------------
(* What others do to the directory moves no name back over another.        *)
Insertion(s, n, i, t, V) ==
  s \in Seq(V) /\ n \in V /\ i \in 1 .. Len(s) + 1
  /\ t = SubSeq(s, 1, i - 1) \o <<n>> \o SubSeq(s, i, Len(s))
Removal(s, i, t, V) ==
  s \in Seq(V) /\ i \in 1 .. Len(s) /\ t = SubSeq(s, 1, i - 1) \o SubSeq(s, i + 1, Len(s))

LEMMA InsertionIs ==
  ASSUME NEW V, NEW s, NEW n, NEW i, NEW t, Insertion(s, n, i, t, V)
  PROVE  /\ t \in Seq(V) /\ Len(t) = Len(s) + 1 /\ Len(s) \in Nat /\ i \in 1 .. Len(s) + 1
         /\ t[i] = n /\ \A k \in 1 .. i - 1 : t[k] = s[k]
         /\ \A k \in i .. Len(s) : t[k + 1] = s[k]
  <1>1. s \in Seq(V) /\ n \in V /\ Len(s) \in Nat /\ i \in 1 .. Len(s) + 1
    BY DEF Insertion
  <1>2. PICK a : a = SubSeq(s, 1, i - 1)
    OBVIOUS
  <1>3. PICK b : b = SubSeq(s, i, Len(s))
    OBVIOUS
  <1>4. PICK c : c = <<n>>
    OBVIOUS
  <1>5. a \in Seq(V) /\ Len(a) = i - 1 /\ \A k \in 1 .. i - 1 : a[k] = s[k]
    BY <1>1, <1>2
  <1>6. b \in Seq(V) /\ Len(b) = Len(s) - i + 1 /\ \A k \in 1 .. Len(s) - i + 1 : b[k] = s[i + k - 1]
    BY <1>1, <1>3
  <1>7. c \in Seq(V) /\ Len(c) = 1 /\ c[1] = n
    BY <1>1, <1>4
  <1>8. PICK d : d = a \o c
    OBVIOUS
  <1>9. Joined(a, c, d, V)
    BY <1>5, <1>7, <1>8 DEF Joined
  <1>10. /\ d \in Seq(V) /\ Len(d) = Len(a) + Len(c)
         /\ \A k \in 1 .. Len(a) : d[k] = a[k]
         /\ \A k \in 1 .. Len(c) : d[Len(a) + k] = c[k]
    BY <1>9, JoinedSeq
  <1>11. d \in Seq(V) /\ Len(d) = i /\ d[i] = n /\ \A k \in 1 .. i - 1 : d[k] = s[k]
    <2>1. 1 \in 1 .. Len(c) /\ Len(a) + 1 = i
      BY <1>1, <1>5, <1>7
    <2> QED
      BY <1>1, <1>5, <1>7, <1>10, <2>1
  <1>12. Joined(d, b, t, V)
    BY <1>2, <1>3, <1>4, <1>6, <1>8, <1>10 DEF Joined, Insertion
  <1>13. /\ t \in Seq(V) /\ Len(t) = Len(d) + Len(b)
         /\ \A k \in 1 .. Len(d) : t[k] = d[k]
         /\ \A k \in 1 .. Len(b) : t[Len(d) + k] = b[k]
    BY <1>12, JoinedSeq
  <1>14. Len(t) = Len(s) + 1 /\ t[i] = n /\ \A k \in 1 .. i - 1 : t[k] = s[k]
    BY <1>1, <1>6, <1>11, <1>13
  <1>15. ASSUME NEW k \in i .. Len(s) PROVE t[k + 1] = s[k]
    <2>1. PICK j \in 1 .. Len(b) : j = k - i + 1 /\ i + j = k + 1 /\ i + j - 1 = k
      BY <1>1, <1>6
    <2>2. t[i + j] = b[j] /\ b[j] = s[i + j - 1]
      BY <1>6, <1>11, <1>13, <2>1
    <2> QED
      BY <2>1, <2>2
  <1> QED
    BY <1>1, <1>13, <1>14, <1>15

LEMMA RemovalIs ==
  ASSUME NEW V, NEW s, NEW i, NEW t, Removal(s, i, t, V)
  PROVE  /\ t \in Seq(V) /\ Len(t) = Len(s) - 1 /\ Len(s) \in Nat /\ i \in 1 .. Len(s)
         /\ \A k \in 1 .. i - 1 : t[k] = s[k]
         /\ \A k \in i .. Len(s) - 1 : t[k] = s[k + 1]
  <1>1. s \in Seq(V) /\ Len(s) \in Nat /\ i \in 1 .. Len(s)
    BY DEF Removal
  <1>2. PICK a : a = SubSeq(s, 1, i - 1)
    OBVIOUS
  <1>3. PICK b : b = SubSeq(s, i + 1, Len(s))
    OBVIOUS
  <1>4. a \in Seq(V) /\ Len(a) = i - 1 /\ \A k \in 1 .. i - 1 : a[k] = s[k]
    BY <1>1, <1>2
  <1>5. b \in Seq(V) /\ Len(b) = Len(s) - i /\ \A k \in 1 .. Len(s) - i : b[k] = s[i + k]
    BY <1>1, <1>3
  <1>6. Joined(a, b, t, V)
    BY <1>2, <1>3, <1>4, <1>5 DEF Joined, Removal
  <1>7. /\ t \in Seq(V) /\ Len(t) = Len(a) + Len(b)
        /\ \A k \in 1 .. Len(a) : t[k] = a[k]
        /\ \A k \in 1 .. Len(b) : t[Len(a) + k] = b[k]
    BY <1>6, JoinedSeq
  <1>8. Len(t) = Len(s) - 1 /\ \A k \in 1 .. i - 1 : t[k] = s[k]
    BY <1>1, <1>4, <1>5, <1>7
  <1>9. ASSUME NEW k \in i .. Len(s) - 1 PROVE t[k] = s[k + 1]
    <2>1. PICK j \in 1 .. Len(b) : j = k - i + 1 /\ (i - 1) + j = k /\ i + j = k + 1
      BY <1>1, <1>5
    <2>2. t[(i - 1) + j] = b[j] /\ b[j] = s[i + j]
      BY <1>4, <1>5, <1>7, <2>1
    <2> QED
      BY <2>1, <2>2
  <1> QED
    BY <1>1, <1>7, <1>8, <1>9

\* With n added, the names of L are in K, at the same place or behind.
Grows(L, K, n) ==
  /\ \A k \in 1 .. Len(L) : \E q \in 1 .. Len(K) : q >= k /\ K[q] = L[k]
  /\ \A q \in 1 .. Len(K) : K[q] = n \/ \E k \in 1 .. Len(L) : K[q] = L[k]
\* The names of K are in L, at the same place or behind.
Shrinks(L, K) == \A k \in 1 .. Len(K) : \E q \in 1 .. Len(L) : q >= k /\ L[q] = K[k]

LEMMA NamedAfterInsertion ==
  ASSUME NEW s, Named(s), NEW n, NEW i, NEW t, Insertion(s, n, i, t, DirNames),
         \A k \in 1 .. Len(s) : s[k] # n
  PROVE  Named(t) /\ Grows(LiveOf(s), LiveOf(t), n)
  <1>1. /\ t \in Seq(DirNames) /\ Len(t) = Len(s) + 1 /\ Len(s) \in Nat /\ i \in 1 .. Len(s) + 1
        /\ t[i] = n /\ \A k \in 1 .. i - 1 : t[k] = s[k]
        /\ \A k \in i .. Len(s) : t[k + 1] = s[k]
    BY InsertionIs
  <1> DEFINE At(k, j) == (j < i /\ k = j) \/ (i <= j /\ k = j + 1)
  <1>2. ASSUME NEW k \in 1 .. Len(t)
        PROVE  \/ k = i /\ t[k] = n
               \/ \E j \in 1 .. Len(s) : t[k] = s[j] /\ At(k, j)
    <2>1. CASE k < i
      <3>1. k \in 1 .. i - 1 /\ k \in 1 .. Len(s)
        BY <1>1, <2>1
      <3>2. t[k] = s[k]
        BY <1>1, <3>1
      <3>3. At(k, k)
        BY <2>1
      <3> HIDE DEF At
      <3> QED
        BY <3>1, <3>2, <3>3
    <2>2. CASE k = i
      BY <1>1, <2>2
    <2>3. CASE i < k
      <3>1. PICK j \in i .. Len(s) : k = j + 1
        <4>1. k - 1 \in i .. Len(s) /\ (k - 1) + 1 = k
          BY <1>1, <2>3
        <4> QED
          BY <4>1
      <3>2. t[k] = s[j] /\ j \in 1 .. Len(s)
        BY <1>1, <3>1
      <3> QED
        BY <3>1, <3>2
    <2> QED
      BY <1>1, <2>1, <2>2, <2>3
  <1>3. ASSUME NEW k \in 1 .. Len(s)
        PROVE  \E q \in 1 .. Len(t) : q >= k /\ t[q] = s[k]
    <2>1. CASE k < i
      BY <1>1, <2>1
    <2>2. CASE i <= k
      <3>1. k + 1 \in 1 .. Len(t) /\ k + 1 >= k /\ t[k + 1] = s[k]
        BY <1>1, <2>2
      <3> QED
        BY <3>1
    <2> QED
      BY <1>1, <2>1, <2>2
  <1>4. Named(t)
    <2>1. ASSUME NEW k \in 1 .. Len(t), NEW l \in 1 .. Len(t), t[k] = t[l] PROVE k = l
      <3>1. CASE k = i
        BY <1>2, <2>1, <3>1
      <3>2. CASE l = i
        BY <1>2, <2>1, <3>2
      <3>3. CASE k # i /\ l # i
        <4>1. PICK a \in 1 .. Len(s) : t[k] = s[a] /\ At(k, a)
          BY <1>2, <3>3
        <4>2. PICK b \in 1 .. Len(s) : t[l] = s[b] /\ At(l, b)
          BY <1>2, <3>3
        <4>3. a = b
          BY <2>1, <4>1, <4>2 DEF Named
        <4> QED
          BY <1>1, <4>1, <4>2, <4>3
      <3> QED
        BY <3>1, <3>2, <3>3
    <2> QED
      BY <1>1, <2>1 DEF Named
  <1>5. PICK L : L = LiveOf(s)
    OBVIOUS
  <1>6. PICK K : K = LiveOf(t)
    OBVIOUS
  <1>7. /\ Len(L) = Len(s) + 2 /\ L[1] = 1 /\ L[2] = 2
        /\ \A k \in 1 .. Len(s) : L[k + 2] = s[k]
    BY <1>5, LiveIs
  <1>8. /\ Len(K) = Len(t) + 2 /\ K[1] = 1 /\ K[2] = 2
        /\ \A k \in 1 .. Len(t) : K[k + 2] = t[k]
    BY <1>4, <1>6, LiveIs
  <1>9. ASSUME NEW k \in 1 .. Len(L) PROVE \E q \in 1 .. Len(K) : q >= k /\ K[q] = L[k]
    <2>1. CASE k <= 2
      <3>1. (k = 1 \/ k = 2) /\ k \in 1 .. Len(K)
        BY <1>1, <1>7, <1>8, <2>1
      <3> QED
        BY <1>7, <1>8, <3>1
    <2>2. CASE k > 2
      <3>1. PICK j \in 1 .. Len(s) : k = j + 2
        <4>1. k - 2 \in 1 .. Len(s) /\ (k - 2) + 2 = k
          BY <1>1, <1>7, <2>2
        <4> QED
          BY <4>1
      <3>2. PICK q \in 1 .. Len(t) : q >= j /\ t[q] = s[j]
        BY <1>3
      <3>3. q + 2 \in 1 .. Len(K) /\ q + 2 >= k
        BY <1>1, <1>8, <3>1, <3>2
      <3>4. K[q + 2] = L[k]
        BY <1>7, <1>8, <3>1, <3>2
      <3> QED
        BY <3>3, <3>4
    <2> QED
      BY <1>1, <1>7, <2>1, <2>2
  <1>10. ASSUME NEW q \in 1 .. Len(K) PROVE K[q] = n \/ \E k \in 1 .. Len(L) : K[q] = L[k]
    <2>1. CASE q <= 2
      <3>1. (q = 1 \/ q = 2) /\ q \in 1 .. Len(L)
        BY <1>1, <1>7, <1>8, <2>1
      <3> QED
        BY <1>7, <1>8, <3>1
    <2>2. CASE q > 2
      <3>1. PICK k \in 1 .. Len(t) : q = k + 2
        <4>1. q - 2 \in 1 .. Len(t) /\ (q - 2) + 2 = q
          BY <1>1, <1>8, <2>2
        <4> QED
          BY <4>1
      <3>2. t[k] = n \/ \E j \in 1 .. Len(s) : t[k] = s[j]
        BY <1>2
      <3>3. \A j \in 1 .. Len(s) : j + 2 \in 1 .. Len(L) /\ L[j + 2] = s[j]
        BY <1>1, <1>7
      <3> QED
        BY <1>8, <3>1, <3>2, <3>3
    <2> QED
      BY <1>1, <1>8, <2>1, <2>2
  <1> QED
    BY <1>4, <1>5, <1>6, <1>9, <1>10 DEF Grows

LEMMA NamedAfterRemoval ==
  ASSUME NEW s, Named(s), NEW i, NEW t, Removal(s, i, t, DirNames)
  PROVE  Named(t) /\ Shrinks(LiveOf(s), LiveOf(t))
  <1>1. /\ t \in Seq(DirNames) /\ Len(t) = Len(s) - 1 /\ Len(s) \in Nat /\ i \in 1 .. Len(s)
        /\ \A k \in 1 .. i - 1 : t[k] = s[k]
        /\ \A k \in i .. Len(s) - 1 : t[k] = s[k + 1]
    BY RemovalIs
  <1> DEFINE At(k, j) == (k < i /\ j = k) \/ (i <= k /\ j = k + 1)
  <1>2. ASSUME NEW k \in 1 .. Len(t)
        PROVE  \E j \in 1 .. Len(s) : t[k] = s[j] /\ j >= k /\ At(k, j)
    <2>1. CASE k < i
      <3>1. k \in 1 .. i - 1 /\ k \in 1 .. Len(s) /\ k >= k
        BY <1>1, <2>1
      <3>2. t[k] = s[k]
        BY <1>1, <3>1
      <3>3. At(k, k)
        BY <2>1
      <3> HIDE DEF At
      <3> QED
        BY <3>1, <3>2, <3>3
    <2>2. CASE i <= k
      <3>1. k \in i .. Len(s) - 1 /\ k + 1 \in 1 .. Len(s) /\ k + 1 >= k
        BY <1>1, <2>2
      <3> QED
        BY <1>1, <2>2, <3>1
    <2> QED
      BY <1>1, <2>1, <2>2
  <1>3. Named(t)
    <2>1. ASSUME NEW k \in 1 .. Len(t), NEW l \in 1 .. Len(t), t[k] = t[l] PROVE k = l
      <3>1. PICK a \in 1 .. Len(s) : t[k] = s[a] /\ At(k, a)
        BY <1>2
      <3>2. PICK b \in 1 .. Len(s) : t[l] = s[b] /\ At(l, b)
        BY <1>2
      <3>3. a = b
        BY <2>1, <3>1, <3>2 DEF Named
      <3> QED
        BY <1>1, <3>1, <3>2, <3>3
    <2> QED
      BY <1>1, <2>1 DEF Named
  <1>4. PICK L : L = LiveOf(s)
    OBVIOUS
  <1>5. PICK K : K = LiveOf(t)
    OBVIOUS
  <1>6. /\ Len(L) = Len(s) + 2 /\ L[1] = 1 /\ L[2] = 2
        /\ \A k \in 1 .. Len(s) : L[k + 2] = s[k]
    BY <1>4, LiveIs
  <1>7. /\ Len(K) = Len(t) + 2 /\ K[1] = 1 /\ K[2] = 2
        /\ \A k \in 1 .. Len(t) : K[k + 2] = t[k]
    BY <1>3, <1>5, LiveIs
  <1>8. ASSUME NEW k \in 1 .. Len(K) PROVE \E q \in 1 .. Len(L) : q >= k /\ L[q] = K[k]
    <2>1. CASE k <= 2
      <3>1. (k = 1 \/ k = 2) /\ k \in 1 .. Len(L)
        BY <1>1, <1>6, <1>7, <2>1
      <3> QED
        BY <1>6, <1>7, <3>1
    <2>2. CASE k > 2
      <3>1. PICK a \in 1 .. Len(t) : k = a + 2
        <4>1. k - 2 \in 1 .. Len(t) /\ (k - 2) + 2 = k
          BY <1>1, <1>7, <2>2
        <4> QED
          BY <4>1
      <3>2. PICK j \in 1 .. Len(s) : t[a] = s[j] /\ j >= a
        BY <1>2
      <3>3. j + 2 \in 1 .. Len(L) /\ j + 2 >= k
        BY <1>1, <1>6, <3>1, <3>2
      <3>4. L[j + 2] = K[k]
        BY <1>6, <1>7, <3>1, <3>2
      <3> QED
        BY <3>3, <3>4
    <2> QED
      BY <1>1, <1>7, <2>1, <2>2
  <1> QED
    BY <1>3, <1>4, <1>5, <1>8 DEF Shrinks

-----------------------------------------------------------------------------
(* Every step keeps the invariant; r is the reader before it, u after it.  *)
LEMMA ConcatEmpty ==
  ASSUME NEW V, NEW s \in Seq(V)
  PROVE  s \o <<>> = s /\ <<>> \o s = s
  OBVIOUS

LEMMA MetSeq ==
  ASSUME NEW r \in Readers
  PROVE  /\ MetOf(r) \in Seq(Nat)
         /\ r.buf = <<>> => MetOf(r) = r.got
         /\ r.got = <<>> => MetOf(r) = r.buf
  <1>1. r.got \in Seq(Nat) /\ r.buf \in Seq(Nat)
    BY DEF Readers
  <1>2. PICK a : a = r.got
    OBVIOUS
  <1>3. PICK b : b = r.buf
    OBVIOUS
  <1>4. PICK c : c = MetOf(r)
    OBVIOUS
  <1>5. Joined(a, b, c, Nat)
    BY <1>1, <1>2, <1>3, <1>4 DEF Joined, MetOf
  <1>6. c \in Seq(Nat)
    BY <1>5, JoinedSeq
  <1>7. a \o <<>> = a /\ <<>> \o b = b
    BY <1>1, <1>2, <1>3, ConcatEmpty
  <1> QED
    BY <1>2, <1>3, <1>4, <1>6, <1>7 DEF MetOf

Slice(s, o, n, b, V) ==
  s \in Seq(V) /\ o \in Nat /\ n \in Nat /\ o + n <= Len(s) /\ b = SubSeq(s, o + 1, o + n)

LEMMA SliceIs ==
  ASSUME NEW V, NEW s, NEW o, NEW n, NEW b, Slice(s, o, n, b, V)
  PROVE  b \in Seq(V) /\ Len(b) = n /\ \A k \in 1 .. n : b[k] = s[o + k]
  BY DEF Slice

LEMMA FreshReader ==
  ASSUME NEW R \in SUBSET Nat
  PROVE  [ClosedDir EXCEPT !.at = "open", !.first = R] \in Readers
  <1>1. PICK e : e = <<>>
    OBVIOUS
  <1>2. ClosedDir = [at |-> "closed", off |-> 0, buf |-> e, got |-> e, first |-> {},
                     made |-> {}, gone |-> {}, cut |-> FALSE]
    BY <1>1 DEF ClosedDir
  <1>3. e \in Seq(Nat)
    BY <1>1
  <1>4. [[at |-> "closed", off |-> 0, buf |-> e, got |-> e, first |-> {},
          made |-> {}, gone |-> {}, cut |-> FALSE] EXCEPT !.at = "open", !.first = R] \in Readers
    BY <1>3 DEF Readers
  <1> QED
    BY <1>2, <1>4

LEMMA FreshIs ==
  ASSUME NEW s, Named(s), NEW r, r = [ClosedDir EXCEPT !.at = "open", !.first = Range(LiveOf(s))]
  PROVE  r \in Readers /\ r.at = "open" /\ MetInv(r, MetOf(r), LiveOf(s))
  <1>1. PICK L : L = LiveOf(s)
    OBVIOUS
  <1>2. L \in Seq(Nat) /\ Len(L) \in Nat
    BY <1>1, LiveIs
  <1>3. DOMAIN L = 1 .. Len(L) /\ \A k \in 1 .. Len(L) : L[k] \in Nat
    BY <1>2
  <1>4. Range(L) \subseteq Nat /\ \A k \in 1 .. Len(L) : L[k] \in Range(L)
    BY <1>3 DEF Range
  <1>5. \A n \in Range(L) : \E k \in 1 .. Len(L) : L[k] = n
    BY <1>3 DEF Range
  <1>6. /\ r.at = "open" /\ r.off = 0 /\ r.buf = <<>> /\ r.got = <<>> /\ r.first = Range(L)
        /\ r.made = {} /\ r.gone = {} /\ r.cut = FALSE
    BY <1>1 DEF ClosedDir
  <1>7. r \in Readers
    <2>1. PICK R : R = Range(L)
      OBVIOUS
    <2>2. r = [ClosedDir EXCEPT !.at = "open", !.first = R]
      BY <1>1, <2>1
    <2>3. R \in SUBSET Nat
      BY <1>4, <2>1
    <2>4. [ClosedDir EXCEPT !.at = "open", !.first = R] \in Readers
      BY <2>3, FreshReader
    <2> QED
      BY <2>2, <2>4
  <1>8. PICK M : M = MetOf(r)
    OBVIOUS
  <1>9. M = <<>> /\ Len(M) = 0
    <2>1. M = <<>>
      BY <1>6, <1>7, <1>8, MetSeq
    <2> QED
      BY <2>1
  <1>10. MetIs(r, M, L)
    BY <1>4, <1>6, <1>9 DEF MetIs
  <1>11. MetOnce(r, M, L)
    BY <1>9 DEF MetOnce
  <1>12. MetAll(r, M, L)
    <2>1. \A k \in 1 .. Len(L) : 0 < k
      BY <1>2
    <2> QED
      BY <1>5, <1>6, <2>1 DEF MetAll
  <1> QED
    BY <1>1, <1>6, <1>7, <1>8, <1>10, <1>11, <1>12 DEF MetInv

\* readdir got n more names.
LEMMA FillIs ==
  ASSUME NEW s, Named(s), NEW r \in Readers, MetInv(r, MetOf(r), LiveOf(s)),
         r.at = "open", r.buf = <<>>, NEW n \in Nat, n > 0, r.off + n <= Len(LiveOf(s)),
         NEW u, u = [r EXCEPT !.buf = SubSeq(LiveOf(s), r.off + 1, r.off + n), !.off = r.off + n]
  PROVE  u \in Readers /\ u.at = "open" /\ MetInv(u, MetOf(u), LiveOf(s))
  <1>1. PICK L : L = LiveOf(s)
    OBVIOUS
  <1>2. /\ L \in Seq(Nat) /\ Len(L) \in Nat /\ L[1] = 1 /\ L[2] = 2 /\ Len(L) >= 2
        /\ \A i, j \in 1 .. Len(L) : L[i] = L[j] => i = j
    <2>1. Len(L) = Len(s) + 2 /\ Len(s) \in Nat
      BY <1>1, LiveIs
    <2>2. L \in Seq(Nat) /\ L[1] = 1 /\ L[2] = 2
      BY <1>1, LiveIs
    <2>3. \A i, j \in 1 .. Len(L) : L[i] = L[j] => i = j
      BY <1>1, LiveIs
    <2>4. Len(L) \in Nat /\ Len(L) >= 2
      BY <2>1
    <2> QED
      BY <2>2, <2>3, <2>4
  <1>3. PICK o \in Nat : o = r.off
    BY DEF Readers
  <1>4. PICK b : b = SubSeq(L, o + 1, o + n)
    OBVIOUS
  <1>5. o + n <= Len(L) /\ \A k \in 1 .. n : o + k \in 1 .. Len(L)
    <2>1. o + n <= Len(L)
      BY <1>1, <1>3
    <2>2. PICK l \in Nat : l = Len(L)
      BY <1>2
    <2>3. \A k \in 1 .. n : o + k \in 1 .. l
      BY <2>1, <2>2
    <2> QED
      BY <2>1, <2>2, <2>3
  <1>6. b \in Seq(Nat) /\ Len(b) = n /\ \A k \in 1 .. n : b[k] = L[o + k]
    <2>1. Slice(L, o, n, b, Nat)
      BY <1>2, <1>4, <1>5 DEF Slice
    <2> QED
      BY <2>1, SliceIs
  <1>7. /\ u.buf = b /\ u.off = o + n /\ u.got = r.got /\ u.at = "open" /\ u.first = r.first
        /\ u.made = r.made /\ u.gone = r.gone /\ u.cut = r.cut
    BY <1>1, <1>3, <1>4 DEF Readers
  <1>8. u \in Readers
    <2>1. o + n \in Nat
      OBVIOUS
    <2> QED
      BY <1>1, <1>3, <1>4, <1>6, <2>1 DEF Readers
  <1>9. PICK M : M = MetOf(r)
    OBVIOUS
  <1>10. PICK N : N = MetOf(u)
    OBVIOUS
  <1>11. M \in Seq(Nat) /\ M = r.got
    BY <1>9, MetSeq
  <1>12. MetIs(r, M, L) /\ MetOnce(r, M, L) /\ MetAll(r, M, L)
    BY <1>1, <1>9 DEF MetInv
  <1>13. Len(M) = o
    BY <1>3, <1>12 DEF MetIs
  <1>14. Joined(M, b, N, Nat)
    BY <1>6, <1>7, <1>10, <1>11 DEF Joined, MetOf
  <1>15. /\ N \in Seq(Nat) /\ Len(N) = Len(M) + Len(b)
         /\ \A k \in 1 .. Len(M) : N[k] = M[k]
         /\ \A k \in 1 .. Len(b) : N[Len(M) + k] = b[k]
    BY <1>14, JoinedSeq
  <1>16. Len(N) = o + n /\ \A k \in 1 .. o : N[k] = M[k]
    BY <1>6, <1>13, <1>15
  <1>17. ASSUME NEW k \in o + 1 .. o + n PROVE N[k] = L[k] /\ k \in 1 .. Len(L)
    <2>1. PICK j \in 1 .. n : j = k - o /\ o + j = k
      OBVIOUS
    <2>2. N[o + j] = L[o + j]
      BY <1>6, <1>13, <1>15, <2>1
    <2> QED
      BY <1>5, <2>1, <2>2
  <1>18. \A k \in 1 .. Len(N) : k \in 1 .. o \/ k \in o + 1 .. o + n
    <2>1. \A k \in 1 .. o + n : k \in 1 .. o \/ k \in o + 1 .. o + n
      OBVIOUS
    <2>2. Len(N) = o + n
      BY <1>16
    <2> QED
      BY <2>1, <2>2
  <1>19. \A k \in 1 .. Len(L) : k > 2 => L[k] \in DirNames
    <2>1. \A k \in 1 .. Len(L) : k > 2 => k - 2 \in 1 .. Len(s) /\ (k - 2) + 2 = k
      BY <1>1, LiveIs
    <2>2. \A j \in 1 .. Len(s) : L[j + 2] \in DirNames
      <3>1. \A j \in 1 .. Len(s) : L[j + 2] = s[j] /\ s[j] \in DirNames
        BY <1>1, LiveIs
      <3> QED
        BY <3>1
    <2> QED
      BY <2>1, <2>2
  <1>20. MetIs(u, N, L)
    <2>1. ASSUME NEW k \in 1 .. Len(N)
          PROVE  (IF k <= 2 THEN N[k] = k ELSE N[k] \in DirNames) /\ N[k] \in r.first \cup r.made
      <3>1. CASE k \in 1 .. o
        BY <1>12, <1>13, <1>16, <3>1 DEF MetIs
      <3>2. CASE k \in o + 1 .. o + n
        <4>1. N[k] = L[k] /\ k \in 1 .. Len(L)
          BY <1>17, <3>2
        <4>2. L[k] \in r.first \cup r.made
          BY <1>12, <4>1 DEF MetIs
        <4>3. k <= 2 => L[k] = k
          <5>1. k <= 2 => k = 1 \/ k = 2
            BY <4>1
          <5> QED
            BY <1>2, <5>1
        <4> QED
          BY <1>19, <4>1, <4>2, <4>3
      <3> QED
        BY <1>18, <3>1, <3>2
    <2> QED
      BY <1>7, <1>12, <1>16, <2>1 DEF MetIs
  <1>21. MetOnce(u, N, L)
    <2> SUFFICES ASSUME r.made = {} PROVE /\ \A i, j \in 1 .. Len(N) : N[i] = N[j] => i = j
                                          /\ \A i \in 1 .. Len(N), k \in 1 .. Len(L) : o + n < k => N[i] # L[k]
      BY <1>7 DEF MetOnce
    <2>1. /\ \A i, j \in 1 .. o : M[i] = M[j] => i = j
          /\ \A i \in 1 .. o, k \in 1 .. Len(L) : o < k => M[i] # L[k]
      BY <1>3, <1>12, <1>13 DEF MetOnce
    <2>2. ASSUME NEW i \in 1 .. Len(N), NEW k \in 1 .. Len(L), o + n < k PROVE N[i] # L[k]
      <3>1. CASE i \in 1 .. o
        <4>1. o < k
          BY <2>2
        <4> QED
          BY <1>16, <2>1, <3>1, <4>1
      <3>2. CASE i \in o + 1 .. o + n
        <4>1. N[i] = L[i] /\ i \in 1 .. Len(L) /\ i # k
          BY <1>17, <2>2, <3>2
        <4> QED
          BY <1>2, <4>1
      <3> QED
        BY <1>18, <3>1, <3>2
    <2>3. ASSUME NEW i \in 1 .. Len(N), NEW j \in 1 .. Len(N), N[i] = N[j] PROVE i = j
      <3>1. CASE i \in 1 .. o /\ j \in 1 .. o
        BY <1>16, <2>1, <2>3, <3>1
      <3>2. CASE i \in 1 .. o /\ j \in o + 1 .. o + n
        <4>1. N[j] = L[j] /\ j \in 1 .. Len(L) /\ o < j
          BY <1>17, <3>2
        <4> QED
          BY <1>16, <2>1, <2>3, <3>2, <4>1
      <3>3. CASE i \in o + 1 .. o + n /\ j \in 1 .. o
        <4>1. N[i] = L[i] /\ i \in 1 .. Len(L) /\ o < i
          BY <1>17, <3>3
        <4> QED
          BY <1>16, <2>1, <2>3, <3>3, <4>1
      <3>4. CASE i \in o + 1 .. o + n /\ j \in o + 1 .. o + n
        <4>1. N[i] = L[i] /\ i \in 1 .. Len(L)
          BY <1>17, <3>4
        <4>2. N[j] = L[j] /\ j \in 1 .. Len(L)
          BY <1>17, <3>4
        <4>3. L[i] = L[j]
          BY <2>3, <4>1, <4>2
        <4> QED
          BY <1>2, <4>1, <4>2, <4>3
      <3> QED
        BY <1>18, <3>1, <3>2, <3>3, <3>4
    <2> QED
      BY <2>2, <2>3
  <1>22. MetAll(u, N, L)
    <2> SUFFICES ASSUME r.gone = {}, NEW m \in r.first
                 PROVE  \/ \E i \in 1 .. Len(N) : N[i] = m
                        \/ \E k \in 1 .. Len(L) : o + n < k /\ L[k] = m
                        \/ r.cut
      BY <1>7 DEF MetAll
    <2>1. \/ \E i \in 1 .. o : M[i] = m
          \/ \E k \in 1 .. Len(L) : o < k /\ L[k] = m
          \/ r.cut
      BY <1>3, <1>12, <1>13 DEF MetAll
    <2>2. ASSUME NEW i \in 1 .. o, M[i] = m PROVE \E k \in 1 .. Len(N) : N[k] = m
      <3>1. i \in 1 .. Len(N) /\ N[i] = m
        BY <1>16, <2>2
      <3> QED
        BY <3>1
    <2>3. ASSUME NEW k \in 1 .. Len(L), o < k, L[k] = m, ~(o + n < k) PROVE \E i \in 1 .. Len(N) : N[i] = m
      <3>1. k \in o + 1 .. o + n /\ k \in 1 .. Len(N)
        BY <1>16, <2>3
      <3>2. N[k] = m
        BY <1>17, <2>3, <3>1
      <3> QED
        BY <3>1, <3>2
    <2> QED
      BY <2>1, <2>2, <2>3
  <1> QED
    BY <1>1, <1>7, <1>8, <1>10, <1>20, <1>21, <1>22 DEF MetInv

\* readdir returns a name that it had.
Moves(a, b, c, d, e, V) ==
  a \in Seq(V) /\ b \in Seq(V) /\ b # <<>> /\ c = Append(a, Head(b)) /\ d = Tail(b) /\ e = a \o b

LEMMA HeadMoves ==
  ASSUME NEW V, NEW a, NEW b, NEW c, NEW d, NEW e, Moves(a, b, c, d, e, V)
  PROVE  Joined(c, d, e, V)
  BY DEF Moves, Joined

LEMMA NextIs ==
  ASSUME NEW r \in Readers, NEW L, MetInv(r, MetOf(r), L), r.at = "open", r.buf # <<>>,
         NEW u, u = [r EXCEPT !.got = Append(@, Head(r.buf)), !.buf = Tail(@)]
  PROVE  u \in Readers /\ u.at = "open" /\ MetInv(u, MetOf(u), L)
  <1>1. r.got \in Seq(Nat) /\ r.buf \in Seq(Nat)
    BY DEF Readers
  <1>2. PICK a : a = r.got
    OBVIOUS
  <1>3. PICK b : b = r.buf
    OBVIOUS
  <1>4. PICK c : c = Append(a, Head(b))
    OBVIOUS
  <1>5. PICK d : d = Tail(b)
    OBVIOUS
  <1>e. PICK e : e = a \o b
    OBVIOUS
  <1>m. Moves(a, b, c, d, e, Nat)
    BY <1>1, <1>2, <1>3, <1>4, <1>5, <1>e DEF Moves
  <1>j. Joined(c, d, e, Nat)
    BY <1>m, HeadMoves
  <1>6. c \in Seq(Nat) /\ d \in Seq(Nat) /\ c \o d = a \o b
    BY <1>e, <1>j DEF Joined
  <1>7. u = [r EXCEPT !.got = c, !.buf = d]
    BY <1>2, <1>3, <1>4, <1>5
  <1>8. /\ u.got = c /\ u.buf = d /\ u.off = r.off /\ u.at = r.at /\ u.first = r.first
        /\ u.made = r.made /\ u.gone = r.gone /\ u.cut = r.cut
    BY <1>7 DEF Readers
  <1>9. u \in Readers
    BY <1>6, <1>7 DEF Readers
  <1>10. MetOf(u) = MetOf(r)
    BY <1>2, <1>3, <1>6, <1>8 DEF MetOf
  <1>11. MetInv(u, MetOf(r), L)
    BY <1>8 DEF MetInv, MetIs, MetOnce, MetAll
  <1> QED
    BY <1>8, <1>9, <1>10, <1>11

\* readdir has nothing more, or failed.
LEMMA NullIs ==
  ASSUME NEW r \in Readers, NEW L, MetInv(r, MetOf(r), L), r.at = "open", r.buf = <<>>,
         NEW u, \/ u = [r EXCEPT !.at = "null", !.cut = TRUE]
                \/ Len(L) <= r.off /\ Len(L) \in Nat /\ u = [r EXCEPT !.at = "null", !.off = r.off + 0]
  PROVE  u \in Readers /\ u.at = "null" /\ u.buf = <<>> /\ MetInv(u, MetOf(u), L)
  <1>1. r.off \in Nat
    BY DEF Readers
  <1>2. /\ u.at = "null" /\ u.off = r.off /\ u.buf = r.buf /\ u.got = r.got /\ u.first = r.first
        /\ u.made = r.made /\ u.gone = r.gone /\ (r.cut => u.cut) /\ u \in Readers
        /\ (u.cut \/ (Len(L) <= r.off /\ Len(L) \in Nat))
    <2>1. CASE u = [r EXCEPT !.at = "null", !.cut = TRUE]
      BY <2>1 DEF Readers
    <2>2. CASE Len(L) <= r.off /\ Len(L) \in Nat /\ u = [r EXCEPT !.at = "null", !.off = r.off + 0]
      <3>1. r.off + 0 = r.off
        BY <1>1
      <3>2. u = [r EXCEPT !.at = "null", !.off = r.off]
        BY <2>2, <3>1
      <3> QED
        BY <1>1, <2>2, <3>2 DEF Readers
    <2> QED
      BY <2>1, <2>2
  <1>4. PICK M : M = MetOf(r) /\ M = MetOf(u)
    BY <1>2 DEF MetOf
  <1>5. MetIs(r, M, L) /\ MetOnce(r, M, L) /\ MetAll(r, M, L)
    BY <1>4 DEF MetInv
  <1>6. MetIs(u, M, L) /\ MetOnce(u, M, L)
    BY <1>2, <1>5 DEF MetIs, MetOnce
  <1>7. MetAll(u, M, L)
    <2>1. Len(L) <= r.off /\ Len(L) \in Nat => ~\E k \in 1 .. Len(L) : r.off < k
      BY <1>1
    <2> QED
      BY <1>2, <1>5, <2>1 DEF MetAll
  <1> QED
    BY <1>2, <1>4, <1>6, <1>7 DEF MetInv

LEMMA CreateIs ==
  ASSUME NEW r \in Readers, NEW M, NEW L, NEW K, NEW n \in DirNames, MetInv(r, M, L),
         Len(L) \in Nat, Len(K) \in Nat, Grows(L, K, n), NEW u, u = [r EXCEPT !.made = @ \cup {n}]
  PROVE  MetInv(u, M, K) /\ u \in Readers
  <1>1. /\ u.at = r.at /\ u.off = r.off /\ u.first = r.first /\ u.made = r.made \cup {n}
        /\ u.gone = r.gone /\ u.cut = r.cut
    BY DEF Readers
  <1>2. u \in Readers
    BY DEF Readers
  <1>3. MetIs(u, M, K)
    <2>1. \A k \in 1 .. Len(L) : L[k] \in u.first \cup u.made
      BY <1>1 DEF MetInv, MetIs
    <2>2. \A k \in 1 .. Len(K) : K[k] \in u.first \cup u.made
      BY <1>1, <2>1 DEF Grows
    <2> QED
      BY <1>1, <2>2 DEF MetInv, MetIs
  <1>4. MetOnce(u, M, K)
    BY <1>1 DEF MetOnce
  <1>5. MetAll(u, M, K)
    <2> SUFFICES ASSUME r.gone = {}, NEW m \in r.first
                 PROVE  \/ \E i \in 1 .. Len(M) : M[i] = m
                        \/ r.at = "open" /\ \E k \in 1 .. Len(K) : r.off < k /\ K[k] = m
                        \/ r.cut
      BY <1>1 DEF MetAll
    <2>1. r.off \in Nat
      BY DEF Readers
    <2>2. ASSUME NEW k \in 1 .. Len(L), r.off < k, L[k] = m PROVE \E q \in 1 .. Len(K) : r.off < q /\ K[q] = m
      <3>1. PICK q \in 1 .. Len(K) : q >= k /\ K[q] = m
        BY <2>2 DEF Grows
      <3>2. r.off < q
        BY <2>1, <2>2, <3>1
      <3> QED
        BY <3>1, <3>2
    <2> QED
      BY <2>2 DEF MetInv, MetAll
  <1> QED
    BY <1>2, <1>3, <1>4, <1>5 DEF MetInv

LEMMA UnlinkIs ==
  ASSUME NEW r \in Readers, NEW M, NEW L, NEW K, NEW n \in DirNames, MetInv(r, M, L),
         Len(L) \in Nat, Len(K) \in Nat, Shrinks(L, K), NEW u, u = [r EXCEPT !.gone = @ \cup {n}]
  PROVE  MetInv(u, M, K) /\ u \in Readers
  <1>1. /\ u.at = r.at /\ u.off = r.off /\ u.first = r.first /\ u.made = r.made
        /\ u.gone = r.gone \cup {n} /\ u.cut = r.cut
    BY DEF Readers
  <1>2. u \in Readers
    BY DEF Readers
  <1>3. MetIs(u, M, K)
    <2>1. \A k \in 1 .. Len(L) : L[k] \in u.first \cup u.made
      BY <1>1 DEF MetInv, MetIs
    <2>2. \A k \in 1 .. Len(K) : K[k] \in u.first \cup u.made
      BY <2>1 DEF Shrinks
    <2> QED
      BY <1>1, <2>2 DEF MetInv, MetIs
  <1>4. MetOnce(u, M, K)
    <2> SUFFICES ASSUME r.made = {} PROVE /\ \A i, j \in 1 .. Len(M) : M[i] = M[j] => i = j
                                          /\ \A i \in 1 .. Len(M), k \in 1 .. Len(K) : r.off < k => M[i] # K[k]
      BY <1>1 DEF MetOnce
    <2>1. /\ \A i, j \in 1 .. Len(M) : M[i] = M[j] => i = j
          /\ \A i \in 1 .. Len(M), k \in 1 .. Len(L) : r.off < k => M[i] # L[k]
      BY DEF MetInv, MetOnce
    <2>2. r.off \in Nat
      BY DEF Readers
    <2>3. ASSUME NEW i \in 1 .. Len(M), NEW k \in 1 .. Len(K), r.off < k PROVE M[i] # K[k]
      <3>1. PICK q \in 1 .. Len(L) : q >= k /\ L[q] = K[k]
        BY DEF Shrinks
      <3>2. r.off < q
        BY <2>2, <2>3, <3>1
      <3> QED
        BY <2>1, <3>1, <3>2
    <2> QED
      BY <2>1, <2>3
  <1>5. MetAll(u, M, K)
    BY <1>1 DEF MetAll
  <1> QED
    BY <1>2, <1>3, <1>4, <1>5 DEF MetInv

LEMMA ListingInitInv == ListingInit => ListInv
  <1> SUFFICES ASSUME ListingInit PROVE ListInv
    OBVIOUS
  <1>1. PICK k \in 0 .. Cardinality(DirNames) : names \in [1 .. k -> DirNames] /\ IsInjective(names)
    BY DEF ListingInit
  <1>2. names \in Seq(DirNames) /\ Len(names) = k
    BY <1>1, Functional
  <1>3. Named(names)
    BY <1>1, <1>2 DEF Named, IsInjective
  <1>4. reader \in Readers /\ reader.at = "closed"
    <2>1. PICK e : e = <<>>
      OBVIOUS
    <2>2. reader = [at |-> "closed", off |-> 0, buf |-> e, got |-> e, first |-> {},
                    made |-> {}, gone |-> {}, cut |-> FALSE]
      BY <2>1 DEF ListingInit, ClosedDir
    <2>3. e \in Seq(Nat)
      BY <2>1
    <2> QED
      BY <2>2, <2>3 DEF Readers
  <1> QED
    BY <1>3, <1>4 DEF ListInv, ListingInit

LEMMA ListingStepInv == ListInv /\ [ListingNext]_lsvars => ListInv'
  <1> SUFFICES ASSUME ListInv, [ListingNext]_lsvars PROVE ListInv'
    OBVIOUS
  <1>1. /\ fs \in {"ram", "disk"} /\ Named(names) /\ reader \in Readers
        /\ reader.at = "null" => reader.buf = <<>>
        /\ reader.at # "closed" => MetInv(reader, MetOf(reader), LiveOf(names))
    BY DEF ListInv
  <1>2. Live = LiveOf(names)
    BY DEF Live, LiveOf
  <1>l. \A s : Named(s) => Len(LiveOf(s)) \in Nat
    <2> SUFFICES ASSUME NEW s, Named(s) PROVE Len(LiveOf(s)) \in Nat
      OBVIOUS
    <2>1. Len(LiveOf(s)) = Len(s) + 2 /\ Len(s) \in Nat
      BY LiveIs
    <2> QED
      BY <2>1
  \* A step of the reader leaves the directory alone.
  <1> DEFINE Reads == UNCHANGED <<fs, names>>
  <1>3. ASSUME Reads, reader' \in Readers, reader'.at # "closed",
               reader'.at = "null" => reader'.buf = <<>>,
               MetInv(reader', MetOf(reader'), LiveOf(names))
        PROVE  ListInv'
    BY <1>1, <1>3 DEF ListInv
  <1>4. CASE opendir
    <2>1. reader' = [ClosedDir EXCEPT !.at = "open", !.first = Range(LiveOf(names))] /\ Reads
      BY <1>2, <1>4 DEF opendir
    <2>2. reader' \in Readers /\ reader'.at = "open" /\ MetInv(reader', MetOf(reader'), LiveOf(names))
      BY <1>1, <2>1, FreshIs
    <2> QED
      BY <1>3, <2>1, <2>2
  <1>5. CASE rewinddir
    <2>1. reader' = [ClosedDir EXCEPT !.at = "open", !.first = Range(LiveOf(names))] /\ Reads
      BY <1>2, <1>5 DEF rewinddir
    <2>2. reader' \in Readers /\ reader'.at = "open" /\ MetInv(reader', MetOf(reader'), LiveOf(names))
      BY <1>1, <2>1, FreshIs
    <2> QED
      BY <1>3, <2>1, <2>2
  <1>6. CASE closedir
    <2>1. reader' = ClosedDir /\ Reads
      BY <1>6 DEF closedir
    <2>2. reader' \in Readers /\ reader'.at = "closed"
      <3>1. PICK e : e = <<>>
        OBVIOUS
      <3>2. reader' = [at |-> "closed", off |-> 0, buf |-> e, got |-> e, first |-> {},
                       made |-> {}, gone |-> {}, cut |-> FALSE]
        BY <2>1, <3>1 DEF ClosedDir
      <3>3. e \in Seq(Nat)
        BY <3>1
      <3> QED
        BY <3>2, <3>3 DEF Readers
    <2> QED
      BY <1>1, <2>1, <2>2 DEF ListInv
  <1>7. CASE ReaddirFill
    <2>1. PICK o \in Nat : o = reader.off
      BY <1>1 DEF Readers
    <2>2. PICK n \in Nat :
            /\ getdents64(o).off = o + n /\ getdents64(o).found = SubSeq(Live, o + 1, o + n)
            /\ n > 0 => o + n <= Len(Live)
            /\ n = 0 /\ ~getdents64(o).err => Len(Live) <= o
      BY <1>1, DentsIs
    <2>3. PICK g : g = getdents64(o)
      OBVIOUS
    <2>4. /\ reader.at = "open" /\ reader.buf = <<>> /\ Reads
          /\ reader' = IF g.err THEN [reader EXCEPT !.at = "null", !.cut = TRUE]
                       ELSE IF g.found = <<>> THEN [reader EXCEPT !.at = "null", !.off = g.off]
                       ELSE [reader EXCEPT !.buf = g.found, !.off = g.off]
      BY <1>7, <2>1, <2>3 DEF ReaddirFill
    <2>5. MetInv(reader, MetOf(reader), LiveOf(names))
      BY <1>1, <2>4
    <2>6. CASE g.err
      <3>1. reader' = [reader EXCEPT !.at = "null", !.cut = TRUE]
        BY <2>4, <2>6
      <3>2. reader' \in Readers /\ reader'.at = "null" /\ reader'.buf = <<>> /\ MetInv(reader', MetOf(reader'), LiveOf(names))
        BY <1>1, <2>4, <2>5, <3>1, NullIs
      <3> QED
        BY <1>3, <2>4, <3>2
    <2>7. CASE ~g.err /\ n = 0
      <3>1. g.found = <<>>
        <4>1. PICK L : L = Live
          OBVIOUS
        <4>2. L \in Seq(Nat)
          BY <1>1, <1>2, <4>1, LiveIs
        <4>3. SubSeq(L, o + 1, o + 0) = <<>>
          BY <4>2
        <4> QED
          BY <2>2, <2>3, <2>7, <4>1, <4>3
      <3>2. reader' = [reader EXCEPT !.at = "null", !.off = reader.off + 0]
        BY <2>1, <2>2, <2>3, <2>4, <2>7, <3>1
      <3>3. Len(LiveOf(names)) <= reader.off /\ Len(LiveOf(names)) \in Nat
        BY <1>1, <1>2, <1>l, <2>1, <2>2, <2>3, <2>7
      <3>4. reader' \in Readers /\ reader'.at = "null" /\ reader'.buf = <<>> /\ MetInv(reader', MetOf(reader'), LiveOf(names))
        BY <1>1, <2>4, <2>5, <3>2, <3>3, NullIs
      <3> QED
        BY <1>3, <2>4, <3>4
    <2>8. CASE ~g.err /\ n > 0
      <3>1. PICK b : b = SubSeq(LiveOf(names), o + 1, o + n)
        OBVIOUS
      <3>2. g.found = b /\ g.off = o + n
        BY <1>2, <2>2, <2>3, <3>1
      <3>3. o + n <= Len(LiveOf(names))
        BY <1>2, <2>2, <2>8
      <3>4. b # <<>>
        <4>1. Slice(LiveOf(names), o, n, b, Nat)
          BY <1>1, <3>1, <3>3, LiveIs DEF Slice
        <4>2. Len(b) = n
          BY <4>1, SliceIs
        <4> QED
          BY <2>8, <4>2
      <3>5. reader' = [reader EXCEPT !.buf = SubSeq(LiveOf(names), reader.off + 1, reader.off + n), !.off = reader.off + n]
        BY <2>1, <2>4, <2>8, <3>1, <3>2, <3>4
      <3>6. reader.off + n <= Len(LiveOf(names))
        BY <2>1, <3>3
      <3>7. reader' \in Readers /\ reader'.at = "open" /\ MetInv(reader', MetOf(reader'), LiveOf(names))
        BY <1>1, <2>4, <2>5, <2>8, <3>5, <3>6, FillIs
      <3> QED
        BY <1>3, <2>4, <3>7
    <2>9. n = 0 \/ n > 0
      OBVIOUS
    <2> QED
      BY <2>6, <2>7, <2>8, <2>9
  <1>8. CASE ReaddirNext
    <2>1. /\ reader.at = "open" /\ reader.buf # <<>> /\ Reads
          /\ reader' = [reader EXCEPT !.got = Append(@, Head(reader.buf)), !.buf = Tail(@)]
      BY <1>8 DEF ReaddirNext
    <2>2. MetInv(reader, MetOf(reader), LiveOf(names))
      BY <1>1, <2>1
    <2>3. reader' \in Readers /\ reader'.at = "open" /\ MetInv(reader', MetOf(reader'), LiveOf(names))
      BY <1>1, <2>1, <2>2, NextIs
    <2> QED
      BY <1>3, <2>1, <2>3
  <1>9. ASSUME NEW n \in DirNames, Create(n) PROVE ListInv'
    <2>1. /\ n \notin Range(names) /\ names' \in Made(n) /\ fs' = fs
          /\ reader' = IF reader.at = "closed" THEN reader ELSE [reader EXCEPT !.made = @ \cup {n}]
      BY <1>9 DEF Create
    <2>2. names \in Seq(DirNames) /\ \A k \in 1 .. Len(names) : names[k] # n
      BY <1>1, <2>1 DEF Named, Range
    <2>3. PICK i \in 1 .. Len(names) + 1 : names' = Inserted(i, n)
      <3>1. Len(names) \in Nat
        BY <2>2
      <3>2. 1 \in 1 .. Len(names) + 1
        BY <3>1
      <3> QED
        BY <2>1, <3>2 DEF Made
    <2>4. Insertion(names, n, i, names', DirNames)
      BY <2>2, <2>3 DEF Insertion, Inserted
    <2>5. Named(names') /\ Grows(LiveOf(names), LiveOf(names'), n)
      BY <1>1, <2>2, <2>4, NamedAfterInsertion
    <2>6. CASE reader.at = "closed"
      BY <1>1, <2>1, <2>5, <2>6 DEF ListInv
    <2>7. CASE reader.at # "closed"
      <3>1. reader' = [reader EXCEPT !.made = @ \cup {n}] /\ MetInv(reader, MetOf(reader), LiveOf(names))
        BY <1>1, <2>1, <2>7
      <3>2. Len(LiveOf(names)) \in Nat /\ Len(LiveOf(names')) \in Nat
        BY <1>1, <1>l, <2>5
      <3>3. MetInv(reader', MetOf(reader), LiveOf(names')) /\ reader' \in Readers
        BY <1>1, <2>5, <3>1, <3>2, CreateIs
      <3>4. MetOf(reader') = MetOf(reader) /\ reader'.at = reader.at /\ reader'.buf = reader.buf
        BY <1>1, <3>1 DEF Readers, MetOf
      <3> QED
        BY <1>1, <2>1, <2>5, <3>3, <3>4 DEF ListInv
    <2> QED
      BY <2>6, <2>7
  <1>10. ASSUME NEW n \in DirNames, Unlink(n) PROVE ListInv'
    <2>1. /\ n \in Range(names) /\ names' = Without(n) /\ fs' = fs
          /\ reader' = IF reader.at = "closed" THEN reader ELSE [reader EXCEPT !.gone = @ \cup {n}]
      BY <1>10 DEF Unlink
    <2>2. names \in Seq(DirNames) /\ DOMAIN names = 1 .. Len(names)
      BY <1>1 DEF Named
    <2>3. PICK i : i = CHOOSE j \in DOMAIN names : names[j] = n
      OBVIOUS
    <2>4. i \in 1 .. Len(names)
      <3>1. \E j \in DOMAIN names : names[j] = n
        BY <2>1 DEF Range
      <3> QED
        BY <2>2, <2>3, <3>1
    <2>5. Removal(names, i, names', DirNames)
      BY <2>1, <2>2, <2>3, <2>4 DEF Removal, Without
    <2>6. Named(names') /\ Shrinks(LiveOf(names), LiveOf(names'))
      BY <1>1, <2>5, NamedAfterRemoval
    <2>7. CASE reader.at = "closed"
      BY <1>1, <2>1, <2>6, <2>7 DEF ListInv
    <2>8. CASE reader.at # "closed"
      <3>1. reader' = [reader EXCEPT !.gone = @ \cup {n}] /\ MetInv(reader, MetOf(reader), LiveOf(names))
        BY <1>1, <2>1, <2>8
      <3>2. Len(LiveOf(names)) \in Nat /\ Len(LiveOf(names')) \in Nat
        BY <1>1, <1>l, <2>6
      <3>3. MetInv(reader', MetOf(reader), LiveOf(names')) /\ reader' \in Readers
        BY <1>1, <2>6, <3>1, <3>2, UnlinkIs
      <3>4. MetOf(reader') = MetOf(reader) /\ reader'.at = reader.at /\ reader'.buf = reader.buf
        BY <1>1, <3>1 DEF Readers, MetOf
      <3> QED
        BY <1>1, <2>1, <2>6, <3>3, <3>4 DEF ListInv
    <2> QED
      BY <2>7, <2>8
  <1>11. CASE UNCHANGED lsvars
    BY <1>1, <1>11 DEF ListInv, lsvars
  <1> QED
    BY <1>4, <1>5, <1>6, <1>7, <1>8, <1>9, <1>10, <1>11 DEF ListingNext

LEMMA ListedFollows == ListInv => ListedOnce
  <1> SUFFICES ASSUME ListInv, reader.at = "null", ~reader.cut PROVE ListedOnce
    BY DEF ListedOnce
  <1>1. /\ Named(names) /\ reader \in Readers /\ reader.buf = <<>>
        /\ MetInv(reader, MetOf(reader), LiveOf(names))
    BY DEF ListInv
  <1>2. PICK s : s = reader.got
    OBVIOUS
  <1>3. s \in Seq(Nat) /\ MetOf(reader) = s
    BY <1>1, <1>2, MetSeq DEF Readers
  <1>4. MetIs(reader, s, LiveOf(names)) /\ MetOnce(reader, s, LiveOf(names)) /\ MetAll(reader, s, LiveOf(names))
    BY <1>1, <1>3 DEF MetInv
  <1>5. DOMAIN s = 1 .. Len(s)
    BY <1>3
  <1>6. Range(s) = {s[i] : i \in 1 .. Len(s)}
    BY <1>5 DEF Range
  <1>7. reader.gone = {} => reader.first \subseteq Range(s)
    BY <1>4, <1>6 DEF MetAll
  <1>8. reader.made = {} => IsInjective(s)
    BY <1>4, <1>5 DEF MetOnce, IsInjective
  <1>9. Range(s) \subseteq reader.first \cup reader.made
    BY <1>4, <1>6 DEF MetIs
  <1>10. /\ \A i, j \in DOMAIN list_dir : i < j => list_dir[i] <= list_dir[j]
         /\ \A v \in Nat \ {0} : Count(list_dir, v) = Count(s, v)
    <2>1. \A i \in 1 .. Len(s) : IF i <= 2 THEN s[i] = i ELSE s[i] > 2
      <3>1. \A n \in DirNames : n > 2
        BY ListingAssumption
      <3> QED
        BY <1>4, <3>1 DEF MetIs
    <2> QED
      BY <1>2, <1>3, <2>1, ListIs
  <1>11. \A n \in Range(Live) : n \in Nat \ {0}
    <2>1. PICK L : L = LiveOf(names)
      OBVIOUS
    <2>2. /\ L \in Seq(Nat) /\ Len(L) = Len(names) + 2 /\ Len(names) \in Nat /\ L[1] = 1 /\ L[2] = 2
          /\ \A k \in 1 .. Len(names) : L[k + 2] = names[k] /\ names[k] \in DirNames /\ names[k] > 2
      BY <1>1, <2>1, LiveIs
    <2>3. ASSUME NEW k \in 1 .. Len(L) PROVE L[k] \in Nat \ {0}
      <3>1. k = 1 \/ k = 2 \/ k - 2 \in 1 .. Len(names)
        BY <2>2
      <3>2. CASE k - 2 \in 1 .. Len(names)
        <4>1. PICK j \in 1 .. Len(names) : j + 2 = k
          BY <2>2, <3>2
        <4>2. L[k] \in DirNames /\ L[k] > 2
          BY <2>2, <4>1
        <4>3. DirNames \subseteq Nat
          BY ListingAssumption
        <4>4. \A v \in Nat : v > 2 => v \in Nat \ {0}
          OBVIOUS
        <4> QED
          BY <4>2, <4>3, <4>4
      <3> QED
        BY <2>2, <3>1, <3>2
    <2>4. DOMAIN L = 1 .. Len(L)
      BY <2>2
    <2>5. Live = L
      BY <2>1 DEF Live, LiveOf
    <2> QED
      BY <2>3, <2>4, <2>5 DEF Range
  <1>12. \A n \in Range(Live) : Quantify(DOMAIN list_dir, LAMBDA i : list_dir[i] = n)
                                  = Quantify(DOMAIN reader.got, LAMBDA i : reader.got[i] = n)
    BY <1>2, <1>10, <1>11 DEF Quantify, Count, Holding
  <1>13. /\ reader.gone = {} => reader.first \subseteq Range(reader.got)
         /\ reader.made = {} => IsInjective(reader.got)
         /\ Range(reader.got) \subseteq reader.first \cup reader.made
    BY <1>2, <1>7, <1>8, <1>9
  <1> QED
    BY <1>10, <1>12, <1>13 DEF ListedOnce

(* A program that reads a directory to its end while others work in it     *)
(* meets every name that was there unless something was removed, none      *)
(* twice unless something was made, and ls shows the same names in order   *)
(* (sys_getdents64, readdir, list_dir): for any names and lengths of their *)
(* records, and any number of changes.                                     *)
THEOREM ListedCorrect == ListingSpec => []ListedOnce
  <1>1. ListInv => ListedOnce
    BY ListedFollows
  <1> QED
    BY <1>1, ListingInitInv, ListingStepInv, PTL DEF ListingSpec
=============================================================================
