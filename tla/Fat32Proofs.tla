----------------------------- MODULE Fat32Proofs -----------------------------
(***************************************************************************)
(* Files of the FAT never share a cluster, lose one or show what another   *)
(* file wrote, until a file is changed through a node that is out of date, *)
(* for any size of the disk and any number of files.                       *)
(*                                                                         *)
(* A chain is what a recursive function finds in the FAT.  Its definition  *)
(* is shown to have a solution, and facts about its values are shown, by   *)
(* induction, which InductionUpTo states for a set of naturals: a set of    *)
(* initial segments of Nat has a least element.                            *)
(***************************************************************************)
EXTENDS Fat32, FiniteSetTheorems, TLAPS

-----------------------------------------------------------------------------
(* The inductive invariant *)

FATs == [0 .. MaxCluster -> 0 .. EOC]

\* s is the whole chain that starts at cluster c, the empty one if c is 0.
IsChain(F, c, s) ==
  /\ s \in Seq(Clusters)
  /\ IF c = 0 THEN s = <<>>
     ELSE /\ s # <<>> /\ s[1] = c /\ F[s[Len(s)]] = EOC
          /\ \A i \in 1 .. Len(s) - 1 : F[s[i]] = s[i + 1]
          /\ \A i, j \in 1 .. Len(s) : s[i] = s[j] => i = j

\* Chain, in any FAT.
Walk(F, c) == IF c = 0 THEN <<>> ELSE ChainOf(F, c, MaxCluster + 1)
Held(F, c) == ToSet(Walk(F, c))

\* Who may hold a chain: an entry, or the node of an open file whose first
\* write ran out of clusters; the entry does not know of the chain then.
EntryOf(s) == <<s, "entry">>
NodeOf(h) == <<h, "node">>
Keys == {EntryOf(s) : s \in Slots} \cup {NodeOf(h) : h \in Handles}

\* The first cluster of each, in a directory D and with nodes N.
Starts(D, N) ==
  [k \in Keys |-> IF k[2] = "entry" THEN D[k[1]].cluster
                  ELSE IF N[k[1]] # NULL /\ N[k[1]].size = 0 THEN N[k[1]].cluster ELSE 0]

\* The holders' chains are whole and apart.
Lay(F, st) ==
  /\ \A k \in Keys : IsChain(F, st[k], Walk(F, st[k]))
  /\ \A j, k \in Keys : j # k => Held(F, st[j]) \cap Held(F, st[k]) = {}

\* What has a cluster has a size, and the other way round.
Entries(F, D) ==
  \A s \in Slots :
    /\ D[s].name = NULL => D[s] = FreeSlot
    /\ D[s].size = 0 <=> D[s].cluster = 0
    /\ CeilDiv(D[s].size, CS) <= Len(Walk(F, D[s].cluster))

Tags(F, T, D, N) ==
  /\ \A s \in Slots : \A c \in Held(F, D[s].cluster) : T[c] \in {0, D[s].id}
  /\ \A h \in Handles : \A c \in Held(F, Starts(D, N)[NodeOf(h)]) : T[c] = 0

Sound(F, T, D, N) == Lay(F, Starts(D, N)) /\ Entries(F, D) /\ Tags(F, T, D, N)

\* Until a call runs out of clusters.
Exact(F, D, N) ==
  /\ \A h \in Handles : Starts(D, N)[NodeOf(h)] = 0
  /\ \A c \in Clusters : F[c] # 0 => \E s \in Slots : c \in Held(F, D[s].cluster)
  /\ \A s \in Slots : Len(Walk(F, D[s].cluster)) = CeilDiv(D[s].size, CS)

\* An entry with a name has its file's number.
Named == \A s \in Slots : dir[s].name # NULL => dir[s].id # 0

FatInv ==
  /\ FatTypeOK /\ Named
  /\ ~stray => Sound(fat, tag, dir, node)
  /\ ~stray /\ ~failed => Exact(fat, dir, node)
-----------------------------------------------------------------------------
(* Induction and functions defined by recursion *)

\* A set of naturals has a least element.
LEMMA LeastNat ==
  ASSUME NEW S \in SUBSET Nat, S # {}
  PROVE  \E n \in S : \A m \in S : n <= m
  <1> DEFINE U == {0 .. n : n \in S}
  <1>1. U \subseteq FiniteSubsetsOf(Nat)
    <2> SUFFICES ASSUME NEW n \in S PROVE 0 .. n \in FiniteSubsetsOf(Nat)
      OBVIOUS
    <2> QED
      BY FS_Interval DEF FiniteSubsetsOf
  <1>2. PICK u \in U : \A v \in U : <<v, u>> \notin StrictSubsetOrdering(Nat)
    <2>1. U # {}
      OBVIOUS
    <2> HIDE DEF U
    <2> QED
      BY <1>1, <2>1, FS_StrictSubsetOrderingWellFounded, WFMin
  <1>3. PICK n \in S : u = 0 .. n
    OBVIOUS
  <1>4. ASSUME NEW m \in S, m < n PROVE FALSE
    <2>1. 0 .. m \in U /\ n \notin 0 .. m /\ n \in u /\ 0 .. m \subseteq u
      BY <1>3, <1>4
    <2>2. <<0 .. m, u>> \in StrictSubsetOrdering(Nat)
      BY <2>1, <1>3 DEF StrictSubsetOrdering
    <2> QED
      BY <1>2, <2>1, <2>2
  <1> QED
    BY <1>3, <1>4

\* Induction up to n, for the numbers of a set P.
LEMMA InductionUpTo ==
  ASSUME NEW n \in Nat, NEW P \in SUBSET Nat, 0 \in P, \A i \in 0 .. n - 1 : i \in P => i + 1 \in P
  PROVE  \A i \in 0 .. n : i \in P
  <1> SUFFICES ASSUME NEW b \in 0 .. n, b \notin P PROVE FALSE
    OBVIOUS
  <1> DEFINE S == {i \in 0 .. n : i \notin P}
  <1>1. S \in SUBSET Nat /\ S # {}
    OBVIOUS
  <1>2. PICK i \in S : \A j \in S : i <= j
    <2> HIDE DEF S
    <2> QED
      BY <1>1, LeastNat
  <1>3. i # 0 /\ i - 1 \in 0 .. n - 1 /\ i - 1 \in 0 .. n /\ (i - 1) + 1 = i
    BY <1>2
  <1>4. i - 1 \in P
    BY <1>2, <1>3
  <1> QED
    BY <1>2, <1>3, <1>4

\* f starts with c and goes on with G.
Iterates(f, S, G, c, a, b) ==
  f \in [a .. b -> S] /\ f[a] = c /\ \A i \in a + 1 .. b : f[i] = G[f[i - 1]]

LEMMA Iterate ==
  ASSUME NEW S, NEW G \in [S -> S], NEW c \in S, NEW a \in Nat, NEW b \in Nat, a <= b
  PROVE  \E f : Iterates(f, S, G, c, a, b)
  <1> DEFINE Sol(f, m) == /\ f \in [a .. a + m -> S] /\ f[a] = c
                          /\ \A i \in a + 1 .. a + m : f[i] = G[f[i - 1]]
             P == {m \in Nat : \E f : Sol(f, m)}
  <1>1. 0 \in P
    <2>1. Sol([i \in a .. a + 0 |-> c], 0)
      OBVIOUS
    <2> HIDE DEF Sol
    <2> QED
      BY <2>1
  <1>2. ASSUME NEW m \in Nat, m \in P PROVE m + 1 \in P
    <2>1. PICK f : Sol(f, m)
      BY <1>2
    <2> DEFINE g == [i \in a .. a + (m + 1) |-> IF i = a + (m + 1) THEN G[f[a + m]] ELSE f[i]]
    <2>2. \A i \in a .. a + m : i \in a .. a + (m + 1) /\ g[i] = f[i] /\ f[i] \in S
      BY <2>1
    <2>3. g[a + (m + 1)] = G[f[a + m]] /\ G[f[a + m]] \in S
      BY <2>2
    <2>4. g \in [a .. a + (m + 1) -> S]
      BY <2>2, <2>3
    <2>5. g[a] = c
      BY <2>1, <2>2
    <2>6. ASSUME NEW i \in a + 1 .. a + (m + 1) PROVE g[i] = G[g[i - 1]]
      <3>1. i - 1 \in a .. a + m /\ g[i - 1] = f[i - 1]
        BY <2>2
      <3>2. CASE i = a + (m + 1)
        BY <2>3, <3>1, <3>2
      <3>3. CASE i # a + (m + 1)
        <4>1. i \in a + 1 .. a + m /\ i \in a .. a + m
          BY <3>3
        <4> QED
          BY <2>1, <2>2, <3>1, <4>1
      <3> QED
        BY <3>2, <3>3
    <2>7. Sol(g, m + 1)
      BY <2>4, <2>5, <2>6
    <2> HIDE DEF Sol
    <2> QED
      BY <2>7
  <1>3. \A m \in 0 .. b - a : m \in P
    <2> DEFINE n == b - a
    <2>1. n \in Nat
      OBVIOUS
    <2>0. P \in SUBSET Nat
      OBVIOUS
    <2> HIDE DEF P, n
    <2>2. \A m \in 0 .. n - 1 : m \in P => m + 1 \in P
      BY <1>2, <2>1
    <2>3. \A m \in 0 .. n : m \in P
      BY ONLY <1>1, <2>0, <2>1, <2>2, InductionUpTo
    <2> QED
      BY <2>3 DEF n
  <1>4. b - a \in P /\ a + (b - a) = b
    <2>1. b - a \in 0 .. b - a /\ a + (b - a) = b
      OBVIOUS
    <2> HIDE DEF P
    <2> QED
      BY <1>3, <2>1
  <1>5. PICK f : Sol(f, b - a)
    BY <1>4
  <1> QED
    BY <1>4, <1>5 DEF Iterates

\* What satisfies the same equations has the same values.
LEMMA Unrolled ==
  ASSUME NEW S, NEW G \in [S -> S], NEW c \in S, NEW a \in Nat, NEW b \in Nat, a <= b,
         NEW f, f[a] = c, \A i \in a + 1 .. b : f[i - 1] \in S => f[i] = G[f[i - 1]]
  PROVE  \A i \in a .. b : f[i] \in S
  <1> DEFINE P == {i \in Nat : a + i <= b => f[a + i] \in S}
             n == b - a
  <1>1. 0 \in P
    BY a + 0 = a
  <1>2. ASSUME NEW i \in 0 .. n - 1, i \in P PROVE i + 1 \in P
    <2>1. a + (i + 1) \in a + 1 .. b /\ (a + (i + 1)) - 1 = a + i /\ a + i <= b /\ i + 1 \in Nat
      OBVIOUS
    <2>2. f[a + i] \in S
      BY <1>2, <2>1
    <2>3. f[a + (i + 1)] = G[f[a + i]]
      BY <2>1, <2>2
    <2> QED
      BY <2>1, <2>2, <2>3
  <1>3. n \in Nat /\ P \in SUBSET Nat /\ \A i \in a .. b : i - a \in 0 .. n /\ a + (i - a) = i /\ i <= b
    OBVIOUS
  <1> HIDE DEF n
  <1>4. \A i \in 0 .. n : i \in P
    <2> HIDE DEF P
    <2> QED
      BY ONLY <1>1, <1>2, <1>3, InductionUpTo
  <1> QED
    <2> SUFFICES ASSUME NEW i \in a .. b PROVE f[i] \in S
      OBVIOUS
    <2>1. i - a \in P
      BY <1>3, <1>4
    <2> QED
      BY <1>3, <2>1

\* met of ChainOf is what Iterate finds.
LEMMA Met ==
  ASSUME NEW F \in FATs, NEW c \in 0 .. MaxCluster, NEW n \in Nat \ {0}
  PROVE  \E met : /\ ChainOf(F, c, n) = met[n]
                  /\ met[1] = <<c>>
                  /\ \A i \in 1 .. n : met[i] \in Seq(0 .. MaxCluster) /\ met[i] # <<>>
                  /\ \A i \in 2 .. n : met[i] = IF F[Last(met[i - 1])] >= EOC THEN met[i - 1]
                                                ELSE Append(met[i - 1], F[Last(met[i - 1])])
  <1> DEFINE S == Seq(0 .. MaxCluster) \ {<<>>}
             G == [s \in S |-> IF F[Last(s)] >= EOC THEN s ELSE Append(s, F[Last(s)])]
             Rec(g) == [i \in 1 .. n |->
                          IF i = 1 THEN <<c>>
                          ELSE LET s == g[i - 1]
                               IN  IF F[Last(s)] >= EOC THEN s ELSE Append(s, F[Last(s)])]
             met == CHOOSE g : g = Rec(g)
  <1>1. ChainOf(F, c, n) = met[n]
    BY DEF ChainOf
  <1>2. G \in [S -> S]
    <2> SUFFICES ASSUME NEW s \in S
                 PROVE  (IF F[Last(s)] >= EOC THEN s ELSE Append(s, F[Last(s)])) \in S
      OBVIOUS
    <2>1. Last(s) \in 0 .. MaxCluster
      <3>1. s \in Seq(0 .. MaxCluster) /\ s # <<>> /\ MaxCluster \in Int
        BY FatAssumption
      <3>2. s[Len(s)] \in 0 .. MaxCluster
        BY ONLY <3>1
      <3> QED
        BY <3>2 DEF Last
    <2>2. F[Last(s)] \in 0 .. EOC
      BY <2>1 DEF FATs
    <2>3. ~(F[Last(s)] >= EOC) => F[Last(s)] \in 0 .. MaxCluster
      BY <2>2, FatAssumption DEF EOC
    <2> QED
      BY <2>3
  <1>3. <<c>> \in S
    OBVIOUS
  <1>4. PICK f \in [1 .. n -> S] : f[1] = <<c>> /\ \A i \in 1 + 1 .. n : f[i] = G[f[i - 1]]
    <2> DEFINE d == <<c>>
               a == 1
    <2>1. a \in Nat /\ n \in Nat /\ a <= n /\ d \in S
      BY <1>3
    <2> HIDE DEF S, G, d, a
    <2>2. \E f : Iterates(f, S, G, d, a, n)
      BY ONLY <1>2, <2>1, Iterate
    <2> QED
      BY <2>2 DEF d, a, Iterates
  <1>5. \A i \in 2 .. n : f[i] = IF F[Last(f[i - 1])] >= EOC THEN f[i - 1]
                                 ELSE Append(f[i - 1], F[Last(f[i - 1])])
    <2> SUFFICES ASSUME NEW i \in 2 .. n
                 PROVE  f[i] = IF F[Last(f[i - 1])] >= EOC THEN f[i - 1]
                               ELSE Append(f[i - 1], F[Last(f[i - 1])])
      OBVIOUS
    <2>1. i - 1 \in 1 .. n /\ i \in 1 + 1 .. n
      OBVIOUS
    <2> HIDE DEF S
    <2>2. f[i - 1] \in S /\ f[i] = G[f[i - 1]]
      BY <1>4, <2>1
    <2> QED
      BY <2>2
  <1> HIDE DEF S
  <1> HIDE DEF G
  <1>6. f = Rec(f)
    <2>1. DOMAIN f = 1 .. n
      BY <1>4
    <2>2. ASSUME NEW i \in 1 .. n PROVE f[i] = Rec(f)[i]
      <3>1. CASE i = 1
        BY <1>4, <3>1
      <3>2. CASE i # 1
        <4>1. i \in 2 .. n
          BY <3>2
        <4> QED
          BY <1>5, <3>2, <4>1
      <3> QED
        BY <3>1, <3>2
    <2> QED
      BY <1>4, <2>1, <2>2
  <1>7. met = Rec(met)
    <2> HIDE DEF Rec
    <2> QED
      BY <1>6
  <1>8. /\ met[1] = <<c>>
        /\ \A i \in 2 .. n : met[i] = IF F[Last(met[i - 1])] >= EOC THEN met[i - 1]
                                      ELSE Append(met[i - 1], F[Last(met[i - 1])])
    <2> HIDE DEF met
    <2>1. 1 \in 1 .. n /\ \A i \in 2 .. n : i \in 1 .. n /\ i # 1
      OBVIOUS
    <2>2. met[1] = Rec(met)[1] /\ \A i \in 2 .. n : met[i] = Rec(met)[i]
      BY <1>7
    <2> QED
      BY <2>1, <2>2
  <1> HIDE DEF met, Rec
  <1>9. \A i \in 1 .. n : met[i] \in S
    <2> DEFINE d == <<c>>
               a == 1
    <2>1. a \in Nat /\ n \in Nat /\ a <= n /\ d \in S /\ met[a] = d
      BY <1>3, <1>8
    <2>2. \A i \in a + 1 .. n : met[i - 1] \in S => met[i] = G[met[i - 1]]
      <3>1. a + 1 = 2
        OBVIOUS
      <3> QED
        BY <1>8, <3>1 DEF G
    <2>3. \A i \in a .. n : met[i] \in S
      <3> HIDE DEF S, G, d, a
      <3> QED
        BY ONLY <1>2, <2>1, <2>2, Unrolled
    <2> QED
      BY <2>3
  <1> QED
    BY <1>1, <1>8, <1>9 DEF S
-----------------------------------------------------------------------------
(* Chains *)

LEMMA Numbers ==
  /\ MaxCluster \in Nat /\ MaxCluster >= 2 /\ EOC = MaxCluster + 1
  /\ Clusters \subseteq 0 .. MaxCluster /\ Clusters \subseteq 0 .. EOC /\ 0 \notin Clusters
  /\ \A c \in Clusters \cup {0} : c \in 0 .. MaxCluster
  /\ 0 \in 0 .. EOC
  /\ \A c \in Clusters : c \in Nat /\ c < EOC /\ c >= 2
  BY FatAssumption DEF EOC, Clusters

\* What the facts about a chain amount to.
LEMMA ChainFacts ==
  ASSUME NEW F, NEW c \in Clusters \cup {0}, NEW s, IsChain(F, c, s)
  PROVE  /\ Len(s) \in Nat /\ s \in [1 .. Len(s) -> Clusters]
         /\ c = 0 <=> Len(s) = 0
         /\ c # 0 => s[1] = c /\ 1 \in 1 .. Len(s) /\ Len(s) \in 1 .. Len(s)
         /\ \A i \in 1 .. Len(s) : s[i] \in Clusters
         /\ ToSet(s) = {s[i] : i \in 1 .. Len(s)} /\ ToSet(s) \subseteq Clusters
  <1>1. s \in Seq(Clusters)
    BY DEF IsChain
  <1>2. Len(s) \in Nat /\ s \in [1 .. Len(s) -> Clusters] /\ DOMAIN s = 1 .. Len(s)
    BY <1>1
  <1>3. c # 0 => s # <<>> /\ s[1] = c
    BY DEF IsChain
  <1>4. s # <<>> => Len(s) # 0
    BY <1>1
  <1>5. c = 0 => Len(s) = 0
    BY DEF IsChain
  <1>6. c # 0 => 1 \in 1 .. Len(s) /\ Len(s) \in 1 .. Len(s)
    BY <1>2, <1>3, <1>4
  <1> QED
    BY <1>2, <1>3, <1>4, <1>5, <1>6 DEF ToSet

\* A chain is no longer than the disk has clusters.
LEMMA ChainShort ==
  ASSUME NEW F, NEW c \in Clusters \cup {0}, NEW s, IsChain(F, c, s)
  PROVE  Len(s) < MaxCluster
  <1>1. CASE c = 0
    <2>1. Len(s) = 0
      BY <1>1, ChainFacts
    <2> QED
      BY <2>1, Numbers
  <1>2. CASE c # 0
    <2>1. Len(s) \in Nat /\ s \in [1 .. Len(s) -> Clusters]
      BY ChainFacts
    <2>2. \A i, j \in 1 .. Len(s) : s[i] = s[j] => i = j
      BY <1>2 DEF IsChain
    <2>3. s \in Injection(1 .. Len(s), Clusters)
      BY <2>1, <2>2 DEF Injection, IsInjective
    <2>4. IsFiniteSet(Clusters) /\ Cardinality(Clusters) = MaxCluster - 1
      <3> DEFINE a == 2
      <3>1. a \in Int /\ MaxCluster \in Int /\ a <= MaxCluster /\ Clusters = a .. MaxCluster
        BY Numbers DEF Clusters
      <3> HIDE DEF a
      <3>2. IsFiniteSet(Clusters) /\ Cardinality(Clusters) = MaxCluster - a + 1
        BY <3>1, FS_Interval
      <3> QED
        BY <3>1, <3>2 DEF a
    <2>5. IsFiniteSet(1 .. Len(s)) /\ Cardinality(1 .. Len(s)) = Len(s)
      BY <2>1, FS_Interval
    <2>6. Cardinality(1 .. Len(s)) <= Cardinality(Clusters)
      BY <2>3, <2>4, <2>5, FS_Injection
    <2> QED
      BY <2>1, <2>4, <2>5, <2>6, Numbers
  <1> QED
    BY <1>1, <1>2

\* A chain stays one while the entries of its clusters do.
LEMMA ChainFrame ==
  ASSUME NEW F, NEW G, NEW c \in Clusters \cup {0}, NEW s, IsChain(F, c, s),
         \A x \in ToSet(s) : G[x] = F[x]
  PROVE  IsChain(G, c, s)
  <1>1. \A i \in 1 .. Len(s) : G[s[i]] = F[s[i]]
    BY ChainFacts
  <1>2. Len(s) \in Nat /\ (c # 0 => Len(s) \in 1 .. Len(s))
    BY ChainFacts
  <1>3. \A i \in 1 .. Len(s) - 1 : i \in 1 .. Len(s)
    BY <1>2
  <1> QED
    BY <1>1, <1>2, <1>3 DEF IsChain

\* The first k elements of s.
Pre(s, k) == [i \in 1 .. k |-> s[i]]

\* ChainOf finds the first n clusters of a chain, or all.
LEMMA ChainOfIs ==
  ASSUME NEW F \in FATs, NEW c \in Clusters, NEW s, IsChain(F, c, s), NEW n \in Nat \ {0}
  PROVE  ChainOf(F, c, n) = Pre(s, IF n <= Len(s) THEN n ELSE Len(s))
  <1> DEFINE short(i) == IF i <= Len(s) THEN i ELSE Len(s)
  <1>1. /\ Len(s) \in Nat \ {0} /\ s \in [1 .. Len(s) -> Clusters] /\ s[1] = c
        /\ F[s[Len(s)]] = EOC /\ \A i \in 1 .. Len(s) - 1 : F[s[i]] = s[i + 1]
        /\ c \in 0 .. MaxCluster /\ c # 0
    BY ChainFacts, Numbers DEF IsChain
  <1>2. PICK met : /\ ChainOf(F, c, n) = met[n]
                   /\ met[1] = <<c>>
                   /\ \A i \in 1 .. n : met[i] \in Seq(0 .. MaxCluster) /\ met[i] # <<>>
                   /\ \A i \in 2 .. n : met[i] = IF F[Last(met[i - 1])] >= EOC THEN met[i - 1]
                                                 ELSE Append(met[i - 1], F[Last(met[i - 1])])
    BY <1>1, Met
  <1>3. \A k \in 1 .. Len(s) : /\ Pre(s, k) \in Seq(Clusters) /\ Len(Pre(s, k)) = k
                               /\ Last(Pre(s, k)) = s[k]
    <2> SUFFICES ASSUME NEW k \in 1 .. Len(s)
                 PROVE  /\ Pre(s, k) \in Seq(Clusters) /\ Len(Pre(s, k)) = k
                        /\ Last(Pre(s, k)) = s[k]
      OBVIOUS
    <2>1. Pre(s, k) \in [1 .. k -> Clusters] /\ k \in Nat /\ k \in 1 .. k
      BY <1>1 DEF Pre
    <2>2. Pre(s, k) \in Seq(Clusters) /\ Len(Pre(s, k)) = k
      BY <2>1
    <2> QED
      BY <2>1, <2>2 DEF Last, Pre
  <1> DEFINE P == {i \in Nat : i + 1 \in 1 .. n => met[i + 1] = Pre(s, short(i + 1))}
             m == n - 1
  <1>4. 0 \in P
    <2>1. Pre(s, 1) = <<c>>
      BY <1>1 DEF Pre
    <2> QED
      BY <1>1, <1>2, <2>1
  <1>5. ASSUME NEW i \in 0 .. m - 1, i \in P PROVE i + 1 \in P
    <2>1. i + 2 \in 2 .. n /\ (i + 2) - 1 = i + 1 /\ i + 1 \in 1 .. n /\ (i + 1) + 1 = i + 2
      OBVIOUS
    <2>2. met[i + 1] = Pre(s, short(i + 1))
      BY <1>5, <2>1
    <2>3. met[i + 2] = IF F[Last(met[i + 1])] >= EOC THEN met[i + 1]
                       ELSE Append(met[i + 1], F[Last(met[i + 1])])
      BY <1>2, <2>1
    <2>4. CASE i + 1 >= Len(s)
      <3>1. short(i + 1) = Len(s) /\ short(i + 2) = Len(s) /\ Len(s) \in 1 .. Len(s)
        <4> DEFINE l == Len(s)
        <4>1. l \in Nat \ {0} /\ i + 1 >= l /\ i \in Nat
          BY <1>1, <2>4
        <4> HIDE DEF l
        <4>2. i + 2 >= l /\ l \in 1 .. l /\ (i + 1 <= l => i + 1 = l) /\ (i + 2 <= l => i + 2 = l)
          BY <4>1
        <4> QED
          BY <4>2 DEF l
      <3>2. F[Last(met[i + 1])] = EOC
        BY <1>1, <1>3, <2>2, <3>1
      <3>3. met[i + 2] = met[i + 1]
        BY <2>3, <3>2, Numbers
      <3> QED
        BY <2>1, <2>2, <3>1, <3>3
    <2>5. CASE i + 1 < Len(s)
      <3>1. /\ short(i + 1) = i + 1 /\ short(i + 2) = i + 2 /\ i + 1 \in 1 .. Len(s) - 1
            /\ i + 1 \in 1 .. Len(s) /\ i + 2 \in 1 .. Len(s)
        BY <1>1, <2>5
      <3>2. F[Last(met[i + 1])] = s[i + 2] /\ s[i + 2] \in Clusters
        BY <1>1, <1>3, <2>1, <2>2, <3>1
      <3>5. s[i + 2] < EOC /\ s[i + 2] \in Nat /\ EOC \in Nat
        <4> DEFINE x == s[i + 2]
        <4>1. x \in Clusters
          BY <3>2
        <4> HIDE DEF x
        <4>2. x < EOC /\ x \in Nat /\ EOC \in Nat
          BY <4>1, Numbers
        <4> QED
          BY <4>2 DEF x
      <3>6. ~(s[i + 2] >= EOC)
        BY <3>5
      <3>3. met[i + 2] = Append(met[i + 1], s[i + 2])
        BY <2>3, <3>2, <3>6
      <3>4. Append(Pre(s, i + 1), s[i + 2]) = Pre(s, i + 2)
        <4>1. Pre(s, i + 1) \in Seq(Clusters) /\ Len(Pre(s, i + 1)) = i + 1
          BY <1>3, <3>1
        <4> QED
          BY <2>1, <3>2, <4>1 DEF Pre
      <3> QED
        BY <2>1, <2>2, <3>1, <3>3, <3>4
    <2> QED
      BY <1>1, <2>4, <2>5
  <1>6. P \in SUBSET Nat /\ m \in Nat /\ m + 1 = n
    OBVIOUS
  <1>7. \A i \in 0 .. m : i \in P
    <2> HIDE DEF P, m
    <2> QED
      BY ONLY <1>4, <1>5, <1>6, InductionUpTo
  <1>8. m \in P /\ m + 1 \in 1 .. n
    BY <1>6, <1>7
  <1>9. met[n] = Pre(s, short(n))
    BY <1>6, <1>8
  <1> QED
    BY <1>2, <1>9

LEMMA PreAll == \A s : \A A : s \in Seq(A) => Pre(s, Len(s)) = s
  BY DEF Pre

\* Walk finds the chain.
LEMMA WalkIs ==
  ASSUME NEW F \in FATs, NEW c \in Clusters \cup {0}, NEW s, IsChain(F, c, s)
  PROVE  Walk(F, c) = s /\ Held(F, c) = ToSet(s)
  <1>1. CASE c = 0
    BY <1>1 DEF Walk, Held, IsChain
  <1>2. CASE c # 0
    <2>1. Len(s) < MaxCluster /\ Len(s) \in Nat /\ MaxCluster + 1 \in Nat \ {0}
      BY ChainShort, ChainFacts, Numbers
    <2>2. ChainOf(F, c, MaxCluster + 1) = Pre(s, Len(s))
      <3> DEFINE n == MaxCluster + 1
      <3>1. n \in Nat \ {0} /\ ~(n <= Len(s)) /\ c \in Clusters
        BY <1>2, <2>1, Numbers
      <3> HIDE DEF n
      <3>2. ChainOf(F, c, n) = Pre(s, IF n <= Len(s) THEN n ELSE Len(s))
        BY <3>1, ChainOfIs
      <3> QED
        BY <3>1, <3>2 DEF n
    <2>3. s \in Seq(Clusters)
      BY DEF IsChain
    <2>4. Pre(s, Len(s)) = s
      BY <2>3, PreAll
    <2> QED
      BY <1>2, <2>2, <2>4 DEF Walk, Held
  <1> QED
    BY <1>1, <1>2
-----------------------------------------------------------------------------
(* Taking a cluster *)

\* A disk as a call sees it, when there have been n files.
Disks(n) == [fat : FATs, tag : [0 .. MaxCluster -> 0 .. n], hint : 2 .. EOC, ok : BOOLEAN]

LEMMA FreeClusterIs ==
  ASSUME NEW n \in Nat, NEW d \in Disks(n)
  PROVE  /\ FreeCluster(d) \in Clusters \cup {0}
         /\ FreeCluster(d) # 0 => d.fat[FreeCluster(d)] = 0
  <1> DEFINE from(a) == {c \in Clusters : c >= a /\ d.fat[c] = 0}
             least(S) == CHOOSE c \in S : \A b \in S : c <= b
  <1>1. \A a : from(a) # {} => least(from(a)) \in from(a)
    <2> SUFFICES ASSUME NEW a, from(a) # {} PROVE least(from(a)) \in from(a)
      OBVIOUS
    <2>1. from(a) \in SUBSET Nat
      BY Numbers
    <2>2. \E c \in from(a) : \A b \in from(a) : c <= b
      <3> HIDE DEF from
      <3> QED
        BY <2>1, LeastNat
    <2> HIDE DEF from
    <2> QED
      BY <2>2
  <1>2. FreeCluster(d) = IF from(d.hint) # {} THEN least(from(d.hint))
                         ELSE IF from(2) # {} THEN least(from(2)) ELSE 0
    BY DEF FreeCluster
  <1> HIDE DEF least
  <1>3. FreeCluster(d) # 0 => FreeCluster(d) \in from(d.hint) \cup from(2)
    BY <1>1, <1>2
  <1> QED
    BY <1>3

LEMMA TakeIs ==
  ASSUME NEW n \in Nat, NEW d \in Disks(n), NEW c \in Clusters
  PROVE  /\ Take(d, c) \in Disks(n)
         /\ Take(d, c).fat = [d.fat EXCEPT ![c] = EOC]
         /\ Take(d, c).tag = [d.tag EXCEPT ![c] = 0]
         /\ Take(d, c).ok = d.ok
  <1>1. c \in 0 .. MaxCluster /\ c + 1 \in 2 .. EOC /\ EOC \in 0 .. EOC /\ 0 \in 0 .. n
    BY Numbers
  <1> QED
    BY <1>1 DEF Disks, Take, FATs

\* e is d with the free cluster x linked behind last, or without one.
Extended(d, last, x, e) ==
  /\ e.ok => /\ d.ok /\ x \in Clusters /\ d.fat[x] = 0
             /\ e.fat = [d.fat EXCEPT ![x] = EOC, ![last] = x]
             /\ e.tag = [d.tag EXCEPT ![x] = 0]
  /\ ~e.ok => e.fat = d.fat /\ e.tag = d.tag

LEMMA ExtendIs ==
  ASSUME NEW n \in Nat, NEW d \in Disks(n), NEW last \in 0 .. MaxCluster
  PROVE  Extend(d, last) \in Disks(n) /\ Extended(d, last, FreeCluster(d), Extend(d, last))
  <1> DEFINE c == FreeCluster(d)
             e == Extend(d, last)
             t == Take(d, c)
  <1>1. c \in Clusters \cup {0} /\ (c # 0 => d.fat[c] = 0)
    BY FreeClusterIs
  <1>2. e = IF ~d.ok \/ c = 0 THEN [d EXCEPT !.ok = FALSE] ELSE [t EXCEPT !.fat[last] = c]
    BY DEF Extend
  <1>3. c # 0 => /\ t \in Disks(n) /\ t.fat = [d.fat EXCEPT ![c] = EOC]
                 /\ t.tag = [d.tag EXCEPT ![c] = 0] /\ t.ok = d.ok
    BY <1>1, TakeIs
  <1>4. c # 0 => c \in 0 .. EOC
    <2> HIDE DEF c
    <2> QED
      BY <1>1, Numbers
  <1> HIDE DEF c, e, t
  <1>5. CASE ~d.ok \/ c = 0
    BY <1>2, <1>5 DEF c, e, Disks, Extended
  <1>6. CASE ~(~d.ok \/ c = 0)
    <2>1. e = [t EXCEPT !.fat[last] = c] /\ t \in Disks(n) /\ d.ok /\ c # 0
      BY <1>2, <1>3, <1>6
    <2>2. e.fat = [t.fat EXCEPT ![last] = c] /\ e.tag = t.tag /\ e.ok
      BY <1>3, <2>1 DEF Disks
    <2>3. e \in Disks(n)
      BY <1>4, <2>1 DEF Disks, FATs
    <2> QED
      BY <1>1, <1>3, <2>1, <2>2, <2>3 DEF c, e, Extended
  <1> QED
    BY <1>5, <1>6
-----------------------------------------------------------------------------
(* fat32_ensure_chain *)

LEMMA ChainOfType ==
  ASSUME NEW F \in FATs, NEW c \in 0 .. MaxCluster, NEW n \in Nat \ {0}
  PROVE  Len(ChainOf(F, c, n)) \in 1 .. n /\ Last(ChainOf(F, c, n)) \in 0 .. MaxCluster
  <1>1. PICK met : /\ ChainOf(F, c, n) = met[n]
                   /\ met[1] = <<c>>
                   /\ \A i \in 1 .. n : met[i] \in Seq(0 .. MaxCluster) /\ met[i] # <<>>
                   /\ \A i \in 2 .. n : met[i] = IF F[Last(met[i - 1])] >= EOC THEN met[i - 1]
                                                 ELSE Append(met[i - 1], F[Last(met[i - 1])])
    BY Met
  <1> DEFINE P == {i \in Nat : i + 1 \in 1 .. n => Len(met[i + 1]) <= i + 1}
             m == n - 1
  <1>2. 0 \in P
    <2>1. Len(met[1]) = 1
      BY <1>1
    <2>2. ASSUME NEW i, i = 0 PROVE Len(met[i + 1]) <= i + 1
      <3>1. i + 1 = 1
        BY <2>2
      <3>2. Len(met[1]) <= 1
        BY <2>1
      <3> QED
        BY <3>1, <3>2, Zenon
    <2> QED
      BY <2>2
  <1>3. ASSUME NEW i \in 0 .. m - 1, i \in P PROVE i + 1 \in P
    <2>1. i + 2 \in 2 .. n /\ (i + 2) - 1 = i + 1 /\ i + 1 \in 1 .. n /\ (i + 1) + 1 = i + 2 /\ i + 2 \in 1 .. n
      OBVIOUS
    <2>2. Len(met[i + 1]) <= i + 1 /\ met[i + 1] \in Seq(0 .. MaxCluster)
      BY <1>1, <1>3, <2>1
    <2>3. \/ met[i + 2] = met[i + 1]
          \/ met[i + 2] = Append(met[i + 1], F[Last(met[i + 1])])
      BY <1>1, <2>1
    <2>4. Len(met[i + 2]) <= i + 2
      <3> DEFINE x == F[Last(met[i + 1])]
                 s == met[i + 1]
      <3> HIDE DEF x, s
      <3>1. s \in Seq(0 .. MaxCluster) /\ Len(s) \in Nat /\ Len(s) <= i + 1
        BY <2>2 DEF s
      <3>2. Len(Append(s, x)) = Len(s) + 1
        BY <3>1
      <3>3. met[i + 2] = s \/ met[i + 2] = Append(s, x)
        BY <2>3 DEF s, x
      <3> QED
        BY <3>1, <3>2, <3>3
    <2> QED
      BY <2>1, <2>4
  <1>4. P \in SUBSET Nat /\ m \in Nat /\ m + 1 = n /\ m \in 0 .. m
    OBVIOUS
  <1>5. \A i \in 0 .. m : i \in P
    <2> HIDE DEF P, m
    <2> QED
      BY ONLY <1>2, <1>3, <1>4, InductionUpTo
  <1>6. Len(met[n]) <= n
    <2>1. m \in P
      BY <1>4, <1>5
    <2> QED
      BY <1>4, <2>1
  <1> DEFINE s == met[n]
  <1>7. s \in Seq(0 .. MaxCluster) /\ s # <<>> /\ Len(s) <= n /\ ChainOf(F, c, n) = s
    <2>1. n \in 1 .. n
      OBVIOUS
    <2> QED
      BY <1>1, <1>6, <2>1
  <1> HIDE DEF s
  <1>8. Len(s) \in 1 .. n /\ s[Len(s)] \in 0 .. MaxCluster
    <2>1. MaxCluster \in Int
      BY Numbers
    <2> QED
      BY <1>7, <2>1
  <1> QED
    BY <1>7, <1>8 DEF Last

\* The parts of EnsureChain: the first cluster, the disk once there is one,
\* and one cluster more.
First(d, start) == IF start = 0 THEN FreeCluster(d) ELSE start
Begun(d, start) == IF start = 0 /\ FreeCluster(d) # 0 THEN Take(d, FreeCluster(d)) ELSE d
Growing(n) == [disk : Disks(n), last : 0 .. MaxCluster]
Grow(g) ==
  [disk |-> Extend(g.disk, g.last),
   last |-> IF Extend(g.disk, g.last).ok THEN FreeCluster(g.disk) ELSE g.last]

LEMMA BegunIs ==
  ASSUME NEW n \in Nat, NEW d \in Disks(n), NEW start \in Clusters \cup {0}
  PROVE  First(d, start) \in Clusters \cup {0} /\ Begun(d, start) \in Disks(n)
  <1>1. FreeCluster(d) \in Clusters \cup {0}
    BY FreeClusterIs
  <1>2. FreeCluster(d) # 0 => Take(d, FreeCluster(d)) \in Disks(n)
    BY <1>1, TakeIs
  <1> QED
    BY <1>1, <1>2 DEF First, Begun

LEMMA GrowType ==
  ASSUME NEW n \in Nat, NEW g \in Growing(n)
  PROVE  Grow(g) \in Growing(n)
  <1>1. g.disk \in Disks(n) /\ g.last \in 0 .. MaxCluster
    BY DEF Growing
  <1>2. Extend(g.disk, g.last) \in Disks(n)
    BY <1>1, ExtendIs
  <1>3. FreeCluster(g.disk) \in 0 .. MaxCluster
    <2>1. FreeCluster(g.disk) \in Clusters \cup {0}
      BY <1>1, FreeClusterIs
    <2> QED
      BY <2>1, Numbers
  <1> QED
    BY <1>1, <1>2, <1>3 DEF Grow, Growing

\* The disks and last clusters of EnsureChain, from the chain it finds on.
GrownBy(n, d, start, needed, a, last, g) ==
  /\ EnsureChain(d, start, needed) = [disk |-> g[needed].disk, start |-> First(d, start)]
  /\ a \in 1 .. needed
  /\ g[a] = [disk |-> Begun(d, start), last |-> last]
  /\ \A k \in a .. needed : g[k] \in Growing(n)
  /\ \A k \in a + 1 .. needed : g[k] = Grow(g[k - 1])

LEMMA Grown ==
  ASSUME NEW n \in Nat, NEW d \in Disks(n), NEW start \in Clusters \cup {0},
         NEW needed \in Nat \ {0}, First(d, start) # 0,
         NEW a, NEW last,
         a = Len(ChainOf(Begun(d, start).fat, First(d, start), needed)),
         last = Last(ChainOf(Begun(d, start).fat, First(d, start), needed))
  PROVE  \E g : GrownBy(n, d, start, needed, a, last, g)
  <1> DEFINE c == FreeCluster(d)
             fresh == start = 0
             first == IF fresh THEN c ELSE start
             d1 == IF fresh /\ c # 0 THEN Take(d, c) ELSE d
             have == ChainOf(d1.fat, first, needed)
             Rec(f) == [k \in Len(have) .. needed |->
                          IF k = Len(have) THEN [disk |-> d1, last |-> Last(have)]
                          ELSE LET h == f[k - 1]
                                   e == Extend(h.disk, h.last)
                               IN  [disk |-> e,
                                    last |-> IF e.ok THEN FreeCluster(h.disk) ELSE h.last]]
             g == CHOOSE f : f = Rec(f)
             S == Growing(n)
             G == [h \in S |-> Grow(h)]
             b == [disk |-> d1, last |-> Last(have)]
  <1>1. first = First(d, start) /\ d1 = Begun(d, start)
    BY DEF First, Begun
  <1>2. ~(fresh /\ c = 0) /\ needed # 0
    BY <1>1
  <1>3. EnsureChain(d, start, needed) = [disk |-> g[needed].disk, start |-> first]
    BY ONLY <1>2 DEF EnsureChain
  <1> HIDE DEF c, fresh, first, d1
  <1>4. first \in 0 .. MaxCluster /\ d1 \in Disks(n) /\ d1.fat \in FATs
    <2>1. first \in Clusters \cup {0} /\ d1 \in Disks(n)
      BY <1>1, BegunIs
    <2>2. first \in 0 .. MaxCluster
      BY <2>1, Numbers
    <2> QED
      BY <2>1, <2>2 DEF Disks
  <1>5. Len(have) \in 1 .. needed /\ Last(have) \in 0 .. MaxCluster
    BY <1>4, ChainOfType
  <1>6. a = Len(have) /\ last = Last(have)
    BY <1>1
  <1> HIDE DEF have
  <1>7. G \in [S -> S]
    BY GrowType
  <1>8. b \in S /\ a \in Nat /\ needed \in Nat /\ a <= needed
    BY <1>4, <1>5, <1>6 DEF Growing
  <1>9. PICK f : Iterates(f, S, G, b, a, needed)
    <2> HIDE DEF S, G, b
    <2> QED
      BY ONLY <1>7, <1>8, Iterate
  <1> HIDE DEF S
  <1>10. f = Rec(f)
    <2>1. f \in [a .. needed -> S] /\ f[a] = b /\ \A k \in a + 1 .. needed : f[k] = G[f[k - 1]]
      BY <1>9 DEF Iterates
    <2>2. ASSUME NEW k \in a .. needed PROVE f[k] = Rec(f)[k]
      <3>1. CASE k = a
        BY <1>6, <2>1, <3>1
      <3>2. CASE k # a
        <4>1. k \in a + 1 .. needed /\ k - 1 \in a .. needed
          BY <1>8, <3>2
        <4>2. f[k] = Grow(f[k - 1])
          BY <2>1, <4>1
        <4> QED
          BY <1>6, <3>2, <4>2 DEF Grow
      <3> QED
        BY <3>1, <3>2
    <2> QED
      BY <1>6, <2>1, <2>2
  <1>11. g = Rec(g)
    <2> HIDE DEF Rec
    <2> QED
      BY <1>10
  <1> HIDE DEF g
  <1>12. g[a] = b /\ \A k \in a + 1 .. needed : g[k] = Grow(g[k - 1])
    <2>1. g[a] = b
      <3>1. a \in a .. needed
        BY <1>8
      <3>2. g[a] = Rec(g)[a]
        BY <1>11
      <3> QED
        BY <1>6, <3>1, <3>2
    <2>2. ASSUME NEW k \in a + 1 .. needed PROVE g[k] = Grow(g[k - 1])
      <3>1. k \in a .. needed /\ k # a
        BY <1>8
      <3>2. g[k] = Rec(g)[k]
        BY <1>11
      <3> QED
        BY <1>6, <3>1, <3>2 DEF Grow
    <2> QED
      BY <1>6, <2>1, <2>2
  <1>13. \A k \in a .. needed : g[k] \in S
    <2>1. \A k \in a + 1 .. needed : g[k - 1] \in S => g[k] = G[g[k - 1]]
      BY <1>12
    <2> HIDE DEF G, b
    <2> QED
      BY ONLY <1>7, <1>8, <1>12, <2>1, Unrolled
  <1> QED
    BY <1>1, <1>3, <1>5, <1>6, <1>12, <1>13 DEF S, GrownBy

\* A call has put the chain u in the place of the chain s.
Moved(F, G, s, u) ==
  /\ \A x \in Clusters : x \notin ToSet(s) /\ x \notin ToSet(u) => G[x] = F[x]
  /\ \A x \in ToSet(u) : x \notin ToSet(s) => F[x] = 0
  /\ \A x \in ToSet(s) : x \notin ToSet(u) => G[x] = 0

\* What it did not write to is as it was, or zeroed.
Kept(F, T, V, s, u) ==
  /\ \A x \in Clusters : F[x] # 0 /\ x \notin ToSet(s) /\ x \notin ToSet(u) => V[x] = T[x]
  /\ \A x \in ToSet(u) : V[x] = 0 \/ (x \in ToSet(s) /\ V[x] = T[x])

LEMMA NoMove ==
  ASSUME NEW F, NEW T, NEW s
  PROVE  Moved(F, F, s, s) /\ Kept(F, T, T, s, s)
  BY DEF Moved, Kept

LEMMA MoveMove ==
  ASSUME NEW F, NEW G, NEW H, NEW T, NEW V, NEW W, NEW s, NEW t, NEW u,
         ToSet(s) \subseteq Clusters, ToSet(t) \subseteq Clusters, ToSet(u) \subseteq Clusters,
         Moved(F, G, s, t), Moved(G, H, t, u), Kept(F, T, V, s, t), Kept(G, V, W, t, u)
  PROVE  Moved(F, H, s, u) /\ Kept(F, T, W, s, u)
  <1> DEFINE A == ToSet(s)
             B == ToSet(t)
             C == ToSet(u)
  <1>1. /\ A \subseteq Clusters /\ B \subseteq Clusters /\ C \subseteq Clusters
        /\ \A x \in Clusters : x \notin A /\ x \notin B => G[x] = F[x]
        /\ \A x \in B : x \notin A => F[x] = 0
        /\ \A x \in A : x \notin B => G[x] = 0
        /\ \A x \in Clusters : x \notin B /\ x \notin C => H[x] = G[x]
        /\ \A x \in C : x \notin B => G[x] = 0
        /\ \A x \in B : x \notin C => H[x] = 0
        /\ \A x \in Clusters : F[x] # 0 /\ x \notin A /\ x \notin B => V[x] = T[x]
        /\ \A x \in B : V[x] = 0 \/ (x \in A /\ V[x] = T[x])
        /\ \A x \in Clusters : G[x] # 0 /\ x \notin B /\ x \notin C => W[x] = V[x]
        /\ \A x \in C : W[x] = 0 \/ (x \in B /\ W[x] = V[x])
    BY DEF Moved, Kept
  <1> HIDE DEF A, B, C
  <1>2. \A x \in Clusters : x \notin A /\ x \notin C => H[x] = F[x]
    BY <1>1
  <1>3. \A x \in C : x \notin A => F[x] = 0
    BY <1>1
  <1>4. \A x \in A : x \notin C => H[x] = 0
    BY <1>1
  <1>5. \A x \in Clusters : F[x] # 0 /\ x \notin A /\ x \notin C => W[x] = T[x]
    BY <1>1
  <1>6. \A x \in C : W[x] = 0 \/ (x \in A /\ W[x] = T[x])
    BY <1>1
  <1> QED
    BY <1>2, <1>3, <1>4, <1>5, <1>6 DEF A, B, C, Moved, Kept

\* A cluster in a chain is taken.
LEMMA ChainTaken ==
  ASSUME NEW F, NEW c \in Clusters \cup {0}, NEW s, IsChain(F, c, s)
  PROVE  \A x \in ToSet(s) : F[x] # 0
  <1>0. /\ ToSet(s) = {s[i] : i \in 1 .. Len(s)} /\ \A i \in 1 .. Len(s) : s[i] \in Clusters
        /\ Len(s) \in Nat /\ (c = 0 => Len(s) = 0)
    <2>1. ToSet(s) = {s[i] : i \in 1 .. Len(s)}
      BY DEF IsChain, ToSet
    <2>2. \A i \in 1 .. Len(s) : s[i] \in Clusters
      BY ChainFacts
    <2>3. Len(s) \in Nat /\ (c = 0 => Len(s) = 0)
      BY ChainFacts
    <2> QED
      BY <2>1, <2>2, <2>3
  <1>1. CASE c = 0
    <2>1. Len(s) = 0
      BY <1>0, <1>1
    <2>2. 1 .. Len(s) = {}
      BY <2>1
    <2> QED
      BY <1>0, <2>2
  <1>2. CASE c # 0
    <2>1. /\ ToSet(s) = {s[i] : i \in 1 .. Len(s)} /\ \A i \in 1 .. Len(s) : s[i] \in Clusters
          /\ Len(s) \in Nat
      BY <1>0
    <2>2. F[s[Len(s)]] = EOC /\ \A i \in 1 .. Len(s) - 1 : F[s[i]] = s[i + 1]
      BY <1>2 DEF IsChain
    <2> SUFFICES ASSUME NEW i \in 1 .. Len(s) PROVE F[s[i]] # 0
      BY <2>1
    <2>3. CASE i = Len(s)
      BY <2>2, <2>3, Numbers
    <2>4. CASE i # Len(s)
      <3>1. i \in 1 .. Len(s) - 1 /\ i + 1 \in 1 .. Len(s)
        BY <2>1, <2>4
      <3>2. F[s[i]] = s[i + 1] /\ s[i + 1] \in Clusters
        BY <2>1, <2>2, <3>1
      <3> QED
        BY <3>2, Numbers
    <2> QED
      BY <2>3, <2>4
  <1> QED
    BY <1>1, <1>2

\* A free cluster that is marked and linked behind the last one.
LEMMA ChainLonger ==
  ASSUME NEW F \in FATs, NEW c \in Clusters, NEW t, IsChain(F, c, t),
         NEW x \in Clusters, F[x] = 0,
         NEW G, G = [F EXCEPT ![x] = EOC, ![t[Len(t)]] = x]
  PROVE  /\ IsChain(G, c, Append(t, x)) /\ Moved(F, G, t, Append(t, x))
         /\ Len(Append(t, x)) = Len(t) + 1 /\ Append(t, x)[Len(t) + 1] = x
         /\ \A T \in [0 .. MaxCluster -> Nat] : Kept(F, T, [T EXCEPT ![x] = 0], t, Append(t, x))
  <1>1. /\ Len(t) \in Nat \ {0} /\ t \in Seq(Clusters) /\ t[1] = c /\ Len(t) \in 1 .. Len(t)
        /\ F[t[Len(t)]] = EOC /\ \A i \in 1 .. Len(t) - 1 : F[t[i]] = t[i + 1]
        /\ \A i, j \in 1 .. Len(t) : t[i] = t[j] => i = j
        /\ \A i \in 1 .. Len(t) : t[i] \in Clusters
        /\ ToSet(t) = {t[i] : i \in 1 .. Len(t)}
    BY ChainFacts, Numbers DEF IsChain
  <1>2. x \notin ToSet(t)
    BY ChainTaken
  <1> DEFINE u == Append(t, x)
             n == Len(t) + 1
             l == t[Len(t)]
  <1>3. /\ u \in Seq(Clusters) /\ Len(u) = n /\ u[n] = x /\ n \in Nat /\ n \in 1 .. n
        /\ \A i \in 1 .. Len(t) : u[i] = t[i]
    BY <1>1
  <1>4. ToSet(u) = ToSet(t) \cup {x}
    <2>1. ToSet(u) = {u[i] : i \in 1 .. n}
      BY <1>3 DEF ToSet
    <2>2. 1 .. n = (1 .. Len(t)) \cup {n}
      BY <1>1
    <2> HIDE DEF u, n
    <2> QED
      BY <1>1, <1>3, <2>1, <2>2
  <1>5. l \in Clusters /\ l # x /\ x \in 0 .. MaxCluster /\ l \in 0 .. MaxCluster
    BY <1>1, <1>2, Numbers
  <1>6. /\ G[x] = EOC /\ G[l] = x
        /\ \A y \in Clusters : y # x /\ y # l => G[y] = F[y]
    <2>1. DOMAIN F = 0 .. MaxCluster /\ \A y \in Clusters : y \in 0 .. MaxCluster
      BY Numbers DEF FATs
    <2> QED
      BY <1>5, <2>1
  <1>7. \A i \in 1 .. n - 1 : G[u[i]] = u[i + 1]
    <2> SUFFICES ASSUME NEW i \in 1 .. n - 1 PROVE G[u[i]] = u[i + 1]
      OBVIOUS
    <2>1. CASE i = Len(t)
      BY <1>1, <1>3, <1>6, <2>1
    <2>2. CASE i # Len(t)
      <3>1. i \in 1 .. Len(t) - 1 /\ i \in 1 .. Len(t) /\ i + 1 \in 1 .. Len(t)
        BY <1>1, <2>2
      <3>2. t[i] # l /\ t[i] # x /\ t[i] \in Clusters
        BY <1>1, <1>2, <2>2, <3>1
      <3>3. u[i] = t[i] /\ u[i + 1] = t[i + 1] /\ F[t[i]] = t[i + 1]
        BY <1>1, <1>3, <3>1
      <3>4. G[t[i]] = F[t[i]]
        BY <1>6, <3>2
      <3> QED
        BY <3>3, <3>4
    <2> QED
      BY <2>1, <2>2
  <1>8. \A i, j \in 1 .. n : u[i] = u[j] => i = j
    <2> SUFFICES ASSUME NEW i \in 1 .. n, NEW j \in 1 .. n, u[i] = u[j] PROVE i = j
      OBVIOUS
    <2>1. (i \in 1 .. Len(t) \/ i = n) /\ (j \in 1 .. Len(t) \/ j = n)
      BY <1>1
    <2>2. \A k \in 1 .. Len(t) : u[k] = t[k] /\ u[k] # x
      BY <1>1, <1>2, <1>3
    <2>3. u[n] = x /\ u[i] = u[j]
      BY <1>3
    <2> HIDE DEF u, n
    <2>4. CASE i \in 1 .. Len(t) /\ j \in 1 .. Len(t)
      <3>1. t[i] = t[j]
        BY <2>2, <2>3, <2>4
      <3> QED
        BY <1>1, <2>4, <3>1
    <2>5. CASE i = n /\ j = n
      BY <2>5
    <2>6. CASE i = n /\ j \in 1 .. Len(t)
      BY <2>2, <2>3, <2>6
    <2>7. CASE i \in 1 .. Len(t) /\ j = n
      BY <2>2, <2>3, <2>7
    <2> QED
      BY <2>1, <2>4, <2>5, <2>6, <2>7
  <1>9. u # <<>> /\ u[1] = c
    BY <1>1, <1>3
  <1>10. IsChain(G, c, u)
    <2> HIDE DEF u, n, l
    <2>1. c # 0
      BY Numbers
    <2>2. G[u[Len(u)]] = EOC
      BY <1>3, <1>6
    <2>3. Len(u) = n
      BY <1>3
    <2>4. \A i \in 1 .. Len(u) - 1 : G[u[i]] = u[i + 1]
      BY <1>7, <2>3
    <2>5. \A i, j \in 1 .. Len(u) : u[i] = u[j] => i = j
      BY <1>8, <2>3
    <2>6. /\ \A i \in 1 .. Len(u) - 1 : G[u[i]] = u[i + 1]
          /\ \A i, j \in 1 .. Len(u) : u[i] = u[j] => i = j
      BY ONLY <2>4, <2>5
    <2> QED
      BY ONLY <1>3, <1>9, <2>1, <2>2, <2>6 DEF IsChain
  <1>11. Moved(F, G, t, u)
    <2>0. l \in ToSet(t)
      BY <1>1
    <2>1. \A y \in Clusters : y \notin ToSet(t) /\ y \notin ToSet(u) => G[y] = F[y]
      <3> HIDE DEF u, l
      <3> QED
        BY <1>4, <1>6, <2>0
    <2> HIDE DEF u
    <2> QED
      BY <1>4, <2>1 DEF Moved
  <1>12. ASSUME NEW T \in [0 .. MaxCluster -> Nat] PROVE Kept(F, T, [T EXCEPT ![x] = 0], t, u)
    <2> DEFINE V == [T EXCEPT ![x] = 0]
    <2>1. V[x] = 0 /\ \A y \in Clusters : y # x => V[y] = T[y]
      BY <1>5, Numbers
    <2>2. ToSet(t) \subseteq Clusters
      BY <1>1
    <2> HIDE DEF V, u
    <2>3. Kept(F, T, V, t, u)
      BY <1>4, <2>1, <2>2 DEF Kept
    <2> QED
      BY <2>3 DEF V
  <1> QED
    BY <1>3, <1>10, <1>11, <1>12

\* A first cluster.
LEMMA ChainNew ==
  ASSUME NEW F \in FATs, NEW x \in Clusters, F[x] = 0, NEW G, G = [F EXCEPT ![x] = EOC]
  PROVE  /\ IsChain(G, x, <<x>>) /\ Moved(F, G, <<>>, <<x>>) /\ Len(<<x>>) = 1
         /\ \A T \in [0 .. MaxCluster -> Nat] : Kept(F, T, [T EXCEPT ![x] = 0], <<>>, <<x>>)
  <1>1. x # 0 /\ x \in 0 .. MaxCluster /\ Clusters \subseteq 0 .. MaxCluster
    BY Numbers
  <1>2. DOMAIN F = 0 .. MaxCluster
    BY DEF FATs
  <1>3. ToSet(<<x>>) = {x} /\ ToSet(<<>>) = {}
    BY DEF ToSet
  <1>4. G[x] = EOC /\ \A y \in Clusters : y # x => G[y] = F[y]
    BY <1>1, <1>2
  <1>5. IsChain(G, x, <<x>>)
    BY <1>1, <1>4 DEF IsChain
  <1>6. Moved(F, G, <<>>, <<x>>)
    BY <1>3, <1>4 DEF Moved
  <1>7. ASSUME NEW T \in [0 .. MaxCluster -> Nat] PROVE Kept(F, T, [T EXCEPT ![x] = 0], <<>>, <<x>>)
    <2>1. [T EXCEPT ![x] = 0][x] = 0 /\ \A y \in Clusters : y # x => [T EXCEPT ![x] = 0][y] = T[y]
      BY <1>1
    <2> QED
      BY <1>3, <2>1 DEF Kept
  <1> QED
    BY <1>5, <1>6, <1>7

\* What EnsureChain has done to the chain s of disk d when g is its disk and
\* its last cluster and k the length it has reached.
Reached(d, s, c, g, k) ==
  \E t : /\ IsChain(g.disk.fat, c, t) /\ Len(s) <= Len(t)
         /\ Moved(d.fat, g.disk.fat, s, t) /\ Kept(d.fat, d.tag, g.disk.tag, s, t)
         /\ g.disk.ok => Len(t) = k /\ g.last = t[k]

LEMMA GrowStep ==
  ASSUME NEW n \in Nat, NEW d \in Disks(n), NEW s, ToSet(s) \subseteq Clusters, Len(s) \in Nat,
         NEW c \in Clusters, NEW k \in Nat, NEW g \in Growing(n), Reached(d, s, c, g, k)
  PROVE  Reached(d, s, c, Grow(g), k + 1)
  <1>1. PICK t : /\ IsChain(g.disk.fat, c, t) /\ Len(s) <= Len(t)
                 /\ Moved(d.fat, g.disk.fat, s, t) /\ Kept(d.fat, d.tag, g.disk.tag, s, t)
                 /\ g.disk.ok => Len(t) = k /\ g.last = t[k]
    BY DEF Reached
  <1> DEFINE e == g.disk
             e2 == Extend(e, g.last)
             x == FreeCluster(e)
  <1>2. e \in Disks(n) /\ g.last \in 0 .. MaxCluster
    BY DEF Growing
  <1>3. /\ e2.ok => /\ e.ok /\ x \in Clusters /\ e.fat[x] = 0
                    /\ e2.fat = [e.fat EXCEPT ![x] = EOC, ![g.last] = x]
                    /\ e2.tag = [e.tag EXCEPT ![x] = 0]
        /\ ~e2.ok => e2.fat = e.fat /\ e2.tag = e.tag
    <2>1. Extended(e, g.last, x, e2)
      BY <1>2, ExtendIs
    <2> HIDE DEF e, e2, x
    <2> QED
      BY <2>1 DEF Extended
  <1>4. Grow(g).disk = e2 /\ (e2.ok => Grow(g).last = x)
    BY DEF Grow
  <1>5. e.fat \in FATs /\ e.tag \in [0 .. MaxCluster -> Nat]
    <2>1. e.tag \in [0 .. MaxCluster -> 0 .. n] /\ 0 .. n \subseteq Nat
      BY <1>2 DEF Disks
    <2> QED
      BY <1>2, <2>1 DEF Disks
  <1> HIDE DEF e, e2, x
  <1>6. CASE ~e2.ok
    BY <1>1, <1>3, <1>4, <1>6 DEF Reached, e
  <1>7. CASE e2.ok
    <2> DEFINE u == Append(t, x)
    <2>1. e.ok /\ x \in Clusters /\ e.fat[x] = 0 /\ Len(t) = k /\ g.last = t[Len(t)]
      BY <1>1, <1>3, <1>7 DEF e
    <2>2. e2.fat = [e.fat EXCEPT ![x] = EOC, ![t[Len(t)]] = x] /\ e2.tag = [e.tag EXCEPT ![x] = 0]
      BY <1>3, <1>7, <2>1
    <2>3. IsChain(e.fat, c, t)
      BY <1>1 DEF e
    <2>4. /\ IsChain(e2.fat, c, u) /\ Moved(e.fat, e2.fat, t, u) /\ Len(u) = Len(t) + 1
          /\ u[Len(t) + 1] = x /\ Kept(e.fat, e.tag, e2.tag, t, u)
      <3> HIDE DEF u
      <3> QED
        BY <1>5, <2>1, <2>2, <2>3, ChainLonger DEF u
    <2> HIDE DEF u
    <2>5. ToSet(t) \subseteq Clusters /\ ToSet(u) \subseteq Clusters
      BY <2>3, <2>4, ChainFacts
    <2>6. Moved(d.fat, e.fat, s, t) /\ Kept(d.fat, d.tag, e.tag, s, t)
      BY <1>1 DEF e
    <2>7. Moved(d.fat, e2.fat, s, u) /\ Kept(d.fat, d.tag, e2.tag, s, u)
      BY <2>4, <2>5, <2>6, MoveMove
    <2>8. Len(u) = k + 1 /\ Len(s) <= Len(u) /\ u[k + 1] = x
      BY <1>1, <2>1, <2>4
    <2> QED
      BY <1>4, <1>7, <2>4, <2>7, <2>8 DEF Reached
  <1> QED
    BY <1>6, <1>7

LEMMA EnsureType ==
  ASSUME NEW n \in Nat, NEW d \in Disks(n), NEW start \in Clusters \cup {0}, NEW needed \in Nat
  PROVE  /\ EnsureChain(d, start, needed).disk \in Disks(n)
         /\ EnsureChain(d, start, needed).start \in Clusters \cup {0}
         /\ start # 0 => EnsureChain(d, start, needed).start = start
  <1>1. CASE needed = 0
    BY <1>1 DEF EnsureChain
  <1>2. CASE needed # 0 /\ First(d, start) = 0
    <2>1. start = 0 /\ FreeCluster(d) = 0
      BY <1>2, Numbers DEF First
    <2> DEFINE e == [d EXCEPT !.ok = FALSE]
    <2>2. EnsureChain(d, start, needed) = [disk |-> e, start |-> 0]
      BY <1>2, <2>1 DEF EnsureChain
    <2>3. e \in Disks(n)
      BY DEF Disks
    <2> HIDE DEF e
    <2> QED
      BY <2>1, <2>2, <2>3
  <1>3. CASE needed # 0 /\ First(d, start) # 0
    <2> DEFINE have == ChainOf(Begun(d, start).fat, First(d, start), needed)
               a == Len(have)
               last == Last(have)
    <2>1. needed \in Nat \ {0} /\ a = Len(have) /\ last = Last(have)
      BY <1>3
    <2> HIDE DEF a, last
    <2>2. PICK g : GrownBy(n, d, start, needed, a, last, g)
      BY <1>3, <2>1, Grown
    <2> USE DEF GrownBy
    <2>3. g[needed] \in Growing(n)
      <3>1. needed \in a .. needed
        BY <2>2
      <3> QED
        BY <2>2, <3>1
    <2>4. First(d, start) \in Clusters \cup {0} /\ (start # 0 => First(d, start) = start)
      BY BegunIs DEF First
    <2> QED
      BY <2>2, <2>3, <2>4 DEF Growing
  <1> QED
    BY <1>1, <1>2, <1>3

\* The chain t from cluster c that EnsureChain makes of s.
Ensured(d, s, needed, e, c, t) ==
  /\ IsChain(e.fat, c, t) /\ Len(s) <= Len(t)
  /\ Moved(d.fat, e.fat, s, t) /\ Kept(d.fat, d.tag, e.tag, s, t)
  /\ e.ok => Len(t) = IF needed <= Len(s) THEN Len(s) ELSE needed

\* The chain there is once EnsureChain has its first cluster.
LEMMA BegunChain ==
  ASSUME NEW n \in Nat, NEW d \in Disks(n), d.ok, NEW start \in Clusters \cup {0},
         NEW s, IsChain(d.fat, start, s), First(d, start) # 0
  PROVE  \E t : /\ IsChain(Begun(d, start).fat, First(d, start), t)
                /\ Moved(d.fat, Begun(d, start).fat, s, t)
                /\ Kept(d.fat, d.tag, Begun(d, start).tag, s, t)
                /\ Len(s) \in Nat /\ ToSet(s) \subseteq Clusters
                /\ Len(t) = IF Len(s) = 0 THEN 1 ELSE Len(s)
  <1>1. Len(s) \in Nat /\ ToSet(s) \subseteq Clusters /\ (start = 0 <=> Len(s) = 0)
    BY ChainFacts
  <1>2. d.fat \in FATs /\ d.tag \in [0 .. MaxCluster -> Nat]
    BY DEF Disks
  <1>3. CASE start # 0
    <2>1. Begun(d, start) = d /\ First(d, start) = start
      BY <1>3 DEF Begun, First
    <2> QED
      BY <1>1, <1>3, <2>1, NoMove
  <1>4. CASE start = 0
    <2> DEFINE x == FreeCluster(d)
               e == Take(d, x)
    <2>1. Begun(d, start) = e /\ First(d, start) = x /\ x # 0
      BY <1>4 DEF Begun, First
    <2>2. x \in Clusters /\ d.fat[x] = 0
      BY <2>1, FreeClusterIs
    <2>3. e.fat = [d.fat EXCEPT ![x] = EOC] /\ e.tag = [d.tag EXCEPT ![x] = 0]
      BY <2>2, TakeIs
    <2>4. s = <<>>
      BY <1>4 DEF IsChain
    <2> HIDE DEF x, e
    <2>5. /\ IsChain(e.fat, x, <<x>>) /\ Moved(d.fat, e.fat, <<>>, <<x>>) /\ Len(<<x>>) = 1
          /\ Kept(d.fat, d.tag, e.tag, <<>>, <<x>>)
      BY <1>2, <2>2, <2>3, ChainNew
    <2> QED
      BY <1>1, <1>4, <2>1, <2>4, <2>5
  <1> QED
    BY <1>3, <1>4

LEMMA EnsureIs ==
  ASSUME NEW n \in Nat, NEW d \in Disks(n), d.ok, NEW start \in Clusters \cup {0},
         NEW s, IsChain(d.fat, start, s), NEW needed \in Nat
  PROVE  \E t : Ensured(d, s, needed, EnsureChain(d, start, needed).disk,
                        EnsureChain(d, start, needed).start, t)
  <1> DEFINE en == EnsureChain(d, start, needed)
  <1>0. Len(s) \in Nat /\ ToSet(s) \subseteq Clusters /\ (start = 0 <=> Len(s) = 0)
    BY ChainFacts
  <1>1. CASE needed = 0
    <2>1. en.disk = d /\ en.start = start
      BY <1>1 DEF EnsureChain
    <2>2. Ensured(d, s, needed, d, start, s)
      BY <1>0, <1>1, NoMove DEF Ensured
    <2> QED
      BY <2>1, <2>2
  <1>2. CASE needed # 0 /\ First(d, start) = 0
    <2>1. start = 0 /\ FreeCluster(d) = 0
      BY <1>2, Numbers DEF First
    <2>2. en.disk = [d EXCEPT !.ok = FALSE] /\ en.start = 0
      BY <1>2, <2>1 DEF EnsureChain
    <2>3. en.disk.fat = d.fat /\ en.disk.tag = d.tag /\ ~en.disk.ok
      BY <2>2 DEF Disks
    <2>4. Ensured(d, s, needed, en.disk, en.start, s)
      <3> HIDE DEF en
      <3> QED
        BY <1>0, <2>1, <2>2, <2>3, NoMove DEF Ensured
    <2> QED
      BY <2>4
  <1>3. CASE needed # 0 /\ First(d, start) # 0
    <2> DEFINE c == First(d, start)
               d1 == Begun(d, start)
               have == ChainOf(d1.fat, c, needed)
               a == Len(have)
               last == Last(have)
    <2>1. PICK t : /\ IsChain(d1.fat, c, t) /\ Moved(d.fat, d1.fat, s, t)
                   /\ Kept(d.fat, d.tag, d1.tag, s, t)
                   /\ Len(t) = IF Len(s) = 0 THEN 1 ELSE Len(s)
      BY <1>3, BegunChain
    <2>2. needed \in Nat \ {0} /\ a = Len(have) /\ last = Last(have)
      BY <1>3
    <2> HIDE DEF a, last
    <2>8. PICK g : GrownBy(n, d, start, needed, a, last, g)
      BY <1>3, <2>2, Grown
    <2> USE DEF a, last
    <2>3. /\ en = [disk |-> g[needed].disk, start |-> c]
          /\ a \in 1 .. needed
          /\ g[a] = [disk |-> d1, last |-> last]
          /\ \A k \in a .. needed : g[k] \in Growing(n)
          /\ \A k \in a + 1 .. needed : g[k] = Grow(g[k - 1])
      BY <2>8 DEF GrownBy
    <2>4. c \in Clusters /\ d1 \in Disks(n) /\ d1.fat \in FATs
      BY <1>3, BegunIs DEF Disks
    <2>5. have = Pre(t, IF needed <= Len(t) THEN needed ELSE Len(t))
      <3> HIDE DEF c, d1
      <3> QED
        BY <2>1, <2>2, <2>4, ChainOfIs
    <2> HIDE DEF have, en, d1, c
    <2>6. CASE needed <= Len(t)
      <3>1. a = needed /\ g[needed].disk = d1
        <4>1. Len(Pre(t, needed)) = needed
          BY <2>2 DEF Pre
        <4> QED
          BY <2>3, <2>5, <2>6, <4>1
      <3>2. Len(s) <= Len(t) /\ Len(t) = IF needed <= Len(s) THEN Len(s) ELSE needed
        BY <1>0, <2>1, <2>2, <2>6
      <3>3. Ensured(d, s, needed, d1, c, t)
        BY <2>1, <3>2 DEF Ensured
      <3> QED
        BY <2>3, <3>1, <3>3 DEF en
    <2>7. CASE ~(needed <= Len(t))
      <3>0. Len(t) \in Nat \ {0} /\ Len(s) <= Len(t) /\ Len(s) < needed
        BY <1>0, <2>1, <2>2, <2>7
      <3>1. a = Len(t) /\ last = t[Len(t)]
        <4> DEFINE l == Len(t)
        <4>1. l \in Nat \ {0} /\ l \in 1 .. l
          BY <3>0
        <4>2. have = Pre(t, l)
          BY <2>5, <2>7
        <4> HIDE DEF l
        <4>3. Len(Pre(t, l)) = l /\ Pre(t, l)[l] = t[l]
          BY <4>1 DEF Pre
        <4> QED
          BY <4>2, <4>3 DEF l, Last
      <3> DEFINE P == {k \in Nat : a + k <= needed => Reached(d, s, c, g[a + k], a + k)}
                 m == needed - a
      <3>2. 0 \in P
        <4>1. Reached(d, s, c, g[a], a)
          <5>1. g[a].disk = d1 /\ g[a].last = last
            BY <2>3
          <5> HIDE DEF a, last
          <5> QED
            BY <2>1, <3>0, <3>1, <5>1 DEF Reached
        <4>2. a + 0 = a
          BY <2>3
        <4> HIDE DEF a
        <4> QED
          BY <4>1, <4>2
      <3>3. ASSUME NEW k \in 0 .. m - 1, k \in P PROVE k + 1 \in P
        <4> HIDE DEF a, last
        <4>1. /\ a + k \in a .. needed /\ a + (k + 1) \in a + 1 .. needed /\ a + k \in Nat
              /\ (a + (k + 1)) - 1 = a + k /\ a + k <= needed /\ (a + k) + 1 = a + (k + 1)
              /\ k + 1 \in Nat
          BY <2>2, <2>3
        <4>2. Reached(d, s, c, g[a + k], a + k)
          BY <3>3, <4>1
        <4>3. g[a + k] \in Growing(n) /\ g[a + (k + 1)] = Grow(g[a + k])
          BY <2>3, <4>1
        <4>4. Reached(d, s, c, Grow(g[a + k]), (a + k) + 1)
          <5> DEFINE h == g[a + k]
                     i == a + k
          <5>1. h \in Growing(n) /\ i \in Nat /\ Reached(d, s, c, h, i)
            BY <4>1, <4>2, <4>3
          <5> HIDE DEF h, i
          <5>2. Reached(d, s, c, Grow(h), i + 1)
            BY <1>0, <2>4, <5>1, GrowStep
          <5> QED
            BY <5>2 DEF h, i
        <4>5. Reached(d, s, c, g[a + (k + 1)], a + (k + 1))
          BY <4>1, <4>3, <4>4
        <4> QED
          BY <4>1, <4>5
      <3>4. P \in SUBSET Nat /\ m \in Nat /\ m \in 0 .. m /\ a + m = needed /\ a + m <= needed
        <4> HIDE DEF a
        <4> QED
          BY <2>2, <2>3
      <3>5. \A k \in 0 .. m : k \in P
        <4> HIDE DEF P, m
        <4> QED
          BY ONLY <3>2, <3>3, <3>4, InductionUpTo
      <3>6. Reached(d, s, c, g[needed], needed)
        <4>1. m \in P
          BY <3>4, <3>5
        <4> HIDE DEF a, m
        <4> QED
          BY <3>4, <4>1
      <3>7. PICK u : /\ IsChain(g[needed].disk.fat, c, u) /\ Len(s) <= Len(u)
                     /\ Moved(d.fat, g[needed].disk.fat, s, u)
                     /\ Kept(d.fat, d.tag, g[needed].disk.tag, s, u)
                     /\ g[needed].disk.ok => Len(u) = needed
        BY <3>6 DEF Reached
      <3>8. ~(needed <= Len(s))
        BY <1>0, <2>2, <3>0
      <3>9. Ensured(d, s, needed, g[needed].disk, c, u)
        BY <3>7, <3>8 DEF Ensured
      <3> QED
        BY <2>3, <3>9 DEF en
    <2> QED
      BY <2>6, <2>7
  <1> QED
    BY <1>1, <1>2, <1>3
-----------------------------------------------------------------------------
(* fat32_free_chain *)

Freeing(n, d) == [disk : {e \in Disks(n) : e.ok = d.ok /\ e.tag = d.tag}, at : 0 .. EOC]
FreeOne(g) ==
  IF g.at \notin Clusters THEN g
  ELSE [disk |-> [g.disk EXCEPT !.fat[g.at] = 0], at |-> g.disk.fat[g.at]]

LEMMA FreeOneType ==
  ASSUME NEW n \in Nat, NEW d, NEW g \in Freeing(n, d)
  PROVE  FreeOne(g) \in Freeing(n, d)
  <1> DEFINE e == g.disk
             f == [e EXCEPT !.fat[g.at] = 0]
  <1>1. e \in Disks(n) /\ e.ok = d.ok /\ e.tag = d.tag /\ g.at \in 0 .. EOC
    BY DEF Freeing
  <1>2. CASE g.at \notin Clusters
    BY <1>2 DEF FreeOne
  <1>3. CASE g.at \in Clusters
    <2>1. g.at \in 0 .. MaxCluster /\ 0 \in 0 .. EOC
      BY <1>3, Numbers
    <2>2. e.fat[g.at] \in 0 .. EOC
      BY <1>1, <2>1 DEF Disks, FATs
    <2>3. f \in Disks(n) /\ f.ok = d.ok /\ f.tag = d.tag
      <3> HIDE DEF e
      <3> QED
        BY <1>1, <2>1 DEF Disks, FATs
    <2>4. FreeOne(g) = [disk |-> f, at |-> e.fat[g.at]]
      BY <1>3 DEF FreeOne
    <2> HIDE DEF e, f
    <2> QED
      BY <2>2, <2>3, <2>4 DEF Freeing
  <1> QED
    BY <1>2, <1>3

FreedBy(n, d, start, g) ==
  /\ FreeChain(d, start) = g[MaxCluster].disk
  /\ g[0] = [disk |-> d, at |-> start]
  /\ \A i \in 0 .. MaxCluster : g[i] \in Freeing(n, d)
  /\ \A i \in 1 .. MaxCluster : g[i] = FreeOne(g[i - 1])

LEMMA Freed ==
  ASSUME NEW n \in Nat, NEW d \in Disks(n), NEW start \in 0 .. EOC
  PROVE  \E g : FreedBy(n, d, start, g)
  <1> DEFINE Rec(f) == [i \in 0 .. MaxCluster |->
                          IF i = 0 THEN [disk |-> d, at |-> start]
                          ELSE LET h == f[i - 1]
                               IN  IF h.at \notin Clusters THEN h
                                   ELSE [disk |-> [h.disk EXCEPT !.fat[h.at] = 0],
                                         at |-> h.disk.fat[h.at]]]
             g == CHOOSE f : f = Rec(f)
             S == Freeing(n, d)
             G == [h \in S |-> FreeOne(h)]
             b == [disk |-> d, at |-> start]
             a == 0
  <1>1. FreeChain(d, start) = g[MaxCluster].disk
    BY DEF FreeChain
  <1>2. G \in [S -> S]
    BY FreeOneType
  <1>3. b \in S
    BY DEF Freeing
  <1>4. a \in Nat /\ MaxCluster \in Nat /\ a <= MaxCluster
    BY Numbers
  <1>5. PICK f : Iterates(f, S, G, b, a, MaxCluster)
    <2> HIDE DEF S, G, b, a
    <2> QED
      BY ONLY <1>2, <1>3, <1>4, Iterate
  <1> HIDE DEF S
  <1>6. f = Rec(f)
    <2>1. f \in [0 .. MaxCluster -> S] /\ f[0] = b /\ \A i \in 1 .. MaxCluster : f[i] = G[f[i - 1]]
      <3>1. a = 0 /\ a + 1 = 1
        OBVIOUS
      <3> QED
        BY <1>5, <3>1 DEF Iterates
    <2>2. ASSUME NEW i \in 0 .. MaxCluster PROVE f[i] = Rec(f)[i]
      <3>1. CASE i = 0
        BY <2>1, <3>1
      <3>2. CASE i # 0
        <4>1. i \in 1 .. MaxCluster /\ i - 1 \in 0 .. MaxCluster
          BY <1>4, <3>2
        <4>2. f[i] = FreeOne(f[i - 1])
          BY <2>1, <4>1
        <4> QED
          BY <3>2, <4>2 DEF FreeOne
      <3> QED
        BY <3>1, <3>2
    <2> QED
      BY <2>1, <2>2
  <1>7. g = Rec(g)
    <2> HIDE DEF Rec
    <2> QED
      BY <1>6
  <1> HIDE DEF g
  <1>8. g[0] = b /\ \A i \in 1 .. MaxCluster : g[i] = FreeOne(g[i - 1])
    <2>1. ASSUME NEW i \in 0 .. MaxCluster PROVE g[i] = Rec(g)[i]
      BY <1>7
    <2>2. g[0] = b
      <3> DEFINE z == 0
      <3>1. z \in 0 .. MaxCluster
        BY Numbers
      <3>2. g[z] = Rec(g)[z]
        BY <2>1, <3>1
      <3> QED
        BY <3>1, <3>2
    <2>3. ASSUME NEW i \in 1 .. MaxCluster PROVE g[i] = FreeOne(g[i - 1])
      <3>1. i \in 0 .. MaxCluster /\ i # 0
        BY <1>4
      <3>2. g[i] = Rec(g)[i]
        BY <2>1, <3>1
      <3> QED
        BY <3>1, <3>2 DEF FreeOne
    <2> QED
      BY <2>2, <2>3
  <1>9. \A i \in 0 .. MaxCluster : g[i] \in S
    <2>1. g[a] = b
      BY <1>8
    <2>2. \A i \in a + 1 .. MaxCluster : g[i - 1] \in S => g[i] = G[g[i - 1]]
      <3>1. a + 1 = 1
        OBVIOUS
      <3> QED
        BY <1>8, <3>1
    <2>3. \A i \in a .. MaxCluster : g[i] \in S
      <3> HIDE DEF G, b, a
      <3> QED
        BY ONLY <1>2, <1>3, <1>4, <2>1, <2>2, Unrolled
    <2> QED
      BY <2>3
  <1> QED
    BY <1>1, <1>8, <1>9 DEF FreedBy, S

LEMMA FreeType ==
  ASSUME NEW n \in Nat, NEW d \in Disks(n), NEW start \in 0 .. EOC
  PROVE  FreeChain(d, start) \in Disks(n) /\ FreeChain(d, start).ok = d.ok /\ FreeChain(d, start).tag = d.tag
  <1>1. PICK g : FreedBy(n, d, start, g)
    BY Freed
  <1>2. MaxCluster \in 0 .. MaxCluster
    BY Numbers
  <1> QED
    BY <1>1, <1>2 DEF FreedBy, Freeing

\* A chain that is freed is free, and nothing else has changed.
LEMMA FreeIs ==
  ASSUME NEW n \in Nat, NEW d \in Disks(n), NEW c \in Clusters \cup {0}, NEW s, IsChain(d.fat, c, s)
  PROVE  \A x \in 0 .. MaxCluster :
           FreeChain(d, c).fat[x] = IF x \in ToSet(s) THEN 0 ELSE d.fat[x]
  <1> DEFINE L == Len(s)
             At(i) == IF i < L THEN s[i + 1] ELSE IF L = 0 THEN 0 ELSE EOC
             Off(i) == {s[j] : j \in {k \in 1 .. L : k <= i}}
             Is(F, i) == \A x \in 0 .. MaxCluster : F[x] = IF x \in Off(i) THEN 0 ELSE d.fat[x]
  <1>1. c \in 0 .. EOC /\ 0 \notin Clusters /\ EOC \notin Clusters
    BY Numbers
  <1>2. PICK g : FreedBy(n, d, c, g)
    BY <1>1, Freed
  <1>3. /\ L \in Nat /\ L < MaxCluster
        /\ \A i \in 1 .. L : s[i] \in Clusters /\ s[i] \in 0 .. MaxCluster
        /\ ToSet(s) = {s[i] : i \in 1 .. L} /\ (c = 0 <=> L = 0)
    <2>1. L \in Nat /\ (c = 0 <=> L = 0) /\ L < MaxCluster
      BY ChainFacts, ChainShort
    <2>2. \A i \in 1 .. L : s[i] \in Clusters
      BY ChainFacts
    <2>3. ToSet(s) = {s[i] : i \in 1 .. L}
      BY DEF IsChain, ToSet
    <2> QED
      BY <2>1, <2>2, <2>3, Numbers
  <1>4. L # 0 => /\ s[1] = c /\ d.fat[s[L]] = EOC
                 /\ \A i \in 1 .. L - 1 : d.fat[s[i]] = s[i + 1]
                 /\ \A i, j \in 1 .. L : s[i] = s[j] => i = j
    BY <1>3 DEF IsChain
  <1> HIDE DEF L
  <1> DEFINE P == {i \in Nat : i <= MaxCluster => g[i].at = At(i) /\ Is(g[i].disk.fat, i)}
  <1>5. 0 \in P
    <2>1. g[0].at = c /\ g[0].disk = d
      BY <1>2 DEF FreedBy
    <2>2. c = At(0)
      BY <1>3, <1>4
    <2>3. Off(0) = {}
      BY <1>3
    <2> HIDE DEF At, Off
    <2> QED
      BY <2>1, <2>2, <2>3
  <1>6. ASSUME NEW i \in 0 .. MaxCluster - 1, i \in P PROVE i + 1 \in P
    <2> DEFINE h == g[i]
               k == i + 1
    <2>1. k \in 1 .. MaxCluster /\ k - 1 = i /\ i <= MaxCluster /\ i \in 0 .. MaxCluster /\ k \in Nat
      BY Numbers
    <2>2. h.at = At(i) /\ Is(h.disk.fat, i)
      BY <1>6, <2>1
    <2>3. g[k] = FreeOne(h) /\ h \in Freeing(n, d)
      BY <1>2, <2>1 DEF FreedBy
    <2>4. h.disk.fat \in FATs /\ h.disk \in Disks(n)
      BY <2>3 DEF Freeing, Disks
    <2> HIDE DEF h, k
    <2>5. CASE i < L
      <3> DEFINE x == s[k]
                 F == h.disk.fat
                 H == [F EXCEPT ![x] = 0]
      <3>1. k \in 1 .. L /\ At(i) = x /\ x \in Clusters /\ x \in 0 .. MaxCluster /\ L # 0
        BY <1>3, <2>5 DEF k
      <3>2. x \notin Off(i)
        <4>1. \A j \in 1 .. L : j <= i => j # k
          BY <1>3 DEF k
        <4> QED
          BY <1>4, <3>1, <4>1
      <3>3. F[x] = d.fat[x]
        <4> HIDE DEF Off
        <4> QED
          BY <2>2, <3>1, <3>2
      <3>4. g[k].at = F[x] /\ g[k].disk.fat = H
        <4>1. g[k] = [disk |-> [h.disk EXCEPT !.fat[h.at] = 0], at |-> h.disk.fat[h.at]]
          BY <2>2, <2>3, <3>1 DEF FreeOne
        <4>2. h.at = x
          BY <2>2, <3>1
        <4> HIDE DEF x, At
        <4> QED
          BY <2>4, <4>1, <4>2 DEF Disks
      <3>5. F[x] = At(k)
        <4>1. CASE k = L
          BY <1>3, <1>4, <3>1, <3>3, <4>1
        <4>2. CASE k # L
          <5>1. k \in 1 .. L - 1 /\ k < L
            BY <1>3, <3>1, <4>2
          <5> QED
            BY <1>4, <3>1, <3>3, <5>1
        <4> QED
          BY <4>1, <4>2
      <3>6. Off(k) = Off(i) \cup {x}
        <4>1. {j \in 1 .. L : j <= k} = {j \in 1 .. L : j <= i} \cup {k}
          BY <1>3, <3>1 DEF k
        <4> QED
          BY <4>1
      <3>7. Is(H, k)
        <4> SUFFICES ASSUME NEW y \in 0 .. MaxCluster
                     PROVE  H[y] = IF y \in Off(k) THEN 0 ELSE d.fat[y]
          OBVIOUS
        <4>1. H[y] = IF y = x THEN 0 ELSE F[y]
          BY <2>4 DEF FATs
        <4> HIDE DEF Off, H, F, x
        <4> QED
          BY <2>2, <3>6, <4>1 DEF F
      <3> HIDE DEF At, Is, H, F, x
      <3> QED
        BY <2>1, <3>4, <3>5, <3>7 DEF k
    <2>6. CASE ~(i < L)
      <3>1. At(i) \notin Clusters /\ At(k) = At(i)
        BY <1>1, <1>3, <2>6 DEF k
      <3>2. Off(k) = Off(i)
        <4>1. {j \in 1 .. L : j <= k} = {j \in 1 .. L : j <= i}
          BY <1>3, <2>6 DEF k
        <4> QED
          BY <4>1
      <3>3. g[k] = h
        BY <2>2, <2>3, <3>1 DEF FreeOne
      <3> HIDE DEF At, Off
      <3>4. g[k].at = At(k) /\ Is(g[k].disk.fat, k)
        BY <2>2, <3>1, <3>2, <3>3
      <3> QED
        BY <2>1, <3>4 DEF k
    <2> QED
      BY <2>5, <2>6
  <1>7. P \in SUBSET Nat /\ MaxCluster \in Nat /\ MaxCluster \in 0 .. MaxCluster /\ MaxCluster <= MaxCluster
    BY Numbers
  <1>8. \A i \in 0 .. MaxCluster : i \in P
    <2> HIDE DEF P
    <2> QED
      BY ONLY <1>5, <1>6, <1>7, InductionUpTo
  <1>9. Is(g[MaxCluster].disk.fat, MaxCluster)
    <2>1. MaxCluster \in P
      BY <1>7, <1>8
    <2> HIDE DEF Is, At
    <2> QED
      BY <1>7, <2>1
  <1>10. Off(MaxCluster) = ToSet(s)
    <2>1. {k \in 1 .. L : k <= MaxCluster} = 1 .. L
      BY <1>3, <1>7
    <2> QED
      BY <1>3, <2>1
  <1> HIDE DEF Off
  <1> QED
    BY <1>2, <1>9, <1>10 DEF FreedBy
-----------------------------------------------------------------------------
(* fat32_truncate_op *)

\* The number of clusters for a units.
LEMMA NeededIs ==
  /\ \A a \in Nat : CeilDiv(a, CS) \in Nat /\ (a = 0 <=> CeilDiv(a, CS) = 0) /\ a \div CS \in Nat
  /\ \A a, b \in Nat : a <= b => CeilDiv(a, CS) <= CeilDiv(b, CS)
  <1>1. CS \in Nat \ {0}
    BY FatAssumption
  <1>2. ASSUME NEW a \in Nat
        PROVE  a \div CS \in Nat /\ CS * (a \div CS) <= a /\ a < CS * (a \div CS) + CS
    BY <1>1
  <1>3. ASSUME NEW a \in Nat, NEW b \in Nat, a <= b PROVE a \div CS <= b \div CS
    BY <1>1, <1>2, <1>3
  <1>4. ASSUME NEW a \in Nat
        PROVE  CeilDiv(a, CS) \in Nat /\ (a = 0 <=> CeilDiv(a, CS) = 0)
    <2>1. CASE a = 0
      BY <1>1, <2>1 DEF CeilDiv
    <2>2. CASE a # 0
      BY <1>1, <2>2 DEF CeilDiv
    <2> QED
      BY <2>1, <2>2
  <1>5. ASSUME NEW a \in Nat, NEW b \in Nat, a <= b PROVE CeilDiv(a, CS) <= CeilDiv(b, CS)
    <2>1. a + CS - 1 \in Nat /\ b + CS - 1 \in Nat /\ a + CS - 1 <= b + CS - 1
      BY <1>1, <1>5
    <2> QED
      BY <1>3, <2>1 DEF CeilDiv
  <1> QED
    BY <1>2, <1>4, <1>5

\* A chain cut behind its k-th cluster, in two steps: the end mark, and the
\* rest freed.
Suf(t, k) == [i \in 1 .. Len(t) - k |-> t[k + i]]

LEMMA CutIs ==
  ASSUME NEW F \in FATs, NEW c \in Clusters, NEW t, IsChain(F, c, t), NEW k \in 1 .. Len(t) - 1,
         NEW G, G = [F EXCEPT ![t[k]] = EOC]
  PROVE  /\ IsChain(G, t[k + 1], Suf(t, k)) /\ t[k + 1] \in Clusters
         /\ \A H : (\A x \in 0 .. MaxCluster : H[x] = IF x \in ToSet(Suf(t, k)) THEN 0 ELSE G[x])
                     => IsChain(H, c, Pre(t, k)) /\ Moved(F, H, t, Pre(t, k))
  <1> DEFINE L == Len(t)
             u == Pre(t, k)
             v == Suf(t, k)
             M == L - k
  <1>1. /\ L \in Nat \ {0} /\ t[1] = c /\ c # 0
        /\ F[t[L]] = EOC /\ \A i \in 1 .. L - 1 : F[t[i]] = t[i + 1]
        /\ \A i, j \in 1 .. L : t[i] = t[j] => i = j
        /\ \A i \in 1 .. L : t[i] \in Clusters
        /\ ToSet(t) = {t[i] : i \in 1 .. L} /\ ToSet(t) \subseteq Clusters
    <2>1. L \in Nat /\ L # 0 /\ c # 0 /\ \A i \in 1 .. L : t[i] \in Clusters
      BY ChainFacts, Numbers
    <2>2. ToSet(t) = {t[i] : i \in 1 .. L} /\ ToSet(t) \subseteq Clusters
      BY <2>1 DEF IsChain, ToSet
    <2> QED
      BY <2>1, <2>2 DEF IsChain
  <1> HIDE DEF L
  <1>2. /\ k \in Nat /\ k \in 1 .. L - 1 /\ k \in 1 .. L /\ k + 1 \in 1 .. L /\ M \in Nat \ {0} /\ k + M = L
        /\ \A i \in 1 .. M : k + i \in 1 .. L /\ k + i # k
        /\ \A i \in 1 .. k : i \in 1 .. L
    <2>1. k \in 1 .. L - 1
      BY DEF L
    <2>2. k \in Nat /\ k \in 1 .. L /\ k + 1 \in 1 .. L /\ M \in Nat \ {0} /\ k + M = L
      BY <1>1, <2>1
    <2>3. \A i \in 1 .. M : k + i \in 1 .. L /\ k + i # k
      BY <1>1, <2>2
    <2>4. \A i \in 1 .. k : i \in 1 .. L
      BY <1>1, <2>2
    <2> HIDE DEF M
    <2> QED
      BY <2>1, <2>2, <2>3, <2>4
  <1>3. /\ v \in Seq(Clusters) /\ Len(v) = M /\ \A i \in 1 .. M : v[i] = t[k + i]
        /\ ToSet(v) = {v[i] : i \in 1 .. M}
    <2>1. v = [i \in 1 .. M |-> t[k + i]]
      BY DEF Suf, L
    <2>2. v \in [1 .. M -> Clusters] /\ M \in Nat
      BY <1>1, <1>2, <2>1
    <2> HIDE DEF v, M
    <2>3. v \in Seq(Clusters) /\ Len(v) = M /\ DOMAIN v = 1 .. M
      BY <2>2
    <2> QED
      BY <2>1, <2>3 DEF ToSet
  <1>4. /\ u \in Seq(Clusters) /\ Len(u) = k /\ \A i \in 1 .. k : u[i] = t[i]
        /\ ToSet(u) = {u[i] : i \in 1 .. k}
    <2>1. u = [i \in 1 .. k |-> t[i]]
      BY DEF Pre
    <2>2. u \in [1 .. k -> Clusters] /\ k \in Nat
      BY <1>1, <1>2, <2>1
    <2> HIDE DEF u
    <2>3. u \in Seq(Clusters) /\ Len(u) = k /\ DOMAIN u = 1 .. k
      BY <2>2
    <2> QED
      BY <2>1, <2>3 DEF ToSet
  <1> DEFINE l == t[k]
  <1>5. G[l] = EOC /\ \A x \in Clusters : x # l => G[x] = F[x]
    <2>1. l \in 0 .. MaxCluster /\ DOMAIN F = 0 .. MaxCluster /\ \A x \in Clusters : x \in 0 .. MaxCluster
      BY <1>1, <1>2, Numbers DEF FATs
    <2> QED
      BY <2>1
  <1> HIDE DEF u, v, M, l
  <1>6. \A i \in 1 .. M : G[v[i]] = F[t[k + i]]
    <2> SUFFICES ASSUME NEW i \in 1 .. M PROVE G[v[i]] = F[t[k + i]]
      OBVIOUS
    <2>1. t[k + i] \in Clusters /\ t[k + i] # l
      BY <1>1, <1>2 DEF l
    <2> QED
      BY <1>3, <1>5, <2>1
  <1>7. IsChain(G, t[k + 1], v)
    <2>1. t[k + 1] # 0 /\ v # <<>> /\ v[1] = t[k + 1]
      <3>1. t[k + 1] \in Clusters /\ 1 \in 1 .. M
        BY <1>1, <1>2
      <3> QED
        BY <1>2, <1>3, <3>1, Numbers
    <2>2. G[v[Len(v)]] = EOC
      <3>1. M \in 1 .. M
        BY <1>2
      <3>2. G[v[M]] = F[t[k + M]]
        BY <1>6, <3>1
      <3> QED
        BY <1>1, <1>2, <1>3, <3>2
    <2>3. \A i \in 1 .. Len(v) - 1 : G[v[i]] = v[i + 1]
      <3> SUFFICES ASSUME NEW i \in 1 .. M - 1 PROVE G[v[i]] = v[i + 1]
        BY <1>3
      <3>1. i \in 1 .. M /\ i + 1 \in 1 .. M /\ k + i \in 1 .. L - 1 /\ k + (i + 1) = (k + i) + 1
        BY <1>1, <1>2
      <3> QED
        BY <1>1, <1>3, <1>6, <3>1
    <2>4. \A i, j \in 1 .. Len(v) : v[i] = v[j] => i = j
      <3> SUFFICES ASSUME NEW i \in 1 .. M, NEW j \in 1 .. M, v[i] = v[j] PROVE i = j
        BY <1>3
      <3>1. k + i = k + j
        BY <1>1, <1>2, <1>3
      <3> QED
        BY <1>2, <3>1
    <2> QED
      BY ONLY <1>3, <2>1, <2>2, <2>3, <2>4 DEF IsChain
  <1>8. ToSet(v) = {t[i] : i \in k + 1 .. L} /\ ToSet(u) = {t[i] : i \in 1 .. k}
    <2>1. \A i \in k + 1 .. L : i - k \in 1 .. M /\ k + (i - k) = i
      BY <1>1, <1>2
    <2>2. \A i \in 1 .. M : k + i \in k + 1 .. L
      BY <1>1, <1>2
    <2>3. ToSet(v) = {t[i] : i \in k + 1 .. L}
      <3>1. ASSUME NEW i \in 1 .. M PROVE v[i] \in {t[j] : j \in k + 1 .. L}
        BY <1>3, <2>2
      <3>2. ASSUME NEW j \in k + 1 .. L PROVE t[j] \in {v[i] : i \in 1 .. M}
        <4>1. j - k \in 1 .. M /\ v[j - k] = t[j]
          BY <1>3, <2>1
        <4> QED
          BY <4>1
      <3> QED
        BY <1>3, <3>1, <3>2
    <2> QED
      BY <1>4, <2>3
  <1>9. ToSet(t) = ToSet(u) \cup ToSet(v) /\ ToSet(u) \cap ToSet(v) = {}
    <2>1. 1 .. L = (1 .. k) \cup (k + 1 .. L) /\ \A i \in 1 .. k : i \in 1 .. L /\ i \notin k + 1 .. L
      BY <1>1, <1>2
    <2>2. \A i \in k + 1 .. L : i \in 1 .. L
      BY <1>1, <1>2
    <2> QED
      BY <1>1, <1>8, <2>1, <2>2
  <1> SUFFICES ASSUME NEW H,
                      \A x \in 0 .. MaxCluster : H[x] = IF x \in ToSet(v) THEN 0 ELSE G[x]
               PROVE  IsChain(H, c, u) /\ Moved(F, H, t, u)
    BY <1>1, <1>2, <1>7 DEF u, v
  <1>10. \A x \in Clusters : H[x] = IF x \in ToSet(v) THEN 0 ELSE G[x]
    BY Numbers
  <1>11. l \in ToSet(u)
    BY <1>2, <1>8 DEF l
  <1>12. Moved(F, H, t, u)
    BY <1>1, <1>5, <1>9, <1>10, <1>11 DEF Moved
  <1>13. \A i \in 1 .. k : H[t[i]] = G[t[i]]
    <2> SUFFICES ASSUME NEW i \in 1 .. k PROVE H[t[i]] = G[t[i]]
      OBVIOUS
    <2>1. t[i] \in ToSet(u) /\ t[i] \in Clusters
      BY <1>1, <1>2, <1>8
    <2> QED
      BY <1>9, <1>10, <2>1
  <1>14. IsChain(H, c, u)
    <2>1. u # <<>> /\ u[1] = c /\ H[u[Len(u)]] = EOC
      <3>1. 1 \in 1 .. k /\ k \in 1 .. k
        BY <1>2
      <3>2. H[t[k]] = EOC
        BY <1>5, <1>13, <3>1 DEF l
      <3>3. Len(u) = k /\ u[1] = t[1] /\ u[k] = t[k]
        BY <1>4, <3>1
      <3>4. u # <<>>
        <4>1. k # 0 /\ Len(<<>>) = 0
          BY <1>2
        <4> QED
          BY <3>3, <4>1
      <3>5. t[1] = c
        BY <1>1
      <3> QED
        BY <3>2, <3>3, <3>4, <3>5
    <2>2. \A i \in 1 .. Len(u) - 1 : H[u[i]] = u[i + 1]
      <3> SUFFICES ASSUME NEW i \in 1 .. k - 1 PROVE H[u[i]] = u[i + 1]
        BY <1>4
      <3>1. i \in 1 .. k /\ i + 1 \in 1 .. k /\ i \in 1 .. L - 1 /\ i \in 1 .. L /\ i # k
        BY <1>1, <1>2
      <3>2. t[i] \in Clusters /\ t[i] # l
        BY <1>1, <1>2, <3>1 DEF l
      <3>3. H[t[i]] = F[t[i]]
        BY <1>5, <1>13, <3>1, <3>2
      <3> QED
        BY <1>1, <1>4, <3>1, <3>3
    <2>3. \A i, j \in 1 .. Len(u) : u[i] = u[j] => i = j
      <3> SUFFICES ASSUME NEW i \in 1 .. k, NEW j \in 1 .. k, u[i] = u[j] PROVE i = j
        BY <1>4
      <3>1. i \in 1 .. L /\ j \in 1 .. L
        BY <1>2
      <3>2. t[i] = t[j]
        BY <1>4
      <3> QED
        BY <1>1, <3>1, <3>2
    <2> QED
      BY ONLY <1>1, <1>4, <2>1, <2>2, <2>3 DEF IsChain
  <1> QED
    BY <1>12, <1>14

LEMMA TruncType ==
  ASSUME NEW n \in Nat, NEW d \in Disks(n), NEW m, NEW nd \in Node(m), NEW size \in Sizes
  PROVE  /\ Truncated(d, nd, size).disk \in Disks(n)
         /\ Truncated(d, nd, size).node \in Node(m)
         /\ Truncated(d, nd, size).node.slot = nd.slot /\ Truncated(d, nd, size).node.id = nd.id
         /\ Truncated(d, nd, size).upd \in BOOLEAN
         /\ size = nd.size => Truncated(d, nd, size) = [disk |-> d, node |-> nd, upd |-> FALSE]
  <1> DEFINE needed == CeilDiv(size, CS)
             en == EnsureChain(d, nd.cluster, needed)
             n1 == [nd EXCEPT !.cluster = en.start]
             chain == ChainOf(en.disk.fat, en.start, needed)
             last == Last(chain)
             next == en.disk.fat[last]
             cut == IF next < EOC THEN FreeChain([en.disk EXCEPT !.fat[last] = EOC], next)
                    ELSE en.disk
  <1>1. size \in Nat /\ 0 \in Clusters \cup {0} /\ 0 \in Sizes
    BY FatAssumption DEF Sizes
  <1>2. nd.cluster \in Clusters \cup {0} /\ needed \in Nat /\ (size # 0 => needed # 0)
    BY <1>1, NeededIs DEF Node
  <1>3. en.disk \in Disks(n) /\ en.start \in Clusters \cup {0}
    <2> HIDE DEF needed
    <2> QED
      BY <1>2, EnsureType
  <1>4. n1 \in Node(m) /\ n1.slot = nd.slot /\ n1.id = nd.id
    <2> HIDE DEF en
    <2> QED
      BY <1>3 DEF Node
  <1>5. CASE size = nd.size
    BY <1>5 DEF Truncated
  <1>6. CASE size # nd.size /\ size = 0
    <2> DEFINE n0 == [nd EXCEPT !.cluster = 0, !.size = 0]
               e == FreeChain(d, nd.cluster)
    <2>1. Truncated(d, nd, size) = [disk |-> e, node |-> n0, upd |-> TRUE]
      BY <1>6 DEF Truncated
    <2>2. n0 \in Node(m) /\ n0.slot = nd.slot /\ n0.id = nd.id
      BY <1>1 DEF Node
    <2>3. nd.cluster \in 0 .. EOC
      BY <1>2, Numbers
    <2>4. e \in Disks(n)
      BY <2>3, FreeType
    <2> DEFINE T == Truncated(d, nd, size)
    <2> HIDE DEF n0, e
    <2>5. T.disk = e /\ T.node = n0 /\ T.upd = TRUE
      BY <2>1
    <2> HIDE DEF T
    <2>6. T.disk \in Disks(n) /\ T.node \in Node(m) /\ T.node.slot = nd.slot /\ T.node.id = nd.id /\ T.upd \in BOOLEAN
      BY <2>2, <2>4, <2>5
    <2> QED
      BY <1>6, <2>6 DEF T
  <1>7. CASE size # nd.size /\ size # 0 /\ (~en.disk.ok \/ \E i \in 1 .. Len(chain) : chain[i] < 2)
    <2>1. Truncated(d, nd, size) = [disk |-> en.disk, node |-> n1, upd |-> FALSE]
      BY <1>7 DEF Truncated
    <2> HIDE DEF n1, en
    <2> QED
      BY <1>3, <1>4, <1>7, <2>1
  <1>8. CASE size # nd.size /\ size # 0 /\ ~(~en.disk.ok \/ \E i \in 1 .. Len(chain) : chain[i] < 2)
    <2> DEFINE n2 == [n1 EXCEPT !.size = size]
    <2>1. Truncated(d, nd, size) = [disk |-> cut, node |-> n2, upd |-> TRUE]
      BY <1>8 DEF Truncated
    <2>2. n2 \in Node(m) /\ n2.slot = nd.slot /\ n2.id = nd.id
      <3> HIDE DEF n1
      <3> QED
        BY <1>4 DEF Node
    <2>3. cut \in Disks(n)
      <3> DEFINE e == en.disk
                 st == en.start
                 F == e.fat
                 f == [e EXCEPT !.fat[last] = EOC]
      <3>1. e \in Disks(n) /\ F \in FATs /\ st \in 0 .. MaxCluster /\ needed \in Nat \ {0}
        <4>1. e \in Disks(n) /\ st \in Clusters \cup {0} /\ needed \in Nat \ {0}
          BY <1>2, <1>3, <1>8
        <4> HIDE DEF e, st, needed
        <4>2. st \in 0 .. MaxCluster
          BY <4>1, Numbers
        <4> QED
          BY <4>1, <4>2 DEF Disks
      <3>2. last \in 0 .. MaxCluster
        <4> HIDE DEF F, st, needed
        <4>1. Last(ChainOf(F, st, needed)) \in 0 .. MaxCluster
          BY <3>1, ChainOfType
        <4> QED
          BY <4>1 DEF F, st
      <3> HIDE DEF last, e
      <3>3. next \in 0 .. EOC /\ EOC \in 0 .. EOC
        <4>1. F[last] \in 0 .. EOC
          BY <3>1, <3>2 DEF FATs
        <4> QED
          BY <4>1, Numbers DEF e
      <3>4. f \in Disks(n)
        BY <3>1, <3>2, <3>3 DEF Disks, FATs
      <3> HIDE DEF f, next
      <3>5. FreeChain(f, next) \in Disks(n)
        BY <3>3, <3>4, FreeType
      <3> QED
        BY <3>1, <3>5 DEF f, e
    <2> HIDE DEF cut, n2
    <2> QED
      BY <1>8, <2>1, <2>2, <2>3
  <1> QED
    BY <1>5, <1>6, <1>7, <1>8

\* What a truncate of node nd to another size, with chain s, has done when it
\* leaves disk e and node nd2, and whether it rewrites the entry.
Cut(d, nd, s, size, e, nd2, upd, u) ==
  /\ IsChain(e.fat, nd2.cluster, u)
  /\ Moved(d.fat, e.fat, s, u) /\ Kept(d.fat, d.tag, e.tag, s, u)
  /\ upd => e.ok /\ nd2.size = size /\ Len(u) = CeilDiv(size, CS)
  /\ ~upd => /\ ~e.ok /\ nd2.size = nd.size /\ Len(s) <= Len(u)
             /\ nd.cluster # 0 => nd2.cluster = nd.cluster

LEMMA TruncIs ==
  ASSUME NEW n \in Nat, NEW d \in Disks(n), d.ok, NEW m, NEW nd \in Node(m), NEW size \in Sizes,
         size # nd.size, NEW s, IsChain(d.fat, nd.cluster, s)
  PROVE  \E u : Cut(d, nd, s, size, Truncated(d, nd, size).disk, Truncated(d, nd, size).node,
                    Truncated(d, nd, size).upd, u)
  <1> DEFINE needed == CeilDiv(size, CS)
             en == EnsureChain(d, nd.cluster, needed)
             n1 == [nd EXCEPT !.cluster = en.start]
             chain == ChainOf(en.disk.fat, en.start, needed)
             last == Last(chain)
             next == en.disk.fat[last]
             cut == IF next < EOC THEN FreeChain([en.disk EXCEPT !.fat[last] = EOC], next)
                    ELSE en.disk
  <1>1. size \in Nat /\ 0 \in Clusters \cup {0}
    BY FatAssumption DEF Sizes
  <1>2. nd.cluster \in Clusters \cup {0} /\ needed \in Nat /\ (size = 0 <=> needed = 0)
    BY <1>1, NeededIs DEF Node
  <1>3. en.disk \in Disks(n) /\ en.start \in Clusters \cup {0} /\ (nd.cluster # 0 => en.start = nd.cluster)
    <2> HIDE DEF needed
    <2> QED
      BY <1>2, EnsureType
  <1>4. n1.cluster = en.start /\ n1.size = nd.size
    <2> HIDE DEF en
    <2> QED
      BY <1>3 DEF Node
  <1>5. Len(s) \in Nat /\ ToSet(s) \subseteq Clusters
    BY <1>2, ChainFacts
  <1>6. CASE size = 0
    <2> DEFINE n0 == [nd EXCEPT !.cluster = 0, !.size = 0]
               e == FreeChain(d, nd.cluster)
    <2>1. Truncated(d, nd, size) = [disk |-> e, node |-> n0, upd |-> TRUE]
      BY <1>6 DEF Truncated
    <2>2. n0.cluster = 0 /\ n0.size = 0
      BY DEF Node
    <2>3. e.ok /\ e.tag = d.tag
      <3>1. nd.cluster \in 0 .. EOC
        BY <1>2, Numbers
      <3> QED
        BY <3>1, FreeType
    <2>4. \A x \in Clusters : e.fat[x] = IF x \in ToSet(s) THEN 0 ELSE d.fat[x]
      <3> DEFINE c == nd.cluster
      <3>1. c \in Clusters \cup {0} /\ IsChain(d.fat, c, s)
        BY <1>2
      <3> HIDE DEF c
      <3>2. \A x \in 0 .. MaxCluster : FreeChain(d, c).fat[x] = IF x \in ToSet(s) THEN 0 ELSE d.fat[x]
        BY <3>1, FreeIs
      <3> QED
        BY <3>2, Numbers DEF c
    <2>5. ToSet(<<>>) = {} /\ Len(<<>>) = 0
      BY DEF ToSet
    <2> HIDE DEF e, n0
    <2>6. Moved(d.fat, e.fat, s, <<>>) /\ Kept(d.fat, d.tag, e.tag, s, <<>>)
      BY <1>5, <2>3, <2>4, <2>5 DEF Moved, Kept
    <2>7. IsChain(e.fat, 0, <<>>)
      BY DEF IsChain
    <2>8. Cut(d, nd, s, size, e, n0, TRUE, <<>>)
      BY <1>2, <1>6, <2>2, <2>3, <2>5, <2>6, <2>7 DEF Cut
    <2> DEFINE T == Truncated(d, nd, size)
    <2>9. T.disk = e /\ T.node = n0 /\ T.upd = TRUE
      BY <2>1
    <2> HIDE DEF T
    <2>10. Cut(d, nd, s, size, T.disk, T.node, T.upd, <<>>)
      BY <2>8, <2>9
    <2> QED
      BY <2>10 DEF T
  <1>7. CASE size # 0
    <2> DEFINE e == en.disk
               c == en.start
    <2>1. needed \in Nat \ {0}
      BY <1>2, <1>7
    <2>2. PICK t : Ensured(d, s, needed, e, c, t)
      <3> DEFINE st == nd.cluster
      <3>1. st \in Clusters \cup {0} /\ IsChain(d.fat, st, s) /\ needed \in Nat
        BY <1>2
      <3> HIDE DEF st, needed
      <3>2. \E t : Ensured(d, s, needed, EnsureChain(d, st, needed).disk, EnsureChain(d, st, needed).start, t)
        BY <3>1, EnsureIs
      <3> QED
        BY <3>2 DEF st
    <2> HIDE DEF e
    <2>3. /\ IsChain(e.fat, c, t) /\ Len(s) <= Len(t)
          /\ Moved(d.fat, e.fat, s, t) /\ Kept(d.fat, d.tag, e.tag, s, t)
          /\ e.ok => Len(t) = IF needed <= Len(s) THEN Len(s) ELSE needed
      BY <2>2 DEF Ensured
    <2>4. e \in Disks(n) /\ e.fat \in FATs /\ c \in Clusters \cup {0}
      BY <1>3 DEF e, Disks
    <2>5. Len(t) \in Nat /\ ToSet(t) \subseteq Clusters /\ (c = 0 <=> Len(t) = 0)
      <3> HIDE DEF c
      <3> QED
        BY <2>3, <2>4, ChainFacts
    <2>6. CASE ~e.ok
      <3>1. Truncated(d, nd, size) = [disk |-> e, node |-> n1, upd |-> FALSE]
        BY <1>7, <2>6 DEF Truncated, e
      <3> HIDE DEF n1, c
      <3>2. Cut(d, nd, s, size, e, n1, FALSE, t)
        BY <1>3, <1>4, <2>3, <2>6 DEF Cut, c
      <3> DEFINE T == Truncated(d, nd, size)
      <3>3. T.disk = e /\ T.node = n1 /\ T.upd = FALSE
        BY <3>1
      <3> HIDE DEF T
      <3>4. Cut(d, nd, s, size, T.disk, T.node, T.upd, t)
        BY <3>2, <3>3
      <3> QED
        BY <3>4 DEF T
    <2>7. CASE e.ok
      <3> DEFINE n2 == [n1 EXCEPT !.size = size]
      <3>1. needed <= Len(t) /\ needed \in 1 .. Len(t) /\ c # 0 /\ c \in Clusters
        BY <1>5, <2>1, <2>3, <2>4, <2>5, <2>7
      <3>2. ChainOf(e.fat, c, needed) = Pre(t, needed)
        <4>1. ChainOf(e.fat, c, needed) = Pre(t, IF needed <= Len(t) THEN needed ELSE Len(t))
          <5> HIDE DEF c, needed
          <5> QED
            BY <2>1, <2>3, <2>4, <3>1, ChainOfIs
        <4> QED
          BY <3>1, <4>1
      <3>3. last = t[needed] /\ last \in Clusters
        <4>1. last = Last(Pre(t, needed))
          BY <3>2 DEF e
        <4> HIDE DEF last, needed
        <4>2. Len(Pre(t, needed)) = needed /\ Pre(t, needed)[needed] = t[needed]
          BY <2>1 DEF Pre
        <4>3. t[needed] \in Clusters
          <5> HIDE DEF c
          <5> QED
            BY <2>3, <2>4, <3>1, ChainFacts
        <4> QED
          BY <4>1, <4>2, <4>3 DEF Last
      <3>4. ~\E i \in 1 .. Len(chain) : chain[i] < 2
        <4>1. chain = Pre(t, needed)
          BY <3>2 DEF e
        <4> HIDE DEF chain, needed, c
        <4>2. ASSUME NEW i \in 1 .. Len(chain)
              PROVE  chain[i] \in Clusters
          <5>1. i \in 1 .. Len(t) /\ chain[i] = t[i]
            BY <3>1, <4>1 DEF Pre
          <5> QED
            BY <2>3, <2>4, <3>1, <5>1, ChainFacts
        <4>3. \A x \in Clusters : ~(x < 2)
          BY Numbers
        <4> QED
          BY <4>2, <4>3
      <3>5. Truncated(d, nd, size) = [disk |-> cut, node |-> n2, upd |-> TRUE]
        BY <1>7, <2>7, <3>4 DEF Truncated, e
      <3> HIDE DEF last
      <3>6. n2.cluster = c /\ n2.size = size
        <4>1. n1 \in [slot : Slots, id : 1 .. m, cluster : Clusters \cup {0}, size : Sizes]
          <5> HIDE DEF en
          <5> QED
            BY <1>3 DEF Node
        <4> HIDE DEF n1, en
        <4> QED
          BY <1>4, <4>1
      <3>7. \E u : /\ IsChain(cut.fat, c, u) /\ cut.ok /\ Len(u) = needed
                   /\ Moved(e.fat, cut.fat, t, u) /\ Kept(e.fat, e.tag, cut.tag, t, u)
        <4>1. CASE needed = Len(t)
          <5>1. next = EOC
            <6> HIDE DEF c
            <6>1. e.fat[t[Len(t)]] = EOC
              BY <2>3, <3>1 DEF IsChain
            <6> QED
              BY <3>3, <4>1, <6>1 DEF e
          <5>2. cut = e
            <6>1. ~(next < EOC)
              BY <5>1, Numbers
            <6> QED
              BY <6>1 DEF e
          <5> HIDE DEF cut, c
          <5>3. Moved(e.fat, e.fat, t, t) /\ Kept(e.fat, e.tag, e.tag, t, t)
            BY NoMove
          <5> QED
            BY <2>3, <2>7, <4>1, <5>2, <5>3
        <4>2. CASE needed # Len(t)
          <5> DEFINE f == [e EXCEPT !.fat[last] = EOC]
                     k == needed
                     G == [e.fat EXCEPT ![t[k]] = EOC]
          <5>1. k \in 1 .. Len(t) - 1
            BY <2>5, <3>1, <4>2
          <5>2. next = t[k + 1]
            <6> HIDE DEF c, next, k
            <6>1. e.fat[t[k]] = t[k + 1]
              BY <2>3, <3>1, <5>1 DEF IsChain
            <6> QED
              BY <3>3, <6>1 DEF e, next, k
          <5>3. /\ IsChain(G, t[k + 1], Suf(t, k)) /\ t[k + 1] \in Clusters
                /\ \A H : (\A x \in 0 .. MaxCluster : H[x] = IF x \in ToSet(Suf(t, k)) THEN 0 ELSE G[x])
                            => IsChain(H, c, Pre(t, k)) /\ Moved(e.fat, H, t, Pre(t, k))
            <6>1. G = [e.fat EXCEPT ![t[k]] = EOC]
              OBVIOUS
            <6> HIDE DEF c, G, k
            <6> QED
              BY <2>3, <2>4, <3>1, <5>1, <6>1, CutIs
          <5>4. f \in Disks(n) /\ f.fat = G /\ f.ok /\ f.tag = e.tag
            <6>1. last \in 0 .. MaxCluster /\ EOC \in 0 .. EOC
              BY <3>3, Numbers
            <6> QED
              BY <2>4, <2>7, <3>3, <6>1 DEF Disks, FATs
          <5>5. cut = FreeChain(f, t[k + 1])
            <6>1. t[k + 1] < EOC
              BY <5>3, Numbers
            <6> QED
              BY <5>2, <6>1 DEF e
          <5> HIDE DEF f, G, cut
          <5> DEFINE x1 == t[k + 1]
                     v == Suf(t, k)
                     u == Pre(t, k)
          <5>6. x1 \in Clusters \cup {0} /\ x1 \in 0 .. EOC /\ IsChain(f.fat, x1, v)
            BY <5>3, <5>4, Numbers
          <5> HIDE DEF x1, v
          <5>7. \A x \in 0 .. MaxCluster : FreeChain(f, x1).fat[x] = IF x \in ToSet(v) THEN 0 ELSE f.fat[x]
            BY <5>4, <5>6, FreeIs
          <5>8. FreeChain(f, x1).ok /\ FreeChain(f, x1).tag = e.tag
            BY <5>4, <5>6, FreeType
          <5>9. IsChain(cut.fat, c, u) /\ Moved(e.fat, cut.fat, t, u)
            <6> HIDE DEF c
            <6> QED
              BY <5>3, <5>4, <5>5, <5>7 DEF x1, v
          <5>10. Len(u) = k /\ ToSet(u) \subseteq ToSet(t)
            <6>1. u = [i \in 1 .. k |-> t[i]] /\ DOMAIN t = 1 .. Len(t)
              <7> HIDE DEF c, k
              <7> QED
                BY <2>3 DEF Pre, IsChain
            <6>2. \A i \in 1 .. k : i \in 1 .. Len(t)
              BY <2>1, <2>5, <3>1
            <6> HIDE DEF u, k
            <6>3. Len(u) = k /\ DOMAIN u = 1 .. k
              BY <2>1, <6>1 DEF k
            <6> QED
              BY <6>1, <6>2, <6>3 DEF ToSet
          <5>11. Kept(e.fat, e.tag, cut.tag, t, u)
            <6> HIDE DEF u
            <6> QED
              BY <5>5, <5>8, <5>10 DEF Kept, x1
          <5> HIDE DEF u, c
          <5> QED
            BY <5>5, <5>8, <5>9, <5>10, <5>11 DEF x1
        <4> QED
          BY <4>1, <4>2
      <3> HIDE DEF cut
      <3>8. PICK u : /\ IsChain(cut.fat, c, u) /\ cut.ok /\ Len(u) = needed
                     /\ Moved(e.fat, cut.fat, t, u) /\ Kept(e.fat, e.tag, cut.tag, t, u)
        BY <3>7
      <3>9. ToSet(u) \subseteq Clusters
        <4> HIDE DEF c
        <4> QED
          BY <2>4, <3>8, ChainFacts
      <3>10. Moved(d.fat, cut.fat, s, u) /\ Kept(d.fat, d.tag, cut.tag, s, u)
        BY <1>5, <2>3, <2>5, <3>8, <3>9, MoveMove
      <3> HIDE DEF n2, c
      <3>11. Cut(d, nd, s, size, cut, n2, TRUE, u)
        BY <3>6, <3>8, <3>10 DEF Cut
      <3> DEFINE T == Truncated(d, nd, size)
      <3>12. T.disk = cut /\ T.node = n2 /\ T.upd = TRUE
        BY <3>5
      <3> HIDE DEF T
      <3>13. Cut(d, nd, s, size, T.disk, T.node, T.upd, u)
        BY <3>11, <3>12
      <3> QED
        BY <3>13 DEF T
    <2> QED
      BY <2>6, <2>7
  <1> QED
    BY <1>6, <1>7
-----------------------------------------------------------------------------
(* Who holds what *)

Dirs(n) == [Slots -> [name : Names \cup {NULL}, id : 0 .. n,
                      cluster : Clusters \cup {0}, size : Sizes]]
Nodes(n) == [Handles -> Node(n) \cup {NULL}]
Starting == [Keys -> Clusters \cup {0}]

LEMMA KeysAre ==
  /\ \A s \in Slots : EntryOf(s) \in Keys
  /\ \A h \in Handles : NodeOf(h) \in Keys
  /\ \A s, h : EntryOf(s) # NodeOf(h)
  /\ \A r, s : EntryOf(r) = EntryOf(s) => r = s
  /\ \A g, h : NodeOf(g) = NodeOf(h) => g = h
  <1>1. "entry" # "node"
    OBVIOUS
  <1>2. \A s, h : EntryOf(s) # NodeOf(h)
    BY <1>1 DEF EntryOf, NodeOf
  <1>3. \A r, s : EntryOf(r) = EntryOf(s) => r = s
    BY DEF EntryOf
  <1>4. \A g, h : NodeOf(g) = NodeOf(h) => g = h
    BY DEF NodeOf
  <1> QED
    BY <1>2, <1>3, <1>4 DEF Keys

LEMMA StartsAre ==
  ASSUME NEW n, NEW D \in Dirs(n), NEW N \in Nodes(n)
  PROVE  /\ Starts(D, N) \in Starting
         /\ \A s \in Slots : Starts(D, N)[EntryOf(s)] = D[s].cluster
         /\ \A h \in Handles :
              Starts(D, N)[NodeOf(h)] = IF N[h] # NULL /\ N[h].size = 0 THEN N[h].cluster ELSE 0
  <1>1. ASSUME NEW s \in Slots
        PROVE  Starts(D, N)[EntryOf(s)] = D[s].cluster /\ D[s].cluster \in Clusters \cup {0}
    <2>1. EntryOf(s) \in Keys /\ EntryOf(s)[2] = "entry" /\ EntryOf(s)[1] = s
      BY KeysAre DEF EntryOf
    <2>2. D[s].cluster \in Clusters \cup {0}
      BY DEF Dirs
    <2> QED
      BY <2>1, <2>2 DEF Starts
  <1>2. ASSUME NEW h \in Handles
        PROVE  /\ Starts(D, N)[NodeOf(h)]
                  = IF N[h] # NULL /\ N[h].size = 0 THEN N[h].cluster ELSE 0
               /\ Starts(D, N)[NodeOf(h)] \in Clusters \cup {0}
    <2>1. NodeOf(h) \in Keys /\ NodeOf(h)[2] # "entry" /\ NodeOf(h)[1] = h
      BY KeysAre DEF NodeOf
    <2>2. Starts(D, N)[NodeOf(h)] = IF N[h] # NULL /\ N[h].size = 0 THEN N[h].cluster ELSE 0
      BY <2>1 DEF Starts
    <2>3. N[h] # NULL => N[h].cluster \in Clusters \cup {0}
      BY DEF Nodes, Node
    <2> QED
      BY <2>2, <2>3
  <1>3. \A k \in Keys : Starts(D, N)[k] \in Clusters \cup {0}
    <2> DEFINE st == Starts(D, N)
    <2> HIDE DEF st
    <2> QED
      BY <1>1, <1>2 DEF Keys, st
  <1>4. Starts(D, N) \in Starting
    BY <1>3 DEF Starts, Starting
  <1> QED
    BY <1>1, <1>2, <1>4

LEMMA LayFacts ==
  ASSUME NEW F \in FATs, NEW st \in Starting, Lay(F, st), NEW k \in Keys
  PROVE  /\ st[k] \in Clusters \cup {0} /\ IsChain(F, st[k], Walk(F, st[k]))
         /\ Held(F, st[k]) = ToSet(Walk(F, st[k])) /\ Held(F, st[k]) \subseteq Clusters
         /\ \A x \in Held(F, st[k]) : F[x] # 0
  <1> DEFINE c == st[k]
             s == Walk(F, c)
  <1>1. c \in Clusters \cup {0} /\ IsChain(F, c, s)
    BY DEF Starting, Lay
  <1> HIDE DEF c, s
  <1>2. \A x \in ToSet(s) : F[x] # 0
    BY <1>1, ChainTaken
  <1>3. ToSet(s) \subseteq Clusters
    BY <1>1, ChainFacts
  <1> QED
    BY <1>1, <1>2, <1>3 DEF c, s, Held

LEMMA WalkZero == \A F : Walk(F, 0) = <<>> /\ Held(F, 0) = {}
  BY DEF Walk, Held, ToSet

\* The chain s of holder k0 becomes the chain u of holder k1.
LEMMA LayStep ==
  ASSUME NEW F \in FATs, NEW G \in FATs, NEW st \in Starting, NEW su \in Starting, Lay(F, st),
         NEW k0 \in Keys, NEW k1 \in Keys, NEW s, NEW u,
         IsChain(F, st[k0], s), IsChain(G, su[k1], u), Moved(F, G, s, u),
         k0 # k1 => st[k1] = 0 /\ su[k0] = 0,
         \A k \in Keys : k # k0 /\ k # k1 => su[k] = st[k]
  PROVE  /\ Lay(G, su) /\ Walk(G, su[k1]) = u /\ Held(G, su[k1]) = ToSet(u)
         /\ Held(F, st[k0]) = ToSet(s) /\ Walk(F, st[k0]) = s
         /\ \A k \in Keys : k # k1 => /\ Walk(G, su[k]) = Walk(F, su[k])
                                      /\ Held(G, su[k]) = Held(F, su[k])
                                      /\ Held(F, su[k]) \cap ToSet(s) = {}
                                      /\ Held(F, su[k]) \cap ToSet(u) = {}
  <1>1. Walk(F, st[k0]) = s /\ Held(F, st[k0]) = ToSet(s)
    <2> DEFINE c == st[k0]
    <2>1. c \in Clusters \cup {0} /\ IsChain(F, c, s)
      BY DEF Starting
    <2> HIDE DEF c
    <2>2. Walk(F, c) = s /\ Held(F, c) = ToSet(s)
      BY <2>1, WalkIs
    <2> QED
      BY <2>2 DEF c
  <1>2. Walk(G, su[k1]) = u /\ Held(G, su[k1]) = ToSet(u)
    <2> DEFINE c == su[k1]
    <2>1. c \in Clusters \cup {0} /\ IsChain(G, c, u)
      BY DEF Starting
    <2> HIDE DEF c
    <2>2. Walk(G, c) = u /\ Held(G, c) = ToSet(u)
      BY <2>1, WalkIs
    <2> QED
      BY <2>2 DEF c
  <1>3. ASSUME NEW k \in Keys, k # k1
        PROVE  /\ IsChain(G, su[k], Walk(F, su[k]))
               /\ Walk(G, su[k]) = Walk(F, su[k]) /\ Held(G, su[k]) = Held(F, su[k])
               /\ Held(F, su[k]) \cap ToSet(s) = {} /\ Held(F, su[k]) \cap ToSet(u) = {}
    <2>1. CASE k = k0
      <3>1. su[k] = 0
        BY <1>3, <2>1
      <3>2. IsChain(G, 0, <<>>)
        BY DEF IsChain
      <3> QED
        BY <3>1, <3>2, WalkZero
    <2>2. CASE k # k0
      <3> DEFINE c == su[k]
                 w == Walk(F, c)
      <3>1. c = st[k] /\ c \in Clusters \cup {0}
        BY <1>3, <2>2 DEF Starting
      <3>2. IsChain(F, c, w) /\ Held(F, c) = ToSet(w) /\ ToSet(w) \subseteq Clusters /\ \A x \in ToSet(w) : F[x] # 0
        BY <3>1, LayFacts
      <3>3. ToSet(w) \cap ToSet(s) = {}
        BY <1>1, <2>2, <3>1, <3>2 DEF Lay
      <3> HIDE DEF c, w
      <3>4. ToSet(w) \cap ToSet(u) = {}
        BY <3>2, <3>3 DEF Moved
      <3>5. \A x \in ToSet(w) : G[x] = F[x]
        BY <3>2, <3>3, <3>4 DEF Moved
      <3>6. IsChain(G, c, w)
        BY <3>1, <3>2, <3>5, ChainFrame
      <3>7. Walk(G, c) = w /\ Held(G, c) = ToSet(w)
        BY <3>1, <3>6, WalkIs
      <3> QED
        BY <3>2, <3>3, <3>4, <3>6, <3>7 DEF c, w
    <2> QED
      BY <2>1, <2>2
  <1>4. \A k \in Keys : IsChain(G, su[k], Walk(G, su[k]))
    BY <1>2, <1>3
  <1>5. ASSUME NEW j \in Keys, NEW k \in Keys, j # k
        PROVE  Held(G, su[j]) \cap Held(G, su[k]) = {}
    <2>1. CASE j = k1
      BY <1>2, <1>3, <1>5, <2>1
    <2>2. CASE k = k1
      BY <1>2, <1>3, <1>5, <2>2
    <2>3. CASE j # k1 /\ k # k1
      <3>1. Held(G, su[j]) = Held(F, su[j]) /\ Held(G, su[k]) = Held(F, su[k])
        BY <1>3, <2>3
      <3>2. CASE j # k0 /\ k # k0
        BY <1>5, <2>3, <3>1, <3>2 DEF Lay
      <3>3. CASE j = k0 \/ k = k0
        BY <2>3, <3>1, <3>3, WalkZero
      <3> QED
        BY <3>2, <3>3
    <2> QED
      BY <2>1, <2>2, <2>3
  <1> QED
    BY <1>1, <1>2, <1>3, <1>4, <1>5 DEF Lay

\* Some holders have lost what they held.
LEMMA LayDrop ==
  ASSUME NEW F \in FATs, NEW st \in Starting, NEW su \in Starting, Lay(F, st),
         \A k \in Keys : su[k] = st[k] \/ su[k] = 0
  PROVE  Lay(F, su)
  <1>1. IsChain(F, 0, <<>>)
    BY DEF IsChain
  <1>2. \A k \in Keys : IsChain(F, su[k], Walk(F, su[k]))
    BY <1>1, WalkZero DEF Lay
  <1>3. \A j, k \in Keys : j # k => Held(F, su[j]) \cap Held(F, su[k]) = {}
    BY WalkZero DEF Lay
  <1> QED
    BY <1>2, <1>3 DEF Lay

\* What a call does for the entry S: its new chain u was the entry's, or
\* that of node h.
EntryChange(n, F, G, T, V, D, N, E, M, S, k0, s, u) ==
  /\ F \in FATs /\ G \in FATs
  /\ D \in Dirs(n) /\ N \in Nodes(n) /\ E \in Dirs(n) /\ M \in Nodes(n)
  /\ Sound(F, T, D, N) /\ S \in Slots /\ k0 \in Keys
  /\ k0 = EntryOf(S) \/ \E h \in Handles : k0 = NodeOf(h)
  /\ IsChain(F, Starts(D, N)[k0], s) /\ IsChain(G, E[S].cluster, u) /\ Moved(F, G, s, u)
  /\ k0 # EntryOf(S) => D[S].cluster = 0 /\ Starts(E, M)[k0] = 0
  /\ \A r \in Slots : r # S => E[r] = D[r]
  /\ \A h \in Handles : NodeOf(h) # k0 => Starts(E, M)[NodeOf(h)] = Starts(D, N)[NodeOf(h)]
  /\ \A x \in Clusters : F[x] # 0 /\ x \notin ToSet(s) /\ x \notin ToSet(u) => V[x] = T[x]
  /\ \A x \in ToSet(u) : V[x] \in {0, E[S].id}
  /\ E[S].name = NULL => E[S] = FreeSlot
  /\ E[S].size = 0 <=> E[S].cluster = 0
  /\ CeilDiv(E[S].size, CS) <= Len(u)

LEMMA EntryStep ==
  ASSUME NEW n, NEW F, NEW G, NEW T, NEW V, NEW D, NEW N, NEW E, NEW M, NEW S, NEW k0, NEW s, NEW u,
         EntryChange(n, F, G, T, V, D, N, E, M, S, k0, s, u)
  PROVE  /\ Sound(G, V, E, M)
         /\ Exact(F, D, N) /\ Len(u) = CeilDiv(E[S].size, CS) => Exact(G, E, M)
  <1>0. /\ F \in FATs /\ G \in FATs
        /\ D \in Dirs(n) /\ N \in Nodes(n) /\ E \in Dirs(n) /\ M \in Nodes(n)
        /\ Sound(F, T, D, N) /\ S \in Slots /\ k0 \in Keys
        /\ k0 = EntryOf(S) \/ \E h \in Handles : k0 = NodeOf(h)
        /\ IsChain(F, Starts(D, N)[k0], s) /\ IsChain(G, E[S].cluster, u) /\ Moved(F, G, s, u)
        /\ k0 # EntryOf(S) => D[S].cluster = 0 /\ Starts(E, M)[k0] = 0
        /\ \A r \in Slots : r # S => E[r] = D[r]
        /\ \A h \in Handles : NodeOf(h) # k0 => Starts(E, M)[NodeOf(h)] = Starts(D, N)[NodeOf(h)]
        /\ \A x \in Clusters : F[x] # 0 /\ x \notin ToSet(s) /\ x \notin ToSet(u) => V[x] = T[x]
        /\ \A x \in ToSet(u) : V[x] \in {0, E[S].id}
        /\ E[S].name = NULL => E[S] = FreeSlot
        /\ E[S].size = 0 <=> E[S].cluster = 0
        /\ CeilDiv(E[S].size, CS) <= Len(u)
    BY DEF EntryChange
  <1> USE <1>0
  <1> DEFINE st == Starts(D, N)
             su == Starts(E, M)
             k1 == EntryOf(S)
  <1>1. /\ st \in Starting /\ su \in Starting /\ k1 \in Keys
        /\ \A r \in Slots : /\ EntryOf(r) \in Keys /\ (r # S => EntryOf(r) # k1)
                            /\ st[EntryOf(r)] = D[r].cluster /\ su[EntryOf(r)] = E[r].cluster
        /\ \A h \in Handles : NodeOf(h) \in Keys /\ NodeOf(h) # k1
    BY StartsAre, KeysAre
  <1>2. \A k \in Keys : k # k0 /\ k # k1 => su[k] = st[k]
    <2> SUFFICES ASSUME NEW k \in Keys, k # k0, k # k1 PROVE su[k] = st[k]
      OBVIOUS
    <2>1. CASE \E r \in Slots : k = EntryOf(r)
      BY <1>1, <2>1
    <2>2. CASE \E h \in Handles : k = NodeOf(h)
      BY <2>2
    <2> QED
      BY <2>1, <2>2 DEF Keys
  <1> HIDE DEF k1
  <1>3. k0 # k1 => st[k1] = 0 /\ su[k0] = 0
    BY <1>1 DEF k1
  <1>4. su[k1] = E[S].cluster /\ Lay(F, st)
    BY <1>1 DEF k1, Sound
  <1> HIDE DEF st, su
  <1>5. /\ Lay(G, su) /\ Walk(G, su[k1]) = u /\ Held(G, su[k1]) = ToSet(u)
        /\ Held(F, st[k0]) = ToSet(s)
        /\ \A k \in Keys : k # k1 => /\ Walk(G, su[k]) = Walk(F, su[k])
                                     /\ Held(G, su[k]) = Held(F, su[k])
                                     /\ Held(F, su[k]) \cap ToSet(s) = {}
                                     /\ Held(F, su[k]) \cap ToSet(u) = {}
    <2>1. IsChain(F, st[k0], s) /\ IsChain(G, su[k1], u)
      BY <1>4 DEF st
    <2> QED
      BY <1>1, <1>2, <1>3, <1>4, <2>1, LayStep
  <1>6. ASSUME NEW r \in Slots, r # S
        PROVE  /\ E[r] = D[r] /\ Walk(G, E[r].cluster) = Walk(F, D[r].cluster)
               /\ Held(G, E[r].cluster) = Held(F, D[r].cluster)
               /\ Held(F, D[r].cluster) \cap ToSet(s) = {} /\ Held(F, D[r].cluster) \cap ToSet(u) = {}
               /\ Held(F, D[r].cluster) \subseteq Clusters /\ \A x \in Held(F, D[r].cluster) : F[x] # 0
    <2>1. E[r] = D[r] /\ su[EntryOf(r)] = D[r].cluster /\ st[EntryOf(r)] = D[r].cluster
      BY <1>1, <1>6
    <2>2. EntryOf(r) \in Keys /\ EntryOf(r) # k1
      BY <1>1, <1>6
    <2>3. Held(F, st[EntryOf(r)]) \subseteq Clusters /\ \A x \in Held(F, st[EntryOf(r)]) : F[x] # 0
      BY <1>1, <1>4, <2>2, LayFacts
    <2> QED
      BY <1>5, <2>1, <2>2, <2>3
  <1>7. Walk(G, E[S].cluster) = u /\ Held(G, E[S].cluster) = ToSet(u)
    BY <1>4, <1>5
  <1>8. Entries(G, E)
    <2> SUFFICES ASSUME NEW r \in Slots
                 PROVE  /\ E[r].name = NULL => E[r] = FreeSlot
                        /\ E[r].size = 0 <=> E[r].cluster = 0
                        /\ CeilDiv(E[r].size, CS) <= Len(Walk(G, E[r].cluster))
      BY DEF Entries
    <2>1. CASE r = S
      BY <1>7, <2>1
    <2>2. CASE r # S
      <3>1. /\ D[r].name = NULL => D[r] = FreeSlot
            /\ D[r].size = 0 <=> D[r].cluster = 0
            /\ CeilDiv(D[r].size, CS) <= Len(Walk(F, D[r].cluster))
        BY DEF Sound, Entries
      <3> QED
        BY <1>6, <2>2, <3>1
    <2> QED
      BY <2>1, <2>2
  <1>9. ASSUME NEW r \in Slots, NEW x \in Held(G, E[r].cluster) PROVE V[x] \in {0, E[r].id}
    <2>1. CASE r = S
      BY <1>7, <1>9, <2>1
    <2>2. CASE r # S
      <3>1. x \in Held(F, D[r].cluster) /\ E[r] = D[r] /\ V[x] = T[x]
        BY <1>6, <1>9, <2>2
      <3>2. T[x] \in {0, D[r].id}
        BY <3>1 DEF Sound, Tags
      <3> QED
        BY <3>1, <3>2
    <2> QED
      BY <2>1, <2>2
  <1>10. ASSUME NEW h \in Handles, NEW x \in Held(G, su[NodeOf(h)]) PROVE V[x] = 0
    <2> DEFINE k == NodeOf(h)
    <2>1. k \in Keys /\ k # k1
      BY <1>1
    <2> HIDE DEF k
    <2>2. x \in Held(F, su[k]) /\ x \notin ToSet(s) /\ x \notin ToSet(u)
      BY <1>5, <1>10, <2>1 DEF k
    <2>3. CASE k = k0
      <3>1. su[k] = 0
        BY <1>3, <2>1, <2>3
      <3> QED
        BY <2>2, <3>1, WalkZero
    <2>4. CASE k # k0
      <3>1. su[k] = st[k]
        BY <1>2, <2>1, <2>4
      <3>2. x \in Clusters /\ F[x] # 0
        BY <1>1, <1>4, <2>1, <2>2, <3>1, LayFacts
      <3>3. T[x] = 0
        BY <2>2, <3>1 DEF Sound, Tags, k, st
      <3> QED
        BY <2>2, <3>2, <3>3
    <2> QED
      BY <2>3, <2>4
  <1>11. Sound(G, V, E, M)
    BY <1>5, <1>8, <1>9, <1>10 DEF Sound, Tags, su
  <1>12. ASSUME Exact(F, D, N), Len(u) = CeilDiv(E[S].size, CS) PROVE Exact(G, E, M)
    <2>1. ASSUME NEW h \in Handles PROVE su[NodeOf(h)] = 0
      <3>1. CASE NodeOf(h) = k0
        BY <1>1, <1>3, <3>1
      <3>2. CASE NodeOf(h) # k0
        BY <1>12, <3>2 DEF Exact, su
      <3> QED
        BY <3>1, <3>2
    <2>2. ASSUME NEW x \in Clusters, G[x] # 0 PROVE \E r \in Slots : x \in Held(G, E[r].cluster)
      <3>1. CASE x \in ToSet(u)
        BY <1>7, <3>1
      <3>2. CASE x \notin ToSet(u)
        <4>1. x \notin ToSet(s) /\ F[x] # 0
          BY <2>2, <3>2 DEF Moved
        <4>2. PICK r \in Slots : x \in Held(F, D[r].cluster)
          BY <1>12, <4>1 DEF Exact
        <4>3. CASE r # S
          BY <1>6, <4>2, <4>3
        <4>4. CASE r = S
          <5>1. CASE k0 = k1
            BY <1>1, <1>5, <4>1, <4>2, <4>4, <5>1 DEF k1
          <5>2. CASE k0 # k1
            BY <4>2, <4>4, <5>2, WalkZero DEF k1
          <5> QED
            BY <5>1, <5>2
        <4> QED
          BY <4>3, <4>4
      <3> QED
        BY <3>1, <3>2
    <2>3. ASSUME NEW r \in Slots PROVE Len(Walk(G, E[r].cluster)) = CeilDiv(E[r].size, CS)
      <3>1. CASE r = S
        BY <1>7, <1>12, <3>1
      <3>2. CASE r # S
        BY <1>6, <1>12, <3>2 DEF Exact
      <3> QED
        BY <3>1, <3>2
    <2> QED
      BY <2>1, <2>2, <2>3 DEF Exact, su
  <1> QED
    BY <1>11, <1>12

\* A first write runs out of clusters: what it took is the node's.
NodeChange(n, F, G, T, V, D, N, M, h, s, u) ==
  /\ F \in FATs /\ G \in FATs /\ D \in Dirs(n) /\ N \in Nodes(n) /\ M \in Nodes(n)
  /\ Sound(F, T, D, N) /\ h \in Handles
  /\ IsChain(F, Starts(D, N)[NodeOf(h)], s) /\ IsChain(G, Starts(D, M)[NodeOf(h)], u)
  /\ Moved(F, G, s, u)
  /\ \A g \in Handles : g # h => Starts(D, M)[NodeOf(g)] = Starts(D, N)[NodeOf(g)]
  /\ \A x \in Clusters : F[x] # 0 /\ x \notin ToSet(s) /\ x \notin ToSet(u) => V[x] = T[x]
  /\ \A x \in ToSet(u) : V[x] = 0

LEMMA NodeStep ==
  ASSUME NEW n, NEW F, NEW G, NEW T, NEW V, NEW D, NEW N, NEW M, NEW h, NEW s, NEW u,
         NodeChange(n, F, G, T, V, D, N, M, h, s, u)
  PROVE  Sound(G, V, D, M)
  <1>0. /\ F \in FATs /\ G \in FATs /\ D \in Dirs(n) /\ N \in Nodes(n) /\ M \in Nodes(n)
        /\ Sound(F, T, D, N) /\ h \in Handles
        /\ IsChain(F, Starts(D, N)[NodeOf(h)], s) /\ IsChain(G, Starts(D, M)[NodeOf(h)], u)
        /\ Moved(F, G, s, u)
        /\ \A g \in Handles : g # h => Starts(D, M)[NodeOf(g)] = Starts(D, N)[NodeOf(g)]
        /\ \A x \in Clusters : F[x] # 0 /\ x \notin ToSet(s) /\ x \notin ToSet(u) => V[x] = T[x]
        /\ \A x \in ToSet(u) : V[x] = 0
    BY DEF NodeChange
  <1> USE <1>0
  <1> DEFINE st == Starts(D, N)
             su == Starts(D, M)
             k0 == NodeOf(h)
  <1>1. /\ st \in Starting /\ su \in Starting /\ k0 \in Keys
        /\ \A r \in Slots : /\ EntryOf(r) \in Keys /\ EntryOf(r) # k0
                            /\ st[EntryOf(r)] = D[r].cluster /\ su[EntryOf(r)] = D[r].cluster
        /\ \A g \in Handles : NodeOf(g) \in Keys /\ (NodeOf(g) = k0 <=> g = h)
    BY StartsAre, KeysAre
  <1> HIDE DEF k0
  <1>2. \A k \in Keys : k # k0 => su[k] = st[k]
    <2> SUFFICES ASSUME NEW k \in Keys, k # k0 PROVE su[k] = st[k]
      OBVIOUS
    <2>1. CASE \E r \in Slots : k = EntryOf(r)
      BY <1>1, <2>1
    <2>2. CASE \E g \in Handles : k = NodeOf(g)
      BY <1>1, <2>2
    <2> QED
      BY <2>1, <2>2 DEF Keys
  <1>3. Lay(F, st) /\ IsChain(F, st[k0], s) /\ IsChain(G, su[k0], u)
    BY DEF Sound, k0
  <1> HIDE DEF st, su
  <1>4. /\ Lay(G, su) /\ Walk(G, su[k0]) = u /\ Held(G, su[k0]) = ToSet(u)
        /\ Held(F, st[k0]) = ToSet(s)
        /\ \A k \in Keys : k # k0 => /\ Walk(G, su[k]) = Walk(F, su[k])
                                     /\ Held(G, su[k]) = Held(F, su[k])
                                     /\ Held(F, su[k]) \cap ToSet(s) = {}
                                     /\ Held(F, su[k]) \cap ToSet(u) = {}
    BY <1>1, <1>2, <1>3, LayStep
  <1>5. ASSUME NEW k \in Keys, k # k0, NEW x \in Held(G, su[k])
        PROVE  x \in Held(F, st[k]) /\ V[x] = T[x]
    <2>1. x \in Held(F, st[k]) /\ x \notin ToSet(s) /\ x \notin ToSet(u)
      BY <1>2, <1>4, <1>5
    <2>2. x \in Clusters /\ F[x] # 0
      BY <1>1, <1>3, <2>1, LayFacts
    <2> QED
      BY <2>1, <2>2
  <1>6. Entries(G, D)
    <2>1. \A r \in Slots : Walk(G, D[r].cluster) = Walk(F, D[r].cluster)
      BY <1>1, <1>2, <1>4
    <2> QED
      BY <2>1 DEF Sound, Entries
  <1>7. ASSUME NEW r \in Slots, NEW x \in Held(G, D[r].cluster) PROVE V[x] \in {0, D[r].id}
    <2>1. x \in Held(F, D[r].cluster) /\ V[x] = T[x]
      BY <1>1, <1>5, <1>7
    <2> QED
      BY <2>1 DEF Sound, Tags
  <1>8. ASSUME NEW g \in Handles, NEW x \in Held(G, su[NodeOf(g)]) PROVE V[x] = 0
    <2>1. CASE g = h
      BY <1>4, <1>8, <2>1 DEF k0
    <2>2. CASE g # h
      <3>1. x \in Held(F, st[NodeOf(g)]) /\ V[x] = T[x]
        BY <1>1, <1>5, <1>8, <2>2
      <3> QED
        BY <3>1 DEF Sound, Tags, st
    <2> QED
      BY <2>1, <2>2
  <1> QED
    BY <1>4, <1>6, <1>7, <1>8 DEF Sound, Tags, su

\* Nothing happens on the disk; an entry without a chain may be made, and a
\* node may forget its chain.
LEMMA DropStep ==
  ASSUME NEW n, NEW m, NEW F \in FATs, NEW T,
         NEW D \in Dirs(n), NEW N \in Nodes(n), NEW E \in Dirs(m), NEW M \in Nodes(m),
         Sound(F, T, D, N),
         \A h \in Handles : \/ Starts(E, M)[NodeOf(h)] = Starts(D, N)[NodeOf(h)]
                            \/ Starts(E, M)[NodeOf(h)] = 0,
         \A r \in Slots : \/ E[r] = D[r]
                          \/ /\ E[r].cluster = 0 /\ E[r].size = 0 /\ E[r].name # NULL
                             /\ D[r].cluster = 0 /\ D[r].size = 0
  PROVE  Sound(F, T, E, M) /\ (Exact(F, D, N) => Exact(F, E, M))
  <1> DEFINE st == Starts(D, N)
             su == Starts(E, M)
  <1>1. /\ st \in Starting /\ su \in Starting
        /\ \A r \in Slots : st[EntryOf(r)] = D[r].cluster /\ su[EntryOf(r)] = E[r].cluster
    BY StartsAre
  <1>2. \A r \in Slots : E[r].cluster = D[r].cluster /\ E[r].size = D[r].size
    OBVIOUS
  <1>3. \A k \in Keys : su[k] = st[k] \/ su[k] = 0
    <2> SUFFICES ASSUME NEW k \in Keys PROVE su[k] = st[k] \/ su[k] = 0
      OBVIOUS
    <2>1. CASE \E r \in Slots : k = EntryOf(r)
      BY <1>1, <1>2, <2>1
    <2>2. CASE \E h \in Handles : k = NodeOf(h)
      BY <2>2
    <2> QED
      BY <2>1, <2>2 DEF Keys
  <1> HIDE DEF st, su
  <1>4. Lay(F, su)
    <2>1. Lay(F, st)
      BY DEF Sound, st
    <2> QED
      BY <1>1, <1>3, <2>1, LayDrop
  <1>5. Entries(F, E)
    BY <1>2 DEF Sound, Entries
  <1>6. ASSUME NEW r \in Slots, NEW x \in Held(F, E[r].cluster) PROVE T[x] \in {0, E[r].id}
    <2>1. CASE E[r] = D[r]
      BY <1>6, <2>1 DEF Sound, Tags
    <2>2. CASE E[r] # D[r]
      BY <1>6, <2>2, WalkZero
    <2> QED
      BY <2>1, <2>2
  <1>7. ASSUME NEW h \in Handles, NEW x \in Held(F, su[NodeOf(h)]) PROVE T[x] = 0
    <2>1. CASE su[NodeOf(h)] = 0
      BY <1>7, <2>1, WalkZero
    <2>2. CASE su[NodeOf(h)] = st[NodeOf(h)]
      BY <1>7, <2>2 DEF Sound, Tags, st
    <2> QED
      BY <2>1, <2>2 DEF su, st
  <1>8. Sound(F, T, E, M)
    BY <1>4, <1>5, <1>6, <1>7 DEF Sound, Tags, su
  <1>9. ASSUME Exact(F, D, N) PROVE Exact(F, E, M)
    BY <1>2, <1>9 DEF Exact
  <1> QED
    BY <1>8, <1>9
-----------------------------------------------------------------------------
(* What a call does through node nd, which agrees with its entry S *)

\* nd agrees with entry S; h has it, or is to get it, or is NULL.
Agrees(D, N, S, nd, h) ==
  /\ S \in Slots /\ nd.slot = S
  /\ D[S].id = nd.id /\ D[S].size = nd.size /\ D[S].cluster \in {nd.cluster, 0}
  /\ \/ h \in Handles /\ N[h] = nd
     \/ h \in Handles /\ N[h] = NULL /\ D[S].cluster = nd.cluster
     \/ h = NULL /\ D[S].cluster = nd.cluster

\* k is the holder of nd's chain.
HeldBy(D, N, S, nd, h, k) ==
  /\ k \in Keys /\ Starts(D, N)[k] = nd.cluster
  /\ \/ k = EntryOf(S) /\ D[S].cluster = nd.cluster
     \/ /\ h \in Handles /\ k = NodeOf(h) /\ N[h] = nd
        /\ D[S].cluster = 0 /\ nd.size = 0

LEMMA Holder ==
  ASSUME NEW n, NEW D \in Dirs(n), NEW N \in Nodes(n), NEW S, NEW nd \in Node(n), NEW h,
         NULL \notin Node(n), Agrees(D, N, S, nd, h),
         \A r \in Slots : D[r].size = 0 <=> D[r].cluster = 0
  PROVE  /\ \E k : HeldBy(D, N, S, nd, h, k)
         /\ \A k : HeldBy(D, N, S, nd, h, k) =>
              \A g \in Handles : g = h /\ NodeOf(g) # k => Starts(D, N)[NodeOf(g)] = 0
  <1>1. /\ S \in Slots /\ EntryOf(S) \in Keys
        /\ Starts(D, N)[EntryOf(S)] = D[S].cluster
        /\ \A g \in Handles :
             /\ NodeOf(g) \in Keys
             /\ Starts(D, N)[NodeOf(g)] = IF N[g] # NULL /\ N[g].size = 0 THEN N[g].cluster ELSE 0
    BY StartsAre, KeysAre DEF Agrees
  <1>2. \E k : HeldBy(D, N, S, nd, h, k)
    <2>1. CASE D[S].cluster = nd.cluster
      <3>1. HeldBy(D, N, S, nd, h, EntryOf(S))
        BY <1>1, <2>1 DEF HeldBy
      <3> QED
        BY <3>1
    <2>2. CASE D[S].cluster # nd.cluster
      <3>1. /\ h \in Handles /\ N[h] = nd /\ D[S].cluster = 0 /\ nd.size = 0 /\ nd # NULL
        BY <1>1, <2>2 DEF Agrees
      <3>2. HeldBy(D, N, S, nd, h, NodeOf(h))
        BY <1>1, <3>1 DEF HeldBy
      <3> QED
        BY <3>2
    <2> QED
      BY <2>1, <2>2
  <1>3. ASSUME NEW k, HeldBy(D, N, S, nd, h, k), NEW g \in Handles, g = h, NodeOf(g) # k
        PROVE  Starts(D, N)[NodeOf(g)] = 0
    <2>1. D[S].cluster = nd.cluster /\ D[S].size = nd.size /\ N[g] \in {nd, NULL}
      BY <1>3, FatAssumption DEF HeldBy, Agrees
    <2>2. nd.size = 0 => nd.cluster = 0
      BY <1>1, <2>1
    <2> QED
      BY <1>1, <2>1, <2>2
  <1> QED
    BY <1>2, <1>3

\* The nodes M after nd has become nd2.
Becomes(N, h, nd2, M) == M = IF h = NULL THEN N ELSE [N EXCEPT ![h] = nd2]

LEMMA BecomesIs ==
  ASSUME NEW n, NEW N \in Nodes(n), NEW nd2 \in Node(n), NEW h \in Handles \cup {NULL}, NEW M,
         Becomes(N, h, nd2, M)
  PROVE  /\ M \in Nodes(n) /\ \A g \in Handles : g # h => M[g] = N[g]
         /\ h \in Handles => M[h] = nd2
  BY FatAssumption DEF Becomes, Nodes

\* nd has become nd2, its chain s the chain u; h has the node now.
Change(n, F, G, T, V, D, N, S, nd, h, nd2, M, s, u) ==
  /\ NULL \notin Node(n) /\ F \in FATs /\ G \in FATs
  /\ D \in Dirs(n) /\ N \in Nodes(n) /\ Sound(F, T, D, N)
  /\ nd \in Node(n) /\ h \in Handles \cup {NULL} /\ Agrees(D, N, S, nd, h)
  /\ nd2 \in Node(n) /\ nd2.slot = nd.slot /\ nd2.id = nd.id /\ Becomes(N, h, nd2, M)
  /\ IsChain(F, nd.cluster, s) /\ IsChain(G, nd2.cluster, u) /\ Moved(F, G, s, u)
  /\ \A x \in Clusters : F[x] # 0 /\ x \notin ToSet(s) /\ x \notin ToSet(u) => V[x] = T[x]

\* The directory E after nd has been written to its entry.
Rewritten(D, nd, E) ==
  E = [D EXCEPT ![nd.slot].cluster = nd.cluster, ![nd.slot].size = nd.size]

\* The entry is rewritten with what nd2 says.
RewriteChange(D, nd, nd2, E, T, V, s, u) ==
  /\ Rewritten(D, nd2, E)
  /\ nd2.size = 0 <=> nd2.cluster = 0
  /\ \A x \in ToSet(u) : V[x] \in {0, nd.id} \/ (x \in ToSet(s) /\ V[x] = T[x])
  /\ CeilDiv(nd2.size, CS) <= Len(u)

LEMMA RewriteStep ==
  ASSUME NEW n, NEW F, NEW G, NEW T, NEW V, NEW D, NEW N, NEW S, NEW nd, NEW h, NEW nd2, NEW M,
         NEW E, NEW s, NEW u, Change(n, F, G, T, V, D, N, S, nd, h, nd2, M, s, u),
         RewriteChange(D, nd, nd2, E, T, V, s, u)
  PROVE  /\ Sound(G, V, E, M)
         /\ Exact(F, D, N) /\ Len(u) = CeilDiv(nd2.size, CS) => Exact(G, E, M)
  <1>0. /\ NULL \notin Node(n) /\ F \in FATs /\ G \in FATs
        /\ D \in Dirs(n) /\ N \in Nodes(n) /\ Sound(F, T, D, N)
        /\ nd \in Node(n) /\ h \in Handles \cup {NULL} /\ Agrees(D, N, S, nd, h)
        /\ nd2 \in Node(n) /\ nd2.slot = nd.slot /\ nd2.id = nd.id /\ Becomes(N, h, nd2, M)
        /\ IsChain(F, nd.cluster, s) /\ IsChain(G, nd2.cluster, u) /\ Moved(F, G, s, u)
        /\ \A x \in Clusters : F[x] # 0 /\ x \notin ToSet(s) /\ x \notin ToSet(u) => V[x] = T[x]
        /\ Rewritten(D, nd2, E)
        /\ nd2.size = 0 <=> nd2.cluster = 0
        /\ \A x \in ToSet(u) : V[x] \in {0, nd.id} \/ (x \in ToSet(s) /\ V[x] = T[x])
        /\ CeilDiv(nd2.size, CS) <= Len(u)
    BY DEF Change, RewriteChange
  <1> USE <1>0
  <1>1. /\ S \in Slots /\ D[S].id = nd.id /\ nd.id # 0 /\ nd2.cluster \in Clusters \cup {0}
        /\ nd2.size \in Sizes /\ nd.cluster \in Clusters \cup {0} /\ nd2.slot = S
    BY DEF Agrees, Node
  <1>2. /\ E \in Dirs(n) /\ \A r \in Slots : r # S => E[r] = D[r]
        /\ E[S].cluster = nd2.cluster /\ E[S].size = nd2.size /\ E[S].id = nd.id
        /\ E[S].name = D[S].name
    BY <1>1 DEF Dirs, Rewritten
  <1>3. M \in Nodes(n) /\ (\A g \in Handles : g # h => M[g] = N[g]) /\ (h \in Handles => M[h] = nd2)
    BY BecomesIs
  <1>4. \A r \in Slots : (D[r].size = 0 <=> D[r].cluster = 0) /\ (D[r].name = NULL => D[r] = FreeSlot)
    BY DEF Sound, Entries
  <1>5. PICK k : HeldBy(D, N, S, nd, h, k)
    BY <1>4, Holder
  <1>6. \A g \in Handles : g = h /\ NodeOf(g) # k => Starts(D, N)[NodeOf(g)] = 0
    BY <1>4, <1>5, Holder
  <1>7. /\ k \in Keys /\ Starts(D, N)[k] = nd.cluster
        /\ k = EntryOf(S) \/ \E g \in Handles : k = NodeOf(g)
        /\ k # EntryOf(S) => h \in Handles /\ k = NodeOf(h) /\ D[S].cluster = 0
    BY <1>5 DEF HeldBy
  <1>8. \A g \in Handles :
          Starts(E, M)[NodeOf(g)] = IF M[g] # NULL /\ M[g].size = 0 THEN M[g].cluster ELSE 0
    BY <1>2, <1>3, StartsAre
  <1>9. \A g \in Handles :
          Starts(D, N)[NodeOf(g)] = IF N[g] # NULL /\ N[g].size = 0 THEN N[g].cluster ELSE 0
    BY StartsAre
  <1>10. \A g \in Handles : g = h => Starts(E, M)[NodeOf(g)] = 0
    <2> SUFFICES ASSUME NEW g \in Handles, g = h PROVE Starts(E, M)[NodeOf(g)] = 0
      OBVIOUS
    <2>1. M[g] = nd2
      BY <1>3
    <2> QED
      BY <1>8, <2>1
  <1>11. \A g \in Handles : NodeOf(g) # k => Starts(E, M)[NodeOf(g)] = Starts(D, N)[NodeOf(g)]
    <2> SUFFICES ASSUME NEW g \in Handles, NodeOf(g) # k
                 PROVE  Starts(E, M)[NodeOf(g)] = Starts(D, N)[NodeOf(g)]
      OBVIOUS
    <2>1. CASE g = h
      BY <1>6, <1>10, <2>1
    <2>2. CASE g # h
      <3>1. M[g] = N[g]
        BY <1>3, <2>2
      <3> QED
        BY <1>8, <1>9, <3>1
    <2> QED
      BY <2>1, <2>2
  <1>12. E[S].name = NULL => E[S] = FreeSlot
    <2>1. FreeSlot.id = 0
      BY DEF FreeSlot
    <2>2. D[S].name # NULL
      BY <1>1, <1>4, <2>1
    <2> QED
      BY <1>2, <2>2
  <1>13. \A x \in ToSet(s) : T[x] \in {0, nd.id}
    <2>1. ToSet(s) = Held(F, nd.cluster)
      BY <1>1, WalkIs
    <2>2. CASE k = EntryOf(S)
      <3>1. D[S].cluster = nd.cluster
        BY <1>5, <2>2, KeysAre DEF HeldBy
      <3> QED
        BY <1>1, <2>1, <3>1 DEF Sound, Tags
    <2>3. CASE k # EntryOf(S)
      BY <1>7, <2>1, <2>3 DEF Sound, Tags
    <2> QED
      BY <2>2, <2>3
  <1>14. \A x \in ToSet(u) : V[x] \in {0, E[S].id}
    BY <1>2, <1>13
  <1>15. IsChain(F, Starts(D, N)[k], s) /\ IsChain(G, E[S].cluster, u)
    BY <1>2, <1>7
  <1>16. k # EntryOf(S) => D[S].cluster = 0 /\ Starts(E, M)[k] = 0
    BY <1>7, <1>10
  <1>17. (E[S].size = 0 <=> E[S].cluster = 0) /\ CeilDiv(E[S].size, CS) <= Len(u)
    BY <1>2
  <1>18. EntryChange(n, F, G, T, V, D, N, E, M, S, k, s, u)
    BY <1>1, <1>2, <1>3, <1>7, <1>11, <1>12, <1>14, <1>15, <1>16, <1>17 DEF EntryChange
  <1>19. /\ Sound(G, V, E, M)
         /\ Exact(F, D, N) /\ Len(u) = CeilDiv(E[S].size, CS) => Exact(G, E, M)
    BY <1>18, EntryStep
  <1>20. E[S].size = nd2.size
    BY <1>2
  <1> QED
    BY <1>19, <1>20

\* The entry stays as it is: its file has clusters enough, or there are none.
KeepChange(N, nd, h, nd2, T, V, s, u) ==
  /\ nd.size = 0 => h \in Handles /\ N[h] = nd
  /\ nd2.size = nd.size /\ (nd.cluster # 0 => nd2.cluster = nd.cluster)
  /\ Len(s) <= Len(u)
  /\ \A x \in ToSet(u) : \/ V[x] = 0 \/ (x \in ToSet(s) /\ V[x] = T[x])
                         \/ nd.size # 0 /\ V[x] = nd.id

LEMMA KeepStep ==
  ASSUME NEW n, NEW F, NEW G, NEW T, NEW V, NEW D, NEW N, NEW S, NEW nd, NEW h, NEW nd2, NEW M,
         NEW s, NEW u, Change(n, F, G, T, V, D, N, S, nd, h, nd2, M, s, u),
         KeepChange(N, nd, h, nd2, T, V, s, u)
  PROVE  /\ Sound(G, V, D, M)
         /\ Exact(F, D, N) /\ nd.size # 0 /\ Len(u) = Len(s) => Exact(G, D, M)
  <1>0. /\ NULL \notin Node(n) /\ F \in FATs /\ G \in FATs
        /\ D \in Dirs(n) /\ N \in Nodes(n) /\ Sound(F, T, D, N)
        /\ nd \in Node(n) /\ h \in Handles \cup {NULL} /\ Agrees(D, N, S, nd, h)
        /\ nd2 \in Node(n) /\ nd2.slot = nd.slot /\ nd2.id = nd.id /\ Becomes(N, h, nd2, M)
        /\ IsChain(F, nd.cluster, s) /\ IsChain(G, nd2.cluster, u) /\ Moved(F, G, s, u)
        /\ \A x \in Clusters : F[x] # 0 /\ x \notin ToSet(s) /\ x \notin ToSet(u) => V[x] = T[x]
        /\ nd.size = 0 => h \in Handles /\ N[h] = nd
        /\ nd2.size = nd.size /\ (nd.cluster # 0 => nd2.cluster = nd.cluster)
        /\ Len(s) <= Len(u)
        /\ \A x \in ToSet(u) : \/ V[x] = 0 \/ (x \in ToSet(s) /\ V[x] = T[x])
                               \/ nd.size # 0 /\ V[x] = nd.id
    BY DEF Change, KeepChange
  <1> USE <1>0
  <1>1. /\ S \in Slots /\ D[S].id = nd.id /\ nd.id # 0 /\ D[S].size = nd.size
        /\ nd.cluster \in Clusters \cup {0} /\ D[S].cluster \in {nd.cluster, 0}
    BY DEF Agrees, Node
  <1>2. M \in Nodes(n) /\ (\A g \in Handles : g # h => M[g] = N[g]) /\ (h \in Handles => M[h] = nd2)
    BY BecomesIs
  <1>3. /\ \A r \in Slots : (D[r].size = 0 <=> D[r].cluster = 0) /\ (D[r].name = NULL => D[r] = FreeSlot)
        /\ \A r \in Slots : CeilDiv(D[r].size, CS) <= Len(Walk(F, D[r].cluster))
    BY DEF Sound, Entries
  <1>4. /\ \A g \in Handles :
             Starts(D, M)[NodeOf(g)] = IF M[g] # NULL /\ M[g].size = 0 THEN M[g].cluster ELSE 0
        /\ \A g \in Handles :
             Starts(D, N)[NodeOf(g)] = IF N[g] # NULL /\ N[g].size = 0 THEN N[g].cluster ELSE 0
        /\ Starts(D, N)[EntryOf(S)] = D[S].cluster /\ EntryOf(S) \in Keys
    BY <1>1, <1>2, StartsAre, KeysAre
  <1>5. ToSet(s) = Held(F, nd.cluster) /\ Walk(F, nd.cluster) = s
    BY <1>1, WalkIs
  <1>6. CASE nd.size = 0
    <2>1. h \in Handles /\ N[h] = nd /\ nd # NULL /\ nd2 # NULL
      BY <1>6
    <2>2. Starts(D, N)[NodeOf(h)] = nd.cluster /\ Starts(D, M)[NodeOf(h)] = nd2.cluster
      BY <1>2, <1>4, <1>6, <2>1
    <2>3. \A g \in Handles : g # h => Starts(D, M)[NodeOf(g)] = Starts(D, N)[NodeOf(g)]
      BY <1>2, <1>4
    <2>4. \A x \in ToSet(s) : T[x] = 0
      BY <1>5, <2>1, <2>2 DEF Sound, Tags
    <2>5. \A x \in ToSet(u) : V[x] = 0
      BY <1>6, <2>4
    <2>6. IsChain(F, Starts(D, N)[NodeOf(h)], s) /\ IsChain(G, Starts(D, M)[NodeOf(h)], u)
      BY <2>2
    <2>7. NodeChange(n, F, G, T, V, D, N, M, h, s, u)
      BY <1>2, <2>1, <2>3, <2>5, <2>6 DEF NodeChange
    <2>8. Sound(G, V, D, M)
      BY <2>7, NodeStep
    <2> QED
      BY <1>6, <2>8
  <1>7. CASE nd.size # 0
    <2>1. D[S].cluster # 0 /\ D[S].cluster = nd.cluster /\ nd2.cluster = nd.cluster
      BY <1>1, <1>3, <1>7
    <2>2. \A g \in Handles : Starts(D, M)[NodeOf(g)] = Starts(D, N)[NodeOf(g)]
      <3> SUFFICES ASSUME NEW g \in Handles PROVE Starts(D, M)[NodeOf(g)] = Starts(D, N)[NodeOf(g)]
        OBVIOUS
      <3>1. CASE g # h
        BY <1>2, <1>4, <3>1
      <3>2. CASE g = h
        <4>1. N[g] \in {nd, NULL}
          BY <3>2, FatAssumption DEF Agrees
        <4> QED
          BY <1>2, <1>4, <1>7, <3>2, <4>1
      <3> QED
        BY <3>1, <3>2
    <2>3. \A x \in ToSet(u) : V[x] \in {0, D[S].id}
      BY <1>1, <1>5, <2>1 DEF Sound, Tags
    <2>4. IsChain(F, Starts(D, N)[EntryOf(S)], s) /\ IsChain(G, D[S].cluster, u)
      BY <1>4, <2>1
    <2>5. CeilDiv(D[S].size, CS) <= Len(u)
      <3>1. CeilDiv(D[S].size, CS) <= Len(s)
        BY <1>1, <1>3, <1>5, <2>1
      <3>2. CeilDiv(D[S].size, CS) \in Nat /\ Len(s) \in Nat /\ Len(u) \in Nat
        <4>1. D[S].size \in Nat
          BY <1>1, FatAssumption DEF Dirs, Sizes
        <4>2. Len(s) \in Nat /\ Len(u) \in Nat
          BY DEF IsChain
        <4> QED
          BY <4>1, <4>2, NeededIs
      <3> QED
        BY <3>1, <3>2
    <2> DEFINE k == EntryOf(S)
    <2>6. /\ k = EntryOf(S) \/ \E g \in Handles : k = NodeOf(g)
          /\ k # EntryOf(S) => D[S].cluster = 0 /\ Starts(D, M)[k] = 0
          /\ k \in Keys /\ IsChain(F, Starts(D, N)[k], s)
          /\ \A g \in Handles : NodeOf(g) # k => Starts(D, M)[NodeOf(g)] = Starts(D, N)[NodeOf(g)]
      BY <1>4, <2>2, <2>4
    <2> HIDE DEF k
    <2>7. EntryChange(n, F, G, T, V, D, N, D, M, S, k, s, u)
      BY <1>1, <1>2, <1>3, <2>3, <2>4, <2>5, <2>6 DEF EntryChange
    <2>9. /\ Sound(G, V, D, M)
          /\ Exact(F, D, N) /\ Len(u) = CeilDiv(D[S].size, CS) => Exact(G, D, M)
      BY <2>7, EntryStep
    <2>8. Exact(F, D, N) => Len(s) = CeilDiv(D[S].size, CS)
      BY <1>1, <1>5, <2>1 DEF Exact
    <2> QED
      BY <2>8, <2>9
  <1> QED
    BY <1>6, <1>7
-----------------------------------------------------------------------------
(* The state *)

LEMMA Typed ==
  ASSUME FatTypeOK
  PROVE  /\ nfile \in Nat /\ Disk \in Disks(nfile) /\ Disk.ok
         /\ Disk.fat = fat /\ Disk.tag = tag /\ Disk.hint = hint
         /\ fat \in FATs /\ dir \in Dirs(nfile) /\ node \in Nodes(nfile)
         /\ NULL \notin Node(nfile) /\ NULL \notin Handles /\ 0 .. nfile \subseteq Nat
  <1>1. nfile \in Nat /\ nfile <= MaxFiles /\ MaxFiles \in Nat
    BY FatAssumption DEF FatTypeOK
  <1>2. Disk \in Disks(nfile)
    BY <1>1 DEF Disk, Disks, FatTypeOK, FATs, EOC
  <1>3. 1 .. nfile \subseteq 1 .. MaxFiles
    BY <1>1
  <1>4. Node(nfile) \subseteq Node(MaxFiles)
    BY <1>3 DEF Node
  <1> QED
    BY <1>1, <1>2, <1>4, FatAssumption DEF FatTypeOK, FATs, Dirs, Nodes, Disk

LEMMA LookupIs ==
  ASSUME NEW name \in Names, Lookup(name) # NULL
  PROVE  Lookup(name) \in Slots /\ dir[Lookup(name)].name = name /\ name # NULL
  BY FatAssumption DEF Lookup

\* What every call leaves: the types, the names, and the ghosts it may set.
LEMMA StepTypes ==
  ASSUME FatTypeOK, Named, nfile' = nfile,
         NEW d \in Disks(nfile), SetDisk(d), dir' \in Dirs(nfile), node' \in Nodes(nfile),
         \A s \in Slots : dir'[s].name # NULL => dir'[s].name = dir[s].name /\ dir'[s].id = dir[s].id,
         pool' \in 0 .. NNODE, stray' \in BOOLEAN
  PROVE  FatTypeOK' /\ Named' /\ fat' = d.fat /\ tag' = d.tag /\ failed' = (failed \/ ~d.ok)
  <1>1. fat' = d.fat /\ tag' = d.tag /\ hint' = d.hint /\ failed' \in BOOLEAN
    BY DEF SetDisk, FatTypeOK, Disks
  <1>2. FatTypeOK'
    BY <1>1 DEF FatTypeOK, Disks, FATs, EOC, Dirs, Nodes
  <1>3. Named'
    BY DEF Named
  <1> QED
    BY <1>1, <1>2, <1>3 DEF SetDisk

LEMMA RewrittenType ==
  ASSUME NEW n, NEW D \in Dirs(n), NEW m, NEW nd \in Node(m), NEW E,
         Rewritten(D, nd, E)
  PROVE  /\ E \in Dirs(n)
         /\ \A s \in Slots : E[s].name = D[s].name /\ E[s].id = D[s].id
  BY DEF Dirs, Node, Rewritten

LEMMA FatInit == Init => FatInv
  <1> SUFFICES ASSUME Init PROVE FatInv
    OBVIOUS
  <1>1. FatTypeOK
    <2>1. \A c \in 0 .. MaxCluster : EOC \in 0 .. EOC /\ 0 \in 0 .. EOC
      BY Numbers
    <2>2. FreeSlot \in [name : Names \cup {NULL}, id : 0 .. 0, cluster : Clusters \cup {0}, size : Sizes]
      BY FatAssumption DEF FreeSlot, Sizes
    <2>3. NNODE \in 0 .. NNODE /\ 0 \in 0 .. MaxFiles /\ 2 \in 2 .. MaxCluster + 1
      BY FatAssumption
    <2>4. fat \in [0 .. MaxCluster -> 0 .. EOC] /\ tag \in [0 .. MaxCluster -> 0 .. 0]
      BY <2>1 DEF Init
    <2>5. dir \in [Slots -> [name : Names \cup {NULL}, id : 0 .. 0,
                             cluster : Clusters \cup {0}, size : Sizes]]
      BY <2>2 DEF Init
    <2> QED
      BY <2>3, <2>4, <2>5 DEF Init, FatTypeOK
  <1>2. Named
    BY DEF Init, Named, FreeSlot
  <1>3. /\ fat \in FATs /\ dir \in Dirs(nfile) /\ node \in Nodes(nfile)
        /\ \A s \in Slots : dir[s].cluster = 0 /\ dir[s].size = 0 /\ dir[s] = FreeSlot
        /\ \A h \in Handles : node[h] = NULL
    BY <1>1, Typed DEF Init, FreeSlot
  <1>4. \A k \in Keys : Starts(dir, node)[k] = 0
    <2>1. \A s \in Slots : Starts(dir, node)[EntryOf(s)] = 0
      BY <1>3, StartsAre
    <2>2. \A h \in Handles : Starts(dir, node)[NodeOf(h)] = 0
      BY <1>3, StartsAre
    <2> QED
      BY <2>1, <2>2 DEF Keys
  <1>5. Lay(fat, Starts(dir, node))
    <2>1. IsChain(fat, 0, <<>>)
      BY DEF IsChain
    <2> QED
      BY <1>4, <2>1, WalkZero DEF Lay
  <1>6. CeilDiv(0, CS) = 0 /\ Len(<<>>) = 0
    BY NeededIs
  <1>7. Entries(fat, dir)
    BY <1>3, <1>6, WalkZero DEF Entries
  <1>8. Tags(fat, tag, dir, node)
    BY <1>3, <1>4, WalkZero, KeysAre DEF Tags
  <1>9. Exact(fat, dir, node)
    <2>1. \A c \in Clusters : fat[c] = 0
      BY Numbers DEF Init
    <2> QED
      BY <1>3, <1>4, <1>6, <2>1, WalkZero, KeysAre DEF Exact
  <1> QED
    BY <1>1, <1>2, <1>5, <1>7, <1>8, <1>9 DEF FatInv, Sound
-----------------------------------------------------------------------------
(* The calls *)

LEMMA EntriesOK ==
  ASSUME FatInv, ~stray
  PROVE  /\ Sound(fat, tag, dir, node) /\ (~failed => Exact(fat, dir, node))
         /\ \A s \in Slots : /\ dir[s].name = NULL => dir[s] = FreeSlot
                             /\ dir[s].size = 0 <=> dir[s].cluster = 0
  BY DEF FatInv, Sound, Entries

\* Calls that change no entry and nothing on the disk.
LEMMA DropCall ==
  ASSUME FatInv, UNCHANGED <<fat, tag, hint, dir, nfile, failed>>, stray' \in BOOLEAN,
         ~stray' => ~stray, pool' \in 0 .. NNODE, node' \in Nodes(nfile),
         ~stray => \A h \in Handles : \/ Starts(dir, node')[NodeOf(h)] = Starts(dir, node)[NodeOf(h)]
                                      \/ Starts(dir, node')[NodeOf(h)] = 0
  PROVE  FatInv'
  <1>1. FatTypeOK /\ Named
    BY DEF FatInv
  <1>2. /\ Disk \in Disks(nfile) /\ fat \in FATs /\ dir \in Dirs(nfile) /\ node \in Nodes(nfile)
    BY <1>1, Typed
  <1>3. SetDisk(Disk)
    BY <1>1 DEF SetDisk, Disk, FatTypeOK
  <1>4. FatTypeOK' /\ Named'
    BY <1>1, <1>2, <1>3, StepTypes
  <1>5. ASSUME ~stray'
        PROVE  Sound(fat, tag, dir, node') /\ (~failed => Exact(fat, dir, node'))
    <2>1. ~stray
      BY <1>5
    <2>2. Sound(fat, tag, dir, node) /\ (~failed => Exact(fat, dir, node))
      BY <2>1, EntriesOK
    <2> DEFINE N == node
               M == node'
               D == dir
    <2>3. /\ D \in Dirs(nfile) /\ N \in Nodes(nfile) /\ M \in Nodes(nfile) /\ Sound(fat, tag, D, N)
          /\ \A h \in Handles : \/ Starts(D, M)[NodeOf(h)] = Starts(D, N)[NodeOf(h)]
                                \/ Starts(D, M)[NodeOf(h)] = 0
          /\ \A r \in Slots : D[r] = D[r]
      BY <1>2, <2>1, <2>2
    <2> HIDE DEF N, M, D
    <2>4. Sound(fat, tag, D, M) /\ (Exact(fat, D, N) => Exact(fat, D, M))
      BY <1>2, <2>3, DropStep
    <2> QED
      BY <2>2, <2>4 DEF N, M, D
  <1>6. fat' = fat /\ tag' = tag /\ dir' = dir /\ failed' = failed
    OBVIOUS
  <1>7. /\ ~stray' => Sound(fat', tag', dir', node')
        /\ ~stray' /\ ~failed' => Exact(fat', dir', node')
    BY <1>5, <1>6
  <1> QED
    BY <1>4, <1>7 DEF FatInv

LEMMA FatClose ==
  ASSUME FatInv, NEW h \in Handles, Close(h)
  PROVE  FatInv'
  <1>1. FatTypeOK /\ dir \in Dirs(nfile) /\ node \in Nodes(nfile)
    BY Typed DEF FatInv
  <1>2. node' \in Nodes(nfile) /\ pool' \in 0 .. NNODE /\ stray' \in BOOLEAN
    BY <1>1 DEF Close, Nodes, FatTypeOK
  <1>3. ASSUME NEW g \in Handles
        PROVE  \/ Starts(dir, node')[NodeOf(g)] = Starts(dir, node)[NodeOf(g)]
               \/ Starts(dir, node')[NodeOf(g)] = 0
    <2>1. node'[g] \in {node[g], NULL}
      BY <1>1 DEF Close, Nodes
    <2> QED
      BY <1>1, <1>2, <2>1, StartsAre
  <1> QED
    BY <1>2, <1>3, DropCall DEF Close

LEMMA FatRead ==
  ASSUME FatInv, NEW h \in Handles, Read(h)
  PROVE  FatInv'
  <1> DEFINE n == node[h]
             e == dir[n.slot]
             n2 == [n EXCEPT !.cluster = e.cluster, !.size = e.size]
  <1>1. FatTypeOK /\ dir \in Dirs(nfile) /\ node \in Nodes(nfile)
    BY Typed DEF FatInv
  <1>2. n \in Node(nfile) /\ n.slot \in Slots /\ e.cluster \in Clusters \cup {0} /\ e.size \in Sizes
    BY <1>1 DEF Read, Nodes, Node, Dirs
  <1>3. n2 \in Node(nfile) /\ n2.cluster = e.cluster /\ n2.size = e.size
    <2> HIDE DEF n, e
    <2> QED
      BY <1>2 DEF Node
  <1>4. node' = [node EXCEPT ![h] = n2]
    BY <1>1 DEF Read, Nodes
  <1> HIDE DEF n2
  <1>5. node' \in Nodes(nfile) /\ pool' \in 0 .. NNODE /\ stray' \in BOOLEAN
    BY <1>1, <1>3, <1>4 DEF Read, Nodes, FatTypeOK
  <1>6. ASSUME ~stray, NEW g \in Handles
        PROVE  \/ Starts(dir, node')[NodeOf(g)] = Starts(dir, node)[NodeOf(g)]
               \/ Starts(dir, node')[NodeOf(g)] = 0
    <2>1. CASE g # h
      <3>1. node'[g] = node[g]
        BY <1>1, <1>4, <2>1 DEF Nodes
      <3> QED
        BY <1>1, <1>5, <3>1, StartsAre
    <2>2. CASE g = h
      <3>1. node'[g] = n2
        BY <1>1, <1>4, <2>2 DEF Nodes
      <3>2. n2.size = 0 => n2.cluster = 0
        BY <1>2, <1>3, <1>6, EntriesOK
      <3> QED
        BY <1>1, <1>5, <3>1, <3>2, StartsAre
    <2> QED
      BY <2>1, <2>2
  <1> QED
    BY <1>5, <1>6, DropCall DEF Read

LEMMA FatStutter == FatInv /\ UNCHANGED vars => FatInv'
  <1> SUFFICES ASSUME FatInv, UNCHANGED vars PROVE FatInv'
    OBVIOUS
  <1> QED
    BY DEF vars, FatInv, FatTypeOK, Named

\* The node that openat makes.
LEMMA NewNodeIs ==
  ASSUME FatTypeOK, Named, NEW s \in Slots, dir[s].name # NULL
  PROVE  /\ NewNode(s, dir[s]) \in Node(nfile) /\ NewNode(s, dir[s]).slot = s
         /\ NewNode(s, dir[s]).id = dir[s].id /\ NewNode(s, dir[s]).size = dir[s].size
         /\ NewNode(s, dir[s]).cluster = dir[s].cluster
  <1>1. dir[s].id \in 0 .. nfile /\ dir[s].id # 0 /\ nfile \in Nat
    BY FatAssumption DEF FatTypeOK, Named
  <1> QED
    BY <1>1 DEF FatTypeOK, NewNode, Node

LEMMA FatCreate ==
  ASSUME FatInv, NEW h \in Handles \cup {NULL}, NEW name \in Names, Create(h, name)
  PROVE  FatInv'
  <1> DEFINE m == nfile + 1
             e == [name |-> name, id |-> m, cluster |-> 0, size |-> 0]
  <1>1. PICK s \in Slots : /\ dir[s].name = NULL /\ dir' = [dir EXCEPT ![s] = e]
                           /\ OpensAs(h, NewNode(s, e))
    BY DEF Create
  <1>2. /\ FatTypeOK /\ Named /\ nfile \in Nat /\ MaxFiles \in Nat /\ NNODE \in Nat /\ fat \in FATs
        /\ dir \in Dirs(nfile) /\ node \in Nodes(nfile) /\ NULL \notin Handles /\ NULL \notin Names
    BY Typed, FatAssumption DEF FatInv
  <1>3. /\ nfile' = m /\ m \in 0 .. MaxFiles /\ m \in 1 .. m /\ m \in 0 .. m /\ m # 0
        /\ 0 .. nfile \subseteq 0 .. m /\ 1 .. nfile \subseteq 1 .. m
    BY <1>2 DEF Create, FatTypeOK
  <1> HIDE DEF m
  <1>4. NewNode(s, e) \in Node(m) /\ NewNode(s, e).cluster = 0
    BY <1>3, FatAssumption DEF NewNode, Node, Sizes
  <1>5. Node(nfile) \subseteq Node(m) /\ Dirs(nfile) \subseteq Dirs(m)
    BY <1>3 DEF Node, Dirs
  <1>6. node' \in Nodes(m) /\ node \in Nodes(m) /\ \A g \in Handles : node'[g] \in {node[g], NewNode(s, e)}
    BY <1>1, <1>2, <1>4, <1>5 DEF Nodes, OpensAs
  <1>7. e \in [name : Names \cup {NULL}, id : 0 .. m, cluster : Clusters \cup {0}, size : Sizes]
    BY <1>3, FatAssumption DEF Sizes
  <1>8. dir' \in Dirs(m) /\ dir'[s] = e /\ \A r \in Slots : r # s => dir'[r] = dir[r]
    <2> HIDE DEF e
    <2>1. dir \in Dirs(m)
      BY <1>2, <1>5
    <2> QED
      BY <1>1, <1>7, <2>1 DEF Dirs
  <1>9. pool' \in 0 .. NNODE
    BY <1>2 DEF Create, FatTypeOK
  <1>10. fat' = fat /\ tag' = tag /\ hint' = hint /\ stray' = stray /\ failed' = failed
    BY DEF Create
  <1>11. FatTypeOK'
    <2>1. tag' \in [0 .. MaxCluster -> 0 .. m]
      BY <1>2, <1>3, <1>10 DEF FatTypeOK
    <2> QED
      BY <1>2, <1>3, <1>6, <1>8, <1>9, <1>10, <2>1 DEF FatTypeOK, Dirs, Nodes
  <1>12. Named'
    BY <1>2, <1>3, <1>8 DEF Named
  <1>13. ASSUME ~stray
         PROVE  Sound(fat, tag, dir', node') /\ (~failed => Exact(fat, dir', node'))
    <2>1. /\ Sound(fat, tag, dir, node) /\ (~failed => Exact(fat, dir, node))
          /\ dir[s] = FreeSlot
      BY <1>1, <1>13, EntriesOK
    <2> DEFINE N == node
               M == node'
               D == dir
               E == dir'
    <2>2. /\ \A g \in Handles : Starts(E, M)[NodeOf(g)]
                                  = IF M[g] # NULL /\ M[g].size = 0 THEN M[g].cluster ELSE 0
          /\ \A g \in Handles : Starts(D, N)[NodeOf(g)]
                                  = IF N[g] # NULL /\ N[g].size = 0 THEN N[g].cluster ELSE 0
      BY <1>2, <1>6, <1>8, StartsAre
    <2>3. /\ \A g \in Handles : \/ Starts(E, M)[NodeOf(g)] = Starts(D, N)[NodeOf(g)]
                                \/ Starts(E, M)[NodeOf(g)] = 0
      BY <1>4, <1>6, <2>2
    <2>4. \A r \in Slots : \/ E[r] = D[r]
                           \/ /\ E[r].cluster = 0 /\ E[r].size = 0 /\ E[r].name # NULL
                              /\ D[r].cluster = 0 /\ D[r].size = 0
      BY <1>2, <1>8, <2>1 DEF FreeSlot
    <2>5. /\ D \in Dirs(nfile) /\ N \in Nodes(nfile) /\ E \in Dirs(m) /\ M \in Nodes(m)
          /\ Sound(fat, tag, D, N)
      BY <1>2, <1>6, <1>8, <2>1
    <2> HIDE DEF N, M, D, E
    <2>6. Sound(fat, tag, E, M) /\ (Exact(fat, D, N) => Exact(fat, E, M))
      BY <1>2, <2>3, <2>4, <2>5, DropStep
    <2> QED
      BY <2>1, <2>6 DEF D, E, M, N
  <1>14. /\ ~stray' => Sound(fat', tag', dir', node')
         /\ ~stray' /\ ~failed' => Exact(fat', dir', node')
    BY <1>10, <1>13
  <1> QED
    BY <1>11, <1>12, <1>14 DEF FatInv

LEMMA FatUnlink ==
  ASSUME FatInv, NEW name \in Names, Unlink(name)
  PROVE  FatInv'
  <1> DEFINE S == Lookup(name)
             c == dir[S].cluster
             d == FreeChain(Disk, c)
  <1>1. S \in Slots /\ dir[S].name # NULL
    BY LookupIs DEF Unlink
  <1>2. /\ FatTypeOK /\ Named /\ nfile \in Nat /\ Disk \in Disks(nfile) /\ Disk.ok
        /\ Disk.fat = fat /\ Disk.tag = tag
        /\ fat \in FATs /\ dir \in Dirs(nfile) /\ node \in Nodes(nfile)
    BY Typed DEF FatInv
  <1>3. SetDisk(d) /\ dir' = [dir EXCEPT ![S] = FreeSlot]
    BY DEF Unlink
  <1> HIDE DEF S
  <1>4. c \in Clusters \cup {0} /\ c \in 0 .. EOC
    <2>1. c \in Clusters \cup {0}
      BY <1>1, <1>2 DEF Dirs
    <2> QED
      BY <2>1, Numbers
  <1> HIDE DEF c
  <1>5. d \in Disks(nfile) /\ d.ok /\ d.tag = tag /\ d.fat \in FATs
    <2>1. d \in Disks(nfile) /\ d.ok /\ d.tag = tag
      BY <1>2, <1>4, FreeType
    <2> QED
      BY <2>1 DEF Disks
  <1>6. FreeSlot \in [name : Names \cup {NULL}, id : 0 .. nfile, cluster : Clusters \cup {0}, size : Sizes]
    BY <1>2, FatAssumption DEF FreeSlot, Sizes
  <1>7. /\ dir' \in Dirs(nfile) /\ dir'[S] = FreeSlot /\ \A r \in Slots : r # S => dir'[r] = dir[r]
        /\ FreeSlot.name = NULL /\ FreeSlot.cluster = 0 /\ FreeSlot.size = 0
    <2>1. FreeSlot.name = NULL /\ FreeSlot.cluster = 0 /\ FreeSlot.size = 0
      BY DEF FreeSlot
    <2> QED
      BY <1>1, <1>2, <1>3, <1>6, <2>1 DEF Dirs
  <1>8. node' = node /\ nfile' = nfile /\ stray' = stray /\ pool' \in 0 .. NNODE /\ stray' \in BOOLEAN
    BY <1>2 DEF Unlink, FatTypeOK
  <1> HIDE DEF d
  <1>9. FatTypeOK' /\ Named' /\ fat' = d.fat /\ tag' = tag /\ failed' = failed
    <2>1. node' \in Nodes(nfile)
      BY <1>2, <1>8
    <2>2. \A s \in Slots : dir'[s].name # NULL => dir'[s].name = dir[s].name /\ dir'[s].id = dir[s].id
      BY <1>7
    <2>3. FatTypeOK' /\ Named' /\ fat' = d.fat /\ tag' = d.tag /\ failed' = (failed \/ ~d.ok)
      BY <1>2, <1>3, <1>5, <1>7, <1>8, <2>1, <2>2, StepTypes
    <2> QED
      BY <1>2, <1>5, <2>3 DEF FatTypeOK
  <1>10. ASSUME ~stray
         PROVE  Sound(d.fat, tag, dir', node) /\ (~failed => Exact(d.fat, dir', node))
    <2> DEFINE F == fat
               G == d.fat
               D == dir
               N == node
               E == dir'
               s == Walk(F, c)
               u == <<>>
               k == EntryOf(S)
               T == tag
    <2>1. Sound(F, T, D, N) /\ (~failed => Exact(F, D, N))
      BY <1>10, EntriesOK
    <2>2. k \in Keys /\ Starts(D, N)[k] = c
      BY <1>1, <1>2, KeysAre, StartsAre DEF c
    <2>3. \A h \in Handles : Starts(E, N)[NodeOf(h)] = Starts(D, N)[NodeOf(h)]
      <3>1. \A h \in Handles : Starts(E, N)[NodeOf(h)]
                                 = IF N[h] # NULL /\ N[h].size = 0 THEN N[h].cluster ELSE 0
        BY <1>2, <1>7, StartsAre
      <3>2. \A h \in Handles : Starts(D, N)[NodeOf(h)]
                                 = IF N[h] # NULL /\ N[h].size = 0 THEN N[h].cluster ELSE 0
        BY <1>2, StartsAre
      <3> QED
        BY <3>1, <3>2
    <2>4. IsChain(F, c, s)
      BY <2>1, <2>2 DEF Sound, Lay
    <2>5. \A x \in 0 .. MaxCluster : G[x] = IF x \in ToSet(s) THEN 0 ELSE F[x]
      <3>1. IsChain(Disk.fat, c, s)
        BY <1>2, <2>4
      <3> HIDE DEF s
      <3>2. \A x \in 0 .. MaxCluster : FreeChain(Disk, c).fat[x] = IF x \in ToSet(s) THEN 0 ELSE Disk.fat[x]
        BY <1>2, <1>4, <3>1, FreeIs
      <3> QED
        BY <1>2, <3>2 DEF d
    <2>6. ToSet(s) \subseteq Clusters
      <3> HIDE DEF s
      <3> QED
        BY <1>4, <2>4, ChainFacts
    <2>7. IsChain(G, 0, u) /\ Len(u) = 0 /\ ToSet(u) = {}
      BY DEF IsChain, ToSet
    <2>8. Moved(F, G, s, u)
      <3> HIDE DEF s, u
      <3> QED
        BY <2>5, <2>6, <2>7, Numbers DEF Moved
    <2>9. CeilDiv(0, CS) = 0
      BY NeededIs
    <2>10. D \in Dirs(nfile) /\ N \in Nodes(nfile) /\ E \in Dirs(nfile) /\ F \in FATs /\ G \in FATs
      BY <1>2, <1>5, <1>7
    <2>11. E[S] = FreeSlot /\ \A r \in Slots : r # S => E[r] = D[r]
      BY <1>7
    <2>12. k = EntryOf(S)
      OBVIOUS
    <2> HIDE DEF F, G, D, N, E, s, u, k, T
    <2>13. EntryChange(nfile, F, G, T, T, D, N, E, N, S, k, s, u)
      BY <1>1, <1>7, <2>1, <2>2, <2>3, <2>4, <2>7, <2>8, <2>9, <2>10, <2>11, <2>12 DEF EntryChange
    <2>14. /\ Sound(G, T, E, N)
           /\ Exact(F, D, N) /\ Len(u) = CeilDiv(E[S].size, CS) => Exact(G, E, N)
      BY <2>13, EntryStep
    <2>15. Len(u) = CeilDiv(E[S].size, CS)
      BY <1>7, <2>7, <2>9, <2>11
    <2>16. Sound(G, T, E, N) /\ (~failed => Exact(G, E, N))
      BY <2>1, <2>14, <2>15
    <2> QED
      BY <2>16 DEF G, T, E, N
  <1>11. /\ ~stray' => Sound(fat', tag', dir', node')
         /\ ~stray' /\ ~failed' => Exact(fat', dir', node')
    BY <1>8, <1>9, <1>10
  <1> QED
    BY <1>9, <1>11 DEF FatInv

\* The chain of a node that agrees with its entry holds its size.
LEMMA AgreedChain ==
  ASSUME FatInv, ~stray, NEW S, NEW nd \in Node(nfile), NEW h, Agrees(dir, node, S, nd, h)
  PROVE  /\ IsChain(fat, nd.cluster, Walk(fat, nd.cluster))
         /\ CeilDiv(nd.size, CS) <= Len(Walk(fat, nd.cluster))
         /\ ~failed => Len(Walk(fat, nd.cluster)) = CeilDiv(nd.size, CS)
         /\ nd.size = 0 \/ nd.cluster # 0
  <1>1. /\ NULL \notin Node(nfile) /\ dir \in Dirs(nfile) /\ node \in Nodes(nfile)
        /\ S \in Slots /\ dir[S].size = nd.size /\ nd.cluster \in Clusters \cup {0}
        /\ dir[S].cluster \in {nd.cluster, 0}
    BY Typed DEF FatInv, Agrees, Node
  <1>2. /\ \A r \in Slots : dir[r].size = 0 <=> dir[r].cluster = 0
        /\ Sound(fat, tag, dir, node) /\ (~failed => Exact(fat, dir, node))
    BY EntriesOK
  <1>3. PICK k : HeldBy(dir, node, S, nd, h, k)
    BY <1>1, <1>2, Holder
  <1>4. k \in Keys /\ Starts(dir, node)[k] = nd.cluster
    BY <1>3 DEF HeldBy
  <1>5. IsChain(fat, nd.cluster, Walk(fat, nd.cluster))
    BY <1>2, <1>4 DEF Sound, Lay
  <1>6. Len(Walk(fat, nd.cluster)) \in Nat
    BY <1>1, <1>5, ChainFacts
  <1>7. CeilDiv(0, CS) = 0
    BY NeededIs
  <1>8. CASE nd.size = 0
    <2>1. CeilDiv(nd.size, CS) <= Len(Walk(fat, nd.cluster))
      BY <1>6, <1>7, <1>8
    <2>2. ASSUME ~failed PROVE nd.cluster = 0
      BY <1>1, <1>2, <1>3, <1>8, <2>2 DEF HeldBy, Exact
    <2>3. ~failed => Len(Walk(fat, nd.cluster)) = CeilDiv(nd.size, CS)
      <3>1. Len(<<>>) = 0
        OBVIOUS
      <3> QED
        BY <1>7, <1>8, <2>2, <3>1, WalkZero
    <2> QED
      BY <1>5, <1>8, <2>1, <2>3
  <1>9. CASE nd.size # 0
    <2>1. dir[S].cluster = nd.cluster /\ nd.cluster # 0
      BY <1>1, <1>2, <1>9
    <2>2. CeilDiv(nd.size, CS) <= Len(Walk(fat, nd.cluster))
      BY <1>1, <1>2, <2>1 DEF Sound, Entries
    <2>3. ~failed => Len(Walk(fat, nd.cluster)) = CeilDiv(nd.size, CS)
      BY <1>1, <1>2, <2>1 DEF Exact
    <2> QED
      BY <1>5, <2>1, <2>2, <2>3
  <1> QED
    BY <1>8, <1>9

\* A call that truncates through node nd to another size.
LEMMA CutCall ==
  ASSUME FatInv, NEW nd \in Node(nfile), NEW h \in Handles \cup {NULL}, NEW size \in Sizes,
         size # nd.size, NEW t, t = Truncated(Disk, nd, size),
         SetDisk(t.disk), Becomes(node, h, t.node, node'),
         dir' = IF t.upd THEN UpdateDirent(t.node) ELSE dir,
         nfile' = nfile, pool' \in 0 .. NNODE, stray' \in BOOLEAN,
         ~stray' => ~stray /\ Agrees(dir, node, nd.slot, nd, h),
         nd.size = 0 => h \in Handles /\ node[h] = nd
  PROVE  FatInv'
  <1>1. /\ FatTypeOK /\ Named /\ nfile \in Nat /\ Disk \in Disks(nfile) /\ Disk.ok
        /\ Disk.fat = fat /\ Disk.tag = tag /\ NULL \notin Node(nfile)
        /\ fat \in FATs /\ dir \in Dirs(nfile) /\ node \in Nodes(nfile)
    BY Typed DEF FatInv
  <1> DEFINE e == t.disk
             nd2 == t.node
             upd == t.upd
             G == e.fat
             V == e.tag
             M == node'
             E == dir'
  <1>2. e \in Disks(nfile) /\ nd2 \in Node(nfile) /\ nd2.slot = nd.slot /\ nd2.id = nd.id /\ upd \in BOOLEAN
    <2>1. /\ Truncated(Disk, nd, size).disk \in Disks(nfile)
          /\ Truncated(Disk, nd, size).node \in Node(nfile)
          /\ Truncated(Disk, nd, size).node.slot = nd.slot /\ Truncated(Disk, nd, size).node.id = nd.id
          /\ Truncated(Disk, nd, size).upd \in BOOLEAN
      BY <1>1, TruncType
    <2> QED
      BY <2>1
  <1>3. /\ upd => Rewritten(dir, nd2, E)
        /\ ~upd => E = dir
        /\ Becomes(node, h, nd2, M) /\ SetDisk(e)
    BY DEF Rewritten, UpdateDirent
  <1>4. ASSUME ~stray', NEW u, Cut(Disk, nd, Walk(fat, nd.cluster), size, e, nd2, upd, u)
        PROVE  /\ Sound(G, V, E, M)
               /\ ~failed /\ e.ok => Exact(G, E, M)
    <2> DEFINE F == fat
               T == tag
               D == dir
               N == node
               S == nd.slot
               s == Walk(F, nd.cluster)
    <2>1. ~stray /\ Agrees(D, N, S, nd, h)
      BY <1>4
    <2>2. Sound(F, T, D, N) /\ (~failed => Exact(F, D, N))
      BY <2>1, EntriesOK
    <2>3. IsChain(F, nd.cluster, s)
      BY <2>1, AgreedChain
    <2>4. F \in FATs /\ D \in Dirs(nfile) /\ N \in Nodes(nfile) /\ G \in FATs
      BY <1>1, <1>2 DEF Disks
    <2> HIDE DEF s, S
    <2>5. Cut(Disk, nd, s, size, e, nd2, upd, u)
      BY <1>4 DEF s
    <2> HIDE DEF e, nd2, upd
    <2>6. /\ IsChain(G, nd2.cluster, u) /\ Moved(F, G, s, u)
          /\ \A x \in Clusters : F[x] # 0 /\ x \notin ToSet(s) /\ x \notin ToSet(u) => V[x] = T[x]
          /\ \A x \in ToSet(u) : V[x] = 0 \/ (x \in ToSet(s) /\ V[x] = T[x])
          /\ upd => e.ok /\ nd2.size = size /\ Len(u) = CeilDiv(size, CS)
          /\ ~upd => /\ ~e.ok /\ nd2.size = nd.size /\ Len(s) <= Len(u)
                     /\ nd.cluster # 0 => nd2.cluster = nd.cluster
      BY <1>1, <2>5 DEF Cut, Kept
    <2>7. size \in Nat /\ CeilDiv(size, CS) \in Nat /\ (size = 0 <=> CeilDiv(size, CS) = 0)
      <3>1. size \in Nat
        BY FatAssumption DEF Sizes
      <3> QED
        BY <3>1, NeededIs
    <2>8. nd2.cluster = 0 <=> Len(u) = 0
      <3>1. nd2.cluster \in Clusters \cup {0}
        BY <1>2 DEF Node
      <3> QED
        BY <2>6, <3>1, ChainFacts
    <2> HIDE DEF F, T, D, N, G, V, M, E
    <2>9. Becomes(N, h, nd2, M)
      BY <1>3 DEF N
    <2>10. Change(nfile, F, G, T, V, D, N, S, nd, h, nd2, M, s, u)
      BY <1>1, <1>2, <2>1, <2>2, <2>3, <2>4, <2>6, <2>9 DEF Change
    <2>11. CASE upd
      <3>1. nd2.size = 0 <=> nd2.cluster = 0
        BY <2>6, <2>7, <2>8, <2>11
      <3>2. Rewritten(D, nd2, E)
        BY <1>3, <2>11 DEF D
      <3>4. CeilDiv(nd2.size, CS) = Len(u) /\ CeilDiv(nd2.size, CS) <= Len(u)
        BY <2>6, <2>7, <2>11
      <3>5. \A x \in ToSet(u) : V[x] \in {0, nd.id} \/ (x \in ToSet(s) /\ V[x] = T[x])
        BY <2>6
      <3>6. /\ Sound(G, V, E, M)
            /\ Exact(F, D, N) /\ Len(u) = CeilDiv(nd2.size, CS) => Exact(G, E, M)
        <4>1. RewriteChange(D, nd, nd2, E, T, V, s, u)
          BY <3>1, <3>2, <3>4, <3>5 DEF RewriteChange
        <4> QED
          BY <2>10, <4>1, RewriteStep
      <3> QED
        BY <2>2, <3>4, <3>6
    <2>12. CASE ~upd
      <3>1. E = D
        BY <1>3, <2>12 DEF D
      <3>2. (nd.size = 0 => h \in Handles /\ N[h] = nd)
        BY <1>3 DEF N
      <3>3. nd2.size = nd.size /\ Len(s) <= Len(u) /\ (nd.cluster # 0 => nd2.cluster = nd.cluster)
        BY <2>6, <2>12
      <3>4. \A x \in ToSet(u) : \/ V[x] = 0 \/ (x \in ToSet(s) /\ V[x] = T[x])
                                \/ nd.size # 0 /\ V[x] = nd.id
        BY <2>6
      <3>5. KeepChange(N, nd, h, nd2, T, V, s, u)
        BY <3>2, <3>3, <3>4 DEF KeepChange
      <3>6. Sound(G, V, D, M)
        BY <2>10, <3>5, KeepStep
      <3> QED
        BY <2>6, <2>12, <3>1, <3>6
    <2> QED
      BY <1>2, <2>11, <2>12
  <1>5. FatTypeOK' /\ Named' /\ fat' = G /\ tag' = V /\ failed' = (failed \/ ~e.ok)
    <2>1. M \in Nodes(nfile)
      BY <1>1, <1>2, <1>3, BecomesIs
    <2>2. E \in Dirs(nfile) /\ \A r \in Slots : E[r].name = dir[r].name /\ E[r].id = dir[r].id
      <3>1. CASE upd
        <4> HIDE DEF nd2, E
        <4> QED
          BY <1>1, <1>2, <1>3, <3>1, RewrittenType
      <3>2. CASE ~upd
        BY <1>1, <1>3, <3>2
      <3> QED
        BY <1>2, <3>1, <3>2
    <2> HIDE DEF e
    <2> QED
      BY <1>1, <1>2, <1>3, <2>1, <2>2, StepTypes
  <1>6. ASSUME ~stray'
        PROVE  Sound(G, V, E, M) /\ (~failed /\ e.ok => Exact(G, E, M))
    <2> DEFINE s == Walk(fat, nd.cluster)
    <2>1. IsChain(Disk.fat, nd.cluster, s)
      BY <1>1, <1>6, AgreedChain
    <2> HIDE DEF s
    <2>2. \E u : Cut(Disk, nd, s, size, Truncated(Disk, nd, size).disk, Truncated(Disk, nd, size).node,
                     Truncated(Disk, nd, size).upd, u)
      BY <1>1, <2>1, TruncIs
    <2>3. PICK u : Cut(Disk, nd, s, size, e, nd2, upd, u)
      BY <2>2
    <2> QED
      BY <1>4, <1>6, <2>3 DEF s
  <1>7. /\ ~stray' => Sound(fat', tag', dir', node')
        /\ ~stray' /\ ~failed' => Exact(fat', dir', node')
    BY <1>5, <1>6
  <1> QED
    BY <1>5, <1>7 DEF FatInv

LEMMA FatFtruncate ==
  ASSUME FatInv, NEW h \in Handles, NEW size \in Sizes, Ftruncate(h, size)
  PROVE  FatInv'
  <1> DEFINE nd == node[h]
             t == Truncated(Disk, nd, size)
  <1>1. /\ FatTypeOK /\ Named /\ nfile \in Nat /\ Disk \in Disks(nfile) /\ NULL \notin Node(nfile)
        /\ dir \in Dirs(nfile) /\ node \in Nodes(nfile) /\ NULL \notin Handles
    BY Typed DEF FatInv
  <1>2. nd \in Node(nfile) /\ nd.slot \in Slots
    BY <1>1 DEF Ftruncate, Nodes, Node
  <1>3. /\ SetDisk(t.disk) /\ node' = [node EXCEPT ![h] = t.node]
        /\ dir' = IF t.upd THEN UpdateDirent(t.node) ELSE dir
        /\ stray' = (stray \/ (size # nd.size /\ ~Current(nd)))
        /\ nfile' = nfile /\ pool' = pool
    BY DEF Ftruncate
  <1>4. pool' \in 0 .. NNODE /\ stray' \in BOOLEAN /\ (~stray' => ~stray)
    BY <1>1, <1>3 DEF FatTypeOK
  <1>5. CASE size = nd.size
    <2>1. t = [disk |-> Disk, node |-> nd, upd |-> FALSE]
      BY <1>5 DEF Truncated
    <2>2. node' = node /\ dir' = dir
      BY <1>1, <1>3, <2>1 DEF Nodes
    <2>3. UNCHANGED <<fat, tag, hint, failed>>
      BY <1>1, <1>3, <2>1 DEF SetDisk, Disk, FatTypeOK
    <2> QED
      BY <1>1, <1>3, <1>4, <2>2, <2>3, DropCall
  <1>6. CASE size # nd.size
    <2>1. Becomes(node, h, t.node, node')
      BY <1>1, <1>3 DEF Becomes
    <2>2. ASSUME ~stray' PROVE ~stray /\ Agrees(dir, node, nd.slot, nd, h)
      BY <1>2, <1>3, <1>6, <2>2 DEF Current, Agrees
    <2>3. h \in Handles /\ node[h] = nd /\ h \in Handles \cup {NULL} /\ t = Truncated(Disk, nd, size)
      OBVIOUS
    <2> HIDE DEF nd, t
    <2> QED
      BY <1>2, <1>3, <1>4, <1>6, <2>1, <2>2, <2>3, CutCall
  <1> QED
    BY <1>5, <1>6

LEMMA FatOpen ==
  ASSUME FatInv, NEW h \in Handles \cup {NULL}, NEW name \in Names, NEW trunc \in BOOLEAN,
         Open(h, name, trunc)
  PROVE  FatInv'
  <1> DEFINE S == Lookup(name)
             nd == NewNode(S, dir[S])
             t == IF trunc THEN Truncated(Disk, nd, 0)
                  ELSE [disk |-> Disk, node |-> nd, upd |-> FALSE]
  <1>1. S \in Slots /\ dir[S].name # NULL
    BY LookupIs DEF Open
  <1>2. /\ FatTypeOK /\ Named /\ nfile \in Nat /\ Disk \in Disks(nfile) /\ NULL \notin Node(nfile)
        /\ dir \in Dirs(nfile) /\ node \in Nodes(nfile) /\ NULL \notin Handles
    BY Typed DEF FatInv
  <1>3. /\ SetDisk(t.disk) /\ OpensAs(h, t.node)
        /\ dir' = IF t.upd THEN UpdateDirent(t.node) ELSE dir
        /\ nfile' = nfile /\ stray' = stray /\ pool' = pool - 1 /\ pool > 0
    BY DEF Open
  <1>4. pool' \in 0 .. NNODE /\ stray' \in BOOLEAN
    BY <1>2, <1>3, FatAssumption DEF FatTypeOK
  <1> HIDE DEF S
  <1>5. /\ nd \in Node(nfile) /\ nd.slot = S /\ nd.id = dir[S].id /\ nd.size = dir[S].size
        /\ nd.cluster = dir[S].cluster
    BY <1>1, <1>2, NewNodeIs
  <1> HIDE DEF nd
  <1>6. Becomes(node, h, t.node, node') /\ (h # NULL => node[h] = NULL)
    BY <1>3 DEF OpensAs, Becomes
  <1>7. CASE ~trunc \/ nd.size = 0
    <2>1. t = [disk |-> Disk, node |-> nd, upd |-> FALSE]
      BY <1>7 DEF Truncated
    <2>2. Becomes(node, h, nd, node') /\ dir' = dir
      BY <1>3, <1>6, <2>1
    <2>3. UNCHANGED <<fat, tag, hint, failed>>
      BY <1>2, <1>3, <2>1 DEF SetDisk, Disk, FatTypeOK
    <2>4. /\ node' \in Nodes(nfile) /\ \A g \in Handles : g # h => node'[g] = node[g]
          /\ h \in Handles => node'[h] = nd
      BY <1>2, <1>5, <2>2, BecomesIs
    <2>5. ASSUME ~stray, NEW g \in Handles
          PROVE  \/ Starts(dir, node')[NodeOf(g)] = Starts(dir, node)[NodeOf(g)]
                 \/ Starts(dir, node')[NodeOf(g)] = 0
      <3>1. CASE g # h
        <4>1. node'[g] = node[g]
          BY <2>4, <3>1
        <4> QED
          BY <1>2, <2>4, <4>1, StartsAre
      <3>2. CASE g = h
        <4>1. node'[g] = nd
          BY <2>4, <3>2
        <4>2. nd.size = 0 => nd.cluster = 0
          BY <1>1, <1>5, <2>5, EntriesOK
        <4> QED
          BY <1>2, <2>4, <4>1, <4>2, StartsAre
      <3> QED
        BY <3>1, <3>2
    <2> QED
      BY <1>3, <1>4, <2>2, <2>3, <2>4, <2>5, DropCall
  <1>8. CASE trunc /\ nd.size # 0
    <2>1. t = Truncated(Disk, nd, 0) /\ 0 \in Sizes /\ 0 # nd.size
      BY <1>8, FatAssumption DEF Sizes
    <2>2. Agrees(dir, node, nd.slot, nd, h)
      BY <1>1, <1>5, <1>6 DEF Agrees
    <2> DEFINE size == 0
    <2>3. size \in Sizes /\ size # nd.size /\ t = Truncated(Disk, nd, size)
      BY <2>1
    <2>4. ~stray' => ~stray /\ Agrees(dir, node, nd.slot, nd, h)
      BY <1>3, <2>2
    <2>5. nd.size = 0 => h \in Handles /\ node[h] = nd
      BY <1>8
    <2> HIDE DEF size, t
    <2> QED
      BY <1>3, <1>4, <1>5, <1>6, <2>3, <2>4, <2>5, CutCall
  <1> QED
    BY <1>7, <1>8

\* The clusters that a write reaches are in the file's chain.
LEMMA HitIs ==
  ASSUME NEW F \in FATs, NEW c \in Clusters, NEW t, IsChain(F, c, t),
         NEW needed \in Nat \ {0}, needed <= Len(t), NEW off \in Nat
  PROVE  {ChainOf(F, c, needed)[i] : i \in off \div CS + 1 .. needed} \subseteq ToSet(t)
  <1>1. ChainOf(F, c, needed) = Pre(t, IF needed <= Len(t) THEN needed ELSE Len(t))
    BY ChainOfIs
  <1>2. ChainOf(F, c, needed) = Pre(t, needed)
    BY <1>1
  <1>3. off \div CS \in Nat /\ Len(t) \in Nat /\ ToSet(t) = {t[i] : i \in 1 .. Len(t)}
    <2>1. off \div CS \in Nat
      BY NeededIs
    <2>2. Len(t) \in Nat /\ ToSet(t) = {t[i] : i \in 1 .. Len(t)}
      BY DEF IsChain, ToSet
    <2> QED
      BY <2>1, <2>2
  <1> DEFINE a == off \div CS + 1
  <1>4. a \in Nat /\ a >= 1
    BY <1>3
  <1> HIDE DEF a
  <1>5. ASSUME NEW i \in a .. needed PROVE Pre(t, needed)[i] \in ToSet(t)
    <2>1. i \in 1 .. needed /\ i \in 1 .. Len(t)
      BY <1>3, <1>4, <1>5
    <2>2. Pre(t, needed)[i] = t[i]
      BY <2>1 DEF Pre
    <2> QED
      BY <1>3, <2>1, <2>2
  <1> QED
    BY <1>2, <1>5 DEF a

\* What a write leaves: disk e of EnsureChain, with hit written by file id.
Written(e, hit, id) == [e EXCEPT !.tag = [c \in DOMAIN tag |-> IF c \in hit THEN id ELSE @[c]]]

LEMMA WrittenIs ==
  ASSUME FatTypeOK, NEW e \in Disks(nfile), NEW hit, NEW id \in 0 .. nfile
  PROVE  /\ Written(e, hit, id) \in Disks(nfile)
         /\ Written(e, hit, id).fat = e.fat /\ Written(e, hit, id).ok = e.ok
         /\ \A x \in 0 .. MaxCluster : Written(e, hit, id).tag[x] = IF x \in hit THEN id ELSE e.tag[x]
  <1> DEFINE V == [c \in DOMAIN tag |-> IF c \in hit THEN id ELSE e.tag[c]]
  <1>1. Written(e, hit, id) = [e EXCEPT !.tag = V]
    BY DEF Written, Disks
  <1>2. DOMAIN tag = 0 .. MaxCluster
    BY DEF FatTypeOK
  <1>3. V \in [0 .. MaxCluster -> 0 .. nfile]
    BY <1>2 DEF Disks
  <1>4. \A x \in 0 .. MaxCluster : V[x] = IF x \in hit THEN id ELSE e.tag[x]
    BY <1>2
  <1> HIDE DEF V
  <1>5. [e EXCEPT !.tag = V] \in Disks(nfile)
    BY <1>3 DEF Disks
  <1>6. /\ [e EXCEPT !.tag = V].tag = V /\ [e EXCEPT !.tag = V].fat = e.fat
        /\ [e EXCEPT !.tag = V].ok = e.ok
    BY DEF Disks
  <1> QED
    BY <1>1, <1>4, <1>5, <1>6

\* The call, taken apart: disk e of EnsureChain and node nd2.
WriteDoes(h, nd, end, e, c, hit) ==
  \/ /\ e.ok
     /\ SetDisk(Written(e, hit, nd.id))
     /\ node' = [node EXCEPT ![h] =
                   [nd EXCEPT !.cluster = c, !.size = IF end > nd.size THEN end ELSE nd.size]]
     /\ end > nd.size => dir' = UpdateDirent([nd EXCEPT !.cluster = c, !.size = end])
     /\ ~(end > nd.size) => dir' = dir
  \/ /\ ~e.ok
     /\ SetDisk(e) /\ node' = [node EXCEPT ![h] = [nd EXCEPT !.cluster = c]] /\ dir' = dir

WriteTook(h, off, len) ==
  LET end == off + len
      needed == CeilDiv(end, CS)
      en == EnsureChain(Disk, node[h].cluster, needed)
  IN  /\ node[h] \in Node(nfile)
      /\ WriteDoes(h, node[h], end, en.disk, en.start,
           {ChainOf(en.disk.fat, en.start, needed)[i] : i \in off \div CS + 1 .. needed})
      /\ stray' = (stray \/ ~Current(node[h])) /\ pool' = pool /\ nfile' = nfile

LEMMA WriteTaken ==
  ASSUME FatTypeOK, NEW h \in Handles, NEW off, NEW len, Write(h, off, len)
  PROVE  WriteTook(h, off, len)
  <1> DEFINE nd == node[h]
             end == off + len
             needed == CeilDiv(end, CS)
             en == EnsureChain(Disk, nd.cluster, needed)
             e == en.disk
             c == en.start
             hit == {ChainOf(e.fat, c, needed)[i] : i \in off \div CS + 1 .. needed}
             n1 == [nd EXCEPT !.cluster = c]
             n2 == [n1 EXCEPT !.size = IF end > @ THEN end ELSE @]
  <1>1. nd \in Node(nfile)
    <2>1. node[h] # NULL
      BY DEF Write
    <2> QED
      BY <2>1 DEF FatTypeOK
  <1>2. stray' = (stray \/ ~Current(node[h])) /\ pool' = pool /\ nfile' = nfile
    BY DEF Write
  <1>3. IF e.ok
        THEN /\ SetDisk(Written(e, hit, nd.id))
             /\ node' = [node EXCEPT ![h] = n2]
             /\ dir' = IF end > nd.size THEN UpdateDirent(n2) ELSE dir
        ELSE /\ SetDisk(e) /\ node' = [node EXCEPT ![h] = n1] /\ dir' = dir
    BY DEF Write, Written
  <1> HIDE DEF hit, e, c, nd
  <1>4. n2 = [nd EXCEPT !.cluster = c, !.size = IF end > nd.size THEN end ELSE nd.size]
    BY <1>1 DEF Node
  <1>5. end > nd.size => n2 = [nd EXCEPT !.cluster = c, !.size = end]
    BY <1>4
  <1>6. WriteDoes(h, nd, end, e, c, hit)
    <2> HIDE DEF n2, end
    <2>1. CASE e.ok
      <3> DEFINE m == [nd EXCEPT !.cluster = c, !.size = IF end > nd.size THEN end ELSE nd.size]
      <3>1. SetDisk(Written(e, hit, nd.id)) /\ node' = [node EXCEPT ![h] = m]
        BY <1>3, <1>4, <2>1
      <3>2. end > nd.size => dir' = UpdateDirent([nd EXCEPT !.cluster = c, !.size = end])
        BY <1>3, <1>5, <2>1
      <3>3. ~(end > nd.size) => dir' = dir
        BY <1>3, <2>1
      <3> QED
        BY <2>1, <3>1, <3>2, <3>3 DEF WriteDoes
    <2>2. CASE ~e.ok
      BY <1>3, <2>2 DEF WriteDoes
    <2> QED
      BY <2>1, <2>2
  <1> QED
    BY <1>1, <1>2, <1>6 DEF WriteTook, nd, e, c, hit

LEMMA FatWrite ==
  ASSUME FatInv, NEW h \in Handles, NEW off \in Sizes, NEW len \in 1 .. MaxSize - off,
         Write(h, off, len)
  PROVE  FatInv'
  <1> DEFINE nd == node[h]
             S == nd.slot
             end == off + len
             needed == CeilDiv(end, CS)
             en == EnsureChain(Disk, nd.cluster, needed)
             e == en.disk
             c == en.start
             hit == {ChainOf(e.fat, c, needed)[i] : i \in off \div CS + 1 .. needed}
             w == Written(e, hit, nd.id)
             d == IF e.ok THEN w ELSE e
             nd2 == [nd EXCEPT !.cluster = c,
                               !.size = IF e.ok /\ end > nd.size THEN end ELSE nd.size]
             grew == e.ok /\ end > nd.size
  <1>1. /\ FatTypeOK /\ Named /\ nfile \in Nat /\ Disk \in Disks(nfile) /\ Disk.ok
        /\ Disk.fat = fat /\ Disk.tag = tag /\ NULL \notin Node(nfile) /\ NULL \notin Handles
        /\ fat \in FATs /\ dir \in Dirs(nfile) /\ node \in Nodes(nfile)
    BY Typed DEF FatInv
  <1>2. /\ nd \in Node(nfile) /\ WriteDoes(h, nd, end, e, c, hit)
        /\ stray' = (stray \/ ~Current(nd)) /\ pool' = pool /\ nfile' = nfile
    <2>1. WriteTook(h, off, len)
      BY <1>1, WriteTaken
    <2> QED
      BY <2>1 DEF WriteTook
  <1>3. end \in Sizes /\ end \in Nat \ {0} /\ off \in Nat
    BY FatAssumption DEF Sizes
  <1>4. needed \in Nat \ {0}
    <2> HIDE DEF end
    <2> QED
      BY <1>3, NeededIs
  <1>5. /\ nd.slot \in Slots /\ nd.id \in 0 .. nfile /\ nd.id \in 1 .. nfile
        /\ nd.cluster \in Clusters \cup {0} /\ nd.size \in Sizes /\ nd.size \in Nat
    <2>1. nd.slot \in Slots /\ nd.id \in 1 .. nfile /\ nd.cluster \in Clusters \cup {0} /\ nd.size \in Sizes
      BY <1>2 DEF Node
    <2> QED
      BY <1>1, <2>1, FatAssumption DEF Sizes
  <1> HIDE DEF nd, end, needed
  <1>6. e \in Disks(nfile) /\ c \in Clusters \cup {0} /\ (nd.cluster # 0 => c = nd.cluster)
    BY <1>1, <1>4, <1>5, EnsureType
  <1> HIDE DEF hit, e, c
  <1>7. /\ w \in Disks(nfile) /\ w.fat = e.fat /\ w.ok = e.ok
        /\ \A x \in 0 .. MaxCluster : w.tag[x] = IF x \in hit THEN nd.id ELSE e.tag[x]
    BY <1>1, <1>5, <1>6, WrittenIs
  <1> HIDE DEF w
  <1>8. /\ d \in Disks(nfile) /\ d.fat = e.fat /\ d.ok = e.ok
        /\ e.ok => \A x \in 0 .. MaxCluster : d.tag[x] = IF x \in hit THEN nd.id ELSE e.tag[x]
        /\ ~e.ok => d.tag = e.tag
    BY <1>6, <1>7
  <1>9. /\ nd2 \in Node(nfile) /\ nd2.slot = nd.slot /\ nd2.id = nd.id /\ nd2.cluster = c
        /\ nd2.size = IF grew THEN end ELSE nd.size
    BY <1>2, <1>3, <1>6 DEF Node
  <1>10. SetDisk(d) /\ node' = [node EXCEPT ![h] = nd2]
    <2>1. CASE e.ok
      BY <1>2, <2>1 DEF WriteDoes, w
    <2>2. CASE ~e.ok
      <3>1. [nd EXCEPT !.cluster = c] = [nd EXCEPT !.cluster = c, !.size = nd.size]
        BY <1>2 DEF Node
      <3> QED
        BY <1>2, <2>2, <3>1 DEF WriteDoes
    <2> QED
      BY <2>1, <2>2
  <1>11. /\ grew => dir' = UpdateDirent(nd2)
         /\ ~grew => dir' = dir
    BY <1>2 DEF WriteDoes
  <1> HIDE DEF d, nd2
  <1> DEFINE M == node'
             E == dir'
             G == d.fat
             V == d.tag
  <1>12. /\ grew => Rewritten(dir, nd2, E)
         /\ Becomes(node, h, nd2, M)
    BY <1>1, <1>11, <1>10 DEF Rewritten, UpdateDirent, Becomes
  <1>13. FatTypeOK' /\ Named' /\ fat' = G /\ tag' = V /\ failed' = (failed \/ ~d.ok)
    <2>1. M \in Nodes(nfile)
      BY <1>1, <1>9, <1>12, BecomesIs
    <2>2. E \in Dirs(nfile) /\ \A r \in Slots : E[r].name = dir[r].name /\ E[r].id = dir[r].id
      <3>1. CASE grew
        <4> HIDE DEF E
        <4> QED
          BY <1>1, <1>9, <1>12, <3>1, RewrittenType
      <3>2. CASE ~grew
        BY <1>1, <1>11, <3>2
      <3> QED
        BY <3>1, <3>2
    <2>3. pool' \in 0 .. NNODE /\ stray' \in BOOLEAN
      BY <1>1, <1>2 DEF FatTypeOK
    <2> QED
      BY <1>1, <1>2, <1>8, <1>10, <2>1, <2>2, <2>3, StepTypes
  <1>14. ASSUME ~stray'
         PROVE  Sound(G, V, E, M) /\ (~failed /\ d.ok => Exact(G, E, M))
    <2> DEFINE F == fat
               T == tag
               D == dir
               N == node
               s == Walk(F, nd.cluster)
    <2>1. ~stray /\ Agrees(D, N, S, nd, h)
      BY <1>2, <1>5, <1>14 DEF Current, Agrees, nd
    <2>2. Sound(F, T, D, N) /\ (~failed => Exact(F, D, N))
      BY <2>1, EntriesOK
    <2>3. /\ IsChain(F, nd.cluster, s) /\ CeilDiv(nd.size, CS) <= Len(s)
          /\ ~failed => Len(s) = CeilDiv(nd.size, CS)
          /\ nd.size = 0 \/ nd.cluster # 0
      BY <1>2, <2>1, AgreedChain
    <2> HIDE DEF s
    <2>4. PICK u : Ensured(Disk, s, needed, e, c, u)
      <3>1. IsChain(Disk.fat, nd.cluster, s) /\ needed \in Nat
        BY <1>1, <1>4, <2>3
      <3> QED
        BY <1>1, <1>5, <3>1, EnsureIs DEF e, c
    <2>5. /\ IsChain(G, c, u) /\ Len(s) <= Len(u) /\ Moved(F, G, s, u)
          /\ \A x \in Clusters : F[x] # 0 /\ x \notin ToSet(s) /\ x \notin ToSet(u) => e.tag[x] = T[x]
          /\ \A x \in ToSet(u) : e.tag[x] = 0 \/ (x \in ToSet(s) /\ e.tag[x] = T[x])
          /\ e.ok => Len(u) = IF needed <= Len(s) THEN Len(s) ELSE needed
      BY <1>1, <1>8, <2>4 DEF Ensured, Kept
    <2>6. G \in FATs /\ Len(u) \in Nat /\ Len(s) \in Nat /\ ToSet(u) \subseteq Clusters
          /\ (c = 0 <=> Len(u) = 0)
      <3>1. G \in FATs
        BY <1>8 DEF Disks
      <3>2. Len(s) \in Nat
        BY <1>5, <2>3, ChainFacts
      <3>3. Len(u) \in Nat /\ ToSet(u) \subseteq Clusters /\ (c = 0 <=> Len(u) = 0)
        <4> HIDE DEF G
        <4> QED
          BY <1>6, <2>5, ChainFacts
      <3> QED
        BY <3>1, <3>2, <3>3
    <2>7. e.ok => needed <= Len(u) /\ c # 0 /\ hit \subseteq ToSet(u)
      <3> SUFFICES ASSUME e.ok PROVE needed <= Len(u) /\ c # 0 /\ hit \subseteq ToSet(u)
        OBVIOUS
      <3>1. needed <= Len(u) /\ c # 0 /\ c \in Clusters
        BY <1>4, <1>6, <2>5, <2>6
      <3>2. IsChain(e.fat, c, u) /\ e.fat \in FATs
        BY <1>8, <2>5, <2>6
      <3>3. {ChainOf(e.fat, c, needed)[i] : i \in off \div CS + 1 .. needed} \subseteq ToSet(u)
        BY <1>3, <1>4, <3>1, <3>2, HitIs
      <3> QED
        BY <3>1, <3>3 DEF hit
    <2>8. \A x \in Clusters : F[x] # 0 /\ x \notin ToSet(s) /\ x \notin ToSet(u) => V[x] = T[x]
      <3> SUFFICES ASSUME NEW x \in Clusters, F[x] # 0, x \notin ToSet(s), x \notin ToSet(u)
                   PROVE  V[x] = T[x]
        OBVIOUS
      <3>1. e.tag[x] = T[x] /\ x \in 0 .. MaxCluster
        BY <2>5, Numbers
      <3>2. CASE e.ok
        BY <1>8, <2>7, <3>1, <3>2
      <3>3. CASE ~e.ok
        BY <1>8, <3>1, <3>3
      <3> QED
        BY <3>2, <3>3
    <2>9. \A x \in ToSet(u) : \/ V[x] = 0 \/ (x \in ToSet(s) /\ V[x] = T[x])
                              \/ e.ok /\ V[x] = nd.id
      <3> SUFFICES ASSUME NEW x \in ToSet(u)
                   PROVE  V[x] = 0 \/ (x \in ToSet(s) /\ V[x] = T[x]) \/ (e.ok /\ V[x] = nd.id)
        OBVIOUS
      <3>1. x \in 0 .. MaxCluster /\ (e.tag[x] = 0 \/ (x \in ToSet(s) /\ e.tag[x] = T[x]))
        BY <2>5, <2>6, Numbers
      <3>2. CASE e.ok
        BY <1>8, <3>1, <3>2
      <3>3. CASE ~e.ok
        BY <1>8, <3>1, <3>3
      <3> QED
        BY <3>2, <3>3
    <2>10. Change(nfile, F, G, T, V, D, N, S, nd, h, nd2, M, s, u)
      <3>1. D \in Dirs(nfile) /\ N \in Nodes(nfile) /\ F \in FATs /\ G \in FATs /\ h \in Handles \cup {NULL}
        BY <1>1, <2>6
      <3>2. IsChain(G, nd2.cluster, u) /\ Becomes(N, h, nd2, M)
        BY <1>9, <1>12, <2>5
      <3> HIDE DEF F, G, T, V, D, N, M, S
      <3> QED
        BY <1>1, <1>2, <1>9, <2>1, <2>2, <2>3, <2>5, <2>8, <3>1, <3>2 DEF Change, S
    <2>11. CeilDiv(nd.size, CS) \in Nat /\ \A a, b \in Nat : a <= b => CeilDiv(a, CS) <= CeilDiv(b, CS)
      BY <1>5, NeededIs
    <2>12. CASE grew
      <3>1. nd2.size = end /\ nd2.size # 0 /\ nd2.cluster # 0 /\ CeilDiv(nd2.size, CS) = needed
        BY <1>3, <1>9, <2>7, <2>12 DEF needed
      <3>2. CeilDiv(nd2.size, CS) <= Len(u)
        BY <2>7, <2>12, <3>1
      <3>3. \A x \in ToSet(u) : V[x] \in {0, nd.id} \/ (x \in ToSet(s) /\ V[x] = T[x])
        BY <2>9
      <3>4. Rewritten(D, nd2, E)
        BY <1>12, <2>12
      <3>5. RewriteChange(D, nd, nd2, E, T, V, s, u)
        BY <3>1, <3>2, <3>3, <3>4 DEF RewriteChange
      <3>6. ~failed => Len(u) = CeilDiv(nd2.size, CS)
        <4> SUFFICES ASSUME ~failed PROVE Len(u) = needed
          BY <3>1
        <4>1. Len(s) = CeilDiv(nd.size, CS) /\ CeilDiv(nd.size, CS) <= CeilDiv(end, CS)
          BY <1>3, <1>5, <2>3, <2>11, <2>12
        <4>2. Len(s) <= needed /\ Len(u) = IF needed <= Len(s) THEN Len(s) ELSE needed
          BY <2>5, <2>12, <4>1 DEF needed
        <4> QED
          BY <1>4, <2>6, <4>2
      <3> HIDE DEF F, G, T, V, D, N, M, S, E
      <3>7. /\ Sound(G, V, E, M)
            /\ Exact(F, D, N) /\ Len(u) = CeilDiv(nd2.size, CS) => Exact(G, E, M)
        BY <2>10, <3>5, RewriteStep
      <3> QED
        BY <2>2, <3>6, <3>7
    <2>13. CASE ~grew
      <3>1. E = D /\ nd2.size = nd.size /\ nd2.cluster = c
        BY <1>9, <1>11, <2>13
      <3>2. e.ok => nd.size # 0
        BY <1>3, <1>5, <2>13
      <3>3. h \in Handles /\ N[h] = nd
        BY DEF nd
      <3>4. KeepChange(N, nd, h, nd2, T, V, s, u)
        BY <1>6, <2>5, <2>9, <3>1, <3>2, <3>3 DEF KeepChange
      <3>5. e.ok => Len(u) = Len(s)
        <4> SUFFICES ASSUME e.ok PROVE Len(u) = Len(s)
          OBVIOUS
        <4>1. CeilDiv(end, CS) <= CeilDiv(nd.size, CS)
          <5>1. end <= nd.size
            BY <1>3, <1>5, <2>13
          <5> QED
            BY <1>3, <1>5, <2>11, <5>1
        <4>2. needed <= Len(s)
          BY <1>4, <2>3, <2>6, <2>11, <4>1 DEF needed
        <4> QED
          BY <2>5, <4>2
      <3> HIDE DEF F, G, T, V, D, N, M, S, E
      <3>6. /\ Sound(G, V, D, M)
            /\ Exact(F, D, N) /\ nd.size # 0 /\ Len(u) = Len(s) => Exact(G, D, M)
        BY <2>10, <3>4, KeepStep
      <3> QED
        BY <1>8, <2>2, <3>1, <3>2, <3>5, <3>6
    <2> QED
      BY <2>12, <2>13
  <1>15. /\ ~stray' => Sound(fat', tag', dir', node')
         /\ ~stray' /\ ~failed' => Exact(fat', dir', node')
    BY <1>13, <1>14
  <1> QED
    BY <1>13, <1>15 DEF FatInv

LEMMA FatNext == FatInv /\ [Next]_vars => FatInv'
  <1> SUFFICES ASSUME FatInv, [Next]_vars PROVE FatInv'
    OBVIOUS
  <1>1. ASSUME NEW h \in Handles \cup {NULL}, NEW name \in Names, NEW trunc \in BOOLEAN,
               Open(h, name, trunc)
        PROVE  FatInv'
    BY <1>1, FatOpen
  <1>2. ASSUME NEW h \in Handles \cup {NULL}, NEW name \in Names, Create(h, name) PROVE FatInv'
    BY <1>2, FatCreate
  <1>3. ASSUME NEW h \in Handles, NEW off \in Sizes, NEW len \in 1 .. MaxSize - off, Write(h, off, len)
        PROVE  FatInv'
    BY <1>3, FatWrite
  <1>4. ASSUME NEW h \in Handles, NEW size \in Sizes, Ftruncate(h, size) PROVE FatInv'
    BY <1>4, FatFtruncate
  <1>5. ASSUME NEW h \in Handles, Read(h) PROVE FatInv'
    BY <1>5, FatRead
  <1>6. ASSUME NEW h \in Handles, Close(h) PROVE FatInv'
    BY <1>6, FatClose
  <1>7. ASSUME NEW name \in Names, Unlink(name) PROVE FatInv'
    BY <1>7, FatUnlink
  <1>8. CASE UNCHANGED vars
    BY <1>8, FatStutter
  <1> QED
    BY <1>1, <1>2, <1>3, <1>4, <1>5, <1>6, <1>7, <1>8 DEF Next

-----------------------------------------------------------------------------
\* The inductive invariant of the files of the FAT: chains are whole and
\* apart, and as many as the files need, whatever was opened, written, cut or
\* removed through fat32_node copies that were not out of date.
THEOREM FatCorrect == Spec => []FatInv
  BY FatInit, FatNext, PTL DEF Spec

LEMMA InvChains ==
  ASSUME FatInv, ~stray
  PROVE  /\ \A s \in Slots :
              /\ IsChain(fat, dir[s].cluster, Chain(dir[s].cluster))
              /\ dir[s].cluster \in Clusters \cup {0} /\ Owned(s) \subseteq Clusters
              /\ Owned(s) = Held(fat, dir[s].cluster)
              /\ Chain(dir[s].cluster) = Walk(fat, dir[s].cluster)
              /\ CeilDiv(dir[s].size, CS) <= Len(Chain(dir[s].cluster))
              /\ \A x \in Owned(s) : fat[x] # 0
              /\ s \notin Live => Owned(s) = {}
         /\ \A r, s \in Slots : r # s => Owned(s) \cap Owned(r) = {}
  <1>1. Sound(fat, tag, dir, node)
    BY EntriesOK
  <1>2. fat \in FATs /\ dir \in Dirs(nfile) /\ node \in Nodes(nfile)
    BY Typed DEF FatInv
  <1> DEFINE st == Starts(dir, node)
  <1>3. st \in Starting /\ Lay(fat, st) /\ \A s \in Slots : EntryOf(s) \in Keys /\ st[EntryOf(s)] = dir[s].cluster
    BY <1>1, <1>2, StartsAre, KeysAre DEF Sound
  <1> HIDE DEF st
  <1>4. \A s \in Slots : /\ Chain(dir[s].cluster) = Walk(fat, dir[s].cluster)
                         /\ Owned(s) = Held(fat, dir[s].cluster)
    BY DEF Chain, Walk, Owned, Held
  <1>5. ASSUME NEW s \in Slots
        PROVE  /\ IsChain(fat, dir[s].cluster, Walk(fat, dir[s].cluster))
               /\ dir[s].cluster \in Clusters \cup {0} /\ Held(fat, dir[s].cluster) \subseteq Clusters
               /\ \A x \in Held(fat, dir[s].cluster) : fat[x] # 0
    <2> DEFINE k == EntryOf(s)
    <2>1. k \in Keys /\ st[k] = dir[s].cluster
      BY <1>3
    <2> HIDE DEF k
    <2>2. /\ st[k] \in Clusters \cup {0} /\ IsChain(fat, st[k], Walk(fat, st[k]))
          /\ Held(fat, st[k]) \subseteq Clusters
          /\ \A x \in Held(fat, st[k]) : fat[x] # 0
      BY <1>2, <1>3, <2>1, LayFacts
    <2> QED
      BY <2>1, <2>2
  <1>6. ASSUME NEW s \in Slots, s \notin Live PROVE Held(fat, dir[s].cluster) = {}
    <2>1. dir[s].name = NULL
      BY <1>6 DEF Live
    <2>2. dir[s].cluster = 0
      BY <2>1, EntriesOK DEF FreeSlot
    <2> QED
      BY <2>2, WalkZero
  <1>7. ASSUME NEW r \in Slots, NEW s \in Slots, r # s
        PROVE  Held(fat, dir[s].cluster) \cap Held(fat, dir[r].cluster) = {}
    BY <1>3, <1>7, KeysAre DEF Lay
  <1>8. \A s \in Slots : CeilDiv(dir[s].size, CS) <= Len(Walk(fat, dir[s].cluster))
    BY <1>1 DEF Sound, Entries
  <1> QED
    BY <1>4, <1>5, <1>6, <1>7, <1>8

LEMMA InvApart == FatInv => ChainsApart
  <1> SUFFICES ASSUME FatInv, ~stray, NEW s \in Live
               PROVE  /\ Chain(dir[s].cluster) # <<>> => fat[Last(Chain(dir[s].cluster))] = EOC
                      /\ IsInjective(Chain(dir[s].cluster)) /\ Owned(s) \subseteq Clusters
                      /\ Len(Chain(dir[s].cluster)) >= CeilDiv(dir[s].size, CS)
                      /\ \A r \in Live \ {s} : Owned(s) \cap Owned(r) = {}
    BY DEF ChainsApart
  <1>1. s \in Slots /\ Live \subseteq Slots
    BY DEF Live
  <1> DEFINE c == dir[s].cluster
             w == Chain(c)
  <1>2. /\ IsChain(fat, c, w) /\ c \in Clusters \cup {0} /\ Owned(s) \subseteq Clusters
        /\ CeilDiv(dir[s].size, CS) <= Len(w)
        /\ \A r \in Live \ {s} : Owned(s) \cap Owned(r) = {}
    BY <1>1, InvChains
  <1> HIDE DEF w, c
  <1>3. w # <<>> => fat[Last(w)] = EOC
    BY <1>2 DEF IsChain, Last
  <1>4. IsInjective(w)
    BY <1>2 DEF IsChain, IsInjective
  <1>5. CeilDiv(dir[s].size, CS) \in Nat /\ Len(w) \in Nat
    <2>1. dir[s].size \in Nat
      BY <1>1, FatAssumption DEF FatInv, FatTypeOK, Sizes
    <2>2. Len(w) \in Nat
      BY <1>2, ChainFacts
    <2> QED
      BY <2>1, <2>2, NeededIs
  <1>6. Len(w) >= CeilDiv(dir[s].size, CS)
    BY <1>2, <1>5
  <1> QED
    BY <1>2, <1>3, <1>4, <1>6 DEF w, c

LEMMA InvNoneLost == FatInv => NoneLost
  <1> SUFFICES ASSUME FatInv, ~stray, ~failed
               PROVE  /\ {c \in Clusters : fat[c] # 0} = UNION {Owned(s) : s \in Live}
                      /\ \A s \in Live : Len(Chain(dir[s].cluster)) = CeilDiv(dir[s].size, CS)
    BY DEF NoneLost
  <1>1. Live \subseteq Slots
    BY DEF Live
  <1>2. Exact(fat, dir, node)
    BY EntriesOK
  <1>3. \A s \in Slots : /\ Owned(s) \subseteq Clusters /\ Owned(s) = Held(fat, dir[s].cluster)
                         /\ Chain(dir[s].cluster) = Walk(fat, dir[s].cluster)
                         /\ \A x \in Owned(s) : fat[x] # 0
                         /\ s \notin Live => Owned(s) = {}
    BY InvChains
  <1>4. \A s \in Live : Len(Chain(dir[s].cluster)) = CeilDiv(dir[s].size, CS)
    BY <1>1, <1>2, <1>3 DEF Exact
  <1>5. ASSUME NEW x \in Clusters, fat[x] # 0 PROVE \E s \in Live : x \in Owned(s)
    <2>1. PICK s \in Slots : x \in Owned(s)
      BY <1>2, <1>3, <1>5 DEF Exact
    <2> QED
      BY <1>3, <2>1
  <1>6. ASSUME NEW s \in Live, NEW x \in Owned(s) PROVE x \in Clusters /\ fat[x] # 0
    BY <1>1, <1>3, <1>6
  <1> QED
    BY <1>4, <1>5, <1>6

\* Until a file is changed through a node that is out of date, files share no
\* cluster and their chains end and hold their sizes, also after an allocation
\* has failed; until one has, every cluster is free or a file's.
THEOREM ClustersCorrect == Spec => []ClustersSound
  <1>1. FatInv => ClustersSound
    BY InvApart, InvNoneLost DEF ClustersSound, FatInv
  <1> QED
    BY <1>1, FatCorrect, PTL

\* A file shows its own bytes or zeros, never what a removed or cut file left in
\* the clusters that fat32_alloc_cluster gives out again.
THEOREM NoForeignDataCorrect == Spec => []NoForeignData
  <1>1. FatInv => NoForeignData
    <2> SUFFICES ASSUME FatInv, ~stray, NEW s \in Live, NEW c \in Owned(s) PROVE tag[c] \in {0, dir[s].id}
      BY DEF NoForeignData
    <2>1. s \in Slots
      BY DEF Live
    <2>2. c \in Held(fat, dir[s].cluster)
      BY <2>1, InvChains
    <2> QED
      BY <2>1, <2>2, EntriesOK DEF Sound, Tags
  <1> QED
    BY <1>1, FatCorrect, PTL
=============================================================================
