--------------------------- MODULE AddrSpaceProofs ---------------------------
(***************************************************************************)
(* Every physical page has one owner, the hart translates with a live      *)
(* table, and a process has the memory it was granted and no other, for    *)
(* any number of pages and processes and wherever memory runs out.         *)
(***************************************************************************)
EXTENDS AddrSpace, FiniteSetTheorems, SequenceTheorems, TLAPS

-----------------------------------------------------------------------------
(* The inductive invariant *)

Active == {p \in Procs : st[p] # "unused"}
Kinds == {"idle", "boot", "halt", "fork", "exec", "brk"}

Tables == [l1 : Pages \cup {Nil}, l0 : [Regions -> Pages \cup {Nil}],
           leaf : [VA -> Pages \cup {Nil}]]

\* TablePages and Mapped, of a root r whose table is t.
Tree(r, t) ==
  ({r, t.l1} \cup {t.l0[k] : k \in Regions} \cup {t.leaf[v] : v \in VA}) \ {Nil}
Leaves(t) == {v \in VA : t.leaf[v] # Nil}

\* No page of a table is at two places in it.
OneTree(r, t) ==
  /\ t.l1 # r
  /\ \A k \in Regions : t.l0[k] # Nil => t.l0[k] # r /\ t.l0[k] # t.l1
  /\ \A v \in VA : t.leaf[v] # Nil => t.leaf[v] # r /\ t.leaf[v] # t.l1
  /\ \A k \in Regions, v \in VA : t.l0[k] = t.leaf[v] => t.leaf[v] = Nil
  /\ \A j, k \in Regions : t.l0[j] = t.l0[k] => j = k \/ t.l0[k] = Nil
  /\ \A u, v \in VA : t.leaf[u] = t.leaf[v] => u = v \/ t.leaf[v] = Nil

\* Trapframes, tables, the free list and the lost pages share nothing.
Apart ==
  /\ free \cap lost = {}
  /\ \A p \in Active : tf[p] \in Pages \ (free \cup lost) /\ pt[p] \in Pages
  /\ \A p, q \in Active : tf[p] = tf[q] \/ pt[p] = pt[q] => p = q
  /\ op.kind = "exec" => op.root \in Pages /\ \A p \in Active : pt[p] # op.root
  /\ \A r \in Roots : Tree(r, tab[r]) \cap (free \cup lost) = {}
  /\ \A r \in Roots, p \in Active : tf[p] \notin Tree(r, tab[r])
  /\ \A r, s \in Roots : r # s => Tree(r, tab[r]) \cap Tree(s, tab[s]) = {}
  /\ \A r \in Roots : OneTree(r, tab[r])

\* Every page is somewhere.
Covered ==
  \A pg \in Pages \ (free \cup lost) :
    \/ \E p \in Active : tf[p] = pg
    \/ \E r \in Roots : pg \in Tree(r, tab[r])

\* Who makes the call under way, and for whom.
Control ==
  /\ op \in [kind : Kinds, p : Procs \cup {Nil}, c : Procs \cup {Nil},
             root : Pages \cup {Nil}, todo : Seq(VA), nsz : 0 .. 2 * NVA]
  /\ cur # Nil => st[cur] = "ready"
  /\ op.kind \in {"idle", "boot", "halt"} => op = [Idle EXCEPT !.kind = op.kind]
  /\ op.kind \in {"boot", "halt"} => cur = Nil
  /\ op.kind = "boot" => st[0] = "used" /\ satp = BootRoot
  /\ op.kind = "fork" => /\ op.p \in Procs /\ cur = op.p /\ op.nsz \in Breaks
                         /\ op.c \in Procs /\ st[op.c] = "used" /\ ~short[op.c]
                         /\ op.root = pt[op.c]
  /\ op.kind = "exec" => /\ op.p \in Procs /\ st[op.p] \in {"used", "ready"}
                         /\ cur = op.p \/ (cur = Nil /\ satp = BootRoot)
  /\ op.kind = "brk" => /\ op.p \in Procs /\ cur = op.p /\ op.nsz \in Breaks
                        /\ op.root = pt[op.p]

\* A space of size n, and the pages of it that are still to be mapped.
Asked(n) == (0 .. PgRoundUp(n) - 1) \cup (StackBase .. NVA - 1)
Elems(s) == {s[i] : i \in DOMAIN s}
Rest == Elems(op.todo)

\* What a call has mapped and what it is going to map is what it was asked for.
\* An image that reaches the stack meets a page that is mapped.
Building ==
  /\ op.kind \in {"fork", "exec"} => Leaves(tab[op.root]) \cup Rest = Asked(op.nsz)
  /\ op.kind = "brk" => /\ Asked(op.nsz) \subseteq Leaves(tab[op.root]) \cup Rest
                        /\ ~short[op.p] => Leaves(tab[op.root]) \cup Rest \subseteq Asked(op.nsz)
  /\ op.kind = "exec" /\ op.nsz > 2 * StackBase =>
       LET n == Len(op.todo) - (NVA - StackBase) IN
       /\ n >= 0 /\ op.todo[n + 1] = StackBase
       /\ StackBase \in Leaves(tab[op.root]) \/ \E i \in 1 .. n : op.todo[i] = StackBase

\* SpaceBacked, and SpaceExact also of the processes that are not in brk
\* while one is.
Backed == \A p \in Procs : st[p] = "ready" => Asked(sz[p]) \subseteq Leaves(tab[pt[p]])
Exact ==
  \A p \in Procs :
    st[p] = "ready" /\ ~short[p] /\ ~(op.kind = "brk" /\ op.p = p) =>
      Leaves(tab[pt[p]]) \subseteq Asked(sz[p])

AddrInv ==
  AddrTypeOK /\ Control /\ Apart /\ Covered /\ SatpLive /\ Building /\ Backed /\ Exact
-----------------------------------------------------------------------------
(* Sets of numbers, sequences and the free list *)

\* A set of naturals has a least element.
LEMMA LeastNat ==
  ASSUME NEW S \in SUBSET Nat, S # {}
  PROVE  \E n \in S : \A m \in S : n <= m
  <1> DEFINE U == {0 .. n : n \in S}
  <1>1. U \subseteq FiniteSubsetsOf(Nat)
    <2> SUFFICES ASSUME NEW n \in S PROVE 0 .. n \in FiniteSubsetsOf(Nat)
      OBVIOUS
    <2> QED
      BY FS_Interval DEF FiniteSubsetsOf
  <1>2. PICK u \in U : \A v \in U : <<v, u>> \notin StrictSubsetOrdering(Nat)
    <2>1. U # {}
      OBVIOUS
    <2> HIDE DEF U
    <2> QED
      BY <1>1, <2>1, FS_StrictSubsetOrderingWellFounded, WFMin
  <1>3. PICK n \in S : u = 0 .. n
    OBVIOUS
  <1>4. ASSUME NEW m \in S, m < n PROVE FALSE
    <2>1. 0 .. m \in U /\ n \notin 0 .. m /\ n \in u /\ 0 .. m \subseteq u
      BY <1>3, <1>4
    <2>2. <<0 .. m, u>> \in StrictSubsetOrdering(Nat)
      BY <2>1, <1>3 DEF StrictSubsetOrdering
    <2> QED
      BY <1>2, <2>1, <2>2
  <1> QED
    BY <1>3, <1>4

\* A finite set of naturals has a greatest element.
LEMMA GreatestNat ==
  ASSUME NEW n \in Nat, NEW S \in SUBSET (0 .. n), S # {}
  PROVE  \E m \in S : \A k \in S : k <= m
  <1> DEFINE D == {n - m : m \in S}
  <1>1. D \in SUBSET Nat /\ D # {}
    OBVIOUS
  <1>2. PICK d \in D : \A e \in D : d <= e
    <2> HIDE DEF D
    <2> QED
      BY <1>1, LeastNat
  <1>3. PICK m \in S : d = n - m
    OBVIOUS
  <1>4. \A k \in S : n - m <= n - k
    BY <1>2, <1>3
  <1> QED
    BY <1>4

Increasing(s) == \A i, j \in DOMAIN s : i < j => s[i] < s[j]

LEMMA PageNumbers == VA \subseteq Nat /\ NVA \in Nat /\ StackBase \in 1 .. NVA - 1
  BY AddrAssumption DEF VA

\* The virtual pages of any set can be put in increasing order.
LEMMA CanAscend ==
  ASSUME NEW S \in SUBSET VA
  PROVE  IsFiniteSet(S) /\ \E s \in [1 .. Cardinality(S) -> S] : Increasing(s)
  <1> USE AddrAssumption
  <1> DEFINE Good(T) == \E s \in [1 .. Cardinality(T) -> T] : Increasing(s)
             Bad == {n \in Nat : \E T \in SUBSET VA : Cardinality(T) = n /\ ~Good(T)}
  <1>1. \A T \in SUBSET VA : IsFiniteSet(T) /\ Cardinality(T) \in Nat
    <2>1. 0 \in Int /\ NVA - 1 \in Int
      OBVIOUS
    <2>2. IsFiniteSet(0 .. NVA - 1)
      BY ONLY <2>1, FS_Interval
    <2>3. IsFiniteSet(VA)
      BY <2>2 DEF VA
    <2> QED
      BY <2>3, FS_Subset, FS_CardinalityType
  <1>2. SUFFICES Bad = {}
    BY <1>1
  <1>3. SUFFICES ASSUME Bad # {} PROVE FALSE
    OBVIOUS
  <1>4. PICK n \in Bad : \A m \in Bad : n <= m
    <2>1. Bad \in SUBSET Nat
      OBVIOUS
    <2> HIDE DEF Bad
    <2> QED
      BY <1>3, <2>1, LeastNat
  <1>5. PICK T \in SUBSET VA : Cardinality(T) = n /\ ~Good(T)
    BY <1>4
  <1>6. T # {}
    <2> SUFFICES ASSUME T = {} PROVE FALSE
      OBVIOUS
    <2>1. Cardinality(T) = 0
      BY FS_EmptySet
    <2>2. <<>> \in [1 .. 0 -> T] /\ Increasing(<<>>)
      BY DEF Increasing
    <2> QED
      BY <1>5, <2>1, <2>2
  <1>7. PICK m \in T : \A k \in T : k <= m
    <2>1. NVA - 1 \in Nat
      BY <1>5, <1>6 DEF VA
    <2>2. T \in SUBSET (0 .. NVA - 1)
      BY <1>5 DEF VA
    <2> HIDE DEF Good, Bad
    <2> DEFINE h == NVA - 1
    <2> HIDE DEF h
    <2>3. h \in Nat /\ T \in SUBSET (0 .. h)
      BY <2>1, <2>2 DEF h
    <2> QED
      BY ONLY <2>3, <1>6, GreatestNat
  <1> DEFINE R == T \ {m}
  <1>8. Cardinality(R) = n - 1 /\ R \in SUBSET VA /\ n - 1 \in Nat /\ n \in Nat
    BY <1>1, <1>5, <1>7, FS_RemoveElement
  <1>9. PICK s \in [1 .. n - 1 -> R] : Increasing(s)
    <2>1. n - 1 \notin Bad
      BY <1>4, <1>8
    <2> HIDE DEF R
    <2>2. Good(R)
      BY <1>8, <2>1
    <2> QED
      BY <1>8, <2>2
  <1> DEFINE t == [i \in 1 .. n |-> IF i = n THEN m ELSE s[i]]
  <1>10. t \in [1 .. n -> T]
    BY <1>7, <1>8
  <1>11. Increasing(t)
    <2> SUFFICES ASSUME NEW i \in 1 .. n, NEW j \in 1 .. n, i < j PROVE t[i] < t[j]
      BY DEF Increasing
    <2>1. i \in 1 .. n - 1 /\ s[i] \in R
      BY <1>8, <1>9
    <2>2. CASE j = n
      <3>1. s[i] <= m /\ s[i] # m /\ s[i] \in Int /\ m \in Int
        BY <1>7, <2>1 DEF VA
      <3> QED
        BY <2>1, <2>2, <3>1
    <2>3. CASE j # n
      BY <1>8, <1>9, <2>1, <2>3 DEF Increasing
    <2> QED
      BY <2>2, <2>3
  <1> QED
    BY <1>5, <1>10, <1>11

\* Ascending lists the pages of a set: all of them, the least one first.
LEMMA AscendingFacts ==
  ASSUME NEW S \in SUBSET VA
  PROVE  /\ Ascending(S) \in Seq(VA)
         /\ {Ascending(S)[i] : i \in DOMAIN Ascending(S)} = S
         /\ Len(Ascending(S)) = Cardinality(S)
         /\ \A v \in S : (\A u \in S : v <= u) => Ascending(S)[1] = v
  <1> DEFINE a == Ascending(S)
             n == Cardinality(S)
  <1>1. n \in Nat /\ IsFiniteSet(S)
    BY CanAscend, FS_CardinalityType
  <1>2. a \in [1 .. n -> S] /\ Increasing(a)
    BY CanAscend DEF Ascending, Increasing
  <1> HIDE DEF a
  <1>3. a \in Seq(VA) /\ Len(a) = n /\ DOMAIN a = 1 .. n
    BY <1>1, <1>2
  <1> HIDE DEF n
  <1>8. ASSUME NEW i \in 1 .. n PROVE a[i] \in S /\ a[i] \in Int
    <2>1. a[i] \in S
      BY <1>2
    <2>2. S \subseteq Nat
      BY PageNumbers
    <2>3. a[i] \in Nat
      BY <2>1, <2>2, Zenon
    <2> QED
      BY ONLY <2>1, <2>3
  <1>4. a \in Surjection(1 .. n, S)
    <2>1. \A i, j \in 1 .. n : i # j => a[i] # a[j]
      <3> SUFFICES ASSUME NEW i \in 1 .. n, NEW j \in 1 .. n, i # j PROVE a[i] # a[j]
        OBVIOUS
      <3>1. a[i] \in Int /\ a[j] \in Int
        BY <1>8
      <3>2. i < j \/ j < i
        BY <1>1
      <3> QED
        BY <1>2, <3>1, <3>2 DEF Increasing
    <2>2. a \in Injection(1 .. n, S)
      BY <1>2, <2>1 DEF Injection, IsInjective
    <2>3. Cardinality(1 .. n) = n
      BY <1>1, FS_Interval
    <2> QED
      BY <1>1, <2>2, <2>3, FS_Injection DEF n
  <1>5. \A v \in S : \E i \in 1 .. n : a[i] = v
    BY <1>4 DEF Surjection
  <1>6. ASSUME NEW v \in S, \A u \in S : v <= u PROVE a[1] = v
    <2>1. PICK i \in 1 .. n : a[i] = v
      BY <1>5
    <2>2. 1 \in 1 .. n /\ a[1] \in S
      BY <1>1, <1>8
    <2>3. i > 1 => a[1] < a[i]
      BY <1>2, <2>2 DEF Increasing
    <2>4. a[1] \in Int /\ v \in Int
      BY <1>8, <2>1, <2>2
    <2> QED
      BY <1>6, <2>1, <2>2, <2>3, <2>4
  <1>7. {a[i] : i \in DOMAIN a} = S
    BY <1>2, <1>3, <1>5
  <1> QED
    BY <1>3, <1>6, <1>7 DEF a, n

\* kalloc takes a page that is free.
LEMMA KallocIn == \A S : S # {} => Kalloc(S) \in S
  BY DEF Kalloc

LEMMA FreeFacts ==
  ASSUME AddrTypeOK
  PROVE  /\ Cardinality(free) >= 1 => free # {}
         /\ Cardinality(free) >= 2 => \A t : free \ {t} # {}
         /\ Cardinality(free) >= 3 => \A t, r : free \ {t, r} # {}
  <1>1. Cardinality(free) \in Nat
    BY AddrAssumption, FS_Subset, FS_CardinalityType DEF AddrTypeOK
  <1>2. ASSUME NEW t, NEW r, free \ {t, r} = {} PROVE ~(Cardinality(free) >= 3)
    <2>1. IsFiniteSet({t}) /\ Cardinality({t}) = 1
      BY FS_Singleton
    <2>2. /\ IsFiniteSet({t} \cup {r})
          /\ Cardinality({t} \cup {r}) = IF r \in {t} THEN 1 ELSE 2
      BY <2>1, FS_AddElement
    <2>3. free \in SUBSET ({t} \cup {r})
      BY <1>2
    <2>4. Cardinality(free) <= Cardinality({t} \cup {r})
      BY <2>2, <2>3, FS_Subset
    <2> QED
      BY <1>1, <2>2, <2>4
  <1>3. ASSUME NEW t, free \ {t} = {} PROVE ~(Cardinality(free) >= 2)
    <2>1. IsFiniteSet({t}) /\ Cardinality({t}) = 1
      BY FS_Singleton
    <2>2. free \in SUBSET {t}
      BY <1>3
    <2>3. Cardinality(free) <= 1
      BY <2>1, <2>2, FS_Subset
    <2> QED
      BY <1>1, <2>3
  <1>4. Cardinality({}) = 0
    BY FS_EmptySet
  <1>5. Cardinality(free) >= 1 => free # {}
    BY <1>4
  <1> QED
    BY <1>2, <1>3, <1>5
-----------------------------------------------------------------------------
(* Page tables *)

LEMMA NullFacts ==
  Nil \notin Pages /\ Nil # BootRoot /\ Nil \notin Nat /\ BootRoot \notin Pages
  BY AddrAssumption

LEMMA RegionOf == \A v \in VA : v \div Span \in Regions
  BY DEF Regions

LEMMA SameSets ==
  /\ \A r : TablePages(r) = Tree(r, tab[r])
  /\ \A r : Mapped(r, VA) = Leaves(tab[r])
  /\ \A p : Granted(p) = Asked(sz[p])
  BY DEF TablePages, Tree, Mapped, Leaves, Granted, Asked

\* uvm_create: the root, the table for the low gigabyte, and no user page.
LEMMA NewTree ==
  ASSUME NEW r \in Pages, NEW l1 \in Pages, r # l1,
         NEW t, t = [NoTable EXCEPT !.l1 = l1]
  PROVE  t \in Tables /\ Tree(r, t) = {r, l1} /\ OneTree(r, t) /\ Leaves(t) = {}
  <1>1. t = [l1 |-> l1, l0 |-> [k \in Regions |-> Nil], leaf |-> [v \in VA |-> Nil]]
    BY DEF NoTable
  <1>2. t \in Tables
    <2>1. /\ [k \in Regions |-> Nil] \in [Regions -> Pages \cup {Nil}]
          /\ [v \in VA |-> Nil] \in [VA -> Pages \cup {Nil}]
          /\ l1 \in Pages \cup {Nil}
      OBVIOUS
    <2> QED
      BY ONLY <1>1, <2>1 DEF Tables
  <1>3. Leaves(t) = {}
    BY <1>1 DEF Leaves
  <1>4. Tree(r, t) = {r, l1}
    BY <1>1, NullFacts DEF Tree
  <1>5. OneTree(r, t)
    BY <1>1 DEF OneTree
  <1> QED
    BY <1>2, <1>3, <1>4, <1>5

\* The store of a leaf.
LEMMA LeafTree ==
  ASSUME NEW r \in Pages, NEW t \in Tables, OneTree(r, t),
         NEW v \in VA, t.leaf[v] = Nil, NEW mem \in Pages, mem \notin Tree(r, t),
         NEW u, u = [t EXCEPT !.leaf[v] = mem]
  PROVE  /\ u \in Tables /\ Tree(r, u) = Tree(r, t) \cup {mem} /\ OneTree(r, u)
         /\ Leaves(u) = Leaves(t) \cup {v} /\ u.l0 = t.l0
  <1>1. /\ u.l1 = t.l1 /\ u.l0 = t.l0 /\ u.leaf = [t.leaf EXCEPT ![v] = mem]
        /\ u \in Tables
    BY DEF Tables
  <1>2. /\ \A w \in VA : u.leaf[w] = IF w = v THEN mem ELSE t.leaf[w]
        /\ mem # Nil
    BY <1>1, NullFacts DEF Tables
  <1>3. mem # r /\ mem # t.l1 /\ (\A k \in Regions : t.l0[k] # mem)
          /\ \A w \in VA : t.leaf[w] # mem
    BY <1>2 DEF Tree
  <1>4. Leaves(u) = Leaves(t) \cup {v}
    BY <1>2 DEF Leaves
  <1>5. OneTree(r, u)
    BY <1>1, <1>2, <1>3 DEF OneTree
  <1>6. Tree(r, u) = Tree(r, t) \cup {mem}
    BY <1>1, <1>2 DEF Tree
  <1> QED
    BY <1>1, <1>4, <1>5, <1>6

\* walk adds a level-0 table.
LEMMA L0Tree ==
  ASSUME NEW r \in Pages, NEW t \in Tables, OneTree(r, t),
         NEW k \in Regions, t.l0[k] = Nil, NEW l0 \in Pages, l0 \notin Tree(r, t),
         NEW u, u = [t EXCEPT !.l0[k] = l0]
  PROVE  /\ u \in Tables /\ Tree(r, u) = Tree(r, t) \cup {l0} /\ OneTree(r, u)
         /\ Leaves(u) = Leaves(t)
  <1>1. /\ u.l1 = t.l1 /\ u.leaf = t.leaf /\ u.l0 = [t.l0 EXCEPT ![k] = l0]
        /\ u \in Tables
    BY DEF Tables
  <1>2. /\ \A j \in Regions : u.l0[j] = IF j = k THEN l0 ELSE t.l0[j]
        /\ l0 # Nil
    BY <1>1, NullFacts DEF Tables
  <1>3. l0 # r /\ l0 # t.l1 /\ (\A j \in Regions : t.l0[j] # l0)
          /\ \A w \in VA : t.leaf[w] # l0
    BY <1>2 DEF Tree
  <1>4. Leaves(u) = Leaves(t)
    BY <1>1 DEF Leaves
  <1>5. OneTree(r, u)
    BY <1>1, <1>2, <1>3 DEF OneTree
  <1>6. Tree(r, u) = Tree(r, t) \cup {l0}
    BY <1>1, <1>2 DEF Tree
  <1> QED
    BY <1>1, <1>4, <1>5, <1>6

\* uvm_dealloc of the pages in gone.
LEMMA CutTree ==
  ASSUME NEW r \in Pages, NEW t \in Tables, OneTree(r, t),
         NEW gone \in SUBSET Leaves(t),
         NEW u, u = [t EXCEPT !.leaf = [v \in VA |-> IF v \in gone THEN Nil ELSE t.leaf[v]]]
  PROVE  /\ u \in Tables /\ OneTree(r, u) /\ Leaves(u) = Leaves(t) \ gone
         /\ Tree(r, u) = Tree(r, t) \ {t.leaf[v] : v \in gone}
         /\ {t.leaf[v] : v \in gone} \subseteq Pages \cap Tree(r, t)
  <1>1. /\ u.l1 = t.l1 /\ u.l0 = t.l0
        /\ u.leaf = [v \in VA |-> IF v \in gone THEN Nil ELSE t.leaf[v]]
        /\ u \in Tables
    BY DEF Tables
  <1>2. /\ \A w \in VA : u.leaf[w] = IF w \in gone THEN Nil ELSE t.leaf[w]
        /\ \A w \in gone : w \in VA /\ t.leaf[w] # Nil
    BY <1>1 DEF Leaves
  <1>3. Leaves(u) = Leaves(t) \ gone
    BY <1>2 DEF Leaves
  <1>4. OneTree(r, u)
    BY <1>1, <1>2 DEF OneTree
  <1>5. {t.leaf[v] : v \in gone} \subseteq Pages \cap Tree(r, t)
    BY <1>2 DEF Tree, Tables
  <1>6. ASSUME NEW pg, pg \in Tree(r, u) PROVE pg \in Tree(r, t) \ {t.leaf[v] : v \in gone}
    BY <1>1, <1>2, <1>6 DEF Tree, OneTree
  <1>7. ASSUME NEW pg, pg \in Tree(r, t) \ {t.leaf[v] : v \in gone} PROVE pg \in Tree(r, u)
    BY <1>1, <1>2, <1>7 DEF Tree
  <1> QED
    BY <1>1, <1>3, <1>4, <1>5, <1>6, <1>7

\* A table is made of pages, its root among them.
LEMMA TreeIn ==
  \A r \in Pages, t \in Tables : Tree(r, t) \subseteq Pages /\ r \in Tree(r, t)
  BY NullFacts DEF Tree, Tables

LEMMA NoTableIn == NoTable \in Tables
  BY DEF NoTable, Tables

LEMMA AddrInit == AsInit => AddrInv
  <1> SUFFICES ASSUME AsInit PROVE AddrInv
    OBVIOUS
  <1> USE DEF AsInit
  <1>1. AddrTypeOK
    <2>1. tab \in [Pages -> Tables]
      BY NoTableIn
    <2>2. 0 \in Breaks /\ 0 \in 0 .. 2 * NVA
      BY PageNumbers DEF Breaks
    <2>3. <<>> \in Seq(VA)
      OBVIOUS
    <2> QED
      BY <2>1, <2>2, <2>3 DEF AddrTypeOK, Tables, Idle
  <1>2. Active = {} /\ Roots = {}
    BY DEF Active, Roots, Idle
  <1>3. Control
    BY <1>1 DEF AddrTypeOK, Control, Idle, Kinds
  <1>4. Apart /\ Covered
    BY <1>2 DEF Apart, Covered, Idle
  <1>5. Building /\ Backed /\ Exact /\ SatpLive
    BY DEF Building, Backed, Exact, SatpLive, Idle
  <1> QED
    BY <1>1, <1>3, <1>4, <1>5 DEF AddrInv
-----------------------------------------------------------------------------
(* Who owns the pages *)

\* A step that moves no page and makes and ends no exec.
LEMMA MemFrame ==
  ASSUME AddrInv, UNCHANGED <<free, tab, pt, tf, lost>>, Active' = Active,
         op'.kind # "exec", op.kind # "exec"
  PROVE  Apart' /\ Covered'
  <1>1. Roots' = Roots /\ Roots = {pt[p] : p \in Active}
    BY DEF Roots, Active
  <1>2. Apart'
    BY <1>1 DEF AddrInv, Apart
  <1>3. Covered'
    BY <1>1 DEF AddrInv, Covered
  <1> QED
    BY <1>2, <1>3

\* Roots of tables are pages with a table, and different.
LEMMA RootFacts ==
  ASSUME AddrInv
  PROVE  /\ tab \in [Pages -> Tables]
         /\ Roots \subseteq Pages
         /\ \A p \in Active : pt[p] \in Roots /\ tf[p] \in Pages /\ tf[p] \notin free
         /\ Roots = {pt[p] : p \in Active} \cup (IF op.kind = "exec" THEN {op.root} ELSE {})
         /\ free \subseteq Pages /\ lost \subseteq Pages
         /\ \A r \in Roots : /\ tab[r] \in Tables /\ Tree(r, tab[r]) \subseteq Pages
                             /\ r \in Tree(r, tab[r]) /\ OneTree(r, tab[r])
                             /\ r \notin free /\ r \notin lost
         /\ op.root \in Roots <=> op.kind = "exec" \/ \E p \in Active : pt[p] = op.root
  <1>1. tab \in [Pages -> Tables] /\ free \subseteq Pages /\ lost \subseteq Pages
    BY DEF AddrInv, AddrTypeOK, Tables
  <1>2. Roots = {pt[p] : p \in Active} \cup (IF op.kind = "exec" THEN {op.root} ELSE {})
    BY DEF Roots, Active
  <1>3. Roots \subseteq Pages /\ \A p \in Active : pt[p] \in Roots /\ tf[p] \in Pages /\ tf[p] \notin free
    BY <1>2 DEF AddrInv, Apart
  <1>4. ASSUME NEW r \in Roots
        PROVE  /\ tab[r] \in Tables /\ Tree(r, tab[r]) \subseteq Pages
               /\ r \in Tree(r, tab[r]) /\ OneTree(r, tab[r])
               /\ r \notin free /\ r \notin lost
    <2>1. r \in Pages /\ tab[r] \in Tables
      BY <1>1, <1>3
    <2>2. Tree(r, tab[r]) \subseteq Pages /\ r \in Tree(r, tab[r])
      BY <2>1, TreeIn
    <2>3. OneTree(r, tab[r]) /\ Tree(r, tab[r]) \cap (free \cup lost) = {}
      BY DEF AddrInv, Apart
    <2> QED
      BY <2>1, <2>2, <2>3
  <1> QED
    BY <1>1, <1>2, <1>3, <1>4

\* proc_alloc: the trapframe and the two tables come off the free list.
LEMMA NewSlotMem ==
  ASSUME AddrInv, NEW c \in Procs, ProcAlloc(c), op.kind # "exec", op'.kind # "exec"
  PROVE  /\ Apart' /\ Covered'
         /\ Active' = Active \cup {c} /\ c \notin Active
         /\ \E r \in free : /\ pt' = [pt EXCEPT ![c] = r] /\ pt'[c] = r
                            /\ tab'[r] \in Tables /\ Leaves(tab'[r]) = {}
                            /\ tab' = [tab EXCEPT ![r] = tab'[r]]
         /\ tf'[c] \in Pages /\ tf' = [tf EXCEPT ![c] = tf'[c]]
         /\ \A p \in Active : tab'[pt[p]] = tab[pt[p]] /\ pt'[p] = pt[p]
         /\ free' \subseteq free
  <1> DEFINE t  == Kalloc(free)
             r  == Kalloc(free \ {t})
             l1 == Kalloc(free \ {t, r})
             new == [NoTable EXCEPT !.l1 = l1]
  <1>1. /\ FindUnused(c)
        /\ Cardinality(free) >= 3
        /\ free' = free \ {t, r, l1}
        /\ tab' = [tab EXCEPT ![r] = new]
        /\ st' = [st EXCEPT ![c] = "used"]
        /\ pt' = [pt EXCEPT ![c] = r]
        /\ tf' = [tf EXCEPT ![c] = t]
        /\ lost' = lost
    BY DEF ProcAlloc, UvmCreate
  <1>2. t \in free /\ r \in free \ {t} /\ l1 \in free \ {t, r}
    <2>1. Cardinality(free) \in Nat /\ Cardinality(free) >= 3
      BY <1>1, AddrAssumption, FS_Subset, FS_CardinalityType DEF AddrInv, AddrTypeOK
    <2>2. /\ free # {} /\ (\A x : free \ {x} # {})
          /\ \A x, y : free \ {x, y} # {}
      BY <2>1, FreeFacts DEF AddrInv
    <2> QED
      BY <2>2, KallocIn
  <1> HIDE DEF t, r, l1
  <1>3. /\ r \in Pages /\ l1 \in Pages /\ t \in Pages /\ r # l1 /\ t # r /\ t # l1
        /\ r \notin Roots
    BY <1>2, RootFacts
  <1>4. new \in Tables /\ Tree(r, new) = {r, l1} /\ OneTree(r, new) /\ Leaves(new) = {}
    BY <1>3, NewTree
  <1> HIDE DEF new
  <1>5. c \notin Active /\ Active' = Active \cup {c}
    BY <1>1 DEF FindUnused, Active, AddrInv, AddrTypeOK
  <1>6. /\ pt'[c] = r /\ tf'[c] = t
        /\ \A p \in Active : pt'[p] = pt[p] /\ tf'[p] = tf[p]
    BY <1>1, <1>5 DEF AddrInv, AddrTypeOK, Active
  <1>7. Roots' = Roots \cup {r} /\ Roots = {pt[p] : p \in Active}
    BY <1>5, <1>6 DEF Roots, Active
  <1>8. tab'[r] = new /\ \A s \in Roots : tab'[s] = tab[s]
    BY <1>1, <1>3, RootFacts
  <1>9. Apart'
    <2>1. free' \cap lost' = {}
      BY <1>1 DEF AddrInv, Apart
    <2>2. \A p \in Active' : tf'[p] \in Pages \ (free' \cup lost') /\ pt'[p] \in Pages
      BY <1>1, <1>2, <1>3, <1>5, <1>6 DEF AddrInv, Apart
    <2>3. \A p, q \in Active' : tf'[p] = tf'[q] \/ pt'[p] = pt'[q] => p = q
      BY <1>2, <1>3, <1>5, <1>6, RootFacts DEF AddrInv, Apart
    <2>4. \A s \in Roots' : Tree(s, tab'[s]) \cap (free' \cup lost') = {}
      BY <1>1, <1>2, <1>4, <1>7, <1>8 DEF AddrInv, Apart
    <2>5. \A s \in Roots', p \in Active' : tf'[p] \notin Tree(s, tab'[s])
      BY <1>2, <1>3, <1>4, <1>5, <1>6, <1>7, <1>8, RootFacts DEF AddrInv, Apart
    <2>6. \A s, u \in Roots' : s # u => Tree(s, tab'[s]) \cap Tree(u, tab'[u]) = {}
      BY <1>2, <1>4, <1>7, <1>8 DEF AddrInv, Apart
    <2>7. \A s \in Roots' : OneTree(s, tab'[s])
      BY <1>4, <1>7, <1>8 DEF AddrInv, Apart
    <2> QED
      BY <2>1, <2>2, <2>3, <2>4, <2>5, <2>6, <2>7 DEF Apart
  <1>10. Covered'
    BY <1>1, <1>4, <1>5, <1>6, <1>7, <1>8 DEF AddrInv, Covered
  <1>11. /\ tab'[r] \in Tables /\ Leaves(tab'[r]) = {} /\ tab' = [tab EXCEPT ![r] = tab'[r]]
         /\ pt' = [pt EXCEPT ![c] = r] /\ pt'[c] = r /\ r \in free
    BY <1>1, <1>2, <1>4, <1>6, <1>8
  <1>12. \A p \in Active : tab'[pt[p]] = tab[pt[p]] /\ pt'[p] = pt[p]
    BY <1>6, <1>7, <1>8
  <1>13. tf'[c] \in Pages /\ tf' = [tf EXCEPT ![c] = tf'[c]] /\ free' \subseteq free
    BY <1>1, <1>3, <1>6
  <1> QED
    BY <1>5, <1>9, <1>10, <1>11, <1>12, <1>13
\* The root and the first table of exec.
LEMMA NewExecMem ==
  ASSUME AddrInv, NEW p \in Procs, NEW img \in Images, ExecStart(p, img),
         op.kind # "exec", op'.kind = "exec"
  PROVE  /\ Apart' /\ Covered'
         /\ op'.root \in free
         /\ tab'[op'.root] \in Tables /\ Leaves(tab'[op'.root]) = {}
         /\ tab' = [tab EXCEPT ![op'.root] = tab'[op'.root]]
         /\ \A q \in Active : tab'[pt[q]] = tab[pt[q]]
         /\ free' \subseteq free
  <1> DEFINE r  == Kalloc(free)
             l1 == Kalloc(free \ {r})
             new == [NoTable EXCEPT !.l1 = l1]
  <1>1. /\ Cardinality(free) >= 2
        /\ free' = free \ {r, l1}
        /\ tab' = [tab EXCEPT ![r] = new]
        /\ op'.root = r
        /\ st' = st /\ pt' = pt /\ tf' = tf /\ lost' = lost
    BY DEF ExecStart, UvmCreate, procVars
  <1>2. r \in free /\ l1 \in free \ {r}
    <2>1. Cardinality(free) \in Nat /\ Cardinality(free) >= 2
      BY <1>1, AddrAssumption, FS_Subset, FS_CardinalityType DEF AddrInv, AddrTypeOK
    <2>2. free # {} /\ \A x : free \ {x} # {}
      BY <2>1, FreeFacts DEF AddrInv
    <2> QED
      BY <2>2, KallocIn
  <1> HIDE DEF r, l1
  <1>3. r \in Pages /\ l1 \in Pages /\ r # l1 /\ r \notin Roots
    BY <1>2, RootFacts
  <1>4. new \in Tables /\ Tree(r, new) = {r, l1} /\ OneTree(r, new) /\ Leaves(new) = {}
    BY <1>3, NewTree
  <1> HIDE DEF new
  <1>5. Active' = Active
    BY <1>1 DEF Active
  <1>6. Roots' = Roots \cup {r} /\ Roots = {pt[q] : q \in Active}
    BY <1>1 DEF Roots, Active
  <1>7. tab'[r] = new /\ \A s \in Roots : tab'[s] = tab[s]
    BY <1>1, <1>3, RootFacts
  <1>8. Apart'
    <2>1. free' \cap lost' = {}
      BY <1>1 DEF AddrInv, Apart
    <2>2. \A q \in Active' : tf'[q] \in Pages \ (free' \cup lost') /\ pt'[q] \in Pages
      BY <1>1, <1>5 DEF AddrInv, Apart
    <2>3. \A q, u \in Active' : tf'[q] = tf'[u] \/ pt'[q] = pt'[u] => q = u
      BY <1>1, <1>5 DEF AddrInv, Apart
    <2>4. op'.root \in Pages /\ \A q \in Active' : pt'[q] # op'.root
      BY <1>1, <1>3, <1>5, RootFacts
    <2>5. \A s \in Roots' : Tree(s, tab'[s]) \cap (free' \cup lost') = {}
      BY <1>1, <1>2, <1>4, <1>6, <1>7 DEF AddrInv, Apart
    <2>6. \A s \in Roots', q \in Active' : tf'[q] \notin Tree(s, tab'[s])
      BY <1>1, <1>2, <1>3, <1>4, <1>5, <1>6, <1>7, RootFacts DEF AddrInv, Apart
    <2>7. \A s, u \in Roots' : s # u => Tree(s, tab'[s]) \cap Tree(u, tab'[u]) = {}
      BY <1>2, <1>4, <1>6, <1>7 DEF AddrInv, Apart
    <2>8. \A s \in Roots' : OneTree(s, tab'[s])
      BY <1>4, <1>6, <1>7 DEF AddrInv, Apart
    <2> QED
      BY <2>1, <2>2, <2>3, <2>4, <2>5, <2>6, <2>7, <2>8 DEF Apart
  <1>9. Covered'
    BY <1>1, <1>4, <1>5, <1>6, <1>7 DEF AddrInv, Covered
  <1>10. \A q \in Active : tab'[pt[q]] = tab[pt[q]]
    BY <1>6, <1>7
  <1> QED
    BY <1>1, <1>2, <1>4, <1>7, <1>8, <1>9, <1>10

\* One table of those in use changes, and the pages it gains or loses are
\* those the free list loses or gains.
LEMMA TableMem ==
  ASSUME AddrInv, NEW r \in Roots, NEW u \in Tables, OneTree(r, u),
         tab' = [tab EXCEPT ![r] = u],
         UNCHANGED <<st, pt, tf, lost, op.kind, op.root>>,
         free' \subseteq Pages,
         \/ \E new \in SUBSET free : free' = free \ new /\ Tree(r, u) = Tree(r, tab[r]) \cup new
         \/ \E old \in SUBSET Tree(r, tab[r]) :
              free' = free \cup old /\ Tree(r, u) = Tree(r, tab[r]) \ old
  PROVE  Apart' /\ Covered' /\ \A s \in Roots : s # r => tab'[s] = tab[s]
  <1>1. Active' = Active
    BY DEF Active
  <1>2. Roots' = Roots
    BY DEF Roots
  <1>3. tab'[r] = u /\ \A s \in Roots : s # r => tab'[s] = tab[s]
    BY RootFacts
  <1>4. \A s \in Roots : s # r => /\ Tree(s, tab[s]) \cap Tree(r, tab[r]) = {}
                                  /\ Tree(s, tab[s]) \cap free = {}
                                  /\ Tree(s, tab[s]) \cap lost = {}
    BY DEF AddrInv, Apart
  <1>5. /\ free \cap lost = {} /\ Tree(r, tab[r]) \cap free = {} /\ Tree(r, tab[r]) \cap lost = {}
        /\ \A p \in Active : tf[p] \notin Tree(r, tab[r]) /\ tf[p] \notin free /\ tf[p] \notin lost
    BY DEF AddrInv, Apart
  <1>6. /\ Tree(r, u) \cap (free' \cup lost) = {} /\ free' \cap lost = {}
        /\ \A p \in Active : tf[p] \notin Tree(r, u) /\ tf[p] \notin free'
        /\ \A s \in Roots : s # r => Tree(s, tab[s]) \cap Tree(r, u) = {}
        /\ \A s \in Roots : s # r => Tree(s, tab[s]) \cap (free' \cup lost) = {}
        /\ free' \cup Tree(r, u) = free \cup Tree(r, tab[r])
    BY <1>4, <1>5
  <1>7. Apart'
    <2>1. \A p \in Active' : tf'[p] \in Pages \ (free' \cup lost') /\ pt'[p] \in Pages
      BY <1>1, <1>6 DEF AddrInv, Apart
    <2>2. \A p, q \in Active' : tf'[p] = tf'[q] \/ pt'[p] = pt'[q] => p = q
      BY <1>1 DEF AddrInv, Apart
    <2>3. op'.kind = "exec" => op'.root \in Pages /\ \A p \in Active' : pt'[p] # op'.root
      BY <1>1 DEF AddrInv, Apart
    <2>4. \A s \in Roots' : Tree(s, tab'[s]) \cap (free' \cup lost') = {}
      BY <1>2, <1>3, <1>6
    <2>5. \A s \in Roots', p \in Active' : tf'[p] \notin Tree(s, tab'[s])
      BY <1>1, <1>2, <1>3, <1>6 DEF AddrInv, Apart
    <2>6. \A s, x \in Roots' : s # x => Tree(s, tab'[s]) \cap Tree(x, tab'[x]) = {}
      BY <1>2, <1>3, <1>6 DEF AddrInv, Apart
    <2>7. \A s \in Roots' : OneTree(s, tab'[s])
      BY <1>2, <1>3 DEF AddrInv, Apart
    <2> QED
      BY <1>6, <2>1, <2>2, <2>3, <2>4, <2>5, <2>6, <2>7 DEF Apart
  <1>8. Covered'
    BY <1>1, <1>2, <1>3, <1>6 DEF AddrInv, Covered
  <1> QED
    BY <1>3, <1>7, <1>8
\* A table that is given up: its pages, and the trapframes of the slots that
\* end with it, are free; pages of the free list may be forgotten meanwhile.
LEMMA DropMem ==
  ASSUME AddrInv, NEW r \in Roots, tab' = [tab EXCEPT ![r] = NoTable],
         NEW dropped \in SUBSET free, lost' = lost \cup dropped,
         Active' \subseteq Active, op'.kind # "exec",
         free' = (free \ dropped) \cup Tree(r, tab[r]) \cup {tf[q] : q \in Active \ Active'},
         Roots' = Roots \ {r},
         \A q \in Active' : tf'[q] = tf[q] /\ pt'[q] \in Roots',
         \A p, q \in Active' : pt'[p] = pt'[q] => p = q
  PROVE  /\ Apart' /\ Covered' /\ \A s \in Roots' : tab'[s] = tab[s]
         /\ free' \subseteq Pages /\ lost' \subseteq Pages
         /\ tab' \in [Pages -> Tables]
  <1>1. \A s \in Roots' : tab'[s] = tab[s] /\ s \in Roots /\ s # r
    BY RootFacts
  <1>2. \A s \in Roots' : /\ Tree(s, tab[s]) \cap Tree(r, tab[r]) = {}
                          /\ Tree(s, tab[s]) \cap free = {}
                          /\ Tree(s, tab[s]) \cap lost = {}
                          /\ \A q \in Active : tf[q] \notin Tree(s, tab[s])
    BY <1>1 DEF AddrInv, Apart
  <1>3. /\ free \cap lost = {} /\ Tree(r, tab[r]) \cap free = {} /\ Tree(r, tab[r]) \cap lost = {}
        /\ \A p \in Active : /\ tf[p] \notin Tree(r, tab[r]) /\ tf[p] \notin free
                             /\ tf[p] \notin lost /\ tf[p] \in Pages
        /\ \A p, q \in Active : tf[p] = tf[q] => p = q
    BY DEF AddrInv, Apart
  <1>4. /\ free' \cap lost' = {}
        /\ \A p \in Active' : tf[p] \notin free' /\ tf[p] \notin lost'
        /\ \A s \in Roots' : Tree(s, tab[s]) \cap (free' \cup lost') = {}
    BY <1>2, <1>3
  <1>5. Apart'
    <2>1. \A p \in Active' : tf'[p] \in Pages \ (free' \cup lost') /\ pt'[p] \in Pages
      BY <1>1, <1>3, <1>4, RootFacts
    <2>2. \A p, q \in Active' : tf'[p] = tf'[q] \/ pt'[p] = pt'[q] => p = q
      BY <1>3
    <2>3. \A s \in Roots', p \in Active' : tf'[p] \notin Tree(s, tab'[s])
      BY <1>1, <1>2
    <2>4. \A s, x \in Roots' : s # x => Tree(s, tab'[s]) \cap Tree(x, tab'[x]) = {}
      BY <1>1 DEF AddrInv, Apart
    <2>5. \A s \in Roots' : OneTree(s, tab'[s])
      BY <1>1, RootFacts
    <2>6. \A s \in Roots' : Tree(s, tab'[s]) \cap (free' \cup lost') = {}
      BY <1>1, <1>4
    <2> QED
      BY <1>4, <2>1, <2>2, <2>3, <2>4, <2>5, <2>6 DEF Apart
  <1>6. Covered'
    <2> SUFFICES ASSUME NEW pg \in Pages \ (free' \cup lost')
                 PROVE  \/ \E p \in Active' : tf'[p] = pg
                        \/ \E s \in Roots' : pg \in Tree(s, tab'[s])
      BY DEF Covered
    <2>1. pg \in Pages \ (free \cup lost) /\ pg \notin Tree(r, tab[r])
      OBVIOUS
    <2>2. (\E p \in Active : tf[p] = pg) \/ \E s \in Roots : pg \in Tree(s, tab[s])
      BY <2>1 DEF AddrInv, Covered
    <2>3. ASSUME NEW p \in Active, tf[p] = pg PROVE p \in Active' /\ tf'[p] = pg
      BY <2>3
    <2>4. ASSUME NEW s \in Roots, pg \in Tree(s, tab[s]) PROVE s \in Roots' /\ pg \in Tree(s, tab'[s])
      BY <1>1, <2>1, <2>4
    <2> QED
      BY <2>2, <2>3, <2>4
  <1>7. free' \subseteq Pages /\ lost' \subseteq Pages /\ tab' \in [Pages -> Tables]
    BY <1>3, RootFacts, NoTableIn
  <1> QED
    BY <1>1, <1>5, <1>6, <1>7
-----------------------------------------------------------------------------
(* Breaks *)

\* A size is a number of half pages that ends below the stack.
LEMMA SizeFacts ==
  /\ \A n \in Breaks : n \in Nat /\ n \in 0 .. 2 * NVA /\ PgRoundUp(n) \in 0 .. StackBase
  /\ \A n \in 0 .. 2 * NVA : n \in Nat /\ PgRoundUp(n) \in 0 .. NVA
  /\ \A n \in Nat : PgRoundUp(2 * n) = n
  /\ \A m, n \in Nat : m <= n => PgRoundUp(m) <= PgRoundUp(n)
  <1>1. NVA \in Nat /\ StackBase \in Nat /\ StackBase < NVA
    BY PageNumbers
  <1>2. \A n \in Nat : PgRoundUp(n) \in Nat /\ (n <= 2 * StackBase => PgRoundUp(n) <= StackBase)
                       /\ (n <= 2 * NVA => PgRoundUp(n) <= NVA)
    BY <1>1 DEF PgRoundUp
  <1>3. \A n \in Nat : PgRoundUp(2 * n) = n
    BY DEF PgRoundUp
  <1>4. \A m, n \in Nat : m <= n => PgRoundUp(m) <= PgRoundUp(n)
    BY DEF PgRoundUp
  <1>5. \A n \in Breaks : n \in Nat /\ n \in 0 .. 2 * NVA /\ n <= 2 * StackBase
    BY <1>1 DEF Breaks
  <1>6. \A n \in Breaks : n \in Nat /\ n \in 0 .. 2 * NVA /\ PgRoundUp(n) \in 0 .. StackBase
    BY <1>1, <1>2, <1>5
  <1>7. \A n \in 0 .. 2 * NVA : n \in Nat /\ PgRoundUp(n) \in 0 .. NVA
    BY <1>1, <1>2
  <1> QED
    BY <1>3, <1>4, <1>6, <1>7

\* Between a smaller size and a larger one lie the pages that brk maps or
\* unmaps, none of them in the stack.
LEMMA BrkRange ==
  ASSUME NEW m \in Breaks, NEW n \in Breaks, m <= n
  PROVE  LET range == PgRoundUp(m) .. PgRoundUp(n) - 1 IN
         /\ range \subseteq VA
         /\ Asked(n) = Asked(m) \cup range
         /\ Asked(m) \cap range = {}
  <1>1. /\ PgRoundUp(m) \in 0 .. StackBase /\ PgRoundUp(n) \in 0 .. StackBase
        /\ PgRoundUp(m) <= PgRoundUp(n)
    BY SizeFacts
  <1> DEFINE a == PgRoundUp(m)
             b == PgRoundUp(n)
  <1>2. a \in 0 .. StackBase /\ b \in 0 .. StackBase /\ a <= b
    BY <1>1
  <1>3. /\ Asked(m) = (0 .. a - 1) \cup (StackBase .. NVA - 1)
        /\ Asked(n) = (0 .. b - 1) \cup (StackBase .. NVA - 1)
    BY DEF Asked
  <1> HIDE DEF a, b
  <1>4. a .. b - 1 \subseteq VA
    BY <1>2, PageNumbers DEF VA
  <1>5. Asked(n) = Asked(m) \cup (a .. b - 1)
    BY <1>2, <1>3, PageNumbers
  <1>6. Asked(m) \cap (a .. b - 1) = {}
    BY <1>2, <1>3, PageNumbers
  <1> QED
    BY <1>4, <1>5, <1>6 DEF a, b

LEMMA AskedIn == \A n \in 0 .. 2 * NVA : Asked(n) \subseteq VA
  <1> SUFFICES ASSUME NEW n \in 0 .. 2 * NVA PROVE Asked(n) \subseteq VA
    OBVIOUS
  <1>1. PgRoundUp(n) \in 0 .. NVA
    BY SizeFacts
  <1> QED
    BY <1>1, PageNumbers DEF Asked, VA

-----------------------------------------------------------------------------
(* Every step keeps the invariant *)

LEMMA ProcNotNull == \A p \in Procs : p # Nil
  BY AddrAssumption DEF Procs

\* The running process, when no call is under way.
LEMMA Running ==
  ASSUME AddrInv, NEW p \in Procs, cur = p
  PROVE  /\ st[p] = "ready" /\ p \in Active /\ satp = pt[p] /\ pt[p] \in Roots
         /\ sz[p] \in Breaks /\ Asked(sz[p]) \subseteq Leaves(tab[pt[p]])
         /\ op = Idle /\ ~short[p] => Leaves(tab[pt[p]]) \subseteq Asked(sz[p])
  <1>1. st[p] = "ready" /\ satp = pt[p] /\ sz[p] \in Breaks
    BY ProcNotNull DEF AddrInv, Control, SatpLive, AddrTypeOK
  <1>2. p \in Active
    BY <1>1 DEF Active
  <1>3. pt[p] \in Roots
    BY <1>2, RootFacts
  <1>4. Asked(sz[p]) \subseteq Leaves(tab[pt[p]])
    BY <1>1 DEF AddrInv, Backed
  <1>5. op = Idle /\ ~short[p] => Leaves(tab[pt[p]]) \subseteq Asked(sz[p])
    BY <1>1 DEF AddrInv, Exact, Idle
  <1> QED
    BY <1>1, <1>2, <1>3, <1>4, <1>5

LEMMA StutterStep == AddrInv /\ UNCHANGED asvars => AddrInv'
  <1> SUFFICES ASSUME AddrInv, UNCHANGED asvars PROVE AddrInv'
    OBVIOUS
  <1> USE DEF asvars
  <1>1. AddrTypeOK' /\ Control'
    BY DEF AddrInv, AddrTypeOK, Control
  <1>2. Active' = Active /\ Roots' = Roots
    BY DEF Active, Roots
  <1>3. Apart' /\ Covered'
    BY <1>2 DEF AddrInv, Apart, Covered
  <1>4. SatpLive' /\ Backed' /\ Exact'
    BY DEF AddrInv, SatpLive, Backed, Exact
  <1>5. Building'
    BY DEF AddrInv, Building, Rest
  <1> QED
    BY <1>1, <1>3, <1>4, <1>5 DEF AddrInv

LEMMA ExitStep == ASSUME AddrInv, NEW p \in Procs, Exit(p) PROVE AddrInv'
  <1> USE DEF Exit
  <1>1. op.kind = "idle" /\ st[p] = "ready"
    BY Running DEF Idle
  <1>2. \A q \in Procs : (st'[q] = "unused" <=> st[q] = "unused")
                         /\ (st'[q] = "ready" => st[q] = "ready")
    BY <1>1 DEF AddrInv, AddrTypeOK
  <1>3. AddrTypeOK'
    BY DEF AddrInv, AddrTypeOK
  <1>4. Control'
    BY <1>1 DEF AddrInv, Control
  <1>5. Active' = Active
    BY <1>2 DEF Active
  <1>6. Apart' /\ Covered'
    BY <1>1, <1>5, MemFrame
  <1>7. SatpLive' /\ Backed' /\ Exact'
    BY <1>2 DEF AddrInv, SatpLive, Backed, Exact
  <1>8. Building'
    BY <1>1 DEF AddrInv, Building
  <1> QED
    BY <1>3, <1>4, <1>6, <1>7, <1>8 DEF AddrInv

LEMMA YieldStep == ASSUME AddrInv, NEW p \in Procs, Yield(p) PROVE AddrInv'
  <1> USE DEF Yield
  <1>1. op.kind = "idle"
    BY DEF Idle
  <1>2. AddrTypeOK' /\ Control'
    BY <1>1 DEF AddrInv, AddrTypeOK, Control
  <1>3. Active' = Active
    BY DEF Active
  <1>4. Apart' /\ Covered'
    BY <1>1, <1>3, MemFrame
  <1>5. SatpLive' /\ Backed' /\ Exact'
    BY DEF AddrInv, SatpLive, Backed, Exact
  <1>6. Building'
    BY <1>1 DEF AddrInv, Building
  <1> QED
    BY <1>2, <1>4, <1>5, <1>6 DEF AddrInv

LEMMA DispatchStep == ASSUME AddrInv, NEW p \in Procs, Dispatch(p) PROVE AddrInv'
  <1> USE DEF Dispatch
  <1>1. op.kind = "idle" /\ p \in Active /\ pt[p] \in Pages
    BY DEF Idle, Active, AddrInv, Apart
  <1>2. AddrTypeOK'
    BY <1>1 DEF AddrInv, AddrTypeOK
  <1>3. Control'
    BY <1>1 DEF AddrInv, Control
  <1>4. Active' = Active
    BY DEF Active
  <1>5. Apart' /\ Covered'
    BY <1>1, <1>4, MemFrame
  <1>6. SatpLive'
    BY <1>1 DEF SatpLive
  <1>7. Backed' /\ Exact'
    BY DEF AddrInv, Backed, Exact
  <1>8. Building'
    BY <1>1 DEF AddrInv, Building
  <1> QED
    BY <1>2, <1>3, <1>5, <1>6, <1>7, <1>8 DEF AddrInv
LEMMA BrkGrowStep ==
  ASSUME AddrInv, NEW p \in Procs, NEW new \in Breaks, BrkGrow(p, new) PROVE AddrInv'
  <1> DEFINE range == PgRoundUp(sz[p]) .. PgRoundUp(new) - 1
  <1>1. /\ op.kind = "idle" /\ op = Idle /\ cur = p /\ new > sz[p]
        /\ op' = [kind |-> "brk", p |-> p, c |-> Nil, root |-> pt[p], nsz |-> new,
                  todo |-> Ascending(range)]
        /\ UNCHANGED <<free, tab, procVars, lost, short>>
    BY DEF BrkGrow, Idle
  <1>2. sz[p] \in Breaks /\ sz[p] <= new
    <2>1. sz[p] \in Breaks
      BY <1>1, Running
    <2>2. sz[p] \in Nat /\ new \in Nat
      BY <2>1, SizeFacts
    <2> QED
      BY <1>1, <2>1, <2>2
  <1>3. range \subseteq VA /\ Asked(new) = Asked(sz[p]) \cup range
    BY <1>2, BrkRange
  <1> HIDE DEF range
  <1>4. Ascending(range) \in Seq(VA) /\ Elems(Ascending(range)) = range
    BY <1>3, AscendingFacts DEF Elems
  <1>5. pt[p] \in Pages /\ new \in 0 .. 2 * NVA
    BY <1>1, Running, RootFacts, SizeFacts
  <1>6. AddrTypeOK'
    BY <1>1, <1>4, <1>5 DEF AddrInv, AddrTypeOK, procVars
  <1>7. Control'
    BY <1>1, <1>4, <1>5 DEF AddrInv, Control, procVars, Kinds
  <1>8. Active' = Active
    BY <1>1 DEF Active, procVars
  <1>9. Apart' /\ Covered'
    BY <1>1, <1>8, MemFrame DEF procVars
  <1>10. SatpLive' /\ Backed' /\ Exact'
    BY <1>1 DEF AddrInv, SatpLive, Backed, Exact, procVars
  <1>11. Building'
    <2>1. Asked(sz[p]) \subseteq Leaves(tab[pt[p]]) /\ (~short[p] => Leaves(tab[pt[p]]) \subseteq Asked(sz[p]))
      BY <1>1, Running
    <2>2. Asked(new) \subseteq Leaves(tab[pt[p]]) \cup range
      BY <1>3, <2>1
    <2>3. ~short[p] => Leaves(tab[pt[p]]) \cup range \subseteq Asked(new)
      BY <1>3, <2>1
    <2>4. Rest' = range /\ op'.kind = "brk" /\ op'.root = pt[p] /\ op'.p = p /\ op'.nsz = new
      BY <1>1, <1>4 DEF Rest
    <2> QED
      BY <1>1, <2>2, <2>3, <2>4 DEF Building
  <1> QED
    BY <1>6, <1>7, <1>9, <1>10, <1>11 DEF AddrInv

LEMMA BrkShrinkStep ==
  ASSUME AddrInv, NEW p \in Procs, NEW new \in Breaks, BrkShrink(p, new) PROVE AddrInv'
  <1> DEFINE r    == pt[p]
             gone == Mapped(r, Dealloc(p, new))
             leaf == tab[r].leaf
             u    == [tab[r] EXCEPT !.leaf = [v \in VA |-> IF v \in gone THEN Nil ELSE leaf[v]]]
             range == PgRoundUp(new) .. PgRoundUp(sz[p]) - 1
  <1>1. /\ op.kind = "idle" /\ op = Idle /\ cur = p /\ new < sz[p]
        /\ free' = free \cup {leaf[v] : v \in gone}
        /\ tab' = [tab EXCEPT ![r].leaf = [v \in VA |-> IF v \in gone THEN Nil ELSE leaf[v]]]
        /\ sz' = [sz EXCEPT ![p] = new]
        /\ UNCHANGED <<st, pt, tf, parent, cur, satp, op, lost, short>>
    BY DEF BrkShrink, Idle
  <1>2. /\ sz[p] \in Breaks /\ r \in Roots /\ r \in Pages /\ tab \in [Pages -> Tables]
        /\ tab[r] \in Tables /\ OneTree(r, tab[r])
        /\ Asked(sz[p]) \subseteq Leaves(tab[r]) /\ (~short[p] => Leaves(tab[r]) \subseteq Asked(sz[p]))
    BY <1>1, Running, RootFacts
  <1>3. tab' = [tab EXCEPT ![r] = u]
    BY <1>1, <1>2
  <1>4. new <= sz[p]
    BY <1>1, <1>2, SizeFacts
  <1>5. range \subseteq VA /\ Asked(sz[p]) = Asked(new) \cup range /\ Asked(new) \cap range = {}
    BY <1>2, <1>4, BrkRange
  <1>6. gone = Leaves(tab[r]) \cap range
    BY <1>5 DEF Mapped, Dealloc, Leaves
  <1> HIDE DEF range
  <1>7. /\ u \in Tables /\ OneTree(r, u) /\ Leaves(u) = Leaves(tab[r]) \ gone
        /\ Tree(r, u) = Tree(r, tab[r]) \ {leaf[v] : v \in gone}
        /\ {leaf[v] : v \in gone} \subseteq Pages \cap Tree(r, tab[r])
    <2>1. gone \in SUBSET Leaves(tab[r])
      BY <1>6
    <2> HIDE DEF gone, r
    <2> QED
      BY <1>2, <2>1, CutTree
  <1> HIDE DEF gone, u, r, leaf
  <1>8. free' \subseteq Pages
    BY <1>1, <1>7, RootFacts
  <1>9. Apart' /\ Covered' /\ \A s \in Roots : s # r => tab'[s] = tab[s]
    BY <1>1, <1>2, <1>3, <1>7, <1>8, TableMem
  <1>10. tab'[r] = u
    BY <1>2, <1>3
  <1>11. AddrTypeOK'
    <2>1. tab' \in [Pages -> Tables]
      BY <1>2, <1>3, <1>7
    <2>2. sz' \in [Procs -> Breaks]
      BY <1>1 DEF AddrInv, AddrTypeOK
    <2> QED
      BY <1>1, <1>8, <2>1, <2>2 DEF AddrInv, AddrTypeOK, Tables
  <1>12. Control'
    BY <1>1 DEF AddrInv, Control
  <1>13. \A q \in Procs : q # p => sz'[q] = sz[q]
    BY <1>1 DEF AddrInv, AddrTypeOK
  <1>14. sz'[p] = new
    BY <1>1 DEF AddrInv, AddrTypeOK
  <1>15. \A q \in Procs : st[q] = "ready" /\ q # p => tab'[pt[q]] = tab[pt[q]]
    <2>1. p \in Active /\ r = pt[p]
      BY <1>1, Running DEF r
    <2>2. \A q \in Procs : st[q] = "ready" /\ q # p => q \in Active /\ pt[q] \in Roots /\ pt[q] # r
      BY <2>1, RootFacts DEF AddrInv, Apart, Active
    <2> QED
      BY <1>9, <2>2
  <1>16. Asked(new) \subseteq Leaves(u) /\ (~short[p] => Leaves(u) \subseteq Asked(new))
    BY <1>2, <1>5, <1>6, <1>7
  <1>17. Backed'
    BY <1>1, <1>10, <1>13, <1>14, <1>15, <1>16 DEF AddrInv, Backed, r
  <1>18. Exact'
    BY <1>1, <1>10, <1>13, <1>14, <1>15, <1>16 DEF AddrInv, Exact, r
  <1>19. SatpLive'
    BY <1>1 DEF AddrInv, SatpLive
  <1>20. Building'
    BY <1>1 DEF Building
  <1> QED
    BY <1>9, <1>11, <1>12, <1>17, <1>18, <1>19, <1>20 DEF AddrInv

LEMMA ForkDoneStep == ASSUME AddrInv, ForkDone PROVE AddrInv'
  <1> DEFINE c == op.c
  <1>1. /\ op.kind = "fork" /\ op.todo = <<>> /\ op' = Idle
        /\ sz' = [sz EXCEPT ![c] = op.nsz] /\ parent' = [parent EXCEPT ![c] = op.p]
        /\ st' = [st EXCEPT ![c] = "ready"]
        /\ UNCHANGED <<free, tab, pt, tf, cur, satp, lost, short>>
    BY DEF ForkDone
  <1>2. /\ c \in Procs /\ op.p \in Procs /\ st[c] = "used" /\ op.root = pt[c]
        /\ op.nsz \in Breaks /\ cur = op.p
    BY <1>1 DEF AddrInv, Control
  <1>3. Leaves(tab[pt[c]]) = Asked(op.nsz)
    <2>1. Rest = {}
      BY <1>1 DEF Rest, Elems
    <2> QED
      BY <1>1, <1>2, <2>1 DEF AddrInv, Building
  <1> HIDE DEF c
  <1>4. /\ op'.kind = "idle" /\ op'.p = Nil /\ op'.c = Nil /\ op'.root = Nil
        /\ op'.todo = <<>> /\ op'.nsz = 0
    BY <1>1 DEF Idle
  <1>5. AddrTypeOK'
    BY <1>1, <1>2, <1>4, PageNumbers DEF AddrInv, AddrTypeOK
  <1>6. \A q \in Procs : st'[q] = IF q = c THEN "ready" ELSE st[q]
    BY <1>1 DEF AddrInv, AddrTypeOK
  <1>7. \A q \in Procs : sz'[q] = IF q = c THEN op.nsz ELSE sz[q]
    BY <1>1 DEF AddrInv, AddrTypeOK
  <1>8. Control'
    <2>1. op' \in [kind : Kinds, p : Procs \cup {Nil}, c : Procs \cup {Nil},
                   root : Pages \cup {Nil}, todo : Seq(VA), nsz : 0 .. 2 * NVA]
      BY <1>1, PageNumbers DEF Idle, Kinds
    <2> QED
      BY <1>1, <1>4, <1>6, <2>1 DEF AddrInv, Control, Idle, AddrTypeOK
  <1>9. Active' = Active
    BY <1>2, <1>6 DEF Active
  <1>10. Apart' /\ Covered'
    BY <1>1, <1>4, <1>9, MemFrame
  <1>11. SatpLive'
    BY <1>1, <1>2, <1>6 DEF AddrInv, SatpLive
  <1>12. Backed' /\ Exact'
    <2>1. UNCHANGED <<tab, pt, short>>
      BY <1>1
    <2>2. ASSUME NEW q \in Procs, st'[q] = "ready" PROVE Asked(sz'[q]) \subseteq Leaves(tab[pt[q]])
      BY <1>3, <1>6, <1>7, <2>2 DEF AddrInv, Backed
    <2>3. ASSUME NEW q \in Procs, st'[q] = "ready", ~short[q]
          PROVE  Leaves(tab[pt[q]]) \subseteq Asked(sz'[q])
      <3>1. CASE q = c
        BY <1>3, <1>7, <3>1
      <3>2. CASE q # c
        BY <1>1, <1>6, <1>7, <2>3, <3>2 DEF AddrInv, Exact
      <3> QED
        BY <3>1, <3>2
    <2> QED
      BY <2>1, <2>2, <2>3 DEF Backed, Exact
  <1>13. Building'
    BY <1>4 DEF Building
  <1> QED
    BY <1>5, <1>8, <1>10, <1>11, <1>12, <1>13 DEF AddrInv

LEMMA IdleFacts ==
  ASSUME op' = Idle
  PROVE  /\ op'.kind = "idle" /\ op'.p = Nil /\ op'.c = Nil /\ op'.root = Nil
         /\ op'.todo = <<>> /\ op'.nsz = 0 /\ op' = [Idle EXCEPT !.kind = op'.kind]
         /\ op' \in [kind : Kinds, p : Procs \cup {Nil}, c : Procs \cup {Nil},
                     root : Pages \cup {Nil}, todo : Seq(VA), nsz : 0 .. 2 * NVA]
         /\ 0 \in 0 .. 2 * NVA
  BY PageNumbers DEF Idle, Kinds

LEMMA BrkEndStep == ASSUME AddrInv, BrkFail \/ BrkDone PROVE AddrInv'
  <1>1. op.kind = "brk" /\ op' = Idle /\ UNCHANGED <<free, tab, st, pt, tf, parent, cur, satp, lost>>
    BY DEF BrkFail, BrkDone, procVars
  <1>2. /\ op.p \in Procs /\ cur = op.p /\ op.nsz \in Breaks /\ op.root = pt[op.p]
        /\ st[op.p] = "ready"
    BY <1>1, ProcNotNull DEF AddrInv, Control
  <1>3. /\ op'.kind = "idle" /\ op'.p = Nil /\ op'.c = Nil /\ op'.root = Nil
        /\ op'.todo = <<>> /\ op'.nsz = 0 /\ op' = [Idle EXCEPT !.kind = op'.kind]
        /\ op' \in [kind : Kinds, p : Procs \cup {Nil}, c : Procs \cup {Nil},
                    root : Pages \cup {Nil}, todo : Seq(VA), nsz : 0 .. 2 * NVA]
        /\ 0 \in 0 .. 2 * NVA
    BY <1>1, IdleFacts
  <1>4. AddrTypeOK'
    <2>1. sz' \in [Procs -> Breaks] /\ short' \in [Procs -> BOOLEAN]
      BY <1>2 DEF BrkFail, BrkDone, AddrInv, AddrTypeOK, procVars
    <2> QED
      BY <1>1, <1>3, <2>1 DEF AddrInv, AddrTypeOK
  <1>5. Control'
    BY <1>1, <1>3 DEF AddrInv, Control
  <1>6. Active' = Active
    BY <1>1 DEF Active
  <1>7. Apart' /\ Covered'
    BY <1>1, <1>3, <1>6, MemFrame
  <1>8. SatpLive' /\ Building'
    BY <1>1, <1>3 DEF AddrInv, SatpLive, Building
  <1>9. CASE BrkFail
    <2>1. sz' = sz /\ short'[op.p] /\ \A q \in Procs : q # op.p => short'[q] = short[q]
      BY <1>2, <1>9 DEF BrkFail, AddrInv, AddrTypeOK, procVars
    <2>2. Backed' /\ Exact'
      BY <1>1, <1>2, <2>1 DEF AddrInv, Backed, Exact
    <2> QED
      BY <1>4, <1>5, <1>7, <1>8, <2>2 DEF AddrInv
  <1>10. CASE BrkDone
    <2>1. /\ sz'[op.p] = op.nsz /\ (\A q \in Procs : q # op.p => sz'[q] = sz[q])
          /\ short' = short /\ op.todo = <<>>
      BY <1>2, <1>10 DEF BrkDone, AddrInv, AddrTypeOK
    <2>2. Rest = {}
      BY <2>1 DEF Rest, Elems
    <2>3. /\ Asked(op.nsz) \subseteq Leaves(tab[pt[op.p]])
          /\ ~short[op.p] => Leaves(tab[pt[op.p]]) \subseteq Asked(op.nsz)
      BY <1>1, <1>2, <2>2 DEF AddrInv, Building
    <2>4. Backed' /\ Exact'
      BY <1>1, <1>2, <2>1, <2>3 DEF AddrInv, Backed, Exact
    <2> QED
      BY <1>4, <1>5, <1>7, <1>8, <2>4 DEF AddrInv
  <1> QED
    BY <1>9, <1>10
\* The pages that a call still has to map.
LEMMA TodoFacts ==
  ASSUME AddrInv, op.todo # <<>>
  PROVE  /\ op.kind \in {"fork", "exec", "brk"} /\ op.root \in Roots
         /\ Head(op.todo) \in VA /\ Tail(op.todo) \in Seq(VA)
         /\ Rest = {Head(op.todo)} \cup Elems(Tail(op.todo))
         /\ Len(Tail(op.todo)) = Len(op.todo) - 1
         /\ Len(op.todo) \in Nat \ {0}
         /\ \A i \in 1 .. Len(op.todo) - 1 : Tail(op.todo)[i] = op.todo[i + 1]
         /\ op.todo[1] = Head(op.todo)
  <1>1. op.kind \in {"fork", "exec", "brk"}
    BY DEF AddrInv, Control, Idle, Kinds
  <1>2. op.root \in Roots
    <2>1. CASE op.kind = "exec"
      BY <2>1, RootFacts
    <2>2. CASE op.kind = "fork"
      BY <2>2, RootFacts DEF AddrInv, Control, Active
    <2>3. CASE op.kind = "brk"
      BY <2>3, Running, RootFacts DEF AddrInv, Control
    <2> QED
      BY <1>1, <2>1, <2>2, <2>3
  <1> DEFINE s == op.todo
  <1>3. s \in Seq(VA) /\ s # <<>>
    BY DEF AddrInv, AddrTypeOK
  <1> HIDE DEF s
  <1>4. /\ Head(s) \in VA /\ Tail(s) \in Seq(VA) /\ Len(Tail(s)) = Len(s) - 1
        /\ Len(s) \in Nat \ {0} /\ s[1] = Head(s)
        /\ \A i \in 1 .. Len(s) - 1 : Tail(s)[i] = s[i + 1]
    BY <1>3
  <1>5. Elems(s) = {Head(s)} \cup Elems(Tail(s))
    <2>1. ASSUME NEW i \in DOMAIN s PROVE s[i] = Head(s) \/ s[i] \in Elems(Tail(s))
      <3>1. i \in 1 .. Len(s)
        BY <1>3
      <3>2. CASE i = 1
        BY <1>4, <3>2
      <3>3. CASE i # 1
        <4>1. i - 1 \in 1 .. Len(s) - 1 /\ i = (i - 1) + 1
          BY <1>4, <3>1, <3>3
        <4>2. i - 1 \in DOMAIN Tail(s) /\ s[i] = Tail(s)[i - 1]
          BY <1>4, <4>1
        <4> QED
          BY <4>2 DEF Elems
      <3> QED
        BY <3>2, <3>3
    <2>2. ASSUME NEW i \in DOMAIN Tail(s) PROVE Tail(s)[i] \in Elems(s)
      <3>1. i \in 1 .. Len(s) - 1 /\ i + 1 \in DOMAIN s
        BY <1>3, <1>4
      <3>2. Tail(s)[i] = s[i + 1]
        BY <1>4, <3>1
      <3> QED
        BY <3>1, <3>2 DEF Elems
    <2>3. Head(s) \in Elems(s)
      <3>1. 1 \in DOMAIN s
        BY <1>3, <1>4
      <3> QED
        BY <1>4, <3>1 DEF Elems
    <2> QED
      BY <2>1, <2>2, <2>3 DEF Elems
  <1> QED
    BY <1>1, <1>2, <1>4, <1>5 DEF s, Rest

LEMMA MapNextStep == ASSUME AddrInv, MapNext PROVE AddrInv'
  <1> DEFINE v   == Head(op.todo)
             mem == Kalloc(free)
             l0  == Kalloc(free \ {mem})
             r   == op.root
             t   == tab[r]
             k   == v \div Span
             u1  == [t EXCEPT !.leaf[v] = mem]
             u2  == [u1 EXCEPT !.l0[k] = l0]
             u   == IF NeedsL0(v) THEN u2 ELSE u1
             new == IF NeedsL0(v) THEN {mem, l0} ELSE {mem}
  <1>1. /\ op.todo # <<>> /\ t.leaf[v] = Nil
        /\ op' = [op EXCEPT !.todo = Tail(@)]
        /\ UNCHANGED <<st, pt, tf, sz, parent, cur, satp, lost, short>>
    BY DEF MapNext, procVars
  <1>2. r \in Roots /\ v \in VA /\ op.kind \in {"fork", "exec", "brk"}
    BY <1>1, TodoFacts
  <1>3. /\ r \in Pages /\ t \in Tables /\ OneTree(r, t) /\ tab \in [Pages -> Tables]
        /\ Tree(r, t) \cap free = {} /\ free \subseteq Pages
    BY <1>2, RootFacts DEF AddrInv, Apart
  <1>4. k \in Regions
    BY <1>2, RegionOf
  <1>5. mem \in free /\ (NeedsL0(v) => l0 \in free \ {mem})
    <2>1. Cardinality(free) \in Nat /\ Cardinality(free) >= (IF NeedsL0(v) THEN 2 ELSE 1)
      BY AddrAssumption, FS_Subset, FS_CardinalityType DEF AddrInv, AddrTypeOK, MapNext
    <2>2. free # {} /\ (NeedsL0(v) => \A x : free \ {x} # {})
      BY <2>1, FreeFacts DEF AddrInv
    <2> QED
      BY <2>2, KallocIn
  <1>6. free' = free \ new /\ tab' = [tab EXCEPT ![r] = u]
    <2>1. CASE NeedsL0(v)
      <3>1. /\ free' = free \ {mem, l0}
            /\ tab' = [tab EXCEPT ![r].leaf[v] = mem, ![r].l0[k] = l0]
        BY <2>1 DEF MapNext
      <3>2. tab' = [tab EXCEPT ![r] = u2]
        BY <1>3, <3>1
      <3> QED
        BY <2>1, <3>1, <3>2
    <2>2. CASE ~NeedsL0(v)
      <3>1. free' = free \ {mem} /\ tab' = [tab EXCEPT ![r].leaf[v] = mem]
        BY <2>2 DEF MapNext
      <3>2. tab' = [tab EXCEPT ![r] = u1]
        BY <1>3, <3>1
      <3> QED
        BY <2>2, <3>1, <3>2
    <2> QED
      BY <2>1, <2>2
  <1>7. NeedsL0(v) => t.l0[k] = Nil
    BY DEF NeedsL0
  <1> HIDE DEF mem, l0, k, r, v
  <1>8. mem \in Pages /\ mem \notin Tree(r, t) /\ t.leaf[v] = Nil
    BY <1>1, <1>3, <1>5
  <1>9. /\ u1 \in Tables /\ Tree(r, u1) = Tree(r, t) \cup {mem} /\ OneTree(r, u1)
        /\ Leaves(u1) = Leaves(t) \cup {v} /\ u1.l0 = t.l0
    <2> HIDE DEF u1, t
    <2>1. u1 = [t EXCEPT !.leaf[v] = mem]
      BY DEF u1
    <2> QED
      BY ONLY <1>2, <1>3, <1>8, <2>1, LeafTree
  <1>10. NeedsL0(v) => /\ u2 \in Tables /\ Tree(r, u2) = Tree(r, u1) \cup {l0}
                       /\ OneTree(r, u2) /\ Leaves(u2) = Leaves(u1)
    <2> SUFFICES ASSUME NeedsL0(v)
                 PROVE  /\ u2 \in Tables /\ Tree(r, u2) = Tree(r, u1) \cup {l0}
                        /\ OneTree(r, u2) /\ Leaves(u2) = Leaves(u1)
      OBVIOUS
    <2> HIDE DEF u1, t
    <2>1. l0 \in Pages /\ l0 \notin Tree(r, u1) /\ u1.l0[k] = Nil
      BY <1>3, <1>5, <1>7, <1>9
    <2>2. u2 = [u1 EXCEPT !.l0[k] = l0]
      OBVIOUS
    <2> HIDE DEF u2
    <2> QED
      BY ONLY <1>3, <1>4, <1>9, <2>1, <2>2, L0Tree
  <1> HIDE DEF u1, u2, t
  <1>11. /\ u \in Tables /\ Tree(r, u) = Tree(r, t) \cup new /\ OneTree(r, u)
         /\ Leaves(u) = Leaves(t) \cup {v} /\ new \in SUBSET free
    BY <1>5, <1>9, <1>10
  <1> HIDE DEF u, new
  <1>12. /\ op'.kind = op.kind /\ op'.p = op.p /\ op'.c = op.c /\ op'.root = op.root
         /\ op'.nsz = op.nsz /\ op'.todo = Tail(op.todo)
    BY <1>1 DEF AddrInv, Control
  <1>13. Apart' /\ Covered' /\ \A s \in Roots : s # r => tab'[s] = tab[s]
    <2>1. free' \subseteq Pages
      BY <1>3, <1>6
    <2>2. \E n \in SUBSET free : free' = free \ n /\ Tree(r, u) = Tree(r, tab[r]) \cup n
      BY <1>6, <1>11 DEF t
    <2> QED
      BY <1>1, <1>2, <1>6, <1>11, <1>12, <2>1, <2>2, TableMem
  <1>14. tab'[r] = u
    BY <1>3, <1>6
  <1>15. AddrTypeOK'
    <2>1. tab' \in [Pages -> Tables]
      BY <1>3, <1>6, <1>11
    <2>2. Tail(op.todo) \in Seq(VA)
      BY <1>1, TodoFacts
    <2> QED
      BY <1>1, <1>6, <1>12, <2>1, <2>2 DEF AddrInv, AddrTypeOK, Tables
  <1>16. Control'
    <2>1. Tail(op.todo) \in Seq(VA)
      BY <1>1, TodoFacts
    <2>2. op' \in [kind : Kinds, p : Procs \cup {Nil}, c : Procs \cup {Nil},
                   root : Pages \cup {Nil}, todo : Seq(VA), nsz : 0 .. 2 * NVA]
      BY <1>1, <2>1 DEF AddrInv, Control
    <2> QED
      BY <1>1, <1>2, <1>12, <2>2 DEF AddrInv, Control
  <1>17. SatpLive'
    BY <1>1 DEF AddrInv, SatpLive
  <1>18. Building'
    <2>1. Rest' = Elems(Tail(op.todo)) /\ Rest = {v} \cup Elems(Tail(op.todo))
      BY <1>1, <1>12, TodoFacts DEF Rest, v
    <2>2. Leaves(tab'[r]) \cup Rest' = Leaves(tab[r]) \cup Rest
      BY <1>11, <1>14, <2>1 DEF t
    <2>3. op.kind \in {"fork", "exec"} => Leaves(tab'[op'.root]) \cup Rest' = Asked(op'.nsz)
      BY <1>12, <2>2 DEF AddrInv, Building, r
    <2>4. op.kind = "brk" =>
            /\ Asked(op'.nsz) \subseteq Leaves(tab'[op'.root]) \cup Rest'
            /\ ~short[op.p] => Leaves(tab'[op'.root]) \cup Rest' \subseteq Asked(op'.nsz)
      BY <1>12, <2>2 DEF AddrInv, Building, r
    <2>5. ASSUME op.kind = "exec", op.nsz > 2 * StackBase
          PROVE  LET n == Len(op'.todo) - (NVA - StackBase) IN
                 /\ n >= 0 /\ op'.todo[n + 1] = StackBase
                 /\ StackBase \in Leaves(tab'[r]) \/ \E i \in 1 .. n : op'.todo[i] = StackBase
      <3> DEFINE n == Len(op.todo) - (NVA - StackBase)
      <3>1. /\ n >= 0 /\ op.todo[n + 1] = StackBase
            /\ StackBase \in Leaves(t) \/ \E i \in 1 .. n : op.todo[i] = StackBase
        BY <2>5 DEF AddrInv, Building, r, t
      <3>2. /\ op.todo[1] = v /\ Len(Tail(op.todo)) = Len(op.todo) - 1
            /\ Len(op.todo) \in Nat \ {0}
            /\ \A i \in 1 .. Len(op.todo) - 1 : Tail(op.todo)[i] = op.todo[i + 1]
        BY <1>1, TodoFacts DEF v
      <3>3. NVA \in Nat /\ StackBase \in 1 .. NVA - 1 /\ n \in Int
        BY <3>2, PageNumbers
      <3>4. n # 0
        <4> SUFFICES ASSUME n = 0 PROVE FALSE
          OBVIOUS
        <4>1. v = StackBase /\ StackBase \in Leaves(t)
          BY <3>1, <3>2
        <4> QED
          BY <1>8, <4>1 DEF Leaves
      <3>5. Len(op'.todo) - (NVA - StackBase) = n - 1
        BY <1>12, <3>2, <3>3
      <3>6. n <= Len(op.todo) - 1 /\ n \in 1 .. Len(op.todo) - 1
        BY <3>1, <3>2, <3>3, <3>4
      <3> HIDE DEF n
      <3>7. n - 1 >= 0 /\ op'.todo[(n - 1) + 1] = StackBase
        <4>1. op'.todo[n] = StackBase
          BY <1>12, <3>1, <3>2, <3>6
        <4>2. (n - 1) + 1 = n
          BY <3>3
        <4> QED
          BY <3>1, <3>3, <3>4, <4>1, <4>2
      <3>8. StackBase \in Leaves(tab'[r]) \/ \E i \in 1 .. n - 1 : op'.todo[i] = StackBase
        <4>1. CASE StackBase \in Leaves(t)
          BY <1>11, <1>14, <4>1
        <4>2. CASE \E i \in 1 .. n : op.todo[i] = StackBase
          <5>1. PICK i \in 1 .. n : op.todo[i] = StackBase
            BY <4>2
          <5>2. CASE i = 1
            BY <1>11, <1>14, <3>2, <5>1, <5>2
          <5>3. CASE i # 1
            <6>1. i - 1 \in 1 .. n - 1 /\ i - 1 \in 1 .. Len(op.todo) - 1 /\ (i - 1) + 1 = i
              BY <3>3, <3>6, <5>1, <5>3
            <6>2. op'.todo[i - 1] = StackBase
              BY <1>12, <3>2, <5>1, <6>1
            <6> QED
              BY <6>1, <6>2
          <5> QED
            BY <5>2, <5>3
        <4> QED
          BY <3>1, <4>1, <4>2
      <3> QED
        BY <3>5, <3>7, <3>8
    <2> QED
      BY <1>1, <1>2, <1>12, <2>3, <2>4, <2>5 DEF Building, r
  <1>19. \A q \in Procs : st[q] = "ready" =>
           IF pt[q] = r THEN Leaves(tab'[pt[q]]) = Leaves(tab[pt[q]]) \cup {v}
                        ELSE tab'[pt[q]] = tab[pt[q]]
    <2>1. \A q \in Procs : st[q] = "ready" => pt[q] \in Roots
      BY RootFacts DEF Active
    <2> QED
      BY <1>11, <1>13, <1>14, <2>1 DEF t
  <1>20. Backed'
    BY <1>1, <1>19 DEF AddrInv, Backed
  <1>21. Exact'
    <2>1. \A q \in Procs : st[q] = "ready" /\ ~(op.kind = "brk" /\ op.p = q) => pt[q] # r
      <3> SUFFICES ASSUME NEW q \in Procs, st[q] = "ready", ~(op.kind = "brk" /\ op.p = q)
                   PROVE  pt[q] # r
        OBVIOUS
      <3>1. q \in Active
        BY DEF Active
      <3>2. CASE op.kind = "exec"
        BY <3>1, <3>2 DEF AddrInv, Apart, r
      <3>3. CASE op.kind = "fork"
        <4>1. op.c \in Active /\ op.c # q /\ r = pt[op.c]
          BY <3>3 DEF AddrInv, Control, Active, r
        <4> QED
          BY <3>1, <4>1 DEF AddrInv, Apart
      <3>4. CASE op.kind = "brk"
        <4>1. op.p \in Active /\ op.p # q /\ r = pt[op.p]
          BY <3>4, Running DEF AddrInv, Control, r
        <4> QED
          BY <3>1, <4>1 DEF AddrInv, Apart
      <3> QED
        BY <1>2, <3>2, <3>3, <3>4
    <2> QED
      BY <1>1, <1>12, <1>19, <2>1 DEF AddrInv, Exact
  <1> QED
    BY <1>13, <1>15, <1>16, <1>17, <1>18, <1>20, <1>21 DEF AddrInv
\* Putting one sequence of pages behind another.
LEMMA ElemsConcat ==
  ASSUME NEW s \in Seq(VA), NEW u \in Seq(VA)
  PROVE  /\ s \o u \in Seq(VA) /\ Elems(s \o u) = Elems(s) \cup Elems(u)
         /\ Len(s \o u) = Len(s) + Len(u)
         /\ \A i \in 1 .. Len(s) : (s \o u)[i] = s[i]
         /\ \A i \in 1 .. Len(u) : (s \o u)[Len(s) + i] = u[i]
  <1>1. /\ s \o u \in Seq(VA) /\ Len(s \o u) = Len(s) + Len(u)
        /\ \A i \in 1 .. Len(s) : (s \o u)[i] = s[i]
        /\ \A i \in 1 .. Len(u) : (s \o u)[Len(s) + i] = u[i]
        /\ Len(s) \in Nat /\ Len(u) \in Nat
        /\ DOMAIN s = 1 .. Len(s) /\ DOMAIN u = 1 .. Len(u)
        /\ DOMAIN (s \o u) = 1 .. Len(s) + Len(u)
    OBVIOUS
  <1> DEFINE w == s \o u
  <1> HIDE DEF w
  <1>2. ASSUME NEW i \in DOMAIN w PROVE w[i] \in Elems(s) \cup Elems(u)
    <2>1. CASE i \in 1 .. Len(s)
      BY <1>1, <2>1 DEF Elems, w
    <2>2. CASE i \notin 1 .. Len(s)
      <3>1. i - Len(s) \in 1 .. Len(u) /\ i = Len(s) + (i - Len(s))
        BY <1>1, <2>2 DEF w
      <3>2. w[i] = u[i - Len(s)]
        BY <1>1, <3>1 DEF w
      <3> QED
        BY <1>1, <3>1, <3>2 DEF Elems
    <2> QED
      BY <2>1, <2>2
  <1>3. ASSUME NEW i \in 1 .. Len(s) PROVE s[i] \in Elems(w)
    <2>1. i \in DOMAIN w /\ w[i] = s[i]
      BY <1>1 DEF w
    <2> QED
      BY <2>1 DEF Elems
  <1>4. ASSUME NEW i \in 1 .. Len(u) PROVE u[i] \in Elems(w)
    <2>1. Len(s) + i \in DOMAIN w /\ w[Len(s) + i] = u[i]
      BY <1>1 DEF w
    <2> QED
      BY <2>1 DEF Elems
  <1>5. Elems(w) = Elems(s) \cup Elems(u)
    BY <1>1, <1>2, <1>3, <1>4 DEF Elems
  <1> QED
    BY <1>1, <1>5 DEF w

\* What is said of a fresh slot, whoever it is for.
LEMMA NewSlot ==
  ASSUME AddrInv, op = Idle, NEW c \in Procs, ProcAlloc(c), op'.kind \in {"boot", "fork"},
         op' \in [kind : Kinds, p : Procs \cup {Nil}, c : Procs \cup {Nil},
                  root : Pages \cup {Nil}, todo : Seq(VA), nsz : 0 .. 2 * NVA]
  PROVE  /\ AddrTypeOK' /\ Apart' /\ Covered' /\ SatpLive' /\ Backed' /\ Exact'
         /\ pt'[c] \in Pages /\ Leaves(tab'[pt'[c]]) = {}
         /\ st'[c] = "used" /\ ~short'[c] /\ cur' = cur /\ satp' = satp
         /\ \A q \in Procs : q # c => st'[q] = st[q]
         /\ st[c] = "unused"
  <1>1. op.kind = "idle" /\ op'.kind # "exec"
    BY DEF Idle
  <1>2. /\ Apart' /\ Covered' /\ Active' = Active \cup {c} /\ c \notin Active
        /\ \A p \in Active : tab'[pt[p]] = tab[pt[p]] /\ pt'[p] = pt[p]
        /\ tf'[c] \in Pages /\ tf' = [tf EXCEPT ![c] = tf'[c]] /\ free' \subseteq free
        /\ \E r \in free : /\ pt' = [pt EXCEPT ![c] = r] /\ pt'[c] = r
                           /\ tab'[r] \in Tables /\ Leaves(tab'[r]) = {}
                           /\ tab' = [tab EXCEPT ![r] = tab'[r]]
    BY <1>1, NewSlotMem
  <1>3. PICK r \in free : /\ pt' = [pt EXCEPT ![c] = r] /\ pt'[c] = r
                          /\ tab'[r] \in Tables /\ Leaves(tab'[r]) = {}
                          /\ tab' = [tab EXCEPT ![r] = tab'[r]]
    BY <1>2
  <1>4. /\ st' = [st EXCEPT ![c] = "used"] /\ sz' = [sz EXCEPT ![c] = 0]
        /\ short' = [short EXCEPT ![c] = FALSE]
        /\ UNCHANGED <<parent, cur, satp, lost>>
    BY DEF ProcAlloc
  <1>5. r \in Pages /\ tab \in [Pages -> Tables]
    BY RootFacts
  <1>6. AddrTypeOK'
    <2>1. tab' \in [Pages -> Tables]
      BY <1>3, <1>5
    <2>2. sz' \in [Procs -> Breaks] /\ short' \in [Procs -> BOOLEAN]
      BY <1>4, PageNumbers DEF AddrInv, AddrTypeOK, Breaks
    <2>3. st' \in [Procs -> {"unused", "used", "ready", "zombie"}]
      BY <1>4 DEF AddrInv, AddrTypeOK
    <2>4. pt' \in [Procs -> Pages \cup {Nil}] /\ tf' \in [Procs -> Pages \cup {Nil}]
      BY <1>2, <1>3, <1>5 DEF AddrInv, AddrTypeOK
    <2>5. free' \subseteq Pages
      BY <1>2, RootFacts
    <2> QED
      BY <1>4, <2>1, <2>2, <2>3, <2>4, <2>5 DEF AddrInv, AddrTypeOK, Tables, Kinds
  <1>7. /\ \A q \in Procs : q # c => st'[q] = st[q] /\ sz'[q] = sz[q] /\ short'[q] = short[q]
        /\ st'[c] = "used" /\ ~short'[c] /\ st[c] = "unused"
    BY <1>2, <1>4 DEF AddrInv, AddrTypeOK, Active
  <1>8. SatpLive'
    <2>1. cur # Nil => cur \in Active
      BY DEF AddrInv, Control, Active, AddrTypeOK
    <2>2. satp # BootRoot => \E p \in Active : pt[p] = satp
      BY DEF AddrInv, SatpLive, Active
    <2>3. \A p \in Active : p \in Procs /\ st'[p] # "unused" /\ pt'[p] = pt[p]
      BY <1>2, <1>7 DEF Active
    <2> QED
      BY <1>4, <2>1, <2>2, <2>3 DEF AddrInv, SatpLive
  <1>9. \A q \in Procs : st'[q] = "ready" =>
          st[q] = "ready" /\ q # c /\ q \in Active /\ pt'[q] = pt[q] /\ tab'[pt'[q]] = tab[pt[q]]
    BY <1>2, <1>7 DEF Active
  <1>10. Backed'
    BY <1>7, <1>9 DEF AddrInv, Backed
  <1>11. Exact'
    BY <1>1, <1>7, <1>9 DEF AddrInv, Exact
  <1> QED
    BY <1>2, <1>3, <1>4, <1>5, <1>6, <1>7, <1>8, <1>10, <1>11

LEMMA BootStep == ASSUME AddrInv, Boot PROVE AddrInv'
  <1>1. /\ op = Idle /\ ProcAlloc(0) /\ op' = [Idle EXCEPT !.kind = "boot"]
        /\ \A p \in Procs : st[p] = "unused"
    BY DEF Boot
  <1>2. 0 \in Procs
    BY AddrAssumption DEF Procs
  <1>3. /\ op'.kind = "boot"
        /\ op' \in [kind : Kinds, p : Procs \cup {Nil}, c : Procs \cup {Nil},
                    root : Pages \cup {Nil}, todo : Seq(VA), nsz : 0 .. 2 * NVA]
    <2>1. op' = [kind |-> "boot", p |-> Nil, c |-> Nil, root |-> Nil, todo |-> <<>>, nsz |-> 0]
      BY <1>1 DEF Idle
    <2>2. 0 \in 0 .. 2 * NVA /\ <<>> \in Seq(VA) /\ "boot" \in Kinds
      BY PageNumbers DEF Kinds
    <2> QED
      BY ONLY <2>1, <2>2
  <1>4. /\ AddrTypeOK' /\ Apart' /\ Covered' /\ SatpLive' /\ Backed' /\ Exact'
        /\ st'[0] = "used" /\ cur' = cur /\ satp' = satp
    BY <1>1, <1>2, <1>3, NewSlot
  <1>5. cur = Nil /\ satp = BootRoot
    BY <1>1 DEF AddrInv, Control, SatpLive, AddrTypeOK
  <1>6. Control'
    BY <1>1, <1>3, <1>4, <1>5 DEF Control
  <1>7. Building'
    BY <1>3 DEF Building
  <1> QED
    BY <1>4, <1>6, <1>7 DEF AddrInv

LEMMA ForkStartStep ==
  ASSUME AddrInv, NEW p \in Procs, NEW c \in Procs, ForkStart(p, c) PROVE AddrInv'
  <1> DEFINE low   == Mapped(pt[p], 0 .. PgRoundUp(sz[p]) - 1)
             stack == Mapped(pt[p], StackBase .. NVA - 1)
             todo  == Ascending(low) \o Ascending(stack)
  <1>1. /\ op = Idle /\ cur = p /\ ProcAlloc(c)
        /\ op' = [kind |-> "fork", p |-> p, c |-> c, root |-> pt'[c], nsz |-> sz[p],
                  todo |-> todo]
    BY DEF ForkStart
  <1>2. sz[p] \in Breaks /\ Asked(sz[p]) \subseteq Leaves(tab[pt[p]]) /\ st[p] = "ready"
    BY <1>1, Running
  <1>3. low \cup stack = Asked(sz[p]) /\ low \subseteq VA /\ stack \subseteq VA
    <2>1. sz[p] \in 0 .. 2 * NVA
      BY <1>2, SizeFacts
    <2>2. Asked(sz[p]) \subseteq VA
      BY <2>1, AskedIn
    <2> QED
      BY <1>2, <2>2 DEF Mapped, Asked, Leaves
  <1> HIDE DEF low, stack
  <1>4. todo \in Seq(VA) /\ Elems(todo) = Asked(sz[p])
    <2>1. /\ Ascending(low) \in Seq(VA) /\ Elems(Ascending(low)) = low
          /\ Ascending(stack) \in Seq(VA) /\ Elems(Ascending(stack)) = stack
      BY <1>3, AscendingFacts DEF Elems
    <2> QED
      BY <1>3, <2>1, ElemsConcat
  <1> HIDE DEF todo
  <1>5. pt'[c] \in Pages \cup {Nil}
    <2>1. \E r \in free : pt' = [pt EXCEPT ![c] = r]
      <3>1. op.kind # "exec" /\ op'.kind # "exec"
        BY <1>1 DEF Idle
      <3> QED
        BY <1>1, <3>1, NewSlotMem
    <2> QED
      BY <2>1 DEF AddrInv, AddrTypeOK
  <1>6. /\ op'.kind = "fork" /\ op'.p = p /\ op'.c = c /\ op'.root = pt'[c]
        /\ op'.nsz = sz[p] /\ op'.todo = todo
        /\ op' \in [kind : Kinds, p : Procs \cup {Nil}, c : Procs \cup {Nil},
                    root : Pages \cup {Nil}, todo : Seq(VA), nsz : 0 .. 2 * NVA]
    BY <1>1, <1>2, <1>4, <1>5, SizeFacts DEF Kinds
  <1>7. /\ AddrTypeOK' /\ Apart' /\ Covered' /\ SatpLive' /\ Backed' /\ Exact'
        /\ pt'[c] \in Pages /\ Leaves(tab'[pt'[c]]) = {}
        /\ st'[c] = "used" /\ ~short'[c] /\ cur' = cur /\ satp' = satp
        /\ \A q \in Procs : q # c => st'[q] = st[q]
        /\ st[c] = "unused"
    BY <1>1, <1>6, NewSlot
  <1>8. Control'
    <2>1. st'[p] = "ready"
      BY <1>2, <1>7
    <2> QED
      BY <1>1, <1>2, <1>6, <1>7, <2>1 DEF Control
  <1>9. Building'
    BY <1>4, <1>6, <1>7 DEF Building, Rest
  <1> QED
    BY <1>7, <1>8, <1>9 DEF AddrInv

\* The end of an image, which has no holes.
LEMMA ImageFacts ==
  ASSUME NEW img \in Images
  PROVE  /\ img \in Seq(VA) /\ ImageEnd(img) \in 0 .. NVA
         /\ Elems(img) = 0 .. ImageEnd(img) - 1
  <1>1. img \in Seq(VA)
    BY AddrAssumption
  <1>2. PICK n \in 1 .. NVA : Elems(img) = 0 .. n - 1
    BY AddrAssumption DEF Elems
  <1> DEFINE End(m) == /\ \A i \in DOMAIN img : img[i] < m
                       /\ m = 0 \/ \E i \in DOMAIN img : img[i] = m - 1
  <1>3. n \in 0 .. NVA /\ n \in Nat /\ n # 0 /\ NVA \in Nat
    BY PageNumbers
  <1>4. End(n)
    <2>1. \A i \in DOMAIN img : img[i] \in 0 .. n - 1
      BY <1>2 DEF Elems
    <2>2. n - 1 \in Elems(img)
      BY <1>2, <1>3
    <2> QED
      BY <1>3, <2>1, <2>2 DEF Elems
  <1>5. ImageEnd(img) \in 0 .. NVA /\ End(ImageEnd(img))
    <2>1. ImageEnd(img) = CHOOSE m \in 0 .. NVA : End(m)
      BY DEF ImageEnd
    <2> HIDE DEF End
    <2> QED
      BY <1>3, <1>4, <2>1
  <1> DEFINE e == ImageEnd(img)
  <1> HIDE DEF e
  <1>6. e \in 0 .. NVA /\ End(e)
    BY <1>5 DEF e
  <1>7. e = n
    <2>1. n - 1 < e
      <3>1. n - 1 \in Elems(img)
        BY <1>2, <1>3
      <3> QED
        BY <1>6, <3>1 DEF Elems
    <2>2. e = 0 \/ e - 1 \in 0 .. n - 1
      BY <1>2, <1>6 DEF Elems
    <2> QED
      BY <1>3, <1>6, <2>1, <2>2
  <1> QED
    BY <1>1, <1>2, <1>5, <1>7 DEF e
LEMMA ExecStartStep ==
  ASSUME AddrInv, NEW p \in Procs, NEW img \in Images, ExecStart(p, img) PROVE AddrInv'
  <1> DEFINE n     == ImageEnd(img)
             stack == StackBase .. NVA - 1
             todo  == img \o Ascending(stack)
             r     == op'.root
  <1>1. /\ \/ op = Idle /\ cur = p
           \/ op.kind = "boot" /\ p = 0
        /\ op' = [kind |-> "exec", p |-> p, c |-> Nil, root |-> Kalloc(free), nsz |-> 2 * n,
                  todo |-> todo]
        /\ UNCHANGED <<st, pt, tf, sz, parent, cur, satp, lost, short>>
    BY DEF ExecStart, procVars
  <1>2. op.kind \in {"idle", "boot"}
    BY <1>1 DEF Idle
  <1>3. /\ img \in Seq(VA) /\ n \in 0 .. NVA /\ Elems(img) = 0 .. n - 1
    BY ImageFacts
  <1>4. /\ stack \subseteq VA /\ Cardinality(stack) = NVA - StackBase
        /\ StackBase \in stack /\ (\A x \in stack : StackBase <= x)
        /\ NVA \in Nat /\ StackBase \in 1 .. NVA - 1
    <2>1. NVA \in Nat /\ StackBase \in 1 .. NVA - 1
      BY PageNumbers
    <2>2. stack \subseteq VA /\ StackBase \in stack /\ \A x \in stack : StackBase <= x
      BY <2>1 DEF VA
    <2>3. Cardinality(stack) = NVA - StackBase
      BY <2>1, FS_Interval
    <2> QED
      BY <2>1, <2>2, <2>3
  <1> HIDE DEF stack, n
  <1>5. /\ Ascending(stack) \in Seq(VA) /\ Elems(Ascending(stack)) = stack
        /\ Len(Ascending(stack)) = NVA - StackBase /\ Ascending(stack)[1] = StackBase
    BY <1>4, AscendingFacts DEF Elems
  <1>6. /\ todo \in Seq(VA) /\ Elems(todo) = (0 .. n - 1) \cup stack
        /\ Len(todo) = Len(img) + (NVA - StackBase)
        /\ \A i \in 1 .. Len(img) : todo[i] = img[i]
        /\ todo[Len(img) + 1] = StackBase
        /\ Len(img) \in Nat
    <2>1. /\ todo \in Seq(VA) /\ Elems(todo) = Elems(img) \cup Elems(Ascending(stack))
          /\ Len(todo) = Len(img) + Len(Ascending(stack))
          /\ \A i \in 1 .. Len(img) : todo[i] = img[i]
          /\ \A i \in 1 .. Len(Ascending(stack)) : todo[Len(img) + i] = Ascending(stack)[i]
      BY <1>3, <1>5, ElemsConcat
    <2>2. 1 \in 1 .. Len(Ascending(stack))
      BY <1>4, <1>5
    <2> HIDE DEF todo
    <2>3. Len(img) \in Nat
      BY <1>3
    <2> QED
      BY <1>3, <1>5, <2>1, <2>2, <2>3
  <1> HIDE DEF todo
  <1>7. 2 * n \in 0 .. 2 * NVA /\ Asked(2 * n) = Elems(todo)
    <2>1. n \in Nat /\ PgRoundUp(2 * n) = n
      BY <1>3, <1>4, SizeFacts
    <2>2. 2 * n \in 0 .. 2 * NVA
      BY <1>3, <1>4
    <2> QED
      BY <1>6, <2>1, <2>2 DEF Asked, stack
  <1>8. /\ op'.kind = "exec" /\ op'.p = p /\ op'.nsz = 2 * n /\ op'.todo = todo
    BY <1>1
  <1>9. /\ Apart' /\ Covered' /\ r \in free /\ tab'[r] \in Tables /\ Leaves(tab'[r]) = {}
        /\ tab' = [tab EXCEPT ![r] = tab'[r]]
        /\ \A q \in Active : tab'[pt[q]] = tab[pt[q]]
        /\ free' \subseteq free
    BY <1>2, <1>8, NewExecMem
  <1>10. r \in Pages /\ tab \in [Pages -> Tables] /\ free \subseteq Pages
    BY <1>9, RootFacts
  <1>11. op' \in [kind : Kinds, p : Procs \cup {Nil}, c : Procs \cup {Nil},
                  root : Pages \cup {Nil}, todo : Seq(VA), nsz : 0 .. 2 * NVA]
    <2>1. Kalloc(free) \in Pages
      BY <1>1, <1>10
    <2>2. "exec" \in Kinds
      BY DEF Kinds
    <2> QED
      BY <1>1, <1>6, <1>7, <2>1, <2>2
  <1>12. AddrTypeOK'
    <2>1. tab' \in [Pages -> Tables]
      BY <1>9, <1>10
    <2> QED
      BY <1>1, <1>9, <1>10, <1>11, <2>1 DEF AddrInv, AddrTypeOK, Tables, Kinds
  <1>13. Control'
    <2>1. CASE op = Idle /\ cur = p
      <3>1. st[p] = "ready"
        BY <2>1, Running
      <3> QED
        BY <1>1, <1>8, <1>11, <2>1, <3>1 DEF AddrInv, Control
    <2>2. CASE op.kind = "boot" /\ p = 0
      <3>1. st[p] = "used" /\ satp = BootRoot /\ cur = Nil
        BY <2>2 DEF AddrInv, Control
      <3> QED
        BY <1>1, <1>8, <1>11, <3>1 DEF Control
    <2> QED
      BY <1>1, <2>1, <2>2
  <1>14. SatpLive'
    BY <1>1 DEF AddrInv, SatpLive
  <1>15. \A q \in Procs : st[q] = "ready" => tab'[pt[q]] = tab[pt[q]]
    BY <1>9 DEF Active
  <1>16. Backed' /\ Exact'
    <2>1. op.kind # "brk"
      BY <1>2
    <2> QED
      BY <1>1, <1>8, <1>15, <2>1 DEF AddrInv, Backed, Exact
  <1>17. Building'
    <2>1. Leaves(tab'[op'.root]) \cup Rest' = Asked(op'.nsz)
      BY <1>7, <1>8, <1>9 DEF Rest
    <2>2. ASSUME op'.nsz > 2 * StackBase
          PROVE  LET m == Len(op'.todo) - (NVA - StackBase) IN
                 /\ m >= 0 /\ op'.todo[m + 1] = StackBase
                 /\ \E i \in 1 .. m : op'.todo[i] = StackBase
      <3>1. Len(op'.todo) - (NVA - StackBase) = Len(img)
        BY <1>4, <1>6, <1>8
      <3>2. StackBase \in Elems(img)
        BY <1>3, <1>4, <1>8, <2>2
      <3>3. PICK i \in 1 .. Len(img) : img[i] = StackBase
        BY <1>3, <3>2 DEF Elems
      <3>4. op'.todo[i] = StackBase
        BY <1>6, <1>8, <3>3
      <3> QED
        BY <1>6, <1>8, <3>1, <3>4
    <2> QED
      BY <1>8, <2>1, <2>2 DEF Building
  <1> QED
    BY <1>9, <1>12, <1>13, <1>14, <1>16, <1>17 DEF AddrInv

\* A slot whose pages and trapframe go back: a child that could not be
\* copied, or a zombie that was waited for.
LEMMA SlotFreed ==
  ASSUME AddrInv, NEW c \in Procs, c \in Active, c # cur, cur # Nil, op.kind # "exec",
         free' = free \cup TablePages(pt[c]) \cup {tf[c]}, UvmFree(pt[c]),
         st' = [st EXCEPT ![c] = "unused"], pt' = [pt EXCEPT ![c] = Nil],
         tf' = [tf EXCEPT ![c] = Nil], op' = Idle, op.kind # "brk",
         parent' \in [Procs -> Procs \cup {Nil}],
         UNCHANGED <<sz, cur, satp, lost, short>>
  PROVE  AddrInv'
  <1> DEFINE r == pt[c]
  <1>1. /\ op'.kind = "idle" /\ op'.p = Nil /\ op'.c = Nil /\ op'.root = Nil
        /\ op'.todo = <<>> /\ op'.nsz = 0 /\ op' = [Idle EXCEPT !.kind = op'.kind]
        /\ op' \in [kind : Kinds, p : Procs \cup {Nil}, c : Procs \cup {Nil},
                    root : Pages \cup {Nil}, todo : Seq(VA), nsz : 0 .. 2 * NVA]
        /\ 0 \in 0 .. 2 * NVA
    BY IdleFacts
  <1>2. \A q \in Procs : /\ st'[q] = IF q = c THEN "unused" ELSE st[q]
                         /\ q # c => pt'[q] = pt[q] /\ tf'[q] = tf[q]
    BY DEF AddrInv, AddrTypeOK
  <1>3. Active' = Active \ {c}
    BY <1>2 DEF Active
  <1>4. r \in Roots /\ Roots = {pt[q] : q \in Active}
        /\ \A p, q \in Active : pt[p] = pt[q] => p = q
    BY RootFacts DEF AddrInv, Apart
  <1>5. Roots' = Roots \ {r}
    <2>1. Roots' = {pt'[q] : q \in Active'}
      BY <1>1 DEF Roots, Active
    <2>2. \A q \in Active' : q \in Active /\ q # c /\ pt'[q] = pt[q]
      BY <1>2, <1>3 DEF Active
    <2> QED
      BY <1>3, <1>4, <2>1, <2>2
  <1>6. \A q \in Active' : q \in Active /\ q # c /\ pt'[q] = pt[q] /\ tf'[q] = tf[q] /\ pt[q] \in Roots'
    BY <1>2, <1>3, <1>4, <1>5 DEF Active
  <1>7. /\ tab' = [tab EXCEPT ![r] = NoTable]
        /\ free' = (free \ {}) \cup Tree(r, tab[r]) \cup {tf[q] : q \in Active \ Active'}
        /\ lost' = lost \cup {}
    BY <1>3, SameSets DEF UvmFree
  <1>8. /\ Apart' /\ Covered' /\ \A s \in Roots' : tab'[s] = tab[s]
        /\ free' \subseteq Pages /\ lost' \subseteq Pages /\ tab' \in [Pages -> Tables]
    <2>1. {} \in SUBSET free /\ Active' \subseteq Active /\ op'.kind # "exec"
      BY <1>1, <1>3
    <2>2. /\ \A q \in Active' : tf'[q] = tf[q] /\ pt'[q] \in Roots'
          /\ \A p, q \in Active' : pt'[p] = pt'[q] => p = q
      BY <1>4, <1>6
    <2> HIDE DEF r
    <2> QED
      BY ONLY AddrInv, <1>4, <1>5, <1>7, <2>1, <2>2, DropMem
  <1>9. AddrTypeOK'
    <2>1. /\ st' \in [Procs -> {"unused", "used", "ready", "zombie"}]
          /\ pt' \in [Procs -> Pages \cup {Nil}] /\ tf' \in [Procs -> Pages \cup {Nil}]
      BY DEF AddrInv, AddrTypeOK
    <2> QED
      BY <1>1, <1>8, <2>1 DEF AddrInv, AddrTypeOK, Tables
  <1>10. Control'
    <2>1. cur \in Procs /\ st'[cur] = "ready"
      BY <1>2 DEF AddrInv, AddrTypeOK, Control
    <2> QED
      BY <1>1, <2>1 DEF Control
  <1>11. SatpLive'
    <2>1. cur \in Procs /\ st'[cur] = "ready" /\ pt'[cur] = pt[cur] /\ satp = pt[cur]
      BY <1>2 DEF AddrInv, AddrTypeOK, Control, SatpLive
    <2> QED
      BY <2>1 DEF SatpLive
  <1>12. \A q \in Procs : st'[q] = "ready" =>
           st[q] = "ready" /\ pt'[q] = pt[q] /\ tab'[pt'[q]] = tab[pt[q]]
    BY <1>2, <1>6, <1>8 DEF Active
  <1>13. Backed' /\ Exact'
    BY <1>12 DEF AddrInv, Backed, Exact
  <1>14. Building'
    BY <1>1 DEF Building
  <1> QED
    BY <1>8, <1>9, <1>10, <1>11, <1>13, <1>14 DEF AddrInv

LEMMA ForkFailStep == ASSUME AddrInv, ForkFail PROVE AddrInv'
  <1> DEFINE c == op.c
  <1>1. /\ op.kind = "fork" /\ op' = Idle
        /\ free' = free \cup TablePages(op.root) \cup {tf[c]} /\ UvmFree(op.root)
        /\ st' = [st EXCEPT ![c] = "unused"] /\ pt' = [pt EXCEPT ![c] = Nil]
        /\ tf' = [tf EXCEPT ![c] = Nil]
        /\ UNCHANGED <<sz, parent, cur, satp, lost, short>>
    BY DEF ForkFail
  <1>2. c \in Procs /\ c \in Active /\ c # cur /\ cur # Nil /\ op.root = pt[c]
    BY <1>1, ProcNotNull DEF AddrInv, Control, Active
  <1>3. parent' \in [Procs -> Procs \cup {Nil}]
    BY <1>1 DEF AddrInv, AddrTypeOK
  <1>4. free' = free \cup TablePages(pt[c]) \cup {tf[c]} /\ UvmFree(pt[c])
    BY <1>1, <1>2
  <1> HIDE DEF c
  <1> QED
    BY <1>1, <1>2, <1>3, <1>4, SlotFreed

LEMMA ReapStep == ASSUME AddrInv, NEW p \in Procs, NEW c \in Procs, Reap(p, c) PROVE AddrInv'
  <1>1. /\ op = Idle /\ cur = p /\ st[c] = "zombie" /\ op' = Idle
        /\ free' = free \cup TablePages(pt[c]) \cup {tf[c]} /\ UvmFree(pt[c])
        /\ st' = [st EXCEPT ![c] = "unused"] /\ pt' = [pt EXCEPT ![c] = Nil]
        /\ tf' = [tf EXCEPT ![c] = Nil] /\ parent' = [parent EXCEPT ![c] = Nil]
        /\ UNCHANGED <<sz, cur, satp, lost, short>>
    BY DEF Reap, Reapable
  <1>2. c \in Active /\ c # cur /\ cur # Nil
    BY <1>1, Running, ProcNotNull DEF Active
  <1>3. op.kind # "exec" /\ op.kind # "brk"
    BY <1>1 DEF Idle
  <1>4. parent' \in [Procs -> Procs \cup {Nil}]
    BY <1>1 DEF AddrInv, AddrTypeOK
  <1> QED
    BY <1>1, <1>2, <1>3, <1>4, SlotFreed
LEMMA ExecUndoStep ==
  ASSUME AddrInv, NEW dropped \in SUBSET free, ExecUndo(dropped) PROVE AddrInv'
  <1> DEFINE r == op.root
  <1>1. /\ op.kind = "exec" /\ free' = (free \ dropped) \cup TablePages(r)
        /\ lost' = lost \cup dropped /\ UvmFree(r)
        /\ op' = IF cur = op.p THEN Idle ELSE [Idle EXCEPT !.kind = "halt"]
        /\ UNCHANGED <<st, pt, tf, sz, parent, cur, satp, short>>
    BY DEF ExecUndo, procVars
  <1>2. /\ op' = [Idle EXCEPT !.kind = op'.kind] /\ op'.kind \in {"idle", "halt"}
        /\ op'.p = Nil /\ op'.c = Nil /\ op'.root = Nil /\ op'.todo = <<>> /\ op'.nsz = 0
        /\ op'.kind = "halt" => cur # op.p
    BY <1>1 DEF Idle
  <1>3. op' \in [kind : Kinds, p : Procs \cup {Nil}, c : Procs \cup {Nil},
                 root : Pages \cup {Nil}, todo : Seq(VA), nsz : 0 .. 2 * NVA]
    <2>1. PICK k \in {"idle", "halt"} : op' = [Idle EXCEPT !.kind = k]
      BY <1>2
    <2>2. op' = [kind |-> k, p |-> Nil, c |-> Nil, root |-> Nil, todo |-> <<>>, nsz |-> 0]
      BY <2>1 DEF Idle
    <2>3. k \in Kinds /\ 0 \in 0 .. 2 * NVA /\ <<>> \in Seq(VA)
      BY PageNumbers DEF Kinds
    <2> QED
      BY ONLY <2>2, <2>3
  <1>4. Active' = Active
    BY <1>1 DEF Active
  <1>5. r \in Roots /\ Roots' = Roots \ {r}
    <2>1. Roots = {pt[q] : q \in Active} \cup {r} /\ Roots' = {pt[q] : q \in Active}
      BY <1>1, <1>2, <1>4 DEF Roots, Active
    <2>2. \A q \in Active : pt[q] # r
      BY <1>1 DEF AddrInv, Apart
    <2> QED
      BY <2>1, <2>2
  <1>6. /\ Apart' /\ Covered' /\ \A s \in Roots' : tab'[s] = tab[s]
        /\ free' \subseteq Pages /\ lost' \subseteq Pages /\ tab' \in [Pages -> Tables]
    <2>1. /\ tab' = [tab EXCEPT ![r] = NoTable] /\ lost' = lost \cup dropped
          /\ free' = (free \ dropped) \cup Tree(r, tab[r]) \cup {tf[q] : q \in Active \ Active'}
      BY <1>1, <1>4, SameSets DEF UvmFree
    <2>2. Active' \subseteq Active /\ op'.kind # "exec"
      BY <1>2, <1>4
    <2>3. /\ \A q \in Active' : tf'[q] = tf[q] /\ pt'[q] \in Roots'
          /\ \A p, q \in Active' : pt'[p] = pt'[q] => p = q
      BY <1>1, <1>2, <1>4 DEF AddrInv, Apart, Roots, Active
    <2> HIDE DEF r
    <2> QED
      BY ONLY AddrInv, <1>5, <2>1, <2>2, <2>3, DropMem
  <1>7. AddrTypeOK'
    <2>1. op'.kind \in {"idle", "boot", "halt", "fork", "exec", "brk"} /\ 0 \in 0 .. 2 * NVA
          /\ <<>> \in Seq(VA)
      BY <1>2, PageNumbers
    <2> QED
      BY <1>1, <1>2, <1>6, <2>1 DEF AddrInv, AddrTypeOK, Tables
  <1>8. Control'
    <2>1. op'.kind = "halt" => cur = Nil
      BY <1>1, <1>2 DEF AddrInv, Control
    <2> QED
      BY <1>1, <1>2, <1>3, <2>1 DEF AddrInv, Control
  <1>9. SatpLive' /\ Building'
    BY <1>1, <1>2 DEF AddrInv, SatpLive, Building
  <1>10. \A q \in Procs : st[q] = "ready" => tab'[pt[q]] = tab[pt[q]]
    BY <1>1, <1>2, <1>6 DEF Roots
  <1>11. Backed' /\ Exact'
    BY <1>1, <1>10 DEF AddrInv, Backed, Exact
  <1> QED
    BY <1>6, <1>7, <1>8, <1>9, <1>11 DEF AddrInv

LEMMA ExecDoneStep == ASSUME AddrInv, ExecDone PROVE AddrInv'
  <1> DEFINE p == op.p
             r == op.root
             old == pt[p]
  <1>1. /\ op.kind = "exec" /\ op.todo = <<>> /\ op' = Idle
        /\ pt' = [pt EXCEPT ![p] = r] /\ sz' = [sz EXCEPT ![p] = op.nsz]
        /\ short' = [short EXCEPT ![p] = FALSE] /\ st' = [st EXCEPT ![p] = "ready"]
        /\ satp' = (IF cur = p THEN r ELSE satp)
        /\ free' = free \cup TablePages(old) /\ UvmFree(old)
        /\ UNCHANGED <<tf, parent, cur, lost>>
    BY DEF ExecDone, ExecSatp
  <1>2. /\ op'.kind = "idle" /\ op'.p = Nil /\ op'.c = Nil /\ op'.root = Nil
        /\ op'.todo = <<>> /\ op'.nsz = 0 /\ op' = [Idle EXCEPT !.kind = op'.kind]
        /\ op' \in [kind : Kinds, p : Procs \cup {Nil}, c : Procs \cup {Nil},
                    root : Pages \cup {Nil}, todo : Seq(VA), nsz : 0 .. 2 * NVA]
        /\ 0 \in 0 .. 2 * NVA
    BY <1>1, IdleFacts
  <1>3. /\ p \in Procs /\ st[p] \in {"used", "ready"} /\ p \in Active
        /\ cur = p \/ (cur = Nil /\ satp = BootRoot)
    BY <1>1 DEF AddrInv, Control, Active
  <1>4. r \in Pages /\ r \in Roots /\ \A q \in Active : pt[q] # r
    BY <1>1, RootFacts DEF AddrInv, Apart
  \* An image that reaches the stack has met a page that is mapped.
  <1>5. op.nsz \in Breaks
    <2>1. ~(op.nsz > 2 * StackBase)
      <3> SUFFICES ASSUME op.nsz > 2 * StackBase PROVE FALSE
        OBVIOUS
      <3>1. Len(op.todo) - (NVA - StackBase) >= 0
        BY <1>1 DEF AddrInv, Building
      <3>2. Len(op.todo) = 0
        BY <1>1
      <3> QED
        BY <3>1, <3>2, PageNumbers
    <2>2. op.nsz \in 0 .. 2 * NVA
      BY DEF AddrInv, AddrTypeOK
    <2> QED
      BY <2>1, <2>2, PageNumbers DEF Breaks
  <1>6. Leaves(tab[r]) = Asked(op.nsz)
    <2>1. Rest = {}
      BY <1>1 DEF Rest, Elems
    <2> QED
      BY <1>1, <2>1 DEF AddrInv, Building
  <1> HIDE DEF p, r
  <1>7. \A q \in Procs : /\ st'[q] = IF q = p THEN "ready" ELSE st[q]
                         /\ pt'[q] = IF q = p THEN r ELSE pt[q]
                         /\ sz'[q] = IF q = p THEN op.nsz ELSE sz[q]
                         /\ short'[q] = IF q = p THEN FALSE ELSE short[q]
    BY <1>1 DEF AddrInv, AddrTypeOK
  <1>8. Active' = Active
    BY <1>3, <1>7 DEF Active
  <1>9. old \in Roots /\ Roots' = Roots \ {old}
    <2>1. Roots = {pt[q] : q \in Active} \cup {r} /\ Roots' = {pt'[q] : q \in Active'}
      BY <1>1, <1>2 DEF Roots, Active, r
    <2>2. \A q \in Active : /\ pt'[q] = IF q = p THEN r ELSE pt[q]
                            /\ q # p => pt[q] # old
      BY <1>3, <1>7 DEF AddrInv, Apart, Active
    <2>3. old # r /\ old \in {pt[q] : q \in Active}
      BY <1>3, <1>4
    <2> HIDE DEF old
    <2>4. \A x : x \in {pt'[q] : q \in Active} <=> (x = r \/ \E q \in Active : q # p /\ pt[q] = x)
      BY <1>3, <2>2
    <2>5. \A q \in Active : q = p => pt[q] = old
      BY DEF old
    <2> QED
      BY <1>8, <2>1, <2>2, <2>3, <2>4, <2>5
  <1>10. /\ Apart' /\ Covered' /\ (\A s \in Roots' : tab'[s] = tab[s])
         /\ free' \subseteq Pages /\ lost' \subseteq Pages /\ tab' \in [Pages -> Tables]
    <2>1. /\ tab' = [tab EXCEPT ![old] = NoTable] /\ lost' = lost \cup {}
          /\ free' = (free \ {}) \cup Tree(old, tab[old]) \cup {tf[q] : q \in Active \ Active'}
      BY <1>1, <1>8, SameSets DEF UvmFree
    <2>2. Active' \subseteq Active /\ op'.kind # "exec" /\ {} \in SUBSET free
      BY <1>2, <1>8
    <2>3. \A q \in Active' : tf'[q] = tf[q] /\ pt'[q] \in Roots'
      BY <1>1, <1>2 DEF Roots, Active
    <2>4. \A a, q \in Active' : pt'[a] = pt'[q] => a = q
      BY <1>4, <1>7, <1>8 DEF AddrInv, Apart, Active
    <2> HIDE DEF old
    <2> QED
      BY ONLY AddrInv, <1>9, <2>1, <2>2, <2>3, <2>4, DropMem
  <1>11. AddrTypeOK'
    <2>1. /\ st' \in [Procs -> {"unused", "used", "ready", "zombie"}]
          /\ pt' \in [Procs -> Pages \cup {Nil}] /\ sz' \in [Procs -> Breaks]
          /\ short' \in [Procs -> BOOLEAN]
      BY <1>1, <1>4, <1>5 DEF AddrInv, AddrTypeOK
    <2>2. satp' \in Pages \cup {BootRoot}
      BY <1>1, <1>4 DEF AddrInv, AddrTypeOK
    <2> QED
      BY <1>1, <1>2, <1>10, <2>1, <2>2 DEF AddrInv, AddrTypeOK, Tables
  <1>12. Control'
    BY <1>1, <1>2, <1>3, <1>7, ProcNotNull DEF Control
  <1>13. SatpLive'
    <2>1. CASE cur = p
      <3>1. satp' = pt'[p] /\ cur' = p /\ st'[p] # "unused"
        <4>1. satp' = r /\ cur' = cur
          BY <1>1, <2>1
        <4>2. pt'[p] = r /\ st'[p] = "ready"
          BY <1>3, <1>7
        <4> QED
          BY <2>1, <4>1, <4>2
      <3> QED
        BY <1>3, <3>1 DEF SatpLive
    <2>2. CASE cur = Nil /\ satp = BootRoot
      <3>1. satp' = BootRoot /\ cur' = Nil
        BY <1>1, <1>3, <2>2, ProcNotNull
      <3> QED
        BY <3>1 DEF SatpLive
    <2> QED
      BY <1>3, <2>1, <2>2
  <1>14. \A q \in Procs : st'[q] = "ready" => tab'[pt'[q]] = tab[pt'[q]]
    BY <1>2, <1>10 DEF Roots
  <1>15. Backed' /\ Exact'
    <2>1. ASSUME NEW q \in Procs, st'[q] = "ready"
          PROVE  /\ Asked(sz'[q]) \subseteq Leaves(tab'[pt'[q]])
                 /\ ~short'[q] => Leaves(tab'[pt'[q]]) \subseteq Asked(sz'[q])
      <3>1. CASE q = p
        BY <1>6, <1>7, <1>14, <2>1, <3>1
      <3>2. CASE q # p
        BY <1>1, <1>7, <1>14, <2>1, <3>2 DEF AddrInv, Backed, Exact
      <3> QED
        BY <3>1, <3>2
    <2> QED
      BY <2>1 DEF Backed, Exact
  <1>16. Building'
    BY <1>2 DEF Building
  <1> QED
    BY <1>10, <1>11, <1>12, <1>13, <1>15, <1>16 DEF AddrInv

LEMMA AddrNext == AddrInv /\ [AsNext]_asvars => AddrInv'
  <1> SUFFICES ASSUME AddrInv, [AsNext]_asvars PROVE AddrInv'
    OBVIOUS
  <1>1. CASE UNCHANGED asvars
    BY <1>1, StutterStep
  <1>2. CASE Boot
    BY <1>2, BootStep
  <1>3. ASSUME NEW p \in Procs, NEW c \in Procs, ForkStart(p, c) \/ Reap(p, c) PROVE AddrInv'
    BY <1>3, ForkStartStep, ReapStep
  <1>4. ASSUME NEW p \in Procs, NEW img \in Images, ExecStart(p, img) PROVE AddrInv'
    BY <1>4, ExecStartStep
  <1>5. ASSUME NEW p \in Procs, NEW new \in Breaks, BrkGrow(p, new) \/ BrkShrink(p, new)
        PROVE  AddrInv'
    BY <1>5, BrkGrowStep, BrkShrinkStep
  <1>6. ASSUME NEW p \in Procs, Exit(p) \/ Yield(p) \/ Dispatch(p) PROVE AddrInv'
    BY <1>6, ExitStep, YieldStep, DispatchStep
  <1>7. CASE MapNext
    BY <1>7, MapNextStep
  <1>8. CASE ForkFail \/ ForkDone
    BY <1>8, ForkFailStep, ForkDoneStep
  <1>9. CASE ExecFail
    BY <1>9, ExecUndoStep DEF ExecFail
  <1>10. CASE ExecNoStack
    <2>1. (IF free = {} THEN {} ELSE {Kalloc(free)}) \in SUBSET free
      BY KallocIn
    <2> QED
      BY <1>10, <2>1, ExecUndoStep DEF ExecNoStack
  <1>11. CASE ExecDone
    BY <1>11, ExecDoneStep
  <1>12. CASE BrkFail \/ BrkDone
    BY <1>12, BrkEndStep
  <1> QED
    BY <1>1, <1>2, <1>3, <1>4, <1>5, <1>6, <1>7, <1>8, <1>9, <1>10, <1>11, <1>12 DEF AsNext
-----------------------------------------------------------------------------
(* The theorems *)

\* The inductive invariant holds, whatever fork, exec, brk, exit and wait4 do
\* and at whatever page memory runs out.
THEOREM AddrCorrect == AsSpec => []AddrInv
  BY AddrInit, AddrNext, PTL DEF AsSpec

\* The hart never translates with a page table that has been freed: exec
\* switches before it frees, and exit and wait4 leave the table in use alone
\* (proc.c, exec in syscall.c).
THEOREM SatpCorrect == AsSpec => []SatpLive
  <1>1. AddrInv => SatpLive
    BY DEF AddrInv
  <1> QED
    BY <1>1, AddrCorrect, PTL

\* A process that can run has the pages below its break and its stack, and
\* unless a brk of its own has failed it has no others (elf_load, uvm_copy,
\* sys_brk), wherever a kalloc fails.
THEOREM SpaceCorrect == AsSpec => []SpaceSound
  <1>1. AddrInv => SpaceSound
    <2> SUFFICES ASSUME AddrInv PROVE SpaceSound
      OBVIOUS
    <2>1. SpaceBacked
      BY SameSets DEF AddrInv, Backed, SpaceBacked
    <2>2. SpaceExact
      BY SameSets DEF AddrInv, Exact, SpaceExact
    <2> QED
      BY <2>1, <2>2 DEF AddrInv, SpaceSound
  <1> QED
    BY <1>1, AddrCorrect, PTL

\* The entries of Owners, for a page of the free list, a lost page, a
\* trapframe and a page of a table.
LEMMA OwnersFacts ==
  ASSUME AddrInv, NEW pg \in Pages
  PROVE  \A o : o \in Owners(pg) <=>
           \/ o = <<"free">> /\ pg \in free
           \/ o = <<"lost">> /\ pg \in lost
           \/ \E p \in Active : o = <<"tf", p>> /\ tf[p] = pg
           \/ \E p \in Active : o = <<"root", p>> /\ pt[p] = pg
           \/ o = <<"new">> /\ op.kind = "exec" /\ op.root = pg
           \/ \E r \in Roots : o = <<"l1", r>> /\ tab[r].l1 = pg
           \/ \E r \in Roots, k \in Regions : o = <<"l0", <<r, k>>>> /\ tab[r].l0[k] = pg
           \/ \E r \in Roots, v \in VA : o = <<"leaf", <<r, v>>>> /\ tab[r].leaf[v] = pg
  <1> DEFINE A == {<<"free">> : x \in {pg} \cap free}
             B == {<<"lost">> : x \in {pg} \cap lost}
             C == {<<"tf", p>> : p \in {q \in Procs : st[q] # "unused" /\ tf[q] = pg}}
             D == {<<"root", p>> : p \in {q \in Procs : st[q] # "unused" /\ pt[q] = pg}}
             E == {<<"new">> : x \in {y \in {op.root} : op.kind = "exec" /\ y = pg}}
             F == UNION {InTable(r, pg) : r \in Roots}
  <1>1. Owners(pg) = A \cup B \cup C \cup D \cup E \cup F
    BY DEF Owners
  <1>2. \A o : o \in A <=> o = <<"free">> /\ pg \in free
    OBVIOUS
  <1>3. \A o : o \in B <=> o = <<"lost">> /\ pg \in lost
    OBVIOUS
  <1>4. \A o : o \in C <=> \E p \in Active : o = <<"tf", p>> /\ tf[p] = pg
    BY DEF Active
  <1>5. \A o : o \in D <=> \E p \in Active : o = <<"root", p>> /\ pt[p] = pg
    BY DEF Active
  <1>6. \A o : o \in E <=> o = <<"new">> /\ op.kind = "exec" /\ op.root = pg
    OBVIOUS
  <1>7. ASSUME NEW r \in Roots
        PROVE  \A o : o \in InTable(r, pg) <=>
                 \/ o = <<"l1", r>> /\ tab[r].l1 = pg
                 \/ \E k \in Regions : o = <<"l0", <<r, k>>>> /\ tab[r].l0[k] = pg
                 \/ \E v \in VA : o = <<"leaf", <<r, v>>>> /\ tab[r].leaf[v] = pg
    BY DEF InTable
  <1>8. \A o : o \in F <=> \E r \in Roots :
                 \/ o = <<"l1", r>> /\ tab[r].l1 = pg
                 \/ \E k \in Regions : o = <<"l0", <<r, k>>>> /\ tab[r].l0[k] = pg
                 \/ \E v \in VA : o = <<"leaf", <<r, v>>>> /\ tab[r].leaf[v] = pg
    <2>1. \A o : o \in F <=> \E r \in Roots : o \in InTable(r, pg)
      OBVIOUS
    <2> QED
      BY <1>7, <2>1
  <1> HIDE DEF A, B, C, D, E, F
  <1> QED
    BY <1>1, <1>2, <1>3, <1>4, <1>5, <1>6, <1>8

\* Every page is on the free list, lost, the trapframe of one process or at
\* one place of one table, and at no second of these: what uvm_free, kfree
\* and the failing ends of fork and exec give back is what was taken.
THEOREM OwnedCorrect == AsSpec => []PageOwnedOnce
  <1>1. ASSUME AddrInv, NEW pg \in Pages PROVE \E o : Owners(pg) = {o}
    <2> DEFINE Own(o) ==
           \/ o = <<"free">> /\ pg \in free
           \/ o = <<"lost">> /\ pg \in lost
           \/ \E p \in Active : o = <<"tf", p>> /\ tf[p] = pg
           \/ \E p \in Active : o = <<"root", p>> /\ pt[p] = pg
           \/ o = <<"new">> /\ op.kind = "exec" /\ op.root = pg
           \/ \E r \in Roots : o = <<"l1", r>> /\ tab[r].l1 = pg
           \/ \E r \in Roots, k \in Regions : o = <<"l0", <<r, k>>>> /\ tab[r].l0[k] = pg
           \/ \E r \in Roots, v \in VA : o = <<"leaf", <<r, v>>>> /\ tab[r].leaf[v] = pg
    <2>1. \A o : o \in Owners(pg) <=> Own(o)
      BY <1>1, OwnersFacts
    <2>2. SUFFICES \E o : Own(o) /\ \A x : Own(x) => x = o
      <3> HIDE DEF Own
      <3> QED
        BY <2>1
    <2>3. pg # Nil
      BY NullFacts
    <2>4. /\ free \cap lost = {}
          /\ \A p, q \in Active : tf[p] = tf[q] \/ pt[p] = pt[q] => p = q
          /\ \A p \in Active : tf[p] \notin free /\ tf[p] \notin lost
          /\ op.kind = "exec" => \A p \in Active : pt[p] # op.root
          /\ \A r \in Roots : Tree(r, tab[r]) \cap (free \cup lost) = {}
          /\ \A r \in Roots, p \in Active : tf[p] \notin Tree(r, tab[r])
          /\ \A r, s \in Roots : r # s => Tree(r, tab[r]) \cap Tree(s, tab[s]) = {}
      BY <1>1 DEF AddrInv, Apart
    <2>5. \A r \in Roots : OneTree(r, tab[r])
      BY <1>1 DEF AddrInv, Apart
    <2>6. \A r \in Roots : pg \in Tree(r, tab[r]) <=>
            \/ r = pg \/ tab[r].l1 = pg \/ (\E k \in Regions : tab[r].l0[k] = pg)
            \/ \E v \in VA : tab[r].leaf[v] = pg
      BY <2>3 DEF Tree
    <2>7. \A r : r \in Roots <=> (\E p \in Active : pt[p] = r) \/ (op.kind = "exec" /\ op.root = r)
      BY <1>1, RootFacts
    <2>8. pg \in free \/ pg \in lost \/ (\E p \in Active : tf[p] = pg)
            \/ \E r \in Roots : pg \in Tree(r, tab[r])
      BY <1>1 DEF AddrInv, Covered
    <2>9. CASE \E r \in Roots : pg \in Tree(r, tab[r])
      <3>1. PICK r \in Roots : pg \in Tree(r, tab[r])
        BY <2>9
      <3>2. /\ pg \notin free /\ pg \notin lost /\ (\A p \in Active : tf[p] # pg)
            /\ \A s \in Roots : pg \in Tree(s, tab[s]) => s = r
        BY <2>4, <3>1
      <3>3. /\ \A s \in Roots : s = pg => s = r
            /\ \A s \in Roots : tab[s].l1 = pg => s = r
            /\ \A s \in Roots, k \in Regions : tab[s].l0[k] = pg => s = r
            /\ \A s \in Roots, v \in VA : tab[s].leaf[v] = pg => s = r
        BY <2>6, <3>2
      <3>4. /\ \A p \in Active : pt[p] = pg => r = pg
            /\ op.kind = "exec" /\ op.root = pg => r = pg
        BY <2>7, <3>3
      <3>5. \A x : Own(x) =>
              \/ \E p \in Active : x = <<"root", p>> /\ pt[p] = pg
              \/ x = <<"new">> /\ op.kind = "exec" /\ op.root = pg
              \/ x = <<"l1", r>> /\ tab[r].l1 = pg
              \/ \E k \in Regions : x = <<"l0", <<r, k>>>> /\ tab[r].l0[k] = pg
              \/ \E v \in VA : x = <<"leaf", <<r, v>>>> /\ tab[r].leaf[v] = pg
        BY <3>2, <3>3
      <3>6. CASE r = pg
        <4>1. /\ tab[r].l1 # pg /\ (\A k \in Regions : tab[r].l0[k] # pg)
              /\ \A v \in VA : tab[r].leaf[v] # pg
          BY <2>3, <2>5, <3>6 DEF OneTree
        <4>2. \A x : Own(x) => \/ \E p \in Active : x = <<"root", p>> /\ pt[p] = pg
                               \/ x = <<"new">> /\ op.kind = "exec" /\ op.root = pg
          BY <3>5, <4>1
        <4>3. CASE \E p \in Active : pt[p] = pg
          <5>1. PICK p \in Active : pt[p] = pg
            BY <4>3
          <5>2. Own(<<"root", p>>)
            BY <5>1
          <5>3. \A x : Own(x) => x = <<"root", p>>
            <6> HIDE DEF Own
            <6> QED
              BY <2>4, <4>2, <5>1
          <5> HIDE DEF Own
          <5> QED
            BY <5>2, <5>3
        <4>4. CASE ~\E p \in Active : pt[p] = pg
          <5>1. Own(<<"new">>)
            BY <2>7, <3>6, <4>4
          <5>2. \A x : Own(x) => x = <<"new">>
            BY <4>2, <4>4
          <5> HIDE DEF Own
          <5> QED
            BY <5>1, <5>2
        <4> QED
          BY <4>3, <4>4
      <3>7. CASE r # pg
        <4>1. \A x : Own(x) =>
                \/ x = <<"l1", r>> /\ tab[r].l1 = pg
                \/ \E k \in Regions : x = <<"l0", <<r, k>>>> /\ tab[r].l0[k] = pg
                \/ \E v \in VA : x = <<"leaf", <<r, v>>>> /\ tab[r].leaf[v] = pg
          BY <3>4, <3>5, <3>7
        <4>2. CASE tab[r].l1 = pg
          <5>1. (\A k \in Regions : tab[r].l0[k] # pg) /\ \A v \in VA : tab[r].leaf[v] # pg
            BY <2>3, <2>5, <4>2 DEF OneTree
          <5>2. Own(<<"l1", r>>)
            BY <4>2
          <5>3. \A x : Own(x) => x = <<"l1", r>>
            BY <4>1, <5>1
          <5> HIDE DEF Own
          <5> QED
            BY <5>2, <5>3
        <4>3. CASE \E k \in Regions : tab[r].l0[k] = pg
          <5>1. PICK k \in Regions : tab[r].l0[k] = pg
            BY <4>3
          <5>2. /\ tab[r].l1 # pg /\ (\A v \in VA : tab[r].leaf[v] # pg)
                /\ \A j \in Regions : tab[r].l0[j] = pg => j = k
            BY <2>3, <2>5, <5>1 DEF OneTree
          <5>3. Own(<<"l0", <<r, k>>>>)
            BY <5>1
          <5>4. \A x : Own(x) => x = <<"l0", <<r, k>>>>
            <6> HIDE DEF Own
            <6> QED
              BY <4>1, <5>2
          <5> HIDE DEF Own
          <5> QED
            BY <5>3, <5>4
        <4>4. CASE \E v \in VA : tab[r].leaf[v] = pg
          <5>1. PICK v \in VA : tab[r].leaf[v] = pg
            BY <4>4
          <5>2. /\ tab[r].l1 # pg /\ (\A k \in Regions : tab[r].l0[k] # pg)
                /\ \A u \in VA : tab[r].leaf[u] = pg => u = v
            BY <2>3, <2>5, <5>1 DEF OneTree
          <5>3. Own(<<"leaf", <<r, v>>>>)
            BY <5>1
          <5>4. \A x : Own(x) => x = <<"leaf", <<r, v>>>>
            <6> HIDE DEF Own
            <6> QED
              BY <4>1, <5>2
          <5> HIDE DEF Own
          <5> QED
            BY <5>3, <5>4
        <4> QED
          BY <2>6, <3>1, <3>7, <4>2, <4>3, <4>4
      <3> QED
        BY <3>6, <3>7
    <2>10. CASE ~\E r \in Roots : pg \in Tree(r, tab[r])
      <3>1. \A x : Own(x) => \/ x = <<"free">> /\ pg \in free
                             \/ x = <<"lost">> /\ pg \in lost
                             \/ \E p \in Active : x = <<"tf", p>> /\ tf[p] = pg
        BY <2>6, <2>7, <2>10
      <3>2. CASE pg \in free
        <4>1. \A x : Own(x) => x = <<"free">>
          BY <2>4, <3>1, <3>2
        <4>2. Own(<<"free">>)
          BY <3>2
        <4> HIDE DEF Own
        <4> QED
          BY <4>1, <4>2
      <3>3. CASE pg \in lost
        <4>1. \A x : Own(x) => x = <<"lost">>
          BY <2>4, <3>1, <3>3
        <4>2. Own(<<"lost">>)
          BY <3>3
        <4> HIDE DEF Own
        <4> QED
          BY <4>1, <4>2
      <3>4. CASE \E p \in Active : tf[p] = pg
        <4>1. PICK p \in Active : tf[p] = pg
          BY <3>4
        <4>2. \A x : Own(x) => x = <<"tf", p>>
          <5> HIDE DEF Own
          <5> QED
            BY <2>4, <3>1, <4>1
        <4>3. Own(<<"tf", p>>)
          BY <4>1
        <4> HIDE DEF Own
        <4> QED
          BY <4>2, <4>3
      <3> QED
        BY <2>8, <2>10, <3>2, <3>3, <3>4
    <2> QED
      BY <2>9, <2>10
  <1>2. AddrInv => PageOwnedOnce
    <2> SUFFICES ASSUME AddrInv, NEW pg \in Pages PROVE Cardinality(Owners(pg)) = 1
      BY DEF PageOwnedOnce
    <2>1. PICK o : Owners(pg) = {o}
      BY <1>1
    <2> QED
      BY <2>1, FS_Singleton
  <1> QED
    BY <1>2, AddrCorrect, PTL
=============================================================================
