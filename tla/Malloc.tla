------------------------------- MODULE Malloc -------------------------------
(***************************************************************************)
(* The allocator of user/lib/malloc.c: one circular list of free blocks,   *)
(* ordered by address, that free merges in place and malloc cuts from the  *)
(* tail.  Addresses and sizes count headers.  The header base, of size 0,  *)
(* lies in .bss below the heap at address Base.                            *)
(***************************************************************************)
EXTENDS Naturals, FiniteSets

CONSTANTS HeapEnd,   \* sbrk fails beyond this address
          NALLOC,    \* 1024 in the code
          Requests   \* units asked for, header included, of so few bytes
                     \* that 64 bits hold them

ASSUME MallocAssumption == HeapEnd \in Nat \ {0, 1} /\ NALLOC \in Nat \ {0}
                           /\ Requests \subseteq Nat \ {0}

Base == 0
HeapStart == 2           \* the heap never touches base
Nil == HeapEnd + 1       \* NULL
Addrs == 0 .. HeapEnd

VARIABLES next,     \* next[a]: s.next of the header at a
          size,     \* size[a]: s.size of the header at a
          freep,
          brk,      \* end of the heap
          given,    \* blocks handed out and not freed: where their headers are
          stuck     \* a loop of malloc or free has gone round without an end

mvars == <<next, size, freep, brk, given, stuck>>

MallocInit == /\ next = [a \in Addrs |-> Nil]
              /\ size = [a \in Addrs |-> 0]
              /\ freep = Nil
              /\ brk = HeapStart
              /\ given = {}
              /\ stuck = FALSE

-----------------------------------------------------------------------------
(* The heap h is a record of the four C variables; the operators below say *)
(* what a call makes of it.                                                *)
Heap == [next |-> next, size |-> size, freep |-> freep, brk |-> brk, stuck |-> stuck]

\* The first call makes the list of base alone.
Started(h) == IF h.freep # Nil THEN h
              ELSE [h EXCEPT !.freep = Base, !.next[Base] = Base, !.size[Base] = 0]

\* The place p with p < bp < p.next, or the end of the list when bp lies
\* outside; found by walking from freep.  A walk longer than the heap is one
\* that never ends.
Fits(h, p, bp) == \/ bp > p /\ bp < h.next[p]
                  \/ p >= h.next[p] /\ (bp > p \/ bp < h.next[p])

Place(h, bp) ==
    LET walk[i \in 0 .. HeapEnd + 1] ==
          IF i = 0 THEN h.freep
          ELSE LET q == walk[i - 1] IN IF Fits(h, q, bp) THEN q ELSE h.next[q]
        p == walk[HeapEnd + 1]
    IN  IF Fits(h, p, bp) THEN p ELSE Nil

\* A header that a merge has swallowed, or that was handed out, is not read
\* again: the model clears what it does not need of it.
Forget(h, a) == [h EXCEPT !.next[a] = Nil, !.size[a] = 0]

Join_NoMerge(h, a, b) == [h EXCEPT !.next[a] = b]

\* b becomes the next of a, or part of it when a ends where b begins.
Join(h, a, b) ==
    IF a + h.size[a] = b
    THEN Forget([h EXCEPT !.size[a] = @ + h.size[b], !.next[a] = h.next[b]], b)
    ELSE [h EXCEPT !.next[a] = b]

\* free of the block whose header is at bp: merge with the upper neighbour,
\* then with the lower one.
FreeAt(h, p, bp) == IF p = Nil THEN [h EXCEPT !.stuck = TRUE]
                    ELSE [Join(Join(h, bp, h.next[p]), p, bp) EXCEPT !.freep = p]
FreeOn(h, bp) == FreeAt(h, Place(h, bp), bp)
Free(h, bp) == FreeOn(Started(h), bp)

\* At least NALLOC units from sbrk, given to free; ok says whether sbrk had them.
Units(nu) == IF nu < NALLOC THEN NALLOC ELSE nu
MoreCore(h, nu) ==
    IF h.brk + Units(nu) <= HeapEnd
    THEN [ok |-> TRUE,
          h |-> Free([h EXCEPT !.size[h.brk] = Units(nu), !.brk = @ + Units(nu)], h.brk)]
    ELSE [ok |-> FALSE, h |-> h]

\* The block at p is taken whole or cut from its tail.
CutTail(h, prevp, p, a, nu) ==
    [at |-> a, h |-> [h EXCEPT !.size = [h.size EXCEPT ![p] = @ - nu, ![a] = nu], !.freep = prevp]]
Cut(h, prevp, p, nu) ==
    IF h.size[p] = nu
    THEN [at |-> p, h |-> [h EXCEPT !.next = [h.next EXCEPT ![prevp] = h.next[p], ![p] = Nil],
                                   !.freep = prevp]]
    ELSE CutTail(h, prevp, p, p + h.size[p] - nu, nu)

\* malloc: walk from the block behind freep; once round, ask for more core and
\* walk on from where free left freep.  The answer's at is Nil when sbrk fails.
Found(s, c) == [s EXCEPT !.done = TRUE, !.at = c.at, !.h = c.h]
WithMore(s, m) == IF m.ok THEN [s EXCEPT !.h = m.h, !.prevp = m.h.freep, !.p = m.h.next[m.h.freep]]
                  ELSE [s EXCEPT !.done = TRUE]
Turn(s, nu) == IF s.done THEN s
               ELSE IF s.h.size[s.p] >= nu THEN Found(s, Cut(s.h, s.prevp, s.p, nu))
               ELSE IF s.p = s.h.freep THEN WithMore(s, MoreCore(s.h, nu))
               ELSE [s EXCEPT !.prevp = s.p, !.p = s.h.next[s.p]]

Walk(h, nu) ==
    LET walk[i \in 0 .. 2 * HeapEnd] ==
          IF i = 0 THEN [h |-> h, prevp |-> h.freep, p |-> h.next[h.freep], done |-> FALSE, at |-> Nil]
          ELSE Turn(walk[i - 1], nu)
    IN  walk[2 * HeapEnd]
Answer(h, end) == [at |-> end.at, h |-> IF end.done THEN end.h ELSE [h EXCEPT !.stuck = TRUE]]
AllocOn(h, nu) == Answer(h, Walk(h, nu))
Alloc(h, nu) == AllocOn(Started(h), nu)

SetHeap(h) == /\ next' = h.next /\ size' = h.size /\ freep' = h.freep
              /\ brk' = h.brk /\ stuck' = h.stuck

-----------------------------------------------------------------------------
Given(r) == /\ SetHeap(r.h)
            /\ given' = IF r.at = Nil THEN given ELSE given \cup {r.at}
malloc(nu) == Given(Alloc(Heap, nu))

free(bp) == /\ bp \in given
            /\ SetHeap(Free(Heap, bp))
            /\ given' = given \ {bp}

\* realloc of a block that is too small: a new one, a copy, and the old is
\* freed; when there is none the old stays.
Moved(r, bp) == IF r.at = Nil THEN SetHeap(r.h) /\ UNCHANGED given
                ELSE SetHeap(Free(r.h, bp)) /\ given' = (given \cup {r.at}) \ {bp}
realloc(bp, nu) == bp \in given /\ size[bp] < nu /\ Moved(Alloc(Heap, nu), bp)

MallocNext == \/ \E nu \in Requests : malloc(nu)
              \/ \E bp \in given : free(bp) \/ \E nu \in Requests : realloc(bp, nu)

MallocSpec == MallocInit /\ [][MallocNext]_mvars

-----------------------------------------------------------------------------
MallocTypeOK == /\ next \in [Addrs -> Addrs \cup {Nil}]
                /\ size \in [Addrs -> Nat]
                /\ freep \in Addrs \cup {Nil}
                /\ brk \in HeapStart .. HeapEnd
                /\ given \subseteq HeapStart .. HeapEnd

(* The searches of malloc and free always end, also on the list of base    *)
(* alone and when the whole heap is given out.                             *)
SearchesEnd == ~stuck

\* The blocks on the list, base included.
OnList == LET step[i \in 0 .. HeapEnd] ==
                IF i = 0 THEN {freep}
                ELSE LET s == step[i - 1] IN s \cup {next[a] : a \in s}
          IN  IF freep = Nil THEN {} ELSE step[HeapEnd]
Block(a) == a .. a + size[a] - 1

(* Every unit that sbrk has given is in exactly one block, free or handed  *)
(* out: nothing is lost and no two callers share memory, after any         *)
(* sequence of malloc, free and realloc and when sbrk fails.               *)
HeapTiled ==
    LET all == given \cup (OnList \ {Base}) IN
    /\ given \cap OnList = {}
    /\ UNION {Block(a) : a \in all} = HeapStart .. brk - 1
    /\ \A a, b \in all : a # b => Block(a) \cap Block(b) = {}

(* The list is ordered by address with one step back, at its highest       *)
(* block, and no two free blocks touch: free has merged them.              *)
Sorted ==
    freep # Nil =>
      /\ Base \in OnList
      /\ Cardinality({a \in OnList : next[a] <= a}) = 1
      /\ \A a, b \in OnList : (a # b /\ size[a] > 0) => a + size[a] # b

(* The free list is what malloc's and free's loops take it for, after any  *)
(* sequence of calls.                                                      *)
HeapSound == MallocTypeOK /\ SearchesEnd /\ HeapTiled /\ Sorted
=============================================================================
