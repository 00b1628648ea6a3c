----------------------------- MODULE BPlusTreeProofs -----------------------------
(***************************************************************************)
(* Proofs about BPlusTree, for any keys, sizes of the pages, and number of *)
(* pages.                                                                  *)
(*                                                                         *)
(* Shape(n) says that the file has n pages and that they are either a lone *)
(* leaf, page 2, or leaves around page 4, the root.  Chained(n) adds that, *)
(* until a freed leaf is used again, the leaves in use are linked in one   *)
(* sequence.  For each action, a lemma named after it (...Does) says what  *)
(* the action does to the pages in terms that need no definition of the    *)
(* module, and that Shape is kept; another (...Chained) that Chained is; a *)
(* third (...Stays) what becomes of the rows on the pages.  Lone(n) and    *)
(* Serving(n) are about a table of one leaf, where a last lemma for each   *)
(* action (...Serves) says how it looks to scans and lookups.              *)
(***************************************************************************)
EXTENDS BPlusTree, FiniteSetTheorems, SequenceTheorems, WellFoundedInduction, TLAPS

-----------------------------------------------------------------------------
(* Numbers, and functions that are given from each number to the next.     *)

LEMMA LeastElement ==
    ASSUME NEW T, T \subseteq Nat, T # {}
    PROVE  \E x \in T : \A y \in T : x <= y
<1> DEFINE R == {ss \in Nat \X Nat : ss[1] < ss[2]}
<1>1. IsWellFoundedOn(R, Nat)
  BY NatLessThanWellFounded DEF OpToRel
<1> HIDE DEF R
<1>2. PICK x \in T : \A y \in T : <<y, x>> \notin R
  BY <1>1, WFMin
<1>3. \A y \in T : ~(y < x)
  BY <1>2 DEF R
<1> QED
  BY <1>3

LEMMA MinIsLeast ==
    ASSUME NEW T, T \subseteq Nat, T # {}
    PROVE  Min(T) \in T /\ \A y \in T : Min(T) <= y
<1>1. PICK x \in T : \A y \in T : x <= y
  BY LeastElement
<1> QED
  BY <1>1 DEF Min

(* A set that has 0 and, with each number, the next one up to N.           *)
LEMMA UpwardClosed ==
    ASSUME NEW N \in Nat, NEW T, 0 \in T, \A n \in 1..N : n - 1 \in T => n \in T
    PROVE  \A n \in 0..N : n \in T
<1> DEFINE R == {n \in 0..N : n \notin T}
<1> SUFFICES ASSUME R # {}
             PROVE  FALSE
  OBVIOUS
<1>1. R \subseteq Nat
  OBVIOUS
<1>2. PICK m \in R : \A y \in R : m <= y
  <2> HIDE DEF R
  <2> QED
    BY <1>1, LeastElement
<1>3. m \in 1..N /\ m - 1 \in 0..N /\ m \notin T
  OBVIOUS
<1>4. m - 1 \notin R
  <2> HIDE DEF R
  <2> QED
    BY <1>2, <1>3
<1> QED
  BY <1>3, <1>4

Iterates(f, N, S, first, step) ==
    f \in [0..N -> S] /\ f[0] = first /\ \A n \in 1..N : f[n] = step[<<n, f[n - 1]>>]

LEMMA IterationExists ==
    ASSUME NEW N \in Nat, NEW S, NEW first \in S, NEW step \in [(1..N) \X S -> S]
    PROVE  \E f : Iterates(f, N, S, first, step)
<1> DEFINE T == {m \in 0..N : \E f : Iterates(f, m, S, first, step)}
<1>1. 0 \in T
  <2>1. Iterates([n \in 0..0 |-> first], 0, S, first, step)
    BY DEF Iterates
  <2> QED
    BY <2>1
<1>2. ASSUME NEW m \in 1..N, m - 1 \in T PROVE m \in T
  <2>1. PICK f : Iterates(f, m - 1, S, first, step)
    BY <1>2
  <2> DEFINE g == [n \in 0..m |-> IF n = m THEN step[<<m, f[m - 1]>>] ELSE f[n]]
  <2>2. f \in [0..(m - 1) -> S] /\ f[0] = first /\ \A n \in 1..(m - 1) : f[n] = step[<<n, f[n - 1]>>]
    BY <2>1 DEF Iterates
  <2>3. step[<<m, f[m - 1]>>] \in S
    BY <2>2
  <2>4. g \in [0..m -> S] /\ g[0] = first
    BY <2>2, <2>3
  <2>5. ASSUME NEW n \in 1..m PROVE g[n] = step[<<n, g[n - 1]>>]
    <3>1. n - 1 \in 0..m /\ n - 1 # m /\ n \in 0..m
      OBVIOUS
    <3>2. g[n - 1] = f[n - 1]
      BY <3>1
    <3>3. CASE n = m
      BY <3>1, <3>2, <3>3
    <3>4. CASE n # m
      <4>1. n \in 1..(m - 1)
        BY <3>4
      <4> QED
        BY <2>2, <3>1, <3>2, <3>4, <4>1
    <3> QED
      BY <3>3, <3>4
  <2> HIDE DEF g
  <2>6. Iterates(g, m, S, first, step)
    BY <2>4, <2>5 DEF Iterates
  <2> QED
    BY <2>6
<1> HIDE DEF T
<1>3. N \in T
  BY <1>1, <1>2, UpwardClosed
<1> QED
  BY <1>3 DEF T

-----------------------------------------------------------------------------
(* The cells of a page.                                                    *)

LeafCell == [key : Keys, deleted : BOOLEAN]

Sorted(cells) == \A i, j \in DOMAIN cells : i < j => cells[i].key <= cells[j].key

(* These are the first n cells without the marked ones; the i-th of them   *)
(* was the at[i]-th.                                                       *)
Unmarked(some, cells, n, at) ==
    /\ some \in Seq(LeafCell) /\ Len(some) <= n
    /\ at \in [1..Len(some) -> 1..n]
    /\ \A i, j \in 1..Len(some) : i < j => at[i] < at[j]
    /\ \A i \in 1..Len(some) : some[i] = cells[at[i]] /\ ~cells[at[i]].deleted
    /\ \A m \in 1..n : ~cells[m].deleted => \E i \in 1..Len(some) : at[i] = m
    /\ Len(some) = n => \A m \in 1..n : ~cells[m].deleted

LEMMA UnmarkedStep ==
    ASSUME NEW cells \in Seq(LeafCell), NEW n \in 1..Len(cells), NEW some, NEW at,
           Unmarked(some, cells, n - 1, at)
    PROVE  \E to : Unmarked(IF cells[n].deleted THEN some ELSE Append(some, cells[n]), cells, n, to)
<1>1. /\ some \in Seq(LeafCell) /\ Len(some) <= n - 1 /\ Len(some) \in Nat /\ n \in Nat
      /\ at \in [1..Len(some) -> 1..(n - 1)]
      /\ cells[n] \in LeafCell
  BY DEF Unmarked
<1>2. CASE cells[n].deleted
  <2>1. at \in [1..Len(some) -> 1..n]
    BY <1>1
  <2>2. \A m \in 1..n : ~cells[m].deleted => m \in 1..(n - 1)
    BY <1>1, <1>2
  <2>3. Unmarked(some, cells, n, at)
    BY <1>1, <2>1, <2>2 DEF Unmarked
  <2> QED
    BY <1>2, <2>3
<1>3. CASE ~cells[n].deleted
  <2> DEFINE more == Append(some, cells[n])
             to == [i \in 1..(Len(some) + 1) |-> IF i = Len(some) + 1 THEN n ELSE at[i]]
  <2>1. /\ more \in Seq(LeafCell) /\ Len(more) = Len(some) + 1
        /\ more[Len(some) + 1] = cells[n] /\ \A i \in 1..Len(some) : more[i] = some[i]
    BY <1>1
  <2>2. /\ to \in [1..(Len(some) + 1) -> 1..n] /\ to[Len(some) + 1] = n
        /\ \A i \in 1..Len(some) : to[i] = at[i] /\ at[i] \in 1..(n - 1)
    BY <1>1
  <2> HIDE DEF more, to
  <2>3. ASSUME NEW i \in 1..Len(more), NEW j \in 1..Len(more), i < j PROVE to[i] < to[j]
    <3>1. i \in 1..Len(some)
      BY <1>1, <2>1, <2>3
    <3>2. CASE j \in 1..Len(some)
      BY <2>2, <2>3, <3>1, <3>2 DEF Unmarked
    <3>3. CASE j = Len(some) + 1
      BY <1>1, <2>2, <3>1, <3>3
    <3> QED
      BY <1>1, <2>1, <3>2, <3>3
  <2>4. ASSUME NEW i \in 1..Len(more) PROVE more[i] = cells[to[i]] /\ ~cells[to[i]].deleted
    <3>1. CASE i \in 1..Len(some)
      BY <2>1, <2>2, <3>1 DEF Unmarked
    <3>2. CASE i = Len(some) + 1
      BY <1>3, <2>1, <2>2, <3>2
    <3> QED
      BY <1>1, <2>1, <3>1, <3>2
  <2>5. ASSUME NEW m \in 1..n, ~cells[m].deleted PROVE \E i \in 1..Len(more) : to[i] = m
    <3>1. CASE m = n
      BY <1>1, <2>1, <2>2, <3>1
    <3>2. CASE m # n
      <4>1. PICK i \in 1..Len(some) : at[i] = m
        BY <1>1, <2>5, <3>2 DEF Unmarked
      <4> QED
        BY <1>1, <2>1, <2>2, <4>1
    <3> QED
      BY <3>1, <3>2
  <2>6. Len(more) = n => \A m \in 1..n : ~cells[m].deleted
    BY <1>1, <1>3, <2>1 DEF Unmarked
  <2>7. Unmarked(more, cells, n, to)
    BY <1>1, <2>1, <2>2, <2>3, <2>4, <2>5, <2>6 DEF Unmarked
  <2> QED
    BY <1>3, <2>7 DEF more
<1> QED
  BY <1>2, <1>3

LEMMA LiveCellsRecursion ==
    ASSUME NEW cells \in Seq(LeafCell)
    PROVE  \E live : /\ live[0] = <<>>
                     /\ \A n \in 1..Len(cells) :
                           live[n] = IF cells[n].deleted THEN live[n - 1]
                                     ELSE Append(live[n - 1], cells[n])
                     /\ LiveCells(cells) = live[Len(cells)]
<1> DEFINE N == Len(cells)
           S == Seq(LeafCell)
           first == <<>>
           step == [x \in (1..N) \X S |-> IF cells[x[1]].deleted THEN x[2]
                                          ELSE Append(x[2], cells[x[1]])]
<1>1. N \in Nat /\ first \in S /\ step \in [(1..N) \X S -> S]
  OBVIOUS
<1>2. PICK h : Iterates(h, N, S, first, step)
  <2> HIDE DEF N, S, first, step
  <2> QED
    BY <1>1, IterationExists
<1>3. h \in [0..N -> S] /\ h[0] = <<>>
  <2> HIDE DEF N, S, step
  <2> QED
    BY <1>2 DEF Iterates
<1>4. ASSUME NEW n \in 0..N
      PROVE  h[n] = IF n = 0 THEN <<>> ELSE IF cells[n].deleted THEN h[n - 1]
                                            ELSE Append(h[n - 1], cells[n])
  <2>1. CASE n = 0
    BY <1>3, <2>1
  <2>2. CASE n # 0
    <3>1. n \in 1..N /\ n - 1 \in 0..N
      BY <1>1, <2>2
    <3>2. h[n - 1] \in S
      <4> HIDE DEF N, S
      <4> QED
        BY <1>3, <3>1
    <3>3. step[<<n, h[n - 1]>>] = IF cells[n].deleted THEN h[n - 1] ELSE Append(h[n - 1], cells[n])
      BY <3>1, <3>2
    <3> HIDE DEF N, S, first, step
    <3>4. h[n] = step[<<n, h[n - 1]>>]
      BY <1>2, <3>1 DEF Iterates
    <3> QED
      BY <2>2, <3>3, <3>4
  <2> QED
    BY <2>1, <2>2
<1> DEFINE Meets(f) == f = [n \in 0..N |-> IF n = 0 THEN <<>>
                                            ELSE IF cells[n].deleted THEN f[n - 1]
                                            ELSE Append(f[n - 1], cells[n])]
           live == CHOOSE f : Meets(f)
<1>5. Meets(h)
  <2>1. h = [n \in 0..N |-> h[n]]
    BY <1>3
  <2> QED
    BY <1>4, <2>1
<1>6. Meets(live)
  <2> HIDE DEF Meets
  <2> QED
    BY <1>5
<1>7. LiveCells(cells) = live[N]
  BY DEF LiveCells
<1> HIDE DEF live
<1>8. live[0] = <<>> /\ \A n \in 1..N : live[n] = IF cells[n].deleted THEN live[n - 1]
                                                ELSE Append(live[n - 1], cells[n])
  <2> HIDE DEF N
  <2>1. 0 \in 0..N /\ \A n \in 1..N : n \in 0..N /\ n # 0
    BY <1>1
  <2>2. \A n \in 0..N : live[n] = IF n = 0 THEN <<>>
                                   ELSE IF cells[n].deleted THEN live[n - 1]
                                   ELSE Append(live[n - 1], cells[n])
    BY <1>6, Zenon
  <2> QED
    BY <2>1, <2>2
<1> QED
  BY <1>7, <1>8

LEMMA LiveCellsAreUnmarked ==
    ASSUME NEW cells \in Seq(LeafCell)
    PROVE  \E at : Unmarked(LiveCells(cells), cells, Len(cells), at)
<1>1. PICK live : /\ live[0] = <<>>
                  /\ \A n \in 1..Len(cells) :
                        live[n] = IF cells[n].deleted THEN live[n - 1]
                                  ELSE Append(live[n - 1], cells[n])
                  /\ LiveCells(cells) = live[Len(cells)]
  BY LiveCellsRecursion
<1> DEFINE T == {n \in 0..Len(cells) : \E at : Unmarked(live[n], cells, n, at)}
<1>2. 0 \in T
  <2>1. Unmarked(<<>>, cells, 0, [i \in 1..0 |-> 1])
    BY DEF Unmarked
  <2> QED
    BY <1>1, <2>1
<1>3. ASSUME NEW n \in 1..Len(cells), n - 1 \in T PROVE n \in T
  <2>1. PICK at : Unmarked(live[n - 1], cells, n - 1, at)
    BY <1>3
  <2>2. \E to : Unmarked(live[n], cells, n, to)
    BY <1>1, <2>1, UnmarkedStep
  <2> QED
    BY <2>2
<1>4. Len(cells) \in Nat
  OBVIOUS
<1> HIDE DEF T
<1>5. Len(cells) \in T
  <2> DEFINE N == Len(cells)
  <2>1. N \in Nat /\ 0 \in T /\ \A n \in 1..N : n - 1 \in T => n \in T
    BY <1>2, <1>3, <1>4
  <2> HIDE DEF N
  <2>2. \A n \in 0..N : n \in T
    BY <2>1, UpwardClosed
  <2> QED
    BY <2>1, <2>2 DEF N
<1> QED
  BY <1>1, <1>5 DEF T

(* FirstSlot is what a binary search of sorted cells finds.                *)
LEMMA FirstSlotSplits ==
    ASSUME NEW S, \A c \in S : c.key \in Nat, NEW cells \in Seq(S), Sorted(cells), NEW k \in Nat
    PROVE  /\ FirstSlot(cells, k) \in 1..(Len(cells) + 1)
           /\ \A i \in 1..Len(cells) : cells[i].key < k <=> i < FirstSlot(cells, k)
<1> DEFINE N == Len(cells)
           below == {i \in DOMAIN cells : cells[i].key < k}
           above == {i \in 1..N : ~(cells[i].key < k)}
<1>1. N \in Nat /\ DOMAIN cells = 1..N /\ \A i \in 1..N : cells[i] \in S /\ cells[i].key \in Nat
  BY ElementOfSeq, LenProperties
<1> HIDE DEF N
<1>2. PICK m \in 0..N : \A i \in 1..N : cells[i].key < k <=> i <= m
  <2>1. CASE above = {}
    <3>1. N \in 0..N /\ \A i \in 1..N : cells[i].key < k /\ i <= N
      BY <1>1, <2>1
    <3> QED
      BY <3>1
  <2>2. CASE above # {}
    <3>1. above \subseteq Nat
      BY <1>1
    <3>2. PICK x \in above : \A y \in above : x <= y
      <4> HIDE DEF above
      <4> QED
        BY <2>2, <3>1, LeastElement
    <3>3. x \in 1..N /\ ~(cells[x].key < k)
      BY <3>2
    <3>4. ASSUME NEW i \in 1..N, i <= x - 1 PROVE cells[i].key < k
      <4>1. i \notin above
        <5> HIDE DEF above
        <5> QED
          BY <1>1, <3>2, <3>3, <3>4
      <4> QED
        BY <4>1
    <3>5. ASSUME NEW i \in 1..N, ~(i <= x - 1) PROVE ~(cells[i].key < k)
      <4>1. i = x \/ x < i
        BY <1>1, <3>3, <3>5
      <4>2. cells[x].key <= cells[i].key
        BY <1>1, <3>3, <4>1 DEF Sorted
      <4> QED
        BY <1>1, <3>3, <4>2
    <3>6. x - 1 \in 0..N
      BY <1>1, <3>3
    <3> QED
      BY <3>4, <3>5, <3>6
  <2> QED
    BY <2>1, <2>2
<1>3. below = 1..m
  BY <1>1, <1>2
<1>4. Cardinality(1..m) = m
  BY FS_Interval
<1>5. FirstSlot(cells, k) = m + 1
  BY <1>3, <1>4 DEF FirstSlot
<1> QED
  BY <1>1, <1>2, <1>5 DEF N

Inserted(more, s, i, e) ==
    /\ i \in 1..(Len(s) + 1) /\ Len(more) = Len(s) + 1
    /\ \A j \in 1..(Len(s) + 1) :
          more[j] = IF j < i THEN s[j] ELSE IF j = i THEN e ELSE s[j - 1]

LEMMA InsertAtIs ==
    ASSUME NEW S, NEW s \in Seq(S), NEW i \in 1..(Len(s) + 1), NEW e \in S
    PROVE  InsertAt(s, i, e) \in Seq(S) /\ Inserted(InsertAt(s, i, e), s, i, e)
<1> DEFINE low == SubSeq(s, 1, i - 1)
           high == SubSeq(s, i, Len(s))
<1>1. Len(s) \in Nat /\ \A j \in 1..Len(s) : s[j] \in S
  BY ElementOfSeq, LenProperties
<1>2. low \in Seq(S) /\ Len(low) = i - 1 /\ \A j \in 1..(i - 1) : low[j] = s[j]
  BY <1>1
<1>3. high \in Seq(S) /\ Len(high) = Len(s) - i + 1 /\ \A j \in 1..(Len(s) - i + 1) : high[j] = s[i + j - 1]
  BY <1>1
<1>4. InsertAt(s, i, e) = low \o <<e>> \o high
  BY DEF InsertAt
<1> HIDE DEF low, high
<1>5. low \o <<e>> \in Seq(S) /\ Len(low \o <<e>>) = i
      /\ \A j \in 1..i : (low \o <<e>>)[j] = IF j < i THEN s[j] ELSE e
  BY <1>1, <1>2
<1> DEFINE front == low \o <<e>>
<1>6. front \in Seq(S) /\ Len(front) = i /\ InsertAt(s, i, e) = front \o high
      /\ \A j \in 1..i : front[j] = IF j < i THEN s[j] ELSE e
  BY <1>4, <1>5
<1> HIDE DEF front
<1>7. InsertAt(s, i, e) \in Seq(S) /\ Len(InsertAt(s, i, e)) = Len(s) + 1
  BY <1>1, <1>3, <1>6
<1>8. ASSUME NEW j \in 1..(Len(s) + 1)
      PROVE  InsertAt(s, i, e)[j] = IF j < i THEN s[j] ELSE IF j = i THEN e ELSE s[j - 1]
  <2>1. CASE j <= i
    BY <1>1, <1>3, <1>6, <2>1
  <2>2. CASE j > i
    <3>1. (front \o high)[j] = high[j - i]
      BY <1>1, <1>3, <1>6, <2>2
    <3>2. high[j - i] = s[j - 1]
      BY <1>1, <1>3, <2>2
    <3> QED
      BY <1>6, <2>2, <3>1, <3>2
  <2> QED
    BY <1>1, <2>1, <2>2
<1> QED
  BY <1>7, <1>8 DEF Inserted

(* A cell at its first slot leaves the cells sorted.                       *)
LEMMA InsertKeepsSorted ==
    ASSUME NEW S, \A c \in S : c.key \in Nat, NEW cells \in Seq(S), Sorted(cells),
           NEW k \in Nat, NEW e \in S, e.key = k
    PROVE  Sorted(InsertAt(cells, FirstSlot(cells, k), e))
<1> DEFINE N == Len(cells)
           x == FirstSlot(cells, k)
           more == InsertAt(cells, x, e)
<1>1. N \in Nat /\ DOMAIN cells = 1..N /\ \A i \in 1..N : cells[i].key \in Nat
  BY ElementOfSeq, LenProperties
<1>2. x \in 1..(N + 1) /\ \A i \in 1..N : cells[i].key < k <=> i < x
  BY FirstSlotSplits
<1>3. /\ more \in Seq(S) /\ Len(more) = N + 1
      /\ \A j \in 1..(N + 1) : more[j] = IF j < x THEN cells[j] ELSE IF j = x THEN e ELSE cells[j - 1]
  <2>1. more \in Seq(S) /\ Inserted(more, cells, x, e)
    <3> HIDE DEF x
    <3> QED
      BY <1>2, InsertAtIs
  <2> HIDE DEF more, x
  <2> QED
    BY <2>1 DEF Inserted
<1>4. DOMAIN more = 1..(N + 1)
  BY <1>1, <1>3, LenProperties
<1> HIDE DEF N, x, more
<1> SUFFICES ASSUME NEW i \in 1..(N + 1), NEW j \in 1..(N + 1), i < j
             PROVE  more[i].key <= more[j].key
  BY <1>4 DEF Sorted, more, x
<1>5. CASE j < x
  <2>1. i \in 1..N /\ j \in 1..N /\ more[i] = cells[i] /\ more[j] = cells[j]
    BY <1>1, <1>2, <1>3, <1>5
  <2> QED
    BY <1>1, <2>1 DEF Sorted
<1>6. CASE j = x
  <2>1. more[j].key = k /\ more[i] = cells[i] /\ i \in 1..N
    BY <1>1, <1>2, <1>3, <1>6
  <2> QED
    BY <1>1, <1>2, <1>6, <2>1
<1>7. CASE j > x
  <2>1. j - 1 \in 1..N /\ more[j] = cells[j - 1]
    BY <1>1, <1>2, <1>3, <1>7
  <2>2. CASE i < x
    <3>1. more[i] = cells[i] /\ i \in 1..N /\ i < j - 1
      BY <1>1, <1>2, <1>3, <1>7, <2>2
    <3> QED
      BY <1>1, <2>1, <3>1 DEF Sorted
  <2>3. CASE i = x
    <3>1. more[i].key = k /\ ~(j - 1 < x)
      BY <1>1, <1>2, <1>3, <1>7, <2>3
    <3>2. ~(cells[j - 1].key < k)
      BY <1>2, <2>1, <3>1
    <3> QED
      BY <1>1, <2>1, <3>1, <3>2
  <2>4. CASE i > x
    <3>1. more[i] = cells[i - 1] /\ i - 1 \in 1..N /\ i - 1 < j - 1
      BY <1>1, <1>2, <1>3, <2>4
    <3> QED
      BY <1>1, <2>1, <3>1 DEF Sorted
  <2> QED
    BY <1>2, <2>2, <2>3, <2>4
<1> QED
  BY <1>2, <1>5, <1>6, <1>7

LEMMA KeptIs ==
    ASSUME NEW S, NEW cells \in Seq(S)
    PROVE  /\ Len(cells) \div 2 \in Nat /\ Len(cells) \div 2 <= Len(cells)
           /\ Kept(cells) \in Seq(S) /\ Len(Kept(cells)) = Len(cells) \div 2
           /\ \A i \in 1..(Len(cells) \div 2) : Kept(cells)[i] = cells[i]
<1>1. Len(cells) \in Nat /\ \A i \in 1..Len(cells) : cells[i] \in S
  BY ElementOfSeq, LenProperties
<1>2. PICK h : h = Len(cells) \div 2 /\ h \in Nat /\ h <= Len(cells)
  BY <1>1
<1>3. Kept(cells) = SubSeq(cells, 1, h)
  BY <1>2 DEF Kept
<1>4. Kept(cells) \in Seq(S) /\ Len(Kept(cells)) = h /\ \A i \in 1..h : Kept(cells)[i] = cells[i]
  BY <1>1, <1>2, <1>3
<1> QED
  BY <1>2, <1>4

LEMMA CopiedIs ==
    ASSUME NEW cells \in Seq(LeafCell)
    PROVE  /\ Copied(cells) \in Seq(LeafCell)
           /\ Len(Copied(cells)) = Len(cells) - Len(cells) \div 2
           /\ Len(cells) - Len(cells) \div 2 \in 0..Len(cells)
           /\ cells # <<>> => Len(Copied(cells)) >= 1 /\ Len(cells) >= 1
           /\ \A i \in 1..(Len(cells) - Len(cells) \div 2) :
                 Copied(cells)[i] = [key |-> cells[Len(cells) \div 2 + i].key, deleted |-> FALSE]
<1>1. Len(cells) \in Nat /\ \A i \in 1..Len(cells) : cells[i].key \in Keys
  <2>1. Len(cells) \in Nat /\ \A i \in 1..Len(cells) : cells[i] \in LeafCell
    BY ElementOfSeq, LenProperties
  <2> QED
    BY <2>1 DEF LeafCell
<1>2. PICK h \in Nat : h = Len(cells) \div 2 /\ h <= Len(cells) /\ (Len(cells) >= 1 => Len(cells) - h >= 1)
  BY <1>1
<1>3. Copied(cells) = [i \in 1..(Len(cells) - h) |-> [key |-> cells[h + i].key, deleted |-> FALSE]]
  BY <1>2 DEF Copied
<1>4. \A i \in 1..(Len(cells) - h) : h + i \in 1..Len(cells)
  BY <1>1, <1>2
<1>5. Copied(cells) \in Seq(LeafCell) /\ Len(Copied(cells)) = Len(cells) - h
  BY <1>1, <1>2, <1>3, <1>4 DEF LeafCell
<1>6. cells # <<>> => Len(cells) >= 1
  BY <1>1
<1>7. \A i \in 1..(Len(cells) - h) : Copied(cells)[i] = [key |-> cells[h + i].key, deleted |-> FALSE]
  BY <1>3
<1>8. Len(cells) - h \in 0..Len(cells) /\ (cells # <<>> => Len(cells) - h >= 1)
  BY <1>1, <1>2, <1>6
<1> QED
  BY <1>2, <1>5, <1>6, <1>7, <1>8

(* Fewer cells in the same order are sorted.                               *)
LEMMA SomeKeepSorted ==
    ASSUME NEW cells, NEW some, Sorted(cells), NEW at \in [DOMAIN some -> DOMAIN cells],
           \A i, j \in DOMAIN some : i < j => at[i] < at[j],
           \A i \in DOMAIN some : some[i].key = cells[at[i]].key
    PROVE  Sorted(some)
BY DEF Sorted

-----------------------------------------------------------------------------
(* Walks along the next pointers.                                          *)

LEMMA WalkIs ==
    ASSUME Len(pages) \in Nat, \A q \in Leaves : Page(q).next \in Leaves \union {Nil},
           NEW p \in Leaves \union {Nil}
    PROVE  /\ Walk(p) \in [0..Len(pages) -> Leaves \union {Nil}]
           /\ Walk(p)[0] = p
           /\ \A n \in 1..Len(pages) :
                 Walk(p)[n] = IF Walk(p)[n - 1] = Nil THEN Nil ELSE Page(Walk(p)[n - 1]).next
<1> DEFINE N == Len(pages)
           S == Leaves \union {Nil}
           next == [q \in S |-> IF q = Nil THEN Nil ELSE Page(q).next]
           step == [x \in (1..N) \X S |-> next[x[2]]]
           Meets(f) == f = [n \in 0..N |-> IF n = 0 THEN p ELSE next[f[n - 1]]]
<1>1. next \in [S -> S] /\ step \in [(1..N) \X S -> S]
  OBVIOUS
<1>2. PICK h : Iterates(h, N, S, p, step)
  <2> HIDE DEF N, S, step
  <2> QED
    BY <1>1, IterationExists DEF N, S
<1>3. Walk(p) = CHOOSE f : Meets(f)
  BY DEF Walk
<1>4. ASSUME NEW f, Meets(f)
      PROVE  f[0] = p /\ \A n \in 1..N : f[n] = next[f[n - 1]]
  <2> HIDE DEF next
  <2>1. f = [n \in 0..N |-> IF n = 0 THEN p ELSE next[f[n - 1]]]
    BY <1>4
  <2>2. 0 \in 0..N /\ \A n \in 1..N : n \in 0..N /\ n # 0
    OBVIOUS
  <2>3. \A n \in 0..N : f[n] = IF n = 0 THEN p ELSE next[f[n - 1]]
    BY <2>1, Zenon
  <2> QED
    BY <2>2, <2>3
<1>5. Meets(h)
  <2> HIDE DEF next, S
  <2>1. h \in [0..N -> S] /\ h[0] = p /\ \A n \in 1..N : h[n] = step[<<n, h[n - 1]>>]
    <3> HIDE DEF step
    <3> QED
      BY <1>2 DEF Iterates
  <2>2. ASSUME NEW n \in 0..N PROVE h[n] = IF n = 0 THEN p ELSE next[h[n - 1]]
    <3>1. CASE n = 0
      BY <2>1, <3>1
    <3>2. CASE n # 0
      <4>1. n \in 1..N /\ n - 1 \in 0..N
        BY <3>2
      <4>2. h[n - 1] \in S
        BY <2>1, <4>1
      <4> QED
        BY <2>1, <3>2, <4>1, <4>2
    <3> QED
      BY <3>1, <3>2
  <2>3. h = [n \in 0..N |-> h[n]]
    BY <2>1
  <2> HIDE DEF step
  <2> QED
    BY <2>2, <2>3
<1>6. PICK w : w = Walk(p) /\ Meets(w)
  <2> HIDE DEF Meets
  <2> QED
    BY <1>3, <1>5
<1>7. w[0] = p /\ \A n \in 1..N : w[n] = next[w[n - 1]]
  <2> HIDE DEF Meets, N, next
  <2> QED
    BY <1>4, <1>6
<1>8. DOMAIN w = 0..N /\ w = [n \in 0..N |-> w[n]]
  <2> HIDE DEF next
  <2>1. w = [n \in 0..N |-> IF n = 0 THEN p ELSE next[w[n - 1]]]
    BY <1>6
  <2> QED
    BY <2>1
<1> DEFINE T == {n \in 0..N : w[n] \in S}
<1>9. \A n \in 0..N : n \in T
  <2>1. 0 \in T
    BY <1>7
  <2>2. ASSUME NEW n \in 1..N, n - 1 \in T PROVE n \in T
    <3> HIDE DEF next, S
    <3> QED
      BY <1>1, <1>7, <2>2
  <2> HIDE DEF T
  <2> QED
    BY <2>1, <2>2, UpwardClosed
<1>10. w \in [0..N -> S]
  BY <1>8, <1>9
<1>11. ASSUME NEW n \in 1..N PROVE w[n] = IF w[n - 1] = Nil THEN Nil ELSE Page(w[n - 1]).next
  <2>1. w[n - 1] \in S
    <3> HIDE DEF S
    <3> QED
      BY <1>10
  <2> QED
    BY <1>7, <2>1
<1> QED
  BY <1>6, <1>7, <1>10, <1>11

-----------------------------------------------------------------------------
(* Pages.  The first split makes page 4 the root for good (RootIsPage4);   *)
(* all other pages are leaves.                                             *)

Ids(n) == (2..(n + 1)) \ {4}

LeafPage(ids) ==
    [level : {"leaf"}, cells : Seq(LeafCell), used : 0..LeafCap,
     next : ids \union {Nil}, prev : ids \union {Nil}]
NodeCell(ids) == [key : Keys, child : ids]
NodePage(ids) == [level : {"internal"}, rightmost : ids, cells : Seq(NodeCell(ids))]

(* Where each deletion purges its leaf no record stays marked.             *)
IsLeafPage(page, ids) ==
    /\ page \in LeafPage(ids)
    /\ Len(page.cells) <= page.used
    /\ Sorted(page.cells)
    /\ PurgeAt = 1 => \A i \in DOMAIN page.cells : ~page.cells[i].deleted

IsNodePage(page, ids) ==
    /\ page \in NodePage(ids)
    /\ Len(page.cells) \in 1..InternalCap
    /\ Sorted(page.cells)

ArePages(pgs, n) ==
    /\ n \in Nat
    /\ Len(pgs) = n
    /\ pgs \in Seq(LeafPage(Ids(n)) \union NodePage(Ids(n)))
    /\ \A p \in Ids(n) : IsLeafPage(pgs[p - 1], Ids(n))

LEMMA IdTypes == ASSUME NEW n \in Nat, NEW p \in Ids(n)
                 PROVE  p \in Nat /\ p - 1 \in 1..n /\ p # Nil /\ p # 4
BY DEF Ids, Nil

LEMMA WithLeaf ==
    ASSUME NEW pgs, NEW n, ArePages(pgs, n), NEW p \in Ids(n), NEW page, IsLeafPage(page, Ids(n))
    PROVE  /\ ArePages(With(pgs, p, page), n)
           /\ With(pgs, p, page)[p - 1] = page
           /\ \A i \in 1..n : i # p - 1 => With(pgs, p, page)[i] = pgs[i]
<1> DEFINE new == With(pgs, p, page)
           S == LeafPage(Ids(n)) \union NodePage(Ids(n))
<1>1. n \in Nat /\ Len(pgs) = n /\ pgs \in Seq(S) /\ page \in S
  BY DEF ArePages, IsLeafPage
<1>2. p - 1 \in 1..n
  BY <1>1, IdTypes
<1> HIDE DEF S
<1>3. /\ Len(new) = n /\ new \in Seq(S) /\ new[p - 1] = page
      /\ \A i \in 1..n : i # p - 1 => new[i] = pgs[i]
  BY <1>1, <1>2 DEF With
<1> HIDE DEF new
<1>4. \A q \in Ids(n) : IsLeafPage(new[q - 1], Ids(n))
  <2> SUFFICES ASSUME NEW q \in Ids(n) PROVE IsLeafPage(new[q - 1], Ids(n))
    OBVIOUS
  <2>1. q - 1 \in 1..n
    BY <1>1, IdTypes
  <2> QED
    BY <1>3, <2>1 DEF ArePages
<1> QED
  BY <1>1, <1>3, <1>4 DEF ArePages, new, S

LEMMA WithNode ==
    ASSUME NEW pgs, NEW n, ArePages(pgs, n), n >= 3, NEW page \in NodePage(Ids(n))
    PROVE  /\ ArePages(With(pgs, 4, page), n)
           /\ With(pgs, 4, page)[3] = page
           /\ \A i \in 1..n : i # 3 => With(pgs, 4, page)[i] = pgs[i]
<1> DEFINE new == With(pgs, 4, page)
           S == LeafPage(Ids(n)) \union NodePage(Ids(n))
<1>1. n \in Nat /\ Len(pgs) = n /\ pgs \in Seq(S) /\ page \in S /\ 3 \in 1..n
  BY DEF ArePages
<1> HIDE DEF S
<1>2. new = [pgs EXCEPT ![3] = page]
  BY DEF With
<1>3. /\ Len(new) = n /\ new \in Seq(S) /\ new[3] = page
      /\ \A i \in 1..n : i # 3 => new[i] = pgs[i]
  <2> HIDE DEF new
  <2> QED
    BY <1>1, <1>2
<1> HIDE DEF new
<1>4. \A q \in Ids(n) : IsLeafPage(new[q - 1], Ids(n))
  <2> SUFFICES ASSUME NEW q \in Ids(n) PROVE IsLeafPage(new[q - 1], Ids(n))
    OBVIOUS
  <2>1. q - 1 \in 1..n /\ q - 1 # 3
    BY <1>1, IdTypes
  <2> QED
    BY <1>3, <2>1 DEF ArePages
<1> QED
  BY <1>1, <1>3, <1>4 DEF ArePages, new, S

LEMMA RelinkedLeaf ==
    ASSUME NEW ids, NEW page, IsLeafPage(page, ids), NEW link \in ids \union {Nil}
    PROVE  /\ IsLeafPage([page EXCEPT !.next = link], ids)
           /\ IsLeafPage([page EXCEPT !.prev = link], ids)
BY DEF IsLeafPage, LeafPage

LEMMA RelinkedFields ==
    ASSUME NEW ids, NEW page, IsLeafPage(page, ids), NEW link
    PROVE  /\ [page EXCEPT !.next = link].cells = page.cells
           /\ [page EXCEPT !.next = link].used = page.used
           /\ [page EXCEPT !.next = link].next = link
           /\ [page EXCEPT !.next = link].prev = page.prev
           /\ [page EXCEPT !.prev = link].cells = page.cells
           /\ [page EXCEPT !.prev = link].used = page.used
           /\ [page EXCEPT !.prev = link].next = page.next
           /\ [page EXCEPT !.prev = link].prev = link
BY DEF IsLeafPage, LeafPage

NextOnly(new, pgs, n, p, link) ==
    /\ ArePages(new, n)
    /\ \A i \in 1..n : i # p - 1 => new[i] = pgs[i]
    /\ \A q \in Ids(n) :
          /\ new[q - 1].cells = pgs[q - 1].cells
          /\ new[q - 1].used = pgs[q - 1].used
          /\ new[q - 1].prev = pgs[q - 1].prev
          /\ new[q - 1].next = IF q = p THEN link ELSE pgs[q - 1].next

LEMMA SetNextIs ==
    ASSUME NEW pgs, NEW n, ArePages(pgs, n), NEW p \in Ids(n), NEW link \in Ids(n) \union {Nil}
    PROVE  NextOnly(SetNext(pgs, p, link), pgs, n, p, link)
<1> DEFINE old == pgs[p - 1]
           page == [old EXCEPT !.next = link]
           new == SetNext(pgs, p, link)
<1>1. IsLeafPage(old, Ids(n))
  BY DEF ArePages
<1>2. IsLeafPage(page, Ids(n))
  <2> HIDE DEF old
  <2> QED
    BY <1>1, RelinkedLeaf
<1>3. new = With(pgs, p, page)
  BY DEF SetNext, With
<1>4. /\ page.cells = old.cells /\ page.used = old.used
      /\ page.prev = old.prev /\ page.next = link
  <2> HIDE DEF old
  <2> QED
    BY <1>1, RelinkedFields
<1> HIDE DEF page, new
<1>5. ArePages(new, n) /\ new[p - 1] = page /\ \A i \in 1..n : i # p - 1 => new[i] = pgs[i]
  BY <1>2, <1>3, WithLeaf
<1>6. ASSUME NEW q \in Ids(n)
      PROVE  /\ new[q - 1].cells = pgs[q - 1].cells /\ new[q - 1].used = pgs[q - 1].used
             /\ new[q - 1].prev = pgs[q - 1].prev
             /\ new[q - 1].next = IF q = p THEN link ELSE pgs[q - 1].next
  <2>1. q - 1 \in 1..n /\ (q # p => q - 1 # p - 1)
    BY IdTypes DEF ArePages
  <2>2. CASE q = p
    BY <1>4, <1>5, <2>2
  <2>3. CASE q # p
    BY <1>5, <2>1, <2>3
  <2> QED
    BY <2>2, <2>3
<1> QED
  BY <1>5, <1>6 DEF new, NextOnly

PrevOnly(new, pgs, n, p, link) ==
    /\ ArePages(new, n)
    /\ \A i \in 1..n : i # p - 1 => new[i] = pgs[i]
    /\ \A q \in Ids(n) :
          /\ new[q - 1].cells = pgs[q - 1].cells
          /\ new[q - 1].used = pgs[q - 1].used
          /\ new[q - 1].next = pgs[q - 1].next
          /\ new[q - 1].prev = IF q = p THEN link ELSE pgs[q - 1].prev

LEMMA SetPrevIs ==
    ASSUME NEW pgs, NEW n, ArePages(pgs, n), NEW p \in Ids(n), NEW link \in Ids(n) \union {Nil}
    PROVE  PrevOnly(SetPrev(pgs, p, link), pgs, n, p, link)
<1> DEFINE old == pgs[p - 1]
           page == [old EXCEPT !.prev = link]
           new == SetPrev(pgs, p, link)
<1>1. IsLeafPage(old, Ids(n))
  BY DEF ArePages
<1>2. IsLeafPage(page, Ids(n))
  <2> HIDE DEF old
  <2> QED
    BY <1>1, RelinkedLeaf
<1>3. new = With(pgs, p, page)
  BY DEF SetPrev, With
<1>4. /\ page.cells = old.cells /\ page.used = old.used
      /\ page.next = old.next /\ page.prev = link
  <2> HIDE DEF old
  <2> QED
    BY <1>1, RelinkedFields
<1> HIDE DEF page, new
<1>5. ArePages(new, n) /\ new[p - 1] = page /\ \A i \in 1..n : i # p - 1 => new[i] = pgs[i]
  BY <1>2, <1>3, WithLeaf
<1>6. ASSUME NEW q \in Ids(n)
      PROVE  /\ new[q - 1].cells = pgs[q - 1].cells /\ new[q - 1].used = pgs[q - 1].used
             /\ new[q - 1].next = pgs[q - 1].next
             /\ new[q - 1].prev = IF q = p THEN link ELSE pgs[q - 1].prev
  <2>1. q - 1 \in 1..n /\ (q # p => q - 1 # p - 1)
    BY IdTypes DEF ArePages
  <2>2. CASE q = p
    BY <1>4, <1>5, <2>2
  <2>3. CASE q # p
    BY <1>5, <2>1, <2>3
  <2> QED
    BY <2>2, <2>3
<1> QED
  BY <1>5, <1>6 DEF new, PrevOnly

LEMMA MoreIds ==
    ASSUME NEW n \in Nat, NEW m \in Nat, n <= m
    PROVE  /\ Ids(n) \subseteq Ids(m)
           /\ LeafPage(Ids(n)) \union NodePage(Ids(n)) \subseteq LeafPage(Ids(m)) \union NodePage(Ids(m))
           /\ \A page : IsLeafPage(page, Ids(n)) => IsLeafPage(page, Ids(m))
           /\ \A page : IsNodePage(page, Ids(n)) => IsNodePage(page, Ids(m))
<1>1. Ids(n) \subseteq Ids(m)
  BY DEF Ids
<1>2. LeafPage(Ids(n)) \subseteq LeafPage(Ids(m))
  BY <1>1 DEF LeafPage
<1>3. NodePage(Ids(n)) \subseteq NodePage(Ids(m))
  <2> DEFINE A == NodeCell(Ids(n))
             B == NodeCell(Ids(m))
  <2>1. A \subseteq B
    BY <1>1 DEF NodeCell
  <2> HIDE DEF A, B
  <2>2. Seq(A) \subseteq Seq(B)
    BY <2>1
  <2> QED
    BY <1>1, <2>2 DEF NodePage, A, B
<1> QED
  BY <1>1, <1>2, <1>3 DEF IsLeafPage, IsNodePage

LEMMA EmptyLeafIs == \A ids : IsLeafPage(EmptyLeaf, ids)
<1>1. <<>> \in Seq(LeafCell) /\ Len(<<>>) = 0 /\ DOMAIN <<>> = {} /\ 0 \in 0..LeafCap
  BY TreeAssumption
<1> QED
  BY <1>1 DEF EmptyLeaf, IsLeafPage, LeafPage, Sorted

(* What one or two calls of allocate_page leave.                           *)
LEMMA GrownIs ==
    ASSUME NEW n, ArePages(pages, n), free \in Seq(Ids(n)), NEW k \in {1, 2}
    PROVE  \E m \in Nat :
              /\ m = IF Len(free) >= k THEN n ELSE n + k - Len(free)
              /\ ArePages(Grown(k), m)
              /\ \A i \in 1..n : Grown(k)[i] = pages[i]
              /\ \A i \in (n + 1)..m : Grown(k)[i] = EmptyLeaf
              /\ NewPage(k) \in 2..(m + 1)
              /\ NewPage(k) = IF Len(free) >= k THEN free[k] ELSE n + 1 + k - Len(free)
              /\ FreeAfter(k) \in Seq(Ids(m))
              /\ ToSet(FreeAfter(k)) \subseteq ToSet(free)
<1>1. n \in Nat /\ Len(pages) = n /\ Len(free) \in Nat /\ k \in Nat
  BY LenProperties DEF ArePages
<1>2. PICK m \in Nat : m = IF Len(free) >= k THEN n ELSE n + k - Len(free)
  BY <1>1
<1>3. n <= m
  BY <1>1, <1>2
<1>4. PICK j \in Nat : j = IF Len(free) >= k THEN 0 ELSE k - Len(free)
  BY <1>1
<1>5. m = n + j
  BY <1>1, <1>2, <1>4
<1> DEFINE S == LeafPage(Ids(m)) \union NodePage(Ids(m))
           more == [i \in 1..j |-> EmptyLeaf]
<1>6. Grown(k) = pages \o more
  BY <1>4 DEF Grown
<1>7. pages \in Seq(S)
  <2> DEFINE A == LeafPage(Ids(n)) \union NodePage(Ids(n))
  <2>1. A \subseteq S /\ pages \in Seq(A)
    BY <1>1, <1>3, MoreIds DEF ArePages
  <2> HIDE DEF A, S
  <2> QED
    BY <2>1
<1>8. more \in Seq(S) /\ Len(more) = j
  <2>1. EmptyLeaf \in S
    BY EmptyLeafIs DEF IsLeafPage
  <2> HIDE DEF S
  <2> QED
    BY <2>1
<1>9. \A i \in 1..j : more[i] = EmptyLeaf
  OBVIOUS
<1> HIDE DEF S, more
<1>10. /\ Grown(k) \in Seq(S) /\ Len(Grown(k)) = m
       /\ \A i \in 1..n : Grown(k)[i] = pages[i]
       /\ \A i \in (n + 1)..m : Grown(k)[i] = EmptyLeaf
  <2>1. Grown(k) \in Seq(S) /\ Len(Grown(k)) = m
    <3>1. pages \o more \in Seq(S)
      BY <1>7, <1>8
    <3>2. Len(pages \o more) = Len(pages) + Len(more)
      BY <1>7, <1>8
    <3> QED
      BY <1>1, <1>5, <1>6, <1>8, <3>1, <3>2
  <2>2. \A i \in 1..n : Grown(k)[i] = pages[i]
    BY <1>1, <1>5, <1>6, <1>7, <1>8
  <2>3. ASSUME NEW i \in (n + 1)..m PROVE Grown(k)[i] = EmptyLeaf
    <3>1. i - n \in 1..j
      BY <1>1, <1>5
    <3>2. (pages \o more)[i] = more[i - n]
      BY <1>1, <1>5, <1>7, <1>8
    <3> QED
      BY <1>6, <1>9, <3>1, <3>2
  <2> QED
    BY <2>1, <2>2, <2>3
<1>11. \A p \in Ids(m) : IsLeafPage(Grown(k)[p - 1], Ids(m))
  <2> SUFFICES ASSUME NEW p \in Ids(m) PROVE IsLeafPage(Grown(k)[p - 1], Ids(m))
    OBVIOUS
  <2>1. p - 1 \in 1..m /\ p \in Nat
    BY IdTypes
  <2>2. CASE p - 1 <= n
    <3>1. p \in Ids(n) /\ p - 1 \in 1..n
      BY <1>1, <2>1, <2>2 DEF Ids
    <3>2. IsLeafPage(pages[p - 1], Ids(n))
      BY <3>1 DEF ArePages
    <3> QED
      BY <1>1, <1>3, <1>10, <3>1, <3>2, MoreIds
  <2>3. CASE p - 1 > n
    BY <1>1, <1>10, <2>1, <2>3, EmptyLeafIs
  <2> QED
    BY <1>1, <2>1, <2>2, <2>3
<1>12. ArePages(Grown(k), m)
  BY <1>10, <1>11 DEF ArePages, S
<1>13. NewPage(k) = IF Len(free) >= k THEN free[k] ELSE n + 1 + k - Len(free)
  BY <1>1 DEF NewPage
<1>14. NewPage(k) \in 2..(m + 1)
  <2>1. CASE Len(free) >= k
    <3>1. free[k] \in Ids(n)
      BY <1>1, <2>1, ElementOfSeq
    <3> QED
      BY <1>1, <1>2, <1>13, <2>1, <3>1 DEF Ids
  <2>2. CASE Len(free) < k
    BY <1>1, <1>2, <1>13, <2>2
  <2> QED
    BY <1>1, <2>1, <2>2
<1>15. FreeAfter(k) \in Seq(Ids(m)) /\ ToSet(FreeAfter(k)) \subseteq ToSet(free)
  <2>1. Ids(n) \subseteq Ids(m)
    BY <1>1, <1>3, MoreIds
  <2> DEFINE A == Ids(n)
             B == Ids(m)
  <2> HIDE DEF A, B
  <2>2. FreeAfter(k) \in Seq(A) /\ \A i \in DOMAIN FreeAfter(k) : k + i \in DOMAIN free /\ FreeAfter(k)[i] = free[k + i]
    BY <1>1 DEF FreeAfter, A
  <2>3. FreeAfter(k) \in Seq(B)
    BY <2>1, <2>2 DEF A, B
  <2> QED
    BY <2>2, <2>3 DEF ToSet, B
<1> QED
  BY <1>2, <1>10, <1>12, <1>13, <1>14, <1>15

(* The pages after the linking of split_leaf: the cells are those of       *)
(* before, the new leaf has none, and if it was not in the chain it comes  *)
(* after the full one.                                                     *)
LEMMA LinkedIs ==
    ASSUME NEW m, ArePages(Grown(1), m), NEW p \in Ids(m), NewPage(1) \in Ids(m)
    PROVE  /\ ArePages(Linked(p), m)
           /\ \A q \in Ids(m) :
                 /\ Linked(p)[q - 1].cells = IF q = NewPage(1) THEN <<>> ELSE Grown(1)[q - 1].cells
                 /\ Linked(p)[q - 1].used = IF q = NewPage(1) THEN 0 ELSE Grown(1)[q - 1].used
           /\ 3 \in 1..m => Linked(p)[3] = Grown(1)[3]
           /\ p # NewPage(1) /\ Grown(1)[p - 1].next # NewPage(1) =>
                 \A q \in Ids(m) :
                    /\ Linked(p)[q - 1].next = IF q = p THEN NewPage(1)
                                               ELSE IF q = NewPage(1) THEN Grown(1)[p - 1].next
                                               ELSE Grown(1)[q - 1].next
                    /\ Linked(p)[q - 1].prev = IF q = NewPage(1) THEN p
                                               ELSE IF q = Grown(1)[p - 1].next THEN NewPage(1)
                                               ELSE Grown(1)[q - 1].prev
<1> PICK new \in Ids(m) : new = NewPage(1)
  OBVIOUS
<1> DEFINE page == [EmptyLeaf EXCEPT !.prev = p]
           begun == With(Grown(1), new, page)
           next == begun[p - 1].next
           half == SetNext(begun, p, new)
           joined == SetNext(half, new, next)
           done == IF next = Nil THEN joined ELSE SetPrev(joined, next, new)
<1>1. m \in Nat /\ new - 1 \in 1..m /\ p - 1 \in 1..m /\ new \in Nat /\ p \in Nat
      /\ \A q \in Ids(m) : q \in Nat /\ q - 1 \in 1..m /\ q # Nil
  BY IdTypes DEF ArePages
<1>2. /\ page = [level |-> "leaf", cells |-> <<>>, used |-> 0, next |-> Nil, prev |-> p]
      /\ IsLeafPage(page, Ids(m))
  <2>1. page = [level |-> "leaf", cells |-> <<>>, used |-> 0, next |-> Nil, prev |-> p]
    BY DEF EmptyLeaf
  <2> QED
    BY <2>1, EmptyLeafIs, RelinkedLeaf
<1>3. /\ ArePages(begun, m) /\ begun[new - 1] = page
      /\ \A i \in 1..m : i # new - 1 => begun[i] = Grown(1)[i]
  BY <1>2, WithLeaf
<1>4. next \in Ids(m) \union {Nil}
  BY <1>3 DEF ArePages, IsLeafPage, LeafPage
<1>5. /\ ArePages(half, m)
      /\ \A i \in 1..m : i # p - 1 => half[i] = begun[i]
      /\ \A q \in Ids(m) : /\ half[q - 1].cells = begun[q - 1].cells
                            /\ half[q - 1].used = begun[q - 1].used
                            /\ half[q - 1].prev = begun[q - 1].prev
                            /\ half[q - 1].next = IF q = p THEN new ELSE begun[q - 1].next
  <2> HIDE DEF begun
  <2>1. NextOnly(half, begun, m, p, new)
    BY <1>3, SetNextIs
  <2> HIDE DEF half
  <2> QED
    BY <2>1 DEF NextOnly
<1>6. /\ ArePages(joined, m)
      /\ \A i \in 1..m : i # new - 1 => joined[i] = half[i]
      /\ \A q \in Ids(m) : /\ joined[q - 1].cells = half[q - 1].cells
                            /\ joined[q - 1].used = half[q - 1].used
                            /\ joined[q - 1].prev = half[q - 1].prev
                            /\ joined[q - 1].next = IF q = new THEN next ELSE half[q - 1].next
  <2> HIDE DEF half, next
  <2>1. NextOnly(joined, half, m, new, next)
    BY <1>4, <1>5, SetNextIs
  <2> HIDE DEF joined
  <2> QED
    BY <2>1 DEF NextOnly
<1>7. ASSUME next # Nil
      PROVE  /\ ArePages(SetPrev(joined, next, new), m)
             /\ \A i \in 1..m : i # next - 1 => SetPrev(joined, next, new)[i] = joined[i]
             /\ \A q \in Ids(m) :
                   /\ SetPrev(joined, next, new)[q - 1].cells = joined[q - 1].cells
                   /\ SetPrev(joined, next, new)[q - 1].used = joined[q - 1].used
                   /\ SetPrev(joined, next, new)[q - 1].next = joined[q - 1].next
                   /\ SetPrev(joined, next, new)[q - 1].prev = IF q = next THEN new
                                                              ELSE joined[q - 1].prev
  <2> HIDE DEF joined, next
  <2> DEFINE last == SetPrev(joined, next, new)
  <2>1. PrevOnly(last, joined, m, next, new)
    BY <1>4, <1>6, <1>7, SetPrevIs
  <2> HIDE DEF last
  <2>2. /\ ArePages(last, m)
        /\ \A i \in 1..m : i # next - 1 => last[i] = joined[i]
        /\ \A q \in Ids(m) :
              /\ last[q - 1].cells = joined[q - 1].cells
              /\ last[q - 1].used = joined[q - 1].used
              /\ last[q - 1].next = joined[q - 1].next
              /\ last[q - 1].prev = IF q = next THEN new ELSE joined[q - 1].prev
    BY <2>1 DEF PrevOnly
  <2> QED
    BY <2>2 DEF last
<1>8. done = Linked(p)
  BY DEF Linked
<1> HIDE DEF page, begun, half, joined, next
<1>9. ArePages(done, m)
  BY <1>6, <1>7
<1>10. ASSUME NEW q \in Ids(m)
       PROVE  /\ done[q - 1].cells = joined[q - 1].cells /\ done[q - 1].used = joined[q - 1].used
              /\ done[q - 1].next = joined[q - 1].next
              /\ done[q - 1].prev = IF q = next THEN new ELSE joined[q - 1].prev
  <2>1. CASE next = Nil
    BY <1>1, <2>1
  <2>2. CASE next # Nil
    BY <1>7, <2>2
  <2> QED
    BY <2>1, <2>2
<1>11. ASSUME NEW q \in Ids(m)
       PROVE  /\ done[q - 1].cells = IF q = new THEN <<>> ELSE Grown(1)[q - 1].cells
              /\ done[q - 1].used = IF q = new THEN 0 ELSE Grown(1)[q - 1].used
  <2>1. q - 1 \in 1..m /\ (q # new => q - 1 # new - 1)
    BY <1>1
  <2>2. /\ begun[q - 1].cells = IF q = new THEN <<>> ELSE Grown(1)[q - 1].cells
        /\ begun[q - 1].used = IF q = new THEN 0 ELSE Grown(1)[q - 1].used
    BY <1>2, <1>3, <2>1
  <2> HIDE DEF done
  <2> QED
    BY <1>5, <1>6, <1>10, <2>2
<1>12. ASSUME 3 \in 1..m PROVE done[3] = Grown(1)[3]
  <2>1. new - 1 # 3 /\ p - 1 # 3 /\ (next # Nil => next - 1 # 3)
    BY <1>1, <1>4 DEF Ids
  <2>2. joined[3] = Grown(1)[3]
    BY <1>3, <1>5, <1>6, <1>12, <2>1
  <2> QED
    BY <1>7, <1>12, <2>1, <2>2
<1>13. ASSUME p # new, Grown(1)[p - 1].next # new, NEW q \in Ids(m)
       PROVE  /\ done[q - 1].next = IF q = p THEN new
                                    ELSE IF q = new THEN Grown(1)[p - 1].next
                                    ELSE Grown(1)[q - 1].next
              /\ done[q - 1].prev = IF q = new THEN p
                                    ELSE IF q = Grown(1)[p - 1].next THEN new
                                    ELSE Grown(1)[q - 1].prev
  <2>1. /\ q - 1 \in 1..m /\ (q # new => q - 1 # new - 1) /\ (q # p => q - 1 # p - 1)
        /\ p - 1 # new - 1
    BY <1>1, <1>13
  <2>2. begun[p - 1] = Grown(1)[p - 1] /\ next = Grown(1)[p - 1].next /\ next # new
    BY <1>1, <1>3, <1>13, <2>1 DEF next
  <2>6. begun[q - 1].prev = IF q = new THEN p ELSE Grown(1)[q - 1].prev
    BY <1>2, <1>3, <2>1
  <2>7. q # new => begun[q - 1] = Grown(1)[q - 1]
    BY <1>3, <2>1
  <2> HIDE DEF done
  <2>8. done[q - 1].next = IF q = p THEN new
                           ELSE IF q = new THEN Grown(1)[p - 1].next
                           ELSE Grown(1)[q - 1].next
    BY <1>5, <1>6, <1>10, <1>13, <2>2, <2>7
  <2>9. done[q - 1].prev = IF q = new THEN p
                           ELSE IF q = Grown(1)[p - 1].next THEN new
                           ELSE Grown(1)[q - 1].prev
    BY <1>5, <1>6, <1>10, <2>2, <2>6
  <2> QED
    BY <2>8, <2>9
<1> HIDE DEF done
<1> QED
  BY <1>8, <1>9, <1>11, <1>12, <1>13

(* Neighbours among sorted cells are sorted.                               *)
LEMMA PartSorted ==
    ASSUME NEW S, NEW cells \in Seq(S), Sorted(cells), NEW d \in Nat, NEW m \in Nat,
           d + m <= Len(cells), NEW part \in Seq(S), Len(part) = m,
           \A i \in 1..m : part[i].key = cells[d + i].key
    PROVE  Sorted(part)
<1>1. Len(cells) \in Nat /\ DOMAIN cells = 1..Len(cells) /\ DOMAIN part = 1..m
  BY LenProperties
<1> DEFINE at == [i \in 1..m |-> d + i]
<1>2. at \in [1..m -> 1..Len(cells)]
  BY <1>1
<1>3. \A i, j \in 1..m : i < j => at[i] < at[j]
  BY <1>1
<1>4. \A i \in 1..m : part[i].key = cells[at[i]].key
  OBVIOUS
<1> HIDE DEF at
<1>5. /\ at \in [DOMAIN part -> DOMAIN cells]
      /\ \A i, j \in DOMAIN part : i < j => at[i] < at[j]
      /\ \A i \in DOMAIN part : part[i].key = cells[at[i]].key
  BY <1>1, <1>2, <1>3, <1>4
<1> QED
  BY <1>5, SomeKeepSorted

(* The two halves of a split page.                                         *)
LEMMA KeptPage ==
    ASSUME NEW ids, NEW page, IsLeafPage(page, ids)
    PROVE  IsLeafPage([page EXCEPT !.cells = Kept(page.cells)], ids)
<1> PICK cells \in Seq(LeafCell) : cells = page.cells
  BY DEF IsLeafPage, LeafPage
<1> DEFINE half == Kept(cells)
           new == [page EXCEPT !.cells = half]
<1>1. /\ Len(cells) \in Nat /\ Len(cells) <= page.used /\ page.used \in Nat
      /\ Sorted(cells) /\ DOMAIN cells = 1..Len(cells)
      /\ PurgeAt = 1 => \A i \in DOMAIN cells : ~cells[i].deleted
  BY LenProperties, TreeAssumption DEF IsLeafPage, LeafPage
<1>2. PICK h \in Nat : h <= Len(cells) /\ half \in Seq(LeafCell) /\ Len(half) = h
                       /\ \A i \in 1..h : half[i] = cells[i]
  BY KeptIs
<1> HIDE DEF half
<1>3. DOMAIN half = 1..h /\ \A i \in 1..h : i \in 1..Len(cells)
  BY <1>1, <1>2, LenProperties
<1>4. Sorted(half)
  <2>1. PICK d \in Nat : d = 0
    OBVIOUS
  <2>2. d + h <= Len(cells) /\ \A i \in 1..h : half[i].key = cells[d + i].key
    BY <1>2, <2>1
  <2> QED
    BY <1>1, <1>2, <2>2, PartSorted
<1>5. Len(half) <= page.used /\ (PurgeAt = 1 => \A i \in DOMAIN half : ~half[i].deleted)
  BY <1>1, <1>2, <1>3
<1>6. new \in LeafPage(ids) /\ new.cells = half /\ new.used = page.used
  BY <1>2 DEF IsLeafPage, LeafPage
<1> HIDE DEF new
<1>7. IsLeafPage(new, ids)
  BY <1>4, <1>5, <1>6 DEF IsLeafPage
<1> QED
  BY <1>7 DEF new, half

LEMMA CopiedPage ==
    ASSUME NEW ids, NEW page, IsLeafPage(page, ids), NEW other, IsLeafPage(other, ids)
    PROVE  IsLeafPage([other EXCEPT !.cells = Copied(page.cells), !.used = Len(Copied(page.cells))], ids)
<1> PICK cells \in Seq(LeafCell) : cells = page.cells
  BY DEF IsLeafPage, LeafPage
<1> DEFINE half == Copied(cells)
           new == [other EXCEPT !.cells = half, !.used = Len(half)]
<1>1. /\ Len(cells) \in Nat /\ Len(cells) <= page.used /\ page.used \in 0..LeafCap
      /\ Sorted(cells) /\ LeafCap \in Nat
  BY LenProperties, TreeAssumption DEF IsLeafPage, LeafPage
<1>2. PICK h \in Nat : /\ h <= Len(cells) /\ half \in Seq(LeafCell) /\ Len(half) = Len(cells) - h
                       /\ \A i \in 1..(Len(cells) - h) :
                             half[i] = [key |-> cells[h + i].key, deleted |-> FALSE]
  BY KeptIs, CopiedIs
<1> HIDE DEF half
<1>3. PICK m \in Nat : m = Len(cells) - h
  <2>1. h <= Len(cells) /\ Len(cells) \in Nat
    BY <1>1, <1>2
  <2>2. Len(cells) - h \in Nat
    BY <2>1
  <2> QED
    BY <2>2
<1>4. DOMAIN half = 1..m /\ Len(half) = m /\ h + m <= Len(cells)
      /\ \A i \in 1..m : half[i].key = cells[h + i].key /\ ~half[i].deleted
  <2>1. h + m <= Len(cells)
    <3>1. Len(cells) \in Nat
      BY <1>1
    <3> QED
      BY <1>3, <3>1
  <2>2. Len(half) = m /\ DOMAIN half = 1..m
    BY <1>2, <1>3, LenProperties
  <2>3. \A i \in 1..m : half[i] = [key |-> cells[h + i].key, deleted |-> FALSE]
    BY <1>2, <1>3
  <2> QED
    BY <2>1, <2>2, <2>3
<1>5. Len(half) \in 0..LeafCap
  BY <1>1, <1>3, <1>4
<1>6. Sorted(half)
  BY <1>1, <1>2, <1>4, PartSorted
<1>7. new \in LeafPage(ids) /\ new.cells = half /\ new.used = Len(half)
  BY <1>2, <1>5 DEF IsLeafPage, LeafPage
<1> HIDE DEF new
<1>8. Len(half) <= new.used
  BY <1>3, <1>4, <1>7
<1>9. IsLeafPage(new, ids)
  BY <1>4, <1>6, <1>7, <1>8 DEF IsLeafPage
<1> QED
  BY <1>9 DEF new, half

(* The cells of leaf p are halved, the upper half goes to the new leaf;    *)
(* the other pages and all links stay.                                     *)
Halved(out, pgs, m, p, new, cells) ==
    /\ ArePages(out, m)
    /\ \A i \in 1..m : i # p - 1 /\ i # new - 1 => out[i] = pgs[i]
    /\ \A q \in Ids(m) :
          /\ out[q - 1].cells = IF q = new THEN Copied(cells)
                                ELSE IF q = p THEN Kept(cells) ELSE pgs[q - 1].cells
          /\ out[q - 1].used = IF q = new THEN Len(Copied(cells)) ELSE pgs[q - 1].used
          /\ out[q - 1].next = pgs[q - 1].next
          /\ out[q - 1].prev = pgs[q - 1].prev

LEMMA TwoAtOnce ==
    ASSUME NEW pgs, NEW i \in DOMAIN pgs, NEW j \in DOMAIN pgs, i # j, NEW x, NEW y, NEW z
    PROVE  [pgs EXCEPT ![i].cells = x, ![j].cells = y, ![j].used = z]
           = [[pgs EXCEPT ![i] = [pgs[i] EXCEPT !.cells = x]] EXCEPT
                 ![j] = [pgs[j] EXCEPT !.cells = y, !.used = z]]
OBVIOUS

LEMMA SplitIs ==
    ASSUME NEW pgs, NEW m, ArePages(pgs, m), NEW p \in Ids(m), NewPage(1) \in Ids(m), p # NewPage(1),
           pgs[p - 1].cells = Page(p).cells
    PROVE  Halved(Split(p, pgs), pgs, m, p, NewPage(1), Page(p).cells)
<1> PICK new \in Ids(m) : new = NewPage(1)
  OBVIOUS
<1> PICK cells \in Seq(LeafCell) : cells = Page(p).cells
  BY DEF ArePages, IsLeafPage, LeafPage
<1> DEFINE low == pgs[p - 1]
           high == pgs[new - 1]
           a == [low EXCEPT !.cells = Kept(cells)]
           b == [high EXCEPT !.cells = Copied(cells), !.used = Len(Copied(cells))]
           begun == With(pgs, p, a)
           out == With(begun, new, b)
<1>1. /\ m \in Nat /\ p - 1 \in 1..m /\ new - 1 \in 1..m /\ p - 1 # new - 1
      /\ \A q \in Ids(m) : q - 1 \in 1..m /\ (q # p => q - 1 # p - 1) /\ (q # new => q - 1 # new - 1)
      /\ DOMAIN pgs = 1..m
  BY IdTypes, LenProperties DEF ArePages
<1>2. IsLeafPage(low, Ids(m)) /\ IsLeafPage(high, Ids(m)) /\ low.cells = cells
  BY DEF ArePages
<1>3. IsLeafPage(a, Ids(m)) /\ IsLeafPage(b, Ids(m))
  <2> HIDE DEF low, high
  <2> QED
    BY <1>2, KeptPage, CopiedPage
<1>4. /\ a.cells = Kept(cells) /\ a.used = low.used /\ a.next = low.next /\ a.prev = low.prev
      /\ b.cells = Copied(cells) /\ b.used = Len(Copied(cells)) /\ b.next = high.next /\ b.prev = high.prev
  <2> HIDE DEF low, high
  <2> QED
    BY <1>2 DEF IsLeafPage, LeafPage
<1>5. /\ ArePages(begun, m) /\ begun[p - 1] = a
      /\ \A i \in 1..m : i # p - 1 => begun[i] = pgs[i]
  <2> HIDE DEF a
  <2> QED
    BY <1>3, WithLeaf
<1>6. /\ ArePages(out, m) /\ out[new - 1] = b
      /\ \A i \in 1..m : i # new - 1 => out[i] = begun[i]
  <2> HIDE DEF b, begun
  <2> QED
    BY <1>3, <1>5, WithLeaf
<1>7. Split(p, pgs) = out
  <2> DEFINE x == Kept(cells)
             y == Copied(cells)
             z == Len(Copied(cells))
  <2>1. Split(p, pgs) = [pgs EXCEPT ![p - 1].cells = x, ![new - 1].cells = y, ![new - 1].used = z]
    BY <1>1, <1>2 DEF Split
  <2>2. out = [[pgs EXCEPT ![p - 1] = [pgs[p - 1] EXCEPT !.cells = x]] EXCEPT
                  ![new - 1] = [pgs[new - 1] EXCEPT !.cells = y, !.used = z]]
    BY DEF With
  <2> HIDE DEF x, y, z, out
  <2> QED
    BY <1>1, <2>1, <2>2, TwoAtOnce
<1>8. ASSUME NEW q \in Ids(m)
      PROVE  /\ out[q - 1].cells = IF q = new THEN Copied(cells)
                                   ELSE IF q = p THEN Kept(cells) ELSE pgs[q - 1].cells
             /\ out[q - 1].used = IF q = new THEN Len(Copied(cells)) ELSE pgs[q - 1].used
             /\ out[q - 1].next = pgs[q - 1].next
             /\ out[q - 1].prev = pgs[q - 1].prev
  <2> HIDE DEF out, begun, a, b
  <2>1. CASE q = new
    BY <1>4, <1>6, <2>1
  <2>2. CASE q = p
    BY <1>1, <1>4, <1>5, <1>6, <2>2
  <2>3. CASE q # new /\ q # p
    BY <1>1, <1>5, <1>6, <2>3
  <2> QED
    BY <2>1, <2>2, <2>3
<1>9. \A i \in 1..m : i # p - 1 /\ i # new - 1 => out[i] = pgs[i]
  <2> HIDE DEF out, begun
  <2> QED
    BY <1>5, <1>6
<1> HIDE DEF out
<1> QED
  BY <1>6, <1>7, <1>8, <1>9 DEF Halved

-----------------------------------------------------------------------------
(* What always holds of the file and the call under way: there is no page, *)
(* one page, in use or free, or a root above leaves.                       *)

Alone(n) ==
    /\ orphans = {}
    /\ \A p \in Ids(n) : /\ Page(p).next = Nil /\ Page(p).prev = Nil
                         /\ Page(p).used = Len(Page(p).cells)
    /\ \/ n = 0 /\ root = Nil /\ free = <<>>
       \/ n = 1 /\ root = 2 /\ free = <<>>
       \/ n = 1 /\ root = Nil /\ free = <<2>>

Branched(n) == n >= 3 /\ root = 4 /\ IsNodePage(pages[3], Ids(n))

Inserting == [kind : {"insert"}, key : Keys]
RemovingFrom(ids) == [kind : {"remove"}, key : Keys, leaf : ids, slot : Nat \ {0}]

Shape(n) ==
    /\ ArePages(pages, n)
    /\ free \in Seq(Ids(n))
    /\ orphans \subseteq Ids(n) \union {Nil}
    /\ Alone(n) \/ Branched(n)
    /\ op \in {Idle, Failed} \union Inserting \union RemovingFrom(Ids(n))
    /\ op \in {Idle, Failed} \/ root # Nil

LEMMA Reading ==
    ASSUME NEW n, Shape(n)
    PROVE  /\ n \in Nat /\ Len(pages) = n /\ PageIds = 2..(n + 1) /\ Leaves = Ids(n)
           /\ \A p \in Ids(n) : /\ IsLeafPage(Page(p), Ids(n)) /\ IsLeaf(p)
                                /\ Page(p).next \in Ids(n) \union {Nil}
                                /\ Page(p).prev \in Ids(n) \union {Nil}
                                /\ Page(p).cells \in Seq(LeafCell)
                                /\ Page(p).used \in 0..LeafCap
           /\ root # Nil => \/ root = 2 /\ n = 1 /\ IsLeaf(root) /\ root \in Ids(n) /\ Alone(n)
                            \/ root = 4 /\ n >= 3 /\ ~IsLeaf(root) /\ Branched(n)
<1>1. n \in Nat /\ Len(pages) = n /\ DOMAIN pages = 1..n
  BY LenProperties DEF Shape, ArePages
<1>2. \A p \in Ids(n) : /\ IsLeafPage(Page(p), Ids(n)) /\ IsLeaf(p)
                        /\ Page(p).next \in Ids(n) \union {Nil}
                        /\ Page(p).prev \in Ids(n) \union {Nil}
                        /\ Page(p).cells \in Seq(LeafCell)
                        /\ Page(p).used \in 0..LeafCap
  BY DEF Shape, ArePages, Page, IsLeaf, IsLeafPage, LeafPage
<1>3. PageIds = 2..(n + 1)
  <2>1. PageIds = {i + 1 : i \in 1..n}
    BY <1>1 DEF PageIds
  <2>2. \A q \in 2..(n + 1) : q - 1 \in 1..n /\ q = (q - 1) + 1
    BY <1>1
  <2> QED
    BY <1>1, <2>1, <2>2
<1>4. Branched(n) => n >= 3 /\ root = 4 /\ ~IsLeaf(4)
  BY DEF Branched, IsLeaf, Page, IsNodePage, NodePage
<1>5. ASSUME Alone(n), root # Nil PROVE root = 2 /\ n = 1 /\ 2 \in Ids(n)
  BY <1>5 DEF Alone, Ids, Nil
<1>6. Alone(n) \/ Branched(n)
  BY DEF Shape
<1>7. 4 \in PageIds => ~IsLeaf(4)
  <2>1. Alone(n) => n \in {0, 1}
    BY DEF Alone
  <2> QED
    BY <1>1, <1>3, <1>4, <1>6, <2>1
<1>8. Leaves = Ids(n)
  BY <1>2, <1>3, <1>7 DEF Leaves, Ids
<1> QED
  BY <1>1, <1>2, <1>3, <1>4, <1>5, <1>6, <1>8

LEMMA NodeCellsAre ==
    ASSUME NEW n, Branched(n)
    PROVE  /\ Page(4).cells \in Seq(NodeCell(Ids(n))) /\ Page(4).rightmost \in Ids(n)
           /\ Len(Page(4).cells) \in 1..InternalCap /\ Sorted(Page(4).cells)
           /\ \A i \in 1..Len(Page(4).cells) : /\ Page(4).cells[i].child \in Ids(n)
                                               /\ Page(4).cells[i].key \in Keys
<1>1. /\ Page(4).cells \in Seq(NodeCell(Ids(n))) /\ Page(4).rightmost \in Ids(n)
      /\ Len(Page(4).cells) \in 1..InternalCap /\ Sorted(Page(4).cells)
  BY DEF Branched, IsNodePage, NodePage, Page
<1>2. \A i \in 1..Len(Page(4).cells) : Page(4).cells[i] \in NodeCell(Ids(n))
  BY <1>1, ElementOfSeq
<1> QED
  BY <1>1, <1>2 DEF NodeCell

LEMMA KeysAreNumbers ==
    /\ \A c \in LeafCell : c.key \in Nat
    /\ \A ids : \A c \in NodeCell(ids) : c.key \in Nat
    /\ Keys \subseteq Nat
BY TreeAssumption DEF LeafCell, NodeCell

LEMMA LeafForIsLeaf ==
    ASSUME NEW n, Shape(n), root # Nil, NEW k \in Keys
    PROVE  LeafFor(k) \in Ids(n) /\ Leftmost \in Ids(n)
<1>1. CASE root = 2 /\ IsLeaf(root) /\ root \in Ids(n)
  BY <1>1 DEF LeafFor, Leftmost
<1>2. CASE root = 4 /\ ~IsLeaf(root) /\ Branched(n)
  <2> DEFINE cells == Page(4).cells
             slot == FirstSlot(cells, k)
  <2>1. /\ cells \in Seq(NodeCell(Ids(n))) /\ Sorted(cells) /\ Page(4).rightmost \in Ids(n)
        /\ Len(cells) \in 1..InternalCap /\ \A i \in 1..Len(cells) : cells[i].child \in Ids(n)
    BY <1>2, NodeCellsAre
  <2>2. slot \in 1..(Len(cells) + 1)
    <3> HIDE DEF cells
    <3> QED
      BY <2>1, KeysAreNumbers, FirstSlotSplits
  <2>3. ChildFor(Page(4), k) = IF slot > Len(cells) THEN Page(4).rightmost ELSE cells[slot].child
    BY DEF ChildFor
  <2>4. Len(cells) \in Nat /\ Len(cells) >= 1
    BY <2>1, TreeAssumption
  <2> HIDE DEF cells, slot
  <2>5. ChildFor(Page(4), k) \in Ids(n)
    BY <2>1, <2>2, <2>3, <2>4
  <2>6. cells[1].child \in Ids(n)
    BY <2>1, <2>4
  <2> QED
    BY <1>2, <2>5, <2>6 DEF LeafFor, Leftmost, cells
<1> QED
  BY <1>1, <1>2, Reading

LEMMA SearchIs ==
    ASSUME NEW n, Shape(n), NEW k \in Keys, Search(k) # Nowhere
    PROVE  /\ root # Nil
           /\ Search(k).leaf \in Ids(n)
           /\ Search(k).slot \in 1..Len(Page(Search(k).leaf).cells)
           /\ Search(k).slot = FirstSlot(Page(Search(k).leaf).cells, k)
<1>1. root # Nil
  BY DEF Search
<1> DEFINE w == Walk(LeafFor(k))
           hits == {i \in DOMAIN w : /\ w[i] # Nil
                                     /\ FirstSlot(Page(w[i]).cells, k) <= Len(Page(w[i]).cells)}
<1>2. n \in Nat /\ Len(pages) = n /\ Leaves = Ids(n) /\ \A q \in Leaves : Page(q).next \in Leaves \union {Nil}
  BY Reading
<1>3. w \in [0..n -> Ids(n) \union {Nil}]
  BY <1>1, <1>2, LeafForIsLeaf, WalkIs
<1>4. Search(k) = IF hits = {} THEN Nowhere
                  ELSE [leaf |-> w[Min(hits)], slot |-> FirstSlot(Page(w[Min(hits)]).cells, k)]
  BY <1>1 DEF Search
<1>5. hits # {} /\ hits \subseteq 0..n
  BY <1>3, <1>4
<1>6. Min(hits) \in hits
  <2> HIDE DEF hits
  <2>1. hits \subseteq Nat
    BY <1>2, <1>5
  <2> QED
    BY <1>5, <2>1, MinIsLeast
<1>7. PICK p : p = w[Min(hits)]
  OBVIOUS
<1>8. p \in Ids(n) /\ FirstSlot(Page(p).cells, k) <= Len(Page(p).cells)
  <2> HIDE DEF w
  <2> QED
    BY <1>3, <1>6, <1>7
<1>9. Search(k) = [leaf |-> p, slot |-> FirstSlot(Page(p).cells, k)]
  BY <1>4, <1>5, <1>7
<1>10. PICK cells \in Seq(LeafCell) : cells = Page(p).cells /\ Sorted(cells)
  BY <1>8, Reading DEF IsLeafPage
<1>11. FirstSlot(cells, k) \in 1..(Len(cells) + 1) /\ Len(cells) \in Nat
  BY <1>10, KeysAreNumbers, FirstSlotSplits, LenProperties
<1>12. FirstSlot(cells, k) \in 1..Len(cells)
  BY <1>8, <1>10, <1>11
<1> QED
  BY <1>1, <1>8, <1>9, <1>10, <1>12

-----------------------------------------------------------------------------
(* Each step keeps the shape.                                              *)

LEMMA UsingIs ==
    ASSUME NEW ids, orphans \subseteq ids \union {Nil}, NEW ps, Using(ps)
    PROVE  /\ orphans' \subseteq ids \union {Nil} /\ orphans \subseteq orphans'
           /\ Nil \notin orphans' => orphans' = orphans /\ ps \intersect orphans = {}
           /\ orphans = {} => orphans' = {}
BY DEF Using

LEMMA StartInsertDoes ==
    ASSUME NEW n, Shape(n), NEW k \in Keys, StartInsert(k)
    PROVE  /\ op' = [kind |-> "insert", key |-> k] /\ op' \in Inserting
           /\ \/ root # Nil /\ UNCHANGED <<pages, root, free, orphans>> /\ Shape(n)'
              \/ /\ root = Nil /\ Alone(n) /\ free' = <<>> /\ orphans' = {}
                 /\ pages'[1] = EmptyLeaf /\ Shape(1)'
<1>1. op' = [kind |-> "insert", key |-> k] /\ op' \in Inserting
  BY DEF StartInsert, Inserting
<1>2. CASE root # Nil
  <2>1. UNCHANGED <<pages, root, free, orphans>>
    BY <1>2 DEF StartInsert
  <2>2. Shape(n)'
    BY <1>1, <1>2, <2>1 DEF Shape, Alone, Branched, Page
  <2> QED
    BY <1>1, <1>2, <2>1, <2>2
<1>3. CASE root = Nil
  <2>1. /\ pages' = With(Grown(1), NewPage(1), EmptyLeaf) /\ root' = NewPage(1)
        /\ free' = FreeAfter(1) /\ Using({NewPage(1)})
    BY <1>3 DEF StartInsert
  <2>2. ArePages(pages, n) /\ free \in Seq(Ids(n)) /\ orphans = {}
        /\ ((n = 0 /\ free = <<>>) \/ (n = 1 /\ free = <<2>>))
    BY <1>3 DEF Shape, Alone, Branched, Nil
  <2>3. PICK m \in Nat :
              /\ m = IF Len(free) >= 1 THEN n ELSE n + 1 - Len(free)
              /\ ArePages(Grown(1), m)
              /\ NewPage(1) = IF Len(free) >= 1 THEN free[1] ELSE n + 1 + 1 - Len(free)
    BY <2>2, GrownIs
  <2>4. m = 1 /\ NewPage(1) = 2 /\ FreeAfter(1) = <<>>
    <3>1. CASE n = 0 /\ free = <<>>
      <4>1. Len(free) = 0 /\ SubSeq(free, 1 + 1, 0) = <<>>
        BY <3>1
      <4> QED
        BY <2>3, <3>1, <4>1 DEF FreeAfter
    <3>2. CASE n = 1 /\ free = <<2>>
      <4>1. Len(free) = 1 /\ free[1] = 2 /\ SubSeq(free, 1 + 1, 1) = <<>>
        BY <3>2
      <4> QED
        BY <2>3, <3>2, <4>1 DEF FreeAfter
    <3> QED
      BY <2>2, <3>1, <3>2
  <2>5. 2 \in Ids(1) /\ \A p \in Ids(1) : p = 2
    BY DEF Ids
  <2>6. ArePages(pages', 1) /\ pages'[2 - 1] = EmptyLeaf
    BY <2>1, <2>3, <2>4, <2>5, EmptyLeafIs, WithLeaf
  <2>7. orphans' = {}
    BY <2>1, <2>2, UsingIs
  <2>8. Alone(1)'
    BY <2>1, <2>4, <2>5, <2>6, <2>7 DEF Alone, EmptyLeaf, Page
  <2>9. free' \in Seq(Ids(1)) /\ root' # Nil
    <3>1. <<>> \in Seq(Ids(1)) /\ 2 # Nil
      BY DEF Nil
    <3>2. free' = <<>> /\ root' = 2
      BY <2>1, <2>4
    <3> QED
      BY <3>1, <3>2
  <2>10. Shape(1)'
    BY <1>1, <2>6, <2>7, <2>8, <2>9 DEF Shape
  <2>11. Alone(n)
    BY <1>3, Reading DEF Shape, Branched, Nil
  <2> QED
    BY <1>1, <1>3, <2>1, <2>4, <2>6, <2>7, <2>10, <2>11
<1> QED
  BY <1>2, <1>3

(* A leaf that is written again in place.                                  *)
LEMMA LeafRewritten ==
    ASSUME NEW n, Shape(n), NEW p \in Ids(n), NEW page, IsLeafPage(page, Ids(n)),
           pages' = With(pages, p, page), UNCHANGED <<root, free>>,
           page.next = Page(p).next, page.prev = Page(p).prev,
           Page(p).used = Len(Page(p).cells) => page.used = Len(page.cells)
    PROVE  /\ ArePages(pages', n)
           /\ pages'[p - 1] = page
           /\ \A i \in 1..n : i # p - 1 => pages'[i] = pages[i]
           /\ Alone(n) /\ orphans' = {} => Alone(n)'
           /\ Branched(n) => Branched(n)'
<1>1. /\ ArePages(pages', n) /\ pages'[p - 1] = page
      /\ \A i \in 1..n : i # p - 1 => pages'[i] = pages[i]
  BY WithLeaf DEF Shape
<1>2. Alone(n) /\ orphans' = {} => Alone(n)'
  <2>1. \A q \in Ids(n) : q - 1 \in 1..n /\ (q # p => q - 1 # p - 1)
    BY IdTypes DEF Shape, ArePages
  <2> QED
    BY <1>1, <2>1 DEF Alone, Page
<1>3. Branched(n) => Branched(n)'
  <2>1. p - 1 # 3 /\ (n >= 3 => 3 \in 1..n)
    BY IdTypes DEF Shape, ArePages
  <2> QED
    BY <1>1, <2>1 DEF Branched
<1> QED
  BY <1>1, <1>2, <1>3

LEMMA InsertedCells ==
    ASSUME NEW cells \in Seq(LeafCell), Sorted(cells), NEW k \in Keys,
           NEW more, more = InsertAt(cells, FirstSlot(cells, k), [key |-> k, deleted |-> FALSE])
    PROVE  /\ Sorted(more) /\ more \in Seq(LeafCell)
           /\ Inserted(more, cells, FirstSlot(cells, k), [key |-> k, deleted |-> FALSE])
<1> PICK e : e = [key |-> k, deleted |-> FALSE]
  OBVIOUS
<1>1. e \in LeafCell /\ e.key = k
  BY DEF LeafCell
<1>2. PICK x \in 1..(Len(cells) + 1) : x = FirstSlot(cells, k)
  BY KeysAreNumbers, FirstSlotSplits
<1>3. more = InsertAt(cells, x, e)
  BY <1>1, <1>2
<1>4. more \in Seq(LeafCell) /\ Inserted(more, cells, x, e)
  BY <1>1, <1>3, InsertAtIs
<1>5. Sorted(more)
  BY <1>1, <1>2, <1>3, KeysAreNumbers, InsertKeepsSorted
<1> QED
  BY <1>2, <1>4, <1>5

WithRow(leaf, k) ==
    [leaf EXCEPT !.cells = InsertAt(@, FirstSlot(leaf.cells, k), [key |-> k, deleted |-> FALSE]),
                 !.used = @ + 1]

LEMMA InsertedLeaf ==
    ASSUME NEW ids, NEW leaf, IsLeafPage(leaf, ids), HasRoom(leaf), NEW k \in Keys
    PROVE  /\ IsLeafPage(WithRow(leaf, k), ids)
           /\ WithRow(leaf, k).next = leaf.next /\ WithRow(leaf, k).prev = leaf.prev
           /\ WithRow(leaf, k).used = leaf.used + 1
           /\ Len(WithRow(leaf, k).cells) = Len(leaf.cells) + 1
           /\ WithRow(leaf, k).cells
                 = InsertAt(leaf.cells, FirstSlot(leaf.cells, k), [key |-> k, deleted |-> FALSE])
<1> PICK page : page = WithRow(leaf, k)
  OBVIOUS
<1> PICK cells \in Seq(LeafCell) : cells = leaf.cells
  BY DEF IsLeafPage, LeafPage
<1> PICK more : more = InsertAt(cells, FirstSlot(cells, k), [key |-> k, deleted |-> FALSE])
  OBVIOUS
<1>1. /\ Sorted(cells) /\ Len(cells) \in Nat /\ Len(cells) <= leaf.used /\ leaf.used \in 0..LeafCap
      /\ leaf.used < LeafCap /\ LeafCap \in Nat
      /\ PurgeAt = 1 => \A i \in 1..Len(cells) : ~cells[i].deleted
  BY TreeAssumption, LenProperties DEF IsLeafPage, LeafPage, HasRoom
<1> PICK e : e = [key |-> k, deleted |-> FALSE]
  OBVIOUS
<1> PICK x : x = FirstSlot(cells, k)
  OBVIOUS
<1>2. Sorted(more) /\ more \in Seq(LeafCell) /\ Inserted(more, cells, x, e)
  BY <1>1, InsertedCells
<1>3. /\ x \in 1..(Len(cells) + 1)
      /\ more \in Seq(LeafCell) /\ Len(more) = Len(cells) + 1
      /\ \A j \in 1..(Len(cells) + 1) :
            more[j] = IF j < x THEN cells[j] ELSE IF j = x THEN e ELSE cells[j - 1]
  BY <1>2 DEF Inserted
<1>4. ASSUME PurgeAt = 1, NEW j \in 1..(Len(cells) + 1) PROVE ~more[j].deleted
  <2>1. \A i \in 1..Len(cells) : ~cells[i].deleted
    BY <1>1, <1>4
  <2>2. j < x => j \in 1..Len(cells)
    BY <1>1, <1>3
  <2>3. j > x => j - 1 \in 1..Len(cells)
    BY <1>1, <1>3
  <2>4. more[j] = IF j < x THEN cells[j] ELSE IF j = x THEN e ELSE cells[j - 1]
    BY <1>3
  <2>5. (j < x \/ j = x \/ j > x) /\ ~e.deleted
    BY <1>1, <1>3
  <2> QED
    BY <2>1, <2>2, <2>3, <2>4, <2>5
<1>5. PurgeAt = 1 => \A j \in DOMAIN more : ~more[j].deleted
  BY <1>3, <1>4, LenProperties
<1>6. page = [leaf EXCEPT !.cells = more, !.used = leaf.used + 1]
  BY DEF WithRow
<1>7. leaf.used + 1 \in 0..LeafCap /\ Len(more) <= leaf.used + 1
  BY <1>1, <1>3
<1>8. page \in LeafPage(ids) /\ page.cells = more /\ page.used = leaf.used + 1
      /\ page.next = leaf.next /\ page.prev = leaf.prev
  BY <1>3, <1>6, <1>7 DEF IsLeafPage, LeafPage
<1>9. IsLeafPage(page, ids)
  BY <1>2, <1>5, <1>7, <1>8 DEF IsLeafPage
<1> QED
  BY <1>3, <1>8, <1>9

LEMMA Calls ==
    ASSUME NEW n, Shape(n)
    PROVE  /\ op.kind = "insert" => op \in Inserting /\ op.key \in Keys /\ root # Nil
           /\ op.kind = "remove" => /\ op \in RemovingFrom(Ids(n)) /\ root # Nil
                                    /\ op.key \in Keys /\ op.leaf \in Ids(n) /\ op.slot \in Nat \ {0}
BY DEF Shape, Inserting, RemovingFrom, Idle, Failed

(* Only the records of leaf p are others.                                  *)
Rewritten(n, p, page) ==
    /\ p \in Ids(n)
    /\ ArePages(pages', n)
    /\ pages'[p - 1] = page
    /\ \A i \in 1..n : i # p - 1 => pages'[i] = pages[i]
    /\ page.next = Page(p).next /\ page.prev = Page(p).prev

LEMMA InsertIntoLeafDoes ==
    ASSUME NEW n, Shape(n), InsertIntoLeaf
    PROVE  \E p, page : /\ p = LeafFor(op.key) /\ Rewritten(n, p, page)
                        /\ Inserted(page.cells, Page(p).cells, FirstSlot(Page(p).cells, op.key),
                                    [key |-> op.key, deleted |-> FALSE])
                        /\ page.used = Page(p).used + 1
                        /\ Using({p}) /\ op' = Idle /\ UNCHANGED <<root, free>>
                        /\ Shape(n)'
<1>1. op.key \in Keys /\ root # Nil
  BY Calls DEF InsertIntoLeaf
<1> PICK k \in Keys : k = op.key
  BY <1>1
<1> PICK p \in Ids(n) : p = LeafFor(k)
  BY <1>1, LeafForIsLeaf
<1> PICK leaf : leaf = Page(p)
  OBVIOUS
<1> PICK page : page = WithRow(leaf, k)
  OBVIOUS
<1>2. /\ HasRoom(leaf) /\ pages' = With(pages, p, page) /\ Using({p}) /\ op' = Idle
      /\ UNCHANGED <<root, free>>
  BY DEF InsertIntoLeaf, WithRow
<1>3. IsLeafPage(leaf, Ids(n)) /\ leaf.cells \in Seq(LeafCell) /\ Sorted(leaf.cells)
  BY Reading DEF IsLeafPage
<1>4. /\ IsLeafPage(page, Ids(n)) /\ page.next = leaf.next /\ page.prev = leaf.prev
      /\ page.used = leaf.used + 1 /\ Len(page.cells) = Len(leaf.cells) + 1
      /\ page.cells = InsertAt(leaf.cells, FirstSlot(leaf.cells, k), [key |-> k, deleted |-> FALSE])
  <2>1. HasRoom(leaf) /\ IsLeafPage(leaf, Ids(n))
    BY <1>2, <1>3
  <2> QED
    BY <2>1, InsertedLeaf
<1>5. Inserted(page.cells, leaf.cells, FirstSlot(leaf.cells, k), [key |-> k, deleted |-> FALSE])
  <2> PICK more : more = page.cells
    OBVIOUS
  <2> QED
    BY <1>3, <1>4, InsertedCells
<1>6. /\ ArePages(pages', n) /\ pages'[p - 1] = page
      /\ \A i \in 1..n : i # p - 1 => pages'[i] = pages[i]
      /\ Alone(n) /\ orphans' = {} => Alone(n)'
      /\ Branched(n) => Branched(n)'
  BY <1>2, <1>4, LeafRewritten
<1>7. Shape(n)'
  <2>1. /\ orphans' \subseteq Ids(n) \union {Nil}
        /\ orphans = {} => orphans' = {}
    BY <1>2, UsingIs DEF Shape
  <2>2. Alone(n)' \/ Branched(n)'
    BY <1>6, <2>1 DEF Shape, Alone
  <2> QED
    BY <1>2, <1>6, <2>1, <2>2 DEF Shape
<1>8. Rewritten(n, p, page)
  BY <1>4, <1>6 DEF Rewritten
<1> QED
  BY <1>2, <1>4, <1>5, <1>7, <1>8

-----------------------------------------------------------------------------
(* The splits.                                                             *)

(* The page that an insertion into a tree is given.                        *)
NewLeaf(n, m, new) ==
    /\ m \in Nat /\ n <= m
    /\ new = NewPage(1) /\ Ids(m) = Ids(n) \union {new}
    /\ ArePages(Grown(1), m)
    /\ \A i \in 1..n : Grown(1)[i] = pages[i]
    /\ new \notin Ids(n) => Grown(1)[new - 1] = EmptyLeaf
    /\ FreeAfter(1) \in Seq(Ids(m))
    /\ new \in Ids(n) => m = n /\ free # <<>> /\ new = free[1]
    /\ new \notin Ids(n) => m = n + 1 /\ free = <<>> /\ FreeAfter(1) = <<>> /\ new = n + 2

LEMMA NewLeafIs ==
    ASSUME NEW n, Shape(n), root # Nil
    PROVE  \E m, new : NewLeaf(n, m, new)
<1>1. n \in Nat /\ n >= 1 /\ n # 2 /\ ArePages(pages, n) /\ free \in Seq(Ids(n))
  BY Reading DEF Shape
<1>2. PICK m \in Nat :
            /\ m = IF Len(free) >= 1 THEN n ELSE n + 1 - Len(free)
            /\ ArePages(Grown(1), m)
            /\ \A i \in 1..n : Grown(1)[i] = pages[i]
            /\ \A i \in (n + 1)..m : Grown(1)[i] = EmptyLeaf
            /\ NewPage(1) = IF Len(free) >= 1 THEN free[1] ELSE n + 1 + 1 - Len(free)
            /\ FreeAfter(1) \in Seq(Ids(m))
  BY <1>1, GrownIs
<1> PICK new : new = NewPage(1)
  OBVIOUS
<1>3. CASE free = <<>>
  <2>1. Len(free) = 0 /\ SubSeq(free, 1 + 1, 0) = <<>>
    BY <1>3
  <2>2. m = n + 1 /\ new = n + 2 /\ FreeAfter(1) = <<>>
    BY <1>1, <1>2, <2>1 DEF FreeAfter
  <2>3. Ids(m) = Ids(n) \union {new} /\ new \notin Ids(n) /\ new - 1 \in (n + 1)..m
    BY <1>1, <2>2 DEF Ids
  <2>4. NewLeaf(n, m, new)
    BY <1>1, <1>2, <1>3, <2>2, <2>3 DEF NewLeaf
  <2> QED
    BY <2>4
<1>4. CASE free # <<>>
  <2>1. Len(free) >= 1 /\ free[1] \in Ids(n)
    BY <1>1, <1>4
  <2>2. m = n /\ new = free[1]
    BY <1>2, <2>1
  <2>3. NewLeaf(n, m, new)
    BY <1>1, <1>2, <1>4, <2>1, <2>2 DEF NewLeaf
  <2> QED
    BY <2>3
<1> QED
  BY <1>3, <1>4

(* A page that was never used before is linked after leaf p.               *)
LinkedAfter(pgs, n, p, new) ==
    \A q \in Ids(n) \union {new} :
        /\ pgs[q - 1].next = IF q = p THEN new ELSE IF q = new THEN Page(p).next ELSE Page(q).next
        /\ pgs[q - 1].prev = IF q = new THEN p ELSE IF q = Page(p).next THEN new ELSE Page(q).prev

Linking(pgs, n, m, p, new) ==
    /\ ArePages(pgs, m)
    /\ \A q \in Ids(m) : /\ pgs[q - 1].cells = IF q = new THEN <<>> ELSE Page(q).cells
                         /\ pgs[q - 1].used = IF q = new THEN 0 ELSE Page(q).used
    /\ n >= 3 => pgs[3] = pages[3]
    /\ new \notin Ids(n) => LinkedAfter(pgs, n, p, new)

LEMMA LinkedDoes ==
    ASSUME NEW n, Shape(n), NEW m, NEW new, NewLeaf(n, m, new), NEW p \in Ids(n)
    PROVE  Linking(Linked(p), n, m, p, new)
<1> PICK pgs : pgs = Linked(p)
  OBVIOUS
<1>1. /\ n \in Nat /\ m \in Nat /\ n <= m /\ new = NewPage(1) /\ Ids(m) = Ids(n) \union {new}
      /\ ArePages(Grown(1), m) /\ \A i \in 1..n : Grown(1)[i] = pages[i]
      /\ new \in Ids(m) /\ p \in Ids(m)
  BY Reading DEF NewLeaf
<1>2. \A q \in Ids(n) : Grown(1)[q - 1] = Page(q)
  BY <1>1, IdTypes DEF Page
<1>3. /\ ArePages(pgs, m)
      /\ \A q \in Ids(m) : /\ pgs[q - 1].cells = IF q = new THEN <<>> ELSE Grown(1)[q - 1].cells
                           /\ pgs[q - 1].used = IF q = new THEN 0 ELSE Grown(1)[q - 1].used
      /\ 3 \in 1..m => pgs[3] = Grown(1)[3]
      /\ p # new /\ Grown(1)[p - 1].next # new =>
            \A q \in Ids(m) :
               /\ pgs[q - 1].next = IF q = p THEN new
                                    ELSE IF q = new THEN Grown(1)[p - 1].next
                                    ELSE Grown(1)[q - 1].next
               /\ pgs[q - 1].prev = IF q = new THEN p
                                    ELSE IF q = Grown(1)[p - 1].next THEN new
                                    ELSE Grown(1)[q - 1].prev
  BY <1>1, LinkedIs
<1>4. \A q \in Ids(m) : q # new => q \in Ids(n) /\ Grown(1)[q - 1] = Page(q)
  BY <1>1, <1>2
<1>5. n >= 3 => pgs[3] = pages[3]
  BY <1>1, <1>3
<1>6. ASSUME new \notin Ids(n) PROVE LinkedAfter(pgs, n, p, new)
  <2>1. p # new /\ Grown(1)[p - 1] = Page(p) /\ Page(p).next # new
    <3>1. Page(p).next \in Ids(n) \union {Nil} /\ new # Nil
      BY <1>1, Reading, IdTypes
    <3> QED
      BY <1>2, <1>6, <3>1
  <2>2. \A q \in Ids(m) :
           /\ pgs[q - 1].next = IF q = p THEN new ELSE IF q = new THEN Page(p).next ELSE Page(q).next
           /\ pgs[q - 1].prev = IF q = new THEN p ELSE IF q = Page(p).next THEN new ELSE Page(q).prev
    BY <1>3, <1>4, <2>1
  <2> QED
    BY <1>1, <2>2 DEF LinkedAfter
<1>7. \A q \in Ids(m) : /\ pgs[q - 1].cells = IF q = new THEN <<>> ELSE Page(q).cells
                        /\ pgs[q - 1].used = IF q = new THEN 0 ELSE Page(q).used
  BY <1>3, <1>4
<1> QED
  BY <1>3, <1>5, <1>6, <1>7 DEF Linking

(* The records of leaf p are shared with the new leaf.                     *)
Dividing(pgs, n, m, p, new) ==
    /\ ArePages(pgs, m)
    /\ \A q \in Ids(m) : pgs[q - 1].cells = IF q = new THEN Copied(Page(p).cells)
                                            ELSE IF q = p THEN Kept(Page(p).cells)
                                            ELSE Page(q).cells
    /\ pgs[new - 1].used = Len(Copied(Page(p).cells))
    /\ n >= 3 => pgs[3] = pages[3]
    /\ new \notin Ids(n) => LinkedAfter(pgs, n, p, new)

LEMMA SplitDoes ==
    ASSUME NEW n, Shape(n), NEW m, NEW new, NewLeaf(n, m, new), NEW p \in Ids(n), p # new
    PROVE  Dividing(Split(p, Linked(p)), n, m, p, new)
<1> PICK pgs : pgs = Linked(p)
  OBVIOUS
<1> PICK out : out = Split(p, pgs)
  OBVIOUS
<1>1. /\ n \in Nat /\ m \in Nat /\ n <= m /\ new = NewPage(1) /\ Ids(m) = Ids(n) \union {new}
      /\ new \in Ids(m) /\ p \in Ids(m)
  BY Reading DEF NewLeaf
<1>2. Linking(pgs, n, m, p, new)
  BY LinkedDoes
<1>3. ArePages(pgs, m) /\ pgs[p - 1].cells = Page(p).cells
  BY <1>1, <1>2 DEF Linking
<1>4. Halved(out, pgs, m, p, new, Page(p).cells)
  BY <1>1, <1>3, SplitIs
<1>5. \A q \in Ids(m) : out[q - 1].cells = IF q = new THEN Copied(Page(p).cells)
                                           ELSE IF q = p THEN Kept(Page(p).cells)
                                           ELSE Page(q).cells
  BY <1>2, <1>4 DEF Linking, Halved
<1>6. ASSUME n >= 3 PROVE out[3] = pages[3]
  <2>1. 3 \in 1..m /\ p - 1 # 3 /\ new - 1 # 3
    BY <1>1, <1>6, IdTypes
  <2> QED
    BY <1>2, <1>4, <1>6, <2>1 DEF Linking, Halved
<1>7. ASSUME new \notin Ids(n) PROVE LinkedAfter(out, n, p, new)
  <2>1. \A q \in Ids(n) \union {new} : /\ out[q - 1].next = pgs[q - 1].next
                                       /\ out[q - 1].prev = pgs[q - 1].prev
    BY <1>1, <1>4 DEF Halved
  <2>2. LinkedAfter(pgs, n, p, new)
    BY <1>2, <1>7 DEF Linking
  <2> QED
    BY <2>1, <2>2 DEF LinkedAfter
<1>8. ArePages(out, m) /\ out[new - 1].used = Len(Copied(Page(p).cells))
  BY <1>1, <1>4 DEF Halved
<1> QED
  BY <1>5, <1>6, <1>7, <1>8 DEF Dividing

LEMMA FullLeaf ==
    ASSUME NEW n, Shape(n), NEW p \in PageIds, SplitNeeded(p)
    PROVE  /\ op \in Inserting /\ root # Nil /\ op.key \in Keys
           /\ p \in Ids(n) /\ p = LeafFor(op.key)
           /\ Alone(n) => p = 2 /\ n = 1 /\ root = 2 /\ Page(p).cells # <<>> /\ NewPage(1) # p
           /\ p = root <=> Alone(n)
<1>1. op \in Inserting /\ root # Nil /\ op.key \in Keys
  BY Calls DEF SplitNeeded
<1>2. p \in Ids(n) /\ p = LeafFor(op.key)
  BY <1>1, LeafForIsLeaf DEF SplitNeeded
<1>3. ASSUME Alone(n)
      PROVE  p = 2 /\ n = 1 /\ root = 2 /\ Page(p).cells # <<>> /\ NewPage(1) # p
  <2>1. n = 1 /\ root = 2 /\ free = <<>> /\ Page(p).used = Len(Page(p).cells)
    BY <1>1, <1>2, <1>3 DEF Alone, Nil
  <2>2. p = 2
    BY <1>2, <2>1 DEF Ids
  <2>3. Page(p).used # 0
    BY TreeAssumption, <1>2, Reading DEF SplitNeeded, HasRoom
  <2>4. Page(p).cells # <<>>
    BY <2>1, <2>3
  <2>5. PICK m, new : NewLeaf(n, m, new)
    BY <1>1, NewLeafIs
  <2>6. NewPage(1) # p
    BY <1>2, <2>1, <2>5 DEF NewLeaf
  <2> QED
    BY <2>1, <2>2, <2>4, <2>6
<1>4. p = root <=> Alone(n)
  <2>1. Branched(n) => p # root /\ ~Alone(n)
    BY <1>2, Reading, IdTypes DEF Branched, Alone
  <2> QED
    BY <1>3, <2>1 DEF Shape
<1> QED
  BY <1>1, <1>2, <1>3, <1>4

LEMMA BranchedAfter ==
    ASSUME NEW n, Branched(n), NEW m \in Nat, n \in Nat, n <= m, pages'[3] = pages[3], root' = root
    PROVE  Branched(m)'
<1>1. IsNodePage(pages[3], Ids(m)) /\ m >= 3
  BY MoreIds DEF Branched
<1> QED
  BY <1>1 DEF Branched

LEMMA ThrowInSplitDoes ==
    ASSUME NEW n, Shape(n), ThrowInSplit
    PROVE  \E m, new, p : /\ NewLeaf(n, m, new) /\ p \in Ids(n)
                          /\ Linking(pages', n, m, p, new)
                          /\ Page(p).cells = <<>> \/ p = new
                          /\ Using({p, new})
                          /\ Branched(n)
                          /\ Shape(m)'
<1> PICK p \in PageIds : /\ SplitNeeded(p) /\ CannotSplit(p)
                         /\ pages' = Linked(p) /\ free' = FreeAfter(1) /\ op' = Failed
                         /\ Using({p, NewPage(1)}) /\ UNCHANGED root
  BY DEF ThrowInSplit
<1>1. p \in Ids(n) /\ root # Nil /\ Branched(n)
  BY FullLeaf DEF CannotSplit, Shape
<1> PICK m, new : NewLeaf(n, m, new)
  BY <1>1, NewLeafIs
<1>2. /\ new = NewPage(1) /\ n \in Nat /\ m \in Nat /\ n <= m /\ FreeAfter(1) \in Seq(Ids(m))
      /\ Ids(n) \subseteq Ids(m)
  BY Reading DEF NewLeaf
<1>3. Linking(pages', n, m, p, new)
  BY <1>1, LinkedDoes
<1>4. Branched(m)'
  BY <1>1, <1>2, <1>3, BranchedAfter DEF Linking, Branched
<1>5. orphans' \subseteq Ids(m) \union {Nil}
  <2>1. orphans \subseteq Ids(m) \union {Nil}
    BY <1>2 DEF Shape
  <2> QED
    BY <2>1, UsingIs
<1>6. ArePages(pages', m) /\ free' \in Seq(Ids(m)) /\ op' \in {Idle, Failed}
  BY <1>2, <1>3 DEF Linking
<1>7. Shape(m)'
  BY <1>4, <1>5, <1>6 DEF Shape
<1>8. Page(p).cells = <<>> \/ p = new
  BY <1>2 DEF CannotSplit
<1> QED
  BY <1>1, <1>2, <1>3, <1>7, <1>8

LEMMA SeparatorIsKey ==
    ASSUME NEW cells \in Seq(LeafCell), cells # <<>>
    PROVE  Copied(cells)[1].key \in Keys
<1>1. Copied(cells) \in Seq(LeafCell) /\ Len(Copied(cells)) >= 1
  BY CopiedIs
<1>2. Copied(cells)[1] \in LeafCell
  BY <1>1, ElementOfSeq, LenProperties
<1> QED
  BY <1>2 DEF LeafCell

LEMMA LastPart ==
    ASSUME NEW S, NEW s \in Seq(S), NEW i \in 1..Len(s)
    PROVE  SubSeq(s, i, i) = <<s[i]>>
<1>1. i \in Int /\ s[i] \in S
  BY ElementOfSeq, LenProperties
<1> PICK j \in Int : j = i
  BY <1>1
<1>2. \A l \in i..j : s[l] \in S
  BY <1>1, ElementOfSeq
<1> PICK t : t = SubSeq(s, i, j)
  OBVIOUS
<1>3. /\ t \in Seq(S) /\ Len(t) = IF i <= j THEN j - i + 1 ELSE 0
      /\ \A l \in 1..(j - i + 1) : t[l] = s[i + l - 1]
  BY <1>1, <1>2, SubSeqProperties
<1>4. t \in Seq(S) /\ Len(t) = 1 /\ t[1] = s[i]
  BY <1>1, <1>3
<1> PICK u : u = <<s[i]>>
  OBVIOUS
<1>5. u \in Seq(S) /\ Len(u) = 1 /\ u[1] = s[i]
  BY <1>1
<1>6. t = u
  <2>1. Len(t) = Len(u) /\ \A l \in 1..Len(t) : t[l] = u[l]
    BY <1>4, <1>5
  <2> QED
    BY <1>4, <1>5, <2>1, SeqEqual
<1> QED
  BY <1>6

LEMMA OneMorePage ==
    ASSUME NEW pgs, ArePages(pgs, 2)
    PROVE  ArePages(pgs \o <<EmptyLeaf>>, 3) /\ \A i \in 1..2 : (pgs \o <<EmptyLeaf>>)[i] = pgs[i]
<1> DEFINE S == LeafPage(Ids(2)) \union NodePage(Ids(2))
<1>1. Ids(2) = {2, 3} /\ Ids(3) = {2, 3}
  BY DEF Ids
<1>2. pgs \in Seq(S) /\ EmptyLeaf \in S /\ Len(pgs) = 2
  BY EmptyLeafIs DEF ArePages, IsLeafPage
<1> HIDE DEF S
<1> PICK more : more = pgs \o <<EmptyLeaf>>
  OBVIOUS
<1>3. more \in Seq(S) /\ Len(more) = 3 /\ more[1] = pgs[1] /\ more[2] = pgs[2]
  <2> PICK e : e = <<EmptyLeaf>>
    OBVIOUS
  <2>1. e \in Seq(S) /\ Len(e) = 1
    BY <1>2
  <2>2. pgs \o e \in Seq(S) /\ Len(pgs \o e) = Len(pgs) + Len(e)
        /\ \A i \in 1..(Len(pgs) + Len(e)) : (pgs \o e)[i] = IF i <= Len(pgs) THEN pgs[i]
                                                             ELSE e[i - Len(pgs)]
    BY <1>2, <2>1, ConcatProperties, Zenon
  <2> QED
    BY <1>2, <2>1, <2>2
<1>4. \A q \in Ids(3) : IsLeafPage(more[q - 1], Ids(3))
  <2>1. 2 - 1 = 1 /\ 3 - 1 = 2 /\ 2 \in Ids(2) /\ 3 \in Ids(2)
    BY <1>1
  <2>2. IsLeafPage(pgs[2 - 1], Ids(2)) /\ IsLeafPage(pgs[3 - 1], Ids(2))
    BY <2>1 DEF ArePages
  <2>3. IsLeafPage(more[2 - 1], Ids(2)) /\ IsLeafPage(more[3 - 1], Ids(2))
    BY <1>3, <2>1, <2>2
  <2> QED
    BY <1>1, <2>3
<1>5. ArePages(more, 3)
  BY <1>1, <1>3, <1>4 DEF ArePages, S
<1>6. \A i \in 1..2 : more[i] = pgs[i]
  BY <1>3
<1> QED
  BY <1>5, <1>6

LEMMA SplitRootDoes ==
    ASSUME NEW n, Shape(n), SplitRoot
    PROVE  /\ n = 1 /\ Alone(n) /\ root = 2 /\ free = <<>> /\ NewLeaf(1, 2, 3)
           /\ \E pgs : Dividing(pgs, 1, 2, 2, 3) /\ \A q \in {2, 3} : pages'[q - 1] = pgs[q - 1]
           /\ Using({3, 4}) /\ free' = <<>> /\ op' = op
           /\ ~HasRoom(Page(2)) /\ root' = 4
           /\ pages'[3] = [level |-> "internal", rightmost |-> 3,
                           cells |-> <<[key |-> Separator(2), child |-> 2]>>]
           /\ Shape(3)'
<1>0. PICK p \in PageIds :
        /\ SplitNeeded(p) /\ ~CannotSplit(p) /\ p = root
        /\ pages' = With(Split(p, Linked(p)) \o SubSeq(Grown(2), Len(Grown(1)) + 1, Len(Grown(2))),
                         NewPage(2),
                         [level |-> "internal", rightmost |-> NewPage(1),
                          cells |-> <<[key |-> Separator(p), child |-> p]>>])
        /\ root' = NewPage(2) /\ free' = FreeAfter(2)
        /\ Using({NewPage(1), NewPage(2)}) /\ UNCHANGED op
  BY DEF SplitRoot
<1>1. Alone(n) /\ p = 2 /\ n = 1 /\ root = 2 /\ root # Nil /\ p \in Ids(n) /\ op \in Inserting
      /\ Page(p).cells # <<>>
  BY <1>0, FullLeaf DEF Nil
<1>2. free = <<>> /\ orphans = {}
  BY <1>1 DEF Alone, Nil
<1>3. NewLeaf(1, 2, 3)
  <2>1. PICK m, new : NewLeaf(n, m, new)
    BY <1>1, NewLeafIs
  <2>2. m = 2 /\ new = 3
    BY <1>1, <1>2, <2>1 DEF NewLeaf
  <2> QED
    BY <1>1, <2>1, <2>2
<1>4. NewPage(1) = 3 /\ Len(Grown(1)) = 2
  BY <1>3 DEF NewLeaf, ArePages
<1>5. NewPage(2) = 4 /\ FreeAfter(2) = <<>>
      /\ SubSeq(Grown(2), Len(Grown(1)) + 1, Len(Grown(2))) = <<EmptyLeaf>>
  <2>1. Len(free) = 0 /\ SubSeq(free, 2 + 1, 0) = <<>>
    BY <1>2
  <2>2. PICK k \in {1, 2} : k = 2
    OBVIOUS
  <2>3. PICK m \in Nat :
            /\ m = IF Len(free) >= k THEN n ELSE n + k - Len(free)
            /\ ArePages(Grown(k), m)
            /\ \A i \in (n + 1)..m : Grown(k)[i] = EmptyLeaf
            /\ NewPage(k) = IF Len(free) >= k THEN free[k] ELSE n + 1 + k - Len(free)
    BY GrownIs DEF Shape
  <2>4. m = 3 /\ NewPage(2) = 4
    BY <1>1, <2>1, <2>2, <2>3
  <2>5. ArePages(Grown(2), 3) /\ Grown(2)[3] = EmptyLeaf
    BY <1>1, <2>2, <2>3, <2>4
  <2>6. Len(Grown(2)) = 3 /\ Grown(2) \in Seq(LeafPage(Ids(3)) \union NodePage(Ids(3)))
    BY <2>5 DEF ArePages
  <2>7. SubSeq(Grown(2), 3, 3) = <<EmptyLeaf>>
    BY <2>5, <2>6, LastPart
  <2>8. FreeAfter(2) = <<>>
    BY <2>1 DEF FreeAfter
  <2>9. SubSeq(Grown(2), Len(Grown(1)) + 1, Len(Grown(2))) = <<EmptyLeaf>>
    <3>1. PICK l \in Nat : l = Len(Grown(1)) /\ l = 2
      BY <1>4
    <3>2. l + 1 = 3
      BY <3>1
    <3> QED
      BY <2>6, <2>7, <3>1, <3>2
  <2> QED
    BY <2>4, <2>8, <2>9
<1> PICK pgs : pgs = Split(p, Linked(p))
  OBVIOUS
<1>6. Dividing(pgs, 1, 2, 2, 3)
  BY <1>1, <1>3, SplitDoes
<1> DEFINE node == [level |-> "internal", rightmost |-> 3,
                    cells |-> <<[key |-> Separator(p), child |-> 2]>>]
           more == pgs \o <<EmptyLeaf>>
<1>7. ArePages(more, 3) /\ \A i \in 1..2 : more[i] = pgs[i]
  BY <1>6, OneMorePage DEF Dividing
<1>8. IsNodePage(node, Ids(3))
  <2>1. Separator(p) \in Keys
    BY <1>1, Reading, SeparatorIsKey DEF Separator
  <2>2. Ids(3) = {2, 3}
    BY DEF Ids
  <2> PICK c : c = [key |-> Separator(p), child |-> 2]
    OBVIOUS
  <2>3. c \in NodeCell(Ids(3))
    BY <2>1, <2>2 DEF NodeCell
  <2>4. <<c>> \in Seq(NodeCell(Ids(3))) /\ Len(<<c>>) \in 1..InternalCap /\ Sorted(<<c>>)
    BY <2>3, TreeAssumption DEF Sorted
  <2>5. node = [level |-> "internal", rightmost |-> 3, cells |-> <<c>>]
    OBVIOUS
  <2>6. node \in NodePage(Ids(3)) /\ node.cells = <<c>>
    BY <2>2, <2>4, <2>5 DEF NodePage
  <2> HIDE DEF node
  <2> QED
    BY <2>4, <2>6 DEF IsNodePage
<1>9. pages' = With(more, 4, node)
  BY <1>0, <1>1, <1>4, <1>5
<1> HIDE DEF node, more
<1>10. /\ ArePages(pages', 3) /\ pages'[3] = node
       /\ \A i \in 1..3 : i # 3 => pages'[i] = more[i]
  BY <1>7, <1>8, <1>9, WithNode DEF IsNodePage
<1>11. \A q \in {2, 3} : pages'[q - 1] = pgs[q - 1]
  BY <1>7, <1>10
<1>12. Branched(3)'
  BY <1>0, <1>5, <1>8, <1>10 DEF Branched
<1>13. orphans' = {} /\ free' = <<>> /\ root' # Nil /\ <<>> \in Seq(Ids(3))
  <2>1. orphans' = {}
    BY <1>0, <1>2, UsingIs
  <2> QED
    BY <1>0, <1>5, <2>1 DEF Nil
<1>14. Shape(3)'
  BY <1>0, <1>1, <1>10, <1>12, <1>13 DEF Shape
<1>15. pages'[3] = [level |-> "internal", rightmost |-> 3,
                    cells |-> <<[key |-> Separator(2), child |-> 2]>>]
  BY <1>1, <1>10 DEF node
<1>16. ~HasRoom(Page(2)) /\ root' = 4
  BY <1>0, <1>1, <1>5 DEF SplitNeeded
<1> QED
  BY <1>0, <1>1, <1>2, <1>3, <1>4, <1>5, <1>6, <1>11, <1>13, <1>14, <1>15, <1>16

LEMMA AddChildIs ==
    ASSUME NEW ids, NEW node, IsNodePage(node, ids), NEW key \in Keys, NEW left \in ids, NEW new \in ids
    PROVE  IsNodePage(AddChild(node, key, left, new), ids)
<1> PICK old \in Seq(NodeCell(ids)) : old = node.cells
  BY DEF IsNodePage, NodePage
<1> PICK slot : slot = FirstSlot(old, key)
  OBVIOUS
<1> PICK c : c = [key |-> key, child |-> IF slot = 1 THEN left ELSE node.rightmost]
  OBVIOUS
<1> PICK cells : cells = IF Len(old) < InternalCap THEN InsertAt(old, slot, c) ELSE old
  OBVIOUS
<1>1. /\ node.rightmost \in ids /\ Len(old) \in 1..InternalCap /\ Sorted(old) /\ InternalCap \in Nat
      /\ node \in NodePage(ids)
  BY TreeAssumption DEF IsNodePage, NodePage
<1>2. c \in NodeCell(ids) /\ c.key = key
  BY <1>1 DEF NodeCell
<1>3. slot \in 1..(Len(old) + 1)
  BY <1>1, KeysAreNumbers, FirstSlotSplits
<1>4. cells \in Seq(NodeCell(ids)) /\ Sorted(cells) /\ Len(cells) \in 1..InternalCap
  <2>1. CASE Len(old) < InternalCap
    <3>1. cells = InsertAt(old, slot, c)
      BY <2>1
    <3>2. cells \in Seq(NodeCell(ids)) /\ Inserted(cells, old, slot, c)
      BY <1>2, <1>3, <3>1, InsertAtIs
    <3>3. Sorted(cells)
      BY <1>1, <1>2, <3>1, KeysAreNumbers, InsertKeepsSorted
    <3> QED
      BY <1>1, <2>1, <3>2, <3>3 DEF Inserted
  <2>2. CASE ~(Len(old) < InternalCap)
    BY <1>1, <2>2
  <2> QED
    BY <2>1, <2>2
<1>5. AddChild(node, key, left, new)
        = IF slot >= Len(cells) THEN [node EXCEPT !.cells = cells, !.rightmost = new]
          ELSE [node EXCEPT !.cells = [cells EXCEPT ![slot + 1].child = new]]
  BY DEF AddChild, IsRightmost
<1>6. CASE slot >= Len(cells)
  <2> PICK page : page = [node EXCEPT !.cells = cells, !.rightmost = new]
    OBVIOUS
  <2>1. page \in NodePage(ids) /\ page.cells = cells
    BY <1>1, <1>4 DEF NodePage
  <2>2. IsNodePage(page, ids)
    BY <1>4, <2>1 DEF IsNodePage
  <2> QED
    BY <1>5, <1>6, <2>2
<1>7. CASE ~(slot >= Len(cells))
  <2> PICK given : given = [cells EXCEPT ![slot + 1].child = new]
    OBVIOUS
  <2>1. slot + 1 \in 1..Len(cells) /\ DOMAIN cells = 1..Len(cells) /\ Len(cells) \in Nat
    BY <1>3, <1>4, <1>7, LenProperties
  <2>2. given = [cells EXCEPT ![slot + 1] = [cells[slot + 1] EXCEPT !.child = new]]
    OBVIOUS
  <2> PICK d : d = [cells[slot + 1] EXCEPT !.child = new]
    OBVIOUS
  <2>3. d \in NodeCell(ids) /\ d.key = cells[slot + 1].key
    <3>1. cells[slot + 1] \in NodeCell(ids)
      BY <1>4, <2>1, ElementOfSeq
    <3> QED
      BY <3>1 DEF NodeCell
  <2>4. given \in Seq(NodeCell(ids)) /\ Len(given) = Len(cells) /\ DOMAIN given = DOMAIN cells
        /\ \A i \in DOMAIN cells : given[i] = IF i = slot + 1 THEN d ELSE cells[i]
    BY <1>4, <2>1, <2>2, <2>3, ExceptSeq
  <2>5. \A i \in DOMAIN cells : given[i].key = cells[i].key
    BY <2>3, <2>4
  <2>6. Sorted(given)
    BY <1>4, <2>4, <2>5 DEF Sorted
  <2> PICK page : page = [node EXCEPT !.cells = given]
    OBVIOUS
  <2>7. page \in NodePage(ids) /\ page.cells = given
    BY <1>1, <2>4 DEF NodePage
  <2>8. IsNodePage(page, ids)
    BY <1>4, <2>4, <2>6, <2>7 DEF IsNodePage
  <2> QED
    BY <1>5, <1>7, <2>8
<1> QED
  BY <1>6, <1>7

LEMMA SplitBelowRootDoes ==
    ASSUME NEW n, Shape(n), SplitBelowRoot
    PROVE  \E m, new, p, pgs : /\ NewLeaf(n, m, new) /\ p \in Ids(n) /\ p # new
                               /\ Dividing(pgs, n, m, p, new)
                               /\ \A q \in Ids(m) : pages'[q - 1] = pgs[q - 1]
                               /\ Using({p, new}) /\ free' = FreeAfter(1) /\ op' = op
                               /\ Branched(n)
                               /\ p = LeafFor(op.key) /\ ~HasRoom(Page(p)) /\ root' = root
                               /\ pages'[3] = AddChild(Page(4), Separator(p), p, new)
                               /\ Shape(m)'
<1> PICK p \in PageIds :
        /\ SplitNeeded(p) /\ ~CannotSplit(p) /\ p # root
        /\ pages' = With(Split(p, Linked(p)), root, AddChild(Page(root), Separator(p), p, NewPage(1)))
        /\ free' = FreeAfter(1) /\ Using({p, NewPage(1)}) /\ UNCHANGED <<root, op>>
  BY DEF SplitBelowRoot
<1>1. p \in Ids(n) /\ root # Nil /\ Branched(n) /\ op \in Inserting /\ Page(p).cells # <<>>
  BY FullLeaf DEF Shape, CannotSplit
<1> PICK m, new : NewLeaf(n, m, new)
  BY <1>1, NewLeafIs
<1>2. /\ new = NewPage(1) /\ n \in Nat /\ m \in Nat /\ n <= m /\ FreeAfter(1) \in Seq(Ids(m))
      /\ Ids(n) \subseteq Ids(m) /\ new \in Ids(m) /\ n >= 3 /\ root = 4 /\ p # new
  BY <1>1, Reading DEF NewLeaf, Branched, CannotSplit
<1> PICK pgs : pgs = Split(p, Linked(p))
  OBVIOUS
<1>3. Dividing(pgs, n, m, p, new)
  BY <1>1, <1>2, SplitDoes
<1> PICK node : node = AddChild(Page(4), Separator(p), p, new)
  OBVIOUS
<1>4. IsNodePage(node, Ids(m))
  <2>1. Separator(p) \in Keys
    BY <1>1, Reading, SeparatorIsKey DEF Separator
  <2>2. IsNodePage(Page(4), Ids(m))
    BY <1>1, <1>2, MoreIds DEF Branched, Page
  <2> QED
    BY <1>1, <1>2, <2>1, <2>2, AddChildIs
<1>5. pages' = With(pgs, 4, node) /\ ArePages(pgs, m) /\ m >= 3
  BY <1>2, <1>3 DEF Dividing
<1>6. /\ ArePages(pages', m) /\ pages'[3] = node
      /\ \A i \in 1..m : i # 3 => pages'[i] = pgs[i]
  BY <1>4, <1>5, WithNode DEF IsNodePage
<1>7. \A q \in Ids(m) : pages'[q - 1] = pgs[q - 1]
  <2>1. \A q \in Ids(m) : q - 1 \in 1..m /\ q - 1 # 3
    BY <1>2, IdTypes
  <2> QED
    BY <1>6, <2>1
<1>8. Branched(m)'
  BY <1>2, <1>4, <1>5, <1>6 DEF Branched
<1>9. orphans' \subseteq Ids(m) \union {Nil}
  <2>1. orphans \subseteq Ids(m) \union {Nil}
    BY <1>2 DEF Shape
  <2> QED
    BY <2>1, UsingIs
<1>10. free' \in Seq(Ids(m)) /\ op' \in Inserting /\ root' # Nil
  BY <1>1, <1>2
<1>11. Shape(m)'
  BY <1>6, <1>8, <1>9, <1>10 DEF Shape
<1>12. p = LeafFor(op.key) /\ ~HasRoom(Page(p)) /\ root' = root
       /\ pages'[3] = AddChild(Page(4), Separator(p), p, new)
  BY <1>6 DEF SplitNeeded
<1>13. free' = FreeAfter(1) /\ Using({p, new}) /\ op' = op
  BY <1>2
<1> QED
  <2>1. NewLeaf(n, m, new) /\ p # new
    BY <1>2
  <2> QED
    BY <1>1, <1>3, <1>7, <1>11, <1>12, <1>13, <2>1, Zenon

-----------------------------------------------------------------------------
(* Removal.                                                                *)

LEMMA StartRemoveDoes ==
    ASSUME NEW n, Shape(n), NEW k \in Keys, StartRemove(k)
    PROVE  /\ UNCHANGED <<pages, root, free, orphans>>
           /\ op' = [kind |-> "remove", key |-> k, leaf |-> Search(k).leaf, slot |-> Search(k).slot]
           /\ Search(k).leaf \in Ids(n)
           /\ Search(k).slot \in 1..Len(Page(Search(k).leaf).cells)
           /\ Shape(n)'
<1>1. /\ UNCHANGED <<pages, root, free, orphans>> /\ Search(k) # Nowhere
      /\ op' = [kind |-> "remove", key |-> k, leaf |-> Search(k).leaf, slot |-> Search(k).slot]
  BY DEF StartRemove
<1>2. /\ root # Nil /\ Search(k).leaf \in Ids(n)
      /\ Search(k).slot \in 1..Len(Page(Search(k).leaf).cells)
  BY <1>1, SearchIs
<1>3. Search(k).slot \in Nat \ {0}
  BY <1>2
<1>4. op' \in RemovingFrom(Ids(n))
  BY <1>1, <1>2, <1>3 DEF RemovingFrom
<1>5. Shape(n)'
  BY <1>1, <1>2, <1>4 DEF Shape, Alone, Branched, Page
<1> QED
  BY <1>1, <1>2, <1>5

LEMMA OnToIs ==
    ASSUME NEW ids, op \in RemovingFrom(ids), NEW next \in ids \union {Nil}, OnTo(next)
    PROVE  op' = Idle \/ (op' \in RemovingFrom(ids) /\ op'.leaf = next /\ next # Nil)
<1>1. CASE next = Nil
  BY <1>1 DEF OnTo
<1>2. CASE next # Nil
  <2>1. op' = [op EXCEPT !.leaf = next, !.slot = 1] /\ next \in ids /\ 1 \in Nat \ {0}
    BY <1>2 DEF OnTo
  <2>2. op' \in RemovingFrom(ids) /\ op'.leaf = next
    BY <2>1 DEF RemovingFrom
  <2> QED
    BY <1>2, <2>2
<1> QED
  BY <1>1, <1>2

LEMMA MovesShape ==
    ASSUME NEW n, Shape(n), RemoveNextLeaf \/ RemoveDone \/ RemoveSkip
    PROVE  /\ UNCHANGED <<pages, root, free, orphans>>
           /\ op \in RemovingFrom(Ids(n))
           /\ \/ op' = Idle
              \/ op' \in RemovingFrom(Ids(n)) /\ op'.leaf \in {op.leaf, Page(op.leaf).next}
           /\ Shape(n)'
<1>1. op \in RemovingFrom(Ids(n)) /\ root # Nil /\ op.leaf \in Ids(n) /\ op.slot \in Nat \ {0}
  BY Calls DEF RemoveNextLeaf, RemoveDone, RemoveSkip, AtSlot, Removing
<1>2. UNCHANGED <<pages, root, free, orphans>>
  BY DEF RemoveNextLeaf, RemoveDone, RemoveSkip
<1>3. \/ op' = Idle
      \/ op' \in RemovingFrom(Ids(n)) /\ op'.leaf \in {op.leaf, Page(op.leaf).next}
  <2>1. CASE RemoveNextLeaf
    <3>1. Page(op.leaf).next \in Ids(n) \union {Nil} /\ OnTo(Page(op.leaf).next)
      BY <1>1, <2>1, Reading DEF RemoveNextLeaf
    <3> QED
      BY <1>1, <3>1, OnToIs
  <2>2. CASE RemoveDone
    BY <2>2 DEF RemoveDone
  <2>3. CASE RemoveSkip
    BY <1>1, <2>3 DEF RemoveSkip, RemovingFrom
  <2> QED
    BY <2>1, <2>2, <2>3
<1>4. Shape(n)'
  BY <1>1, <1>2, <1>3 DEF Shape, Alone, Branched, Page
<1> QED
  BY <1>1, <1>2, <1>3, <1>4

(* One record gets its mark.                                               *)
Marking(marked, cells, slot, k) ==
    /\ marked \in Seq(LeafCell) /\ Len(marked) = Len(cells)
    /\ slot \in 1..Len(cells) /\ cells[slot] = [key |-> k, deleted |-> FALSE]
    /\ marked[slot].key = k /\ marked[slot].deleted
    /\ \A i \in 1..Len(cells) : i # slot => marked[i] = cells[i]

LEMMA MarkedDoes ==
    ASSUME NEW n, Shape(n), AtLiveKey
    PROVE  /\ op \in RemovingFrom(Ids(n)) /\ op.leaf \in Ids(n) /\ root # Nil
           /\ Marking(Marked.cells, Page(op.leaf).cells, op.slot, op.key)
           /\ Marked \in LeafPage(Ids(n)) /\ Sorted(Marked.cells)
           /\ Len(Marked.cells) <= Marked.used
           /\ Marked.next = Page(op.leaf).next /\ Marked.prev = Page(op.leaf).prev
           /\ Marked.used = Page(op.leaf).used
<1>1. /\ op \in RemovingFrom(Ids(n)) /\ op.leaf \in Ids(n) /\ op.slot \in Nat \ {0} /\ root # Nil
      /\ op.key \in Keys
  BY Calls DEF AtLiveKey, AtSlot, Removing
<1> PICK leaf : leaf = Page(op.leaf)
  OBVIOUS
<1> PICK cells : cells = leaf.cells
  OBVIOUS
<1> PICK slot : slot = op.slot
  OBVIOUS
<1>2. /\ IsLeafPage(leaf, Ids(n)) /\ leaf \in LeafPage(Ids(n)) /\ cells \in Seq(LeafCell)
      /\ Sorted(cells) /\ Len(cells) <= leaf.used
  BY <1>1, Reading DEF IsLeafPage
<1>3. slot \in 1..Len(cells) /\ cells[slot] = [key |-> op.key, deleted |-> FALSE]
  <2>1. slot <= Len(cells) /\ cells[slot] = [key |-> op.key, deleted |-> FALSE]
    BY DEF AtLiveKey, AtSlot, Cell
  <2> QED
    BY <1>1, <1>2, <2>1, LenProperties
<1> PICK c : c = [cells[slot] EXCEPT !.deleted = TRUE]
  OBVIOUS
<1>4. c \in LeafCell /\ c.key = op.key /\ c.key = cells[slot].key /\ c.deleted
  <2>1. cells[slot] \in LeafCell /\ cells[slot].key = op.key
    BY <1>2, <1>3, ElementOfSeq
  <2> QED
    BY <2>1 DEF LeafCell
<1> PICK marked : marked = [cells EXCEPT ![slot] = c]
  OBVIOUS
<1>5. /\ marked \in Seq(LeafCell) /\ Len(marked) = Len(cells) /\ marked[slot] = c
      /\ \A i \in 1..Len(cells) : i # slot => marked[i] = cells[i]
  BY <1>2, <1>3, <1>4, ExceptSeq
<1>7. Marked = [leaf EXCEPT !.cells = marked]
  BY DEF Marked
<1>8. /\ Marked \in LeafPage(Ids(n)) /\ Marked.cells = marked
      /\ Marked.next = leaf.next /\ Marked.prev = leaf.prev /\ Marked.used = leaf.used
  BY <1>2, <1>5, <1>7 DEF LeafPage
<1>9. Sorted(marked)
  <2>1. DOMAIN marked = 1..Len(cells) /\ DOMAIN cells = 1..Len(cells)
    BY <1>2, <1>5, LenProperties
  <2>2. \A i \in 1..Len(cells) : marked[i].key = cells[i].key
    BY <1>4, <1>5
  <2> QED
    BY <1>2, <2>1, <2>2 DEF Sorted
<1>10. Marking(marked, cells, slot, op.key)
  BY <1>3, <1>4, <1>5 DEF Marking
<1> QED
  BY <1>1, <1>2, <1>5, <1>8, <1>9, <1>10

(* Where each deletion purges its leaf, a record with a mark calls for it. *)
LEMMA PurgeIsDue ==
    ASSUME NEW n, Shape(n), AtLiveKey, PurgeAt = 1
    PROVE  PurgeDue
<1> PICK marked : marked = Marked.cells
  OBVIOUS
<1>1. PICK cells : marked \in Seq(LeafCell) /\ op.slot \in 1..Len(marked) /\ marked[op.slot].deleted
  BY MarkedDoes DEF Marking
<1>2. PICK at : Unmarked(LiveCells(marked), marked, Len(marked), at)
  BY <1>1, LiveCellsAreUnmarked
<1>3. Len(LiveCells(marked)) <= Len(marked) /\ Len(LiveCells(marked)) # Len(marked)
      /\ Len(LiveCells(marked)) \in Nat /\ Len(marked) \in Nat
  BY <1>1, <1>2, LenProperties DEF Unmarked
<1>4. Len(marked) - Len(LiveCells(marked)) >= 1
  BY <1>3
<1> QED
  BY <1>4 DEF PurgeDue

LEMMA PurgedDoes ==
    ASSUME NEW n, Shape(n), AtLiveKey
    PROVE  /\ IsLeafPage(Purged, Ids(n))
           /\ \E at : Unmarked(Purged.cells, Marked.cells, Len(Marked.cells), at)
           /\ Purged.next = Page(op.leaf).next /\ Purged.prev = Page(op.leaf).prev
           /\ Purged.used = Len(Purged.cells)
<1> PICK marked : marked = Marked.cells
  OBVIOUS
<1> PICK live : live = LiveCells(marked)
  OBVIOUS
<1>1. /\ marked \in Seq(LeafCell) /\ Marked \in LeafPage(Ids(n)) /\ Sorted(marked)
      /\ Len(marked) <= Marked.used /\ Marked.used \in 0..LeafCap /\ LeafCap \in Nat
      /\ Marked.next = Page(op.leaf).next /\ Marked.prev = Page(op.leaf).prev
  BY MarkedDoes, TreeAssumption DEF Marking, LeafPage
<1>2. PICK at : Unmarked(live, marked, Len(marked), at)
  BY <1>1, LiveCellsAreUnmarked
<1>3. /\ live \in Seq(LeafCell) /\ Len(live) <= Len(marked) /\ Len(live) \in Nat /\ Len(marked) \in Nat
      /\ DOMAIN live = 1..Len(live) /\ DOMAIN marked = 1..Len(marked)
  BY <1>1, <1>2, LenProperties DEF Unmarked
<1>4. Sorted(live) /\ \A i \in DOMAIN live : ~live[i].deleted
  <2>1. /\ at \in [DOMAIN live -> DOMAIN marked]
        /\ \A i, j \in DOMAIN live : i < j => at[i] < at[j]
        /\ \A i \in DOMAIN live : live[i] = marked[at[i]] /\ ~live[i].deleted
    BY <1>2, <1>3 DEF Unmarked
  <2> QED
    BY <1>1, <2>1, SomeKeepSorted
<1>5. Purged = [Marked EXCEPT !.cells = live, !.used = Len(live)]
  BY DEF Purged
<1>6. Len(live) \in 0..LeafCap
  BY <1>1, <1>3
<1>7. /\ Purged \in LeafPage(Ids(n)) /\ Purged.cells = live /\ Purged.used = Len(live)
      /\ Purged.next = Marked.next /\ Purged.prev = Marked.prev
  BY <1>1, <1>3, <1>5, <1>6 DEF LeafPage
<1>8. IsLeafPage(Purged, Ids(n))
  BY <1>3, <1>4, <1>7 DEF IsLeafPage
<1> QED
  BY <1>1, <1>2, <1>7, <1>8

LEMMA RemoveMarkDoes ==
    ASSUME NEW n, Shape(n), RemoveMark
    PROVE  /\ PurgeAt # 1
           /\ Rewritten(n, op.leaf, Marked) /\ op'.leaf = op.leaf /\ op' \in RemovingFrom(Ids(n))
           /\ UNCHANGED <<root, free, orphans>>
           /\ Shape(n)'
<1>1. /\ AtLiveKey /\ ~PurgeDue /\ pages' = With(pages, op.leaf, Marked)
      /\ op' = [op EXCEPT !.slot = @ + 1] /\ UNCHANGED <<root, free, orphans>>
  BY DEF RemoveMark
<1>2. /\ op \in RemovingFrom(Ids(n)) /\ op.leaf \in Ids(n) /\ root # Nil
      /\ Marking(Marked.cells, Page(op.leaf).cells, op.slot, op.key)
      /\ Marked \in LeafPage(Ids(n)) /\ Sorted(Marked.cells) /\ Len(Marked.cells) <= Marked.used
      /\ Marked.next = Page(op.leaf).next /\ Marked.prev = Page(op.leaf).prev
      /\ Marked.used = Page(op.leaf).used
  BY <1>1, MarkedDoes
<1>3. PurgeAt # 1
  BY <1>1, PurgeIsDue
<1>4. IsLeafPage(Marked, Ids(n)) /\ Len(Marked.cells) = Len(Page(op.leaf).cells)
  BY <1>2, <1>3 DEF IsLeafPage, Marking
<1>5. /\ ArePages(pages', n) /\ pages'[op.leaf - 1] = Marked
      /\ \A i \in 1..n : i # op.leaf - 1 => pages'[i] = pages[i]
      /\ Alone(n) /\ orphans' = {} => Alone(n)'
      /\ Branched(n) => Branched(n)'
  BY <1>1, <1>2, <1>4, LeafRewritten
<1>6. op' \in RemovingFrom(Ids(n)) /\ op'.leaf = op.leaf
  BY <1>1, <1>2 DEF RemovingFrom
<1>7. Alone(n)' \/ Branched(n)'
  BY <1>1, <1>5 DEF Shape, Alone
<1>8. Shape(n)'
  BY <1>1, <1>2, <1>5, <1>6, <1>7 DEF Shape
<1>9. Rewritten(n, op.leaf, Marked)
  BY <1>2, <1>5 DEF Rewritten
<1> QED
  BY <1>1, <1>3, <1>6, <1>8, <1>9

LEMMA RemovePurgeDoes ==
    ASSUME NEW n, Shape(n), RemovePurge
    PROVE  /\ AtLiveKey /\ op \in RemovingFrom(Ids(n))
           /\ Rewritten(n, op.leaf, Purged)
           /\ UNCHANGED <<root, free, op, orphans>>
           /\ Shape(n)'
<1>1. /\ AtLiveKey /\ pages' = With(pages, op.leaf, Purged)
      /\ UNCHANGED <<root, free, op, orphans>>
  BY DEF RemovePurge
<1>2. op \in RemovingFrom(Ids(n)) /\ op.leaf \in Ids(n) /\ root # Nil
  BY <1>1, MarkedDoes
<1>3. /\ IsLeafPage(Purged, Ids(n)) /\ Purged.used = Len(Purged.cells)
      /\ Purged.next = Page(op.leaf).next /\ Purged.prev = Page(op.leaf).prev
  BY <1>1, PurgedDoes
<1>4. /\ ArePages(pages', n) /\ pages'[op.leaf - 1] = Purged
      /\ \A i \in 1..n : i # op.leaf - 1 => pages'[i] = pages[i]
      /\ Alone(n) /\ orphans' = {} => Alone(n)'
      /\ Branched(n) => Branched(n)'
  BY <1>1, <1>2, <1>3, LeafRewritten
<1>5. Alone(n)' \/ Branched(n)'
  BY <1>1, <1>4 DEF Shape, Alone
<1>6. Shape(n)'
  BY <1>1, <1>2, <1>4, <1>5 DEF Shape
<1>7. Rewritten(n, op.leaf, Purged)
  BY <1>2, <1>3, <1>4 DEF Rewritten
<1> QED
  BY <1>1, <1>2, <1>6, <1>7

(* Leaf p is emptied, and its neighbours are joined.                       *)
Unlinking(pgs, n, p) ==
    /\ ArePages(pgs, n)
    /\ n >= 3 => pgs[3] = pages[3]
    /\ \A q \in Ids(n) :
          /\ pgs[q - 1].cells = IF q = p THEN <<>> ELSE Page(q).cells
          /\ pgs[q - 1].used = IF q = p THEN 0 ELSE Page(q).used
          /\ pgs[q - 1].next = IF q = Page(p).prev THEN Page(p).next ELSE Page(q).next
          /\ pgs[q - 1].prev = IF q = Page(p).next THEN Page(p).prev ELSE Page(q).prev

LEMMA UnlinkedDoes ==
    ASSUME NEW n, Shape(n), NEW p \in Ids(n), NEW page, IsLeafPage(page, Ids(n)),
           page.cells = <<>>, page.used = 0, page.next = Page(p).next, page.prev = Page(p).prev
    PROVE  Unlinking(Unlinked(page, With(pages, p, page)), n, p)
<1> PICK begun : begun = With(pages, p, page)
  OBVIOUS
<1> PICK next, prev : next = Page(p).next /\ prev = Page(p).prev
  OBVIOUS
<1> PICK bypassed : bypassed = IF prev = Nil THEN begun ELSE SetNext(begun, prev, next)
  OBVIOUS
<1> PICK done : done = IF next = Nil THEN bypassed ELSE SetPrev(bypassed, next, prev)
  OBVIOUS
<1>1. Unlinked(page, begun) = done
  BY DEF Unlinked
<1>2. /\ n \in Nat /\ next \in Ids(n) \union {Nil} /\ prev \in Ids(n) \union {Nil}
      /\ \A q \in Ids(n) : q - 1 \in 1..n /\ q # Nil /\ q - 1 # 3 /\ (q # p => q - 1 # p - 1)
      /\ ArePages(pages, n)
  BY Reading, IdTypes DEF Shape
<1>3. /\ ArePages(begun, n) /\ begun[p - 1] = page
      /\ \A i \in 1..n : i # p - 1 => begun[i] = pages[i]
  BY <1>2, WithLeaf
<1>4. \A q \in Ids(n) : /\ begun[q - 1].cells = IF q = p THEN <<>> ELSE Page(q).cells
                        /\ begun[q - 1].used = IF q = p THEN 0 ELSE Page(q).used
                        /\ begun[q - 1].next = Page(q).next
                        /\ begun[q - 1].prev = Page(q).prev
  BY <1>2, <1>3 DEF Page
<1>5. /\ ArePages(bypassed, n)
      /\ n >= 3 => bypassed[3] = begun[3]
      /\ \A q \in Ids(n) : /\ bypassed[q - 1].cells = begun[q - 1].cells
                           /\ bypassed[q - 1].used = begun[q - 1].used
                           /\ bypassed[q - 1].prev = begun[q - 1].prev
                           /\ bypassed[q - 1].next = IF q = prev THEN next ELSE begun[q - 1].next
  <2>1. CASE prev = Nil
    BY <1>2, <1>3, <2>1
  <2>2. CASE prev # Nil
    <3>1. NextOnly(bypassed, begun, n, prev, next)
      BY <1>2, <1>3, <2>2, SetNextIs
    <3>2. n >= 3 => 3 \in 1..n /\ 3 # prev - 1
      BY <1>2, <2>2
    <3> QED
      BY <3>1, <3>2 DEF NextOnly
  <2> QED
    BY <2>1, <2>2
<1>6. /\ ArePages(done, n)
      /\ n >= 3 => done[3] = bypassed[3]
      /\ \A q \in Ids(n) : /\ done[q - 1].cells = bypassed[q - 1].cells
                           /\ done[q - 1].used = bypassed[q - 1].used
                           /\ done[q - 1].next = bypassed[q - 1].next
                           /\ done[q - 1].prev = IF q = next THEN prev ELSE bypassed[q - 1].prev
  <2>1. CASE next = Nil
    BY <1>2, <1>5, <2>1
  <2>2. CASE next # Nil
    <3>1. PrevOnly(done, bypassed, n, next, prev)
      BY <1>2, <1>5, <2>2, SetPrevIs
    <3>2. n >= 3 => 3 \in 1..n /\ 3 # next - 1
      BY <1>2, <2>2
    <3> QED
      BY <3>1, <3>2 DEF PrevOnly
  <2> QED
    BY <2>1, <2>2
<1>7. n >= 3 => begun[3] = pages[3]
  <2>1. 3 # p - 1 /\ (n >= 3 => 3 \in 1..n)
    BY <1>2
  <2> QED
    BY <1>3, <2>1
<1>8. \A q \in Ids(n) :
          /\ done[q - 1].cells = IF q = p THEN <<>> ELSE Page(q).cells
          /\ done[q - 1].used = IF q = p THEN 0 ELSE Page(q).used
          /\ done[q - 1].next = IF q = prev THEN next ELSE Page(q).next
          /\ done[q - 1].prev = IF q = next THEN prev ELSE Page(q).prev
  BY <1>4, <1>5, <1>6
<1>9. Unlinking(done, n, p)
  BY <1>5, <1>6, <1>7, <1>8 DEF Unlinking
<1> QED
  BY <1>1, <1>9

LEMMA RemoveFreeDoes ==
    ASSUME NEW n, Shape(n), RemoveFree
    PROVE  /\ AtLiveKey /\ op \in RemovingFrom(Ids(n)) /\ Purged.cells = <<>>
           /\ Unlinking(pages', n, op.leaf)
           /\ free' = Append(free, op.leaf)
           /\ Alone(n) => root = 2 /\ n = 1 /\ free = <<>> /\ op.leaf = 2 /\ root' = Nil /\ orphans' = {}
           /\ Branched(n) => root' = 4 /\ orphans' = orphans \union {op.leaf}
           /\ op' = Idle \/ (op' \in RemovingFrom(Ids(n)) /\ op'.leaf = Page(op.leaf).next)
           /\ Shape(n)'
<1>1. /\ AtLiveKey /\ Purged.cells = <<>>
      /\ pages' = Unlinked(Purged, With(pages, op.leaf, Purged))
      /\ root' = RootWithout(op.leaf) /\ free' = Append(free, op.leaf)
      /\ orphans' = (IF root = op.leaf THEN orphans ELSE orphans \union {op.leaf})
      /\ OnTo(Purged.next)
  BY DEF RemoveFree
<1>2. op \in RemovingFrom(Ids(n)) /\ op.leaf \in Ids(n) /\ root # Nil
  BY <1>1, MarkedDoes
<1>3. /\ IsLeafPage(Purged, Ids(n)) /\ Purged.used = 0
      /\ Purged.next = Page(op.leaf).next /\ Purged.prev = Page(op.leaf).prev
  BY <1>1, PurgedDoes
<1>4. Unlinking(pages', n, op.leaf)
  BY <1>1, <1>2, <1>3, UnlinkedDoes
<1>5. op' = Idle \/ (op' \in RemovingFrom(Ids(n)) /\ op'.leaf = Page(op.leaf).next /\ Page(op.leaf).next # Nil)
  <2>1. Page(op.leaf).next \in Ids(n) \union {Nil}
    BY <1>2, Reading
  <2> QED
    BY <1>1, <1>2, <1>3, <2>1, OnToIs
<1>6. ASSUME Alone(n)
      PROVE  /\ root = 2 /\ n = 1 /\ free = <<>> /\ op.leaf = 2 /\ root' = Nil /\ orphans' = {}
             /\ op' = Idle /\ Alone(n)'
  <2>1. root = 2 /\ n = 1 /\ free = <<>> /\ orphans = {}
    BY <1>2, <1>6 DEF Alone, Nil
  <2>2. op.leaf = 2 /\ Ids(n) = {2}
    BY <1>2, <2>1 DEF Ids
  <2>3. root' = Nil /\ orphans' = {} /\ free' = <<2>>
    BY <1>1, <2>1, <2>2 DEF RootWithout
  <2>4. Page(2).next = Nil /\ Page(2).prev = Nil
    BY <1>6, <2>2 DEF Alone
  <2>5. op' = Idle
    BY <1>5, <2>2, <2>4
  <2>6. /\ pages'[2 - 1].next = Nil /\ pages'[2 - 1].prev = Nil
        /\ pages'[2 - 1].cells = <<>> /\ pages'[2 - 1].used = 0
    BY <1>4, <2>2, <2>4 DEF Unlinking, Nil
  <2>7. Alone(n)'
    BY <2>1, <2>2, <2>3, <2>6 DEF Alone, Page
  <2> QED
    BY <2>1, <2>2, <2>3, <2>5, <2>7
<1>7. ASSUME Branched(n)
      PROVE  root' = 4 /\ orphans' = orphans \union {op.leaf} /\ Branched(n)'
  <2>1. root # op.leaf /\ n >= 3
    BY <1>2, <1>7, Reading, IdTypes DEF Branched
  <2>2. root' = 4 /\ orphans' = orphans \union {op.leaf}
    BY <1>1, <1>7, <2>1 DEF RootWithout, Branched
  <2> QED
    BY <1>4, <1>7, <2>1, <2>2 DEF Branched, Unlinking
<1>8. ArePages(pages', n) /\ free' \in Seq(Ids(n))
  <2>1. free \in Seq(Ids(n))
    BY DEF Shape
  <2> QED
    BY <1>1, <1>2, <1>4, <2>1 DEF Unlinking
<1>9. orphans' \subseteq Ids(n) \union {Nil}
  BY <1>1, <1>2 DEF Shape
<1>10. op' = Idle \/ root' # Nil
  BY <1>6, <1>7 DEF Shape, Nil
<1>11. Shape(n)'
  BY <1>5, <1>6, <1>7, <1>8, <1>9, <1>10 DEF Shape
<1> QED
  BY <1>1, <1>2, <1>4, <1>5, <1>6, <1>7, <1>11

-----------------------------------------------------------------------------
(* The shape is kept.                                                      *)

Shaped == \E n : Shape(n)

LEMMA InitIsShape == ASSUME Init PROVE Shape(0)
<1>1. Ids(0) = {}
  BY DEF Ids
<1>2. ArePages(pages, 0)
  <2>1. pages \in Seq(LeafPage(Ids(0)) \union NodePage(Ids(0))) /\ Len(pages) = 0
    BY DEF Init
  <2> QED
    BY <1>1, <2>1 DEF ArePages
<1>3. Alone(0)
  BY <1>1 DEF Alone, Init
<1>4. free \in Seq(Ids(0))
  BY DEF Init
<1> QED
  BY <1>2, <1>3, <1>4 DEF Shape, Init

LEMMA InitShaped == Init => Shaped
BY InitIsShape DEF Shaped

LEMMA NextShaped == Shaped /\ [Next]_vars => Shaped'
<1> SUFFICES ASSUME NEW n, Shape(n), [Next]_vars
             PROVE  \E m : Shape(m)'
  BY DEF Shaped
<1>1. CASE UNCHANGED vars
  <2>1. Shape(n)'
    BY <1>1 DEF vars, Shape, Alone, Branched, Page
  <2> QED
    BY <2>1
<1>2. ASSUME NEW k \in Keys, StartInsert(k) PROVE \E m : Shape(m)'
  BY <1>2, StartInsertDoes
<1>3. ASSUME NEW k \in Keys, StartRemove(k) PROVE \E m : Shape(m)'
  BY <1>3, StartRemoveDoes
<1>4. CASE InsertIntoLeaf
  BY <1>4, InsertIntoLeafDoes
<1>5. CASE ThrowInSplit
  BY <1>5, ThrowInSplitDoes
<1>6. CASE SplitRoot
  BY <1>6, SplitRootDoes
<1>7. CASE SplitBelowRoot
  BY <1>7, SplitBelowRootDoes
<1>8. CASE RemoveNextLeaf \/ RemoveDone \/ RemoveSkip
  BY <1>8, MovesShape
<1>9. CASE RemoveMark
  BY <1>9, RemoveMarkDoes
<1>10. CASE RemovePurge
  BY <1>10, RemovePurgeDoes
<1>11. CASE RemoveFree
  BY <1>11, RemoveFreeDoes
<1> QED
  BY <1>1, <1>2, <1>3, <1>4, <1>5, <1>6, <1>7, <1>8, <1>9, <1>10, <1>11 DEF Next, InsertStep, RemoveStep

LEMMA AlwaysShaped == Spec => []Shaped
BY InitShaped, NextShaped, PTL DEF Spec

(* Every page is a leaf, or the one root above leaves, and every pointer   *)
(* leads to a page of the file, whatever is inserted and removed           *)
(* (bplustree.cpp:178-460).                                                *)
THEOREM TreeTypeOK == Spec => []TypeOK
<1>1. Shaped => TypeOK
  <2> SUFFICES ASSUME NEW n, Shape(n) PROVE TypeOK
    BY DEF Shaped
  <2>1. /\ n \in Nat /\ PageIds = 2..(n + 1) /\ Leaves = Ids(n) /\ Ids(n) \subseteq PageIds
    BY Reading DEF Ids
  <2>2. root \in PageIds \union {Nil}
    BY <2>1 DEF Shape, Alone, Branched
  <2>3. free \in Seq(PageIds) /\ orphans \subseteq PageIds \union {Nil}
    <3>1. \A S, T : S \subseteq T => Seq(S) \subseteq Seq(T)
      OBVIOUS
    <3> QED
      BY <2>1, <3>1 DEF Shape
  <2>4. ASSUME NEW p \in Ids(n)
        PROVE  /\ Page(p) \in [level : {"leaf"}, used : 0..LeafCap,
                               cells : Seq([key : Keys, deleted : BOOLEAN]),
                               next : PageIds \union {Nil}, prev : PageIds \union {Nil}]
               /\ Len(Page(p).cells) <= Page(p).used
    <3>1. IsLeafPage(Page(p), Ids(n))
      BY Reading
    <3> PICK page : page = Page(p)
      OBVIOUS
    <3>2. page \in LeafPage(Ids(n)) /\ Len(page.cells) <= page.used
      BY <3>1 DEF IsLeafPage
    <3> QED
      BY <2>1, <3>2 DEF LeafPage, LeafCell
  <2>5. ASSUME 4 \in PageIds
        PROVE  /\ Page(4) \in [level : {"internal"}, rightmost : PageIds,
                               cells : Seq([key : Keys, child : PageIds])]
               /\ 4 = root /\ Len(Page(4).cells) \in 1..InternalCap
               /\ \A c \in Children(Page(4)) : IsLeaf(c)
    <3>1. Branched(n)
      BY <2>1, <2>5 DEF Shape, Alone
    <3> PICK page : page = Page(4)
      OBVIOUS
    <3>2. /\ page \in NodePage(Ids(n)) /\ Len(page.cells) \in 1..InternalCap
      BY <3>1 DEF Branched, IsNodePage, Page
    <3>3. NodePage(Ids(n)) \subseteq [level : {"internal"}, rightmost : PageIds,
                                      cells : Seq([key : Keys, child : PageIds])]
      <4> DEFINE A == NodeCell(Ids(n))
                 B == [key : Keys, child : PageIds]
      <4>1. A \subseteq B
        BY <2>1 DEF NodeCell
      <4> HIDE DEF A, B
      <4>2. Seq(A) \subseteq Seq(B)
        BY <4>1
      <4> QED
        BY <2>1, <4>2 DEF NodePage, A, B
    <3>4. page.rightmost \in Ids(n) /\ \A i \in DOMAIN page.cells : page.cells[i].child \in Ids(n)
      <4>1. /\ page.cells \in Seq(NodeCell(Ids(n))) /\ page.rightmost \in Ids(n)
            /\ \A i \in 1..Len(page.cells) : page.cells[i].child \in Ids(n)
        BY <3>1, NodeCellsAre
      <4>2. DOMAIN page.cells = 1..Len(page.cells)
        BY <4>1, LenProperties
      <4> QED
        BY <4>1, <4>2
    <3>5. \A c \in Children(page) : IsLeaf(c)
      BY <3>4, Reading DEF Children
    <3> QED
      BY <3>1, <3>2, <3>3, <3>5 DEF Branched
  <2>6. \A p \in PageIds : p \in Ids(n) \/ p = 4
    BY <2>1 DEF Ids
  <2> QED
    BY <2>2, <2>3, <2>4, <2>5, <2>6 DEF TypeOK
<1> QED
  BY <1>1, AlwaysShaped, PTL

(* The slots of a page stay in key order, as the binary search in it needs *)
(* them, through insertions, splits, purges and new separators             *)
(* (page_layout.cpp:101 and 323).                                          *)
THEOREM TreeSlotsSorted == Spec => []SlotsSorted
<1>1. Shaped => SlotsSorted
  <2> SUFFICES ASSUME NEW n, Shape(n), NEW p \in PageIds PROVE Sorted(Page(p).cells)
    BY DEF Shaped, SlotsSorted, Sorted
  <2>1. CASE p \in Ids(n)
    BY <2>1, Reading DEF IsLeafPage
  <2>2. CASE p = 4
    <3>1. Branched(n)
      BY <2>2, Reading DEF Shape, Alone
    <3> QED
      BY <2>2, <3>1, NodeCellsAre
  <2> QED
    BY <2>1, <2>2, Reading DEF Ids
<1> QED
  BY <1>1, AlwaysShaped, PTL

-----------------------------------------------------------------------------
(* The chain of the leaves: s lists the pages in use in the order of the   *)
(* next pointers, and the prev pointers lead back.                         *)

NextIn(s, i) == IF i = Len(s) THEN Nil ELSE s[i + 1]
PrevIn(s, i) == IF i = 1 THEN Nil ELSE s[i - 1]

Chain(s, pgs, used) ==
    /\ s \in Seq(used)
    /\ \A i, j \in 1..Len(s) : i < j => s[i] # s[j]
    /\ \A p \in used : \E i \in 1..Len(s) : s[i] = p
    /\ \A i \in 1..Len(s) : pgs[s[i] - 1].next = NextIn(s, i) /\ pgs[s[i] - 1].prev = PrevIn(s, i)

ChainOf(s, pgs, used, length) == Chain(s, pgs, used) /\ Len(s) = length

(* Page new comes after p; page p goes.                                    *)
GrowsBy(out, pgs, used, p, new) ==
    \A q \in used \union {new} :
        /\ out[q - 1].next = IF q = p THEN new
                             ELSE IF q = new THEN pgs[p - 1].next ELSE pgs[q - 1].next
        /\ out[q - 1].prev = IF q = new THEN p
                             ELSE IF q = pgs[p - 1].next THEN new ELSE pgs[q - 1].prev
ShrinksBy(out, pgs, used, p) ==
    \A q \in used \ {p} :
        /\ out[q - 1].next = IF q = pgs[p - 1].prev THEN pgs[p - 1].next ELSE pgs[q - 1].next
        /\ out[q - 1].prev = IF q = pgs[p - 1].next THEN pgs[p - 1].prev ELSE pgs[q - 1].prev

LEMMA ChainStays ==
    ASSUME NEW s, NEW pgs, NEW used, Chain(s, pgs, used), NEW out,
           \A q \in used : out[q - 1].next = pgs[q - 1].next /\ out[q - 1].prev = pgs[q - 1].prev
    PROVE  Chain(s, out, used)
<1>1. \A i \in 1..Len(s) : s[i] \in used
  BY ElementOfSeq DEF Chain
<1> QED
  BY <1>1 DEF Chain

LEMMA ChainGrows ==
    ASSUME NEW s, NEW pgs, NEW used, Chain(s, pgs, used), Nil \notin used,
           NEW p \in used, NEW new, new \notin used, new # Nil, NEW out,
           GrowsBy(out, pgs, used, p, new)
    PROVE  \E t : ChainOf(t, out, used \union {new}, Len(s) + 1)
<1> \A q \in used \union {new} :
       /\ out[q - 1].next = IF q = p THEN new
                            ELSE IF q = new THEN pgs[p - 1].next ELSE pgs[q - 1].next
       /\ out[q - 1].prev = IF q = new THEN p
                            ELSE IF q = pgs[p - 1].next THEN new ELSE pgs[q - 1].prev
  BY DEF GrowsBy
<1> PICK N \in Nat : N = Len(s)
  BY LenProperties DEF Chain
<1>1. PICK j \in 1..N : s[j] = p
  BY DEF Chain
<1>2. \A i \in 1..N : s[i] \in used /\ s[i] # new /\ s[i] # Nil
  BY ElementOfSeq DEF Chain
<1>3. \A a, b \in 1..N : a < b => s[a] # s[b]
  BY DEF Chain
<1>4. \A i \in 1..N : /\ pgs[s[i] - 1].next = IF i = N THEN Nil ELSE s[i + 1]
                      /\ pgs[s[i] - 1].prev = IF i = 1 THEN Nil ELSE s[i - 1]
  BY DEF Chain, NextIn, PrevIn
<1> DEFINE t == [i \in 1..(N + 1) |-> IF i <= j THEN s[i] ELSE IF i = j + 1 THEN new ELSE s[i - 1]]
<1>5. /\ t \in Seq(used \union {new}) /\ Len(t) = N + 1
  <2>1. \A i \in 1..(N + 1) : t[i] \in used \union {new}
    <3> TAKE i \in 1..(N + 1)
    <3>1. CASE i <= j
      BY <1>1, <1>2, <3>1
    <3>2. CASE i = j + 1
      BY <1>1, <3>2
    <3>3. CASE i > j + 1
      <4>1. i - 1 \in 1..N
        BY <1>1, <3>3
      <4> QED
        BY <1>1, <1>2, <3>3, <4>1
    <3> QED
      BY <1>1, <3>1, <3>2, <3>3
  <2> QED
    BY <2>1
<1>6. /\ \A i \in 1..j : i \in 1..N /\ t[i] = s[i]
      /\ t[j + 1] = new
      /\ \A i \in (j + 2)..(N + 1) : i - 1 \in 1..N /\ t[i] = s[i - 1]
      /\ j \in Nat /\ j >= 1 /\ j <= N
  BY <1>1
<1> HIDE DEF t
<1>7. \A i \in 1..(N + 1) : i \in 1..j \/ i = j + 1 \/ i \in (j + 2)..(N + 1)
  BY <1>6
<1>8. ASSUME NEW a \in 1..(N + 1), NEW b \in 1..(N + 1), a < b PROVE t[a] # t[b]
  <2>1. CASE b \in 1..j
    BY <1>3, <1>6, <1>8, <2>1
  <2>2. CASE b = j + 1
    <3>1. a \in 1..j
      BY <1>6, <1>8, <2>2
    <3> QED
      BY <1>2, <1>6, <2>2, <3>1
  <2>3. CASE b \in (j + 2)..(N + 1)
    <3>1. CASE a \in 1..j
      <4>1. a < b - 1
        BY <1>6, <2>3, <3>1
      <4> QED
        BY <1>3, <1>6, <2>3, <3>1, <4>1
    <3>2. CASE a = j + 1
      BY <1>2, <1>6, <2>3, <3>2
    <3>3. CASE a \in (j + 2)..(N + 1)
      <4>1. a - 1 < b - 1
        BY <1>8
      <4> QED
        BY <1>3, <1>6, <2>3, <3>3, <4>1
    <3> QED
      BY <1>7, <3>1, <3>2, <3>3
  <2> QED
    BY <1>7, <2>1, <2>2, <2>3
<1>9. ASSUME NEW q \in used \union {new} PROVE \E i \in 1..(N + 1) : t[i] = q
  <2>1. CASE q = new
    BY <1>6, <2>1
  <2>2. CASE q # new
    <3>1. PICK i \in 1..N : s[i] = q
      BY <2>2 DEF Chain
    <3>2. CASE i <= j
      BY <1>6, <3>1, <3>2
    <3>3. CASE ~(i <= j)
      <4>1. i + 1 \in (j + 2)..(N + 1) /\ (i + 1) - 1 = i /\ i + 1 \in 1..(N + 1)
        BY <1>6, <3>3
      <4>2. t[i + 1] = s[i]
        BY <1>6, <4>1
      <4> QED
        BY <3>1, <4>1, <4>2
    <3> QED
      BY <3>2, <3>3
  <2> QED
    BY <2>1, <2>2
<1>10. ASSUME NEW i \in 1..(N + 1) PROVE out[t[i] - 1].next = IF i = N + 1 THEN Nil ELSE t[i + 1]
  <2>1. CASE i \in 1..j /\ i # j
    <3>1. i + 1 \in 1..j /\ i # N /\ i # N + 1 /\ i < j
      BY <1>6, <2>1
    <3>2. s[i] # p /\ s[i] \in used /\ s[i] # new
      BY <1>1, <1>2, <1>3, <1>6, <2>1, <3>1
    <3> QED
      BY <1>4, <1>6, <2>1, <3>1, <3>2
  <2>2. CASE i = j
    BY <1>1, <1>6, <2>2
  <2>3. CASE i = j + 1
    <3>1. out[new - 1].next = pgs[p - 1].next
      OBVIOUS
    <3>2. CASE j = N
      BY <1>1, <1>4, <1>6, <2>3, <3>1, <3>2
    <3>3. CASE j # N
      <4>1. i + 1 \in (j + 2)..(N + 1) /\ (i + 1) - 1 = j + 1 /\ i # N + 1
        BY <1>6, <2>3, <3>3
      <4>2. t[i + 1] = s[j + 1]
        BY <1>6, <4>1
      <4> QED
        BY <1>1, <1>4, <1>6, <2>3, <3>1, <3>3, <4>1, <4>2
    <3> QED
      BY <3>2, <3>3
  <2>4. CASE i \in (j + 2)..(N + 1)
    <3>1. i - 1 \in 1..N /\ t[i] = s[i - 1] /\ j < i - 1 /\ (i - 1) + 1 = i
      BY <1>6, <2>4
    <3>2. s[i - 1] # p /\ s[i - 1] # new /\ s[i - 1] \in used
      BY <1>1, <1>2, <1>3, <3>1
    <3>3. out[t[i] - 1].next = IF i - 1 = N THEN Nil ELSE s[i]
      <4>1. PICK d \in 1..N : d = i - 1 /\ d + 1 = i
        BY <3>1
      <4>2. pgs[s[d] - 1].next = IF d = N THEN Nil ELSE s[d + 1]
        BY <1>4
      <4>3. out[s[d] - 1].next = pgs[s[d] - 1].next /\ t[i] = s[d]
        BY <3>1, <3>2, <4>1
      <4> QED
        BY <4>1, <4>2, <4>3
    <3>4. i # N + 1 => i + 1 \in (j + 2)..(N + 1) /\ (i + 1) - 1 = i /\ i - 1 # N
      BY <2>4
    <3>5. i = N + 1 => i - 1 = N
      OBVIOUS
    <3> QED
      BY <1>6, <3>3, <3>4, <3>5
  <2> QED
    BY <1>7, <2>1, <2>2, <2>3, <2>4
<1>11. pgs[p - 1].next = IF j = N THEN Nil ELSE s[j + 1]
  BY <1>1, <1>4
<1>12. ASSUME NEW i \in 1..(N + 1) PROVE out[t[i] - 1].prev = IF i = 1 THEN Nil ELSE t[i - 1]
  <2>1. CASE i \in 1..j
    <3>1. s[i] # pgs[p - 1].next
      <4>1. j # N => j + 1 \in 1..N /\ i < j + 1
        BY <1>6, <2>1
      <4> QED
        BY <1>2, <1>3, <1>6, <1>11, <2>1, <4>1
    <3>2. out[s[i] - 1].prev = IF i = 1 THEN Nil ELSE s[i - 1]
      BY <1>2, <1>4, <1>6, <2>1, <3>1
    <3>3. i # 1 => i - 1 \in 1..j
      BY <1>6, <2>1
    <3> QED
      BY <1>6, <2>1, <3>2, <3>3
  <2>2. CASE i = j + 1
    <3>1. i # 1 /\ i - 1 = j /\ j \in 1..j
      BY <1>6, <2>2
    <3> QED
      BY <1>1, <1>6, <2>2, <3>1
  <2>3. CASE i = j + 2
    <3>1. i \in (j + 2)..(N + 1) /\ i - 1 = j + 1 /\ j # N /\ i # 1
      BY <1>6, <2>3
    <3>2. t[i] = s[j + 1] /\ s[j + 1] \in used /\ s[j + 1] # new
      BY <1>2, <1>6, <3>1
    <3> QED
      BY <1>6, <1>11, <3>1, <3>2
  <2>4. CASE i \in (j + 2)..(N + 1) /\ i # j + 2
    <3>1. i - 1 \in 1..N /\ t[i] = s[i - 1] /\ i # 1 /\ i - 1 # 1 /\ j + 1 < i - 1
          /\ i - 1 \in (j + 2)..(N + 1) /\ (j # N => j + 1 \in 1..N)
      BY <1>6, <2>4
    <3>2. s[i - 1] # pgs[p - 1].next /\ s[i - 1] # new /\ s[i - 1] \in used
      BY <1>2, <1>3, <1>11, <3>1
    <3>3. out[t[i] - 1].prev = s[i - 1 - 1]
      BY <1>4, <3>1, <3>2
    <3>4. t[i - 1] = s[i - 1 - 1]
      BY <1>6, <3>1
    <3> QED
      BY <3>1, <3>3, <3>4
  <2> QED
    BY <1>7, <2>1, <2>2, <2>3, <2>4
<1>13. Chain(t, out, used \union {new})
  BY <1>5, <1>8, <1>9, <1>10, <1>12 DEF Chain, NextIn, PrevIn
<1>14. Len(t) = Len(s) + 1
  BY <1>5
<1> QED
  BY <1>13, <1>14 DEF ChainOf

LEMMA ChainShrinks ==
    ASSUME NEW s, NEW pgs, NEW used, Chain(s, pgs, used), Nil \notin used, NEW p \in used, NEW out,
           ShrinksBy(out, pgs, used, p)
    PROVE  \E t : ChainOf(t, out, used \ {p}, Len(s) - 1)
<1> \A q \in used \ {p} :
       /\ out[q - 1].next = IF q = pgs[p - 1].prev THEN pgs[p - 1].next ELSE pgs[q - 1].next
       /\ out[q - 1].prev = IF q = pgs[p - 1].next THEN pgs[p - 1].prev ELSE pgs[q - 1].prev
  BY DEF ShrinksBy
<1> PICK N \in Nat : N = Len(s)
  BY LenProperties DEF Chain
<1>1. PICK j \in 1..N : s[j] = p
  BY DEF Chain
<1>2. \A i \in 1..N : s[i] \in used /\ s[i] # Nil
  BY ElementOfSeq DEF Chain
<1>3. \A a, b \in 1..N : a # b => s[a] # s[b]
  <2>1. \A a, b \in 1..N : a < b => s[a] # s[b]
    BY DEF Chain
  <2>2. \A a, b \in 1..N : a # b => a < b \/ b < a
    OBVIOUS
  <2> QED
    BY <2>1, <2>2
<1>4. \A i \in 1..N : /\ pgs[s[i] - 1].next = IF i = N THEN Nil ELSE s[i + 1]
                      /\ pgs[s[i] - 1].prev = IF i = 1 THEN Nil ELSE s[i - 1]
  BY DEF Chain, NextIn, PrevIn
<1> DEFINE M == N - 1
           t == [i \in 1..M |-> IF i < j THEN s[i] ELSE s[i + 1]]
<1>5. /\ \A i \in 1..M : i < j => i \in 1..N /\ t[i] = s[i] /\ s[i] # p
      /\ \A i \in 1..M : ~(i < j) => i + 1 \in 1..N /\ t[i] = s[i + 1] /\ s[i + 1] # p
      /\ M \in Nat /\ j \in Nat /\ j >= 1 /\ j <= N /\ M + 1 = N
  <2>1. M \in Nat /\ j \in Nat /\ j >= 1 /\ j <= N /\ M + 1 = N
    OBVIOUS
  <2>2. ASSUME NEW i \in 1..M, i < j PROVE i \in 1..N /\ t[i] = s[i] /\ s[i] # p
    BY <1>1, <1>3, <2>1, <2>2
  <2>3. ASSUME NEW i \in 1..M, ~(i < j) PROVE i + 1 \in 1..N /\ t[i] = s[i + 1] /\ s[i + 1] # p
    <3>1. i + 1 \in 1..N /\ i + 1 # j
      BY <2>1, <2>3
    <3> QED
      BY <1>1, <1>3, <2>3, <3>1
  <2> QED
    BY <2>1, <2>2, <2>3
<1>6. t \in Seq(used \ {p}) /\ Len(t) = M
  <2>1. \A i \in 1..M : t[i] \in used \ {p}
    <3> HIDE DEF t
    <3> QED
      BY <1>2, <1>5
  <2>2. t = [i \in 1..M |-> t[i]]
    OBVIOUS
  <2> HIDE DEF t
  <2> QED
    BY <1>5, <2>1, <2>2
<1> HIDE DEF t, M
<1>7. ASSUME NEW a \in 1..M, NEW b \in 1..M, a < b PROVE t[a] # t[b]
  <2>1. CASE b < j
    BY <1>3, <1>5, <1>7, <2>1
  <2>2. CASE ~(b < j) /\ a < j
    <3>1. a # b + 1
      BY <1>7
    <3> QED
      BY <1>3, <1>5, <2>2, <3>1
  <2>3. CASE ~(a < j)
    <3>1. a + 1 # b + 1 /\ ~(b < j)
      BY <1>5, <1>7, <2>3
    <3> QED
      BY <1>3, <1>5, <2>3, <3>1
  <2> QED
    BY <2>1, <2>2, <2>3
<1>8. ASSUME NEW q \in used \ {p} PROVE \E i \in 1..M : t[i] = q
  <2>1. PICK i \in 1..N : s[i] = q /\ i # j
    BY <1>1 DEF Chain
  <2>2. CASE i < j
    <3>1. i \in 1..M
      BY <1>5, <2>2
    <3> QED
      BY <1>5, <2>1, <2>2, <3>1
  <2>3. CASE ~(i < j)
    <3>1. i - 1 \in 1..M /\ ~(i - 1 < j) /\ (i - 1) + 1 = i
      BY <1>5, <2>1, <2>3
    <3> QED
      BY <1>5, <2>1, <3>1
  <2> QED
    BY <2>2, <2>3
<1>9. /\ pgs[p - 1].next = IF j = N THEN Nil ELSE s[j + 1]
      /\ pgs[p - 1].prev = IF j = 1 THEN Nil ELSE s[j - 1]
  BY <1>1, <1>4
<1>10. ASSUME NEW i \in 1..M, i < j
       PROVE  /\ out[t[i] - 1].next = IF i = M THEN Nil ELSE t[i + 1]
              /\ out[t[i] - 1].prev = IF i = 1 THEN Nil ELSE t[i - 1]
  <2>1. i \in 1..N /\ t[i] = s[i] /\ s[i] \in used \ {p} /\ i # N
    BY <1>2, <1>5, <1>10
  <2>2. s[i] # pgs[p - 1].next
    <3>1. j # N => j + 1 \in 1..N /\ i # j + 1
      BY <1>5, <1>10
    <3> QED
      BY <1>2, <1>3, <1>9, <2>1, <3>1
  <2>3. out[t[i] - 1].prev = IF i = 1 THEN Nil ELSE s[i - 1]
    BY <1>4, <2>1, <2>2
  <2>4. i # 1 => i - 1 \in 1..M /\ i - 1 < j
    BY <1>5, <1>10
  <2>5. out[t[i] - 1].prev = IF i = 1 THEN Nil ELSE t[i - 1]
    BY <1>5, <2>3, <2>4
  <2>6. CASE i = j - 1
    <3>1. j # 1 /\ i + 1 = j /\ (i = M <=> j = N) /\ (i # M => i + 1 \in 1..M /\ ~(i + 1 < j))
      BY <1>5, <1>10, <2>6
    <3>2. s[i] = pgs[p - 1].prev
      BY <1>9, <2>6, <3>1
    <3>3. out[t[i] - 1].next = IF j = N THEN Nil ELSE s[j + 1]
      BY <1>9, <2>1, <3>2
    <3> QED
      BY <1>5, <2>5, <3>1, <3>3
  <2>7. CASE i # j - 1
    <3>1. i + 1 \in 1..M /\ i + 1 < j /\ i # M /\ (j # 1 => j - 1 \in 1..N)
      BY <1>5, <1>10, <2>7
    <3>2. s[i] # pgs[p - 1].prev
      BY <1>2, <1>3, <1>9, <2>1, <2>7, <3>1
    <3>3. out[t[i] - 1].next = s[i + 1]
      BY <1>4, <2>1, <3>2
    <3> QED
      BY <1>5, <2>5, <3>1, <3>3
  <2> QED
    BY <2>6, <2>7
<1>11. ASSUME NEW i \in 1..M, ~(i < j)
       PROVE  /\ out[t[i] - 1].next = IF i = M THEN Nil ELSE t[i + 1]
              /\ out[t[i] - 1].prev = IF i = 1 THEN Nil ELSE t[i - 1]
  <2>1. PICK d \in 1..N : d = i + 1 /\ d - 1 = i /\ d > j /\ d # 1
    <3>1. i + 1 \in 1..N
      BY <1>5, <1>11
    <3>2. (i + 1) - 1 = i /\ i + 1 > j /\ i + 1 # 1
      BY <1>5, <1>11
    <3> QED
      BY <3>1, <3>2
  <2>2. t[i] = s[d] /\ s[d] \in used \ {p}
    BY <1>2, <1>5, <1>11, <2>1
  <2>3. s[d] # pgs[p - 1].prev
    <3>1. j # 1 => j - 1 \in 1..N /\ d # j - 1
      BY <1>5, <2>1
    <3> QED
      BY <1>2, <1>3, <1>9, <3>1
  <2>4. out[t[i] - 1].next = IF d = N THEN Nil ELSE s[d + 1]
    BY <1>4, <2>2, <2>3
  <2>5. (i = M <=> d = N) /\ (i # M => i + 1 \in 1..M /\ ~(i + 1 < j))
    BY <1>5, <1>11, <2>1
  <2>6. out[t[i] - 1].next = IF i = M THEN Nil ELSE t[i + 1]
    BY <1>5, <2>1, <2>4, <2>5
  <2>7. CASE i = j
    <3>1. j # N /\ d = j + 1 /\ (i # 1 => i - 1 \in 1..M /\ i - 1 < j)
      BY <1>5, <2>1, <2>7
    <3>2. s[d] = pgs[p - 1].next
      BY <1>9, <3>1
    <3>3. out[t[i] - 1].prev = IF j = 1 THEN Nil ELSE s[j - 1]
      BY <1>9, <2>2, <3>2
    <3> QED
      BY <1>5, <2>6, <2>7, <3>1, <3>3
  <2>8. CASE i # j
    <3>1. i # 1 /\ i - 1 \in 1..M /\ ~(i - 1 < j) /\ (i - 1) + 1 = i /\ d # j + 1
          /\ (j # N => j + 1 \in 1..N)
      BY <1>5, <1>11, <2>1, <2>8
    <3>2. s[d] # pgs[p - 1].next
      BY <1>2, <1>3, <1>9, <3>1
    <3>3. out[t[i] - 1].prev = s[d - 1]
      BY <1>4, <2>1, <2>2, <3>2
    <3>4. t[i - 1] = s[i]
      BY <1>5, <3>1
    <3> QED
      BY <2>1, <2>6, <3>1, <3>3, <3>4
  <2> QED
    BY <2>7, <2>8
<1>12. \A i \in 1..M : /\ out[t[i] - 1].next = IF i = M THEN Nil ELSE t[i + 1]
                       /\ out[t[i] - 1].prev = IF i = 1 THEN Nil ELSE t[i - 1]
  BY <1>10, <1>11
<1>13. Chain(t, out, used \ {p})
  BY <1>6, <1>7, <1>8, <1>12 DEF Chain, NextIn, PrevIn
<1>14. Len(t) = Len(s) - 1
  BY <1>6 DEF M
<1> QED
  BY <1>13, <1>14 DEF ChainOf

-----------------------------------------------------------------------------
(* Until a freed leaf is used again, the pages that are not on the free    *)
(* list form a chain, and those on it are empty.                           *)

Chained(n) ==
    Nil \notin orphans =>
        /\ Branched(n) => ToSet(free) = orphans
        /\ \A p \in ToSet(free) : Page(p).cells = <<>>
        /\ op \in RemovingFrom(Ids(n)) => op.leaf \notin ToSet(free)
        /\ \E s : Chain(s, pages, Ids(n) \ ToSet(free)) /\ Len(s) <= n

LEMMA FreeWhenAlone ==
    ASSUME NEW n, Shape(n), Alone(n), root # Nil
    PROVE  free = <<>> /\ ToSet(free) = {} /\ orphans = {} /\ n = 1 /\ Ids(n) = {2}
<1>1. free = <<>> /\ orphans = {} /\ n = 1
  BY DEF Alone, Nil
<1> QED
  BY <1>1 DEF ToSet, Ids

LEMMA LeafNotFree ==
    ASSUME NEW n, Shape(n), Chained(n), root # Nil, Nil \notin orphans, NEW p, p \notin orphans
    PROVE  p \notin ToSet(free)
<1>1. CASE Alone(n)
  BY <1>1, FreeWhenAlone
<1>2. CASE Branched(n)
  BY <1>2 DEF Chained
<1> QED
  BY <1>1, <1>2 DEF Shape

(* The links stay, and so do the records of the free pages.                *)
LEMMA ChainedKept ==
    ASSUME NEW n, Shape(n), Chained(n), UNCHANGED <<root, free>>,
           Nil \notin orphans' => orphans' = orphans,
           Nil \notin orphans' => \A q \in Ids(n) : /\ pages'[q - 1].next = Page(q).next
                                                    /\ pages'[q - 1].prev = Page(q).prev,
           Nil \notin orphans' => \A q \in ToSet(free) : pages'[q - 1].cells = Page(q).cells,
           Nil \notin orphans' => (op' \in RemovingFrom(Ids(n)) => op'.leaf \notin ToSet(free))
    PROVE  Chained(n)'
<1> SUFFICES ASSUME Nil \notin orphans'
             PROVE  /\ Branched(n)' => ToSet(free)' = orphans'
                    /\ \A p \in ToSet(free)' : Page(p)'.cells = <<>>
                    /\ op' \in RemovingFrom(Ids(n)) => op'.leaf \notin ToSet(free)'
                    /\ \E s : Chain(s, pages', Ids(n) \ ToSet(free)') /\ Len(s) <= n
  BY DEF Chained
<1>1. orphans' = orphans /\ ToSet(free)' = ToSet(free)
  OBVIOUS
<1>2. PICK s : Chain(s, pages, Ids(n) \ ToSet(free)) /\ Len(s) <= n
  BY <1>1 DEF Chained
<1>3. Chain(s, pages', Ids(n) \ ToSet(free))
  BY <1>2, ChainStays DEF Page
<1>4. Branched(n)' => Branched(n)
  BY Reading DEF Branched, Nil
<1>5. \A p \in ToSet(free) : pages'[p - 1].cells = <<>>
  BY <1>1 DEF Chained
<1> QED
  BY <1>1, <1>2, <1>3, <1>4, <1>5 DEF Chained, Page

LEMMA RewrittenLinks ==
    ASSUME NEW n, Shape(n), NEW p, NEW page, Rewritten(n, p, page)
    PROVE  \A q \in Ids(n) : /\ pages'[q - 1].next = Page(q).next /\ pages'[q - 1].prev = Page(q).prev
                             /\ q # p => pages'[q - 1].cells = Page(q).cells
                             /\ q = p => pages'[q - 1].cells = page.cells
<1> TAKE q \in Ids(n)
<1>1. q - 1 \in 1..n /\ p \in Ids(n) /\ (q # p => q - 1 # p - 1)
  BY IdTypes DEF Rewritten, ArePages
<1> QED
  BY <1>1 DEF Rewritten, Page

LEMMA FreeAreIds ==
    ASSUME NEW n, Shape(n)
    PROVE  ToSet(free) \subseteq Ids(n) /\ Nil \notin Ids(n)
<1>1. free \in Seq(Ids(n)) /\ n \in Nat
  BY Reading DEF Shape
<1>2. \A i \in DOMAIN free : free[i] \in Ids(n)
  BY <1>1, ElementOfSeq, LenProperties
<1> QED
  BY <1>1, <1>2, IdTypes DEF ToSet

LEMMA InsertIntoLeafChained ==
    ASSUME NEW n, Shape(n), Chained(n), InsertIntoLeaf
    PROVE  Chained(n)'
<1>1. PICK p, page : Rewritten(n, p, page) /\ Using({p})
  BY InsertIntoLeafDoes
<1>2. root # Nil /\ UNCHANGED <<root, free>> /\ op' = Idle
  BY Calls DEF InsertIntoLeaf
<1>3. ASSUME Nil \notin orphans'
      PROVE  orphans' = orphans /\ p \notin ToSet(free)
  <2>1. orphans' = orphans /\ p \notin orphans
    BY <1>1, <1>3, UsingIs DEF Shape
  <2> QED
    BY <1>2, <1>3, <2>1, LeafNotFree
<1>4. op' \notin RemovingFrom(Ids(n))
  BY <1>2 DEF Idle, RemovingFrom
<1>5. \A q \in Ids(n) : /\ pages'[q - 1].next = Page(q).next /\ pages'[q - 1].prev = Page(q).prev
                        /\ q # p => pages'[q - 1].cells = Page(q).cells
  BY <1>1, RewrittenLinks
<1> QED
  BY <1>2, <1>3, <1>4, <1>5, FreeAreIds, ChainedKept

LEMMA RemoveInPlaceChained ==
    ASSUME NEW n, Shape(n), Chained(n), RemoveMark \/ RemovePurge
    PROVE  Chained(n)'
<1>1. /\ op \in RemovingFrom(Ids(n)) /\ op'.leaf = op.leaf
      /\ \E page : Rewritten(n, op.leaf, page)
      /\ UNCHANGED <<root, free, orphans>>
  BY RemoveMarkDoes, RemovePurgeDoes, Calls DEF RemoveMark, AtLiveKey, AtSlot, Removing
<1>2. Nil \notin orphans => op.leaf \notin ToSet(free)
  BY <1>1 DEF Chained
<1>3. \A q \in Ids(n) : /\ pages'[q - 1].next = Page(q).next /\ pages'[q - 1].prev = Page(q).prev
                        /\ q # op.leaf => pages'[q - 1].cells = Page(q).cells
  BY <1>1, RewrittenLinks
<1> QED
  BY <1>1, <1>2, <1>3, FreeAreIds, ChainedKept

(* The leaf after a leaf of the chain is in the chain.                     *)
LEMMA NextInChain ==
    ASSUME NEW n, Shape(n), Chained(n), Nil \notin orphans, NEW p \in Ids(n), p \notin ToSet(free),
           Page(p).next # Nil
    PROVE  Page(p).next \in Ids(n) \ ToSet(free) /\ Page(Page(p).next).prev = p
<1>1. PICK s : Chain(s, pages, Ids(n) \ ToSet(free))
  BY DEF Chained
<1>2. PICK i \in 1..Len(s) : s[i] = p /\ Len(s) \in Nat
  BY <1>1, LenProperties DEF Chain
<1>3. i # Len(s) /\ Page(p).next = s[i + 1]
  BY <1>1, <1>2 DEF Chain, NextIn, Page
<1>4. i + 1 \in 1..Len(s) /\ i + 1 # 1 /\ (i + 1) - 1 = i
  BY <1>2, <1>3
<1>5. s[i + 1] \in Ids(n) \ ToSet(free)
  BY <1>1, <1>4, ElementOfSeq DEF Chain
<1>6. Page(s[i + 1]).prev = s[i]
  BY <1>1, <1>4 DEF Chain, PrevIn, Page
<1> QED
  BY <1>2, <1>3, <1>5, <1>6

LEMMA MovesChained ==
    ASSUME NEW n, Shape(n), Chained(n), RemoveNextLeaf \/ RemoveDone \/ RemoveSkip
    PROVE  Chained(n)'
<1>1. /\ UNCHANGED <<pages, root, free, orphans>> /\ op \in RemovingFrom(Ids(n))
      /\ \/ op' = Idle
         \/ op' \in RemovingFrom(Ids(n)) /\ op'.leaf \in {op.leaf, Page(op.leaf).next}
  BY MovesShape
<1>2. Nil \notin orphans => op.leaf \notin ToSet(free) /\ op.leaf \in Ids(n)
  BY <1>1 DEF Chained, RemovingFrom
<1>3. ASSUME Nil \notin orphans, op' \in RemovingFrom(Ids(n)) PROVE op'.leaf \notin ToSet(free)
  <2>1. op'.leaf \in Ids(n) /\ op' # Idle
    BY <1>3 DEF RemovingFrom, Idle
  <2>2. op'.leaf # Nil
    BY <2>1, FreeAreIds
  <2>3. CASE op'.leaf = op.leaf
    BY <1>2, <1>3, <2>3
  <2>4. CASE op'.leaf = Page(op.leaf).next
    BY <1>2, <1>3, <2>2, <2>4, NextInChain
  <2> QED
    BY <1>1, <2>1, <2>3, <2>4
<1>4. \A q \in Ids(n) : /\ pages'[q - 1].next = Page(q).next /\ pages'[q - 1].prev = Page(q).prev
                        /\ pages'[q - 1].cells = Page(q).cells
  BY <1>1 DEF Page
<1> QED
  BY <1>1, <1>3, <1>4, FreeAreIds, ChainedKept

LEMMA StartRemoveChained ==
    ASSUME NEW n, Shape(n), Chained(n), NEW k \in Keys, StartRemove(k)
    PROVE  Chained(n)'
<1>1. /\ UNCHANGED <<pages, root, free, orphans>>
      /\ op' = [kind |-> "remove", key |-> k, leaf |-> Search(k).leaf, slot |-> Search(k).slot]
      /\ Search(k).slot \in 1..Len(Page(Search(k).leaf).cells)
  BY StartRemoveDoes
<1>2. ASSUME Nil \notin orphans PROVE op'.leaf \notin ToSet(free)
  <2>1. Page(Search(k).leaf).cells # <<>>
    BY <1>1
  <2>2. Search(k).leaf \notin ToSet(free)
    BY <1>2, <2>1 DEF Chained
  <2> QED
    BY <1>1, <2>2
<1>3. \A q \in Ids(n) : /\ pages'[q - 1].next = Page(q).next /\ pages'[q - 1].prev = Page(q).prev
                        /\ pages'[q - 1].cells = Page(q).cells
  BY <1>1 DEF Page
<1> QED
  BY <1>1, <1>2, <1>3, FreeAreIds, ChainedKept

LEMMA StartInsertChained ==
    ASSUME NEW n, Shape(n), Chained(n), NEW k \in Keys, StartInsert(k)
    PROVE  \E m : Shape(m)' /\ Chained(m)'
<1>1. op' \notin RemovingFrom(Ids(n)) /\ op' \notin RemovingFrom(Ids(1))
  BY StartInsertDoes DEF Inserting, RemovingFrom
<1>2. CASE root # Nil /\ UNCHANGED <<pages, root, free, orphans>> /\ Shape(n)'
  <2>1. \A q \in Ids(n) : /\ pages'[q - 1].next = Page(q).next /\ pages'[q - 1].prev = Page(q).prev
                          /\ pages'[q - 1].cells = Page(q).cells
    BY <1>2 DEF Page
  <2>2. Chained(n)'
    BY <1>1, <1>2, <2>1, FreeAreIds, ChainedKept
  <2> QED
    BY <1>2, <2>2
<1>3. CASE /\ root = Nil /\ Alone(n) /\ free' = <<>> /\ orphans' = {}
           /\ pages'[1] = EmptyLeaf /\ Shape(1)'
  <2>1. ToSet(free') = {} /\ Ids(1) = {2} /\ ~Branched(1)'
    BY <1>3 DEF ToSet, Ids, Branched
  <2> PICK s : s = <<2>>
    OBVIOUS
  <2>2. s \in Seq({2}) /\ Len(s) = 1 /\ s[1] = 2
    OBVIOUS
  <2>3. pages'[2 - 1].next = Nil /\ pages'[2 - 1].prev = Nil
    BY <1>3 DEF EmptyLeaf
  <2>4. Chain(s, pages', {2})
    BY <2>2, <2>3 DEF Chain, NextIn, PrevIn
  <2>5. {2} = Ids(1) \ ToSet(free') /\ Len(s) <= 1
    BY <2>1, <2>2
  <2>6. \E t : Chain(t, pages', Ids(1) \ ToSet(free')) /\ Len(t) <= 1
    BY <2>4, <2>5
  <2>7. Chained(1)'
    BY <1>1, <2>1, <2>6 DEF Chained
  <2> QED
    BY <1>3, <2>7
<1> QED
  BY <1>2, <1>3, StartInsertDoes

(* A split, begun or done, puts a page that was never used in the chain.   *)
LEMMA ChainGrown ==
    ASSUME NEW n, Shape(n), Chained(n), root # Nil, Nil \notin orphans,
           NEW m, NEW new, NewLeaf(n, m, new), new \notin Ids(n),
           NEW p \in Ids(n), NEW pgs, LinkedAfter(pgs, n, p, new),
           NEW out, \A q \in Ids(m) : out[q - 1].next = pgs[q - 1].next /\ out[q - 1].prev = pgs[q - 1].prev
    PROVE  \E t : Chain(t, out, Ids(m)) /\ Len(t) <= m
<1>1. /\ m = n + 1 /\ free = <<>> /\ new = n + 2 /\ Ids(m) = Ids(n) \union {new} /\ n \in Nat
      /\ new # Nil /\ Nil \notin Ids(n)
  BY Reading, FreeAreIds DEF NewLeaf, Nil
<1>2. Ids(n) \ ToSet(free) = Ids(n)
  BY <1>1 DEF ToSet
<1>3. PICK s : Chain(s, pages, Ids(n)) /\ Len(s) <= n
  BY <1>2 DEF Chained
<1>4. Len(s) \in Nat
  BY <1>3, LenProperties DEF Chain
<1>5. GrowsBy(out, pages, Ids(n), p, new)
  BY <1>1 DEF LinkedAfter, Page, GrowsBy
<1>6. PICK t : ChainOf(t, out, Ids(m), Len(s) + 1)
  <2>1. Chain(s, pages, Ids(n)) /\ Nil \notin Ids(n) /\ new # Nil
    BY <1>1, <1>3
  <2>2. \E t : ChainOf(t, out, Ids(n) \union {new}, Len(s) + 1)
    BY <1>5, <2>1, ChainGrows
  <2>3. Ids(m) = Ids(n) \union {new}
    BY <1>1
  <2> QED
    BY <2>2, <2>3
<1>7. Len(s) + 1 <= m
  BY <1>1, <1>3, <1>4
<1>8. Chain(t, out, Ids(m)) /\ Len(t) <= m
  BY <1>6, <1>7 DEF ChainOf
<1> QED
  BY <1>8

(* A page that an insertion takes from the free list was the root page or  *)
(* a freed leaf.                                                           *)
LEMMA TakenFromFree ==
    ASSUME NEW n, Shape(n), Chained(n), root # Nil, Nil \notin orphans,
           NEW m, NEW new, NewLeaf(n, m, new), new \notin orphans
    PROVE  /\ new \notin Ids(n) /\ free = <<>> /\ FreeAfter(1) = <<>> /\ ToSet(<<>>) = {}
           /\ new # Nil
           /\ Branched(n) => orphans = {}
<1>1. new \notin Ids(n)
  <2>1. new \notin ToSet(free)
    BY LeafNotFree
  <2>2. free # <<>> => free[1] \in ToSet(free)
    <3>1. free # <<>> => 1 \in DOMAIN free
      BY DEF Shape
    <3> QED
      BY <3>1 DEF ToSet
  <2> QED
    BY <2>1, <2>2 DEF NewLeaf
<1>2. free = <<>> /\ FreeAfter(1) = <<>> /\ ToSet(<<>>) = {}
  BY <1>1 DEF NewLeaf, ToSet
<1>3. new # Nil
  BY <1>1, Reading DEF NewLeaf, Nil
<1> QED
  BY <1>1, <1>2, <1>3 DEF Chained

LEMMA ThrowInSplitChained ==
    ASSUME NEW n, Shape(n), Chained(n), ThrowInSplit
    PROVE  \E m : Shape(m)' /\ Chained(m)'
<1>1. PICK m, new, p : /\ NewLeaf(n, m, new) /\ p \in Ids(n)
                       /\ Linking(pages', n, m, p, new)
                       /\ Using({p, new}) /\ Branched(n) /\ Shape(m)'
  BY ThrowInSplitDoes
<1>2. free' = FreeAfter(1) /\ op' = Failed /\ root # Nil
  BY <1>1 DEF ThrowInSplit, Branched, Nil
<1>3. ASSUME Nil \notin orphans'
      PROVE  /\ ToSet(free') = {} /\ orphans' = {}
             /\ \E t : Chain(t, pages', Ids(m) \ ToSet(free')) /\ Len(t) <= m
  <2>1. orphans' = orphans /\ new \notin orphans /\ Nil \notin orphans
    BY <1>1, <1>3, UsingIs DEF Shape
  <2>2. new \notin Ids(n) /\ FreeAfter(1) = <<>> /\ ToSet(<<>>) = {} /\ orphans = {}
    BY <1>1, <1>2, <2>1, TakenFromFree
  <2>3. LinkedAfter(pages', n, p, new)
    BY <1>1, <2>2 DEF Linking
  <2>4. \E t : Chain(t, pages', Ids(m)) /\ Len(t) <= m
    BY <1>1, <1>2, <2>1, <2>2, <2>3, ChainGrown
  <2> QED
    BY <1>2, <2>1, <2>2, <2>4
<1>4. op' \notin RemovingFrom(Ids(m))
  BY <1>2 DEF Failed, RemovingFrom
<1>5. Chained(m)'
  BY <1>3, <1>4 DEF Chained
<1> QED
  BY <1>1, <1>5

LEMMA SplitBelowRootChained ==
    ASSUME NEW n, Shape(n), Chained(n), SplitBelowRoot
    PROVE  \E m : Shape(m)' /\ Chained(m)'
<1>1. PICK m, new, p, pgs : /\ NewLeaf(n, m, new) /\ p \in Ids(n)
                            /\ Dividing(pgs, n, m, p, new)
                            /\ \A q \in Ids(m) : pages'[q - 1] = pgs[q - 1]
                            /\ Using({p, new}) /\ free' = FreeAfter(1) /\ op' = op
                            /\ Branched(n) /\ Shape(m)'
  BY SplitBelowRootDoes
<1>2. op' \notin RemovingFrom(Ids(m)) /\ root # Nil
  BY <1>1, FullLeaf DEF SplitBelowRoot, Inserting, RemovingFrom
<1>3. ASSUME Nil \notin orphans'
      PROVE  /\ ToSet(free') = {} /\ orphans' = {}
             /\ \E t : Chain(t, pages', Ids(m) \ ToSet(free')) /\ Len(t) <= m
  <2>1. orphans' = orphans /\ new \notin orphans /\ Nil \notin orphans
    BY <1>1, <1>3, UsingIs DEF Shape
  <2>2. new \notin Ids(n) /\ FreeAfter(1) = <<>> /\ ToSet(<<>>) = {} /\ orphans = {}
    BY <1>1, <1>2, <2>1, TakenFromFree
  <2>3. LinkedAfter(pgs, n, p, new)
    BY <1>1, <2>2 DEF Dividing
  <2>4. \E t : Chain(t, pages', Ids(m)) /\ Len(t) <= m
    BY <1>1, <1>2, <2>1, <2>2, <2>3, ChainGrown
  <2> QED
    BY <1>1, <2>1, <2>2, <2>4
<1>4. Chained(m)'
  BY <1>2, <1>3 DEF Chained
<1> QED
  BY <1>1, <1>4

LEMMA SplitRootChained ==
    ASSUME NEW n, Shape(n), Chained(n), SplitRoot
    PROVE  Shape(3)' /\ Chained(3)'
<1>1. /\ n = 1 /\ Alone(n) /\ root = 2 /\ NewLeaf(1, 2, 3)
      /\ \E pgs : Dividing(pgs, 1, 2, 2, 3) /\ \A q \in {2, 3} : pages'[q - 1] = pgs[q - 1]
      /\ Using({3, 4}) /\ free' = <<>> /\ op' = op /\ Shape(3)'
  BY SplitRootDoes
<1>2. PICK pgs : Dividing(pgs, 1, 2, 2, 3) /\ \A q \in {2, 3} : pages'[q - 1] = pgs[q - 1]
  BY <1>1
<1>3. root # Nil /\ op' \notin RemovingFrom(Ids(3))
  BY <1>1, FullLeaf DEF SplitRoot, Inserting, RemovingFrom
<1>4. orphans = {} /\ orphans' = {}
  BY <1>1, UsingIs DEF Alone
<1>5. Ids(1) = {2} /\ Ids(2) = {2, 3} /\ Ids(3) = {2, 3}
  BY DEF Ids
<1>6. LinkedAfter(pgs, 1, 2, 3)
  BY <1>2, <1>5 DEF Dividing
<1>7. PICK t : Chain(t, pages', Ids(2)) /\ Len(t) <= 2
  <2>1. 3 \notin Ids(n) /\ 2 \in Ids(n)
    BY <1>1, <1>5
  <2>2. \A q \in Ids(2) : /\ pages'[q - 1].next = pgs[q - 1].next
                          /\ pages'[q - 1].prev = pgs[q - 1].prev
    BY <1>2, <1>5
  <2> QED
    BY <1>1, <1>3, <1>4, <1>6, <2>1, <2>2, ChainGrown
<1>8. Len(t) \in Nat /\ Len(t) <= 3
  BY <1>7, LenProperties DEF Chain
<1>9. ToSet(free') = {}
  BY <1>1 DEF ToSet
<1>10. Chained(3)'
  BY <1>3, <1>4, <1>5, <1>7, <1>8, <1>9 DEF Chained
<1> QED
  BY <1>1, <1>10

LEMMA RemoveFreeChained ==
    ASSUME NEW n, Shape(n), Chained(n), RemoveFree
    PROVE  Chained(n)'
<1> PICK p : p = op.leaf
  OBVIOUS
<1>1. /\ op \in RemovingFrom(Ids(n)) /\ Unlinking(pages', n, p) /\ free' = Append(free, p)
      /\ Alone(n) => root' = Nil /\ orphans' = {}
      /\ Branched(n) => root' = 4 /\ orphans' = orphans \union {p}
      /\ op' = Idle \/ (op' \in RemovingFrom(Ids(n)) /\ op'.leaf = Page(p).next)
  BY RemoveFreeDoes
<1>2. p \in Ids(n) /\ free \in Seq(Ids(n)) /\ Nil \notin Ids(n) /\ ToSet(free) \subseteq Ids(n)
  BY <1>1, FreeAreIds DEF RemovingFrom, Shape
<1>3. ToSet(free') = ToSet(free) \union {p}
  <2> PICK more : more = Append(free, p)
    OBVIOUS
  <2>1. /\ Len(free) \in Nat /\ DOMAIN free = 1..Len(free) /\ DOMAIN more = 1..(Len(free) + 1)
        /\ more[Len(free) + 1] = p /\ \A i \in 1..Len(free) : more[i] = free[i]
    BY <1>2
  <2>2. DOMAIN more = DOMAIN free \union {Len(free) + 1}
    BY <2>1
  <2> QED
    BY <1>1, <2>1, <2>2 DEF ToSet
<1> SUFFICES ASSUME Nil \notin orphans'
             PROVE  /\ Branched(n)' => ToSet(free') = orphans'
                    /\ \A q \in ToSet(free') : pages'[q - 1].cells = <<>>
                    /\ op' \in RemovingFrom(Ids(n)) => op'.leaf \notin ToSet(free')
                    /\ \E s : Chain(s, pages', Ids(n) \ ToSet(free')) /\ Len(s) <= n
  BY DEF Chained, Page
<1>4. Nil \notin orphans
  BY <1>1 DEF Shape, Alone
<1>5. Branched(n)' => ToSet(free') = orphans'
  <2>1. Branched(n)' => root' # Nil
    BY DEF Branched, Nil
  <2> QED
    BY <1>1, <1>3, <1>4, <2>1 DEF Chained, Shape
<1>6. \A q \in ToSet(free') : pages'[q - 1].cells = <<>>
  <2>1. \A q \in ToSet(free) : Page(q).cells = <<>>
    BY <1>4 DEF Chained
  <2> QED
    BY <1>1, <1>2, <1>3, <2>1 DEF Unlinking
<1>7. p \notin ToSet(free)
  BY <1>1, <1>4 DEF Chained
<1>8. ASSUME op' \in RemovingFrom(Ids(n)) PROVE op'.leaf \notin ToSet(free')
  <2>1. op'.leaf = Page(p).next /\ op'.leaf # Nil
    BY <1>1, <1>2, <1>8 DEF Idle, RemovingFrom
  <2>2. Page(p).next \notin ToSet(free)
    BY <1>2, <1>4, <1>7, <2>1, NextInChain
  <2>3. Page(p).next # p
    <3>1. PICK s : Chain(s, pages, Ids(n) \ ToSet(free))
      BY <1>4 DEF Chained
    <3>2. PICK i \in 1..Len(s) : s[i] = p /\ Len(s) \in Nat
      BY <1>2, <1>7, <3>1, LenProperties DEF Chain
    <3>3. i # Len(s) /\ Page(p).next = s[i + 1]
      BY <2>1, <3>1, <3>2 DEF Chain, NextIn, Page
    <3>4. i + 1 \in 1..Len(s) /\ i < i + 1
      BY <3>2, <3>3
    <3> QED
      BY <3>1, <3>2, <3>3, <3>4 DEF Chain
  <2> QED
    BY <1>3, <2>1, <2>2, <2>3
<1>9. \E s : Chain(s, pages', Ids(n) \ ToSet(free')) /\ Len(s) <= n
  <2>1. PICK s : Chain(s, pages, Ids(n) \ ToSet(free)) /\ Len(s) <= n
    BY <1>4 DEF Chained
  <2>2. Len(s) \in Nat /\ n \in Nat
    BY <2>1, LenProperties, Reading DEF Chain
  <2>3. ShrinksBy(pages', pages, Ids(n) \ ToSet(free), p)
    BY <1>1 DEF Unlinking, Page, ShrinksBy
  <2>4. p \in Ids(n) \ ToSet(free) /\ Nil \notin Ids(n) \ ToSet(free)
    BY <1>2, <1>7
  <2>5. \E t : ChainOf(t, pages', (Ids(n) \ ToSet(free)) \ {p}, Len(s) - 1)
    BY <2>1, <2>3, <2>4, ChainShrinks
  <2>6. (Ids(n) \ ToSet(free)) \ {p} = Ids(n) \ ToSet(free')
    BY <1>3
  <2>7. PICK t : ChainOf(t, pages', Ids(n) \ ToSet(free'), Len(s) - 1)
    BY <2>5, <2>6
  <2>8. Len(s) - 1 <= n
    BY <2>1, <2>2
  <2>9. Chain(t, pages', Ids(n) \ ToSet(free')) /\ Len(t) <= n
    BY <2>7, <2>8 DEF ChainOf
  <2> QED
    BY <2>9
<1> QED
  BY <1>5, <1>6, <1>8, <1>9

(* What every reachable state satisfies.                                   *)
InOrder == \E n : Shape(n) /\ Chained(n)

LEMMA InitInOrder == Init => InOrder
<1> SUFFICES ASSUME Init PROVE Shape(0) /\ Chained(0)
  BY DEF InOrder
<1>1. Shape(0)
  BY InitIsShape
<1>2. Ids(0) = {} /\ ToSet(free) = {} /\ Ids(0) \ ToSet(free) = {}
  BY DEF Ids, Init, ToSet
<1>3. ~Branched(0) /\ op \notin RemovingFrom(Ids(0))
  BY DEF Branched, Init, Idle, RemovingFrom
<1>4. PICK s : s = <<>>
  OBVIOUS
<1>5. Len(s) = 0 /\ s \in Seq({})
  BY <1>4
<1>6. Chain(s, pages, {})
  BY <1>5 DEF Chain
<1>7. \E t : Chain(t, pages, Ids(0) \ ToSet(free)) /\ Len(t) <= 0
  <2>1. Chain(s, pages, Ids(0) \ ToSet(free))
    BY <1>2, <1>6
  <2>2. Len(s) <= 0
    BY <1>5
  <2> QED
    BY <2>1, <2>2
<1>8. Chained(0)
  BY <1>2, <1>3, <1>7 DEF Chained
<1> QED
  BY <1>1, <1>8

LEMMA NextInOrder == InOrder /\ [Next]_vars => InOrder'
<1> SUFFICES ASSUME NEW n, Shape(n), Chained(n), [Next]_vars
             PROVE  \E m : Shape(m)' /\ Chained(m)'
  BY DEF InOrder
<1>1. CASE UNCHANGED vars
  <2>1. Shape(n)'
    BY <1>1 DEF vars, Shape, Alone, Branched, Page
  <2>2. Chained(n)'
    BY <1>1 DEF vars, Chained, Branched, Page
  <2> QED
    BY <2>1, <2>2
<1>2. ASSUME NEW k \in Keys, StartInsert(k) PROVE \E m : Shape(m)' /\ Chained(m)'
  BY <1>2, StartInsertChained
<1>3. ASSUME NEW k \in Keys, StartRemove(k) PROVE Shape(n)' /\ Chained(n)'
  BY <1>3, StartRemoveDoes, StartRemoveChained
<1>4. CASE InsertIntoLeaf
  <2>1. Shape(n)'
    BY <1>4, InsertIntoLeafDoes
  <2> QED
    BY <1>4, <2>1, InsertIntoLeafChained
<1>5. CASE ThrowInSplit
  BY <1>5, ThrowInSplitChained
<1>6. CASE SplitRoot
  BY <1>6, SplitRootChained
<1>7. CASE SplitBelowRoot
  BY <1>7, SplitBelowRootChained
<1>8. CASE RemoveNextLeaf \/ RemoveDone \/ RemoveSkip
  BY <1>8, MovesShape, MovesChained
<1>9. CASE RemoveMark
  BY <1>9, RemoveMarkDoes, RemoveInPlaceChained
<1>10. CASE RemovePurge
  BY <1>10, RemovePurgeDoes, RemoveInPlaceChained
<1>11. CASE RemoveFree
  BY <1>11, RemoveFreeDoes, RemoveFreeChained
<1> QED
  BY <1>1, <1>2, <1>3, <1>4, <1>5, <1>6, <1>7, <1>8, <1>9, <1>10, <1>11 DEF Next, InsertStep, RemoveStep

LEMMA AlwaysInOrder == Spec => []InOrder
BY InitInOrder, NextInOrder, PTL DEF Spec

(* The walk from the first page of the chain meets its pages in turn.      *)
LEMMA WalkAlongChain ==
    ASSUME NEW n, Shape(n), NEW s, Chain(s, pages, Ids(n) \ ToSet(free)), Len(s) \in 1..n
    PROVE  /\ Walk(s[1]) \in [0..n -> Leaves \union {Nil}]
           /\ \A i \in 0..n : Walk(s[1])[i] = IF i < Len(s) THEN s[i + 1] ELSE Nil
<1> PICK N \in 1..n : N = Len(s)
  OBVIOUS
<1>1. n \in Nat /\ Len(pages) = n /\ Leaves = Ids(n) /\ \A q \in Leaves : Page(q).next \in Leaves \union {Nil}
  BY Reading
<1>2. /\ \A i \in 1..N : s[i] \in Ids(n) /\ s[i] # Nil
      /\ \A i \in 1..N : Page(s[i]).next = IF i = N THEN Nil ELSE s[i + 1]
  <2>1. \A i \in 1..N : s[i] \in Ids(n) \ ToSet(free)
    BY ElementOfSeq DEF Chain
  <2>2. \A i \in 1..N : Page(s[i]).next = IF i = N THEN Nil ELSE s[i + 1]
    BY DEF Chain, NextIn, Page
  <2> QED
    BY <2>1, <2>2, FreeAreIds
<1>3. s[1] \in Leaves
  BY <1>1, <1>2
<1> PICK w : w = Walk(s[1])
  OBVIOUS
<1>4. /\ w \in [0..n -> Leaves \union {Nil}] /\ w[0] = s[1]
      /\ \A i \in 1..n : w[i] = IF w[i - 1] = Nil THEN Nil ELSE Page(w[i - 1]).next
  BY <1>1, <1>3, WalkIs
<1> DEFINE T == {i \in 0..n : w[i] = IF i < N THEN s[i + 1] ELSE Nil}
<1>5. 0 \in T
  BY <1>1, <1>4
<1>6. ASSUME NEW i \in 1..n, i - 1 \in T PROVE i \in T
  <2>1. i - 1 \in 0..n /\ (i - 1) + 1 = i /\ i \in 0..n
    BY <1>1
  <2>2. w[i - 1] = IF i - 1 < N THEN s[i] ELSE Nil
    BY <1>6, <2>1
  <2>3. CASE i - 1 < N
    <3>1. i \in 1..N /\ (i = N \/ i < N)
      BY <2>3
    <3>2. w[i] = Page(s[i]).next
      BY <1>2, <1>4, <2>2, <2>3, <3>1
    <3>3. w[i] = IF i = N THEN Nil ELSE s[i + 1]
      BY <1>2, <3>1, <3>2
    <3> QED
      BY <2>1, <3>1, <3>3
  <2>4. CASE ~(i - 1 < N)
    <3>1. w[i] = Nil /\ ~(i < N)
      BY <1>4, <2>2, <2>4
    <3> QED
      BY <2>1, <3>1
  <2> QED
    BY <2>3, <2>4
<1>7. \A i \in 0..n : i \in T
  <2> HIDE DEF T
  <2> QED
    BY <1>1, <1>5, <1>6, UpwardClosed
<1> QED
  BY <1>4, <1>7

LEMMA ChainOfLeaves == ASSUME InOrder PROVE LeafChain
<1> SUFFICES ASSUME Nil \notin orphans, LeavesInUse # {}
             PROVE  \E first \in LeavesInUse :
                      /\ Page(first).prev = Nil
                      /\ Range(Walk(first)) \ {Nil} = LeavesInUse
                      /\ \A p \in LeavesInUse : Page(p).next # Nil => Page(Page(p).next).prev = p
  BY DEF LeafChain
<1>1. PICK n : Shape(n) /\ Chained(n)
  BY DEF InOrder
<1>2. n \in Nat /\ LeavesInUse = Ids(n) \ ToSet(free) /\ Nil \notin Ids(n)
  BY <1>1, Reading, FreeAreIds DEF LeavesInUse
<1>3. PICK s : Chain(s, pages, Ids(n) \ ToSet(free)) /\ Len(s) <= n
  BY <1>1 DEF Chained
<1>4. /\ Len(s) \in Nat
      /\ \A i \in 1..Len(s) : s[i] \in LeavesInUse
      /\ \A p \in LeavesInUse : \E i \in 1..Len(s) : s[i] = p
  BY <1>2, <1>3, LenProperties, ElementOfSeq DEF Chain
<1>5. Len(s) \in 1..n /\ 1 \in 1..Len(s)
  BY <1>2, <1>3, <1>4
<1>6. Page(s[1]).prev = Nil
  BY <1>3, <1>5 DEF Chain, PrevIn, Page
<1>7. \A p \in LeavesInUse : Page(p).next # Nil => Page(Page(p).next).prev = p
  BY <1>1, <1>2, NextInChain
<1> PICK w : w = Walk(s[1])
  OBVIOUS
<1>8. DOMAIN w = 0..n /\ \A i \in 0..n : w[i] = IF i < Len(s) THEN s[i + 1] ELSE Nil
  BY <1>1, <1>3, <1>5, WalkAlongChain
<1>9. \A p \in LeavesInUse : p \in Range(w) /\ p # Nil
  <2> TAKE p \in LeavesInUse
  <2>1. PICK i \in 1..Len(s) : s[i] = p
    BY <1>4
  <2>2. i - 1 \in 0..n /\ i - 1 < Len(s) /\ (i - 1) + 1 = i
    BY <1>2, <1>3, <1>4
  <2>3. w[i - 1] = p
    BY <1>8, <2>1, <2>2
  <2> QED
    BY <1>2, <1>8, <2>2, <2>3 DEF Range
<1>10. \A p \in Range(w) : p # Nil => p \in LeavesInUse
  <2> TAKE p \in Range(w)
  <2>1. PICK i \in 0..n : p = w[i]
    BY <1>8 DEF Range
  <2>2. i < Len(s) => i + 1 \in 1..Len(s)
    BY <1>2, <1>4
  <2> QED
    BY <1>4, <1>8, <2>1, <2>2
<1>11. Range(Walk(s[1])) \ {Nil} = LeavesInUse
  BY <1>9, <1>10
<1> QED
  BY <1>4, <1>5, <1>6, <1>7, <1>11

(* The records of every page stay in key order, and the leaves in use one  *)
(* doubly linked chain, whatever is inserted and removed, until a freed    *)
(* leaf is used again (bplustree.cpp:216, 306 and 439, page_layout.cpp:101 *)
(* and 323).                                                               *)
THEOREM TreePagesInOrder == Spec => []PagesInOrder
<1>1. InOrder => LeafChain
  BY ChainOfLeaves
<1> QED
  BY <1>1, AlwaysInOrder, TreeSlotsSorted, PTL DEF PagesInOrder

-----------------------------------------------------------------------------
(* The rows of a key: its records without a mark.                          *)

OneToOne(f, S, T) ==
    /\ f \in [S -> T]
    /\ \A x, y \in S : f[x] = f[y] => x = y
    /\ \A y \in T : \E x \in S : f[x] = y

LEMMA SameSize ==
    ASSUME NEW S, NEW T, IsFiniteSet(S), NEW f, OneToOne(f, S, T)
    PROVE  IsFiniteSet(T) /\ Cardinality(T) = Cardinality(S)
<1>1. f \in Bijection(S, T)
  BY DEF OneToOne, Bijection, Injection, Surjection, IsInjective
<1>2. ExistsBijection(S, T)
  BY <1>1 DEF ExistsBijection
<1> QED
  BY <1>2, FS_Bijection

(* On the pages of used: the places of the rows with key k.                *)
Rows(pgs, used, k) ==
    {x \in used \X (1..LeafCap) :
        /\ x[2] <= Len(pgs[x[1] - 1].cells)
        /\ pgs[x[1] - 1].cells[x[2]].key = k /\ ~pgs[x[1] - 1].cells[x[2]].deleted}

CellsFit(pgs, used) ==
    \A q \in used : pgs[q - 1].cells \in Seq(LeafCell) /\ Len(pgs[q - 1].cells) \in 0..LeafCap

StoredFrom(n) ==
    /\ CellsFit(pages, Ids(n))
    /\ \A k \in Keys : Stored(k) = Rows(pages, Ids(n) \ ToSet(free), k) /\ IsFiniteSet(Stored(k))
StoredKnown == \A n : Shape(n) => StoredFrom(n)

LEMMA StoredIs == StoredKnown
<1> SUFFICES ASSUME NEW n, Shape(n)
             PROVE  StoredFrom(n)
  BY DEF StoredKnown
<1>1. n \in Nat /\ Leaves = Ids(n) /\ LeafCap \in Nat /\ Ids(n) \subseteq 2..(n + 1)
  BY Reading, TreeAssumption DEF Ids
<1>2. \A q \in Ids(n) : /\ Page(q).cells \in Seq(LeafCell) /\ Len(Page(q).cells) \in 0..LeafCap
                        /\ DOMAIN Page(q).cells = 1..Len(Page(q).cells)
                        /\ \A i \in 1..Len(Page(q).cells) :
                              Page(q).cells[i] \in LeafCell
  <2> TAKE q \in Ids(n)
  <2> PICK cells : cells = Page(q).cells
    OBVIOUS
  <2>1. cells \in Seq(LeafCell) /\ Len(cells) <= Page(q).used /\ Page(q).used \in 0..LeafCap
    BY Reading DEF IsLeafPage
  <2>2. Len(cells) \in Nat /\ DOMAIN cells = 1..Len(cells) /\ \A i \in 1..Len(cells) : cells[i] \in LeafCell
    BY <2>1, LenProperties, ElementOfSeq
  <2>3. Len(cells) \in 0..LeafCap
    BY <1>1, <2>1, <2>2
  <2> QED
    BY <2>1, <2>2, <2>3
<1>3. CellsFit(pages, Ids(n))
  BY <1>2 DEF CellsFit, Page
<1>4. ASSUME NEW k \in Keys, NEW q \in Ids(n), NEW j \in 1..Len(Page(q).cells)
      PROVE  Page(q).cells[j] = [key |-> k, deleted |-> FALSE] <=>
                Page(q).cells[j].key = k /\ ~Page(q).cells[j].deleted
  <2> PICK c \in LeafCell : c = Page(q).cells[j]
    BY <1>2
  <2>1. c.key = k /\ ~c.deleted => c = [key |-> k, deleted |-> FALSE]
    BY DEF LeafCell
  <2> QED
    BY <2>1
<1>5. ASSUME NEW k \in Keys
      PROVE  Stored(k) = Rows(pages, Ids(n) \ ToSet(free), k) /\ IsFiniteSet(Stored(k))
  <2> DEFINE used == Ids(n) \ ToSet(free)
             on(p) == {j \in DOMAIN Page(p).cells : Page(p).cells[j] = [key |-> k, deleted |-> FALSE]}
             pairs == UNION {{<<p, i>> : i \in on(p)} : p \in used}
  <2>1. Stored(k) = pairs
    BY <1>1 DEF Stored, LeavesInUse
  <2>2. ASSUME NEW p \in used, NEW j PROVE j \in on(p) <=> <<p, j>> \in Rows(pages, used, k)
    <3>1. j \in on(p) <=> /\ j \in 1..Len(Page(p).cells)
                          /\ Page(p).cells[j].key = k /\ ~Page(p).cells[j].deleted
      BY <1>2, <1>4, <2>2
    <3>2. j \in 1..Len(Page(p).cells) <=> j \in 1..LeafCap /\ j <= Len(Page(p).cells)
      BY <1>1, <1>2
    <3> QED
      BY <3>1, <3>2 DEF Rows, Page
  <2>3. Rows(pages, used, k) \subseteq used \X (1..LeafCap)
    BY DEF Rows
  <2>4. pairs = Rows(pages, used, k)
    <3> HIDE DEF used, on
    <3>1. ASSUME NEW x \in pairs PROVE x \in Rows(pages, used, k)
      BY <2>2
    <3>2. ASSUME NEW x \in Rows(pages, used, k) PROVE x \in pairs
      <4>1. x[1] \in used /\ x = <<x[1], x[2]>>
        BY <2>3
      <4> QED
        BY <2>2, <4>1
    <3> QED
      BY <3>1, <3>2
  <2>5. IsFiniteSet((2..(n + 1)) \X (1..LeafCap))
    <3>1. IsFiniteSet(2..(n + 1)) /\ IsFiniteSet(1..LeafCap)
      <4>1. 2 \in Int /\ n + 1 \in Int /\ 1 \in Int /\ LeafCap \in Int
        BY <1>1
      <4> QED
        BY <4>1, FS_Interval
    <3> QED
      BY <3>1, FS_Product
  <2>6. Rows(pages, used, k) \subseteq (2..(n + 1)) \X (1..LeafCap)
    BY <1>1, <2>3
  <2>7. IsFiniteSet(Rows(pages, used, k))
    BY <2>5, <2>6, FS_Subset
  <2> QED
    BY <2>1, <2>4, <2>7
<1> QED
  BY <1>3, <1>5 DEF StoredFrom

LEMMA StoredThenIs == StoredKnown'
BY StoredIs, PTL

LEMMA RowsSame ==
    ASSUME NEW pgs, NEW out, NEW used, NEW k,
           \A q \in used : out[q - 1].cells = pgs[q - 1].cells
    PROVE  Rows(out, used, k) = Rows(pgs, used, k)
<1> DEFINE S == used \X (1..LeafCap)
<1>1. \A x \in S : x[1] \in used
  OBVIOUS
<1>2. \A x \in S : /\ Len(out[x[1] - 1].cells) = Len(pgs[x[1] - 1].cells)
                   /\ out[x[1] - 1].cells[x[2]] = pgs[x[1] - 1].cells[x[2]]
  BY <1>1
<1> QED
  BY <1>2 DEF Rows

(* What a place in Rows is.                                                *)
Places(R, pgs, used, k) ==
    /\ \A x \in R : /\ x[1] \in used /\ x[2] \in 1..Len(pgs[x[1] - 1].cells) /\ x = <<x[1], x[2]>>
                    /\ pgs[x[1] - 1].cells[x[2]].key = k /\ ~pgs[x[1] - 1].cells[x[2]].deleted
    /\ \A p \in used : \A i \in 1..Len(pgs[p - 1].cells) :
          pgs[p - 1].cells[i].key = k /\ ~pgs[p - 1].cells[i].deleted => <<p, i>> \in R

LEMMA RowsAre ==
    ASSUME NEW pgs, NEW used, CellsFit(pgs, used), NEW k
    PROVE  Places(Rows(pgs, used, k), pgs, used, k)
<1>1. LeafCap \in Nat
  BY TreeAssumption
<1>2. ASSUME NEW x \in Rows(pgs, used, k)
      PROVE  /\ x[1] \in used /\ x[2] \in 1..Len(pgs[x[1] - 1].cells) /\ x = <<x[1], x[2]>>
             /\ pgs[x[1] - 1].cells[x[2]].key = k /\ ~pgs[x[1] - 1].cells[x[2]].deleted
  <2>1. x \in used \X (1..LeafCap) /\ x[2] <= Len(pgs[x[1] - 1].cells)
        /\ pgs[x[1] - 1].cells[x[2]].key = k /\ ~pgs[x[1] - 1].cells[x[2]].deleted
    BY DEF Rows
  <2>2. x[1] \in used /\ x[2] \in 1..LeafCap /\ x = <<x[1], x[2]>>
    BY <2>1
  <2>3. Len(pgs[x[1] - 1].cells) \in 0..LeafCap
    BY <2>2 DEF CellsFit
  <2>4. x[2] \in 1..Len(pgs[x[1] - 1].cells)
    BY <1>1, <2>1, <2>2, <2>3
  <2> QED
    BY <2>1, <2>2, <2>4
<1>3. ASSUME NEW p \in used, NEW i \in 1..Len(pgs[p - 1].cells),
             pgs[p - 1].cells[i].key = k, ~pgs[p - 1].cells[i].deleted
      PROVE  <<p, i>> \in Rows(pgs, used, k)
  <2>1. Len(pgs[p - 1].cells) \in 0..LeafCap
    BY DEF CellsFit
  <2>2. i \in 1..LeafCap /\ i <= Len(pgs[p - 1].cells)
    BY <1>1, <2>1
  <2> QED
    BY <1>3, <2>2 DEF Rows
<1> QED
  BY <1>2, <1>3 DEF Places

(* The records of page p only are others.                                  *)
OthersKept(out, pgs, used, p) ==
    \A q \in used : q # p => out[q - 1].cells = pgs[q - 1].cells

Counted(out, pgs, used, e, k) ==
    /\ e.key = k => Cardinality(Rows(out, used, k)) = Cardinality(Rows(pgs, used, k)) + 1
    /\ e.key # k => Cardinality(Rows(out, used, k)) = Cardinality(Rows(pgs, used, k))

(* An insertion moves the places behind the new record up by one.          *)
LEMMA RowsInsert ==
    ASSUME NEW pgs, NEW out, NEW used, CellsFit(pgs, used), CellsFit(out, used),
           NEW p \in used, OthersKept(out, pgs, used, p),
           NEW s, NEW e, ~e.deleted, Inserted(out[p - 1].cells, pgs[p - 1].cells, s, e),
           NEW k, IsFiniteSet(Rows(pgs, used, k)), IsFiniteSet(Rows(out, used, k))
    PROVE  Counted(out, pgs, used, e, k)
<1> \A q \in used : q # p => out[q - 1].cells = pgs[q - 1].cells
  BY DEF OthersKept
<1> PICK S : S = Rows(pgs, used, k)
  OBVIOUS
<1> PICK T : T = Rows(out, used, k)
  OBVIOUS
<1> PICK cells : cells = pgs[p - 1].cells
  OBVIOUS
<1> PICK more : more = out[p - 1].cells
  OBVIOUS
<1> PICK N \in Nat : N = Len(cells)
  BY DEF CellsFit
<1>1. /\ s \in 1..(N + 1) /\ Len(more) = N + 1
      /\ \A j \in 1..(N + 1) : more[j] = IF j < s THEN cells[j] ELSE IF j = s THEN e ELSE cells[j - 1]
  BY DEF Inserted
<1>2. /\ \A x \in S : /\ x[1] \in used /\ x[2] \in 1..Len(pgs[x[1] - 1].cells) /\ x = <<x[1], x[2]>>
                      /\ pgs[x[1] - 1].cells[x[2]].key = k /\ ~pgs[x[1] - 1].cells[x[2]].deleted
      /\ \A q \in used : \A i \in 1..Len(pgs[q - 1].cells) :
            pgs[q - 1].cells[i].key = k /\ ~pgs[q - 1].cells[i].deleted => <<q, i>> \in S
  BY RowsAre DEF Places
<1>3. /\ \A x \in T : /\ x[1] \in used /\ x[2] \in 1..Len(out[x[1] - 1].cells) /\ x = <<x[1], x[2]>>
                      /\ out[x[1] - 1].cells[x[2]].key = k /\ ~out[x[1] - 1].cells[x[2]].deleted
      /\ \A q \in used : \A i \in 1..Len(out[q - 1].cells) :
            out[q - 1].cells[i].key = k /\ ~out[q - 1].cells[i].deleted => <<q, i>> \in T
  BY RowsAre DEF Places
<1> DEFINE place(x) == IF x[1] = p /\ ~(x[2] < s) THEN <<p, x[2] + 1>> ELSE x
           f == [x \in S |-> place(x)]
           U == T \ {<<p, s>>}
<1>4. ASSUME NEW x \in S PROVE place(x) \in U
  <2>1. CASE x[1] = p
    <3>1. x[2] \in 1..N /\ cells[x[2]].key = k /\ ~cells[x[2]].deleted
      BY <1>2, <2>1
    <3>2. CASE x[2] < s
      <4>1. more[x[2]] = cells[x[2]] /\ x[2] \in 1..(N + 1)
        BY <1>1, <3>1, <3>2
      <4>2. <<p, x[2]>> \in T /\ x = <<p, x[2]>>
        BY <1>1, <1>2, <1>3, <2>1, <3>1, <4>1
      <4> QED
        BY <3>1, <3>2, <4>2
    <3>3. CASE ~(x[2] < s)
      <4>1. x[2] + 1 \in 1..(N + 1) /\ ~(x[2] + 1 < s) /\ x[2] + 1 # s /\ (x[2] + 1) - 1 = x[2]
        BY <1>1, <3>1, <3>3
      <4>2. more[x[2] + 1] = cells[x[2]]
        BY <1>1, <4>1
      <4>3. <<p, x[2] + 1>> \in T
        BY <1>1, <1>3, <3>1, <4>1, <4>2
      <4> QED
        BY <2>1, <3>3, <4>1, <4>3
    <3> QED
      BY <3>2, <3>3
  <2>2. CASE x[1] # p
    <3>1. x \in T
      BY <1>2, <1>3, <2>2
    <3> QED
      BY <2>2, <3>1
  <2> QED
    BY <2>1, <2>2
<1>5. \A x, y \in S : place(x) = place(y) => x = y
  <2> SUFFICES ASSUME NEW x \in S, NEW y \in S, place(x) = place(y) PROVE x = y
    OBVIOUS
  <2>1. x = <<x[1], x[2]>> /\ y = <<y[1], y[2]>>
    BY <1>2
  <2>2. place(x)[1] = x[1] /\ place(y)[1] = y[1]
    OBVIOUS
  <2>3. CASE x[1] # p
    BY <2>2, <2>3
  <2>4. CASE x[1] = p
    <3>1. y[1] = p /\ x[2] \in 1..N /\ y[2] \in 1..N
      BY <1>2, <2>2, <2>4
    <3>2. /\ place(x)[2] = IF ~(x[2] < s) THEN x[2] + 1 ELSE x[2]
          /\ place(y)[2] = IF ~(y[2] < s) THEN y[2] + 1 ELSE y[2]
      BY <2>4, <3>1
    <3>3. x[2] = y[2]
      BY <1>1, <3>1, <3>2
    <3> QED
      BY <2>1, <2>4, <3>1, <3>3
  <2> QED
    BY <2>3, <2>4
<1>6. ASSUME NEW y \in U PROVE \E x \in S : place(x) = y
  <2>1. y \in T /\ y # <<p, s>> /\ y = <<y[1], y[2]>>
    BY <1>3
  <2>2. CASE y[1] # p
    <3>1. y \in S
      BY <1>2, <1>3, <2>1, <2>2
    <3> QED
      BY <2>2, <3>1
  <2>3. CASE y[1] = p /\ y[2] < s
    <3>1. y[2] \in 1..(N + 1) /\ more[y[2]].key = k /\ ~more[y[2]].deleted /\ y[2] \in 1..N
      BY <1>1, <1>3, <2>1, <2>3
    <3>2. cells[y[2]].key = k /\ ~cells[y[2]].deleted
      BY <1>1, <2>3, <3>1
    <3>3. y \in S
      BY <1>2, <2>1, <2>3, <3>1, <3>2
    <3> QED
      BY <2>3, <3>3
  <2>4. CASE y[1] = p /\ ~(y[2] < s)
    <3>1. y[2] \in 1..(N + 1) /\ more[y[2]].key = k /\ ~more[y[2]].deleted /\ y[2] # s
      BY <1>1, <1>3, <2>1, <2>4
    <3>2. PICK j \in 1..N : y[2] = j + 1 /\ j + 1 \in 1..(N + 1) /\ ~(j < s) /\ (j + 1) - 1 = j
      <4>0. y[2] \in 1..(N + 1) /\ y[2] # s /\ ~(y[2] < s) /\ s \in 1..(N + 1) /\ N \in Nat
        BY <1>1, <2>4, <3>1
      <4>1. y[2] - 1 \in 1..N /\ y[2] = (y[2] - 1) + 1 /\ ~(y[2] - 1 < s)
        BY ONLY <4>0
      <4> QED
        BY <3>1, <4>1
    <3>3. more[j + 1] = cells[j]
      <4>1. ~(j + 1 < s) /\ j + 1 # s
        BY <1>1, <3>2
      <4> QED
        BY <1>1, <3>2, <4>1
    <3>4. cells[j].key = k /\ ~cells[j].deleted
      BY <3>1, <3>2, <3>3
    <3>5. <<p, j>> \in S
      BY <1>2, <3>4
    <3>6. place(<<p, j>>) = y
      BY <2>1, <2>4, <3>2
    <3> QED
      BY <3>5, <3>6
  <2> QED
    BY <2>2, <2>3, <2>4
<1>7. IsFiniteSet(U) /\ Cardinality(U) = Cardinality(S)
  <2>1. OneToOne(f, S, U)
    BY <1>4, <1>5, <1>6 DEF OneToOne
  <2> HIDE DEF f, U
  <2>2. IsFiniteSet(S)
    OBVIOUS
  <2> QED
    BY <2>1, <2>2, SameSize
<1>8. <<p, s>> \in T <=> e.key = k
  <2>1. s \in 1..Len(more) /\ more[s] = e
    BY <1>1
  <2>2. <<p, s>> \in T => more[s].key = k
    BY <1>3
  <2>3. more[s].key = k => <<p, s>> \in T
    BY <1>3, <2>1
  <2> QED
    BY <2>1, <2>2, <2>3
<1>9. CASE e.key = k
  <2>1. T = U \union {<<p, s>>} /\ <<p, s>> \notin U
    BY <1>8, <1>9
  <2>2. Cardinality(T) = Cardinality(U) + 1
    <3> HIDE DEF U
    <3> QED
      BY <1>7, <2>1, FS_AddElement
  <2> QED
    BY <1>7, <1>9, <2>2 DEF Counted
<1>10. CASE e.key # k
  <2>1. T = U
    BY <1>8, <1>10
  <2> QED
    BY <1>7, <1>10, <2>1 DEF Counted
<1> QED
  BY <1>9, <1>10

HalvedInto(out, pgs, p, new) ==
    out[p - 1].cells = Kept(pgs[p - 1].cells) /\ out[new - 1].cells = Copied(pgs[p - 1].cells)

(* Where page p has records of the upper half with key k and a mark.       *)
RevivedPlaces(pgs, p, k) ==
    {x \in {p} \X (1..LeafCap) :
        /\ x[2] <= Len(pgs[p - 1].cells) /\ x[2] > Len(pgs[p - 1].cells) \div 2
        /\ pgs[p - 1].cells[x[2]].key = k /\ pgs[p - 1].cells[x[2]].deleted}

(* A split moves the places of the upper half to the new page; those of    *)
(* marked records are rows there.                                          *)
LEMMA RowsSplit ==
    ASSUME NEW pgs, NEW out, NEW used, NEW new, new \notin used, NEW both, both = used \union {new},
           CellsFit(pgs, used), CellsFit(out, both),
           NEW p \in used, OthersKept(out, pgs, used, p),
           HalvedInto(out, pgs, p, new),
           NEW k, IsFiniteSet(Rows(pgs, used, k))
    PROVE  Cardinality(Rows(out, both, k)) =
              Cardinality(Rows(pgs, used, k)) + Cardinality(RevivedPlaces(pgs, p, k))
<1> out[p - 1].cells = Kept(pgs[p - 1].cells) /\ out[new - 1].cells = Copied(pgs[p - 1].cells)
  BY DEF HalvedInto
<1> \A q \in used : q # p => out[q - 1].cells = pgs[q - 1].cells
  BY DEF OthersKept
<1> PICK R : R = Rows(pgs, used, k)
  OBVIOUS
<1> PICK V : V = RevivedPlaces(pgs, p, k)
  OBVIOUS
<1> PICK S : S = R \union V
  OBVIOUS
<1> PICK T : T = Rows(out, both, k)
  OBVIOUS
<1> PICK cells \in Seq(LeafCell) : cells = pgs[p - 1].cells
  BY DEF CellsFit
<1> PICK N \in Nat : N = Len(cells)
  BY LenProperties
<1>0. PICK h \in Nat : h = Len(cells) \div 2 /\ h <= N
  BY KeptIs
<1>10. h <= N
  BY <1>0
<1> PICK low : low = out[p - 1].cells
  OBVIOUS
<1> PICK high : high = out[new - 1].cells
  OBVIOUS
<1>1. Len(low) = h /\ \A i \in 1..h : low[i] = cells[i]
  <2>1. low = Kept(cells)
    OBVIOUS
  <2>2. Len(Kept(cells)) = h /\ \A i \in 1..h : Kept(cells)[i] = cells[i]
    BY <1>0, KeptIs
  <2> QED
    BY <2>1, <2>2
<1>2. Len(high) = N - h /\ \A i \in 1..(N - h) : high[i].key = cells[h + i].key /\ ~high[i].deleted
  <2>1. high = Copied(cells)
    OBVIOUS
  <2>2. Len(Copied(cells)) = N - h
    BY <1>0, CopiedIs
  <2>3. ASSUME NEW i \in 1..(N - h) PROVE Copied(cells)[i].key = cells[h + i].key /\ ~Copied(cells)[i].deleted
    <3>1. Copied(cells)[i] = [key |-> cells[h + i].key, deleted |-> FALSE]
      BY <1>0, CopiedIs
    <3> QED
      BY <3>1
  <2> QED
    BY <2>1, <2>2, <2>3
<1>3. /\ \A x \in R : /\ x[1] \in used /\ x[2] \in 1..Len(pgs[x[1] - 1].cells) /\ x = <<x[1], x[2]>>
                      /\ pgs[x[1] - 1].cells[x[2]].key = k /\ ~pgs[x[1] - 1].cells[x[2]].deleted
      /\ \A q \in used : \A i \in 1..Len(pgs[q - 1].cells) :
            pgs[q - 1].cells[i].key = k /\ ~pgs[q - 1].cells[i].deleted => <<q, i>> \in R
  BY RowsAre DEF Places
<1>11. /\ \A x \in V : /\ x[1] = p /\ x[2] \in 1..N /\ x[2] > h /\ x = <<x[1], x[2]>>
                       /\ cells[x[2]].key = k /\ cells[x[2]].deleted
       /\ \A i \in 1..N : i > h /\ cells[i].key = k /\ cells[i].deleted => <<p, i>> \in V
  <2>1. N \in 0..LeafCap /\ LeafCap \in Nat
    BY TreeAssumption DEF CellsFit
  <2>2. V = {x \in {p} \X (1..LeafCap) : /\ x[2] <= N /\ x[2] > h
                                        /\ cells[x[2]].key = k /\ cells[x[2]].deleted}
    BY <1>0 DEF RevivedPlaces
  <2>3. ASSUME NEW x \in V PROVE /\ x[1] = p /\ x[2] \in 1..N /\ x[2] > h /\ x = <<x[1], x[2]>>
                                /\ cells[x[2]].key = k /\ cells[x[2]].deleted
    <3>1. x \in {p} \X (1..LeafCap) /\ x[2] <= N /\ x[2] > h
          /\ cells[x[2]].key = k /\ cells[x[2]].deleted
      BY <2>2
    <3>2. x[1] = p /\ x[2] \in 1..LeafCap /\ x = <<x[1], x[2]>>
      BY <3>1
    <3> QED
      BY <2>1, <3>1, <3>2
  <2>4. ASSUME NEW i \in 1..N, i > h, cells[i].key = k, cells[i].deleted PROVE <<p, i>> \in V
    <3>1. i \in 1..LeafCap /\ i <= N
      BY <2>1
    <3> QED
      BY <2>2, <2>4, <3>1
  <2> QED
    BY <2>3, <2>4
<1>4. /\ \A x \in T : /\ x[1] \in both /\ x[2] \in 1..Len(out[x[1] - 1].cells)
                      /\ x = <<x[1], x[2]>>
                      /\ out[x[1] - 1].cells[x[2]].key = k /\ ~out[x[1] - 1].cells[x[2]].deleted
      /\ \A q \in both : \A i \in 1..Len(out[q - 1].cells) :
            out[q - 1].cells[i].key = k /\ ~out[q - 1].cells[i].deleted => <<q, i>> \in T
  <2>1. Places(T, out, both, k)
    BY RowsAre
  <2> QED
    BY <2>1 DEF Places
<1> DEFINE moves(x) == x[1] = p /\ ~(x[2] <= h)
           place(x) == IF moves(x) THEN <<new, x[2] - h>> ELSE x
           f == [x \in S |-> place(x)]
<1>5. ASSUME NEW x \in S PROVE place(x) \in T
  <2>1. CASE moves(x)
    <3>1. x[2] \in 1..N /\ cells[x[2]].key = k
      BY <1>3, <1>11, <2>1
    <3>2. x[2] - h \in 1..(N - h) /\ h + (x[2] - h) = x[2]
      <4>1. PICK i \in 1..N : i = x[2] /\ ~(i <= h)
        BY <2>1, <3>1
      <4>2. i - h \in 1..(N - h) /\ h + (i - h) = i
        BY <1>10, <4>1
      <4> QED
        BY <4>1, <4>2
    <3>3. high[x[2] - h].key = k /\ ~high[x[2] - h].deleted
      BY <1>2, <3>1, <3>2
    <3> QED
      BY <1>2, <1>4, <2>1, <3>2, <3>3
  <2>2. CASE x[1] = p /\ x[2] <= h
    <3>0. x \in R
      <4>1. x \in V => x[2] \in 1..N /\ x[2] > h
        BY <1>11
      <4>2. x \notin V
        BY <1>10, <2>2, <4>1
      <4> QED
        BY <4>2
    <3>1. x[2] \in 1..N /\ cells[x[2]].key = k /\ ~cells[x[2]].deleted /\ x = <<p, x[2]>>
      BY <1>3, <2>2, <3>0
    <3>2. x[2] \in 1..h
      BY <1>10, <2>2, <3>1
    <3>3. low[x[2]].key = k /\ ~low[x[2]].deleted
      BY <1>1, <3>1, <3>2
    <3>4. <<p, x[2]>> \in T
      BY <1>1, <1>4, <3>2, <3>3
    <3> QED
      BY <2>2, <3>1, <3>4
  <2>3. CASE x[1] # p
    <3>3. x \in R
      BY <1>11, <2>3
    <3> PICK q \in used : q = x[1] /\ q # p
      BY <1>3, <2>3, <3>3
    <3>0. q \in both /\ out[q - 1].cells = pgs[q - 1].cells
      OBVIOUS
    <3>2. x = <<q, x[2]>> /\ x[2] \in 1..Len(out[q - 1].cells) /\ out[q - 1].cells[x[2]].key = k
          /\ ~out[q - 1].cells[x[2]].deleted
      BY <1>3, <3>0, <3>3
    <3>1. <<q, x[2]>> \in T
      <4>1. \A i \in 1..Len(out[q - 1].cells) :
               out[q - 1].cells[i].key = k /\ ~out[q - 1].cells[i].deleted => <<q, i>> \in T
        BY <1>4, <3>0
      <4> QED
        BY <3>2, <4>1
    <3> QED
      BY <2>3, <3>1, <3>2
  <2> QED
    BY <2>1, <2>2, <2>3
<1>6. ASSUME NEW x \in S, NEW y \in S, place(x) = place(y) PROVE x = y
  <2>1. x = <<x[1], x[2]>> /\ y = <<y[1], y[2]>> /\ x[1] # new /\ y[1] # new
    BY <1>3, <1>11
  <2> moves(x) => place(x)[1] = new /\ place(x)[2] = x[2] - h
    OBVIOUS
  <2> moves(y) => place(y)[1] = new /\ place(y)[2] = y[2] - h
    OBVIOUS
  <2>2. CASE moves(x)
    <3>1. moves(y)
      BY <1>6, <2>1, <2>2
    <3>2. x[1] = p /\ y[1] = p /\ x[2] \in 1..N /\ y[2] \in 1..N /\ x[2] - h = y[2] - h
      BY <1>3, <1>6, <1>11, <2>2, <3>1
    <3>3. x[2] = y[2]
      BY <1>10, <3>2
    <3> QED
      BY <2>1, <3>2, <3>3
  <2>3. CASE ~moves(x)
    <3>1. ~moves(y)
      BY <1>6, <2>1, <2>3
    <3> QED
      BY <1>6, <2>3, <3>1
  <2> QED
    BY <2>2, <2>3
<1>7. ASSUME NEW y \in T PROVE \E x \in S : place(x) = y
  <2>1. y = <<y[1], y[2]>>
    BY <1>4
  <2>2. CASE y[1] = new
    <3>1. PICK j \in 1..(N - h) : y[2] = j /\ high[j].key = k
      BY <1>2, <1>4, <2>2
    <3>2. h + j \in 1..N /\ ~(h + j <= h) /\ (h + j) - h = j
      BY <1>10
    <3>3. cells[h + j].key = k
      BY <1>2, <3>1
    <3>4. <<p, h + j>> \in S
      <4>1. h + j > h
        OBVIOUS
      <4>2. cells[h + j].deleted => <<p, h + j>> \in V
        BY <1>11, <3>2, <3>3, <4>1
      <4>3. ~cells[h + j].deleted => <<p, h + j>> \in R
        BY <1>3, <3>2, <3>3
      <4> QED
        BY <4>2, <4>3
    <3>5. place(<<p, h + j>>) = y
      BY <2>1, <2>2, <3>1, <3>2
    <3> QED
      BY <3>4, <3>5
  <2>3. CASE y[1] = p
    <3>1. y[2] \in 1..h /\ low[y[2]].key = k /\ ~low[y[2]].deleted
      BY <1>1, <1>4, <2>3
    <3>2. y[2] \in 1..N /\ y[2] <= h
      BY <1>10, <3>1
    <3>3. cells[y[2]].key = k /\ ~cells[y[2]].deleted
      BY <1>1, <3>1
    <3>4. y \in S
      BY <1>3, <2>1, <2>3, <3>2, <3>3
    <3> QED
      BY <3>2, <3>4
  <2>4. CASE y[1] # p /\ y[1] # new
    <3> PICK q \in used : q = y[1] /\ q # p
      BY <1>4, <2>4
    <3>0. out[q - 1].cells = pgs[q - 1].cells
      OBVIOUS
    <3>2. y = <<q, y[2]>> /\ y[2] \in 1..Len(pgs[q - 1].cells) /\ pgs[q - 1].cells[y[2]].key = k
          /\ ~pgs[q - 1].cells[y[2]].deleted
      BY <1>4, <2>1, <3>0
    <3>1. y \in S
      BY <1>3, <3>2
    <3> QED
      BY <2>4, <3>1
  <2> QED
    BY <2>2, <2>3, <2>4
<1>8. OneToOne(f, S, T)
  <2> HIDE DEF place
  <2>1. \A x \in S : f[x] = place(x)
    OBVIOUS
  <2>2. f \in [S -> T]
    BY <1>5
  <2> HIDE DEF f
  <2>3. ASSUME NEW x \in S, NEW y \in S, f[x] = f[y] PROVE x = y
    <3>1. place(x) = place(y)
      BY <2>1, <2>3
    <3> QED
      BY <1>6, <3>1
  <2>4. ASSUME NEW y \in T PROVE \E x \in S : f[x] = y
    <3>1. PICK x \in S : place(x) = y
      BY <1>7
    <3>2. f[x] = y
      BY <2>1, <3>1
    <3> QED
      BY <3>2
  <2> QED
    BY <2>2, <2>3, <2>4 DEF OneToOne
<1>12. IsFiniteSet(V)
  <2>1. IsFiniteSet({p} \X (1..LeafCap))
    <3>1. IsFiniteSet({p}) /\ IsFiniteSet(1..LeafCap)
      <4>1. 1 \in Int /\ LeafCap \in Int
        BY TreeAssumption
      <4> QED
        BY <4>1, FS_Interval, FS_Singleton
    <3> QED
      BY <3>1, FS_Product
  <2>2. V \subseteq {p} \X (1..LeafCap)
    BY DEF RevivedPlaces
  <2> QED
    BY <2>1, <2>2, FS_Subset
<1>13. R \intersect V = {}
  <2> SUFFICES ASSUME NEW x \in R, x \in V PROVE FALSE
    OBVIOUS
  <2>1. x[1] = p /\ cells[x[2]].deleted
    BY <1>11
  <2> QED
    BY <1>3, <2>1
<1>9. IsFiniteSet(S) /\ Cardinality(S) = Cardinality(R) + Cardinality(V)
  <2>1. IsFiniteSet(R)
    OBVIOUS
  <2>2. Cardinality(S) = Cardinality(R) + Cardinality(V) - Cardinality(R \intersect V)
        /\ IsFiniteSet(S)
    BY <1>12, <2>1, FS_Union
  <2>3. Cardinality(R \intersect V) = 0
    BY <1>13, FS_EmptySet
  <2>4. Cardinality(R) \in Nat /\ Cardinality(V) \in Nat
    BY <1>12, <2>1, FS_CardinalityType
  <2> QED
    BY <2>2, <2>3, <2>4
<1> HIDE DEF f
<1> QED
  BY <1>8, <1>9, SameSize

PurgedFrom(live, cells, key) ==
    \E marked, slot, at : Marking(marked, cells, slot, key) /\ Unmarked(live, marked, Len(marked), at)

(* A purge takes out marked records, and one that was marked before it and *)
(* has another key.                                                        *)
LEMMA RowsPurge ==
    ASSUME NEW pgs, NEW out, NEW used, CellsFit(pgs, used), CellsFit(out, used),
           NEW p \in used, OthersKept(out, pgs, used, p),
           NEW key, PurgedFrom(out[p - 1].cells, pgs[p - 1].cells, key),
           NEW k, k # key, IsFiniteSet(Rows(out, used, k))
    PROVE  Cardinality(Rows(out, used, k)) = Cardinality(Rows(pgs, used, k))
<1>0. PICK marked, slot, at : Marking(marked, pgs[p - 1].cells, slot, key)
                              /\ Unmarked(out[p - 1].cells, marked, Len(marked), at)
  BY DEF PurgedFrom
<1> \A q \in used : q # p => out[q - 1].cells = pgs[q - 1].cells
  BY DEF OthersKept
<1> PICK S : S = Rows(pgs, used, k)
  OBVIOUS
<1> PICK T : T = Rows(out, used, k)
  OBVIOUS
<1> PICK cells : cells = pgs[p - 1].cells
  OBVIOUS
<1> PICK live : live = out[p - 1].cells
  OBVIOUS
<1> PICK N \in Nat : N = Len(cells)
  BY DEF CellsFit
<1> PICK L \in Nat : L = Len(live)
  BY DEF CellsFit
<1>1. /\ Len(marked) = N /\ slot \in 1..N /\ cells[slot].key = key
      /\ \A i \in 1..N : i # slot => marked[i] = cells[i]
  BY <1>0 DEF Marking
<1>2. /\ at \in [1..L -> 1..N]
      /\ \A i, j \in 1..L : i < j => at[i] < at[j]
      /\ \A i \in 1..L : live[i] = marked[at[i]] /\ ~marked[at[i]].deleted
      /\ \A m \in 1..N : ~marked[m].deleted => \E i \in 1..L : at[i] = m
  BY <1>0, <1>1 DEF Unmarked
<1>3. /\ \A x \in S : /\ x[1] \in used /\ x[2] \in 1..Len(pgs[x[1] - 1].cells) /\ x = <<x[1], x[2]>>
                      /\ pgs[x[1] - 1].cells[x[2]].key = k /\ ~pgs[x[1] - 1].cells[x[2]].deleted
      /\ \A q \in used : \A i \in 1..Len(pgs[q - 1].cells) :
            pgs[q - 1].cells[i].key = k /\ ~pgs[q - 1].cells[i].deleted => <<q, i>> \in S
  BY RowsAre DEF Places
<1>4. /\ \A x \in T : /\ x[1] \in used /\ x[2] \in 1..Len(out[x[1] - 1].cells) /\ x = <<x[1], x[2]>>
                      /\ out[x[1] - 1].cells[x[2]].key = k /\ ~out[x[1] - 1].cells[x[2]].deleted
      /\ \A q \in used : \A i \in 1..Len(out[q - 1].cells) :
            out[q - 1].cells[i].key = k /\ ~out[q - 1].cells[i].deleted => <<q, i>> \in T
  BY RowsAre DEF Places
<1>5. \A i \in 1..L : at[i] \in 1..N /\ live[i] = cells[at[i]]
  <2> TAKE i \in 1..L
  <2>1. at[i] \in 1..N /\ live[i] = marked[at[i]] /\ ~marked[at[i]].deleted
    BY <1>2
  <2>2. marked[slot].deleted
    BY <1>0 DEF Marking
  <2>3. at[i] # slot
    BY <2>1, <2>2
  <2> QED
    BY <1>1, <2>1, <2>3
<1>6. \A m \in 1..N : cells[m].key = k /\ ~cells[m].deleted => \E i \in 1..L : at[i] = m
  <2> TAKE m \in 1..N
  <2> HAVE cells[m].key = k /\ ~cells[m].deleted
  <2>1. m # slot /\ marked[m] = cells[m] /\ ~cells[m].deleted
    BY <1>1
  <2> QED
    BY <1>2, <2>1
<1>7. \A i, j \in 1..L : at[i] = at[j] => i = j
  <2> SUFFICES ASSUME NEW i \in 1..L, NEW j \in 1..L, i # j PROVE at[i] # at[j]
    OBVIOUS
  <2>1. at[i] \in 1..N /\ at[j] \in 1..N /\ (i < j \/ j < i)
    BY <1>5
  <2>2. at[i] < at[j] \/ at[j] < at[i]
    BY <1>2, <2>1
  <2> QED
    BY <2>1, <2>2
<1> DEFINE place(x) == IF x[1] = p THEN <<p, at[x[2]]>> ELSE x
           f == [x \in T |-> place(x)]
<1>8. ASSUME NEW x \in T PROVE place(x) \in S
  <2>1. CASE x[1] = p
    <3>1. x[2] \in 1..L /\ live[x[2]].key = k /\ ~live[x[2]].deleted
      BY <1>4, <2>1
    <3>2. at[x[2]] \in 1..N /\ cells[at[x[2]]].key = k /\ ~cells[at[x[2]]].deleted
      BY <1>5, <3>1
    <3>3. <<p, at[x[2]]>> \in S
      BY <1>3, <3>2
    <3> QED
      BY <2>1, <3>3
  <2>2. CASE x[1] # p
    BY <1>3, <1>4, <2>2
  <2> QED
    BY <2>1, <2>2
<1>9. ASSUME NEW x \in T, NEW y \in T, place(x) = place(y) PROVE x = y
  <2>1. x = <<x[1], x[2]>> /\ y = <<y[1], y[2]>>
    BY <1>4
  <2>2. CASE x[1] = p
    <3>1. y[1] = p /\ at[x[2]] = at[y[2]]
      BY <1>9, <2>2
    <3>2. x[2] \in 1..L /\ y[2] \in 1..L
      BY <1>4, <2>2, <3>1
    <3> QED
      BY <1>7, <2>1, <2>2, <3>1, <3>2
  <2>3. CASE x[1] # p
    BY <1>9, <2>3
  <2> QED
    BY <2>2, <2>3
<1>10. ASSUME NEW y \in S PROVE \E x \in T : place(x) = y
  <2>1. CASE y[1] = p
    <3>1. y[2] \in 1..N /\ cells[y[2]].key = k /\ ~cells[y[2]].deleted /\ y = <<p, y[2]>>
      BY <1>3, <2>1
    <3>2. PICK i \in 1..L : at[i] = y[2]
      BY <1>6, <3>1
    <3>3. live[i].key = k /\ ~live[i].deleted
      BY <1>5, <3>1, <3>2
    <3>4. <<p, i>> \in T
      BY <1>4, <3>3
    <3>5. place(<<p, i>>) = y
      BY <3>1, <3>2
    <3> QED
      BY <3>4, <3>5
  <2>2. CASE y[1] # p
    <3>1. y \in T
      BY <1>3, <1>4, <2>2
    <3> QED
      BY <2>2, <3>1
  <2> QED
    BY <2>1, <2>2
<1>11. OneToOne(f, T, S)
  BY <1>8, <1>9, <1>10 DEF OneToOne
<1>12. IsFiniteSet(T)
  OBVIOUS
<1> HIDE DEF f
<1> QED
  BY <1>11, <1>12, SameSize

NoRowOf(k, cells) == \A i \in 1..Len(cells) : cells[i].key = k => cells[i].deleted

(* A page without a row of the key adds none.                              *)
LEMMA RowsDrop ==
    ASSUME NEW pgs, NEW both, NEW p \in both, CellsFit(pgs, both), NEW k,
           NoRowOf(k, pgs[p - 1].cells)
    PROVE  Rows(pgs, both, k) = Rows(pgs, both \ {p}, k)
<1> PICK S : S = Rows(pgs, both, k)
  OBVIOUS
<1> PICK T : T = Rows(pgs, both \ {p}, k)
  OBVIOUS
<1>1. CellsFit(pgs, both \ {p})
  BY DEF CellsFit
<1>2. Places(S, pgs, both, k) /\ Places(T, pgs, both \ {p}, k)
  BY <1>1, RowsAre
<1>3. ASSUME NEW x \in S PROVE x \in T
  <2>1. x[1] \in both /\ x[2] \in 1..Len(pgs[x[1] - 1].cells) /\ pgs[x[1] - 1].cells[x[2]].key = k
        /\ ~pgs[x[1] - 1].cells[x[2]].deleted /\ x = <<x[1], x[2]>>
    BY <1>2 DEF Places
  <2>2. x[1] \in both \ {p}
    BY <2>1 DEF NoRowOf
  <2> QED
    BY <1>2, <2>1, <2>2 DEF Places
<1>4. ASSUME NEW x \in T PROVE x \in S
  <2>1. x[1] \in both \ {p} /\ x[2] \in 1..Len(pgs[x[1] - 1].cells) /\ pgs[x[1] - 1].cells[x[2]].key = k
        /\ ~pgs[x[1] - 1].cells[x[2]].deleted /\ x = <<x[1], x[2]>>
    BY <1>2 DEF Places
  <2> QED
    BY <1>2, <2>1 DEF Places
<1> QED
  BY <1>3, <1>4

LEMMA AppendedSet ==
    ASSUME NEW S, NEW s \in Seq(S), NEW p
    PROVE  ToSet(Append(s, p)) = ToSet(s) \union {p}
<1> PICK more : more = Append(s, p)
  OBVIOUS
<1>1. /\ Len(s) \in Nat /\ DOMAIN s = 1..Len(s) /\ DOMAIN more = 1..(Len(s) + 1)
      /\ more[Len(s) + 1] = p /\ \A i \in 1..Len(s) : more[i] = s[i]
  OBVIOUS
<1>2. DOMAIN more = DOMAIN s \union {Len(s) + 1}
  BY <1>1
<1> QED
  BY <1>1, <1>2 DEF ToSet

(* RowsStayOnPages of one step and one key.                                *)
RowsStay(k) ==
    Cardinality(Stored(k)) # Cardinality(Stored(k)') =>
        \/ op = [kind |-> "insert", key |-> k] /\ op' = Idle
           /\ Cardinality(Stored(k)') = Cardinality(Stored(k)) + 1
        \/ Removing /\ op.key = k
        \/ \E p \in PageIds :
              /\ SplitNeeded(p)
              /\ Cardinality(Stored(k)') = Cardinality(Stored(k)) + Revived(p, k)

LEMMA SamePagesSameRows ==
    ASSUME NEW k, UNCHANGED <<pages, free>>
    PROVE  RowsStay(k)
<1>1. Stored(k)' = Stored(k)
  BY DEF Stored, LeavesInUse, Leaves, PageIds, IsLeaf, Page
<1> QED
  BY <1>1 DEF RowsStay

LEMMA StoredBoth ==
    ASSUME NEW n, Shape(n), NEW m, Shape(m)', NEW k \in Keys
    PROVE  /\ CellsFit(pages, Ids(n)) /\ CellsFit(pages', Ids(m))
           /\ Stored(k) = Rows(pages, Ids(n) \ ToSet(free), k) /\ IsFiniteSet(Stored(k))
           /\ Stored(k)' = Rows(pages', Ids(m) \ ToSet(free'), k) /\ IsFiniteSet(Stored(k)')
<1>1. StoredFrom(n)
  BY StoredIs DEF StoredKnown
<1>2. StoredFrom(m)'
  BY StoredThenIs DEF StoredKnown
<1> QED
  BY <1>1, <1>2 DEF StoredFrom

LEMMA PartFits ==
    ASSUME NEW pgs, NEW used, CellsFit(pgs, used), NEW part \in SUBSET used
    PROVE  CellsFit(pgs, part)
BY DEF CellsFit

LEMMA StartInsertStays ==
    ASSUME NEW n, Shape(n), NEW key \in Keys, StartInsert(key), NEW k \in Keys
    PROVE  RowsStay(k)
<1>1. CASE UNCHANGED <<pages, root, free, orphans>>
  BY <1>1, SamePagesSameRows
<1>2. CASE /\ root = Nil /\ Alone(n) /\ free' = <<>> /\ orphans' = {}
           /\ pages'[1] = EmptyLeaf /\ Shape(1)'
  <2>1. Ids(n) \ ToSet(free) = {}
    <3>1. CASE n = 0
      BY <3>1 DEF Ids
    <3>2. CASE n = 1 /\ free = <<2>>
      <4>1. DOMAIN free = {1} /\ free[1] = 2
        BY <3>2
      <4> QED
        BY <3>2, <4>1 DEF Ids, ToSet
    <3> QED
      BY <1>2, <3>1, <3>2 DEF Alone, Nil
  <2>2. Rows(pages, {}, k) = {}
    BY DEF Rows
  <2>3. Ids(1) \ ToSet(free') = {2}
    BY <1>2 DEF Ids, ToSet
  <2>4. CellsFit(pages', {2})
    BY <1>2, <2>3, StoredBoth, PartFits
  <2>5. Rows(pages', {2}, k) = Rows(pages', {2} \ {2}, k)
    <3>1. NoRowOf(k, pages'[2 - 1].cells)
      BY <1>2 DEF EmptyLeaf, NoRowOf
    <3> QED
      BY <2>4, <3>1, RowsDrop
  <2>6. Rows(pages', {}, k) = {}
    BY DEF Rows
  <2>7. Stored(k) = {} /\ Stored(k)' = {}
    BY <1>2, <2>1, <2>2, <2>3, <2>5, <2>6, StoredBoth
  <2> QED
    BY <2>7 DEF RowsStay
<1> QED
  BY <1>1, <1>2, StartInsertDoes

LEMMA InsertIntoLeafStays ==
    ASSUME NEW n, Shape(n), Chained(n), InsertIntoLeaf, Nil \notin orphans', NEW k \in Keys
    PROVE  RowsStay(k)
<1>0. PICK p, page : /\ p = LeafFor(op.key) /\ Rewritten(n, p, page)
                     /\ Inserted(page.cells, Page(p).cells, FirstSlot(Page(p).cells, op.key),
                                 [key |-> op.key, deleted |-> FALSE])
                     /\ Using({p}) /\ Shape(n)'
  BY InsertIntoLeafDoes
<1>1. op \in Inserting /\ root # Nil /\ op' = Idle /\ free' = free
  BY Calls DEF InsertIntoLeaf
<1>2. Nil \notin orphans /\ p \notin orphans
  BY <1>0, UsingIs DEF Shape
<1> PICK used : used = Ids(n) \ ToSet(free)
  OBVIOUS
<1>3. p \in used
  BY <1>0, <1>1, <1>2, LeafNotFree DEF Rewritten
<1>4. /\ CellsFit(pages, Ids(n)) /\ CellsFit(pages', Ids(n)) /\ used \in SUBSET Ids(n)
      /\ Stored(k) = Rows(pages, used, k) /\ IsFiniteSet(Rows(pages, used, k))
      /\ Stored(k)' = Rows(pages', used, k) /\ IsFiniteSet(Rows(pages', used, k))
  BY <1>0, <1>1, StoredBoth
<1>5. CellsFit(pages, used) /\ CellsFit(pages', used)
  BY <1>4, PartFits
<1>6. OthersKept(pages', pages, used, p)
  BY <1>0, RewrittenLinks DEF Page, OthersKept
<1> PICK e : e = [key |-> op.key, deleted |-> FALSE]
  OBVIOUS
<1> PICK s : s = FirstSlot(Page(p).cells, op.key)
  OBVIOUS
<1>7. Inserted(pages'[p - 1].cells, pages[p - 1].cells, s, e)
  BY <1>0 DEF Rewritten, Page
<1>8. Counted(pages', pages, used, e, k)
  BY <1>3, <1>4, <1>5, <1>6, <1>7, RowsInsert
<1>9. op = [kind |-> "insert", key |-> op.key]
  BY <1>1 DEF Inserting
<1>10. CASE op.key = k
  <2>1. Cardinality(Stored(k)') = Cardinality(Stored(k)) + 1
    BY <1>4, <1>8, <1>10 DEF Counted
  <2>2. op = [kind |-> "insert", key |-> k]
    BY <1>9, <1>10
  <2> QED
    BY <1>1, <2>1, <2>2 DEF RowsStay
<1>11. CASE op.key # k
  <2>1. Cardinality(Stored(k)') = Cardinality(Stored(k))
    BY <1>4, <1>8, <1>11 DEF Counted
  <2> QED
    BY <2>1 DEF RowsStay
<1> QED
  BY <1>10, <1>11

LEMMA RevivedIs ==
    ASSUME NEW n, Shape(n), NEW p \in Ids(n), CellsFit(pages, Ids(n)), NEW k
    PROVE  Revived(p, k) = Cardinality(RevivedPlaces(pages, p, k))
<1> PICK cells \in Seq(LeafCell) : cells = Page(p).cells /\ Len(cells) \in 0..LeafCap
  BY DEF CellsFit, Page
<1> PICK N \in Nat : N = Len(cells) /\ N <= LeafCap /\ LeafCap \in Nat
  BY TreeAssumption
<1> PICK h : h = N \div 2
  OBVIOUS
<1> DEFINE I == {i \in 1..N : i > h /\ cells[i] = [key |-> k, deleted |-> TRUE]}
           R == RevivedPlaces(pages, p, k)
           f == [i \in I |-> <<p, i>>]
<1>1. Revived(p, k) = Cardinality(I)
  <2>1. DOMAIN cells = 1..N
    BY LenProperties
  <2> QED
    BY <2>1 DEF Revived
<1>2. IsFiniteSet(I)
  <2>1. IsFiniteSet(1..N)
    <3>1. 1 \in Int /\ N \in Int
      OBVIOUS
    <3> QED
      BY <3>1, FS_Interval
  <2> QED
    BY <2>1, FS_Subset
<1>3. ASSUME NEW i \in 1..N
      PROVE  cells[i] = [key |-> k, deleted |-> TRUE] <=> cells[i].key = k /\ cells[i].deleted
  <2> PICK c \in LeafCell : c = cells[i]
    BY LenProperties, ElementOfSeq
  <2>1. c.key = k /\ c.deleted => c = [key |-> k, deleted |-> TRUE]
    BY DEF LeafCell
  <2> QED
    BY <2>1
<1>4. R = {x \in {p} \X (1..LeafCap) : /\ x[2] <= N /\ x[2] > h
                                       /\ cells[x[2]].key = k /\ cells[x[2]].deleted}
  BY DEF RevivedPlaces, Page
<1>5. ASSUME NEW i \in I PROVE <<p, i>> \in R
  <2>1. i \in 1..N /\ i > h /\ cells[i].key = k /\ cells[i].deleted
    BY <1>3
  <2>2. i \in 1..LeafCap /\ i <= N
    BY <2>1
  <2>3. <<p, i>> \in {p} \X (1..LeafCap) /\ <<p, i>>[2] = i
    BY <2>2
  <2> QED
    BY <1>4, <2>1, <2>2, <2>3
<1>6. ASSUME NEW x \in R PROVE x[2] \in I /\ x = <<p, x[2]>>
  <2>1. x \in {p} \X (1..LeafCap) /\ x[2] <= N /\ x[2] > h /\ cells[x[2]].key = k /\ cells[x[2]].deleted
    BY <1>4
  <2>2. x[2] \in 1..LeafCap /\ x = <<p, x[2]>>
    BY <2>1
  <2>3. x[2] \in 1..N
    BY <2>1, <2>2
  <2> QED
    BY <1>3, <2>1, <2>2, <2>3
<1> HIDE DEF I, R
<1>7. OneToOne(f, I, R)
  <2>1. \A i \in I : f[i] = <<p, i>>
    OBVIOUS
  <2>2. f \in [I -> R]
    BY <1>5
  <2> HIDE DEF f
  <2>3. ASSUME NEW i \in I, NEW j \in I, f[i] = f[j] PROVE i = j
    <3>1. <<p, i>> = <<p, j>>
      BY <2>1, <2>3
    <3> QED
      BY <3>1
  <2>4. ASSUME NEW x \in R PROVE \E i \in I : f[i] = x
    BY <1>6, <2>1
  <2> QED
    BY <2>2, <2>3, <2>4 DEF OneToOne
<1> HIDE DEF f
<1>8. Cardinality(R) = Cardinality(I)
  BY <1>2, <1>7, SameSize
<1> QED
  BY <1>1, <1>8 DEF R

(* Page p, which has no room, is halved into new, which was not in the     *)
(* file.                                                                   *)
LEMMA DividingStays ==
    ASSUME NEW n, Shape(n), NEW m, Shape(m)', NEW k \in Keys,
           ToSet(free) = {}, ToSet(free') = {},
           NEW new, new \notin Ids(n), Ids(m) = Ids(n) \union {new}, NEW p \in Ids(n),
           NEW pgs, NEW l, Dividing(pgs, n, l, p, new), Ids(l) = Ids(m),
           \A q \in Ids(m) : pages'[q - 1] = pgs[q - 1],
           p \in PageIds, SplitNeeded(p)
    PROVE  RowsStay(k)
<1> PICK used : used = Ids(n)
  OBVIOUS
<1> PICK both : both = Ids(m)
  OBVIOUS
<1> PICK out : out = pages'
  OBVIOUS
<1>1. /\ CellsFit(pages, used) /\ CellsFit(out, both)
      /\ Stored(k) = Rows(pages, used, k) /\ IsFiniteSet(Rows(pages, used, k))
      /\ Stored(k)' = Rows(out, both, k)
  <2>1. Ids(n) \ ToSet(free) = used /\ Ids(m) \ ToSet(free') = both
    OBVIOUS
  <2> QED
    BY <2>1, StoredBoth
<1>2. \A q \in both : out[q - 1].cells = IF q = new THEN Copied(Page(p).cells)
                                          ELSE IF q = p THEN Kept(Page(p).cells)
                                          ELSE Page(q).cells
  BY DEF Dividing
<1>3. both = used \union {new} /\ new \notin used /\ p \in used
  OBVIOUS
<1>4. OthersKept(out, pages, used, p)
  BY <1>2, <1>3 DEF OthersKept, Page
<1>5. HalvedInto(out, pages, p, new)
  BY <1>2, <1>3 DEF HalvedInto, Page
<1>6. Cardinality(Rows(out, both, k)) =
         Cardinality(Rows(pages, used, k)) + Cardinality(RevivedPlaces(pages, p, k))
  BY <1>1, <1>3, <1>4, <1>5, RowsSplit
<1>7. Revived(p, k) = Cardinality(RevivedPlaces(pages, p, k))
  BY <1>1, RevivedIs
<1>8. Cardinality(Stored(k)') = Cardinality(Stored(k)) + Revived(p, k)
  BY <1>1, <1>6, <1>7
<1> QED
  BY <1>8 DEF RowsStay

LEMMA SplitRootStays ==
    ASSUME NEW n, Shape(n), SplitRoot, NEW k \in Keys
    PROVE  RowsStay(k)
<1>1. /\ n = 1 /\ free = <<>> /\ free' = <<>> /\ Shape(3)'
      /\ \E pgs : Dividing(pgs, 1, 2, 2, 3) /\ \A q \in {2, 3} : pages'[q - 1] = pgs[q - 1]
  BY SplitRootDoes
<1>2. PICK pgs : Dividing(pgs, 1, 2, 2, 3) /\ \A q \in {2, 3} : pages'[q - 1] = pgs[q - 1]
  BY <1>1
<1>3. Ids(1) = {2} /\ Ids(2) = {2, 3} /\ Ids(3) = {2, 3}
  BY DEF Ids
<1>4. ToSet(free) = {} /\ ToSet(free') = {}
  BY <1>1 DEF ToSet
<1>5. 3 \notin Ids(1) /\ Ids(3) = Ids(1) \union {3} /\ 2 \in Ids(1) /\ Ids(2) = Ids(3)
  BY <1>3
<1>6. \A q \in Ids(3) : pages'[q - 1] = pgs[q - 1]
  BY <1>2, <1>3
<1>7. Shape(1) /\ Shape(3)' /\ Dividing(pgs, 1, 2, 2, 3)
  BY <1>1, <1>2
<1>8. 2 \in PageIds /\ SplitNeeded(2)
  BY SplitRootDoes DEF SplitRoot
<1> QED
  BY <1>4, <1>5, <1>6, <1>7, <1>8, DividingStays

LEMMA SplitBelowRootStays ==
    ASSUME NEW n, Shape(n), Chained(n), SplitBelowRoot, Nil \notin orphans', NEW k \in Keys
    PROVE  RowsStay(k)
<1>1. PICK m, new, p, pgs : /\ NewLeaf(n, m, new) /\ p \in Ids(n)
                            /\ Dividing(pgs, n, m, p, new)
                            /\ \A q \in Ids(m) : pages'[q - 1] = pgs[q - 1]
                            /\ Using({p, new}) /\ free' = FreeAfter(1)
                            /\ Branched(n) /\ Shape(m)' /\ p = LeafFor(op.key)
  BY SplitBelowRootDoes
<1>2. root # Nil
  BY <1>1 DEF Branched, Nil
<1>3. orphans' = orphans /\ new \notin orphans /\ Nil \notin orphans
  <2>1. Using({p, new}) /\ orphans \subseteq Ids(n) \union {Nil}
    BY <1>1 DEF Shape
  <2>2. orphans' = orphans /\ {p, new} \intersect orphans = {}
    BY <2>1, UsingIs
  <2> QED
    BY <2>2
<1>4. new \notin Ids(n) /\ free = <<>> /\ FreeAfter(1) = <<>> /\ ToSet(<<>>) = {}
  BY <1>1, <1>2, <1>3, TakenFromFree
<1>5. ToSet(free) = {} /\ ToSet(free') = {} /\ Ids(m) = Ids(n) \union {new}
  BY <1>1, <1>4 DEF NewLeaf
<1>6. p \in PageIds /\ SplitNeeded(p)
  <2>1. PICK q \in PageIds : SplitNeeded(q)
    BY DEF SplitBelowRoot
  <2>2. q = p
    BY <1>1, <2>1 DEF SplitNeeded
  <2> QED
    BY <2>1, <2>2
<1> QED
  BY <1>1, <1>4, <1>5, <1>6, DividingStays

LEMMA ThrowInSplitStays ==
    ASSUME NEW n, Shape(n), Chained(n), ThrowInSplit, Nil \notin orphans', NEW k \in Keys
    PROVE  RowsStay(k)
<1>1. PICK m, new, p : /\ NewLeaf(n, m, new) /\ p \in Ids(n)
                       /\ Linking(pages', n, m, p, new)
                       /\ Using({p, new}) /\ Branched(n) /\ Shape(m)'
  BY ThrowInSplitDoes
<1>2. root # Nil /\ free' = FreeAfter(1)
  BY <1>1 DEF Branched, Nil, ThrowInSplit
<1>3. orphans' = orphans /\ new \notin orphans /\ Nil \notin orphans
  BY <1>1, UsingIs DEF Shape
<1>4. new \notin Ids(n) /\ free = <<>> /\ FreeAfter(1) = <<>> /\ ToSet(<<>>) = {}
  BY <1>1, <1>2, <1>3, TakenFromFree
<1>5. ToSet(free) = {} /\ ToSet(free') = {} /\ Ids(m) = Ids(n) \union {new}
  BY <1>1, <1>2, <1>4 DEF NewLeaf
<1> PICK used : used = Ids(n)
  OBVIOUS
<1> PICK both : both = Ids(m)
  OBVIOUS
<1> PICK out : out = pages'
  OBVIOUS
<1>6. /\ CellsFit(out, both)
      /\ Stored(k) = Rows(pages, used, k)
      /\ Stored(k)' = Rows(out, both, k)
  <2>1. Ids(n) \ ToSet(free) = used /\ Ids(m) \ ToSet(free') = both
    BY <1>5
  <2> QED
    BY <1>1, <2>1, StoredBoth
<1>7. \A q \in both : out[q - 1].cells = IF q = new THEN <<>> ELSE Page(q).cells
  BY <1>1 DEF Linking
<1>8. new \in both /\ both \ {new} = used /\ used \subseteq both /\ new \notin used
  BY <1>4, <1>5
<1>9. NoRowOf(k, out[new - 1].cells)
  BY <1>7, <1>8 DEF NoRowOf
<1>10. Rows(out, both, k) = Rows(out, both \ {new}, k)
  BY <1>6, <1>8, <1>9, RowsDrop
<1>11. \A q \in used : out[q - 1].cells = pages[q - 1].cells
  BY <1>7, <1>8 DEF Page
<1>12. Rows(out, used, k) = Rows(pages, used, k)
  BY <1>11, RowsSame
<1>13. Stored(k)' = Stored(k)
  BY <1>6, <1>8, <1>10, <1>12
<1> QED
  BY <1>13 DEF RowsStay

MarkedFrom(marked, cells, key) == \E slot : Marking(marked, cells, slot, key)

(* A mark on a page of a record with another key.                          *)
LEMMA RowsMark ==
    ASSUME NEW pgs, NEW out, NEW used, CellsFit(pgs, used), CellsFit(out, used),
           NEW p, OthersKept(out, pgs, used, p),
           NEW key, MarkedFrom(out[p - 1].cells, pgs[p - 1].cells, key),
           NEW k, k # key
    PROVE  Rows(out, used, k) = Rows(pgs, used, k)
<1> PICK slot : Marking(out[p - 1].cells, pgs[p - 1].cells, slot, key)
  BY DEF MarkedFrom
<1> PICK S : S = Rows(pgs, used, k)
  OBVIOUS
<1> PICK T : T = Rows(out, used, k)
  OBVIOUS
<1>1. Places(S, pgs, used, k) /\ Places(T, out, used, k)
  BY RowsAre
<1>2. ASSUME NEW q \in used
      PROVE  /\ Len(out[q - 1].cells) = Len(pgs[q - 1].cells)
             /\ \A i \in 1..Len(pgs[q - 1].cells) :
                   out[q - 1].cells[i].key = k /\ ~out[q - 1].cells[i].deleted <=>
                   pgs[q - 1].cells[i].key = k /\ ~pgs[q - 1].cells[i].deleted
  <2>1. CASE q = p
    BY <2>1 DEF Marking
  <2>2. CASE q # p
    BY <2>2 DEF OthersKept
  <2> QED
    BY <2>1, <2>2
<1>3. ASSUME NEW x \in S PROVE x \in T
  <2>1. PICK q, i : q \in used /\ i \in 1..Len(pgs[q - 1].cells) /\
           x = <<q, i>> /\ pgs[q - 1].cells[i].key = k /\ ~pgs[q - 1].cells[i].deleted
    BY <1>1 DEF Places
  <2>2. i \in 1..Len(out[q - 1].cells) /\ out[q - 1].cells[i].key = k /\ ~out[q - 1].cells[i].deleted
    BY <1>2, <2>1
  <2> QED
    BY <1>1, <2>1, <2>2 DEF Places
<1>4. ASSUME NEW x \in T PROVE x \in S
  <2>1. PICK q, i : q \in used /\ i \in 1..Len(out[q - 1].cells) /\
           x = <<q, i>> /\ out[q - 1].cells[i].key = k /\ ~out[q - 1].cells[i].deleted
    BY <1>1 DEF Places
  <2>2. i \in 1..Len(pgs[q - 1].cells) /\ pgs[q - 1].cells[i].key = k /\ ~pgs[q - 1].cells[i].deleted
    BY <1>2, <2>1
  <2> QED
    BY <1>1, <2>1, <2>2 DEF Places
<1> QED
  BY <1>3, <1>4

LEMMA RemoveMarkStays ==
    ASSUME NEW n, Shape(n), RemoveMark, NEW k \in Keys
    PROVE  RowsStay(k)
<1> PICK p : p = op.leaf
  OBVIOUS
<1> PICK key : key = op.key
  OBVIOUS
<1> PICK out : out = pages'
  OBVIOUS
<1>1. AtLiveKey /\ Rewritten(n, p, Marked) /\ UNCHANGED <<free, orphans>> /\ Shape(n)'
  BY RemoveMarkDoes DEF RemoveMark
<1>2. Removing
  BY <1>1 DEF AtLiveKey, AtSlot
<1> SUFFICES ASSUME k # key PROVE Stored(k)' = Stored(k)
  BY <1>2 DEF RowsStay
<1> PICK used : used = Ids(n) \ ToSet(free)
  OBVIOUS
<1>3. /\ CellsFit(pages, Ids(n)) /\ CellsFit(pages', Ids(n)) /\ used \in SUBSET Ids(n)
      /\ Stored(k) = Rows(pages, used, k)
      /\ Stored(k)' = Rows(pages', used, k)
  BY <1>1, StoredBoth
<1>4. CellsFit(pages, used) /\ CellsFit(pages', used)
  BY <1>3, PartFits
<1>5. OthersKept(pages', pages, used, p)
  BY <1>1, <1>3, RewrittenLinks DEF Page, OthersKept
<1>6. MarkedFrom(out[p - 1].cells, pages[p - 1].cells, key)
  BY <1>1, MarkedDoes DEF Page, Rewritten, MarkedFrom
<1>7. Rows(out, used, k) = Rows(pages, used, k)
  <2>1. /\ CellsFit(pages, used) /\ CellsFit(out, used) /\ OthersKept(out, pages, used, p)
        /\ k # key
    BY <1>4, <1>5
  <2> QED
    BY <1>6, <2>1, RowsMark
<1> QED
  BY <1>3, <1>7

LEMMA RemovePurgeStays ==
    ASSUME NEW n, Shape(n), Chained(n), RemovePurge, Nil \notin orphans', NEW k \in Keys
    PROVE  RowsStay(k)
<1> PICK p : p = op.leaf
  OBVIOUS
<1> PICK key : key = op.key
  OBVIOUS
<1>1. /\ AtLiveKey /\ op \in RemovingFrom(Ids(n)) /\ Rewritten(n, p, Purged)
      /\ UNCHANGED <<free, orphans>> /\ Shape(n)'
  BY RemovePurgeDoes
<1>2. Removing
  BY <1>1 DEF AtLiveKey, AtSlot
<1> SUFFICES ASSUME k # key PROVE Cardinality(Stored(k)') = Cardinality(Stored(k))
  BY <1>2 DEF RowsStay
<1> PICK used : used = Ids(n) \ ToSet(free)
  OBVIOUS
<1>3. p \in used /\ p \in Ids(n)
  BY <1>1 DEF Chained, Rewritten
<1>4. /\ CellsFit(pages, Ids(n)) /\ CellsFit(pages', Ids(n)) /\ used \in SUBSET Ids(n)
      /\ Stored(k) = Rows(pages, used, k)
      /\ Stored(k)' = Rows(pages', used, k) /\ IsFiniteSet(Rows(pages', used, k))
  BY <1>1, StoredBoth
<1>5. CellsFit(pages, used) /\ CellsFit(pages', used)
  BY <1>4, PartFits
<1>6. OthersKept(pages', pages, used, p)
  BY <1>1, RewrittenLinks DEF Page, OthersKept
<1>8. Marking(Marked.cells, pages[p - 1].cells, op.slot, key)
  BY <1>1, MarkedDoes DEF Page
<1>9. PICK at : Unmarked(Purged.cells, Marked.cells, Len(Marked.cells), at)
  BY <1>1, PurgedDoes
<1>10. PurgedFrom(pages'[p - 1].cells, pages[p - 1].cells, key)
  BY <1>1, <1>8, <1>9 DEF Rewritten, PurgedFrom
<1>11. Cardinality(Rows(pages', used, k)) = Cardinality(Rows(pages, used, k))
  BY <1>3, <1>4, <1>5, <1>6, <1>10, RowsPurge
<1> QED
  BY <1>4, <1>11

LEMMA RemoveFreeStays ==
    ASSUME NEW n, Shape(n), RemoveFree, NEW k \in Keys
    PROVE  RowsStay(k)
<1> PICK p : p = op.leaf
  OBVIOUS
<1> PICK key : key = op.key
  OBVIOUS
<1>1. /\ AtLiveKey /\ op \in RemovingFrom(Ids(n)) /\ Purged.cells = <<>>
      /\ Unlinking(pages', n, p) /\ free' = Append(free, p) /\ Shape(n)'
  BY RemoveFreeDoes
<1>2. Removing
  BY <1>1 DEF AtLiveKey, AtSlot
<1> SUFFICES ASSUME k # key PROVE Cardinality(Stored(k)') = Cardinality(Stored(k))
  BY <1>2 DEF RowsStay
<1> PICK used : used = Ids(n) \ ToSet(free)
  OBVIOUS
<1>3. p \in Ids(n) /\ ToSet(free') = ToSet(free) \union {p}
  BY <1>1, AppendedSet DEF RemovingFrom, Shape
<1>4. /\ CellsFit(pages, Ids(n)) /\ used \in SUBSET Ids(n)
      /\ Stored(k) = Rows(pages, used, k)
      /\ Stored(k)' = Rows(pages', used \ {p}, k)
  <2>1. Ids(n) \ ToSet(free') = used \ {p}
    BY <1>3
  <2> QED
    BY <1>1, <2>1, StoredBoth
<1>5. NoRowOf(k, pages[p - 1].cells)
  <2> PICK cells : cells = pages[p - 1].cells
    OBVIOUS
  <2> PICK marked : marked = Marked.cells
    OBVIOUS
  <2>1. Marking(marked, cells, op.slot, key)
    BY <1>1, <1>3, MarkedDoes DEF Page
  <2>2. \E at : Unmarked(<<>>, marked, Len(marked), at)
    BY <1>1, PurgedDoes
  <2>3. \A m \in 1..Len(cells) : marked[m].deleted
    BY <2>1, <2>2 DEF Unmarked, Marking
  <2>4. \A m \in 1..Len(cells) : m = op.slot \/ cells[m].deleted
    BY <2>1, <2>3 DEF Marking
  <2> QED
    BY <2>1, <2>4 DEF Marking, NoRowOf
<1>6. Rows(pages, used, k) = Rows(pages, used \ {p}, k)
  <2>1. CASE p \in used
    <3>1. CellsFit(pages, used)
      BY <1>4, PartFits
    <3> QED
      BY <1>5, <2>1, <3>1, RowsDrop
  <2>2. CASE p \notin used
    <3>1. used \ {p} = used
      BY <2>2
    <3> QED
      BY <3>1
  <2> QED
    BY <2>1, <2>2
<1>7. \A q \in used \ {p} : pages'[q - 1].cells = pages[q - 1].cells
  BY <1>1, <1>4 DEF Unlinking, Page
<1>8. Rows(pages', used \ {p}, k) = Rows(pages, used \ {p}, k)
  BY <1>7, RowsSame
<1> QED
  BY <1>4, <1>6, <1>8

LEMMA StepsStay ==
    InOrder /\ NoneReused' /\ [Next]_vars =>
        [\A k \in Keys : RowsStay(k)]_vars
<1> SUFFICES ASSUME NEW n, Shape(n), Chained(n), Nil \notin orphans', Next, NEW k \in Keys
             PROVE  RowsStay(k)
  BY DEF InOrder, NoneReused
<1>1. ASSUME NEW key \in Keys, StartInsert(key) PROVE RowsStay(k)
  BY <1>1, StartInsertStays
<1>2. ASSUME NEW key \in Keys, StartRemove(key) PROVE RowsStay(k)
  BY <1>2, StartRemoveDoes, SamePagesSameRows
<1>3. CASE InsertIntoLeaf
  BY <1>3, InsertIntoLeafStays
<1>4. CASE ThrowInSplit
  BY <1>4, ThrowInSplitStays
<1>5. CASE SplitRoot
  BY <1>5, SplitRootStays
<1>6. CASE SplitBelowRoot
  BY <1>6, SplitBelowRootStays
<1>7. CASE RemoveNextLeaf \/ RemoveDone \/ RemoveSkip
  BY <1>7, MovesShape, SamePagesSameRows
<1>8. CASE RemoveMark
  BY <1>8, RemoveMarkStays
<1>9. CASE RemovePurge
  BY <1>9, RemovePurgeStays
<1>10. CASE RemoveFree
  BY <1>10, RemoveFreeStays
<1> QED
  BY <1>1, <1>2, <1>3, <1>4, <1>5, <1>6, <1>7, <1>8, <1>9, <1>10 DEF Next, InsertStep, RemoveStep

(* Until a freed leaf is used again, a row leaves the pages only by the    *)
(* removal of its key, and an insertion adds one row, in the step that     *)
(* answers it: splits, failed insertions, purges and the freeing of leaves *)
(* neither lose nor double a record, and a split brings back exactly the   *)
(* deleted ones that it copies (bplustree.cpp:178-243 and 298-376).        *)
THEOREM TreeRowsStayOnPages == Spec /\ []NoneReused => RowsStayOnPages
<1>1. InOrder /\ NoneReused' /\ [Next]_vars => [\A k \in Keys : RowsStay(k)]_vars
  BY StepsStay
<1> QED
  BY <1>1, AlwaysInOrder, PTL DEF Spec, RowsStayOnPages, RowsStay

-----------------------------------------------------------------------------
(* A table of one leaf: until the first split, and for good when there are *)
(* few keys.                                                               *)

Dead(cells) == {i \in 1..Len(cells) : cells[i].deleted}
Alive(cells) == (1..Len(cells)) \ Dead(cells)

(* Of the records with one key only the first may not be marked.           *)
FirstIsLive(cells) ==
    \A i, j \in 1..Len(cells) : i < j /\ cells[i].key = cells[j].key => cells[j].deleted

LEMMA DeadAndAlive ==
    ASSUME NEW cells \in Seq(LeafCell)
    PROVE  /\ IsFiniteSet(Dead(cells)) /\ Cardinality(Dead(cells)) \in Nat
           /\ IsFiniteSet(Alive(cells)) /\ Cardinality(Alive(cells)) \in Nat
           /\ Cardinality(Dead(cells)) + Cardinality(Alive(cells)) = Len(cells)
<1> PICK N \in Nat : N = Len(cells)
  BY LenProperties
<1> PICK D : D = Dead(cells)
  OBVIOUS
<1>1. IsFiniteSet(1..N) /\ Cardinality(1..N) = N
  <2>1. 1 \in Int /\ N \in Int
    OBVIOUS
  <2>2. IsFiniteSet(1..N) /\ Cardinality(1..N) = IF 1 > N THEN 0 ELSE N - 1 + 1
    BY <2>1, FS_Interval
  <2> QED
    BY <2>2
<1>2. D \subseteq 1..N /\ (1..N) \intersect D = D /\ Alive(cells) = (1..N) \ D
  BY DEF Dead, Alive
<1>3. IsFiniteSet(D) /\ Cardinality(D) \in Nat
  BY <1>1, <1>2, FS_Subset, FS_CardinalityType
<1>4. IsFiniteSet((1..N) \ D) /\ Cardinality((1..N) \ D) = Cardinality(1..N) - Cardinality((1..N) \intersect D)
  BY <1>1, FS_Difference
<1>5. Cardinality((1..N) \ D) \in Nat
  BY <1>4, FS_CardinalityType
<1>6. Cardinality((1..N) \ D) = N - Cardinality(D)
  BY <1>1, <1>2, <1>4
<1> QED
  BY <1>2, <1>3, <1>4, <1>5, <1>6

(* What PurgeDue counts.                                                   *)
LEMMA DeadCount ==
    ASSUME NEW cells \in Seq(LeafCell)
    PROVE  Cardinality(Dead(cells)) = Len(cells) - Len(LiveCells(cells))
<1> PICK N \in Nat : N = Len(cells)
  BY LenProperties
<1> PICK live : live = LiveCells(cells)
  OBVIOUS
<1>1. PICK at : Unmarked(live, cells, N, at)
  BY LiveCellsAreUnmarked
<1>2. PICK L \in Nat : L = Len(live)
  BY <1>1, LenProperties DEF Unmarked
<1>3. /\ at \in [1..L -> 1..N]
      /\ \A i, j \in 1..L : i < j => at[i] < at[j]
      /\ \A i \in 1..L : ~cells[at[i]].deleted
      /\ \A m \in 1..N : ~cells[m].deleted => \E i \in 1..L : at[i] = m
  BY <1>1, <1>2 DEF Unmarked
<1>4. \A i, j \in 1..L : at[i] = at[j] => i = j
  <2> SUFFICES ASSUME NEW i \in 1..L, NEW j \in 1..L, i # j PROVE at[i] # at[j]
    OBVIOUS
  <2>1. at[i] \in 1..N /\ at[j] \in 1..N /\ (i < j \/ j < i)
    BY <1>3
  <2>2. at[i] < at[j] \/ at[j] < at[i]
    BY <1>3, <2>1
  <2> QED
    BY <2>1, <2>2
<1>5. OneToOne(at, 1..L, Alive(cells))
  <2>1. at \in [1..L -> Alive(cells)]
    BY <1>3 DEF Alive, Dead
  <2>2. \A m \in Alive(cells) : \E i \in 1..L : at[i] = m
    BY <1>3 DEF Alive, Dead
  <2> QED
    BY <1>4, <2>1, <2>2 DEF OneToOne
<1>6. IsFiniteSet(1..L) /\ Cardinality(1..L) = L
  <2>1. 1 \in Int /\ L \in Int
    OBVIOUS
  <2>2. IsFiniteSet(1..L) /\ Cardinality(1..L) = IF 1 > L THEN 0 ELSE L - 1 + 1
    BY <2>1, FS_Interval
  <2> QED
    BY <2>2
<1>7. Cardinality(Alive(cells)) = L
  BY <1>5, <1>6, SameSize
<1> QED
  BY <1>2, <1>7, DeadAndAlive

LEMMA AliveAreFew ==
    ASSUME NEW cells \in Seq(LeafCell), FirstIsLive(cells), IsFiniteSet(Keys), NEW k \in Keys,
           \A i \in 1..Len(cells) : cells[i].key = k => cells[i].deleted
    PROVE  Cardinality(Keys) \in Nat /\ Cardinality(Alive(cells)) <= Cardinality(Keys) - 1
<1> PICK N \in Nat : N = Len(cells)
  BY LenProperties
<1> PICK A : A = Alive(cells)
  OBVIOUS
<1> DEFINE f == [i \in A |-> cells[i].key]
<1>1. \A i \in A : i \in 1..N /\ ~cells[i].deleted /\ cells[i].key \in Keys \ {k}
  <2> TAKE i \in A
  <2>1. i \in 1..N /\ ~cells[i].deleted
    BY DEF Alive, Dead
  <2>2. cells[i] \in LeafCell
    BY <2>1, ElementOfSeq
  <2> QED
    BY <2>1, <2>2 DEF LeafCell
<1>2. \A i, j \in A : cells[i].key = cells[j].key => i = j
  <2> SUFFICES ASSUME NEW i \in A, NEW j \in A, i # j, cells[i].key = cells[j].key PROVE FALSE
    OBVIOUS
  <2>1. i < j \/ j < i
    BY <1>1
  <2> QED
    BY <1>1, <2>1 DEF FirstIsLive
<1>3. f \in Injection(A, Keys \ {k})
  BY <1>1, <1>2 DEF Injection, IsInjective
<1>4. /\ IsFiniteSet(Keys \ {k}) /\ Cardinality(Keys) \in Nat
      /\ Cardinality(Keys \ {k}) = Cardinality(Keys) - 1
  BY FS_RemoveElement, FS_CardinalityType
<1>5. Cardinality(A) <= Cardinality(Keys \ {k})
  <2> HIDE DEF f
  <2> QED
    BY <1>3, <1>4, FS_Injection
<1> QED
  BY <1>4, <1>5

(* An insertion marks no record, and comes before those of its key.        *)
LEMMA InsertedDead ==
    ASSUME NEW cells \in Seq(LeafCell), NEW more \in Seq(LeafCell), NEW s, NEW e,
           Inserted(more, cells, s, e), ~e.deleted
    PROVE  Cardinality(Dead(more)) = Cardinality(Dead(cells))
<1> PICK N \in Nat : N = Len(cells)
  BY LenProperties
<1>1. /\ s \in 1..(N + 1) /\ Len(more) = N + 1
      /\ \A j \in 1..(N + 1) : more[j] = IF j < s THEN cells[j] ELSE IF j = s THEN e ELSE cells[j - 1]
  BY DEF Inserted
<1> PICK D : D = Dead(cells)
  OBVIOUS
<1> PICK M : M = Dead(more)
  OBVIOUS
<1>2. /\ \A i \in D : i \in 1..N /\ cells[i].deleted
      /\ \A i \in 1..N : cells[i].deleted => i \in D
      /\ \A i \in M : i \in 1..(N + 1) /\ more[i].deleted
      /\ \A i \in 1..(N + 1) : more[i].deleted => i \in M
  BY <1>1 DEF Dead
<1> DEFINE place(i) == IF i < s THEN i ELSE i + 1
           f == [i \in D |-> place(i)]
<1>3. ASSUME NEW i \in D PROVE place(i) \in M
  <2>1. i \in 1..N /\ cells[i].deleted
    BY <1>2
  <2>2. CASE i < s
    <3>1. i \in 1..(N + 1) /\ more[i] = cells[i]
      BY <1>1, <2>1, <2>2
    <3> QED
      BY <1>2, <2>1, <2>2, <3>1
  <2>3. CASE ~(i < s)
    <3>1. i + 1 \in 1..(N + 1) /\ ~(i + 1 < s) /\ i + 1 # s /\ (i + 1) - 1 = i
      BY <1>1, <2>1, <2>3
    <3>2. more[i + 1] = cells[i]
      BY <1>1, <3>1
    <3> QED
      BY <1>2, <2>1, <2>3, <3>1, <3>2
  <2> QED
    BY <2>2, <2>3
<1>4. ASSUME NEW i \in D, NEW j \in D, place(i) = place(j) PROVE i = j
  <2>1. i \in 1..N /\ j \in 1..N
    BY <1>2
  <2> QED
    BY <1>1, <1>4, <2>1
<1>5. ASSUME NEW j \in M PROVE \E i \in D : place(i) = j
  <2>1. j \in 1..(N + 1) /\ more[j].deleted /\ j # s
    BY <1>1, <1>2
  <2>2. CASE j < s
    <3>1. j \in 1..N /\ cells[j].deleted
      BY <1>1, <2>1, <2>2
    <3>2. j \in D
      BY <1>2, <3>1
    <3> QED
      BY <2>2, <3>2
  <2>3. CASE ~(j < s)
    <3>1. PICK i \in 1..N : j = i + 1 /\ ~(i < s) /\ (i + 1) - 1 = i /\ ~(i + 1 < s)
      <4>1. j - 1 \in 1..N /\ j = (j - 1) + 1 /\ ~(j - 1 < s)
        BY <1>1, <2>1, <2>3
      <4> QED
        BY <2>1, <2>3, <4>1
    <3>2. more[i + 1] = cells[i]
      BY <1>1, <2>1, <3>1
    <3>3. i \in D
      BY <1>2, <2>1, <3>1, <3>2
    <3> QED
      BY <3>1, <3>3
  <2> QED
    BY <2>2, <2>3
<1>6. OneToOne(f, D, M)
  BY <1>3, <1>4, <1>5 DEF OneToOne
<1>7. IsFiniteSet(D)
  BY DeadAndAlive
<1> HIDE DEF f
<1> QED
  BY <1>6, <1>7, SameSize

LEMMA InsertedFirst ==
    ASSUME NEW cells \in Seq(LeafCell), Sorted(cells), FirstIsLive(cells), NEW k \in Keys,
           NEW more \in Seq(LeafCell), NEW e, e.key = k,
           Inserted(more, cells, FirstSlot(cells, k), e),
           \A i \in 1..Len(cells) : cells[i].key = k => cells[i].deleted
    PROVE  FirstIsLive(more)
<1> PICK N \in Nat : N = Len(cells)
  BY LenProperties
<1>0. PICK s \in 1..(N + 1) : /\ s = FirstSlot(cells, k)
                              /\ \A i \in 1..N : cells[i].key < k <=> i < s
  BY KeysAreNumbers, FirstSlotSplits
<1>1. /\ Len(more) = N + 1
      /\ \A j \in 1..(N + 1) : more[j] = IF j < s THEN cells[j] ELSE IF j = s THEN e ELSE cells[j - 1]
  BY <1>0 DEF Inserted
<1>2. k \in Nat /\ \A i \in 1..N : cells[i].key \in Nat
  BY KeysAreNumbers, ElementOfSeq DEF LeafCell
<1>3. \A i \in 1..(s - 1) : i \in 1..N /\ more[i] = cells[i] /\ cells[i].key # k
  <2> TAKE i \in 1..(s - 1)
  <2>1. i \in 1..N /\ i < s /\ i \in 1..(N + 1)
    BY <1>0
  <2>2. cells[i].key < k /\ more[i] = cells[i]
    BY <1>0, <1>1, <2>1
  <2> QED
    BY <1>2, <2>1, <2>2
<1>4. more[s] = e
  BY <1>0, <1>1
<1>5. \A i \in (s + 1)..(N + 1) : i - 1 \in 1..N /\ more[i] = cells[i - 1]
  <2> TAKE i \in (s + 1)..(N + 1)
  <2>1. i - 1 \in 1..N /\ ~(i < s) /\ i # s /\ i \in 1..(N + 1)
    BY <1>0
  <2> QED
    BY <1>1, <2>1
<1> SUFFICES ASSUME NEW i \in 1..(N + 1), NEW j \in 1..(N + 1), i < j, more[i].key = more[j].key
             PROVE  more[j].deleted
  BY <1>1 DEF FirstIsLive
<1>6. CASE j < s
  <2>1. i \in 1..(s - 1) /\ j \in 1..(s - 1)
    BY <1>0, <1>6
  <2> QED
    BY <1>3, <2>1 DEF FirstIsLive
<1>7. CASE j = s
  <2>1. i \in 1..(s - 1)
    BY <1>0, <1>7
  <2> QED
    BY <1>3, <1>4, <1>7, <2>1
<1>8. CASE s < j
  <2>1. j \in (s + 1)..(N + 1)
    BY <1>0, <1>8
  <2>2. CASE i < s
    <3>1. i \in 1..(s - 1) /\ i < j - 1
      BY <1>0, <1>8, <2>2
    <3> QED
      BY <1>3, <1>5, <2>1, <3>1 DEF FirstIsLive
  <2>3. CASE i = s
    BY <1>4, <1>5, <2>1, <2>3
  <2>4. CASE s < i
    <3>1. i \in (s + 1)..(N + 1) /\ i - 1 < j - 1
      BY <1>0, <2>4
    <3> QED
      BY <1>5, <2>1, <3>1 DEF FirstIsLive
  <2> QED
    BY <1>0, <2>2, <2>3, <2>4
<1> QED
  BY <1>0, <1>6, <1>7, <1>8

(* Such keys leave room in the leaf for one more record.                   *)
OneLeafIsEnough == IsFiniteSet(Keys) /\ Cardinality(Keys) + PurgeAt <= LeafCap + 1

(* The lone leaf has at most one row of a key, none of a key that is being *)
(* inserted, and fewer marked records than call for a purge.               *)
Tidy(cells) == FirstIsLive(cells) /\ Cardinality(Dead(cells)) < PurgeAt

Lone(n) ==
    /\ Shape(n) /\ Alone(n)
    /\ op # Failed
    /\ root # Nil => Tidy(Page(2).cells) /\ (op.kind = "insert" => NoRowOf(op.key, Page(2).cells))

LEMMA LoneLeaf ==
    ASSUME NEW n, Lone(n), root # Nil
    PROVE  /\ n = 1 /\ root = 2 /\ free = <<>> /\ Ids(n) = {2} /\ IsLeaf(2)
           /\ Page(2).cells \in Seq(LeafCell) /\ Sorted(Page(2).cells)
           /\ Page(2).used = Len(Page(2).cells) /\ Page(2).next = Nil
           /\ \A k \in Keys : LeafFor(k) = 2
<1>1. n = 1 /\ root = 2 /\ free = <<>>
  BY DEF Lone, Alone, Nil
<1>2. Ids(n) = {2}
  BY <1>1 DEF Ids
<1>3. /\ IsLeaf(2) /\ Page(2).cells \in Seq(LeafCell) /\ Sorted(Page(2).cells)
      /\ Page(2).used = Len(Page(2).cells) /\ Page(2).next = Nil
  BY <1>2, Reading DEF IsLeafPage, Lone, Alone
<1>4. \A k \in Keys : LeafFor(k) = 2
  BY <1>1, <1>3 DEF LeafFor
<1> QED
  BY <1>1, <1>2, <1>3, <1>4

LEMMA LeafHasRoom ==
    ASSUME OneLeafIsEnough, NEW n, Lone(n), op.kind = "insert"
    PROVE  op.key \in Keys /\ LeafFor(op.key) = 2 /\ HasRoom(Page(2))
<1>1. op.key \in Keys /\ root # Nil
  BY Calls DEF Lone
<1> PICK cells : cells = Page(2).cells
  OBVIOUS
<1>2. /\ cells \in Seq(LeafCell) /\ Page(2).used = Len(cells) /\ LeafFor(op.key) = 2
      /\ FirstIsLive(cells) /\ Cardinality(Dead(cells)) < PurgeAt /\ NoRowOf(op.key, cells)
  BY <1>1, LoneLeaf DEF Lone, Tidy
<1> PICK d : d = Cardinality(Dead(cells))
  OBVIOUS
<1> PICK a : a = Cardinality(Alive(cells))
  OBVIOUS
<1> PICK c : c = Cardinality(Keys)
  OBVIOUS
<1>3. d \in Nat /\ a \in Nat /\ d + a = Len(cells) /\ d < PurgeAt
  BY <1>2, DeadAndAlive
<1>4. c \in Nat /\ a <= c - 1
  BY <1>1, <1>2, AliveAreFew DEF NoRowOf, OneLeafIsEnough
<1>5. c + PurgeAt <= LeafCap + 1 /\ PurgeAt \in Nat /\ LeafCap \in Nat
  BY TreeAssumption DEF OneLeafIsEnough
<1>6. d + a < LeafCap
  BY <1>3, <1>4, <1>5
<1> QED
  BY <1>1, <1>2, <1>3, <1>6 DEF HasRoom

OneLeaf == root # Nil => IsLeaf(root)

(* No step leaves the lone leaf but its split.                             *)
LEMMA NoSplit ==
    ASSUME NEW n, Lone(n), OneLeafIsEnough \/ OneLeaf'
    PROVE  ~ThrowInSplit /\ ~SplitRoot /\ ~SplitBelowRoot
<1>1. CASE OneLeafIsEnough
  <2>1. \A p \in PageIds : ~SplitNeeded(p)
    BY <1>1, LeafHasRoom DEF SplitNeeded
  <2> QED
    BY <2>1 DEF ThrowInSplit, SplitRoot, SplitBelowRoot
<1>2. CASE OneLeaf'
  <2>1. Shape(n) /\ Alone(n)
    BY DEF Lone
  <2>2. \A p \in PageIds : SplitNeeded(p) => ~CannotSplit(p) /\ p = root
    BY <2>1, FullLeaf DEF CannotSplit
  <2>3. ~SplitRoot
    <3> SUFFICES ASSUME SplitRoot PROVE FALSE
      OBVIOUS
    <3>1. Shape(3)'
      BY <2>1, SplitRootDoes
    <3>2. ~Alone(3)'
      BY DEF Alone
    <3>3. Branched(3)'
      BY <3>1, <3>2 DEF Shape
    <3>4. root' # Nil /\ ~IsLeaf(root)'
      BY <3>3 DEF Branched, IsNodePage, NodePage, IsLeaf, Page, Nil
    <3> QED
      BY <1>2, <3>4 DEF OneLeaf
  <2> QED
    BY <2>2, <2>3 DEF ThrowInSplit, SplitBelowRoot
<1> QED
  BY <1>1, <1>2

(* What a lookup in the lone leaf finds.                                   *)
LEMMA LookupInLeaf ==
    ASSUME NEW n, Lone(n), root # Nil, NEW k \in Keys, ~KeyExists(k)
    PROVE  NoRowOf(k, Page(2).cells)
<1> PICK cells : cells = Page(2).cells
  OBVIOUS
<1>1. /\ Shape(n) /\ n = 1 /\ Ids(n) = {2} /\ cells \in Seq(LeafCell) /\ Sorted(cells) /\ FirstIsLive(cells)
      /\ LeafFor(k) = 2
  BY LoneLeaf DEF Lone, Tidy
<1> PICK N \in Nat : N = Len(cells)
  BY <1>1, LenProperties
<1>2. PICK s \in 1..(N + 1) : /\ s = FirstSlot(cells, k)
                              /\ \A i \in 1..N : cells[i].key < k <=> i < s
  BY <1>1, KeysAreNumbers, FirstSlotSplits
<1> SUFFICES ASSUME NEW i \in 1..N, cells[i].key = k, ~cells[i].deleted PROVE FALSE
  BY DEF NoRowOf
<1>3. \A j \in 1..N : cells[j].key \in Nat /\ cells[j] \in LeafCell
  BY <1>1, KeysAreNumbers, ElementOfSeq
<1>4. s <= i /\ s \in 1..N
  <2>1. ~(cells[i].key < k)
    BY <1>3
  <2> QED
    BY <1>2, <2>1
<1>5. s = i
  <2> SUFFICES ASSUME s < i PROVE FALSE
    BY <1>4
  <2>1. ~(cells[s].key < k)
    BY <1>2, <1>4
  <2>2. cells[s].key <= cells[i].key
    <3>1. s \in DOMAIN cells /\ i \in DOMAIN cells
      BY <1>1, <1>4, LenProperties
    <3> QED
      BY <1>1, <3>1 DEF Sorted
  <2>3. cells[s].key = k
    BY <1>3, <1>4, <2>1, <2>2
  <2> QED
    BY <1>1, <1>4, <2>3 DEF FirstIsLive
<1>6. Search(k) # Nowhere
  <2> PICK w : w = Walk(LeafFor(k))
    OBVIOUS
  <2> DEFINE hits == {m \in DOMAIN w : /\ w[m] # Nil
                                       /\ FirstSlot(Page(w[m]).cells, k) <= Len(Page(w[m]).cells)}
  <2>1. /\ Len(pages) = 1 /\ Leaves = Ids(n)
        /\ \A q \in Leaves : Page(q).next \in Leaves \union {Nil}
    BY <1>1, Reading
  <2>2. w \in [0..1 -> {2, Nil}] /\ w[0] = 2
    BY <1>1, <2>1, WalkIs
  <2>3. 0 \in hits
    BY <1>2, <1>4, <2>2 DEF Nil
  <2>4. Search(k) = LET p == w[Min(hits)] IN [leaf |-> p, slot |-> FirstSlot(Page(p).cells, k)]
    BY <2>3 DEF Search
  <2>5. Min(hits) \in hits
    <3>1. hits \subseteq Nat
      BY <2>2
    <3> HIDE DEF hits
    <3> QED
      BY <2>3, <3>1, MinIsLeast
  <2>6. w[Min(hits)] = 2
    BY <2>2, <2>5
  <2> HIDE DEF hits
  <2>7. Search(k).leaf = 2
    BY <2>4, <2>6
  <2> QED
    BY <2>7 DEF Nowhere, Nil
<1>7. Search(k).leaf = 2 /\ Search(k).slot = s
  BY <1>1, <1>2, <1>6, SearchIs
<1>8. Cell(Search(k)) = cells[i]
  BY <1>5, <1>7 DEF Cell
<1> QED
  BY <1>6, <1>8 DEF KeyExists

LEMMA LoneStays ==
    ASSUME NEW n, Lone(n), Shape(n)', root' = root, UNCHANGED orphans, op' # Failed,
           root' # Nil => Tidy(Page(2).cells)' /\ (op'.kind = "insert" => NoRowOf(op.key, Page(2).cells)')
    PROVE  Lone(n)'
<1>1. root' # 4
  BY DEF Lone, Alone, Nil
<1>2. Alone(n)'
  BY <1>1 DEF Shape, Branched
<1> QED
  BY <1>2 DEF Lone

LEMMA OpKinds ==
    /\ Idle.kind # "insert" /\ Idle # Failed
    /\ \A c \in Inserting : c # Failed
    /\ \A ids : \A c \in RemovingFrom(ids) : c # Failed /\ c.kind # "insert"
<1>1. Failed.kind = "failed"
  BY DEF Failed
<1> QED
  BY <1>1 DEF Idle, Failed, Inserting, RemovingFrom

LEMMA SamePagesLone ==
    ASSUME NEW n, Lone(n), Shape(n)', UNCHANGED <<pages, root, orphans>>,
           op' = Idle \/ op' \in RemovingFrom(Ids(n))
    PROVE  Lone(n)'
<1>1. op' # Failed /\ op'.kind # "insert"
  BY OpKinds
<1>2. Page(2)' = Page(2)
  BY DEF Page
<1>3. root' # Nil => Tidy(Page(2).cells)'
  BY <1>2 DEF Lone
<1> QED
  BY <1>1, <1>3, LoneStays

LEMMA EmptyIsTidy == \A k : Tidy(<<>>) /\ NoRowOf(k, <<>>)
<1>1. <<>> \in Seq(LeafCell) /\ Len(<<>>) = 0 /\ 1..0 = {}
  OBVIOUS
<1>2. Dead(<<>>) = {}
  BY <1>1 DEF Dead
<1>3. Cardinality({}) = 0
  BY FS_EmptySet
<1>4. PurgeAt > 0
  BY TreeAssumption
<1>5. FirstIsLive(<<>>)
  BY <1>1 DEF FirstIsLive
<1>6. \A k : NoRowOf(k, <<>>)
  BY <1>1 DEF NoRowOf
<1> QED
  BY <1>2, <1>3, <1>4, <1>5, <1>6 DEF Tidy

LEMMA StartInsertLone ==
    ASSUME NEW n, Lone(n), NEW k \in Keys, StartInsert(k)
    PROVE  \E m : Lone(m)'
<1>0. Shape(n) /\ op' = [kind |-> "insert", key |-> k] /\ op' \in Inserting
  BY StartInsertDoes DEF Lone
<1>1. op' # Failed /\ op'.key = k
  BY <1>0, OpKinds
<1>2. CASE root # Nil
  <2>1. UNCHANGED <<pages, root, free, orphans>> /\ Shape(n)'
    BY <1>0, <1>2, StartInsertDoes
  <2>2. NoRowOf(k, Page(2).cells)
    BY <1>2, LookupInLeaf DEF StartInsert
  <2>3. Page(2)' = Page(2)
    BY <2>1 DEF Page
  <2>4. Tidy(Page(2).cells)' /\ NoRowOf(op.key, Page(2).cells)'
    BY <1>1, <1>2, <2>2, <2>3 DEF Lone
  <2>5. Lone(n)'
    BY <1>1, <2>1, <2>4, LoneStays
  <2> QED
    BY <2>5
<1>3. CASE root = Nil
  <2>1. pages'[1] = EmptyLeaf /\ Shape(1)' /\ root' # 4
    <3>1. pages'[1] = EmptyLeaf /\ Shape(1)' /\ free' = <<>>
      BY <1>0, <1>3, StartInsertDoes
    <3>2. ~Branched(1)'
      BY DEF Branched
    <3>3. Alone(1)'
      BY <3>1, <3>2 DEF Shape
    <3> QED
      BY <3>1, <3>3 DEF Alone, Nil
  <2>2. Alone(1)'
    BY <2>1 DEF Shape, Branched
  <2>3. Page(2)'.cells = <<>>
    BY <2>1 DEF Page, EmptyLeaf
  <2>4. Tidy(Page(2).cells)' /\ NoRowOf(op.key, Page(2).cells)'
    BY <2>3, EmptyIsTidy
  <2>5. Lone(1)'
    BY <1>1, <2>1, <2>2, <2>4 DEF Lone
  <2> QED
    BY <2>5
<1> QED
  BY <1>2, <1>3

LEMMA InsertIntoLeafLone ==
    ASSUME NEW n, Lone(n), InsertIntoLeaf
    PROVE  Lone(n)'
<1>0. Shape(n) /\ op.kind = "insert" /\ op' = Idle /\ root' = root
  BY DEF Lone, InsertIntoLeaf
<1>1. root # Nil /\ op.key \in Keys
  BY <1>0, Calls
<1> PICK k \in Keys : k = op.key
  BY <1>1
<1> PICK cells : cells = Page(2).cells
  OBVIOUS
<1>2. PICK p, page : /\ p = LeafFor(k) /\ Rewritten(n, p, page)
                     /\ Inserted(page.cells, Page(p).cells, FirstSlot(Page(p).cells, k),
                                 [key |-> k, deleted |-> FALSE])
                     /\ Using({p})
                     /\ Shape(n)'
  BY <1>0, InsertIntoLeafDoes
<1>3. /\ p = 2 /\ cells \in Seq(LeafCell) /\ Sorted(cells) /\ Ids(n) = {2}
      /\ Tidy(cells) /\ NoRowOf(k, cells) /\ orphans = {}
  BY <1>0, <1>1, <1>2, LoneLeaf DEF Lone, Alone
<1> PICK more : more = page.cells
  OBVIOUS
<1>4. Page(2)'.cells = more
  BY <1>2, <1>3 DEF Rewritten, Page
<1>5. more \in Seq(LeafCell)
  <2>1. IsLeafPage(page, Ids(n))
    BY <1>2 DEF Rewritten, ArePages
  <2> QED
    BY <2>1 DEF IsLeafPage, LeafPage
<1> PICK e : e = [key |-> k, deleted |-> FALSE]
  OBVIOUS
<1>6. Inserted(more, cells, FirstSlot(cells, k), e) /\ e.key = k /\ ~e.deleted
  BY <1>2, <1>3
<1>7. FirstIsLive(more)
  BY <1>3, <1>5, <1>6, InsertedFirst DEF Tidy, NoRowOf
<1>8. Cardinality(Dead(more)) = Cardinality(Dead(cells))
  BY <1>3, <1>5, <1>6, InsertedDead
<1>9. Tidy(more)
  BY <1>3, <1>7, <1>8 DEF Tidy
<1>10. Tidy(Page(2).cells)'
  BY <1>4, <1>9
<1>11. orphans' = orphans
  BY <1>2, <1>3 DEF Using
<1> QED
  BY <1>0, <1>2, <1>10, <1>11, LoneStays, OpKinds

LEMMA MarkedKeys ==
    ASSUME NEW marked, NEW cells, NEW slot, NEW k, Marking(marked, cells, slot, k)
    PROVE  \A m \in 1..Len(cells) :
              marked[m].key = cells[m].key /\ (cells[m].deleted => marked[m].deleted)
<1> TAKE m \in 1..Len(cells)
<1>1. CASE m = slot
  <2>1. cells[m].key = k /\ ~cells[m].deleted /\ marked[m].key = k
    BY <1>1 DEF Marking
  <2> QED
    BY <2>1
<1>2. CASE m # slot
  BY <1>2 DEF Marking
<1> QED
  BY <1>1, <1>2

LEMMA RemoveMarkLone ==
    ASSUME NEW n, Lone(n), RemoveMark
    PROVE  Lone(n)'
<1>0. /\ Shape(n) /\ AtLiveKey /\ ~PurgeDue
      /\ Rewritten(n, op.leaf, Marked) /\ op' \in RemovingFrom(Ids(n))
      /\ UNCHANGED <<root, free, orphans>>
      /\ Shape(n)'
  BY RemoveMarkDoes DEF Lone, RemoveMark
<1> PICK cells : cells = Page(2).cells
  OBVIOUS
<1> PICK marked : marked = Marked.cells
  OBVIOUS
<1>1. root # Nil /\ op.leaf \in Ids(n)
  BY <1>0, MarkedDoes
<1>2. op.leaf = 2 /\ Ids(n) = {2} /\ FirstIsLive(cells)
  BY <1>1, LoneLeaf DEF Lone, Tidy
<1>3. Marking(marked, cells, op.slot, op.key)
  BY <1>0, <1>2, MarkedDoes
<1>4. FirstIsLive(marked)
  <2>1. \A i \in 1..Len(cells) : marked[i].key = cells[i].key /\ (cells[i].deleted => marked[i].deleted)
    BY <1>3, MarkedKeys
  <2>2. Len(marked) = Len(cells)
    BY <1>3 DEF Marking
  <2> QED
    BY <1>2, <2>1, <2>2 DEF FirstIsLive
<1>5. Cardinality(Dead(marked)) < PurgeAt
  <2>1. marked \in Seq(LeafCell)
    BY <1>3 DEF Marking
  <2>2. PICK d \in Nat : d = Cardinality(Dead(marked))
    BY <2>1, DeadAndAlive
  <2>3. ~(d >= PurgeAt)
    BY <1>0, <2>1, <2>2, DeadCount DEF PurgeDue
  <2>4. PurgeAt \in Nat
    BY TreeAssumption
  <2>5. d < PurgeAt
    BY <2>3, <2>4
  <2> QED
    BY <2>2, <2>5
<1>6. Page(2)'.cells = marked
  BY <1>0, <1>2 DEF Rewritten, Page
<1>7. Tidy(Page(2).cells)'
  BY <1>4, <1>5, <1>6 DEF Tidy
<1>8. op' # Failed /\ op'.kind # "insert"
  BY <1>0, OpKinds
<1> QED
  BY <1>0, <1>7, <1>8, LoneStays

LEMMA RemovePurgeLone ==
    ASSUME NEW n, Lone(n), RemovePurge
    PROVE  Lone(n)'
<1>0. /\ Shape(n) /\ AtLiveKey /\ op \in RemovingFrom(Ids(n))
      /\ Rewritten(n, op.leaf, Purged)
      /\ UNCHANGED <<root, free, op, orphans>>
      /\ Shape(n)'
  BY RemovePurgeDoes DEF Lone
<1> PICK cells : cells = Page(2).cells
  OBVIOUS
<1> PICK marked : marked = Marked.cells
  OBVIOUS
<1> PICK live : live = Purged.cells
  OBVIOUS
<1>1. root # Nil /\ op.leaf \in Ids(n)
  BY <1>0, MarkedDoes
<1>2. op.leaf = 2 /\ Ids(n) = {2} /\ FirstIsLive(cells)
  BY <1>1, LoneLeaf DEF Lone, Tidy
<1>3. Marking(marked, cells, op.slot, op.key)
  BY <1>0, <1>2, MarkedDoes
<1>4. PICK at : Unmarked(live, marked, Len(marked), at)
  BY <1>0, PurgedDoes
<1> PICK N \in Nat : N = Len(cells) /\ N = Len(marked)
  BY <1>3, LenProperties DEF Marking
<1> PICK L \in Nat : L = Len(live)
  BY <1>4, LenProperties DEF Unmarked
<1>5. /\ at \in [1..L -> 1..N] /\ \A i, j \in 1..L : i < j => at[i] < at[j]
      /\ \A i \in 1..L : live[i] = marked[at[i]] /\ ~live[i].deleted
  BY <1>4 DEF Unmarked
<1>6. FirstIsLive(live)
  <2> SUFFICES ASSUME NEW i \in 1..L, NEW j \in 1..L, i < j, live[i].key = live[j].key PROVE FALSE
    BY DEF FirstIsLive
  <2> PICK a \in 1..N : a = at[i]
    BY <1>5
  <2> PICK b \in 1..N : b = at[j]
    BY <1>5
  <2>1. a < b /\ marked[a].key = marked[b].key /\ ~marked[b].deleted
    BY <1>5
  <2>2. \A m \in 1..N : marked[m].key = cells[m].key /\ (cells[m].deleted => marked[m].deleted)
    BY <1>3, MarkedKeys
  <2> QED
    BY <1>2, <2>1, <2>2 DEF FirstIsLive
<1>7. Cardinality(Dead(live)) < PurgeAt
  <2>1. Dead(live) = {}
    BY <1>5 DEF Dead
  <2> QED
    BY <2>1, FS_EmptySet, TreeAssumption
<1>8. Page(2)'.cells = live
  BY <1>0, <1>2 DEF Rewritten, Page
<1>9. Tidy(Page(2).cells)'
  BY <1>6, <1>7, <1>8 DEF Tidy
<1>10. op' # Failed /\ op'.kind # "insert"
  BY <1>0, OpKinds
<1> QED
  BY <1>0, <1>9, <1>10, LoneStays

LEMMA RemoveFreeLone ==
    ASSUME NEW n, Lone(n), RemoveFree
    PROVE  Lone(n)'
<1>1. /\ Shape(n)' /\ root' = Nil
      /\ op' = Idle \/ op' \in RemovingFrom(Ids(n))
  BY RemoveFreeDoes DEF Lone
<1>2. Alone(n)'
  BY <1>1 DEF Shape, Branched, Nil
<1>3. op' # Failed
  BY <1>1, OpKinds
<1> QED
  BY <1>1, <1>2, <1>3 DEF Lone

IsLone == \E n : Lone(n)

LEMMA NextLone == (OneLeafIsEnough \/ OneLeaf') /\ IsLone /\ [Next]_vars => IsLone'
<1> SUFFICES ASSUME OneLeafIsEnough \/ OneLeaf', NEW n, Lone(n), [Next]_vars
             PROVE  \E m : Lone(m)'
  BY DEF IsLone
<1>0. Shape(n)
  BY DEF Lone
<1>1. CASE UNCHANGED vars
  <2>1. Lone(n)'
    BY <1>1 DEF vars, Lone, Shape, Alone, Branched, Page
  <2> QED
    BY <2>1
<1>2. ASSUME NEW k \in Keys, StartInsert(k) PROVE \E m : Lone(m)'
  BY <1>2, StartInsertLone
<1>3. ASSUME NEW k \in Keys, StartRemove(k) PROVE \E m : Lone(m)'
  <2>1. Shape(n)' /\ UNCHANGED <<pages, root, orphans>>
    BY <1>0, <1>3, StartRemoveDoes
  <2>2. op' # Failed /\ op'.kind # "insert"
    <3>1. op'.kind = "remove"
      BY <1>0, <1>3, StartRemoveDoes
    <3> QED
      BY <3>1 DEF Failed
  <2>3. root' # Nil => Tidy(Page(2).cells)'
    BY <2>1 DEF Lone, Page
  <2>4. Lone(n)'
    BY <2>1, <2>2, <2>3, LoneStays
  <2> QED
    BY <2>4
<1>4. CASE InsertIntoLeaf
  BY <1>4, InsertIntoLeafLone
<1>5. CASE ThrowInSplit \/ SplitRoot \/ SplitBelowRoot
  BY <1>5, NoSplit
<1>6. CASE RemoveNextLeaf \/ RemoveDone \/ RemoveSkip
  <2>1. Lone(n)'
    BY <1>0, <1>6, MovesShape, SamePagesLone
  <2> QED
    BY <2>1
<1>7. CASE RemoveMark
  BY <1>7, RemoveMarkLone
<1>8. CASE RemovePurge
  BY <1>8, RemovePurgeLone
<1>9. CASE RemoveFree
  BY <1>9, RemoveFreeLone
<1> QED
  BY <1>1, <1>2, <1>3, <1>4, <1>5, <1>6, <1>7, <1>8, <1>9 DEF Next, InsertStep, RemoveStep

LEMMA InitLone == Init => IsLone
<1> SUFFICES ASSUME Init PROVE Lone(0)
  BY DEF IsLone
<1>1. Shape(0)
  BY InitIsShape
<1>2. Alone(0)
  BY <1>1 DEF Shape, Branched
<1>3. op # Failed /\ root = Nil
  BY OpKinds DEF Init
<1> QED
  BY <1>1, <1>2, <1>3 DEF Lone

LEMMA LoneIsOneLeaf == IsLone => OneLeaf
<1> SUFFICES ASSUME NEW n, Lone(n), root # Nil PROVE IsLeaf(root)
  BY DEF IsLone, OneLeaf
<1> QED
  BY LoneLeaf

(* Until the first split no insertion throws, and the free list never      *)
(* holds the page that is the root: the room of deleted records, and the   *)
(* page of the last one, is used again and not before (page_layout.cpp:51, *)
(* bplustree.h:42).                                                        *)
THEOREM OneLeafReusesSpace == Spec /\ []OneLeaf => []SpaceIsReused
<1>1. IsLone => SpaceIsReused
  <2> SUFFICES ASSUME NEW n, Lone(n) PROVE SpaceIsReused
    BY DEF IsLone
  <2>1. InsertsSucceed
    BY DEF Lone, InsertsSucceed
  <2>2. FreePagesUnreferenced
    <3> SUFFICES ASSUME root # Nil PROVE {root} \intersect ToSet(free) = {}
      BY LoneLeaf DEF FreePagesUnreferenced
    <3>1. free = <<>>
      BY LoneLeaf
    <3> QED
      BY <3>1 DEF ToSet
  <2> QED
    BY <2>1, <2>2 DEF SpaceIsReused
<1>2. OneLeaf' /\ IsLone /\ [Next]_vars => IsLone'
  BY NextLone
<1> QED
  BY <1>1, <1>2, InitLone, PTL DEF Spec

-----------------------------------------------------------------------------
(* What lookups and scans see of a lone leaf.                              *)

HasRow(k) == root # Nil /\ \E p \in Leaves : ~NoRowOf(k, Page(p).cells)
LoneRow(k) == root # Nil /\ ~NoRowOf(k, Page(2).cells)

(* The records of key k before this slot are marked.                       *)
Passed(slot, k, cells) ==
    \A i \in 1..Len(cells) : i < slot /\ cells[i].key = k => cells[i].deleted

Serving(n) ==
    /\ Lone(n)
    /\ op.kind = "remove" => Passed(op.slot, op.key, Page(2).cells)

IsServing == \E n : Serving(n)

LookupsAgree == IsLone => \A k \in Keys : KeyExists(k) <=> HasRow(k)
ScansAgree == IsLone => \A k \in Keys : Cardinality(Scanned(k)) = IF HasRow(k) THEN 1 ELSE 0

LoneRowsKnown == \A n : Lone(n) => \A k : HasRow(k) <=> LoneRow(k)

LEMMA LoneRowsAre == LoneRowsKnown
<1> SUFFICES ASSUME NEW n, Lone(n), root # Nil, NEW k PROVE HasRow(k) <=> LoneRow(k)
  BY DEF LoneRowsKnown, HasRow, LoneRow
<1>1. Leaves = {2}
  BY LoneLeaf, Reading DEF Lone
<1> QED
  BY <1>1 DEF HasRow, LoneRow

LEMMA LoneRowsThenAre == LoneRowsKnown'
BY LoneRowsAre, PTL

LEMMA LookupsAreRight == LookupsAgree
<1> SUFFICES ASSUME NEW n, Lone(n), NEW k \in Keys PROVE KeyExists(k) <=> HasRow(k)
  BY DEF LookupsAgree, IsLone
<1>1. ASSUME KeyExists(k) PROVE HasRow(k)
  <2>1. /\ Search(k) # Nowhere /\ Cell(Search(k)).key = k /\ ~Cell(Search(k)).deleted
    BY <1>1 DEF KeyExists
  <2>2. /\ root # Nil /\ Search(k).leaf \in Ids(n)
        /\ Search(k).slot \in 1..Len(Page(Search(k).leaf).cells)
    BY <2>1, SearchIs DEF Lone
  <2>3. Search(k).leaf = 2
    BY <2>2, LoneLeaf
  <2> QED
    BY <2>1, <2>2, <2>3, LoneRowsAre DEF LoneRowsKnown, LoneRow, NoRowOf, Cell
<1>2. ASSUME HasRow(k) PROVE KeyExists(k)
  BY <1>2, LookupInLeaf, LoneRowsAre DEF LoneRowsKnown, LoneRow
<1> QED
  BY <1>1, <1>2

LEMMA ScansAreRight == ScansAgree
<1> SUFFICES ASSUME NEW n, Lone(n), NEW k \in Keys
             PROVE  Cardinality(Scanned(k)) = IF HasRow(k) THEN 1 ELSE 0
  BY DEF ScansAgree, IsLone
<1>1. CASE root = Nil
  <2>1. Scanned(k) = {} /\ ~HasRow(k)
    BY <1>1 DEF Scanned, HasRow
  <2> QED
    BY <2>1, FS_EmptySet
<1>2. CASE root # Nil
  <2> PICK cells : cells = Page(2).cells
    OBVIOUS
  <2>1. /\ n = 1 /\ root = 2 /\ Ids(n) = {2} /\ IsLeaf(2) /\ Page(2).next = Nil
        /\ cells \in Seq(LeafCell) /\ FirstIsLive(cells)
    BY <1>2, LoneLeaf DEF Lone, Tidy
  <2> PICK N \in Nat : N = Len(cells) /\ DOMAIN cells = 1..N
    BY <2>1, LenProperties
  <2> PICK row : row = [key |-> k, deleted |-> FALSE]
    OBVIOUS
  <2> DEFINE found == {<<0, i>> : i \in {j \in 1..N : cells[j] = row}}
  <2>2. Scanned(k) = found
    <3> PICK w : w = Walk(Leftmost)
      OBVIOUS
    <3>1. Leftmost = 2
      BY <2>1 DEF Leftmost
    <3>2. Len(pages) = 1 /\ Leaves = Ids(n) /\ \A q \in Leaves : Page(q).next \in Leaves \union {Nil}
      BY <2>1, Reading DEF Lone
    <3>3. w \in [0..1 -> {2, Nil}] /\ w[0] = 2
          /\ \A m \in 1..1 : w[m] = IF w[m - 1] = Nil THEN Nil ELSE Page(w[m - 1]).next
      BY <2>1, <3>1, <3>2, WalkIs
    <3>4. DOMAIN w = {0, 1} /\ w[1] = Nil
      BY <2>1, <3>3 DEF Nil
    <3> DEFINE slots(m) == IF w[m] = Nil THEN {} ELSE {i \in DOMAIN Page(w[m]).cells : Page(w[m]).cells[i] = row}
    <3>5. Scanned(k) = UNION {{<<m, i>> : i \in slots(m)} : m \in DOMAIN w}
      BY <1>2 DEF Scanned
    <3>6. slots(0) = {j \in 1..N : cells[j] = row} /\ slots(1) = {}
      BY <3>3, <3>4 DEF Nil
    <3> HIDE DEF slots
    <3>7. Scanned(k) = {<<0, i>> : i \in slots(0)}
      BY <3>4, <3>5, <3>6
    <3> QED
      BY <3>6, <3>7
  <2>3. \A i \in 1..N : cells[i] = row <=> cells[i].key = k /\ ~cells[i].deleted
    <3>1. \A c \in LeafCell : c = row <=> c.key = k /\ ~c.deleted
      <4> TAKE c \in LeafCell
      <4>1. c = [key |-> c.key, deleted |-> c.deleted] /\ c.deleted \in BOOLEAN
        BY DEF LeafCell
      <4>2. row.key = k /\ ~row.deleted
        OBVIOUS
      <4>3. ASSUME c.key = k, ~c.deleted PROVE c = row
        BY <4>1, <4>3
      <4> QED
        BY <4>2, <4>3
    <3>2. \A i \in 1..N : cells[i] \in LeafCell
      BY <2>1, ElementOfSeq
    <3> QED
      BY <3>1, <3>2
  <2>4. CASE HasRow(k)
    <3>1. PICK i \in 1..N : cells[i].key = k /\ ~cells[i].deleted
      BY <2>4, LoneRowsAre DEF LoneRowsKnown, LoneRow, NoRowOf
    <3>2. \A j \in 1..N : cells[j] = row => j = i
      <4> SUFFICES ASSUME NEW j \in 1..N, cells[j].key = k, ~cells[j].deleted, j # i PROVE FALSE
        BY <2>3
      <4>1. i < j \/ j < i
        OBVIOUS
      <4> QED
        BY <2>1, <3>1, <4>1 DEF FirstIsLive
    <3>3. {j \in 1..N : cells[j] = row} = {i}
      BY <2>3, <3>1, <3>2
    <3>4. found = {<<0, i>>}
      BY <3>3
    <3> QED
      BY <2>2, <2>4, <3>4, FS_Singleton
  <2>5. CASE ~HasRow(k)
    <3>1. {j \in 1..N : cells[j] = row} = {}
      BY <1>2, <2>3, <2>5, LoneRowsAre DEF LoneRowsKnown, LoneRow, NoRowOf
    <3>2. found = {}
      BY <3>1
    <3> QED
      BY <2>2, <2>5, <3>2, FS_EmptySet
  <2> QED
    BY <2>4, <2>5
<1> QED
  BY <1>1, <1>2

(* Which keys have rows in a leaf that was changed.                        *)
LEMMA RowsOfMarked ==
    ASSUME NEW cells, NEW marked, NEW slot, NEW key, Marking(marked, cells, slot, key), FirstIsLive(cells)
    PROVE  /\ NoRowOf(key, marked)
           /\ \A k \in Keys \ {key} : NoRowOf(k, marked) <=> NoRowOf(k, cells)
<1>1. /\ Len(marked) = Len(cells) /\ slot \in 1..Len(cells)
      /\ cells[slot].key = key /\ ~cells[slot].deleted /\ marked[slot].key = key /\ marked[slot].deleted
      /\ \A i \in 1..Len(cells) : i # slot => marked[i] = cells[i]
  <2>1. cells[slot] = [key |-> key, deleted |-> FALSE]
    BY DEF Marking
  <2>2. cells[slot].key = key /\ ~cells[slot].deleted
    BY <2>1
  <2> QED
    BY <2>2 DEF Marking
<1>2. NoRowOf(key, marked)
  <2> SUFFICES ASSUME NEW i \in 1..Len(cells), marked[i].key = key PROVE marked[i].deleted
    BY <1>1 DEF NoRowOf
  <2>1. i = slot \/ i < slot \/ slot < i
    BY <1>1
  <2> QED
    BY <1>1, <2>1 DEF FirstIsLive
<1>3. ASSUME NEW k \in Keys \ {key} PROVE NoRowOf(k, marked) <=> NoRowOf(k, cells)
  <2>1. k # key
    OBVIOUS
  <2> QED
    BY <1>1, <2>1 DEF NoRowOf
<1> QED
  BY <1>2, <1>3

LEMMA RowsOfLive ==
    ASSUME NEW live, NEW marked, NEW at, Unmarked(live, marked, Len(marked), at), NEW k
    PROVE  NoRowOf(k, live) <=> NoRowOf(k, marked)
<1>1. /\ at \in [1..Len(live) -> 1..Len(marked)]
      /\ \A i \in 1..Len(live) : live[i] = marked[at[i]] /\ ~marked[at[i]].deleted
      /\ \A m \in 1..Len(marked) : ~marked[m].deleted => \E i \in 1..Len(live) : at[i] = m
  BY DEF Unmarked
<1>2. ASSUME ~NoRowOf(k, live) PROVE ~NoRowOf(k, marked)
  <2>1. PICK i \in 1..Len(live) : live[i].key = k
    BY <1>2 DEF NoRowOf
  <2> PICK m \in 1..Len(marked) : m = at[i]
    BY <1>1
  <2>2. marked[m].key = k /\ ~marked[m].deleted
    BY <1>1, <2>1
  <2> QED
    BY <2>2 DEF NoRowOf
<1>3. ASSUME ~NoRowOf(k, marked) PROVE ~NoRowOf(k, live)
  <2>1. PICK m \in 1..Len(marked) : marked[m].key = k /\ ~marked[m].deleted
    BY <1>3 DEF NoRowOf
  <2>2. PICK i \in 1..Len(live) : at[i] = m
    BY <1>1, <2>1
  <2>3. live[i].key = k /\ ~live[i].deleted
    BY <1>1, <2>1, <2>2
  <2> QED
    BY <2>3 DEF NoRowOf
<1> QED
  BY <1>2, <1>3

LEMMA RowsOfInserted ==
    ASSUME NEW cells, Len(cells) \in Nat, NEW more, NEW s, NEW e, NEW key,
           Inserted(more, cells, s, e), e.key = key, ~e.deleted
    PROVE  ~NoRowOf(key, more) /\ \A k \in Keys \ {key} : NoRowOf(k, more) <=> NoRowOf(k, cells)
<1> PICK N \in Nat : N = Len(cells)
  OBVIOUS
<1>1. /\ s \in 1..(N + 1) /\ Len(more) = N + 1
      /\ \A j \in 1..(N + 1) : more[j] = IF j < s THEN cells[j] ELSE IF j = s THEN e ELSE cells[j - 1]
  BY DEF Inserted
<1>2. more[s] = e
  BY <1>1
<1>3. ~NoRowOf(key, more)
  BY <1>1, <1>2 DEF NoRowOf
<1>4. \A j \in 1..(N + 1) : j # s => \E i \in 1..N : more[j] = cells[i]
  <2> SUFFICES ASSUME NEW j \in 1..(N + 1), j # s PROVE \E i \in 1..N : more[j] = cells[i]
    OBVIOUS
  <2>1. CASE j < s
    BY <1>1, <2>1
  <2>2. CASE s < j
    <3>1. j - 1 \in 1..N /\ more[j] = cells[j - 1]
      BY <1>1, <2>2
    <3> QED
      BY <3>1
  <2> QED
    BY <1>1, <2>1, <2>2
<1>5. \A i \in 1..N : \E j \in 1..(N + 1) : more[j] = cells[i]
  <2> TAKE i \in 1..N
  <2>1. CASE i < s
    BY <1>1, <2>1
  <2>2. CASE ~(i < s)
    <3>1. i + 1 \in 1..(N + 1) /\ ~(i + 1 < s) /\ i + 1 # s /\ (i + 1) - 1 = i
      BY <1>1, <2>2
    <3>2. more[i + 1] = cells[i]
      BY <1>1, <3>1
    <3> QED
      BY <3>1, <3>2
  <2> QED
    BY <2>1, <2>2
<1>6. ASSUME NEW k \in Keys \ {key} PROVE NoRowOf(k, more) <=> NoRowOf(k, cells)
  <2>1. ASSUME NoRowOf(k, more) PROVE NoRowOf(k, cells)
    BY <1>1, <1>5, <2>1 DEF NoRowOf
  <2>2. ASSUME NoRowOf(k, cells) PROVE NoRowOf(k, more)
    <3> SUFFICES ASSUME NEW j \in 1..(N + 1), more[j].key = k PROVE more[j].deleted
      BY <1>1 DEF NoRowOf
    <3>1. j # s
      BY <1>2
    <3>2. PICK i \in 1..N : more[j] = cells[i]
      BY <1>4, <3>1
    <3> QED
      BY <2>2, <3>2 DEF NoRowOf
  <2> QED
    BY <2>1, <2>2
<1> QED
  BY <1>3, <1>6

(* What a step may do to the rows, in the terms of RowStore.               *)
RowsSeen == \A k \in Keys : HasRow(k)' <=> HasRow(k)
RowsSeenBut(key) == \A k \in Keys \ {key} : HasRow(k)' <=> HasRow(k)

Stutters == RowsSeen /\ Request' = Request
Asks == RowsSeen /\ Request \in {Idle, Failed} /\ \E kind \in {"insert", "remove"}, key \in Keys :
                                         Request' = [kind |-> kind, key |-> key]
Adds == \E key \in Keys :
           /\ Request = [kind |-> "insert", key |-> key] /\ Request' = Idle
           /\ RowsSeenBut(key) /\ ~HasRow(key) /\ HasRow(key)'
TakesOut == \E key \in Keys :
               /\ Request = [kind |-> "remove", key |-> key] /\ Request' \in {Request, Idle}
               /\ RowsSeenBut(key) /\ ~HasRow(key)'

LEMMA SameRows ==
    ASSUME UNCHANGED <<pages, root>>
    PROVE  RowsSeen
BY DEF RowsSeen, HasRow, Leaves, PageIds, IsLeaf, Page

RequestKnown ==
    /\ op \in {Idle, Failed} => Request = op
    /\ op \in Inserting => Request = [kind |-> "insert", key |-> op.key]
    /\ \A ids : op \in RemovingFrom(ids) => Request = [kind |-> "remove", key |-> op.key]

LEMMA RequestIs == RequestKnown
<1>1. \A c \in Inserting : c # Idle /\ c # Failed /\ c.kind = "insert"
  <2>1. Idle.kind # "insert" /\ Failed.kind # "insert"
    BY DEF Idle, Failed
  <2> QED
    BY <2>1 DEF Inserting
<1>2. \A ids : \A c \in RemovingFrom(ids) : c # Idle /\ c # Failed /\ c.kind = "remove"
  <2>1. Idle.kind # "remove" /\ Failed.kind # "remove"
    BY DEF Idle, Failed
  <2> QED
    BY <2>1 DEF RemovingFrom
<1> QED
  BY <1>1, <1>2 DEF RequestKnown, Request, AtRest

LEMMA RequestThenIs == RequestKnown'
BY RequestIs, PTL

LEMMA RemovalOf ==
    ASSUME NEW n, Serving(n), op \in RemovingFrom(Ids(n))
    PROVE  /\ root # Nil /\ n = 1 /\ Ids(n) = {2} /\ op.leaf = 2 /\ op.key \in Keys /\ op.slot \in Nat \ {0}
           /\ Request = [kind |-> "remove", key |-> op.key]
           /\ Passed(op.slot, op.key, Page(2).cells)
<1>1. op.kind = "remove"
  BY DEF RemovingFrom
<1>2. root # Nil /\ op.leaf \in Ids(n) /\ op.key \in Keys /\ op.slot \in Nat \ {0}
  BY <1>1, Calls DEF Serving, Lone
<1> QED
  BY <1>1, <1>2, LoneLeaf, RequestIs DEF Serving, RequestKnown

LEMMA NewServing ==
    ASSUME NEW n, Lone(n)', op'.kind # "remove" \/ Passed(op.slot, op.key, Page(2).cells)'
    PROVE  Serving(n)'
BY DEF Serving

LEMMA OpKindsOfCalls ==
    /\ Idle.kind # "remove"
    /\ \A c \in Inserting : c.kind # "remove"
BY DEF Idle, Inserting

LEMMA StartInsertServes ==
    ASSUME NEW n, Serving(n), NEW k \in Keys, StartInsert(k)
    PROVE  Asks /\ \E m : Serving(m)'
<1>1. Shape(n) /\ op' = [kind |-> "insert", key |-> k] /\ op' \in Inserting
  BY StartInsertDoes DEF Serving, Lone
<1>2. Request \in {Idle, Failed} /\ Request' = [kind |-> "insert", key |-> k]
  <2>1. Request \in {Idle, Failed}
    BY DEF StartInsert, Request, AtRest
  <2>2. Request' = [kind |-> "insert", key |-> op'.key] /\ op'.key = k
    BY <1>1, RequestThenIs DEF RequestKnown
  <2> QED
    BY <2>1, <2>2
<1>3. \E m : Lone(m)'
  BY StartInsertLone DEF Serving
<1>4. RowsSeen
  <2>1. CASE root # Nil
    <3>1. root' = root /\ pages' = pages
      BY <1>1, <2>1, StartInsertDoes
    <3> QED
      BY <3>1, SameRows DEF Page
  <2>2. CASE root = Nil
    <3>1. pages'[1] = EmptyLeaf
      BY <1>1, <2>2, StartInsertDoes
    <3>2. Page(2)'.cells = <<>>
      BY <3>1 DEF Page, EmptyLeaf
    <3>3. \A key \in Keys : ~HasRow(key)' /\ ~HasRow(key)
      BY <1>3, <2>2, <3>2, EmptyIsTidy, LoneRowsThenAre DEF HasRow, LoneRowsKnown, LoneRow
    <3> QED
      BY <3>3 DEF RowsSeen
  <2> QED
    BY <2>1, <2>2
<1>5. op'.kind # "remove"
  BY <1>1
<1> QED
  BY <1>2, <1>4, <1>3, <1>5, NewServing DEF Asks

LEMMA StartRemoveServes ==
    ASSUME NEW n, Serving(n), NEW k \in Keys, StartRemove(k)
    PROVE  Asks /\ Serving(n)'
<1> PICK cells : cells = Page(2).cells
  OBVIOUS
<1>1. /\ Shape(n) /\ Lone(n) /\ UNCHANGED <<pages, root, free, orphans>>
      /\ op' = [kind |-> "remove", key |-> k, leaf |-> Search(k).leaf, slot |-> Search(k).slot]
      /\ Search(k).leaf \in Ids(n) /\ Search(k) # Nowhere
      /\ Shape(n)'
  BY StartRemoveDoes DEF Serving, Lone, StartRemove
<1>2. Search(k).leaf = 2 /\ Search(k).slot = FirstSlot(cells, k) /\ root # Nil
  <2>1. root # Nil /\ Search(k).slot = FirstSlot(Page(Search(k).leaf).cells, k)
    BY <1>1, SearchIs
  <2>2. Search(k).leaf = 2
    BY <1>1, <2>1, LoneLeaf
  <2> QED
    BY <2>1, <2>2
<1>3. op'.kind = "remove" /\ op'.key = k /\ op'.slot = FirstSlot(cells, k) /\ op'.leaf = 2
  BY <1>1, <1>2
<1>4. Request \in {Idle, Failed} /\ Request' = [kind |-> "remove", key |-> k]
  <2>1. Request \in {Idle, Failed}
    BY DEF StartRemove, Request, AtRest
  <2>2. op' # Idle /\ op' # Failed
    BY <1>3 DEF Idle, Failed
  <2> QED
    BY <1>3, <2>1, <2>2 DEF Request, AtRest
<1>5. RowsSeen
  BY <1>1, SameRows DEF Page
<1>6. Passed(op.slot, op.key, Page(2).cells)'
  <2>1. cells \in Seq(LeafCell) /\ Sorted(cells)
    BY <1>1, <1>2, LoneLeaf
  <2>2. \A i \in 1..Len(cells) : cells[i].key < k <=> i < FirstSlot(cells, k)
    BY <2>1, KeysAreNumbers, FirstSlotSplits
  <2>3. \A i \in 1..Len(cells) : i < FirstSlot(cells, k) => cells[i].key # k
    <3>1. k \in Nat
      BY KeysAreNumbers
    <3> QED
      BY <2>2, <3>1
  <2>4. Page(2)'.cells = cells
    BY <1>1 DEF Page
  <2> QED
    BY <1>3, <2>3, <2>4 DEF Passed
<1>7. Lone(n)'
  <2>1. op' # Failed /\ op'.kind # "insert"
    BY <1>3 DEF Failed
  <2>2. Tidy(Page(2).cells)'
    BY <1>1, <1>2 DEF Lone, Page
  <2> QED
    BY <1>1, <2>1, <2>2, LoneStays
<1> QED
  BY <1>4, <1>5, <1>6, <1>7, NewServing DEF Asks

LEMMA InsertIntoLeafServes ==
    ASSUME NEW n, Serving(n), InsertIntoLeaf
    PROVE  Adds /\ Serving(n)'
<1>0. Shape(n) /\ Lone(n) /\ op.kind = "insert" /\ op' = Idle /\ root' = root
  BY DEF Serving, Lone, InsertIntoLeaf
<1>1. root # Nil /\ op \in Inserting /\ op.key \in Keys
  BY <1>0, Calls
<1> PICK k \in Keys : k = op.key
  BY <1>1
<1> PICK cells : cells = Page(2).cells
  OBVIOUS
<1> PICK e : e = [key |-> k, deleted |-> FALSE]
  OBVIOUS
<1>2. PICK p, page : /\ p = LeafFor(k) /\ Rewritten(n, p, page)
                     /\ Inserted(page.cells, Page(p).cells, FirstSlot(Page(p).cells, k), e)
  BY <1>0, InsertIntoLeafDoes
<1>3. p = 2 /\ cells \in Seq(LeafCell) /\ Ids(n) = {2} /\ NoRowOf(k, cells)
  BY <1>0, <1>1, <1>2, LoneLeaf DEF Lone
<1>4. Page(2)'.cells = page.cells
  BY <1>2, <1>3 DEF Rewritten, Page
<1> PICK more : more = page.cells
  OBVIOUS
<1>5. Inserted(more, cells, FirstSlot(cells, k), e) /\ e.key = k /\ ~e.deleted /\ Len(cells) \in Nat
  BY <1>2, <1>3, LenProperties
<1>6. ~NoRowOf(k, more) /\ \A key \in Keys \ {k} : NoRowOf(key, more) <=> NoRowOf(key, cells)
  BY <1>5, RowsOfInserted
<1>7. Lone(n)'
  BY <1>0, InsertIntoLeafLone
<1>8. RowsSeenBut(k) /\ ~HasRow(k) /\ HasRow(k)'
  BY <1>0, <1>1, <1>3, <1>4, <1>6, <1>7, LoneRowsAre, LoneRowsThenAre DEF RowsSeenBut, LoneRowsKnown, LoneRow
<1>9. Request = [kind |-> "insert", key |-> k] /\ Request' = Idle
  BY <1>0, <1>1, RequestIs, RequestThenIs DEF RequestKnown
<1>10. Serving(n)'
  BY <1>0, <1>7, NewServing, OpKindsOfCalls
<1> QED
  BY <1>8, <1>9, <1>10 DEF Adds

LEMMA RemoveMarkServes ==
    ASSUME NEW n, Serving(n), RemoveMark
    PROVE  TakesOut /\ Serving(n)'
<1> PICK k : k = op.key
  OBVIOUS
<1> PICK marked : marked = Marked.cells
  OBVIOUS
<1>1. /\ Shape(n) /\ Lone(n) /\ AtLiveKey /\ Rewritten(n, op.leaf, Marked)
      /\ op' \in RemovingFrom(Ids(n)) /\ UNCHANGED <<root, free, orphans>>
      /\ op' = [op EXCEPT !.slot = @ + 1] /\ Lone(n)'
  BY RemoveMarkDoes, RemoveMarkLone DEF Serving, Lone, RemoveMark
<1>2. op \in RemovingFrom(Ids(n)) /\ Marking(marked, Page(op.leaf).cells, op.slot, k)
  BY <1>1, MarkedDoes
<1>3. /\ root # Nil /\ Ids(n) = {2} /\ op.leaf = 2 /\ k \in Keys
      /\ Request = [kind |-> "remove", key |-> k]
  BY <1>2, RemovalOf
<1>4. op'.key = k
  BY <1>1, <1>2 DEF RemovingFrom
<1>5. Request' = Request
  BY <1>1, <1>3, <1>4, RequestThenIs DEF RequestKnown
<1>6. NoRowOf(k, marked) /\ \A key \in Keys \ {k} : NoRowOf(key, marked) <=> NoRowOf(key, Page(2).cells)
  <2>1. FirstIsLive(Page(2).cells)
    BY <1>1, <1>3 DEF Lone, Tidy
  <2> QED
    BY <1>2, <1>3, <2>1, RowsOfMarked
<1>7. Page(2)'.cells = marked
  BY <1>1, <1>3 DEF Rewritten, Page
<1>8. RowsSeenBut(k) /\ ~HasRow(k)'
  BY <1>1, <1>6, <1>7, LoneRowsAre, LoneRowsThenAre DEF RowsSeenBut, LoneRowsKnown, LoneRow
<1>9. Passed(op.slot, op.key, Page(2).cells)'
  BY <1>4, <1>6, <1>7 DEF Passed, NoRowOf
<1> QED
  BY <1>1, <1>3, <1>5, <1>8, <1>9, NewServing DEF TakesOut

LEMMA RemovePurgeServes ==
    ASSUME NEW n, Serving(n), RemovePurge
    PROVE  TakesOut /\ Serving(n)'
<1> PICK k : k = op.key
  OBVIOUS
<1> PICK marked : marked = Marked.cells
  OBVIOUS
<1> PICK live : live = Purged.cells
  OBVIOUS
<1>1. /\ Shape(n) /\ Lone(n) /\ AtLiveKey /\ op \in RemovingFrom(Ids(n)) /\ Rewritten(n, op.leaf, Purged)
      /\ UNCHANGED <<root, free, op, orphans>> /\ Lone(n)'
  BY RemovePurgeDoes, RemovePurgeLone DEF Serving, Lone
<1>2. Marking(marked, Page(op.leaf).cells, op.slot, k)
  BY <1>1, MarkedDoes
<1>3. /\ root # Nil /\ Ids(n) = {2} /\ op.leaf = 2 /\ k \in Keys
      /\ Request = [kind |-> "remove", key |-> k]
  BY <1>1, RemovalOf
<1>4. Request' = Request
  BY <1>1 DEF Request, AtRest
<1>5. NoRowOf(k, marked) /\ \A key \in Keys \ {k} : NoRowOf(key, marked) <=> NoRowOf(key, Page(2).cells)
  <2>1. FirstIsLive(Page(2).cells)
    BY <1>1, <1>3 DEF Lone, Tidy
  <2> QED
    BY <1>2, <1>3, <2>1, RowsOfMarked
<1>6. PICK at : Unmarked(live, marked, Len(marked), at)
  BY <1>1, PurgedDoes
<1>7. \A key : NoRowOf(key, live) <=> NoRowOf(key, marked)
  BY <1>6, RowsOfLive
<1>8. Page(2)'.cells = live
  BY <1>1, <1>3 DEF Rewritten, Page
<1>9. RowsSeenBut(k) /\ ~HasRow(k)'
  BY <1>1, <1>5, <1>7, <1>8, LoneRowsAre, LoneRowsThenAre DEF RowsSeenBut, LoneRowsKnown, LoneRow
<1>10. Passed(op.slot, op.key, Page(2).cells)'
  <2>1. NoRowOf(k, live)
    BY <1>5, <1>7
  <2> QED
    BY <1>1, <1>8, <2>1 DEF Passed, NoRowOf
<1> QED
  BY <1>1, <1>3, <1>4, <1>9, <1>10, NewServing DEF TakesOut

LEMMA RemoveFreeServes ==
    ASSUME NEW n, Serving(n), RemoveFree
    PROVE  TakesOut /\ Serving(n)'
<1> PICK k : k = op.key
  OBVIOUS
<1> PICK marked : marked = Marked.cells
  OBVIOUS
<1>1. /\ Shape(n) /\ Lone(n) /\ Alone(n) /\ AtLiveKey /\ op \in RemovingFrom(Ids(n)) /\ Purged.cells = <<>>
      /\ op' = Idle \/ (op' \in RemovingFrom(Ids(n)) /\ op'.leaf = Page(op.leaf).next)
      /\ root' = Nil /\ Lone(n)'
  BY RemoveFreeDoes, RemoveFreeLone DEF Serving, Lone
<1>2. Marking(marked, Page(op.leaf).cells, op.slot, k)
  BY <1>1, MarkedDoes
<1>3. /\ root # Nil /\ Ids(n) = {2} /\ op.leaf = 2 /\ k \in Keys
      /\ Request = [kind |-> "remove", key |-> k]
  BY <1>1, RemovalOf
<1>4. op' = Idle
  <2>1. Page(2).next = Nil /\ \A c \in RemovingFrom(Ids(n)) : c.leaf = 2
    BY <1>1, <1>3, LoneLeaf DEF RemovingFrom
  <2> QED
    BY <1>1, <1>3, <2>1 DEF Nil
<1>5. Request' = Idle
  BY <1>4, RequestThenIs DEF RequestKnown
<1>6. \A key \in Keys \ {k} : NoRowOf(key, Page(2).cells)
  <2>1. FirstIsLive(Page(2).cells)
    BY <1>1, <1>3 DEF Lone, Tidy
  <2>2. PICK at : Unmarked(<<>>, marked, Len(marked), at)
    BY <1>1, PurgedDoes
  <2>3. \A key : NoRowOf(key, marked)
    BY <2>2, RowsOfLive, EmptyIsTidy
  <2> QED
    BY <1>2, <1>3, <2>1, <2>3, RowsOfMarked
<1>7. RowsSeenBut(k) /\ ~HasRow(k)'
  BY <1>1, <1>6, LoneRowsAre, LoneRowsThenAre DEF RowsSeenBut, LoneRowsKnown, LoneRow
<1>8. Serving(n)'
  BY <1>1, <1>4, NewServing, OpKindsOfCalls
<1> QED
  BY <1>3, <1>5, <1>7, <1>8 DEF TakesOut

LEMMA RemoveEndServes ==
    ASSUME NEW n, Serving(n), RemoveNextLeaf \/ RemoveDone
    PROVE  TakesOut /\ Serving(n)'
<1> PICK k : k = op.key
  OBVIOUS
<1> PICK slot : slot = op.slot
  OBVIOUS
<1> PICK cells : cells = Page(2).cells
  OBVIOUS
<1>1. /\ Shape(n) /\ Lone(n) /\ UNCHANGED <<pages, root, free, orphans>> /\ op \in RemovingFrom(Ids(n))
      /\ Shape(n)'
  BY MovesShape DEF Serving, Lone
<1>2. /\ root # Nil /\ Ids(n) = {2} /\ op.leaf = 2 /\ k \in Keys /\ slot \in Nat \ {0}
      /\ Request = [kind |-> "remove", key |-> k] /\ Passed(slot, k, cells)
  BY <1>1, RemovalOf
<1>3. cells \in Seq(LeafCell) /\ Sorted(cells) /\ Page(2).next = Nil
  BY <1>1, <1>2, LoneLeaf
<1> PICK N \in Nat : N = Len(cells) /\ DOMAIN cells = 1..N
  BY <1>3, LenProperties
<1>0. ASSUME NoRowOf(k, cells), op' = Idle PROVE TakesOut /\ Serving(n)'
  <2>1. RowsSeen
    BY <1>1, SameRows DEF Page
  <2>2. Lone(n)'
    BY <1>0, <1>1, SamePagesLone
  <2>3. ~HasRow(k)'
    BY <1>0, <1>1, <2>2, LoneRowsThenAre DEF LoneRowsKnown, LoneRow, Page
  <2>4. Request' = Idle
    BY <1>0, RequestThenIs DEF RequestKnown
  <2>5. Serving(n)'
    BY <1>0, <2>2, NewServing, OpKindsOfCalls
  <2>6. RowsSeenBut(k)
    BY <2>1 DEF RowsSeen, RowsSeenBut
  <2> QED
    BY <1>2, <2>3, <2>4, <2>5, <2>6 DEF TakesOut
<1>4. CASE RemoveNextLeaf
  <2>1. ~(slot <= N) /\ OnTo(Page(2).next)
    BY <1>2, <1>4 DEF RemoveNextLeaf, AtSlot
  <2>2. \A i \in 1..N : i < slot
    BY <1>2, <2>1
  <2>3. NoRowOf(k, cells)
    BY <1>2, <2>2 DEF Passed, NoRowOf
  <2>4. op' = Idle
    BY <1>3, <2>1 DEF OnTo
  <2> QED
    BY <2>3, <2>4, <1>0
<1>5. CASE RemoveDone
  <2>1. slot <= N /\ cells[slot].key > k /\ op' = Idle
    BY <1>2, <1>5 DEF RemoveDone, AtSlot, Cell
  <2>2. slot \in 1..N
    BY <1>2, <2>1
  <2>3. k \in Nat /\ \A i \in 1..N : cells[i].key \in Nat
    BY <1>2, <1>3, KeysAreNumbers, ElementOfSeq
  <2>4. \A i \in 1..N : ~(i < slot) => cells[i].key # k
    <3> SUFFICES ASSUME NEW i \in 1..N, ~(i < slot) PROVE cells[i].key > k
      BY <2>3
    <3>1. i = slot \/ slot < i
      BY <2>2
    <3>2. slot < i => cells[slot].key <= cells[i].key
      BY <1>3, <2>2 DEF Sorted
    <3> QED
      BY <2>1, <2>2, <2>3, <3>1, <3>2
  <2>5. NoRowOf(k, cells)
    BY <1>2, <2>4 DEF Passed, NoRowOf
  <2> QED
    BY <1>0, <2>1, <2>5
<1> QED
  BY <1>4, <1>5

LEMMA RemoveSkipServes ==
    ASSUME NEW n, Serving(n), RemoveSkip
    PROVE  Stutters /\ Serving(n)'
<1> PICK k : k = op.key
  OBVIOUS
<1> PICK slot : slot = op.slot
  OBVIOUS
<1> PICK cells : cells = Page(2).cells
  OBVIOUS
<1>1. /\ Shape(n) /\ Lone(n) /\ UNCHANGED <<pages, root, free, orphans>> /\ op \in RemovingFrom(Ids(n))
      /\ Shape(n)'
  BY MovesShape DEF Serving, Lone, RemoveSkip
<1>2. /\ root # Nil /\ Ids(n) = {2} /\ op.leaf = 2 /\ k \in Keys /\ slot \in Nat \ {0}
      /\ Request = [kind |-> "remove", key |-> k] /\ Passed(slot, k, cells)
  BY <1>1, RemovalOf
<1>3. cells \in Seq(LeafCell)
  BY <1>1, <1>2, LoneLeaf
<1>4. op' \in RemovingFrom(Ids(n)) /\ op'.key = k /\ op'.slot = slot + 1
  <2>1. op' = [op EXCEPT !.slot = slot + 1] /\ slot + 1 \in Nat \ {0}
    BY <1>2 DEF RemoveSkip
  <2> QED
    BY <1>1, <2>1 DEF RemovingFrom
<1>5. Request' = Request
  BY <1>2, <1>4, RequestThenIs DEF RequestKnown
<1>6. RowsSeen
  BY <1>1, SameRows DEF Page
<1>7. slot \in 1..Len(cells) /\ (cells[slot].key = k => cells[slot].deleted)
  <2>1. slot \in 1..Len(cells) /\ cells[slot] # [key |-> k, deleted |-> FALSE]
    BY <1>2, <1>3, LenProperties DEF RemoveSkip, AtLiveKey, AtSlot, Removing, Cell
  <2>2. cells[slot] \in LeafCell
    BY <1>3, <2>1, ElementOfSeq
  <2> PICK c : c = cells[slot]
    OBVIOUS
  <2>3. c = [key |-> c.key, deleted |-> c.deleted] /\ c.deleted \in BOOLEAN
    BY <2>2 DEF LeafCell
  <2> QED
    BY <2>1, <2>3
<1>8. Passed(slot + 1, k, cells)
  <2> SUFFICES ASSUME NEW i \in 1..Len(cells), i < slot + 1, cells[i].key = k PROVE cells[i].deleted
    BY DEF Passed
  <2>1. i < slot \/ i = slot
    BY <1>2
  <2> QED
    BY <1>2, <1>7, <2>1 DEF Passed
<1>9. Passed(op.slot, op.key, Page(2).cells)'
  BY <1>1, <1>4, <1>8 DEF Page
<1>10. Lone(n)'
  BY <1>1, <1>4, SamePagesLone
<1> QED
  BY <1>5, <1>6, <1>9, <1>10, NewServing DEF Stutters

LEMMA NextServes ==
    ASSUME OneLeafIsEnough \/ OneLeaf', IsServing, [Next]_vars
    PROVE  IsServing' /\ (Stutters \/ Asks \/ Adds \/ TakesOut)
<1> PICK n : Serving(n)
  BY DEF IsServing
<1>0. Lone(n) /\ \A m : Serving(m)' => IsServing'
  BY DEF Serving, IsServing
<1>1. CASE UNCHANGED vars
  <2>1. Serving(n)'
    BY <1>1 DEF vars, Serving, Lone, Shape, Alone, Branched, Page
  <2>2. RowsSeen /\ Request' = Request
    BY <1>1, SameRows DEF vars, Page, Request, AtRest
  <2> QED
    BY <1>0, <2>1, <2>2 DEF Stutters
<1>2. ASSUME NEW k \in Keys, StartInsert(k) PROVE IsServing' /\ Asks
  BY <1>0, <1>2, StartInsertServes
<1>3. ASSUME NEW k \in Keys, StartRemove(k) PROVE IsServing' /\ Asks
  BY <1>0, <1>3, StartRemoveServes
<1>4. CASE InsertIntoLeaf
  BY <1>0, <1>4, InsertIntoLeafServes
<1>5. CASE ThrowInSplit \/ SplitRoot \/ SplitBelowRoot
  BY <1>0, <1>5, NoSplit
<1>6. CASE RemoveNextLeaf \/ RemoveDone
  BY <1>0, <1>6, RemoveEndServes
<1>7. CASE RemoveSkip
  BY <1>0, <1>7, RemoveSkipServes
<1>8. CASE RemoveMark
  BY <1>0, <1>8, RemoveMarkServes
<1>9. CASE RemovePurge
  BY <1>0, <1>9, RemovePurgeServes
<1>10. CASE RemoveFree
  BY <1>0, <1>10, RemoveFreeServes
<1> QED
  BY <1>1, <1>2, <1>3, <1>4, <1>5, <1>6, <1>7, <1>8, <1>9, <1>10 DEF Next, InsertStep, RemoveStep

LEMMA InitServing == Init => IsServing
<1> SUFFICES ASSUME Init PROVE IsServing
  OBVIOUS
<1>1. PICK n : Lone(n)
  BY InitLone DEF IsLone
<1>2. op.kind # "remove"
  BY OpKindsOfCalls DEF Init
<1> QED
  BY <1>1, <1>2 DEF Serving, IsServing

LEMMA ServingIsLone == IsServing => IsLone
BY DEF IsServing, IsLone, Serving

(* The rows that RowStore would keep.                                      *)
RowsOf == [k \in Keys |-> IF HasRow(k) THEN 1 ELSE 0]

FoundKeys == {k \in Keys : HasRow(k)}

BothSee ==
    /\ [k \in Keys |-> Cardinality(Scanned(k))] = RowsOf
    /\ {k \in Keys : KeyExists(k)} = FoundKeys

SeenAlike == IsServing => BothSee

LEMMA AllSeeAlike == SeenAlike
<1> SUFFICES ASSUME IsServing PROVE SeenAlike
  BY DEF SeenAlike
<1>1. \A k \in Keys : /\ KeyExists(k) <=> HasRow(k)
                      /\ Cardinality(Scanned(k)) = IF HasRow(k) THEN 1 ELSE 0
  BY ServingIsLone, LookupsAreRight, ScansAreRight DEF LookupsAgree, ScansAgree
<1> QED
  BY <1>1 DEF SeenAlike, BothSee, RowsOf, FoundKeys

LEMMA AllSeeAlikeThen == SeenAlike'
BY AllSeeAlike, PTL

LEMMA RowsOfSteps ==
    /\ RowsSeen => RowsOf' = RowsOf
    /\ \A key \in Keys : RowsSeenBut(key) /\ ~HasRow(key)' => RowsOf' = [RowsOf EXCEPT ![key] = 0]
    /\ \A key \in Keys : RowsSeenBut(key) /\ ~HasRow(key) /\ HasRow(key)' =>
                            RowsOf' = [RowsOf EXCEPT ![key] = @ + 1]
<1>1. RowsOf = [k \in Keys |-> IF HasRow(k) THEN 1 ELSE 0]
  BY DEF RowsOf
<1>2. RowsOf' = [k \in Keys |-> IF HasRow(k)' THEN 1 ELSE 0]
  BY DEF RowsOf
<1>3. RowsSeen => RowsOf' = RowsOf
  BY <1>1, <1>2 DEF RowsSeen
<1>4. ASSUME NEW key \in Keys, RowsSeenBut(key), ~HasRow(key)'
      PROVE  RowsOf' = [RowsOf EXCEPT ![key] = 0]
  <2>1. \A k \in Keys : (IF HasRow(k)' THEN 1 ELSE 0) = IF k = key THEN 0 ELSE IF HasRow(k) THEN 1 ELSE 0
    BY <1>4 DEF RowsSeenBut
  <2> HIDE DEF RowsOf
  <2> QED
    BY <1>1, <1>2, <2>1
<1>5. ASSUME NEW key \in Keys, RowsSeenBut(key), ~HasRow(key), HasRow(key)'
      PROVE  RowsOf' = [RowsOf EXCEPT ![key] = @ + 1]
  <2>1. \A k \in Keys : (IF HasRow(k)' THEN 1 ELSE 0) = IF k = key THEN 1 ELSE IF HasRow(k) THEN 1 ELSE 0
    BY <1>5 DEF RowsSeenBut
  <2>2. RowsOf[key] + 1 = 1
    BY <1>1, <1>5
  <2>3. RowsOf' = [RowsOf EXCEPT ![key] = 1]
    BY <1>1, <1>2, <2>1
  <2> QED
    BY <2>2, <2>3
<1> QED
  BY <1>3, <1>4, <1>5

LEMMA FoundOfSteps ==
    /\ RowsSeen => FoundKeys' = FoundKeys
    /\ \A key \in Keys : RowsSeenBut(key) /\ ~HasRow(key)' => FoundKeys' = FoundKeys \ {key}
    /\ \A key \in Keys : RowsSeenBut(key) /\ HasRow(key)' => FoundKeys' = FoundKeys \union {key}
<1>1. FoundKeys' = {k \in Keys : HasRow(k)'}
  BY DEF FoundKeys
<1> QED
  BY <1>1 DEF FoundKeys, RowsSeen, RowsSeenBut

(* The variables of the row store, and one step of it.                     *)
TableVars == <<[k \in Keys |-> Cardinality(Scanned(k))], {k \in Keys : KeyExists(k)}, Request>>

LEMMA TableStep ==
    ASSUME BothSee, BothSee', Stutters \/ Asks \/ Adds \/ TakesOut
    PROVE  [Table!Next]_TableVars
<1> DEFINE scanned == [k \in Keys |-> Cardinality(Scanned(k))]
           found == {k \in Keys : KeyExists(k)}
<1>1. scanned = RowsOf /\ scanned' = RowsOf' /\ found = FoundKeys /\ found' = FoundKeys'
  BY DEF BothSee
<1>2. Table!Done = Idle /\ Table!Refused = Failed
  BY DEF Table!Done, Table!Refused, Idle, Failed
<1>7. TableVars = <<scanned, found, Request>> /\ TableVars' = <<scanned', found', Request'>>
  BY DEF TableVars
<1> HIDE DEF scanned, found
<1>3. CASE Stutters
  <2>1. scanned' = scanned /\ found' = found /\ Request' = Request
    BY <1>1, <1>3, RowsOfSteps, FoundOfSteps DEF Stutters
  <2> QED
    BY <1>7, <2>1
<1>4. CASE Asks
  <2>1. Request' \in Table!Requests
    BY <1>4 DEF Asks, Table!Requests
  <2>2. scanned' = scanned /\ found' = found /\ Request \in {Idle, Failed}
    BY <1>1, <1>4, RowsOfSteps, FoundOfSteps DEF Asks
  <2>3. Table!Ask
    BY <1>2, <2>1, <2>2 DEF Table!Ask, scanned, found
  <2> QED
    BY <2>3 DEF Table!Next
<1>5. CASE Adds
  <2>1. PICK key \in Keys : /\ Request = [kind |-> "insert", key |-> key] /\ Request' = Idle
                            /\ RowsSeenBut(key) /\ ~HasRow(key) /\ HasRow(key)'
    BY <1>5 DEF Adds
  <2>2. Request \in Table!Requests /\ Request.kind = "insert" /\ Request.key = key
    BY <2>1 DEF Table!Requests
  <2>3. scanned' = [scanned EXCEPT ![key] = @ + 1] /\ found' = found \union {key}
    BY <1>1, <2>1, RowsOfSteps, FoundOfSteps
  <2>4. Table!Insert
    BY <1>2, <2>1, <2>2, <2>3 DEF Table!Insert, scanned, found
  <2> QED
    BY <2>4 DEF Table!Next
<1>6. CASE TakesOut
  <2>1. PICK key \in Keys : /\ Request = [kind |-> "remove", key |-> key] /\ Request' \in {Request, Idle}
                            /\ RowsSeenBut(key) /\ ~HasRow(key)'
    BY <1>6 DEF TakesOut
  <2>2. Request \in Table!Requests /\ Request.kind = "remove" /\ Request.key = key
    BY <2>1 DEF Table!Requests
  <2>3. scanned' = [scanned EXCEPT ![key] = 0] /\ found' = found \ {key}
    BY <1>1, <2>1, RowsOfSteps, FoundOfSteps
  <2>4. Table!Remove
    BY <1>2, <2>1, <2>2, <2>3 DEF Table!Remove, scanned, found
  <2> QED
    BY <2>4 DEF Table!Next
<1> QED
  BY <1>3, <1>4, <1>5, <1>6

LEMMA InitSeesNoRows ==
    Init => Table!Init
<1> SUFFICES ASSUME Init PROVE Table!Init
  OBVIOUS
<1>1. RowsOf = [k \in Keys |-> 0] /\ FoundKeys = {}
  BY DEF Init, RowsOf, FoundKeys, HasRow
<1>2. Request = Idle
  BY DEF Init, Request, AtRest
<1>3. /\ [k \in Keys |-> Cardinality(Scanned(k))] = RowsOf
      /\ {k \in Keys : KeyExists(k)} = FoundKeys
  BY InitServing, AllSeeAlike DEF SeenAlike, BothSee
<1> QED
  BY <1>1, <1>2, <1>3 DEF Table!Init, Table!Done, Idle

(* Until the first split scans and lookups by key see the same rows, those *)
(* of a row store: each request is answered by one change, of the rows     *)
(* under its own key, and marks, purges and the freeing and reuse of the   *)
(* page are invisible (bplustree.h:34-48).                                 *)
THEOREM OneLeafIsARowStore == Spec /\ []OneLeaf => RowsAreSeen
<1>1. Init => IsServing /\ Table!Init
  BY InitServing, InitSeesNoRows
<1>2. OneLeaf' /\ IsServing /\ [Next]_vars => IsServing'
  BY NextServes
<1>3. OneLeaf' /\ IsServing /\ IsServing' /\ [Next]_vars => [Table!Next]_TableVars
  BY NextServes, AllSeeAlike, AllSeeAlikeThen, TableStep DEF SeenAlike
<1> QED
  BY <1>1, <1>2, <1>3, PTL
     DEF Spec, RowsAreSeen, Table!Spec, TableVars

(* The first split never comes when all keys fit in one leaf besides the   *)
(* records that wait for a purge, however often rows are inserted and      *)
(* removed, so that both hold for good (bplustree.cpp:178-243).            *)
THEOREM FewKeysNeedOneLeaf ==
    ASSUME OneLeafIsEnough
    PROVE  Spec => []OneLeaf /\ []SpaceIsReused /\ RowsAreSeen
<1>1. IsLone /\ [Next]_vars => IsLone'
  BY NextLone
<1> QED
  BY <1>1, InitLone, LoneIsOneLeaf, OneLeafReusesSpace, OneLeafIsARowStore, PTL DEF Spec

-----------------------------------------------------------------------------
(* Keys that only ascend, as those of an auto-increment column do: every   *)
(* insertion and every split is in the last leaf.                          *)

(* Each new key is greater than all others, a full leaf leaves room in     *)
(* both halves, the root page holds a separator for every leaf but one,    *)
(* and deletions purge at once and spare the last row of a leaf below the  *)
(* root.                                                                   *)
KeysAscend ==
    /\ Appending /\ LeafCap >= 2 /\ MaxPages <= InternalCap + 1
    /\ Deleting => Sparing /\ PurgeAt = 1

(* The records of the leaves, C[1] to C[c], in the order of the leaves.    *)
Rises(cells) == \A s, t \in 1..Len(cells) : s < t => cells[s].key < cells[t].key
Below(these, those) ==
    \A s \in 1..Len(these), t \in 1..Len(those) : these[s].key < those[t].key
AllBelow(cells, k) == \A s \in 1..Len(cells) : cells[s].key < k
AllFrom(cells, k) == \A s \in 1..Len(cells) : k <= cells[s].key
NoKey(cells, k) == \A s \in 1..Len(cells) : cells[s].key # k

NoneMarked(cells) == \A i \in 1..Len(cells) : ~cells[i].deleted
GoodLeaf(cells) == cells \in Seq(LeafCell) /\ NoneMarked(cells) /\ Rises(cells)

Ordered(C, c) ==
    /\ \A i \in 1..c : GoodLeaf(C[i]) /\ (c >= 2 => Len(C[i]) >= 1)
    /\ \A i, j \in 1..c : i < j => Below(C[i], C[j])

(* The separators of the root page part the leaves before them from those  *)
(* after them.                                                             *)
Parts(key, u, C, c) ==
    \A i \in 1..c : (i <= u => AllBelow(C[i], key)) /\ (u < i => AllFrom(C[i], key))
Separated(cells, C, c) ==
    Len(cells) = c - 1 /\ \A u \in 1..(c - 1) : Parts(cells[u].key, u, C, c)

(* Some leaf has a record with key k.                                      *)
Found(C, c, k) == \E i \in 1..c : ~NoKey(C[i], k)

LEMMA CellKeys ==
    ASSUME NEW cells \in Seq(LeafCell)
    PROVE  Len(cells) \in Nat /\ \A s \in 1..Len(cells) : cells[s] \in LeafCell /\ cells[s].key \in Nat
BY KeysAreNumbers, ElementOfSeq

(* A greatest key becomes the last record of the last leaf.                *)
AtTheEnd(D, C, c, k) ==
    /\ \A i \in 1..c : i # c => D[i] = C[i]
    /\ D[c] \in Seq(LeafCell)
    /\ Inserted(D[c], C[c], Len(C[c]) + 1, [key |-> k, deleted |-> FALSE])

LEMMA EndOfLeaf ==
    ASSUME NEW cells, GoodLeaf(cells), NEW k \in Nat, AllBelow(cells, k), NEW more \in Seq(LeafCell),
           Inserted(more, cells, Len(cells) + 1, [key |-> k, deleted |-> FALSE])
    PROVE  /\ GoodLeaf(more) /\ Len(more) = Len(cells) + 1
           /\ \A s \in 1..Len(cells) : more[s] = cells[s]
           /\ more[Len(cells) + 1].key = k
           /\ \A q : NoKey(more, q) <=> NoKey(cells, q) /\ q # k
<1> PICK N : N = Len(cells)
  OBVIOUS
<1>1. N \in Nat /\ Len(more) = N + 1 /\ \A s \in 1..N : cells[s].key \in Nat
  BY CellKeys DEF GoodLeaf, Inserted
<1>2. /\ \A s \in 1..N : more[s] = cells[s]
      /\ more[N + 1].key = k /\ ~more[N + 1].deleted
  <2>1. \A s \in 1..(N + 1) : more[s] = IF s < N + 1 THEN cells[s]
                                        ELSE IF s = N + 1 THEN [key |-> k, deleted |-> FALSE]
                                        ELSE cells[s - 1]
    BY DEF Inserted
  <2>2. \A s \in 1..N : s \in 1..(N + 1) /\ s < N + 1
    BY <1>1
  <2>3. N + 1 \in 1..(N + 1) /\ ~(N + 1 < N + 1)
    BY <1>1
  <2> QED
    BY <2>1, <2>2, <2>3
<1>3. \A s \in 1..(N + 1) : s \in 1..N \/ s = N + 1
  BY <1>1
<1>4. NoneMarked(more)
  BY <1>1, <1>2, <1>3 DEF NoneMarked, GoodLeaf
<1>5. Rises(more)
  <2> SUFFICES ASSUME NEW s \in 1..(N + 1), NEW t \in 1..(N + 1), s < t PROVE more[s].key < more[t].key
    BY <1>1 DEF Rises
  <2>1. s \in 1..N
    BY <1>1, <1>3
  <2>2. t \in 1..N => cells[s].key < cells[t].key
    BY <2>1 DEF GoodLeaf, Rises
  <2>3. cells[s].key < k
    BY <2>1 DEF AllBelow
  <2> QED
    BY <1>2, <1>3, <2>1, <2>2, <2>3
<1>6. \A q : NoKey(more, q) <=> NoKey(cells, q) /\ q # k
  <2> TAKE q
  <2>1. \A s \in 1..N : s \in 1..(N + 1)
    BY <1>1
  <2>2. N + 1 \in 1..(N + 1)
    BY <1>1
  <2> QED
    BY <1>1, <1>2, <1>3, <2>1, <2>2 DEF NoKey
<1> QED
  BY <1>1, <1>2, <1>4, <1>5, <1>6 DEF GoodLeaf

LEMMA OrderedAtTheEnd ==
    ASSUME NEW C, NEW c \in Nat \ {0}, Ordered(C, c), NEW k \in Nat, \A i \in 1..c : AllBelow(C[i], k),
           NEW D, AtTheEnd(D, C, c, k)
    PROVE  /\ Ordered(D, c) /\ Len(D[c]) = Len(C[c]) + 1
           /\ ~Found(C, c, k) /\ Found(D, c, k)
           /\ \A q : q # k => (Found(D, c, q) <=> Found(C, c, q))
           /\ \A cells : (\A u \in 1..(c - 1) : cells[u].key \in Nat) /\ Separated(cells, C, c)
                            => Separated(cells, D, c)
<1>0. c \in 1..c /\ \A i \in 1..c : i # c => i < c
  OBVIOUS
<1>1. \A i \in 1..c : /\ GoodLeaf(C[i]) /\ Len(C[i]) \in Nat
                      /\ \A s \in 1..Len(C[i]) : C[i][s].key \in Nat
  BY CellKeys DEF Ordered, GoodLeaf
<1> PICK N \in Nat : N = Len(C[c])
  BY <1>0, <1>1
<1>2. /\ GoodLeaf(D[c]) /\ Len(D[c]) = N + 1
      /\ \A s \in 1..N : D[c][s] = C[c][s]
      /\ D[c][N + 1].key = k
      /\ \A q : NoKey(D[c], q) <=> NoKey(C[c], q) /\ q # k
  BY <1>0, <1>1, EndOfLeaf DEF AtTheEnd
<1>3. \A i \in 1..c : i # c => D[i] = C[i]
  BY DEF AtTheEnd
<1>4. \A i \in 1..c : GoodLeaf(D[i]) /\ (c >= 2 => Len(D[i]) >= 1)
  BY <1>1, <1>2, <1>3 DEF Ordered
<1>5. ASSUME NEW i \in 1..c, NEW j \in 1..c, i < j PROVE Below(D[i], D[j])
  <2>1. D[i] = C[i] /\ Below(C[i], C[j])
    BY <1>3, <1>5 DEF Ordered
  <2>2. CASE j # c
    BY <1>3, <2>1, <2>2
  <2>3. CASE j = c
    <3> SUFFICES ASSUME NEW s \in 1..Len(C[i]), NEW t \in 1..(N + 1) PROVE C[i][s].key < D[c][t].key
      BY <1>2, <2>1, <2>3 DEF Below
    <3>1. t \in 1..N => C[i][s].key < C[c][t].key
      BY <2>1, <2>3 DEF Below
    <3>2. C[i][s].key < k
      BY DEF AllBelow
    <3>3. t \in 1..N \/ t = N + 1
      OBVIOUS
    <3> QED
      BY <1>2, <3>1, <3>2, <3>3
  <2> QED
    BY <2>2, <2>3
<1>6. ~Found(C, c, k)
  <2> SUFFICES ASSUME NEW i \in 1..c, NEW s \in 1..Len(C[i]), C[i][s].key = k PROVE FALSE
    BY DEF Found, NoKey
  <2>1. C[i][s].key < k
    BY DEF AllBelow
  <2> QED
    BY <2>1
<1>7. Found(D, c, k) /\ \A q : q # k => (Found(D, c, q) <=> Found(C, c, q))
  BY <1>0, <1>2, <1>3 DEF Found
<1>8. ASSUME NEW cells, \A u \in 1..(c - 1) : cells[u].key \in Nat, Separated(cells, C, c)
      PROVE  Separated(cells, D, c)
  <2> SUFFICES ASSUME NEW u \in 1..(c - 1) PROVE Parts(cells[u].key, u, D, c)
    BY <1>8 DEF Separated
  <2> PICK key \in Nat : key = cells[u].key
    BY <1>8
  <2>1. Parts(key, u, C, c)
    BY <1>8 DEF Separated
  <2>2. u < c /\ ~(c <= u) /\ c >= 2
    OBVIOUS
  <2>3. AllFrom(C[c], key) /\ N >= 1
    BY <1>0, <2>1, <2>2 DEF Parts, Ordered
  <2>4. key <= C[c][1].key /\ C[c][1].key < k /\ C[c][1].key \in Nat
    BY <1>0, <1>1, <2>3 DEF AllFrom, AllBelow
  <2>5. AllFrom(D[c], key)
    <3> SUFFICES ASSUME NEW t \in 1..(N + 1) PROVE key <= D[c][t].key
      BY <1>2 DEF AllFrom
    <3>1. t \in 1..N \/ t = N + 1
      OBVIOUS
    <3>2. t \in 1..N => key <= C[c][t].key
      BY <2>3 DEF AllFrom
    <3>3. key <= k
      BY <2>4
    <3> QED
      BY <1>2, <3>1, <3>2, <3>3
  <2>6. ASSUME NEW i \in 1..c
        PROVE  (i <= u => AllBelow(D[i], key)) /\ (u < i => AllFrom(D[i], key))
    BY <1>3, <2>1, <2>2, <2>5 DEF Parts
  <2> QED
    BY <2>6 DEF Parts
<1> QED
  BY <1>2, <1>4, <1>5, <1>6, <1>7, <1>8 DEF Ordered

(* The last leaf is split in two; the first key of the new leaf parts it   *)
(* from the others.                                                        *)
InTwo(D, C, c) ==
    /\ \A i \in 1..c : i # c => D[i] = C[i]
    /\ D[c] = Kept(C[c])
    /\ D[c + 1] = Copied(C[c])

(* The first h records and the others, which are copies.                   *)
TwoParts(lower, upper, cells, h) ==
    /\ h \in 1..(Len(cells) - 1)
    /\ GoodLeaf(lower) /\ Len(lower) = h
    /\ GoodLeaf(upper) /\ Len(upper) = Len(cells) - h
    /\ \A s \in 1..h : lower[s].key = cells[s].key
    /\ \A s \in 1..(Len(cells) - h) : upper[s].key = cells[h + s].key

LEMMA HalvesOfLeaf ==
    ASSUME NEW cells, GoodLeaf(cells), Len(cells) >= 2
    PROVE  \E h : TwoParts(Kept(cells), Copied(cells), cells, h)
<1> PICK lower, upper : lower = Kept(cells) /\ upper = Copied(cells)
  OBVIOUS
<1>0. cells \in Seq(LeafCell)
  BY DEF GoodLeaf
<1> PICK N \in Nat : N = Len(cells)
  BY <1>0, LenProperties
<1>1. N \div 2 \in 1..(N - 1)
  OBVIOUS
<1> PICK h \in 1..(N - 1) : h = N \div 2
  BY <1>1
<1>2. /\ lower \in Seq(LeafCell) /\ Len(lower) = h
      /\ \A s \in 1..h : lower[s] = cells[s]
  BY <1>0, KeptIs
<1>3. /\ upper \in Seq(LeafCell) /\ Len(upper) = N - h
      /\ \A s \in 1..(N - h) : upper[s] = [key |-> cells[h + s].key, deleted |-> FALSE]
  BY <1>0, CopiedIs
<1>4. \A s \in 1..h : s \in 1..N
  OBVIOUS
<1>5. \A s \in 1..(N - h) : h + s \in 1..N
  OBVIOUS
<1>6. \A s \in 1..(N - h) : upper[s].key = cells[h + s].key /\ ~upper[s].deleted
  <2> SUFFICES ASSUME NEW s \in 1..(N - h) PROVE upper[s].key = cells[h + s].key /\ ~upper[s].deleted
    OBVIOUS
  <2>1. upper[s] = [key |-> cells[h + s].key, deleted |-> FALSE]
    BY <1>3
  <2> QED
    BY <2>1
<1>7. NoneMarked(lower) /\ NoneMarked(upper)
  <2>1. NoneMarked(lower)
    BY <1>2, <1>4 DEF NoneMarked, GoodLeaf
  <2>2. NoneMarked(upper)
    BY <1>3, <1>6 DEF NoneMarked
  <2> QED
    BY <2>1, <2>2
<1>8. Rises(lower)
  BY <1>2, <1>4 DEF Rises, GoodLeaf
<1>9. Rises(upper)
  <2> SUFFICES ASSUME NEW s \in 1..(N - h), NEW t \in 1..(N - h), s < t PROVE upper[s].key < upper[t].key
    BY <1>3 DEF Rises
  <2>1. h + s < h + t
    OBVIOUS
  <2>2. cells[h + s].key < cells[h + t].key
    BY <1>5, <2>1 DEF Rises, GoodLeaf
  <2> QED
    BY <1>6, <2>2
<1> HIDE DEF Kept, Copied
<1>10. TwoParts(lower, upper, cells, h)
  <2>1. GoodLeaf(lower) /\ GoodLeaf(upper)
    BY <1>2, <1>3, <1>7, <1>8, <1>9 DEF GoodLeaf
  <2>2. \A s \in 1..h : lower[s].key = cells[s].key
    BY <1>2
  <2> QED
    BY <1>2, <1>3, <1>6, <2>1, <2>2 DEF TwoParts
<1> QED
  BY <1>10

LEMMA TwoPartsHold ==
    ASSUME NEW cells, GoodLeaf(cells), NEW lower, NEW upper, NEW h, TwoParts(lower, upper, cells, h)
    PROVE  /\ Len(lower) >= 1 /\ Len(upper) >= 1 /\ Len(upper) < Len(cells)
           /\ Below(lower, upper)
           /\ AllBelow(lower, upper[1].key) /\ AllFrom(upper, upper[1].key)
           /\ upper[1].key \in Nat /\ cells[1].key < upper[1].key
           /\ \A q : NoKey(cells, q) <=> NoKey(lower, q) /\ NoKey(upper, q)
           /\ \A q : AllBelow(cells, q) => AllBelow(lower, q) /\ AllBelow(upper, q)
           /\ \A q : AllFrom(cells, q) => AllFrom(lower, q) /\ AllFrom(upper, q)
<1> PICK N \in Nat : N = Len(cells)
  BY CellKeys DEF GoodLeaf
<1>1. \A s \in 1..N : cells[s].key \in Nat
  BY CellKeys DEF GoodLeaf
<1>2. /\ h \in 1..(N - 1) /\ Len(lower) = h /\ Len(upper) = N - h
      /\ \A s \in 1..h : lower[s].key = cells[s].key
      /\ \A s \in 1..(N - h) : upper[s].key = cells[h + s].key
  BY DEF TwoParts
<1>3. \A s \in 1..h : s \in 1..N
  BY <1>2
<1>4. \A s \in 1..(N - h) : h + s \in 1..N
  BY <1>2
<1>5. \A s \in 1..h : \A t \in 1..(N - h) : cells[s].key < cells[h + t].key
  <2> SUFFICES ASSUME NEW s \in 1..h, NEW t \in 1..(N - h) PROVE cells[s].key < cells[h + t].key
    OBVIOUS
  <2>1. s < h + t
    BY <1>2
  <2> QED
    BY <1>3, <1>4, <2>1 DEF GoodLeaf, Rises
<1>6. 1 \in 1..h /\ 1 \in 1..(N - h)
  BY <1>2
<1>7. Below(lower, upper) /\ AllBelow(lower, upper[1].key)
  BY <1>2, <1>5, <1>6 DEF Below, AllBelow
<1>8. AllFrom(upper, upper[1].key)
  <2> SUFFICES ASSUME NEW t \in 1..(N - h) PROVE cells[h + 1].key <= cells[h + t].key
    BY <1>2, <1>6 DEF AllFrom
  <2>1. t = 1 \/ h + 1 < h + t
    BY <1>2
  <2>2. h + 1 < h + t => cells[h + 1].key < cells[h + t].key
    BY <1>4, <1>6 DEF GoodLeaf, Rises
  <2>3. cells[h + 1].key \in Nat /\ cells[h + t].key \in Nat
    BY <1>1, <1>4, <1>6
  <2> QED
    BY <2>1, <2>2, <2>3
<1>9. upper[1].key \in Nat /\ cells[1].key < upper[1].key
  BY <1>1, <1>2, <1>4, <1>5, <1>6
<1>10. \A q : NoKey(cells, q) <=> NoKey(lower, q) /\ NoKey(upper, q)
  <2> TAKE q
  <2>1. \A s \in 1..N : s \in 1..h \/ (s - h \in 1..(N - h) /\ h + (s - h) = s)
    BY <1>2
  <2>2. NoKey(cells, q) <=> \A s \in 1..N : cells[s].key # q
    BY DEF NoKey
  <2>3. NoKey(lower, q) <=> \A s \in 1..h : cells[s].key # q
    BY <1>2 DEF NoKey
  <2>4. NoKey(upper, q) <=> \A s \in 1..(N - h) : cells[h + s].key # q
    <3> PICK M : M = N - h
      OBVIOUS
    <3>1. Len(upper) = M /\ \A s \in 1..M : upper[s].key = cells[h + s].key
      BY <1>2
    <3>2. NoKey(upper, q) <=> \A s \in 1..M : upper[s].key # q
      BY <3>1 DEF NoKey
    <3> QED
      BY <3>1, <3>2
  <2>5. (\A s \in 1..N : cells[s].key # q) =>
           (\A s \in 1..h : cells[s].key # q) /\ \A s \in 1..(N - h) : cells[h + s].key # q
    BY <1>3, <1>4
  <2>6. (\A s \in 1..h : cells[s].key # q) /\ (\A s \in 1..(N - h) : cells[h + s].key # q) =>
           \A s \in 1..N : cells[s].key # q
    BY <2>1
  <2> QED
    BY <2>2, <2>3, <2>4, <2>5, <2>6
<1>11. \A q : AllBelow(cells, q) => AllBelow(lower, q) /\ AllBelow(upper, q)
  BY <1>2, <1>3, <1>4 DEF AllBelow
<1>12. \A q : AllFrom(cells, q) => AllFrom(lower, q) /\ AllFrom(upper, q)
  BY <1>2, <1>3, <1>4 DEF AllFrom
<1>13. Len(lower) >= 1 /\ Len(upper) >= 1 /\ Len(upper) < Len(cells)
  BY <1>2
<1> QED
  BY <1>7, <1>8, <1>9, <1>10, <1>11, <1>12, <1>13

LEMMA LessTransitive ==
    \A x, y, z \in Nat : (x < y /\ y < z => x < z) /\ (x <= y /\ y < z => x < z) /\ (x < y => x <= y)
OBVIOUS

LEMMA OrderedInTwo ==
    ASSUME NEW C, NEW c \in Nat \ {0}, Ordered(C, c), Len(C[c]) >= 2, NEW D, InTwo(D, C, c),
           NEW key, key = D[c + 1][1].key
    PROVE  /\ Ordered(D, c + 1) /\ Len(D[c + 1]) < Len(C[c]) /\ key \in Nat
           /\ C[c][1].key < key /\ Parts(key, c, D, c + 1)
           /\ \A u \in 1..(c - 1) : \A q \in Nat : Parts(q, u, C, c) => Parts(q, u, D, c + 1) /\ q < key
           /\ \A q : Found(D, c + 1, q) <=> Found(C, c, q)
           /\ \A q : (\A i \in 1..c : AllBelow(C[i], q)) => \A i \in 1..(c + 1) : AllBelow(D[i], q)
<1>0. /\ c \in 1..c /\ c \in 1..(c + 1) /\ c + 1 \in 1..(c + 1)
      /\ \A i \in 1..(c + 1) : (i \in 1..c /\ i # c /\ i < c) \/ i = c \/ i = c + 1
      /\ \A i \in 1..c : i \in 1..(c + 1)
  OBVIOUS
<1> PICK cells : cells = C[c]
  OBVIOUS
<1> PICK lower, upper : lower = D[c] /\ upper = D[c + 1]
  OBVIOUS
<1>1. GoodLeaf(cells) /\ \A i \in 1..c : i # c => D[i] = C[i]
  BY <1>0 DEF Ordered, InTwo
<1>2. PICK h : TwoParts(lower, upper, cells, h)
  BY <1>1, HalvesOfLeaf DEF InTwo
<1>3. /\ Len(lower) >= 1 /\ Len(upper) >= 1 /\ Len(upper) < Len(cells)
      /\ Below(lower, upper) /\ AllBelow(lower, key) /\ AllFrom(upper, key)
      /\ key \in Nat /\ cells[1].key < key
      /\ \A q : NoKey(cells, q) <=> NoKey(lower, q) /\ NoKey(upper, q)
      /\ \A q : AllBelow(cells, q) => AllBelow(lower, q) /\ AllBelow(upper, q)
      /\ \A q : AllFrom(cells, q) => AllFrom(lower, q) /\ AllFrom(upper, q)
  BY <1>1, <1>2, TwoPartsHold
<1>4. Ordered(D, c + 1)
  <2>1. \A i \in 1..(c + 1) : GoodLeaf(D[i]) /\ Len(D[i]) >= 1
    <3> SUFFICES ASSUME NEW i \in 1..(c + 1) PROVE GoodLeaf(D[i]) /\ Len(D[i]) >= 1
      OBVIOUS
    <3>1. i \in 1..c /\ i # c => GoodLeaf(D[i]) /\ Len(D[i]) >= 1
      BY <1>1 DEF Ordered
    <3> QED
      BY <1>0, <1>2, <1>3, <3>1 DEF TwoParts
  <2>2. ASSUME NEW i \in 1..c, i < c PROVE Below(D[i], lower) /\ Below(D[i], upper)
    <3> PICK those : those = C[i]
      OBVIOUS
    <3>1. Below(those, cells) /\ D[i] = those
      BY <1>0, <1>1, <2>2 DEF Ordered
    <3>2. \A s \in 1..Len(those) : those[s].key \in Nat
      BY CellKeys DEF Ordered, GoodLeaf
    <3>3. /\ h \in 1..(Len(cells) - 1) /\ Len(lower) = h /\ Len(upper) = Len(cells) - h
          /\ \A t \in 1..h : lower[t].key = cells[t].key
          /\ \A t \in 1..(Len(cells) - h) : upper[t].key = cells[h + t].key
      BY <1>2 DEF TwoParts
    <3>4. Len(cells) \in Nat
      BY <1>1, CellKeys DEF GoodLeaf
    <3>5. ASSUME NEW s \in 1..Len(those), NEW t \in 1..h PROVE those[s].key < lower[t].key
      <4>1. t \in 1..Len(cells)
        BY <3>3, <3>4
      <4> QED
        BY <3>1, <3>3, <4>1 DEF Below
    <3>6. ASSUME NEW s \in 1..Len(those), NEW t \in 1..(Len(cells) - h) PROVE those[s].key < upper[t].key
      <4>1. h + t \in 1..Len(cells)
        BY <3>3, <3>4
      <4> QED
        BY <3>1, <3>3, <4>1 DEF Below
    <3> QED
      BY <3>1, <3>3, <3>5, <3>6 DEF Below
  <2>3. ASSUME NEW i \in 1..(c + 1), NEW j \in 1..(c + 1), i < j PROVE Below(D[i], D[j])
    <3>1. CASE i = c
      <4>1. j = c + 1
        BY <2>3, <3>1
      <4> QED
        BY <1>3, <3>1, <4>1
    <3>2. CASE i # c
      <4>1. i \in 1..c /\ i < c
        BY <2>3, <3>2
      <4>2. CASE j = c \/ j = c + 1
        BY <2>2, <4>1, <4>2
      <4>3. CASE j # c /\ j # c + 1
        <5>1. j \in 1..c
          BY <4>3
        <5> QED
          BY <1>1, <2>3, <3>2, <4>1, <4>3, <5>1 DEF Ordered
      <4> QED
        BY <4>2, <4>3
    <3> QED
      BY <3>1, <3>2
  <2> QED
    BY <2>1, <2>3 DEF Ordered
<1>5. Parts(key, c, D, c + 1)
  <2> SUFFICES ASSUME NEW i \in 1..(c + 1)
               PROVE  (i <= c => AllBelow(D[i], key)) /\ (c < i => AllFrom(D[i], key))
    BY DEF Parts
  <2>1. CASE i = c + 1
    BY <1>3, <2>1
  <2>2. CASE i = c
    BY <1>3, <2>2
  <2>3. CASE i # c /\ i # c + 1
    <3>1. i \in 1..c /\ i < c /\ D[i] = C[i]
      BY <1>1, <2>3
    <3>2. Below(C[i], cells)
      BY <1>0, <3>1 DEF Ordered
    <3>3. 1 \in 1..Len(cells) /\ \A s \in 1..Len(C[i]) : C[i][s].key \in Nat
      <4>1. Len(cells) \in Nat
        BY <1>1, CellKeys DEF GoodLeaf
      <4>2. GoodLeaf(C[i])
        BY <3>1 DEF Ordered
      <4>3. \A s \in 1..Len(C[i]) : C[i][s].key \in Nat
        BY <4>2, CellKeys DEF GoodLeaf
      <4> QED
        BY <4>1, <4>3
    <3>4. \A s \in 1..Len(C[i]) : C[i][s].key < cells[1].key
      BY <3>2, <3>3 DEF Below
    <3>5. cells[1].key \in Nat
      BY <1>1, <3>3, CellKeys DEF GoodLeaf
    <3>6. \A s \in 1..Len(C[i]) : C[i][s].key < key
      <4> SUFFICES ASSUME NEW s \in 1..Len(C[i]) PROVE C[i][s].key < key
        OBVIOUS
      <4>1. C[i][s].key \in Nat /\ C[i][s].key < cells[1].key
        BY <3>3, <3>4
      <4> QED
        BY <1>3, <3>5, <4>1, LessTransitive
    <3> QED
      BY <3>1, <3>6 DEF AllBelow
  <2> QED
    BY <2>1, <2>2, <2>3
<1>6. ASSUME NEW u \in 1..(c - 1), NEW q \in Nat, Parts(q, u, C, c)
      PROVE  Parts(q, u, D, c + 1) /\ q < key
  <2>1. u < c /\ u < c + 1 /\ ~(c <= u) /\ ~(c + 1 <= u)
    OBVIOUS
  <2>2. AllFrom(cells, q)
    BY <1>0, <1>6, <2>1 DEF Parts
  <2>3. 1 \in 1..Len(cells) /\ cells[1].key \in Nat
    BY <1>1, CellKeys DEF GoodLeaf
  <2>4. q <= cells[1].key
    BY <2>2, <2>3 DEF AllFrom
  <2>5. ASSUME NEW i \in 1..(c + 1)
        PROVE  (i <= u => AllBelow(D[i], q)) /\ (u < i => AllFrom(D[i], q))
    <3>1. CASE i = c \/ i = c + 1
      BY <1>3, <2>1, <2>2, <3>1
    <3>2. CASE i # c /\ i # c + 1
      <4>1. i \in 1..c /\ D[i] = C[i]
        BY <1>1, <3>2
      <4> QED
        BY <1>6, <4>1 DEF Parts
    <3> QED
      BY <3>1, <3>2
  <2> QED
    BY <1>3, <2>3, <2>4, <2>5 DEF Parts
<1>7. ASSUME NEW q PROVE Found(D, c + 1, q) <=> Found(C, c, q)
  <2>1. ASSUME Found(C, c, q) PROVE Found(D, c + 1, q)
    <3>1. PICK i \in 1..c : ~NoKey(C[i], q)
      BY <2>1 DEF Found
    <3>2. CASE i = c
      BY <1>0, <1>3, <3>1, <3>2 DEF Found
    <3>3. CASE i # c
      BY <1>0, <1>1, <3>1, <3>3 DEF Found
    <3> QED
      BY <3>2, <3>3
  <2>2. ASSUME Found(D, c + 1, q) PROVE Found(C, c, q)
    <3>1. PICK i \in 1..(c + 1) : ~NoKey(D[i], q)
      BY <2>2 DEF Found
    <3>2. CASE i = c \/ i = c + 1
      BY <1>0, <1>3, <3>1, <3>2 DEF Found
    <3>3. CASE i # c /\ i # c + 1
      <4>1. i \in 1..c
        BY <3>3
      <4> QED
        BY <1>1, <3>1, <3>3, <4>1 DEF Found
    <3> QED
      BY <3>2, <3>3
  <2> QED
    BY <2>1, <2>2
<1>8. ASSUME NEW q, \A i \in 1..c : AllBelow(C[i], q), NEW i \in 1..(c + 1) PROVE AllBelow(D[i], q)
  <2>1. CASE i = c \/ i = c + 1
    BY <1>0, <1>3, <1>8, <2>1
  <2>2. CASE i # c /\ i # c + 1
    <3>1. i \in 1..c
      BY <2>2
    <3> QED
      BY <1>1, <1>8, <2>2, <3>1
  <2> QED
    BY <2>1, <2>2
<1> QED
  BY <1>3, <1>4, <1>5, <1>6, <1>7, <1>8

(* The record of a key is taken out of a leaf.                             *)
Without(live, cells, k) ==
    /\ GoodLeaf(live)
    /\ \A i \in 1..Len(live) : \E j \in 1..Len(cells) : live[i].key = cells[j].key
    /\ NoKey(live, k)
    /\ \A q : q # k => (NoKey(live, q) <=> NoKey(cells, q))

LEMMA PurgedLeafIs ==
    ASSUME NEW cells, GoodLeaf(cells), NEW k, NEW marked, NEW slot, Marking(marked, cells, slot, k),
           NEW live, NEW at, Unmarked(live, marked, Len(marked), at)
    PROVE  Without(live, cells, k) /\ (Len(cells) >= 2 => Len(live) >= 1)
<1> PICK N \in Nat : N = Len(cells)
  BY CellKeys DEF GoodLeaf
<1>1. /\ Len(marked) = N /\ slot \in 1..N /\ cells[slot].key = k
      /\ marked[slot].key = k /\ marked[slot].deleted
      /\ \A i \in 1..N : i # slot => marked[i] = cells[i]
  BY DEF Marking
<1>2. \A i \in 1..N : marked[i].key = cells[i].key
  BY <1>1
<1> PICK M \in Nat : M = Len(live)
  BY LenProperties DEF Unmarked
<1>3. /\ live \in Seq(LeafCell) /\ at \in [1..M -> 1..N]
      /\ \A i, j \in 1..M : i < j => at[i] < at[j]
      /\ \A i \in 1..M : live[i] = marked[at[i]] /\ ~marked[at[i]].deleted
      /\ \A m \in 1..N : ~marked[m].deleted => \E i \in 1..M : at[i] = m
  BY <1>1 DEF Unmarked
<1>4. \A i \in 1..M : at[i] \in 1..N /\ live[i].key = cells[at[i]].key /\ ~live[i].deleted
  BY <1>2, <1>3
<1>5. \A i, j \in 1..N : i < j => cells[i].key < cells[j].key
  BY DEF GoodLeaf, Rises
<1>6. GoodLeaf(live)
  <2>1. NoneMarked(live)
    BY <1>4 DEF NoneMarked
  <2>2. Rises(live)
    BY <1>3, <1>4, <1>5 DEF Rises
  <2> QED
    BY <1>3, <2>1, <2>2 DEF GoodLeaf
<1>7. NoKey(live, k)
  <2> SUFFICES ASSUME NEW i \in 1..M, live[i].key = k PROVE FALSE
    BY DEF NoKey
  <2>1. at[i] # slot /\ at[i] \in 1..N /\ cells[at[i]].key = k
    BY <1>1, <1>3, <1>4
  <2>2. k \in Nat
    BY <1>1, CellKeys DEF GoodLeaf
  <2>3. at[i] < slot \/ slot < at[i]
    BY <1>1, <2>1
  <2>4. k < k
    BY <1>1, <1>5, <2>1, <2>3
  <2> QED
    BY <2>2, <2>4
<1>8. ASSUME NEW q, q # k PROVE NoKey(live, q) <=> NoKey(cells, q)
  <2>1. NoKey(cells, q) => NoKey(live, q)
    BY <1>4 DEF NoKey
  <2>2. ASSUME NEW j \in 1..N, cells[j].key = q PROVE ~NoKey(live, q)
    <3>1. j # slot /\ marked[j] = cells[j]
      BY <1>1, <1>8, <2>2
    <3>2. ~marked[j].deleted
      BY <3>1 DEF GoodLeaf, NoneMarked
    <3>3. PICK i \in 1..M : at[i] = j
      BY <1>3, <3>2
    <3>4. live[i].key = q
      BY <1>4, <2>2, <3>3
    <3> QED
      BY <3>4 DEF NoKey
  <2> QED
    BY <2>1, <2>2 DEF NoKey
<1>9. ASSUME N >= 2 PROVE M >= 1
  <2>1. PICK j \in 1..N : j # slot
    <3>1. (1 \in 1..N /\ 1 # slot) \/ (2 \in 1..N /\ 2 # slot)
      BY <1>9
    <3> QED
      BY <3>1
  <2>2. ~marked[j].deleted
    BY <1>1, <2>1 DEF GoodLeaf, NoneMarked
  <2>3. PICK i \in 1..M : at[i] = j
    BY <1>3, <2>2
  <2> QED
    BY <2>3
<1> QED
  BY <1>4, <1>6, <1>7, <1>8, <1>9 DEF Without

LEMMA OrderedWithout ==
    ASSUME NEW C, NEW c \in Nat, Ordered(C, c), NEW a \in 1..c, NEW k,
           NEW slot \in 1..Len(C[a]), C[a][slot].key = k,
           NEW D, \A i \in 1..c : i # a => D[i] = C[i],
           Without(D[a], C[a], k), c >= 2 => Len(D[a]) >= 1
    PROVE  /\ Ordered(D, c) /\ ~Found(D, c, k)
           /\ \A q : q # k => (Found(D, c, q) <=> Found(C, c, q))
           /\ \A q, u : Parts(q, u, C, c) => Parts(q, u, D, c)
<1>1. /\ GoodLeaf(D[a]) /\ NoKey(D[a], k)
      /\ \A i \in 1..Len(D[a]) : \E j \in 1..Len(C[a]) : D[a][i].key = C[a][j].key
      /\ \A q : q # k => (NoKey(D[a], q) <=> NoKey(C[a], q))
  BY DEF Without
<1>2. \A i \in 1..c : i # a => D[i] = C[i]
  OBVIOUS
<1>3. \A i \in 1..c : \A s \in 1..Len(D[i]) : \E t \in 1..Len(C[i]) : D[i][s].key = C[i][t].key
  <2> SUFFICES ASSUME NEW i \in 1..c, NEW s \in 1..Len(D[i])
               PROVE  \E t \in 1..Len(C[i]) : D[i][s].key = C[i][t].key
    OBVIOUS
  <2>1. CASE i = a
    BY <1>1, <2>1
  <2>2. CASE i # a
    BY <1>2, <2>2
  <2> QED
    BY <2>1, <2>2
<1>4. Ordered(D, c)
  <2>1. \A i \in 1..c : GoodLeaf(D[i]) /\ (c >= 2 => Len(D[i]) >= 1)
    <3> SUFFICES ASSUME NEW i \in 1..c PROVE GoodLeaf(D[i]) /\ (c >= 2 => Len(D[i]) >= 1)
      OBVIOUS
    <3>1. CASE i = a
      BY <1>1, <3>1
    <3>2. CASE i # a
      BY <1>2, <3>2 DEF Ordered
    <3> QED
      BY <3>1, <3>2
  <2>2. ASSUME NEW i \in 1..c, NEW j \in 1..c, i < j PROVE Below(D[i], D[j])
    <3> SUFFICES ASSUME NEW s \in 1..Len(D[i]), NEW t \in 1..Len(D[j]) PROVE D[i][s].key < D[j][t].key
      BY DEF Below
    <3>1. PICK v \in 1..Len(C[i]) : D[i][s].key = C[i][v].key
      BY <1>3
    <3>2. PICK w \in 1..Len(C[j]) : D[j][t].key = C[j][w].key
      BY <1>3
    <3>3. Below(C[i], C[j])
      BY <2>2 DEF Ordered
    <3> QED
      BY <3>1, <3>2, <3>3 DEF Below
  <2> QED
    BY <2>1, <2>2 DEF Ordered
<1>5. ~Found(D, c, k)
  <2> SUFFICES ASSUME NEW i \in 1..c, ~NoKey(D[i], k) PROVE FALSE
    BY DEF Found
  <2>1. i # a
    BY <1>1
  <2>2. PICK s \in 1..Len(C[i]) : C[i][s].key = k
    BY <1>2, <2>1 DEF NoKey
  <2>3. Below(C[i], C[a]) \/ Below(C[a], C[i])
    <3>1. i < a \/ a < i
      BY <2>1
    <3> QED
      BY <3>1 DEF Ordered
  <2>4. k < k
    BY <2>2, <2>3 DEF Below
  <2>5. k \in Nat
    BY CellKeys DEF Ordered, GoodLeaf
  <2> QED
    BY <2>4, <2>5
<1>6. ASSUME NEW q, q # k PROVE Found(D, c, q) <=> Found(C, c, q)
  <2>1. \A i \in 1..c : NoKey(D[i], q) <=> NoKey(C[i], q)
    BY <1>1, <1>2, <1>6
  <2> QED
    BY <2>1 DEF Found
<1>7. ASSUME NEW q, NEW u, Parts(q, u, C, c) PROVE Parts(q, u, D, c)
  <2>1. ASSUME NEW i \in 1..c, i <= u PROVE AllBelow(D[i], q)
    <3>1. AllBelow(C[i], q)
      BY <1>7, <2>1 DEF Parts
    <3> QED
      BY <1>3, <3>1 DEF AllBelow
  <2>2. ASSUME NEW i \in 1..c, u < i PROVE AllFrom(D[i], q)
    <3>1. AllFrom(C[i], q)
      BY <1>7, <2>2 DEF Parts
    <3> QED
      BY <1>3, <3>1 DEF AllFrom
  <2> QED
    BY <2>1, <2>2 DEF Parts
<1> QED
  BY <1>4, <1>5, <1>6, <1>7

(* The first slot of a leaf for a key that is there, or above all others.  *)
LEMMA SlotInLeaf ==
    ASSUME NEW cells, GoodLeaf(cells), NEW k \in Keys
    PROVE  /\ Len(cells) \in Nat /\ FirstSlot(cells, k) \in 1..(Len(cells) + 1)
           /\ AllBelow(cells, k) => FirstSlot(cells, k) = Len(cells) + 1
           /\ \A i \in 1..Len(cells) : cells[i].key = k => FirstSlot(cells, k) = i
<1>1. cells \in Seq(LeafCell) /\ k \in Nat
  BY KeysAreNumbers DEF GoodLeaf
<1> PICK N \in Nat : N = Len(cells) /\ DOMAIN cells = 1..N
  BY <1>1, LenProperties
<1>2. \A i \in 1..N : cells[i].key \in Nat
  BY <1>1, CellKeys
<1>3. \A i, j \in 1..N : i < j => cells[i].key < cells[j].key
  BY DEF GoodLeaf, Rises
<1>4. Sorted(cells)
  BY <1>2, <1>3, LessTransitive DEF Sorted
<1> PICK s : s = FirstSlot(cells, k)
  OBVIOUS
<1>5. s \in 1..(N + 1) /\ \A i \in 1..N : cells[i].key < k <=> i < s
  BY <1>1, <1>4, KeysAreNumbers, FirstSlotSplits
<1>6. ASSUME AllBelow(cells, k) PROVE s = N + 1
  <2>1. s \notin 1..N
    <3> SUFFICES ASSUME s \in 1..N PROVE FALSE
      OBVIOUS
    <3>1. cells[s].key < k
      BY <1>6 DEF AllBelow
    <3> QED
      BY <1>5, <3>1
  <2> QED
    BY <1>5, <2>1
<1>7. ASSUME NEW i \in 1..N, cells[i].key = k PROVE s = i
  <2>1. ~(i < s)
    BY <1>1, <1>5, <1>7
  <2>2. ~(s < i)
    <3> SUFFICES ASSUME s < i PROVE FALSE
      OBVIOUS
    <3>1. s \in 1..N
      BY <1>5
    <3>2. cells[s].key < k
      BY <1>3, <1>7, <3>1
    <3> QED
      BY <1>5, <3>1, <3>2
  <2> QED
    BY <1>5, <2>1, <2>2
<1> QED
  BY <1>5, <1>6, <1>7

(* The leaves in the order of their creation: page 4 is the root page.     *)
LeafNo(i) == IF i <= 2 THEN i + 1 ELSE i + 2
Leafs(pgs, c) == [i \in 1..c |-> pgs[LeafNo(i) - 1].cells]

(* c leaves in a file of n pages.                                          *)
Sized(n, c) == (c = 1 /\ n = 1) \/ (c >= 2 /\ n = c + 1)

LEMMA LeafNoIs ==
    ASSUME NEW c \in Nat, NEW n \in Nat, Sized(n, c)
    PROVE  /\ \A i \in 1..c : LeafNo(i) \in Ids(n) /\ LeafNo(i) \in Nat /\ LeafNo(i) # Nil
           /\ \A i, j \in 1..c : LeafNo(i) = LeafNo(j) => i = j
           /\ \A p \in Ids(n) : \E i \in 1..c : LeafNo(i) = p
<1>1. \A i \in 1..c : LeafNo(i) \in Ids(n) /\ LeafNo(i) \in Nat /\ LeafNo(i) # Nil
  BY DEF LeafNo, Ids, Sized, Nil
<1>2. \A i, j \in 1..c : LeafNo(i) = LeafNo(j) => i = j
  BY DEF LeafNo
<1>3. ASSUME NEW p \in Ids(n) PROVE \E i \in 1..c : LeafNo(i) = p
  <2>1. CASE p <= 3
    <3>1. p - 1 \in 1..c /\ LeafNo(p - 1) = p
      BY <2>1 DEF LeafNo, Ids, Sized
    <3> QED
      BY <3>1
  <2>2. CASE p > 3
    <3>1. p - 2 \in 1..c /\ LeafNo(p - 2) = p
      BY <2>2 DEF LeafNo, Ids, Sized
    <3> QED
      BY <3>1
  <2> QED
    BY <2>1, <2>2 DEF Ids
<1> QED
  BY <1>1, <1>2, <1>3

Links(pgs, c) ==
    \A i \in 1..c : pgs[LeafNo(i) - 1].next = IF i < c THEN LeafNo(i + 1) ELSE Nil
Points(node, c) ==
    node.rightmost = LeafNo(c) /\ \A u \in 1..(c - 1) : node.cells[u].child = LeafNo(u)

(* The tree has c leaves, one after the other, and the last one has used   *)
(* no more room than its records take.                                     *)
InLine(n, c) ==
    /\ c \in Nat
    /\ \/ c = 0 /\ root = Nil
       \/ c = 1 /\ n = 1 /\ root = 2 /\ free = <<>>
       \/ /\ c >= 2 /\ n = c + 1 /\ root = 4 /\ free = <<>>
          /\ Points(Page(4), c) /\ Separated(Page(4).cells, Leafs(pages, c), c)
    /\ Ordered(Leafs(pages, c), c)
    /\ Links(pages, c)
    /\ c > 0 => Page(LeafNo(c)).used = Len(Page(LeafNo(c)).cells)

LEMMA LineIs ==
    ASSUME NEW n, Shape(n), NEW c, InLine(n, c), c >= 1, NEW C, C = Leafs(pages, c)
    PROVE  /\ c \in Nat \ {0} /\ n \in Nat /\ Sized(n, c) /\ free = <<>> /\ c \in 1..c /\ root # Nil
           /\ Ordered(C, c)
           /\ \A i \in 1..c : C[i] = Page(LeafNo(i)).cells /\ GoodLeaf(C[i])
           /\ \A i \in 1..c : Page(LeafNo(i)).next = IF i < c THEN LeafNo(i + 1) ELSE Nil
           /\ \A i \in 1..c : LeafNo(i) \in Ids(n) /\ LeafNo(i) # Nil
<1>1. c \in Nat \ {0} /\ n \in Nat /\ Sized(n, c) /\ free = <<>> /\ c \in 1..c /\ root # Nil
  BY Reading DEF InLine, Sized, Nil
<1>2. Ordered(C, c) /\ \A i \in 1..c : Page(LeafNo(i)).next = IF i < c THEN LeafNo(i + 1) ELSE Nil
  BY DEF InLine, Links, Page
<1>3. \A i \in 1..c : C[i] = Page(LeafNo(i)).cells
  BY DEF Leafs, Page
<1> QED
  BY <1>1, <1>2, <1>3, LeafNoIs DEF Ordered

(* The rows are the records of the leaves.                                 *)
RowsInLine == \A n, c : Shape(n) /\ InLine(n, c) => \A k : HasRow(k) <=> Found(Leafs(pages, c), c, k)

LEMMA RowsInLineAre == RowsInLine
<1> SUFFICES ASSUME NEW n, NEW c, Shape(n), InLine(n, c), NEW k, NEW C, C = Leafs(pages, c)
             PROVE  HasRow(k) <=> Found(C, c, k)
  BY DEF RowsInLine
<1>1. CASE root = Nil
  <2>1. c = 0
    BY <1>1 DEF InLine, Nil
  <2> QED
    BY <1>1, <2>1 DEF HasRow, Found
<1>2. CASE root # Nil
  <2>1. c \in Nat /\ c >= 1
    BY <1>2 DEF InLine
  <2>2. /\ n \in Nat /\ Sized(n, c)
        /\ \A i \in 1..c : C[i] = Page(LeafNo(i)).cells /\ GoodLeaf(C[i])
        /\ \A i \in 1..c : LeafNo(i) \in Ids(n)
    BY <2>1, LineIs
  <2>3. \A i \in 1..c : NoRowOf(k, C[i]) <=> NoKey(C[i], k)
    BY <2>2 DEF GoodLeaf, NoneMarked, NoRowOf, NoKey
  <2>4. Leaves = Ids(n) /\ \A p \in Ids(n) : \E i \in 1..c : LeafNo(i) = p
    BY <2>1, <2>2, Reading, LeafNoIs
  <2>5. HasRow(k) <=> \E i \in 1..c : ~NoRowOf(k, C[i])
    BY <1>2, <2>2, <2>4 DEF HasRow
  <2> QED
    BY <2>3, <2>5 DEF Found
<1> QED
  BY <1>1, <1>2

LEMMA RowsInLineThenAre == RowsInLine'
BY RowsInLineAre, PTL

(* Where a lookup begins: the leaves before hold smaller keys only.        *)
LEMMA LeafForInLine ==
    ASSUME NEW n, Shape(n), NEW c, InLine(n, c), c >= 1, NEW C, C = Leafs(pages, c), NEW k \in Keys
    PROVE  \E t \in 1..c : /\ LeafFor(k) = LeafNo(t)
                           /\ \A i \in 1..c : i < t => AllBelow(C[i], k)
                           /\ (\A i \in 1..c : AllBelow(C[i], k)) => t = c
<1>0. c \in Nat \ {0} /\ c \in 1..c /\ Ordered(C, c) /\ k \in Nat
  BY LineIs, KeysAreNumbers
<1>1. CASE c = 1
  <2>1. root = 2 /\ IsLeaf(root)
    BY <1>1, Reading DEF InLine, Nil
  <2>2. LeafFor(k) = LeafNo(1)
    BY <2>1 DEF LeafFor, LeafNo
  <2>3. \A i \in 1..c : ~(i < 1)
    OBVIOUS
  <2> QED
    BY <1>0, <1>1, <2>2, <2>3
<1>2. CASE c >= 2
  <2> PICK cells : cells = Page(4).cells
    OBVIOUS
  <2>1. /\ root = 4 /\ ~IsLeaf(4) /\ Branched(n)
        /\ Points(Page(4), c) /\ Separated(cells, C, c)
    BY <1>2, Reading DEF InLine, Nil
  <2>2. cells \in Seq(NodeCell(Ids(n))) /\ Sorted(cells) /\ Len(cells) = c - 1
        /\ \A u \in 1..(c - 1) : cells[u].key \in Nat
    BY <2>1, NodeCellsAre, KeysAreNumbers DEF Separated
  <2> PICK t : t = FirstSlot(cells, k)
    OBVIOUS
  <2>3. t \in 1..c /\ \A u \in 1..(c - 1) : cells[u].key < k <=> u < t
    <3>1. t \in 1..(Len(cells) + 1) /\ \A u \in 1..Len(cells) : cells[u].key < k <=> u < t
      BY <1>0, <2>2, KeysAreNumbers, FirstSlotSplits
    <3> QED
      BY <1>0, <2>2, <3>1
  <2>4. LeafFor(k) = LeafNo(t)
    <3>1. LeafFor(k) = IF t > c - 1 THEN Page(4).rightmost ELSE cells[t].child
      BY <2>1, <2>2 DEF LeafFor, ChildFor
    <3>2. t = c \/ (t \in 1..(c - 1) /\ ~(t > c - 1))
      BY <1>0, <2>3
    <3>3. t = c => t > c - 1
      BY <1>0
    <3> QED
      BY <2>1, <3>1, <3>2, <3>3 DEF Points
  <2>5. \A i \in 1..c : \A s \in 1..Len(C[i]) : C[i][s].key \in Nat
    BY <1>0, CellKeys DEF Ordered, GoodLeaf
  <2>6. ASSUME NEW i \in 1..c, i < t PROVE AllBelow(C[i], k)
    <3>1. i \in 1..(c - 1) /\ i <= i
      BY <1>0, <2>3, <2>6
    <3>2. cells[i].key < k /\ cells[i].key \in Nat
      BY <2>2, <2>3, <2>6, <3>1
    <3>3. AllBelow(C[i], cells[i].key)
      BY <2>1, <3>1 DEF Separated, Parts
    <3> SUFFICES ASSUME NEW s \in 1..Len(C[i]) PROVE C[i][s].key < k
      BY DEF AllBelow
    <3>4. C[i][s].key < cells[i].key /\ C[i][s].key \in Nat
      BY <2>5, <3>3 DEF AllBelow
    <3> QED
      BY <1>0, <3>2, <3>4, LessTransitive
  <2>7. ASSUME \A i \in 1..c : AllBelow(C[i], k) PROVE t = c
    <3> SUFFICES ASSUME t # c PROVE FALSE
      OBVIOUS
    <3>1. t \in 1..(c - 1) /\ t < c /\ ~(t < t)
      BY <1>0, <2>3
    <3>2. ~(cells[t].key < k) /\ cells[t].key \in Nat
      BY <2>2, <2>3, <3>1
    <3>3. AllFrom(C[c], cells[t].key) /\ Len(C[c]) >= 1
      BY <1>0, <1>2, <2>1, <3>1 DEF Separated, Parts, Ordered
    <3>4. 1 \in 1..Len(C[c])
      BY <1>0, <3>3, CellKeys DEF Ordered, GoodLeaf
    <3>5. cells[t].key <= C[c][1].key /\ C[c][1].key < k /\ C[c][1].key \in Nat
      BY <1>0, <2>5, <2>7, <3>3, <3>4 DEF AllFrom, AllBelow
    <3> QED
      BY <1>0, <3>2, <3>5, LessTransitive
  <2> QED
    BY <2>3, <2>4, <2>6, <2>7
<1> QED
  BY <1>0, <1>1, <1>2

LEMMA WalkInLine ==
    ASSUME NEW n, Shape(n), NEW c, InLine(n, c), c >= 1, NEW t \in 1..c
    PROVE  /\ n \in Nat /\ DOMAIN Walk(LeafNo(t)) = 0..n /\ c <= n
           /\ \A j \in 0..n : Walk(LeafNo(t))[j] = IF t + j <= c THEN LeafNo(t + j) ELSE Nil
<1>1. n \in Nat /\ Len(pages) = n /\ Leaves = Ids(n) /\ \A q \in Leaves : Page(q).next \in Leaves \union {Nil}
  BY Reading
<1>2. /\ c \in Nat \ {0} /\ Sized(n, c)
      /\ \A i \in 1..c : Page(LeafNo(i)).next = IF i < c THEN LeafNo(i + 1) ELSE Nil
      /\ \A i \in 1..c : LeafNo(i) \in Ids(n) /\ LeafNo(i) # Nil
  BY LineIs
<1> PICK w : w = Walk(LeafNo(t))
  OBVIOUS
<1>3. /\ w \in [0..n -> Leaves \union {Nil}] /\ w[0] = LeafNo(t)
      /\ \A i \in 1..n : w[i] = IF w[i - 1] = Nil THEN Nil ELSE Page(w[i - 1]).next
  BY <1>1, <1>2, WalkIs
<1> DEFINE T == {j \in 0..n : w[j] = IF t + j <= c THEN LeafNo(t + j) ELSE Nil}
<1>4. 0 \in T
  <2>1. t + 0 = t /\ t <= c /\ 0 \in 0..n
    BY <1>1
  <2> QED
    BY <1>3, <2>1
<1>5. ASSUME NEW j \in 1..n, j - 1 \in T PROVE j \in T
  <2>1. j - 1 \in 0..n /\ j \in 0..n
    BY <1>1
  <2> PICK i \in Nat : i = t + (j - 1) /\ i >= 1 /\ i + 1 = t + j
    BY <2>1
  <2>2. w[j - 1] = IF i <= c THEN LeafNo(i) ELSE Nil
    BY <1>5, <2>1
  <2>3. CASE i <= c
    <3>1. i \in 1..c /\ (i + 1 <= c <=> i < c)
      BY <1>2, <2>3
    <3>2. w[j] = Page(LeafNo(i)).next
      BY <1>2, <1>3, <2>2, <2>3, <3>1
    <3>3. w[j] = IF i + 1 <= c THEN LeafNo(i + 1) ELSE Nil
      BY <1>2, <3>1, <3>2
    <3> QED
      BY <2>1, <3>3
  <2>4. CASE ~(i <= c)
    <3>1. w[j] = Nil /\ ~(i + 1 <= c)
      BY <1>2, <1>3, <2>2, <2>4
    <3> QED
      BY <2>1, <3>1
  <2> QED
    BY <2>3, <2>4
<1>6. \A j \in 0..n : j \in T
  <2> HIDE DEF T
  <2> QED
    BY <1>1, <1>4, <1>5, UpwardClosed
<1>7. c <= n
  BY <1>2 DEF Sized
<1> QED
  BY <1>1, <1>3, <1>6, <1>7

(* A key lookup finds exactly the records.                                 *)
LookupsInLine == \A n, c : Shape(n) /\ InLine(n, c) => \A k \in Keys : KeyExists(k) <=> HasRow(k)

LEMMA LookupFinds ==
    ASSUME NEW n, Shape(n), NEW c, InLine(n, c), c >= 1, NEW C, C = Leafs(pages, c), NEW k \in Keys,
           NEW a \in 1..c, NEW s \in 1..Len(C[a]), C[a][s].key = k
    PROVE  Search(k) = [leaf |-> LeafNo(a), slot |-> s] /\ Search(k) # Nowhere
<1>1. /\ c \in Nat \ {0} /\ Ordered(C, c) /\ root # Nil /\ k \in Nat
      /\ \A i \in 1..c : C[i] = Page(LeafNo(i)).cells /\ GoodLeaf(C[i])
      /\ \A i \in 1..c : LeafNo(i) # Nil
  BY LineIs, KeysAreNumbers
<1>2. PICK t \in 1..c : /\ LeafFor(k) = LeafNo(t)
                        /\ \A i \in 1..c : i < t => AllBelow(C[i], k)
  BY LeafForInLine
<1>3. t <= a
  <2> SUFFICES ASSUME a < t PROVE FALSE
    OBVIOUS
  <2>1. C[a][s].key < k
    BY <1>2 DEF AllBelow
  <2> QED
    BY <1>1, <2>1
<1>4. \A i \in 1..c : i < a => AllBelow(C[i], k)
  <2> SUFFICES ASSUME NEW i \in 1..c, i < a PROVE AllBelow(C[i], k)
    OBVIOUS
  <2>1. Below(C[i], C[a])
    BY <1>1 DEF Ordered
  <2> QED
    BY <2>1 DEF Below, AllBelow
<1> PICK w : w = Walk(LeafFor(k))
  OBVIOUS
<1>5. /\ n \in Nat /\ DOMAIN w = 0..n /\ c <= n
      /\ \A j \in 0..n : w[j] = IF t + j <= c THEN LeafNo(t + j) ELSE Nil
  BY <1>2, WalkInLine
<1> DEFINE hits == {m \in DOMAIN w : /\ w[m] # Nil
                                     /\ FirstSlot(Page(w[m]).cells, k) <= Len(Page(w[m]).cells)}
<1>13. a - t \in 0..n /\ t + (a - t) = a
  BY <1>1, <1>3, <1>5
<1> PICK d \in 0..n : d = a - t /\ t + d = a
  BY <1>13
<1>6. w[d] = LeafNo(a) /\ FirstSlot(C[a], k) = s
  <2>1. t + d <= c
    OBVIOUS
  <2> QED
    BY <1>1, <1>5, <2>1, SlotInLeaf
<1>7. d \in hits
  <2>1. FirstSlot(C[a], k) <= Len(C[a])
    BY <1>1, <1>6, SlotInLeaf
  <2> QED
    BY <1>1, <1>5, <1>6, <2>1
<1>8. ASSUME NEW m \in hits PROVE d <= m
  <2> SUFFICES ASSUME m < d PROVE FALSE
    BY <1>5
  <2>1. m \in 0..n /\ FirstSlot(Page(w[m]).cells, k) <= Len(Page(w[m]).cells)
    BY <1>5
  <2>5. t + m \in 1..c /\ t + m < a
    BY <1>1, <1>5, <2>1
  <2> PICK i \in 1..c : i = t + m /\ i < a
    BY <2>5
  <2>2. w[m] = LeafNo(i)
    BY <1>5, <2>1
  <2>3. FirstSlot(C[i], k) <= Len(C[i])
    BY <1>1, <2>1, <2>2
  <2>4. FirstSlot(C[i], k) = Len(C[i]) + 1 /\ Len(C[i]) \in Nat
    BY <1>1, <1>4, SlotInLeaf
  <2> QED
    BY <2>3, <2>4
<1>9. Min(hits) = d
  <2>1. hits \subseteq Nat
    BY <1>5
  <2> HIDE DEF hits
  <2>2. Min(hits) \in hits /\ Min(hits) <= d
    BY <1>7, <2>1, MinIsLeast
  <2>3. d <= Min(hits) /\ Min(hits) \in Nat
    BY <1>8, <2>1, <2>2
  <2> QED
    BY <2>2, <2>3
<1>10. Search(k) = [leaf |-> w[Min(hits)], slot |-> FirstSlot(Page(w[Min(hits)]).cells, k)]
  BY <1>1, <1>7 DEF Search
<1> HIDE DEF hits
<1>11. Search(k) = [leaf |-> LeafNo(a), slot |-> s]
  BY <1>1, <1>6, <1>9, <1>10
<1>12. Search(k).leaf # Nil
  BY <1>1, <1>11
<1> QED
  BY <1>11, <1>12 DEF Nowhere

LEMMA LookupsInLineAre == LookupsInLine
<1> SUFFICES ASSUME NEW n, NEW c, Shape(n), InLine(n, c), NEW k \in Keys PROVE KeyExists(k) <=> HasRow(k)
  BY DEF LookupsInLine
<1> PICK C : C = Leafs(pages, c)
  OBVIOUS
<1>1. ASSUME KeyExists(k) PROVE HasRow(k)
  <2>1. /\ Search(k) # Nowhere /\ Cell(Search(k)).key = k /\ ~Cell(Search(k)).deleted
    BY <1>1 DEF KeyExists
  <2>2. /\ root # Nil /\ Search(k).leaf \in Leaves
        /\ Search(k).slot \in 1..Len(Page(Search(k).leaf).cells)
    BY <2>1, SearchIs, Reading
  <2> QED
    BY <2>1, <2>2 DEF HasRow, NoRowOf, Cell
<1>2. ASSUME HasRow(k) PROVE KeyExists(k)
  <2>0. PICK a \in 1..c : ~NoKey(C[a], k)
    BY <1>2, RowsInLineAre DEF RowsInLine, Found
  <2>1. PICK s \in 1..Len(C[a]) : C[a][s].key = k
    BY <2>0 DEF NoKey
  <2>2. c >= 1
    BY DEF InLine
  <2>3. Search(k) = [leaf |-> LeafNo(a), slot |-> s] /\ Search(k) # Nowhere
    BY <2>1, <2>2, LookupFinds
  <2>4. C[a] = Page(LeafNo(a)).cells /\ NoneMarked(C[a])
    BY <2>2, LineIs DEF GoodLeaf
  <2> QED
    BY <2>1, <2>3, <2>4 DEF KeyExists, Cell, NoneMarked
<1> QED
  BY <1>1, <1>2

LEMMA RowCell ==
    ASSUME NEW k
    PROVE  \A c \in LeafCell : ~c.deleted => (c = [key |-> k, deleted |-> FALSE] <=> c.key = k)
<1> SUFFICES ASSUME NEW c \in LeafCell, ~c.deleted
             PROVE  c = [key |-> k, deleted |-> FALSE] <=> c.key = k
  OBVIOUS
<1>1. c = [key |-> c.key, deleted |-> c.deleted] /\ c.deleted = FALSE
  BY DEF LeafCell
<1>2. [key |-> k, deleted |-> FALSE].key = k
  OBVIOUS
<1> QED
  BY <1>1, <1>2

(* There is one record of a key at most.                                   *)
OnlyAt(C, c, k, a, s) ==
    \A b \in 1..c : \A t \in 1..Len(C[b]) : C[b][t].key = k => b = a /\ t = s

LEMMA OneRecord ==
    ASSUME NEW n, Shape(n), NEW c, InLine(n, c), c >= 1, NEW C, C = Leafs(pages, c), NEW k \in Keys,
           NEW a \in 1..c, NEW s \in 1..Len(C[a]), C[a][s].key = k
    PROVE  OnlyAt(C, c, k, a, s)
<1> SUFFICES ASSUME NEW b \in 1..c, NEW t \in 1..Len(C[b]), C[b][t].key = k PROVE b = a /\ t = s
  BY DEF OnlyAt
<1>1. Search(k) = [leaf |-> LeafNo(a), slot |-> s]
  BY LookupFinds
<1>2. Search(k) = [leaf |-> LeafNo(b), slot |-> t]
  BY LookupFinds
<1>3. LeafNo(a) = LeafNo(b) /\ s = t
  BY <1>1, <1>2
<1> QED
  BY <1>3, LineIs, LeafNoIs

(* A scan meets each record once.                                          *)
ScansInLine == \A n, c : Shape(n) /\ InLine(n, c) =>
    \A k \in Keys : Cardinality(Scanned(k)) = IF HasRow(k) THEN 1 ELSE 0

MetByScan(C, c, k) ==
    \A x : x \in Scanned(k) <=> \E a \in 1..c : \E s \in 1..Len(C[a]) :
                                    x = <<a - 1, s>> /\ C[a][s].key = k

LEMMA ScansMeet ==
    ASSUME NEW n, Shape(n), NEW c, InLine(n, c), c >= 1, NEW C, C = Leafs(pages, c), NEW k \in Keys
    PROVE  MetByScan(C, c, k)
<1>1. /\ c \in Nat \ {0} /\ n \in Nat /\ root # Nil /\ 1 \in 1..c
      /\ \A i \in 1..c : C[i] = Page(LeafNo(i)).cells /\ GoodLeaf(C[i])
      /\ \A i \in 1..c : LeafNo(i) # Nil
  BY LineIs
<1>2. Leftmost = LeafNo(1)
  <2>1. CASE c = 1
    BY <2>1, Reading DEF InLine, Nil, Leftmost, LeafNo
  <2>2. CASE c >= 2
    <3>1. root = 4 /\ ~IsLeaf(root) /\ Points(Page(4), c) /\ 1 \in 1..(c - 1)
      BY <1>1, <2>2, Reading DEF InLine, Nil
    <3> QED
      BY <3>1 DEF Leftmost, Points
  <2> QED
    BY <1>1, <2>1, <2>2
<1> PICK w : w = Walk(Leftmost)
  OBVIOUS
<1>3. /\ DOMAIN w = 0..n /\ c <= n
      /\ \A j \in 0..n : w[j] = IF 1 + j <= c THEN LeafNo(1 + j) ELSE Nil
  <2>1. \A t \in 1..c : /\ DOMAIN Walk(LeafNo(t)) = 0..n /\ c <= n
                         /\ \A j \in 0..n : Walk(LeafNo(t))[j] = IF t + j <= c THEN LeafNo(t + j) ELSE Nil
    BY WalkInLine
  <2> QED
    BY <1>1, <1>2, <2>1
<1> PICK row : row = [key |-> k, deleted |-> FALSE]
  OBVIOUS
<1> DEFINE slots(m) == IF w[m] = Nil THEN {}
                       ELSE {i \in DOMAIN Page(w[m]).cells : Page(w[m]).cells[i] = row}
<1>4. Scanned(k) = UNION {{<<m, i>> : i \in slots(m)} : m \in 0..n}
  <2>1. Scanned(k) = UNION {{<<m, i>> : i \in slots(m)} : m \in DOMAIN w}
    BY <1>1 DEF Scanned
  <2> HIDE DEF slots
  <2> QED
    BY <1>3, <2>1
<1>5. ASSUME NEW a \in 1..c PROVE a - 1 \in 0..n /\ slots(a - 1) = {s \in 1..Len(C[a]) : C[a][s].key = k}
  <2>1. a - 1 \in 0..n /\ 1 + (a - 1) = a /\ a <= c
    BY <1>1, <1>3
  <2>2. w[a - 1] = LeafNo(a) /\ LeafNo(a) # Nil
    BY <1>1, <1>3, <2>1
  <2> PICK cells : cells = C[a]
    OBVIOUS
  <2>3. cells \in Seq(LeafCell) /\ NoneMarked(cells) /\ cells = Page(LeafNo(a)).cells
    BY <1>1 DEF GoodLeaf
  <2>4. slots(a - 1) = {i \in 1..Len(cells) : cells[i] = row}
    BY <2>2, <2>3, LenProperties
  <2>5. \A i \in 1..Len(cells) : cells[i] = row <=> cells[i].key = k
    BY <2>3, ElementOfSeq, RowCell DEF NoneMarked
  <2> HIDE DEF slots
  <2> QED
    BY <2>1, <2>4, <2>5
<1>6. ASSUME NEW m \in 0..n, m + 1 \notin 1..c PROVE slots(m) = {}
  <2>1. ~(1 + m <= c)
    BY <1>1, <1>6
  <2> QED
    BY <1>3, <2>1
<1> HIDE DEF slots
<1> SUFFICES ASSUME NEW x
             PROVE  x \in Scanned(k) <=> \E a \in 1..c : \E s \in 1..Len(C[a]) :
                                            x = <<a - 1, s>> /\ C[a][s].key = k
  BY DEF MetByScan
<1>7. ASSUME x \in Scanned(k)
      PROVE  \E a \in 1..c : \E s \in 1..Len(C[a]) : x = <<a - 1, s>> /\ C[a][s].key = k
  <2>1. PICK m \in 0..n : x \in {<<m, i>> : i \in slots(m)}
    BY <1>4, <1>7
  <2>2. PICK s \in slots(m) : x = <<m, s>>
    BY <2>1
  <2>3. m + 1 \in 1..c
    BY <1>6, <2>2
  <2> PICK a \in 1..c : a = m + 1 /\ a - 1 = m
    BY <2>3
  <2>4. s \in 1..Len(C[a]) /\ C[a][s].key = k
    BY <1>5, <2>2
  <2> QED
    BY <2>2, <2>4
<1>8. ASSUME NEW a \in 1..c, NEW s \in 1..Len(C[a]), x = <<a - 1, s>>, C[a][s].key = k
      PROVE  x \in Scanned(k)
  <2>1. a - 1 \in 0..n /\ s \in slots(a - 1)
    BY <1>5, <1>8
  <2>2. x \in {<<a - 1, i>> : i \in slots(a - 1)}
    BY <1>8, <2>1
  <2> QED
    BY <1>4, <2>1, <2>2
<1> QED
  BY <1>7, <1>8

LEMMA ScansInLineAre == ScansInLine
<1> SUFFICES ASSUME NEW n, NEW c, Shape(n), InLine(n, c), NEW k \in Keys
             PROVE  Cardinality(Scanned(k)) = IF HasRow(k) THEN 1 ELSE 0
  BY DEF ScansInLine
<1> PICK C : C = Leafs(pages, c)
  OBVIOUS
<1>1. HasRow(k) <=> Found(C, c, k)
  BY RowsInLineAre DEF RowsInLine
<1>2. CASE root = Nil
  <2>1. Scanned(k) = {} /\ ~HasRow(k)
    BY <1>2 DEF Scanned, HasRow
  <2> QED
    BY <2>1, FS_EmptySet
<1>3. CASE root # Nil
  <2>1. c \in Nat /\ c >= 1
    BY <1>3 DEF InLine
  <2>2. \A x : x \in Scanned(k) <=> \E a \in 1..c : \E s \in 1..Len(C[a]) :
                                       x = <<a - 1, s>> /\ C[a][s].key = k
    <3>1. MetByScan(C, c, k)
      BY <2>1, ScansMeet
    <3> QED
      BY <3>1 DEF MetByScan
  <2>3. CASE HasRow(k)
    <3>0. PICK a \in 1..c : ~NoKey(C[a], k)
      BY <1>1, <2>3 DEF Found
    <3>1. PICK s \in 1..Len(C[a]) : C[a][s].key = k
      BY <3>0 DEF NoKey
    <3>2. \A x : x \in Scanned(k) <=> x = <<a - 1, s>>
      <4>1. OnlyAt(C, c, k, a, s)
        BY <2>1, <3>1, OneRecord
      <4>2. \A b \in 1..c : \A t \in 1..Len(C[b]) : C[b][t].key = k => b = a /\ t = s
        BY <4>1, Zenon DEF OnlyAt
      <4> QED
        BY <2>2, <3>1, <4>2
    <3>3. Scanned(k) = {<<a - 1, s>>}
      BY <3>2
    <3> QED
      BY <2>3, <3>3, FS_Singleton
  <2>4. CASE ~HasRow(k)
    <3>1. \A a \in 1..c : \A s \in 1..Len(C[a]) : C[a][s].key # k
      BY <1>1, <2>4 DEF Found, NoKey
    <3>2. Scanned(k) = {}
      BY <2>2, <3>1
    <3> QED
      BY <2>4, <3>2, FS_EmptySet
  <2> QED
    BY <2>3, <2>4
<1> QED
  BY <1>2, <1>3

(* The insertion under way has a key above all others, and finds room for  *)
(* a separator if it has to split the last leaf.                           *)
Arrives(C, c) ==
    op.kind = "insert" =>
        /\ c <= InternalCap \/ Len(C[c]) < LeafCap
        /\ \A i \in 1..c : AllBelow(C[i], op.key)

(* The removal under way is at its record, or has taken it out.            *)
AtRecord(C, c, a) ==
    /\ op.slot \in 1..Len(C[a]) /\ C[a][op.slot].key = op.key
    /\ c >= 2 => Len(C[a]) >= 2
Departs(C, c) ==
    op.kind = "remove" =>
        /\ Deleting
        /\ \E a \in 1..c : op.leaf = LeafNo(a) /\ (~Found(C, c, op.key) \/ AtRecord(C, c, a))

Ascending(n, c) ==
    /\ Shape(n) /\ InLine(n, c) /\ op # Failed
    /\ Arrives(Leafs(pages, c), c) /\ Departs(Leafs(pages, c), c)

IsAscending == \E n, c : Ascending(n, c)

LEMMA NewAscending ==
    ASSUME NEW n, NEW c, Shape(n)', InLine(n, c)', op' # Failed, NEW D, D = Leafs(pages', c),
           Arrives(D, c)', Departs(D, c)'
    PROVE  IsAscending'
<1>1. Ascending(n, c)'
  BY DEF Ascending, Arrives, Departs, AtRecord
<1> QED
  BY <1>1 DEF IsAscending

(* A call that ends, or is an insertion, removes nothing, and so on.       *)
LEMMA NoCall ==
    /\ op' = Idle => op' # Failed /\ \A D, c : Arrives(D, c)' /\ Departs(D, c)'
    /\ op'.kind = "insert" => op' # Failed /\ \A D, c : Departs(D, c)'
    /\ op'.kind = "remove" => op' # Failed /\ \A D, c : Arrives(D, c)'
<1>1. Idle.kind # "remove" /\ Idle.kind # "insert" /\ Failed.kind # "insert" /\ Failed.kind # "remove"
      /\ Idle # Failed
  BY OpKinds DEF Idle, Failed
<1> QED
  BY <1>1 DEF Arrives, Departs

LEMMA LineKept ==
    ASSUME NEW n, NEW c, InLine(n, c), UNCHANGED <<pages, root, free>>
    PROVE  InLine(n, c)' /\ Leafs(pages', c) = Leafs(pages, c)
BY DEF InLine, Page, Leafs, Links

LEMMA RowsOfLines ==
    ASSUME NEW n, NEW c, Shape(n), InLine(n, c), NEW m, NEW d, Shape(m)', InLine(m, d)',
           NEW C, C = Leafs(pages, c), NEW D, D = Leafs(pages', d)
    PROVE  \A k : (HasRow(k) <=> Found(C, c, k)) /\ (HasRow(k)' <=> Found(D, d, k))
<1>1. \A k : HasRow(k) <=> Found(C, c, k)
  BY RowsInLineAre DEF RowsInLine
<1>2. \A k : HasRow(k)' <=> Found(D, d, k)
  BY RowsInLineThenAre DEF RowsInLine
<1> QED
  BY <1>1, <1>2

(* An empty page is a line of one leaf.                                    *)
LEMMA EmptyLine ==
    ASSUME Shape(1)', op' \in Inserting, pages'[1] = EmptyLeaf, NEW D, D = Leafs(pages', 1)
    PROVE  InLine(1, 1)' /\ D[1] = <<>> /\ \A k : ~Found(D, 1, k)
<1>1. root' = 2 /\ free' = <<>>
  <2>1. op' \notin {Idle, Failed}
    BY DEF Inserting, Idle, Failed
  <2>2. root' # Nil
    BY <2>1 DEF Shape
  <2>3. Alone(1)' \/ Branched(1)'
    BY DEF Shape
  <2> QED
    BY <2>2, <2>3 DEF Alone, Branched
<1>2. LeafNo(1) - 1 = 1 /\ 1..1 = {1}
  BY DEF LeafNo
<1>3. D[1] = <<>> /\ pages'[LeafNo(1) - 1] = EmptyLeaf
  BY <1>2 DEF Leafs, EmptyLeaf
<1>4. Len(<<>>) = 0 /\ 1..0 = {} /\ <<>> \in Seq(LeafCell)
  OBVIOUS
<1>5. GoodLeaf(<<>>) /\ \A k : NoKey(<<>>, k)
  BY <1>4 DEF GoodLeaf, NoneMarked, Rises, NoKey
<1>6. Ordered(D, 1) /\ \A k : ~Found(D, 1, k)
  BY <1>2, <1>3, <1>5 DEF Ordered, Found
<1>7. Links(pages', 1)
  BY <1>2, <1>3 DEF Links, EmptyLeaf
<1>8. pages'[LeafNo(1) - 1].used = Len(pages'[LeafNo(1) - 1].cells)
  BY <1>3, <1>4 DEF EmptyLeaf
<1>9. InLine(1, 1)'
  BY <1>1, <1>6, <1>7, <1>8 DEF InLine, Page
<1> QED
  BY <1>3, <1>6, <1>9

LEMMA StartInsertAscends ==
    ASSUME KeysAscend, NEW n, NEW c, Ascending(n, c), NEW k \in Keys, StartInsert(k)
    PROVE  Asks /\ IsAscending'
<1>1. Shape(n) /\ InLine(n, c) /\ op' = [kind |-> "insert", key |-> k] /\ op' \in Inserting
  BY StartInsertDoes DEF Ascending
<1>2. Request \in {Idle, Failed} /\ Request' = [kind |-> "insert", key |-> k] /\ op'.kind = "insert" /\ op'.key = k
  <2>1. Request \in {Idle, Failed}
    BY DEF StartInsert, Request, AtRest
  <2>2. Request' = [kind |-> "insert", key |-> op'.key] /\ op'.key = k /\ op'.kind = "insert"
    BY <1>1, RequestThenIs DEF RequestKnown
  <2> QED
    BY <2>1, <2>2
<1>3. \A D, d : Departs(D, d)' /\ op' # Failed
  BY <1>2, NoCall
<1> PICK C : C = Leafs(pages, c)
  OBVIOUS
<1>4. ASSUME root # Nil PROVE RowsSeen /\ IsAscending'
  <2>1. UNCHANGED <<pages, root, free, orphans>> /\ Shape(n)'
    BY <1>1, <1>4, StartInsertDoes
  <2>2. InLine(n, c)' /\ Leafs(pages', c) = C
    BY <1>1, <2>1, LineKept
  <2>3. /\ c \in Nat \ {0} /\ n \in Nat /\ Sized(n, c) /\ Leaves = Ids(n) /\ Len(pages) = n
        /\ \A i \in 1..c : C[i] = Page(LeafNo(i)).cells /\ GoodLeaf(C[i]) /\ LeafNo(i) \in Ids(n)
    <3>1. c \in Nat /\ c >= 1
      BY <1>1, <1>4 DEF InLine
    <3> QED
      BY <1>1, <3>1, LineIs, Reading
  <2>4. /\ Len(pages) <= MaxPages /\ MaxPages <= InternalCap + 1
        /\ \A p \in Leaves : \A e \in ToSet(Page(p).cells) : e.deleted \/ e.key < k
    BY DEF StartInsert, MayInsert, KeysAscend
  <2>5. c <= InternalCap
    BY <2>3, <2>4, TreeAssumption DEF Sized
  <2>6. ASSUME NEW i \in 1..c PROVE AllBelow(C[i], k)
    <3> PICK cells : cells = C[i]
      OBVIOUS
    <3>1. GoodLeaf(cells) /\ \A e \in ToSet(cells) : e.deleted \/ e.key < k
      BY <2>3, <2>4
    <3>2. cells \in Seq(LeafCell)
      BY <3>1 DEF GoodLeaf
    <3>3. ASSUME NEW s \in 1..Len(cells) PROVE cells[s].key < k
      <4>1. s \in DOMAIN cells
        BY <3>2, LenProperties
      <4>2. cells[s] \in ToSet(cells)
        BY <4>1 DEF ToSet
      <4>3. ~cells[s].deleted
        BY <3>1 DEF GoodLeaf, NoneMarked
      <4> QED
        BY <3>1, <4>2, <4>3
    <3> QED
      BY <3>3 DEF AllBelow
  <2>7. Arrives(C, c)'
    BY <1>2, <2>5, <2>6 DEF Arrives
  <2>8. IsAscending'
    BY <1>3, <2>1, <2>2, <2>7, NewAscending
  <2> QED
    BY <2>1, <2>8, SameRows
<1>5. ASSUME root = Nil PROVE RowsSeen /\ IsAscending'
  <2>1. Shape(1)' /\ pages'[1] = EmptyLeaf
    BY <1>1, <1>5, StartInsertDoes
  <2> PICK D : D = Leafs(pages', 1)
    OBVIOUS
  <2>2. InLine(1, 1)' /\ D[1] = <<>> /\ \A q : ~Found(D, 1, q)
    BY <1>1, <2>1, EmptyLine
  <2>3. \A q \in Keys : ~HasRow(q) /\ ~HasRow(q)'
    BY <1>1, <1>5, <2>1, <2>2, RowsOfLines DEF HasRow
  <2>4. Arrives(D, 1)'
    <3>1. Len(<<>>) = 0 /\ 1..1 = {1} /\ 1 <= InternalCap
      BY TreeAssumption
    <3> QED
      BY <2>2, <3>1 DEF Arrives, AllBelow
  <2>5. IsAscending'
    BY <1>3, <2>1, <2>2, <2>4, NewAscending
  <2> QED
    BY <2>3, <2>5 DEF RowsSeen
<1> QED
  BY <1>2, <1>4, <1>5 DEF Asks

LEMMA SparedLeaf ==
    ASSUME NEW n, Shape(n), NEW c, InLine(n, c), c >= 2, NEW C, C = Leafs(pages, c), NEW k \in Keys,
           Spared(k), NEW a \in 1..c, NEW s \in 1..Len(C[a]), C[a][s].key = k
    PROVE  Len(C[a]) >= 2
<1> PICK cells : cells = C[a]
  OBVIOUS
<1>1. c \in Nat /\ n \in Nat /\ n = c + 1 /\ root = 4
  BY DEF InLine
<1> PICK p : p = LeafNo(a)
  OBVIOUS
<1>2. p \in Ids(n) /\ cells = Page(p).cells /\ GoodLeaf(cells)
  <2>1. c >= 1
    BY <1>1
  <2> QED
    BY <2>1, LineIs
<1>3. p \in PageIds /\ IsLeaf(p) /\ p # root
  BY <1>1, <1>2, Reading DEF Ids
<1>4. LiveCells(cells) # <<[key |-> k, deleted |-> FALSE]>>
  BY <1>2, <1>3 DEF Spared
<1>5. cells \in Seq(LeafCell) /\ NoneMarked(cells) /\ Len(cells) \in Nat
  BY <1>2, CellKeys DEF GoodLeaf
<1> SUFFICES ASSUME ~(Len(cells) >= 2) PROVE FALSE
  OBVIOUS
<1> PICK N \in Nat : N = Len(cells)
  BY <1>5
<1>6. N = 1 /\ s = 1
  <2>1. s \in 1..N /\ ~(N >= 2)
    OBVIOUS
  <2> QED
    BY ONLY <2>1, N \in Nat
<1> PICK e : e = [key |-> k, deleted |-> FALSE]
  OBVIOUS
<1>7. cells[1] = e
  <2>1. cells[1] \in LeafCell /\ ~cells[1].deleted /\ cells[1].key = k
    BY <1>5, <1>6, ElementOfSeq DEF NoneMarked
  <2> QED
    BY <2>1, RowCell
<1> PICK live : live = LiveCells(cells)
  OBVIOUS
<1>8. PICK at : Unmarked(live, cells, 1, at)
  BY <1>5, <1>6, LiveCellsAreUnmarked
<1>9. live \in Seq(LeafCell) /\ Len(live) = 1 /\ live[1] = e
  <2> PICK M \in Nat : M = Len(live)
    BY <1>8, LenProperties DEF Unmarked
  <2>1. /\ live \in Seq(LeafCell) /\ M <= 1
        /\ \A i \in 1..M : live[i] = cells[at[i]] /\ at[i] \in 1..1
        /\ \A m \in 1..1 : ~cells[m].deleted => \E i \in 1..M : at[i] = m
    BY <1>8 DEF Unmarked
  <2>2. ~cells[1].deleted /\ 1 \in 1..1
    BY <1>7
  <2>3. PICK i \in 1..M : at[i] = 1
    BY <2>1, <2>2
  <2>5. M = 1 /\ i = 1
    BY ONLY M \in Nat, <2>1, i \in 1..M
  <2>6. live[1] = cells[1]
    BY <2>1, <2>3, <2>5
  <2> QED
    BY <1>7, <2>1, <2>5, <2>6
<1>10. live = <<e>>
  <2>1. e \in LeafCell
    BY <1>5, <1>6, <1>7, ElementOfSeq
  <2> PICK one : one = <<e>>
    OBVIOUS
  <2>2. one \in Seq(LeafCell) /\ Len(one) = 1 /\ one[1] = e
    BY <2>1
  <2>3. \A i \in 1..Len(live) : live[i] = one[i]
    <3>1. 1..Len(live) = {1}
      BY <1>9
    <3> QED
      BY <1>9, <2>2, <3>1
  <2> QED
    BY <1>9, <2>2, <2>3, SeqEqual
<1> QED
  BY <1>4, <1>10

LEMMA StartRemoveAscends ==
    ASSUME KeysAscend, NEW n, NEW c, Ascending(n, c), NEW k \in Keys, StartRemove(k)
    PROVE  Asks /\ IsAscending'
<1> PICK C : C = Leafs(pages, c)
  OBVIOUS
<1>1. /\ Shape(n) /\ InLine(n, c) /\ UNCHANGED <<pages, root, free, orphans>> /\ Shape(n)'
      /\ op' = [kind |-> "remove", key |-> k, leaf |-> Search(k).leaf, slot |-> Search(k).slot]
  BY StartRemoveDoes DEF Ascending
<1>2. Deleting /\ Scanned(k) # {} /\ Search(k) # Nowhere /\ Spared(k)
  BY DEF StartRemove, KeysAscend
<1>3. c \in Nat /\ c >= 1
  <2>1. root # Nil
    BY <1>2 DEF Search
  <2> QED
    BY <1>1, <2>1 DEF InLine
<1>4. InLine(n, c)' /\ Leafs(pages', c) = C
  BY <1>1, LineKept
<1>5. PICK a \in 1..c : \E s \in 1..Len(C[a]) : C[a][s].key = k
  <2>1. MetByScan(C, c, k)
    BY <1>1, <1>3, ScansMeet
  <2> QED
    BY <1>2, <2>1 DEF MetByScan
<1>6. PICK s \in 1..Len(C[a]) : C[a][s].key = k
  BY <1>5
<1>7. Search(k) = [leaf |-> LeafNo(a), slot |-> s]
  BY <1>1, <1>3, <1>6, LookupFinds
<1>8. op'.kind = "remove" /\ op'.key = k /\ op'.slot = s /\ op'.leaf = LeafNo(a)
  BY <1>1, <1>7
<1>9. c >= 2 => Len(C[a]) >= 2
  BY <1>1, <1>2, <1>6, SparedLeaf
<1>10. Departs(C, c)'
  BY <1>2, <1>6, <1>8, <1>9 DEF Departs, AtRecord
<1>11. IsAscending'
  BY <1>1, <1>4, <1>8, <1>10, NoCall, NewAscending
<1>12. Request \in {Idle, Failed} /\ Request' = [kind |-> "remove", key |-> k]
  <2>1. Request \in {Idle, Failed}
    BY DEF StartRemove, Request, AtRest
  <2>2. op' # Idle /\ op' # Failed
    BY <1>8 DEF Idle, Failed
  <2> QED
    BY <1>8, <2>1, <2>2 DEF Request, AtRest
<1> QED
  BY <1>1, <1>11, <1>12, SameRows DEF Asks

(* A leaf is written again.                                                *)
LEMMA LeafsRewritten ==
    ASSUME NEW n, Shape(n), NEW c, InLine(n, c), c >= 1, NEW a \in 1..c, NEW page,
           Rewritten(n, LeafNo(a), page), NEW C, C = Leafs(pages, c), NEW D, D = Leafs(pages', c)
    PROVE  /\ D[a] = page.cells /\ page.cells \in Seq(LeafCell) /\ \A i \in 1..c : i # a => D[i] = C[i]
           /\ \A i \in 1..c : pages'[LeafNo(i) - 1].next = Page(LeafNo(i)).next
           /\ \A i \in 1..c : i # a => pages'[LeafNo(i) - 1] = Page(LeafNo(i))
           /\ n >= 3 => pages'[3] = pages[3]
<1> PICK p : p = LeafNo(a)
  OBVIOUS
<1>1. /\ n \in Nat /\ c \in Nat \ {0} /\ Sized(n, c) /\ p \in Ids(n)
      /\ \A i \in 1..c : LeafNo(i) \in Ids(n)
      /\ \A i \in 1..c : LeafNo(i) = p => i = a
  BY LineIs, LeafNoIs
<1>2. /\ ArePages(pages', n) /\ pages'[p - 1] = page /\ page.next = Page(p).next
      /\ \A i \in 1..n : i # p - 1 => pages'[i] = pages[i]
  BY DEF Rewritten
<1>3. ASSUME NEW i \in 1..c, i # a PROVE pages'[LeafNo(i) - 1] = Page(LeafNo(i))
  <2>1. LeafNo(i) - 1 \in 1..n /\ LeafNo(i) - 1 # p - 1
    BY <1>1, <1>3, IdTypes
  <2> QED
    BY <1>2, <2>1 DEF Page
<1>4. D[a] = page.cells /\ \A i \in 1..c : i # a => D[i] = C[i]
  BY <1>2, <1>3 DEF Leafs, Page
<1>5. \A i \in 1..c : pages'[LeafNo(i) - 1].next = Page(LeafNo(i)).next
  BY <1>2, <1>3
<1>6. page.cells \in Seq(LeafCell)
  BY <1>1, <1>2 DEF ArePages, IsLeafPage, LeafPage
<1>7. n >= 3 => pages'[3] = pages[3]
  <2>1. p - 1 # 3 /\ (n >= 3 => 3 \in 1..n)
    BY <1>1, IdTypes
  <2> QED
    BY <1>2, <2>1
<1> QED
  BY <1>3, <1>4, <1>5, <1>6, <1>7

LEMMA LineRewritten ==
    ASSUME NEW n, Shape(n), NEW c, InLine(n, c), c >= 1, NEW a \in 1..c, NEW page,
           Rewritten(n, LeafNo(a), page), UNCHANGED <<root, free>>, NEW D, D = Leafs(pages', c),
           Ordered(D, c), c >= 2 => Separated(Page(4).cells, D, c), page.used = Len(page.cells)
    PROVE  InLine(n, c)'
<1>1. /\ n \in Nat /\ c \in Nat \ {0} /\ Sized(n, c) /\ c \in 1..c
      /\ \A i \in 1..c : Page(LeafNo(i)).next = IF i < c THEN LeafNo(i + 1) ELSE Nil
  BY LineIs
<1>2. /\ \A i \in 1..c : pages'[LeafNo(i) - 1].next = Page(LeafNo(i)).next
      /\ \A i \in 1..c : i # a => pages'[LeafNo(i) - 1] = Page(LeafNo(i))
      /\ n >= 3 => pages'[3] = pages[3]
  BY LeafsRewritten
<1>3. Links(pages', c)
  BY <1>1, <1>2 DEF Links
<1>4. pages'[LeafNo(c) - 1].used = Len(pages'[LeafNo(c) - 1].cells)
  <2>1. CASE a = c
    BY <2>1 DEF Rewritten
  <2>2. CASE a # c
    BY <1>1, <1>2, <2>2 DEF InLine
  <2> QED
    BY <2>1, <2>2
<1>5. ASSUME c >= 2 PROVE n = c + 1 /\ root' = 4 /\ free' = <<>> /\ pages'[3] = Page(4) /\ Points(Page(4), c)
  BY <1>1, <1>2, <1>5 DEF InLine, Page
<1>6. c = 1 => n = 1 /\ root' = 2 /\ free' = <<>>
  BY DEF InLine
<1>7. c = 1 \/ c >= 2
  BY <1>1
<1> QED
  BY <1>1, <1>3, <1>4, <1>5, <1>6, <1>7 DEF InLine, Page

(* An insertion is on its way to the last leaf.                            *)
LEMMA ToTheLastLeaf ==
    ASSUME NEW n, NEW c, Ascending(n, c), op.kind = "insert", NEW C, C = Leafs(pages, c)
    PROVE  /\ op \in Inserting /\ op.key \in Keys /\ op.key \in Nat /\ root # Nil
           /\ c \in Nat \ {0} /\ c >= 1
           /\ LeafFor(op.key) = LeafNo(c)
           /\ \A i \in 1..c : AllBelow(C[i], op.key)
           /\ c <= InternalCap \/ Len(C[c]) < LeafCap
<1>1. /\ Shape(n) /\ InLine(n, c)
      /\ \A i \in 1..c : AllBelow(C[i], op.key)
      /\ c <= InternalCap \/ Len(C[c]) < LeafCap
  BY DEF Ascending, Arrives
<1>2. op \in Inserting /\ op.key \in Keys /\ root # Nil /\ op.key \in Nat
  BY <1>1, Calls, KeysAreNumbers
<1>3. c \in Nat \ {0} /\ c >= 1
  BY <1>1, <1>2 DEF InLine
<1>4. LeafFor(op.key) = LeafNo(c)
  BY <1>1, <1>2, <1>3, LeafForInLine
<1> QED
  BY <1>1, <1>2, <1>3, <1>4

LEMMA InsertIntoLeafAscends ==
    ASSUME NEW n, NEW c, Ascending(n, c), InsertIntoLeaf
    PROVE  Adds /\ IsAscending'
<1> PICK C : C = Leafs(pages, c)
  OBVIOUS
<1> PICK D : D = Leafs(pages', c)
  OBVIOUS
<1>0. Shape(n) /\ InLine(n, c) /\ op.kind = "insert"
  BY DEF Ascending, InsertIntoLeaf
<1>1. /\ op \in Inserting /\ op.key \in Keys /\ op.key \in Nat
      /\ c \in Nat \ {0} /\ c >= 1 /\ c \in 1..c
      /\ LeafFor(op.key) = LeafNo(c) /\ \A i \in 1..c : AllBelow(C[i], op.key)
  BY <1>0, ToTheLastLeaf
<1> PICK k \in Keys : k = op.key
  BY <1>1
<1>2. PICK p, page : /\ p = LeafFor(k) /\ Rewritten(n, p, page)
                     /\ Inserted(page.cells, Page(p).cells, FirstSlot(Page(p).cells, k),
                                 [key |-> k, deleted |-> FALSE])
                     /\ page.used = Page(p).used + 1
                     /\ op' = Idle /\ UNCHANGED <<root, free>>
                     /\ Shape(n)'
  BY <1>0, InsertIntoLeafDoes
<1>3. /\ C[c] = Page(p).cells /\ GoodLeaf(C[c]) /\ Ordered(C, c)
      /\ Page(p).used = Len(C[c])
  <2>1. Page(LeafNo(c)).used = Len(Page(LeafNo(c)).cells)
    BY <1>0, <1>1 DEF InLine
  <2> QED
    BY <1>0, <1>1, <1>2, <2>1, LineIs
<1>4. FirstSlot(C[c], k) = Len(C[c]) + 1 /\ Len(C[c]) \in Nat
  BY <1>1, <1>3, SlotInLeaf
<1>5. /\ D[c] = page.cells /\ page.cells \in Seq(LeafCell)
      /\ \A i \in 1..c : i # c => D[i] = C[i]
  BY <1>0, <1>1, <1>2, LeafsRewritten
<1>6. AtTheEnd(D, C, c, k)
  BY <1>2, <1>3, <1>4, <1>5 DEF AtTheEnd
<1>7. /\ Ordered(D, c) /\ Len(D[c]) = Len(C[c]) + 1
      /\ ~Found(C, c, k) /\ Found(D, c, k)
      /\ \A q : q # k => (Found(D, c, q) <=> Found(C, c, q))
      /\ \A cells : (\A u \in 1..(c - 1) : cells[u].key \in Nat) /\ Separated(cells, C, c)
                       => Separated(cells, D, c)
  BY <1>1, <1>3, <1>6, OrderedAtTheEnd
<1>8. ASSUME c >= 2 PROVE Separated(Page(4).cells, D, c)
  <2>1. root = 4 /\ Separated(Page(4).cells, C, c)
    BY <1>0, <1>8 DEF InLine
  <2>2. Branched(n)
    BY <1>0, <2>1, Reading DEF Nil
  <2>3. Len(Page(4).cells) = c - 1 /\ \A u \in 1..(c - 1) : Page(4).cells[u].key \in Nat
    BY <2>1, <2>2, NodeCellsAre, KeysAreNumbers DEF Separated
  <2> QED
    BY <1>7, <2>1, <2>3
<1>9. InLine(n, c)'
  BY <1>0, <1>1, <1>2, <1>3, <1>5, <1>7, <1>8, LineRewritten
<1>10. IsAscending'
  BY <1>2, <1>9, NoCall, NewAscending
<1>11. \A q : (HasRow(q) <=> Found(C, c, q)) /\ (HasRow(q)' <=> Found(D, c, q))
  BY <1>0, <1>2, <1>9, RowsOfLines
<1>12. RowsSeenBut(k) /\ ~HasRow(k) /\ HasRow(k)'
  BY <1>7, <1>11 DEF RowsSeenBut
<1>13. Request = [kind |-> "insert", key |-> k] /\ Request' = Idle
  BY <1>1, <1>2, RequestIs, RequestThenIs DEF RequestKnown
<1> QED
  BY <1>10, <1>12, <1>13 DEF Adds

(* The leaf to be split: it is the last one, all its room is taken by its  *)
(* records, and the root page has room.                                    *)
LEMMA FullLastLeaf ==
    ASSUME KeysAscend, NEW n, NEW c, Ascending(n, c), NEW p \in PageIds, SplitNeeded(p),
           NEW C, C = Leafs(pages, c)
    PROVE  /\ p = LeafNo(c) /\ C[c] = Page(p).cells /\ Len(C[c]) = LeafCap /\ Len(C[c]) >= 2
           /\ c <= InternalCap /\ NewPage(1) = n + 2 /\ NewPage(1) = LeafNo(c + 1) /\ ~CannotSplit(p)
<1>1. op.kind = "insert" /\ p = LeafFor(op.key) /\ ~HasRoom(Page(p)) /\ Shape(n) /\ InLine(n, c)
  BY DEF SplitNeeded, Ascending
<1>2. p = LeafNo(c) /\ c \in Nat \ {0} /\ c >= 1 /\ root # Nil /\ (c <= InternalCap \/ Len(C[c]) < LeafCap)
  BY <1>1, ToTheLastLeaf
<1>3. /\ C[c] = Page(p).cells /\ free = <<>> /\ Sized(n, c) /\ p \in Ids(n) /\ n \in Nat
  BY <1>1, <1>2, LineIs
<1>4. Len(C[c]) = Page(p).used /\ Page(p).used \in 0..LeafCap /\ LeafCap \in Nat /\ LeafCap >= 2
  <2>1. Page(LeafNo(c)).used = Len(Page(LeafNo(c)).cells)
    BY <1>1, <1>2 DEF InLine
  <2> QED
    BY <1>1, <1>2, <1>3, <2>1, Reading, TreeAssumption DEF KeysAscend
<1>5. Len(C[c]) = LeafCap /\ Len(C[c]) >= 2 /\ c <= InternalCap
  BY <1>1, <1>2, <1>4, TreeAssumption DEF HasRoom
<1>6. NewPage(1) = n + 2
  <2>1. PICK m, new : NewLeaf(n, m, new)
    BY <1>1, <1>2, NewLeafIs
  <2> QED
    BY <1>3, <2>1 DEF NewLeaf
<1>7. n + 2 = LeafNo(c + 1) /\ n + 2 # p
  BY <1>2, <1>3 DEF LeafNo, Sized, Ids
<1>8. Page(p).cells # <<>>
  BY <1>3, <1>5
<1> QED
  BY <1>2, <1>3, <1>5, <1>6, <1>7, <1>8 DEF CannotSplit

(* A separator above all others goes to the end of the root page.          *)
LastChildAdded(more, node, key, new) ==
    /\ more.rightmost = new /\ Len(more.cells) = Len(node.cells) + 1
    /\ \A u \in 1..Len(node.cells) : more.cells[u] = node.cells[u]
    /\ more.cells[Len(node.cells) + 1] = [key |-> key, child |-> node.rightmost]

LEMMA AddLastChild ==
    ASSUME NEW ids, NEW node, IsNodePage(node, ids), Len(node.cells) < InternalCap,
           NEW key \in Keys, \A u \in 1..Len(node.cells) : node.cells[u].key < key, NEW left, NEW new,
           NEW more, more = AddChild(node, key, left, new)
    PROVE  LastChildAdded(more, node, key, new)
<1> PICK cells \in Seq(NodeCell(ids)) : cells = node.cells
  BY DEF IsNodePage, NodePage
<1> PICK N \in Nat : N = Len(cells)
  BY LenProperties
<1>1. N \in 1..InternalCap /\ N < InternalCap /\ Sorted(cells) /\ node \in NodePage(ids) /\ node.rightmost \in ids
  BY DEF IsNodePage, NodePage
<1>2. FirstSlot(cells, key) = N + 1
  <2> PICK s : s = FirstSlot(cells, key)
    OBVIOUS
  <2>1. s \in 1..(N + 1) /\ \A i \in 1..N : cells[i].key < key <=> i < s
    BY <1>1, KeysAreNumbers, FirstSlotSplits
  <2>2. s \notin 1..N
    <3> SUFFICES ASSUME s \in 1..N PROVE FALSE
      OBVIOUS
    <3>1. cells[s].key < key
      OBVIOUS
    <3> QED
      BY <2>1, <3>1
  <2> QED
    BY <2>1, <2>2
<1> PICK c : c = [key |-> key, child |-> node.rightmost]
  OBVIOUS
<1> PICK grown : grown = InsertAt(cells, N + 1, c)
  OBVIOUS
<1>3. c \in NodeCell(ids) /\ N + 1 # 1 /\ N + 1 \in 1..(N + 1)
  BY <1>1 DEF NodeCell
<1>4. grown \in Seq(NodeCell(ids)) /\ Inserted(grown, cells, N + 1, c)
  BY <1>3, InsertAtIs
<1>5. /\ Len(grown) = N + 1 /\ grown[N + 1] = c
      /\ \A u \in 1..N : grown[u] = cells[u]
  <2>1. /\ Len(grown) = N + 1
        /\ \A j \in 1..(N + 1) : grown[j] = IF j < N + 1 THEN cells[j] ELSE IF j = N + 1 THEN c
                                            ELSE cells[j - 1]
    BY <1>4 DEF Inserted
  <2>2. \A u \in 1..N : u \in 1..(N + 1) /\ u < N + 1
    OBVIOUS
  <2>3. ~(N + 1 < N + 1)
    OBVIOUS
  <2> QED
    BY <1>3, <2>1, <2>2, <2>3
<1>6. more = [node EXCEPT !.cells = grown, !.rightmost = new]
  <2>1. more = LET slot  == N + 1
                   child == IF slot = 1 THEN left ELSE node.rightmost
                   given == IF N < InternalCap THEN InsertAt(cells, slot, [key |-> key, child |-> child])
                            ELSE cells
               IN  IF IsRightmost(slot, given)
                   THEN [node EXCEPT !.cells = given, !.rightmost = new]
                   ELSE [node EXCEPT !.cells = [given EXCEPT ![slot + 1].child = new]]
    BY <1>2 DEF AddChild
  <2>2. IsRightmost(N + 1, grown)
    BY <1>5 DEF IsRightmost
  <2> QED
    BY <1>1, <1>3, <2>1, <2>2
<1>7. more.rightmost = new /\ more.cells = grown
  BY <1>1, <1>6 DEF NodePage
<1> QED
  BY <1>5, <1>7 DEF LastChildAdded

(* The last leaf is split: what that does to the leaves.                   *)
LEMMA LineDivided ==
    ASSUME NEW n, Shape(n), NEW c, InLine(n, c), c >= 1, NEW m, m = n + 1,
           NEW pgs, Dividing(pgs, n, m, LeafNo(c), LeafNo(c + 1)), LeafNo(c + 1) = n + 2,
           \A q \in Ids(m) : pages'[q - 1] = pgs[q - 1],
           NEW C, C = Leafs(pages, c), NEW D, D = Leafs(pages', c + 1)
    PROVE  /\ InTwo(D, C, c) /\ D[c + 1] = Copied(Page(LeafNo(c)).cells)
           /\ Links(pages', c + 1)
           /\ pages'[LeafNo(c + 1) - 1].used = Len(pages'[LeafNo(c + 1) - 1].cells)
<1> PICK p, new : p = LeafNo(c) /\ new = LeafNo(c + 1)
  OBVIOUS
<1>1. /\ c \in Nat \ {0} /\ n \in Nat /\ Sized(n, c)
      /\ \A i \in 1..c : C[i] = Page(LeafNo(i)).cells
      /\ \A i \in 1..c : Page(LeafNo(i)).next = IF i < c THEN LeafNo(i + 1) ELSE Nil
      /\ \A i \in 1..c : LeafNo(i) \in Ids(n)
      /\ \A i \in 1..c : LeafNo(i) = p => i = c
  BY LineIs, LeafNoIs
<1>2. Ids(m) = Ids(n) \union {new} /\ new \notin Ids(n) /\ p # new
  <2>1. new = n + 2 /\ p \in Ids(n) /\ n >= 1 /\ n # 2
    BY <1>1 DEF Sized
  <2>2. p # new /\ new \notin Ids(n)
    BY <1>1, <2>1 DEF Ids
  <2>3. \A q \in 2..(m + 1) : q \in 2..(n + 1) \/ q = new
    BY <1>1, <2>1
  <2>4. new \in 2..(m + 1) /\ new # 4 /\ \A q \in 2..(n + 1) : q \in 2..(m + 1)
    BY <1>1, <2>1
  <2> QED
    BY <2>2, <2>3, <2>4 DEF Ids
<1>3. \A q \in Ids(m) : /\ pages'[q - 1].cells = IF q = new THEN Copied(Page(p).cells)
                                                 ELSE IF q = p THEN Kept(Page(p).cells)
                                                 ELSE Page(q).cells
                        /\ pages'[q - 1].next = IF q = p THEN new
                                                ELSE IF q = new THEN Page(p).next ELSE Page(q).next
  BY <1>2 DEF Dividing, LinkedAfter
<1>4. pages'[new - 1].used = Len(Copied(Page(p).cells)) /\ pages'[new - 1].cells = Copied(Page(p).cells)
      /\ pages'[new - 1].next = Nil
  BY <1>1, <1>2, <1>3 DEF Dividing
<1>5. \A i \in 1..c : i \in 1..(c + 1) /\ (i # c => i < c)
  BY <1>1
<1>6. D[c + 1] = Copied(Page(p).cells)
  BY <1>1, <1>4 DEF Leafs
<1>7. ASSUME NEW i \in 1..c PROVE D[i] = IF i = c THEN Kept(C[c]) ELSE C[i]
  <2>1. D[i] = pages'[LeafNo(i) - 1].cells
    BY <1>5 DEF Leafs
  <2>2. LeafNo(i) \in Ids(m) /\ LeafNo(i) # new /\ (i # c => LeafNo(i) # p)
    BY <1>1, <1>2
  <2> QED
    BY <1>1, <1>3, <2>1, <2>2
<1>8. InTwo(D, C, c)
  BY <1>1, <1>6, <1>7 DEF InTwo
<1>9. Links(pages', c + 1)
  <2> SUFFICES ASSUME NEW i \in 1..(c + 1)
               PROVE  pages'[LeafNo(i) - 1].next = IF i < c + 1 THEN LeafNo(i + 1) ELSE Nil
    BY DEF Links
  <2>1. CASE i = c + 1
    BY <1>1, <1>4, <2>1
  <2>2. CASE i # c + 1
    <3>1. i \in 1..c /\ i < c + 1
      BY <1>1, <2>2
    <3>2. LeafNo(i) \in Ids(m) /\ LeafNo(i) # new /\ (i # c => LeafNo(i) # p)
      BY <1>1, <1>2, <3>1
    <3>3. pages'[LeafNo(i) - 1].next = IF i = c THEN new ELSE Page(LeafNo(i)).next
      BY <1>3, <3>2
    <3> QED
      BY <1>1, <1>5, <3>1, <3>3
  <2> QED
    BY <2>1, <2>2
<1> QED
  BY <1>4, <1>6, <1>8, <1>9

(* What remains to be shown of a split: where the root page points.        *)
LEMMA SplitAscends ==
    ASSUME KeysAscend, NEW n, NEW c, Ascending(n, c), op.kind = "insert", op' = op,
           NEW C, C = Leafs(pages, c), NEW D, D = Leafs(pages', c + 1),
           c \in Nat \ {0}, InTwo(D, C, c), Len(C[c]) = LeafCap, Len(C[c]) >= 2,
           NEW m, m = c + 2, Shape(m)', root' = 4, free' = <<>>,
           Points(pages'[3], c + 1), Separated(pages'[3].cells, D, c + 1),
           Links(pages', c + 1),
           pages'[LeafNo(c + 1) - 1].used = Len(pages'[LeafNo(c + 1) - 1].cells)
    PROVE  Stutters /\ IsAscending'
<1> PICK d \in Nat : d = c + 1
  OBVIOUS
<1>1. /\ Shape(n) /\ InLine(n, c) /\ op # Failed /\ Ordered(C, c)
      /\ \A i \in 1..c : AllBelow(C[i], op.key)
  BY ToTheLastLeaf DEF Ascending, InLine
<1>2. /\ Ordered(D, d) /\ Len(D[d]) < Len(C[c])
      /\ \A q : Found(D, d, q) <=> Found(C, c, q)
      /\ \A q : (\A i \in 1..c : AllBelow(C[i], q)) => \A i \in 1..d : AllBelow(D[i], q)
  <2> PICK key : key = D[c + 1][1].key
    OBVIOUS
  <2>1. /\ Ordered(D, c + 1) /\ Len(D[c + 1]) < Len(C[c])
        /\ \A q : Found(D, c + 1, q) <=> Found(C, c, q)
        /\ \A q : (\A i \in 1..c : AllBelow(C[i], q)) => \A i \in 1..(c + 1) : AllBelow(D[i], q)
    <3>1. Ordered(C, c) /\ InTwo(D, C, c) /\ Len(C[c]) >= 2 /\ key = D[c + 1][1].key
      BY <1>1
    <3> QED
      BY ONLY <3>1, c \in Nat \ {0}, OrderedInTwo
  <2> QED
    BY <2>1
<1>3. InLine(m, d)'
  <2>1. m = d + 1 /\ d >= 2 /\ 4 - 1 = 3
    OBVIOUS
  <2> QED
    BY <1>2, <2>1 DEF InLine, Page
<1>4. Arrives(D, d)'
  <2>1. Len(D[d]) < LeafCap /\ op'.key = op.key
    BY <1>2
  <2> QED
    BY <1>1, <1>2, <2>1 DEF Arrives
<1>5. IsAscending'
  BY <1>3, <1>4, NoCall, NewAscending
<1>6. \A q : (HasRow(q) <=> Found(C, c, q)) /\ (HasRow(q)' <=> Found(D, d, q))
  BY <1>1, <1>3, RowsOfLines
<1>7. RowsSeen
  BY <1>2, <1>6 DEF RowsSeen
<1>8. Request' = Request
  BY DEF Request, AtRest
<1> QED
  BY <1>5, <1>7, <1>8 DEF Stutters

LEMMA SplitRootAscends ==
    ASSUME KeysAscend, NEW n, NEW c, Ascending(n, c), SplitRoot
    PROVE  Stutters /\ IsAscending'
<1> PICK C : C = Leafs(pages, c)
  OBVIOUS
<1>1. PICK p \in PageIds : SplitNeeded(p) /\ p = root
  BY DEF SplitRoot
<1>2. /\ op.kind = "insert" /\ Shape(n) /\ InLine(n, c)
      /\ p = LeafNo(c) /\ C[c] = Page(p).cells /\ Len(C[c]) = LeafCap /\ Len(C[c]) >= 2
  BY <1>1, FullLastLeaf DEF SplitNeeded, Ascending
<1>3. /\ n = 1 /\ root = 2 /\ NewLeaf(1, 2, 3)
      /\ free' = <<>> /\ op' = op /\ root' = 4
      /\ pages'[3] = [level |-> "internal", rightmost |-> 3,
                      cells |-> <<[key |-> Separator(2), child |-> 2]>>]
      /\ Shape(3)'
  BY <1>2, SplitRootDoes
<1>4. PICK pgs : Dividing(pgs, 1, 2, 2, 3) /\ \A q \in {2, 3} : pages'[q - 1] = pgs[q - 1]
  BY <1>2, SplitRootDoes
<1>5. c = 1 /\ p = 2
  <2>1. root = 2 /\ 2 # 4 /\ 2 # Nil
    BY <1>3 DEF Nil
  <2> QED
    BY <1>1, <1>2, <2>1 DEF InLine
<1>6. LeafNo(1) = 2 /\ LeafNo(2) = 3 /\ Ids(2) = {2, 3}
  BY DEF LeafNo, Ids
<1> PICK D : D = Leafs(pages', 2)
  OBVIOUS
<1>7. /\ InTwo(D, C, 1) /\ D[2] = Copied(Page(2).cells) /\ Links(pages', 2)
      /\ pages'[LeafNo(2) - 1].used = Len(pages'[LeafNo(2) - 1].cells)
  <2>1. 1 + 1 = 2 /\ 1 + 2 = 3
    OBVIOUS
  <2> QED
    BY <1>2, <1>3, <1>4, <1>5, <1>6, <2>1, LineDivided
<1> PICK key : key = D[2][1].key
  OBVIOUS
<1>8. Parts(key, 1, D, 2)
  <2>1. Ordered(C, 1) /\ 1 \in Nat \ {0} /\ 1 + 1 = 2
    BY <1>2, <1>5 DEF InLine
  <2> QED
    BY <1>2, <1>5, <1>7, <2>1, OrderedInTwo
<1> PICK e : e = [key |-> key, child |-> 2]
  OBVIOUS
<1>9. pages'[3].rightmost = 3 /\ pages'[3].cells = <<e>>
  <2>1. key = Separator(2)
    BY <1>7 DEF Separator
  <2> QED
    BY <1>3, <2>1
<1>10. Len(<<e>>) = 1 /\ <<e>>[1] = e /\ e.key = key /\ e.child = 2 /\ 1..1 = {1}
  OBVIOUS
<1>11. Points(pages'[3], 2) /\ Separated(pages'[3].cells, D, 2)
  BY <1>6, <1>8, <1>9, <1>10 DEF Points, Separated
<1>12. 1 + 1 = 2 /\ 1 + 2 = 3 /\ 1 \in Nat \ {0}
  OBVIOUS
<1> QED
  BY <1>2, <1>3, <1>5, <1>7, <1>11, <1>12, SplitAscends

LEMMA SplitBelowRootAscends ==
    ASSUME KeysAscend, NEW n, NEW c, Ascending(n, c), SplitBelowRoot
    PROVE  Stutters /\ IsAscending'
<1> PICK C : C = Leafs(pages, c)
  OBVIOUS
<1>1. PICK p \in PageIds : SplitNeeded(p)
  BY DEF SplitBelowRoot
<1>2. /\ op.kind = "insert" /\ Shape(n) /\ InLine(n, c) /\ p = LeafFor(op.key)
      /\ p = LeafNo(c) /\ C[c] = Page(p).cells /\ Len(C[c]) = LeafCap /\ Len(C[c]) >= 2
      /\ c <= InternalCap /\ NewPage(1) = n + 2 /\ NewPage(1) = LeafNo(c + 1)
  BY <1>1, FullLastLeaf DEF SplitNeeded, Ascending
<1>3. PICK m, new, pgs : /\ NewLeaf(n, m, new) /\ Dividing(pgs, n, m, p, new)
                         /\ \A q \in Ids(m) : pages'[q - 1] = pgs[q - 1]
                         /\ free' = FreeAfter(1) /\ op' = op /\ Branched(n) /\ root' = root
                         /\ pages'[3] = AddChild(Page(4), Separator(p), p, new)
                         /\ Shape(m)'
  <2>1. PICK m, new, q, pgs : /\ NewLeaf(n, m, new) /\ q \in Ids(n) /\ q # new
                              /\ Dividing(pgs, n, m, q, new)
                              /\ \A r \in Ids(m) : pages'[r - 1] = pgs[r - 1]
                              /\ Using({q, new}) /\ free' = FreeAfter(1) /\ op' = op
                              /\ Branched(n)
                              /\ q = LeafFor(op.key) /\ ~HasRoom(Page(q)) /\ root' = root
                              /\ pages'[3] = AddChild(Page(4), Separator(q), q, new)
                              /\ Shape(m)'
    BY <1>2, SplitBelowRootDoes
  <2> QED
    BY <1>2, <2>1, Zenon
<1> PICK node : node = Page(4)
  OBVIOUS
<1> PICK cells : cells = node.cells
  OBVIOUS
<1>4. /\ c \in Nat /\ c >= 2 /\ n = c + 1 /\ root = 4 /\ Points(node, c) /\ Separated(cells, C, c)
      /\ Ordered(C, c)
  BY <1>2, <1>3 DEF InLine, Branched, Nil
<1>5. /\ new = LeafNo(c + 1) /\ LeafNo(c + 1) = n + 2 /\ m = n + 1 /\ free' = <<>>
  <2>1. new = n + 2 /\ n + 2 \notin Ids(n)
    BY <1>2, <1>3 DEF NewLeaf, Ids
  <2> QED
    BY <1>2, <1>3, <2>1 DEF NewLeaf
<1> PICK D : D = Leafs(pages', c + 1)
  OBVIOUS
<1>6. /\ InTwo(D, C, c) /\ D[c + 1] = Copied(Page(p).cells) /\ Links(pages', c + 1)
      /\ pages'[LeafNo(c + 1) - 1].used = Len(pages'[LeafNo(c + 1) - 1].cells)
  <2>1. c >= 1
    BY <1>4
  <2> QED
    BY <1>2, <1>3, <1>5, <2>1, LineDivided
<1> PICK key : key = D[c + 1][1].key
  OBVIOUS
<1>7. /\ key \in Nat /\ Parts(key, c, D, c + 1)
      /\ \A u \in 1..(c - 1) : \A q \in Nat : Parts(q, u, C, c) => Parts(q, u, D, c + 1) /\ q < key
  <2>1. c \in Nat \ {0}
    BY <1>4
  <2>2. Ordered(C, c) /\ Len(C[c]) >= 2 /\ InTwo(D, C, c)
    BY <1>2, <1>4, <1>6
  <2>3. /\ key \in Nat /\ Parts(key, c, D, c + 1)
        /\ \A u \in 1..(c - 1) : \A q \in Nat : Parts(q, u, C, c) => Parts(q, u, D, c + 1) /\ q < key
    BY <2>1, <2>2, OrderedInTwo
  <2> QED
    BY <2>3
<1>8. key = Separator(p) /\ key \in Keys
  <2>1. key = Separator(p)
    BY <1>6 DEF Separator
  <2>2. p \in Ids(n) /\ Page(p).cells \in Seq(LeafCell) /\ Page(p).cells # <<>>
    BY <1>1, <1>2, Reading, FullLeaf
  <2> QED
    BY <2>1, <2>2, SeparatorIsKey DEF Separator
<1>9. /\ IsNodePage(node, Ids(n)) /\ Len(cells) = c - 1 /\ node.rightmost = LeafNo(c)
      /\ \A u \in 1..(c - 1) : /\ cells[u].child = LeafNo(u) /\ cells[u].key \in Nat
                               /\ Parts(cells[u].key, u, C, c)
  BY <1>3, <1>4, NodeCellsAre, KeysAreNumbers DEF Branched, Page, Points, Separated
<1> PICK more : more = AddChild(node, key, p, new)
  OBVIOUS
<1>10. /\ more.rightmost = LeafNo(c + 1) /\ Len(more.cells) = c
       /\ \A u \in 1..(c - 1) : more.cells[u] = cells[u]
       /\ more.cells[c] = [key |-> key, child |-> LeafNo(c)]
  <2>1. Len(cells) < InternalCap /\ (c - 1) + 1 = c
    BY <1>2, <1>4, <1>9, TreeAssumption
  <2>2. \A u \in 1..(c - 1) : cells[u].key < key
    BY <1>7, <1>9
  <2>3. \A u \in 1..Len(node.cells) : node.cells[u].key < key
    BY <1>9, <2>2
  <2>4. LastChildAdded(more, node, key, new)
    <3>1. IsNodePage(node, Ids(n)) /\ Len(node.cells) < InternalCap /\ key \in Keys
      BY <1>8, <1>9, <2>1
    <3> QED
      BY <2>3, <3>1, AddLastChild
  <2> QED
    BY <1>5, <1>9, <2>1, <2>4 DEF LastChildAdded
<1>11. \A u \in 1..c : u \in 1..(c - 1) \/ u = c
  BY <1>4
<1>12. Points(more, c + 1)
  <2> SUFFICES ASSUME NEW u \in 1..c PROVE more.cells[u].child = LeafNo(u)
    BY <1>4, <1>10 DEF Points
  <2>1. CASE u \in 1..(c - 1)
    BY <1>9, <1>10, <2>1
  <2>2. CASE u = c
    BY <1>10, <2>2
  <2> QED
    BY <1>11, <2>1, <2>2
<1>13. Separated(more.cells, D, c + 1)
  <2> SUFFICES ASSUME NEW u \in 1..c PROVE Parts(more.cells[u].key, u, D, c + 1)
    BY <1>4, <1>10 DEF Separated
  <2>1. CASE u \in 1..(c - 1)
    BY <1>7, <1>9, <1>10, <2>1
  <2>2. CASE u = c
    BY <1>7, <1>10, <2>2
  <2> QED
    BY <1>11, <2>1, <2>2
<1>14. pages'[3] = more
  BY <1>3, <1>8
<1>15. c \in Nat \ {0} /\ m = c + 2
  BY <1>4, <1>5
<1> QED
  BY <1>2, <1>3, <1>4, <1>5, <1>6, <1>12, <1>13, <1>14, <1>15, SplitAscends

(* The removal under way, and where it has come to.                        *)
LEMMA RemovalInLine ==
    ASSUME KeysAscend, NEW n, NEW c, Ascending(n, c), op.kind = "remove", NEW C, C = Leafs(pages, c)
    PROVE  /\ Shape(n) /\ InLine(n, c) /\ c \in Nat /\ c >= 1 /\ Deleting /\ PurgeAt = 1
           /\ op \in RemovingFrom(Ids(n)) /\ op.key \in Keys /\ op.slot \in Nat \ {0}
           /\ Request = [kind |-> "remove", key |-> op.key]
           /\ \E a \in 1..c : op.leaf = LeafNo(a) /\ (~Found(C, c, op.key) \/ AtRecord(C, c, a))
<1>1. /\ Shape(n) /\ InLine(n, c) /\ Deleting
      /\ \E a \in 1..c : op.leaf = LeafNo(a) /\ (~Found(C, c, op.key) \/ AtRecord(C, c, a))
  BY DEF Ascending, Departs
<1>2. op \in RemovingFrom(Ids(n)) /\ root # Nil /\ op.key \in Keys /\ op.slot \in Nat \ {0}
  BY <1>1, Calls
<1>3. c \in Nat /\ c >= 1
  BY <1>1, <1>2 DEF InLine
<1> QED
  BY <1>1, <1>2, <1>3, RequestIs DEF KeysAscend, RequestKnown

(* What a removal at its record sees there.                                *)
LEMMA RecordIsLive ==
    ASSUME NEW n, Shape(n), NEW c, InLine(n, c), c >= 1, NEW C, C = Leafs(pages, c), NEW a \in 1..c,
           op.leaf = LeafNo(a), op.kind = "remove"
    PROVE  /\ AtRecord(C, c, a) => AtLiveKey /\ Cell(op).key = op.key
           /\ AtLiveKey => Found(C, c, op.key)
<1> PICK cells : cells = C[a]
  OBVIOUS
<1>1. cells = Page(op.leaf).cells /\ GoodLeaf(cells)
  BY LineIs
<1>2. cells \in Seq(LeafCell) /\ Len(cells) \in Nat /\ op.slot \in Nat \ {0} /\ op.key \in Nat
  BY <1>1, Calls, CellKeys, KeysAreNumbers DEF GoodLeaf
<1>3. ASSUME AtRecord(C, c, a) PROVE AtLiveKey /\ Cell(op).key = op.key
  <2>1. op.slot \in 1..Len(cells) /\ cells[op.slot].key = op.key
    BY <1>3 DEF AtRecord
  <2>2. cells[op.slot] \in LeafCell /\ ~cells[op.slot].deleted
    BY <1>1, <1>2, <2>1, ElementOfSeq DEF GoodLeaf, NoneMarked
  <2>3. cells[op.slot] = [key |-> op.key, deleted |-> FALSE]
    BY <2>1, <2>2, RowCell
  <2> QED
    BY <1>1, <2>1, <2>3 DEF AtLiveKey, AtSlot, Removing, Cell
<1>4. ASSUME AtLiveKey PROVE Found(C, c, op.key)
  <2>1. op.slot \in 1..Len(cells) /\ cells[op.slot] = [key |-> op.key, deleted |-> FALSE]
    BY <1>1, <1>2, <1>4 DEF AtLiveKey, AtSlot, Cell
  <2>2. cells[op.slot].key = op.key
    BY <2>1
  <2>3. ~NoKey(cells, op.key)
    BY <2>1, <2>2 DEF NoKey
  <2> QED
    BY <2>3 DEF Found
<1> QED
  BY <1>3, <1>4

LEMMA MovesAscend ==
    ASSUME KeysAscend, NEW n, NEW c, Ascending(n, c), RemoveNextLeaf \/ RemoveDone \/ RemoveSkip
    PROVE  (Stutters \/ TakesOut) /\ IsAscending'
<1> PICK C : C = Leafs(pages, c)
  OBVIOUS
<1>0. op.kind = "remove"
  BY DEF RemoveNextLeaf, RemoveDone, RemoveSkip, AtSlot, Removing
<1>1. /\ Shape(n) /\ InLine(n, c) /\ c \in Nat /\ c >= 1 /\ Deleting
      /\ op \in RemovingFrom(Ids(n)) /\ op.key \in Keys /\ op.slot \in Nat \ {0}
      /\ Request = [kind |-> "remove", key |-> op.key]
      /\ \E a \in 1..c : op.leaf = LeafNo(a) /\ (~Found(C, c, op.key) \/ AtRecord(C, c, a))
  BY <1>0, RemovalInLine
<1> PICK k \in Keys : k = op.key
  BY <1>1
<1>2. PICK a \in 1..c : op.leaf = LeafNo(a) /\ (~Found(C, c, k) \/ AtRecord(C, c, a))
  BY <1>1
<1>3. ~AtRecord(C, c, a)
  <2> SUFFICES ASSUME AtRecord(C, c, a) PROVE FALSE
    OBVIOUS
  <2>1. AtLiveKey /\ Cell(op).key = k
    BY <1>0, <1>1, <1>2, RecordIsLive
  <2>2. ~(k > k)
    BY KeysAreNumbers
  <2> QED
    BY <2>1, <2>2 DEF RemoveNextLeaf, RemoveDone, RemoveSkip, AtLiveKey
<1>4. ~Found(C, c, k)
  BY <1>2, <1>3
<1>5. /\ UNCHANGED <<pages, root, free, orphans>> /\ Shape(n)'
      /\ \/ op' = Idle
         \/ op' \in RemovingFrom(Ids(n)) /\ op'.leaf \in {op.leaf, Page(op.leaf).next}
  BY <1>1, MovesShape
<1>6. op' = Idle \/ op'.key = k
  BY <1>1 DEF RemoveNextLeaf, RemoveDone, RemoveSkip, OnTo, RemovingFrom
<1>7. InLine(n, c)' /\ Leafs(pages', c) = C
  BY <1>1, <1>5, LineKept
<1>8. RowsSeen /\ ~HasRow(k)'
  <2>1. RowsSeen
    BY <1>5, SameRows
  <2>2. HasRow(k)' <=> Found(C, c, k)
    BY <1>1, <1>5, <1>7, RowsOfLines
  <2> QED
    BY <1>4, <2>1, <2>2
<1>9. CASE op' = Idle
  <2>1. IsAscending'
    BY <1>5, <1>7, <1>9, NoCall, NewAscending
  <2>2. Request' = Idle
    BY <1>9, RequestThenIs DEF RequestKnown
  <2> QED
    BY <1>1, <1>8, <2>1, <2>2 DEF TakesOut, RowsSeen, RowsSeenBut
<1>10. CASE op' # Idle
  <2>1. op' \in RemovingFrom(Ids(n)) /\ op'.leaf \in {op.leaf, Page(op.leaf).next} /\ op'.key = k
        /\ op'.kind = "remove" /\ op'.leaf \in Ids(n)
    BY <1>5, <1>6, <1>10 DEF RemovingFrom
  <2>2. Request' = Request
    BY <1>1, <2>1, RequestThenIs DEF RequestKnown
  <2>3. \E b \in 1..c : op'.leaf = LeafNo(b)
    <3>1. Page(LeafNo(a)).next = IF a < c THEN LeafNo(a + 1) ELSE Nil
      BY <1>1, LineIs
    <3>2. op'.leaf # Nil
      BY <1>1, <2>1, Reading, IdTypes
    <3>3. CASE op'.leaf = op.leaf
      BY <1>2, <3>3
    <3>4. CASE op'.leaf = Page(op.leaf).next
      <4>1. a < c /\ op'.leaf = LeafNo(a + 1)
        BY <1>2, <3>1, <3>2, <3>4
      <4>2. a + 1 \in 1..c
        BY <1>1, <4>1
      <4> QED
        BY <4>1, <4>2
    <3> QED
      BY <2>1, <3>3, <3>4
  <2>4. Departs(C, c)'
    BY <1>1, <1>4, <2>1, <2>3 DEF Departs
  <2>5. IsAscending'
    BY <1>5, <1>7, <2>1, <2>4, NoCall, NewAscending
  <2> QED
    BY <1>8, <2>2, <2>5 DEF Stutters
<1> QED
  BY <1>9, <1>10

(* The record of the removal is taken out of its leaf.                     *)
LEMMA RecordPurged ==
    ASSUME KeysAscend, NEW n, NEW c, Ascending(n, c), AtLiveKey, NEW C, C = Leafs(pages, c)
    PROVE  \E a \in 1..c : /\ op.leaf = LeafNo(a) /\ AtRecord(C, c, a)
                           /\ Without(Purged.cells, C[a], op.key)
                           /\ c >= 2 => Len(Purged.cells) >= 1
<1>0. op.kind = "remove"
  BY DEF AtLiveKey, AtSlot, Removing
<1>1. Shape(n) /\ InLine(n, c) /\ c >= 1
      /\ \E a \in 1..c : op.leaf = LeafNo(a) /\ (~Found(C, c, op.key) \/ AtRecord(C, c, a))
  BY <1>0, RemovalInLine
<1> PICK a \in 1..c : op.leaf = LeafNo(a) /\ (~Found(C, c, op.key) \/ AtRecord(C, c, a))
  BY <1>1
<1>2. AtRecord(C, c, a)
  BY <1>0, <1>1, RecordIsLive
<1>3. C[a] = Page(op.leaf).cells /\ GoodLeaf(C[a])
  <2>1. \A i \in 1..c : C[i] = Page(LeafNo(i)).cells /\ GoodLeaf(C[i])
    BY <1>1, LineIs
  <2> QED
    BY <2>1
<1> PICK marked : marked = Marked.cells
  OBVIOUS
<1> PICK live : live = Purged.cells
  OBVIOUS
<1>4. Marking(marked, C[a], op.slot, op.key)
  BY <1>1, <1>3, MarkedDoes
<1>5. PICK at : Unmarked(live, marked, Len(marked), at)
  BY <1>1, PurgedDoes
<1>6. Without(live, C[a], op.key) /\ (Len(C[a]) >= 2 => Len(live) >= 1)
  BY <1>3, <1>4, <1>5, PurgedLeafIs
<1> QED
  BY <1>2, <1>6 DEF AtRecord

LEMMA PurgeAscends ==
    ASSUME KeysAscend, NEW n, NEW c, Ascending(n, c), RemovePurge
    PROVE  TakesOut /\ IsAscending'
<1> PICK C : C = Leafs(pages, c)
  OBVIOUS
<1> PICK D : D = Leafs(pages', c)
  OBVIOUS
<1>0. Shape(n) /\ AtLiveKey /\ op.kind = "remove" /\ Purged.cells # <<>>
  BY DEF Ascending, RemovePurge, AtLiveKey, AtSlot, Removing
<1>1. /\ InLine(n, c) /\ c \in Nat /\ c >= 1 /\ Deleting
      /\ op.key \in Keys /\ Request = [kind |-> "remove", key |-> op.key]
  BY <1>0, RemovalInLine
<1> PICK k \in Keys : k = op.key
  BY <1>1
<1>2. PICK a \in 1..c : /\ op.leaf = LeafNo(a) /\ AtRecord(C, c, a)
                        /\ Without(Purged.cells, C[a], k)
                        /\ c >= 2 => Len(Purged.cells) >= 1
  BY <1>0, RecordPurged
<1>3. Rewritten(n, LeafNo(a), Purged) /\ UNCHANGED <<root, free, op, orphans>> /\ Shape(n)'
  BY <1>0, <1>2, RemovePurgeDoes
<1>4. D[a] = Purged.cells /\ \A i \in 1..c : i # a => D[i] = C[i]
  BY <1>0, <1>1, <1>3, LeafsRewritten
<1>5. Ordered(C, c) /\ op.slot \in 1..Len(C[a]) /\ C[a][op.slot].key = k
  BY <1>1, <1>2 DEF InLine, AtRecord
<1>6. /\ Ordered(D, c) /\ ~Found(D, c, k)
      /\ \A q : q # k => (Found(D, c, q) <=> Found(C, c, q))
      /\ \A q, u : Parts(q, u, C, c) => Parts(q, u, D, c)
  <2> PICK slot \in 1..Len(C[a]) : C[a][slot].key = k
    BY <1>5
  <2>1. /\ Without(D[a], C[a], k) /\ (c >= 2 => Len(D[a]) >= 1)
        /\ \A i \in 1..c : i # a => D[i] = C[i]
    BY <1>2, <1>4
  <2>2. Ordered(C, c) /\ c \in Nat
    BY <1>1, <1>5
  <2> QED
    BY <2>1, <2>2, OrderedWithout
<1>7. c >= 2 => Separated(Page(4).cells, D, c)
  BY <1>6, <1>1 DEF InLine, Separated
<1>8. Purged.used = Len(Purged.cells)
  BY <1>0, PurgedDoes
<1>9. InLine(n, c)'
  BY <1>0, <1>1, <1>3, <1>6, <1>7, <1>8, LineRewritten
<1>10. Departs(D, c)'
  BY <1>1, <1>2, <1>3, <1>6 DEF Departs
<1>11. IsAscending'
  BY <1>0, <1>3, <1>9, <1>10, NoCall, NewAscending
<1>12. \A q : (HasRow(q) <=> Found(C, c, q)) /\ (HasRow(q)' <=> Found(D, c, q))
  BY <1>0, <1>1, <1>3, <1>9, RowsOfLines
<1>13. RowsSeenBut(k) /\ ~HasRow(k)'
  BY <1>6, <1>12 DEF RowsSeenBut
<1>14. Request' = Request
  BY <1>3 DEF Request, AtRest
<1> QED
  BY <1>1, <1>11, <1>13, <1>14 DEF TakesOut

LEMMA FreeAscends ==
    ASSUME KeysAscend, NEW n, NEW c, Ascending(n, c), RemoveFree
    PROVE  TakesOut /\ IsAscending'
<1> PICK C : C = Leafs(pages, c)
  OBVIOUS
<1>0. Shape(n) /\ AtLiveKey /\ op.kind = "remove" /\ Purged.cells = <<>>
  BY DEF Ascending, RemoveFree, AtLiveKey, AtSlot, Removing
<1>1. /\ InLine(n, c) /\ c \in Nat /\ c >= 1
      /\ op.key \in Keys /\ Request = [kind |-> "remove", key |-> op.key]
  BY <1>0, RemovalInLine
<1> PICK k \in Keys : k = op.key
  BY <1>1
<1>2. PICK a \in 1..c : op.leaf = LeafNo(a) /\ Without(<<>>, C[a], k) /\ (c >= 2 => Len(<<>>) >= 1)
  BY <1>0, RecordPurged
<1>3. c = 1 /\ a = 1 /\ root = 2 /\ n = 1
  <2>1. Len(<<>>) = 0
    OBVIOUS
  <2>2. c = 1 /\ a = 1
    BY <1>1, <1>2, <2>1
  <2> QED
    BY <1>1, <2>2 DEF InLine, Nil
<1>4. Alone(n)
  BY <1>0, <1>3, Reading DEF Nil
<1>5. /\ root' = Nil /\ Shape(n)' /\ op \in RemovingFrom(Ids(n))
      /\ op' = Idle \/ (op' \in RemovingFrom(Ids(n)) /\ op'.leaf = Page(op.leaf).next)
  BY <1>0, <1>4, RemoveFreeDoes
<1>6. op' = Idle
  <2>1. Page(op.leaf).next = Nil
    BY <1>0, <1>1, <1>2, <1>3, LineIs
  <2>2. \A e \in RemovingFrom(Ids(n)) : e.leaf \in Ids(n) /\ e.leaf # Nil
    <3>1. Nil \notin Ids(n)
      BY DEF Ids, Nil
    <3> QED
      BY <3>1 DEF RemovingFrom
  <2> QED
    BY <1>5, <2>1, <2>2
<1>7. InLine(n, 0)'
  <2>1. 1..0 = {}
    OBVIOUS
  <2>2. Ordered(Leafs(pages', 0), 0) /\ Links(pages', 0)
    BY <2>1 DEF Ordered, Links
  <2> QED
    BY <1>5, <2>2 DEF InLine
<1>8. IsAscending'
  BY <1>5, <1>6, <1>7, NoCall, NewAscending
<1>9. \A q \in Keys : ~HasRow(q)'
  BY <1>5 DEF HasRow
<1>10. \A q \in Keys \ {k} : ~HasRow(q)
  <2>1. \A q : q # k => NoKey(C[1], q)
    <3>1. \A q : NoKey(<<>>, q)
      BY DEF NoKey
    <3> QED
      BY <1>2, <1>3, <3>1 DEF Without
  <2>2. \A q : q # k => ~Found(C, c, q)
    BY <1>3, <2>1 DEF Found
  <2>3. \A q : HasRow(q) <=> Found(C, c, q)
    BY <1>0, <1>1, RowsInLineAre DEF RowsInLine
  <2> QED
    BY <2>2, <2>3
<1>11. RowsSeenBut(k) /\ ~HasRow(k)'
  BY <1>9, <1>10 DEF RowsSeenBut
<1>12. Request' = Idle
  BY <1>6, RequestThenIs DEF RequestKnown
<1> QED
  BY <1>1, <1>8, <1>11, <1>12 DEF TakesOut

LEMMA NextAscends ==
    ASSUME KeysAscend, IsAscending, [Next]_vars
    PROVE  IsAscending' /\ (Stutters \/ Asks \/ Adds \/ TakesOut)
<1> PICK n, c : Ascending(n, c)
  BY DEF IsAscending
<1>0. Shape(n) /\ InLine(n, c) /\ op # Failed
  BY DEF Ascending
<1>1. CASE UNCHANGED vars
  <2>1. Shape(n)'
    BY <1>0, <1>1 DEF vars, Shape, Alone, Branched, Page
  <2>2. /\ InLine(n, c)' /\ Leafs(pages', c) = Leafs(pages, c) /\ op' = op
        /\ UNCHANGED <<pages, root>>
    BY <1>0, <1>1, LineKept DEF vars
  <2>3. Arrives(Leafs(pages, c), c)' /\ Departs(Leafs(pages, c), c)'
    BY <2>2 DEF Ascending, Arrives, Departs, AtRecord
  <2>4. IsAscending'
    BY <1>0, <2>1, <2>2, <2>3 DEF Ascending, IsAscending
  <2>5. RowsSeen /\ Request' = Request
    BY <2>2, SameRows DEF Request, AtRest
  <2> QED
    BY <2>4, <2>5 DEF Stutters
<1>2. ASSUME NEW k \in Keys, StartInsert(k) PROVE IsAscending' /\ Asks
  BY <1>2, StartInsertAscends
<1>3. ASSUME NEW k \in Keys, StartRemove(k) PROVE IsAscending' /\ Asks
  BY <1>3, StartRemoveAscends
<1>4. CASE InsertIntoLeaf
  BY <1>4, InsertIntoLeafAscends
<1>5. CASE ThrowInSplit
  <2>1. PICK p \in PageIds : SplitNeeded(p) /\ CannotSplit(p)
    BY <1>5 DEF ThrowInSplit
  <2> QED
    BY <2>1, FullLastLeaf
<1>6. CASE SplitRoot
  BY <1>6, SplitRootAscends
<1>7. CASE SplitBelowRoot
  BY <1>7, SplitBelowRootAscends
<1>8. CASE RemoveNextLeaf \/ RemoveDone \/ RemoveSkip
  BY <1>8, MovesAscend
<1>9. CASE RemoveMark
  <2>1. op.kind = "remove"
    BY <1>9 DEF RemoveMark, AtLiveKey, AtSlot, Removing
  <2>2. PurgeAt = 1
    BY <2>1, RemovalInLine
  <2> QED
    BY <1>0, <1>9, <2>2, RemoveMarkDoes
<1>10. CASE RemovePurge
  BY <1>10, PurgeAscends
<1>11. CASE RemoveFree
  BY <1>11, FreeAscends
<1> QED
  BY <1>1, <1>2, <1>3, <1>4, <1>5, <1>6, <1>7, <1>8, <1>9, <1>10, <1>11 DEF Next, InsertStep, RemoveStep

LEMMA InitAscends == Init => IsAscending
<1> SUFFICES ASSUME Init PROVE Ascending(0, 0)
  BY DEF IsAscending
<1>1. Shape(0) /\ root = Nil /\ op = Idle
  BY InitIsShape DEF Init
<1>2. InLine(0, 0)
  <2>1. 1..0 = {}
    OBVIOUS
  <2>2. Ordered(Leafs(pages, 0), 0) /\ Links(pages, 0)
    BY <2>1 DEF Ordered, Links
  <2> QED
    BY <1>1, <2>2 DEF InLine
<1>3. op # Failed /\ op.kind # "insert" /\ op.kind # "remove"
  BY <1>1, OpKinds, OpKindsOfCalls
<1> QED
  BY <1>1, <1>2, <1>3 DEF Ascending, Arrives, Departs

(* What an ascending tree shows.                                           *)
SeenInLine == IsAscending => BothSee

LEMMA AllSeenInLine == SeenInLine
<1> SUFFICES ASSUME NEW n, NEW c, Shape(n), InLine(n, c) PROVE BothSee
  BY DEF SeenInLine, IsAscending, Ascending
<1>1. \A k \in Keys : /\ KeyExists(k) <=> HasRow(k)
                      /\ Cardinality(Scanned(k)) = IF HasRow(k) THEN 1 ELSE 0
  BY LookupsInLineAre, ScansInLineAre DEF LookupsInLine, ScansInLine
<1> QED
  BY <1>1 DEF BothSee, RowsOf, FoundKeys

LEMMA AllSeenInLineThen == SeenInLine'
BY AllSeenInLine, PTL

(* The rows are what is stored in the pages in use, as long as no page of  *)
(* a tree is free.                                                         *)
LEMMA StoredAreRows ==
    ASSUME NEW n, Shape(n), root # Nil => free = <<>>, NEW k
    PROVE  HasRow(k) <=> Stored(k) # {}
<1> DEFINE slots(p) == {j \in DOMAIN Page(p).cells : Page(p).cells[j] = [key |-> k, deleted |-> FALSE]}
<1>1. n \in Nat /\ Leaves = Ids(n) /\ \A p \in Ids(n) : Page(p).cells \in Seq(LeafCell)
  BY Reading
<1>2. Stored(k) # {} <=> \E p \in LeavesInUse : slots(p) # {}
  <2>1. Stored(k) = UNION {{<<p, i>> : i \in slots(p)} : p \in LeavesInUse}
    BY DEF Stored
  <2> HIDE DEF slots
  <2>2. ASSUME NEW p \in LeavesInUse, NEW i \in slots(p) PROVE Stored(k) # {}
    <3>1. <<p, i>> \in {<<p, j>> : j \in slots(p)}
      OBVIOUS
    <3>2. {<<p, j>> : j \in slots(p)} \in {{<<q, j>> : j \in slots(q)} : q \in LeavesInUse}
      OBVIOUS
    <3> QED
      BY <2>1, <3>1, <3>2
  <2>3. ASSUME NEW x \in Stored(k) PROVE \E p \in LeavesInUse : slots(p) # {}
    <3>1. PICK S \in {{<<q, j>> : j \in slots(q)} : q \in LeavesInUse} : x \in S
      BY <2>1, <2>3
    <3>2. PICK p \in LeavesInUse : S = {<<p, j>> : j \in slots(p)}
      BY <3>1
    <3> QED
      BY <3>1, <3>2
  <2> QED
    BY <2>2, <2>3
<1>3. ASSUME root = Nil PROVE LeavesInUse = {}
  <2>1. Alone(n)
    BY <1>3, Reading DEF Shape, Branched, Nil
  <2>2. CASE n = 0
    <3>1. Ids(0) = {}
      BY DEF Ids
    <3> QED
      BY <1>1, <2>2, <3>1 DEF LeavesInUse
  <2>3. CASE n = 1 /\ free = <<2>>
    <3>1. Ids(1) = {2} /\ ToSet(<<2>>) = {2}
      BY DEF Ids, ToSet
    <3> QED
      BY <1>1, <2>3, <3>1 DEF LeavesInUse
  <2> QED
    BY <1>3, <2>1, <2>2, <2>3 DEF Alone, Nil
<1>4. ASSUME root # Nil PROVE LeavesInUse = Ids(n)
  <2>1. ToSet(<<>>) = {}
    BY DEF ToSet
  <2> QED
    BY <1>1, <1>4, <2>1 DEF LeavesInUse
<1>5. ASSUME NEW p \in Ids(n) PROVE slots(p) # {} <=> ~NoRowOf(k, Page(p).cells)
  <2> PICK cells : cells = Page(p).cells
    OBVIOUS
  <2>1. cells \in Seq(LeafCell) /\ DOMAIN cells = 1..Len(cells)
        /\ \A i \in 1..Len(cells) : cells[i] \in LeafCell
    BY <1>1, ElementOfSeq, LenProperties
  <2>2. \A i \in 1..Len(cells) :
           cells[i] = [key |-> k, deleted |-> FALSE] <=> cells[i].key = k /\ ~cells[i].deleted
    <3> SUFFICES ASSUME NEW i \in 1..Len(cells)
                 PROVE  cells[i] = [key |-> k, deleted |-> FALSE] <=> cells[i].key = k /\ ~cells[i].deleted
      OBVIOUS
    <3>1. ~cells[i].deleted => (cells[i] = [key |-> k, deleted |-> FALSE] <=> cells[i].key = k)
      BY <2>1, RowCell
    <3>2. cells[i] = [key |-> k, deleted |-> FALSE] => ~cells[i].deleted
      OBVIOUS
    <3> QED
      BY <3>1, <3>2
  <2> QED
    BY <2>1, <2>2 DEF NoRowOf
<1> HIDE DEF slots
<1> QED
  BY <1>1, <1>2, <1>3, <1>4, <1>5 DEF HasRow

LEMMA AscendingShows == IsAscending => SpaceIsReused /\ KeyExistsFindsRows
<1> SUFFICES ASSUME NEW n, NEW c, Ascending(n, c) PROVE SpaceIsReused /\ KeyExistsFindsRows
  BY DEF IsAscending
<1>1. Shape(n) /\ InLine(n, c) /\ op # Failed
  BY DEF Ascending
<1>2. root # Nil => free = <<>>
  BY <1>1 DEF InLine
<1>3. \A k \in Keys : (KeyExists(k) <=> HasRow(k)) /\ (HasRow(k) <=> Stored(k) # {})
  BY <1>1, <1>2, LookupsInLineAre, StoredAreRows DEF LookupsInLine
<1>4. FreePagesUnreferenced
  <2>1. ToSet(<<>>) = {}
    BY DEF ToSet
  <2> QED
    BY <1>2, <2>1 DEF FreePagesUnreferenced
<1> QED
  BY <1>1, <1>3, <1>4 DEF SpaceIsReused, InsertsSucceed, KeyExistsFindsRows

(* Keys that only ascend never come to the stub: through any number of     *)
(* splits each lookup finds exactly the keys of stored rows, no insertion  *)
(* ends in get_slot_offset, and no page of the tree is free                *)
(* (bplustree.cpp:178-243 and 298-371).                                    *)
THEOREM AscendingKeysAreFound ==
    ASSUME KeysAscend
    PROVE  Spec => []KeyExistsFindsRows /\ []SpaceIsReused
<1>1. IsAscending /\ [Next]_vars => IsAscending'
  BY NextAscends
<1> QED
  BY <1>1, InitAscends, AscendingShows, PTL DEF Spec

(* Through those splits, and the purges and the freeing of the root leaf,  *)
(* scans and lookups by key see one row store: each request is answered by *)
(* one change, of the rows under its own key, and what moves records from  *)
(* page to page is invisible (bplustree.h:34-48).                          *)
THEOREM AscendingKeysAreARowStore ==
    ASSUME KeysAscend
    PROVE  Spec => RowsAreSeen
<1>1. Init => IsAscending /\ Table!Init
  BY InitAscends, InitSeesNoRows
<1>2. IsAscending /\ [Next]_vars => IsAscending'
  BY NextAscends
<1>3. IsAscending /\ IsAscending' /\ [Next]_vars => [Table!Next]_TableVars
  BY NextAscends, AllSeenInLine, AllSeenInLineThen, TableStep DEF SeenInLine
<1> QED
  BY <1>1, <1>2, <1>3, PTL
     DEF Spec, RowsAreSeen, Table!Spec, TableVars

(* As long as the first split has not come, lookups find exactly the keys  *)
(* of stored rows, wherever keys are inserted and however many deleted     *)
(* records wait for a purge (bplustree.h:34).                              *)
THEOREM OneLeafKeysAreFound == Spec /\ []OneLeaf => []KeyExistsFindsRows
<1>1. IsLone => KeyExistsFindsRows
  <2> SUFFICES ASSUME NEW n, Lone(n) PROVE KeyExistsFindsRows
    BY DEF IsLone
  <2>1. Shape(n) /\ (root # Nil => free = <<>>) /\ IsLone
    BY DEF Lone, Alone, IsLone
  <2>2. \A k \in Keys : (KeyExists(k) <=> HasRow(k)) /\ (HasRow(k) <=> Stored(k) # {})
    BY <2>1, LookupsAreRight, StoredAreRows DEF LookupsAgree
  <2> QED
    BY <2>2 DEF KeyExistsFindsRows
<1>2. OneLeaf' /\ IsLone /\ [Next]_vars => IsLone'
  BY NextLone
<1> QED
  BY <1>1, <1>2, InitLone, PTL DEF Spec
=============================================================================
