--------------------------- MODULE BTreeShapeProofs ---------------------------
(***************************************************************************)
(* Proofs that the pages of BTree stay a tree, with every operation and    *)
(* every level of balance(), whatever the height and the number of pages,  *)
(* where the entries have one length and need no overflow page.            *)
(*                                                                         *)
(* First where searches end and what a tree is (Tree, a height and a       *)
(* parent for each page); then the invariant TreeInv and the operations;   *)
(* then the children that move with the cells of a group of siblings, and  *)
(* the levels of balance(); and last the walks over the whole tree.        *)
(***************************************************************************)
EXTENDS BTreeProofs

-----------------------------------------------------------------------------
(* Where searches end.                                                     *)

(* A slot of n cells, or the one after them.                               *)
Places1(n) == {v \in [found : BOOLEAN, slot : 1..(n + 1)] : v.found => v.slot <= n}

LEMMA MiddleOfEnds ==
    ASSUME NEW n \in Nat, NEW l \in 1..(n + 1), NEW r \in 1..(n + 1), ~(l >= r),
           NEW m, m = l + (r - l) \div 2
    PROVE  m \in 1..n /\ m \in 1..(n + 1) /\ m + 1 \in 1..(n + 1) /\ l <= m /\ m < r
<1> DEFINE half == (r - l) \div 2
<1>1. half \in Int /\ 0 <= half /\ half < r - l
  <2>1. r - l \in Nat /\ r - l >= 1
    OBVIOUS
  <2> QED
    BY <2>1
<1> HIDE DEF half
<1>2. m = l + half
  BY DEF half
<1> QED
  BY <1>1, <1>2

LEMMA BinarySearchEnds ==
    ASSUME NEW cells, Len(cells) \in Nat, NEW key
    PROVE  binary_search(cells, key) \in Places1(Len(cells))
<1> DEFINE n == Len(cells)
           V == Places1(n)
           I == 1..(n + 1)
           D == I \X I
           Mid(x) == x[1] + (x[2] - x[1]) \div 2
           Order(x) == bytes_cmp(geo.type, serialize(geo.type, cells[Mid(x)].key),
                                 serialize(geo.type, key))
           Of(f) == [x \in D |->
                        IF x[1] >= x[2] THEN [found |-> FALSE, slot |-> x[1]]
                        ELSE IF Order(x) = "Equal" THEN [found |-> TRUE, slot |-> Mid(x)]
                        ELSE IF Order(x) = "Greater" THEN f[<<x[1], Mid(x)>>]
                        ELSE f[<<Mid(x) + 1, x[2]>>]]
           stop == {x \in D : x[1] >= x[2] \/ Order(x) = "Equal"}
           base == [x \in D |-> IF x[1] >= x[2] THEN [found |-> FALSE, slot |-> x[1]]
                                ELSE [found |-> TRUE, slot |-> Mid(x)]]
           next == [x \in D |-> IF Order(x) = "Greater" THEN <<x[1], Mid(x)>>
                                ELSE <<Mid(x) + 1, x[2]>>]
           step == [y \in D \X V |-> y[2]]
           rank == [x \in D |-> IF x[1] >= x[2] THEN 0 ELSE x[2] - x[1]]
           find == CHOOSE f : f = Of(f)
<1>1. binary_search(cells, key) = find[<<1, n + 1>>]
  BY DEF binary_search
<1>2. n \in Nat
  OBVIOUS
<1> HIDE DEF n
<1>3. ASSUME NEW x \in D
      PROVE  /\ x[1] \in I /\ x[2] \in I /\ x = <<x[1], x[2]>>
             /\ ~(x[1] >= x[2]) => /\ Mid(x) \in 1..n /\ Mid(x) \in I /\ Mid(x) + 1 \in I
                                   /\ x[1] <= Mid(x) /\ Mid(x) < x[2]
  <2>1. x[1] \in I /\ x[2] \in I /\ x = <<x[1], x[2]>>
    OBVIOUS
  <2>2. ~(x[1] >= x[2]) => /\ Mid(x) \in 1..n /\ Mid(x) \in I /\ Mid(x) + 1 \in I
                           /\ x[1] <= Mid(x) /\ Mid(x) < x[2]
    BY <1>2, <2>1, MiddleOfEnds
  <2> QED
    BY <2>1, <2>2
<1> HIDE DEF Mid
<1>4. \A x \in D : base[x] = IF x[1] >= x[2] THEN [found |-> FALSE, slot |-> x[1]]
                             ELSE [found |-> TRUE, slot |-> Mid(x)]
  OBVIOUS
<1>5. \A x \in D : next[x] = IF Order(x) = "Greater" THEN <<x[1], Mid(x)>> ELSE <<Mid(x) + 1, x[2]>>
  BY DEF Order
<1>6. \A x \in D, v \in V : step[<<x, v>>] = v
  OBVIOUS
<1> HIDE DEF Order
<1>7. ASSUME NEW x \in D PROVE base[x] \in V
  <2>1. CASE x[1] >= x[2]
    <3>1. x[1] \in 1..(n + 1)
      BY <1>3
    <3> QED
      BY <1>4, <2>1, <3>1 DEF Places1
  <2>2. CASE ~(x[1] >= x[2])
    <3>1. Mid(x) \in 1..(n + 1) /\ Mid(x) <= n
      BY <1>2, <1>3, <2>2
    <3> QED
      BY <1>4, <2>2, <3>1 DEF Places1
  <2> QED
    BY <2>1, <2>2
<1>8. ASSUME NEW x \in D \ stop PROVE next[x] \in D /\ rank[next[x]] < rank[x] /\ ~(x[1] >= x[2])
  <2>1. ~(x[1] >= x[2]) /\ x \in D
    OBVIOUS
  <2>2. x[1] \in I /\ x[2] \in I /\ Mid(x) \in I /\ Mid(x) + 1 \in I /\ x[1] <= Mid(x) /\ Mid(x) < x[2]
    BY <1>3, <2>1
  <2>3. <<x[1], Mid(x)>> \in D /\ <<Mid(x) + 1, x[2]>> \in D
    BY <2>2
  <2>4. rank[x] = x[2] - x[1]
    BY <2>1
  <2>5. rank[<<x[1], Mid(x)>>] < x[2] - x[1]
    BY <1>2, <2>1, <2>2, <2>3
  <2>6. rank[<<Mid(x) + 1, x[2]>>] < x[2] - x[1]
    BY <1>2, <2>1, <2>2, <2>3
  <2> HIDE DEF next, rank, D
  <2> QED
    BY <1>5, <2>1, <2>3, <2>4, <2>5, <2>6
<1>9. rank \in [D -> 0..n]
  <2>1. ASSUME NEW x \in D PROVE (IF x[1] >= x[2] THEN 0 ELSE x[2] - x[1]) \in 0..n
    BY <1>2, <1>3
  <2> QED
    BY <2>1
<1>10. \E v : v \in V
  <2>1. [found |-> FALSE, slot |-> 1] \in V
    BY <1>2 DEF Places1
  <2> QED
    BY <2>1
<1>11. PICK f \in [D -> V] : Recursive(f, D, stop, base, next, step)
  <2> HIDE DEF D, V, stop, base, next, step, rank
  <2>1. \A x \in D \intersect stop : base[x] \in V
    BY <1>7
  <2>2. \A x \in D \ stop : next[x] \in D /\ rank[next[x]] < rank[x]
    BY <1>8
  <2>3. \A x \in D \ stop, v \in V : step[<<x, v>>] \in V
    BY <1>6
  <2> QED
    BY <1>2, <1>9, <1>10, <2>1, <2>2, <2>3, RecursionExists
<1>12. f = Of(f)
  <2>1. ASSUME NEW x \in D PROVE f[x] = Of(f)[x]
    <3>1. f[x] = IF x \in stop THEN base[x] ELSE step[<<x, f[next[x]]>>]
      <4> HIDE DEF D, V, stop, base, next, step
      <4> QED
        BY <1>11 DEF Recursive
    <3>2. CASE x \in stop
      <4>1. f[x] = base[x]
        BY <3>1, <3>2
      <4> HIDE DEF base
      <4> QED
        BY <1>4, <3>2, <4>1
    <3>3. CASE x \notin stop
      <4>1. next[x] \in D /\ ~(x[1] >= x[2]) /\ Order(x) # "Equal"
        BY <1>8, <3>3
      <4>2. f[next[x]] \in V
        <5> HIDE DEF D, V, next
        <5> QED
          BY <4>1
      <4>3. f[x] = f[next[x]]
        <5> HIDE DEF D, V, next, step, stop, base
        <5> QED
          BY <1>6, <3>1, <3>3, <4>2
      <4> HIDE DEF V, next, step, stop, base
      <4> QED
        BY <1>5, <4>1, <4>3
    <3> QED
      BY <3>2, <3>3
  <2>2. f = [x \in D |-> f[x]] /\ Of(f) = [x \in D |-> Of(f)[x]]
    OBVIOUS
  <2> HIDE DEF D, V, Of
  <2> QED
    BY <2>1, <2>2
<1>13. find = Of(find)
  <2> HIDE DEF Of
  <2> QED
    BY <1>12
<1> HIDE DEF find
<1>14. ASSUME NEW x \in D PROVE find[x] = IF x \in stop THEN base[x] ELSE find[next[x]]
  <2>1. find[x] = IF x[1] >= x[2] THEN [found |-> FALSE, slot |-> x[1]]
                  ELSE IF Order(x) = "Equal" THEN [found |-> TRUE, slot |-> Mid(x)]
                  ELSE IF Order(x) = "Greater" THEN find[<<x[1], Mid(x)>>]
                  ELSE find[<<Mid(x) + 1, x[2]>>]
    BY <1>13
  <2>2. x \in stop <=> x[1] >= x[2] \/ Order(x) = "Equal"
    OBVIOUS
  <2> HIDE DEF next, base, stop
  <2> QED
    BY <1>4, <1>5, <2>1, <2>2
<1> DEFINE T == {j \in 0..n : \A x \in D : rank[x] <= j => find[x] \in V}
<1>15. ASSUME NEW j \in 0..n, \A x \in D : rank[x] < j => find[x] \in V
       PROVE  j \in T
  <2>1. ASSUME NEW x \in D, rank[x] <= j PROVE find[x] \in V
    <3>1. CASE x \in stop
      <4> HIDE DEF V, base, stop, D
      <4> QED
        BY <1>7, <1>14, <3>1
    <3>2. CASE x \notin stop
      <4>1. next[x] \in D /\ rank[next[x]] < rank[x]
        <5> HIDE DEF D, stop, next, rank
        <5> QED
          BY <1>8, <3>2
      <4> HIDE DEF D, V, stop, next, rank
      <4>2. rank[next[x]] \in Nat /\ rank[x] \in Nat
        BY <1>2, <1>9, <4>1
      <4>3. rank[next[x]] < j
        BY <2>1, <4>1, <4>2
      <4> QED
        BY <1>14, <1>15, <3>2, <4>1, <4>3
    <3> QED
      BY <3>1, <3>2
  <2> HIDE DEF V, rank, D
  <2> QED
    BY <2>1
<1>16. \A j \in 0..n : j \in T
  <2>1. 0 \in T
    <3>1. \A x \in D : ~(rank[x] < 0)
      <4> HIDE DEF D, rank
      <4> QED
        BY <1>2, <1>9
    <3> HIDE DEF T, D, rank, V
    <3> QED
      BY <1>2, <1>15, <3>1
  <2>2. ASSUME NEW j \in 1..n, j - 1 \in T PROVE j \in T
    <3>1. ASSUME NEW x \in D, rank[x] < j PROVE find[x] \in V
      <4>1. rank[x] <= j - 1
        <5> HIDE DEF D, rank
        <5> QED
          BY <1>2, <1>9, <3>1
      <4> HIDE DEF D, V, rank
      <4> QED
        BY <2>2, <4>1
    <3> HIDE DEF T, D, V, rank
    <3> QED
      BY <1>15, <3>1
  <2> HIDE DEF T
  <2> QED
    BY <1>2, <2>1, <2>2, UpwardClosed
<1>17. <<1, n + 1>> \in D /\ rank[<<1, n + 1>>] <= n
  <2>1. <<1, n + 1>> \in D
    BY <1>2
  <2> HIDE DEF D, rank
  <2> QED
    BY <1>2, <1>9, <2>1
<1>18. n \in T
  BY <1>2, <1>16
<1> HIDE DEF D, V, rank
<1>19. find[<<1, n + 1>>] \in V
  BY <1>17, <1>18
<1> QED
  BY <1>1, <1>19 DEF V, n

-----------------------------------------------------------------------------
(* The tree of the pages.                                                  *)

(* Payloads that need no overflow page.                                    *)
FitsInCells(g) == \A len \in g.lens : len <= g.max_payload

FlatCell == [key : geo.keys, len : geo.lens, left : Nat, overflow : {0}]
FlatNode == [kind : {"node"}, cells : Seq(FlatCell), right : Nat]

slots_of(node) == 1..(Len(node.cells) + 1)

(* A node without children; one whose children are different pages.        *)
Childless(node) == \A s \in slots_of(node) : child(node, s) = 0
Distinct(node) == \A s, t \in slots_of(node) : child(node, s) = child(node, t) => s = t

(* The pages are a tree: h[p] is how far above the leaves page p is, and   *)
(* up[p] is the page that p is a child of.                                 *)
IsBelow(P, root, h, up, q, p) ==
    q \in DOMAIN P \ {root, 0} /\ h[p] # 0 /\ h[q] = h[p] - 1 /\ up[q] = p

InPlace(P, root, h, up, p) ==
    \/ h[p] = 0 /\ Childless(P[p])
    \/ /\ h[p] # 0 /\ Distinct(P[p])
       /\ \A s \in slots_of(P[p]) : IsBelow(P, root, h, up, child(P[p], s), p)

Attached(P, h, up, q) ==
    /\ up[q] \in DOMAIN P /\ h[up[q]] # 0
    /\ \E s \in slots_of(P[up[q]]) : child(P[up[q]], s) = q

Tree(P, root, h, up, H) ==
    /\ IsFiniteSet(DOMAIN P) /\ root \in DOMAIN P
    /\ \A p \in DOMAIN P : p \in Nat /\ P[p] \in FlatNode
    /\ H \in Nat /\ h \in [DOMAIN P -> 0..H]
    /\ \A p \in DOMAIN P : InPlace(P, root, h, up, p)
    /\ \A p \in DOMAIN P \ {root} : Attached(P, h, up, p)

LEMMA TreeNode ==
    ASSUME NEW P, NEW root, NEW h, NEW up, NEW H, Tree(P, root, h, up, H), NEW p \in DOMAIN P
    PROVE  /\ p \in Nat /\ P[p] \in FlatNode /\ h[p] \in Nat /\ h[p] \in 0..H
           /\ P[p].cells \in Seq(FlatCell) /\ Len(P[p].cells) \in Nat /\ P[p].right \in Nat
           /\ InPlace(P, root, h, up, p)
<1>1. p \in Nat /\ P[p] \in FlatNode /\ h[p] \in Nat /\ h[p] \in 0..H /\ InPlace(P, root, h, up, p)
  BY DEF Tree
<1>2. P[p].cells \in Seq(FlatCell) /\ P[p].right \in Nat
  BY <1>1 DEF FlatNode
<1> QED
  BY <1>1, <1>2

(* Pages with a leaf's pointer are those on the lowest level.              *)
LEMMA LeavesAreLow ==
    ASSUME NEW P, NEW root, NEW h, NEW up, NEW H, Tree(P, root, h, up, H), NEW p \in DOMAIN P
    PROVE  is_leaf(P[p]) <=> h[p] = 0
<1>1. Len(P[p].cells) \in Nat /\ InPlace(P, root, h, up, p)
  BY TreeNode
<1>2. Len(P[p].cells) + 1 \in slots_of(P[p]) /\ child(P[p], Len(P[p].cells) + 1) = P[p].right
  BY <1>1 DEF slots_of, child
<1> QED
  BY <1>1, <1>2 DEF InPlace, Childless, IsBelow, is_leaf

LEMMA ChildIsBelow ==
    ASSUME NEW P, NEW root, NEW h, NEW up, NEW H, Tree(P, root, h, up, H), NEW p \in DOMAIN P,
           h[p] # 0, NEW s \in slots_of(P[p])
    PROVE  IsBelow(P, root, h, up, child(P[p], s), p) /\ child(P[p], s) \in DOMAIN P
<1>1. InPlace(P, root, h, up, p)
  BY TreeNode
<1> QED
  BY <1>1 DEF InPlace, IsBelow

-----------------------------------------------------------------------------
(* The way from a page down to another one below it.                       *)

on_path(path, page, i) == IF i = Len(path) + 1 THEN page ELSE path[i]

Descends(P, root, h, up, p, path, page) ==
    /\ path \in Seq(DOMAIN P) /\ page \in DOMAIN P
    /\ on_path(path, page, 1) = p
    /\ \A i \in 1..(Len(path) + 1) : h[on_path(path, page, i)] + (i - 1) = h[p]
    /\ \A i \in 1..Len(path) : /\ on_path(path, page, i + 1) # root
                               /\ up[on_path(path, page, i + 1)] = path[i]

LEMMA DescendNowhere ==
    ASSUME NEW P, NEW root, NEW h, NEW up, NEW p \in DOMAIN P, h[p] \in Nat
    PROVE  Descends(P, root, h, up, p, <<>>, p)
<1>1. <<>> \in Seq(DOMAIN P) /\ Len(<<>>) = 0
  OBVIOUS
<1>2. \A i \in 1..(Len(<<>>) + 1) : i = 1 /\ on_path(<<>>, p, i) = p
  BY DEF on_path
<1>3. on_path(<<>>, p, 1) = p /\ h[p] + (1 - 1) = h[p]
  BY <1>2
<1>4. \A i \in 1..Len(<<>>) : FALSE
  OBVIOUS
<1> QED
  BY <1>1, <1>2, <1>3, <1>4 DEF Descends

Joined(both, S, a, q, b, page) ==
    /\ both \in Seq(S) /\ Len(both) = Len(a) + 1 + Len(b) /\ Len(a) \in Nat /\ Len(b) \in Nat
    /\ \A i \in 1..(Len(a) + 1) : on_path(both, page, i) = on_path(a, q, i) /\ both[i] = on_path(a, q, i)
    /\ \A i \in 1..(Len(b) + 1) : on_path(both, page, Len(a) + 1 + i) = on_path(b, page, i)
    /\ \A i \in 1..Len(b) : both[Len(a) + 1 + i] = b[i]

LEMMA JoinedPath ==
    ASSUME NEW S, NEW a \in Seq(S), NEW b \in Seq(S), NEW q \in S, NEW page \in S
    PROVE  Joined(Append(a, q) \o b, S, a, q, b, page)
<1> DEFINE t == Append(a, q)
           both == Append(a, q) \o b
<1>1. t \in Seq(S) /\ Len(t) = Len(a) + 1 /\ Len(a) \in Nat /\ Len(b) \in Nat
  OBVIOUS
<1>2. \A i \in 1..(Len(a) + 1) : t[i] = on_path(a, q, i)
  BY <1>1 DEF on_path
<1> HIDE DEF t
<1>3. both = t \o b
  BY DEF t
<1> HIDE DEF both
<1>4. both \in Seq(S) /\ Len(both) = Len(a) + 1 + Len(b)
  BY <1>1, <1>3, ConcatProperties
<1>5. \A i \in 1..Len(t) : both[i] = t[i]
  BY <1>1, <1>3
<1>6. \A i \in 1..Len(b) : both[Len(t) + i] = b[i]
  BY <1>1, <1>3
<1>7. ASSUME NEW i \in 1..(Len(a) + 1)
      PROVE  on_path(both, page, i) = on_path(a, q, i) /\ both[i] = on_path(a, q, i)
  <2>1. i # Len(both) + 1
    BY <1>1, <1>4
  <2>2. on_path(both, page, i) = both[i]
    BY <2>1 DEF on_path
  <2> QED
    BY <1>1, <1>2, <1>5, <2>2
<1>8. ASSUME NEW i \in 1..(Len(b) + 1) PROVE on_path(both, page, Len(a) + 1 + i) = on_path(b, page, i)
  <2>1. CASE i = Len(b) + 1
    BY <1>1, <1>4, <2>1 DEF on_path
  <2>2. CASE i # Len(b) + 1
    <3> DEFINE la == Len(a)
               lb == Len(b)
               lc == Len(both)
    <3>0. la \in Nat /\ lb \in Nat /\ lc = la + 1 + lb /\ i # lb + 1 /\ i \in 1..(lb + 1)
      BY <1>1, <1>4, <2>2
    <3> HIDE DEF la, lb, lc
    <3>10. i \in 1..lb /\ la + 1 + i # lc + 1
      BY ONLY <3>0
    <3>1. i \in 1..Len(b) /\ Len(a) + 1 + i # Len(both) + 1
      BY <3>10 DEF la, lb, lc
    <3> QED
      BY <1>1, <1>6, <2>2, <3>1 DEF on_path
  <2> QED
    BY <2>1, <2>2
<1>9. \A i \in 1..Len(b) : both[Len(a) + 1 + i] = b[i]
  BY <1>1, <1>6
<1> QED
  BY <1>1, <1>4, <1>7, <1>8, <1>9 DEF Joined, both

LEMMA DescendFurther ==
    ASSUME NEW P, NEW root, NEW h, h \in [DOMAIN P -> Nat], NEW up, NEW p \in DOMAIN P, NEW a, NEW q,
           Descends(P, root, h, up, p, a, q),
           NEW c, IsBelow(P, root, h, up, c, q), NEW b, NEW page, Descends(P, root, h, up, c, b, page)
    PROVE  Descends(P, root, h, up, p, Append(a, q) \o b, page)
<1> DEFINE both == Append(a, q) \o b
           S == DOMAIN P
<1>1. a \in Seq(S) /\ b \in Seq(S) /\ q \in S /\ page \in S
  BY DEF Descends
<1> HIDE DEF both
<1>2. /\ both \in Seq(S) /\ Len(both) = Len(a) + 1 + Len(b) /\ Len(a) \in Nat /\ Len(b) \in Nat
      /\ \A i \in 1..(Len(a) + 1) : on_path(both, page, i) = on_path(a, q, i) /\ both[i] = on_path(a, q, i)
      /\ \A i \in 1..(Len(b) + 1) : on_path(both, page, Len(a) + 1 + i) = on_path(b, page, i)
      /\ \A i \in 1..Len(b) : both[Len(a) + 1 + i] = b[i]
  <2>1. Joined(both, S, a, q, b, page)
    BY <1>1, JoinedPath DEF both
  <2> QED
    BY <2>1 DEF Joined
<1>3. on_path(both, page, 1) = p
  BY <1>2 DEF Descends
<1>4. c # root /\ up[c] = q /\ c \in S /\ h[q] # 0 /\ h[c] = h[q] - 1 /\ h[q] \in Nat /\ h[c] \in Nat /\ h[p] \in Nat
  BY <1>1 DEF IsBelow
<1>5. on_path(a, q, Len(a) + 1) = q /\ on_path(b, page, 1) = c
  BY DEF Descends, on_path
<1>6. h[q] + Len(a) = h[p]
  <2>1. Len(a) + 1 \in 1..(Len(a) + 1) /\ (Len(a) + 1) - 1 = Len(a)
    BY <1>2
  <2>2. h[on_path(a, q, Len(a) + 1)] + ((Len(a) + 1) - 1) = h[p]
    BY <2>1 DEF Descends
  <2> QED
    BY <1>5, <2>1, <2>2
<1>7. ASSUME NEW i \in 1..(Len(both) + 1) PROVE h[on_path(both, page, i)] + (i - 1) = h[p]
  <2>1. CASE i <= Len(a) + 1
    <3>1. i \in 1..(Len(a) + 1)
      BY <2>1
    <3> QED
      BY <1>2, <3>1 DEF Descends
  <2>2. CASE ~(i <= Len(a) + 1)
    <3> DEFINE j == i - (Len(a) + 1)
    <3>1. j \in 1..(Len(b) + 1) /\ i = Len(a) + 1 + j
      BY <1>2, <2>2
    <3> HIDE DEF j
    <3>2. h[on_path(b, page, j)] + (j - 1) = h[c] /\ on_path(both, page, i) = on_path(b, page, j)
      BY <1>2, <3>1 DEF Descends
    <3>3. on_path(b, page, j) \in S
      BY <1>1, <3>1 DEF on_path
    <3> DEFINE x == h[on_path(b, page, j)]
    <3>4. x \in Nat /\ x + (j - 1) = h[c]
      BY <3>2, <3>3
    <3> HIDE DEF x
    <3>6. x + (j - 1) = h[q] - 1
      BY <1>4, <3>4
    <3> DEFINE la == Len(a)
               lb == Len(b)
    <3>7. x + ((Len(a) + 1 + j) - 1) = h[p]
      <4> DEFINE hq == h[q]
                 hp == h[p]
      <4>1. la \in Nat /\ lb \in Nat /\ hq \in Nat /\ hp \in Nat /\ j \in 1..(lb + 1)
            /\ x + (j - 1) = hq - 1 /\ hq + la = hp /\ x \in Nat
        BY <1>2, <1>4, <1>6, <3>1, <3>4, <3>6
      <4> HIDE DEF la, lb, hq, hp
      <4>2. x + ((la + 1 + j) - 1) = hp
        BY ONLY <4>1
      <4> QED
        BY <4>2 DEF la, hp
    <3> QED
      BY <3>1, <3>2, <3>7 DEF x
  <2> QED
    BY <2>1, <2>2
<1>8. ASSUME NEW i \in 1..Len(both)
      PROVE  on_path(both, page, i + 1) # root /\ up[on_path(both, page, i + 1)] = both[i]
  <2>1. CASE i <= Len(a)
    <3>1. i \in 1..Len(a) /\ i \in 1..(Len(a) + 1) /\ i + 1 \in 1..(Len(a) + 1) /\ i # Len(a) + 1
      BY <1>2, <2>1
    <3>2. both[i] = a[i]
      BY <1>2, <3>1 DEF on_path
    <3> QED
      BY <1>2, <3>1, <3>2 DEF Descends
  <2>2. CASE i = Len(a) + 1
    <3>1. i + 1 = Len(a) + 1 + 1 /\ 1 \in 1..(Len(b) + 1) /\ i \in 1..(Len(a) + 1)
      BY <1>2, <2>2
    <3>2. on_path(both, page, i + 1) = c /\ both[i] = q
      BY <1>2, <1>5, <2>2, <3>1
    <3> QED
      BY <1>4, <3>2
  <2>3. CASE i > Len(a) + 1
    <3> DEFINE j == i - (Len(a) + 1)
    <3>1. j \in 1..Len(b) /\ i = Len(a) + 1 + j /\ j + 1 \in 1..(Len(b) + 1) /\ i + 1 = Len(a) + 1 + (j + 1)
      BY <1>2, <2>3
    <3> HIDE DEF j
    <3>2. on_path(both, page, i + 1) = on_path(b, page, j + 1) /\ both[i] = b[j]
      BY <1>2, <3>1
    <3> QED
      BY <3>1, <3>2 DEF Descends
  <2> QED
    BY <1>2, <2>1, <2>2, <2>3
<1> QED
  BY <1>1, <1>2, <1>3, <1>7, <1>8 DEF Descends, both

(* Each page of the way is the end of a shorter one.                       *)
LEMMA DescendLess ==
    ASSUME NEW P, NEW root, NEW h, NEW up, NEW p, NEW path, NEW page,
           Descends(P, root, h, up, p, path, page), NEW i \in 1..Len(path)
    PROVE  Descends(P, root, h, up, p, SubSeq(path, 1, i - 1), path[i])
<1> DEFINE S == DOMAIN P
           less == SubSeq(path, 1, i - 1)
<1>1. path \in Seq(S) /\ Len(path) \in Nat /\ path[i] \in S
  BY DEF Descends
<1>2. i - 1 \in Nat /\ i - 1 <= Len(path)
  BY <1>1
<1>3. less \in Seq(S) /\ Len(less) = i - 1 /\ \A j \in 1..(i - 1) : less[j] = path[j]
  BY <1>1, <1>2
<1> HIDE DEF less
<1>4. ASSUME NEW j \in 1..i PROVE on_path(less, path[i], j) = on_path(path, page, j)
  <2>1. j # Len(path) + 1 /\ (j = Len(less) + 1 <=> j = i) /\ (j # i => j \in 1..(i - 1))
    BY <1>1, <1>3
  <2> QED
    BY <1>3, <2>1 DEF on_path
<1>5. Len(less) + 1 = i /\ 1 \in 1..i
  BY <1>1, <1>3
<1>6. ASSUME NEW j \in 1..(Len(less) + 1) PROVE h[on_path(less, path[i], j)] + (j - 1) = h[p]
  <2>1. j \in 1..i /\ j \in 1..(Len(path) + 1)
    BY <1>1, <1>5
  <2> QED
    BY <1>4, <2>1 DEF Descends
<1>7. ASSUME NEW j \in 1..Len(less)
      PROVE  on_path(less, path[i], j + 1) # root /\ up[on_path(less, path[i], j + 1)] = less[j]
  <2>1. j + 1 \in 1..i /\ j \in 1..(i - 1) /\ j \in 1..Len(path)
    BY <1>1, <1>3
  <2> QED
    BY <1>3, <1>4, <2>1 DEF Descends
<1>8. on_path(less, path[i], 1) = p
  BY <1>4, <1>5 DEF Descends
<1> QED
  BY <1>1, <1>3, <1>6, <1>7, <1>8 DEF Descends, less

LEMMA AllAreNodes ==
    ASSUME NEW P, NEW root, NEW h, NEW up, NEW H, Tree(P, root, h, up, H)
    PROVE  node_pages(P) = DOMAIN P /\ spill_pages(P) = {}
<1>1. \A p \in DOMAIN P : P[p].kind = "node"
  BY DEF Tree, FlatNode
<1> QED
  BY <1>1 DEF node_pages, spill_pages

(* What a recursion down the tree goes by: the results V, with the page    *)
(* and the pages above it, those at the pages where it stops, the child to *)
(* go on with, and what is made of the result below.                       *)
Descent(P, root, h, up, V, stop, base, next, step) ==
    /\ \A p \in DOMAIN P \intersect stop : base[p] \in V /\ base[p].page = p /\ base[p].parents = <<>>
    /\ \A p \in DOMAIN P \ stop : IsBelow(P, root, h, up, next[p], p)
    /\ \A p \in DOMAIN P, v \in V : /\ step[<<p, v>>] \in V /\ step[<<p, v>>].page = v.page
                                    /\ step[<<p, v>>].parents = <<p>> \o v.parents

LEMMA DescentExists ==
    ASSUME NEW P, NEW root, NEW h, NEW up, NEW H, Tree(P, root, h, up, H),
           NEW V, NEW stop, NEW base, NEW next, NEW step, V # {},
           Descent(P, root, h, up, V, stop, base, next, step)
    PROVE  \E f \in [DOMAIN P -> V] : Recursive(f, DOMAIN P, stop, base, next, step)
<1> DEFINE D == DOMAIN P
<1>1. H \in Nat /\ h \in [D -> 0..H]
  BY DEF Tree
<1>2. \A p \in D \intersect stop : base[p] \in V
  BY DEF Descent
<1>3. ASSUME NEW p \in D \ stop PROVE next[p] \in D /\ h[next[p]] < h[p]
  <2>1. IsBelow(P, root, h, up, next[p], p)
    BY DEF Descent
  <2>2. next[p] \in D /\ h[next[p]] = h[p] - 1
    BY <2>1 DEF IsBelow
  <2>3. h[p] \in Nat /\ h[next[p]] \in Nat
    BY <1>1, <2>2
  <2> QED
    BY <2>2, <2>3
<1>4. \A p \in D \ stop, v \in V : step[<<p, v>>] \in V
  BY DEF Descent
<1>5. PICK v0 : v0 \in V
  OBVIOUS
<1> HIDE DEF D
<1>6. \E f \in [D -> V] : Recursive(f, D, stop, base, next, step)
  BY <1>1, <1>2, <1>3, <1>4, <1>5, RecursionExists
<1> QED
  BY <1>6 DEF D

LEMMA DescentEnds ==
    ASSUME NEW P, NEW root, NEW h, NEW up, NEW H, Tree(P, root, h, up, H),
           NEW V, NEW stop, NEW base, NEW next, NEW step,
           Descent(P, root, h, up, V, stop, base, next, step),
           NEW g, \A p \in DOMAIN P \intersect stop : g[p] = base[p],
           \A p \in DOMAIN P \ stop : g[next[p]] \in V => g[p] = step[<<p, g[next[p]]>>]
    PROVE  \A p \in DOMAIN P : /\ g[p] \in V /\ g[p].page \in DOMAIN P \intersect stop
                               /\ Descends(P, root, h, up, p, g[p].parents, g[p].page)
<1> DEFINE D == DOMAIN P
           Good(p) == /\ g[p] \in V /\ g[p].page \in D \intersect stop
                      /\ Descends(P, root, h, up, p, g[p].parents, g[p].page)
           T == {j \in 0..H : \A p \in D : h[p] <= j => Good(p)}
<1>1. H \in Nat /\ h \in [D -> 0..H] /\ h \in [D -> Nat]
  BY DEF Tree
<1>2. ASSUME NEW p \in D \intersect stop PROVE Good(p)
  <2>1. g[p] = base[p] /\ base[p] \in V /\ base[p].page = p /\ base[p].parents = <<>>
    BY DEF Descent
  <2>2. Descends(P, root, h, up, p, <<>>, p)
    BY <1>1, DescendNowhere
  <2> QED
    BY <2>1, <2>2
<1>3. ASSUME NEW p \in D \ stop, Good(next[p]) PROVE Good(p)
  <2> DEFINE q == next[p]
             v == g[q]
  <2>1. IsBelow(P, root, h, up, q, p) /\ v \in V
    BY <1>3 DEF Descent
  <2>2. g[p] = step[<<p, v>>]
    BY <2>1
  <2>3. g[p] \in V /\ g[p].page = v.page /\ g[p].parents = <<p>> \o v.parents
    <3>1. p \in DOMAIN P /\ v \in V
      BY <2>1
    <3> HIDE DEF v, D
    <3>2. /\ step[<<p, v>>] \in V /\ step[<<p, v>>].page = v.page
          /\ step[<<p, v>>].parents = <<p>> \o v.parents
      BY <3>1 DEF Descent
    <3> QED
      BY <2>2, <3>2
  <2>4. Descends(P, root, h, up, q, v.parents, v.page) /\ v.page \in D \intersect stop
    BY <1>3
  <2>5. Descends(P, root, h, up, p, <<>>, p)
    BY <1>1, DescendNowhere
  <2> HIDE DEF q, v
  <2>6. Descends(P, root, h, up, p, Append(<<>>, p) \o v.parents, v.page)
    BY <1>1, <2>1, <2>4, <2>5, DescendFurther
  <2>7. Append(<<>>, p) = <<p>>
    OBVIOUS
  <2> QED
    BY <2>3, <2>4, <2>6, <2>7
<1>4. ASSUME NEW p \in D \ stop PROVE next[p] \in D /\ h[next[p]] = h[p] - 1
  BY DEF Descent, IsBelow
<1> HIDE DEF Good
<1>5. 0 \in T
  <2>1. ASSUME NEW p \in D, h[p] <= 0 PROVE Good(p)
    <3>1. p \in stop
      <4>1. CASE p \notin stop
        <5>1. h[p] - 1 \in Nat /\ h[p] \in Nat
          BY <1>1, <1>4, <4>1
        <5> QED
          BY <2>1, <5>1
      <4> QED
        BY <4>1
    <3> QED
      BY <1>2, <3>1
  <2> QED
    BY <1>1, <2>1
<1>6. ASSUME NEW j \in 1..H, j - 1 \in T PROVE j \in T
  <2>1. ASSUME NEW p \in D, h[p] <= j PROVE Good(p)
    <3>1. CASE p \notin stop
      <4>1. next[p] \in D /\ h[next[p]] = h[p] - 1 /\ h[p] \in Nat
        BY <1>1, <1>4, <3>1
      <4>2. h[next[p]] <= j - 1
        BY <1>1, <2>1, <4>1
      <4> QED
        BY <1>3, <1>6, <3>1, <4>1, <4>2
    <3> QED
      BY <1>2, <3>1
  <2> QED
    BY <1>1, <2>1
<1>7. H \in T
  <2> HIDE DEF T
  <2>1. \A j \in 0..H : j \in T
    BY <1>1, <1>5, <1>6, UpwardClosed
  <2> QED
    BY <1>1, <2>1
<1>8. \A p \in D : h[p] <= H
  BY <1>1
<1> QED
  BY <1>7, <1>8 DEF Good

-----------------------------------------------------------------------------
(* Where a search ends.                                                    *)

(* The cell with the key, or the place for it in a leaf.                   *)
SearchResults(P, h) ==
    {v \in [page : DOMAIN P, found : BOOLEAN, slot : Nat, parents : Seq(DOMAIN P)] :
        /\ v.slot \in slots_of(P[v.page])
        /\ v.found => v.slot \in 1..Len(P[v.page].cells)
        /\ ~v.found => h[v.page] = 0}

LEMMA ResultBelow ==
    ASSUME NEW P, NEW h, NEW p \in DOMAIN P, NEW v \in SearchResults(P, h),
           NEW w, w = [v EXCEPT !.parents = <<p>> \o @]
    PROVE  w \in SearchResults(P, h) /\ w.page = v.page /\ w.parents = <<p>> \o v.parents
<1>1. v \in [page : DOMAIN P, found : BOOLEAN, slot : Nat, parents : Seq(DOMAIN P)]
  BY DEF SearchResults
<1>2. <<p>> \o v.parents \in Seq(DOMAIN P)
  <2>1. <<p>> \in Seq(DOMAIN P) /\ v.parents \in Seq(DOMAIN P)
    BY <1>1
  <2> QED
    BY <2>1, ConcatProperties
<1>3. w.page = v.page /\ w.parents = <<p>> \o v.parents /\ w.found = v.found /\ w.slot = v.slot
  BY <1>1
<1>4. w \in [page : DOMAIN P, found : BOOLEAN, slot : Nat, parents : Seq(DOMAIN P)]
  BY <1>1, <1>2
<1> QED
  BY <1>3, <1>4 DEF SearchResults

LEMMA SearchEnds ==
    ASSUME NEW P, NEW root, NEW h, NEW up, NEW H, Tree(P, root, h, up, H), NEW key
    PROVE  /\ search(P, root, key) \in SearchResults(P, h)
           /\ Descends(P, root, h, up, root, search(P, root, key).parents, search(P, root, key).page)
<1> DEFINE D == DOMAIN P
           V == SearchResults(P, h)
           At(p) == binary_search(P[p].cells, key)
           End(p) == [page |-> p, found |-> At(p).found, slot |-> At(p).slot, parents |-> <<>>]
           Under(p) == child(P[p], At(p).slot)
           stop == {p \in D : At(p).found \/ is_leaf(P[p])}
           base == [p \in D |-> End(p)]
           next == [p \in D |-> Under(p)]
           step == [x \in D \X V |-> [x[2] EXCEPT !.parents = <<x[1]>> \o @]]
           Of(f) == [p \in D |-> IF At(p).found \/ is_leaf(P[p]) THEN End(p)
                                 ELSE [f[Under(p)] EXCEPT !.parents = <<p>> \o @]]
           from == CHOOSE f : f = Of(f)
<1>1. search(P, root, key) = from[root]
  <2>1. node_pages(P) = D
    BY AllAreNodes
  <2> QED
    BY <2>1 DEF search
<1>2. ASSUME NEW p \in D PROVE At(p) \in Places1(Len(P[p].cells)) /\ Len(P[p].cells) \in Nat
  BY TreeNode, BinarySearchEnds
<1> HIDE DEF At
<1>3. ASSUME NEW p \in D
      PROVE  /\ At(p).found \in BOOLEAN /\ At(p).slot \in slots_of(P[p]) /\ At(p).slot \in Nat
             /\ At(p).found => At(p).slot \in 1..Len(P[p].cells)
  <2> DEFINE a == At(p)
             n == Len(P[p].cells)
  <2>1. a \in Places1(n) /\ n \in Nat
    BY <1>2
  <2> HIDE DEF a, n
  <2>2. a.found \in BOOLEAN /\ a.slot \in 1..(n + 1) /\ a.slot \in Nat /\ (a.found => a.slot \in 1..n)
    BY <2>1 DEF Places1
  <2> QED
    BY <2>2 DEF a, n, slots_of
<1>4. ASSUME NEW p \in D \intersect stop PROVE base[p] \in V /\ base[p].page = p /\ base[p].parents = <<>>
  <2>1. base[p] = End(p)
    OBVIOUS
  <2>2. ~At(p).found => h[p] = 0
    BY LeavesAreLow
  <2>3. <<>> \in Seq(D)
    OBVIOUS
  <2>4. /\ End(p).page = p /\ End(p).found = At(p).found /\ End(p).slot = At(p).slot
        /\ End(p).parents = <<>>
    OBVIOUS
  <2>5. End(p) \in [page : D, found : BOOLEAN, slot : Nat, parents : Seq(D)]
    BY <1>3, <2>3
  <2> HIDE DEF End, base
  <2>6. End(p) \in V
    BY <1>3, <2>2, <2>4, <2>5 DEF SearchResults
  <2> QED
    BY <2>1, <2>4, <2>6
<1>5. ASSUME NEW p \in D \ stop PROVE IsBelow(P, root, h, up, next[p], p) /\ next[p] = Under(p)
  <2>1. h[p] # 0
    BY LeavesAreLow
  <2>2. next[p] = Under(p)
    OBVIOUS
  <2> QED
    BY <1>3, <2>1, <2>2, ChildIsBelow
<1>6. ASSUME NEW p \in D, NEW v \in V
      PROVE  step[<<p, v>>] \in V /\ step[<<p, v>>].page = v.page /\ step[<<p, v>>].parents = <<p>> \o v.parents
             /\ step[<<p, v>>] = [v EXCEPT !.parents = <<p>> \o @]
  <2> HIDE DEF V
  <2>1. step[<<p, v>>] = [v EXCEPT !.parents = <<p>> \o @]
    OBVIOUS
  <2> HIDE DEF step
  <2> QED
    BY <2>1, ResultBelow DEF V
<1>7. Descent(P, root, h, up, V, stop, base, next, step)
  <2> HIDE DEF V, stop, base, next, step
  <2> QED
    BY <1>4, <1>5, <1>6 DEF Descent
<1>8. V # {}
  <2>1. PICK p \in D : h[p] = 0
    <3> DEFINE S == {h[p] : p \in D}
    <3>1. S \subseteq Nat /\ S # {}
      BY DEF Tree
    <3>2. PICK x \in S : \A y \in S : x <= y
      BY <3>1, LeastElement
    <3>3. PICK p \in D : x = h[p]
      BY <3>2
    <3>4. CASE h[p] # 0
      <4>1. 1 \in slots_of(P[p])
        BY TreeNode DEF slots_of
      <4>2. child(P[p], 1) \in D /\ h[child(P[p], 1)] = h[p] - 1
        BY <3>4, <4>1, ChildIsBelow DEF IsBelow
      <4>3. h[p] - 1 \in S
        BY <4>2
      <4>4. h[p] \in Nat
        BY TreeNode
      <4> QED
        BY <3>2, <3>3, <4>3, <4>4
    <3> QED
      BY <3>4
  <2> DEFINE v == [page |-> p, found |-> FALSE, slot |-> 1, parents |-> <<>>]
  <2>2. v \in [page : D, found : BOOLEAN, slot : Nat, parents : Seq(D)] /\ v.page = p /\ v.slot = 1 /\ ~v.found
    OBVIOUS
  <2>3. 1 \in slots_of(P[p])
    BY TreeNode DEF slots_of
  <2> HIDE DEF v
  <2>4. v \in V
    BY <2>1, <2>2, <2>3 DEF SearchResults
  <2> QED
    BY <2>4
<1>9. PICK f \in [D -> V] : Recursive(f, D, stop, base, next, step)
  <2> HIDE DEF V, stop, base, next, step
  <2> QED
    BY <1>7, <1>8, DescentExists
<1>10. f = Of(f)
  <2>1. ASSUME NEW p \in D PROVE f[p] = Of(f)[p]
    <3>1. f[p] = IF p \in stop THEN base[p] ELSE step[<<p, f[next[p]]>>]
      <4> HIDE DEF D, V, stop, base, next, step
      <4> QED
        BY <1>9 DEF Recursive
    <3>2. CASE p \in stop
      <4>1. f[p] = End(p)
        BY <3>1, <3>2
      <4> HIDE DEF End
      <4> QED
        BY <3>2, <4>1
    <3>3. CASE p \notin stop
      <4>1. next[p] \in D /\ next[p] = Under(p)
        BY <1>5, <3>3 DEF IsBelow
      <4>2. f[next[p]] \in V
        <5> HIDE DEF V, next
        <5> QED
          BY <4>1
      <4>3. f[p] = [f[Under(p)] EXCEPT !.parents = <<p>> \o @]
        <5> DEFINE v == f[Under(p)]
        <5>1. v \in V
          BY <4>1, <4>2
        <5>2. f[p] = step[<<p, v>>]
          BY <3>1, <3>3, <4>1
        <5> HIDE DEF V, step, v
        <5>3. step[<<p, v>>] = [v EXCEPT !.parents = <<p>> \o @]
          BY <1>6, <5>1
        <5> QED
          BY <5>2, <5>3 DEF v
      <4> HIDE DEF V, next, step, base, Under
      <4> QED
        BY <3>3, <4>3
    <3> QED
      BY <3>2, <3>3
  <2>2. f = [p \in D |-> f[p]] /\ Of(f) = [p \in D |-> Of(f)[p]]
    OBVIOUS
  <2> HIDE DEF D, V, Of
  <2> QED
    BY <2>1, <2>2
<1>11. from = Of(from)
  <2> HIDE DEF Of
  <2> QED
    BY <1>10
<1> HIDE DEF from
<1>12. \A p \in D \intersect stop : from[p] = base[p]
  <2> HIDE DEF End, Under
  <2> QED
    BY <1>11
<1>13. ASSUME NEW p \in D \ stop, from[next[p]] \in V PROVE from[p] = step[<<p, from[next[p]]>>]
  <2>1. from[p] = [from[Under(p)] EXCEPT !.parents = <<p>> \o @]
    <3> HIDE DEF End, Under
    <3> QED
      BY <1>11
  <2>2. next[p] = Under(p)
    BY <1>5
  <2> DEFINE v == from[Under(p)]
  <2>3. v \in V /\ p \in D
    BY <1>13, <2>2
  <2>4. from[p] = [v EXCEPT !.parents = <<p>> \o @]
    BY <2>1
  <2> HIDE DEF V, step, v
  <2>5. step[<<p, v>>] = [v EXCEPT !.parents = <<p>> \o @]
    BY <1>6, <2>3
  <2>6. step[<<p, v>>] = from[p]
    BY <2>4, <2>5
  <2> QED
    BY <2>2, <2>6 DEF v
<1>14. root \in D
  BY DEF Tree
<1> HIDE DEF V, stop, base, next, step
<1>15. from[root] \in V /\ Descends(P, root, h, up, root, from[root].parents, from[root].page)
  BY <1>7, <1>12, <1>13, <1>14, DescentEnds
<1> QED
  BY <1>1, <1>15 DEF V

-----------------------------------------------------------------------------
(* The first and the last cell of a subtree.                               *)

EndSlot(node, which) == IF which = "max" THEN Max2(Len(node.cells), 1) ELSE 1

LeafResults(P, which) ==
    {v \in [page : DOMAIN P, parents : Seq(DOMAIN P), slot : Nat] : v.slot = EndSlot(P[v.page], which)}

LEMMA LeafResultBelow ==
    ASSUME NEW P, NEW which, NEW p \in DOMAIN P, NEW v \in LeafResults(P, which),
           NEW w, w = [v EXCEPT !.parents = <<p>> \o @]
    PROVE  w \in LeafResults(P, which) /\ w.page = v.page /\ w.parents = <<p>> \o v.parents
<1>1. v \in [page : DOMAIN P, parents : Seq(DOMAIN P), slot : Nat]
  BY DEF LeafResults
<1>2. <<p>> \o v.parents \in Seq(DOMAIN P)
  <2>1. <<p>> \in Seq(DOMAIN P) /\ v.parents \in Seq(DOMAIN P)
    BY <1>1
  <2> QED
    BY <2>1, ConcatProperties
<1>3. w.page = v.page /\ w.parents = <<p>> \o v.parents /\ w.slot = v.slot
  BY <1>1
<1>4. w \in [page : DOMAIN P, parents : Seq(DOMAIN P), slot : Nat]
  BY <1>1, <1>2
<1> QED
  BY <1>3, <1>4 DEF LeafResults

LEMMA LeafSearchEnds ==
    ASSUME NEW P, NEW root, NEW h, NEW up, NEW H, Tree(P, root, h, up, H), NEW page \in DOMAIN P, NEW which
    PROVE  /\ search_leaf_key(P, page, which) \in LeafResults(P, which)
           /\ h[search_leaf_key(P, page, which).page] = 0
           /\ Descends(P, root, h, up, page, search_leaf_key(P, page, which).parents,
                       search_leaf_key(P, page, which).page)
<1> DEFINE D == DOMAIN P
           V == LeafResults(P, which)
           End(p) == [page |-> p, parents |-> <<>>,
                      slot |-> IF which = "max" THEN Max2(Len(P[p].cells), 1) ELSE 1]
           Side(p) == IF which = "max" THEN Len(P[p].cells) + 1 ELSE 1
           Under(p) == child(P[p], Side(p))
           stop == {p \in D : is_leaf(P[p])}
           base == [p \in D |-> End(p)]
           next == [p \in D |-> Under(p)]
           step == [x \in D \X V |-> [x[2] EXCEPT !.parents = <<x[1]>> \o @]]
           Of(f) == [p \in D |-> IF is_leaf(P[p]) THEN End(p)
                                 ELSE [f[Under(p)] EXCEPT !.parents = <<p>> \o @]]
           down == CHOOSE f : f = Of(f)
<1>1. search_leaf_key(P, page, which) = down[page]
  <2>1. node_pages(P) = D
    BY AllAreNodes
  <2> QED
    BY <2>1 DEF search_leaf_key
<1>3. ASSUME NEW p \in D PROVE Side(p) \in slots_of(P[p])
  BY TreeNode DEF slots_of
<1>4. ASSUME NEW p \in D PROVE base[p] \in V /\ base[p].page = p /\ base[p].parents = <<>>
  <2>1. base[p] = End(p)
    OBVIOUS
  <2>2. <<>> \in Seq(D)
    OBVIOUS
  <2>3. End(p).page = p /\ End(p).slot = EndSlot(P[p], which) /\ End(p).parents = <<>>
    BY DEF EndSlot
  <2>4. EndSlot(P[p], which) \in Nat
    BY TreeNode DEF EndSlot, Max2
  <2>5. End(p) \in [page : D, parents : Seq(D), slot : Nat]
    BY <2>2, <2>3, <2>4
  <2> HIDE DEF End, base
  <2>6. End(p) \in V
    BY <2>3, <2>5 DEF LeafResults
  <2> QED
    BY <2>1, <2>3, <2>6
<1>5. ASSUME NEW p \in D \ stop PROVE IsBelow(P, root, h, up, next[p], p) /\ next[p] = Under(p)
  <2>1. h[p] # 0
    BY LeavesAreLow
  <2>2. next[p] = Under(p)
    OBVIOUS
  <2> HIDE DEF Side
  <2> QED
    BY <1>3, <2>1, <2>2, ChildIsBelow
<1>6. ASSUME NEW p \in D, NEW v \in V
      PROVE  step[<<p, v>>] \in V /\ step[<<p, v>>].page = v.page /\ step[<<p, v>>].parents = <<p>> \o v.parents
             /\ step[<<p, v>>] = [v EXCEPT !.parents = <<p>> \o @]
  <2> HIDE DEF V
  <2>1. step[<<p, v>>] = [v EXCEPT !.parents = <<p>> \o @]
    OBVIOUS
  <2> HIDE DEF step
  <2> QED
    BY <2>1, LeafResultBelow DEF V
<1> HIDE DEF Side
<1>7. Descent(P, root, h, up, V, stop, base, next, step)
  <2> HIDE DEF V, stop, base, next, step
  <2> QED
    BY <1>4, <1>5, <1>6 DEF Descent
<1>8. V # {}
  <2> HIDE DEF V, base
  <2> QED
    BY <1>4
<1>9. PICK f \in [D -> V] : Recursive(f, D, stop, base, next, step)
  <2> HIDE DEF V, stop, base, next, step
  <2> QED
    BY <1>7, <1>8, DescentExists
<1>10. f = Of(f)
  <2>1. ASSUME NEW p \in D PROVE f[p] = Of(f)[p]
    <3>1. f[p] = IF p \in stop THEN base[p] ELSE step[<<p, f[next[p]]>>]
      <4> HIDE DEF D, V, stop, base, next, step
      <4> QED
        BY <1>9 DEF Recursive
    <3>2. CASE p \in stop
      <4>1. f[p] = End(p)
        BY <3>1, <3>2
      <4> HIDE DEF End
      <4> QED
        BY <3>2, <4>1
    <3>3. CASE p \notin stop
      <4>1. next[p] \in D /\ next[p] = Under(p)
        BY <1>5, <3>3 DEF IsBelow
      <4>2. f[next[p]] \in V
        <5> HIDE DEF V, next
        <5> QED
          BY <4>1
      <4>3. f[p] = [f[Under(p)] EXCEPT !.parents = <<p>> \o @]
        <5> DEFINE v == f[Under(p)]
        <5>1. v \in V
          BY <4>1, <4>2
        <5>2. f[p] = step[<<p, v>>]
          BY <3>1, <3>3, <4>1
        <5> HIDE DEF V, step, v
        <5>3. step[<<p, v>>] = [v EXCEPT !.parents = <<p>> \o @]
          BY <1>6, <5>1
        <5> QED
          BY <5>2, <5>3 DEF v
      <4> HIDE DEF V, next, step, base, Under
      <4> QED
        BY <3>3, <4>3
    <3> QED
      BY <3>2, <3>3
  <2>2. f = [p \in D |-> f[p]] /\ Of(f) = [p \in D |-> Of(f)[p]]
    OBVIOUS
  <2> HIDE DEF D, V, Of
  <2> QED
    BY <2>1, <2>2
<1>11. down = Of(down)
  <2> HIDE DEF Of
  <2> QED
    BY <1>10
<1> HIDE DEF down
<1>12. \A p \in D \intersect stop : down[p] = base[p]
  <2> HIDE DEF End, Under
  <2> QED
    BY <1>11
<1>13. ASSUME NEW p \in D \ stop, down[next[p]] \in V PROVE down[p] = step[<<p, down[next[p]]>>]
  <2>1. down[p] = [down[Under(p)] EXCEPT !.parents = <<p>> \o @]
    <3> HIDE DEF End, Under
    <3> QED
      BY <1>11
  <2>2. next[p] = Under(p)
    BY <1>5
  <2> DEFINE v == down[Under(p)]
  <2>3. v \in V /\ p \in D
    BY <1>13, <2>2
  <2>4. down[p] = [v EXCEPT !.parents = <<p>> \o @]
    BY <2>1
  <2> HIDE DEF V, step, v
  <2>5. step[<<p, v>>] = [v EXCEPT !.parents = <<p>> \o @]
    BY <1>6, <2>3
  <2>6. step[<<p, v>>] = down[p]
    BY <2>4, <2>5
  <2> QED
    BY <2>2, <2>6 DEF v
<1>14. \A p \in D \intersect stop : h[p] = 0
  BY LeavesAreLow
<1> HIDE DEF V, stop, base, next, step
<1>15. /\ down[page] \in V /\ down[page].page \in D \intersect stop
       /\ Descends(P, root, h, up, page, down[page].parents, down[page].page)
  BY <1>7, <1>12, <1>13, DescentEnds
<1> QED
  BY <1>1, <1>14, <1>15 DEF V

-----------------------------------------------------------------------------
(* Cells that come and go.                                                 *)

LEMMA PartOfSeq ==
    ASSUME NEW S, NEW s \in Seq(S), NEW a \in Nat, NEW b \in Nat, 1 <= a, b <= Len(s), a <= b + 1
    PROVE  SubSeq(s, a, b) \in Seq(S) /\ Len(SubSeq(s, a, b)) = b - a + 1
           /\ \A i \in 1..(b - a + 1) : SubSeq(s, a, b)[i] = s[a + i - 1]
<1>1. Len(s) \in Nat
  OBVIOUS
<1> QED
  BY <1>1

LEMMA InsertKeepsType ==
    ASSUME NEW S, NEW s \in Seq(S), NEW i \in 1..(Len(s) + 1), NEW e \in S
    PROVE  InsertAt(s, i, e) \in Seq(S) /\ Len(InsertAt(s, i, e)) = Len(s) + 1
<1> DEFINE a == SubSeq(s, 1, i - 1)
           b == SubSeq(s, i, Len(s))
           m == <<e>>
<1>1. Len(s) \in Nat /\ i - 1 \in Nat /\ i \in Nat /\ i - 1 <= Len(s) /\ 1 <= i /\ i <= Len(s) + 1
  OBVIOUS
<1>2. a \in Seq(S) /\ Len(a) = i - 1
  BY <1>1, PartOfSeq
<1>3. b \in Seq(S) /\ Len(b) = Len(s) - i + 1
  BY <1>1, PartOfSeq
<1>4. m \in Seq(S) /\ Len(m) = 1
  OBVIOUS
<1> HIDE DEF a, b, m
<1>5. a \o m \in Seq(S) /\ Len(a \o m) = i
  <2>1. a \o m \in Seq(S) /\ Len(a \o m) = Len(a) + Len(m)
    BY <1>2, <1>4, ConcatProperties
  <2> QED
    BY <1>1, <1>2, <1>4, <2>1
<1>6. (a \o m) \o b \in Seq(S) /\ Len((a \o m) \o b) = Len(a \o m) + Len(b)
  BY <1>3, <1>5, ConcatProperties
<1>7. InsertAt(s, i, e) = (a \o m) \o b
  BY DEF InsertAt, a, b, m
<1> QED
  BY <1>1, <1>3, <1>5, <1>6, <1>7

LEMMA RemoveKeepsType ==
    ASSUME NEW S, NEW s \in Seq(S), NEW i \in 1..Len(s)
    PROVE  RemoveAt(s, i) \in Seq(S) /\ Len(RemoveAt(s, i)) = Len(s) - 1
<1> DEFINE a == SubSeq(s, 1, i - 1)
           b == SubSeq(s, i + 1, Len(s))
<1>1. /\ Len(s) \in Nat /\ i - 1 \in Nat /\ i \in Nat /\ i + 1 \in Nat /\ i - 1 <= Len(s)
      /\ 1 <= i + 1 /\ i + 1 <= Len(s) + 1
  OBVIOUS
<1>2. a \in Seq(S) /\ Len(a) = i - 1
  BY <1>1, PartOfSeq
<1>3. b \in Seq(S) /\ Len(b) = Len(s) - (i + 1) + 1
  BY <1>1, PartOfSeq
<1> HIDE DEF a, b
<1>4. a \o b \in Seq(S) /\ Len(a \o b) = Len(a) + Len(b)
  BY <1>2, <1>3, ConcatProperties
<1>5. RemoveAt(s, i) = a \o b
  BY DEF RemoveAt, a, b
<1> QED
  BY <1>1, <1>2, <1>3, <1>4, <1>5

LEMMA ReplaceKeepsType ==
    ASSUME NEW S, NEW s \in Seq(S), NEW i \in 1..Len(s), NEW e \in S
    PROVE  /\ [s EXCEPT ![i] = e] \in Seq(S) /\ Len([s EXCEPT ![i] = e]) = Len(s)
           /\ \A j \in 1..Len(s) : [s EXCEPT ![i] = e][j] = IF j = i THEN e ELSE s[j]
<1> DEFINE n == Len(s)
           t == [s EXCEPT ![i] = e]
<1>1. n \in Nat /\ s \in [1..n -> S] /\ DOMAIN s = 1..n
  OBVIOUS
<1>2. t \in [1..n -> S] /\ \A j \in 1..n : t[j] = IF j = i THEN e ELSE s[j]
  BY <1>1
<1> HIDE DEF n, t
<1>3. t \in Seq(S) /\ Len(t) = n
  BY <1>1, <1>2
<1> QED
  BY <1>2, <1>3 DEF n, t

LeafCell == {c \in FlatCell : c.left = 0}

LEMMA LeavesHaveLeafCells ==
    ASSUME NEW node \in FlatNode
    PROVE  Childless(node) <=> node.right = 0 /\ node.cells \in Seq(LeafCell)
<1>1. node.cells \in Seq(FlatCell) /\ Len(node.cells) \in Nat
  BY DEF FlatNode
<1> DEFINE n == Len(node.cells)
<1>2. n \in Nat /\ child(node, n + 1) = node.right
  BY <1>1 DEF child
<1>3. \A s \in 1..n : child(node, s) = node.cells[s].left
  BY <1>2 DEF child
<1>4. \A s \in slots_of(node) : s = n + 1 \/ s \in 1..n
  BY <1>2 DEF slots_of
<1>5. n + 1 \in slots_of(node) /\ \A s \in 1..n : s \in slots_of(node)
  BY <1>2 DEF slots_of
<1>6. Childless(node) <=> node.right = 0 /\ \A s \in 1..n : node.cells[s].left = 0
  BY <1>2, <1>3, <1>4, <1>5 DEF Childless
<1>7. (\A s \in 1..n : node.cells[s].left = 0) <=> node.cells \in Seq(LeafCell)
  <2> DEFINE c == node.cells
  <2>1. c \in Seq(FlatCell) /\ n = Len(c)
    BY <1>1
  <2> HIDE DEF c, n
  <2>2. \A s \in 1..n : c[s] \in FlatCell
    BY <2>1
  <2>3. (\A s \in 1..n : c[s].left = 0) <=> (\A s \in 1..n : c[s] \in LeafCell)
    BY <2>2 DEF LeafCell
  <2>4. (\A s \in 1..n : c[s] \in LeafCell) <=> c \in Seq(LeafCell)
    <3> HIDE DEF FlatCell, LeafCell
    <3> QED
      BY <2>1
  <2> QED
    BY <2>3, <2>4 DEF c
<1> QED
  BY <1>6, <1>7

(* A page gets other cells, and its children, if any, stay in their slots. *)
SameChildren(n, m) ==
    Len(n.cells) = Len(m.cells) /\ \A s \in slots_of(m) : child(n, s) = child(m, s)

OneChanged(Q, P, p) ==
    DOMAIN Q = DOMAIN P /\ \A q \in DOMAIN P : q # p => Q[q] = P[q]

LEMMA ChangeKeepsTree ==
    ASSUME NEW P, NEW root, NEW h, NEW up, NEW H, Tree(P, root, h, up, H), NEW p \in DOMAIN P,
           NEW Q, OneChanged(Q, P, p), Q[p] \in FlatNode,
           (h[p] = 0 /\ Childless(Q[p])) \/ SameChildren(Q[p], P[p])
    PROVE  Tree(Q, root, h, up, H)
<1> DEFINE D == DOMAIN P
<1>1. DOMAIN Q = D /\ \A q \in D : q # p => Q[q] = P[q]
  BY DEF OneChanged
<1>2. \A q \in D : q \in Nat /\ Q[q] \in FlatNode
  BY <1>1, TreeNode
<1>3. SameChildren(Q[p], P[p]) => slots_of(Q[p]) = slots_of(P[p])
  BY DEF SameChildren, slots_of
<1>4. ASSUME NEW q \in D PROVE InPlace(Q, root, h, up, q)
  <2>1. InPlace(P, root, h, up, q)
    BY TreeNode
  <2>2. \A x \in D : IsBelow(P, root, h, up, x, q) => IsBelow(Q, root, h, up, x, q)
    BY <1>1 DEF IsBelow
  <2>3. CASE q # p
    <3>1. Q[q] = P[q]
      BY <1>1, <2>3
    <3> QED
      BY <2>1, <2>2, <3>1 DEF InPlace, IsBelow
  <2>4. CASE q = p
    <3>1. CASE h[p] = 0 /\ Childless(Q[p])
      BY <2>4, <3>1 DEF InPlace
    <3>2. CASE SameChildren(Q[p], P[p])
      <4>1. slots_of(Q[p]) = slots_of(P[p]) /\ \A s \in slots_of(P[p]) : child(Q[p], s) = child(P[p], s)
        BY <1>3, <3>2 DEF SameChildren
      <4>2. CASE h[p] = 0
        <5>1. Childless(P[p])
          BY <2>1, <2>4, <4>2 DEF InPlace
        <5>2. Childless(Q[p])
          BY <4>1, <5>1 DEF Childless
        <5> QED
          BY <2>4, <4>2, <5>2 DEF InPlace
      <4>3. CASE h[p] # 0
        <5>1. Distinct(P[p]) /\ \A s \in slots_of(P[p]) : IsBelow(P, root, h, up, child(P[p], s), p)
          BY <2>1, <2>4, <4>3 DEF InPlace
        <5>2. Distinct(Q[p])
          BY <4>1, <5>1 DEF Distinct
        <5>3. \A s \in slots_of(Q[p]) : IsBelow(Q, root, h, up, child(Q[p], s), p)
          BY <2>2, <2>4, <4>1, <5>1 DEF IsBelow
        <5> QED
          BY <2>4, <4>3, <5>2, <5>3 DEF InPlace
      <4> QED
        BY <4>2, <4>3
    <3> QED
      BY <3>1, <3>2
  <2> QED
    BY <2>3, <2>4
<1>5. ASSUME NEW q \in D \ {root} PROVE Attached(Q, h, up, q)
  <2>1. Attached(P, h, up, q)
    BY DEF Tree
  <2>2. PICK s \in slots_of(P[up[q]]) : child(P[up[q]], s) = q
    BY <2>1 DEF Attached
  <2>3. up[q] \in D /\ h[up[q]] # 0
    BY <2>1 DEF Attached
  <2>4. s \in slots_of(Q[up[q]]) /\ child(Q[up[q]], s) = q
    <3>1. CASE up[q] = p
      BY <1>3, <2>2, <2>3, <3>1 DEF SameChildren
    <3>2. CASE up[q] # p
      BY <1>1, <2>2, <2>3, <3>2
    <3> QED
      BY <3>1, <3>2
  <2> QED
    BY <1>1, <2>3, <2>4 DEF Attached
<1>6. IsFiniteSet(D) /\ root \in D /\ H \in Nat /\ h \in [D -> 0..H]
  BY DEF Tree
<1> HIDE DEF D
<1> QED
  BY <1>1, <1>2, <1>4, <1>5, <1>6 DEF Tree

LEMMA DescendsByDomain ==
    ASSUME NEW P, NEW Q, DOMAIN Q = DOMAIN P, NEW root, NEW h, NEW up, NEW p, NEW path, NEW page,
           Descends(P, root, h, up, p, path, page)
    PROVE  Descends(Q, root, h, up, p, path, page)
BY DEF Descends

LEMMA FreeNothing ==
    ASSUME NEW P, NEW root, NEW h, NEW up, NEW H, Tree(P, root, h, up, H), NEW cell, cell.overflow = 0
    PROVE  /\ DOMAIN free_cell(P, cell) = DOMAIN P
           /\ \A p \in DOMAIN P : free_cell(P, cell)[p] = P[p]
<1> DEFINE Of(f) == [p \in spill_pages(P) \union {0} |-> IF p = 0 THEN <<>> ELSE <<p>> \o f[P[p].next]]
           from == CHOOSE f : f = Of(f)
           none == [p \in {0} |-> <<>>]
<1>1. spill_pages(P) \union {0} = {0}
  BY AllAreNodes
<1>2. none = Of(none)
  BY <1>1
<1>3. from = Of(from)
  <2> HIDE DEF Of, none
  <2> QED
    BY <1>2
<1> HIDE DEF from
<1>4. from[0] = <<>>
  BY <1>1, <1>3
<1>5. overflow_pages(P, cell) = <<>>
  BY <1>4 DEF overflow_pages, from
<1>6. ToSet(<<>>) = {}
  BY DEF ToSet
<1>7. free_cell(P, cell) = free_pages(P, {})
  BY <1>5, <1>6 DEF free_cell
<1> QED
  BY <1>7 DEF free_pages

-----------------------------------------------------------------------------
(* The pages between the steps, where the entries have one length and need *)
(* no overflow page.                                                       *)

FixedCells(g) == HalfPages(g) /\ OneLength(g) /\ FitsInCells(g)

(* A call of balance() has come to its page from the root.                 *)
Called(P, root, h, up, b) ==
    b = Idle \/ (b \in CallsOn(P) /\ Descends(P, root, h, up, root, b.parents, b.page))

Grown(P, b, root) == \E h, up, H : Tree(P, root, h, up, H) /\ Called(P, root, h, up, b)

(* Only the page that balance() is called for, or the only page below an   *)
(* empty root that it is called for, has no cell.                          *)
NoneEmpty(P, b, root) ==
    \A p \in DOMAIN P \ {root} :
        P[p].cells = <<>> => /\ b.on
                             /\ \/ p = b.page
                                \/ b.page = root /\ P[root].cells = <<>> /\ P[root].right = p

(* Only the page that balance() is called for has too many.                *)
NoneTooLarge(P, b) == \A p \in DOMAIN P : is_overflow(P, p) => b.on /\ p = b.page

TreeInv ==
    /\ geo \in Geometries
    /\ Grown(pages, bal, geo.root) /\ NoneEmpty(pages, bal, geo.root) /\ NoneTooLarge(pages, bal)
    /\ removed = None \/ removed \in FlatCell
    /\ DOMAIN dict \subseteq geo.keys
    /\ \A k \in DOMAIN dict : dict[k] \in geo.lens

LEMMA FlatCellsAreCells ==
    FlatCell \subseteq CellType /\ FlatNode \subseteq NodeType
<1>1. FlatCell \subseteq CellType
  BY DEF FlatCell, CellType
<1>2. Seq(FlatCell) \subseteq Seq(CellType)
  <2> HIDE DEF FlatCell, CellType
  <2> QED
    BY <1>1
<1> QED
  BY <1>1, <1>2 DEF FlatNode, NodeType

LEMMA TreeInvHasTypes ==
    ASSUME TreeInv
    PROVE  TypeOK
<1>1. PICK h, up, H : Tree(pages, geo.root, h, up, H) /\ Called(pages, geo.root, h, up, bal)
  BY DEF TreeInv, Grown
<1>2. IsFiniteSet(DOMAIN pages) /\ \A p \in DOMAIN pages : p \in Nat /\ pages[p] \in FlatNode
  BY <1>1 DEF Tree
<1>3. \A p \in DOMAIN pages : pages[p] \in NodeType \union OverflowType
  BY <1>2, FlatCellsAreCells
<1>4. bal = Idle \/ bal \in [on : {TRUE}, page : node_pages(pages),
                             parents : Seq(node_pages(pages)), internal : Nat \union {NoPage}]
  BY <1>1 DEF Called, CallsOn
<1>5. removed = None \/ removed \in CellType
  BY FlatCellsAreCells DEF TreeInv
<1> QED
  BY <1>2, <1>3, <1>4, <1>5 DEF TreeInv, TypeOK

LEMMA BeginsWithRoot ==
    ASSUME Init
    PROVE  TreeInv
<1>1. geo \in Geometries /\ geo.root \in Nat /\ bal = Idle /\ removed = None
  BY GeometriesAssumption DEF Init
<1> DEFINE r == geo.root
           h == [p \in {r} |-> 0]
<1>2. DOMAIN pages = {r} /\ pages[r] = EmptyNode
  BY DEF Init
<1>3. EmptyNode \in FlatNode /\ EmptyNode.cells = <<>> /\ EmptyNode.right = 0
  BY DEF EmptyNode, Node, FlatNode
<1>4. Tree(pages, r, h, h, 0)
  <2>1. IsFiniteSet({r})
    BY FS_Singleton
  <2>2. Childless(EmptyNode)
    BY <1>3 DEF Childless, slots_of, child
  <2>3. h[r] = 0 /\ h \in [{r} -> 0..0]
    OBVIOUS
  <2>4. \A p \in DOMAIN pages : p = r /\ InPlace(pages, r, h, h, p)
    BY <1>2, <2>2, <2>3 DEF InPlace
  <2> HIDE DEF r, h
  <2> QED
    BY <1>1, <1>2, <1>3, <2>1, <2>3, <2>4 DEF Tree, r
<1>5. Grown(pages, bal, r)
  BY <1>1, <1>4 DEF Grown, Called
<1>6. NoneEmpty(pages, bal, r)
  BY <1>2 DEF NoneEmpty
<1>7. ~is_overflow(pages, r)
  <2>1. SizedCells(<<>>) /\ Sums([i \in 0..0 |-> 0], <<>>)
    BY DEF SizedCells, Sums
  <2>2. used_bytes(<<>>) = 0
    <3>1. used_bytes(<<>>) = [i \in 0..0 |-> 0][Len(<<>>)]
      BY <2>1, SumsAreOne
    <3>2. Len(<<>>) = 0
      OBVIOUS
    <3> QED
      BY <3>1, <3>2
  <2>3. space(r) \in Nat
    BY <1>1, GeometriesAssumption DEF space
  <2> QED
    BY <1>2, <1>3, <2>2, <2>3 DEF is_overflow
<1>8. NoneTooLarge(pages, bal)
  BY <1>2, <1>7 DEF NoneTooLarge
<1>9. DOMAIN dict = {}
  BY DEF Init
<1> QED
  BY <1>1, <1>5, <1>6, <1>8, <1>9 DEF TreeInv

-----------------------------------------------------------------------------
(* insert() and try_insert().                                              *)

LEMMA PutKeepsTree ==
    ASSUME NEW root, NEW h, NEW up, NEW H, Tree(pages, root, h, up, H), FitsInCells(geo),
           NEW at \in SearchResults(pages, h), NEW key \in geo.keys, NEW len \in geo.lens,
           NEW Q, Q = put(at, key, len)
    PROVE  Tree(Q, root, h, up, H) /\ OneChanged(Q, pages, at.page) /\ Q[at.page].cells # <<>>
<1> DEFINE p == at.page
           node == pages[p]
           s == at.slot
           new == Cell(key, len, 0, 0)
           old == node.cells[s]
           kept == [new EXCEPT !.left = old.left]
           over == [node EXCEPT !.cells[s] = kept]
           more == [node EXCEPT !.cells = InsertAt(@, s, new)]
<1>1. /\ p \in DOMAIN pages /\ s \in slots_of(node) /\ at.found \in BOOLEAN
      /\ at.found => s \in 1..Len(node.cells)
      /\ ~at.found => h[p] = 0
  BY DEF SearchResults
<1>2. node \in FlatNode /\ node.cells \in Seq(FlatCell) /\ Len(node.cells) \in Nat /\ node.right \in Nat
      /\ InPlace(pages, root, h, up, p)
  BY <1>1, TreeNode
<1>3. alloc_cell(pages, key, len) = [pages |-> pages, cell |-> new]
  BY DEF alloc_cell, FitsInCells
<1>4. new \in LeafCell /\ new \in FlatCell /\ new = [key |-> key, len |-> len, left |-> 0, overflow |-> 0]
  BY DEF Cell, LeafCell, FlatCell
<1>5. Q = IF at.found THEN free_cell(set_page(pages, p, over), old) ELSE set_page(pages, p, more)
  BY <1>3 DEF put
<1> HIDE DEF p, node, s, new
<1>6. CASE at.found
  <2> DEFINE S == set_page(pages, p, over)
  <2>1. old \in FlatCell /\ old.left \in Nat /\ old.overflow = 0 /\ s \in 1..Len(node.cells)
    <3>1. old \in FlatCell /\ s \in 1..Len(node.cells)
      BY <1>1, <1>2, <1>6
    <3> HIDE DEF old
    <3> QED
      BY <3>1 DEF FlatCell
  <2> HIDE DEF old
  <2>2. kept \in FlatCell /\ kept.left = old.left
    BY <1>4, <2>1 DEF FlatCell
  <2> HIDE DEF kept
  <2> DEFINE cells == [node.cells EXCEPT ![s] = kept]
  <2>3. cells \in Seq(FlatCell) /\ Len(cells) = Len(node.cells)
        /\ \A j \in 1..Len(node.cells) : cells[j] = IF j = s THEN kept ELSE node.cells[j]
    BY <1>2, <2>1, <2>2, ReplaceKeepsType
  <2>4. over = [node EXCEPT !.cells = cells]
    BY <1>2 DEF FlatNode
  <2> HIDE DEF cells
  <2>5. over \in FlatNode /\ over.cells = cells /\ over.right = node.right
    BY <1>2, <2>3, <2>4 DEF FlatNode
  <2>6. SameChildren(over, node)
    <3>1. ASSUME NEW j \in slots_of(node) PROVE child(over, j) = child(node, j)
      <4>1. CASE j = Len(node.cells) + 1
        BY <2>3, <2>5, <4>1 DEF child
      <4>2. CASE j # Len(node.cells) + 1
        <5>1. j \in 1..Len(node.cells)
          BY <1>2, <4>2 DEF slots_of
        <5>2. cells[j].left = node.cells[j].left
          BY <2>2, <2>3, <5>1 DEF old
        <5> QED
          BY <2>3, <2>5, <4>2, <5>2 DEF child
      <4> QED
        BY <4>1, <4>2
    <3> QED
      BY <2>3, <2>5, <3>1 DEF SameChildren
  <2> HIDE DEF over
  <2>7. OneChanged(S, pages, p) /\ S[p] = over
    BY <1>1 DEF set_page, OneChanged
  <2> HIDE DEF S
  <2>8. Tree(S, root, h, up, H)
    BY <1>1, <2>5, <2>6, <2>7, ChangeKeepsTree DEF node
  <2>9. DOMAIN Q = DOMAIN S /\ \A x \in DOMAIN S : Q[x] = S[x]
    BY <1>5, <1>6, <2>1, <2>8, FreeNothing DEF S
  <2>10. OneChanged(Q, pages, p) /\ Q[p] = over
    BY <1>1, <2>7, <2>9 DEF OneChanged
  <2>11. Tree(Q, root, h, up, H)
    BY <1>1, <2>5, <2>6, <2>10, ChangeKeepsTree DEF node
  <2>12. over.cells # <<>>
    <3>1. Len(over.cells) # 0
      BY <1>2, <2>1, <2>3, <2>5
    <3> QED
      BY <3>1
  <2> QED
    BY <2>10, <2>11, <2>12 DEF p
<1>7. CASE ~at.found
  <2>1. h[p] = 0 /\ Childless(node)
    <3>1. h[p] = 0
      BY <1>1, <1>7
    <3> QED
      BY <1>2, <3>1 DEF InPlace, node
  <2>2. node.right = 0 /\ node.cells \in Seq(LeafCell)
    BY <1>2, <2>1, LeavesHaveLeafCells
  <2> DEFINE cells == InsertAt(node.cells, s, new)
  <2>3. cells \in Seq(LeafCell) /\ cells \in Seq(FlatCell) /\ Len(cells) = Len(node.cells) + 1
    <3>1. s \in 1..(Len(node.cells) + 1)
      BY <1>1 DEF slots_of
    <3>2. cells \in Seq(LeafCell) /\ Len(cells) = Len(node.cells) + 1
      BY <1>4, <2>2, <3>1, InsertKeepsType
    <3>3. cells \in Seq(FlatCell)
      BY <1>2, <1>4, <3>1, InsertKeepsType
    <3> QED
      BY <3>2, <3>3
  <2> HIDE DEF cells
  <2>4. more \in FlatNode /\ more.cells = cells /\ more.right = 0
    <3>1. more = [node EXCEPT !.cells = cells]
      BY <1>2 DEF FlatNode, cells
    <3> QED
      BY <1>2, <2>2, <2>3, <3>1 DEF FlatNode
  <2> HIDE DEF more
  <2>5. Childless(more)
    BY <2>3, <2>4, LeavesHaveLeafCells
  <2>6. OneChanged(Q, pages, p) /\ Q[p] = more
    BY <1>1, <1>5, <1>7 DEF set_page, OneChanged
  <2>7. Tree(Q, root, h, up, H)
    BY <1>1, <2>1, <2>4, <2>5, <2>6, ChangeKeepsTree
  <2>8. more.cells # <<>>
    <3>1. Len(more.cells) # 0
      BY <1>2, <2>3, <2>4
    <3> QED
      BY <3>1
  <2> QED
    BY <2>6, <2>7, <2>8 DEF p
<1> QED
  BY <1>1, <1>6, <1>7

-----------------------------------------------------------------------------
(* What is to be shown of a step.                                          *)

(* The bytes of cells and the space of a page, with the tree they are of.  *)
BytesIn(g, cells) ==
    LET used[i \in 0..Len(cells)] ==
            IF i = 0 THEN 0 ELSE used[i - 1] + (g.header + Min2(cells[i].len, g.max_payload))
    IN  used[Len(cells)]
SpaceIn(g, p) == IF p = 0 THEN g.zero_space ELSE g.usable_space

LEMMA TooLargeNext ==
    ASSUME UNCHANGED geo, NoneTooLarge(pages', bal')
    PROVE  NoneTooLarge(pages, bal)'
<1>1. \A p : is_overflow(pages, p)' <=> BytesIn(geo', pages'[p].cells) > SpaceIn(geo', p)
  BY DEF is_overflow, used_bytes, storage_size, space, BytesIn, SpaceIn
<1>2. \A p : is_overflow(pages', p) <=> BytesIn(geo, pages'[p].cells) > SpaceIn(geo, p)
  BY DEF is_overflow, used_bytes, storage_size, space, BytesIn, SpaceIn
<1> QED
  BY <1>1, <1>2 DEF NoneTooLarge

LEMMA TreeInvNext ==
    ASSUME UNCHANGED geo, geo \in Geometries, Grown(pages', bal', geo.root),
           NoneEmpty(pages', bal', geo.root), NoneTooLarge(pages', bal'),
           removed' = None \/ removed' \in FlatCell, DOMAIN dict' \subseteq geo.keys,
           \A k \in DOMAIN dict' : dict'[k] \in geo.lens
    PROVE  TreeInv'
<1>1. FlatCell' = FlatCell /\ FlatNode' = FlatNode
  <2>1. FlatCell' = FlatCell
    BY DEF FlatCell
  <2> QED
    BY <2>1 DEF FlatNode
<1>2. Grown(pages, bal, geo.root)'
  <2>1. PICK h, up, H : Tree(pages', geo.root, h, up, H) /\ Called(pages', geo.root, h, up, bal')
    BY DEF Grown
  <2>2. Tree(pages, geo.root, h, up, H)'
    BY <1>1, <2>1 DEF Tree
  <2>3. Called(pages, geo.root, h, up, bal)'
    BY <2>1
  <2> QED
    BY <2>2, <2>3 DEF Grown
<1>3. NoneEmpty(pages, bal, geo.root)'
  BY DEF NoneEmpty
<1>4. NoneTooLarge(pages, bal)'
  BY TooLargeNext
<1> QED
  BY <1>1, <1>2, <1>3, <1>4 DEF TreeInv

-----------------------------------------------------------------------------
(* The operations.                                                         *)

LEMMA NoCallIsIdle ==
    ASSUME NEW P, NEW root, NEW h, NEW up, NEW b, Called(P, root, h, up, b), ~b.on
    PROVE  b = Idle
BY DEF Called, CallsOn

(* Between two calls no page is out of balance, so after the change of one *)
(* page and the call of balance() for it only that page may be.            *)
LEMMA CallKeepsInv ==
    ASSUME TreeInv, ~bal.on, NEW h, NEW up, NEW H, NEW Q, Tree(Q, geo.root, h, up, H),
           DOMAIN Q = DOMAIN pages, NEW p, NEW path, Descends(Q, geo.root, h, up, geo.root, path, p),
           \A q \in DOMAIN pages : q # p => /\ Q[q].cells = <<>> => pages[q].cells = <<>>
                                            /\ is_overflow(Q, q) => is_overflow(pages, q),
           NEW x \in Nat \union {NoPage}, NEW b, b = Balance(p, path, x)
    PROVE  Grown(Q, b, geo.root) /\ NoneEmpty(Q, b, geo.root) /\ NoneTooLarge(Q, b)
<1>1. b.on /\ b.page = p /\ b.parents = path /\ b.internal = x
  BY DEF Balance
<1>2. p \in DOMAIN Q /\ path \in Seq(DOMAIN Q)
  BY DEF Descends
<1>3. b \in CallsOn(Q)
  <2>1. node_pages(Q) = DOMAIN Q
    BY AllAreNodes
  <2> QED
    BY <1>2, <2>1 DEF CallsOn, Balance
<1>4. Grown(Q, b, geo.root)
  BY <1>1, <1>3 DEF Grown, Called
<1>5. NoneEmpty(Q, b, geo.root)
  <2>1. \A q \in DOMAIN pages \ {geo.root} : pages[q].cells # <<>>
    BY DEF TreeInv, NoneEmpty
  <2> QED
    BY <1>1, <2>1 DEF NoneEmpty
<1>6. NoneTooLarge(Q, b)
  <2>1. \A q \in DOMAIN pages : ~is_overflow(pages, q)
    BY DEF TreeInv, NoneTooLarge
  <2> QED
    BY <1>1, <2>1 DEF NoneTooLarge
<1> QED
  BY <1>4, <1>5, <1>6

LEMMA PutKeepsInv ==
    ASSUME TreeInv, FixedCells(geo), ~bal.on, NEW key \in geo.keys, NEW len \in geo.lens,
           NEW at, at = search(pages, geo.root, key),
           pages' = put(at, key, len), bal' = Balance(at.page, at.parents, NoPage)
    PROVE  /\ Grown(pages', bal', geo.root) /\ NoneEmpty(pages', bal', geo.root)
           /\ NoneTooLarge(pages', bal')
<1>1. PICK h, up, H : Tree(pages, geo.root, h, up, H)
  BY DEF TreeInv, Grown
<1>2. at \in SearchResults(pages, h) /\ Descends(pages, geo.root, h, up, geo.root, at.parents, at.page)
  BY <1>1, SearchEnds
<1> DEFINE Q == put(at, key, len)
<1>3. Tree(Q, geo.root, h, up, H) /\ OneChanged(Q, pages, at.page)
  <2>1. FitsInCells(geo)
    BY DEF FixedCells
  <2> QED
    BY <1>1, <1>2, <2>1, PutKeepsTree
<1> HIDE DEF Q
<1>4. DOMAIN Q = DOMAIN pages /\ \A q \in DOMAIN pages : q # at.page => Q[q] = pages[q]
  BY <1>3 DEF OneChanged
<1>5. Descends(Q, geo.root, h, up, geo.root, at.parents, at.page)
  BY <1>2, <1>4, DescendsByDomain
<1>6. \A q \in DOMAIN pages : q # at.page => /\ Q[q].cells = <<>> => pages[q].cells = <<>>
                                             /\ is_overflow(Q, q) => is_overflow(pages, q)
  BY <1>4 DEF is_overflow
<1>7. Grown(Q, bal', geo.root) /\ NoneEmpty(Q, bal', geo.root) /\ NoneTooLarge(Q, bal')
  BY <1>3, <1>4, <1>5, <1>6, CallKeepsInv
<1> QED
  BY <1>7 DEF Q

LEMMA InsertKeepsInv ==
    ASSUME TreeInv, FixedCells(geo), NEW key \in geo.keys, NEW len \in geo.lens, insert(key, len)
    PROVE  TreeInv'
<1>1. ~bal.on /\ UNCHANGED geo /\ UNCHANGED removed
  BY DEF insert, Ready
<1>2. Grown(pages', bal', geo.root) /\ NoneEmpty(pages', bal', geo.root) /\ NoneTooLarge(pages', bal')
  BY <1>1, PutKeepsInv DEF insert
<1>3. DOMAIN dict' \subseteq geo.keys /\ \A k \in DOMAIN dict' : dict'[k] \in geo.lens
  BY DEF insert, TreeInv
<1> QED
  BY <1>1, <1>2, <1>3, TreeInvNext DEF TreeInv

LEMMA TryInsertKeepsInv ==
    ASSUME TreeInv, FixedCells(geo), NEW key \in geo.keys, NEW len \in geo.lens, try_insert(key, len)
    PROVE  TreeInv'
<1> DEFINE at == search(pages, geo.root, key)
<1>1. ~bal.on /\ UNCHANGED geo /\ UNCHANGED removed
  BY DEF try_insert, Ready
<1>2. Grown(pages', bal', geo.root) /\ NoneEmpty(pages', bal', geo.root) /\ NoneTooLarge(pages', bal')
  <2>1. CASE at.found
    <3>1. UNCHANGED <<pages, bal>>
      BY <2>1 DEF try_insert
    <3> QED
      BY <3>1 DEF TreeInv
  <2>2. CASE ~at.found
    <3>1. pages' = put(at, key, len) /\ bal' = Balance(at.page, at.parents, NoPage)
      BY <2>2 DEF try_insert
    <3> QED
      BY <1>1, <3>1, PutKeepsInv
  <2> QED
    BY <2>1, <2>2
<1>3. DOMAIN dict' \subseteq geo.keys /\ \A k \in DOMAIN dict' : dict'[k] \in geo.lens
  BY DEF try_insert, TreeInv
<1> QED
  BY <1>1, <1>2, <1>3, TreeInvNext DEF TreeInv

LEMMA FreeRemovedKeepsInv ==
    ASSUME TreeInv, FreeRemoved
    PROVE  TreeInv'
<1>1. ~bal.on /\ UNCHANGED geo /\ UNCHANGED bal /\ UNCHANGED dict /\ removed' = None
      /\ pages' = free_cell(pages, removed) /\ removed \in FlatCell
  BY DEF FreeRemoved, TreeInv
<1>2. PICK h, up, H : Tree(pages, geo.root, h, up, H) /\ Called(pages, geo.root, h, up, bal)
  BY DEF TreeInv, Grown
<1>3. removed.overflow = 0
  BY <1>1 DEF FlatCell
<1>4. DOMAIN pages' = DOMAIN pages /\ \A q \in DOMAIN pages : pages'[q] = pages[q]
  BY <1>1, <1>2, <1>3, FreeNothing
<1>5. Tree(pages', geo.root, h, up, H)
  <2>1. geo.root \in DOMAIN pages
    BY <1>2 DEF Tree
  <2>2. OneChanged(pages', pages, geo.root) /\ pages'[geo.root] \in FlatNode
        /\ SameChildren(pages'[geo.root], pages[geo.root])
    BY <1>2, <1>4, <2>1, TreeNode DEF OneChanged, SameChildren
  <2> QED
    BY <1>2, <2>1, <2>2, ChangeKeepsTree
<1>6. bal' = Idle
  BY <1>1, <1>2, NoCallIsIdle
<1>7. Grown(pages', bal', geo.root)
  BY <1>5, <1>6 DEF Grown, Called
<1>8. NoneEmpty(pages', bal', geo.root)
  BY <1>1, <1>4 DEF TreeInv, NoneEmpty
<1>9. NoneTooLarge(pages', bal')
  BY <1>1, <1>4 DEF TreeInv, NoneTooLarge, is_overflow
<1> QED
  BY <1>1, <1>7, <1>8, <1>9, TreeInvNext DEF TreeInv

(* Cells of the same sizes take the same bytes.                            *)
LEMMA SameSizesSameBytes ==
    ASSUME NEW a, NEW b, SizedCells(a), SizedCells(b), Len(a) = Len(b),
           \A i \in 1..Len(a) : storage_size(a[i]) = storage_size(b[i])
    PROVE  used_bytes(a) = used_bytes(b)
<1>1. PICK B : Sums(B, a)
  BY SumsExist
<1>2. Sums(B, b)
  BY <1>1 DEF Sums
<1> QED
  BY <1>1, <1>2, SumsAreOne

LEMMA CellTakesAsMuch ==
    ASSUME geo \in Geometries, OneLength(geo), NEW cells \in Seq(FlatCell), NEW i \in 1..Len(cells),
           NEW cell \in FlatCell
    PROVE  used_bytes([cells EXCEPT ![i] = cell]) = used_bytes(cells)
<1> DEFINE b == [cells EXCEPT ![i] = cell]
<1>1. b \in Seq(FlatCell) /\ Len(b) = Len(cells)
      /\ \A j \in 1..Len(cells) : b[j] = IF j = i THEN cell ELSE cells[j]
  BY ReplaceKeepsType
<1> HIDE DEF b
<1>2. \A x, y \in FlatCell : storage_size(x) = storage_size(y)
  BY DEF FlatCell, OneLength, storage_size
<1>3. \A x \in FlatCell : storage_size(x) \in Nat
  <2>1. geo.header \in Nat /\ geo.max_payload \in Nat /\ geo.lens \subseteq Nat
    BY GeometriesAssumption
  <2>2. \A x \in FlatCell : x.len \in Nat
    BY <2>1 DEF FlatCell
  <2>3. \A x : x.len \in Nat => storage_size(x) \in Nat
    BY ONLY <2>1 DEF storage_size, Min2
  <2> QED
    BY <2>2, <2>3
<1>4. \A j \in 1..Len(cells) : cells[j] \in FlatCell
  OBVIOUS
<1>5. SizedCells(cells) /\ SizedCells(b)
  <2>1. \A c \in Seq(FlatCell) : c = [j \in 1..Len(c) |-> c[j]] /\ Len(c) \in Nat
                                 /\ \A j \in 1..Len(c) : c[j] \in FlatCell
    <3> HIDE DEF FlatCell
    <3> QED
      OBVIOUS
  <2> QED
    BY <1>1, <1>3, <2>1 DEF SizedCells
<1>6. \A j \in 1..Len(b) : storage_size(b[j]) = storage_size(cells[j])
  BY <1>1, <1>2, <1>4
<1> QED
  BY <1>1, <1>5, <1>6, SameSizesSameBytes DEF b

(* The cell that remove() takes out of a leaf.                             *)
LEMMA TakenFromLeaf ==
    ASSUME NEW P, NEW root, NEW h, NEW up, NEW H, Tree(P, root, h, up, H), NEW p \in DOMAIN P,
           h[p] = 0, NEW s \in 1..Len(P[p].cells), NEW Q, OneChanged(Q, P, p),
           Q[p] = [P[p] EXCEPT !.cells = RemoveAt(@, s)]
    PROVE  Tree(Q, root, h, up, H)
<1>1. P[p] \in FlatNode /\ Childless(P[p]) /\ P[p].cells \in Seq(FlatCell)
  BY TreeNode DEF InPlace
<1>2. P[p].right = 0 /\ P[p].cells \in Seq(LeafCell)
  BY <1>1, LeavesHaveLeafCells
<1> DEFINE cells == RemoveAt(P[p].cells, s)
<1>3. cells \in Seq(FlatCell) /\ cells \in Seq(LeafCell)
  BY <1>1, <1>2, RemoveKeepsType
<1>4. Q[p] = [P[p] EXCEPT !.cells = cells]
  BY <1>1 DEF FlatNode
<1> HIDE DEF cells
<1>5. Q[p] \in FlatNode /\ Q[p].cells = cells /\ Q[p].right = 0
  BY <1>1, <1>2, <1>3, <1>4 DEF FlatNode
<1>6. Childless(Q[p])
  BY <1>3, <1>5, LeavesHaveLeafCells
<1> QED
  BY <1>5, <1>6, ChangeKeepsTree

(* A cell of an internal node with another key.                            *)
LEMMA SubstitutedInside ==
    ASSUME NEW P, NEW root, NEW h, NEW up, NEW H, Tree(P, root, h, up, H), NEW p \in DOMAIN P,
           NEW s \in 1..Len(P[p].cells), NEW cell \in FlatCell, cell.left = child(P[p], s),
           NEW Q, OneChanged(Q, P, p), NEW cells, cells = [P[p].cells EXCEPT ![s] = cell],
           Q[p] = [P[p] EXCEPT !.cells = cells]
    PROVE  Tree(Q, root, h, up, H) /\ Q[p].cells = cells /\ cells \in Seq(FlatCell) /\ cells # <<>>
<1>1. P[p] \in FlatNode /\ P[p].cells \in Seq(FlatCell) /\ Len(P[p].cells) \in Nat
  BY TreeNode
<1>2. cells \in Seq(FlatCell) /\ Len(cells) = Len(P[p].cells)
      /\ \A j \in 1..Len(P[p].cells) : cells[j] = IF j = s THEN cell ELSE P[p].cells[j]
  BY <1>1, ReplaceKeepsType
<1>3. Q[p] \in FlatNode /\ Q[p].cells = cells /\ Q[p].right = P[p].right
  BY <1>1, <1>2 DEF FlatNode
<1>4. ASSUME NEW j \in slots_of(P[p]) PROVE child(Q[p], j) = child(P[p], j)
  <2>1. CASE j = Len(P[p].cells) + 1
    BY <1>2, <1>3, <2>1 DEF child
  <2>2. CASE j # Len(P[p].cells) + 1
    <3>1. j \in 1..Len(P[p].cells)
      BY <1>1, <2>2 DEF slots_of
    <3>2. child(Q[p], j) = cells[j].left /\ child(P[p], j) = P[p].cells[j].left
      BY <1>2, <1>3, <2>2 DEF child
    <3>3. CASE j = s
      <4>1. cells[j] = cell
        BY <1>2, <3>1, <3>3
      <4> QED
        BY <3>2, <3>3, <4>1
    <3>4. CASE j # s
      <4>1. cells[j] = P[p].cells[j]
        BY <1>2, <3>1, <3>4
      <4> QED
        BY <3>2, <4>1
    <3> QED
      BY <3>3, <3>4
  <2> QED
    BY <2>1, <2>2
<1>5. SameChildren(Q[p], P[p])
  BY <1>2, <1>3, <1>4 DEF SameChildren
<1>6. cells # <<>>
  <2>1. Len(cells) # 0
    BY <1>1, <1>2
  <2> QED
    BY <2>1
<1> QED
  BY <1>2, <1>3, <1>5, <1>6, ChangeKeepsTree

(* The leaf that remove() finds a substitute in is not the root.           *)
LEMMA DescendsBelowRoot ==
    ASSUME NEW P, NEW root, NEW h, NEW up, NEW p, NEW path, NEW page,
           Descends(P, root, h, up, p, path, page), p # root
    PROVE  page # root /\ page \in DOMAIN P
<1>1. path \in Seq(DOMAIN P) /\ Len(path) \in Nat /\ page \in DOMAIN P
  BY DEF Descends
<1>2. on_path(path, page, Len(path) + 1) = page
  BY DEF on_path
<1>3. CASE Len(path) = 0
  <2>1. on_path(path, page, 1) = page
    BY <1>2, <1>3
  <2> QED
    BY <1>1, <2>1 DEF Descends
<1>4. CASE Len(path) # 0
  <2>1. Len(path) \in 1..Len(path)
    BY <1>1, <1>4
  <2> QED
    BY <1>1, <1>2, <2>1 DEF Descends
<1> QED
  BY <1>3, <1>4

LEMMA RemoveKeepsInv ==
    ASSUME TreeInv, FixedCells(geo), NEW key \in geo.keys, remove(key)
    PROVE  TreeInv'
<1> DEFINE at == search(pages, geo.root, key)
           p == at.page
           node == pages[p]
           root == geo.root
           found == node.cells[at.slot]
<1>1. ~bal.on /\ UNCHANGED geo
  BY DEF remove, Ready
<1>2. PICK h, up, H : Tree(pages, root, h, up, H)
  BY DEF TreeInv, Grown
<1>3. at \in SearchResults(pages, h) /\ Descends(pages, root, h, up, root, at.parents, p)
  BY <1>2, SearchEnds
<1>4. p \in DOMAIN pages /\ p \in Nat /\ at.found \in BOOLEAN /\ node.cells \in Seq(FlatCell)
      /\ Len(node.cells) \in Nat /\ h[p] \in Nat
  BY <1>2, <1>3, TreeNode DEF SearchResults
<1>5. DOMAIN dict' \subseteq geo.keys /\ \A k \in DOMAIN dict' : dict'[k] \in geo.lens
  BY DEF remove, TreeInv
<1>6. IF at.found THEN remove_entry(at) ELSE UNCHANGED <<pages, bal, removed>>
  BY DEF remove
<1>7. h \in [DOMAIN pages -> Nat]
  BY <1>2 DEF Tree
<1> HIDE DEF at
<1>8. CASE ~at.found
  <2>1. UNCHANGED <<pages, bal, removed>>
    BY <1>6, <1>8
  <2> QED
    BY <1>1, <1>5, <2>1, TreeInvNext DEF TreeInv
<1>9. CASE at.found
  <2>1. remove_entry(at) /\ at.slot \in 1..Len(node.cells) /\ found \in FlatCell
    BY <1>3, <1>4, <1>6, <1>9 DEF SearchResults
  <2>2. removed' = None \/ removed' \in FlatCell
    BY <2>1 DEF remove_entry
  <2>3. CASE is_leaf(node)
    <3>1. h[p] = 0
      BY <1>2, <1>4, <2>3, LeavesAreLow
    <3>2. /\ pages' = [pages EXCEPT ![p].cells = RemoveAt(@, at.slot)]
          /\ bal' = Balance(p, at.parents, NoPage)
      BY <2>1, <2>3 DEF remove_entry
    <3>3. OneChanged(pages', pages, p) /\ pages'[p] = [pages[p] EXCEPT !.cells = RemoveAt(@, at.slot)]
      BY <1>4, <3>2 DEF OneChanged
    <3> HIDE DEF p
    <3>4. Tree(pages', root, h, up, H)
      BY <1>2, <1>4, <2>1, <3>1, <3>3, TakenFromLeaf
    <3>5. DOMAIN pages' = DOMAIN pages /\ \A q \in DOMAIN pages : q # p => pages'[q] = pages[q]
      BY <3>3 DEF OneChanged
    <3>6. Descends(pages', root, h, up, root, at.parents, p)
      BY <1>3, <3>5, DescendsByDomain
    <3>7. \A q \in DOMAIN pages : q # p => /\ pages'[q].cells = <<>> => pages[q].cells = <<>>
                                           /\ is_overflow(pages', q) => is_overflow(pages, q)
      BY <3>5 DEF is_overflow
    <3>8. Grown(pages', bal', root) /\ NoneEmpty(pages', bal', root) /\ NoneTooLarge(pages', bal')
      BY <1>1, <3>2, <3>4, <3>5, <3>6, <3>7, CallKeepsInv
    <3> QED
      BY <1>1, <1>5, <2>2, <3>8, TreeInvNext DEF TreeInv
  <2>4. CASE ~is_leaf(node)
    <3> DEFINE sub == substitute(node, at.slot)
               q == sub.page
               leaf == pages[q]
               taken == leaf.cells[sub.slot]
               moved == [taken EXCEPT !.left = child(node, at.slot)]
               left == child(node, at.slot)
               right == child(node, at.slot + 1)
               path == Append(at.parents, p) \o sub.parents
    <3>1. h[p] # 0
      BY <1>2, <1>4, <2>4, LeavesAreLow
    <3>2. IsBelow(pages, root, h, up, left, p) /\ IsBelow(pages, root, h, up, right, p)
      <4>1. at.slot \in slots_of(pages[p]) /\ at.slot + 1 \in slots_of(pages[p])
        BY <1>4, <2>1 DEF slots_of
      <4> HIDE DEF p
      <4> QED
        BY <1>2, <1>4, <3>1, <4>1, ChildIsBelow
    <3>3. \E c, which : /\ IsBelow(pages, root, h, up, c, p) /\ which \in {"max", "min"}
                        /\ sub = search_leaf_key(pages, c, which)
      BY <3>2 DEF substitute, search_max_key, search_min_key
    <3> HIDE DEF sub
    <3>4. PICK c, which : /\ IsBelow(pages, root, h, up, c, p)
                          /\ sub = search_leaf_key(pages, c, which)
      BY <3>3
    <3>5. c \in DOMAIN pages /\ c # root
      BY <3>4 DEF IsBelow
    <3>6. /\ sub \in LeafResults(pages, which) /\ h[q] = 0
          /\ Descends(pages, root, h, up, c, sub.parents, q)
      BY <1>2, <3>4, <3>5, LeafSearchEnds
    <3>7. q \in DOMAIN pages /\ q # root /\ q # p
      BY <3>1, <3>5, <3>6, DescendsBelowRoot
    <3>8. leaf.cells \in Seq(FlatCell) /\ Len(leaf.cells) \in Nat /\ leaf.cells # <<>>
      <4>1. leaf.cells \in Seq(FlatCell) /\ Len(leaf.cells) \in Nat
        BY <1>2, <3>7, TreeNode
      <4> QED
        BY <1>1, <3>7, <4>1 DEF TreeInv, NoneEmpty
    <3>9. sub.slot \in 1..Len(leaf.cells) /\ taken \in FlatCell
      <4>1. Len(leaf.cells) # 0
        BY <3>8
      <4>2. sub.slot = EndSlot(leaf, which)
        BY <3>6 DEF LeafResults
      <4>3. sub.slot \in 1..Len(leaf.cells)
        BY <3>8, <4>1, <4>2 DEF EndSlot, Max2
      <4> QED
        BY <3>8, <4>3
    <3>10. moved \in FlatCell /\ moved.left = left
      <4>1. left \in Nat
        BY <1>2, <3>2, TreeNode DEF IsBelow
      <4> HIDE DEF taken, left
      <4>2. [taken EXCEPT !.left = left] \in FlatCell /\ [taken EXCEPT !.left = left].left = left
        BY <3>9, <4>1 DEF FlatCell
      <4> QED
        BY <4>2 DEF left
    <3>11. /\ pages' = [pages EXCEPT ![q].cells = RemoveAt(@, sub.slot),
                                    ![p].cells = [@ EXCEPT ![at.slot] = moved]]
           /\ bal' = Balance(q, path, p)
      BY <2>1, <2>4 DEF remove_entry, sub
    <3> HIDE DEF q, p, moved, path
    <3> DEFINE S == [pages EXCEPT ![q].cells = RemoveAt(@, sub.slot)]
               cells == [node.cells EXCEPT ![at.slot] = moved]
    <3>12. OneChanged(S, pages, q) /\ S[q] = [pages[q] EXCEPT !.cells = RemoveAt(@, sub.slot)]
      BY <3>7 DEF OneChanged
    <3>13. Tree(S, root, h, up, H)
      BY <1>2, <3>6, <3>7, <3>9, <3>12, TakenFromLeaf
    <3>14. S[p] = node /\ p \in DOMAIN S
      BY <1>4, <3>7
    <3>15. OneChanged(pages', S, p) /\ pages'[p] = [S[p] EXCEPT !.cells = cells]
      <4>1. DOMAIN pages' = DOMAIN pages /\ DOMAIN S = DOMAIN pages
        BY <3>11
      <4>2. \A x \in DOMAIN pages : x # p => pages'[x] = S[x]
        BY <1>4, <3>7, <3>11
      <4>3. pages'[p] = [S[p] EXCEPT !.cells = cells]
        BY <1>4, <3>7, <3>11
      <4> HIDE DEF S
      <4> QED
        BY <4>1, <4>2, <4>3 DEF OneChanged
    <3> HIDE DEF S, cells
    <3>16. Tree(pages', root, h, up, H) /\ pages'[p].cells = cells /\ cells # <<>>
      <4>1. at.slot \in 1..Len(S[p].cells) /\ moved.left = child(S[p], at.slot)
            /\ cells = [S[p].cells EXCEPT ![at.slot] = moved]
        BY <2>1, <3>10, <3>14 DEF cells
      <4> QED
        BY <3>10, <3>13, <3>14, <3>15, <4>1, SubstitutedInside
    <3>17. DOMAIN pages' = DOMAIN pages /\ \A x \in DOMAIN pages : x # q /\ x # p => pages'[x] = pages[x]
      BY <3>12, <3>15 DEF OneChanged
    <3>18. used_bytes(cells) = used_bytes(node.cells)
      BY <1>4, <2>1, <3>10, CellTakesAsMuch DEF cells, TreeInv, FixedCells
    <3>19. \A x \in DOMAIN pages : x # q => /\ pages'[x].cells = <<>> => pages[x].cells = <<>>
                                            /\ is_overflow(pages', x) => is_overflow(pages, x)
      BY <3>16, <3>17, <3>18 DEF is_overflow
    <3>20. Descends(pages, root, h, up, root, path, q)
      <4>1. root \in DOMAIN pages
        BY <1>2 DEF Tree
      <4> QED
        BY <1>3, <1>7, <3>4, <3>6, <4>1, DescendFurther DEF path, q, p
    <3>21. Descends(pages', root, h, up, root, path, q)
      BY <3>17, <3>20, DescendsByDomain
    <3>22. Grown(pages', bal', root) /\ NoneEmpty(pages', bal', root) /\ NoneTooLarge(pages', bal')
      BY <1>1, <1>4, <3>11, <3>16, <3>17, <3>19, <3>21, CallKeepsInv
    <3> QED
      BY <1>1, <1>5, <2>2, <3>22, TreeInvNext DEF TreeInv
  <2> QED
    BY <2>3, <2>4
<1> QED
  BY <1>4, <1>8, <1>9

-----------------------------------------------------------------------------
(* The children of the cells that balance() moves.                         *)

(* A node with the children of one node and then those of another.         *)
Merged(M, A, B) ==
    /\ Len(M.cells) = Len(A.cells) + 1 + Len(B.cells)
    /\ \A j \in slots_of(A) : child(M, j) = child(A, j)
    /\ \A j \in slots_of(B) : child(M, Len(A.cells) + 1 + j) = child(B, j)

LEMMA MergeNodes ==
    ASSUME NEW A \in FlatNode, NEW B \in FlatNode, NEW d \in FlatCell, d.left = A.right,
           NEW M, M = Node(Append(A.cells, d) \o B.cells, B.right)
    PROVE  M \in FlatNode /\ Merged(M, A, B)
<1> DEFINE a == A.cells
           b == B.cells
           c == Append(a, d)
           m == c \o b
           x == Len(a)
           y == Len(b)
<1>1. a \in Seq(FlatCell) /\ b \in Seq(FlatCell) /\ x \in Nat /\ y \in Nat
  BY DEF FlatNode
<1>2. M.cells = m /\ M.right = B.right /\ M = [kind |-> "node", cells |-> m, right |-> B.right]
  BY DEF Node
<1>3. B.right \in Nat
  BY DEF FlatNode
<1>4. \A j \in slots_of(A) : child(A, j) = IF j = x + 1 THEN d.left ELSE a[j].left
  BY DEF child
<1>5. \A j : child(B, j) = IF j = y + 1 THEN B.right ELSE b[j].left
  BY DEF child
<1>6. slots_of(A) = 1..(x + 1) /\ slots_of(B) = 1..(y + 1)
  BY DEF slots_of
<1> HIDE DEF a, b
<1>7. c \in Seq(FlatCell) /\ Len(c) = x + 1 /\ c[x + 1] = d /\ \A j \in 1..x : c[j] = a[j]
  <2> HIDE DEF FlatCell
  <2> QED
    BY <1>1
<1> HIDE DEF c
<1>8. m \in Seq(FlatCell) /\ Len(m) = Len(c) + y
  BY <1>1, <1>7, ConcatProperties
<1>9. /\ \A j \in 1..(x + 1) : m[j] = c[j]
      /\ \A j \in 1..y : m[x + 1 + j] = b[j]
  <2>1. \A j \in 1..Len(c) : m[j] = c[j]
    BY <1>1, <1>7, ConcatProperties
  <2>2. \A j \in 1..Len(b) : m[Len(c) + j] = b[j]
    <3> HIDE DEF FlatCell
    <3> QED
      BY <1>1, <1>7
  <2> QED
    BY <1>7, <2>1, <2>2
<1> HIDE DEF m, x, y
<1>10. Len(m) = x + 1 + y
  BY <1>1, <1>7, <1>8
<1>11. M \in FlatNode
  BY <1>2, <1>3, <1>8 DEF FlatNode
<1>12. ASSUME NEW j \in slots_of(A) PROVE child(M, j) = child(A, j)
  <2>1. j \in 1..(x + 1) /\ j # Len(m) + 1
    BY <1>1, <1>6, <1>10
  <2>2. child(M, j) = c[j].left
    BY <1>2, <1>9, <2>1 DEF child
  <2>3. c[j] = IF j = x + 1 THEN d ELSE a[j]
    BY <1>1, <1>7, <2>1
  <2> QED
    BY <1>4, <2>2, <2>3
<1>13. ASSUME NEW j \in slots_of(B) PROVE child(M, x + 1 + j) = child(B, j)
  <2>1. j \in 1..(y + 1)
    BY <1>6
  <2>2. CASE j = y + 1
    <3>1. x + 1 + j = Len(m) + 1
      BY <1>1, <1>10, <2>2
    <3> QED
      BY <1>2, <1>5, <2>2, <3>1 DEF child
  <2>3. CASE j # y + 1
    <3>1. x + 1 + j # Len(m) + 1 /\ j \in 1..y
      BY <1>1, <1>10, <2>1, <2>3
    <3>2. child(M, x + 1 + j) = m[x + 1 + j].left
      BY <1>2, <3>1 DEF child
    <3> QED
      BY <1>5, <1>9, <2>3, <3>1, <3>2
  <2> QED
    BY <2>2, <2>3
<1>14. Len(M.cells) = Len(A.cells) + 1 + Len(B.cells)
  BY <1>2, <1>10 DEF x, y, a, b
<1> QED
  BY <1>11, <1>12, <1>13, <1>14 DEF Merged, x, a

(* The siblings in slots `lo' to `hi' of a node.                           *)
FlatSiblings(pgs, parent, lo, hi) ==
    /\ parent \in FlatNode /\ lo \in Nat /\ hi \in Nat /\ 1 <= lo /\ lo <= hi
    /\ hi <= Len(parent.cells) + 1
    /\ \A s \in lo..hi : pgs[child(parent, s)] \in FlatNode

(* None of the children of the siblings is in two slots.                   *)
Apart(pgs, parent, lo, hi) ==
    \A s, t \in lo..hi : \A i \in slots_of(pgs[child(parent, s)]), j \in slots_of(pgs[child(parent, t)]) :
        child(pgs[child(parent, s)], i) = child(pgs[child(parent, t)], j) => s = t /\ i = j

(* The children of M are those of the siblings.                            *)
SameKids(M, pgs, parent, lo, hi) ==
    /\ \A j \in slots_of(M) : \E s \in lo..hi : \E i \in slots_of(pgs[child(parent, s)]) :
           child(M, j) = child(pgs[child(parent, s)], i)
    /\ \A s \in lo..hi : \A i \in slots_of(pgs[child(parent, s)]) : \E j \in slots_of(M) :
           child(M, j) = child(pgs[child(parent, s)], i)
    /\ Apart(pgs, parent, lo, hi) => Distinct(M)

LEMMA KidsOfMerged ==
    ASSUME NEW pgs, NEW parent, NEW lo \in Nat, NEW s \in Nat, lo < s,
           NEW A \in FlatNode, NEW B \in FlatNode, B = pgs[child(parent, s)],
           SameKids(A, pgs, parent, lo, s - 1), NEW M, Merged(M, A, B)
    PROVE  SameKids(M, pgs, parent, lo, s)
<1> DEFINE x == Len(A.cells)
           y == Len(B.cells)
<1>1. x \in Nat /\ y \in Nat
  BY DEF FlatNode
<1>2. slots_of(A) = 1..(x + 1) /\ slots_of(B) = 1..(y + 1) /\ slots_of(M) = 1..(x + 1 + y + 1)
  BY DEF slots_of, Merged
<1>3. /\ \A j \in 1..(x + 1) : child(M, j) = child(A, j)
      /\ \A j \in 1..(y + 1) : child(M, x + 1 + j) = child(B, j)
  BY <1>2 DEF Merged
<1> HIDE DEF x, y
<1>4. lo..s = (lo..(s - 1)) \union {s} /\ s \notin lo..(s - 1)
  OBVIOUS
<1>5. \A j \in slots_of(M) : j \in slots_of(A) \/ (j - (x + 1) \in slots_of(B) /\ j = x + 1 + (j - (x + 1)))
  BY <1>1, <1>2
<1>6. ASSUME NEW j \in slots_of(M)
      PROVE  \E t \in lo..s : \E i \in slots_of(pgs[child(parent, t)]) :
                child(M, j) = child(pgs[child(parent, t)], i)
  <2>1. CASE j \in slots_of(A)
    <3>1. PICK t \in lo..(s - 1) : \E i \in slots_of(pgs[child(parent, t)]) :
              child(A, j) = child(pgs[child(parent, t)], i)
      BY <2>1 DEF SameKids
    <3>2. child(M, j) = child(A, j)
      BY <1>2, <1>3, <2>1
    <3> QED
      BY <1>4, <3>1, <3>2
  <2>2. CASE j \notin slots_of(A)
    <3> DEFINE i == j - (x + 1)
    <3>1. i \in slots_of(B) /\ child(M, j) = child(B, i)
      BY <1>2, <1>3, <1>5, <2>2
    <3> HIDE DEF i
    <3> QED
      BY <1>4, <3>1
  <2> QED
    BY <2>1, <2>2
<1>7. ASSUME NEW t \in lo..s, NEW i \in slots_of(pgs[child(parent, t)])
      PROVE  \E j \in slots_of(M) : child(M, j) = child(pgs[child(parent, t)], i)
  <2>1. CASE t = s
    <3>1. i \in 1..(y + 1)
      BY <1>2, <2>1
    <3>2. x + 1 + i \in slots_of(M) /\ child(M, x + 1 + i) = child(B, i)
      BY <1>1, <1>2, <1>3, <3>1
    <3> QED
      BY <2>1, <3>2
  <2>2. CASE t # s
    <3>1. t \in lo..(s - 1)
      BY <1>4, <2>2
    <3>2. PICK j \in slots_of(A) : child(A, j) = child(pgs[child(parent, t)], i)
      BY <3>1 DEF SameKids
    <3>3. j \in slots_of(M) /\ child(M, j) = child(A, j)
      BY <1>1, <1>2, <1>3, <3>2
    <3> QED
      BY <3>2, <3>3
  <2> QED
    BY <2>1, <2>2
<1>8. ASSUME Apart(pgs, parent, lo, s) PROVE Distinct(M)
  <2>1. Apart(pgs, parent, lo, s - 1)
    BY <1>4, <1>8 DEF Apart
  <2>2. Distinct(A)
    BY <2>1 DEF SameKids
  <2>3. Distinct(B)
    <3>1. s \in lo..s
      BY <1>4
    <3>2. \A i \in slots_of(B), j \in slots_of(B) : child(B, i) = child(B, j) => i = j
      BY <1>8, <3>1 DEF Apart
    <3> QED
      BY <3>2 DEF Distinct
  <2>4. ASSUME NEW i \in slots_of(A), NEW j \in slots_of(B) PROVE child(A, i) # child(B, j)
    <3>1. PICK t \in lo..(s - 1) : \E k \in slots_of(pgs[child(parent, t)]) :
              child(A, i) = child(pgs[child(parent, t)], k)
      BY DEF SameKids
    <3>2. t # s /\ t \in lo..s /\ s \in lo..s
      BY <1>4
    <3> QED
      BY <1>8, <3>1, <3>2 DEF Apart
  <2>5. ASSUME NEW i \in slots_of(M), NEW j \in slots_of(M), child(M, i) = child(M, j) PROVE i = j
    <3>1. CASE i \in slots_of(A) /\ j \in slots_of(A)
      BY <1>2, <1>3, <2>2, <2>5, <3>1 DEF Distinct
    <3>2. CASE i \in slots_of(A) /\ j \notin slots_of(A)
      BY <1>2, <1>3, <1>5, <2>4, <2>5, <3>2
    <3>3. CASE i \notin slots_of(A) /\ j \in slots_of(A)
      BY <1>2, <1>3, <1>5, <2>4, <2>5, <3>3
    <3>4. CASE i \notin slots_of(A) /\ j \notin slots_of(A)
      <4> DEFINE u == i - (x + 1)
                 v == j - (x + 1)
      <4>1. u \in slots_of(B) /\ v \in slots_of(B) /\ i = x + 1 + u /\ j = x + 1 + v
        BY <1>5, <3>4
      <4> HIDE DEF u, v
      <4>2. child(B, u) = child(B, v)
        BY <1>2, <1>3, <2>5, <4>1
      <4>3. u = v
        BY <2>3, <4>1, <4>2 DEF Distinct
      <4> QED
        BY <4>1, <4>3
    <3> QED
      BY <3>1, <3>2, <3>3, <3>4
  <2> QED
    BY <2>5 DEF Distinct
<1> QED
  BY <1>6, <1>7, <1>8 DEF SameKids

(* The cells of a group and the last pointer of its last page.             *)
LEMMA GroupHasKids ==
    ASSUME NEW pgs, NEW parent, NEW lo, NEW hi, FlatSiblings(pgs, parent, lo, hi),
           NEW M, M = Node(in_order(pgs, parent, lo..hi), pgs[child(parent, hi)].right)
    PROVE  M \in FlatNode /\ SameKids(M, pgs, parent, lo, hi)
<1> DEFINE Page(s) == pgs[child(parent, s)]
<1>1. /\ parent \in FlatNode /\ lo \in Nat /\ hi \in Nat /\ 1 <= lo /\ lo <= hi
      /\ hi <= Len(parent.cells) + 1
      /\ \A s \in lo..hi : Page(s) \in FlatNode
  BY DEF FlatSiblings
<1>2. Siblings(pgs, parent, lo, hi)
  BY <1>1, FlatCellsAreCells DEF Siblings
<1>3. PICK f : InSlots(f, pgs, parent, lo, hi) /\ in_order(pgs, parent, lo..hi) = f[hi]
  BY <1>2, CellsInSlots
<1>4. /\ f[lo] = Page(lo).cells
      /\ \A s \in (lo + 1)..hi : f[s] = Append(f[s - 1], divider(pgs, parent, s)) \o Page(s).cells
  BY <1>3 DEF InSlots
<1>5. ASSUME NEW s \in (lo + 1)..hi
      PROVE  divider(pgs, parent, s) \in FlatCell /\ divider(pgs, parent, s).left = Page(s - 1).right
  <2>1. s - 1 \in 1..Len(parent.cells) /\ s - 1 \in lo..hi
    <3>1. Len(parent.cells) \in Nat
      BY <1>1 DEF FlatNode
    <3> QED
      BY ONLY <1>1, <3>1, s \in (lo + 1)..hi
  <2>2. parent.cells[s - 1] \in FlatCell
    <3>1. parent.cells \in Seq(FlatCell)
      BY <1>1 DEF FlatNode
    <3> HIDE DEF FlatCell
    <3> QED
      BY <2>1, <3>1
  <2>3. Page(s - 1).right \in Nat
    BY <1>1, <2>1 DEF FlatNode
  <2> HIDE DEF Page
  <2>4. divider(pgs, parent, s) = [parent.cells[s - 1] EXCEPT !.left = Page(s - 1).right]
    BY DEF divider, Page
  <2> QED
    BY <2>2, <2>3, <2>4 DEF FlatCell
<1> DEFINE N(s) == Node(f[s], Page(s).right)
           J(s) == N(s) \in FlatNode /\ SameKids(N(s), pgs, parent, lo, s)
           T == {i \in 0..(hi - lo) : J(lo + i)}
<1>6. J(lo)
  <2>1. Page(lo) \in FlatNode
    BY <1>1
  <2>2. N(lo) = Page(lo)
    BY <1>4, <2>1 DEF Node, FlatNode
  <2>3. \A s \in lo..lo : s = lo
    BY <1>1
  <2>4. lo \in lo..lo
    BY <1>1
  <2>5. SameKids(Page(lo), pgs, parent, lo, lo)
    <3> DEFINE A == Page(lo)
    <3>1. Apart(pgs, parent, lo, lo) => Distinct(A)
      BY <2>4 DEF Apart, Distinct
    <3> QED
      BY <2>3, <2>4, <3>1 DEF SameKids
  <2> QED
    BY <2>1, <2>2, <2>5
<1>7. ASSUME NEW s \in (lo + 1)..hi, J(s - 1) PROVE J(s)
  <2> DEFINE A == N(s - 1)
             B == Page(s)
             d == divider(pgs, parent, s)
  <2>1. A \in FlatNode /\ SameKids(A, pgs, parent, lo, s - 1) /\ B \in FlatNode
    BY <1>1, <1>7
  <2>2. A.cells = f[s - 1] /\ A.right = Page(s - 1).right
    BY DEF Node
  <2>3. N(s) = Node(Append(A.cells, d) \o B.cells, B.right)
    BY <1>4, <2>2
  <2>4. d \in FlatCell /\ d.left = A.right
    BY <1>5, <2>2
  <2>5. lo \in Nat /\ s \in Nat /\ lo < s /\ B = pgs[child(parent, s)]
    BY <1>1
  <2> DEFINE m == N(s)
  <2> HIDE DEF A, d
  <2>6. m = Node(Append(A.cells, d) \o B.cells, B.right)
    BY <2>3
  <2> HIDE DEF m, B
  <2>7. m \in FlatNode /\ Merged(m, A, B)
    BY <2>1, <2>4, <2>6, MergeNodes
  <2>8. SameKids(m, pgs, parent, lo, s)
    BY <2>1, <2>5, <2>7, KidsOfMerged
  <2> QED
    BY <2>7, <2>8 DEF m
<1> HIDE DEF J
<1>8. hi - lo \in T
  <2>1. hi - lo \in Nat /\ lo + 0 = lo
    BY <1>1
  <2>2. 0 \in T
    BY <1>6, <2>1
  <2>3. ASSUME NEW i \in 1..(hi - lo), i - 1 \in T PROVE i \in T
    <3>1. lo + i \in (lo + 1)..hi /\ (lo + i) - 1 = lo + (i - 1)
      BY <1>1
    <3>2. J((lo + i) - 1)
      BY <2>3, <3>1
    <3>3. J(lo + i)
      BY <1>7, <3>1, <3>2
    <3> QED
      BY <3>3
  <2> HIDE DEF T
  <2>4. \A i \in 0..(hi - lo) : i \in T
    BY <2>1, <2>2, <2>3, UpwardClosed
  <2> QED
    BY <2>1, <2>4
<1>9. lo + (hi - lo) = hi
  BY <1>1
<1>10. J(hi)
  BY <1>8, <1>9
<1>11. M = N(hi)
  BY <1>3
<1> QED
  BY <1>10, <1>11 DEF J

-----------------------------------------------------------------------------
(* The children of the pages that the cells go to.                         *)

LEMMA PartOfNode ==
    ASSUME NEW M \in FlatNode, NEW k \in Nat, NEW n, NEW e, Parts(k, n, e, Len(M.cells)),
           NEW i \in 1..k, NEW N,
           N = Node(SubSeq(M.cells, e[i] + 1, e[i] + n[i]),
                    IF i = k THEN M.right ELSE M.cells[e[i + 1]].left)
    PROVE  /\ N \in FlatNode /\ Len(N.cells) = n[i]
           /\ \A t \in slots_of(N) : e[i] + t \in slots_of(M) /\ child(N, t) = child(M, e[i] + t)
<1> DEFINE m == Len(M.cells)
           a == e[i]
           b == e[i] + n[i]
           part == SubSeq(M.cells, a + 1, b)
           last == IF i = k THEN M.right ELSE M.cells[e[i + 1]].left
<1>1. M.cells \in Seq(FlatCell) /\ m \in Nat /\ M.right \in Nat
  BY DEF FlatNode
<1>2. a \in 0..m /\ b \in a..m /\ a \in Nat
  BY <1>1, PlacesOfPart
<1>3. n[i] \in Nat /\ e[i + 1] = b + 1 /\ e[k + 1] = m + 1 /\ b = a + n[i]
  BY DEF Parts
<1>4. ~(i = k) => e[i + 1] \in 1..m
  <2>1. SUFFICES ASSUME i # k PROVE e[i + 1] \in 1..m
    OBVIOUS
  <2>2. i + 1 \in 1..k
    BY <2>1
  <2>3. e[i + 1] \in 0..m
    BY <1>1, <2>2, PlacesOfPart
  <2> QED
    <3> DEFINE e1 == e[i + 1]
    <3>1. e1 \in 0..m /\ e1 = b + 1 /\ b \in a..m /\ a \in Nat /\ m \in Nat
      BY <1>1, <1>2, <1>3, <2>3
    <3> HIDE DEF e1, a, b, m
    <3>2. e1 \in 1..m
      BY ONLY <3>1
    <3> QED
      BY <3>2 DEF e1
<1>5. N.cells = part /\ N.right = last /\ N = [kind |-> "node", cells |-> part, right |-> last]
  BY DEF Node
<1>6. last = child(M, b + 1)
  <2>1. CASE i = k
    BY <1>3, <2>1 DEF child
  <2>2. CASE i # k
    <3>1. e[i + 1] # m + 1
      BY <1>1, <1>4, <2>2
    <3> QED
      BY <1>3, <2>2, <3>1 DEF child
  <2> QED
    BY <2>1, <2>2
<1>7. last \in Nat
  <2>1. CASE i = k
    BY <1>1, <2>1
  <2>2. CASE i # k
    <3>1. M.cells[e[i + 1]] \in FlatCell
      <4> HIDE DEF FlatCell
      <4> QED
        BY <1>1, <1>4, <2>2
    <3> QED
      BY <2>2, <3>1 DEF FlatCell
  <2> QED
    BY <2>1, <2>2
<1> HIDE DEF last
<1>8. part \in Seq(FlatCell) /\ Len(part) = n[i] /\ \A t \in 1..n[i] : part[t] = M.cells[a + t]
  <2>1. a + 1 \in Nat /\ b \in Nat /\ 1 <= a + 1 /\ b <= m /\ a + 1 <= b + 1 /\ b - (a + 1) + 1 = n[i]
    <3> DEFINE ni == n[i]
    <3>1. a \in 0..m /\ b = a + ni /\ ni \in Nat /\ b <= m /\ m \in Nat
      BY <1>1, <1>2, <1>3
    <3> HIDE DEF a, b, m, ni
    <3>2. a + 1 \in Nat /\ b \in Nat /\ 1 <= a + 1 /\ b <= m /\ a + 1 <= b + 1 /\ b - (a + 1) + 1 = ni
      BY ONLY <3>1
    <3> QED
      BY <3>2 DEF ni
  <2> DEFINE a1 == a + 1
  <2>2. a1 \in Nat /\ 1 <= a1 /\ a1 <= b + 1 /\ b \in Nat /\ b <= Len(M.cells) /\ b - a1 + 1 = n[i]
    BY <2>1
  <2>3. \A t : a1 + t - 1 = a1 + t - 1
    OBVIOUS
  <2>4. \A t \in 1..n[i] : a1 + t - 1 = a + t
    <3>1. a \in Nat
      BY <1>2
    <3> HIDE DEF a
    <3>2. \A ni \in Nat : \A t \in 1..ni : a + 1 + t - 1 = a + t
      BY ONLY <3>1
    <3> QED
      BY <1>3, <3>2
  <2> HIDE DEF a1, FlatCell, a, b, m
  <2>5. SubSeq(M.cells, a1, b) \in Seq(FlatCell) /\ Len(SubSeq(M.cells, a1, b)) = b - a1 + 1
           /\ \A t \in 1..(b - a1 + 1) : SubSeq(M.cells, a1, b)[t] = M.cells[a1 + t - 1]
    BY <1>1, <2>2, PartOfSeq
  <2> QED
    BY <2>2, <2>4, <2>5 DEF a1
<1> HIDE DEF part
<1>9. N \in FlatNode
  BY <1>5, <1>7, <1>8 DEF FlatNode
<1>10. ASSUME NEW t \in slots_of(N) PROVE a + t \in slots_of(M) /\ child(N, t) = child(M, a + t)
  <2>1. t \in 1..(n[i] + 1)
    BY <1>5, <1>8 DEF slots_of
  <2>0. \A ni \in Nat : b = a + ni /\ t \in 1..(ni + 1) => a + t \in 1..(m + 1) /\ (t # ni + 1 => t \in 1..ni /\ a + t # m + 1)
                           /\ (t = ni + 1 => a + t = b + 1)
    <3>1. a \in 0..m /\ b <= m /\ m \in Nat
      BY <1>1, <1>2
    <3> HIDE DEF a, b, m
    <3> QED
      BY ONLY <3>1
  <2>2. a + t \in 1..(m + 1)
    BY <1>3, <2>0, <2>1
  <2>3. CASE t = n[i] + 1
    <3>1. a + t = b + 1
      BY <1>3, <2>0, <2>1, <2>3
    <3>2. child(N, t) = last
      BY <1>5, <1>8, <2>3 DEF child
    <3> QED
      BY <1>6, <2>2, <3>1, <3>2 DEF slots_of
  <2>4. CASE t # n[i] + 1
    <3>1. t \in 1..n[i] /\ a + t # m + 1
      BY <1>3, <2>0, <2>1, <2>4
    <3>2. child(N, t) = part[t].left
      BY <1>5, <1>8, <2>4 DEF child
    <3>3. child(M, a + t) = M.cells[a + t].left
      BY <3>1 DEF child
    <3> QED
      BY <1>8, <2>2, <3>1, <3>2, <3>3 DEF slots_of
  <2> QED
    BY <2>3, <2>4
<1> QED
  BY <1>5, <1>8, <1>9, <1>10

(* Each slot of the node goes to one part.                                 *)
LEMMA EachInOnePart ==
    ASSUME NEW m \in Nat, NEW k \in Nat, k >= 1, NEW n, NEW e, Parts(k, n, e, m)
    PROVE  /\ \A j \in 1..(m + 1) : \E i \in 1..k : \E t \in 1..(n[i] + 1) : j = e[i] + t
           /\ \A i, j \in 1..k : \A s \in 1..(n[i] + 1), t \in 1..(n[j] + 1) :
                 e[i] + s = e[j] + t => i = j /\ s = t
<1>1. /\ n \in [1..k -> Nat] /\ e \in [1..(k + 1) -> 0..(m + 1)] /\ e[1] = 0 /\ e[k + 1] = m + 1
      /\ \A i \in 1..k : e[i + 1] = e[i] + n[i] + 1
      /\ \A s, t \in 1..(k + 1) : s < t => e[s] < e[t]
  BY DEF Parts
<1>2. ASSUME NEW j \in 1..(m + 1) PROVE \E i \in 1..k : \E t \in 1..(n[i] + 1) : j = e[i] + t
  <2> DEFINE S == {i \in 1..(k + 1) : e[i] >= j}
  <2>1. k + 1 \in S /\ S \subseteq Nat
    BY <1>1
  <2>2. PICK x \in S : \A y \in S : x <= y
    <3> HIDE DEF S
    <3> QED
      BY <2>1, LeastElement
  <2>3. x # 1 /\ x \in 1..(k + 1) /\ e[x] >= j
    BY <1>1, <2>2
  <2>4. x - 1 \in 1..k /\ x - 1 \in 1..(k + 1) /\ (x - 1) + 1 = x /\ ~(x <= x - 1)
    BY <2>3
  <2>5. ~(e[x - 1] >= j)
    BY <2>2, <2>4
  <2> DEFINE i == x - 1
             t == j - e[i]
  <2>6. e[i] \in Nat /\ e[i] < j /\ j <= e[i] + n[i] + 1 /\ n[i] \in Nat
    BY <1>1, <2>3, <2>4, <2>5
  <2>7. t \in 1..(n[i] + 1) /\ j = e[i] + t
    BY <2>6
  <2> QED
    BY <2>4, <2>7
<1>3. ASSUME NEW i \in 1..k, NEW j \in 1..k, NEW s \in 1..(n[i] + 1), NEW t \in 1..(n[j] + 1), i < j
      PROVE  e[i] + s < e[j] + t
  <2>1. i + 1 \in 1..(k + 1) /\ i \in 1..(k + 1) /\ j \in 1..(k + 1) /\ (i + 1 < j \/ i + 1 = j)
    BY <1>3
  <2>2. e[i + 1] <= e[j]
    <3>1. e[i + 1] < e[j] \/ i + 1 = j
      BY <1>1, <2>1
    <3>2. e[i + 1] \in 0..(m + 1) /\ e[j] \in 0..(m + 1)
      BY <1>1, <2>1
    <3> QED
      BY <3>1, <3>2
  <2>3. e[i] \in Nat /\ e[j] \in Nat /\ e[i + 1] = e[i] + n[i] + 1 /\ n[i] \in Nat /\ n[j] \in Nat
    BY <1>1, <2>1
  <2> QED
    BY ONLY <2>2, <2>3, s \in 1..(n[i] + 1), t \in 1..(n[j] + 1)
<1>4. ASSUME NEW i \in 1..k, NEW j \in 1..k, NEW s \in 1..(n[i] + 1), NEW t \in 1..(n[j] + 1),
             e[i] + s = e[j] + t
      PROVE  i = j /\ s = t
  <2>1. e[i] \in Nat /\ e[j] \in Nat /\ n[i] \in Nat /\ n[j] \in Nat
    BY <1>1
  <2>2. ~(i < j) /\ ~(j < i)
    BY <1>3, <1>4, <2>1
  <2>3. i = j
    BY <2>2
  <2> QED
    BY <1>4, <2>1, <2>3
<1> QED
  BY <1>2, <1>4

(* The k pages of N have the children of M.                                *)
KidsShared(N, k, M) ==
    /\ \A i \in 1..k : N[i] \in FlatNode
    /\ \A i \in 1..k : \A t \in slots_of(N[i]) : \E j \in slots_of(M) : child(N[i], t) = child(M, j)
    /\ \A j \in slots_of(M) : \E i \in 1..k : \E t \in slots_of(N[i]) : child(N[i], t) = child(M, j)
    /\ Distinct(M) =>
           \A i, j \in 1..k : \A s \in slots_of(N[i]), t \in slots_of(N[j]) :
               child(N[i], s) = child(N[j], t) => i = j /\ s = t

LEMMA PagesShareKids ==
    ASSUME NEW M \in FlatNode, NEW k \in Nat, k >= 1, NEW n, NEW e, Parts(k, n, e, Len(M.cells)),
           NEW N,
           \A i \in 1..k : N[i] = Node(SubSeq(M.cells, e[i] + 1, e[i] + n[i]),
                                       IF i = k THEN M.right ELSE M.cells[e[i + 1]].left)
    PROVE  KidsShared(N, k, M) /\ \A i \in 1..k : Len(N[i].cells) = n[i]
<1> DEFINE m == Len(M.cells)
<1>1. m \in Nat /\ slots_of(M) = 1..(m + 1)
  BY DEF FlatNode, slots_of
<1>2. ASSUME NEW i \in 1..k
      PROVE  /\ N[i] \in FlatNode /\ Len(N[i].cells) = n[i] /\ slots_of(N[i]) = 1..(n[i] + 1)
             /\ \A t \in slots_of(N[i]) : e[i] + t \in slots_of(M) /\ child(N[i], t) = child(M, e[i] + t)
  <2> DEFINE p == N[i]
  <2>1. p = Node(SubSeq(M.cells, e[i] + 1, e[i] + n[i]), IF i = k THEN M.right ELSE M.cells[e[i + 1]].left)
    OBVIOUS
  <2> HIDE DEF p
  <2>2. /\ p \in FlatNode /\ Len(p.cells) = n[i]
        /\ \A t \in slots_of(p) : e[i] + t \in slots_of(M) /\ child(p, t) = child(M, e[i] + t)
    BY <2>1, PartOfNode
  <2> QED
    BY <2>2 DEF p, slots_of
<1> HIDE DEF m
<1>3. /\ \A j \in 1..(m + 1) : \E i \in 1..k : \E t \in 1..(n[i] + 1) : j = e[i] + t
      /\ \A i, j \in 1..k : \A s \in 1..(n[i] + 1), t \in 1..(n[j] + 1) :
             e[i] + s = e[j] + t => i = j /\ s = t
  <2>1. m \in Nat /\ Parts(k, n, e, m) /\ k >= 1
    BY <1>1 DEF m
  <2>2. k \in Nat
    OBVIOUS
  <2> HIDE DEF m
  <2> QED
    BY ONLY <2>1, <2>2, EachInOnePart
<1>4. ASSUME NEW j \in slots_of(M) PROVE \E i \in 1..k : \E t \in slots_of(N[i]) : child(N[i], t) = child(M, j)
  <2>1. PICK i \in 1..k : \E t \in 1..(n[i] + 1) : j = e[i] + t
    BY <1>1, <1>3
  <2>2. PICK t \in 1..(n[i] + 1) : j = e[i] + t
    BY <2>1
  <2> QED
    BY <1>2, <2>2
<1>5. ASSUME Distinct(M), NEW i \in 1..k, NEW j \in 1..k, NEW s \in slots_of(N[i]), NEW t \in slots_of(N[j]),
             child(N[i], s) = child(N[j], t)
      PROVE  i = j /\ s = t
  <2>1. e[i] + s \in slots_of(M) /\ e[j] + t \in slots_of(M) /\ child(M, e[i] + s) = child(M, e[j] + t)
    BY <1>2, <1>5
  <2>2. e[i] + s = e[j] + t
    BY <1>5, <2>1 DEF Distinct
  <2>3. s \in 1..(n[i] + 1) /\ t \in 1..(n[j] + 1)
    BY <1>2
  <2> QED
    BY <1>3, <2>2, <2>3
<1>6. \A i \in 1..k : \A t \in slots_of(N[i]) : \E j \in slots_of(M) : child(N[i], t) = child(M, j)
  BY <1>2
<1> QED
  BY <1>2, <1>4, <1>5, <1>6 DEF KidsShared

-----------------------------------------------------------------------------
(* The children of the parent of a group.                                  *)

LEMMA SecondPart ==
    ASSUME NEW S, NEW a \in Seq(S), NEW b \in Seq(S)
    PROVE  \A i \in 1..Len(b) : (a \o b)[Len(a) + i] = b[i]
OBVIOUS

LEMMA AfterGroup ==
    ASSUME NEW parent \in FlatNode, NEW hi \in 1..(Len(parent.cells) + 1), NEW last \in Nat,
           NEW c, c = after_group(parent, hi, last)
    PROVE  /\ c \in Seq(FlatCell) /\ Len(c) = Len(parent.cells) + 1 - hi
           /\ Len(c) # 0 => c[1].left = last
           /\ \A t \in 2..Len(c) : c[t] = parent.cells[hi + t - 1]
           /\ SubSeq(parent.cells, hi, Len(parent.cells)) = <<>> <=> hi = Len(parent.cells) + 1
<1> DEFINE L == Len(parent.cells)
           rest == SubSeq(parent.cells, hi, L)
           r == L + 1 - hi
<1>1. parent.cells \in Seq(FlatCell) /\ L \in Nat
  BY DEF FlatNode
<1>2. hi \in Nat /\ 1 <= hi /\ hi <= L + 1 /\ L <= Len(parent.cells) /\ L - hi + 1 = r /\ r \in Nat
  BY <1>1
<1>3. rest \in Seq(FlatCell) /\ Len(rest) = r /\ \A t \in 1..r : rest[t] = parent.cells[hi + t - 1]
  <2> HIDE DEF FlatCell, r, L
  <2>1. /\ SubSeq(parent.cells, hi, L) \in Seq(FlatCell) /\ Len(SubSeq(parent.cells, hi, L)) = L - hi + 1
        /\ \A t \in 1..(L - hi + 1) : SubSeq(parent.cells, hi, L)[t] = parent.cells[hi + t - 1]
    BY <1>1, <1>2, PartOfSeq
  <2> QED
    BY <1>2, <2>1
<1>4. c = IF rest = <<>> THEN <<>> ELSE <<[Head(rest) EXCEPT !.left = last]>> \o Tail(rest)
  BY DEF after_group
<1>5. rest = <<>> <=> r = 0
  <2> HIDE DEF rest, r, FlatCell
  <2> QED
    BY <1>3
<1>6. r = 0 <=> hi = L + 1
  BY <1>1
<1> HIDE DEF rest, r
<1>7. CASE r = 0
  BY <1>3, <1>4, <1>5, <1>6, <1>7 DEF r
<1>8. CASE r # 0
  <2> DEFINE h == [Head(rest) EXCEPT !.left = last]
             tail == Tail(rest)
             one == <<h>>
  <2>1. Head(rest) \in FlatCell /\ tail \in Seq(FlatCell) /\ Len(tail) = r - 1
        /\ \A t \in 1..(r - 1) : tail[t] = rest[t + 1]
    <3> HIDE DEF FlatCell
    <3> QED
      BY <1>2, <1>3, <1>8
  <2>2. h \in FlatCell /\ h.left = last
    BY <2>1 DEF FlatCell
  <2> HIDE DEF h, tail
  <2>3. one \in Seq(FlatCell) /\ Len(one) = 1 /\ one[1] = h
    <3> HIDE DEF FlatCell
    <3> QED
      BY <2>2
  <2> HIDE DEF one
  <2>4. c = one \o tail
    BY <1>4, <1>5, <1>8 DEF h, tail, one
  <2>5. c \in Seq(FlatCell) /\ Len(c) = 1 + (r - 1)
    <3> HIDE DEF FlatCell
    <3>1. one \o tail \in Seq(FlatCell) /\ Len(one \o tail) = Len(one) + Len(tail)
      BY <2>1, <2>3, ConcatProperties
    <3> QED
      BY <2>1, <2>3, <2>4, <3>1
  <2>6. c[1] = h /\ \A t \in 1..(r - 1) : c[1 + t] = tail[t]
    <3> HIDE DEF FlatCell
    <3>1. \A t \in 1..Len(one) : (one \o tail)[t] = one[t]
      BY <2>1, <2>3, ConcatProperties
    <3>2. \A t \in 1..Len(tail) : (one \o tail)[Len(one) + t] = tail[t]
      <4> HIDE DEF r
      <4>1. one \in Seq(FlatCell) /\ tail \in Seq(FlatCell)
        BY <2>1, <2>3
      <4> QED
        BY ONLY <4>1, SecondPart
    <3>3. 1 \in 1..Len(one) /\ Len(one) = 1 /\ one[1] = h /\ Len(tail) = r - 1
      BY <2>1, <2>3
    <3> QED
      BY ONLY <2>4, <3>1, <3>2, <3>3
  <2>7. ASSUME NEW t \in 2..r PROVE c[t] = parent.cells[hi + t - 1]
    <3>1. t - 1 \in 1..(r - 1) /\ 1 + (t - 1) = t /\ (t - 1) + 1 = t /\ t \in 1..r
      BY <1>2
    <3>2. c[t] = tail[t - 1] /\ tail[t - 1] = rest[t]
      BY <2>1, <2>6, <3>1
    <3> QED
      BY <1>3, <3>1, <3>2
  <2>8. Len(c) = r
    BY <1>2, <2>5
  <2> QED
    BY <1>5, <1>6, <1>8, <2>2, <2>5, <2>6, <2>7, <2>8 DEF r, rest
<1> QED
  BY <1>7, <1>8

(* The children on the left of the group, those of the group, and the      *)
(* children on its right.                                                  *)
Replaced(Q, parent, lo, hi, k, new) ==
    /\ Q \in FlatNode /\ Len(Q.cells) + (hi - lo + 1) = Len(parent.cells) + k
    /\ \A s \in slots_of(Q) :
           /\ s < lo => child(Q, s) = child(parent, s)
           /\ lo <= s /\ s < lo + k => child(Q, s) = new[s - lo + 1]
           /\ lo + k <= s => child(Q, s) = child(parent, s - k + (hi - lo + 1))

LEMMA ThreeParts ==
    ASSUME NEW S, NEW a \in Seq(S), NEW b \in Seq(S), NEW c \in Seq(S), NEW m, m = a \o b \o c
    PROVE  /\ m \in Seq(S) /\ Len(m) = Len(a) + Len(b) + Len(c)
           /\ \A i \in 1..Len(a) : m[i] = a[i]
           /\ \A i \in 1..Len(b) : m[Len(a) + i] = b[i]
           /\ \A i \in 1..Len(c) : m[Len(a) + Len(b) + i] = c[i]
<1> DEFINE ab == a \o b
<1>1. ab \in Seq(S) /\ Len(ab) = Len(a) + Len(b)
  BY ConcatProperties
<1>2. (\A i \in 1..Len(a) : ab[i] = a[i]) /\ (\A i \in 1..Len(b) : ab[Len(a) + i] = b[i])
  OBVIOUS
<1>3. Len(a) \in Nat /\ Len(b) \in Nat /\ Len(c) \in Nat
  OBVIOUS
<1> HIDE DEF ab
<1>4. m = ab \o c
  BY DEF ab
<1>5. m \in Seq(S) /\ Len(m) = Len(ab) + Len(c)
  BY <1>1, <1>4, ConcatProperties
<1>6. (\A i \in 1..Len(ab) : m[i] = ab[i]) /\ (\A i \in 1..Len(c) : m[Len(ab) + i] = c[i])
  BY <1>1, <1>4
<1>7. ASSUME NEW i \in 1..Len(a) PROVE m[i] = a[i]
  <2>1. i \in 1..Len(ab)
    BY <1>1, <1>3
  <2> QED
    BY <1>2, <1>6, <2>1
<1>8. ASSUME NEW i \in 1..Len(b) PROVE m[Len(a) + i] = b[i]
  <2>1. Len(a) + i \in 1..Len(ab)
    BY <1>1, <1>3
  <2> QED
    BY <1>2, <1>6, <2>1
<1> QED
  BY <1>1, <1>5, <1>6, <1>7, <1>8

LEMMA ParentSlots ==
    ASSUME NEW parent \in FlatNode, NEW lo \in Nat, NEW hi \in Nat, 1 <= lo, lo <= hi,
           hi <= Len(parent.cells) + 1, NEW k \in Nat, k >= 1, NEW new \in [1..k -> Nat],
           NEW d \in Seq(FlatCell), Len(d) = k - 1, \A i \in 1..(k - 1) : d[i].left = new[i],
           NEW Q, Q = Node(SubSeq(parent.cells, 1, lo - 1) \o d \o after_group(parent, hi, new[k]),
                           IF SubSeq(parent.cells, hi, Len(parent.cells)) = <<>> THEN new[k]
                           ELSE parent.right)
    PROVE  Replaced(Q, parent, lo, hi, k, new)
<1> DEFINE L == Len(parent.cells)
           a == SubSeq(parent.cells, 1, lo - 1)
           c == after_group(parent, hi, new[k])
           m == a \o d \o c
           last == IF SubSeq(parent.cells, hi, L) = <<>> THEN new[k] ELSE parent.right
<1>1. /\ parent.cells \in Seq(FlatCell) /\ L \in Nat /\ parent.right \in Nat
      /\ lo \in Nat /\ hi \in Nat /\ 1 <= lo /\ lo <= hi /\ hi <= L + 1 /\ k \in Nat /\ k >= 1
  BY DEF FlatNode
<1>2. hi \in 1..(L + 1) /\ new[k] \in Nat /\ k \in 1..k /\ lo - 1 \in Nat /\ 1 <= lo - 1 + 1 /\ lo - 1 <= L
      /\ (lo - 1) - 1 + 1 = lo - 1
  BY <1>1
<1>3. a \in Seq(FlatCell) /\ Len(a) = lo - 1 /\ \A i \in 1..(lo - 1) : a[i] = parent.cells[i]
  <2> DEFINE b == lo - 1
  <2>1. b \in Nat /\ 1 \in Nat /\ 1 <= 1 /\ b <= Len(parent.cells) /\ 1 <= b + 1 /\ b - 1 + 1 = b
    BY <1>2
  <2>2. \A i \in 1..b : 1 + i - 1 = i
    BY <2>1
  <2> HIDE DEF b, FlatCell
  <2>3. /\ SubSeq(parent.cells, 1, b) \in Seq(FlatCell) /\ Len(SubSeq(parent.cells, 1, b)) = b - 1 + 1
        /\ \A i \in 1..(b - 1 + 1) : SubSeq(parent.cells, 1, b)[i] = parent.cells[1 + i - 1]
    BY <1>1, <2>1, PartOfSeq
  <2> QED
    BY <2>1, <2>2, <2>3 DEF b
<1>4. /\ c \in Seq(FlatCell) /\ Len(c) = L + 1 - hi
      /\ Len(c) # 0 => c[1].left = new[k]
      /\ \A t \in 2..Len(c) : c[t] = parent.cells[hi + t - 1]
      /\ SubSeq(parent.cells, hi, L) = <<>> <=> hi = L + 1
  BY <1>2, AfterGroup
<1>5. Q = [kind |-> "node", cells |-> m, right |-> last] /\ Q.cells = m /\ Q.right = last
  BY DEF Node
<1>6. last = IF hi = L + 1 THEN new[k] ELSE parent.right
  BY <1>4
<1> HIDE DEF last, a, c
<1>7. /\ m \in Seq(FlatCell) /\ Len(m) = Len(a) + Len(d) + Len(c)
      /\ \A i \in 1..Len(a) : m[i] = a[i]
      /\ \A i \in 1..Len(d) : m[Len(a) + i] = d[i]
      /\ \A i \in 1..Len(c) : m[Len(a) + Len(d) + i] = c[i]
  <2>1. a \in Seq(FlatCell) /\ d \in Seq(FlatCell) /\ c \in Seq(FlatCell) /\ m = a \o d \o c
    BY <1>3, <1>4
  <2> HIDE DEF FlatCell, m
  <2> QED
    BY ONLY <2>1, ThreeParts
<1> HIDE DEF m
<1>8. Q \in FlatNode
  <2>1. last \in Nat
    BY <1>1, <1>2, <1>6
  <2>2. m \in Seq(FlatCell) /\ Q = [kind |-> "node", cells |-> m, right |-> last]
    BY <1>5, <1>7
  <2> HIDE DEF FlatCell
  <2> QED
    BY ONLY <2>1, <2>2 DEF FlatNode
<1>9. Len(m) = (lo - 1) + (k - 1) + (L + 1 - hi)
  BY <1>3, <1>4, <1>7
<1> DEFINE q == Len(m)
<1> HIDE DEF L
<1>12. /\ L \in Nat /\ lo \in Nat /\ hi \in Nat /\ 1 <= lo /\ lo <= hi /\ hi <= L + 1
       /\ k \in Nat /\ k >= 1 /\ q = (lo - 1) + (k - 1) + (L + 1 - hi) /\ Len(c) = L + 1 - hi
  BY <1>1, <1>4, <1>9
<1>13. Len(Q.cells) = q
  BY <1>5
<1> HIDE DEF q
<1>10. Len(Q.cells) + (hi - lo + 1) = L + k
  <2>1. q + (hi - lo + 1) = L + k
    BY ONLY <1>12
  <2> QED
    BY <1>13, <2>1
<1>11. ASSUME NEW s \in slots_of(Q)
       PROVE  /\ s < lo => child(Q, s) = child(parent, s)
              /\ lo <= s /\ s < lo + k => child(Q, s) = new[s - lo + 1]
              /\ lo + k <= s => child(Q, s) = child(parent, s - k + (hi - lo + 1))
  <2>1. s \in 1..(q + 1)
    BY <1>13 DEF slots_of
  <2>2. s \in Nat /\ s >= 1 /\ q \in Nat
    BY ONLY <1>12, <2>1
  <2>3. child(Q, s) = IF s = q + 1 THEN last ELSE m[s].left
    BY <1>5, <1>13 DEF child
  <2>4. CASE s < lo
    <3>1. s \in 1..(lo - 1) /\ s # q + 1 /\ s # L + 1
      BY ONLY <1>12, <2>1, <2>2, <2>4
    <3>2. m[s] = parent.cells[s]
      BY <1>3, <1>7, <3>1
    <3>3. child(parent, s) = parent.cells[s].left
      BY <3>1 DEF child, L
    <3>4. ~(lo <= s) /\ ~(lo + k <= s)
      BY <2>2, <2>4
    <3> QED
      BY <2>3, <3>1, <3>2, <3>3, <3>4
  <2>5. CASE lo <= s /\ s < lo + (k - 1)
    <3> DEFINE i == s - lo + 1
    <3>1. i \in 1..(k - 1) /\ s = (lo - 1) + i /\ s # q + 1 /\ s - lo + 1 = i
      BY ONLY <1>12, <2>2, <2>5
    <3> HIDE DEF i
    <3>2. m[s] = d[i]
      BY <1>3, <1>7, <3>1
    <3>3. ~(s < lo) /\ ~(lo + k <= s)
      BY <2>2, <2>5
    <3> QED
      BY <2>3, <3>1, <3>2, <3>3
  <2>6. CASE s = lo + (k - 1)
    <3>1. s - lo + 1 = k /\ ~(s < lo) /\ ~(lo + k <= s)
      BY <2>6
    <3>2. CASE hi = L + 1
      <4>1. s = q + 1
        BY ONLY <1>12, <2>6, <3>2
      <4> QED
        BY <1>6, <2>3, <3>1, <3>2, <4>1
    <3>3. CASE hi # L + 1
      <4>1. s # q + 1 /\ Len(c) # 0 /\ 1 \in 1..Len(c) /\ s = (lo - 1) + (k - 1) + 1
        BY ONLY <1>12, <2>6, <3>3
      <4>2. m[s] = c[1]
        BY <1>3, <1>7, <4>1
      <4> QED
        BY <1>4, <2>3, <3>1, <4>1, <4>2
    <3> QED
      BY <3>2, <3>3
  <2>7. CASE lo + (k - 1) < s
    <3> DEFINE t == s - (lo - 1) - (k - 1)
    <3>1. /\ t \in Nat /\ t >= 2 /\ s = (lo - 1) + (k - 1) + t /\ ~(s < lo) /\ ~(s < lo + k) /\ lo + k <= s
          /\ s - k + (hi - lo + 1) = hi + t - 1
      BY ONLY <1>12, <2>2, <2>7
    <3> HIDE DEF t
    <3>2. CASE s = q + 1
      <4>1. hi + t - 1 = L + 1 /\ hi # L + 1
        BY ONLY <1>12, <3>1, <3>2
      <4>2. child(parent, hi + t - 1) = parent.right
        BY <4>1 DEF child, L
      <4> QED
        BY <1>6, <2>3, <3>1, <3>2, <4>1, <4>2
    <3>3. CASE s # q + 1
      <4>1. t \in 2..Len(c) /\ t \in 1..Len(c) /\ hi + t - 1 # L + 1
        BY ONLY <1>12, <2>1, <3>1, <3>3
      <4>2. m[s] = c[t]
        BY <1>3, <1>7, <3>1, <4>1
      <4>3. c[t] = parent.cells[hi + t - 1]
        BY <1>4, <4>1
      <4>4. child(parent, hi + t - 1) = parent.cells[hi + t - 1].left
        BY <4>1 DEF child, L
      <4> QED
        BY <2>3, <3>1, <3>3, <4>2, <4>3, <4>4
    <3> QED
      BY <3>2, <3>3
  <2>8. s < lo \/ (lo <= s /\ s < lo + (k - 1)) \/ s = lo + (k - 1) \/ lo + (k - 1) < s
    BY ONLY <1>12, <2>2
  <2> QED
    BY <2>4, <2>5, <2>6, <2>7, <2>8
<1> QED
  BY <1>8, <1>10, <1>11 DEF Replaced, L

-----------------------------------------------------------------------------
(* The tree once a group of siblings has been regrouped.                   *)

LEMMA IsBelowUp ==
    ASSUME NEW P, NEW root, NEW h, NEW up, NEW H, Tree(P, root, h, up, H), NEW q \in DOMAIN P, q # root
    PROVE  up[q] \in DOMAIN P /\ IsBelow(P, root, h, up, q, up[q])
           /\ \E s \in slots_of(P[up[q]]) : child(P[up[q]], s) = q
<1>1. Attached(P, h, up, q)
  BY DEF Tree
<1>2. up[q] \in DOMAIN P /\ h[up[q]] # 0 /\ \E s \in slots_of(P[up[q]]) : child(P[up[q]], s) = q
  BY <1>1 DEF Attached
<1>3. PICK s \in slots_of(P[up[q]]) : child(P[up[q]], s) = q
  BY <1>2
<1>4. IsBelow(P, root, h, up, child(P[up[q]], s), up[q])
  BY <1>2, ChildIsBelow
<1> QED
  BY <1>2, <1>3, <1>4

(* The pages of a group before and after, with the children they have.     *)
old_pages(P, pp, lo, hi) == {child(P[pp], s) : s \in lo..hi}
new_pages(new, k) == {new[i] : i \in 1..k}
HasChild(node, q) == \E t \in slots_of(node) : child(node, t) = q

Regrouping(P, Q, pp, lo, hi, k, new, N, M) ==
    /\ lo \in Nat /\ hi \in Nat /\ 1 <= lo /\ lo <= hi /\ hi <= Len(P[pp].cells) + 1
    /\ k \in Nat /\ k >= 1 /\ new \in [1..k -> Nat] /\ OneToOne(new, k)
    /\ \A i \in 1..k : new[i] \in old_pages(P, pp, lo, hi) \/ new[i] \notin DOMAIN P \union {0}
    /\ DOMAIN Q = (DOMAIN P \ old_pages(P, pp, lo, hi)) \union new_pages(new, k)
    /\ Replaced(Q[pp], P[pp], lo, hi, k, new)
    /\ \A i \in 1..k : Q[new[i]] = N[i]
    /\ \A q \in DOMAIN P \ old_pages(P, pp, lo, hi) : q # pp => Q[q] = P[q]
    /\ KidsShared(N, k, M) /\ SameKids(M, P, P[pp], lo, hi)

(* The heights of the pages and the pages above them.                      *)
heights_after(Q, h, pp, k, new) ==
    [q \in DOMAIN Q |-> IF q \in new_pages(new, k) THEN h[pp] - 1 ELSE h[q]]

ups_after(P, Q, root, up, pp, lo, hi, k, new, N) ==
    [q \in DOMAIN Q |->
        IF q \in new_pages(new, k) THEN pp
        ELSE IF q # root /\ up[q] \in old_pages(P, pp, lo, hi)
        THEN new[CHOOSE i \in 1..k : HasChild(N[i], q)]
        ELSE up[q]]

(* The pages of the group are on the level below their parent.             *)
GroupPlaces(P, root, h, up, pp, lo, hi, k, new) ==
    /\ \A s \in lo..hi : s \in slots_of(P[pp])
    /\ Distinct(P[pp])
    /\ \A c \in old_pages(P, pp, lo, hi) :
           /\ c \in DOMAIN P /\ c # root /\ c # 0 /\ c # pp
           /\ h[c] = h[pp] - 1 /\ h[c] \in Nat /\ up[c] = pp
    /\ \A c \in new_pages(new, k) : c \in Nat /\ c # root /\ c # 0 /\ c # pp
    /\ \A c \in new_pages(new, k) : c \in DOMAIN P => c \in old_pages(P, pp, lo, hi)

LEMMA GroupIsBelow ==
    ASSUME NEW P, NEW Q, NEW root, NEW h, NEW up, NEW H, Tree(P, root, h, up, H),
           NEW pp \in DOMAIN P, h[pp] # 0, NEW lo, NEW hi, NEW k, NEW new, NEW N, NEW M,
           Regrouping(P, Q, pp, lo, hi, k, new, N, M)
    PROVE  GroupPlaces(P, root, h, up, pp, lo, hi, k, new)
<1> DEFINE old == old_pages(P, pp, lo, hi)
<1>1. /\ lo \in Nat /\ hi \in Nat /\ 1 <= lo /\ lo <= hi /\ hi <= Len(P[pp].cells) + 1
      /\ k \in Nat /\ k >= 1 /\ new \in [1..k -> Nat]
      /\ \A i \in 1..k : new[i] \in old \/ new[i] \notin DOMAIN P \union {0}
  BY DEF Regrouping
<1>2. Len(P[pp].cells) \in Nat /\ h[pp] \in Nat /\ InPlace(P, root, h, up, pp) /\ root \in DOMAIN P
  BY TreeNode DEF Tree
<1>3. \A s \in lo..hi : s \in slots_of(P[pp])
  BY <1>1, <1>2 DEF slots_of
<1>4. Distinct(P[pp]) /\ \A s \in slots_of(P[pp]) : IsBelow(P, root, h, up, child(P[pp], s), pp)
  BY <1>2 DEF InPlace
<1>5. ASSUME NEW c \in old
      PROVE  /\ c \in DOMAIN P /\ c # root /\ c # 0 /\ c # pp
             /\ h[c] = h[pp] - 1 /\ h[c] \in Nat /\ up[c] = pp
  <2>1. PICK s \in lo..hi : c = child(P[pp], s)
    BY DEF old_pages
  <2>2. IsBelow(P, root, h, up, c, pp)
    BY <1>3, <1>4, <2>1
  <2>3. c \in DOMAIN P /\ c # root /\ c # 0 /\ h[c] = h[pp] - 1 /\ up[c] = pp
    BY <2>2 DEF IsBelow
  <2>4. h[c] # h[pp] /\ h[c] \in Nat
    BY <1>2, <2>3
  <2> QED
    BY <2>3, <2>4
<1> HIDE DEF old
<1>6. ASSUME NEW c \in new_pages(new, k)
      PROVE  c \in Nat /\ c # root /\ c # 0 /\ c # pp /\ (c \in DOMAIN P => c \in old)
  <2>1. c \in Nat /\ (c \in old \/ c \notin DOMAIN P \union {0})
    BY <1>1 DEF new_pages
  <2>2. CASE c \in old
    BY <1>5, <2>1, <2>2
  <2>3. CASE c \notin DOMAIN P \union {0}
    BY <1>2, <2>1, <2>3
  <2> QED
    BY <2>1, <2>2, <2>3
<1> QED
  BY <1>3, <1>4, <1>5, <1>6 DEF GroupPlaces, old

(* Where the pages are afterwards.                                         *)
AfterRegroup(P, Q, root, h, up, pp, lo, hi, k, new, N, h2, up2) ==
    /\ \A q \in DOMAIN Q \ new_pages(new, k) :
           /\ q \in DOMAIN P \ old_pages(P, pp, lo, hi) /\ h2[q] = h[q]
           /\ q # pp => Q[q] = P[q]
           /\ ~(q # root /\ up[q] \in old_pages(P, pp, lo, hi)) => up2[q] = up[q]
           /\ q # root /\ up[q] \in old_pages(P, pp, lo, hi)
              => up2[q] = new[CHOOSE i \in 1..k : HasChild(N[i], q)]
    /\ \A i \in 1..k : /\ new[i] \in DOMAIN Q /\ h2[new[i]] = h[pp] - 1 /\ up2[new[i]] = pp
                       /\ Q[new[i]] = N[i] /\ new[i] \in new_pages(new, k)
    /\ \A q \in DOMAIN P \ old_pages(P, pp, lo, hi) : q \in DOMAIN Q \ new_pages(new, k)

LEMMA AfterRegroupIs ==
    ASSUME NEW P, NEW Q, NEW root, NEW h, NEW up,
           NEW pp \in DOMAIN P, NEW lo, NEW hi, NEW k, NEW new, NEW N, NEW M,
           GroupPlaces(P, root, h, up, pp, lo, hi, k, new), Regrouping(P, Q, pp, lo, hi, k, new, N, M)
    PROVE  AfterRegroup(P, Q, root, h, up, pp, lo, hi, k, new, N, heights_after(Q, h, pp, k, new),
                        ups_after(P, Q, root, up, pp, lo, hi, k, new, N))
<1> DEFINE old == old_pages(P, pp, lo, hi)
           fresh == new_pages(new, k)
           h2 == heights_after(Q, h, pp, k, new)
           up2 == ups_after(P, Q, root, up, pp, lo, hi, k, new, N)
<1>1. /\ DOMAIN Q = (DOMAIN P \ old) \union fresh
      /\ \A i \in 1..k : Q[new[i]] = N[i]
      /\ \A q \in DOMAIN P \ old : q # pp => Q[q] = P[q]
  BY DEF Regrouping
<1>2. \A i \in 1..k : new[i] \in fresh
  BY DEF new_pages
<1>3. \A c \in fresh : c \in DOMAIN P => c \in old
  BY DEF GroupPlaces
<1> HIDE DEF old, fresh
<1>4. \A q \in DOMAIN Q : h2[q] = IF q \in fresh THEN h[pp] - 1 ELSE h[q]
  BY DEF heights_after, fresh
<1>5. \A q \in DOMAIN Q : up2[q] = IF q \in fresh THEN pp ELSE
                                   IF q # root /\ up[q] \in old
                                   THEN new[CHOOSE i \in 1..k : HasChild(N[i], q)] ELSE up[q]
  BY DEF ups_after, fresh, old
<1> HIDE DEF h2, up2
<1>6. ASSUME NEW q \in DOMAIN Q \ fresh
      PROVE  /\ q \in DOMAIN P \ old /\ h2[q] = h[q]
             /\ q # pp => Q[q] = P[q]
             /\ ~(q # root /\ up[q] \in old) => up2[q] = up[q]
             /\ q # root /\ up[q] \in old => up2[q] = new[CHOOSE i \in 1..k : HasChild(N[i], q)]
  BY <1>1, <1>4, <1>5
<1>7. ASSUME NEW i \in 1..k
      PROVE  /\ new[i] \in DOMAIN Q /\ h2[new[i]] = h[pp] - 1 /\ up2[new[i]] = pp
             /\ Q[new[i]] = N[i] /\ new[i] \in fresh
  BY <1>1, <1>2, <1>4, <1>5
<1>8. ASSUME NEW q \in DOMAIN P \ old PROVE q \in DOMAIN Q \ fresh
  BY <1>1, <1>3
<1> QED
  BY <1>6, <1>7, <1>8 DEF AfterRegroup, old, fresh, h2, up2

(* The children of the new pages are those of the old ones.                *)
GroupKids(P, root, h, up, pp, lo, hi, k, new, N) ==
    /\ h[pp] - 1 = 0 => \A i \in 1..k : Childless(N[i])
    /\ h[pp] - 1 # 0 =>
           \A i \in 1..k : /\ Distinct(N[i])
                           /\ \A t \in slots_of(N[i]) :
                                  /\ child(N[i], t) \in DOMAIN P \ old_pages(P, pp, lo, hi)
                                  /\ child(N[i], t) # root /\ child(N[i], t) # 0
                                  /\ h[child(N[i], t)] = (h[pp] - 1) - 1
                                  /\ up[child(N[i], t)] \in old_pages(P, pp, lo, hi)
                                  /\ (CHOOSE j \in 1..k : HasChild(N[j], child(N[i], t))) = i
    /\ \A q \in DOMAIN P : q # root /\ up[q] \in old_pages(P, pp, lo, hi)
                           => \E i \in 1..k : HasChild(N[i], q)

LEMMA SiblingsAreApart ==
    ASSUME NEW P, NEW root, NEW h, NEW up, NEW H, Tree(P, root, h, up, H),
           NEW pp \in DOMAIN P, NEW lo, NEW hi, NEW k, NEW new,
           GroupPlaces(P, root, h, up, pp, lo, hi, k, new), h[pp] - 1 # 0
    PROVE  Apart(P, P[pp], lo, hi)
<1>1. ASSUME NEW s \in lo..hi
      PROVE  /\ s \in slots_of(P[pp])
             /\ Distinct(P[child(P[pp], s)])
             /\ \A i \in slots_of(P[child(P[pp], s)]) : up[child(P[child(P[pp], s)], i)] = child(P[pp], s)
  <2> DEFINE c == child(P[pp], s)
  <2>1. c \in old_pages(P, pp, lo, hi)
    BY DEF old_pages
  <2> HIDE DEF c
  <2>2. c \in DOMAIN P /\ h[c] # 0
    BY <2>1 DEF GroupPlaces
  <2>3. InPlace(P, root, h, up, c)
    BY <2>2, TreeNode
  <2>4. Distinct(P[c]) /\ \A i \in slots_of(P[c]) : up[child(P[c], i)] = c
    BY <2>2, <2>3 DEF InPlace, IsBelow
  <2>5. s \in slots_of(P[pp])
    BY DEF GroupPlaces
  <2> QED
    BY <2>4, <2>5 DEF c
<1>2. Distinct(P[pp])
  BY DEF GroupPlaces
<1>3. ASSUME NEW s \in lo..hi, NEW t \in lo..hi, NEW i \in slots_of(P[child(P[pp], s)]),
             NEW j \in slots_of(P[child(P[pp], t)]),
             child(P[child(P[pp], s)], i) = child(P[child(P[pp], t)], j)
      PROVE  s = t /\ i = j
  <2>1. child(P[pp], s) = child(P[pp], t)
    BY <1>1, <1>3
  <2>2. s = t
    BY <1>1, <1>2, <2>1 DEF Distinct
  <2>3. i = j
    BY <1>1, <1>3, <2>2 DEF Distinct
  <2> QED
    BY <2>2, <2>3
<1> QED
  BY <1>3 DEF Apart

LEMMA GroupKidsAre ==
    ASSUME NEW P, NEW Q, NEW root, NEW h, NEW up, NEW H, Tree(P, root, h, up, H),
           NEW pp \in DOMAIN P, NEW lo, NEW hi, NEW k, NEW new, NEW N, NEW M,
           GroupPlaces(P, root, h, up, pp, lo, hi, k, new), Regrouping(P, Q, pp, lo, hi, k, new, N, M)
    PROVE  GroupKids(P, root, h, up, pp, lo, hi, k, new, N)
<1> DEFINE old == old_pages(P, pp, lo, hi)
           L == h[pp] - 1
<1>1. /\ \A i \in 1..k : \A t \in slots_of(N[i]) : \E j \in slots_of(M) : child(N[i], t) = child(M, j)
      /\ \A j \in slots_of(M) : \E i \in 1..k : \E t \in slots_of(N[i]) : child(N[i], t) = child(M, j)
      /\ Distinct(M) =>
             \A i, j \in 1..k : \A s \in slots_of(N[i]), t \in slots_of(N[j]) :
                 child(N[i], s) = child(N[j], t) => i = j /\ s = t
  BY DEF Regrouping, KidsShared
<1>2. /\ \A j \in slots_of(M) : \E s \in lo..hi : \E i \in slots_of(P[child(P[pp], s)]) :
             child(M, j) = child(P[child(P[pp], s)], i)
      /\ \A s \in lo..hi : \A i \in slots_of(P[child(P[pp], s)]) : \E j \in slots_of(M) :
             child(M, j) = child(P[child(P[pp], s)], i)
      /\ Apart(P, P[pp], lo, hi) => Distinct(M)
  BY DEF Regrouping, SameKids
<1>3. \A s \in lo..hi : child(P[pp], s) \in old
  BY DEF old_pages
<1>4. \A c \in old : \E s \in lo..hi : c = child(P[pp], s)
  BY DEF old_pages
<1> HIDE DEF old
<1>5. ASSUME NEW i \in 1..k, NEW t \in slots_of(N[i])
      PROVE  \E c \in old : \E j \in slots_of(P[c]) : child(N[i], t) = child(P[c], j)
  BY <1>1, <1>2, <1>3
<1>6. ASSUME NEW c \in old, NEW j \in slots_of(P[c])
      PROVE  \E i \in 1..k : HasChild(N[i], child(P[c], j))
  <2>1. PICK s \in lo..hi : c = child(P[pp], s)
    BY <1>4
  <2>2. PICK m \in slots_of(M) : child(M, m) = child(P[c], j)
    BY <1>2, <2>1
  <2>3. PICK i \in 1..k : \E t \in slots_of(N[i]) : child(N[i], t) = child(M, m)
    BY <1>1, <2>2
  <2> QED
    BY <2>2, <2>3 DEF HasChild
<1>7. \A c \in old : /\ c \in DOMAIN P /\ c # root /\ c # 0 /\ c # pp
                     /\ h[c] = L /\ h[c] \in Nat /\ up[c] = pp /\ InPlace(P, root, h, up, c)
  BY TreeNode DEF GroupPlaces, old
<1>8. h[pp] \in Nat
  BY TreeNode
<1> HIDE DEF L
<1>9. ASSUME L = 0, NEW i \in 1..k PROVE Childless(N[i])
  <2>1. ASSUME NEW t \in slots_of(N[i]) PROVE child(N[i], t) = 0
    <3>1. PICK c \in old : \E j \in slots_of(P[c]) : child(N[i], t) = child(P[c], j)
      BY <1>5
    <3>2. Childless(P[c])
      BY <1>7, <1>9 DEF InPlace
    <3> QED
      BY <3>1, <3>2 DEF Childless
  <2> QED
    BY <2>1 DEF Childless
<1>10. ASSUME L # 0, NEW i \in 1..k
       PROVE  /\ Distinct(N[i])
              /\ \A t \in slots_of(N[i]) :
                     /\ child(N[i], t) \in DOMAIN P \ old
                     /\ child(N[i], t) # root /\ child(N[i], t) # 0
                     /\ h[child(N[i], t)] = L - 1
                     /\ up[child(N[i], t)] \in old
                     /\ (CHOOSE j \in 1..k : HasChild(N[j], child(N[i], t))) = i
  <2>1. Apart(P, P[pp], lo, hi)
    BY <1>10, SiblingsAreApart DEF L
  <2>2. \A a, b \in 1..k : \A s \in slots_of(N[a]), t \in slots_of(N[b]) :
            child(N[a], s) = child(N[b], t) => a = b /\ s = t
    BY <1>1, <1>2, <2>1
  <2>3. Distinct(N[i])
    BY <2>2 DEF Distinct
  <2>4. ASSUME NEW t \in slots_of(N[i])
        PROVE  /\ child(N[i], t) \in DOMAIN P \ old
               /\ child(N[i], t) # root /\ child(N[i], t) # 0
               /\ h[child(N[i], t)] = L - 1
               /\ up[child(N[i], t)] \in old
               /\ (CHOOSE j \in 1..k : HasChild(N[j], child(N[i], t))) = i
    <3> DEFINE q == child(N[i], t)
    <3>1. PICK c \in old : \E j \in slots_of(P[c]) : q = child(P[c], j)
      BY <1>5
    <3> HIDE DEF q
    <3>2. IsBelow(P, root, h, up, q, c)
      BY <1>7, <1>10, <3>1 DEF InPlace
    <3>3. q \in DOMAIN P /\ q # root /\ q # 0 /\ h[q] = L - 1 /\ up[q] = c
      BY <1>7, <3>2 DEF IsBelow
    <3>4. q \notin old
      <4>1. L - 1 # L
        BY <1>8 DEF L
      <4> QED
        BY <1>7, <3>3, <4>1
    <3>5. HasChild(N[i], q)
      BY DEF HasChild, q
    <3>6. \A j \in 1..k : HasChild(N[j], q) => j = i
      BY <2>2 DEF HasChild, q
    <3>7. (CHOOSE j \in 1..k : HasChild(N[j], q)) = i
      BY <3>5, <3>6
    <3> QED
      BY <3>1, <3>3, <3>4, <3>7 DEF q
  <2> QED
    BY <2>3, <2>4
<1>11. ASSUME NEW q \in DOMAIN P, q # root, up[q] \in old PROVE \E i \in 1..k : HasChild(N[i], q)
  <2>1. \E s \in slots_of(P[up[q]]) : child(P[up[q]], s) = q
    BY <1>11, IsBelowUp
  <2> QED
    BY <1>6, <1>11, <2>1
<1> QED
  BY <1>9, <1>10, <1>11 DEF GroupKids, L, old

(* What holds of a regrouped group of the tree.                            *)
InGroup(P, Q, root, h, up, H, pp, lo, hi, k, new, N, M, h2, up2) ==
    /\ Tree(P, root, h, up, H) /\ pp \in DOMAIN P /\ h[pp] # 0
    /\ Regrouping(P, Q, pp, lo, hi, k, new, N, M)
    /\ GroupPlaces(P, root, h, up, pp, lo, hi, k, new)
    /\ GroupKids(P, root, h, up, pp, lo, hi, k, new, N)
    /\ AfterRegroup(P, Q, root, h, up, pp, lo, hi, k, new, N, h2, up2)

LEMMA NewPageInPlace ==
    ASSUME NEW P, NEW Q, NEW root, NEW h, NEW up, NEW H, NEW pp, NEW lo, NEW hi, NEW k, NEW new,
           NEW N, NEW M, NEW h2, NEW up2,
           InGroup(P, Q, root, h, up, H, pp, lo, hi, k, new, N, M, h2, up2), NEW i \in 1..k
    PROVE  InPlace(Q, root, h2, up2, new[i])
<1> DEFINE old == old_pages(P, pp, lo, hi)
           fresh == new_pages(new, k)
           L == h[pp] - 1
<1>1. h2[new[i]] = L /\ Q[new[i]] = N[i] /\ up2[new[i]] = pp
  BY DEF InGroup, AfterRegroup
<1>2. /\ L = 0 => Childless(N[i])
      /\ L # 0 => /\ Distinct(N[i])
                  /\ \A t \in slots_of(N[i]) :
                         /\ child(N[i], t) \in DOMAIN P \ old
                         /\ child(N[i], t) # root /\ child(N[i], t) # 0
                         /\ h[child(N[i], t)] = L - 1
                         /\ up[child(N[i], t)] \in old
                         /\ (CHOOSE j \in 1..k : HasChild(N[j], child(N[i], t))) = i
  BY DEF InGroup, GroupKids
<1>3. /\ \A q \in DOMAIN Q \ fresh :
           /\ h2[q] = h[q]
           /\ q # root /\ up[q] \in old
              => up2[q] = new[CHOOSE j \in 1..k : HasChild(N[j], q)]
      /\ \A q \in DOMAIN P \ old : q \in DOMAIN Q \ fresh
  BY DEF InGroup, AfterRegroup
<1> HIDE DEF L, old, fresh
<1>4. CASE L = 0
  BY <1>1, <1>2, <1>4 DEF InPlace
<1>5. CASE L # 0
  <2>1. ASSUME NEW t \in slots_of(N[i]) PROVE IsBelow(Q, root, h2, up2, child(N[i], t), new[i])
    <3> DEFINE q == child(N[i], t)
    <3>1. /\ q \in DOMAIN P \ old /\ q # root /\ q # 0 /\ h[q] = L - 1 /\ up[q] \in old
          /\ (CHOOSE j \in 1..k : HasChild(N[j], q)) = i
      BY <1>2, <1>5
    <3> HIDE DEF q
    <3>2. q \in DOMAIN Q \ fresh /\ h2[q] = L - 1 /\ up2[q] = new[i]
      BY <1>3, <3>1
    <3>3. IsBelow(Q, root, h2, up2, q, new[i])
      BY <1>1, <1>5, <3>1, <3>2 DEF IsBelow
    <3> QED
      BY <3>3 DEF q
  <2> QED
    BY <1>1, <1>2, <1>5, <2>1 DEF InPlace
<1> QED
  BY <1>4, <1>5

LEMMA OtherPageInPlace ==
    ASSUME NEW P, NEW Q, NEW root, NEW h, NEW up, NEW H, NEW pp, NEW lo, NEW hi, NEW k, NEW new,
           NEW N, NEW M, NEW h2, NEW up2,
           InGroup(P, Q, root, h, up, H, pp, lo, hi, k, new, N, M, h2, up2),
           NEW p \in DOMAIN Q, p \notin new_pages(new, k), p # pp
    PROVE  InPlace(Q, root, h2, up2, p)
<1> DEFINE old == old_pages(P, pp, lo, hi)
           fresh == new_pages(new, k)
<1>1. /\ \A q \in DOMAIN Q \ fresh :
           /\ q \in DOMAIN P \ old /\ h2[q] = h[q]
           /\ q # pp => Q[q] = P[q]
           /\ ~(q # root /\ up[q] \in old) => up2[q] = up[q]
      /\ \A q \in DOMAIN P \ old : q \in DOMAIN Q \ fresh
  BY DEF InGroup, AfterRegroup
<1>2. \A c \in old : up[c] = pp
  BY DEF InGroup, GroupPlaces
<1>3. p \in DOMAIN Q \ fresh
  OBVIOUS
<1> HIDE DEF old, fresh
<1>4. p \in DOMAIN P \ old /\ h2[p] = h[p] /\ Q[p] = P[p]
  BY <1>1, <1>3
<1>5. Tree(P, root, h, up, H)
  BY DEF InGroup
<1>6. InPlace(P, root, h, up, p)
  BY <1>4, <1>5, TreeNode
<1>7. CASE h[p] = 0
  BY <1>4, <1>6, <1>7 DEF InPlace
<1>8. CASE h[p] # 0
  <2>1. ASSUME NEW s \in slots_of(P[p]) PROVE IsBelow(Q, root, h2, up2, child(P[p], s), p)
    <3> DEFINE q == child(P[p], s)
    <3>1. IsBelow(P, root, h, up, q, p)
      BY <1>6, <1>8 DEF InPlace
    <3> HIDE DEF q
    <3>2. q \in DOMAIN P /\ q # root /\ q # 0 /\ h[q] = h[p] - 1 /\ up[q] = p
      BY <3>1 DEF IsBelow
    <3>3. q \in DOMAIN P \ old
      BY <1>2, <3>2
    <3>4. q \in DOMAIN Q \ fresh /\ h2[q] = h[q] /\ up2[q] = p
      BY <1>1, <1>4, <3>2, <3>3
    <3>5. IsBelow(Q, root, h2, up2, q, p)
      BY <1>4, <1>8, <3>2, <3>4 DEF IsBelow
    <3> QED
      BY <3>5 DEF q
  <2>2. Distinct(P[p])
    BY <1>6, <1>8 DEF InPlace
  <2> QED
    BY <1>4, <1>8, <2>1, <2>2 DEF InPlace
<1> QED
  BY <1>7, <1>8

(* The slots of the parent after the group, and where they were.           *)
LEMMA SlotsAfterGroup ==
    ASSUME NEW a \in Nat, NEW b \in Nat, NEW lo \in Nat, NEW hi \in Nat, NEW k \in Nat,
           1 <= lo, lo <= hi, hi <= b + 1, k >= 1, a + (hi - lo + 1) = b + k
    PROVE  /\ \A s \in 1..(a + 1) : /\ s < lo => s \in 1..(b + 1) /\ s \notin lo..hi
                                    /\ lo <= s /\ s < lo + k => s - lo + 1 \in 1..k
                                    /\ lo + k <= s => /\ s - k + (hi - lo + 1) \in 1..(b + 1)
                                                      /\ s - k + (hi - lo + 1) \notin lo..hi
                                                      /\ ~(s - k + (hi - lo + 1) < lo)
           /\ \A i \in 1..k : lo + i - 1 \in 1..(a + 1) /\ lo <= lo + i - 1 /\ lo + i - 1 < lo + k
                              /\ (lo + i - 1) - lo + 1 = i
           /\ \A s \in 1..(b + 1) :
                  /\ s < lo => s \in 1..(a + 1)
                  /\ s > hi => /\ s + k - (hi - lo + 1) \in 1..(a + 1)
                               /\ lo + k <= s + k - (hi - lo + 1)
                               /\ (s + k - (hi - lo + 1)) - k + (hi - lo + 1) = s
<1>1. ASSUME NEW s \in 1..(a + 1)
      PROVE  /\ s < lo => s \in 1..(b + 1) /\ s \notin lo..hi
             /\ lo <= s /\ s < lo + k => s - lo + 1 \in 1..k
             /\ lo + k <= s => /\ s - k + (hi - lo + 1) \in 1..(b + 1)
                               /\ s - k + (hi - lo + 1) \notin lo..hi
                               /\ ~(s - k + (hi - lo + 1) < lo)
  OBVIOUS
<1>2. ASSUME NEW i \in 1..k
      PROVE  lo + i - 1 \in 1..(a + 1) /\ lo <= lo + i - 1 /\ lo + i - 1 < lo + k
             /\ (lo + i - 1) - lo + 1 = i
  OBVIOUS
<1>3. ASSUME NEW s \in 1..(b + 1)
      PROVE  /\ s < lo => s \in 1..(a + 1)
             /\ s > hi => /\ s + k - (hi - lo + 1) \in 1..(a + 1)
                          /\ lo + k <= s + k - (hi - lo + 1)
                          /\ (s + k - (hi - lo + 1)) - k + (hi - lo + 1) = s
  OBVIOUS
<1> QED
  BY <1>1, <1>2, <1>3

(* The children of the parent: on the left of the group, in the group, and *)
(* on its right.                                                           *)
KidsOfParent(Q, P, pp, lo, hi, k, new) ==
    /\ Q[pp] \in FlatNode
    /\ \A s \in slots_of(Q[pp]) :
           \/ s < lo /\ s \in slots_of(P[pp]) /\ s \notin lo..hi /\ child(Q[pp], s) = child(P[pp], s)
           \/ lo <= s /\ s - lo + 1 \in 1..k /\ child(Q[pp], s) = new[s - lo + 1]
           \/ /\ lo + k <= s
              /\ s - k + (hi - lo + 1) \in slots_of(P[pp]) /\ s - k + (hi - lo + 1) \notin lo..hi
              /\ ~(s - k + (hi - lo + 1) < lo)
              /\ child(Q[pp], s) = child(P[pp], s - k + (hi - lo + 1))
    /\ \A i \in 1..k : HasChild(Q[pp], new[i])
    /\ \A s \in slots_of(P[pp]) : s \notin lo..hi => HasChild(Q[pp], child(P[pp], s))

LEMMA KidsOfParentAre ==
    ASSUME NEW P, NEW Q, NEW root, NEW h, NEW up, NEW H, NEW pp, NEW lo, NEW hi, NEW k, NEW new,
           NEW N, NEW M, NEW h2, NEW up2,
           InGroup(P, Q, root, h, up, H, pp, lo, hi, k, new, N, M, h2, up2)
    PROVE  KidsOfParent(Q, P, pp, lo, hi, k, new)
<1> DEFINE a == Len(Q[pp].cells)
           b == Len(P[pp].cells)
<1>1. /\ lo \in Nat /\ hi \in Nat /\ 1 <= lo /\ lo <= hi /\ hi <= b + 1 /\ k \in Nat /\ k >= 1
      /\ Replaced(Q[pp], P[pp], lo, hi, k, new)
  BY DEF InGroup, Regrouping
<1>2. /\ Q[pp] \in FlatNode /\ a + (hi - lo + 1) = b + k
      /\ \A s \in slots_of(Q[pp]) :
           /\ s < lo => child(Q[pp], s) = child(P[pp], s)
           /\ lo <= s /\ s < lo + k => child(Q[pp], s) = new[s - lo + 1]
           /\ lo + k <= s => child(Q[pp], s) = child(P[pp], s - k + (hi - lo + 1))
  BY <1>1 DEF Replaced
<1>3. b \in Nat /\ a \in Nat
  <2>1. Tree(P, root, h, up, H) /\ pp \in DOMAIN P
    BY DEF InGroup
  <2> QED
    BY <1>2, <2>1, TreeNode DEF FlatNode
<1>4. slots_of(Q[pp]) = 1..(a + 1) /\ slots_of(P[pp]) = 1..(b + 1)
  BY DEF slots_of
<1> HIDE DEF a, b
<1>5. /\ \A s \in 1..(a + 1) : /\ s < lo => s \in 1..(b + 1) /\ s \notin lo..hi
                               /\ lo <= s /\ s < lo + k => s - lo + 1 \in 1..k
                               /\ lo + k <= s => /\ s - k + (hi - lo + 1) \in 1..(b + 1)
                                                 /\ s - k + (hi - lo + 1) \notin lo..hi
                                                 /\ ~(s - k + (hi - lo + 1) < lo)
      /\ \A i \in 1..k : lo + i - 1 \in 1..(a + 1) /\ lo <= lo + i - 1 /\ lo + i - 1 < lo + k
                         /\ (lo + i - 1) - lo + 1 = i
      /\ \A s \in 1..(b + 1) :
             /\ s < lo => s \in 1..(a + 1)
             /\ s > hi => /\ s + k - (hi - lo + 1) \in 1..(a + 1)
                          /\ lo + k <= s + k - (hi - lo + 1)
                          /\ (s + k - (hi - lo + 1)) - k + (hi - lo + 1) = s
  BY <1>1, <1>2, <1>3, SlotsAfterGroup
<1>6. ASSUME NEW s \in slots_of(Q[pp])
      PROVE  \/ s < lo /\ s \in slots_of(P[pp]) /\ s \notin lo..hi /\ child(Q[pp], s) = child(P[pp], s)
             \/ lo <= s /\ s - lo + 1 \in 1..k /\ child(Q[pp], s) = new[s - lo + 1]
             \/ /\ lo + k <= s
                /\ s - k + (hi - lo + 1) \in slots_of(P[pp]) /\ s - k + (hi - lo + 1) \notin lo..hi
                /\ ~(s - k + (hi - lo + 1) < lo)
                /\ child(Q[pp], s) = child(P[pp], s - k + (hi - lo + 1))
  <2>1. s \in 1..(a + 1) /\ s \in Nat
    BY <1>3, <1>4
  <2>2. s < lo \/ (lo <= s /\ s < lo + k) \/ lo + k <= s
    BY ONLY <1>1, <2>1
  <2>3. CASE s < lo
    BY <1>2, <1>4, <1>5, <2>1, <2>3
  <2>4. CASE lo <= s /\ s < lo + k
    BY <1>2, <1>4, <1>5, <2>1, <2>4
  <2>5. CASE lo + k <= s
    BY <1>2, <1>4, <1>5, <2>1, <2>5
  <2> QED
    BY <2>2, <2>3, <2>4, <2>5
<1>7. ASSUME NEW i \in 1..k PROVE HasChild(Q[pp], new[i])
  <2> DEFINE s == lo + i - 1
  <2>1. s \in slots_of(Q[pp]) /\ lo <= s /\ s < lo + k /\ s - lo + 1 = i
    BY <1>4, <1>5
  <2> HIDE DEF s
  <2>2. child(Q[pp], s) = new[i]
    BY <1>2, <2>1
  <2> QED
    BY <2>1, <2>2 DEF HasChild
<1>8. ASSUME NEW s \in slots_of(P[pp]), s \notin lo..hi PROVE HasChild(Q[pp], child(P[pp], s))
  <2>1. s \in 1..(b + 1) /\ (s < lo \/ s > hi)
    BY <1>1, <1>3, <1>4, <1>8
  <2>2. CASE s < lo
    <3>1. s \in slots_of(Q[pp]) /\ child(Q[pp], s) = child(P[pp], s)
      BY <1>2, <1>4, <1>5, <2>1, <2>2
    <3> QED
      BY <3>1 DEF HasChild
  <2>3. CASE s > hi
    <3> DEFINE t == s + k - (hi - lo + 1)
    <3>1. t \in slots_of(Q[pp]) /\ lo + k <= t /\ t - k + (hi - lo + 1) = s
      BY <1>4, <1>5, <2>1, <2>3
    <3> HIDE DEF t
    <3>2. child(Q[pp], t) = child(P[pp], s)
      BY <1>2, <3>1
    <3> QED
      BY <3>1, <3>2 DEF HasChild
  <2> QED
    BY <2>1, <2>2, <2>3
<1> QED
  BY <1>2, <1>6, <1>7, <1>8 DEF KidsOfParent

LEMMA ParentInPlace ==
    ASSUME NEW P, NEW Q, NEW root, NEW h, NEW up, NEW H, NEW pp, NEW lo, NEW hi, NEW k, NEW new,
           NEW N, NEW M, NEW h2, NEW up2,
           InGroup(P, Q, root, h, up, H, pp, lo, hi, k, new, N, M, h2, up2)
    PROVE  h2[pp] = h[pp] /\ pp \in DOMAIN Q /\ InPlace(Q, root, h2, up2, pp)
<1> DEFINE old == old_pages(P, pp, lo, hi)
           fresh == new_pages(new, k)
           O(s) == s - k + (hi - lo + 1)
<1>1. /\ \A q \in DOMAIN Q \ fresh :
           /\ h2[q] = h[q]
           /\ ~(q # root /\ up[q] \in old) => up2[q] = up[q]
      /\ \A q \in DOMAIN P \ old : q \in DOMAIN Q \ fresh
      /\ \A i \in 1..k : new[i] \in DOMAIN Q /\ h2[new[i]] = h[pp] - 1 /\ up2[new[i]] = pp
                         /\ new[i] \in fresh
  BY DEF InGroup, AfterRegroup
<1>2. /\ Tree(P, root, h, up, H) /\ pp \in DOMAIN P /\ h[pp] # 0
      /\ Distinct(P[pp])
      /\ \A c \in old : c # pp /\ up[c] = pp
      /\ \A c \in fresh : c # root /\ c # 0 /\ (c \in DOMAIN P => c \in old)
      /\ \A s \in lo..hi : s \in slots_of(P[pp])
  BY DEF InGroup, GroupPlaces
<1>3. /\ k \in Nat /\ k >= 1 /\ lo \in Nat /\ hi \in Nat /\ OneToOne(new, k)
  BY DEF InGroup, Regrouping
<1>4. \A s \in slots_of(Q[pp]) :
           \/ s < lo /\ s \in slots_of(P[pp]) /\ s \notin lo..hi /\ child(Q[pp], s) = child(P[pp], s)
           \/ lo <= s /\ s - lo + 1 \in 1..k /\ child(Q[pp], s) = new[s - lo + 1]
           \/ /\ lo + k <= s
              /\ O(s) \in slots_of(P[pp]) /\ O(s) \notin lo..hi /\ ~(O(s) < lo)
              /\ child(Q[pp], s) = child(P[pp], O(s))
  BY KidsOfParentAre DEF KidsOfParent
<1>5. ASSUME NEW s \in slots_of(P[pp]), s \notin lo..hi
      PROVE  child(P[pp], s) \notin old
  <2>1. ASSUME child(P[pp], s) \in old PROVE FALSE
    <3>1. PICK t \in lo..hi : child(P[pp], s) = child(P[pp], t)
      BY <2>1 DEF old_pages
    <3>2. s = t
      BY <1>2, <3>1 DEF Distinct
    <3> QED
      BY <1>5, <3>2
  <2> QED
    BY <2>1
<1> HIDE DEF old, fresh
<1>6. \A s \in slots_of(P[pp]) : IsBelow(P, root, h, up, child(P[pp], s), pp)
  <2>1. InPlace(P, root, h, up, pp)
    BY <1>2, TreeNode
  <2> QED
    BY <1>2, <2>1 DEF InPlace
<1>7. pp \notin old
  BY <1>2
<1>8. pp \in DOMAIN Q \ fresh /\ h2[pp] = h[pp]
  BY <1>1, <1>2, <1>7
<1>9. ASSUME NEW c, c \notin old, IsBelow(P, root, h, up, c, pp)
      PROVE  IsBelow(Q, root, h2, up2, c, pp) /\ c \notin fresh
  <2>1. c \in DOMAIN P \ old /\ c # root /\ c # 0 /\ h[c] = h[pp] - 1 /\ up[c] = pp
    BY <1>9 DEF IsBelow
  <2>2. c \in DOMAIN Q \ fresh /\ h2[c] = h[c] /\ up2[c] = pp
    BY <1>1, <1>7, <2>1
  <2> QED
    BY <1>2, <1>8, <2>1, <2>2 DEF IsBelow
<1>10. ASSUME NEW i \in 1..k PROVE IsBelow(Q, root, h2, up2, new[i], pp)
  BY <1>1, <1>2, <1>8 DEF IsBelow
<1>11. ASSUME NEW s \in slots_of(P[pp]), s \notin lo..hi
       PROVE  IsBelow(Q, root, h2, up2, child(P[pp], s), pp) /\ child(P[pp], s) \notin fresh
  BY <1>5, <1>6, <1>9, <1>11
<1> HIDE DEF O
<1>12. ASSUME NEW s \in slots_of(Q[pp]) PROVE IsBelow(Q, root, h2, up2, child(Q[pp], s), pp)
  <2>1. CASE s < lo /\ s \in slots_of(P[pp]) /\ s \notin lo..hi /\ child(Q[pp], s) = child(P[pp], s)
    BY <1>11, <2>1
  <2>2. CASE lo <= s /\ s - lo + 1 \in 1..k /\ child(Q[pp], s) = new[s - lo + 1]
    BY <1>10, <2>2
  <2>3. CASE O(s) \in slots_of(P[pp]) /\ O(s) \notin lo..hi /\ child(Q[pp], s) = child(P[pp], O(s))
    BY <1>11, <2>3
  <2> QED
    BY <1>4, <2>1, <2>2, <2>3
<1>13. \A s \in slots_of(Q[pp]) : s \in Nat /\ s >= 1
  <2>1. Q[pp] \in FlatNode
    BY KidsOfParentAre DEF KidsOfParent
  <2>2. Len(Q[pp].cells) \in Nat
    BY <2>1 DEF FlatNode
  <2> QED
    BY <2>2 DEF slots_of
<1>14. ASSUME NEW s \in slots_of(Q[pp]), NEW t \in slots_of(Q[pp]), child(Q[pp], s) = child(Q[pp], t)
       PROVE  s = t
  <2> DEFINE Left(x) == x < lo /\ x \in slots_of(P[pp]) /\ x \notin lo..hi /\ child(Q[pp], x) = child(P[pp], x)
             Mid(x) == lo <= x /\ x - lo + 1 \in 1..k /\ child(Q[pp], x) = new[x - lo + 1]
             Right(x) == /\ lo + k <= x
                         /\ O(x) \in slots_of(P[pp]) /\ O(x) \notin lo..hi /\ ~(O(x) < lo)
                         /\ child(Q[pp], x) = child(P[pp], O(x))
  <2>1. (Left(s) \/ Mid(s) \/ Right(s)) /\ (Left(t) \/ Mid(t) \/ Right(t))
    BY <1>4
  <2>2. ASSUME NEW x \in slots_of(Q[pp]), Mid(x) PROVE child(Q[pp], x) \in fresh
    BY <1>1, <2>2
  <2>3. ASSUME NEW x \in slots_of(Q[pp]), Left(x) \/ Right(x) PROVE child(Q[pp], x) \notin fresh
    BY <1>11, <2>3
  <2>4. s \in Nat /\ t \in Nat
    BY <1>13
  <2>5. CASE Mid(s)
    <3>1. Mid(t)
      BY <1>14, <2>1, <2>2, <2>3, <2>5
    <3>2. s - lo + 1 \in 1..k /\ t - lo + 1 \in 1..k /\ new[s - lo + 1] = new[t - lo + 1]
      BY <1>14, <2>5, <3>1
    <3>3. s - lo + 1 = t - lo + 1
      BY <1>3, <3>2 DEF OneToOne
    <3> QED
      BY ONLY <1>3, <2>4, <3>3
  <2>6. CASE ~Mid(s)
    <3>1. ~Mid(t)
      BY <1>14, <2>1, <2>2, <2>3, <2>6
    <3>2. CASE Left(s) /\ Left(t)
      BY <1>2, <1>14, <3>2 DEF Distinct
    <3>3. CASE Left(s) /\ Right(t)
      <4>1. s = O(t)
        BY <1>2, <1>14, <3>3 DEF Distinct
      <4> QED
        BY <3>3, <4>1
    <3>4. CASE Right(s) /\ Left(t)
      <4>1. t = O(s)
        BY <1>2, <1>14, <3>4 DEF Distinct
      <4> QED
        BY <3>4, <4>1
    <3>5. CASE Right(s) /\ Right(t)
      <4>1. O(s) = O(t)
        BY <1>2, <1>14, <3>5 DEF Distinct
      <4>2. s - k + (hi - lo + 1) = t - k + (hi - lo + 1)
        BY <4>1 DEF O
      <4> QED
        BY ONLY <1>3, <2>4, <4>2
    <3> QED
      BY <2>1, <2>6, <3>1, <3>2, <3>3, <3>4, <3>5
  <2> QED
    BY <2>5, <2>6
<1> QED
  BY <1>2, <1>8, <1>12, <1>14 DEF InPlace, Distinct

LEMMA AllAttached ==
    ASSUME NEW P, NEW Q, NEW root, NEW h, NEW up, NEW H, NEW pp, NEW lo, NEW hi, NEW k, NEW new,
           NEW N, NEW M, NEW h2, NEW up2,
           InGroup(P, Q, root, h, up, H, pp, lo, hi, k, new, N, M, h2, up2), NEW q \in DOMAIN Q, q # root
    PROVE  Attached(Q, h2, up2, q)
<1> DEFINE old == old_pages(P, pp, lo, hi)
           fresh == new_pages(new, k)
<1>1. /\ \A p \in DOMAIN Q \ fresh :
           /\ p \in DOMAIN P \ old /\ h2[p] = h[p] /\ (p # pp => Q[p] = P[p])
           /\ ~(p # root /\ up[p] \in old) => up2[p] = up[p]
           /\ p # root /\ up[p] \in old => up2[p] = new[CHOOSE i \in 1..k : HasChild(N[i], p)]
      /\ \A p \in DOMAIN P \ old : p \in DOMAIN Q \ fresh
      /\ \A i \in 1..k : /\ new[i] \in DOMAIN Q /\ h2[new[i]] = h[pp] - 1 /\ up2[new[i]] = pp
                         /\ Q[new[i]] = N[i] /\ new[i] \in fresh
  BY DEF InGroup, AfterRegroup
<1>2. /\ Tree(P, root, h, up, H) /\ pp \in DOMAIN P /\ h[pp] # 0
      /\ \A c \in old : c # pp /\ up[c] = pp /\ h[c] = h[pp] - 1 /\ c \in DOMAIN P
  BY DEF InGroup, GroupPlaces
<1>3. /\ \A i \in 1..k : HasChild(Q[pp], new[i])
      /\ \A s \in slots_of(P[pp]) : s \notin lo..hi => HasChild(Q[pp], child(P[pp], s))
  BY KidsOfParentAre DEF KidsOfParent
<1>4. pp \in DOMAIN Q /\ h2[pp] = h[pp]
  BY ParentInPlace
<1>5. \A p \in DOMAIN P : p # root /\ up[p] \in old => \E i \in 1..k : HasChild(N[i], p)
  BY DEF InGroup, GroupKids
<1>6. \A s \in lo..hi : child(P[pp], s) \in old
  BY DEF old_pages
<1>7. \A p \in fresh : \E i \in 1..k : p = new[i]
  BY DEF new_pages
<1> HIDE DEF old, fresh
<1>8. ASSUME HasChild(Q[up2[q]], q), up2[q] \in DOMAIN Q, h2[up2[q]] # 0 PROVE Attached(Q, h2, up2, q)
  BY <1>8 DEF Attached, HasChild
<1>9. CASE q \in fresh
  <2>1. up2[q] = pp /\ HasChild(Q[pp], q)
    BY <1>1, <1>3, <1>7, <1>9
  <2> QED
    BY <1>2, <1>4, <1>8, <2>1
<1>10. CASE q \notin fresh
  <2>1. q \in DOMAIN P \ old /\ q # root
    BY <1>1, <1>10
  <2>2. up[q] \in DOMAIN P /\ IsBelow(P, root, h, up, q, up[q])
        /\ \E s \in slots_of(P[up[q]]) : child(P[up[q]], s) = q
    BY <1>2, <2>1, IsBelowUp
  <2>3. h[up[q]] # 0
    BY <2>2 DEF IsBelow
  <2>4. CASE up[q] \in old
    <3> DEFINE i == CHOOSE j \in 1..k : HasChild(N[j], q)
    <3>1. i \in 1..k /\ HasChild(N[i], q)
      BY <1>5, <2>1, <2>4
    <3>2. up2[q] = new[i]
      BY <1>1, <1>10, <2>1, <2>4
    <3> HIDE DEF i
    <3>3. up2[q] \in DOMAIN Q /\ HasChild(Q[up2[q]], q) /\ h2[up2[q]] # 0
      BY <1>1, <1>2, <2>3, <2>4, <3>1, <3>2
    <3> QED
      BY <1>8, <3>3
  <2>5. CASE up[q] = pp
    <3>1. PICK s \in slots_of(P[pp]) : child(P[pp], s) = q
      BY <2>2, <2>5
    <3>2. s \notin lo..hi
      BY <1>6, <2>1, <3>1
    <3>3. HasChild(Q[pp], q)
      BY <1>3, <3>1, <3>2
    <3>4. up2[q] = pp
      BY <1>1, <1>2, <1>10, <2>1, <2>5
    <3> QED
      BY <1>2, <1>4, <1>8, <3>3, <3>4
  <2>6. CASE up[q] \notin old /\ up[q] # pp
    <3>1. up2[q] = up[q]
      BY <1>1, <1>10, <2>6
    <3>2. up[q] \in DOMAIN Q \ fresh /\ Q[up[q]] = P[up[q]] /\ h2[up[q]] = h[up[q]]
      BY <1>1, <2>2, <2>6
    <3>3. HasChild(Q[up[q]], q)
      BY <2>2, <3>2 DEF HasChild
    <3> QED
      BY <1>8, <2>3, <3>1, <3>2, <3>3
  <2> QED
    BY <2>4, <2>5, <2>6
<1> QED
  BY <1>9, <1>10

(* Pages as high as the parent of the group, or higher, stay in place.     *)
SameAbove(P, Q, h, up, h2, up2, root, level) ==
    \A q \in DOMAIN P : h[q] >= level =>
        /\ q \in DOMAIN Q /\ h2[q] = h[q]
        /\ q # root => up2[q] = up[q]

LEMMA GroupKeepsTree ==
    ASSUME NEW P, NEW Q, NEW root, NEW h, NEW up, NEW H, NEW pp, NEW lo, NEW hi, NEW k, NEW new,
           NEW N, NEW M, NEW h2, NEW up2,
           InGroup(P, Q, root, h, up, H, pp, lo, hi, k, new, N, M, h2, up2), DOMAIN h2 = DOMAIN Q,
           h2 = [q \in DOMAIN Q |-> h2[q]]
    PROVE  Tree(Q, root, h2, up2, H) /\ SameAbove(P, Q, h, up, h2, up2, root, h[pp])
<1> DEFINE old == old_pages(P, pp, lo, hi)
           fresh == new_pages(new, k)
<1>1. /\ \A p \in DOMAIN Q \ fresh :
           /\ p \in DOMAIN P \ old /\ h2[p] = h[p] /\ (p # pp => Q[p] = P[p])
           /\ ~(p # root /\ up[p] \in old) => up2[p] = up[p]
      /\ \A p \in DOMAIN P \ old : p \in DOMAIN Q \ fresh
      /\ \A i \in 1..k : /\ new[i] \in DOMAIN Q /\ h2[new[i]] = h[pp] - 1
                         /\ Q[new[i]] = N[i] /\ new[i] \in fresh
  BY DEF InGroup, AfterRegroup
<1>2. /\ Tree(P, root, h, up, H) /\ pp \in DOMAIN P /\ h[pp] # 0
      /\ \A c \in old : c \in DOMAIN P /\ c # root /\ h[c] = h[pp] - 1
      /\ \A c \in fresh : c \in Nat
  BY DEF InGroup, GroupPlaces
<1>3. /\ DOMAIN Q = (DOMAIN P \ old) \union fresh /\ k \in Nat
      /\ \A i \in 1..k : N[i] \in FlatNode
  BY DEF InGroup, Regrouping, KidsShared
<1>4. IsFiniteSet(fresh)
  <2>1. IsFiniteSet(1..k)
    <3>1. 1 \in Int /\ k \in Int
      BY <1>3
    <3> QED
      BY <3>1, FS_Interval
  <2>2. new \in [1..k -> Nat]
    BY DEF InGroup, Regrouping
  <2>3. \A i \in 1..k : new[i] \in fresh
    BY <1>1
  <2>4. \A c \in fresh : \E i \in 1..k : new[i] = c
    BY DEF new_pages
  <2> HIDE DEF fresh
  <2>5. new \in [1..k -> fresh]
    BY <2>2, <2>3
  <2>6. new \in Surjection(1..k, fresh)
    BY <2>4, <2>5 DEF Surjection
  <2> QED
    BY <2>1, <2>6, FS_Surjection
<1>5. \A p \in fresh : \E i \in 1..k : p = new[i]
  BY DEF new_pages
<1> HIDE DEF old, fresh
<1>6. /\ IsFiniteSet(DOMAIN P) /\ root \in DOMAIN P
      /\ \A p \in DOMAIN P : p \in Nat /\ P[p] \in FlatNode
      /\ H \in Nat /\ h \in [DOMAIN P -> 0..H]
  BY <1>2 DEF Tree
<1>7. IsFiniteSet(DOMAIN Q)
  <2>1. IsFiniteSet(DOMAIN P \ old)
    BY <1>6, FS_Difference
  <2> QED
    BY <1>3, <1>4, <2>1, FS_Union
<1>8. root \in DOMAIN Q
  BY <1>1, <1>2, <1>6
<1>9. ASSUME NEW p \in DOMAIN Q
      PROVE  p \in Nat /\ Q[p] \in FlatNode /\ h2[p] \in 0..H /\ InPlace(Q, root, h2, up2, p)
  <2>1. CASE p \in fresh
    <3>1. PICK i \in 1..k : p = new[i]
      BY <1>5, <2>1
    <3>2. h[pp] - 1 \in 0..H
      BY <1>2, <1>6
    <3>3. InPlace(Q, root, h2, up2, new[i])
      BY NewPageInPlace
    <3> QED
      BY <1>1, <1>2, <1>3, <2>1, <3>1, <3>2, <3>3
  <2>2. CASE p = pp
    <3>1. h2[pp] = h[pp] /\ InPlace(Q, root, h2, up2, pp)
      BY ParentInPlace
    <3>2. Q[pp] \in FlatNode
      BY KidsOfParentAre DEF KidsOfParent
    <3> QED
      BY <1>2, <1>6, <2>2, <3>1, <3>2
  <2>3. CASE p \notin fresh /\ p # pp
    <3>1. InPlace(Q, root, h2, up2, p)
      BY <2>3, OtherPageInPlace DEF fresh
    <3> QED
      BY <1>1, <1>6, <2>3, <3>1
  <2> QED
    BY <2>1, <2>2, <2>3
<1>10. h2 \in [DOMAIN Q -> 0..H]
  BY <1>9
<1>11. \A q \in DOMAIN Q \ {root} : Attached(Q, h2, up2, q)
  BY AllAttached
<1>12. ASSUME NEW q \in DOMAIN P, h[q] >= h[pp]
       PROVE  q \in DOMAIN Q /\ h2[q] = h[q] /\ (q # root => up2[q] = up[q])
  <2>1. h[q] \in Nat /\ h[pp] \in Nat
    BY <1>2, <1>6
  <2>2. q \notin old
    BY <1>2, <1>12, <2>1
  <2>3. q \in DOMAIN Q \ fresh /\ h2[q] = h[q]
    BY <1>1, <2>2
  <2>4. ASSUME q # root PROVE up[q] \notin old
    <3>1. IsBelow(P, root, h, up, q, up[q]) /\ up[q] \in DOMAIN P
      BY <1>2, <2>4, IsBelowUp
    <3>2. h[q] = h[up[q]] - 1 /\ h[up[q]] \in Nat
      BY <1>6, <3>1 DEF IsBelow
    <3> QED
      BY <1>2, <1>12, <2>1, <3>2
  <2> QED
    BY <1>1, <2>3, <2>4
<1> QED
  BY <1>6, <1>7, <1>8, <1>9, <1>10, <1>11, <1>12 DEF Tree, SameAbove

LEMMA RegroupKeepsTree ==
    ASSUME NEW P, NEW Q, NEW root, NEW h, NEW up, NEW H, Tree(P, root, h, up, H),
           NEW pp \in DOMAIN P, h[pp] # 0, NEW lo, NEW hi, NEW k, NEW new, NEW N, NEW M,
           Regrouping(P, Q, pp, lo, hi, k, new, N, M)
    PROVE  \E h2, up2 : Tree(Q, root, h2, up2, H) /\ SameAbove(P, Q, h, up, h2, up2, root, h[pp])
<1> DEFINE h2 == heights_after(Q, h, pp, k, new)
           up2 == ups_after(P, Q, root, up, pp, lo, hi, k, new, N)
<1>1. GroupPlaces(P, root, h, up, pp, lo, hi, k, new)
  BY GroupIsBelow
<1>2. GroupKids(P, root, h, up, pp, lo, hi, k, new, N)
  BY <1>1, GroupKidsAre
<1>3. AfterRegroup(P, Q, root, h, up, pp, lo, hi, k, new, N, h2, up2)
  BY <1>1, AfterRegroupIs
<1>4. DOMAIN h2 = DOMAIN Q /\ h2 = [q \in DOMAIN Q |-> h2[q]]
  BY DEF heights_after
<1> HIDE DEF h2, up2
<1>5. InGroup(P, Q, root, h, up, H, pp, lo, hi, k, new, N, M, h2, up2)
  BY <1>1, <1>2, <1>3 DEF InGroup
<1>6. Tree(Q, root, h2, up2, H) /\ SameAbove(P, Q, h, up, h2, up2, root, h[pp])
  BY <1>4, <1>5, GroupKeepsTree
<1> QED
  BY <1>6

(* A way down to a page in place is one of the new pages.                  *)
LEMMA SameWayDown ==
    ASSUME NEW P, NEW Q, NEW root, NEW h, NEW up, NEW H, Tree(P, root, h, up, H),
           NEW path, NEW page, Descends(P, root, h, up, root, path, page),
           NEW h2, NEW up2, SameAbove(P, Q, h, up, h2, up2, root, h[page])
    PROVE  Descends(Q, root, h2, up2, root, path, page)
<1> DEFINE n == Len(path)
           On(i) == on_path(path, page, i)
<1>1. /\ path \in Seq(DOMAIN P) /\ page \in DOMAIN P
      /\ On(1) = root
      /\ \A i \in 1..(n + 1) : h[On(i)] + (i - 1) = h[root]
      /\ \A i \in 1..n : On(i + 1) # root /\ up[On(i + 1)] = path[i]
  BY DEF Descends
<1>2. n \in Nat
  BY <1>1
<1>3. ASSUME NEW i \in 1..(n + 1) PROVE On(i) \in DOMAIN P
  BY <1>1, <1>2 DEF on_path
<1>4. On(n + 1) = page /\ \A i \in 1..n : On(i) = path[i]
  BY <1>2 DEF on_path
<1>5. \A p \in DOMAIN P : h[p] \in Nat
  BY TreeNode
<1> HIDE DEF n, On
<1>6. h[page] + n = h[root]
  <2>1. n + 1 \in 1..(n + 1) /\ (n + 1) - 1 = n
    BY <1>2
  <2> QED
    BY <1>1, <1>4, <2>1
<1>7. ASSUME NEW i \in 1..(n + 1)
      PROVE  On(i) \in DOMAIN Q /\ h2[On(i)] = h[On(i)] /\ (On(i) # root => up2[On(i)] = up[On(i)])
  <2> DEFINE a == h[On(i)]
             b == h[page]
             c == h[root]
  <2>1. a + (i - 1) = c /\ b + n = c /\ a \in Nat /\ b \in Nat /\ c \in Nat
    <3>1. 1 \in 1..(n + 1)
      BY <1>2
    <3> QED
      BY <1>1, <1>3, <1>5, <1>6, <3>1
  <2> HIDE DEF a, b, c
  <2>2. a >= b
    BY ONLY <1>2, <2>1, i \in 1..(n + 1)
  <2> QED
    BY <1>3, <2>2 DEF SameAbove, a, b
<1>8. /\ \A i \in 1..(n + 1) : h2[On(i)] + (i - 1) = h2[root]
      /\ \A i \in 1..n : On(i + 1) # root /\ up2[On(i + 1)] = path[i]
  <2>1. 1 \in 1..(n + 1) /\ \A i \in 1..n : i + 1 \in 1..(n + 1)
    BY <1>2
  <2>2. h2[root] = h[root]
    BY <1>1, <1>7, <2>1
  <2> QED
    BY <1>1, <1>7, <2>1, <2>2
<1>9. path \in Seq(DOMAIN Q) /\ page \in DOMAIN Q
  <2>1. \A i \in 1..n : path[i] \in DOMAIN Q
    <3>1. \A i \in 1..n : i \in 1..(n + 1)
      BY <1>2
    <3> QED
      BY <1>4, <1>7, <3>1
  <2>2. path \in Seq(DOMAIN Q)
    BY <1>1, <2>1 DEF n
  <2>3. n + 1 \in 1..(n + 1)
    BY <1>2
  <2> QED
    BY <1>4, <1>7, <2>2, <2>3
<1> QED
  BY <1>1, <1>8, <1>9 DEF Descends, n, On

(* The parent of the page that a call has come to.                         *)
LEMMA CameFrom ==
    ASSUME NEW P, NEW root, NEW h, NEW up, NEW H, Tree(P, root, h, up, H),
           NEW path, NEW page, Descends(P, root, h, up, root, path, page), path # <<>>
    PROVE  /\ Last(path) \in DOMAIN P /\ page # root
           /\ IsBelow(P, root, h, up, page, Last(path))
           /\ \E s \in slots_of(P[Last(path)]) : child(P[Last(path)], s) = page
           /\ Descends(P, root, h, up, root, Front(path), Last(path))
<1> DEFINE n == Len(path)
<1>1. path \in Seq(DOMAIN P) /\ page \in DOMAIN P
  BY DEF Descends
<1>2. n \in Nat /\ n # 0 /\ n \in 1..n /\ Last(path) = path[n] /\ Front(path) = SubSeq(path, 1, n - 1)
  BY <1>1 DEF Last, Front
<1>3. Descends(P, root, h, up, root, SubSeq(path, 1, n - 1), path[n])
  BY <1>2, DescendLess
<1>4. on_path(path, page, n + 1) = page /\ page # root /\ up[page] = path[n]
  <2>1. on_path(path, page, n + 1) = page
    BY DEF on_path
  <2>2. on_path(path, page, n + 1) # root /\ up[on_path(path, page, n + 1)] = path[n]
    BY <1>2 DEF Descends
  <2> QED
    BY <2>1, <2>2
<1> QED
  BY <1>1, <1>2, <1>3, <1>4, IsBelowUp

-----------------------------------------------------------------------------
(* No page is left without a cell when there is more than one.             *)

NoneIsNothing(cells) == \A j \in 1..Len(cells) : storage_size(cells[j]) >= 1

LEMMA FilledPagesHaveCells ==
    ASSUME NEW cells, NEW B, NEW U, NEW H, Modest(cells, B, U, H), H = geo.usable_space \div 2,
           OneSize(cells), NoneIsNothing(cells), NEW k \in Nat, k >= 2,
           NEW d, FillsPage(d, cells, B, k, 2, U, H)
    PROVE  \E m : /\ fill_first_page(d).n = m /\ m \in [1..k -> Nat]
                  /\ \A i \in 1..k : m[i] # 0
<1> DEFINE N == Len(cells)
<1>1. PICK n, s, v, e : d = Share(n, s, v, TRUE) /\ Filling(k, n, s, e, 2, B, N, U, H) /\ ~Wanting(s, 2, H)
  BY DEF FillsPage
<1>2. /\ n \in [1..k -> Nat] /\ s \in [1..k -> Nat] /\ Parts(k, n, e, N)
      /\ \A i \in 1..k : s[i] = B[e[i] + n[i]] - B[e[i]] /\ s[i] <= U
      /\ B[e[3] - 1] - B[e[1]] > U
      /\ \A i \in 3..k : s[i] >= H
      /\ s[2] >= H
  <2>1. 2 + 1 = 3 /\ 2 - 1 = 1
    OBVIOUS
  <2> QED
    BY <1>1, <2>1 DEF Filling, Parts, Weighs, Wanting
<1>3. /\ e \in [1..(k + 1) -> 0..(N + 1)] /\ e[1] = 0 /\ e[k + 1] = N + 1
      /\ \A i \in 1..k : e[i + 1] = e[i] + n[i] + 1
      /\ \A a, b \in 1..(k + 1) : a < b => e[a] < e[b]
  BY <1>2 DEF Parts
<1>4. /\ N \in Nat /\ B \in [0..N -> Nat] /\ SizedCells(cells) /\ Sums(B, cells) /\ U \in Nat /\ H \in Nat
      /\ H + H <= U /\ \A j \in 1..N : storage_size(cells[j]) <= H
  BY DEF Modest, SizedCells, Sums
<1>5. 1 \in 1..k /\ 2 \in 1..k /\ 1 \in 1..(k + 1) /\ 2 \in 1..(k + 1) /\ 3 \in 1..(k + 1)
  OBVIOUS
<1>6. n[1] \in Nat /\ n[2] \in Nat /\ s[1] \in Nat /\ s[2] \in Nat
  BY <1>2, <1>5
<1>7. e[2] = n[1] + 1 /\ e[3] = e[2] + n[2] + 1 /\ e[3] <= N + 1
  <2>1. 1 + 1 = 2 /\ 2 + 1 = 3 /\ 0 + n[1] = n[1]
    BY <1>6
  <2>2. e[1 + 1] = e[1] + n[1] + 1 /\ e[2 + 1] = e[2] + n[2] + 1 /\ e[3] \in 0..(N + 1)
    BY <1>3, <1>5
  <2> QED
    BY <1>3, <1>4, <2>1, <2>2
<1> HIDE DEF N
<1>8. 1 \in 1..N /\ H >= 1
  <2>1. 1 \in 1..N
    BY ONLY <1>4, <1>6, <1>7
  <2>2. storage_size(cells[1]) >= 1 /\ storage_size(cells[1]) <= H
    BY <1>4, <2>1 DEF NoneIsNothing, N
  <2>3. storage_size(cells[1]) \in Nat
    BY <1>4, <2>1 DEF SizedCells, N
  <2> QED
    BY <1>4, <2>1, <2>2, <2>3
<1>9. ASSUME NEW i \in 1..k, s[i] >= H PROVE n[i] # 0
  <2>1. SUFFICES ASSUME n[i] = 0 PROVE FALSE
    OBVIOUS
  <2>2. e[i] \in 0..N /\ e[i] + 0 = e[i]
    <3>1. e[i] \in 0..N /\ e[i] + n[i] \in e[i]..N /\ e[i] \in Nat
      BY <1>2, <1>4, PlacesOfPart
    <3> QED
      BY <3>1
  <2>3. B[e[i]] \in Nat /\ s[i] = B[e[i]] - B[e[i]]
    BY <1>2, <1>4, <2>1, <2>2
  <2> QED
    BY <1>4, <1>8, <1>9, <2>3
<1>10. \A i \in 1..k : i # 1 => n[i] # 0
  <2>1. ASSUME NEW i \in 1..k, i # 1 PROVE s[i] >= H
    <3>1. i = 2 \/ i \in 3..k
      BY <2>1
    <3> QED
      BY <1>2, <3>1
  <2> QED
    BY <1>9, <2>1
<1>11. Len(n) = k /\ d.n = n /\ d.size = s /\ d.ok = TRUE
  BY <1>1, <1>2, LenOf DEF Share
<1>12. CASE s[1] >= H
  <2>1. fill_first_page(d) = d
    BY <1>11, <1>12 DEF fill_first_page
  <2>2. \A i \in 1..k : n[i] # 0
    BY <1>5, <1>9, <1>10, <1>12
  <2> QED
    BY <1>2, <1>11, <2>1, <2>2
<1>13. CASE ~(s[1] >= H)
  <2>1. n[2] # 0
    BY <1>5, <1>10
  <2> DEFINE m == [n EXCEPT ![1] = @ + 1, ![2] = @ - 1]
  <2>2. fill_first_page(d).n = m
    <3>1. ~(Len(n) = 1) /\ ~(s[1] >= geo.usable_space \div 2)
      BY <1>11, <1>13
    <3>2. fill_first_page(d) = [d EXCEPT !.n[1] = @ + 1, !.n[2] = @ - 1]
      BY <1>11, <2>1, <3>1 DEF fill_first_page
    <3> QED
      BY <1>1, <3>2 DEF Share
  <2>3. m \in [1..k -> Nat] /\ m[1] = n[1] + 1 /\ m[2] = n[2] - 1
        /\ \A i \in 1..k : i # 1 /\ i # 2 => m[i] = n[i]
    <3>1. n[1] + 1 \in Nat /\ n[2] - 1 \in Nat
      BY ONLY <1>6, <2>1
    <3>2. m \in [1..k -> Nat]
      BY <1>2, <3>1
    <3>3. m[1] = n[1] + 1 /\ m[2] = n[2] - 1
      BY <1>2, <1>5
    <3>4. \A i \in 1..k : i # 1 /\ i # 2 => m[i] = n[i]
      BY <1>2
    <3> QED
      BY <3>2, <3>3, <3>4
  <2> HIDE DEF m
  <2>4. n[2] # 1
    <3>1. SUFFICES ASSUME n[2] = 1 PROVE FALSE
      OBVIOUS
    <3> DEFINE x == e[2]
    <3>2. x \in 1..N /\ x + 1 \in 1..N /\ x \in 0..N /\ x + 1 \in 0..N /\ x - 1 \in 0..N /\ x = n[1] + 1
          /\ e[2] + n[2] = x + 1 /\ e[3] - 1 = x + 1 /\ (x + 1) - 1 = x /\ x - 1 = n[1]
      <4> DEFINE y == n[1]
                 z == e[3]
      <4>1. y \in Nat /\ x = y + 1 /\ z = x + 1 + 1 /\ z <= N + 1 /\ N \in Nat
        BY <1>4, <1>6, <1>7, <3>1
      <4> HIDE DEF x, y, z
      <4>2. x \in 1..N /\ x + 1 \in 1..N /\ x \in 0..N /\ x + 1 \in 0..N /\ x - 1 \in 0..N
            /\ z - 1 = x + 1 /\ (x + 1) - 1 = x /\ x - 1 = y
        BY ONLY <4>1
      <4>3. e[2] + n[2] = x + 1
        BY <3>1 DEF x
      <4> QED
        BY <4>1, <4>2, <4>3 DEF y, z
    <3> HIDE DEF x
    <3>3. B[x + 1] = B[x] + storage_size(cells[x + 1]) /\ B[x] = B[x - 1] + storage_size(cells[x])
          /\ B[0] = 0
      BY <1>4, <3>2 DEF Sums, N
    <3>4. s[2] = B[x + 1] - B[x]
      BY <1>2, <1>5, <3>2 DEF x
    <3> DEFINE c == storage_size(cells[1])
    <3>5. storage_size(cells[x + 1]) = c /\ storage_size(cells[x]) = c
      BY <1>8, <3>2 DEF OneSize, N
    <3>6. c \in Nat /\ c <= H
      BY <1>4, <1>8 DEF SizedCells, N
    <3>7. B[x] \in Nat /\ B[x - 1] \in Nat /\ B[x + 1] \in Nat
      BY <1>4, <3>2
    <3> HIDE DEF c
    <3>8. c = H
      <4> DEFINE a == B[x]
                 b == B[x + 1]
      <4>1. a \in Nat /\ b = a + c /\ s[2] = b - a
        BY <3>3, <3>4, <3>5, <3>7
      <4> HIDE DEF a, b
      <4>2. s[2] = c
        BY ONLY <3>6, <4>1
      <4>3. s[2] >= H
        BY <1>2
      <4> QED
        BY ONLY <1>4, <3>6, <4>2, <4>3
    <3>9. n[1] = 0
      <4>1. SUFFICES ASSUME n[1] # 0 PROVE FALSE
        OBVIOUS
      <4>2. 1 <= n[1] /\ n[1] \in 0..N /\ 1 \in 0..N /\ 0 \in 0..N
        <5> DEFINE y == n[1]
        <5>1. y \in Nat /\ y # 0 /\ x \in 1..N /\ x = y + 1 /\ N \in Nat
          BY <1>4, <1>6, <3>2, <4>1
        <5> HIDE DEF y
        <5>2. 1 <= y /\ y \in 0..N /\ 1 \in 0..N /\ 0 \in 0..N
          BY ONLY <5>1
        <5> QED
          BY <5>2 DEF y
      <4>3. B[1] <= B[n[1]]
        BY <1>4, <4>2, SumsGrow DEF N
      <4>4. B[1] = B[1 - 1] + c
        BY <1>4, <1>8 DEF Sums, N, c
      <4>5. 1 - 1 = 0 /\ 0 + c = c /\ 0 + n[1] = n[1]
        BY <1>6, <3>6
      <4>6. s[1] = B[n[1]] - B[0]
        BY <1>2, <1>3, <1>5, <4>5
      <4>7. B[1] \in Nat /\ B[n[1]] \in Nat /\ B[0] = 0
        BY <1>4, <3>3, <4>2
      <4> QED
        BY ONLY <1>4, <1>6, <1>13, <3>6, <3>8, <4>3, <4>4, <4>5, <4>6, <4>7
    <3>10. B[x + 1] = c + c
      <4>1. x = 1 /\ x - 1 = 0
        BY <3>2, <3>9
      <4> QED
        BY <3>3, <3>5, <3>6, <4>1
    <3>11. B[x + 1] - B[0] > U
      BY <1>2, <1>3, <3>2
    <3> QED
      BY ONLY <1>4, <3>3, <3>6, <3>8, <3>10, <3>11
  <2>5. m[1] # 0 /\ m[2] # 0
    BY ONLY <1>6, <2>1, <2>3, <2>4
  <2>6. \A i \in 1..k : m[i] # 0
    BY <1>10, <2>3, <2>5
  <2> QED
    BY <2>2, <2>3, <2>6
<1> QED
  BY <1>12, <1>13

LEMMA PagesHaveCells ==
    ASSUME NEW cells, HalfAPage(cells), OneSize(cells), NoneIsNothing(cells),
           Len(distribution(cells).n) >= 2, NEW i \in 1..Len(distribution(cells).n)
    PROVE  distribution(cells).n[i] # 0
<1> DEFINE U == geo.usable_space
           H == geo.usable_space \div 2
           left == left_biased(cells)
<1>1. U \in Nat /\ H \in Nat /\ H + H <= U /\ SizedCells(cells)
  BY DEF HalfAPage
<1>2. PICK B : Sums(B, cells)
  BY <1>1, SumsExist
<1>3. Modest(cells, B, U, H)
  BY <1>1, <1>2 DEF Modest, HalfAPage
<1>4. PICK k : /\ k \in Nat /\ k >= 1 /\ Len(left.n) = k
               /\ FilledTo(fill_last_pages(cells, left, k), cells, B, k, 1, U, H)
               /\ k >= 2 => FillsPage(fill_last_pages(cells, left, k), cells, B, k, 2, U, H)
  BY <1>2, LastPagesFit
<1>5. distribution(cells) = fill_first_page(fill_last_pages(cells, left, Len(left.n)))
  BY DEF distribution, balanced
<1>6. H = geo.usable_space \div 2
  OBVIOUS
<1> HIDE DEF U, H, left
<1> DEFINE r == fill_last_pages(cells, left, k)
<1>7. distribution(cells) = fill_first_page(r)
  BY <1>4, <1>5
<1>8. k >= 2 => FillsPage(r, cells, B, k, 2, U, H)
  BY <1>4
<1> HIDE DEF r
<1>9. CASE k >= 2
  <2>1. PICK m : /\ fill_first_page(r).n = m /\ m \in [1..k -> Nat]
                 /\ \A j \in 1..k : m[j] # 0
    BY <1>3, <1>4, <1>6, <1>8, <1>9, FilledPagesHaveCells
  <2>2. Len(m) = k
    BY <1>4, <2>1, LenOf
  <2>3. distribution(cells).n = m
    BY <1>7, <2>1
  <2>4. i \in 1..k
    BY <2>2, <2>3
  <2> QED
    BY <2>1, <2>3, <2>4
<1>10. CASE ~(k >= 2)
  <2>1. k = 1
    BY <1>4, <1>10
  <2>2. FilledTo(r, cells, B, k, 1, U, H)
    BY <1>4 DEF r
  <2>3. PICK n, s, v, e : r = Share(n, s, v, TRUE) /\ n \in [1..k -> Nat]
    BY <2>2 DEF FilledTo, HalfFrom, Parts
  <2>4. r.n = n /\ Len(r.n) = 1
    <3>1. r.n = n
      BY <2>3 DEF Share
    <3>2. Len(n) = k
      BY <1>4, <2>3, LenOf
    <3> QED
      BY <2>1, <3>1, <3>2
  <2>5. fill_first_page(r) = r
    BY <2>4 DEF fill_first_page
  <2>6. Len(distribution(cells).n) = 1
    BY <1>7, <2>4, <2>5
  <2>7. Len(distribution(cells).n) >= 2
    OBVIOUS
  <2>8. FALSE
    BY ONLY <2>6, <2>7
  <2> QED
    BY <2>8
<1> QED
  BY <1>9, <1>10

-----------------------------------------------------------------------------
(* What regroup() does to a group of the tree.                             *)

LEMMA FamilyOfTree ==
    ASSUME NEW P, NEW root, NEW h, NEW up, NEW H, Tree(P, root, h, up, H), NEW pp \in DOMAIN P, h[pp] # 0,
           NEW page, \E s \in slots_of(P[pp]) : child(P[pp], s) = page
    PROVE  /\ Family(P, pp, page) /\ P[pp] \in FlatNode /\ Len(P[pp].cells) \in Nat
           /\ \A s \in slots_of(P[pp]) : /\ child(P[pp], s) \in DOMAIN P /\ child(P[pp], s) \in Nat
                                         /\ child(P[pp], s) # pp /\ P[child(P[pp], s)] \in FlatNode
           /\ Distinct(P[pp])
<1>1. IsFiniteSet(DOMAIN P) /\ \A p \in DOMAIN P : p \in Nat /\ P[p] \in FlatNode
  BY DEF Tree
<1>2. Len(P[pp].cells) \in Nat /\ InPlace(P, root, h, up, pp) /\ h[pp] \in Nat
  BY TreeNode
<1>3. ASSUME NEW s \in slots_of(P[pp])
      PROVE  child(P[pp], s) \in DOMAIN P /\ child(P[pp], s) # pp
  <2>1. IsBelow(P, root, h, up, child(P[pp], s), pp)
    BY <1>2 DEF InPlace
  <2> DEFINE c == child(P[pp], s)
  <2>2. c \in DOMAIN P /\ h[c] = h[pp] - 1
    BY <2>1 DEF IsBelow
  <2> HIDE DEF c
  <2>3. c # pp
    BY <1>2, <2>2
  <2> QED
    BY <2>2, <2>3 DEF c
<1>4. FlatNode \subseteq NodeType
  BY FlatCellsAreCells
<1>5. Distinct(P[pp])
  BY <1>2 DEF InPlace
<1>6. slots_of(P[pp]) = 1..(Len(P[pp].cells) + 1)
  BY DEF slots_of
<1> HIDE DEF FlatNode, NodeType
<1>7. Family(P, pp, page)
  BY <1>1, <1>3, <1>4, <1>6 DEF Family
<1> QED
  BY <1>1, <1>2, <1>3, <1>5, <1>7

(* The group is of the page and, unless it has none, a sibling.            *)
LEMMA SlotsHoldPage ==
    ASSUME geo \in Geometries, NEW parent, Len(parent.cells) \in Nat, NEW page,
           \E s \in slots_of(parent) : child(parent, s) = page,
           NEW lo \in Nat, NEW hi \in Nat, load_siblings(parent, page) = lo..hi
    PROVE  /\ \E s \in lo..hi : child(parent, s) = page
           /\ lo = hi => Len(parent.cells) = 0
<1> DEFINE last == Len(parent.cells) + 1
           at == CHOOSE s \in 1..last : child(parent, s) = page
           per == geo.siblings_per_side
           side == IF at \in {1, last} THEN 2 * per ELSE per
<1>1. load_siblings(parent, page) = Max2(1, at - side)..Min2(at + side, last)
  BY DEF load_siblings
<1>2. \E s \in 1..last : child(parent, s) = page
  BY DEF slots_of
<1>3. last \in Nat /\ last >= 1 /\ (last = 1 => Len(parent.cells) = 0)
  OBVIOUS
<1> HIDE DEF last
<1>4. at \in 1..last /\ child(parent, at) = page
  BY <1>2
<1> HIDE DEF at
<1>5. per \in Nat /\ per >= 1
  BY GeometriesAssumption
<1> HIDE DEF per
<1>6. side \in Nat /\ side >= 1
  BY <1>5
<1> HIDE DEF side
<1>7. at \in Max2(1, at - side)..Min2(at + side, last)
  BY ONLY <1>3, <1>4, <1>6 DEF Max2, Min2
<1>8. at \in lo..hi
  BY <1>1, <1>7
<1>9. ASSUME lo = hi PROVE last = 1
  <2>1. SUFFICES ASSUME last # 1 PROVE FALSE
    OBVIOUS
  <2>2. \E t \in Max2(1, at - side)..Min2(at + side, last) : t # at
    <3>1. CASE at = 1
      <4>1. 2 \in Max2(1, at - side)..Min2(at + side, last) /\ 2 # at
        BY ONLY <1>3, <1>6, <2>1, <3>1 DEF Max2, Min2
      <4> QED
        BY <4>1
    <3>2. CASE at # 1
      <4>1. at - 1 \in Max2(1, at - side)..Min2(at + side, last) /\ at - 1 # at
        BY ONLY <1>3, <1>4, <1>6, <3>2 DEF Max2, Min2
      <4> QED
        BY <4>1
    <3> QED
      BY <3>1, <3>2
  <2>3. PICK t \in lo..hi : t # at
    BY <1>1, <2>2
  <2> QED
    BY ONLY <1>8, <1>9, <2>3, lo \in Nat, hi \in Nat
<1> QED
  BY <1>3, <1>4, <1>8, <1>9

(* Two siblings have a divider between them.                               *)
LEMMA GroupTakesDivider ==
    ASSUME NEW pgs, NEW parent, NEW lo, NEW hi, FlatSiblings(pgs, parent, lo, hi), lo # hi
    PROVE  Len(in_order(pgs, parent, lo..hi)) # 0
<1>1. /\ parent \in FlatNode /\ lo \in Nat /\ hi \in Nat /\ lo <= hi /\ 1 <= lo /\ hi <= Len(parent.cells) + 1
      /\ \A s \in lo..hi : pgs[child(parent, s)] \in FlatNode
  BY DEF FlatSiblings
<1>2. Siblings(pgs, parent, lo, hi)
  <2>1. FlatNode \subseteq NodeType
    BY FlatCellsAreCells
  <2> HIDE DEF FlatNode, NodeType
  <2> QED
    BY <1>1, <2>1 DEF Siblings
<1>3. PICK f : /\ InSlots(f, pgs, parent, lo, hi) /\ in_order(pgs, parent, lo..hi) = f[hi]
               /\ \A s \in lo..hi : f[s] \in Seq(CellType)
  BY <1>2, CellsInSlots
<1>4. hi \in (lo + 1)..hi /\ hi - 1 \in lo..hi /\ hi \in lo..hi
  BY <1>1
<1> DEFINE a == f[hi - 1]
           b == pgs[child(parent, hi)].cells
           d == divider(pgs, parent, hi)
<1>5. f[hi] = Append(a, d) \o b
  BY <1>3, <1>4 DEF InSlots
<1>6. a \in Seq(CellType) /\ b \in Seq(FlatCell) /\ f[hi] \in Seq(CellType)
  BY <1>1, <1>3, <1>4 DEF FlatNode
<1> HIDE DEF a, b, d, FlatCell, CellType
<1>7. Append(a, d) \in Seq(CellType \union {d}) /\ Len(Append(a, d)) = Len(a) + 1 /\ Len(a) \in Nat
  BY <1>6
<1>8. Len(Append(a, d) \o b) = Len(Append(a, d)) + Len(b) /\ Len(b) \in Nat
  BY <1>6, <1>7
<1> QED
  BY <1>3, <1>5, <1>7, <1>8

(* What balance() shares out of cells in a tree of entries of one length.  *)
SharedOut(d, cells, k, n, e) ==
    /\ d.ok /\ Len(d.n) = k /\ d.n = n /\ k \in Nat /\ k >= 1 /\ n \in [1..k -> Nat]
    /\ Parts(k, n, e, Len(cells)) /\ InTurn(d, cells, e)
    /\ \A i \in 1..k : used_bytes(cells_of(d, cells, e, i)) <= geo.usable_space
    /\ k >= 2 => \A i \in 1..k : n[i] # 0

LEMMA FixedCellsTakeBytes ==
    ASSUME geo \in Geometries, FixedCells(geo), NEW cells \in Seq(FlatCell)
    PROVE  HalfAPage(cells) /\ OneSize(cells) /\ NoneIsNothing(cells) /\ SizedCells(cells)
<1>1. cells \in Seq(CellType)
  <2>1. FlatCell \subseteq CellType
    BY FlatCellsAreCells
  <2> HIDE DEF FlatCell, CellType
  <2> QED
    BY <2>1
<1>2. HalfPages(geo) /\ OneLength(geo) /\ FitsInCells(geo)
  BY DEF FixedCells
<1>3. HalfAPage(cells) /\ OneSize(cells)
  BY <1>1, <1>2, CellsOfTheTree
<1>4. ASSUME NEW j \in 1..Len(cells) PROVE storage_size(cells[j]) >= 1
  <2>1. cells[j] \in FlatCell
    <3> HIDE DEF FlatCell
    <3> QED
      OBVIOUS
  <2>2. cells[j].len \in geo.lens
    BY <2>1 DEF FlatCell
  <2> DEFINE len == cells[j].len
  <2>3. len \in Nat \ {0} /\ len <= geo.max_payload /\ geo.header \in Nat /\ geo.max_payload \in Nat
    BY <1>2, <2>2, GeometriesAssumption DEF FitsInCells
  <2>4. storage_size(cells[j]) = geo.header + Min2(len, geo.max_payload)
    BY DEF storage_size
  <2> HIDE DEF len
  <2>5. Min2(len, geo.max_payload) = len \/ Min2(len, geo.max_payload) = geo.max_payload
    BY DEF Min2
  <2>6. Min2(len, geo.max_payload) \in Nat \ {0}
    BY ONLY <2>3, <2>5
  <2> QED
    BY ONLY <2>3, <2>4, <2>6
<1> QED
  BY <1>3, <1>4 DEF NoneIsNothing, HalfAPage

LEMMA ShareOut ==
    ASSUME geo \in Geometries, FixedCells(geo), NEW cells \in Seq(FlatCell)
    PROVE  \E k, n, e : SharedOut(distribution(cells), cells, k, n, e)
<1> DEFINE d == distribution(cells)
<1>1. HalfAPage(cells) /\ OneSize(cells) /\ NoneIsNothing(cells) /\ SizedCells(cells)
  BY FixedCellsTakeBytes
<1>2. PICK B : Sums(B, cells)
  BY <1>1, SumsExist
<1>3. Fits(d, cells, B, geo.usable_space, geo.usable_space \div 2)
  BY <1>1, <1>2, DistributionFits
<1>4. \A i \in 1..Len(d.n) : Len(d.n) >= 2 => d.n[i] # 0
  <2>1. ASSUME Len(d.n) >= 2, NEW i \in 1..Len(d.n) PROVE d.n[i] # 0
    BY <1>1, <2>1, PagesHaveCells
  <2> QED
    BY <2>1
<1> HIDE DEF d
<1>5. PICK k, n, s, v, e : FitsAs(d, cells, B, k, n, s, v, e, geo.usable_space, geo.usable_space \div 2)
  BY <1>3 DEF Fits
<1>6. /\ d.ok /\ Len(d.n) = k /\ InTurn(d, cells, e) /\ Balanced(d, cells, e)
      /\ d.n = n /\ n \in [1..k -> Nat] /\ k \in Nat
  BY <1>1, <1>2, <1>5, BalancedOf
<1>7. k >= 1 /\ Parts(k, n, e, Len(cells))
  BY <1>5 DEF FitsAs
<1>8. \A i \in 1..k : used_bytes(cells_of(d, cells, e, i)) <= geo.usable_space
  BY <1>6 DEF Balanced
<1>9. k >= 2 => \A i \in 1..k : n[i] # 0
  BY <1>4, <1>6
<1>10. SharedOut(d, cells, k, n, e)
  BY <1>6, <1>7, <1>8, <1>9 DEF SharedOut
<1> QED
  BY <1>10 DEF d

(* The dividers are cells that point at the pages on their left.           *)
PointLeft(d, k, new) == d \in Seq(FlatCell) /\ Len(d) = k - 1 /\ \A i \in 1..(k - 1) : d[i].left = new[i]

LEMMA DividersAre ==
    ASSUME NEW cells \in Seq(FlatCell), NEW k \in Nat, k >= 1, NEW n, NEW e, Parts(k, n, e, Len(cells)),
           NEW new \in [1..k -> Nat], Len(new) = k, NEW d, d = Dividers(cells, e, new)
    PROVE  PointLeft(d, k, new)
<1> DEFINE m == Len(cells)
           D(i) == [cells[e[i + 1]] EXCEPT !.left = new[i]]
<1>1. m \in Nat
  OBVIOUS
<1>2. /\ e \in [1..(k + 1) -> 0..(m + 1)] /\ e[1] = 0 /\ e[k + 1] = m + 1
      /\ \A s, t \in 1..(k + 1) : s < t => e[s] < e[t]
  BY DEF Parts
<1>3. \A j \in 1..m : cells[j] \in FlatCell
  <2> HIDE DEF FlatCell
  <2> QED
    OBVIOUS
<1> HIDE DEF m
<1>4. ASSUME NEW i \in 1..(k - 1) PROVE D(i) \in FlatCell /\ D(i).left = new[i]
  <2>1. /\ 1 \in 1..(k + 1) /\ i + 1 \in 1..(k + 1) /\ k + 1 \in 1..(k + 1) /\ 1 < i + 1 /\ i + 1 < k + 1
        /\ i \in 1..k
    OBVIOUS
  <2>2. e[i + 1] \in 0..(m + 1) /\ 0 < e[i + 1] /\ e[i + 1] < m + 1
    BY <1>2, <2>1
  <2>3. e[i + 1] \in 1..m
    BY ONLY <1>1, <2>2
  <2>4. new[i] \in Nat
    BY <2>1
  <2>5. cells[e[i + 1]] \in FlatCell
    BY <1>3, <2>3
  <2> DEFINE c == cells[e[i + 1]]
             l == new[i]
  <2>6. c \in FlatCell /\ l \in Nat
    BY <2>4, <2>5
  <2> HIDE DEF c, l
  <2>7. [c EXCEPT !.left = l] \in FlatCell /\ [c EXCEPT !.left = l].left = l
    BY <2>6 DEF FlatCell
  <2> QED
    BY <2>7 DEF c, l
<1>5. d = [i \in 1..(k - 1) |-> D(i)]
  BY DEF Dividers
<1>6. k - 1 \in Nat
  OBVIOUS
<1> HIDE DEF D, FlatCell
<1>7. d \in [1..(k - 1) -> FlatCell]
  BY <1>4, <1>5
<1> DEFINE l == k - 1
<1>8. d \in Seq(FlatCell) /\ Len(d) = l
  <2>1. d \in [1..l -> FlatCell] /\ l \in Nat
    BY <1>6, <1>7
  <2> HIDE DEF l
  <2> QED
    BY ONLY <2>1
<1>9. \A i \in 1..(k - 1) : d[i].left = new[i]
  BY <1>4, <1>5
<1> QED
  BY <1>8, <1>9 DEF PointLeft

(* The pages of the group take the place of the old ones.                  *)
InTheirPlace(Q, pgs, pp, old, k, new, group) ==
    /\ DOMAIN Q = (DOMAIN pgs \ ToSet(old)) \union new_pages(new, k)
    /\ Q[pp] = group.parent
    /\ \A i \in 1..k : Q[new[i]] = group.pages[i]
    /\ \A p \in DOMAIN pgs \ ToSet(old) : p # pp /\ p \notin new_pages(new, k) => Q[p] = pgs[p]

LEMMA PlacedIs ==
    ASSUME NEW pgs, NEW pp, NEW q \in Nat, NEW old \in [1..q -> Nat], NEW k \in Nat, NEW new \in [1..k -> Nat],
           OneToOne(new, k), NEW group, pp \notin ToSet(old), pp \in DOMAIN pgs, pp \notin new_pages(new, k),
           NEW Q, Q = placed(pgs, pp, old, new, group)
    PROVE  InTheirPlace(Q, pgs, pp, old, k, new, group)
<1> DEFINE Index(p) == CHOOSE i \in DOMAIN new : new[i] = p
           D == (DOMAIN pgs \ ToSet(old)) \union ToSet(new)
<1>1. Q = [p \in D |-> IF p = pp THEN group.parent
                       ELSE IF p \in ToSet(new) THEN group.pages[Index(p)] ELSE pgs[p]]
  BY DEF placed
<1>2. DOMAIN new = 1..k
  OBVIOUS
<1>3. ToSet(new) = new_pages(new, k)
  BY <1>2 DEF ToSet, new_pages
<1>4. ASSUME NEW i \in 1..k PROVE new[i] \in ToSet(new) /\ Index(new[i]) = i
  <2>1. new[i] \in ToSet(new)
    BY <1>3 DEF new_pages
  <2>2. \A j \in DOMAIN new : new[j] = new[i] => j = i
    BY <1>2 DEF OneToOne
  <2>3. i \in DOMAIN new
    BY <1>2
  <2> QED
    BY <2>1, <2>2, <2>3
<1> HIDE DEF Index
<1>5. ASSUME NEW i \in 1..k PROVE Q[new[i]] = group.pages[i]
  BY <1>1, <1>3, <1>4
<1>6. Q[pp] = group.parent
  BY <1>1
<1>7. DOMAIN Q = (DOMAIN pgs \ ToSet(old)) \union new_pages(new, k)
  BY <1>1, <1>3
<1>8. \A p \in DOMAIN pgs \ ToSet(old) : p # pp /\ p \notin new_pages(new, k) => Q[p] = pgs[p]
  BY <1>1, <1>3
<1> QED
  BY <1>5, <1>6, <1>7, <1>8 DEF InTheirPlace

(* The siblings of a group are different pages, in the order of the slots. *)
LEMMA OldPagesAre ==
    ASSUME NEW P, NEW pp, Distinct(P[pp]), Len(P[pp].cells) \in Nat,
           \A s \in slots_of(P[pp]) : child(P[pp], s) \in DOMAIN P /\ child(P[pp], s) \in Nat,
           NEW lo \in Nat, NEW hi \in Nat, 1 <= lo, lo <= hi, hi <= Len(P[pp].cells) + 1,
           NEW slots, slots = lo..hi, NEW q, q = Cardinality(slots),
           NEW old, old = [i \in 1..q |-> child(P[pp], Min(slots) + i - 1)]
    PROVE  /\ q \in Nat /\ old \in [1..q -> Nat] /\ OneToOne(old, q)
           /\ \A j \in 1..q : old[j] \in DOMAIN P
           /\ ToSet(old) = old_pages(P, pp, lo, hi)
<1> DEFINE L == Len(P[pp].cells)
           c(s) == child(P[pp], s)
<1>1. Min(slots) = lo /\ q = hi - lo + 1
  <2>1. Min(slots) = lo
    BY EndsOfRange
  <2>2. lo \in Int /\ hi \in Int /\ ~(lo > hi)
    OBVIOUS
  <2>3. Cardinality(lo..hi) = IF lo > hi THEN 0 ELSE hi - lo + 1
    BY <2>2, FS_Interval
  <2> QED
    BY <2>1, <2>2, <2>3
<1>2. q \in Nat
  BY <1>1
<1>3. L \in Nat /\ slots_of(P[pp]) = 1..(L + 1)
  BY DEF slots_of
<1>4. \A s \in 1..(L + 1) : c(s) \in DOMAIN P /\ c(s) \in Nat
  BY <1>3
<1>5. \A s, t \in 1..(L + 1) : c(s) = c(t) => s = t
  BY <1>3 DEF Distinct
<1>6. old_pages(P, pp, lo, hi) = {c(s) : s \in lo..hi}
  BY DEF old_pages
<1>7. old = [i \in 1..q |-> c(lo + i - 1)]
  BY <1>1
<1>8. hi <= L + 1
  OBVIOUS
<1> HIDE DEF L, c
<1>9. ASSUME NEW i \in 1..q PROVE lo + i - 1 \in 1..(L + 1) /\ lo + i - 1 \in lo..hi
  BY ONLY <1>1, <1>2, <1>3, <1>8, i \in 1..q, lo \in Nat, hi \in Nat, 1 <= lo
<1>10. ASSUME NEW i \in 1..q PROVE old[i] = c(lo + i - 1) /\ old[i] \in DOMAIN P /\ old[i] \in Nat
  BY <1>4, <1>7, <1>9
<1>11. old \in [1..q -> Nat]
  <2>1. old = [i \in 1..q |-> old[i]]
    BY <1>7
  <2> QED
    BY <1>10, <2>1
<1>12. ASSUME NEW i \in 1..q, NEW j \in 1..q, old[i] = old[j] PROVE i = j
  <2>1. lo + i - 1 = lo + j - 1
    BY <1>5, <1>9, <1>10, <1>12
  <2> QED
    BY ONLY <1>2, <2>1, i \in 1..q, j \in 1..q, lo \in Nat
<1>13. ASSUME NEW s \in lo..hi PROVE \E i \in 1..q : old[i] = c(s)
  <2>1. s - lo + 1 \in 1..q /\ lo + (s - lo + 1) - 1 = s
    BY ONLY <1>1, <1>2, s \in lo..hi, lo \in Nat, hi \in Nat
  <2> QED
    BY <1>10, <2>1
<1>14. ToSet(old) = {old[i] : i \in 1..q}
  BY <1>11 DEF ToSet
<1>15. ToSet(old) = old_pages(P, pp, lo, hi)
  <2>1. ASSUME NEW x \in ToSet(old) PROVE x \in old_pages(P, pp, lo, hi)
    <3>1. PICK i \in 1..q : x = old[i]
      BY <1>14
    <3>2. lo + i - 1 \in lo..hi /\ x = c(lo + i - 1)
      BY <1>9, <1>10, <3>1
    <3> QED
      BY <1>6, <3>2
  <2>2. ASSUME NEW x \in old_pages(P, pp, lo, hi) PROVE x \in ToSet(old)
    <3>1. PICK s \in lo..hi : x = c(s)
      BY <1>6
    <3>2. PICK i \in 1..q : old[i] = c(s)
      BY <1>13
    <3> QED
      BY <1>14, <3>1, <3>2
  <2> QED
    BY <2>1, <2>2
<1> QED
  BY <1>2, <1>10, <1>11, <1>12, <1>15 DEF OneToOne

(* What the pages of a group hold and point at.                            *)
LEMMA GroupShared ==
    ASSUME NEW P, NEW parent, NEW lo, NEW hi, FlatSiblings(P, parent, lo, hi),
           NEW cells, cells = in_order(P, parent, lo..hi), NEW share, NEW k, NEW n, NEW e,
           SharedOut(share, cells, k, n, e), NEW new \in [1..k -> Nat],
           NEW M, M = Node(cells, P[child(parent, hi)].right),
           NEW group, group = regrouped(P, parent, lo, hi, share, cells, new)
    PROVE  /\ KidsShared(group.pages, k, M) /\ SameKids(M, P, parent, lo, hi)
           /\ Replaced(group.parent, parent, lo, hi, k, new)
           /\ \A i \in 1..k : /\ group.pages[i].cells = cells_of(share, cells, e, i)
                              /\ Len(group.pages[i].cells) = n[i]
<1>1. M \in FlatNode /\ SameKids(M, P, parent, lo, hi)
  BY GroupHasKids
<1>2. cells \in Seq(FlatCell) /\ M.cells = cells /\ M.right = P[child(parent, hi)].right
  <2>1. M.cells = cells /\ M.right = P[child(parent, hi)].right
    BY DEF Node
  <2>2. M.cells \in Seq(FlatCell)
    BY <1>1 DEF FlatNode
  <2> QED
    BY <2>1, <2>2
<1>3. /\ Len(share.n) = k /\ share.n = n /\ k \in Nat /\ k >= 1 /\ Parts(k, n, e, Len(cells))
      /\ InTurn(share, cells, e)
  BY DEF SharedOut
<1>4. Len(new) = k
  BY <1>3, LenOf
<1>5. /\ AsShared(group, parent, lo, hi, share, cells, e, new)
      /\ AsPointed(group, P, parent, hi, cells, e, new)
  <2>1. InTurn(share, cells, e) /\ Len(new) = Len(share.n) /\ Len(share.n) \in Nat
    BY <1>3, <1>4
  <2> QED
    BY ONLY <2>1, group = regrouped(P, parent, lo, hi, share, cells, new), RegroupedAsShared
<1> DEFINE N == group.pages
<1>6. ASSUME NEW i \in 1..k
      PROVE  /\ N[i].cells = cells_of(share, cells, e, i)
             /\ N[i] = Node(SubSeq(M.cells, e[i] + 1, e[i] + n[i]),
                            IF i = k THEN M.right ELSE M.cells[e[i + 1]].left)
  <2>1. N[i].cells = cells_of(share, cells, e, i)
    BY <1>4, <1>5 DEF AsShared
  <2>2. N[i] = Node(N[i].cells, IF i = k THEN P[child(parent, hi)].right ELSE cells[e[i + 1]].left)
    BY <1>4, <1>5 DEF AsPointed
  <2>3. cells_of(share, cells, e, i) = SubSeq(cells, e[i] + 1, e[i] + n[i])
    BY <1>3 DEF cells_of
  <2> HIDE DEF N
  <2> QED
    BY <1>2, <2>1, <2>2, <2>3
<1>7. KidsShared(N, k, M) /\ \A i \in 1..k : Len(N[i].cells) = n[i]
  <2> HIDE DEF N
  <2>1. Parts(k, n, e, Len(M.cells))
    BY <1>2, <1>3
  <2>2. \A i \in 1..k : N[i] = Node(SubSeq(M.cells, e[i] + 1, e[i] + n[i]),
                                   IF i = k THEN M.right ELSE M.cells[e[i + 1]].left)
    BY <1>6
  <2>3. M \in FlatNode /\ k \in Nat /\ k >= 1
    BY <1>1, <1>3
  <2> QED
    BY ONLY <2>1, <2>2, <2>3, PagesShareKids
<1>8. Replaced(group.parent, parent, lo, hi, k, new)
  <2> DEFINE d == Dividers(cells, e, new)
             R == group.parent
  <2>1. d \in Seq(FlatCell) /\ Len(d) = k - 1 /\ \A i \in 1..(k - 1) : d[i].left = new[i]
    <3>0. d = Dividers(cells, e, new)
      OBVIOUS
    <3> HIDE DEF d
    <3>1. cells \in Seq(FlatCell) /\ k \in Nat /\ k >= 1 /\ Parts(k, n, e, Len(cells)) /\ Len(new) = k
          /\ new \in [1..k -> Nat]
      BY <1>2, <1>3, <1>4
    <3>2. PointLeft(d, k, new)
      BY ONLY <3>0, <3>1, DividersAre
    <3> QED
      BY <3>2 DEF PointLeft
  <2>2. R.cells = SubSeq(parent.cells, 1, lo - 1) \o d \o after_group(parent, hi, new[k])
    BY <1>4, <1>5 DEF AsShared
  <2>3. R = Node(R.cells, IF SubSeq(parent.cells, hi, Len(parent.cells)) = <<>> THEN new[k] ELSE parent.right)
    BY <1>4, <1>5 DEF AsPointed
  <2> HIDE DEF d, R
  <2>4. R = Node(SubSeq(parent.cells, 1, lo - 1) \o d \o after_group(parent, hi, new[k]),
                 IF SubSeq(parent.cells, hi, Len(parent.cells)) = <<>> THEN new[k] ELSE parent.right)
    BY <2>2, <2>3
  <2>5. parent \in FlatNode /\ lo \in Nat /\ hi \in Nat /\ 1 <= lo /\ lo <= hi /\ hi <= Len(parent.cells) + 1
    BY DEF FlatSiblings
  <2>6. Replaced(R, parent, lo, hi, k, new)
    BY <1>3, <2>1, <2>4, <2>5, ParentSlots
  <2> QED
    BY <2>6 DEF R
<1> QED
  BY <1>1, <1>6, <1>7, <1>8

(* The page is one of the group; none of the pages gets too many cells,    *)
(* and if one gets none then it is the only child of the parent.           *)
GroupFits(P, pp, page, lo, hi, k, N) ==
    /\ page \in old_pages(P, pp, lo, hi)
    /\ \A i \in 1..k : used_bytes(N[i].cells) <= geo.usable_space
    /\ \A i \in 1..k : N[i].cells = <<>> => k = 1 /\ Len(P[pp].cells) = 0

LEMMA RegroupingIs ==
    ASSUME geo \in Geometries, FixedCells(geo), NEW P, NEW root, NEW h, NEW up, NEW H, Tree(P, root, h, up, H),
           NEW pp \in DOMAIN P, h[pp] # 0, NEW page, \E s \in slots_of(P[pp]) : child(P[pp], s) = page,
           NEW slots, slots = load_siblings(P[pp], page),
           NEW share, share = distribution(in_order(P, P[pp], slots)),
           NEW Q, Q = redistribute(P, pp, slots, share)
    PROVE  /\ share.ok
           /\ \E lo, hi, k, new, N, M :
                 Regrouping(P, Q, pp, lo, hi, k, new, N, M) /\ GroupFits(P, pp, page, lo, hi, k, N)
<1> DEFINE parent == P[pp]
<1>1. /\ Family(P, pp, page) /\ parent \in FlatNode /\ Len(parent.cells) \in Nat
      /\ \A s \in slots_of(parent) : /\ child(parent, s) \in DOMAIN P /\ child(parent, s) \in Nat
                                     /\ child(parent, s) # pp /\ P[child(parent, s)] \in FlatNode
      /\ Distinct(parent) /\ IsFiniteSet(DOMAIN P)
  <2>1. IsFiniteSet(DOMAIN P)
    BY DEF Tree
  <2> QED
    BY <2>1, FamilyOfTree
<1>2. PICK lo, hi : slots = lo..hi /\ Siblings(P, parent, lo, hi)
  BY <1>1, SlotsAreARange
<1>3. lo \in Nat /\ hi \in Nat /\ 1 <= lo /\ lo <= hi /\ hi <= Len(parent.cells) + 1
  BY <1>2 DEF Siblings
<1>4. \A s \in lo..hi : s \in slots_of(parent)
  <2> DEFINE L == Len(parent.cells)
  <2>1. L \in Nat /\ slots_of(parent) = 1..(L + 1) /\ hi <= L + 1
    BY <1>1, <1>3 DEF slots_of
  <2> HIDE DEF L
  <2> QED
    BY ONLY <1>3, <2>1
<1>5. FlatSiblings(P, parent, lo, hi)
  BY <1>1, <1>3, <1>4 DEF FlatSiblings
<1>6. (\E s \in lo..hi : child(parent, s) = page) /\ (lo = hi => Len(parent.cells) = 0)
  <2> DEFINE pa == parent
  <2>1. /\ geo \in Geometries /\ Len(pa.cells) \in Nat /\ (\E s \in slots_of(pa) : child(pa, s) = page)
        /\ lo \in Nat /\ hi \in Nat /\ load_siblings(pa, page) = lo..hi
    BY <1>1, <1>2, <1>3
  <2> HIDE DEF pa
  <2>2. (\E s \in lo..hi : child(pa, s) = page) /\ (lo = hi => Len(pa.cells) = 0)
    BY ONLY <2>1, SlotsHoldPage
  <2> QED
    BY <2>2 DEF pa
<1> DEFINE cells == in_order(P, parent, slots)
           M == Node(cells, P[child(parent, hi)].right)
<1>7. cells = in_order(P, parent, lo..hi)
  BY <1>2
<1>8. cells \in Seq(FlatCell)
  <2> HIDE DEF cells
  <2>1. M \in FlatNode
    BY <1>5, <1>7, GroupHasKids
  <2>2. M.cells = cells
    BY DEF Node
  <2>3. M.cells \in Seq(FlatCell)
    BY <2>1 DEF FlatNode
  <2> QED
    BY <2>2, <2>3
<1>9. PICK k, n, e : SharedOut(share, cells, k, n, e)
  <2>1. share = distribution(cells)
    OBVIOUS
  <2> HIDE DEF cells
  <2> QED
    BY <1>8, <2>1, ShareOut
<1>10. share.ok /\ Len(share.n) = k /\ k \in Nat /\ k >= 1 /\ n \in [1..k -> Nat] /\ Parts(k, n, e, Len(cells))
       /\ (\A i \in 1..k : used_bytes(cells_of(share, cells, e, i)) <= geo.usable_space)
       /\ (k >= 2 => \A i \in 1..k : n[i] # 0)
  BY <1>9 DEF SharedOut
<1> DEFINE q == Cardinality(slots)
           old == [i \in 1..q |-> child(parent, Min(slots) + i - 1)]
           new == sibling_pages(P, old, k)
           group == regrouped(P, parent, lo, hi, share, cells, new)
           N == group.pages
<1>11. Min(slots) = lo /\ Max(slots) = hi
  BY <1>2, <1>3, EndsOfRange
<1>12. Q = placed(P, pp, old, new, group)
  BY <1>10, <1>11 DEF redistribute
<1>13. /\ q \in Nat /\ old \in [1..q -> Nat] /\ OneToOne(old, q)
       /\ \A j \in 1..q : old[j] \in DOMAIN P
       /\ ToSet(old) = old_pages(P, pp, lo, hi)
  <2> DEFINE o == old
             x == q
  <2>1. x = Cardinality(slots) /\ o = [i \in 1..x |-> child(P[pp], Min(slots) + i - 1)]
    OBVIOUS
  <2> HIDE DEF o, x
  <2>2. /\ x \in Nat /\ o \in [1..x -> Nat] /\ OneToOne(o, x)
        /\ \A j \in 1..x : o[j] \in DOMAIN P
        /\ ToSet(o) = old_pages(P, pp, lo, hi)
    <3>1. /\ Distinct(P[pp]) /\ Len(P[pp].cells) \in Nat
          /\ \A s \in slots_of(P[pp]) : child(P[pp], s) \in DOMAIN P /\ child(P[pp], s) \in Nat
          /\ slots = lo..hi
      BY <1>1, <1>2
    <3> QED
      BY ONLY <1>3, <2>1, <3>1, OldPagesAre
  <2> QED
    BY <2>2 DEF o, x
<1> HIDE DEF q, old
<1>14. /\ new \in [1..k -> Nat]
       /\ \A i \in 1..k : (\E j \in 1..q : new[i] = old[j]) \/ new[i] \notin DOMAIN P \union {0}
       /\ OneToOne(new, k)
  <2>1. /\ new \in [1..k -> Nat]
        /\ \A i \in 1..k : (\E j \in 1..q : new[i] = old[j]) \/ new[i] \notin DOMAIN P \union {0}
        /\ (OneToOne(old, q) /\ (\A j \in 1..q : old[j] \in DOMAIN P)) => OneToOne(new, k)
    <3>1. IsFiniteSet(DOMAIN P) /\ q \in Nat /\ old \in [1..q -> Nat] /\ k \in Nat
      BY <1>1, <1>10, <1>13
    <3> QED
      BY ONLY <3>1, SiblingPagesAre
  <2> HIDE DEF new
  <2> QED
    BY <1>13, <2>1
<1> HIDE DEF new
<1>15. /\ KidsShared(N, k, M) /\ SameKids(M, P, parent, lo, hi)
       /\ Replaced(group.parent, parent, lo, hi, k, new)
       /\ \A i \in 1..k : N[i].cells = cells_of(share, cells, e, i) /\ Len(N[i].cells) = n[i]
  <2> DEFINE g == group
             c == cells
             m == M
  <2>1. /\ c = in_order(P, parent, lo..hi) /\ SharedOut(share, c, k, n, e)
        /\ m = Node(c, P[child(parent, hi)].right) /\ g = regrouped(P, parent, lo, hi, share, c, new)
    BY <1>7, <1>9
  <2> HIDE DEF g, c, m
  <2>2. /\ KidsShared(g.pages, k, m) /\ SameKids(m, P, parent, lo, hi)
        /\ Replaced(g.parent, parent, lo, hi, k, new)
        /\ \A i \in 1..k : g.pages[i].cells = cells_of(share, c, e, i) /\ Len(g.pages[i].cells) = n[i]
    <3> DEFINE pa == parent
    <3>1. FlatSiblings(P, pa, lo, hi) /\ c = in_order(P, pa, lo..hi)
          /\ m = Node(c, P[child(pa, hi)].right) /\ g = regrouped(P, pa, lo, hi, share, c, new)
      BY <1>5, <2>1
    <3> HIDE DEF pa
    <3>2. /\ KidsShared(g.pages, k, m) /\ SameKids(m, P, pa, lo, hi)
          /\ Replaced(g.parent, pa, lo, hi, k, new)
          /\ \A i \in 1..k : g.pages[i].cells = cells_of(share, c, e, i) /\ Len(g.pages[i].cells) = n[i]
      BY ONLY <1>14, <2>1, <3>1, GroupShared
    <3> QED
      BY <3>2 DEF pa
  <2> QED
    BY <2>2 DEF g, c, m
<1> HIDE DEF group, M
<1>16. \A i \in 1..k : new[i] \in old_pages(P, pp, lo, hi) \/ new[i] \notin DOMAIN P \union {0}
  <2>1. \A j \in 1..q : old[j] \in ToSet(old)
    BY <1>13 DEF ToSet
  <2> QED
    BY <1>13, <1>14, <2>1
<1>17. pp \notin old_pages(P, pp, lo, hi) /\ pp \notin new_pages(new, k)
  <2>1. pp \notin old_pages(P, pp, lo, hi)
    BY <1>1, <1>4 DEF old_pages
  <2>2. \A i \in 1..k : new[i] # pp
    BY <1>16, <2>1
  <2> QED
    BY <2>1, <2>2 DEF new_pages
<1>18. /\ DOMAIN Q = (DOMAIN P \ old_pages(P, pp, lo, hi)) \union new_pages(new, k)
       /\ Q[pp] = group.parent
       /\ \A i \in 1..k : Q[new[i]] = N[i]
       /\ \A p \in DOMAIN P \ old_pages(P, pp, lo, hi) : p # pp /\ p \notin new_pages(new, k) => Q[p] = P[p]
  <2> DEFINE o == ToSet(old)
  <2>1. pp \notin ToSet(old) /\ pp \notin new_pages(new, k)
    BY <1>13, <1>17
  <2>2. /\ DOMAIN Q = (DOMAIN P \ ToSet(old)) \union new_pages(new, k)
        /\ Q[pp] = group.parent
        /\ \A i \in 1..k : Q[new[i]] = group.pages[i]
        /\ \A p \in DOMAIN P \ ToSet(old) : p # pp /\ p \notin new_pages(new, k) => Q[p] = P[p]
    <3>1. /\ q \in Nat /\ old \in [1..q -> Nat] /\ k \in Nat /\ new \in [1..k -> Nat] /\ OneToOne(new, k)
          /\ pp \in DOMAIN P /\ Q = placed(P, pp, old, new, group)
      BY <1>10, <1>12, <1>13, <1>14
    <3>2. InTheirPlace(Q, P, pp, old, k, new, group)
      BY ONLY <2>1, <3>1, PlacedIs
    <3> QED
      BY <3>2 DEF InTheirPlace
  <2> QED
    BY <1>13, <2>2
<1>19. \A p \in DOMAIN P \ old_pages(P, pp, lo, hi) : p # pp => Q[p] = P[p]
  <2>1. \A p \in DOMAIN P \ old_pages(P, pp, lo, hi) : p \notin new_pages(new, k)
    BY <1>16 DEF new_pages
  <2> QED
    BY <1>18, <2>1
<1>20. Regrouping(P, Q, pp, lo, hi, k, new, N, M)
  BY <1>3, <1>10, <1>14, <1>15, <1>16, <1>18, <1>19 DEF Regrouping
<1>21. page \in old_pages(P, pp, lo, hi)
  BY <1>6 DEF old_pages
<1>22. ASSUME NEW i \in 1..k, N[i].cells = <<>> PROVE k = 1 /\ Len(parent.cells) = 0
  <2>1. n[i] = 0
    BY <1>15, <1>22
  <2>2. k = 1
    BY <1>10, <2>1
  <2>3. Len(cells) = 0
    <3>1. n[1] = 0 /\ e[1] = 0 /\ e[2] = e[1] + n[1] + 1 /\ e[2] = Len(cells) + 1
      <4>1. e[1] = 0 /\ e[k + 1] = Len(cells) + 1 /\ \A j \in 1..k : e[j + 1] = e[j] + n[j] + 1
        BY <1>10 DEF Parts
      <4>2. k + 1 = 2 /\ 1 \in 1..k /\ 1 + 1 = 2 /\ i = 1
        BY <2>2
      <4> HIDE DEF cells
      <4> QED
        BY <2>1, <2>2, <4>1, <4>2
    <3>2. Len(cells) \in Nat
      BY <1>8
    <3> HIDE DEF cells
    <3> QED
      BY <3>1, <3>2
  <2>4. lo = hi
    BY <1>5, <1>7, <2>3, GroupTakesDivider
  <2> QED
    BY <1>6, <2>2, <2>4
<1>23. GroupFits(P, pp, page, lo, hi, k, N)
  BY <1>10, <1>15, <1>21, <1>22 DEF GroupFits
<1> QED
  BY <1>10, <1>20, <1>23

-----------------------------------------------------------------------------
(* The levels of balance().                                                *)

LEMMA BytesAreNumbers ==
    ASSUME geo \in Geometries, FixedCells(geo), NEW cells \in Seq(FlatCell)
    PROVE  used_bytes(cells) \in Nat
<1>1. SizedCells(cells)
  BY FixedCellsTakeBytes
<1>2. PICK B : Sums(B, cells)
  BY <1>1, SumsExist
<1> QED
  BY <1>1, <1>2, SumsAreOne

(* An empty parent stays empty, over the one page of its group.            *)
LEMMA EmptyParentStays ==
    ASSUME NEW Q, NEW parent, NEW lo \in Nat, NEW hi \in Nat, 1 <= lo, lo <= hi, hi <= Len(parent.cells) + 1,
           NEW new, Len(parent.cells) = 0, Replaced(Q, parent, lo, hi, 1, new)
    PROVE  Q = Node(<<>>, new[1])
<1>1. /\ Q \in FlatNode /\ Len(Q.cells) + (hi - lo + 1) = Len(parent.cells) + 1
      /\ \A s \in slots_of(Q) : lo <= s /\ s < lo + 1 => child(Q, s) = new[s - lo + 1]
  BY DEF Replaced
<1>2. lo = 1 /\ hi = 1
  OBVIOUS
<1>3. Q.cells \in Seq(FlatCell) /\ Q = [kind |-> "node", cells |-> Q.cells, right |-> Q.right]
  BY <1>1 DEF FlatNode
<1>4. Len(Q.cells) = 0
  <2>1. Len(Q.cells) \in Nat
    BY <1>3
  <2> QED
    BY <1>1, <1>2, <2>1
<1>5. Q.cells = <<>>
  <2> HIDE DEF FlatCell
  <2> QED
    BY <1>3, <1>4
<1>6. 1 \in slots_of(Q) /\ child(Q, 1) = Q.right
  BY <1>4 DEF slots_of, child
<1>7. Q.right = new[1]
  <2>1. 1 - 1 + 1 = 1 /\ lo <= 1 /\ 1 < lo + 1
    BY <1>2
  <2>2. child(Q, 1) = new[1 - lo + 1]
    BY <1>1, <1>6, <2>1
  <2> QED
    BY <1>2, <1>6, <2>1, <2>2
<1> QED
  BY <1>3, <1>5, <1>7 DEF Node

(* Before a group is regrouped only its page has too many cells, or none.  *)
OthersFit(P, root, pp, page) ==
    /\ \A p \in DOMAIN P \ {root} : P[p].cells = <<>> => p = page
    /\ \A p \in DOMAIN P : is_overflow(P, p) => p = page

(* Then the call for its parent goes on.                                   *)
LEMMA GroupKeepsInv ==
    ASSUME geo \in Geometries, FixedCells(geo),
           NEW P, NEW Q, NEW root, NEW h, NEW up, NEW H, Tree(P, root, h, up, H),
           NEW pp \in DOMAIN P, h[pp] # 0, NEW page, NEW lo, NEW hi, NEW k, NEW new, NEW N, NEW M,
           Regrouping(P, Q, pp, lo, hi, k, new, N, M), GroupFits(P, pp, page, lo, hi, k, N),
           OthersFit(P, root, pp, page),
           NEW path, Descends(P, root, h, up, root, path, pp),
           NEW x \in Nat \union {NoPage}, NEW b, b = Balance(pp, path, x)
    PROVE  Grown(Q, b, root) /\ NoneEmpty(Q, b, root) /\ NoneTooLarge(Q, b)
<1> DEFINE old == old_pages(P, pp, lo, hi)
           fresh == new_pages(new, k)
<1>1. b.on /\ b.page = pp /\ b.parents = path /\ b.internal = x
  BY DEF Balance
<1>2. /\ \A c \in old : c # pp
      /\ \A c \in fresh : c # 0 /\ c # root /\ c # pp
  <2>1. GroupPlaces(P, root, h, up, pp, lo, hi, k, new)
    BY GroupIsBelow
  <2> QED
    BY <2>1 DEF GroupPlaces
<1>3. /\ lo \in Nat /\ hi \in Nat /\ 1 <= lo /\ lo <= hi /\ hi <= Len(P[pp].cells) + 1 /\ k \in Nat
      /\ DOMAIN Q = (DOMAIN P \ old) \union fresh
      /\ Replaced(Q[pp], P[pp], lo, hi, k, new)
      /\ \A i \in 1..k : Q[new[i]] = N[i] /\ N[i] \in FlatNode
      /\ \A q \in DOMAIN P \ old : q # pp => Q[q] = P[q]
  BY DEF Regrouping, KidsShared
<1>4. /\ page \in old
      /\ \A i \in 1..k : used_bytes(N[i].cells) <= geo.usable_space
      /\ \A i \in 1..k : N[i].cells = <<>> => k = 1 /\ Len(P[pp].cells) = 0
  BY DEF GroupFits
<1>5. \A q \in fresh : \E i \in 1..k : q = new[i]
  BY DEF new_pages
<1> HIDE DEF old, fresh
<1>6. Grown(Q, b, root)
  <2>1. PICK h2, up2 : Tree(Q, root, h2, up2, H) /\ SameAbove(P, Q, h, up, h2, up2, root, h[pp])
    BY RegroupKeepsTree
  <2>2. Descends(Q, root, h2, up2, root, path, pp)
    BY <2>1, SameWayDown
  <2>3. path \in Seq(DOMAIN Q) /\ pp \in DOMAIN Q
    BY <2>2 DEF Descends
  <2>4. node_pages(Q) = DOMAIN Q
    BY <2>1, AllAreNodes
  <2>5. b \in CallsOn(Q)
    BY <2>3, <2>4 DEF CallsOn, Balance
  <2> QED
    BY <1>1, <2>1, <2>2, <2>5 DEF Grown, Called
<1>7. ASSUME NEW q \in DOMAIN Q \ {root}, Q[q].cells = <<>>
      PROVE  q = b.page \/ (b.page = root /\ Q[root].cells = <<>> /\ Q[root].right = q)
  <2>1. CASE q \in fresh
    <3>1. PICK i \in 1..k : q = new[i]
      BY <1>5, <2>1
    <3>2. N[i].cells = <<>>
      BY <1>3, <1>7, <3>1
    <3>3. k = 1 /\ Len(P[pp].cells) = 0
      BY <1>4, <3>2
    <3>4. P[pp].cells = <<>>
      <4>1. P[pp].cells \in Seq(FlatCell)
        BY TreeNode
      <4> HIDE DEF FlatCell
      <4> QED
        BY <3>3, <4>1
    <3>5. pp = root
      BY <1>2, <1>4, <3>4 DEF OthersFit
    <3>6. Q[pp] = Node(<<>>, new[1])
      BY <1>3, <3>3, EmptyParentStays
    <3>7. i = 1
      BY <3>3
    <3> QED
      BY <1>1, <3>1, <3>5, <3>6, <3>7 DEF Node
  <2>2. CASE q \notin fresh
    <3>1. q \in DOMAIN P \ old
      BY <1>3, <2>2
    <3>2. CASE q = pp
      BY <1>1, <3>2
    <3>3. CASE q # pp
      <4>1. P[q].cells = <<>>
        BY <1>3, <1>7, <3>1, <3>3
      <4>2. q = page
        BY <1>7, <3>1, <4>1 DEF OthersFit
      <4> QED
        BY <1>4, <3>1, <4>2
    <3> QED
      BY <3>2, <3>3
  <2> QED
    BY <2>1, <2>2
<1>8. ASSUME NEW q \in DOMAIN Q, is_overflow(Q, q) PROVE q = pp
  <2>1. CASE q \in fresh
    <3>1. PICK i \in 1..k : q = new[i]
      BY <1>5, <2>1
    <3>2. space(q) = geo.usable_space /\ Q[q] = N[i]
      BY <1>2, <1>3, <2>1, <3>1 DEF space
    <3>3. used_bytes(N[i].cells) > geo.usable_space
      BY <1>8, <3>2 DEF is_overflow
    <3>4. used_bytes(N[i].cells) \in Nat
      <4>1. N[i].cells \in Seq(FlatCell)
        BY <1>3 DEF FlatNode
      <4> QED
        BY <4>1, BytesAreNumbers
    <3>5. used_bytes(N[i].cells) <= geo.usable_space /\ geo.usable_space \in Nat
      BY <1>4, GeometriesAssumption
    <3> QED
      BY ONLY <3>3, <3>4, <3>5
  <2>2. CASE q \notin fresh
    <3>1. q \in DOMAIN P \ old
      BY <1>3, <2>2
    <3>2. ASSUME q # pp PROVE FALSE
      <4>1. is_overflow(P, q)
        BY <1>3, <1>8, <3>1, <3>2 DEF is_overflow
      <4>2. q = page
        BY <3>1, <4>1 DEF OthersFit
      <4> QED
        BY <1>4, <3>1, <4>2
    <3> QED
      BY <3>2
  <2> QED
    BY <2>1, <2>2
<1>9. NoneEmpty(Q, b, root)
  BY <1>1, <1>7 DEF NoneEmpty
<1>10. NoneTooLarge(Q, b)
  BY <1>1, <1>8 DEF NoneTooLarge
<1> QED
  BY <1>6, <1>9, <1>10

(* A level of balance() for a page that is not the root.                   *)
LEMMA NodeUnbalancedKeepsInv ==
    ASSUME TreeInv, FixedCells(geo), bal.on, bal # Panic, NodeUnbalanced, UNCHANGED <<geo, removed, dict>>
    PROVE  TreeInv'
<1> DEFINE root == geo.root
           page == bal.page
           path == bal.parents
           pp == Last(bal.parents)
<1>1. PICK h, up, H : Tree(pages, root, h, up, H) /\ Called(pages, root, h, up, bal)
  BY DEF TreeInv, Grown
<1>2. bal \in CallsOn(pages) /\ Descends(pages, root, h, up, root, path, page)
  <2>1. ~Idle.on
    BY DEF Idle
  <2> QED
    BY <1>1, <2>1 DEF Called
<1>3. path # <<>> /\ regroup(pages, page, path)
  BY DEF NodeUnbalanced
<1>4. geo \in Geometries /\ NoneEmpty(pages, bal, root) /\ NoneTooLarge(pages, bal)
  BY DEF TreeInv
<1>5. bal.internal \in Nat \union {NoPage} /\ bal = Balance(page, path, bal.internal)
  BY <1>2 DEF CallsOn, Balance
<1> HIDE DEF root
<1>6. /\ pp \in DOMAIN pages /\ page # root
      /\ IsBelow(pages, root, h, up, page, pp)
      /\ \E s \in slots_of(pages[pp]) : child(pages[pp], s) = page
      /\ Descends(pages, root, h, up, root, Front(path), pp)
  BY <1>1, <1>2, <1>3, CameFrom
<1>7. h[pp] # 0
  BY <1>6 DEF IsBelow
<1> DEFINE slots == load_siblings(pages[pp], page)
           share == distribution(in_order(pages, pages[pp], slots))
           Q == redistribute(pages, pp, slots, share)
<1>8. /\ share.ok
      /\ \E lo, hi, k, new, N, M :
            Regrouping(pages, Q, pp, lo, hi, k, new, N, M) /\ GroupFits(pages, pp, page, lo, hi, k, N)
  <2>1. geo \in Geometries /\ FixedCells(geo)
    BY <1>4
  <2> HIDE DEF pp, page
  <2> QED
    BY <1>1, <1>6, <1>7, <2>1, RegroupingIs
<1>9. regroup_as(pages, path, slots, share)
  BY <1>3 DEF regroup
<1> HIDE DEF slots, share
<1>10. pages' = Q /\ bal' = [bal EXCEPT !.page = Last(path), !.parents = Front(path)]
  BY <1>8, <1>9 DEF regroup_as, go_up
<1>11. bal' = Balance(pp, Front(path), bal.internal)
  <2> DEFINE f == Front(path)
             i == bal.internal
  <2>1. bal = Balance(page, path, i) /\ bal' = [bal EXCEPT !.page = pp, !.parents = f]
    BY <1>5, <1>10
  <2> HIDE DEF f, page, path, i, pp
  <2> QED
    BY <2>1 DEF Balance, f, i
<1> HIDE DEF Q
<1>12. PICK lo, hi, k, new, N, M :
          Regrouping(pages, Q, pp, lo, hi, k, new, N, M) /\ GroupFits(pages, pp, page, lo, hi, k, N)
  BY <1>8
<1>13. OthersFit(pages, root, pp, page)
  BY <1>4, <1>6 DEF OthersFit, NoneEmpty, NoneTooLarge
<1>14. Grown(Q, bal', root) /\ NoneEmpty(Q, bal', root) /\ NoneTooLarge(Q, bal')
  <2> DEFINE f == Front(path)
             i == bal.internal
  <2>1. bal' = Balance(pp, f, i) /\ i \in Nat \union {NoPage} /\ Descends(pages, root, h, up, root, f, pp)
        /\ geo \in Geometries /\ FixedCells(geo)
    BY <1>4, <1>5, <1>6, <1>11
  <2> HIDE DEF f, i, page, path, pp
  <2> QED
    BY <1>1, <1>6, <1>7, <1>12, <1>13, <2>1, GroupKeepsInv
<1> QED
  BY <1>4, <1>10, <1>14, TreeInvNext DEF TreeInv, root

LEMMA NothingTakesNothing == used_bytes(<<>>) = 0
<1>1. SizedCells(<<>>) /\ Sums([i \in 0..0 |-> 0], <<>>)
  BY DEF SizedCells, Sums
<1>2. used_bytes(<<>>) = [i \in 0..0 |-> 0][Len(<<>>)]
  BY <1>1, SumsAreOne
<1>3. Len(<<>>) = 0
  OBVIOUS
<1> QED
  BY <1>2, <1>3

(* A node without cells has one child.                                     *)
LEMMA OnlyChild ==
    ASSUME NEW new \in Nat, NEW node, node = Node(<<>>, new)
    PROVE  /\ node \in FlatNode /\ node.cells = <<>> /\ node.right = new /\ slots_of(node) = 1..1
           /\ \A s \in slots_of(node) : s = 1 /\ child(node, s) = new
           /\ 1 \in slots_of(node) /\ child(node, 1) = new /\ Distinct(node)
<1>1. node \in FlatNode /\ node.cells = <<>> /\ node.right = new
  <2>1. <<>> \in Seq(FlatCell)
    OBVIOUS
  <2> QED
    BY <2>1 DEF Node, FlatNode
<1>2. Len(node.cells) + 1 = 1
  BY <1>1
<1>3. slots_of(node) = 1..1
  BY <1>2 DEF slots_of
<1>4. child(node, 1) = new
  BY <1>1, <1>2 DEF child
<1>5. \A s \in 1..1 : s = 1
  OBVIOUS
<1>6. 1 \in 1..1
  OBVIOUS
<1> HIDE DEF FlatNode
<1> QED
  BY <1>1, <1>3, <1>4, <1>5, <1>6 DEF Distinct

(* The root with a page of its own between it and its children.            *)
LoweredRoot(Q, P, root, new) ==
    /\ DOMAIN Q = DOMAIN P \union {new}
    /\ Q[root] = Node(<<>>, new) /\ Q[new] = P[root]
    /\ \A q \in DOMAIN P : q # root => Q[q] = P[q]

LEMMA LoweredRootIsTree ==
    ASSUME NEW P, NEW Q, NEW root, NEW h, NEW up, NEW H, Tree(P, root, h, up, H),
           NEW new \in Nat, new \notin DOMAIN P \union {0}, LoweredRoot(Q, P, root, new)
    PROVE  \E h1, up1 : Tree(Q, root, h1, up1, H + 1) /\ h1[root] # 0
<1> DEFINE D == DOMAIN P \union {new}
           h1 == [q \in D |-> IF q = root THEN h[root] + 1 ELSE IF q = new THEN h[root] ELSE h[q]]
           up1 == [q \in D |-> IF q = new THEN root ELSE IF q # root /\ up[q] = root THEN new ELSE up[q]]
<1>1. /\ IsFiniteSet(DOMAIN P) /\ root \in DOMAIN P
      /\ H \in Nat /\ \A q \in DOMAIN P : h[q] \in 0..H
      /\ \A q \in DOMAIN P \ {root} : Attached(P, h, up, q)
  BY DEF Tree
<1>2. \A q \in DOMAIN P : q \in Nat /\ P[q] \in FlatNode /\ InPlace(P, root, h, up, q)
  BY DEF Tree
<1>3. new # root /\ new # 0 /\ new \notin DOMAIN P /\ new \in D /\ root \in D /\ root # new
  BY <1>1
<1>4. DOMAIN Q = D /\ Q[root] = Node(<<>>, new) /\ Q[new] = P[root] /\ \A q \in DOMAIN P : q # root => Q[q] = P[q]
  BY DEF LoweredRoot
<1>5. /\ h1[root] = h[root] + 1 /\ h1[new] = h[root]
      /\ \A q \in DOMAIN P : q # root => h1[q] = h[q]
  BY <1>1, <1>3
<1>6. /\ up1[new] = root
      /\ \A q \in DOMAIN P : q # root => (up[q] = root => up1[q] = new) /\ (up[q] # root => up1[q] = up[q])
  BY <1>3
<1>7. h1 \in [D -> 0..(H + 1)]
  <2>1. h1 = [q \in D |-> h1[q]]
    OBVIOUS
  <2> HIDE DEF h1
  <2>2. \A q \in D : h1[q] \in 0..(H + 1)
    <3>1. \A x \in 0..H : x \in 0..(H + 1) /\ x + 1 \in 0..(H + 1)
      BY <1>1
    <3> QED
      BY <1>1, <1>5, <3>1
  <2> HIDE DEF D
  <2> QED
    BY <2>1, <2>2
<1>8. h[root] \in Nat /\ h1[root] # 0 /\ h1[root] - 1 = h[root]
  BY <1>1, <1>5
<1>9. /\ Q[root] \in FlatNode /\ 1 \in slots_of(Q[root]) /\ child(Q[root], 1) = new /\ Distinct(Q[root])
      /\ \A s \in slots_of(Q[root]) : child(Q[root], s) = new
  <2> DEFINE node == Q[root]
  <2>1. node = Node(<<>>, new)
    BY <1>4
  <2> HIDE DEF node
  <2>2. /\ node \in FlatNode /\ 1 \in slots_of(node) /\ child(node, 1) = new /\ Distinct(node)
        /\ \A s \in slots_of(node) : child(node, s) = new
    BY ONLY <2>1, new \in Nat, OnlyChild
  <2> QED
    BY <2>2 DEF node
<1> HIDE DEF h1, up1, D
<1>10. DOMAIN P \subseteq D /\ \A q \in D : q \in DOMAIN P \/ q = new
  BY DEF D
<1>11. InPlace(Q, root, h1, up1, root)
  <2>1. IsBelow(Q, root, h1, up1, new, root)
    BY <1>3, <1>4, <1>5, <1>6, <1>8 DEF IsBelow
  <2> QED
    BY <1>8, <1>9, <2>1 DEF InPlace
<1>12. InPlace(Q, root, h1, up1, new)
  <2>1. InPlace(P, root, h, up, root)
    BY <1>1, <1>2
  <2>2. CASE h[root] = 0
    BY <1>4, <1>5, <2>1, <2>2 DEF InPlace
  <2>3. CASE h[root] # 0
    <3>1. ASSUME NEW s \in slots_of(P[root]) PROVE IsBelow(Q, root, h1, up1, child(P[root], s), new)
      <4> DEFINE c == child(P[root], s)
      <4>1. IsBelow(P, root, h, up, c, root)
        BY <2>1, <2>3 DEF InPlace
      <4> HIDE DEF c
      <4>2. c \in DOMAIN P /\ c # root /\ c # 0 /\ h[c] = h[root] - 1 /\ up[c] = root
        BY <4>1 DEF IsBelow
      <4>3. c \in DOMAIN Q /\ h1[c] = h[c] /\ up1[c] = new
        BY <1>4, <1>5, <1>6, <1>10, <4>2
      <4>4. IsBelow(Q, root, h1, up1, c, new)
        BY <1>5, <2>3, <4>2, <4>3 DEF IsBelow
      <4> QED
        BY <4>4 DEF c
    <3> QED
      BY <1>4, <1>5, <2>1, <2>3, <3>1 DEF InPlace
  <2> QED
    BY <2>2, <2>3
<1>13. ASSUME NEW q \in DOMAIN P, q # root PROVE InPlace(Q, root, h1, up1, q)
  <2>1. InPlace(P, root, h, up, q) /\ h1[q] = h[q] /\ Q[q] = P[q]
    BY <1>2, <1>4, <1>5, <1>13
  <2>2. CASE h[q] = 0
    BY <2>1, <2>2 DEF InPlace
  <2>3. CASE h[q] # 0
    <3>1. ASSUME NEW s \in slots_of(P[q]) PROVE IsBelow(Q, root, h1, up1, child(P[q], s), q)
      <4> DEFINE c == child(P[q], s)
      <4>1. IsBelow(P, root, h, up, c, q)
        BY <2>1, <2>3 DEF InPlace
      <4> HIDE DEF c
      <4>2. c \in DOMAIN P /\ c # root /\ c # 0 /\ h[c] = h[q] - 1 /\ up[c] = q
        BY <4>1 DEF IsBelow
      <4>3. c \in DOMAIN Q /\ h1[c] = h[c] /\ up1[c] = q
        BY <1>4, <1>5, <1>6, <1>10, <1>13, <4>2
      <4>4. IsBelow(Q, root, h1, up1, c, q)
        BY <2>1, <2>3, <4>2, <4>3 DEF IsBelow
      <4> QED
        BY <4>4 DEF c
    <3> QED
      BY <2>1, <2>3, <3>1 DEF InPlace
  <2> QED
    BY <2>2, <2>3
<1>14. Attached(Q, h1, up1, new)
  <2>1. up1[new] = root /\ root \in DOMAIN Q /\ h1[root] # 0
    BY <1>3, <1>4, <1>6, <1>8
  <2> QED
    BY <1>9, <2>1 DEF Attached
<1>15. ASSUME NEW q \in DOMAIN P, q # root PROVE Attached(Q, h1, up1, q)
  <2>1. up[q] \in DOMAIN P /\ h[up[q]] # 0 /\ \E s \in slots_of(P[up[q]]) : child(P[up[q]], s) = q
    BY <1>1, <1>15 DEF Attached
  <2>2. CASE up[q] = root
    <3>1. up1[q] = new /\ new \in DOMAIN Q /\ h1[new] # 0 /\ Q[new] = P[up[q]]
      BY <1>3, <1>4, <1>5, <1>6, <1>15, <2>1, <2>2
    <3> QED
      BY <2>1, <3>1 DEF Attached
  <2>3. CASE up[q] # root
    <3>1. up1[q] = up[q] /\ up[q] \in DOMAIN Q /\ h1[up[q]] = h[up[q]] /\ Q[up[q]] = P[up[q]]
      BY <1>4, <1>5, <1>6, <1>10, <1>15, <2>1, <2>3
    <3> QED
      BY <2>1, <3>1 DEF Attached
  <2> QED
    BY <2>2, <2>3
<1>16. IsFiniteSet(DOMAIN Q)
  <2>1. DOMAIN Q = DOMAIN P \union {new}
    BY <1>4 DEF D
  <2> QED
    BY <1>1, <2>1, FS_AddElement
<1>17. \A q \in DOMAIN Q : q \in Nat /\ Q[q] \in FlatNode
  BY <1>1, <1>2, <1>4, <1>9, <1>10
<1>18. \A q \in DOMAIN Q : InPlace(Q, root, h1, up1, q)
  BY <1>4, <1>10, <1>11, <1>12, <1>13
<1>19. \A q \in DOMAIN Q \ {root} : Attached(Q, h1, up1, q)
  BY <1>4, <1>10, <1>14, <1>15
<1>20. H + 1 \in Nat
  BY <1>1
<1>21. Tree(Q, root, h1, up1, H + 1)
  BY <1>3, <1>4, <1>7, <1>16, <1>17, <1>18, <1>19, <1>20 DEF Tree
<1> QED
  BY <1>8, <1>21

(* The page of a call without parents is the root.                         *)
LEMMA CallForRoot ==
    ASSUME TreeInv, bal.on, NEW h, NEW up, Called(pages, geo.root, h, up, bal)
    PROVE  /\ bal \in CallsOn(pages) /\ Descends(pages, geo.root, h, up, geo.root, bal.parents, bal.page)
           /\ bal.internal \in Nat \union {NoPage} /\ bal = Balance(bal.page, bal.parents, bal.internal)
           /\ bal.parents = <<>> => bal.page = geo.root
<1>1. ~Idle.on
  BY DEF Idle
<1>2. bal \in CallsOn(pages) /\ Descends(pages, geo.root, h, up, geo.root, bal.parents, bal.page)
  BY <1>1 DEF Called
<1>3. bal.internal \in Nat \union {NoPage} /\ bal = Balance(bal.page, bal.parents, bal.internal)
  BY <1>2 DEF CallsOn, Balance
<1>4. ASSUME bal.parents = <<>> PROVE bal.page = geo.root
  <2>1. on_path(<<>>, bal.page, 1) = geo.root
    BY <1>2, <1>4 DEF Descends
  <2>2. Len(<<>>) + 1 = 1
    OBVIOUS
  <2> QED
    BY <2>1, <2>2 DEF on_path
<1> QED
  BY <1>2, <1>3, <1>4

(* The first level of balance() for a root that has too many cells.        *)
LEMMA RootOverflowKeepsInv ==
    ASSUME TreeInv, FixedCells(geo), bal.on, bal # Panic, RootOverflow, UNCHANGED <<geo, removed, dict>>
    PROVE  TreeInv'
<1> DEFINE root == geo.root
           new == next_pages(pages, 1)[1]
           P == below_root(new)
           slots == load_siblings(P[root], new)
           share == distribution(in_order(P, P[root], slots))
           Q == redistribute(P, root, slots, share)
<1>1. PICK h, up, H : Tree(pages, root, h, up, H) /\ Called(pages, root, h, up, bal)
  BY DEF TreeInv, Grown
<1>2. /\ bal \in CallsOn(pages) /\ bal.internal \in Nat \union {NoPage}
      /\ bal = Balance(bal.page, bal.parents, bal.internal)
      /\ bal.parents = <<>> /\ bal.page = root
  BY <1>1, CallForRoot DEF RootOverflow
<1>3. geo \in Geometries /\ NoneEmpty(pages, bal, root) /\ NoneTooLarge(pages, bal)
  BY DEF TreeInv
<1>4. IsFiniteSet(DOMAIN pages) /\ root \in DOMAIN pages
  BY <1>1 DEF Tree
<1>5. new \in Nat /\ new \notin DOMAIN pages \union {0}
  <2>1. 1 \in Nat /\ 1 \in 1..1
    OBVIOUS
  <2> QED
    BY <1>4, <2>1, NextPagesAreFree
<1>6. is_overflow(pages, root) /\ regroup(P, new, <<root>>)
  <2>1. is_overflow(pages, bal.page) /\ regroup(below_root(new), new, <<bal.page>>)
    BY DEF RootOverflow, below_root
  <2> HIDE DEF new
  <2> QED
    BY <1>2, <2>1
<1> HIDE DEF root, new
<1>7. LoweredRoot(P, pages, root, new)
  <2> DEFINE D == DOMAIN pages \union {new}
             first == [q \in D |-> IF q = new THEN pages[root] ELSE pages[q]]
  <2>1. P = [q \in D \union {root} |-> IF q = root THEN Node(<<>>, new) ELSE first[q]]
    BY <1>2 DEF below_root, set_page
  <2>2. D \union {root} = D /\ first[new] = pages[root] /\ new # root /\ new \in D /\ root \in D
        /\ \A q \in DOMAIN pages : q # root => first[q] = pages[q] /\ q \in D
    BY <1>4, <1>5
  <2>3. DOMAIN P = D
    BY <2>1, <2>2
  <2> HIDE DEF first, P
  <2> QED
    BY <2>1, <2>2, <2>3 DEF LoweredRoot
<1> HIDE DEF P
<1>8. PICK h1, up1 : Tree(P, root, h1, up1, H + 1) /\ h1[root] # 0
  BY <1>1, <1>5, <1>7, LoweredRootIsTree
<1>9. /\ P[root].cells = <<>> /\ \E s \in slots_of(P[root]) : child(P[root], s) = new
  <2>1. P[root] = Node(<<>>, new)
    BY <1>7 DEF LoweredRoot
  <2> DEFINE node == P[root]
  <2>2. node = Node(<<>>, new)
    BY <2>1
  <2> HIDE DEF node
  <2>3. node.cells = <<>> /\ 1 \in slots_of(node) /\ child(node, 1) = new
    BY ONLY <1>5, <2>2, OnlyChild
  <2> QED
    BY <2>3 DEF node
<1>10. root \in DOMAIN P
  BY <1>8 DEF Tree
<1>11. /\ share.ok
       /\ \E lo, hi, k, n, N, M : Regrouping(P, Q, root, lo, hi, k, n, N, M) /\ GroupFits(P, root, new, lo, hi, k, N)
  BY <1>3, <1>8, <1>9, <1>10, RegroupingIs
<1>12. Last(<<root>>) = root /\ Front(<<root>>) = <<>>
  BY DEF Last, Front
<1>13. regroup_as(P, <<root>>, slots, share)
  BY <1>6, <1>12 DEF regroup
<1> HIDE DEF slots, share
<1>14. pages' = Q /\ bal' = [bal EXCEPT !.page = root, !.parents = <<>>]
  BY <1>11, <1>12, <1>13 DEF regroup_as, go_up
<1>15. bal' = Balance(root, <<>>, bal.internal)
  <2> DEFINE i == bal.internal
  <2>1. bal = Balance(root, <<>>, i)
    BY <1>2
  <2> HIDE DEF i
  <2> QED
    BY <1>14, <2>1 DEF Balance, i
<1> HIDE DEF Q
<1>16. PICK lo, hi, k, n, N, M : Regrouping(P, Q, root, lo, hi, k, n, N, M) /\ GroupFits(P, root, new, lo, hi, k, N)
  BY <1>11
<1>17. geo.usable_space \in Nat /\ geo.zero_space \in Nat /\ \A p : space(p) \in Nat
  BY <1>3, GeometriesAssumption DEF space
<1>18. pages[root].cells # <<>>
  <2>1. SUFFICES ASSUME pages[root].cells = <<>> PROVE FALSE
    OBVIOUS
  <2>2. used_bytes(<<>>) > space(root)
    BY <1>6, <2>1 DEF is_overflow
  <2> QED
    BY <1>17, <2>2, NothingTakesNothing
<1>19. OthersFit(P, root, root, new)
  <2>1. DOMAIN P = DOMAIN pages \union {new} /\ \A q \in DOMAIN pages : q # root => P[q] = pages[q]
    BY <1>7 DEF LoweredRoot
  <2>2. ASSUME NEW p \in DOMAIN P \ {root}, P[p].cells = <<>> PROVE p = new
    <3>1. SUFFICES ASSUME p # new PROVE FALSE
      OBVIOUS
    <3>2. p \in DOMAIN pages \ {root} /\ pages[p].cells = <<>>
      BY <2>1, <2>2, <3>1
    <3> QED
      BY <1>2, <1>3, <1>18, <3>2 DEF NoneEmpty
  <2>3. ASSUME NEW p \in DOMAIN P, is_overflow(P, p) PROVE p = new
    <3>1. SUFFICES ASSUME p # new PROVE FALSE
      OBVIOUS
    <3>2. CASE p = root
      <4>1. used_bytes(<<>>) > space(root)
        BY <1>9, <2>3, <3>2 DEF is_overflow
      <4> QED
        BY <1>17, <4>1, NothingTakesNothing
    <3>3. CASE p # root
      <4>1. p \in DOMAIN pages /\ is_overflow(pages, p)
        BY <2>1, <2>3, <3>1, <3>3 DEF is_overflow
      <4> QED
        BY <1>2, <1>3, <3>3, <4>1 DEF NoneTooLarge
    <3> QED
      BY <3>2, <3>3
  <2> QED
    BY <2>2, <2>3 DEF OthersFit
<1>20. Descends(P, root, h1, up1, root, <<>>, root)
  <2>1. h1[root] \in Nat
    BY <1>8, <1>10, TreeNode
  <2> QED
    BY <1>10, <2>1, DescendNowhere
<1>21. Grown(Q, bal', root) /\ NoneEmpty(Q, bal', root) /\ NoneTooLarge(Q, bal')
  <2> DEFINE i == bal.internal
  <2>1. bal' = Balance(root, <<>>, i) /\ i \in Nat \union {NoPage} /\ geo \in Geometries /\ FixedCells(geo)
    BY <1>2, <1>3, <1>15
  <2> HIDE DEF i
  <2> QED
    BY <1>8, <1>10, <1>16, <1>19, <1>20, <2>1, GroupKeepsInv
<1> QED
  BY <1>3, <1>14, <1>21, TreeInvNext DEF TreeInv, root

-----------------------------------------------------------------------------
(* The empty root takes the place of its only child.                       *)

RaisedRoot(Q, P, root, x) ==
    /\ DOMAIN Q = DOMAIN P \ {x} /\ Q[root] = P[x]
    /\ \A q \in DOMAIN P \ {x} : q # root => Q[q] = P[q]

LEMMA RaisedRootIsTree ==
    ASSUME NEW P, NEW Q, NEW root, NEW h, NEW up, NEW H, Tree(P, root, h, up, H),
           P[root].cells = <<>>, h[root] # 0, NEW x, x = P[root].right, RaisedRoot(Q, P, root, x)
    PROVE  /\ x \in DOMAIN P \ {root, 0}
           /\ \E h1, up1 : Tree(Q, root, h1, up1, H)
<1> DEFINE D == DOMAIN P \ {x}
           h1 == [q \in D |-> IF q = root THEN h[x] ELSE h[q]]
           up1 == [q \in D |-> IF q # root /\ up[q] = x THEN root ELSE up[q]]
<1>1. /\ IsFiniteSet(DOMAIN P) /\ root \in DOMAIN P
      /\ H \in Nat /\ \A q \in DOMAIN P : h[q] \in 0..H
      /\ \A q \in DOMAIN P \ {root} : Attached(P, h, up, q)
  BY DEF Tree
<1>2. \A q \in DOMAIN P : q \in Nat /\ P[q] \in FlatNode /\ InPlace(P, root, h, up, q)
  BY DEF Tree
<1>3. /\ \A s \in slots_of(P[root]) : child(P[root], s) = x
      /\ 1 \in slots_of(P[root]) /\ child(P[root], 1) = x
  <2> DEFINE node == P[root]
  <2>1. node \in FlatNode /\ node.cells = <<>> /\ node.right = x
    BY <1>1, <1>2
  <2> HIDE DEF node
  <2>2. Len(node.cells) + 1 = 1
    BY <2>1
  <2>3. slots_of(node) = {1} /\ child(node, 1) = x
    BY <2>1, <2>2 DEF slots_of, child
  <2> QED
    BY <2>3 DEF node
<1>4. x \in DOMAIN P /\ x # root /\ x # 0 /\ h[x] = h[root] - 1 /\ up[x] = root
  <2>1. IsBelow(P, root, h, up, x, root)
    BY <1>1, <1>2, <1>3 DEF InPlace
  <2> QED
    BY <2>1 DEF IsBelow
<1>5. DOMAIN Q = D /\ Q[root] = P[x] /\ \A q \in D : q # root => Q[q] = P[q]
  BY DEF RaisedRoot
<1>6. root \in D /\ h1[root] = h[x] /\ \A q \in D : q # root => h1[q] = h[q]
  BY <1>1, <1>4
<1>7. \A q \in D : q # root => (up[q] = x => up1[q] = root) /\ (up[q] # x => up1[q] = up[q])
  OBVIOUS
<1>8. h1 \in [D -> 0..H]
  BY <1>1, <1>4
<1>9. \A q \in DOMAIN P : q \in D <=> q # x
  OBVIOUS
<1>10. D \subseteq DOMAIN P
  OBVIOUS
<1> HIDE DEF h1, up1, D
<1>11. InPlace(Q, root, h1, up1, root)
  <2>1. InPlace(P, root, h, up, x)
    BY <1>2, <1>4
  <2>2. CASE h[x] = 0
    BY <1>5, <1>6, <2>1, <2>2 DEF InPlace
  <2>3. CASE h[x] # 0
    <3>1. ASSUME NEW s \in slots_of(P[x]) PROVE IsBelow(Q, root, h1, up1, child(P[x], s), root)
      <4> DEFINE c == child(P[x], s)
      <4>1. IsBelow(P, root, h, up, c, x)
        BY <2>1, <2>3 DEF InPlace
      <4> HIDE DEF c
      <4>2. c \in DOMAIN P /\ c # root /\ c # 0 /\ h[c] = h[x] - 1 /\ up[c] = x
        BY <4>1 DEF IsBelow
      <4>3. c # x
        BY <1>4, <4>2
      <4>4. c \in DOMAIN Q /\ h1[c] = h[c] /\ up1[c] = root
        BY <1>5, <1>6, <1>7, <1>9, <4>2, <4>3
      <4>5. IsBelow(Q, root, h1, up1, c, root)
        BY <1>6, <2>3, <4>2, <4>4 DEF IsBelow
      <4> QED
        BY <4>5 DEF c
    <3> QED
      BY <1>5, <1>6, <2>1, <2>3, <3>1 DEF InPlace
  <2> QED
    BY <2>2, <2>3
<1>12. ASSUME NEW q \in D, q # root PROVE InPlace(Q, root, h1, up1, q)
  <2>1. q \in DOMAIN P /\ q # x /\ InPlace(P, root, h, up, q) /\ h1[q] = h[q] /\ Q[q] = P[q]
    BY <1>2, <1>5, <1>6, <1>9, <1>10, <1>12
  <2>2. CASE h[q] = 0
    BY <2>1, <2>2 DEF InPlace
  <2>3. CASE h[q] # 0
    <3>1. ASSUME NEW s \in slots_of(P[q]) PROVE IsBelow(Q, root, h1, up1, child(P[q], s), q)
      <4> DEFINE c == child(P[q], s)
      <4>1. IsBelow(P, root, h, up, c, q)
        BY <2>1, <2>3 DEF InPlace
      <4> HIDE DEF c
      <4>2. c \in DOMAIN P /\ c # root /\ c # 0 /\ h[c] = h[q] - 1 /\ up[c] = q
        BY <4>1 DEF IsBelow
      <4>3. c # x
        BY <1>4, <1>12, <4>2
      <4>4. c \in DOMAIN Q /\ h1[c] = h[c] /\ up1[c] = q
        BY <1>5, <1>6, <1>7, <1>9, <2>1, <4>2, <4>3
      <4>5. IsBelow(Q, root, h1, up1, c, q)
        BY <2>1, <2>3, <4>2, <4>4 DEF IsBelow
      <4> QED
        BY <4>5 DEF c
    <3> QED
      BY <2>1, <2>3, <3>1 DEF InPlace
  <2> QED
    BY <2>2, <2>3
<1>13. ASSUME NEW q \in D, q # root PROVE Attached(Q, h1, up1, q)
  <2>1. q \in DOMAIN P /\ q # x
    BY <1>9, <1>10
  <2>2. up[q] \in DOMAIN P /\ h[up[q]] # 0 /\ \E s \in slots_of(P[up[q]]) : child(P[up[q]], s) = q
    BY <1>1, <1>13, <2>1 DEF Attached
  <2>3. up[q] # root
    BY <1>3, <2>1, <2>2
  <2>4. CASE up[q] = x
    <3>1. up1[q] = root /\ root \in DOMAIN Q /\ h1[root] # 0 /\ Q[root] = P[up[q]]
      BY <1>5, <1>6, <1>7, <1>13, <2>2, <2>4
    <3> QED
      BY <2>2, <3>1 DEF Attached
  <2>5. CASE up[q] # x
    <3>1. up1[q] = up[q] /\ up[q] \in DOMAIN Q /\ h1[up[q]] = h[up[q]] /\ Q[up[q]] = P[up[q]]
      BY <1>5, <1>6, <1>7, <1>9, <1>13, <2>2, <2>3, <2>5
    <3> QED
      BY <2>2, <3>1 DEF Attached
  <2> QED
    BY <2>4, <2>5
<1>14. IsFiniteSet(DOMAIN Q)
  BY <1>1, <1>5, <1>10, FS_Subset
<1>15. \A q \in DOMAIN Q : q \in Nat /\ Q[q] \in FlatNode
  BY <1>2, <1>4, <1>5, <1>10
<1>16. \A q \in DOMAIN Q : InPlace(Q, root, h1, up1, q)
  BY <1>5, <1>11, <1>12
<1>17. \A q \in DOMAIN Q \ {root} : Attached(Q, h1, up1, q)
  BY <1>5, <1>13
<1>18. Tree(Q, root, h1, up1, H)
  BY <1>1, <1>5, <1>6, <1>8, <1>14, <1>15, <1>16, <1>17 DEF Tree
<1> QED
  BY <1>4, <1>18

LEMMA OnlyRightChild ==
    ASSUME NEW P, NEW root, NEW h, NEW up, NEW H, Tree(P, root, h, up, H), root \in DOMAIN P, h[root] # 0
    PROVE  P[root].right # root
<1>1. Len(P[root].cells) \in Nat
  BY TreeNode
<1>2. Len(P[root].cells) + 1 \in slots_of(P[root]) /\ child(P[root], Len(P[root].cells) + 1) = P[root].right
  BY <1>1 DEF slots_of, child
<1> QED
  BY <1>2, ChildIsBelow DEF IsBelow

LEMMA NoPageBelowIsZero ==
    ASSUME NEW P, NEW root, NEW h, NEW up, NEW H, Tree(P, root, h, up, H), NEW p \in DOMAIN P \ {root}
    PROVE  p # 0
<1>1. up[p] \in DOMAIN P /\ h[up[p]] # 0 /\ \E s \in slots_of(P[up[p]]) : child(P[up[p]], s) = p
  BY DEF Tree, Attached
<1>2. IsBelow(P, root, h, up, p, up[p])
  BY <1>1, ChildIsBelow
<1> QED
  BY <1>2 DEF IsBelow

(* The last level of balance(), for an empty root.                         *)
LEMMA RootUnderflowKeepsInv ==
    ASSUME TreeInv, bal.on, RootUnderflow, UNCHANGED <<geo, removed, dict>>
    PROVE  TreeInv'
<1> DEFINE root == geo.root
           x == pages[root].right
           Q == IF is_leaf(pages[root]) \/ used_bytes(pages[x].cells) > free_space(pages, root)
                THEN pages
                ELSE free_pages(set_page(pages, root, pages[x]), {x})
<1>1. PICK h, up, H : Tree(pages, root, h, up, H) /\ Called(pages, root, h, up, bal)
  BY DEF TreeInv, Grown
<1>2. bal.page = root
  BY <1>1, CallForRoot DEF RootUnderflow
<1>3. geo \in Geometries /\ NoneEmpty(pages, bal, root) /\ NoneTooLarge(pages, bal)
  BY DEF TreeInv
<1>4. pages[root].cells = <<>> /\ balance_returns(<<>>) /\ pages' = Q
  BY <1>2 DEF RootUnderflow
<1>5. bal' = Idle
  <2>1. {i \in DOMAIN <<>> : <<>>[i] = bal.internal} = {}
    OBVIOUS
  <2> QED
    BY <1>4, <2>1 DEF balance_returns
<1>6. root \in DOMAIN pages
  BY <1>1 DEF Tree
<1>7. used_bytes(pages[root].cells) = 0 /\ space(root) \in Nat /\ free_space(pages, root) = space(root)
  <2>1. geo.usable_space \in Nat /\ geo.zero_space \in Nat
    BY <1>3, GeometriesAssumption
  <2>2. used_bytes(pages[root].cells) = 0 /\ space(root) \in Nat
    BY <1>4, <2>1, NothingTakesNothing DEF space
  <2> QED
    BY <2>2 DEF free_space
<1> HIDE DEF root
<1>8. \A p \in DOMAIN pages \ {root} : pages[p].cells = <<>> => p = x
  BY <1>2, <1>3 DEF NoneEmpty
<1>9. \A p \in DOMAIN pages : ~is_overflow(pages, p)
  <2>1. ~is_overflow(pages, root)
    <3> DEFINE u == used_bytes(pages[root].cells)
               m == space(root)
    <3>1. is_overflow(pages, root) <=> u > m
      BY DEF is_overflow
    <3>2. u = 0 /\ m \in Nat
      BY <1>7
    <3> HIDE DEF u, m
    <3> QED
      BY ONLY <3>1, <3>2
  <2> QED
    BY <1>2, <1>3, <2>1 DEF NoneTooLarge
<1>10. Grown(Q, Idle, root) /\ NoneEmpty(Q, Idle, root) /\ NoneTooLarge(Q, Idle)
  <2>1. CASE Q = pages /\ \A p \in DOMAIN pages \ {root} : pages[p].cells # <<>>
    BY <1>1, <1>9, <2>1 DEF Grown, Called, NoneEmpty, NoneTooLarge
  <2>2. CASE is_leaf(pages[root])
    <3>1. x = 0
      BY <2>2 DEF is_leaf
    <3>2. \A p \in DOMAIN pages \ {root} : pages[p].cells # <<>>
      BY <1>1, <1>8, <3>1, NoPageBelowIsZero
    <3> QED
      BY <2>1, <2>2, <3>2
  <2>3. CASE ~is_leaf(pages[root]) /\ used_bytes(pages[x].cells) > free_space(pages, root)
    <3>1. ~(used_bytes(<<>>) > free_space(pages, root))
      BY <1>7, NothingTakesNothing
    <3>2. \A p \in DOMAIN pages \ {root} : pages[p].cells # <<>>
      BY <1>8, <2>3, <3>1
    <3> QED
      BY <2>1, <2>3, <3>2
  <2>4. CASE ~is_leaf(pages[root]) /\ ~(used_bytes(pages[x].cells) > free_space(pages, root))
    <3>1. Q = free_pages(set_page(pages, root, pages[x]), {x})
      BY <2>4
    <3>2. RaisedRoot(Q, pages, root, x)
      <4>1. h[root] # 0
        BY <1>1, <1>6, <2>4, LeavesAreLow
      <4> DEFINE whole == set_page(pages, root, pages[x])
      <4>2. x # root
        BY <1>1, <1>4, <1>6, <4>1, OnlyRightChild
      <4>3. DOMAIN whole = DOMAIN pages /\ whole[root] = pages[x]
            /\ \A q \in DOMAIN pages : q # root => whole[q] = pages[q]
        BY <1>6 DEF set_page
      <4> HIDE DEF whole, x, Q
      <4>4. Q = [q \in DOMAIN pages \ {x} |-> whole[q]]
        BY <3>1, <4>3 DEF free_pages, whole
      <4> QED
        BY <1>6, <4>2, <4>3, <4>4 DEF RaisedRoot
    <3> HIDE DEF Q
    <3>3. h[root] # 0
      BY <1>1, <1>6, <2>4, LeavesAreLow
    <3>4. x \in DOMAIN pages \ {root, 0} /\ \E h1, up1 : Tree(Q, root, h1, up1, H)
      BY <1>1, <1>4, <3>2, <3>3, RaisedRootIsTree
    <3>5. Grown(Q, Idle, root)
      BY <3>4 DEF Grown, Called
    <3>6. DOMAIN Q = DOMAIN pages \ {x} /\ Q[root] = pages[x] /\ \A q \in DOMAIN Q : q # root => Q[q] = pages[q]
      BY <3>2 DEF RaisedRoot
    <3>7. NoneEmpty(Q, Idle, root)
      <4>1. \A p \in DOMAIN Q \ {root} : Q[p].cells # <<>>
        BY <1>8, <3>6
      <4> QED
        BY <4>1 DEF NoneEmpty
    <3>8. NoneTooLarge(Q, Idle)
      <4>1. ~is_overflow(Q, root)
        BY <1>7, <2>4, <3>6 DEF is_overflow
      <4>2. \A q \in DOMAIN Q : q # root => ~is_overflow(Q, q)
        BY <1>9, <3>6 DEF is_overflow
      <4> QED
        BY <4>1, <4>2 DEF NoneTooLarge
    <3> QED
      BY <3>5, <3>7, <3>8
  <2> QED
    BY <2>2, <2>3, <2>4
<1> HIDE DEF Q
<1> QED
  BY <1>3, <1>4, <1>5, <1>10, TreeInvNext DEF TreeInv, root

-----------------------------------------------------------------------------
(* Every step.                                                             *)

LEMMA LeastOfSlots ==
    ASSUME NEW n \in Nat, NEW S, S \subseteq 1..n, S # {}
    PROVE  Min(S) \in S
<1>1. S \subseteq Nat
  OBVIOUS
<1>2. \E x \in S : \A y \in S : x <= y
  BY <1>1, LeastElement
<1> QED
  BY <1>2 DEF Min

(* A call of balance() for a page that is in balance: the next one, if     *)
(* there is one, is for a page above it.                                   *)
LEMMA BalancedAlreadyKeepsInv ==
    ASSUME TreeInv, bal.on, BalancedAlready, UNCHANGED <<geo, removed, dict>>
    PROVE  TreeInv'
<1> DEFINE root == geo.root
           up0 == bal.parents
           left == {i \in DOMAIN up0 : up0[i] = bal.internal}
           rest == SubSeq(up0, 1, Min(left) - 1)
<1>1. PICK h, up, H : Tree(pages, root, h, up, H) /\ Called(pages, root, h, up, bal)
  BY DEF TreeInv, Grown
<1>2. /\ Descends(pages, root, h, up, root, up0, bal.page)
      /\ bal.internal \in Nat \union {NoPage}
  BY <1>1, CallForRoot
<1>3. geo \in Geometries /\ NoneEmpty(pages, bal, root) /\ NoneTooLarge(pages, bal)
  BY DEF TreeInv
<1>4. /\ pages' = pages /\ ~is_overflow(pages, bal.page) /\ pages[bal.page].cells # <<>>
      /\ bal' = IF left = {} THEN Idle ELSE Balance(bal.internal, rest, NoPage)
  BY DEF BalancedAlready, underflows, balance_returns
<1>5. \A p \in DOMAIN pages : ~is_overflow(pages, p)
  BY <1>3, <1>4 DEF NoneTooLarge
<1>6. \A p \in DOMAIN pages \ {root} : pages[p].cells # <<>>
  BY <1>3, <1>4 DEF NoneEmpty
<1> HIDE DEF root
<1>7. Called(pages, root, h, up, bal')
  <2>1. CASE left = {}
    BY <1>4, <2>1 DEF Called
  <2>2. CASE left # {}
    <3>1. up0 \in Seq(DOMAIN pages) /\ Len(up0) \in Nat /\ DOMAIN up0 = 1..Len(up0)
      BY <1>2 DEF Descends
    <3>2. Min(left) \in left
      BY <2>2, <3>1, LeastOfSlots
    <3>3. Min(left) \in 1..Len(up0) /\ up0[Min(left)] = bal.internal
      BY <3>1, <3>2
    <3>4. Descends(pages, root, h, up, root, rest, bal.internal)
      <4> DEFINE i == Min(left)
                 path == up0
      <4>1. i \in 1..Len(path) /\ path[i] = bal.internal /\ rest = SubSeq(path, 1, i - 1)
        BY <3>3
      <4>2. Descends(pages, root, h, up, root, path, bal.page)
        BY <1>2
      <4> HIDE DEF i, path, rest
      <4>3. Descends(pages, root, h, up, root, SubSeq(path, 1, i - 1), path[i])
        BY <4>1, <4>2, DescendLess
      <4> QED
        BY <4>1, <4>3
    <3> HIDE DEF rest, left
    <3>5. bal' = Balance(bal.internal, rest, NoPage)
      BY <1>4, <2>2
    <3>6. node_pages(pages) = DOMAIN pages
      BY <1>1, AllAreNodes
    <3>7. rest \in Seq(DOMAIN pages) /\ bal.internal \in DOMAIN pages
      BY <3>4 DEF Descends
    <3>8. bal' \in CallsOn(pages) /\ bal'.parents = rest /\ bal'.page = bal.internal
      BY <3>5, <3>6, <3>7 DEF CallsOn, Balance
    <3> QED
      BY <3>4, <3>8 DEF Called
  <2> QED
    BY <2>1, <2>2
<1>8. Grown(pages', bal', root) /\ NoneEmpty(pages', bal', root) /\ NoneTooLarge(pages', bal')
  BY <1>1, <1>4, <1>5, <1>6, <1>7 DEF Grown, NoneEmpty, NoneTooLarge
<1> QED
  BY <1>3, <1>8, TreeInvNext DEF TreeInv, root

LEMMA BalanceKeepsInv ==
    ASSUME TreeInv, FixedCells(geo), balance
    PROVE  TreeInv'
<1>1. bal.on /\ bal # Panic /\ UNCHANGED <<geo, removed, dict>>
  BY DEF balance
<1>2. BalancedAlready \/ RootUnderflow \/ RootOverflow \/ NodeUnbalanced
  BY DEF balance
<1> QED
  BY <1>1, <1>2, BalancedAlreadyKeepsInv, RootUnderflowKeepsInv, RootOverflowKeepsInv, NodeUnbalancedKeepsInv

LEMMA StepKeepsInv ==
    ASSUME TreeInv, FixedCells(geo), [Next]_vars
    PROVE  TreeInv'
<1>1. CASE balance
  BY <1>1, BalanceKeepsInv
<1>2. CASE FreeRemoved
  BY <1>2, FreeRemovedKeepsInv
<1>3. ASSUME NEW k \in geo.keys, NEW l \in geo.lens, insert(k, l) PROVE TreeInv'
  BY <1>3, InsertKeepsInv
<1>4. ASSUME NEW k \in geo.keys, NEW l \in geo.lens, try_insert(k, l) PROVE TreeInv'
  BY <1>4, TryInsertKeepsInv
<1>5. ASSUME NEW k \in geo.keys, remove(k) PROVE TreeInv'
  BY <1>5, RemoveKeepsInv
<1>6. CASE UNCHANGED vars
  <2>1. UNCHANGED geo /\ pages' = pages /\ bal' = bal /\ removed' = removed /\ dict' = dict
    BY <1>6 DEF vars
  <2> QED
    BY <2>1, TreeInvNext DEF TreeInv
<1> QED
  BY <1>1, <1>2, <1>3, <1>4, <1>5, <1>6 DEF Next

(* A page with too many cells, or with none, is one that balance() is      *)
(* called for or about to merge.                                           *)
LEMMA TreeInvIsPending ==
    ASSUME TreeInv
    PROVE  OnlyPendingUnbalanced
<1> DEFINE root == geo.root
<1>1. ASSUME NEW p \in DOMAIN pages, is_overflow(pages, p) PROVE p = bal.page
  BY <1>1 DEF TreeInv, NoneTooLarge
<1>2. ASSUME NEW p \in DOMAIN pages, p # root, pages[p].cells = <<>>
      PROVE  p = bal.page \/ (bal.page = root /\ pages[root] = Node(<<>>, p))
  <2>1. p = bal.page \/ (bal.page = root /\ pages[root].cells = <<>> /\ pages[root].right = p)
    BY <1>2 DEF TreeInv, NoneEmpty
  <2>2. pages[root] \in FlatNode
    BY DEF TreeInv, Grown, Tree
  <2> HIDE DEF root
  <2>3. pages[root] = Node(pages[root].cells, pages[root].right)
    BY <2>2 DEF FlatNode, Node
  <2> QED
    BY <2>1, <2>3
<1> QED
  BY <1>1, <1>2 DEF OnlyPendingUnbalanced

(* The invariant of trees whose entries have one length and fit in their   *)
(* cells, two of them in a page with the divider between them.             *)
LEMMA TreesStayTrees ==
    ASSUME \A g \in Geometries : FixedCells(g)
    PROVE  Spec => []TreeInv
<1>1. Init => TreeInv
  BY BeginsWithRoot
<1>2. TreeInv /\ [Next]_vars => TreeInv'
  BY StepKeepsInv DEF TreeInv
<1> QED
  BY <1>1, <1>2, PTL DEF Spec

(* Such a tree keeps the types of its pages and of the call of balance()   *)
(* that is under way: no level of balance() counts below zero, reads past  *)
(* the first cell when it moves cells to the right, or goes on with a page *)
(* that is not a node.                                                     *)
THEOREM TreesKeepTypes ==
    ASSUME \A g \in Geometries : FixedCells(g)
    PROVE  Spec => []TypeOK
<1>1. TreeInv => TypeOK
  BY TreeInvHasTypes
<1> QED
  BY <1>1, TreesStayTrees, PTL

(* In such a tree only the page that balance() is called for, or the one   *)
(* page below an empty root that it is called for, is out of balance.      *)
THEOREM OnlyPendingPagesAreUnbalanced ==
    ASSUME \A g \in Geometries : FixedCells(g)
    PROVE  Spec => []OnlyPendingUnbalanced
<1>1. TreeInv => OnlyPendingUnbalanced
  BY TreeInvIsPending
<1> QED
  BY <1>1, TreesStayTrees, PTL

(* In such a tree the recursion of balance() comes to an end.              *)
THEOREM BalanceEnds ==
    ASSUME \A g \in Geometries : FixedCells(g)
    PROVE  Spec => BalanceGoesUp
<1>1. \A g \in Geometries : HalfPages(g) /\ OneLength(g)
  BY DEF FixedCells
<1>2. Spec /\ []TypeOK => BalanceGoesUp
  BY <1>1, BalanceRises
<1> QED
  BY <1>2, TreesKeepTypes

-----------------------------------------------------------------------------
(* Walks over the whole tree.                                              *)

(* A function whose value at a point follows from those at points of lower *)
(* rank, as `step' makes it of the whole function.                         *)
Ranked(D, W, w0, N, rank, step) ==
    /\ w0 \in W /\ N \in Nat /\ rank \in [D -> 0..N]
    /\ \A x \in D, f \in [D -> W] : step[<<x, f>>] \in W
    /\ \A x \in D : \A f, g \in [D -> W] :
           (\A y \in D : rank[y] < rank[x] => f[y] = g[y]) => step[<<x, f>>] = step[<<x, g>>]

LEMMA RankedExists ==
    ASSUME NEW D, NEW W, NEW w0, NEW N, NEW rank, NEW step, Ranked(D, W, w0, N, rank, step)
    PROVE  \E f \in [D -> W] : \A x \in D : f[x] = step[<<x, f>>]
<1>0. /\ w0 \in W /\ N \in Nat /\ rank \in [D -> 0..N]
      /\ \A x \in D, f \in [D -> W] : step[<<x, f>>] \in W
      /\ \A x \in D : \A f, g \in [D -> W] :
             (\A y \in D : rank[y] < rank[x] => f[y] = g[y]) => step[<<x, f>>] = step[<<x, g>>]
  BY DEF Ranked
<1> DEFINE Up(f, n) == \A x \in D : rank[x] < n => f[x] = step[<<x, f>>]
           T == {n \in 0..(N + 1) : \E f \in [D -> W] : Up(f, n)}
<1>1. 0 \in T
  <2> DEFINE f == [x \in D |-> w0]
  <2>1. f \in [D -> W] /\ Up(f, 0)
    BY <1>0
  <2> HIDE DEF f
  <2> QED
    BY <1>0, <2>1
<1>2. ASSUME NEW n \in 1..(N + 1), n - 1 \in T PROVE n \in T
  <2>1. PICK f \in [D -> W] : Up(f, n - 1)
    BY <1>2
  <2> DEFINE g == [x \in D |-> IF rank[x] = n - 1 THEN step[<<x, f>>] ELSE f[x]]
  <2>2. g \in [D -> W]
    BY <1>0
  <2>3. ASSUME NEW x \in D, rank[x] < n - 1 PROVE g[x] = f[x]
    BY <1>0, <2>3
  <2>4. ASSUME NEW x \in D, rank[x] < n PROVE g[x] = step[<<x, f>>]
    <3>1. rank[x] = n - 1 \/ rank[x] < n - 1
      BY <1>0, <2>4
    <3> QED
      BY <2>1, <2>3, <3>1
  <2> HIDE DEF g
  <2>5. ASSUME NEW x \in D, rank[x] < n PROVE step[<<x, g>>] = step[<<x, f>>]
    <3>1. \A y \in D : rank[y] < rank[x] => g[y] = f[y]
      BY <1>0, <2>3, <2>5
    <3> QED
      BY <1>0, <2>1, <2>2, <3>1
  <2>6. Up(g, n)
    BY <2>4, <2>5
  <2> QED
    BY <2>2, <2>6
<1>3. N + 1 \in T
  <2>1. N + 1 \in Nat /\ N + 1 \in 0..(N + 1)
    BY <1>0
  <2> HIDE DEF T
  <2> QED
    BY <1>1, <1>2, <2>1, UpwardClosed
<1>4. PICK f \in [D -> W] : Up(f, N + 1)
  BY <1>3
<1>5. \A x \in D : rank[x] < N + 1
  BY <1>0
<1> QED
  BY <1>4, <1>5

(* J[i] is the first i sequences in a row.                                 *)
Joins(J, parts, n) == J[1] = parts[1] /\ \A i \in 2..n : J[i] = J[i - 1] \o parts[i]

LEMMA FlattenJoins ==
    ASSUME NEW S, NEW n \in Nat \ {0}, NEW parts \in [1..n -> Seq(S)]
    PROVE  \E J \in [1..n -> Seq(S)] : Joins(J, parts, n) /\ FlattenSeq(parts) = J[n]
<1> DEFINE m == n - 1
           step == [p \in (1..m) \X Seq(S) |-> p[2] \o parts[p[1] + 1]]
           Of(f) == [i \in 1..n |-> IF i = 1 THEN parts[i] ELSE f[i - 1] \o parts[i]]
           J == CHOOSE f : f = Of(f)
<1>1. m \in Nat /\ \A i \in 1..m : i + 1 \in 1..n /\ i + 1 # 1
  OBVIOUS
<1>2. 1 \in 1..n /\ parts[1] \in Seq(S)
  OBVIOUS
<1>3. ASSUME NEW i \in 1..m, NEW v \in Seq(S)
      PROVE  step[<<i, v>>] = v \o parts[i + 1] /\ step[<<i, v>>] \in Seq(S)
  <2>1. parts[i + 1] \in Seq(S)
    BY <1>1
  <2>2. v \o parts[i + 1] \in Seq(S)
    BY <2>1, ConcatProperties
  <2> QED
    BY <2>2
<1>4. PICK f : Iterates(f, m, Seq(S), parts[1], step)
  <2> HIDE DEF m, step
  <2> QED
    BY <1>1, <1>2, <1>3, IterationExists
<1>5. f \in [0..m -> Seq(S)] /\ f[0] = parts[1] /\ \A i \in 1..m : f[i] = step[<<i, f[i - 1]>>]
  BY <1>4 DEF Iterates
<1> DEFINE g == [i \in 1..n |-> f[i - 1]]
<1>6. \A i \in 1..n : g[i] \in Seq(S) /\ g[i] = IF i = 1 THEN parts[i] ELSE g[i - 1] \o parts[i]
  <2> SUFFICES ASSUME NEW i \in 1..n
               PROVE  g[i] \in Seq(S) /\ g[i] = IF i = 1 THEN parts[i] ELSE g[i - 1] \o parts[i]
    OBVIOUS
  <2>1. i - 1 \in 0..m /\ g[i] = f[i - 1] /\ g[i] \in Seq(S)
    BY <1>5
  <2>2. CASE i = 1
    BY <1>5, <2>1, <2>2
  <2>3. CASE i # 1
    <3>1. i - 1 \in 1..m /\ i - 1 \in 1..n /\ i - 2 \in 0..m /\ (i - 1) - 1 = i - 2 /\ (i - 1) + 1 = i
      BY <2>3
    <3>2. g[i - 1] = f[i - 2] /\ f[i - 2] \in Seq(S)
      BY <1>5, <3>1
    <3>3. f[i - 1] = step[<<i - 1, f[i - 2]>>]
      <4> HIDE DEF step, g
      <4> QED
        BY <1>5, <3>1
    <3>4. f[i - 1] = f[i - 2] \o parts[i]
      <4> HIDE DEF step, g
      <4> QED
        BY <1>3, <3>1, <3>2, <3>3
    <3> HIDE DEF g
    <3> QED
      BY <2>1, <2>3, <3>2, <3>4
  <2> QED
    BY <2>2, <2>3
<1>7. g = Of(g)
  <2>1. g = [i \in 1..n |-> g[i]]
    OBVIOUS
  <2> HIDE DEF g
  <2> QED
    BY <1>6, <2>1
<1>8. J = Of(J)
  <2> HIDE DEF Of, g
  <2> QED
    BY <1>7
<1>9. Len(parts) = n /\ FlattenSeq(parts) = J[n]
  <2>1. Len(parts) = n
    OBVIOUS
  <2> QED
    BY <2>1 DEF FlattenSeq
<1> HIDE DEF J
<1>10. \A i \in 1..n : J[i] = IF i = 1 THEN parts[i] ELSE J[i - 1] \o parts[i]
  BY <1>8
<1>11. \A i \in 2..n : i \in 1..n /\ i # 1 /\ i - 1 \in 1..n
  OBVIOUS
<1>12. Joins(J, parts, n)
  BY <1>2, <1>10, <1>11 DEF Joins
<1> DEFINE T == {i \in 0..m : J[i + 1] \in Seq(S)}
<1>13. \A i \in 0..m : i \in T
  <2>1. 0 \in T
    BY <1>2, <1>10
  <2>2. ASSUME NEW i \in 1..m, i - 1 \in T PROVE i \in T
    <3>1. i + 1 \in 1..n /\ i + 1 # 1 /\ (i + 1) - 1 = i /\ (i - 1) + 1 = i
      OBVIOUS
    <3>2. J[i] \in Seq(S) /\ J[i + 1] = J[i] \o parts[i + 1] /\ parts[i + 1] \in Seq(S)
      BY <1>10, <2>2, <3>1
    <3>3. J[i + 1] \in Seq(S)
      BY <3>2, ConcatProperties
    <3> QED
      BY <3>3
  <2> HIDE DEF T, m
  <2> QED
    BY <1>1, <2>1, <2>2, UpwardClosed
<1>14. J \in [1..n -> Seq(S)]
  <2>1. \A i \in 1..n : J[i] \in Seq(S)
    <3> SUFFICES ASSUME NEW i \in 1..n PROVE J[i] \in Seq(S)
      OBVIOUS
    <3>1. i - 1 \in 0..m /\ (i - 1) + 1 = i
      OBVIOUS
    <3>2. i - 1 \in T
      BY <1>13, <3>1
    <3> QED
      BY <3>1, <3>2
  <2>2. J = [i \in 1..n |-> J[i]]
    BY <1>8
  <2> QED
    BY <2>1, <2>2
<1> QED
  BY <1>9, <1>12, <1>14

-----------------------------------------------------------------------------
(* The pages below a page.                                                 *)

(* A[n][q] is the page n levels above page q, or the root if that is less. *)
Ancestors(A, P, root, up, N) ==
    /\ A \in [0..N -> [DOMAIN P -> DOMAIN P]]
    /\ \A q \in DOMAIN P : A[0][q] = q
    /\ \A n \in 1..N, q \in DOMAIN P :
           A[n][q] = IF A[n - 1][q] = root THEN root ELSE up[A[n - 1][q]]

LEMMA AncestorsExist ==
    ASSUME NEW P, NEW root, NEW h, NEW up, NEW H, Tree(P, root, h, up, H), NEW N \in Nat
    PROVE  \E A : Ancestors(A, P, root, up, N)
<1> DEFINE D == DOMAIN P
           V == [D -> D]
           first == [q \in D |-> q]
           step == [p \in (1..N) \X V |-> [q \in D |-> IF p[2][q] = root THEN root ELSE up[p[2][q]]]]
<1>1. root \in D /\ \A q \in D : q # root => up[q] \in D
  <2>1. root \in D
    BY DEF Tree
  <2> QED
    BY <2>1, IsBelowUp
<1> HIDE DEF D
<1>2. first \in V
  OBVIOUS
<1>3. ASSUME NEW n \in 1..N, NEW v \in V
      PROVE  /\ step[<<n, v>>] = [q \in D |-> IF v[q] = root THEN root ELSE up[v[q]]]
             /\ step[<<n, v>>] \in V
  <2>1. step[<<n, v>>] = [q \in D |-> IF v[q] = root THEN root ELSE up[v[q]]]
    OBVIOUS
  <2>2. \A q \in D : (IF v[q] = root THEN root ELSE up[v[q]]) \in D
    BY <1>1
  <2> HIDE DEF step
  <2> QED
    BY <2>1, <2>2
<1>4. PICK A : Iterates(A, N, V, first, step)
  <2> HIDE DEF V, first, step
  <2> QED
    BY <1>2, <1>3, IterationExists
<1>5. A \in [0..N -> V] /\ A[0] = first /\ \A n \in 1..N : A[n] = step[<<n, A[n - 1]>>]
  BY <1>4 DEF Iterates
<1>6. ASSUME NEW n \in 1..N PROVE A[n] = [q \in D |-> IF A[n - 1][q] = root THEN root ELSE up[A[n - 1][q]]]
  <2>1. n - 1 \in 0..N
    OBVIOUS
  <2>2. A[n - 1] \in V
    BY <1>5, <2>1
  <2> HIDE DEF step, V
  <2> QED
    BY <1>3, <1>5, <2>2
<1> HIDE DEF step
<1>7. \A q \in D : A[0][q] = q
  BY <1>5
<1>8. \A n \in 1..N, q \in D : A[n][q] = IF A[n - 1][q] = root THEN root ELSE up[A[n - 1][q]]
  <2> SUFFICES ASSUME NEW n \in 1..N, NEW q \in D
               PROVE  A[n][q] = IF A[n - 1][q] = root THEN root ELSE up[A[n - 1][q]]
    OBVIOUS
  <2> DEFINE v == A[n - 1]
  <2>1. A[n] = [x \in D |-> IF v[x] = root THEN root ELSE up[v[x]]]
    BY <1>6
  <2> HIDE DEF v
  <2>2. A[n][q] = IF v[q] = root THEN root ELSE up[v[q]]
    BY <2>1
  <2> QED
    BY <2>2 DEF v
<1> QED
  BY <1>5, <1>7, <1>8 DEF Ancestors, D

(* What is below a page, itself included: the pages of its children's      *)
(* subtrees, which are apart.                                              *)
Subtrees(Sub, P, root, h) ==
    /\ \A p \in DOMAIN P : Sub[p] \subseteq DOMAIN P /\ p \in Sub[p]
    /\ \A p \in DOMAIN P : h[p] = 0 => Sub[p] = {p}
    /\ \A p \in DOMAIN P : h[p] # 0 =>
           /\ \A s \in slots_of(P[p]) : /\ Sub[child(P[p], s)] \subseteq Sub[p]
                                        /\ p \notin Sub[child(P[p], s)]
           /\ \A q \in Sub[p] : q = p \/ \E s \in slots_of(P[p]) : q \in Sub[child(P[p], s)]
           /\ \A s, t \in slots_of(P[p]) :
                  s # t => Sub[child(P[p], s)] \intersect Sub[child(P[p], t)] = {}
    /\ Sub[root] = DOMAIN P

LEMMA SubtreesExist ==
    ASSUME NEW P, NEW root, NEW h, NEW up, NEW H, Tree(P, root, h, up, H)
    PROVE  \E Sub : Subtrees(Sub, P, root, h)
<1> DEFINE D == DOMAIN P
           N == H + 1
<1>1. /\ H \in Nat /\ root \in D /\ \A q \in D : h[q] \in 0..H
      /\ \A q \in D \ {root} : up[q] \in D /\ h[up[q]] = h[q] + 1
      /\ \A q \in D \ {root} : \E s \in slots_of(P[up[q]]) : child(P[up[q]], s) = q
  <2>1. H \in Nat /\ root \in D /\ \A q \in D : h[q] \in 0..H
    BY DEF Tree
  <2>2. ASSUME NEW q \in D \ {root}
        PROVE  up[q] \in D /\ h[up[q]] = h[q] + 1 /\ \E s \in slots_of(P[up[q]]) : child(P[up[q]], s) = q
    <3>1. up[q] \in D /\ h[q] = h[up[q]] - 1 /\ \E s \in slots_of(P[up[q]]) : child(P[up[q]], s) = q
      BY <2>2, IsBelowUp DEF IsBelow
    <3>2. h[up[q]] \in Int
      BY <2>1, <3>1
    <3> QED
      BY <3>1, <3>2
  <2> QED
    BY <2>1, <2>2
<1>2. N \in Nat
  BY <1>1
<1>3. PICK A : Ancestors(A, P, root, up, N)
  BY <1>2, AncestorsExist
<1>4. /\ \A n \in 0..N, q \in D : A[n][q] \in D
      /\ \A q \in D : A[0][q] = q
      /\ \A n \in 1..N, q \in D : A[n][q] = IF A[n - 1][q] = root THEN root ELSE up[A[n - 1][q]]
  BY <1>3 DEF Ancestors
<1> HIDE DEF D
<1> DEFINE Came(q, n) == A[n][q] = root /\ \E m \in 0..n : h[root] = h[q] + m /\ A[m][q] = root
           T == {n \in 0..N : \A q \in D : h[A[n][q]] = h[q] + n \/ Came(q, n)}
<1>5. \A n \in 0..N : n \in T
  <2>1. 0 \in T
    BY <1>1, <1>2, <1>4
  <2>2. ASSUME NEW n \in 1..N, n - 1 \in T PROVE n \in T
    <3>1. ASSUME NEW q \in D PROVE h[A[n][q]] = h[q] + n \/ Came(q, n)
      <4>1. A[n - 1][q] \in D /\ h[q] \in Nat /\ h[root] \in Nat /\ n - 1 \in 0..N /\ n \in Nat
        BY <1>1, <1>2, <1>4
      <4>2. CASE A[n - 1][q] = root
        <5>1. A[n][q] = root
          BY <1>4, <4>2
        <5>2. h[root] = h[q] + (n - 1) \/ Came(q, n - 1)
          BY <2>2, <4>2
        <5>3. \E m \in 0..(n - 1) : h[root] = h[q] + m /\ A[m][q] = root
          <6>1. n - 1 \in 0..(n - 1)
            BY <4>1
          <6> QED
            BY <4>2, <5>2, <6>1
        <5>4. \A m \in 0..(n - 1) : m \in 0..n
          BY <4>1
        <5> QED
          BY <5>1, <5>3, <5>4
      <4>3. CASE A[n - 1][q] # root
        <5>1. h[A[n - 1][q]] = h[q] + (n - 1)
          BY <2>2, <4>3
        <5>2. A[n][q] = up[A[n - 1][q]]
          BY <1>4, <4>3
        <5>3. h[A[n][q]] = h[A[n - 1][q]] + 1
          BY <1>1, <4>1, <4>3, <5>2
        <5> QED
          BY <4>1, <5>1, <5>3
      <4> QED
        BY <4>2, <4>3
    <3> QED
      BY <3>1
  <2> HIDE DEF T, N
  <2> QED
    BY <1>2, <2>1, <2>2, UpwardClosed
<1> DEFINE Sub == [p \in D |-> {q \in D : \E n \in 0..N : h[p] = h[q] + n /\ A[n][q] = p}]
<1>6. \A p, q \in D : q \in Sub[p] <=> \E n \in 0..N : h[p] = h[q] + n /\ A[n][q] = p
  OBVIOUS
<1>7. \A p \in D : Sub[p] \subseteq D
  OBVIOUS
<1>8. \A p \in D : p \in Sub[p]
  <2>1. 0 \in 0..N
    BY <1>2
  <2>2. \A p \in D : h[p] = h[p] + 0
    BY <1>1
  <2> QED
    BY <1>4, <2>1, <2>2
<1> HIDE DEF Sub
<1>9. ASSUME NEW p \in D, NEW q \in Sub[p], q # p
      PROVE  \E c \in D \ {root} : up[c] = p /\ q \in Sub[c]
  <2>1. q \in D
    BY <1>7
  <2>2. PICK n \in 0..N : h[p] = h[q] + n /\ A[n][q] = p
    BY <1>6, <2>1
  <2>3. n \in 1..N /\ n - 1 \in 0..N /\ h[q] \in Nat /\ h[p] \in Nat
    BY <1>1, <1>2, <1>4, <1>9, <2>1, <2>2
  <2> DEFINE c == A[n - 1][q]
  <2>4. c \in D
    BY <1>4, <2>1, <2>3
  <2>5. c # root
    <3>1. SUFFICES ASSUME c = root PROVE FALSE
      OBVIOUS
    <3>2. p = root
      BY <1>4, <2>1, <2>2, <2>3, <3>1
    <3>3. h[root] = h[q] + (n - 1) \/ Came(q, n - 1)
      BY <1>5, <2>1, <2>3, <3>1
    <3>4. PICK m \in 0..(n - 1) : h[root] = h[q] + m
      <4>1. n - 1 \in 0..(n - 1)
        BY <2>3
      <4> QED
        BY <3>3, <4>1
    <3> QED
      BY <2>2, <2>3, <3>2, <3>4
  <2>6. up[c] = p
    BY <1>4, <2>1, <2>2, <2>3, <2>5
  <2>7. h[c] = h[q] + (n - 1)
    BY <1>1, <2>2, <2>3, <2>4, <2>5, <2>6
  <2>8. q \in Sub[c]
    BY <1>6, <2>1, <2>3, <2>4, <2>7
  <2> QED
    BY <2>4, <2>5, <2>6, <2>8
<1>10. ASSUME NEW c \in D, c # root, NEW q \in Sub[c] PROVE q \in Sub[up[c]] /\ q # up[c]
  <2>1. q \in D
    BY <1>7
  <2>2. PICK n \in 0..N : h[c] = h[q] + n /\ A[n][q] = c
    BY <1>6, <2>1
  <2>3. up[c] \in D /\ h[up[c]] = h[c] + 1 /\ h[c] \in 0..H /\ h[q] \in 0..H /\ h[up[c]] \in 0..H
    BY <1>1, <1>10, <2>1
  <2>4. n + 1 \in 1..N /\ n + 1 \in 0..N /\ (n + 1) - 1 = n
    BY <1>1, <2>2, <2>3
  <2>5. A[n + 1][q] = up[c]
    BY <1>4, <1>10, <2>1, <2>2, <2>4
  <2>6. h[up[c]] = h[q] + (n + 1)
    BY <2>2, <2>3
  <2>7. q # up[c]
    BY <1>2, <2>2, <2>3
  <2> QED
    BY <1>6, <2>1, <2>3, <2>4, <2>5, <2>6, <2>7
<1>11. ASSUME NEW c \in D, NEW d \in D, h[c] = h[d], NEW q \in Sub[c], q \in Sub[d] PROVE c = d
  <2>1. q \in D /\ h[q] \in Nat
    BY <1>1, <1>7
  <2>2. PICK n \in 0..N : h[c] = h[q] + n /\ A[n][q] = c
    BY <1>6, <2>1
  <2>3. PICK m \in 0..N : h[d] = h[q] + m /\ A[m][q] = d
    BY <1>6, <1>11, <2>1
  <2>4. m = n
    <3>1. h[q] + n = h[q] + m
      BY <1>11, <2>2, <2>3
    <3>2. n \in Nat /\ m \in Nat
      BY <1>2
    <3> QED
      BY <2>1, <3>1, <3>2
  <2> QED
    BY <2>2, <2>3, <2>4
<1>12. Sub[root] = D
  <2>1. ASSUME NEW q \in D PROVE q \in Sub[root]
    <3>1. N \in 0..N /\ A[N][q] \in D
      BY <1>2, <1>4
    <3>2. h[A[N][q]] \in 0..H /\ h[q] \in Nat
      BY <1>1, <3>1
    <3>3. ~(h[A[N][q]] = h[q] + N)
      BY <1>1, <3>2
    <3>4. Came(q, N)
      BY <1>5, <3>1, <3>3
    <3> QED
      BY <1>1, <1>6, <3>4
  <2> QED
    BY <1>1, <1>7, <2>1
<1>13. ASSUME NEW p \in D, h[p] = 0 PROVE Sub[p] = {p}
  <2>1. ASSUME NEW q \in Sub[p], q # p PROVE FALSE
    <3>1. PICK c \in D \ {root} : up[c] = p
      BY <1>9, <2>1
    <3>2. h[p] = h[c] + 1 /\ h[c] \in Nat
      BY <1>1, <3>1
    <3> QED
      BY <1>13, <3>2
  <2> QED
    BY <1>8, <2>1
<1>14. ASSUME NEW p \in D, h[p] # 0, NEW s \in slots_of(P[p])
       PROVE  child(P[p], s) \in D \ {root} /\ up[child(P[p], s)] = p /\ h[child(P[p], s)] = h[p] - 1
  BY <1>14, ChildIsBelow DEF IsBelow, D
<1>15. ASSUME NEW p \in D, h[p] # 0
       PROVE  /\ \A s \in slots_of(P[p]) : /\ Sub[child(P[p], s)] \subseteq Sub[p]
                                           /\ p \notin Sub[child(P[p], s)]
              /\ \A q \in Sub[p] : q = p \/ \E s \in slots_of(P[p]) : q \in Sub[child(P[p], s)]
              /\ \A s, t \in slots_of(P[p]) :
                     s # t => Sub[child(P[p], s)] \intersect Sub[child(P[p], t)] = {}
  <2>1. ASSUME NEW s \in slots_of(P[p])
        PROVE  Sub[child(P[p], s)] \subseteq Sub[p] /\ p \notin Sub[child(P[p], s)]
    BY <1>10, <1>14, <1>15
  <2>2. ASSUME NEW q \in Sub[p], q # p PROVE \E s \in slots_of(P[p]) : q \in Sub[child(P[p], s)]
    <3>1. PICK c \in D \ {root} : up[c] = p /\ q \in Sub[c]
      BY <1>9, <2>2
    <3> QED
      BY <1>1, <3>1
  <2>3. ASSUME NEW s \in slots_of(P[p]), NEW t \in slots_of(P[p]), s # t,
               NEW q, q \in Sub[child(P[p], s)], q \in Sub[child(P[p], t)]
        PROVE  FALSE
    <3>1. child(P[p], s) = child(P[p], t)
      BY <1>11, <1>14, <1>15, <2>3
    <3>2. Distinct(P[p])
      BY <1>15, TreeNode DEF InPlace, D
    <3> QED
      BY <2>3, <3>1, <3>2 DEF Distinct
  <2> QED
    BY <2>1, <2>2, <2>3
<1> QED
  BY <1>7, <1>8, <1>12, <1>13, <1>15 DEF Subtrees, D

-----------------------------------------------------------------------------
(* The walk over the nodes.                                                *)

Visit(P) == [page : DOMAIN P, depth : Nat]

(* A walk over the pages of a set, each once, with a depth that goes up as *)
(* the height goes down.                                                   *)
Listing(w, P, A, h, d) ==
    /\ w \in Seq(Visit(P)) /\ IsFiniteSet(A) /\ Len(w) = Cardinality(A)
    /\ {w[i].page : i \in 1..Len(w)} = A
    /\ \A i \in 1..Len(w) : w[i].depth + h[w[i].page] = d

LEMMA JoinListings ==
    ASSUME NEW P, NEW h, NEW d, NEW a, NEW A, NEW b, NEW B, Listing(a, P, A, h, d),
           Listing(b, P, B, h, d), A \intersect B = {}
    PROVE  Listing(a \o b, P, A \union B, h, d)
<1> DEFINE w == a \o b
           V == Visit(P)
<1>1. /\ a \in Seq(V) /\ IsFiniteSet(A) /\ Len(a) = Cardinality(A)
      /\ {a[i].page : i \in 1..Len(a)} = A
      /\ \A i \in 1..Len(a) : a[i].depth + h[a[i].page] = d
  BY DEF Listing
<1>2. /\ b \in Seq(V) /\ IsFiniteSet(B) /\ Len(b) = Cardinality(B)
      /\ {b[i].page : i \in 1..Len(b)} = B
      /\ \A i \in 1..Len(b) : b[i].depth + h[b[i].page] = d
  BY DEF Listing
<1> HIDE DEF V
<1>3. /\ w \in Seq(V) /\ Len(w) = Len(a) + Len(b)
      /\ \A i \in 1..Len(a) : w[i] = a[i]
      /\ \A i \in 1..Len(b) : w[Len(a) + i] = b[i]
  <2>1. a \in Seq(V) /\ b \in Seq(V)
    BY <1>1, <1>2
  <2> QED
    BY ONLY <2>1
<1>4. Len(a) \in Nat /\ Len(b) \in Nat
  BY <1>1, <1>2
<1> HIDE DEF w
<1>5. \A i \in 1..Len(w) : i \in 1..Len(a) \/ (i - Len(a) \in 1..Len(b) /\ i = Len(a) + (i - Len(a)))
  BY <1>3, <1>4
<1>6. \A i \in 1..Len(a) : i \in 1..Len(w)
  BY <1>3, <1>4
<1>7. \A i \in 1..Len(b) : Len(a) + i \in 1..Len(w)
  BY <1>3, <1>4
<1>8. IsFiniteSet(A \union B) /\ Len(w) = Cardinality(A \union B)
  <2>1. Cardinality(A \intersect B) = 0
    BY FS_EmptySet
  <2>2. IsFiniteSet(A \union B)
        /\ Cardinality(A \union B) = Cardinality(A) + Cardinality(B) - Cardinality(A \intersect B)
    BY <1>1, <1>2, FS_Union
  <2> QED
    BY <1>1, <1>2, <1>3, <1>4, <2>1, <2>2
<1>9. {w[i].page : i \in 1..Len(w)} = A \union B
  <2>1. ASSUME NEW i \in 1..Len(w) PROVE w[i].page \in A \union B
    <3>1. CASE i \in 1..Len(a)
      BY <1>1, <1>3, <3>1
    <3>2. CASE i - Len(a) \in 1..Len(b) /\ i = Len(a) + (i - Len(a))
      <4> DEFINE j == i - Len(a)
      <4>1. j \in 1..Len(b) /\ i = Len(a) + j
        BY <3>2
      <4> HIDE DEF j
      <4> QED
        BY <1>2, <1>3, <4>1
    <3> QED
      BY <1>5, <3>1, <3>2
  <2>2. ASSUME NEW q \in A PROVE \E i \in 1..Len(w) : w[i].page = q
    BY <1>1, <1>3, <1>6
  <2>3. ASSUME NEW q \in B PROVE \E i \in 1..Len(w) : w[i].page = q
    <3>1. PICK i \in 1..Len(b) : b[i].page = q
      BY <1>2
    <3> QED
      BY <1>3, <1>7, <3>1
  <2> QED
    BY <2>1, <2>2, <2>3
<1>10. ASSUME NEW i \in 1..Len(w) PROVE w[i].depth + h[w[i].page] = d
  <2>1. CASE i \in 1..Len(a)
    BY <1>1, <1>3, <2>1
  <2>2. CASE i - Len(a) \in 1..Len(b) /\ i = Len(a) + (i - Len(a))
    <3> DEFINE j == i - Len(a)
    <3>1. j \in 1..Len(b) /\ i = Len(a) + j
      BY <2>2
    <3> HIDE DEF j
    <3> QED
      BY <1>2, <1>3, <3>1
  <2> QED
    BY <1>5, <2>1, <2>2
<1> QED
  BY <1>3, <1>8, <1>9, <1>10 DEF Listing, w, V

LEMMA OneListed ==
    ASSUME NEW P, NEW h, NEW p \in DOMAIN P, NEW x \in Nat, h[p] \in Nat
    PROVE  Listing(<<[page |-> p, depth |-> x]>>, P, {p}, h, x + h[p])
<1> DEFINE v == [page |-> p, depth |-> x]
           w == <<v>>
<1>1. v \in Visit(P) /\ v.page = p /\ v.depth = x
  BY DEF Visit
<1> HIDE DEF v
<1>2. w \in Seq(Visit(P)) /\ Len(w) = 1 /\ w[1] = v
  BY <1>1
<1>3. IsFiniteSet({p}) /\ Cardinality({p}) = 1
  BY FS_Singleton
<1> HIDE DEF w
<1>4. \A i \in 1..Len(w) : i = 1
  BY <1>2
<1>5. 1 \in 1..Len(w)
  BY <1>2
<1>6. {w[i].page : i \in 1..Len(w)} = {p}
  BY <1>1, <1>2, <1>4, <1>5
<1>7. \A i \in 1..Len(w) : w[i].depth + h[w[i].page] = x + h[p]
  BY <1>1, <1>2, <1>4
<1> QED
  BY <1>2, <1>3, <1>6, <1>7 DEF Listing, w, v

(* What is listed of several sets that are apart.                          *)
Listings(parts, P, S, n, h, d) ==
    /\ n \in Nat \ {0} /\ parts = [s \in 1..n |-> parts[s]]
    /\ \A s \in 1..n : Listing(parts[s], P, S[s], h, d)
    /\ \A s, t \in 1..n : s # t => S[s] \intersect S[t] = {}

LEMMA FlattenListings ==
    ASSUME NEW P, NEW h, NEW d, NEW n, NEW parts, NEW S, Listings(parts, P, S, n, h, d)
    PROVE  Listing(FlattenSeq(parts), P, UNION {S[s] : s \in 1..n}, h, d)
<1>0. /\ n \in Nat \ {0} /\ parts = [s \in 1..n |-> parts[s]]
      /\ \A s \in 1..n : Listing(parts[s], P, S[s], h, d)
      /\ \A s, t \in 1..n : s # t => S[s] \intersect S[t] = {}
  BY DEF Listings
<1>1. parts \in [1..n -> Seq(Visit(P))]
  <2>1. \A s \in 1..n : parts[s] \in Seq(Visit(P))
    BY <1>0 DEF Listing
  <2> QED
    BY <1>0, <2>1
<1>2. PICK J \in [1..n -> Seq(Visit(P))] : Joins(J, parts, n) /\ FlattenSeq(parts) = J[n]
  BY <1>0, <1>1, FlattenJoins
<1> DEFINE U(i) == UNION {S[s] : s \in 1..i}
           m == n - 1
           T == {i \in 0..m : Listing(J[i + 1], P, U(i + 1), h, d)}
<1>3. 0 \in T
  <2>1. 1 \in 1..n /\ 0 \in 0..m /\ 0 + 1 = 1
    BY <1>0
  <2>2. U(1) = S[1]
    OBVIOUS
  <2>3. J[1] = parts[1]
    BY <1>2 DEF Joins
  <2>4. Listing(J[1], P, U(1), h, d)
    BY <1>0, <2>1, <2>2, <2>3
  <2> HIDE DEF U
  <2> QED
    BY <2>1, <2>4
<1>4. ASSUME NEW i \in 1..m, i - 1 \in T PROVE i \in T
  <2>1. i \in Nat /\ i \in 0..m /\ i + 1 \in 2..n /\ i + 1 \in 1..n /\ (i + 1) - 1 = i /\ (i - 1) + 1 = i
    BY <1>0
  <2>2. Listing(J[i], P, U(i), h, d)
    BY <1>4, <2>1
  <2>3. J[i + 1] = J[i] \o parts[i + 1]
    BY <1>2, <2>1 DEF Joins
  <2>4. Listing(parts[i + 1], P, S[i + 1], h, d)
    BY <1>0, <2>1
  <2>5. U(i) \intersect S[i + 1] = {}
    <3>1. \A s \in 1..i : s \in 1..n /\ s # i + 1
      BY <1>0, <2>1
    <3> QED
      BY <1>0, <2>1, <3>1
  <2>6. U(i) \union S[i + 1] = U(i + 1)
    <3>1. \A s : s \in 1..(i + 1) <=> s \in 1..i \/ s = i + 1
      BY <2>1
    <3> QED
      BY <3>1
  <2> HIDE DEF U
  <2>7. Listing(J[i] \o parts[i + 1], P, U(i) \union S[i + 1], h, d)
    BY ONLY <2>2, <2>4, <2>5, JoinListings
  <2>8. Listing(J[i + 1], P, U(i + 1), h, d)
    BY ONLY <2>3, <2>6, <2>7
  <2> QED
    BY <2>1, <2>8
<1>5. m \in T
  <2>1. m \in Nat /\ m \in 0..m
    BY <1>0
  <2> HIDE DEF T, m
  <2> QED
    BY <1>3, <1>4, <2>1, UpwardClosed
<1>6. m + 1 = n
  BY <1>0
<1>7. Listing(J[n], P, U(n), h, d)
  <2> HIDE DEF m, U
  <2> QED
    BY <1>5, <1>6
<1> QED
  BY <1>2, <1>7


(* One step of nodes_below().                                              *)
kids_listed(P, f, at) ==
    [s \in 1..Len(iter_children(P[at[1]])) |-> f[<<iter_children(P[at[1]])[s], at[2] + 1>>]]
visit(P, f, at) == <<[page |-> at[1], depth |-> at[2]]>> \o FlattenSeq(kids_listed(P, f, at))

LEMMA ChildrenOf ==
    ASSUME NEW P, NEW root, NEW h, NEW up, NEW H, Tree(P, root, h, up, H), NEW p \in DOMAIN P,
           NEW kids, kids = iter_children(P[p])
    PROVE  /\ h[p] = 0 => Len(kids) = 0
           /\ h[p] # 0 => /\ Len(kids) = Len(P[p].cells) + 1 /\ 1..Len(kids) = slots_of(P[p])
                          /\ \A s \in 1..Len(kids) : /\ kids[s] = child(P[p], s) /\ kids[s] \in DOMAIN P
                                                     /\ h[kids[s]] = h[p] - 1
<1>1. Len(P[p].cells) \in Nat /\ h[p] \in Nat
  BY TreeNode
<1>2. is_leaf(P[p]) <=> h[p] = 0
  BY LeavesAreLow
<1>3. CASE h[p] = 0
  BY <1>2, <1>3 DEF iter_children
<1>4. CASE h[p] # 0
  <2> DEFINE n == Len(P[p].cells) + 1
  <2>1. kids = [s \in 1..n |-> child(P[p], s)]
    BY <1>2, <1>4 DEF iter_children
  <2>2. n \in Nat /\ slots_of(P[p]) = 1..n
    BY <1>1 DEF slots_of
  <2> HIDE DEF n
  <2>3. Len(kids) = n /\ \A s \in 1..n : kids[s] = child(P[p], s)
    BY <2>1, <2>2
  <2>4. \A s \in slots_of(P[p]) : child(P[p], s) \in DOMAIN P /\ h[child(P[p], s)] = h[p] - 1
    BY <1>4, ChildIsBelow DEF IsBelow
  <2> QED
    BY <1>4, <2>2, <2>3, <2>4 DEF n
<1> QED
  BY <1>3, <1>4

LEMMA FlattenNothing ==
    ASSUME NEW parts, NEW n, n = 0, parts = [s \in 1..n |-> parts[s]]
    PROVE  FlattenSeq(parts) = <<>>
<1>1. parts = <<>>
  OBVIOUS
<1>2. Len(<<>>) = 0
  OBVIOUS
<1> QED
  BY <1>1, <1>2 DEF FlattenSeq

LEMMA VisitLists ==
    ASSUME NEW P, NEW root, NEW h, NEW up, NEW H, Tree(P, root, h, up, H), NEW Sub,
           Subtrees(Sub, P, root, h), NEW p \in DOMAIN P, NEW x \in Nat, NEW f,
           \A c \in DOMAIN P : h[c] < h[p] => Listing(f[<<c, x + 1>>], P, Sub[c], h, x + 1 + h[c])
    PROVE  Listing(visit(P, f, <<p, x>>), P, Sub[p], h, x + h[p])
<1> DEFINE kids == iter_children(P[p])
           n == Len(kids)
           parts == [s \in 1..n |-> f[<<kids[s], x + 1>>]]
           S == [s \in 1..n |-> Sub[kids[s]]]
           first == <<[page |-> p, depth |-> x]>>
<1>1. visit(P, f, <<p, x>>) = first \o FlattenSeq(parts)
  BY DEF visit, kids_listed
<1>2. h[p] \in Nat
  BY TreeNode
<1>3. Listing(first, P, {p}, h, x + h[p])
  BY <1>2, OneListed
<1>4. /\ h[p] = 0 => n = 0
      /\ h[p] # 0 => /\ n \in Nat \ {0} /\ 1..n = slots_of(P[p])
                     /\ \A s \in 1..n : kids[s] = child(P[p], s) /\ kids[s] \in DOMAIN P /\ h[kids[s]] = h[p] - 1
  <2>1. Len(P[p].cells) \in Nat
    BY TreeNode
  <2> QED
    BY <2>1, ChildrenOf
<1> HIDE DEF kids, n
<1>5. CASE h[p] = 0
  <2>1. FlattenSeq(parts) = <<>>
    <3>1. parts = [s \in 1..n |-> parts[s]] /\ n = 0
      BY <1>4, <1>5
    <3> HIDE DEF parts
    <3> QED
      BY <3>1, FlattenNothing
  <2>2. first \o <<>> = first
    BY <1>3, ConcatEmptySeq DEF Listing
  <2>3. Sub[p] = {p}
    BY <1>5 DEF Subtrees
  <2> HIDE DEF first, parts
  <2> QED
    BY <1>1, <1>3, <2>1, <2>2, <2>3
<1>6. CASE h[p] # 0
  <2>1. \A s \in 1..n : Listing(parts[s], P, S[s], h, x + h[p])
    <3> SUFFICES ASSUME NEW s \in 1..n PROVE Listing(parts[s], P, S[s], h, x + h[p])
      OBVIOUS
    <3>1. kids[s] \in DOMAIN P /\ h[kids[s]] < h[p] /\ x + 1 + h[kids[s]] = x + h[p]
      BY <1>2, <1>4, <1>6
    <3>2. Listing(f[<<kids[s], x + 1>>], P, Sub[kids[s]], h, x + 1 + h[kids[s]])
      BY <3>1
    <3> QED
      BY <3>1, <3>2
  <2>2. \A s, t \in 1..n : s # t => S[s] \intersect S[t] = {}
    BY <1>4, <1>6 DEF Subtrees
  <2>3. {p} \union UNION {S[s] : s \in 1..n} = Sub[p]
    <3>1. \A q \in Sub[p] : q = p \/ \E s \in 1..n : q \in S[s]
      BY <1>4, <1>6 DEF Subtrees
    <3>2. \A s \in 1..n : S[s] \subseteq Sub[p]
      BY <1>4, <1>6 DEF Subtrees
    <3>3. p \in Sub[p]
      BY DEF Subtrees
    <3> QED
      BY <3>1, <3>2, <3>3
  <2>4. {p} \intersect UNION {S[s] : s \in 1..n} = {}
    BY <1>4, <1>6 DEF Subtrees
  <2>5. n \in Nat \ {0} /\ parts = [s \in 1..n |-> parts[s]]
    BY <1>4, <1>6
  <2> HIDE DEF S, parts, first
  <2>6. Listing(FlattenSeq(parts), P, UNION {S[s] : s \in 1..n}, h, x + h[p])
    <3> DEFINE d == x + h[p]
    <3>1. /\ n \in Nat \ {0} /\ parts = [s \in 1..n |-> parts[s]]
          /\ \A s \in 1..n : Listing(parts[s], P, S[s], h, d)
          /\ \A s, t \in 1..n : s # t => S[s] \intersect S[t] = {}
      BY <2>1, <2>2, <2>5
    <3> HIDE DEF d
    <3>2. Listings(parts, P, S, n, h, d)
      BY ONLY <3>1 DEF Listings
    <3>3. Listing(FlattenSeq(parts), P, UNION {S[s] : s \in 1..n}, h, d)
      BY <3>2, FlattenListings
    <3> QED
      BY <3>3 DEF d
  <2>7. Listing(first \o FlattenSeq(parts), P, {p} \union UNION {S[s] : s \in 1..n}, h, x + h[p])
    BY ONLY <1>3, <2>4, <2>6, JoinListings
  <2> QED
    BY <1>1, <2>3, <2>7
<1> QED
  BY <1>5, <1>6

LEMMA VisitIsSequence ==
    ASSUME NEW P, NEW root, NEW h, NEW up, NEW H, Tree(P, root, h, up, H),
           NEW p \in DOMAIN P, NEW x \in Nat, NEW f \in [(DOMAIN P) \X Nat -> Seq(Visit(P))]
    PROVE  visit(P, f, <<p, x>>) \in Seq(Visit(P))
<1> DEFINE kids == iter_children(P[p])
           n == Len(kids)
           V == Visit(P)
           parts == [s \in 1..n |-> f[<<kids[s], x + 1>>]]
           v == [page |-> p, depth |-> x]
<1>1. visit(P, f, <<p, x>>) = <<v>> \o FlattenSeq(parts)
  BY DEF visit, kids_listed
<1>2. h[p] \in Nat /\ Len(P[p].cells) \in Nat
  BY TreeNode
<1>3. n = 0 \/ (n \in Nat \ {0} /\ \A s \in 1..n : kids[s] \in DOMAIN P)
  BY <1>2, ChildrenOf
<1>4. v \in V
  BY DEF Visit
<1> HIDE DEF kids, n, V
<1>5. FlattenSeq(parts) \in Seq(V)
  <2>1. CASE n = 0
    <3>1. parts = [s \in 1..n |-> parts[s]]
      OBVIOUS
    <3> HIDE DEF parts
    <3>2. FlattenSeq(parts) = <<>>
      BY <2>1, <3>1, FlattenNothing
    <3> QED
      BY <3>2
  <2>2. CASE n \in Nat \ {0} /\ \A s \in 1..n : kids[s] \in DOMAIN P
    <3>1. \A s \in 1..n : parts[s] \in Seq(V)
      BY <2>2 DEF V
    <3>2. parts \in [1..n -> Seq(V)]
      BY <3>1
    <3> HIDE DEF parts
    <3>3. n \in Nat \ {0}
      BY <2>2
    <3>4. PICK J \in [1..n -> Seq(V)] : FlattenSeq(parts) = J[n]
      BY ONLY <3>2, <3>3, FlattenJoins
    <3> QED
      BY <3>3, <3>4
  <2> QED
    BY <1>3, <2>1, <2>2
<1>6. <<v>> \in Seq(V)
  BY <1>4
<1> HIDE DEF parts, v
<1>7. <<v>> \o FlattenSeq(parts) \in Seq(V)
  BY ONLY <1>5, <1>6, ConcatProperties
<1> QED
  BY <1>1, <1>7 DEF V

(* The walk visits every page once, the deeper the lower it is.            *)
LEMMA NodesBelowAre ==
    ASSUME NEW h, NEW up, NEW H, Tree(pages, geo.root, h, up, H)
    PROVE  Listing(nodes_below(geo.root), pages, DOMAIN pages, h, h[geo.root])
<1> DEFINE P == pages
           root == geo.root
           D == (DOMAIN P) \X Nat
           W == Seq(Visit(P))
           rank == [at \in D |-> h[at[1]]]
           step == [af \in D \X [D -> W] |-> visit(P, af[2], af[1])]
           Of(f) == [at \in D |-> visit(P, f, at)]
           below == CHOOSE f : f = Of(f)
<1>1. nodes_below(root) = below[<<root, 0>>]
  BY DEF nodes_below, visit, kids_listed
<1>2. H \in Nat /\ root \in DOMAIN P /\ \A p \in DOMAIN P : h[p] \in 0..H
  BY DEF Tree
<1> HIDE DEF P, root
<1>3. \A at \in D : at[1] \in DOMAIN P /\ at[2] \in Nat /\ at = <<at[1], at[2]>>
  OBVIOUS
<1>4. rank \in [D -> 0..H] /\ \A at \in D : rank[at] = h[at[1]]
  BY <1>2
<1>5. <<>> \in W
  OBVIOUS
<1>6. Tree(P, root, h, up, H)
  BY DEF P, root
<1>7. ASSUME NEW at \in D, NEW f \in [D -> W] PROVE step[<<at, f>>] = visit(P, f, at) /\ visit(P, f, at) \in W
  <2>1. step[<<at, f>>] = visit(P, f, at)
    OBVIOUS
  <2> HIDE DEF step
  <2>2. visit(P, f, <<at[1], at[2]>>) \in W
    BY <1>3, <1>6, VisitIsSequence
  <2> QED
    BY <1>3, <2>1, <2>2
<1> HIDE DEF step, rank
<1>8. ASSUME NEW at \in D, NEW f \in [D -> W], NEW g \in [D -> W],
             \A y \in D : rank[y] < rank[at] => f[y] = g[y]
      PROVE  step[<<at, f>>] = step[<<at, g>>]
  <2> DEFINE p == at[1]
             x == at[2]
             kids == iter_children(P[p])
             n == Len(kids)
  <2>1. p \in DOMAIN P /\ x + 1 \in Nat /\ h[p] \in Nat
    BY <1>2, <1>3
  <2>2. \A s \in 1..n : kids[s] \in DOMAIN P /\ h[kids[s]] < h[p]
    <3>1. CASE h[p] = 0
      BY <1>6, <2>1, <3>1, ChildrenOf
    <3>2. CASE h[p] # 0
      <4>1. \A s \in 1..n : kids[s] \in DOMAIN P /\ h[kids[s]] = h[p] - 1
        BY <1>6, <2>1, <3>2, ChildrenOf
      <4> HIDE DEF kids, n
      <4> QED
        BY <2>1, <4>1
    <3> QED
      BY <3>1, <3>2
  <2>3. kids_listed(P, f, at) = [s \in 1..n |-> f[<<kids[s], x + 1>>]]
        /\ kids_listed(P, g, at) = [s \in 1..n |-> g[<<kids[s], x + 1>>]]
    BY DEF kids_listed
  <2> HIDE DEF kids, n
  <2>4. \A s \in 1..n : f[<<kids[s], x + 1>>] = g[<<kids[s], x + 1>>]
    BY <1>4, <1>8, <2>1, <2>2
  <2>5. kids_listed(P, f, at) = kids_listed(P, g, at)
    BY <2>3, <2>4
  <2>6. visit(P, f, at) = visit(P, g, at)
    BY <2>5 DEF visit
  <2> QED
    BY <1>7, <2>6
<1>9. PICK f \in [D -> W] : \A at \in D : f[at] = step[<<at, f>>]
  <2> HIDE DEF D, W
  <2>1. \A at \in D, f \in [D -> W] : step[<<at, f>>] \in W
    BY <1>7
  <2>2. \A at \in D : \A f, g \in [D -> W] :
            (\A y \in D : rank[y] < rank[at] => f[y] = g[y]) => step[<<at, f>>] = step[<<at, g>>]
    BY <1>8
  <2> DEFINE none == <<>>
  <2>3. H \in Nat /\ rank \in [D -> 0..H] /\ none \in W
    BY <1>2, <1>4, <1>5
  <2> HIDE DEF none
  <2>4. Ranked(D, W, none, H, rank, step)
    BY <2>1, <2>2, <2>3 DEF Ranked
  <2> QED
    BY <2>4, RankedExists
<1>10. f = Of(f)
  <2>1. \A at \in D : f[at] = visit(P, f, at)
    BY <1>7, <1>9
  <2> HIDE DEF D, W
  <2> QED
    BY <1>9, <2>1
<1>11. below = Of(below)
  <2> HIDE DEF Of
  <2> QED
    BY <1>10
<1> HIDE DEF below
<1>12. \A at \in D : below[at] = visit(P, below, at)
  BY <1>11
<1>13. PICK Sub : Subtrees(Sub, P, root, h)
  BY <1>6, SubtreesExist
<1> DEFINE Good(p, x) == Listing(below[<<p, x>>], P, Sub[p], h, x + h[p])
           T == {n \in 0..H : \A p \in DOMAIN P, x \in Nat : h[p] <= n => Good(p, x)}
<1>14. ASSUME NEW p \in DOMAIN P, NEW x \in Nat,
              \A c \in DOMAIN P : h[c] < h[p] => Good(c, x + 1)
       PROVE  Good(p, x)
  <2>1. <<p, x>> \in D
    OBVIOUS
  <2>2. below[<<p, x>>] = visit(P, below, <<p, x>>)
    BY <1>12, <2>1
  <2>3. \A c \in DOMAIN P : h[c] < h[p] => Listing(below[<<c, x + 1>>], P, Sub[c], h, x + 1 + h[c])
    BY <1>14
  <2> QED
    BY <1>6, <1>13, <2>2, <2>3, VisitLists
<1> HIDE DEF Good
<1>15. \A n \in 0..H : n \in T
  <2>1. 0 \in T
    <3>1. ASSUME NEW p \in DOMAIN P, NEW x \in Nat, h[p] <= 0 PROVE Good(p, x)
      <4>1. \A c \in DOMAIN P : ~(h[c] < h[p])
        BY <1>2, <3>1
      <4> QED
        BY <1>14, <4>1
    <3> QED
      BY <1>2, <3>1
  <2>2. ASSUME NEW n \in 1..H, n - 1 \in T PROVE n \in T
    <3>1. ASSUME NEW p \in DOMAIN P, NEW x \in Nat, h[p] <= n PROVE Good(p, x)
      <4>1. \A c \in DOMAIN P : h[c] < h[p] => h[c] <= n - 1
        BY <1>2, <3>1
      <4>2. x + 1 \in Nat
        OBVIOUS
      <4>3. \A c \in DOMAIN P : h[c] < h[p] => Good(c, x + 1)
        BY <2>2, <4>1, <4>2
      <4> QED
        BY <1>14, <4>3
    <3> QED
      BY <1>2, <3>1
  <2> HIDE DEF T
  <2> QED
    BY <1>2, <2>1, <2>2, UpwardClosed
<1>16. Good(root, 0)
  BY <1>2, <1>15
<1>17. Sub[root] = DOMAIN P /\ 0 + h[root] = h[root]
  BY <1>2, <1>13 DEF Subtrees
<1> QED
  BY <1>1, <1>16, <1>17 DEF Good, P, root

-----------------------------------------------------------------------------
(* The walk over the cells.                                                *)

LEMMA ByHeight ==
    ASSUME NEW P, NEW root, NEW h, NEW up, NEW H, Tree(P, root, h, up, H), NEW S,
           \A p \in DOMAIN P : (\A c \in DOMAIN P : h[c] < h[p] => c \in S) => p \in S
    PROVE  \A p \in DOMAIN P : p \in S
<1> DEFINE T == {n \in 0..H : \A p \in DOMAIN P : h[p] <= n => p \in S}
<1>1. H \in Nat /\ \A p \in DOMAIN P : h[p] \in 0..H
  BY DEF Tree
<1>2. \A n \in 0..H : n \in T
  <2>1. 0 \in T
    BY <1>1
  <2>2. ASSUME NEW n \in 1..H, n - 1 \in T PROVE n \in T
    <3>1. ASSUME NEW p \in DOMAIN P, h[p] <= n PROVE p \in S
      <4>1. \A c \in DOMAIN P : h[c] < h[p] => h[c] <= n - 1
        BY <1>1, <3>1
      <4> QED
        BY <2>2, <4>1
    <3> QED
      BY <1>1, <3>1
  <2> HIDE DEF T
  <2> QED
    BY <1>1, <2>1, <2>2, UpwardClosed
<1> QED
  BY <1>1, <1>2

(* One step of cells_in_order.                                             *)
cell_parts(P, f, p) ==
    [s \in 1..(Len(P[p].cells) + 1) |->
        f[child(P[p], s)] \o (IF s = Len(P[p].cells) + 1 THEN <<>> ELSE <<P[p].cells[s]>>)]
gather(P, f, p) == IF is_leaf(P[p]) THEN P[p].cells ELSE FlattenSeq(cell_parts(P, f, p))

LEMMA PartIsSequence ==
    ASSUME NEW P, NEW root, NEW h, NEW up, NEW H, Tree(P, root, h, up, H), NEW p \in DOMAIN P,
           h[p] # 0, NEW f, \A c \in DOMAIN P : h[c] < h[p] => f[c] \in Seq(FlatCell)
    PROVE  /\ Len(P[p].cells) + 1 \in Nat \ {0}
           /\ cell_parts(P, f, p) \in [1..(Len(P[p].cells) + 1) -> Seq(FlatCell)]
<1> DEFINE cells == P[p].cells
           n == Len(cells) + 1
           last(s) == IF s = n THEN <<>> ELSE <<cells[s]>>
<1>1. cells \in Seq(FlatCell) /\ n \in Nat \ {0} /\ slots_of(P[p]) = 1..n /\ Len(cells) = n - 1 /\ h[p] \in Nat
  BY TreeNode DEF slots_of
<1>2. cell_parts(P, f, p) = [s \in 1..n |-> f[child(P[p], s)] \o last(s)]
  BY DEF cell_parts
<1>3. ASSUME NEW s \in 1..n PROVE f[child(P[p], s)] \o last(s) \in Seq(FlatCell)
  <2>1. child(P[p], s) \in DOMAIN P /\ h[child(P[p], s)] = h[p] - 1
    BY <1>1, ChildIsBelow DEF IsBelow
  <2>2. f[child(P[p], s)] \in Seq(FlatCell)
    BY <1>1, <2>1
  <2>3. last(s) \in Seq(FlatCell)
    <3> HIDE DEF FlatCell, cells, n
    <3>1. CASE s = n
      BY <3>1
    <3>2. CASE s # n
      <4>1. cells[s] \in FlatCell
        BY <1>1, <3>2
      <4> QED
        BY <3>2, <4>1
    <3> QED
      BY <3>1, <3>2
  <2> HIDE DEF last, FlatCell
  <2> QED
    BY <2>2, <2>3, ConcatProperties
<1> HIDE DEF n, cells, last, FlatCell
<1>4. [s \in 1..n |-> f[child(P[p], s)] \o last(s)] \in [1..n -> Seq(FlatCell)]
  BY <1>3
<1> QED
  BY <1>1, <1>2, <1>4 DEF n, cells

LEMMA GatherIsSequence ==
    ASSUME NEW P, NEW root, NEW h, NEW up, NEW H, Tree(P, root, h, up, H), NEW p \in DOMAIN P,
           NEW f, \A c \in DOMAIN P : h[c] < h[p] => f[c] \in Seq(FlatCell)
    PROVE  gather(P, f, p) \in Seq(FlatCell)
<1>1. P[p].cells \in Seq(FlatCell) /\ (is_leaf(P[p]) <=> h[p] = 0)
  BY TreeNode, LeavesAreLow
<1>2. CASE h[p] = 0
  BY <1>1, <1>2 DEF gather
<1>3. CASE h[p] # 0
  <2> DEFINE n == Len(P[p].cells) + 1
             parts == cell_parts(P, f, p)
  <2>1. n \in Nat \ {0} /\ parts \in [1..n -> Seq(FlatCell)]
    BY <1>3, PartIsSequence
  <2> HIDE DEF n, parts, FlatCell
  <2>2. PICK J \in [1..n -> Seq(FlatCell)] : FlattenSeq(parts) = J[n]
    BY ONLY <2>1, FlattenJoins
  <2>3. n \in 1..n
    BY <2>1
  <2> QED
    BY <1>1, <1>3, <2>2, <2>3 DEF gather, parts
<1> QED
  BY <1>2, <1>3

(* The walk is that function of the pages, and of cells.                   *)
LEMMA CellsInOrderAre ==
    ASSUME NEW h, NEW up, NEW H, Tree(pages, geo.root, h, up, H)
    PROVE  \E below : /\ cells_in_order = below[geo.root]
                      /\ \A p \in DOMAIN pages : /\ below[p] = gather(pages, below, p)
                                                 /\ below[p] \in Seq(FlatCell)
<1> DEFINE P == pages
           root == geo.root
           D == DOMAIN P
           W == Seq(FlatCell)
           step == [pf \in D \X [D -> W] |-> gather(P, pf[2], pf[1])]
           Of(f) == [p \in D |-> gather(P, f, p)]
           below == CHOOSE f : f = Of(f)
           none == <<>>
<1>1. cells_in_order = below[root]
  BY DEF cells_in_order, gather, cell_parts
<1>2. H \in Nat /\ h \in [D -> 0..H] /\ \A p \in D : h[p] \in 0..H
  BY DEF Tree
<1>3. Tree(P, root, h, up, H)
  OBVIOUS
<1>4. none \in W
  OBVIOUS
<1> HIDE DEF P, root, W, none
<1>5. ASSUME NEW p \in D, NEW f \in [D -> W] PROVE step[<<p, f>>] = gather(P, f, p) /\ gather(P, f, p) \in W
  <2>1. step[<<p, f>>] = gather(P, f, p)
    OBVIOUS
  <2>2. \A c \in D : f[c] \in Seq(FlatCell)
    BY DEF W
  <2> HIDE DEF step
  <2>3. gather(P, f, p) \in W
    BY <1>3, <2>2, GatherIsSequence DEF W
  <2> QED
    BY <2>1, <2>3
<1> HIDE DEF step
<1>6. ASSUME NEW p \in D, NEW f \in [D -> W], NEW g \in [D -> W],
             \A c \in D : h[c] < h[p] => f[c] = g[c]
      PROVE  step[<<p, f>>] = step[<<p, g>>]
  <2>1. CASE h[p] = 0
    <3>1. is_leaf(P[p])
      BY <1>3, <2>1, LeavesAreLow
    <3>2. gather(P, f, p) = gather(P, g, p)
      BY <3>1 DEF gather
    <3> QED
      BY <1>5, <3>2
  <2>2. CASE h[p] # 0
    <3> DEFINE n == Len(P[p].cells) + 1
               last(s) == IF s = n THEN <<>> ELSE <<P[p].cells[s]>>
    <3>1. \A s \in 1..n : child(P[p], s) \in D /\ h[child(P[p], s)] < h[p]
      <4>1. \A s \in slots_of(P[p]) : child(P[p], s) \in D /\ h[child(P[p], s)] = h[p] - 1
        BY <1>3, <2>2, ChildIsBelow DEF IsBelow
      <4> QED
        BY <1>2, <4>1 DEF slots_of
    <3>2. cell_parts(P, f, p) = [s \in 1..n |-> f[child(P[p], s)] \o last(s)]
          /\ cell_parts(P, g, p) = [s \in 1..n |-> g[child(P[p], s)] \o last(s)]
      BY DEF cell_parts
    <3> HIDE DEF n, last
    <3>3. \A s \in 1..n : f[child(P[p], s)] = g[child(P[p], s)]
      BY <1>6, <3>1
    <3>4. cell_parts(P, f, p) = cell_parts(P, g, p)
      BY <3>2, <3>3
    <3>5. gather(P, f, p) = gather(P, g, p)
      BY <3>4 DEF gather
    <3> QED
      BY <1>5, <3>5
  <2> QED
    BY <2>1, <2>2
<1>7. PICK f \in [D -> W] : \A p \in D : f[p] = step[<<p, f>>]
  <2> HIDE DEF D
  <2>1. Ranked(D, W, none, H, h, step)
    <3>1. \A p \in D, g \in [D -> W] : step[<<p, g>>] \in W
      BY <1>5
    <3> QED
      BY <1>2, <1>4, <1>6, <3>1 DEF Ranked
  <2> QED
    BY <2>1, RankedExists
<1>8. f = Of(f)
  <2>1. \A p \in D : f[p] = gather(P, f, p)
    BY <1>5, <1>7
  <2> HIDE DEF D, W
  <2> QED
    BY <1>7, <2>1
<1>9. below = Of(below)
  <2> HIDE DEF Of
  <2> QED
    BY <1>8
<1> HIDE DEF below
<1>10. \A p \in D : below[p] = gather(P, below, p)
  BY <1>9
<1> DEFINE S == {p \in D : below[p] \in W}
<1>11. ASSUME NEW p \in D, \A c \in D : h[c] < h[p] => c \in S PROVE p \in S
  <2>1. \A c \in D : h[c] < h[p] => below[c] \in Seq(FlatCell)
    BY <1>11 DEF W
  <2>2. gather(P, below, p) \in Seq(FlatCell)
    BY <1>3, <2>1, GatherIsSequence
  <2> QED
    BY <1>10, <2>2 DEF W
<1>12. \A p \in D : p \in S
  <2> HIDE DEF S
  <2> QED
    BY <1>3, <1>11, ByHeight
<1>13. \A p \in D : below[p] = gather(P, below, p) /\ below[p] \in Seq(FlatCell)
  BY <1>10, <1>12 DEF W
<1> QED
  BY <1>1, <1>13 DEF P, root

-----------------------------------------------------------------------------
(* All the pages are in the tree, all the leaves at one depth.             *)

LEMMA ChainsAreEmpty ==
    ASSUME NEW P, NEW root, NEW h, NEW up, NEW H, Tree(P, root, h, up, H), NEW cell, cell.overflow = 0
    PROVE  overflow_pages(P, cell) = <<>>
<1> DEFINE Of(f) == [p \in spill_pages(P) \union {0} |-> IF p = 0 THEN <<>> ELSE <<p>> \o f[P[p].next]]
           from == CHOOSE f : f = Of(f)
           none == [p \in {0} |-> <<>>]
<1>1. spill_pages(P) \union {0} = {0}
  BY AllAreNodes
<1>2. none = Of(none)
  BY <1>1
<1>3. from = Of(from)
  <2> HIDE DEF Of, none
  <2> QED
    BY <1>2
<1> HIDE DEF from
<1>4. from[0] = <<>>
  BY <1>1, <1>3
<1> QED
  BY <1>4 DEF overflow_pages, from

LEMMA NothingCounted ==
    ASSUME NEW n \in Nat, NEW chains, \A i \in 1..n : chains[i] = <<>>
    PROVE  LET count[i \in 0..n] == IF i = 0 THEN 0 ELSE count[i - 1] + Len(chains[i])
           IN  count[n] = 0
<1> DEFINE Of(f) == [i \in 0..n |-> IF i = 0 THEN 0 ELSE f[i - 1] + Len(chains[i])]
           count == CHOOSE f : f = Of(f)
           zero == [i \in 0..n |-> 0]
<1>1. \A i \in 1..n : Len(chains[i]) = 0 /\ i - 1 \in 0..n /\ i # 0
  OBVIOUS
<1>2. \A i \in 1..n : zero[i - 1] + Len(chains[i]) = 0
  BY <1>1
<1>3. zero = Of(zero)
  <2>1. \A i \in 0..n : i = 0 \/ i \in 1..n
    OBVIOUS
  <2> QED
    BY <1>2, <2>1
<1>4. count = Of(count)
  <2> HIDE DEF Of, zero
  <2> QED
    BY <1>3
<1> HIDE DEF count
<1> DEFINE T == {i \in 0..n : count[i] = 0}
<1>5. 0 \in T
  BY <1>4
<1>6. \A i \in 1..n : i - 1 \in T => i \in T
  BY <1>1, <1>4
<1>7. n \in T
  <2> HIDE DEF T
  <2>1. \A i \in 0..n : i \in T
    BY <1>5, <1>6, UpwardClosed
  <2> QED
    BY <2>1
<1>8. count[n] = 0
  BY <1>7
<1> QED
  BY <1>8 DEF count

LEMMA TreeHasOneDepth ==
    ASSUME TreeInv
    PROVE  SameDepth
<1>1. PICK h, up, H : Tree(pages, geo.root, h, up, H)
  BY DEF TreeInv, Grown
<1> DEFINE nodes == nodes_below(geo.root)
           d == h[geo.root]
<1>2. Listing(nodes, pages, DOMAIN pages, h, d)
  BY <1>1, NodesBelowAre
<1> HIDE DEF nodes
<1>3. /\ nodes \in Seq(Visit(pages)) /\ \A i \in 1..Len(nodes) : nodes[i].depth + h[nodes[i].page] = d
  BY <1>2 DEF Listing
<1> HIDE DEF d
<1>4. ASSUME NEW i \in DOMAIN nodes, is_leaf(pages[nodes[i].page])
      PROVE  nodes[i].depth = d
  <2>1. i \in 1..Len(nodes) /\ nodes[i] \in Visit(pages)
    BY <1>3, <1>4
  <2>2. nodes[i].page \in DOMAIN pages /\ nodes[i].depth \in Nat
    BY <2>1 DEF Visit
  <2>3. h[nodes[i].page] = 0
    BY <1>1, <1>4, <2>2, LeavesAreLow
  <2> QED
    BY <1>3, <2>1, <2>2, <2>3
<1> QED
  BY <1>4 DEF SameDepth, nodes

LEMMA TreeHasItsPages ==
    ASSUME TreeInv
    PROVE  PagesAccounted
<1>1. PICK h, up, H : Tree(pages, geo.root, h, up, H)
  BY DEF TreeInv, Grown
<1> DEFINE nodes == nodes_below(geo.root)
           cells == cells_in_order \o (IF removed = None THEN <<>> ELSE <<removed>>)
           chains == [i \in DOMAIN cells |-> overflow_pages(pages, cells[i])]
<1>2. Listing(nodes, pages, DOMAIN pages, h, h[geo.root])
  BY <1>1, NodesBelowAre
<1>3. cells_in_order \in Seq(FlatCell)
  <2>1. geo.root \in DOMAIN pages
    BY <1>1 DEF Tree
  <2> QED
    BY <1>1, <2>1, CellsInOrderAre
<1>4. removed = None \/ removed \in FlatCell
  BY DEF TreeInv
<1>5. cells \in Seq(FlatCell)
  <2> HIDE DEF FlatCell
  <2> QED
    BY <1>3, <1>4
<1> HIDE DEF nodes, cells
<1>6. /\ nodes \in Seq(Visit(pages)) /\ IsFiniteSet(DOMAIN pages) /\ Len(nodes) = Cardinality(DOMAIN pages)
      /\ {nodes[i].page : i \in 1..Len(nodes)} = DOMAIN pages
  BY <1>2 DEF Listing
<1>7. DOMAIN nodes = 1..Len(nodes) /\ DOMAIN cells = 1..Len(cells) /\ Len(cells) \in Nat /\ Len(nodes) \in Nat
  BY <1>5, <1>6
<1>8. \A i \in 1..Len(cells) : cells[i] \in FlatCell
  <2> HIDE DEF FlatCell
  <2> QED
    BY <1>5
<1>9. \A i \in 1..Len(cells) : cells[i].overflow = 0
  BY <1>8 DEF FlatCell
<1>10. \A i \in 1..Len(cells) : overflow_pages(pages, cells[i]) = <<>>
  BY <1>1, <1>9, ChainsAreEmpty
<1>11. \A i \in 1..Len(cells) : chains[i] = <<>>
  BY <1>7, <1>10
<1>12. {nodes[i].page : i \in DOMAIN nodes} \union UNION {ToSet(chains[i]) : i \in DOMAIN cells} = DOMAIN pages
  <2>1. \A i \in DOMAIN cells : ToSet(chains[i]) = {}
    BY <1>7, <1>11 DEF ToSet
  <2> HIDE DEF chains
  <2>2. UNION {ToSet(chains[i]) : i \in DOMAIN cells} = {}
    BY <2>1
  <2> QED
    BY <1>6, <1>7, <2>2
<1>13. LET count[i \in 0..Len(cells)] == IF i = 0 THEN 0 ELSE count[i - 1] + Len(chains[i])
       IN  Len(nodes) + count[Len(cells)] = Cardinality(DOMAIN pages)
  <2> DEFINE count[i \in 0..Len(cells)] == IF i = 0 THEN 0 ELSE count[i - 1] + Len(chains[i])
  <2> HIDE DEF chains
  <2>1. count[Len(cells)] = 0
    BY <1>7, <1>11, NothingCounted
  <2> HIDE DEF count
  <2>2. Len(nodes) + count[Len(cells)] = Cardinality(DOMAIN pages)
    BY <1>6, <1>7, <2>1
  <2> QED
    BY <2>2 DEF count
<1>14. ASSUME NEW i \in DOMAIN cells
       PROVE  LET chunks == reassemble_payload(pages, cells[i])
              IN  /\ chunks[1][2] = 1 /\ chunks[Len(chunks)][3] = cells[i].len
                  /\ \A j \in DOMAIN chunks :
                      /\ chunks[j][1] = cells[i].key
                      /\ j > 1 => chunks[j][2] = chunks[j - 1][3] + 1
  <2> DEFINE k == cells[i].key
             n == cells[i].len
             chunks == reassemble_payload(pages, cells[i])
  <2>1. cells[i].overflow = 0
    BY <1>7, <1>9
  <2>2. chunks = <<<<k, 1, n>>>>
    BY <2>1 DEF reassemble_payload
  <2> HIDE DEF k, n, chunks
  <2>3. Len(chunks) = 1 /\ DOMAIN chunks = {1} /\ chunks[1] = <<k, 1, n>>
    BY <2>2
  <2>4. chunks[1][1] = k /\ chunks[1][2] = 1 /\ chunks[1][3] = n
    BY <2>3
  <2>5. /\ chunks[1][2] = 1 /\ chunks[Len(chunks)][3] = n
        /\ \A j \in DOMAIN chunks : chunks[j][1] = k /\ (j > 1 => chunks[j][2] = chunks[j - 1][3] + 1)
    BY <2>3, <2>4
  <2> QED
    BY <2>5 DEF k, n, chunks
<1> QED
  BY <1>12, <1>13, <1>14 DEF PagesAccounted, nodes, cells

(* In such a tree every page is a node that is reached from the root, and  *)
(* reached once: no page is lost, none is shared, whatever balance() takes *)
(* from the free list, gives back to it and has yet to do; and every cell  *)
(* has its whole payload.                                                  *)
THEOREM PagesAreAccounted ==
    ASSUME \A g \in Geometries : FixedCells(g)
    PROVE  Spec => []PagesAccounted
<1>1. TreeInv => PagesAccounted
  BY TreeHasItsPages
<1> QED
  BY <1>1, TreesStayTrees, PTL

(* In such a tree all the leaves are at one depth, also while balance() is *)
(* under way.                                                              *)
THEOREM LeavesAtOneDepth ==
    ASSUME \A g \in Geometries : FixedCells(g)
    PROVE  Spec => []SameDepth
<1>1. TreeInv => SameDepth
  BY TreeHasOneDepth
<1> QED
  BY <1>1, TreesStayTrees, PTL
=============================================================================
