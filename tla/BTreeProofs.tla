----------------------------- MODULE BTreeProofs -----------------------------
(***************************************************************************)
(* Proofs about the balancing of BTree: what balance() makes of a group of *)
(* siblings, for any pages, any number of siblings and any cells of which  *)
(* two fit in a page with a divider between them, and that it climbs.      *)
(*                                                                         *)
(* First the sums of the sizes of cells; then, in the order of the code,   *)
(* the distribution from the left, the filling of the last pages and of    *)
(* the first one; then the cells and pages of a group, and the levels.     *)
(***************************************************************************)
EXTENDS BTree, FiniteSetTheorems, SequenceTheorems, WellFoundedInduction, TLAPS

-----------------------------------------------------------------------------
(* Recursive functions.                                                    *)

LEMMA LeastElement ==
    ASSUME NEW T, T \subseteq Nat, T # {}
    PROVE  \E x \in T : \A y \in T : x <= y
<1> DEFINE R == {ss \in Nat \X Nat : ss[1] < ss[2]}
<1>1. IsWellFoundedOn(R, Nat)
  BY NatLessThanWellFounded DEF OpToRel
<1> HIDE DEF R
<1>2. PICK x \in T : \A y \in T : <<y, x>> \notin R
  BY <1>1, WFMin
<1>3. \A y \in T : ~(y < x)
  BY <1>2 DEF R
<1> QED
  BY <1>3

(* A set that has 0 and, with each number, the next one up to N.           *)
LEMMA UpwardClosed ==
    ASSUME NEW N \in Nat, NEW T, 0 \in T, \A n \in 1..N : n - 1 \in T => n \in T
    PROVE  \A n \in 0..N : n \in T
<1> DEFINE R == {n \in 0..N : n \notin T}
<1> SUFFICES ASSUME R # {}
             PROVE  FALSE
  OBVIOUS
<1>1. R \subseteq Nat
  OBVIOUS
<1>2. PICK m \in R : \A y \in R : m <= y
  <2> HIDE DEF R
  <2> QED
    BY <1>1, LeastElement
<1>3. m \in 1..N /\ m - 1 \in 0..N /\ m \notin T
  OBVIOUS
<1>4. m - 1 \notin R
  <2> HIDE DEF R
  <2> QED
    BY <1>2, <1>3
<1> QED
  BY <1>3, <1>4

(* A function that is given at some points, and at the others from its     *)
(* value at a point that is nearer to those (`rank' counts the way).       *)
Recursive(f, D, stop, base, next, step) ==
    \A x \in D : f[x] = IF x \in stop THEN base[x] ELSE step[<<x, f[next[x]]>>]

LEMMA RecursionExists ==
    ASSUME NEW D, NEW V, NEW v0 \in V, NEW N \in Nat, NEW rank \in [D -> 0..N],
           NEW stop, NEW base, NEW next, NEW step,
           \A x \in D \intersect stop : base[x] \in V,
           \A x \in D \ stop : next[x] \in D /\ rank[next[x]] < rank[x],
           \A x \in D \ stop, v \in V : step[<<x, v>>] \in V
    PROVE  \E f \in [D -> V] : Recursive(f, D, stop, base, next, step)
<1> DEFINE Up(f, n) == \A x \in D : rank[x] <= n =>
                           f[x] = IF x \in stop THEN base[x] ELSE step[<<x, f[next[x]]>>]
           T == {n \in 0..N : \E f \in [D -> V] : Up(f, n)}
<1>1. 0 \in T
  <2> DEFINE f == [x \in D |-> IF x \in stop THEN base[x] ELSE v0]
  <2>1. f \in [D -> V]
    OBVIOUS
  <2>2. Up(f, 0)
    OBVIOUS
  <2> HIDE DEF f
  <2> QED
    BY <2>1, <2>2
<1>2. ASSUME NEW n \in 1..N, n - 1 \in T PROVE n \in T
  <2>1. PICK f \in [D -> V] : Up(f, n - 1)
    BY <1>2
  <2> DEFINE g == [x \in D |-> IF x \in stop THEN base[x]
                               ELSE IF rank[x] = n THEN step[<<x, f[next[x]]>>] ELSE f[x]]
  <2>2. g \in [D -> V]
    OBVIOUS
  <2>3. ASSUME NEW x \in D, rank[x] <= n - 1 PROVE g[x] = f[x]
    BY <2>1, <2>3
  <2>4. ASSUME NEW x \in D, rank[x] <= n
        PROVE  g[x] = IF x \in stop THEN base[x] ELSE step[<<x, g[next[x]]>>]
    <3>1. CASE x \in stop
      BY <3>1
    <3>2. CASE x \notin stop
      <4>1. next[x] \in D /\ rank[next[x]] <= n - 1
        BY <2>4, <3>2
      <4>2. g[next[x]] = f[next[x]]
        BY <2>3, <4>1
      <4>3. rank[x] # n => rank[x] <= n - 1
        BY <2>4
      <4> QED
        BY <2>1, <3>2, <4>2, <4>3
    <3> QED
      BY <3>1, <3>2
  <2> HIDE DEF g
  <2>5. Up(g, n)
    BY <2>4
  <2> QED
    BY <2>2, <2>5
<1>3. N \in T
  <2> HIDE DEF T
  <2> QED
    BY <1>1, <1>2, UpwardClosed
<1>4. PICK f \in [D -> V] : Up(f, N)
  BY <1>3
<1>5. \A x \in D : rank[x] <= N
  OBVIOUS
<1> QED
  BY <1>4, <1>5 DEF Recursive

(* The same when it is given at 0 and from each number to the next.        *)
Iterates(f, N, V, first, step) ==
    f \in [0..N -> V] /\ f[0] = first /\ \A n \in 1..N : f[n] = step[<<n, f[n - 1]>>]

LEMMA IterationExists ==
    ASSUME NEW N \in Nat, NEW V, NEW first \in V, NEW step,
           \A n \in 1..N, v \in V : step[<<n, v>>] \in V
    PROVE  \E f : Iterates(f, N, V, first, step)
<1> DEFINE rank == [n \in 0..N |-> n]
           base == [n \in {0} |-> first]
           next == [n \in 1..N |-> n - 1]
<1>1. \E f \in [0..N -> V] : Recursive(f, 0..N, {0}, base, next, step)
  <2>1. rank \in [0..N -> 0..N]
    OBVIOUS
  <2>2. \A x \in (0..N) \intersect {0} : base[x] \in V
    OBVIOUS
  <2>3. \A x \in (0..N) \ {0} : next[x] \in 0..N /\ rank[next[x]] < rank[x]
    OBVIOUS
  <2>4. \A x \in (0..N) \ {0}, v \in V : step[<<x, v>>] \in V
    <3>1. (0..N) \ {0} = 1..N
      OBVIOUS
    <3> QED
      BY <3>1
  <2> HIDE DEF rank, base, next
  <2> QED
    BY <2>1, <2>2, <2>3, <2>4, RecursionExists
<1>2. PICK f \in [0..N -> V] : Recursive(f, 0..N, {0}, base, next, step)
  BY <1>1
<1>3. f[0] = first
  <2>1. 0 \in 0..N /\ 0 \in {0} /\ base[0] = first
    OBVIOUS
  <2> HIDE DEF base
  <2> QED
    BY <1>2, <2>1 DEF Recursive
<1>4. ASSUME NEW n \in 1..N PROVE f[n] = step[<<n, f[n - 1]>>]
  <2>1. n \in 0..N /\ n \notin {0} /\ next[n] = n - 1
    OBVIOUS
  <2> HIDE DEF next
  <2> QED
    BY <1>2, <2>1 DEF Recursive
<1> QED
  BY <1>2, <1>3, <1>4 DEF Iterates

-----------------------------------------------------------------------------
(* The bytes of cells.                                                     *)

SizedCells(cells) ==
    /\ cells = [i \in 1..Len(cells) |-> cells[i]] /\ Len(cells) \in Nat
    /\ \A i \in 1..Len(cells) : storage_size(cells[i]) \in Nat

(* B[i] is what the first i cells take.                                    *)
Sums(B, cells) ==
    /\ B \in [0..Len(cells) -> Nat] /\ B[0] = 0
    /\ \A i \in 1..Len(cells) : B[i] = B[i - 1] + storage_size(cells[i])

LEMMA SumsExist ==
    ASSUME NEW cells, SizedCells(cells)
    PROVE  \E B : Sums(B, cells) /\ used_bytes(cells) = B[Len(cells)]
<1> DEFINE n == Len(cells)
           Of(f) == [i \in 0..n |-> IF i = 0 THEN 0 ELSE f[i - 1] + storage_size(cells[i])]
           step == [p \in (1..n) \X Nat |-> p[2] + storage_size(cells[p[1]])]
           B == CHOOSE f : f = Of(f)
<1>1. n \in Nat /\ \A i \in 1..n : storage_size(cells[i]) \in Nat
  BY DEF SizedCells
<1>2. \A i \in 1..n, v \in Nat : step[<<i, v>>] = v + storage_size(cells[i])
  OBVIOUS
<1>3. ASSUME NEW i \in 1..n, NEW v \in Nat PROVE step[<<i, v>>] \in Nat
  <2>1. storage_size(cells[i]) \in Nat /\ step[<<i, v>>] = v + storage_size(cells[i])
    BY <1>1, <1>2
  <2> HIDE DEF step
  <2> QED
    BY <2>1
<1>4. PICK f : Iterates(f, n, Nat, 0, step)
  <2> HIDE DEF n, step
  <2> QED
    BY <1>1, <1>3, IterationExists
<1>5. f \in [0..n -> Nat] /\ f[0] = 0 /\ \A i \in 1..n : f[i] = step[<<i, f[i - 1]>>]
  BY <1>4 DEF Iterates
<1>6. ASSUME NEW i \in 1..n PROVE f[i] = f[i - 1] + storage_size(cells[i])
  <2>1. i - 1 \in 0..n
    BY <1>1
  <2>2. f[i - 1] \in Nat
    BY <1>5, <2>1
  <2>3. step[<<i, f[i - 1]>>] = f[i - 1] + storage_size(cells[i])
    BY <1>2, <2>2
  <2> HIDE DEF step
  <2> QED
    BY <1>5, <2>3
<1>7. f = Of(f)
  <2> HIDE DEF step
  <2> QED
    BY <1>1, <1>5, <1>6
<1>8. B = Of(B)
  <2> HIDE DEF Of
  <2> QED
    BY <1>7
<1>9. used_bytes(cells) = B[n]
  BY DEF used_bytes
<1> HIDE DEF B
<1>10. B[0] = 0 /\ \A i \in 1..n : B[i] = B[i - 1] + storage_size(cells[i])
  BY <1>1, <1>8
<1> DEFINE T == {i \in 0..n : B[i] \in Nat}
<1>11. \A i \in 0..n : i \in T
  <2>1. 0 \in T
    BY <1>1, <1>10
  <2>2. \A i \in 1..n : i - 1 \in T => i \in T
    BY <1>1, <1>10
  <2> HIDE DEF T, n
  <2> QED
    BY <1>1, <2>1, <2>2, UpwardClosed
<1>12. B \in [0..n -> Nat]
  BY <1>8, <1>11
<1> QED
  BY <1>9, <1>10, <1>12 DEF Sums

LEMMA SumsAreOne ==
    ASSUME NEW cells, SizedCells(cells), NEW B, Sums(B, cells)
    PROVE  used_bytes(cells) = B[Len(cells)] /\ used_bytes(cells) \in Nat
<1> DEFINE n == Len(cells)
<1>1. PICK A : Sums(A, cells) /\ used_bytes(cells) = A[n]
  BY SumsExist
<1> DEFINE T == {i \in 0..n : A[i] = B[i]}
<1>2. n \in Nat
  BY DEF SizedCells
<1>3. 0 \in T
  BY <1>1, <1>2 DEF Sums
<1>4. \A i \in 1..n : i - 1 \in T => i \in T
  BY <1>1, <1>2 DEF Sums
<1>5. n \in T
  <2> HIDE DEF T, n
  <2> QED
    BY <1>2, <1>3, <1>4, UpwardClosed
<1> QED
  BY <1>1, <1>2, <1>5 DEF Sums

LEMMA SumsGrow ==
    ASSUME NEW cells, SizedCells(cells), NEW B, Sums(B, cells)
    PROVE  \A i, j \in 0..Len(cells) : i <= j => B[i] <= B[j]
<1> DEFINE n == Len(cells)
<1>1. n \in Nat /\ B \in [0..n -> Nat]
      /\ \A i \in 1..n : storage_size(cells[i]) \in Nat /\ B[i] = B[i - 1] + storage_size(cells[i])
  BY DEF SizedCells, Sums
<1> DEFINE T == {j \in 0..n : \A i \in 0..j : B[i] <= B[j]}
<1>2. 0 \in T
  BY <1>1
<1>3. ASSUME NEW j \in 1..n, j - 1 \in T PROVE j \in T
  <2>1. B[j - 1] <= B[j] /\ B[j] \in Nat /\ B[j - 1] \in Nat
    <3>1. j - 1 \in 0..n /\ j \in 0..n
      BY <1>1
    <3>2. B[j - 1] \in Nat /\ B[j] \in Nat
      BY <1>1, <3>1
    <3>3. storage_size(cells[j]) \in Nat /\ B[j] = B[j - 1] + storage_size(cells[j])
      BY <1>1
    <3> QED
      BY <3>2, <3>3
  <2>2. ASSUME NEW i \in 0..j PROVE B[i] <= B[j]
    <3>1. B[i] \in Nat
      BY <1>1
    <3>2. i = j \/ i \in 0..(j - 1)
      OBVIOUS
    <3>3. \A m \in 0..(j - 1) : B[m] <= B[j - 1]
      BY <1>3
    <3> QED
      BY <2>1, <3>1, <3>2, <3>3
  <2> QED
    BY <2>2
<1>4. \A j \in 0..n : j \in T
  <2> HIDE DEF T, n
  <2> QED
    BY <1>1, <1>2, <1>3, UpwardClosed
<1> QED
  BY <1>4

LEMMA SumsOfPart ==
    ASSUME NEW cells, SizedCells(cells), NEW B, Sums(B, cells),
           NEW a \in 0..Len(cells), NEW b \in a..Len(cells)
    PROVE  /\ SizedCells(SubSeq(cells, a + 1, b))
           /\ used_bytes(SubSeq(cells, a + 1, b)) = B[b] - B[a]
<1> DEFINE n == Len(cells)
           part == SubSeq(cells, a + 1, b)
           A == [i \in 0..(b - a) |-> B[a + i] - B[a]]
<1>1. n \in Nat /\ B \in [0..n -> Nat] /\ a \in Nat /\ b \in Nat /\ a <= b
      /\ \A i \in 1..n : storage_size(cells[i]) \in Nat /\ B[i] = B[i - 1] + storage_size(cells[i])
  BY DEF SizedCells, Sums
<1>2. part = [i \in 1..(b - a) |-> cells[a + i]] /\ Len(part) = b - a
  <2>1. part = [i \in 1..(b - (a + 1) + 1) |-> cells[i + (a + 1) - 1]]
    OBVIOUS
  <2> QED
    BY <1>1, <2>1
<1>3. SizedCells(part)
  <2>1. \A i \in 1..(b - a) : a + i \in 1..n /\ part[i] = cells[a + i]
    BY <1>1, <1>2
  <2>2. \A i \in 1..(b - a) : storage_size(part[i]) \in Nat
    BY <1>1, <2>1
  <2>3. part = [i \in 1..(b - a) |-> part[i]] /\ b - a \in Nat
    BY <1>1, <1>2
  <2> HIDE DEF part
  <2> QED
    BY <1>2, <2>2, <2>3 DEF SizedCells
<1>4. Sums(A, part)
  <2>1. ASSUME NEW i \in 0..(b - a) PROVE A[i] \in Nat
    <3>1. a \in 0..n /\ a + i \in 0..n /\ a <= a + i
      BY <1>1
    <3>2. B[a] \in Nat /\ B[a + i] \in Nat
      BY <1>1, <3>1
    <3>3. B[a] <= B[a + i]
      BY <3>1, SumsGrow
    <3> QED
      BY <3>2, <3>3
  <2>2. A[0] = 0
    <3>1. a \in 0..n /\ a + 0 = a /\ 0 \in 0..(b - a)
      BY <1>1
    <3>2. B[a] \in Nat
      BY <1>1, <3>1
    <3> QED
      BY <3>1, <3>2
  <2>3. ASSUME NEW i \in 1..(b - a) PROVE A[i] = A[i - 1] + storage_size(part[i])
    <3>1. a + i \in 1..n /\ i - 1 \in 0..(b - a) /\ i \in 0..(b - a) /\ a + (i - 1) = (a + i) - 1
          /\ (a + i) - 1 \in 0..n /\ a \in 0..n /\ a + i \in 0..n
      BY <1>1
    <3>2. A[i] = B[a + i] - B[a] /\ A[i - 1] = B[(a + i) - 1] - B[a] /\ part[i] = cells[a + i]
      BY <1>2, <3>1
    <3>3. B[a + i] = B[(a + i) - 1] + storage_size(cells[a + i]) /\ storage_size(cells[a + i]) \in Nat
      BY <1>1, <3>1
    <3>4. B[(a + i) - 1] \in Nat /\ B[a] \in Nat
      BY <1>1, <3>1
    <3> HIDE DEF A, part
    <3> QED
      BY <3>2, <3>3, <3>4
  <2> HIDE DEF part
  <2> QED
    BY <1>1, <1>2, <2>1, <2>2, <2>3 DEF Sums
<1>5. used_bytes(part) = A[b - a]
  <2> HIDE DEF A, part
  <2> QED
    BY <1>2, <1>3, <1>4, SumsAreOne
<1>6. A[b - a] = B[b] - B[a]
  BY <1>1
<1> QED
  BY <1>3, <1>5, <1>6

-----------------------------------------------------------------------------
(* How balance() shares cells out: k parts, of which part i has n[i] cells *)
(* from cell e[i] + 1 on; cell e[i] divides it from the part before it.    *)

Parts(k, n, e, m) ==
    /\ n \in [1..k -> Nat]
    /\ e \in [1..(k + 1) -> 0..(m + 1)] /\ e[1] = 0 /\ e[k + 1] = m + 1
    /\ \A i \in 1..k : e[i + 1] = e[i] + n[i] + 1
    /\ \A s, t \in 1..(k + 1) : s < t => e[s] < e[t]

(* No part is larger than U.                                               *)
Weighs(k, n, size, e, B, U) ==
    /\ size \in [1..k -> Nat]
    /\ \A i \in 1..k : size[i] = B[e[i] + n[i]] - B[e[i]] /\ size[i] <= U

(* The cells so far are in parts none of which had room for the next one.  *)
Greedy(k, n, size, e, B, m, U) ==
    /\ Parts(k, n, e, m) /\ Weighs(k, n, size, e, B, U)
    /\ \A i \in 1..(k - 1) : B[e[i + 1]] - B[e[i]] > U

(* What is known of them and of the last part, when the next cell is j.     *)
Opened(k, n, s, e, B, j, U) ==
    /\ n \in [1..k -> Nat] /\ s \in [1..k -> Nat]
    /\ e \in [1..(k + 1) -> 0..j] /\ e[1] = 0 /\ e[k + 1] = j
    /\ \A i \in 1..k : e[i + 1] = e[i] + n[i] + 1
    /\ \A a, b \in 1..(k + 1) : a < b => e[a] < e[b]
    /\ \A i \in 1..k : s[i] = B[e[i] + n[i]] - B[e[i]] /\ s[i] <= U
    /\ \A i \in 1..(k - 1) : B[e[i + 1]] - B[e[i]] > U
    /\ e[k] + n[k] = j - 1 /\ e[k] + (n[k] + 1) = j /\ e[k] \in 0..j /\ n[k] \in Nat /\ s[k] \in Nat
    /\ s[k] = B[j - 1] - B[e[k]] /\ B[j] \in Nat /\ B[j - 1] \in Nat /\ B[e[k]] \in Nat

(* n with x more at k; n with a 0 after its k numbers.                     *)
Raised(m, n, k, x) ==
    m \in [1..k -> Nat] /\ m[k] = n[k] + x /\ \A i \in 1..k : i # k => m[i] = n[i]
Longer(m, n, k) ==
    m \in [1..(k + 1) -> Nat] /\ m[k + 1] = 0 /\ \A i \in 1..k : m[i] = n[i]

HasRoom(s, k, size, U) == s[k] + size <= U

(* Cell j takes `size' bytes.                                               *)
Takes(B, j, size) == B[j] = B[j - 1] + size

Extends(f, k, e, j, v) ==
    /\ f \in [1..(k + 1) -> 0..(j + 1)] /\ f[k + 1] = v
    /\ \A i \in 1..k : f[i] = e[i]

LEMMA ExtendBy ==
    ASSUME NEW k \in Nat, NEW e, NEW j \in Nat, NEW D, e \in [D -> 0..j],
           \A i \in 1..k : i \in D
    PROVE  \E f : Extends(f, k, e, j, j + 1)
<1> DEFINE f == [i \in 1..(k + 1) |-> IF i = k + 1 THEN j + 1 ELSE e[i]]
<1>1. \A i \in 1..(k + 1) : i # k + 1 => i \in 1..k
  OBVIOUS
<1>2. \A i \in D : e[i] \in 0..j
  OBVIOUS
<1>3. 0..j \subseteq 0..(j + 1) /\ j + 1 \in 0..(j + 1)
  OBVIOUS
<1>4. f \in [1..(k + 1) -> 0..(j + 1)]
  BY <1>1, <1>2, <1>3
<1>5. k + 1 \in 1..(k + 1) /\ \A i \in 1..k : i \in 1..(k + 1) /\ i # k + 1
  OBVIOUS
<1>6. f[k + 1] = j + 1 /\ \A i \in 1..k : f[i] = e[i]
  BY <1>5
<1> HIDE DEF f
<1> QED
  BY <1>4, <1>6 DEF Extends

LEMMA LastPart ==
    ASSUME NEW U \in Nat, NEW N \in Nat, NEW B \in [0..N -> Nat], NEW j \in 1..N,
           NEW k \in Nat, k >= 1, NEW n, NEW s, NEW e, Greedy(k, n, s, e, B, j - 1, U)
    PROVE  Opened(k, n, s, e, B, j, U)
<1>1. /\ n \in [1..k -> Nat] /\ s \in [1..k -> Nat]
      /\ e \in [1..(k + 1) -> 0..((j - 1) + 1)] /\ e[1] = 0 /\ e[k + 1] = (j - 1) + 1
      /\ \A i \in 1..k : e[i + 1] = e[i] + n[i] + 1
      /\ \A a, b \in 1..(k + 1) : a < b => e[a] < e[b]
      /\ \A i \in 1..k : s[i] = B[e[i] + n[i]] - B[e[i]] /\ s[i] <= U
      /\ \A i \in 1..(k - 1) : B[e[i + 1]] - B[e[i]] > U
  BY DEF Greedy, Parts, Weighs
<1>2. (j - 1) + 1 = j /\ k \in 1..k /\ k \in 1..(k + 1) /\ k + 1 \in 1..(k + 1)
  OBVIOUS
<1>3. e \in [1..(k + 1) -> 0..j] /\ e[k + 1] = j
  BY <1>1, <1>2
<1>4. n[k] \in Nat /\ e[k] \in 0..j /\ s[k] \in Nat /\ e[k + 1] = e[k] + n[k] + 1
  BY <1>1, <1>2, <1>3
<1>5. e[k] + n[k] = j - 1 /\ e[k] + (n[k] + 1) = j
  BY <1>3, <1>4
<1>6. j \in 0..N /\ j - 1 \in 0..N /\ e[k] \in 0..N
  BY <1>4
<1>7. B[j] \in Nat /\ B[j - 1] \in Nat /\ B[e[k]] \in Nat
  BY <1>6
<1>8. s[k] = B[j - 1] - B[e[k]]
  BY <1>1, <1>2, <1>5
<1> QED
  BY <1>1, <1>3, <1>4, <1>5, <1>7, <1>8 DEF Opened

(* The next cell goes into the last part, or divides it from a new one.    *)
LEMMA CellFits ==
    ASSUME NEW U \in Nat, NEW N \in Nat, NEW B \in [0..N -> Nat], NEW j \in 1..N,
           NEW size \in Nat, Takes(B, j, size),
           NEW k \in Nat, k >= 1, NEW n, NEW s, NEW e, Greedy(k, n, s, e, B, j - 1, U),
           HasRoom(s, k, size, U), NEW m, NEW w, Raised(m, n, k, 1), Raised(w, s, k, size)
    PROVE  \E f : Greedy(k, m, w, f, B, j, U)
<1>0. Opened(k, n, s, e, B, j, U)
  BY LastPart
<1>1. /\ n \in [1..k -> Nat] /\ s \in [1..k -> Nat]
      /\ e \in [1..(k + 1) -> 0..j] /\ e[1] = 0 /\ e[k + 1] = j
      /\ \A i \in 1..k : e[i + 1] = e[i] + n[i] + 1
      /\ \A a, b \in 1..(k + 1) : a < b => e[a] < e[b]
      /\ \A i \in 1..k : s[i] = B[e[i] + n[i]] - B[e[i]] /\ s[i] <= U
      /\ \A i \in 1..(k - 1) : B[e[i + 1]] - B[e[i]] > U
  BY <1>0 DEF Opened
<1>2. e[k] + n[k] = j - 1 /\ e[k] + (n[k] + 1) = j /\ e[k] \in Nat /\ n[k] \in Nat
  BY <1>0 DEF Opened
<1>20. s[k] \in Nat /\ B[j] \in Nat /\ B[j - 1] \in Nat /\ B[e[k]] \in Nat
  BY <1>0 DEF Opened
<1>21. B[j] - B[e[k]] = s[k] + size
  <2>1. s[k] = B[j - 1] - B[e[k]]
    BY <1>0 DEF Opened
  <2>2. B[j] = B[j - 1] + size
    BY DEF Takes
  <2> QED
    BY ONLY <1>20, <2>1, <2>2, size \in Nat
<1>3. m \in [1..k -> Nat] /\ w \in [1..k -> Nat] /\ m[k] = n[k] + 1 /\ w[k] = s[k] + size
      /\ \A i \in 1..(k - 1) : m[i] = n[i] /\ w[i] = s[i]
  <2>1. \A i \in 1..(k - 1) : i \in 1..k /\ i # k
    OBVIOUS
  <2>2. /\ m \in [1..k -> Nat] /\ m[k] = n[k] + 1 /\ \A t \in 1..k : t # k => m[t] = n[t]
        /\ w \in [1..k -> Nat] /\ w[k] = s[k] + size /\ \A t \in 1..k : t # k => w[t] = s[t]
    BY DEF Raised
  <2> QED
    BY <2>1, <2>2
<1>30. s[k] + size <= U
  BY DEF HasRoom
<1> PICK f : Extends(f, k, e, j, j + 1)
  <2>1. (\A i \in 1..k : i \in 1..(k + 1)) /\ j \in Nat
    OBVIOUS
  <2> QED
    BY <1>1, <2>1, ExtendBy
<1>4. f \in [1..(k + 1) -> 0..(j + 1)] /\ f[k + 1] = j + 1 /\ \A i \in 1..k : f[i] = e[i]
  BY DEF Extends
<1>5. 1 \in 1..k /\ k \in 1..k /\ f[k] = e[k]
  BY <1>4
<1>50. f[k] + m[k] = j
  <2>1. m[k] = n[k] + 1
    BY <1>3
  <2>2. e[k] + m[k] = j
    BY <1>2, <2>1
  <2> QED
    BY <1>5, <2>2
<1>6. ASSUME NEW i \in 1..k PROVE f[i + 1] = f[i] + m[i] + 1
  <2>1. CASE i = k
    BY <1>4, <1>50, <2>1
  <2>2. CASE i # k
    <3>1. i \in 1..(k - 1) /\ i + 1 \in 1..k
      BY <2>2
    <3> QED
      BY <1>1, <1>3, <1>4, <3>1
  <2> QED
    BY <2>1, <2>2
<1>7. ASSUME NEW a \in 1..(k + 1), NEW b \in 1..(k + 1), a < b PROVE f[a] < f[b]
  <2>1. a \in 1..k
    BY <1>7
  <2>2. CASE b = k + 1
    <3>1. e[a] \in 0..j
      BY <1>1
    <3> QED
      BY <1>4, <2>1, <2>2, <3>1
  <2>3. CASE b # k + 1
    <3>1. b \in 1..k
      BY <2>3
    <3> QED
      BY <1>1, <1>4, <1>7, <2>1, <3>1
  <2> QED
    BY <2>2, <2>3
<1>8. ASSUME NEW i \in 1..k PROVE w[i] = B[f[i] + m[i]] - B[f[i]] /\ w[i] <= U
  <2>1. CASE i = k
    <3>1. B[f[k] + m[k]] - B[f[k]] = s[k] + size
      BY <1>5, <1>21, <1>50
    <3> QED
      BY <1>3, <1>30, <2>1, <3>1
  <2>2. CASE i # k
    <3>1. i \in 1..(k - 1)
      BY <2>2
    <3> QED
      BY <1>1, <1>3, <1>4, <3>1
  <2> QED
    BY <2>1, <2>2
<1>9. ASSUME NEW i \in 1..(k - 1) PROVE B[f[i + 1]] - B[f[i]] > U
  <2>1. i \in 1..k /\ i + 1 \in 1..k
    OBVIOUS
  <2> QED
    BY <1>1, <1>4, <2>1
<1>10. f[1] = 0
  BY <1>1, <1>4, <1>5
<1>11. Greedy(k, m, w, f, B, j, U)
  BY <1>3, <1>4, <1>6, <1>7, <1>8, <1>9, <1>10 DEF Greedy, Parts, Weighs
<1> QED
  BY <1>11

LEMMA CellDivides ==
    ASSUME NEW U \in Nat, NEW N \in Nat, NEW B \in [0..N -> Nat], NEW j \in 1..N,
           NEW size \in Nat, Takes(B, j, size),
           NEW k \in Nat, k >= 1, NEW n, NEW s, NEW e, Greedy(k, n, s, e, B, j - 1, U),
           ~HasRoom(s, k, size, U), NEW m, NEW w, Longer(m, n, k), Longer(w, s, k)
    PROVE  \E f : Greedy(k + 1, m, w, f, B, j, U)
<1>0. Opened(k, n, s, e, B, j, U)
  BY LastPart
<1>1. /\ n \in [1..k -> Nat] /\ s \in [1..k -> Nat]
      /\ e \in [1..(k + 1) -> 0..j] /\ e[1] = 0 /\ e[k + 1] = j
      /\ \A i \in 1..k : e[i + 1] = e[i] + n[i] + 1
      /\ \A a, b \in 1..(k + 1) : a < b => e[a] < e[b]
      /\ \A i \in 1..k : s[i] = B[e[i] + n[i]] - B[e[i]] /\ s[i] <= U
      /\ \A i \in 1..(k - 1) : B[e[i + 1]] - B[e[i]] > U
  BY <1>0 DEF Opened
<1>2. e[k] + n[k] = j - 1 /\ e[k] + (n[k] + 1) = j /\ e[k] \in Nat /\ n[k] \in Nat
  BY <1>0 DEF Opened
<1>20. s[k] \in Nat /\ B[j] \in Nat /\ B[j - 1] \in Nat /\ B[e[k]] \in Nat
  BY <1>0 DEF Opened
<1>21. B[j] - B[e[k]] = s[k] + size
  <2>1. s[k] = B[j - 1] - B[e[k]]
    BY <1>0 DEF Opened
  <2>2. B[j] = B[j - 1] + size
    BY DEF Takes
  <2> QED
    BY ONLY <1>20, <2>1, <2>2, size \in Nat
<1>22. s[k] + size > U
  BY <1>20 DEF HasRoom
<1>23. /\ m \in [1..(k + 1) -> Nat] /\ w \in [1..(k + 1) -> Nat] /\ m[k + 1] = 0 /\ w[k + 1] = 0
       /\ \A i \in 1..k : m[i] = n[i] /\ w[i] = s[i]
  BY DEF Longer
<1> PICK f : Extends(f, k + 1, e, j, j + 1)
  <2>1. k + 1 \in Nat /\ j \in Nat
    OBVIOUS
  <2> QED
    BY <1>1, <2>1, ExtendBy
<1>3. /\ f \in [1..((k + 1) + 1) -> 0..(j + 1)] /\ f[(k + 1) + 1] = j + 1
      /\ \A i \in 1..(k + 1) : f[i] = e[i]
  BY DEF Extends
<1>4. (k + 1) + 1 = k + 2 /\ f[k + 2] = j + 1 /\ k + 1 \in 1..(k + 1) /\ 1 \in 1..(k + 1)
      /\ f[k + 1] = j /\ f[1] = 0
  BY <1>1, <1>3
<1>5. ASSUME NEW i \in 1..(k + 1) PROVE f[i + 1] = f[i] + m[i] + 1
  <2>1. CASE i = k + 1
    <3>1. f[i + 1] = j + 1 /\ f[i] = j /\ m[i] = 0
      <4>1. i + 1 = k + 2
        BY <2>1
      <4> QED
        BY <1>4, <1>23, <2>1, <4>1
    <3> QED
      BY ONLY <3>1, j \in Nat
  <2>2. CASE i # k + 1
    <3>1. i \in 1..k /\ i + 1 \in 1..(k + 1)
      BY <2>2
    <3> QED
      BY <1>1, <1>3, <1>23, <3>1
  <2> QED
    BY <2>1, <2>2
<1>6. ASSUME NEW a \in 1..((k + 1) + 1), NEW b \in 1..((k + 1) + 1), a < b PROVE f[a] < f[b]
  <2>1. a \in 1..(k + 1)
    BY <1>6
  <2>2. CASE b = k + 2
    <3>1. e[a] \in 0..j
      BY <1>1, <2>1
    <3>2. f[a] = e[a] /\ f[b] = j + 1
      BY <1>3, <1>4, <2>1, <2>2
    <3> QED
      BY ONLY <3>1, <3>2, j \in 1..N, N \in Nat
  <2>3. CASE b # k + 2
    <3>1. b \in 1..(k + 1)
      BY <2>3
    <3> QED
      BY <1>1, <1>3, <1>6, <2>1, <3>1
  <2> QED
    BY <2>2, <2>3
<1>7. ASSUME NEW i \in 1..(k + 1) PROVE w[i] = B[f[i] + m[i]] - B[f[i]] /\ w[i] <= U
  <2>1. CASE i = k + 1
    <3>1. f[i] = j /\ m[i] = 0 /\ w[i] = 0
      BY <1>4, <1>23, <2>1
    <3>2. f[i] + m[i] = j
      BY <3>1
    <3>3. B[j] - B[j] = 0
      BY <1>20
    <3> QED
      BY <3>1, <3>2, <3>3
  <2>2. CASE i # k + 1
    <3>1. i \in 1..k /\ i \in 1..(k + 1)
      BY <2>2
    <3> QED
      BY <1>1, <1>3, <1>23, <3>1
  <2> QED
    BY <2>1, <2>2
<1>8. ASSUME NEW i \in 1..((k + 1) - 1) PROVE B[f[i + 1]] - B[f[i]] > U
  <2>1. i \in 1..(k + 1) /\ i + 1 \in 1..(k + 1)
    OBVIOUS
  <2>2. CASE i = k
    <3>1. f[i + 1] = j /\ f[i] = e[k]
      BY <1>1, <1>3, <2>1, <2>2
    <3> QED
      BY <1>20, <1>21, <1>22, <3>1
  <2>3. CASE i # k
    <3>1. i \in 1..(k - 1)
      BY <2>3
    <3> QED
      BY <1>1, <1>3, <2>1, <3>1
  <2> QED
    BY <2>2, <2>3
<1>9. f[1] = 0 /\ f[(k + 1) + 1] = j + 1
  BY <1>3, <1>4
<1>10. Greedy(k + 1, m, w, f, B, j, U)
  BY <1>3, <1>5, <1>6, <1>7, <1>8, <1>9, <1>23 DEF Greedy, Parts, Weighs
<1> QED
  BY <1>10

-----------------------------------------------------------------------------
(* The distribution that balance() starts from.                            *)

Share(n, s, div, ok) == [n |-> n, size |-> s, div |-> div, ok |-> ok]

(* Before the last pages are filled; k parts.                              *)
Pushed(d, k, n, s) ==
    /\ k \in Nat /\ k >= 1 /\ n \in [1..k -> Nat] /\ s \in [1..k -> Nat]
    /\ d = Share(n, s, 0, TRUE)

PushedShares ==
    {d \in [n : Seq(Nat), size : Seq(Nat), div : {0}, ok : {TRUE}] :
        Len(d.n) >= 1 /\ Len(d.size) = Len(d.n)}

(* The cells up to j are in the parts of d, from the left.                 *)
LeftOf(d, B, j, U) == \E k, n, s, e : Pushed(d, k, n, s) /\ Greedy(k, n, s, e, B, j, U)

LEMMA LenOf ==
    ASSUME NEW k \in Nat, NEW n \in [1..k -> Nat]
    PROVE  Len(n) = k /\ n \in Seq(Nat)
OBVIOUS

LEMMA SequencesAreFunctions ==
    ASSUME NEW k \in Nat, NEW n \in Seq(Nat), Len(n) = k
    PROVE  n \in [1..k -> Nat]
OBVIOUS

LEMMA PushedIsAShare ==
    ASSUME NEW d, NEW k, NEW n, NEW s, Pushed(d, k, n, s)
    PROVE  d \in PushedShares
<1>1. k \in Nat /\ k >= 1 /\ n \in [1..k -> Nat] /\ s \in [1..k -> Nat]
      /\ d = Share(n, s, 0, TRUE)
  BY DEF Pushed
<1>2. Len(n) = k /\ n \in Seq(Nat) /\ Len(s) = k /\ s \in Seq(Nat)
  BY <1>1, LenOf
<1>3. d.n = n /\ d.size = s /\ d \in [n : Seq(Nat), size : Seq(Nat), div : {0}, ok : {TRUE}]
  BY <1>1, <1>2 DEF Share
<1> QED
  BY <1>1, <1>2, <1>3 DEF PushedShares

LEMMA SharesArePushed ==
    ASSUME NEW d \in PushedShares
    PROVE  \E k, n, s : Pushed(d, k, n, s)
<1>1. d.n \in Seq(Nat) /\ d.size \in Seq(Nat) /\ Len(d.n) >= 1 /\ Len(d.size) = Len(d.n)
      /\ Len(d.n) \in Nat
  BY DEF PushedShares
<1>2. d = Share(d.n, d.size, 0, TRUE)
  BY DEF PushedShares, Share
<1>3. d.n \in [1..Len(d.n) -> Nat] /\ d.size \in [1..Len(d.n) -> Nat]
  BY <1>1, SequencesAreFunctions
<1> QED
  BY <1>1, <1>2, <1>3 DEF Pushed

(* A cell more in the last part, or a part more.                           *)
FitsIn(p, k, n, s, size) ==
    \E m, w : Raised(m, n, k, 1) /\ Raised(w, s, k, size) /\ Pushed(p, k, m, w)
DividesIn(p, k, n, s) ==
    \E m, w : Longer(m, n, k) /\ Longer(w, s, k) /\ Pushed(p, k + 1, m, w)

LEMMA PushFits ==
    ASSUME NEW size \in Nat, NEW d, NEW k, NEW n, NEW s, Pushed(d, k, n, s),
           HasRoom(s, k, size, geo.usable_space)
    PROVE  FitsIn(push_right(d, size), k, n, s, size)
<1>0. k \in Nat /\ k >= 1 /\ n \in [1..k -> Nat] /\ s \in [1..k -> Nat]
      /\ d = Share(n, s, 0, TRUE)
  BY DEF Pushed
<1>1. Len(n) = k
  BY <1>0, LenOf
<1>2. s[k] + size <= geo.usable_space
  BY DEF HasRoom
<1>3. push_right(d, size)
         = [Share(n, s, 0, TRUE) EXCEPT !.n[k] = @ + 1, !.size[k] = @ + size]
  BY <1>0, <1>1, <1>2 DEF push_right, Share
<1> DEFINE m == [n EXCEPT ![k] = @ + 1]
           w == [s EXCEPT ![k] = @ + size]
<1>4. push_right(d, size) = Share(m, w, 0, TRUE)
  BY <1>3 DEF Share
<1>5. k \in 1..k /\ n[k] + 1 \in Nat /\ s[k] + size \in Nat
  BY <1>0
<1>6. Raised(m, n, k, 1)
  BY <1>0, <1>5 DEF Raised
<1>7. Raised(w, s, k, size)
  BY <1>0, <1>5 DEF Raised
<1> HIDE DEF m, w
<1>8. m \in [1..k -> Nat] /\ w \in [1..k -> Nat]
  BY <1>6, <1>7 DEF Raised
<1>9. Pushed(push_right(d, size), k, m, w)
  BY <1>0, <1>4, <1>8 DEF Pushed
<1> QED
  BY <1>6, <1>7, <1>9 DEF FitsIn

LEMMA AppendZero ==
    ASSUME NEW k \in Nat, NEW n, n \in [1..k -> Nat]
    PROVE  Longer(Append(n, 0), n, k)
<1>1. Len(n) = k /\ n \in Seq(Nat)
  BY LenOf
<1>2. Append(n, 0) \in Seq(Nat) /\ Len(Append(n, 0)) = k + 1
  BY <1>1
<1>3. k + 1 \in Nat
  OBVIOUS
<1>4. Append(n, 0) \in [1..(k + 1) -> Nat]
  BY <1>2, <1>3, SequencesAreFunctions
<1>5. Append(n, 0)[k + 1] = 0 /\ \A i \in 1..k : Append(n, 0)[i] = n[i]
  BY <1>1
<1> QED
  BY <1>4, <1>5 DEF Longer

LEMMA PushDivides ==
    ASSUME NEW size \in Nat, NEW d, NEW k, NEW n, NEW s, Pushed(d, k, n, s),
           ~HasRoom(s, k, size, geo.usable_space)
    PROVE  DividesIn(push_right(d, size), k, n, s)
<1>0. k \in Nat /\ k >= 1 /\ n \in [1..k -> Nat] /\ s \in [1..k -> Nat]
      /\ d = Share(n, s, 0, TRUE)
  BY DEF Pushed
<1>1. Len(n) = k
  BY <1>0, LenOf
<1>2. ~(s[k] + size <= geo.usable_space)
  BY DEF HasRoom
<1>3. push_right(d, size)
         = [Share(n, s, 0, TRUE) EXCEPT !.n = Append(@, 0), !.size = Append(@, 0)]
  BY <1>0, <1>1, <1>2 DEF push_right, Share
<1>4. push_right(d, size) = Share(Append(n, 0), Append(s, 0), 0, TRUE)
  BY <1>3 DEF Share
<1>5. Longer(Append(n, 0), n, k) /\ Longer(Append(s, 0), s, k)
  BY <1>0, AppendZero
<1>6. k + 1 \in Nat /\ k + 1 >= 1
  BY <1>0
<1>7. Append(n, 0) \in [1..(k + 1) -> Nat] /\ Append(s, 0) \in [1..(k + 1) -> Nat]
  BY <1>5 DEF Longer
<1>8. Pushed(push_right(d, size), k + 1, Append(n, 0), Append(s, 0))
  BY <1>4, <1>6, <1>7 DEF Pushed
<1> QED
  BY <1>5, <1>8 DEF DividesIn

LEMMA PushIsAShare ==
    ASSUME NEW size \in Nat, NEW d \in PushedShares
    PROVE  push_right(d, size) \in PushedShares
<1>1. PICK k, n, s : Pushed(d, k, n, s)
  BY SharesArePushed
<1>2. FitsIn(push_right(d, size), k, n, s, size) \/ DividesIn(push_right(d, size), k, n, s)
  BY <1>1, PushFits, PushDivides
<1>3. \E i, m, w : Pushed(push_right(d, size), i, m, w)
  BY <1>2 DEF FitsIn, DividesIn
<1> QED
  BY <1>3, PushedIsAShare

LEMMA PushIsGreedy ==
    ASSUME geo.usable_space \in Nat, NEW N \in Nat, NEW B \in [0..N -> Nat], NEW j \in 1..N,
           NEW size \in Nat, Takes(B, j, size), NEW d, LeftOf(d, B, j - 1, geo.usable_space)
    PROVE  LeftOf(push_right(d, size), B, j, geo.usable_space)
<1>1. PICK k, n, s, e : Pushed(d, k, n, s) /\ Greedy(k, n, s, e, B, j - 1, geo.usable_space)
  BY DEF LeftOf
<1>2. k \in Nat /\ k >= 1
  BY <1>1 DEF Pushed
<1>3. CASE HasRoom(s, k, size, geo.usable_space)
  <2>1. FitsIn(push_right(d, size), k, n, s, size)
    BY <1>1, <1>3, PushFits
  <2>2. PICK m, w : /\ Raised(m, n, k, 1) /\ Raised(w, s, k, size)
                    /\ Pushed(push_right(d, size), k, m, w)
    BY <2>1 DEF FitsIn
  <2>3. \E f : Greedy(k, m, w, f, B, j, geo.usable_space)
    BY <1>1, <1>2, <1>3, <2>2, CellFits
  <2> QED
    BY <2>2, <2>3 DEF LeftOf
<1>4. CASE ~HasRoom(s, k, size, geo.usable_space)
  <2>1. DividesIn(push_right(d, size), k, n, s)
    BY <1>1, <1>4, PushDivides
  <2>2. PICK m, w : /\ Longer(m, n, k) /\ Longer(w, s, k)
                    /\ Pushed(push_right(d, size), k + 1, m, w)
    BY <2>1 DEF DividesIn
  <2>3. \E f : Greedy(k + 1, m, w, f, B, j, geo.usable_space)
    BY <1>1, <1>2, <1>4, <2>2, CellDivides
  <2> QED
    BY <2>2, <2>3 DEF LeftOf
<1> QED
  BY <1>3, <1>4

LEMMA NothingPushed ==
    ASSUME geo.usable_space \in Nat, NEW N \in Nat, NEW B \in [0..N -> Nat]
    PROVE  LeftOf(Share(<<0>>, <<0>>, 0, TRUE), B, 0, geo.usable_space)
<1> DEFINE n == <<0>>
           e == [i \in 1..2 |-> i - 1]
<1>1. n \in [1..1 -> Nat] /\ n[1] = 0
  OBVIOUS
<1>2. e[1] = 0 /\ e[2] = 1 /\ e \in [1..2 -> 0..1]
  OBVIOUS
<1>3. Share(<<0>>, <<0>>, 0, TRUE) = Share(n, n, 0, TRUE)
  OBVIOUS
<1> HIDE DEF n, e
<1>4. Parts(1, n, e, 0)
  <2>1. 1 + 1 = 2 /\ 0 + 1 = 1
    OBVIOUS
  <2>2. \A i \in 1..1 : e[i + 1] = e[i] + n[i] + 1
    BY <1>1, <1>2
  <2>3. \A s, t \in 1..2 : s < t => e[s] < e[t]
    BY <1>2
  <2> QED
    BY <1>1, <1>2, <2>1, <2>2, <2>3 DEF Parts
<1>5. Weighs(1, n, n, e, B, geo.usable_space)
  <2>1. B[0] - B[0] = 0
    OBVIOUS
  <2>2. ASSUME NEW i \in 1..1 PROVE n[i] = B[e[i] + n[i]] - B[e[i]] /\ n[i] <= geo.usable_space
    <3>1. i = 1 /\ 0 + 0 = 0
      OBVIOUS
    <3> QED
      BY <1>1, <1>2, <2>1, <3>1
  <2> QED
    BY <1>1, <2>2 DEF Weighs
<1>6. 1..(1 - 1) = {}
  OBVIOUS
<1>7. Greedy(1, n, n, e, B, 0, geo.usable_space)
  BY <1>4, <1>5, <1>6 DEF Greedy
<1>8. Pushed(Share(n, n, 0, TRUE), 1, n, n)
  BY <1>1 DEF Pushed
<1> QED
  BY <1>3, <1>7, <1>8 DEF LeftOf

(* Each part before the last is as full as it can be, from the left.       *)
LEMMA LeftBiased ==
    ASSUME geo.usable_space \in Nat, NEW cells, SizedCells(cells), NEW B, Sums(B, cells)
    PROVE  LeftOf(left_biased(cells), B, Len(cells), geo.usable_space)
<1> DEFINE N == Len(cells)
           start == Share(<<0>>, <<0>>, 0, TRUE)
           Of(f) == [j \in 0..N |-> IF j = 0 THEN [n |-> <<0>>, size |-> <<0>>, div |-> 0, ok |-> TRUE]
                                    ELSE push_right(f[j - 1], storage_size(cells[j]))]
           step == [x \in (1..N) \X PushedShares |-> push_right(x[2], storage_size(cells[x[1]]))]
           left == CHOOSE f : f = Of(f)
<1>1. N \in Nat /\ \A j \in 1..N : storage_size(cells[j]) \in Nat
  BY DEF SizedCells
<1>2. B \in [0..N -> Nat] /\ B[0] = 0 /\ \A j \in 1..N : B[j] = B[j - 1] + storage_size(cells[j])
  BY DEF Sums
<1>3. LeftOf(start, B, 0, geo.usable_space)
  <2> HIDE DEF N
  <2> QED
    BY <1>1, <1>2, NothingPushed
<1>4. start \in PushedShares
  BY <1>3, PushedIsAShare DEF LeftOf
<1>5. \A j \in 1..N, v \in PushedShares : step[<<j, v>>] = push_right(v, storage_size(cells[j]))
  OBVIOUS
<1>6. ASSUME NEW j \in 1..N, NEW v \in PushedShares PROVE step[<<j, v>>] \in PushedShares
  <2>1. push_right(v, storage_size(cells[j])) \in PushedShares
    BY <1>1, PushIsAShare
  <2> HIDE DEF step
  <2> QED
    BY <1>5, <2>1
<1>7. PICK f : Iterates(f, N, PushedShares, start, step)
  <2> HIDE DEF start, step, N
  <2> QED
    BY <1>1, <1>4, <1>6, IterationExists
<1>8. f = Of(f)
  <2>1. f \in [0..N -> PushedShares] /\ f[0] = start /\ \A j \in 1..N : f[j] = step[<<j, f[j - 1]>>]
    BY <1>7 DEF Iterates
  <2>2. ASSUME NEW j \in 1..N PROVE f[j] = push_right(f[j - 1], storage_size(cells[j]))
    <3>1. j - 1 \in 0..N
      BY <1>1
    <3>2. f[j - 1] \in PushedShares
      BY <2>1, <3>1
    <3> HIDE DEF step
    <3> QED
      BY <1>5, <2>1, <3>2
  <2>3. f = [j \in 0..N |-> f[j]]
    BY <2>1
  <2>4. ASSUME NEW j \in 0..N
        PROVE  f[j] = IF j = 0 THEN start ELSE push_right(f[j - 1], storage_size(cells[j]))
    <3>1. j # 0 => j \in 1..N
      BY <1>1
    <3> HIDE DEF start
    <3> QED
      BY <2>1, <2>2, <3>1
  <2>5. start = [n |-> <<0>>, size |-> <<0>>, div |-> 0, ok |-> TRUE]
    BY DEF Share
  <2> HIDE DEF start
  <2> QED
    BY <2>3, <2>4, <2>5
<1>9. left = Of(left)
  <2> HIDE DEF Of
  <2> QED
    BY <1>8
<1>10. left_biased(cells) = left[N]
  BY DEF left_biased
<1> HIDE DEF left
<1>11. left[0] = start /\ \A j \in 1..N : left[j] = push_right(left[j - 1], storage_size(cells[j]))
  <2>1. 0 \in 0..N /\ \A j \in 1..N : j \in 0..N /\ j # 0
    BY <1>1
  <2>2. start = [n |-> <<0>>, size |-> <<0>>, div |-> 0, ok |-> TRUE]
    BY DEF Share
  <2> HIDE DEF start
  <2> QED
    BY <1>9, <2>1, <2>2
<1> DEFINE T == {j \in 0..N : LeftOf(left[j], B, j, geo.usable_space)}
<1>12. 0 \in T
  <2>1. 0 \in 0..N /\ left[0] = start
    BY <1>1, <1>11
  <2> HIDE DEF start, N
  <2> QED
    BY <1>3, <2>1
<1>13. ASSUME NEW j \in 1..N, j - 1 \in T PROVE j \in T
  <2>1. LeftOf(left[j - 1], B, j - 1, geo.usable_space)
    BY <1>13
  <2>2. Takes(B, j, storage_size(cells[j])) /\ storage_size(cells[j]) \in Nat
    BY <1>1, <1>2 DEF Takes
  <2>3. left[j] = push_right(left[j - 1], storage_size(cells[j]))
    BY <1>11
  <2> HIDE DEF N
  <2>4. LeftOf(push_right(left[j - 1], storage_size(cells[j])), B, j, geo.usable_space)
    BY <1>1, <1>2, <2>1, <2>2, PushIsGreedy
  <2> QED
    BY <1>1, <2>3, <2>4
<1>14. N \in T
  <2>1. \A j \in 1..N : j - 1 \in T => j \in T
    BY <1>13
  <2> HIDE DEF T, N
  <2>2. \A j \in 0..N : j \in T
    BY <1>1, <1>12, <2>1, UpwardClosed
  <2> QED
    BY <1>1, <2>2
<1> QED
  BY <1>10, <1>14

-----------------------------------------------------------------------------
(* How the last pages are filled.                                          *)

(* Shares of k parts of N cells.                                           *)
Shared(k, N) == [n : [1..k -> Nat], size : [1..k -> Nat], div : 0..N, ok : BOOLEAN]

(* n with x more at i, and y less before it.                               *)
Moved(m, n, k, i, x, y) ==
    /\ m \in [1..k -> Nat] /\ m[i] = n[i] + x /\ m[i - 1] = n[i - 1] - y
    /\ \A t \in 1..k : t # i /\ t # i - 1 => m[t] = n[t]

LEMMA SharedIs ==
    ASSUME NEW k, NEW N, NEW d \in Shared(k, N)
    PROVE  /\ d.n \in [1..k -> Nat] /\ d.size \in [1..k -> Nat] /\ d.div \in 0..N /\ d.ok \in BOOLEAN
           /\ d = Share(d.n, d.size, d.div, d.ok)
BY DEF Shared, Share

LEMMA ShareIsShared ==
    ASSUME NEW k, NEW N, NEW n \in [1..k -> Nat], NEW s \in [1..k -> Nat], NEW v \in 0..N,
           NEW ok \in BOOLEAN
    PROVE  Share(n, s, v, ok) \in Shared(k, N)
BY DEF Shared, Share

LEMMA ShareWithOk ==
    ASSUME NEW n, NEW s, NEW v, NEW ok, NEW x
    PROVE  [Share(n, s, v, ok) EXCEPT !.ok = x] = Share(n, s, v, x)
BY DEF Share

(* When there is a cell to move, and when it moves.                        *)
MayMove(cells, n, s, v, i) ==
    v >= 2 /\ n[i - 1] # 0 /\ storage_size(cells[v - 1]) <= s[i - 1]

MovesTo(p, cells, k, n, s, v, i) ==
    \E m, w, u : /\ Moved(m, n, k, i, 1, 1)
                 /\ Moved(w, s, k, i, storage_size(cells[v]), storage_size(cells[v - 1]))
                 /\ u = v - 1 /\ p = Share(m, w, u, TRUE)

LEMMA MoveOne ==
    ASSUME NEW k \in Nat, NEW i \in 2..k, NEW n, n \in [1..k -> Nat], NEW x \in Nat, NEW y \in Nat,
           y <= n[i - 1]
    PROVE  Moved([n EXCEPT ![i] = @ + x, ![i - 1] = @ - y], n, k, i, x, y)
<1>1. i \in 1..k /\ i - 1 \in 1..k /\ i # i - 1
  OBVIOUS
<1>2. n[i] + x \in Nat /\ n[i - 1] - y \in Nat
  BY <1>1
<1> QED
  BY <1>1, <1>2 DEF Moved

LEMMA ShiftMoves ==
    ASSUME NEW cells, SizedCells(cells), NEW k \in Nat, NEW i \in 2..k, NEW n, n \in [1..k -> Nat],
           NEW s, s \in [1..k -> Nat], NEW v \in 0..Len(cells), MayMove(cells, n, s, v, i),
           ~(s[i] >= geo.usable_space \div 2)
    PROVE  MovesTo(shift_right(cells, Share(n, s, v, TRUE), i), cells, k, n, s, v, i)
<1> DEFINE p == shift_right(cells, Share(n, s, v, TRUE), i)
           a == storage_size(cells[v])
           b == storage_size(cells[v - 1])
<1>1. Len(cells) \in Nat /\ \A j \in 1..Len(cells) : storage_size(cells[j]) \in Nat
  BY DEF SizedCells
<1>2. v >= 2 /\ n[i - 1] # 0 /\ b <= s[i - 1]
  BY DEF MayMove
<1>3. v \in 1..Len(cells) /\ v - 1 \in 1..Len(cells) /\ v \in Nat
  BY <1>1, <1>2
<1>4. a \in Nat /\ b \in Nat
  BY <1>1, <1>3
<1>5. i \in 1..k /\ i - 1 \in 1..k /\ n[i - 1] \in Nat /\ s[i - 1] \in Nat
  OBVIOUS
<1>6. ~(v < 2 \/ n[i - 1] = 0 \/ s[i - 1] < b)
  <2> HIDE DEF b
  <2> QED
    BY <1>2, <1>3, <1>4, <1>5
<1>7. p = [Share(n, s, v, TRUE) EXCEPT !.n[i] = @ + 1, !.n[i - 1] = @ - 1, !.div = @ - 1,
                                       !.size[i] = @ + a, !.size[i - 1] = @ - b]
  BY <1>6 DEF shift_right, Share
<1> DEFINE m == [n EXCEPT ![i] = @ + 1, ![i - 1] = @ - 1]
           w == [s EXCEPT ![i] = @ + a, ![i - 1] = @ - b]
<1>8. p = Share(m, w, v - 1, TRUE)
  <2> HIDE DEF a, b, p
  <2> QED
    BY <1>7 DEF Share
<1> HIDE DEF a, b, p
<1>9. Moved(m, n, k, i, 1, 1)
  <2>1. 1 <= n[i - 1]
    BY <1>2, <1>5
  <2> QED
    BY <2>1, MoveOne
<1>10. Moved(w, s, k, i, a, b)
  BY <1>2, <1>4, MoveOne
<1> HIDE DEF m, w
<1> QED
  BY <1>8, <1>9, <1>10 DEF MovesTo, a, b, p

LEMMA ShiftRightIsShared ==
    ASSUME NEW cells, SizedCells(cells), NEW k \in Nat, NEW i \in 2..k, NEW d \in Shared(k, Len(cells))
    PROVE  shift_right(cells, d, i) \in Shared(k, Len(cells))
<1> DEFINE n == d.n
           s == d.size
           v == d.div
           H == geo.usable_space \div 2
<1>1. /\ n \in [1..k -> Nat] /\ s \in [1..k -> Nat] /\ v \in 0..Len(cells) /\ d.ok \in BOOLEAN
      /\ d = Share(n, s, v, d.ok)
  BY SharedIs
<1>2. Len(cells) \in Nat /\ \A j \in 1..Len(cells) : storage_size(cells[j]) \in Nat
  BY DEF SizedCells
<1>3. CASE ~d.ok \/ s[i] >= H
  BY <1>3 DEF shift_right
<1>4. CASE d.ok /\ ~(s[i] >= H) /\ ~MayMove(cells, n, s, v, i)
  <2>1. v < 2 \/ n[i - 1] = 0 \/ s[i - 1] < storage_size(cells[v - 1])
    <3> HIDE DEF n, s, v
    <3>1. CASE ~(v >= 2)
      BY <1>1, <1>2, <3>1
    <3>2. CASE v >= 2
      <4>1. v - 1 \in 1..Len(cells) /\ i - 1 \in 1..k
        BY <1>1, <1>2, <3>2
      <4>2. storage_size(cells[v - 1]) \in Nat /\ s[i - 1] \in Nat
        BY <1>1, <1>2, <4>1
      <4> QED
        BY <1>4, <3>2, <4>2 DEF MayMove
    <3> QED
      BY <3>1, <3>2
  <2> DEFINE no == FALSE
  <2>2. shift_right(cells, d, i) = [d EXCEPT !.ok = no]
    BY <1>4, <2>1 DEF shift_right
  <2>5. no \in BOOLEAN
    OBVIOUS
  <2> HIDE DEF no
  <2>3. shift_right(cells, d, i) = Share(n, s, v, no)
    <3> HIDE DEF n, s, v
    <3>1. [Share(n, s, v, d.ok) EXCEPT !.ok = no] = Share(n, s, v, no)
      BY ShareWithOk
    <3> QED
      BY <1>1, <2>2, <3>1
  <2> HIDE DEF n, s, v
  <2>4. Share(n, s, v, no) \in Shared(k, Len(cells))
    BY <1>1, <2>5, ShareIsShared
  <2> QED
    BY <2>3, <2>4
<1>5. CASE d.ok /\ ~(s[i] >= H) /\ MayMove(cells, n, s, v, i)
  <2>1. d = Share(n, s, v, TRUE)
    BY <1>1, <1>5
  <2> HIDE DEF n, s, v
  <2>2. ~(s[i] >= geo.usable_space \div 2)
    BY <1>5
  <2>3. MovesTo(shift_right(cells, Share(n, s, v, TRUE), i), cells, k, n, s, v, i)
    BY <1>1, <1>5, <2>2, ShiftMoves
  <2>4. PICK m, w, u : /\ Moved(m, n, k, i, 1, 1)
                       /\ Moved(w, s, k, i, storage_size(cells[v]), storage_size(cells[v - 1]))
                       /\ u = v - 1 /\ shift_right(cells, Share(n, s, v, TRUE), i) = Share(m, w, u, TRUE)
    BY <2>3 DEF MovesTo
  <2>5. m \in [1..k -> Nat] /\ w \in [1..k -> Nat]
    BY <2>4 DEF Moved
  <2>6. u \in 0..Len(cells)
    BY <1>1, <1>2, <1>5, <2>4 DEF MayMove
  <2>7. Share(m, w, u, TRUE) \in Shared(k, Len(cells))
    BY <2>5, <2>6, ShareIsShared
  <2> QED
    BY <2>1, <2>4, <2>7
<1> QED
  BY <1>1, <1>3, <1>4, <1>5

(* Part i is being filled from the part before it; the parts after it have *)
(* H bytes, and no part before it had room for the next cell.              *)
Filling(k, n, s, e, i, B, N, U, H) ==
    /\ Parts(k, n, e, N) /\ Weighs(k, n, s, e, B, U)
    /\ \A t \in 1..(i - 2) : B[e[t + 1]] - B[e[t]] > U
    /\ B[e[i + 1] - 1] - B[e[i - 1]] > U
    /\ \A t \in (i + 1)..k : s[t] >= H

(* Where two parts of x and y cells begin, and where the second one ends.  *)
Places(lo, at, up, x, y, N) ==
    lo \in Nat /\ at \in Nat /\ up \in Nat /\ x \in Nat /\ y \in Nat
    /\ at = lo + x + 1 /\ up = at + y + 1 /\ up <= N + 1

(* The cells of two parts next to each other.                              *)
Around(n, s, e, i, B, N, U) ==
    /\ Places(e[i - 1], e[i], e[i + 1], n[i - 1], n[i], N)
    /\ e[i - 1] \in Nat /\ e[i] \in Nat /\ e[i + 1] \in Nat /\ e[i + 1] <= N + 1
    /\ n[i - 1] \in Nat /\ n[i] \in Nat /\ s[i - 1] \in Nat /\ s[i] \in Nat /\ s[i - 1] <= U
    /\ e[i] = e[i - 1] + n[i - 1] + 1 /\ e[i + 1] = e[i] + n[i] + 1
    /\ s[i] = B[e[i + 1] - 1] - B[e[i]] /\ s[i - 1] = B[e[i] - 1] - B[e[i - 1]]
    /\ B[e[i + 1] - 1] - B[e[i - 1]] > U
    /\ e[i] \in 1..N /\ e[i + 1] - 1 \in 0..N /\ e[i - 1] \in 0..N /\ e[i] - 1 \in 0..N
    /\ B[e[i]] \in Nat /\ B[e[i] - 1] \in Nat /\ B[e[i + 1] - 1] \in Nat /\ B[e[i - 1]] \in Nat

LEMMA PlacesAre ==
    ASSUME NEW N \in Nat, NEW lo, NEW at, NEW up, NEW x, NEW y, Places(lo, at, up, x, y, N)
    PROVE  /\ at \in 1..N /\ up - 1 \in 0..N /\ lo \in 0..N /\ at - 1 \in 0..N /\ at \in 0..N
           /\ at + y = up - 1 /\ lo + x = at - 1
BY DEF Places

LEMMA PlacesOfNone ==
    ASSUME NEW N \in Nat, NEW lo, NEW at, NEW up, NEW x, NEW y, Places(lo, at, up, x, y, N), x = 0
    PROVE  at - 1 = lo
BY DEF Places

LEMMA PlacesOfSome ==
    ASSUME NEW N \in Nat, NEW lo, NEW at, NEW up, NEW x, NEW y, Places(lo, at, up, x, y, N), x # 0
    PROVE  /\ at >= 2 /\ at - 1 \in 1..N /\ (at - 1) - 1 \in 0..N /\ lo <= (at - 1) - 1
           /\ at \in 1..N
BY DEF Places

LEMMA PartsAround ==
    ASSUME NEW U \in Nat, NEW H, NEW N \in Nat, NEW B \in [0..N -> Nat], NEW k \in Nat, NEW i \in 2..k,
           NEW n, NEW s, NEW e, Filling(k, n, s, e, i, B, N, U, H)
    PROVE  Around(n, s, e, i, B, N, U)
<1>1. /\ n \in [1..k -> Nat] /\ s \in [1..k -> Nat] /\ e \in [1..(k + 1) -> 0..(N + 1)]
      /\ \A t \in 1..k : e[t + 1] = e[t] + n[t] + 1
      /\ \A t \in 1..k : s[t] = B[e[t] + n[t]] - B[e[t]] /\ s[t] <= U
      /\ B[e[i + 1] - 1] - B[e[i - 1]] > U
  BY DEF Filling, Parts, Weighs
<1>2. i \in 1..k /\ i - 1 \in 1..k /\ i + 1 \in 1..(k + 1) /\ i \in 1..(k + 1) /\ i - 1 \in 1..(k + 1)
      /\ (i - 1) + 1 = i
  OBVIOUS
<1>3. e[i - 1] \in 0..(N + 1) /\ e[i] \in 0..(N + 1) /\ e[i + 1] \in 0..(N + 1)
      /\ n[i - 1] \in Nat /\ n[i] \in Nat /\ s[i - 1] \in Nat /\ s[i] \in Nat
  BY <1>1, <1>2
<1>4. e[i] = e[i - 1] + n[i - 1] + 1 /\ e[i + 1] = e[i] + n[i] + 1
  BY <1>1, <1>2
<1>5. e[i - 1] \in Nat /\ e[i] \in Nat /\ e[i + 1] \in Nat /\ e[i + 1] <= N + 1
  BY ONLY <1>3, N \in Nat
<1>50. Places(e[i - 1], e[i], e[i + 1], n[i - 1], n[i], N)
  BY <1>3, <1>4, <1>5 DEF Places
<1>6. e[i] \in 1..N /\ e[i + 1] - 1 \in 0..N /\ e[i - 1] \in 0..N /\ e[i] - 1 \in 0..N /\ e[i] \in 0..N
  BY <1>50, PlacesAre
<1>7. B[e[i]] \in Nat /\ B[e[i] - 1] \in Nat /\ B[e[i + 1] - 1] \in Nat /\ B[e[i - 1]] \in Nat
  BY <1>6
<1>8. e[i] + n[i] = e[i + 1] - 1 /\ e[i - 1] + n[i - 1] = e[i] - 1
  BY <1>50, PlacesAre
<1>9. s[i] = B[e[i] + n[i]] - B[e[i]] /\ s[i - 1] = B[e[i - 1] + n[i - 1]] - B[e[i - 1]] /\ s[i - 1] <= U
  BY <1>1, <1>2
<1>10. s[i] = B[e[i + 1] - 1] - B[e[i]] /\ s[i - 1] = B[e[i] - 1] - B[e[i - 1]]
  BY ONLY <1>8, <1>9
<1> QED
  BY <1>1, <1>3, <1>4, <1>5, <1>6, <1>7, <1>9, <1>10, <1>50 DEF Around

(* Half a page that is not yet full leaves a cell to move.                 *)
LEMMA HalfMayMove ==
    ASSUME NEW cells, SizedCells(cells), NEW B, Sums(B, cells), NEW U \in Nat, NEW H \in Nat, H + H <= U,
           \A j \in 1..Len(cells) : storage_size(cells[j]) <= H,
           NEW k \in Nat, NEW i \in 2..k, NEW n, NEW s, NEW e,
           Filling(k, n, s, e, i, B, Len(cells), U, H), ~(s[i] >= H)
    PROVE  MayMove(cells, n, s, e[i], i)
<1> DEFINE N == Len(cells)
<1>1. N \in Nat /\ B \in [0..N -> Nat]
      /\ \A j \in 1..N : storage_size(cells[j]) \in Nat /\ B[j] = B[j - 1] + storage_size(cells[j])
  BY DEF SizedCells, Sums
<1> HIDE DEF N
<1>2. Around(n, s, e, i, B, N, U)
  BY <1>1, PartsAround DEF N
<1>20. Places(e[i - 1], e[i], e[i + 1], n[i - 1], n[i], N)
  BY <1>2 DEF Around
<1>3. /\ e[i - 1] \in Nat /\ e[i] \in Nat /\ n[i - 1] \in Nat /\ s[i - 1] \in Nat /\ s[i] \in Nat
      /\ e[i] = e[i - 1] + n[i - 1] + 1 /\ e[i] \in 1..N /\ e[i - 1] \in 0..N /\ e[i] - 1 \in 0..N
  BY <1>2 DEF Around
<1>4. /\ s[i] = B[e[i + 1] - 1] - B[e[i]] /\ s[i - 1] = B[e[i] - 1] - B[e[i - 1]]
      /\ B[e[i + 1] - 1] - B[e[i - 1]] > U
      /\ B[e[i]] \in Nat /\ B[e[i] - 1] \in Nat /\ B[e[i + 1] - 1] \in Nat /\ B[e[i - 1]] \in Nat
  BY <1>2 DEF Around
<1>5. /\ B[e[i]] = B[e[i] - 1] + storage_size(cells[e[i]])
      /\ storage_size(cells[e[i]]) \in Nat /\ storage_size(cells[e[i]]) <= H
  BY <1>1, <1>3 DEF N
<1>21. n[i - 1] = 0 => e[i] - 1 = e[i - 1]
  BY <1>1, <1>20, PlacesOfNone
<1>6. n[i - 1] # 0
  <2>1. SUFFICES ASSUME n[i - 1] = 0 PROVE FALSE
    OBVIOUS
  <2>2. e[i] - 1 = e[i - 1]
    BY <1>21, <2>1
  <2>3. B[e[i] - 1] = B[e[i - 1]]
    BY ONLY <2>2
  <2> QED
    BY ONLY <1>3, <1>4, <1>5, <2>3, ~(s[i] >= H), H + H <= U, H \in Nat, U \in Nat
<1>7. e[i] >= 2 /\ e[i] - 1 \in 1..N /\ (e[i] - 1) - 1 \in 0..N /\ e[i - 1] <= (e[i] - 1) - 1
  BY <1>1, <1>6, <1>20, PlacesOfSome
<1>8. /\ B[e[i] - 1] = B[(e[i] - 1) - 1] + storage_size(cells[e[i] - 1])
      /\ storage_size(cells[e[i] - 1]) \in Nat /\ B[(e[i] - 1) - 1] \in Nat
  BY <1>1, <1>7
<1>9. B[e[i - 1]] <= B[(e[i] - 1) - 1]
  BY <1>3, <1>7, SumsGrow DEF N
<1>10. storage_size(cells[e[i] - 1]) <= s[i - 1]
  BY ONLY <1>3, <1>4, <1>8, <1>9
<1> QED
  BY <1>6, <1>7, <1>10 DEF MayMove

Lowered(f, e, k, i, N) ==
    /\ f \in [1..(k + 1) -> 0..(N + 1)] /\ f[i] = e[i] - 1
    /\ \A t \in 1..(k + 1) : t # i => f[t] = e[t]

LEMMA LowerOne ==
    ASSUME NEW k \in Nat, NEW i \in 2..k, NEW N \in Nat, NEW e \in [1..(k + 1) -> 0..(N + 1)],
           e[i] \in 1..N
    PROVE  \E f : Lowered(f, e, k, i, N)
<1> DEFINE f == [e EXCEPT ![i] = @ - 1]
<1>1. i \in 1..(k + 1) /\ e[i] - 1 \in 0..(N + 1)
  OBVIOUS
<1>2. f \in [1..(k + 1) -> 0..(N + 1)] /\ f[i] = e[i] - 1 /\ \A t \in 1..(k + 1) : t # i => f[t] = e[t]
  BY <1>1
<1> HIDE DEF f
<1> QED
  BY <1>2 DEF Lowered

MovedAround(f, m, w, e, i, B, U) ==
    /\ f[i + 1] = f[i] + m[i] + 1 /\ f[i] = f[i - 1] + m[i - 1] + 1
    /\ w[i] = B[f[i] + m[i]] - B[f[i]] /\ w[i] <= U
    /\ w[i - 1] = B[f[i - 1] + m[i - 1]] - B[f[i - 1]] /\ w[i - 1] <= U
    /\ f[i - 1] = e[i - 1] /\ f[i + 1] = e[i + 1]

(* The parts around i after a move, and what they weigh.                   *)
LEMMA MoveAround ==
    ASSUME NEW cells, SizedCells(cells), NEW B, Sums(B, cells), NEW U \in Nat, NEW H \in Nat, H + H <= U,
           \A j \in 1..Len(cells) : storage_size(cells[j]) <= H,
           NEW k \in Nat, NEW i \in 2..k, NEW n, NEW s, NEW e,
           Filling(k, n, s, e, i, B, Len(cells), U, H), ~(s[i] >= H), MayMove(cells, n, s, e[i], i),
           NEW m, Moved(m, n, k, i, 1, 1),
           NEW w, Moved(w, s, k, i, storage_size(cells[e[i]]), storage_size(cells[e[i] - 1])),
           NEW f, Lowered(f, e, k, i, Len(cells))
    PROVE  MovedAround(f, m, w, e, i, B, U)
<1> DEFINE N == Len(cells)
<1>1. N \in Nat /\ B \in [0..N -> Nat]
      /\ \A j \in 1..N : storage_size(cells[j]) \in Nat /\ B[j] = B[j - 1] + storage_size(cells[j])
  BY DEF SizedCells, Sums
<1> HIDE DEF N
<1>2. Around(n, s, e, i, B, N, U)
  BY <1>1, PartsAround DEF N
<1>3. Places(e[i - 1], e[i], e[i + 1], n[i - 1], n[i], N)
  BY <1>2 DEF Around
<1>4. /\ e[i - 1] \in Nat /\ e[i] \in Nat /\ e[i + 1] \in Nat
      /\ n[i - 1] \in Nat /\ n[i] \in Nat /\ s[i - 1] \in Nat /\ s[i] \in Nat
      /\ e[i] = e[i - 1] + n[i - 1] + 1 /\ e[i + 1] = e[i] + n[i] + 1 /\ s[i - 1] <= U
  BY <1>2 DEF Around
<1>5. /\ s[i] = B[e[i + 1] - 1] - B[e[i]] /\ s[i - 1] = B[e[i] - 1] - B[e[i - 1]]
      /\ B[e[i]] \in Nat /\ B[e[i] - 1] \in Nat /\ B[e[i + 1] - 1] \in Nat /\ B[e[i - 1]] \in Nat
  BY <1>2 DEF Around
<1>6. n[i - 1] # 0
  BY DEF MayMove
<1>7. e[i] >= 2 /\ e[i] - 1 \in 1..N /\ (e[i] - 1) - 1 \in 0..N /\ e[i] \in 1..N
  BY <1>1, <1>3, <1>6, PlacesOfSome
<1>8. /\ B[e[i]] = B[e[i] - 1] + storage_size(cells[e[i]])
      /\ storage_size(cells[e[i]]) \in Nat /\ storage_size(cells[e[i]]) <= H
  BY <1>1, <1>7 DEF N
<1>9. /\ B[e[i] - 1] = B[(e[i] - 1) - 1] + storage_size(cells[e[i] - 1])
      /\ storage_size(cells[e[i] - 1]) \in Nat /\ B[(e[i] - 1) - 1] \in Nat
  BY <1>1, <1>7
<1>10. i - 1 \in 1..(k + 1) /\ i + 1 \in 1..(k + 1) /\ i - 1 # i /\ i + 1 # i
  OBVIOUS
<1>11. f[i - 1] = e[i - 1] /\ f[i] = e[i] - 1 /\ f[i + 1] = e[i + 1]
  BY <1>10 DEF Lowered
<1>12. m[i] = n[i] + 1 /\ m[i - 1] = n[i - 1] - 1
  BY DEF Moved
<1>13. w[i] = s[i] + storage_size(cells[e[i]]) /\ w[i - 1] = s[i - 1] - storage_size(cells[e[i] - 1])
  BY DEF Moved
<1>14. f[i] + m[i] = e[i + 1] - 1
  <2>1. (e[i] - 1) + (n[i] + 1) = e[i + 1] - 1
    BY ONLY <1>4
  <2> QED
    BY ONLY <1>11, <1>12, <2>1
<1>15. f[i - 1] + m[i - 1] = (e[i] - 1) - 1
  <2>1. e[i - 1] + (n[i - 1] - 1) = (e[i] - 1) - 1
    BY ONLY <1>4
  <2> QED
    BY ONLY <1>11, <1>12, <2>1
<1>16. f[i + 1] = f[i] + m[i] + 1
  <2>1. e[i + 1] = (e[i + 1] - 1) + 1
    BY ONLY <1>4
  <2> QED
    BY ONLY <1>11, <1>14, <2>1
<1>17. f[i] = f[i - 1] + m[i - 1] + 1
  <2>1. e[i] - 1 = ((e[i] - 1) - 1) + 1
    BY ONLY <1>4
  <2> QED
    BY ONLY <1>11, <1>15, <2>1
<1>18. w[i] = B[f[i] + m[i]] - B[f[i]]
  <2>1. s[i] + storage_size(cells[e[i]]) = B[e[i + 1] - 1] - B[e[i] - 1]
    BY ONLY <1>5, <1>8
  <2> QED
    BY ONLY <1>11, <1>13, <1>14, <2>1
<1>19. w[i - 1] = B[f[i - 1] + m[i - 1]] - B[f[i - 1]]
  <2>1. s[i - 1] - storage_size(cells[e[i] - 1]) = B[(e[i] - 1) - 1] - B[e[i - 1]]
    BY ONLY <1>5, <1>9
  <2> QED
    BY ONLY <1>11, <1>13, <1>15, <2>1
<1>20. w[i] <= U
  BY ONLY <1>4, <1>8, <1>13, ~(s[i] >= H), H + H <= U, H \in Nat, U \in Nat
<1>21. w[i - 1] <= U
  BY ONLY <1>4, <1>9, <1>13, U \in Nat
<1> QED
  BY <1>11, <1>16, <1>17, <1>18, <1>19, <1>20, <1>21 DEF MovedAround

Modest(cells, B, U, H) ==
    /\ SizedCells(cells) /\ Sums(B, cells) /\ U \in Nat /\ H \in Nat /\ H + H <= U
    /\ \A j \in 1..Len(cells) : storage_size(cells[j]) <= H

Wanting(s, i, H) == ~(s[i] >= H)

OneMoved(cells, k, n, s, e, i, m, w) ==
    /\ Moved(m, n, k, i, 1, 1)
    /\ Moved(w, s, k, i, storage_size(cells[e[i]]), storage_size(cells[e[i] - 1]))

StillFilling(cells, k, m, w, e, i, B, U, H) ==
    \E f : Filling(k, m, w, f, i, B, Len(cells), U, H) /\ f[i] = e[i] - 1

LEMMA MoveFills ==
    ASSUME NEW cells, NEW B, NEW U, NEW H, Modest(cells, B, U, H),
           NEW k \in Nat, NEW i \in 2..k, NEW n, NEW s, NEW e,
           Filling(k, n, s, e, i, B, Len(cells), U, H), Wanting(s, i, H),
           MayMove(cells, n, s, e[i], i),
           NEW m, NEW w, OneMoved(cells, k, n, s, e, i, m, w)
    PROVE  StillFilling(cells, k, m, w, e, i, B, U, H)
<1> SUFFICES ASSUME SizedCells(cells), Sums(B, cells), U \in Nat, H \in Nat, H + H <= U,
                    \A j \in 1..Len(cells) : storage_size(cells[j]) <= H, ~(s[i] >= H),
                    Moved(m, n, k, i, 1, 1),
                    Moved(w, s, k, i, storage_size(cells[e[i]]), storage_size(cells[e[i] - 1]))
             PROVE  \E f : Filling(k, m, w, f, i, B, Len(cells), U, H) /\ f[i] = e[i] - 1
  BY DEF Modest, Wanting, OneMoved, StillFilling
<1> DEFINE N == Len(cells)
<1>1. N \in Nat /\ B \in [0..N -> Nat]
  BY DEF SizedCells, Sums
<1> HIDE DEF N
<1>2. /\ e \in [1..(k + 1) -> 0..(N + 1)] /\ e[1] = 0 /\ e[k + 1] = N + 1
      /\ \A t \in 1..k : e[t + 1] = e[t] + n[t] + 1
      /\ \A a, b \in 1..(k + 1) : a < b => e[a] < e[b]
      /\ \A t \in 1..k : s[t] = B[e[t] + n[t]] - B[e[t]] /\ s[t] <= U
      /\ \A t \in 1..(i - 2) : B[e[t + 1]] - B[e[t]] > U
      /\ B[e[i + 1] - 1] - B[e[i - 1]] > U
      /\ \A t \in (i + 1)..k : s[t] >= H
  BY DEF Filling, Parts, Weighs, N
<1>3. Around(n, s, e, i, B, N, U)
  BY <1>1, PartsAround DEF N
<1>4. e[i] \in 1..N
  BY <1>3 DEF Around
<1>5. PICK f : Lowered(f, e, k, i, N)
  BY <1>1, <1>2, <1>4, LowerOne
<1>60. MovedAround(f, m, w, e, i, B, U)
  BY <1>5, MoveAround DEF N
<1>6. /\ f[i + 1] = f[i] + m[i] + 1 /\ f[i] = f[i - 1] + m[i - 1] + 1
      /\ w[i] = B[f[i] + m[i]] - B[f[i]] /\ w[i] <= U
      /\ w[i - 1] = B[f[i - 1] + m[i - 1]] - B[f[i - 1]] /\ w[i - 1] <= U
      /\ f[i - 1] = e[i - 1] /\ f[i + 1] = e[i + 1]
  BY <1>60 DEF MovedAround
<1>7. /\ f \in [1..(k + 1) -> 0..(N + 1)] /\ f[i] = e[i] - 1
      /\ \A t \in 1..(k + 1) : t # i => f[t] = e[t]
  BY <1>5 DEF Lowered
<1>8. m \in [1..k -> Nat] /\ w \in [1..k -> Nat]
      /\ \A t \in 1..k : t # i /\ t # i - 1 => m[t] = n[t] /\ w[t] = s[t]
  BY DEF Moved
<1>9. ASSUME NEW t \in 1..k PROVE f[t + 1] = f[t] + m[t] + 1
  <2>1. CASE t = i
    BY <1>6, <2>1
  <2>2. CASE t = i - 1
    <3>1. t + 1 = i
      BY <2>2
    <3> QED
      BY <1>6, <2>2, <3>1
  <2>3. CASE t # i /\ t # i - 1
    <3>1. t + 1 # i /\ t \in 1..(k + 1) /\ t + 1 \in 1..(k + 1)
      BY <2>3
    <3>2. f[t + 1] = e[t + 1] /\ f[t] = e[t] /\ m[t] = n[t]
      BY <1>7, <1>8, <2>3, <3>1
    <3> QED
      BY <1>2, <3>2
  <2> QED
    BY <2>1, <2>2, <2>3
<1>10. ASSUME NEW t \in 1..k PROVE w[t] = B[f[t] + m[t]] - B[f[t]] /\ w[t] <= U
  <2>1. CASE t = i
    BY <1>6, <2>1
  <2>2. CASE t = i - 1
    BY <1>6, <2>2
  <2>3. CASE t # i /\ t # i - 1
    <3>1. t \in 1..(k + 1)
      OBVIOUS
    <3>2. f[t] = e[t] /\ m[t] = n[t] /\ w[t] = s[t]
      BY <1>7, <1>8, <2>3, <3>1
    <3> QED
      BY <1>2, <3>2
  <2> QED
    BY <2>1, <2>2, <2>3
<1>61. \A a \in 1..(k + 1) : e[a] \in Nat /\ f[a] \in Nat
  <2>1. 0..(N + 1) \subseteq Nat
    BY <1>1
  <2>2. \A a \in 1..(k + 1) : e[a] \in 0..(N + 1) /\ f[a] \in 0..(N + 1)
    BY <1>2, <1>7
  <2> QED
    BY <2>1, <2>2
<1>11. ASSUME NEW a \in 1..(k + 1), NEW b \in 1..(k + 1), a < b PROVE f[a] < f[b]
  <2>1. e[a] < e[b] /\ e[a] \in Nat /\ e[b] \in Nat
    BY <1>2, <1>11, <1>61
  <2>2. CASE b = i
    <3>1. f[i - 1] < f[i]
      <4>1. i - 1 \in 1..k /\ f[i - 1] \in Nat
        BY <1>1, <1>7
      <4>2. m[i - 1] \in Nat
        BY <1>8, <4>1
      <4> QED
        BY ONLY <1>6, <4>1, <4>2
    <3>2. f[a] = e[a] /\ f[b] = f[i]
      BY <1>7, <1>11, <2>2
    <3>3. CASE a = i - 1
      BY <2>2, <3>1, <3>3
    <3>4. CASE a # i - 1
      <4>1. a < i - 1 /\ i - 1 \in 1..(k + 1)
        BY <1>11, <2>2, <3>4
      <4>2. e[a] < e[i - 1]
        BY <1>2, <4>1
      <4>3. e[i - 1] \in Nat /\ f[i] \in Nat
        BY <1>61, <4>1
      <4> QED
        BY ONLY <1>6, <2>1, <3>1, <3>2, <4>2, <4>3
    <3> QED
      BY <3>3, <3>4
  <2>3. CASE a = i
    <3>1. f[a] = e[a] - 1 /\ f[b] = e[b]
      BY <1>7, <1>11, <2>3
    <3> QED
      BY ONLY <2>1, <3>1
  <2>4. CASE a # i /\ b # i
    BY <1>7, <2>1, <2>4
  <2> QED
    BY <2>2, <2>3, <2>4
<1>12. f[1] = 0 /\ f[k + 1] = N + 1
  <2>1. 1 \in 1..(k + 1) /\ k + 1 \in 1..(k + 1) /\ 1 # i /\ k + 1 # i
    OBVIOUS
  <2> QED
    BY <1>2, <1>7, <2>1
<1>13. Parts(k, m, f, N)
  BY <1>7, <1>8, <1>9, <1>11, <1>12 DEF Parts
<1>14. Weighs(k, m, w, f, B, U)
  BY <1>8, <1>10 DEF Weighs
<1>15. ASSUME NEW t \in 1..(i - 2) PROVE B[f[t + 1]] - B[f[t]] > U
  <2>1. t \in 1..(k + 1) /\ t + 1 \in 1..(k + 1) /\ t # i /\ t + 1 # i
    OBVIOUS
  <2>2. f[t + 1] = e[t + 1] /\ f[t] = e[t]
    BY <1>7, <2>1
  <2> QED
    BY <1>2, <2>2
<1>16. B[f[i + 1] - 1] - B[f[i - 1]] > U
  BY <1>2, <1>6
<1>17. ASSUME NEW t \in (i + 1)..k PROVE w[t] >= H
  <2>1. t \in 1..k /\ t # i /\ t # i - 1
    OBVIOUS
  <2>2. w[t] = s[t]
    BY <1>8, <2>1
  <2> QED
    BY <1>2, <2>2
<1>18. Filling(k, m, w, f, i, B, N, U, H)
  BY <1>13, <1>14, <1>15, <1>16, <1>17 DEF Filling
<1> QED
  BY <1>7, <1>18 DEF N

(* The cells have one size, or the divider is the one the sums need.       *)
OneSize(cells) ==
    \A a, b \in 1..Len(cells) : storage_size(cells[a]) = storage_size(cells[b])

Pointed(v, at, cells) ==
    v \in Nat /\ at <= v /\ v <= Len(cells) /\ (v = at \/ OneSize(cells))

LEMMA SizesPointedAt ==
    ASSUME NEW cells, SizedCells(cells), NEW at \in Nat, at >= 2, at <= Len(cells),
           NEW v, Pointed(v, at, cells)
    PROVE  /\ v \in 0..Len(cells) /\ v >= 2
           /\ storage_size(cells[v]) = storage_size(cells[at])
           /\ storage_size(cells[v - 1]) = storage_size(cells[at - 1])
<1>1. Len(cells) \in Nat
  BY DEF SizedCells
<1>2. v \in Nat /\ at <= v /\ v <= Len(cells) /\ (v = at \/ OneSize(cells))
  BY DEF Pointed
<1>3. v \in 1..Len(cells) /\ v - 1 \in 1..Len(cells) /\ at \in 1..Len(cells) /\ at - 1 \in 1..Len(cells)
      /\ v \in 0..Len(cells) /\ v >= 2
  BY ONLY <1>1, <1>2, at \in Nat, at >= 2, at <= Len(cells)
<1>4. CASE v = at
  BY <1>3, <1>4
<1>5. CASE OneSize(cells)
  BY <1>3, <1>5 DEF OneSize
<1> QED
  BY <1>2, <1>4, <1>5

LEMMA PointedNext ==
    ASSUME NEW cells, NEW at \in Nat, at >= 2, NEW v, Pointed(v, at, cells)
    PROVE  Pointed(v - 1, at - 1, cells)
<1>1. v \in Nat /\ at <= v /\ v <= Len(cells) /\ (v = at \/ OneSize(cells))
  BY DEF Pointed
<1>2. v - 1 \in Nat /\ at - 1 <= v - 1
  BY ONLY <1>1, at \in Nat, at >= 2
<1>3. v - 1 <= Len(cells)
  <2>1. CASE Len(cells) \in Int
    BY <1>1, <2>1
  <2> QED
    BY <1>1, <2>1
<1> QED
  BY <1>1, <1>2, <1>3 DEF Pointed

(* Each turn moves a cell, until half of the page is full.                 *)
FillsOne(p, cells, B, k, i, n, U, H) ==
    \E m, w, u, f : /\ p = Share(m, w, u, TRUE) /\ Filling(k, m, w, f, i, B, Len(cells), U, H)
                    /\ Pointed(u, f[i], cells) /\ m[i] = n[i] + 1

LEMMA ShiftFills ==
    ASSUME NEW cells, NEW B, NEW U, NEW H, Modest(cells, B, U, H), H = geo.usable_space \div 2,
           NEW k \in Nat, NEW i \in 2..k, NEW n, NEW s, NEW e,
           Filling(k, n, s, e, i, B, Len(cells), U, H), Wanting(s, i, H),
           NEW v, Pointed(v, e[i], cells)
    PROVE  FillsOne(shift_right(cells, Share(n, s, v, TRUE), i), cells, B, k, i, n, U, H)
<1>1. /\ SizedCells(cells) /\ Sums(B, cells) /\ U \in Nat /\ H \in Nat /\ H + H <= U
      /\ \A j \in 1..Len(cells) : storage_size(cells[j]) <= H
      /\ Len(cells) \in Nat /\ B \in [0..Len(cells) -> Nat]
  BY DEF Modest, SizedCells, Sums
<1>2. ~(s[i] >= H)
  BY DEF Wanting
<1>3. MayMove(cells, n, s, e[i], i)
  BY <1>1, <1>2, HalfMayMove
<1>4. Around(n, s, e, i, B, Len(cells), U)
  BY <1>1, PartsAround
<1>5. e[i] \in Nat /\ e[i] <= Len(cells) /\ e[i] >= 2
  <2>1. e[i] \in 1..Len(cells)
    BY <1>4 DEF Around
  <2>2. e[i] >= 2
    BY <1>3 DEF MayMove
  <2> QED
    BY <1>1, <2>1, <2>2
<1>6. /\ v \in 0..Len(cells) /\ v >= 2
      /\ storage_size(cells[v]) = storage_size(cells[e[i]])
      /\ storage_size(cells[v - 1]) = storage_size(cells[e[i] - 1])
  BY <1>1, <1>5, SizesPointedAt
<1>7. MayMove(cells, n, s, v, i)
  BY <1>3, <1>6 DEF MayMove
<1>8. n \in [1..k -> Nat] /\ s \in [1..k -> Nat]
  BY DEF Filling, Parts, Weighs
<1>9. MovesTo(shift_right(cells, Share(n, s, v, TRUE), i), cells, k, n, s, v, i)
  <2>1. ~(s[i] >= geo.usable_space \div 2)
    BY <1>2
  <2> QED
    BY <1>1, <1>6, <1>7, <1>8, <2>1, ShiftMoves
<1>10. PICK m, w, u : /\ Moved(m, n, k, i, 1, 1)
                      /\ Moved(w, s, k, i, storage_size(cells[v]), storage_size(cells[v - 1]))
                      /\ u = v - 1 /\ shift_right(cells, Share(n, s, v, TRUE), i) = Share(m, w, u, TRUE)
  BY <1>9 DEF MovesTo
<1>11. OneMoved(cells, k, n, s, e, i, m, w)
  BY <1>6, <1>10 DEF OneMoved
<1>12. StillFilling(cells, k, m, w, e, i, B, U, H)
  BY <1>3, <1>11, MoveFills
<1>13. PICK f : Filling(k, m, w, f, i, B, Len(cells), U, H) /\ f[i] = e[i] - 1
  BY <1>12 DEF StillFilling
<1>14. Pointed(u, f[i], cells)
  BY <1>5, <1>10, <1>13, PointedNext
<1>15. m[i] = n[i] + 1
  BY <1>10 DEF Moved
<1> QED
  BY <1>10, <1>13, <1>14, <1>15 DEF FillsOne

(* Page i after j turns.                                                   *)
Turned(d, cells, B, k, i, j, U, H) ==
    \E n, s, v, e : /\ d = Share(n, s, v, TRUE)
                    /\ Filling(k, n, s, e, i, B, Len(cells), U, H) /\ Pointed(v, e[i], cells)
                    /\ Wanting(s, i, H) => n[i] >= j

LEMMA TurnFills ==
    ASSUME NEW cells, NEW B, NEW U, NEW H, Modest(cells, B, U, H), H = geo.usable_space \div 2,
           NEW k \in Nat, NEW i \in 2..k, NEW j \in Nat, NEW x, j = x + 1, x \in Nat,
           NEW d, Turned(d, cells, B, k, i, x, U, H)
    PROVE  Turned(shift_right(cells, d, i), cells, B, k, i, j, U, H)
<1>1. PICK n, s, v, e : /\ d = Share(n, s, v, TRUE)
                        /\ Filling(k, n, s, e, i, B, Len(cells), U, H) /\ Pointed(v, e[i], cells)
                        /\ Wanting(s, i, H) => n[i] >= x
  BY DEF Turned
<1>10. Filling(k, n, s, e, i, B, Len(cells), U, H) /\ Pointed(v, e[i], cells)
  BY <1>1
<1>2. CASE Wanting(s, i, H)
  <2>0. FillsOne(shift_right(cells, Share(n, s, v, TRUE), i), cells, B, k, i, n, U, H)
    BY <1>10, <1>2, ShiftFills
  <2>1. PICK m, w, u, f : /\ shift_right(cells, Share(n, s, v, TRUE), i) = Share(m, w, u, TRUE)
                          /\ Filling(k, m, w, f, i, B, Len(cells), U, H)
                          /\ Pointed(u, f[i], cells) /\ m[i] = n[i] + 1
    BY <2>0 DEF FillsOne
  <2>2. n[i] \in Nat
    <3>1. n \in [1..k -> Nat]
      BY <1>10 DEF Filling, Parts
    <3>2. i \in 1..k
      BY ONLY k \in Nat, i \in 2..k
    <3> QED
      BY <3>1, <3>2
  <2>3. n[i] >= x
    BY <1>1, <1>2
  <2>4. m[i] >= j
    BY ONLY <2>1, <2>2, <2>3, x \in Nat, j = x + 1
  <2> QED
    BY <1>1, <2>1, <2>4 DEF Turned
<1>3. CASE ~Wanting(s, i, H)
  <2>1. shift_right(cells, Share(n, s, v, TRUE), i) = Share(n, s, v, TRUE)
    <3>1. s[i] >= geo.usable_space \div 2
      BY <1>3 DEF Wanting
    <3> QED
      BY <3>1 DEF shift_right, Share
  <2> QED
    BY <1>1, <1>3, <2>1 DEF Turned
<1> QED
  BY <1>2, <1>3

(* The turns of fill_page are a function.                                  *)
Turns(turn, cells, d, i) ==
    /\ turn[0] = d
    /\ \A j \in 1..Len(cells) : turn[j] = shift_right(cells, turn[j - 1], i)

LEMMA FillPageTurns ==
    ASSUME NEW cells, SizedCells(cells), NEW k \in Nat, NEW i \in 2..k, NEW d \in Shared(k, Len(cells))
    PROVE  /\ fill_page(cells, d, i) \in Shared(k, Len(cells))
           /\ \E turn : Turns(turn, cells, d, i) /\ fill_page(cells, d, i) = turn[Len(cells)]
<1> DEFINE N == Len(cells)
           V == Shared(k, N)
           Of(f) == [j \in 0..N |-> IF j = 0 THEN d ELSE shift_right(cells, f[j - 1], i)]
           step == [x \in (1..N) \X V |-> shift_right(cells, x[2], i)]
           turn == CHOOSE f : f = Of(f)
<1>1. N \in Nat
  BY DEF SizedCells
<1>2. \A j \in 1..N, v \in V : step[<<j, v>>] = shift_right(cells, v, i)
  OBVIOUS
<1>3. ASSUME NEW j \in 1..N, NEW v \in V PROVE step[<<j, v>>] \in V
  <2>1. shift_right(cells, v, i) \in V
    BY ShiftRightIsShared
  <2> HIDE DEF step, V
  <2> QED
    BY <1>2, <2>1
<1>4. PICK f : Iterates(f, N, V, d, step)
  <2> HIDE DEF step, N, V
  <2>1. d \in V
    BY DEF V, N
  <2> QED
    BY <1>1, <1>3, <2>1, IterationExists
<1>5. f \in [0..N -> V] /\ f[0] = d /\ \A j \in 1..N : f[j] = step[<<j, f[j - 1]>>]
  BY <1>4 DEF Iterates
<1>6. ASSUME NEW j \in 1..N PROVE f[j] = shift_right(cells, f[j - 1], i)
  <2>1. j - 1 \in 0..N
    BY <1>1
  <2> HIDE DEF step, V
  <2>2. f[j - 1] \in V
    BY <1>5, <2>1
  <2> QED
    BY <1>2, <1>5, <2>2
<1>7. f = Of(f)
  <2>1. f = [j \in 0..N |-> f[j]]
    BY <1>5
  <2>2. ASSUME NEW j \in 0..N PROVE f[j] = IF j = 0 THEN d ELSE shift_right(cells, f[j - 1], i)
    <3>1. j # 0 => j \in 1..N
      BY <1>1
    <3> HIDE DEF V, N, step
    <3> QED
      BY <1>5, <1>6, <3>1
  <2> HIDE DEF V, N, step
  <2> QED
    BY <2>1, <2>2
<1>8. turn = Of(turn)
  <2> HIDE DEF Of
  <2> QED
    BY <1>7
<1>9. fill_page(cells, d, i) = turn[N]
  BY DEF fill_page
<1> HIDE DEF turn
<1>10. turn[0] = d /\ \A j \in 1..N : turn[j] = shift_right(cells, turn[j - 1], i)
  <2>1. 0 \in 0..N /\ \A j \in 1..N : j \in 0..N /\ j # 0
    BY <1>1
  <2> HIDE DEF N, V, step
  <2> QED
    BY <1>8, <2>1
<1> DEFINE T == {j \in 0..N : turn[j] \in V}
<1>11. N \in T
  <2> HIDE DEF N, V, step, Of
  <2>1. 0 \in T
    <3>1. d \in V /\ 0 \in 0..N
      BY <1>1 DEF V, N
    <3> QED
      BY <1>10, <3>1
  <2>2. ASSUME NEW j \in 1..N, j - 1 \in T PROVE j \in T
    <3>1. turn[j - 1] \in V
      BY <2>2
    <3>2. shift_right(cells, turn[j - 1], i) \in V
      BY <3>1, ShiftRightIsShared DEF V, N
    <3>3. j \in 0..N
      BY <1>1
    <3> QED
      BY <1>10, <3>2, <3>3
  <2> HIDE DEF T
  <2>3. \A j \in 0..N : j \in T
    BY <1>1, <2>1, <2>2, UpwardClosed
  <2> QED
    BY <1>1, <2>3
<1>12. fill_page(cells, d, i) \in V
  <2> HIDE DEF V, N, step, Of
  <2> QED
    BY <1>9, <1>11
<1>13. Turns(turn, cells, d, i)
  BY <1>10 DEF Turns
<1> QED
  BY <1>9, <1>12, <1>13


(* A page that has its half.                                               *)
FillsPage(p, cells, B, k, i, U, H) ==
    \E m, w, u, f : /\ p = Share(m, w, u, TRUE) /\ Filling(k, m, w, f, i, B, Len(cells), U, H)
                    /\ Pointed(u, f[i], cells) /\ ~Wanting(w, i, H)

(* After as many turns as there are cells the page is half full.           *)
LEMMA FillPageFills ==
    ASSUME NEW cells, NEW B, NEW U, NEW H, Modest(cells, B, U, H), H = geo.usable_space \div 2,
           NEW k \in Nat, NEW i \in 2..k, NEW n, NEW s, NEW v, NEW e,
           Filling(k, n, s, e, i, B, Len(cells), U, H), Pointed(v, e[i], cells)
    PROVE  FillsPage(fill_page(cells, Share(n, s, v, TRUE), i), cells, B, k, i, U, H)
<1> DEFINE N == Len(cells)
           d == Share(n, s, v, TRUE)
<1>1. N \in Nat /\ SizedCells(cells)
  BY DEF Modest, SizedCells
<1>2. d \in Shared(k, N)
  <2>1. n \in [1..k -> Nat] /\ s \in [1..k -> Nat]
    BY DEF Filling, Parts, Weighs
  <2>2. v \in Nat /\ v <= N
    BY DEF Pointed
  <2>3. v \in 0..N
    BY ONLY <1>1, <2>2
  <2> HIDE DEF N
  <2> QED
    BY <2>1, <2>3, ShareIsShared
<1>3. PICK turn : Turns(turn, cells, d, i) /\ fill_page(cells, d, i) = turn[N]
  <2> HIDE DEF d
  <2> QED
    BY <1>1, <1>2, FillPageTurns
<1>4. turn[0] = d /\ \A j \in 1..N : turn[j] = shift_right(cells, turn[j - 1], i)
  BY <1>3 DEF Turns
<1>5. i \in 1..k /\ i + 1 \in 1..(k + 1) /\ i - 1 \in 1..k /\ i \in Nat
  BY ONLY k \in Nat, i \in 2..k
<1> DEFINE T == {j \in 0..N : Turned(turn[j], cells, B, k, i, j, U, H)}
<1>6. 0 \in T
  <2>1. n[i] \in Nat
    <3>1. n \in [1..k -> Nat]
      BY DEF Filling, Parts
    <3> QED
      BY <1>5, <3>1
  <2>2. n[i] >= 0
    BY ONLY <2>1
  <2>3. Turned(d, cells, B, k, i, 0, U, H)
    BY <2>2 DEF Turned
  <2>4. 0 \in 0..N /\ turn[0] = d
    BY <1>1, <1>4
  <2> HIDE DEF d, N
  <2> QED
    BY <2>3, <2>4
<1>7. ASSUME NEW j \in 1..N, j - 1 \in T PROVE j \in T
  <2>1. Turned(turn[j - 1], cells, B, k, i, j - 1, U, H)
    BY <1>7
  <2>2. j \in Nat /\ j - 1 \in Nat /\ j = (j - 1) + 1 /\ j \in 0..N
    BY ONLY <1>1, j \in 1..N
  <2>3. turn[j] = shift_right(cells, turn[j - 1], i)
    BY <1>4
  <2>4. Turned(shift_right(cells, turn[j - 1], i), cells, B, k, i, j, U, H)
    <3> DEFINE x == j - 1
    <3>1. x \in Nat /\ j = x + 1 /\ Turned(turn[x], cells, B, k, i, x, U, H)
      BY <2>1, <2>2
    <3> HIDE DEF x
    <3>2. Turned(shift_right(cells, turn[x], i), cells, B, k, i, j, U, H)
      BY <2>2, <3>1, TurnFills
    <3> QED
      BY <3>2 DEF x
  <2> QED
    BY <2>2, <2>3, <2>4
<1>8. N \in T
  <2>1. \A j \in 1..N : j - 1 \in T => j \in T
    BY <1>7
  <2> HIDE DEF T, N
  <2>2. \A j \in 0..N : j \in T
    BY <1>1, <1>6, <2>1, UpwardClosed
  <2> QED
    BY <1>1, <2>2
<1>9. Turned(fill_page(cells, d, i), cells, B, k, i, N, U, H)
  BY <1>3, <1>8
<1>10. PICK m, w, u, f : /\ fill_page(cells, d, i) = Share(m, w, u, TRUE)
                         /\ Filling(k, m, w, f, i, B, Len(cells), U, H) /\ Pointed(u, f[i], cells)
                         /\ Wanting(w, i, H) => m[i] >= N
  BY <1>9 DEF Turned
<1>11. ~(m[i] >= N)
  <2>0. Filling(k, m, w, f, i, B, Len(cells), U, H)
    BY <1>10
  <2>1. B \in [0..N -> Nat] /\ U \in Nat
    BY DEF Modest, Sums
  <2>2. Around(m, w, f, i, B, N, U)
    BY <1>1, <2>0, <2>1, PartsAround
  <2>3. f[i + 1] \in Nat /\ f[i + 1] <= N + 1 /\ m[i] \in Nat /\ f[i + 1] = f[i] + m[i] + 1 /\ f[i] \in 1..N
    BY <2>2 DEF Around
  <2> QED
    BY ONLY <1>1, <2>3
<1>12. ~Wanting(w, i, H)
  BY <1>10, <1>11
<1> QED
  BY <1>10, <1>12 DEF FillsPage

(* The parts after i are half full, and those before it full.              *)
HalfFrom(k, n, s, e, i, B, N, U, H) ==
    /\ Parts(k, n, e, N) /\ Weighs(k, n, s, e, B, U)
    /\ \A t \in 1..(i - 1) : B[e[t + 1]] - B[e[t]] > U
    /\ \A t \in (i + 1)..k : s[t] >= H

LEMMA ThreePlaces ==
    ASSUME NEW N \in Nat, NEW a \in 0..(N + 1), NEW b \in 0..(N + 1), NEW c \in 0..(N + 1),
           a < b, b < c
    PROVE  b \in 0..N /\ c - 1 \in 0..N /\ b <= c - 1 /\ a \in 0..N
OBVIOUS

LEMMA BeginFilling ==
    ASSUME NEW cells, SizedCells(cells), NEW B, Sums(B, cells), NEW U \in Nat, NEW H,
           NEW k \in Nat, NEW i \in 2..k, NEW n, NEW s, NEW e,
           HalfFrom(k, n, s, e, i, B, Len(cells), U, H)
    PROVE  Filling(k, n, s, e, i, B, Len(cells), U, H)
<1> DEFINE N == Len(cells)
<1>1. /\ Parts(k, n, e, N) /\ Weighs(k, n, s, e, B, U)
      /\ \A t \in 1..(i - 1) : B[e[t + 1]] - B[e[t]] > U
      /\ \A t \in (i + 1)..k : s[t] >= H
  BY DEF HalfFrom
<1>2. N \in Nat /\ B \in [0..N -> Nat]
  BY DEF SizedCells, Sums
<1> HIDE DEF N
<1>3. \A t \in 1..(i - 2) : B[e[t + 1]] - B[e[t]] > U
  <2>1. \A t \in 1..(i - 2) : t \in 1..(i - 1)
    OBVIOUS
  <2> QED
    BY <1>1, <2>1
<1>4. e \in [1..(k + 1) -> 0..(N + 1)] /\ e[k + 1] = N + 1
      /\ \A a, b \in 1..(k + 1) : a < b => e[a] < e[b]
  BY <1>1 DEF Parts
<1>5. i \in 1..(k + 1) /\ i + 1 \in 1..(k + 1) /\ i - 1 \in 1..(k + 1) /\ i < i + 1 /\ i - 1 < i
      /\ (i - 1) + 1 = i /\ i - 1 \in 1..(i - 1)
  BY ONLY k \in Nat, i \in 2..k
<1>6. e[i] \in 0..(N + 1) /\ e[i + 1] \in 0..(N + 1) /\ e[i - 1] \in 0..(N + 1)
      /\ e[i] < e[i + 1] /\ e[i - 1] < e[i]
  BY <1>4, <1>5
<1>7. e[i] \in 0..N /\ e[i + 1] - 1 \in 0..N /\ e[i] <= e[i + 1] - 1 /\ e[i - 1] \in 0..N
  BY <1>2, <1>6, ThreePlaces
<1>8. B[e[i]] <= B[e[i + 1] - 1]
  BY <1>7, SumsGrow DEF N
<1>9. B[e[i]] - B[e[i - 1]] > U
  BY <1>1, <1>5
<1>10. B[e[i]] \in Nat /\ B[e[i + 1] - 1] \in Nat /\ B[e[i - 1]] \in Nat
  BY <1>2, <1>7
<1>11. B[e[i + 1] - 1] - B[e[i - 1]] > U
  BY ONLY <1>8, <1>9, <1>10, U \in Nat
<1> QED
  BY <1>1, <1>3, <1>11 DEF Filling, N

LEMMA EndFilling ==
    ASSUME NEW k \in Nat, NEW i \in 2..k, NEW n, NEW s, NEW e, NEW B, NEW N, NEW U, NEW H,
           Filling(k, n, s, e, i, B, N, U, H), ~Wanting(s, i, H), NEW x, x = i - 1
    PROVE  HalfFrom(k, n, s, e, x, B, N, U, H)
<1>1. /\ Parts(k, n, e, N) /\ Weighs(k, n, s, e, B, U)
      /\ \A t \in 1..(i - 2) : B[e[t + 1]] - B[e[t]] > U
      /\ \A t \in (i + 1)..k : s[t] >= H
      /\ s[i] >= H
  BY DEF Filling, Wanting
<1>2. \A t \in 1..(x - 1) : t \in 1..(i - 2)
  OBVIOUS
<1>3. \A t \in (x + 1)..k : t = i \/ t \in (i + 1)..k
  OBVIOUS
<1>4. \A t \in (x + 1)..k : s[t] >= H
  BY <1>1, <1>3
<1> QED
  BY <1>1, <1>2, <1>4 DEF HalfFrom

LEMMA PointedBefore ==
    ASSUME NEW cells, NEW at, NEW v, Pointed(v, at, cells), NEW lower \in Nat, at \in Nat, lower < at,
           OneSize(cells)
    PROVE  Pointed(v, lower, cells)
<1>1. v \in Nat /\ at <= v /\ v <= Len(cells)
  BY DEF Pointed
<1>2. lower <= v
  BY ONLY <1>1, lower \in Nat, at \in Nat, lower < at
<1> QED
  BY <1>1, <1>2 DEF Pointed

(* The pages after i are done; the divider is in place for page i.         *)
FilledTo(d, cells, B, k, i, U, H) ==
    \E n, s, v, e : /\ d = Share(n, s, v, TRUE)
                    /\ HalfFrom(k, n, s, e, i, B, Len(cells), U, H)
                    /\ i >= 2 => Pointed(v, e[i], cells)

(* Two pages, or cells of one size.                                        *)
Plain(cells, k) == k <= 2 \/ OneSize(cells)

LEMMA FillOnePage ==
    ASSUME NEW cells, NEW B, NEW U, NEW H, Modest(cells, B, U, H), H = geo.usable_space \div 2,
           NEW k \in Nat, Plain(cells, k), NEW i \in 2..k, NEW x, x = i - 1,
           NEW d, FilledTo(d, cells, B, k, i, U, H)
    PROVE  /\ FilledTo(fill_page(cells, d, i), cells, B, k, x, U, H)
           /\ FillsPage(fill_page(cells, d, i), cells, B, k, i, U, H)
<1>1. PICK n, s, v, e : /\ d = Share(n, s, v, TRUE)
                        /\ HalfFrom(k, n, s, e, i, B, Len(cells), U, H)
                        /\ i >= 2 => Pointed(v, e[i], cells)
  BY DEF FilledTo
<1>2. HalfFrom(k, n, s, e, i, B, Len(cells), U, H) /\ Pointed(v, e[i], cells)
  <2>1. i >= 2
    OBVIOUS
  <2> QED
    BY <1>1, <2>1
<1>20. Pointed(v, e[i], cells)
  BY <1>2
<1>3. SizedCells(cells) /\ Sums(B, cells) /\ U \in Nat
  BY DEF Modest
<1>4. Filling(k, n, s, e, i, B, Len(cells), U, H)
  BY <1>2, <1>3, BeginFilling
<1>50. FillsPage(fill_page(cells, Share(n, s, v, TRUE), i), cells, B, k, i, U, H)
  BY <1>20, <1>4, FillPageFills
<1>5. PICK m, w, u, f : /\ fill_page(cells, Share(n, s, v, TRUE), i) = Share(m, w, u, TRUE)
                        /\ Filling(k, m, w, f, i, B, Len(cells), U, H)
                        /\ Pointed(u, f[i], cells) /\ ~Wanting(w, i, H)
  BY <1>50 DEF FillsPage
<1>6. HalfFrom(k, m, w, f, x, B, Len(cells), U, H)
  BY <1>5, EndFilling
<1>7. ASSUME x >= 2 PROVE Pointed(u, f[x], cells)
  <2>1. OneSize(cells)
    <3>1. ~(k <= 2)
      BY ONLY <1>7, x = i - 1, i \in 2..k, k \in Nat
    <3> QED
      BY <3>1 DEF Plain
  <2>2. f \in [1..(k + 1) -> 0..(Len(cells) + 1)] /\ \A a, b \in 1..(k + 1) : a < b => f[a] < f[b]
    BY <1>6 DEF HalfFrom, Parts
  <2>3. x \in 1..(k + 1) /\ i \in 1..(k + 1) /\ x < i
    BY ONLY x = i - 1, i \in 2..k, k \in Nat
  <2>4. f[x] \in 0..(Len(cells) + 1) /\ f[i] \in 0..(Len(cells) + 1) /\ f[x] < f[i]
    BY <2>2, <2>3
  <2>5. f[x] \in Nat /\ f[i] \in Nat
    <3>1. Len(cells) \in Nat
      BY <1>3 DEF SizedCells
    <3> QED
      BY ONLY <2>4, <3>1
  <2> QED
    BY <1>5, <2>1, <2>4, <2>5, PointedBefore
<1>8. fill_page(cells, d, i) = Share(m, w, u, TRUE)
  BY <1>1, <1>5
<1> QED
  BY <1>1, <1>6, <1>7, <1>8, <1>50 DEF FilledTo

(* The pages from the last to the second are a function of their count.    *)
Fillings(filled, cells, d, k) ==
    /\ filled[0] = d
    /\ \A j \in 1..(k - 1) : filled[j] = fill_page(cells, filled[j - 1], k + 1 - j)

LEMMA FillingsAre ==
    ASSUME NEW cells, SizedCells(cells), NEW k \in Nat, k >= 1, NEW left,
           NEW d \in Shared(k, Len(cells)), d = [left EXCEPT !.div = Len(cells) - left.n[k]]
    PROVE  \E filled : Fillings(filled, cells, d, k) /\ fill_last_pages(cells, left, k) = filled[k - 1]
<1> DEFINE K == k - 1
           V == Shared(k, Len(cells))
           Of(f) == [j \in 0..K |-> IF j = 0 THEN [left EXCEPT !.div = Len(cells) - left.n[k]]
                                    ELSE fill_page(cells, f[j - 1], k + 1 - j)]
           step == [x \in (1..K) \X V |-> fill_page(cells, x[2], k + 1 - x[1])]
           filled == CHOOSE f : f = Of(f)
<1>1. K \in Nat /\ \A j \in 1..K : k + 1 - j \in 2..k
  OBVIOUS
<1>2. \A j \in 1..K, v \in V : step[<<j, v>>] = fill_page(cells, v, k + 1 - j)
  OBVIOUS
<1>3. ASSUME NEW j \in 1..K, NEW v \in V PROVE step[<<j, v>>] \in V
  <2> DEFINE i == k + 1 - j
  <2>1. i \in 2..k
    BY <1>1
  <2> HIDE DEF i
  <2>2. fill_page(cells, v, i) \in V
    BY <2>1, FillPageTurns
  <2> HIDE DEF step, V, K
  <2> QED
    BY <1>2, <2>2 DEF i
<1>4. PICK f : Iterates(f, K, V, d, step)
  <2>1. d \in V
    OBVIOUS
  <2> HIDE DEF step, K, V
  <2> QED
    BY <1>1, <1>3, <2>1, IterationExists
<1>5. f \in [0..K -> V] /\ f[0] = d /\ \A j \in 1..K : f[j] = step[<<j, f[j - 1]>>]
  BY <1>4 DEF Iterates
<1>6. ASSUME NEW j \in 1..K PROVE f[j] = fill_page(cells, f[j - 1], k + 1 - j)
  <2> HIDE DEF K
  <2>1. j - 1 \in 0..K
    BY <1>1
  <2> HIDE DEF step, V
  <2>2. f[j - 1] \in V
    BY <1>5, <2>1
  <2> QED
    BY <1>2, <1>5, <2>2
<1>7. f = Of(f)
  <2>1. f = [j \in 0..K |-> f[j]]
    BY <1>5
  <2>2. ASSUME NEW j \in 0..K PROVE f[j] = IF j = 0 THEN [left EXCEPT !.div = Len(cells) - left.n[k]]
                                            ELSE fill_page(cells, f[j - 1], k + 1 - j)
    <3> HIDE DEF K
    <3>1. j # 0 => j \in 1..K
      BY <1>1
    <3> HIDE DEF V, step
    <3> QED
      BY <1>5, <1>6, <3>1
  <2> HIDE DEF V, K, step
  <2> QED
    BY <2>1, <2>2
<1>8. filled = Of(filled)
  <2> HIDE DEF Of
  <2> QED
    BY <1>7
<1>9. fill_last_pages(cells, left, k) = filled[K]
  BY DEF fill_last_pages
<1> HIDE DEF filled
<1>10. filled[0] = d /\ \A j \in 1..K : filled[j] = fill_page(cells, filled[j - 1], k + 1 - j)
  <2> HIDE DEF K
  <2>1. 0 \in 0..K /\ \A j \in 1..K : j \in 0..K /\ j # 0
    BY <1>1
  <2> HIDE DEF V, step
  <2> QED
    BY <1>8, <2>1
<1>11. Fillings(filled, cells, d, k)
  BY <1>10 DEF Fillings
<1> QED
  BY <1>9, <1>11

LEMMA FillLastPages ==
    ASSUME NEW cells, NEW B, NEW U, NEW H, Modest(cells, B, U, H), H = geo.usable_space \div 2,
           NEW k \in Nat, k >= 1, Plain(cells, k), NEW left,
           NEW d \in Shared(k, Len(cells)), d = [left EXCEPT !.div = Len(cells) - left.n[k]],
           FilledTo(d, cells, B, k, k, U, H)
    PROVE  /\ FilledTo(fill_last_pages(cells, left, k), cells, B, k, 1, U, H)
           /\ k >= 2 => FillsPage(fill_last_pages(cells, left, k), cells, B, k, 2, U, H)
<1> DEFINE K == k - 1
<1>0. SizedCells(cells)
  BY DEF Modest
<1>1. PICK filled : Fillings(filled, cells, d, k) /\ fill_last_pages(cells, left, k) = filled[k - 1]
  BY <1>0, FillingsAre
<1>2. filled[0] = d /\ \A j \in 1..K : filled[j] = fill_page(cells, filled[j - 1], k + 1 - j)
  BY <1>1 DEF Fillings
<1>3. K \in Nat /\ k = K + 1
  OBVIOUS
<1> HIDE DEF K
<1> DEFINE T == {j \in 0..K : FilledTo(filled[j], cells, B, k, k - j, U, H)}
<1>4. 0 \in T
  <2>1. 0 \in 0..K /\ k - 0 = k
    BY <1>3
  <2> QED
    BY <1>2, <2>1
<1>5. ASSUME NEW j \in 1..K, j - 1 \in T PROVE j \in T
  <2> DEFINE i == k + 1 - j
             x == k - j
             g == filled[j - 1]
  <2>1. i \in 2..k /\ x = i - 1 /\ k - (j - 1) = i /\ j \in 0..K
    BY ONLY <1>3, j \in 1..K, k \in Nat
  <2>2. FilledTo(g, cells, B, k, i, U, H)
    BY <1>5, <2>1
  <2>3. filled[j] = fill_page(cells, g, i)
    BY <1>2
  <2> HIDE DEF i, x, g
  <2>4. FilledTo(fill_page(cells, g, i), cells, B, k, x, U, H)
    BY <2>1, <2>2, FillOnePage
  <2> QED
    BY <2>1, <2>3, <2>4 DEF x
<1>6. K \in T
  <2>1. \A j \in 1..K : j - 1 \in T => j \in T
    BY <1>5
  <2> HIDE DEF T
  <2>2. \A j \in 0..K : j \in T
    BY <1>3, <1>4, <2>1, UpwardClosed
  <2> QED
    BY <1>3, <2>2
<1>7. k - K = 1
  BY <1>3
<1>8. ASSUME k >= 2 PROVE FillsPage(fill_last_pages(cells, left, k), cells, B, k, 2, U, H)
  <2> DEFINE g == filled[K - 1]
  <2>1. K \in 1..K /\ K - 1 \in 0..K /\ k + 1 - K = 2 /\ k - (K - 1) = 2 /\ 2 \in 2..k /\ 1 = 2 - 1
    BY <1>3, <1>8
  <2>2. K - 1 \in T
    <3>1. \A j \in 1..K : j - 1 \in T => j \in T
      BY <1>5
    <3> HIDE DEF T
    <3>2. \A j \in 0..K : j \in T
      BY <1>3, <1>4, <3>1, UpwardClosed
    <3> QED
      BY <2>1, <3>2
  <2>3. FilledTo(g, cells, B, k, 2, U, H)
    BY <2>1, <2>2
  <2>4. fill_last_pages(cells, left, k) = fill_page(cells, g, 2)
    BY <1>1, <1>2, <2>1 DEF K
  <2> HIDE DEF g
  <2>5. FillsPage(fill_page(cells, g, 2), cells, B, k, 2, U, H)
    BY <2>1, <2>3, FillOnePage
  <2> QED
    BY <2>4, <2>5
<1> QED
  BY <1>1, <1>6, <1>7, <1>8 DEF K

LEMMA PointDivider ==
    ASSUME NEW n, NEW s, NEW ok, NEW u \in Nat, NEW v \in Nat
    PROVE  [Share(n, s, u, ok) EXCEPT !.div = v] = Share(n, s, v, ok)
BY DEF Share

(* What the pages get, before the last ones are filled.                    *)
Begun(w, d, cells, B, k, U, H) ==
    /\ w = [d EXCEPT !.div = Len(cells) - d.n[k]] /\ Len(d.n) = k
    /\ w \in Shared(k, Len(cells)) /\ FilledTo(w, cells, B, k, k, U, H)

LEMMA BeginLastPages ==
    ASSUME NEW cells, SizedCells(cells), NEW B, NEW U, NEW H, NEW d, NEW k, NEW n, NEW s, NEW e,
           Pushed(d, k, n, s), Greedy(k, n, s, e, B, Len(cells), U), NEW w, w = Share(n, s, e[k], TRUE)
    PROVE  Begun(w, d, cells, B, k, U, H)
<1> DEFINE N == Len(cells)
<1>1. k \in Nat /\ k >= 1 /\ n \in [1..k -> Nat] /\ s \in [1..k -> Nat] /\ d = Share(n, s, 0, TRUE)
  BY DEF Pushed
<1>2. /\ Parts(k, n, e, N) /\ Weighs(k, n, s, e, B, U)
      /\ \A t \in 1..(k - 1) : B[e[t + 1]] - B[e[t]] > U
  BY DEF Greedy
<1>3. N \in Nat
  BY DEF SizedCells
<1> HIDE DEF N
<1>4. /\ e \in [1..(k + 1) -> 0..(N + 1)] /\ e[k + 1] = N + 1
      /\ \A i \in 1..k : e[i + 1] = e[i] + n[i] + 1
  BY <1>2 DEF Parts
<1>5. k \in 1..k /\ k \in 1..(k + 1) /\ (k + 1)..k = {}
  BY ONLY <1>1
<1>6. e[k] \in 0..(N + 1) /\ n[k] \in Nat /\ N + 1 = e[k] + n[k] + 1
  BY <1>1, <1>4, <1>5
<1>7. e[k] \in 0..N /\ e[k] = N - n[k] /\ e[k] \in Nat /\ e[k] <= N
  BY ONLY <1>3, <1>6
<1>8. d.n = n /\ w = [d EXCEPT !.div = N - d.n[k]]
  <2>1. d.n = n
    BY <1>1 DEF Share
  <2>2. N - d.n[k] = e[k]
    BY <1>7, <2>1
  <2>3. w = [d EXCEPT !.div = e[k]]
    <3>1. [Share(n, s, 0, TRUE) EXCEPT !.div = e[k]] = Share(n, s, e[k], TRUE)
      BY <1>7, PointDivider
    <3> QED
      BY <1>1, <3>1
  <2> QED
    BY <2>1, <2>2, <2>3
<1>9. Len(d.n) = k
  BY <1>1, <1>8, LenOf
<1>10. w \in Shared(k, N)
  BY <1>1, <1>7, ShareIsShared
<1>11. HalfFrom(k, n, s, e, k, B, N, U, H)
  BY <1>2, <1>5 DEF HalfFrom
<1>12. Pointed(e[k], e[k], cells)
  BY <1>7 DEF Pointed, N
<1>13. FilledTo(w, cells, B, k, k, U, H)
  BY <1>11, <1>12 DEF FilledTo, N
<1> QED
  BY <1>8, <1>9, <1>10, <1>13 DEF N, Begun

(* The cells of each page, and the dividers between them, in their order:  *)
(* no page gets more than fits.                                            *)
FitsAs(d, cells, B, k, n, s, v, e, U, H) ==
    /\ d = Share(n, s, v, TRUE) /\ k \in Nat /\ k >= 1 /\ s \in [1..k -> Nat]
    /\ Parts(k, n, e, Len(cells))
    /\ \A i \in 1..k : B[e[i] + n[i]] - B[e[i]] <= U
    /\ \A i \in 3..k : B[e[i] + n[i]] - B[e[i]] >= H
Fits(d, cells, B, U, H) == \E k, n, s, v, e : FitsAs(d, cells, B, k, n, s, v, e, U, H)

GaveBack(m, n, k) ==
    /\ m \in [1..k -> Nat] /\ m[1] = n[1] + 1 /\ m[2] = n[2] - 1
    /\ \A i \in 3..k : m[i] = n[i]

Raise2(f, e, k, N) ==
    /\ f \in [1..(k + 1) -> 0..(N + 1)] /\ f[2] = e[2] + 1
    /\ \A t \in 1..(k + 1) : t # 2 => f[t] = e[t]

(* The first two parts, of x and y cells and z where the second one ends.  *)
FirstTwo(a, b, x, y, z, N) ==
    a = 0 /\ x \in Nat /\ y \in Nat /\ b = a + x + 1 /\ z = b + y + 1 /\ z <= N + 1 /\ y # 0

FirstTwoAfter(a, b, x, y, z) ==
    /\ a + x = b - 1 /\ a + (x + 1) = b /\ (b + 1) + (y - 1) = b + y
    /\ b + 1 = a + (x + 1) + 1 /\ z = (b + 1) + (y - 1) + 1 /\ b + 1 < z /\ a < b + 1

LEMMA FirstTwoAre ==
    ASSUME NEW N \in Nat, NEW a, NEW b, NEW x, NEW y, NEW z, FirstTwo(a, b, x, y, z, N)
    PROVE  /\ b \in 1..N /\ b \in 0..N /\ b + 1 \in 0..N /\ b - 1 \in 0..N /\ b + 1 \in 0..(N + 1)
           /\ b + y \in 0..N /\ b + 1 <= b + y /\ b <= b + 1
           /\ FirstTwoAfter(a, b, x, y, z)
BY DEF FirstTwo, FirstTwoAfter

LEMMA FirstTakesBack ==
    ASSUME NEW cells, NEW B, NEW U, NEW H, Modest(cells, B, U, H),
           NEW k \in Nat, k >= 2, NEW n, NEW s, NEW e, NEW m,
           HalfFrom(k, n, s, e, 1, B, Len(cells), U, H), s[1] < H, n[2] # 0, GaveBack(m, n, k),
           NEW v, NEW d, d = Share(m, s, v, TRUE)
    PROVE  Fits(d, cells, B, U, H)
<1> DEFINE N == Len(cells)
<1>1. /\ SizedCells(cells) /\ Sums(B, cells) /\ U \in Nat /\ H \in Nat /\ H + H <= U
      /\ \A j \in 1..N : storage_size(cells[j]) <= H
  BY DEF Modest
<1>2. /\ N \in Nat /\ B \in [0..N -> Nat] /\ B[0] = 0
      /\ \A j \in 1..N : storage_size(cells[j]) \in Nat /\ B[j] = B[j - 1] + storage_size(cells[j])
  BY <1>1 DEF SizedCells, Sums
<1>3. \A i, j \in 0..N : i <= j => B[i] <= B[j]
  BY <1>1, SumsGrow
<1>4. HalfFrom(k, n, s, e, 1, B, N, U, H)
  OBVIOUS
<1> HIDE DEF N
<1>5. /\ n \in [1..k -> Nat] /\ s \in [1..k -> Nat]
      /\ e \in [1..(k + 1) -> 0..(N + 1)] /\ e[1] = 0 /\ e[k + 1] = N + 1
      /\ \A i \in 1..k : e[i + 1] = e[i] + n[i] + 1
      /\ \A a, b \in 1..(k + 1) : a < b => e[a] < e[b]
      /\ \A i \in 1..k : s[i] = B[e[i] + n[i]] - B[e[i]] /\ s[i] <= U
      /\ \A t \in 2..k : s[t] >= H
  <2>1. 2 = 1 + 1
    OBVIOUS
  <2> QED
    BY <1>4, <2>1 DEF HalfFrom, Parts, Weighs
<1>6. 1 \in 1..k /\ 2 \in 1..k /\ 1 \in 1..(k + 1) /\ 2 \in 1..(k + 1) /\ 3 \in 1..(k + 1)
      /\ 1 + 1 = 2 /\ 2 + 1 = 3
  BY ONLY k \in Nat, k >= 2
<1>7. /\ n[1] \in Nat /\ n[2] \in Nat /\ s[1] \in Nat /\ e[2] = e[1] + n[1] + 1 /\ e[3] = e[2] + n[2] + 1
      /\ e[3] \in 0..(N + 1) /\ e[2] \in 0..(N + 1)
  BY <1>5, <1>6
<1>8. e[3] <= N + 1
  BY ONLY <1>2, <1>7
<1>9. FirstTwo(e[1], e[2], n[1], n[2], e[3], N)
  BY <1>5, <1>7, <1>8 DEF FirstTwo
<1>10. /\ e[2] \in 1..N /\ e[2] \in 0..N /\ e[2] + 1 \in 0..N /\ e[2] - 1 \in 0..N
       /\ e[2] + 1 \in 0..(N + 1) /\ e[2] + n[2] \in 0..N /\ e[2] + 1 <= e[2] + n[2] /\ e[2] <= e[2] + 1
  BY <1>2, <1>9, FirstTwoAre
<1>11. /\ e[1] + n[1] = e[2] - 1 /\ e[1] + (n[1] + 1) = e[2]
       /\ (e[2] + 1) + (n[2] - 1) = e[2] + n[2]
       /\ e[2] + 1 = e[1] + (n[1] + 1) + 1 /\ e[3] = (e[2] + 1) + (n[2] - 1) + 1
       /\ e[2] + 1 < e[3] /\ e[1] < e[2] + 1
  <2>1. FirstTwoAfter(e[1], e[2], n[1], n[2], e[3])
    BY <1>2, <1>9, FirstTwoAre
  <2> QED
    BY <2>1 DEF FirstTwoAfter
<1>12. m \in [1..k -> Nat] /\ m[1] = n[1] + 1 /\ m[2] = n[2] - 1 /\ \A i \in 3..k : m[i] = n[i]
  BY DEF GaveBack
<1> DEFINE f == [e EXCEPT ![2] = @ + 1]
<1>13. Raise2(f, e, k, N)
  <2>1. f \in [1..(k + 1) -> 0..(N + 1)] /\ f[2] = e[2] + 1 /\ \A t \in 1..(k + 1) : t # 2 => f[t] = e[t]
    BY <1>5, <1>6, <1>10
  <2> HIDE DEF f
  <2> QED
    BY <2>1 DEF Raise2
<1> HIDE DEF f
<1>14. f \in [1..(k + 1) -> 0..(N + 1)] /\ f[2] = e[2] + 1 /\ \A t \in 1..(k + 1) : t # 2 => f[t] = e[t]
  BY <1>13 DEF Raise2
<1>15. f[1] = e[1] /\ f[3] = e[3]
  BY <1>6, <1>14
<1>16. ASSUME NEW i \in 1..k PROVE i = 1 \/ i = 2 \/ (i \in 3..k /\ i + 1 # 2 /\ i # 2 /\ i + 1 \in 1..(k + 1) /\ i \in 1..(k + 1) /\ i \in 2..k)
  OBVIOUS
<1>17. ASSUME NEW i \in 1..k PROVE f[i + 1] = f[i] + m[i] + 1
  <2>1. CASE i = 1
    BY <1>6, <1>11, <1>12, <1>14, <1>15, <2>1
  <2>2. CASE i = 2
    BY <1>6, <1>11, <1>12, <1>14, <1>15, <2>2
  <2>3. CASE i # 1 /\ i # 2
    <3>1. i \in 3..k /\ i + 1 # 2 /\ i # 2 /\ i + 1 \in 1..(k + 1) /\ i \in 1..(k + 1)
      BY <1>16, <2>3
    <3> QED
      BY <1>5, <1>12, <1>14, <3>1
  <2> QED
    BY <2>1, <2>2, <2>3
<1>18. \A a \in 1..(k + 1) : e[a] \in Nat /\ f[a] \in Nat
  <2>1. \A x \in 0..(N + 1) : x \in Nat
    BY <1>2
  <2> QED
    BY <1>5, <1>14, <2>1
<1>19. ASSUME NEW a \in 1..(k + 1), NEW b \in 1..(k + 1), a < b PROVE f[a] < f[b]
  <2>1. e[a] < e[b] /\ e[a] \in Nat /\ e[b] \in Nat
    BY <1>5, <1>18, <1>19
  <2>2. CASE a # 2 /\ b # 2
    BY <1>14, <2>1, <2>2
  <2>3. CASE b = 2
    <3>1. a # 2
      BY <1>19, <2>3
    <3>2. f[a] = e[a] /\ f[b] = e[b] + 1
      BY <1>14, <2>3, <3>1
    <3> QED
      BY ONLY <2>1, <3>2
  <2>4. CASE a = 2
    <3>1. b # 2 /\ f[b] = e[b] /\ f[a] = e[2] + 1
      BY <1>14, <1>19, <2>4
    <3>2. b = 3 \/ (3 < b)
      BY ONLY <1>19, <2>4, k \in Nat, b \in 1..(k + 1)
    <3>3. e[3] <= e[b]
      <4>1. CASE b = 3
        BY <1>18, <4>1
      <4>2. CASE 3 < b
        <5>1. e[3] < e[b] /\ e[3] \in Nat /\ e[b] \in Nat
          BY <1>5, <1>6, <1>18, <4>2
        <5> QED
          BY ONLY <5>1
      <4> QED
        BY <3>2, <4>1, <4>2
    <3>4. e[2] \in Nat /\ e[3] \in Nat /\ e[b] \in Nat
      BY <1>6, <1>18
    <3> QED
      BY ONLY <1>11, <3>1, <3>3, <3>4
  <2> QED
    BY <2>2, <2>3, <2>4
<1>20. f[1] = 0 /\ f[k + 1] = N + 1
  <2>1. k + 1 \in 1..(k + 1) /\ k + 1 # 2
    BY ONLY k \in Nat, k >= 2
  <2> QED
    BY <1>5, <1>14, <1>15, <2>1
<1>21. Parts(k, m, f, N)
  BY <1>12, <1>14, <1>17, <1>19, <1>20 DEF Parts
<1>22. B[f[1] + m[1]] - B[f[1]] <= U
  <2>1. f[1] + m[1] = e[2]
    BY <1>11, <1>12, <1>15
  <2>2. B[e[2]] = B[e[2] - 1] + storage_size(cells[e[2]]) /\ storage_size(cells[e[2]]) \in Nat
        /\ storage_size(cells[e[2]]) <= H
    BY <1>1, <1>2, <1>10 DEF N
  <2>3. s[1] = B[e[2] - 1] - B[e[1]]
    BY <1>5, <1>6, <1>11
  <2>4. B[e[2] - 1] \in Nat /\ B[e[1]] \in Nat
    <3>1. e[1] \in 0..N
      BY <1>2, <1>5
    <3> QED
      BY <1>2, <1>10, <3>1
  <2>5. B[e[2]] - B[e[1]] <= U
    BY ONLY <1>1, <2>2, <2>3, <2>4, s[1] < H
  <2> QED
    BY <1>15, <2>1, <2>5
<1>23. B[f[2] + m[2]] - B[f[2]] <= U
  <2>1. f[2] + m[2] = e[2] + n[2]
    BY <1>11, <1>12, <1>14
  <2>2. s[2] = B[e[2] + n[2]] - B[e[2]] /\ s[2] <= U
    BY <1>5, <1>6
  <2>3. B[e[2]] <= B[e[2] + 1]
    BY <1>3, <1>10
  <2>4. B[e[2]] \in Nat /\ B[e[2] + 1] \in Nat /\ B[e[2] + n[2]] \in Nat
    BY <1>2, <1>10
  <2>5. B[e[2] + n[2]] - B[e[2] + 1] <= U
    BY ONLY <1>1, <2>2, <2>3, <2>4
  <2> QED
    BY <1>14, <2>1, <2>5
<1>24. ASSUME NEW i \in 3..k
       PROVE  B[f[i] + m[i]] - B[f[i]] <= U /\ B[f[i] + m[i]] - B[f[i]] >= H
  <2>1. i \in 1..k /\ i \in 2..k /\ i \in 1..(k + 1) /\ i # 2
    OBVIOUS
  <2>2. f[i] = e[i] /\ m[i] = n[i] /\ s[i] = B[e[i] + n[i]] - B[e[i]] /\ s[i] <= U /\ s[i] >= H
    BY <1>5, <1>12, <1>14, <2>1
  <2> QED
    BY <2>2
<1>25. \A i \in 1..k : B[f[i] + m[i]] - B[f[i]] <= U
  BY <1>16, <1>22, <1>23, <1>24
<1>26. k >= 1
  BY ONLY k \in Nat, k >= 2
<1>27. FitsAs(d, cells, B, k, m, s, v, f, U, H)
  BY <1>5, <1>21, <1>24, <1>25, <1>26 DEF FitsAs, N
<1> QED
  BY <1>27 DEF Fits

LEMMA FirstPageFits ==
    ASSUME NEW cells, NEW B, NEW U, NEW H, Modest(cells, B, U, H), H = geo.usable_space \div 2,
           NEW k \in Nat, k >= 1, NEW d, FilledTo(d, cells, B, k, 1, U, H)
    PROVE  Fits(fill_first_page(d), cells, B, U, H)
<1>1. PICK n, s, v, e : d = Share(n, s, v, TRUE) /\ HalfFrom(k, n, s, e, 1, B, Len(cells), U, H)
  BY DEF FilledTo
<1>2. HalfFrom(k, n, s, e, 1, B, Len(cells), U, H)
  BY <1>1
<1>3. /\ n \in [1..k -> Nat] /\ s \in [1..k -> Nat] /\ Parts(k, n, e, Len(cells))
      /\ \A i \in 1..k : s[i] = B[e[i] + n[i]] - B[e[i]] /\ s[i] <= U
      /\ \A i \in 2..k : s[i] >= H
  <2>1. 1 + 1 = 2
    OBVIOUS
  <2> QED
    BY <1>2, <2>1 DEF HalfFrom, Parts, Weighs
<1>4. Len(n) = k
  BY <1>3, LenOf
<1>5. d.n = n /\ d.size = s /\ d.ok = TRUE
  BY <1>1 DEF Share
<1>6. CASE k = 1 \/ s[1] >= H
  <2>1. fill_first_page(d) = d
    BY <1>4, <1>5, <1>6 DEF fill_first_page
  <2>2. \A i \in 3..k : i \in 1..k /\ i \in 2..k
    OBVIOUS
  <2>3. \A i \in 3..k : B[e[i] + n[i]] - B[e[i]] >= H
    BY <1>3, <2>2
  <2>4. \A i \in 1..k : B[e[i] + n[i]] - B[e[i]] <= U
    BY <1>3
  <2>5. FitsAs(fill_first_page(d), cells, B, k, n, s, v, e, U, H)
    BY <1>1, <1>3, <2>1, <2>3, <2>4 DEF FitsAs
  <2> QED
    BY <2>5 DEF Fits
<1>7. CASE ~(k = 1 \/ s[1] >= H)
  <2>1. k >= 2 /\ 1 \in 1..k /\ 2 \in 1..k /\ 2 \in 2..k
    BY ONLY <1>7, k \in Nat, k >= 1
  <2>2. n[1] \in Nat /\ n[2] \in Nat /\ s[1] \in Nat /\ s[2] \in Nat /\ H \in Nat
    BY <1>3, <2>1 DEF Modest
  <2>3. s[1] < H /\ s[2] >= H
    <3>1. s[2] >= H /\ ~(s[1] >= H)
      BY <1>3, <1>7, <2>1
    <3> QED
      BY ONLY <2>2, <3>1
  <2>4. n[2] # 0
    <3>1. SUFFICES ASSUME n[2] = 0 PROVE FALSE
      OBVIOUS
    <3>2. s[2] = B[e[2] + n[2]] - B[e[2]]
      BY <1>3, <2>1
    <3>3. /\ e \in [1..(k + 1) -> 0..(Len(cells) + 1)] /\ e[k + 1] = Len(cells) + 1
          /\ \A a, b \in 1..(k + 1) : a < b => e[a] < e[b]
      BY <1>3 DEF Parts
    <3>4. 2 \in 1..(k + 1) /\ k + 1 \in 1..(k + 1) /\ 2 < k + 1
      BY ONLY <2>1, k \in Nat
    <3>5. e[2] \in 0..(Len(cells) + 1) /\ e[2] < Len(cells) + 1
      BY <3>3, <3>4
    <3>6. Len(cells) \in Nat /\ B \in [0..Len(cells) -> Nat]
      BY DEF Modest, SizedCells, Sums
    <3>7. e[2] \in 0..Len(cells) /\ e[2] + 0 = e[2]
      BY ONLY <3>5, <3>6
    <3>8. B[e[2]] \in Nat
      BY <3>6, <3>7
    <3>9. s[2] = B[e[2]] - B[e[2]]
      BY <3>1, <3>2, <3>7
    <3> QED
      BY ONLY <2>2, <2>3, <3>8, <3>9
  <2> DEFINE m == [n EXCEPT ![1] = @ + 1, ![2] = @ - 1]
  <2>5. fill_first_page(d) = Share(m, s, v, TRUE)
    <3>1. ~(Len(n) = 1) /\ ~(s[1] >= geo.usable_space \div 2) /\ n[2] # 0
      BY <1>4, <1>7, <2>4
    <3>2. fill_first_page(d) = [d EXCEPT !.n[1] = @ + 1, !.n[2] = @ - 1]
      BY <1>5, <3>1 DEF fill_first_page
    <3> QED
      BY <1>1, <3>2 DEF Share
  <2>6. GaveBack(m, n, k)
    <3>1. n[1] + 1 \in Nat /\ n[2] - 1 \in Nat
      BY ONLY <2>2, <2>4
    <3>2. m \in [1..k -> Nat]
      BY <1>3, <3>1
    <3>3. m[1] = n[1] + 1 /\ m[2] = n[2] - 1 /\ \A i \in 3..k : m[i] = n[i]
      BY <1>3, <2>1
    <3> HIDE DEF m
    <3> QED
      BY <3>2, <3>3 DEF GaveBack
  <2> HIDE DEF m
  <2> DEFINE r == fill_first_page(d)
  <2>7. r = Share(m, s, v, TRUE)
    BY <2>5
  <2> HIDE DEF r
  <2>8. Fits(r, cells, B, U, H)
    BY <1>2, <2>1, <2>3, <2>4, <2>6, <2>7, FirstTakesBack
  <2> QED
    BY <2>8 DEF r
<1> QED
  BY <1>6, <1>7

-----------------------------------------------------------------------------
(* What the pages of a group get.                                          *)

(* Cells of which two fit in a page with the divider that follows them.    *)
HalfAPage(cells) ==
    /\ SizedCells(cells) /\ geo.usable_space \in Nat
    /\ \A j \in 1..Len(cells) : storage_size(cells[j]) <= geo.usable_space \div 2

(* The pages after the first one get their half, k of them in all.         *)
LEMMA LastPagesFit ==
    ASSUME NEW cells, HalfAPage(cells), Len(left_biased(cells).n) <= 2 \/ OneSize(cells),
           NEW B, Sums(B, cells)
    PROVE  \E k, n, s, e :
               /\ k \in Nat /\ k >= 1 /\ Len(left_biased(cells).n) = k
               /\ Pushed(left_biased(cells), k, n, s)
               /\ Greedy(k, n, s, e, B, Len(cells), geo.usable_space)
               /\ FilledTo(fill_last_pages(cells, left_biased(cells), k), cells, B, k, 1,
                           geo.usable_space, geo.usable_space \div 2)
               /\ k >= 2 => FillsPage(fill_last_pages(cells, left_biased(cells), k), cells, B, k, 2,
                                      geo.usable_space, geo.usable_space \div 2)
<1> DEFINE U == geo.usable_space
           H == geo.usable_space \div 2
           N == Len(cells)
           left == left_biased(cells)
<1>1. U \in Nat /\ H \in Nat /\ H + H <= U /\ SizedCells(cells)
  BY DEF HalfAPage
<1>2. Modest(cells, B, U, H)
  BY <1>1 DEF Modest, HalfAPage
<1>3. LeftOf(left, B, N, U)
  BY <1>1, LeftBiased
<1>4. H = geo.usable_space \div 2
  OBVIOUS
<1>6. Len(left.n) <= 2 \/ OneSize(cells)
  OBVIOUS
<1> HIDE DEF U, H, left
<1>7. PICK k, n, s, e : Pushed(left, k, n, s) /\ Greedy(k, n, s, e, B, N, U)
  BY <1>3 DEF LeftOf
<1>8. k \in Nat /\ k >= 1
  BY <1>7 DEF Pushed
<1> DEFINE w == Share(n, s, e[k], TRUE)
<1>9. /\ w = [left EXCEPT !.div = Len(cells) - left.n[k]] /\ Len(left.n) = k
      /\ w \in Shared(k, Len(cells)) /\ FilledTo(w, cells, B, k, k, U, H)
  <2>1. w = Share(n, s, e[k], TRUE)
    OBVIOUS
  <2> HIDE DEF w
  <2>2. Begun(w, left, cells, B, k, U, H)
    BY <1>1, <1>7, <2>1, BeginLastPages
  <2> QED
    BY <2>2 DEF Begun
<1> HIDE DEF w
<1>10. Plain(cells, k)
  BY <1>6, <1>9 DEF Plain
<1>11. /\ FilledTo(fill_last_pages(cells, left, k), cells, B, k, 1, U, H)
       /\ k >= 2 => FillsPage(fill_last_pages(cells, left, k), cells, B, k, 2, U, H)
  BY <1>2, <1>4, <1>8, <1>9, <1>10, FillLastPages
<1> QED
  BY <1>7, <1>8, <1>9, <1>11 DEF U, H, left, N

LEMMA DistributionFits ==
    ASSUME NEW cells, HalfAPage(cells), Len(left_biased(cells).n) <= 2 \/ OneSize(cells),
           NEW B, Sums(B, cells)
    PROVE  Fits(distribution(cells), cells, B, geo.usable_space, geo.usable_space \div 2)
<1> DEFINE U == geo.usable_space
           H == geo.usable_space \div 2
           left == left_biased(cells)
<1>1. U \in Nat /\ H \in Nat /\ H + H <= U /\ SizedCells(cells)
  BY DEF HalfAPage
<1>2. Modest(cells, B, U, H)
  BY <1>1 DEF Modest, HalfAPage
<1>3. PICK k : /\ k \in Nat /\ k >= 1 /\ Len(left.n) = k
               /\ FilledTo(fill_last_pages(cells, left, k), cells, B, k, 1, U, H)
  BY LastPagesFit
<1>4. H = geo.usable_space \div 2
  OBVIOUS
<1>5. distribution(cells) = fill_first_page(fill_last_pages(cells, left, Len(left.n)))
  BY DEF distribution, balanced
<1> HIDE DEF U, H, left
<1> DEFINE r == fill_last_pages(cells, left, k)
<1>6. FilledTo(r, cells, B, k, 1, U, H)
  BY <1>3
<1> HIDE DEF r
<1>7. Fits(fill_first_page(r), cells, B, U, H)
  BY <1>2, <1>3, <1>4, <1>6, FirstPageFits
<1> QED
  BY <1>3, <1>5, <1>7 DEF U, H, r

(* There are pages for no more cells than there are: every page but the    *)
(* last one takes a cell and the divider after it.                         *)
LEMMA AsManyPages ==
    ASSUME NEW cells, HalfAPage(cells), OneSize(cells), Len(cells) # 0
    PROVE  Len(distribution(cells).n) \in 1..Len(cells)
<1> DEFINE U == geo.usable_space
           H == geo.usable_space \div 2
           N == Len(cells)
           left == left_biased(cells)
<1>1. SizedCells(cells) /\ U \in Nat
  BY DEF HalfAPage
<1>2. PICK B : Sums(B, cells)
  BY <1>1, SumsExist
<1>3. PICK k, n, s, e :
          /\ k \in Nat /\ k >= 1 /\ Len(left.n) = k /\ Pushed(left, k, n, s) /\ Greedy(k, n, s, e, B, N, U)
          /\ FilledTo(fill_last_pages(cells, left, k), cells, B, k, 1, U, H)
  BY <1>2, LastPagesFit
<1> DEFINE r == fill_last_pages(cells, left, k)
<1>4. distribution(cells) = fill_first_page(r)
  BY <1>3 DEF distribution, balanced
<1>5. N \in Nat /\ N >= 1 /\ B \in [0..N -> Nat] /\ B[0] = 0
      /\ B[1] = B[0] + storage_size(cells[1]) /\ storage_size(cells[1]) <= H
  BY <1>1, <1>2 DEF SizedCells, Sums, HalfAPage
<1>6. B[1] <= U
  <2>1. storage_size(cells[1]) \in Nat
    BY <1>1, <1>5 DEF SizedCells
  <2> QED
    BY <1>1, <1>5, <2>1
<1>7. PICK m, t, v, f : r = Share(m, t, v, TRUE) /\ HalfFrom(k, m, t, f, 1, B, N, U, H)
  BY <1>3 DEF FilledTo
<1> HIDE DEF r, left, U, H
<1>8. m \in [1..k -> Nat]
  BY <1>7 DEF HalfFrom, Parts
<1>9. Len(distribution(cells).n) = k
  <2>1. r.n = m /\ r.ok = TRUE
    BY <1>7 DEF Share
  <2>2. fill_first_page(r).n = m \/ fill_first_page(r).n = [m EXCEPT ![1] = @ + 1, ![2] = @ - 1]
    BY <1>7, <2>1 DEF fill_first_page, Share
  <2>3. Len(m) = k /\ DOMAIN m = 1..k
    BY <1>3, <1>8, LenOf
  <2>4. Len([m EXCEPT ![1] = @ + 1, ![2] = @ - 1]) = k
    BY <1>3, <1>8
  <2> QED
    BY <1>4, <2>2, <2>3, <2>4
<1>10. CASE k = 1
  BY ONLY <1>5, <1>9, <1>10
<1>11. CASE k # 1
  <2>1. /\ e \in [1..(k + 1) -> 0..(N + 1)] /\ e[1] = 0 /\ e[k + 1] = N + 1
        /\ \A a, b \in 1..(k + 1) : a < b => e[a] < e[b]
        /\ \A i \in 1..(k - 1) : B[e[i + 1]] - B[e[i]] > U
    BY <1>3 DEF Greedy, Parts
  <2>2. 1 \in 1..(k - 1) /\ 1 + 1 = 2 /\ 1 \in 1..(k + 1) /\ 2 \in 1..(k + 1) /\ k >= 2 /\ 2 < k + 1
        /\ k + 1 \in 1..(k + 1) /\ 1 < 2
    BY ONLY <1>3, <1>11
  <2>3. B[e[2]] - B[0] > U /\ e[2] \in 0..(N + 1) /\ e[1] < e[2] /\ e[2] < e[k + 1]
    BY <2>1, <2>2
  <2>4. e[2] # 1
    <3>1. SUFFICES ASSUME e[2] = 1 PROVE FALSE
      OBVIOUS
    <3>2. B[1] - B[0] > U
      BY <2>3, <3>1
    <3>3. B[1] \in Nat /\ B[0] = 0
      BY <1>5
    <3> QED
      BY ONLY <1>1, <1>6, <3>2, <3>3
  <2>5. e[2] >= 2
    BY ONLY <1>5, <2>1, <2>3, <2>4
  <2> DEFINE T == {i \in 0..(k - 1) : e[i + 2] >= i + 2}
  <2>6. 0 \in T
    BY <1>3, <2>2, <2>5
  <2>7. ASSUME NEW i \in 1..(k - 1), i - 1 \in T PROVE i \in T
    <3>1. i + 1 \in 1..(k + 1) /\ i + 2 \in 1..(k + 1) /\ i + 1 < i + 2 /\ (i - 1) + 2 = i + 1 /\ i \in 0..(k - 1)
      BY ONLY <1>3, i \in 1..(k - 1)
    <3>2. e[i + 1] < e[i + 2] /\ e[i + 1] \in 0..(N + 1) /\ e[i + 2] \in 0..(N + 1)
      BY <2>1, <3>1
    <3>3. e[i + 1] >= i + 1
      BY <2>7, <3>1
    <3>4. e[i + 2] >= i + 2
      BY ONLY <1>5, <3>2, <3>3, i \in 1..(k - 1)
    <3> QED
      BY <3>1, <3>4
  <2>8. k - 1 \in T
    <3>1. k - 1 \in Nat /\ k - 1 \in 0..(k - 1)
      BY ONLY <2>2, <1>3
    <3> HIDE DEF T
    <3> QED
      BY <2>6, <2>7, <3>1, UpwardClosed
  <2>9. e[k + 1] >= k + 1
    <3>1. (k - 1) + 2 = k + 1
      BY ONLY <1>3
    <3> QED
      BY <2>8, <3>1
  <2> QED
    BY ONLY <1>3, <1>5, <1>9, <2>1, <2>9
<1> QED
  BY <1>10, <1>11

(* Page i gets the cells after from[i], and the cell after those divides   *)
(* it from the next page.                                                  *)
InTurn(d, cells, from) ==
    /\ from \in [1..(Len(d.n) + 1) -> Nat] /\ from[1] = 0 /\ from[Len(d.n) + 1] = Len(cells) + 1
    /\ \A i \in 1..Len(d.n) : from[i + 1] = from[i] + d.n[i] + 1

cells_of(d, cells, from, i) == SubSeq(cells, from[i] + 1, from[i] + d.n[i])

(* No page gets more than it has room for, and those after the second      *)
(* what keeps them from an underflow.                                      *)
Balanced(d, cells, from) ==
    /\ \A i \in 1..Len(d.n) : used_bytes(cells_of(d, cells, from, i)) <= geo.usable_space
    /\ \A i \in 3..Len(d.n) : used_bytes(cells_of(d, cells, from, i)) >= geo.usable_space \div 2

(* The places of the cells of one page.                                    *)
LEMMA PlacesOfPart ==
    ASSUME NEW m \in Nat, NEW k \in Nat, NEW n, NEW e, Parts(k, n, e, m), NEW i \in 1..k
    PROVE  e[i] \in 0..m /\ e[i] + n[i] \in e[i]..m /\ e[i] \in Nat
<1>1. /\ n \in [1..k -> Nat] /\ e \in [1..(k + 1) -> 0..(m + 1)]
      /\ \A j \in 1..k : e[j + 1] = e[j] + n[j] + 1
  BY DEF Parts
<1>2. i \in 1..(k + 1) /\ i + 1 \in 1..(k + 1)
  OBVIOUS
<1>3. n[i] \in Nat /\ e[i] \in 0..(m + 1) /\ e[i + 1] \in 0..(m + 1) /\ e[i + 1] = e[i] + n[i] + 1
  BY <1>1, <1>2
<1> QED
  BY ONLY <1>3, m \in Nat

LEMMA BalancedOf ==
    ASSUME NEW cells, SizedCells(cells), NEW B, Sums(B, cells), NEW d, NEW k, NEW n, NEW s, NEW v, NEW e,
           FitsAs(d, cells, B, k, n, s, v, e, geo.usable_space, geo.usable_space \div 2)
    PROVE  /\ d.ok /\ Len(d.n) = k /\ InTurn(d, cells, e) /\ Balanced(d, cells, e)
           /\ d.n = n /\ n \in [1..k -> Nat] /\ k \in Nat
<1> DEFINE m == Len(cells)
           U == geo.usable_space
           H == geo.usable_space \div 2
<1>1. /\ d = Share(n, s, v, TRUE) /\ k \in Nat /\ k >= 1 /\ Parts(k, n, e, m)
      /\ \A i \in 1..k : B[e[i] + n[i]] - B[e[i]] <= U
      /\ \A i \in 3..k : B[e[i] + n[i]] - B[e[i]] >= H
  BY DEF FitsAs
<1> HIDE DEF U, H
<1>2. m \in Nat
  BY DEF SizedCells
<1> HIDE DEF m
<1>3. /\ n \in [1..k -> Nat] /\ e \in [1..(k + 1) -> 0..(m + 1)] /\ e[1] = 0 /\ e[k + 1] = m + 1
      /\ \A j \in 1..k : e[j + 1] = e[j] + n[j] + 1
  BY <1>1 DEF Parts
<1>4. d.n = n /\ d.ok
  BY <1>1 DEF Share
<1>5. Len(d.n) = k
  BY <1>1, <1>3, <1>4, LenOf
<1>6. e \in [1..(k + 1) -> Nat]
  <2>1. \A x \in 0..(m + 1) : x \in Nat
    BY <1>2
  <2> QED
    BY <1>3, <2>1
<1>7. InTurn(d, cells, e)
  BY <1>3, <1>4, <1>5, <1>6 DEF InTurn, m
<1>8. ASSUME NEW i \in 1..k
      PROVE  used_bytes(cells_of(d, cells, e, i)) = B[e[i] + n[i]] - B[e[i]]
  <2> DEFINE a == e[i]
             b == e[i] + n[i]
  <2>1. a \in 0..Len(cells) /\ b \in a..Len(cells)
    BY <1>1, <1>2, PlacesOfPart DEF m
  <2>2. cells_of(d, cells, e, i) = SubSeq(cells, a + 1, b)
    BY <1>4 DEF cells_of
  <2> HIDE DEF a, b
  <2>3. used_bytes(SubSeq(cells, a + 1, b)) = B[b] - B[a]
    BY <2>1, SumsOfPart
  <2> QED
    BY <2>2, <2>3 DEF a, b
<1>9. \A i \in 1..k : used_bytes(cells_of(d, cells, e, i)) <= U
  BY <1>1, <1>8
<1>10. ASSUME NEW i \in 3..k PROVE used_bytes(cells_of(d, cells, e, i)) >= H
  <2>1. i \in 1..k
    BY ONLY <1>1, i \in 3..k
  <2>2. B[e[i] + n[i]] - B[e[i]] >= H
    BY <1>1
  <2> QED
    BY <1>8, <2>1, <2>2
<1>11. Balanced(d, cells, e)
  BY <1>5, <1>9, <1>10 DEF Balanced, U, H
<1> QED
  BY <1>1, <1>3, <1>4, <1>5, <1>7, <1>11

(* balance() works out how many of the cells of a group of siblings go to  *)
(* each page without counting below zero or reading past the first cell;   *)
(* it shares out all of them in their order, gives no page more than it    *)
(* has room for, and those after the second at least half of it.  So it is *)
(* for cells of at most half a page that are of one size or go to at most  *)
(* two pages.  It is not so for all others: div_cell is not moved when the *)
(* page before the last one is filled.                                     *)
THEOREM PagesGetWhatFits ==
    ASSUME NEW cells, HalfAPage(cells), Plain(cells, Len(left_biased(cells).n))
    PROVE  /\ distribution(cells).ok
           /\ \E from : /\ InTurn(distribution(cells), cells, from)
                        /\ Balanced(distribution(cells), cells, from)
<1> DEFINE d == distribution(cells)
<1>1. SizedCells(cells)
  BY DEF HalfAPage
<1>2. PICK B : Sums(B, cells)
  BY <1>1, SumsExist
<1>3. Fits(d, cells, B, geo.usable_space, geo.usable_space \div 2)
  BY <1>2, DistributionFits DEF Plain
<1> HIDE DEF d
<1>4. PICK k, n, s, v, e :
          FitsAs(d, cells, B, k, n, s, v, e, geo.usable_space, geo.usable_space \div 2)
  BY <1>3 DEF Fits
<1>5. d.ok /\ InTurn(d, cells, e) /\ Balanced(d, cells, e)
  BY <1>1, <1>2, <1>4, BalancedOf
<1> QED
  BY <1>5 DEF d

-----------------------------------------------------------------------------
(* The pages of a group.                                                   *)

(* The cells between the pages, as they go to the parent.                  *)
Dividers(cells, from, new) ==
    [i \in 1..(Len(new) - 1) |-> [cells[from[i + 1]] EXCEPT !.left = new[i]]]

(* What the parent has after the dividers of its last child `hi'.          *)
after_group(parent, hi, last) ==
    LET rest == SubSeq(parent.cells, hi, Len(parent.cells))
    IN  IF rest = <<>> THEN <<>> ELSE <<[Head(rest) EXCEPT !.left = last]>> \o Tail(rest)

(* A group whose pages and parent have what was shared out to them.        *)
AsShared(group, parent, lo, hi, d, cells, from, new) ==
    /\ \A i \in 1..Len(new) : group.pages[i].cells = cells_of(d, cells, from, i)
    /\ group.parent.cells = SubSeq(parent.cells, 1, lo - 1) \o Dividers(cells, from, new)
                            \o after_group(parent, hi, new[Len(new)])

(* They point at the children that the cells did, and the parent at them.  *)
AsPointed(group, pgs, parent, hi, cells, from, new) ==
    /\ \A i \in 1..Len(new) :
          group.pages[i] = Node(group.pages[i].cells,
                                IF i = Len(new) THEN pgs[child(parent, hi)].right
                                ELSE cells[from[i + 1]].left)
    /\ group.parent = Node(group.parent.cells,
                           IF SubSeq(parent.cells, hi, Len(parent.cells)) = <<>> THEN new[Len(new)]
                           ELSE parent.right)

LEMMA RegroupedAsShared ==
    ASSUME NEW pgs, NEW parent, NEW lo, NEW hi, NEW cells, NEW new, NEW d, NEW from,
           InTurn(d, cells, from), Len(new) = Len(d.n), Len(d.n) \in Nat
    PROVE  /\ AsShared(regrouped(pgs, parent, lo, hi, d, cells, new), parent, lo, hi, d, cells, from, new)
           /\ AsPointed(regrouped(pgs, parent, lo, hi, d, cells, new), pgs, parent, hi, cells, from, new)
<1> DEFINE k == Len(new)
           Of(f) == [i \in 1..(k + 1) |-> IF i = 1 THEN 0 ELSE f[i - 1] + d.n[i - 1] + 1]
           before == CHOOSE f : f = Of(f)
           Right(i) == IF i = k THEN pgs[child(parent, hi)].right ELSE cells[before[i + 1]].left
           P == [i \in 1..k |-> Node(SubSeq(cells, before[i] + 1, before[i] + d.n[i]), Right(i))]
<1>1. k \in Nat /\ from \in [1..(k + 1) -> Nat] /\ from[1] = 0
      /\ \A i \in 1..k : from[i + 1] = from[i] + d.n[i] + 1
  BY DEF InTurn
<1>2. regrouped(pgs, parent, lo, hi, d, cells, new).pages = P
  BY DEF regrouped
<1> DEFINE Q == [i \in 1..(k - 1) |-> [cells[before[i + 1]] EXCEPT !.left = new[i]]]
<1>20. regrouped(pgs, parent, lo, hi, d, cells, new).parent.cells
          = SubSeq(parent.cells, 1, lo - 1) \o Q \o after_group(parent, hi, new[k])
  BY DEF regrouped, Node, after_group
<1> DEFINE group == regrouped(pgs, parent, lo, hi, d, cells, new)
<1>21. group.parent = Node(group.parent.cells,
                           IF SubSeq(parent.cells, hi, Len(parent.cells)) = <<>> THEN new[k] ELSE parent.right)
  BY DEF regrouped, Node
<1> HIDE DEF k
<1>3. from = Of(from)
  <2>1. ASSUME NEW i \in 1..(k + 1) PROVE from[i] = IF i = 1 THEN 0 ELSE from[i - 1] + d.n[i - 1] + 1
    <3>1. i # 1 => i - 1 \in 1..k /\ (i - 1) + 1 = i
      BY <1>1
    <3>2. i # 1 => from[i] = from[i - 1] + d.n[i - 1] + 1
      BY <1>1, <3>1
    <3> QED
      BY <1>1, <3>2
  <2>2. from = [i \in 1..(k + 1) |-> from[i]]
    BY <1>1
  <2> QED
    BY <2>1, <2>2
<1>4. before = Of(before)
  <2> HIDE DEF Of
  <2> QED
    BY <1>3
<1> HIDE DEF before
<1>5. \A i \in 1..(k + 1) : before[i] = IF i = 1 THEN 0 ELSE before[i - 1] + d.n[i - 1] + 1
  BY <1>4
<1> DEFINE T == {j \in 0..k : before[j + 1] = from[j + 1]}
<1>6. 0 \in T
  <2>1. 0 \in 0..k /\ 0 + 1 = 1 /\ 1 \in 1..(k + 1)
    BY <1>1
  <2> QED
    BY <1>1, <1>5, <2>1
<1>7. ASSUME NEW j \in 1..k, j - 1 \in T PROVE j \in T
  <2>1. j \in 0..k /\ j + 1 \in 1..(k + 1) /\ j + 1 # 1 /\ (j + 1) - 1 = j /\ (j - 1) + 1 = j
    BY <1>1
  <2>2. before[j + 1] = before[j] + d.n[j] + 1
    BY <1>5, <2>1
  <2>3. before[j] = from[j]
    BY <1>7, <2>1
  <2>4. from[j + 1] = from[j] + d.n[j] + 1
    BY <1>1
  <2> QED
    BY <2>1, <2>2, <2>3, <2>4
<1>8. \A j \in 0..k : j \in T
  <2> HIDE DEF T
  <2> QED
    BY <1>1, <1>6, <1>7, UpwardClosed
<1>9. ASSUME NEW i \in 1..k PROVE P[i].cells = cells_of(d, cells, from, i)
  <2>1. i - 1 \in 0..k /\ (i - 1) + 1 = i
    BY <1>1
  <2>2. before[i] = from[i]
    BY <1>8, <2>1
  <2>3. P[i].cells = SubSeq(cells, before[i] + 1, before[i] + d.n[i])
    BY DEF Node
  <2> QED
    BY <2>2, <2>3 DEF cells_of
<1>10. Q = Dividers(cells, from, new)
  <2>1. \A i \in 1..(k - 1) : before[i + 1] = from[i + 1]
    <3>1. \A i \in 1..(k - 1) : i \in 0..k
      BY <1>1
    <3> QED
      BY <1>8, <3>1
  <2> QED
    BY <2>1 DEF Dividers, k
<1>11. ASSUME NEW i \in 1..k
       PROVE  P[i] = Node(P[i].cells, IF i = k THEN pgs[child(parent, hi)].right ELSE cells[from[i + 1]].left)
  <2>1. P[i] = Node(P[i].cells, Right(i))
    BY DEF Node
  <2>2. before[i + 1] = from[i + 1]
    BY <1>1, <1>8
  <2> HIDE DEF P
  <2> QED
    BY <2>1, <2>2
<1>12. AsShared(group, parent, lo, hi, d, cells, from, new)
  BY <1>2, <1>20, <1>9, <1>10 DEF k, AsShared
<1>13. AsPointed(group, pgs, parent, hi, cells, from, new)
  <2> HIDE DEF group
  <2>1. \A i \in 1..Len(new) : P[i] = Node(P[i].cells, IF i = Len(new) THEN pgs[child(parent, hi)].right
                                                      ELSE cells[from[i + 1]].left)
    BY <1>11 DEF k
  <2>2. group.pages = P
    BY <1>2 DEF group
  <2> HIDE DEF P
  <2> QED
    BY <1>21, <2>1, <2>2 DEF k, AsPointed
<1> QED
  BY <1>12, <1>13

-----------------------------------------------------------------------------
(* The cells of siblings, and the levels of balance().                     *)

(* Trees none of whose cells takes more than half a page, which is what    *)
(* minimum_keys of two or more gives; trees of entries of one length.      *)
HalfPages(g) == \A len \in g.lens : g.header + Min2(len, g.max_payload) <= g.usable_space \div 2
OneLength(g) == \A a, b \in g.lens : Min2(a, g.max_payload) = Min2(b, g.max_payload)

LEMMA CellsOfTheTree ==
    ASSUME geo \in Geometries, HalfPages(geo), NEW cells \in Seq(CellType)
    PROVE  HalfAPage(cells) /\ (OneLength(geo) => OneSize(cells))
<1>1. geo.usable_space \in Nat /\ geo.header \in Nat /\ geo.max_payload \in Nat /\ geo.lens \subseteq Nat
  BY GeometriesAssumption
<1>2. Len(cells) \in Nat /\ cells = [i \in 1..Len(cells) |-> cells[i]]
      /\ \A i \in 1..Len(cells) : cells[i] \in CellType
  OBVIOUS
<1>3. \A i \in 1..Len(cells) : cells[i].len \in geo.lens
  BY <1>2 DEF CellType
<1>4. ASSUME NEW i \in 1..Len(cells)
      PROVE  storage_size(cells[i]) \in Nat /\ storage_size(cells[i]) <= geo.usable_space \div 2
  <2>1. cells[i].len \in geo.lens /\ cells[i].len \in Nat
    BY <1>1, <1>3
  <2>2. geo.header + Min2(cells[i].len, geo.max_payload) <= geo.usable_space \div 2
    BY <2>1 DEF HalfPages
  <2>3. Min2(cells[i].len, geo.max_payload) \in Nat
    BY <1>1, <2>1 DEF Min2
  <2> QED
    BY <1>1, <2>2, <2>3 DEF storage_size
<1>5. HalfAPage(cells)
  BY <1>1, <1>2, <1>4 DEF HalfAPage, SizedCells
<1>6. ASSUME OneLength(geo) PROVE OneSize(cells)
  <2>1. \A a, b \in 1..Len(cells) :
           Min2(cells[a].len, geo.max_payload) = Min2(cells[b].len, geo.max_payload)
    BY <1>3, <1>6 DEF OneLength
  <2> QED
    BY <2>1 DEF OneSize, storage_size
<1> QED
  BY <1>5, <1>6

LEMMA EndsOfRange ==
    ASSUME NEW lo \in Nat, NEW hi \in Nat, lo <= hi
    PROVE  Min(lo..hi) = lo /\ Max(lo..hi) = hi
<1>1. lo \in lo..hi /\ hi \in lo..hi
  OBVIOUS
<1>2. \A x \in lo..hi : lo <= x /\ x <= hi /\ x \in Nat
  OBVIOUS
<1>3. Min(lo..hi) \in lo..hi /\ \A y \in lo..hi : Min(lo..hi) <= y
  BY <1>1, <1>2 DEF Min
<1>4. Max(lo..hi) \in lo..hi /\ \A y \in lo..hi : Max(lo..hi) >= y
  BY <1>1, <1>2 DEF Max
<1> QED
  BY <1>1, <1>2, <1>3, <1>4

(* Slots `lo' to `hi' of a node, whose children are nodes.                 *)
Siblings(pgs, parent, lo, hi) ==
    /\ parent \in NodeType /\ lo \in Nat /\ hi \in Nat /\ 1 <= lo /\ lo <= hi
    /\ hi <= Len(parent.cells) + 1
    /\ \A s \in lo..hi : pgs[child(parent, s)] \in NodeType

(* The cells of one sibling after another, with the dividers.              *)
divider(pgs, parent, s) ==
    [parent.cells[s - 1] EXCEPT !.left = pgs[child(parent, s - 1)].right]

InSlots(f, pgs, parent, lo, hi) ==
    /\ f[lo] = pgs[child(parent, lo)].cells
    /\ \A s \in (lo + 1)..hi :
           f[s] = Append(f[s - 1], divider(pgs, parent, s)) \o pgs[child(parent, s)].cells

LEMMA CellsInSlots ==
    ASSUME NEW pgs, NEW parent, NEW lo, NEW hi, Siblings(pgs, parent, lo, hi)
    PROVE  \E f : /\ InSlots(f, pgs, parent, lo, hi) /\ in_order(pgs, parent, lo..hi) = f[hi]
                  /\ \A s \in lo..hi : f[s] \in Seq(CellType)
<1> DEFINE V == Seq(CellType)
           D == lo..hi
           Page(s) == pgs[child(parent, s)]
           Divider(s) == [parent.cells[s - 1] EXCEPT !.left = Page(s - 1).right]
           Of(f) == [s \in D |-> IF s = Min(D) THEN Page(s).cells
                                 ELSE Append(f[s - 1], Divider(s)) \o Page(s).cells]
           base == [s \in {lo} |-> Page(s).cells]
           next == [s \in (lo + 1)..hi |-> s - 1]
           step == [x \in ((lo + 1)..hi) \X V |->
                       Append(x[2], Divider(x[1])) \o Page(x[1]).cells]
           rank == [s \in D |-> s - lo]
           cells == CHOOSE f : f = Of(f)
<1>1. /\ parent \in NodeType /\ lo \in Nat /\ hi \in Nat /\ 1 <= lo /\ lo <= hi
      /\ hi <= Len(parent.cells) + 1
      /\ \A s \in D : Page(s) \in NodeType
  BY DEF Siblings
<1>2. Min(D) = lo /\ Max(D) = hi
  BY <1>1, EndsOfRange
<1>3. \A s \in D : Page(s).cells \in V /\ Page(s).right \in Nat
  BY <1>1 DEF NodeType
<1>4. ASSUME NEW s \in (lo + 1)..hi PROVE Divider(s) \in CellType
  <2>1. s - 1 \in 1..Len(parent.cells) /\ s - 1 \in D
    <3>1. Len(parent.cells) \in Nat
      BY <1>1 DEF NodeType
    <3> QED
      BY ONLY <1>1, <3>1, s \in (lo + 1)..hi
  <2>2. parent.cells[s - 1] \in CellType
    <3>1. parent.cells \in Seq(CellType)
      BY <1>1 DEF NodeType
    <3> QED
      BY <2>1, <3>1
  <2>3. Page(s - 1).right \in Nat
    BY <1>3, <2>1
  <2> DEFINE c == parent.cells[s - 1]
             r == Page(s - 1).right
  <2>4. c \in CellType /\ r \in Nat
    BY <2>2, <2>3
  <2> HIDE DEF c, r, D, Page
  <2>5. [c EXCEPT !.left = r] \in CellType
    BY <2>4 DEF CellType
  <2> QED
    BY <2>5 DEF c, r
<1>5. \A s \in (lo + 1)..hi : s \in D /\ s # lo /\ s - 1 \in D
  BY <1>1
<1>6. ASSUME NEW s \in (lo + 1)..hi, NEW v \in V PROVE Append(v, Divider(s)) \o Page(s).cells \in V
  <2> DEFINE c == Divider(s)
             t == Page(s).cells
  <2>1. c \in CellType /\ t \in V
    BY <1>3, <1>4, <1>5
  <2> HIDE DEF c, t, Page, Divider, D
  <2>2. Append(v, c) \in V
    BY <2>1
  <2> HIDE DEF V
  <2>3. Append(v, c) \o t \in V
    <3> USE DEF V
    <3> HIDE DEF CellType
    <3> QED
      BY <2>1, <2>2
  <2> QED
    BY <2>3 DEF c, t
<1>7. \E f \in [D -> V] : Recursive(f, D, {lo}, base, next, step)
  <2>1. hi - lo \in Nat /\ rank \in [D -> 0..(hi - lo)]
    BY <1>1
  <2>2. \A s \in D \intersect {lo} : base[s] \in V
    <3>1. lo \in D
      BY <1>1
    <3>2. base[lo] = Page(lo).cells
      OBVIOUS
    <3> HIDE DEF base, Page, V
    <3> QED
      BY <1>3, <3>1, <3>2
  <2>3. ASSUME NEW s \in D \ {lo} PROVE next[s] \in D /\ rank[next[s]] < rank[s]
    <3>1. s \in (lo + 1)..hi /\ s - 1 \in D
      BY <1>1
    <3>2. next[s] = s - 1 /\ rank[s] = s - lo /\ rank[s - 1] = (s - 1) - lo
      BY <3>1
    <3> HIDE DEF next, rank
    <3> QED
      BY ONLY <1>1, <3>1, <3>2
  <2>4. ASSUME NEW s \in D \ {lo}, NEW v \in V PROVE step[<<s, v>>] \in V
    <3>1. s \in (lo + 1)..hi
      BY <1>1
    <3>2. step[<<s, v>>] = Append(v, Divider(s)) \o Page(s).cells
      BY <3>1
    <3>3. Append(v, Divider(s)) \o Page(s).cells \in V
      BY <1>6, <3>1
    <3> HIDE DEF step, V
    <3> QED
      BY <3>2, <3>3
  <2>5. Page(lo).cells \in V
    BY <1>1, <1>3
  <2> DEFINE v0 == Page(lo).cells
             N == hi - lo
  <2>6. v0 \in V /\ N \in Nat /\ rank \in [D -> 0..N]
    BY <2>1, <2>5
  <2> HIDE DEF base, next, step, rank, V, D, v0, N
  <2> QED
    BY <2>2, <2>3, <2>4, <2>6, RecursionExists
<1>8. PICK f \in [D -> V] : Recursive(f, D, {lo}, base, next, step)
  BY <1>7
<1>9. f = Of(f)
  <2>1. f = [s \in D |-> f[s]]
    OBVIOUS
  <2>2. ASSUME NEW s \in D
        PROVE  f[s] = IF s = Min(D) THEN Page(s).cells
                      ELSE Append(f[s - 1], Divider(s)) \o Page(s).cells
    <3>0. f[s] = IF s \in {lo} THEN base[s] ELSE step[<<s, f[next[s]]>>]
      <4> HIDE DEF base, next, step, V
      <4> QED
        BY <1>8 DEF Recursive
    <3>1. CASE s = lo
      <4>1. base[s] = Page(s).cells
        BY <3>1
      <4> HIDE DEF base, next, step, V, Page
      <4> QED
        BY <1>2, <3>0, <3>1, <4>1
    <3>2. CASE s # lo
      <4>1. s \in (lo + 1)..hi /\ s - 1 \in D
        BY <1>1, <3>2
      <4>2. next[s] = s - 1
        BY <4>1
      <4>3. f[s - 1] \in V
        <5> HIDE DEF V
        <5> QED
          BY <4>1
      <4>4. step[<<s, f[s - 1]>>] = Append(f[s - 1], Divider(s)) \o Page(s).cells
        <5> DEFINE v == f[s - 1]
        <5>1. v \in V
          BY <4>3
        <5> HIDE DEF v, V
        <5>2. step[<<s, v>>] = Append(v, Divider(s)) \o Page(s).cells
          BY <4>1, <5>1
        <5> QED
          BY <5>2 DEF v
      <4> HIDE DEF base, next, step, V, Page, Divider
      <4> QED
        BY <1>2, <3>0, <3>2, <4>2, <4>4
    <3> QED
      BY <3>1, <3>2
  <2> HIDE DEF V, base, next, step, Page, Divider
  <2> QED
    BY <2>1, <2>2
<1>10. cells = Of(cells)
  <2> HIDE DEF Of
  <2> QED
    BY <1>9
<1>11. in_order(pgs, parent, lo..hi) = cells[hi]
  <2>1. in_order(pgs, parent, lo..hi) = cells[Max(D)]
    BY DEF in_order
  <2> HIDE DEF cells, D
  <2> QED
    BY <1>2, <2>1
<1> HIDE DEF cells
<1>12. \A s \in D : cells[s] = IF s = Min(D) THEN Page(s).cells
                               ELSE Append(cells[s - 1], Divider(s)) \o Page(s).cells
  <2> HIDE DEF Page, Divider
  <2> QED
    BY <1>10
<1> DEFINE N == hi - lo
           T == {x \in 0..N : cells[lo + x] \in V}
<1>13. N \in Nat
  BY <1>1
<1>14. 0 \in T
  <2>1. lo + 0 = lo /\ lo \in D /\ 0 \in 0..N
    BY <1>1
  <2>2. cells[lo] = Page(lo).cells
    BY <1>2, <1>12, <2>1
  <2> HIDE DEF Page, Divider, V, D, N
  <2> QED
    BY <1>3, <2>1, <2>2
<1>15. ASSUME NEW x \in 1..N, x - 1 \in T PROVE x \in T
  <2> DEFINE s == lo + x
  <2>1. s \in (lo + 1)..hi /\ s \in D /\ s # lo /\ lo + (x - 1) = s - 1 /\ x \in 0..N
    BY <1>1
  <2> HIDE DEF s
  <2>2. cells[s - 1] \in V
    BY <1>15, <2>1
  <2> HIDE DEF Page, Divider, V, D, N
  <2>3. cells[s] = Append(cells[s - 1], Divider(s)) \o Page(s).cells
    BY <1>2, <1>12, <2>1
  <2>4. cells[s] \in V
    BY <1>6, <2>1, <2>2, <2>3
  <2> QED
    BY <2>1, <2>4 DEF s
<1>16. \A x \in 0..N : x \in T
  <2> HIDE DEF T, N
  <2> QED
    BY <1>13, <1>14, <1>15, UpwardClosed
<1>17. ASSUME NEW s \in D PROVE cells[s] \in V
  <2>1. s - lo \in 0..N /\ lo + (s - lo) = s
    BY <1>1
  <2>2. s - lo \in T
    BY <1>16, <2>1
  <2>3. cells[lo + (s - lo)] \in V
    BY <2>2
  <2> QED
    BY <2>1, <2>3
<1>18. InSlots(cells, pgs, parent, lo, hi)
  <2>1. cells[lo] = Page(lo).cells
    <3>1. lo \in D
      BY <1>1
    <3> HIDE DEF Page, Divider, D
    <3> QED
      BY <1>2, <1>12, <3>1
  <2>2. \A s \in (lo + 1)..hi : cells[s] = Append(cells[s - 1], Divider(s)) \o Page(s).cells
    <3> HIDE DEF Page, Divider, D
    <3> QED
      BY <1>2, <1>5, <1>12
  <2> QED
    BY <2>1, <2>2 DEF InSlots, divider
<1> HIDE DEF V
<1> QED
  BY <1>11, <1>17, <1>18 DEF V

LEMMA SiblingsHaveCells ==
    ASSUME NEW pgs, NEW parent, NEW lo, NEW hi, Siblings(pgs, parent, lo, hi)
    PROVE  in_order(pgs, parent, lo..hi) \in Seq(CellType)
<1>1. hi \in lo..hi
  BY DEF Siblings
<1> QED
  BY <1>1, CellsInSlots

-----------------------------------------------------------------------------
(* The order of a heap.                                                    *)

OneToOne(f, n) == \A i, j \in 1..n : f[i] = f[j] => i = j

(* Two arrays of n numbers with the same numbers.                          *)
SameNumbers(h, g, n) ==
    /\ h \in [1..n -> Nat] /\ g \in [1..n -> Nat]
    /\ \A i \in 1..n : (\E j \in 1..n : g[j] = h[i]) /\ (\E j \in 1..n : h[j] = g[i])
    /\ OneToOne(g, n) => OneToOne(h, n)

Exchanged(h, g, n, a, b) ==
    /\ h \in [1..n -> Nat] /\ h[a] = g[b] /\ h[b] = g[a]
    /\ \A i \in 1..n : i # a /\ i # b => h[i] = g[i]

LEMMA ExchangeKeeps ==
    ASSUME NEW n, NEW f, NEW g, SameNumbers(g, f, n), NEW a \in 1..n, NEW b \in 1..n,
           NEW h, Exchanged(h, g, n, a, b)
    PROVE  SameNumbers(h, f, n)
<1>1. /\ f \in [1..n -> Nat]
      /\ \A i \in 1..n : (\E j \in 1..n : f[j] = g[i]) /\ (\E j \in 1..n : g[j] = f[i])
  BY DEF SameNumbers
<1>2. /\ h \in [1..n -> Nat] /\ h[a] = g[b] /\ h[b] = g[a]
      /\ \A i \in 1..n : i # a /\ i # b => h[i] = g[i]
  BY DEF Exchanged
<1>3. ASSUME NEW i \in 1..n PROVE \E j \in 1..n : f[j] = h[i]
  <2>1. \E m \in 1..n : h[i] = g[m]
    BY <1>2
  <2> QED
    BY <1>1, <2>1
<1>4. ASSUME NEW i \in 1..n PROVE \E j \in 1..n : h[j] = f[i]
  <2>1. PICK m \in 1..n : g[m] = f[i]
    BY <1>1
  <2>2. \E j \in 1..n : h[j] = g[m]
    BY <1>2
  <2> QED
    BY <2>1, <2>2
<1>5. OneToOne(f, n) => OneToOne(h, n)
  <2>1. OneToOne(g, n) => OneToOne(h, n)
    BY <1>2 DEF OneToOne
  <2> QED
    BY <2>1 DEF SameNumbers
<1> QED
  BY <1>1, <1>2, <1>3, <1>4, <1>5 DEF SameNumbers

Heaps(ids, n) == {h \in [1..n -> Nat] : SameNumbers(h, ids, n)}
Sifting(ids, n) == [heap : Heaps(ids, n), at : 1..n]

LEMMA SiftKeeps ==
    ASSUME NEW n \in Nat, NEW ids, NEW c \in Sifting(ids, n)
    PROVE  sift_once(c) \in Sifting(ids, n)
<1> DEFINE g == c.heap
           i == c.at
           kids == {2 * i, 2 * i + 1} \intersect (1..Len(g))
           least == CHOOSE j \in kids : \A m \in kids : g[j] <= g[m]
           h == [g EXCEPT ![i] = g[least], ![least] = g[i]]
<1>1. g \in [1..n -> Nat] /\ SameNumbers(g, ids, n) /\ i \in 1..n
  BY DEF Sifting, Heaps
<1>2. Len(g) = n
  BY <1>1, LenOf
<1>3. CASE kids = {} \/ g[i] <= g[least]
  <2>1. sift_once(c) = c
    BY <1>3 DEF sift_once
  <2> QED
    BY <2>1
<1>4. CASE ~(kids = {} \/ g[i] <= g[least])
  <2>1. sift_once(c) = [heap |-> h, at |-> least]
    BY <1>4 DEF sift_once
  <2>2. \E j \in kids : \A m \in kids : g[j] <= g[m]
    <3> DEFINE K == kids
    <3>1. K \subseteq {2 * i, 2 * i + 1} /\ K # {} /\ K \subseteq 1..n
      BY <1>2, <1>4
    <3> HIDE DEF K, g, i
    <3>2. \A m \in K : g[m] \in Nat
      BY <1>1, <3>1
    <3>3. PICK a, b : K \subseteq {a, b}
      BY <3>1
    <3>4. \E j \in K : \A m \in K : g[j] <= g[m]
      <4>1. CASE a \in K /\ b \in K
        <5>1. g[a] \in Nat /\ g[b] \in Nat
          BY <3>2, <4>1
        <5>2. g[a] <= g[a] /\ g[b] <= g[b] /\ (g[a] <= g[b] \/ g[b] <= g[a])
          BY ONLY <5>1
        <5>3. \A m \in K : m = a \/ m = b
          BY <3>3
        <5> QED
          BY <4>1, <5>2, <5>3
      <4>2. CASE ~(a \in K /\ b \in K)
        <5>1. PICK x \in K : TRUE
          BY <3>1
        <5>2. \A m \in K : m = x
          BY <3>3, <4>2
        <5>3. g[x] <= g[x]
          BY <3>2
        <5> QED
          BY <5>2, <5>3
      <4> QED
        BY <4>1, <4>2
    <3> QED
      BY <3>4 DEF K
  <2> HIDE DEF kids, g, i
  <2>3. least \in kids
    BY <2>2
  <2>4. least \in 1..n
    BY <1>2, <2>3 DEF kids
  <2> HIDE DEF least
  <2>5. Exchanged(h, g, n, i, least)
    <3>1. g[least] \in Nat /\ g[i] \in Nat
      BY <1>1, <2>4
    <3>2. h \in [1..n -> Nat]
      BY <1>1, <3>1
    <3>3. h[least] = g[i] /\ \A m \in 1..n : m # i /\ m # least => h[m] = g[m]
      BY <1>1, <2>4
    <3>4. h[i] = g[least]
      BY <1>1, <2>4
    <3> HIDE DEF h
    <3> QED
      BY <3>2, <3>3, <3>4 DEF Exchanged
  <2> HIDE DEF h
  <2>6. SameNumbers(h, ids, n)
    BY <1>1, <2>4, <2>5, ExchangeKeeps
  <2>7. h \in Heaps(ids, n)
    BY <2>6 DEF Heaps, SameNumbers
  <2> QED
    BY <2>1, <2>4, <2>7 DEF Sifting
<1> QED
  BY <1>3, <1>4

LEMMA SiftDownKeeps ==
    ASSUME NEW n \in Nat, NEW ids, NEW h \in Heaps(ids, n), NEW at \in 1..n
    PROVE  sift_down(h, at) \in Heaps(ids, n)
<1> DEFINE V == Sifting(ids, n)
           first == [heap |-> h, at |-> at]
           Of(f) == [m \in 0..Len(h) |-> IF m = 0 THEN [heap |-> h, at |-> at] ELSE sift_once(f[m - 1])]
           step == [x \in (1..n) \X V |-> sift_once(x[2])]
           down == CHOOSE f : f = Of(f)
<1>1. Len(h) = n
  <2>1. h \in [1..n -> Nat]
    BY DEF Heaps
  <2> QED
    BY <2>1, LenOf
<1>2. first \in V
  BY DEF Sifting
<1>3. \A m \in 1..n, v \in V : step[<<m, v>>] = sift_once(v)
  OBVIOUS
<1>4. ASSUME NEW m \in 1..n, NEW v \in V PROVE step[<<m, v>>] \in V
  <2>1. sift_once(v) \in V
    BY SiftKeeps
  <2> HIDE DEF step, V
  <2> QED
    BY <1>3, <2>1
<1>5. PICK f : Iterates(f, n, V, first, step)
  <2> HIDE DEF step, V, first
  <2> QED
    BY <1>2, <1>4, IterationExists
<1>6. f \in [0..n -> V] /\ f[0] = first /\ \A m \in 1..n : f[m] = step[<<m, f[m - 1]>>]
  BY <1>5 DEF Iterates
<1>7. f = Of(f)
  <2>1. f = [m \in 0..n |-> f[m]]
    BY <1>6
  <2>2. ASSUME NEW m \in 0..n PROVE f[m] = IF m = 0 THEN [heap |-> h, at |-> at] ELSE sift_once(f[m - 1])
    <3>1. m # 0 => m \in 1..n /\ m - 1 \in 0..n
      OBVIOUS
    <3> HIDE DEF V, step
    <3>2. m # 0 => f[m - 1] \in V
      BY <1>6, <3>1
    <3> QED
      BY <1>3, <1>6, <3>1, <3>2
  <2> HIDE DEF V, step
  <2> QED
    BY <1>1, <2>1, <2>2
<1>8. down = Of(down)
  <2> HIDE DEF Of
  <2> QED
    BY <1>7
<1>9. sift_down(h, at) = down[n].heap
  <2>1. sift_down(h, at) = down[Len(h)].heap
    BY DEF sift_down
  <2> HIDE DEF down
  <2> QED
    BY <1>1, <2>1
<1> HIDE DEF down
<1>10. down[0] = first /\ \A m \in 1..n : down[m] = sift_once(down[m - 1])
  <2>1. 0 \in 0..n /\ \A m \in 1..n : m \in 0..n /\ m # 0
    OBVIOUS
  <2> HIDE DEF V, step
  <2> QED
    BY <1>1, <1>8, <2>1
<1> DEFINE T == {m \in 0..n : down[m] \in V}
<1>11. n \in T
  <2> HIDE DEF V, step, Of, first
  <2>1. 0 \in T
    BY <1>2, <1>10
  <2>2. ASSUME NEW m \in 1..n, m - 1 \in T PROVE m \in T
    <3>1. down[m - 1] \in V /\ m \in 0..n
      BY <2>2
    <3>2. sift_once(down[m - 1]) \in V
      BY <3>1, SiftKeeps DEF V
    <3> QED
      BY <1>10, <3>1, <3>2
  <2> HIDE DEF T
  <2>3. \A m \in 0..n : m \in T
    BY <2>1, <2>2, UpwardClosed
  <2> QED
    BY <2>3
<1>12. down[n] \in V
  BY <1>11
<1> QED
  BY <1>9, <1>12 DEF Sifting

(* A heap has the numbers it is made from.                                 *)
LEMMA HeapOrderKeeps ==
    ASSUME NEW n \in Nat, NEW ids \in [1..n -> Nat]
    PROVE  heap_order(ids) \in [1..n -> Nat] /\ SameNumbers(heap_order(ids), ids, n)
<1> DEFINE V == Heaps(ids, n)
           half == Len(ids) \div 2
           q == n \div 2
           Of(f) == [m \in 0..half |-> IF m = 0 THEN ids ELSE sift_down(f[m - 1], half + 1 - m)]
           step == [x \in (1..q) \X V |-> sift_down(x[2], q + 1 - x[1])]
           heap == CHOOSE f : f = Of(f)
<1>1. Len(ids) = n /\ half = q
  BY LenOf
<1>2. q \in Nat /\ \A m \in 1..q : q + 1 - m \in 1..n
  <2>1. q \in Nat /\ q <= n
    OBVIOUS
  <2> HIDE DEF q
  <2> QED
    BY <2>1
<1>3. ids \in V
  BY DEF Heaps, SameNumbers
<1> HIDE DEF q
<1>4. \A m \in 1..q, v \in V : step[<<m, v>>] = sift_down(v, q + 1 - m)
  OBVIOUS
<1>5. ASSUME NEW m \in 1..q, NEW v \in V PROVE sift_down(v, q + 1 - m) \in V
  <2> DEFINE at == q + 1 - m
  <2>1. at \in 1..n
    BY <1>2
  <2> HIDE DEF at
  <2>2. sift_down(v, at) \in V
    BY <2>1, SiftDownKeeps
  <2> QED
    BY <2>2 DEF at
<1>6. ASSUME NEW m \in 1..q, NEW v \in V PROVE step[<<m, v>>] \in V
  <2> HIDE DEF step, V
  <2> QED
    BY <1>4, <1>5
<1>7. PICK f : Iterates(f, q, V, ids, step)
  <2> HIDE DEF step, V
  <2> QED
    BY <1>2, <1>3, <1>6, IterationExists
<1>8. f \in [0..q -> V] /\ f[0] = ids /\ \A m \in 1..q : f[m] = step[<<m, f[m - 1]>>]
  BY <1>7 DEF Iterates
<1>9. f = Of(f)
  <2>1. f = [m \in 0..q |-> f[m]]
    BY <1>8
  <2>2. ASSUME NEW m \in 0..q PROVE f[m] = IF m = 0 THEN ids ELSE sift_down(f[m - 1], half + 1 - m)
    <3>1. m # 0 => m \in 1..q /\ m - 1 \in 0..q
      BY <1>2
    <3> HIDE DEF V, step, half
    <3>2. m # 0 => f[m - 1] \in V
      BY <1>8, <3>1
    <3> QED
      BY <1>1, <1>4, <1>8, <3>1, <3>2
  <2> HIDE DEF V, step, half
  <2> QED
    BY <1>1, <2>1, <2>2
<1>10. heap = Of(heap)
  <2> HIDE DEF Of
  <2> QED
    BY <1>9
<1>11. heap_order(ids) = heap[q]
  <2>1. heap_order(ids) = heap[half]
    BY DEF heap_order
  <2> HIDE DEF heap, half
  <2> QED
    BY <1>1, <2>1
<1> HIDE DEF heap
<1>12. heap[0] = ids /\ \A m \in 1..q : heap[m] = sift_down(heap[m - 1], q + 1 - m)
  <2>1. 0 \in 0..q /\ \A m \in 1..q : m \in 0..q /\ m # 0
    BY <1>2
  <2> HIDE DEF V, step, half
  <2> QED
    BY <1>1, <1>10, <2>1
<1> DEFINE T == {m \in 0..q : heap[m] \in V}
<1>13. q \in T
  <2> HIDE DEF V, step, Of
  <2>1. 0 \in T
    BY <1>2, <1>3, <1>12
  <2>2. ASSUME NEW m \in 1..q, m - 1 \in T PROVE m \in T
    <3>1. heap[m - 1] \in V /\ m \in 0..q
      BY <1>2, <2>2
    <3>2. sift_down(heap[m - 1], q + 1 - m) \in V
      BY <1>5, <3>1
    <3> QED
      BY <1>12, <3>1, <3>2
  <2> HIDE DEF T
  <2>3. \A m \in 0..q : m \in T
    BY <1>2, <2>1, <2>2, UpwardClosed
  <2> QED
    BY <1>2, <2>3
<1> QED
  BY <1>11, <1>13 DEF Heaps

-----------------------------------------------------------------------------
(* The pages of the pager.                                                 *)

HasRanks(S) ==
    \A i \in 1..Cardinality(S) : \E x \in S : Cardinality({y \in S : y < x}) = i - 1

LEMMA NumbersHaveRanks ==
    ASSUME NEW K \in Nat
    PROVE  \A S \in SUBSET (1..K) : HasRanks(S)
<1> DEFINE T == {m \in 0..K : \A S \in SUBSET (1..m) : HasRanks(S)}
<1>1. 0 \in T
  <2>1. \A S \in SUBSET (1..0) : S = {}
    OBVIOUS
  <2>2. HasRanks({})
    <3>1. Cardinality({}) = 0 /\ 1..0 = {}
      BY FS_EmptySet
    <3> QED
      BY <3>1 DEF HasRanks
  <2>3. ASSUME NEW S \in SUBSET (1..0) PROVE HasRanks(S)
    <3>1. S = {}
      BY <2>1
    <3> QED
      BY <2>2, <3>1
  <2>4. 0 \in 0..K
    OBVIOUS
  <2> QED
    BY <2>3, <2>4
<1>2. ASSUME NEW m \in 1..K, m - 1 \in T PROVE m \in T
  <2>1. ASSUME NEW S \in SUBSET (1..m), m \notin S PROVE HasRanks(S)
    <3>1. S \in SUBSET (1..(m - 1))
      BY <2>1
    <3> QED
      BY <1>2, <3>1
  <2>2. ASSUME NEW S \in SUBSET (1..m), m \in S PROVE HasRanks(S)
    <3> DEFINE R == S \ {m}
    <3>1. R \in SUBSET (1..(m - 1))
      OBVIOUS
    <3>2. HasRanks(R)
      BY <1>2, <3>1
    <3>3. IsFiniteSet(S)
      <4>1. m \in Int /\ 1 \in Int
        OBVIOUS
      <4>2. IsFiniteSet(1..m)
        BY <4>1, FS_Interval
      <4> QED
        BY <4>2, FS_Subset
    <3>4. IsFiniteSet(R) /\ Cardinality(R) = Cardinality(S) - 1
      BY <2>2, <3>3, FS_RemoveElement
    <3>5. Cardinality(S) \in Nat
      BY <3>3, FS_CardinalityType
    <3>6. R = {y \in S : y < m}
      <4>1. \A y \in S : y \in 1..m
        OBVIOUS
      <4>2. \A y \in 1..m : y # m <=> y < m
        OBVIOUS
      <4> QED
        BY <4>1, <4>2
    <3>7. ASSUME NEW x \in R PROVE {y \in S : y < x} = {y \in R : y < x}
      OBVIOUS
    <3> HIDE DEF R
    <3>8. ASSUME NEW i \in 1..Cardinality(S)
          PROVE  \E x \in S : Cardinality({y \in S : y < x}) = i - 1
      <4>1. CASE i = Cardinality(S)
        BY <2>2, <3>4, <3>6, <4>1
      <4>2. CASE i # Cardinality(S)
        <5>1. i \in 1..Cardinality(R)
          BY ONLY <3>4, <3>5, <4>2, i \in 1..Cardinality(S)
        <5>2. PICK x \in R : Cardinality({y \in R : y < x}) = i - 1
          BY <3>2, <5>1 DEF HasRanks
        <5>3. Cardinality({y \in S : y < x}) = i - 1
          BY <3>7, <5>2
        <5>4. x \in S
          BY <5>2 DEF R
        <5> QED
          BY <5>3, <5>4
      <4> QED
        BY <4>1, <4>2
    <3> QED
      BY <3>8 DEF HasRanks
  <2>3. m \in 0..K
    OBVIOUS
  <2> QED
    BY <2>1, <2>2, <2>3
<1> HIDE DEF T
<1>3. \A m \in 0..K : m \in T
  BY <1>1, <1>2, UpwardClosed
<1> QED
  BY <1>3 DEF T

(* The pager hands out as many pages as it is asked for, none of them in   *)
(* use.                                                                    *)
LEMMA NextPagesAreFree ==
    ASSUME NEW pgs, IsFiniteSet(DOMAIN pgs), NEW n \in Nat
    PROVE  /\ next_pages(pgs, n) \in [1..n -> Nat]
           /\ \A i \in 1..n : next_pages(pgs, n)[i] \notin DOMAIN pgs \union {0}
           /\ OneToOne(next_pages(pgs, n), n)
<1> DEFINE D == DOMAIN pgs
           c == Cardinality(D)
           A == 1..(c + n)
           S == A \ D
           a == ascending(S)
<1>1. c \in Nat
  BY FS_CardinalityType
<1>2. IsFiniteSet(A) /\ Cardinality(A) = c + n
  <2> HIDE DEF c
  <2>1. 1 \in Int /\ c + n \in Int
    BY <1>1
  <2>2. IsFiniteSet(A) /\ Cardinality(A) = IF 1 > c + n THEN 0 ELSE (c + n) - 1 + 1
    BY <2>1, FS_Interval
  <2> QED
    BY <1>1, <2>2
<1>3. IsFiniteSet(S) /\ IsFiniteSet(A \intersect D) /\ Cardinality(A \intersect D) <= c
  <2> HIDE DEF D, A
  <2>1. S \in SUBSET A /\ A \intersect D \in SUBSET A /\ A \intersect D \in SUBSET D
    OBVIOUS
  <2>2. IsFiniteSet(D)
    BY DEF D
  <2> QED
    BY <1>2, <2>1, <2>2, FS_Subset
<1>4. Cardinality(S) \in Nat /\ Cardinality(A \intersect D) \in Nat
  BY <1>3, FS_CardinalityType
<1>5. Cardinality(A) = Cardinality(S) + Cardinality(A \intersect D)
  <2> DEFINE I == A \intersect D
  <2>1. S \union I = A /\ S \intersect I = {}
    OBVIOUS
  <2>2. Cardinality(S \union I) = Cardinality(S) + Cardinality(I) - Cardinality(S \intersect I)
    <3> HIDE DEF S, I
    <3>1. IsFiniteSet(S) /\ IsFiniteSet(I)
      BY <1>3 DEF I
    <3> QED
      BY <3>1, FS_Union
  <2>3. Cardinality({}) = 0
    BY FS_EmptySet
  <2>4. Cardinality(S \union I) = Cardinality(A) /\ Cardinality(S \intersect I) = 0
    <3> HIDE DEF S, A, D, I
    <3> QED
      BY <2>1, <2>3
  <2>5. Cardinality(A) = Cardinality(S) + Cardinality(I) - 0
    BY <2>2, <2>4
  <2> HIDE DEF S, A, D
  <2> QED
    BY ONLY <1>4, <2>5
<1>6. Cardinality(S) >= n
  <2> HIDE DEF S, A, D, c
  <2> QED
    BY ONLY <1>1, <1>2, <1>3, <1>4, <1>5, n \in Nat
<1>7. HasRanks(S)
  <2>1. c + n \in Nat /\ S \in SUBSET (1..(c + n))
    <3> HIDE DEF c
    <3> QED
      BY <1>1
  <2> HIDE DEF S, c
  <2> QED
    BY <2>1, NumbersHaveRanks
<1>8. \A x \in S : x \in Nat /\ x \notin D /\ x # 0
  <2> HIDE DEF c
  <2> QED
    BY <1>1
<1> HIDE DEF S, A, c, D
<1>9. \A i \in 1..Cardinality(S) : a[i] \in S /\ Cardinality({y \in S : y < a[i]}) = i - 1
  <2>1. a = [i \in 1..Cardinality(S) |-> CHOOSE x \in S : Cardinality({y \in S : y < x}) = i - 1]
    BY DEF ascending
  <2> HIDE DEF a
  <2> QED
    BY <1>7, <2>1 DEF HasRanks
<1>10. next_pages(pgs, n) = SubSeq(a, 1, n)
  BY DEF next_pages, S, A, c, D
<1>11. a \in [1..Cardinality(S) -> S]
  <2> DEFINE E(i) == CHOOSE x \in S : Cardinality({y \in S : y < x}) = i - 1
  <2>1. a = [i \in 1..Cardinality(S) |-> E(i)]
    BY DEF ascending
  <2> HIDE DEF a, E
  <2>2. \A i \in 1..Cardinality(S) : E(i) \in S
    BY <1>9, <2>1
  <2> QED
    BY <2>1, <2>2
<1> HIDE DEF a
<1>12. a \in Seq(S) /\ Len(a) = Cardinality(S)
  BY <1>4, <1>11
<1>13. SubSeq(a, 1, n) = [i \in 1..n |-> a[i]]
  BY <1>4, <1>6, <1>12
<1>14. ASSUME NEW i \in 1..n PROVE a[i] \in Nat /\ a[i] \notin D /\ a[i] # 0
  <2>1. i \in 1..Cardinality(S)
    BY ONLY <1>4, <1>6, n \in Nat, i \in 1..n
  <2> QED
    BY <1>8, <1>9, <2>1
<1>15. ASSUME NEW i \in 1..n, NEW j \in 1..n, a[i] = a[j] PROVE i = j
  <2>1. i \in 1..Cardinality(S) /\ j \in 1..Cardinality(S)
    BY ONLY <1>4, <1>6, n \in Nat, i \in 1..n, j \in 1..n
  <2>2. i - 1 = j - 1
    BY <1>9, <1>15, <2>1
  <2> QED
    BY ONLY <2>2, i \in 1..n, j \in 1..n
<1> QED
  BY <1>10, <1>13, <1>14, <1>15 DEF D, OneToOne

(* As many pages as are asked for: of those of the siblings, and new ones. *)
LEMMA SiblingPagesAre ==
    ASSUME NEW pgs, IsFiniteSet(DOMAIN pgs), NEW q \in Nat, NEW old \in [1..q -> Nat], NEW n \in Nat
    PROVE  /\ sibling_pages(pgs, old, n) \in [1..n -> Nat]
           /\ \A i \in 1..n : \/ \E j \in 1..q : sibling_pages(pgs, old, n)[i] = old[j]
                              \/ sibling_pages(pgs, old, n)[i] \notin DOMAIN pgs \union {0}
           /\ OneToOne(old, q) /\ (\A j \in 1..q : old[j] \in DOMAIN pgs)
              => OneToOne(sibling_pages(pgs, old, n), n)
<1> DEFINE fresh == next_pages(pgs, n - Len(old))
           ids == IF n <= Len(old) THEN SubSeq(old, 1, n) ELSE old \o fresh
           new == heap_order(ids)
<1>1. Len(old) = q /\ old \in Seq(Nat)
  BY LenOf
<1>2. sibling_pages(pgs, old, n) = new
  BY DEF sibling_pages
<1>3. /\ ids \in [1..n -> Nat]
      /\ (\A i \in 1..n : (\E j \in 1..q : ids[i] = old[j]) \/ ids[i] \notin DOMAIN pgs \union {0})
      /\ OneToOne(old, q) /\ (\A j \in 1..q : old[j] \in DOMAIN pgs) => OneToOne(ids, n)
  <2>1. CASE n <= q
    <3>1. ids = [i \in 1..n |-> old[i]]
      <4>1. ids = SubSeq(old, 1, n)
        BY <1>1, <2>1
      <4>2. SubSeq(old, 1, n) = [i \in 1..n |-> old[i]]
        BY <1>1, <2>1
      <4> HIDE DEF ids
      <4> QED
        BY <4>1, <4>2
    <3>2. \A i \in 1..n : i \in 1..q
      BY <2>1
    <3> HIDE DEF ids
    <3>3. OneToOne(old, q) => OneToOne(ids, n)
      BY <3>1, <3>2 DEF OneToOne
    <3> QED
      BY <3>1, <3>2, <3>3
  <2>2. CASE ~(n <= q)
    <3> DEFINE m == n - q
               g == next_pages(pgs, m)
    <3>1. m \in Nat /\ q + m = n
      BY <2>2
    <3>2. ids = old \o g
      BY <1>1, <2>2
    <3> HIDE DEF m, ids
    <3>3. g \in [1..m -> Nat] /\ (\A i \in 1..m : g[i] \notin DOMAIN pgs \union {0}) /\ OneToOne(g, m)
      BY <3>1, NextPagesAreFree
    <3> HIDE DEF g
    <3>4. g \in Seq(Nat) /\ Len(g) = m
      BY <3>1, <3>3, LenOf
    <3>5. old \o g \in Seq(Nat) /\ Len(old \o g) = n
      <4>1. old \o g \in Seq(Nat)
        BY <1>1, <3>4
      <4>2. Len(old \o g) = Len(old) + Len(g)
        BY <1>1, <3>4
      <4> QED
        BY <1>1, <3>1, <3>4, <4>1, <4>2
    <3>6. \A i \in 1..q : (old \o g)[i] = old[i]
      BY <1>1, <3>4
    <3>7. \A i \in 1..n : i \notin 1..q => i - q \in 1..m /\ (old \o g)[i] = g[i - q]
      BY <1>1, <3>1, <3>4
    <3>8. ids \in [1..n -> Nat]
      BY <3>2, <3>5, SequencesAreFunctions
    <3>9. OneToOne(old, q) /\ (\A j \in 1..q : old[j] \in DOMAIN pgs) => OneToOne(ids, n)
      <4>1. SUFFICES ASSUME OneToOne(old, q), \A j \in 1..q : old[j] \in DOMAIN pgs,
                            NEW i \in 1..n, NEW j \in 1..n, ids[i] = ids[j]
                     PROVE  i = j
        BY DEF OneToOne
      <4>2. ids[i] = IF i \in 1..q THEN old[i] ELSE g[i - q]
        BY <3>2, <3>6, <3>7
      <4>3. ids[j] = IF j \in 1..q THEN old[j] ELSE g[j - q]
        BY <3>2, <3>6, <3>7
      <4>4. (i \notin 1..q => i - q \in 1..m) /\ (j \notin 1..q => j - q \in 1..m)
        BY <3>7
      <4>5. i \in 1..q <=> j \in 1..q
        BY <3>3, <4>1, <4>2, <4>3, <4>4
      <4>6. i \in 1..q => i = j
        BY <4>1, <4>2, <4>3, <4>5 DEF OneToOne
      <4>7. i \notin 1..q => i - q = j - q
        BY <3>3, <4>1, <4>2, <4>3, <4>4, <4>5 DEF OneToOne
      <4>8. i \in Nat /\ j \in Nat
        OBVIOUS
      <4> QED
        BY ONLY <4>6, <4>7, <4>8, q \in Nat
    <3> QED
      BY <3>2, <3>3, <3>6, <3>7, <3>8, <3>9
  <2> QED
    BY <2>1, <2>2
<1> HIDE DEF ids
<1>4. new \in [1..n -> Nat] /\ SameNumbers(new, ids, n)
  <2>1. ids \in [1..n -> Nat] /\ n \in Nat
    BY <1>3
  <2> QED
    BY ONLY <2>1, HeapOrderKeeps
<1>5. \A i \in 1..n : \E j \in 1..n : ids[j] = new[i]
  BY <1>4 DEF SameNumbers
<1> HIDE DEF new
<1>6. ASSUME NEW i \in 1..n PROVE (\E j \in 1..q : new[i] = old[j]) \/ new[i] \notin DOMAIN pgs \union {0}
  <2>1. PICK j \in 1..n : ids[j] = new[i]
    BY <1>5
  <2>2. (\E m \in 1..q : ids[j] = old[m]) \/ ids[j] \notin DOMAIN pgs \union {0}
    BY <1>3
  <2> QED
    BY ONLY <2>1, <2>2
<1>7. OneToOne(old, q) /\ (\A j \in 1..q : old[j] \in DOMAIN pgs) => OneToOne(new, n)
  <2>1. OneToOne(ids, n) => OneToOne(new, n)
    BY <1>4 DEF SameNumbers
  <2>2. OneToOne(old, q) /\ (\A j \in 1..q : old[j] \in DOMAIN pgs) => OneToOne(ids, n)
    BY <1>3
  <2> QED
    BY ONLY <2>1, <2>2
<1> QED
  BY <1>2, <1>4, <1>6, <1>7

-----------------------------------------------------------------------------
(* What a level of balance() leaves.                                       *)

(* `page' is a child of a node of `pgs' whose children are all nodes.      *)
Family(pgs, parent_page, page) ==
    /\ IsFiniteSet(DOMAIN pgs) /\ parent_page \in DOMAIN pgs /\ pgs[parent_page] \in NodeType
    /\ \E s \in 1..(Len(pgs[parent_page].cells) + 1) : child(pgs[parent_page], s) = page
    /\ \A s \in 1..(Len(pgs[parent_page].cells) + 1) :
          /\ child(pgs[parent_page], s) \in Nat \ {parent_page}
          /\ pgs[child(pgs[parent_page], s)] \in NodeType

LEMMA SlotsAreARange ==
    ASSUME geo \in Geometries, NEW pgs, NEW parent_page, NEW page, Family(pgs, parent_page, page)
    PROVE  \E lo, hi : /\ load_siblings(pgs[parent_page], page) = lo..hi
                       /\ Siblings(pgs, pgs[parent_page], lo, hi)
<1> DEFINE parent == pgs[parent_page]
           last == Len(parent.cells) + 1
           at == CHOOSE s \in 1..last : child(parent, s) = page
           side == IF at \in {1, last} THEN 2 * geo.siblings_per_side ELSE geo.siblings_per_side
           lo == Max2(1, at - side)
           hi == Min2(at + side, last)
<1>1. /\ parent \in NodeType /\ \E s \in 1..last : child(parent, s) = page
      /\ \A s \in 1..last : pgs[child(parent, s)] \in NodeType
  BY DEF Family
<1>2. last \in Nat
  BY <1>1 DEF NodeType
<1>3. load_siblings(parent, page) = lo..hi
  BY DEF load_siblings
<1> HIDE DEF parent, last
<1>4. at \in 1..last
  BY <1>1
<1> HIDE DEF at
<1>5. side \in Nat
  <2>1. geo.siblings_per_side \in Nat
    BY GeometriesAssumption
  <2> QED
    BY <2>1
<1> HIDE DEF side
<1>6. lo \in Nat /\ hi \in Nat /\ 1 <= lo /\ lo <= hi /\ hi <= last
  BY ONLY <1>2, <1>4, <1>5 DEF Max2, Min2
<1> HIDE DEF lo, hi
<1>7. \A s \in lo..hi : s \in 1..last
  BY ONLY <1>2, <1>6
<1>8. Siblings(pgs, parent, lo, hi)
  BY <1>1, <1>6, <1>7 DEF Siblings, last
<1> QED
  BY <1>3, <1>8 DEF parent

(* The cells that balance() moves when it is called for `page'.            *)
group_cells(pgs, parent_page, page) ==
    in_order(pgs, pgs[parent_page], load_siblings(pgs[parent_page], page))

(* The pages that it puts them in.                                         *)
group_pages(pgs, parent_page, page) ==
    LET parent == pgs[parent_page]
        slots == load_siblings(parent, page)
    IN  sibling_pages(pgs, [i \in 1..Cardinality(slots) |-> child(parent, Min(slots) + i - 1)],
                      Len(distribution(group_cells(pgs, parent_page, page)).n))

(* A page of the group has what was shared out to it.                      *)
OneOfTheGroup(pgs, p, group, k) ==
    p \in DOMAIN pgs /\ \E i \in 1..k : pgs[p] = group.pages[i]

OneOf(p, new, k) == \E i \in 1..k : new[i] = p

LEMMA PlacedAsRegrouped ==
    ASSUME NEW pgs, NEW parent_page, NEW old, NEW k \in Nat, NEW new, new \in [1..k -> Nat],
           NEW group, NEW p, OneOf(p, new, k), p # parent_page
    PROVE  OneOfTheGroup(placed(pgs, parent_page, old, new, group), p, group, k)
<1> DEFINE i == CHOOSE j \in DOMAIN new : new[j] = p
           D == (DOMAIN pgs \ ToSet(old)) \union ToSet(new)
<1>1. DOMAIN new = 1..k
  OBVIOUS
<1>0. \E j \in 1..k : new[j] = p
  BY DEF OneOf
<1>2. i \in 1..k
  BY <1>0, <1>1
<1>3. p \in ToSet(new)
  BY <1>0, <1>1 DEF ToSet
<1>4. p \in D
  BY <1>3
<1>5. placed(pgs, parent_page, old, new, group)[p] = group.pages[i]
  <2> DEFINE Index(q) == CHOOSE j \in DOMAIN new : new[j] = q
  <2>1. placed(pgs, parent_page, old, new, group)
          = [q \in D |-> IF q = parent_page THEN group.parent
                         ELSE IF q \in ToSet(new) THEN group.pages[Index(q)] ELSE pgs[q]]
    BY DEF placed
  <2> HIDE DEF D, Index
  <2>2. placed(pgs, parent_page, old, new, group)[p] = group.pages[Index(p)]
    BY <1>3, <1>4, <2>1
  <2>3. Index(p) = i
    BY DEF Index
  <2> QED
    BY <2>2, <2>3
<1>6. p \in DOMAIN placed(pgs, parent_page, old, new, group)
  BY <1>4 DEF placed
<1> QED
  BY <1>2, <1>5, <1>6 DEF OneOfTheGroup

(* None of the pages of a group has more than it has room for.             *)
NoneOverflows(pgs, pgs2, parent_page, page) ==
    \A i \in DOMAIN group_pages(pgs, parent_page, page) :
        LET p == group_pages(pgs, parent_page, page)[i]
        IN  p \in DOMAIN pgs2 /\ used_bytes(pgs2[p].cells) <= geo.usable_space

(* regroup() goes on with the parent of the page it is called for, that    *)
(* is, the counts of distribution() are never below zero; and it leaves no *)
(* page of the group with more cells than it has room for, whatever the    *)
(* pages had before.                                                       *)
THEOREM RegroupLeavesNoOverflow ==
    ASSUME geo \in Geometries, HalfPages(geo), NEW pgs, NEW page, NEW parents,
           Family(pgs, Last(parents), page),
           \/ OneLength(geo)
           \/ Len(left_biased(group_cells(pgs, Last(parents), page)).n) <= 2,
           regroup(pgs, page, parents)
    PROVE  /\ bal' = [bal EXCEPT !.page = Last(parents), !.parents = Front(parents)]
           /\ NoneOverflows(pgs, pages', Last(parents), page)
<1> DEFINE top == Last(parents)
           parent == pgs[top]
           slots == load_siblings(parent, page)
           cells == group_cells(pgs, top, page)
           d == distribution(cells)
           old == [i \in 1..Cardinality(slots) |-> child(parent, Min(slots) + i - 1)]
           new == sibling_pages(pgs, old, Len(d.n))
           group == regrouped(pgs, parent, Min(slots), Max(slots), d, cells, new)
<1>0. Family(pgs, top, page)
  OBVIOUS
<1>1. PICK lo, hi : slots = lo..hi /\ Siblings(pgs, parent, lo, hi)
  BY SlotsAreARange
<1>2. in_order(pgs, parent, lo..hi) \in Seq(CellType)
  <2> HIDE DEF parent
  <2> QED
    BY <1>1, SiblingsHaveCells
<1>3. cells \in Seq(CellType)
  BY <1>1, <1>2 DEF group_cells
<1> HIDE DEF cells
<1>4. HalfAPage(cells) /\ (OneLength(geo) => OneSize(cells))
  BY <1>3, CellsOfTheTree
<1>5. Plain(cells, Len(left_biased(cells).n))
  BY <1>4 DEF Plain, cells
<1>50. SizedCells(cells)
  BY <1>4 DEF HalfAPage
<1>6. d.ok /\ \E from : InTurn(d, cells, from) /\ Balanced(d, cells, from)
  BY <1>4, <1>5, PagesGetWhatFits
<1>7. PICK from : InTurn(d, cells, from) /\ Balanced(d, cells, from)
  BY <1>6
<1>8. regroup_as(pgs, parents, slots, d)
  BY DEF regroup, cells, group_cells
<1>9. pages' = redistribute(pgs, top, slots, d) /\ go_up(parents)
  <2> HIDE DEF d, slots
  <2> QED
    BY <1>6, <1>8 DEF regroup_as
<1>10. redistribute(pgs, top, slots, d) = placed(pgs, top, old, new, group)
  <2> HIDE DEF d
  <2> QED
    BY DEF redistribute, cells, group_cells
<1>11. Len(d.n) \in Nat
  <2>1. PICK B : Sums(B, cells)
    BY <1>50, SumsExist
  <2>2. Fits(d, cells, B, geo.usable_space, geo.usable_space \div 2)
    <3>1. Len(left_biased(cells).n) <= 2 \/ OneSize(cells)
      BY <1>5 DEF Plain
    <3> QED
      BY <1>4, <2>1, <3>1, DistributionFits
  <2> HIDE DEF d
  <2>3. PICK k, n, s, v, e :
            FitsAs(d, cells, B, k, n, s, v, e, geo.usable_space, geo.usable_space \div 2)
    BY <2>2 DEF Fits
  <2>4. Len(d.n) = k /\ k \in Nat
    BY <1>50, <2>1, <2>3, BalancedOf
  <2> QED
    BY <2>4
<1> HIDE DEF d
<1> DEFINE q == Cardinality(slots)
           k == Len(d.n)
<1>12. lo \in Nat /\ hi \in Nat /\ 1 <= lo /\ lo <= hi /\ hi <= Len(parent.cells) + 1
       /\ Len(parent.cells) \in Nat
  <2>1. Siblings(pgs, parent, lo, hi)
    BY <1>1
  <2> HIDE DEF parent
  <2> QED
    BY <2>1 DEF Siblings, NodeType
<1>13. Min(slots) = lo /\ q = hi - lo + 1 /\ q \in Nat
  <2> HIDE DEF slots
  <2>1. Min(slots) = lo
    BY <1>1, <1>12, EndsOfRange
  <2>2. lo \in Int /\ hi \in Int /\ ~(lo > hi)
    BY <1>12
  <2>3. Cardinality(lo..hi) = IF lo > hi THEN 0 ELSE hi - lo + 1
    BY <2>2, FS_Interval
  <2> QED
    BY <1>1, <1>12, <2>1, <2>2, <2>3
<1>14. ASSUME NEW j \in 1..q PROVE old[j] \in Nat /\ old[j] # top
  <2>1. lo + j - 1 \in 1..(Len(parent.cells) + 1)
    <3> HIDE DEF q, slots, parent
    <3> QED
      BY ONLY <1>12, <1>13, j \in 1..q
  <2>2. old[j] = child(parent, lo + j - 1)
    <3> HIDE DEF slots, parent
    <3> QED
      BY <1>13
  <2>3. \A s \in 1..(Len(parent.cells) + 1) : child(parent, s) \in Nat \ {top}
    BY <1>0 DEF Family
  <2> HIDE DEF old, parent
  <2> QED
    BY <2>1, <2>2, <2>3
<1>15. old \in [1..q -> Nat]
  <2> HIDE DEF slots, parent
  <2>1. old = [j \in 1..q |-> old[j]]
    OBVIOUS
  <2> HIDE DEF old, q
  <2> QED
    BY <1>14, <2>1
<1>16. IsFiniteSet(DOMAIN pgs) /\ top \in DOMAIN pgs
  BY <1>0 DEF Family
<1> HIDE DEF old, q
<1>17. /\ new \in [1..k -> Nat]
       /\ \A i \in 1..k : (\E j \in 1..q : new[i] = old[j]) \/ new[i] \notin DOMAIN pgs
  <2> HIDE DEF top
  <2> QED
    BY <1>11, <1>13, <1>15, <1>16, SiblingPagesAre
<1>18. group_pages(pgs, top, page) = new
  BY DEF group_pages, d, cells, old
<1> HIDE DEF new
<1>19. Len(new) = k /\ k \in Nat
  BY <1>11, <1>17, LenOf
<1>20. \A i \in 1..k : group.pages[i].cells = cells_of(d, cells, from, i)
  <2>1. \A i \in 1..Len(new) : group.pages[i].cells = cells_of(d, cells, from, i)
    <3>1. InTurn(d, cells, from) /\ Len(new) = Len(d.n) /\ Len(d.n) \in Nat
      BY <1>7, <1>19
    <3> DEFINE a == Min(slots)
               b == Max(slots)
    <3> HIDE DEF parent, k, slots, a, b
    <3>2. AsShared(regrouped(pgs, parent, a, b, d, cells, new), parent, a, b, d, cells, from, new)
      BY ONLY <3>1, RegroupedAsShared
    <3> QED
      BY <3>2 DEF a, b, AsShared
  <2> HIDE DEF group, k
  <2> QED
    BY <1>19, <2>1
<1>21. \A i \in 1..k : used_bytes(cells_of(d, cells, from, i)) <= geo.usable_space
  BY <1>7 DEF Balanced
<1> HIDE DEF group, k
<1>22. ASSUME NEW j \in 1..k
       PROVE  new[j] \in DOMAIN pages' /\ used_bytes(pages'[new[j]].cells) <= geo.usable_space
  <2> DEFINE p == new[j]
  <2>1. (\E i \in 1..k : new[i] = p) /\ p # top
    BY <1>14, <1>16, <1>17
  <2> HIDE DEF p
  <2>20. OneOfTheGroup(placed(pgs, top, old, new, group), p, group, k)
    <3>1. OneOf(p, new, k) /\ new \in [1..k -> Nat]
      BY <1>17, <2>1 DEF OneOf
    <3>2. k \in Nat /\ p # top
      BY <1>19, <2>1
    <3> HIDE DEF top
    <3> QED
      BY <3>1, <3>2, PlacedAsRegrouped
  <2>2. /\ p \in DOMAIN placed(pgs, top, old, new, group)
        /\ \E i \in 1..k : placed(pgs, top, old, new, group)[p] = group.pages[i]
    BY <2>20 DEF OneOfTheGroup
  <2>3. pages' = placed(pgs, top, old, new, group)
    BY <1>9, <1>10
  <2>4. PICK i \in 1..k : pages'[p] = group.pages[i]
    BY <2>2, <2>3
  <2>5. used_bytes(pages'[p].cells) <= geo.usable_space
    BY <1>20, <1>21, <2>4
  <2>6. p \in DOMAIN pages'
    BY <2>2, <2>3
  <2> QED
    BY <2>5, <2>6 DEF p
<1>23. DOMAIN new = 1..k
  BY <1>17
<1>24. NoneOverflows(pgs, pages', top, page)
  BY <1>18, <1>22, <1>23 DEF NoneOverflows
<1>25. bal' = [bal EXCEPT !.page = Last(parents), !.parents = Front(parents)]
  BY <1>9 DEF go_up
<1> QED
  BY <1>24, <1>25

-----------------------------------------------------------------------------
(* The levels of balance() that move cells.                                *)

(* The calls of balance() while `pgs' are the pages.                       *)
CallsOn(pgs) ==
    [on : {TRUE}, page : node_pages(pgs), parents : Seq(node_pages(pgs)), internal : Nat \union {NoPage}]

LEMMA CallInProgress ==
    ASSUME TypeOK, bal.on
    PROVE  bal \in CallsOn(pages)
<1>1. ~Idle.on
  BY DEF Idle
<1>2. bal # Idle
  BY <1>1
<1>3. bal = Idle \/ bal \in CallsOn(pages)
  BY DEF TypeOK, CallsOn
<1> QED
  BY <1>2, <1>3

LEMMA NodePagesAreNodes ==
    ASSUME TypeOK, NEW p \in node_pages(pages)
    PROVE  p \in DOMAIN pages /\ p \in Nat /\ pages[p] \in NodeType
<1>1. p \in DOMAIN pages /\ pages[p].kind = "node"
  BY DEF node_pages
<1>2. p \in Nat /\ pages[p] \in NodeType \union OverflowType
  BY <1>1 DEF TypeOK
<1>3. pages[p] \notin OverflowType
  BY <1>1 DEF OverflowType
<1> QED
  BY <1>1, <1>2, <1>3

LEMMA GoingUpIsNoPanic ==
    ASSUME NEW b \in CallsOn(pages), NEW p \in Nat, NEW s, NEW c,
           c = [b EXCEPT !.page = p, !.parents = s]
    PROVE  c # Panic
<1>1. c.page = p
  BY DEF CallsOn
<1>2. Panic.page = NoPage
  BY DEF Panic, Idle
<1>3. p # NoPage
  BY DEF NoPage
<1> QED
  BY <1>1, <1>2, <1>3

(* In a tree of entries of one length, of which two fit in a page with the *)
(* divider between them, a level of balance() for a page that is not the   *)
(* root does not panic and leaves no page of the group with more cells     *)
(* than it has room for.                                                   *)
THEOREM NodeLevelsFit ==
    ASSUME TypeOK, bal.on, HalfPages(geo), OneLength(geo),
           Family(pages, Last(bal.parents), bal.page), NodeUnbalanced
    PROVE  /\ bal' # Panic
           /\ NoneOverflows(pages, pages', Last(bal.parents), bal.page)
<1> DEFINE top == Last(bal.parents)
<1>1. geo \in Geometries /\ \A p \in DOMAIN pages : p \in Nat
  BY DEF TypeOK
<1>2. bal \in CallsOn(pages)
  BY CallInProgress
<1>3. regroup(pages, bal.page, bal.parents)
  BY DEF NodeUnbalanced
<1>4. /\ bal' = [bal EXCEPT !.page = Last(bal.parents), !.parents = Front(bal.parents)]
      /\ NoneOverflows(pages, pages', Last(bal.parents), bal.page)
  BY <1>1, <1>3, RegroupLeavesNoOverflow
<1>5. top \in Nat
  <2>1. top \in DOMAIN pages
    BY DEF Family
  <2> QED
    BY <1>1, <2>1
<1>6. bal' # Panic
  <2> DEFINE s == Front(bal.parents)
  <2>1. bal' = [bal EXCEPT !.page = top, !.parents = s]
    BY <1>4
  <2> HIDE DEF top, s
  <2> QED
    BY <1>2, <1>5, <2>1, GoingUpIsNoPanic
<1> QED
  BY <1>4, <1>6

(* The root hands its cells to a new page below it before the group of     *)
(* that one page is regrouped.                                             *)
below_root(new) ==
    set_page(set_page(pages, new, pages[bal.page]), bal.page, Node(<<>>, new))

LEMMA BelowRootIsAFamily ==
    ASSUME IsFiniteSet(DOMAIN pages), bal.page \in DOMAIN pages, NEW new \in Nat, new \notin DOMAIN pages,
           pages[bal.page] \in NodeType
    PROVE  Family(below_root(new), bal.page, new)
<1> DEFINE root == bal.page
           pgs == below_root(new)
           D == DOMAIN pages \union {new}
           first == [q \in D |-> IF q = new THEN pages[root] ELSE pages[q]]
<1>1. new # root /\ root \in D /\ new \in D
  OBVIOUS
<1>2. pgs = [q \in D \union {root} |-> IF q = root THEN Node(<<>>, new) ELSE first[q]]
  BY DEF below_root, set_page
<1>3. D \union {root} = D
  BY <1>1
<1>4. DOMAIN pgs = D /\ pgs[root] = Node(<<>>, new) /\ pgs[new] = pages[root]
  <2>1. first[new] = pages[root]
    BY <1>1
  <2> HIDE DEF first, D, pgs, root
  <2> QED
    BY <1>1, <1>2, <1>3, <2>1
<1>5. IsFiniteSet(D)
  BY FS_AddElement
<1>6. Node(<<>>, new) \in NodeType
  BY DEF Node, NodeType
<1>7. pgs[root].cells = <<>> /\ pgs[root].right = new
  BY <1>4 DEF Node
<1>8. Len(pgs[root].cells) + 1 = 1
  BY <1>7
<1>9. child(pgs[root], 1) = new
  BY <1>7, <1>8 DEF child
<1> HIDE DEF pgs, D, root
<1>10. \A s \in 1..1 : s = 1
  OBVIOUS
<1>11. 1 \in 1..1
  OBVIOUS
<1>12. pgs[new] \in NodeType
  BY <1>4 DEF root
<1>13. Family(pgs, root, new)
  BY <1>1, <1>4, <1>5, <1>6, <1>8, <1>9, <1>10, <1>11, <1>12 DEF Family
<1> QED
  BY <1>13 DEF pgs, root

(* So is it for a root that has more cells than it has room for.           *)
THEOREM RootLevelsFit ==
    ASSUME TypeOK, bal.on, HalfPages(geo), OneLength(geo), RootOverflow
    PROVE  /\ bal' # Panic
           /\ \E new \in Nat \ DOMAIN pages : NoneOverflows(below_root(new), pages', bal.page, new)
<1> DEFINE new == next_pages(pages, 1)[1]
           pgs == below_root(new)
           up == <<bal.page>>
<1>1. geo \in Geometries /\ IsFiniteSet(DOMAIN pages) /\ \A p \in DOMAIN pages : p \in Nat
  BY DEF TypeOK
<1>2. bal \in CallsOn(pages)
  BY CallInProgress
<1>3. new \in Nat /\ new \notin DOMAIN pages
  <2>1. 1 \in Nat /\ 1 \in 1..1
    OBVIOUS
  <2> QED
    BY <1>1, <2>1, NextPagesAreFree
<1>4. bal.page \in DOMAIN pages /\ bal.page \in Nat /\ pages[bal.page] \in NodeType
  <2>1. bal.page \in node_pages(pages)
    BY <1>2 DEF CallsOn
  <2> QED
    BY <2>1, NodePagesAreNodes
<1>5. regroup(pgs, new, up)
  BY DEF RootOverflow, below_root
<1> HIDE DEF new
<1>6. Family(pgs, bal.page, new)
  BY <1>1, <1>3, <1>4, BelowRootIsAFamily
<1>7. Last(up) = bal.page
  BY DEF Last
<1> HIDE DEF pgs, up
<1>8. Family(pgs, Last(up), new)
  BY <1>6, <1>7
<1>9. /\ bal' = [bal EXCEPT !.page = Last(up), !.parents = Front(up)]
      /\ NoneOverflows(pgs, pages', Last(up), new)
  BY <1>1, <1>5, <1>8, RegroupLeavesNoOverflow
<1>10. bal' # Panic
  <2> DEFINE s == Front(up)
             top == bal.page
  <2>1. bal' = [bal EXCEPT !.page = top, !.parents = s] /\ top \in Nat
    BY <1>4, <1>7, <1>9
  <2> HIDE DEF s, top
  <2> QED
    BY <1>2, <2>1, GoingUpIsNoPanic
<1> QED
  BY <1>3, <1>7, <1>9, <1>10 DEF pgs

-----------------------------------------------------------------------------
(* balance() climbs.                                                       *)

(* Cells of one size: fewer of them take less.                             *)
LEMMA FewerTakeLess ==
    ASSUME NEW cells, SizedCells(cells), OneSize(cells), NEW some, SizedCells(some),
           Len(some) < Len(cells), used_bytes(cells) # 0,
           \A i \in 1..Len(some) : storage_size(some[i]) = storage_size(cells[1])
    PROVE  used_bytes(some) < used_bytes(cells)
<1> DEFINE N == Len(cells)
           M == Len(some)
           c == storage_size(cells[1])
<1>1. PICK B : Sums(B, cells)
  BY SumsExist
<1>2. PICK A : Sums(A, some)
  BY SumsExist
<1>3. used_bytes(cells) = B[N] /\ used_bytes(some) = A[M]
  BY <1>1, <1>2, SumsAreOne
<1>4. N \in Nat /\ M \in Nat /\ M < N /\ c \in Nat
  <2>1. N \in Nat /\ M \in Nat /\ M < N
    BY DEF SizedCells
  <2>2. 1 \in 1..N
    BY <2>1
  <2> QED
    BY <2>1, <2>2 DEF SizedCells
<1>5. B \in [0..N -> Nat] /\ B[0] = 0 /\ \A i \in 1..N : B[i] = B[i - 1] + c
  <2>1. 1 \in 1..N
    BY <1>4
  <2>2. \A i \in 1..N : storage_size(cells[i]) = c
    BY <2>1 DEF OneSize
  <2> QED
    BY <1>1, <2>2 DEF Sums
<1>6. A \in [0..M -> Nat] /\ A[0] = 0 /\ \A i \in 1..M : A[i] = A[i - 1] + c
  BY <1>2 DEF Sums
<1>7. \A i, j \in 0..N : i <= j => B[i] <= B[j]
  BY <1>1, SumsGrow
<1>8. B[N] # 0
  BY <1>3
<1> HIDE DEF N, M, c
<1>9. c # 0
  <2>1. SUFFICES ASSUME c = 0 PROVE FALSE
    OBVIOUS
  <2> DEFINE T == {i \in 0..N : B[i] = 0}
  <2>2. 0 \in T
    BY <1>4, <1>5
  <2>3. \A i \in 1..N : i - 1 \in T => i \in T
    BY <1>4, <1>5, <2>1
  <2>4. N \in T
    <3> HIDE DEF T
    <3> QED
      BY <1>4, <2>2, <2>3, UpwardClosed
  <2> QED
    BY <1>8, <2>4
<1>10. A[M] = B[M]
  <2> DEFINE T == {i \in 0..M : A[i] = B[i]}
  <2>1. 0 \in T
    BY <1>4, <1>5, <1>6
  <2>2. \A i \in 1..M : i - 1 \in T => i \in T
    BY <1>4, <1>5, <1>6
  <2>3. M \in T
    <3>1. M \in Nat /\ M \in 0..M
      BY <1>4
    <3> HIDE DEF T
    <3> QED
      BY ONLY <2>1, <2>2, <3>1, UpwardClosed
  <2> QED
    BY <2>3
<1>11. B[M] < B[N]
  <2>1. M \in 0..N /\ M + 1 \in 1..N /\ M + 1 \in 0..N /\ N \in 0..N /\ M + 1 <= N /\ (M + 1) - 1 = M
    BY <1>4
  <2>2. B[M + 1] = B[M] + c /\ B[M + 1] <= B[N] /\ B[M] \in Nat /\ B[N] \in Nat
    BY <1>5, <1>7, <2>1
  <2> QED
    BY <1>4, <1>9, <2>2
<1> QED
  BY <1>3, <1>10, <1>11

(* The parent of a group takes less than the cells of the group.           *)
LEMMA DividersTakeLess ==
    ASSUME geo \in Geometries, HalfPages(geo), OneLength(geo), NEW cells \in Seq(CellType),
           used_bytes(cells) # 0, NEW from, InTurn(distribution(cells), cells, from),
           NEW new, Len(new) = Len(distribution(cells).n)
    PROVE  used_bytes(Dividers(cells, from, new)) < used_bytes(cells)
<1> DEFINE d == distribution(cells)
           k == Len(d.n)
           N == Len(cells)
           some == Dividers(cells, from, new)
<1>1. HalfAPage(cells) /\ OneSize(cells) /\ SizedCells(cells)
  BY CellsOfTheTree DEF HalfAPage
<1>2. N \in Nat
  BY <1>1 DEF SizedCells
<1>3. N # 0
  <2>1. SUFFICES ASSUME N = 0 PROVE FALSE
    OBVIOUS
  <2>2. PICK B : Sums(B, cells)
    BY <1>1, SumsExist
  <2>3. used_bytes(cells) = B[N] /\ B[0] = 0
    BY <1>1, <2>2, SumsAreOne DEF Sums
  <2> QED
    BY <2>1, <2>3
<1>4. k \in 1..N
  BY <1>1, <1>3, AsManyPages
<1>5. from \in [1..(k + 1) -> Nat] /\ from[1] = 0 /\ from[k + 1] = N + 1
      /\ \A i \in 1..k : from[i + 1] = from[i] + d.n[i] + 1
  BY DEF InTurn
<1>6. Len(new) = k
  OBVIOUS
<1> HIDE DEF d, k
<1>7. \A i \in 1..(k - 1) : from[i + 1] \in 1..N
  <2>1. \A i \in 1..k : d.n[i] \in Nat
    <3>1. PICK B : Sums(B, cells)
      BY <1>1, SumsExist
    <3>2. Fits(d, cells, B, geo.usable_space, geo.usable_space \div 2)
      BY <1>1, <3>1, DistributionFits DEF d
    <3>3. PICK j, n, s, v, e :
              FitsAs(d, cells, B, j, n, s, v, e, geo.usable_space, geo.usable_space \div 2)
      BY <3>2 DEF Fits
    <3>4. Len(d.n) = j /\ d.n = n /\ n \in [1..j -> Nat]
      BY <1>1, <3>1, <3>3, BalancedOf
    <3> QED
      BY <3>4 DEF k
  <2> DEFINE T == {i \in 0..k : \A j \in 1..(i + 1) : from[j] <= from[i + 1]}
  <2>2. 0 \in T
    <3>1. \A j \in 1..(0 + 1) : j = 0 + 1
      OBVIOUS
    <3> QED
      BY <1>2, <1>4, <1>5, <3>1
  <2>3. ASSUME NEW i \in 1..k, i - 1 \in T PROVE i \in T
    <3>1. i \in 0..k /\ i \in 1..(k + 1) /\ i + 1 \in 1..(k + 1) /\ (i - 1) + 1 = i
      BY <1>2, <1>4
    <3>2. from[i + 1] = from[i] + d.n[i] + 1 /\ d.n[i] \in Nat /\ from[i] \in Nat
      BY <1>5, <2>1, <3>1
    <3>3. \A j \in 1..i : from[j] <= from[i]
      BY <2>3, <3>1
    <3>4. \A j \in 1..(i + 1) : j \in 1..i \/ j = i + 1
      BY <3>1
    <3>5. ASSUME NEW j \in 1..(i + 1) PROVE from[j] <= from[i + 1]
      <4>1. j \in 1..(k + 1)
        BY <1>2, <1>4, <3>1
      <4>2. from[j] \in Nat /\ (from[j] <= from[i] \/ j = i + 1)
        BY <1>5, <3>3, <3>4, <4>1
      <4> QED
        BY <3>2, <4>2
    <3> QED
      BY <3>1, <3>5
  <2>4. \A i \in 0..k : i \in T
    <3>1. k \in Nat
      BY <1>2, <1>4
    <3> HIDE DEF T
    <3> QED
      BY ONLY <2>2, <2>3, <3>1, UpwardClosed
  <2> TAKE i \in 1..(k - 1)
  <2>5. i \in 1..k /\ i + 1 \in 1..k /\ i \in 1..(k + 1) /\ i + 1 \in 1..(k + 1) /\ k \in 1..k
        /\ k \in 0..k /\ k - 1 \in 0..k /\ i + 1 \in 1..((k - 1) + 1) /\ (k - 1) + 1 = k
        /\ k \in 1..(k + 1)
    BY <1>2, <1>4
  <2>6. from[i + 1] = from[i] + d.n[i] + 1 /\ from[i] \in Nat /\ d.n[i] \in Nat
    BY <1>5, <2>1, <2>5
  <2>7. from[i + 1] <= from[k]
    BY <2>4, <2>5
  <2>8. N + 1 = from[k] + d.n[k] + 1 /\ d.n[k] \in Nat /\ from[k] \in Nat
    BY <1>5, <2>1, <2>5
  <2> QED
    BY <1>2, <2>6, <2>7, <2>8
<1>8. some = [i \in 1..(k - 1) |-> [cells[from[i + 1]] EXCEPT !.left = new[i]]]
  BY <1>6 DEF Dividers
<1> HIDE DEF some
<1>9. Len(some) = k - 1
  <2>1. k - 1 \in Nat
    BY <1>2, <1>4
  <2> QED
    BY <1>8, <2>1
<1>10. ASSUME NEW i \in 1..(k - 1)
       PROVE  storage_size(some[i]) = storage_size(cells[1]) /\ storage_size(some[i]) \in Nat
  <2> DEFINE j == from[i + 1]
  <2>1. j \in 1..N /\ 1 \in 1..N
    BY <1>2, <1>3, <1>7
  <2>2. storage_size(cells[j]) = storage_size(cells[1]) /\ storage_size(cells[j]) \in Nat
    BY <1>1, <2>1 DEF OneSize, SizedCells
  <2>3. cells[j] \in CellType
    BY <2>1
  <2>4. some[i] = [cells[j] EXCEPT !.left = new[i]]
    BY <1>8
  <2> HIDE DEF j
  <2>5. some[i].len = cells[j].len
    BY <2>3, <2>4 DEF CellType
  <2>6. storage_size(some[i]) = storage_size(cells[j])
    BY <2>5 DEF storage_size
  <2> QED
    BY <2>2, <2>6
<1>11. SizedCells(some)
  <2>1. some = [i \in 1..Len(some) |-> some[i]]
    BY <1>8, <1>9
  <2>2. Len(some) \in Nat
    BY <1>2, <1>4, <1>9
  <2> QED
    BY <1>9, <1>10, <2>1, <2>2 DEF SizedCells
<1>12. Len(some) < Len(cells)
  BY <1>2, <1>4, <1>9 DEF N
<1>13. used_bytes(some) < used_bytes(cells)
  BY <1>1, <1>9, <1>10, <1>11, <1>12, FewerTakeLess
<1> QED
  BY <1>13 DEF some

(* A root without cells over one page: the group has the cells of that     *)
(* page.                                                                   *)
LEMMA GroupBelowRoot ==
    ASSUME geo \in Geometries, NEW pgs, NEW root, NEW new, pgs[root] = Node(<<>>, new)
    PROVE  /\ load_siblings(pgs[root], new) = 1..1
           /\ group_cells(pgs, root, new) = pgs[new].cells
<1> DEFINE parent == pgs[root]
           last == Len(parent.cells) + 1
           at == CHOOSE s \in 1..last : child(parent, s) = new
           side == IF at \in {1, last} THEN 2 * geo.siblings_per_side ELSE geo.siblings_per_side
           Of(f) == [s \in 1..1 |->
                        IF s = Min(1..1) THEN pgs[child(parent, s)].cells
                        ELSE Append(f[s - 1], [parent.cells[s - 1] EXCEPT
                                                  !.left = pgs[child(parent, s - 1)].right])
                             \o pgs[child(parent, s)].cells]
           cells == CHOOSE f : f = Of(f)
<1>1. parent.cells = <<>> /\ parent.right = new
  BY DEF Node
<1>2. last = 1
  BY <1>1
<1>3. child(parent, 1) = new
  BY <1>1, <1>2 DEF child
<1>4. load_siblings(parent, new) = Max2(1, at - side)..Min2(at + side, last)
  BY DEF load_siblings
<1>5. in_order(pgs, parent, 1..1) = cells[Max(1..1)]
  BY DEF in_order
<1> HIDE DEF parent, last
<1>6. at = 1
  <2>1. \A s \in 1..1 : s = 1
    OBVIOUS
  <2> QED
    BY <1>2, <1>3, <2>1
<1> HIDE DEF at
<1>7. side \in Nat
  <2>1. geo.siblings_per_side \in Nat
    BY GeometriesAssumption
  <2> QED
    BY <2>1
<1> HIDE DEF side
<1>8. load_siblings(parent, new) = 1..1
  <2>1. Max2(1, 1 - side) = 1
    BY <1>7 DEF Max2
  <2>2. Min2(1 + side, 1) = 1
    BY <1>7 DEF Min2
  <2> QED
    BY <1>2, <1>4, <1>6, <2>1, <2>2
<1>9. Min(1..1) = 1 /\ Max(1..1) = 1
  <2>1. 1 \in Nat /\ 1 <= 1
    OBVIOUS
  <2> QED
    BY ONLY <2>1, EndsOfRange
<1> DEFINE g == [s \in 1..1 |-> pgs[new].cells]
<1>10. g = Of(g)
  BY <1>3, <1>9
<1>11. cells = Of(cells)
  <2> HIDE DEF Of, g
  <2> QED
    BY <1>10
<1> HIDE DEF cells
<1>12. cells[1] = pgs[new].cells
  BY <1>3, <1>9, <1>11
<1> QED
  BY <1>5, <1>8, <1>9, <1>12 DEF parent, group_cells

LEMMA PlacedParent ==
    ASSUME NEW pgs, NEW parent_page, NEW old, NEW new, NEW group,
           parent_page \in DOMAIN pgs, parent_page \notin ToSet(old)
    PROVE  placed(pgs, parent_page, old, new, group)[parent_page] = group.parent
<1> DEFINE D == (DOMAIN pgs \ ToSet(old)) \union ToSet(new)
           Index(q) == CHOOSE j \in DOMAIN new : new[j] = q
<1>1. placed(pgs, parent_page, old, new, group)
        = [q \in D |-> IF q = parent_page THEN group.parent
                       ELSE IF q \in ToSet(new) THEN group.pages[Index(q)] ELSE pgs[q]]
  BY DEF placed
<1>2. parent_page \in D
  OBVIOUS
<1> HIDE DEF D, Index
<1> QED
  BY <1>1, <1>2

(* A root without cells over one page gets the dividers between the pages  *)
(* that take the cells of that page.                                       *)
LEMMA RootGetsDividers ==
    ASSUME geo \in Geometries, HalfPages(geo), OneLength(geo), NEW pgs, NEW root, NEW new,
           IsFiniteSet(DOMAIN pgs), root \in DOMAIN pgs, new \in Nat, new # root,
           pgs[root] = Node(<<>>, new), pgs[new].cells \in Seq(CellType),
           NEW share, share = distribution(pgs[new].cells)
    PROVE  \E from, ids :
               /\ InTurn(share, pgs[new].cells, from) /\ Len(ids) = Len(share.n)
               /\ redistribute(pgs, root, 1..1, share)[root].cells = Dividers(pgs[new].cells, from, ids)
<1> DEFINE parent == pgs[root]
           cells == pgs[new].cells
           k == Len(share.n)
           q == Cardinality(1..1)
           old == [i \in 1..q |-> child(parent, Min(1..1) + i - 1)]
           ids == sibling_pages(pgs, old, k)
           group == regrouped(pgs, parent, Min(1..1), Max(1..1), share, cells, ids)
<1>1. parent.cells = <<>> /\ child(parent, 1) = new
  <2>1. parent.cells = <<>> /\ parent.right = new
    BY DEF Node
  <2>2. Len(parent.cells) + 1 = 1
    BY <2>1
  <2> HIDE DEF parent
  <2> QED
    BY <2>1, <2>2 DEF child
<1>2. group_cells(pgs, root, new) = cells /\ load_siblings(parent, new) = 1..1
  <2>1. geo \in Geometries /\ pgs[root] = Node(<<>>, new)
    OBVIOUS
  <2>2. load_siblings(pgs[root], new) = 1..1 /\ group_cells(pgs, root, new) = pgs[new].cells
    BY ONLY <2>1, GroupBelowRoot
  <2> QED
    BY <2>2
<1>3. in_order(pgs, parent, 1..1) = cells
  BY <1>2 DEF group_cells
<1>4. redistribute(pgs, root, 1..1, share) = placed(pgs, root, old, ids, group)
  BY <1>3 DEF redistribute
<1>5. HalfAPage(cells) /\ OneSize(cells) /\ SizedCells(cells)
  BY CellsOfTheTree DEF HalfAPage
<1>6. k \in Nat /\ \E from : InTurn(share, cells, from)
  <2>1. PICK B : Sums(B, cells)
    BY <1>5, SumsExist
  <2>2. Fits(share, cells, B, geo.usable_space, geo.usable_space \div 2)
    BY <1>5, <2>1, DistributionFits
  <2>3. PICK j, n, s, v, e :
            FitsAs(share, cells, B, j, n, s, v, e, geo.usable_space, geo.usable_space \div 2)
    BY <2>2 DEF Fits
  <2> HIDE DEF cells
  <2>4. Len(share.n) = j /\ j \in Nat /\ InTurn(share, cells, e)
    BY <1>5, <2>1, <2>3, BalancedOf
  <2> QED
    BY <2>4
<1>7. PICK from : InTurn(share, cells, from)
  BY <1>6
<1> HIDE DEF parent, cells
<1>8. Min(1..1) = 1 /\ Max(1..1) = 1 /\ q = 1 /\ q \in Nat
  <2>1. 1 \in Nat /\ 1 <= 1
    OBVIOUS
  <2>2. Min(1..1) = 1 /\ Max(1..1) = 1
    BY ONLY <2>1, EndsOfRange
  <2>3. Cardinality(1..1) = IF 1 > 1 THEN 0 ELSE 1 - 1 + 1
    <3>1. 1 \in Int
      OBVIOUS
    <3> QED
      BY ONLY <3>1, FS_Interval
  <2> QED
    BY <2>2, <2>3
<1> HIDE DEF q
<1>9. old = [i \in 1..1 |-> new]
  <2>1. \A i \in 1..1 : Min(1..1) + i - 1 = 1
    BY <1>8
  <2> QED
    BY <1>1, <1>8, <2>1
<1>10. old \in [1..q -> Nat] /\ root \notin ToSet(old)
  BY <1>8, <1>9 DEF ToSet
<1> HIDE DEF old
<1>11. ids \in [1..k -> Nat]
  BY <1>6, <1>8, <1>10, SiblingPagesAre
<1> HIDE DEF ids
<1>12. Len(ids) = Len(share.n) /\ Len(share.n) \in Nat
  BY <1>6, <1>11, LenOf
<1>13. AsShared(group, parent, 1, 1, share, cells, from, ids)
  <2>1. group = regrouped(pgs, parent, 1, 1, share, cells, ids)
    BY <1>8
  <2> HIDE DEF group
  <2> QED
    BY <1>7, <1>12, <2>1, RegroupedAsShared
<1>14. placed(pgs, root, old, ids, group)[root] = group.parent
  <2> HIDE DEF group
  <2> QED
    BY <1>10, PlacedParent
<1> HIDE DEF group
<1>15. group.parent.cells = Dividers(cells, from, ids)
  <2> DEFINE middle == Dividers(cells, from, ids)
  <2>1. group.parent.cells = SubSeq(parent.cells, 1, 1 - 1) \o middle \o after_group(parent, 1, ids[Len(ids)])
    BY <1>13 DEF AsShared
  <2>2. SubSeq(parent.cells, 1, 1 - 1) = <<>> /\ SubSeq(parent.cells, 1, Len(parent.cells)) = <<>>
    BY <1>1
  <2>3. after_group(parent, 1, ids[Len(ids)]) = <<>>
    BY <2>2 DEF after_group
  <2>4. middle = [i \in 1..(Len(ids) - 1) |-> [cells[from[i + 1]] EXCEPT !.left = ids[i]]]
    BY DEF Dividers
  <2>5. <<>> \o middle \o <<>> = middle
    <3>1. middle \in Seq({middle[i] : i \in 1..(Len(ids) - 1)})
      <4> DEFINE S == {middle[i] : i \in 1..(Len(ids) - 1)}
      <4>1. middle \in [1..(Len(ids) - 1) -> S]
        BY <2>4
      <4>2. Len(ids) - 1 \in Nat
        BY <1>5, <1>7, <1>12 DEF InTurn
      <4> HIDE DEF middle, S
      <4> QED
        BY <4>1, <4>2
    <3> HIDE DEF middle
    <3> QED
      BY <3>1
  <2> HIDE DEF middle
  <2> QED
    BY <2>1, <2>2, <2>3, <2>5 DEF middle
<1> QED
  BY <1>4, <1>7, <1>12, <1>14, <1>15 DEF cells

(* A root that hands its cells to a page below it is left with less.       *)
LEMMA RootLosesBytes ==
    ASSUME TypeOK, bal.on, HalfPages(geo), OneLength(geo), RootOverflow
    PROVE  /\ bal'.page = bal.page /\ bal'.internal = bal.internal
           /\ used_bytes(pages'[bal.page].cells) < used_bytes(pages[bal.page].cells)
<1> DEFINE root == bal.page
           new == next_pages(pages, 1)[1]
           pgs == below_root(new)
           up == <<root>>
           cells == pages[root].cells
           share == distribution(cells)
<1>1. geo \in Geometries /\ IsFiniteSet(DOMAIN pages) /\ \A p \in DOMAIN pages : p \in Nat
  BY DEF TypeOK
<1>2. bal \in CallsOn(pages)
  BY CallInProgress
<1>3. new \in Nat /\ new \notin DOMAIN pages
  <2>1. 1 \in Nat /\ 1 \in 1..1
    OBVIOUS
  <2> QED
    BY <1>1, <2>1, NextPagesAreFree
<1>4. root \in DOMAIN pages /\ root \in Nat /\ pages[root] \in NodeType
  <2>1. root \in node_pages(pages)
    BY <1>2 DEF CallsOn
  <2> QED
    BY <2>1, NodePagesAreNodes
<1>5. regroup(pgs, new, up) /\ is_overflow(pages, root)
  BY DEF RootOverflow, below_root
<1> HIDE DEF new
<1>6. DOMAIN pgs = DOMAIN pages \union {new} /\ pgs[root] = Node(<<>>, new) /\ pgs[new] = pages[root]
  <2> DEFINE D == DOMAIN pages \union {new}
             first == [p \in D |-> IF p = new THEN pages[root] ELSE pages[p]]
  <2>1. pgs = [p \in D \union {root} |-> IF p = root THEN Node(<<>>, new) ELSE first[p]]
    BY DEF below_root, set_page
  <2>2. first[new] = pages[root] /\ root \in D /\ new \in D /\ new # root /\ D \union {root} = D
    BY <1>3, <1>4
  <2> HIDE DEF first, D
  <2>3. DOMAIN pgs = D /\ pgs[root] = Node(<<>>, new) /\ pgs[new] = pages[root]
    BY <2>1, <2>2
  <2> QED
    BY <2>3 DEF D
<1> HIDE DEF pgs
<1>7. cells \in Seq(CellType)
  BY <1>4 DEF NodeType
<1>8. Last(up) = root /\ Front(up) = <<>>
  BY DEF Last, Front
<1>9. load_siblings(pgs[root], new) = 1..1 /\ in_order(pgs, pgs[root], 1..1) = cells
  <2>1. load_siblings(pgs[root], new) = 1..1 /\ group_cells(pgs, root, new) = pgs[new].cells
    BY ONLY <1>1, <1>6, GroupBelowRoot
  <2> QED
    BY <1>6, <2>1 DEF group_cells
<1> HIDE DEF up
<1>10. regroup_as(pgs, up, 1..1, share)
  BY <1>5, <1>8, <1>9 DEF regroup
<1>11. HalfAPage(cells) /\ OneSize(cells) /\ SizedCells(cells)
  BY <1>1, <1>7, CellsOfTheTree DEF HalfAPage
<1>12. share.ok
  BY <1>11, PagesGetWhatFits DEF Plain
<1> HIDE DEF share
<1>13. pages' = redistribute(pgs, root, 1..1, share) /\ go_up(up)
  BY <1>8, <1>10, <1>12 DEF regroup_as
<1>14. PICK from, ids : /\ InTurn(share, cells, from) /\ Len(ids) = Len(share.n)
                        /\ redistribute(pgs, root, 1..1, share)[root].cells = Dividers(cells, from, ids)
  <2>1. IsFiniteSet(DOMAIN pgs) /\ root \in DOMAIN pgs /\ new \in Nat /\ new # root
    BY <1>1, <1>3, <1>4, <1>6, FS_AddElement
  <2>2. pgs[root] = Node(<<>>, new) /\ pgs[new].cells \in Seq(CellType) /\ pgs[new].cells = cells
        /\ share = distribution(pgs[new].cells)
    BY <1>6, <1>7 DEF share
  <2> HIDE DEF cells, root
  <2>3. \E from, ids :
           /\ InTurn(share, pgs[new].cells, from) /\ Len(ids) = Len(share.n)
           /\ redistribute(pgs, root, 1..1, share)[root].cells = Dividers(pgs[new].cells, from, ids)
    BY <1>1, <2>1, <2>2, RootGetsDividers
  <2> QED
    BY <2>2, <2>3
<1>15. used_bytes(cells) # 0
  <2>1. used_bytes(cells) > space(root)
    BY <1>5 DEF is_overflow
  <2>2. space(root) \in Nat
    BY <1>1, GeometriesAssumption DEF space
  <2>3. PICK B : Sums(B, cells)
    BY <1>11, SumsExist
  <2>4. used_bytes(cells) \in Nat
    BY <1>11, <2>3, SumsAreOne
  <2> HIDE DEF cells
  <2> QED
    BY <2>1, <2>2, <2>4
<1>16. used_bytes(Dividers(cells, from, ids)) < used_bytes(cells)
  <2>1. InTurn(distribution(cells), cells, from) /\ Len(ids) = Len(distribution(cells).n)
    BY <1>14 DEF share
  <2> HIDE DEF cells
  <2> QED
    BY <1>1, <1>7, <1>15, <2>1, DividersTakeLess
<1>17. bal' = [bal EXCEPT !.page = root, !.parents = <<>>]
  BY <1>8, <1>13 DEF go_up
<1>18. bal'.page = root /\ bal'.internal = bal.internal
  <2>1. bal \in [on : {TRUE}, page : node_pages(pages), parents : Seq(node_pages(pages)),
                 internal : Nat \union {NoPage}]
    BY <1>2 DEF CallsOn
  <2> HIDE DEF root
  <2> QED
    BY <1>17, <2>1
<1> QED
  BY <1>13, <1>14, <1>16, <1>18

(* The calls that a level of balance() goes on with.                       *)
Rises ==
    \/ bal.internal # NoPage /\ bal'.internal = NoPage
    \/ /\ bal'.internal = bal.internal
       /\ \/ Len(bal'.parents) < Len(bal.parents)
          \/ /\ bal'.page = bal.page
             /\ used_bytes(pages'[bal.page].cells) < used_bytes(pages[bal.page].cells)

LEMMA LevelRises ==
    ASSUME TypeOK, HalfPages(geo), OneLength(geo), bal.on, bal'.on, bal' # Panic, balance
    PROVE  Rises
<1>1. bal \in [on : {TRUE}, page : node_pages(pages), parents : Seq(node_pages(pages)),
               internal : Nat \union {NoPage}]
  BY CallInProgress DEF CallsOn
<1>2. ~Idle.on
  BY DEF Idle
<1>3. \A p \in node_pages(pages) : p # NoPage
  BY NodePagesAreNodes DEF NoPage
<1>4. CASE BalancedAlready
  <2> DEFINE left == {i \in DOMAIN bal.parents : bal.parents[i] = bal.internal}
             rest == SubSeq(bal.parents, 1, Min(left) - 1)
  <2>1. bal' = IF left = {} THEN Idle ELSE Balance(bal.internal, rest, NoPage)
    BY <1>4 DEF BalancedAlready, balance_returns
  <2> HIDE DEF rest
  <2>2. left # {} /\ bal' = Balance(bal.internal, rest, NoPage)
    BY <1>2, <2>1
  <2>3. PICK i \in DOMAIN bal.parents : bal.parents[i] = bal.internal
    BY <2>2
  <2>4. bal.internal \in node_pages(pages)
    BY <1>1, <2>3
  <2>5. bal'.internal = NoPage
    BY <2>2 DEF Balance
  <2> QED
    BY <1>3, <2>4, <2>5 DEF Rises
<1>5. CASE RootUnderflow
  <2>1. balance_returns(<<>>)
    BY <1>5 DEF RootUnderflow
  <2>2. {i \in DOMAIN <<>> : <<>>[i] = bal.internal} = {}
    OBVIOUS
  <2>3. bal' = Idle
    BY <2>1, <2>2 DEF balance_returns
  <2> QED
    BY <1>2, <2>3
<1>6. CASE RootOverflow
  BY <1>6, RootLosesBytes DEF Rises
<1>7. CASE NodeUnbalanced
  <2>1. bal.parents # <<>> /\ bal.parents \in Seq(node_pages(pages))
    BY <1>1, <1>7 DEF NodeUnbalanced
  <2>2. go_up(bal.parents)
    BY <1>7 DEF NodeUnbalanced, regroup, regroup_as
  <2> DEFINE rest == Front(bal.parents)
             top == Last(bal.parents)
  <2>3. Len(rest) = Len(bal.parents) - 1 /\ Len(bal.parents) \in Nat
    BY <2>1 DEF Front
  <2>4. bal' = [bal EXCEPT !.page = top, !.parents = rest]
    BY <2>2 DEF go_up
  <2> HIDE DEF rest, top
  <2>5. bal'.parents = rest /\ bal'.internal = bal.internal
    BY <1>1, <2>4
  <2> QED
    BY <2>3, <2>5 DEF Rises
<1> QED
  BY <1>4, <1>5, <1>6, <1>7 DEF balance

(* The recursion of balance() comes to an end, in trees of entries of one  *)
(* length of which two fit in a page with the divider between them, as     *)
(* long as they have their types (TypeOK).                                 *)
THEOREM BalanceRises ==
    ASSUME \A g \in Geometries : HalfPages(g) /\ OneLength(g)
    PROVE  Spec /\ []TypeOK => BalanceGoesUp
<1>1. ASSUME TypeOK, [Next]_vars, bal.on, bal'.on, bal' # Panic, vars' # vars
      PROVE  Rises
  <2>1. HalfPages(geo) /\ OneLength(geo)
    BY <1>1 DEF TypeOK
  <2>2. Next
    BY <1>1
  <2>3. balance
    BY <1>1, <2>2 DEF Next, FreeRemoved, insert, try_insert, remove, Ready
  <2> QED
    BY <1>1, <2>1, <2>3, LevelRises
<1>2. TypeOK /\ [Next]_vars => [bal.on /\ bal'.on /\ bal' # Panic => Rises]_vars
  BY <1>1
<1> QED
  BY <1>2, PTL DEF Spec, BalanceGoesUp, Rises
=============================================================================
