------------------------------ MODULE EngineProofs ------------------------------
(***************************************************************************)
(* Proofs about Engine, for any keys, row sizes, room in a leaf, and bounds *)
(* on row ids and pages.                                                   *)
(***************************************************************************)
EXTENDS Engine, FiniteSetTheorems, TLAPS

(* Pages, headers and tables have the fields they should have.             *)
IsPage(c) ==
    c \in [kind : {c.kind}, rows : {c.rows}, used : {c.used}, next : {c.next}, kids : {c.kids},
          sep : {c.sep}]

IsHeader(h) == h \in [root : {h.root}, free_pages : {h.free_pages}, next_row_id : Nat]

ArePages(pages) ==
    /\ pages = [p \in DOMAIN pages |-> pages[p]]
    /\ \A p \in DOMAIN pages : IsPage(pages[p])

(* Page 0 names pages of the table only.                                   *)
Named(h, ids) == h.root \in {NoPage} \union ids /\ h.free_pages \in Seq(ids)

IsTree(t) ==
    /\ t \in [header : {t.header}, dirty : BOOLEAN, pages : {t.pages}]
    /\ IsHeader(t.header) /\ ArePages(t.pages) /\ Named(t.header, DOMAIN t.pages)

RowsIn(pages) == UNION {pages[p].rows : p \in DOMAIN pages}

(* The ids of these rows have been handed out by a counter that is at n.   *)
Below(rows, n) == \A r \in rows : r.id \in Nat /\ r.id < n

StateOK ==
    /\ file \in [header : {file.header}, pages : {file.pages}]
    /\ IsHeader(file.header) /\ ArePages(file.pages)
    /\ catalog \in [header : {catalog.header}, dirty : BOOLEAN]
    /\ IsHeader(catalog.header)
    /\ Named(file.header, DOMAIN file.pages) /\ Named(catalog.header, DOMAIN file.pages)
    /\ ArePages(pool) /\ DOMAIN pool \subseteq DOMAIN file.pages
    /\ cutShort \in BOOLEAN

(* An INSERT has one row to deal with, and until then nothing is dirty.    *)
InsertsOne ==
    phase = "running" /\ statement = "insert" =>
        /\ \E k \in Keys : todo \subseteq {k}
        /\ todo # {} => pool = NoPages

(* A counter that is not marked dirty is in the file.                      *)
CounterMarked == ~catalog.dirty => catalog.header.next_row_id = file.header.next_row_id

(* What is in the file, and what may get there before page 0 does, has ids *)
(* below the counter in the file.                                          *)
FileCounterAhead ==
    ~cutShort /\ statement # "update" =>
        /\ Below(RowsIn(file.pages), file.header.next_row_id)
        /\ ~(phase = "running" /\ statement = "insert") => Below(RowsIn(pool), file.header.next_row_id)

CounterAhead ==
    ~cutShort => /\ Below(RowsIn(file.pages), catalog.header.next_row_id)
                 /\ Below(RowsIn(pool), catalog.header.next_row_id)

IInv ==
    /\ StateOK
    /\ InsertsOne
    /\ CounterMarked
    /\ FileCounterAhead
    /\ CounterAhead

-----------------------------------------------------------------------------
(* Pages and trees.                                                        *)

LEMMA LiteralPages ==
    ASSUME NEW rows, NEW used, NEW next, NEW low, NEW high, NEW key
    PROVE  /\ IsPage(Leaf(rows, used, next)) /\ Leaf(rows, used, next).rows = rows
           /\ IsPage(Node(low, high, key)) /\ Node(low, high, key).rows = {}
           /\ IsPage(Zeroed) /\ Zeroed.rows = {}
BY DEF IsPage, Leaf, Node, Zeroed

LEMMA NoPagesAreEmpty == ArePages(NoPages) /\ DOMAIN NoPages = {} /\ RowsIn(NoPages) = {}
BY DEF ArePages, NoPages, RowsIn

LEMMA ReplacedPage ==
    ASSUME NEW pages, ArePages(pages), NEW p, NEW c, p \in DOMAIN pages => IsPage(c)
    PROVE  /\ ArePages([pages EXCEPT ![p] = c])
           /\ DOMAIN [pages EXCEPT ![p] = c] = DOMAIN pages
           /\ \A q \in DOMAIN pages : q # p => [pages EXCEPT ![p] = c][q] = pages[q]
           /\ p \in DOMAIN pages => [pages EXCEPT ![p] = c][p] = c
           /\ p \notin DOMAIN pages => [pages EXCEPT ![p] = c] = pages
           /\ RowsIn([pages EXCEPT ![p] = c]) \subseteq RowsIn(pages) \union c.rows
<1> DEFINE new == [pages EXCEPT ![p] = c]
<1>1. /\ DOMAIN new = DOMAIN pages
      /\ \A q \in DOMAIN pages : q # p => new[q] = pages[q]
      /\ p \in DOMAIN pages => new[p] = c
      /\ p \notin DOMAIN pages => new = pages
      /\ new = [q \in DOMAIN new |-> new[q]]
  BY DEF ArePages
<1>2. ArePages(new)
  BY <1>1 DEF ArePages
<1>3. RowsIn(new) \subseteq RowsIn(pages) \union c.rows
  BY <1>1 DEF RowsIn
<1> QED
  BY <1>1, <1>2, <1>3

LEMMA AddedPage ==
    ASSUME NEW pages, ArePages(pages), NEW front, NEW p, DOMAIN front = {p}, IsPage(front[p])
    PROVE  /\ ArePages(Over(front, pages))
           /\ DOMAIN Over(front, pages) = DOMAIN pages \union {p}
           /\ RowsIn(Over(front, pages)) \subseteq RowsIn(pages) \union front[p].rows
<1> DEFINE new == Over(front, pages)
<1>1. /\ DOMAIN new = DOMAIN pages \union {p}
      /\ \A q \in DOMAIN pages : q # p => new[q] = pages[q]
      /\ new[p] = front[p]
      /\ new = [q \in DOMAIN new |-> new[q]]
  BY DEF Over
<1>2. ArePages(new)
  BY <1>1 DEF ArePages
<1>3. RowsIn(new) \subseteq RowsIn(pages) \union front[p].rows
  BY <1>1 DEF RowsIn
<1> QED
  BY <1>1, <1>2, <1>3

(* What every operation on a tree does: it adds no row but those of rows,  *)
(* leaves the counter alone, drops no page, and never takes back the dirty *)
(* mark.                                                                   *)
Changed(t, u, rows) ==
    /\ IsTree(u)
    /\ u.header.next_row_id = t.header.next_row_id
    /\ t.dirty => u.dirty
    /\ DOMAIN t.pages \subseteq DOMAIN u.pages
    /\ RowsIn(u.pages) \subseteq RowsIn(t.pages) \union rows

LEMMA ChangedTwice ==
    ASSUME NEW t, NEW u, NEW v, NEW rows, NEW more, Changed(t, u, rows), Changed(u, v, more)
    PROVE  Changed(t, v, rows \union more)
BY DEF Changed

LEMMA Lists ==
    ASSUME NEW S, NEW s \in Seq(S)
    PROVE  /\ s # <<>> => Head(s) \in S /\ Tail(s) \in Seq(S)
           /\ \A x \in S : Append(s, x) \in Seq(S)
OBVIOUS

LEMMA SetRootChanges ==
    ASSUME NEW t, IsTree(t), NEW p, p \in {NoPage} \union DOMAIN t.pages
    PROVE  /\ Changed(t, SetRoot(t, p), {}) /\ SetRoot(t, p).pages = t.pages
           /\ SetRoot(t, p).header.root = p
<1> DEFINE u == [t EXCEPT !.header.root = p, !.dirty = TRUE]
<1>1. /\ u \in [header : {u.header}, dirty : BOOLEAN, pages : {u.pages}]
      /\ IsHeader(u.header) /\ u.header.next_row_id = t.header.next_row_id
      /\ u.header.root = p /\ u.header.free_pages = t.header.free_pages
      /\ u.dirty /\ u.pages = t.pages
  BY DEF IsTree, IsHeader
<1>2. SetRoot(t, p) = u
  BY DEF SetRoot
<1> HIDE DEF u
<1> QED
  BY <1>1, <1>2 DEF Changed, IsTree, Named

LEMMA AllocateChanges ==
    ASSUME NEW t, IsTree(t), NEW c, IsPage(c)
    PROVE  /\ Changed(t, Allocate(t, c), c.rows)
           /\ NewPage(t) \in DOMAIN Allocate(t, c).pages
           /\ Allocate(t, c).header.root = t.header.root
<1> DEFINE n == NewPage(t)
<1>1. CASE t.header.free_pages # <<>>
  <2> DEFINE u == [t EXCEPT !.header.free_pages = Tail(@), !.dirty = TRUE, !.pages[n] = c]
  <2>1. /\ u \in [header : {u.header}, dirty : BOOLEAN, pages : {u.pages}]
        /\ IsHeader(u.header) /\ u.header.next_row_id = t.header.next_row_id
        /\ u.header.root = t.header.root /\ u.header.free_pages = Tail(t.header.free_pages)
        /\ u.dirty /\ u.pages = [t.pages EXCEPT ![n] = c]
    BY DEF IsTree, IsHeader
  <2>2. Allocate(t, c) = u
    BY <1>1 DEF Allocate
  <2>3. /\ ArePages(u.pages) /\ RowsIn(u.pages) \subseteq RowsIn(t.pages) \union c.rows
        /\ DOMAIN u.pages = DOMAIN t.pages
    BY <2>1, ReplacedPage DEF IsTree
  <2>4. n \in DOMAIN t.pages /\ Tail(t.header.free_pages) \in Seq(DOMAIN t.pages)
    BY <1>1, Lists DEF IsTree, Named, NewPage
  <2> HIDE DEF u
  <2> QED
    BY <2>1, <2>2, <2>3, <2>4 DEF Changed, IsTree, Named
<1>2. CASE ~(t.header.free_pages # <<>>)
  <2> DEFINE front == [p \in {n} |-> c]
             u == [t EXCEPT !.pages = Over(front, @)]
  <2>1. /\ u \in [header : {u.header}, dirty : BOOLEAN, pages : {u.pages}]
        /\ u.header = t.header
        /\ u.dirty = t.dirty /\ u.pages = Over(front, t.pages)
    BY DEF IsTree, IsHeader
  <2>2. Allocate(t, c) = u
    BY <1>2 DEF Allocate
  <2>3. ArePages(t.pages) /\ DOMAIN front = {n} /\ front[n] = c
    BY DEF IsTree
  <2>4. /\ ArePages(Over(front, t.pages))
        /\ DOMAIN Over(front, t.pages) = DOMAIN t.pages \union {n}
        /\ RowsIn(Over(front, t.pages)) \subseteq RowsIn(t.pages) \union c.rows
    <3> HIDE DEF n, front
    <3> QED
      BY <2>3, AddedPage
  <2>5. t.header.free_pages \in Seq(DOMAIN t.pages \union {n})
    BY <1>2 DEF IsTree, Named
  <2> HIDE DEF u
  <2> QED
    BY <2>1, <2>2, <2>4, <2>5 DEF Changed, IsTree, Named
<1> QED
  BY <1>1, <1>2

LEMMA ReplaceChanges ==
    ASSUME NEW t, IsTree(t), NEW p, NEW c, IsPage(c)
    PROVE  /\ Changed(t, [t EXCEPT !.pages[p] = c], c.rows)
           /\ [t EXCEPT !.pages[p] = c].header = t.header
           /\ DOMAIN [t EXCEPT !.pages[p] = c].pages = DOMAIN t.pages
<1> DEFINE u == [t EXCEPT !.pages[p] = c]
<1>1. /\ u \in [header : {u.header}, dirty : BOOLEAN, pages : {u.pages}]
      /\ u.header = t.header
      /\ u.dirty = t.dirty /\ u.pages = [t.pages EXCEPT ![p] = c]
  BY DEF IsTree, IsHeader
<1>2. /\ ArePages(u.pages) /\ RowsIn(u.pages) \subseteq RowsIn(t.pages) \union c.rows
      /\ DOMAIN u.pages = DOMAIN t.pages
  BY <1>1, ReplacedPage DEF IsTree
<1> HIDE DEF u
<1> QED
  BY <1>1, <1>2 DEF Changed, IsTree

LEMMA PutChanges ==
    ASSUME NEW t, IsTree(t), NEW row
    PROVE  Changed(t, Put(t, row), {row})
<1> DEFINE p == TargetLeaf(t, row.key)
           ps == [t.pages EXCEPT ![p].rows = @ \union {row}, ![p].used = @ + row.size]
<1>1. /\ Put(t, row) \in [header : {Put(t, row).header}, dirty : BOOLEAN, pages : {Put(t, row).pages}]
      /\ Put(t, row).header = t.header /\ Put(t, row).dirty = t.dirty
      /\ Put(t, row).pages = ps
  BY DEF Put, IsTree
<1>2. /\ DOMAIN ps = DOMAIN t.pages /\ ps = [q \in DOMAIN ps |-> ps[q]]
      /\ \A q \in DOMAIN ps : q # p => ps[q] = t.pages[q]
      /\ p \in DOMAIN ps => IsPage(ps[p]) /\ ps[p].rows = t.pages[p].rows \union {row}
  <2>1. ArePages(t.pages)
    BY DEF IsTree
  <2>2. CASE p \in DOMAIN t.pages
    <3>1. IsPage(t.pages[p])
      BY <2>1, <2>2 DEF ArePages
    <3> QED
      BY <2>1, <2>2, <3>1 DEF ArePages, IsPage
  <2>3. CASE p \notin DOMAIN t.pages
    BY <2>1, <2>3 DEF ArePages
  <2> QED
    BY <2>2, <2>3
<1> HIDE DEF p, ps
<1>3. ArePages(ps)
  BY <1>2 DEF IsTree, ArePages
<1>4. RowsIn(ps) \subseteq RowsIn(t.pages) \union {row} /\ DOMAIN ps = DOMAIN t.pages
  BY <1>2 DEF RowsIn
<1> QED
  BY <1>1, <1>3, <1>4 DEF Changed, IsTree

LEMMA PutIsApart ==
    ASSUME NEW t, IsTree(t), Apart(t.pages), NEW row, row \notin RowsIn(t.pages)
    PROVE  Apart(Put(t, row).pages)
<1> DEFINE p == TargetLeaf(t, row.key)
           ps == [t.pages EXCEPT ![p].rows = @ \union {row}, ![p].used = @ + row.size]
<1>1. Put(t, row).pages = ps
  BY DEF Put, IsTree
<1>2. /\ DOMAIN ps = DOMAIN t.pages
      /\ \A q \in DOMAIN ps : q # p => ps[q].rows = t.pages[q].rows
      /\ p \in DOMAIN ps => ps[p].rows = t.pages[p].rows \union {row}
  <2>1. ASSUME p \in DOMAIN t.pages PROVE IsPage(t.pages[p])
    BY <2>1 DEF IsTree, ArePages
  <2> QED
    BY <2>1 DEF IsPage
<1> HIDE DEF p, ps
<1>3. \A q \in DOMAIN t.pages : row \notin t.pages[q].rows
  BY DEF RowsIn
<1> QED
  BY <1>1, <1>2, <1>3 DEF Apart

(* The rows of the leaf that splits were in the tree.                      *)
LEMMA SplitChanges ==
    ASSUME NEW t, IsTree(t), t.header.root # NoPage
    PROVE  Changed(t, Split(t), {})
<1> DEFINE low == t.header.root
           rows == t.pages[low].rows
           lower == {r \in rows : Cardinality({s \in rows : s.key < r.key}) < Cardinality(rows) \div 2}
           upper == rows \ lower
           high == NewPage(t)
           new == Leaf(upper, Units(upper), NoPage)
           kept == Leaf(lower, t.pages[low].used, high)
           grown == Allocate(t, new)
           split == [grown EXCEPT !.pages[low] = kept]
           node == Node(low, high, Min(KeysOf(upper)))
           rooted == Allocate(split, node)
<1>1. Split(t) = SetRoot(rooted, NewPage(split))
  BY DEF Split
<1>2. lower \subseteq RowsIn(t.pages) /\ upper \subseteq RowsIn(t.pages)
  BY DEF IsTree, Named, RowsIn
<1> HIDE DEF lower, upper, high
<1>3. /\ IsPage(new) /\ new.rows = upper /\ IsPage(kept) /\ kept.rows = lower
      /\ IsPage(node) /\ node.rows = {}
  BY LiteralPages
<1> HIDE DEF new, kept, grown, split, node, rooted
<1>4. Changed(t, grown, upper)
  BY <1>3, AllocateChanges DEF grown
<1>5. Changed(grown, split, lower)
  <2> HIDE DEF low
  <2>1. IsTree(grown) /\ split = [grown EXCEPT !.pages[low] = kept]
    BY <1>4 DEF split, Changed
  <2>2. Changed(grown, [grown EXCEPT !.pages[low] = kept], kept.rows)
    BY <1>3, <2>1, ReplaceChanges
  <2> QED
    BY <1>3, <2>1, <2>2
<1>6. Changed(split, rooted, {}) /\ NewPage(split) \in DOMAIN rooted.pages
  BY <1>3, <1>5, AllocateChanges DEF rooted, Changed
<1>7. Changed(rooted, Split(t), {})
  BY <1>1, <1>6, SetRootChanges DEF Changed
<1> QED
  BY <1>2, <1>4, <1>5, <1>6, <1>7 DEF Changed

LEMMA AddedChanges ==
    ASSUME NEW t, IsTree(t), NEW row
    PROVE  Changed(t, Added(t, row), {row})
<1>1. CASE t.header.root = NoPage
  <2> DEFINE leaf == Leaf({}, 0, NoPage)
             grown == Allocate(t, leaf)
             rooted == SetRoot(grown, NewPage(t))
  <2>1. IsPage(leaf) /\ leaf.rows = {}
    BY LiteralPages
  <2>2. Added(t, row) = Put(rooted, row)
    BY <1>1 DEF Added
  <2> HIDE DEF leaf, grown, rooted
  <2>3. Changed(t, grown, {}) /\ NewPage(t) \in DOMAIN grown.pages
    BY <2>1, AllocateChanges DEF grown
  <2>4. Changed(grown, rooted, {})
    BY <2>3, SetRootChanges DEF rooted, Changed
  <2>5. Changed(rooted, Added(t, row), {row})
    BY <2>2, <2>4, PutChanges DEF Changed
  <2> QED
    BY <2>3, <2>4, <2>5 DEF Changed
<1>2. CASE t.header.root # NoPage /\ Fits(t, row)
  BY <1>2, PutChanges DEF Added
<1>3. CASE t.header.root # NoPage /\ ~Fits(t, row)
  <2> DEFINE split == Split(t)
  <2>1. Added(t, row) = Put(split, row)
    BY <1>3 DEF Added
  <2>2. Changed(t, split, {})
    BY <1>3, SplitChanges
  <2> HIDE DEF split
  <2>3. Changed(split, Added(t, row), {row})
    BY <2>1, <2>2, PutChanges DEF Changed
  <2> QED
    BY <2>2, <2>3 DEF Changed
<1> QED
  BY <1>1, <1>2, <1>3

(* The pages and page 0 after a removal.                                   *)
RootFreed(t, key) ==
    /\ t.header.root \in Holders(t, key)
    /\ Purged(t.pages[t.header.root], key).rows = {}

LEMMA PurgedPage ==
    ASSUME NEW c, IsPage(c), NEW key
    PROVE  /\ IsPage(Purged(c, key)) /\ Purged(c, key).rows = {r \in c.rows : r.key # key}
           /\ Purged(c, key).used = Units({r \in c.rows : r.key # key})
           /\ Purged(c, key).kind = c.kind /\ Purged(c, key).next = c.next
           /\ Purged(c, key).kids = c.kids /\ Purged(c, key).sep = c.sep
<1> DEFINE rest == {r \in c.rows : r.key # key}
           units == Units(rest)
<1>1. Purged(c, key) = [c EXCEPT !.rows = rest, !.used = units]
  BY DEF Purged
<1> HIDE DEF rest, units
<1>2. /\ IsPage(Purged(c, key)) /\ Purged(c, key).rows = rest /\ Purged(c, key).used = units
      /\ Purged(c, key).kind = c.kind /\ Purged(c, key).next = c.next
      /\ Purged(c, key).kids = c.kids /\ Purged(c, key).sep = c.sep
  BY <1>1 DEF IsPage
<1> QED
  BY <1>2 DEF rest, units

LEMMA RemovedIs ==
    ASSUME NEW t, IsTree(t), NEW key
    PROVE  LET u == Removed(t, key)
           IN  /\ u \in [header : {u.header}, dirty : BOOLEAN, pages : {u.pages}]
               /\ u.pages = [p \in DOMAIN t.pages |->
                                IF p \in Holders(t, key) THEN Purged(t.pages[p], key) ELSE t.pages[p]]
               /\ IsHeader(u.header) /\ u.header.next_row_id = t.header.next_row_id
               /\ RootFreed(t, key) => /\ t.header.root \in DOMAIN t.pages
                                       /\ u.header.root = NoPage /\ u.dirty
                                       /\ u.header.free_pages = Append(t.header.free_pages, t.header.root)
               /\ ~RootFreed(t, key) => u.header = t.header /\ u.dirty = t.dirty
<1> DEFINE ps == [p \in DOMAIN t.pages |->
                    IF p \in Holders(t, key) THEN Purged(t.pages[p], key) ELSE t.pages[p]]
           purged == [t EXCEPT !.pages = ps]
           root == t.header.root
           freed == [SetRoot(purged, NoPage) EXCEPT !.header.free_pages = Append(@, root)]
           u == Removed(t, key)
<1>1. root \in Holders(t, key) => root \in DOMAIN t.pages
  BY DEF Holders, Leaves, IsTree, Named
<1>2. /\ purged \in [header : {purged.header}, dirty : BOOLEAN, pages : {purged.pages}]
      /\ purged.header = t.header /\ purged.dirty = t.dirty /\ purged.pages = ps
      /\ IsHeader(purged.header)
  BY DEF IsTree
<1>3. root \in Holders(t, key) => ps[root] = Purged(t.pages[root], key)
  BY <1>1
<1>4. u = IF RootFreed(t, key) THEN freed ELSE purged
  BY <1>2, <1>3 DEF Removed, RootFreed
<1> HIDE DEF ps, purged
<1>5. /\ freed \in [header : {freed.header}, dirty : BOOLEAN, pages : {freed.pages}]
      /\ freed.pages = purged.pages /\ freed.dirty
      /\ IsHeader(freed.header) /\ freed.header.next_row_id = purged.header.next_row_id
      /\ freed.header.root = NoPage
      /\ freed.header.free_pages = Append(purged.header.free_pages, root)
  BY <1>2 DEF SetRoot, IsHeader
<1> HIDE DEF freed, root, u
<1>6. /\ u \in [header : {u.header}, dirty : BOOLEAN, pages : {u.pages}]
      /\ u.pages = ps
      /\ IsHeader(u.header) /\ u.header.next_row_id = t.header.next_row_id
      /\ RootFreed(t, key) => /\ root \in DOMAIN t.pages
                              /\ u.header.root = NoPage /\ u.dirty
                              /\ u.header.free_pages = Append(t.header.free_pages, root)
      /\ ~RootFreed(t, key) => u.header = t.header /\ u.dirty = t.dirty
  <2>1. CASE RootFreed(t, key)
    <3>1. root \in Holders(t, key)
      BY <2>1 DEF RootFreed, root
    <3>2. u = freed
      BY <1>4, <2>1
    <3> QED
      BY <1>1, <1>2, <1>5, <2>1, <3>1, <3>2
  <2>2. CASE ~RootFreed(t, key)
    <3>1. u = purged
      BY <1>4, <2>2
    <3> QED
      BY <1>2, <2>2, <3>1
  <2> QED
    BY <2>1, <2>2
<1> QED
  BY <1>6 DEF ps, root, u

LEMMA RemovedChanges ==
    ASSUME NEW t, IsTree(t), NEW key
    PROVE  Changed(t, Removed(t, key), {})
<1> DEFINE u == Removed(t, key)
<1>1. PICK ps : ps = [p \in DOMAIN t.pages |->
                        IF p \in Holders(t, key) THEN Purged(t.pages[p], key) ELSE t.pages[p]]
  OBVIOUS
<1>2. /\ u \in [header : {u.header}, dirty : BOOLEAN, pages : {u.pages}]
      /\ u.pages = ps
      /\ IsHeader(u.header) /\ u.header.next_row_id = t.header.next_row_id
      /\ RootFreed(t, key) => /\ t.header.root \in DOMAIN t.pages
                              /\ u.header.root = NoPage /\ u.dirty
                              /\ u.header.free_pages = Append(t.header.free_pages, t.header.root)
      /\ ~RootFreed(t, key) => u.header = t.header /\ u.dirty = t.dirty
  BY <1>1, RemovedIs
<1> HIDE DEF u
<1>3. ASSUME NEW p \in DOMAIN ps PROVE IsPage(ps[p]) /\ ps[p].rows \subseteq t.pages[p].rows
  <2>1. IsPage(t.pages[p]) /\ p \in DOMAIN t.pages
    BY <1>1 DEF IsTree, ArePages
  <2>2. /\ IsPage(Purged(t.pages[p], key))
        /\ Purged(t.pages[p], key).rows \subseteq t.pages[p].rows
    <3> DEFINE c == t.pages[p]
    <3>1. IsPage(c)
      BY <2>1
    <3> HIDE DEF c
    <3>2. IsPage(Purged(c, key)) /\ Purged(c, key).rows = {r \in c.rows : r.key # key}
      BY <3>1, PurgedPage
    <3> QED
      BY <3>2 DEF c
  <2>3. ps[p] = Purged(t.pages[p], key) \/ ps[p] = t.pages[p]
    BY <1>1, <2>1
  <2> QED
    BY <2>1, <2>2, <2>3
<1>4. ArePages(ps) /\ RowsIn(ps) \subseteq RowsIn(t.pages) /\ DOMAIN ps = DOMAIN t.pages
  BY <1>1, <1>3 DEF ArePages, RowsIn
<1>5. Named(u.header, DOMAIN t.pages)
  <2>1. Named(t.header, DOMAIN t.pages)
    BY DEF IsTree
  <2>2. CASE RootFreed(t, key)
    BY <1>2, <2>1, <2>2, Lists DEF Named
  <2>3. CASE ~RootFreed(t, key)
    BY <1>2, <2>1, <2>3
  <2> QED
    BY <2>2, <2>3
<1> QED
  BY <1>2, <1>4, <1>5 DEF Changed, IsTree, u

-----------------------------------------------------------------------------
(* The table and the file.                                                 *)

LEMMA TheTable ==
    ASSUME StateOK
    PROVE  /\ IsTree(Tree) /\ Tree.header = catalog.header /\ Tree.dirty = catalog.dirty
           /\ DOMAIN Tree.pages = DOMAIN file.pages
           /\ RowsIn(Tree.pages) \subseteq RowsIn(pool) \union RowsIn(file.pages)
<1> DEFINE pages == Over(pool, file.pages)
<1>1. /\ DOMAIN pages = DOMAIN file.pages /\ pages = [p \in DOMAIN pages |-> pages[p]]
      /\ \A p \in DOMAIN pages : pages[p] = IF p \in DOMAIN pool THEN pool[p] ELSE file.pages[p]
  BY DEF Over, StateOK
<1>2. /\ Tree.header = catalog.header /\ Tree.dirty = catalog.dirty /\ Tree.pages = pages
      /\ Tree \in [header : {Tree.header}, dirty : BOOLEAN, pages : {Tree.pages}]
  BY DEF Tree, StateOK
<1> HIDE DEF pages
<1>3. ArePages(pages)
  BY <1>1 DEF ArePages, StateOK
<1>4. RowsIn(pages) \subseteq RowsIn(pool) \union RowsIn(file.pages)
  BY <1>1 DEF RowsIn
<1> QED
  BY <1>1, <1>2, <1>3, <1>4 DEF IsTree, StateOK

LEMMA TakeRowIdChanges ==
    ASSUME NEW t, IsTree(t)
    PROVE  /\ IsTree(TakeRowId(t)) /\ TakeRowId(t).pages = t.pages /\ TakeRowId(t).dirty
           /\ TakeRowId(t).header.next_row_id = t.header.next_row_id + 1
<1> DEFINE next == t.header.next_row_id + 1
           u == [t EXCEPT !.header.next_row_id = next, !.dirty = TRUE]
<1>1. next \in Nat /\ TakeRowId(t) = u
  BY DEF IsTree, IsHeader, TakeRowId
<1> HIDE DEF next
<1>2. /\ u \in [header : {u.header}, dirty : BOOLEAN, pages : {u.pages}]
      /\ IsHeader(u.header) /\ u.header.next_row_id = next
      /\ u.header.root = t.header.root /\ u.header.free_pages = t.header.free_pages
      /\ u.dirty /\ u.pages = t.pages
  BY <1>1 DEF IsTree, IsHeader
<1> HIDE DEF u
<1> QED
  BY <1>1, <1>2 DEF IsTree, Named, next

(* The pages a table has grown by are zeros in the file.                   *)
LEMMA BecomeStores ==
    ASSUME StateOK, NEW t, IsTree(t), DOMAIN file.pages \subseteq DOMAIN t.pages,
           Become(t), cutShort' = cutShort
    PROVE  /\ StateOK'
           /\ catalog'.header = t.header /\ catalog'.dirty = t.dirty
           /\ file'.header = file.header
           /\ RowsIn(file.pages)' \subseteq RowsIn(file.pages)
           /\ RowsIn(pool)' \subseteq RowsIn(t.pages)
<1> DEFINE pages == [p \in DOMAIN t.pages |-> IF p \in DOMAIN file.pages THEN file.pages[p] ELSE Zeroed]
           kept == {p \in DOMAIN t.pages : t.pages[p] # pages[p]}
<1>1. /\ catalog' = [header |-> t.header, dirty |-> t.dirty]
      /\ file' = [file EXCEPT !.pages = pages]
      /\ pool' = Restrict(t.pages, kept)
  BY DEF Become
<1>2. /\ DOMAIN pages = DOMAIN t.pages /\ pages = [p \in DOMAIN pages |-> pages[p]]
      /\ \A p \in DOMAIN pages : pages[p] = IF p \in DOMAIN file.pages THEN file.pages[p] ELSE Zeroed
  OBVIOUS
<1>3. kept \subseteq DOMAIN t.pages
  OBVIOUS
<1> HIDE DEF pages, kept
<1>4. ArePages(pages) /\ RowsIn(pages) \subseteq RowsIn(file.pages)
  BY <1>2, LiteralPages DEF ArePages, RowsIn, StateOK
<1>5. /\ file' \in [header : {file'.header}, pages : {file'.pages}]
      /\ file'.header = file.header /\ file'.pages = pages
  BY <1>1 DEF StateOK
<1>6. /\ catalog' \in [header : {catalog'.header}, dirty : BOOLEAN]
      /\ catalog'.header = t.header /\ catalog'.dirty = t.dirty
  BY <1>1 DEF IsTree
<1>7. /\ DOMAIN pool' = kept /\ pool' = [p \in DOMAIN pool' |-> pool'[p]]
      /\ \A p \in kept : pool'[p] = t.pages[p]
  BY <1>1 DEF Restrict
<1>8. ArePages(pool') /\ RowsIn(pool') \subseteq RowsIn(t.pages)
  BY <1>3, <1>7 DEF IsTree, ArePages, RowsIn
<1>9. Named(file.header, DOMAIN pages)
  BY <1>2, Lists DEF StateOK, Named
<1>10. StateOK'
  BY <1>2, <1>3, <1>4, <1>5, <1>6, <1>7, <1>8, <1>9 DEF StateOK, IsTree
<1> QED
  BY <1>4, <1>5, <1>6, <1>8, <1>10

(* A new engine reads page 0, and has no dirty pages.                      *)
LEMMA OpenFileReads ==
    ASSUME StateOK, OpenFile, UNCHANGED file
    PROVE  /\ StateOK'
           /\ catalog'.header = file.header /\ ~catalog'.dirty
           /\ RowsIn(pool)' = {} /\ pool' = NoPages
           /\ cutShort' = (cutShort \/ statement = "update")
<1>1. /\ catalog' = [header |-> file.header, dirty |-> FALSE] /\ pool' = NoPages
      /\ cutShort' = (cutShort \/ statement = "update")
  BY DEF OpenFile
<1>2. /\ catalog' \in [header : {catalog'.header}, dirty : BOOLEAN]
      /\ catalog'.header = file.header /\ ~catalog'.dirty
  BY <1>1
<1>3. ArePages(pool') /\ DOMAIN pool' = {} /\ RowsIn(pool') = {}
  BY <1>1, NoPagesAreEmpty
<1>4. file' = file /\ cutShort' \in BOOLEAN
  BY <1>1
<1> QED
  BY <1>1, <1>2, <1>3, <1>4 DEF StateOK

-----------------------------------------------------------------------------
(* The row ids.                                                            *)

LEMMA InitHasIInv == Init => IInv
<1> SUFFICES ASSUME Init PROVE IInv
  OBVIOUS
<1>1. file = [header |-> [root |-> NoPage, free_pages |-> <<>>, next_row_id |-> 1], pages |-> NoPages]
  BY DEF Init
<1>2. catalog = [header |-> file.header, dirty |-> FALSE] /\ pool = NoPages
  BY DEF Init
<1>3. /\ IsHeader(file.header) /\ file.header.root = NoPage /\ file.header.free_pages = <<>>
      /\ file.pages = NoPages
      /\ file \in [header : {file.header}, pages : {file.pages}]
  BY <1>1 DEF IsHeader
<1>4. catalog.header = file.header /\ catalog \in [header : {catalog.header}, dirty : BOOLEAN]
  BY <1>2
<1>5. Named(file.header, DOMAIN file.pages)
  BY <1>3 DEF Named
<1>6. StateOK
  BY <1>2, <1>3, <1>4, <1>5, NoPagesAreEmpty DEF StateOK, Init
<1>7. RowsIn(file.pages) = {} /\ RowsIn(pool) = {}
  BY <1>2, <1>3, NoPagesAreEmpty
<1> QED
  BY <1>4, <1>6, <1>7 DEF IInv, Init, InsertsOne, CounterMarked, FileCounterAhead, CounterAhead, Below

LEMMA BeginKeepsIInv == IInv /\ Begin => IInv'
<1> SUFFICES ASSUME IInv, Begin PROVE IInv'
  OBVIOUS
<1>1. /\ StateOK' /\ catalog'.header = file.header /\ file' = file
      /\ RowsIn(pool)' = {} /\ pool' = NoPages /\ cutShort' = (cutShort \/ statement = "update")
  BY OpenFileReads DEF IInv, Begin
<1>2. ~cutShort' => Below(RowsIn(file.pages), file.header.next_row_id)
  BY <1>1 DEF IInv, FileCounterAhead
<1>3. InsertsOne'
  BY <1>1 DEF Begin, KeysFor, InsertsOne
<1> QED
  BY <1>1, <1>2, <1>3 DEF IInv, CounterMarked, FileCounterAhead, CounterAhead, Below

LEMMA CrashKeepsIInv == IInv /\ Crash => IInv'
<1> SUFFICES ASSUME IInv, Crash PROVE IInv'
  OBVIOUS
<1>1. /\ StateOK' /\ catalog'.header = file.header /\ file' = file
      /\ RowsIn(pool)' = {} /\ pool' = NoPages /\ cutShort' = (cutShort \/ statement = "update")
  BY OpenFileReads DEF IInv, Crash
<1>2. ~cutShort' => Below(RowsIn(file.pages), file.header.next_row_id)
  BY <1>1 DEF IInv, FileCounterAhead
<1>3. InsertsOne'
  BY DEF Crash, InsertsOne
<1> QED
  BY <1>1, <1>2, <1>3 DEF IInv, CounterMarked, FileCounterAhead, CounterAhead, Below

LEMMA AnswerKeepsIInv == IInv /\ Answer => IInv'
<1> SUFFICES ASSUME IInv, Answer PROVE IInv'
  OBVIOUS
<1>1. /\ file' \in [header : {file'.header}, pages : {file'.pages}]
      /\ file'.pages = file.pages
      /\ file'.header = IF catalog.dirty THEN catalog.header ELSE file.header
  BY DEF Answer, IInv, StateOK
<1>2. /\ catalog' \in [header : {catalog'.header}, dirty : BOOLEAN]
      /\ catalog'.header = catalog.header /\ ~catalog'.dirty
  BY DEF Answer, IInv, StateOK
<1>3. pool' = pool /\ cutShort' = cutShort /\ statement' = "none" /\ phase' = "answered"
  BY DEF Answer
<1>4. StateOK'
  BY <1>1, <1>2, <1>3 DEF IInv, StateOK
<1>5. file'.header.next_row_id = catalog.header.next_row_id
  BY <1>1 DEF IInv, CounterMarked
<1> QED
  BY <1>1, <1>2, <1>3, <1>4, <1>5
     DEF IInv, InsertsOne, CounterMarked, FileCounterAhead, CounterAhead

LEMMA WriteBackKeepsIInv == ASSUME IInv, NEW p \in DOMAIN pool, WriteBack(p) PROVE IInv'
<1>1. /\ file' \in [header : {file'.header}, pages : {file'.pages}]
      /\ file'.header = file.header /\ file'.pages = [file.pages EXCEPT ![p] = pool[p]]
  BY DEF WriteBack, IInv, StateOK
<1>2. ArePages(file.pages) /\ ArePages(pool) /\ IsPage(pool[p])
  BY DEF IInv, StateOK, ArePages
<1>3. /\ ArePages(file'.pages) /\ DOMAIN file'.pages = DOMAIN file.pages
      /\ RowsIn(file'.pages) \subseteq RowsIn(file.pages) \union pool[p].rows
  <2> DEFINE page == pool[p]
             pages == file.pages
  <2>1. ArePages(pages) /\ IsPage(page) /\ p \in DOMAIN pages
    BY <1>2 DEF IInv, StateOK
  <2> HIDE DEF page, pages
  <2>2. /\ ArePages([pages EXCEPT ![p] = page])
        /\ DOMAIN [pages EXCEPT ![p] = page] = DOMAIN pages
        /\ RowsIn([pages EXCEPT ![p] = page]) \subseteq RowsIn(pages) \union page.rows
    BY <2>1, ReplacedPage
  <2> QED
    BY <1>1, <2>2 DEF page, pages
<1>4. /\ DOMAIN pool' = DOMAIN pool \ {p} /\ pool' = [q \in DOMAIN pool' |-> pool'[q]]
      /\ \A q \in DOMAIN pool' : pool'[q] = pool[q]
  BY DEF WriteBack, Restrict
<1>5. ArePages(pool') /\ RowsIn(pool') \subseteq RowsIn(pool) /\ pool[p].rows \subseteq RowsIn(pool)
  BY <1>2, <1>4 DEF ArePages, RowsIn
<1>6. UNCHANGED <<catalog, phase, statement, todo, cutShort>>
  BY DEF WriteBack
<1>7. ~(phase = "running" /\ statement = "insert")
  BY DEF WriteBack
<1>8. StateOK'
  BY <1>1, <1>3, <1>4, <1>5, <1>6 DEF IInv, StateOK
<1> QED
  BY <1>1, <1>3, <1>5, <1>6, <1>7, <1>8
     DEF IInv, InsertsOne, CounterMarked, FileCounterAhead, CounterAhead, Below

(* A statement replaces the table by one with the counter at the same      *)
(* place and no rows but its own, or by one with the counter a step ahead  *)
(* and perhaps a row with the id it was at.                                *)
LEMMA NoNewRowKeepsIInv ==
    ASSUME IInv, NEW u, Changed(Tree, u, {}), Become(u),
           phase = "running", phase' \in {"running", "refused"}, statement # "insert",
           UNCHANGED <<statement, cutShort>>
    PROVE  IInv'
<1>1. /\ Tree.header = catalog.header /\ Tree.dirty = catalog.dirty
      /\ DOMAIN Tree.pages = DOMAIN file.pages
      /\ RowsIn(Tree.pages) \subseteq RowsIn(pool) \union RowsIn(file.pages)
  BY TheTable DEF IInv
<1>2. /\ StateOK' /\ catalog'.header = u.header /\ catalog'.dirty = u.dirty
      /\ file'.header = file.header
      /\ RowsIn(file.pages)' \subseteq RowsIn(file.pages)
      /\ RowsIn(pool)' \subseteq RowsIn(u.pages)
  BY <1>1, BecomeStores DEF IInv, Changed
<1>3. /\ RowsIn(pool)' \subseteq RowsIn(pool) \union RowsIn(file.pages)
      /\ catalog'.header.next_row_id = catalog.header.next_row_id
      /\ catalog.dirty => catalog'.dirty
  BY <1>1, <1>2 DEF Changed
<1> QED
  BY <1>2, <1>3 DEF IInv, InsertsOne, CounterMarked, FileCounterAhead, CounterAhead, Below

LEMMA NextRowIdKeepsIInv ==
    ASSUME IInv, NEW u, NEW rows, Changed(TakeRowId(Tree), u, rows), Become(u),
           \A r \in rows : r.id = catalog.header.next_row_id,
           phase = "running", phase' \in {"running", "refused"},
           UNCHANGED <<statement, cutShort>>,
           statement = "insert" => /\ todo # {}
                                   /\ phase' = "running" => todo' = {}
                                   /\ phase' = "refused" => rows = {},
           statement \notin {"insert", "update"} => rows = {}
    PROVE  IInv'
<1>1. /\ Tree.header = catalog.header /\ IsTree(Tree)
      /\ DOMAIN Tree.pages = DOMAIN file.pages
      /\ RowsIn(Tree.pages) \subseteq RowsIn(pool) \union RowsIn(file.pages)
  BY TheTable DEF IInv
<1>2. /\ TakeRowId(Tree).pages = Tree.pages /\ TakeRowId(Tree).dirty
      /\ TakeRowId(Tree).header.next_row_id = catalog.header.next_row_id + 1
  BY <1>1, TakeRowIdChanges
<1>3. /\ StateOK' /\ catalog'.header = u.header /\ catalog'.dirty = u.dirty
      /\ file'.header = file.header
      /\ RowsIn(file.pages)' \subseteq RowsIn(file.pages)
      /\ RowsIn(pool)' \subseteq RowsIn(u.pages)
  BY <1>1, <1>2, BecomeStores DEF IInv, Changed
<1>4. /\ RowsIn(pool)' \subseteq RowsIn(pool) \union RowsIn(file.pages) \union rows
      /\ catalog'.header.next_row_id = catalog.header.next_row_id + 1
      /\ catalog'.dirty
  BY <1>1, <1>2, <1>3 DEF Changed
<1>5. catalog.header.next_row_id \in Nat
  BY DEF IInv, StateOK, IsHeader
<1>6. CounterAhead'
  BY <1>3, <1>4, <1>5 DEF IInv, CounterAhead, Below
<1>7. FileCounterAhead'
  <2> SUFFICES ASSUME ~cutShort, statement # "update"
               PROVE  FileCounterAhead'
    BY DEF FileCounterAhead
  <2>1. Below(RowsIn(file.pages)', file.header.next_row_id)
    BY <1>3 DEF IInv, FileCounterAhead, Below
  <2>2. CASE phase' = "running" /\ statement = "insert"
    BY <1>3, <2>1, <2>2 DEF FileCounterAhead
  <2>3. CASE ~(phase' = "running" /\ statement = "insert")
    <3>1. rows = {}
      BY <2>3
    <3>2. Below(RowsIn(pool), file.header.next_row_id)
      <4>1. CASE statement = "insert"
        BY <4>1, NoPagesAreEmpty DEF IInv, InsertsOne, Below
      <4>2. CASE statement # "insert"
        BY <4>2 DEF IInv, FileCounterAhead
      <4> QED
        BY <4>1, <4>2
    <3>3. Below(RowsIn(file.pages), file.header.next_row_id)
      BY DEF IInv, FileCounterAhead
    <3>4. Below(RowsIn(pool)', file.header.next_row_id)
      BY <1>4, <3>1, <3>2, <3>3 DEF Below
    <3> QED
      BY <1>3, <2>1, <3>4 DEF FileCounterAhead
  <2> QED
    BY <2>2, <2>3
<1>8. InsertsOne'
  BY DEF IInv, InsertsOne
<1>9. CounterMarked'
  BY <1>4 DEF CounterMarked
<1> QED
  BY <1>3, <1>6, <1>7, <1>8, <1>9 DEF IInv

LEMMA NextKeepsIInv == IInv /\ [Next]_vars => IInv'
<1> SUFFICES ASSUME IInv, [Next]_vars PROVE IInv'
  OBVIOUS
<1>1. IsTree(Tree) /\ IsTree(TakeRowId(Tree))
  BY TheTable, TakeRowIdChanges DEF IInv
<1>2. ASSUME NEW key \in Keys, NEW size \in Sizes, InsertRow(key, size) PROVE IInv'
  <2> DEFINE t == TakeRowId(Tree)
             row == NewRow(key, size)
  <2>1. Changed(t, Added(t, row), {row})
    BY <1>1, AddedChanges
  <2>2. row.id = catalog.header.next_row_id
    BY DEF NewRow
  <2>3. /\ phase = "running" /\ phase' = phase /\ UNCHANGED <<statement, cutShort>>
        /\ key \in todo /\ todo' = todo \ {key} /\ statement = "insert"
        /\ Become(Added(t, row))
    BY <1>2 DEF InsertRow, At, Done
  <2>4. todo' = {}
    BY <2>3 DEF IInv, InsertsOne
  <2> HIDE DEF row
  <2> QED
    BY <2>1, <2>2, <2>3, <2>4, NextRowIdKeepsIInv
<1>3. ASSUME NEW key \in Keys, InsertDuplicate(key) PROVE IInv'
  <2>1. Changed(TakeRowId(Tree), TakeRowId(Tree), {})
    BY <1>1 DEF Changed
  <2> QED
    BY <1>3, <2>1, NextRowIdKeepsIInv DEF InsertDuplicate, At, Refuse
<1>4. ASSUME NEW key \in Keys, DeleteRow(key) PROVE IInv'
  <2>1. Changed(Tree, Removed(Tree, key), {})
    BY <1>1, RemovedChanges
  <2> QED
    BY <1>4, <2>1, NoNewRowKeepsIInv DEF DeleteRow, At, Done
<1>5. ASSUME NEW key \in Keys, NEW new \in Keys, NEW size \in Sizes, UpdateRow(key, new, size)
      PROVE  IInv'
  <2> DEFINE t == TakeRowId(Tree)
             rest == Removed(t, key)
             row == NewRow(new, size)
  <2>1. Changed(t, rest, {})
    BY <1>1, RemovedChanges
  <2>2. row.id = catalog.header.next_row_id
    BY DEF NewRow
  <2>3. /\ phase = "running" /\ phase' = phase /\ UNCHANGED <<statement, cutShort>>
        /\ statement = "update"
        /\ Become(Added(rest, row))
    BY <1>5 DEF UpdateRow, At, Done
  <2> HIDE DEF row, rest
  <2>4. Changed(rest, Added(rest, row), {row})
    BY <2>1, AddedChanges DEF Changed
  <2>5. Changed(t, Added(rest, row), {row})
    BY <2>1, <2>4 DEF Changed
  <2> QED
    BY <2>2, <2>3, <2>5, NextRowIdKeepsIInv
<1>6. ASSUME NEW key \in Keys, NEW new \in Keys, UpdateDuplicate(key, new) PROVE IInv'
  <2>1. Changed(TakeRowId(Tree), TakeRowId(Tree), {})
    BY <1>1 DEF Changed
  <2> QED
    BY <1>6, <2>1, NextRowIdKeepsIInv DEF UpdateDuplicate, At, Refuse
<1>7. ASSUME FailToRead PROVE IInv'
  <2>1. CASE statement = "delete"
    <3>1. Changed(Tree, Tree, {})
      BY <1>1 DEF Changed
    <3> QED
      BY <1>7, <2>1, <3>1, NoNewRowKeepsIInv DEF FailToRead, Refuse
  <2>2. CASE statement # "delete"
    <3>1. Changed(TakeRowId(Tree), TakeRowId(Tree), {})
      BY <1>1 DEF Changed
    <3> QED
      BY <1>7, <2>2, <3>1, NextRowIdKeepsIInv DEF FailToRead, Refuse
  <2> QED
    BY <2>1, <2>2
<1>8. CASE UNCHANGED vars
  BY <1>8 DEF vars, IInv, StateOK, InsertsOne, CounterMarked, FileCounterAhead, CounterAhead
<1> QED
  BY <1>2, <1>3, <1>4, <1>5, <1>6, <1>7, <1>8, BeginKeepsIInv, AnswerKeepsIInv, CrashKeepsIInv,
     WriteBackKeepsIInv DEF Next

(* No row of the table, in memory or on file, has an id that is still to   *)
(* be handed out, whatever page 0 and the data pages are written before a  *)
(* refusal or a crash, unless an UPDATE ended without its answer.          *)
THEOREM RowIdsAreNotReused == Spec => []RowIdsStayFresh
<1>1. IInv => RowIdsStayFresh
  <2> SUFFICES ASSUME IInv PROVE RowIdsStayFresh
    OBVIOUS
  <2>1. Rows(Tree) = RowsIn(Tree.pages) /\ Rows(FileTree) = RowsIn(file.pages)
    BY DEF Rows, RowsIn, FileTree
  <2>2. RowsIn(Tree.pages) \subseteq RowsIn(pool) \union RowsIn(file.pages)
    BY TheTable DEF IInv
  <2> QED
    BY <2>1, <2>2 DEF IInv, CounterAhead, Below, RowIdsStayFresh
<1> QED
  BY <1>1, InitHasIInv, NextKeepsIInv, PTL DEF Spec

-----------------------------------------------------------------------------
(* The units that rows take.                                               *)

LEMMA SmallestSet ==
    ASSUME NEW S, IsFiniteSet(S), NEW B, B \subseteq SUBSET S, B # {}
    PROVE  \E W \in B : \A V \in B : V \subseteq W => V = W
<1>1. IsWellFoundedOn(StrictSubsetOrdering(S), SUBSET S)
  BY FS_StrictSubsetOrderingWellFounded, FS_FiniteSubsetsOfFinite
<1>2. PICK W \in B : \A V \in B : ~ (<<V, W>> \in StrictSubsetOrdering(S))
  BY <1>1, WFMin
<1> QED
  BY <1>2 DEF StrictSubsetOrdering

One(s) == CHOOSE x \in s : TRUE

LEMMA OneOf == ASSUME NEW s, s # {} PROVE One(s) \in s
BY DEF One

(* The function by which Units is defined.                                 *)
Sums(f, S) == f = [s \in SUBSET S |-> IF s = {} THEN 0 ELSE f[s \ {One(s)}] + One(s).size]

LEMMA UnitsAreSums == ASSUME NEW S PROVE Units(S) = (CHOOSE f : Sums(f, S))[S]
BY DEF Units, FoldSet, MapThenFoldSet, Sums, One

LEMMA SumsAgree ==
    ASSUME NEW S, IsFiniteSet(S), NEW T \in SUBSET S, NEW f, Sums(f, S), NEW g, Sums(g, T)
    PROVE  \A W \in SUBSET T : f[W] = g[W]
<1> DEFINE B == {W \in SUBSET T : f[W] # g[W]}
<1>1. SUFFICES ASSUME B # {} PROVE FALSE
  OBVIOUS
<1>2. IsFiniteSet(T) /\ B \subseteq SUBSET T
  BY FS_Subset
<1>3. PICK W \in B : \A V \in B : V \subseteq W => V = W
  <2> HIDE DEF B
  <2> QED
    BY <1>1, <1>2, SmallestSet
<1>4. /\ f[W] = IF W = {} THEN 0 ELSE f[W \ {One(W)}] + One(W).size
      /\ g[W] = IF W = {} THEN 0 ELSE g[W \ {One(W)}] + One(W).size
  <2>1. W \in SUBSET S /\ W \in SUBSET T
    OBVIOUS
  <2> QED
    BY <2>1, Zenon DEF Sums
<1>5. W # {} => f[W \ {One(W)}] = g[W \ {One(W)}]
  BY <1>3, OneOf
<1> QED
  BY <1>3, <1>4, <1>5

LEMMA SumsExist == ASSUME NEW S, IsFiniteSet(S) PROVE \E f : Sums(f, S)
<1> DEFINE B == {W \in SUBSET S : ~ \E f : Sums(f, W)}
<1>1. SUFFICES ASSUME B # {} PROVE FALSE
  <2>1. S \notin B
    BY <1>1
  <2> QED
    BY <2>1
<1>2. PICK W \in B : \A V \in B : V \subseteq W => V = W
  <2>1. B \subseteq SUBSET S
    OBVIOUS
  <2> HIDE DEF B
  <2> QED
    BY <1>1, <2>1, SmallestSet
<1> DEFINE of(V) == CHOOSE f : Sums(f, V)
           g == [s \in SUBSET W |-> IF s = {} THEN 0 ELSE of(s \ {One(s)})[s \ {One(s)}] + One(s).size]
<1>3. \A V \in SUBSET W : V # W => IsFiniteSet(V) /\ Sums(of(V), V)
  <2> SUFFICES ASSUME NEW V \in SUBSET W, V # W PROVE IsFiniteSet(V) /\ Sums(of(V), V)
    OBVIOUS
  <2>1. V \notin B /\ V \in SUBSET S
    BY <1>2
  <2>2. \E f : Sums(f, V)
    BY <2>1
  <2> QED
    BY <2>1, <2>2, FS_Subset
<1> HIDE DEF of
<1>4. \A V \in SUBSET W : V # W => g[V] = of(V)[V]
  <2> SUFFICES ASSUME NEW V \in SUBSET W, V # W PROVE g[V] = of(V)[V]
    OBVIOUS
  <2>1. of(V)[V] = IF V = {} THEN 0 ELSE of(V)[V \ {One(V)}] + One(V).size
    <3>1. Sums(of(V), V) /\ V \in SUBSET V
      BY <1>3
    <3> QED
      BY <3>1, Zenon DEF Sums
  <2>2. V # {} => of(V)[V \ {One(V)}] = of(V \ {One(V)})[V \ {One(V)}]
    <3> SUFFICES ASSUME V # {} PROVE of(V)[V \ {One(V)}] = of(V \ {One(V)})[V \ {One(V)}]
      OBVIOUS
    <3> DEFINE rest == V \ {One(V)}
    <3>1. rest \in SUBSET V /\ rest \in SUBSET W /\ rest # W /\ rest \in SUBSET rest
      BY OneOf
    <3> HIDE DEF rest
    <3>2. IsFiniteSet(V) /\ Sums(of(V), V) /\ Sums(of(rest), rest)
      BY <1>3, <3>1
    <3>3. of(V)[rest] = of(rest)[rest]
      BY <3>1, <3>2, SumsAgree
    <3> QED
      BY <3>3 DEF rest
  <2> QED
    BY <2>1, <2>2
<1>5. Sums(g, W)
  <2>1. \A s \in SUBSET W : s # {} => g[s \ {One(s)}] = of(s \ {One(s)})[s \ {One(s)}]
    BY <1>4, OneOf
  <2>2. g = [s \in SUBSET W |-> IF s = {} THEN 0 ELSE g[s \ {One(s)}] + One(s).size]
    BY <2>1
  <2> QED
    BY <2>2 DEF Sums
<1> HIDE DEF g
<1> QED
  BY <1>5

LEMMA UnitsRecursion ==
    ASSUME NEW S, IsFiniteSet(S)
    PROVE  Units(S) = IF S = {} THEN 0 ELSE Units(S \ {One(S)}) + One(S).size
<1> DEFINE of(V) == CHOOSE f : Sums(f, V)
           rest == S \ {One(S)}
<1>1. IsFiniteSet(rest) /\ rest \in SUBSET S /\ rest \in SUBSET rest /\ S \in SUBSET S
  BY FS_Subset
<1>2. Sums(of(S), S) /\ Sums(of(rest), rest)
  <2> HIDE DEF rest
  <2> QED
    BY <1>1, SumsExist
<1>3. Units(S) = of(S)[S] /\ Units(rest) = of(rest)[rest]
  BY UnitsAreSums
<1> HIDE DEF of
<1>4. of(S)[S] = IF S = {} THEN 0 ELSE of(S)[rest] + One(S).size
  BY <1>1, <1>2, Zenon DEF Sums
<1> HIDE DEF rest
<1>5. of(S)[rest] = of(rest)[rest]
  BY <1>1, <1>2, SumsAgree
<1> QED
  BY <1>3, <1>4, <1>5 DEF rest

(* Rows that a leaf may hold.                                              *)
AreRows(rows) == IsFiniteSet(rows) /\ \A r \in rows : r.size \in Nat /\ r.key \in Keys

LEMMA FewerRows == ASSUME NEW S, AreRows(S), NEW T \in SUBSET S PROVE AreRows(T)
BY FS_Subset DEF AreRows

LEMMA NoRows == AreRows({}) /\ Units({}) = 0
BY UnitsRecursion, FS_EmptySet DEF AreRows

LEMMA UnitsAreCounted == ASSUME NEW S, AreRows(S) PROVE Units(S) \in Nat
<1> DEFINE B == {W \in SUBSET S : Units(W) \notin Nat}
<1>1. SUFFICES ASSUME B # {} PROVE FALSE
  OBVIOUS
<1>2. PICK W \in B : \A V \in B : V \subseteq W => V = W
  <2>1. IsFiniteSet(S) /\ B \subseteq SUBSET S
    BY DEF AreRows
  <2> HIDE DEF B
  <2> QED
    BY <1>1, <2>1, SmallestSet
<1>3. AreRows(W) /\ W \in SUBSET S
  BY FewerRows
<1>4. W # {}
  BY <1>2, NoRows
<1>5. Units(W) = Units(W \ {One(W)}) + One(W).size
  BY <1>3, <1>4, UnitsRecursion DEF AreRows
<1>6. Units(W \ {One(W)}) \in Nat /\ One(W).size \in Nat
  BY <1>2, <1>3, <1>4, OneOf DEF AreRows
<1>7. Units(W) \in Nat
  BY <1>5, <1>6
<1> QED
  BY <1>2, <1>7

(* In whatever order they are counted.                                     *)
LEMMA UnitsOfOneLess ==
    ASSUME NEW S, AreRows(S), NEW x \in S
    PROVE  Units(S) = Units(S \ {x}) + x.size
<1> DEFINE B == {W \in SUBSET S : \E y \in W : Units(W) # Units(W \ {y}) + y.size}
<1>1. SUFFICES ASSUME B # {} PROVE FALSE
  <2>1. S \notin B
    BY <1>1
  <2> QED
    BY <2>1
<1>2. PICK W \in B : \A V \in B : V \subseteq W => V = W
  <2>1. IsFiniteSet(S) /\ B \subseteq SUBSET S
    BY DEF AreRows
  <2> HIDE DEF B
  <2> QED
    BY <1>1, <2>1, SmallestSet
<1>3. PICK y \in W : Units(W) # Units(W \ {y}) + y.size
  OBVIOUS
<1>4. AreRows(W) /\ W \in SUBSET S
  BY FewerRows
<1> DEFINE o == One(W)
<1>5. o \in W /\ Units(W) = Units(W \ {o}) + o.size
  BY <1>4, OneOf, UnitsRecursion DEF AreRows
<1> HIDE DEF o
<1>6. o # y
  BY <1>3, <1>5
<1>7. ASSUME NEW a \in W, NEW b \in W, a # b
      PROVE  Units(W \ {a}) = Units(W \ {a, b}) + b.size
  <2>1. W \ {a} \notin B /\ W \ {a} \in SUBSET S /\ b \in W \ {a}
    BY <1>2, <1>7
  <2>2. (W \ {a}) \ {b} = W \ {a, b}
    OBVIOUS
  <2> QED
    BY <2>1, <2>2
<1>8. Units(W \ {o}) = Units(W \ {o, y}) + y.size /\ Units(W \ {y}) = Units(W \ {o, y}) + o.size
  <2>1. W \ {o, y} = W \ {y, o}
    OBVIOUS
  <2> HIDE DEF B
  <2> QED
    BY <1>5, <1>6, <1>7, <2>1
<1>9. o.size \in Nat /\ y.size \in Nat /\ Units(W \ {o, y}) \in Nat
  BY <1>4, <1>5, FewerRows, UnitsAreCounted DEF AreRows
<1> HIDE DEF B
<1> QED
  BY <1>3, <1>5, <1>8, <1>9

LEMMA FewerUnits ==
    ASSUME NEW S, AreRows(S), NEW T \in SUBSET S
    PROVE  Units(T) <= Units(S)
<1> DEFINE B == {W \in SUBSET S : T \subseteq W /\ ~ (Units(T) <= Units(W))}
<1>1. SUFFICES ASSUME B # {} PROVE FALSE
  <2>1. S \notin B
    BY <1>1
  <2> QED
    BY <2>1
<1>2. PICK W \in B : \A V \in B : V \subseteq W => V = W
  <2>1. IsFiniteSet(S) /\ B \subseteq SUBSET S
    BY DEF AreRows
  <2> HIDE DEF B
  <2> QED
    BY <1>1, <2>1, SmallestSet
<1>3. AreRows(W) /\ Units(W) \in Nat /\ Units(T) \in Nat
  BY FewerRows, UnitsAreCounted
<1>4. W # T
  BY <1>2, <1>3
<1>5. PICK x : x \in W /\ x \notin T
  BY <1>4
<1>6. Units(T) <= Units(W \ {x})
  <2>1. W \ {x} \notin B
    BY <1>2, <1>5
  <2> QED
    BY <1>5, <2>1
<1>7. Units(W) = Units(W \ {x}) + x.size /\ x.size \in Nat /\ Units(W \ {x}) \in Nat
  BY <1>3, <1>5, UnitsOfOneLess, FewerRows, UnitsAreCounted DEF AreRows
<1>8. Units(T) <= Units(W)
  BY <1>3, <1>6, <1>7
<1> QED
  BY <1>2, <1>8

LEMMA OneRowMore ==
    ASSUME NEW S, AreRows(S), NEW x, x.size \in Nat, x.key \in Keys
    PROVE  AreRows(S \union {x}) /\ Units(S \union {x}) <= Units(S) + x.size
<1>1. AreRows(S \union {x})
  BY FS_AddElement DEF AreRows
<1>2. Units(S) \in Nat
  BY UnitsAreCounted
<1>3. CASE x \in S
  <2>1. S \union {x} = S
    BY <1>3
  <2> QED
    BY <1>1, <1>2, <2>1
<1>4. CASE x \notin S
  <2>1. (S \union {x}) \ {x} = S
    BY <1>4
  <2>2. Units(S \union {x}) = Units((S \union {x}) \ {x}) + x.size
    BY <1>1, UnitsOfOneLess
  <2> QED
    BY <1>1, <1>2, <2>1, <2>2
<1> QED
  BY <1>3, <1>4

-----------------------------------------------------------------------------
(* Trees whose pages are numbered without gaps and hold no more than they  *)
(* have room for.                                                          *)
IsRoomy(c) ==
    AreRows(c.rows) /\ c.used \in Nat /\ Units(c.rows) <= c.used /\ c.used <= LeafCap

AreRoomy(pages) == \A p \in DOMAIN pages : IsRoomy(pages[p])

Numbered(ids) == \E n \in Nat : ids = 2..(n + 1)

Sized(t) == IsTree(t) /\ AreRoomy(t.pages) /\ Numbered(DOMAIN t.pages)

IsRow(row) == row.key \in Keys /\ row.size \in 1..LeafCap

LEMMA RoomyLiterals ==
    /\ IsRoomy(Zeroed)
    /\ \A low, high, key : IsRoomy(Node(low, high, key))
    /\ \A next : IsRoomy(Leaf({}, 0, next))
<1>1. LeafCap \in Nat
  BY EngineAssumption
<1> QED
  BY <1>1, NoRows DEF IsRoomy, Zeroed, Node, Leaf

LEMMA NextNumber ==
    ASSUME NEW ids, Numbered(ids)
    PROVE  Numbered(ids \union {Cardinality(ids) + 2})
<1>1. PICK n \in Nat : ids = 2..(n + 1)
  BY DEF Numbered
<1>2. Cardinality(ids) = n
  BY <1>1, FS_Interval
<1>3. ids \union {n + 2} = 2..((n + 1) + 1)
  BY <1>1
<1> QED
  BY <1>2, <1>3 DEF Numbered

LEMMA SetRootIsSized ==
    ASSUME NEW t, Sized(t), NEW p, p \in {NoPage} \union DOMAIN t.pages
    PROVE  Sized(SetRoot(t, p))
BY SetRootChanges DEF Sized, Changed

LEMMA AllocateIsSized ==
    ASSUME NEW t, Sized(t), NEW c, IsPage(c), IsRoomy(c)
    PROVE  /\ Sized(Allocate(t, c))
           /\ DOMAIN Allocate(t, c).pages = DOMAIN t.pages \union {NewPage(t)}
           /\ Allocate(t, c).pages[NewPage(t)] = c
           /\ \A p \in DOMAIN t.pages : p # NewPage(t) => Allocate(t, c).pages[p] = t.pages[p]
<1> DEFINE n == NewPage(t)
           pages == Allocate(t, c).pages
<1>1. IsTree(t) /\ IsTree(Allocate(t, c))
  BY AllocateChanges DEF Sized, Changed
<1>2. /\ DOMAIN pages = DOMAIN t.pages \union {n} /\ pages[n] = c
      /\ \A p \in DOMAIN t.pages : p # n => pages[p] = t.pages[p]
      /\ n \in DOMAIN t.pages \/ n = Cardinality(DOMAIN t.pages) + 2
  <2>1. CASE t.header.free_pages # <<>>
    <3>1. n \in DOMAIN t.pages
      BY <1>1, <2>1, Lists DEF IsTree, Named, NewPage
    <3> HIDE DEF n
    <3>2. pages = [t.pages EXCEPT ![n] = c]
      BY <1>1, <2>1 DEF Allocate, IsTree, n
    <3> HIDE DEF pages
    <3> QED
      BY <3>1, <3>2
  <2>2. CASE ~(t.header.free_pages # <<>>)
    <3>1. n = Cardinality(DOMAIN t.pages) + 2
      BY <2>2 DEF NewPage
    <3> HIDE DEF n
    <3>2. pages = Over([p \in {n} |-> c], t.pages)
      BY <1>1, <2>2 DEF Allocate, IsTree, n
    <3> HIDE DEF pages
    <3> QED
      BY <3>1, <3>2 DEF Over
  <2> QED
    BY <2>1, <2>2
<1>3. Numbered(DOMAIN t.pages \union {n})
  <2>1. CASE n \in DOMAIN t.pages
    <3>1. DOMAIN t.pages \union {n} = DOMAIN t.pages
      BY <2>1
    <3> QED
      BY <3>1 DEF Sized
  <2>2. CASE n = Cardinality(DOMAIN t.pages) + 2
    BY <2>2, NextNumber DEF Sized
  <2> QED
    BY <1>2, <2>1, <2>2
<1> HIDE DEF n, pages
<1>4. AreRoomy(pages)
  BY <1>2 DEF AreRoomy, Sized
<1> QED
  BY <1>1, <1>2, <1>3, <1>4 DEF Sized, n, pages

LEMMA ReplaceIsSized ==
    ASSUME NEW t, Sized(t), NEW p, NEW c, IsPage(c), IsRoomy(c)
    PROVE  Sized([t EXCEPT !.pages[p] = c])
<1> DEFINE u == [t EXCEPT !.pages[p] = c]
<1>1. IsTree(t)
  BY DEF Sized
<1>2. Changed(t, u, c.rows) /\ DOMAIN u.pages = DOMAIN t.pages
  BY <1>1, ReplaceChanges
<1>3. u.pages = [t.pages EXCEPT ![p] = c]
  BY <1>1 DEF IsTree
<1> HIDE DEF u
<1>4. AreRoomy(u.pages)
  BY <1>3 DEF AreRoomy, Sized
<1> QED
  BY <1>2, <1>4 DEF Sized, Changed, u

LEMMA PutIsSized ==
    ASSUME NEW t, Sized(t), NEW row, IsRow(row), Fits(t, row)
    PROVE  Sized(Put(t, row))
<1> DEFINE p == TargetLeaf(t, row.key)
           ps == Put(t, row).pages
<1>1. IsTree(Put(t, row))
  BY PutChanges DEF Sized, Changed
<1>2. ps = [t.pages EXCEPT ![p].rows = @ \union {row}, ![p].used = @ + row.size]
  BY DEF Put, Sized, IsTree
<1>3. t.pages[p].used + row.size <= LeafCap
  BY DEF Fits
<1>4. /\ DOMAIN ps = DOMAIN t.pages
      /\ \A q \in DOMAIN ps : q # p => ps[q] = t.pages[q]
      /\ p \in DOMAIN ps => /\ ps[p].rows = t.pages[p].rows \union {row}
                            /\ ps[p].used = t.pages[p].used + row.size
  <2>1. p \in DOMAIN t.pages => IsPage(t.pages[p])
    BY DEF Sized, IsTree, ArePages
  <2> HIDE DEF p
  <2> QED
    BY <1>2, <2>1 DEF IsPage
<1> HIDE DEF p, ps
<1>5. p \in DOMAIN ps => IsRoomy(ps[p])
  <2> SUFFICES ASSUME p \in DOMAIN ps PROVE IsRoomy(ps[p])
    OBVIOUS
  <2> DEFINE c == t.pages[p]
  <2>1. IsRoomy(c)
    BY <1>4 DEF Sized, AreRoomy
  <2> HIDE DEF c
  <2>2. Units(c.rows) \in Nat /\ row.size \in Nat /\ row.key \in Keys
    BY <2>1, EngineAssumption, UnitsAreCounted DEF IsRoomy, IsRow
  <2>3. AreRows(c.rows \union {row}) /\ Units(c.rows \union {row}) <= Units(c.rows) + row.size
    BY <2>1, <2>2, OneRowMore DEF IsRoomy
  <2>4. Units(c.rows \union {row}) \in Nat
    BY <2>3, UnitsAreCounted
  <2>5. ps[p].rows = c.rows \union {row} /\ ps[p].used = c.used + row.size
    BY <1>4 DEF c
  <2>6. Units(c.rows) <= c.used /\ c.used \in Nat
    BY <2>1 DEF IsRoomy
  <2>7. Units(c.rows \union {row}) <= c.used + row.size /\ c.used + row.size \in Nat
    BY <2>2, <2>3, <2>4, <2>6
  <2>8. c.used + row.size <= LeafCap
    BY <1>3 DEF c
  <2> QED
    BY <2>3, <2>5, <2>7, <2>8 DEF IsRoomy
<1>6. AreRoomy(ps)
  BY <1>4, <1>5 DEF AreRoomy, Sized
<1> QED
  BY <1>1, <1>4, <1>6 DEF Sized, ps

LEMMA SplitIsSized ==
    ASSUME NEW t, Sized(t), t.header.root # NoPage
    PROVE  Sized(Split(t))
<1> DEFINE low == t.header.root
           rows == t.pages[low].rows
           used == t.pages[low].used
           lower == {r \in rows : Cardinality({s \in rows : s.key < r.key}) < Cardinality(rows) \div 2}
           upper == rows \ lower
           high == NewPage(t)
           new == Leaf(upper, Units(upper), NoPage)
           kept == Leaf(lower, used, high)
           grown == Allocate(t, new)
           split == [grown EXCEPT !.pages[low] = kept]
           node == Node(low, high, Min(KeysOf(upper)))
           rooted == Allocate(split, node)
<1>1. Split(t) = SetRoot(rooted, NewPage(split))
  BY DEF Split
<1>2. low \in DOMAIN t.pages
  BY DEF Sized, IsTree, Named
<1>3. AreRows(rows) /\ used \in Nat /\ Units(rows) <= used /\ used <= LeafCap
  BY <1>2 DEF Sized, AreRoomy, IsRoomy
<1>4. lower \in SUBSET rows /\ upper \in SUBSET rows
  OBVIOUS
<1> HIDE DEF rows, used, lower, upper, high
<1>5. /\ AreRows(lower) /\ Units(lower) \in Nat /\ Units(lower) <= Units(rows)
      /\ AreRows(upper) /\ Units(upper) \in Nat /\ Units(upper) <= Units(rows)
      /\ Units(rows) \in Nat
  BY <1>3, <1>4, FewerRows, FewerUnits, UnitsAreCounted
<1>6. LeafCap \in Nat
  BY EngineAssumption
<1>7. IsPage(new) /\ IsPage(kept) /\ IsPage(node) /\ IsRoomy(node)
  BY LiteralPages, RoomyLiterals
<1>8. IsRoomy(new)
  BY <1>3, <1>5, <1>6 DEF IsRoomy, Leaf
<1>9. IsRoomy(kept)
  BY <1>3, <1>5, <1>6 DEF IsRoomy, Leaf
<1> HIDE DEF new, kept, grown, split, node, rooted, low
<1>10. Sized(grown)
  BY <1>7, <1>8, AllocateIsSized DEF grown
<1>11. Sized(split)
  BY <1>7, <1>9, <1>10, ReplaceIsSized DEF split
<1>12. Sized(rooted) /\ NewPage(split) \in DOMAIN rooted.pages
  BY <1>7, <1>11, AllocateIsSized DEF rooted
<1> QED
  BY <1>1, <1>12, SetRootIsSized

LEMMA PurgedIsRoomy ==
    ASSUME NEW c, IsPage(c), IsRoomy(c), NEW key
    PROVE  IsRoomy(Purged(c, key))
<1> DEFINE rest == {r \in c.rows : r.key # key}
<1>1. rest \in SUBSET c.rows
  OBVIOUS
<1> HIDE DEF rest
<1>2. AreRows(rest) /\ Units(rest) \in Nat /\ Units(rest) <= Units(c.rows)
  BY <1>1, FewerRows, FewerUnits, UnitsAreCounted DEF IsRoomy
<1>3. /\ Units(c.rows) <= c.used /\ c.used <= LeafCap
      /\ Units(c.rows) \in Nat /\ c.used \in Nat /\ LeafCap \in Nat
  BY UnitsAreCounted, EngineAssumption DEF IsRoomy
<1>4. Units(rest) <= Units(rest) /\ Units(rest) <= LeafCap
  BY <1>2, <1>3
<1>5. Purged(c, key).rows = rest /\ Purged(c, key).used = Units(rest)
  BY PurgedPage DEF rest
<1> QED
  BY <1>2, <1>4, <1>5 DEF IsRoomy

LEMMA RemovedIsSized ==
    ASSUME NEW t, Sized(t), NEW key
    PROVE  Sized(Removed(t, key))
<1> DEFINE u == Removed(t, key)
<1>1. IsTree(t) /\ IsTree(u)
  BY RemovedChanges DEF Sized, Changed
<1>2. u.pages = [p \in DOMAIN t.pages |->
                   IF p \in Holders(t, key) THEN Purged(t.pages[p], key) ELSE t.pages[p]]
  BY <1>1, RemovedIs
<1> HIDE DEF u
<1>3. ASSUME NEW p \in DOMAIN t.pages PROVE IsRoomy(u.pages[p])
  <2>1. IsPage(t.pages[p]) /\ IsRoomy(t.pages[p])
    BY DEF Sized, IsTree, ArePages, AreRoomy
  <2> QED
    BY <1>2, <2>1, PurgedIsRoomy
<1> QED
  BY <1>1, <1>2, <1>3 DEF Sized, AreRoomy, u

(* Two tables with the same pages and the same tree on them.               *)
Alike(t, u) ==
    /\ t.pages = u.pages
    /\ t.header.root = u.header.root /\ t.header.free_pages = u.header.free_pages

LEMMA AlikeFits ==
    ASSUME NEW t, NEW u, Alike(t, u), NEW row
    PROVE  Fits(t, row) <=> Fits(u, row)
BY DEF Alike, Fits, TargetLeaf

LEMMA AlikeSplit ==
    ASSUME NEW t, IsTree(t), NEW u, IsTree(u), Alike(t, u), t.header.root # NoPage
    PROVE  Alike(Split(t), Split(u))
<1>1. ASSUME NEW a, IsTree(a), NEW b, IsTree(b), Alike(a, b), NEW c
      PROVE  NewPage(a) = NewPage(b) /\ Alike(Allocate(a, c), Allocate(b, c))
  <2>1. NewPage(a) = NewPage(b)
    BY <1>1 DEF Alike, NewPage
  <2>2. CASE a.header.free_pages # <<>>
    <3>1. b.header.free_pages # <<>>
      BY <1>1, <2>2 DEF Alike
    <3> DEFINE n == NewPage(a)
    <3>2. Allocate(a, c) = [a EXCEPT !.header.free_pages = Tail(@), !.dirty = TRUE, !.pages[n] = c]
      BY <2>2 DEF Allocate
    <3>3. Allocate(b, c) = [b EXCEPT !.header.free_pages = Tail(@), !.dirty = TRUE, !.pages[n] = c]
      BY <2>1, <3>1 DEF Allocate
    <3> HIDE DEF n
    <3>4. /\ Allocate(a, c).pages = [a.pages EXCEPT ![n] = c]
          /\ Allocate(a, c).header.root = a.header.root
          /\ Allocate(a, c).header.free_pages = Tail(a.header.free_pages)
      <4> DEFINE v == Allocate(a, c)
      <4>1. v = [a EXCEPT !.header.free_pages = Tail(@), !.dirty = TRUE, !.pages[n] = c]
        BY <3>2
      <4> HIDE DEF v
      <4>2. /\ v.pages = [a.pages EXCEPT ![n] = c] /\ v.header.root = a.header.root
            /\ v.header.free_pages = Tail(a.header.free_pages)
        BY <1>1, <4>1 DEF IsTree, IsHeader
      <4> QED
        BY <4>2 DEF v
    <3>5. /\ Allocate(b, c).pages = [b.pages EXCEPT ![n] = c]
          /\ Allocate(b, c).header.root = b.header.root
          /\ Allocate(b, c).header.free_pages = Tail(b.header.free_pages)
      <4> DEFINE v == Allocate(b, c)
      <4>1. v = [b EXCEPT !.header.free_pages = Tail(@), !.dirty = TRUE, !.pages[n] = c]
        BY <3>3
      <4> HIDE DEF v
      <4>2. /\ v.pages = [b.pages EXCEPT ![n] = c] /\ v.header.root = b.header.root
            /\ v.header.free_pages = Tail(b.header.free_pages)
        BY <1>1, <4>1 DEF IsTree, IsHeader
      <4> QED
        BY <4>2 DEF v
    <3> QED
      BY <1>1, <2>1, <3>4, <3>5 DEF Alike
  <2>3. CASE ~(a.header.free_pages # <<>>)
    <3>1. ~(b.header.free_pages # <<>>)
      BY <1>1, <2>3 DEF Alike
    <3> DEFINE front == [p \in {NewPage(a)} |-> c]
    <3>2. /\ Allocate(a, c).pages = Over(front, a.pages) /\ Allocate(a, c).header = a.header
      BY <1>1, <2>3 DEF Allocate, IsTree
    <3>3. /\ Allocate(b, c).pages = Over(front, b.pages) /\ Allocate(b, c).header = b.header
      BY <1>1, <2>1, <3>1 DEF Allocate, IsTree
    <3> HIDE DEF front
    <3> QED
      BY <1>1, <2>1, <3>2, <3>3 DEF Alike
  <2> QED
    BY <2>2, <2>3
<1> DEFINE low == t.header.root
           rows == t.pages[low].rows
           lower == {r \in rows : Cardinality({s \in rows : s.key < r.key}) < Cardinality(rows) \div 2}
           upper == rows \ lower
           high == NewPage(t)
           new == Leaf(upper, Units(upper), NoPage)
           kept == Leaf(lower, t.pages[low].used, high)
           Kept(v) == [Allocate(v, new) EXCEPT !.pages[low] = kept]
           node == Node(low, high, Min(KeysOf(upper)))
           Rooted(v) == Allocate(Kept(v), node)
<1>2. Split(t) = SetRoot(Rooted(t), NewPage(Kept(t)))
  BY DEF Split
<1>3. NewPage(u) = high /\ u.header.root = low /\ u.pages = t.pages
  BY <1>1 DEF Alike
<1>4. Split(u) = SetRoot(Rooted(u), NewPage(Kept(u)))
  BY <1>3 DEF Split
<1>5. IsPage(new) /\ IsPage(kept) /\ IsPage(node)
  BY LiteralPages
<1> HIDE DEF new, kept, node, low
<1>6. /\ IsTree(Allocate(t, new)) /\ IsTree(Allocate(u, new))
      /\ Alike(Allocate(t, new), Allocate(u, new))
  BY <1>1, <1>5, AllocateChanges DEF Changed
<1>7. IsTree(Kept(t)) /\ IsTree(Kept(u)) /\ Alike(Kept(t), Kept(u))
  <2> DEFINE a == Allocate(t, new)
             b == Allocate(u, new)
  <2> HIDE DEF a, b
  <2>1. IsTree(a) /\ IsTree(b) /\ Alike(a, b)
    BY <1>6 DEF a, b
  <2>2. /\ Changed(a, [a EXCEPT !.pages[low] = kept], kept.rows)
        /\ Changed(b, [b EXCEPT !.pages[low] = kept], kept.rows)
    BY <1>5, <2>1, ReplaceChanges
  <2>3. IsTree([a EXCEPT !.pages[low] = kept]) /\ IsTree([b EXCEPT !.pages[low] = kept])
    BY <2>2 DEF Changed
  <2>4. Alike([a EXCEPT !.pages[low] = kept], [b EXCEPT !.pages[low] = kept])
    BY <2>1 DEF Alike, IsTree
  <2> QED
    BY <2>3, <2>4 DEF a, b
<1> HIDE DEF Kept
<1>8. /\ NewPage(Kept(t)) = NewPage(Kept(u))
      /\ IsTree(Rooted(t)) /\ IsTree(Rooted(u)) /\ Alike(Rooted(t), Rooted(u))
  BY <1>1, <1>5, <1>7, AllocateChanges DEF Changed
<1> HIDE DEF Rooted
<1>9. ASSUME NEW a, IsTree(a), NEW b, IsTree(b), Alike(a, b), NEW p
      PROVE  Alike(SetRoot(a, p), SetRoot(b, p))
  <2>1. /\ SetRoot(a, p).pages = a.pages /\ SetRoot(a, p).header.root = p
        /\ SetRoot(a, p).header.free_pages = a.header.free_pages
    BY <1>9 DEF SetRoot, IsTree, IsHeader
  <2>2. /\ SetRoot(b, p).pages = b.pages /\ SetRoot(b, p).header.root = p
        /\ SetRoot(b, p).header.free_pages = b.header.free_pages
    BY <1>9 DEF SetRoot, IsTree, IsHeader
  <2> QED
    BY <1>9, <2>1, <2>2 DEF Alike
<1> QED
  BY <1>2, <1>4, <1>8, <1>9

LEMMA AlikeRemoved ==
    ASSUME NEW t, IsTree(t), NEW key
    PROVE  Alike(Removed(t, key), Removed(TakeRowId(t), key))
<1> DEFINE u == TakeRowId(t)
<1>1. IsTree(u) /\ u.pages = t.pages
  BY TakeRowIdChanges
<1>2. u.header.root = t.header.root /\ u.header.free_pages = t.header.free_pages
  BY DEF IsTree, IsHeader, TakeRowId
<1> HIDE DEF u
<1>3. Holders(u, key) = Holders(t, key) /\ (RootFreed(u, key) <=> RootFreed(t, key))
  BY <1>1, <1>2 DEF Holders, Leaves, RootFreed
<1>4. Removed(u, key).pages = Removed(t, key).pages
  <2>1. Removed(u, key).pages = [p \in DOMAIN u.pages |->
                   IF p \in Holders(u, key) THEN Purged(u.pages[p], key) ELSE u.pages[p]]
    BY <1>1, RemovedIs
  <2>2. Removed(t, key).pages = [p \in DOMAIN t.pages |->
                   IF p \in Holders(t, key) THEN Purged(t.pages[p], key) ELSE t.pages[p]]
    BY RemovedIs
  <2> QED
    BY <1>1, <1>3, <2>1, <2>2
<1>5. CASE RootFreed(t, key)
  <2>1. /\ Removed(u, key).header.root = NoPage /\ Removed(t, key).header.root = NoPage
        /\ Removed(u, key).header.free_pages = Append(u.header.free_pages, u.header.root)
        /\ Removed(t, key).header.free_pages = Append(t.header.free_pages, t.header.root)
    BY <1>1, <1>3, <1>5, RemovedIs
  <2> QED
    BY <1>2, <1>4, <2>1 DEF Alike, u
<1>6. CASE ~RootFreed(t, key)
  <2>1. Removed(u, key).header = u.header /\ Removed(t, key).header = t.header
    BY <1>1, <1>3, <1>6, RemovedIs
  <2> QED
    BY <1>2, <1>4, <2>1 DEF Alike, u
<1> QED
  BY <1>5, <1>6

LEMMA AddedIsSized ==
    ASSUME NEW t, Sized(t), NEW row, IsRow(row), NEW u, IsTree(u), Alike(u, t), MayAdd(u, row)
    PROVE  Sized(Added(t, row))
<1>1. CASE t.header.root = NoPage
  <2> DEFINE leaf == Leaf({}, 0, NoPage)
             grown == Allocate(t, leaf)
             rooted == SetRoot(grown, NewPage(t))
  <2>1. IsPage(leaf) /\ IsRoomy(leaf) /\ leaf.kind = "leaf" /\ leaf.used = 0
    BY LiteralPages, RoomyLiterals DEF Leaf
  <2>2. Added(t, row) = Put(rooted, row)
    BY <1>1 DEF Added
  <2> HIDE DEF leaf, grown
  <2>3. Sized(grown) /\ NewPage(t) \in DOMAIN grown.pages /\ grown.pages[NewPage(t)] = leaf
    BY <2>1, AllocateIsSized DEF grown
  <2>4. Sized(rooted) /\ rooted.pages = grown.pages /\ rooted.header.root = NewPage(t)
    BY <2>3, SetRootIsSized, SetRootChanges DEF Sized
  <2> HIDE DEF rooted
  <2>5. Fits(rooted, row)
    <3>1. rooted.pages[TargetLeaf(rooted, row.key)].used = 0
      BY <2>1, <2>3, <2>4 DEF TargetLeaf
    <3> QED
      BY <3>1, EngineAssumption DEF Fits, IsRow
  <2> QED
    BY <2>2, <2>4, <2>5, PutIsSized
<1>2. CASE t.header.root # NoPage /\ Fits(t, row)
  <2>1. Added(t, row) = Put(t, row)
    BY <1>2 DEF Added
  <2> QED
    BY <1>2, <2>1, PutIsSized
<1>3. CASE t.header.root # NoPage /\ ~Fits(t, row)
  <2>1. Added(t, row) = Put(Split(t), row)
    BY <1>3 DEF Added
  <2>2. u.header.root # NoPage /\ ~Fits(u, row)
    BY <1>3, AlikeFits DEF Alike
  <2>3. Fits(Split(u), row)
    BY <2>2 DEF MayAdd
  <2>4. Alike(Split(u), Split(t))
    BY <2>2, AlikeSplit DEF Sized
  <2>5. Fits(Split(t), row) /\ Sized(Split(t))
    BY <1>3, <2>3, <2>4, AlikeFits, SplitIsSized
  <2> QED
    BY <2>1, <2>5, PutIsSized
<1> QED
  BY <1>1, <1>2, <1>3

-----------------------------------------------------------------------------
(* The types.                                                              *)

SizesOK ==
    /\ AreRoomy(file.pages) /\ AreRoomy(pool) /\ Numbered(DOMAIN file.pages)
    /\ file.header.next_row_id \in 1..(MaxRowId + 1)
    /\ catalog.header.next_row_id \in 1..(MaxRowId + 1)
    /\ phase \in {"new", "running", "answered", "refused"}
    /\ todo \subseteq Keys

TypesInv == IInv /\ SizesOK

LEMMA TheTableIsSized ==
    ASSUME TypesInv
    PROVE  Sized(Tree) /\ Sized(TakeRowId(Tree)) /\ Alike(Tree, TakeRowId(Tree))
<1>1. IsTree(Tree) /\ DOMAIN Tree.pages = DOMAIN file.pages
  BY TheTable DEF TypesInv, IInv
<1>2. Tree.pages = Over(pool, file.pages)
  BY DEF Tree
<1>3. AreRoomy(Tree.pages)
  BY <1>2 DEF Over, AreRoomy, TypesInv, SizesOK
<1> DEFINE t == Tree
<1> HIDE DEF t
<1>4. IsTree(t) /\ AreRoomy(t.pages) /\ Numbered(DOMAIN t.pages)
  BY <1>1, <1>3 DEF t, TypesInv, SizesOK
<1>5. IsTree(TakeRowId(t)) /\ TakeRowId(t).pages = t.pages
  BY <1>4, TakeRowIdChanges
<1>6. /\ TakeRowId(t).header.root = t.header.root
      /\ TakeRowId(t).header.free_pages = t.header.free_pages
  BY <1>4 DEF IsTree, IsHeader, TakeRowId
<1> QED
  BY <1>4, <1>5, <1>6 DEF Sized, Alike, t

LEMMA OpenFileKeepsSizes ==
    ASSUME TypesInv, OpenFile, UNCHANGED file,
           phase' \in {"new", "running"}, todo' \subseteq Keys
    PROVE  SizesOK'
<1>1. catalog'.header = file.header /\ pool' = NoPages
  BY OpenFileReads DEF TypesInv, IInv
<1>2. AreRoomy(pool')
  BY <1>1, NoPagesAreEmpty DEF AreRoomy
<1> QED
  BY <1>1, <1>2 DEF TypesInv, SizesOK

LEMMA KeysInTheFile == ASSUME TypesInv PROVE KeysOf(Rows(FileTree)) \subseteq Keys
<1>1. Rows(FileTree) = UNION {file.pages[p].rows : p \in DOMAIN file.pages}
  BY DEF Rows, FileTree
<1>2. \A p \in DOMAIN file.pages : \A r \in file.pages[p].rows : r.key \in Keys
  BY DEF TypesInv, SizesOK, AreRoomy, IsRoomy, AreRows
<1> QED
  BY <1>1, <1>2 DEF KeysOf

LEMMA WriteBackKeepsSizes == ASSUME TypesInv, NEW p \in DOMAIN pool, WriteBack(p) PROVE SizesOK'
<1>1. /\ file'.header = file.header /\ file'.pages = [file.pages EXCEPT ![p] = pool[p]]
      /\ UNCHANGED <<catalog, phase, todo>>
  BY DEF WriteBack, TypesInv, IInv, StateOK
<1>2. /\ DOMAIN pool' = DOMAIN pool \ {p} /\ \A q \in DOMAIN pool' : pool'[q] = pool[q]
  BY DEF WriteBack, Restrict
<1>3. AreRoomy(file'.pages) /\ DOMAIN file'.pages = DOMAIN file.pages
  BY <1>1 DEF AreRoomy, TypesInv, SizesOK
<1>4. AreRoomy(pool')
  BY <1>2 DEF AreRoomy, TypesInv, SizesOK
<1> QED
  BY <1>1, <1>3, <1>4 DEF TypesInv, SizesOK

LEMMA AnswerKeepsSizes == ASSUME TypesInv, Answer PROVE SizesOK'
<1>1. /\ file'.pages = file.pages
      /\ file'.header = IF catalog.dirty THEN catalog.header ELSE file.header
      /\ catalog'.header = catalog.header
  BY DEF Answer, TypesInv, IInv, StateOK
<1> QED
  BY <1>1 DEF Answer, TypesInv, SizesOK

LEMMA BecomeKeepsSizes ==
    ASSUME TypesInv, NEW t, Sized(t), DOMAIN file.pages \subseteq DOMAIN t.pages, Become(t),
           t.header.next_row_id \in 1..(MaxRowId + 1),
           phase' \in {"running", "refused"}, todo' \subseteq todo
    PROVE  SizesOK'
<1> DEFINE pages == [p \in DOMAIN t.pages |-> IF p \in DOMAIN file.pages THEN file.pages[p] ELSE Zeroed]
           kept == {p \in DOMAIN t.pages : t.pages[p] # pages[p]}
<1>1. /\ catalog' = [header |-> t.header, dirty |-> t.dirty]
      /\ file' = [file EXCEPT !.pages = pages]
      /\ pool' = Restrict(t.pages, kept)
  BY DEF Become
<1>2. /\ DOMAIN pages = DOMAIN t.pages
      /\ \A p \in DOMAIN pages : pages[p] = IF p \in DOMAIN file.pages THEN file.pages[p] ELSE Zeroed
      /\ kept \subseteq DOMAIN t.pages
  OBVIOUS
<1> HIDE DEF pages, kept
<1>3. AreRoomy(pages)
  BY <1>2, RoomyLiterals DEF AreRoomy, TypesInv, SizesOK
<1>4. file'.header = file.header /\ file'.pages = pages /\ catalog'.header = t.header
  BY <1>1 DEF TypesInv, IInv, StateOK
<1>5. AreRoomy(pool')
  BY <1>1, <1>2 DEF Restrict, AreRoomy, Sized
<1>6. Numbered(DOMAIN pages)
  BY <1>2 DEF Sized
<1> QED
  BY <1>3, <1>4, <1>5, <1>6 DEF TypesInv, SizesOK

LEMMA NextKeepsTypesInv == TypesInv /\ [Next]_vars => TypesInv'
<1> SUFFICES ASSUME TypesInv, [Next]_vars PROVE TypesInv'
  OBVIOUS
<1>1. IInv'
  BY NextKeepsIInv DEF TypesInv
<1>2. /\ Sized(Tree) /\ Sized(TakeRowId(Tree)) /\ Alike(Tree, TakeRowId(Tree))
      /\ IsTree(Tree) /\ IsTree(TakeRowId(Tree))
  BY TheTableIsSized DEF Sized
<1>3. /\ Tree.header = catalog.header /\ DOMAIN Tree.pages = DOMAIN file.pages
      /\ TakeRowId(Tree).pages = Tree.pages
      /\ TakeRowId(Tree).header.next_row_id = catalog.header.next_row_id + 1
  BY <1>2, TheTable, TakeRowIdChanges DEF TypesInv, IInv
<1>4. /\ catalog.header.next_row_id \in 1..(MaxRowId + 1)
      /\ IdsLeft => catalog.header.next_row_id + 1 \in 1..(MaxRowId + 1)
  BY EngineAssumption DEF TypesInv, SizesOK, IdsLeft
<1>5. ASSUME NEW key \in Keys, NEW size \in Sizes PROVE IsRow(NewRow(key, size))
  BY EngineAssumption DEF IsRow, NewRow
<1>6. ASSUME NEW key \in Keys, NEW size \in Sizes, InsertRow(key, size) PROVE SizesOK'
  <2> DEFINE t == TakeRowId(Tree)
             row == NewRow(key, size)
             u == Added(t, row)
  <2>1. Become(u) /\ MayAdd(Tree, row) /\ IdsLeft /\ phase' = "running" /\ todo' \subseteq todo
    BY <1>6 DEF InsertRow, At, Done
  <2> HIDE DEF t, row
  <2>2. IsRow(row) /\ Sized(t) /\ IsTree(t) /\ Alike(Tree, t) /\ IsTree(Tree)
    BY <1>2, <1>5 DEF t, row
  <2>3. Changed(t, u, {row})
    BY <2>2, AddedChanges
  <2>4. Sized(u)
    BY <2>1, <2>2, AddedIsSized
  <2> HIDE DEF u
  <2>5. DOMAIN file.pages \subseteq DOMAIN u.pages /\ u.header.next_row_id \in 1..(MaxRowId + 1)
    BY <1>3, <1>4, <2>1, <2>3 DEF Changed, t
  <2> QED
    BY <2>1, <2>4, <2>5, BecomeKeepsSizes
<1>7. ASSUME IdsLeft, Become(TakeRowId(Tree)), Refuse PROVE SizesOK'
  <2> DEFINE t == TakeRowId(Tree)
  <2> HIDE DEF t
  <2>1. Sized(t) /\ DOMAIN file.pages \subseteq DOMAIN t.pages /\ Become(t)
        /\ t.header.next_row_id \in 1..(MaxRowId + 1)
    BY <1>2, <1>3, <1>4, <1>7 DEF t
  <2>2. phase' \in {"running", "refused"} /\ todo' \subseteq todo
    BY <1>7 DEF Refuse
  <2> QED
    BY <2>1, <2>2, BecomeKeepsSizes
<1>8. ASSUME NEW key \in Keys, DeleteRow(key) PROVE SizesOK'
  <2> DEFINE u == Removed(Tree, key)
  <2>1. Become(u) /\ phase' = "running" /\ todo' \subseteq todo
    BY <1>8 DEF DeleteRow, At, Done
  <2>2. Changed(Tree, u, {}) /\ Sized(u)
    BY <1>2, RemovedChanges, RemovedIsSized
  <2> HIDE DEF u
  <2>3. DOMAIN file.pages \subseteq DOMAIN u.pages /\ u.header.next_row_id \in 1..(MaxRowId + 1)
    BY <1>3, <1>4, <2>2 DEF Changed
  <2> QED
    BY <2>1, <2>2, <2>3, BecomeKeepsSizes
<1>9. ASSUME NEW key \in Keys, NEW new \in Keys, NEW size \in Sizes, UpdateRow(key, new, size)
      PROVE  SizesOK'
  <2> DEFINE t == TakeRowId(Tree)
             row == NewRow(new, size)
             fewer == Removed(Tree, key)
             rest == Removed(t, key)
             u == Added(rest, row)
  <2>1. Become(u) /\ MayAdd(fewer, row) /\ IdsLeft /\ phase' = "running" /\ todo' \subseteq todo
    BY <1>9 DEF UpdateRow, At, Done
  <2>2. Alike(fewer, rest) /\ IsTree(fewer) /\ Changed(t, rest, {}) /\ Sized(rest)
    <3>1. Alike(fewer, rest)
      BY <1>2, AlikeRemoved
    <3>2. Changed(Tree, fewer, {}) /\ Changed(t, rest, {})
      BY <1>2, RemovedChanges
    <3>3. Sized(rest)
      BY <1>2, RemovedIsSized
    <3> QED
      BY <3>1, <3>2, <3>3 DEF Changed
  <2>3. IsRow(row)
    BY <1>5
  <2> HIDE DEF t, row, fewer, rest
  <2>4. IsTree(rest)
    BY <2>2 DEF Changed
  <2>5. Changed(rest, u, {row}) /\ Sized(u)
    BY <2>1, <2>2, <2>3, <2>4, AddedChanges, AddedIsSized
  <2> HIDE DEF u
  <2>6. /\ DOMAIN t.pages \subseteq DOMAIN u.pages
        /\ u.header.next_row_id = t.header.next_row_id
    BY <2>2, <2>5 DEF Changed
  <2>7. DOMAIN file.pages \subseteq DOMAIN u.pages /\ u.header.next_row_id \in 1..(MaxRowId + 1)
    BY <1>3, <1>4, <2>1, <2>6 DEF t
  <2> QED
    BY <2>1, <2>5, <2>7, BecomeKeepsSizes
<1>10. ASSUME FailToRead PROVE SizesOK'
  <2>1. CASE statement = "delete"
    <3>1. Become(Tree) /\ phase' = "refused" /\ todo' \subseteq todo
      BY <1>10, <2>1 DEF FailToRead, Refuse
    <3> DEFINE u == Tree
    <3> HIDE DEF u
    <3>2. Sized(u) /\ DOMAIN file.pages \subseteq DOMAIN u.pages /\ Become(u)
          /\ u.header.next_row_id \in 1..(MaxRowId + 1)
      BY <1>2, <1>3, <1>4, <3>1 DEF u
    <3> QED
      BY <3>1, <3>2, BecomeKeepsSizes
  <2>2. CASE statement # "delete"
    BY <1>7, <1>10, <2>2 DEF FailToRead
  <2> QED
    BY <2>1, <2>2
<1>11. ASSUME Begin PROVE SizesOK'
  <2>1. todo' \subseteq Keys
    BY <1>11, KeysInTheFile DEF Begin, KeysFor
  <2> QED
    BY <1>11, <2>1, OpenFileKeepsSizes DEF Begin
<1>12. ASSUME Crash PROVE SizesOK'
  BY <1>12, OpenFileKeepsSizes DEF Crash
<1>13. ASSUME UNCHANGED vars PROVE SizesOK'
  <2>1. UNCHANGED <<file, catalog, pool, phase, todo>>
    BY <1>13 DEF vars
  <2> QED
    BY <2>1 DEF TypesInv, SizesOK
<1>14. ASSUME NEW key \in Keys, InsertDuplicate(key) PROVE SizesOK'
  BY <1>7, <1>14 DEF InsertDuplicate
<1>15. ASSUME NEW key \in Keys, NEW new \in Keys, UpdateDuplicate(key, new) PROVE SizesOK'
  BY <1>7, <1>15 DEF UpdateDuplicate
<1>16. ASSUME NEW p \in DOMAIN pool, WriteBack(p) PROVE SizesOK'
  BY <1>16, WriteBackKeepsSizes
<1>17. ASSUME Answer PROVE SizesOK'
  BY <1>17, AnswerKeepsSizes
<1>18. SizesOK'
  <2> HIDE DEF SizesOK
  <2> QED
    BY <1>6, <1>8, <1>9, <1>10, <1>11, <1>12, <1>13, <1>14, <1>15, <1>16, <1>17, Zenon DEF Next
<1> QED
  BY <1>1, <1>18 DEF TypesInv

LEMMA InitHasTypesInv == Init => TypesInv
<1> SUFFICES ASSUME Init PROVE TypesInv
  OBVIOUS
<1>1. IInv
  BY InitHasIInv
<1>2. /\ file.pages = NoPages /\ pool = NoPages
      /\ file.header.next_row_id = 1 /\ catalog.header.next_row_id = 1
      /\ phase = "new" /\ todo = {}
  BY DEF Init
<1>3. AreRoomy(NoPages) /\ Numbered(DOMAIN NoPages)
  <2>1. DOMAIN NoPages = 2..(0 + 1)
    BY NoPagesAreEmpty
  <2> QED
    BY <2>1, NoPagesAreEmpty DEF AreRoomy, Numbered
<1> QED
  BY <1>1, <1>2, <1>3, EngineAssumption DEF TypesInv, SizesOK

(* Whatever is written before a crash or a refusal, the pages of the table *)
(* are numbered without gaps, page 0 names only pages of the table, on     *)
(* disk as in memory, row ids stay within their bound, and no leaf holds   *)
(* rows beyond the room it counts as used, nor counts more than it has.    *)
THEOREM EngineTypesAreKept == Spec => []TypeOK
<1>1. TypesInv => TypeOK
  <2> SUFFICES ASSUME TypesInv PROVE TypeOK
    OBVIOUS
  <2>1. DOMAIN file.pages = PageIds
    <3>1. PICK n \in Nat : DOMAIN file.pages = 2..(n + 1)
      BY DEF TypesInv, SizesOK, Numbered
    <3>2. Cardinality(DOMAIN file.pages) = n
      BY <3>1, FS_Interval
    <3> QED
      BY <3>1, <3>2 DEF PageIds
  <2>2. DOMAIN pool \subseteq PageIds /\ catalog.dirty \in BOOLEAN /\ cutShort \in BOOLEAN
    BY <2>1 DEF TypesInv, IInv, StateOK
  <2>3. ASSUME NEW h, IsHeader(h), Named(h, PageIds), h.next_row_id \in 1..(MaxRowId + 1)
        PROVE  h \in Headers
    BY <2>3 DEF IsHeader, Named, Headers
  <2>4. file.header \in Headers /\ catalog.header \in Headers
    BY <2>1, <2>3 DEF TypesInv, IInv, StateOK, SizesOK
  <2>5. \A p \in PageIds : Units(Tree.pages[p].rows) <= Tree.pages[p].used
                           /\ Tree.pages[p].used <= LeafCap
    <3>1. Sized(Tree) /\ DOMAIN Tree.pages = PageIds
      BY <2>1, TheTableIsSized, TheTable DEF TypesInv, IInv
    <3> QED
      BY <3>1 DEF Sized, AreRoomy, IsRoomy
  <2> QED
    BY <2>1, <2>2, <2>4, <2>5 DEF TypeOK, TypesInv, SizesOK
<1> QED
  BY <1>1, InitHasTypesInv, NextKeepsTypesInv, PTL DEF Spec

-----------------------------------------------------------------------------
(* Trees that show their rows to the index and to a sequential scan.       *)
LeafSet(pages, r) ==
    IF r = NoPage THEN {}
    ELSE IF pages[r].kind = "node" THEN Range(pages[r].kids)
    ELSE {r}

(* A root whose two leaves are linked and in order.                        *)
LinkedPair(pages, r) ==
    LET low == pages[r].kids[1]
        high == pages[r].kids[2]
    IN  /\ pages[r].kind = "node"
        /\ pages[low].kind = "leaf" /\ pages[low].next = high
        /\ pages[high].kind = "leaf" /\ pages[high].next = NoPage
        /\ \A row \in pages[low].rows : row.key <= pages[r].sep
        /\ \A row \in pages[high].rows : row.key >= pages[r].sep

Linked(pages, r) ==
    \/ r = NoPage
    \/ pages[r].kind = "leaf" /\ pages[r].next = NoPage
    \/ LinkedPair(pages, r)

(* All rows are in the leaves below r.                                     *)
Reached(pages, r) == \A p \in DOMAIN pages \ LeafSet(pages, r) : pages[p].rows = {}

NoNodeFree(pages, h) == \A p \in Range(h.free_pages) : pages[p].kind # "node"

Good(t) ==
    /\ Linked(t.pages, t.header.root) /\ Reached(t.pages, t.header.root)
    /\ NoNodeFree(t.pages, t.header)

(* What a page is, whatever tree it is in.                                 *)
IsKind(c, ids) ==
    /\ c.kind \in {"leaf", "node", "zeroed"}
    /\ c.kind # "leaf" => c.rows = {}
    /\ c.kind = "node" => (\E a, b \in ids : a # b /\ c.kids = <<a, b>>) /\ c.sep \in Nat
    /\ \A r, s \in c.rows : r.key = s.key => r = s

(* Only the root is ever freed, and it is the next page to be allocated.   *)
FreeOK(h) ==
    \/ h.free_pages = <<>>
    \/ h.root = NoPage /\ \E p : h.free_pages = <<p>>

Neat(t) ==
    /\ Sized(t) /\ FreeOK(t.header)
    /\ \A p \in DOMAIN t.pages : IsKind(t.pages[p], DOMAIN t.pages)

(* Pages whose rows may differ but whose place in a tree does not.         *)
SameShape(c, d) ==
    c.kind = d.kind /\ c.next = d.next /\ (c.kind = "node" => c.kids = d.kids /\ c.sep = d.sep)
SameShapes(pages, others) ==
    DOMAIN pages = DOMAIN others /\ \A p \in DOMAIN pages : SameShape(pages[p], others[p])

LEMMA PageIdsOf ==
    ASSUME NEW t, Sized(t)
    PROVE  NoPage \notin DOMAIN t.pages /\ Cardinality(DOMAIN t.pages) + 2 \notin DOMAIN t.pages
           /\ Cardinality(DOMAIN t.pages) + 2 # NoPage
<1>1. PICK n \in Nat : DOMAIN t.pages = 2..(n + 1)
  BY DEF Sized, Numbered
<1>2. Cardinality(DOMAIN t.pages) = n
  BY <1>1, FS_Interval
<1> QED
  BY <1>1, <1>2 DEF NoPage

LEMMA LeavesOfLinked ==
    ASSUME NEW pages, \A p \in DOMAIN pages : IsKind(pages[p], DOMAIN pages),
           NEW r, r = NoPage \/ r \in DOMAIN pages, Linked(pages, r)
    PROVE  /\ LeafSet(pages, r) \subseteq DOMAIN pages
           /\ \A p \in LeafSet(pages, r) : pages[p].kind = "leaf"
           /\ r # NoPage /\ pages[r].kind = "node" =>
                /\ LinkedPair(pages, r)
                /\ \E a, b \in DOMAIN pages : a # b /\ pages[r].kids = <<a, b>> /\ LeafSet(pages, r) = {a, b}
           /\ r # NoPage /\ pages[r].kind # "node" => LeafSet(pages, r) = {r} /\ pages[r].next = NoPage
<1>1. CASE r = NoPage
  BY <1>1 DEF LeafSet
<1>2. CASE r # NoPage /\ pages[r].kind # "node"
  BY <1>2 DEF LeafSet, Linked, LinkedPair
<1>3. CASE r # NoPage /\ pages[r].kind = "node"
  <2>1. LinkedPair(pages, r)
    BY <1>3 DEF Linked
  <2>2. PICK a \in DOMAIN pages, b \in DOMAIN pages : a # b /\ pages[r].kids = <<a, b>>
    BY <1>3 DEF IsKind
  <2>3. LeafSet(pages, r) = {a, b}
    <3>1. LeafSet(pages, r) = Range(<<a, b>>)
      BY <1>3, <2>2 DEF LeafSet
    <3> QED
      BY <3>1 DEF Range
  <2> QED
    BY <1>3, <2>1, <2>2, <2>3 DEF LinkedPair
<1> QED
  BY <1>1, <1>2, <1>3

LEMMA GoodIsSound == ASSUME NEW t, Neat(t), Good(t), Apart(t.pages) PROVE Sound(t)
<1> DEFINE r == t.header.root
           ps == t.pages
<1>1. r = NoPage \/ r \in DOMAIN ps
  BY DEF Neat, Sized, IsTree, Named
<1>2. Leaves(t) = LeafSet(ps, r)
  BY DEF Leaves, LeafSet
<1>3. /\ LeafSet(ps, r) \subseteq DOMAIN ps
      /\ \A p \in LeafSet(ps, r) : ps[p].kind = "leaf"
      /\ r # NoPage /\ ps[r].kind = "node" => LinkedPair(ps, r)
      /\ r # NoPage /\ ps[r].kind # "node" => LeafSet(ps, r) = {r} /\ ps[r].next = NoPage
  <2> HIDE DEF r, ps
  <2>1. Linked(ps, r) /\ \A p \in DOMAIN ps : IsKind(ps[p], DOMAIN ps)
    BY DEF Good, Neat, r, ps
  <2> QED
    BY <1>1, <2>1, LeavesOfLinked
<1>4. Rows(t) = UNION {ps[p].rows : p \in Leaves(t)}
  <2>1. \A p \in DOMAIN ps \ Leaves(t) : ps[p].rows = {}
    BY <1>2 DEF Good, Reached
  <2> QED
    BY <1>2, <1>3, <2>1 DEF Rows
<1>5. Range(t.header.free_pages) \intersect (Leaves(t) \union {r}) = {}
  <2>1. CASE t.header.free_pages = <<>>
    BY <2>1 DEF Range
  <2>2. CASE t.header.free_pages # <<>>
    <3>1. r = NoPage /\ Leaves(t) = {}
      BY <2>2 DEF Neat, FreeOK, Leaves
    <3>2. Range(t.header.free_pages) \subseteq DOMAIN ps
      BY DEF Neat, Sized, IsTree, Named, Range
    <3> QED
      BY <3>1, <3>2, PageIdsOf DEF Neat
  <2> QED
    BY <2>1, <2>2
<1>6. r # NoPage =>
        \/ ps[r].kind = "leaf" /\ ps[r].next = NoPage
        \/ /\ ps[r].kind = "node"
           /\ ps[ps[r].kids[1]].next = ps[r].kids[2]
           /\ ps[ps[r].kids[2]].next = NoPage
           /\ \A row \in ps[ps[r].kids[1]].rows : row.key <= ps[r].sep
           /\ \A row \in ps[ps[r].kids[2]].rows : row.key >= ps[r].sep
  BY <1>3 DEF LinkedPair
<1> QED
  BY <1>2, <1>3, <1>4, <1>5, <1>6 DEF Sound

LEMMA SoundIsLinked ==
    ASSUME NEW t, Neat(t), Sound(t)
    PROVE  /\ Linked(t.pages, t.header.root)
           /\ t.header.root = NoPage => Reached(t.pages, t.header.root)
<1> DEFINE r == t.header.root
           ps == t.pages
<1>1. CASE r = NoPage
  BY <1>1 DEF Linked, Reached, Sound, Rows, Leaves
<1>2. CASE r # NoPage /\ ps[r].kind # "node"
  BY <1>2 DEF Linked, Sound, Leaves
<1>3. CASE r # NoPage /\ ps[r].kind = "node"
  <2>1. r \in DOMAIN ps
    BY <1>3 DEF Neat, Sized, IsTree, Named
  <2>2. PICK a \in DOMAIN ps, b \in DOMAIN ps : a # b /\ ps[r].kids = <<a, b>>
    BY <1>3, <2>1 DEF Neat, IsKind
  <2>3. Leaves(t) = {a, b}
    <3>1. Leaves(t) = Range(<<a, b>>)
      BY <1>3, <2>2 DEF Leaves
    <3> QED
      BY <3>1 DEF Range
  <2>4. ps[a].kind = "leaf" /\ ps[b].kind = "leaf"
    BY <2>3 DEF Sound
  <2>5. LinkedPair(ps, r)
    BY <1>3, <2>2, <2>4 DEF Sound, LinkedPair
  <2> QED
    BY <1>3, <2>5 DEF Linked
<1> QED
  BY <1>1, <1>2, <1>3

LEMMA ShapesKeepLinks ==
    ASSUME NEW pages, NEW others, SameShapes(pages, others),
           \A p \in DOMAIN pages : IsKind(pages[p], DOMAIN pages),
           NEW r, r = NoPage \/ r \in DOMAIN pages, Linked(pages, r)
    PROVE  /\ LeafSet(others, r) = LeafSet(pages, r)
           /\ (r # NoPage /\ pages[r].kind = "node" =>
                 /\ \A row \in others[pages[r].kids[1]].rows : row.key <= pages[r].sep
                 /\ \A row \in others[pages[r].kids[2]].rows : row.key >= pages[r].sep)
              => Linked(others, r)
<1>1. CASE r = NoPage
  BY <1>1 DEF LeafSet, Linked
<1>2. CASE r # NoPage /\ pages[r].kind # "node"
  BY <1>2 DEF LeafSet, Linked, LinkedPair, SameShapes, SameShape
<1>3. CASE r # NoPage /\ pages[r].kind = "node"
  <2>1. LinkedPair(pages, r)
    BY <1>3 DEF Linked
  <2>2. PICK a \in DOMAIN pages, b \in DOMAIN pages : a # b /\ pages[r].kids = <<a, b>>
    BY <1>3 DEF IsKind
  <2>3. others[r].kind = "node" /\ others[r].kids = <<a, b>> /\ others[r].sep = pages[r].sep
    BY <1>3, <2>2 DEF SameShapes, SameShape
  <2>4. /\ others[a].kind = pages[a].kind /\ others[a].next = pages[a].next
        /\ others[b].kind = pages[b].kind /\ others[b].next = pages[b].next
    BY <2>2 DEF SameShapes, SameShape
  <2>5. LeafSet(others, r) = LeafSet(pages, r)
    BY <1>3, <2>2, <2>3 DEF LeafSet
  <2> QED
    BY <1>3, <2>1, <2>2, <2>3, <2>4, <2>5 DEF LinkedPair, Linked
<1> QED
  BY <1>1, <1>2, <1>3

(* Page by page: what an insertion without a split does.                   *)
OneRowAdded(t, u, row) ==
    /\ SameShapes(t.pages, u.pages)
    /\ RowsIn(u.pages) = RowsIn(t.pages) \union {row}
    /\ \A q \in DOMAIN t.pages : /\ t.pages[q].rows \subseteq u.pages[q].rows
                                 /\ u.pages[q].rows \subseteq t.pages[q].rows \union {row}

LEMMA TargetIsALeaf ==
    ASSUME NEW t, Neat(t), Good(t), t.header.root # NoPage, NEW key \in Nat
    PROVE  LET r == t.header.root
               p == TargetLeaf(t, key)
           IN  /\ p \in DOMAIN t.pages /\ t.pages[p].kind = "leaf"
               /\ p \in LeafSet(t.pages, r)
               /\ t.pages[r].kind = "node" =>
                     \/ p = t.pages[r].kids[1] /\ p # t.pages[r].kids[2] /\ key <= t.pages[r].sep
                     \/ p = t.pages[r].kids[2] /\ p # t.pages[r].kids[1] /\ key >= t.pages[r].sep
<1> DEFINE r == t.header.root
           ps == t.pages
           p == TargetLeaf(t, key)
<1>1. /\ r \in DOMAIN ps /\ Linked(ps, r)
      /\ \A q \in DOMAIN ps : IsKind(ps[q], DOMAIN ps)
  BY DEF Neat, Sized, IsTree, Named, Good
<1>2. CASE ps[r].kind = "leaf"
  BY <1>1, <1>2 DEF TargetLeaf, LeafSet
<1>3. CASE ps[r].kind # "leaf"
  <2>1. LinkedPair(ps, r) /\ r # NoPage
    BY <1>1, <1>3 DEF Linked
  <2>2. ps[r].kind = "node"
    BY <2>1 DEF LinkedPair
  <2>3. PICK a \in DOMAIN ps, b \in DOMAIN ps : a # b /\ ps[r].kids = <<a, b>>
    BY <1>1, <2>2 DEF IsKind
  <2>4. LeafSet(ps, r) = {a, b}
    <3>1. LeafSet(ps, r) = Range(<<a, b>>)
      BY <2>1, <2>2, <2>3 DEF LeafSet
    <3> QED
      BY <3>1 DEF Range
  <2>5. p = IF key <= ps[r].sep THEN a ELSE b
    BY <2>2, <2>3 DEF TargetLeaf
  <2>6. ps[r].sep \in Nat
    BY <1>1, <2>2 DEF IsKind
  <2>7. key <= ps[r].sep \/ key >= ps[r].sep
    BY <2>6
  <2> HIDE DEF p, ps, r
  <2>8. ps[a].kind = "leaf" /\ ps[b].kind = "leaf"
    BY <2>1, <2>3 DEF LinkedPair
  <2>9. \/ p = a /\ key <= ps[r].sep
        \/ p = b /\ key >= ps[r].sep
    BY <2>5, <2>7
  <2> QED
    BY <2>3, <2>4, <2>8, <2>9 DEF p, ps, r
<1> QED
  BY <1>2, <1>3

LEMMA PutIsGood ==
    ASSUME NEW t, Neat(t), Good(t), t.header.root # NoPage,
           NEW row, IsRow(row), Fits(t, row), row.key \notin KeysOf(RowsIn(t.pages))
    PROVE  LET u == Put(t, row)
           IN  Neat(u) /\ Good(u) /\ u.header = t.header /\ OneRowAdded(t, u, row)
<1> DEFINE r == t.header.root
           ps == t.pages
           p == TargetLeaf(t, row.key)
           u == Put(t, row)
           us == u.pages
<1>1. row.key \in Nat
  BY EngineAssumption DEF IsRow
<1>2. /\ p \in DOMAIN ps /\ ps[p].kind = "leaf" /\ p \in LeafSet(ps, r)
      /\ ps[r].kind = "node" =>
           \/ p = ps[r].kids[1] /\ p # ps[r].kids[2] /\ row.key <= ps[r].sep
           \/ p = ps[r].kids[2] /\ p # ps[r].kids[1] /\ row.key >= ps[r].sep
  BY <1>1, TargetIsALeaf
<1>3. Sized(u) /\ u.header = t.header
  BY PutIsSized DEF Neat, Sized, IsTree, Put
<1>4. us = [ps EXCEPT ![p].rows = @ \union {row}, ![p].used = @ + row.size]
  BY DEF Put, Neat, Sized, IsTree
<1>5. IsPage(ps[p])
  BY <1>2 DEF Neat, Sized, IsTree, ArePages
<1> HIDE DEF p, us, u
<1>6. /\ DOMAIN us = DOMAIN ps /\ \A q \in DOMAIN ps : q # p => us[q] = ps[q]
      /\ us[p].rows = ps[p].rows \union {row}
      /\ us[p].kind = ps[p].kind /\ us[p].next = ps[p].next
      /\ us[p].kids = ps[p].kids /\ us[p].sep = ps[p].sep
  BY <1>2, <1>4, <1>5 DEF IsPage
<1>7. \A q \in DOMAIN ps : IsKind(ps[q], DOMAIN ps)
  BY DEF Neat
<1>8. \A q \in DOMAIN us : IsKind(us[q], DOMAIN us)
  <2>1. IsKind(us[p], DOMAIN us)
    <3>1. \A s \in ps[p].rows : s.key # row.key
      BY <1>2 DEF KeysOf, RowsIn
    <3>2. \A a, b \in ps[p].rows : a.key = b.key => a = b
      BY <1>2, <1>7 DEF IsKind
    <3>3. us[p].kind = "leaf"
      BY <1>2, <1>6
    <3> QED
      BY <1>6, <3>1, <3>2, <3>3 DEF IsKind
  <2> QED
    BY <1>6, <1>7, <2>1
<1>9. SameShapes(ps, us)
  BY <1>6 DEF SameShapes, SameShape
<1>10. Linked(ps, r) /\ Reached(ps, r) /\ NoNodeFree(ps, t.header) /\ (r = NoPage \/ r \in DOMAIN ps)
  BY DEF Good, Neat, Sized, IsTree, Named
<1> HIDE DEF ps, r
<1>11. /\ LeafSet(us, r) = LeafSet(ps, r) /\ Linked(us, r)
  <2>1. r # NoPage /\ ps[r].kind = "node" =>
          /\ \A s \in us[ps[r].kids[1]].rows : s.key <= ps[r].sep
          /\ \A s \in us[ps[r].kids[2]].rows : s.key >= ps[r].sep
    <3> SUFFICES ASSUME r # NoPage, ps[r].kind = "node"
                 PROVE  /\ \A s \in us[ps[r].kids[1]].rows : s.key <= ps[r].sep
                        /\ \A s \in us[ps[r].kids[2]].rows : s.key >= ps[r].sep
      OBVIOUS
    <3>1. PICK a \in DOMAIN ps, b \in DOMAIN ps : a # b /\ ps[r].kids = <<a, b>>
      BY <1>7, <1>10 DEF IsKind
    <3>2. LinkedPair(ps, r)
      BY <1>10 DEF Linked
    <3>3. /\ \A s \in ps[a].rows : s.key <= ps[r].sep
          /\ \A s \in ps[b].rows : s.key >= ps[r].sep
      BY <3>1, <3>2 DEF LinkedPair
    <3>4. /\ \A s \in us[a].rows : s.key <= ps[r].sep
          /\ \A s \in us[b].rows : s.key >= ps[r].sep
      <4>1. CASE p = a /\ row.key <= ps[r].sep
        BY <1>6, <3>1, <3>3, <4>1
      <4>2. CASE p = b /\ row.key >= ps[r].sep
        BY <1>6, <3>1, <3>3, <4>2
      <4> QED
        BY <1>2, <3>1, <4>1, <4>2
    <3> QED
      BY <3>1, <3>4
  <2> QED
    BY <1>7, <1>9, <1>10, <2>1, ShapesKeepLinks
<1>12. Reached(us, r)
  BY <1>2, <1>6, <1>10, <1>11 DEF Reached
<1>13. NoNodeFree(us, t.header)
  <2>1. \A q \in DOMAIN ps : us[q].kind = ps[q].kind
    BY <1>9 DEF SameShapes, SameShape
  <2>2. Range(t.header.free_pages) \subseteq DOMAIN ps
    BY DEF Neat, Sized, IsTree, Named, Range, ps
  <2> QED
    BY <1>10, <2>1, <2>2 DEF NoNodeFree
<1>14. RowsIn(us) = RowsIn(ps) \union {row}
  BY <1>2, <1>6 DEF RowsIn
<1>15. Neat(u) /\ Good(u)
  <2>1. FreeOK(t.header)
    BY DEF Neat
  <2> QED
    BY <1>3, <1>8, <1>11, <1>12, <1>13, <2>1 DEF Neat, Good, us, r
<1>16. OneRowAdded(t, u, row)
  BY <1>6, <1>9, <1>14 DEF OneRowAdded, us, ps
<1> QED
  BY <1>3, <1>15, <1>16 DEF u

(* Page by page: what a removal does; the root is the only page it frees.  *)
KeyRemoved(t, u, key) ==
    /\ SameShapes(t.pages, u.pages)
    /\ \A q \in DOMAIN t.pages : u.pages[q].rows = {r \in t.pages[q].rows : r.key # key}

RootRemoved(t, u) ==
    /\ t.header.root \in DOMAIN t.pages /\ t.pages[t.header.root].kind = "leaf"
    /\ t.header.free_pages = <<>>
    /\ u.header.root = NoPage /\ u.header.free_pages = <<t.header.root>>

(* A page without the rows of a key.                                       *)
KeptOf(c, d, key) ==
    /\ d.rows = {s \in c.rows : s.key # key} /\ d.rows \subseteq c.rows
    /\ d.kind = c.kind /\ d.next = c.next /\ d.kids = c.kids /\ d.sep = c.sep

LEMMA PurgedKeeps ==
    ASSUME NEW c, IsPage(c), NEW key
    PROVE  KeptOf(c, Purged(c, key), key)
<1> DEFINE rest == {r \in c.rows : r.key # key}
           units == Units(rest)
<1>1. Purged(c, key) = [c EXCEPT !.rows = rest, !.used = units]
  BY DEF Purged
<1> HIDE DEF rest, units
<1> DEFINE d == Purged(c, key)
<1>2. /\ d.rows = rest
      /\ d.kind = c.kind /\ d.next = c.next /\ d.kids = c.kids /\ d.sep = c.sep
  BY <1>1 DEF IsPage
<1> HIDE DEF d
<1>3. rest = {s \in c.rows : s.key # key}
  BY DEF rest
<1>4. rest \subseteq c.rows
  BY DEF rest
<1>5. d.rows = {s \in c.rows : s.key # key}
  BY <1>2, <1>3
<1>6. d.rows \subseteq c.rows
  BY <1>2, <1>4
<1>7. KeptOf(c, d, key)
  BY <1>2, <1>5, <1>6 DEF KeptOf
<1> QED
  BY <1>7 DEF d

LEMMA RemovedIsGood ==
    ASSUME NEW t, Neat(t), Good(t), NEW key
    PROVE  LET u == Removed(t, key)
           IN  /\ Neat(u) /\ Good(u) /\ KeyRemoved(t, u, key)
               /\ RootFreed(t, key) => RootRemoved(t, u)
               /\ ~RootFreed(t, key) => u.header = t.header /\ u.dirty = t.dirty
<1> DEFINE r == t.header.root
           ps == t.pages
           u == Removed(t, key)
           us == u.pages
           H == Holders(t, key)
<1>1. IsTree(t)
  BY DEF Neat, Sized
<1>2. /\ us = [p \in DOMAIN ps |-> IF p \in H THEN Purged(ps[p], key) ELSE ps[p]]
      /\ RootFreed(t, key) => /\ r \in DOMAIN ps
                              /\ u.header.root = NoPage
                              /\ u.header.free_pages = Append(t.header.free_pages, r)
      /\ ~RootFreed(t, key) => u.header = t.header /\ u.dirty = t.dirty
  BY <1>1, RemovedIs
<1>3. Sized(u)
  BY RemovedIsSized DEF Neat
<1>4. /\ r = NoPage \/ r \in DOMAIN ps
      /\ Linked(ps, r) /\ Reached(ps, r) /\ NoNodeFree(ps, t.header)
      /\ \A q \in DOMAIN ps : IsKind(ps[q], DOMAIN ps)
      /\ Leaves(t) = LeafSet(ps, r)
  BY <1>1 DEF Good, Neat, IsTree, Named, Leaves, LeafSet
<1> HIDE DEF us, u
<1>5. ASSUME NEW q \in DOMAIN ps
      PROVE  /\ us[q].rows = {s \in ps[q].rows : s.key # key} /\ us[q].rows \subseteq ps[q].rows
             /\ us[q].kind = ps[q].kind /\ us[q].next = ps[q].next
             /\ us[q].kids = ps[q].kids /\ us[q].sep = ps[q].sep
  <2>1. CASE q \in H
    <3> DEFINE c == ps[q]
    <3>1. us[q] = Purged(c, key) /\ IsPage(c)
      BY <1>1, <1>2, <2>1 DEF IsTree, ArePages
    <3> HIDE DEF c
    <3>2. KeptOf(c, us[q], key)
      BY <3>1, PurgedKeeps
    <3> QED
      BY <3>2 DEF c, KeptOf
  <2>2. CASE q \notin H
    <3>1. us[q] = ps[q]
      BY <1>2, <2>2
    <3>2. \A s \in ps[q].rows : s.key # key
      <4>1. CASE q \in Leaves(t)
        BY <2>2, <4>1 DEF Holders, KeysOf
      <4>2. CASE q \notin Leaves(t)
        BY <1>4, <4>2 DEF Reached
      <4> QED
        BY <4>1, <4>2
    <3> QED
      BY <3>1, <3>2
  <2> QED
    BY <2>1, <2>2
<1> HIDE DEF H
<1>6. DOMAIN us = DOMAIN ps
  BY <1>2
<1>7. KeyRemoved(t, u, key) /\ SameShapes(ps, us)
  BY <1>5, <1>6 DEF KeyRemoved, SameShapes, SameShape, us
<1>8. \A q \in DOMAIN us : IsKind(us[q], DOMAIN us)
  <2> SUFFICES ASSUME NEW q \in DOMAIN ps PROVE IsKind(us[q], DOMAIN ps)
    BY <1>6
  <2>1. IsKind(ps[q], DOMAIN ps)
    BY <1>4
  <2>2. \A a, b \in us[q].rows : a.key = b.key => a = b
    BY <1>5, <2>1 DEF IsKind
  <2>3. us[q].kind # "leaf" => us[q].rows = {}
    BY <1>5, <2>1 DEF IsKind
  <2>4. us[q].kind = ps[q].kind /\ us[q].kids = ps[q].kids /\ us[q].sep = ps[q].sep
    BY <1>5
  <2> QED
    BY <2>1, <2>2, <2>3, <2>4 DEF IsKind
<1>9. CASE ~RootFreed(t, key)
  <2>1. LeafSet(us, r) = LeafSet(ps, r) /\ Linked(us, r)
    <3>1. r # NoPage /\ ps[r].kind = "node" =>
            /\ \A s \in us[ps[r].kids[1]].rows : s.key <= ps[r].sep
            /\ \A s \in us[ps[r].kids[2]].rows : s.key >= ps[r].sep
      <4> SUFFICES ASSUME r # NoPage, ps[r].kind = "node"
                   PROVE  /\ \A s \in us[ps[r].kids[1]].rows : s.key <= ps[r].sep
                          /\ \A s \in us[ps[r].kids[2]].rows : s.key >= ps[r].sep
        OBVIOUS
      <4>1. PICK a \in DOMAIN ps, b \in DOMAIN ps : a # b /\ ps[r].kids = <<a, b>>
        BY <1>4 DEF IsKind
      <4>2. LinkedPair(ps, r)
        BY <1>4 DEF Linked
      <4>3. /\ \A s \in ps[a].rows : s.key <= ps[r].sep
            /\ \A s \in ps[b].rows : s.key >= ps[r].sep
        BY <4>1, <4>2 DEF LinkedPair
      <4>4. us[a].rows \subseteq ps[a].rows /\ us[b].rows \subseteq ps[b].rows
        BY <1>5, <4>1
      <4> QED
        BY <4>1, <4>3, <4>4
    <3> HIDE DEF ps, r
    <3> QED
      BY <1>4, <1>7, <3>1, ShapesKeepLinks
  <2>2. Reached(us, r)
    <3>1. \A q \in DOMAIN ps : ps[q].rows = {} => us[q].rows = {}
      BY <1>5
    <3> QED
      BY <1>4, <1>6, <2>1, <3>1 DEF Reached
  <2>3. NoNodeFree(us, t.header)
    <3>1. \A q \in DOMAIN ps : us[q].kind = ps[q].kind
      BY <1>5
    <3>2. Range(t.header.free_pages) \subseteq DOMAIN ps
      BY <1>1 DEF IsTree, Named, Range
    <3> QED
      BY <1>4, <3>1, <3>2 DEF NoNodeFree
  <2>4. FreeOK(t.header) /\ u.header = t.header
    BY <1>2, <1>9 DEF Neat
  <2>5. Neat(u) /\ Good(u)
    BY <1>3, <1>8, <2>1, <2>2, <2>3, <2>4 DEF Neat, Good, us
  <2> QED
    BY <1>2, <1>7, <1>9, <2>5 DEF u
<1>10. CASE RootFreed(t, key)
  <2>1. r \in Leaves(t) /\ r \in DOMAIN ps
    BY <1>2, <1>10 DEF RootFreed, Holders
  <2>2. r # NoPage
    BY <2>1 DEF Leaves
  <2>3. \A p \in LeafSet(ps, r) : ps[p].kind = "leaf"
    <3> HIDE DEF ps, r
    <3> QED
      BY <1>4, LeavesOfLinked
  <2>4. ps[r].kind = "leaf" /\ LeafSet(ps, r) = {r}
    BY <1>4, <2>1, <2>2, <2>3 DEF LeafSet
  <2>5. t.header.free_pages = <<>>
    BY <2>2 DEF Neat, FreeOK
  <2>6. u.header.free_pages = <<r>> /\ u.header.root = NoPage
    BY <1>2, <1>10, <2>5
  <2>7. us[r].rows = {}
    <3> DEFINE c == ps[r]
    <3>1. IsPage(c) /\ Purged(c, key).rows = {}
      BY <1>1, <1>10, <2>1 DEF RootFreed, IsTree, ArePages
    <3> HIDE DEF c
    <3>2. {s \in c.rows : s.key # key} = {}
      BY <3>1, PurgedPage
    <3> QED
      BY <1>5, <2>1, <3>2 DEF c
  <2>8. \A q \in DOMAIN us : us[q].rows = {}
    BY <1>4, <1>5, <1>6, <2>4, <2>7 DEF Reached
  <2>9. Linked(us, NoPage) /\ Reached(us, NoPage)
    BY <2>8 DEF Linked, Reached
  <2>10. NoNodeFree(us, u.header)
    <3>1. Range(<<r>>) = {r}
      BY DEF Range
    <3>2. us[r].kind = "leaf"
      BY <1>5, <2>1, <2>4
    <3> QED
      BY <2>6, <3>1, <3>2 DEF NoNodeFree
  <2>11. FreeOK(u.header)
    BY <2>6 DEF FreeOK
  <2>12. Neat(u) /\ Good(u)
    BY <1>3, <1>8, <2>6, <2>9, <2>10, <2>11 DEF Neat, Good, us
  <2>13. RootRemoved(t, u)
    BY <2>1, <2>4, <2>5, <2>6 DEF RootRemoved
  <2> QED
    BY <1>7, <1>10, <2>12, <2>13 DEF u
<1> QED
  BY <1>9, <1>10

-----------------------------------------------------------------------------
(* What becomes of a tree.                                                 *)

(* Page by page, rows of these keys leave and those of new come.           *)
RowsChanged(t, u, keys, new) ==
    /\ DOMAIN t.pages \subseteq DOMAIN u.pages
    /\ \A q \in DOMAIN t.pages : u.pages[q].rows \subseteq t.pages[q].rows \union new
    /\ RowsIn(u.pages) = {r \in RowsIn(t.pages) : r.key \notin keys} \union new

(* The tree is where it was.                                               *)
TreeKept(t, u) ==
    /\ SameShapes(t.pages, u.pages)
    /\ u.header.root = t.header.root /\ u.header.free_pages = t.header.free_pages

(* There was none, and now there is a leaf: the free page or a new one.    *)
RootMade(t, u) ==
    LET p == u.header.root
    IN  /\ t.header.root = NoPage /\ u.header.free_pages = <<>>
        /\ p \in DOMAIN u.pages /\ p # NoPage
        /\ u.pages[p].kind = "leaf" /\ u.pages[p].next = NoPage
        /\ DOMAIN u.pages = DOMAIN t.pages \union {p}
        /\ t.header.free_pages = <<>> => p \notin DOMAIN t.pages
        /\ t.header.free_pages # <<>> => p = Head(t.header.free_pages)
        /\ \A q \in DOMAIN t.pages \ {p} : u.pages[q] = t.pages[q]

(* A leaf was the root and has now a neighbour, and a parent.              *)
RootMoved(t, u) ==
    LET low == t.header.root
        p == u.header.root
    IN  /\ low \in DOMAIN t.pages /\ t.pages[low].kind = "leaf"
        /\ u.header.free_pages = <<>>
        /\ p \in DOMAIN u.pages \ DOMAIN t.pages /\ p # NoPage
        /\ u.pages[p].kind = "node" /\ low \in LeafSet(u.pages, p)
        /\ u.pages[low].kind = "leaf" /\ u.pages[low].next # NoPage

(* A page that was a leaf without rows.                                    *)
LEMMA RootMadeIsGood ==
    ASSUME NEW t, Neat(t), Good(t), t.header.root = NoPage, NEW row, IsRow(row)
    PROVE  LET u == Added(t, row)
           IN  Neat(u) /\ Good(u) /\ RootMade(t, u) /\ RowsChanged(t, u, {}, {row})
<1> DEFINE leaf == Leaf({}, 0, NoPage)
           grown == Allocate(t, leaf)
           p == NewPage(t)
           v == SetRoot(grown, p)
           u == Put(v, row)
           ps == t.pages
           vs == v.pages
<1>1. /\ IsPage(leaf) /\ IsRoomy(leaf) /\ leaf.kind = "leaf" /\ leaf.used = 0
      /\ leaf.rows = {} /\ leaf.next = NoPage
  BY LiteralPages, RoomyLiterals DEF Leaf
<1>2. Added(t, row) = u
  BY DEF Added
<1>3. /\ Sized(t) /\ IsTree(t) /\ FreeOK(t.header) /\ t.header.free_pages \in Seq(DOMAIN ps)
      /\ \A q \in DOMAIN ps : IsKind(ps[q], DOMAIN ps)
  BY DEF Neat, Sized, IsTree, Named
<1>4. RowsIn(ps) = {} /\ \A q \in DOMAIN ps : ps[q].rows = {}
  BY DEF Good, Reached, LeafSet, RowsIn
<1> HIDE DEF leaf
<1>5. /\ Sized(grown) /\ DOMAIN grown.pages = DOMAIN ps \union {p}
      /\ grown.pages[p] = leaf /\ \A q \in DOMAIN ps : q # p => grown.pages[q] = ps[q]
  BY <1>1, <1>3, AllocateIsSized
<1>6. grown.header.free_pages = <<>>
  <2>1. CASE t.header.free_pages # <<>>
    <3>1. Tail(t.header.free_pages) = <<>>
      <4>1. PICK q : t.header.free_pages = <<q>>
        BY <1>3, <2>1 DEF FreeOK
      <4>2. Tail(<<q>>) = <<>>
        OBVIOUS
      <4> QED
        BY <4>1, <4>2
    <3> QED
      BY <1>3, <2>1, <3>1 DEF Allocate, IsTree, IsHeader
  <2>2. CASE ~(t.header.free_pages # <<>>)
    BY <1>3, <2>2 DEF Allocate, IsTree
  <2> QED
    BY <2>1, <2>2
<1>7. /\ t.header.free_pages # <<>> => p = Head(t.header.free_pages) /\ p \in DOMAIN ps
      /\ t.header.free_pages = <<>> => p \notin DOMAIN ps
      /\ p # NoPage
  <2>1. CASE t.header.free_pages # <<>>
    BY <1>3, <2>1, Lists, PageIdsOf DEF NewPage
  <2>2. CASE ~(t.header.free_pages # <<>>)
    BY <1>3, <2>2, PageIdsOf DEF NewPage
  <2> QED
    BY <2>1, <2>2
<1> HIDE DEF grown
<1>8. /\ Sized(v) /\ v.pages = grown.pages /\ v.header.root = p
      /\ v.header.free_pages = <<>>
  <2>1. Sized(v) /\ v.pages = grown.pages /\ v.header.root = p
    BY <1>5, SetRootIsSized, SetRootChanges DEF Sized
  <2>2. v.header.free_pages = grown.header.free_pages
    BY <1>5 DEF SetRoot, Sized, IsTree, IsHeader
  <2> QED
    BY <1>6, <2>1, <2>2
<1> HIDE DEF v, p, ps, u
<1>9. /\ DOMAIN vs = DOMAIN ps \union {p} /\ vs[p] = leaf
      /\ \A q \in DOMAIN ps : q # p => vs[q] = ps[q]
  BY <1>5, <1>8
<1>10. \A q \in DOMAIN vs : IsKind(vs[q], DOMAIN vs) /\ vs[q].rows = {}
  <2>1. IsKind(leaf, DOMAIN vs)
    BY <1>1 DEF IsKind
  <2>2. \A q \in DOMAIN ps : IsKind(ps[q], DOMAIN vs)
    BY <1>3, <1>9 DEF IsKind
  <2> QED
    BY <1>1, <1>4, <1>9, <2>1, <2>2
<1>11. Neat(v)
  BY <1>8, <1>10 DEF Neat, FreeOK
<1>12. Good(v)
  <2>1. Linked(vs, p)
    BY <1>1, <1>9 DEF Linked
  <2>2. Reached(vs, p)
    BY <1>10 DEF Reached
  <2>3. NoNodeFree(vs, v.header)
    BY <1>8 DEF NoNodeFree, Range
  <2> QED
    BY <1>8, <2>1, <2>2, <2>3 DEF Good
<1>13. Fits(v, row)
  <2>1. TargetLeaf(v, row.key) = p
    BY <1>1, <1>8, <1>9 DEF TargetLeaf
  <2> QED
    BY <1>1, <1>9, <2>1, EngineAssumption DEF Fits, IsRow
<1>14. row.key \notin KeysOf(RowsIn(v.pages))
  BY <1>10 DEF KeysOf, RowsIn
<1>15. Neat(u) /\ Good(u) /\ u.header = v.header /\ OneRowAdded(v, u, row)
  BY <1>7, <1>8, <1>11, <1>12, <1>13, <1>14, PutIsGood DEF u
<1>16. /\ DOMAIN u.pages = DOMAIN vs /\ \A q \in DOMAIN vs : SameShape(vs[q], u.pages[q])
       /\ RowsIn(u.pages) = RowsIn(vs) \union {row}
       /\ \A q \in DOMAIN vs : u.pages[q].rows \subseteq vs[q].rows \union {row}
  BY <1>15 DEF OneRowAdded, SameShapes
<1>17. RowsChanged(t, u, {}, {row})
  <2>1. RowsIn(vs) = {}
    BY <1>10 DEF RowsIn
  <2>2. RowsIn(u.pages) = {r \in RowsIn(t.pages) : r.key \notin {}} \union {row}
    BY <1>4, <1>16, <2>1 DEF ps
  <2>3. \A q \in DOMAIN ps : u.pages[q].rows \subseteq ps[q].rows \union {row}
    BY <1>4, <1>9, <1>10, <1>16
  <2> QED
    BY <1>9, <1>16, <2>2, <2>3 DEF RowsChanged, ps
<1>18. \A q \in DOMAIN ps \ {p} : u.pages[q] = ps[q]
  <2>1. TargetLeaf(v, row.key) = p
    BY <1>1, <1>8, <1>9 DEF TargetLeaf
  <2>2. u.pages = [vs EXCEPT ![p].rows = @ \union {row}, ![p].used = @ + row.size]
    BY <1>8, <2>1 DEF u, Put, Sized, IsTree
  <2>3. \A q \in DOMAIN vs : q # p => u.pages[q] = vs[q]
    BY <2>2
  <2> QED
    BY <1>9, <2>3
<1>19. RootMade(t, u)
  <2>1. SameShape(leaf, u.pages[p]) /\ u.header.root = p /\ u.header.free_pages = <<>>
    BY <1>8, <1>9, <1>15, <1>16
  <2>2. u.pages[p].kind = "leaf" /\ u.pages[p].next = NoPage
    BY <1>1, <2>1 DEF SameShape
  <2> QED
    BY <1>7, <1>9, <1>16, <1>18, <2>1, <2>2 DEF RootMade, ps
<1> QED
  BY <1>2, <1>15, <1>17, <1>19

(* The rows of a leaf have a first and a last one.                         *)
LEMMA ExtremeRows ==
    ASSUME NEW S, AreRows(S), S # {}
    PROVE  /\ \E m \in S : \A r \in S : m.key <= r.key
           /\ \E m \in S : \A r \in S : r.key <= m.key
<1>1. IsFiniteSet(S) /\ \A r \in S : r.key \in Nat
  BY EngineAssumption DEF AreRows
<1>2. \E m \in S : \A r \in S : m.key <= r.key
  <2> DEFINE Down(m) == {r \in S : r.key < m.key}
             B == {Down(m) : m \in S}
  <2>1. B \subseteq SUBSET S /\ B # {}
    BY <1>1
  <2> HIDE DEF B
  <2>2. PICK W \in B : \A V \in B : V \subseteq W => V = W
    BY <1>1, <2>1, SmallestSet
  <2>3. PICK m \in S : W = Down(m)
    BY <2>2 DEF B
  <2>4. ASSUME NEW r \in S PROVE m.key <= r.key
    <3>1. SUFFICES ASSUME r.key < m.key PROVE FALSE
      BY <1>1
    <3>2. Down(r) \subseteq Down(m) /\ r \in Down(m) /\ r \notin Down(r)
      BY <1>1, <3>1
    <3>3. Down(r) \in B
      BY DEF B
    <3> QED
      BY <2>2, <2>3, <3>2, <3>3
  <2> QED
    BY <2>4
<1>3. \E m \in S : \A r \in S : r.key <= m.key
  <2> DEFINE Up(m) == {r \in S : m.key < r.key}
             B == {Up(m) : m \in S}
  <2>1. B \subseteq SUBSET S /\ B # {}
    BY <1>1
  <2> HIDE DEF B
  <2>2. PICK W \in B : \A V \in B : V \subseteq W => V = W
    BY <1>1, <2>1, SmallestSet
  <2>3. PICK m \in S : W = Up(m)
    BY <2>2 DEF B
  <2>4. ASSUME NEW r \in S PROVE r.key <= m.key
    <3>1. SUFFICES ASSUME m.key < r.key PROVE FALSE
      BY <1>1
    <3>2. Up(r) \subseteq Up(m) /\ r \in Up(m) /\ r \notin Up(r)
      BY <1>1, <3>1
    <3>3. Up(r) \in B
      BY DEF B
    <3> QED
      BY <2>2, <2>3, <3>2, <3>3
  <2> QED
    BY <2>4
<1> QED
  BY <1>2, <1>3

(* The lower half of the rows of a leaf, as a split takes it.              *)
Rank(rows, r) == Cardinality({s \in rows : s.key < r.key})
LowerHalf(rows) == {r \in rows : Rank(rows, r) < Cardinality(rows) \div 2}

LEMMA HalvesAreInOrder ==
    ASSUME NEW rows, AreRows(rows), Cardinality(rows) > 1,
           \A r, s \in rows : r.key = s.key => r = s
    PROVE  LET upper == rows \ LowerHalf(rows)
               sep == Min(KeysOf(upper))
           IN  /\ sep \in Nat
               /\ \A r \in LowerHalf(rows) : r.key <= sep
               /\ \A r \in upper : r.key >= sep
<1> DEFINE n == Cardinality(rows)
           lower == LowerHalf(rows)
           upper == rows \ lower
           sep == Min(KeysOf(upper))
<1>1. IsFiniteSet(rows) /\ n \in Nat /\ \A r \in rows : r.key \in Nat
  BY EngineAssumption, FS_CardinalityType DEF AreRows
<1>2. \A r \in rows : Rank(rows, r) \in Nat
  <2> SUFFICES ASSUME NEW r \in rows PROVE Rank(rows, r) \in Nat
    OBVIOUS
  <2>1. {s \in rows : s.key < r.key} \in SUBSET rows
    OBVIOUS
  <2> QED
    BY <1>1, <2>1, FS_Subset, FS_CardinalityType DEF Rank
<1>3. upper # {}
  <2>1. rows # {}
    BY FS_EmptySet
  <2>2. PICK m \in rows : \A r \in rows : r.key <= m.key
    BY <2>1, ExtremeRows
  <2>3. {s \in rows : s.key < m.key} = rows \ {m}
    BY <1>1, <2>2
  <2>4. Rank(rows, m) = n - 1
    BY <1>1, <2>3, FS_RemoveElement DEF Rank
  <2> HIDE DEF n
  <2>5. ~(n - 1 < n \div 2)
    BY <1>1 DEF n
  <2>6. m \notin lower
    BY <2>4, <2>5 DEF LowerHalf, n
  <2> QED
    BY <2>6
<1>4. AreRows(upper)
  BY FewerRows
<1> HIDE DEF upper
<1>5. PICK m \in upper : \A r \in upper : m.key <= r.key
  BY <1>3, <1>4, ExtremeRows
<1>6. sep = m.key
  <2>1. m.key \in KeysOf(upper) /\ \A k \in KeysOf(upper) : m.key <= k /\ k \in Nat
    BY <1>1, <1>5 DEF KeysOf, upper
  <2>2. sep \in KeysOf(upper) /\ \A k \in KeysOf(upper) : sep <= k
    BY <2>1 DEF Min
  <2> QED
    BY <1>1, <2>1, <2>2
<1>7. ASSUME NEW r \in lower PROVE r.key <= m.key
  <2>1. r \in rows /\ m \in rows
    BY <1>5 DEF LowerHalf, upper
  <2> SUFFICES ASSUME m.key < r.key PROVE FALSE
    BY <1>1, <2>1
  <2>2. {s \in rows : s.key < m.key} \in SUBSET {s \in rows : s.key < r.key}
    BY <1>1, <2>1
  <2>3. IsFiniteSet({s \in rows : s.key < r.key})
    BY <1>1, FS_Subset
  <2>4. Rank(rows, m) <= Rank(rows, r)
    BY <2>2, <2>3, FS_Subset DEF Rank
  <2>5. Rank(rows, r) < n \div 2 /\ ~(Rank(rows, m) < n \div 2)
    BY <1>5, <2>1 DEF LowerHalf, upper
  <2>6. n \div 2 \in Nat
    BY <1>1
  <2> HIDE DEF n
  <2> QED
    BY <1>2, <2>1, <2>4, <2>5, <2>6
<1>8. sep \in Nat
  BY <1>1, <1>5, <1>6 DEF upper
<1> QED
  BY <1>1, <1>5, <1>6, <1>7, <1>8 DEF upper

LEMMA SplitIsGood ==
    ASSUME NEW t, Neat(t), Good(t), t.header.root # NoPage,
           t.pages[t.header.root].kind = "leaf",
           Cardinality(t.pages[t.header.root].rows) > 1
    PROVE  LET v == Split(t)
           IN  Neat(v) /\ Good(v) /\ Apart(v.pages) /\ RootMoved(t, v) /\ RowsChanged(t, v, {}, {})
<1> DEFINE ps == t.pages
           low == t.header.root
           rows == t.pages[low].rows
           used == t.pages[low].used
           lower == {r \in rows : Cardinality({s \in rows : s.key < r.key}) < Cardinality(rows) \div 2}
           upper == rows \ lower
           high == NewPage(t)
           new == Leaf(upper, Units(upper), NoPage)
           kept == Leaf(lower, used, high)
           grown == Allocate(t, new)
           split == [grown EXCEPT !.pages[low] = kept]
           sep == Min(KeysOf(upper))
           node == Node(low, high, sep)
           rooted == Allocate(split, node)
           top == NewPage(split)
           v == Split(t)
           vs == v.pages
<1>1. v = SetRoot(rooted, top)
  BY DEF Split
<1>2. /\ Sized(t) /\ IsTree(t) /\ FreeOK(t.header) /\ low \in DOMAIN ps
      /\ \A q \in DOMAIN ps : IsKind(ps[q], DOMAIN ps)
  BY DEF Neat, Sized, IsTree, Named
<1>3. /\ t.header.free_pages = <<>> /\ ps[low].next = NoPage
      /\ \A q \in DOMAIN ps \ {low} : ps[q].rows = {}
  <2>1. LeafSet(ps, low) = {low}
    BY DEF LeafSet
  <2>2. ps[low].next = NoPage
    BY DEF Good, Linked, LinkedPair
  <2> QED
    BY <1>2, <2>1, <2>2 DEF FreeOK, Good, Reached
<1>4. /\ sep \in Nat
      /\ \A r \in lower : r.key <= sep
      /\ \A r \in upper : r.key >= sep
  <2>1. AreRows(rows) /\ Cardinality(rows) > 1 /\ \A r, s \in rows : r.key = s.key => r = s
    BY <1>2 DEF Sized, AreRoomy, IsRoomy, IsKind
  <2> HIDE DEF rows
  <2>2. lower = LowerHalf(rows)
    BY DEF LowerHalf, Rank
  <2> HIDE DEF lower
  <2> QED
    BY <2>1, <2>2, HalvesAreInOrder
<1>5. lower \subseteq rows /\ upper \subseteq rows /\ rows = lower \union upper /\ lower \intersect upper = {}
  OBVIOUS
<1>6. Sized(v) /\ Changed(t, v, {})
  BY <1>2, SplitIsSized, SplitChanges
<1>7. high \notin DOMAIN ps /\ high # NoPage
  BY <1>2, <1>3, PageIdsOf DEF NewPage
<1> HIDE DEF rows, used, lower, upper, high, sep
<1>8. /\ IsPage(new) /\ new.kind = "leaf" /\ new.rows = upper /\ new.next = NoPage
      /\ IsPage(kept) /\ kept.kind = "leaf" /\ kept.rows = lower /\ kept.next = high
      /\ IsPage(node) /\ node.kind = "node" /\ node.rows = {} /\ node.kids = <<low, high>>
      /\ node.sep = sep
  BY LiteralPages DEF Leaf, Node
<1>9. IsRoomy(node) /\ IsRoomy(kept) /\ IsRoomy(new)
  <2>1. IsRoomy(ps[low]) /\ LeafCap \in Nat
    BY <1>2, EngineAssumption DEF Sized, AreRoomy
  <2>2. AreRows(rows) /\ used \in Nat /\ Units(rows) <= used /\ used <= LeafCap
    BY <2>1 DEF IsRoomy, rows, used
  <2>3. /\ AreRows(lower) /\ Units(lower) \in Nat /\ Units(lower) <= Units(rows)
        /\ AreRows(upper) /\ Units(upper) \in Nat /\ Units(upper) <= Units(rows)
        /\ Units(rows) \in Nat
    BY <1>5, <2>2, FewerRows, FewerUnits, UnitsAreCounted
  <2>4. Units(lower) <= used /\ Units(upper) <= LeafCap /\ Units(upper) <= Units(upper)
    BY <2>1, <2>2, <2>3
  <2>5. kept.used = used /\ new.used = Units(upper)
    BY DEF Leaf
  <2> QED
    BY <1>8, <2>2, <2>3, <2>4, <2>5, RoomyLiterals DEF IsRoomy
<1> HIDE DEF new, kept, node
<1>10. /\ Sized(grown) /\ DOMAIN grown.pages = DOMAIN ps \union {high}
       /\ grown.pages[high] = new /\ \A q \in DOMAIN ps : grown.pages[q] = ps[q]
  <2> HIDE DEF grown
  <2> QED
    BY <1>2, <1>7, <1>8, <1>9, AllocateIsSized DEF grown, high
<1>11. grown.header = t.header
  BY <1>2, <1>3 DEF Allocate, IsTree
<1> HIDE DEF grown, low
<1>12. /\ Sized(split) /\ split.header = t.header
       /\ split.pages = [grown.pages EXCEPT ![low] = kept]
  <2>1. Sized(split)
    BY <1>8, <1>9, <1>10, ReplaceIsSized
  <2>2. split.header = grown.header /\ split.pages = [grown.pages EXCEPT ![low] = kept]
    BY <1>10 DEF Sized, IsTree
  <2> QED
    BY <1>11, <2>1, <2>2
<1> HIDE DEF split
<1>13. /\ DOMAIN split.pages = DOMAIN ps \union {high}
       /\ split.pages[high] = new /\ split.pages[low] = kept
       /\ \A q \in DOMAIN ps : q # low => split.pages[q] = ps[q]
  BY <1>2, <1>7, <1>10, <1>12 DEF low
<1>14. top \notin DOMAIN split.pages /\ top # NoPage
  BY <1>3, <1>12, PageIdsOf DEF NewPage
<1>15. /\ Sized(rooted) /\ DOMAIN rooted.pages = DOMAIN split.pages \union {top}
       /\ rooted.pages[top] = node /\ \A q \in DOMAIN split.pages : rooted.pages[q] = split.pages[q]
  <2> HIDE DEF rooted
  <2>1. /\ Sized(rooted) /\ DOMAIN rooted.pages = DOMAIN split.pages \union {top}
        /\ rooted.pages[top] = node
        /\ \A q \in DOMAIN split.pages : q # top => rooted.pages[q] = split.pages[q]
    BY <1>8, <1>9, <1>12, AllocateIsSized DEF rooted
  <2> HIDE DEF top
  <2> QED
    BY <1>14, <2>1
<1>16. rooted.header = t.header
  BY <1>3, <1>12 DEF Allocate, Sized, IsTree
<1> HIDE DEF rooted, top
<1>17. /\ vs = rooted.pages /\ v.header.root = top /\ v.header.free_pages = <<>>
  <2>1. IsTree(rooted) /\ top \in DOMAIN rooted.pages
    BY <1>15 DEF Sized
  <2>2. SetRoot(rooted, top).pages = rooted.pages /\ SetRoot(rooted, top).header.root = top
    BY <2>1, SetRootChanges
  <2>3. SetRoot(rooted, top).header.free_pages = rooted.header.free_pages
    BY <2>1 DEF SetRoot, IsTree, IsHeader
  <2> QED
    BY <1>1, <1>3, <1>16, <2>2, <2>3
<1> HIDE DEF v
<1>18. /\ DOMAIN vs = DOMAIN ps \union {high, top}
       /\ vs[top] = node /\ vs[high] = new /\ vs[low] = kept
       /\ \A q \in DOMAIN ps : q # low => vs[q] = ps[q]
       /\ low # high /\ low # top /\ high # top /\ top \notin DOMAIN ps
  BY <1>2, <1>7, <1>13, <1>14, <1>15, <1>17 DEF low
<1> HIDE DEF ps, vs
<1>19. \A q \in DOMAIN vs : IsKind(vs[q], DOMAIN vs)
  <2>1. IsKind(node, DOMAIN vs)
    <3>1. low \in DOMAIN vs /\ high \in DOMAIN vs
      BY <1>2, <1>18 DEF low
    <3> QED
      BY <1>4, <1>8, <1>18, <3>1 DEF IsKind
  <2>2. ASSUME NEW a, NEW b, \A r, s \in rows : r.key = s.key => r = s
        PROVE  IsKind(new, DOMAIN vs) /\ IsKind(kept, DOMAIN vs)
    BY <1>5, <1>8, <2>2 DEF IsKind
  <2>3. \A r, s \in rows : r.key = s.key => r = s
    BY <1>2 DEF IsKind, rows, ps, low
  <2>4. \A q \in DOMAIN ps : IsKind(ps[q], DOMAIN vs)
    BY <1>2, <1>18 DEF IsKind, ps
  <2> QED
    BY <1>18, <2>1, <2>2, <2>3, <2>4
<1>20. LeafSet(vs, top) = {low, high}
  <2>1. LeafSet(vs, top) = Range(<<low, high>>)
    BY <1>8, <1>14, <1>18 DEF LeafSet
  <2> QED
    BY <2>1 DEF Range
<1>21. LinkedPair(vs, top)
  BY <1>4, <1>8, <1>18 DEF LinkedPair
<1>22. Reached(vs, top)
  BY <1>3, <1>8, <1>18, <1>20 DEF Reached, ps
<1>23. NoNodeFree(vs, v.header)
  BY <1>17 DEF NoNodeFree, Range
<1>24. Neat(v) /\ Good(v)
  BY <1>6, <1>17, <1>19, <1>21, <1>22, <1>23 DEF Neat, Good, Linked, FreeOK, vs
<1>25. RootMoved(t, v)
  BY <1>2, <1>7, <1>8, <1>14, <1>17, <1>18, <1>20 DEF RootMoved, vs, ps, low
<1>26. RowsChanged(t, v, {}, {})
  <2>1. \A q \in DOMAIN ps : vs[q].rows \subseteq ps[q].rows
    BY <1>5, <1>8, <1>18 DEF rows, ps
  <2>2. RowsIn(ps) = rows
    BY <1>2, <1>3 DEF RowsIn, rows, ps, low
  <2>3. \A q \in DOMAIN ps : q # low => vs[q].rows = {}
    BY <1>3, <1>18 DEF ps
  <2>4. RowsIn(vs) = lower \union upper
    <3>1. vs[low].rows = lower /\ vs[high].rows = upper /\ vs[top].rows = {}
      BY <1>8, <1>18
    <3>2. low \in DOMAIN vs /\ high \in DOMAIN vs
      BY <1>2, <1>18 DEF low, ps
    <3>3. \A q \in DOMAIN vs : q = low \/ q = high \/ vs[q].rows = {}
      BY <1>18, <2>3, <3>1
    <3> HIDE DEF low
    <3> QED
      BY <3>1, <3>2, <3>3 DEF RowsIn
  <2>5. RowsIn(vs) = {r \in RowsIn(ps) : r.key \notin {}} \union {}
    BY <1>5, <2>2, <2>4
  <2> QED
    BY <1>18, <2>1, <2>5 DEF RowsChanged, vs, ps
<1>27. Apart(vs)
  <2>1. \A q \in DOMAIN vs : q # low /\ q # high => vs[q].rows = {}
    BY <1>3, <1>8, <1>18 DEF ps
  <2>2. vs[low].rows \intersect vs[high].rows = {}
    BY <1>5, <1>8, <1>18
  <2> QED
    BY <2>1, <2>2 DEF Apart
<1> QED
  BY <1>24, <1>25, <1>26, <1>27 DEF v, vs

LEMMA AddedIsGood ==
    ASSUME NEW t, Neat(t), Good(t), NEW row, IsRow(row), row.key \notin KeysOf(RowsIn(t.pages)),
           NEW m, IsTree(m), Alike(m, t), MayAdd(m, row)
    PROVE  LET u == Added(t, row)
           IN  /\ Neat(u) /\ Good(u) /\ RowsChanged(t, u, {}, {row})
               /\ t.header.root = NoPage => RootMade(t, u)
               /\ t.header.root # NoPage => TreeKept(t, u) \/ RootMoved(t, u)
               /\ Apart(t.pages) => Apart(u.pages)
<1> DEFINE r == t.header.root
           u == Added(t, row)
<1>4. row \notin RowsIn(t.pages)
  BY DEF KeysOf
<1>1. CASE r = NoPage
  <2>1. Neat(u) /\ Good(u) /\ RootMade(t, u) /\ RowsChanged(t, u, {}, {row})
    BY <1>1, RootMadeIsGood
  <2> HIDE DEF u
  <2>2. \A q \in DOMAIN t.pages : t.pages[q].rows = {}
    BY <1>1 DEF Good, Reached, LeafSet
  <2>3. \A q \in DOMAIN u.pages : q # u.header.root => u.pages[q].rows = {}
    BY <2>1, <2>2 DEF RootMade
  <2> QED
    BY <1>1, <2>1, <2>3 DEF Apart, u
<1>2. CASE r # NoPage /\ Fits(t, row)
  <2>1. u = Put(t, row)
    BY <1>2 DEF Added
  <2> HIDE DEF u
  <2>2. Neat(u) /\ Good(u) /\ u.header = t.header /\ OneRowAdded(t, u, row)
    BY <1>2, <2>1, PutIsGood
  <2>3. TreeKept(t, u)
    BY <2>2 DEF TreeKept, OneRowAdded
  <2>4. RowsChanged(t, u, {}, {row})
    BY <2>2 DEF RowsChanged, OneRowAdded, SameShapes
  <2>5. Apart(t.pages) => Apart(u.pages)
    BY <1>4, <2>1, PutIsApart DEF Neat, Sized
  <2> QED
    BY <1>2, <2>2, <2>3, <2>4, <2>5 DEF u
<1>3. CASE r # NoPage /\ ~Fits(t, row)
  <2> DEFINE v == Split(t)
  <2>1. u = Put(v, row)
    BY <1>3 DEF Added
  <2>2. m.header.root = r /\ m.pages = t.pages /\ ~Fits(m, row)
    BY <1>3, AlikeFits DEF Alike
  <2>3. /\ t.pages[r].kind = "leaf" /\ Cardinality(t.pages[r].rows) > 1
        /\ Fits(Split(m), row)
    BY <1>3, <2>2 DEF MayAdd
  <2>4. Fits(v, row)
    <3>1. Alike(Split(m), Split(t))
      BY <1>3, <2>2, AlikeSplit DEF Neat, Sized
    <3> QED
      BY <2>3, <3>1, AlikeFits
  <2>5. Neat(v) /\ Good(v) /\ Apart(v.pages) /\ RootMoved(t, v) /\ RowsChanged(t, v, {}, {})
    BY <1>3, <2>3, SplitIsGood
  <2> HIDE DEF u, v
  <2>6. RowsIn(v.pages) = RowsIn(t.pages) /\ v.header.root # NoPage
    BY <2>5 DEF RowsChanged, RootMoved
  <2>7. Neat(u) /\ Good(u) /\ u.header = v.header /\ OneRowAdded(v, u, row)
    BY <2>1, <2>4, <2>5, <2>6, PutIsGood
  <2>8. RowsChanged(t, u, {}, {row})
    <3>1. RowsIn(u.pages) = RowsIn(t.pages) \union {row} /\ DOMAIN u.pages = DOMAIN v.pages
      BY <2>6, <2>7 DEF OneRowAdded, SameShapes
    <3>2. /\ DOMAIN t.pages \subseteq DOMAIN v.pages
          /\ \A q \in DOMAIN t.pages : v.pages[q].rows \subseteq t.pages[q].rows
      BY <2>5 DEF RowsChanged
    <3>3. \A q \in DOMAIN t.pages : u.pages[q].rows \subseteq t.pages[q].rows \union {row}
      BY <2>7, <3>2 DEF OneRowAdded
    <3> QED
      BY <3>1, <3>2, <3>3 DEF RowsChanged
  <2>9. RootMoved(t, u)
    <3> DEFINE p == v.header.root
    <3>1. /\ r \in DOMAIN t.pages /\ t.pages[r].kind = "leaf"
          /\ v.header.free_pages = <<>>
          /\ p \in DOMAIN v.pages \ DOMAIN t.pages /\ p # NoPage
          /\ v.pages[p].kind = "node" /\ r \in LeafSet(v.pages, p)
          /\ v.pages[r].kind = "leaf" /\ v.pages[r].next # NoPage
      BY <2>5 DEF RootMoved
    <3>2. r \in DOMAIN v.pages
      BY <2>5, <3>1 DEF RowsChanged
    <3>3. /\ DOMAIN u.pages = DOMAIN v.pages /\ SameShape(v.pages[p], u.pages[p])
          /\ SameShape(v.pages[r], u.pages[r])
      BY <2>7, <3>1, <3>2 DEF OneRowAdded, SameShapes
    <3>4. LeafSet(u.pages, p) = LeafSet(v.pages, p)
      BY <3>1, <3>3 DEF LeafSet, SameShape
    <3>5. /\ u.pages[p].kind = "node"
          /\ u.pages[r].kind = "leaf" /\ u.pages[r].next # NoPage
      BY <3>1, <3>3 DEF SameShape
    <3> QED
      BY <2>7, <3>1, <3>3, <3>4, <3>5 DEF RootMoved
  <2>10. Apart(u.pages)
    BY <1>4, <2>1, <2>5, <2>6, PutIsApart DEF Neat, Sized
  <2> QED
    BY <1>3, <2>7, <2>8, <2>9, <2>10 DEF u
<1> QED
  BY <1>1, <1>2, <1>3

(* The two halves of an UPDATE: a root that the removal frees is made      *)
(* again on the same page.                                                 *)
LEMMA UpdatedIsGood ==
    ASSUME NEW t, Neat(t), Good(t), t.header.root # NoPage, NEW key,
           NEW row, IsRow(row), row.key # key => row.key \notin KeysOf(RowsIn(t.pages)),
           NEW m, IsTree(m), Alike(m, Removed(t, key)), MayAdd(m, row)
    PROVE  LET u == Added(Removed(t, key), row)
           IN  /\ Neat(u) /\ Good(u) /\ RowsChanged(t, u, {key}, {row})
               /\ TreeKept(t, u) \/ RootMoved(t, u)
               /\ Apart(t.pages) => Apart(u.pages)
<1> DEFINE r == t.header.root
           v == Removed(t, key)
           u == Added(v, row)
<1>1. /\ Neat(v) /\ Good(v) /\ KeyRemoved(t, v, key)
      /\ RootFreed(t, key) => RootRemoved(t, v)
      /\ ~RootFreed(t, key) => v.header = t.header
  BY RemovedIsGood
<1> HIDE DEF v
<1>2. /\ SameShapes(t.pages, v.pages) /\ DOMAIN v.pages = DOMAIN t.pages
      /\ \A q \in DOMAIN t.pages : v.pages[q].rows = {s \in t.pages[q].rows : s.key # key}
      /\ \A q \in DOMAIN t.pages : v.pages[q].rows \subseteq t.pages[q].rows
  <2>1. /\ SameShapes(t.pages, v.pages)
        /\ \A q \in DOMAIN t.pages : v.pages[q].rows = {s \in t.pages[q].rows : s.key # key}
    BY <1>1 DEF KeyRemoved
  <2> QED
    BY <2>1 DEF SameShapes
<1>3. RowsIn(v.pages) = {s \in RowsIn(t.pages) : s.key \notin {key}}
  <2>1. \A s : s \in RowsIn(v.pages) <=> s \in RowsIn(t.pages) /\ s.key # key
    BY <1>2 DEF RowsIn
  <2> QED
    BY <2>1
<1>4. row.key \notin KeysOf(RowsIn(v.pages))
  BY <1>3 DEF KeysOf
<1>5. /\ Neat(u) /\ Good(u) /\ RowsChanged(v, u, {}, {row})
      /\ v.header.root = NoPage => RootMade(v, u)
      /\ v.header.root # NoPage => TreeKept(v, u) \/ RootMoved(v, u)
      /\ Apart(v.pages) => Apart(u.pages)
  BY <1>1, <1>4, AddedIsGood DEF v
<1> HIDE DEF u
<1>9. Apart(t.pages) => Apart(u.pages)
  BY <1>2, <1>5 DEF Apart
<1>6. RowsChanged(t, u, {key}, {row})
  <2>1. /\ DOMAIN v.pages \subseteq DOMAIN u.pages
        /\ \A q \in DOMAIN v.pages : u.pages[q].rows \subseteq v.pages[q].rows \union {row}
        /\ RowsIn(u.pages) = RowsIn(v.pages) \union {row}
    BY <1>5 DEF RowsChanged
  <2>2. \A q \in DOMAIN t.pages : u.pages[q].rows \subseteq t.pages[q].rows \union {row}
    BY <1>2, <2>1
  <2> QED
    BY <1>2, <1>3, <2>1, <2>2 DEF RowsChanged
<1>7. CASE RootFreed(t, key)
  <2>1. /\ r \in DOMAIN t.pages /\ t.pages[r].kind = "leaf" /\ t.header.free_pages = <<>>
        /\ v.header.root = NoPage /\ v.header.free_pages = <<r>>
    BY <1>1, <1>7 DEF RootRemoved
  <2>2. Head(<<r>>) = r /\ <<r>> # <<>>
    OBVIOUS
  <2>3. /\ u.header.root = r /\ u.header.free_pages = <<>>
        /\ u.pages[r].kind = "leaf" /\ u.pages[r].next = NoPage
        /\ DOMAIN u.pages = DOMAIN v.pages \union {r}
        /\ \A q \in DOMAIN v.pages \ {r} : u.pages[q] = v.pages[q]
    BY <1>5, <2>1, <2>2 DEF RootMade
  <2>4. t.pages[r].next = NoPage
    BY <2>1 DEF Good, Linked, LinkedPair
  <2>5. SameShapes(t.pages, u.pages)
    <3>1. SameShape(t.pages[r], u.pages[r])
      BY <2>1, <2>3, <2>4 DEF SameShape
    <3>2. \A q \in DOMAIN t.pages \ {r} : SameShape(t.pages[q], u.pages[q])
      BY <1>2, <2>3 DEF SameShapes
    <3> QED
      BY <1>2, <2>1, <2>3, <3>1, <3>2 DEF SameShapes
  <2> QED
    BY <1>5, <1>6, <1>9, <2>1, <2>3, <2>5 DEF TreeKept, u, v
<1>8. CASE ~RootFreed(t, key)
  <2>1. v.header = t.header /\ v.header.root # NoPage
    BY <1>1, <1>8
  <2>2. CASE TreeKept(v, u)
    <3>1. SameShapes(v.pages, u.pages)
      BY <2>2 DEF TreeKept
    <3>2. SameShapes(t.pages, u.pages)
      BY <1>2, <3>1 DEF SameShapes, SameShape
    <3>3. TreeKept(t, u)
      BY <2>1, <2>2, <3>2 DEF TreeKept
    <3> QED
      BY <1>5, <1>6, <1>9, <3>3 DEF u, v
  <2>3. CASE RootMoved(v, u)
    <3>1. r \in DOMAIN t.pages /\ t.pages[r].kind = "leaf"
      BY <1>2, <2>1, <2>3 DEF RootMoved, SameShapes, SameShape
    <3>2. RootMoved(t, u)
      BY <1>2, <2>1, <2>3, <3>1 DEF RootMoved
    <3> QED
      BY <1>5, <1>6, <1>9, <3>2 DEF u, v
  <2> QED
    BY <1>5, <2>1, <2>2, <2>3
<1> QED
  BY <1>7, <1>8

-----------------------------------------------------------------------------
(* The tree in memory, the one in the file, and the one that the statement *)
(* found.                                                                  *)

(* The table was sound when the engine opened it, and what is open now is  *)
(* not what an UPDATE left half done.                                      *)
Safe == before.sound /\ ~(phase = "new" /\ cutShort)

Stands(pages, r, h) == Linked(pages, r) /\ Reached(pages, r) /\ NoNodeFree(pages, h)

SamePlaces(h, g) == h.root = g.root /\ h.free_pages = g.free_pages

(* Page 0 in the file is the one the engine opened until it is flushed,    *)
(* and the catalog differs only when it is marked.                         *)
PageZeroOK ==
    /\ phase # "answered" => file.header.root = before.root
    /\ phase = "answered" => ~catalog.dirty
    /\ ~catalog.dirty => SamePlaces(catalog.header, file.header)
    /\ phase = "new" => pool = NoPages /\ RootKept
    /\ phase \in {"new", "answered"} => statement = "none"
    /\ phase \in {"running", "refused"} => statement \in {"insert", "delete", "update"}

(* Nothing is done to a table that was left half written.                  *)
LeftAlone ==
    ~before.sound => /\ ~Sound(FileTree) /\ DOMAIN pool = {}
                     /\ SamePlaces(catalog.header, file.header)

(* The tree below the old root, in the file and in memory, as long as a    *)
(* kill may bring it back.                                                 *)
OldTreeStands ==
    Safe => /\ (RootKept \/ (phase = "running" /\ statement \in {"insert", "delete"})) =>
                   Stands(file.pages, before.root, file.header)
            /\ (RootKept \/ (phase = "running" /\ statement = "delete")) =>
                   /\ Linked(Tree.pages, before.root) /\ Reached(Tree.pages, before.root)
                   /\ SameShapes(file.pages, Tree.pages)

(* What a statement that moved the root has left, or has still to do.      *)
OldRootIsLeft ==
    Safe /\ ~RootKept =>
        /\ phase \in {"running", "refused"} /\ statement = "update" =>
               /\ before.root \in DOMAIN Tree.pages
               /\ Tree.pages[before.root].kind = "leaf" /\ Tree.pages[before.root].next # NoPage
               /\ catalog.header.root # NoPage /\ Tree.pages[catalog.header.root].kind = "node"
        /\ phase = "refused" => statement = "update"
        /\ phase = "running" /\ statement = "delete" => catalog.header.root = NoPage
        /\ phase = "running" /\ statement = "insert" => todo = {}

(* What a kill may leave of the new root: zeros, or the page as it is.     *)
NewRootInFile ==
    Safe =>
        LET r == catalog.header.root
        IN  /\ \A p \in Range(catalog.header.free_pages) : file.pages[p].kind # "node"
            /\ r # NoPage =>
                  /\ \A p \in DOMAIN file.pages \ LeafSet(Tree.pages, r) : file.pages[p].rows = {}
                  /\ \/ file.pages[r].kind = "zeroed"
                     \/ /\ file.pages[r].kind = Tree.pages[r].kind
                        /\ Tree.pages[r].kind = "node" => file.pages[r].kids = Tree.pages[r].kids

(* Rows of the file are old ones or those of the table, and what is still  *)
(* in the table from before is in the file, page by page.                  *)
OldRowsOK ==
    /\ ~cutShort => Below(before.rows, catalog.header.next_row_id)
    /\ Safe /\ RootKept /\ ~cutShort =>
          \A p \in DOMAIN file.pages : before.rows \intersect Tree.pages[p].rows \subseteq file.pages[p].rows
    /\ Safe /\ RootKept => RowsIn(file.pages) \subseteq before.rows \union RowsIn(Tree.pages)

(* A DELETE or an UPDATE has not touched the rows of the keys it has still *)
(* to deal with.                                                           *)
WorkLeft ==
    Safe /\ phase = "running" =>
        /\ statement \in {"delete", "update"} =>
               \A r \in RowsIn(Tree.pages) : r.key \in todo => r \in before.rows
        /\ statement = "update" => todo \subseteq KeysOf(RowsIn(Tree.pages))

TablesInv ==
    /\ TypesInv
    /\ Neat(Tree) /\ Neat(FileTree)
    /\ PageZeroOK /\ LeftAlone
    /\ Safe => Good(Tree)
    /\ OldTreeStands /\ OldRootIsLeft /\ NewRootInFile
    /\ OldRowsOK /\ WorkLeft

LEMMA AlikeTrees ==
    ASSUME NEW a, NEW b, Alike(a, b), NEW u, NEW keys, NEW new
    PROVE  /\ TreeKept(b, u) => TreeKept(a, u)
           /\ RootMade(b, u) => RootMade(a, u)
           /\ RootMoved(b, u) => RootMoved(a, u)
           /\ RowsChanged(b, u, keys, new) => RowsChanged(a, u, keys, new)
           /\ Sized(a) /\ Neat(b) => Neat(a)
           /\ Good(b) => Good(a)
           /\ Sound(b) => Sound(a)
<1>1. a.pages = b.pages /\ a.header.root = b.header.root /\ a.header.free_pages = b.header.free_pages
  BY DEF Alike
<1>2. Sized(a) /\ Neat(b) => Neat(a)
  BY <1>1 DEF Neat, FreeOK
<1>3. Good(b) => Good(a)
  BY <1>1 DEF Good, NoNodeFree
<1>4. Leaves(a) = Leaves(b) /\ Rows(a) = Rows(b)
  BY <1>1 DEF Leaves, Rows
<1>5. Sound(b) => Sound(a)
  BY <1>1, <1>4 DEF Sound
<1>6. TreeKept(b, u) => TreeKept(a, u)
  BY <1>1 DEF TreeKept
<1>7. RootMade(b, u) => RootMade(a, u)
  BY <1>1 DEF RootMade
<1>8. RootMoved(b, u) => RootMoved(a, u)
  BY <1>1 DEF RootMoved
<1>9. RowsChanged(b, u, keys, new) => RowsChanged(a, u, keys, new)
  BY <1>1 DEF RowsChanged
<1> QED
  BY <1>2, <1>3, <1>5, <1>6, <1>7, <1>8, <1>9

(* The table and the file after a change.                                  *)
Grown(pages, new) ==
    /\ DOMAIN pages \subseteq DOMAIN new
    /\ \A p \in DOMAIN pages : new[p] = pages[p]
    /\ \A p \in DOMAIN new \ DOMAIN pages : new[p] = Zeroed

LEMMA BecomeTable ==
    ASSUME TypesInv, NEW u, Sized(u), DOMAIN file.pages \subseteq DOMAIN u.pages, Become(u)
    PROVE  /\ Tree.pages' = u.pages /\ Tree.header' = u.header
           /\ catalog.header' = u.header /\ catalog.dirty' = u.dirty
           /\ file.header' = file.header /\ Grown(file.pages, file.pages')
           /\ DOMAIN file.pages' = DOMAIN u.pages
<1> DEFINE pages == [p \in DOMAIN u.pages |-> IF p \in DOMAIN file.pages THEN file.pages[p] ELSE Zeroed]
           kept == {p \in DOMAIN u.pages : u.pages[p] # pages[p]}
<1>1. /\ catalog' = [header |-> u.header, dirty |-> u.dirty]
      /\ file' = [file EXCEPT !.pages = pages]
      /\ pool' = Restrict(u.pages, kept)
  BY DEF Become
<1>2. /\ DOMAIN pages = DOMAIN u.pages
      /\ \A p \in DOMAIN pages : pages[p] = IF p \in DOMAIN file.pages THEN file.pages[p] ELSE Zeroed
      /\ kept \subseteq DOMAIN u.pages
      /\ \A p \in DOMAIN u.pages : p \notin kept => u.pages[p] = pages[p]
  OBVIOUS
<1> HIDE DEF pages, kept
<1>3. file'.header = file.header /\ file'.pages = pages
  BY <1>1 DEF TypesInv, IInv, StateOK
<1>4. Grown(file.pages, pages)
  BY <1>2 DEF Grown
<1>5. DOMAIN pool' = kept /\ \A p \in kept : pool'[p] = u.pages[p]
  BY <1>1, <1>2 DEF Restrict
<1>6. Over(pool', pages) = u.pages
  <2>1. Over(pool', pages) = [p \in kept \union DOMAIN pages |-> IF p \in kept THEN pool'[p] ELSE pages[p]]
    BY <1>5 DEF Over
  <2>2. kept \union DOMAIN pages = DOMAIN u.pages
    BY <1>2
  <2>3. \A p \in DOMAIN u.pages : (IF p \in kept THEN pool'[p] ELSE pages[p]) = u.pages[p]
    BY <1>2, <1>5
  <2>4. u.pages = [p \in DOMAIN u.pages |-> u.pages[p]]
    BY DEF Sized, IsTree, ArePages
  <2> QED
    BY <2>1, <2>2, <2>3, <2>4
<1>7. Tree.pages' = Over(pool', pages) /\ Tree.header' = catalog'.header
  BY <1>3 DEF Tree
<1> QED
  BY <1>1, <1>2, <1>3, <1>4, <1>6, <1>7

LEMMA GrownStands ==
    ASSUME NEW pages, \A p \in DOMAIN pages : IsKind(pages[p], DOMAIN pages),
           NEW new, Grown(pages, new),
           NEW r, r = NoPage \/ r \in DOMAIN pages
    PROVE  /\ RowsIn(new) = RowsIn(pages)
           /\ \A p \in DOMAIN new : IsKind(new[p], DOMAIN new)
           /\ \A h : Stands(pages, r, h) /\ Range(h.free_pages) \subseteq DOMAIN pages =>
                         Stands(new, r, h)
<1>1. Zeroed.rows = {} /\ Zeroed.kind = "zeroed"
  BY DEF Zeroed
<1>2. \A p \in DOMAIN new \ DOMAIN pages : new[p].rows = {}
  BY <1>1 DEF Grown
<1>3. RowsIn(new) = RowsIn(pages)
  BY <1>2 DEF Grown, RowsIn
<1>4. \A p \in DOMAIN new : IsKind(new[p], DOMAIN new)
  <2>1. \A p \in DOMAIN pages : IsKind(pages[p], DOMAIN new)
    BY DEF Grown, IsKind
  <2>2. IsKind(Zeroed, DOMAIN new)
    BY <1>1 DEF IsKind
  <2> QED
    BY <2>1, <2>2 DEF Grown
<1>5. ASSUME NEW h, Stands(pages, r, h), Range(h.free_pages) \subseteq DOMAIN pages
      PROVE  Stands(new, r, h)
  <2>1. Linked(pages, r) /\ Reached(pages, r) /\ NoNodeFree(pages, h)
    BY <1>5 DEF Stands
  <2>2. LeafSet(pages, r) \subseteq DOMAIN pages
    BY <2>1, LeavesOfLinked
  <2>3. LeafSet(new, r) = LeafSet(pages, r)
    BY DEF LeafSet, Grown
  <2>4. Linked(new, r)
    <3>1. CASE r = NoPage
      BY <3>1 DEF Linked
    <3>2. CASE r # NoPage /\ pages[r].kind = "node"
      <4>1. PICK a \in DOMAIN pages, b \in DOMAIN pages : a # b /\ pages[r].kids = <<a, b>>
        BY <3>2 DEF IsKind
      <4>2. LinkedPair(pages, r)
        BY <2>1, <3>2 DEF Linked
      <4>3. new[r] = pages[r] /\ new[a] = pages[a] /\ new[b] = pages[b]
        BY <3>2, <4>1 DEF Grown
      <4> QED
        BY <4>1, <4>2, <4>3 DEF LinkedPair, Linked
    <3>3. CASE r # NoPage /\ pages[r].kind # "node"
      BY <2>1, <3>3 DEF Linked, LinkedPair, Grown
    <3> QED
      BY <3>1, <3>2, <3>3
  <2>5. Reached(new, r)
    BY <1>2, <2>1, <2>3 DEF Reached, Grown
  <2>6. NoNodeFree(new, h)
    BY <1>5, <2>1 DEF NoNodeFree, Grown
  <2> QED
    BY <2>4, <2>5, <2>6 DEF Stands
<1> QED
  BY <1>3, <1>4, <1>5

(* A turn of a statement: it has something to do, and the tree becomes u.  *)
Changes(u, keys, new) ==
    /\ phase = "running" /\ todo # {} /\ phase' \in {"running", "refused"}
    /\ UNCHANGED <<statement, before, cutShort>>
    /\ Neat(u) /\ Good(u) /\ Become(u) /\ RowsChanged(Tree, u, keys, new)
    /\ ~u.dirty => ~catalog.dirty /\ SamePlaces(u.header, catalog.header)
    /\ u.header.next_row_id >= catalog.header.next_row_id
    /\ \/ TreeKept(Tree, u)
       \/ RootMoved(Tree, u) /\ statement \in {"insert", "update"}
       \/ RootMade(Tree, u) /\ statement = "insert"
       \/ RootRemoved(Tree, u) /\ statement = "delete"
    /\ statement = "delete" => SameShapes(Tree.pages, u.pages) /\ new = {}
    /\ Apart(Tree.pages) => Apart(u.pages)
    /\ statement = "insert" => keys = {} /\ (phase' = "running" => todo' = {})
    /\ phase' = "refused" => TreeKept(Tree, u) /\ statement # "delete"
    /\ keys \subseteq todo /\ todo' \subseteq todo
    /\ phase' = "running" => todo' \intersect keys = {}
    /\ \A r \in new : /\ r.id = catalog.header.next_row_id
                      /\ statement = "update" => r.key \notin todo'

LEMMA NamedPages ==
    ASSUME TablesInv
    PROVE  /\ DOMAIN Tree.pages = DOMAIN file.pages /\ NoPage \notin DOMAIN file.pages
           /\ Tree.header = catalog.header
           /\ file.header.root = NoPage \/ file.header.root \in DOMAIN file.pages
           /\ catalog.header.root = NoPage \/ catalog.header.root \in DOMAIN file.pages
           /\ Range(file.header.free_pages) \subseteq DOMAIN file.pages
           /\ Range(catalog.header.free_pages) \subseteq DOMAIN file.pages
           /\ FileTree.header = file.header /\ FileTree.pages = file.pages
           /\ \A p \in DOMAIN file.pages : /\ IsKind(file.pages[p], DOMAIN file.pages)
                                           /\ IsKind(Tree.pages[p], DOMAIN file.pages)
<1>1. StateOK
  BY DEF TablesInv, TypesInv, IInv
<1>2. DOMAIN Tree.pages = DOMAIN file.pages /\ Tree.header = catalog.header
  BY <1>1, TheTable
<1>3. NoPage \notin DOMAIN file.pages
  BY <1>2, PageIdsOf DEF TablesInv, Neat
<1>4. FileTree.header = file.header /\ FileTree.pages = file.pages
  BY DEF FileTree
<1>5. \A p \in DOMAIN file.pages : /\ IsKind(file.pages[p], DOMAIN file.pages)
                                   /\ IsKind(Tree.pages[p], DOMAIN file.pages)
  BY <1>2, <1>4 DEF TablesInv, Neat
<1>6. /\ Named(file.header, DOMAIN file.pages) /\ Named(catalog.header, DOMAIN file.pages)
  BY <1>1 DEF StateOK
<1> QED
  BY <1>2, <1>3, <1>4, <1>5, <1>6 DEF Named, Range

LEMMA ChangedTable ==
    ASSUME TablesInv, Safe, NEW u, NEW keys, NEW new, Changes(u, keys, new)
    PROVE  /\ Safe' /\ phase = "running" /\ before' = before
           /\ Tree.pages' = u.pages /\ catalog.header' = u.header /\ catalog.dirty' = u.dirty
           /\ file.header' = file.header /\ Grown(file.pages, file.pages')
           /\ DOMAIN file.pages' = DOMAIN u.pages
           /\ before.root = NoPage \/ before.root \in DOMAIN file.pages
           /\ RowsIn(file.pages') = RowsIn(file.pages)
           /\ \A p \in DOMAIN file.pages' : IsKind(file.pages'[p], DOMAIN file.pages')
           /\ file.header.root = before.root
<1>1. TypesInv /\ Sized(u) /\ DOMAIN file.pages \subseteq DOMAIN u.pages /\ Become(u)
  BY NamedPages DEF TablesInv, Changes, RowsChanged, Neat
<1>2. /\ Tree.pages' = u.pages /\ catalog.header' = u.header /\ catalog.dirty' = u.dirty
      /\ file.header' = file.header /\ Grown(file.pages, file.pages')
      /\ DOMAIN file.pages' = DOMAIN u.pages
  BY <1>1, BecomeTable
<1>3. /\ phase = "running" /\ phase' \in {"running", "refused"} /\ before' = before
      /\ cutShort' = cutShort
  BY DEF Changes
<1>4. Safe'
  BY <1>3 DEF Safe
<1>5. file.header.root = before.root
  BY <1>3 DEF TablesInv, PageZeroOK
<1>6. before.root = NoPage \/ before.root \in DOMAIN file.pages
  BY <1>5, NamedPages
<1>7. /\ RowsIn(file.pages') = RowsIn(file.pages)
      /\ \A p \in DOMAIN file.pages' : IsKind(file.pages'[p], DOMAIN file.pages')
  <2> DEFINE new_ == file.pages'
             pages == file.pages
  <2> HIDE DEF new_, pages
  <2>1. Grown(pages, new_) /\ \A p \in DOMAIN pages : IsKind(pages[p], DOMAIN pages)
    BY <1>2, NamedPages DEF new_, pages
  <2>2. /\ RowsIn(new_) = RowsIn(pages)
        /\ \A p \in DOMAIN new_ : IsKind(new_[p], DOMAIN new_)
    BY <2>1, GrownStands
  <2> QED
    BY <2>2 DEF new_, pages
<1> QED
  BY <1>2, <1>3, <1>4, <1>5, <1>6, <1>7

LEMMA RootKeptBefore ==
    ASSUME TablesInv, Safe, NEW u, NEW keys, NEW new, Changes(u, keys, new)
    PROVE  /\ RootKept' => RootKept /\ TreeKept(Tree, u)
           /\ phase' = "refused" => RootKept' \/ statement = "update"
<1>1. /\ catalog.header' = u.header /\ before' = before /\ phase = "running"
      /\ before.root = NoPage \/ before.root \in DOMAIN file.pages
  BY ChangedTable
<1>2. RootKept' <=> u.header.root = before.root
  BY <1>1 DEF RootKept
<1>3. Tree.header = catalog.header /\ DOMAIN Tree.pages = DOMAIN file.pages
      /\ NoPage \notin DOMAIN file.pages
  BY NamedPages
<1>4. /\ statement = "insert" => RootKept
      /\ ~RootKept /\ statement = "delete" => catalog.header.root = NoPage
      /\ statement \in {"insert", "delete", "update"}
  BY <1>1 DEF TablesInv, OldRootIsLeft, PageZeroOK, Changes
<1>5. CASE TreeKept(Tree, u)
  <2>1. RootKept' <=> RootKept
    BY <1>2, <1>3, <1>5 DEF RootKept, TreeKept
  <2>2. phase' = "refused" => statement # "delete"
    BY DEF Changes
  <2> QED
    BY <1>4, <1>5, <2>1, <2>2
<1>6. CASE ~TreeKept(Tree, u)
  <2>1. phase' # "refused"
    BY <1>6 DEF Changes
  <2>2. CASE RootMoved(Tree, u)
    BY <1>1, <1>2, <1>3, <2>1, <2>2 DEF RootMoved
  <2>3. CASE RootMade(Tree, u) /\ statement = "insert"
    BY <1>2, <1>3, <1>4, <2>1, <2>3 DEF RootMade, RootKept
  <2>4. CASE RootRemoved(Tree, u) /\ statement = "delete"
    BY <1>2, <1>3, <1>4, <2>1, <2>4 DEF RootRemoved, RootKept
  <2> QED
    BY <1>6, <2>2, <2>3, <2>4 DEF Changes
<1> QED
  BY <1>5, <1>6

LEMMA FileIsSized == TypesInv => Sized(Tree) /\ Sized(FileTree)
<1> SUFFICES ASSUME TypesInv PROVE Sized(Tree) /\ Sized(FileTree)
  OBVIOUS
<1>1. /\ FileTree.header = file.header /\ FileTree.pages = file.pages
      /\ FileTree \in [header : {FileTree.header}, dirty : BOOLEAN, pages : {FileTree.pages}]
  BY DEF FileTree
<1>2. Sized(FileTree)
  BY <1>1 DEF Sized, IsTree, TypesInv, SizesOK, IInv, StateOK
<1> QED
  BY <1>2, TheTableIsSized

LEMMA ChangeKeepsTrees ==
    ASSUME TablesInv, Safe, Sized(Tree)', Sized(FileTree)',
           NEW u, NEW keys, NEW new, Changes(u, keys, new)
    PROVE  Neat(Tree)' /\ Neat(FileTree)' /\ Good(Tree)' /\ PageZeroOK' /\ LeftAlone'
<1>1. /\ Safe' /\ phase = "running" /\ before' = before
      /\ Tree.pages' = u.pages /\ catalog.header' = u.header /\ catalog.dirty' = u.dirty
      /\ file.header' = file.header
      /\ \A p \in DOMAIN file.pages' : IsKind(file.pages'[p], DOMAIN file.pages')
      /\ file.header.root = before.root
  BY ChangedTable
<1>2. Neat(u) /\ Good(u)
  BY DEF Changes
<1>3. Tree.header' = u.header /\ FileTree.header' = file.header /\ FileTree.pages' = file.pages'
  BY <1>1 DEF Tree, FileTree
<1>4. Neat(Tree)' /\ Good(Tree)'
  BY <1>1, <1>2, <1>3 DEF Neat, Good
<1>5. Neat(FileTree)'
  <2>1. FreeOK(file.header)
    BY NamedPages DEF TablesInv, Neat
  <2> QED
    BY <1>1, <1>3, <2>1 DEF Neat
<1>6. PageZeroOK'
  <2>1. /\ phase' \in {"running", "refused"} /\ statement' = statement
        /\ ~u.dirty => ~catalog.dirty /\ SamePlaces(u.header, catalog.header)
    BY DEF Changes
  <2>2. /\ ~catalog.dirty => SamePlaces(catalog.header, file.header)
        /\ statement \in {"insert", "delete", "update"}
    BY <1>1 DEF TablesInv, PageZeroOK
  <2>3. ~catalog.dirty' => SamePlaces(catalog.header', file.header')
    BY <1>1, <2>1, <2>2 DEF SamePlaces
  <2> QED
    BY <1>1, <2>1, <2>2, <2>3 DEF PageZeroOK
<1>7. LeftAlone'
  BY <1>1 DEF LeftAlone, Safe
<1> QED
  BY <1>4, <1>5, <1>6, <1>7

LEMMA ChangeKeepsOldTree ==
    ASSUME TablesInv, Safe, NEW u, NEW keys, NEW new, Changes(u, keys, new)
    PROVE  OldTreeStands'
<1>1. /\ Safe' /\ phase = "running" /\ before' = before
      /\ Tree.pages' = u.pages /\ catalog.header' = u.header
      /\ file.header' = file.header /\ Grown(file.pages, file.pages')
      /\ DOMAIN file.pages' = DOMAIN u.pages
      /\ before.root = NoPage \/ before.root \in DOMAIN file.pages
  BY ChangedTable
<1>2. /\ RootKept' => RootKept /\ TreeKept(Tree, u)
      /\ phase' = "refused" => RootKept' \/ statement = "update"
  BY RootKeptBefore
<1>3. /\ DOMAIN Tree.pages = DOMAIN file.pages
      /\ Range(file.header.free_pages) \subseteq DOMAIN file.pages
      /\ \A p \in DOMAIN file.pages : /\ IsKind(file.pages[p], DOMAIN file.pages)
                                      /\ IsKind(Tree.pages[p], DOMAIN Tree.pages)
  BY NamedPages
<1>4. /\ phase' \in {"running", "refused"} /\ statement' = statement
      /\ statement = "delete" => SameShapes(Tree.pages, u.pages) /\ new = {}
  BY DEF Changes
<1>5. ASSUME RootKept' \/ (phase' = "running" /\ statement' \in {"insert", "delete"})
      PROVE  Stands(file.pages', before.root', file.header')
  <2>1. Stands(file.pages, before.root, file.header)
    BY <1>1, <1>2, <1>4, <1>5 DEF TablesInv, OldTreeStands
  <2> DEFINE pages == file.pages
             grown == file.pages'
             r == before.root
             h == file.header
  <2> HIDE DEF pages, grown, r, h
  <2>2. /\ Stands(pages, r, h) /\ Grown(pages, grown) /\ Range(h.free_pages) \subseteq DOMAIN pages
        /\ \A p \in DOMAIN pages : IsKind(pages[p], DOMAIN pages)
        /\ r = NoPage \/ r \in DOMAIN pages
    BY <1>1, <1>3, <2>1 DEF pages, grown, r, h
  <2>3. Stands(grown, r, h)
    BY <2>2, GrownStands
  <2> QED
    BY <1>1, <2>3 DEF grown, r, h
<1>6. ASSUME RootKept' \/ (phase' = "running" /\ statement' = "delete")
      PROVE  /\ Linked(Tree.pages', before.root') /\ Reached(Tree.pages', before.root')
             /\ SameShapes(file.pages', Tree.pages')
  <2>1. /\ Linked(Tree.pages, before.root) /\ Reached(Tree.pages, before.root)
        /\ SameShapes(file.pages, Tree.pages)
    BY <1>1, <1>2, <1>4, <1>6 DEF TablesInv, OldTreeStands
  <2>2. SameShapes(Tree.pages, u.pages)
    BY <1>2, <1>4, <1>6 DEF TreeKept
  <2>3. SameShapes(file.pages', u.pages)
    BY <1>1, <2>1, <2>2 DEF SameShapes, SameShape, Grown
  <2>4. CASE RootKept'
    <3>1. u.header.root = before.root
      BY <1>1, <2>4 DEF RootKept
    <3>2. Good(u)
      BY DEF Changes
    <3> QED
      BY <1>1, <2>3, <3>1, <3>2 DEF Good
  <2>5. CASE statement = "delete"
    <3>1. \A q \in DOMAIN Tree.pages : u.pages[q].rows \subseteq Tree.pages[q].rows
      BY <1>4, <2>5 DEF Changes, RowsChanged
    <3> DEFINE t == Tree.pages
               v == u.pages
               r == before.root
    <3> HIDE DEF t, v, r
    <3>2. /\ SameShapes(t, v) /\ Linked(t, r) /\ Reached(t, r)
          /\ \A q \in DOMAIN t : IsKind(t[q], DOMAIN t) /\ v[q].rows \subseteq t[q].rows
          /\ r = NoPage \/ r \in DOMAIN t
      BY <1>1, <1>3, <2>1, <2>2, <3>1 DEF t, v, r
    <3>3. LeafSet(v, r) = LeafSet(t, r) /\ Linked(v, r)
      <4>1. r # NoPage /\ t[r].kind = "node" =>
              /\ \A row \in v[t[r].kids[1]].rows : row.key <= t[r].sep
              /\ \A row \in v[t[r].kids[2]].rows : row.key >= t[r].sep
        <5> SUFFICES ASSUME r # NoPage, t[r].kind = "node"
                     PROVE  /\ \A row \in v[t[r].kids[1]].rows : row.key <= t[r].sep
                            /\ \A row \in v[t[r].kids[2]].rows : row.key >= t[r].sep
          OBVIOUS
        <5>1. PICK a \in DOMAIN t, b \in DOMAIN t : a # b /\ t[r].kids = <<a, b>>
          BY <3>2 DEF IsKind
        <5>2. LinkedPair(t, r)
          BY <3>2 DEF Linked
        <5> QED
          BY <3>2, <5>1, <5>2 DEF LinkedPair
      <4> QED
        BY <3>2, <4>1, ShapesKeepLinks
    <3>4. Reached(v, r)
      BY <3>2, <3>3 DEF Reached, SameShapes
    <3> QED
      BY <1>1, <2>3, <3>3, <3>4 DEF v, r
  <2> QED
    BY <1>4, <1>6, <2>4, <2>5
<1> QED
  BY <1>5, <1>6 DEF OldTreeStands

LEMMA ChangeKeepsOldRoot ==
    ASSUME TablesInv, Safe, NEW u, NEW keys, NEW new, Changes(u, keys, new)
    PROVE  OldRootIsLeft'
<1>1. /\ phase = "running" /\ before' = before
      /\ Tree.pages' = u.pages /\ catalog.header' = u.header
  BY ChangedTable
<1>2. phase' = "refused" => RootKept' \/ statement = "update"
  BY RootKeptBefore
<1>3. Tree.header = catalog.header /\ NoPage \notin DOMAIN Tree.pages
  BY NamedPages
<1>4. /\ phase' \in {"running", "refused"} /\ statement' = statement /\ todo # {}
      /\ statement = "insert" /\ phase' = "running" => todo' = {}
      /\ \/ TreeKept(Tree, u)
         \/ RootMoved(Tree, u) /\ statement \in {"insert", "update"}
         \/ RootMade(Tree, u) /\ statement = "insert"
         \/ RootRemoved(Tree, u) /\ statement = "delete"
  BY DEF Changes
<1>5. ASSUME ~RootKept', statement = "update"
      PROVE  /\ before.root \in DOMAIN u.pages
             /\ u.pages[before.root].kind = "leaf" /\ u.pages[before.root].next # NoPage
             /\ u.header.root # NoPage /\ u.pages[u.header.root].kind = "node"
  <2>1. CASE TreeKept(Tree, u)
    <3>1. ~RootKept
      BY <1>1, <1>3, <1>5, <2>1 DEF RootKept, TreeKept
    <3>2. /\ before.root \in DOMAIN Tree.pages
          /\ Tree.pages[before.root].kind = "leaf" /\ Tree.pages[before.root].next # NoPage
          /\ catalog.header.root # NoPage /\ Tree.pages[catalog.header.root].kind = "node"
      BY <1>1, <1>5, <3>1 DEF TablesInv, OldRootIsLeft
    <3>3. catalog.header.root \in DOMAIN Tree.pages
      BY <3>2, NamedPages
    <3> QED
      BY <1>3, <2>1, <3>2, <3>3 DEF TreeKept, SameShapes, SameShape
  <2>2. CASE RootMoved(Tree, u)
    <3>1. RootKept
      <4>1. Tree.pages[catalog.header.root].kind = "leaf"
        BY <1>3, <2>2 DEF RootMoved
      <4> QED
        BY <1>1, <1>5, <4>1 DEF TablesInv, OldRootIsLeft
    <3>2. before.root \in DOMAIN u.pages
      BY <1>3, <2>2, <3>1 DEF RootMoved, RootKept, Changes, RowsChanged
    <3> QED
      BY <1>3, <2>2, <3>1, <3>2 DEF RootMoved, RootKept
  <2> QED
    BY <1>4, <1>5, <2>1, <2>2
<1>6. ASSUME ~RootKept', statement = "delete" PROVE u.header.root = NoPage
  <2>1. CASE TreeKept(Tree, u)
    <3>1. ~RootKept
      BY <1>1, <1>3, <1>6, <2>1 DEF RootKept, TreeKept
    <3>2. catalog.header.root = NoPage
      BY <1>1, <1>6, <3>1 DEF TablesInv, OldRootIsLeft
    <3> QED
      BY <1>3, <2>1, <3>2 DEF TreeKept
  <2>2. CASE RootRemoved(Tree, u)
    BY <2>2 DEF RootRemoved
  <2> QED
    BY <1>4, <1>6, <2>1, <2>2
<1> QED
  BY <1>1, <1>2, <1>4, <1>5, <1>6 DEF OldRootIsLeft

LEMMA ChangeKeepsNewRoot ==
    ASSUME TablesInv, Safe, NEW u, NEW keys, NEW new, Changes(u, keys, new)
    PROVE  NewRootInFile'
<1> DEFINE t == Tree
           fs == file.pages
           gs == file.pages'
           r == u.header.root
<1>1. /\ phase = "running" /\ before' = before
      /\ Tree.pages' = u.pages /\ catalog.header' = u.header
      /\ Grown(fs, gs) /\ DOMAIN gs = DOMAIN u.pages
      /\ before.root = NoPage \/ before.root \in DOMAIN fs
      /\ RowsIn(gs) = RowsIn(fs)
  BY ChangedTable
<1>2. /\ t.header = catalog.header /\ NoPage \notin DOMAIN fs /\ DOMAIN t.pages = DOMAIN fs
      /\ Range(t.header.free_pages) \subseteq DOMAIN fs
      /\ t.header.root = NoPage \/ t.header.root \in DOMAIN fs
      /\ \A p \in DOMAIN fs : IsKind(fs[p], DOMAIN fs)
  BY NamedPages
<1>3. /\ statement = "insert" => RootKept
      /\ statement = "insert" /\ RootKept => Stands(fs, before.root, file.header)
      /\ \A p \in Range(t.header.free_pages) : fs[p].kind # "node"
      /\ t.header.root # NoPage =>
            /\ \A p \in DOMAIN fs \ LeafSet(t.pages, t.header.root) : fs[p].rows = {}
            /\ \/ fs[t.header.root].kind = "zeroed"
               \/ /\ fs[t.header.root].kind = t.pages[t.header.root].kind
                  /\ t.pages[t.header.root].kind = "node" =>
                        fs[t.header.root].kids = t.pages[t.header.root].kids
  <2>1. statement = "insert" => RootKept
    BY <1>1 DEF TablesInv, OldRootIsLeft, Changes
  <2> QED
    BY <1>1, <1>2, <2>1 DEF TablesInv, OldTreeStands, NewRootInFile
<1>4. /\ \A p \in DOMAIN fs : gs[p] = fs[p]
      /\ \A p \in DOMAIN gs \ DOMAIN fs : gs[p] = Zeroed
      /\ Zeroed.kind = "zeroed" /\ Zeroed.rows = {}
  BY <1>1 DEF Grown, Zeroed
<1> SUFFICES /\ \A p \in Range(u.header.free_pages) : gs[p].kind # "node"
             /\ r # NoPage =>
                   /\ \A p \in DOMAIN gs \ LeafSet(u.pages, r) : gs[p].rows = {}
                   /\ \/ gs[r].kind = "zeroed"
                      \/ /\ gs[r].kind = u.pages[r].kind
                         /\ u.pages[r].kind = "node" => gs[r].kids = u.pages[r].kids
  BY <1>1 DEF NewRootInFile
<1>5. FreeOK(t.header)
  BY DEF TablesInv, Neat
<1>6. \/ TreeKept(t, u)
      \/ RootMoved(t, u)
      \/ RootMade(t, u) /\ statement = "insert"
      \/ RootRemoved(t, u)
  BY DEF Changes
<1> HIDE DEF t, fs, gs
<1>7. CASE TreeKept(t, u)
  <2>1. r = t.header.root /\ u.header.free_pages = t.header.free_pages
    BY <1>7 DEF TreeKept
  <2>2. DOMAIN gs = DOMAIN fs
    BY <1>1, <1>2, <1>7 DEF TreeKept, SameShapes
  <2>3. r # NoPage => SameShape(t.pages[r], u.pages[r])
    BY <1>2, <1>7, <2>1 DEF TreeKept, SameShapes
  <2>4. r # NoPage => LeafSet(u.pages, r) = LeafSet(t.pages, r)
    BY <2>3 DEF SameShape, LeafSet
  <2> QED
    BY <1>2, <1>3, <1>4, <2>1, <2>2, <2>3, <2>4 DEF SameShape
<1>8. CASE RootMoved(t, u)
  <2> DEFINE low == t.header.root
  <2>1. /\ low \in DOMAIN t.pages /\ t.pages[low].kind = "leaf" /\ u.header.free_pages = <<>>
        /\ r \in DOMAIN u.pages \ DOMAIN t.pages /\ r # NoPage /\ low \in LeafSet(u.pages, r)
    BY <1>8 DEF RootMoved
  <2>2. low # NoPage
    BY <1>2, <2>1
  <2>3. LeafSet(t.pages, low) = {low}
    BY <2>1, <2>2 DEF LeafSet
  <2>4. \A p \in DOMAIN fs : p # low => fs[p].rows = {}
    BY <1>3, <2>2, <2>3
  <2>5. gs[r].kind = "zeroed"
    BY <1>1, <1>2, <1>4, <2>1
  <2>6. \A p \in Range(u.header.free_pages) : FALSE
    BY <2>1 DEF Range
  <2> QED
    BY <1>4, <2>1, <2>4, <2>5, <2>6
<1>9. CASE RootMade(t, u) /\ statement = "insert"
  <2>1. /\ t.header.root = NoPage /\ u.header.free_pages = <<>>
        /\ r \in DOMAIN u.pages /\ r # NoPage /\ u.pages[r].kind = "leaf"
        /\ t.header.free_pages = <<>> => r \notin DOMAIN t.pages
        /\ t.header.free_pages # <<>> => r = Head(t.header.free_pages)
    BY <1>9 DEF RootMade
  <2>2. before.root = NoPage /\ Reached(fs, NoPage)
    BY <1>2, <1>3, <1>9, <2>1 DEF RootKept, Stands
  <2>3. \A p \in DOMAIN fs : fs[p].rows = {}
    BY <2>2 DEF Reached, LeafSet
  <2>4. gs[r].kind \in {"zeroed", "leaf"}
    <3>1. CASE t.header.free_pages = <<>>
      BY <1>1, <1>2, <1>4, <2>1, <3>1
    <3>2. CASE t.header.free_pages # <<>>
      <4>1. PICK q : t.header.free_pages = <<q>>
        BY <1>5, <3>2 DEF FreeOK
      <4>2. Head(<<q>>) = q
        OBVIOUS
      <4>3. q \in Range(<<q>>)
        BY DEF Range
      <4>4. r \in Range(t.header.free_pages)
        BY <2>1, <4>1, <4>2, <4>3
      <4>5. r \in DOMAIN fs /\ fs[r].kind # "node"
        BY <1>2, <1>3, <4>4
      <4> QED
        BY <1>2, <1>4, <4>5 DEF IsKind
    <3> QED
      BY <3>1, <3>2
  <2>5. \A p \in Range(u.header.free_pages) : FALSE
    BY <2>1 DEF Range
  <2> QED
    BY <1>4, <2>1, <2>3, <2>4, <2>5
<1>10. CASE RootRemoved(t, u)
  <2> DEFINE low == t.header.root
  <2>1. /\ low \in DOMAIN t.pages /\ t.pages[low].kind = "leaf"
        /\ r = NoPage /\ u.header.free_pages = <<low>>
    BY <1>10 DEF RootRemoved
  <2>2. low # NoPage /\ fs[low].kind # "node" /\ gs[low] = fs[low]
    BY <1>2, <1>3, <1>4, <2>1
  <2> HIDE DEF low
  <2>3. Range(<<low>>) = {low}
    BY DEF Range
  <2> QED
    BY <2>1, <2>2, <2>3
<1> QED
  BY <1>6, <1>7, <1>8, <1>9, <1>10

LEMMA ChangeKeepsRows ==
    ASSUME TablesInv, Safe, NEW u, NEW keys, NEW new, Changes(u, keys, new)
    PROVE  OldRowsOK' /\ WorkLeft'
<1>1. /\ Safe' /\ phase = "running" /\ before' = before
      /\ Tree.pages' = u.pages /\ catalog.header' = u.header
      /\ Grown(file.pages, file.pages') /\ DOMAIN file.pages' = DOMAIN u.pages
      /\ RowsIn(file.pages') = RowsIn(file.pages)
  BY ChangedTable
<1>2. RootKept' => RootKept /\ TreeKept(Tree, u)
  BY RootKeptBefore
<1>3. /\ DOMAIN Tree.pages = DOMAIN file.pages
      /\ catalog.header.next_row_id \in Nat /\ u.header.next_row_id \in Nat
  BY NamedPages DEF TablesInv, TypesInv, IInv, StateOK, IsHeader, Changes, Neat, Sized, IsTree
<1>4. /\ UNCHANGED <<statement, before, cutShort>>
      /\ u.header.next_row_id >= catalog.header.next_row_id
      /\ keys \subseteq todo /\ todo' \subseteq todo
      /\ phase' = "running" => todo' \intersect keys = {}
      /\ statement = "delete" => new = {}
      /\ statement = "insert" => keys = {}
      /\ \A r \in new : /\ r.id = catalog.header.next_row_id
                        /\ statement = "update" => r.key \notin todo'
  BY DEF Changes
<1>5. /\ DOMAIN Tree.pages \subseteq DOMAIN u.pages
      /\ \A q \in DOMAIN Tree.pages : u.pages[q].rows \subseteq Tree.pages[q].rows \union new
      /\ RowsIn(u.pages) = {r \in RowsIn(Tree.pages) : r.key \notin keys} \union new
  BY DEF Changes, RowsChanged
<1>6. /\ ~cutShort => Below(before.rows, catalog.header.next_row_id)
      /\ RootKept /\ ~cutShort =>
            \A p \in DOMAIN file.pages : before.rows \intersect Tree.pages[p].rows \subseteq file.pages[p].rows
      /\ RootKept => RowsIn(file.pages) \subseteq before.rows \union RowsIn(Tree.pages)
  BY DEF TablesInv, OldRowsOK
<1>7. /\ statement \in {"delete", "update"} =>
             \A r \in RowsIn(Tree.pages) : r.key \in todo => r \in before.rows
      /\ statement = "update" => todo \subseteq KeysOf(RowsIn(Tree.pages))
      /\ statement \in {"insert", "delete", "update"}
  BY <1>1 DEF TablesInv, WorkLeft, PageZeroOK
<1>8. ~cutShort => Below(before.rows, u.header.next_row_id)
  BY <1>3, <1>4, <1>6 DEF Below
<1>9. ~cutShort => new \intersect before.rows = {}
  BY <1>3, <1>4, <1>6 DEF Below
<1>10. ASSUME RootKept', ~cutShort, NEW p \in DOMAIN file.pages'
       PROVE  before.rows \intersect u.pages[p].rows \subseteq file.pages'[p].rows
  <2>1. RootKept /\ DOMAIN u.pages = DOMAIN Tree.pages
    BY <1>2, <1>10 DEF TreeKept, SameShapes
  <2>2. p \in DOMAIN Tree.pages /\ p \in DOMAIN file.pages /\ file.pages'[p] = file.pages[p]
    BY <1>1, <1>3, <1>10, <2>1 DEF Grown
  <2>3. u.pages[p].rows \subseteq Tree.pages[p].rows \union new
    BY <1>5, <2>2
  <2>4. before.rows \intersect Tree.pages[p].rows \subseteq file.pages[p].rows
    BY <1>6, <1>10, <2>1, <2>2
  <2> QED
    BY <1>9, <1>10, <2>2, <2>3, <2>4
<1>11. ASSUME RootKept' PROVE RowsIn(file.pages') \subseteq before.rows \union RowsIn(u.pages)
  <2>1. RowsIn(file.pages) \subseteq before.rows \union RowsIn(Tree.pages)
    BY <1>2, <1>6, <1>11
  <2>2. ASSUME NEW r \in RowsIn(Tree.pages), r.key \in keys PROVE r \in before.rows
    BY <1>4, <1>7, <2>2
  <2> QED
    BY <1>1, <1>5, <2>1, <2>2
<1>12. OldRowsOK'
  BY <1>1, <1>4, <1>8, <1>10, <1>11 DEF OldRowsOK
<1>13. ASSUME phase' = "running", statement \in {"delete", "update"},
              NEW r \in RowsIn(u.pages), r.key \in todo'
       PROVE  r \in before.rows
  <2>1. r \notin new
    BY <1>4, <1>13
  <2>2. r \in RowsIn(Tree.pages) /\ r.key \in todo
    BY <1>4, <1>5, <1>13, <2>1
  <2> QED
    BY <1>7, <1>13, <2>2
<1>14. ASSUME phase' = "running", statement = "update", NEW k \in todo'
       PROVE  k \in KeysOf(RowsIn(u.pages))
  <2>1. k \in KeysOf(RowsIn(Tree.pages)) /\ k \notin keys
    BY <1>4, <1>7, <1>14
  <2>2. PICK r \in RowsIn(Tree.pages) : r.key = k
    BY <2>1 DEF KeysOf
  <2>3. r \in RowsIn(u.pages)
    BY <1>5, <2>1, <2>2
  <2> QED
    BY <2>2, <2>3 DEF KeysOf
<1>15. WorkLeft'
  BY <1>1, <1>4, <1>13, <1>14 DEF WorkLeft
<1> QED
  BY <1>12, <1>15

LEMMA ChangeKeepsTables ==
    ASSUME TablesInv, Safe, TypesInv', NEW u, NEW keys, NEW new, Changes(u, keys, new)
    PROVE  TablesInv'
<1>1. Sized(Tree)' /\ Sized(FileTree)'
  BY FileIsSized, PTL
<1>2. Safe'
  BY ChangedTable
<1> QED
  BY <1>1, <1>2, ChangeKeepsTrees, ChangeKeepsOldTree, ChangeKeepsOldRoot, ChangeKeepsNewRoot,
     ChangeKeepsRows DEF TablesInv

(* Pages of two trees of one shape.                                        *)
LEMMA MixedPagesStand ==
    ASSUME NEW fs, NEW ts, SameShapes(fs, ts),
           \A p \in DOMAIN fs : IsKind(fs[p], DOMAIN fs),
           NEW r, r = NoPage \/ r \in DOMAIN fs, NEW h, Range(h.free_pages) \subseteq DOMAIN fs,
           Stands(fs, r, h), Linked(ts, r), Reached(ts, r),
           NEW gs, DOMAIN gs = DOMAIN fs, \A p \in DOMAIN fs : gs[p] \in {fs[p], ts[p]}
    PROVE  Stands(gs, r, h) /\ SameShapes(gs, ts)
<1>1. SameShapes(fs, gs) /\ SameShapes(gs, ts)
  BY DEF SameShapes, SameShape
<1>2. Linked(fs, r) /\ Reached(fs, r) /\ NoNodeFree(fs, h)
  BY DEF Stands
<1>3. LeafSet(ts, r) = LeafSet(fs, r)
  BY <1>2, ShapesKeepLinks
<1>4. LeafSet(gs, r) = LeafSet(fs, r) /\ Linked(gs, r)
  <2>1. r # NoPage /\ fs[r].kind = "node" =>
          /\ \A row \in gs[fs[r].kids[1]].rows : row.key <= fs[r].sep
          /\ \A row \in gs[fs[r].kids[2]].rows : row.key >= fs[r].sep
    <3> SUFFICES ASSUME r # NoPage, fs[r].kind = "node"
                 PROVE  /\ \A row \in gs[fs[r].kids[1]].rows : row.key <= fs[r].sep
                        /\ \A row \in gs[fs[r].kids[2]].rows : row.key >= fs[r].sep
      OBVIOUS
    <3>1. PICK a \in DOMAIN fs, b \in DOMAIN fs : a # b /\ fs[r].kids = <<a, b>>
      BY DEF IsKind
    <3>2. ts[r].kind = "node" /\ ts[r].kids = <<a, b>> /\ ts[r].sep = fs[r].sep
      BY <3>1 DEF SameShapes, SameShape
    <3>3. LinkedPair(fs, r) /\ LinkedPair(ts, r)
      BY <1>2, <3>2 DEF Linked
    <3>4. /\ \A row \in fs[a].rows : row.key <= fs[r].sep
          /\ \A row \in fs[b].rows : row.key >= fs[r].sep
          /\ \A row \in ts[a].rows : row.key <= fs[r].sep
          /\ \A row \in ts[b].rows : row.key >= fs[r].sep
      BY <3>1, <3>2, <3>3 DEF LinkedPair
    <3> QED
      BY <3>1, <3>4
  <2> QED
    BY <1>1, <1>2, <2>1, ShapesKeepLinks
<1>5. Reached(gs, r)
  BY <1>2, <1>3, <1>4 DEF Reached, SameShapes
<1>6. NoNodeFree(gs, h)
  BY <1>1, <1>2 DEF NoNodeFree, SameShapes, SameShape
<1> QED
  BY <1>1, <1>4, <1>5, <1>6 DEF Stands

LEMMA PageWritten ==
    ASSUME TablesInv, NEW p \in DOMAIN pool, WriteBack(p)
    PROVE  /\ UNCHANGED <<catalog, phase, statement, todo, before, images, cutShort>>
           /\ phase = "running" => statement \in {"delete", "update"}
           /\ file'.header = file.header /\ DOMAIN file'.pages = DOMAIN file.pages
           /\ file'.pages[p] = Tree.pages[p]
           /\ \A q \in DOMAIN file.pages : q # p => file'.pages[q] = file.pages[q]
           /\ p \in DOMAIN file.pages /\ DOMAIN Tree.pages = DOMAIN file.pages /\ Tree' = Tree
           /\ Safe /\ phase # "new"
           /\ Safe' /\ (RootKept' <=> RootKept) /\ before.sound
<1>1. /\ file'.header = file.header /\ file'.pages = [file.pages EXCEPT ![p] = pool[p]]
      /\ UNCHANGED <<catalog, phase, statement, todo, before, images, cutShort>>
      /\ phase = "running" => statement \in {"delete", "update"}
  BY DEF WriteBack, TablesInv, TypesInv, IInv, StateOK
<1>2. DOMAIN pool \subseteq DOMAIN file.pages
  BY DEF TablesInv, TypesInv, IInv, StateOK
<1>3. /\ DOMAIN Tree.pages = DOMAIN file.pages /\ Tree.pages = Over(pool, file.pages)
      /\ \A q \in DOMAIN file.pages :
            Tree.pages[q] = IF q \in DOMAIN pool THEN pool[q] ELSE file.pages[q]
  <2>1. Tree.pages = Over(pool, file.pages)
    BY DEF Tree
  <2> QED
    BY <1>2, <2>1 DEF Over
<1>4. /\ DOMAIN file'.pages = DOMAIN file.pages /\ file'.pages[p] = Tree.pages[p]
      /\ \A q \in DOMAIN file.pages : q # p => file'.pages[q] = file.pages[q]
  BY <1>1, <1>2, <1>3
<1>5. Tree' = Tree
  <2>1. DOMAIN pool' = DOMAIN pool \ {p} /\ \A q \in DOMAIN pool' : pool'[q] = pool[q]
    BY DEF WriteBack, Restrict
  <2>2. Over(pool', file'.pages) = Over(pool, file.pages)
    <3>1. DOMAIN pool' \union DOMAIN file'.pages = DOMAIN pool \union DOMAIN file.pages
      BY <1>2, <1>4, <2>1
    <3>2. \A q \in DOMAIN pool \union DOMAIN file.pages :
             (IF q \in DOMAIN pool' THEN pool'[q] ELSE file'.pages[q])
                = (IF q \in DOMAIN pool THEN pool[q] ELSE file.pages[q])
      BY <1>2, <1>3, <1>4, <2>1
    <3> QED
      BY <3>1, <3>2 DEF Over
  <2> QED
    BY <1>1, <2>2 DEF Tree
<1>6. Safe /\ phase # "new"
  <2>1. pool # NoPages
    BY NoPagesAreEmpty
  <2> QED
    BY <2>1 DEF TablesInv, PageZeroOK, LeftAlone, Safe
<1>7. Safe' /\ (RootKept' <=> RootKept) /\ before.sound
  BY <1>1, <1>6 DEF Safe, RootKept
<1> QED
  BY <1>1, <1>2, <1>3, <1>4, <1>5, <1>6, <1>7

LEMMA WriteBackKeepsTables ==
    ASSUME TablesInv, TypesInv', NEW p \in DOMAIN pool, WriteBack(p)
    PROVE  TablesInv'
<1>1. /\ file'.header = file.header
      /\ UNCHANGED <<catalog, phase, statement, todo, before, cutShort>>
      /\ phase = "running" => statement \in {"delete", "update"}
  BY PageWritten
<1>2. DOMAIN pool \subseteq DOMAIN file.pages
  BY DEF TablesInv, TypesInv, IInv, StateOK
<1>3. DOMAIN Tree.pages = DOMAIN file.pages
  BY PageWritten
<1>4. /\ DOMAIN file'.pages = DOMAIN file.pages /\ file'.pages[p] = Tree.pages[p]
      /\ \A q \in DOMAIN file.pages : q # p => file'.pages[q] = file.pages[q]
  BY PageWritten
<1>5. Tree' = Tree
  BY PageWritten
<1>6. Safe /\ phase # "new"
  BY PageWritten
<1>7. Safe' /\ (RootKept' <=> RootKept) /\ before.sound
  BY PageWritten
<1>8. /\ NoPage \notin DOMAIN file.pages /\ Tree.header = catalog.header
      /\ file.header.root = NoPage \/ file.header.root \in DOMAIN file.pages
      /\ catalog.header.root = NoPage \/ catalog.header.root \in DOMAIN file.pages
      /\ Range(file.header.free_pages) \subseteq DOMAIN file.pages
      /\ Range(catalog.header.free_pages) \subseteq DOMAIN file.pages
      /\ \A q \in DOMAIN file.pages : /\ IsKind(file.pages[q], DOMAIN file.pages)
                                      /\ IsKind(Tree.pages[q], DOMAIN file.pages)
      /\ FileTree.header = file.header
  BY NamedPages
<1>9. Neat(Tree)' /\ Neat(FileTree)' /\ Good(Tree)'
  <2>1. Sized(FileTree)'
    BY FileIsSized, PTL
  <2>2. FileTree.pages' = file'.pages /\ FileTree.header' = file.header
    BY <1>1 DEF FileTree
  <2>3. \A q \in DOMAIN file.pages : IsKind(file'.pages[q], DOMAIN file.pages)
    BY <1>4, <1>8
  <2>4. Neat(FileTree)'
    BY <1>4, <1>8, <2>1, <2>2, <2>3 DEF Neat, TablesInv
  <2> QED
    BY <1>5, <1>6, <2>4 DEF TablesInv
<1>10. PageZeroOK' /\ LeftAlone'
  BY <1>1, <1>6, <1>7 DEF TablesInv, PageZeroOK, LeftAlone, RootKept
<1>11. OldTreeStands'
  <2> SUFFICES ASSUME RootKept \/ (phase = "running" /\ statement = "delete")
               PROVE  /\ Stands(file'.pages, before.root, file.header)
                      /\ SameShapes(file'.pages, Tree.pages)
                      /\ Linked(Tree.pages, before.root) /\ Reached(Tree.pages, before.root)
    BY <1>1, <1>5, <1>7 DEF OldTreeStands
  <2>1. /\ Stands(file.pages, before.root, file.header)
        /\ Linked(Tree.pages, before.root) /\ Reached(Tree.pages, before.root)
        /\ SameShapes(file.pages, Tree.pages)
    BY <1>6 DEF TablesInv, OldTreeStands
  <2>2. before.root = NoPage \/ before.root \in DOMAIN file.pages
    BY <1>8, <1>6 DEF TablesInv, PageZeroOK, RootKept
  <2> DEFINE fs == file.pages
             ts == Tree.pages
             gs == file'.pages
             r == before.root
             h == file.header
  <2>3. /\ SameShapes(fs, ts) /\ DOMAIN gs = DOMAIN fs
        /\ \A q \in DOMAIN fs : IsKind(fs[q], DOMAIN fs) /\ gs[q] \in {fs[q], ts[q]}
        /\ r = NoPage \/ r \in DOMAIN fs
        /\ Range(h.free_pages) \subseteq DOMAIN fs
        /\ Stands(fs, r, h) /\ Linked(ts, r) /\ Reached(ts, r)
    BY <1>4, <1>8, <2>1, <2>2
  <2> HIDE DEF fs, ts, gs, r, h
  <2>4. Stands(gs, r, h) /\ SameShapes(gs, ts)
    BY <2>3, MixedPagesStand
  <2> QED
    BY <2>1, <2>4 DEF fs, ts, gs, r, h
<1>12. OldRootIsLeft'
  BY <1>1, <1>5, <1>6, <1>7 DEF TablesInv, OldRootIsLeft
<1>13. NewRootInFile'
  <2> DEFINE r == catalog.header.root
  <2>1. /\ \A q \in Range(catalog.header.free_pages) : file.pages[q].kind # "node"
        /\ r # NoPage =>
              /\ \A q \in DOMAIN file.pages \ LeafSet(Tree.pages, r) : file.pages[q].rows = {}
              /\ \/ file.pages[r].kind = "zeroed"
                 \/ /\ file.pages[r].kind = Tree.pages[r].kind
                    /\ Tree.pages[r].kind = "node" => file.pages[r].kids = Tree.pages[r].kids
    BY <1>6 DEF TablesInv, NewRootInFile
  <2>2. /\ \A q \in Range(catalog.header.free_pages) : Tree.pages[q].kind # "node"
        /\ \A q \in DOMAIN file.pages \ LeafSet(Tree.pages, r) : Tree.pages[q].rows = {}
    BY <1>3, <1>6, <1>8 DEF TablesInv, Good, NoNodeFree, Reached
  <2>3. \A q \in Range(catalog.header.free_pages) : file'.pages[q].kind # "node"
    BY <1>4, <1>8, <2>1, <2>2
  <2>4. r # NoPage =>
           \A q \in DOMAIN file.pages \ LeafSet(Tree.pages, r) : file'.pages[q].rows = {}
    BY <1>4, <2>1, <2>2
  <2>5. r # NoPage =>
           \/ file'.pages[r].kind = "zeroed"
           \/ /\ file'.pages[r].kind = Tree.pages[r].kind
              /\ Tree.pages[r].kind = "node" => file'.pages[r].kids = Tree.pages[r].kids
    BY <1>4, <1>8, <2>1
  <2> QED
    BY <1>1, <1>4, <1>5, <2>3, <2>4, <2>5 DEF NewRootInFile
<1>14. OldRowsOK'
  <2>1. /\ ~cutShort => Below(before.rows, catalog.header.next_row_id)
        /\ RootKept /\ ~cutShort =>
              \A q \in DOMAIN file.pages : before.rows \intersect Tree.pages[q].rows \subseteq file.pages[q].rows
        /\ RootKept => RowsIn(file.pages) \subseteq before.rows \union RowsIn(Tree.pages)
    BY <1>6 DEF TablesInv, OldRowsOK
  <2>2. RootKept /\ ~cutShort =>
           \A q \in DOMAIN file.pages : before.rows \intersect Tree.pages[q].rows \subseteq file'.pages[q].rows
    BY <1>4, <2>1
  <2>3. RowsIn(file'.pages) \subseteq RowsIn(file.pages) \union RowsIn(Tree.pages)
    BY <1>3, <1>4 DEF RowsIn
  <2> QED
    BY <1>1, <1>4, <1>5, <1>7, <2>1, <2>2, <2>3 DEF OldRowsOK
<1>15. WorkLeft'
  BY <1>1, <1>5, <1>6 DEF TablesInv, WorkLeft
<1> QED
  BY <1>7, <1>9, <1>10, <1>11, <1>12, <1>13, <1>14, <1>15 DEF TablesInv

(* A sound file is a good tree: the pages that are not in its tree hold no *)
(* rows, even if it is the tree of a new root.                             *)
LEMMA TheNextFindsATree ==
    ASSUME TablesInv, Sound(FileTree), ~cutShort,
           \/ phase # "new" /\ statement # "update"
           \/ phase # "running" /\ pool = NoPages
    PROVE  Good(FileTree)
<1> DEFINE f == FileTree
           fs == file.pages
           r == file.header.root
<1>1. /\ DOMAIN Tree.pages = DOMAIN fs /\ NoPage \notin DOMAIN fs
      /\ Tree.header = catalog.header
      /\ r = NoPage \/ r \in DOMAIN fs
      /\ f.header = file.header /\ f.pages = fs
      /\ \A p \in DOMAIN fs : IsKind(fs[p], DOMAIN fs)
  BY NamedPages
<1>2. before.sound /\ Safe
  BY DEF TablesInv, LeftAlone, Safe
<1>3. Neat(f) /\ Linked(fs, r) /\ (r = NoPage => Reached(fs, r))
  BY <1>1, SoundIsLinked DEF TablesInv
<1>4. CASE phase = "answered"
  <2>1. SamePlaces(catalog.header, file.header)
    BY <1>4 DEF TablesInv, PageZeroOK
  <2>2. /\ \A p \in Range(file.header.free_pages) : fs[p].kind # "node"
        /\ r # NoPage =>
              /\ \A p \in DOMAIN fs \ LeafSet(Tree.pages, r) : fs[p].rows = {}
              /\ \/ fs[r].kind = "zeroed"
                 \/ /\ fs[r].kind = Tree.pages[r].kind
                    /\ Tree.pages[r].kind = "node" => fs[r].kids = Tree.pages[r].kids
    BY <1>2, <2>1 DEF TablesInv, NewRootInFile, SamePlaces
  <2>3. r # NoPage => fs[r].kind # "zeroed"
    BY <1>3 DEF Linked, LinkedPair
  <2>4. r # NoPage => LeafSet(fs, r) = LeafSet(Tree.pages, r)
    BY <2>2, <2>3 DEF LeafSet
  <2>5. Reached(fs, r)
    BY <1>3, <2>2, <2>4 DEF Reached
  <2> QED
    BY <1>1, <1>3, <2>2, <2>5 DEF Good, NoNodeFree
<1>5. CASE phase # "answered"
  <2>1. r = before.root
    BY <1>5 DEF TablesInv, PageZeroOK
  <2>2. CASE RootKept \/ (phase = "running" /\ statement \in {"insert", "delete"})
    <3>1. Stands(fs, r, file.header)
      BY <1>2, <2>1, <2>2 DEF TablesInv, OldTreeStands
    <3> QED
      BY <1>1, <3>1 DEF Good, Stands
  <2>3. CASE ~(RootKept \/ (phase = "running" /\ statement \in {"insert", "delete"}))
    <3>1. phase = "refused" /\ statement = "update"
      BY <1>2, <1>5, <2>3 DEF TablesInv, PageZeroOK, OldRootIsLeft, TypesInv, SizesOK
    <3>2. pool = NoPages
      BY <3>1
    <3>3. Tree.pages[before.root].kind = "leaf" /\ Tree.pages[before.root].next # NoPage
          /\ before.root \in DOMAIN fs
      BY <1>1, <1>2, <2>3, <3>1 DEF TablesInv, OldRootIsLeft
    <3>4. Tree.pages[before.root] = fs[before.root]
      BY <3>2, <3>3, NoPagesAreEmpty DEF Tree, Over
    <3>5. r # NoPage /\ fs[r].kind = "leaf" /\ fs[r].next # NoPage
      BY <1>1, <2>1, <3>3, <3>4
    <3> QED
      BY <1>3, <3>5 DEF Linked, LinkedPair
  <2> QED
    BY <2>2, <2>3
<1> QED
  BY <1>4, <1>5

LEMMA OpenFileKeepsTables ==
    ASSUME TablesInv, TypesInv', OpenFile, UNCHANGED file,
           \/ phase # "new" /\ phase' = "new" /\ statement' = "none"
           \/ /\ phase # "running" /\ pool = NoPages /\ ~cutShort
              /\ phase' = "running" /\ statement' \in {"insert", "delete", "update"}
              /\ todo' \in KeysFor(statement')
    PROVE  TablesInv'
<1> DEFINE fs == file.pages
           h == file.header
<1>1. /\ before'.root = h.root /\ before'.rows = Rows(FileTree) /\ before'.sound = Sound(FileTree)
      /\ catalog'.header = h /\ ~catalog'.dirty /\ pool' = NoPages
      /\ cutShort' = (cutShort \/ statement = "update")
  <2>1. before' = [root |-> h.root, rows |-> Rows(FileTree), sound |-> Sound(FileTree)]
    BY DEF OpenFile
  <2>2. StateOK
    BY DEF TablesInv, TypesInv, IInv
  <2> QED
    BY <2>1, <2>2, OpenFileReads
<1>2. /\ FileTree.header = h /\ FileTree.pages = fs /\ Rows(FileTree) = RowsIn(fs)
      /\ FileTree' = FileTree
  <2>1. FileTree.header = h /\ FileTree.pages = fs
    BY DEF FileTree
  <2> QED
    BY <2>1 DEF Rows, RowsIn, FileTree
<1>3. Tree.pages' = fs /\ Tree.header' = h
  <2>1. Over(NoPages, fs) = fs
    <3>1. fs = [p \in DOMAIN fs |-> fs[p]]
      BY DEF TablesInv, TypesInv, IInv, StateOK, ArePages
    <3> QED
      BY <3>1, NoPagesAreEmpty DEF Over
  <2>2. Tree.pages' = Over(pool', fs) /\ Tree.header' = catalog'.header
    BY DEF Tree
  <2> QED
    BY <1>1, <2>1, <2>2
<1>4. file'.pages = fs /\ file'.header = h
  OBVIOUS
<1>5. Sized(Tree)' /\ Sized(FileTree)'
  BY FileIsSized, PTL
<1>6. Neat(FileTree) /\ Neat(Tree)' /\ Neat(FileTree)'
  BY <1>2, <1>3, <1>5 DEF TablesInv, Neat
<1>7. RootKept'
  BY <1>1 DEF RootKept
<1>8. Safe' => Good(FileTree) /\ ~cutShort
  BY <1>1, TheNextFindsATree DEF Safe
<1>9. Safe' => Linked(fs, h.root) /\ Reached(fs, h.root) /\ NoNodeFree(fs, h)
  BY <1>2, <1>8 DEF Good
<1> HIDE DEF fs, h
<1>10. PageZeroOK'
  BY <1>1, <1>4, <1>7 DEF PageZeroOK, SamePlaces
<1>11. LeftAlone'
  BY <1>1, <1>2, <1>4, NoPagesAreEmpty DEF LeftAlone, SamePlaces
<1>12. Safe' => Good(Tree)'
  BY <1>3, <1>9 DEF Good
<1>13. OldTreeStands'
  <2>1. SameShapes(fs, fs)
    BY DEF SameShapes, SameShape
  <2> QED
    BY <1>1, <1>3, <1>4, <1>9, <2>1 DEF OldTreeStands, Stands
<1>14. OldRootIsLeft'
  BY <1>7 DEF OldRootIsLeft
<1>15. NewRootInFile'
  BY <1>1, <1>3, <1>4, <1>9 DEF NewRootInFile, Reached, NoNodeFree
<1>16. OldRowsOK'
  <2>1. ~cutShort' => Below(before'.rows, catalog'.header.next_row_id)
    BY <1>1, <1>2 DEF TablesInv, TypesInv, IInv, FileCounterAhead, fs, h
  <2> QED
    BY <1>1, <1>2, <1>3, <1>4, <2>1 DEF OldRowsOK
<1>17. WorkLeft'
  <2> SUFFICES ASSUME phase' = "running"
               PROVE  /\ \A r \in RowsIn(fs) : r \in before'.rows
                      /\ statement' = "update" => todo' \subseteq KeysOf(RowsIn(fs))
    BY <1>3 DEF WorkLeft
  <2>1. statement' = "update" => todo' \subseteq KeysOf(Rows(FileTree))
    BY DEF KeysFor
  <2> QED
    BY <1>1, <1>2, <2>1
<1> QED
  BY <1>6, <1>10, <1>11, <1>12, <1>13, <1>14, <1>15, <1>16, <1>17 DEF TablesInv

LEMMA AnswerKeepsTables ==
    ASSUME TablesInv, TypesInv', Answer
    PROVE  TablesInv'
<1>1. /\ phase = "running" /\ phase' = "answered" /\ statement' = "none"
      /\ UNCHANGED <<pool, todo, before, cutShort>>
      /\ file'.pages = file.pages
      /\ file'.header = IF catalog.dirty THEN catalog.header ELSE file.header
      /\ catalog'.header = catalog.header /\ ~catalog'.dirty
  BY DEF Answer, TablesInv, TypesInv, IInv, StateOK
<1>2. /\ Tree.pages' = Tree.pages /\ Tree.header' = Tree.header /\ Tree.header = catalog.header
      /\ FileTree.pages' = file.pages /\ FileTree.header' = file'.header
      /\ FileTree.pages = file.pages /\ FileTree.header = file.header
  BY <1>1 DEF Tree, FileTree
<1>3. (Safe' <=> Safe) /\ (RootKept' <=> RootKept)
  BY <1>1 DEF Safe, RootKept
<1>4. SamePlaces(catalog.header, file'.header)
  BY <1>1 DEF TablesInv, PageZeroOK, SamePlaces
<1>5. Sized(Tree)' /\ Sized(FileTree)'
  BY FileIsSized, PTL
<1>6. Neat(Tree)' /\ Neat(FileTree)'
  BY <1>1, <1>2, <1>5 DEF TablesInv, Neat
<1>7. PageZeroOK'
  BY <1>1, <1>4 DEF PageZeroOK, SamePlaces
<1>8. LeftAlone'
  <2> SUFFICES ASSUME ~before.sound
               PROVE  ~Sound(FileTree') /\ DOMAIN pool = {} /\ SamePlaces(catalog.header, file'.header)
    BY <1>1 DEF LeftAlone, SamePlaces
  <2>1. ~Sound(FileTree) /\ DOMAIN pool = {} /\ SamePlaces(catalog.header, file.header)
    BY DEF TablesInv, LeftAlone
  <2>2. Alike(FileTree, FileTree')
    BY <1>2, <1>4, <2>1 DEF Alike, SamePlaces
  <2> DEFINE a == FileTree
             b == FileTree'
  <2>3. Alike(a, b) /\ ~Sound(a)
    BY <2>1, <2>2
  <2> HIDE DEF a, b
  <2>4. ~Sound(b)
    BY <2>3, AlikeTrees
  <2> QED
    BY <1>4, <2>1, <2>4 DEF b
<1>9. Safe' => Good(Tree)'
  BY <1>2, <1>3 DEF TablesInv, Good
<1>10. OldTreeStands'
  <2> SUFFICES ASSUME Safe, RootKept
               PROVE  /\ Stands(file.pages, before.root, file'.header)
                      /\ Linked(Tree.pages, before.root) /\ Reached(Tree.pages, before.root)
                      /\ SameShapes(file.pages, Tree.pages)
    BY <1>1, <1>2, <1>3 DEF OldTreeStands
  <2>1. /\ Stands(file.pages, before.root, file.header)
        /\ Linked(Tree.pages, before.root) /\ Reached(Tree.pages, before.root)
        /\ SameShapes(file.pages, Tree.pages)
    BY DEF TablesInv, OldTreeStands
  <2>2. NoNodeFree(file.pages, file'.header)
    BY <1>4 DEF TablesInv, NewRootInFile, NoNodeFree, SamePlaces
  <2> QED
    BY <2>1, <2>2 DEF Stands
<1>11. OldRootIsLeft'
  BY <1>1 DEF OldRootIsLeft
<1>12. NewRootInFile'
  BY <1>1, <1>2, <1>3 DEF TablesInv, NewRootInFile
<1>13. OldRowsOK'
  BY <1>1, <1>2, <1>3 DEF TablesInv, OldRowsOK
<1>14. WorkLeft'
  BY <1>1 DEF WorkLeft
<1> QED
  BY <1>6, <1>7, <1>8, <1>9, <1>10, <1>11, <1>12, <1>13, <1>14 DEF TablesInv

(* A statement runs on: not over what was left half written, nor, over     *)
(* anything else, into a root that cannot be read.                         *)
LEMMA TurnsAreSafe ==
    ASSUME TablesInv, phase = "running"
    PROVE  /\ Sound(Tree) => Safe
           /\ Unreadable(Tree) => ~before.sound
           /\ DOMAIN pool = {} => Tree.pages = file.pages
<1>1. Safe <=> before.sound
  BY DEF Safe
<1>2. DOMAIN pool = {} => Tree.pages = file.pages
  <2> SUFFICES ASSUME DOMAIN pool = {} PROVE Over(pool, file.pages) = file.pages
    BY DEF Tree
  <2>1. file.pages = [p \in DOMAIN file.pages |-> file.pages[p]]
    BY DEF TablesInv, TypesInv, IInv, StateOK, ArePages
  <2> QED
    BY <2>1 DEF Over
<1>3. ~before.sound => ~Sound(Tree)
  <2> SUFFICES ASSUME ~before.sound PROVE ~Sound(Tree)
    OBVIOUS
  <2>1. ~Sound(FileTree) /\ DOMAIN pool = {} /\ SamePlaces(catalog.header, file.header)
    BY DEF TablesInv, LeftAlone
  <2>2. Alike(FileTree, Tree)
    BY <1>2, <2>1, NamedPages DEF Alike, SamePlaces
  <2> DEFINE a == FileTree
             b == Tree
  <2>3. Alike(a, b) /\ ~Sound(a)
    BY <2>1, <2>2
  <2> HIDE DEF a, b
  <2>4. ~Sound(b)
    BY <2>3, AlikeTrees
  <2> QED
    BY <2>4 DEF b
<1>4. Unreadable(Tree) => ~before.sound
  <2> SUFFICES ASSUME Unreadable(Tree), before.sound PROVE FALSE
    OBVIOUS
  <2>1. Linked(Tree.pages, Tree.header.root)
    BY <1>1 DEF TablesInv, Good
  <2> QED
    BY <2>1 DEF Unreadable, Linked, LinkedPair
<1> QED
  BY <1>1, <1>2, <1>3, <1>4

LEMMA FailToReadKeepsTables ==
    ASSUME TablesInv, TypesInv', FailToRead
    PROVE  TablesInv'
<1> DEFINE u == IF statement = "delete" THEN Tree ELSE TakeRowId(Tree)
           fs == file.pages
<1>1. /\ phase = "running" /\ phase' = "refused" /\ Become(u) /\ Unreadable(Tree)
      /\ UNCHANGED <<statement, todo, before, cutShort>>
  BY DEF FailToRead, Refuse
<1>2. /\ ~before.sound /\ DOMAIN pool = {} /\ SamePlaces(catalog.header, file.header)
      /\ Tree.pages = fs /\ Tree.header = catalog.header
  BY <1>1, TurnsAreSafe, NamedPages DEF TablesInv, LeftAlone
<1>3. /\ Sized(u) /\ u.pages = fs /\ SamePlaces(u.header, catalog.header)
      /\ u.header.next_row_id >= catalog.header.next_row_id
  <2>1. /\ Sized(Tree) /\ Sized(TakeRowId(Tree)) /\ Alike(Tree, TakeRowId(Tree))
        /\ TakeRowId(Tree).header.next_row_id = Tree.header.next_row_id + 1
    BY TheTableIsSized, TakeRowIdChanges DEF TablesInv, Sized
  <2>2. catalog.header.next_row_id \in Nat
    BY DEF TablesInv, TypesInv, IInv, StateOK, IsHeader
  <2>3. CASE statement = "delete"
    BY <1>2, <2>1, <2>2, <2>3 DEF SamePlaces
  <2>4. CASE statement # "delete"
    BY <1>2, <2>1, <2>2, <2>4 DEF SamePlaces, Alike
  <2> QED
    BY <2>3, <2>4
<1> HIDE DEF u
<1>4. /\ Tree.pages' = fs /\ catalog.header' = u.header /\ file.header' = file.header
      /\ Grown(fs, file.pages') /\ DOMAIN file.pages' = DOMAIN fs
  BY <1>1, <1>3, BecomeTable DEF TablesInv
<1>5. file.pages' = fs
  <2>1. fs = [p \in DOMAIN fs |-> fs[p]] /\ file.pages' = [p \in DOMAIN file.pages' |-> file.pages'[p]]
    BY DEF TablesInv, TypesInv, IInv, StateOK, ArePages
  <2> QED
    BY <1>4, <2>1 DEF Grown
<1>6. DOMAIN pool' = {}
  <2> DEFINE pages == [p \in DOMAIN fs |-> IF p \in DOMAIN fs THEN fs[p] ELSE Zeroed]
             kept == {p \in DOMAIN fs : fs[p] # pages[p]}
  <2>1. pool' = Restrict(fs, kept)
    BY <1>1, <1>3 DEF Become
  <2>2. kept = {}
    OBVIOUS
  <2> QED
    BY <2>1, <2>2 DEF Restrict
<1>7. SamePlaces(catalog.header', file.header')
  BY <1>2, <1>3, <1>4 DEF SamePlaces
<1>8. /\ Tree.header' = u.header /\ FileTree.header' = file.header /\ FileTree.pages' = fs
      /\ FileTree' = FileTree
  BY <1>4, <1>5 DEF Tree, FileTree
<1>9. Sized(Tree)' /\ Sized(FileTree)'
  BY FileIsSized, PTL
<1>10. Neat(Tree)' /\ Neat(FileTree)'
  BY <1>2, <1>3, <1>4, <1>8, <1>9 DEF TablesInv, Neat, FreeOK, SamePlaces
<1>11. PageZeroOK'
  BY <1>1, <1>4, <1>7 DEF TablesInv, PageZeroOK
<1>12. LeftAlone'
  BY <1>1, <1>2, <1>6, <1>7, <1>8 DEF TablesInv, LeftAlone
<1>13. ~Safe'
  BY <1>1, <1>2 DEF Safe
<1>14. OldRowsOK'
  <2>1. ~cutShort => Below(before.rows, catalog.header.next_row_id)
    BY DEF TablesInv, OldRowsOK
  <2>2. catalog.header.next_row_id \in Nat /\ u.header.next_row_id \in Nat
    BY <1>3 DEF TablesInv, TypesInv, IInv, StateOK, IsHeader, Sized, IsTree
  <2>3. ~cutShort => Below(before.rows, u.header.next_row_id)
    BY <1>3, <2>1, <2>2 DEF Below
  <2> QED
    BY <1>1, <1>4, <1>13, <2>3 DEF OldRowsOK
<1>15. OldTreeStands' /\ OldRootIsLeft' /\ NewRootInFile' /\ WorkLeft'
  BY <1>13 DEF OldTreeStands, OldRootIsLeft, NewRootInFile, WorkLeft
<1> QED
  BY <1>10, <1>11, <1>12, <1>13, <1>14, <1>15 DEF TablesInv

LEMMA KeyRemovedRows ==
    ASSUME NEW t, NEW u, NEW key, KeyRemoved(t, u, key)
    PROVE  SameShapes(t.pages, u.pages) /\ RowsChanged(t, u, {key}, {})
<1>1. /\ SameShapes(t.pages, u.pages) /\ DOMAIN u.pages = DOMAIN t.pages
      /\ \A q \in DOMAIN t.pages : u.pages[q].rows = {s \in t.pages[q].rows : s.key # key}
  BY DEF KeyRemoved, SameShapes
<1>2. RowsIn(u.pages) = {s \in RowsIn(t.pages) : s.key \notin {key}} \union {}
  <2>1. \A s : s \in RowsIn(u.pages) <=> s \in RowsIn(t.pages) /\ s.key # key
    BY <1>1 DEF RowsIn
  <2> QED
    BY <2>1
<1> QED
  BY <1>1, <1>2 DEF RowsChanged

(* The actions that change the tree.                                       *)
LEMMA TheTableIsGood ==
    ASSUME TablesInv, Safe
    PROVE  LET t == TakeRowId(Tree)
           IN  /\ Neat(Tree) /\ Good(Tree) /\ Neat(t) /\ Good(t)
               /\ IsTree(Tree) /\ IsTree(t)
               /\ Alike(Tree, t) /\ t.dirty /\ t.pages = Tree.pages
               /\ t.header.root = Tree.header.root
               /\ t.header.next_row_id >= catalog.header.next_row_id
               /\ Tree.header = catalog.header /\ Tree.dirty = catalog.dirty
               /\ Rows(Tree) = RowsIn(Tree.pages)
<1> DEFINE a == Tree
           t == TakeRowId(Tree)
<1>1. Sized(a) /\ Sized(t) /\ Alike(a, t) /\ IsTree(a) /\ IsTree(t)
  BY TheTableIsSized DEF TablesInv, Sized
<1>2. Tree.header = catalog.header /\ Tree.dirty = catalog.dirty
  BY TheTable DEF TablesInv, TypesInv, IInv
<1>3. t.dirty /\ t.header.next_row_id = a.header.next_row_id + 1
  BY <1>1, TakeRowIdChanges
<1>4. catalog.header.next_row_id \in Nat
  BY DEF TablesInv, TypesInv, IInv, StateOK, IsHeader
<1>5. Neat(a) /\ Good(a)
  BY DEF TablesInv
<1>6. Rows(Tree) = RowsIn(Tree.pages)
  BY DEF Rows, RowsIn
<1>7. t.header.next_row_id >= catalog.header.next_row_id
  BY <1>2, <1>3, <1>4
<1> HIDE DEF a, t
<1>8. Alike(t, a)
  BY <1>1 DEF Alike
<1>9. Neat(t) /\ Good(t)
  BY <1>1, <1>5, <1>8, AlikeTrees
<1> QED
  BY <1>1, <1>2, <1>3, <1>5, <1>6, <1>7, <1>9 DEF a, t, Alike

LEMMA DuplicateChanges ==
    ASSUME TablesInv, NEW kind \in {"insert", "update"}, NEW key,
           At(kind, key), Become(TakeRowId(Tree)), Refuse
    PROVE  Safe /\ \E u : Changes(u, {}, {})
<1> DEFINE u == TakeRowId(Tree)
<1>1. /\ phase = "running" /\ statement = kind /\ key \in todo /\ Sound(Tree) /\ phase' = "refused"
      /\ UNCHANGED <<statement, todo, before, cutShort>>
  BY DEF At, Refuse
<1>2. Safe
  BY <1>1, TurnsAreSafe
<1>3. /\ Neat(u) /\ Good(u) /\ u.dirty /\ u.pages = Tree.pages /\ Alike(Tree, u)
      /\ u.header.next_row_id >= catalog.header.next_row_id
  BY <1>2, TheTableIsGood
<1> HIDE DEF u
<1>4. SameShapes(Tree.pages, u.pages)
  BY <1>3 DEF SameShapes, SameShape
<1>5. TreeKept(Tree, u)
  BY <1>3, <1>4 DEF TreeKept, Alike
<1>6. RowsChanged(Tree, u, {}, {})
  <2>1. RowsIn(u.pages) = {r \in RowsIn(Tree.pages) : r.key \notin {}} \union {}
    BY <1>3
  <2> QED
    BY <1>3, <2>1 DEF RowsChanged
<1>7. Become(u)
  BY DEF u
<1>8. Apart(Tree.pages) => Apart(u.pages)
  BY <1>3
<1>9. Changes(u, {}, {})
  BY <1>1, <1>3, <1>5, <1>6, <1>7, <1>8 DEF Changes
<1> QED
  BY <1>2, <1>9

LEMMA InsertChanges ==
    ASSUME TablesInv, NEW key \in Keys, NEW size \in Sizes, InsertRow(key, size)
    PROVE  Safe /\ \E u : Changes(u, {}, {NewRow(key, size)})
<1> DEFINE t == TakeRowId(Tree)
           row == NewRow(key, size)
           u == Added(t, row)
<1>1. /\ phase = "running" /\ phase' = phase /\ statement = "insert" /\ key \in todo /\ Sound(Tree)
      /\ todo' = todo \ {key} /\ UNCHANGED <<statement, before, cutShort>>
      /\ key \notin KeysOf(Rows(Tree)) /\ MayAdd(Tree, row) /\ Become(u)
  BY DEF InsertRow, At, Done, Taken
<1>2. Safe
  BY <1>1, TurnsAreSafe
<1>3. /\ Neat(Tree) /\ Neat(t) /\ Good(t) /\ t.dirty /\ t.pages = Tree.pages /\ Alike(Tree, t)
      /\ IsTree(Tree) /\ IsTree(t)
      /\ t.header.next_row_id >= catalog.header.next_row_id
      /\ Rows(Tree) = RowsIn(Tree.pages)
  BY <1>2, TheTableIsGood
<1>4. IsRow(row) /\ row.key = key /\ row.id = catalog.header.next_row_id
  BY EngineAssumption DEF IsRow, NewRow
<1>5. todo' = {}
  BY <1>1 DEF TablesInv, TypesInv, IInv, InsertsOne
<1>6. /\ row.key \notin KeysOf(RowsIn(t.pages)) /\ MayAdd(Tree, row)
  BY <1>1, <1>3, <1>4
<1> HIDE DEF t, row
<1> DEFINE m == Tree
<1>7. IsTree(m) /\ Alike(m, t) /\ MayAdd(m, row)
  BY <1>3, <1>6
<1> HIDE DEF m
<1>8. /\ Neat(u) /\ Good(u) /\ RowsChanged(t, u, {}, {row})
      /\ t.header.root = NoPage => RootMade(t, u)
      /\ t.header.root # NoPage => TreeKept(t, u) \/ RootMoved(t, u)
      /\ Apart(t.pages) => Apart(u.pages)
  BY <1>3, <1>4, <1>6, <1>7, AddedIsGood
<1>9. Changed(t, u, {row})
  BY <1>3, AddedChanges
<1> HIDE DEF u
<1>10. /\ RowsChanged(m, u, {}, {row})
       /\ TreeKept(m, u) \/ RootMade(m, u) \/ RootMoved(m, u)
  BY <1>7, <1>8, AlikeTrees
<1>11. u.dirty /\ u.header.next_row_id >= catalog.header.next_row_id
  BY <1>3, <1>9 DEF Changed
<1>12. Apart(Tree.pages) => Apart(u.pages)
  BY <1>3, <1>8
<1>13. Changes(u, {}, {row})
  BY <1>1, <1>4, <1>5, <1>8, <1>10, <1>11, <1>12 DEF Changes, m
<1> QED
  BY <1>2, <1>13 DEF row

LEMMA DeleteChanges ==
    ASSUME TablesInv, NEW key \in Keys, DeleteRow(key)
    PROVE  Safe /\ \E u : Changes(u, {key}, {})
<1> DEFINE t == Tree
           u == Removed(t, key)
<1>1. /\ phase = "running" /\ phase' = phase /\ statement = "delete" /\ key \in todo /\ Sound(Tree)
      /\ todo' = todo \ {key} /\ UNCHANGED <<statement, before, cutShort>>
      /\ Become(u)
  BY DEF DeleteRow, At, Done
<1>2. Safe
  BY <1>1, TurnsAreSafe
<1>3. /\ Neat(t) /\ Good(t) /\ IsTree(t)
      /\ t.header = catalog.header /\ t.dirty = catalog.dirty
  BY <1>2, TheTableIsGood
<1> HIDE DEF t
<1>4. /\ Neat(u) /\ Good(u) /\ KeyRemoved(t, u, key)
      /\ RootFreed(t, key) => RootRemoved(t, u)
      /\ ~RootFreed(t, key) => u.header = t.header /\ u.dirty = t.dirty
  BY <1>3, RemovedIsGood
<1>5. /\ u.header.next_row_id = t.header.next_row_id
      /\ RootFreed(t, key) => u.dirty
  BY <1>3, RemovedIs
<1> HIDE DEF u
<1>6. SameShapes(t.pages, u.pages) /\ RowsChanged(t, u, {key}, {})
  BY <1>4, KeyRemovedRows
<1>7. TreeKept(t, u) \/ RootRemoved(t, u)
  BY <1>4, <1>6 DEF TreeKept
<1>8. ~u.dirty => ~catalog.dirty /\ SamePlaces(u.header, catalog.header)
  BY <1>3, <1>4, <1>5 DEF SamePlaces
<1>9. u.header.next_row_id >= catalog.header.next_row_id
  BY <1>3, <1>5 DEF IsTree, IsHeader
<1>10. Apart(t.pages) => Apart(u.pages)
  <2>1. /\ DOMAIN u.pages = DOMAIN t.pages
        /\ \A q \in DOMAIN t.pages : u.pages[q].rows \subseteq t.pages[q].rows
    BY <1>4, <1>6 DEF SameShapes, KeyRemoved
  <2> QED
    BY <2>1 DEF Apart
<1>11. Changes(u, {key}, {})
  BY <1>1, <1>4, <1>6, <1>7, <1>8, <1>9, <1>10 DEF Changes, t
<1> QED
  BY <1>2, <1>11

LEMMA UpdateChanges ==
    ASSUME TablesInv, NEW key \in Keys, NEW new \in Keys, NEW size \in Sizes,
           UpdateRow(key, new, size)
    PROVE  Safe /\ \E u : Changes(u, {key}, {NewRow(new, size)})
<1> DEFINE t == TakeRowId(Tree)
           row == NewRow(new, size)
           m == Removed(Tree, key)
           rest == Removed(t, key)
           u == Added(rest, row)
<1>1. /\ phase = "running" /\ phase' = phase /\ statement = "update" /\ key \in todo /\ Sound(Tree)
      /\ todo' = todo \ {key} /\ UNCHANGED <<statement, before, cutShort>>
      /\ new # key => new \notin KeysOf(Rows(Tree))
      /\ MayAdd(m, row) /\ Become(u)
  BY DEF UpdateRow, At, Done, Taken
<1>2. Safe
  BY <1>1, TurnsAreSafe
<1>3. /\ Neat(t) /\ Good(t) /\ t.dirty /\ t.pages = Tree.pages /\ Alike(Tree, t)
      /\ t.header.root = Tree.header.root
      /\ IsTree(Tree) /\ IsTree(t)
      /\ t.header.next_row_id >= catalog.header.next_row_id
      /\ Rows(Tree) = RowsIn(Tree.pages)
  BY <1>2, TheTableIsGood
<1>4. IsRow(row) /\ row.key = new /\ row.id = catalog.header.next_row_id
  BY EngineAssumption DEF IsRow, NewRow
<1>5. todo \subseteq KeysOf(RowsIn(Tree.pages))
  BY <1>1, <1>2 DEF TablesInv, WorkLeft
<1>6. Alike(m, rest) /\ IsTree(m) /\ Changed(t, rest, {})
  <2>1. Alike(m, rest)
    BY <1>3, AlikeRemoved
  <2>2. Changed(Tree, m, {}) /\ Changed(t, rest, {})
    BY <1>3, RemovedChanges
  <2> QED
    BY <2>1, <2>2 DEF Changed
<1> HIDE DEF t, row
<1>7. t.header.root # NoPage
  <2>1. RowsIn(t.pages) # {}
    BY <1>1, <1>3, <1>5 DEF KeysOf
  <2> QED
    BY <1>3, <2>1 DEF Good, Reached, LeafSet, RowsIn
<1>8. row.key # key => row.key \notin KeysOf(RowsIn(t.pages))
  BY <1>1, <1>3, <1>4
<1>9. row.key \notin todo'
  BY <1>1, <1>3, <1>4, <1>5
<1> HIDE DEF m
<1>10. /\ Neat(u) /\ Good(u) /\ RowsChanged(t, u, {key}, {row})
       /\ TreeKept(t, u) \/ RootMoved(t, u)
       /\ Apart(t.pages) => Apart(u.pages)
  BY <1>1, <1>3, <1>4, <1>6, <1>7, <1>8, UpdatedIsGood
<1>11. u.dirty /\ u.header.next_row_id >= catalog.header.next_row_id
  <2> HIDE DEF rest
  <2>1. Changed(rest, u, {row})
    BY <1>6, AddedChanges DEF Changed
  <2> QED
    BY <1>3, <1>6, <2>1 DEF Changed
<1> HIDE DEF u
<1> DEFINE a == Tree
<1>12. Alike(a, t)
  BY <1>3
<1> HIDE DEF a
<1>13. RowsChanged(a, u, {key}, {row}) /\ (TreeKept(a, u) \/ RootMoved(a, u))
  BY <1>10, <1>12, AlikeTrees
<1>14. Apart(Tree.pages) => Apart(u.pages)
  BY <1>3, <1>10
<1>15. Changes(u, {key}, {row})
  BY <1>1, <1>4, <1>9, <1>10, <1>11, <1>13, <1>14 DEF Changes, a
<1> QED
  BY <1>2, <1>15 DEF row

LEMMA InitHasTablesInv == Init => TablesInv
<1> SUFFICES ASSUME Init PROVE TablesInv
  OBVIOUS
<1>1. TypesInv
  BY InitHasTypesInv
<1>2. /\ file.header = [root |-> NoPage, free_pages |-> <<>>, next_row_id |-> 1]
      /\ file.pages = NoPages /\ catalog.header = file.header /\ ~catalog.dirty
      /\ pool = NoPages /\ phase = "new" /\ statement = "none" /\ todo = {}
      /\ before.root = NoPage /\ before.rows = {} /\ before.sound /\ ~cutShort
  BY DEF Init
<1>3. /\ DOMAIN Tree.pages = {} /\ Tree.header = file.header
      /\ FileTree.pages = NoPages /\ FileTree.header = file.header
  <2>1. Tree.pages = Over(pool, file.pages) /\ Tree.header = catalog.header
    BY DEF Tree
  <2>2. DOMAIN Over(NoPages, NoPages) = {}
    BY NoPagesAreEmpty DEF Over
  <2> QED
    BY <1>2, <2>1, <2>2 DEF FileTree
<1>4. DOMAIN NoPages = {} /\ RowsIn(NoPages) = {}
  BY NoPagesAreEmpty
<1>5. file.header.root = NoPage /\ file.header.free_pages = <<>> /\ Range(<<>>) = {}
  BY <1>2 DEF Range
<1>6. Neat(Tree) /\ Neat(FileTree)
  BY <1>1, <1>3, <1>4, <1>5, FileIsSized DEF Neat, FreeOK
<1>7. RootKept
  BY <1>2, <1>5 DEF RootKept
<1>8. PageZeroOK /\ LeftAlone /\ WorkLeft /\ OldRootIsLeft
  BY <1>2, <1>5, <1>7 DEF PageZeroOK, LeftAlone, WorkLeft, OldRootIsLeft, SamePlaces
<1>9. ASSUME NEW pages, DOMAIN pages = {} PROVE Stands(pages, NoPage, file.header)
  BY <1>5, <1>9 DEF Stands, Linked, Reached, NoNodeFree
<1>10. Good(Tree)
  BY <1>3, <1>5, <1>9 DEF Good, Stands
<1>11. OldTreeStands
  <2>1. Stands(file.pages, before.root, file.header)
    BY <1>2, <1>4, <1>9
  <2>2. Linked(Tree.pages, before.root) /\ Reached(Tree.pages, before.root)
    BY <1>2, <1>3, <1>9 DEF Stands
  <2>3. SameShapes(file.pages, Tree.pages)
    BY <1>2, <1>3, <1>4 DEF SameShapes
  <2> QED
    BY <2>1, <2>2, <2>3 DEF OldTreeStands
<1>12. NewRootInFile
  BY <1>2, <1>5 DEF NewRootInFile
<1>13. OldRowsOK
  BY <1>2, <1>4 DEF OldRowsOK, Below
<1> QED
  BY <1>1, <1>6, <1>8, <1>10, <1>11, <1>12, <1>13 DEF TablesInv

LEMMA StutterKeepsTables == ASSUME TablesInv, UNCHANGED vars PROVE TablesInv'
<1>1. UNCHANGED <<file, catalog, pool, phase, statement, todo, before, cutShort>>
  BY DEF vars
<1>2. Tree' = Tree /\ FileTree' = FileTree
  BY <1>1 DEF Tree, FileTree
<1>3. TypesInv'
  BY NextKeepsTypesInv DEF TablesInv
<1>4. (Safe' <=> Safe) /\ (RootKept' <=> RootKept)
  BY <1>1 DEF Safe, RootKept
<1>5. /\ Neat(Tree)' /\ Neat(FileTree)' /\ (Safe' => Good(Tree)')
  BY <1>2, <1>4 DEF TablesInv
<1>6. PageZeroOK' /\ LeftAlone'
  BY <1>1, <1>2, <1>4 DEF TablesInv, PageZeroOK, LeftAlone
<1>7. OldTreeStands' /\ OldRootIsLeft'
  BY <1>1, <1>2, <1>4 DEF TablesInv, OldTreeStands, OldRootIsLeft
<1>8. NewRootInFile'
  BY <1>1, <1>2, <1>4 DEF TablesInv, NewRootInFile
<1>9. OldRowsOK' /\ WorkLeft'
  BY <1>1, <1>2, <1>4 DEF TablesInv, OldRowsOK, WorkLeft
<1> QED
  BY <1>3, <1>5, <1>6, <1>7, <1>8, <1>9 DEF TablesInv

LEMMA NextKeepsTablesInv == TablesInv /\ [Next]_vars => TablesInv'
<1> SUFFICES ASSUME TablesInv, [Next]_vars PROVE TablesInv'
  OBVIOUS
<1>1. TypesInv'
  BY NextKeepsTypesInv DEF TablesInv
<1>2. ASSUME Begin PROVE TablesInv'
  <2>1. /\ OpenFile /\ UNCHANGED file
        /\ phase # "running" /\ pool = NoPages /\ ~cutShort
        /\ phase' = "running" /\ statement' \in {"insert", "delete", "update"}
        /\ todo' \in KeysFor(statement')
    BY <1>2 DEF Begin
  <2> QED
    BY <1>1, <2>1, OpenFileKeepsTables
<1>3. ASSUME Crash PROVE TablesInv'
  <2>1. /\ OpenFile /\ UNCHANGED file
        /\ phase # "new" /\ phase' = "new" /\ statement' = "none"
    BY <1>3 DEF Crash
  <2> QED
    BY <1>1, <2>1, OpenFileKeepsTables
<1>4. ASSUME Answer PROVE TablesInv'
  BY <1>1, <1>4, AnswerKeepsTables
<1>5. ASSUME FailToRead PROVE TablesInv'
  BY <1>1, <1>5, FailToReadKeepsTables
<1>6. ASSUME NEW p \in DOMAIN pool, WriteBack(p) PROVE TablesInv'
  BY <1>1, <1>6, WriteBackKeepsTables
<1>7. ASSUME NEW key \in Keys, InsertDuplicate(key) PROVE TablesInv'
  BY <1>1, <1>7, DuplicateChanges, ChangeKeepsTables DEF InsertDuplicate
<1>8. ASSUME NEW key \in Keys, NEW new \in Keys, UpdateDuplicate(key, new) PROVE TablesInv'
  BY <1>1, <1>8, DuplicateChanges, ChangeKeepsTables DEF UpdateDuplicate
<1>9. ASSUME NEW key \in Keys, NEW size \in Sizes, InsertRow(key, size) PROVE TablesInv'
  BY <1>1, <1>9, InsertChanges, ChangeKeepsTables
<1>10. ASSUME NEW key \in Keys, DeleteRow(key) PROVE TablesInv'
  BY <1>1, <1>10, DeleteChanges, ChangeKeepsTables
<1>11. ASSUME NEW key \in Keys, NEW new \in Keys, NEW size \in Sizes, UpdateRow(key, new, size)
       PROVE  TablesInv'
  BY <1>1, <1>11, UpdateChanges, ChangeKeepsTables
<1>12. ASSUME UNCHANGED vars PROVE TablesInv'
  BY <1>12, StutterKeepsTables
<1> HIDE DEF TablesInv
<1> QED
  BY <1>2, <1>3, <1>4, <1>5, <1>6, <1>7, <1>8, <1>9, <1>10, <1>11, <1>12, Zenon DEF Next

-----------------------------------------------------------------------------
(* Rows, one by one.                                                       *)

(* No row is in two pages of the table, nor, until the root has moved, in  *)
(* one page of the table and another one of the file.                      *)
RowsApart ==
    Safe => /\ Apart(Tree.pages)
            /\ RootKept /\ ~cutShort =>
                  /\ Apart(file.pages)
                  /\ \A p, q \in DOMAIN file.pages :
                        p # q => Tree.pages[p].rows \intersect file.pages[q].rows = {}

(* Of a row that an UPDATE has replaced in its leaf, the leaf in memory    *)
(* has what it became, and the leaf in the file has one of the two.        *)
ImageOK(i) ==
    /\ i.leaf \in DOMAIN file.pages
    /\ i.was \in before.rows /\ i.is \notin before.rows
    /\ i.is \in Tree.pages[i.leaf].rows /\ i.was \notin RowsIn(Tree.pages)
    /\ i.was \in file.pages[i.leaf].rows <=> i.is \notin file.pages[i.leaf].rows
    /\ \A q \in DOMAIN file.pages : q # i.leaf => i.was \notin file.pages[q].rows

ImagesOK ==
    /\ phase = "new" \/ (phase = "running" /\ statement # "update") => images = {}
    /\ Safe /\ RootKept /\ ~cutShort => \A i \in images : ImageOK(i)

RowsInv == TablesInv /\ RowsApart /\ ImagesOK

(* A new row has an id that none in memory or in the file has.             *)
LEMMA NewRowsAreFresh ==
    ASSUME TablesInv, Safe, ~cutShort, NEW u, NEW keys, NEW new, Changes(u, keys, new)
    PROVE  /\ new \intersect RowsIn(file.pages) = {} /\ new \intersect RowsIn(Tree.pages) = {}
           /\ new \intersect before.rows = {}
<1>1. /\ Below(RowsIn(file.pages), catalog.header.next_row_id)
      /\ Below(RowsIn(pool), catalog.header.next_row_id)
      /\ Below(before.rows, catalog.header.next_row_id)
      /\ catalog.header.next_row_id \in Nat
  BY DEF TablesInv, TypesInv, IInv, CounterAhead, OldRowsOK, StateOK, IsHeader
<1>2. RowsIn(Tree.pages) \subseteq RowsIn(pool) \union RowsIn(file.pages)
  BY TheTable DEF TablesInv, TypesInv, IInv
<1>3. \A r \in new : r.id = catalog.header.next_row_id
  BY DEF Changes
<1> QED
  BY <1>1, <1>2, <1>3 DEF Below

(* The pages of the file when the root stays.                              *)
LEMMA RootStays ==
    ASSUME TablesInv, Safe, NEW u, NEW keys, NEW new, Changes(u, keys, new), RootKept'
    PROVE  /\ RootKept /\ DOMAIN u.pages = DOMAIN file.pages
           /\ DOMAIN file.pages' = DOMAIN file.pages /\ DOMAIN Tree.pages = DOMAIN file.pages
           /\ \A p \in DOMAIN file.pages : file.pages'[p] = file.pages[p]
<1>1. RootKept /\ TreeKept(Tree, u)
  BY RootKeptBefore
<1>2. DOMAIN u.pages = DOMAIN Tree.pages
  BY <1>1 DEF TreeKept, SameShapes
<1>3. /\ Grown(file.pages, file.pages') /\ DOMAIN file.pages' = DOMAIN u.pages
      /\ DOMAIN Tree.pages = DOMAIN file.pages
  BY ChangedTable, NamedPages
<1> QED
  BY <1>1, <1>2, <1>3 DEF Grown

LEMMA ChangeKeepsApart ==
    ASSUME RowsInv, Safe, NEW u, NEW keys, NEW new, Changes(u, keys, new)
    PROVE  RowsApart'
<1>1. TablesInv /\ Safe' /\ Tree.pages' = u.pages /\ cutShort' = cutShort
  BY ChangedTable DEF RowsInv, Changes
<1>2. Apart(u.pages)
  BY DEF RowsInv, RowsApart, Changes
<1>3. ASSUME RootKept', ~cutShort
      PROVE  /\ Apart(file.pages')
             /\ \A p, q \in DOMAIN file.pages' :
                   p # q => u.pages[p].rows \intersect file.pages'[q].rows = {}
  <2>1. /\ RootKept /\ DOMAIN u.pages = DOMAIN file.pages
        /\ DOMAIN file.pages' = DOMAIN file.pages /\ DOMAIN Tree.pages = DOMAIN file.pages
        /\ \A p \in DOMAIN file.pages : file.pages'[p] = file.pages[p]
    BY <1>1, <1>3, RootStays
  <2>2. /\ Apart(file.pages)
        /\ \A p, q \in DOMAIN file.pages : p # q => Tree.pages[p].rows \intersect file.pages[q].rows = {}
    BY <1>3, <2>1 DEF RowsInv, RowsApart
  <2>3. Apart(file.pages')
    BY <2>1, <2>2 DEF Apart
  <2>4. ASSUME NEW p \in DOMAIN file.pages, NEW q \in DOMAIN file.pages, p # q
        PROVE  u.pages[p].rows \intersect file.pages'[q].rows = {}
    <3>1. u.pages[p].rows \subseteq Tree.pages[p].rows \union new
      BY <2>1 DEF Changes, RowsChanged
    <3>2. new \intersect file.pages[q].rows = {}
      BY <1>1, <1>3, NewRowsAreFresh DEF RowsIn
    <3>3. Tree.pages[p].rows \intersect file.pages[q].rows = {} /\ file.pages'[q] = file.pages[q]
      BY <2>1, <2>2, <2>4
    <3> QED
      BY <3>1, <3>2, <3>3
  <2> QED
    BY <2>1, <2>3, <2>4
<1> QED
  BY <1>1, <1>2, <1>3 DEF RowsApart

(* The images of an UPDATE, the ones it had and those of this turn.        *)
LEMMA ChangeKeepsImages ==
    ASSUME RowsInv, Safe, NEW u, NEW keys, NEW new, Changes(u, keys, new),
           statement # "update" => images' = images,
           \A i \in images' \ images :
               /\ i.leaf \in DOMAIN Tree.pages /\ i.was \in Tree.pages[i.leaf].rows /\ i.was.key \in keys
               /\ i.is \in new /\ i.is \in u.pages[i.leaf].rows
    PROVE  ImagesOK'
<1>1. /\ TablesInv /\ Safe' /\ Tree.pages' = u.pages /\ before' = before
      /\ cutShort' = cutShort /\ statement' = statement /\ phase = "running"
      /\ phase' \in {"running", "refused"}
  BY ChangedTable DEF RowsInv, Changes
<1>2. phase' = "new" \/ (phase' = "running" /\ statement' # "update") => images' = {}
  BY <1>1 DEF RowsInv, ImagesOK
<1>3. ASSUME RootKept', ~cutShort, NEW i \in images'
      PROVE  /\ i.leaf \in DOMAIN file.pages'
             /\ i.was \in before.rows /\ i.is \notin before.rows
             /\ i.is \in u.pages[i.leaf].rows /\ i.was \notin RowsIn(u.pages)
             /\ i.was \in file.pages'[i.leaf].rows <=> i.is \notin file.pages'[i.leaf].rows
             /\ \A q \in DOMAIN file.pages' : q # i.leaf => i.was \notin file.pages'[q].rows
  <2>1. /\ RootKept /\ DOMAIN u.pages = DOMAIN file.pages
        /\ DOMAIN file.pages' = DOMAIN file.pages /\ DOMAIN Tree.pages = DOMAIN file.pages
        /\ \A p \in DOMAIN file.pages : file.pages'[p] = file.pages[p]
    BY <1>1, <1>3, RootStays
  <2>2. /\ new \intersect RowsIn(file.pages) = {} /\ new \intersect RowsIn(Tree.pages) = {}
        /\ new \intersect before.rows = {}
    BY <1>1, <1>3, NewRowsAreFresh
  <2>3. /\ \A q \in DOMAIN Tree.pages : u.pages[q].rows \subseteq Tree.pages[q].rows \union new
        /\ RowsIn(u.pages) = {r \in RowsIn(Tree.pages) : r.key \notin keys} \union new
        /\ keys \subseteq todo /\ (statement = "insert" => keys = {})
    BY DEF Changes, RowsChanged
  <2>4. /\ statement \in {"delete", "update"} =>
               \A r \in RowsIn(Tree.pages) : r.key \in todo => r \in before.rows
        /\ statement \in {"insert", "delete", "update"}
    BY <1>1 DEF TablesInv, WorkLeft, PageZeroOK
  <2>5. /\ \A p \in DOMAIN file.pages : before.rows \intersect Tree.pages[p].rows \subseteq file.pages[p].rows
        /\ Apart(Tree.pages)
        /\ \A p, q \in DOMAIN file.pages : p # q => Tree.pages[p].rows \intersect file.pages[q].rows = {}
    BY <1>3, <2>1 DEF RowsInv, TablesInv, OldRowsOK, RowsApart
  <2>6. CASE i \in images
    <3>1. /\ i.leaf \in DOMAIN file.pages
          /\ i.was \in before.rows /\ i.is \notin before.rows
          /\ i.is \in Tree.pages[i.leaf].rows /\ i.was \notin RowsIn(Tree.pages)
          /\ i.was \in file.pages[i.leaf].rows <=> i.is \notin file.pages[i.leaf].rows
          /\ \A q \in DOMAIN file.pages : q # i.leaf => i.was \notin file.pages[q].rows
      BY <1>3, <2>1, <2>6 DEF RowsInv, ImagesOK, ImageOK
    <3>2. i.is \in RowsIn(Tree.pages)
      BY <2>1, <3>1 DEF RowsIn
    <3>3. i.is.key \notin keys
      BY <2>3, <2>4, <3>1, <3>2
    <3>4. PICK q \in DOMAIN u.pages : i.is \in u.pages[q].rows
      BY <2>3, <3>2, <3>3 DEF RowsIn
    <3>5. i.is \in Tree.pages[q].rows
      BY <2>1, <2>2, <2>3, <3>2, <3>4
    <3>6. q = i.leaf
      BY <2>1, <2>5, <3>1, <3>4, <3>5 DEF Apart
    <3>7. i.was \notin RowsIn(u.pages)
      BY <2>2, <2>3, <3>1
    <3> QED
      BY <2>1, <3>1, <3>4, <3>6, <3>7
  <2>7. CASE i \notin images
    <3>1. /\ i.leaf \in DOMAIN Tree.pages /\ i.was \in Tree.pages[i.leaf].rows /\ i.was.key \in keys
          /\ i.is \in new /\ i.is \in u.pages[i.leaf].rows /\ statement = "update"
      BY <1>3, <2>7
    <3>2. i.was \in RowsIn(Tree.pages)
      BY <3>1 DEF RowsIn
    <3>3. i.was \in before.rows /\ i.is \notin before.rows
      BY <2>2, <2>3, <2>4, <3>1, <3>2
    <3>4. i.was \in file.pages[i.leaf].rows
      BY <2>1, <2>5, <3>1, <3>3
    <3>5. i.is \notin file.pages[i.leaf].rows
      BY <2>1, <2>2, <3>1 DEF RowsIn
    <3>6. i.was \notin RowsIn(u.pages)
      BY <2>2, <2>3, <3>1, <3>2
    <3>7. \A q \in DOMAIN file.pages : q # i.leaf => i.was \notin file.pages[q].rows
      BY <2>1, <2>5, <3>1
    <3> QED
      BY <2>1, <3>1, <3>3, <3>4, <3>5, <3>6, <3>7
  <2> QED
    BY <2>6, <2>7
<1> QED
  BY <1>1, <1>2, <1>3 DEF ImagesOK, ImageOK

LEMMA WriteBackKeepsRows ==
    ASSUME RowsInv, NEW p \in DOMAIN pool, WriteBack(p)
    PROVE  RowsApart' /\ ImagesOK'
<1>1. /\ UNCHANGED <<phase, statement, before, images, cutShort>>
      /\ DOMAIN file'.pages = DOMAIN file.pages
      /\ file'.pages[p] = Tree.pages[p]
      /\ \A q \in DOMAIN file.pages : q # p => file'.pages[q] = file.pages[q]
      /\ p \in DOMAIN file.pages /\ DOMAIN Tree.pages = DOMAIN file.pages /\ Tree' = Tree
      /\ Safe /\ Safe' /\ (RootKept' <=> RootKept)
  BY PageWritten DEF RowsInv
<1>2. Apart(Tree.pages)
  BY <1>1 DEF RowsInv, RowsApart
<1>3. ASSUME RootKept, ~cutShort
      PROVE  /\ Apart(file'.pages)
             /\ \A a, q \in DOMAIN file'.pages : a # q => Tree.pages[a].rows \intersect file'.pages[q].rows = {}
  <2>1. /\ Apart(file.pages)
        /\ \A a, q \in DOMAIN file.pages : a # q => Tree.pages[a].rows \intersect file.pages[q].rows = {}
    BY <1>1, <1>3 DEF RowsInv, RowsApart
  <2> QED
    BY <1>1, <1>2, <2>1 DEF Apart
<1>4. ASSUME RootKept, ~cutShort, NEW i \in images
      PROVE  /\ i.leaf \in DOMAIN file'.pages
             /\ i.was \in before.rows /\ i.is \notin before.rows
             /\ i.is \in Tree.pages[i.leaf].rows /\ i.was \notin RowsIn(Tree.pages)
             /\ i.was \in file'.pages[i.leaf].rows <=> i.is \notin file'.pages[i.leaf].rows
             /\ \A q \in DOMAIN file'.pages : q # i.leaf => i.was \notin file'.pages[q].rows
  <2>1. /\ i.leaf \in DOMAIN file.pages
        /\ i.was \in before.rows /\ i.is \notin before.rows
        /\ i.is \in Tree.pages[i.leaf].rows /\ i.was \notin RowsIn(Tree.pages)
        /\ i.was \in file.pages[i.leaf].rows <=> i.is \notin file.pages[i.leaf].rows
        /\ \A q \in DOMAIN file.pages : q # i.leaf => i.was \notin file.pages[q].rows
    BY <1>1, <1>4 DEF RowsInv, ImagesOK, ImageOK
  <2>2. \A q \in DOMAIN Tree.pages : i.was \notin Tree.pages[q].rows
    BY <2>1 DEF RowsIn
  <2> QED
    BY <1>1, <2>1, <2>2
<1>5. RowsApart'
  BY <1>1, <1>2, <1>3 DEF RowsApart
<1>6. phase' = "new" \/ (phase' = "running" /\ statement' # "update") => images' = {}
  BY <1>1 DEF RowsInv, ImagesOK
<1> QED
  BY <1>1, <1>4, <1>5, <1>6 DEF ImagesOK, ImageOK

LEMMA OpenFileKeepsRows ==
    ASSUME RowsInv, OpenFile, UNCHANGED file
    PROVE  RowsApart' /\ ImagesOK'
<1>1. images' = {} /\ before'.sound = Sound(FileTree) /\ pool' = NoPages
  <2>1. before' = [root |-> file.header.root, rows |-> Rows(FileTree), sound |-> Sound(FileTree)]
    BY DEF OpenFile
  <2> QED
    BY <2>1 DEF OpenFile
<1>2. FileTree.pages = file.pages
  BY DEF FileTree
<1>3. Tree.pages' = file.pages /\ file.pages' = file.pages
  <2>1. Over(NoPages, file.pages) = file.pages
    <3>1. file.pages = [p \in DOMAIN file.pages |-> file.pages[p]]
      BY DEF RowsInv, TablesInv, TypesInv, IInv, StateOK, ArePages
    <3> QED
      BY <3>1, NoPagesAreEmpty DEF Over
  <2>2. Tree.pages' = Over(pool', file'.pages)
    BY DEF Tree
  <2> QED
    BY <1>1, <2>1, <2>2
<1>4. Safe' => Apart(file.pages)
  BY <1>1, <1>2 DEF Safe, Sound
<1>5. Apart(file.pages) => \A p, q \in DOMAIN file.pages :
                              p # q => file.pages[p].rows \intersect file.pages[q].rows = {}
  BY DEF Apart
<1>6. RowsApart'
  BY <1>3, <1>4, <1>5 DEF RowsApart
<1> QED
  BY <1>1, <1>6 DEF ImagesOK

(* Steps that leave all pages as they are.                                 *)
LEMMA SamePagesKeepRows ==
    ASSUME RowsInv, UNCHANGED <<file.pages, Tree.pages, before, images, cutShort>>,
           Safe' => Safe, RootKept' => RootKept, phase' \notin {"new", "running"}
    PROVE  RowsApart' /\ ImagesOK'
<1>1. RowsApart'
  BY DEF RowsInv, RowsApart
<1> QED
  BY <1>1 DEF RowsInv, ImagesOK, ImageOK

LEMMA StutterKeepsRows == ASSUME RowsInv, UNCHANGED vars PROVE RowsApart' /\ ImagesOK'
<1>1. UNCHANGED <<file, catalog, pool, phase, statement, todo, before, images, cutShort>>
  BY DEF vars
<1>2. Tree' = Tree
  BY <1>1 DEF Tree
<1>3. (Safe' <=> Safe) /\ (RootKept' <=> RootKept)
  BY <1>1 DEF Safe, RootKept
<1>4. RowsApart'
  BY <1>1, <1>2, <1>3 DEF RowsInv, RowsApart
<1> QED
  BY <1>1, <1>2, <1>3, <1>4 DEF RowsInv, ImagesOK, ImageOK

LEMMA UpdateKeepsImages ==
    ASSUME RowsInv, NEW key \in Keys, NEW new \in Keys, NEW size \in Sizes, UpdateRow(key, new, size)
    PROVE  ImagesOK'
<1> DEFINE row == NewRow(new, size)
<1>1. PICK u : Changes(u, {key}, {row})
  BY UpdateChanges DEF RowsInv
<1>2. Safe /\ Tree.pages' = u.pages
  BY <1>1, UpdateChanges, ChangedTable DEF RowsInv
<1>3. images' = images \union InPlace(key, row) /\ statement = "update"
  BY DEF UpdateRow, At
<1> HIDE DEF row
<1>4. ASSUME NEW i \in InPlace(key, row)
      PROVE  /\ i.leaf \in DOMAIN Tree.pages /\ i.was \in Tree.pages[i.leaf].rows /\ i.was.key \in {key}
             /\ i.is \in {row} /\ i.is \in u.pages[i.leaf].rows
  <2>1. /\ i \in [leaf : DOMAIN Tree.pages, was : Rows(Tree), is : {row}]
        /\ i.was.key = key /\ i.was \in Tree.pages[i.leaf].rows
        /\ i.is \in Tree'.pages[i.leaf].rows
    BY <1>4 DEF InPlace
  <2> QED
    BY <1>2, <2>1
<1>5. \A i \in images' \ images :
          /\ i.leaf \in DOMAIN Tree.pages /\ i.was \in Tree.pages[i.leaf].rows /\ i.was.key \in {key}
          /\ i.is \in {row} /\ i.is \in u.pages[i.leaf].rows
  BY <1>3, <1>4
<1> QED
  BY <1>1, <1>2, <1>3, <1>5, ChangeKeepsImages

LEMMA InitHasRowsInv == Init => RowsInv
<1> SUFFICES ASSUME Init PROVE RowsInv
  OBVIOUS
<1>1. TablesInv
  BY InitHasTablesInv
<1>2. file.pages = NoPages /\ images = {}
  BY DEF Init
<1>3. DOMAIN file.pages = {} /\ DOMAIN Tree.pages = {}
  BY <1>1, <1>2, NoPagesAreEmpty, NamedPages
<1>4. RowsApart
  BY <1>3 DEF RowsApart, Apart
<1> QED
  BY <1>1, <1>2, <1>4 DEF RowsInv, ImagesOK

LEMMA NextKeepsRowsInv == RowsInv /\ [Next]_vars => RowsInv'
<1> SUFFICES ASSUME RowsInv, [Next]_vars PROVE RowsInv'
  OBVIOUS
<1>1. TablesInv /\ TablesInv'
  BY NextKeepsTablesInv DEF RowsInv
<1> DEFINE Kept == RowsApart' /\ ImagesOK'
<1>2. ASSUME Begin PROVE Kept
  BY <1>2, OpenFileKeepsRows DEF Begin
<1>3. ASSUME Crash PROVE Kept
  BY <1>3, OpenFileKeepsRows DEF Crash
<1>4. ASSUME Answer PROVE Kept
  <2>1. /\ phase = "running" /\ phase' = "answered"
        /\ UNCHANGED <<pool, before, images, cutShort>>
        /\ file'.pages = file.pages /\ catalog'.header = catalog.header
    BY <1>1, <1>4 DEF Answer, TablesInv, TypesInv, IInv, StateOK
  <2>2. Tree.pages' = Tree.pages
    BY <2>1 DEF Tree
  <2>3. (Safe' => Safe) /\ (RootKept' => RootKept)
    BY <2>1 DEF Safe, RootKept
  <2> QED
    BY <2>1, <2>2, <2>3, SamePagesKeepRows
<1>5. ASSUME FailToRead PROVE Kept
  <2>1. /\ phase = "running" /\ phase' = "refused" /\ UNCHANGED before /\ Unreadable(Tree)
    BY <1>5 DEF FailToRead, Refuse
  <2>2. ~Safe'
    BY <1>1, <2>1, TurnsAreSafe DEF Safe
  <2> QED
    BY <2>1, <2>2 DEF RowsApart, ImagesOK
<1>6. ASSUME NEW p \in DOMAIN pool, WriteBack(p) PROVE Kept
  BY <1>6, WriteBackKeepsRows
<1>7. ASSUME NEW key \in Keys, InsertDuplicate(key) PROVE Kept
  <2>1. Safe /\ (\E u : Changes(u, {}, {})) /\ images' = images
    BY <1>1, <1>7, DuplicateChanges DEF InsertDuplicate, Refuse
  <2> QED
    BY <2>1, ChangeKeepsApart, ChangeKeepsImages
<1>8. ASSUME NEW key \in Keys, NEW new \in Keys, UpdateDuplicate(key, new) PROVE Kept
  <2>1. Safe /\ (\E u : Changes(u, {}, {})) /\ images' = images
    BY <1>1, <1>8, DuplicateChanges DEF UpdateDuplicate, Refuse
  <2> QED
    BY <2>1, ChangeKeepsApart, ChangeKeepsImages
<1>9. ASSUME NEW key \in Keys, NEW size \in Sizes, InsertRow(key, size) PROVE Kept
  <2>1. Safe /\ (\E u : Changes(u, {}, {NewRow(key, size)})) /\ images' = images
    BY <1>1, <1>9, InsertChanges DEF InsertRow
  <2> QED
    BY <2>1, ChangeKeepsApart, ChangeKeepsImages
<1>10. ASSUME NEW key \in Keys, DeleteRow(key) PROVE Kept
  <2>1. Safe /\ (\E u : Changes(u, {key}, {})) /\ images' = images
    BY <1>1, <1>10, DeleteChanges DEF DeleteRow
  <2> QED
    BY <2>1, ChangeKeepsApart, ChangeKeepsImages
<1>11. ASSUME NEW key \in Keys, NEW new \in Keys, NEW size \in Sizes, UpdateRow(key, new, size)
       PROVE  Kept
  <2>1. Safe /\ \E u : Changes(u, {key}, {NewRow(new, size)})
    BY <1>1, <1>11, UpdateChanges
  <2> QED
    BY <1>11, <2>1, ChangeKeepsApart, UpdateKeepsImages
<1>12. ASSUME UNCHANGED vars PROVE Kept
  BY <1>12, StutterKeepsRows
<1>13. Kept
  <2> HIDE DEF Kept
  <2> QED
    BY <1>2, <1>3, <1>4, <1>5, <1>6, <1>7, <1>8, <1>9, <1>10, <1>11, <1>12, Zenon DEF Next
<1> QED
  BY <1>1, <1>13 DEF RowsInv

-----------------------------------------------------------------------------
(* What the next engine finds.                                             *)

LEMMA WrittenTablesAreSound ==
    ASSUME RowsInv, Begin \/ Crash, before.sound, AllWritten
    PROVE  Sound(FileTree')
<1>1. /\ pool = NoPages /\ phase # "running" /\ (phase = "refused" => RootKept)
      /\ FileTree' = FileTree
  BY DEF Begin, Crash, FileTree, AllWritten
<1>2. Safe /\ Good(Tree) /\ Neat(FileTree) /\ Apart(Tree.pages)
  <2>1. Safe
    BY DEF Begin, Crash, Safe
  <2> QED
    BY <2>1 DEF RowsInv, TablesInv, RowsApart
<1>3. /\ FileTree.header = file.header /\ FileTree.pages = file.pages
      /\ Tree.header = catalog.header
  BY NamedPages DEF RowsInv
<1>4. Tree.pages = file.pages
  <2>1. Tree.pages = Over(NoPages, file.pages)
    BY <1>1 DEF Tree
  <2>2. file.pages = [p \in DOMAIN file.pages |-> file.pages[p]]
    BY DEF RowsInv, TablesInv, TypesInv, IInv, StateOK, ArePages
  <2> QED
    BY <2>1, <2>2, NoPagesAreEmpty DEF Over
<1>5. Good(FileTree)
  <2>1. CASE phase = "answered"
    <3>1. SamePlaces(catalog.header, file.header)
      BY <2>1 DEF RowsInv, TablesInv, PageZeroOK
    <3> QED
      BY <1>2, <1>3, <1>4, <3>1 DEF Good, NoNodeFree, SamePlaces
  <2>2. CASE phase # "answered"
    <3>1. RootKept /\ file.header.root = before.root
      BY <1>1, <2>2 DEF RowsInv, TablesInv, TypesInv, SizesOK, PageZeroOK
    <3>2. Stands(file.pages, before.root, file.header)
      BY <1>2, <3>1 DEF RowsInv, TablesInv, OldTreeStands
    <3> QED
      BY <1>3, <3>1, <3>2 DEF Good, Stands
  <2> QED
    BY <2>1, <2>2
<1> DEFINE f == FileTree
<1>6. Neat(f) /\ Good(f) /\ Apart(f.pages)
  BY <1>2, <1>3, <1>4, <1>5
<1>7. Sound(f)
  <2> HIDE DEF f
  <2> QED
    BY <1>6, GoodIsSound
<1> QED
  BY <1>1, <1>7

LEMMA CrashKeepsTheTable ==
    ASSUME RowsInv, Crash, before.sound, RootKept, ~cutShort
    PROVE  /\ Sound(FileTree')
           /\ before.rows \intersect Rows(Tree) \subseteq Rows(FileTree')
           /\ Rows(FileTree') \subseteq before.rows \union Rows(Tree)
           /\ \A i \in images : i.was \in Rows(FileTree') <=> i.is \notin Rows(FileTree')
<1>1. Safe /\ TablesInv /\ FileTree' = FileTree
  BY DEF Crash, FileTree, Safe, RowsInv
<1>2. /\ FileTree.header = file.header /\ FileTree.pages = file.pages
      /\ DOMAIN Tree.pages = DOMAIN file.pages
  BY <1>1, NamedPages
<1>3. file.header.root = before.root
  <2>1. CASE phase = "answered"
    BY <1>1, <2>1 DEF TablesInv, PageZeroOK, SamePlaces, RootKept
  <2>2. CASE phase # "answered"
    BY <1>1, <2>2 DEF TablesInv, PageZeroOK
  <2> QED
    BY <2>1, <2>2
<1>4. Stands(file.pages, before.root, file.header)
  BY <1>1 DEF TablesInv, OldTreeStands
<1>5. /\ Apart(file.pages)
      /\ \A p, q \in DOMAIN file.pages : p # q => Tree.pages[p].rows \intersect file.pages[q].rows = {}
  BY <1>1 DEF RowsInv, RowsApart
<1> DEFINE f == FileTree
<1>6. Sound(f)
  <2>1. Neat(f) /\ Good(f) /\ Apart(f.pages)
    BY <1>1, <1>2, <1>3, <1>4, <1>5 DEF TablesInv, Good, Stands
  <2> HIDE DEF f
  <2> QED
    BY <2>1, GoodIsSound
<1>7. /\ \A p \in DOMAIN file.pages : before.rows \intersect Tree.pages[p].rows \subseteq file.pages[p].rows
      /\ RowsIn(file.pages) \subseteq before.rows \union RowsIn(Tree.pages)
  BY <1>1 DEF TablesInv, OldRowsOK
<1>8. Rows(FileTree) = RowsIn(file.pages) /\ Rows(Tree) = RowsIn(Tree.pages)
  BY <1>2 DEF Rows, RowsIn
<1>9. before.rows \intersect RowsIn(Tree.pages) \subseteq RowsIn(file.pages)
  BY <1>2, <1>7 DEF RowsIn
<1>10. ASSUME NEW i \in images
       PROVE  i.was \in RowsIn(file.pages) <=> i.is \notin RowsIn(file.pages)
  <2>1. ImageOK(i)
    BY <1>1 DEF RowsInv, ImagesOK
  <2>2. i.was \in RowsIn(file.pages) <=> i.was \in file.pages[i.leaf].rows
    BY <2>1 DEF ImageOK, RowsIn
  <2>3. i.is \in RowsIn(file.pages) <=> i.is \in file.pages[i.leaf].rows
    BY <1>5, <2>1 DEF ImageOK, RowsIn
  <2> QED
    BY <2>1, <2>2, <2>3 DEF ImageOK
<1> QED
  BY <1>1, <1>6, <1>7, <1>8, <1>9, <1>10

(* What the next engine finds, whenever this one ends: a sound tree when   *)
(* all pages are written, whatever has become of the root, and after a     *)
(* kill at any point before that, if the root has not moved, a sound tree  *)
(* with the rows that the statement has not touched and, of a row that an  *)
(* UPDATE has replaced in its leaf, either the old or the new one.  The    *)
(* pages that a kill keeps are a mixture, but of trees of one shape.       *)
THEOREM TheNextEngineFindsTheTable == Spec => NextEngineFindsTheTable
<1>1. ASSUME RowsInv, [Next]_vars
      PROVE  /\ (Begins \/ Crashes) /\ before.sound /\ AllWritten => Sound(FileTree')
             /\ Crashes /\ before.sound /\ RootKept /\ ~cutShort =>
                   /\ Sound(FileTree')
                   /\ before.rows \intersect Rows(Tree) \subseteq Rows(FileTree')
                   /\ Rows(FileTree') \subseteq before.rows \union Rows(Tree)
                   /\ \A i \in images : i.was \in Rows(FileTree') <=> i.is \notin Rows(FileTree')
  <2>1. Begin \/ Crash \/ (~Begins /\ ~Crashes)
    <3>1. ASSUME phase = "running", phase' \in {"running", "refused", "answered"}
          PROVE  ~Begins /\ ~Crashes
      BY <3>1 DEF Begins, Crashes
    <3>2. ASSUME NEW key \in Keys, InsertDuplicate(key) PROVE ~Begins /\ ~Crashes
      BY <3>1, <3>2 DEF InsertDuplicate, At, Refuse
    <3>3. ASSUME NEW key \in Keys, DeleteRow(key) PROVE ~Begins /\ ~Crashes
      BY <3>1, <3>3 DEF DeleteRow, At, Done
    <3>4. ASSUME NEW key \in Keys, NEW size \in Sizes, InsertRow(key, size)
          PROVE  ~Begins /\ ~Crashes
      BY <3>1, <3>4 DEF InsertRow, At, Done
    <3>5. ASSUME NEW key \in Keys, NEW new \in Keys, UpdateDuplicate(key, new)
          PROVE  ~Begins /\ ~Crashes
      BY <3>1, <3>5 DEF UpdateDuplicate, At, Refuse
    <3>6. ASSUME NEW key \in Keys, NEW new \in Keys, NEW size \in Sizes, UpdateRow(key, new, size)
          PROVE  ~Begins /\ ~Crashes
      BY <3>1, <3>6 DEF UpdateRow, At, Done
    <3>7. ASSUME FailToRead PROVE ~Begins /\ ~Crashes
      BY <3>1, <3>7 DEF FailToRead, Refuse
    <3>8. ASSUME Answer PROVE ~Begins /\ ~Crashes
      BY <3>1, <3>8 DEF Answer
    <3>9. ASSUME UNCHANGED phase PROVE ~Begins /\ ~Crashes
      BY <3>9 DEF Begins, Crashes
    <3>10. ASSUME NEW p \in DOMAIN pool, WriteBack(p) PROVE ~Begins /\ ~Crashes
      BY <3>9, <3>10 DEF WriteBack
    <3>11. ASSUME UNCHANGED vars PROVE ~Begins /\ ~Crashes
      BY <3>9, <3>11 DEF vars
    <3> QED
      BY <1>1, <3>2, <3>3, <3>4, <3>5, <3>6, <3>7, <3>8, <3>10, <3>11, Zenon DEF Next
  <2>2. CASE Begin
    <3>1. ~Crashes
      BY <2>2 DEF Begin, Crashes
    <3> QED
      BY <1>1, <2>2, <3>1, WrittenTablesAreSound
  <2>3. CASE Crash
    BY <1>1, <2>3, CrashKeepsTheTable, WrittenTablesAreSound
  <2> QED
    BY <2>1, <2>2, <2>3
<1> QED
  BY <1>1, InitHasRowsInv, NextKeepsRowsInv, PTL DEF Spec, NextEngineFindsTheTable
=============================================================================
