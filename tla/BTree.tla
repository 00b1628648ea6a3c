-------------------------------- MODULE BTree --------------------------------
(***************************************************************************)
(* The disk B-tree of experiments/cursor/btree.rs: insert, try_insert,     *)
(* remove and the balancing that follows each of them.                     *)
(*                                                                         *)
(* An operation is one step up to its call of balance(); each level of     *)
(* balance(), which moves the cells of one group of siblings and then      *)
(* calls itself on their parent, is one step.  `bal' holds the arguments   *)
(* of the call in progress and the internal node that remove() has still   *)
(* to look at.  `dict' is not part of the code: it is the set of entries   *)
(* that the calls made so far should have left, key by key.                *)
(* A definition that nothing uses and that stands just before another one  *)
(* is a mutant of it: a plausible mistake that some property catches.      *)
(***************************************************************************)
EXTENDS BTreePages

CONSTANT Geometries     \* the trees that may be created

(* A tree: the page of its root, the space of a page (of page 0, which has *)
(* less), the bytes of a cell's header, the largest payload a cell takes,  *)
(* how much of that a page number takes, what an overflow page holds, the  *)
(* siblings balance() looks at on each side, the type of the keys, and the *)
(* keys and the lengths of the payloads that are put in it.                *)
ASSUME GeometriesAssumption ==
    \A g \in Geometries :
        /\ g.root \in Nat /\ g.siblings_per_side \in Nat \ {0}
        /\ g.usable_space \in Nat \ {0} /\ g.zero_space \in Nat
        /\ g.header \in Nat /\ g.max_payload \in Nat
        /\ g.pointer \in Nat /\ g.chunk \in Nat \ {0}
        /\ g.keys \subseteq Nat /\ g.lens \subseteq Nat \ {0}

VARIABLES
    bal,        \* the call of balance() in progress
    removed,    \* the cell remove() returned, until its caller frees it
    dict        \* key -> length of its payload, as the callers expect it

vars == <<geo, pages, bal, removed, dict>>

NoPage == -1
Idle == [on |-> FALSE, page |-> NoPage, parents |-> <<>>, internal |-> NoPage]
Panic == [Idle EXCEPT !.on = TRUE]

Balance(page, parents, internal) ==
    [on |-> TRUE, page |-> page, parents |-> parents, internal |-> internal]

CellType == [key : geo.keys, len : geo.lens, left : Nat, overflow : Nat]
NodeType == [kind : {"node"}, cells : Seq(CellType), right : Nat]
OverflowType == [kind : {"overflow"}, key : geo.keys, from : Nat, to : Nat, next : Nat]

(* The state of the tree.  It leaves Panic out: no level of balance()      *)
(* counts below zero or reads past the first cell when it moves cells to   *)
(* the right (the subtractions of btree.rs are on unsigned integers).      *)
(* That is so of entries of one length, of which two fit in a page, and of *)
(* the lengths of the trees in the run; it is not so of all lengths, since *)
(* div_cell is the divider on the left of the last page and is not moved   *)
(* when the page before it is to be filled.                                *)
TypeOK ==
    /\ geo \in Geometries
    /\ \A p \in DOMAIN pages : p \in Nat /\ pages[p] \in NodeType \union OverflowType
    /\ IsFiniteSet(DOMAIN pages)
    /\ bal = Idle \/ bal \in [on : {TRUE}, page : node_pages(pages),
                             parents : Seq(node_pages(pages)), internal : Nat \union {NoPage}]
    /\ removed = None \/ removed \in CellType
    /\ DOMAIN dict \subseteq geo.keys
    /\ \A k \in DOMAIN dict : dict[k] \in geo.lens

Init ==
    /\ geo \in Geometries
    /\ pages = [p \in {geo.root} |-> EmptyNode]
    /\ bal = Idle
    /\ removed = None
    /\ dict = [k \in {} |-> 0]

-----------------------------------------------------------------------------
(* How balance() shares cells out among pages *)

(* As many cells in each page as it takes, from the left; the cell that    *)
(* does not fit becomes the divider, and is counted in no page.            *)
push_right(d, size) ==
    LET i == Len(d.n)
    IN  IF d.size[i] + size <= geo.usable_space
        THEN [d EXCEPT !.n[i] = @ + 1, !.size[i] = @ + size]
        ELSE [d EXCEPT !.n = Append(@, 0), !.size = Append(@, 0)]

left_biased(cells) ==
    LET left[j \in 0..Len(cells)] ==
            IF j = 0 THEN [n |-> <<0>>, size |-> <<0>>, div |-> 0, ok |-> TRUE]
            ELSE push_right(left[j - 1], storage_size(cells[j]))
    IN  left[Len(cells)]

(* Page i takes the divider on its left, and the last cell of page i - 1   *)
(* becomes the divider.  The counts are unsigned: below zero is a panic.   *)
shift_right(cells, d, i) ==
    IF ~d.ok \/ d.size[i] >= geo.usable_space \div 2 THEN d
    ELSE IF d.div < 2 \/ d.n[i - 1] = 0
            \/ d.size[i - 1] < storage_size(cells[d.div - 1])
    THEN [d EXCEPT !.ok = FALSE]
    ELSE [d EXCEPT
            !.n[i] = @ + 1, !.n[i - 1] = @ - 1, !.div = @ - 1,
            !.size[i] = @ + storage_size(cells[d.div]),
            !.size[i - 1] = @ - storage_size(cells[d.div - 1])]

(* A page gets its half; each turn takes one of the cells on its left.     *)
fill_page(cells, d, i) ==
    LET turn[j \in 0..Len(cells)] ==
            IF j = 0 THEN d ELSE shift_right(cells, turn[j - 1], i)
    IN  turn[Len(cells)]

(* The last pages get their half, from the last to the second.             *)
fill_last_pages(cells, left, k) ==
    LET filled[j \in 0..(k - 1)] ==
            IF j = 0 THEN [left EXCEPT !.div = Len(cells) - left.n[k]]
            ELSE fill_page(cells, filled[j - 1], k + 1 - j)
    IN  filled[k - 1]

(* The first page takes a cell back if the others left it with less.       *)
fill_first_page(d) ==
    IF Len(d.n) = 1 \/ ~d.ok \/ d.size[1] >= geo.usable_space \div 2 THEN d
    ELSE IF d.n[2] = 0 THEN [d EXCEPT !.ok = FALSE]
    ELSE [d EXCEPT !.n[1] = @ + 1, !.n[2] = @ - 1]

balanced(cells, left) == fill_first_page(fill_last_pages(cells, left, Len(left.n)))
distribution(cells) == balanced(cells, left_biased(cells))

(* A number of a heap above a lesser one changes places with the least of  *)
(* those below it, and goes on from there.                                 *)
sift_once(c) ==
    LET kids == {2 * c.at, 2 * c.at + 1} \intersect (1..Len(c.heap))
        least == CHOOSE j \in kids : \A m \in kids : c.heap[j] <= c.heap[m]
    IN  IF kids = {} \/ c.heap[c.at] <= c.heap[least] THEN c
        ELSE [heap |-> [c.heap EXCEPT ![c.at] = c.heap[least], ![least] = c.heap[c.at]],
              at |-> least]

sift_down(heap, at) ==
    LET down[m \in 0..Len(heap)] ==
            IF m = 0 THEN [heap |-> heap, at |-> at] ELSE sift_once(down[m - 1])
    IN  down[Len(heap)].heap

(* The array of a heap of pages with the least page number on top, in the  *)
(* order of its slots.                                                     *)
heap_order(ids) ==
    LET half == Len(ids) \div 2
        heap[m \in 0..half] ==
            IF m = 0 THEN ids ELSE sift_down(heap[m - 1], half + 1 - m)
    IN  heap[half]

-----------------------------------------------------------------------------
(* One level of balance() *)

load_siblings_one_each_side(parent, page) ==
    LET last == Len(parent.cells) + 1
        at == CHOOSE s \in 1..last : child(parent, s) = page
    IN  Max2(1, at - geo.siblings_per_side)..Min2(at + geo.siblings_per_side, last)

(* The slots, in the parent, of a page and of the siblings around it.      *)
load_siblings(parent, page) ==
    LET last == Len(parent.cells) + 1
        at == CHOOSE s \in 1..last : child(parent, s) = page
        side == IF at \in {1, last} THEN 2 * geo.siblings_per_side
                ELSE geo.siblings_per_side
    IN  Max2(1, at - side)..Min2(at + side, last)

(* The cells of the siblings in order, with the dividers from the parent   *)
(* between them; a divider points at the last child of the page before it. *)
in_order(pgs, parent, slots) ==
    LET cells[s \in slots] ==
            LET page == pgs[child(parent, s)]
                divider == [parent.cells[s - 1] EXCEPT
                               !.left = pgs[child(parent, s - 1)].right]
            IN  IF s = Min(slots) THEN page.cells
                ELSE Append(cells[s - 1], divider) \o page.cells
    IN  cells[Max(slots)]

(* The pages the cells go to: those of the siblings and new ones, or the   *)
(* first of them, in the order of a heap.                                  *)
sibling_pages(pgs, siblings, n) ==
    heap_order(IF n <= Len(siblings) THEN SubSeq(siblings, 1, n)
               ELSE siblings \o next_pages(pgs, n - Len(siblings)))

(* The pages of a group with their cells, each divider pointing at the     *)
(* page before it; the parent, with the dividers in place of the old ones. *)
regrouped(pgs, parent, lo, hi, share, cells, new) ==
    LET k == Len(new)
        before[i \in 1..(k + 1)] ==
            IF i = 1 THEN 0 ELSE before[i - 1] + share.n[i - 1] + 1
        Right(i) == IF i = k THEN pgs[child(parent, hi)].right
                    ELSE cells[before[i + 1]].left
        rest == SubSeq(parent.cells, hi, Len(parent.cells))
    IN  [pages |-> [i \in 1..k |->
                       Node(SubSeq(cells, before[i] + 1, before[i] + share.n[i]), Right(i))],
         parent |-> Node(SubSeq(parent.cells, 1, lo - 1)
                         \o [i \in 1..(k - 1) |-> [cells[before[i + 1]] EXCEPT !.left = new[i]]]
                         \o (IF rest = <<>> THEN <<>>
                              ELSE <<[Head(rest) EXCEPT !.left = new[k]]>> \o Tail(rest)),
                         IF rest = <<>> THEN new[k] ELSE parent.right)]

placed(pgs, parent_page, old, new, group) ==
    LET Index(p) == CHOOSE i \in DOMAIN new : new[i] = p
    IN  [p \in (DOMAIN pgs \ ToSet(old)) \union ToSet(new) |->
            IF p = parent_page THEN group.parent
            ELSE IF p \in ToSet(new) THEN group.pages[Index(p)] ELSE pgs[p]]

(* Moves all the cells of a group of siblings, and the dividers between    *)
(* them, out to as many pages as `share' says.                             *)
redistribute(pgs, parent_page, slots, share) ==
    LET parent == pgs[parent_page]
        old == [i \in 1..Cardinality(slots) |-> child(parent, Min(slots) + i - 1)]
        Place(new) == placed(pgs, parent_page, old, new,
                             regrouped(pgs, parent, Min(slots), Max(slots), share,
                                       in_order(pgs, parent, slots), new))
    IN  Place(sibling_pages(pgs, old, Len(share.n)))

(* What balance() has to do with a page.                                   *)
underflows(p, parents) ==
    pages[p].cells = <<>> \/ (parents # <<>> /\ is_underflow(pages, p))

balance_returns_for_good(parents) == bal' = Idle
balance_returns_always(parents) == bal' = Balance(bal.internal, <<>>, NoPage)

(* Once balance() returns, remove() calls it for the internal node that    *)
(* got the substitute, unless the calls for its children went through it.  *)
balance_returns(parents) ==
    LET left == {i \in DOMAIN parents : parents[i] = bal.internal}
    IN  bal' = IF left = {} THEN Idle
               ELSE Balance(bal.internal, SubSeq(parents, 1, Min(left) - 1), NoPage)

go_up_without_pop(parents) == bal' = [bal EXCEPT !.page = Last(parents)]
go_up(parents) ==
    bal' = [bal EXCEPT !.page = Last(parents), !.parents = Front(parents)]

(* Regroups a page that is not the root and goes on with its parent.       *)
regroup_as(pgs, parents, slots, share) ==
    IF ~share.ok THEN bal' = Panic /\ UNCHANGED pages
    ELSE pages' = redistribute(pgs, Last(parents), slots, share) /\ go_up(parents)

regroup(pgs, page, parents) ==
    LET parent == pgs[Last(parents)]
        slots == load_siblings(parent, page)
    IN  regroup_as(pgs, parents, slots, distribution(in_order(pgs, parent, slots)))

BalancedAlready ==
    /\ ~is_overflow(pages, bal.page)
    /\ ~underflows(bal.page, bal.parents)
    /\ balance_returns(bal.parents)
    /\ UNCHANGED pages

(* An empty root takes the cells of its only child, if it has a child and  *)
(* the room for them.                                                      *)
RootUnderflow ==
    LET root == pages[bal.page]
        below == pages[root.right]
    IN  /\ bal.parents = <<>>
        /\ root.cells = <<>>
        /\ balance_returns(<<>>)
        /\ pages' = IF is_leaf(root) \/ used_bytes(below.cells) > free_space(pages, bal.page)
                    THEN pages
                    ELSE free_pages(set_page(pages, bal.page, below), {root.right})

(* A root that is too large hands its cells to a new page below it.        *)
RootOverflow ==
    LET new == next_pages(pages, 1)[1]
    IN  /\ bal.parents = <<>>
        /\ is_overflow(pages, bal.page)
        /\ regroup(set_page(set_page(pages, new, pages[bal.page]),
                            bal.page, Node(<<>>, new)),
                   new, <<bal.page>>)

NodeUnbalanced ==
    /\ bal.parents # <<>>
    /\ is_overflow(pages, bal.page) \/ underflows(bal.page, bal.parents)
    /\ regroup(pages, bal.page, bal.parents)

balance ==
    /\ bal.on /\ bal # Panic
    /\ BalancedAlready \/ RootUnderflow \/ RootOverflow \/ NodeUnbalanced
    /\ UNCHANGED <<geo, removed, dict>>

-----------------------------------------------------------------------------
(* The operations *)

Ready == ~bal.on /\ removed = None

(* A cell takes the place of the one with its key, or a slot of its own.   *)
put(at, key, len) ==
    LET made == alloc_cell(pages, key, len)
        node == pages[at.page]
        old == node.cells[at.slot]
    IN  IF at.found
        THEN free_cell(set_page(made.pages, at.page,
                 [node EXCEPT !.cells[at.slot] = [made.cell EXCEPT !.left = old.left]]),
                 old)
        ELSE set_page(made.pages, at.page,
                 [node EXCEPT !.cells = InsertAt(@, at.slot, made.cell)])

insert(key, len) ==
    LET at == search(pages, geo.root, key)
    IN  /\ Ready
        /\ pages' = put(at, key, len)
        /\ bal' = Balance(at.page, at.parents, NoPage)
        /\ dict' = [k \in DOMAIN dict \union {key} |-> IF k = key THEN len ELSE dict[k]]
        /\ UNCHANGED <<geo, removed>>

try_insert(key, len) ==
    LET at == search(pages, geo.root, key)
    IN  /\ Ready
        /\ IF at.found THEN UNCHANGED <<pages, bal>>
           ELSE /\ pages' = put(at, key, len)
                /\ bal' = Balance(at.page, at.parents, NoPage)
        /\ dict' = [k \in DOMAIN dict \union {key} |->
                        IF k \in DOMAIN dict THEN dict[k] ELSE len]
        /\ UNCHANGED <<geo, removed>>

substitute_least(node, slot) == search_min_key(pages, child(node, slot))

(* The leaf and slot whose cell takes the place of an internal cell: the   *)
(* greatest of the left subtree, or the least of the right one when the    *)
(* child on that side has more cells.                                      *)
substitute(node, slot) ==
    LET left == child(node, slot)
        right == child(node, slot + 1)
    IN  IF Len(pages[left].cells) >= Len(pages[right].cells)
        THEN search_max_key(pages, left)
        ELSE search_min_key(pages, right)

remove_entry(at) ==
    LET node == pages[at.page]
        sub == substitute(node, at.slot)
        leaf == pages[sub.page]
        moved == [leaf.cells[sub.slot] EXCEPT !.left = child(node, at.slot)]
    IN  /\ removed' = node.cells[at.slot]
        /\ IF is_leaf(node)
           THEN /\ pages' = [pages EXCEPT ![at.page].cells = RemoveAt(@, at.slot)]
                /\ bal' = Balance(at.page, at.parents, NoPage)
           ELSE /\ pages' = [pages EXCEPT
                        ![sub.page].cells = RemoveAt(@, sub.slot),
                        ![at.page].cells = [@ EXCEPT ![at.slot] = moved]]
                /\ bal' = Balance(sub.page,
                                  Append(at.parents, at.page) \o sub.parents, at.page)

remove(key) ==
    LET at == search(pages, geo.root, key)
    IN  /\ Ready
        /\ IF at.found THEN remove_entry(at) ELSE UNCHANGED <<pages, bal, removed>>
        /\ dict' = [k \in DOMAIN dict \ {key} |-> dict[k]]
        /\ UNCHANGED geo

(* The caller of remove() frees the overflow pages of what it got.         *)
FreeRemoved ==
    /\ ~bal.on /\ removed # None
    /\ pages' = free_cell(pages, removed)
    /\ removed' = None
    /\ UNCHANGED <<geo, bal, dict>>

Next ==
    \/ balance
    \/ FreeRemoved
    \/ \E k \in geo.keys :
        \/ \E l \in geo.lens : insert(k, l) \/ try_insert(k, l)
        \/ remove(k)

Spec == Init /\ [][Next]_vars

-----------------------------------------------------------------------------
(* Properties *)

(* The nodes of the tree below a page, left to right, each parent before   *)
(* its children, with its depth.                                           *)
nodes_below(page) ==
    LET below[at \in (DOMAIN pages) \X Nat] ==
            LET kids == iter_children(pages[at[1]])
            IN  <<[page |-> at[1], depth |-> at[2]]>> \o
                FlattenSeq([s \in 1..Len(kids) |-> below[<<kids[s], at[2] + 1>>]])
    IN  below[<<page, 0>>]

(* The cells of the tree in the order of an in-order walk.                 *)
cells_in_order ==
    LET below[p \in DOMAIN pages] ==
            LET node == pages[p]
                end == Len(node.cells) + 1
            IN  IF is_leaf(node) THEN node.cells
                ELSE FlattenSeq([s \in 1..end |->
                        below[child(node, s)]
                        \o (IF s = end THEN <<>> ELSE <<node.cells[s]>>)])
    IN  below[geo.root]

(* The searches and the cursor used between two operations.                *)
Quiet == ~bal.on

(* Between any two levels of balance(), not only once it has returned, the *)
(* tree holds the entries that were inserted and not removed, with their   *)
(* last length, each of them once and in the order of their keys.          *)
EntriesKept ==
    LET cells == cells_in_order
    IN  /\ \A i \in 1..(Len(cells) - 1) : cells[i].key < cells[i + 1].key
        /\ {cells[i].key : i \in DOMAIN cells} = DOMAIN dict
        /\ \A i \in DOMAIN cells : cells[i].len = dict[cells[i].key]

(* Every page in use is a node of the tree, or holds a part of one payload *)
(* of the tree or of the entry being handed to the caller of remove(): no  *)
(* page is lost, shared or still used after it was freed, and the chain of *)
(* each payload has all its bytes in order.                                *)
PagesAccounted ==
    LET nodes == nodes_below(geo.root)
        cells == cells_in_order \o (IF removed = None THEN <<>> ELSE <<removed>>)
        chains == [i \in DOMAIN cells |-> overflow_pages(pages, cells[i])]
        count[i \in 0..Len(cells)] == IF i = 0 THEN 0 ELSE count[i - 1] + Len(chains[i])
    IN  /\ {nodes[i].page : i \in DOMAIN nodes} \union
           UNION {ToSet(chains[i]) : i \in DOMAIN cells} = DOMAIN pages
        /\ Len(nodes) + count[Len(cells)] = Cardinality(DOMAIN pages)
        /\ \A i \in DOMAIN cells :
            LET chunks == reassemble_payload(pages, cells[i])
            IN  /\ chunks[1][2] = 1 /\ chunks[Len(chunks)][3] = cells[i].len
                /\ \A j \in DOMAIN chunks :
                    /\ chunks[j][1] = cells[i].key
                    /\ j > 1 => chunks[j][2] = chunks[j - 1][3] + 1

(* All the leaves are at the same depth, even halfway through balance().   *)
SameDepth ==
    LET nodes == nodes_below(geo.root)
        leaves == {i \in DOMAIN nodes : is_leaf(pages[nodes[i].page])}
    IN  \A i, j \in leaves : nodes[i].depth = nodes[j].depth

(* In trees of entries of one length, and in those of the run: a page that *)
(* does not hold its cells, or a page other than the root with no cell, is *)
(* one that balance() was called for and has yet to reach, or the only     *)
(* child of the empty root that it is about to merge.  So in those trees   *)
(* no page but the root is empty, and none overflows, once balance() has   *)
(* returned.  The comment of balance() (btree.rs:1143) promises that of    *)
(* all trees, which the code does not keep: where the cells of a group of  *)
(* siblings differ in size and go to three pages, one of these may get     *)
(* more than it has room for (see TypeOK).                                 *)
OnlyPendingUnbalanced ==
    \A p \in DOMAIN pages :
        (/\ pages[p].kind = "node"
         /\ is_overflow(pages, p) \/ (p # geo.root /\ pages[p].cells = <<>>))
        => \/ p \in {bal.page, bal.internal}
           \/ bal.page = geo.root /\ pages[geo.root] = Node(<<>>, p)

(* Where all the entries have one length, every page but the root has at   *)
(* least half the number of cells that fit in it, rounded down, after a    *)
(* call: where an even number of cells fills a page, no page underflows.   *)
(* The comment of balance() promises that of all trees; where three cells  *)
(* fill a page, four become a page of two, a divider and a page of one,    *)
(* and with entries of two lengths the last step of the distribution may   *)
(* leave the second page with less than half.                              *)
HalfFullOfOneLength ==
    (Quiet /\ Cardinality(geo.lens) = 1) =>
        LET size == geo.header + Min2(Max(geo.lens), geo.max_payload)
        IN  \A p \in DOMAIN pages \ {geo.root} :
                pages[p].kind = "node" =>
                    Len(pages[p].cells) >= (geo.usable_space \div size) \div 2

(* The shape of the tree at every level of balance(): the leaves stay at   *)
(* one depth, and, for the lengths above, only what a call is under way    *)
(* for is out of balance, and at the end the pages are half full.          *)
BalancedTree == SameDepth /\ OnlyPendingUnbalanced /\ HalfFullOfOneLength

(* A search goes down to the right child at each level: it finds every key *)
(* of the tree and no other, with the payload it was inserted with, and    *)
(* max() finds the greatest one, be the root empty or not.                 *)
Payload(found, k) ==
    found # None /\ found[1][1] = k /\ found[Len(found)][3] = dict[k]

SearchFinds ==
    Quiet =>
        /\ \A k \in geo.keys \ DOMAIN dict : get(pages, geo.root, k) = None
        /\ \A k \in DOMAIN dict : Payload(get(pages, geo.root, k), k)
        /\ IF dict = <<>> THEN max(pages, geo.root) = None
           ELSE Payload(max(pages, geo.root), Max(DOMAIN dict))

KeyAt(position) == pages[position[1]].cells[position[2]].key

(* On a tree that does not change under it, a cursor on the root returns   *)
(* the keys of the tree once each in their order, going back through the   *)
(* parents it remembers, and one placed on the result of a search returns  *)
(* that key and all the greater ones.                                      *)
CursorVisitsAll ==
    Quiet =>
        LET fuel == Cardinality(geo.keys) + 1
            From(c) == LET t == traversal(pages, c, fuel) IN [i \in DOMAIN t |-> KeyAt(t[i])]
        IN  /\ From(NewCursor(geo.root)) = ascending(DOMAIN dict)
            /\ \A k \in DOMAIN dict :
                LET at == search(pages, geo.root, k)
                IN  From(InitializedCursor(at.page, at.slot, at.parents)) =
                        ascending({j \in DOMAIN dict : j >= k})

(* The recursion of balance() comes to an end: each call is for a page     *)
(* closer to the root, for the root again with fewer cells, or the second  *)
(* call that remove() makes, and there is only one of those.               *)
BalanceGoesUp ==
    [][bal.on /\ bal'.on /\ bal' # Panic =>
        \/ bal.internal # NoPage /\ bal'.internal = NoPage
        \/ /\ bal'.internal = bal.internal
           /\ \/ Len(bal'.parents) < Len(bal.parents)
              \/ /\ bal'.page = bal.page
                 /\ used_bytes(pages'[bal.page].cells) < used_bytes(pages[bal.page].cells)
      ]_vars
=============================================================================
