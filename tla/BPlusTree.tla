-------------------------------- MODULE BPlusTree --------------------------------
(***************************************************************************)
(* The primary index of a table (src/storage/bplustree.cpp over            *)
(* page_layout.cpp), page by page, with the executors' discipline: a key   *)
(* is inserted after key_exists said no, and removed when a scan found it. *)
(* The pages are those the buffer pool shows its callers (PageStore).      *)
(*                                                                         *)
(* insert() calls itself again after each split and remove() walks the     *)
(* leaves: one call, and one turn of the loop, is one action.  All records *)
(* of a table have one size here, so a page is full after so many records; *)
(* the space of a record that was split away or deleted is not reused      *)
(* before a purge (used).                                                  *)
(*                                                                         *)
(* split_internal is a stub, so the tree has at most two levels.           *)
(*                                                                         *)
(* A definition that no action uses and that stands just before another    *)
(* one is a mutant of it: a plausible mistake that some property catches.  *)
(***************************************************************************)
EXTENDS Naturals, FiniteSets, SequencesExt

CONSTANTS
    Keys,         \* primary keys, in the order of their bytes
    LeafCap,      \* records that fit in a leaf page
    InternalCap,  \* separators that fit in an internal page
    PurgeAt,      \* deleted records that reach PURGE_DEAD_RATIO of a page
    MaxPages,     \* bound: no insertion begins with more pages
    Appending,    \* whether new keys are greater than all others
    Deleting,     \* whether rows are deleted
    Sparing       \* whether the last row of a leaf below the root is spared

ASSUME TreeAssumption ==
    /\ Keys \subseteq Nat
    /\ LeafCap \in Nat \ {0} /\ InternalCap \in Nat \ {0}
    /\ PurgeAt \in Nat \ {0}
    /\ MaxPages \in Nat
    /\ Appending \in BOOLEAN /\ Deleting \in BOOLEAN /\ Sparing \in BOOLEAN

VARIABLES
    pages,    \* the pages 2, 3, ... of the table file
    root,     \* root_page_id on page 0
    free,     \* the free list on page 0
    op,       \* the call under way: insert (key) or remove (key and position)
    orphans   \* history: leaves freed below the root page; Nil when one was used again

vars == <<pages, root, free, op, orphans>>

Nil == 0    \* ROOT_PAGE_ID_INVALID, INVALID_PAGE_ID
Idle == [kind |-> "none"]
Failed == [kind |-> "failed"]

EmptyLeaf == [level |-> "leaf", cells |-> <<>>, used |-> 0, next |-> Nil, prev |-> Nil]

Init ==
    /\ pages = <<>>
    /\ root = Nil
    /\ free = <<>>
    /\ op = Idle
    /\ orphans = {}

-----------------------------------------------------------------------------
(* Reading the tree.                                                       *)

PageIds == {n + 1 : n \in DOMAIN pages}
Page(p) == pages[p - 1]
IsLeaf(p) == Page(p).level = "leaf"
Leaves == {p \in PageIds : IsLeaf(p)}

(* The first slot with a key not below k (binary search of sorted slots);  *)
(* it is past the last slot when there is none.                            *)
FirstSlot(cells, k) == Cardinality({i \in DOMAIN cells : cells[i].key < k}) + 1

RightmostForLastSlot(node, k) ==
    IF FirstSlot(node.cells, k) >= Len(node.cells) THEN node.rightmost
    ELSE node.cells[FirstSlot(node.cells, k)].child
ChildFor(node, k) ==
    IF FirstSlot(node.cells, k) > Len(node.cells) THEN node.rightmost
    ELSE node.cells[FirstSlot(node.cells, k)].child
LeafFor(k) == IF IsLeaf(root) THEN root ELSE ChildFor(Page(root), k)
Leftmost == IF IsLeaf(root) THEN root ELSE Page(root).cells[1].child

(* The leaves that are met from leaf p along the next pointers.            *)
Walk(p) ==
    LET next == [q \in Leaves \union {Nil} |-> IF q = Nil THEN Nil ELSE Page(q).next]
        w[n \in 0..Len(pages)] == IF n = 0 THEN p ELSE next[w[n - 1]]
    IN  w

Nowhere == [leaf |-> Nil, slot |-> 0]
Search(k) ==
    IF root = Nil THEN Nowhere
    ELSE LET w == Walk(LeafFor(k))
             hits == {n \in DOMAIN w : /\ w[n] # Nil
                                       /\ FirstSlot(Page(w[n]).cells, k) <= Len(Page(w[n]).cells)}
         IN  IF hits = {} THEN Nowhere
             ELSE LET p == w[Min(hits)]
                  IN  [leaf |-> p, slot |-> FirstSlot(Page(p).cells, k)]

Cell(pos) == Page(pos.leaf).cells[pos.slot]
KeyExists(k) == Search(k) # Nowhere /\ Cell(Search(k)).key = k /\ ~Cell(Search(k)).deleted

(* What next_entry_from returns one by one, from find_leftmost on: the     *)
(* positions of the rows with key k.                                       *)
Scanned(k) ==
    IF root = Nil THEN {}
    ELSE LET w == Walk(Leftmost)
             slots(n) == IF w[n] = Nil THEN {}
                         ELSE {i \in DOMAIN Page(w[n]).cells :
                                  Page(w[n]).cells[i] = [key |-> k, deleted |-> FALSE]}
         IN  UNION {{<<n, i>> : i \in slots(n)} : n \in DOMAIN w}

(* Where the rows with key k are stored, found or not.                     *)
LeavesInUse == Leaves \ ToSet(free)
Stored(k) ==
    UNION {{<<p, i>> : i \in {j \in DOMAIN Page(p).cells :
                                 Page(p).cells[j] = [key |-> k, deleted |-> FALSE]}}
           : p \in LeavesInUse}

-----------------------------------------------------------------------------
(* Changing pages.                                                         *)

With(pgs, p, page) == [pgs EXCEPT ![p - 1] = page]
SetNext(pgs, p, next) == [pgs EXCEPT ![p - 1].next = next]
SetPrev(pgs, p, prev) == [pgs EXCEPT ![p - 1].prev = prev]

(* allocate_page: the oldest free page, else the page after the last one.  *)
(* On n = 2 the second of two allocations in one call.                     *)
NewPage(n) == IF Len(free) >= n THEN free[n] ELSE Len(pages) + 1 + n - Len(free)
FreeAfter(n) == SubSeq(free, n + 1, Len(free))
Grown(n) == pages \o [i \in 1..(IF Len(free) >= n THEN 0 ELSE n - Len(free)) |-> EmptyLeaf]

AtRest == op \in {Idle, Failed}
Using(ps) == orphans' = IF ps \intersect orphans = {} THEN orphans ELSE orphans \union {Nil}

(* Where the executors may send their rows.                                *)
MayInsert(k) ==
    /\ Len(pages) <= MaxPages
    /\ Appending => \A p \in Leaves : \A c \in ToSet(Page(p).cells) : c.deleted \/ c.key < k

(* InsertExecutor: the uniqueness check, then insert(); an empty table     *)
(* gets its root.                                                          *)
StartInsert(k) ==
    /\ AtRest
    /\ MayInsert(k)
    /\ ~KeyExists(k)
    /\ IF root = Nil
       THEN /\ pages' = With(Grown(1), NewPage(1), EmptyLeaf)
            /\ root' = NewPage(1)
            /\ free' = FreeAfter(1)
            /\ Using({NewPage(1)})
       ELSE UNCHANGED <<pages, root, free, orphans>>
    /\ op' = [kind |-> "insert", key |-> k]

HasRoomOffByOne(leaf) == leaf.used <= LeafCap
HasRoom(leaf) == leaf.used < LeafCap

(* insert_record_leaf succeeds.                                            *)
InsertIntoLeaf ==
    /\ op.kind = "insert"
    /\ LET p    == LeafFor(op.key)
           leaf == Page(p)
       IN  /\ HasRoom(leaf)
           /\ pages' = With(pages, p, [leaf EXCEPT
                 !.cells = InsertAt(@, FirstSlot(leaf.cells, op.key),
                                    [key |-> op.key, deleted |-> FALSE]),
                 !.used = @ + 1])
           /\ Using({p})
    /\ op' = Idle
    /\ UNCHANGED <<root, free>>

(* split_leaf, up to the copying of the records: the new leaf is linked    *)
(* between the full one, p, and its successor.                             *)
Linked(p) ==
    LET new    == NewPage(1)
        begun  == With(Grown(1), new, [EmptyLeaf EXCEPT !.prev = p])
        next   == begun[p - 1].next
        joined == SetNext(SetNext(begun, p, new), new, next)
    IN  IF next = Nil THEN joined ELSE SetPrev(joined, next, new)

(* The upper half of the records is copied; insert_record_leaf clears the  *)
(* flags of a copy.  Only the number of cells changes in the full page.    *)
KeptWithMiddle(cells) == SubSeq(cells, 1, Len(cells) \div 2 + 1)
Kept(cells) == SubSeq(cells, 1, Len(cells) \div 2)
Copied(cells) ==
    [i \in 1..(Len(cells) - Len(cells) \div 2) |->
        [key |-> cells[Len(cells) \div 2 + i].key, deleted |-> FALSE]]
Split(p, pgs) ==
    [pgs EXCEPT ![p - 1].cells = Kept(@),
                ![NewPage(1) - 1].cells = Copied(Page(p).cells),
                ![NewPage(1) - 1].used = Len(Copied(Page(p).cells))]
Separator(p) == Copied(Page(p).cells)[1].key

(* A leaf with no record left has no first key to give to the parent, and  *)
(* a page that is given to itself is wiped: get_slot_offset throws.        *)
CannotSplit(p) == Page(p).cells = <<>> \/ NewPage(1) = p

SplitNeeded(p) ==
    /\ op.kind = "insert"
    /\ p = LeafFor(op.key)
    /\ ~HasRoom(Page(p))

ThrowInSplit ==
    \E p \in PageIds :
        /\ SplitNeeded(p) /\ CannotSplit(p)
        /\ pages' = Linked(p)
        /\ free' = FreeAfter(1)
        /\ op' = Failed
        /\ Using({p, NewPage(1)})
        /\ UNCHANGED root

(* The root was a leaf: a new root is put above the two.                   *)
SplitRoot ==
    \E p \in PageIds :
        /\ SplitNeeded(p) /\ ~CannotSplit(p)
        /\ p = root
        /\ pages' = With(Split(p, Linked(p)) \o SubSeq(Grown(2), Len(Grown(1)) + 1, Len(Grown(2))),
                         NewPage(2),
                         [level |-> "internal", rightmost |-> NewPage(1),
                          cells |-> <<[key |-> Separator(p), child |-> p]>>])
        /\ root' = NewPage(2)
        /\ free' = FreeAfter(2)
        /\ Using({NewPage(1), NewPage(2)})
        /\ UNCHANGED op

(* The separator goes into the parent, with the full leaf below it when it *)
(* is the smallest and the rightmost child otherwise; what follows it then *)
(* points to the new leaf.  A full parent only gets the latter.            *)
IsRightmost(slot, cells) == slot >= Len(cells)
AddChild(node, key, left, new) ==
    LET slot  == FirstSlot(node.cells, key)
        child == IF slot = 1 THEN left ELSE node.rightmost
        cells == IF Len(node.cells) < InternalCap
                 THEN InsertAt(node.cells, slot, [key |-> key, child |-> child])
                 ELSE node.cells
    IN  IF IsRightmost(slot, cells)
        THEN [node EXCEPT !.cells = cells, !.rightmost = new]
        ELSE [node EXCEPT !.cells = [cells EXCEPT ![slot + 1].child = new]]

SplitBelowRoot ==
    \E p \in PageIds :
        /\ SplitNeeded(p) /\ ~CannotSplit(p)
        /\ p # root
        /\ pages' = With(Split(p, Linked(p)), root,
                         AddChild(Page(root), Separator(p), p, NewPage(1)))
        /\ free' = FreeAfter(1)
        /\ Using({p, NewPage(1)})
        /\ UNCHANGED <<root, op>>

-----------------------------------------------------------------------------
(* remove().                                                               *)

(* The cells that are not marked, in their order.                          *)
LiveCells(cells) ==
    LET live[n \in 0..Len(cells)] ==
            IF n = 0 THEN <<>>
            ELSE IF cells[n].deleted THEN live[n - 1]
            ELSE Append(live[n - 1], cells[n])
    IN  live[Len(cells)]

Spared(k) ==
    \A p \in PageIds : IsLeaf(p) /\ p # root =>
        LiveCells(Page(p).cells) # <<[key |-> k, deleted |-> FALSE]>>

StartRemove(k) ==
    /\ Deleting
    /\ AtRest
    /\ Scanned(k) # {}
    /\ Sparing => Spared(k)
    /\ Search(k) # Nowhere
    /\ op' = [kind |-> "remove", key |-> k, leaf |-> Search(k).leaf, slot |-> Search(k).slot]
    /\ UNCHANGED <<pages, root, free, orphans>>

Removing == op.kind = "remove"
AtSlot == Removing /\ op.slot <= Len(Page(op.leaf).cells)
AtLiveKey == AtSlot /\ Cell(op) = [key |-> op.key, deleted |-> FALSE]
OnTo(next) == op' = IF next = Nil THEN Idle ELSE [op EXCEPT !.leaf = next, !.slot = 1]

RemoveNextLeaf ==
    /\ Removing /\ ~AtSlot
    /\ OnTo(Page(op.leaf).next)
    /\ UNCHANGED <<pages, root, free, orphans>>

RemoveDone ==
    /\ AtSlot /\ Cell(op).key > op.key
    /\ op' = Idle
    /\ UNCHANGED <<pages, root, free, orphans>>

RemoveSkip ==
    /\ AtSlot /\ ~AtLiveKey /\ Cell(op).key <= op.key
    /\ op' = [op EXCEPT !.slot = @ + 1]
    /\ UNCHANGED <<pages, root, free, orphans>>

(* The leaf of op with the record at op marked deleted; whether that calls *)
(* for a purge.                                                            *)
Marked == [Page(op.leaf) EXCEPT !.cells[op.slot].deleted = TRUE]
PurgeDue == Len(Marked.cells) - Len(LiveCells(Marked.cells)) >= PurgeAt
Purged == [Marked EXCEPT !.cells = LiveCells(@), !.used = Len(LiveCells(Marked.cells))]

RemoveMark ==
    /\ AtLiveKey /\ ~PurgeDue
    /\ pages' = With(pages, op.leaf, Marked)
    /\ op' = [op EXCEPT !.slot = @ + 1]
    /\ UNCHANGED <<root, free, orphans>>

RemovePurge ==
    /\ AtLiveKey /\ PurgeDue /\ Purged.cells # <<>>
    /\ pages' = With(pages, op.leaf, Purged)
    /\ UNCHANGED <<root, free, op, orphans>>

(* unlink_empty_leaf_and_add_to_freelist.  No page ever gets a parent_page,*)
(* so the parent keeps pointing to the freed leaf.                         *)
UnlinkedForwardOnly(leaf, pgs) ==
    IF leaf.prev = Nil THEN pgs ELSE SetNext(pgs, leaf.prev, leaf.next)
Unlinked(leaf, pgs) ==
    LET bypassed == IF leaf.prev = Nil THEN pgs ELSE SetNext(pgs, leaf.prev, leaf.next)
    IN  IF leaf.next = Nil THEN bypassed ELSE SetPrev(bypassed, leaf.next, leaf.prev)

RootKept(p) == root
RootWithout(p) == IF root = p THEN Nil ELSE root

RemoveFree ==
    /\ AtLiveKey /\ PurgeDue /\ Purged.cells = <<>>
    /\ pages' = Unlinked(Purged, With(pages, op.leaf, Purged))
    /\ root' = RootWithout(op.leaf)
    /\ free' = Append(free, op.leaf)
    /\ orphans' = IF root = op.leaf THEN orphans ELSE orphans \union {op.leaf}
    /\ OnTo(Purged.next)

-----------------------------------------------------------------------------
InsertStep == InsertIntoLeaf \/ ThrowInSplit \/ SplitRoot \/ SplitBelowRoot
RemoveStep == RemoveNextLeaf \/ RemoveDone \/ RemoveSkip \/ RemoveMark \/ RemovePurge \/ RemoveFree

Next ==
    \/ \E k \in Keys : StartInsert(k) \/ StartRemove(k)
    \/ InsertStep \/ RemoveStep

Spec == Init /\ [][Next]_vars

-----------------------------------------------------------------------------
(* Properties.                                                             *)

Children(node) == {node.rightmost} \union {node.cells[i].child : i \in DOMAIN node.cells}

(* Every page is a leaf, or the root above leaves; every pointer leads to  *)
(* a page of the file.                                                     *)
TypeOK ==
    /\ root \in PageIds \union {Nil}
    /\ free \in Seq(PageIds)
    /\ orphans \subseteq PageIds \union {Nil}
    /\ \A p \in PageIds :
          \/ /\ Page(p) \in [level : {"leaf"}, used : 0..LeafCap,
                             cells : Seq([key : Keys, deleted : BOOLEAN]),
                             next : PageIds \union {Nil}, prev : PageIds \union {Nil}]
             /\ Len(Page(p).cells) <= Page(p).used
          \/ /\ Page(p) \in [level : {"internal"}, rightmost : PageIds,
                             cells : Seq([key : Keys, child : PageIds])]
             /\ p = root /\ Len(Page(p).cells) \in 1..InternalCap
             /\ \A c \in Children(Page(p)) : IsLeaf(c)

(* The slots of a page are in key order, so that binary search finds what  *)
(* FirstSlot defines (page_layout.cpp:101 and 323).                        *)
SlotsSorted ==
    \A p \in PageIds : \A i, j \in DOMAIN Page(p).cells :
        i < j => Page(p).cells[i].key <= Page(p).cells[j].key

(* The leaves in use form one doubly linked chain, with the leaves that    *)
(* failed insertions left empty (bplustree.cpp:306 and 216), as long as    *)
(* no freed leaf is used again, through the parent or for another page.    *)
LeafChain ==
    Nil \notin orphans /\ LeavesInUse # {} =>
        \E first \in LeavesInUse :
            /\ Page(first).prev = Nil
            /\ Range(Walk(first)) \ {Nil} = LeavesInUse
            /\ \A p \in LeavesInUse : Page(p).next # Nil => Page(Page(p).next).prev = p

(* What splits, purges and the linking and freeing of leaves leave, one    *)
(* page at a time and from page to page.                                   *)
PagesInOrder == SlotsSorted /\ LeafChain

(* No freed leaf was used again (where that has happened, LeafChain and    *)
(* what follows promise nothing).                                          *)
NoneReused == Nil \notin orphans

(* The copies that a split makes of the upper half of a leaf are not       *)
(* marked: records with key k that were deleted there, and wait for a      *)
(* purge, are rows again (against bplustree.h:42).                         *)
Revived(p, k) ==
    Cardinality({i \in DOMAIN Page(p).cells :
                    i > Len(Page(p).cells) \div 2
                    /\ Page(p).cells[i] = [key |-> k, deleted |-> TRUE]})

(* Whatever order keys arrive in, and whatever lookups still find, a row   *)
(* leaves the pages in use only by the removal of its key, and two rows    *)
(* never come of one insertion: splits, purges and the linking and freeing *)
(* of pages neither lose nor double a record (bplustree.cpp:298-336), and  *)
(* bring back no deleted one but those that Revived counts.                *)
RowsStayOnPages ==
    [][\A k \in Keys : Cardinality(Stored(k)) # Cardinality(Stored(k)') =>
          \/ op = [kind |-> "insert", key |-> k] /\ op' = Idle
             /\ Cardinality(Stored(k)') = Cardinality(Stored(k)) + 1
          \/ Removing /\ op.key = k
          \/ \E p \in PageIds :
                /\ SplitNeeded(p)
                /\ Cardinality(Stored(k)') = Cardinality(Stored(k)) + Revived(p, k)]_vars

(* A page on the free list is not referenced by the tree: "if page empty,  *)
(* unlink and add to free list" (bplustree.h:42).                          *)
FreePagesUnreferenced ==
    root # Nil =>
        ({root} \union (IF IsLeaf(root) THEN {} ELSE Children(Page(root))))
            \intersect ToSet(free) = {}

(* No insertion ends in the range check of get_slot_offset                 *)
(* (page_layout.cpp:51).                                                   *)
InsertsSucceed == op # Failed

(* What deletions give back, the room of a record or a whole page, can be  *)
(* used again and is not used before.                                      *)
SpaceIsReused == FreePagesUnreferenced /\ InsertsSucceed

(* "Returns true if a non-deleted record with this key exists"             *)
(* (bplustree.h:34).                                                       *)
KeyExistsFindsRows == \A k \in Keys : KeyExists(k) <=> Stored(k) # {}

(* Scans and lookups by key agree at every step, and see what a row store  *)
(* holds: a row is there for both when its insertion has ended normally,   *)
(* and gone for both when a removal has; an insertion that throws changes  *)
(* nothing, and splits and purges are invisible (bplustree.h:28-44).       *)
Request == IF AtRest THEN op ELSE [kind |-> op.kind, key |-> op.key]
Table == INSTANCE RowStore WITH
    scanned <- [k \in Keys |-> Cardinality(Scanned(k))],
    found   <- {k \in Keys : KeyExists(k)},
    request <- Request
RowsAreSeen == Table!Spec
=============================================================================
