----------------------------- MODULE BTreePages -----------------------------
(***************************************************************************)
(* The pages of the disk B-tree of experiments/cursor/btree.rs: cells,     *)
(* nodes, overflow chains, the searches that walk them and the cursor.     *)
(*                                                                         *)
(* `pages' maps the number of every page in use to its contents.  A page   *)
(* that is freed leaves the function; reading one is an error of TLC.      *)
(* The slotted page and the pager are not part of the repository: what the *)
(* B-tree asks of them is modelled here (their definitions are external).  *)
(* Slots count from 1, so that slot s of the model is slot s - 1 of the    *)
(* code.  A payload is a key and a length; a key is a number, in the order *)
(* that its users expect, and is compared as the bytes it is stored in.    *)
(***************************************************************************)
EXTENDS KeyComparators, FiniteSets, SequencesExt

VARIABLES
    geo,        \* sizes and tuning of this tree, fixed when it is created
    pages       \* page number -> node or overflow page

Min2(a, b) == IF a < b THEN a ELSE b
Max2(a, b) == IF a > b THEN a ELSE b

(* The members of a set of numbers in ascending order.                     *)
ascending(S) ==
    [i \in 1..Cardinality(S) |->
        CHOOSE x \in S : Cardinality({y \in S : y < x}) = i - 1]

-----------------------------------------------------------------------------
(* Slotted pages and the pager *)

Cell(key, len, left, overflow) ==
    [key |-> key, len |-> len, left |-> left, overflow |-> overflow]

Node(cells, right) == [kind |-> "node", cells |-> cells, right |-> right]

(* Bytes `from' to `to' of a payload, and the page with the rest of it.    *)
OverflowPage(key, from, to, next) ==
    [kind |-> "overflow", key |-> key, from |-> from, to |-> to, next |-> next]

EmptyNode == Node(<<>>, 0)

is_leaf(node) == node.right = 0

child(node, s) ==
    IF s = Len(node.cells) + 1 THEN node.right ELSE node.cells[s].left

iter_children(node) ==
    IF is_leaf(node) THEN <<>>
    ELSE [s \in 1..(Len(node.cells) + 1) |-> child(node, s)]

storage_size(cell) == geo.header + Min2(cell.len, geo.max_payload)

used_bytes(cells) ==
    LET used[i \in 0..Len(cells)] ==
            IF i = 0 THEN 0 ELSE used[i - 1] + storage_size(cells[i])
    IN  used[Len(cells)]

(* Page 0 also holds the header of the database.                           *)
space(p) == IF p = 0 THEN geo.zero_space ELSE geo.usable_space

free_space(pgs, p) == space(p) - used_bytes(pgs[p].cells)
is_overflow(pgs, p) == used_bytes(pgs[p].cells) > space(p)
is_underflow(pgs, p) == used_bytes(pgs[p].cells) < space(p) \div 2

(* The pager hands out the lowest page numbers that are not in use.        *)
next_pages(pgs, n) ==
    SubSeq(ascending((1..(Cardinality(DOMAIN pgs) + n)) \ DOMAIN pgs), 1, n)

set_page(pgs, p, page) ==
    [q \in DOMAIN pgs \union {p} |-> IF q = p THEN page ELSE pgs[q]]

free_pages(pgs, freed) == [q \in DOMAIN pgs \ freed |-> pgs[q]]

-----------------------------------------------------------------------------
(* Payloads larger than what a page takes *)

first_chunk == geo.max_payload - geo.pointer

(* The pages that hold the rest of a payload, and the cell that names the  *)
(* first of them.                                                          *)
alloc_cell(pgs, key, len) ==
    IF len <= geo.max_payload
    THEN [pages |-> pgs, cell |-> Cell(key, len, 0, 0)]
    ELSE LET rest == len - first_chunk
             n == (rest + geo.chunk - 1) \div geo.chunk
             ids == next_pages(pgs, n)
             Page(i) == OverflowPage(key, first_chunk + (i - 1) * geo.chunk + 1,
                                     Min2(first_chunk + i * geo.chunk, len),
                                     IF i < n THEN ids[i + 1] ELSE 0)
             Index(p) == CHOOSE i \in 1..n : ids[i] = p
         IN  [pages |-> [p \in DOMAIN pgs \union ToSet(ids) |->
                            IF p \in DOMAIN pgs THEN pgs[p] ELSE Page(Index(p))],
              cell |-> Cell(key, len, 0, ids[1])]

node_pages(pgs) == {p \in DOMAIN pgs : pgs[p].kind = "node"}
spill_pages(pgs) == DOMAIN pgs \ node_pages(pgs)

overflow_pages(pgs, cell) ==
    LET from[p \in spill_pages(pgs) \union {0}] ==
            IF p = 0 THEN <<>> ELSE <<p>> \o from[pgs[p].next]
    IN  from[cell.overflow]

free_cell_keeping_the_rest(pgs, cell) ==
    free_pages(pgs, {cell.overflow} \ {0})
free_cell(pgs, cell) == free_pages(pgs, ToSet(overflow_pages(pgs, cell)))

(* The payload of a cell as the (key, from, to) chunks it is joined from.  *)
reassemble_payload(pgs, cell) ==
    IF cell.overflow = 0 THEN <<<<cell.key, 1, cell.len>>>>
    ELSE LET ids == overflow_pages(pgs, cell)
         IN  <<<<cell.key, 1, first_chunk>>>> \o
             [i \in 1..Len(ids) |->
                <<pgs[ids[i]].key, pgs[ids[i]].from, pgs[ids[i]].to>>]

-----------------------------------------------------------------------------
(* Searches *)

(* Where `key' is among the cells of a node, or where it should be.        *)
binary_search(cells, key) ==
    LET Ends == (1..(Len(cells) + 1)) \X (1..(Len(cells) + 1))
        find[ends \in Ends] ==
            LET left == ends[1]
                right == ends[2]
                mid == left + (right - left) \div 2
                Go(order) == IF order = "Equal" THEN [found |-> TRUE, slot |-> mid]
                             ELSE IF order = "Greater" THEN find[<<left, mid>>]
                             ELSE find[<<mid + 1, right>>]
            IN  IF left >= right THEN [found |-> FALSE, slot |-> left]
                ELSE Go(bytes_cmp(geo.type, serialize(geo.type, cells[mid].key),
                                  serialize(geo.type, key)))
    IN  find[<<1, Len(cells) + 1>>]

(* The page and slot where the search for `key' ends, and the pages above. *)
search(pgs, root, key) ==
    LET from[p \in node_pages(pgs)] ==
            LET node == pgs[p]
                at == binary_search(node.cells, key)
            IN  IF at.found \/ is_leaf(node)
                THEN [page |-> p, found |-> at.found, slot |-> at.slot,
                      parents |-> <<>>]
                ELSE LET below == from[child(node, at.slot)]
                     IN  [below EXCEPT !.parents = <<p>> \o @]
    IN  from[root]

(* The leaf below a page with its greatest or least key, and the path.     *)
search_leaf_key(pgs, page, which) ==
    LET down[p \in node_pages(pgs)] ==
            LET node == pgs[p]
                end == Len(node.cells)
            IN  IF is_leaf(node)
                THEN [page |-> p, parents |-> <<>>,
                      slot |-> IF which = "max" THEN Max2(end, 1) ELSE 1]
                ELSE [down[child(node, IF which = "max" THEN end + 1 ELSE 1)]
                        EXCEPT !.parents = <<p>> \o @]
    IN  down[page]

search_max_key(pgs, page) == search_leaf_key(pgs, page, "max")
search_min_key(pgs, page) == search_leaf_key(pgs, page, "min")

None == <<>>

(* The payload of a key; the greatest payload of the tree.                 *)
get(pgs, root, key) ==
    LET at == search(pgs, root, key)
    IN  IF at.found THEN reassemble_payload(pgs, pgs[at.page].cells[at.slot])
        ELSE None

max(pgs, root) ==
    LET at == search_max_key(pgs, root)
    IN  IF pgs[at.page].cells = <<>> THEN None
        ELSE reassemble_payload(pgs, pgs[at.page].cells[at.slot])

-----------------------------------------------------------------------------
(* The cursor *)

Cursor(page, slot, descent, init, done) ==
    [page |-> page, slot |-> slot, descent |-> descent,
     init |-> init, done |-> done]

NewCursor(page) == Cursor(page, 1, <<>>, FALSE, FALSE)
CursorWithoutParents(page, slot, descent) == Cursor(page, slot, <<>>, TRUE, FALSE)
InitializedCursor(page, slot, descent) == Cursor(page, slot, descent, TRUE, FALSE)

move_to_leftmost(pgs, c) ==
    LET leaf == search_min_key(pgs, c.page)
    IN  [c EXCEPT !.page = leaf.page, !.slot = 1,
                  !.descent = @ \o leaf.parents]

(* Back up the descent to the nearest page with a key to the right of the  *)
(* subtree the cursor comes from; without one the traversal is over.       *)
move_up(pgs, c) ==
    LET From(i) == IF i = Len(c.descent) THEN c.page ELSE c.descent[i + 1]
        Index(i) == CHOOSE s \in DOMAIN iter_children(pgs[c.descent[i]]) :
                        child(pgs[c.descent[i]], s) = From(i)
        branches == {i \in DOMAIN c.descent :
                        Index(i) <= Len(pgs[c.descent[i]].cells)}
        up == Max(branches)
    IN  IF branches = {}
        THEN [c EXCEPT !.descent = <<>>, !.done = TRUE,
                       !.page = IF c.descent = <<>> THEN c.page ELSE c.descent[1]]
        ELSE [c EXCEPT !.page = c.descent[up], !.slot = Index(up),
                       !.descent = SubSeq(@, 1, up - 1)]

(* The position after the one of a cursor that is on an entry: in the same *)
(* leaf, below the next child, or above.                                   *)
step_on(pgs, c, node) ==
    IF is_leaf(node) /\ c.slot < Len(node.cells)
    THEN [c EXCEPT !.slot = @ + 1]
    ELSE IF ~is_leaf(node) /\ c.slot <= Len(node.cells)
    THEN move_to_leftmost(pgs, [c EXCEPT !.page = child(node, c.slot + 1),
                                         !.descent = Append(@, c.page)])
    ELSE move_up(pgs, c)

next_of(pgs, c, node) ==
    IF node.cells = <<>> /\ is_leaf(node)
    THEN [position |-> None, cursor |-> [c EXCEPT !.done = TRUE]]
    ELSE [position |-> <<c.page, c.slot>>, cursor |-> step_on(pgs, c, node)]

(* The position the cursor returns, and the cursor ready for the next one. *)
try_next(pgs, cursor) ==
    LET c == IF cursor.init THEN cursor
             ELSE [move_to_leftmost(pgs, cursor) EXCEPT !.init = TRUE]
    IN  IF cursor.done THEN [position |-> None, cursor |-> cursor]
        ELSE next_of(pgs, c, pgs[c.page])

CursorStates == [page : Nat, slot : Nat, descent : Seq(Nat),
                 init : BOOLEAN, done : BOOLEAN]

(* The positions a cursor returns until it says that there are no more;    *)
(* `fuel' bounds the traversal of a cursor that would never say so.        *)
traversal(pgs, start, fuel) ==
    LET next[c \in CursorStates, n \in Nat] ==
            LET step == try_next(pgs, c)
            IN  IF step.position = None \/ n = 0 THEN <<>>
                ELSE <<step.position>> \o next[step.cursor, n - 1]
    IN  next[start, fuel]
=============================================================================
