-------------------------------- MODULE Engine --------------------------------
(***************************************************************************)
(* One table file from statement to statement: the Storage object that     *)
(* use_db makes anew for every statement (db_manager.cpp, storage.cpp),    *)
(* its catalog, which holds page 0 with the root, the free list and the    *)
(* row id counter (catalog_manager.cpp), its pool with the data pages, and *)
(* what is in the file when the next object, or the next process, opens    *)
(* it.  Page 0 is written at the end of a statement that succeeds          *)
(* (orchestrator.cpp:191, 216, 241); dirty data pages are written by       *)
(* evictions and by the destructor of the pool, at the next statement; a   *)
(* page just allocated is in the file as zeros.                            *)
(*                                                                         *)
(* The tree is as BPlusTree has it as long as it is one leaf or a root     *)
(* with two, rows take up a leaf in units, and every deletion purges.  A   *)
(* frame of the pool that is clean is the image of its page (BufferPool),  *)
(* so only dirty ones are kept.                                            *)
(*                                                                         *)
(* A definition that no action uses and that stands just before another    *)
(* one is a mutant of it: a plausible mistake that some property catches.  *)
(***************************************************************************)
EXTENDS Naturals, Sequences, FiniteSetsExt, Functions

CONSTANTS
    Keys,      \* primary keys
    Sizes,     \* units of a leaf that a row may take
    LeafCap,   \* units of a leaf
    MaxRowId,  \* bound: row ids handed out
    MaxPages   \* bound: data pages of the file

ASSUME EngineAssumption ==
    /\ Keys \subseteq Nat /\ IsFiniteSet(Keys)
    /\ LeafCap \in Nat /\ Sizes \subseteq 1..LeafCap
    /\ MaxRowId \in Nat /\ MaxPages \in Nat

VARIABLES
    file,      \* the .ibd file: page 0 and the data pages
    catalog,   \* page 0 in the catalog, and its dirty flag
    pool,      \* the dirty data pages: page id |-> content
    phase,     \* of the engine: new, running, answered, refused
    statement, \* the kind of the statement it was made for
    todo,      \* the keys it has still to deal with
    before,    \* history: the table when the statement began
    images,    \* history: the rows an UPDATE replaced within their leaf
    cutShort   \* history: whether an UPDATE ended without an answer

vars == <<file, catalog, pool, phase, statement, todo, before, images, cutShort>>

-----------------------------------------------------------------------------
(* Pages.  ROOT_PAGE_ID_INVALID and the end of the leaf chain are NoPage.  *)

NoPage == 0

Leaf(rows, used, next) ==
    [kind |-> "leaf", rows |-> rows, used |-> used, next |-> next, kids |-> <<>>, sep |-> 0]
Node(low, high, key) ==
    [kind |-> "node", rows |-> {}, used |-> 0, next |-> NoPage, kids |-> <<low, high>>, sep |-> key]

(* Eight kilobytes of zeros, as allocate_page leaves them in the file.     *)
Zeroed == [kind |-> "zeroed", rows |-> {}, used |-> 0, next |-> NoPage, kids |-> <<>>, sep |-> 0]

NoPages == [p \in {} |-> Zeroed]

(* Some pages in front of others, as the frames of the pool are.           *)
Over(front, pages) ==
    [p \in DOMAIN front \union DOMAIN pages |-> IF p \in DOMAIN front THEN front[p] ELSE pages[p]]

(* A table as an engine sees it, and as the file alone says.               *)
Tree == [header |-> catalog.header, dirty |-> catalog.dirty, pages |-> Over(pool, file.pages)]
FileTree == [header |-> file.header, dirty |-> FALSE, pages |-> file.pages]

Units(rows) == FoldSet(LAMBDA r, sum : sum + r.size, 0, rows)
KeysOf(rows) == {r.key : r \in rows}

(* The rows a sequential scan meets: those of every leaf in the file.      *)
Rows(t) == UNION {t.pages[p].rows : p \in DOMAIN t.pages}

(* The leaves that the index reaches.                                      *)
Leaves(t) ==
    IF t.header.root = NoPage THEN {}
    ELSE IF t.pages[t.header.root].kind = "node" THEN Range(t.pages[t.header.root].kids)
    ELSE {t.header.root}

(* The root names a page that was never written: the leaf chain leads to   *)
(* page 0, which the pool refuses (bufferpool_manager.cpp:27).             *)
Unreadable(t) == t.header.root # NoPage /\ t.pages[t.header.root].kind = "zeroed"

(* No row is in two pages.                                                 *)
Apart(pages) == \A p, q \in DOMAIN pages : p # q => pages[p].rows \intersect pages[q].rows = {}

(* A tree whose leaves are linked and in order, that shows the same rows   *)
(* to the index and to a sequential scan, none of them twice, and whose    *)
(* free pages are out of it.                                               *)
Sound(t) ==
    /\ Apart(t.pages)
    /\ \A p \in Leaves(t) : t.pages[p].kind = "leaf"
    /\ Rows(t) = UNION {t.pages[p].rows : p \in Leaves(t)}
    /\ Range(t.header.free_pages) \intersect (Leaves(t) \union {t.header.root}) = {}
    /\ t.header.root # NoPage =>
          LET root == t.pages[t.header.root]
          IN  \/ root.kind = "leaf" /\ root.next = NoPage
              \/ /\ root.kind = "node"
                 /\ t.pages[root.kids[1]].next = root.kids[2]
                 /\ t.pages[root.kids[2]].next = NoPage
                 /\ \A r \in t.pages[root.kids[1]].rows : r.key <= root.sep
                 /\ \A r \in t.pages[root.kids[2]].rows : r.key >= root.sep

-----------------------------------------------------------------------------
(* What the tree does to its pages and to page 0.                          *)

SetRoot(t, p) == [t EXCEPT !.header.root = p, !.dirty = TRUE]

(* allocate_page.                                                          *)
NewPage(t) ==
    IF t.header.free_pages # <<>> THEN Head(t.header.free_pages)
    ELSE Cardinality(DOMAIN t.pages) + 2
Allocate(t, content) ==
    IF t.header.free_pages # <<>>
    THEN [t EXCEPT !.header.free_pages = Tail(@), !.dirty = TRUE,
                   !.pages[NewPage(t)] = content]
    ELSE [t EXCEPT !.pages = Over([p \in {NewPage(t)} |-> content], @)]

(* get_and_increment_row_id.                                               *)
TakeRowIdUnmarked(t) == [t EXCEPT !.header.next_row_id = @ + 1]
TakeRowId(t) == [t EXCEPT !.header.next_row_id = @ + 1, !.dirty = TRUE]

TargetLeaf(t, key) ==
    LET root == t.pages[t.header.root]
    IN  IF root.kind = "leaf" THEN t.header.root
        ELSE IF key <= root.sep THEN root.kids[1] ELSE root.kids[2]

FitsAlmost(t, row) == t.pages[TargetLeaf(t, row.key)].used < LeafCap
Fits(t, row) == t.pages[TargetLeaf(t, row.key)].used + row.size <= LeafCap

Put(t, row) ==
    LET p == TargetLeaf(t, row.key)
    IN  [t EXCEPT !.pages[p].rows = @ \union {row}, !.pages[p].used = @ + row.size]

(* split_leaf of the root: the upper half moves to a new leaf, the lower   *)
(* one keeps its free_start and free_end, so that it stays as full as it   *)
(* was.                                                                    *)
Split(t) ==
    LET low == t.header.root
        rows == t.pages[low].rows
        lower == {r \in rows : Cardinality({s \in rows : s.key < r.key}) < Cardinality(rows) \div 2}
        upper == rows \ lower
        high == NewPage(t)
        split == [Allocate(t, Leaf(upper, Units(upper), NoPage)) EXCEPT
                     !.pages[low] = Leaf(lower, t.pages[low].used, high)]
    IN  SetRoot(Allocate(split, Node(low, high, Min(KeysOf(upper)))), NewPage(split))

Added(t, row) ==
    CASE t.header.root = NoPage -> Put(SetRoot(Allocate(t, Leaf({}, 0, NoPage)), NewPage(t)), row)
      [] t.header.root # NoPage /\ Fits(t, row) -> Put(t, row)
      [] OTHER -> Put(Split(t), row)

(* Bounds: only the root splits, once, and not again for the same row; the *)
(* file does not outgrow MaxPages.                                         *)
MayAdd(t, row) ==
    /\ t.header.root # NoPage =>
          \/ Fits(t, row)
          \/ /\ t.pages[t.header.root].kind = "leaf"
             /\ Cardinality(t.pages[t.header.root].rows) > 1
             /\ Fits(Split(t), row)
    /\ Cardinality(DOMAIN Added(t, row).pages) <= MaxPages

(* The leaves that search and the chain from there lead to for a key: two  *)
(* may hold a row with it when a crash kept one of the pages an UPDATE     *)
(* wrote and not the other.                                                *)
Holders(t, key) == {p \in Leaves(t) : key \in KeysOf(t.pages[p].rows)}

Purged(page, key) ==
    LET rest == {r \in page.rows : r.key # key}
    IN  [page EXCEPT !.rows = rest, !.used = Units(rest)]

(* remove: the leaves are purged; the root, when it is empty, is freed.    *)
Removed(t, key) ==
    LET root == t.header.root
        purged == [t EXCEPT !.pages =
                     [p \in DOMAIN @ |-> IF p \in Holders(t, key) THEN Purged(@[p], key) ELSE @[p]]]
    IN  IF root \in Holders(t, key) /\ purged.pages[root].rows = {}
        THEN [SetRoot(purged, NoPage) EXCEPT !.header.free_pages = Append(@, root)]
        ELSE purged

(* Bound: a leaf below the root keeps a row.                               *)
MayRemove(t, key) ==
    \A p \in Holders(t, key) : p = t.header.root \/ Purged(t.pages[p], key).rows # {}

-----------------------------------------------------------------------------
(* create_table_meta has just written pages 0 and 1.                       *)
Init ==
    /\ file = [header |-> [root |-> NoPage, free_pages |-> <<>>, next_row_id |-> 1],
               pages |-> NoPages]
    /\ catalog = [header |-> file.header, dirty |-> FALSE]
    /\ pool = NoPages
    /\ phase = "new" /\ statement = "none" /\ todo = {}
    /\ before = [root |-> NoPage, rows |-> {}, sound |-> TRUE]
    /\ images = {} /\ cutShort = FALSE

(* A dirty page is written: by an eviction, which statements over many     *)
(* rows are long enough for, or by the destructor of a pool whose          *)
(* statement is over.                                                      *)
WriteBack(p) ==
    /\ phase = "running" => statement \in {"delete", "update"}
    /\ file' = [file EXCEPT !.pages[p] = pool[p]]
    /\ pool' = Restrict(pool, DOMAIN pool \ {p})
    /\ UNCHANGED <<catalog, phase, statement, todo, before, images, cutShort>>

(* A new engine: whatever the catalog of the old one had not flushed is    *)
(* gone.                                                                   *)
OpenFile ==
    /\ catalog' = [header |-> file.header, dirty |-> FALSE]
    /\ pool' = NoPages
    /\ before' = [root |-> file.header.root, rows |-> Rows(FileTree), sound |-> Sound(FileTree)]
    /\ images' = {} /\ cutShort' = (cutShort \/ statement = "update")

(* The keys of a statement: those of the rows it has collected, or the one *)
(* it inserts.  A DELETE of no row stands for every statement that changes *)
(* none.                                                                   *)
KeysFor(kind) ==
    CASE kind = "insert" -> {{k} : k \in Keys}
      [] kind = "delete" -> SUBSET KeysOf(Rows(FileTree))
      [] kind = "update" -> SUBSET KeysOf(Rows(FileTree)) \ {{}}

(* use_db, at the next statement.  Bound: after an UPDATE cut short there  *)
(* is one more.                                                            *)
Begin ==
    /\ phase # "running" /\ pool = NoPages /\ ~cutShort
    /\ OpenFile
    /\ statement' \in {"insert", "delete", "update"}
    /\ todo' \in KeysFor(statement')
    /\ phase' = "running"
    /\ UNCHANGED file

(* The pages and page 0 become those of t; the file grows by zeros.        *)
Become(t) ==
    LET pages == [p \in DOMAIN t.pages |-> IF p \in DOMAIN file.pages THEN file.pages[p] ELSE Zeroed]
    IN  /\ catalog' = [header |-> t.header, dirty |-> t.dirty]
        /\ file' = [file EXCEPT !.pages = pages]
        /\ pool' = Restrict(t.pages, {p \in DOMAIN t.pages : t.pages[p] # pages[p]})

Refuse ==
    /\ phase' = "refused"
    /\ UNCHANGED <<statement, todo, before, images, cutShort>>

(* Bound: what statements do to a table left half written is not modelled, *)
(* unless it cannot be read at all.                                        *)
At(kind, key) == phase = "running" /\ statement = kind /\ key \in todo /\ Sound(Tree)

Done(key) ==
    /\ todo' = todo \ {key}
    /\ UNCHANGED <<phase, statement, before, cutShort>>

NewRow(key, size) == [key |-> key, id |-> catalog.header.next_row_id, size |-> size]
IdsLeft == catalog.header.next_row_id <= MaxRowId
Taken(key) == key \in KeysOf(Rows(Tree))

(* The row id is taken before the key is looked up.                        *)
InsertRow(key, size) ==
    /\ At("insert", key) /\ IdsLeft /\ ~Taken(key)
    /\ MayAdd(Tree, NewRow(key, size))
    /\ Become(Added(TakeRowId(Tree), NewRow(key, size)))
    /\ Done(key) /\ UNCHANGED images

InsertDuplicate(key) ==
    /\ At("insert", key) /\ IdsLeft /\ Taken(key)
    /\ Become(TakeRowId(Tree))
    /\ Refuse

DeleteRow(key) ==
    /\ At("delete", key) /\ MayRemove(Tree, key)
    /\ Become(Removed(Tree, key))
    /\ Done(key) /\ UNCHANGED images

(* The row with a key and the row put in its place, in the leaf of both.   *)
InPlace(key, row) ==
    {i \in [leaf : DOMAIN Tree.pages, was : Rows(Tree), is : {row}] :
        /\ i.was.key = key /\ i.was \in Tree.pages[i.leaf].rows
        /\ i.is \in Tree'.pages[i.leaf].rows}

(* A row gets a new id, and perhaps another key and another size.          *)
UpdateRow(key, new, size) ==
    /\ At("update", key) /\ IdsLeft /\ (new # key => ~Taken(new))
    /\ MayRemove(Tree, key) /\ MayAdd(Removed(Tree, key), NewRow(new, size))
    /\ Become(Added(Removed(TakeRowId(Tree), key), NewRow(new, size)))
    /\ images' = images \union InPlace(key, NewRow(new, size))
    /\ Done(key)

UpdateDuplicate(key, new) ==
    /\ At("update", key) /\ IdsLeft /\ new # key /\ Taken(new)
    /\ Become(TakeRowId(Tree))
    /\ Refuse

(* Neither search nor key_exists comes back from a zeroed root.            *)
FailToRead ==
    /\ phase = "running" /\ todo # {} /\ Unreadable(Tree) /\ IdsLeft
    /\ Become(IF statement = "delete" THEN Tree ELSE TakeRowId(Tree))
    /\ Refuse

AnswerUnflushed ==
    /\ phase = "running" /\ todo = {}
    /\ phase' = "answered" /\ statement' = "none"
    /\ UNCHANGED <<file, catalog, pool, todo, before, images, cutShort>>

(* The end of the statement.  (SELECT does not flush, and has nothing to.) *)
Answer ==
    /\ phase = "running" /\ todo = {}
    /\ file' = IF catalog.dirty THEN [file EXCEPT !.header = catalog.header] ELSE file
    /\ catalog' = [catalog EXCEPT !.dirty = FALSE]
    /\ phase' = "answered" /\ statement' = "none"
    /\ UNCHANGED <<pool, todo, before, images, cutShort>>

(* The process ends, as it only does by being killed (server/main.cpp:150  *)
(* is an endless loop) or in the destructor of the pool, which looks up    *)
(* tables in a map that was destroyed before it (storage.h:18-25).         *)
Crash ==
    /\ phase # "new"
    /\ OpenFile
    /\ phase' = "new" /\ statement' = "none" /\ todo' = {}
    /\ UNCHANGED file

Next ==
    \/ Begin \/ Answer \/ FailToRead \/ Crash
    \/ \E p \in DOMAIN pool : WriteBack(p)
    \/ \E key \in Keys :
          \/ InsertDuplicate(key) \/ DeleteRow(key)
          \/ \E size \in Sizes : InsertRow(key, size)
          \/ \E new \in Keys :
                \/ UpdateDuplicate(key, new)
                \/ \E size \in Sizes : UpdateRow(key, new, size)

Spec == Init /\ [][Next]_vars

-----------------------------------------------------------------------------
(* Properties.                                                             *)

PageIds == 2..(Cardinality(DOMAIN file.pages) + 1)
Headers ==
    [root : PageIds \union {NoPage}, free_pages : Seq(PageIds), next_row_id : 1..(MaxRowId + 1)]

(* Pages are numbered from 2 without gaps, dirty ones are in the file, and *)
(* no leaf holds more than its room.                                       *)
TypeOK ==
    /\ DOMAIN file.pages = PageIds /\ DOMAIN pool \subseteq PageIds
    /\ file.header \in Headers /\ catalog.header \in Headers /\ catalog.dirty \in BOOLEAN
    /\ \A p \in PageIds : Units(Tree.pages[p].rows) <= Tree.pages[p].used
                          /\ Tree.pages[p].used <= LeafCap
    /\ phase \in {"new", "running", "answered", "refused"}
    /\ todo \subseteq Keys /\ cutShort \in BOOLEAN

Begins == phase # "running" /\ phase' = "running"
Crashes == phase # "new" /\ phase' = "new"
RootKept == catalog.header.root = before.root

(* What one engine leaves is what the next one finds, although page 0 and  *)
(* the data pages are written apart (orchestrator.cpp:185-241,             *)
(* storage.h:18-25).  When all data pages are written, page 0 in the file  *)
(* goes with them, whether the root has moved or not.  A crash before that *)
(* leaves a sound tree too, if the root has not moved: a row that the      *)
(* statement has not touched is in it, every other one is an old row or    *)
(* what the statement made, and of a row that UPDATE has replaced within   *)
(* its leaf exactly one of the two is in it.                               *)
(* Not covered, because the code loses it, is a tree whose root was moved  *)
(* by a refused UPDATE, or by a statement before a crash that came before  *)
(* its pages were written; and a row that UPDATE moves to the other leaf   *)
(* is lost, or is there twice with its old and its new values, when a      *)
(* crash keeps one of the two leaves.                                      *)
AllWritten == pool = NoPages /\ phase # "running" /\ (phase = "refused" => RootKept)

NextEngineFindsTheTable ==
    [][/\ (Begins \/ Crashes) /\ before.sound /\ AllWritten => Sound(FileTree')
       /\ Crashes /\ before.sound /\ RootKept /\ ~cutShort =>
             /\ Sound(FileTree')
             /\ before.rows \intersect Rows(Tree) \subseteq Rows(FileTree')
             /\ Rows(FileTree') \subseteq before.rows \union Rows(Tree)
             /\ \A i \in images : i.was \in Rows(FileTree') <=> i.is \notin Rows(FileTree')]_vars

(* No row, in memory or on file, has an id still to be handed out, unless  *)
(* an UPDATE ended without its answer: it gives each row a new id, and its *)
(* rows may be kept when the counter is not (executors.cpp:285).           *)
RowIdsStayFresh ==
    ~cutShort =>
        \A r \in Rows(Tree) \union Rows(FileTree) : r.id < catalog.header.next_row_id
=============================================================================
