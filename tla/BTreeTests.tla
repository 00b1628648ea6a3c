------------------------------ MODULE BTreeTests ------------------------------
(***************************************************************************)
(* The unit tests of experiments/cursor/btree.rs, run on the model of the  *)
(* B-tree: the same operations on pages of the same size, and the tree,    *)
(* the payload or the traversal that the test asserts.  Sizes are in bytes *)
(* as in the code; entries are keys of 8 bytes unless a test says more.    *)
(***************************************************************************)
EXTENDS BTree

VARIABLES
    test,       \* the test that runs
    script      \* the operations it has yet to call

-----------------------------------------------------------------------------
(* Sizes of the pages (the layout of a page is external) *)

CELL_HEADER_AND_SLOT == 10
PAGE_HEADER_SIZE == 12
OVERFLOW_HEADER_SIZE == 8
DB_HEADER_SIZE == 16
PAGE_NUMBER_SIZE == 4

align_upwards(size, alignment) ==
    ((size + alignment - 1) \div alignment) * alignment

optimal_page_size_for_max_payload(payload, min_keys) ==
    align_upwards(PAGE_HEADER_SIZE +
                  (CELL_HEADER_AND_SLOT + align_upwards(payload, 8)) * min_keys, 8)

optimal_page_size_for_order(order) == optimal_page_size_for_max_payload(8, order - 1)

ideal_max_payload_size(usable, min_keys) ==
    (((usable \div min_keys) - CELL_HEADER_AND_SLOT) \div 8) * 8

(* A tree of the test builder: one key per page is enough (minimum_keys),  *)
(* and its root is page 0 or the first page allocated after it.            *)
TestBuilder(page_size, side, root, keys, lens) ==
    LET usable == page_size - PAGE_HEADER_SIZE
    IN  [root |-> root, siblings_per_side |-> side, usable_space |-> usable,
         zero_space |-> usable - DB_HEADER_SIZE, header |-> CELL_HEADER_AND_SLOT,
         max_payload |-> ideal_max_payload_size(usable, 1),
         pointer |-> PAGE_NUMBER_SIZE, chunk |-> page_size - OVERFLOW_HEADER_SIZE,
         type |-> [name |-> "Int", bytes |-> 8, base |-> 256],
         keys |-> keys, lens |-> lens]

-----------------------------------------------------------------------------
(* Operations and trees *)

Insertion(key, len) == [op |-> "insert", key |-> key, len |-> len]
Deletion(key) == [op |-> "remove", key |-> key, len |-> 0]

Up(a, b) == [i \in 1..(b - a + 1) |-> a + i - 1]
Down(b, a) == [i \in 1..(b - a + 1) |-> b - i + 1]

insert_all(keys, len) == [i \in DOMAIN keys |-> Insertion(keys[i], len)]
try_insert_all_keys(keys) == insert_all(keys, 8)
try_remove_all_keys(keys) == [i \in DOMAIN keys |-> Deletion(keys[i])]

Tree(keys, children) == [keys |-> keys, children |-> children]
leaf(a, b) == Tree(Up(a, b), <<>>)

(* The keys and the children of the tree, as the tests compare them.       *)
into_test_nodes(page) ==
    LET nodes[p \in DOMAIN pages] ==
            LET kids == iter_children(pages[p])
            IN  Tree([i \in DOMAIN pages[p].cells |-> pages[p].cells[i].key],
                     [i \in DOMAIN kids |-> nodes[kids[i]]])
    IN  nodes[page]

(* A test compares the whole tree, what a cursor returns, the greatest     *)
(* key, or the payload of a key.                                           *)
Test(geometry, ops, asserts, expected) ==
    [geo |-> geometry, ops |-> ops, asserts |-> asserts, expected |-> expected]

Order(order, side, root) ==
    TestBuilder(optimal_page_size_for_order(order), side, root, 1..400, {8})
Order4 == Order(4, 1, 1)
Order4AtZero == Order(4, 1, 0)

BuildsTree(n, tree) == Test(Order4, try_insert_all_keys(Up(1, n)), "tree", tree)
RemovalLeaves(n, keys, tree) ==
    Test(Order4, try_insert_all_keys(Up(1, n)) \o try_remove_all_keys(keys), "tree", tree)

-----------------------------------------------------------------------------
(* Insertions *)

fill_root == BuildsTree(3, leaf(1, 3))

split_root == BuildsTree(4, Tree(<<3>>, <<leaf(1, 2), leaf(4, 4)>>))

delay_leaf_node_split == BuildsTree(7, Tree(<<4>>, <<leaf(1, 3), leaf(5, 7)>>))

split_leaf_node ==
    BuildsTree(8, Tree(<<3, 6>>, <<leaf(1, 2), leaf(4, 5), leaf(7, 8)>>))

FourLeaves == <<leaf(1, 3), leaf(5, 7), leaf(9, 11), leaf(13, 15)>>

basic_insertion == BuildsTree(15, Tree(<<4, 8, 12>>, FourLeaves))

Sixteen ==
    Tree(<<11>>, <<Tree(<<4, 8>>, <<leaf(1, 3), leaf(5, 7), leaf(9, 10)>>),
                   Tree(<<14>>, <<leaf(12, 13), leaf(15, 16)>>)>>)

propagate_split_to_root == BuildsTree(16, Sixteen)

FirstFifteen ==
    Tree(<<4, 8, 11>>, <<leaf(1, 3), leaf(5, 7), leaf(9, 10), leaf(12, 14)>>)

delay_internal_node_split ==
    BuildsTree(27, Tree(<<15>>,
        <<FirstFifteen,
          Tree(<<19, 22, 25>>, <<leaf(16, 18), leaf(20, 21), leaf(23, 24), leaf(26, 27)>>)>>))

propagate_split_to_internal_nodes ==
    BuildsTree(31, Tree(<<11, 23>>,
        <<Tree(<<4, 8>>, <<leaf(1, 3), leaf(5, 7), leaf(9, 10)>>),
          Tree(<<15, 19>>, <<leaf(12, 14), leaf(16, 18), leaf(20, 22)>>),
          Tree(<<26, 29>>, <<leaf(24, 25), leaf(27, 28), leaf(30, 31)>>)>>))

sequential_insertion ==
    BuildsTree(46, Tree(<<15, 31>>,
        <<FirstFifteen,
          Tree(<<19, 23, 27>>, <<leaf(16, 18), leaf(20, 22), leaf(24, 26), leaf(28, 30)>>),
          Tree(<<35, 39, 43>>, <<leaf(32, 34), leaf(36, 38), leaf(40, 42), leaf(44, 46)>>)>>))

reverse_order_basic_insertion == BuildsTree(15, Tree(<<4, 8, 12>>, FourLeaves))

reverse_order_insertion ==
    Test(Order4, try_insert_all_keys(Down(16, 1)), "tree", Sixteen)

random_order_basic_insertion ==
    Test(Order4,
         try_insert_all_keys(<<4, 2, 1, 3, 5, 11, 15, 13, 12, 14, 8, 6, 9, 7, 10>>),
         "tree", Tree(<<4, 8, 12>>, FourLeaves))

-----------------------------------------------------------------------------
(* Deletions *)

delete_from_leaf_node ==
    RemovalLeaves(15, <<13>>,
        Tree(<<4, 8, 12>>, <<leaf(1, 3), leaf(5, 7), leaf(9, 11), leaf(14, 15)>>))

delete_from_internal_node ==
    RemovalLeaves(16, <<8>>,
        Tree(<<11>>, <<Tree(<<4, 7>>, <<leaf(1, 3), leaf(5, 6), leaf(9, 10)>>),
                       Tree(<<14>>, <<leaf(12, 13), leaf(15, 16)>>)>>))

delete_from_root ==
    RemovalLeaves(16, <<11>>,
        Tree(<<10>>, <<Tree(<<4, 7>>, <<leaf(1, 3), leaf(5, 6), leaf(8, 9)>>),
                       Tree(<<14>>, <<leaf(12, 13), leaf(15, 16)>>)>>))

delete_using_successor_instead_of_predecessor ==
    RemovalLeaves(26, <<11>>,
        Tree(<<12>>, <<Tree(<<4, 8>>, <<leaf(1, 3), leaf(5, 7), leaf(9, 10)>>),
                       Tree(<<15, 19, 23>>, <<leaf(13, 14), leaf(16, 18),
                                              leaf(20, 22), leaf(24, 26)>>)>>))

delay_leaf_node_merge ==
    RemovalLeaves(15, Down(15, 14),
        Tree(<<4, 8, 11>>, <<leaf(1, 3), leaf(5, 7), leaf(9, 10), leaf(12, 13)>>))

merge_leaf_node ==
    RemovalLeaves(15, Down(15, 12),
        Tree(<<4, 8>>, <<leaf(1, 3), leaf(5, 7), leaf(9, 11)>>))

merge_root == RemovalLeaves(4, <<4>>, leaf(1, 3))

decrease_tree_height == RemovalLeaves(16, Up(15, 16), FirstFifteen)

delay_internal_node_merge ==
    RemovalLeaves(35, Up(1, 3),
        Tree(<<15, 27>>,
            <<Tree(<<7, 11>>, <<leaf(4, 6), leaf(8, 10), leaf(12, 14)>>),
              Tree(<<19, 23>>, <<leaf(16, 18), leaf(20, 22), leaf(24, 26)>>),
              Tree(<<30, 33>>, <<leaf(28, 29), leaf(31, 32), leaf(34, 35)>>)>>))

merge_internal_node ==
    RemovalLeaves(35, Up(1, 3) \o <<35>>,
        Tree(<<19>>,
            <<Tree(<<7, 11, 15>>, <<leaf(4, 6), leaf(8, 10), leaf(12, 14), leaf(16, 18)>>),
              Tree(<<23, 27, 31>>, <<leaf(20, 22), leaf(24, 26),
                                     leaf(28, 30), leaf(32, 34)>>)>>))

-----------------------------------------------------------------------------
(* Other page sizes and siblings *)

SixLeft == <<leaf(1, 5), leaf(7, 11), leaf(13, 17), leaf(19, 23)>>

greater_order_insertion ==
    Test(Order(6, 1, 1), try_insert_all_keys(Up(1, 36)), "tree",
         Tree(<<24>>, <<Tree(<<6, 12, 18>>, SixLeft),
                        Tree(<<29, 33>>, <<leaf(25, 28), leaf(30, 32), leaf(34, 36)>>)>>))

greater_order_deletion ==
    Test(Order(6, 1, 1),
         try_insert_all_keys(Up(1, 36)) \o try_remove_all_keys(Up(34, 36)), "tree",
         Tree(<<6, 12, 18, 24, 30>>, SixLeft \o <<leaf(25, 29), leaf(31, 33)>>))

increased_balance_siblings_per_side ==
    Test(Order(4, 2, 1),
         try_insert_all_keys(Up(1, 15)) \o <<Deletion(3), Insertion(16, 8)>>, "tree",
         Tree(<<5, 9, 13>>, <<Tree(<<1, 2, 4>>, <<>>), leaf(6, 8),
                              leaf(10, 12), leaf(14, 16)>>))

variable_length_data ==
    LET sizes == <<64, 32, 48, 16, 8, 8>>
        page_size == align_upwards(PAGE_HEADER_SIZE + 176 + 6 * CELL_HEADER_AND_SLOT, 8)
    IN  Test(TestBuilder(page_size, 1, 1, 1..6, ToSet(sizes)),
             [i \in 1..6 |-> Insertion(i, sizes[i])] \o <<Insertion(6, 48)>>, "tree",
             Tree(<<3>>, <<leaf(1, 2), leaf(4, 6)>>))

reassemble_overflow_cell ==
    Test(TestBuilder(256, 1, 1, {1}, {1024}), <<Insertion(1, 1024)>>, "get", 1024)

delete_leaving_leaf_balanced_and_internal_unbalanced ==
    Test(TestBuilder(optimal_page_size_for_max_payload(32, 5), 1, 1, 1..36, {32, 64}),
         insert_all(Up(1, 36), 32) \o try_remove_all_keys(<<11, 13>>)
            \o insert_all(<<6, 18, 10, 14>>, 64) \o <<Deletion(12)>>,
         "tree",
         Tree(<<18>>, <<Tree(<<6, 10>>, <<leaf(1, 5), leaf(7, 9), leaf(14, 17)>>),
                        Tree(<<24, 29, 33>>, <<leaf(19, 23), leaf(25, 28),
                                               leaf(30, 32), leaf(34, 36)>>)>>))

-----------------------------------------------------------------------------
(* The root at page 0 *)

page_zero_root_basic_insertion ==
    Test(Order4AtZero, try_insert_all_keys(Up(1, 15)), "tree",
         Tree(<<>>, <<Tree(<<4, 8, 12>>, FourLeaves)>>))

page_zero_insert_divider_in_empty_root ==
    Test(Order4AtZero, try_insert_all_keys(Up(1, 16)), "tree", Sixteen)

find_max_with_empty_root ==
    Test(Order4AtZero, try_insert_all_keys(Up(1, 15)), "max", 15)

page_zero_merge_all_nodes ==
    Test(Order4AtZero,
         try_insert_all_keys(Up(1, 16)) \o try_remove_all_keys(Up(2, 16)), "tree",
         leaf(1, 1))

cache_pressure ==
    Test(TestBuilder(4096, 1, 1, 1..31, {8}),
         try_insert_all_keys(Up(1, 31)) \o try_remove_all_keys(Up(2, 31)), "tree",
         leaf(1, 1))

cache_pressure_with_page_zero ==
    [cache_pressure EXCEPT !.geo.root = 0]

-----------------------------------------------------------------------------
(* Cursors *)

basic_cursor == Test(Order(3, 1, 1), try_insert_all_keys(Up(1, 30)), "cursor", Up(1, 30))

cursor_with_more_depth_and_keys ==
    Test(Order(6, 1, 1), try_insert_all_keys(Up(1, 400)), "cursor", Up(1, 400))

cursor_on_empty_root_with_children ==
    Test(Order4AtZero, try_insert_all_keys(Up(1, 15)), "cursor", Up(1, 15))

cursor_on_empty_root_with_no_children == Test(Order4, <<>>, "cursor", <<>>)

-----------------------------------------------------------------------------
(* Running the tests *)

Tests ==
    <<fill_root, split_root, delay_leaf_node_split, split_leaf_node, basic_insertion,
      propagate_split_to_root, delay_internal_node_split,
      propagate_split_to_internal_nodes, sequential_insertion,
      reverse_order_basic_insertion, reverse_order_insertion,
      random_order_basic_insertion, delete_from_leaf_node, delete_from_internal_node,
      delete_from_root, delete_using_successor_instead_of_predecessor,
      delay_leaf_node_merge, merge_leaf_node, merge_root, decrease_tree_height,
      delay_internal_node_merge, merge_internal_node, greater_order_insertion,
      greater_order_deletion, increased_balance_siblings_per_side,
      variable_length_data, reassemble_overflow_cell,
      delete_leaving_leaf_balanced_and_internal_unbalanced,
      page_zero_root_basic_insertion, page_zero_insert_divider_in_empty_root,
      find_max_with_empty_root, page_zero_merge_all_nodes, cache_pressure,
      cache_pressure_with_page_zero, basic_cursor, cursor_with_more_depth_and_keys,
      cursor_on_empty_root_with_children, cursor_on_empty_root_with_no_children>>

TestGeometries == {Tests[i].geo : i \in DOMAIN Tests}

AnyCalls == 0      \* no test: any calls, on one of the other trees

TestInit ==
    /\ Init
    /\ \/ /\ test \in DOMAIN Tests
          /\ geo = Tests[test].geo
          /\ script = Tests[test].ops
       \/ test = AnyCalls /\ script = <<>> /\ geo \notin TestGeometries

Call(op) ==
    IF op.op = "insert" THEN insert(op.key, op.len) ELSE remove(op.key)

TestNext ==
    \/ test = AnyCalls /\ Next /\ UNCHANGED <<test, script>>
    \/ test # AnyCalls /\ (balance \/ FreeRemoved) /\ UNCHANGED <<test, script>>
    \/ /\ script # <<>>
       /\ Call(Head(script))
       /\ script' = Tail(script)
       /\ UNCHANGED test

TestSpec == TestInit /\ [][TestNext]_<<vars, test, script>>

(* Each test of btree.rs ends with what it asserts: the tree page by page, *)
(* the keys of a traversal by the cursor, the greatest key or the payload. *)
TestsPass ==
    (test # AnyCalls /\ Ready /\ script = <<>>) =>
        LET expected == Tests[test].expected
            found == traversal(pages, NewCursor(geo.root), 401)
        IN  CASE Tests[test].asserts = "tree" -> into_test_nodes(geo.root) = expected
              [] Tests[test].asserts = "cursor" ->
                    [i \in DOMAIN found |-> KeyAt(found[i])] = expected
              [] Tests[test].asserts = "max" -> max(pages, geo.root)[1][1] = expected
              [] Tests[test].asserts = "get" ->
                    LET got == get(pages, geo.root, 1) IN got[Len(got)][3] = expected

(* Between two calls the search and the cursor see the entries as a sorted *)
(* list would return them (for the trees of any calls, which are small).   *)
EntriesAreFound == test = AnyCalls => SearchFinds /\ CursorVisitsAll
=============================================================================
