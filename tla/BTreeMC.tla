------------------------------- MODULE BTreeMC -------------------------------
(* BTree for TLC: trees with small pages, and the trees of the tests.      *)
EXTENDS BTreeTests

(* Keys of two "bytes" of four values, so that both matter.                *)
SmallInt == [name |-> "Int", bytes |-> 2, base |-> 4]

(* Strings over two letters in their order, with a length of two "bytes"   *)
(* of which the second one is not always 0.                                *)
Varchar == [name |-> "Varchar", max |-> 3, base |-> 4,
            strings |-> << <<1>>, <<1, 1, 1, 1, 2>>, <<1, 2>>, <<2>>,
                           <<2, 1, 1, 1>>, <<2, 1, 2>> >>]

Fixed(order, zero, root, n) ==
    [root |-> root, siblings_per_side |-> 1, usable_space |-> order - 1,
     zero_space |-> zero, header |-> 0, max_payload |-> 1, pointer |-> 0,
     chunk |-> 1, type |-> SmallInt, keys |-> 1..n, lens |-> {1}]

Variable(usable, lens, n) ==
    [root |-> 1, siblings_per_side |-> 1, usable_space |-> usable,
     zero_space |-> usable, header |-> 0, max_payload |-> 2, pointer |-> 1,
     chunk |-> 2, type |-> Varchar, keys |-> 1..n, lens |-> lens]

SmallTrees == {Fixed(3, 0, 1, 9), Fixed(5, 3, 1, 8), Fixed(3, 1, 0, 7), Fixed(4, 2, 0, 8),
               Variable(8, {1, 2}, 6), Variable(8, {1, 3}, 4), Variable(4, {4}, 4)}

SmallAndTests == SmallTrees \union TestGeometries
=============================================================================
