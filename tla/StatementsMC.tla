------------------------------ MODULE StatementsMC ------------------------------
(* Statements for TLC: the keys, clauses and page ids of the instances.    *)
EXTENDS Statements

(* Bytes put 256 before 1 and -1 after 256.                                *)
SomeKeys == {-1, 1, 2, 3, 256}
OneByteKeys == 1..3
Flags == {0, 1}
TwoPages == {2, 3}

Compare(col, op, with) == [col |-> col, op |-> op, with |-> with]
Key(ops, consts) == {Compare("key", op, c) : op \in ops, c \in consts}
AllOps == {"=", "<", "<=", ">", ">="}
Both(left, right) == {<<l, r>> : l \in left, r \in right}
One(comparisons) == {<<c>> : c \in comparisons}

(* No WHERE, one comparison, ranges of the key written both ways round,    *)
(* conjunctions without a lower bound that the planner would recognise,    *)
(* and conjunctions of a lower bound with something else.                  *)
AllClauses ==
    {<<>>} \union One(Key(AllOps, {2, 256})) \union One({Compare("val", "=", 1)})
    \union Both(Key({">="}, {1, 2}), Key({"<="}, {2, 256}))
    \union Both(Key({"<="}, {2, 3}), Key({">="}, {1, 2}))
    \union Both(Key({"<", "<=", ">", ">=", "="}, {2}), {Compare("val", "=", 1)})
    \union Both(Key({">="}, {2}), Key({"<", ">="}, {1, 3}))

FewClauses == One(Key(AllOps, {2})) \union Both(Key({">=", "<="}, {2}), {Compare("val", "=", 1)})

Assign(col, from, plus) == [col |-> col, from |-> from, plus |-> plus]

(* SET val = 1;  key = key + 1;  key = key + 1, val = key - 1;  key = 3.   *)
SetClauses ==
    {<<Assign("val", {}, 1)>>,
     <<Assign("key", {"key"}, 1)>>,
     <<Assign("key", {"key"}, 1), Assign("val", {"key"}, -1)>>,
     <<Assign("key", {}, 3)>>}
=============================================================================
