------------------------------- MODULE Statements -------------------------------
(***************************************************************************)
(* From a parsed statement over one table to its rows and its effect: the  *)
(* planner (planner.cpp), the executors it arranges (executor_factory.cpp, *)
(* executors.cpp) and run_query around them.  The table has an INT primary *)
(* key and a second column.                                                *)
(*                                                                         *)
(* A plan here is what the chain of plan nodes comes to: which scan, where *)
(* it starts, the upper bound kept as a filter, whether WHERE is a filter, *)
(* and whether a Collect node stands between the scan and the changes.     *)
(* The table is the row store that RowStore promises, with the order of    *)
(* its keys' bytes; its leaves may lie in the file in any order.           *)
(*                                                                         *)
(* A definition that no action uses and that stands just before another    *)
(* one is a mutant of it: a plausible mistake that some property catches.  *)
(***************************************************************************)
EXTENDS Integers, FiniteSetsExt, Functions, Sequences

CONSTANTS
    Keys,      \* values of the primary key
    Vals,      \* values of the second column at the start
    Wheres,    \* WHERE clauses: sequences of at most two comparisons, joined by AND
    SetLists,  \* SET clauses: sequences of assignments
    LeafPages  \* page ids of the leaves

(* An INT key has 32 bits.                                                 *)
Int32 == {k \in Int : -2147483647 - 1 <= k /\ k <= 2147483647}

ASSUME StatementsAssumption ==
    /\ Keys \subseteq Int32 /\ Vals \subseteq Int
    /\ Wheres \subseteq Seq([col : {"key", "val"}, op : {"=", "<", "<=", ">", ">="}, with : Int])
    /\ \A where \in Wheres : Len(where) <= 2
    /\ LeafPages \subseteq Nat

VARIABLES
    table,     \* the rows: key |-> second column
    page,      \* the leaf each key belongs to
    statement, \* the statement under way, or the last one
    plan,      \* its plan
    at,        \* the key of the last row the scan read, if any
    drained,   \* whether the scan came to its end
    rows,      \* rows that came out of the scan and its filters
    applied,   \* how many of them DELETE or UPDATE has dealt with
    phase,     \* idle, running, answered, refused
    before     \* history: the table when the statement began

vars == <<table, page, statement, plan, at, drained, rows, applied, phase, before>>

-----------------------------------------------------------------------------
(* Keys are the four little-endian bytes of the number, in the order of    *)
(* memcmp.                                                                 *)
Byte(k, i) == (k \div <<1, 256, 65536, 16777216>>[i]) % 256

ByteLess(a, b) ==
    \E i \in 1..4 : /\ Byte(a, i) < Byte(b, i)
                    /\ \A j \in 1..(i - 1) : Byte(a, j) = Byte(b, j)

(* The keys of a leaf are an interval.                                     *)
IsLayout(p) ==
    \A a, b, c \in Keys : ByteLess(a, b) /\ ByteLess(b, c) /\ p[a] = p[c] => p[b] = p[a]

Tables == UNION {[ks -> Vals] : ks \in SUBSET Keys}
Without(t, k) == Restrict(t, DOMAIN t \ {k})
With(t, row) == [k \in DOMAIN t \union {row.key} |-> IF k = row.key THEN row.val ELSE t[k]]

Row(k) == [key |-> k, val |-> table[k]]
RowsOf(t) == {[key |-> k, val |-> t[k]] : k \in DOMAIN t}

-----------------------------------------------------------------------------
(* Expressions.                                                            *)

Satisfies(x, op, y) ==
    \/ op = "=" /\ x = y
    \/ op = "<" /\ x < y
    \/ op = "<=" /\ x <= y
    \/ op = ">" /\ x > y
    \/ op = ">=" /\ x >= y

Matches(where, row) ==
    \A i \in DOMAIN where : Satisfies(row[where[i].col], where[i].op, where[i].with)

(* An assignment adds a constant to a column or to nothing.  All of them   *)
(* read the old row; of two for one column the last one counts.            *)
Value(assign, row) ==
    assign.plus + (IF assign.from = {} THEN 0 ELSE row[CHOOSE c \in assign.from : TRUE])

Image(sets, row) ==
    [c \in DOMAIN row |->
        LET of == {i \in DOMAIN sets : sets[i].col = c}
        IN  IF of = {} THEN row[c] ELSE Value(sets[Max(of)], row)]

-----------------------------------------------------------------------------
(* The planner.                                                            *)

OnKey(comparison, ops) == comparison.col = "key" /\ comparison.op \in ops

(* The constant of the last comparison of the key with one of ops.         *)
LastConstant(where, ops) ==
    LET found == {i \in DOMAIN where : OnKey(where[i], ops)}
    IN  IF found = {} THEN {} ELSE {where[Max(found)].with}

NoRange == [start |-> {}, end |-> {}, strict |-> FALSE]

ExtractPkRangeNotStrict(where) ==
    LET start == LastConstant(where, IF Len(where) = 1 THEN {"=", ">=", ">"} ELSE {">="})
        end == LastConstant(where, IF Len(where) = 1 THEN {"="} ELSE {"<="})
    IN  IF start = {} THEN NoRange ELSE [start |-> start, end |-> end, strict |-> FALSE]

ExtractPkRangeEitherEnd(where) ==
    LET start == LastConstant(where, IF Len(where) = 1 THEN {"=", ">=", ">"} ELSE {">="})
        end == LastConstant(where, IF Len(where) = 1 THEN {"="} ELSE {"<="})
    IN  [start |-> start, end |-> end,
         strict |-> Len(where) = 1 /\ OnKey(where[1], {">"})]

(* A conjunction is a range as soon as one side bounds the key from below, *)
(* whatever the other side says.                                           *)
ExtractPkRange(where) ==
    LET start == LastConstant(where, IF Len(where) = 1 THEN {"=", ">=", ">"} ELSE {">="})
        end == LastConstant(where, IF Len(where) = 1 THEN {"="} ELSE {"<="})
    IN  IF start = {} THEN NoRange
        ELSE [start |-> start, end |-> end,
              strict |-> Len(where) = 1 /\ OnKey(where[1], {">"})]

Selects == [kind : {"select"}, where : Wheres, showsKey : BOOLEAN]
Deletes == [kind : {"delete"}, where : Wheres]
Updates == [kind : {"update"}, where : Wheres, sets : SetLists]
Inserts == [kind : {"insert"}, row : [key : Keys, val : Vals]]

NeedsCollection(kind) == kind \in {"update", "delete"}

(* SELECT takes the index when the key is among its columns, DELETE when   *)
(* WHERE is a range, UPDATE never.                                         *)
BuildPlan(s) ==
    LET range == IF s.kind = "delete" \/ (s.kind = "select" /\ s.showsKey)
                 THEN ExtractPkRange(s.where) ELSE NoRange
        index == CASE s.kind = "select" -> s.showsKey
                   [] s.kind = "delete" -> range.start # {}
                   [] s.kind = "update" -> FALSE
    IN  [index |-> index, start |-> range.start, end |-> range.end,
         filter |-> s.where # <<>> /\ (~index \/ range.strict \/ range.start = {}),
         collect |-> NeedsCollection(s.kind)]

ValuesPlan == [index |-> FALSE, start |-> {}, end |-> {}, filter |-> FALSE, collect |-> FALSE]

-----------------------------------------------------------------------------
(* The scans.  SeqScan goes from page to page, IndexScan from leaf to leaf *)
(* in the order of the keys' bytes.                                        *)

Earlier(a, b) ==
    IF plan.index THEN ByteLess(a, b)
    ELSE page[a] < page[b] \/ (page[a] = page[b] /\ ByteLess(a, b))

FromStart(k) == plan.index => \A c \in plan.start : ~ByteLess(k, c)

Ahead == {k \in DOMAIN table : FromStart(k) /\ \A r \in at : Earlier(r, k)}

Passes(row) ==
    /\ \A e \in plan.end : row.key <= e
    /\ plan.filter => Matches(statement.where, row)

Init ==
    /\ table \in Tables
    /\ page \in [Keys -> LeafPages] /\ IsLayout(page)
    /\ statement = [kind |-> "none"] /\ plan = ValuesPlan
    /\ at = {} /\ drained = TRUE /\ rows = <<>> /\ applied = 0
    /\ phase = "idle"
    /\ before = table

(* Bound: UPDATE makes rows of Keys and Vals only.                         *)
StaysInBounds(s) ==
    \A row \in RowsOf(table) : Matches(s.where, row) =>
        Image(s.sets, row) \in [key : Keys, val : Vals]

Submit ==
    /\ phase = "idle"
    /\ statement' \in Selects \union Deletes \union {s \in Updates : StaysInBounds(s)}
    /\ plan' = BuildPlan(statement')
    /\ at' = {} /\ drained' = FALSE /\ rows' = <<>> /\ applied' = 0
    /\ phase' = "running"
    /\ before' = table
    /\ UNCHANGED <<table, page>>

Changes == statement.kind \in {"delete", "update"}

(* One next() of the scan and the filters above it.  The change of a row   *)
(* comes before the next one unless the rows are collected first.          *)
ScanNext ==
    /\ phase = "running" /\ ~drained
    /\ Changes /\ ~plan.collect => applied = Len(rows)
    /\ \E k \in Ahead :
          /\ \A other \in Ahead \ {k} : Earlier(k, other)
          /\ at' = {k}
          /\ rows' = IF Passes(Row(k)) THEN Append(rows, Row(k)) ELSE rows
    /\ UNCHANGED <<table, page, statement, plan, drained, applied, phase, before>>

ScanEnd ==
    /\ phase = "running" /\ ~drained
    /\ Changes /\ ~plan.collect => applied = Len(rows)
    /\ Ahead = {}
    /\ drained' = TRUE
    /\ UNCHANGED <<table, page, statement, plan, at, rows, applied, phase, before>>

-----------------------------------------------------------------------------
(* Changes, row by row.                                                    *)

ToChange ==
    /\ phase = "running" /\ Changes /\ applied < Len(rows)
    /\ plan.collect => drained

DeleteRow ==
    /\ ToChange /\ statement.kind = "delete"
    /\ table' = Without(table, rows[applied + 1].key)
    /\ applied' = applied + 1
    /\ UNCHANGED <<page, statement, plan, at, drained, rows, phase, before>>

TakenIgnored(old, new) == FALSE

(* The new key is that of another row.                                     *)
Taken(old, new) == new.key # old.key /\ new.key \in DOMAIN table

UpdateRow ==
    LET old == rows[applied + 1]
        new == Image(statement.sets, old)
    IN  /\ ToChange /\ statement.kind = "update"
        /\ ~Taken(old, new)
        /\ table' = With(Without(table, old.key), new)
        /\ applied' = applied + 1
        /\ UNCHANGED <<page, statement, plan, at, drained, rows, phase, before>>

UpdateDuplicateSkipped ==
    /\ ToChange /\ statement.kind = "update"
    /\ Taken(rows[applied + 1], Image(statement.sets, rows[applied + 1]))
    /\ applied' = applied + 1
    /\ UNCHANGED <<table, page, statement, plan, at, drained, rows, phase, before>>

(* The exception leaves the rows changed so far as they are.               *)
UpdateDuplicate ==
    /\ ToChange /\ statement.kind = "update"
    /\ Taken(rows[applied + 1], Image(statement.sets, rows[applied + 1]))
    /\ phase' = "refused"
    /\ UNCHANGED <<table, page, statement, plan, at, drained, rows, applied, before>>

Answer ==
    /\ phase = "running" /\ drained
    /\ Changes => applied = Len(rows)
    /\ phase' = "answered"
    /\ UNCHANGED <<table, page, statement, plan, at, drained, rows, applied, before>>

(* run_query returns: plan and executors are gone.                         *)
Return ==
    /\ phase \in {"answered", "refused"}
    /\ phase' = "idle"
    /\ statement' = [kind |-> "none"] /\ plan' = ValuesPlan
    /\ at' = {} /\ drained' = TRUE /\ rows' = <<>> /\ applied' = 0
    /\ before' = table
    /\ UNCHANGED <<table, page>>

(* INSERT of one row, from VALUES to the answer.                           *)
Insert ==
    /\ phase = "idle"
    /\ statement' \in Inserts
    /\ plan' = ValuesPlan
    /\ at' = {} /\ drained' = TRUE /\ rows' = <<statement'.row>>
    /\ before' = table
    /\ \/ /\ statement'.row.key \notin DOMAIN table
          /\ table' = With(table, statement'.row)
          /\ phase' = "answered" /\ applied' = 1
       \/ /\ statement'.row.key \in DOMAIN table
          /\ phase' = "refused" /\ applied' = 0
          /\ UNCHANGED table
    /\ UNCHANGED page

Next ==
    \/ Submit \/ Insert
    \/ ScanNext \/ ScanEnd
    \/ DeleteRow \/ UpdateRow \/ UpdateDuplicate
    \/ Answer \/ Return

Spec == Init /\ [][Next]_vars

-----------------------------------------------------------------------------
(* Properties.                                                             *)

Scans == statement.kind \in {"select", "delete", "update"}

(* A range has one lower bound and at most one upper one; no row is dealt  *)
(* with before it came out of the scan.                                    *)
TypeOK ==
    /\ DOMAIN table \subseteq Keys /\ DOMAIN before \subseteq Keys
    /\ page \in [Keys -> LeafPages]
    /\ Cardinality(plan.end) <= Cardinality(plan.start) /\ Cardinality(plan.start) <= 1
    /\ at \subseteq Keys /\ drained \in BOOLEAN
    /\ applied \in 0..Len(rows)
    /\ phase \in {"idle", "running", "answered", "refused"}

(* Keys are stored in the order of their bytes, while the upper bound of a *)
(* range and every filter compare numbers (tuple_codec.cpp:65).  On the    *)
(* side of the lower bound the two orders agree about this key.            *)
InByteOrder(k) == \A c \in plan.start : ByteLess(k, c) <=> k < c

(* Next to a lower bound, a comparison that is no upper bound of the key   *)
(* is forgotten (planner.cpp:58-67).                                       *)
ConjunctDropped ==
    /\ plan.start # {} /\ Len(statement.where) = 2
    /\ \A i \in DOMAIN statement.where : ~OnKey(statement.where[i], {"<="})

(* What SELECT returns, DELETE removes and UPDATE changes are rows that    *)
(* the table had when the statement began, each of them once, and that     *)
(* satisfy WHERE: the bounds of a range scan replace the filter without    *)
(* letting other rows through, but those of ConjunctDropped, which satisfy *)
(* half of WHERE, and those that the bytes put elsewhere                   *)
(* (planner.cpp:25).                                                       *)
OnlyMatchingRows ==
    Scans => /\ \A i \in DOMAIN rows : rows[i] \in RowsOf(before)
             /\ \A i, j \in DOMAIN rows : rows[i] = rows[j] => i = j
             /\ \A i \in DOMAIN rows : InByteOrder(rows[i].key) =>
                   IF ConjunctDropped
                   THEN \E comparison \in Range(statement.where) : Matches(<<comparison>>, rows[i])
                   ELSE Matches(statement.where, rows[i])

(* When a scan has come to its end no row that satisfies WHERE was missed, *)
(* wherever in the file it lies and wherever the range began, unless its   *)
(* bytes put it before the range (executor_factory.cpp:62-81).             *)
AllMatchingRows ==
    Scans /\ drained =>
        \A row \in RowsOf(before) :
            Matches(statement.where, row) /\ InByteOrder(row.key) =>
                \E i \in DOMAIN rows : rows[i] = row

(* A scan deals with the rows of WHERE, no fewer and no more, for all      *)
(* clauses and keys but in the two cases named above.                      *)
ExactlyMatchingRows == OnlyMatchingRows /\ AllMatchingRows

(* "Returns nullopt if WHERE is not a range on pk_col" (planner.cpp:28):   *)
(* WHERE that is more than a range stays a filter, so that no row comes    *)
(* out that does not satisfy it.                                           *)
WhereIsApplied ==
    Scans => \A i \in DOMAIN rows : Matches(statement.where, rows[i])

(* A DELETE or UPDATE that is answered did its change to the rows that     *)
(* came out of its scan and to no others, all at once: a row it changed is *)
(* not changed again, and a key it gave to a row is not taken for          *)
(* another's (planner.cpp:85-111).  For UPDATE these rows are those of     *)
(* WHERE, whatever the clauses and keys.                                   *)
AppliedAtOnce ==
    phase = "answered" =>
        /\ statement.kind = "delete" => RowsOf(table) = RowsOf(before) \ Range(rows)
        /\ statement.kind = "update" =>
              RowsOf(table) = {IF Matches(statement.where, r) THEN Image(statement.sets, r)
                               ELSE r : r \in RowsOf(before)}

(* UPDATE keeps every row, answered or refused in the middle: each row of  *)
(* the table before is there, as it was or as UPDATE makes it              *)
(* (executors.cpp:300-315).                                                *)
UpdateKeepsRows ==
    statement.kind = "update" =>
        /\ Cardinality(DOMAIN table) = Cardinality(DOMAIN before)
        /\ \A r \in RowsOf(before) : {r, Image(statement.sets, r)} \intersect RowsOf(table) # {}
=============================================================================
