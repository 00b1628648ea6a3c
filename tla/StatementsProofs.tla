---------------------------- MODULE StatementsProofs ----------------------------
(***************************************************************************)
(* Proofs about Statements, for any table of 32-bit keys, any layout of    *)
(* its leaves, any clauses.                                                *)
(***************************************************************************)
EXTENDS Statements, FiniteSetTheorems, TLAPS

Rows == [key : Keys, val : Vals]
Kinds == Selects \union Deletes \union Updates \union Inserts \union {[kind |-> "none"]}

(* Rows of the table before that WHERE and the bounds of the scan let      *)
(* through.                                                                *)
Selected == {r \in RowsOf(before) : FromStart(r.key) /\ Passes(r)}

(* The scan has read the row of this key.                                  *)
Read(k) == drained \/ \E r \in at : k = r \/ Earlier(k, r)

(* The rows DELETE or UPDATE has dealt with.                               *)
Dealt == {rows[i] : i \in 1..applied}

(* What the variables range over while nothing, or an INSERT, or a scan is *)
(* under way, and that the plan is that of the statement.                  *)
StateOK ==
    /\ table \in Tables /\ before \in Tables
    /\ page \in [Keys -> LeafPages]
    /\ statement \in Kinds
    /\ plan = IF Scans THEN BuildPlan(statement) ELSE ValuesPlan
    /\ at = {} \/ \E k \in Keys : at = {k}
    /\ drained \in BOOLEAN
    /\ rows \in Seq(Rows)
    /\ applied \in 0..Len(rows)
    /\ phase \in {"idle", "running", "answered", "refused"}
    /\ phase = "idle" => statement.kind = "none"
    /\ phase = "running" => Scans
    /\ ~drained => phase = "running"

(* An UPDATE makes rows the bound allows.                                  *)
ImagesInBounds ==
    statement.kind = "update" =>
        \A r \in RowsOf(before) : Matches(statement.where, r) => Image(statement.sets, r) \in Rows

(* The rows that came out of the scan are the selected ones among those it *)
(* read, each once.                                                        *)
RowsAreRead ==
    Scans =>
        /\ \A i \in DOMAIN rows : rows[i] \in Selected /\ Read(rows[i].key)
        /\ \A i, j \in DOMAIN rows : i < j => Earlier(rows[i].key, rows[j].key)
        /\ \A i \in DOMAIN rows : \A k \in at : rows[i].key = k \/ Earlier(rows[i].key, k)
        /\ \A r \in Selected : Read(r.key) => \E i \in DOMAIN rows : rows[i] = r
        /\ at = {} => rows = <<>>

(* The table is what it was, with the changes of the rows dealt with.      *)
TableIsChanged ==
    /\ Scans /\ ~Changes => table = before
    /\ Changes => plan.collect
    /\ Changes /\ ~drained => applied = 0
    /\ statement.kind = "delete" => RowsOf(table) = RowsOf(before) \ Dealt
    /\ statement.kind = "update" =>
          RowsOf(table) = (RowsOf(before) \ Dealt)
                            \union {Image(statement.sets, r) : r \in Dealt}

(* An image has no key of a row that is still as it was.                   *)
ImagesApart ==
    statement.kind = "update" =>
        /\ \A i \in 1..applied : \A r \in RowsOf(before) \ Dealt : 
               Image(statement.sets, rows[i]).key # r.key
        /\ Cardinality(DOMAIN table) = Cardinality(DOMAIN before)

AnsweredIsDone ==
    phase = "answered" /\ Scans => drained /\ (Changes => applied = Len(rows))

IInv ==
    /\ StateOK
    /\ ImagesInBounds
    /\ RowsAreRead
    /\ TableIsChanged
    /\ ImagesApart
    /\ AnsweredIsDone

-----------------------------------------------------------------------------
(* The order of the keys.                                                  *)

LEMMA KeysAreIntegers == Keys \subseteq Int /\ Keys \subseteq Int32
<1>1. Int32 \subseteq Int
  BY SMT DEF Int32
<1> QED
  BY <1>1, StatementsAssumption

LEMMA PagesAreIntegers == LeafPages \subseteq Int
<1>1. LeafPages \subseteq Nat
  BY StatementsAssumption
<1> QED
  BY <1>1

LEMMA ByteTypes ==
    ASSUME NEW a \in Int, NEW i \in 1..4
    PROVE  Byte(a, i) \in Int
<1>1. CASE i = 1
  BY <1>1, SMT DEF Byte
<1>2. CASE i = 2
  BY <1>2, SMT DEF Byte
<1>3. CASE i = 3
  BY <1>3, SMT DEF Byte
<1>4. CASE i = 4
  BY <1>4, SMT DEF Byte
<1> QED
  BY <1>1, <1>2, <1>3, <1>4

(* memcmp stops at the first byte that differs.                            *)
LEMMA ByteLessMeans ==
    ASSUME NEW a \in Int, NEW b \in Int
    PROVE  ByteLess(a, b) <=>
              \/ Byte(a, 1) < Byte(b, 1)
              \/ Byte(a, 1) = Byte(b, 1) /\ Byte(a, 2) < Byte(b, 2)
              \/ Byte(a, 1) = Byte(b, 1) /\ Byte(a, 2) = Byte(b, 2) /\ Byte(a, 3) < Byte(b, 3)
              \/ /\ Byte(a, 1) = Byte(b, 1) /\ Byte(a, 2) = Byte(b, 2)
                 /\ Byte(a, 3) = Byte(b, 3) /\ Byte(a, 4) < Byte(b, 4)
<1>1. ByteLess(a, b) <=>
         \E i \in {1, 2, 3, 4} : /\ Byte(a, i) < Byte(b, i)
                                /\ \A j \in 1..(i - 1) : Byte(a, j) = Byte(b, j)
  <2>1. 1..4 = {1, 2, 3, 4}
    OBVIOUS
  <2> QED
    BY <2>1 DEF ByteLess
<1>2. 1..(1 - 1) = {} /\ 1..(2 - 1) = {1} /\ 1..(3 - 1) = {1, 2} /\ 1..(4 - 1) = {1, 2, 3}
  OBVIOUS
<1> QED
  BY <1>1, <1>2

LEMMA ByteLessIrreflexive ==
    ASSUME NEW a \in Int
    PROVE  ~ByteLess(a, a)
<1>1. \A i \in 1..4 : Byte(a, i) \in Int
  BY ByteTypes
<1> QED
  BY <1>1, ByteLessMeans

LEMMA ByteLessTransitive ==
    ASSUME NEW a \in Int, NEW b \in Int, NEW c \in Int, ByteLess(a, b), ByteLess(b, c)
    PROVE  ByteLess(a, c)
<1>1. \A i \in 1..4 : Byte(a, i) \in Int /\ Byte(b, i) \in Int /\ Byte(c, i) \in Int
  BY ByteTypes
<1> QED
  BY <1>1, ByteLessMeans

(* Four bytes say which 32-bit number it is.                               *)
LEMMA BytesMakeNumber ==
    ASSUME NEW a \in Int32, NEW b \in Int32, \A i \in 1..4 : Byte(a, i) = Byte(b, i)
    PROVE  a = b
<1>1. a \in Int /\ b \in Int
  BY SMT DEF Int32
<1>2. /\ a % 256 = b % 256
      /\ (a \div 256) % 256 = (b \div 256) % 256
      /\ (a \div 65536) % 256 = (b \div 65536) % 256
      /\ (a \div 16777216) % 256 = (b \div 16777216) % 256
  <2>1. a \div 1 = a /\ b \div 1 = b
    BY <1>1
  <2> QED
    BY <1>1, <2>1, SMT DEF Byte
<1>3. \A x \in Int : /\ x = (256 * (x \div 256)) + (x % 256)
                    /\ x \div 65536 = (x \div 256) \div 256
                    /\ x \div 16777216 = (x \div 65536) \div 256
                    /\ x \div 256 \in Int /\ x % 256 \in Int
  BY SMT
<1>4. a \div 16777216 = b \div 16777216
  <2>1. \A x \in Int32 : /\ x \div 16777216 \in Int
                        /\ -128 <= x \div 16777216 /\ x \div 16777216 <= 127
    BY SMT DEF Int32
  <2>2. \A x, y \in Int : /\ x % 256 = y % 256
                         /\ -128 <= x /\ x <= 127 /\ -128 <= y /\ y <= 127 => x = y
    BY SMT
  <2> QED
    BY <1>2, <2>1, <2>2
<1>5. a \div 65536 = b \div 65536
  <2>1. a \div 65536 \in Int /\ b \div 65536 \in Int
    BY <1>1, SMT
  <2> QED
    BY <1>1, <1>2, <1>3, <1>4, <2>1, SMT
<1>6. a \div 256 = b \div 256
  BY <1>1, <1>2, <1>3, <1>5, SMT
<1> QED
  BY <1>1, <1>2, <1>3, <1>6, SMT

LEMMA ByteLessTotal ==
    ASSUME NEW a \in Keys, NEW b \in Keys, a # b
    PROVE  ByteLess(a, b) \/ ByteLess(b, a)
<1>1. a \in Int /\ b \in Int /\ a \in Int32 /\ b \in Int32
  BY KeysAreIntegers
<1>2. ~ \A i \in 1..4 : Byte(a, i) = Byte(b, i)
  BY <1>1, BytesMakeNumber
<1>3. \A i \in 1..4 : Byte(a, i) \in Int /\ Byte(b, i) \in Int
  BY <1>1, ByteTypes
<1>4. 1..4 = {1, 2, 3, 4}
  OBVIOUS
<1> QED
  BY <1>1, <1>2, <1>3, <1>4, ByteLessMeans

(* The order in which a scan meets the keys is a strict total one.         *)
LEMMA EarlierIsOrder ==
    ASSUME page \in [Keys -> LeafPages], plan.index \in BOOLEAN
    PROVE  /\ \A a \in Keys : ~Earlier(a, a)
           /\ \A a, b, c \in Keys : Earlier(a, b) /\ Earlier(b, c) => Earlier(a, c)
           /\ \A a, b \in Keys : a = b \/ Earlier(a, b) \/ Earlier(b, a)
<1>1. \A k \in Keys : page[k] \in Int /\ k \in Int
  BY PagesAreIntegers, KeysAreIntegers
<1>2. \A a \in Keys : ~ByteLess(a, a)
  BY <1>1, ByteLessIrreflexive
<1>3. \A a, b, c \in Keys : ByteLess(a, b) /\ ByteLess(b, c) => ByteLess(a, c)
  BY <1>1, ByteLessTransitive
<1>4. \A a, b \in Keys : a = b \/ ByteLess(a, b) \/ ByteLess(b, a)
  BY ByteLessTotal
<1> QED
  BY <1>1, <1>2, <1>3, <1>4 DEF Earlier

-----------------------------------------------------------------------------
(* Tables as functions and as sets of rows.                                *)

LEMMA TablesMean ==
    ASSUME NEW t
    PROVE  t \in Tables <=> t \in [DOMAIN t -> Vals] /\ DOMAIN t \subseteq Keys
<1>1. ASSUME t \in Tables
      PROVE  t \in [DOMAIN t -> Vals] /\ DOMAIN t \subseteq Keys
  <2>1. PICK ks \in SUBSET Keys : t \in [ks -> Vals]
    BY <1>1 DEF Tables
  <2> QED
    BY <2>1
<1>2. ASSUME t \in [DOMAIN t -> Vals], DOMAIN t \subseteq Keys
      PROVE  t \in Tables
  BY <1>2 DEF Tables
<1> QED
  BY <1>1, <1>2

(* A table has one row for each of its keys.                               *)
LEMMA RowsOfTable ==
    ASSUME NEW t \in Tables
    PROVE  /\ RowsOf(t) \subseteq Rows
           /\ \A r \in RowsOf(t) : r.key \in DOMAIN t /\ r.key \in Keys
           /\ \A k \in DOMAIN t : [key |-> k, val |-> t[k]] \in RowsOf(t)
           /\ \A r \in RowsOf(t) : r = [key |-> r.key, val |-> t[r.key]]
           /\ \A r, s \in RowsOf(t) : r.key = s.key => r = s
<1>1. t \in [DOMAIN t -> Vals] /\ DOMAIN t \subseteq Keys
  BY TablesMean
<1>2. \A r \in RowsOf(t) : \E k \in DOMAIN t : r = [key |-> k, val |-> t[k]]
  BY DEF RowsOf
<1>3. \A r \in RowsOf(t) : r.key \in DOMAIN t /\ r = [key |-> r.key, val |-> t[r.key]]
  BY <1>2
<1>4. \A k \in DOMAIN t : [key |-> k, val |-> t[k]] \in RowsOf(t)
  BY DEF RowsOf
<1>5. RowsOf(t) \subseteq Rows
  BY <1>1, <1>2 DEF Rows
<1>6. \A r, s \in RowsOf(t) : r.key = s.key => r = s
  BY <1>3
<1> QED
  BY <1>1, <1>3, <1>4, <1>5, <1>6

LEMMA SubtableRows ==
    ASSUME NEW t \in Tables, NEW k
    PROVE  /\ Without(t, k) \in Tables
           /\ DOMAIN Without(t, k) = DOMAIN t \ {k}
           /\ RowsOf(Without(t, k)) = {r \in RowsOf(t) : r.key # k}
<1>1. t \in [DOMAIN t -> Vals] /\ DOMAIN t \subseteq Keys
  BY TablesMean
<1>2. Without(t, k) = [x \in DOMAIN t \ {k} |-> t[x]]
  BY DEF Without, Restrict
<1>3. Without(t, k) \in Tables /\ DOMAIN Without(t, k) = DOMAIN t \ {k}
  BY <1>1, <1>2, TablesMean
<1>4. RowsOf(Without(t, k)) \subseteq {r \in RowsOf(t) : r.key # k}
  BY <1>2 DEF RowsOf
<1>5. {r \in RowsOf(t) : r.key # k} \subseteq RowsOf(Without(t, k))
  BY <1>2 DEF RowsOf
<1> QED
  BY <1>3, <1>4, <1>5

LEMMA ExtendedTableRows ==
    ASSUME NEW t \in Tables, NEW row \in Rows
    PROVE  /\ With(t, row) \in Tables
           /\ DOMAIN With(t, row) = DOMAIN t \union {row.key}
           /\ RowsOf(With(t, row)) = {r \in RowsOf(t) : r.key # row.key} \union {row}
<1>1. t \in [DOMAIN t -> Vals] /\ DOMAIN t \subseteq Keys
  BY TablesMean
<1>2. row.key \in Keys /\ row.val \in Vals /\ row = [key |-> row.key, val |-> row.val]
  BY DEF Rows
<1>3. /\ DOMAIN With(t, row) = DOMAIN t \union {row.key}
      /\ With(t, row)[row.key] = row.val
      /\ \A k \in DOMAIN t : k # row.key => With(t, row)[k] = t[k]
  BY DEF With
<1>4. With(t, row) \in Tables
  <2>1. With(t, row) \in [DOMAIN t \union {row.key} -> Vals]
    BY <1>1, <1>2 DEF With
  <2> QED
    BY <1>1, <1>2, <1>3, <2>1, TablesMean
<1>5. row \in RowsOf(With(t, row))
  <2>1. row.key \in DOMAIN With(t, row) /\ With(t, row)[row.key] = row.val
    BY <1>3
  <2> QED
    BY <1>2, <1>4, <2>1, RowsOfTable
<1>6. \A r \in RowsOf(t) : r.key # row.key => r \in RowsOf(With(t, row))
  BY <1>3, <1>4, RowsOfTable
<1>7. \A r \in RowsOf(With(t, row)) : r = row \/ (r \in RowsOf(t) /\ r.key # row.key)
  <2> SUFFICES ASSUME NEW r \in RowsOf(With(t, row))
               PROVE  r = row \/ (r \in RowsOf(t) /\ r.key # row.key)
    OBVIOUS
  <2>1. r.key \in DOMAIN t \union {row.key} /\ r = [key |-> r.key, val |-> With(t, row)[r.key]]
    BY <1>3, <1>4, RowsOfTable
  <2>2. CASE r.key = row.key
    BY <1>2, <1>3, <2>1, <2>2
  <2>3. CASE r.key # row.key
    BY <1>3, <2>1, <2>3, RowsOfTable
  <2> QED
    BY <2>2, <2>3
<1> QED
  BY <1>3, <1>4, <1>5, <1>6, <1>7

LEMMA TablesAreFinite ==
    ASSUME NEW t \in Tables
    PROVE  IsFiniteSet(DOMAIN t)
<1>1. ASSUME NEW low \in Int, NEW high \in Int
      PROVE  IsFiniteSet({k \in Int : low <= k /\ k <= high})
  <2>1. {k \in Int : low <= k /\ k <= high} = low..high
    OBVIOUS
  <2> QED
    BY <2>1, FS_Interval
<1>2. IsFiniteSet(Int32)
  BY <1>1, SMT DEF Int32
<1>3. DOMAIN t \subseteq Int32
  BY TablesMean, KeysAreIntegers
<1> QED
  BY <1>2, <1>3, FS_Subset

-----------------------------------------------------------------------------
(* The plans.                                                              *)

LEMMA PlanOfStatement ==
    ASSUME NEW s \in Selects \union Deletes \union Updates
    PROVE  /\ BuildPlan(s).index \in BOOLEAN
           /\ BuildPlan(s).collect = (s.kind \in {"update", "delete"})
           /\ s.kind = "update" =>
                 BuildPlan(s) = [index |-> FALSE, start |-> {}, end |-> {},
                                 filter |-> s.where # <<>>, collect |-> TRUE]
<1>1. s.kind \in {"select", "delete", "update"}
  BY DEF Selects, Deletes, Updates
<1>2. s.kind = "select" => s.showsKey \in BOOLEAN
  BY DEF Selects, Deletes, Updates
<1> QED
  BY <1>1, <1>2 DEF BuildPlan, NeedsCollection, NoRange

(* UPDATE keeps WHERE as a filter.                                         *)
LEMMA UpdateFilters ==
    ASSUME StateOK, statement.kind = "update", NEW r
    PROVE  FromStart(r.key) /\ (Passes(r) <=> Matches(statement.where, r))
<1>1. statement \in Updates
  BY DEF StateOK, Kinds, Selects, Deletes, Updates, Inserts
<1>2. plan = [index |-> FALSE, start |-> {}, end |-> {},
              filter |-> statement.where # <<>>, collect |-> TRUE]
  BY <1>1, PlanOfStatement DEF StateOK, Scans
<1>3. statement.where = <<>> => Matches(statement.where, r)
  BY DEF Matches
<1> QED
  BY <1>2, <1>3 DEF FromStart, Passes

LEMMA ScanPlan ==
    ASSUME StateOK, Scans
    PROVE  /\ statement \in Selects \union Deletes \union Updates
           /\ plan = BuildPlan(statement)
           /\ plan.index \in BOOLEAN
           /\ plan.collect <=> Changes
<1>1. statement \in Selects \union Deletes \union Updates
  BY DEF StateOK, Kinds, Selects, Deletes, Updates, Inserts, Scans
<1> QED
  BY <1>1, PlanOfStatement DEF StateOK, Changes

-----------------------------------------------------------------------------
(* The invariant holds at the start and every step keeps it.               *)

LEMMA InitInvariant == Init => IInv
<1> SUFFICES ASSUME Init
             PROVE  IInv
  OBVIOUS
<1>1. statement.kind = "none" /\ ~Scans /\ ~Changes
  BY DEF Init, Scans, Changes
<1>2. StateOK
  BY <1>1 DEF Init, StateOK, Kinds
<1> QED
  BY <1>1, <1>2 DEF IInv, Init, ImagesInBounds, RowsAreRead, TableIsChanged, ImagesApart,
                    AnsweredIsDone

LEMMA SubmitKeepsInvariant ==
    ASSUME IInv, Submit
    PROVE  IInv'
<1> USE DEF Submit
<1>1. statement' \in Selects \union Deletes \union Updates
  OBVIOUS
<1>2. Scans' /\ (Changes' <=> statement'.kind \in {"delete", "update"})
  BY <1>1 DEF Scans, Changes, Selects, Deletes, Updates
<1>3. StateOK'
  <2>1. rows' \in Seq(Rows) /\ applied' \in 0..Len(rows')
    OBVIOUS
  <2>2. statement' \in Kinds
    BY <1>1 DEF Kinds
  <2>3. plan' = BuildPlan(statement)'
    OBVIOUS
  <2> QED
    BY <1>2, <2>1, <2>2, <2>3 DEF IInv, StateOK
<1>4. ImagesInBounds'
  <2> SUFFICES ASSUME statement'.kind = "update"
               PROVE  \A r \in RowsOf(table) : Matches(statement'.where, r) =>
                                                   Image(statement'.sets, r) \in Rows
    BY DEF ImagesInBounds
  <2>1. StaysInBounds(statement')
    BY DEF Selects, Deletes, Updates
  <2> QED
    BY <2>1 DEF StaysInBounds, Rows
<1>5. DOMAIN rows' = {} /\ 1..applied' = {} /\ Dealt' = {}
  BY DEF Dealt
<1>6. RowsAreRead'
  <2>1. \A k : ~Read(k)'
    BY DEF Read
  <2> QED
    BY <1>5, <2>1 DEF RowsAreRead
<1>7. TableIsChanged'
  <2>1. Changes' => plan'.collect
    BY <1>1, <1>2, PlanOfStatement
  <2> QED
    BY <1>5, <2>1 DEF TableIsChanged
<1>8. ImagesApart'
  BY <1>5 DEF ImagesApart
<1>9. AnsweredIsDone'
  BY DEF AnsweredIsDone
<1> QED
  BY <1>3, <1>4, <1>6, <1>7, <1>8, <1>9 DEF IInv

LEMMA InsertKeepsInvariant ==
    ASSUME IInv, Insert
    PROVE  IInv'
<1> USE DEF Insert
<1>1. statement' \in Inserts /\ statement'.kind = "insert" /\ statement'.row \in Rows
  BY DEF Inserts, Rows
<1>2. ~Scans' /\ ~Changes'
  BY <1>1 DEF Scans, Changes
<1>3. StateOK'
  <2>1. table' \in Tables
    BY <1>1, ExtendedTableRows DEF IInv, StateOK
  <2>2. rows' \in Seq(Rows) /\ Len(rows') = 1
    BY <1>1
  <2> QED
    BY <1>1, <1>2, <2>1, <2>2 DEF IInv, StateOK, Kinds
<1> QED
  BY <1>1, <1>2, <1>3 DEF IInv, ImagesInBounds, RowsAreRead, TableIsChanged, ImagesApart,
                          AnsweredIsDone

LEMMA ReturnKeepsInvariant ==
    ASSUME IInv, Return
    PROVE  IInv'
<1> USE DEF Return
<1>1. statement'.kind = "none" /\ ~Scans' /\ ~Changes'
  BY DEF Scans, Changes
<1>2. StateOK'
  BY <1>1 DEF IInv, StateOK, Kinds
<1> QED
  BY <1>1, <1>2 DEF IInv, ImagesInBounds, RowsAreRead, TableIsChanged, ImagesApart,
                    AnsweredIsDone

(* A step of a statement that leaves the scan where it is keeps what the   *)
(* invariant says of it.                                                   *)
LEMMA SameScan ==
    ASSUME UNCHANGED <<page, statement, plan, at, drained, rows, before>>
    PROVE  /\ Scans' = Scans /\ Changes' = Changes
           /\ ImagesInBounds => ImagesInBounds'
           /\ RowsAreRead => RowsAreRead'
BY DEF Scans, Changes, ImagesInBounds, RowsAreRead, Selected, Read, Earlier, FromStart, Passes

LEMMA AnswerKeepsInvariant ==
    ASSUME IInv, Answer \/ UpdateDuplicate
    PROVE  IInv'
<1>1. UNCHANGED <<table, page, statement, plan, at, drained, rows, applied, before>>
  BY DEF Answer, UpdateDuplicate
<1>2. phase' \in {"answered", "refused"} /\ phase = "running"
  BY DEF Answer, UpdateDuplicate, ToChange
<1>3. drained
  <2>1. CASE Answer
    BY <2>1 DEF Answer
  <2>2. CASE UpdateDuplicate
    BY <2>2 DEF UpdateDuplicate, ToChange, IInv, TableIsChanged
  <2> QED
    BY <2>1, <2>2
<1>4. StateOK'
  <2>1. Scans' <=> Scans
    BY <1>1 DEF Scans
  <2>2. BuildPlan(statement)' = BuildPlan(statement) /\ ValuesPlan' = ValuesPlan
    BY <1>1
  <2>3. /\ plan' = (IF Scans' THEN BuildPlan(statement)' ELSE ValuesPlan')
        /\ statement' \in Kinds /\ rows' \in Seq(Rows) /\ applied' \in 0..Len(rows')
    BY <1>1, <2>1, <2>2 DEF IInv, StateOK
  <2>4. drained' = TRUE /\ phase' # "idle" /\ phase' # "running"
    BY <1>1, <1>2, <1>3 DEF IInv, StateOK
  <2>5. /\ table' \in Tables /\ before' \in Tables /\ page' \in [Keys -> LeafPages]
        /\ at' = {} \/ \E k \in Keys : at' = {k}
    BY <1>1 DEF IInv, StateOK
  <2> QED
    BY <1>2, <2>3, <2>4, <2>5 DEF StateOK
<1>5. ImagesInBounds' /\ RowsAreRead'
  BY <1>1, SameScan DEF IInv
<1>6. TableIsChanged' /\ ImagesApart'
  BY <1>1 DEF IInv, TableIsChanged, ImagesApart, Dealt, Scans, Changes
<1>7. AnsweredIsDone'
  BY <1>1, <1>3 DEF AnsweredIsDone, Answer, UpdateDuplicate, Changes, Scans
<1> QED
  BY <1>4, <1>5, <1>6, <1>7 DEF IInv

-----------------------------------------------------------------------------
(* The scan.                                                               *)

(* While a scan is under way the table is the one before.                  *)
LEMMA ScanningTable ==
    ASSUME IInv, phase = "running", ~drained
    PROVE  /\ Scans /\ table = before
           /\ Changes => plan.collect /\ applied = 0
<1>1. Scans
  BY DEF IInv, StateOK
<1>2. Changes => plan.collect /\ applied = 0
  BY DEF IInv, TableIsChanged
<1>3. ASSUME Changes
      PROVE  table = before
  <2>1. Dealt = {}
    BY <1>2, <1>3 DEF Dealt
  <2>2. RowsOf(table) = RowsOf(before)
    BY <1>3, <2>1 DEF IInv, TableIsChanged, Changes
  <2>3. table \in Tables /\ before \in Tables
    BY DEF IInv, StateOK
  <2>4. ASSUME NEW t \in Tables, NEW u \in Tables, RowsOf(t) = RowsOf(u)
        PROVE  DOMAIN t \subseteq DOMAIN u
    <3> SUFFICES ASSUME NEW k \in DOMAIN t
                 PROVE  k \in DOMAIN u
      OBVIOUS
    <3>1. [key |-> k, val |-> t[k]] \in RowsOf(u)
      BY <2>4, RowsOfTable
    <3>2. [key |-> k, val |-> t[k]].key \in DOMAIN u
      BY <3>1, RowsOfTable
    <3> QED
      BY <3>2
  <2>5. DOMAIN table = DOMAIN before
    BY <2>2, <2>3, <2>4
  <2>6. \A k \in DOMAIN table : table[k] = before[k]
    <3> SUFFICES ASSUME NEW k \in DOMAIN table
                 PROVE  table[k] = before[k]
      OBVIOUS
    <3>1. [key |-> k, val |-> table[k]] \in RowsOf(before)
      BY <2>2, <2>3, RowsOfTable
    <3>2. [key |-> k, val |-> table[k]] = [key |-> k, val |-> before[k]]
      BY <2>3, <3>1, RowsOfTable
    <3> QED
      BY <3>2
  <2>7. table \in [DOMAIN table -> Vals] /\ before \in [DOMAIN before -> Vals]
    BY <2>3, TablesMean
  <2> QED
    BY <2>5, <2>6, <2>7
<1>4. ~Changes => table = before
  BY <1>1 DEF IInv, TableIsChanged
<1> QED
  BY <1>1, <1>2, <1>3, <1>4

LEMMA ScanEndKeepsInvariant ==
    ASSUME IInv, ScanEnd
    PROVE  IInv'
<1> USE DEF ScanEnd
<1>1. Scans /\ table = before /\ Scans' /\ (Changes' <=> Changes)
  BY ScanningTable DEF Scans, Changes
<1>2. /\ page \in [Keys -> LeafPages] /\ plan.index \in BOOLEAN /\ before \in Tables
      /\ at = {} \/ \E k \in Keys : at = {k}
  BY <1>1, ScanPlan DEF IInv, StateOK
<1>3. StateOK'
  <2>1. BuildPlan(statement)' = BuildPlan(statement)
    OBVIOUS
  <2> QED
    BY <1>1, <2>1 DEF IInv, StateOK
<1>4. ImagesInBounds'
  BY DEF IInv, ImagesInBounds
(* Whatever is not ahead was read.                                         *)
<1>5. \A r \in Selected : Read(r.key)
  <2> SUFFICES ASSUME NEW r \in Selected
               PROVE  Read(r.key)
    OBVIOUS
  <2>1. r.key \in DOMAIN table /\ r.key \in Keys /\ FromStart(r.key)
    BY <1>1, <1>2, RowsOfTable DEF Selected
  <2>2. PICK k \in at : ~Earlier(k, r.key)
    BY <2>1 DEF Ahead
  <2>3. k \in Keys
    BY <1>2
  <2>4. r.key = k \/ Earlier(r.key, k)
    BY <1>2, <2>1, <2>2, <2>3, EarlierIsOrder
  <2> QED
    BY <2>4 DEF Read
<1>6. RowsAreRead'
  <2>1. Selected' = Selected /\ \A a, b : Earlier(a, b)' <=> Earlier(a, b)
    BY DEF Selected, FromStart, Passes, Earlier
  <2>2. \A k : Read(k)'
    BY DEF Read
  <2>3. RowsAreRead
    BY DEF IInv
  <2> QED
    BY <1>1, <1>5, <2>1, <2>2, <2>3 DEF RowsAreRead
<1>7. TableIsChanged' /\ ImagesApart'
  BY DEF IInv, TableIsChanged, ImagesApart, Dealt, Scans, Changes
<1>8. AnsweredIsDone'
  BY DEF AnsweredIsDone
<1> QED
  BY <1>3, <1>4, <1>6, <1>7, <1>8 DEF IInv

LEMMA ScanNextKeepsInvariant ==
    ASSUME IInv, ScanNext
    PROVE  IInv'
<1> USE DEF ScanNext
<1>1. /\ Scans /\ table = before /\ Scans' /\ (Changes' <=> Changes)
      /\ Changes => plan.collect /\ applied = 0
  BY ScanningTable DEF Scans, Changes
<1>2. /\ page \in [Keys -> LeafPages] /\ plan.index \in BOOLEAN /\ before \in Tables
      /\ at = {} \/ \E k \in Keys : at = {k}
      /\ rows \in Seq(Rows)
  BY <1>1, ScanPlan DEF IInv, StateOK
<1>3. PICK k \in Ahead : /\ \A other \in Ahead \ {k} : Earlier(k, other)
                         /\ at' = {k}
                         /\ rows' = IF Passes(Row(k)) THEN Append(rows, Row(k)) ELSE rows
  OBVIOUS
<1>4. k \in DOMAIN before /\ k \in Keys /\ FromStart(k) /\ \A a \in at : Earlier(a, k)
  BY <1>1, <1>2, <1>3, TablesMean DEF Ahead
<1>5. Row(k) \in RowsOf(before) /\ Row(k).key = k /\ Row(k) \in Rows
  BY <1>1, <1>2, <1>4, RowsOfTable DEF Row
<1>6. rows' \in Seq(Rows) /\ Len(rows) <= Len(rows')
  BY <1>2, <1>3, <1>5
<1>7. StateOK'
  <2>1. BuildPlan(statement)' = BuildPlan(statement)
    OBVIOUS
  <2>2. applied' \in 0..Len(rows')
    BY <1>6 DEF IInv, StateOK
  <2> QED
    BY <1>1, <1>3, <1>4, <1>6, <2>1, <2>2 DEF IInv, StateOK
<1>8. ImagesInBounds'
  BY DEF IInv, ImagesInBounds
<1>9. /\ Selected' = Selected
      /\ \A a, b : Earlier(a, b)' <=> Earlier(a, b)
      /\ \A x : Read(x)' <=> x = k \/ Earlier(x, k)
  <2>1. \A a, b : Earlier(a, b)' <=> Earlier(a, b)
    BY DEF Earlier
  <2> QED
    BY <1>3, <2>1 DEF Selected, FromStart, Passes, Read
(* What is to be shown of the rows now, in terms of the scan as it was.    *)
<1>10. ASSUME /\ \A i \in DOMAIN rows' :
                    rows'[i] \in Selected /\ (rows'[i].key = k \/ Earlier(rows'[i].key, k))
              /\ \A i, j \in DOMAIN rows' : i < j => Earlier(rows'[i].key, rows'[j].key)
              /\ \A r \in Selected : r.key = k \/ Earlier(r.key, k) =>
                    \E i \in DOMAIN rows' : rows'[i] = r
       PROVE  RowsAreRead'
  <2>1. (\A i \in DOMAIN rows : rows[i] \in Selected /\ Read(rows[i].key))'
    BY <1>3, <1>9, <1>10 DEF Read, Earlier
  <2>2. (\A i, j \in DOMAIN rows : i < j => Earlier(rows[i].key, rows[j].key))'
    BY <1>10 DEF Earlier
  <2>3. (\A i \in DOMAIN rows : \A a \in at : rows[i].key = a \/ Earlier(rows[i].key, a))'
    BY <1>3, <1>10 DEF Earlier
  <2>4. (\A r \in Selected : Read(r.key) => \E i \in DOMAIN rows : rows[i] = r)'
    BY <1>9, <1>10
  <2> QED
    BY <1>3, <2>1, <2>2, <2>3, <2>4 DEF RowsAreRead
<1>11. RowsAreRead'
  <2>1. /\ \A i \in DOMAIN rows : rows[i] \in Selected /\ Read(rows[i].key)
        /\ \A i, j \in DOMAIN rows : i < j => Earlier(rows[i].key, rows[j].key)
        /\ \A i \in DOMAIN rows : \A a \in at : rows[i].key = a \/ Earlier(rows[i].key, a)
        /\ \A r \in Selected : Read(r.key) => \E i \in DOMAIN rows : rows[i] = r
        /\ at = {} => rows = <<>>
    BY <1>1 DEF IInv, RowsAreRead
  <2>2. \A i \in DOMAIN rows : rows[i].key \in Keys /\ rows[i] \in Selected
    <3>1. \A i \in DOMAIN rows : rows[i] \in Rows
      BY <1>2
    <3> QED
      BY <2>1, <3>1 DEF Rows
  <2>3. \A i \in DOMAIN rows : Earlier(rows[i].key, k)
    <3> SUFFICES ASSUME NEW i \in DOMAIN rows
                 PROVE  Earlier(rows[i].key, k)
      OBVIOUS
    <3>1. PICK a \in Keys : at = {a}
      BY <1>2, <2>1
    <3>2. rows[i].key = a \/ Earlier(rows[i].key, a)
      BY <2>1, <3>1
    <3> QED
      BY <1>2, <1>4, <2>2, <3>1, <3>2, EarlierIsOrder
  (* A selected row that was not read before comes at k or behind it.      *)
  <2>4. \A r \in Selected : (r.key = k \/ Earlier(r.key, k)) /\ ~Read(r.key) => r = Row(k)
    <3> SUFFICES ASSUME NEW r \in Selected, r.key = k \/ Earlier(r.key, k), ~Read(r.key)
                 PROVE  r = Row(k)
      OBVIOUS
    <3>1. r \in RowsOf(before) /\ r.key \in DOMAIN before /\ r.key \in Keys /\ FromStart(r.key)
      BY <1>2, RowsOfTable DEF Selected
    <3>2. \A a \in at : a \in Keys /\ Earlier(a, r.key)
      BY <1>2, <3>1, EarlierIsOrder DEF Read
    <3>3. r.key \in Ahead
      BY <1>1, <3>1, <3>2 DEF Ahead
    <3>4. r.key = k
      BY <1>2, <1>3, <1>4, <3>1, <3>3, EarlierIsOrder
    <3> QED
      BY <1>2, <1>5, <3>1, <3>4, RowsOfTable
  <2>5. CASE Passes(Row(k))
    <3>1. rows' = Append(rows, Row(k)) /\ Row(k) \in Selected
      BY <1>3, <1>4, <1>5, <2>5 DEF Selected
    <3>2. /\ DOMAIN rows' = DOMAIN rows \union {Len(rows) + 1}
          /\ rows'[Len(rows) + 1] = Row(k)
          /\ \A i \in DOMAIN rows : rows'[i] = rows[i] /\ i \in Int /\ i <= Len(rows)
          /\ Len(rows) \in Nat
      BY <1>2, <1>5, <3>1
    <3>3. \A i \in DOMAIN rows' : rows'[i] \in Selected /\ (rows'[i].key = k \/ Earlier(rows'[i].key, k))
      BY <1>5, <2>2, <2>3, <3>1, <3>2
    <3>4. \A i, j \in DOMAIN rows' : i < j => Earlier(rows'[i].key, rows'[j].key)
      BY <1>5, <2>1, <2>3, <3>2
    <3>5. \A r \in Selected : r.key = k \/ Earlier(r.key, k) => \E i \in DOMAIN rows' : rows'[i] = r
      BY <2>1, <2>4, <3>2
    <3> QED
      BY <1>10, <3>3, <3>4, <3>5
  <2>6. CASE ~Passes(Row(k))
    <3>1. rows' = rows /\ Row(k) \notin Selected
      BY <1>3, <2>6 DEF Selected
    <3>2. \A r \in Selected : r.key = k \/ Earlier(r.key, k) => \E i \in DOMAIN rows : rows[i] = r
      BY <2>1, <2>4, <3>1
    <3> QED
      BY <1>10, <2>1, <2>2, <2>3, <3>1, <3>2
  <2> QED
    BY <2>5, <2>6
<1>12. TableIsChanged' /\ ImagesApart'
  <2>1. Changes => 1..applied = {} /\ Dealt = {} /\ Dealt' = {}
    BY <1>1 DEF Dealt
  <2> QED
    BY <1>1, <2>1 DEF IInv, TableIsChanged, ImagesApart, Scans, Changes
<1>13. AnsweredIsDone'
  BY DEF AnsweredIsDone
<1> QED
  BY <1>7, <1>8, <1>11, <1>12, <1>13 DEF IInv

-----------------------------------------------------------------------------
(* The changes.                                                            *)

(* The next row to change is still as it was, and it is in the table.      *)
LEMMA NextRowIsThere ==
    ASSUME IInv, ToChange
    PROVE  /\ Scans /\ drained
           /\ table \in Tables /\ before \in Tables
           /\ applied \in Nat /\ applied + 1 \in DOMAIN rows
           /\ rows[applied + 1] \in Rows
           /\ rows[applied + 1] \in RowsOf(before) \ Dealt
           /\ rows[applied + 1] \in RowsOf(table)
           /\ rows[applied + 1] \in Selected
<1>1. Scans /\ drained /\ table \in Tables /\ before \in Tables
  BY DEF IInv, StateOK, TableIsChanged, ToChange
<1>2. rows \in Seq(Rows) /\ applied \in 0..Len(rows) /\ applied < Len(rows)
  BY DEF IInv, StateOK, ToChange
<1>3. applied \in Nat /\ applied + 1 \in DOMAIN rows /\ rows[applied + 1] \in Rows
  BY <1>2
<1>4. rows[applied + 1] \in Selected /\ rows[applied + 1] \in RowsOf(before)
  BY <1>1, <1>3 DEF IInv, RowsAreRead, Selected
<1>5. \A i \in 1..applied : i \in DOMAIN rows /\ i < applied + 1 /\ rows[i].key \in Keys
  <2>1. \A i \in 1..applied : i \in DOMAIN rows /\ i < applied + 1 /\ rows[i] \in Rows
    BY <1>2
  <2> QED
    BY <2>1 DEF Rows
<1>6. \A i \in 1..applied : rows[i] # rows[applied + 1]
  <2>1. \A i \in 1..applied : Earlier(rows[i].key, rows[applied + 1].key)
    BY <1>1, <1>3, <1>5 DEF IInv, RowsAreRead
  <2>2. \A k \in Keys : ~Earlier(k, k)
    BY <1>1, ScanPlan, EarlierIsOrder DEF IInv, StateOK
  <2> QED
    BY <1>5, <2>1, <2>2
<1>7. rows[applied + 1] \notin Dealt
  BY <1>6 DEF Dealt
<1>8. rows[applied + 1] \in RowsOf(table)
  BY <1>4, <1>7 DEF IInv, TableIsChanged, ToChange, Changes
<1> QED
  BY <1>1, <1>3, <1>4, <1>7, <1>8

LEMMA DealtGrows ==
    ASSUME IInv, ToChange, applied' = applied + 1, rows' = rows
    PROVE  Dealt' = Dealt \union {rows[applied + 1]}
<1>1. applied \in Nat
  BY NextRowIsThere
<1>2. 1..(applied + 1) = (1..applied) \union {applied + 1}
  BY <1>1
<1> QED
  BY <1>2 DEF Dealt

LEMMA DeleteKeepsInvariant ==
    ASSUME IInv, DeleteRow
    PROVE  IInv'
<1> USE DEF DeleteRow
<1> DEFINE row == rows[applied + 1]
<1>1. ToChange /\ statement.kind = "delete" /\ Scans /\ Changes /\ drained
  BY NextRowIsThere DEF Changes
<1>2. /\ table \in Tables /\ before \in Tables /\ applied \in Nat /\ applied + 1 \in DOMAIN rows
      /\ row \in RowsOf(before) /\ row \notin Dealt /\ row \in RowsOf(table)
  BY <1>1, NextRowIsThere
<1>3. /\ table' \in Tables
      /\ RowsOf(table') = {r \in RowsOf(table) : r.key # row.key}
  BY <1>2, SubtableRows
<1>4. RowsOf(table') = RowsOf(table) \ {row}
  BY <1>2, <1>3, RowsOfTable
<1>5. Scans' = Scans /\ Changes' = Changes /\ ImagesInBounds' /\ RowsAreRead'
  BY SameScan DEF IInv
<1>6. StateOK'
  <2>1. BuildPlan(statement)' = BuildPlan(statement)
    OBVIOUS
  <2>2. applied' \in 0..Len(rows')
    BY <1>2 DEF IInv, StateOK
  <2> QED
    BY <1>1, <1>3, <1>5, <2>1, <2>2 DEF IInv, StateOK
<1>7. TableIsChanged'
  <2>1. Dealt' = Dealt \union {row}
    BY <1>1, DealtGrows
  <2>2. RowsOf(table) = RowsOf(before) \ Dealt
    BY DEF IInv, TableIsChanged
  <2>3. RowsOf(table') = RowsOf(before) \ Dealt'
    BY <1>4, <2>1, <2>2
  <2> QED
    BY <1>1, <1>5, <2>3 DEF IInv, TableIsChanged
<1>8. ImagesApart' /\ AnsweredIsDone'
  BY DEF ImagesApart, AnsweredIsDone, ToChange
<1> QED
  BY <1>5, <1>6, <1>7, <1>8 DEF IInv

(* The key of an image is that of its row, or one that no row has.         *)
LEMMA UpdateKeepsInvariant ==
    ASSUME IInv, UpdateRow
    PROVE  IInv'
<1> DEFINE old == rows[applied + 1]
           new == Image(statement.sets, old)
           rest == Without(table, old.key)
<1>1. /\ ToChange /\ statement.kind = "update" /\ ~Taken(old, new)
      /\ table' = With(rest, new) /\ applied' = applied + 1
      /\ UNCHANGED <<page, statement, plan, at, drained, rows, phase, before>>
  BY DEF UpdateRow
<1>2. /\ Scans /\ Changes /\ drained
      /\ table \in Tables /\ before \in Tables /\ applied \in Nat /\ applied + 1 \in DOMAIN rows
      /\ old \in RowsOf(before) /\ old \notin Dealt /\ old \in RowsOf(table) /\ old \in Selected
  BY <1>1, NextRowIsThere DEF Changes
<1>3. new \in Rows
  <2>1. Matches(statement.where, old)
    BY <1>1, <1>2, UpdateFilters DEF IInv, Selected
  <2> QED
    BY <1>1, <1>2, <2>1 DEF IInv, ImagesInBounds
<1>4. /\ rest \in Tables
      /\ DOMAIN rest = DOMAIN table \ {old.key}
      /\ RowsOf(rest) = {r \in RowsOf(table) : r.key # old.key}
  BY <1>2, SubtableRows
<1>5. /\ table' \in Tables
      /\ DOMAIN table' = DOMAIN rest \union {new.key}
      /\ RowsOf(table') = {r \in RowsOf(rest) : r.key # new.key} \union {new}
  BY <1>1, <1>3, <1>4, ExtendedTableRows
<1>6. old.key \in DOMAIN table /\ \A r \in RowsOf(table) : r.key = old.key => r = old
  BY <1>2, RowsOfTable
<1>7. new.key = old.key \/ new.key \notin DOMAIN table
  BY <1>1 DEF Taken
<1>8. new.key \notin DOMAIN rest
  BY <1>4, <1>7
<1>9. RowsOf(table') = (RowsOf(table) \ {old}) \union {new}
  <2>1. \A r \in RowsOf(rest) : r.key # new.key
    BY <1>4, <1>8, RowsOfTable
  <2>2. RowsOf(rest) = RowsOf(table) \ {old}
    BY <1>4, <1>6
  <2> QED
    BY <1>5, <2>1, <2>2
<1>10. Scans' = Scans /\ Changes' = Changes /\ ImagesInBounds' /\ RowsAreRead'
  BY <1>1, SameScan DEF IInv
<1>11. StateOK'
  <2>1. BuildPlan(statement)' = BuildPlan(statement)
    BY <1>1
  <2>2. applied' \in 0..Len(rows')
    BY <1>1, <1>2 DEF IInv, StateOK
  <2> QED
    BY <1>1, <1>2, <1>5, <1>10, <2>1, <2>2 DEF IInv, StateOK
<1>12. Dealt' = Dealt \union {old}
  BY <1>1, DealtGrows
<1>13. RowsOf(table) = (RowsOf(before) \ Dealt) \union {Image(statement.sets, r) : r \in Dealt}
  BY <1>1 DEF IInv, TableIsChanged
<1>14. \A i \in 1..applied : \A r \in RowsOf(before) \ Dealt : Image(statement.sets, rows[i]).key # r.key
  BY <1>1 DEF IInv, ImagesApart
(* No image is the row that is changed now.                                *)
<1>15. old \notin {Image(statement.sets, r) : r \in Dealt}
  BY <1>2, <1>14 DEF Dealt
<1>16. TableIsChanged'
  <2>1. {Image(statement.sets, r) : r \in Dealt \union {old}} =
             {Image(statement.sets, r) : r \in Dealt} \union {new}
    OBVIOUS
  <2>2. RowsOf(table') = (RowsOf(before) \ Dealt') \union {Image(statement.sets, r) : r \in Dealt'}
    BY <1>2, <1>9, <1>12, <1>13, <1>15, <2>1
  <2> QED
    BY <1>1, <1>2, <1>10, <2>2 DEF IInv, TableIsChanged
<1>17. ImagesApart'
  <2>1. ASSUME NEW i \in 1..applied', NEW r \in RowsOf(before) \ Dealt'
        PROVE  Image(statement.sets, rows[i]).key # r.key
    <3>1. r \in RowsOf(before) \ Dealt /\ r # old /\ r \in RowsOf(table)
      BY <1>12, <1>13, <2>1
    <3>2. CASE i \in 1..applied
      BY <1>14, <3>1, <3>2
    <3>3. CASE i = applied + 1
      <4>1. r.key \in DOMAIN table /\ r.key # old.key
        BY <1>2, <1>6, <3>1, RowsOfTable
      <4> QED
        BY <1>7, <3>3, <4>1
    <3> QED
      BY <1>1, <1>2, <2>1, <3>2, <3>3
  <2>2. Cardinality(DOMAIN table') = Cardinality(DOMAIN before)
    <3>1. IsFiniteSet(DOMAIN table)
      BY <1>2, TablesAreFinite
    <3>2. IsFiniteSet(DOMAIN rest) /\ Cardinality(DOMAIN rest) = Cardinality(DOMAIN table) - 1
      BY <1>4, <1>6, <3>1, FS_RemoveElement
    <3>3. Cardinality(DOMAIN table') = Cardinality(DOMAIN rest) + 1
      BY <1>5, <1>8, <3>2, FS_AddElement
    <3>4. Cardinality(DOMAIN table) \in Nat
      BY <3>1, FS_CardinalityType
    <3>5. Cardinality(DOMAIN table) = Cardinality(DOMAIN before)
      BY <1>1 DEF IInv, ImagesApart
    <3> QED
      BY <3>2, <3>3, <3>4, <3>5
  <2> QED
    BY <1>1, <2>1, <2>2 DEF ImagesApart
<1>18. AnsweredIsDone'
  BY <1>1 DEF AnsweredIsDone, ToChange
<1> QED
  BY <1>10, <1>11, <1>16, <1>17, <1>18 DEF IInv

LEMMA StepKeepsInvariant == IInv /\ [Next]_vars => IInv'
<1> SUFFICES ASSUME IInv, [Next]_vars
             PROVE  IInv'
  OBVIOUS
<1>1. CASE UNCHANGED vars
  <2>1. UNCHANGED <<table, page, statement, plan, at, drained, rows, applied, phase, before>>
    BY <1>1 DEF vars
  <2>2. ImagesInBounds' /\ RowsAreRead'
    BY <2>1, SameScan DEF IInv
  <2>3. StateOK' /\ TableIsChanged' /\ ImagesApart' /\ AnsweredIsDone'
    BY <2>1 DEF IInv, StateOK, TableIsChanged, ImagesApart, AnsweredIsDone, Dealt, Scans, Changes
  <2> QED
    BY <2>2, <2>3 DEF IInv
<1> QED
  BY <1>1, SubmitKeepsInvariant, InsertKeepsInvariant, ScanNextKeepsInvariant,
     ScanEndKeepsInvariant, DeleteKeepsInvariant, UpdateKeepsInvariant, AnswerKeepsInvariant,
     ReturnKeepsInvariant DEF Next

LEMMA InvariantHolds == Spec => []IInv
BY InitInvariant, StepKeepsInvariant, PTL DEF Spec

-----------------------------------------------------------------------------
(* The ranges of the planner.                                              *)

LEMMA LastOfTwo ==
    ASSUME NEW S \in SUBSET {1, 2}, S # {}
    PROVE  Max(S) \in S /\ \A i \in S : Max(S) >= i
<1>1. \E m \in S : \A i \in S : m >= i
  <2>1. CASE 2 \in S
    <3>1. \A i \in S : 2 >= i
      OBVIOUS
    <3> QED
      BY <2>1, <3>1
  <2>2. CASE 2 \notin S
    <3>1. S = {1}
      BY <2>2
    <3>2. \A i \in {1} : 1 >= i
      OBVIOUS
    <3> QED
      BY <3>1, <3>2
  <2> QED
    BY <2>1, <2>2
<1> QED
  BY <1>1 DEF Max

LEMMA ClauseTypes ==
    ASSUME NEW where \in Wheres
    PROVE  /\ Len(where) \in {0, 1, 2} /\ DOMAIN where = 1..Len(where)
           /\ DOMAIN where \subseteq {1, 2}
           /\ Len(where) = 0 <=> where = <<>>
           /\ \A i \in DOMAIN where : /\ where[i].col \in {"key", "val"}
                                      /\ where[i].op \in {"=", "<", "<=", ">", ">="}
                                      /\ where[i].with \in Int
<1> DEFINE C == [col : {"key", "val"}, op : {"=", "<", "<=", ">", ">="}, with : Int]
<1>1. \A c \in C : /\ c.col \in {"key", "val"} /\ c.op \in {"=", "<", "<=", ">", ">="}
                   /\ c.with \in Int
  OBVIOUS
<1>2. where \in Seq(C) /\ Len(where) <= 2
  BY StatementsAssumption
<1> HIDE DEF C
<1>3. Len(where) \in Nat /\ DOMAIN where = 1..Len(where) /\ \A i \in DOMAIN where : where[i] \in C
  BY <1>2
<1>4. Len(where) \in {0, 1, 2}
  BY <1>2, <1>3
<1>5. DOMAIN where \subseteq {1, 2}
  BY <1>3, <1>4
<1>6. Len(where) = 0 <=> where = <<>>
  BY <1>2
<1>7. \A i \in DOMAIN where : /\ where[i].col \in {"key", "val"}
                              /\ where[i].op \in {"=", "<", "<=", ">", ">="}
                              /\ where[i].with \in Int
  BY <1>1, <1>3
<1> QED
  BY <1>3, <1>4, <1>5, <1>6, <1>7

(* The last comparison of the key with one of ops gives the bound.         *)
LEMMA LastConstantIs ==
    ASSUME NEW where \in Wheres, NEW ops
    PROVE  \/ /\ LastConstant(where, ops) = {}
              /\ \A i \in DOMAIN where : ~OnKey(where[i], ops)
           \/ \E i \in DOMAIN where : /\ LastConstant(where, ops) = {where[i].with}
                                      /\ OnKey(where[i], ops)
                                      /\ \A j \in DOMAIN where : OnKey(where[j], ops) => j <= i
<1> DEFINE found == {i \in DOMAIN where : OnKey(where[i], ops)}
<1>1. found \in SUBSET {1, 2} /\ DOMAIN where \subseteq {1, 2}
  BY ClauseTypes
<1>2. LastConstant(where, ops) = IF found = {} THEN {} ELSE {where[Max(found)].with}
  BY DEF LastConstant
<1>3. CASE found = {}
  BY <1>2, <1>3
<1>4. CASE found # {}
  <2>1. Max(found) \in found /\ \A j \in found : Max(found) >= j
    BY <1>1, <1>4, LastOfTwo
  <2>2. \A j \in found : j <= Max(found)
    BY <1>1, <2>1
  <2> QED
    BY <1>2, <1>4, <2>1, <2>2
<1> QED
  BY <1>3, <1>4

LEMMA BoundsOfPlan ==
    ASSUME NEW s \in Selects \union Deletes \union Updates
    PROVE  /\ BuildPlan(s).start = {} \/ \E c \in Int : BuildPlan(s).start = {c}
           /\ BuildPlan(s).end = {} \/ \E c \in Int : BuildPlan(s).end = {c}
           /\ BuildPlan(s).start = {} => BuildPlan(s).end = {}
<1>1. s.where \in Wheres
  BY DEF Selects, Deletes, Updates
<1>2. ASSUME NEW ops
      PROVE  LastConstant(s.where, ops) = {} \/ \E c \in Int : LastConstant(s.where, ops) = {c}
  BY <1>1, LastConstantIs, ClauseTypes
<1>3. /\ ExtractPkRange(s.where).start = {} \/ \E c \in Int : ExtractPkRange(s.where).start = {c}
      /\ ExtractPkRange(s.where).end = {} \/ \E c \in Int : ExtractPkRange(s.where).end = {c}
      /\ ExtractPkRange(s.where).start = {} => ExtractPkRange(s.where).end = {}
  BY <1>2 DEF ExtractPkRange, NoRange
<1> QED
  BY <1>3 DEF BuildPlan, NoRange

(* A plan that is no index scan has no bounds and keeps WHERE.             *)
LEMMA SequentialStart ==
    ASSUME StateOK, Scans, ~plan.index
    PROVE  plan.filter = (statement.where # <<>>) /\ plan.start = {} /\ plan.end = {}
<1>1. statement \in Selects \union Deletes \union Updates /\ plan = BuildPlan(statement)
  BY ScanPlan
<1>2. CASE statement \in Selects
  <2>1. statement.kind = "select"
    BY <1>2 DEF Selects
  <2> QED
    BY <1>1, <2>1 DEF BuildPlan, NoRange
<1>3. CASE statement \in Deletes
  <2>1. statement.kind = "delete"
    BY <1>3 DEF Deletes
  <2>2. ExtractPkRange(statement.where).start = {}
    BY <1>1, <2>1 DEF BuildPlan
  <2>3. plan.start = {}
    BY <1>1, <2>1, <2>2 DEF BuildPlan
  <2>4. plan.end = {}
    BY <1>1, <2>3, BoundsOfPlan
  <2> QED
    BY <1>1, <2>1, <2>2, <2>3, <2>4 DEF BuildPlan
<1>4. CASE statement \in Updates
  <2>1. statement.kind = "update"
    BY <1>4 DEF Updates
  <2> QED
    BY <1>1, <2>1, PlanOfStatement
<1> QED
  BY <1>1, <1>2, <1>3, <1>4

LEMMA SequentialFilters ==
    ASSUME StateOK, Scans, ~plan.index, NEW r
    PROVE  FromStart(r.key) /\ (Passes(r) <=> Matches(statement.where, r))
<1>1. plan.filter = (statement.where # <<>>) /\ plan.end = {}
  BY SequentialStart
<1>2. statement.where = <<>> => Matches(statement.where, r)
  BY DEF Matches
<1> QED
  BY <1>1, <1>2 DEF FromStart, Passes

(* Of the rows whose bytes are where their number is, an index scan        *)
(* selects those of WHERE, and where it drops a comparison those of the    *)
(* other one.                                                              *)
LEMMA IndexSelects ==
    ASSUME StateOK, Scans, plan.index, NEW r \in Rows, InByteOrder(r.key)
    PROVE  /\ Matches(statement.where, r) => FromStart(r.key) /\ Passes(r)
           /\ FromStart(r.key) /\ Passes(r) =>
                 IF ConjunctDropped
                 THEN \E comparison \in Range(statement.where) : Matches(<<comparison>>, r)
                 ELSE Matches(statement.where, r)
<1> DEFINE where == statement.where
           single == Len(where) = 1
           lower == IF single THEN {"=", ">=", ">"} ELSE {">="}
           upper == IF single THEN {"="} ELSE {"<="}
<1>1. statement \in Selects \union Deletes \union Updates /\ plan = BuildPlan(statement)
  BY ScanPlan
<1>2. where \in Wheres /\ statement.kind \in {"select", "delete", "update"}
  BY <1>1 DEF Selects, Deletes, Updates
<1>3. statement.kind # "update"
  BY <1>1, PlanOfStatement
<1>4. /\ plan.start = ExtractPkRange(where).start
      /\ plan.end = ExtractPkRange(where).end
      /\ plan.filter = (where # <<>> /\ (ExtractPkRange(where).strict \/ plan.start = {}))
  BY <1>1, <1>2, <1>3 DEF BuildPlan
<1>5. r.key \in Keys /\ r.key \in Int
  BY KeysAreIntegers DEF Rows
<1>7. /\ Len(where) \in {0, 1, 2} /\ DOMAIN where = 1..Len(where)
      /\ Len(where) = 0 <=> where = <<>>
      /\ \A i \in DOMAIN where : where[i].with \in Int
  BY <1>2, ClauseTypes
<1>8. CASE LastConstant(where, lower) = {}
  <2>1. plan.start = {} /\ plan.end = {} /\ plan.filter = (where # <<>>)
    BY <1>4, <1>8 DEF ExtractPkRange, NoRange
  <2>2. where = <<>> => Matches(where, r)
    BY DEF Matches
  <2>3. ~ConjunctDropped
    BY <2>1 DEF ConjunctDropped
  <2> QED
    BY <2>1, <2>2, <2>3 DEF FromStart, Passes
<1>9. ASSUME LastConstant(where, lower) # {}
      PROVE  /\ Matches(where, r) => FromStart(r.key) /\ Passes(r)
             /\ FromStart(r.key) /\ Passes(r) =>
                   IF ConjunctDropped
                   THEN \E comparison \in Range(where) : Matches(<<comparison>>, r)
                   ELSE Matches(where, r)
  <2>1. PICK i \in DOMAIN where : LastConstant(where, lower) = {where[i].with} /\ OnKey(where[i], lower)
    BY <1>2, <1>9, LastConstantIs
  <2>2. /\ plan.start = {where[i].with}
        /\ plan.end = LastConstant(where, upper)
        /\ plan.filter = (where # <<>> /\ single /\ OnKey(where[1], {">"}))
    BY <1>4, <1>9, <2>1 DEF ExtractPkRange
  <2>3. where[i].col = "key" /\ where[i].op \in lower /\ where[i].with \in Int
    BY <1>7, <2>1 DEF OnKey
  <2>4. FromStart(r.key) <=> r.key >= where[i].with
    <3>1. FromStart(r.key) <=> ~ByteLess(r.key, where[i].with)
      BY <2>2 DEF FromStart
    <3>2. ByteLess(r.key, where[i].with) <=> r.key < where[i].with
      BY <2>2 DEF InByteOrder
    <3> QED
      BY <1>5, <2>3, <3>1, <3>2
  <2>5. r["key"] = r.key
    OBVIOUS
  <2>6. CASE single
    <3>1. i = 1 /\ DOMAIN where = {1} /\ where # <<>>
      BY <1>7, <2>1, <2>6
    <3>2. Matches(where, r) <=> Satisfies(r.key, where[1].op, where[1].with)
      BY <2>3, <2>5, <3>1 DEF Matches
    <3>3. plan.end = IF where[1].op = "=" THEN {where[1].with} ELSE {}
      <4>1. OnKey(where[1], upper) <=> where[1].op = "="
        BY <2>3, <2>6, <3>1 DEF OnKey
      <4>2. \/ LastConstant(where, upper) = {} /\ ~OnKey(where[1], upper)
            \/ LastConstant(where, upper) = {where[1].with} /\ OnKey(where[1], upper)
        BY <1>2, <3>1, LastConstantIs
      <4> QED
        BY <2>2, <4>1, <4>2
    <3>4. plan.filter <=> where[1].op = ">"
      BY <2>2, <2>3, <2>6, <3>1 DEF OnKey
    <3>5. Passes(r) <=> /\ where[1].op = "=" => r.key <= where[1].with
                        /\ where[1].op = ">" => Matches(where, r)
      BY <3>3, <3>4 DEF Passes
    <3>6. where[1].op \in {"=", ">=", ">"}
      BY <2>3, <2>6, <3>1
    <3>7. FromStart(r.key) /\ Passes(r) <=> Matches(where, r)
      BY <1>5, <2>3, <2>4, <3>1, <3>2, <3>5, <3>6 DEF Satisfies
    <3>8. ~ConjunctDropped
      BY <2>6 DEF ConjunctDropped
    <3> QED
      BY <3>7, <3>8
  <2>7. CASE ~single
    <3>1. where[i].op = ">=" /\ ~plan.filter /\ Len(where) = 2 /\ DOMAIN where = {1, 2}
      <4>1. Len(where) # 0
        BY <1>7, <2>1
      <4>2. Len(where) = 2
        BY <1>7, <2>7, <4>1
      <4>3. DOMAIN where = {1, 2}
        BY <1>7, <4>2
      <4> QED
        BY <2>2, <2>3, <2>7, <4>2, <4>3
    <3>2. CASE \E j \in DOMAIN where : OnKey(where[j], {"<="})
      <4>1. PICK j \in DOMAIN where : plan.end = {where[j].with} /\ OnKey(where[j], {"<="})
        BY <1>2, <2>2, <2>7, <3>2, LastConstantIs
      <4>2. where[j].col = "key" /\ where[j].op = "<=" /\ where[j].with \in Int /\ j # i
        BY <1>7, <3>1, <4>1 DEF OnKey
      <4>3. Matches(where, r) <=> /\ Satisfies(r.key, ">=", where[i].with)
                                  /\ Satisfies(r.key, "<=", where[j].with)
        BY <2>1, <2>3, <2>5, <3>1, <4>1, <4>2 DEF Matches
      <4>4. Passes(r) <=> r.key <= where[j].with
        BY <3>1, <4>1 DEF Passes
      <4>5. ~ConjunctDropped
        BY <3>2 DEF ConjunctDropped
      <4> QED
        BY <1>5, <2>3, <2>4, <4>2, <4>3, <4>4, <4>5 DEF Satisfies
    <3>3. CASE \A j \in DOMAIN where : ~OnKey(where[j], {"<="})
      <4>1. plan.end = {}
        BY <1>2, <2>2, <2>7, <3>3, LastConstantIs
      <4>2. Passes(r)
        BY <3>1, <4>1 DEF Passes
      <4>3. FromStart(r.key) <=> Satisfies(r[where[i].col], where[i].op, where[i].with)
        BY <1>5, <2>3, <2>4, <2>5, <3>1 DEF Satisfies
      <4>4. Matches(<<where[i]>>, r) <=> Satisfies(r[where[i].col], where[i].op, where[i].with)
        BY DEF Matches
      <4>5. where[i] \in Range(where)
        BY <2>1 DEF Range
      <4>6. ConjunctDropped
        BY <2>2, <3>1, <3>3 DEF ConjunctDropped
      <4>7. Matches(where, r) => FromStart(r.key)
        BY <2>1, <4>3 DEF Matches
      <4> QED
        BY <4>2, <4>3, <4>4, <4>5, <4>6, <4>7
    <3> QED
      BY <3>2, <3>3
  <2> QED
    BY <2>6, <2>7
<1> QED
  BY <1>8, <1>9

(* Keys and constants of one byte have the order of their bytes.           *)
LEMMA OneByteKeysAreInOrder ==
    ASSUME NEW a \in 0..255, NEW b \in 0..255
    PROVE  ByteLess(a, b) <=> a < b
<1>1. ASSUME NEW x \in 0..255
      PROVE  x \in Int /\ Byte(x, 1) = x /\ Byte(x, 2) = 0 /\ Byte(x, 3) = 0 /\ Byte(x, 4) = 0
  <2>1. x \in Int /\ x \div 1 = x /\ x \div 256 = 0 /\ x \div 65536 = 0 /\ x \div 16777216 = 0
    BY SMT
  <2>2. x % 256 = x /\ 0 % 256 = 0
    BY SMT
  <2> QED
    BY <2>1, <2>2, SMT DEF Byte
<1>2. /\ Byte(a, 1) = a /\ Byte(a, 2) = 0 /\ Byte(a, 3) = 0 /\ Byte(a, 4) = 0
      /\ Byte(b, 1) = b /\ Byte(b, 2) = 0 /\ Byte(b, 3) = 0 /\ Byte(b, 4) = 0
      /\ a \in Int /\ b \in Int
  BY <1>1
<1> QED
  BY <1>2, ByteLessMeans

-----------------------------------------------------------------------------
(* The theorems.                                                           *)

LEMMA TypesFollow == IInv => TypeOK
<1> SUFFICES ASSUME IInv
             PROVE  TypeOK
  OBVIOUS
<1>1. DOMAIN table \subseteq Keys /\ DOMAIN before \subseteq Keys
  BY TablesMean DEF IInv, StateOK
<1>2. /\ plan.start = {} \/ \E c \in Int : plan.start = {c}
      /\ plan.end = {} \/ \E c \in Int : plan.end = {c}
      /\ plan.start = {} => plan.end = {}
  <2>1. CASE Scans
    BY <2>1, ScanPlan, BoundsOfPlan DEF IInv
  <2>2. CASE ~Scans
    BY <2>2 DEF IInv, StateOK, ValuesPlan
  <2> QED
    BY <2>1, <2>2
<1>3. Cardinality(plan.end) <= Cardinality(plan.start) /\ Cardinality(plan.start) <= 1
  <2>1. Cardinality({}) = 0 /\ \A c : Cardinality({c}) = 1
    BY FS_EmptySet, FS_Singleton
  <2>2. Cardinality(plan.start) \in {0, 1} /\ Cardinality(plan.end) \in {0, 1}
    BY <1>2, <2>1
  <2>3. Cardinality(plan.start) = 0 => Cardinality(plan.end) = 0
    <3>1. plan.start = {} \/ Cardinality(plan.start) = 1
      BY <1>2, <2>1
    <3> QED
      BY <1>2, <2>1, <3>1
  <2> QED
    BY <2>2, <2>3
<1>4. at \subseteq Keys
  BY DEF IInv, StateOK
<1> QED
  BY <1>1, <1>3, <1>4 DEF IInv, StateOK, TypeOK

(* The tables, the plan and the rows on the way are what they should be,   *)
(* and no row is dealt with before it came out of the scan.                *)
THEOREM StatementsTypeOK == Spec => []TypeOK
BY InvariantHolds, TypesFollow, PTL

(* UPDATE loses no row, whatever its clauses, also when it is refused in   *)
(* the middle.                                                             *)
THEOREM UpdateLosesNoRow == Spec => []UpdateKeepsRows
<1>1. IInv => UpdateKeepsRows
  <2> SUFFICES ASSUME IInv, statement.kind = "update"
               PROVE  UpdateKeepsRows
    BY DEF UpdateKeepsRows
  <2>1. Cardinality(DOMAIN table) = Cardinality(DOMAIN before)
    BY DEF IInv, ImagesApart
  <2>2. RowsOf(table) = (RowsOf(before) \ Dealt) \union {Image(statement.sets, r) : r \in Dealt}
    BY DEF IInv, TableIsChanged
  <2>3. ASSUME NEW r \in RowsOf(before)
        PROVE  {r, Image(statement.sets, r)} \intersect RowsOf(table) # {}
    BY <2>2
  <2> QED
    BY <2>1, <2>3 DEF UpdateKeepsRows
<1> QED
  BY <1>1, InvariantHolds, PTL

(* The rows of a scan are the selected ones, each once, and all of them   *)
(* when it is drained.                                                     *)
LEMMA RowsAreSelected ==
    ASSUME IInv, Scans
    PROVE  /\ rows \in Seq(Rows)
           /\ \A i \in DOMAIN rows : rows[i] \in Selected /\ rows[i] \in Rows
           /\ \A i, j \in DOMAIN rows : rows[i] = rows[j] => i = j
           /\ drained => \A r \in Selected : \E i \in DOMAIN rows : rows[i] = r
           /\ RowsOf(before) \subseteq Rows
<1>1. /\ \A i \in DOMAIN rows : rows[i] \in Selected
      /\ \A i, j \in DOMAIN rows : i < j => Earlier(rows[i].key, rows[j].key)
      /\ \A r \in Selected : Read(r.key) => \E i \in DOMAIN rows : rows[i] = r
  BY DEF IInv, RowsAreRead
<1>2. rows \in Seq(Rows) /\ \A k \in Keys : ~Earlier(k, k)
  BY ScanPlan, EarlierIsOrder DEF IInv, StateOK
<1>3. \A i \in DOMAIN rows : i \in Int /\ rows[i] \in Rows
  BY <1>2
<1>4. \A i \in DOMAIN rows : rows[i].key \in Keys
  BY <1>3 DEF Rows
<1>5. \A i, j \in DOMAIN rows : rows[i] = rows[j] => ~(i < j)
  BY <1>1, <1>2, <1>4
<1>6. \A i, j \in DOMAIN rows : rows[i] = rows[j] => i = j
  BY <1>3, <1>5
<1>7. RowsOf(before) \subseteq Rows
  BY RowsOfTable DEF IInv, StateOK
<1> QED
  BY <1>1, <1>2, <1>3, <1>6, <1>7 DEF Read

(* What a scan selects of the rows that are where their number is.         *)
LEMMA ScanSelects ==
    ASSUME IInv, Scans, NEW r \in Rows, InByteOrder(r.key)
    PROVE  /\ Matches(statement.where, r) => FromStart(r.key) /\ Passes(r)
           /\ FromStart(r.key) /\ Passes(r) =>
                 IF ConjunctDropped
                 THEN \E comparison \in Range(statement.where) : Matches(<<comparison>>, r)
                 ELSE Matches(statement.where, r)
<1>1. CASE plan.index
  BY <1>1, IndexSelects DEF IInv
<1>2. CASE ~plan.index
  <2>1. FromStart(r.key) /\ (Passes(r) <=> Matches(statement.where, r))
    BY <1>2, SequentialFilters DEF IInv
  <2>2. plan.start = {}
    BY <1>2, SequentialStart DEF IInv
  <2> QED
    BY <2>1, <2>2 DEF ConjunctDropped
<1> QED
  BY <1>1, <1>2

(* A scan deals with exactly the rows of WHERE, each once, for any keys,   *)
(* clauses and layout of the pages: what else it may let through, and what *)
(* it may miss, is what a forgotten comparison excludes and what the bytes *)
(* of a key put on the other side of the lower bound.                      *)
THEOREM ScansAreExact == Spec => []ExactlyMatchingRows
<1>1. IInv => ExactlyMatchingRows
  <2> SUFFICES ASSUME IInv, Scans
               PROVE  ExactlyMatchingRows
    BY DEF ExactlyMatchingRows, OnlyMatchingRows, AllMatchingRows
  <2>1. /\ \A i \in DOMAIN rows : rows[i] \in Selected /\ rows[i] \in Rows
        /\ \A i, j \in DOMAIN rows : rows[i] = rows[j] => i = j
        /\ drained => \A r \in Selected : \E i \in DOMAIN rows : rows[i] = r
        /\ RowsOf(before) \subseteq Rows
    BY RowsAreSelected
  <2>2. ASSUME NEW i \in DOMAIN rows
        PROVE  /\ rows[i] \in RowsOf(before)
               /\ InByteOrder(rows[i].key) =>
                     IF ConjunctDropped
                     THEN \E comparison \in Range(statement.where) : Matches(<<comparison>>, rows[i])
                     ELSE Matches(statement.where, rows[i])
    <3>1. /\ rows[i] \in Rows /\ rows[i] \in RowsOf(before)
          /\ FromStart(rows[i].key) /\ Passes(rows[i])
      BY <2>1 DEF Selected
    <3> QED
      BY <3>1, ScanSelects
  <2>3. ASSUME drained, NEW r \in RowsOf(before), Matches(statement.where, r), InByteOrder(r.key)
        PROVE  \E i \in DOMAIN rows : rows[i] = r
    <3>1. FromStart(r.key) /\ Passes(r)
      BY <2>1, <2>3, ScanSelects
    <3>2. r \in Selected
      BY <3>1 DEF Selected
    <3> QED
      BY <2>1, <2>3, <3>2
  <2> QED
    BY <2>1, <2>2, <2>3 DEF ExactlyMatchingRows, OnlyMatchingRows, AllMatchingRows
<1> QED
  BY <1>1, InvariantHolds, PTL

(* Where keys and constants are of one byte and no comparison is           *)
(* forgotten, and in every scan without a lower bound, that is all: the    *)
(* rows that come out are the rows of WHERE.                               *)
ExactWhere ==
    Scans /\ drained /\ ~ConjunctDropped
    /\ (plan.start = {} \/ (plan.start \union DOMAIN before \subseteq 0..255)) =>
        Range(rows) = {r \in RowsOf(before) : Matches(statement.where, r)}

THEOREM RowsAreThoseOfWhere == Spec => []ExactWhere
<1>1. IInv /\ ExactlyMatchingRows => ExactWhere
  <2> SUFFICES ASSUME IInv, ExactlyMatchingRows, Scans, drained, ~ConjunctDropped,
                      plan.start = {} \/ (plan.start \union DOMAIN before \subseteq 0..255)
               PROVE  Range(rows) = {r \in RowsOf(before) : Matches(statement.where, r)}
    BY DEF ExactWhere
  <2>1. ASSUME NEW r \in RowsOf(before)
        PROVE  InByteOrder(r.key)
    <3>1. r.key \in DOMAIN before
      BY RowsOfTable DEF IInv, StateOK
    <3> QED
      BY <3>1, OneByteKeysAreInOrder DEF InByteOrder
  <2>2. \A i \in DOMAIN rows : rows[i] \in RowsOf(before) /\ Matches(statement.where, rows[i])
    BY <2>1 DEF ExactlyMatchingRows, OnlyMatchingRows
  <2>3. \A r \in RowsOf(before) : Matches(statement.where, r) => \E i \in DOMAIN rows : rows[i] = r
    BY <2>1 DEF ExactlyMatchingRows, AllMatchingRows
  <2>4. Range(rows) = {rows[i] : i \in DOMAIN rows}
    BY DEF Range
  <2> QED
    BY <2>2, <2>3, <2>4
<1> QED
  BY <1>1, InvariantHolds, ScansAreExact, PTL

(* An answered DELETE or UPDATE did its change to the rows that came out   *)
(* of its scan, to all of them at once and to no others; for UPDATE they   *)
(* are those of WHERE, whatever the keys and clauses.                      *)
THEOREM ChangesAreAppliedAtOnce == Spec => []AppliedAtOnce
<1>1. IInv => AppliedAtOnce
  <2> SUFFICES ASSUME IInv, phase = "answered", Changes
               PROVE  /\ statement.kind = "delete" => RowsOf(table) = RowsOf(before) \ Range(rows)
                      /\ statement.kind = "update" =>
                            RowsOf(table) = {IF Matches(statement.where, r)
                                             THEN Image(statement.sets, r) ELSE r : r \in RowsOf(before)}
    BY DEF AppliedAtOnce, Changes
  <2>1. Scans
    BY DEF Scans, Changes
  <2>2. drained /\ applied = Len(rows) /\ rows \in Seq(Rows)
    BY <2>1 DEF IInv, AnsweredIsDone, StateOK
  <2>3. Dealt = Range(rows)
    BY <2>2 DEF Dealt, Range
  <2>4. statement.kind = "delete" => RowsOf(table) = RowsOf(before) \ Dealt
    BY DEF IInv, TableIsChanged
  <2>5. ASSUME statement.kind = "update"
        PROVE  RowsOf(table) = {IF Matches(statement.where, r) THEN Image(statement.sets, r)
                                ELSE r : r \in RowsOf(before)}
    <3>1. RowsOf(table) = (RowsOf(before) \ Dealt) \union {Image(statement.sets, r) : r \in Dealt}
      BY <2>5 DEF IInv, TableIsChanged
    <3>2. \A r \in RowsOf(before) : r \in Selected <=> Matches(statement.where, r)
      BY <2>5, UpdateFilters DEF IInv, Selected
    <3>3. /\ \A i \in DOMAIN rows : rows[i] \in Selected
          /\ \A r \in Selected : \E i \in DOMAIN rows : rows[i] = r
      BY <2>1, <2>2, RowsAreSelected
    <3>4. Dealt = Selected
      BY <2>3, <3>3 DEF Range
    <3>5. Dealt = {r \in RowsOf(before) : Matches(statement.where, r)}
      BY <3>2, <3>4 DEF Selected
    <3> QED
      BY <3>1, <3>5
  <2> QED
    BY <2>3, <2>4, <2>5
<1> QED
  BY <1>1, InvariantHolds, PTL
=============================================================================
