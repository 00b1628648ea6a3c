-------------------------------- MODULE RowStore --------------------------------
(***************************************************************************)
(* What a table promises the executors: a scan sees the rows stored under  *)
(* each key, a lookup by key finds those keys that have a row, and the two *)
(* always agree.  Requests come one at a time.  One that ends normally has *)
(* made its change of the rows under its own key, once; an insertion may   *)
(* be refused instead, which its caller is told, and changes nothing.      *)
(***************************************************************************)
EXTENDS Naturals

CONSTANT Keys   \* primary keys

VARIABLES
    scanned,    \* scanned[k]: how many rows with key k a scan of the table sees
    found,      \* the keys a lookup finds
    request     \* the request under way, or how the last one ended

Done == [kind |-> "none"]
Refused == [kind |-> "failed"]
Requests == [kind : {"insert", "remove"}, key : Keys]

Init ==
    /\ scanned = [k \in Keys |-> 0]
    /\ found = {}
    /\ request = Done

Ask ==
    /\ request \in {Done, Refused}
    /\ request' \in Requests
    /\ UNCHANGED <<scanned, found>>

(* An insertion ends normally: its row is there for scans and lookups.     *)
Insert ==
    /\ request \in Requests /\ request.kind = "insert"
    /\ scanned' = [scanned EXCEPT ![request.key] = @ + 1]
    /\ found' = found \union {request.key}
    /\ request' = Done

RefuseInsert ==
    /\ request \in Requests /\ request.kind = "insert"
    /\ request' = Refused
    /\ UNCHANGED <<scanned, found>>

(* The rows disappear, at once from both; the request may be over later.   *)
Remove ==
    /\ request \in Requests /\ request.kind = "remove"
    /\ scanned' = [scanned EXCEPT ![request.key] = 0]
    /\ found' = found \ {request.key}
    /\ request' \in {request, Done}

Next == Ask \/ Insert \/ RefuseInsert \/ Remove

Spec == Init /\ [][Next]_<<scanned, found, request>>
=============================================================================
