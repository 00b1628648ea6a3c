-------------------------------- MODULE PageStore --------------------------------
(***************************************************************************)
(* What a page cache promises its callers.  Every page has one content,    *)
(* and only a caller that has the page pinned changes it, by its own       *)
(* write; pinning and unpinning, whatever they do to the cache, change     *)
(* nothing.  What a caller has marked outlives the cache; what it wrote    *)
(* and has not marked yet may outlive it or not.                           *)
(***************************************************************************)
EXTENDS Naturals

CONSTANTS
    Pages,      \* the pages of all tables
    Values      \* the contents a page may have

VARIABLES
    content,    \* what a caller reads of each page
    kept,       \* what the next cache will read of each page
    pins,       \* how often each page is pinned
    unmarked    \* the pages written and not marked since

vars == <<content, kept, pins, unmarked>>

Init ==
    /\ content \in [Pages -> Values]
    /\ kept = content
    /\ pins = [p \in Pages |-> 0]
    /\ unmarked = {}

Pin(p) ==
    /\ pins' = [pins EXCEPT ![p] = @ + 1]
    /\ UNCHANGED <<content, kept, unmarked>>

Unpin(p) ==
    /\ pins[p] > IF p \in unmarked THEN 1 ELSE 0
    /\ pins' = [pins EXCEPT ![p] = @ - 1]
    /\ UNCHANGED <<content, kept, unmarked>>

Write(p, v) ==
    /\ pins[p] > 0
    /\ content' = [content EXCEPT ![p] = v]
    /\ kept' \in {kept, [kept EXCEPT ![p] = v]}
    /\ unmarked' = unmarked \union {p}
    /\ UNCHANGED pins

Mark(p) ==
    /\ kept' = [kept EXCEPT ![p] = content[p]]
    /\ unmarked' = unmarked \ {p}
    /\ UNCHANGED <<content, pins>>

(* The cache is replaced by the next one.                                  *)
Renew ==
    /\ content' = kept
    /\ pins' = [p \in Pages |-> 0]
    /\ unmarked' = {}
    /\ UNCHANGED kept

Next ==
    \/ \E p \in Pages : Pin(p) \/ Unpin(p) \/ Mark(p) \/ \E v \in Values : Write(p, v)
    \/ Renew

Spec == Init /\ [][Next]_vars
=============================================================================
