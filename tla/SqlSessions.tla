------------------------------- MODULE SqlSessions -------------------------------
(***************************************************************************)
(* What the SQL server promises its sessions, with no threads, sockets,    *)
(* buffers or queues.  A session has a current database of its own.  It    *)
(* submits statements; each is executed in one step, in the order it was   *)
(* submitted, against the session's own database, and is answered once.    *)
(* A session that ends may lose its newest answer and gets no other.       *)
(***************************************************************************)
EXTENDS Naturals, Sequences

CONSTANTS
    Sessions,   \* identities of the sessions
    Dbs,        \* database names
    None        \* "no database selected"

VARIABLES
    disk,       \* the databases that exist
    asked,      \* asked[s]: the statements s has submitted, oldest first
    answers,    \* answers[s]: the answers computed for s, oldest first
    sessionDb,  \* sessionDb[s]: the current database of s
    ended       \* the sessions that are over

vars == <<disk, asked, answers, sessionDb, ended>>

Init ==
    /\ disk \in SUBSET Dbs
    /\ asked = [s \in Sessions |-> <<>>]
    /\ answers = [s \in Sessions |-> <<>>]
    /\ sessionDb = [s \in Sessions |-> None]
    /\ ended = {}

Submit(s) ==
    /\ \E op \in {"use", "create", "query"}, d \in Dbs :
          asked' = [asked EXCEPT ![s] =
                       Append(@, [op |-> op, db |-> d, n |-> Len(asked[s]) + 1])]
    /\ UNCHANGED <<disk, answers, sessionDb, ended>>

(* What a statement needs when it is executed with current database cur.   *)
Possible(stmt, cur) ==
    CASE stmt.op = "use"    -> stmt.db \in disk
      [] stmt.op = "create" -> stmt.db \notin disk
      [] stmt.op = "query"  -> cur # None

(* The next unanswered statement of s is executed in its own database.  A  *)
(* query may fail for reasons of its own, every statement when the         *)
(* session's database has disappeared; a failed one changes nothing.       *)
Execute(s) ==
    /\ s \notin ended
    /\ Len(answers[s]) < Len(asked[s])
    /\ LET stmt == asked[s][Len(answers[s]) + 1]
           cur  == sessionDb[s]
           gone == cur # None /\ cur \notin disk
       IN  \E ok \in BOOLEAN :
              /\ ok => Possible(stmt, cur)
              /\ stmt.op # "query" /\ ~gone => ok = Possible(stmt, cur)
              /\ answers' = [answers EXCEPT ![s] =
                                Append(@, [n |-> stmt.n, ok |-> ok, ran |-> cur])]
              /\ sessionDb' = IF ok /\ stmt.op = "use"
                              THEN [sessionDb EXCEPT ![s] = stmt.db]
                              ELSE sessionDb
              /\ disk' = IF ok /\ stmt.op = "create" THEN disk \union {stmt.db} ELSE disk
              /\ UNCHANGED <<asked, ended>>

(* The session ends.  At most the newest answer was not delivered yet.     *)
End(s) ==
    /\ s \notin ended
    /\ ended' = ended \union {s}
    /\ sessionDb' = [sessionDb EXCEPT ![s] = None]
    /\ \E lost \in {0, 1} :
          /\ lost <= Len(answers[s])
          /\ answers' = [answers EXCEPT ![s] = SubSeq(@, 1, Len(@) - lost)]
    /\ UNCHANGED <<disk, asked>>

(* The directory of a database disappears: the file system is outside.     *)
Remove(d) ==
    /\ disk' = disk \ {d}
    /\ UNCHANGED <<asked, answers, sessionDb, ended>>

Next ==
    \/ \E s \in Sessions : Submit(s) \/ Execute(s) \/ End(s)
    \/ \E d \in Dbs : Remove(d)

Spec == Init /\ [][Next]_vars
=============================================================================
