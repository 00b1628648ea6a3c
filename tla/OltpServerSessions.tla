----------------------------- MODULE OltpServerSessions -----------------------------
(***************************************************************************)
(* The refinement of SqlSessions by OltpServer: an answer exists from the  *)
(* worker's RunQuery on, a session ends when its connection is closed.     *)
(***************************************************************************)
EXTENDS OltpServer

AnswerOf(r) == [n |-> r.n, ok |-> r.ok, ran |-> r.ran]

(* The answers a connection has got, and the one that is on its way to it: *)
(* still in the worker, or in the connection's response.                   *)
Delivered(c) == [i \in DOMAIN delivered[c] |-> AnswerOf(delivered[c][i])]
OnItsWay(c) ==
    IF worker.pc = "store" /\ conn_id = c THEN <<AnswerOf(worker.reply)>>
    ELSE IF c \in InState({"WRITING"}) THEN <<AnswerOf(connections[c].response)>>
    ELSE <<>>
Answers(c) == Delivered(c) \o OnItsWay(c)

SessionDb(c) == IF Live(c) THEN connections[c].current_db ELSE None

Sessions == INSTANCE SqlSessions WITH
    Sessions  <- Ids,
    asked     <- sent,
    answers   <- [c \in Ids |-> Answers(c)],
    sessionDb <- [c \in Ids |-> SessionDb(c)],
    ended     <- {c \in Ids : c < nextId /\ ~Live(c)}

(* The server behaves, to each of its sessions, as if statements were      *)
(* executed one by one in the session's own database: the sharing of one   *)
(* DatabaseManager by all connections is invisible.                        *)
SessionsAreIsolated == Sessions!Spec
=============================================================================
