------------------------------- MODULE OltpServer -------------------------------
(***************************************************************************)
(* The SQL server process (server/main.cpp): the select() loop of the main *)
(* thread, the database worker thread, the two mutexes and the queue       *)
(* between them, and the clients at the other end of the sockets.          *)
(*                                                                         *)
(* A byte stream is a sequence of tokens.  A request line is its text (one *)
(* token, absent when the line is blank) and the newline that ends it, so  *)
(* recv() may stop in the middle of a line.                                *)
(*                                                                         *)
(* A definition that no action uses and that stands just before another    *)
(* one (as UninitializedConnection before NewConnection) is a mutant of    *)
(* it: a plausible mistake that some property of this module must catch.   *)
(***************************************************************************)
EXTENDS Naturals, Sequences, FiniteSets

CONSTANTS
    Dbs,        \* database names
    None,       \* the session value "none": no database selected
    MaxConns,   \* bound: connections ever accepted
    Quota,      \* bound: Quota[c] lines are sent by client c
    Kinds       \* bound: Kinds[c] are the kinds of lines client c sends (the shipped
                \* client sends no blank line)

ASSUME ServerAssumption ==
    /\ None \notin Dbs /\ Dbs # {}
    /\ MaxConns \in Nat \ {0}
    /\ Quota \in [1..MaxConns -> Nat]
    /\ Kinds \in [1..MaxConns -> SUBSET {"use", "create", "query", "exit", "blank"}]

VARIABLES
    connections,  \* ServerContext::connections, a partial function on ids
    nextId,       \* ServerContext::next_connection_id
    taskQueue,    \* ServerContext::task_queue
    worker,       \* the database worker: program counter and locals
    mgrDb,        \* DatabaseManager::current_db
    disk,         \* the database directories that exist
    loop,         \* the select() loop: program counter, fd_sets, iterator
    wire,         \* wire[c]: tokens sent by client c, not yet received
    peerOpen,     \* the clients that have not closed their socket
    sent,         \* sent[c]: the statements client c has sent
    lines,        \* lines[c]: how many lines client c has sent
    delivered     \* delivered[c]: answers sent to c in full

envVars == <<wire, peerOpen, sent, lines, delivered>>
vars == <<connections, nextId, taskQueue, worker, mgrDb, disk, loop,
          wire, peerOpen, sent, lines, delivered>>

Ids == 1..MaxConns
Ops == {"use", "create", "query"}
Token == [op : Ops \union {"exit", "nl"}, db : Dbs, n : Nat]
Reply == [n : Nat, ok : BOOLEAN, ran : Dbs \union {None},
          cur : Dbs \union {None}]
NoReply == [n |-> 0, ok |-> FALSE, ran |-> None, cur |-> None]

Connection == [state : {"IDLE", "READING", "PENDING_RESULT", "WRITING", "CLOSED"},
               recv_buffer : Seq(Token),
               current_db : Dbs \union {None},
               response : Reply,
               send_offset : 0..1]

UninitializedConnection == [state |-> "IDLE", recv_buffer |-> <<>>, current_db |-> "",
                            response |-> NoReply, send_offset |-> 0]
NewConnection == [state |-> "IDLE", recv_buffer |-> <<>>, current_db |-> None,
                  response |-> NoReply, send_offset |-> 0]

AnyDb == CHOOSE d \in Dbs : TRUE
Newline == [op |-> "nl", db |-> AnyDb, n |-> 0]
IsNewline(t) == t.op = "nl"
NoTask == [id |-> 1, stmt |-> Newline]

Init ==
    /\ connections = [c \in {} |-> NewConnection]
    /\ nextId = 1
    /\ taskQueue = <<>>
    /\ worker = [pc |-> "wait", task |-> NoTask, reply |-> NoReply]
    /\ mgrDb = None
    /\ disk \in SUBSET Dbs
    /\ loop = [pc |-> "snapshot", rd |-> {}, wr |-> {}, todo |-> {}]
    /\ wire = [c \in Ids |-> <<>>]
    /\ peerOpen = {}
    /\ sent = [c \in Ids |-> <<>>]
    /\ lines = [c \in Ids |-> 0]
    /\ delivered = [c \in Ids |-> <<>>]

-----------------------------------------------------------------------------
(* The main thread holds conn_mutex from the first connection it serves to *)
(* the erasure of the closed ones.                                         *)
MainHoldsConnMutex == loop.pc = "serve"
Live(c) == c \in DOMAIN connections /\ connections[c].state # "CLOSED"
InState(S) == {c \in DOMAIN connections : connections[c].state \in S}

(* The states in which the loop waits for input of a connection.           *)
ReadingStates == {"IDLE", "READING"}

-----------------------------------------------------------------------------
(* The clients and the file system.                                        *)

SendLine(c, text) ==
    /\ c \in peerOpen
    /\ lines[c] < Quota[c]
    /\ wire' = [wire EXCEPT ![c] = @ \o text \o <<Newline>>]
    /\ lines' = [lines EXCEPT ![c] = @ + 1]

ClientStatement(c) ==
    /\ \E op \in Ops \intersect Kinds[c], d \in Dbs :
          LET stmt == [op |-> op, db |-> d, n |-> Len(sent[c]) + 1]
          IN  /\ op = "query" => d = AnyDb
              /\ SendLine(c, <<stmt>>)
              /\ sent' = [sent EXCEPT ![c] = Append(@, stmt)]
    /\ UNCHANGED <<connections, nextId, taskQueue, worker, mgrDb, disk, loop,
                   peerOpen, delivered>>

ClientBlankLine(c) ==
    /\ "blank" \in Kinds[c]
    /\ SendLine(c, <<>>)
    /\ UNCHANGED <<connections, nextId, taskQueue, worker, mgrDb, disk, loop,
                   peerOpen, sent, delivered>>

ClientExit(c) ==
    /\ "exit" \in Kinds[c]
    /\ SendLine(c, <<[op |-> "exit", db |-> AnyDb, n |-> 0]>>)
    /\ UNCHANGED <<connections, nextId, taskQueue, worker, mgrDb, disk, loop,
                   peerOpen, sent, delivered>>

ClientClose(c) ==
    /\ c \in peerOpen
    /\ peerOpen' = peerOpen \ {c}
    /\ UNCHANGED <<connections, nextId, taskQueue, worker, mgrDb, disk, loop,
                   wire, sent, lines, delivered>>

(* The server never removes a database directory itself (no SQL statement  *)
(* reaches drop_db); someone else may.                                     *)
DirectoryRemoved(d) ==
    /\ d \in disk
    /\ disk' = disk \ {d}
    /\ UNCHANGED <<connections, nextId, taskQueue, worker, mgrDb, loop, envVars>>

-----------------------------------------------------------------------------
(* The select() loop of the main thread.                                   *)

SnapshotForReading ==
    /\ loop.pc = "snapshot"
    /\ loop' = [loop EXCEPT !.pc = "select",
                            !.rd = InState(ReadingStates),
                            !.wr = {}]
    /\ UNCHANGED <<connections, nextId, taskQueue, worker, mgrDb, disk, envVars>>

Snapshot ==
    /\ loop.pc = "snapshot"
    /\ loop' = [loop EXCEPT !.pc = "select",
                            !.rd = InState(ReadingStates),
                            !.wr = InState({"WRITING"})]
    /\ UNCHANGED <<connections, nextId, taskQueue, worker, mgrDb, disk, envVars>>

ReadReady == {c \in loop.rd : wire[c] # <<>> \/ c \notin peerOpen}

(* select() keeps the sockets that are ready; with none (a timeout) the    *)
(* loop starts over.  A new client makes the listening socket ready.       *)
Select ==
    /\ loop.pc = "select"
    /\ \E accepting \in BOOLEAN :
          /\ accepting => nextId <= MaxConns
          /\ loop' = [loop EXCEPT
                !.pc = IF accepting THEN "accept"
                       ELSE IF ReadReady \union loop.wr = {} THEN "snapshot"
                       ELSE "serve",
                !.rd = ReadReady,
                !.todo = IF accepting THEN {} ELSE ReadReady \union loop.wr]
    /\ UNCHANGED <<connections, nextId, taskQueue, worker, mgrDb, disk, envVars>>

(* A connection accepted now is not in the fd_sets of this iteration.      *)
Accept ==
    /\ loop.pc = "accept"
    /\ connections' = [c \in DOMAIN connections \union {nextId} |->
                          IF c = nextId THEN NewConnection ELSE connections[c]]
    /\ nextId' = nextId + 1
    /\ peerOpen' = peerOpen \union {nextId}
    /\ loop' = [loop EXCEPT !.pc = "serve", !.todo = loop.rd \union loop.wr]
    /\ UNCHANGED <<taskQueue, worker, mgrDb, disk, wire, sent, lines, delivered>>

Served(c) == loop' = [loop EXCEPT !.todo = @ \ {c}]

(* What the loop does with a connection after it took a line: close it,    *)
(* queue the statement, or go back to IDLE when the line is blank.         *)
Closed(conn) == [conn EXCEPT !.state = "CLOSED"]
AfterLineStillReading(conn, text, rest) ==
    [conn EXCEPT !.recv_buffer = rest,
                 !.state = IF text = <<>> THEN "IDLE"
                           ELSE IF text[1].op = "exit" THEN "CLOSED"
                           ELSE "READING"]
AfterLine(conn, text, rest) ==
    [conn EXCEPT !.recv_buffer = rest,
                 !.state = IF text = <<>> THEN "IDLE"
                           ELSE IF text[1].op = "exit" THEN "CLOSED"
                           ELSE "PENDING_RESULT"]
QueueAfterLine(c, text) ==
    IF text # <<>> /\ text[1].op # "exit"
    THEN Append(taskQueue, [id |-> c, stmt |-> text[1]])
    ELSE taskQueue

(* The first line of a buffer, without its newline; what is left after it. *)
HasLine(buf) == \E i \in DOMAIN buf : IsNewline(buf[i])
FirstLine(buf) == IF IsNewline(buf[1]) THEN <<>> ELSE <<buf[1]>>
BufferCleared(buf) == <<>>
AfterFirstLine(buf) == SubSeq(buf, Len(FirstLine(buf)) + 2, Len(buf))

(* A readable connection: recv() takes part of what has arrived and one    *)
(* line is handled.  A blank line makes the connection IDLE, and what the  *)
(* buffer still holds is not looked at until more arrives.                 *)
ServeRead(c) ==
    /\ loop.pc = "serve"
    /\ c \in loop.todo \intersect loop.rd
    /\ connections[c].state \in ReadingStates
    /\ wire[c] # <<>>
    /\ \E k \in 1..Len(wire[c]) :
          LET buf  == connections[c].recv_buffer \o SubSeq(wire[c], 1, k)
              conn == [connections[c] EXCEPT !.state = "READING", !.recv_buffer = buf]
              text == FirstLine(buf)
          IN  /\ wire' = [wire EXCEPT ![c] = SubSeq(@, k + 1, Len(@))]
              /\ connections' = [connections EXCEPT ![c] =
                    IF HasLine(buf) THEN AfterLine(conn, text, AfterFirstLine(buf))
                    ELSE conn]
              /\ taskQueue' = IF HasLine(buf) THEN QueueAfterLine(c, text) ELSE taskQueue
    /\ Served(c)
    /\ UNCHANGED <<nextId, worker, mgrDb, disk, peerOpen, sent, lines, delivered>>

(* recv() reports the end of the stream.                                   *)
ServeHangup(c) ==
    /\ loop.pc = "serve"
    /\ c \in loop.todo \intersect loop.rd
    /\ connections[c].state \in ReadingStates
    /\ wire[c] = <<>> /\ c \notin peerOpen
    /\ connections' = [connections EXCEPT ![c] = Closed(@)]
    /\ Served(c)
    /\ UNCHANGED <<nextId, taskQueue, worker, mgrDb, disk, envVars>>

(* recv() would block after all: only the state changes.                   *)
ServeNothing(c) ==
    /\ loop.pc = "serve"
    /\ c \in loop.todo \intersect loop.rd
    /\ connections[c].state \in ReadingStates
    /\ connections' = [connections EXCEPT ![c].state = "READING"]
    /\ Served(c)
    /\ UNCHANGED <<nextId, taskQueue, worker, mgrDb, disk, envVars>>

(* After a whole response the buffer is searched for the next statement;   *)
(* blank lines on the way are dropped.                                     *)
TextAt(buf) == {i \in 1..(Len(buf) - 1) : /\ ~IsNewline(buf[i])
                                          /\ \A j \in 1..(i - 1) : IsNewline(buf[j])}
FirstText(buf) == CHOOSE i \in TextAt(buf) : TRUE
NextText(buf) == IF TextAt(buf) = {} THEN <<>> ELSE <<buf[FirstText(buf)]>>
UnfinishedLineDropped(buf) == <<>>
UnfinishedLine(buf) == IF buf = <<>> \/ IsNewline(buf[Len(buf)]) THEN <<>>
                       ELSE <<buf[Len(buf)]>>
AfterNextText(buf) == IF TextAt(buf) = {} THEN UnfinishedLine(buf)
                      ELSE SubSeq(buf, FirstText(buf) + 2, Len(buf))

(* A writable connection: send() takes the rest of the response, or a part *)
(* of it only.                                                             *)
ServeWriteAll(c) ==
    /\ loop.pc = "serve"
    /\ c \in loop.todo \intersect loop.wr
    /\ connections[c].state = "WRITING"
    /\ LET buf  == connections[c].recv_buffer
           conn == [connections[c] EXCEPT !.response = NoReply, !.send_offset = 0]
       IN  /\ connections' = [connections EXCEPT ![c] =
                 AfterLine(conn, NextText(buf), AfterNextText(buf))]
           /\ taskQueue' = QueueAfterLine(c, NextText(buf))
    /\ delivered' = [delivered EXCEPT ![c] = Append(@, connections[c].response)]
    /\ Served(c)
    /\ UNCHANGED <<nextId, worker, mgrDb, disk, wire, peerOpen, sent, lines>>

ServeWritePart(c) ==
    /\ loop.pc = "serve"
    /\ c \in loop.todo \intersect loop.wr
    /\ connections[c].state = "WRITING"
    /\ connections' = [connections EXCEPT ![c].send_offset = 1]
    /\ Served(c)
    /\ UNCHANGED <<nextId, taskQueue, worker, mgrDb, disk, envVars>>

(* send() fails because the client is gone.                                *)
ServeWriteError(c) ==
    /\ loop.pc = "serve"
    /\ c \in loop.todo \intersect loop.wr
    /\ connections[c].state = "WRITING"
    /\ c \notin peerOpen
    /\ connections' = [connections EXCEPT ![c] = Closed(@)]
    /\ Served(c)
    /\ UNCHANGED <<nextId, taskQueue, worker, mgrDb, disk, envVars>>

(* to_remove is erased and conn_mutex released.  The sockets are closed;   *)
(* what they held is gone.                                                 *)
EraseClosed ==
    /\ loop.pc = "serve"
    /\ loop.todo = {}
    /\ connections' = [c \in DOMAIN connections \ InState({"CLOSED"}) |-> connections[c]]
    /\ peerOpen' = peerOpen \ InState({"CLOSED"})
    /\ wire' = [c \in Ids |-> IF c \in InState({"CLOSED"}) THEN <<>> ELSE wire[c]]
    /\ loop' = [loop EXCEPT !.pc = "snapshot", !.rd = {}, !.wr = {}]
    /\ UNCHANGED <<nextId, taskQueue, worker, mgrDb, disk, sent, lines, delivered>>

-----------------------------------------------------------------------------
(* The database worker thread.                                             *)

conn_id == worker.task.id
stmt    == worker.task.stmt

PopTask ==
    /\ worker.pc = "wait"
    /\ taskQueue # <<>>
    /\ worker' = [worker EXCEPT !.pc = "lookup", !.task = Head(taskQueue)]
    /\ taskQueue' = Tail(taskQueue)
    /\ UNCHANGED <<connections, nextId, mgrDb, disk, loop, envVars>>

(* Under conn_mutex; the pointer found is used after it is released.       *)
Lookup ==
    /\ worker.pc = "lookup"
    /\ ~MainHoldsConnMutex
    /\ worker' = [worker EXCEPT !.pc = IF conn_id \in DOMAIN connections
                                       THEN "use" ELSE "wait"]
    /\ UNCHANGED <<connections, nextId, taskQueue, mgrDb, disk, loop, envVars>>

(* The session's database becomes the manager's current one.  Without the  *)
(* mutex: reads conn->current_db through the pointer.                      *)
UseSessionDbUnlessNone ==
    /\ worker.pc = "use"
    /\ connections[conn_id].current_db \in disk \union {None}
    /\ mgrDb' = IF connections[conn_id].current_db = None THEN mgrDb
                ELSE connections[conn_id].current_db
    /\ worker' = [worker EXCEPT !.pc = "run"]
    /\ UNCHANGED <<connections, nextId, taskQueue, disk, loop, envVars>>

UseSessionDb ==
    /\ worker.pc = "use"
    /\ connections[conn_id].current_db \in disk \union {None}
    /\ mgrDb' = connections[conn_id].current_db
    /\ worker' = [worker EXCEPT !.pc = "run"]
    /\ UNCHANGED <<connections, nextId, taskQueue, disk, loop, envVars>>

SessionDbMissing ==
    /\ worker.pc = "use"
    /\ connections[conn_id].current_db \notin disk \union {None}
    /\ worker' = [worker EXCEPT !.pc = "store",
                     !.reply = [n |-> stmt.n, ok |-> FALSE, cur |-> None,
                                ran |-> connections[conn_id].current_db]]
    /\ UNCHANGED <<connections, nextId, taskQueue, mgrDb, disk, loop, envVars>>

(* run_query, one statement in the manager's current database.  Without    *)
(* the mutex: conn->current_db is written through the pointer on success,  *)
(* read on failure.                                                        *)
Succeeds ==
    CASE stmt.op = "use"    -> {stmt.db \in disk}
      [] stmt.op = "create" -> {stmt.db \notin disk}
      [] OTHER              -> IF mgrDb = None THEN {FALSE} ELSE BOOLEAN

RunQueryAnswering ==
    /\ worker.pc = "run"
    /\ \E ok \in Succeeds :
          LET db  == IF ok /\ stmt.op = "use" THEN stmt.db ELSE mgrDb
              cur == IF ok THEN db ELSE connections[conn_id].current_db
          IN  /\ mgrDb' = db
              /\ disk' = IF ok /\ stmt.op = "create" THEN disk \union {stmt.db} ELSE disk
              /\ connections' = [connections EXCEPT ![conn_id].current_db = cur,
                                                    ![conn_id].state = "WRITING"]
              /\ worker' = [worker EXCEPT !.pc = "store",
                     !.reply = [n |-> stmt.n, ok |-> ok, ran |-> mgrDb, cur |-> cur]]
    /\ UNCHANGED <<nextId, taskQueue, loop, envVars>>

RunQuery ==
    /\ worker.pc = "run"
    /\ \E ok \in Succeeds :
          LET db  == IF ok /\ stmt.op = "use" THEN stmt.db ELSE mgrDb
              cur == IF ok THEN db ELSE connections[conn_id].current_db
          IN  /\ mgrDb' = db
              /\ disk' = IF ok /\ stmt.op = "create" THEN disk \union {stmt.db} ELSE disk
              /\ connections' = [connections EXCEPT ![conn_id].current_db = cur]
              /\ worker' = [worker EXCEPT !.pc = "store",
                     !.reply = [n |-> stmt.n, ok |-> ok, ran |-> mgrDb, cur |-> cur]]
    /\ UNCHANGED <<nextId, taskQueue, loop, envVars>>

(* Under conn_mutex: the response is handed to the main thread.            *)
StoreResponse ==
    /\ worker.pc = "store"
    /\ ~MainHoldsConnMutex
    /\ connections' = IF conn_id \in DOMAIN connections
                      THEN [connections EXCEPT ![conn_id].response = worker.reply,
                                               ![conn_id].send_offset = 0,
                                               ![conn_id].state = "WRITING"]
                      ELSE connections
    /\ worker' = [worker EXCEPT !.pc = "wait", !.task = NoTask, !.reply = NoReply]
    /\ UNCHANGED <<nextId, taskQueue, mgrDb, disk, loop, envVars>>

-----------------------------------------------------------------------------
ServeConnection(c) ==
    \/ ServeRead(c) \/ ServeHangup(c) \/ ServeNothing(c)
    \/ ServeWriteAll(c) \/ ServeWritePart(c) \/ ServeWriteError(c)

MainLoop ==
    \/ Snapshot \/ Select \/ Accept \/ EraseClosed
    \/ \E c \in Ids : ServeConnection(c)

DbWorker ==
    \/ PopTask \/ Lookup \/ UseSessionDb \/ SessionDbMissing
    \/ RunQuery \/ StoreResponse

Environment ==
    \/ \E c \in Ids : ClientStatement(c) \/ ClientBlankLine(c) \/ ClientExit(c) \/ ClientClose(c)
    \/ \E d \in Dbs : DirectoryRemoved(d)

Next == MainLoop \/ DbWorker \/ Environment

Spec == Init /\ [][Next]_vars

(* Both threads keep running: they hold no lock forever and every wait has *)
(* a timeout or a notification.  A socket that select() reports readable   *)
(* again and again is read in the end.                                     *)
Fairness ==
    /\ WF_vars(MainLoop)
    /\ WF_vars(DbWorker)
    /\ SF_vars(Lookup) /\ SF_vars(StoreResponse)
    /\ \A c \in Ids : SF_vars(ServeRead(c) \/ ServeHangup(c))

(* What the clients owe, and the code cannot force: a client whose answer  *)
(* is being sent reads its socket in the end, or hangs up.  Of one that    *)
(* does neither, send() takes nothing for ever, and its connection stays   *)
(* in WRITING.                                                             *)
ClientsReadOrHangUp ==
    \A c \in Ids : SF_vars(ServeWriteAll(c) \/ ServeWriteError(c))

FairSpec == Spec /\ Fairness /\ ClientsReadOrHangUp
-----------------------------------------------------------------------------
(* Properties.                                                             *)

Task == [id : Ids, stmt : Token]

(* Every variable has the shape its declaration in main.cpp gives it.      *)
TypeOK ==
    /\ DOMAIN connections \subseteq Ids
    /\ connections \in [DOMAIN connections -> Connection]
    /\ nextId \in 1..(MaxConns + 1)
    /\ taskQueue \in Seq(Task)
    /\ worker \in [pc : {"wait", "lookup", "use", "run", "store"},
                   task : Task, reply : Reply]
    /\ mgrDb \in Dbs \union {None}
    /\ disk \subseteq Dbs
    /\ loop \in [pc : {"snapshot", "select", "accept", "serve"},
                 rd : SUBSET Ids, wr : SUBSET Ids, todo : SUBSET Ids]
    /\ wire \in [Ids -> Seq(Token)]
    /\ peerOpen \subseteq Ids
    /\ sent \in [Ids -> Seq(Token)]
    /\ lines \in [Ids -> Nat]
    /\ delivered \in [Ids -> Seq(Reply)]

(* The connections with a request under way: queued, or in the worker.     *)
QueuedIds == {taskQueue[i].id : i \in DOMAIN taskQueue}
WorkerIds == IF worker.pc = "wait" THEN {} ELSE {conn_id}

(* The worker keeps a raw Connection* across the release of conn_mutex     *)
(* (main.cpp:65-95).  The pointer never dangles, and nobody else touches   *)
(* the connection meanwhile: it stays in the map, PENDING_RESULT.          *)
WorkerPointerValid ==
    worker.pc # "wait" => conn_id \in InState({"PENDING_RESULT"})

(* A connection waits for a result exactly when one task of it is queued   *)
(* or being executed: no request is dropped between the two threads, and   *)
(* none is run twice.                                                      *)
OneTaskPerPending ==
    /\ InState({"PENDING_RESULT"}) = QueuedIds \union WorkerIds
    /\ QueuedIds \intersect WorkerIds = {}
    /\ \A i, j \in DOMAIN taskQueue : taskQueue[i].id = taskQueue[j].id => i = j

(* What became of the statements of a connection, oldest first: answered,  *)
(* taken (being answered, executed or queued), buffered, on the wire.      *)
Taken(c) ==
    Len(delivered[c]) + (IF connections[c].state \in {"PENDING_RESULT", "WRITING"} THEN 1 ELSE 0)
TasksOf(c) ==
    {taskQueue[i].stmt : i \in {j \in DOMAIN taskQueue : taskQueue[j].id = c}}
    \union (IF c \in WorkerIds THEN {stmt} ELSE {})
Stream(c) == connections[c].recv_buffer \o wire[c]
StatementsIn(tokens) == {i \in DOMAIN tokens : tokens[i].op \in Ops}

(* These tokens hold the statements of asked after the first k, in order.  *)
HoldsAfter(tokens, k, asked) ==
    /\ {tokens[i].n : i \in StatementsIn(tokens)} = (k + 1)..Len(asked)
    /\ \A i, j \in StatementsIn(tokens) : i < j => tokens[i].n < tokens[j].n
    /\ \A i \in StatementsIn(tokens) : tokens[i] = asked[tokens[i].n]

(* Statements of a live connection are neither lost, nor repeated, nor     *)
(* reordered, nor changed, from the client's send to the answer it reads.  *)
StatementsConserved ==
    \A c \in DOMAIN connections : Live(c) =>
        /\ Taken(c) <= Len(sent[c])
        /\ \A i \in DOMAIN delivered[c] : delivered[c][i].n = i
        /\ connections[c].state = "WRITING" => connections[c].response.n = Taken(c)
        /\ \A task \in TasksOf(c) : task = sent[c][Taken(c)]
        /\ HoldsAfter(Stream(c), Taken(c), sent[c])

(* Every statement a client sends is answered, or its connection ends: of  *)
(* clients that read their answers or hang up, and send no blank lines     *)
(* (ServeRead, above).                                                     *)
Ended(c) == c < nextId /\ c \notin DOMAIN connections
EveryStatementAnswered ==
    \A c \in Ids : \A k \in 1..Quota[c] :
        Len(sent[c]) >= k ~> Len(delivered[c]) >= k \/ Ended(c)
=============================================================================
