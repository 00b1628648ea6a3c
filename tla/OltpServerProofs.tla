----------------------------- MODULE OltpServerProofs -----------------------------
(***************************************************************************)
(* Proofs about OltpServer, for any number of connections, databases and   *)
(* lines: the queue, the worker and the connection states stay in step, so *)
(* the pointer that the worker uses without the mutex never dangles; the   *)
(* server conserves the statements of its clients; and it implements       *)
(* SqlSessions (the refinement of OltpServerSessions).                     *)
(***************************************************************************)
EXTENDS OltpServerSessions, SequenceTheorems, WellFoundedInduction, TLAPS

(* What the main thread remembers of the connections stays true: ids are   *)
(* handed out once, and the fd_sets and the iteration name connections of  *)
(* the map.                                                                *)
LoopInvariant ==
    /\ DOMAIN connections \subseteq 1..(nextId - 1)
    /\ loop.rd \union loop.wr \union loop.todo \subseteq DOMAIN connections
    /\ loop.pc = "accept" => nextId <= MaxConns

(* OneTaskPerPending, one direction per conjunct.                          *)
PendingHasTask == InState({"PENDING_RESULT"}) \subseteq QueuedIds \union WorkerIds
TaskIsPending == QueuedIds \union WorkerIds \subseteq InState({"PENDING_RESULT"})
TasksDistinct ==
    /\ QueuedIds \intersect WorkerIds = {}
    /\ \A i, j \in DOMAIN taskQueue : taskQueue[i].id = taskQueue[j].id => i = j

IInv ==
    /\ TypeOK
    /\ LoopInvariant
    /\ PendingHasTask
    /\ TaskIsPending
    /\ TasksDistinct

-----------------------------------------------------------------------------
(* Tokens and buffers.                                                     *)

LEMMA ConstantTypes ==
    /\ AnyDb \in Dbs /\ Newline \in Token /\ NoReply \in Reply
    /\ 1 \in Ids /\ NoTask \in Task /\ NewConnection \in Connection
<1>1. AnyDb \in Dbs
  BY ServerAssumption DEF AnyDb
<1>2. 1 \in Ids
  BY ServerAssumption DEF Ids
<1>3. Newline \in Token
  BY <1>1 DEF Newline, Token
<1>4. NoReply \in Reply
  BY DEF NoReply, Reply
<1>5. NoTask \in Task
  BY <1>2, <1>3 DEF NoTask, Task
<1>6. NewConnection \in Connection
  BY <1>4, EmptySeq DEF NewConnection, Connection
<1> QED
  BY <1>1, <1>2, <1>3, <1>4, <1>5, <1>6

(* A text is no token or one.                                              *)
Texts == {<<>>} \union {<<t>> : t \in Token}

LEMMA LineTypes ==
    ASSUME NEW buf \in Seq(Token), HasLine(buf)
    PROVE  FirstLine(buf) \in Texts /\ AfterFirstLine(buf) \in Seq(Token)
<1>1. 1 \in DOMAIN buf /\ buf[1] \in Token /\ Len(buf) \in Nat
  BY DEF HasLine
<1>2. FirstLine(buf) \in Texts
  BY <1>1 DEF FirstLine, Texts
<1>3. Len(FirstLine(buf)) \in {0, 1}
  BY <1>1 DEF FirstLine
<1>4. AfterFirstLine(buf) \in Seq(Token)
  BY <1>1, <1>3, SubSeqProperties DEF AfterFirstLine
<1> QED
  BY <1>2, <1>4

LEMMA NextTextTypes ==
    ASSUME NEW buf \in Seq(Token)
    PROVE  NextText(buf) \in Texts /\ AfterNextText(buf) \in Seq(Token)
<1>1. CASE TextAt(buf) = {}
  <2>1. NextText(buf) \in Texts
    BY <1>1 DEF NextText, Texts
  <2>2. UnfinishedLine(buf) \in Seq(Token)
    <3>1. CASE buf = <<>>
      BY <3>1 DEF UnfinishedLine
    <3>2. CASE buf # <<>>
      <4>1. buf[Len(buf)] \in Token
        BY <3>2
      <4> QED
        BY <4>1 DEF UnfinishedLine
    <3> QED
      BY <3>1, <3>2
  <2> QED
    BY <1>1, <2>1, <2>2 DEF AfterNextText
<1>2. CASE TextAt(buf) # {}
  <2>1. FirstText(buf) \in 1..(Len(buf) - 1)
    BY <1>2 DEF FirstText, TextAt
  <2>2. NextText(buf) \in Texts
    BY <1>2, <2>1, ElementOfSeq DEF NextText, Texts
  <2>3. AfterNextText(buf) \in Seq(Token)
    BY <1>2, <2>1, SubSeqProperties DEF AfterNextText
  <2> QED
    BY <2>2, <2>3
<1> QED
  BY <1>1, <1>2

-----------------------------------------------------------------------------
(* The effect on the invariant of what the steps have in common.           *)

QueueInv == PendingHasTask /\ TaskIsPending /\ TasksDistinct

(* Without a change to the queue, the worker and the states of the         *)
(* connections, the correspondence stays.                                  *)
LEMMA SameStates ==
    ASSUME QueueInv, taskQueue' = taskQueue, WorkerIds' = WorkerIds,
           InState({"PENDING_RESULT"})' = InState({"PENDING_RESULT"})
    PROVE  QueueInv'
BY DEF QueueInv, PendingHasTask, TaskIsPending, TasksDistinct, QueuedIds

(* The queue of tasks, seen as a set, after an Append or a Tail.           *)
LEMMA QueuedAfterAppend ==
    ASSUME taskQueue \in Seq(Task), NEW t \in Task, taskQueue' = Append(taskQueue, t)
    PROVE  /\ taskQueue' \in Seq(Task)
           /\ QueuedIds' = QueuedIds \union {t.id}
           /\ (t.id \notin QueuedIds /\
               \A i, j \in DOMAIN taskQueue : taskQueue[i].id = taskQueue[j].id => i = j)
              => \A i, j \in DOMAIN taskQueue' : taskQueue'[i].id = taskQueue'[j].id => i = j
<1>1. /\ taskQueue' \in Seq(Task)
      /\ DOMAIN taskQueue' = DOMAIN taskQueue \union {Len(taskQueue) + 1}
      /\ \A i \in DOMAIN taskQueue : taskQueue'[i] = taskQueue[i]
      /\ taskQueue'[Len(taskQueue) + 1] = t
      /\ Len(taskQueue) + 1 \notin DOMAIN taskQueue
  BY AppendProperties
<1>2. QueuedIds' = QueuedIds \union {t.id}
  BY <1>1 DEF QueuedIds
<1>3. ASSUME t.id \notin QueuedIds,
             \A i, j \in DOMAIN taskQueue : taskQueue[i].id = taskQueue[j].id => i = j,
             NEW i \in DOMAIN taskQueue', NEW j \in DOMAIN taskQueue',
             taskQueue'[i].id = taskQueue'[j].id
      PROVE  i = j
  BY <1>1, <1>3 DEF QueuedIds
<1> QED
  BY <1>1, <1>2, <1>3

LEMMA QueuedAfterTail ==
    ASSUME taskQueue \in Seq(Task), taskQueue # <<>>, taskQueue' = Tail(taskQueue),
           \A i, j \in DOMAIN taskQueue : taskQueue[i].id = taskQueue[j].id => i = j
    PROVE  /\ taskQueue' \in Seq(Task)
           /\ Head(taskQueue) \in Task
           /\ QueuedIds = QueuedIds' \union {Head(taskQueue).id}
           /\ Head(taskQueue).id \notin QueuedIds'
           /\ \A i, j \in DOMAIN taskQueue' : taskQueue'[i].id = taskQueue'[j].id => i = j
<1>1. /\ taskQueue' \in Seq(Task) /\ Head(taskQueue) \in Task
      /\ Len(taskQueue') = Len(taskQueue) - 1
      /\ \A i \in 1..Len(taskQueue') : taskQueue'[i] = taskQueue[i + 1]
  BY HeadTailProperties
<1>2. /\ Len(taskQueue) \in Nat \ {0} /\ DOMAIN taskQueue = 1..Len(taskQueue)
      /\ DOMAIN taskQueue' = 1..(Len(taskQueue) - 1)
      /\ Head(taskQueue) = taskQueue[1]
  BY <1>1, EmptySeq
<1>3. \A i \in DOMAIN taskQueue' : taskQueue'[i] = taskQueue[i + 1] /\ i + 1 \in DOMAIN taskQueue
  BY <1>1, <1>2
<1>4. \A i \in DOMAIN taskQueue : i # 1 =>
          i - 1 \in DOMAIN taskQueue' /\ taskQueue'[i - 1] = taskQueue[i]
  BY <1>1, <1>2
<1>5. QueuedIds = QueuedIds' \union {Head(taskQueue).id}
  <2>1. QueuedIds' \union {Head(taskQueue).id} \subseteq QueuedIds
    BY <1>2, <1>3 DEF QueuedIds
  <2>2. ASSUME NEW i \in DOMAIN taskQueue
        PROVE  taskQueue[i].id \in QueuedIds' \union {Head(taskQueue).id}
    <3>1. CASE i = 1
      BY <3>1, <1>2
    <3>2. CASE i # 1
      BY <3>2, <1>4 DEF QueuedIds
    <3> QED
      BY <3>1, <3>2
  <2>3. ASSUME NEW x \in QueuedIds
        PROVE  x \in QueuedIds' \union {Head(taskQueue).id}
    <3>1. PICK i \in DOMAIN taskQueue : x = taskQueue[i].id
      BY DEF QueuedIds
    <3> QED
      BY <3>1, <2>2
  <2> QED
    BY <2>1, <2>3
<1>6. Head(taskQueue).id \notin QueuedIds'
  <2> SUFFICES ASSUME NEW i \in DOMAIN taskQueue', taskQueue'[i].id = taskQueue[1].id
               PROVE  FALSE
    BY <1>2 DEF QueuedIds
  <2> QED
    BY <1>2, <1>3
<1>7. ASSUME NEW i \in DOMAIN taskQueue', NEW j \in DOMAIN taskQueue',
             taskQueue'[i].id = taskQueue'[j].id
      PROVE  i = j
  BY <1>2, <1>3, <1>7
<1> QED
  BY <1>1, <1>5, <1>6, <1>7

(* The main thread serves one connection: a connection that had nothing    *)
(* under way gets a new state, and a task exactly when it is pending then. *)
LEMMA ServeStep ==
    ASSUME IInv, NEW c \in loop.todo, connections[c].state # "PENDING_RESULT",
           NEW r \in Connection, connections' = [connections EXCEPT ![c] = r], Served(c),
           nextId' = nextId, worker' = worker,
           \/ r.state # "PENDING_RESULT" /\ taskQueue' = taskQueue
           \/ r.state = "PENDING_RESULT" /\
              \E t \in Token : taskQueue' = Append(taskQueue, [id |-> c, stmt |-> t])
    PROVE  /\ LoopInvariant' /\ QueueInv'
           /\ DOMAIN connections' \subseteq Ids
           /\ connections' \in [DOMAIN connections' -> Connection]
           /\ taskQueue' \in Seq(Task)
           /\ loop' \in [pc : {"snapshot", "select", "accept", "serve"},
                         rd : SUBSET Ids, wr : SUBSET Ids, todo : SUBSET Ids]
<1>1. /\ c \in DOMAIN connections /\ c \in Ids
      /\ DOMAIN connections' = DOMAIN connections
      /\ DOMAIN connections' \subseteq Ids
      /\ connections' \in [DOMAIN connections' -> Connection]
      /\ connections'[c] = r
      /\ \A d \in DOMAIN connections \ {c} : connections'[d] = connections[d]
  BY DEF IInv, LoopInvariant, TypeOK
<1>2. /\ loop'.pc = loop.pc /\ loop'.rd = loop.rd /\ loop'.wr = loop.wr
      /\ loop'.todo = loop.todo \ {c}
      /\ loop' \in [pc : {"snapshot", "select", "accept", "serve"},
                    rd : SUBSET Ids, wr : SUBSET Ids, todo : SUBSET Ids]
  BY DEF IInv, TypeOK, Served
<1>3. LoopInvariant'
  BY <1>1, <1>2 DEF IInv, LoopInvariant
<1>4. c \notin InState({"PENDING_RESULT"}) /\ WorkerIds' = WorkerIds
  BY DEF InState, WorkerIds, conn_id
<1>5. c \notin QueuedIds \union WorkerIds
  BY <1>4 DEF IInv, TaskIsPending
<1>6. ASSUME r.state # "PENDING_RESULT", taskQueue' = taskQueue
      PROVE  QueueInv' /\ taskQueue' \in Seq(Task)
  <2>1. InState({"PENDING_RESULT"})' = InState({"PENDING_RESULT"})
    BY <1>1, <1>4, <1>6 DEF InState
  <2> QED
    BY <1>4, <1>6, <2>1, SameStates DEF IInv, QueueInv, TypeOK
<1>7. ASSUME NEW t \in Token, r.state = "PENDING_RESULT",
             taskQueue' = Append(taskQueue, [id |-> c, stmt |-> t])
      PROVE  QueueInv' /\ taskQueue' \in Seq(Task)
  <2>1. InState({"PENDING_RESULT"})' = InState({"PENDING_RESULT"}) \union {c}
    BY <1>1, <1>7 DEF InState
  <2>2. [id |-> c, stmt |-> t] \in Task
    BY <1>1 DEF Task
  <2>3. /\ taskQueue' \in Seq(Task)
        /\ QueuedIds' = QueuedIds \union {c}
        /\ \A i, j \in DOMAIN taskQueue' : taskQueue'[i].id = taskQueue'[j].id => i = j
    BY <1>5, <1>7, <2>2, QueuedAfterAppend DEF IInv, TypeOK, TasksDistinct
  <2> QED
    BY <1>4, <1>5, <2>1, <2>3
    DEF IInv, QueueInv, PendingHasTask, TaskIsPending, TasksDistinct
<1>8. QueueInv' /\ taskQueue' \in Seq(Task)
  BY <1>6, <1>7
<1> QED
  BY <1>1, <1>2, <1>3, <1>8

(* What becomes of a connection and of the queue after a line.             *)
LEMMA AfterLineTypes ==
    ASSUME NEW c, NEW conn \in Connection, NEW text \in Texts, NEW rest \in Seq(Token)
    PROVE  /\ AfterLine(conn, text, rest) \in Connection
           /\ \/ /\ AfterLine(conn, text, rest).state # "PENDING_RESULT"
                 /\ QueueAfterLine(c, text) = taskQueue
              \/ /\ AfterLine(conn, text, rest).state = "PENDING_RESULT"
                 /\ \E t \in Token :
                       QueueAfterLine(c, text) = Append(taskQueue, [id |-> c, stmt |-> t])
<1>1. CASE text = <<>>
  BY <1>1 DEF AfterLine, QueueAfterLine, Connection
<1>2. CASE text # <<>>
  <2>1. PICK t \in Token : text = <<t>>
    BY <1>2 DEF Texts
  <2>2. text[1] = t
    BY <2>1
  <2>3. CASE t.op = "exit"
    BY <1>2, <2>2, <2>3 DEF AfterLine, QueueAfterLine, Connection
  <2>4. CASE t.op # "exit"
    BY <1>2, <2>2, <2>4 DEF AfterLine, QueueAfterLine, Connection
  <2> QED
    BY <2>3, <2>4
<1> QED
  BY <1>1, <1>2

-----------------------------------------------------------------------------
(* One lemma per action of the main thread.                                *)

LEMMA ServeReadInv ==
    ASSUME IInv, NEW c \in Ids, ServeRead(c)
    PROVE  IInv'
<1> DEFINE buf(k) == connections[c].recv_buffer \o SubSeq(wire[c], 1, k)
           conn(k) == [connections[c] EXCEPT !.state = "READING", !.recv_buffer = buf(k)]
           r(k) == IF HasLine(buf(k))
                   THEN AfterLine(conn(k), FirstLine(buf(k)), AfterFirstLine(buf(k)))
                   ELSE conn(k)
<1>1. /\ c \in loop.todo /\ c \in DOMAIN connections
      /\ connections[c] \in Connection /\ connections[c].state # "PENDING_RESULT"
      /\ wire[c] \in Seq(Token)
  BY DEF ServeRead, ReadingStates, IInv, TypeOK, LoopInvariant
<1>2. PICK k \in 1..Len(wire[c]) :
          /\ wire' = [wire EXCEPT ![c] = SubSeq(@, k + 1, Len(@))]
          /\ connections' = [connections EXCEPT ![c] = r(k)]
          /\ taskQueue' = IF HasLine(buf(k)) THEN QueueAfterLine(c, FirstLine(buf(k)))
                          ELSE taskQueue
  BY DEF ServeRead
<1>3. Served(c) /\ UNCHANGED <<nextId, worker, mgrDb, disk, peerOpen, sent, lines, delivered>>
  BY DEF ServeRead
<1>4. buf(k) \in Seq(Token)
  <2>1. SubSeq(wire[c], 1, k) \in Seq(Token) /\ connections[c].recv_buffer \in Seq(Token)
    BY <1>1, <1>2, SubSeqProperties DEF Connection
  <2> QED
    BY <2>1, ConcatProperties
<1>5. conn(k) \in Connection /\ conn(k).state = "READING"
  BY <1>1, <1>4 DEF Connection
<1>6. /\ r(k) \in Connection
      /\ \/ r(k).state # "PENDING_RESULT" /\ taskQueue' = taskQueue
         \/ r(k).state = "PENDING_RESULT" /\
            \E t \in Token : taskQueue' = Append(taskQueue, [id |-> c, stmt |-> t])
  <2> HIDE DEF buf, conn
  <2>1. CASE ~HasLine(buf(k))
    BY <1>2, <1>5, <2>1
  <2>2. CASE HasLine(buf(k))
    <3>1. FirstLine(buf(k)) \in Texts /\ AfterFirstLine(buf(k)) \in Seq(Token)
      BY <1>4, <2>2, LineTypes
    <3> QED
      BY <1>2, <1>5, <2>2, <3>1, AfterLineTypes
  <2> QED
    BY <2>1, <2>2
<1>7. /\ LoopInvariant' /\ QueueInv'
      /\ DOMAIN connections' \subseteq Ids
      /\ connections' \in [DOMAIN connections' -> Connection]
      /\ taskQueue' \in Seq(Task)
      /\ loop' \in [pc : {"snapshot", "select", "accept", "serve"},
                    rd : SUBSET Ids, wr : SUBSET Ids, todo : SUBSET Ids]
  <2> HIDE DEF r
  <2> QED
    BY <1>1, <1>2, <1>3, <1>6, ServeStep
<1>8. wire' \in [Ids -> Seq(Token)]
  <2>1. SubSeq(wire[c], k + 1, Len(wire[c])) \in Seq(Token)
    BY <1>1, <1>2, SubSeqProperties
  <2> QED
    BY <1>2, <2>1 DEF IInv, TypeOK
<1> QED
  BY <1>3, <1>7, <1>8 DEF IInv, TypeOK, QueueInv

LEMMA ServeWriteAllInv ==
    ASSUME IInv, NEW c \in Ids, ServeWriteAll(c)
    PROVE  IInv'
<1> DEFINE buf == connections[c].recv_buffer
           conn == [connections[c] EXCEPT !.response = NoReply, !.send_offset = 0]
           r == AfterLine(conn, NextText(buf), AfterNextText(buf))
<1>1. /\ c \in loop.todo /\ c \in DOMAIN connections
      /\ connections[c] \in Connection /\ connections[c].state # "PENDING_RESULT"
  BY DEF ServeWriteAll, IInv, TypeOK, LoopInvariant
<1>2. /\ connections' = [connections EXCEPT ![c] = r]
      /\ taskQueue' = QueueAfterLine(c, NextText(buf))
      /\ delivered' = [delivered EXCEPT ![c] = Append(@, connections[c].response)]
      /\ Served(c)
      /\ UNCHANGED <<nextId, worker, mgrDb, disk, wire, peerOpen, sent, lines>>
  BY DEF ServeWriteAll
<1>3. NextText(buf) \in Texts /\ AfterNextText(buf) \in Seq(Token)
  BY <1>1, NextTextTypes DEF Connection
<1>4. conn \in Connection
  <2>1. NoReply \in Reply /\ 0 \in 0..1
    BY ConstantTypes
  <2> QED
    BY <1>1, <2>1 DEF Connection
<1>5. /\ r \in Connection
      /\ \/ r.state # "PENDING_RESULT" /\ taskQueue' = taskQueue
         \/ r.state = "PENDING_RESULT" /\
            \E t \in Token : taskQueue' = Append(taskQueue, [id |-> c, stmt |-> t])
  <2> HIDE DEF conn, buf
  <2> QED
    BY <1>2, <1>3, <1>4, AfterLineTypes
<1>6. /\ LoopInvariant' /\ QueueInv'
      /\ DOMAIN connections' \subseteq Ids
      /\ connections' \in [DOMAIN connections' -> Connection]
      /\ taskQueue' \in Seq(Task)
      /\ loop' \in [pc : {"snapshot", "select", "accept", "serve"},
                    rd : SUBSET Ids, wr : SUBSET Ids, todo : SUBSET Ids]
  <2> HIDE DEF r
  <2> QED
    BY <1>1, <1>2, <1>5, ServeStep
<1>7. delivered' \in [Ids -> Seq(Reply)]
  <2>1. connections[c].response \in Reply /\ delivered[c] \in Seq(Reply)
    BY <1>1 DEF IInv, TypeOK, Connection
  <2>2. Append(delivered[c], connections[c].response) \in Seq(Reply)
    BY <2>1, AppendProperties
  <2> QED
    BY <1>2, <2>2 DEF IInv, TypeOK
<1> QED
  BY <1>2, <1>6, <1>7 DEF IInv, TypeOK, QueueInv

(* The other ways to serve a connection change its record, not the queue.  *)
LEMMA ServeOtherInv ==
    ASSUME IInv, NEW c \in Ids,
           ServeHangup(c) \/ ServeNothing(c) \/ ServeWritePart(c) \/ ServeWriteError(c)
    PROVE  IInv'
<1>1. /\ c \in loop.todo /\ c \in DOMAIN connections
      /\ connections[c] \in Connection /\ connections[c].state # "PENDING_RESULT"
  BY DEF ServeHangup, ServeNothing, ServeWritePart, ServeWriteError,
         ReadingStates, IInv, TypeOK, LoopInvariant
<1>2. /\ Served(c)
      /\ UNCHANGED <<nextId, taskQueue, worker, mgrDb, disk, envVars>>
  BY DEF ServeHangup, ServeNothing, ServeWritePart, ServeWriteError
<1>3. PICK r \in Connection : /\ connections' = [connections EXCEPT ![c] = r]
                              /\ r.state # "PENDING_RESULT"
  <2>1. /\ Closed(connections[c]) \in Connection
        /\ Closed(connections[c]).state = "CLOSED"
    BY <1>1 DEF Closed, Connection
  <2>2. CASE ServeHangup(c) \/ ServeWriteError(c)
    BY <2>1, <2>2 DEF ServeHangup, ServeWriteError
  <2>3. CASE ServeNothing(c)
    <3>1. [connections[c] EXCEPT !.state = "READING"] \in Connection
      BY <1>1 DEF Connection
    <3>2. connections' = [connections EXCEPT ![c] = [connections[c] EXCEPT !.state = "READING"]]
      BY <2>3 DEF ServeNothing
    <3>3. [connections[c] EXCEPT !.state = "READING"].state = "READING"
      BY <1>1 DEF Connection
    <3> QED
      BY <3>1, <3>2, <3>3
  <2>4. CASE ServeWritePart(c)
    <3>1. [connections[c] EXCEPT !.send_offset = 1] \in Connection
      BY <1>1 DEF Connection
    <3>2. connections' = [connections EXCEPT ![c] = [connections[c] EXCEPT !.send_offset = 1]]
      BY <2>4 DEF ServeWritePart
    <3>3. [connections[c] EXCEPT !.send_offset = 1].state # "PENDING_RESULT"
      BY <1>1 DEF Connection
    <3> QED
      BY <3>1, <3>2, <3>3
  <2> QED
    BY <2>2, <2>3, <2>4
<1>4. /\ LoopInvariant' /\ QueueInv'
      /\ DOMAIN connections' \subseteq Ids
      /\ connections' \in [DOMAIN connections' -> Connection]
      /\ taskQueue' \in Seq(Task)
      /\ loop' \in [pc : {"snapshot", "select", "accept", "serve"},
                    rd : SUBSET Ids, wr : SUBSET Ids, todo : SUBSET Ids]
  BY <1>1, <1>2, <1>3, ServeStep
<1> QED
  BY <1>2, <1>4 DEF IInv, TypeOK, QueueInv, envVars

(* Steps that leave the connections, the queue and the worker alone.       *)
LEMMA SnapshotInv ==
    ASSUME IInv, Snapshot
    PROVE  IInv'
<1>1. /\ loop'.pc = "select" /\ loop'.todo = loop.todo
      /\ loop'.rd = InState(ReadingStates) /\ loop'.wr = InState({"WRITING"})
      /\ loop' \in [pc : {"snapshot", "select", "accept", "serve"},
                    rd : SUBSET Ids, wr : SUBSET Ids, todo : SUBSET Ids]
  BY DEF Snapshot, IInv, TypeOK, InState
<1>2. UNCHANGED <<connections, nextId, taskQueue, worker, mgrDb, disk, envVars>>
  BY DEF Snapshot
<1>3. LoopInvariant'
  BY <1>1, <1>2 DEF IInv, LoopInvariant, InState
<1>4. QueueInv'
  BY <1>2, SameStates DEF IInv, QueueInv, WorkerIds, conn_id, InState
<1> QED
  BY <1>1, <1>2, <1>3, <1>4 DEF IInv, TypeOK, QueueInv, envVars

LEMMA SelectInv ==
    ASSUME IInv, Select
    PROVE  IInv'
<1>1. PICK accepting \in BOOLEAN :
          /\ accepting => nextId <= MaxConns
          /\ loop' = [loop EXCEPT
                !.pc = IF accepting THEN "accept"
                       ELSE IF ReadReady \union loop.wr = {} THEN "snapshot"
                       ELSE "serve",
                !.rd = ReadReady,
                !.todo = IF accepting THEN {} ELSE ReadReady \union loop.wr]
  BY DEF Select
<1>2. UNCHANGED <<connections, nextId, taskQueue, worker, mgrDb, disk, envVars>>
  BY DEF Select
<1>3. ReadReady \subseteq loop.rd
  BY DEF ReadReady
<1>4. /\ loop'.rd = ReadReady /\ loop'.wr = loop.wr
      /\ loop'.todo \subseteq ReadReady \union loop.wr
      /\ loop'.pc = "accept" => nextId <= MaxConns
      /\ loop' \in [pc : {"snapshot", "select", "accept", "serve"},
                    rd : SUBSET Ids, wr : SUBSET Ids, todo : SUBSET Ids]
  <2>1. CASE accepting
    BY <1>1, <1>3, <2>1 DEF IInv, TypeOK
  <2>2. CASE ~accepting
    BY <1>1, <1>3, <2>2 DEF IInv, TypeOK
  <2> QED
    BY <2>1, <2>2
<1>5. LoopInvariant'
  BY <1>2, <1>3, <1>4 DEF IInv, LoopInvariant
<1>6. QueueInv'
  BY <1>2, SameStates DEF IInv, QueueInv, WorkerIds, conn_id, InState
<1> QED
  BY <1>2, <1>4, <1>5, <1>6 DEF IInv, TypeOK, QueueInv, envVars

LEMMA AcceptInv ==
    ASSUME IInv, Accept
    PROVE  IInv'
<1>1. /\ nextId \in 1..MaxConns /\ nextId' = nextId + 1 /\ nextId \in Ids
      /\ nextId \notin DOMAIN connections
      /\ NewConnection \in Connection
  BY ServerAssumption, ConstantTypes DEF Accept, IInv, TypeOK, LoopInvariant, Ids
<1>2. /\ DOMAIN connections' = DOMAIN connections \union {nextId}
      /\ connections'[nextId] = NewConnection
      /\ \A d \in DOMAIN connections : connections'[d] = connections[d]
      /\ connections' \in [DOMAIN connections' -> Connection]
  BY <1>1 DEF Accept, IInv, TypeOK
<1>3. /\ loop'.pc = "serve" /\ loop'.rd = loop.rd /\ loop'.wr = loop.wr
      /\ loop'.todo = loop.rd \union loop.wr
      /\ loop' \in [pc : {"snapshot", "select", "accept", "serve"},
                    rd : SUBSET Ids, wr : SUBSET Ids, todo : SUBSET Ids]
  BY DEF Accept, IInv, TypeOK
<1>4. /\ peerOpen' = peerOpen \union {nextId}
      /\ UNCHANGED <<taskQueue, worker, mgrDb, disk, wire, sent, lines, delivered>>
  BY DEF Accept
<1>5. LoopInvariant'
  BY <1>1, <1>2, <1>3, ServerAssumption DEF IInv, LoopInvariant
<1>6. QueueInv'
  <2>1. InState({"PENDING_RESULT"})' = InState({"PENDING_RESULT"})
    BY <1>1, <1>2 DEF InState, NewConnection
  <2> QED
    BY <1>4, <2>1, SameStates DEF IInv, QueueInv, WorkerIds, conn_id
<1>7. nextId' \in 1..(MaxConns + 1) /\ peerOpen' \subseteq Ids /\ DOMAIN connections' \subseteq Ids
  BY <1>1, <1>2, <1>4, ServerAssumption DEF IInv, TypeOK
<1> QED
  BY <1>2, <1>3, <1>4, <1>5, <1>6, <1>7 DEF IInv, TypeOK, QueueInv

LEMMA EraseClosedInv ==
    ASSUME IInv, EraseClosed
    PROVE  IInv'
<1>1. /\ DOMAIN connections' = DOMAIN connections \ InState({"CLOSED"})
      /\ \A d \in DOMAIN connections' : connections'[d] = connections[d]
      /\ connections' \in [DOMAIN connections' -> Connection]
  BY DEF EraseClosed, IInv, TypeOK
<1>2. /\ loop'.pc = "snapshot" /\ loop'.rd = {} /\ loop'.wr = {} /\ loop'.todo = {}
      /\ loop' \in [pc : {"snapshot", "select", "accept", "serve"},
                    rd : SUBSET Ids, wr : SUBSET Ids, todo : SUBSET Ids]
  BY DEF EraseClosed, IInv, TypeOK
<1>3. /\ peerOpen' \subseteq peerOpen
      /\ UNCHANGED <<nextId, taskQueue, worker, mgrDb, disk, sent, lines, delivered>>
  BY DEF EraseClosed
<1>4. LoopInvariant'
  BY <1>1, <1>2, <1>3 DEF IInv, LoopInvariant
<1>5. QueueInv'
  <2>1. InState({"PENDING_RESULT"})' = InState({"PENDING_RESULT"})
    BY <1>1 DEF InState
  <2> QED
    BY <1>3, <2>1, SameStates DEF IInv, QueueInv, WorkerIds, conn_id
<1>6. wire' \in [Ids -> Seq(Token)]
  BY DEF EraseClosed, IInv, TypeOK
<1> QED
  BY <1>1, <1>2, <1>3, <1>4, <1>5, <1>6 DEF IInv, TypeOK, QueueInv

-----------------------------------------------------------------------------
(* One lemma per action of the worker.                                     *)

LEMMA PopTaskInv ==
    ASSUME IInv, PopTask
    PROVE  IInv'
<1>1. /\ worker.pc = "wait" /\ taskQueue # <<>> /\ taskQueue' = Tail(taskQueue)
      /\ worker' = [worker EXCEPT !.pc = "lookup", !.task = Head(taskQueue)]
      /\ UNCHANGED <<connections, nextId, mgrDb, disk, loop, envVars>>
  BY DEF PopTask
<1>2. /\ taskQueue' \in Seq(Task) /\ Head(taskQueue) \in Task
      /\ QueuedIds = QueuedIds' \union {Head(taskQueue).id}
      /\ Head(taskQueue).id \notin QueuedIds'
      /\ \A i, j \in DOMAIN taskQueue' : taskQueue'[i].id = taskQueue'[j].id => i = j
  BY <1>1, QueuedAfterTail DEF IInv, TypeOK, TasksDistinct
<1>3. /\ worker' \in [pc : {"wait", "lookup", "use", "run", "store"},
                      task : Task, reply : Reply]
      /\ worker'.pc = "lookup" /\ worker'.task = Head(taskQueue)
  BY <1>1, <1>2 DEF IInv, TypeOK
<1>4. WorkerIds = {} /\ WorkerIds' = {Head(taskQueue).id}
  BY <1>1, <1>3 DEF WorkerIds, conn_id
<1>5. InState({"PENDING_RESULT"})' = InState({"PENDING_RESULT"})
  BY <1>1 DEF InState
<1>6. QueueInv'
  BY <1>2, <1>4, <1>5 DEF IInv, QueueInv, PendingHasTask, TaskIsPending, TasksDistinct
<1>7. LoopInvariant'
  BY <1>1 DEF IInv, LoopInvariant
<1> QED
  BY <1>1, <1>2, <1>3, <1>6, <1>7 DEF IInv, TypeOK, QueueInv, envVars

(* While the worker has a task, its connection is in the map, pending.     *)
LEMMA WorkerConnection ==
    ASSUME IInv, worker.pc # "wait"
    PROVE  /\ conn_id \in InState({"PENDING_RESULT"})
           /\ conn_id \in DOMAIN connections /\ connections[conn_id] \in Connection
           /\ connections[conn_id].state = "PENDING_RESULT"
           /\ conn_id \in Ids /\ stmt \in Token
           /\ conn_id \notin QueuedIds
BY DEF IInv, TypeOK, TaskIsPending, TasksDistinct, WorkerIds, InState, conn_id, stmt, Task

(* A step of the worker between its pop and its last store.                *)
LEMMA WorkerStep ==
    ASSUME IInv, worker.pc # "wait", worker'.pc # "wait", worker'.task = worker.task,
           worker' \in [pc : {"wait", "lookup", "use", "run", "store"},
                        task : Task, reply : Reply],
           mgrDb' \in Dbs \union {None}, disk' \subseteq Dbs,
           DOMAIN connections' = DOMAIN connections,
           connections' \in [DOMAIN connections -> Connection],
           \A d \in DOMAIN connections : connections'[d].state = connections[d].state,
           UNCHANGED <<nextId, taskQueue, loop, envVars>>
    PROVE  IInv'
<1>1. WorkerIds' = WorkerIds
  BY DEF WorkerIds, conn_id
<1>2. InState({"PENDING_RESULT"})' = InState({"PENDING_RESULT"})
  BY DEF InState
<1>3. QueueInv'
  BY <1>1, <1>2, SameStates DEF IInv, QueueInv
<1>4. LoopInvariant'
  BY DEF IInv, LoopInvariant
<1>5. TypeOK'
  BY DEF IInv, TypeOK, envVars
<1> QED
  BY <1>3, <1>4, <1>5 DEF IInv, QueueInv

LEMMA LookupInv ==
    ASSUME IInv, Lookup
    PROVE  IInv'
<1>1. worker' = [worker EXCEPT !.pc = "use"]
  BY WorkerConnection DEF Lookup
<1>2. /\ worker.pc # "wait" /\ worker'.pc # "wait" /\ worker'.task = worker.task
      /\ worker' \in [pc : {"wait", "lookup", "use", "run", "store"},
                      task : Task, reply : Reply]
  BY <1>1 DEF Lookup, IInv, TypeOK
<1>3. UNCHANGED <<connections, nextId, taskQueue, mgrDb, disk, loop, envVars>>
  BY DEF Lookup
<1> QED
  BY <1>2, <1>3, WorkerStep DEF IInv, TypeOK

LEMMA UseSessionDbInv ==
    ASSUME IInv, UseSessionDb
    PROVE  IInv'
<1>1. worker.pc # "wait" /\ connections[conn_id] \in Connection
  BY WorkerConnection DEF UseSessionDb
<1>2. /\ worker'.pc # "wait" /\ worker'.task = worker.task
      /\ worker' \in [pc : {"wait", "lookup", "use", "run", "store"},
                      task : Task, reply : Reply]
  BY DEF UseSessionDb, IInv, TypeOK
<1>3. /\ mgrDb' \in Dbs \union {None}
      /\ UNCHANGED <<connections, nextId, taskQueue, disk, loop, envVars>>
  BY <1>1 DEF UseSessionDb, Connection
<1> QED
  BY <1>1, <1>2, <1>3, WorkerStep DEF IInv, TypeOK

LEMMA SessionDbMissingInv ==
    ASSUME IInv, SessionDbMissing
    PROVE  IInv'
<1>1. /\ worker.pc # "wait" /\ connections[conn_id] \in Connection /\ stmt \in Token
  BY WorkerConnection DEF SessionDbMissing
<1>2. [n |-> stmt.n, ok |-> FALSE, cur |-> None,
       ran |-> connections[conn_id].current_db] \in Reply
  BY <1>1 DEF Reply, Connection, Token
<1>3. /\ worker'.pc # "wait" /\ worker'.task = worker.task
      /\ worker' \in [pc : {"wait", "lookup", "use", "run", "store"},
                      task : Task, reply : Reply]
  BY <1>2 DEF SessionDbMissing, IInv, TypeOK
<1>4. UNCHANGED <<connections, nextId, taskQueue, mgrDb, disk, loop, envVars>>
  BY DEF SessionDbMissing
<1> QED
  BY <1>1, <1>3, <1>4, WorkerStep DEF IInv, TypeOK

LEMMA RunQueryInv ==
    ASSUME IInv, RunQuery
    PROVE  IInv'
<1> DEFINE db(ok) == IF ok /\ stmt.op = "use" THEN stmt.db ELSE mgrDb
           cur(ok) == IF ok THEN db(ok) ELSE connections[conn_id].current_db
<1>1. PICK ok \in Succeeds :
          /\ mgrDb' = db(ok)
          /\ disk' = IF ok /\ stmt.op = "create" THEN disk \union {stmt.db} ELSE disk
          /\ connections' = [connections EXCEPT ![conn_id].current_db = cur(ok)]
          /\ worker' = [worker EXCEPT !.pc = "store",
                 !.reply = [n |-> stmt.n, ok |-> ok, ran |-> mgrDb, cur |-> cur(ok)]]
  BY DEF RunQuery
<1>2. /\ worker.pc # "wait"
      /\ conn_id \in DOMAIN connections /\ connections[conn_id] \in Connection
      /\ stmt \in Token
  BY WorkerConnection DEF RunQuery
<1>3. ok \in BOOLEAN
  <2>1. CASE stmt.op = "use"
    <3>1. ok = (stmt.db \in disk)
      BY <1>1, <2>1 DEF Succeeds
    <3> QED
      BY <3>1
  <2>2. CASE stmt.op = "create"
    <3>1. ok = (stmt.db \notin disk)
      BY <1>1, <2>2 DEF Succeeds
    <3> QED
      BY <3>1
  <2>3. CASE stmt.op \notin {"use", "create"}
    <3>1. ok \in IF mgrDb = None THEN {FALSE} ELSE BOOLEAN
      BY <1>1, <2>3 DEF Succeeds
    <3> QED
      BY <3>1
  <2> QED
    BY <2>1, <2>2, <2>3
<1>4. stmt.db \in Dbs /\ stmt.n \in Nat /\ connections[conn_id].current_db \in Dbs \union {None}
  BY <1>2 DEF Token, Connection
<1>5. db(ok) \in Dbs \union {None} /\ cur(ok) \in Dbs \union {None}
  BY <1>4 DEF IInv, TypeOK
<1>6. mgrDb' \in Dbs \union {None} /\ disk' \subseteq Dbs
  BY <1>1, <1>4, <1>5 DEF IInv, TypeOK
<1>7. /\ DOMAIN connections' = DOMAIN connections
      /\ connections' \in [DOMAIN connections -> Connection]
      /\ \A d \in DOMAIN connections : connections'[d].state = connections[d].state
  <2>1. connections' = [connections EXCEPT ![conn_id] =
                           [connections[conn_id] EXCEPT !.current_db = cur(ok)]]
    BY <1>1
  <2>2. /\ [connections[conn_id] EXCEPT !.current_db = cur(ok)] \in Connection
        /\ [connections[conn_id] EXCEPT !.current_db = cur(ok)].state
              = connections[conn_id].state
    <3> HIDE DEF cur
    <3> QED
      BY <1>2, <1>5 DEF Connection
  <2> HIDE DEF cur
  <2> QED
    BY <1>2, <2>1, <2>2 DEF IInv, TypeOK
<1>8. [n |-> stmt.n, ok |-> ok, ran |-> mgrDb, cur |-> cur(ok)] \in Reply
  <2> HIDE DEF cur
  <2> QED
    BY <1>3, <1>4, <1>5 DEF Reply, IInv, TypeOK
<1>9. /\ worker'.pc # "wait" /\ worker'.task = worker.task
      /\ worker' \in [pc : {"wait", "lookup", "use", "run", "store"},
                      task : Task, reply : Reply]
  <2> HIDE DEF cur
  <2> QED
    BY <1>1, <1>8 DEF IInv, TypeOK
<1>10. UNCHANGED <<nextId, taskQueue, loop, envVars>>
  BY DEF RunQuery
<1> QED
  BY <1>2, <1>6, <1>7, <1>9, <1>10, WorkerStep

LEMMA StoreResponseInv ==
    ASSUME IInv, StoreResponse
    PROVE  IInv'
<1> DEFINE answered == [connections[conn_id] EXCEPT !.response = worker.reply,
                                                    !.send_offset = 0,
                                                    !.state = "WRITING"]
<1>1. /\ worker.pc # "wait" /\ conn_id \in DOMAIN connections
      /\ connections[conn_id] \in Connection /\ conn_id \notin QueuedIds
  BY WorkerConnection DEF StoreResponse
<1>2. answered \in Connection /\ answered.state = "WRITING"
  <2>1. worker.reply \in Reply /\ 0 \in 0..1
    BY DEF IInv, TypeOK
  <2> QED
    BY <1>1, <2>1 DEF Connection
<1>3. connections' = [connections EXCEPT ![conn_id] = answered]
  BY <1>1 DEF StoreResponse
<1>4. /\ DOMAIN connections' = DOMAIN connections
      /\ connections' \in [DOMAIN connections -> Connection]
      /\ connections'[conn_id] = answered
      /\ \A d \in DOMAIN connections \ {conn_id} : connections'[d] = connections[d]
  <2> HIDE DEF answered
  <2> QED
    BY <1>1, <1>2, <1>3 DEF IInv, TypeOK
<1>5. /\ worker' \in [pc : {"wait", "lookup", "use", "run", "store"},
                      task : Task, reply : Reply]
      /\ worker'.pc = "wait"
  BY ConstantTypes DEF StoreResponse, IInv, TypeOK
<1>6. UNCHANGED <<nextId, taskQueue, mgrDb, disk, loop, envVars>>
  BY DEF StoreResponse
<1>7. QueueInv'
  <2>1. InState({"PENDING_RESULT"})' = InState({"PENDING_RESULT"}) \ {conn_id}
    BY <1>2, <1>4 DEF InState
  <2>2. WorkerIds = {conn_id} /\ WorkerIds' = {} /\ QueuedIds' = QueuedIds
    BY <1>1, <1>5, <1>6 DEF WorkerIds, QueuedIds
  <2> QED
    BY <1>1, <1>6, <2>1, <2>2
    DEF IInv, QueueInv, PendingHasTask, TaskIsPending, TasksDistinct
<1>8. LoopInvariant'
  BY <1>4, <1>6 DEF IInv, LoopInvariant
<1> QED
  BY <1>4, <1>5, <1>6, <1>7, <1>8 DEF IInv, TypeOK, QueueInv, envVars

-----------------------------------------------------------------------------
(* The clients and the file system.                                        *)

LEMMA SendLineTypes ==
    ASSUME TypeOK, NEW c \in Ids, NEW text \in Texts, SendLine(c, text)
    PROVE  wire' \in [Ids -> Seq(Token)] /\ lines' \in [Ids -> Nat]
<1>1. wire[c] \in Seq(Token) /\ text \in Seq(Token) /\ <<Newline>> \in Seq(Token)
  <2>1. wire[c] \in Seq(Token) /\ <<Newline>> \in Seq(Token)
    BY ConstantTypes DEF TypeOK
  <2>2. CASE text = <<>>
    BY <2>1, <2>2, EmptySeq
  <2>3. CASE text # <<>>
    <3>1. PICK t \in Token : text = <<t>>
      BY <2>3 DEF Texts
    <3> QED
      BY <2>1, <3>1
  <2> QED
    BY <2>2, <2>3
<1>2. wire[c] \o text \o <<Newline>> \in Seq(Token)
  BY <1>1, ConcatProperties
<1>3. wire' = [wire EXCEPT ![c] = wire[c] \o text \o <<Newline>>]
  BY DEF SendLine
<1>4. lines' = [lines EXCEPT ![c] = lines[c] + 1] /\ lines[c] + 1 \in Nat
  BY DEF SendLine, TypeOK
<1> QED
  BY <1>2, <1>3, <1>4 DEF TypeOK

(* The part of TypeOK that is about the clients and the file system.       *)
EnvTypes ==
    /\ disk \subseteq Dbs /\ peerOpen \subseteq Ids
    /\ wire \in [Ids -> Seq(Token)] /\ lines \in [Ids -> Nat]
    /\ sent \in [Ids -> Seq(Token)] /\ delivered \in [Ids -> Seq(Reply)]

LEMMA EnvironmentInv ==
    ASSUME IInv, Environment
    PROVE  IInv'
<1>1. UNCHANGED <<connections, nextId, taskQueue, worker, mgrDb, loop>>
  BY DEF Environment, ClientStatement, ClientBlankLine, ClientExit, ClientClose,
         DirectoryRemoved
<1>2. QueueInv' /\ LoopInvariant'
  BY <1>1, SameStates DEF IInv, QueueInv, LoopInvariant, WorkerIds, conn_id, InState
<1>3. EnvTypes'
  <2>1. ASSUME NEW c \in Ids, ClientStatement(c)
        PROVE  EnvTypes'
    <3>1. PICK op \in Ops, d \in Dbs :
             /\ SendLine(c, <<[op |-> op, db |-> d, n |-> Len(sent[c]) + 1]>>)
             /\ sent' = [sent EXCEPT ![c] =
                            Append(@, [op |-> op, db |-> d, n |-> Len(sent[c]) + 1])]
      BY <2>1, Zenon DEF ClientStatement
    <3> DEFINE stm == [op |-> op, db |-> d, n |-> Len(sent[c]) + 1]
    <3>2. sent[c] \in Seq(Token) /\ stm \in Token
      <4>1. sent[c] \in Seq(Token)
        BY DEF IInv, TypeOK
      <4>2. Len(sent[c]) + 1 \in Nat
        BY <4>1, LenProperties
      <4> QED
        BY <4>1, <4>2 DEF Token
    <3>3. Append(sent[c], stm) \in Seq(Token)
      BY <3>2, AppendProperties
    <3>4. sent' \in [Ids -> Seq(Token)]
      BY <3>1, <3>3 DEF IInv, TypeOK
    <3>5. wire' \in [Ids -> Seq(Token)] /\ lines' \in [Ids -> Nat]
      BY <3>1, <3>2, SendLineTypes DEF IInv, Texts
    <3> QED
      BY <2>1, <3>4, <3>5 DEF ClientStatement, IInv, TypeOK, EnvTypes
  <2>2. ASSUME NEW c \in Ids, ClientBlankLine(c)
        PROVE  EnvTypes'
    <3>1. wire' \in [Ids -> Seq(Token)] /\ lines' \in [Ids -> Nat]
      BY <2>2, SendLineTypes DEF ClientBlankLine, IInv, Texts
    <3> QED
      BY <2>2, <3>1 DEF ClientBlankLine, IInv, TypeOK, EnvTypes
  <2>3. ASSUME NEW c \in Ids, ClientExit(c)
        PROVE  EnvTypes'
    <3>1. [op |-> "exit", db |-> AnyDb, n |-> 0] \in Token
      BY ConstantTypes DEF Token
    <3>2. wire' \in [Ids -> Seq(Token)] /\ lines' \in [Ids -> Nat]
      BY <2>3, <3>1, SendLineTypes DEF ClientExit, IInv, Texts
    <3> QED
      BY <2>3, <3>2 DEF ClientExit, IInv, TypeOK, EnvTypes
  <2>4. ASSUME NEW c \in Ids, ClientClose(c)
        PROVE  EnvTypes'
    BY <2>4 DEF ClientClose, IInv, TypeOK, EnvTypes
  <2>5. ASSUME NEW d \in Dbs, DirectoryRemoved(d)
        PROVE  EnvTypes'
    BY <2>5 DEF DirectoryRemoved, envVars, IInv, TypeOK, EnvTypes
  <2> QED
    BY <2>1, <2>2, <2>3, <2>4, <2>5 DEF Environment
<1> QED
  BY <1>1, <1>2, <1>3 DEF IInv, TypeOK, EnvTypes, QueueInv

-----------------------------------------------------------------------------
(* The invariant of the server.                                            *)

LEMMA InitInv == Init => IInv
<1> SUFFICES ASSUME Init PROVE IInv
  OBVIOUS
<1>1. connections = [c \in {} |-> NewConnection] /\ DOMAIN connections = {}
  BY DEF Init
<1>2. taskQueue = <<>> /\ worker.pc = "wait" /\ QueuedIds = {} /\ WorkerIds = {}
  BY EmptySeq DEF Init, QueuedIds, WorkerIds
<1>3. TypeOK
  <2>1. /\ loop = [pc |-> "snapshot", rd |-> {}, wr |-> {}, todo |-> {}]
        /\ worker = [pc |-> "wait", task |-> NoTask, reply |-> NoReply]
        /\ nextId = 1 /\ mgrDb = None /\ disk \subseteq Dbs /\ peerOpen = {}
        /\ wire = [c \in Ids |-> <<>>] /\ sent = [c \in Ids |-> <<>>]
        /\ lines = [c \in Ids |-> 0] /\ delivered = [c \in Ids |-> <<>>]
    BY DEF Init
  <2>2. taskQueue \in Seq(Task) /\ nextId \in 1..(MaxConns + 1)
    BY <1>2, <2>1, EmptySeq, ServerAssumption
  <2>3. connections \in [DOMAIN connections -> Connection] /\ DOMAIN connections \subseteq Ids
    BY <1>1
  <2> QED
    BY <2>1, <2>2, <2>3, ConstantTypes, EmptySeq DEF TypeOK
<1>4. LoopInvariant
  BY <1>1 DEF Init, LoopInvariant
<1>5. PendingHasTask /\ TaskIsPending /\ TasksDistinct
  BY <1>1, <1>2, EmptySeq
  DEF PendingHasTask, TaskIsPending, TasksDistinct, InState
<1> QED
  BY <1>3, <1>4, <1>5 DEF IInv

LEMMA StutterInv ==
    ASSUME IInv, UNCHANGED vars
    PROVE  IInv'
<1>1. QueueInv' /\ LoopInvariant'
  BY SameStates DEF vars, IInv, QueueInv, LoopInvariant, WorkerIds, conn_id, InState
<1>2. TypeOK'
  BY DEF vars, IInv, TypeOK
<1> QED
  BY <1>1, <1>2 DEF IInv, QueueInv

LEMMA NextInv == IInv /\ [Next]_vars => IInv'
<1> SUFFICES ASSUME IInv, [Next]_vars PROVE IInv'
  OBVIOUS
<1>1. CASE MainLoop
  <2>1. CASE Snapshot \/ Select \/ Accept \/ EraseClosed
    BY <2>1, SnapshotInv, SelectInv, AcceptInv, EraseClosedInv
  <2>2. ASSUME NEW c \in Ids, ServeConnection(c)
        PROVE  IInv'
    BY <2>2, ServeReadInv, ServeWriteAllInv, ServeOtherInv DEF ServeConnection
  <2> QED
    BY <1>1, <2>1, <2>2 DEF MainLoop
<1>2. CASE DbWorker
  BY <1>2, PopTaskInv, LookupInv, UseSessionDbInv, SessionDbMissingInv, RunQueryInv,
     StoreResponseInv DEF DbWorker
<1>3. CASE Environment
  BY <1>3, EnvironmentInv
<1>4. CASE UNCHANGED vars
  BY <1>4, StutterInv
<1> QED
  BY <1>1, <1>2, <1>3, <1>4 DEF Next

THEOREM ServerInvariant == Spec => []IInv
BY InitInv, NextInv, PTL DEF Spec

(* Every variable of the server keeps its shape (main.cpp:21-45).          *)
THEOREM ServerTypeOK == Spec => []TypeOK
<1>1. IInv => TypeOK
  BY DEF IInv
<1> QED
  BY <1>1, ServerInvariant, PTL

(* A connection waits for a result exactly when one task of it is queued   *)
(* or being executed (main.cpp:230-240, 115-123).                          *)
THEOREM PendingIffTask == Spec => []OneTaskPerPending
<1>1. IInv => OneTaskPerPending
  BY DEF IInv, PendingHasTask, TaskIsPending, TasksDistinct, OneTaskPerPending
<1> QED
  BY <1>1, ServerInvariant, PTL

(* The Connection pointer that the worker uses without conn_mutex is never *)
(* dangling (main.cpp:65-112).                                             *)
THEOREM WorkerPointerIsValid == Spec => []WorkerPointerValid
<1>1. IInv => WorkerPointerValid
  BY DEF IInv, TaskIsPending, WorkerIds, WorkerPointerValid
<1> QED
  BY <1>1, ServerInvariant, PTL
-----------------------------------------------------------------------------
(* The statements on their way.                                            *)

(* The text of a line is followed by its newline.                          *)
LinesEnd(tokens) ==
    \A i \in DOMAIN tokens :
        ~IsNewline(tokens[i]) => i + 1 \in DOMAIN tokens /\ IsNewline(tokens[i + 1])

(* Connections that are still to be accepted have seen nothing.            *)
FreshIds ==
    \A c \in Ids : c >= nextId =>
        wire[c] = <<>> /\ sent[c] = <<>> /\ delivered[c] = <<>> /\ c \notin peerOpen

SentNumbered ==
    \A c \in Ids : \A k \in DOMAIN sent[c] : sent[c][k].n = k /\ sent[c][k].op \in Ops

(* The worker answers the statement it has, in the session's database.     *)
WorkerAnswers == worker.pc = "store" => worker.reply.n = stmt.n
WorkerInSession == worker.pc = "run" => mgrDb = connections[conn_id].current_db

Conserved(c) ==
    /\ Taken(c) <= Len(sent[c])
    /\ \A i \in DOMAIN delivered[c] : delivered[c][i].n = i
    /\ connections[c].state = "WRITING" => connections[c].response.n = Taken(c)
    /\ \A task \in TasksOf(c) : task = sent[c][Taken(c)]
    /\ HoldsAfter(Stream(c), Taken(c), sent[c])
    /\ LinesEnd(Stream(c))

SInv ==
    /\ IInv
    /\ FreshIds
    /\ SentNumbered
    /\ WorkerAnswers
    /\ WorkerInSession
    /\ \A c \in DOMAIN connections : Live(c) => Conserved(c)

-----------------------------------------------------------------------------
(* Streams of tokens.                                                      *)

LEMMA LeastElement ==
    ASSUME NEW T, T \subseteq Nat, T # {}
    PROVE  \E x \in T : \A y \in T : x <= y
<1> DEFINE R == {ss \in Nat \X Nat : ss[1] < ss[2]}
<1>1. IsWellFoundedOn(R, Nat)
  BY NatLessThanWellFounded DEF OpToRel
<1> HIDE DEF R
<1>2. PICK x \in T : \A y \in T : <<y, x>> \notin R
  BY <1>1, WFMin
<1>3. \A y \in T : ~(y < x)
  BY <1>2 DEF R
<1> QED
  BY <1>3

(* A stream after the first m of its tokens.                               *)
Suffix(rest, tokens, m) ==
    /\ Len(rest) = Len(tokens) - m
    /\ \A i \in 1..Len(rest) : rest[i] = tokens[i + m]

LEMMA SuffixLinesEnd ==
    ASSUME NEW tokens \in Seq(Token), NEW rest \in Seq(Token), NEW m \in Nat,
           Suffix(rest, tokens, m), LinesEnd(tokens)
    PROVE  LinesEnd(rest)
<1> SUFFICES ASSUME NEW i \in DOMAIN rest, ~IsNewline(rest[i])
             PROVE  i + 1 \in DOMAIN rest /\ IsNewline(rest[i + 1])
  BY DEF LinesEnd
<1>1. i \in 1..Len(rest) /\ rest[i] = tokens[i + m] /\ i + m \in 1..Len(tokens)
  BY DEF Suffix
<1>2. i + m + 1 \in 1..Len(tokens) /\ IsNewline(tokens[i + m + 1])
  BY <1>1 DEF LinesEnd
<1>3. i + 1 \in 1..Len(rest) /\ rest[i + 1] = tokens[(i + 1) + m]
  <2>1. Len(rest) = Len(tokens) - m /\ Len(rest) \in Nat /\ Len(tokens) \in Nat
    BY LenProperties DEF Suffix
  <2>2. i \in Nat /\ i + m + 1 <= Len(tokens)
    BY <1>1, <1>2, <2>1
  <2>3. i + 1 \in 1..Len(rest)
    BY <2>1, <2>2
  <2> QED
    BY <2>3 DEF Suffix
<1>4. (i + 1) + m = i + m + 1
  BY <1>1
<1> QED
  BY <1>2, <1>3, <1>4

LEMMA SuffixWithoutStatement ==
    ASSUME NEW tokens \in Seq(Token), NEW rest \in Seq(Token), NEW m \in Nat,
           Suffix(rest, tokens, m), NEW k \in Nat, NEW asked \in Seq(Token),
           HoldsAfter(tokens, k, asked),
           \A i \in 1..m : i <= Len(tokens) => tokens[i].op \notin Ops
    PROVE  HoldsAfter(rest, k, asked)
<1>1. \A i \in StatementsIn(rest) : i + m \in StatementsIn(tokens) /\ rest[i] = tokens[i + m]
  <2> SUFFICES ASSUME NEW i \in StatementsIn(rest)
               PROVE  i + m \in StatementsIn(tokens) /\ rest[i] = tokens[i + m]
    OBVIOUS
  <2>1. i \in 1..Len(rest) /\ rest[i].op \in Ops
    BY DEF StatementsIn
  <2>2. i + m \in 1..Len(tokens) /\ rest[i] = tokens[i + m]
    BY <2>1 DEF Suffix
  <2> QED
    BY <2>1, <2>2 DEF StatementsIn
<1>2. \A i \in StatementsIn(tokens) : i - m \in StatementsIn(rest) /\ rest[i - m] = tokens[i]
  <2> SUFFICES ASSUME NEW i \in StatementsIn(tokens)
               PROVE  i - m \in StatementsIn(rest) /\ rest[i - m] = tokens[i]
    OBVIOUS
  <2>1. i \in 1..Len(tokens) /\ tokens[i].op \in Ops /\ ~(i \in 1..m)
    BY DEF StatementsIn
  <2>2. i - m \in 1..Len(rest) /\ (i - m) + m = i
    BY <2>1 DEF Suffix
  <2>3. rest[i - m] = tokens[i]
    BY <2>2 DEF Suffix
  <2> QED
    BY <2>1, <2>2, <2>3 DEF StatementsIn
<1>3. {rest[i].n : i \in StatementsIn(rest)} = (k + 1)..Len(asked)
  <2>1. {tokens[i].n : i \in StatementsIn(tokens)} = (k + 1)..Len(asked)
    BY DEF HoldsAfter
  <2>2. ASSUME NEW i \in StatementsIn(rest) PROVE rest[i].n \in (k + 1)..Len(asked)
    BY <1>1, <2>1
  <2>3. ASSUME NEW v \in (k + 1)..Len(asked)
        PROVE  \E i \in StatementsIn(rest) : rest[i].n = v
    BY <1>2, <2>1
  <2> QED
    BY <2>2, <2>3
<1>4. \A i, j \in StatementsIn(rest) : i < j => rest[i].n < rest[j].n
  <2> SUFFICES ASSUME NEW i \in StatementsIn(rest), NEW j \in StatementsIn(rest), i < j
               PROVE  rest[i].n < rest[j].n
    OBVIOUS
  <2>1. i \in Nat /\ j \in Nat
    BY DEF StatementsIn
  <2>2. i + m < j + m
    BY <2>1
  <2> QED
    BY <1>1, <2>2 DEF HoldsAfter
<1> QED
  BY <1>1, <1>3, <1>4 DEF HoldsAfter

(* The first statement of a stream is the next one that was asked.         *)
LEMMA SuffixAfterStatement ==
    ASSUME NEW tokens \in Seq(Token), NEW rest \in Seq(Token), NEW m \in Nat,
           Suffix(rest, tokens, m), NEW k \in Nat, NEW asked \in Seq(Token),
           HoldsAfter(tokens, k, asked),
           NEW p \in 1..m, p <= Len(tokens), tokens[p].op \in Ops,
           \A i \in 1..m : i <= Len(tokens) /\ i # p => tokens[i].op \notin Ops
    PROVE  /\ k + 1 \in 1..Len(asked) /\ tokens[p] = asked[k + 1]
           /\ HoldsAfter(rest, k + 1, asked)
<1>0. \A i \in StatementsIn(tokens) : i \in 1..Len(tokens) /\ tokens[i].n \in Nat
  <2> SUFFICES ASSUME NEW i \in StatementsIn(tokens)
               PROVE  i \in 1..Len(tokens) /\ tokens[i].n \in Nat
    OBVIOUS
  <2>1. i \in 1..Len(tokens)
    BY DEF StatementsIn
  <2>2. tokens[i] \in Token
    BY <2>1, ElementOfSeq
  <2> QED
    BY <2>1, <2>2 DEF Token
<1>1. p \in StatementsIn(tokens)
  BY DEF StatementsIn
<1>2. \A i \in StatementsIn(rest) : i + m \in StatementsIn(tokens) /\ rest[i] = tokens[i + m]
  <2> SUFFICES ASSUME NEW i \in StatementsIn(rest)
               PROVE  i + m \in StatementsIn(tokens) /\ rest[i] = tokens[i + m]
    OBVIOUS
  <2>1. i \in 1..Len(rest) /\ rest[i].op \in Ops
    BY DEF StatementsIn
  <2>2. i + m \in 1..Len(tokens) /\ rest[i] = tokens[i + m]
    BY <2>1 DEF Suffix
  <2> QED
    BY <2>1, <2>2 DEF StatementsIn
<1>3. \A i \in StatementsIn(tokens) \ {p} :
          i > p /\ i - m \in StatementsIn(rest) /\ rest[i - m] = tokens[i]
  <2> SUFFICES ASSUME NEW i \in StatementsIn(tokens) \ {p}
               PROVE  i > p /\ i - m \in StatementsIn(rest) /\ rest[i - m] = tokens[i]
    OBVIOUS
  <2>1. i \in 1..Len(tokens) /\ tokens[i].op \in Ops /\ ~(i \in 1..m)
    BY DEF StatementsIn
  <2>2. i > p /\ i - m \in 1..Len(rest) /\ (i - m) + m = i
    BY <2>1 DEF Suffix
  <2>3. rest[i - m] = tokens[i]
    BY <2>2 DEF Suffix
  <2> QED
    BY <2>1, <2>2, <2>3 DEF StatementsIn
<1>4. Len(asked) \in Nat /\ {tokens[i].n : i \in StatementsIn(tokens)} = (k + 1)..Len(asked)
  BY DEF HoldsAfter
<1>5. tokens[p].n \in (k + 1)..Len(asked)
  BY <1>1, <1>4
<1>6. k + 1 \in (k + 1)..Len(asked)
  BY <1>4, <1>5
<1>7. tokens[p].n = k + 1
  <2>1. PICK i \in StatementsIn(tokens) : tokens[i].n = k + 1
    BY <1>4, <1>6
  <2>2. CASE i # p
    <3>1. tokens[p].n < tokens[i].n
      BY <1>0, <1>1, <1>3, <2>2 DEF HoldsAfter
    <3> QED
      BY <1>0, <1>4, <1>5, <2>1, <3>1
  <2> QED
    BY <2>1, <2>2
<1>8. \A i \in StatementsIn(rest) : i + m # p /\ rest[i].n > k + 1
  <2> SUFFICES ASSUME NEW i \in StatementsIn(rest) PROVE i + m # p /\ rest[i].n > k + 1
    OBVIOUS
  <2>1. i + m > p /\ i + m \in StatementsIn(tokens)
    BY <1>2 DEF StatementsIn
  <2>2. tokens[p].n < tokens[i + m].n
    BY <1>1, <2>1 DEF HoldsAfter
  <2> QED
    BY <1>2, <1>7, <2>1, <2>2
<1>9. {rest[i].n : i \in StatementsIn(rest)} = (k + 2)..Len(asked)
  <2>1. ASSUME NEW i \in StatementsIn(rest) PROVE rest[i].n \in (k + 2)..Len(asked)
    <3>1. rest[i].n \in (k + 1)..Len(asked)
      BY <1>2, <1>4
    <3> QED
      BY <1>4, <1>8, <3>1
  <2>2. ASSUME NEW v \in (k + 2)..Len(asked)
        PROVE  \E i \in StatementsIn(rest) : rest[i].n = v
    <3>1. v \in (k + 1)..Len(asked) /\ v # k + 1
      BY <1>4
    <3>2. PICK i \in StatementsIn(tokens) : tokens[i].n = v
      BY <1>4, <3>1
    <3> QED
      BY <1>3, <1>7, <3>1, <3>2
  <2> QED
    BY <2>1, <2>2
<1>10. \A i, j \in StatementsIn(rest) : i < j => rest[i].n < rest[j].n
  <2> SUFFICES ASSUME NEW i \in StatementsIn(rest), NEW j \in StatementsIn(rest), i < j
               PROVE  rest[i].n < rest[j].n
    OBVIOUS
  <2>1. i + m < j + m
    BY DEF StatementsIn
  <2> QED
    BY <1>2, <2>1 DEF HoldsAfter
<1>11. tokens[p] = asked[k + 1]
  BY <1>1, <1>7 DEF HoldsAfter
<1>12. (k + 1) + 1 = k + 2
  OBVIOUS
<1>13. HoldsAfter(rest, k + 1, asked)
  BY <1>2, <1>9, <1>10, <1>12 DEF HoldsAfter
<1> QED
  BY <1>4, <1>6, <1>11, <1>13

(* A client appends a line without a statement, or the next statement.     *)
Longer(more, tokens) ==
    /\ Len(more) >= Len(tokens)
    /\ \A i \in 1..Len(tokens) : more[i] = tokens[i]

LEMMA LongerWithoutStatement ==
    ASSUME NEW tokens \in Seq(Token), NEW more \in Seq(Token), Longer(more, tokens),
           \A i \in 1..Len(more) : i > Len(tokens) => more[i].op \notin Ops,
           NEW k \in Nat, NEW asked \in Seq(Token), HoldsAfter(tokens, k, asked)
    PROVE  HoldsAfter(more, k, asked)
<1>1. \A i : i \in StatementsIn(more) <=> i \in StatementsIn(tokens)
  <2>1. ASSUME NEW i \in 1..Len(more), more[i].op \in Ops
        PROVE  i \in 1..Len(tokens) /\ tokens[i].op \in Ops
    <3>1. ~(i > Len(tokens))
      BY <2>1
    <3>2. i \in 1..Len(tokens)
      BY <3>1
    <3> QED
      BY <2>1, <3>2 DEF Longer
  <2>2. ASSUME NEW i \in 1..Len(tokens), tokens[i].op \in Ops
        PROVE  i \in 1..Len(more) /\ more[i].op \in Ops
    BY <2>2 DEF Longer
  <2> QED
    BY <2>1, <2>2 DEF StatementsIn
<1>2. StatementsIn(more) = StatementsIn(tokens)
  BY <1>1
<1>3. \A i \in StatementsIn(tokens) : more[i] = tokens[i]
  BY DEF StatementsIn, Longer
<1>4. {more[i].n : i \in StatementsIn(more)} = (k + 1)..Len(asked)
  <2>1. {tokens[i].n : i \in StatementsIn(tokens)} = (k + 1)..Len(asked)
    BY DEF HoldsAfter
  <2>2. ASSUME NEW i \in StatementsIn(more) PROVE more[i].n \in (k + 1)..Len(asked)
    BY <1>2, <1>3, <2>1
  <2>3. ASSUME NEW v \in (k + 1)..Len(asked)
        PROVE  \E i \in StatementsIn(more) : more[i].n = v
    BY <1>2, <1>3, <2>1
  <2> QED
    BY <2>2, <2>3
<1> QED
  BY <1>2, <1>3, <1>4 DEF HoldsAfter

LEMMA LongerByStatement ==
    ASSUME NEW tokens \in Seq(Token), NEW more \in Seq(Token), Longer(more, tokens),
           NEW k \in Nat, NEW asked \in Seq(Token), HoldsAfter(tokens, k, asked), k <= Len(asked),
           NEW t \in Token, t.op \in Ops, t.n = Len(asked) + 1,
           Len(more) = Len(tokens) + 2, more[Len(tokens) + 1] = t,
           more[Len(tokens) + 2].op \notin Ops
    PROVE  HoldsAfter(more, k, Append(asked, t))
<1> DEFINE last == Len(tokens) + 1
           now == Append(asked, t)
<1>1. /\ Len(tokens) \in Nat /\ Len(asked) \in Nat
      /\ Len(now) = Len(asked) + 1 /\ now[Len(asked) + 1] = t
      /\ \A i \in 1..Len(asked) : now[i] = asked[i]
  BY AppendProperties
<1>2. \A i \in StatementsIn(tokens) :
          i \in StatementsIn(more) /\ i < last /\ more[i] = tokens[i] /\ tokens[i].n \in (k + 1)..Len(asked)
  <2> SUFFICES ASSUME NEW i \in StatementsIn(tokens)
               PROVE  i \in StatementsIn(more) /\ i < last /\ more[i] = tokens[i]
                      /\ tokens[i].n \in (k + 1)..Len(asked)
    OBVIOUS
  <2>1. i \in 1..Len(tokens) /\ tokens[i].op \in Ops
    BY DEF StatementsIn
  <2>2. more[i] = tokens[i] /\ i \in 1..Len(more) /\ i < last
    BY <1>1, <2>1 DEF Longer
  <2> QED
    BY <2>1, <2>2 DEF HoldsAfter, StatementsIn
<1>3. last \in StatementsIn(more) /\ more[last] = t
  BY <1>1 DEF StatementsIn
<1>4. \A i \in StatementsIn(more) : i = last \/ i \in StatementsIn(tokens)
  <2> SUFFICES ASSUME NEW i \in StatementsIn(more), i # last PROVE i \in StatementsIn(tokens)
    OBVIOUS
  <2>1. i \in 1..Len(more) /\ more[i].op \in Ops /\ i # Len(tokens) + 2
    BY DEF StatementsIn
  <2>2. i \in 1..Len(tokens)
    BY <1>1, <2>1
  <2> QED
    BY <2>1, <2>2 DEF StatementsIn, Longer
<1> HIDE DEF last, now
<1>5. {more[i].n : i \in StatementsIn(more)} = (k + 1)..Len(now)
  <2>1. {tokens[i].n : i \in StatementsIn(tokens)} = (k + 1)..Len(asked)
    BY DEF HoldsAfter
  <2>2. ASSUME NEW i \in StatementsIn(more) PROVE more[i].n \in (k + 1)..Len(now)
    <3>1. CASE i = last
      BY <1>1, <1>3, <3>1
    <3>2. CASE i # last
      <4>1. more[i].n \in (k + 1)..Len(asked)
        BY <1>2, <1>4, <3>2
      <4> QED
        BY <1>1, <4>1
    <3> QED
      BY <3>1, <3>2
  <2>3. ASSUME NEW v \in (k + 1)..Len(now)
        PROVE  \E i \in StatementsIn(more) : more[i].n = v
    <3>1. CASE v = Len(asked) + 1
      BY <1>3, <3>1
    <3>2. CASE v # Len(asked) + 1
      <4>1. v \in (k + 1)..Len(asked)
        BY <1>1, <3>2
      <4>2. PICK i \in StatementsIn(tokens) : tokens[i].n = v
        BY <2>1, <4>1
      <4> QED
        BY <1>2, <4>2
    <3> QED
      BY <3>1, <3>2
  <2> QED
    BY <2>2, <2>3
<1>6. ASSUME NEW i \in StatementsIn(more), NEW j \in StatementsIn(more), i < j
      PROVE  more[i].n < more[j].n
  <2>1. i \in Nat /\ j \in Nat /\ last \in Nat
    BY <1>1 DEF StatementsIn, last
  <2>2. i # last
    BY <1>2, <1>4, <1>6, <2>1
  <2>3. i \in StatementsIn(tokens) /\ more[i] = tokens[i] /\ tokens[i].n \in (k + 1)..Len(asked)
    BY <1>2, <1>4, <2>2
  <2>4. CASE j = last
    BY <1>1, <1>3, <2>3, <2>4
  <2>5. CASE j # last
    BY <1>2, <1>4, <1>6, <2>3, <2>5 DEF HoldsAfter
  <2> QED
    BY <2>4, <2>5
<1>7. ASSUME NEW i \in StatementsIn(more) PROVE more[i] = now[more[i].n]
  <2>1. CASE i = last
    BY <1>1, <1>3, <2>1
  <2>2. CASE i # last
    <3>1. /\ i \in StatementsIn(tokens) /\ more[i] = tokens[i]
          /\ tokens[i].n \in (k + 1)..Len(asked) /\ tokens[i] = asked[tokens[i].n]
      BY <1>2, <1>4, <2>2 DEF HoldsAfter
    <3>2. tokens[i].n \in 1..Len(asked)
      BY <1>1, <3>1
    <3> QED
      BY <1>1, <3>1, <3>2
  <2> QED
    BY <2>1, <2>2
<1> QED
  BY <1>5, <1>6, <1>7 DEF HoldsAfter, now

-----------------------------------------------------------------------------
(* Lines taken from a buffer.                                              *)

LEMMA Cut ==
    ASSUME NEW buf \in Seq(Token), NEW later \in Seq(Token), NEW m \in 0..Len(buf)
    PROVE  /\ SubSeq(buf, m + 1, Len(buf)) \o later \in Seq(Token)
           /\ Suffix(SubSeq(buf, m + 1, Len(buf)) \o later, buf \o later, m)
<1> DEFINE part == SubSeq(buf, m + 1, Len(buf))
<1>1. /\ Len(buf) \in Nat /\ m + 1 \in Int /\ Len(later) \in Nat
      /\ \A i \in (m + 1)..Len(buf) : buf[i] \in Token
  BY LenProperties, ElementOfSeq
<1>2. /\ part \in Seq(Token) /\ Len(part) = Len(buf) - m
      /\ \A i \in 1..(Len(buf) - m) : part[i] = buf[m + i]
  <2>1. /\ part \in Seq(Token)
        /\ Len(part) = IF m + 1 <= Len(buf) THEN Len(buf) - (m + 1) + 1 ELSE 0
        /\ \A i \in 1..(Len(buf) - (m + 1) + 1) : part[i] = buf[(m + 1) + i - 1]
    BY <1>1, SubSeqProperties
  <2> HIDE DEF part
  <2>2. m \in Int /\ Len(buf) - (m + 1) + 1 = Len(buf) - m
    BY <1>1
  <2>3. Len(part) = Len(buf) - m
    BY <1>1, <2>1
  <2>4. ASSUME NEW i \in 1..(Len(buf) - m) PROVE part[i] = buf[m + i]
    <3>1. i \in 1..(Len(buf) - (m + 1) + 1) /\ (m + 1) + i - 1 = m + i
      BY <2>2
    <3> QED
      BY <2>1, <3>1
  <2> QED
    BY <2>1, <2>3, <2>4
<1> HIDE DEF part
<1>3. /\ part \o later \in Seq(Token) /\ Len(part \o later) = Len(part) + Len(later)
      /\ \A i \in 1..(Len(part) + Len(later)) :
            (part \o later)[i] = IF i <= Len(part) THEN part[i] ELSE later[i - Len(part)]
      /\ Len(buf \o later) = Len(buf) + Len(later)
      /\ \A i \in 1..(Len(buf) + Len(later)) :
            (buf \o later)[i] = IF i <= Len(buf) THEN buf[i] ELSE later[i - Len(buf)]
  BY <1>2, ConcatProperties
<1>4. ASSUME NEW i \in 1..Len(part \o later)
      PROVE  (part \o later)[i] = (buf \o later)[i + m]
  <2>1. i \in 1..(Len(part) + Len(later)) /\ i + m \in 1..(Len(buf) + Len(later))
    BY <1>1, <1>2, <1>3
  <2>2. CASE i <= Len(part)
    <3>1. i \in 1..(Len(buf) - m) /\ i + m <= Len(buf) /\ i + m = m + i
      BY <1>1, <1>2, <2>1, <2>2
    <3> QED
      BY <1>2, <1>3, <2>1, <2>2, <3>1
  <2>3. CASE ~(i <= Len(part))
    <3>1. ~(i + m <= Len(buf)) /\ i - Len(part) = (i + m) - Len(buf)
      BY <1>1, <1>2, <2>1, <2>3
    <3> QED
      BY <1>3, <2>1, <2>3, <3>1
  <2> QED
    BY <2>2, <2>3
<1>5. Len(part \o later) = Len(buf \o later) - m
  BY <1>1, <1>2, <1>3
<1> QED
  BY <1>3, <1>4, <1>5 DEF Suffix, part

(* What is left of a stream when a text, or none, was taken from it.       *)
TextTaken(text, rest, k, asked) ==
    /\ rest \in Seq(Token) /\ LinesEnd(rest)
    /\ text = <<>> => HoldsAfter(rest, k, asked)
    /\ text # <<>> /\ text[1].op # "exit" =>
          /\ k + 1 \in 1..Len(asked) /\ text[1] = asked[k + 1]
          /\ HoldsAfter(rest, k + 1, asked)

LEMMA NewlineIsNoStatement ==
    ASSUME NEW t \in Token
    PROVE  /\ IsNewline(t) => t.op \notin Ops
           /\ ~IsNewline(t) /\ t.op # "exit" => t.op \in Ops
           /\ t.op = "exit" => t.op \notin Ops
BY DEF IsNewline, Ops, Token

(* The stream begins with newlines, a text and its newline.                *)
LEMMA TextIsTaken ==
    ASSUME NEW tokens \in Seq(Token), LinesEnd(tokens), NEW k \in Nat, NEW asked \in Seq(Token),
           HoldsAfter(tokens, k, asked),
           NEW p \in 1..Len(tokens), ~IsNewline(tokens[p]),
           \A i \in 1..(p - 1) : IsNewline(tokens[i]),
           NEW rest \in Seq(Token), Suffix(rest, tokens, p + 1)
    PROVE  TextTaken(<<tokens[p]>>, rest, k, asked)
<1>1. p \in Nat /\ p + 1 \in Nat /\ tokens[p] \in Token
  BY ElementOfSeq
<1>2. LinesEnd(rest)
  BY <1>1, SuffixLinesEnd
<1>3. ASSUME tokens[p].op # "exit"
      PROVE  /\ k + 1 \in 1..Len(asked) /\ tokens[p] = asked[k + 1]
             /\ HoldsAfter(rest, k + 1, asked)
  <2>1. tokens[p].op \in Ops
    BY <1>1, <1>3, NewlineIsNoStatement
  <2>2. \A i \in 1..(p + 1) : i <= Len(tokens) /\ i # p => tokens[i].op \notin Ops
    <3> SUFFICES ASSUME NEW i \in 1..(p + 1), i <= Len(tokens), i # p PROVE tokens[i].op \notin Ops
      OBVIOUS
    <3>1. i \in 1..(p - 1) \/ i = p + 1
      BY <1>1
    <3>2. IsNewline(tokens[p + 1])
      BY DEF LinesEnd
    <3>3. tokens[i] \in Token /\ IsNewline(tokens[i])
      BY <3>1, <3>2, ElementOfSeq
    <3> QED
      BY <3>3, NewlineIsNoStatement
  <2>3. p \in 1..(p + 1) /\ p <= Len(tokens)
    BY <1>1
  <2> HIDE DEF HoldsAfter, Suffix
  <2> QED
    BY <1>1, <2>1, <2>2, <2>3, SuffixAfterStatement
<1>4. <<tokens[p]>> # <<>> /\ <<tokens[p]>>[1] = tokens[p]
  OBVIOUS
<1> QED
  BY <1>2, <1>3, <1>4 DEF TextTaken

LEMMA BlankLinesAreTaken ==
    ASSUME NEW tokens \in Seq(Token), LinesEnd(tokens), NEW k \in Nat, NEW asked \in Seq(Token),
           HoldsAfter(tokens, k, asked),
           NEW m \in Nat, \A i \in 1..m : i <= Len(tokens) => IsNewline(tokens[i]),
           NEW rest \in Seq(Token), Suffix(rest, tokens, m)
    PROVE  TextTaken(<<>>, rest, k, asked)
<1>1. LinesEnd(rest)
  BY SuffixLinesEnd
<1>2. \A i \in 1..m : i <= Len(tokens) => tokens[i].op \notin Ops
  <2> SUFFICES ASSUME NEW i \in 1..m, i <= Len(tokens) PROVE tokens[i].op \notin Ops
    OBVIOUS
  <2>1. tokens[i] \in Token /\ IsNewline(tokens[i])
    BY ElementOfSeq
  <2> QED
    BY <2>1, NewlineIsNoStatement
<1>3. HoldsAfter(rest, k, asked)
  BY <1>2, SuffixWithoutStatement
<1> QED
  BY <1>1, <1>3 DEF TextTaken

LEMMA InFront ==
    ASSUME NEW buf \in Seq(Token), NEW later \in Seq(Token)
    PROVE  /\ buf \o later \in Seq(Token) /\ Len(buf \o later) >= Len(buf)
           /\ \A i \in 1..Len(buf) : (buf \o later)[i] = buf[i]
<1>1. /\ buf \o later \in Seq(Token) /\ Len(buf \o later) = Len(buf) + Len(later)
      /\ \A i \in 1..(Len(buf) + Len(later)) :
            (buf \o later)[i] = IF i <= Len(buf) THEN buf[i] ELSE later[i - Len(buf)]
      /\ Len(buf) \in Nat /\ Len(later) \in Nat
  BY ConcatProperties, LenProperties
<1> QED
  BY <1>1

(* The first line of the buffer, in the read branch of the loop.           *)
LEMMA FirstLineIsTaken ==
    ASSUME NEW buf \in Seq(Token), NEW later \in Seq(Token), HasLine(buf),
           LinesEnd(buf \o later), NEW k \in Nat, NEW asked \in Seq(Token),
           HoldsAfter(buf \o later, k, asked)
    PROVE  TextTaken(FirstLine(buf), AfterFirstLine(buf) \o later, k, asked)
<1> DEFINE tokens == buf \o later
<1>1. /\ tokens \in Seq(Token) /\ Len(tokens) >= Len(buf) /\ Len(buf) \in Nat
      /\ \A i \in 1..Len(buf) : tokens[i] = buf[i]
  BY InFront, LenProperties
<1>2. PICK n \in 1..Len(buf) : IsNewline(buf[n])
  BY DEF HasLine
<1>3. CASE IsNewline(buf[1])
  <2>1. FirstLine(buf) = <<>> /\ AfterFirstLine(buf) = SubSeq(buf, 1 + 1, Len(buf))
    BY <1>3, EmptySeq DEF FirstLine, AfterFirstLine
  <2>2. /\ AfterFirstLine(buf) \o later \in Seq(Token)
        /\ Suffix(AfterFirstLine(buf) \o later, tokens, 1)
    BY <1>2, <2>1, Cut
  <2>3. \A i \in 1..1 : i <= Len(tokens) => IsNewline(tokens[i])
    BY <1>1, <1>2, <1>3
  <2> HIDE DEF tokens
  <2>4. LinesEnd(tokens) /\ HoldsAfter(tokens, k, asked)
    BY DEF tokens
  <2> QED
    BY <1>1, <2>1, <2>2, <2>3, <2>4, BlankLinesAreTaken
<1>4. CASE ~IsNewline(buf[1])
  <2>1. FirstLine(buf) = <<buf[1]>> /\ Len(FirstLine(buf)) = 1
    BY <1>4 DEF FirstLine
  <2>2. AfterFirstLine(buf) = SubSeq(buf, 2 + 1, Len(buf))
    BY <2>1 DEF AfterFirstLine
  <2>3. 2 \in 0..Len(buf) /\ 1 \in 1..Len(buf) /\ 1 \in 1..Len(tokens)
    BY <1>1, <1>2, <1>4
  <2>4. /\ AfterFirstLine(buf) \o later \in Seq(Token)
        /\ Suffix(AfterFirstLine(buf) \o later, tokens, 1 + 1)
    BY <2>2, <2>3, Cut
  <2>5. tokens[1] = buf[1]
    BY <1>1, <2>3
  <2> HIDE DEF tokens
  <2>6. LinesEnd(tokens) /\ HoldsAfter(tokens, k, asked)
    BY DEF tokens
  <2> QED
    <3> DEFINE rest == AfterFirstLine(buf) \o later
    <3>1. rest \in Seq(Token) /\ Suffix(rest, tokens, 1 + 1)
      BY <2>4
    <3>2. ~IsNewline(tokens[1]) /\ \A i \in 1..(1 - 1) : IsNewline(tokens[i])
      BY <1>4, <2>5
    <3> HIDE DEF rest
    <3>3. TextTaken(<<tokens[1]>>, rest, k, asked)
      BY <1>1, <2>3, <2>6, <3>1, <3>2, TextIsTaken
    <3> QED
      BY <2>1, <2>5, <3>3 DEF rest
<1> QED
  BY <1>3, <1>4

(* The next statement of the buffer, at the end of the write branch.       *)
LEMMA NextTextIsTaken ==
    ASSUME NEW buf \in Seq(Token), NEW later \in Seq(Token),
           LinesEnd(buf \o later), NEW k \in Nat, NEW asked \in Seq(Token),
           HoldsAfter(buf \o later, k, asked)
    PROVE  TextTaken(NextText(buf), AfterNextText(buf) \o later, k, asked)
<1> DEFINE tokens == buf \o later
<1>1. /\ tokens \in Seq(Token) /\ Len(tokens) >= Len(buf) /\ Len(buf) \in Nat
      /\ \A i \in 1..Len(buf) : tokens[i] = buf[i]
  BY InFront, LenProperties
<1>2. LinesEnd(tokens) /\ HoldsAfter(tokens, k, asked)
  OBVIOUS
<1>3. CASE TextAt(buf) # {}
  <2> DEFINE p == FirstText(buf)
  <2>1. /\ p \in 1..(Len(buf) - 1) /\ ~IsNewline(buf[p])
        /\ \A j \in 1..(p - 1) : IsNewline(buf[j])
    BY <1>3 DEF FirstText, TextAt
  <2>2. NextText(buf) = <<buf[p]>> /\ AfterNextText(buf) = SubSeq(buf, p + 2, Len(buf))
    BY <1>3 DEF NextText, AfterNextText
  <2> HIDE DEF p
  <2>3. p + 1 \in 0..Len(buf) /\ p \in 1..Len(tokens) /\ p \in 1..Len(buf) /\ p + 2 = (p + 1) + 1
    BY <1>1, <2>1
  <2>4. /\ AfterNextText(buf) \o later \in Seq(Token)
        /\ Suffix(AfterNextText(buf) \o later, tokens, p + 1)
    BY <2>2, <2>3, Cut
  <2>5. /\ tokens[p] = buf[p]
        /\ \A j \in 1..(p - 1) : IsNewline(tokens[j])
    BY <1>1, <2>1, <2>3
  <2> HIDE DEF tokens
  <2> QED
    <3> DEFINE rest == AfterNextText(buf) \o later
    <3>1. rest \in Seq(Token) /\ Suffix(rest, tokens, p + 1) /\ ~IsNewline(tokens[p])
      BY <2>1, <2>4, <2>5
    <3> HIDE DEF rest
    <3>2. TextTaken(<<tokens[p]>>, rest, k, asked)
      BY <1>1, <1>2, <2>3, <2>5, <3>1, TextIsTaken
    <3> QED
      BY <2>2, <2>5, <3>2 DEF rest
<1>4. CASE TextAt(buf) = {}
  <2>1. ASSUME NEW i \in 1..(Len(buf) - 1) PROVE IsNewline(buf[i])
    <3> SUFFICES ASSUME ~IsNewline(buf[i]) PROVE FALSE
      OBVIOUS
    <3> DEFINE texts == {j \in 1..(Len(buf) - 1) : ~IsNewline(buf[j])}
    <3>1. texts \subseteq Nat /\ texts # {}
      BY <1>1
    <3> HIDE DEF texts
    <3>2. PICK first \in texts : \A j \in texts : first <= j
      BY <3>1, LeastElement
    <3>3. first \in 1..(Len(buf) - 1) /\ ~IsNewline(buf[first])
      BY <3>2 DEF texts
    <3>4. \A j \in 1..(first - 1) : IsNewline(buf[j])
      <4> SUFFICES ASSUME NEW j \in 1..(first - 1), ~IsNewline(buf[j]) PROVE FALSE
        OBVIOUS
      <4>1. j \in 1..(Len(buf) - 1) /\ ~(first <= j)
        BY <1>1, <3>3
      <4> QED
        BY <3>2, <4>1 DEF texts
    <3>5. first \in TextAt(buf)
      BY <3>3, <3>4 DEF TextAt
    <3> QED
      BY <1>4, <3>5
  <2>2. NextText(buf) = <<>> /\ AfterNextText(buf) = UnfinishedLine(buf)
    BY <1>4 DEF NextText, AfterNextText
  <2>3. PICK m \in 0..Len(buf) :
            /\ AfterNextText(buf) = SubSeq(buf, m + 1, Len(buf))
            /\ \A i \in 1..m : IsNewline(buf[i])
    <3>1. CASE buf = <<>> \/ IsNewline(buf[Len(buf)])
      <4>1. UnfinishedLine(buf) = <<>>
        BY <3>1 DEF UnfinishedLine
      <4>2. SubSeq(buf, Len(buf) + 1, Len(buf)) = <<>>
        BY <1>1, SubSeqEmpty
      <4>3. \A i \in 1..Len(buf) : IsNewline(buf[i])
        <5> SUFFICES ASSUME NEW i \in 1..Len(buf) PROVE IsNewline(buf[i])
          OBVIOUS
        <5>1. buf # <<>> /\ (i = Len(buf) \/ i \in 1..(Len(buf) - 1))
          BY <1>1, EmptySeq
        <5> QED
          BY <2>1, <3>1, <5>1
      <4> QED
        BY <1>1, <2>2, <4>1, <4>2, <4>3
    <3>2. CASE ~(buf = <<>> \/ IsNewline(buf[Len(buf)]))
      <4>1. UnfinishedLine(buf) = <<buf[Len(buf)]>> /\ Len(buf) \in Nat \ {0}
        BY <3>2, EmptySeq DEF UnfinishedLine
      <4>2. SubSeq(buf, Len(buf), Len(buf)) = <<buf[Len(buf)]>>
        <5>1. Len(buf) \in 1..Len(buf)
          BY <4>1
        <5>2. SubSeq(buf, Len(buf), Len(buf)) = <<buf[Len(buf)]>> \o SubSeq(buf, Len(buf) + 1, Len(buf))
          BY <5>1, SubSeqRecursiveFirst
        <5>3. SubSeq(buf, Len(buf) + 1, Len(buf)) = <<>>
          BY <1>1, SubSeqEmpty
        <5>4. <<buf[Len(buf)]>> \in Seq(Token)
          BY <5>1, ElementOfSeq
        <5> QED
          BY <5>2, <5>3, <5>4, ConcatEmptySeq
      <4>3. Len(buf) - 1 \in 0..Len(buf) /\ (Len(buf) - 1) + 1 = Len(buf)
        BY <4>1
      <4> QED
        BY <2>1, <2>2, <4>1, <4>2, <4>3
    <3> QED
      BY <3>1, <3>2
  <2>4. /\ AfterNextText(buf) \o later \in Seq(Token)
        /\ Suffix(AfterNextText(buf) \o later, tokens, m)
    BY <2>3, Cut
  <2>5. \A i \in 1..m : i <= Len(tokens) => IsNewline(tokens[i])
    BY <1>1, <2>3
  <2>6. m \in Nat
    BY <1>1
  <2> HIDE DEF tokens
  <2> QED
    BY <1>1, <1>2, <2>2, <2>4, <2>5, <2>6, BlankLinesAreTaken
<1> QED
  BY <1>3, <1>4

-----------------------------------------------------------------------------
(* The tasks of a connection.                                              *)

LEMMA TasksOfEqual ==
    ASSUME NEW c
    PROVE  \A task : task \in TasksOf(c) <=>
               \/ \E i \in DOMAIN taskQueue : taskQueue[i].id = c /\ task = taskQueue[i].stmt
               \/ worker.pc # "wait" /\ c = conn_id /\ task = stmt
BY DEF TasksOf, WorkerIds

LEMMA NoTasks ==
    ASSUME IInv, NEW c, c \notin InState({"PENDING_RESULT"})
    PROVE  TasksOf(c) = {}
BY TasksOfEqual DEF IInv, TaskIsPending, QueuedIds, WorkerIds

LEMMA TasksAfterAppend ==
    ASSUME taskQueue \in Seq(Task), NEW t \in Task, taskQueue' = Append(taskQueue, t),
           worker' = worker, NEW d
    PROVE  TasksOf(d)' \subseteq TasksOf(d) \union (IF d = t.id THEN {t.stmt} ELSE {})
<1>1. /\ DOMAIN taskQueue' = DOMAIN taskQueue \union {Len(taskQueue) + 1}
      /\ \A i \in DOMAIN taskQueue : taskQueue'[i] = taskQueue[i]
      /\ taskQueue'[Len(taskQueue) + 1] = t
  BY AppendProperties
<1>2. worker'.pc = worker.pc /\ conn_id' = conn_id /\ stmt' = stmt
  BY DEF conn_id, stmt
<1> SUFFICES ASSUME NEW task \in TasksOf(d)', task \notin TasksOf(d)
             PROVE  d = t.id /\ task = t.stmt
  OBVIOUS
<1>3. \/ \E i \in DOMAIN taskQueue' : taskQueue'[i].id = d /\ task = taskQueue'[i].stmt
      \/ worker.pc # "wait" /\ d = conn_id /\ task = stmt
  BY <1>2 DEF TasksOf, WorkerIds
<1>4. /\ ~ \E i \in DOMAIN taskQueue : taskQueue[i].id = d /\ task = taskQueue[i].stmt
      /\ ~(worker.pc # "wait" /\ d = conn_id /\ task = stmt)
  BY TasksOfEqual
<1> QED
  BY <1>1, <1>3, <1>4

LEMMA TasksAfterTail ==
    ASSUME taskQueue \in Seq(Task), taskQueue # <<>>, taskQueue' = Tail(taskQueue),
           worker.pc = "wait", worker'.task = Head(taskQueue), NEW d
    PROVE  TasksOf(d)' \subseteq TasksOf(d)
<1>1. /\ taskQueue' \in Seq(Task) /\ Len(taskQueue') = Len(taskQueue) - 1
      /\ \A i \in 1..Len(taskQueue') : taskQueue'[i] = taskQueue[i + 1]
      /\ Len(taskQueue) \in Nat \ {0} /\ Head(taskQueue) = taskQueue[1]
  BY HeadTailProperties, EmptySeq
<1>2. \A i \in DOMAIN taskQueue' : i + 1 \in DOMAIN taskQueue /\ taskQueue'[i] = taskQueue[i + 1]
  BY <1>1
<1>3. 1 \in DOMAIN taskQueue
  BY <1>1
<1>4. conn_id' = taskQueue[1].id /\ stmt' = taskQueue[1].stmt
  BY <1>1 DEF conn_id, stmt
<1> SUFFICES ASSUME NEW task \in TasksOf(d)'
             PROVE  task \in TasksOf(d)
  OBVIOUS
<1>5. \/ \E i \in DOMAIN taskQueue' : taskQueue'[i].id = d /\ task = taskQueue'[i].stmt
      \/ d = taskQueue[1].id /\ task = taskQueue[1].stmt
  BY <1>4 DEF TasksOf, WorkerIds
<1>6. \E i \in DOMAIN taskQueue : taskQueue[i].id = d /\ task = taskQueue[i].stmt
  BY <1>2, <1>3, <1>5
<1> QED
  BY <1>6, TasksOfEqual

LEMMA TasksOfTheSame ==
    ASSUME taskQueue' = taskQueue, worker'.task = worker.task,
           worker'.pc # "wait" => worker.pc # "wait", NEW d
    PROVE  TasksOf(d)' \subseteq TasksOf(d)
BY DEF TasksOf, WorkerIds, conn_id, stmt

-----------------------------------------------------------------------------
(* What the steps have in common.                                          *)

(* Nothing about the statements of c changes, but perhaps a task is gone.  *)
LEMMA ConservedStays ==
    ASSUME NEW c, Conserved(c), sent'[c] = sent[c], delivered'[c] = delivered[c],
           Taken(c)' = Taken(c), Stream(c)' = Stream(c), TasksOf(c)' \subseteq TasksOf(c),
           connections'[c].state = "WRITING" => connections'[c].response.n = Taken(c)
    PROVE  Conserved(c)'
<1>1. HoldsAfter(Stream(c), Taken(c), sent[c])' /\ LinesEnd(Stream(c))'
  BY DEF Conserved
<1> QED
  BY <1>1 DEF Conserved

LEMMA SameConnection ==
    ASSUME NEW c, Conserved(c), connections'[c].state = connections[c].state,
           connections'[c].recv_buffer = connections[c].recv_buffer,
           connections'[c].response = connections[c].response,
           wire'[c] = wire[c], sent'[c] = sent[c], delivered'[c] = delivered[c],
           TasksOf(c)' \subseteq TasksOf(c)
    PROVE  Conserved(c)'
<1>1. Taken(c)' = Taken(c) /\ Stream(c)' = Stream(c)
  BY DEF Taken, Stream
<1> QED
  BY <1>1, ConservedStays DEF Conserved

LEMMA TakenCounts ==
    ASSUME NEW c, Len(delivered[c]) \in Nat
    PROVE  Taken(c) \in Nat
<1>1. CASE connections[c].state \in {"PENDING_RESULT", "WRITING"}
  <2>1. Taken(c) = Len(delivered[c]) + 1
    BY <1>1 DEF Taken
  <2> QED
    BY <2>1
<1>2. CASE connections[c].state \notin {"PENDING_RESULT", "WRITING"}
  <2>1. Taken(c) = Len(delivered[c]) + 0
    BY <1>2 DEF Taken
  <2> QED
    BY <2>1
<1> QED
  BY <1>1, <1>2

(* A connection takes a line, or finds none.                               *)
LEMMA AfterLineConserves ==
    ASSUME SInv, NEW c \in DOMAIN connections, connections[c].state # "PENDING_RESULT",
           NEW conn \in Connection, NEW text \in Texts, NEW rest \in Seq(Token), NEW k \in Nat,
           connections'[c] = AfterLine(conn, text, rest), taskQueue' = QueueAfterLine(c, text),
           worker' = worker, sent'[c] = sent[c],
           delivered'[c] \in Seq(Reply), Len(delivered'[c]) = k, k <= Len(sent[c]),
           \A i \in DOMAIN delivered'[c] : delivered'[c][i].n = i,
           TextTaken(text, rest \o wire'[c], k, sent[c])
    PROVE  connections'[c].state # "CLOSED" => Conserved(c)'
<1>1. c \in Ids /\ sent[c] \in Seq(Token) /\ taskQueue \in Seq(Task)
  BY DEF SInv, IInv, TypeOK
<1>2. TasksOf(c) = {}
  BY NoTasks DEF SInv, InState
<1>3. CASE text = <<>>
  <2>1. /\ connections'[c].state = "IDLE" /\ connections'[c].recv_buffer = rest
        /\ taskQueue' = taskQueue
    BY <1>3 DEF AfterLine, QueueAfterLine, Connection
  <2>2. Taken(c)' = k /\ Stream(c)' = rest \o wire'[c]
    BY <2>1 DEF Taken, Stream
  <2>3. TasksOf(c)' = {}
    BY <1>2, <2>1, TasksOfTheSame
  <2>4. HoldsAfter(Stream(c), Taken(c), sent[c])' /\ LinesEnd(Stream(c))'
    BY <1>3, <2>2 DEF TextTaken
  <2> QED
    BY <2>1, <2>2, <2>3, <2>4 DEF Conserved
<1>4. CASE text # <<>>
  <2>1. PICK t \in Token : text = <<t>> /\ text[1] = t
    BY <1>4 DEF Texts
  <2>2. CASE t.op = "exit"
    BY <1>4, <2>1, <2>2 DEF AfterLine, Connection
  <2>3. CASE t.op # "exit"
    <3>1. /\ connections'[c].state = "PENDING_RESULT" /\ connections'[c].recv_buffer = rest
          /\ taskQueue' = Append(taskQueue, [id |-> c, stmt |-> t])
      BY <1>4, <2>1, <2>3 DEF AfterLine, QueueAfterLine, Connection
    <3>2. Taken(c)' = k + 1 /\ Stream(c)' = rest \o wire'[c]
      BY <3>1 DEF Taken, Stream
    <3>3. TasksOf(c)' \subseteq {t}
      <4>1. [id |-> c, stmt |-> t] \in Task
        BY <1>1 DEF Task
      <4> QED
        BY <1>1, <1>2, <3>1, <4>1, TasksAfterAppend
    <3>4. k + 1 \in 1..Len(sent[c]) /\ t = sent[c][k + 1]
      BY <1>4, <2>1, <2>3 DEF TextTaken
    <3>5. HoldsAfter(Stream(c), Taken(c), sent[c])' /\ LinesEnd(Stream(c))'
      BY <1>4, <2>1, <2>3, <3>2 DEF TextTaken
    <3> QED
      BY <3>1, <3>2, <3>3, <3>4, <3>5 DEF Conserved
  <2> QED
    BY <2>2, <2>3
<1> QED
  BY <1>3, <1>4

(* The main thread serves c, and leaves the other connections alone.       *)
LEMMA ServedConserves ==
    ASSUME SInv, IInv', NEW c \in DOMAIN connections, connections[c].state # "PENDING_RESULT",
           NEW r, connections' = [connections EXCEPT ![c] = r],
           r.state # "CLOSED" => Conserved(c)',
           \A d \in Ids \ {c} : wire'[d] = wire[d] /\ delivered'[d] = delivered[d],
           \A d \in Ids \ {c} : TasksOf(d)' \subseteq TasksOf(d),
           UNCHANGED <<nextId, worker, mgrDb, peerOpen, sent>>
    PROVE  SInv'
<1>1. /\ DOMAIN connections' = DOMAIN connections /\ connections'[c] = r
      /\ \A d \in DOMAIN connections \ {c} : connections'[d] = connections[d]
      /\ DOMAIN connections \subseteq Ids
  BY DEF SInv, IInv, TypeOK
<1>2. c < nextId /\ nextId \in Nat
  BY DEF SInv, IInv, TypeOK, LoopInvariant
<1>3. FreshIds'
  BY <1>2 DEF SInv, FreshIds
<1>4. SentNumbered'
  BY DEF SInv, SentNumbered
<1>5. WorkerAnswers'
  BY DEF SInv, WorkerAnswers, stmt
<1>6. WorkerInSession'
  <2> SUFFICES ASSUME worker.pc = "run" PROVE mgrDb' = connections'[conn_id].current_db
    BY DEF WorkerInSession, conn_id
  <2>1. conn_id \in DOMAIN connections /\ conn_id # c
    BY WorkerConnection DEF SInv
  <2> QED
    BY <1>1, <2>1 DEF SInv, WorkerInSession
<1>7. ASSUME NEW d \in DOMAIN connections, Live(d)'
      PROVE  Conserved(d)'
  <2>1. CASE d = c
    BY <1>1, <1>7, <2>1 DEF Live
  <2>2. CASE d # c
    <3>1. connections'[d] = connections[d] /\ Conserved(d)
      BY <1>1, <1>7, <2>2 DEF Live, SInv
    <3> QED
      BY <1>1, <2>2, <3>1, SameConnection
  <2> QED
    BY <2>1, <2>2
<1> QED
  BY <1>1, <1>3, <1>4, <1>5, <1>6, <1>7 DEF SInv

-----------------------------------------------------------------------------
(* One lemma per action.                                                   *)

LEMMA TasksAfterLine ==
    ASSUME taskQueue \in Seq(Task), NEW c \in Ids, NEW text \in Texts,
           taskQueue' = QueueAfterLine(c, text), worker' = worker, NEW d, d # c
    PROVE  TasksOf(d)' \subseteq TasksOf(d)
<1>1. CASE taskQueue' = taskQueue
  BY <1>1, TasksOfTheSame
<1>2. CASE taskQueue' # taskQueue
  <2>1. PICK t \in Token : text = <<t>>
    BY <1>2 DEF QueueAfterLine, Texts
  <2>2. taskQueue' = Append(taskQueue, [id |-> c, stmt |-> t])
    BY <1>2, <2>1 DEF QueueAfterLine
  <2>3. [id |-> c, stmt |-> t] \in Task
    BY DEF Task
  <2> QED
    BY <2>2, <2>3, TasksAfterAppend
<1> QED
  BY <1>1, <1>2

LEMMA ServeReadConserves ==
    ASSUME SInv, IInv', NEW c \in Ids, ServeRead(c)
    PROVE  SInv'
<1> DEFINE recv == connections[c].recv_buffer
           buf(k) == recv \o SubSeq(wire[c], 1, k)
           later(k) == SubSeq(wire[c], k + 1, Len(wire[c]))
           conn(k) == [connections[c] EXCEPT !.state = "READING", !.recv_buffer = buf(k)]
           r(k) == IF HasLine(buf(k))
                   THEN AfterLine(conn(k), FirstLine(buf(k)), AfterFirstLine(buf(k)))
                   ELSE conn(k)
<1>1. /\ c \in DOMAIN connections /\ connections[c] \in Connection
      /\ connections[c].state \in {"IDLE", "READING"} /\ wire[c] \in Seq(Token)
      /\ sent[c] \in Seq(Token) /\ recv \in Seq(Token)
      /\ taskQueue \in Seq(Task) /\ delivered[c] \in Seq(Reply)
  BY DEF ServeRead, ReadingStates, SInv, IInv, TypeOK, LoopInvariant, Connection
<1>2. PICK k \in 1..Len(wire[c]) :
          /\ wire' = [wire EXCEPT ![c] = later(k)]
          /\ connections' = [connections EXCEPT ![c] = r(k)]
          /\ taskQueue' = IF HasLine(buf(k)) THEN QueueAfterLine(c, FirstLine(buf(k)))
                          ELSE taskQueue
  BY DEF ServeRead
<1>3. UNCHANGED <<nextId, worker, mgrDb, disk, peerOpen, sent, lines, delivered>>
  BY DEF ServeRead
<1>4. /\ buf(k) \in Seq(Token) /\ later(k) \in Seq(Token) /\ buf(k) \o later(k) = Stream(c)
  <2> DEFINE w == wire[c]
             front == SubSeq(w, 1, k)
             back == SubSeq(w, k + 1, Len(w))
  <2>1. w \in Seq(Token) /\ Len(w) \in Nat /\ k \in 1..Len(w)
    BY <1>1, LenProperties
  <2>2. front \in Seq(Token) /\ back \in Seq(Token)
    <3>1. \A i \in 1..Len(w) : w[i] \in Token
      BY <2>1, ElementOfSeq
    <3> HIDE DEF w
    <3> QED
      BY <2>1, <3>1, SubSeqProperties
  <2>3. front \o back = w
    <3> HIDE DEF w
    <3>1. 1 \in 1..(Len(w) + 1) /\ k \in (1 - 1)..Len(w) /\ Len(w) \in k..Len(w)
      BY <2>1
    <3>2. front \o back = SubSeq(w, 1, Len(w))
      BY <2>1, <3>1, ConcatAdjacentSubSeq
    <3> QED
      BY <2>1, <3>2, SubSeqFull
  <2>4. recv \o front \in Seq(Token) /\ (recv \o front) \o back = recv \o (front \o back)
    <3>1. recv \in Seq(Token)
      BY <1>1
    <3> HIDE DEF recv, front, back
    <3>2. recv \o front \in Seq(Token)
      BY <2>2, <3>1, ConcatProperties
    <3>3. (recv \o front) \o back = recv \o (front \o back)
      BY <2>2, <3>1, ConcatAssociative
    <3> QED
      BY <3>2, <3>3
  <2> QED
    BY <2>2, <2>3, <2>4 DEF Stream
<1>5. conn(k) \in Connection /\ conn(k).state = "READING" /\ conn(k).recv_buffer = buf(k)
  BY <1>1, <1>4 DEF Connection
<1>6. connections'[c] = r(k) /\ wire'[c] = later(k)
  BY <1>1, <1>2 DEF SInv, IInv, TypeOK
<1>7. /\ Conserved(c) /\ Taken(c) = Len(delivered[c]) /\ Taken(c) \in Nat
      /\ Taken(c) <= Len(sent[c])
      /\ HoldsAfter(Stream(c), Taken(c), sent[c]) /\ LinesEnd(Stream(c))
  <2>1. Conserved(c)
    BY <1>1 DEF SInv, Live
  <2>2. Len(delivered[c]) \in Nat /\ connections[c].state \notin {"PENDING_RESULT", "WRITING"}
    BY <1>1, LenProperties
  <2>3. Taken(c) = Len(delivered[c]) + 0
    BY <2>2 DEF Taken
  <2> QED
    BY <2>1, <2>2, <2>3 DEF Conserved
<1> HIDE DEF buf, later, conn, recv
<1>8. CASE ~HasLine(buf(k))
  <2>1. r(k) = conn(k) /\ taskQueue' = taskQueue
    BY <1>2, <1>8
  <2>2. \A d : TasksOf(d)' \subseteq TasksOf(d)
    BY <1>3, <2>1, TasksOfTheSame
  <2>3. Taken(c)' = Taken(c) /\ Stream(c)' = Stream(c)
    BY <1>1, <1>3, <1>4, <1>5, <1>6, <2>1 DEF Taken, Stream
  <2>4. Conserved(c)'
    BY <1>3, <1>5, <1>6, <1>7, <2>1, <2>2, <2>3, ConservedStays
  <2>5. \A d \in Ids \ {c} : wire'[d] = wire[d] /\ delivered'[d] = delivered[d]
    BY <1>2, <1>3 DEF SInv, IInv, TypeOK
  <2> QED
    BY <1>1, <1>2, <1>3, <2>2, <2>4, <2>5, ServedConserves
<1>9. CASE HasLine(buf(k))
  <2> DEFINE text == FirstLine(buf(k))
             rest == AfterFirstLine(buf(k))
  <2>1. text \in Texts /\ rest \in Seq(Token)
    BY <1>4, <1>9, LineTypes
  <2>2. TextTaken(text, rest \o later(k), Taken(c), sent[c])
    BY <1>1, <1>4, <1>7, <1>9, FirstLineIsTaken
  <2>3. r(k) = AfterLine(conn(k), text, rest) /\ taskQueue' = QueueAfterLine(c, text)
    BY <1>2, <1>9
  <2> HIDE DEF text, rest, r
  <2>4. r(k).state # "CLOSED" => Conserved(c)'
    BY <1>1, <1>3, <1>5, <1>6, <1>7, <2>1, <2>2, <2>3, AfterLineConserves DEF Conserved
  <2>5. \A d \in Ids \ {c} : wire'[d] = wire[d] /\ delivered'[d] = delivered[d]
    BY <1>2, <1>3 DEF SInv, IInv, TypeOK
  <2>6. \A d \in Ids \ {c} : TasksOf(d)' \subseteq TasksOf(d)
    BY <1>1, <1>3, <2>1, <2>3, TasksAfterLine
  <2> QED
    BY <1>1, <1>2, <1>3, <2>4, <2>5, <2>6, ServedConserves
<1> QED
  BY <1>8, <1>9

LEMMA ServeWriteAllConserves ==
    ASSUME SInv, IInv', NEW c \in Ids, ServeWriteAll(c)
    PROVE  SInv'
<1> DEFINE buf == connections[c].recv_buffer
           conn == [connections[c] EXCEPT !.response = NoReply, !.send_offset = 0]
           text == NextText(buf)
           rest == AfterNextText(buf)
           r == AfterLine(conn, text, rest)
<1>1. /\ c \in DOMAIN connections /\ connections[c] \in Connection
      /\ connections[c].state = "WRITING" /\ wire[c] \in Seq(Token)
      /\ sent[c] \in Seq(Token) /\ buf \in Seq(Token)
      /\ taskQueue \in Seq(Task) /\ delivered[c] \in Seq(Reply)
      /\ connections[c].response \in Reply
  BY DEF ServeWriteAll, SInv, IInv, TypeOK, LoopInvariant, Connection
<1>2. /\ connections' = [connections EXCEPT ![c] = r]
      /\ taskQueue' = QueueAfterLine(c, text)
      /\ delivered' = [delivered EXCEPT ![c] = Append(@, connections[c].response)]
      /\ UNCHANGED <<nextId, worker, mgrDb, disk, wire, peerOpen, sent, lines>>
  BY DEF ServeWriteAll
<1>3. conn \in Connection
  <2>1. NoReply \in Reply /\ 0 \in 0..1
    BY ConstantTypes
  <2> QED
    BY <1>1, <2>1 DEF Connection
<1>4. text \in Texts /\ rest \in Seq(Token)
  BY <1>1, NextTextTypes
<1>5. /\ Conserved(c) /\ Taken(c) = Len(delivered[c]) + 1 /\ Taken(c) \in Nat
      /\ Taken(c) <= Len(sent[c]) /\ connections[c].response.n = Taken(c)
      /\ HoldsAfter(Stream(c), Taken(c), sent[c]) /\ LinesEnd(Stream(c))
      /\ \A i \in DOMAIN delivered[c] : delivered[c][i].n = i
  <2>1. Conserved(c)
    BY <1>1 DEF SInv, Live
  <2>2. Taken(c) = Len(delivered[c]) + 1 /\ Taken(c) \in Nat
    BY <1>1, LenProperties DEF Taken
  <2> QED
    BY <1>1, <2>1, <2>2 DEF Conserved
<1>6. TextTaken(text, rest \o wire[c], Taken(c), sent[c])
  BY <1>1, <1>5, NextTextIsTaken DEF Stream
<1>7. /\ delivered'[c] \in Seq(Reply) /\ Len(delivered'[c]) = Taken(c)
      /\ \A i \in DOMAIN delivered'[c] : delivered'[c][i].n = i
  <2>1. delivered'[c] = Append(delivered[c], connections[c].response)
    BY <1>2 DEF SInv, IInv, TypeOK
  <2>2. /\ delivered'[c] \in Seq(Reply) /\ Len(delivered'[c]) = Len(delivered[c]) + 1
        /\ \A i \in 1..Len(delivered[c]) : delivered'[c][i] = delivered[c][i]
        /\ delivered'[c][Len(delivered[c]) + 1] = connections[c].response
    BY <1>1, <2>1, AppendProperties
  <2>3. Len(delivered[c]) \in Nat /\ DOMAIN delivered[c] = 1..Len(delivered[c])
        /\ DOMAIN delivered'[c] = 1..Len(delivered'[c])
    BY <1>1, <2>2, LenProperties
  <2>4. ASSUME NEW i \in DOMAIN delivered'[c] PROVE delivered'[c][i].n = i
    <3>1. CASE i \in 1..Len(delivered[c])
      BY <1>5, <2>2, <2>3, <3>1
    <3>2. CASE i = Len(delivered[c]) + 1
      BY <1>5, <2>2, <3>2
    <3> QED
      BY <2>2, <2>3, <2>4, <3>1, <3>2
  <2> QED
    BY <1>5, <2>2, <2>4
<1>8. connections'[c] = r /\ wire'[c] = wire[c]
  BY <1>1, <1>2 DEF SInv, IInv, TypeOK
<1> HIDE DEF buf, conn, text, rest
<1>9. \A d \in Ids \ {c} : wire'[d] = wire[d] /\ delivered'[d] = delivered[d]
  BY <1>2 DEF SInv, IInv, TypeOK
<1>10. \A d \in Ids \ {c} : TasksOf(d)' \subseteq TasksOf(d)
  BY <1>1, <1>2, <1>4, TasksAfterLine
<1>11. r.state # "CLOSED" => Conserved(c)'
  BY <1>1, <1>2, <1>3, <1>4, <1>5, <1>6, <1>7, <1>8, AfterLineConserves
<1> HIDE DEF r
<1> QED
  BY <1>1, <1>2, <1>9, <1>10, <1>11, ServedConserves

LEMMA ServeOtherConserves ==
    ASSUME SInv, IInv', NEW c \in Ids,
           ServeHangup(c) \/ ServeNothing(c) \/ ServeWritePart(c) \/ ServeWriteError(c)
    PROVE  SInv'
<1>1. /\ c \in DOMAIN connections /\ connections[c] \in Connection
      /\ connections[c].state \in {"IDLE", "READING", "WRITING"}
  BY DEF ServeHangup, ServeNothing, ServeWritePart, ServeWriteError,
         ReadingStates, SInv, IInv, TypeOK, LoopInvariant
<1>2. /\ UNCHANGED <<nextId, taskQueue, worker, mgrDb, disk>>
      /\ UNCHANGED <<wire, peerOpen, sent, lines, delivered>>
  BY DEF ServeHangup, ServeNothing, ServeWritePart, ServeWriteError, envVars
<1>3. PICK r : /\ connections' = [connections EXCEPT ![c] = r]
               /\ \/ r.state = "CLOSED"
                  \/ /\ r.recv_buffer = connections[c].recv_buffer
                     /\ r.response = connections[c].response
                     /\ r.state = "WRITING" <=> connections[c].state = "WRITING"
                     /\ r.state # "PENDING_RESULT"
  <2>1. CASE ServeHangup(c) \/ ServeWriteError(c)
    <3>1. Closed(connections[c]).state = "CLOSED"
      BY <1>1 DEF Closed, Connection
    <3> QED
      BY <2>1, <3>1 DEF ServeHangup, ServeWriteError
  <2>2. CASE ServeNothing(c)
    <3> DEFINE r == [connections[c] EXCEPT !.state = "READING"]
    <3>1. connections' = [connections EXCEPT ![c] = r]
      BY <2>2 DEF ServeNothing
    <3>2. /\ r.recv_buffer = connections[c].recv_buffer /\ r.response = connections[c].response
          /\ r.state = "READING" /\ connections[c].state # "WRITING"
      BY <1>1, <2>2 DEF Connection, ServeNothing, ReadingStates
    <3> HIDE DEF r
    <3> QED
      BY <3>1, <3>2
  <2>3. CASE ServeWritePart(c)
    <3> DEFINE r == [connections[c] EXCEPT !.send_offset = 1]
    <3>1. connections' = [connections EXCEPT ![c] = r]
      BY <2>3 DEF ServeWritePart
    <3>2. /\ r.recv_buffer = connections[c].recv_buffer /\ r.response = connections[c].response
          /\ r.state = connections[c].state
      BY <1>1 DEF Connection
    <3> HIDE DEF r
    <3> QED
      BY <1>1, <3>1, <3>2
  <2> QED
    BY <2>1, <2>2, <2>3
<1>4. connections'[c] = r
  BY <1>1, <1>3 DEF SInv, IInv, TypeOK
<1>5. \A d : TasksOf(d)' \subseteq TasksOf(d)
  BY <1>2, TasksOfTheSame
<1>6. ASSUME r.state # "CLOSED" PROVE Conserved(c)'
  <2>1. Conserved(c)
    BY <1>1 DEF SInv, Live
  <2>2. Taken(c)' = Taken(c) /\ Stream(c)' = Stream(c)
    BY <1>1, <1>2, <1>3, <1>4, <1>6 DEF Taken, Stream
  <2>3. connections'[c].state = "WRITING" => connections'[c].response.n = Taken(c)
    BY <1>3, <1>4, <1>6, <2>1 DEF Conserved
  <2> QED
    BY <1>2, <1>5, <2>1, <2>2, <2>3, ConservedStays
<1> QED
  BY <1>1, <1>2, <1>3, <1>5, <1>6, ServedConserves

(* Steps that leave the lines and the answers of every connection alone.   *)
LEMMA QuietConserves ==
    ASSUME SInv, IInv', nextId' = nextId, sent' = sent, delivered' = delivered,
           peerOpen' \subseteq peerOpen,
           \A d \in Ids : wire'[d] \in {wire[d], <<>>},
           \A d \in DOMAIN connections' : Live(d)' =>
              /\ Live(d) /\ wire'[d] = wire[d]
              /\ connections'[d].state = connections[d].state
              /\ connections'[d].recv_buffer = connections[d].recv_buffer
              /\ connections'[d].response = connections[d].response,
           \A d : TasksOf(d)' \subseteq TasksOf(d),
           WorkerAnswers', WorkerInSession'
    PROVE  SInv'
<1>1. FreshIds'
  <2> SUFFICES ASSUME NEW c \in Ids, c >= nextId
               PROVE  /\ wire'[c] = <<>> /\ sent[c] = <<>> /\ delivered[c] = <<>>
                      /\ c \notin peerOpen'
    BY DEF FreshIds
  <2> QED
    BY DEF SInv, FreshIds
<1>2. SentNumbered'
  BY DEF SInv, SentNumbered
<1>3. ASSUME NEW d \in DOMAIN connections', Live(d)'
      PROVE  Conserved(d)'
  <2>1. d \in DOMAIN connections /\ Conserved(d)
    BY <1>3 DEF SInv, Live
  <2> QED
    BY <1>3, <2>1, SameConnection
<1> QED
  BY <1>1, <1>2, <1>3 DEF SInv

LEMMA LoopConserves ==
    ASSUME SInv, IInv', Snapshot \/ Select
    PROVE  SInv'
<1>1. UNCHANGED <<connections, nextId, taskQueue, worker, mgrDb, wire, peerOpen, sent, delivered>>
  BY DEF Snapshot, Select, envVars
<1>2. \A d : TasksOf(d)' \subseteq TasksOf(d)
  BY <1>1, TasksOfTheSame
<1>3. WorkerAnswers' /\ WorkerInSession'
  BY <1>1 DEF SInv, WorkerAnswers, WorkerInSession, stmt, conn_id
<1> QED
  BY <1>1, <1>2, <1>3, QuietConserves DEF Live

LEMMA EraseClosedConserves ==
    ASSUME SInv, IInv', EraseClosed
    PROVE  SInv'
<1>1. /\ UNCHANGED <<nextId, taskQueue, worker, mgrDb, sent, delivered>>
      /\ peerOpen' \subseteq peerOpen
      /\ DOMAIN connections' = DOMAIN connections \ InState({"CLOSED"})
      /\ \A d \in DOMAIN connections' : connections'[d] = connections[d]
      /\ \A d \in Ids : wire'[d] = IF d \in InState({"CLOSED"}) THEN <<>> ELSE wire[d]
  BY DEF EraseClosed
<1>2. \A d : TasksOf(d)' \subseteq TasksOf(d)
  BY <1>1, TasksOfTheSame
<1>3. WorkerAnswers'
  BY <1>1 DEF SInv, WorkerAnswers, stmt
<1>4. WorkerInSession'
  <2> SUFFICES ASSUME worker.pc = "run" PROVE mgrDb = connections'[conn_id].current_db
    BY <1>1 DEF WorkerInSession, conn_id
  <2>1. conn_id \in DOMAIN connections /\ connections[conn_id].state = "PENDING_RESULT"
    BY WorkerConnection DEF SInv
  <2>2. conn_id \in DOMAIN connections'
    BY <1>1, <2>1 DEF InState
  <2> QED
    BY <1>1, <2>2 DEF SInv, WorkerInSession
<1>5. ASSUME NEW d \in DOMAIN connections'
      PROVE  Live(d) /\ connections'[d] = connections[d] /\ wire'[d] = wire[d]
  <2>1. d \in DOMAIN connections /\ d \notin InState({"CLOSED"}) /\ d \in Ids
    BY <1>1 DEF SInv, IInv, TypeOK
  <2> QED
    BY <1>1, <2>1 DEF Live, InState
<1> QED
  BY <1>1, <1>2, <1>3, <1>4, <1>5, QuietConserves

LEMMA AcceptConserves ==
    ASSUME SInv, IInv', Accept
    PROVE  SInv'
<1>1. /\ nextId \in Ids /\ nextId' = nextId + 1 /\ nextId \notin DOMAIN connections
      /\ DOMAIN connections \subseteq Ids /\ nextId \in Nat
  BY ServerAssumption DEF Accept, SInv, IInv, TypeOK, LoopInvariant, Ids
<1>2. /\ DOMAIN connections' = DOMAIN connections \union {nextId}
      /\ connections'[nextId] = NewConnection
      /\ \A d \in DOMAIN connections : connections'[d] = connections[d]
      /\ peerOpen' = peerOpen \union {nextId}
      /\ UNCHANGED <<taskQueue, worker, mgrDb, wire, sent, delivered>>
  BY <1>1 DEF Accept
<1>3. FreshIds'
  <2> SUFFICES ASSUME NEW c \in Ids, c >= nextId'
               PROVE  /\ wire[c] = <<>> /\ sent[c] = <<>> /\ delivered[c] = <<>>
                      /\ c \notin peerOpen'
    BY <1>2 DEF FreshIds
  <2>1. c \in Nat /\ c >= nextId /\ c # nextId
    BY <1>1 DEF Ids
  <2> QED
    BY <1>2, <2>1 DEF SInv, FreshIds
<1>4. SentNumbered'
  BY <1>2 DEF SInv, SentNumbered
<1>5. WorkerAnswers'
  BY <1>2 DEF SInv, WorkerAnswers, stmt
<1>6. WorkerInSession'
  <2> SUFFICES ASSUME worker.pc = "run" PROVE mgrDb = connections'[conn_id].current_db
    BY <1>2 DEF WorkerInSession, conn_id
  <2>1. conn_id \in DOMAIN connections
    BY WorkerConnection DEF SInv
  <2> QED
    BY <1>2, <2>1 DEF SInv, WorkerInSession
<1>7. \A d : TasksOf(d)' \subseteq TasksOf(d)
  BY <1>2, TasksOfTheSame
<1> PICK n \in Ids : n = nextId
  BY <1>1
<1>8. Conserved(n)'
  <2>1. wire[n] = <<>> /\ sent[n] = <<>> /\ delivered[n] = <<>>
    BY <1>1 DEF SInv, FreshIds
  <2>2. connections'[n].state = "IDLE" /\ connections'[n].recv_buffer = <<>>
    BY <1>2 DEF NewConnection
  <2>3. TasksOf(n) = {}
    BY <1>1, NoTasks DEF SInv, InState
  <2>4. TasksOf(n)' = {}
    BY <1>7, <2>3
  <2>5. Len(delivered'[n]) = 0 /\ Stream(n)' = <<>> \o <<>>
    BY <1>2, <2>1, <2>2 DEF Stream
  <2>6. Taken(n)' = 0 /\ Stream(n)' = <<>>
    BY <2>2, <2>5 DEF Taken
  <2>7. HoldsAfter(<<>>, 0, <<>>) /\ LinesEnd(<<>>)
    BY DEF HoldsAfter, LinesEnd, StatementsIn
  <2>8. HoldsAfter(Stream(n), Taken(n), sent[n])' /\ LinesEnd(Stream(n))'
    BY <1>2, <2>1, <2>6, <2>7
  <2> QED
    BY <1>2, <2>1, <2>2, <2>4, <2>6, <2>8 DEF Conserved
<1>9. ASSUME NEW d \in DOMAIN connections, Live(d)'
      PROVE  Conserved(d)'
  <2>1. connections'[d] = connections[d] /\ Conserved(d)
    BY <1>2, <1>9 DEF SInv, Live
  <2> QED
    BY <1>2, <1>7, <2>1, SameConnection
<1> QED
  BY <1>2, <1>3, <1>4, <1>5, <1>6, <1>8, <1>9 DEF SInv

LEMMA PopTaskConserves ==
    ASSUME SInv, IInv', PopTask
    PROVE  SInv'
<1>1. /\ taskQueue \in Seq(Task) /\ taskQueue # <<>> /\ taskQueue' = Tail(taskQueue)
      /\ worker.pc = "wait" /\ worker'.pc = "lookup" /\ worker'.task = Head(taskQueue)
      /\ UNCHANGED <<connections, nextId, wire, peerOpen, sent, delivered>>
  BY DEF PopTask, envVars, SInv, IInv, TypeOK
<1>2. \A d : TasksOf(d)' \subseteq TasksOf(d)
  BY <1>1, TasksAfterTail
<1>3. WorkerAnswers' /\ WorkerInSession'
  BY <1>1 DEF WorkerAnswers, WorkerInSession
<1> QED
  BY <1>1, <1>2, <1>3, QuietConserves DEF Live

LEMMA LookupConserves ==
    ASSUME SInv, IInv', Lookup
    PROVE  SInv'
<1>1. /\ worker.pc = "lookup" /\ worker'.pc \in {"use", "wait"} /\ worker'.task = worker.task
      /\ UNCHANGED <<connections, nextId, taskQueue, wire, peerOpen, sent, delivered>>
  BY DEF Lookup, envVars, SInv, IInv, TypeOK
<1>2. \A d : TasksOf(d)' \subseteq TasksOf(d)
  BY <1>1, TasksOfTheSame
<1>3. WorkerAnswers' /\ WorkerInSession'
  BY <1>1 DEF WorkerAnswers, WorkerInSession
<1> QED
  BY <1>1, <1>2, <1>3, QuietConserves DEF Live

LEMMA UseSessionDbConserves ==
    ASSUME SInv, IInv', UseSessionDb \/ SessionDbMissing
    PROVE  SInv'
<1>1. /\ worker.pc = "use" /\ worker'.pc \in {"run", "store"} /\ worker'.task = worker.task
      /\ UNCHANGED <<connections, nextId, taskQueue, wire, peerOpen, sent, delivered>>
      /\ worker'.pc = "run" => mgrDb' = connections[conn_id].current_db
      /\ worker'.pc = "store" => worker'.reply.n = stmt.n
  <2>1. CASE UseSessionDb
    BY <2>1 DEF UseSessionDb, envVars, SInv, IInv, TypeOK
  <2>2. CASE SessionDbMissing
    BY <2>2 DEF SessionDbMissing, envVars, SInv, IInv, TypeOK
  <2> QED
    BY <2>1, <2>2
<1>2. \A d : TasksOf(d)' \subseteq TasksOf(d)
  BY <1>1, TasksOfTheSame
<1>3. WorkerAnswers' /\ WorkerInSession'
  BY <1>1 DEF WorkerAnswers, WorkerInSession, stmt, conn_id
<1> QED
  BY <1>1, <1>2, <1>3, QuietConserves DEF Live

LEMMA RunQueryConserves ==
    ASSUME SInv, IInv', RunQuery
    PROVE  SInv'
<1>1. worker.pc = "run" /\ conn_id \in DOMAIN connections
  BY WorkerConnection DEF SInv, RunQuery
<1>2. PICK cur : connections' = [connections EXCEPT ![conn_id].current_db = cur]
  BY DEF RunQuery
<1>3. /\ worker'.pc = "store" /\ worker'.task = worker.task /\ worker'.reply.n = stmt.n
      /\ UNCHANGED <<nextId, taskQueue, wire, peerOpen, sent, delivered>>
  BY DEF RunQuery, envVars, SInv, IInv, TypeOK
<1>4. ASSUME NEW d \in DOMAIN connections'
      PROVE  /\ d \in DOMAIN connections
             /\ connections'[d].state = connections[d].state
             /\ connections'[d].recv_buffer = connections[d].recv_buffer
             /\ connections'[d].response = connections[d].response
  <2>1. d \in DOMAIN connections /\ connections[d] \in Connection
    BY <1>2 DEF SInv, IInv, TypeOK
  <2>2. connections'[d] \in {connections[d], [connections[d] EXCEPT !.current_db = cur]}
    BY <1>2, <2>1
  <2> QED
    BY <2>1, <2>2 DEF Connection
<1>5. \A d : TasksOf(d)' \subseteq TasksOf(d)
  BY <1>1, <1>3, TasksOfTheSame
<1>6. WorkerAnswers' /\ WorkerInSession'
  BY <1>3 DEF WorkerAnswers, WorkerInSession, stmt
<1> QED
  BY <1>3, <1>4, <1>5, <1>6, QuietConserves DEF Live

LEMMA StoreResponseConserves ==
    ASSUME SInv, IInv', StoreResponse
    PROVE  SInv'
<1> PICK w \in Ids : w = conn_id
  BY WorkerConnection DEF SInv, StoreResponse
<1> DEFINE answered == [connections[w] EXCEPT !.response = worker.reply,
                                              !.send_offset = 0,
                                              !.state = "WRITING"]
<1>1. /\ worker.pc = "store" /\ w \in DOMAIN connections /\ connections[w] \in Connection
      /\ connections[w].state = "PENDING_RESULT"
  BY WorkerConnection DEF SInv, StoreResponse
<1>2. /\ connections' = [connections EXCEPT ![w] = answered]
      /\ worker'.pc = "wait"
      /\ UNCHANGED <<nextId, taskQueue, wire, peerOpen, sent, delivered>>
  BY <1>1 DEF StoreResponse, envVars, SInv, IInv, TypeOK
<1>3. /\ DOMAIN connections' = DOMAIN connections /\ connections'[w] = answered
      /\ \A d \in DOMAIN connections \ {w} : connections'[d] = connections[d]
  BY <1>1, <1>2 DEF SInv, IInv, TypeOK
<1>4. /\ answered.state = "WRITING" /\ answered.recv_buffer = connections[w].recv_buffer
      /\ answered.response = worker.reply
  BY <1>1 DEF Connection
<1> HIDE DEF answered
<1>5. \A d : TasksOf(d)' \subseteq TasksOf(d)
  BY <1>2 DEF TasksOf, WorkerIds
<1>6. WorkerAnswers' /\ WorkerInSession'
  BY <1>2 DEF WorkerAnswers, WorkerInSession
<1>7. FreshIds' /\ SentNumbered'
  BY <1>2 DEF SInv, FreshIds, SentNumbered
<1>8. Conserved(w)'
  <2>1. Conserved(w)
    BY <1>1 DEF SInv, Live
  <2>2. Len(delivered[w]) \in Nat /\ sent[w] \in Seq(Token)
    BY LenProperties DEF SInv, IInv, TypeOK
  <2>3. Taken(w)' = Taken(w) /\ Stream(w)' = Stream(w) /\ Taken(w) = Len(delivered[w]) + 1
    BY <1>1, <1>2, <1>3, <1>4 DEF Taken, Stream
  <2>4. Taken(w) \in DOMAIN sent[w]
    BY <2>1, <2>2, <2>3, LenProperties DEF Conserved
  <2>5. stmt \in TasksOf(w)
    BY <1>1, TasksOfEqual
  <2>6. stmt.n = Taken(w)
    BY <2>1, <2>4, <2>5 DEF Conserved, SInv, SentNumbered
  <2>7. connections'[w].response.n = Taken(w)
    BY <1>1, <1>3, <1>4, <2>6 DEF SInv, WorkerAnswers
  <2> QED
    BY <1>2, <1>5, <2>1, <2>3, <2>7, ConservedStays
<1>9. ASSUME NEW d \in DOMAIN connections, d # w, Live(d)'
      PROVE  Conserved(d)'
  <2>1. connections'[d] = connections[d] /\ Conserved(d)
    BY <1>3, <1>9 DEF SInv, Live
  <2> QED
    BY <1>2, <1>5, <2>1, SameConnection
<1> QED
  BY <1>3, <1>6, <1>7, <1>8, <1>9 DEF SInv

-----------------------------------------------------------------------------
(* The clients.                                                            *)

LEMMA OneMoreToken ==
    ASSUME NEW buf \in Seq(Token), NEW later \in Seq(Token), NEW t \in Token
    PROVE  /\ later \o <<t>> \in Seq(Token)
           /\ buf \o (later \o <<t>>) = Append(buf \o later, t)
<1>1. <<t>> \in Seq(Token)
  OBVIOUS
<1>2. later \o <<t>> \in Seq(Token) /\ buf \o later \in Seq(Token)
  BY <1>1, ConcatProperties
<1>3. buf \o (later \o <<t>>) = (buf \o later) \o <<t>>
  BY <1>1, ConcatAssociative
<1>4. (buf \o later) \o <<t>> = Append(buf \o later, t)
  BY <1>2, AppendIsConcat
<1> QED
  BY <1>2, <1>3, <1>4

LEMMA NewlineAppended ==
    ASSUME NEW tokens \in Seq(Token), NEW nl \in Token, IsNewline(nl),
           NEW more, more = Append(tokens, nl)
    PROVE  more \in Seq(Token) /\ Longer(more, tokens) /\ (LinesEnd(tokens) => LinesEnd(more))
<1>1. /\ more \in Seq(Token) /\ Len(more) = Len(tokens) + 1 /\ Len(tokens) \in Nat
      /\ \A i \in 1..Len(tokens) : more[i] = tokens[i]
      /\ more[Len(tokens) + 1] = nl
  BY AppendProperties, LenProperties
<1>2. DOMAIN more = 1..(Len(tokens) + 1) /\ DOMAIN tokens = 1..Len(tokens)
  BY <1>1, LenProperties
<1>3. ASSUME LinesEnd(tokens), NEW i \in DOMAIN more, ~IsNewline(more[i])
      PROVE  i + 1 \in DOMAIN more /\ IsNewline(more[i + 1])
  <2>1. i # Len(tokens) + 1
    BY <1>1, <1>3
  <2>2. i \in DOMAIN tokens /\ more[i] = tokens[i]
    BY <1>1, <1>2, <1>3, <2>1
  <2>3. i + 1 \in DOMAIN tokens /\ IsNewline(tokens[i + 1])
    BY <1>3, <2>2 DEF LinesEnd
  <2> QED
    BY <1>1, <1>2, <2>3
<1> QED
  BY <1>1, <1>3 DEF Longer, LinesEnd

LEMMA TextAppended ==
    ASSUME NEW tokens \in Seq(Token), NEW nl \in Token, IsNewline(nl), NEW t \in Token,
           NEW more, more = Append(Append(tokens, t), nl)
    PROVE  /\ more \in Seq(Token) /\ Longer(more, tokens)
           /\ LinesEnd(tokens) => LinesEnd(more)
           /\ Len(more) = Len(tokens) + 2
           /\ more[Len(tokens) + 1] = t /\ more[Len(tokens) + 2] = nl
<1>1. PICK middle \in Seq(Token) :
          /\ middle = Append(tokens, t) /\ Len(middle) = Len(tokens) + 1
          /\ \A i \in 1..Len(tokens) : middle[i] = tokens[i]
          /\ middle[Len(tokens) + 1] = t
  BY AppendProperties
<1>2. /\ more \in Seq(Token) /\ Len(more) = Len(middle) + 1 /\ Len(tokens) \in Nat
      /\ \A i \in 1..Len(middle) : more[i] = middle[i]
      /\ more[Len(middle) + 1] = nl
  BY <1>1, AppendProperties, LenProperties
<1>3. /\ Len(more) = Len(tokens) + 2
      /\ \A i \in 1..Len(tokens) : more[i] = tokens[i]
      /\ more[Len(tokens) + 1] = t /\ more[Len(tokens) + 2] = nl
  BY <1>1, <1>2
<1>4. DOMAIN more = 1..(Len(tokens) + 2) /\ DOMAIN tokens = 1..Len(tokens)
  BY <1>2, <1>3, LenProperties
<1>5. ASSUME LinesEnd(tokens), NEW i \in DOMAIN more, ~IsNewline(more[i])
      PROVE  i + 1 \in DOMAIN more /\ IsNewline(more[i + 1])
  <2>1. i # Len(tokens) + 2 /\ i \in Nat
    BY <1>2, <1>3, <1>4, <1>5
  <2>2. CASE i = Len(tokens) + 1
    <3>1. i + 1 = Len(tokens) + 2 /\ i + 1 \in 1..(Len(tokens) + 2)
      BY <1>2, <2>2
    <3> QED
      BY <1>3, <1>4, <3>1
  <2>3. CASE i # Len(tokens) + 1
    <3>1. i \in DOMAIN tokens /\ more[i] = tokens[i]
      BY <1>2, <1>3, <1>4, <1>5, <2>1, <2>3
    <3>2. i + 1 \in DOMAIN tokens /\ IsNewline(tokens[i + 1])
      BY <1>5, <3>1 DEF LinesEnd
    <3> QED
      BY <1>2, <1>3, <1>4, <3>2
  <2> QED
    BY <2>2, <2>3
<1> QED
  BY <1>2, <1>3, <1>5 DEF Longer, LinesEnd

(* The stream of a connection after its client sends a line.               *)
LEMMA LineSent ==
    ASSUME NEW buf \in Seq(Token), NEW later \in Seq(Token), NEW text \in Texts
    PROVE  LET more == buf \o (later \o text \o <<Newline>>)
           IN  /\ text = <<>> => more = Append(buf \o later, Newline)
               /\ text # <<>> => more = Append(Append(buf \o later, text[1]), Newline)
<1>1. PICK nl \in Token : nl = Newline
  BY ConstantTypes
<1>2. CASE text = <<>>
  <2>1. later \o <<>> = later
    BY ConcatEmptySeq
  <2>2. buf \o (later \o text \o <<nl>>) = Append(buf \o later, nl)
    BY <1>1, <1>2, <2>1, OneMoreToken
  <2> QED
    BY <1>1, <1>2, <2>2
<1>3. CASE text # <<>>
  <2>1. PICK t \in Token : text = <<t>> /\ text[1] = t
    BY <1>3 DEF Texts
  <2>2. later \o <<t>> \in Seq(Token) /\ buf \o (later \o <<t>>) = Append(buf \o later, t)
    BY OneMoreToken
  <2>3. buf \o ((later \o <<t>>) \o <<nl>>) = Append(buf \o (later \o <<t>>), nl)
    BY <2>2, OneMoreToken
  <2> QED
    BY <1>1, <1>3, <2>1, <2>2, <2>3
<1> QED
  BY <1>2, <1>3

(* A client sends a line: the streams of the connections it reaches.       *)
LEMMA LineSentStream ==
    ASSUME SInv, NEW c \in DOMAIN connections, NEW text \in Texts, SendLine(c, text),
           connections' = connections
    PROVE  /\ Stream(c) \in Seq(Token) /\ Stream(c)' \in Seq(Token)
           /\ Longer(Stream(c)', Stream(c))
           /\ LinesEnd(Stream(c)) => LinesEnd(Stream(c)')
           /\ text = <<>> => Stream(c)' = Append(Stream(c), Newline)
           /\ text # <<>> => Stream(c)' = Append(Append(Stream(c), text[1]), Newline)
<1>1. c \in Ids /\ connections[c].recv_buffer \in Seq(Token) /\ wire[c] \in Seq(Token)
  BY DEF SInv, IInv, TypeOK, Connection
<1>2. Stream(c)' = connections[c].recv_buffer \o (wire[c] \o text \o <<Newline>>)
  BY <1>1 DEF SendLine, Stream, SInv, IInv, TypeOK
<1>3. Stream(c) \in Seq(Token)
  BY <1>1, ConcatProperties DEF Stream
<1>4. /\ text = <<>> => Stream(c)' = Append(Stream(c), Newline)
      /\ text # <<>> => Stream(c)' = Append(Append(Stream(c), text[1]), Newline)
  BY <1>1, <1>2, LineSent DEF Stream
<1>5. Newline \in Token /\ IsNewline(Newline)
  BY ConstantTypes DEF IsNewline, Newline
<1>6. CASE text = <<>>
  BY <1>3, <1>4, <1>5, <1>6, NewlineAppended
<1>7. CASE text # <<>>
  <2>1. text[1] \in Token
    BY <1>7 DEF Texts
  <2> QED
    BY <1>3, <1>4, <1>5, <1>7, <2>1, TextAppended
<1> QED
  BY <1>6, <1>7

LEMMA ClientStatementConserves ==
    ASSUME SInv, IInv', NEW c \in Ids, ClientStatement(c)
    PROVE  SInv'
<1>1. PICK t \in Token : /\ t.op \in Ops /\ t.n = Len(sent[c]) + 1
                         /\ SendLine(c, <<t>>)
                         /\ sent' = [sent EXCEPT ![c] = Append(sent[c], t)]
  <2>1. PICK op \in Ops, d \in Dbs :
            /\ SendLine(c, <<[op |-> op, db |-> d, n |-> Len(sent[c]) + 1]>>)
            /\ sent' = [sent EXCEPT ![c] =
                           Append(sent[c], [op |-> op, db |-> d, n |-> Len(sent[c]) + 1])]
    BY DEF ClientStatement
  <2>2. Len(sent[c]) \in Nat
    BY LenProperties DEF SInv, IInv, TypeOK
  <2>3. PICK t \in Token : t = [op |-> op, db |-> d, n |-> Len(sent[c]) + 1]
    <3>1. [op |-> op, db |-> d, n |-> Len(sent[c]) + 1] \in Token
      BY <2>2 DEF Token
    <3> QED
      BY <3>1
  <2> QED
    BY <2>1, <2>3
<1>2. UNCHANGED <<connections, nextId, taskQueue, worker, mgrDb, peerOpen, delivered>>
  BY DEF ClientStatement
<1>3. /\ sent[c] \in Seq(Token) /\ Len(sent[c]) \in Nat
      /\ \A d \in Ids \ {c} : wire'[d] = wire[d] /\ sent'[d] = sent[d]
  BY <1>1, LenProperties DEF SendLine, SInv, IInv, TypeOK
<1>4. /\ sent'[c] = Append(sent[c], t) /\ sent'[c] \in Seq(Token)
      /\ Len(sent'[c]) = Len(sent[c]) + 1
      /\ \A i \in 1..Len(sent[c]) : sent'[c][i] = sent[c][i]
      /\ sent'[c][Len(sent[c]) + 1] = t
  <2>1. sent'[c] = Append(sent[c], t)
    BY <1>1 DEF SInv, IInv, TypeOK
  <2> QED
    BY <1>3, <2>1, AppendProperties
<1>5. FreshIds'
  <2>1. ~(c >= nextId)
    BY <1>1 DEF SInv, FreshIds, SendLine
  <2> QED
    BY <1>2, <1>3, <2>1 DEF SInv, FreshIds
<1>6. SentNumbered'
  <2> SUFFICES ASSUME NEW d \in Ids, NEW k \in DOMAIN sent'[d]
               PROVE  sent'[d][k].n = k /\ sent'[d][k].op \in Ops
    BY DEF SentNumbered
  <2>1. CASE d # c
    BY <1>3, <2>1 DEF SInv, SentNumbered
  <2>2. CASE d = c /\ k \in 1..Len(sent[c])
    BY <1>3, <1>4, <2>2, LenProperties DEF SInv, SentNumbered
  <2>3. CASE d = c /\ k = Len(sent[c]) + 1
    BY <1>1, <1>4, <2>3
  <2>4. d = c => k \in 1..(Len(sent[c]) + 1)
    BY <1>4, LenProperties
  <2> QED
    BY <1>3, <2>1, <2>2, <2>3, <2>4
<1>7. WorkerAnswers' /\ WorkerInSession'
  BY <1>2 DEF SInv, WorkerAnswers, WorkerInSession, stmt, conn_id
<1>8. \A d : TasksOf(d)' \subseteq TasksOf(d)
  BY <1>2, TasksOfTheSame
<1>9. ASSUME c \in DOMAIN connections, Live(c)'
      PROVE  Conserved(c)'
  <2>1. Conserved(c)
    BY <1>2, <1>9 DEF SInv, Live
  <2>2. Taken(c)' = Taken(c) /\ Taken(c) \in Nat /\ Taken(c) <= Len(sent[c])
    <3>1. Len(delivered[c]) \in Nat
      BY LenProperties DEF SInv, IInv, TypeOK
    <3>2. Taken(c) \in Nat
      BY <3>1, TakenCounts
    <3> QED
      BY <1>2, <2>1, <3>2 DEF Taken, Conserved
  <2>3. \A task \in TasksOf(c)' : task = sent'[c][Taken(c)]
    <3> SUFFICES ASSUME NEW task \in TasksOf(c), TasksOf(c)' # {}
                 PROVE  task = sent'[c][Taken(c)]
      BY <1>8
    <3>1. c \in InState({"PENDING_RESULT"})
      BY NoTasks DEF SInv
    <3>2. Len(delivered[c]) \in Nat
      BY LenProperties DEF SInv, IInv, TypeOK
    <3>3. Taken(c) = Len(delivered[c]) + 1
      BY <3>1 DEF Taken, InState
    <3>4. Taken(c) \in 1..Len(sent[c])
      BY <1>3, <2>2, <3>2, <3>3
    <3> QED
      BY <1>4, <2>1, <3>4 DEF Conserved
  <2>4. /\ Stream(c) \in Seq(Token) /\ Stream(c)' \in Seq(Token)
        /\ Longer(Stream(c)', Stream(c)) /\ LinesEnd(Stream(c)')
        /\ Stream(c)' = Append(Append(Stream(c), t), Newline)
    <3>1. <<t>> \in Texts /\ <<t>> # <<>> /\ <<t>>[1] = t
      BY DEF Texts
    <3> QED
      BY <1>1, <1>2, <1>9, <2>1, <3>1, LineSentStream DEF Conserved
  <2>5. Newline \in Token /\ IsNewline(Newline) /\ Newline.op \notin Ops
    BY ConstantTypes, NewlineIsNoStatement DEF IsNewline, Newline
  <2>6. /\ Len(Stream(c)') = Len(Stream(c)) + 2
        /\ Stream(c)'[Len(Stream(c)) + 1] = t /\ Stream(c)'[Len(Stream(c)) + 2] = Newline
    BY <2>4, <2>5, TextAppended
  <2>7. HoldsAfter(Stream(c)', Taken(c), Append(sent[c], t))
    <3>1. HoldsAfter(Stream(c), Taken(c), sent[c])
      BY <2>1 DEF Conserved
    <3>2. Stream(c)'[Len(Stream(c)) + 2].op \notin Ops
      BY <2>5, <2>6
    <3> QED
      BY <1>1, <1>3, <2>2, <2>4, <2>6, <3>1, <3>2, LongerByStatement
  <2>8. HoldsAfter(Stream(c), Taken(c), sent[c])' /\ LinesEnd(Stream(c))'
    BY <1>4, <2>2, <2>4, <2>7
  <2>9. Taken(c)' <= Len(sent'[c])
    BY <1>3, <1>4, <2>2
  <2> QED
    BY <1>2, <2>1, <2>2, <2>3, <2>8, <2>9 DEF Conserved
<1>10. ASSUME NEW d \in DOMAIN connections, d # c, Live(d)'
       PROVE  Conserved(d)'
  <2>1. Conserved(d) /\ d \in Ids
    BY <1>2, <1>10 DEF SInv, Live, IInv, TypeOK
  <2> QED
    BY <1>2, <1>3, <1>8, <1>10, <2>1, SameConnection
<1> QED
  BY <1>2, <1>5, <1>6, <1>7, <1>9, <1>10 DEF SInv

(* A line without a statement: blank, or EXIT.                             *)
LEMMA ClientOtherLineConserves ==
    ASSUME SInv, IInv', NEW c \in Ids, ClientBlankLine(c) \/ ClientExit(c)
    PROVE  SInv'
<1>1. PICK text \in Texts : /\ SendLine(c, text)
                            /\ text # <<>> => text[1].op \notin Ops
  <2>1. CASE ClientBlankLine(c)
    BY <2>1 DEF ClientBlankLine, Texts
  <2>2. CASE ClientExit(c)
    <3>1. PICK t \in Token : t = [op |-> "exit", db |-> AnyDb, n |-> 0]
      BY ConstantTypes DEF Token
    <3>2. SendLine(c, <<t>>) /\ t.op \notin Ops
      BY <2>2, <3>1 DEF ClientExit, Ops
    <3> QED
      BY <3>2 DEF Texts
  <2> QED
    BY <2>1, <2>2
<1>2. UNCHANGED <<connections, nextId, taskQueue, worker, mgrDb, peerOpen, sent, delivered>>
  BY DEF ClientBlankLine, ClientExit
<1>3. \A d \in Ids \ {c} : wire'[d] = wire[d]
  BY <1>1 DEF SendLine, SInv, IInv, TypeOK
<1>4. FreshIds'
  <2>1. ~(c >= nextId)
    BY <1>1 DEF SInv, FreshIds, SendLine
  <2> QED
    BY <1>2, <1>3, <2>1 DEF SInv, FreshIds
<1>5. SentNumbered' /\ WorkerAnswers' /\ WorkerInSession'
  BY <1>2 DEF SInv, SentNumbered, WorkerAnswers, WorkerInSession, stmt, conn_id
<1>6. \A d : TasksOf(d)' \subseteq TasksOf(d)
  BY <1>2, TasksOfTheSame
<1>7. ASSUME c \in DOMAIN connections, Live(c)'
      PROVE  Conserved(c)'
  <2>1. Conserved(c)
    BY <1>2, <1>7 DEF SInv, Live
  <2>2. Taken(c)' = Taken(c) /\ Taken(c) \in Nat /\ sent[c] \in Seq(Token)
    <3>1. Len(delivered[c]) \in Nat /\ sent[c] \in Seq(Token)
      BY LenProperties DEF SInv, IInv, TypeOK
    <3>2. Taken(c) \in Nat
      BY <3>1, TakenCounts
    <3> QED
      BY <1>2, <3>1, <3>2 DEF Taken
  <2>3. /\ Stream(c) \in Seq(Token) /\ Stream(c)' \in Seq(Token)
        /\ Longer(Stream(c)', Stream(c)) /\ LinesEnd(Stream(c)')
        /\ text = <<>> => Stream(c)' = Append(Stream(c), Newline)
        /\ text # <<>> => Stream(c)' = Append(Append(Stream(c), text[1]), Newline)
    BY <1>1, <1>2, <1>7, <2>1, LineSentStream DEF Conserved
  <2>4. Newline \in Token /\ IsNewline(Newline) /\ Newline.op \notin Ops
    BY ConstantTypes, NewlineIsNoStatement DEF IsNewline, Newline
  <2>5. \A i \in 1..Len(Stream(c)') : i > Len(Stream(c)) => Stream(c)'[i].op \notin Ops
    <3>1. CASE text = <<>>
      <4>1. /\ Len(Stream(c)') = Len(Stream(c)) + 1 /\ Len(Stream(c)) \in Nat
            /\ Stream(c)'[Len(Stream(c)) + 1] = Newline
        BY <2>3, <2>4, <3>1, AppendProperties, LenProperties
      <4> QED
        BY <2>4, <4>1
    <3>2. CASE text # <<>>
      <4>1. text[1] \in Token
        BY <3>2 DEF Texts
      <4>2. /\ Len(Stream(c)') = Len(Stream(c)) + 2 /\ Len(Stream(c)) \in Nat
            /\ Stream(c)'[Len(Stream(c)) + 1] = text[1]
            /\ Stream(c)'[Len(Stream(c)) + 2] = Newline
        BY <2>3, <2>4, <3>2, <4>1, TextAppended, LenProperties
      <4> QED
        BY <1>1, <2>4, <3>2, <4>2
    <3> QED
      BY <3>1, <3>2
  <2>6. HoldsAfter(Stream(c)', Taken(c), sent[c])
    BY <2>1, <2>2, <2>3, <2>5, LongerWithoutStatement DEF Conserved
  <2>7. HoldsAfter(Stream(c), Taken(c), sent[c])' /\ LinesEnd(Stream(c))'
    BY <1>2, <2>2, <2>3, <2>6
  <2> QED
    BY <1>2, <1>6, <2>1, <2>2, <2>7 DEF Conserved
<1>8. ASSUME NEW d \in DOMAIN connections, d # c, Live(d)'
      PROVE  Conserved(d)'
  <2>1. Conserved(d) /\ d \in Ids
    BY <1>2, <1>8 DEF SInv, Live, IInv, TypeOK
  <2> QED
    BY <1>2, <1>3, <1>6, <1>8, <2>1, SameConnection
<1> QED
  BY <1>2, <1>4, <1>5, <1>7, <1>8 DEF SInv

LEMMA EnvironmentConserves ==
    ASSUME SInv, IInv', Environment \/ UNCHANGED vars
    PROVE  SInv'
<1>1. CASE \E c \in Ids : ClientStatement(c) \/ ClientBlankLine(c) \/ ClientExit(c)
  BY <1>1, ClientStatementConserves, ClientOtherLineConserves
<1>2. CASE \/ \E c \in Ids : ClientClose(c)
           \/ \E d \in Dbs : DirectoryRemoved(d)
           \/ UNCHANGED vars
  <2>1. /\ UNCHANGED <<connections, nextId, taskQueue, worker, mgrDb, wire, sent, delivered>>
        /\ peerOpen' \subseteq peerOpen
    BY <1>2 DEF ClientClose, DirectoryRemoved, vars, envVars
  <2>2. WorkerAnswers' /\ WorkerInSession'
    BY <2>1 DEF SInv, WorkerAnswers, WorkerInSession, stmt, conn_id
  <2>3. \A d : TasksOf(d)' \subseteq TasksOf(d)
    BY <2>1, TasksOfTheSame
  <2> QED
    BY <2>1, <2>2, <2>3, QuietConserves DEF Live
<1> QED
  BY <1>1, <1>2 DEF Environment

-----------------------------------------------------------------------------

LEMMA InitConserves == Init => SInv
<1> SUFFICES ASSUME Init PROVE SInv
  OBVIOUS
<1>1. IInv
  BY InitInv
<1>2. FreshIds /\ SentNumbered /\ WorkerAnswers /\ WorkerInSession
  BY DEF Init, FreshIds, SentNumbered, WorkerAnswers, WorkerInSession
<1>3. DOMAIN connections = {}
  BY DEF Init
<1> QED
  BY <1>1, <1>2, <1>3 DEF SInv

LEMMA NextConserves == SInv /\ [Next]_vars => SInv'
<1> SUFFICES ASSUME SInv, [Next]_vars PROVE SInv'
  OBVIOUS
<1>1. IInv'
  BY NextInv DEF SInv
<1>2. CASE MainLoop
  <2>1. CASE Snapshot \/ Select \/ Accept \/ EraseClosed
    BY <1>1, <2>1, LoopConserves, AcceptConserves, EraseClosedConserves
  <2>2. ASSUME NEW c \in Ids, ServeConnection(c)
        PROVE  SInv'
    BY <1>1, <2>2, ServeReadConserves, ServeWriteAllConserves, ServeOtherConserves
    DEF ServeConnection
  <2> QED
    BY <1>2, <2>1, <2>2 DEF MainLoop
<1>3. CASE DbWorker
  BY <1>1, <1>3, PopTaskConserves, LookupConserves, UseSessionDbConserves, RunQueryConserves,
     StoreResponseConserves DEF DbWorker
<1>4. CASE Environment \/ UNCHANGED vars
  BY <1>1, <1>4, EnvironmentConserves
<1> QED
  BY <1>2, <1>3, <1>4 DEF Next

THEOREM StatementsInvariant == Spec => []SInv
BY InitConserves, NextConserves, PTL DEF Spec

(* Statements of a live connection are neither lost nor repeated nor       *)
(* reordered nor changed between the send of the client and the answer it  *)
(* reads, for any split of the stream into recv()s (main.cpp:115-123,      *)
(* 186-243, 246-300).                                                      *)
THEOREM StatementsAreConserved == Spec => []StatementsConserved
<1>1. SInv => StatementsConserved
  BY DEF SInv, Conserved, StatementsConserved
<1> QED
  BY <1>1, StatementsInvariant, PTL

-----------------------------------------------------------------------------
(* The refinement of SqlSessions.                                          *)


Answer == [n : Nat, ok : BOOLEAN, ran : Dbs \union {None}]
OneAnswer == {<<>>} \union {<<a>> : a \in Answer}

LEMMA AnswerTypes ==
    ASSUME NEW r \in Reply
    PROVE  AnswerOf(r) \in Answer
BY DEF AnswerOf, Answer, Reply

LEMMA DeliveredTypes ==
    ASSUME IInv, NEW c \in Ids
    PROVE  /\ Delivered(c) \in Seq(Answer) /\ Len(Delivered(c)) = Len(delivered[c])
           /\ Len(delivered[c]) \in Nat
<1> PICK s \in Seq(Reply) : s = delivered[c]
  BY DEF IInv, TypeOK
<1>1. Len(s) \in Nat /\ DOMAIN s = 1..Len(s) /\ \A i \in 1..Len(s) : s[i] \in Reply
  BY LenProperties, ElementOfSeq
<1>2. Delivered(c) = [i \in 1..Len(s) |-> AnswerOf(s[i])]
  BY <1>1 DEF Delivered
<1>3. \A i \in 1..Len(s) : AnswerOf(s[i]) \in Answer
  BY <1>1, AnswerTypes
<1> QED
  BY <1>1, <1>2, <1>3

LEMMA OnItsWayTypes ==
    ASSUME IInv, NEW c \in Ids
    PROVE  OnItsWay(c) \in OneAnswer /\ OnItsWay(c) \in Seq(Answer) /\ Len(OnItsWay(c)) \in {0, 1}
<1>1. OnItsWay(c) \in OneAnswer
  <2>1. CASE worker.pc = "store" /\ conn_id = c
    <3>1. AnswerOf(worker.reply) \in Answer
      BY AnswerTypes DEF IInv, TypeOK
    <3> QED
      BY <2>1, <3>1 DEF OnItsWay, OneAnswer
  <2>2. CASE ~(worker.pc = "store" /\ conn_id = c) /\ c \in InState({"WRITING"})
    <3>1. connections[c].response \in Reply
      BY <2>2 DEF IInv, TypeOK, InState, Connection
    <3>2. AnswerOf(connections[c].response) \in Answer
      BY <3>1, AnswerTypes
    <3> QED
      BY <2>2, <3>2 DEF OnItsWay, OneAnswer
  <2> QED
    BY <2>1, <2>2 DEF OnItsWay, OneAnswer
<1>2. ASSUME NEW o \in OneAnswer PROVE o \in Seq(Answer) /\ Len(o) \in {0, 1}
  <2>1. CASE o = <<>>
    BY <2>1, EmptySeq
  <2>2. CASE o # <<>>
    <3>1. PICK a \in Answer : o = <<a>>
      BY <2>2 DEF OneAnswer
    <3> QED
      BY <3>1
  <2> QED
    BY <2>1, <2>2
<1> QED
  BY <1>1, <1>2

LEMMA AnswersTypes ==
    ASSUME IInv, NEW c \in Ids
    PROVE  Answers(c) \in Seq(Answer) /\ Len(Answers(c)) = Len(delivered[c]) + Len(OnItsWay(c))
<1>1. Answers(c) \in Seq(Answer) /\ Len(Answers(c)) = Len(Delivered(c)) + Len(OnItsWay(c))
  BY DeliveredTypes, OnItsWayTypes, ConcatProperties DEF Answers
<1> QED
  BY <1>1, DeliveredTypes

(* What a step leaves as it was for a session.                             *)
SameAnswers(c) == delivered'[c] = delivered[c] /\ OnItsWay(c)' = OnItsWay(c)
SameSession(c) ==
    /\ Answers(c)' = Answers(c) /\ SessionDb(c)' = SessionDb(c)
    /\ c < nextId' /\ ~Live(c)' <=> c < nextId /\ ~Live(c)

LEMMA AnswersStay ==
    ASSUME NEW c, SameAnswers(c)
    PROVE  Answers(c)' = Answers(c)
BY DEF SameAnswers, Answers, Delivered

LEMMA Stutters ==
    ASSUME \A c \in Ids : SameSession(c), disk' = disk, sent' = sent
    PROVE  UNCHANGED Sessions!vars
<1>1. [c \in Ids |-> Answers(c)]' = [c \in Ids |-> Answers(c)]
  BY DEF SameSession
<1>2. [c \in Ids |-> SessionDb(c)]' = [c \in Ids |-> SessionDb(c)]
  BY DEF SameSession
<1>3. {c \in Ids : c < nextId /\ ~Live(c)}' = {c \in Ids : c < nextId /\ ~Live(c)}
  BY DEF SameSession
<1> QED
  BY <1>1, <1>2, <1>3 DEF Sessions!vars

LEMMA Ends ==
    ASSUME NEW c \in Ids, c < nextId, Live(c), ~Live(c)', nextId' = nextId,
           disk' = disk, sent' = sent,
           \A d \in Ids \ {c} : SameSession(d),
           NEW lost \in {0, 1}, lost <= Len(Answers(c)),
           Answers(c)' = SubSeq(Answers(c), 1, Len(Answers(c)) - lost)
    PROVE  Sessions!Next
<1>1. {d \in Ids : d < nextId /\ ~Live(d)}' = {d \in Ids : d < nextId /\ ~Live(d)} \union {c}
  BY DEF SameSession
<1>2. [d \in Ids |-> SessionDb(d)]' = [[d \in Ids |-> SessionDb(d)] EXCEPT ![c] = None]
  BY DEF SameSession, SessionDb
<1>3. [d \in Ids |-> Answers(d)]' = [[d \in Ids |-> Answers(d)] EXCEPT ![c] =
                                        SubSeq(@, 1, Len(@) - lost)]
  BY DEF SameSession
<1>4. c \notin {d \in Ids : d < nextId /\ ~Live(d)}
  OBVIOUS
<1>5. Sessions!End(c)
  BY <1>1, <1>2, <1>3, <1>4 DEF Sessions!End
<1> QED
  BY <1>5 DEF Sessions!Next

(* A session whose connection and answers a step does not touch.           *)
LEMMA SessionStays ==
    ASSUME NEW d, nextId' = nextId, delivered'[d] = delivered[d],
           d \in DOMAIN connections' <=> d \in DOMAIN connections,
           d \in DOMAIN connections => connections'[d] = connections[d],
           \/ worker' = worker
           \/ /\ ~(worker.pc = "store" /\ conn_id = d)
              /\ ~(worker'.pc = "store" /\ conn_id' = d)
    PROVE  SameSession(d)
<1>1. Live(d)' <=> Live(d)
  BY DEF Live
<1>2. SessionDb(d)' = SessionDb(d)
  BY <1>1 DEF SessionDb, Live
<1>3. d \in InState({"WRITING"})' <=> d \in InState({"WRITING"})
  BY DEF InState
<1>4. OnItsWay(d)' = OnItsWay(d)
  <2>1. CASE worker.pc = "store" /\ conn_id = d
    BY <2>1 DEF OnItsWay, conn_id
  <2>2. CASE ~(worker.pc = "store" /\ conn_id = d)
    <3>1. ~(worker'.pc = "store" /\ conn_id' = d)
      BY <2>2 DEF conn_id
    <3>2. CASE d \in InState({"WRITING"})
      <4>1. d \in DOMAIN connections /\ d \in InState({"WRITING"})'
        BY <1>3, <3>2 DEF InState
      <4> QED
        BY <2>2, <3>1, <3>2, <4>1 DEF OnItsWay
    <3>3. CASE d \notin InState({"WRITING"})
      BY <1>3, <2>2, <3>1, <3>3 DEF OnItsWay
    <3> QED
      BY <3>2, <3>3
  <2> QED
    BY <2>1, <2>2
<1>5. Answers(d)' = Answers(d)
  BY <1>4, AnswersStay DEF SameAnswers
<1> QED
  BY <1>1, <1>2, <1>5 DEF SameSession

(* The main thread serves c: c goes on with the answers it has, or ends,   *)
(* which may cost it the newest one.                                       *)
LEMMA ServedRefines ==
    ASSUME IInv, NEW c \in DOMAIN connections, connections[c].state # "CLOSED",
           NEW r, connections' = [connections EXCEPT ![c] = r],
           r.current_db = connections[c].current_db,
           UNCHANGED <<nextId, worker, disk, sent>>,
           \A d \in Ids \ {c} : delivered'[d] = delivered[d],
           \/ Answers(c)' = Answers(c)
           \/ /\ r.state = "CLOSED" /\ Len(Answers(c)) >= 1
              /\ Answers(c)' = SubSeq(Answers(c), 1, Len(Answers(c)) - 1)
    PROVE  [Sessions!Next]_(Sessions!vars)
<1>1. /\ DOMAIN connections' = DOMAIN connections /\ connections'[c] = r
      /\ \A d \in DOMAIN connections \ {c} : connections'[d] = connections[d]
      /\ c \in Ids /\ c < nextId
  BY DEF IInv, TypeOK, LoopInvariant
<1>2. \A d \in Ids \ {c} : SameSession(d)
  BY <1>1, SessionStays
<1>3. Live(c)
  BY DEF Live
<1>4. CASE r.state # "CLOSED"
  <2>1. Live(c)' /\ SessionDb(c)' = SessionDb(c)
    BY <1>1, <1>3, <1>4 DEF Live, SessionDb
  <2>2. SameSession(c)
    BY <1>1, <1>3, <1>4, <2>1 DEF SameSession
  <2> QED
    BY <1>2, <2>2, Stutters
<1>5. CASE r.state = "CLOSED"
  <2>1. ~Live(c)'
    BY <1>1, <1>5 DEF Live
  <2>2. Answers(c) \in Seq(Answer) /\ Len(Answers(c)) \in Nat
    BY <1>1, AnswersTypes, LenProperties
  <2>3. PICK lost \in {0, 1} :
            /\ lost <= Len(Answers(c))
            /\ Answers(c)' = SubSeq(Answers(c), 1, Len(Answers(c)) - lost)
    <3>1. CASE Answers(c)' = Answers(c)
      <4>1. SubSeq(Answers(c), 1, Len(Answers(c))) = Answers(c)
        BY <2>2, SubSeqFull
      <4>2. Len(Answers(c)) - 0 = Len(Answers(c)) /\ 0 <= Len(Answers(c))
        BY <2>2
      <4> WITNESS 0 \in {0, 1}
      <4> QED
        BY <3>1, <4>1, <4>2
    <3>2. CASE Answers(c)' # Answers(c)
      <4> WITNESS 1 \in {0, 1}
      <4> QED
        BY <2>2, <3>2
    <3> QED
      BY <3>1, <3>2
  <2> QED
    BY <1>1, <1>2, <1>3, <2>1, <2>3, Ends
<1> QED
  BY <1>4, <1>5

(* No answer is on its way to a connection that reads.                     *)
LEMMA NothingOnItsWay ==
    ASSUME IInv, NEW c, c \notin InState({"PENDING_RESULT", "WRITING"})
    PROVE  OnItsWay(c) = <<>>
<1>1. ~(worker.pc = "store" /\ conn_id = c)
  BY WorkerConnection DEF InState
<1> QED
  BY <1>1 DEF OnItsWay, InState

LEMMA ReadingRefines ==
    ASSUME IInv, IInv', NEW c \in DOMAIN connections, connections[c].state \in {"IDLE", "READING"},
           NEW r, connections' = [connections EXCEPT ![c] = r],
           r.current_db = connections[c].current_db, r.state # "WRITING",
           UNCHANGED <<nextId, worker, disk, sent, delivered>>
    PROVE  [Sessions!Next]_(Sessions!vars)
<1>1. connections'[c] = r
  BY DEF IInv, TypeOK
<1>2. OnItsWay(c) = <<>>
  BY NothingOnItsWay DEF InState
<1>3. OnItsWay(c)' = <<>>
  <2>1. ~(worker.pc = "store" /\ conn_id = c)
    BY WorkerConnection
  <2>2. ~(worker'.pc = "store" /\ conn_id' = c)
    BY <2>1 DEF conn_id
  <2>3. c \notin InState({"WRITING"})'
    BY <1>1 DEF InState
  <2> QED
    BY <2>2, <2>3 DEF OnItsWay
<1>4. Answers(c)' = Answers(c)
  BY <1>2, <1>3, AnswersStay DEF SameAnswers
<1> QED
  BY <1>4, ServedRefines

LEMMA AfterLineKeeps ==
    ASSUME NEW conn \in Connection, NEW text, NEW rest
    PROVE  /\ AfterLine(conn, text, rest).current_db = conn.current_db
           /\ AfterLine(conn, text, rest).state # "WRITING"
BY DEF AfterLine, Connection

LEMMA ServeReadRefines ==
    ASSUME IInv, IInv', NEW c \in Ids, ServeRead(c)
    PROVE  [Sessions!Next]_(Sessions!vars)
<1>1. /\ c \in DOMAIN connections /\ connections[c] \in Connection
      /\ connections[c].state \in {"IDLE", "READING"}
      /\ UNCHANGED <<nextId, worker, disk, sent, delivered>>
  BY DEF ServeRead, ReadingStates, IInv, TypeOK, LoopInvariant
<1> DEFINE buf(k) == connections[c].recv_buffer \o SubSeq(wire[c], 1, k)
           conn(k) == [connections[c] EXCEPT !.state = "READING", !.recv_buffer = buf(k)]
           r(k) == IF HasLine(buf(k))
                   THEN AfterLine(conn(k), FirstLine(buf(k)), AfterFirstLine(buf(k)))
                   ELSE conn(k)
<1>2. PICK k \in 1..Len(wire[c]) : connections' = [connections EXCEPT ![c] = r(k)]
  BY DEF ServeRead
<1>3. conn(k).state = "READING" /\ conn(k).current_db = connections[c].current_db
  BY <1>1 DEF Connection
<1>4. buf(k) \in Seq(Token) /\ conn(k) \in Connection
  <2>1. /\ connections[c].recv_buffer \in Seq(Token) /\ wire[c] \in Seq(Token)
        /\ Len(wire[c]) \in Nat /\ \A i \in 1..Len(wire[c]) : wire[c][i] \in Token
    BY <1>1, LenProperties, ElementOfSeq DEF IInv, TypeOK, Connection
  <2>2. SubSeq(wire[c], 1, k) \in Seq(Token)
    BY <2>1, SubSeqProperties
  <2>3. buf(k) \in Seq(Token)
    BY <2>1, <2>2, ConcatProperties
  <2> HIDE DEF buf
  <2> QED
    BY <1>1, <2>3 DEF Connection
<1> HIDE DEF buf, conn
<1>5. r(k).current_db = connections[c].current_db /\ r(k).state # "WRITING"
  BY <1>3, <1>4, AfterLineKeeps
<1> HIDE DEF r
<1> QED
  BY <1>1, <1>2, <1>5, ReadingRefines

LEMMA ServeOtherRefines ==
    ASSUME IInv, IInv', NEW c \in Ids, ServeHangup(c) \/ ServeNothing(c)
    PROVE  [Sessions!Next]_(Sessions!vars)
<1>1. /\ c \in DOMAIN connections /\ connections[c] \in Connection
      /\ connections[c].state \in {"IDLE", "READING"}
      /\ UNCHANGED <<nextId, worker, disk, sent, delivered>>
  BY DEF ServeHangup, ServeNothing, ReadingStates, IInv, TypeOK, LoopInvariant, envVars
<1>2. PICK r : /\ connections' = [connections EXCEPT ![c] = r]
               /\ r.current_db = connections[c].current_db /\ r.state # "WRITING"
  <2>1. CASE ServeHangup(c)
    <3>1. /\ Closed(connections[c]).current_db = connections[c].current_db
          /\ Closed(connections[c]).state # "WRITING"
      BY <1>1 DEF Closed, Connection
    <3> QED
      BY <2>1, <3>1 DEF ServeHangup
  <2>2. CASE ServeNothing(c)
    <3> DEFINE r == [connections[c] EXCEPT !.state = "READING"]
    <3>1. connections' = [connections EXCEPT ![c] = r]
      BY <2>2 DEF ServeNothing
    <3>2. r.current_db = connections[c].current_db /\ r.state # "WRITING"
      BY <1>1 DEF Connection
    <3> HIDE DEF r
    <3> QED
      BY <3>1, <3>2
  <2> QED
    BY <2>1, <2>2
<1> QED
  BY <1>1, <1>2, ReadingRefines

(* The response of a connection that is written is its newest answer.      *)
LEMMA WritingAnswers ==
    ASSUME IInv, NEW c \in DOMAIN connections, connections[c].state = "WRITING"
    PROVE  /\ OnItsWay(c) = <<AnswerOf(connections[c].response)>>
           /\ connections[c].response \in Reply
           /\ Delivered(c) \in Seq(Answer)
           /\ Answers(c) = Append(Delivered(c), AnswerOf(connections[c].response))
           /\ worker.pc = "store" => conn_id # c
<1>1. worker.pc = "store" => conn_id # c
  BY WorkerConnection
<1>2. OnItsWay(c) = <<AnswerOf(connections[c].response)>>
  BY <1>1 DEF OnItsWay, InState
<1>3. connections[c].response \in Reply /\ c \in Ids
  BY DEF IInv, TypeOK, Connection
<1>4. AnswerOf(connections[c].response) \in Answer /\ Delivered(c) \in Seq(Answer)
  BY <1>3, AnswerTypes, DeliveredTypes
<1>5. Answers(c) = Delivered(c) \o <<AnswerOf(connections[c].response)>>
  BY <1>2 DEF Answers
<1>6. Answers(c) = Append(Delivered(c), AnswerOf(connections[c].response))
  BY <1>4, <1>5, AppendIsConcat
<1> QED
  BY <1>1, <1>2, <1>3, <1>4, <1>6

(* An answer that is delivered stays the newest answer.                    *)
LEMMA DeliveredAppend ==
    ASSUME IInv, NEW c \in Ids, NEW a \in Reply, delivered'[c] = Append(delivered[c], a)
    PROVE  Delivered(c)' = Append(Delivered(c), AnswerOf(a))
<1> PICK old \in Seq(Reply), new \in Seq(Reply) :
        old = delivered[c] /\ new = delivered'[c] /\ new = Append(old, a)
  <2>1. delivered[c] \in Seq(Reply)
    BY DEF IInv, TypeOK
  <2> QED
    BY <2>1, AppendProperties
<1>1. /\ Len(new) = Len(old) + 1 /\ Len(old) \in Nat /\ new[Len(old) + 1] = a
      /\ \A i \in 1..Len(old) : new[i] = old[i]
      /\ DOMAIN new = 1..Len(new) /\ DOMAIN old = 1..Len(old)
  BY AppendProperties, LenProperties
<1>2. Delivered(c)' = [i \in 1..(Len(old) + 1) |-> AnswerOf(new[i])]
  BY <1>1 DEF Delivered
<1>3. Delivered(c) = [i \in 1..Len(old) |-> AnswerOf(old[i])]
  BY <1>1 DEF Delivered
<1>4. /\ Delivered(c) \in Seq(Answer) /\ AnswerOf(a) \in Answer
      /\ Len(Delivered(c)) = Len(old)
  BY DeliveredTypes, AnswerTypes
<1> DEFINE app == Append(Delivered(c), AnswerOf(a))
<1>5. /\ app \in Seq(Answer) /\ Len(app) = Len(old) + 1 /\ app[Len(old) + 1] = AnswerOf(a)
      /\ \A i \in 1..Len(old) : app[i] = Delivered(c)[i]
  BY <1>4, AppendProperties
<1>6. app = [i \in 1..(Len(old) + 1) |-> app[i]]
  BY <1>5, LenProperties
<1> HIDE DEF app
<1>7. \A i \in 1..(Len(old) + 1) : app[i] = AnswerOf(new[i])
  <2> SUFFICES ASSUME NEW i \in 1..(Len(old) + 1) PROVE app[i] = AnswerOf(new[i])
    OBVIOUS
  <2>1. CASE i = Len(old) + 1
    BY <1>1, <1>5, <2>1
  <2>2. CASE i \in 1..Len(old)
    <3>1. new[i] = old[i] /\ app[i] = Delivered(c)[i]
      BY <1>1, <1>5, <2>2
    <3>2. Delivered(c)[i] = AnswerOf(old[i])
      BY <1>3, <2>2
    <3>3. AnswerOf(new[i]) = AnswerOf(old[i])
      BY <3>1
    <3> QED
      BY <3>1, <3>2, <3>3
  <2> QED
    BY <1>1, <2>1, <2>2
<1>8. app = [i \in 1..(Len(old) + 1) |-> AnswerOf(new[i])]
  BY <1>6, <1>7
<1> QED
  BY <1>2, <1>8 DEF app

LEMMA ServeWriteAllRefines ==
    ASSUME IInv, IInv', NEW c \in Ids, ServeWriteAll(c)
    PROVE  [Sessions!Next]_(Sessions!vars)
<1>1. /\ c \in DOMAIN connections /\ connections[c] \in Connection
      /\ connections[c].state = "WRITING"
      /\ UNCHANGED <<nextId, worker, disk, sent>>
  BY DEF ServeWriteAll, IInv, TypeOK, LoopInvariant
<1>2. PICK r : /\ connections' = [connections EXCEPT ![c] = r]
               /\ r.current_db = connections[c].current_db /\ r.state # "WRITING"
  <2> DEFINE conn == [connections[c] EXCEPT !.response = NoReply, !.send_offset = 0]
             r == AfterLine(conn, NextText(connections[c].recv_buffer),
                            AfterNextText(connections[c].recv_buffer))
  <2>1. connections' = [connections EXCEPT ![c] = r]
    BY DEF ServeWriteAll
  <2>2. conn \in Connection /\ conn.current_db = connections[c].current_db
    <3>1. NoReply \in Reply /\ 0 \in 0..1
      BY ConstantTypes
    <3> QED
      BY <1>1, <3>1 DEF Connection
  <2> HIDE DEF conn
  <2>3. r.current_db = connections[c].current_db /\ r.state # "WRITING"
    BY <2>2, AfterLineKeeps
  <2> HIDE DEF r
  <2> QED
    BY <2>1, <2>3
<1>3. /\ delivered'[c] = Append(delivered[c], connections[c].response)
      /\ \A d \in Ids \ {c} : delivered'[d] = delivered[d]
      /\ connections'[c] = r
  BY <1>1, <1>2 DEF ServeWriteAll, IInv, TypeOK
<1>4. /\ connections[c].response \in Reply
      /\ Answers(c) = Append(Delivered(c), AnswerOf(connections[c].response))
      /\ worker.pc = "store" => conn_id # c
  BY <1>1, WritingAnswers
<1>5. Delivered(c)' = Append(Delivered(c), AnswerOf(connections[c].response))
  BY <1>3, <1>4, DeliveredAppend
<1>6. OnItsWay(c)' = <<>>
  <2>1. ~(worker'.pc = "store" /\ conn_id' = c)
    BY <1>1, <1>4 DEF conn_id
  <2>2. c \notin InState({"WRITING"})'
    BY <1>2, <1>3 DEF InState
  <2> QED
    BY <2>1, <2>2 DEF OnItsWay
<1>7. Answers(c)' = Answers(c)
  <2>1. PICK s \in Seq(Answer) : s = Answers(c)
    BY AnswersTypes
  <2>2. Answers(c)' = Answers(c) \o <<>>
    BY <1>4, <1>5, <1>6 DEF Answers
  <2>3. s \o <<>> = s
    BY ConcatEmptySeq
  <2> QED
    BY <2>1, <2>2, <2>3
<1> QED
  BY <1>1, <1>2, <1>3, <1>7, ServedRefines

LEMMA ServeWritePartRefines ==
    ASSUME IInv, IInv', NEW c \in Ids, ServeWritePart(c)
    PROVE  [Sessions!Next]_(Sessions!vars)
<1> DEFINE r == [connections[c] EXCEPT !.send_offset = 1]
<1>1. /\ c \in DOMAIN connections /\ connections[c] \in Connection
      /\ connections[c].state = "WRITING"
      /\ connections' = [connections EXCEPT ![c] = r] /\ connections'[c] = r
      /\ UNCHANGED <<nextId, worker, disk, sent, delivered>>
  BY DEF ServeWritePart, IInv, TypeOK, LoopInvariant, envVars
<1>2. /\ r.current_db = connections[c].current_db /\ r.state = "WRITING"
      /\ r.response = connections[c].response
  BY <1>1 DEF Connection
<1> HIDE DEF r
<1>3. c \in DOMAIN connections'
  BY <1>1
<1>4. OnItsWay(c)' = <<AnswerOf(connections[c].response)>>
  <2>1. connections'[c].state = "WRITING" /\ connections'[c].response = connections[c].response
    BY <1>1, <1>2
  <2>2. c \in InState({"WRITING"})'
    BY <1>3, <2>1 DEF InState
  <2>3. ~(worker'.pc = "store" /\ conn_id' = c)
    BY <1>1, WritingAnswers DEF conn_id
  <2> QED
    BY <2>1, <2>2, <2>3 DEF OnItsWay, AnswerOf
<1>5. Answers(c)' = Answers(c)
  BY <1>1, <1>4, AnswersStay, WritingAnswers DEF SameAnswers
<1> QED
  BY <1>1, <1>2, <1>5, ServedRefines

LEMMA ServeWriteErrorRefines ==
    ASSUME IInv, IInv', NEW c \in Ids, ServeWriteError(c)
    PROVE  [Sessions!Next]_(Sessions!vars)
<1> DEFINE r == Closed(connections[c])
<1>1. /\ c \in DOMAIN connections /\ connections[c] \in Connection
      /\ connections[c].state = "WRITING"
      /\ connections' = [connections EXCEPT ![c] = r] /\ connections'[c] = r
      /\ UNCHANGED <<nextId, worker, disk, sent, delivered>>
  BY DEF ServeWriteError, IInv, TypeOK, LoopInvariant, envVars
<1>2. r.current_db = connections[c].current_db /\ r.state = "CLOSED"
  BY <1>1 DEF Connection, Closed
<1> HIDE DEF r
<1>3. /\ connections[c].response \in Reply /\ Delivered(c) \in Seq(Answer)
      /\ Answers(c) = Append(Delivered(c), AnswerOf(connections[c].response))
      /\ worker.pc = "store" => conn_id # c
  BY <1>1, WritingAnswers
<1>4. Answers(c)' = Delivered(c)
  <2>1. ~(worker'.pc = "store" /\ conn_id' = c)
    BY <1>1, <1>3 DEF conn_id
  <2>2. c \notin InState({"WRITING"})'
    BY <1>1, <1>2 DEF InState
  <2>3. OnItsWay(c)' = <<>>
    BY <2>1, <2>2 DEF OnItsWay
  <2>4. Delivered(c)' = Delivered(c)
    BY <1>1 DEF Delivered
  <2>5. Answers(c)' = Delivered(c) \o <<>>
    BY <2>3, <2>4 DEF Answers
  <2>6. Delivered(c) \o <<>> = Delivered(c)
    BY <1>3, ConcatEmptySeq
  <2> QED
    BY <2>5, <2>6
<1>5. /\ Len(Answers(c)) >= 1
      /\ SubSeq(Answers(c), 1, Len(Answers(c)) - 1) = Delivered(c)
  <2>1. PICK s \in Seq(Answer), a \in Answer :
            s = Delivered(c) /\ a = AnswerOf(connections[c].response)
    BY <1>3, AnswerTypes
  <2> DEFINE app == Append(s, a)
  <2>2. /\ app \in Seq(Answer) /\ Len(app) = Len(s) + 1 /\ Len(s) \in Nat
        /\ \A i \in 1..Len(s) : app[i] = s[i]
    BY AppendProperties, LenProperties
  <2>3. SubSeq(app, 1, Len(s)) = s
    <3>1. \A i \in 1..Len(s) : app[i] \in Answer
      BY <2>2, ElementOfSeq
    <3> HIDE DEF app
    <3>2. /\ SubSeq(app, 1, Len(s)) \in Seq(Answer) /\ Len(SubSeq(app, 1, Len(s))) = Len(s)
          /\ \A i \in 1..Len(s) : SubSeq(app, 1, Len(s))[i] = s[i]
      BY <2>2, <3>1, SubSeqProperties
    <3> QED
      BY <3>2, SeqEqual
  <2> HIDE DEF app
  <2>4. Answers(c) = app
    BY <1>3, <2>1 DEF app
  <2>5. Len(app) - 1 = Len(s) /\ Len(app) >= 1
    BY <2>2
  <2> QED
    BY <2>1, <2>3, <2>4, <2>5
<1> QED
  BY <1>1, <1>2, <1>4, <1>5, ServedRefines

-----------------------------------------------------------------------------
(* The rest of the select() loop.                                          *)

LEMMA SnapshotSelectRefine ==
    ASSUME IInv, Snapshot \/ Select
    PROVE  [Sessions!Next]_(Sessions!vars)
<1>1. UNCHANGED <<connections, nextId, worker, disk, sent, delivered>>
  BY DEF Snapshot, Select, envVars
<1>2. \A d \in Ids : SameSession(d)
  BY <1>1, SessionStays
<1> QED
  BY <1>1, <1>2, Stutters

(* A connection that is accepted has seen nothing yet.                     *)
LEMMA AcceptRefines ==
    ASSUME SInv, Accept
    PROVE  [Sessions!Next]_(Sessions!vars)
<1> PICK n \in Ids : /\ n = nextId /\ nextId' = n + 1 /\ n \notin DOMAIN connections
                     /\ n \in Nat /\ DOMAIN connections \subseteq 1..(n - 1)
  BY ServerAssumption DEF Accept, SInv, IInv, TypeOK, LoopInvariant, Ids
<1>1. /\ DOMAIN connections' = DOMAIN connections \union {n}
      /\ connections'[n] = NewConnection
      /\ \A d \in DOMAIN connections : connections'[d] = connections[d]
      /\ UNCHANGED <<worker, disk, sent, delivered>>
  BY DEF Accept
<1>2. ASSUME NEW d \in Ids PROVE OnItsWay(d)' = OnItsWay(d)
  <2>1. d \in InState({"WRITING"})' <=> d \in InState({"WRITING"})
    BY <1>1 DEF InState, NewConnection
  <2>2. d \in InState({"WRITING"}) => connections'[d] = connections[d]
    BY <1>1 DEF InState
  <2> QED
    BY <1>1, <2>1, <2>2 DEF OnItsWay, conn_id
<1>3. ASSUME NEW d \in Ids PROVE SameSession(d)
  <2>1. Answers(d)' = Answers(d)
    BY <1>1, <1>2, AnswersStay DEF SameAnswers
  <2>2. CASE d = n
    <3>1. ~Live(d) /\ Live(d)' /\ connections'[d].current_db = None
      BY <1>1, <2>2 DEF Live, NewConnection
    <3> QED
      BY <2>1, <2>2, <3>1 DEF SameSession, SessionDb
  <2>3. CASE d # n
    <3>1. (Live(d)' <=> Live(d)) /\ (Live(d) => connections'[d] = connections[d])
      BY <1>1, <2>3 DEF Live
    <3>2. d < nextId' <=> d < nextId
      BY <2>3 DEF Ids
    <3> QED
      BY <2>1, <3>1, <3>2 DEF SameSession, SessionDb
  <2> QED
    BY <2>2, <2>3
<1> QED
  BY <1>1, <1>3, Stutters

LEMMA EraseClosedRefines ==
    ASSUME IInv, EraseClosed
    PROVE  [Sessions!Next]_(Sessions!vars)
<1>1. /\ DOMAIN connections' = DOMAIN connections \ InState({"CLOSED"})
      /\ \A d \in DOMAIN connections' : connections'[d] = connections[d]
      /\ UNCHANGED <<nextId, worker, disk, sent, delivered>>
  BY DEF EraseClosed
<1>2. ASSUME NEW d \in Ids PROVE SameSession(d)
  <2>1. d \in InState({"WRITING"})' <=> d \in InState({"WRITING"})
    BY <1>1 DEF InState
  <2>2. d \in InState({"WRITING"}) => connections'[d] = connections[d]
    BY <1>1, <2>1 DEF InState
  <2>3. OnItsWay(d)' = OnItsWay(d)
    BY <1>1, <2>1, <2>2 DEF OnItsWay, conn_id
  <2>4. Answers(d)' = Answers(d)
    BY <1>1, <2>3, AnswersStay DEF SameAnswers
  <2>5. (Live(d)' <=> Live(d)) /\ (Live(d) => connections'[d] = connections[d])
    BY <1>1 DEF Live, InState
  <2> QED
    BY <1>1, <2>4, <2>5 DEF SameSession, SessionDb
<1> QED
  BY <1>1, <1>2, Stutters

-----------------------------------------------------------------------------
(* The database worker.                                                    *)

LEMMA BeforeAnswerRefines ==
    ASSUME IInv, PopTask \/ Lookup \/ UseSessionDb
    PROVE  [Sessions!Next]_(Sessions!vars)
<1>1. /\ worker.pc # "store" /\ worker'.pc # "store"
      /\ UNCHANGED <<connections, nextId, disk, sent, delivered>>
  BY DEF PopTask, Lookup, UseSessionDb, envVars, IInv, TypeOK
<1>2. \A d \in Ids : SameSession(d)
  BY <1>1, SessionStays
<1> QED
  BY <1>1, <1>2, Stutters

(* The worker executes the next statement of its session and holds the     *)
(* answer.                                                                 *)
LEMMA AnswerRefines ==
    ASSUME SInv, worker.pc \in {"use", "run"}, worker'.pc = "store",
           worker'.task = worker.task, NEW cur, cur = connections[conn_id].current_db,
           NEW ok \in BOOLEAN, NEW now \in Dbs \union {None},
           worker'.reply = [n |-> stmt.n, ok |-> ok, ran |-> cur, cur |-> now],
           ok => Sessions!Possible(stmt, cur),
           stmt.op # "query" /\ ~(cur # None /\ cur \notin disk) =>
               ok = Sessions!Possible(stmt, cur),
           connections' = [connections EXCEPT ![conn_id].current_db =
                              IF ok /\ stmt.op = "use" THEN stmt.db ELSE cur],
           disk' = IF ok /\ stmt.op = "create" THEN disk \union {stmt.db} ELSE disk,
           UNCHANGED <<nextId, sent, delivered>>
    PROVE  Sessions!Next
<1> PICK w \in Ids, s \in Token : w = conn_id /\ s = stmt
  BY WorkerConnection DEF SInv
<1> DEFINE a == AnswerOf(worker'.reply)
           done == IF ok /\ s.op = "use" THEN s.db ELSE cur
<1>1. /\ w \in DOMAIN connections /\ connections[w] \in Connection
      /\ connections[w].state = "PENDING_RESULT" /\ conn_id' = w /\ IInv
  BY WorkerConnection DEF SInv, conn_id
<1>2. /\ DOMAIN connections' = DOMAIN connections
      /\ connections'[w] = [connections[w] EXCEPT !.current_db = done]
      /\ \A d \in DOMAIN connections \ {w} : connections'[d] = connections[d]
  BY <1>1 DEF SInv, IInv, TypeOK
<1>3. connections'[w].current_db = done /\ connections'[w].state = "PENDING_RESULT"
  BY <1>1, <1>2 DEF Connection
<1>4. Live(w) /\ Live(w)'
  BY <1>1, <1>2, <1>3 DEF Live
<1>5. \A d \in Ids \ {w} : SameSession(d)
  BY <1>1, <1>2, SessionStays DEF conn_id
<1>6. OnItsWay(w) = <<>> /\ OnItsWay(w)' = <<a>>
  <2>1. worker.pc # "store" /\ w \notin InState({"WRITING"})
    BY <1>1 DEF InState
  <2> QED
    BY <1>1, <2>1 DEF OnItsWay
<1>7. PICK before \in Seq(Answer) : /\ before = Delivered(w) /\ Answers(w) = before
                                    /\ Len(before) = Len(delivered[w])
  <2>1. PICK before \in Seq(Answer) : /\ before = Delivered(w)
                                      /\ Len(before) = Len(delivered[w])
    BY <1>1, DeliveredTypes
  <2>2. before \o <<>> = before
    BY ConcatEmptySeq
  <2> QED
    BY <1>6, <2>1, <2>2 DEF Answers
<1>8. a = [n |-> s.n, ok |-> ok, ran |-> cur] /\ a \in Answer
  <2>1. cur \in Dbs \union {None} /\ s.n \in Nat
    BY <1>1 DEF Connection, Token
  <2> QED
    BY <2>1 DEF AnswerOf, Answer
<1>9. Answers(w)' = Append(Answers(w), [n |-> s.n, ok |-> ok, ran |-> cur])
  <2>1. Delivered(w)' = Delivered(w)
    BY DEF Delivered
  <2>2. Answers(w)' = before \o <<a>>
    BY <1>6, <1>7, <2>1 DEF Answers
  <2> HIDE DEF a
  <2>3. before \o <<a>> = Append(before, a)
    BY <1>8, AppendIsConcat
  <2> QED
    BY <1>7, <1>8, <2>2, <2>3
<1>10. Len(Answers(w)) < Len(sent[w]) /\ s = sent[w][Len(Answers(w)) + 1]
  <2>1. Conserved(w) /\ Taken(w) = Len(delivered[w]) + 1
    BY <1>1, <1>4 DEF SInv, Taken
  <2>2. s \in TasksOf(w)
    BY <1>1, TasksOfEqual
  <2>3. Len(delivered[w]) \in Nat /\ Len(sent[w]) \in Nat
    BY LenProperties DEF SInv, IInv, TypeOK
  <2> QED
    BY <1>7, <2>1, <2>2, <2>3 DEF Conserved
<1> DEFINE answers == [c \in Ids |-> Answers(c)]
           dbs == [c \in Ids |-> SessionDb(c)]
           over == {c \in Ids : c < nextId /\ ~Live(c)}
<1>11. answers' = [answers EXCEPT ![w] = Append(@, [n |-> s.n, ok |-> ok, ran |-> cur])]
  BY <1>5, <1>9 DEF SameSession
<1>12. dbs' = IF ok /\ s.op = "use" THEN [dbs EXCEPT ![w] = s.db] ELSE dbs
  BY <1>3, <1>4, <1>5 DEF SameSession, SessionDb
<1>13. over' = over /\ w \notin over
  BY <1>4, <1>5 DEF SameSession
<1>14. dbs[w] = cur /\ answers[w] = Answers(w)
  BY <1>4 DEF SessionDb
<1>15. Sessions!Execute(w)
  BY <1>10, <1>11, <1>12, <1>13, <1>14 DEF Sessions!Execute
<1> QED
  BY <1>15 DEF Sessions!Next

LEMMA SessionDbMissingRefines ==
    ASSUME SInv, SessionDbMissing
    PROVE  Sessions!Next
<1>1. /\ conn_id \in DOMAIN connections /\ connections[conn_id] \in Connection
      /\ stmt \in Token /\ worker.pc = "use"
  BY WorkerConnection DEF SInv, SessionDbMissing
<1> PICK cur \in Dbs \union {None} : cur = connections[conn_id].current_db
  BY <1>1 DEF Connection
<1>2. /\ worker'.pc = "store" /\ worker'.task = worker.task
      /\ worker'.reply = [n |-> stmt.n, ok |-> FALSE, ran |-> cur, cur |-> None]
      /\ UNCHANGED <<connections, nextId, disk, sent, delivered>>
  BY DEF SessionDbMissing, envVars, SInv, IInv, TypeOK
<1>3. cur # None /\ cur \notin disk
  BY DEF SessionDbMissing
<1>4. connections' = [connections EXCEPT ![conn_id].current_db = cur]
  <2>1. connections[conn_id] = [connections[conn_id] EXCEPT !.current_db = cur]
    BY <1>1 DEF Connection
  <2> QED
    BY <1>1, <1>2, <2>1 DEF SInv, IInv, TypeOK
<1> QED
  BY <1>1, <1>2, <1>3, <1>4, AnswerRefines

LEMMA RunQueryRefines ==
    ASSUME SInv, RunQuery
    PROVE  Sessions!Next
<1>1. /\ conn_id \in DOMAIN connections /\ connections[conn_id] \in Connection
      /\ stmt \in Token /\ worker.pc = "run" /\ connections[conn_id].state = "PENDING_RESULT"
      /\ conn_id \in Ids
  BY WorkerConnection DEF SInv, RunQuery
<1> PICK cur \in Dbs \union {None} : cur = connections[conn_id].current_db
  BY <1>1 DEF Connection
<1>2. mgrDb = cur
  BY <1>1 DEF SInv, WorkerInSession
<1>2a. PICK ok \in Succeeds : \E now :
          /\ now = (IF ok THEN IF ok /\ stmt.op = "use" THEN stmt.db ELSE mgrDb ELSE cur)
          /\ disk' = IF ok /\ stmt.op = "create" THEN disk \union {stmt.db} ELSE disk
          /\ connections' = [connections EXCEPT ![conn_id].current_db = now]
          /\ worker' = [worker EXCEPT !.pc = "store",
                 !.reply = [n |-> stmt.n, ok |-> ok, ran |-> mgrDb, cur |-> now]]
  BY DEF RunQuery
<1>3. PICK now :
          /\ now = (IF ok THEN IF ok /\ stmt.op = "use" THEN stmt.db ELSE mgrDb ELSE cur)
          /\ disk' = IF ok /\ stmt.op = "create" THEN disk \union {stmt.db} ELSE disk
          /\ connections' = [connections EXCEPT ![conn_id].current_db = now]
          /\ worker' = [worker EXCEPT !.pc = "store",
                 !.reply = [n |-> stmt.n, ok |-> ok, ran |-> mgrDb, cur |-> now]]
  BY <1>2a
<1>4. stmt.op \in Ops
  <2>1. Conserved(conn_id) /\ Taken(conn_id) = Len(delivered[conn_id]) + 1
    BY <1>1 DEF SInv, Live, Taken
  <2>2. stmt \in TasksOf(conn_id)
    BY <1>1, TasksOfEqual
  <2>3. Len(delivered[conn_id]) \in Nat /\ sent[conn_id] \in Seq(Token)
    BY <1>1, LenProperties DEF SInv, IInv, TypeOK
  <2>4. stmt = sent[conn_id][Taken(conn_id)] /\ Taken(conn_id) <= Len(sent[conn_id])
    BY <2>1, <2>2 DEF Conserved
  <2>5. Taken(conn_id) \in DOMAIN sent[conn_id]
    BY <2>1, <2>3, <2>4, LenProperties
  <2> QED
    BY <1>1, <2>4, <2>5 DEF SInv, SentNumbered
<1>5. /\ ok \in BOOLEAN
      /\ ok => Sessions!Possible(stmt, cur)
      /\ stmt.op # "query" => ok = Sessions!Possible(stmt, cur)
  <2>1. CASE stmt.op = "use"
    <3>1. Succeeds = {stmt.db \in disk}
      BY <2>1 DEF Succeeds
    <3>2. Sessions!Possible(stmt, cur) = (stmt.db \in disk)
      BY <2>1 DEF Sessions!Possible
    <3>3. ok = (stmt.db \in disk)
      BY <3>1, Zenon
    <3>4. ok \in BOOLEAN
      BY <3>3, SMT
    <3>5. ok = Sessions!Possible(stmt, cur)
      BY <3>2, <3>3, Zenon
    <3> QED
      BY <3>4, <3>5, Zenon
  <2>2. CASE stmt.op = "create"
    <3>1. Succeeds = {stmt.db \notin disk}
      BY <2>2 DEF Succeeds
    <3>2. Sessions!Possible(stmt, cur) = (stmt.db \notin disk)
      BY <2>2 DEF Sessions!Possible
    <3>3. ok = (stmt.db \notin disk)
      BY <3>1, Zenon
    <3> QED
      BY <3>2, <3>3, Zenon
  <2>3. CASE stmt.op = "query"
    <3>1. Succeeds = IF cur = None THEN {FALSE} ELSE BOOLEAN
      BY <1>2, <2>3 DEF Succeeds
    <3>2. Sessions!Possible(stmt, cur) = (cur # None)
      BY <2>3 DEF Sessions!Possible
    <3>3. ok \in BOOLEAN /\ (cur = None => ok = FALSE)
      BY <3>1, Zenon
    <3> QED
      BY <2>3, <3>2, <3>3, Zenon
  <2> QED
    BY <1>4, <2>1, <2>2, <2>3 DEF Ops
<1>6. now = (IF ok /\ stmt.op = "use" THEN stmt.db ELSE cur) /\ now \in Dbs \union {None}
  BY <1>1, <1>2, <1>3, <1>5 DEF Token
<1>7. /\ worker'.pc = "store" /\ worker'.task = worker.task
      /\ worker'.reply = [n |-> stmt.n, ok |-> ok, ran |-> cur, cur |-> now]
  BY <1>2, <1>3 DEF SInv, IInv, TypeOK
<1>8. UNCHANGED <<nextId, sent, delivered>>
  BY DEF RunQuery, envVars
<1> QED
  BY <1>1, <1>3, <1>5, <1>6, <1>7, <1>8, AnswerRefines

LEMMA StoreResponseRefines ==
    ASSUME IInv, StoreResponse
    PROVE  [Sessions!Next]_(Sessions!vars)
<1> PICK w \in Ids : w = conn_id
  BY WorkerConnection DEF StoreResponse
<1> DEFINE answered == [connections[w] EXCEPT !.response = worker.reply,
                                              !.send_offset = 0,
                                              !.state = "WRITING"]
<1>1. /\ worker.pc = "store" /\ w \in DOMAIN connections /\ connections[w] \in Connection
      /\ connections[w].state = "PENDING_RESULT"
  BY WorkerConnection DEF StoreResponse
<1>2. /\ connections' = [connections EXCEPT ![w] = answered] /\ worker'.pc = "wait"
      /\ UNCHANGED <<nextId, disk, sent, delivered>>
  BY <1>1 DEF StoreResponse, envVars, IInv, TypeOK
<1>3. /\ answered.state = "WRITING" /\ answered.response = worker.reply
      /\ answered.current_db = connections[w].current_db
  BY <1>1 DEF Connection
<1> HIDE DEF answered
<1>4. /\ DOMAIN connections' = DOMAIN connections /\ connections'[w] = answered
      /\ \A d \in DOMAIN connections \ {w} : connections'[d] = connections[d]
  BY <1>1, <1>2 DEF IInv, TypeOK
<1>5. \A d \in Ids \ {w} : SameSession(d)
  BY <1>2, <1>4, SessionStays
<1>6. OnItsWay(w)' = OnItsWay(w)
  <2>1. OnItsWay(w) = <<AnswerOf(worker.reply)>>
    BY <1>1 DEF OnItsWay
  <2>2. w \in InState({"WRITING"})' /\ worker'.pc # "store"
    BY <1>1, <1>2, <1>3, <1>4 DEF InState
  <2>3. OnItsWay(w)' = <<AnswerOf(worker.reply)>>
    BY <1>3, <1>4, <2>2 DEF OnItsWay, AnswerOf
  <2> QED
    BY <2>1, <2>3
<1>7. Live(w) /\ Live(w)' /\ connections'[w].current_db = connections[w].current_db
  BY <1>1, <1>3, <1>4 DEF Live
<1>8. SameSession(w)
  BY <1>2, <1>6, <1>7, AnswersStay DEF SameAnswers, SameSession, SessionDb
<1> QED
  BY <1>2, <1>5, <1>8, Stutters

-----------------------------------------------------------------------------
(* The clients and the file system.                                        *)

LEMMA EnvironmentRefines ==
    ASSUME IInv, Environment
    PROVE  [Sessions!Next]_(Sessions!vars)
<1>1. UNCHANGED <<connections, nextId, worker, delivered>>
  BY DEF Environment, ClientStatement, ClientBlankLine, ClientExit, ClientClose,
         DirectoryRemoved, envVars
<1>2. \A d \in Ids : SameSession(d)
  BY <1>1, SessionStays
<1>3. CASE disk' = disk /\ sent' = sent
  BY <1>2, <1>3, Stutters
<1>4. /\ [c \in Ids |-> Answers(c)]' = [c \in Ids |-> Answers(c)]
      /\ [c \in Ids |-> SessionDb(c)]' = [c \in Ids |-> SessionDb(c)]
      /\ {c \in Ids : c < nextId /\ ~Live(c)}' = {c \in Ids : c < nextId /\ ~Live(c)}
  BY <1>2 DEF SameSession
<1>5. ASSUME NEW c \in Ids, ClientStatement(c)
      PROVE  Sessions!Next
  <2>1. disk' = disk
    BY <1>5 DEF ClientStatement
  <2>2. \E op \in {"use", "create", "query"}, d \in Dbs :
            sent' = [sent EXCEPT ![c] =
                        Append(@, [op |-> op, db |-> d, n |-> Len(sent[c]) + 1])]
    BY <1>5 DEF ClientStatement, Ops
  <2>3. Sessions!Submit(c)
    BY <1>4, <2>1, <2>2 DEF Sessions!Submit
  <2> QED
    BY <2>3 DEF Sessions!Next
<1>6. ASSUME NEW d \in Dbs, DirectoryRemoved(d)
      PROVE  Sessions!Next
  <2>1. disk' = disk \ {d} /\ sent' = sent
    BY <1>6 DEF DirectoryRemoved, envVars
  <2>2. Sessions!Remove(d)
    BY <1>4, <2>1 DEF Sessions!Remove
  <2> QED
    BY <2>2 DEF Sessions!Next
<1>7. ASSUME NEW c \in Ids, ClientBlankLine(c) \/ ClientExit(c) \/ ClientClose(c)
      PROVE  disk' = disk /\ sent' = sent
  BY <1>7 DEF ClientBlankLine, ClientExit, ClientClose
<1> QED
  BY <1>3, <1>5, <1>6, <1>7 DEF Environment

-----------------------------------------------------------------------------

LEMMA InitRefines == Init => Sessions!Init
<1> SUFFICES ASSUME Init PROVE Sessions!Init
  OBVIOUS
<1>1. DOMAIN connections = {} /\ nextId = 1 /\ worker.pc = "wait" /\ disk \in SUBSET Dbs
  BY DEF Init
<1>2. ASSUME NEW c \in Ids
      PROVE  /\ Answers(c) = <<>> /\ SessionDb(c) = None /\ ~(c < nextId)
             /\ sent = [d \in Ids |-> <<>>]
  <2>1. OnItsWay(c) = <<>>
    BY <1>1 DEF OnItsWay, InState
  <2>2. delivered[c] = <<>> /\ Len(delivered[c]) = 0
    BY EmptySeq DEF Init
  <2>3. Answers(c) \in Seq(Answer) /\ Len(Answers(c)) = 0
    BY <2>1, <2>2, InitInv, AnswersTypes
  <2>4. Answers(c) = <<>>
    BY <2>3, EmptySeq
  <2>5. SessionDb(c) = None
    BY <1>1 DEF SessionDb, Live
  <2> QED
    BY <1>1, <2>4, <2>5 DEF Init, Ids
<1>3. /\ [c \in Ids |-> Answers(c)] = [c \in Ids |-> <<>>]
      /\ [c \in Ids |-> SessionDb(c)] = [c \in Ids |-> None]
      /\ {c \in Ids : c < nextId /\ ~Live(c)} = {}
  BY <1>2
<1>4. sent = [c \in Ids |-> <<>>]
  BY DEF Init
<1> QED
  BY <1>1, <1>3, <1>4 DEF Sessions!Init

LEMMA NextRefines ==
    SInv /\ SInv' /\ [Next]_vars => [Sessions!Next]_(Sessions!vars)
<1> SUFFICES ASSUME SInv, SInv', [Next]_vars PROVE [Sessions!Next]_(Sessions!vars)
  OBVIOUS
<1>1. IInv /\ IInv'
  BY DEF SInv
<1>2. CASE MainLoop
  <2>1. CASE Snapshot \/ Select \/ Accept \/ EraseClosed
    BY <1>1, <2>1, SnapshotSelectRefine, AcceptRefines, EraseClosedRefines
  <2>2. ASSUME NEW c \in Ids, ServeConnection(c)
        PROVE  [Sessions!Next]_(Sessions!vars)
    BY <1>1, <2>2, ServeReadRefines, ServeOtherRefines, ServeWriteAllRefines,
       ServeWritePartRefines, ServeWriteErrorRefines DEF ServeConnection
  <2> QED
    BY <1>2, <2>1, <2>2 DEF MainLoop
<1>3. CASE DbWorker
  BY <1>1, <1>3, BeforeAnswerRefines, SessionDbMissingRefines, RunQueryRefines,
     StoreResponseRefines DEF DbWorker
<1>4. CASE Environment
  BY <1>1, <1>4, EnvironmentRefines
<1>5. CASE UNCHANGED vars
  <2>1. UNCHANGED <<connections, nextId, worker, disk, sent, delivered>>
    BY <1>5 DEF vars
  <2>2. \A d \in Ids : SameSession(d)
    BY <2>1, SessionStays
  <2> QED
    BY <2>1, <2>2, Stutters
<1> QED
  BY <1>2, <1>3, <1>4, <1>5 DEF Next

(* The server executes the statements of its sessions as if each session   *)
(* had a DatabaseManager of its own, one statement after the other, and    *)
(* answers each once (main.cpp:62-123).                                    *)
THEOREM SessionsIsolated == Spec => SessionsAreIsolated
BY InitRefines, NextRefines, StatementsInvariant, PTL DEF Spec, SessionsAreIsolated, Sessions!Spec
=============================================================================
