---------------------------- MODULE TransactionManager ----------------------------
(***************************************************************************)
(* TransactionManager (src/transaction/transaction_manager.cpp): execute() *)
(* hands a function to the worker thread and blocks until it has run.  A   *)
(* section under mtx_ is one action.  A thread asleep on a condition       *)
(* variable runs again when it is notified (or, as the standard allows,    *)
(* for no reason) and then tests its predicate again.                      *)
(*                                                                         *)
(* next_txn_id_++ is outside the mutex: the load and the store of the      *)
(* counter are two actions, so two callers may draw the same number.       *)
(*                                                                         *)
(* A definition that no action uses and that stands just before another    *)
(* one is a mutant of it: a plausible mistake that some property catches.  *)
(***************************************************************************)
EXTENDS Naturals, Sequences

CONSTANTS
    Callers,    \* the threads that call execute()
    MaxCalls    \* bound: calls made by one caller

ASSUME TxnAssumption == MaxCalls \in Nat

VARIABLES
    next_txn_id,       \* next_txn_id_
    completed_txn_id,  \* completed_txn_id_
    exception,         \* exception_: the function that threw it, or None
    queue,             \* queue_: [id, fn]
    shutdown,          \* shutdown_
    caller,            \* caller[c]: program counter and the local txn
    worker,            \* the worker thread: program counter and the local task
    ran,               \* history: the functions that have run, oldest first
    threw,             \* history: the functions that threw
    enqueued           \* history: the functions enqueued, oldest first

vars == <<next_txn_id, completed_txn_id, exception, queue, shutdown, caller,
          worker, ran, threw, enqueued>>

Fns == [by : Callers, k : 1..MaxCalls]
NoFn == [by |-> "nobody", k |-> 0]
NoTask == [id |-> 0, fn |-> NoFn]

FnOfPreviousCall(c) == [by |-> c, k |-> caller[c].calls - 1]
Fn(c) == [by |-> c, k |-> caller[c].calls]

InitFromZero ==
    /\ next_txn_id = 0
    /\ completed_txn_id = 0
    /\ exception = NoFn
    /\ queue = <<>>
    /\ shutdown = FALSE
    /\ caller = [c \in Callers |-> [pc |-> "idle", txn_id |-> 0, calls |-> 0, thrown |-> NoFn]]
    /\ worker = [pc |-> "wait", task |-> NoTask]
    /\ ran = <<>>
    /\ threw = {}
    /\ enqueued = <<>>

Init ==
    /\ next_txn_id = 1
    /\ completed_txn_id = 0
    /\ exception = NoFn
    /\ queue = <<>>
    /\ shutdown = FALSE
    /\ caller = [c \in Callers |-> [pc |-> "idle", txn_id |-> 0, calls |-> 0, thrown |-> NoFn]]
    /\ worker = [pc |-> "wait", task |-> NoTask]
    /\ ran = <<>>
    /\ threw = {}
    /\ enqueued = <<>>

-----------------------------------------------------------------------------
(* execute().                                                              *)

(* The object may be destroyed only when nobody is in a call, so a call    *)
(* begins only before that.                                                *)
LoadTxnId(c) ==
    /\ caller[c].pc \in {"idle", "returned"}
    /\ caller[c].calls < MaxCalls
    /\ ~shutdown
    /\ caller' = [caller EXCEPT ![c] = [pc |-> "loaded", txn_id |-> next_txn_id,
                                        calls |-> @.calls + 1, thrown |-> NoFn]]
    /\ UNCHANGED <<next_txn_id, completed_txn_id, exception, queue, shutdown,
                   worker, ran, threw, enqueued>>

StoreTxnId(c) ==
    /\ caller[c].pc = "loaded"
    /\ next_txn_id' = caller[c].txn_id + 1
    /\ caller' = [caller EXCEPT ![c].pc = "enqueue"]
    /\ UNCHANGED <<completed_txn_id, exception, queue, shutdown, worker,
                   ran, threw, enqueued>>

(* notify_one of worker_cv_: there is one worker.                          *)
WorkerNotNotified == UNCHANGED worker
WorkerNotified == worker' = [worker EXCEPT !.pc = IF @ = "asleep" THEN "wait" ELSE @]

EnqueueKeepingException(c) ==
    /\ caller[c].pc = "enqueue"
    /\ queue' = Append(queue, [id |-> caller[c].txn_id, fn |-> Fn(c)])
    /\ enqueued' = Append(enqueued, Fn(c))
    /\ WorkerNotified
    /\ caller' = [caller EXCEPT ![c].pc = "wait"]
    /\ UNCHANGED <<next_txn_id, completed_txn_id, exception, shutdown, ran, threw>>

Enqueue(c) ==
    /\ caller[c].pc = "enqueue"
    /\ exception' = NoFn
    /\ queue' = Append(queue, [id |-> caller[c].txn_id, fn |-> Fn(c)])
    /\ enqueued' = Append(enqueued, Fn(c))
    /\ WorkerNotified
    /\ caller' = [caller EXCEPT ![c].pc = "wait"]
    /\ UNCHANGED <<next_txn_id, completed_txn_id, shutdown, ran, threw>>

(* cv_.wait: sleep while the predicate is false.                           *)
Sleep(c) ==
    /\ caller[c].pc = "wait"
    /\ completed_txn_id < caller[c].txn_id
    /\ caller' = [caller EXCEPT ![c].pc = "asleep"]
    /\ UNCHANGED <<next_txn_id, completed_txn_id, exception, queue, shutdown,
                   worker, ran, threw, enqueued>>

(* A spurious wake-up, which nobody may count on.                          *)
WakeSpuriously(c) ==
    /\ caller[c].pc = "asleep"
    /\ caller' = [caller EXCEPT ![c].pc = "wait"]
    /\ UNCHANGED <<next_txn_id, completed_txn_id, exception, queue, shutdown,
                   worker, ran, threw, enqueued>>

(* The predicate holds: return, or throw the exception that is there.      *)
Return(c) ==
    /\ caller[c].pc = "wait"
    /\ completed_txn_id >= caller[c].txn_id
    /\ caller' = [caller EXCEPT ![c].pc = "returned", ![c].thrown = exception]
    /\ UNCHANGED <<next_txn_id, completed_txn_id, exception, queue, shutdown,
                   worker, ran, threw, enqueued>>

-----------------------------------------------------------------------------
(* worker_loop().                                                          *)

TakeNewestTask ==
    /\ worker.pc = "wait"
    /\ queue # <<>>
    /\ worker' = [pc |-> "run", task |-> queue[Len(queue)]]
    /\ queue' = SubSeq(queue, 1, Len(queue) - 1)
    /\ UNCHANGED <<next_txn_id, completed_txn_id, exception, shutdown, caller,
                   ran, threw, enqueued>>

TakeTask ==
    /\ worker.pc = "wait"
    /\ queue # <<>>
    /\ worker' = [pc |-> "run", task |-> Head(queue)]
    /\ queue' = Tail(queue)
    /\ UNCHANGED <<next_txn_id, completed_txn_id, exception, shutdown, caller,
                   ran, threw, enqueued>>

WorkerSleep ==
    /\ worker.pc = "wait"
    /\ queue = <<>> /\ ~shutdown
    /\ worker' = [worker EXCEPT !.pc = "asleep"]
    /\ UNCHANGED <<next_txn_id, completed_txn_id, exception, queue, shutdown,
                   caller, ran, threw, enqueued>>

WorkerWakeSpuriously ==
    /\ worker.pc = "asleep"
    /\ worker' = [worker EXCEPT !.pc = "wait"]
    /\ UNCHANGED <<next_txn_id, completed_txn_id, exception, queue, shutdown,
                   caller, ran, threw, enqueued>>

WorkerExit ==
    /\ worker.pc = "wait"
    /\ queue = <<>> /\ shutdown
    /\ worker' = [worker EXCEPT !.pc = "exited"]
    /\ UNCHANGED <<next_txn_id, completed_txn_id, exception, queue, shutdown,
                   caller, ran, threw, enqueued>>

RunTask ==
    /\ worker.pc = "run"
    /\ ran' = Append(ran, worker.task.fn)
    /\ \/ /\ worker' = [worker EXCEPT !.pc = "complete"]
          /\ UNCHANGED threw
       \/ /\ worker' = [worker EXCEPT !.pc = "failed"]
          /\ threw' = threw \union {worker.task.fn}
    /\ UNCHANGED <<next_txn_id, completed_txn_id, exception, queue, shutdown,
                   caller, enqueued>>

(* notify_all of cv_.                                                      *)
CallersNotNotified == UNCHANGED caller
CallersNotified ==
    caller' = [c \in Callers |->
                  IF caller[c].pc = "asleep" THEN [caller[c] EXCEPT !.pc = "wait"]
                  ELSE caller[c]]

Complete ==
    /\ worker.pc = "complete"
    /\ completed_txn_id' = worker.task.id
    /\ worker' = [worker EXCEPT !.pc = "wait"]
    /\ CallersNotified
    /\ UNCHANGED <<next_txn_id, exception, queue, shutdown, ran, threw, enqueued>>

Fail ==
    /\ worker.pc = "failed"
    /\ exception' = worker.task.fn
    /\ completed_txn_id' = worker.task.id
    /\ worker' = [worker EXCEPT !.pc = "wait"]
    /\ CallersNotified
    /\ UNCHANGED <<next_txn_id, queue, shutdown, ran, threw, enqueued>>

-----------------------------------------------------------------------------
(* The destructor: nobody may be inside execute() then.                    *)
Shutdown ==
    /\ ~shutdown
    /\ \A c \in Callers : caller[c].pc \in {"idle", "returned"}
    /\ shutdown' = TRUE
    /\ WorkerNotified
    /\ UNCHANGED <<next_txn_id, completed_txn_id, exception, queue, caller,
                   ran, threw, enqueued>>

(* The destructor has joined the worker.                                   *)
Joined == worker.pc = "exited" /\ UNCHANGED vars

Execute(c) == LoadTxnId(c) \/ StoreTxnId(c) \/ Enqueue(c) \/ Sleep(c) \/ Return(c)
Worker == TakeTask \/ WorkerSleep \/ WorkerExit \/ RunTask \/ Complete \/ Fail

SpuriousWakeup == WorkerWakeSpuriously \/ \E c \in Callers : WakeSpuriously(c)

Next == (\E c \in Callers : Execute(c)) \/ Worker \/ SpuriousWakeup \/ Shutdown \/ Joined

Spec == Init /\ [][Next]_vars

(* A thread that can take a step takes one.  Nobody has to call execute(). *)
Fairness ==
    /\ \A c \in Callers : WF_vars(StoreTxnId(c) \/ Enqueue(c) \/ Sleep(c) \/ Return(c))
    /\ WF_vars(Worker)

FairSpec == Spec /\ Fairness

-----------------------------------------------------------------------------
TypeOK ==
    /\ next_txn_id \in Nat
    /\ completed_txn_id \in Nat
    /\ exception \in Fns \union {NoFn}
    /\ queue \in Seq([id : Nat, fn : Fns])
    /\ shutdown \in BOOLEAN
    /\ caller \in [Callers -> [pc : {"idle", "loaded", "enqueue", "wait", "asleep", "returned"},
                               txn_id : Nat, calls : 0..MaxCalls,
                               thrown : Fns \union {NoFn}]]
    /\ worker \in [pc : {"wait", "asleep", "run", "complete", "failed", "exited"},
                   task : [id : Nat, fn : Fns] \union {NoTask}]
    /\ ran \in Seq(Fns)
    /\ threw \subseteq Fns
    /\ enqueued \in Seq(Fns)

HasRun(fn) == \E i \in DOMAIN ran : ran[i] = fn

(* Only c has ever called execute(), as only the database worker does in   *)
(* the server.  With a second caller what follows does not hold: ids are   *)
(* drawn outside the mutex and compared with the id that finished last.    *)
CallsAlone(c) == \A d \in Callers \ {c} : caller[d].calls = 0

(* "execute(fn) blocks until the enqueued fn has completed"                *)
(* (transaction_manager.h:16), for a caller that is the only one.          *)
ReturnsAfterRun ==
    \A c \in Callers : CallsAlone(c) /\ caller[c].pc = "returned" => HasRun(Fn(c))

(* execute() rethrows the exception of its own function and no other, and  *)
(* never swallows it: the error a client is shown is the error of its own  *)
(* statement (transaction_manager.cpp:34-37), for a caller that is the     *)
(* only one.                                                               *)
OwnException ==
    \A c \in Callers : CallsAlone(c) /\ caller[c].pc = "returned" =>
        caller[c].thrown = IF Fn(c) \in threw THEN Fn(c) ELSE NoFn

(* Functions run one at a time, each exactly once, in the order in which   *)
(* they were enqueued, whoever enqueued them and however many callers      *)
(* there are ("one transaction at a time").                                *)
SerialInQueueOrder ==
    LET waiting == [i \in DOMAIN queue |-> queue[i].fn]
        running == IF worker.pc = "run" THEN <<worker.task.fn>> ELSE <<>>
    IN  enqueued = ran \o running \o waiting

(* A call that began comes back, unless a second caller appears: no        *)
(* wake-up is lost between the caller and the worker, on the path of an    *)
(* exception either.                                                       *)
CallReturns ==
    \A c \in Callers :
        caller[c].pc = "loaded" ~> caller[c].pc = "returned" \/ ~CallsAlone(c)

(* A destructor that began gets its join.                                  *)
ShutdownCompletes == shutdown ~> worker.pc = "exited"
=============================================================================
