------------------------- MODULE TransactionManagerProofs -------------------------
(***************************************************************************)
(* Proofs about TransactionManager.  For any number of callers: the types, *)
(* and that functions run once each in the order of the queue.  For a      *)
(* caller that is the only one to have called, as the server's database    *)
(* worker is: execute() returns after its own function has run, with that  *)
(* function's exception.                                                   *)
(***************************************************************************)
EXTENDS TransactionManager, SequenceTheorems, TLAPS

(* A call that has drawn an id has a number, so Fn(c) is a function.       *)
CallsCounted ==
    \A c \in Callers : caller[c].pc # "idle" => caller[c].calls \in 1..MaxCalls

Task == [id : Nat, fn : Fns]
CallerState ==
    [pc : {"idle", "loaded", "enqueue", "wait", "asleep", "returned"},
     txn_id : Nat, calls : 0..MaxCalls, thrown : Fns \union {NoFn}]
WorkerHasTask == worker.pc \in {"run", "complete", "failed"} => worker.task \in Task

Typed == TypeOK /\ CallsCounted /\ WorkerHasTask

LEMMA ReturnTyped ==
    ASSUME NEW r \in CallerState, NEW e \in Fns \union {NoFn}
    PROVE  /\ [r EXCEPT !.pc = "returned", !.thrown = e] \in CallerState
           /\ [r EXCEPT !.pc = "enqueue"] \in CallerState
BY DEF CallerState

LEMMA FnTypes ==
    ASSUME NEW c \in Callers, caller[c].calls \in 1..MaxCalls
    PROVE  Fn(c) \in Fns
BY DEF Fn, Fns

LEMMA InitTyped == Init => Typed
<1> SUFFICES ASSUME Init PROVE Typed
  OBVIOUS
<1>1. <<>> \in Seq([id : Nat, fn : Fns]) /\ <<>> \in Seq(Fns)
  BY EmptySeq
<1>2. 0 \in 0..MaxCalls
  BY TxnAssumption
<1> QED
  BY <1>1, <1>2 DEF Init, Typed, TypeOK, CallsCounted, WorkerHasTask, NoTask, NoFn

LEMMA StepTyped == Typed /\ [Next]_vars => Typed'
<1> SUFFICES ASSUME Typed, [Next]_vars PROVE Typed'
  OBVIOUS
<1> USE TxnAssumption DEF Typed, TypeOK, CallsCounted, WorkerHasTask, Task
<1>1. ASSUME NEW c \in Callers, LoadTxnId(c) PROVE Typed'
  <2>1. caller[c].calls + 1 \in 1..MaxCalls
    BY <1>1 DEF LoadTxnId
  <2> QED
    BY <1>1, <2>1 DEF LoadTxnId
<1>2. ASSUME NEW c \in Callers, StoreTxnId(c) PROVE Typed'
  <2>1. caller' = [caller EXCEPT ![c] = [@ EXCEPT !.pc = "enqueue"]]
    BY <1>2 DEF StoreTxnId
  <2>2. next_txn_id' \in Nat
    BY <1>2 DEF StoreTxnId
  <2>3. [caller[c] EXCEPT !.pc = "enqueue"] \in CallerState
    <3>1. caller[c] \in CallerState
      BY DEF CallerState
    <3> QED
      BY <3>1, ReturnTyped
  <2>4. caller' \in [Callers -> CallerState] /\ CallsCounted'
    BY <1>2, <2>1, <2>3 DEF CallerState, StoreTxnId
  <2> QED
    BY <1>2, <2>2, <2>4 DEF StoreTxnId, CallerState
<1>3. ASSUME NEW c \in Callers, Enqueue(c) PROVE Typed'
  <2>1. Fn(c) \in Fns
    BY <1>3, FnTypes DEF Enqueue
  <2>2. queue' \in Seq([id : Nat, fn : Fns]) /\ enqueued' \in Seq(Fns)
    BY <1>3, <2>1, AppendProperties DEF Enqueue
  <2> QED
    BY <1>3, <2>2 DEF Enqueue, WorkerNotified
<1>4. ASSUME NEW c \in Callers, Sleep(c) PROVE Typed'
  BY <1>4 DEF Sleep
<1>5. ASSUME NEW c \in Callers, Return(c) PROVE Typed'
  <2>1. caller' = [caller EXCEPT ![c] = [@ EXCEPT !.pc = "returned", !.thrown = exception]]
    BY <1>5 DEF Return
  <2>2. [caller[c] EXCEPT !.pc = "returned", !.thrown = exception] \in CallerState
    <3>1. caller[c] \in CallerState /\ exception \in Fns \union {NoFn}
      BY DEF CallerState
    <3> QED
      BY <3>1, ReturnTyped
  <2>3. caller' \in [Callers -> CallerState] /\ CallsCounted'
    BY <1>5, <2>1, <2>2 DEF CallerState, Return
  <2> QED
    BY <1>5, <2>3 DEF Return, CallerState
<1>6. ASSUME NEW c \in Callers, WakeSpuriously(c) PROVE Typed'
  BY <1>6 DEF WakeSpuriously
<1>7. CASE TakeTask
  <2>1. Head(queue) \in [id : Nat, fn : Fns] /\ queue' \in Seq([id : Nat, fn : Fns])
    BY <1>7, HeadTailProperties DEF TakeTask
  <2> QED
    BY <1>7, <2>1 DEF TakeTask
<1>8. CASE WorkerSleep
  BY <1>8 DEF WorkerSleep
<1>9. CASE WorkerWakeSpuriously
  BY <1>9 DEF WorkerWakeSpuriously
<1>10. CASE WorkerExit
  BY <1>10 DEF WorkerExit
<1>11. CASE RunTask
  <2>1. ran' \in Seq(Fns)
    BY <1>11, AppendProperties DEF RunTask
  <2> QED
    BY <1>11, <2>1 DEF RunTask
<1>12. CASE Complete
  BY <1>12 DEF Complete, CallersNotified
<1>13. CASE Fail
  BY <1>13 DEF Fail, CallersNotified
<1>14. CASE Shutdown
  BY <1>14 DEF Shutdown, WorkerNotified
<1>15. CASE UNCHANGED vars
  BY <1>15 DEF vars
<1> QED
  BY <1>1, <1>2, <1>3, <1>4, <1>5, <1>6, <1>7, <1>8, <1>9, <1>10, <1>11, <1>12,
     <1>13, <1>14, <1>15 DEF Next, Execute, Worker, SpuriousWakeup, Joined

LEMMA AlwaysTyped == Spec => []Typed
BY InitTyped, StepTyped, PTL DEF Spec

(* Every variable keeps its type, for any number of callers and calls.     *)
THEOREM TransactionManagerTypeOK == Spec => []TypeOK
<1>1. Typed => TypeOK
  BY DEF Typed
<1> QED
  BY AlwaysTyped, <1>1, PTL

-----------------------------------------------------------------------------
(* The order of the queue.                                                 *)

Waiting == [i \in DOMAIN queue |-> queue[i].fn]
Running == IF worker.pc = "run" THEN <<worker.task.fn>> ELSE <<>>

LEMMA Element ==
    ASSUME NEW S, NEW q \in Seq(S), NEW i \in DOMAIN q
    PROVE  q[i] \in S
BY ElementOfSeq, LenProperties

LEMMA Associative ==
    ASSUME NEW S, NEW r \in Seq(S), NEW u \in Seq(S), NEW w \in Seq(S)
    PROVE  (r \o u) \o w = r \o (u \o w)
BY ConcatAssociative

LEMMA AppendToConcat ==
    ASSUME NEW r \in Seq(Fns), NEW w \in Seq(Fns), NEW e \in Fns
    PROVE  Append(r \o w, e) = r \o Append(w, e)
<1>1. r \o w \in Seq(Fns) /\ <<e>> \in Seq(Fns)
  BY ConcatProperties
<1>2. Append(r \o w, e) = (r \o w) \o <<e>>
  BY <1>1, AppendIsConcat
<1>3. Append(w, e) = w \o <<e>>
  BY AppendIsConcat
<1> QED
  BY <1>1, <1>2, <1>3, Associative

LEMMA WaitingTypes ==
    ASSUME Typed
    PROVE  Waiting \in Seq(Fns) /\ Running \in Seq(Fns) /\ ran \in Seq(Fns)
<1>1. \A i \in DOMAIN queue : queue[i].fn \in Fns
  <2>1. queue \in Seq(Task)
    BY DEF Typed, TypeOK, Task
  <2>2. \A i \in DOMAIN queue : queue[i] \in Task
    BY <2>1, Element
  <2> QED
    BY <2>2 DEF Task
<1>2. Waiting \in Seq(Fns)
  <2>1. queue \in Seq(Task) /\ Len(queue) \in Nat /\ DOMAIN queue = 1..Len(queue)
    BY DEF Typed, TypeOK, Task
  <2>2. Waiting \in [1..Len(queue) -> Fns]
    BY <2>1, <1>1 DEF Waiting
  <2> QED
    BY <2>1, <2>2, SeqDef
<1> QED
  BY <1>2 DEF Typed, TypeOK, WorkerHasTask, Task, Running

LEMMA EnqueuedWaits ==
    ASSUME Typed, NEW task \in Task, queue' = Append(queue, task)
    PROVE  Waiting' = Append(Waiting, task.fn)
<1>1. queue \in Seq(Task) /\ Waiting \in Seq(Fns) /\ task.fn \in Fns
  BY WaitingTypes DEF Typed, TypeOK, Task
<1>2. Len(Waiting) = Len(queue)
  BY <1>1 DEF Waiting
<1>3. DOMAIN queue' = 1..(Len(queue) + 1)
  BY <1>1, AppendProperties
<1> QED
  BY <1>1, <1>2, <1>3, AppendProperties DEF Waiting

LEMMA TakenLeaves ==
    ASSUME Typed, queue # <<>>, queue' = Tail(queue)
    PROVE  /\ Waiting = <<Head(queue).fn>> \o Waiting'
           /\ Head(queue).fn \in Fns /\ Waiting' \in Seq(Fns)
<1>1. queue \in Seq(Task) /\ Waiting \in Seq(Fns) /\ Len(queue) \in Nat \ {0}
  BY WaitingTypes DEF Typed, TypeOK, Task
<1>2. /\ queue' \in Seq(Task) /\ Len(queue') = Len(queue) - 1
      /\ \A i \in 1..Len(queue') : queue'[i] = queue[i + 1]
  BY <1>1, HeadTailProperties
<1>3. Waiting' \in Seq(Fns) /\ Len(Waiting') = Len(queue) - 1
  <2>1. \A i \in 1..Len(queue') : queue'[i] \in Task
    BY <1>2, Element, LenProperties
  <2>2. DOMAIN queue' = 1..Len(queue') /\ Len(queue') \in Nat
    BY <1>2, LenProperties
  <2>3. Waiting' \in [1..Len(queue') -> Fns]
    BY <2>1, <2>2 DEF Waiting, Task
  <2>4. Waiting' \in Seq(Fns)
    BY <2>2, <2>3, SeqDef
  <2>5. Len(Waiting') = Len(queue')
    BY <2>2, <2>3, <2>4, LenProperties
  <2> QED
    BY <1>2, <2>4, <2>5
<1>4. \A i \in 1..Len(Waiting') : Waiting'[i] = queue[i + 1].fn
  BY <1>1, <1>2, <1>3 DEF Waiting
<1>5. Head(queue) = queue[1] /\ Head(queue).fn \in Fns
  <2>1. Head(queue) = queue[1] /\ 1 \in DOMAIN queue
    BY <1>1, LenProperties
  <2>2. queue[1] \in Task
    BY <1>1, <2>1, Element
  <2> QED
    BY <2>1, <2>2 DEF Task
<1>6. DOMAIN Waiting = 1..Len(queue) /\ \A i \in 1..Len(queue) : Waiting[i] = queue[i].fn
  BY <1>1 DEF Waiting
<1> DEFINE first == <<Head(queue).fn>>
           w == first \o Waiting'
<1>7. first \in Seq(Fns) /\ Len(first) = 1 /\ first[1] = queue[1].fn
  BY <1>5
<1> HIDE DEF first
<1>8. /\ w \in Seq(Fns) /\ Len(w) = Len(queue)
      /\ \A i \in 1..Len(queue) : w[i] = queue[i].fn
  <2> HIDE DEF Waiting
  <2>1. /\ w \in Seq(Fns) /\ Len(w) = 1 + Len(Waiting')
        /\ \A i \in 1..(1 + Len(Waiting')) : w[i] = IF i <= 1 THEN first[i] ELSE Waiting'[i - 1]
    BY <1>3, <1>7, ConcatProperties
  <2>2. ASSUME NEW i \in 1..Len(queue), i # 1 PROVE w[i] = queue[i].fn
    <3>1. i - 1 \in 1..Len(Waiting') /\ (i - 1) + 1 = i
      BY <1>1, <1>3, <2>2
    <3> QED
      BY <1>1, <1>3, <1>4, <2>1, <2>2, <3>1
  <2> QED
    BY <1>1, <1>3, <1>7, <2>1, <2>2
<1>9. Waiting = w
  <2> HIDE DEF w
  <2>1. Len(Waiting) = Len(w) /\ \A i \in 1..Len(Waiting) : Waiting[i] = w[i]
    BY <1>1, <1>6, <1>8, LenProperties
  <2> QED
    BY <1>1, <1>8, <2>1, SeqEqual
<1> QED
  BY <1>3, <1>5, <1>9 DEF first

LEMMA InitSerial == Init => SerialInQueueOrder
BY DEF Init, SerialInQueueOrder

LEMMA StepSerial == Typed /\ SerialInQueueOrder /\ [Next]_vars => SerialInQueueOrder'
<1> SUFFICES ASSUME Typed, SerialInQueueOrder, [Next]_vars
             PROVE  SerialInQueueOrder'
  OBVIOUS
<1>1. enqueued = (ran \o Running) \o Waiting
  BY DEF SerialInQueueOrder, Running, Waiting
<1> SUFFICES enqueued' = (ran' \o Running') \o Waiting'
  BY DEF SerialInQueueOrder, Running, Waiting
<1>2. Waiting \in Seq(Fns) /\ Running \in Seq(Fns) /\ ran \in Seq(Fns)
  BY WaitingTypes
<1>3. ASSUME NEW c \in Callers, Enqueue(c)
      PROVE  enqueued' = (ran' \o Running') \o Waiting'
  <2>1. Fn(c) \in Fns /\ caller[c].txn_id \in Nat
    BY <1>3, FnTypes DEF Enqueue, Typed, CallsCounted, TypeOK
  <2>2. Waiting' = Append(Waiting, Fn(c))
    BY <1>3, <2>1, EnqueuedWaits DEF Enqueue, Task
  <2>3. Running' = Running /\ ran' = ran
    BY <1>3 DEF Enqueue, WorkerNotified, Running, Typed, TypeOK
  <2>4. enqueued' = Append((ran \o Running) \o Waiting, Fn(c))
    BY <1>1, <1>3 DEF Enqueue
  <2> DEFINE done == ran \o Running
  <2>5. done \in Seq(Fns)
    BY <1>2, ConcatProperties
  <2> HIDE DEF done
  <2>6. Append(done \o Waiting, Fn(c)) = done \o Append(Waiting, Fn(c))
    BY <1>2, <2>1, <2>5, AppendToConcat
  <2> QED
    BY <2>2, <2>3, <2>4, <2>6 DEF done
<1>4. CASE TakeTask
  <2>1. Waiting = <<Head(queue).fn>> \o Waiting'
    BY <1>4, TakenLeaves DEF TakeTask
  <2>2. Running = <<>> /\ Running' = <<Head(queue).fn>> /\ ran' = ran /\ enqueued' = enqueued
    BY <1>4 DEF TakeTask, Running
  <2>3. ran \o <<>> = ran
    BY <1>2, ConcatEmptySeq
  <2>4. Head(queue).fn \in Fns /\ Waiting' \in Seq(Fns)
    BY <1>4, TakenLeaves DEF TakeTask
  <2>5. <<Head(queue).fn>> \in Seq(Fns)
    BY <2>4
  <2>6. (ran \o <<Head(queue).fn>>) \o Waiting' = ran \o (<<Head(queue).fn>> \o Waiting')
    BY <1>2, <2>4, <2>5, Associative
  <2> QED
    BY <1>1, <2>1, <2>2, <2>3, <2>6
<1>5. CASE RunTask
  <2>1. worker.task.fn \in Fns
    BY <1>5 DEF RunTask, Typed, WorkerHasTask, Task
  <2>2. /\ Running = <<worker.task.fn>> /\ Running' = <<>>
        /\ Waiting' = Waiting /\ enqueued' = enqueued
    BY <1>5 DEF RunTask, Running, Waiting, Typed, TypeOK
  <2>3. ran' = ran \o <<worker.task.fn>> /\ ran' \in Seq(Fns)
    BY <1>2, <1>5, <2>1, AppendIsConcat, AppendProperties DEF RunTask
  <2>4. ran' \o <<>> = ran'
    BY <2>3, ConcatEmptySeq
  <2> QED
    BY <1>1, <2>2, <2>3, <2>4
<1>6. ASSUME Running' = Running, UNCHANGED <<queue, ran, enqueued>>
      PROVE  enqueued' = (ran' \o Running') \o Waiting'
  BY <1>1, <1>6 DEF Waiting
<1>7. ASSUME NEW c \in Callers,
             LoadTxnId(c) \/ StoreTxnId(c) \/ Sleep(c) \/ Return(c) \/ WakeSpuriously(c)
      PROVE  Running' = Running /\ UNCHANGED <<queue, ran, enqueued>>
  BY <1>7 DEF LoadTxnId, StoreTxnId, Sleep, Return, WakeSpuriously, Running
<1>8. ASSUME WorkerSleep \/ WorkerExit \/ Complete \/ Fail \/ WorkerWakeSpuriously \/ Shutdown
      PROVE  Running' = Running /\ UNCHANGED <<queue, ran, enqueued>>
  BY <1>8 DEF WorkerSleep, WorkerExit, Complete, Fail, WorkerWakeSpuriously, Shutdown,
              WorkerNotified, Running, Typed, TypeOK
<1>9. CASE UNCHANGED vars
  BY <1>9, <1>6 DEF vars, Running
<1> QED
  BY <1>3, <1>4, <1>5, <1>6, <1>7, <1>8, <1>9 DEF Next, Execute, Worker, SpuriousWakeup, Joined

(* Each function runs exactly once and in the order of the queue, whoever  *)
(* enqueued it: one transaction at a time, for any number of callers.      *)
THEOREM TransactionsAreSerial == Spec => []SerialInQueueOrder
BY InitSerial, StepSerial, AlwaysTyped, PTL DEF Spec
-----------------------------------------------------------------------------
(* A lone caller.  Where its call stands: nothing is under way before it   *)
(* enqueues, and from then on its task is in exactly one place until the   *)
(* id that it waits for is the completed one.                              *)

Outcome(c) == IF Fn(c) \in threw THEN Fn(c) ELSE NoFn
TaskOf(c) == [id |-> caller[c].txn_id, fn |-> Fn(c)]
NothingToRun == queue = <<>> /\ worker.pc \in {"wait", "asleep", "exited"}
NotYetRun(c) ==
    completed_txn_id < caller[c].txn_id /\ exception = NoFn /\ Fn(c) \notin threw

CallQueued(c) ==
    NotYetRun(c) /\ queue = <<TaskOf(c)>> /\ worker.pc \in {"wait", "asleep"}
CallRuns(c) ==
    NotYetRun(c) /\ queue = <<>> /\ worker = [pc |-> "run", task |-> TaskOf(c)]
CallSucceeded(c) ==
    /\ NotYetRun(c) /\ queue = <<>> /\ worker = [pc |-> "complete", task |-> TaskOf(c)]
    /\ HasRun(Fn(c))
CallFailed(c) ==
    /\ completed_txn_id < caller[c].txn_id /\ queue = <<>>
    /\ worker = [pc |-> "failed", task |-> TaskOf(c)]
    /\ Fn(c) \in threw /\ HasRun(Fn(c))
CallCompleted(c) ==
    /\ NothingToRun /\ completed_txn_id = caller[c].txn_id
    /\ exception = Outcome(c) /\ HasRun(Fn(c))

Inside == {"loaded", "enqueue", "wait", "asleep"}

CallInv(c) ==
    /\ completed_txn_id < next_txn_id
    /\ \A f \in threw : f.k <= caller[c].calls
    /\ caller[c].pc \in Inside => ~shutdown
    /\ worker.pc = "exited" => shutdown
    /\ caller[c].pc \in {"idle", "returned", "loaded", "enqueue"} => NothingToRun
    /\ caller[c].pc = "loaded" => caller[c].txn_id = next_txn_id
    /\ caller[c].pc = "enqueue" =>
          completed_txn_id < caller[c].txn_id /\ caller[c].txn_id < next_txn_id
    /\ caller[c].pc \in {"loaded", "enqueue"} => Fn(c) \notin threw
    /\ caller[c].pc \in {"wait", "asleep"} =>
          /\ caller[c].txn_id < next_txn_id
          /\ CallQueued(c) \/ CallRuns(c) \/ CallSucceeded(c) \/ CallFailed(c) \/ CallCompleted(c)
    /\ caller[c].pc = "returned" => HasRun(Fn(c)) /\ caller[c].thrown = Outcome(c)

LEMMA InitCall ==
    ASSUME NEW c \in Callers, Init
    PROVE  CallInv(c)
BY DEF Init, CallInv, NothingToRun, Inside

(* What has run stays run.                                                 *)
LEMMA RunIsKept ==
    ASSUME Typed, NEW f \in Fns, ran' = Append(ran, f)
    PROVE  \E i \in DOMAIN ran' : ran'[i] = f
<1>1. ran \in Seq(Fns) /\ Len(ran) \in Nat
  BY DEF Typed, TypeOK
<1>2. ran'[Len(ran) + 1] = f /\ Len(ran) + 1 \in DOMAIN ran'
  BY <1>1, AppendProperties
<1> QED
  BY <1>2

(* Calls are only ever counted up.                                         *)
LEMMA CallsGrow ==
    ASSUME Typed, [Next]_vars, NEW d \in Callers
    PROVE  caller[d].calls \in Nat /\ caller'[d].calls \in Nat
           /\ caller[d].calls <= caller'[d].calls
<1> USE DEF Typed, TypeOK
<1>0. caller[d].calls \in Nat /\ caller \in [Callers -> CallerState]
  BY TxnAssumption DEF CallerState
<1>1. ASSUME NEW c \in Callers, LoadTxnId(c) PROVE caller'[d].calls \in {caller[d].calls, caller[d].calls + 1}
  BY <1>0, <1>1 DEF LoadTxnId, CallerState
<1>2. ASSUME NEW c \in Callers, StoreTxnId(c) \/ Enqueue(c) \/ Sleep(c) \/ Return(c) \/ WakeSpuriously(c)
      PROVE  caller'[d].calls = caller[d].calls
  <2>1. ASSUME NEW p \in {"enqueue", "wait", "asleep"}, caller' = [caller EXCEPT ![c].pc = p]
        PROVE  caller'[d].calls = caller[d].calls
    BY <1>0, <2>1 DEF CallerState
  <2>2. CASE caller' = [caller EXCEPT ![c].pc = "returned", ![c].thrown = exception]
    BY <1>0, <2>2 DEF CallerState
  <2>3. CASE Return(c)
    BY <2>2, <2>3 DEF Return
  <2>4. ASSUME StoreTxnId(c) \/ Enqueue(c) \/ Sleep(c) \/ WakeSpuriously(c)
        PROVE  \E p \in {"enqueue", "wait", "asleep"} : caller' = [caller EXCEPT ![c].pc = p]
    BY <2>4 DEF StoreTxnId, Enqueue, Sleep, WakeSpuriously
  <2> QED
    BY <1>2, <2>1, <2>3, <2>4
<1>3. ASSUME Worker \/ WorkerWakeSpuriously \/ Shutdown \/ UNCHANGED vars
      PROVE  caller'[d].calls = caller[d].calls
  <2>1. CASE CallersNotified
    <3>1. caller'[d] = IF caller[d].pc = "asleep" THEN [caller[d] EXCEPT !.pc = "wait"]
                       ELSE caller[d]
      BY <2>1 DEF CallersNotified
    <3>2. caller[d] \in CallerState
      BY <1>0
    <3>3. [caller[d] EXCEPT !.pc = "wait"].calls = caller[d].calls
      BY ONLY <3>2 DEF CallerState
    <3> QED
      BY <3>1, <3>3
  <2>2. CASE caller' = caller
    BY <2>2
  <2> QED
    BY <1>3, <2>1, <2>2 DEF Worker, TakeTask, WorkerSleep, WorkerExit, RunTask, Complete, Fail,
       WorkerWakeSpuriously, Shutdown, vars
<1> QED
  BY <1>0, <1>1, <1>2, <1>3 DEF Next, Execute, SpuriousWakeup, Joined

(* As long as c calls alone, nobody else takes a step of a call.           *)
LEMMA OthersRest ==
    ASSUME Typed, [Next]_vars, NEW c \in Callers, CallsAlone(c)'
    PROVE  /\ CallsAlone(c)
           /\ \A d \in Callers \ {c} : ~Execute(d) /\ ~WakeSpuriously(d)
<1>1. \A d \in Callers \ {c} : caller'[d].calls = 0 /\ caller[d].calls = 0
  <2> TAKE d \in Callers \ {c}
  <2>1. caller'[d].calls = 0
    BY DEF CallsAlone
  <2> QED
    BY <2>1, CallsGrow
<1>2. \A d \in Callers \ {c} : caller[d].pc = "idle"
  BY <1>1 DEF Typed, CallsCounted
<1>3. ASSUME NEW d \in Callers \ {c}, LoadTxnId(d) PROVE FALSE
  <2>1. caller'[d].calls = caller[d].calls + 1
    BY <1>3 DEF LoadTxnId, Typed, TypeOK
  <2> QED
    BY <1>1, <2>1
<1> QED
  BY <1>1, <1>2, <1>3 DEF CallsAlone, Execute, StoreTxnId, Enqueue, Sleep, Return, WakeSpuriously

LEMMA StepCall ==
    ASSUME NEW c \in Callers, CallsAlone(c)', Typed, CallInv(c), [Next]_vars
    PROVE  CallInv(c)'
<1> USE DEF CallInv, Inside
<1>0. /\ DOMAIN caller = Callers /\ caller[c] \in CallerState
      /\ completed_txn_id \in Nat /\ next_txn_id \in Nat /\ threw \subseteq Fns
  BY DEF Typed, TypeOK, CallerState
<1>1. CASE LoadTxnId(c)
  <2>1. /\ caller' = [caller EXCEPT ![c] = [pc |-> "loaded", txn_id |-> next_txn_id,
                                            calls |-> @.calls + 1, thrown |-> NoFn]]
        /\ caller[c].pc \in {"idle", "returned"} /\ ~shutdown
        /\ UNCHANGED <<next_txn_id, completed_txn_id, exception, queue, shutdown,
                       worker, ran, threw>>
    BY <1>1 DEF LoadTxnId
  <2>2. caller'[c].calls = caller[c].calls + 1 /\ caller'[c].pc = "loaded"
        /\ caller'[c].txn_id = next_txn_id
    BY <2>1, <1>0
  <2>3. Fn(c)' \notin threw'
    BY <2>1, <2>2, <1>0 DEF Fn, CallerState
  <2>4. \A f \in threw' : f.k <= caller'[c].calls
    <3>1. ASSUME NEW f \in threw PROVE f.k <= caller[c].calls + 1
      BY <3>1, <1>0 DEF Fns, CallerState
    <3> QED
      BY <2>1, <2>2, <3>1
  <2> QED
    BY <2>1, <2>2, <2>3, <2>4 DEF NothingToRun
<1>2. CASE StoreTxnId(c)
  <2>1. caller'[c] = [caller[c] EXCEPT !.pc = "enqueue"]
    BY <1>0, <1>2 DEF StoreTxnId
  <2>2. caller'[c].pc = "enqueue" /\ caller'[c].txn_id = caller[c].txn_id
        /\ caller'[c].calls = caller[c].calls
    BY <2>1, <1>0 DEF CallerState
  <2> QED
    BY <1>0, <1>2, <2>2 DEF StoreTxnId, NothingToRun, Fn, CallerState
<1>3. CASE Enqueue(c)
  <2>1. caller'[c] = [caller[c] EXCEPT !.pc = "wait"]
    BY <1>0, <1>3 DEF Enqueue
  <2>2. caller'[c].pc = "wait" /\ caller'[c].txn_id = caller[c].txn_id
        /\ caller'[c].calls = caller[c].calls
    BY <2>1, <1>0 DEF CallerState
  <2>3. Fn(c)' = Fn(c) /\ TaskOf(c)' = TaskOf(c)
    BY <2>2 DEF Fn, TaskOf
  <2>4. /\ exception' = NoFn /\ queue = <<>> /\ queue' = Append(queue, TaskOf(c))
        /\ worker.pc \in {"wait", "asleep", "exited"}
        /\ ~shutdown
    BY <1>3 DEF Enqueue, NothingToRun, TaskOf
  <2>5. queue' = <<TaskOf(c)>>
    BY <2>4
  <2>6. worker'.pc = "wait"
    BY <1>3, <2>4 DEF Enqueue, WorkerNotified, Typed, TypeOK
  <2>7. CallQueued(c)'
    BY <1>3, <2>2, <2>3, <2>4, <2>5, <2>6 DEF Enqueue, CallQueued, NotYetRun
  <2> QED
    BY <1>3, <2>2, <2>3, <2>6, <2>7 DEF Enqueue
<1>4. ASSUME NEW p \in {"wait", "asleep"}, caller[c].pc \in {"wait", "asleep"},
             caller' = [caller EXCEPT ![c].pc = p],
             UNCHANGED <<next_txn_id, completed_txn_id, exception, queue, shutdown,
                         worker, ran, threw>>
      PROVE  CallInv(c)'
  <2>1. caller'[c] = [caller[c] EXCEPT !.pc = p]
    BY <1>0, <1>4
  <2>2. caller'[c].pc = p /\ caller'[c].txn_id = caller[c].txn_id
        /\ caller'[c].calls = caller[c].calls
    BY <2>1, <1>0 DEF CallerState
  <2>3. Fn(c)' = Fn(c) /\ TaskOf(c)' = TaskOf(c)
    BY <2>2 DEF Fn, TaskOf
  <2>4. /\ CallQueued(c)' = CallQueued(c) /\ CallRuns(c)' = CallRuns(c)
        /\ CallSucceeded(c)' = CallSucceeded(c) /\ CallFailed(c)' = CallFailed(c)
        /\ CallCompleted(c)' = CallCompleted(c)
    BY <1>4, <2>2, <2>3 DEF CallQueued, CallRuns, CallSucceeded, CallFailed,
                            CallCompleted, NotYetRun, HasRun, Outcome, NothingToRun
  <2> QED
    BY <1>4, <2>2, <2>4
<1>5. CASE Sleep(c)
  BY <1>4, <1>5 DEF Sleep
<1>6. CASE WakeSpuriously(c)
  BY <1>4, <1>6 DEF WakeSpuriously
<1>7. CASE Return(c)
  <2>1. caller'[c] = [caller[c] EXCEPT !.pc = "returned", !.thrown = exception]
    BY <1>0, <1>7 DEF Return
  <2>2. /\ caller'[c].pc = "returned" /\ caller'[c].thrown = exception
        /\ caller'[c].txn_id = caller[c].txn_id /\ caller'[c].calls = caller[c].calls
    BY <2>1, <1>0 DEF CallerState
  <2>3. ~(completed_txn_id < caller[c].txn_id)
    BY <1>0, <1>7 DEF Return, CallerState
  <2>4. CallCompleted(c)
    BY <1>7, <2>3 DEF Return, CallQueued, CallRuns, CallSucceeded, CallFailed, NotYetRun
  <2>5. /\ HasRun(Fn(c)) /\ exception = Outcome(c) /\ NothingToRun
        /\ UNCHANGED <<next_txn_id, completed_txn_id, queue, shutdown, worker, ran, threw>>
    BY <1>7, <2>4 DEF Return, CallCompleted
  <2>6. Fn(c)' = Fn(c)
    BY <2>2 DEF Fn
  <2>7. HasRun(Fn(c))' /\ caller'[c].thrown = Outcome(c)'
    BY <2>2, <2>5, <2>6 DEF HasRun, Outcome
  <2>8. NothingToRun'
    BY <2>5 DEF NothingToRun
  <2> QED
    BY <1>0, <2>2, <2>5, <2>7, <2>8
<1>8. CASE TakeTask
  <2>1. CallQueued(c) /\ caller[c].pc \in {"wait", "asleep"}
    BY <1>0, <1>8 DEF TakeTask, CallerState, NothingToRun, CallQueued, CallRuns,
                      CallSucceeded, CallFailed, CallCompleted
  <2>2. Head(queue) = TaskOf(c) /\ Tail(queue) = <<>>
    BY <2>1 DEF CallQueued
  <2>3. CallRuns(c)'
    BY <1>8, <2>1, <2>2 DEF TakeTask, CallQueued, CallRuns, NotYetRun, TaskOf, Fn
  <2> QED
    BY <1>8, <2>1, <2>3 DEF TakeTask, Fn
<1>9. ASSUME worker.pc \in {"wait", "asleep"},
             worker'.pc \in {"wait", "asleep"} \/ (worker'.pc = "exited" /\ shutdown),
             UNCHANGED <<next_txn_id, completed_txn_id, exception, queue, caller,
                         ran, threw>>,
             shutdown' = shutdown
      PROVE  CallInv(c)'
  <2>1. CallQueued(c) => CallQueued(c)' \/ shutdown
    BY <1>9 DEF CallQueued, NotYetRun, TaskOf, Fn
  <2>2. ~CallRuns(c) /\ ~CallSucceeded(c) /\ ~CallFailed(c)
    BY <1>9 DEF CallRuns, CallSucceeded, CallFailed
  <2>3. CallCompleted(c) => CallCompleted(c)'
    BY <1>9 DEF CallCompleted, NothingToRun, Outcome, HasRun, Fn
  <2> QED
    BY <1>9, <2>1, <2>2, <2>3 DEF NothingToRun, Outcome, HasRun, Fn
<1>10. CASE WorkerSleep
  BY <1>9, <1>10 DEF WorkerSleep, Typed, TypeOK
<1>11. CASE WorkerWakeSpuriously
  BY <1>9, <1>11 DEF WorkerWakeSpuriously, Typed, TypeOK
<1>12. CASE WorkerExit
  BY <1>9, <1>12 DEF WorkerExit, Typed, TypeOK
<1>13. CASE RunTask
  <2>1. CallRuns(c) /\ caller[c].pc \in {"wait", "asleep"}
    BY <1>0, <1>13 DEF RunTask, CallerState, NothingToRun, CallQueued, CallRuns,
                       CallSucceeded, CallFailed, CallCompleted
  <2>2. worker.task = TaskOf(c) /\ worker.task.fn = Fn(c)
    BY <2>1 DEF CallRuns, TaskOf
  <2>3. worker.task.fn \in Fns
    BY <1>13 DEF RunTask, Typed, WorkerHasTask, Task
  <2>4. HasRun(Fn(c))'
    <3>1. ran' = Append(ran, worker.task.fn)
      BY <1>13 DEF RunTask
    <3>2. \E i \in DOMAIN ran' : ran'[i] = worker.task.fn
      BY <2>3, <3>1, RunIsKept
    <3>3. Fn(c)' = worker.task.fn
      BY <1>13, <2>1, <2>2 DEF RunTask, Fn, CallRuns
    <3> QED
      BY <3>2, <3>3 DEF HasRun
  <2>5. UNCHANGED <<next_txn_id, completed_txn_id, exception, queue, shutdown, caller>>
    BY <1>13 DEF RunTask
  <2>6. Fn(c)' = Fn(c) /\ TaskOf(c)' = TaskOf(c)
    BY <2>5 DEF Fn, TaskOf
  <2>7. CASE worker' = [worker EXCEPT !.pc = "complete"] /\ threw' = threw
    <3>1. worker' = [pc |-> "complete", task |-> TaskOf(c)]
      BY <2>1, <2>7 DEF CallRuns
    <3>2. CallSucceeded(c)'
      BY <2>1, <2>4, <2>5, <2>6, <2>7, <3>1 DEF CallSucceeded, CallRuns, NotYetRun
    <3> QED
      BY <2>1, <2>5, <2>7, <3>1, <3>2
  <2>8. CASE worker' = [worker EXCEPT !.pc = "failed"] /\ threw' = threw \union {Fn(c)}
    <3>1. worker' = [pc |-> "failed", task |-> TaskOf(c)]
      BY <2>1, <2>8 DEF CallRuns
    <3>2. CallFailed(c)'
      BY <2>1, <2>4, <2>5, <2>6, <2>8, <3>1 DEF CallFailed, CallRuns, NotYetRun
    <3>3. Fn(c).k <= caller[c].calls
      BY <1>0 DEF Fn, CallerState
    <3> QED
      BY <2>1, <2>5, <2>8, <3>1, <3>2, <3>3
  <2> QED
    BY <1>13, <2>2, <2>7, <2>8 DEF RunTask
<1>14. CASE Complete \/ Fail
  <2>1. (CallSucceeded(c) \/ CallFailed(c)) /\ caller[c].pc \in {"wait", "asleep"}
    BY <1>0, <1>14 DEF Complete, Fail, CallerState, NothingToRun, CallQueued, CallRuns,
                       CallSucceeded, CallFailed, CallCompleted
  <2>2. /\ worker.task = TaskOf(c) /\ worker.task.id = caller[c].txn_id
        /\ worker.task.fn = Fn(c) /\ queue = <<>> /\ HasRun(Fn(c))
    BY <2>1 DEF CallSucceeded, CallFailed, TaskOf
  <2>3. /\ completed_txn_id' = caller[c].txn_id /\ worker'.pc = "wait"
        /\ UNCHANGED <<next_txn_id, queue, shutdown, ran, threw>>
        /\ CallersNotified
    BY <1>14, <2>2 DEF Complete, Fail, Typed, TypeOK
  <2>4. caller'[c] = IF caller[c].pc = "asleep" THEN [caller[c] EXCEPT !.pc = "wait"]
                     ELSE caller[c]
    BY <2>3 DEF CallersNotified
  <2>5. /\ caller'[c].pc = "wait" /\ caller'[c].txn_id = caller[c].txn_id
        /\ caller'[c].calls = caller[c].calls
    BY <2>1, <2>4, <1>0 DEF CallerState
  <2>6. Fn(c)' = Fn(c)
    BY <2>5 DEF Fn
  <2>7. exception' = Outcome(c)
    <3>1. CASE CallSucceeded(c)
      BY <3>1, <1>14 DEF CallSucceeded, NotYetRun, Outcome, Complete, Fail
    <3>2. CASE CallFailed(c)
      BY <3>2, <1>14, <2>2 DEF CallFailed, Outcome, Complete, Fail
    <3> QED
      BY <2>1, <3>1, <3>2
  <2>8. CallCompleted(c)'
    BY <2>2, <2>3, <2>5, <2>6, <2>7 DEF CallCompleted, NothingToRun, Outcome, HasRun
  <2> QED
    BY <2>1, <2>3, <2>5, <2>8
<1>15. CASE Shutdown
  <2>1. worker'.pc = "exited" <=> worker.pc = "exited"
    BY <1>15 DEF Shutdown, WorkerNotified, Typed, TypeOK
  <2>2. worker'.pc \in {"wait", "exited"} \/ worker'.pc = worker.pc
    BY <1>15 DEF Shutdown, WorkerNotified, Typed, TypeOK
  <2> QED
    BY <1>15, <2>1, <2>2 DEF Shutdown, NothingToRun, Outcome, HasRun, Fn
<1>16. CASE UNCHANGED vars
  BY <1>16 DEF vars, CallQueued, CallRuns, CallSucceeded, CallFailed, CallCompleted,
               NotYetRun, NothingToRun, Outcome, HasRun, TaskOf, Fn
<1>17. \A d \in Callers \ {c} : ~Execute(d) /\ ~WakeSpuriously(d)
  BY OthersRest
<1>18. Execute(c) => CallInv(c)'
  BY <1>1, <1>2, <1>3, <1>5, <1>7 DEF Execute
<1>19. SpuriousWakeup => CallInv(c)'
  BY <1>6, <1>11, <1>17 DEF SpuriousWakeup
<1>20. Worker => CallInv(c)'
  BY <1>8, <1>10, <1>12, <1>13, <1>14 DEF Worker
<1> QED
  BY <1>15, <1>16, <1>17, <1>18, <1>19, <1>20 DEF Next, Joined

(* What is known of the call of whoever calls alone.                       *)
LoneCallInv == \A c \in Callers : CallsAlone(c) => CallInv(c)

LEMMA AlwaysLoneCall == Spec => []LoneCallInv
<1>1. Init => LoneCallInv
  BY InitCall DEF LoneCallInv
<1>2. Typed /\ LoneCallInv /\ [Next]_vars => LoneCallInv'
  BY StepCall, OthersRest DEF LoneCallInv
<1> QED
  BY <1>1, <1>2, AlwaysTyped, PTL DEF Spec

(* Whoever is the only caller of execute(), as the database worker is,     *)
(* gets control back only after its own function has run.                  *)
THEOREM LoneCallerReturnsAfterRun == Spec => []ReturnsAfterRun
<1>1. LoneCallInv => ReturnsAfterRun
  BY DEF LoneCallInv, CallInv, ReturnsAfterRun
<1> QED
  BY <1>1, AlwaysLoneCall, PTL

(* ... and it gets that function's exception, never an earlier one, and    *)
(* never nothing when the function threw.                                  *)
THEOREM LoneCallerGetsOwnException == Spec => []OwnException
<1>1. LoneCallInv => OwnException
  BY DEF LoneCallInv, CallInv, OwnException, Outcome
<1> QED
  BY <1>1, AlwaysLoneCall, PTL
=============================================================================
