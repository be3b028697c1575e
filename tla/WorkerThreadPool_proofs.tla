----------------------- MODULE WorkerThreadPool_proofs ------------------------
(***************************************************************************)
(* Theorems about WorkerThreadPool, for every number of workers, clients,  *)
(* tasks and calls and every size of the queue: its types, the mutex, the  *)
(* task structures, and what the callers rely on (no wakeup is lost,       *)
(* results are delivered, and the pool implements JobQueue).               *)
(***************************************************************************)
EXTENDS WorkerThreadPool, Lists_proofs

-----------------------------------------------------------------------------
(* Type correctness.                                                       *)

\* TypeOK is not inductive: the callback of a task adds the task's job to done, so the
\* tasks that are pending or held must carry a job, and a call must have a number.
PendingTyped == \A t \in Elements(pending) : task[t].job \in Jobs
HoldTyped == \A w \in Workers : pc[w] \in HoldingPCs =>
                 cur[w] \in Tasks /\ task[cur[w]].job \in Jobs
CallTyped == \A c \in Clients :
                 /\ pc[c] # "idle" => call[c].n \in 1..MaxCalls
                 /\ pc[c] \in WaitingPCs => cur[c] \in Tasks
TypeInv == TypeOK /\ PendingTyped /\ HoldTyped /\ CallTyped

LEMMA TypeInit == Init => TypeInv
BY ThreadAssumption, SizeAssumption
DEF Init, TypeInv, TypeOK, PendingTyped, HoldTyped, CallTyped, Threads, WorkerPCs, ClientPCs,
    HoldingPCs, WaitingPCs, Task, Call, Jobs, Elements

\* The assignments to the fields of one task or one call.
LEMMA TypeComplete ==
    ASSUME task \in [Tasks -> Task], NEW t \in Tasks,
           task' = [task EXCEPT ![t].completed = TRUE]
    PROVE  task' \in [Tasks -> Task] /\ \A u \in Tasks : task'[u].job = task[u].job
BY DEF Task

LEMMA TypeTimeOut ==
    ASSUME task \in [Tasks -> Task], NEW t \in Tasks,
           task' = [task EXCEPT ![t].result = FALSE, ![t].timedout = TRUE]
    PROVE  task' \in [Tasks -> Task] /\ \A u \in Tasks : task'[u].job = task[u].job
BY DEF Task

LEMMA TypeWaitError ==
    ASSUME call \in [Clients -> Call], NEW c \in Clients,
           call' = [call EXCEPT ![c].wait_error = "ETIMEDOUT"]
    PROVE  call' \in [Clients -> Call] /\ \A d \in Clients : call'[d].n = call[d].n
BY DEF Call

\* Appending a task to the queue (the part EnqueueMalloc and EnqueueReuse share).
LEMMA TypeAppendTask ==
    ASSUME TypeInv, NEW c \in Clients, NEW t \in Tasks,
           AppendTask(c, t), pool' \in Seq(Tasks), heap' \subseteq Tasks,
           sem' \in [Tasks -> Nat]
    PROVE  TypeInv'
<1> USE ThreadAssumption, SizeAssumption
    DEF TypeInv, TypeOK, PendingTyped, HoldTyped, CallTyped, Threads, WorkerPCs, ClientPCs,
        HoldingPCs, WaitingPCs, ownerVars
<1>1. JobOf(c) \in Jobs /\ pc[c] = "add"
  <2>1. pc[c] = "add"
    BY DEF AppendTask, Goto
  <2>2. call[c].n \in 1..MaxCalls
    BY <2>1
  <2>3. QED
    BY <2>1, <2>2 DEF JobOf, Jobs
<1>2. /\ task' \in [Tasks -> Task]
      /\ task'[t].job = JobOf(c)
      /\ \A u \in Tasks : u # t => task'[u] = task[u]
  <2>1. Filled(c) \in Task /\ Filled(c).job = JobOf(c)
    BY <1>1 DEF Filled, Task, Call
  <2>2. QED
    BY <2>1 DEF AppendTask
<1>3. /\ pending' \in Seq(Tasks) /\ Len(pending') <= MaxQueueSize
      /\ Elements(pending') = Elements(pending) \union {t}
  BY AppendElements DEF AppendTask, QueueFull
<1>4. pc' = [pc EXCEPT ![c] = "post"] /\ cur' = [cur EXCEPT ![c] = t]
  BY DEF AppendTask, Goto
<1>5. accepted' \subseteq Jobs
  BY <1>1 DEF AppendTask
<1>6. UNCHANGED <<tokens, running, phase, call, done, answer, written>> /\ mutex' = NoOne
  BY DEF AppendTask, Unlock
<1>7. TypeOK'
  BY <1>2, <1>3, <1>4, <1>5, <1>6
<1>8. PendingTyped'
  BY <1>1, <1>2, <1>3, ElementsType
<1>9. HoldTyped'
  BY <1>1, <1>2, <1>4
<1>10. CallTyped'
  BY <1>1, <1>4, <1>6
<1>11. QED
  BY <1>7, <1>8, <1>9, <1>10

\* Waiting on a task's semaphore changes nothing but the semaphore.
LEMMA TypeTaskSignalled ==
    ASSUME TypeInv, NEW c \in Clients, TaskSignalled(c)
    PROVE  sem' \in [Tasks -> Nat] /\ task' = task
<1>1. sem \in [Tasks -> Nat] /\ cur[c] \in Tasks \union {NoOne}
  BY DEF TypeInv, TypeOK, Threads
<1>2. \A t \in Tasks : t = cur[c] => sem[t] - 1 \in Nat
  BY <1>1 DEF TaskSignalled
<1>3. QED
  BY <1>1, <1>2 DEF TaskSignalled

LEMMA TypeStep == TypeInv /\ [Next]_vars => TypeInv'
<1> SUFFICES ASSUME TypeInv, [Next]_vars PROVE TypeInv'
  OBVIOUS
<1> USE ThreadAssumption, SizeAssumption
    DEF TypeInv, TypeOK, PendingTyped, HoldTyped, CallTyped, Threads, WorkerPCs, ClientPCs,
        HoldingPCs, WaitingPCs, Goto, Unlock, Forget,
        syncVars, queueVars, taskVars, ownerVars, history
<1>w1. ASSUME NEW w \in Workers, WorkerLoop(w) PROVE TypeInv'
  BY <1>w1 DEF WorkerLoop
<1>w2. ASSUME NEW w \in Workers, WorkerLockLook(w) PROVE TypeInv'
  BY <1>w2 DEF WorkerLockLook, Lock
<1>w3. ASSUME NEW w \in Workers, WorkerSignalled(w) PROVE TypeInv'
  BY <1>w3 DEF WorkerSignalled
<1>w4. ASSUME NEW w \in Workers, WorkerTimedOut(w) PROVE TypeInv'
  BY <1>w4 DEF WorkerTimedOut
<1>w5. ASSUME NEW w \in Workers, WorkerWoken(w) PROVE TypeInv'
  BY <1>w5 DEF WorkerWoken
<1>w6. ASSUME NEW w \in Workers, WorkerLockTake(w) PROVE TypeInv'
  BY <1>w6 DEF WorkerLockTake, Lock
<1>w7. ASSUME NEW w \in Workers, WorkerNoWork(w) PROVE TypeInv'
  <2>1. PICK to \in {"sem_wait", "while"} : pc' = [pc EXCEPT ![w] = to]
    BY <1>w7 DEF WorkerNoWork
  <2>2. QED
    BY <1>w7, <2>1 DEF WorkerNoWork
<1>w8. ASSUME NEW w \in Workers, WorkerDequeue(w) PROVE TypeInv'
  <2>1. /\ Head(pending) \in Tasks /\ pending' \in Seq(Tasks)
        /\ Len(pending') <= MaxQueueSize
        /\ Elements(pending') \subseteq Elements(pending)
        /\ Head(pending) \in Elements(pending)
    BY <1>w8, TailElements DEF WorkerDequeue
  <2>2. cur' \in [Threads -> Tasks \union {NoOne}] /\ cur'[w] = Head(pending)
        /\ \A t \in Threads : t # w => cur'[t] = cur[t]
    BY <1>w8, <2>1 DEF WorkerDequeue
  <2>3. pc' = [pc EXCEPT ![w] = "callback"]
    BY <1>w8 DEF WorkerDequeue
  <2>4. UNCHANGED <<tokens, pool, heap, running, phase, accepted, done, answer, written,
                    task, sem, call>> /\ mutex' = NoOne
    BY <1>w8 DEF WorkerDequeue
  <2>5. TypeOK'
    BY <2>1, <2>2, <2>3, <2>4
  <2>6. PendingTyped' /\ HoldTyped'
    BY <2>1, <2>2, <2>3, <2>4
  <2>7. CallTyped'
    BY <2>2, <2>3, <2>4
  <2>8. QED
    BY <2>5, <2>6, <2>7
<1>w9. ASSUME NEW w \in Workers, WorkerCallback(w) PROVE TypeInv'
  BY <1>w9 DEF WorkerCallback
<1>w10. ASSUME NEW w \in Workers, WorkerCheckResult(w) PROVE TypeInv'
  BY <1>w10 DEF WorkerCheckResult
<1>w11. ASSUME NEW w \in Workers, WorkerStoreResult(w) PROVE TypeInv'
  <2>1. cur[w] \in Tasks /\ task[cur[w]].job \in Jobs
    BY <1>w11 DEF WorkerStoreResult
  <2>2. PICK to \in {"lock_finish", "segfault"} : pc' = [pc EXCEPT ![w] = to]
    BY <1>w11 DEF WorkerStoreResult
  <2>3. written' \subseteq Jobs
    BY <1>w11, <2>1 DEF WorkerStoreResult
  <2>4. UNCHANGED <<mutex, tokens, pending, pool, heap, running, phase, task, sem, cur, call,
                    accepted, done, answer>> /\ pc[w] = "store_result"
    BY <1>w11 DEF WorkerStoreResult
  <2>5. QED
    BY <2>1, <2>2, <2>3, <2>4
<1>w12. ASSUME NEW w \in Workers, WorkerLockFinish(w) PROVE TypeInv'
  BY <1>w12 DEF WorkerLockFinish, Lock
<1>w13. ASSUME NEW w \in Workers, WorkerFinish(w) PROVE TypeInv'
  <2>1. cur[w] \in Tasks
    BY <1>w13 DEF WorkerFinish
  <2>2. pool' \in Seq(Tasks)
    <3>1. pool' = <<cur[w]>> \o pool \/ pool' = pool
      BY <1>w13 DEF WorkerFinish
    <3>2. <<cur[w]>> \o pool \in Seq(Tasks)
      BY <2>1, ConsElements
    <3>3. QED
      BY <3>1, <3>2
  <2>3. /\ task' \in [Tasks -> Task] /\ \A t \in Tasks : task'[t].job = task[t].job
        /\ sem' \in [Tasks -> Nat]
    <3>1. CASE task[cur[w]].timedout
      BY <1>w13, <3>1 DEF WorkerFinish
    <3>2. CASE ~task[cur[w]].timedout
      <4>1. task' = [task EXCEPT ![cur[w]].completed = TRUE]
            /\ sem' = [sem EXCEPT ![cur[w]] = @ + 1]
        BY <1>w13, <3>2 DEF WorkerFinish
      <4>2. task' \in [Tasks -> Task] /\ \A t \in Tasks : task'[t].job = task[t].job
        BY <4>1, <2>1, TypeComplete
      <4>3. sem' \in [Tasks -> Nat]
        BY <4>1, <2>1
      <4>4. QED
        BY <4>2, <4>3
    <3>3. QED
      BY <3>1, <3>2
  <2>4. pc' = [pc EXCEPT ![w] = "while"] /\ cur' = [cur EXCEPT ![w] = NoOne]
    BY <1>w13 DEF WorkerFinish
  <2>5. UNCHANGED <<tokens, pending, heap, running, phase, accepted, done, answer, written,
                    call>> /\ mutex' = NoOne
    BY <1>w13 DEF WorkerFinish
  <2>6. TypeOK'
    BY <2>2, <2>3, <2>4, <2>5
  <2>7. PendingTyped'
    BY <2>3, <2>5, ElementsType
  <2>8. HoldTyped' /\ CallTyped'
    BY <2>3, <2>4, <2>5
  <2>9. QED
    BY <2>6, <2>7, <2>8
<1>c0. ASSUME NEW c \in Clients, NEW timeout \in Timeouts, NEW result \in ResultPointers,
               Enqueue(c, timeout, result)
        PROVE  TypeInv'
  BY <1>c0, CallAssumption DEF Enqueue, Call
<1>c1. ASSUME NEW c \in Clients, EnqueueLockAdd(c) PROVE TypeInv'
  BY <1>c1 DEF EnqueueLockAdd, Lock
<1>c2. ASSUME NEW c \in Clients, EnqueueFull(c) PROVE TypeInv'
  BY <1>c2 DEF EnqueueFull, Answered, JobOf
<1>c3. ASSUME NEW c \in Clients, EnqueueSemInitFails(c) PROVE TypeInv'
  BY <1>c3 DEF EnqueueSemInitFails, Answered, JobOf
<1>c4. ASSUME NEW c \in Clients, EnqueueMalloc(c) PROVE TypeInv'
  <2>1. PICK t \in Tasks : /\ pool' \in Seq(Tasks)
                            /\ heap' \subseteq Tasks
                            /\ sem' \in [Tasks -> Nat]
                            /\ AppendTask(c, t)
    <3>1. PICK t \in Tasks \ heap : /\ heap' = heap \union {t}
                                    /\ UNCHANGED pool
                                    /\ sem' = [sem EXCEPT ![t] = 0]
                                    /\ AppendTask(c, t)
      BY <1>c4 DEF EnqueueMalloc
    <3>2. heap' \subseteq Tasks /\ pool' \in Seq(Tasks)
      BY <3>1
    <3>3. sem' \in [Tasks -> Nat]
      BY <3>1
    <3>4. QED
      BY <3>1, <3>2, <3>3
  <2>2. QED
    BY <2>1, TypeAppendTask
<1>c5. ASSUME NEW c \in Clients, EnqueueReuse(c) PROVE TypeInv'
  <2>1. PICK t \in Tasks : /\ pool' \in Seq(Tasks)
                            /\ heap' \subseteq Tasks
                            /\ sem' \in [Tasks -> Nat]
                            /\ AppendTask(c, t)
    BY <1>c5, TailElements DEF EnqueueReuse
  <2>2. QED
    BY <2>1, TypeAppendTask
<1>c6. ASSUME NEW c \in Clients, EnqueuePost(c) PROVE TypeInv'
  <2>1. PICK to \in {"idle", "wait", "timed_wait"} : pc' = [pc EXCEPT ![c] = to]
    BY <1>c6 DEF EnqueuePost
  <2>2. /\ tokens' \in Nat
        /\ \/ cur' = cur
           \/ cur' = [cur EXCEPT ![c] = NoOne] /\ pc'[c] = "idle"
    BY <1>c6 DEF EnqueuePost
  <2>3. answer' \in [Jobs -> {"none", "success", "timeout", "detached", "full", "error"}]
    BY <1>c6 DEF EnqueuePost, Answered
  <2>4. UNCHANGED <<mutex, pending, pool, heap, running, phase, task, sem, call, accepted, done,
                    written>> /\ pc[c] = "post"
    BY <1>c6 DEF EnqueuePost
  <2>5. QED
    BY <2>1, <2>2, <2>3, <2>4
<1>c7. ASSUME NEW c \in Clients, EnqueueWaited(c) PROVE TypeInv'
  <2>1. sem' \in [Tasks -> Nat] /\ task' = task
    BY <1>c7, TypeTaskSignalled DEF EnqueueWaited
  <2>2. answer' \in [Jobs -> {"none", "success", "timeout", "detached", "full", "error"}]
    BY <1>c7 DEF EnqueueWaited, Answered
  <2>3. PendingTyped'
    BY <1>c7, <2>1 DEF EnqueueWaited
  <2>4. QED
    BY <1>c7, <2>1, <2>2, <2>3 DEF EnqueueWaited
<1>c8. ASSUME NEW c \in Clients, EnqueueSignalled(c) PROVE TypeInv'
  <2>1. sem' \in [Tasks -> Nat] /\ task' = task
    BY <1>c8, TypeTaskSignalled DEF EnqueueSignalled
  <2>2. PendingTyped'
    BY <1>c8, <2>1 DEF EnqueueSignalled
  <2>3. QED
    BY <1>c8, <2>1, <2>2 DEF EnqueueSignalled
<1>c9. ASSUME NEW c \in Clients, EnqueueTimedOut(c) PROVE TypeInv'
  <2>1. call' \in [Clients -> Call] /\ \A d \in Clients : call'[d].n = call[d].n
    <3>1. call' = [call EXCEPT ![c].wait_error = "ETIMEDOUT"]
      BY <1>c9 DEF EnqueueTimedOut
    <3>2. QED
      BY <3>1, TypeWaitError
  <2>2. QED
    BY <1>c9, <2>1 DEF EnqueueTimedOut
<1>c10. ASSUME NEW c \in Clients, EnqueueLockDecide(c) PROVE TypeInv'
  BY <1>c10 DEF EnqueueLockDecide, Lock
<1>c11. ASSUME NEW c \in Clients, EnqueueDecide(c) PROVE TypeInv'
  <2>1. cur[c] \in Tasks
    BY <1>c11 DEF EnqueueDecide
  <2>2. pool' \in Seq(Tasks)
    <3>1. pool' = <<cur[c]>> \o pool \/ pool' = pool
      BY <1>c11 DEF EnqueueDecide
    <3>2. <<cur[c]>> \o pool \in Seq(Tasks)
      BY <2>1, ConsElements
    <3>3. QED
      BY <3>1, <3>2
  <2>3. task' \in [Tasks -> Task] /\ \A t \in Tasks : task'[t].job = task[t].job
    <3>1. \/ task' = task
          \/ task' = [task EXCEPT ![cur[c]].result = FALSE, ![cur[c]].timedout = TRUE]
      BY <1>c11 DEF EnqueueDecide
    <3>2. CASE task' = task
      BY <3>2
    <3>3. CASE task' = [task EXCEPT ![cur[c]].result = FALSE, ![cur[c]].timedout = TRUE]
      BY <3>3, <2>1, TypeTimeOut
    <3>4. QED
      BY <3>1, <3>2, <3>3
  <2>4. answer' \in [Jobs -> {"none", "success", "timeout", "detached", "full", "error"}]
    BY <1>c11 DEF EnqueueDecide, Answered
  <2>5. pc' = [pc EXCEPT ![c] = "idle"] /\ cur' = [cur EXCEPT ![c] = NoOne]
    BY <1>c11 DEF EnqueueDecide
  <2>6. UNCHANGED <<tokens, pending, heap, sem, running, phase, call, accepted, done, written>>
        /\ mutex' = NoOne
    BY <1>c11 DEF EnqueueDecide
  <2>7. PendingTyped'
    BY <2>3, <2>6, ElementsType
  <2>8. TypeOK'
    BY <2>2, <2>3, <2>4, <2>5, <2>6
  <2>9. QED
    BY <2>3, <2>5, <2>6, <2>7, <2>8
<1>o1. ASSUME NEW w \in Workers, CreateThread(w) PROVE TypeInv'
  BY <1>o1 DEF CreateThread
<1>o2. CASE InitDone
  BY <1>o2 DEF InitDone
<1>o3. CASE InitFails
  BY <1>o3 DEF InitFails
<1>o4. CASE Dealloc
  BY <1>o4 DEF Dealloc
<1>o5. CASE DeallocWake
  BY <1>o5, FS_CardinalityType DEF DeallocWake
<1>o6. CASE DeallocFree
  BY <1>o6 DEF DeallocFree, Elements
<1>u. CASE UNCHANGED vars
  BY <1>u DEF vars
<1>q. QED
  BY <1>w1, <1>w2, <1>w3, <1>w4, <1>w5, <1>w6, <1>w7, <1>w8, <1>w9, <1>w10, <1>w11, <1>w12, <1>w13, <1>c0, <1>c1, <1>c2, <1>c3, <1>c4, <1>c5, <1>c6, <1>c7, <1>c8, <1>c9, <1>c10, <1>c11, <1>o1, <1>o2, <1>o3, <1>o4, <1>o5, <1>o6, <1>u
  DEF Next, Worker, Client, Returning, Owner

\* Every variable keeps its type; the queue never holds more than MaxQueueSize tasks.
THEOREM TypeCorrect == Spec => []TypeOK
<1>1. Init => TypeInv
  BY TypeInit
<1>2. TypeInv /\ [Next]_vars => TypeInv'
  BY TypeStep
<1>3. TypeInv => TypeOK
  BY DEF TypeInv
<1>4. QED
  BY <1>1, <1>2, <1>3, PTL DEF Spec

-----------------------------------------------------------------------------
(* The mutex.                                                              *)

LEMMA LockInit == Init => LockDiscipline
BY ThreadAssumption DEF Init, LockDiscipline, CriticalPCs, Threads

LEMMA LockStep == TypeInv /\ LockDiscipline /\ [Next]_vars => LockDiscipline'
<1> SUFFICES ASSUME TypeInv, LockDiscipline, [Next]_vars PROVE LockDiscipline'
  OBVIOUS
<1>1. /\ pc \in [Threads -> WorkerPCs \union ClientPCs]
      /\ Workers \subseteq Threads /\ Clients \subseteq Threads /\ NoOne \notin Threads
  BY ThreadAssumption DEF TypeInv, TypeOK, Threads
<1> USE DEF LockDiscipline, CriticalPCs, Goto, Unlock, AppendTask
<1>w1. ASSUME NEW w \in Workers, WorkerLoop(w) PROVE LockDiscipline'
  BY <1>w1, <1>1 DEF WorkerLoop, syncVars
<1>w2. ASSUME NEW w \in Workers, WorkerLockLook(w) PROVE LockDiscipline'
  BY <1>w2, <1>1 DEF WorkerLockLook, Lock
<1>w3. ASSUME NEW w \in Workers, WorkerSignalled(w) PROVE LockDiscipline'
  BY <1>w3, <1>1 DEF WorkerSignalled, syncVars
<1>w4. ASSUME NEW w \in Workers, WorkerTimedOut(w) PROVE LockDiscipline'
  BY <1>w4, <1>1 DEF WorkerTimedOut, syncVars
<1>w5. ASSUME NEW w \in Workers, WorkerWoken(w) PROVE LockDiscipline'
  BY <1>w5, <1>1 DEF WorkerWoken, syncVars
<1>w6. ASSUME NEW w \in Workers, WorkerLockTake(w) PROVE LockDiscipline'
  BY <1>w6, <1>1 DEF WorkerLockTake, Lock
<1>w7. ASSUME NEW w \in Workers, WorkerNoWork(w) PROVE LockDiscipline'
  BY <1>w7, <1>1 DEF WorkerNoWork, syncVars
<1>w8. ASSUME NEW w \in Workers, WorkerDequeue(w) PROVE LockDiscipline'
  BY <1>w8, <1>1 DEF WorkerDequeue, syncVars
<1>w9. ASSUME NEW w \in Workers, WorkerCallback(w) PROVE LockDiscipline'
  BY <1>w9, <1>1 DEF WorkerCallback, syncVars
<1>w10. ASSUME NEW w \in Workers, WorkerCheckResult(w) PROVE LockDiscipline'
  BY <1>w10, <1>1 DEF WorkerCheckResult, syncVars
<1>w11. ASSUME NEW w \in Workers, WorkerStoreResult(w) PROVE LockDiscipline'
  BY <1>w11, <1>1 DEF WorkerStoreResult, syncVars
<1>w12. ASSUME NEW w \in Workers, WorkerLockFinish(w) PROVE LockDiscipline'
  BY <1>w12, <1>1 DEF WorkerLockFinish, Lock
<1>w13. ASSUME NEW w \in Workers, WorkerFinish(w) PROVE LockDiscipline'
  BY <1>w13, <1>1 DEF WorkerFinish, syncVars
<1>c0. ASSUME NEW c \in Clients, NEW timeout \in Timeouts, NEW result \in ResultPointers,
               Enqueue(c, timeout, result)
        PROVE  LockDiscipline'
  BY <1>c0, <1>1 DEF Enqueue, syncVars
<1>c1. ASSUME NEW c \in Clients, EnqueueLockAdd(c) PROVE LockDiscipline'
  BY <1>c1, <1>1 DEF EnqueueLockAdd, Lock
<1>c2. ASSUME NEW c \in Clients, EnqueueFull(c) PROVE LockDiscipline'
  BY <1>c2, <1>1 DEF EnqueueFull, syncVars
<1>c3. ASSUME NEW c \in Clients, EnqueueSemInitFails(c) PROVE LockDiscipline'
  BY <1>c3, <1>1 DEF EnqueueSemInitFails, syncVars
<1>c4. ASSUME NEW c \in Clients, EnqueueMalloc(c) PROVE LockDiscipline'
  BY <1>c4, <1>1 DEF EnqueueMalloc, syncVars
<1>c5. ASSUME NEW c \in Clients, EnqueueReuse(c) PROVE LockDiscipline'
  BY <1>c5, <1>1 DEF EnqueueReuse, syncVars
<1>c6. ASSUME NEW c \in Clients, EnqueuePost(c) PROVE LockDiscipline'
  BY <1>c6, <1>1 DEF EnqueuePost, syncVars
<1>c7. ASSUME NEW c \in Clients, EnqueueWaited(c) PROVE LockDiscipline'
  BY <1>c7, <1>1 DEF EnqueueWaited, syncVars
<1>c8. ASSUME NEW c \in Clients, EnqueueSignalled(c) PROVE LockDiscipline'
  BY <1>c8, <1>1 DEF EnqueueSignalled, syncVars
<1>c9. ASSUME NEW c \in Clients, EnqueueTimedOut(c) PROVE LockDiscipline'
  BY <1>c9, <1>1 DEF EnqueueTimedOut, syncVars
<1>c10. ASSUME NEW c \in Clients, EnqueueLockDecide(c) PROVE LockDiscipline'
  BY <1>c10, <1>1 DEF EnqueueLockDecide, Lock
<1>c11. ASSUME NEW c \in Clients, EnqueueDecide(c) PROVE LockDiscipline'
  BY <1>c11, <1>1 DEF EnqueueDecide, syncVars
<1>o1. ASSUME NEW w \in Workers, CreateThread(w) PROVE LockDiscipline'
  BY <1>o1, <1>1 DEF CreateThread, syncVars
<1>o2. CASE InitDone
  BY <1>o2, <1>1 DEF InitDone, syncVars
<1>o3. CASE InitFails
  BY <1>o3, <1>1 DEF InitFails, syncVars
<1>o4. CASE Dealloc
  BY <1>o4, <1>1 DEF Dealloc, syncVars
<1>o5. CASE DeallocWake
  BY <1>o5, <1>1 DEF DeallocWake, syncVars
<1>o6. CASE DeallocFree
  BY <1>o6, <1>1 DEF DeallocFree, syncVars
<1>u. CASE UNCHANGED vars
  BY <1>u, <1>1 DEF vars, syncVars
<1>q. QED
  BY <1>w1, <1>w2, <1>w3, <1>w4, <1>w5, <1>w6, <1>w7, <1>w8, <1>w9, <1>w10, <1>w11, <1>w12, <1>w13,
     <1>c0, <1>c1, <1>c2, <1>c3, <1>c4, <1>c5, <1>c6, <1>c7, <1>c8, <1>c9, <1>c10, <1>c11, <1>o1, <1>o2, <1>o3, <1>o4, <1>o5, <1>o6, <1>u
  DEF Next, Worker, Client, Returning, Owner

\* tasks_mutex is owned exactly by the thread in a critical section, and every path of
\* worker_thread_pool_pthread_callback and worker_thread_pool_enqueue releases it.
THEOREM LockCorrect == Spec => []LockDiscipline
<1>1. Init => TypeInv /\ LockDiscipline
  BY TypeInit, LockInit
<1>2. TypeInv /\ LockDiscipline /\ [Next]_vars => TypeInv' /\ LockDiscipline'
  BY TypeStep, LockStep
<1>3. QED
  BY <1>1, <1>2, PTL DEF Spec

-----------------------------------------------------------------------------
(* The task structures.                                                    *)

Holds(w) == pc[w] \in HoldingPCs
Waits(c) == pc[c] \in WaitingPCs

\* Clients are in calls only between worker_thread_pool_init and _dealloc.
CallsWhileUp == phase # "up" => \A c \in Clients : pc[c] = "idle"

\* What the lists, the workers and the waiting clients point to is allocated.
PointersValid == /\ Elements(pending) \union Elements(pool) \subseteq heap
                 /\ \A w \in Workers : Holds(w) => cur[w] \in heap
                 /\ \A c \in Clients : Waits(c) => cur[c] \in heap

\* A task that is still to be finished is not marked completed, nor signalled.
Unfinished(t) == ~task[t].completed /\ sem[t] = 0
UnfinishedTasks == /\ \A t \in Elements(pending) : Unfinished(t)
                   /\ \A w \in Workers : Holds(w) => Unfinished(cur[w])

\* Until its wait ends, a client's task is pending, held, or completed and signalled.
WaitingClients ==
    \A c \in Clients :
        /\ pc[c] \in {"lock_add", "add", "post", "wait", "timed_wait"} =>
              call[c].wait_error = "0"
        /\ pc[c] \in {"post", "wait", "timed_wait"} =>
              \/ cur[c] \in Elements(pending)
              \/ \E w \in Workers : Holds(w) /\ cur[w] = cur[c]
              \/ task[cur[c]].completed /\ sem[cur[c]] = 1

\* The inductive invariant.  TaskInOnePlace alone is not inductive: that the task a
\* worker pools is not pooled already, and that the task a client reuses is nobody's,
\* rest on the other parts.
OwnInv == /\ CallsWhileUp /\ PointersValid /\ TaskInOnePlace /\ WaitedTaskIsOwn
          /\ PooledTasksAreClean /\ UnfinishedTasks /\ WaitingClients
          /\ SignalledMeansCompleted

LEMMA OwnInit == Init => OwnInv
BY ThreadAssumption DEF Init, OwnInv, CallsWhileUp, PointersValid, TaskInOnePlace, WaitedTaskIsOwn,
       PooledTasksAreClean, UnfinishedTasks, WaitingClients, SignalledMeansCompleted,
       Elements, Distinct, Holds, Waits, HoldingPCs, WaitingPCs, Threads

\* The fields the assignments to a task or a call leave alone.
LEMMA CompleteFields ==
    ASSUME task \in [Tasks -> Task], NEW t \in Tasks,
           task' = [task EXCEPT ![t].completed = TRUE]
    PROVE  /\ task'[t].completed /\ task'[t].job = task[t].job
           /\ task'[t].timedout = task[t].timedout
           /\ \A u \in Tasks : u # t => task'[u] = task[u]
BY DEF Task

LEMMA TimeOutFields ==
    ASSUME task \in [Tasks -> Task], NEW t \in Tasks,
           task' = [task EXCEPT ![t].result = FALSE, ![t].timedout = TRUE]
    PROVE  /\ \A u \in Tasks : u # t => task'[u] = task[u]
           /\ \A u \in Tasks : task'[u].completed = task[u].completed
BY DEF Task

LEMMA WaitErrorFields ==
    ASSUME call \in [Clients -> Call], NEW c \in Clients,
           call' = [call EXCEPT ![c].wait_error = "ETIMEDOUT"]
    PROVE  /\ call'[c].wait_error = "ETIMEDOUT"
           /\ \A d \in Clients : call'[d].n = call[d].n /\ (d # c => call'[d] = call[d])
BY DEF Call

\* A task outside the lists that no worker holds and no client waits on.
NobodysTask(t) == /\ t \notin Elements(pending)
                  /\ \A w \in Workers : Holds(w) => cur[w] # t
                  /\ \A c \in Clients : Waits(c) => cur[c] # t

LEMMA OwnAppendTask ==
    ASSUME TypeInv, OwnInv, NEW c \in Clients, NEW t \in Tasks, AppendTask(c, t),
           NobodysTask(t), t \notin Elements(pool'), t \in heap', heap \subseteq heap',
           Elements(pool') \subseteq Elements(pool), Distinct(pool'),
           sem'[t] = 0, \A u \in Tasks : u # t => sem'[u] = sem[u]
    PROVE  OwnInv'
<1> USE DEF OwnInv, CallsWhileUp, PointersValid, TaskInOnePlace, WaitedTaskIsOwn,
       PooledTasksAreClean, UnfinishedTasks, WaitingClients, SignalledMeansCompleted,
       Holds, Waits, HoldingPCs, WaitingPCs, NobodysTask, JobOf, Unfinished
<1>1. /\ pc[c] = "add" /\ pc' = [pc EXCEPT ![c] = "post"]
      /\ cur' = [cur EXCEPT ![c] = t]
      /\ task' = [task EXCEPT ![t] = Filled(c)]
      /\ pending' = Append(pending, t)
      /\ UNCHANGED <<call, phase>>
  BY DEF AppendTask, Goto, ownerVars
<1>2. /\ Elements(pending') = Elements(pending) \union {t}
      /\ Distinct(pending')
  BY <1>1, AppendElements, DistinctAppend DEF TypeInv, TypeOK
<1>3. /\ pc'[c] = "post" /\ cur'[c] = t
      /\ \A u \in Threads : u # c => pc'[u] = pc[u] /\ cur'[u] = cur[u]
      /\ \A w \in Workers : pc'[w] = pc[w] /\ cur'[w] = cur[w]
  BY <1>1, ThreadAssumption DEF TypeInv, TypeOK, Threads
<1>4. /\ task'[t].job = JobOf(c) /\ ~task'[t].completed /\ ~task'[t].timedout
      /\ \A u \in Tasks : u # t => task'[u] = task[u]
  BY <1>1 DEF Filled, TypeInv, TypeOK
<1>5. Elements(pending) \subseteq Tasks /\ Elements(pool) \subseteq Tasks
  BY ElementsType DEF TypeInv, TypeOK
<1>6. /\ \A w \in Workers : Holds(w) => cur[w] \in Tasks
      /\ \A d \in Clients : Waits(d) => cur[d] \in Tasks
  BY DEF TypeInv, HoldTyped, CallTyped
<1>7. \A d \in Clients : d # c => pc'[d] = pc[d] /\ cur'[d] = cur[d]
  BY <1>3 DEF Threads
<1>8. phase = "up" /\ call[c].wait_error = "0"
  BY <1>1
<1>9. CallsWhileUp'
  BY <1>1, <1>2, <1>3, <1>4, <1>5, <1>6, <1>7, <1>8
<1>10. PointersValid'
  BY <1>1, <1>2, <1>3, <1>4, <1>5, <1>6, <1>7, <1>8
<1>11. TaskInOnePlace'
  BY <1>1, <1>2, <1>3, <1>4, <1>5, <1>6, <1>7, <1>8
<1>12. WaitedTaskIsOwn'
  BY <1>1, <1>2, <1>3, <1>4, <1>5, <1>6, <1>7, <1>8
<1>13. PooledTasksAreClean'
  BY <1>1, <1>2, <1>3, <1>4, <1>5, <1>6, <1>7, <1>8
<1>14. UnfinishedTasks'
  BY <1>1, <1>2, <1>3, <1>4, <1>5, <1>6, <1>7, <1>8
<1>15. WaitingClients'
  BY <1>1, <1>2, <1>3, <1>4, <1>5, <1>6, <1>7, <1>8
<1>16. SignalledMeansCompleted'
  BY <1>1, <1>2, <1>3, <1>4, <1>5, <1>6, <1>7, <1>8
<1>17. QED
  BY <1>9, <1>10, <1>11, <1>12, <1>13, <1>14, <1>15, <1>16

\* A step of worker w that changes neither the lists, the tasks nor what w holds.
LEMMA OwnQuiet ==
    ASSUME TypeInv, OwnInv, NEW w \in Workers, NEW to, pc' = [pc EXCEPT ![w] = to],
           Holds(w) <=> to \in HoldingPCs,
           UNCHANGED <<pending, pool, heap, task, sem, cur, call, phase>>
    PROVE  OwnInv'
<1>1. \A v \in Workers : (pc'[v] \in HoldingPCs) <=> (pc[v] \in HoldingPCs)
  BY DEF Holds, TypeInv, TypeOK, Threads
<1>2. \A c \in Clients : pc'[c] = pc[c]
  BY ThreadAssumption DEF TypeInv, TypeOK, Threads
<1> USE DEF OwnInv, Holds, Waits
<1>3. CallsWhileUp' /\ PointersValid'
  BY <1>1, <1>2 DEF CallsWhileUp, PointersValid
<1>4. TaskInOnePlace'
  BY <1>1 DEF TaskInOnePlace
<1>5. WaitedTaskIsOwn'
  BY <1>2 DEF WaitedTaskIsOwn, JobOf
<1>6. PooledTasksAreClean' /\ UnfinishedTasks'
  BY <1>1 DEF PooledTasksAreClean, UnfinishedTasks, Unfinished
<1>7. WaitingClients'
  BY <1>1, <1>2 DEF WaitingClients
<1>8. SignalledMeansCompleted'
  BY <1>2 DEF SignalledMeansCompleted
<1>9. QED
  BY <1>3, <1>4, <1>5, <1>6, <1>7, <1>8

LEMMA OwnStep == TypeInv /\ TypeInv' /\ OwnInv /\ [Next]_vars => OwnInv'
<1> SUFFICES ASSUME TypeInv, TypeInv', OwnInv, [Next]_vars PROVE OwnInv'
  OBVIOUS
<1>1. /\ pc \in [Threads -> WorkerPCs \union ClientPCs]
      /\ Workers \subseteq Threads /\ Clients \subseteq Threads
      /\ Workers \intersect Clients = {}
  BY ThreadAssumption DEF TypeInv, TypeOK, Threads
<1> USE DEF Goto, Holds, HoldingPCs, Unlock, syncVars, queueVars, taskVars, ownerVars, history
<1>w1. ASSUME NEW w \in Workers, WorkerLoop(w) PROVE OwnInv'
  BY <1>w1, OwnQuiet DEF WorkerLoop
<1>w2. ASSUME NEW w \in Workers, WorkerLockLook(w) PROVE OwnInv'
  BY <1>w2, OwnQuiet DEF WorkerLockLook, Lock
<1>w3. ASSUME NEW w \in Workers, WorkerSignalled(w) PROVE OwnInv'
  BY <1>w3, OwnQuiet DEF WorkerSignalled
<1>w4. ASSUME NEW w \in Workers, WorkerTimedOut(w) PROVE OwnInv'
  BY <1>w4, OwnQuiet DEF WorkerTimedOut
<1>w5. ASSUME NEW w \in Workers, WorkerWoken(w) PROVE OwnInv'
  BY <1>w5, OwnQuiet DEF WorkerWoken
<1>w6. ASSUME NEW w \in Workers, WorkerLockTake(w) PROVE OwnInv'
  BY <1>w6, OwnQuiet DEF WorkerLockTake, Lock
<1>w7. ASSUME NEW w \in Workers, WorkerNoWork(w) PROVE OwnInv'
  <2>1. PICK to \in {"sem_wait", "while"} : pc' = [pc EXCEPT ![w] = to]
    BY <1>w7 DEF WorkerNoWork
  <2>2. UNCHANGED <<pending, pool, heap, task, sem, cur, call, phase>>
        /\ pc[w] \in {"look", "take"}
    BY <1>w7 DEF WorkerNoWork
  <2>3. QED
    BY <2>1, <2>2, OwnQuiet
<1>w9. ASSUME NEW w \in Workers, WorkerCallback(w) PROVE OwnInv'
  BY <1>w9, OwnQuiet DEF WorkerCallback
<1>w10. ASSUME NEW w \in Workers, WorkerCheckResult(w) PROVE OwnInv'
  BY <1>w10, OwnQuiet DEF WorkerCheckResult
<1>w11. ASSUME NEW w \in Workers, WorkerStoreResult(w) PROVE OwnInv'
  BY <1>w11, OwnQuiet DEF WorkerStoreResult
<1>w12. ASSUME NEW w \in Workers, WorkerLockFinish(w) PROVE OwnInv'
  BY <1>w12, OwnQuiet DEF WorkerLockFinish, Lock
<1> USE DEF OwnInv, CallsWhileUp, PointersValid, TaskInOnePlace, WaitedTaskIsOwn,
       PooledTasksAreClean, UnfinishedTasks, WaitingClients, SignalledMeansCompleted,
       Waits, WaitingPCs, JobOf, Unfinished
<1>w8. ASSUME NEW w \in Workers, WorkerDequeue(w) PROVE OwnInv'
  <2> DEFINE t == Head(pending)
  <2>1. /\ pending \in Seq(Tasks) /\ pending # <<>> /\ pending' = Tail(pending)
        /\ pc[w] \in {"look", "take"} /\ pc' = [pc EXCEPT ![w] = "callback"]
        /\ cur' = [cur EXCEPT ![w] = t]
        /\ UNCHANGED <<pool, heap, task, sem, call, phase>>
    BY <1>w8 DEF WorkerDequeue, TypeInv, TypeOK
  <2>2. /\ Elements(pending) = Elements(pending') \union {t}
        /\ Distinct(pending') /\ t \notin Elements(pending')
    BY <2>1, TailElements, DistinctTail
  <2>3. cur'[w] = t /\ \A u \in Threads : u # w => cur'[u] = cur[u]
    BY <1>1, <2>1 DEF TypeInv, TypeOK
  <2>4. /\ pc'[w] = "callback" /\ ~Holds(w)
        /\ \A u \in Threads : u # w => pc'[u] = pc[u]
        /\ \A c \in Clients : pc'[c] = pc[c] /\ cur'[c] = cur[c]
    BY <1>1, <2>1, <2>3
  <2> HIDE DEF t
  <2>5. CallsWhileUp'
    BY <1>1, <2>1, <2>2, <2>3, <2>4
  <2>6. PointersValid'
    BY <1>1, <2>1, <2>2, <2>3, <2>4
  <2>7. TaskInOnePlace'
    BY <1>1, <2>1, <2>2, <2>3, <2>4
  <2>8. WaitedTaskIsOwn'
    <3> HIDE DEF CallsWhileUp, PointersValid, TaskInOnePlace, PooledTasksAreClean,
                 UnfinishedTasks, WaitingClients, SignalledMeansCompleted
    <3>1. \A d \in Clients : Waits(d)' => Waits(d) /\ cur'[d] = cur[d]
      BY <1>1, <2>1, <2>4
    <3>2. QED
      BY <2>1, <3>1
  <2>9. PooledTasksAreClean'
    BY <1>1, <2>1, <2>2, <2>3, <2>4
  <2>10. UnfinishedTasks'
    BY <1>1, <2>1, <2>2, <2>3, <2>4
  <2>11. WaitingClients'
    BY <1>1, <2>1, <2>2, <2>3, <2>4
  <2>12. SignalledMeansCompleted'
    BY <1>1, <2>1, <2>2, <2>3, <2>4
  <2>13. QED
    BY <2>5, <2>6, <2>7, <2>8, <2>9, <2>10, <2>11, <2>12
<1>w13. ASSUME NEW w \in Workers, WorkerFinish(w) PROVE OwnInv'
  <2> DEFINE t == cur[w]
  <2>1. /\ pc[w] = "finish" /\ pc' = [pc EXCEPT ![w] = "while"]
        /\ cur' = [cur EXCEPT ![w] = NoOne]
        /\ UNCHANGED <<pending, heap, call, phase>>
    BY <1>w13 DEF WorkerFinish, Forget
  <2>2. t \in Tasks /\ t \in heap /\ Unfinished(t)
        /\ t \notin Elements(pending) \union Elements(pool)
        /\ \A v \in Workers : v # w /\ Holds(v) => cur[v] # t
    BY <2>1 DEF TypeInv, HoldTyped
  <2>3. \A u \in Threads : u # w => cur'[u] = cur[u] /\ pc'[u] = pc[u]
    BY <1>1, <2>1 DEF TypeInv, TypeOK
  <2>4. \A v \in Workers : Holds(v)' => v # w /\ Holds(v) /\ cur'[v] = cur[v]
    BY <1>1, <2>1, <2>3
  <2>5. CASE task[t].timedout
    <3>1. pool' = <<t>> \o pool /\ UNCHANGED <<task, sem>>
      BY <1>w13, <2>5 DEF WorkerFinish
    <3>2. pool \in Seq(Tasks)
      BY DEF TypeInv, TypeOK
    <3>3. Elements(pool') = Elements(pool) \union {t} /\ Distinct(pool')
      BY <2>2, <3>1, <3>2, ConsElements, DistinctCons
    <3>4. \A c \in Clients : Waits(c) => cur[c] # t
      BY <2>5
    <3> HIDE DEF t
    <3>5. CallsWhileUp' /\ PointersValid'
      BY <1>1, <2>1, <2>2, <2>3, <2>4, <3>1, <3>3
    <3>6. TaskInOnePlace'
      BY <2>1, <2>2, <2>4, <3>3
    <3>7. WaitedTaskIsOwn'
      BY <1>1, <2>1, <2>3, <3>1, <3>3, <3>4
    <3>8. PooledTasksAreClean' /\ UnfinishedTasks'
      BY <2>1, <2>2, <2>4, <3>1, <3>3
    <3>9. \A c \in Clients : pc'[c] = pc[c] /\ cur'[c] = cur[c] /\ call'[c] = call[c]
      BY <1>1, <2>1, <2>3
    <3>10. \A v \in Workers : Holds(v) /\ v # w => Holds(v)' /\ cur'[v] = cur[v]
      BY <1>1, <2>1, <2>3
    <3>11. WaitingClients'
      <4>1. SUFFICES ASSUME NEW c \in Clients, pc'[c] \in {"post", "wait", "timed_wait"}
                     PROVE  \/ cur'[c] \in Elements(pending')
                            \/ \E v \in Workers : Holds(v)' /\ cur'[v] = cur'[c]
                            \/ task'[cur'[c]].completed /\ sem'[cur'[c]] = 1
        BY <1>1, <2>1, <2>3
      <4>2. pc[c] = pc'[c] /\ cur'[c] = cur[c]
        BY <1>1, <2>1, <2>3, <4>1
      <4>3. cur[c] # t
        BY <2>5, <4>1, <4>2
      <4>4. \/ cur[c] \in Elements(pending)
            \/ \E v \in Workers : Holds(v) /\ cur[v] = cur[c]
            \/ task[cur[c]].completed /\ sem[cur[c]] = 1
        BY <4>1, <4>2
      <4>5. CASE \E v \in Workers : Holds(v) /\ cur[v] = cur[c]
        BY <3>10, <4>2, <4>3, <4>5 DEF t
      <4>6. QED
        BY <2>1, <3>1, <4>2, <4>4, <4>5
    <3>12. SignalledMeansCompleted'
      BY <3>1, <3>9
    <3>13. QED
      BY <3>5, <3>6, <3>7, <3>8, <3>11, <3>12
  <2>6. CASE ~task[t].timedout
    <3>1. /\ UNCHANGED pool
          /\ task' = [task EXCEPT ![t].completed = TRUE]
          /\ sem' = [sem EXCEPT ![t] = @ + 1]
      BY <1>w13, <2>6 DEF WorkerFinish
    <3>2. /\ task'[t].completed /\ task'[t].job = task[t].job
          /\ task'[t].timedout = task[t].timedout
          /\ \A u \in Tasks : u # t => task'[u] = task[u]
      BY <2>2, <3>1, CompleteFields DEF TypeInv, TypeOK
    <3>3. sem'[t] = 1 /\ \A u \in Tasks : u # t => sem'[u] = sem[u]
      BY <2>2, <3>1 DEF TypeInv, TypeOK
    <3>4. Elements(pending) \subseteq Tasks /\ Elements(pool) \subseteq Tasks
      BY ElementsType DEF TypeInv, TypeOK
    <3>5. /\ \A v \in Workers : Holds(v) => cur[v] \in Tasks
          /\ \A c \in Clients : Waits(c) => cur[c] \in Tasks
      BY DEF TypeInv, HoldTyped, CallTyped
    <3> HIDE DEF t
    <3>6. CallsWhileUp' /\ PointersValid'
      BY <1>1, <2>1, <2>3, <2>4, <3>1
    <3>7. TaskInOnePlace'
      BY <2>1, <2>2, <2>4, <3>1
    <3>8. WaitedTaskIsOwn'
      BY <1>1, <2>1, <2>3, <3>1, <3>2, <3>5
    <3>9. PooledTasksAreClean' /\ UnfinishedTasks'
      BY <2>1, <2>2, <2>4, <3>1, <3>2, <3>3, <3>4, <3>5
    <3>10. WaitingClients'
      <4>1. SUFFICES ASSUME NEW c \in Clients, pc'[c] \in {"post", "wait", "timed_wait"}
                     PROVE  \/ cur'[c] \in Elements(pending')
                            \/ \E v \in Workers : Holds(v)' /\ cur'[v] = cur'[c]
                            \/ task'[cur'[c]].completed /\ sem'[cur'[c]] = 1
        BY <1>1, <2>1, <2>3
      <4>2. pc[c] = pc'[c] /\ cur'[c] = cur[c] /\ cur[c] \in Tasks /\ call'[c] = call[c]
        BY <1>1, <2>1, <2>3, <3>5, <4>1
      <4>3. CASE cur[c] = t
        BY <3>2, <3>3, <4>1, <4>2, <4>3
      <4>4. CASE cur[c] # t
        <5>1. \/ cur[c] \in Elements(pending)
              \/ \E v \in Workers : Holds(v) /\ cur[v] = cur[c]
              \/ task[cur[c]].completed /\ sem[cur[c]] = 1
          BY <4>1, <4>2
        <5>2. \A v \in Workers : Holds(v) /\ cur[v] = cur[c] => Holds(v)' /\ cur'[v] = cur[v]
          BY <1>1, <2>1, <2>3, <4>4 DEF t
        <5>3. QED
          BY <2>1, <3>2, <3>3, <4>1, <4>2, <4>4, <5>1, <5>2
      <4>5. QED
        BY <4>3, <4>4
    <3>11. SignalledMeansCompleted'
      BY <1>1, <2>1, <2>3, <3>2, <3>5
    <3>12. QED
      BY <3>6, <3>7, <3>8, <3>9, <3>10, <3>11
  <2>7. QED
    BY <2>5, <2>6
<1>c0. ASSUME NEW c \in Clients, NEW timeout \in Timeouts, NEW result \in ResultPointers,
               Enqueue(c, timeout, result)
        PROVE  OwnInv'
  <2>1. /\ pc[c] = "idle" /\ pc' = [pc EXCEPT ![c] = "lock_add"] /\ phase = "up"
        /\ call' = [call EXCEPT ![c] = [timeout |-> timeout, result |-> result,
                                       n |-> call[c].n + 1, wait_error |-> "0"]]
        /\ UNCHANGED <<pending, pool, heap, task, sem, cur, phase>>
    BY <1>c0 DEF Enqueue
  <2>2. /\ pc'[c] = "lock_add" /\ call'[c].wait_error = "0"
        /\ \A d \in Clients : d # c => pc'[d] = pc[d] /\ call'[d] = call[d]
        /\ \A w \in Workers : pc'[w] = pc[w]
    BY <1>1, <2>1 DEF TypeInv, TypeOK
  <2>3. CallsWhileUp' /\ PointersValid'
    BY <1>1, <2>1, <2>2
  <2>4. TaskInOnePlace'
    BY <1>1, <2>1, <2>2
  <2>5. WaitedTaskIsOwn'
    <3> HIDE DEF CallsWhileUp, PointersValid, TaskInOnePlace, PooledTasksAreClean,
                 UnfinishedTasks, WaitingClients, SignalledMeansCompleted
    <3>1. \A d \in Clients : Waits(d)' => Waits(d) /\ call'[d] = call[d]
      BY <1>1, <2>1, <2>2
    <3>2. QED
      BY <2>1, <3>1
  <2>6. PooledTasksAreClean' /\ UnfinishedTasks'
    BY <1>1, <2>1, <2>2
  <2>7. WaitingClients'
    BY <1>1, <2>1, <2>2
  <2>8. SignalledMeansCompleted'
    BY <1>1, <2>1, <2>2
  <2>9. QED
    BY <2>3, <2>4, <2>5, <2>6, <2>7, <2>8
<1>c1. ASSUME NEW c \in Clients, EnqueueLockAdd(c) PROVE OwnInv'
  BY <1>c1, <1>1 DEF EnqueueLockAdd, Lock
<1>c2. ASSUME NEW c \in Clients, EnqueueFull(c) PROVE OwnInv'
  BY <1>c2, <1>1 DEF EnqueueFull
<1>c3. ASSUME NEW c \in Clients, EnqueueSemInitFails(c) PROVE OwnInv'
  BY <1>c3, <1>1 DEF EnqueueSemInitFails
<1>c4. ASSUME NEW c \in Clients, EnqueueMalloc(c) PROVE OwnInv'
  <2>1. PICK t \in Tasks \ heap : /\ heap' = heap \union {t}
                                  /\ UNCHANGED pool
                                  /\ sem' = [sem EXCEPT ![t] = 0]
                                  /\ AppendTask(c, t)
    BY <1>c4 DEF EnqueueMalloc
  <2>2. sem'[t] = 0 /\ \A u \in Tasks : u # t => sem'[u] = sem[u]
    BY <2>1 DEF TypeInv, TypeOK
  <2>3. NobodysTask(t)
    BY <2>1 DEF NobodysTask
  <2>4. QED
    BY <2>1, <2>2, <2>3, OwnAppendTask
<1>c5. ASSUME NEW c \in Clients, EnqueueReuse(c) PROVE OwnInv'
  <2> DEFINE t == Head(pool)
  <2>1. /\ pool \in Seq(Tasks) /\ pool # <<>> /\ pool' = Tail(pool)
        /\ UNCHANGED <<heap, sem>> /\ AppendTask(c, t)
    BY <1>c5 DEF EnqueueReuse, TypeInv, TypeOK
  <2>2. /\ t \in Tasks /\ Elements(pool) = Elements(pool') \union {t}
        /\ Distinct(pool') /\ t \notin Elements(pool')
    BY <2>1, TailElements, DistinctTail
  <2> HIDE DEF t
  <2>3. NobodysTask(t) /\ sem'[t] = 0 /\ t \in heap'
    BY <2>1, <2>2 DEF NobodysTask
  <2>4. QED
    BY <2>1, <2>2, <2>3, OwnAppendTask
<1>c6. ASSUME NEW c \in Clients, EnqueuePost(c) PROVE OwnInv'
  <2>1. PICK to \in {"idle", "wait", "timed_wait"} : pc' = [pc EXCEPT ![c] = to]
    BY <1>c6 DEF EnqueuePost
  <2>2. \/ cur' = cur
        \/ cur' = [cur EXCEPT ![c] = NoOne] /\ pc'[c] = "idle"
    BY <1>c6, <1>1, <2>1 DEF EnqueuePost, Forget
  <2>3. UNCHANGED <<pending, pool, heap, task, sem, call, phase>> /\ pc[c] = "post"
    BY <1>c6 DEF EnqueuePost
  <2>4. /\ pc'[c] \in {"idle", "wait", "timed_wait"}
        /\ \A u \in Threads : u # c => cur'[u] = cur[u] /\ pc'[u] = pc[u]
        /\ Waits(c)' => cur'[c] = cur[c]
        /\ \A w \in Workers : pc'[w] = pc[w] /\ cur'[w] = cur[w]
    BY <1>1, <2>1, <2>2 DEF TypeInv, TypeOK
  <2>5. CallsWhileUp'
    BY <1>1, <2>3, <2>4
  <2>6. PointersValid'
    BY <1>1, <2>3, <2>4
  <2>7. TaskInOnePlace'
    BY <1>1, <2>3, <2>4
  <2>8. WaitedTaskIsOwn'
    BY <1>1, <2>3, <2>4
  <2>9. PooledTasksAreClean'
    BY <1>1, <2>3, <2>4
  <2>10. UnfinishedTasks'
    BY <1>1, <2>3, <2>4
  <2>11. WaitingClients'
    BY <1>1, <2>3, <2>4
  <2>12. SignalledMeansCompleted'
    BY <1>1, <2>3, <2>4
  <2>13. QED
    BY <2>5, <2>6, <2>7, <2>8, <2>9, <2>10, <2>11, <2>12
<1>c7. ASSUME NEW c \in Clients, EnqueueWaited(c) PROVE OwnInv'
  <2>1. /\ pc[c] = "wait" /\ pc' = [pc EXCEPT ![c] = "idle"] /\ TaskSignalled(c)
        /\ UNCHANGED <<pending, pool, heap, call, phase>>
    BY <1>c7 DEF EnqueueWaited
  <2>2. cur' = [cur EXCEPT ![c] = NoOne]
    BY <1>c7 DEF EnqueueWaited, Forget
  <2>3. /\ pc'[c] = "idle"
        /\ \A u \in Threads : u # c => cur'[u] = cur[u] /\ pc'[u] = pc[u]
        /\ \A w \in Workers : pc'[w] = pc[w] /\ cur'[w] = cur[w]
    BY <1>1, <2>1, <2>2 DEF TypeInv, TypeOK
  <2>4. /\ task' = task /\ cur[c] \in Tasks /\ sem[cur[c]] > 0
        /\ \A u \in Tasks : u # cur[c] => sem'[u] = sem[u]
    BY <2>1 DEF TaskSignalled, TypeInv, TypeOK, CallTyped
  <2>5. /\ cur[c] \notin Elements(pending) \union Elements(pool)
        /\ \A w \in Workers : Holds(w) => cur[w] # cur[c]
        /\ task[cur[c]].completed
    BY <2>1, <2>4
  <2>6. \A d \in Clients : d # c /\ Waits(d) => cur[d] # cur[c] /\ cur[d] \in Tasks
    BY <2>1 DEF TypeInv, CallTyped
  <2>7. Elements(pending) \subseteq Tasks /\ Elements(pool) \subseteq Tasks
    BY ElementsType DEF TypeInv, TypeOK
  <2>8. \A w \in Workers : Holds(w) => cur[w] \in Tasks
    BY DEF TypeInv, HoldTyped
  <2>9. CallsWhileUp'
    BY <1>1, <2>1, <2>2, <2>3, <2>4, <2>5, <2>6, <2>7, <2>8
  <2>10. PointersValid'
    BY <1>1, <2>1, <2>2, <2>3, <2>4, <2>5, <2>6, <2>7, <2>8
  <2>11. TaskInOnePlace'
    BY <1>1, <2>1, <2>2, <2>3, <2>4, <2>5, <2>6, <2>7, <2>8
  <2>12. WaitedTaskIsOwn'
    BY <1>1, <2>1, <2>2, <2>3, <2>4, <2>5, <2>6, <2>7, <2>8
  <2>13. PooledTasksAreClean'
    BY <1>1, <2>1, <2>2, <2>3, <2>4, <2>5, <2>6, <2>7, <2>8
  <2>14. UnfinishedTasks'
    BY <1>1, <2>1, <2>2, <2>3, <2>4, <2>5, <2>6, <2>7, <2>8
  <2>15. WaitingClients'
    BY <1>1, <2>1, <2>2, <2>3, <2>4, <2>5, <2>6, <2>7, <2>8
  <2>16. SignalledMeansCompleted'
    BY <1>1, <2>1, <2>2, <2>3, <2>4, <2>5, <2>6, <2>7, <2>8
  <2>17. QED
    BY <2>9, <2>10, <2>11, <2>12, <2>13, <2>14, <2>15, <2>16
<1>c8. ASSUME NEW c \in Clients, EnqueueSignalled(c) PROVE OwnInv'
  <2>1. /\ pc[c] = "timed_wait" /\ pc' = [pc EXCEPT ![c] = "lock_decide"] /\ TaskSignalled(c)
        /\ UNCHANGED <<pending, pool, heap, call, phase>>
    BY <1>c8 DEF EnqueueSignalled
  <2>2. cur' = cur
    BY <1>c8 DEF EnqueueSignalled
  <2>3. /\ pc'[c] = "lock_decide"
        /\ \A u \in Threads : u # c => cur'[u] = cur[u] /\ pc'[u] = pc[u]
        /\ \A w \in Workers : pc'[w] = pc[w] /\ cur'[w] = cur[w]
    BY <1>1, <2>1, <2>2 DEF TypeInv, TypeOK
  <2>4. /\ task' = task /\ cur[c] \in Tasks /\ sem[cur[c]] > 0
        /\ \A u \in Tasks : u # cur[c] => sem'[u] = sem[u]
    BY <2>1 DEF TaskSignalled, TypeInv, TypeOK, CallTyped
  <2>5. /\ cur[c] \notin Elements(pending) \union Elements(pool)
        /\ \A w \in Workers : Holds(w) => cur[w] # cur[c]
        /\ task[cur[c]].completed
    BY <2>1, <2>4
  <2>6. \A d \in Clients : d # c /\ Waits(d) => cur[d] # cur[c] /\ cur[d] \in Tasks
    BY <2>1 DEF TypeInv, CallTyped
  <2>7. Elements(pending) \subseteq Tasks /\ Elements(pool) \subseteq Tasks
    BY ElementsType DEF TypeInv, TypeOK
  <2>8. \A w \in Workers : Holds(w) => cur[w] \in Tasks
    BY DEF TypeInv, HoldTyped
  <2>9. CallsWhileUp'
    BY <1>1, <2>1, <2>2, <2>3, <2>4, <2>5, <2>6, <2>7, <2>8
  <2>10. PointersValid'
    BY <1>1, <2>1, <2>2, <2>3, <2>4, <2>5, <2>6, <2>7, <2>8
  <2>11. TaskInOnePlace'
    BY <1>1, <2>1, <2>2, <2>3, <2>4, <2>5, <2>6, <2>7, <2>8
  <2>12. WaitedTaskIsOwn'
    <3> HIDE DEF CallsWhileUp, PointersValid, TaskInOnePlace, PooledTasksAreClean,
                 UnfinishedTasks, WaitingClients, SignalledMeansCompleted
    <3>1. \A d \in Clients : Waits(d)' => Waits(d) /\ cur'[d] = cur[d]
      BY <1>1, <2>1, <2>2, <2>3
    <3>2. QED
      BY <2>1, <2>4, <3>1
  <2>13. PooledTasksAreClean'
    BY <1>1, <2>1, <2>2, <2>3, <2>4, <2>5, <2>6, <2>7, <2>8
  <2>14. UnfinishedTasks'
    BY <1>1, <2>1, <2>2, <2>3, <2>4, <2>5, <2>6, <2>7, <2>8
  <2>15. WaitingClients'
    BY <1>1, <2>1, <2>2, <2>3, <2>4, <2>5, <2>6, <2>7, <2>8
  <2>16. SignalledMeansCompleted'
    BY <1>1, <2>1, <2>2, <2>3, <2>4, <2>5, <2>6, <2>7, <2>8
  <2>17. QED
    BY <2>9, <2>10, <2>11, <2>12, <2>13, <2>14, <2>15, <2>16
<1>c9. ASSUME NEW c \in Clients, EnqueueTimedOut(c) PROVE OwnInv'
  <2>1. /\ pc[c] = "timed_wait" /\ pc' = [pc EXCEPT ![c] = "lock_decide"]
        /\ call' = [call EXCEPT ![c].wait_error = "ETIMEDOUT"]
        /\ UNCHANGED <<pending, pool, heap, task, sem, cur, phase>>
    BY <1>c9 DEF EnqueueTimedOut
  <2>2. /\ pc'[c] = "lock_decide"
        /\ \A u \in Threads : u # c => pc'[u] = pc[u]
        /\ \A w \in Workers : pc'[w] = pc[w]
    BY <1>1, <2>1
  <2>3. /\ call'[c].wait_error = "ETIMEDOUT"
        /\ \A d \in Clients : call'[d].n = call[d].n /\ (d # c => call'[d] = call[d])
    BY <2>1, WaitErrorFields DEF TypeInv, TypeOK
  <2>4. CallsWhileUp'
    BY <1>1, <2>1, <2>2, <2>3
  <2>5. PointersValid'
    BY <1>1, <2>1, <2>2, <2>3
  <2>6. TaskInOnePlace'
    BY <1>1, <2>1, <2>2, <2>3
  <2>7. WaitedTaskIsOwn'
    BY <1>1, <2>1, <2>2, <2>3
  <2>8. PooledTasksAreClean'
    BY <1>1, <2>1, <2>2, <2>3
  <2>9. UnfinishedTasks'
    BY <1>1, <2>1, <2>2, <2>3
  <2>10. WaitingClients'
    BY <1>1, <2>1, <2>2, <2>3
  <2>11. SignalledMeansCompleted'
    BY <1>1, <2>1, <2>2, <2>3
  <2>12. QED
    BY <2>4, <2>5, <2>6, <2>7, <2>8, <2>9, <2>10, <2>11
<1>c10. ASSUME NEW c \in Clients, EnqueueLockDecide(c) PROVE OwnInv'
  <2>1. /\ pc[c] = "lock_decide" /\ pc' = [pc EXCEPT ![c] = "decide"]
        /\ UNCHANGED <<pending, pool, heap, task, sem, cur, call, phase>>
    BY <1>c10 DEF EnqueueLockDecide, Lock
  <2>2. /\ pc'[c] = "decide"
        /\ \A u \in Threads : u # c => pc'[u] = pc[u]
        /\ \A w \in Workers : pc'[w] = pc[w]
    BY <1>1, <2>1
  <2>3. CallsWhileUp'
    BY <1>1, <2>1, <2>2
  <2>4. PointersValid'
    BY <1>1, <2>1, <2>2
  <2>5. TaskInOnePlace'
    BY <1>1, <2>1, <2>2
  <2>6. WaitedTaskIsOwn'
    BY <1>1, <2>1, <2>2
  <2>7. PooledTasksAreClean'
    BY <1>1, <2>1, <2>2
  <2>8. UnfinishedTasks'
    BY <1>1, <2>1, <2>2
  <2>9. WaitingClients'
    BY <1>1, <2>1, <2>2
  <2>10. SignalledMeansCompleted'
    BY <1>1, <2>1, <2>2
  <2>11. QED
    BY <2>3, <2>4, <2>5, <2>6, <2>7, <2>8, <2>9, <2>10
<1>c11. ASSUME NEW c \in Clients, EnqueueDecide(c) PROVE OwnInv'
  <2>1. /\ pc[c] = "decide" /\ pc' = [pc EXCEPT ![c] = "idle"]
        /\ cur' = [cur EXCEPT ![c] = NoOne]
        /\ UNCHANGED <<pending, heap, sem, call, phase>>
    BY <1>c11 DEF EnqueueDecide, Forget
  <2>2. /\ pc'[c] = "idle"
        /\ \A u \in Threads : u # c => cur'[u] = cur[u] /\ pc'[u] = pc[u]
        /\ \A w \in Workers : pc'[w] = pc[w] /\ cur'[w] = cur[w]
    BY <1>1, <2>1 DEF TypeInv, TypeOK
  <2>3. pool' = pool
    BY <1>c11, <2>1 DEF EnqueueDecide
  <2>4. cur[c] \in Tasks /\ \A d \in Clients : d # c /\ Waits(d) => cur[d] # cur[c] /\ cur[d] \in Tasks
    BY <2>1 DEF TypeInv, CallTyped
  <2>5. /\ \A u \in Tasks : u # cur[c] => task'[u] = task[u]
        /\ \A u \in Tasks : task'[u].completed = task[u].completed
    <3>1. \/ task' = task
          \/ task' = [task EXCEPT ![cur[c]].result = FALSE, ![cur[c]].timedout = TRUE]
      BY <1>c11 DEF EnqueueDecide
    <3>2. CASE task' = task
      BY <3>2
    <3>3. CASE task' = [task EXCEPT ![cur[c]].result = FALSE, ![cur[c]].timedout = TRUE]
      BY <3>3, <2>4, TimeOutFields DEF TypeInv, TypeOK
    <3>4. QED
      BY <3>1, <3>2, <3>3
  <2>6. Elements(pending) \subseteq Tasks
    BY ElementsType DEF TypeInv, TypeOK
  <2>7. \A w \in Workers : Holds(w) => cur[w] \in Tasks
    BY DEF TypeInv, HoldTyped
  <2>8. CallsWhileUp'
    BY <1>1, <2>1, <2>2, <2>3, <2>4, <2>5, <2>6, <2>7
  <2>9. PointersValid'
    BY <1>1, <2>1, <2>2, <2>3, <2>4, <2>5, <2>6, <2>7
  <2>10. TaskInOnePlace'
    BY <1>1, <2>1, <2>2, <2>3, <2>4, <2>5, <2>6, <2>7
  <2>11. WaitedTaskIsOwn'
    <3> HIDE DEF CallsWhileUp, PointersValid, TaskInOnePlace, PooledTasksAreClean,
                 UnfinishedTasks, WaitingClients, SignalledMeansCompleted
    <3>1. \A d \in Clients : Waits(d)' =>
              /\ d # c /\ Waits(d) /\ cur'[d] = cur[d]
              /\ task'[cur[d]] = task[cur[d]]
      BY <1>1, <2>2, <2>4, <2>5
    <3>2. UNCHANGED <<pool, call>>
      BY <2>1, <2>3
    <3>3. QED
      BY <3>1, <3>2
  <2>12. PooledTasksAreClean'
    BY <1>1, <2>1, <2>2, <2>3, <2>4, <2>5, <2>6, <2>7
  <2>13. UnfinishedTasks'
    BY <1>1, <2>1, <2>2, <2>3, <2>4, <2>5, <2>6, <2>7
  <2>14. WaitingClients'
    BY <1>1, <2>1, <2>2, <2>3, <2>4, <2>5, <2>6, <2>7
  <2>15. SignalledMeansCompleted'
    BY <1>1, <2>1, <2>2, <2>3, <2>4, <2>5, <2>6, <2>7
  <2>16. QED
    BY <2>8, <2>9, <2>10, <2>11, <2>12, <2>13, <2>14, <2>15
<1>o1. ASSUME NEW w \in Workers, CreateThread(w) PROVE OwnInv'
  BY <1>o1, <1>1 DEF CreateThread
<1>o2. CASE InitDone
  BY <1>o2, <1>1 DEF InitDone
<1>o3. CASE InitFails
  BY <1>o3, <1>1 DEF InitFails
<1>o4. CASE Dealloc
  BY <1>o4, <1>1 DEF Dealloc
<1>o5. CASE DeallocWake
  BY <1>o5, <1>1 DEF DeallocWake
<1>o6. CASE DeallocFree
  <2>1. /\ phase = "joining" /\ phase' = "down" /\ pending' = <<>> /\ pool' = <<>>
        /\ \A w \in Workers : ~Holds(w)
        /\ UNCHANGED <<pc, task, sem, cur, call>>
    BY <1>o6 DEF DeallocFree
  <2>2. Elements(pending') = {} /\ Elements(pool') = {} /\ Distinct(pending') /\ Distinct(pool')
    BY <2>1 DEF Elements, Distinct
  <2>3. \A c \in Clients : pc[c] = "idle"
    BY <2>1
  <2>4. CallsWhileUp'
    BY <2>1, <2>2, <2>3
  <2>5. PointersValid'
    BY <2>1, <2>2, <2>3
  <2>6. TaskInOnePlace'
    BY <2>1, <2>2, <2>3
  <2>7. WaitedTaskIsOwn'
    BY <2>1, <2>2, <2>3
  <2>8. PooledTasksAreClean'
    BY <2>1, <2>2, <2>3
  <2>9. UnfinishedTasks'
    BY <2>1, <2>2, <2>3
  <2>10. WaitingClients'
    BY <2>1, <2>2, <2>3
  <2>11. SignalledMeansCompleted'
    BY <2>1, <2>2, <2>3
  <2>12. QED
    BY <2>4, <2>5, <2>6, <2>7, <2>8, <2>9, <2>10, <2>11
<1>u. CASE UNCHANGED vars
  BY <1>u, <1>1 DEF vars
<1>q. QED
  BY <1>w1, <1>w2, <1>w3, <1>w4, <1>w5, <1>w6, <1>w7, <1>w8, <1>w9, <1>w10, <1>w11, <1>w12, <1>w13,
     <1>c0, <1>c1, <1>c2, <1>c3, <1>c4, <1>c5, <1>c6, <1>c7, <1>c8, <1>c9, <1>c10, <1>c11, <1>o1, <1>o2, <1>o3, <1>o4, <1>o5, <1>o6, <1>u
  DEF Next, Worker, Client, Returning, Owner

LEMMA OwnAlways == Spec => [](TypeInv /\ OwnInv)
<1>1. Init => TypeInv /\ OwnInv
  BY TypeInit, OwnInit
<1>2. TypeInv /\ OwnInv /\ [Next]_vars => TypeInv' /\ OwnInv'
  BY TypeStep, OwnStep
<1>3. QED
  BY <1>1, <1>2, PTL DEF Spec

\* No task structure is ever in two places: the two lists and the workers of
\* worker_thread_pool.c share none, whatever the calls and their timeouts.
THEOREM OwnershipCorrect == Spec => []TaskInOnePlace
<1>1. OwnInv => TaskInOnePlace
  BY DEF OwnInv
<1>2. QED
  BY <1>1, OwnAlways, PTL

\* The task a call of worker_thread_pool_enqueue waits on stays the call's own.
THEOREM WaitingCorrect == Spec => []WaitedTaskIsOwn
<1>1. OwnInv => WaitedTaskIsOwn
  BY DEF OwnInv
<1>2. QED
  BY <1>1, OwnAlways, PTL

\* The reuse of a pooled task without sem_init starts with a semaphore of 0.
THEOREM ReuseCorrect == Spec => []PooledTasksAreClean
<1>1. OwnInv => PooledTasksAreClean
  BY DEF OwnInv
<1>2. QED
  BY <1>1, OwnAlways, PTL

\* A timed wait that ends by the semaphore finds its task completed.
THEOREM SignalCorrect == Spec => []SignalledMeansCompleted
<1>1. OwnInv => SignalledMeansCompleted
  BY DEF OwnInv
<1>2. QED
  BY <1>1, OwnAlways, PTL

\* The task of a waiting call is pending, held by a worker, or signalled.
THEOREM CompletionCorrect == Spec => []NoLostCompletion
<1>1. OwnInv => NoLostCompletion
  BY DEF OwnInv, WaitingClients, NoLostCompletion, Holds
<1>2. QED
  BY <1>1, OwnAlways, PTL

-----------------------------------------------------------------------------
(* Wakeups.                                                                *)

Posting == {c \in Clients : pc[c] = "post"}
Woken == {w \in Workers : pc[w] \in {"woken", "lock_take", "take"}}

\* NoLostWakeup is not inductive: a worker that wakes and sees running = 0 leaves, and
\* the queue has to be empty when the pool opens.
WakeInv == /\ phase = "creating" => pending = <<>>
           /\ phase \in {"creating", "up"} =>
                 \A w \in Workers : pc[w] = "unborn" \/ running[w]
           /\ phase = "up" => \A w \in Workers : pc[w] # "unborn"
           /\ phase = "up" => Len(pending) <= tokens + Cardinality(Posting) + Cardinality(Woken)

LEMMA CountsFinite ==
    /\ IsFiniteSet(Posting) /\ Cardinality(Posting) \in Nat
    /\ IsFiniteSet(Woken) /\ Cardinality(Woken) \in Nat
<1>1. Posting \in SUBSET Clients /\ Woken \in SUBSET Workers
  BY DEF Posting, Woken
<1>2. IsFiniteSet(Posting) /\ IsFiniteSet(Woken)
  BY <1>1, ThreadAssumption, FS_Subset
<1>3. QED
  BY <1>2, FS_CardinalityType

LEMMA WakeInit == Init => WakeInv
BY ThreadAssumption DEF Init, WakeInv, Threads

\* A step that takes no wakeup away and adds no task.
LEMMA WakeMore ==
    ASSUME WakeInv, TypeInv, TypeInv', UNCHANGED <<phase, running>>,
           phase = "creating" => pending' = pending,
           Len(pending') <= Len(pending), tokens <= tokens',
           Posting \subseteq Posting', phase = "up" => Woken \subseteq Woken',
           \A w \in Workers : pc'[w] = "unborn" <=> pc[w] = "unborn"
    PROVE  WakeInv'
<1>1. CASE phase # "up"
  BY <1>1 DEF WakeInv
<1>2. CASE phase = "up"
  <2>1. IsFiniteSet(Posting') /\ Cardinality(Posting') \in Nat
        /\ IsFiniteSet(Woken') /\ Cardinality(Woken') \in Nat
    <3>1. Posting' \in SUBSET Clients /\ Woken' \in SUBSET Workers
      BY DEF Posting, Woken
    <3>2. IsFiniteSet(Posting') /\ IsFiniteSet(Woken')
      BY <3>1, ThreadAssumption, FS_Subset
    <3>3. QED
      BY <3>2, FS_CardinalityType
  <2>2. Cardinality(Posting) <= Cardinality(Posting') /\ Cardinality(Woken) <= Cardinality(Woken')
    BY <1>2, <2>1, FS_Subset
  <2>3. tokens \in Nat /\ tokens' \in Nat /\ Len(pending) \in Nat /\ Len(pending') \in Nat
    BY DEF TypeInv, TypeOK
  <2>4. Len(pending) <= tokens + Cardinality(Posting) + Cardinality(Woken)
    BY <1>2 DEF WakeInv
  <2>5. Len(pending') <= tokens' + Cardinality(Posting') + Cardinality(Woken')
    BY <2>1, <2>2, <2>3, <2>4, CountsFinite
  <2>6. QED
    BY <1>2, <2>5 DEF WakeInv
<1>3. QED
  BY <1>1, <1>2

LEMMA WakeWorker ==
    ASSUME WakeInv, TypeInv, TypeInv', NEW w \in Workers, NEW to \in WorkerPCs \ {"unborn"},
           pc' = [pc EXCEPT ![w] = to], pc[w] # "unborn",
           phase = "up" /\ pc[w] \in {"woken", "lock_take", "take"}
               => to \in {"woken", "lock_take", "take"},
           UNCHANGED <<phase, running, tokens>>,
           phase = "creating" => pending' = pending, Len(pending') <= Len(pending)
    PROVE  WakeInv'
<1>1. /\ \A v \in Workers : pc'[v] = IF v = w THEN to ELSE pc[v]
      /\ \A c \in Clients : pc'[c] = pc[c]
  BY ThreadAssumption DEF TypeInv, TypeOK, Threads
<1>2. Posting' = Posting
  BY <1>1 DEF Posting
<1>3. phase = "up" => Woken \subseteq Woken'
  BY <1>1 DEF Woken
<1>4. tokens <= tokens'
  BY DEF TypeInv, TypeOK
<1>5. QED
  BY <1>1, <1>2, <1>3, <1>4, WakeMore

LEMMA WakeClient ==
    ASSUME WakeInv, TypeInv, TypeInv', NEW c \in Clients, NEW to,
           pc' = [pc EXCEPT ![c] = to], pc[c] # "post",
           UNCHANGED <<phase, running, tokens, pending>>
    PROVE  WakeInv'
<1>1. /\ \A d \in Clients : d # c => pc'[d] = pc[d]
      /\ \A w \in Workers : pc'[w] = pc[w]
  BY ThreadAssumption DEF TypeInv, TypeOK, Threads
<1>2. Posting \subseteq Posting' /\ Woken' = Woken
  BY <1>1 DEF Posting, Woken
<1>3. tokens <= tokens' /\ Len(pending') <= Len(pending)
  BY DEF TypeInv, TypeOK
<1>4. QED
  BY <1>1, <1>2, <1>3, WakeMore

\* The wakeup for a task that is appended is the post its client is about to make.
LEMMA WakeAppend ==
    ASSUME WakeInv, TypeInv, TypeInv', OwnInv, NEW c \in Clients, NEW t \in Tasks,
           AppendTask(c, t)
    PROVE  WakeInv'
<1>1. /\ pc[c] = "add" /\ pc' = [pc EXCEPT ![c] = "post"] /\ pending' = Append(pending, t)
      /\ UNCHANGED <<phase, running, tokens>>
  BY DEF AppendTask, Goto, ownerVars
<1>2. phase = "up"
  BY <1>1 DEF OwnInv, CallsWhileUp
<1>3. /\ pc'[c] = "post"
      /\ \A d \in Clients : d # c => pc'[d] = pc[d]
      /\ \A w \in Workers : pc'[w] = pc[w]
  BY <1>1, ThreadAssumption DEF TypeInv, TypeOK, Threads
<1>4. Posting' = Posting \union {c} /\ c \notin Posting /\ Woken' = Woken
  BY <1>1, <1>3 DEF Posting, Woken
<1>5. Cardinality(Posting') = Cardinality(Posting) + 1 /\ Cardinality(Woken') = Cardinality(Woken)
  BY <1>4, CountsFinite, FS_AddElement
<1>6. Len(pending') = Len(pending) + 1 /\ Len(pending) \in Nat /\ tokens \in Nat
  BY <1>1 DEF TypeInv, TypeOK
<1>7. Len(pending) <= tokens + Cardinality(Posting) + Cardinality(Woken)
  BY <1>2 DEF WakeInv
<1>8. Len(pending') <= tokens' + Cardinality(Posting') + Cardinality(Woken')
  BY <1>1, <1>5, <1>6, <1>7, CountsFinite
<1>9. QED
  BY <1>1, <1>2, <1>3, <1>8 DEF WakeInv

LEMMA WakeStep == TypeInv /\ TypeInv' /\ OwnInv /\ WakeInv /\ [Next]_vars => WakeInv'
<1> SUFFICES ASSUME TypeInv, TypeInv', OwnInv, WakeInv, [Next]_vars PROVE WakeInv'
  OBVIOUS
<1>1. /\ pc \in [Threads -> WorkerPCs \union ClientPCs]
      /\ Workers \subseteq Threads /\ Clients \subseteq Threads
      /\ Workers \intersect Clients = {}
      /\ tokens \in Nat /\ Len(pending) \in Nat /\ Len(pending) <= Len(pending)
  BY ThreadAssumption DEF TypeInv, TypeOK, Threads
<1> USE DEF Goto, WorkerPCs, syncVars, queueVars, ownerVars
<1>w1. ASSUME NEW w \in Workers, WorkerLoop(w) PROVE WakeInv'
  BY <1>w1, <1>1, WakeWorker DEF WorkerLoop
<1>w2. ASSUME NEW w \in Workers, WorkerLockLook(w) PROVE WakeInv'
  BY <1>w2, <1>1, WakeWorker DEF WorkerLockLook, Lock
<1>w3. ASSUME NEW w \in Workers, WorkerSignalled(w) PROVE WakeInv'
  <2>1. /\ pc[w] = "sem_wait" /\ pc' = [pc EXCEPT ![w] = "woken"]
        /\ tokens' = tokens - 1 /\ UNCHANGED <<phase, running, pending>>
    BY <1>w3 DEF WorkerSignalled
  <2>2. /\ pc'[w] = "woken" /\ \A v \in Workers : v # w => pc'[v] = pc[v]
        /\ \A c \in Clients : pc'[c] = pc[c]
    BY <1>1, <2>1
  <2>3. Woken' = Woken \union {w} /\ w \notin Woken /\ Posting' = Posting
    BY <2>1, <2>2 DEF Woken, Posting
  <2>4. Cardinality(Woken') = Cardinality(Woken) + 1 /\ Cardinality(Posting') = Cardinality(Posting)
    BY <2>3, CountsFinite, FS_AddElement
  <2>5. tokens + Cardinality(Posting) + Cardinality(Woken)
            = tokens' + Cardinality(Posting') + Cardinality(Woken')
    BY <1>1, <2>1, <2>4, CountsFinite
  <2>6. QED
    BY <2>1, <2>2, <2>5 DEF WakeInv
<1>w4. ASSUME NEW w \in Workers, WorkerTimedOut(w) PROVE WakeInv'
  BY <1>w4, <1>1, WakeWorker DEF WorkerTimedOut
<1>w5. ASSUME NEW w \in Workers, WorkerWoken(w) PROVE WakeInv'
  BY <1>w5, <1>1, WakeWorker DEF WorkerWoken, WakeInv
<1>w6. ASSUME NEW w \in Workers, WorkerLockTake(w) PROVE WakeInv'
  BY <1>w6, <1>1, WakeWorker DEF WorkerLockTake, Lock
<1>w7. ASSUME NEW w \in Workers, WorkerNoWork(w) PROVE WakeInv'
  <2>1. CASE pc[w] = "look"
    BY <1>w7, <2>1, <1>1, WakeWorker DEF WorkerNoWork
  <2>2. CASE pc[w] = "take"
    <3>1. /\ pc' = [pc EXCEPT ![w] = "while"] /\ pending = <<>>
          /\ UNCHANGED <<phase, running, tokens, pending>>
      BY <1>w7, <2>2 DEF WorkerNoWork
    <3>2. \A v \in Workers : pc'[v] = "unborn" <=> pc[v] = "unborn"
      BY <1>1, <2>2, <3>1
    <3>3. Posting' \in SUBSET Clients /\ Woken' \in SUBSET Workers
      BY DEF Posting, Woken
    <3>4. IsFiniteSet(Posting') /\ IsFiniteSet(Woken')
      BY <3>3, ThreadAssumption, FS_Subset
    <3>5. Cardinality(Posting') \in Nat /\ Cardinality(Woken') \in Nat
      BY <3>4, FS_CardinalityType
    <3>6. Len(pending') <= tokens' + Cardinality(Posting') + Cardinality(Woken')
      BY <1>1, <3>1, <3>5
    <3>7. QED
      BY <3>1, <3>2, <3>6 DEF WakeInv
  <2>3. QED
    BY <1>w7, <2>1, <2>2 DEF WorkerNoWork
<1>w8. ASSUME NEW w \in Workers, WorkerDequeue(w) PROVE WakeInv'
  <2>1. /\ pc[w] \in {"look", "take"} /\ pc' = [pc EXCEPT ![w] = "callback"]
        /\ pending # <<>> /\ pending' = Tail(pending)
        /\ UNCHANGED <<phase, running, tokens>>
    BY <1>w8 DEF WorkerDequeue
  <2>2. Len(pending') = Len(pending) - 1 /\ Len(pending') <= Len(pending)
    BY <2>1, TailElements DEF TypeInv, TypeOK
  <2>3. phase # "creating"
    BY <2>1 DEF WakeInv
  <2>4. CASE pc[w] = "look"
    BY <1>1, <2>1, <2>2, <2>3, <2>4, WakeWorker
  <2>5. CASE pc[w] = "take"
    <3>1. /\ pc'[w] = "callback" /\ \A v \in Workers : v # w => pc'[v] = pc[v]
          /\ \A c \in Clients : pc'[c] = pc[c]
      BY <1>1, <2>1
    <3>2. Woken' = Woken \ {w} /\ w \in Woken /\ Posting' = Posting
      BY <2>5, <3>1 DEF Woken, Posting
    <3>3. /\ Cardinality(Woken') = Cardinality(Woken) - 1
          /\ Cardinality(Posting') = Cardinality(Posting)
      BY <3>2, CountsFinite, FS_RemoveElement
    <3>4. phase = "up" => Len(pending) <= tokens + Cardinality(Posting) + Cardinality(Woken)
      BY DEF WakeInv
    <3>5. phase = "up" => Len(pending') <= tokens' + Cardinality(Posting') + Cardinality(Woken')
      BY <1>1, <2>1, <2>2, <3>3, <3>4, CountsFinite
    <3>6. \A v \in Workers : pc'[v] = "unborn" <=> pc[v] = "unborn"
      BY <2>5, <3>1
    <3>7. QED
      BY <2>1, <2>3, <3>5, <3>6 DEF WakeInv
  <2>6. QED
    BY <2>1, <2>4, <2>5
<1>w9. ASSUME NEW w \in Workers, WorkerCallback(w) PROVE WakeInv'
  BY <1>w9, <1>1, WakeWorker DEF WorkerCallback
<1>w10. ASSUME NEW w \in Workers, WorkerCheckResult(w) PROVE WakeInv'
  BY <1>w10, <1>1, WakeWorker DEF WorkerCheckResult
<1>w11. ASSUME NEW w \in Workers, WorkerStoreResult(w) PROVE WakeInv'
  BY <1>w11, <1>1, WakeWorker DEF WorkerStoreResult
<1>w12. ASSUME NEW w \in Workers, WorkerLockFinish(w) PROVE WakeInv'
  BY <1>w12, <1>1, WakeWorker DEF WorkerLockFinish, Lock
<1>w13. ASSUME NEW w \in Workers, WorkerFinish(w) PROVE WakeInv'
  BY <1>w13, <1>1, WakeWorker DEF WorkerFinish
<1>c0. ASSUME NEW c \in Clients, NEW timeout \in Timeouts, NEW result \in ResultPointers,
               Enqueue(c, timeout, result)
        PROVE  WakeInv'
  BY <1>c0, WakeClient DEF Enqueue
<1>c1. ASSUME NEW c \in Clients, EnqueueLockAdd(c) PROVE WakeInv'
  BY <1>c1, WakeClient DEF EnqueueLockAdd, Lock
<1>c2. ASSUME NEW c \in Clients, EnqueueFull(c) PROVE WakeInv'
  BY <1>c2, WakeClient DEF EnqueueFull
<1>c3. ASSUME NEW c \in Clients, EnqueueSemInitFails(c) PROVE WakeInv'
  BY <1>c3, WakeClient DEF EnqueueSemInitFails
<1>c4. ASSUME NEW c \in Clients, EnqueueMalloc(c) PROVE WakeInv'
  BY <1>c4, WakeAppend DEF EnqueueMalloc
<1>c5. ASSUME NEW c \in Clients, EnqueueReuse(c) PROVE WakeInv'
  BY <1>c5, TailElements, WakeAppend DEF EnqueueReuse, TypeInv, TypeOK
<1>c6. ASSUME NEW c \in Clients, EnqueuePost(c) PROVE WakeInv'
  <2>1. PICK to \in {"idle", "wait", "timed_wait"} : pc' = [pc EXCEPT ![c] = to]
    BY <1>c6 DEF EnqueuePost
  <2>2. pc[c] = "post" /\ tokens' = tokens + 1 /\ UNCHANGED <<phase, running, pending>>
    BY <1>c6 DEF EnqueuePost
  <2>3. /\ pc'[c] = to /\ \A d \in Clients : d # c => pc'[d] = pc[d]
        /\ \A w \in Workers : pc'[w] = pc[w]
    BY <1>1, <2>1
  <2>4. Posting' = Posting \ {c} /\ c \in Posting /\ Woken' = Woken
    BY <2>2, <2>3 DEF Posting, Woken
  <2>5. /\ Cardinality(Posting') = Cardinality(Posting) - 1
        /\ Cardinality(Woken') = Cardinality(Woken)
    BY <2>4, CountsFinite, FS_RemoveElement
  <2>6. tokens + Cardinality(Posting) + Cardinality(Woken)
            = tokens' + Cardinality(Posting') + Cardinality(Woken')
    BY <1>1, <2>2, <2>5, CountsFinite
  <2>7. QED
    BY <2>2, <2>3, <2>6 DEF WakeInv
<1>c7. ASSUME NEW c \in Clients, EnqueueWaited(c) PROVE WakeInv'
  BY <1>c7, WakeClient DEF EnqueueWaited
<1>c8. ASSUME NEW c \in Clients, EnqueueSignalled(c) PROVE WakeInv'
  BY <1>c8, WakeClient DEF EnqueueSignalled
<1>c9. ASSUME NEW c \in Clients, EnqueueTimedOut(c) PROVE WakeInv'
  BY <1>c9, WakeClient DEF EnqueueTimedOut
<1>c10. ASSUME NEW c \in Clients, EnqueueLockDecide(c) PROVE WakeInv'
  BY <1>c10, WakeClient DEF EnqueueLockDecide, Lock
<1>c11. ASSUME NEW c \in Clients, EnqueueDecide(c) PROVE WakeInv'
  BY <1>c11, WakeClient DEF EnqueueDecide
<1>o1. ASSUME NEW w \in Workers, CreateThread(w) PROVE WakeInv'
  <2>1. /\ phase = "creating" /\ pc' = [pc EXCEPT ![w] = "while"]
        /\ running' = [running EXCEPT ![w] = TRUE] /\ UNCHANGED <<phase, pending>>
    BY <1>o1 DEF CreateThread
  <2>2. \A v \in Workers : (v = w => running'[v]) /\ (v # w => pc'[v] = pc[v] /\ running'[v] = running[v])
    BY <1>1, <2>1 DEF TypeInv, TypeOK
  <2>3. QED
    BY <2>1, <2>2 DEF WakeInv
<1>o2. CASE InitDone
  <2>1. /\ phase = "creating" /\ \A w \in Workers : pc[w] # "unborn"
        /\ UNCHANGED <<pc, running, pending, tokens>>
    BY <1>o2 DEF InitDone
  <2>2. pending = <<>> /\ Len(pending) = 0 /\ Posting' = Posting /\ Woken' = Woken
    BY <2>1 DEF WakeInv, Posting, Woken
  <2>3. Len(pending') <= tokens' + Cardinality(Posting') + Cardinality(Woken')
    BY <1>1, <2>1, <2>2, CountsFinite
  <2>4. QED
    BY <1>o2, <2>1, <2>2, <2>3 DEF WakeInv, InitDone
<1>o3. CASE InitFails
  BY <1>o3 DEF InitFails, WakeInv
<1>o4. CASE Dealloc
  BY <1>o4 DEF Dealloc, WakeInv
<1>o5. CASE DeallocWake
  BY <1>o5 DEF DeallocWake, WakeInv
<1>o6. CASE DeallocFree
  BY <1>o6 DEF DeallocFree, WakeInv
<1>u. CASE UNCHANGED vars
  BY <1>u, <1>1, WakeMore DEF vars, Posting, Woken
<1>q. QED
  BY <1>w1, <1>w2, <1>w3, <1>w4, <1>w5, <1>w6, <1>w7, <1>w8, <1>w9, <1>w10, <1>w11, <1>w12, <1>w13,
     <1>c0, <1>c1, <1>c2, <1>c3, <1>c4, <1>c5, <1>c6, <1>c7, <1>c8, <1>c9, <1>c10, <1>c11, <1>o1, <1>o2, <1>o3, <1>o4, <1>o5, <1>o6, <1>u
  DEF Next, Worker, Client, Returning, Owner

\* While worker_thread_pool is up, every pending task has a token of tasks_semaphore, a
\* caller about to post one, or a worker that will look at the queue before it sleeps.
THEOREM WakeupCorrect == Spec => []NoLostWakeup
<1>1. Init => TypeInv /\ OwnInv /\ WakeInv
  BY TypeInit, OwnInit, WakeInit
<1>2. TypeInv /\ OwnInv /\ WakeInv /\ [Next]_vars => TypeInv' /\ OwnInv' /\ WakeInv'
  BY TypeStep, OwnStep, WakeStep
<1>3. WakeInv => NoLostWakeup
  BY DEF WakeInv, NoLostWakeup, Posting, Woken
<1>4. QED
  BY <1>1, <1>2, <1>3, PTL DEF Spec

-----------------------------------------------------------------------------
(* Jobs.                                                                   *)

\* The jobs of each client: those of calls that returned, of the call it is in and of
\* calls it has not made.
JobsOfCalls ==
    \A c \in Clients, n \in 1..MaxCalls :
        /\ answer[<<c, n>>] = "none" <=> n > call[c].n \/ (n = call[c].n /\ pc[c] # "idle")
        /\ <<c, n>> \in accepted =>
              n < call[c].n \/ (n = call[c].n /\ (pc[c] = "idle" \/ Waits(c)))
        /\ n = call[c].n /\ Waits(c) => <<c, n>> \in accepted

\* The queue opens with no job in it.
NoJobsYet == phase = "creating" => accepted = {}

\* The tasks that are still to be finished carry accepted jobs, each another one: a job
\* in two of them would be executed twice.
Active(t) == \/ t \in Elements(pending)
             \/ \E w \in Workers : Holds(w) /\ cur[w] = t
JobsOfTasks ==
    \A t \in Tasks : Active(t) =>
        /\ task[t].job \in accepted
        /\ \A u \in Tasks : Active(u) /\ task[u].job = task[t].job => u = t

\* A worker past the callback has executed its job; what a waiting call finds completed
\* has been executed, and its result, if there is to be one, stored.
AfterCallback == {"check_result", "store_result", "lock_finish", "finish", "segfault"}
JobsDone ==
    /\ \A w \in Workers :
          /\ pc[w] \in AfterCallback => task[cur[w]].job \in done
          /\ pc[w] \in {"lock_finish", "finish"} /\ task[cur[w]].result =>
                task[cur[w]].job \in written
    /\ \A c \in Clients : Waits(c) =>
          /\ task[cur[c]].result = call[c].result
          /\ task[cur[c]].completed => JobOf(c) \in done
          /\ task[cur[c]].completed /\ call[c].result => JobOf(c) \in written

JobInv == JobsOfCalls /\ NoJobsYet /\ JobsOfTasks /\ JobsDone /\ ResultIsDelivered

LEMMA JobInit == Init => JobInv
BY ThreadAssumption, SizeAssumption
DEF Init, JobInv, JobsOfCalls, NoJobsYet, JobsOfTasks, JobsDone, ResultIsDelivered, Active,
    Elements, Holds, Waits, HoldingPCs, WaitingPCs, AfterCallback, Threads, Jobs

\* A step of worker w that keeps the tasks and what w holds.
LEMMA JobQuiet ==
    ASSUME TypeInv, OwnInv, JobInv, NEW w \in Workers, NEW to, pc' = [pc EXCEPT ![w] = to],
           Holds(w) <=> to \in HoldingPCs,
           UNCHANGED <<pending, task, cur, call, answer, accepted, phase>>,
           done \subseteq done', written \subseteq written',
           to \in AfterCallback => task[cur[w]].job \in done',
           to \in {"lock_finish", "finish"} /\ task[cur[w]].result => task[cur[w]].job \in written'
    PROVE  JobInv'
<1>1. /\ pc'[w] = to /\ \A v \in Workers : v # w => pc'[v] = pc[v]
      /\ \A c \in Clients : pc'[c] = pc[c]
  BY ThreadAssumption DEF TypeInv, TypeOK, Threads
<1>2. \A v \in Workers : Holds(v)' <=> Holds(v)
  BY <1>1 DEF Holds
<1>3. \A c \in Clients : Waits(c)' <=> Waits(c)
  BY <1>1 DEF Waits
<1>4. JobsOfCalls' /\ NoJobsYet'
  BY <1>1, <1>3 DEF JobInv, JobsOfCalls, NoJobsYet
<1>5. \A t : Active(t)' <=> Active(t)
  BY <1>2 DEF Active
<1>6. JobsOfTasks'
  BY <1>5 DEF JobInv, JobsOfTasks
<1>7. JobsDone'
  BY <1>1, <1>3 DEF JobInv, JobsDone, JobOf
<1>8. ResultIsDelivered'
  BY <1>1 DEF JobInv, ResultIsDelivered, JobOf
<1>9. QED
  BY <1>4, <1>6, <1>7, <1>8 DEF JobInv

\* A step of client c inside its call that leaves its task alone.
LEMMA JobClientQuiet ==
    ASSUME TypeInv, OwnInv, JobInv, NEW c \in Clients, NEW to, pc' = [pc EXCEPT ![c] = to],
           pc[c] # "idle", to # "idle", Waits(c) <=> to \in WaitingPCs,
           \A d \in Clients : call'[d].n = call[d].n /\ call'[d].result = call[d].result,
           UNCHANGED <<pending, task, cur, answer, accepted, done, written, phase>>
    PROVE  JobInv'
<1>1. /\ pc'[c] = to /\ \A d \in Clients : d # c => pc'[d] = pc[d]
      /\ \A w \in Workers : pc'[w] = pc[w]
  BY ThreadAssumption DEF TypeInv, TypeOK, Threads
<1>2. \A w \in Workers : Holds(w)' <=> Holds(w)
  BY <1>1 DEF Holds
<1>3. \A d \in Clients : Waits(d)' <=> Waits(d)
  BY <1>1 DEF Waits
<1>4. JobsOfCalls' /\ NoJobsYet'
  BY <1>1, <1>3 DEF JobInv, JobsOfCalls, NoJobsYet
<1>5. \A t : Active(t)' <=> Active(t)
  BY <1>2 DEF Active
<1>6. JobsOfTasks'
  BY <1>5 DEF JobInv, JobsOfTasks
<1>7. JobsDone'
  BY <1>1, <1>3 DEF JobInv, JobsDone, JobOf
<1>8. ResultIsDelivered'
  BY <1>1 DEF JobInv, ResultIsDelivered, JobOf
<1>9. QED
  BY <1>4, <1>6, <1>7, <1>8 DEF JobInv

\* A call of client c returns.
LEMMA JobReturns ==
    ASSUME TypeInv, OwnInv, JobInv, NEW c \in Clients, pc' = [pc EXCEPT ![c] = "idle"],
           pc[c] # "idle", NEW a, a # "none", Answered(c, a),
           a = "success" /\ call[c].result => JobOf(c) \in written,
           \A u \in Threads \ {c} : cur'[u] = cur[u],
           \A t \in Tasks : task'[t].job = task[t].job,
           task' = task \/ (Waits(c) /\ ~task[cur[c]].completed),
           \A t \in Tasks : t # cur[c] => task'[t] = task[t],
           \A t \in Tasks : task'[t].result => task[t].result,
           UNCHANGED <<pending, call, accepted, done, written, phase>>
    PROVE  JobInv'
<1>1. /\ pc'[c] = "idle" /\ \A d \in Clients : d # c => pc'[d] = pc[d] /\ cur'[d] = cur[d]
      /\ \A w \in Workers : pc'[w] = pc[w] /\ cur'[w] = cur[w]
  BY ThreadAssumption DEF TypeInv, TypeOK, Threads
<1>2. JobOf(c) \in Jobs /\ JobOf(c) = <<c, call[c].n>>
  BY DEF JobOf, Jobs, TypeInv, CallTyped
<1>3. answer'[JobOf(c)] = a /\ \A j \in Jobs : j # JobOf(c) => answer'[j] = answer[j]
  BY <1>2 DEF Answered, TypeInv, TypeOK
<1>4. \A w \in Workers : Holds(w)' <=> Holds(w)
  BY <1>1 DEF Holds
<1>5. \A d \in Clients : Waits(d)' <=> d # c /\ Waits(d)
  BY <1>1 DEF Waits, WaitingPCs
<1>6. JobsOfCalls' /\ NoJobsYet'
  <2>1. \A d \in Clients, n \in 1..MaxCalls : <<d, n>> \in Jobs
                                              /\ (<<d, n>> = JobOf(c) <=> d = c /\ n = call[c].n)
    BY <1>2 DEF Jobs
  <2>2. QED
    BY <1>1, <1>2, <1>3, <1>5, <2>1 DEF JobInv, JobsOfCalls, NoJobsYet
<1>7. \A t : Active(t)' <=> Active(t)
  BY <1>1, <1>4 DEF Active
<1>8. JobsOfTasks'
  BY <1>7 DEF JobInv, JobsOfTasks
<1>9. \A w \in Workers : Holds(w) => cur[w] \in Tasks
  BY DEF TypeInv, HoldTyped, Holds
<1>10. \A d \in Clients : d # c /\ Waits(d) => cur[d] \in Tasks /\ (Waits(c) => cur[d] # cur[c])
  <2>1. \A d \in Clients : Waits(d) => cur[d] \in Tasks /\ task[cur[d]].job = <<d, call[d].n>>
    BY DEF TypeInv, CallTyped, Waits, OwnInv, WaitedTaskIsOwn, JobOf
  <2>2. QED
    BY <2>1
<1>11. JobsDone'
  <2>1. \A w \in Workers : pc[w] \in AfterCallback \union {"lock_finish", "finish"} => Holds(w)
    BY DEF Holds, HoldingPCs, AfterCallback
  <2>2. \A d \in Clients : d # c /\ Waits(d) => task'[cur'[d]] = task[cur[d]]
    BY <1>1, <1>10
  <2>3. QED
    BY <1>1, <1>5, <1>9, <2>1, <2>2 DEF JobInv, JobsDone, JobOf
<1>12. ResultIsDelivered'
  <2>1. \A d \in Clients : d # c /\ call[d].n > 0 => JobOf(d) # JobOf(c) /\ JobOf(d) \in Jobs
    BY DEF JobOf, Jobs, TypeInv, TypeOK, Call
  <2>2. \A d \in Clients : JobOf(d)' = JobOf(d)
    BY DEF JobOf
  <2>3. QED
    BY <1>1, <1>3, <2>1, <2>2 DEF JobInv, ResultIsDelivered
<1>13. QED
  BY <1>6, <1>8, <1>11, <1>12 DEF JobInv

\* The job of client c is accepted with task t, which is nobody's.
LEMMA JobAppendTask ==
    ASSUME TypeInv, OwnInv, JobInv, NEW c \in Clients, NEW t \in Tasks, AppendTask(c, t),
           NobodysTask(t)
    PROVE  JobInv'
<1>1. /\ pc[c] = "add" /\ pc' = [pc EXCEPT ![c] = "post"]
      /\ cur' = [cur EXCEPT ![c] = t] /\ task' = [task EXCEPT ![t] = Filled(c)]
      /\ pending' = Append(pending, t) /\ accepted' = accepted \union {JobOf(c)}
      /\ UNCHANGED <<call, phase, done, answer, written>>
  BY DEF AppendTask, Goto, ownerVars
<1>2. /\ pc'[c] = "post" /\ cur'[c] = t
      /\ \A d \in Clients : d # c => pc'[d] = pc[d] /\ cur'[d] = cur[d]
      /\ \A w \in Workers : pc'[w] = pc[w] /\ cur'[w] = cur[w]
  BY <1>1, ThreadAssumption DEF TypeInv, TypeOK, Threads
<1>3. /\ task'[t].job = JobOf(c) /\ task'[t].result = call[c].result /\ ~task'[t].completed
      /\ \A u \in Tasks : u # t => task'[u] = task[u]
  BY <1>1 DEF Filled, TypeInv, TypeOK
<1>4. Elements(pending') = Elements(pending) \union {t} /\ Elements(pending) \subseteq Tasks
  BY <1>1, AppendElements, ElementsType DEF TypeInv, TypeOK
<1>5. /\ \A w \in Workers : Holds(w)' <=> Holds(w)
      /\ \A w \in Workers : Holds(w) => cur[w] \in Tasks /\ cur[w] # t
  BY <1>2 DEF Holds, TypeInv, HoldTyped, NobodysTask
<1>6. /\ \A d \in Clients : Waits(d)' <=> d = c \/ Waits(d)
      /\ \A d \in Clients : Waits(d) => cur[d] \in Tasks /\ cur[d] # t
      /\ ~Waits(c)
  BY <1>1, <1>2 DEF Waits, WaitingPCs, TypeInv, CallTyped, NobodysTask
<1>7. JobOf(c) = <<c, call[c].n>> /\ call[c].n \in 1..MaxCalls /\ JobOf(c) \notin accepted
  BY <1>1, <1>6 DEF JobOf, TypeInv, CallTyped, JobInv, JobsOfCalls
<1>8. JobsOfCalls'
  <2>1. \A d \in Clients, n \in 1..MaxCalls :
            <<d, n>> \in accepted' <=> <<d, n>> \in accepted \/ (d = c /\ n = call[c].n)
    BY <1>1, <1>7
  <2>2. \A d \in Clients : (pc'[d] = "idle" <=> pc[d] = "idle") /\ call'[d] = call[d]
    BY <1>1, <1>2
  <2>3. ASSUME NEW d \in Clients, NEW n \in 1..MaxCalls
        PROVE  /\ answer'[<<d, n>>] = "none"
                    <=> n > call'[d].n \/ (n = call'[d].n /\ pc'[d] # "idle")
               /\ <<d, n>> \in accepted' =>
                    n < call'[d].n \/ (n = call'[d].n /\ (pc'[d] = "idle" \/ Waits(d)'))
               /\ n = call'[d].n /\ Waits(d)' => <<d, n>> \in accepted'
    <3>1. /\ answer[<<d, n>>] = "none" <=> n > call[d].n \/ (n = call[d].n /\ pc[d] # "idle")
          /\ <<d, n>> \in accepted =>
                n < call[d].n \/ (n = call[d].n /\ (pc[d] = "idle" \/ Waits(d)))
          /\ n = call[d].n /\ Waits(d) => <<d, n>> \in accepted
      BY DEF JobInv, JobsOfCalls
    <3>2. CASE d = c
      BY <1>1, <1>6, <2>1, <2>2, <3>1, <3>2
    <3>3. CASE d # c
      BY <1>1, <1>6, <2>1, <2>2, <3>1, <3>3
    <3>4. QED
      BY <3>2, <3>3
  <2>4. QED
    BY <2>3 DEF JobsOfCalls
<1>9. NoJobsYet'
  BY <1>1 DEF NoJobsYet, OwnInv, CallsWhileUp
<1>10. \A u \in Tasks : Active(u)' <=> u = t \/ Active(u)
  BY <1>2, <1>4, <1>5 DEF Active
<1>11. ~Active(t)
  BY <1>5 DEF Active, NobodysTask
<1>12. JobsOfTasks'
  BY <1>1, <1>3, <1>7, <1>10, <1>11 DEF JobInv, JobsOfTasks
<1>13. JobsDone'
  <2>1. \A w \in Workers : pc[w] \in AfterCallback \union {"lock_finish", "finish"} => Holds(w)
    BY DEF Holds, HoldingPCs, AfterCallback
  <2>2. \A w \in Workers : Holds(w) => task'[cur'[w]] = task[cur[w]]
    BY <1>2, <1>3, <1>5
  <2>3. \A d \in Clients : d # c /\ Waits(d)' => Waits(d) /\ task'[cur'[d]] = task[cur[d]]
    BY <1>2, <1>3, <1>6
  <2>4. \A d \in Clients : JobOf(d)' = JobOf(d)
    BY <1>1 DEF JobOf
  <2>5. task'[cur'[c]] = task'[t] /\ call'[c] = call[c]
    BY <1>1, <1>2
  <2>6. QED
    BY <1>1, <1>2, <1>3, <2>1, <2>2, <2>3, <2>4, <2>5 DEF JobInv, JobsDone
<1>14. ResultIsDelivered'
  BY <1>1, <1>2 DEF JobInv, ResultIsDelivered, JobOf
<1>15. QED
  BY <1>8, <1>9, <1>12, <1>13, <1>14 DEF JobInv

LEMMA JobDequeue ==
    ASSUME TypeInv, OwnInv, JobInv, NEW w \in Workers, WorkerDequeue(w)
    PROVE  JobInv'
<1> DEFINE t == Head(pending)
<1>1. /\ pending \in Seq(Tasks) /\ pending # <<>> /\ pending' = Tail(pending)
      /\ pc[w] \in {"look", "take"} /\ pc' = [pc EXCEPT ![w] = "callback"]
      /\ cur' = [cur EXCEPT ![w] = t]
      /\ UNCHANGED <<task, call, phase, accepted, done, answer, written>>
  BY DEF WorkerDequeue, history, ownerVars, taskVars, TypeInv, TypeOK
<1>2. Elements(pending) = Elements(pending') \union {t}
  BY <1>1, TailElements
<1>3. /\ pc'[w] = "callback" /\ cur'[w] = t
      /\ \A v \in Workers : v # w => pc'[v] = pc[v] /\ cur'[v] = cur[v]
      /\ \A c \in Clients : pc'[c] = pc[c] /\ cur'[c] = cur[c]
  BY <1>1, ThreadAssumption DEF TypeInv, TypeOK, Threads
<1> HIDE DEF t
<1>4. ~Holds(w) /\ \A v \in Workers : Holds(v)' <=> v = w \/ Holds(v)
  BY <1>1, <1>3 DEF Holds, HoldingPCs
<1>5. \A u : Active(u)' <=> Active(u)
  BY <1>2, <1>3, <1>4 DEF Active
<1>6. JobsOfCalls' /\ NoJobsYet'
  BY <1>1, <1>3 DEF JobInv, JobsOfCalls, NoJobsYet, Waits
<1>7. JobsOfTasks'
  BY <1>1, <1>5 DEF JobInv, JobsOfTasks
<1>8. JobsDone' /\ ResultIsDelivered'
  BY <1>1, <1>3 DEF JobInv, JobsDone, ResultIsDelivered, JobOf, Waits, AfterCallback
<1>9. QED
  BY <1>6, <1>7, <1>8 DEF JobInv

LEMMA JobFinish ==
    ASSUME TypeInv, OwnInv, JobInv, NEW w \in Workers, WorkerFinish(w)
    PROVE  JobInv'
<1> DEFINE t == cur[w]
<1>1. /\ pc[w] = "finish" /\ pc' = [pc EXCEPT ![w] = "while"]
      /\ cur' = [cur EXCEPT ![w] = NoOne]
      /\ UNCHANGED <<pending, call, phase, accepted, done, answer, written>>
  BY DEF WorkerFinish, Goto, Forget, ownerVars, history
<1>2. /\ pc'[w] = "while"
      /\ \A v \in Workers : v # w => pc'[v] = pc[v] /\ cur'[v] = cur[v]
      /\ \A c \in Clients : pc'[c] = pc[c] /\ cur'[c] = cur[c]
  BY <1>1, ThreadAssumption DEF TypeInv, TypeOK, Threads
<1>3. Holds(w) /\ \A v \in Workers : Holds(v)' <=> v # w /\ Holds(v)
  BY <1>1, <1>2 DEF Holds, HoldingPCs
<1>4. t \in Tasks /\ task[t].job \in done /\ (task[t].result => task[t].job \in written)
  BY <1>1, <1>3 DEF TypeInv, HoldTyped, Holds, JobInv, JobsDone, AfterCallback
<1>5. /\ \A u \in Tasks : task'[u].job = task[u].job /\ task'[u].result = task[u].result
      /\ \A u \in Tasks : u # t => task'[u] = task[u]
  <2>1. task' = task \/ task' = [task EXCEPT ![t].completed = TRUE]
    BY DEF WorkerFinish, taskVars
  <2>2. CASE task' = [task EXCEPT ![t].completed = TRUE]
    BY <1>4, <2>2 DEF TypeInv, TypeOK, Task
  <2>3. QED
    BY <2>1, <2>2
<1> HIDE DEF t
<1>6. \A v \in Workers : Holds(v)' => cur[v] \in Tasks /\ cur[v] # t /\ cur'[v] = cur[v]
  BY <1>2, <1>3 DEF TypeInv, HoldTyped, Holds, OwnInv, TaskInOnePlace, t
<1>7. JobsOfCalls' /\ NoJobsYet'
  BY <1>1, <1>2 DEF JobInv, JobsOfCalls, NoJobsYet, Waits
<1>8. \A u : Active(u)' => Active(u)
  BY <1>1, <1>2, <1>3 DEF Active
<1>9. JobsOfTasks'
  BY <1>1, <1>5, <1>8 DEF JobInv, JobsOfTasks
<1>10. JobsDone'
  <2>1. \A v \in Workers : pc'[v] \in AfterCallback \union {"lock_finish", "finish"} =>
            pc'[v] = pc[v] /\ cur'[v] = cur[v] /\ task'[cur[v]] = task[cur[v]]
    <3>1. \A v \in Workers : pc'[v] \in AfterCallback \union {"lock_finish", "finish"} => Holds(v)'
      BY DEF Holds, HoldingPCs, AfterCallback
    <3>2. QED
      BY <1>2, <1>3, <1>5, <1>6, <3>1
  <2>2. \A c \in Clients : Waits(c) => /\ cur[c] \in Tasks /\ task[cur[c]].job = JobOf(c)
    BY DEF Waits, TypeInv, CallTyped, OwnInv, WaitedTaskIsOwn
  <2>3. \A c \in Clients : /\ Waits(c)' <=> Waits(c)
                           /\ JobOf(c)' = JobOf(c)
    BY <1>1, <1>2 DEF Waits, JobOf
  <2>4. ASSUME NEW c \in Clients, Waits(c)
        PROVE  /\ task'[cur[c]].result = call[c].result
               /\ task'[cur[c]].completed => JobOf(c) \in done
               /\ task'[cur[c]].completed /\ call[c].result => JobOf(c) \in written
    <3>1. CASE cur[c] = t
      BY <1>4, <1>5, <2>2, <2>4, <3>1 DEF JobInv, JobsDone
    <3>2. CASE cur[c] # t
      BY <1>5, <2>2, <2>4, <3>2 DEF JobInv, JobsDone
    <3>3. QED
      BY <3>1, <3>2
  <2>5. QED
    BY <1>1, <1>2, <2>1, <2>3, <2>4 DEF JobInv, JobsDone
<1>11. ResultIsDelivered'
  BY <1>1, <1>2 DEF JobInv, ResultIsDelivered, JobOf
<1>12. QED
  BY <1>7, <1>9, <1>10, <1>11 DEF JobInv

LEMMA JobStep == TypeInv /\ TypeInv' /\ OwnInv /\ JobInv /\ [Next]_vars => JobInv'
<1> SUFFICES ASSUME TypeInv, TypeInv', OwnInv, JobInv, [Next]_vars PROVE JobInv'
  OBVIOUS
<1>1. /\ pc \in [Threads -> WorkerPCs \union ClientPCs]
      /\ Workers \subseteq Threads /\ Clients \subseteq Threads
      /\ Workers \intersect Clients = {}
  BY ThreadAssumption DEF TypeInv, TypeOK, Threads
<1> USE DEF Goto, Holds, HoldingPCs, Waits, WaitingPCs, AfterCallback, syncVars, queueVars,
            ownerVars, taskVars, history
<1>w1. ASSUME NEW w \in Workers, WorkerLoop(w) PROVE JobInv'
  BY <1>w1, JobQuiet DEF WorkerLoop
<1>w2. ASSUME NEW w \in Workers, WorkerLockLook(w) PROVE JobInv'
  BY <1>w2, JobQuiet DEF WorkerLockLook, Lock
<1>w3. ASSUME NEW w \in Workers, WorkerSignalled(w) PROVE JobInv'
  BY <1>w3, JobQuiet DEF WorkerSignalled
<1>w4. ASSUME NEW w \in Workers, WorkerTimedOut(w) PROVE JobInv'
  BY <1>w4, JobQuiet DEF WorkerTimedOut
<1>w5. ASSUME NEW w \in Workers, WorkerWoken(w) PROVE JobInv'
  BY <1>w5, JobQuiet DEF WorkerWoken
<1>w6. ASSUME NEW w \in Workers, WorkerLockTake(w) PROVE JobInv'
  BY <1>w6, JobQuiet DEF WorkerLockTake, Lock
<1>w7. ASSUME NEW w \in Workers, WorkerNoWork(w) PROVE JobInv'
  <2>1. PICK to \in {"sem_wait", "while"} : pc' = [pc EXCEPT ![w] = to]
    BY <1>w7 DEF WorkerNoWork
  <2>2. /\ pc[w] \in {"look", "take"}
        /\ UNCHANGED <<pending, task, cur, call, answer, accepted, phase, done, written>>
    BY <1>w7 DEF WorkerNoWork
  <2>3. QED
    BY <2>1, <2>2, JobQuiet
<1>w8. ASSUME NEW w \in Workers, WorkerDequeue(w) PROVE JobInv'
  BY <1>w8, JobDequeue
<1>w9. ASSUME NEW w \in Workers, WorkerCallback(w) PROVE JobInv'
  BY <1>w9, JobQuiet DEF WorkerCallback
<1>w10. ASSUME NEW w \in Workers, WorkerCheckResult(w) PROVE JobInv'
  <2>1. task[cur[w]].job \in done
    BY <1>w10 DEF WorkerCheckResult, JobInv, JobsDone
  <2>2. QED
    BY <1>w10, <2>1, JobQuiet DEF WorkerCheckResult
<1>w11. ASSUME NEW w \in Workers, WorkerStoreResult(w) PROVE JobInv'
  <2>1. task[cur[w]].job \in done
    BY <1>w11 DEF WorkerStoreResult, JobInv, JobsDone
  <2>2. QED
    BY <1>w11, <2>1, JobQuiet DEF WorkerStoreResult
<1>w12. ASSUME NEW w \in Workers, WorkerLockFinish(w) PROVE JobInv'
  <2>1. /\ task[cur[w]].job \in done
        /\ task[cur[w]].result => task[cur[w]].job \in written
    BY <1>w12 DEF WorkerLockFinish, Lock, JobInv, JobsDone
  <2>2. QED
    BY <1>w12, <2>1, JobQuiet DEF WorkerLockFinish, Lock
<1>w13. ASSUME NEW w \in Workers, WorkerFinish(w) PROVE JobInv'
  BY <1>w13, JobFinish
<1>c0. ASSUME NEW c \in Clients, NEW timeout \in Timeouts, NEW result \in ResultPointers,
               Enqueue(c, timeout, result)
        PROVE  JobInv'
  <2>1. /\ pc[c] = "idle" /\ pc' = [pc EXCEPT ![c] = "lock_add"] /\ phase = "up"
        /\ call' = [call EXCEPT ![c] = [timeout |-> timeout, result |-> result,
                                       n |-> call[c].n + 1, wait_error |-> "0"]]
        /\ UNCHANGED <<pending, task, cur, phase, accepted, answer, done, written>>
    BY <1>c0 DEF Enqueue
  <2>2. /\ pc'[c] = "lock_add" /\ call'[c].n = call[c].n + 1
        /\ \A d \in Clients : d # c => pc'[d] = pc[d] /\ call'[d] = call[d]
        /\ \A w \in Workers : pc'[w] = pc[w]
    BY <1>1, <2>1 DEF TypeInv, TypeOK
  <2>3. \A d \in Clients : Waits(d)' <=> Waits(d)
    BY <2>1, <2>2
  <2>4. \A d \in Clients : Waits(d) => d # c
    BY <2>1
  <2>5. call[c].n \in Nat
    BY DEF TypeInv, TypeOK, Call
  <2>6. JobsOfCalls' /\ NoJobsYet'
    BY <2>1, <2>2, <2>5 DEF JobInv, JobsOfCalls, NoJobsYet
  <2>7. JobsOfTasks'
    BY <2>1, <2>2 DEF JobInv, JobsOfTasks, Active
  <2>8. JobsDone'
    BY <2>1, <2>2, <2>3, <2>4 DEF JobInv, JobsDone, JobOf
  <2>9. ResultIsDelivered'
    BY <2>1, <2>2 DEF JobInv, ResultIsDelivered, JobOf
  <2>10. QED
    BY <2>6, <2>7, <2>8, <2>9 DEF JobInv
<1>c1. ASSUME NEW c \in Clients, EnqueueLockAdd(c) PROVE JobInv'
  BY <1>c1, JobClientQuiet DEF EnqueueLockAdd, Lock
<1>c2. ASSUME NEW c \in Clients, EnqueueFull(c) PROVE JobInv'
  BY <1>c2, JobReturns DEF EnqueueFull
<1>c3. ASSUME NEW c \in Clients, EnqueueSemInitFails(c) PROVE JobInv'
  BY <1>c3, JobReturns DEF EnqueueSemInitFails
<1>c4. ASSUME NEW c \in Clients, EnqueueMalloc(c) PROVE JobInv'
  <2>1. PICK t \in Tasks \ heap : AppendTask(c, t)
    BY <1>c4 DEF EnqueueMalloc
  <2>2. NobodysTask(t)
    BY <2>1 DEF NobodysTask, OwnInv, PointersValid
  <2>3. QED
    BY <2>1, <2>2, JobAppendTask
<1>c5. ASSUME NEW c \in Clients, EnqueueReuse(c) PROVE JobInv'
  <2>1. pool \in Seq(Tasks) /\ pool # <<>> /\ AppendTask(c, Head(pool))
    BY <1>c5 DEF EnqueueReuse, TypeInv, TypeOK
  <2>2. Head(pool) \in Tasks /\ Head(pool) \in Elements(pool)
    BY <2>1, TailElements
  <2>3. NobodysTask(Head(pool))
    BY <2>2 DEF NobodysTask, OwnInv, TaskInOnePlace, WaitedTaskIsOwn
  <2>4. QED
    BY <2>1, <2>2, <2>3, JobAppendTask
<1>c6. ASSUME NEW c \in Clients, EnqueuePost(c) PROVE JobInv'
  <2>1. /\ pc[c] = "post"
        /\ UNCHANGED <<pending, task, call, accepted, done, written, phase>>
    BY <1>c6 DEF EnqueuePost
  <2>2. CASE call[c].timeout = "none"
    <3>1. /\ pc' = [pc EXCEPT ![c] = "idle"] /\ Answered(c, "detached")
          /\ \A u \in Threads \ {c} : cur'[u] = cur[u]
      BY <1>c6, <2>2 DEF EnqueuePost, Forget, TypeInv, TypeOK
    <3>2. QED
      BY <2>1, <3>1, JobReturns
  <2>3. CASE call[c].timeout # "none"
    <3>1. PICK to \in {"wait", "timed_wait"} : pc' = [pc EXCEPT ![c] = to]
      BY <1>c6, <2>3 DEF EnqueuePost
    <3>2. UNCHANGED <<answer, cur>>
      BY <1>c6, <2>3 DEF EnqueuePost
    <3>3. QED
      BY <2>1, <3>1, <3>2, JobClientQuiet
  <2>4. QED
    BY <2>2, <2>3
<1>c7. ASSUME NEW c \in Clients, EnqueueWaited(c) PROVE JobInv'
  <2>1. /\ pc[c] = "wait" /\ pc' = [pc EXCEPT ![c] = "idle"] /\ sem[cur[c]] > 0
        /\ Answered(c, "success") /\ \A u \in Threads \ {c} : cur'[u] = cur[u]
        /\ UNCHANGED <<pending, task, call, accepted, done, written, phase>>
    BY <1>c7 DEF EnqueueWaited, TaskSignalled, Forget, TypeInv, TypeOK
  <2>2. task[cur[c]].completed
    BY <2>1 DEF OwnInv, UnfinishedTasks, Unfinished, WaitingClients
  <2>3. call[c].result => JobOf(c) \in written
    BY <2>1, <2>2 DEF JobInv, JobsDone
  <2>4. QED
    BY <2>1, <2>3, JobReturns
<1>c8. ASSUME NEW c \in Clients, EnqueueSignalled(c) PROVE JobInv'
  BY <1>c8, JobClientQuiet DEF EnqueueSignalled, TaskSignalled
<1>c9. ASSUME NEW c \in Clients, EnqueueTimedOut(c) PROVE JobInv'
  <2>1. \A d \in Clients : call'[d].n = call[d].n /\ call'[d].result = call[d].result
    BY <1>c9 DEF EnqueueTimedOut, TypeInv, TypeOK, Call
  <2>2. QED
    BY <1>c9, <2>1, JobClientQuiet DEF EnqueueTimedOut
<1>c10. ASSUME NEW c \in Clients, EnqueueLockDecide(c) PROVE JobInv'
  BY <1>c10, JobClientQuiet DEF EnqueueLockDecide, Lock
<1>c11. ASSUME NEW c \in Clients, EnqueueDecide(c) PROVE JobInv'
  <2> DEFINE timedOut == ~task[cur[c]].completed /\ call[c].wait_error = "ETIMEDOUT"
  <2>1. /\ pc[c] = "decide" /\ pc' = [pc EXCEPT ![c] = "idle"]
        /\ task' = IF timedOut THEN [task EXCEPT ![cur[c]].result = FALSE,
                                                 ![cur[c]].timedout = TRUE] ELSE task
        /\ Answered(c, IF timedOut THEN "timeout" ELSE "success")
        /\ \A u \in Threads \ {c} : cur'[u] = cur[u]
        /\ UNCHANGED <<pending, call, accepted, done, written, phase>>
    BY <1>c11 DEF EnqueueDecide, Forget, TypeInv, TypeOK
  <2>2. cur[c] \in Tasks
    BY <2>1 DEF TypeInv, CallTyped
  <2>3. CASE timedOut
    <3>1. /\ \A t \in Tasks : task'[t].job = task[t].job
          /\ \A t \in Tasks : t # cur[c] => task'[t] = task[t]
          /\ \A t \in Tasks : task'[t].result => task[t].result
      BY <2>1, <2>2, <2>3 DEF TypeInv, TypeOK, Task
    <3>2. QED
      BY <2>1, <2>3, <3>1, JobReturns
  <2>4. CASE ~timedOut
    <3>1. task[cur[c]].completed
      <4>1. call[c].wait_error \in {"0", "ETIMEDOUT"}
        BY DEF TypeInv, TypeOK, Call
      <4>2. QED
        BY <2>1, <2>4, <4>1 DEF OwnInv, SignalledMeansCompleted
    <3>2. call[c].result => JobOf(c) \in written
      BY <2>1, <3>1 DEF JobInv, JobsDone
    <3>3. Answered(c, "success") /\ task' = task
      BY <2>1, <2>4
    <3>4. QED
      BY <2>1, <3>2, <3>3, JobReturns
  <2>5. QED
    BY <2>3, <2>4
<1> USE DEF JobInv, JobsOfCalls, NoJobsYet, JobsOfTasks, JobsDone, ResultIsDelivered, Active, JobOf
<1>o1. ASSUME NEW w \in Workers, CreateThread(w) PROVE JobInv'
  <2>1. pc[w] = "unborn" /\ pc' = [pc EXCEPT ![w] = "while"]
    BY <1>o1 DEF CreateThread
  <2>2. UNCHANGED <<pending, task, cur, call, answer, accepted, phase, done, written>>
    BY <1>o1 DEF CreateThread
  <2>3. QED
    BY <2>1, <2>2, JobQuiet
<1>o2. CASE InitDone
  BY <1>o2 DEF InitDone
<1>o3. CASE InitFails
  BY <1>o3 DEF InitFails
<1>o4. CASE Dealloc
  BY <1>o4 DEF Dealloc
<1>o5. CASE DeallocWake
  BY <1>o5 DEF DeallocWake
<1>o6. CASE DeallocFree
  <2>1. /\ pending' = <<>> /\ phase' = "down"
        /\ UNCHANGED <<pc, task, cur, call, answer, accepted, done, written>>
    BY <1>o6 DEF DeallocFree
  <2>2. Elements(pending') = {}
    BY <2>1 DEF Elements
  <2>3. QED
    BY <2>1, <2>2
<1>u. CASE UNCHANGED vars
  BY <1>u DEF vars
<1>q. QED
  BY <1>w1, <1>w2, <1>w3, <1>w4, <1>w5, <1>w6, <1>w7, <1>w8, <1>w9, <1>w10, <1>w11, <1>w12, <1>w13,
     <1>c0, <1>c1, <1>c2, <1>c3, <1>c4, <1>c5, <1>c6, <1>c7, <1>c8, <1>c9, <1>c10, <1>c11, <1>o1, <1>o2, <1>o3, <1>o4, <1>o5, <1>o6, <1>u
  DEF Next, Worker, Client, Returning, Owner

LEMMA JobAlways == Spec => [](TypeInv /\ OwnInv /\ JobInv)
<1>1. Init => TypeInv /\ OwnInv /\ JobInv
  BY TypeInit, OwnInit, JobInit
<1>2. TypeInv /\ OwnInv /\ JobInv /\ [Next]_vars => TypeInv' /\ OwnInv' /\ JobInv'
  BY TypeStep, OwnStep, JobStep
<1>3. QED
  BY <1>1, <1>2, PTL DEF Spec

\* A call of worker_thread_pool_enqueue with a callback_result that returns success after
\* waiting has had its result stored, although the worker stores it without the lock.
THEOREM ResultCorrect == Spec => []ResultIsDelivered
<1>1. JobInv => ResultIsDelivered
  BY DEF JobInv
<1>2. QED
  BY <1>1, JobAlways, PTL

-----------------------------------------------------------------------------
(* The refinement of JobQueue.                                             *)

\* The values the refinement mapping gives to the variables of JobQueue.
Queue == [i \in 1..Len(pending) |-> task[pending[i]].job]
Executing == {task[cur[w]].job : w \in {v \in Workers : pc[v] = "callback"}}
Open == phase \in {"creating", "up"}

LEMMA RefInit == Init => JQ!Init
<1> SUFFICES ASSUME Init PROVE JQ!Init
  OBVIOUS
<1>1. [i \in 1..Len(pending) |-> task[pending[i]].job] = <<>>
  BY DEF Init
<1>2. {task[cur[w]].job : w \in {v \in Workers : pc[v] = "callback"}} = {}
  BY ThreadAssumption DEF Init, Threads
<1>3. phase \in {"creating", "up"}
  BY DEF Init
<1>4. QED
  BY <1>1, <1>2, <1>3 DEF Init, JQ!Init

\* A step JobQueue does not see.
LEMMA RefStutter ==
    ASSUME UNCHANGED <<accepted, done, answer>>, Queue' = Queue, Executing' = Executing,
           Open' <=> Open
    PROVE  [JQ!Next]_(JQ!vars)
<1>1. (phase' \in {"creating", "up"}) = (phase \in {"creating", "up"})
  BY DEF Open
<1>2. QED
  BY <1>1 DEF JQ!vars, Queue, Executing, Open

\* The queue and the jobs being executed when the tasks concerned keep their jobs.
LEMMA QueueKept ==
    ASSUME TypeInv, pending' = pending,
           \A t \in Tasks : t \in Elements(pending) => task'[t].job = task[t].job
    PROVE  Queue' = Queue
<1>1. \A i \in 1..Len(pending) : pending[i] \in Tasks /\ pending[i] \in Elements(pending)
  BY DEF TypeInv, TypeOK, Elements
<1>2. QED
  BY <1>1 DEF Queue

LEMMA ExecutingKept ==
    ASSUME TypeInv,
           \A w \in Workers : pc'[w] = "callback" <=> pc[w] = "callback",
           \A w \in Workers : pc[w] = "callback" =>
               cur'[w] = cur[w] /\ task'[cur[w]].job = task[cur[w]].job
    PROVE  Executing' = Executing
BY DEF Executing

LEMMA RefQuiet ==
    ASSUME TypeInv, NEW t \in Threads, NEW to, pc' = [pc EXCEPT ![t] = to],
           pc[t] # "callback", to # "callback", \A u \in Threads \ {t} : cur'[u] = cur[u],
           \A u \in Tasks : task'[u].job = task[u].job,
           UNCHANGED <<pending, accepted, done, answer, phase>>
    PROVE  [JQ!Next]_(JQ!vars)
<1>1. \A u \in Threads : u # t => pc'[u] = pc[u]
  BY DEF TypeInv, TypeOK
<1>2. \A w \in Workers : w \in Threads /\ (pc'[w] = "callback" <=> pc[w] = "callback")
  BY <1>1 DEF Threads, TypeInv, TypeOK
<1>3. \A w \in Workers : pc[w] = "callback" => cur'[w] = cur[w] /\ cur[w] \in Tasks
  BY <1>2 DEF TypeInv, HoldTyped, HoldingPCs
<1>4. Executing' = Executing
  BY <1>2, <1>3, ExecutingKept
<1>5. Queue' = Queue
  BY QueueKept
<1>6. QED
  BY <1>4, <1>5, RefStutter DEF Open

\* EnqueueMalloc and EnqueueReuse.
LEMMA RefAccept ==
    ASSUME TypeInv, OwnInv, JobInv, NEW c \in Clients, NEW t \in Tasks, AppendTask(c, t),
           NobodysTask(t)
    PROVE  [JQ!Next]_(JQ!vars)
<1>1. /\ pc[c] = "add" /\ pc' = [pc EXCEPT ![c] = "post"] /\ cur' = [cur EXCEPT ![c] = t]
      /\ task' = [task EXCEPT ![t] = Filled(c)] /\ pending' = Append(pending, t)
      /\ accepted' = accepted \union {JobOf(c)} /\ Len(pending) < MaxQueueSize
      /\ UNCHANGED <<phase, done, answer>>
  BY SizeAssumption DEF AppendTask, Goto, ownerVars, QueueFull, TypeInv, TypeOK
<1>2. /\ task'[t].job = JobOf(c)
      /\ \A u \in Tasks : u # t => task'[u] = task[u]
  BY <1>1 DEF Filled, TypeInv, TypeOK
<1>3. pending \in Seq(Tasks) /\ \A i \in 1..Len(pending) : pending[i] \in Tasks /\ pending[i] # t
  BY DEF NobodysTask, Elements, TypeInv, TypeOK
<1>4. Queue' = Append(Queue, JobOf(c))
  <2>1. Len(pending') = Len(pending) + 1 /\ pending'[Len(pending) + 1] = t
        /\ \A i \in 1..Len(pending) : pending'[i] = pending[i]
    BY <1>1, <1>3
  <2>2. Append(Queue, JobOf(c))
           = [i \in 1..Len(pending) + 1 |-> IF i = Len(pending) + 1 THEN JobOf(c) ELSE Queue[i]]
    BY <1>3 DEF Queue
  <2>3. \A i \in 1..Len(pending) + 1 : task'[pending'[i]].job
            = IF i = Len(pending) + 1 THEN JobOf(c) ELSE task[pending[i]].job
    BY <1>2, <1>3, <2>1
  <2>4. QED
    BY <2>1, <2>2, <2>3 DEF Queue
<1>5. Executing' = Executing
  <2>1. \A w \in Workers : pc'[w] = pc[w] /\ cur'[w] = cur[w]
    BY <1>1, ThreadAssumption DEF TypeInv, TypeOK, Threads
  <2>2. \A w \in Workers : pc[w] = "callback" => cur[w] \in Tasks /\ cur[w] # t
    BY DEF TypeInv, HoldTyped, HoldingPCs, NobodysTask, Holds
  <2>3. QED
    BY <1>2, <2>1, <2>2, ExecutingKept
<1>6. phase = "up" /\ phase' = "up"
  BY <1>1 DEF OwnInv, CallsWhileUp
<1>7. JobOf(c) = <<c, call[c].n>> /\ call[c].n \in 1..MaxCalls /\ JobOf(c) \in Jobs
  BY <1>1 DEF JobOf, TypeInv, CallTyped, Jobs
<1>8. JobOf(c) \notin accepted /\ answer[JobOf(c)] = "none"
  BY <1>1, <1>7 DEF JobInv, JobsOfCalls, Waits, WaitingPCs
<1>9. Len(Queue) < MaxQueueSize
  BY <1>1, <1>3 DEF Queue
<1>10. (phase' \in {"creating", "up"}) = (phase \in {"creating", "up"})
  BY <1>6
<1>11. PICK j \in Jobs : j = JobOf(c)
  BY <1>7
<1>12. JQ!Accept(j)
  BY <1>1, <1>4, <1>5, <1>6, <1>8, <1>9, <1>10, <1>11 DEF JQ!Accept, Queue, Executing
<1>13. QED
  BY <1>12 DEF JQ!Next

\* EnqueueFull and EnqueueSemInitFails.
LEMMA RefRefuse ==
    ASSUME TypeInv, OwnInv, JobInv, NEW c \in Clients, NEW a \in {"full", "error"},
           pc[c] = "add", pc' = [pc EXCEPT ![c] = "idle"], a = "full" => QueueFull,
           Answered(c, a), UNCHANGED <<cur, task, pending, phase, accepted, done>>
    PROVE  [JQ!Next]_(JQ!vars)
<1>1. phase = "up"
  BY DEF OwnInv, CallsWhileUp
<1>2. JobOf(c) = <<c, call[c].n>> /\ call[c].n \in 1..MaxCalls /\ JobOf(c) \in Jobs
  BY DEF JobOf, TypeInv, CallTyped, Jobs
<1>3. JobOf(c) \notin accepted /\ answer[JobOf(c)] = "none"
  BY <1>2 DEF JobInv, JobsOfCalls, Waits, WaitingPCs
<1>4. Executing' = Executing
  <2>1. \A w \in Workers : pc'[w] = pc[w]
    BY ThreadAssumption DEF TypeInv, TypeOK, Threads
  <2>2. QED
    BY <2>1, ExecutingKept
<1>5. Queue' = Queue
  BY QueueKept
<1>6. a = "full" => Len(Queue) = MaxQueueSize
  BY SizeAssumption DEF QueueFull, TypeInv, TypeOK, Queue
<1>7. JQ!Refuse(JobOf(c), a)
  BY <1>1, <1>3, <1>4, <1>5, <1>6 DEF JQ!Refuse, Answered, Queue, Executing
<1>8. QED
  BY <1>2, <1>7 DEF JQ!Next, JQ!Answers

\* EnqueuePost without waiting, EnqueueWaited and EnqueueDecide.
LEMMA RefAnswer ==
    ASSUME TypeInv, OwnInv, JobInv, NEW c \in Clients,
           NEW a \in {"success", "timeout", "detached"}, Waits(c),
           pc' = [pc EXCEPT ![c] = "idle"], a = "success" => task[cur[c]].completed,
           Answered(c, a), \A u \in Threads \ {c} : cur'[u] = cur[u],
           \A t \in Tasks : task'[t].job = task[t].job,
           UNCHANGED <<pending, phase, accepted, done>>
    PROVE  [JQ!Next]_(JQ!vars)
<1>1. JobOf(c) = <<c, call[c].n>> /\ call[c].n \in 1..MaxCalls /\ JobOf(c) \in Jobs
  BY DEF JobOf, TypeInv, CallTyped, Jobs, Waits, WaitingPCs
<1>2. JobOf(c) \in accepted /\ answer[JobOf(c)] = "none"
  BY <1>1 DEF JobInv, JobsOfCalls, Waits, WaitingPCs
<1>3. a = "success" => JobOf(c) \in done
  BY DEF JobInv, JobsDone
<1>4. Executing' = Executing
  <2>1. \A w \in Workers : pc'[w] = pc[w] /\ cur'[w] = cur[w]
    BY ThreadAssumption DEF TypeInv, TypeOK, Threads
  <2>2. \A w \in Workers : pc[w] = "callback" => cur[w] \in Tasks
    BY DEF TypeInv, HoldTyped, HoldingPCs
  <2>3. QED
    BY <2>1, <2>2, ExecutingKept
<1>5. Queue' = Queue
  BY QueueKept
<1>6. (phase' \in {"creating", "up"}) = (phase \in {"creating", "up"})
  OBVIOUS
<1>7. JQ!Answer(JobOf(c), a)
  BY <1>2, <1>3, <1>4, <1>5, <1>6 DEF JQ!Answer, Answered, Queue, Executing
<1>8. QED
  BY <1>1, <1>7 DEF JQ!Next, JQ!Answers

LEMMA RefStart ==
    ASSUME TypeInv, OwnInv, JobInv, NEW w \in Workers, WorkerDequeue(w)
    PROVE  [JQ!Next]_(JQ!vars)
<1>1. /\ pending \in Seq(Tasks) /\ pending # <<>> /\ pending' = Tail(pending)
      /\ pc[w] \in {"look", "take"} /\ pc' = [pc EXCEPT ![w] = "callback"]
      /\ cur' = [cur EXCEPT ![w] = Head(pending)]
      /\ UNCHANGED <<task, phase, accepted, done, answer>>
  BY DEF WorkerDequeue, history, ownerVars, taskVars, TypeInv, TypeOK
<1>2. /\ pc'[w] = "callback" /\ cur'[w] = Head(pending)
      /\ \A v \in Workers : v # w => pc'[v] = pc[v] /\ cur'[v] = cur[v]
  BY <1>1, ThreadAssumption DEF TypeInv, TypeOK, Threads
<1>3. /\ Queue # <<>> /\ Head(Queue) = task[Head(pending)].job /\ Queue' = Tail(Queue)
  <2>1. /\ Len(pending) \in Nat \ {0} /\ Len(pending') = Len(pending) - 1
        /\ \A i \in 1..Len(pending) - 1 : pending'[i] = pending[i + 1]
        /\ Head(pending) = pending[1]
    BY <1>1
  <2>2. /\ Queue # <<>> /\ Head(Queue) = Queue[1] /\ Len(Queue) = Len(pending)
        /\ Tail(Queue) = [i \in 1..Len(pending) - 1 |-> Queue[i + 1]]
    BY <2>1 DEF Queue
  <2>3. \A i \in 1..Len(pending) - 1 : Queue[i + 1] = task[pending[i + 1]].job
    BY <2>1 DEF Queue
  <2>4. QED
    BY <1>1, <2>1, <2>2, <2>3 DEF Queue
<1>4. Executing' = Executing \union {Head(Queue)}
  <2>1. {v \in Workers : pc'[v] = "callback"} = {v \in Workers : pc[v] = "callback"} \union {w}
    BY <1>2
  <2>2. \A v \in Workers : task'[cur'[v]].job
            = IF v = w THEN Head(Queue) ELSE task[cur[v]].job
    BY <1>1, <1>2, <1>3
  <2>3. pc[w] # "callback"
    BY <1>1
  <2>4. QED
    BY <2>1, <2>2, <2>3 DEF Executing
<1>5. Cardinality(Executing) < Cardinality(Workers)
  <2> DEFINE busy == {v \in Workers : pc[v] = "callback"}
             f == [v \in busy |-> task[cur[v]].job]
  <2>1. IsFiniteSet(busy) /\ Cardinality(busy) < Cardinality(Workers)
    <3>1. busy \in SUBSET Workers /\ w \in Workers \ busy
      BY <1>1
    <3>2. IsFiniteSet(busy) /\ Cardinality(busy) <= Cardinality(Workers) /\ busy # Workers
      BY <3>1, ThreadAssumption, FS_Subset
    <3>3. Cardinality(busy) # Cardinality(Workers)
      BY <3>1, <3>2, ThreadAssumption, FS_Subset
    <3>4. Cardinality(busy) \in Nat /\ Cardinality(Workers) \in Nat
      BY <3>2, ThreadAssumption, FS_CardinalityType
    <3>5. QED
      BY <3>2, <3>3, <3>4
  <2>2. f \in Surjection(busy, Executing)
    BY DEF Surjection, Executing
  <2>3. Cardinality(Executing) <= Cardinality(busy) /\ IsFiniteSet(Executing)
    BY <2>1, <2>2, FS_Surjection
  <2>4. Cardinality(Executing) \in Nat /\ Cardinality(busy) \in Nat /\ Cardinality(Workers) \in Nat
    BY <2>1, <2>3, ThreadAssumption, FS_CardinalityType
  <2>5. QED
    BY <2>1, <2>3, <2>4
<1>6. JQ!Cardinality(Executing) = Cardinality(Executing)
  BY DEF JQ!Cardinality, Cardinality
<1>7. (phase' \in {"creating", "up"}) = (phase \in {"creating", "up"})
  BY <1>1
<1>8. JQ!Start
  BY <1>1, <1>3, <1>4, <1>5, <1>6, <1>7 DEF JQ!Start, Queue, Executing
<1>9. QED
  BY <1>8 DEF JQ!Next

\* No other worker executes the job of a worker whose callback returns.
LEMMA RefFinish ==
    ASSUME TypeInv, OwnInv, JobInv, NEW w \in Workers, WorkerCallback(w)
    PROVE  [JQ!Next]_(JQ!vars)
<1>0. PICK j : j = task[cur[w]].job
  OBVIOUS
<1>1. /\ pc[w] = "callback" /\ pc' = [pc EXCEPT ![w] = "check_result"]
      /\ done' = done \union {j}
      /\ UNCHANGED <<pending, task, cur, phase, accepted, answer>>
  BY <1>0 DEF WorkerCallback, Goto, queueVars, ownerVars, taskVars
<1>2. pc'[w] = "check_result" /\ \A v \in Workers : v # w => pc'[v] = pc[v]
  BY <1>1, ThreadAssumption DEF TypeInv, TypeOK, Threads
<1>3. j \in Executing /\ j \in Jobs
  BY <1>0, <1>1 DEF Executing, TypeInv, HoldTyped, HoldingPCs
<1>4. \A v \in Workers : pc[v] = "callback" /\ v # w => task[cur[v]].job # j
  <2>1. ASSUME NEW v \in Workers, pc[v] = "callback", v # w PROVE task[cur[v]].job # j
    <3>1. cur[v] # cur[w] /\ cur[v] \in Tasks /\ cur[w] \in Tasks
      BY <1>1, <2>1 DEF OwnInv, TaskInOnePlace, HoldingPCs, TypeInv, HoldTyped
    <3>2. Active(cur[v]) /\ Active(cur[w])
      BY <1>1, <2>1 DEF Active, Holds, HoldingPCs
    <3>3. QED
      BY <1>0, <3>1, <3>2 DEF JobInv, JobsOfTasks
  <2>2. QED
    BY <2>1
<1>5. Executing' = Executing \ {j}
  BY <1>0, <1>1, <1>2, <1>4 DEF Executing
<1>6. Queue' = Queue
  BY <1>1 DEF Queue
<1>7. (phase' \in {"creating", "up"}) = (phase \in {"creating", "up"})
  BY <1>1
<1>8. JQ!Finish(j)
  BY <1>1, <1>3, <1>5, <1>6, <1>7 DEF JQ!Finish, Queue, Executing
<1>9. QED
  BY <1>3, <1>8 DEF JQ!Next

\* InitFails and Dealloc.
LEMMA RefClose ==
    ASSUME TypeInv, JobInv, phase \in {"creating", "up"}, phase' = "waking",
           phase = "up" => \A c \in Clients : pc[c] = "idle",
           UNCHANGED <<pc, pending, task, cur, accepted, done, answer>>
    PROVE  [JQ!Next]_(JQ!vars)
<1>1. \A j \in accepted : answer[j] # "none"
  <2>1. CASE phase = "creating"
    BY <2>1 DEF JobInv, NoJobsYet
  <2>2. CASE phase = "up"
    <3>1. ASSUME NEW c \in Clients, NEW n \in 1..MaxCalls, <<c, n>> \in accepted
          PROVE  answer[<<c, n>>] # "none"
      <4>1. call[c].n \in Nat /\ pc[c] = "idle"
        BY <2>2 DEF TypeInv, TypeOK, Call
      <4>2. n < call[c].n \/ n = call[c].n
        BY <3>1 DEF JobInv, JobsOfCalls
      <4>3. QED
        BY <4>1, <4>2 DEF JobInv, JobsOfCalls
    <3>2. accepted \subseteq Clients \X (1..MaxCalls)
      BY DEF TypeInv, TypeOK, Jobs
    <3>3. QED
      BY <3>1, <3>2
  <2>3. QED
    BY <2>1, <2>2
<1>2. Queue' = Queue /\ Executing' = Executing
  BY DEF Queue, Executing
<1>3. (phase' \in {"creating", "up"}) = FALSE
  OBVIOUS
<1>4. JQ!Close
  BY <1>1, <1>2, <1>3 DEF JQ!Close, Queue, Executing
<1>5. QED
  BY <1>4 DEF JQ!Next

LEMMA RefDiscard == ASSUME DeallocFree PROVE [JQ!Next]_(JQ!vars)
<1>1. /\ phase = "joining" /\ phase' = "down" /\ pending' = <<>>
      /\ \A w \in Workers : pc[w] # "callback"
      /\ UNCHANGED <<pc, task, cur, accepted, done, answer>>
  BY DEF DeallocFree, history, taskVars
<1>2. Queue' = <<>>
  BY <1>1 DEF Queue
<1>3. Executing = {} /\ Executing' = Executing
  BY <1>1 DEF Executing
<1>4. (phase' \in {"creating", "up"}) = FALSE /\ (phase \in {"creating", "up"}) = FALSE
  BY <1>1
<1>5. JQ!Discard
  BY <1>1, <1>2, <1>3, <1>4 DEF JQ!Discard, Queue, Executing
<1>6. QED
  BY <1>5 DEF JQ!Next

LEMMA RefStep == TypeInv /\ OwnInv /\ JobInv /\ [Next]_vars => [JQ!Next]_(JQ!vars)
<1> SUFFICES ASSUME TypeInv, OwnInv, JobInv, [Next]_vars PROVE [JQ!Next]_(JQ!vars)
  OBVIOUS
<1>1. Workers \subseteq Threads /\ Clients \subseteq Threads
  BY DEF Threads
<1> USE DEF Goto, syncVars, queueVars, ownerVars, taskVars, history
<1>w1. ASSUME NEW w \in Workers, WorkerLoop(w) PROVE [JQ!Next]_(JQ!vars)
  BY <1>1, <1>w1, RefQuiet DEF WorkerLoop
<1>w2. ASSUME NEW w \in Workers, WorkerLockLook(w) PROVE [JQ!Next]_(JQ!vars)
  BY <1>1, <1>w2, RefQuiet DEF WorkerLockLook, Lock
<1>w3. ASSUME NEW w \in Workers, WorkerSignalled(w) PROVE [JQ!Next]_(JQ!vars)
  BY <1>1, <1>w3, RefQuiet DEF WorkerSignalled
<1>w4. ASSUME NEW w \in Workers, WorkerTimedOut(w) PROVE [JQ!Next]_(JQ!vars)
  BY <1>1, <1>w4, RefQuiet DEF WorkerTimedOut
<1>w5. ASSUME NEW w \in Workers, WorkerWoken(w) PROVE [JQ!Next]_(JQ!vars)
  BY <1>1, <1>w5, RefQuiet DEF WorkerWoken
<1>w6. ASSUME NEW w \in Workers, WorkerLockTake(w) PROVE [JQ!Next]_(JQ!vars)
  BY <1>1, <1>w6, RefQuiet DEF WorkerLockTake, Lock
<1>w7. ASSUME NEW w \in Workers, WorkerNoWork(w) PROVE [JQ!Next]_(JQ!vars)
  <2>1. PICK to \in {"sem_wait", "while"} : pc' = [pc EXCEPT ![w] = to]
    BY <1>w7 DEF WorkerNoWork
  <2>2. /\ pc[w] \in {"look", "take"}
        /\ UNCHANGED <<pending, task, cur, answer, accepted, phase, done>>
    BY <1>w7 DEF WorkerNoWork
  <2>3. QED
    BY <1>1, <2>1, <2>2, RefQuiet
<1>w8. ASSUME NEW w \in Workers, WorkerDequeue(w) PROVE [JQ!Next]_(JQ!vars)
  BY <1>w8, RefStart
<1>w9. ASSUME NEW w \in Workers, WorkerCallback(w) PROVE [JQ!Next]_(JQ!vars)
  BY <1>w9, RefFinish
<1>w10. ASSUME NEW w \in Workers, WorkerCheckResult(w) PROVE [JQ!Next]_(JQ!vars)
  BY <1>1, <1>w10, RefQuiet DEF WorkerCheckResult
<1>w11. ASSUME NEW w \in Workers, WorkerStoreResult(w) PROVE [JQ!Next]_(JQ!vars)
  <2>1. PICK to \in {"lock_finish", "segfault"} : pc' = [pc EXCEPT ![w] = to]
    BY <1>w11 DEF WorkerStoreResult
  <2>2. /\ pc[w] = "store_result"
        /\ UNCHANGED <<pending, task, cur, answer, accepted, phase, done>>
    BY <1>w11 DEF WorkerStoreResult
  <2>3. QED
    BY <1>1, <2>1, <2>2, RefQuiet
<1>w12. ASSUME NEW w \in Workers, WorkerLockFinish(w) PROVE [JQ!Next]_(JQ!vars)
  BY <1>1, <1>w12, RefQuiet DEF WorkerLockFinish, Lock
<1>w13. ASSUME NEW w \in Workers, WorkerFinish(w) PROVE [JQ!Next]_(JQ!vars)
  <2>1. /\ pc[w] = "finish" /\ pc' = [pc EXCEPT ![w] = "while"]
        /\ \A u \in Threads \ {w} : cur'[u] = cur[u]
        /\ UNCHANGED <<pending, answer, accepted, phase, done>>
    BY <1>w13 DEF WorkerFinish, Forget, TypeInv, TypeOK
  <2>2. \A u \in Tasks : task'[u].job = task[u].job
    <3>1. task' = task \/ task' = [task EXCEPT ![cur[w]].completed = TRUE]
      BY <1>w13 DEF WorkerFinish
    <3>2. task \in [Tasks -> Task]
      BY DEF TypeInv, TypeOK
    <3>3. CASE task' = [task EXCEPT ![cur[w]].completed = TRUE]
      BY <3>2, <3>3 DEF Task
    <3>4. QED
      BY <3>1, <3>3
  <2>3. QED
    BY <1>1, <2>1, <2>2, RefQuiet
<1>c0. ASSUME NEW c \in Clients, NEW timeout \in Timeouts, NEW result \in ResultPointers,
               Enqueue(c, timeout, result)
        PROVE  [JQ!Next]_(JQ!vars)
  BY <1>1, <1>c0, RefQuiet DEF Enqueue
<1>c1. ASSUME NEW c \in Clients, EnqueueLockAdd(c) PROVE [JQ!Next]_(JQ!vars)
  BY <1>1, <1>c1, RefQuiet DEF EnqueueLockAdd, Lock
<1>c2. ASSUME NEW c \in Clients, EnqueueFull(c) PROVE [JQ!Next]_(JQ!vars)
  BY <1>c2, RefRefuse DEF EnqueueFull
<1>c3. ASSUME NEW c \in Clients, EnqueueSemInitFails(c) PROVE [JQ!Next]_(JQ!vars)
  BY <1>c3, RefRefuse DEF EnqueueSemInitFails
<1>c4. ASSUME NEW c \in Clients, EnqueueMalloc(c) PROVE [JQ!Next]_(JQ!vars)
  <2>1. PICK t \in Tasks \ heap : AppendTask(c, t)
    BY <1>c4 DEF EnqueueMalloc
  <2>2. NobodysTask(t)
    BY <2>1 DEF NobodysTask, OwnInv, PointersValid
  <2>3. QED
    BY <2>1, <2>2, RefAccept
<1>c5. ASSUME NEW c \in Clients, EnqueueReuse(c) PROVE [JQ!Next]_(JQ!vars)
  <2>1. pool \in Seq(Tasks) /\ pool # <<>> /\ AppendTask(c, Head(pool))
    BY <1>c5 DEF EnqueueReuse, TypeInv, TypeOK
  <2>2. PICK t \in Tasks : t = Head(pool) /\ t \in Elements(pool)
    BY <2>1, TailElements
  <2>3. NobodysTask(t)
    BY <2>2 DEF NobodysTask, OwnInv, TaskInOnePlace, WaitedTaskIsOwn, Holds, Waits
  <2>4. QED
    BY <2>1, <2>2, <2>3, RefAccept
<1>c6. ASSUME NEW c \in Clients, EnqueuePost(c) PROVE [JQ!Next]_(JQ!vars)
  <2>1. pc[c] = "post" /\ UNCHANGED <<pending, task, accepted, done, phase>>
    BY <1>c6 DEF EnqueuePost
  <2>2. CASE call[c].timeout = "none"
    <3>1. /\ pc' = [pc EXCEPT ![c] = "idle"] /\ Answered(c, "detached")
          /\ \A u \in Threads \ {c} : cur'[u] = cur[u]
      BY <1>c6, <2>2 DEF EnqueuePost, Forget, TypeInv, TypeOK
    <3>2. Waits(c)
      BY <2>1 DEF Waits, WaitingPCs
    <3>3. QED
      BY <2>1, <3>1, <3>2, RefAnswer
  <2>3. CASE call[c].timeout # "none"
    <3>1. PICK to \in {"wait", "timed_wait"} : pc' = [pc EXCEPT ![c] = to]
      BY <1>c6, <2>3 DEF EnqueuePost
    <3>2. UNCHANGED <<answer, cur>>
      BY <1>c6, <2>3 DEF EnqueuePost
    <3>3. QED
      BY <1>1, <2>1, <3>1, <3>2, RefQuiet
  <2>4. QED
    BY <2>2, <2>3
<1>c7. ASSUME NEW c \in Clients, EnqueueWaited(c) PROVE [JQ!Next]_(JQ!vars)
  <2>1. /\ pc[c] = "wait" /\ pc' = [pc EXCEPT ![c] = "idle"] /\ sem[cur[c]] > 0
        /\ Answered(c, "success") /\ \A u \in Threads \ {c} : cur'[u] = cur[u]
        /\ UNCHANGED <<pending, task, accepted, done, phase>>
    BY <1>c7 DEF EnqueueWaited, TaskSignalled, Forget, TypeInv, TypeOK
  <2>2. task[cur[c]].completed
    BY <2>1 DEF OwnInv, UnfinishedTasks, Unfinished, WaitingClients, Waits, WaitingPCs, Holds
  <2>3. Waits(c)
    BY <2>1 DEF Waits, WaitingPCs
  <2>4. QED
    BY <2>1, <2>2, <2>3, RefAnswer
<1>c8. ASSUME NEW c \in Clients, EnqueueSignalled(c) PROVE [JQ!Next]_(JQ!vars)
  BY <1>1, <1>c8, RefQuiet DEF EnqueueSignalled, TaskSignalled
<1>c9. ASSUME NEW c \in Clients, EnqueueTimedOut(c) PROVE [JQ!Next]_(JQ!vars)
  BY <1>1, <1>c9, RefQuiet DEF EnqueueTimedOut
<1>c10. ASSUME NEW c \in Clients, EnqueueLockDecide(c) PROVE [JQ!Next]_(JQ!vars)
  BY <1>1, <1>c10, RefQuiet DEF EnqueueLockDecide, Lock
<1>c11. ASSUME NEW c \in Clients, EnqueueDecide(c) PROVE [JQ!Next]_(JQ!vars)
  <2> DEFINE timedOut == ~task[cur[c]].completed /\ call[c].wait_error = "ETIMEDOUT"
  <2>1. /\ pc[c] = "decide" /\ pc' = [pc EXCEPT ![c] = "idle"]
        /\ task' = IF timedOut THEN [task EXCEPT ![cur[c]].result = FALSE,
                                                 ![cur[c]].timedout = TRUE] ELSE task
        /\ Answered(c, IF timedOut THEN "timeout" ELSE "success")
        /\ \A u \in Threads \ {c} : cur'[u] = cur[u]
        /\ UNCHANGED <<pending, accepted, done, phase>>
    BY <1>c11 DEF EnqueueDecide, Forget, TypeInv, TypeOK
  <2>2. \A t \in Tasks : task'[t].job = task[t].job
    BY <2>1 DEF TypeInv, TypeOK, Task
  <2>3. ~timedOut => task[cur[c]].completed
    <3>1. call[c].wait_error \in {"0", "ETIMEDOUT"}
      BY DEF TypeInv, TypeOK, Call
    <3>2. QED
      BY <2>1, <3>1 DEF OwnInv, SignalledMeansCompleted
  <2>4. PICK a \in {"success", "timeout", "detached"} :
            a = IF timedOut THEN "timeout" ELSE "success"
    OBVIOUS
  <2>5. Waits(c)
    BY <2>1 DEF Waits, WaitingPCs
  <2>6. QED
    BY <2>1, <2>2, <2>3, <2>4, <2>5, RefAnswer
<1>o1. ASSUME NEW w \in Workers, CreateThread(w) PROVE [JQ!Next]_(JQ!vars)
  BY <1>1, <1>o1, RefQuiet DEF CreateThread
<1>o2. ASSUME UNCHANGED <<pc, pending, task, cur, accepted, done, answer>>, Open' <=> Open
       PROVE  [JQ!Next]_(JQ!vars)
  BY <1>o2, RefStutter DEF Queue, Executing
<1>o3. CASE InitDone
  BY <1>o2, <1>o3 DEF InitDone, Open
<1>o4. CASE InitFails
  BY <1>o4, RefClose DEF InitFails
<1>o5. CASE Dealloc
  BY <1>o5, RefClose DEF Dealloc
<1>o6. CASE DeallocWake
  BY <1>o2, <1>o6 DEF DeallocWake, Open
<1>o7. CASE DeallocFree
  BY <1>o7, RefDiscard
<1>u. CASE UNCHANGED vars
  BY <1>o2, <1>u DEF vars, Open
<1>q. QED
  BY <1>w1, <1>w2, <1>w3, <1>w4, <1>w5, <1>w6, <1>w7, <1>w8, <1>w9, <1>w10, <1>w11, <1>w12, <1>w13,
     <1>c0, <1>c1, <1>c2, <1>c3, <1>c4, <1>c5, <1>c6, <1>c7, <1>c8, <1>c9, <1>c10, <1>c11,
     <1>o1, <1>o3, <1>o4, <1>o5, <1>o6, <1>o7, <1>u
  DEF Next, Worker, Client, Returning, Owner

\* worker_thread_pool keeps the promises of JobQueue: every step of the threads, with its
\* locks, semaphores, timeouts and task structures, is a step of the queue or none.
THEOREM Refinement == Spec => ImplementsJobQueue
<1>1. Init => JQ!Init
  BY RefInit
<1>2. TypeInv /\ OwnInv /\ JobInv /\ [Next]_vars => [JQ!Next]_(JQ!vars)
  BY RefStep
<1>3. QED
  BY <1>1, <1>2, JobAlways, PTL DEF Spec, ImplementsJobQueue, JQ!Spec
=============================================================================
