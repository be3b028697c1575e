-------------------------- MODULE WorkerThreadPool --------------------------
(***************************************************************************)
(* src/shared/worker_thread_pool.c: a fixed set of worker threads, a       *)
(* bounded queue of pending tasks and a free list ("the pool") of task     *)
(* structures, both under tasks_mutex; tasks_semaphore to wake a worker    *)
(* and one semaphore in each task to wake the thread that enqueued it.     *)
(*                                                                         *)
(* One action is one step between two points where another thread may      *)
(* interfere: taking a lock, the body of a critical section with the       *)
(* unlock that ends it, a semaphore operation, an unlocked access to       *)
(* shared memory.                                                          *)
(*                                                                         *)
(* Time is abstracted: a timed wait may end by its timeout at any moment.  *)
(* Waits ended by a signal (EINTR) are left out: the program installs its  *)
(* one handler with signal(), which restarts them.                         *)
(***************************************************************************)
EXTENDS Lists, FiniteSets

CONSTANTS Workers,         \* the threads worker_thread_pool_init creates
          Clients,         \* the threads that call worker_thread_pool_enqueue
          Tasks,           \* the addresses malloc can return for a task
          NoOne,           \* the owner of a free mutex, a pointer to no task
          MaxQueueSize,    \* queue_size
          MaxCalls,        \* bound: how many calls each client makes
          Timeouts,        \* the timeouts callers use: "infinite" (-1), "none" (0), "finite"
          ResultPointers   \* whether callers pass a callback_result: TRUE, FALSE or either

ASSUME ThreadAssumption == /\ Workers \intersect Clients = {}
                           /\ NoOne \notin Workers \union Clients \union Tasks
                           /\ IsFiniteSet(Workers)
                           /\ IsFiniteSet(Clients)
ASSUME SizeAssumption == MaxQueueSize \in Nat \ {0} /\ MaxCalls \in Nat
ASSUME CallAssumption == /\ Timeouts \subseteq {"infinite", "none", "finite"}
                         /\ ResultPointers \subseteq BOOLEAN

VARIABLES pc,         \* where each thread is
          mutex,      \* the owner of tasks_mutex
          running,    \* context->running of each worker
          tokens,     \* the value of tasks_semaphore
          pending,    \* task_pending_first .. task_pending_last
          pool,       \* task_pool_first and its successors
          heap,       \* the task structures allocated and not freed
          task,       \* the contents of each task structure but for its semaphore
          sem,        \* the value of the semaphore in each task structure
          cur,        \* the local variable task of each thread
          call,       \* the arguments and locals of each client's call
          phase,      \* how far worker_thread_pool_init or _dealloc has come
          accepted,   \* history: the jobs that entered the queue
          done,       \* history: the jobs whose callback has returned
          answer,     \* history: what the call that submitted a job returned
          written     \* history: the jobs whose result has been stored through the caller's pointer

syncVars == <<mutex, tokens>>
queueVars == <<pending, pool, heap>>
taskVars == <<task, sem>>
ownerVars == <<running, phase>>
history == <<accepted, done, answer, written>>
vars == <<pc, mutex, running, tokens, pending, pool, heap, task, sem, cur, call, phase,
          accepted, done, answer, written>>

Threads == Workers \union Clients

\* A job is the call that submits it: the n-th of client c is <<c, n>>.
Jobs == Clients \X (1..MaxCalls)

WorkerPCs == {"unborn", "while", "lock_look", "look", "sem_wait", "woken", "lock_take", "take",
              "callback", "check_result", "store_result", "lock_finish", "finish",
              "exited", "segfault"}
ClientPCs == {"idle", "lock_add", "add", "post", "wait", "timed_wait", "lock_decide", "decide"}

\* The steps a thread takes while it owns tasks_mutex.
CriticalPCs == {"look", "take", "finish", "add", "decide"}

\* job stands for callback and data, result for a callback_result pointer that is not NULL.
Task == [job : Jobs \union {NoOne}, result : BOOLEAN, timedout : BOOLEAN, completed : BOOLEAN]
Call == [timeout : {"infinite", "none", "finite"}, result : BOOLEAN, n : 0..MaxCalls,
         wait_error : {"0", "ETIMEDOUT"}]

Init == /\ pc = [t \in Threads |-> IF t \in Workers THEN "unborn" ELSE "idle"]
        /\ mutex = NoOne
        /\ running = [w \in Workers |-> FALSE]
        /\ tokens = 0
        /\ pending = <<>>
        /\ pool = <<>>
        /\ heap = {}
        /\ task = [t \in Tasks |-> [job |-> NoOne, result |-> FALSE, timedout |-> FALSE,
                                    completed |-> FALSE]]
        /\ sem = [t \in Tasks |-> 0]
        /\ cur = [t \in Threads |-> NoOne]
        /\ call = [c \in Clients |-> [timeout |-> "none", result |-> FALSE, n |-> 0,
                                      wait_error |-> "0"]]
        /\ phase = "creating"
        /\ accepted = {}
        /\ done = {}
        /\ answer = [j \in Jobs |-> "none"]
        /\ written = {}

Goto(t, from, to) == pc[t] = from /\ pc' = [pc EXCEPT ![t] = to]

Lock(t, from, to) == /\ Goto(t, from, to)
                     /\ mutex = NoOne
                     /\ mutex' = t
                     /\ UNCHANGED <<tokens, queueVars, ownerVars, history, taskVars, cur, call>>

Unlock == mutex' = NoOne

\* The local variable task of thread t goes out of scope.
Forget(t) == cur' = [cur EXCEPT ![t] = NoOne]

-----------------------------------------------------------------------------
(* worker_thread_pool_pthread_callback, the loop of worker w.              *)

\* while (context->running), read without the lock.
WorkerLoop(w) == /\ Goto(w, "while", IF running[w] THEN "lock_look" ELSE "exited")
                 /\ UNCHANGED <<syncVars, queueVars, ownerVars, history, taskVars, cur, call>>

WorkerLockLook(w) == Lock(w, "lock_look", "look")

\* sem_timedwait on tasks_semaphore: signalled, or five seconds have passed.
WorkerSignalled(w) == /\ Goto(w, "sem_wait", "woken")
                      /\ tokens > 0
                      /\ tokens' = tokens - 1
                      /\ UNCHANGED <<mutex, queueVars, ownerVars, history, taskVars, cur, call>>

WorkerTimedOut(w) == /\ Goto(w, "sem_wait", "woken")
                     /\ tokens = 0
                     /\ UNCHANGED <<syncVars, queueVars, ownerVars, history, taskVars, cur, call>>

\* "we're trying to shut down so just abort"
WorkerWoken(w) == /\ Goto(w, "woken", IF running[w] THEN "lock_take" ELSE "exited")
                  /\ UNCHANGED <<syncVars, queueVars, ownerVars, history, taskVars, cur, call>>

WorkerLockTake(w) == Lock(w, "lock_take", "take")

\* Mutant of WorkerNoWork: "return" where the code has "continue".
WorkerNoWorkReturns(w) == /\ \/ Goto(w, "look", "sem_wait")
                             \/ Goto(w, "take", "exited")
                          /\ pending = <<>>
                          /\ Unlock
                          /\ UNCHANGED <<tokens, queueVars, ownerVars, history, taskVars, cur, call>>

\* The queue is empty: go to sleep the first time, start over the second time.
WorkerNoWork(w) == /\ \/ Goto(w, "look", "sem_wait")
                      \/ Goto(w, "take", "while")
                   /\ pending = <<>>
                   /\ Unlock
                   /\ UNCHANGED <<tokens, queueVars, ownerVars, history, taskVars, cur, call>>

\* Mutant of WorkerDequeue: the last pending task is taken.
WorkerDequeueLast(w) == /\ pc[w] \in {"look", "take"}
                        /\ pending # <<>>
                        /\ pc' = [pc EXCEPT ![w] = "callback"]
                        /\ cur' = [cur EXCEPT ![w] = pending[Len(pending)]]
                        /\ pending' = SubSeq(pending, 1, Len(pending) - 1)
                        /\ Unlock
                        /\ UNCHANGED <<tokens, pool, heap, ownerVars, history, taskVars, call>>

\* Take the first pending task.
WorkerDequeue(w) == /\ pc[w] \in {"look", "take"}
                    /\ pending # <<>>
                    /\ pc' = [pc EXCEPT ![w] = "callback"]
                    /\ cur' = [cur EXCEPT ![w] = Head(pending)]
                    /\ pending' = Tail(pending)
                    /\ Unlock
                    /\ UNCHANGED <<tokens, pool, heap, ownerVars, history, taskVars, call>>

\* Mutant of WorkerCallback: the waiting client is signalled before the result is stored.
WorkerCallbackSignals(w) ==
    /\ Goto(w, "callback", "check_result")
    /\ done' = done \union {task[cur[w]].job}
    /\ task' = [task EXCEPT ![cur[w]].completed = TRUE]
    /\ sem' = [sem EXCEPT ![cur[w]] = @ + 1]
    /\ UNCHANGED <<syncVars, queueVars, ownerVars, cur, call, accepted, answer, written>>

\* task->callback(context->id, task->data) returns.
WorkerCallback(w) == /\ Goto(w, "callback", "check_result")
                     /\ done' = done \union {task[cur[w]].job}
                     /\ UNCHANGED <<syncVars, queueVars, ownerVars, taskVars, cur, call,
                                    accepted, answer, written>>

\* if (task->result), read without the lock.
WorkerCheckResult(w) ==
    /\ Goto(w, "check_result", IF task[cur[w]].result THEN "store_result" ELSE "lock_finish")
    /\ UNCHANGED <<syncVars, queueVars, ownerVars, history, taskVars, cur, call>>

\* *task->result = callback_result, without the lock.  The caller may have set
\* task->result to NULL since the check: a build that kept the pointer in a
\* register stores through it, a build that loads it again stores through NULL.
WorkerStoreResult(w) ==
    \/ /\ Goto(w, "store_result", "lock_finish")
       /\ written' = written \union {task[cur[w]].job}
       /\ UNCHANGED <<syncVars, queueVars, ownerVars, taskVars, cur, call, accepted, done, answer>>
    \/ /\ Goto(w, "store_result", "segfault")
       /\ ~task[cur[w]].result
       /\ UNCHANGED <<syncVars, queueVars, ownerVars, history, taskVars, cur, call>>

WorkerLockFinish(w) == Lock(w, "lock_finish", "finish")

\* Mutant of WorkerFinish: no sem_post.
WorkerFinishSilent(w) ==
    LET t == cur[w]
    IN  /\ Goto(w, "finish", "while")
        /\ pool' = IF task[t].timedout THEN <<t>> \o pool ELSE pool
        /\ task' = [task EXCEPT ![t].completed = ~task[t].timedout]
        /\ UNCHANGED sem
        /\ Forget(w)
        /\ Unlock
        /\ UNCHANGED <<tokens, pending, heap, ownerVars, history, call>>

\* Mutant of WorkerFinish: every finished task goes back to the pool.
WorkerFinishPools(w) ==
    LET t == cur[w]
    IN  /\ Goto(w, "finish", "while")
        /\ pool' = <<t>> \o pool
        /\ task' = [task EXCEPT ![t].completed = ~task[t].timedout]
        /\ sem' = [sem EXCEPT ![t] = IF task[t].timedout THEN @ ELSE @ + 1]
        /\ Forget(w)
        /\ Unlock
        /\ UNCHANGED <<tokens, pending, heap, ownerVars, history, call>>

\* A task that timed out goes back to the pool; any other is completed and signalled.
WorkerFinish(w) ==
    LET t == cur[w]
    IN  /\ Goto(w, "finish", "while")
        /\ \/ /\ task[t].timedout
              /\ pool' = <<t>> \o pool
              /\ UNCHANGED taskVars
           \/ /\ ~task[t].timedout
              /\ task' = [task EXCEPT ![t].completed = TRUE]
              /\ sem' = [sem EXCEPT ![t] = @ + 1]
              /\ UNCHANGED pool
        /\ Forget(w)
        /\ Unlock
        /\ UNCHANGED <<tokens, pending, heap, ownerVars, history, call>>

-----------------------------------------------------------------------------
(* worker_thread_pool_enqueue, called by client c.                         *)

\* Callers use the pool between worker_thread_pool_init and worker_thread_pool_dealloc.
Enqueue(c, timeout, result) ==
    /\ phase = "up"
    /\ call[c].n < MaxCalls
    /\ Goto(c, "idle", "lock_add")
    /\ call' = [call EXCEPT ![c] = [timeout |-> timeout, result |-> result, n |-> @.n + 1,
                                    wait_error |-> "0"]]
    /\ UNCHANGED <<syncVars, queueVars, ownerVars, history, taskVars, cur>>

EnqueueLockAdd(c) == Lock(c, "lock_add", "add")

\* Mutant of QueueFull: one task too many.
QueueFullLate == Len(pending) > MaxQueueSize

QueueFull == Len(pending) >= MaxQueueSize

JobOf(c) == <<c, call[c].n>>

\* What the call returns for its job.
Answered(c, a) == answer' = [answer EXCEPT ![JobOf(c)] = a]

\* Mutant of EnqueueFull: an early return without the unlock.
EnqueueFullLocked(c) == /\ Goto(c, "add", "idle")
                        /\ QueueFull
                        /\ Answered(c, "full")
                        /\ UNCHANGED <<syncVars, queueVars, ownerVars, taskVars, cur, call,
                                       accepted, done, written>>

\* WORKER_THREAD_POOL_ERROR_QUEUE_FULL
EnqueueFull(c) == /\ Goto(c, "add", "idle")
                  /\ QueueFull
                  /\ Answered(c, "full")
                  /\ Unlock
                  /\ UNCHANGED <<tokens, queueVars, ownerVars, taskVars, cur, call,
                                 accepted, done, written>>

\* WORKER_THREAD_POOL_ERROR: sem_init fails on a task just allocated, which is freed.
EnqueueSemInitFails(c) == /\ Goto(c, "add", "idle")
                          /\ ~QueueFull
                          /\ pool = <<>>
                          /\ Answered(c, "error")
                          /\ Unlock
                          /\ UNCHANGED <<tokens, queueVars, ownerVars, taskVars, cur, call,
                                         accepted, done, written>>

\* The fields set on every task.
Filled(c) == [job |-> JobOf(c), result |-> call[c].result, timedout |-> FALSE,
              completed |-> FALSE]

AppendTask(c, t) == /\ Goto(c, "add", "post")
                    /\ ~QueueFull
                    /\ accepted' = accepted \union {JobOf(c)}
                    /\ task' = [task EXCEPT ![t] = Filled(c)]
                    /\ pending' = Append(pending, t)
                    /\ cur' = [cur EXCEPT ![c] = t]
                    /\ Unlock
                    /\ UNCHANGED <<tokens, ownerVars, call, done, answer, written>>

EnqueueMalloc(c) == \E t \in Tasks \ heap : /\ pool = <<>>
                                            /\ heap' = heap \union {t}
                                            /\ UNCHANGED pool
                                            /\ sem' = [sem EXCEPT ![t] = 0]
                                            /\ AppendTask(c, t)

\* The semaphore of a pooled task is not initialised again.
EnqueueReuse(c) == /\ pool # <<>>
                   /\ pool' = Tail(pool)
                   /\ UNCHANGED <<heap, sem>>
                   /\ AppendTask(c, Head(pool))

\* Mutant of EnqueuePost: tasks_semaphore is used as a flag, posted only when it is 0.
EnqueuePostFlag(c) ==
    /\ tokens' = 1
    /\ Goto(c, "post", IF call[c].timeout = "none" THEN "idle"
                       ELSE IF call[c].timeout = "infinite" THEN "wait" ELSE "timed_wait")
    /\ IF call[c].timeout = "none" THEN Answered(c, "detached") /\ Forget(c)
                                   ELSE UNCHANGED <<answer, cur>>
    /\ UNCHANGED <<mutex, queueVars, ownerVars, taskVars, call, accepted, done, written>>

\* sem_post(&pool->tasks_semaphore) after the unlock; with timeout 0 the call ends here.
EnqueuePost(c) ==
    /\ tokens' = tokens + 1
    /\ \/ /\ call[c].timeout = "none"
          /\ Goto(c, "post", "idle")
          /\ Answered(c, "detached")
          /\ Forget(c)
       \/ /\ call[c].timeout = "infinite"
          /\ Goto(c, "post", "wait")
          /\ UNCHANGED <<answer, cur>>
       \/ /\ call[c].timeout = "finite"
          /\ Goto(c, "post", "timed_wait")
          /\ UNCHANGED <<answer, cur>>
    /\ UNCHANGED <<mutex, queueVars, ownerVars, taskVars, call, accepted, done, written>>

TaskSignalled(c) == /\ sem[cur[c]] > 0
                    /\ sem' = [sem EXCEPT ![cur[c]] = @ - 1]
                    /\ UNCHANGED task

\* sem_wait(&task->semaphore)
EnqueueWaited(c) == /\ Goto(c, "wait", "idle")
                    /\ TaskSignalled(c)
                    /\ Answered(c, "success")
                    /\ Forget(c)
                    /\ UNCHANGED <<syncVars, queueVars, ownerVars, call,
                                   accepted, done, written>>

\* sem_timedwait(&task->semaphore, &ts_timeout): signalled, or the timeout has passed.
EnqueueSignalled(c) == /\ Goto(c, "timed_wait", "lock_decide")
                       /\ TaskSignalled(c)
                       /\ UNCHANGED <<syncVars, queueVars, ownerVars, history, cur, call>>

EnqueueTimedOut(c) == /\ Goto(c, "timed_wait", "lock_decide")
                      /\ sem[cur[c]] = 0
                      /\ call' = [call EXCEPT ![c].wait_error = "ETIMEDOUT"]
                      /\ UNCHANGED <<syncVars, queueVars, ownerVars, history, taskVars, cur>>

EnqueueLockDecide(c) == Lock(c, "lock_decide", "decide")

\* Mutants of EnqueueDecide: a task that timed out is pooled by the client, and a
\* completed task is pooled by the client (so that it does not leak).
EnqueueDecideWith(c, addBack) ==
    LET t == cur[c]
        timedOut == ~task[t].completed /\ call[c].wait_error = "ETIMEDOUT"
    IN  /\ Goto(c, "decide", "idle")
        /\ task' = IF timedOut THEN [task EXCEPT ![t].result = FALSE, ![t].timedout = TRUE]
                               ELSE task
        /\ pool' = IF addBack THEN <<t>> \o pool ELSE pool
        /\ Answered(c, IF timedOut THEN "timeout" ELSE "success")
        /\ Forget(c)
        /\ Unlock
        /\ UNCHANGED <<tokens, pending, heap, sem, ownerVars, call, accepted, done, written>>
EnqueueDecidePools(c) == EnqueueDecideWith(c, ~task[cur[c]].completed)
EnqueueDecidePoolsCompleted(c) == EnqueueDecideWith(c, task[cur[c]].completed)

\* Completed: success whatever the wait said.  Signalled but not completed: success,
\* and the task is pooled.  Timed out: the task is left to the worker.
EnqueueDecide(c) ==
    LET t == cur[c]
        timedOut == ~task[t].completed /\ call[c].wait_error = "ETIMEDOUT"
        addBack == ~task[t].completed /\ call[c].wait_error = "0"
    IN  /\ Goto(c, "decide", "idle")
        /\ task' = IF timedOut THEN [task EXCEPT ![t].result = FALSE, ![t].timedout = TRUE]
                               ELSE task
        /\ pool' = IF addBack THEN <<t>> \o pool ELSE pool
        /\ Answered(c, IF timedOut THEN "timeout" ELSE "success")
        /\ Forget(c)
        /\ Unlock
        /\ UNCHANGED <<tokens, pending, heap, sem, ownerVars, call, accepted, done, written>>

-----------------------------------------------------------------------------
(* worker_thread_pool_init and worker_thread_pool_dealloc, called by the   *)
(* thread that owns the pool.                                              *)

CreateThread(w) == /\ phase = "creating"
                   /\ Goto(w, "unborn", "while")
                   /\ running' = [running EXCEPT ![w] = TRUE]
                   /\ UNCHANGED <<syncVars, queueVars, history, taskVars, cur, call, phase>>

InitDone == /\ phase = "creating"
            /\ \A w \in Workers : pc[w] # "unborn"
            /\ phase' = "up"
            /\ UNCHANGED <<pc, syncVars, queueVars, history, taskVars, cur, call, running>>

\* pthread_create fails for one of the threads: worker_thread_pool_dealloc is called.
InitFails == /\ phase = "creating"
             /\ \E w \in Workers : pc[w] = "unborn"
             /\ running' = [w \in Workers |-> FALSE]
             /\ phase' = "waking"
             /\ UNCHANGED <<pc, syncVars, queueVars, history, taskVars, cur, call>>

\* running = 0 for every thread.  The owner first stops the threads that use the pool.
Dealloc == /\ phase = "up"
           /\ \A c \in Clients : pc[c] = "idle"
           /\ running' = [w \in Workers |-> FALSE]
           /\ phase' = "waking"
           /\ UNCHANGED <<pc, syncVars, queueVars, history, taskVars, cur, call>>

\* One sem_post for each thread.
DeallocWake == /\ phase = "waking"
               /\ tokens' = tokens + Cardinality(Workers)
               /\ phase' = "joining"
               /\ UNCHANGED <<pc, mutex, queueVars, history, taskVars, cur, call, running>>

\* Mutant of DeallocFree: threads that were never created are joined as well.
DeallocFreeJoinsAll == /\ phase = "joining"
                       /\ \A w \in Workers : pc[w] = "exited"
                       /\ phase' = "down"
                       /\ heap' = {}
                       /\ pool' = <<>>
                       /\ pending' = <<>>
                       /\ UNCHANGED <<pc, syncVars, history, taskVars, cur, call, running>>

\* pthread_join of every thread that was created, then the lists are freed.
DeallocFree == /\ phase = "joining"
               /\ \A w \in Workers : pc[w] \in {"unborn", "exited"}
               /\ heap' = heap \ (Elements(pool) \union Elements(pending))
               /\ pool' = <<>>
               /\ pending' = <<>>
               /\ phase' = "down"
               /\ UNCHANGED <<pc, syncVars, history, taskVars, cur, call, running>>

-----------------------------------------------------------------------------
Worker(w) == \/ WorkerLoop(w) \/ WorkerLockLook(w) \/ WorkerSignalled(w) \/ WorkerTimedOut(w)
             \/ WorkerWoken(w) \/ WorkerLockTake(w) \/ WorkerNoWork(w) \/ WorkerDequeue(w)
             \/ WorkerCallback(w) \/ WorkerCheckResult(w) \/ WorkerStoreResult(w)
             \/ WorkerLockFinish(w) \/ WorkerFinish(w)

\* The steps of a call of worker_thread_pool_enqueue after its first.
Returning(c) == \/ EnqueueLockAdd(c) \/ EnqueueFull(c) \/ EnqueueSemInitFails(c)
                \/ EnqueueMalloc(c) \/ EnqueueReuse(c) \/ EnqueuePost(c) \/ EnqueueWaited(c)
                \/ EnqueueSignalled(c) \/ EnqueueTimedOut(c) \/ EnqueueLockDecide(c)
                \/ EnqueueDecide(c)

Client(c) == \/ \E timeout \in Timeouts, result \in ResultPointers : Enqueue(c, timeout, result)
             \/ Returning(c)

Owner == \/ \E w \in Workers : CreateThread(w)
         \/ InitDone \/ InitFails \/ Dealloc \/ DeallocWake \/ DeallocFree

\* A store through NULL ends the process.
Crashed == \E w \in Workers : pc[w] = "segfault"

Stopped == phase = "down" \/ Crashed

Next == \/ /\ ~Crashed
           /\ \/ \E w \in Workers : Worker(w)
              \/ \E c \in Clients : Client(c)
              \/ Owner
        \/ Stopped /\ UNCHANGED vars

Spec == Init /\ [][Next]_vars

\* Every thread inside a worker or a call is scheduled; what it waits for may keep
\* it waiting.  A callback returns.  A lock that is free again and again is eventually
\* taken by a thread that asks for it: between two critical sections the other
\* threads run callbacks, sleep in sem_timedwait or return to their callers.
FairSpec == /\ Spec
            /\ \A w \in Workers : /\ WF_vars(~Crashed /\ Worker(w))
                                  /\ SF_vars(~Crashed /\ WorkerLockFinish(w))
            /\ \A c \in Clients : /\ WF_vars(~Crashed /\ Returning(c))
                                  /\ SF_vars(~Crashed /\ EnqueueLockAdd(c))
                                  /\ SF_vars(~Crashed /\ EnqueueLockDecide(c))
            /\ WF_vars(~Crashed /\ (DeallocWake \/ DeallocFree))

-----------------------------------------------------------------------------
(* Properties.                                                             *)

\* The tasks worker w holds between taking them from the queue and finishing them.
HoldingPCs == {"callback", "check_result", "store_result", "lock_finish", "finish", "segfault"}

\* The steps of a call during which the client still uses its task.
WaitingPCs == {"post", "wait", "timed_wait", "lock_decide", "decide"}

\* Each variable has its type (the fields of worker_thread_pool, worker_thread_pool_task
\* and the locals of the functions of worker_thread_pool.c).
TypeOK == /\ pc \in [Threads -> WorkerPCs \union ClientPCs]
          /\ \A w \in Workers : pc[w] \in WorkerPCs
          /\ \A c \in Clients : pc[c] \in ClientPCs
          /\ mutex \in Threads \union {NoOne}
          /\ running \in [Workers -> BOOLEAN]
          /\ tokens \in Nat
          /\ pending \in Seq(Tasks) /\ Len(pending) <= MaxQueueSize
          /\ pool \in Seq(Tasks)
          /\ heap \subseteq Tasks
          /\ task \in [Tasks -> Task]
          /\ sem \in [Tasks -> Nat]
          /\ cur \in [Threads -> Tasks \union {NoOne}]
          /\ call \in [Clients -> Call]
          /\ phase \in {"creating", "up", "waking", "joining", "down"}
          /\ accepted \subseteq Jobs
          /\ done \subseteq Jobs
          /\ answer \in [Jobs -> {"none", "success", "timeout", "detached", "full", "error"}]
          /\ written \subseteq Jobs

\* A thread owns tasks_mutex exactly while it is in one of the critical sections: no
\* early return, break or continue of the two functions leaves it locked, and none
\* of the steps that use the lists is reached without it.
LockDiscipline == \A t \in Threads : pc[t] \in CriticalPCs <=> mutex = t

\* A task structure is in one place: pending, pooled or held by one worker, and each
\* list holds it once.  A task in two places would be run twice or reused while it runs.
TaskInOnePlace ==
    /\ Distinct(pending) /\ Distinct(pool)
    /\ Elements(pending) \intersect Elements(pool) = {}
    /\ \A w \in Workers : pc[w] \in HoldingPCs =>
          /\ cur[w] \notin Elements(pending) \union Elements(pool)
          /\ \A v \in Workers : v # w /\ pc[v] \in HoldingPCs => cur[v] # cur[w]

\* The task a client waits on is its own until its call returns: it is not pooled, it
\* still carries the client's job, and no other client waits on it.
WaitedTaskIsOwn ==
    \A c \in Clients : pc[c] \in WaitingPCs =>
        /\ cur[c] \notin Elements(pool)
        /\ task[cur[c]].job = JobOf(c)
        /\ ~task[cur[c]].timedout

\* A pooled task's semaphore is 0: enqueue reuses it without initialising it again, so
\* a token left there would end the next call's wait before its job has run.
PooledTasksAreClean == \A t \in Elements(pool) : sem[t] = 0

\* A wait that sem_timedwait ends with success finds the task completed (so the branch
\* of enqueue for "signalled but not completed" is never taken).
SignalledMeansCompleted ==
    \A c \in Clients : pc[c] \in {"lock_decide", "decide"} /\ call[c].wait_error = "0" =>
        task[cur[c]].completed

\* While the pool runs, every pending task has a token, a client about to post one or a
\* worker that has woken and not yet looked at the queue: no wakeup is lost, although
\* the post comes after the unlock and workers take tasks without taking tokens.
NoLostWakeup ==
    phase = "up" =>
        Len(pending) <= tokens
                        + Cardinality({c \in Clients : pc[c] = "post"})
                        + Cardinality({w \in Workers : pc[w] \in {"woken", "lock_take", "take"}})

\* When a task is no longer pending nor held, the client waiting on it has its token.
NoLostCompletion ==
    \A c \in Clients : pc[c] \in {"post", "wait", "timed_wait"} =>
        \/ cur[c] \in Elements(pending)
        \/ \E w \in Workers : pc[w] \in HoldingPCs /\ cur[w] = cur[c]
        \/ sem[cur[c]] = 1

\* A call with a callback_result that returned "success" after waiting has had its
\* result stored.
ResultIsDelivered ==
    \A c \in Clients : pc[c] = "idle" /\ call[c].n > 0 /\ call[c].result
                       /\ answer[JobOf(c)] = "success" => JobOf(c) \in written

\* The pool implements JobQueue.
JQ == INSTANCE JobQueue WITH
          NumThreads <- Cardinality(Workers),
          queue <- [i \in 1..Len(pending) |-> task[pending[i]].job],
          executing <- {task[cur[w]].job : w \in {v \in Workers : pc[v] = "callback"}},
          open <- phase \in {"creating", "up"}

ImplementsJobQueue == JQ!Spec

\* With fairness: while the pool is up every accepted job is executed.
ImplementsFairJobQueue == JQ!FairSpec

\* Every call returns, whatever its timeout.
CallsReturn == \A c \in Clients : pc[c] # "idle" ~> pc[c] = "idle" \/ Crashed

\* worker_thread_pool_dealloc returns: every worker sees running = 0 and is joined.
DeallocReturns == phase = "waking" ~> phase = "down" \/ Crashed

\* worker_thread_pool.c:276, "result pointer may now be invalid, the caller moved on":
\* no result is stored for a call that has returned a timeout.
NoResultAfterTimeout == [][\A j \in written' \ written : answer[j] # "timeout"]_vars

\* worker_thread_pool.h:79, worker_thread_pool_dealloc "Frees all resources."
DeallocFreesAll == phase = "down" => heap = {}
=============================================================================
