----------------------------- MODULE HttpServer -----------------------------
(***************************************************************************)
(* The server of src/shared/http.c: the thread of TcpSocketWrapper accepts *)
(* connections and gives each, with a task_data taken from the server's    *)
(* pool, to the worker threads; a worker parses the request, calls the     *)
(* handler and finalizes the task (writes the response, closes the         *)
(* descriptor, returns the task_data to the pool).  worker_thread_pool is  *)
(* used through JobQueue, the specification WorkerThreadPool implements:   *)
(* the job of a connection is the call of http_server_task for it.         *)
(*                                                                         *)
(* The accepting thread waits inside worker_thread_pool_enqueue.  When     *)
(* that call fails or times out it finalizes the task itself, and after a  *)
(* timeout a worker may still be using the same task_data.  One action is  *)
(* one step of one thread between two such accesses.                       *)
(*                                                                         *)
(* The contents of a message are abstracted to the connection they answer  *)
(* and the status.  Writing to a descriptor that is shut down, or whose    *)
(* client is gone, raises SIGPIPE, which the program does not handle.      *)
(***************************************************************************)
EXTENDS TcpSocketWrapper, Lists, FiniteSets

CONSTANTS Datas,         \* the addresses malloc can return for a task_data
          NumThreads,    \* num_threads
          MaxQueueSize,  \* queue_size
          Timeouts,      \* the values of server->timeout: "infinite" (-1), "none" (0), "finite"
          Impatient,     \* the connections whose client may hang up early
          MayHang        \* the connections whose handler may not return

ASSUME DataAssumption == NoOne \notin Datas /\ IsFiniteSet(Datas)
ASSUME TimeoutAssumption == Timeouts \subseteq {"infinite", "none", "finite"}

VARIABLES accepted, queue, executing, done, answer, open,  \* the worker thread pool (JobQueue)
          timeout,     \* server->timeout
          owner,       \* how far http_server_init or http_server_dealloc has come
          accepting,   \* where the accepting thread is in http_server_socket_accept
          serving,     \* the connection it was called with
          taskData,    \* its local task_data
          worker,      \* where the worker is that executes the job of a connection
          jobData,     \* the data pointer passed with that job
          data,        \* the contents of each task_data
          next,        \* task_data->next
          taskPool,    \* server->task_pool
          heap,        \* the task_data allocated and not freed
          shut,        \* the connections on which shutdown() has been called
          gone,        \* the connections whose client has hung up
          sent,        \* the responses written to each connection
          alive,       \* FALSE once SIGPIPE has ended the process
          hanging      \* the connections whose handler does not return

poolVars == <<accepted, queue, executing, done, answer, open>>
dataVars == <<data, next, taskPool, heap>>
kernelVars == <<shut, gone, sent, alive>>
environment == <<timeout, hanging>>
acceptVars == <<accepting, serving, taskData>>
threadVars == <<acceptVars, worker, jobData>>
vars == <<tcpVars, poolVars, environment, owner, threadVars, dataVars, kernelVars>>

Pool == INSTANCE JobQueue WITH Jobs <- Conns

\* The values of worker_thread_pool_error: two of the names have the same one.
SUCCESS == 0
ERROR == 1
ERROR_QUEUE_FULL == 1
ERROR_TIMEOUT == 2

ErrorOf(a) == CASE a = "timeout" -> ERROR_TIMEOUT
                [] a = "full" -> ERROR_QUEUE_FULL
                [] a = "error" -> ERROR
                [] OTHER -> SUCCESS

\* Mutant of StatusOf: "Bad Gateway" for a full queue.
StatusOfGateway(error) == CASE error = ERROR_QUEUE_FULL -> 502
                            [] error = ERROR_TIMEOUT -> 503
                            [] OTHER -> 500

\* What http_server_socket_accept responds, tested in the order of its switch.
StatusOf(error) == CASE error = ERROR_QUEUE_FULL -> 503
                     [] error = ERROR_TIMEOUT -> 503
                     [] OTHER -> 500

AcceptingPCs == {"none", "enqueue", "waiting", "respond", "write", "shutdown", "close", "push"}
WorkerPCs == {"none", "parse", "handle", "write", "shutdown", "close", "push"}

Response == [about : Conns \union {NoOne}, status : {200, 400, 500, 503}]
Data == [socket : Fds \union {NoOne}, request : Conns \union {NoOne}, response : Response]

Init == /\ TcpInit
        /\ Pool!Init
        /\ timeout \in Timeouts
        /\ hanging \in SUBSET MayHang
        /\ owner = "tcp_init"
        /\ accepting = "none"
        /\ serving = NoOne
        /\ taskData = NoOne
        /\ worker = [c \in Conns |-> "none"]
        /\ jobData = [c \in Conns |-> NoOne]
        /\ data = [d \in Datas |-> [socket |-> NoOne, request |-> NoOne,
                                    response |-> [about |-> NoOne, status |-> 200]]]
        /\ next = [d \in Datas |-> NoOne]
        /\ taskPool = NoOne
        /\ heap = {}
        /\ shut = {}
        /\ gone = {}
        /\ sent = [c \in Conns |-> <<>>]
        /\ alive = TRUE

-----------------------------------------------------------------------------
(* The clients.                                                            *)

\* Clients connect once http_server_init has returned.
Connect(c) == /\ owner = "up"
              /\ ClientConnects(c)
              /\ UNCHANGED <<poolVars, environment, owner, threadVars, dataVars, kernelVars>>

HangUp(c) == /\ c \in (Impatient \intersect arrived) \ gone
             /\ gone' = gone \union {c}
             /\ UNCHANGED <<tcpVars, poolVars, environment, owner, threadVars, dataVars,
                            shut, sent, alive>>

-----------------------------------------------------------------------------
(* http_server_finalize_task, for the accepting thread and for the workers.*)

\* http_response_write: a closed descriptor is an error, which is logged.
WriteResponse(d) ==
    LET c == fd[data[d].socket]
    IN  /\ \/ /\ c = NoOne
              /\ UNCHANGED <<sent, alive>>
           \/ /\ c # NoOne
              /\ c \notin shut
              /\ sent' = [sent EXCEPT ![c] = Append(@, data[d].response)]
              /\ UNCHANGED alive
           \/ /\ c \in shut \union gone
              /\ alive' = FALSE
              /\ UNCHANGED sent
        /\ UNCHANGED <<shut, gone>>

\* shutdown(data->socket, SHUT_RDWR)
ShutDown(d) == /\ shut' = shut \union ({fd[data[d].socket]} \ {NoOne})
               /\ UNCHANGED <<gone, sent, alive>>

\* stream_dealloc(&data->socket_stream) closes the descriptor.
CloseDescriptor(d) == fd' = [fd EXCEPT ![data[d].socket] = NoOne]

\* Put the task_data on the pool, under task_pool_mutex.
PushTaskData(d) == /\ next' = [next EXCEPT ![d] = taskPool]
                   /\ taskPool' = d
                   /\ UNCHANGED <<data, heap>>

-----------------------------------------------------------------------------
(* http_server_task, executed by a worker for connection c.                *)

AtWorker(c, from, to) == worker[c] = from /\ worker' = [worker EXCEPT ![c] = to]

Respond(d, about, status) ==
    data' = [data EXCEPT ![d].response = [about |-> about, status |-> status]]

\* A worker takes the first job of the queue.
StartTask == /\ Pool!Start
             /\ worker' = [worker EXCEPT ![Head(queue)] = "parse"]
             /\ UNCHANGED <<tcpVars, environment, owner, acceptVars, jobData,
                            dataVars, kernelVars>>

\* http_request_parse reads what the descriptor refers to.  It fails when that is
\* closed, shut down, left by its client or malformed.
Parse(c) ==
    LET d == jobData[c]
        from == fd[data[d].socket]
    IN  /\ \/ /\ AtWorker(c, "parse", "handle")
              /\ from \notin shut \union {NoOne}
              /\ data' = [data EXCEPT ![d].request = from,
                                      ![d].response = [about |-> NoOne, status |-> 200]]
           \/ /\ AtWorker(c, "parse", "write")
              /\ Respond(d, c, 400)
        /\ UNCHANGED <<tcpVars, poolVars, environment, owner, acceptVars, jobData,
                       next, taskPool, heap, kernelVars>>

\* server->callback fills in the response to the request, or fails.
Handle(c) ==
    LET d == jobData[c]
    IN  /\ AtWorker(c, "handle", "write")
        /\ c \notin hanging
        /\ \E status \in {200, 500} : Respond(d, data[d].request, status)
        /\ UNCHANGED <<tcpVars, poolVars, environment, owner, acceptVars, jobData,
                       next, taskPool, heap, kernelVars>>

WorkerWrites(c) == /\ AtWorker(c, "write", "shutdown")
                   /\ WriteResponse(jobData[c])
                   /\ UNCHANGED <<tcpVars, poolVars, environment, owner, acceptVars,
                                  jobData, dataVars>>

WorkerShutsDown(c) == /\ AtWorker(c, "shutdown", "close")
                      /\ ShutDown(jobData[c])
                      /\ UNCHANGED <<tcpVars, poolVars, environment, owner, acceptVars,
                                     jobData, dataVars>>

\* Mutant of WorkerCloses: the stream does not own the descriptor (should_close is 0).
WorkerClosesNot(c) == /\ AtWorker(c, "close", "push")
                      /\ UNCHANGED <<tcpVars, poolVars, environment, owner, acceptVars, jobData,
                                     dataVars, kernelVars>>

WorkerCloses(c) == /\ AtWorker(c, "close", "push")
                   /\ CloseDescriptor(jobData[c])
                   /\ UNCHANGED <<running, socket, thread, current, arrived, backlog, poolVars,
                                  environment, owner, acceptVars, jobData, dataVars,
                                  kernelVars>>

\* Mutant of WorkerPushes: the task_data is not returned.
WorkerPushesNot(c) == /\ AtWorker(c, "push", "none")
                      /\ UNCHANGED dataVars
                      /\ Pool!Finish(c)
                      /\ UNCHANGED <<tcpVars, environment, owner, acceptVars, jobData, kernelVars>>

\* The task_data is returned, and the callback of the pool returns.
WorkerPushes(c) == /\ AtWorker(c, "push", "none")
                   /\ PushTaskData(jobData[c])
                   /\ Pool!Finish(c)
                   /\ UNCHANGED <<tcpVars, environment, owner, acceptVars, jobData,
                                  kernelVars>>

-----------------------------------------------------------------------------
(* http_server_socket_accept, called by the accepting thread.              *)

AtAccepting(from, to) == accepting = from /\ accepting' = to

\* Mutant of TakeTaskData: the one taken stays on the pool.
TakeTaskDataKeeps(d) == \/ d = taskPool /\ UNCHANGED <<taskPool, heap>>
                        \/ /\ taskPool = NoOne
                           /\ d \in Datas \ heap
                           /\ heap' = heap \union {d}
                           /\ UNCHANGED taskPool

\* The task_data for a connection: the first of the pool or a new one.
TakeTaskData(d) == \/ /\ taskPool # NoOne
                      /\ d = taskPool
                      /\ taskPool' = next[d]
                      /\ UNCHANGED heap
                   \/ /\ taskPool = NoOne
                      /\ d \in Datas \ heap
                      /\ heap' = heap \union {d}
                      /\ UNCHANGED taskPool

\* Mutant of AcceptConnection: a reused task_data keeps its socket.
AcceptConnectionStale(c, f, d) ==
    /\ accepting = "none"
    /\ accepting' = "enqueue"
    /\ Accept(c, f)
    /\ TakeTaskData(d)
    /\ serving' = c
    /\ taskData' = d
    /\ data' = IF d \in heap THEN data ELSE [data EXCEPT ![d].socket = f]
    /\ UNCHANGED <<poolVars, environment, owner, worker, jobData, next, kernelVars>>

\* The callback is called: a task_data is taken and told its socket.
AcceptConnection(c, f, d) ==
    /\ AtAccepting("none", "enqueue")
    /\ Accept(c, f)
    /\ TakeTaskData(d)
    /\ serving' = c
    /\ taskData' = d
    /\ data' = [data EXCEPT ![d].socket = f]
    /\ UNCHANGED <<poolVars, environment, owner, worker, jobData, next, kernelVars>>

\* worker_thread_pool_enqueue accepts the job.
Enqueue == /\ AtAccepting("enqueue", "waiting")
           /\ Pool!Accept(serving)
           /\ jobData' = [jobData EXCEPT ![serving] = taskData]
           /\ UNCHANGED <<tcpVars, environment, owner, serving, taskData, worker, dataVars,
                          kernelVars>>

\* worker_thread_pool_enqueue refuses it: the queue is full, or another error.
EnqueueRefused == /\ AtAccepting("enqueue", "respond")
                  /\ \E a \in {"full", "error"} : Pool!Refuse(serving, a)
                  /\ UNCHANGED <<tcpVars, environment, owner, serving, taskData, worker, jobData,
                                 dataVars, kernelVars>>

\* How worker_thread_pool_enqueue can end for each timeout.
Endings == CASE timeout = "infinite" -> {"success"}
             [] timeout = "none" -> {"detached"}
             [] timeout = "finite" -> {"success", "timeout"}

\* Mutant of EnqueueReturns: "break" where the code has "return".
EnqueueReturnsFallsThrough(a) ==
    /\ AtAccepting("waiting", "respond")
    /\ a \in Endings
    /\ Pool!Answer(serving, a)
    /\ UNCHANGED <<tcpVars, environment, owner, serving, taskData, worker, jobData, dataVars,
                   kernelVars>>

\* Mutant of EnqueueReturns: the timeout is not passed on.
EnqueueReturnsForever(a) ==
    /\ a # "timeout"
    /\ a \in Endings
    /\ AtAccepting("waiting", "none")
    /\ CallbackReturns
    /\ Pool!Answer(serving, a)
    /\ UNCHANGED <<fd, environment, owner, serving, taskData, worker, jobData, dataVars, kernelVars>>

\* worker_thread_pool_enqueue returns after it accepted the job.
EnqueueReturns(a) ==
    /\ a \in Endings
    /\ Pool!Answer(serving, a)
    /\ \/ /\ ErrorOf(a) = SUCCESS
          /\ AtAccepting("waiting", "none")
          /\ CallbackReturns
          /\ UNCHANGED fd
       \/ /\ ErrorOf(a) # SUCCESS
          /\ AtAccepting("waiting", "respond")
          /\ UNCHANGED tcpVars
    /\ UNCHANGED <<environment, owner, serving, taskData, worker, jobData, dataVars, kernelVars>>

\* http_response_clear and http_response_set_status_code after an error.
RespondError == /\ AtAccepting("respond", "write")
                /\ Respond(taskData, serving, StatusOf(ErrorOf(answer[serving])))
                /\ UNCHANGED <<tcpVars, poolVars, environment, owner, serving, taskData, worker,
                               jobData, next, taskPool, heap, kernelVars>>

ErrorWrites == /\ AtAccepting("write", "shutdown")
               /\ WriteResponse(taskData)
               /\ UNCHANGED <<tcpVars, poolVars, environment, owner, serving, taskData, worker,
                              jobData, dataVars>>

ErrorShutsDown == /\ AtAccepting("shutdown", "close")
                  /\ ShutDown(taskData)
                  /\ UNCHANGED <<tcpVars, poolVars, environment, owner, serving, taskData, worker,
                                 jobData, dataVars>>

ErrorCloses == /\ AtAccepting("close", "push")
               /\ CloseDescriptor(taskData)
               /\ UNCHANGED <<running, socket, thread, current, arrived, backlog, poolVars,
                              environment, owner, serving, taskData, worker, jobData, dataVars,
                              kernelVars>>

ErrorPushes == /\ AtAccepting("push", "none")
               /\ PushTaskData(taskData)
               /\ CallbackReturns
               /\ UNCHANGED <<fd, poolVars, environment, owner, serving, taskData, worker, jobData,
                              kernelVars>>

-----------------------------------------------------------------------------
(* http_server_init and http_server_dealloc.                               *)

others == <<poolVars, environment, threadVars, dataVars, kernelVars>>

AtOwner(from, to) == owner = from /\ owner' = to

InitSocket == AtOwner("tcp_init", "pool_init") /\ TcpStart /\ UNCHANGED others

InitSocketFails == AtOwner("tcp_init", "failed") /\ UNCHANGED <<tcpVars, others>>

\* The pool and the mutex are initialised and task_pool is NULL.
InitPool == AtOwner("pool_init", "up") /\ UNCHANGED <<tcpVars, others>>

InitPoolFails == AtOwner("pool_init", "failing") /\ TcpStop /\ UNCHANGED others

InitFailed == AtOwner("failing", "failed") /\ TcpJoin /\ UNCHANGED others

Dealloc == AtOwner("up", "joining") /\ TcpStop /\ UNCHANGED others

DeallocSocket == AtOwner("joining", "pool_dealloc") /\ TcpJoin /\ UNCHANGED others

\* worker_thread_pool_dealloc: what is still queued is not executed.
DeallocPool == /\ AtOwner("pool_dealloc", "pool_joining")
               /\ Pool!Close
               /\ UNCHANGED <<tcpVars, environment, threadVars, dataVars, kernelVars>>

DeallocPoolJoined == /\ AtOwner("pool_joining", "free")
                     /\ Pool!Discard
                     /\ UNCHANGED <<tcpVars, environment, threadVars, dataVars, kernelVars>>

\* One turn of the loop that frees server->task_pool.  A list that comes back to
\* itself is freed twice, which ends the process.
DeallocTaskData == /\ owner = "free"
                   /\ taskPool # NoOne
                   /\ \/ /\ taskPool \in heap
                         /\ heap' = heap \ {taskPool}
                         /\ taskPool' = next[taskPool]
                         /\ UNCHANGED alive
                      \/ /\ taskPool \notin heap
                         /\ alive' = FALSE
                         /\ UNCHANGED <<heap, taskPool>>
                   /\ UNCHANGED <<tcpVars, poolVars, environment, owner, threadVars, data, next,
                                  shut, gone, sent>>

DeallocDone == /\ AtOwner("free", "down")
               /\ taskPool = NoOne
               /\ UNCHANGED <<tcpVars, others>>

-----------------------------------------------------------------------------
\* The steps of tcp_socket_wrapper_thread outside the callback.
Listening == /\ ThreadLoop \/ SelectTimesOut \/ SelectReady \/ AcceptFails
             /\ UNCHANGED <<others, owner>>

AcceptThread == \/ Listening
                \/ \E c \in Conns, f \in Fds, d \in Datas : AcceptConnection(c, f, d)
                \/ Enqueue \/ EnqueueRefused \/ RespondError
                \/ \E a \in {"success", "detached", "timeout"} : EnqueueReturns(a)
                \/ ErrorWrites \/ ErrorShutsDown \/ ErrorCloses \/ ErrorPushes

WorkerThread(c) == \/ Parse(c) \/ Handle(c)
                   \/ WorkerWrites(c) \/ WorkerShutsDown(c) \/ WorkerCloses(c) \/ WorkerPushes(c)

Stopping == \/ InitFailed \/ DeallocSocket \/ DeallocPool \/ DeallocPoolJoined
            \/ DeallocTaskData \/ DeallocDone

Main == InitSocket \/ InitSocketFails \/ InitPool \/ InitPoolFails \/ Dealloc \/ Stopping

\* The process has ended, or waits for a handler that never returns.
Stopped == \/ owner \in {"down", "failed"}
           \/ ~alive
           \/ \E c \in hanging : worker[c] = "handle"

Next == \/ /\ alive
           /\ \/ AcceptThread
              \/ StartTask
              \/ \E c \in Conns : WorkerThread(c) \/ Connect(c) \/ HangUp(c)
              \/ Main
        \/ Stopped /\ UNCHANGED vars

Spec == Init /\ [][Next]_vars

\* Every thread is scheduled, and takes what it waits for when it is there.  A client
\* sends its request or hangs up, and a handler that is not hanging returns.
FairSpec == /\ Spec
            /\ WF_vars(alive /\ AcceptThread)
            /\ WF_vars(alive /\ StartTask)
            /\ \A c \in Conns : WF_vars(alive /\ WorkerThread(c))
            /\ WF_vars(alive /\ Stopping)

-----------------------------------------------------------------------------
(* Properties.                                                             *)

\* Each variable has its type.
TypeOK == /\ TcpTypeOK
          /\ timeout \in {"infinite", "none", "finite"}
          /\ owner \in {"tcp_init", "pool_init", "up", "failing", "failed", "joining",
                        "pool_dealloc", "pool_joining", "free", "down"}
          /\ accepting \in AcceptingPCs
          /\ serving \in Conns \union {NoOne}
          /\ taskData \in Datas \union {NoOne}
          /\ worker \in [Conns -> WorkerPCs]
          /\ jobData \in [Conns -> Datas \union {NoOne}]
          /\ data \in [Datas -> Data]
          /\ next \in [Datas -> Datas \union {NoOne}]
          /\ taskPool \in Datas \union {NoOne}
          /\ heap \subseteq Datas
          /\ shut \subseteq Conns /\ gone \subseteq Conns
          /\ \A c \in Conns : \A i \in 1..Len(sent[c]) : sent[c][i] \in Response
          /\ alive \in BOOLEAN

\* No call of worker_thread_pool_enqueue has timed out.
NoTimeouts == \A c \in Conns : answer[c] # "timeout"

\* The n-th element of server->task_pool, NoOne after its end.
PoolElement[n \in 0..Cardinality(Datas)] ==
    IF n = 0 THEN taskPool
    ELSE IF PoolElement[n - 1] = NoOne THEN NoOne ELSE next[PoolElement[n - 1]]

Pooled == {PoolElement[n] : n \in 0..Cardinality(Datas)} \ {NoOne}

\* The connections whose task is queued or at a worker.
InPool == Elements(queue) \union {c \in Conns : worker[c] # "none"}

\* The accepting thread has a task_data it has not handed over.
Keeps == accepting \notin {"none", "waiting"}

\* Until a call times out, a task_data is in one place: on server->task_pool (which
\* ends), with the accepting thread, or with the job of one connection.
OneOwner ==
    NoTimeouts =>
        /\ PoolElement[Cardinality(Datas)] = NoOne
        /\ \A c \in InPool : /\ jobData[c] \notin Pooled
                             /\ \A b \in InPool : b # c => jobData[b] # jobData[c]
                             /\ Keeps => taskData # jobData[c]
        /\ Keeps => taskData \notin Pooled

\* Until a call times out, a thread that uses a task_data finds in it the descriptor of
\* the connection it serves, still open, although descriptors are used again.
OwnDescriptor ==
    NoTimeouts =>
        /\ \A c \in InPool : worker[c] # "push" => fd[data[jobData[c]].socket] = c
        /\ Keeps /\ accepting # "push" => fd[data[taskData].socket] = serving

\* Until a call times out, a connection gets at most one response, and it is the
\* response to its own request.
AnsweredOnce ==
    NoTimeouts => \A c \in Conns : /\ Len(sent[c]) <= 1
                                   /\ \A i \in 1..Len(sent[c]) : sent[c][i].about = c

\* The thread uses the listening socket only while it is open: tcp_socket_wrapper_dealloc
\* closes it after the join.
ListensWhileOpen == thread \in {"select", "accept"} => socket = "open"

\* When no call has timed out, http_server_dealloc leaves open and allocated what belongs
\* to the jobs that were still queued, and that only; with an infinite timeout the
\* queue is empty by then and nothing is left.
ShutdownReleases ==
    owner = "down" /\ NoTimeouts =>
        /\ {fd[f] : f \in Fds} \ {NoOne} = accepted \ done
        /\ heap = {jobData[c] : c \in accepted \ done}
        /\ timeout = "infinite" => accepted \subseteq done

\* A connection that is accepted is eventually closed, if all handlers return and no
\* call can time out; with no timeout the jobs queued at shutdown are abandoned.
EveryoneIsServed ==
    \A c \in Conns :
        timeout # "finite" /\ hanging = {} /\ (\E f \in Fds : fd[f] = c)
            ~> \/ \A f \in Fds : fd[f] # c
               \/ timeout = "none" /\ owner # "up"
               \/ ~alive

\* http.h:133, "the time wait on the server callback to return before sending back an
\* error response": whatever the handlers do, with a finite timeout (or with none) the
\* accepting thread returns to the listening socket.
AcceptingReturns ==
    timeout # "infinite" /\ accepting # "none" ~> accepting = "none" \/ ~alive

\* http_server_dealloc returns, if all handlers do.
DeallocReturns == owner = "joining" /\ hanging = {} ~> owner = "down" \/ ~alive

\* http.c:616-617, "if we're writing a timeout response this will cause future writes to
\* the socket to fail in the handler function ever finishes".
LateWritesFail ==
    [][\A c \in Conns : worker[c] = "write" /\ worker'[c] # "write"
                        /\ answer[c] = "timeout" /\ serving # c => sent' = sent]_vars
=============================================================================
