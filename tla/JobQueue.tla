------------------------------ MODULE JobQueue ------------------------------
(***************************************************************************)
(* What worker_thread_pool promises the code that calls it, with no        *)
(* threads, locks or semaphores: jobs are accepted into a bounded queue,   *)
(* leave it in the order of their acceptance, are executed once, and each  *)
(* call of worker_thread_pool_enqueue is answered once.  An answer         *)
(* "success" means the job has been executed; "timeout" and "detached"     *)
(* (a call with timeout 0, which does not wait) say nothing of it.  At     *)
(* most NumThreads jobs are executing at once.  WorkerThreadPool is shown  *)
(* to implement this specification, and HttpServer uses it.                *)
(***************************************************************************)
EXTENDS Naturals, Sequences, FiniteSets

CONSTANTS NumThreads,    \* the num_threads given to worker_thread_pool_init
          MaxQueueSize,  \* the queue_size given to worker_thread_pool_init
          Jobs           \* the calls of worker_thread_pool_enqueue

VARIABLES accepted,   \* the jobs accepted into the queue
          queue,      \* the jobs waiting to be executed
          executing,  \* the jobs being executed
          done,       \* the jobs whose execution has ended
          answer,     \* what the call that submitted a job returned
          open        \* FALSE once worker_thread_pool_dealloc has been called

vars == <<accepted, queue, executing, done, answer, open>>

Answers == {"none", "success", "timeout", "detached", "full", "error"}

Init == /\ accepted = {}
        /\ queue = <<>>
        /\ executing = {}
        /\ done = {}
        /\ answer = [j \in Jobs |-> "none"]
        /\ open = TRUE

Accept(j) == /\ open
             /\ j \notin accepted
             /\ answer[j] = "none"
             /\ Len(queue) < MaxQueueSize
             /\ accepted' = accepted \union {j}
             /\ queue' = Append(queue, j)
             /\ UNCHANGED <<executing, done, answer, open>>

\* A job is refused as "full" only when the queue is.
Refuse(j, a) == /\ open
                /\ j \notin accepted
                /\ answer[j] = "none"
                /\ a \in {"full", "error"}
                /\ a = "full" => Len(queue) = MaxQueueSize
                /\ answer' = [answer EXCEPT ![j] = a]
                /\ UNCHANGED <<accepted, queue, executing, done, open>>

Start == /\ queue # <<>>
         /\ Cardinality(executing) < NumThreads
         /\ executing' = executing \union {Head(queue)}
         /\ queue' = Tail(queue)
         /\ UNCHANGED <<accepted, done, answer, open>>

Finish(j) == /\ j \in executing
             /\ executing' = executing \ {j}
             /\ done' = done \union {j}
             /\ UNCHANGED <<accepted, queue, answer, open>>

Answer(j, a) == /\ j \in accepted
                /\ answer[j] = "none"
                /\ a \in {"success", "timeout", "detached"}
                /\ a = "success" => j \in done
                /\ answer' = [answer EXCEPT ![j] = a]
                /\ UNCHANGED <<accepted, queue, executing, done, open>>

\* The caller closes the queue when none of its calls is waiting for an answer.
Close == /\ open
         /\ \A j \in accepted : answer[j] # "none"
         /\ open' = FALSE
         /\ UNCHANGED <<accepted, queue, executing, done, answer>>

\* What is still queued when the queue has closed is never executed.
Discard == /\ ~open
           /\ executing = {}
           /\ queue' = <<>>
           /\ UNCHANGED <<accepted, executing, done, answer, open>>

Next == \/ \E j \in Jobs : Accept(j) \/ Finish(j)
        \/ \E j \in Jobs, a \in Answers : Refuse(j, a) \/ Answer(j, a)
        \/ Start
        \/ Close
        \/ Discard

Spec == Init /\ [][Next]_vars

\* While the queue is open its head is eventually taken, and what is executing ends.
FairSpec == /\ Spec
            /\ WF_vars(open /\ Start)
            /\ \A j \in Jobs : WF_vars(Finish(j))
=============================================================================
