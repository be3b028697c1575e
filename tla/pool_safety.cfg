\* Three clients, two workers: more than fit the queue and the workers at once, and later
\* calls that reuse the tasks of calls that timed out.
SPECIFICATION Spec
CONSTANTS
    NoOne = NoOne
    Workers = {w1, w2}
    Clients = {c1, c2, c3}
    Tasks = {t1, t2, t3}
    MaxQueueSize = 2
    MaxCalls = 1
    Timeouts = {"infinite", "none", "finite"}
    ResultPointers = {TRUE}
SYMMETRY Symmetry
INVARIANTS
    TypeOK
    LockDiscipline
    TaskInOnePlace
    WaitedTaskIsOwn
    NoLostWakeup
    NoLostCompletion
    ResultIsDelivered
    PooledTasksAreClean
    SignalledMeansCompleted
PROPERTY ImplementsJobQueue
