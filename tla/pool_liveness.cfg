\* Calls, jobs and shutdown make progress.
SPECIFICATION FairSpec
CONSTANTS
    NoOne = NoOne
    Workers = {w1, w2}
    Clients = {c1}
    Tasks = {t1, t2}
    MaxQueueSize = 1
    MaxCalls = 2
    Timeouts = {"infinite", "finite"}
    ResultPointers = {FALSE}
PROPERTIES
    CallsReturn
    DeallocReturns
    ImplementsFairJobQueue
