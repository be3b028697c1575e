\* A call that waits for its result, then shutdown.
SPECIFICATION Spec
CONSTANTS
    NoOne = NoOne
    Workers = {w1}
    Clients = {c1}
    Tasks = {t1}
    MaxQueueSize = 1
    MaxCalls = 1
    Timeouts = {"infinite"}
    ResultPointers = {FALSE}
INVARIANT DeallocFreesAll
