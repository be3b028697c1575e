\* A call with a result pointer that times out.
SPECIFICATION Spec
CONSTANTS
    NoOne = NoOne
    Workers = {w1}
    Clients = {c1}
    Tasks = {t1}
    MaxQueueSize = 1
    MaxCalls = 1
    Timeouts = {"finite"}
    ResultPointers = {TRUE}
PROPERTY NoResultAfterTimeout
