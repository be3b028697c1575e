\* Calls that time out, and handlers that may never return.
SPECIFICATION FairSpec
CONSTANTS
    NoOne = NoOne
    Conns = {c1, c2}
    Fds = {f1}
    Datas = {d1}
    NumThreads = 1
    MaxQueueSize = 1
    Timeouts = {"finite"}
    Impatient = {}
    MayHang = {c1, c2}
PROPERTY AcceptingReturns
