\* A request that times out while its handler runs.
SPECIFICATION Spec
CONSTANTS
    NoOne = NoOne
    Conns = {c1, c2}
    Fds = {f1}
    Datas = {d1}
    NumThreads = 1
    MaxQueueSize = 1
    Timeouts = {"finite"}
    Impatient = {}
    MayHang = {}
PROPERTY LateWritesFail
