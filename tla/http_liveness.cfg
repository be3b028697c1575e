\* Connections are served and the server stops.
SPECIFICATION FairSpec
CONSTANTS
    NoOne = NoOne
    Conns = {c1, c2}
    Fds = {f1, f2}
    Datas = {d1, d2}
    NumThreads = 2
    MaxQueueSize = 1
    Timeouts = {"infinite", "none"}
    Impatient = {c1}
    MayHang = {}
PROPERTIES
    EveryoneIsServed
    DeallocReturns
