\* Three connections at once, two workers, up to the first call that times out.
SPECIFICATION Spec
CONSTANTS
    NoOne = NoOne
    Conns = {c1, c2, c3}
    Fds = {f1, f2}
    Datas = {d1, d2, d3}
    NumThreads = 2
    MaxQueueSize = 1
    Timeouts = {"infinite", "none", "finite"}
    Impatient = {}
    MayHang = {}
CONSTRAINT NoTimeouts
SYMMETRY Symmetry
INVARIANTS
    TypeOK
    OneOwner
    OwnDescriptor
    AnsweredOnce
    ListensWhileOpen
    ShutdownReleases
