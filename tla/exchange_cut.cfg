\* A whole request whose last bytes come in a read of their own.
SPECIFICATION Spec
CONSTANTS
    Garbage = Garbage
    Messages <- MCMessages
    Names <- MCNames
    Chunk = 3
    MaxRead = 12
    ResponseNames <- MCNames
    ResponseValues <- MCResponseValues
    Statuses <- MCStatuses
    MaxBody = 2
    MaxExchanges = 2
    MaxOps = 2
INVARIANT WholeIsAccepted
