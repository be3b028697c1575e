\* A handler that sets Content-Length to a number with more behind it.
SPECIFICATION Spec
CONSTANTS
    Garbage = Garbage
    Messages <- MCMessages
    Names <- MCNames
    Chunk = 3
    MaxRead = 12
    ResponseNames <- MCNames
    ResponseValues <- MCResponseValues
    Statuses <- MCStatuses
    MaxBody = 2
    MaxExchanges = 2
    MaxOps = 2
INVARIANT ContentLengthIsExact
