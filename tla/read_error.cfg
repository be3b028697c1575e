\* A buffered reader over a descriptor whose reads may fail.
SPECIFICATION StreamSpec
CONSTANTS
    Garbage = Garbage
    Inputs <- MCInputs
    SizeMax = 15
    Requests = {1, 2, 4}
    Limits = {0, 3}
    MaxCalls = 4
INVARIANT ReadErrorsAreSeen
