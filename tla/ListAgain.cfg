CONSTANTS
    Items = {1, 2, 3, 4}
    Wanted = {1, 3}
    PerPage = 2
    MaxCalls = 2
    KeepOptions = TRUE
SPECIFICATION Spec
INVARIANT EachIsGiven
\* every call has its answer
CHECK_DEADLOCK FALSE
