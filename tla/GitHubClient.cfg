CONSTANTS
    r1 = r1
    k1 = k1
    c1 = c1
    c2 = c2
    Requests = {r1}
    Clones = {k1}
    Closers = {c1, c2}
    MaxTokens = 3
    Items = {1, 2, 3, 4}
    Wanted = {1, 3}
    PerPage = 2
    MaxCalls = 2
    KeepOptions = FALSE
SYMMETRY Symmetry
SPECIFICATION MCSpec
INVARIANT ClientTypeOK
INVARIANT NoTokenIsLeft
INVARIANT RefusedForReason
INVARIANT RightAnswer
\* every caller has its answer
CHECK_DEADLOCK FALSE
