CONSTANTS
    m1 = m1
    m2 = m2
    m3 = m3
    Messages = {m1, m2, m3}
    Keyed = {m3}
    PollTimeout = 2
    MaxRuns = 2
    MaxFaults = 2
    Rows = 4
    PageSize = 2
    MaxRetry = 1
    MaxReadErrors = 1
    MaySigterm = TRUE
    MaxNulls = 2
SPECIFICATION MCSpec
INVARIANT ReplaysTypeOK
INVARIANT OnceEach
INVARIANT EachRowOnce
PROPERTY JobEnds
PROPERTY EndsWithTheRows
\* the job has ended, and is not started again
CHECK_DEADLOCK FALSE
