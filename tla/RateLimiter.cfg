CONSTANTS
    Requests = {r1, r2}
    Start = 2
    RetryAfters = {0, 2}
    Remainings = {0, 1}
    Resets = {0, 1, 4}
    DefaultRetryAfter = 1
    MaxLimited = 3
SPECIFICATION FairSpec
INVARIANT TypeOK
INVARIANT NoDoubleClose
INVARIANT NoOrphan
PROPERTY PauseRunsItsCourse
PROPERTY PauseCoversAnswer
PROPERTY ImplementsGate
PROPERTY EveryRequestReturns
\* every request has returned
CHECK_DEADLOCK FALSE
