CONSTANTS
    Requests = {r1, r2}
    Start = 2
    RetryAfters = {0, 2}
    Remainings = {0, 1}
    Resets = {0, 1, 5}
    DefaultRetryAfter = 1
    MaxLimited = 2
SPECIFICATION Spec
PROPERTY NoEarlyRetry
CHECK_DEADLOCK FALSE
