CONSTANTS
    e1 = e1
    e2 = e2
    bad = bad
    d1 = d1
    d2 = d2
    Events = {e1, e2, bad}
    Invalid = {bad}
    Dirs = {d1, d2}
    DirOf <- MCDirOf
    Deliveries <- MCDeliveries
    MaxUploadAttempt = 2
    MaxFaults = 2
SPECIFICATION MCSpec
PROPERTY DeleteOnlyUploaded
\* the uploader exits, or all pushes are done
CHECK_DEADLOCK FALSE
