CONSTANTS
    Messages = {"m1", "m2"}
    Keyed = {"m2"}
    PollTimeout = 2
    MaxRuns = 1
    MaxFaults = 1
SPECIFICATION FairSpec
PROPERTY Replays
CHECK_DEADLOCK FALSE
