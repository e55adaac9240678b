CONSTANTS
    Requests = {r1, r2}
    Targets <- MCTargets
    Quota = 2
    Handlers = {"api", "hooks"}
    Services = {"bot", "agent", "broker"}
    Rate <- MCRate
    Configured = {"agent", "broker"}
    Entries <- MCEntries
    Endpoints = {"primary"}
    OnGCP = TRUE
    Scale = 2
    MaxSpans = 3
    MaxExits = 1
    Limit = 2
    MaxBytes = 3
    MaxWrite = 3
SYMMETRY Symmetry
SPECIFICATION MCSpec
INVARIANT ObservedTypeOK
INVARIANT MetricsAreTrue
INVARIANT OneTree
INVARIANT AsItWas
\* every request, trace and command comes to its end
CHECK_DEADLOCK FALSE
