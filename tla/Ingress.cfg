CONSTANTS
    a = a
    b = b
    c = c
    x = x
    key = key
    other = other
    shared = shared
    NoKey = NoKey
    Types = {"T1", "T2", "T3"}
    DefaultTopic = other
    TypeOf <- MCTypeOf
    Tokens <- MCTokens
    Overrides <- MCOverrides
    Events = {a, b, c, x}
    KeyOf <- MCKeyOf
    OidcMaxAttempts = 2
    MaxFaults = 2
SPECIFICATION FairSpec
INVARIANT TypeOK
PROPERTY ImplementsBroker
INVARIANT OrderUnlessFailed
PROPERTY EventuallyAccepted
\* every event is accepted, or the ingress could not start
CHECK_DEADLOCK FALSE
