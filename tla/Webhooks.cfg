\* k1 is a secret, k2 the one before it; h2 passes requests only
CONSTANTS
    Secrets = {"k1", "k2", "placeholder"}
    WebhookID = {"h1", "h2"}
    RequestedOnly = {"h2"}
    OrgFilter = {"o1"}
    MaxDeliveries = 3
    MaxRetry = 1
    MaxFaults = 2
    MaxLeaves = 3
    Leaves <- MCLeaves
SPECIFICATION MCFairSpec
INVARIANT TypeOK
INVARIANT ToldMeansKept
INVARIANT OnlyAskedFor
INVARIANT SameEvent
INVARIANT Redacted
PROPERTY NothingLost
\* every webhook is answered, or given up, and every body redacted once
CHECK_DEADLOCK FALSE
