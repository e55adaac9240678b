CONSTANTS
    w1 = w1
    w2 = w2
    b1 = b1
    b2 = b2
    s1 = s1
    s2 = s2
    s3 = s3
    a1 = a1
    Workers = {w1, w2}
    Strays <- MCStrays
    MaxAttempts = 2
    MaxEdits = 1
    MaxFaults = 1
    MaxPanics = 1
    Bots = {b1, b2}
    Sets = {s1, s2, s3}
    Adds = {a1}
    BotOf <- MCBotOf
    PageSize = 2
    MaxPeople = 1
    MaxDeleted = 1
    Byte = {"a", "b", "n", "m"}
    Pieces <- MCPieces
    Message <- MCMessage
    Name = "name"
    Summaries = {"passed"}
    Conclusions = {"success", "failure"}
    MaxLength = 5
    MaxWritten = 5
SPECIFICATION MCSpec
INVARIANT SdkTypeOK
INVARIANT NothingMissed
INVARIANT OneOfItsOwn
INVARIANT TextIsWhole
PROPERTY LabelFollowsTitle
PROPERTY PeopleAreLeftAlone
\* every event, every call and every text comes to its end
CHECK_DEADLOCK FALSE
