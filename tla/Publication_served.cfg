SPECIFICATION FairSpec
CONSTANTS
    c1 = c1
    Posts = {p1}
    Channels = {c1}
    ChannelOf <- OneChannel
    Tasks = {t1, t2}
    Creators = {cr1}
    Retriers = {rt1}
    Deleters = {}
    NoPost = NoPost
    NoTask = NoTask
    SoftLimit = 1
    HardLimit = 1
    Lease = 2
    MaxRetries = 1
    MaxAttempts = 2
    MaxFaults = 0
    AmbiguousErrors = FALSE
INVARIANT TypeOK
PROPERTIES PendingIsServed TriggeredAttemptResolves
