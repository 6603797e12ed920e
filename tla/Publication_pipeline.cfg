SPECIFICATION Spec
CONSTANTS
    c1 = c1
    Posts = {p1}
    Channels = {c1}
    ChannelOf <- OneChannel
    Tasks = {t1, t2}
    Creators = {cr1}
    Retriers = {rt1, rt2}
    Deleters = {dl1}
    NoPost = NoPost
    NoTask = NoTask
    SoftLimit = 1
    HardLimit = 1
    Lease = 2
    MaxRetries = 0
    MaxAttempts = 2
    MaxFaults = 1
    AmbiguousErrors = TRUE
SYMMETRY Symmetry
CONSTRAINT FewTroubles
INVARIANTS AtMostOnce FailedIsDefinite PipelineInv SentWasDelivered LeaseOutlivesOwner
PROPERTIES RefinesLifecycle RevivedOnlyByOverlap
