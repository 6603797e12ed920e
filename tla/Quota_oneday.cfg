SPECIFICATION FairSpec
CONSTANTS
    o1 = o1
    o2 = o2
    o3 = o3
    Operations = {o1, o2, o3}
    Units <- MixedUnits
    Limit = 3
    TTL = 1
    DayLength = 10
    MaxClock = 2
    MaxFaults = 1
INVARIANTS TypeOK WithinLimit LedgerAgrees SuccessIsCharged
PROPERTY EveryRequestEnds
