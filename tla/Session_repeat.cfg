SPECIFICATION FairSpec
CONSTANTS
    h1 = h1
    h2 = h2
    h3 = h3
    Handlers = {h1, h2, h3}
    Kind <- Kinds
    Patient = {h1}
    Tokens = {1, 2, 3, 4, 5, 6, 7, 8}
    NoToken = 0
    Nobody = Nobody
    MaxClears = 1
    MaxFaults = 2
INVARIANTS TypeOK RefusedForAReason
PROPERTY RepeatSucceeds
