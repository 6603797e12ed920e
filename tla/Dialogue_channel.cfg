SPECIFICATION Spec
CONSTANTS
    h1 = h1
    h2 = h2
    c1 = c1
    c2 = c2
    r1 = r1
    r2 = r2
    Handlers = {h1}
    Channels = {c1, c2}
    Results = {r1, r2}
    NoChannel = NoChannel
    NoResult = NoResult
SYMMETRY Symmetry
INVARIANT PostGoesWhereShown
