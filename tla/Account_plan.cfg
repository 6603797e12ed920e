SPECIFICATION Spec
CONSTANTS
    k1 = k1
    k2 = k2
    k3 = k3
    k4 = k4
    p1 = p1
    p2 = p2
    p3 = p3
    p4 = p4
    Connects = {k1, k2, k3, k4}
    Switches = {s1}
    Creates = {p1, p2, p3, p4}
    External <- ThreeCommunities
    PatchValues = {FALSE}
    ChannelOf <- FirstChannel
    Key <- PressedTwice
    NoKey = NoKey
    NoChannel = NoChannel
    ChannelLimit = 2
    PostLimit = 2
    MaxDay = 1
    QuietMidnight = TRUE
SYMMETRY Symmetry
INVARIANTS TypeOK ChannelsWithinLimit ConnectedOnce PostsWithinLimit OnePostPerKey
