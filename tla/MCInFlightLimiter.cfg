\* The caps of the unit test: three overall, two on a lane.
CONSTANTS
    w1 = w1
    w2 = w2
    w3 = w3
    w4 = w4
    la = la
    lb = lb
    Workers <- WorkersValue
    Lanes <- LanesValue
    GlobalCap = 3
    LaneCap = 2
    NoLane = NoLane
    MaxStray = 2

SPECIFICATION LimiterSpec

INVARIANT CountsAreHolders
INVARIANT WithinCaps
INVARIANT RefusedOnlyWhenFull
PROPERTY HighWater
