CONSTANTS
    Robots = {r1, r2, r3, r4}
    None = None
    MaxLag = 1
    Budget <- MCAll
SPECIFICATION FairSpec
INVARIANTS
    SettledHasSecret
PROPERTIES
    EventuallyPublished
