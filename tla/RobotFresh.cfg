CONSTANTS
    Robots = {r1, r2, r3, r4}
    None = None
    MaxLag = 0
    Budget <- MCFaults
SPECIFICATION FairSpec
INVARIANTS
    TypeOK
    PublishedCredentialIsLive
    SettledHasSecret
PROPERTIES
    PromiseKept
    EventuallyUsable
