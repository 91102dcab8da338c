CONSTANTS
    Robots = {r1, r2, r3, r4}
    None = None
    MaxLag = 1
    Budget <- MCCalm
SPECIFICATION Spec
INVARIANTS
    PublishedCredentialIsLive
