CONSTANTS
    Servers = {s1, s2}
    None = None
    Gone = Gone
    Backends = {"postgres", "local", "remote"}
    Lease = 2
    MaxGen = 3
    MaxFaults = 2
    MaxLosses = 1
SPECIFICATION FairSpec
INVARIANTS ClaimInv AcquiredIsDurable
PROPERTIES UnitsInOrder OrphanedClaimEnds
