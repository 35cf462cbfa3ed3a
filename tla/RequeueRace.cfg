CONSTANTS
    o1 = o1
    o2 = o2
    Owners <- TwoOwners
    NoOwner = NoOwner
    MaxXid = 1
    MaxSeq = 2
    SingleWriter = FALSE
    MaxAttempts = 2
    BatchLimit = 2
    ChunkCap = 2
    MaxFaults = 0
    MaxRequeues = 2
SPECIFICATION Spec
SYMMETRY OwnerSymmetry
INVARIANTS RequeuedIsRetried
