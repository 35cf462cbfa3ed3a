CONSTANTS
    w1 = w1
    w2 = w2
    Workers <- TwoWorkers
    None = None
    LeaseTime = 1
    MaxAttempts = 2
    MaxFaults = 1
    MaxTrash = 2
SPECIFICATION FairSpec
INVARIANTS IInv PublishedExists KeysAccounted
PROPERTIES PreviewSettles KeysReclaimed
