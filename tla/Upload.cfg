CONSTANTS
    c1 = c1
    c2 = c2
    s1 = s1
    r1 = r1
    g1 = g1
    a = a
    b = b
    short = short
    Completers <- TwoCompleters
    Sweepers = {s1}
    Reclaimers = {r1}
    Purgers = {g1}
    Nobody = Nobody
    Parts <- OnePart
    Etags = {a, short}
    ShortEtags = {short}
    NoEtag = NoEtag
    None = None
    Storages = {"local", "s3", "presigned"}
    MaxFaults = 1
    MaxLosses = 1
SPECIFICATION FairSpec
CHECK_DEADLOCK FALSE
INVARIANTS IInv StoredIntact AnsweredIsStored NothingOrphaned
PROPERTIES UploadsEnd BytesReclaimed
