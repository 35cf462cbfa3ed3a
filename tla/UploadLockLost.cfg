CONSTANTS
    c1 = c1
    c2 = c2
    s1 = s1
    r1 = r1
    g1 = g1
    a = a
    b = b
    short = short
    Completers <- TwoCompleters
    Sweepers = {s1}
    Reclaimers = {r1}
    Purgers = {g1}
    Nobody = Nobody
    Parts <- OnePart
    Etags = {a, b, short}
    ShortEtags = {short}
    NoEtag = NoEtag
    None = None
    Storages = {"s3"}
    MaxFaults = 0
    MaxLosses = 1
SPECIFICATION Spec
SYMMETRY CompleterSymmetry
INVARIANTS StoredHasPayload
CHECK_DEADLOCK FALSE
