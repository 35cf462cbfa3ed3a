SPECIFICATION FairSpec
CONSTANTS
    r1 = r1
    r2 = r2
    Sweeper = Sweeper
    None = None
    Runners <- TwoRunners
    Backends <- BothBackends
    Sources <- EverySource
    MaxAttempts = 2
    MaxFaults = 2
    MaxStalls = 1
INVARIANTS IInv Journaled CompletedIsWhole EventsAreTrue
PROPERTIES JobEnds FailedIsUndone
CHECK_DEADLOCK FALSE
