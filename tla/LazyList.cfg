SPECIFICATION FairSpec
CONSTANTS
    Free = Free
    g1 = g1
    g2 = g2
    Goroutines = {g1, g2}
    K = 3
    MayPanic = {1, 2, 3}
    MaxWalks = 3
INVARIANTS WalksAgree OnlyTailLeaks
PROPERTY OperationReturns
CHECK_DEADLOCK FALSE
