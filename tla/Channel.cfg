SPECIFICATION FairSpec
CONSTANTS
    NoMsg = NoMsg
    g1 = g1
    g2 = g2
    g3 = g3
    Goroutines = {g1, g2, g3}
    Capacities = {0, 1, 2}
    MaxCalls = 2
INVARIANTS HonestAnswers SenderOrder NothingCutOff
PROPERTIES ImplementsStream TerminationReleases
CHECK_DEADLOCK FALSE
