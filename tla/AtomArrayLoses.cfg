SPECIFICATION Spec
CONSTANTS
    Zero = Zero
    NoArray = NoArray
    g1 = g1
    g2 = g2
    g3 = g3
    Goroutines = {g1, g2, g3}
    MaxCalls = 2
INVARIANT EveryCallCounts
CHECK_DEADLOCK FALSE
