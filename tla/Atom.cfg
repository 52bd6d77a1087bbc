SPECIFICATION FairSpec
CONSTANTS
    g1 = g1
    g2 = g2
    g3 = g3
    Goroutines = {g1, g2, g3}
    Incrementer = g1
    Modulus = 3
    Values <- Numbers
    F <- Function
    NoValue = NoValue
    MaxCalls = 2
PROPERTIES ImplementsRegister SwapReturns
CHECK_DEADLOCK FALSE
