SPECIFICATION FairSpec
CONSTANTS
    MaxRows = 5
    CPUs = {1, 2}
    NoValue = NoValue
    Fails = Fails
    None = None
INVARIANT OnlyStripeAbandoned
PROPERTIES ImplementsMap PMapEnds
CHECK_DEADLOCK FALSE
