SPECIFICATION Spec
CONSTANTS
    Count = 3
    c1 = c1
    Forcers = {c1}
    MaxForces = 2
INVARIANT OutcomesAgree
PROPERTY ForceEnds
CHECK_DEADLOCK FALSE
