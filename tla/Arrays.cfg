SPECIFICATION Spec
CONSTANTS
    Zero = Zero
    x = x
    y = y
    Items = {x, y}
    MaxLength = 3
    MaxLiteral = 1
    MaxArrays = 6
INVARIANTS ImmutableIfNotReused FirstsIntact
PROPERTY ResultsRight
CHECK_DEADLOCK FALSE
