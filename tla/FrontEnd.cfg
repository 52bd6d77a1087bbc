SPECIFICATION Spec
CONSTANTS
    Files <- ShortAndLong
    MaxTokens = 8
    FlagCap = 1
    BridgeCap = 1
    ASTCap = 1
INVARIANT FormsRight
PROPERTIES CallerReturns GoroutinesEnd
CHECK_DEADLOCK FALSE
