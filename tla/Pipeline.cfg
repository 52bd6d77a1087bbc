SPECIFICATION Spec
CONSTANTS
    N = 2
    K = 3
    BufferSize = 1
    Consumers = {"reduce", "every", "some"}
    MayMapToNil = TRUE
INVARIANT AnswersRight
PROPERTIES ConsumerReturns GoroutinesExit
CHECK_DEADLOCK FALSE
