\* From reset to the prompt.
CONSTANTS
    N = 8
    Shift = 4
    Slots = {0, 1, 2, 7}
    UsedFrames = {1}
    VAddrs <- MCVAddrs
    FrameArgs = {1, 2}
    Divisor = 12
    PromptLen = 3
    TypedBound = 2
SPECIFICATION Spec
INVARIANTS
    TypeOK
    InUseIsMapped
    KernelHalfStaysMapped
    InterruptsFindTheirWay
    PromptReachesTheLine
PROPERTIES
    GetsToThePrompt
    PromptReturns
