\* A call of MmKernelAllocPages that fails.
CONSTANTS
    N = 8
    Shift = 4
    Slots = {0, 1, 2, 7}
    UsedFrames = {1}
    VAddrs <- MCVAddrs
    FrameArgs = {1, 2}
    Divisor = 12
    PromptLen = 3
    TypedBound = 2
SPECIFICATION Spec
INVARIANT
    AllOrNothing
