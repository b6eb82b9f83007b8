\* The frame allocator on seven memory maps.
CONSTANTS
    FrameSize = 2
    FrameSizesRead = {0, 2, 4}
    kernel_start = 4
    SafePMMArea = 9
    HeapSize = 16
    MemoryMaps <- MCMemoryMaps
    Locations = {0, 4, 8, 15, 40}
SPECIFICATION Spec
INVARIANTS
    TypeOK
    KernelStaysReserved
PROPERTIES
    ImplementsFrameSet
