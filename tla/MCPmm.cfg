CONSTANTS
    FramesPerBlock = 3
    BlocksPerGiga = 2
    Gigas = 2
    FrameSize = 2
    LowMemory = 2
    Image <- MCImage
    BootInfos <- MCBootInfos
SPECIFICATION Spec
INVARIANTS Inv OnlyUsableMemory
PROPERTY ImplementsFrameAllocator
