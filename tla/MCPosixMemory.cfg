CONSTANTS
    f1 = f1  f2 = f2  f3 = f3
    Frames <- MCFrames
    FrameSize = 3
    VmallocBase = 18
    VmallocSize = 9
    MmioSize = 6
    Space = 36
    MaxAllocations = 2
    TablesPerPage = 1
    Sizes = {0, 3, 4, 35}
    Prots = {"data", "rodata", "text", "open"}
    Requests = {{"READ"}, {"EXEC"}, {"READ", "WRITE", "EXEC"}, {"READ", "OTHER"}}
SPECIFICATION PosixSpec
INVARIANT FramesConserved
PROPERTIES MmapSound MprotectExact OperationsReturn MmioAnswers
