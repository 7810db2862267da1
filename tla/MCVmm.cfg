CONSTANTS
    f1 = f1  f2 = f2  f3 = f3  f4 = f4
    Frames <- MCFrames
    FrameSize = 2
    VmallocBase = 16
    VmallocSize = 16
    MmioSize = 2
    Space = 36
    MaxAllocations = 3
    TablesPerPage = 1
    Sizes = {0, 2, 3, 17, 35}
    Prots = {"data", "text"}
SYMMETRY Symmetric
SPECIFICATION Spec
INVARIANTS SortedWithGuards WindowSound
PROPERTY ProtectAllOrNothing
