CONSTANTS
    p = p
    q = q
    r = r
    WordBits = 3
    N = 9
    Width = 8
    MaxFormatWidth = 12
    MaxFloatPrecision = 4
    Page4K = 2
    Page2M = 8
    DirectMapSize = 16
    FileDescriptors = {3, 4}
    MapSize = 80
    SsizeMax = 7
    IovMax = 3
    Paths = {p, q, r}
    Counts = {0, 2, 9}
    Nested = {2, 3, 18}
    Returning = {2, 3, 8, 14, 18}
    MaxNesting = 3
    Capacity = 3
    WordBytes = 2
    RdrandAttempts = 2
    EntropyMax = 4
    BootModules <- MCBootModules
    Seeks <- MCSeeks
    VectorLists <- MCVectorLists
    Calls <- MCCalls
    Texts <- MCTexts
    Images <- MCImages
    OtherMaps <- MCOtherMaps
    Samples <- MCSamples
SPECIFICATION LibrarySpec
INVARIANTS
    BitmapsAreSets
    AtomicsExact
    StringsAreTexts
    GraphsInOrder
    KernelSpaceSound
    OutputReadsBack
    EntropyFilled
    OffsetsInFile
PROPERTIES
    FilesAnswer
    TrapsTransparent
