CONSTANTS
    t1 = t1  t2 = t2  t3 = t3
    Levels = 4
    Entries = 2
    Space = 32
    LeafLevels = {1, 2, 3}
    NxEnabled = TRUE
    GlobalPagesEnabled = TRUE
    ImageTables <- MCImageTables
    KernelBase = 24
    KernelWindow = 2
    Frames <- MCFrames
    Calls <- MCMmioCalls
    Probes = {0, 1}

SPECIFICATION Spec

PROPERTY MappingTwiceYieldsTheSame
