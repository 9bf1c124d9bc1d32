CONSTANTS
    Spaces = {s1, s2, s3}
    InitSpace = s1
    Frames = {1, 2, 3, 4, 5}
    NoFrame = 0
    Values = {0, 1}
    Zero = 0
    Unmapped = Unmapped
    LastPage = 2
    MMAP_BASE = 1
    MMAP_END = 2
    ElfAreas <- MCElfAreas
    UserRes <- MCUserRes
    FIRST = 3
    END = 8
    MaxRefs = 3
    MaxPages = 2
SYMMETRY Symmetry
SPECIFICATION MCSpec
INVARIANTS FramesExact PagesExact
PROPERTIES ImplementsPrivateMemory ImplementsPool
