SPECIFICATION GgttSpec
CONSTANTS
    c1 = c1
    c2 = c2
    Contexts = {c1, c2}
    MinAlignment = 1
    NumberOfAllocators = 2
    AllocatorSize = 2
    LocalMemorySupport = TRUE
    ReservedGGTTSpace = 1
    PageSizes = {1, 2}
    UserSizes = {2}
    PagesBound = 60
    GfxSpace = 40
    Plans <- GgttPlans
INVARIANTS
    NoSharedMemory
    NodesAligned
    BanksDisjoint
    TranslatesApart
    EngineFindsObjects
    FileHasObjects
    ObjectsApart
CHECK_DEADLOCK FALSE
