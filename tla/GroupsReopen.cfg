SPECIFICATION Spec
CONSTANTS
    c1 = c1
    c2 = c2
    c3 = c3
    None = None
    Contexts <- ThreeContexts
    GroupSize = 2
    Capacity = 2
    MaxGroups = 2
    FlagSets <- GroupOnly
    Users <- ClosingUser
SYMMETRY SymContexts
PROPERTIES
    SlotFreeAtInitialize
