SPECIFICATION Spec
CONSTANTS
    MinAlignment = 1
    PdpSlots = 1
    Trees = 1
    RootPa <- Roots
    TableBank = 0
    InitialMemory <- ThreeBanks
    Users <- LargePageUser
PROPERTY
    NothingLeftPending
