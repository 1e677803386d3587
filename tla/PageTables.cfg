SPECIFICATION Spec
CONSTANTS
    MinAlignment = 1
    PdpSlots = 1
    Trees = 2
    RootPa <- Roots
    TableBank = 0
    InitialMemory <- ThreeBanks
    Users <- ManyUsers
INVARIANTS
    TypeOK
    TreesAgree
    SinksMatchTree
    MemoryAccounted
    Pages64KBReserved
    CommittedIsSent
    Ps64OnlyInCompleteGroups
PROPERTIES
    NothingLeftPending
    StepsForward
