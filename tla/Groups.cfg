SPECIFICATION Spec
CONSTANTS
    c1 = c1
    c2 = c2
    c3 = c3
    None = None
    Contexts <- ThreeContexts
    GroupSize = 3
    Capacity = 2
    MaxGroups = 2
    FlagSets <- GroupOrNot
    Users <- FreeAndOrderly
SYMMETRY SymContexts
INVARIANTS
    SlotsHoldLiveContexts
    ReleasedGroupIsEmpty
    MembersInTheirSlots
