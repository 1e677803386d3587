SPECIFICATION Spec
CONSTANTS
    MB = 16
    Managers = {"m1", "m2"}
    Contexts = {"c1", "c2"}
    Options <- AllOptions
    Plans <- ManyPlans
INVARIANTS
    OnlyLiveUsed
    SinksAgree
    ContextsInFile
    CcsModeKept
    StolenLayout
CHECK_DEADLOCK FALSE
