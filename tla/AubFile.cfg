SPECIFICATION Spec
CONSTANTS
    MaxDword = 25
    MaxEntries = 2
    Calls <- AllCalls
    CallsOf <- CallsOfPlan
    Plans <- BothPlans
    Faults = {"open", "error", "EFAULT", "reopen"}
INVARIANTS
    TypeOK
    WellFramed
    DataWhereRequested
    ReadsAsWritten
PROPERTY
    FileIsTrace
CHECK_DEADLOCK FALSE
