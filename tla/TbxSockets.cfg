SPECIFICATION FairSpec
CONSTANTS
    t1 = t1
    t2 = t2
    None = None
    Threads <- TwoThreads
    Main = t1
    IdMod = 3
    Frontdoor = TRUE
    MaxOps = 1
    Ops = {"readPages", "writePages", "gttPages", "maskedMMIO", "writePCICFG", "alive", "memoryPoll", "registerPoll"}
INVARIANTS
    WellFramed
    AnswersToAskers
    NoGarbageSent
PROPERTY
    AllCallsEnd
CHECK_DEADLOCK FALSE
