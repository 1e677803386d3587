SPECIFICATION FairSpec
CONSTANTS
    c1 = c1
    c2 = c2
    None = None
    Contexts <- TwoContexts
    CmdSize = 2
    KeepsUp = TRUE
    MaxQueue = 3
    Plans <- RingPlans
INVARIANTS
    RingHoldsOutstanding
    FenceMeansDone
    IsActiveCorrect
PROPERTY
    PollsEnd
