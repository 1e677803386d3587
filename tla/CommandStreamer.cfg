SPECIFICATION Spec
CONSTANTS
    Threads = {t1, t2}
    Contexts = {"g1", "g2", "g3", "s1"}
    Slots = 2
    RingSize = 3
    Setups <- ManySetups
SYMMETRY Alike
INVARIANTS
    SubmissionsSeen
PROPERTIES
    LoadsOwnList
    ImageRestores
CHECK_DEADLOCK FALSE
