SPECIFICATION Spec
CONSTANTS
    x1 = x1
    x2 = x2
    None = None
    Sweepers = {m1, m2}
    MaxTurns = 3
    Spoken = 2
    MaxPurges = 2
    MaxPasses = 3
    Contents = {x1, x2}
    Says <- FirstThenOther
    MaxCandidates = 2
    Heritage <- EmptyOrLegacy
    MaxRows = 3
    MaxOrders = 2
    Parts <- EachPart
INVARIANTS
    IndexIsFaithful
    WorkersAreFenced
    NothingRestsOnRemoved
    MemoryTableConsistent
CHECK_DEADLOCK FALSE
