SPECIFICATION Spec
CONSTANTS
    k1 = k1
    None = None
    Candidates = {c1, c2}
    Requests = {q1, q2}
    Workers = {w1, w2}
    Keys = {k1, k2}
    KeyOf <- TheOneTurn
    MaxAttempts = 2
    OwnerRetryBudget = 2
    MaxRetentions = 1
    PublishTries = 1
    MaxPurges = 1
SYMMETRY Interchangeable
CONSTRAINT TwoWorkersOrTwoCandidates
INVARIANTS
    TypeOK
    AnsweredWhileChatStands
PROPERTY NoMemoryFromPurged
