SPECIFICATION Spec
CONSTANTS
    k1 = k1
    None = None
    Candidates = {c1}
    Requests = {q1}
    Workers = {w1}
    Keys = {k1}
    KeyOf <- TheOneTurn
    MaxAttempts = 1
    OwnerRetryBudget = 1
    MaxRetentions = 0
    PublishTries = 1
    MaxPurges = 0
INVARIANT AnsweredWithCandidate
