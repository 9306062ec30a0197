SPECIFICATION FairSpec
CONSTANTS
    k1 = k1
    None = None
    Candidates = {c1}
    Requests = {q1}
    Workers = {w1, w2}
    Keys = {k1}
    KeyOf <- TheOneTurn
    MaxAttempts = 2
    OwnerRetryBudget = 2
    MaxRetentions = 1
    PublishTries = 2
    MaxPurges = 1
CONSTRAINT OneTroubleAtATime
PROPERTY RequestAnswered
