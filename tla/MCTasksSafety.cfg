SPECIFICATION Spec
CONSTANTS
    Tasks = {t1, t2}
    Runs = {r1, r2}
    Actions = {a1, a2}
    None = None
    MaxNoProgress = 1
    MaxTransient = 1
    ScanLimit = 2
SYMMETRY Interchangeable
CONSTRAINT TwoTasksOrTwoActions
INVARIANTS
    TypeOK
    CheckpointCoversUnsettled
    CompletionIsSettled
PROPERTY NoReplay
CHECK_DEADLOCK FALSE
