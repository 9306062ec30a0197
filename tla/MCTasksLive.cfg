SPECIFICATION LiveSpec
CONSTANTS
    Tasks = {t1, t2}
    Runs = {r1, r2}
    Actions = {a1}
    None = None
    MaxNoProgress = 2
    MaxTransient = 1
    ScanLimit = 1
INVARIANT StallIsShown
PROPERTY TaskContinues
CHECK_DEADLOCK FALSE
