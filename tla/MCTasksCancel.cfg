SPECIFICATION Spec
CONSTANTS
    Tasks = {t1}
    Runs = {r1, r2}
    Actions = {a1}
    None = None
    MaxNoProgress = 2
    MaxTransient = 2
    ScanLimit = 1
INVARIANT CancelledNotClaimedAgain
CHECK_DEADLOCK FALSE
