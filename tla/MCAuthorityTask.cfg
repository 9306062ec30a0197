SPECIFICATION Spec
CONSTANTS
    Runs = {r1, r2}
    Actions = {a1}
    Requests = {q1}
    Chats = {}
    Tasks = {t1}
    None = None
SYMMETRY Interchangeable
INVARIANTS
    NoAbandonedExecution
    OneLiveInference
    CancelCleansUp
CHECK_DEADLOCK FALSE
