SPECIFICATION Spec
CONSTANTS
    s1 = s1
    s2 = s2
    Items <- AllItems
    Topics = {t1}
    Bodies = {b1, b2}
    Writers = {w1, w2}
    Devices = {d1}
    MaxNotes = 1
    BatchLimit = 1
    ModelPerHour = 1
    MaxLost = 1
    MaxChurn = 2
    Tasks = {s1}
    Listens <- TwoFilters
    DueLimit = 1
    EventLimit = 2
    MaxRuns = 2
    MaxUpsets = 1
    Units = {u1}
    MaxLines = 6
    MaxChanges = 3
    MaxStale = 1
    Foreground <- ForegroundItems
    Presets <- OneInterval
    Deployments <- SchedulerAlone
PROPERTY DueTasksWake
CHECK_DEADLOCK FALSE
