SPECIFICATION Spec
CONSTANTS
    s1 = s1
    s2 = s2
    Items <- AllItems
    Topics = {t1}
    Bodies = {b1, b2}
    Writers = {w1, w2}
    Devices = {d1}
    MaxNotes = 2
    BatchLimit = 1
    ModelPerHour = 1
    MaxLost = 1
    MaxChurn = 2
    Tasks = {s1, s2}
    Listens <- TwoFilters
    DueLimit = 1
    EventLimit = 2
    MaxRuns = 3
    MaxUpsets = 1
    Units = {u1}
    MaxLines = 6
    MaxChanges = 3
    MaxStale = 1
    Foreground <- ForegroundItems
    Presets <- TaskKinds
    Deployments <- Parts
INVARIANTS
    TypeOK
    LedgerIsCurrent
    DeliveryIsOrderly
    OneRunAtATime
    UnitAlarmsMatchRecord
    CodesAnnouncedOnce
PROPERTIES
    ClaimedWhenServed
    OutboxDrains
    ClaimsGetThrough
CHECK_DEADLOCK FALSE
