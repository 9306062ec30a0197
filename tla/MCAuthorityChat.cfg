SPECIFICATION FairSpec
CONSTANTS
    Runs = {r1}
    Actions = {a1, a2}
    Requests = {q1, q2}
    Chats = {c1}
    Tasks = {}
    None = None
INVARIANTS
    TypeOK
    AtMostOneEffect
    NoEffectWithoutIntent
    AttentionMatchesLedger
    RunStatusAggregates
PROPERTIES
    SettledIsFinal
    ExecutingSettles
    AbandonedRunReleased
CHECK_DEADLOCK FALSE
