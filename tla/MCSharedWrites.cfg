SPECIFICATION Spec
CONSTANTS
    Writers = {w1, w2}
    Ops = {o1, o2}
    Resources = {r1, r2}
    Payloads = {p1}
    None = None
SYMMETRY Interchangeable
INVARIANTS
    TypeOK
    LinearHistory
    NoLostUpdate
    ReceiptIsDurable
    NoDeadlock
PROPERTY WritesAreAtomic
