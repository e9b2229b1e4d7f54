\* Two workers, two buyers of one seat, every kind of fault: safety.
CONSTANTS
    r1 = r1
    r2 = r2
    r3 = r3
    r4 = r4
    s1 = s1
    w1 = w1
    w2 = w2
    None = None
    Request = {r1, r2}
    Seat = {s1}
    Worker = {w1, w2}
    Order <- SeatRace
    Capacity = 1
    InventoryRow = InventoryRow
    Prefetch = 2
    MaxRetries = 1
    DeadLetterBound = TRUE
    Faults = {"crash", "link", "sql", "pool"}

SPECIFICATION Spec
SYMMETRY WorkerSymmetry

INVARIANTS
    TypeOK
    DeliveriesAccounted
    SingleLiveCopy
    AnswersTruthful
    SalesInv

PROPERTIES
    LossOnlyInRetryWindow
    ImplementsSales
