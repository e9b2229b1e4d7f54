\* cleanup.py with one retry, beside a worker whose SQL may fail and that may die.
CONSTANTS
    r1 = r1
    r2 = r2
    s1 = s1
    w1 = w1
    w2 = w2
    None = None
    Request = {r1, r2}
    Seat = {s1}
    Worker = {w1}
    Order <- OneOfEach
    Capacity = 1
    InventoryRow = InventoryRow
    Prefetch = 1
    MaxRetries = 1
    DeadLetterBound = TRUE
    Faults = {"crash", "sql"}
    ForceKill = TRUE
    DrainTimeout = 1
    Retry = 1
    CleanerFaults = {"api", "sql"}

SPECIFICATION CleanFairSpec
CHECK_DEADLOCK FALSE

INVARIANTS
    CleanTypeOK
    DeliveriesAccounted
    DrainedStart

PROPERTIES
    ForgottenWhole
    CleanupEnds
