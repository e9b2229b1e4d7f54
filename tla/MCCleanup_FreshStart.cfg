\* No faults, but a drain that times out: two workers with messages in hand.
CONSTANTS
    r1 = r1
    r2 = r2
    s1 = s1
    w1 = w1
    w2 = w2
    None = None
    Request = {r1, r2}
    Seat = {s1}
    Worker = {w1, w2}
    Order <- OneOfEach
    Capacity = 1
    InventoryRow = InventoryRow
    Prefetch = 1
    MaxRetries = 3
    DeadLetterBound = TRUE
    Faults = {}
    ForceKill = TRUE
    DrainTimeout = 1
    Retry = 2
    CleanerFaults = {}

SPECIFICATION CleanSpec
CHECK_DEADLOCK FALSE

INVARIANTS
    FreshStart
