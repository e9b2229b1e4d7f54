\* The dead-letter policy as the infrastructure code installs it.
CONSTANTS
    r1 = r1
    r2 = r2
    r3 = r3
    r4 = r4
    s1 = s1
    w1 = w1
    w2 = w2
    None = None
    Request = {r1, r2}
    Seat = {s1}
    Worker = {w1, w2}
    Order <- OneOfEach
    Capacity = 2
    InventoryRow = InventoryRow
    Prefetch = 1
    MaxRetries = 1
    DeadLetterBound <- DeadLetterDeployed
    Faults = {"sql"}

SPECIFICATION Spec
CHECK_DEADLOCK FALSE

INVARIANTS
    NothingLost
