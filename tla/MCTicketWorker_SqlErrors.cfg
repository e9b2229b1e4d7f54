\* Good and odd orders while SQL statements and the pool fail.
CONSTANTS
    r1 = r1
    r2 = r2
    r3 = r3
    r4 = r4
    s1 = s1
    w1 = w1
    w2 = w2
    None = None
    Request = {r1, r2, r3, r4}
    Seat = {s1}
    Worker = {w1, w2}
    Order <- OddOrders
    Capacity = 1
    InventoryRow = InventoryRow
    Prefetch = 1
    MaxRetries = 1
    DeadLetterBound = TRUE
    Faults = {"sql", "pool"}

SPECIFICATION FairSpec
CHECK_DEADLOCK FALSE

INVARIANTS
    NothingLost
    NoSaleOnceAnswered

PROPERTIES
    EveryRequestSettles
