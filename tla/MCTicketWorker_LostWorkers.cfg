\* Two buyers of tickets while workers die and connections break.
CONSTANTS
    r1 = r1
    r2 = r2
    r3 = r3
    r4 = r4
    s1 = s1
    w1 = w1
    w2 = w2
    None = None
    Request = {r1, r2}
    Seat = {s1}
    Worker = {w1, w2}
    Order <- TicketRace
    Capacity = 2
    InventoryRow = InventoryRow
    Prefetch = 2
    MaxRetries = 1
    DeadLetterBound = TRUE
    Faults = {"crash", "link"}

SPECIFICATION FairSpec
CHECK_DEADLOCK FALSE

INVARIANTS
    NothingLost
    SalesInv

PROPERTIES
    ImplementsSales
    EveryRequestSettles
