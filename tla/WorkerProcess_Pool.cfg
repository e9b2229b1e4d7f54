\* Three outages, any number of other failures, restarts and signals.  A maximum
\* of four lets three leaks use up the room for the second connection.
SPECIFICATION FairSpec
CONSTANTS
    MinConn = 2
    MaxConn = 4
    MaxOutages = 3
    None = None
INVARIANTS
    TypeOK
    HandlerLeavesNothing
    SessionsBounded
    LeakBounded
    StaleCost
PROPERTY Recovers
