\* A steady arrival rate and a management API that fails now and then.
SPECIFICATION Spec
CONSTANTS
    None = None
    WorkerMin = 1
    WorkerMax = 4
    CapacityPerWorker = 10
    TargetBacklog = 10
    UpCooldown = 2
    DownCooldown = 6
    HandlerTimeout = 2
    MaxBeats = 1
    Backlogs <- EmptyQueue
    Rates <- SteadyArrivals
    Faults = {"rabbit"}
INVARIANT DecidesOnRealRate
