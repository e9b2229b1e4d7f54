\* Every fault of the control loop, and scaling by hand, under a load that jumps up and down.
SPECIFICATION FairSpec
CONSTANTS
    None = None
    WorkerMin = 1
    WorkerMax = 4
    CapacityPerWorker = 10
    TargetBacklog = 10
    UpCooldown = 2
    DownCooldown = 6
    HandlerTimeout = 2
    MaxBeats = 1
    Backlogs <- QuietOrPeak
    Rates <- FewOrManyArrivals
    Faults = {"rabbit", "ecs", "metric", "cold", "task", "operator"}
INVARIANT TypeOK
PROPERTY ScalingSpaced
PROPERTY Converges
