\* The whole schedule with refused messages, a lost connection and a signal.
SPECIFICATION FairSpec
CHECK_DEADLOCK FALSE
CONSTANTS
    Configs <- AllConfigs
    RampSteps = 2
    CooldownSteps = 2
    MaxStall = 1
    Faults = {"nack", "link"}
INVARIANTS
    TypeOK
    RateKept
    AtMostOneUncounted
    QuietAfterStop
PROPERTY Finishes
