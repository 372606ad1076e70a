CONSTANTS
    Absent = Absent
    NoState = NoState
    eks = eks
    Nets = {eks}
    Jobs = {j1}
    MaxFaults = 3
    Plans <- LifePlans
    InitialClusters <- LifeClusters
    Drifts <- LifeDrifts
SPECIFICATION LifeSpec
INVARIANTS LifeTypeOK
PROPERTIES Converges RestLasts AppliedSettles DriftShows
