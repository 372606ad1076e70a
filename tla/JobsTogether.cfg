CONSTANTS
    Absent = Absent
    NoState = NoState
    eks = eks
    Nets = {eks}
    Jobs = {j1, j2}
    MaxFaults = 2
    Plans <- LifeTogetherPlans
    InitialClusters <- TogetherClusters
    Drifts <- NoDrifts
SPECIFICATION LifeSpec
INVARIANTS StoredIpsServeDns
PROPERTIES JobsTogetherClean EmptyPlanIsRight RestLasts Converges
