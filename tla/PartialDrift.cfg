CONSTANTS
    Absent = Absent
    NoState = NoState
    eks = eks
    Nets = {eks}
    Jobs = {j1}
    MaxFaults = 1
    Plans <- DefaultPlans
    InitialClusters <- LifeClusters
    Drifts <- ProxyDrifts
SPECIFICATION LifeSpec
PROPERTIES Converges
