CONSTANTS
    Absent = Absent
    NoState = NoState
    eks = eks
    Nets = {eks}
    Jobs = {j1}
    Plans <- AlonePlans
    InitialClusters <- AloneClusters
    Drifts <- AloneDrifts
SPECIFICATION Spec
CONSTRAINT DisturbedWhileRemoving
INVARIANTS TypeOK
PROPERTIES SuccessMeansCleaned StateIsHonest PlanIsKept RefreshIsStable AddressesOutliveService OnlyAmazonCoreDnsRemoved
