CONSTANTS
    Absent = Absent
    NoState = NoState
    eks = eks
    Nets = {eks}
    Jobs = {j1}
    Plans <- ExamplePlans
    InitialClusters <- AloneClusters
    Drifts <- NoDrifts
SPECIFICATION Spec
PROPERTIES ImportNeverDropsDns
