CONSTANTS
    Absent = Absent
    NoState = NoState
    eks = eks
    Nets = {eks}
    Jobs = {j1}
    MaxTries = 5
    Plans <- ImportingPlans
    InitialClusters <- ImportingClusters
    Drifts <- ImportingDrifts
SPECIFICATION LoopSpec
INVARIANTS LoopTypeOK
PROPERTIES ImplementsJobs HandlersAdvance HandlersReturn
