CONSTANTS
    Absent = Absent
    NoState = NoState
    eks = eks
    Nets = {eks}
    Jobs = {j1}
    Plans <- KeepPlans
    InitialClusters <- BudgetClusters
    Drifts <- NoDrifts
SPECIFICATION Spec
PROPERTIES BudgetMarksAreReported
