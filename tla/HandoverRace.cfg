CONSTANTS
    Absent = Absent
    NoState = NoState
    eks = eks
    Nets = {eks}
    Jobs = {j1}
    Plans <- RemovePlans
    InitialClusters <- TogetherClusters
    Drifts <- HandoverDrifts
SPECIFICATION Spec
PROPERTIES OnlyAmazonCoreDnsRemoved
