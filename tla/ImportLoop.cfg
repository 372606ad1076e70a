CONSTANTS
    Absent = Absent
    Nets = {}
    Clients = {c1, c2}
    MaxTries = 5
    Values <- MCValues
SPECIFICATION FairSpec
INVARIANTS TypeOK FreshRequest
PROPERTIES ImplementsAtomicImport CallsRunOut CallReturns
