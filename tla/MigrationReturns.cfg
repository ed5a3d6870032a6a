SPECIFICATION FairSpec
CONSTANTS
    Session = {s1, s2}
    Rollbackers = {s1}
    Version = {1, 2}
    Data = {1}
    MigrationSets <- OneList
    Careful = {s1, s2}
    MaxFaults = 1
    s1 = s1
    s2 = s2
PROPERTIES OperationReturns
