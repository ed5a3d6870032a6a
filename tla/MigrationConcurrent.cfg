SPECIFICATION Spec
CONSTANTS
    Session = {s1, s2}
    Rollbackers = {}
    Version = {1, 2}
    Data = {1}
    MigrationSets <- FullAndOlder
    Careful = {s1}
    MaxFaults = 2
    s1 = s1
    s2 = s2
INVARIANTS TypeOK HistoryNeverAhead SuccessMeansRecorded
PROPERTIES AscendingOrder
