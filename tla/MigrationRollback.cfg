SPECIFICATION Spec
CONSTANTS
    Session = {s1, s2}
    Rollbackers = {s1}
    Version = {1, 2}
    Data = {1, 2}
    MigrationSets <- FullAndOlder
    Careful = {s1, s2}
    MaxFaults = 2
    s1 = s1
    s2 = s2
INVARIANTS DataExactlyOnce
PROPERTIES RefinesLedger
