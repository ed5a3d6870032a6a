SPECIFICATION Spec
CONSTANTS
    MaxUnits = 4
    MaxWrites = 5
    MaxDepth = 3
    CommitFailures = {"undone", "open", "done"}
    RollbackFailures = {"open"}
CHECK_DEADLOCK FALSE
INVARIANTS TypeOK LeftIsNothing InnermostAtomic
PROPERTIES RefinesUnit
