SPECIFICATION Spec
CONSTANTS
    MaxUnits = 2
    MaxWrites = 2
    MaxDepth = 1
    CommitFailures = {}
    RollbackFailures = {"open"}
CHECK_DEADLOCK FALSE
INVARIANTS LeftIsUndone
