SPECIFICATION Spec
CONSTANTS
    Ops = {"queryRaw", "queryJSON"}
    Cells = {"text", "clob"}
    MaxCols = 1
    MaxRows = 1
    Params = 1
    MayFail = {"clob"}
CHECK_DEADLOCK FALSE
INVARIANTS FailureIsReported
