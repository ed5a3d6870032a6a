SPECIFICATION Spec
CONSTANTS
    Conn = conn
    Stmt = {s1}
    Var = {v1}
    Lob = {l1, l2}
    None = none
    Params = 1
    Rows = 2
    LobColumn = TRUE
    NonNullLobs = TRUE
    DefineMayFail = FALSE
    ReExecutions = 0
CHECK_DEADLOCK FALSE
INVARIANTS NoDanglingPointer
