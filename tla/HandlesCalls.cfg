SPECIFICATION Spec
CONSTANTS
    Conn = conn
    Stmt = {s1, s2}
    Var = {v1, v2, v3, v4}
    Lob = {l1, l2, l3, l4}
    None = none
    Params = 1
    Rows = 2
    LobColumn = TRUE
    NonNullLobs = FALSE
    DefineMayFail = FALSE
    ReExecutions = 1
CHECK_DEADLOCK FALSE
INVARIANTS TypeOK CountsExact NoDanglingPointer NothingLeft
