SPECIFICATION Spec
CONSTANTS
    Conn = conn
    Stmt = {s1, s2}
    Var = {v1, v2, v3}
    Lob = {l1, l2, l3, l4}
    None = none
    Params = 1
    Rows = 2
    LobColumn = TRUE
    NonNullLobs = TRUE
    DefineMayFail = TRUE
    ReExecutions = 1
CHECK_DEADLOCK FALSE
INVARIANTS CountsSuffice
