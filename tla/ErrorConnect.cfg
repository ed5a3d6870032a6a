SPECIFICATION Spec
CONSTANTS
    t1 = t1
    t2 = t2
    Threads = {t1, t2}
    Shared = Shared
    Nowhere = Nowhere
    MaxFailures = 1
CHECK_DEADLOCK FALSE
INVARIANTS EveryLeftIsOwn
