SPECIFICATION PartSpec
CONSTANTS
    t1 = t1
    t2 = t2
    Threads = {t1, t2}
    Shared = Shared
    Nowhere = Nowhere
    MaxFailures = 2
    Calls = {t1, t2, t3}
    Chunk = 2
    MaxHandles = 6
    MaxSlots = 7
    Conn = {c1}
    Closers = {t1, t2}
    Sess = {s1, s2}
    NoSess = Nowhere
    ConnKinds = {"pooled", "standalone", "external"}
    Threaded = TRUE
    MaxConns = 2
    Loaders = {t1, t2}
    Nobody = Nowhere
    MaxAttempts = 3
    MaxProps = 2
    MaxElements = 2
    MaxMessages = 2
    MaxQueueErrors = 2
    Users = {t1, t2}
    Notifier = Shared
    NoThread = Nowhere
    MaxEvents = 2
    ListUsers = {t1, t2}
    Listed = {1, 2}
    SlotChunk = 1
    MaxListFailures = 1
    Keepers = {t1, t2}
    References = {1, 2, 3}
    NoHolder = Nowhere
    MaxCounted = 3
CHECK_DEADLOCK FALSE
INVARIANTS
    TypesOK LeftIsOwn NeverStale
    PoolIsSound
    IdleIsClean DeathNoticed ReleasedOnce
    SetUpOnce ReasonIsOwnOrInherited
    ListsAreKept HandedOverOnce NotificationsAreSafe FreedWithTheLast
