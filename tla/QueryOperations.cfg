SPECIFICATION PartSpec
CONSTANTS
    Ops = {"queryRaw", "query_", "queryOne", "queryExactlyOne", "queryJSON", "queryJSONList", "execute_"}
    Cells = {"null", "text", "clob", "blob", "odd"}
    MaxCols = 2
    MaxRows = 2
    Params = 2
    MayFail = {"prepare", "bind", "execute", "fetch", "count", "info", "value", "clob", "size", "read"}
    MaxResult = 3
    MaxExecutions = 2
    MaxSize = 2
    Var = {v1, v2}
    Dynamic = {v1}
    NoVar = NoVar
    Name = {n1, n2}
    Kinds = {"select", "dml", "returning", "plsql"}
    MaxCalls = 6
    MaxErrors = 1
    Handle = {h1, h2, h3, h4}
    MaxPieces = 3
    MaxReturned = 2
    MaxTransfers = 3
    Thorough = {"long_varchar", "clob"}
    MaxFailed = 1
    ChunkGrowth = 2
    Alphabet = {0, 48, 70, 102, 255}
    MaxLength = 3
CHECK_DEADLOCK FALSE
INVARIANTS
    TypesOK RightIsWhole CheckedIsReported LeftIsOwn
    RowsAreRight
    ErrorsAreCurrent CacheIsSound
    BoundIsSet ColumnsAreRead KeptIsUnchanged
    BytesComeBack
