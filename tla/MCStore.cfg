SPECIFICATION SuiteSpec
CONSTANTS
    mapping = mapping
    parse = parse
    None = None
    Untouched = Untouched
    Key = {1, 2}
    Id = {1, 2, 3}
    Time = {1, 2, 3}
    Milli = 2
    Type <- MCType
    Op <- MCOp
    Workload <- MCWorkload
    ListFilter <- MCListFilter
    Filter <- MCFilter
    MaxDLQ = 2
    Limit = {0, 1}
    SyncWrites = FALSE
    MaxOps = 5
CHECK_DEADLOCK FALSE
INVARIANT StoresAgree
INVARIANT PagingExact
PROPERTY ChangeExact
PROPERTY PebbleKeepsContract
