CONSTANTS
    ShardCount = 3
    TotalSlots = 4
    HotKeyThreshold = 1
    MigrationBatchSize = 2
    Threads = {s, f, operator, rebalancer}
    Starters = {s}
    Finishers = {f}
    Requested <- MCRequested
    MaxVersion = 4
    BatchSize = 3
    operator = operator
    MaxLoad = 3
    ka = ka
    kb = kb
    kc = kc
    Keys = {ka, kb, kc}
    Values = {v}
    None = None
    SlotOf <- MCSlotOf
    Clients = {c1}
    rebalancer = rebalancer
    MaxOps = 4
SPECIFICATION FairSpec
INVARIANTS
    TablesAgree
    CachedMapIsCurrent
    PlannedIsCompleted
    WrittenIsFound
PROPERTY DropReturns
CHECK_DEADLOCK FALSE
