CONSTANTS
    Row = {r1, r2}
    Client = {c1}
    Caller = {cron, sync}
    WalBatchSize = 2
    StoreBatchSize = 2
    MaxCommits = 2
    MaxFaults = 1
SPECIFICATION FairSpec
INVARIANTS
    TypeOK
    HistoryPrefixClosed
    PositionCovered
    NotifiedRowsStored
    TransactionsWhole
    BoundedDuplicates
PROPERTIES
    PositionMonotone
    ImplementsChangeFeed
    PollerCatchesUp
    ClientsHear
CHECK_DEADLOCK FALSE
