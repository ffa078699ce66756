CONSTANTS
    Row = {r1}
    Client = {c1}
    Caller = {cron}
    WalBatchSize = 2
    StoreBatchSize = 1
    MaxCommits = 1
    MaxFaults = 1
SPECIFICATION Spec
INVARIANTS
    LsnOnlyAfterStored
CHECK_DEADLOCK FALSE
