CONSTANTS
    Size <- SmallTables
    PageSize = 1
    Session = {s1}
    MaxWrites = 1
    MaxConnects = 1
    MaxBreaks = 0
    MaxFaults = 0
SPECIFICATION Spec
INVARIANTS
    SnapshotAtLSN
CHECK_DEADLOCK FALSE
