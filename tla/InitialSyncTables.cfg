CONSTANTS
    Size <- TwoTables
    PageSize = 1
    Session = {s1}
    MaxWrites = 1
    MaxConnects = 2
    MaxBreaks = 1
    MaxFaults = 1
SPECIFICATION FairSpec
INVARIANTS
    TypeOK
    TablesDelivered
PROPERTIES
    SyncCompletes
CHECK_DEADLOCK FALSE
