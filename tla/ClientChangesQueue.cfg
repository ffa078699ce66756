CONSTANTS
    Entity = {e1}
    Existing = {}
    MaxJobs = 2
    BatchLimit = 2
    LoadLimit = 3
    MaxChanges = 2
    MaxNotices = 1
    MaxFaults = 1
SPECIFICATION FairSpec
INVARIANTS
    TypeOK
    DoneWasTried
    UpdatesNotStranded
PROPERTIES
    ChangesProcessed
CHECK_DEADLOCK FALSE
