CONSTANTS
    Parent = {1}
    Child = {11}
    NewChild = {12}
    ParentOf <- MCParentOf
    MaxWrites = 2
    MaxBatches = 2
    MaxEdits = 1
    MaxStarts = 2
    MaxCrashes = 1
SPECIFICATION FairSpec
INVARIANTS
    TypeOK
    AckedIsApplied
    EditKept
    TrackedWasDone
    FailsOnlyWithCause
PROPERTIES
    TransactionEnds
CHECK_DEADLOCK FALSE
