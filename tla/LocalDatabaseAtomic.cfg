CONSTANTS
    Parent = {1, 2}
    Child = {11}
    NewChild = {}
    ParentOf <- MCParentOf
    MaxWrites = 3
    MaxBatches = 1
    MaxEdits = 0
    MaxStarts = 1
    MaxCrashes = 0
SPECIFICATION Spec
INVARIANTS
    BatchAtomic
CHECK_DEADLOCK FALSE
