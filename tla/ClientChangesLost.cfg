CONSTANTS
    Entity = {e1}
    Existing = {}
    MaxJobs = 2
    BatchLimit = 2
    LoadLimit = 3
    MaxChanges = 2
    MaxNotices = 0
    MaxFaults = 0
SPECIFICATION Spec
INVARIANTS
    NoChangeLost
CHECK_DEADLOCK FALSE
