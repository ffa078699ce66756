CONSTANTS
    Parent = {1}
    Child = {2}
    Session = {s1}
    Notice = {n1}
    ChunkSize = 1
    BatchSize = 2
    LiveLimit = 2
    MaxCommits = 3
    TxRows = 1
    MaxConnects = 1
    MaxFaults = 0
SPECIFICATION Spec
INVARIANTS
    TypeOK
    
    
    
CHECK_DEADLOCK FALSE
