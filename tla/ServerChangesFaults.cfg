CONSTANTS
    Parent = {1}
    Child = {2}
    Session = {s1, s2}
    Notice = {n1}
    ChunkSize = 2
    BatchSize = 2
    LiveLimit = 1
    MaxCommits = 2
    TxRows = 1
    MaxConnects = 2
    MaxFaults = 1
SPECIFICATION FairSpec

    
    
PROPERTIES
    SessionsEnd
CHECK_DEADLOCK FALSE
