CONSTANTS
    Client = {c1, c2}
    Row = {r1}
    MaxEdits = 3
    MaxReloads = 1
SPECIFICATION FairSpec
INVARIANTS
    TypeOK
    

    
CHECK_DEADLOCK FALSE
