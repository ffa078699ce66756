CONSTANTS
    MaxSockets = 5
    MaxAttempts = 1
    MaxResets = 2
    MaxMessages = 1
    MaxUser = 2
    MaxFaults = 1
    MaxRestarts = 1
SPECIFICATION FairSpec
INVARIANTS
    TypeOK
    LsnOfItsClient
    
    NoStraySocket
PROPERTIES
    Reconnects
CHECK_DEADLOCK FALSE
