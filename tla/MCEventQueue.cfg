SPECIFICATION FairSpec
CONSTANTS
    Capacity = 3
    BatchMax = 2
    Watchers = 2
    MaxEvents = 4
    MaxSessions = 2
INVARIANTS
    TypeOK
    NoSilentLoss
    DropAccounting
    InOrder
PROPERTY EveryEventSettles
