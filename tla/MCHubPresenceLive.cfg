\* One channel at a time; a restart, or suspension, approval and tenant deletion.
CONSTANTS
    Sockets = {s1}
    Http = http
    NoSocket = none
    MaxConnects = 2
    MaxFaults = 1
    MaxAdmin = 1
    MaxSuspends = 1
    MaxHttp = 0
SPECIFICATION FairSpec
ACTION_CONSTRAINT OneTrouble
CHECK_DEADLOCK FALSE
INVARIANTS
    DeletedHasNoChannel
PROPERTIES
    SuspendedIsDisconnected
    AwayIsDeclared
    OnlineRecovers
    OnlineShownUp
