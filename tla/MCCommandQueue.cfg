SPECIFICATION FairInstance
CONSTANTS
    d1 = d1  d2 = d2
    Types = {"uninstall", "restart"}
    Drains = {d1, d2}
    MaxRows = 2
    MaxConns = 2
    MaxCrashes = 1
INVARIANTS
    OneOutstanding
    WrittenOnce
PROPERTIES ResultStays EveryCommandCloses
CHECK_DEADLOCK FALSE
