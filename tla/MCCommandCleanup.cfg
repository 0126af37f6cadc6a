SPECIFICATION Spec
CONSTANTS
    d1 = d1  d2 = d2
    Types = {"uninstall"}
    Drains = {d1, d2}
    MaxRows = 2
    MaxConns = 2
    MaxCrashes = 0
INVARIANT CleanupOnlyAfterWrite
CHECK_DEADLOCK FALSE
