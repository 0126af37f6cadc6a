SPECIFICATION FairStart
PROPERTIES NeededIsKept OperatorEntriesStay Converges
CONSTANTS
    a = a  kept = kept  v6 = v6
    Target = {a, kept, v6}
    Refused = {v6}
    Push = {p1, p2}
    Reconciler = reconciler
    Forced = {f}
    Purge = purge
    MassRows = 0
    MaxChanges = 2
    MaxFaults = 1
CHECK_DEADLOCK FALSE
