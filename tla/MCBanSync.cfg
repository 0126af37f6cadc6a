SPECIFICATION FairStart
INVARIANTS TypeOK NoLostWakeup ResyncExact PurgedStaysClean
PROPERTIES Converges
CONSTANTS
    a = a  v6 = v6
    Target = {a, v6}
    Unsupported = {v6}
    Appends = TRUE
    MaxLeft = 2
    MaxInFlight = 1
    MaxChanges = 1
    MaxResyncs = 1
    MaxFaults = 1
