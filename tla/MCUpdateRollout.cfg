SPECIFICATION Spec
INVARIANTS TypeOK CapAccounted
PROPERTIES SucceededStays
CONSTANTS
    d1 = d1  d2 = d2
    Device <- Devices
    Handler <- Paths
    Cap = 1  MaxOffers = 1
    Kinds = {"admin", "fault"}
    MaxEvents = 1
    Updaters = {d1}
    StartPolicy <- AllAuto
