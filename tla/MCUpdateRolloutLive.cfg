SPECIFICATION FairSpec
PROPERTIES EveryAgentOffered UpdateRecorded
CONSTANTS
    d1 = d1  d2 = d2
    Device <- Devices
    Handler <- Paths
    Cap = 1  MaxOffers = 1
    Kinds = {"fault"}
    MaxEvents = 1
    Updaters = {d1}
    StartPolicy <- AllAuto
