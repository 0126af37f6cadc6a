SPECIFICATION FairStart
PROPERTIES IsLedger Converges Mirrors
CONSTANTS
    a = a  b = b  s1 = s1  s2 = s2  admin = admin
    Id <- Ids
    Target = {a, b}
    Kinds = {"url", "oblitools"}
    Sources <- Serves
    Sync = {s1, s2}
    Admin = {admin}
    MaxChanges = 1
    MaxFaults = 1
    MaxOverlaps = 2
CHECK_DEADLOCK FALSE
