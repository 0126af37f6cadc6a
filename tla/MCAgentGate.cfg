SPECIFICATION FairInstance
INVARIANTS RevokedIsOut
PROPERTIES ServedIsOwner AgentAdmitted
CONSTANTS
    Key = {k1, k2}
    k1 = k1
    s1 = s1
    s2 = s2
    a1 = a1
    a2 = a2
    Socket = {s1, s2}
    Http = {h}
    Admin = {a1, a2}
    None = none
    Bindings = {"strict", "tenant"}
    MaxChanges = 2
    MaxFaults = 1
CHECK_DEADLOCK FALSE
