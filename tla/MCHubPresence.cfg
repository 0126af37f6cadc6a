CONSTANTS
    Sockets = {s1, s2}
    Http = http
    NoSocket = none
    MaxConnects = 2
    MaxFaults = 1
    MaxAdmin = 0
    MaxSuspends = 0
    MaxHttp = 1
SPECIFICATION Spec
SYMMETRY SocketSymmetry
CHECK_DEADLOCK FALSE
INVARIANTS
    OneChannel
    TimerMeansAway
    NoForgottenOutage
