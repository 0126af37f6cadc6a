---------------------------- MODULE MCAgentGate ----------------------------
(* AgentGate with two keys, as on a machine that is given a new one or was *)
(* cloned; the process of the first runs at the start.  The connections    *)
(* are interchangeable, and so are the administrators: the second is taken *)
(* only while the first is in use.                                         *)
EXTENDS AgentGate

CONSTANTS k1, s1, s2, a1, a2

Starts ==
    /\ Init
    /\ row.key = IF binding = "strict" THEN k1 ELSE None
    /\ running = [k \in Key |-> k = k1]

FirstSocketFirst ==
    sock[s2].st = "none" /\ sock'[s2].st # "none" => sock[s1].st # "none" \/ check[s1] # Idle

FirstAdminFirst ==
    admin[a2].pc = "idle" /\ admin'[a2].pc # "idle" => admin[a1].pc # "idle"

Instance == Starts /\ [][Next /\ FirstSocketFirst /\ FirstAdminFirst]_vars
FairInstance == Instance /\ Fairness
=============================================================================
