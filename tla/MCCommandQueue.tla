-------------------------- MODULE MCCommandQueue --------------------------
(* CommandQueue for TLC.  The drains are interchangeable: the second is     *)
(* started only while the first is under way.  The server restarts during   *)
(* a drain or an acknowledgement; at other times it only disconnects.       *)
EXTENDS CommandQueue

CONSTANTS d1, d2

FirstDrainFirst ==
    drain[d2].pc = "idle" /\ drain'[d2].pc # "idle" => drain[d1].pc # "idle"

RestartInDrain ==
    crashes' # crashes => ackClears \/ \E d \in Drains : drain[d].pc # "idle"

FairInstance == Init /\ [][Next /\ FirstDrainFirst /\ RestartInDrain]_vars /\ Fairness
============================================================================
