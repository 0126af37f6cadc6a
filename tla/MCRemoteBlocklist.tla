------------------------- MODULE MCRemoteBlocklist -------------------------
(* RemoteBlocklist with two targets.  The source serves one, and may turn  *)
(* to both, to the other, to another verdict or to nothing.  The changes   *)
(* lead to fewer bans than there are ids.                                  *)
EXTENDS RemoteBlocklist

CONSTANTS a, b, s1, s2, admin

Ids == 1..7
Serves ==
    {[t \in {a} |-> "banned"], [t \in {b} |-> "banned"], [t \in {a, b} |-> "banned"],
     [t \in {a} |-> "suspicious"], Empty}

Start == Init /\ source = [t \in {a} |-> "banned"]

FairStart == Start /\ [][Next]_vars /\ Fairness
=============================================================================
