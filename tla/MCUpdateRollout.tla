-------------------------- MODULE MCUpdateRollout --------------------------
(* UpdateRollout with two agents, one on a command channel and the other   *)
(* pushing over HTTP; both start under 'auto', administrators change it.   *)
EXTENDS UpdateRollout

CONSTANTS d1, d2

Devices == {d1, d2}
Paths == {<<d1, "ws">>, <<d2, "http">>}
AllAuto == [d \in Devices |-> "auto"]
=============================================================================
