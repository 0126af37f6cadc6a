----------------------------- MODULE MCBanSync -----------------------------
(* BanSync with an address that may be or become one of the agent's own, and  *)
(* an IPv6 one that the appending backend refuses. The firewall is empty, or  *)
(* an earlier agent left two rules of an entry the guard now refuses;         *)
(* changes, resyncs and faults do the rest.                                   *)
EXTENDS BanSync

CONSTANTS a, v6

Start ==
    /\ Init /\ wanted = {a}
    /\ \/ unsafe = {} /\ rules[a] = 0
       \/ unsafe = {a} /\ rules[a] = 2

FairStart == Start /\ [][Next]_vars /\ Fairness
=============================================================================
