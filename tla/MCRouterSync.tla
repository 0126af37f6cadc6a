---------------------------- MODULE MCRouterSync ----------------------------
(* RouterSync with an address that everything may happen to, a second one   *)
(* that is enforced throughout and a third that the router refuses, banned  *)
(* at the start or not.  Every change of a ban may also be a mass change.   *)
EXTENDS RouterSync

CONSTANTS a, kept, v6

Start ==
    /\ Init
    /\ known = Target
    /\ <<kept, "global">> \in bans /\ <<kept, "local">> \notin bans /\ list[kept] = "tagged"
    /\ <<a, "global">> \in bans <=> <<a, "local">> \in bans
    /\ <<v6, "local">> \notin bans

OnlyOne ==
    changes' # changes =>
        /\ \A s \in Scopes : <<kept, s>> \in bans' <=> <<kept, s>> \in bans
        /\ list'[kept] = list[kept] /\ list'[v6] = list[v6]
        /\ <<v6, "local">> \notin bans' /\ (<<v6, "global">> \in bans' => <<v6, "global">> \in bans)
        /\ excluded' \cup whitelist' \subseteq {a}

FairStart == Start /\ [][Next /\ OnlyOne]_vars /\ Fairness
=============================================================================
