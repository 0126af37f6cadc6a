------------------------------ MODULE BanLedger ------------------------------
(***************************************************************************)
(* What the ip_bans table promises, whoever writes it: a ledger of bans.   *)
(* A ban is opened once for a target and a scope, may be widened to the    *)
(* global scope, and is closed once and for good; at most one open ban has *)
(* a given target and scope (the partial unique index of migration 032).   *)
(* The services that write the table in several steps, from rows they read *)
(* earlier, are shown to implement it.                                     *)
(***************************************************************************)
CONSTANTS Id, Target, Scope, Global

VARIABLE ledger   \* the bans opened so far, by id

\* No open ban of the table has this target and scope.
Free(t, s) ==
    \A j \in DOMAIN ledger :
        ~ (ledger[j].open /\ ledger[j].target = t /\ ledger[j].scope = s)

Init ==
    /\ DOMAIN ledger \subseteq Id
    /\ \A i, j \in DOMAIN ledger :
         /\ ledger[i].open /\ ledger[j].open
         /\ ledger[i].target = ledger[j].target
         /\ ledger[i].scope = ledger[j].scope
         => i = j

Open ==
    \E i \in Id \ DOMAIN ledger, t \in Target, s \in Scope :
        /\ Free(t, s)
        /\ ledger' = [j \in DOMAIN ledger \cup {i} |->
                        IF j = i THEN [target |-> t, scope |-> s, open |-> TRUE]
                                 ELSE ledger[j]]

Widen ==
    \E i \in DOMAIN ledger :
        /\ ledger[i].open
        /\ Free(ledger[i].target, Global)
        /\ ledger' = [ledger EXCEPT ![i].scope = Global]

Close ==
    \E S \in SUBSET DOMAIN ledger :
        /\ \A i \in S : ledger[i].open
        /\ ledger' = [j \in DOMAIN ledger |->
                        IF j \in S THEN [ledger[j] EXCEPT !.open = FALSE]
                                   ELSE ledger[j]]

Next == Open \/ Widen \/ Close

Spec == Init /\ [][Next]_ledger
=============================================================================
