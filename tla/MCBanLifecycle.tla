--------------------------- MODULE MCBanLifecycle ---------------------------
(* BanLifecycle with one address, Default and one other tenant.  The table *)
(* starts with the other tenant's own ban or with an application's.  Each  *)
(* request creates or closes at most one ban of the address, and the one   *)
(* failure leads to at most one automatic ban and one more after each that *)
(* a request closes, so there are enough ids.  A new ban may expire: one   *)
(* that does not behaves like one whose expiry has not passed yet.  An     *)
(* automatic ban lasts five minutes at least, the lead of a clock at most: *)
(* the one failure is not ahead any more when it expires.                  *)
EXTENDS BanLifecycle

CONSTANTS a, def, ten, app

Ids == 1..(1 + MaxCalls + MaxFails)
Tables ==
    {<<NewRow(a, ten, "manual", ten, "never")>>, <<NewRow(a, "global", app, def, "later")>>}

CreatedExpire ==
    \A r \in Request :
        call'[r] # Idle => (call'[r].op = "create" => call'[r].row.exp = "later")

OutlastsLead ==
    \A i \in DOMAIN bans :
        bans[i].type = "auto" /\ bans'[i].exp # bans[i].exp => ahead[bans[i].target] = 0

FairInstance == Init /\ [][Next /\ CreatedExpire /\ OutlastsLead]_vars /\ WF_vars(EngineStep)
=============================================================================
