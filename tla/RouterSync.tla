----------------------------- MODULE RouterSync -----------------------------
(***************************************************************************)
(* The address-list of ONE MikroTik router of a tenant, as the server      *)
(* keeps it in line with the bans (mikrotikBanSync.service.ts): every      *)
(* change of a ban starts a fire-and-forget push, fullSync reconciles the  *)
(* whole list (hourly, after a mass change, on an operator's request), and *)
(* the deletion of the tenant purges it.  All of these run concurrently,   *)
(* read the table and the router at different moments, and act on what     *)
(* they read by the router's entry ids; operators edit the list too.       *)
(*                                                                         *)
(* The router (external, RouterOS): an address has at most one entry in    *)
(* the list, a second 'add' is answered "already have such entry", and an  *)
(* id is never used again.  An entry is named by its address here: 'ids'   *)
(* holds the entries an operation read that are still the same ones.       *)
(* An address stands for a safe, unexpired target; an IPv6 one is refused  *)
(* by /ip/firewall/address-list.  A command that takes more than 15 s is   *)
(* given up, but its answer may still come: on the same connection it is   *)
(* then taken for the answer of the next command.                          *)
(***************************************************************************)
EXTENDS Naturals, FiniteSets

CONSTANTS
    Target,
    Refused,     \* targets the router does not take
    Push,        \* pushes that may be in progress together
    Reconciler,  \* the run of reconcileAll: one at a time
    Forced,      \* fullSyncs an operator may have in progress
    Purge,       \* the purge of the tenant's deletion
    MassRows,    \* LIFT_MIKROTIK_MAX_ROWS
    MaxChanges,  \* bound: changes by people and services
    MaxFaults    \* bound: failing connections and commands

ASSUME ConstantsAssumption ==
    /\ Refused \subseteq Target
    /\ Push \cap Forced = {}
    /\ Reconciler \notin Push \cup Forced /\ Purge \notin Push \cup Forced
    /\ Reconciler # Purge
    /\ MassRows \in Nat /\ MaxChanges \in Nat /\ MaxFaults \in Nat

VARIABLES
    bans,       \* active bans that concern the tenant: <<target, scope>>
    excluded,   \* targets whose global ban the tenant excluded
    known,      \* targets that have a row in ip_bans
    whitelist,  \* targets whitelisted for the tenant
    list,       \* the router's entry of each address
    device,     \* "approved", "deleting" or "deleted"
    proc,       \* the operations in progress
    changes, faults

table == <<bans, excluded, known, whitelist>>
vars == <<bans, excluded, known, whitelist, list, device, proc, changes, faults>>

Sync == Forced \cup {Reconciler}
Proc == Push \cup Sync \cup {Purge}
Scopes == {"global", "local"}

\* 'add' and 'rem' are the addresses left to add and to remove, 'ids' the
\* entries left to remove by id, 'read' whether the comments could be read,
\* 'due' the answer that is still to come to a command given up or answered
\* by an earlier answer.  History: 'late', what came to be enforced since the
\* operation decided; 'astray', 'ids' come from another command's answer.
Idle == [op |-> "none", pc |-> "idle", add |-> {}, rem |-> {}, ids |-> {},
         read |-> FALSE, due |-> {}, late |-> {}, astray |-> FALSE]

Goes(p, c) == proc' = [proc EXCEPT ![p] = c]

\* tenantsStillWanting: a ban of the tenant's, or a global one it did not exclude.
Wants(b, x, t) == <<t, "local">> \in b \/ (<<t, "global">> \in b /\ t \notin x)
Wanted(t) == Wants(bans, excluded, t)

\* computeBanDelta's set for the router, which the whitelist narrows.
Delivered(t) == Wanted(t) /\ t \notin whitelist
-----------------------------------------------------------------------------
(* The bans change (ban.service.ts). *)

Change == changes < MaxChanges /\ changes' = changes + 1

\* The operations in progress, told what the change brings into force.
Told(b, x, w) ==
    LET new == {t \in Target : Wants(b, x, t) /\ t \notin w /\ ~ Delivered(t)} IN
    [p \in Proc |-> IF proc[p] = Idle THEN Idle ELSE [proc[p] EXCEPT !.late = @ \cup new]]

\* A change of the rows, with the push it starts.
ChangeWithPush(p, b, x, op, t) ==
    /\ Change
    /\ proc[p] = Idle
    /\ bans' = b /\ excluded' = x /\ known' = known \cup {t}
    /\ proc' = [Told(b, x, whitelist) EXCEPT
                  ![p] = [Idle EXCEPT !.op = op, !.pc = "check",
                                      !.add = IF op = "unban" THEN {} ELSE {t},
                                      !.rem = IF op = "unban" THEN {t} ELSE {}]]
    /\ UNCHANGED <<whitelist, list, device, faults>>

\* Creation, by a person, the engine, a blocklist or an application.
Create(p, t, s) ==
    /\ <<t, "global">> \notin bans /\ <<t, s>> \notin bans
    /\ ChangeWithPush(p, bans \cup {<<t, s>>}, excluded,
                      IF s = "global" THEN "ban" ELSE "banHere", t)

PromoteToGlobal(p, t) ==
    /\ <<t, "local">> \in bans /\ <<t, "global">> \notin bans
    /\ ChangeWithPush(p, (bans \ {<<t, "local">>}) \cup {<<t, "global">>}, excluded, "ban", t)

\* deactivateBans; the exclusions of a global row no longer matter.
Lift(p, t, s) ==
    /\ <<t, s>> \in bans
    /\ ChangeWithPush(p, bans \ {<<t, s>>},
                      IF s = "global" THEN excluded \ {t} ELSE excluded, "unban", t)

ExcludeForTenant(p, t) ==
    /\ <<t, "global">> \in bans /\ t \notin excluded
    /\ ChangeWithPush(p, bans, excluded \cup {t}, "unban", t)

RemoveExclusion(p, t) ==
    /\ t \in excluded
    /\ ChangeWithPush(p, bans, excluded \ {t}, "banHere", t)

\* reconcileMikrotik: a run still in progress makes it a no-op.
Reconciled(procs) ==
    IF procs[Reconciler] = Idle /\ device # "deleted"
      THEN [procs EXCEPT ![Reconciler] = [Idle EXCEPT !.op = "sync", !.pc = "connect"]]
      ELSE procs

\* Many bans lifted, or created by a blocklist, at once: no push.
MassChange(S) ==
    LET b == IF S \subseteq bans THEN bans \ S ELSE bans \cup S
        x == excluded \ {e[1] : e \in S}
    IN  /\ Cardinality(S) > MassRows
        /\ S \subseteq bans \/ \A e \in S : e[2] = "global" /\ e \notin bans
        /\ Change
        /\ bans' = b /\ excluded' = x
        /\ known' = known \cup {e[1] : e \in S}
        /\ proc' = Reconciled(Told(b, x, whitelist))
        /\ UNCHANGED <<whitelist, list, device, faults>>

\* The whitelist reaches the routers with the next fullSync only.
ToggleWhitelist(t) ==
    LET w == IF t \in whitelist THEN whitelist \ {t} ELSE whitelist \cup {t} IN
    /\ Change
    /\ whitelist' = w
    /\ proc' = Told(bans, excluded, w)
    /\ UNCHANGED <<bans, excluded, known, list, device, faults>>
-----------------------------------------------------------------------------
(* The router. *)

\* The entries an answer names, and whether it is a refusal.
Reply == [names : SUBSET Target, trap : BOOLEAN]
Nothing == [names |-> {}, trap |-> FALSE]
Trap == [names |-> {}, trap |-> TRUE]

\* sendAndWait, for an operation c and a command the router answers with own:
\* the next answer to arrive, and the one that is then still to come.  What
\* arrived before the command was sent is dropped.
Answers(c, own) ==
    {[got |-> own, due |-> {}]} \cup {[got |-> r, due |-> {own}] : r \in c.due}

Listed == {t \in Target : list[t] # "none"}

\* The entries of S are no longer the ones anybody read.
Without(S, r) == [r EXCEPT !.names = @ \ S]
Forgotten(S) ==
    [p \in Proc |-> [proc[p] EXCEPT !.ids = @ \ S, !.due = {Without(S, r) : r \in @}]]

\* An operator adds an entry without the tag, or removes one.
OperatorEdits(t) ==
    /\ Change
    /\ list' = [list EXCEPT ![t] = IF @ = "none" THEN "operator" ELSE "none"]
    /\ proc' = Forgotten({t})
    /\ UNCHANGED <<table, device, faults>>

\* A connection or a command fails or times out: the operation ends.
Fails(p) ==
    /\ proc[p].pc \notin {"idle", "check"}
    /\ faults < MaxFaults /\ faults' = faults + 1
    /\ Goes(p, Idle)
    /\ UNCHANGED <<table, list, device, changes>>

\* The credentials are read; without them the operation ends.
Connect(p) ==
    /\ proc[p].pc = "connect"
    /\ Goes(p, IF device = "deleted" THEN Idle
               ELSE [proc[p] EXCEPT !.pc = CASE proc[p].op = "sync" -> "current"
                                             [] proc[p].op = "purge" -> "entries"
                                             [] proc[p].op = "unban" -> "unban"
                                             [] OTHER -> "add"])
    /\ UNCHANGED <<table, list, device, changes, faults>>

\* What an operation goes on with once nothing is left to add.
AfterAdds(c) ==
    CASE c.op # "sync" -> Idle
      [] c.op = "sync" /\ c.read /\ c.ids # {} -> [c EXCEPT !.pc = "remove"]
      [] c.op = "sync" /\ ~ c.read /\ c.rem # {} -> [c EXCEPT !.pc = "known"]
      [] OTHER -> Idle

\* banIP: an entry of the address, tagged or not, stays as it is; a refusal
\* ends the operation.
BanIP(p, t) ==
    /\ proc[p].pc = "add" /\ t \in proc[p].add
    /\ list' = [list EXCEPT ![t] = IF @ = "none" /\ t \notin Refused THEN "tagged" ELSE @]
    /\ \E r \in Answers(proc[p], IF t \in Refused THEN Trap ELSE Nothing) :
         LET c == [proc[p] EXCEPT !.add = @ \ {t}, !.due = r.due] IN
           Goes(p, IF r.got.trap THEN Idle ELSE IF c.add = {} THEN AfterAdds(c) ELSE c)
    /\ UNCHANGED <<table, device, changes, faults>>

\* unbanIP: the entries in the answer to its print, the one of the address,
\* whoever added it...
FindEntry(p, t) ==
    /\ proc[p].pc = "unban" /\ t \in proc[p].rem
    /\ \E r \in Answers(proc[p], [Nothing EXCEPT !.names = Listed \cap {t}]) :
         LET c == [proc[p] EXCEPT !.rem = @ \ {t}, !.due = r.due] IN
           Goes(p, IF r.got.names # {}
                     THEN [c EXCEPT !.pc = "remove", !.ids = r.got.names, !.astray = r.due # {}]
                   ELSE IF c.rem = {} THEN Idle ELSE c)
    /\ UNCHANGED <<table, list, device, changes, faults>>

AfterRemoval(c) ==
    IF c.ids # {} THEN c ELSE IF c.rem # {} /\ ~ c.read THEN [c EXCEPT !.pc = "unban"] ELSE Idle

\* ...is removed by id, one command at a time...
RemoveEntry(p, t) ==
    /\ proc[p].pc = "remove" /\ proc[p].op # "purge" /\ t \in proc[p].ids
    /\ list' = [list EXCEPT ![t] = "none"]
    /\ \E r \in Answers(proc[p], Nothing) :
         proc' = [Forgotten({t}) EXCEPT
                    ![p] = AfterRemoval([proc[p] EXCEPT !.ids = @ \ {t}, !.due = r.due])]
    /\ UNCHANGED <<table, device, changes, faults>>

\* ...and a command for an entry that is gone is refused, which is ignored.
RemoveRefused(p) ==
    /\ proc[p].pc = "remove" /\ proc[p].op # "purge" /\ proc[p].ids = {}
    /\ \E r \in Answers(proc[p], Nothing) : Goes(p, AfterRemoval([proc[p] EXCEPT !.due = r.due]))
    /\ UNCHANGED <<table, list, device, changes, faults>>
-----------------------------------------------------------------------------
(* pushBanToAll. *)

\* Fault: only global bans are looked at before an unban.
StillWantedGlobal(t) == <<t, "global">> \in bans /\ t \notin excluded

\* Never drop an address the router still enforces for another ban.
StillWanted(t) == Wanted(t)

\* The lookup before the push: a global ban skips a tenant that excluded it,
\* an unban one that still wants the address.
PushCheck(p) ==
    LET c == proc[p] IN
    /\ p \in Push /\ c.pc = "check"
    /\ Goes(p, IF \/ device = "deleted"
                  \/ c.op = "ban" /\ c.add \subseteq excluded
                  \/ c.op = "unban" /\ \A t \in c.rem : StillWanted(t)
               THEN Idle ELSE [c EXCEPT !.pc = "connect", !.late = {}])
    /\ UNCHANGED <<table, list, device, changes, faults>>
-----------------------------------------------------------------------------
(* fullSync. *)

\* The timer of the reconciler, or an operator's request.
StartSync(p) ==
    /\ p \in Sync /\ proc[p] = Idle
    /\ device # "deleted"
    /\ IF p = Reconciler THEN UNCHANGED changes ELSE Change
    /\ Goes(p, [Idle EXCEPT !.op = "sync", !.pc = "connect"])
    /\ UNCHANGED <<table, list, device, faults>>

\* getBannedIPs: the addresses on the list.
ReadCurrent(p) ==
    /\ proc[p].pc = "current"
    /\ Goes(p, [proc[p] EXCEPT !.pc = "entries",
                               !.rem = Listed])
    /\ UNCHANGED <<table, list, device, changes, faults>>

\* Fault: the comment is not looked at.
TaggedAny == Listed

\* The entries whose comment carries the Obliguard tag.
Tagged == {t \in Target : list[t] = "tagged"}

\* listEntries: ids and comments.  A print that times out leaves fullSync
\* without them; its answer, or the rest of it, may still be to come.
ReadEntries(p) ==
    /\ proc[p].pc = "entries" /\ proc[p].op = "sync"
    /\ \/ /\ Goes(p, [proc[p] EXCEPT !.pc = "delta", !.ids = Tagged, !.read = TRUE])
          /\ UNCHANGED faults
       \/ /\ faults < MaxFaults /\ faults' = faults + 1
          /\ \/ Goes(p, [proc[p] EXCEPT !.pc = "delta"])
             \/ \E S \in SUBSET Listed :
                  Goes(p, [proc[p] EXCEPT !.pc = "delta", !.due = {[Nothing EXCEPT !.names = S]}])
    /\ UNCHANGED <<table, list, device, changes>>

\* Fault: what is missing is left to the pushes.
MissingNone(current) == {}

\* The delta's additions.
Missing(current) == {t \in Target : Delivered(t) /\ t \notin current}

\* computeBanDelta: missing addresses to add, unwanted ones to remove.
ReadDelta(p) ==
    LET c == proc[p]
        unwanted == {t \in c.rem : ~ Delivered(t)}
        d == [c EXCEPT !.pc = "add", !.add = Missing(c.rem), !.rem = unwanted,
                       !.ids = @ \cap unwanted, !.late = {}]
    IN  /\ c.pc = "delta"
        /\ Goes(p, IF d.add = {} THEN AfterAdds(d) ELSE d)
        /\ UNCHANGED <<table, list, device, changes, faults>>

\* Without comments, only addresses that Obliguard banned at some point.
ReadKnown(p) ==
    LET c == [proc[p] EXCEPT !.pc = "unban", !.rem = @ \cap known] IN
    /\ proc[p].pc = "known"
    /\ Goes(p, IF c.rem = {} THEN Idle ELSE c)
    /\ UNCHANGED <<table, list, device, changes, faults>>
-----------------------------------------------------------------------------
(* The deletion of the tenant: the routers first, then the rows. *)

DeleteTenant ==
    /\ device = "approved"
    /\ Change
    /\ device' = "deleting"
    /\ Goes(Purge, [Idle EXCEPT !.op = "purge", !.pc = "connect"])
    /\ UNCHANGED <<table, list, faults>>

\* purgeDevice: the tagged entries, or none when they cannot be read (Fails).
PurgeRead ==
    /\ proc[Purge].pc = "entries"
    /\ Goes(Purge, IF Tagged = {} THEN Idle
                   ELSE [proc[Purge] EXCEPT !.pc = "remove", !.ids = Tagged, !.rem = Tagged])
    /\ UNCHANGED <<table, list, device, changes, faults>>

\* One command for a batch of ids; with one that is gone it is refused,
\* after some or none of the others.
PurgeRemove ==
    LET c == proc[Purge] IN
    /\ c.pc = "remove"
    /\ \E S \in SUBSET c.ids :
         /\ c.ids = c.rem => S = c.ids
         /\ list' = [t \in Target |-> IF t \in S THEN "none" ELSE list[t]]
         /\ proc' = [Forgotten(S) EXCEPT ![Purge] = Idle]
    /\ UNCHANGED <<table, device, changes, faults>>

\* deleteWithData, after the purge or once it has timed out.
DeleteRows ==
    /\ device = "deleting"
    /\ \/ proc[Purge] = Idle /\ UNCHANGED faults
       \/ proc[Purge] # Idle /\ faults < MaxFaults /\ faults' = faults + 1
    /\ device' = "deleted"
    /\ UNCHANGED <<table, list, proc, changes>>
-----------------------------------------------------------------------------
\* Whatever an earlier run of the server left.
Init ==
    /\ bans \in SUBSET (Target \X Scopes)
    /\ excluded = {} /\ whitelist = {}
    /\ known \in SUBSET Target /\ {e[1] : e \in bans} \subseteq known
    /\ list \in [Target -> {"none", "operator", "tagged"}]
    /\ Tagged \subseteq known /\ Listed \cap Refused = {}
    /\ device = "approved"
    /\ proc = [p \in Proc |-> Idle]
    /\ changes = 0 /\ faults = 0

BanChange(p, t) ==
    \/ \E s \in Scopes : Create(p, t, s) \/ Lift(p, t, s)
    \/ PromoteToGlobal(p, t) \/ ExcludeForTenant(p, t) \/ RemoveExclusion(p, t)

Step(p) ==
    \/ PushCheck(p) \/ Connect(p)
    \/ \E t \in Target : BanIP(p, t) \/ FindEntry(p, t) \/ RemoveEntry(p, t)
    \/ RemoveRefused(p)
    \/ ReadCurrent(p) \/ ReadEntries(p) \/ ReadDelta(p) \/ ReadKnown(p)

Next ==
    \/ \E p \in Push, t \in Target : BanChange(p, t)
    \/ \E S \in SUBSET (Target \X Scopes) : MassChange(S)
    \/ \E t \in Target : ToggleWhitelist(t) \/ OperatorEdits(t)
    \/ \E p \in Sync : StartSync(p)
    \/ \E p \in Proc : Step(p) \/ Fails(p)
    \/ DeleteTenant \/ PurgeRead \/ PurgeRemove \/ DeleteRows

Spec == Init /\ [][Next]_vars

\* What was started runs on (every command has a timeout) and the
\* reconciler's timer keeps firing.
Fairness ==
    /\ \A p \in Proc : WF_vars(Step(p))
    /\ WF_vars(StartSync(Reconciler))

FairSpec == Spec /\ Fairness
-----------------------------------------------------------------------------
(* What is checked. *)

Ops == {"none", "ban", "banHere", "unban", "sync", "purge"}
Places == {"idle", "check", "connect", "current", "entries", "delta", "add", "known", "unban",
           "remove"}
ProcRec == [op : Ops, pc : Places, add : SUBSET Target, rem : SUBSET Target,
            ids : SUBSET Target, read : BOOLEAN, due : SUBSET Reply, late : SUBSET Target,
            astray : BOOLEAN]

\* Every variable keeps its type.
TypeOK ==
    /\ bans \in SUBSET (Target \X Scopes)
    /\ excluded \subseteq Target /\ known \subseteq Target /\ whitelist \subseteq Target
    /\ list \in [Target -> {"none", "operator", "tagged"}]
    /\ device \in {"approved", "deleting", "deleted"}
    /\ proc \in [Proc -> ProcRec]
    /\ changes \in 0 .. MaxChanges /\ faults \in 0 .. MaxFaults

\* "An unban never removes an address a router still needs for another active
\* ban": an address the tenant enforces is removed only by an operation that
\* decided before the ban came into force, or by a fullSync whose listing timed
\* out and whose unbanIP took an earlier command's answer for its own.
NeededIsKept ==
    [][\A p \in Push \cup Sync, t \in Target :
         RemoveEntry(p, t) /\ Delivered(t) =>
            \/ t \in proc[p].late
            \/ proc[p].astray /\ proc[p].op = "sync" /\ ~ proc[p].read]_vars

\* fullSync and the purge never remove an operator's entry, not even one put
\* in the place of a tagged entry they read; only an unban by address, or a
\* fullSync without comments, may ("never operator entries").
OperatorEntriesStay ==
    [][\A t \in Target :
         /\ \A p \in Sync : RemoveEntry(p, t) /\ proc[p].read => list[t] = "tagged"
         /\ PurgeRemove /\ list[t] = "operator" => list'[t] = "operator"]_vars

\* The list holds what the tenant enforces, and no tagged entry besides.
InStep ==
    \A t \in Target :
        /\ Delivered(t) => list[t] # "none"
        /\ list[t] = "tagged" => Delivered(t)

\* Whatever pushes were lost, reordered or raced and whatever a late answer
\* did, the list of a router that stays ends up in step with the bans
\* (reconcileAll).  Not while one of them is of an address it refuses: every
\* fullSync then ends with that addition, before its removals.
Converges ==
    <>[](device = "approved" /\ \A t \in Refused : ~ Delivered(t)) => <>[]InStep
=============================================================================
