--------------------------- MODULE RemoteBlocklist ---------------------------
(***************************************************************************)
(* A remote blocklist (remoteBlocklist.service.ts): its entries, synced    *)
(* from a URL or from obli.tools, and the global 'remote' bans an          *)
(* enforcing list keeps in line with them (reconcileListBans).  Syncs may  *)
(* overlap: the timer does not wait for the previous pass and an           *)
(* administrator may force one.  Administrators turn enforcement on and    *)
(* off, disable entries, lift bans and delete the list meanwhile; each of  *)
(* these is a sequence of statements, by ids or targets read before, and   *)
(* may end after any of them with an error.                                *)
(*                                                                         *)
(* A target passes BanSafety; an entry refused by it is never stored.      *)
(***************************************************************************)
EXTENDS Naturals, FiniteSets

CONSTANTS
    Id,          \* identifiers of ip_bans rows, handed out in ascending order
    Target,
    Kinds,       \* source types of the list: "url", "oblitools"
    Sources,     \* what the source may serve: verdict by target
    Sync,        \* syncs that may be in progress together
    Admin,       \* administrators' requests that may be in progress together
    MaxChanges,  \* bound: administrators' requests and changes elsewhere
    MaxFaults,   \* bound: operations that end with an error
    MaxOverlaps  \* bound: syncs that begin while another one is in progress

ASSUME ConstantsAssumption ==
    /\ Id \subseteq Nat
    /\ Kinds \subseteq {"url", "oblitools"}
    /\ \A f \in Sources : DOMAIN f \subseteq Target /\ \A t \in DOMAIN f : f[t] \in {"banned", "suspicious"}
    /\ Sync \cap Admin = {}
    /\ MaxChanges \in Nat /\ MaxFaults \in Nat /\ MaxOverlaps \in Nat

VARIABLES
    list,       \* the row of remote_blocklists; 'key': it has the api_key an
                \* obli.tools list needs, a URL list needs none
    entries,    \* remote_blocked_ips: by target; 'kept', the syncs in
                \* progress whose time stamp is not later than last_seen
    bans,       \* ip_bans: the global rows, from the list or from elsewhere
    whitelist,  \* globally whitelisted targets
    source,     \* what the remote source serves
    news,       \* targets it changed since the stored last_sync_at
    proc,       \* the operation each sync or request is in
    changes,
    faults,
    overlaps

vars == <<list, entries, bans, whitelist, source, news, proc, changes, faults, overlaps>>

Proc == Sync \cup Admin
Empty == [t \in {} |-> t]

\* 'got' is what the source answered and is not stored yet, 'older' the syncs
\* whose time stamp is not later than this one's, 'ids' the bans to
\* deactivate, 'cand' the targets the operation goes on with.
Idle == [pc |-> "idle", got |-> Empty, older |-> {}, ids |-> {}, cand |-> {}]
At(pc) == [Idle EXCEPT !.pc = pc]
Goes(p, c) == proc' = [proc EXCEPT ![p] = c]
-----------------------------------------------------------------------------
(* The bans, through ban.service.ts. *)

ListBan == [target : Target, remote : BOOLEAN, active : BOOLEAN]

\* deactivateRemoteBans, first statement: the list's active bans.
Mine == {i \in DOMAIN bans : bans[i].remote /\ bans[i].active}

\* Active global bans of a target, whatever their type.
Covering(t) == {i \in DOMAIN bans : bans[i].active /\ bans[i].target = t}

\* Fault: the index is keyed by ban_type too.
TakenByType(t, remote) == \E i \in Covering(t) : bans[i].remote = remote

\* idx_ip_bans_active_uniq: the key of a new global row has an active one.
Taken(t, remote) == Covering(t) # {}

\* deactivateBans by id.
Deactivated(ids) ==
    [i \in DOMAIN bans |-> IF i \in ids THEN [bans[i] EXCEPT !.active = FALSE] ELSE bans[i]]

FreshId(i) == i \in Id \ DOMAIN bans /\ \A j \in Id \ DOMAIN bans : i <= j

Inserted(i, t, remote) ==
    [j \in DOMAIN bans \cup {i} |->
       IF j = i THEN [target |-> t, remote |-> remote, active |-> TRUE] ELSE bans[j]]

\* Entries an enforcing list has a ban for.
Wanted(t) == t \in DOMAIN entries /\ entries[t].enabled /\ entries[t].status = "banned"
-----------------------------------------------------------------------------
(* A sync. *)

\* An obli.tools list without its key is not synced at all: the sync returns
\* at once, without the reconciliation too.
Syncable == list.exists /\ list.key

\* With the row comes its last_sync_at, and with that what the source changed
\* since.
BeginSync(p) ==
    LET others == {q \in Sync : proc[q] # Idle} IN
    /\ p \in Sync /\ proc[p] = Idle
    /\ Syncable
    /\ \/ others = {} /\ UNCHANGED overlaps
       \/ others # {} /\ overlaps < MaxOverlaps /\ overlaps' = overlaps + 1
    /\ Goes(p, [At("fetch") EXCEPT !.cand = news])
    /\ UNCHANGED <<list, entries, bans, whitelist, source, news, faults>>

\* syncAll, by the timer: the enabled lists.
TimerSync(p) == list.enabled /\ BeginSync(p) /\ UNCHANGED changes

\* forceSync, by an administrator: any list.
ForceSync(p) == changes < MaxChanges /\ BeginSync(p) /\ changes' = changes + 1

\* What the source answers: obli.tools only what changed since the
\* last_sync_at that was read.
Answer(p) ==
    IF list.kind = "url" THEN source
    ELSE [t \in DOMAIN source \cap proc[p].cand |-> source[t]]

Fetch(p) ==
    /\ proc[p].pc = "fetch"
    /\ Goes(p, [At("stamp") EXCEPT !.got = Answer(p)])
    /\ UNCHANGED <<list, entries, bans, whitelist, source, news, changes, faults, overlaps>>

\* Syncs that took their time stamp and have not pruned yet.
Stamped == {q \in Sync : proc[q].pc \in {"upsert", "prune"}}

\* The time stamp of a URL list's sync, later than those taken before it.  An
\* empty answer leaves the entries alone.
Stamp(p) ==
    /\ proc[p].pc = "stamp"
    /\ Goes(p, IF DOMAIN proc[p].got = {} THEN At("reconcile")
                ELSE [proc[p] EXCEPT !.pc = "upsert",
                        !.older = IF list.kind = "url" THEN {p} \cup Stamped ELSE {}])
    /\ UNCHANGED <<list, entries, bans, whitelist, source, news, changes, faults, overlaps>>

\* p goes on at c, and nothing compares with its time stamp any more.
Forgets(p, c, left) ==
    /\ entries' = [t \in DOMAIN left |-> [left[t] EXCEPT !.kept = @ \ {p}]]
    /\ proc' = [q \in Proc |-> IF q = p THEN c ELSE [proc[q] EXCEPT !.older = @ \ {p}]]

\* A URL list takes every line as a ban and keeps the verdict it stored; its
\* last_seen becomes the sync's time stamp, also when that sets it back.  An
\* obli.tools list follows the source's verdict.  'enabled' is the admin's.
Merged(t, got, keepers) ==
    IF t \notin DOMAIN entries
      THEN [enabled |-> TRUE, kept |-> keepers,
            status |-> IF list.kind = "url" THEN "banned" ELSE got[t]]
      ELSE [entries[t] EXCEPT !.kept = keepers,
                              !.status = IF list.kind = "url" THEN @ ELSE got[t]]

\* The upsert of the entries, one chunk after the other; on a list deleted
\* meanwhile the foreign key refuses it.
Upsert(p, t) ==
    LET got  == proc[p].got
        rest == [u \in DOMAIN got \ {t} |-> got[u]] IN
    /\ proc[p].pc = "upsert" /\ t \in DOMAIN got
    /\ IF list.exists
         THEN /\ entries' = [u \in DOMAIN entries \cup {t} |->
                               IF u = t THEN Merged(t, got, proc[p].older) ELSE entries[u]]
              /\ Goes(p, IF DOMAIN rest # {} THEN [proc[p] EXCEPT !.got = rest]
                         ELSE IF list.kind = "url"
                                THEN [proc[p] EXCEPT !.got = rest, !.pc = "prune"]
                                ELSE At("reconcile"))
         ELSE Forgets(p, Idle, entries)
    /\ UNCHANGED <<list, bans, whitelist, source, news, changes, faults, overlaps>>

\* Fault: nothing is dropped.
DroppedNone(p) == {}

\* Entries last seen before this sync's time stamp.
Dropped(p) == {t \in DOMAIN entries : p \notin entries[t].kept}

\* A URL list mirrors its source: what it no longer serves is dropped.
Prune(p) ==
    /\ proc[p].pc = "prune"
    /\ Forgets(p, At("reconcile"), [t \in DOMAIN entries \ Dropped(p) |-> entries[t]])
    /\ UNCHANGED <<list, bans, whitelist, source, news, changes, faults, overlaps>>
-----------------------------------------------------------------------------
(* reconcileListBans, in a sync or after an administrator's change. *)

\* What follows it: an obli.tools sync has its last_sync_at to write.
After(p) == IF p \in Sync /\ list.kind = "oblitools" THEN At("finish") ELSE Idle

\* Fault: a ban is kept as long as its entry is there, disabled or not.
StaleGone == IF list.exists /\ list.enforce
               THEN {i \in Mine : bans[i].target \notin DOMAIN entries} ELSE Mine

\* The stored flag decides; a list that is gone or does not enforce has no
\* ban, an enforcing one none without its entry.
Stale == IF list.exists /\ list.enforce
           THEN {i \in Mine : ~ Wanted(bans[i].target)} ELSE Mine

Reconcile(p) ==
    /\ proc[p].pc = "reconcile"
    /\ Goes(p, [At(IF list.exists /\ list.enforce THEN "lift" ELSE "drop") EXCEPT !.ids = Stale])
    /\ UNCHANGED <<list, entries, bans, whitelist, source, news, changes, faults, overlaps>>

\* The stale bans are deactivated by id ('remote_sync').
LiftStale(p) ==
    /\ proc[p].pc \in {"lift", "drop"}
    /\ bans' = Deactivated(proc[p].ids)
    /\ Goes(p, IF proc[p].pc = "lift" THEN At("select") ELSE After(p))
    /\ UNCHANGED <<list, entries, whitelist, source, news, changes, faults, overlaps>>

\* The entries without a covering ban...
Select(p) ==
    LET C == {t \in Target : Wanted(t) /\ Covering(t) = {}} IN
    /\ proc[p].pc = "select"
    /\ Goes(p, IF C = {} THEN After(p) ELSE [At("create") EXCEPT !.cand = C])
    /\ UNCHANGED <<list, entries, bans, whitelist, source, news, changes, faults, overlaps>>

\* ...that its INSERT ... SELECT finds neither covered by an active global ban
\* nor whitelisted (createRemoteBans)...
Skipped(t) == Covering(t) # {} \/ t \in whitelist

Lookup(p) ==
    LET C == {t \in proc[p].cand : ~ Skipped(t)} IN
    /\ proc[p].pc = "create"
    /\ Goes(p, IF C = {} THEN After(p) ELSE [At("insert") EXCEPT !.cand = C])
    /\ UNCHANGED <<list, entries, bans, whitelist, source, news, changes, faults, overlaps>>

\* ...get a row each, unless the unique index has one by now (ON CONFLICT DO
\* NOTHING).
Insert(p, t) ==
    LET rest == proc[p].cand \ {t} IN
    /\ proc[p].pc = "insert" /\ t \in proc[p].cand
    /\ \/ /\ ~ Taken(t, TRUE)
          /\ \E i \in Id : FreshId(i) /\ bans' = Inserted(i, t, TRUE)
       \/ /\ Taken(t, TRUE)
          /\ UNCHANGED bans
    /\ Goes(p, IF rest = {} THEN After(p) ELSE [proc[p] EXCEPT !.cand = rest])
    /\ UNCHANGED <<list, entries, whitelist, source, news, changes, faults, overlaps>>

\* last_sync_at; only an obli.tools list reads it again.
Finish(p) ==
    /\ proc[p].pc = "finish"
    /\ news' = IF list.exists THEN {} ELSE news
    /\ Goes(p, Idle)
    /\ UNCHANGED <<list, entries, bans, whitelist, source, changes, faults, overlaps>>
-----------------------------------------------------------------------------
(* Administrators. *)

Request(p, c) ==
    /\ p \in Admin /\ proc[p] = Idle
    /\ changes < MaxChanges /\ changes' = changes + 1
    /\ Goes(p, c)

\* A statement fails: what is done stays, the rest is not done.  A sync raises
\* its alert, a request answers with the error or logs it.
Fails(p) ==
    /\ proc[p] # Idle
    /\ faults < MaxFaults /\ faults' = faults + 1
    /\ Forgets(p, Idle, entries)
    /\ UNCHANGED <<list, bans, whitelist, source, news, changes, overlaps>>

\* update reads the row...
UpdateRead(p) ==
    /\ list.exists
    /\ Request(p, At(IF list.enforce THEN "updateOn" ELSE "updateOff"))
    /\ UNCHANGED <<list, entries, bans, whitelist, source, news, faults, overlaps>>

\* ...writes the patch, which may drop the key or give one, and reconciles
\* when the flag is not the one it read.
UpdateWrite(p, enforce, enabled, key) ==
    /\ proc[p].pc \in {"updateOn", "updateOff"}
    /\ list.kind = "url" => key
    /\ IF list.exists
         THEN /\ list' = [list EXCEPT !.enforce = enforce, !.enabled = enabled, !.key = key]
              /\ Goes(p, IF enforce = (proc[p].pc = "updateOn") THEN Idle ELSE At("reconcile"))
         ELSE Goes(p, Idle) /\ UNCHANGED list
    /\ UNCHANGED <<entries, bans, whitelist, source, news, changes, faults, overlaps>>

\* toggleIp: the entry...
ToggleIp(p, t) ==
    /\ t \in DOMAIN entries
    /\ entries' = [entries EXCEPT ![t].enabled = ~ @]
    /\ Request(p, At("toggled"))
    /\ UNCHANGED <<list, bans, whitelist, source, news, faults, overlaps>>

\* ...applied at once if the list, read after it, enforces.
ToggleApplies(p) ==
    /\ proc[p].pc = "toggled"
    /\ Goes(p, IF list.exists /\ list.enforce THEN At("reconcile") ELSE Idle)
    /\ UNCHANGED <<list, entries, bans, whitelist, source, news, changes, faults, overlaps>>

\* delete: the list's bans are deactivated...
Delete(p) ==
    /\ list.exists
    /\ Request(p, [At("unban") EXCEPT !.ids = Mine])
    /\ UNCHANGED <<list, entries, bans, whitelist, source, news, faults, overlaps>>

DeleteBans(p) ==
    /\ proc[p].pc = "unban"
    /\ bans' = Deactivated(proc[p].ids)
    /\ Goes(p, At("delete"))
    /\ UNCHANGED <<list, entries, whitelist, source, news, changes, faults, overlaps>>

\* ...then the row goes, and its entries with it.
DeleteRow(p) ==
    /\ proc[p].pc = "delete"
    /\ list' = [list EXCEPT !.exists = FALSE]
    /\ entries' = Empty
    /\ Goes(p, Idle)
    /\ UNCHANGED <<bans, whitelist, source, news, changes, faults, overlaps>>

\* banService.lift: the row, then the list entry behind it.
Lift(p, i) ==
    /\ i \in DOMAIN bans /\ bans[i].active
    /\ bans' = Deactivated({i})
    /\ Request(p, IF bans[i].remote THEN [At("disable") EXCEPT !.cand = {bans[i].target}] ELSE Idle)
    /\ UNCHANGED <<list, entries, whitelist, source, news, faults, overlaps>>

\* The entry of a lifted ban, after its update.
DisabledEntry(e) == [e EXCEPT !.enabled = FALSE]

DisableEntry(p) ==
    /\ proc[p].pc = "disable"
    /\ entries' = [t \in DOMAIN entries |->
                     IF t \in proc[p].cand THEN DisabledEntry(entries[t]) ELSE entries[t]]
    /\ Goes(p, Idle)
    /\ UNCHANGED <<list, bans, whitelist, source, news, changes, faults, overlaps>>

\* A global ban from elsewhere: an operator's, the engine's, an application's.
BanElsewhere(t) ==
    /\ changes < MaxChanges /\ changes' = changes + 1
    /\ ~ Taken(t, FALSE)
    /\ \E i \in Id : FreshId(i) /\ bans' = Inserted(i, t, FALSE)
    /\ UNCHANGED <<list, entries, whitelist, source, news, proc, faults, overlaps>>

ToggleWhitelist(t) ==
    /\ changes < MaxChanges /\ changes' = changes + 1
    /\ whitelist' = IF t \in whitelist THEN whitelist \ {t} ELSE whitelist \cup {t}
    /\ UNCHANGED <<list, entries, bans, source, news, proc, faults, overlaps>>

SourceChanges(f) ==
    /\ changes < MaxChanges /\ changes' = changes + 1
    /\ source' = f
    /\ LET new == {t \in DOMAIN f : t \notin DOMAIN source \/ source[t] # f[t]} IN
         /\ news' = news \cup new
         /\ proc' = [p \in Proc |-> IF proc[p].pc = "fetch"
                                    THEN [proc[p] EXCEPT !.cand = @ \cup new] ELSE proc[p]]
    /\ UNCHANGED <<list, entries, bans, whitelist, faults, overlaps>>
-----------------------------------------------------------------------------
Init ==
    /\ list \in [kind : Kinds, exists : {TRUE}, enforce : BOOLEAN, enabled : {TRUE}, key : BOOLEAN]
    /\ list.kind = "url" => list.key
    /\ entries = Empty /\ bans = Empty
    /\ whitelist = {}
    /\ source \in Sources /\ news = Target
    /\ proc = [p \in Proc |-> Idle]
    /\ changes = 0 /\ faults = 0 /\ overlaps = 0

SyncStep(p) ==
    \/ Fetch(p) \/ Stamp(p) \/ Prune(p) \/ Finish(p)
    \/ \E t \in Target : Upsert(p, t)

ReconcileStep(p) ==
    \/ Reconcile(p) \/ LiftStale(p) \/ Select(p) \/ Lookup(p)
    \/ \E t \in Target : Insert(p, t)

AdminStep(p) ==
    \/ \E enforce, enabled, key \in BOOLEAN : UpdateWrite(p, enforce, enabled, key)
    \/ ToggleApplies(p) \/ DeleteBans(p) \/ DeleteRow(p) \/ DisableEntry(p)

AdminRequest(p) ==
    \/ UpdateRead(p) \/ Delete(p)
    \/ \E t \in Target : ToggleIp(p, t)
    \/ \E i \in Id : Lift(p, i)

Next ==
    \/ \E p \in Sync : TimerSync(p) \/ ForceSync(p) \/ SyncStep(p)
    \/ \E p \in Proc : ReconcileStep(p) \/ Fails(p)
    \/ \E p \in Admin : AdminRequest(p) \/ AdminStep(p)
    \/ \E t \in Target : BanElsewhere(t) \/ ToggleWhitelist(t)
    \/ \E f \in Sources : SourceChanges(f)

Spec == Init /\ [][Next]_vars

\* The timer keeps firing, and what was started runs to its end.
Fairness ==
    /\ WF_vars(\E p \in Sync : TimerSync(p))
    /\ \A p \in Sync : WF_vars(SyncStep(p) \/ ReconcileStep(p))
    /\ \A p \in Admin : WF_vars(AdminStep(p) \/ ReconcileStep(p))

FairSpec == Spec /\ Fairness
-----------------------------------------------------------------------------
(* What is checked. *)

\* Type invariant.
TypeOK ==
    /\ list \in [kind : Kinds, exists : BOOLEAN, enforce : BOOLEAN, enabled : BOOLEAN, key : BOOLEAN]
    /\ DOMAIN entries \subseteq Target
    /\ \A t \in DOMAIN entries :
         entries[t] \in [enabled : BOOLEAN, kept : SUBSET Stamped, status : {"banned", "suspicious"}]
    /\ DOMAIN bans \subseteq Id
    /\ \A i \in DOMAIN bans : bans[i] \in ListBan
    /\ whitelist \subseteq Target /\ source \in Sources /\ news \subseteq Target
    /\ changes \in 0..MaxChanges /\ faults \in 0..MaxFaults /\ overlaps \in 0..MaxOverlaps

ledgerBar ==
    [i \in DOMAIN bans |->
       [target |-> bans[i].target, scope |-> "global", open |-> bans[i].active]]

Ledger == INSTANCE BanLedger WITH
    Scope <- {"global"}, Global <- "global", ledger <- ledgerBar

\* However syncs, Lifts and other bans interleave, the table stays a ledger:
\* one active global ban per target, and no row active again.
IsLedger == Ledger!Spec

\* Every target with its ban, and no ban without its entry.
InLine ==
    \A t \in Target :
        /\ list.enforce /\ Wanted(t) /\ t \notin whitelist => Covering(t) # {}
        /\ Covering(t) \cap Mine # {} => list.enforce /\ Wanted(t)

\* No two syncs in progress.
Alone == \A p, q \in Sync : proc[p] # Idle /\ proc[q] # Idle => p = q

\* A list the timer syncs.  Overlapping syncs of a URL list may go on dropping
\* entries the source serves: one that writes later than one with a later time
\* stamp sets last_seen back, and that one prunes it.
Steady == list.enabled /\ Syncable /\ (list.kind = "url" => Alone)

\* The bans of a list the timer goes on syncing end up in line with its
\* entries, whatever raced or failed before (reconcileListBans).
Converges == <>[]Steady => <>[]InLine

\* The entries of a URL list the timer goes on syncing end up those its source
\* serves, whatever overlapped or failed before (syncUrl).
Mirrors ==
    <>[](Steady /\ list.kind = "url" /\ DOMAIN source # {}) => <>[](DOMAIN entries = DOMAIN source)
=============================================================================
