---------------------------- MODULE BanLifecycle ----------------------------
(***************************************************************************)
(* The life of a ban (ban.service.ts): manual creation, promotion to       *)
(* global, Lift (single and bulk), per-tenant exclusion, wipe, expiry, the *)
(* push and withdrawal of a sibling application, and the automatic bans of *)
(* the BanEngine's cycle.  Every operation is a sequence of SQL statements *)
(* with an await between them: what it decides on is read in one step and  *)
(* written in a later one, and other requests, the expiry job and the      *)
(* engine run in between.                                                  *)
(*                                                                         *)
(* A target stands for a public address that passes BanSafety.  A tenant   *)
(* used as a scope stands for that tenant's 'tenant', 'group' and 'agent'  *)
(* scopes.  The callers hold the 'bans' capability on the tenant they      *)
(* operate.  An expiry is "never", "later" or "due".                       *)
(***************************************************************************)
EXTENDS Naturals, FiniteSets

CONSTANTS
    Id,         \* identifiers of ip_bans rows, handed out in ascending order
    Target,
    Tenant,
    Default,    \* the master tenant
    Attacked,   \* tenants whose agents report failures
    App,        \* sibling applications that push bans
    AutoExpiry, \* the durations of the automatic ban policy
    Request,    \* slots of the HTTP requests in progress together
    Start,      \* the tables the service may start on
    Threshold,  \* failures that make a candidate of the engine
    MaxFails,   \* bound: failures of an address over a behaviour
    MaxCalls    \* bound: requests over a behaviour

ASSUME ConstantsAssumption ==
    /\ Id \subseteq Nat
    /\ Default \in Tenant /\ Attacked \subseteq Tenant
    /\ "global" \notin Tenant /\ "system" \notin Tenant
    /\ App \cap {"manual", "auto"} = {}
    /\ AutoExpiry \subseteq {"never", "later"}
    /\ Request \subseteq Nat \ {0}
    /\ Threshold \in Nat \ {0} /\ MaxFails \in Nat /\ MaxCalls \in Nat

VARIABLES
    bans,        \* ip_bans: row by id
    exclusions,  \* ip_ban_exclusions: <<id, tenant>>
    whitelist,   \* ip_whitelist: <<target, scope>>
    seen,        \* ip_events: auth failures of an address received so far
    fresh,       \* of them, those stamped up to now that count: in the template's
                 \* window and newer than the lift watermark
    ahead,       \* of them, those stamped ahead of the server's clock
    call,        \* the operation each request, or the expiry job, is in
    engine,      \* the cycle of the BanEngine
    calls,       \* requests so far
    since,       \* history: failures received since the last global deactivation
                 \* of an address and stamped after it
    led          \* history: 'ahead' at that deactivation

table == <<exclusions, whitelist>>
counters == <<seen, fresh, ahead, since, led>>
vars == <<bans, exclusions, whitelist, seen, fresh, ahead, call, engine, calls, since, led>>

Scope == Tenant \cup {"global"}
Expiry == {"never", "later", "due"}
Reason == {"none", "lift", "wipe", "expiry", "withdraw"}
ExpiryJob == 0
Proc == Request \cup {ExpiryJob}

Row == [target : Target, scope : Scope, type : {"manual", "auto"} \cup App,
        origin : Tenant, exp : Expiry, active : BOOLEAN, reason : Reason,
        by : Tenant \cup {"system"}]

\* A new row; 'by', history, will be the tenant whose request closes it.
NewRow(t, s, ty, o, x) ==
    [target |-> t, scope |-> s, type |-> ty, origin |-> o, exp |-> x,
     active |-> TRUE, reason |-> "none", by |-> "system"]

\* The rows of the tables the service starts on, all in force: one per target
\* and scope, and the local ones made by hand for their tenant, since create is
\* the only operation that writes a local row.
ASSUME StartAssumption ==
    \A b \in Start :
        /\ DOMAIN b \subseteq Id
        /\ \A i \in DOMAIN b :
             /\ b[i] \in Row /\ b[i].active
             /\ b[i].reason = "none" /\ b[i].by = "system"
             /\ b[i].scope # "global" => b[i].type = "manual" /\ b[i].origin = b[i].scope
        /\ \A i, j \in DOMAIN b :
             b[i].target = b[j].target /\ b[i].scope = b[j].scope => i = j

Idle == [pc |-> "idle"]
EngineIdle == [pc |-> "idle", cand |-> {}, ids |-> {}, lifted |-> {}]
-----------------------------------------------------------------------------
(* The table. *)

Active(i) == i \in DOMAIN bans /\ bans[i].active

\* The active rows of a target in a scope: the key of the unique index.
Holders(t, s) == {i \in DOMAIN bans : Active(i) /\ bans[i].target = t /\ bans[i].scope = s}

\* Expired rows still flagged active.
Due(S) == {i \in S : Active(i) /\ bans[i].exp = "due"}

\* Rows a covering or duplicate lookup counts: active and not expired.
InForce(S) == {i \in S : Active(i) /\ bans[i].exp # "due"}

FreshId(i) == i \in Id \ DOMAIN bans /\ \A j \in Id \ DOMAIN bans : i <= j

Inserted(i, row) == [j \in DOMAIN bans \cup {i} |-> IF j = i THEN row ELSE bans[j]]

Lifted(row, reason, by) == [row EXCEPT !.active = FALSE, !.reason = reason, !.by = by]

\* Targets whose watermark (max lifted_at of their global rows) moves.
Marked(S) == {bans[i].target : i \in {j \in S : bans[j].scope = "global"}}

\* Fault: the watermark does not move.
NewerAlways(t, S) == fresh[t]

\* The failures stamped up to now that are newer than the new watermark, the
\* server's own clock.  Those stamped ahead of it stay newer.
Newer(t, S) == IF t \in Marked(S) THEN 0 ELSE fresh[t]

\* deactivateBans: the rows still active among ids.
Deactivate(ids, reason, by) ==
    LET S == {i \in ids : Active(i)}
    IN  /\ bans' = [i \in DOMAIN bans |->
                      IF i \in S THEN Lifted(bans[i], reason, by) ELSE bans[i]]
        /\ fresh' = [t \in Target |-> Newer(t, S)]
        /\ since' = [t \in Target |-> IF t \in Marked(S) THEN 0 ELSE since[t]]
        /\ led' = [t \in Target |-> IF t \in Marked(S) THEN ahead[t] ELSE led[t]]
        /\ UNCHANGED <<seen, ahead>>

\* The engine's history of what was deactivated since its aggregate was read.
EngineSees(ids) ==
    IF engine.pc = "idle" THEN engine
    ELSE [engine EXCEPT !.lifted = @ \cup Marked({i \in ids : Active(i)})]

\* whereWhitelistApplies: the entries a ban of scope s is checked against.
Whitelisted(t, s) == <<t, "global">> \in whitelist \/ <<t, s>> \in whitelist
-----------------------------------------------------------------------------
(* Requests.  A call takes the first free slot and goes through its pcs in  *)
(* order.                                                                  *)

Begin(r, c) ==
    /\ r \in Request
    /\ call[r] = Idle
    /\ \A q \in Request : q < r => call[q] # Idle
    /\ calls < MaxCalls
    /\ calls' = calls + 1
    /\ call' = [call EXCEPT ![r] = c]

Return(r) == call' = [call EXCEPT ![r] = Idle]

TargetOf(c) == IF c.op = "promote" THEN bans[c.id].target ELSE c.row.target

\* expireStale, first statement: the expired rows of the target, if any, are
\* what the request goes on with.
Stale(t) == Due({i \in DOMAIN bans : bans[i].target = t})
AfterStale(t) == IF Stale(t) = {} THEN "check" ELSE "purge"

\* create: the scope follows the operating tenant; from Default a local ban
\* is one with an explicit group or agent scope.
CreateScopes(w) == IF w = Default THEN {"global", w} ELSE {w}

Create(r, w, t, s, x) ==
    /\ s \in CreateScopes(w)
    /\ Begin(r, [op |-> "create", pc |-> AfterStale(t), who |-> w, ids |-> Stale(t),
                 row |-> NewRow(t, s, "manual", w, x)])
    /\ UNCHANGED <<bans, table, counters, engine>>

\* promoteToGlobal, from Default only: an active, unexpired local ban.
Promote(r, i) ==
    /\ i \in InForce(DOMAIN bans)
    /\ bans[i].scope # "global"
    /\ Begin(r, [op |-> "promote", pc |-> AfterStale(bans[i].target), who |-> Default,
                 ids |-> Stale(bans[i].target), id |-> i])
    /\ UNCHANGED <<bans, table, counters, engine>>

\* createFromExternal: refused on a whitelisted address before anything else;
\* the controller caps the duration, so the row always expires.
PushExternal(r, a, t) ==
    /\ ~ Whitelisted(t, "global")
    /\ Begin(r, [op |-> "external", pc |-> AfterStale(t), who |-> Default, ids |-> Stale(t),
                 row |-> NewRow(t, "global", a, Default, "later")])
    /\ UNCHANGED <<bans, table, counters, engine>>

\* expireStale, second statement: they are deactivated by id.
Purge(r) ==
    /\ call[r].pc = "purge"
    /\ Deactivate(call[r].ids, "expiry", "system")
    /\ engine' = EngineSees(call[r].ids)
    /\ call' = [call EXCEPT ![r].pc = "check", ![r].ids = {}]
    /\ UNCHANGED <<table, calls>>

\* pg_advisory_xact_lock on the target, held from the checks to the write.
LockFree(t) == \A q \in Request : call[q].pc = "write" => TargetOf(call[q]) # t

\* A ban that makes a new one of this row a duplicate.
Duplicates(t, s) == InForce(Holders(t, "global") \cup Holders(t, s))

\* The checks under the lock; a refusal ends the request.
Check(r) ==
    LET c == call[r]
        t == TargetOf(c)
        s == IF c.op = "create" THEN c.row.scope ELSE "global"
    IN  /\ c.pc = "check"
        /\ LockFree(t)
        /\ IF c.op = "external"
             THEN call' = [call EXCEPT ![r].pc = "write", ![r].ids = Holders(t, "global")]
             ELSE IF Whitelisted(t, s) \/ Duplicates(t, s) # {}
             THEN Return(r)
             ELSE call' = [call EXCEPT ![r].pc = "write"]
        /\ UNCHANGED <<bans, table, counters, engine, calls>>

\* The insert of create and of a new external ban; the unique index refuses
\* a second active row of the key, which ends the request too.
WriteRow(r) ==
    LET row == call[r].row IN
    /\ call[r].pc = "write" /\ call[r].op \in {"create", "external"}
    /\ call[r].ids = {}
    /\ \/ /\ Holders(row.target, row.scope) = {}
          /\ \E i \in Id : FreshId(i) /\ bans' = Inserted(i, row)
       \/ /\ Holders(row.target, row.scope) # {}
          /\ UNCHANGED bans
    /\ Return(r)
    /\ UNCHANGED <<table, counters, engine, calls>>

\* createFromExternal on the row found under the lock: a longer expiry for an
\* external one, by id; any other ban is left alone.
Extend(was, new) == IF was = "due" THEN new ELSE was

\* Fault: the row pushed again is active again.
RefreshRevives(row, new) ==
    IF row.type \in App THEN [row EXCEPT !.exp = Extend(row.exp, new), !.active = TRUE] ELSE row

Refresh(row, new) ==
    IF row.type \in App THEN [row EXCEPT !.exp = Extend(row.exp, new)] ELSE row

ExtendRow(r) ==
    /\ call[r].pc = "write" /\ call[r].op = "external"
    /\ \E i \in call[r].ids :
         bans' = [bans EXCEPT ![i] = Refresh(bans[i], call[r].row.exp)]
    /\ Return(r)
    /\ UNCHANGED <<table, counters, engine, calls>>

\* The update of promoteToGlobal: the row must still be active and local, and
\* the unique index refuses a second global one.
PromoteRow(r) ==
    LET i == call[r].id IN
    /\ call[r].pc = "write" /\ call[r].op = "promote"
    /\ IF Active(i) /\ bans[i].scope # "global" /\ Holders(bans[i].target, "global") = {}
         THEN bans' = [bans EXCEPT ![i].scope = "global"]
         ELSE UNCHANGED bans
    /\ Return(r)
    /\ UNCHANGED <<table, counters, engine, calls>>

\* Fault: the tenant whose agents triggered a ban may lift it for everyone.
PlanLiftOrigin(i, w) ==
    IF ~ Active(i) THEN "refuse"
    ELSE IF w \in {Default, bans[i].scope, bans[i].origin} THEN "deactivate"
    ELSE IF bans[i].scope = "global" THEN "exclude" ELSE "refuse"

\* planLift, on the row as it was read.
PlanLift(i, w) ==
    IF ~ Active(i) THEN "refuse"
    ELSE IF w = Default THEN "deactivate"
    ELSE IF bans[i].scope = "global" THEN "exclude"
    ELSE IF bans[i].scope = w THEN "deactivate" ELSE "refuse"

\* lift and bulkLift: the rows are read and planned...
Lift(r, w, S) ==
    LET D == {i \in S : PlanLift(i, w) = "deactivate"}
        E == {i \in S : PlanLift(i, w) = "exclude"}
    IN  /\ D \cup E # {}
        /\ Begin(r, [op |-> "lift", pc |-> IF E = {} THEN "deactivate" ELSE "exclude",
                     who |-> w, ids |-> D, out |-> E])
        /\ UNCHANGED <<bans, table, counters, engine>>

\* excludeForTenant: an active global ban.
ExcludeForTenant(r, w, i) ==
    /\ Active(i) /\ bans[i].scope = "global"
    /\ Begin(r, [op |-> "exclude", pc |-> "exclude", who |-> w, ids |-> {}, out |-> {i}])
    /\ UNCHANGED <<bans, table, counters, engine>>

\* ...then the exclusions are inserted...
Exclude(r) ==
    /\ call[r].pc = "exclude"
    /\ exclusions' = exclusions \cup {<<i, call[r].who>> : i \in call[r].out}
    /\ IF call[r].ids = {} THEN Return(r) ELSE call' = [call EXCEPT ![r].pc = "deactivate"]
    /\ UNCHANGED <<bans, whitelist, counters, engine, calls>>

ReasonOf(c) == IF c.op \in {"lift", "wipe", "withdraw"} THEN c.op ELSE "expiry"

\* ...and the planned rows deactivated by id, like those a wipe, a withdrawal
\* or the expiry job plucked.
Close(p) ==
    /\ call[p].pc = "deactivate"
    /\ Deactivate(call[p].ids, ReasonOf(call[p]), call[p].who)
    /\ engine' = EngineSees(call[p].ids)
    /\ Return(p)
    /\ UNCHANGED <<table, calls>>

RemoveExclusion(w, i) ==
    /\ <<i, w>> \in exclusions
    /\ exclusions' = exclusions \ {<<i, w>>}
    /\ UNCHANGED <<bans, whitelist, counters, call, engine, calls>>

\* wipeAll: Default's platform administrators.
WipeAll(r) ==
    LET S == {i \in DOMAIN bans : Active(i)} IN
    /\ S # {}
    /\ Begin(r, [op |-> "wipe", pc |-> "deactivate", who |-> Default, ids |-> S])
    /\ UNCHANGED <<bans, table, counters, engine>>

\* withdrawExternal: the active rows the application pushed for the address.
Withdraw(r, a, t) ==
    LET S == {i \in DOMAIN bans : Active(i) /\ bans[i].type = a /\ bans[i].target = t} IN
    /\ S # {}
    /\ Begin(r, [op |-> "withdraw", pc |-> "deactivate", who |-> "system", ids |-> S])
    /\ UNCHANGED <<bans, table, counters, engine>>

\* expireBans, every five minutes.
ExpireBans ==
    /\ call[ExpiryJob] = Idle
    /\ Due(DOMAIN bans) # {}
    /\ call' = [call EXCEPT ![ExpiryJob] =
                  [op |-> "expiry", pc |-> "deactivate", who |-> "system", ids |-> Due(DOMAIN bans)]]
    /\ UNCHANGED <<bans, table, counters, engine, calls>>

\* An expiry passes.
Elapse(i) ==
    /\ Active(i) /\ bans[i].exp = "later"
    /\ bans' = [bans EXCEPT ![i].exp = "due"]
    /\ UNCHANGED <<table, counters, call, engine, calls>>

\* whitelistService.create and delete: Default's entries are global.
WhitelistScope(w) == IF w = Default THEN "global" ELSE w

ToggleWhitelist(w, t) ==
    LET e == <<t, WhitelistScope(w)>> IN
    /\ calls < MaxCalls
    /\ calls' = calls + 1
    /\ whitelist' = IF e \in whitelist THEN whitelist \ {e} ELSE whitelist \cup {e}
    /\ UNCHANGED <<bans, exclusions, counters, call, engine>>
-----------------------------------------------------------------------------
(* The BanEngine. *)

\* Failures the aggregate counts: in the window and newer than the watermark,
\* by their own time stamps.
Counted(t) == fresh[t] + ahead[t]

\* An auth failure reaches the server.  Its agent's stamp is kept when it is up
\* to five minutes ahead (clampEventTimestamp); an old one may precede the
\* window or the watermark.
Fail(t) ==
    /\ seen[t] < MaxFails
    /\ seen' = [seen EXCEPT ![t] = @ + 1]
    /\ \/ /\ \/ fresh' = [fresh EXCEPT ![t] = @ + 1] /\ UNCHANGED ahead
             \/ ahead' = [ahead EXCEPT ![t] = @ + 1] /\ UNCHANGED fresh
          /\ since' = [since EXCEPT ![t] = @ + 1]
       \/ UNCHANGED <<fresh, ahead, since>>
    /\ UNCHANGED <<bans, table, led, call, engine, calls>>

\* The server's clock passes the stamp of a failure.
ClockPasses(t) ==
    /\ ahead[t] > 0
    /\ ahead' = [ahead EXCEPT ![t] = @ - 1]
    /\ fresh' = [fresh EXCEPT ![t] = @ + 1]
    /\ UNCHANGED <<bans, table, seen, since, led, call, engine, calls>>

\* The oldest failure of the window leaves it.
WindowSlides(t) ==
    /\ fresh[t] > 0
    /\ fresh' = [fresh EXCEPT ![t] = @ - 1]
    /\ UNCHANGED <<bans, table, seen, ahead, since, led, call, engine, calls>>

\* run and evaluateThresholds: one cycle at a time.
EngineRun ==
    LET C == {t \in Target : Counted(t) >= Threshold} IN
    /\ engine.pc = "idle"
    /\ C # {}
    /\ engine' = [EngineIdle EXCEPT !.pc = "cover", !.cand = C]
    /\ UNCHANGED <<bans, table, counters, call, calls>>

\* Fault: an expired row still flagged active covers its address.
CoveringExpired(t) == Holders(t, "global")

\* The bans that already block an address everywhere.
Covering(t) == InForce(Holders(t, "global"))

\* createAutoBans: the covering lookup.
EngineCover ==
    LET C == {t \in engine.cand : Covering(t) = {}}
        S == UNION {Holders(t, "global") : t \in C}
    IN  /\ engine.pc = "cover"
        /\ engine' = IF C = {} THEN EngineIdle
                     ELSE [engine EXCEPT !.pc = IF S = {} THEN "whitelist" ELSE "expire",
                                         !.cand = C, !.ids = S]
        /\ UNCHANGED <<bans, table, counters, call, calls>>

\* The expired rows it found are deactivated.
EngineExpire ==
    /\ engine.pc = "expire"
    /\ Deactivate(engine.ids, "expiry", "system")
    /\ engine' = [EngineSees(engine.ids) EXCEPT !.pc = "whitelist", !.ids = {}]
    /\ UNCHANGED <<table, call, calls>>

EngineWhitelist ==
    LET C == {t \in engine.cand : ~ Whitelisted(t, "global")} IN
    /\ engine.pc = "whitelist"
    /\ engine' = IF C = {} THEN EngineIdle ELSE [engine EXCEPT !.pc = "insert", !.cand = C]
    /\ UNCHANGED <<bans, table, counters, call, calls>>

\* One row of the insert, conflicts ignored; the policy sets the duration.
EngineInsert(t) ==
    LET rest == engine.cand \ {t} IN
    /\ engine.pc = "insert" /\ t \in engine.cand
    /\ \/ /\ Holders(t, "global") = {}
          /\ \E i \in Id, x \in AutoExpiry, o \in Attacked :
               FreshId(i) /\ bans' = Inserted(i, NewRow(t, "global", "auto", o, x))
       \/ /\ Holders(t, "global") # {}
          /\ UNCHANGED bans
    /\ engine' = IF rest = {} THEN EngineIdle ELSE [engine EXCEPT !.cand = rest]
    /\ UNCHANGED <<table, counters, call, calls>>
-----------------------------------------------------------------------------
Init ==
    /\ bans \in Start
    /\ exclusions = {} /\ whitelist = {}
    /\ seen = [t \in Target |-> 0]
    /\ fresh = seen /\ ahead = seen /\ since = seen /\ led = seen
    /\ call = [p \in Proc |-> Idle]
    /\ engine = EngineIdle
    /\ calls = 0

RequestStep(r) ==
    Purge(r) \/ Check(r) \/ WriteRow(r) \/ ExtendRow(r)
        \/ PromoteRow(r) \/ Exclude(r) \/ Close(r)

EngineStep ==
    EngineRun \/ EngineCover \/ EngineExpire \/ EngineWhitelist
        \/ \E t \in Target : EngineInsert(t)

NewRequest(r) ==
    \/ \E w \in Tenant, t \in Target, s \in Scope, x \in {"never", "later"} : Create(r, w, t, s, x)
    \/ \E i \in Id : Promote(r, i)
    \/ \E a \in App, t \in Target : PushExternal(r, a, t) \/ Withdraw(r, a, t)
    \/ \E w \in Tenant, S \in SUBSET DOMAIN bans : Lift(r, w, S)
    \/ \E w \in Tenant, i \in Id : ExcludeForTenant(r, w, i)
    \/ WipeAll(r)

Next ==
    \/ \E r \in Request : NewRequest(r) \/ RequestStep(r)
    \/ \E w \in Tenant, i \in Id : RemoveExclusion(w, i)
    \/ \E w \in Tenant, t \in Target : ToggleWhitelist(w, t)
    \/ ExpireBans
    \/ Close(ExpiryJob)
    \/ \E i \in Id : Elapse(i)
    \/ \E t \in Target : Fail(t) \/ ClockPasses(t) \/ WindowSlides(t)
    \/ EngineStep

Spec == Init /\ [][Next]_vars

\* The engine's timer keeps firing and its cycles run to their end.
FairSpec == Spec /\ WF_vars(EngineStep)
-----------------------------------------------------------------------------
(* What is checked. *)

RowCalls ==
    [op : {"create", "external"}, pc : {"purge", "check", "write"},
     who : Tenant, ids : SUBSET Id, row : Row]
PromoteCalls ==
    [op : {"promote"}, pc : {"purge", "check", "write"}, who : Tenant, ids : SUBSET Id, id : Id]
LiftCalls ==
    [op : {"lift", "exclude"}, pc : {"exclude", "deactivate"},
     who : Tenant, ids : SUBSET Id, out : SUBSET Id]
CloseCalls ==
    [op : {"wipe", "withdraw", "expiry"}, pc : {"deactivate"},
     who : {Default, "system"}, ids : SUBSET Id]
Calls == {Idle} \cup RowCalls \cup PromoteCalls \cup LiftCalls \cup CloseCalls

\* Type invariant; with it, the rows a call or a cycle remembers exist, and
\* the failures that count are among those received.
TypeOK ==
    /\ DOMAIN bans \subseteq Id
    /\ \A i \in DOMAIN bans : bans[i] \in Row
    /\ exclusions \subseteq (DOMAIN bans) \X Tenant
    /\ whitelist \subseteq Target \X Scope
    /\ seen \in [Target -> 0..MaxFails]
    /\ \A f \in {fresh, ahead, since, led} : f \in [Target -> Nat]
    /\ \A t \in Target : fresh[t] + ahead[t] <= seen[t]
    /\ call \in [Proc -> Calls]
    /\ engine \in [pc : {"idle", "cover", "expire", "whitelist", "insert"},
                   cand : SUBSET Target, ids : SUBSET DOMAIN bans, lifted : SUBSET Target]
    /\ calls \in 0..MaxCalls

\* The table as a ledger.
ledgerBar ==
    [i \in DOMAIN bans |->
       [target |-> bans[i].target, scope |-> bans[i].scope, open |-> bans[i].active]]

Ledger == INSTANCE BanLedger WITH Global <- "global", ledger <- ledgerBar

\* The table is a ledger whatever the interleaving: one active row per target
\* and scope, a lifted row never active again ("A lifted row [...] is NEVER
\* reactivated", createFromExternal), a scope changed only to global.
IsLedger == Ledger!Spec

\* A tenant other than Default closes only bans it created by hand: never one
\* the engine created, even from its own agents' failures, never one of an
\* application or of another tenant (lift, planLift).
TenantLiftsOwn ==
    \A i \in DOMAIN bans :
        bans[i].by \in Tenant \ {Default} =>
            bans[i].type = "manual" /\ bans[i].origin = bans[i].by

\* A global deactivation is not undone by the failures that led to the ban,
\* except by those stamped ahead of it by a fast clock: a cycle that started
\* after it bans the address again only if the failures received and stamped
\* since, with those stamped ahead, reach the threshold (lift watermark of
\* evaluateThresholds; lifted_at is the server's time, timestamp the agent's).
LiftHolds ==
    [][\A i \in DOMAIN bans' \ DOMAIN bans :
         LET t == bans'[i].target IN
         bans'[i].type = "auto" /\ t \notin engine.lifted
             => since[t] + led[t] >= Threshold]_vars

\* An address over the threshold is blocked everywhere, unless it is
\* whitelisted or its failures no longer count (BanEngine.run).
AttackerIsBanned ==
    \A t \in Target :
        (Counted(t) >= Threshold) ~>
            \/ InForce(Holders(t, "global")) # {}
            \/ Whitelisted(t, "global")
            \/ Counted(t) < Threshold
=============================================================================
