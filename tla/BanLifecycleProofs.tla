------------------------- MODULE BanLifecycleProofs -------------------------
(***************************************************************************)
(* Theorems about BanLifecycle, for every set of targets, tenants,         *)
(* applications and requests: type correctness, that the table is a ledger *)
(* (BanLedger) whatever the interleaving, that a tenant closes only its    *)
(* own bans, and that a lift holds against the failures that came before;  *)
(* and that the other writer of the table, RemoteBlocklist, keeps the      *)
(* same ledger.                                                            *)
(***************************************************************************)
EXTENDS BanLifecycle, TLAPS

\* The parts of TypeOK.
RowsOK == DOMAIN bans \subseteq Id /\ \A i \in DOMAIN bans : bans[i] \in Row
ExclusionsOK == exclusions \subseteq (DOMAIN bans) \X Tenant
CountersOK ==
    /\ seen \in [Target -> 0..MaxFails]
    /\ fresh \in [Target -> Nat] /\ ahead \in [Target -> Nat]
    /\ since \in [Target -> Nat] /\ led \in [Target -> Nat]
    /\ \A t \in Target : fresh[t] + ahead[t] <= seen[t]
EngineOK ==
    engine \in [pc : {"idle", "cover", "expire", "whitelist", "insert"},
                cand : SUBSET Target, ids : SUBSET DOMAIN bans, lifted : SUBSET Target]

\* The bans a request is about to exclude exist.
OutExist == \A p \in Proc : call[p] \in LiftCalls => call[p].out \subseteq DOMAIN bans

TypeInv ==
    /\ RowsOK /\ ExclusionsOK /\ whitelist \subseteq Target \X Scope
    /\ CountersOK /\ call \in [Proc -> Calls] /\ EngineOK /\ calls \in 0..MaxCalls
    /\ OutExist

LEMMA TypeInvIsTypeOK == TypeInv => TypeOK
BY DEF TypeInv, TypeOK, RowsOK, ExclusionsOK, CountersOK, EngineOK

-----------------------------------------------------------------------------
(* What the operators return. *)

\* Which call is at which place.
LEMMA CallPlaces ==
    ASSUME NEW c \in Calls
    PROVE  /\ c.pc \in {"purge", "check", "write"} => c \in RowCalls \cup PromoteCalls
           /\ c.pc = "exclude" => c \in LiftCalls
           /\ c.pc = "deactivate" => c \in LiftCalls \cup CloseCalls
           /\ c \in RowCalls => c # Idle /\ c \notin LiftCalls /\ c \notin PromoteCalls /\ c \notin CloseCalls
           /\ c \in PromoteCalls => c # Idle /\ c \notin LiftCalls /\ c \notin RowCalls
           /\ c = Idle => c \notin LiftCalls /\ c \notin RowCalls /\ c \notin PromoteCalls
           /\ c \in CloseCalls => c \notin LiftCalls /\ c \notin RowCalls
<1>1. ASSUME c = Idle
      PROVE  c.pc = "idle"
  BY <1>1 DEF Idle
<1>2. c \in RowCalls => c.op \in {"create", "external"} /\ c.pc \in {"purge", "check", "write"}
  BY DEF RowCalls
<1>3. c \in PromoteCalls => c.op \in {"promote"} /\ c.pc \in {"purge", "check", "write"}
  BY DEF PromoteCalls
<1>4. c \in LiftCalls => c.op \in {"lift", "exclude"} /\ c.pc \in {"exclude", "deactivate"}
  BY DEF LiftCalls
<1>5. c \in CloseCalls => c.op \in {"wipe", "withdraw", "expiry"} /\ c.pc \in {"deactivate"}
  BY DEF CloseCalls
<1> QED BY <1>1, <1>2, <1>3, <1>4, <1>5 DEF Calls

LEMMA NewRowType ==
    ASSUME NEW t \in Target, NEW s \in Scope, NEW ty \in {"manual", "auto"} \cup App,
           NEW o \in Tenant, NEW x \in Expiry
    PROVE  NewRow(t, s, ty, o, x) \in Row
BY DEF NewRow, Row, Reason

\* deactivateBans, row by row.
LEMMA DeactivateRows ==
    ASSUME NEW ids, NEW reason, NEW by, Deactivate(ids, reason, by)
    PROVE  /\ DOMAIN bans' = DOMAIN bans
           /\ \A i \in DOMAIN bans :
                bans'[i] = IF i \in ids /\ bans[i].active
                             THEN Lifted(bans[i], reason, by) ELSE bans[i]
BY DEF Deactivate, Active

LEMMA DeactivateTypes ==
    ASSUME NEW ids, NEW reason \in Reason, NEW by \in Tenant \cup {"system"},
           RowsOK, CountersOK, Deactivate(ids, reason, by)
    PROVE  RowsOK' /\ CountersOK' /\ DOMAIN bans' = DOMAIN bans
<1>1. ASSUME NEW i \in DOMAIN bans PROVE bans'[i] \in Row
  <2>1. bans[i] \in Row
    BY DEF RowsOK
  <2>2. Lifted(bans[i], reason, by) \in Row
    BY <2>1 DEF Lifted, Row
  <2> QED BY <2>1, <2>2, DeactivateRows
<1>2. RowsOK'
  BY <1>1, DeactivateRows DEF RowsOK
<1>3. CountersOK'
  BY DEF Deactivate, CountersOK, Newer
<1> QED BY <1>2, <1>3, DeactivateRows

LEMMA MarkedTargets ==
    ASSUME NEW S \in SUBSET DOMAIN bans, RowsOK
    PROVE  Marked(S) \subseteq Target
<1>1. \A i \in S : bans[i].target \in Target
  BY DEF RowsOK, Row
<1> QED BY <1>1 DEF Marked

\* The engine keeps its type through any deactivation and any new row.
LEMMA EngineSeesType ==
    ASSUME NEW ids, RowsOK, EngineOK
    PROVE  /\ EngineSees(ids) \in [pc : {"idle", "cover", "expire", "whitelist", "insert"},
                cand : SUBSET Target, ids : SUBSET DOMAIN bans, lifted : SUBSET Target]
           /\ EngineSees(ids).pc = engine.pc /\ EngineSees(ids).cand = engine.cand
           /\ EngineSees(ids).ids = engine.ids
<1>1. Marked({i \in ids : Active(i)}) \subseteq Target
  BY MarkedTargets DEF Active
<1> QED BY <1>1 DEF EngineSees, EngineOK
-----------------------------------------------------------------------------
(* Type correctness. *)

LEMMA InitTypes == Init => TypeInv
<1> SUFFICES ASSUME Init PROVE TypeInv
  OBVIOUS
<1>1. RowsOK
  BY StartAssumption DEF Init, RowsOK
<1>2. call \in [Proc -> Calls] /\ OutExist
  <2>1. \A p \in Proc : call[p] = Idle
    BY DEF Init
  <2>2. Idle \in Calls
    BY DEF Calls
  <2>3. call \in [Proc -> Calls]
    BY <2>2 DEF Init
  <2> QED BY <2>1, <2>2, <2>3, CallPlaces DEF OutExist
<1>3. EngineOK
  BY DEF Init, EngineOK, EngineIdle
<1>4. CountersOK
  BY ConstantsAssumption DEF Init, CountersOK
<1>5. calls \in 0..MaxCalls
  BY ConstantsAssumption DEF Init
<1> QED BY <1>1, <1>2, <1>3, <1>4, <1>5 DEF Init, TypeInv, ExclusionsOK

\* A new request changes only the calls.
LEMMA BeginTypes ==
    ASSUME TypeInv, NEW r \in Request, NEW c \in Calls, Begin(r, c),
           c \in LiftCalls => c.out \subseteq DOMAIN bans,
           UNCHANGED <<bans, table, counters, engine>>
    PROVE  TypeInv'
<1>1. r \in Proc /\ call' = [call EXCEPT ![r] = c]
  BY DEF Begin, Proc
<1>2. call' \in [Proc -> Calls]
  BY <1>1 DEF TypeInv
<1>3. OutExist'
  BY <1>1, <1>2 DEF TypeInv, OutExist
<1>4. calls' \in 0..MaxCalls
  BY ConstantsAssumption DEF Begin, TypeInv
<1> QED BY <1>2, <1>3, <1>4 DEF TypeInv, RowsOK, ExclusionsOK, CountersOK, EngineOK, table, counters

LEMMA RequestTypes ==
    ASSUME TypeInv, NEW r \in Request, NewRequest(r)
    PROVE  TypeInv'
<1>1. \A t : Stale(t) \subseteq Id /\ AfterStale(t) \in {"purge", "check", "write"}
  BY DEF Stale, Due, TypeInv, RowsOK, AfterStale
<1>2. Default \in Tenant
  BY ConstantsAssumption
<1>3. ASSUME NEW w \in Tenant, NEW t \in Target, NEW s \in Scope, NEW x \in {"never", "later"},
             Create(r, w, t, s, x)
      PROVE  TypeInv'
  <2> DEFINE c == [op |-> "create", pc |-> AfterStale(t), who |-> w, ids |-> Stale(t),
                   row |-> NewRow(t, s, "manual", w, x)]
  <2>1. NewRow(t, s, "manual", w, x) \in Row
    BY NewRowType DEF Expiry
  <2>2. c \in RowCalls
    BY <1>1, <2>1 DEF RowCalls
  <2> HIDE DEF c
  <2>3. c \in Calls /\ c \notin LiftCalls
    BY <2>2, CallPlaces DEF Calls
  <2>4. Begin(r, c) /\ UNCHANGED <<bans, table, counters, engine>>
    BY <1>3 DEF Create, c
  <2> QED BY <2>3, <2>4, BeginTypes
<1>4. ASSUME NEW i \in Id, Promote(r, i)
      PROVE  TypeInv'
  <2> DEFINE c == [op |-> "promote", pc |-> AfterStale(bans[i].target), who |-> Default,
                   ids |-> Stale(bans[i].target), id |-> i]
  <2>1. c \in PromoteCalls
    BY <1>1, <1>2 DEF PromoteCalls
  <2> HIDE DEF c
  <2>2. c \in Calls /\ c \notin LiftCalls
    BY <2>1, CallPlaces DEF Calls
  <2>3. Begin(r, c) /\ UNCHANGED <<bans, table, counters, engine>>
    BY <1>4 DEF Promote, c
  <2> QED BY <2>2, <2>3, BeginTypes
<1>5. ASSUME NEW a \in App, NEW t \in Target, PushExternal(r, a, t)
      PROVE  TypeInv'
  <2> DEFINE c == [op |-> "external", pc |-> AfterStale(t), who |-> Default, ids |-> Stale(t),
                   row |-> NewRow(t, "global", a, Default, "later")]
  <2>1. NewRow(t, "global", a, Default, "later") \in Row
    BY <1>2, NewRowType DEF Expiry, Scope
  <2>2. c \in RowCalls
    BY <1>1, <1>2, <2>1 DEF RowCalls
  <2> HIDE DEF c
  <2>3. c \in Calls /\ c \notin LiftCalls
    BY <2>2, CallPlaces DEF Calls
  <2>4. Begin(r, c) /\ UNCHANGED <<bans, table, counters, engine>>
    BY <1>5 DEF PushExternal, c
  <2> QED BY <2>3, <2>4, BeginTypes
<1>6. ASSUME NEW a \in App, NEW t \in Target, Withdraw(r, a, t)
      PROVE  TypeInv'
  <2> DEFINE S == {i \in DOMAIN bans : Active(i) /\ bans[i].type = a /\ bans[i].target = t}
             c == [op |-> "withdraw", pc |-> "deactivate", who |-> "system", ids |-> S]
  <2>1. c \in CloseCalls
    BY DEF CloseCalls, TypeInv, RowsOK
  <2>2. Begin(r, c) /\ UNCHANGED <<bans, table, counters, engine>>
    BY <1>6 DEF Withdraw
  <2> HIDE DEF c
  <2>3. c \in Calls /\ c \notin LiftCalls
    BY <2>1, CallPlaces DEF Calls
  <2> QED BY <2>2, <2>3, BeginTypes
<1>7. ASSUME NEW w \in Tenant, NEW S \in SUBSET DOMAIN bans, Lift(r, w, S)
      PROVE  TypeInv'
  <2> DEFINE D == {i \in S : PlanLift(i, w) = "deactivate"}
             E == {i \in S : PlanLift(i, w) = "exclude"}
             c == [op |-> "lift", pc |-> IF E = {} THEN "deactivate" ELSE "exclude",
                   who |-> w, ids |-> D, out |-> E]
  <2>1. c \in LiftCalls /\ c.out \subseteq DOMAIN bans
    BY DEF LiftCalls, TypeInv, RowsOK
  <2>2. Begin(r, c) /\ UNCHANGED <<bans, table, counters, engine>>
    BY <1>7 DEF Lift
  <2> HIDE DEF c
  <2>3. c \in Calls
    BY <2>1 DEF Calls
  <2> QED BY <2>1, <2>2, <2>3, BeginTypes
<1>8. ASSUME NEW w \in Tenant, NEW i \in Id, ExcludeForTenant(r, w, i)
      PROVE  TypeInv'
  <2> DEFINE c == [op |-> "exclude", pc |-> "exclude", who |-> w, ids |-> {}, out |-> {i}]
  <2>1. c \in LiftCalls /\ c.out \subseteq DOMAIN bans
    BY <1>8 DEF LiftCalls, ExcludeForTenant, Active
  <2>2. Begin(r, c) /\ UNCHANGED <<bans, table, counters, engine>>
    BY <1>8 DEF ExcludeForTenant
  <2> HIDE DEF c
  <2>3. c \in Calls
    BY <2>1 DEF Calls
  <2> QED BY <2>1, <2>2, <2>3, BeginTypes
<1>9. ASSUME WipeAll(r)
      PROVE  TypeInv'
  <2> DEFINE S == {i \in DOMAIN bans : Active(i)}
             c == [op |-> "wipe", pc |-> "deactivate", who |-> Default, ids |-> S]
  <2>1. c \in CloseCalls
    BY DEF CloseCalls, TypeInv, RowsOK
  <2>2. Begin(r, c) /\ UNCHANGED <<bans, table, counters, engine>>
    BY <1>9 DEF WipeAll
  <2> HIDE DEF c
  <2>3. c \in Calls /\ c \notin LiftCalls
    BY <2>1, CallPlaces DEF Calls
  <2> QED BY <2>2, <2>3, BeginTypes
<1> QED BY <1>3, <1>4, <1>5, <1>6, <1>7, <1>8, <1>9 DEF NewRequest

\* A step of one call, while the table only grows.
LEMMA CallMove ==
    ASSUME TypeInv, NEW p \in Proc, NEW c \in Calls, call' = [call EXCEPT ![p] = c],
           c \in LiftCalls => c.out \subseteq DOMAIN bans, DOMAIN bans \subseteq DOMAIN bans'
    PROVE  call' \in [Proc -> Calls] /\ OutExist'
<1>1. call' \in [Proc -> Calls]
  BY DEF TypeInv
<1>2. \A q \in Proc : call'[q] = IF q = p THEN c ELSE call[q]
  BY DEF TypeInv
<1> QED BY <1>1, <1>2 DEF OutExist, TypeInv

LEMMA ReturnMove ==
    ASSUME TypeInv, NEW p \in Proc, Return(p), DOMAIN bans \subseteq DOMAIN bans'
    PROVE  call' \in [Proc -> Calls] /\ OutExist'
<1>1. Idle \in Calls
  BY DEF Calls
<1>2. Idle \notin LiftCalls
  BY <1>1, CallPlaces
<1> QED BY <1>1, <1>2, CallMove DEF Return

\* The engine and the exclusions keep their type while the table grows.
LEMMA TableGrows ==
    ASSUME TypeInv, DOMAIN bans \subseteq DOMAIN bans'
    PROVE  /\ UNCHANGED engine => EngineOK'
           /\ UNCHANGED exclusions => ExclusionsOK'
BY DEF TypeInv, EngineOK, ExclusionsOK

\* An insert of a row, or an update of one that keeps its type.
LEMMA InsertedTypes ==
    ASSUME RowsOK, NEW i \in Id, NEW row \in Row, bans' = Inserted(i, row)
    PROVE  RowsOK' /\ DOMAIN bans \subseteq DOMAIN bans'
BY DEF RowsOK, Inserted

LEMMA UpdatedTypes ==
    ASSUME RowsOK, NEW i, NEW row, i \in DOMAIN bans => row \in Row, bans' = [bans EXCEPT ![i] = row]
    PROVE  RowsOK' /\ DOMAIN bans = DOMAIN bans'
BY DEF RowsOK

LEMMA RequestStepTypes ==
    ASSUME TypeInv, NEW r \in Proc, RequestStep(r)
    PROVE  TypeInv'
<1>1. call[r] \in Calls
  BY DEF TypeInv
<1>2. CASE Purge(r)
  <2> DEFINE c == [call[r] EXCEPT !.pc = "check", !.ids = {}]
  <2>1. call[r] \in RowCalls \cup PromoteCalls
    BY <1>1, <1>2, CallPlaces DEF Purge
  <2>2. c \in RowCalls \cup PromoteCalls
    BY <2>1 DEF RowCalls, PromoteCalls
  <2>3. call' = [call EXCEPT ![r] = c]
    BY <1>2 DEF Purge, TypeInv
  <2> HIDE DEF c
  <2>4. c \in Calls /\ c \notin LiftCalls
    BY <2>2, CallPlaces DEF Calls
  <2>5. Deactivate(call[r].ids, "expiry", "system") /\ engine' = EngineSees(call[r].ids)
    BY <1>2 DEF Purge
  <2>6. RowsOK' /\ CountersOK' /\ DOMAIN bans' = DOMAIN bans
    BY <2>5, DeactivateTypes DEF TypeInv, Reason
  <2>7. EngineOK'
    BY <2>5, <2>6, EngineSeesType DEF TypeInv, EngineOK
  <2>8. call' \in [Proc -> Calls] /\ OutExist'
    BY <2>3, <2>4, <2>6, CallMove
  <2> QED BY <1>2, <2>6, <2>7, <2>8, TableGrows DEF Purge, table, TypeInv
<1>3. CASE Check(r)
  <2>1. call[r] \in RowCalls \cup PromoteCalls
    BY <1>1, <1>3, CallPlaces DEF Check
  <2>2. \A t, s : Holders(t, s) \subseteq Id
    BY DEF Holders, TypeInv, RowsOK
  <2>3. UNCHANGED <<bans, exclusions, whitelist, seen, fresh, ahead, since, led, engine, calls>>
    BY <1>3 DEF Check, table, counters
  <2>4. call' \in [Proc -> Calls] /\ OutExist'
    <3>1. CASE Return(r)
      BY <2>3, <3>1, ReturnMove
    <3>2. ASSUME NEW t, NEW s,
                 call' = [call EXCEPT ![r].pc = "write", ![r].ids = Holders(t, s)],
                 call[r].op = "external"
          PROVE  call' \in [Proc -> Calls] /\ OutExist'
      <4> DEFINE c == [call[r] EXCEPT !.pc = "write", !.ids = Holders(t, s)]
      <4>1. c \in RowCalls \cup PromoteCalls
        BY <2>1, <2>2 DEF RowCalls, PromoteCalls
      <4>2. call' = [call EXCEPT ![r] = c]
        BY <3>2 DEF TypeInv
      <4> HIDE DEF c
      <4>3. c \in Calls /\ c \notin LiftCalls
        BY <4>1, CallPlaces DEF Calls
      <4> QED BY <2>3, <4>2, <4>3, CallMove
    <3>3. CASE call' = [call EXCEPT ![r].pc = "write"]
      <4> DEFINE c == [call[r] EXCEPT !.pc = "write"]
      <4>1. c \in RowCalls \cup PromoteCalls
        BY <2>1, <2>2 DEF RowCalls, PromoteCalls
      <4>2. call' = [call EXCEPT ![r] = c]
        BY <3>3 DEF TypeInv
      <4> HIDE DEF c
      <4>3. c \in Calls /\ c \notin LiftCalls
        BY <4>1, CallPlaces DEF Calls
      <4> QED BY <2>3, <4>2, <4>3, CallMove
    <3> QED BY <1>3, <3>1, <3>2, <3>3 DEF Check
  <2> QED BY <2>3, <2>4 DEF TypeInv, RowsOK, ExclusionsOK, CountersOK, EngineOK
<1>4. CASE WriteRow(r)
  <2>1. call[r] \in RowCalls
    <3>1. call[r].pc = "write" /\ call[r].op \in {"create", "external"}
      BY <1>4 DEF WriteRow
    <3>2. call[r] \in RowCalls \cup PromoteCalls
      BY <1>1, <3>1, CallPlaces
    <3> QED BY <3>1, <3>2 DEF PromoteCalls
  <2>2. call[r].row \in Row
    BY <2>1 DEF RowCalls
  <2>3. RowsOK' /\ DOMAIN bans \subseteq DOMAIN bans'
    <3>1. ASSUME NEW i \in Id, bans' = Inserted(i, call[r].row)
          PROVE  RowsOK' /\ DOMAIN bans \subseteq DOMAIN bans'
      BY <2>2, <3>1, InsertedTypes DEF TypeInv
    <3>2. ASSUME UNCHANGED bans PROVE RowsOK' /\ DOMAIN bans \subseteq DOMAIN bans'
      BY <3>2 DEF TypeInv, RowsOK
    <3> QED BY <1>4, <3>1, <3>2 DEF WriteRow
  <2>4. Return(r) /\ UNCHANGED <<exclusions, whitelist, seen, fresh, ahead, since, led, engine, calls>>
    BY <1>4 DEF WriteRow, table, counters
  <2>5. call' \in [Proc -> Calls] /\ OutExist'
    BY <2>3, <2>4, ReturnMove
  <2> QED BY <2>3, <2>4, <2>5, TableGrows DEF TypeInv, CountersOK
<1>5. CASE ExtendRow(r)
  <2>1. call[r] \in RowCalls
    <3>1. call[r].pc = "write" /\ call[r].op \in {"create", "external"}
      BY <1>5 DEF ExtendRow
    <3>2. call[r] \in RowCalls \cup PromoteCalls
      BY <1>1, <3>1, CallPlaces
    <3> QED BY <3>1, <3>2 DEF PromoteCalls
  <2>2. call[r].row.exp \in Expiry
    BY <2>1 DEF RowCalls, Row
  <2>3. PICK i \in call[r].ids : bans' = [bans EXCEPT ![i] = Refresh(bans[i], call[r].row.exp)]
    BY <1>5 DEF ExtendRow
  <2>4. i \in DOMAIN bans => Refresh(bans[i], call[r].row.exp) \in Row
    <3> SUFFICES ASSUME i \in DOMAIN bans PROVE Refresh(bans[i], call[r].row.exp) \in Row
      OBVIOUS
    <3>1. bans[i] \in Row
      BY DEF TypeInv, RowsOK
    <3>2. Extend(bans[i].exp, call[r].row.exp) \in Expiry
      BY <2>2, <3>1 DEF Extend, Row
    <3> QED BY <3>1, <3>2 DEF Refresh, Row
  <2>5. RowsOK' /\ DOMAIN bans = DOMAIN bans'
    BY <2>3, <2>4, UpdatedTypes DEF TypeInv
  <2>6. Return(r) /\ UNCHANGED <<exclusions, whitelist, seen, fresh, ahead, since, led, engine, calls>>
    BY <1>5 DEF ExtendRow, table, counters
  <2>7. call' \in [Proc -> Calls] /\ OutExist'
    BY <2>5, <2>6, ReturnMove
  <2> QED BY <2>5, <2>6, <2>7, TableGrows DEF TypeInv, CountersOK
<1>6. CASE PromoteRow(r)
  <2>1. RowsOK' /\ DOMAIN bans = DOMAIN bans'
    <3>1. CASE UNCHANGED bans
      BY <3>1 DEF TypeInv, RowsOK
    <3>2. CASE bans' = [bans EXCEPT ![call[r].id].scope = "global"] /\ Active(call[r].id)
      <4>1. [bans[call[r].id] EXCEPT !.scope = "global"] \in Row
        BY <3>2 DEF TypeInv, RowsOK, Active, Row, Scope
      <4>2. bans' = [bans EXCEPT ![call[r].id] = [bans[call[r].id] EXCEPT !.scope = "global"]]
        BY <3>2
      <4> QED BY <4>1, <4>2, UpdatedTypes DEF TypeInv
    <3> QED BY <1>6, <3>1, <3>2 DEF PromoteRow
  <2>2. Return(r) /\ UNCHANGED <<exclusions, whitelist, seen, fresh, ahead, since, led, engine, calls>>
    BY <1>6 DEF PromoteRow, table, counters
  <2>3. call' \in [Proc -> Calls] /\ OutExist'
    BY <2>1, <2>2, ReturnMove
  <2> QED BY <2>1, <2>2, <2>3, TableGrows DEF TypeInv, CountersOK
<1>7. CASE Exclude(r)
  <2>1. call[r] \in LiftCalls
    BY <1>1, <1>7, CallPlaces DEF Exclude
  <2>2. call[r].who \in Tenant /\ call[r].out \subseteq DOMAIN bans
    BY <2>1 DEF LiftCalls, TypeInv, OutExist
  <2>3. exclusions' \subseteq (DOMAIN bans) \X Tenant
    BY <1>7, <2>2 DEF Exclude, TypeInv, ExclusionsOK
  <2>4. UNCHANGED <<bans, whitelist, seen, fresh, ahead, since, led, engine, calls>>
    BY <1>7 DEF Exclude, counters
  <2>5. call' \in [Proc -> Calls] /\ OutExist'
    <3>1. CASE Return(r)
      BY <2>4, <3>1, ReturnMove
    <3>2. CASE call' = [call EXCEPT ![r].pc = "deactivate"]
      <4> DEFINE c == [call[r] EXCEPT !.pc = "deactivate"]
      <4>1. c \in LiftCalls /\ c.out = call[r].out
        BY <2>1 DEF LiftCalls
      <4>2. call' = [call EXCEPT ![r] = c]
        BY <3>2 DEF TypeInv
      <4> HIDE DEF c
      <4>3. c \in Calls
        BY <4>1 DEF Calls
      <4> QED BY <2>2, <2>4, <4>1, <4>2, <4>3, CallMove
    <3> QED BY <1>7, <3>1, <3>2 DEF Exclude
  <2> QED BY <2>3, <2>4, <2>5 DEF TypeInv, RowsOK, ExclusionsOK, CountersOK, EngineOK
<1>8. CASE Close(r)
  <2>1. call[r] \in LiftCalls \cup CloseCalls
    BY <1>1, <1>8, CallPlaces DEF Close
  <2>2. call[r].who \in Tenant \cup {"system"} /\ ReasonOf(call[r]) \in Reason
    BY <2>1, ConstantsAssumption DEF LiftCalls, CloseCalls, ReasonOf, Reason
  <2>3. /\ Deactivate(call[r].ids, ReasonOf(call[r]), call[r].who)
        /\ engine' = EngineSees(call[r].ids) /\ Return(r)
    BY <1>8 DEF Close
  <2>4. RowsOK' /\ CountersOK' /\ DOMAIN bans' = DOMAIN bans
    BY <2>2, <2>3, DeactivateTypes DEF TypeInv
  <2>5. EngineOK'
    BY <2>3, <2>4, EngineSeesType DEF TypeInv, EngineOK
  <2>6. call' \in [Proc -> Calls] /\ OutExist'
    BY <2>3, <2>4, ReturnMove
  <2> QED BY <1>8, <2>4, <2>5, <2>6, TableGrows DEF Close, table, TypeInv
<1> QED BY <1>2, <1>3, <1>4, <1>5, <1>6, <1>7, <1>8 DEF RequestStep

LEMMA EngineStepTypes ==
    ASSUME TypeInv, EngineStep
    PROVE  TypeInv'
<1>1. \A t, s : Holders(t, s) \subseteq DOMAIN bans
  BY DEF Holders
<1>2. CASE EngineRun \/ EngineCover \/ EngineWhitelist
  <2>1. UNCHANGED <<bans, exclusions, whitelist, seen, fresh, ahead, since, led, call, calls>>
    BY <1>2 DEF EngineRun, EngineCover, EngineWhitelist, table, counters
  <2>2. EngineOK'
    <3>1. CASE EngineRun
      BY <2>1, <3>1 DEF EngineRun, EngineIdle, TypeInv, EngineOK
    <3>2. CASE EngineCover
      <4>1. UNION {Holders(t, "global") : t \in {u \in engine.cand : Covering(u) = {}}}
              \subseteq DOMAIN bans
        BY <1>1
      <4> QED BY <2>1, <3>2, <4>1 DEF EngineCover, EngineIdle, TypeInv, EngineOK
    <3>3. CASE EngineWhitelist
      BY <2>1, <3>3 DEF EngineWhitelist, EngineIdle, TypeInv, EngineOK
    <3> QED BY <1>2, <3>1, <3>2, <3>3
  <2> QED BY <2>1, <2>2 DEF TypeInv, RowsOK, ExclusionsOK, CountersOK, OutExist
<1>3. CASE EngineExpire
  <2>1. /\ Deactivate(engine.ids, "expiry", "system")
        /\ engine' = [EngineSees(engine.ids) EXCEPT !.pc = "whitelist", !.ids = {}]
        /\ UNCHANGED <<exclusions, whitelist, call, calls>>
    BY <1>3 DEF EngineExpire, table
  <2>2. RowsOK' /\ CountersOK' /\ DOMAIN bans' = DOMAIN bans
    BY <2>1, DeactivateTypes DEF TypeInv, Reason
  <2>3. EngineOK'
    BY <2>1, <2>2, EngineSeesType DEF TypeInv, EngineOK
  <2> QED BY <2>1, <2>2, <2>3, TableGrows DEF TypeInv, OutExist
<1>4. ASSUME NEW t \in Target, EngineInsert(t)
      PROVE  TypeInv'
  <2>1. UNCHANGED <<exclusions, whitelist, seen, fresh, ahead, since, led, call, calls>>
    BY <1>4 DEF EngineInsert, table, counters
  <2>2. RowsOK' /\ DOMAIN bans \subseteq DOMAIN bans'
    <3>1. CASE UNCHANGED bans
      BY <3>1 DEF TypeInv, RowsOK
    <3>2. ASSUME NEW i \in Id, NEW x \in AutoExpiry, NEW o \in Attacked,
                 bans' = Inserted(i, NewRow(t, "global", "auto", o, x))
          PROVE  RowsOK' /\ DOMAIN bans \subseteq DOMAIN bans'
      <4>1. o \in Tenant /\ x \in Expiry
        BY ConstantsAssumption DEF Expiry
      <4>2. NewRow(t, "global", "auto", o, x) \in Row
        BY <4>1, NewRowType DEF Scope
      <4> QED BY <3>2, <4>2, InsertedTypes DEF TypeInv
    <3> QED BY <1>4, <3>1, <3>2 DEF EngineInsert
  <2>3. EngineOK'
    BY <1>4, <2>2 DEF EngineInsert, EngineIdle, TypeInv, EngineOK
  <2> QED BY <2>1, <2>2, <2>3, TableGrows DEF TypeInv, CountersOK, OutExist
<1> QED BY <1>2, <1>3, <1>4 DEF EngineStep

LEMMA OtherStepTypes ==
    ASSUME TypeInv,
           \/ \E w \in Tenant, i \in Id : RemoveExclusion(w, i)
           \/ \E w \in Tenant, t \in Target : ToggleWhitelist(w, t)
           \/ ExpireBans
           \/ \E i \in Id : Elapse(i)
           \/ \E t \in Target : Fail(t) \/ ClockPasses(t) \/ WindowSlides(t)
    PROVE  TypeInv'
<1>1. ASSUME NEW w \in Tenant, NEW i \in Id, RemoveExclusion(w, i) PROVE TypeInv'
  BY <1>1 DEF RemoveExclusion, counters, TypeInv, RowsOK, ExclusionsOK, CountersOK, EngineOK, OutExist
<1>2. ASSUME NEW w \in Tenant, NEW t \in Target, ToggleWhitelist(w, t) PROVE TypeInv'
  <2>1. WhitelistScope(w) \in Scope
    BY DEF WhitelistScope, Scope
  <2>2. whitelist' \subseteq Target \X Scope
    BY <1>2, <2>1 DEF ToggleWhitelist, TypeInv
  <2>3. calls' \in 0..MaxCalls
    BY <1>2, ConstantsAssumption DEF ToggleWhitelist, TypeInv
  <2>4. UNCHANGED <<bans, exclusions, seen, fresh, ahead, since, led, call, engine>>
    BY <1>2 DEF ToggleWhitelist, counters
  <2> QED BY <2>2, <2>3, <2>4 DEF TypeInv, RowsOK, ExclusionsOK, CountersOK, EngineOK, OutExist
<1>3. CASE ExpireBans
  <2> DEFINE c == [op |-> "expiry", pc |-> "deactivate", who |-> "system", ids |-> Due(DOMAIN bans)]
  <2>1. c \in CloseCalls
    BY DEF CloseCalls, Due, TypeInv, RowsOK
  <2>2. call' = [call EXCEPT ![ExpiryJob] = c]
    BY <1>3 DEF ExpireBans
  <2> HIDE DEF c
  <2>3. c \in Calls /\ c \notin LiftCalls /\ ExpiryJob \in Proc
    BY <2>1, CallPlaces DEF Calls, Proc
  <2>4. UNCHANGED <<bans, exclusions, whitelist, seen, fresh, ahead, since, led, engine, calls>>
    BY <1>3 DEF ExpireBans, table, counters
  <2>5. call' \in [Proc -> Calls] /\ OutExist'
    BY <2>2, <2>3, <2>4, CallMove
  <2> QED BY <2>4, <2>5 DEF TypeInv, RowsOK, ExclusionsOK, CountersOK, EngineOK
<1>4. ASSUME NEW i \in Id, Elapse(i) PROVE TypeInv'
  <2>1. i \in DOMAIN bans /\ [bans[i] EXCEPT !.exp = "due"] \in Row
    BY <1>4 DEF Elapse, Active, TypeInv, RowsOK, Row, Expiry
  <2>2. bans' = [bans EXCEPT ![i] = [bans[i] EXCEPT !.exp = "due"]]
    BY <1>4 DEF Elapse
  <2>3. RowsOK' /\ DOMAIN bans = DOMAIN bans'
    BY <2>1, <2>2, UpdatedTypes DEF TypeInv
  <2>4. UNCHANGED <<exclusions, whitelist, seen, fresh, ahead, since, led, call, engine, calls>>
    BY <1>4 DEF Elapse, table, counters
  <2> QED BY <2>3, <2>4, TableGrows DEF TypeInv, CountersOK, OutExist
<1>5. ASSUME NEW t \in Target, Fail(t) \/ ClockPasses(t) \/ WindowSlides(t) PROVE TypeInv'
  <2>1. CountersOK'
    <3>1. CASE Fail(t)
      BY <3>1, ConstantsAssumption DEF Fail, TypeInv, CountersOK
    <3>2. CASE WindowSlides(t)
      BY <3>2, ConstantsAssumption DEF WindowSlides, TypeInv, CountersOK
    <3>3. CASE ClockPasses(t)
      BY <3>3, ConstantsAssumption DEF ClockPasses, TypeInv, CountersOK
    <3> QED BY <1>5, <3>1, <3>2, <3>3
  <2>2. UNCHANGED <<bans, exclusions, whitelist, call, engine, calls>>
    BY <1>5 DEF Fail, ClockPasses, WindowSlides, ClockPasses, table
  <2> QED BY <2>1, <2>2 DEF TypeInv, RowsOK, ExclusionsOK, EngineOK, OutExist
<1> QED BY <1>1, <1>2, <1>3, <1>4, <1>5

LEMMA TypesStep == TypeInv /\ [Next]_vars => TypeInv'
<1> SUFFICES ASSUME TypeInv, [Next]_vars PROVE TypeInv'
  OBVIOUS
<1>1. CASE UNCHANGED vars
  BY <1>1 DEF vars, TypeInv, RowsOK, ExclusionsOK, CountersOK, EngineOK, OutExist
<1>2. ASSUME NEW r \in Request, NewRequest(r) \/ RequestStep(r) PROVE TypeInv'
  BY <1>2, RequestTypes, RequestStepTypes DEF Proc
<1>3. ASSUME Close(ExpiryJob) PROVE TypeInv'
  BY <1>3, RequestStepTypes DEF Proc, RequestStep
<1>4. ASSUME EngineStep PROVE TypeInv'
  BY <1>4, EngineStepTypes
<1> QED BY <1>1, <1>2, <1>3, <1>4, OtherStepTypes DEF Next

LEMMA TypesHold == Spec => []TypeInv
BY InitTypes, TypesStep, PTL DEF Spec

\* Type correctness (TypeOK): among the rest, the bans a request or a cycle of
\* the engine remembers between two statements are rows of the table, and
\* no failure counts that was not received.
THEOREM TypeCorrect == Spec => []TypeOK
BY TypesHold, TypeInvIsTypeOK, PTL
-----------------------------------------------------------------------------
(* What a step does to the table. *)

\* A local ban was made by hand for its tenant.
LocalRow(row) == row.scope # "global" => row.type = "manual" /\ row.origin = row.scope

\* A row about to be inserted by a request.
PendingRow(row) ==
    row.active /\ row.by = "system" /\ LocalRow(row) /\ row.type \in {"manual"} \cup App

\* The bans a tenant is about to close were made by hand for it, even if they
\* became global since they were planned.
PlannedLift(c) ==
    \A i \in c.ids : i \in DOMAIN bans /\ bans[i].type = "manual" /\ bans[i].origin = c.who

CallInv ==
    \A p \in Proc :
        /\ call[p] \in RowCalls => PendingRow(call[p].row)
        /\ call[p] \in LiftCalls /\ call[p].who # Default => PlannedLift(call[p])

LocalInv == \A i \in DOMAIN bans : LocalRow(bans[i])

OwnInv == CallInv /\ LocalInv /\ TenantLiftsOwn

\* The ways a step changes the table: at most the expiry of rows...
SameBan(row, new) ==
    /\ new.target = row.target /\ new.scope = row.scope /\ new.type = row.type
    /\ new.origin = row.origin /\ new.active = row.active /\ new.by = row.by

Keeps == DOMAIN bans' = DOMAIN bans /\ \A i \in DOMAIN bans : SameBan(bans[i], bans'[i])

\* ...a deactivation by the server, by Default or of a tenant's own bans...
MayClose(ids, by) ==
    by \in Tenant \ {Default} =>
        \A i \in ids : i \in DOMAIN bans /\ bans[i].type = "manual" /\ bans[i].origin = by

Noticed(ids) ==
    engine' = EngineSees(ids) \/ engine' = [EngineSees(ids) EXCEPT !.pc = "whitelist", !.ids = {}]

Closes ==
    \E ids, reason, by : Deactivate(ids, reason, by) /\ MayClose(ids, by) /\ Noticed(ids)

\* ...a new row where the unique index allows one...
Opens ==
    \E i \in Id, row \in Row :
        /\ i \notin DOMAIN bans /\ bans' = Inserted(i, row)
        /\ Holders(row.target, row.scope) = {}
        /\ row.active /\ row.by = "system" /\ LocalRow(row)
        /\ row.type = "auto" => engine.pc = "insert" /\ row.target \in engine.cand

\* ...or a promotion.
Widens ==
    \E i \in DOMAIN bans :
        /\ bans[i].active /\ Holders(bans[i].target, "global") = {}
        /\ bans' = [bans EXCEPT ![i].scope = "global"]

LEMMA ApplicationTypes == "auto" \notin {"manual"} \cup App
BY ConstantsAssumption

LEMMA TableSteps ==
    ASSUME TypeInv, CallInv, Next
    PROVE  Keeps \/ Closes \/ Opens \/ Widens
<1>1. ASSUME UNCHANGED bans PROVE Keeps
  BY <1>1 DEF Keeps, SameBan
<1>2. ASSUME NEW r \in Request, NewRequest(r) PROVE UNCHANGED bans
  BY <1>2 DEF NewRequest, Create, Promote, PushExternal, Withdraw, Lift, ExcludeForTenant, WipeAll
<1>3. ASSUME NEW r \in Proc, RequestStep(r) PROVE Keeps \/ Closes \/ Opens \/ Widens
  <2>1. call[r] \in Calls
    BY DEF TypeInv
  <2>2. CASE Purge(r)
    <3>1. "system" \notin Tenant \ {Default}
      BY ConstantsAssumption
    <3> QED BY <2>2, <3>1 DEF Purge, Closes, MayClose, Noticed
  <2>3. CASE Check(r) \/ Exclude(r)
    BY <1>1, <2>3 DEF Check, Exclude
  <2>4. CASE WriteRow(r)
    <3>1. call[r].pc = "write" /\ call[r].op \in {"create", "external"}
      BY <2>4 DEF WriteRow
    <3>2. call[r] \in RowCalls
      <4>1. call[r] \in RowCalls \cup PromoteCalls
        BY <2>1, <3>1, CallPlaces
      <4> QED BY <3>1, <4>1 DEF PromoteCalls
    <3>3. call[r].row \in Row /\ PendingRow(call[r].row)
      BY <3>2 DEF RowCalls, CallInv
    <3>4. CASE UNCHANGED bans
      BY <1>1, <3>4
    <3>5. ASSUME NEW i \in Id, FreshId(i), bans' = Inserted(i, call[r].row),
                 Holders(call[r].row.target, call[r].row.scope) = {}
          PROVE  Opens
      <4>1. i \notin DOMAIN bans
        BY <3>5 DEF FreshId
      <4>2. call[r].row.type # "auto"
        BY <3>3, ApplicationTypes DEF PendingRow
      <4> QED BY <3>3, <3>5, <4>1, <4>2 DEF Opens, PendingRow
    <3> QED BY <2>4, <3>4, <3>5 DEF WriteRow
  <2>5. CASE ExtendRow(r)
    <3>1. PICK i : bans' = [bans EXCEPT ![i] = Refresh(bans[i], call[r].row.exp)]
      BY <2>5 DEF ExtendRow
    <3>2. ASSUME NEW j \in DOMAIN bans PROVE SameBan(bans[j], bans'[j])
      <4>1. bans[j] \in Row
        BY DEF TypeInv, RowsOK
      <4>2. SameBan(bans[j], Refresh(bans[j], call[r].row.exp))
        BY <4>1 DEF SameBan, Refresh, Row
      <4> QED BY <3>1, <4>2 DEF SameBan
    <3> QED BY <3>1, <3>2 DEF Keeps
  <2>6. CASE PromoteRow(r)
    <3>1. CASE UNCHANGED bans
      BY <1>1, <3>1
    <3>2. CASE /\ bans' = [bans EXCEPT ![call[r].id].scope = "global"] /\ Active(call[r].id)
               /\ Holders(bans[call[r].id].target, "global") = {}
      BY <3>2 DEF Widens, Active
    <3> QED BY <2>6, <3>1, <3>2 DEF PromoteRow
  <2>7. CASE Close(r)
    <3>1. call[r] \in LiftCalls \cup CloseCalls
      BY <2>1, <2>7, CallPlaces DEF Close
    <3>2. call[r].who \in Tenant \ {Default} => call[r] \in LiftCalls
      BY <3>1, ConstantsAssumption DEF CloseCalls
    <3>3. call[r].who \in Tenant \ {Default} => PlannedLift(call[r])
      BY <3>2 DEF CallInv
    <3> QED BY <2>7, <3>3 DEF Close, Closes, MayClose, Noticed, PlannedLift
  <2> QED BY <1>3, <2>2, <2>3, <2>4, <2>5, <2>6, <2>7 DEF RequestStep
<1>4. ASSUME EngineStep PROVE Keeps \/ Closes \/ Opens
  <2>1. CASE EngineRun \/ EngineCover \/ EngineWhitelist
    BY <1>1, <2>1 DEF EngineRun, EngineCover, EngineWhitelist
  <2>2. CASE EngineExpire
    <3>1. "system" \notin Tenant \ {Default}
      BY ConstantsAssumption
    <3> QED BY <2>2, <3>1 DEF EngineExpire, Closes, MayClose, Noticed
  <2>3. ASSUME NEW t \in Target, EngineInsert(t) PROVE Keeps \/ Opens
    <3>1. CASE UNCHANGED bans
      BY <1>1, <3>1
    <3>2. ASSUME NEW i \in Id, NEW x \in AutoExpiry, NEW o \in Attacked, FreshId(i),
                 bans' = Inserted(i, NewRow(t, "global", "auto", o, x)), Holders(t, "global") = {}
          PROVE  Opens
      <4> DEFINE row == NewRow(t, "global", "auto", o, x)
      <4>1. o \in Tenant /\ x \in Expiry
        BY ConstantsAssumption DEF Expiry
      <4>2. row \in Row
        BY <4>1, NewRowType DEF Scope
      <4>3. row.target = t /\ row.scope = "global" /\ row.active /\ row.by = "system" /\ LocalRow(row)
        BY DEF NewRow, LocalRow
      <4>4. engine.pc = "insert" /\ t \in engine.cand /\ i \notin DOMAIN bans
        BY <2>3, <3>2 DEF EngineInsert, FreshId
      <4> HIDE DEF row
      <4> QED BY <3>2, <4>2, <4>3, <4>4 DEF Opens, row
    <3> QED BY <2>3, <3>1, <3>2 DEF EngineInsert
  <2> QED BY <1>4, <2>1, <2>2, <2>3 DEF EngineStep
<1>5. ASSUME NEW i \in Id, Elapse(i) PROVE Keeps
  <2>1. bans' = [bans EXCEPT ![i].exp = "due"]
    BY <1>5 DEF Elapse
  <2>2. ASSUME NEW j \in DOMAIN bans PROVE SameBan(bans[j], bans'[j])
    <3>1. bans[j] \in Row
      BY DEF TypeInv, RowsOK
    <3> QED BY <2>1, <3>1 DEF SameBan, Row
  <2> QED BY <2>1, <2>2 DEF Keeps
<1>6. ASSUME \/ \E w \in Tenant, i \in Id : RemoveExclusion(w, i)
             \/ \E w \in Tenant, t \in Target : ToggleWhitelist(w, t)
             \/ ExpireBans
             \/ \E t \in Target : Fail(t) \/ ClockPasses(t) \/ WindowSlides(t)
      PROVE  Keeps
  BY <1>1, <1>6 DEF RemoveExclusion, ToggleWhitelist, ExpireBans, Fail, ClockPasses, WindowSlides
<1>7. ASSUME Close(ExpiryJob) PROVE Keeps \/ Closes \/ Opens \/ Widens
  BY <1>3, <1>7 DEF Proc, RequestStep
<1> QED BY <1>1, <1>2, <1>3, <1>4, <1>5, <1>6, <1>7 DEF Next, Proc
-----------------------------------------------------------------------------
(* Tenants close their own bans only. *)

\* A row keeps its type and its origin, whatever happens to it.
LEMMA RowsStay ==
    ASSUME TypeInv, Keeps \/ Closes \/ Opens \/ Widens, NEW i \in DOMAIN bans
    PROVE  /\ i \in DOMAIN bans'
           /\ bans'[i].type = bans[i].type /\ bans'[i].origin = bans[i].origin
           /\ bans'[i].target = bans[i].target
           /\ bans'[i].scope = bans[i].scope \/ bans'[i].scope = "global"
<1>1. bans[i] \in Row
  BY DEF TypeInv, RowsOK
<1>2. CASE Keeps
  BY <1>2 DEF Keeps, SameBan
<1>3. CASE Closes
  <2>1. PICK ids, reason, by : Deactivate(ids, reason, by)
    BY <1>3 DEF Closes
  <2>2. bans'[i] = bans[i] \/ bans'[i] = Lifted(bans[i], reason, by)
    BY <2>1, DeactivateRows
  <2>3. /\ Lifted(bans[i], reason, by).type = bans[i].type
        /\ Lifted(bans[i], reason, by).origin = bans[i].origin
        /\ Lifted(bans[i], reason, by).target = bans[i].target
        /\ Lifted(bans[i], reason, by).scope = bans[i].scope
    BY <1>1 DEF Lifted, Row
  <2>4. i \in DOMAIN bans'
    BY <2>1, DeactivateRows
  <2> QED BY <2>2, <2>3, <2>4
<1>4. CASE Opens
  BY <1>4 DEF Opens, Inserted
<1>5. CASE Widens
  BY <1>1, <1>5 DEF Widens, Row
<1> QED BY <1>2, <1>3, <1>4, <1>5

LEMMA LocalStep ==
    ASSUME TypeInv, LocalInv, Keeps \/ Closes \/ Opens \/ Widens
    PROVE  LocalInv'
<1>1. CASE Opens
  <2>1. PICK j \in Id, row \in Row : bans' = Inserted(j, row) /\ LocalRow(row)
    BY <1>1 DEF Opens
  <2>2. \A i \in DOMAIN bans' : bans'[i] = row \/ (i \in DOMAIN bans /\ bans'[i] = bans[i])
    BY <2>1 DEF Inserted
  <2> QED BY <2>1, <2>2 DEF LocalInv, LocalRow
<1>2. CASE Keeps \/ Closes \/ Widens
  <2>1. DOMAIN bans' = DOMAIN bans
    BY <1>2, DeactivateRows DEF Keeps, Closes, Widens
  <2> QED BY <1>2, <2>1, RowsStay DEF LocalInv, LocalRow
<1> QED BY <1>1, <1>2

LEMMA OwnStep ==
    ASSUME TypeInv, TenantLiftsOwn, Keeps \/ Closes \/ Opens \/ Widens
    PROVE  TenantLiftsOwn'
<1>1. CASE Keeps
  BY <1>1 DEF Keeps, SameBan, TenantLiftsOwn
<1>2. CASE Closes
  <2>1. PICK ids, reason, by : Deactivate(ids, reason, by) /\ MayClose(ids, by)
    BY <1>2 DEF Closes
  <2>2. ASSUME NEW i \in DOMAIN bans, bans'[i].by \in Tenant \ {Default}
        PROVE  bans'[i].type = "manual" /\ bans'[i].origin = bans'[i].by
    <3>1. bans[i] \in Row
      BY DEF TypeInv, RowsOK
    <3>2. CASE i \in ids /\ bans'[i] = Lifted(bans[i], reason, by)
      <4>1. bans'[i].by = by /\ bans'[i].type = bans[i].type /\ bans'[i].origin = bans[i].origin
        BY <3>1, <3>2 DEF Lifted, Row
      <4> QED BY <2>1, <2>2, <3>2, <4>1 DEF MayClose
    <3>3. CASE bans'[i] = bans[i]
      BY <2>2, <3>3 DEF TenantLiftsOwn
    <3> QED BY <2>1, <3>2, <3>3, DeactivateRows
  <2> QED BY <2>1, <2>2, DeactivateRows DEF TenantLiftsOwn
<1>3. CASE Opens
  <2>1. PICK j \in Id, row \in Row : bans' = Inserted(j, row) /\ row.by = "system"
    BY <1>3 DEF Opens
  <2>2. \A i \in DOMAIN bans' : bans'[i] = row \/ (i \in DOMAIN bans /\ bans'[i] = bans[i])
    BY <2>1 DEF Inserted
  <2>3. "system" \notin Tenant
    BY ConstantsAssumption
  <2> QED BY <2>1, <2>2, <2>3 DEF TenantLiftsOwn
<1>4. CASE Widens
  <2>1. PICK j \in DOMAIN bans : bans' = [bans EXCEPT ![j].scope = "global"]
    BY <1>4 DEF Widens
  <2>2. ASSUME NEW i \in DOMAIN bans
        PROVE  bans'[i].by = bans[i].by /\ bans'[i].type = bans[i].type /\ bans'[i].origin = bans[i].origin
    BY <2>1 DEF TypeInv, RowsOK, Row
  <2> QED BY <2>1, <2>2 DEF TenantLiftsOwn
<1> QED BY <1>1, <1>2, <1>3, <1>4

\* What a call may be as far as this invariant goes, in the state before.
GoodCall(c) ==
    /\ c \in RowCalls => PendingRow(c.row)
    /\ c \in LiftCalls /\ c.who # Default => PlannedLift(c)

LEMMA GoodCallMove ==
    ASSUME TypeInv, CallInv, NEW p \in Proc, NEW c \in Calls, GoodCall(c),
           call' = [call EXCEPT ![p] = c],
           \A i \in DOMAIN bans : /\ i \in DOMAIN bans'
                                  /\ bans'[i].type = bans[i].type /\ bans'[i].origin = bans[i].origin
    PROVE  CallInv'
<1>1. \A q \in Proc : GoodCall(call'[q])
  BY DEF TypeInv, CallInv, GoodCall
<1> QED BY <1>1 DEF CallInv, GoodCall, PlannedLift

LEMMA GoodNewRequest ==
    ASSUME TypeInv, LocalInv, CallInv, NEW r \in Request, NewRequest(r)
    PROVE  CallInv'
<1>1. ASSUME NEW c \in Calls, GoodCall(c), Begin(r, c), UNCHANGED bans PROVE CallInv'
  BY <1>1, GoodCallMove DEF Begin, Proc
<1>2. \A t : Stale(t) \subseteq Id /\ AfterStale(t) \in {"purge", "check", "write"}
  BY DEF Stale, Due, TypeInv, RowsOK, AfterStale
<1>3. Default \in Tenant
  BY ConstantsAssumption
<1>4. ASSUME NEW w \in Tenant, NEW t \in Target, NEW s \in Scope, NEW x \in {"never", "later"},
             Create(r, w, t, s, x)
      PROVE  CallInv'
  <2> DEFINE c == [op |-> "create", pc |-> AfterStale(t), who |-> w, ids |-> Stale(t),
                   row |-> NewRow(t, s, "manual", w, x)]
  <2>1. NewRow(t, s, "manual", w, x) \in Row
    BY NewRowType DEF Expiry
  <2>2. s \in {"global", w}
    BY <1>4 DEF Create, CreateScopes
  <2>3. PendingRow(NewRow(t, s, "manual", w, x))
    BY <2>2 DEF PendingRow, LocalRow, NewRow
  <2>4. c \in RowCalls /\ PendingRow(c.row)
    BY <1>2, <2>1, <2>3 DEF RowCalls
  <2>5. Begin(r, c) /\ UNCHANGED bans
    BY <1>4 DEF Create
  <2> HIDE DEF c
  <2>6. c \in Calls /\ c \notin LiftCalls
    BY <2>4, CallPlaces DEF Calls
  <2> QED BY <1>1, <2>4, <2>5, <2>6 DEF GoodCall
<1>5. ASSUME NEW i \in Id, Promote(r, i)
      PROVE  CallInv'
  <2> DEFINE c == [op |-> "promote", pc |-> AfterStale(bans[i].target), who |-> Default,
                   ids |-> Stale(bans[i].target), id |-> i]
  <2>1. c \in PromoteCalls
    BY <1>2, <1>3 DEF PromoteCalls
  <2>2. Begin(r, c) /\ UNCHANGED bans
    BY <1>5 DEF Promote
  <2> HIDE DEF c
  <2>3. c \in Calls /\ c \notin LiftCalls /\ c \notin RowCalls
    BY <2>1, CallPlaces DEF Calls
  <2> QED BY <1>1, <2>2, <2>3 DEF GoodCall
<1>6. ASSUME NEW a \in App, NEW t \in Target, PushExternal(r, a, t)
      PROVE  CallInv'
  <2> DEFINE c == [op |-> "external", pc |-> AfterStale(t), who |-> Default, ids |-> Stale(t),
                   row |-> NewRow(t, "global", a, Default, "later")]
  <2>1. NewRow(t, "global", a, Default, "later") \in Row
    BY <1>3, NewRowType DEF Expiry, Scope
  <2>2. PendingRow(NewRow(t, "global", a, Default, "later"))
    BY DEF PendingRow, LocalRow, NewRow
  <2>3. c \in RowCalls /\ PendingRow(c.row)
    BY <1>2, <1>3, <2>1, <2>2 DEF RowCalls
  <2>4. Begin(r, c) /\ UNCHANGED bans
    BY <1>6 DEF PushExternal
  <2> HIDE DEF c
  <2>5. c \in Calls /\ c \notin LiftCalls
    BY <2>3, CallPlaces DEF Calls
  <2> QED BY <1>1, <2>3, <2>4, <2>5 DEF GoodCall
<1>7. ASSUME NEW ids \in SUBSET Id, NEW op \in {"wipe", "withdraw", "expiry"},
             NEW who \in {Default, "system"},
             Begin(r, [op |-> op, pc |-> "deactivate", who |-> who, ids |-> ids]), UNCHANGED bans
      PROVE  CallInv'
  <2> DEFINE c == [op |-> op, pc |-> "deactivate", who |-> who, ids |-> ids]
  <2>1. c \in CloseCalls
    BY DEF CloseCalls
  <2>2. Begin(r, c)
    BY <1>7
  <2> HIDE DEF c
  <2>3. c \in Calls /\ c \notin LiftCalls /\ c \notin RowCalls
    BY <2>1, CallPlaces DEF Calls
  <2> QED BY <1>1, <1>7, <2>2, <2>3 DEF GoodCall
<1>8. ASSUME NEW a \in App, NEW t \in Target, Withdraw(r, a, t) PROVE CallInv'
  <2> DEFINE S == {i \in DOMAIN bans : Active(i) /\ bans[i].type = a /\ bans[i].target = t}
  <2>1. S \in SUBSET Id
    BY DEF TypeInv, RowsOK
  <2> QED BY <1>7, <1>8, <2>1 DEF Withdraw
<1>9. ASSUME WipeAll(r) PROVE CallInv'
  <2> DEFINE S == {i \in DOMAIN bans : Active(i)}
  <2>1. S \in SUBSET Id
    BY DEF TypeInv, RowsOK
  <2> QED BY <1>7, <1>9, <2>1 DEF WipeAll
<1>10. ASSUME NEW w \in Tenant, NEW S \in SUBSET DOMAIN bans, Lift(r, w, S) PROVE CallInv'
  <2> DEFINE D == {i \in S : PlanLift(i, w) = "deactivate"}
             E == {i \in S : PlanLift(i, w) = "exclude"}
             c == [op |-> "lift", pc |-> IF E = {} THEN "deactivate" ELSE "exclude",
                   who |-> w, ids |-> D, out |-> E]
  <2>1. c \in LiftCalls /\ c.who = w /\ c.ids = D
    BY DEF LiftCalls, TypeInv, RowsOK
  <2>2. ASSUME w # Default, NEW i \in D
        PROVE  i \in DOMAIN bans /\ bans[i].type = "manual" /\ bans[i].origin = w
    <3>1. i \in DOMAIN bans /\ bans[i].scope = w
      BY <2>2 DEF PlanLift
    <3>2. w # "global"
      BY ConstantsAssumption
    <3> QED BY <3>1, <3>2 DEF LocalInv, LocalRow
  <2>3. w # Default => PlannedLift(c)
    BY <2>1, <2>2 DEF PlannedLift
  <2>4. Begin(r, c) /\ UNCHANGED bans
    BY <1>10 DEF Lift
  <2> HIDE DEF c
  <2>5. c \in Calls /\ c \notin RowCalls
    BY <2>1, CallPlaces DEF Calls
  <2> QED BY <1>1, <2>1, <2>3, <2>4, <2>5 DEF GoodCall
<1>11. ASSUME NEW w \in Tenant, NEW i \in Id, ExcludeForTenant(r, w, i) PROVE CallInv'
  <2> DEFINE c == [op |-> "exclude", pc |-> "exclude", who |-> w, ids |-> {}, out |-> {i}]
  <2>1. c \in LiftCalls /\ c.ids = {}
    BY DEF LiftCalls
  <2>2. Begin(r, c) /\ UNCHANGED bans
    BY <1>11 DEF ExcludeForTenant
  <2> HIDE DEF c
  <2>3. c \in Calls /\ c \notin RowCalls
    BY <2>1, CallPlaces DEF Calls
  <2>4. PlannedLift(c)
    BY <2>1 DEF PlannedLift
  <2> QED BY <1>1, <2>2, <2>3, <2>4 DEF GoodCall
<1> QED BY <1>4, <1>5, <1>6, <1>8, <1>9, <1>10, <1>11 DEF NewRequest

LEMMA GoodStep ==
    ASSUME TypeInv, CallInv, NEW r \in Proc, RequestStep(r),
           \A i \in DOMAIN bans : /\ i \in DOMAIN bans'
                                  /\ bans'[i].type = bans[i].type /\ bans'[i].origin = bans[i].origin
    PROVE  CallInv'
<1>1. call[r] \in Calls /\ GoodCall(call[r])
  BY DEF TypeInv, CallInv, GoodCall
<1>2. CASE Return(r)
  <2>1. Idle \in Calls
    BY DEF Calls
  <2>2. GoodCall(Idle)
    BY <2>1, CallPlaces DEF GoodCall
  <2> QED BY <1>2, <2>1, <2>2, GoodCallMove DEF Return
<1>3. ASSUME NEW pc \in {"check", "write"}, NEW ids \in SUBSET Id,
             call[r].pc \in {"purge", "check"},
             call' = [call EXCEPT ![r].pc = pc, ![r].ids = ids]
      PROVE  CallInv'
  <2> DEFINE c == [call[r] EXCEPT !.pc = pc, !.ids = ids]
  <2>1. call[r] \in RowCalls \cup PromoteCalls
    BY <1>1, <1>3, CallPlaces
  <2>2. call' = [call EXCEPT ![r] = c]
    BY <1>3 DEF TypeInv
  <2>3. CASE call[r] \in RowCalls
    <3>1. c \in RowCalls /\ c.row = call[r].row
      BY <2>3 DEF RowCalls
    <3> HIDE DEF c
    <3>2. c \in Calls /\ c \notin LiftCalls
      BY <3>1, CallPlaces DEF Calls
    <3>3. GoodCall(c)
      BY <1>1, <2>3, <3>1, <3>2 DEF GoodCall
    <3> QED BY <2>2, <3>2, <3>3, GoodCallMove
  <2>4. CASE call[r] \in PromoteCalls
    <3>1. c \in PromoteCalls
      BY <2>4 DEF PromoteCalls
    <3> HIDE DEF c
    <3>2. c \in Calls /\ c \notin LiftCalls /\ c \notin RowCalls
      BY <3>1, CallPlaces DEF Calls
    <3>3. GoodCall(c)
      BY <3>2 DEF GoodCall
    <3> QED BY <2>2, <3>2, <3>3, GoodCallMove
  <2> QED BY <2>1, <2>3, <2>4
<1>4. CASE Purge(r)
  <2>1. call[r].pc = "purge" /\ call' = [call EXCEPT ![r].pc = "check", ![r].ids = {}]
    BY <1>4 DEF Purge
  <2>2. {} \in SUBSET Id
    OBVIOUS
  <2> QED BY <1>3, <2>1, <2>2
<1>5. CASE Check(r)
  <2>1. ASSUME call' = [call EXCEPT ![r].pc = "write"], call[r].pc = "check" PROVE CallInv'
    <3>1. call[r] \in RowCalls \cup PromoteCalls
      BY <1>1, <2>1, CallPlaces
    <3>2. call[r].ids \in SUBSET Id
      BY <3>1 DEF RowCalls, PromoteCalls
    <3>3. [call[r] EXCEPT !.pc = "write"] = [call[r] EXCEPT !.pc = "write", !.ids = call[r].ids]
      BY <3>1 DEF RowCalls, PromoteCalls
    <3>4. call' = [call EXCEPT ![r].pc = "write", ![r].ids = call[r].ids]
      BY <2>1, <3>3 DEF TypeInv
    <3> QED BY <1>3, <2>1, <3>2, <3>4
  <2>2. \A t : Holders(t, "global") \in SUBSET Id
    BY DEF Holders, TypeInv, RowsOK
  <2> QED BY <1>2, <1>3, <1>5, <2>1, <2>2 DEF Check
<1>6. CASE Exclude(r)
  <2>1. CASE call' = [call EXCEPT ![r].pc = "deactivate"]
    <3> DEFINE c == [call[r] EXCEPT !.pc = "deactivate"]
    <3>1. call[r] \in LiftCalls
      BY <1>1, <1>6, CallPlaces DEF Exclude
    <3>2. c \in LiftCalls /\ c.who = call[r].who /\ c.ids = call[r].ids
      BY <3>1 DEF LiftCalls
    <3>3. call' = [call EXCEPT ![r] = c]
      BY <2>1 DEF TypeInv
    <3> HIDE DEF c
    <3>4. c \in Calls /\ c \notin RowCalls
      BY <3>2, CallPlaces DEF Calls
    <3>5. GoodCall(c)
      BY <1>1, <3>1, <3>2, <3>4 DEF GoodCall, PlannedLift
    <3> QED BY <3>3, <3>4, <3>5, GoodCallMove
  <2> QED BY <1>2, <1>6, <2>1 DEF Exclude
<1>7. CASE WriteRow(r) \/ ExtendRow(r) \/ PromoteRow(r) \/ Close(r)
  BY <1>2, <1>7 DEF WriteRow, ExtendRow, PromoteRow, Close
<1> QED BY <1>4, <1>5, <1>6, <1>7 DEF RequestStep

LEMMA OwnInvStep == TypeInv /\ OwnInv /\ [Next]_vars => OwnInv'
<1> SUFFICES ASSUME TypeInv, OwnInv, [Next]_vars PROVE OwnInv'
  OBVIOUS
<1>1. CASE UNCHANGED vars
  BY <1>1 DEF vars, OwnInv, CallInv, PlannedLift, LocalInv, TenantLiftsOwn
<1>2. CASE Next
  <2>1. Keeps \/ Closes \/ Opens \/ Widens
    BY <1>2, TableSteps DEF OwnInv
  <2>2. LocalInv' /\ TenantLiftsOwn'
    BY <2>1, LocalStep, OwnStep DEF OwnInv
  <2>3. \A i \in DOMAIN bans : /\ i \in DOMAIN bans'
                               /\ bans'[i].type = bans[i].type /\ bans'[i].origin = bans[i].origin
    BY <2>1, RowsStay
  <2>4. CallInv'
    <3>1. CASE UNCHANGED call
      BY <2>3, <3>1 DEF OwnInv, CallInv, PlannedLift
    <3>2. CASE ExpireBans
      <4> DEFINE c == [op |-> "expiry", pc |-> "deactivate", who |-> "system", ids |-> Due(DOMAIN bans)]
      <4>1. c \in CloseCalls
        BY DEF CloseCalls, Due, TypeInv, RowsOK
      <4>2. call' = [call EXCEPT ![ExpiryJob] = c]
        BY <3>2 DEF ExpireBans
      <4> HIDE DEF c
      <4>3. c \in Calls /\ c \notin LiftCalls /\ c \notin RowCalls /\ ExpiryJob \in Proc
        BY <4>1, CallPlaces DEF Calls, Proc
      <4> QED BY <2>3, <4>2, <4>3, GoodCallMove DEF GoodCall, OwnInv
    <3>3. ASSUME NEW r \in Request, NewRequest(r) PROVE CallInv'
      BY <3>3, GoodNewRequest DEF OwnInv
    <3>4. ASSUME NEW r \in Proc, RequestStep(r) PROVE CallInv'
      BY <2>3, <3>4, GoodStep DEF OwnInv
    <3>5. ASSUME \/ \E w \in Tenant, i \in Id : RemoveExclusion(w, i)
                 \/ \E w \in Tenant, t \in Target : ToggleWhitelist(w, t)
                 \/ \E i \in Id : Elapse(i)
                 \/ \E t \in Target : Fail(t) \/ ClockPasses(t) \/ WindowSlides(t)
                 \/ EngineStep
          PROVE  UNCHANGED call
      BY <3>5 DEF RemoveExclusion, ToggleWhitelist, Elapse, Fail, ClockPasses, WindowSlides, EngineStep,
                  EngineRun, EngineCover, EngineExpire, EngineWhitelist, EngineInsert
    <3>6. Close(ExpiryJob) => CallInv'
      BY <3>4 DEF Proc, RequestStep
    <3> QED BY <1>2, <3>1, <3>2, <3>3, <3>4, <3>5, <3>6 DEF Next, Proc
  <2> QED BY <2>2, <2>4 DEF OwnInv
<1> QED BY <1>1, <1>2

LEMMA InitOwn == Init => OwnInv
<1> SUFFICES ASSUME Init PROVE OwnInv
  OBVIOUS
<1>1. \A p \in Proc : call[p] = Idle
  BY DEF Init
<1>2. Idle \notin RowCalls /\ Idle \notin LiftCalls
  BY CallPlaces DEF Calls
<1>3. \A i \in DOMAIN bans : bans[i].by = "system" /\ LocalRow(bans[i])
  BY StartAssumption DEF Init, LocalRow
<1>4. "system" \notin Tenant
  BY ConstantsAssumption
<1> QED BY <1>1, <1>2, <1>3, <1>4 DEF OwnInv, CallInv, LocalInv, TenantLiftsOwn

LEMMA OwnHolds == Spec => []OwnInv
BY InitOwn, OwnInvStep, TypesHold, PTL DEF Spec

\* A tenant other than Default only ever closes bans it made by hand
\* (planLift), although lift acts by ids on rows it read before, which another
\* request may have promoted to the global scope meanwhile.
THEOREM TenantsLiftTheirOwn == Spec => []TenantLiftsOwn
BY OwnHolds, PTL DEF OwnInv
-----------------------------------------------------------------------------
(* The table is a ledger. *)

LEMMA ClosedEntry ==
    ASSUME NEW t \in Target, NEW s \in Scope, NEW b \in BOOLEAN
    PROVE  [[target |-> t, scope |-> s, open |-> b] EXCEPT !.open = FALSE]
             = [target |-> t, scope |-> s, open |-> FALSE]
<1> DEFINE Entry == [target : Target, scope : Scope, open : BOOLEAN]
           e == [target |-> t, scope |-> s, open |-> b]
           f == [target |-> t, scope |-> s, open |-> FALSE]
<1>1. e \in Entry /\ f \in Entry /\ e.target = t /\ e.scope = s
  OBVIOUS
<1>2. f.target = t /\ f.scope = s /\ f.open = FALSE
  OBVIOUS
<1> HIDE DEF e, f
<1> DEFINE c == [e EXCEPT !.open = FALSE]
<1>3. c \in Entry /\ c.target = e.target /\ c.scope = e.scope /\ c.open = FALSE
  BY <1>1
<1> HIDE DEF c
<1>4. c = f
  BY <1>1, <1>2, <1>3
<1> QED BY <1>4 DEF c, e, f

LEMMA LedgerStep == TypeInv /\ CallInv /\ [Next]_vars => [Ledger!Next]_ledgerBar
<1> SUFFICES ASSUME TypeInv, CallInv, [Next]_vars PROVE Ledger!Next \/ ledgerBar' = ledgerBar
  OBVIOUS
<1>0. /\ DOMAIN ledgerBar = DOMAIN bans
      /\ \A i \in DOMAIN bans :
           /\ ledgerBar[i] = [target |-> bans[i].target, scope |-> bans[i].scope, open |-> bans[i].active]
           /\ ledgerBar[i].target = bans[i].target /\ ledgerBar[i].scope = bans[i].scope
           /\ ledgerBar[i].open = bans[i].active
  BY DEF ledgerBar
<1>1. ASSUME NEW t, NEW s, Holders(t, s) = {} PROVE Ledger!Free(t, s)
  BY <1>0, <1>1 DEF Ledger!Free, Holders, Active
<1>2. CASE UNCHANGED vars
  BY <1>2 DEF vars, ledgerBar
<1>3. CASE Keeps
  BY <1>3 DEF Keeps, SameBan, ledgerBar
<1>4. CASE Closes
  <2>1. PICK ids, reason, by : Deactivate(ids, reason, by)
    BY <1>4 DEF Closes
  <2> DEFINE S == {i \in DOMAIN bans : i \in ids /\ bans[i].active}
  <2>2. ASSUME NEW i \in DOMAIN bans
        PROVE  ledgerBar'[i] = IF i \in S THEN [ledgerBar[i] EXCEPT !.open = FALSE] ELSE ledgerBar[i]
    <3>1. bans[i] \in Row
      BY DEF TypeInv, RowsOK
    <3>2. /\ Lifted(bans[i], reason, by).active = FALSE
          /\ Lifted(bans[i], reason, by).target = bans[i].target
          /\ Lifted(bans[i], reason, by).scope = bans[i].scope
      BY <3>1 DEF Lifted, Row
    <3>3. bans'[i] = IF i \in S THEN Lifted(bans[i], reason, by) ELSE bans[i]
      BY <2>1, DeactivateRows
    <3>4. ledgerBar'[i] = [target |-> bans'[i].target, scope |-> bans'[i].scope, open |-> bans'[i].active]
      BY <2>1, DeactivateRows DEF ledgerBar
    <3>5. ledgerBar[i] = [target |-> bans[i].target, scope |-> bans[i].scope, open |-> bans[i].active]
      BY <1>0
    <3>6. CASE i \in S
      <4>1. ledgerBar'[i] = [target |-> bans[i].target, scope |-> bans[i].scope, open |-> FALSE]
        BY <3>2, <3>3, <3>4, <3>6
      <4>2. [ledgerBar[i] EXCEPT !.open = FALSE]
              = [target |-> bans[i].target, scope |-> bans[i].scope, open |-> FALSE]
        BY <3>1, <3>5, ClosedEntry DEF Row
      <4> QED BY <3>6, <4>1, <4>2
    <3>7. CASE i \notin S
      BY <3>3, <3>4, <3>5, <3>7
    <3> QED BY <3>6, <3>7
  <2>3. ledgerBar' = [j \in DOMAIN ledgerBar |->
                        IF j \in S THEN [ledgerBar[j] EXCEPT !.open = FALSE] ELSE ledgerBar[j]]
    BY <1>0, <2>1, <2>2, DeactivateRows DEF ledgerBar
  <2>4. S \in SUBSET DOMAIN ledgerBar /\ \A i \in S : ledgerBar[i].open
    BY <1>0
  <2> HIDE DEF S
  <2> QED BY <2>3, <2>4 DEF Ledger!Next, Ledger!Close
<1>5. CASE Opens
  <2>1. PICK i \in Id, row \in Row :
          /\ i \notin DOMAIN bans /\ bans' = Inserted(i, row)
          /\ Holders(row.target, row.scope) = {} /\ row.active
    BY <1>5 DEF Opens
  <2>2. row.target \in Target /\ row.scope \in Scope /\ row.active = TRUE
    BY <2>1 DEF Row
  <2>3. ledgerBar' = [j \in DOMAIN ledgerBar \cup {i} |->
                        IF j = i THEN [target |-> row.target, scope |-> row.scope, open |-> TRUE]
                                 ELSE ledgerBar[j]]
    BY <1>0, <2>1, <2>2 DEF Inserted, ledgerBar
  <2>4. Ledger!Free(row.target, row.scope) /\ i \in Id \ DOMAIN ledgerBar
    BY <1>0, <1>1, <2>1
  <2> QED BY <2>2, <2>3, <2>4 DEF Ledger!Next, Ledger!Open
<1>6. CASE Widens
  <2>1. PICK i \in DOMAIN bans :
          /\ bans[i].active /\ Holders(bans[i].target, "global") = {}
          /\ bans' = [bans EXCEPT ![i].scope = "global"]
    BY <1>6 DEF Widens
  <2>2. bans[i] \in Row
    BY DEF TypeInv, RowsOK
  <2>3. ledgerBar' = [ledgerBar EXCEPT ![i].scope = "global"]
    BY <1>0, <2>1, <2>2 DEF ledgerBar, Row
  <2>4. Ledger!Free(ledgerBar[i].target, "global") /\ i \in DOMAIN ledgerBar /\ ledgerBar[i].open
    BY <1>0, <1>1, <2>1
  <2> QED BY <2>3, <2>4 DEF Ledger!Next, Ledger!Widen
<1> QED BY <1>2, <1>3, <1>4, <1>5, <1>6, TableSteps

LEMMA LedgerInit == Init => Ledger!Init
<1> SUFFICES ASSUME Init PROVE Ledger!Init
  OBVIOUS
<1>1. /\ DOMAIN bans \subseteq Id
      /\ \A i, j \in DOMAIN bans : bans[i].target = bans[j].target /\ bans[i].scope = bans[j].scope => i = j
  BY StartAssumption DEF Init
<1> QED BY <1>1 DEF Ledger!Init, ledgerBar

\* ban.service.ts implements BanLedger: however the statements of requests,
\* the expiry job and the engine interleave, a target has one active ban per
\* scope, a ban's scope only ever becomes global, and a lifted ban stays lifted.
THEOREM ImplementsLedger == Spec => IsLedger
<1>1. Init => Ledger!Init
  BY LedgerInit
<1>2. TypeInv /\ OwnInv /\ [Next]_vars => [Ledger!Next]_ledgerBar
  BY LedgerStep DEF OwnInv
<1> QED BY <1>1, <1>2, TypesHold, OwnHolds, PTL DEF Spec, IsLedger, Ledger!Spec
-----------------------------------------------------------------------------
(* A lift holds. *)

\* The failures that count were received and stamped since the last global
\* deactivation, or were stamped ahead of it; and an address the engine is
\* about to ban had as many as the threshold, unless it was deactivated after
\* the engine's cycle began.
MarkInv ==
    /\ \A t \in Target : fresh[t] + ahead[t] <= since[t] + led[t]
    /\ engine.pc # "idle" =>
         \A t \in engine.cand \ engine.lifted : since[t] + led[t] >= Threshold

LEMMA MarkStep == TypeInv /\ MarkInv /\ [Next]_vars => MarkInv'
<1> SUFFICES ASSUME TypeInv, MarkInv, [Next]_vars PROVE MarkInv'
  OBVIOUS
<1>1. /\ fresh \in [Target -> Nat] /\ ahead \in [Target -> Nat]
      /\ since \in [Target -> Nat] /\ led \in [Target -> Nat]
      /\ Threshold \in Nat /\ engine.cand \subseteq Target
  BY ConstantsAssumption DEF TypeInv, CountersOK, EngineOK
<1>2. ASSUME NEW ids, NEW reason, NEW by, Deactivate(ids, reason, by),
             \/ engine' = EngineSees(ids)
             \/ engine' = [EngineSees(ids) EXCEPT !.pc = "whitelist", !.ids = {}] /\ engine.pc # "idle"
      PROVE  MarkInv'
  <2> DEFINE M == Marked({i \in ids : Active(i)})
  <2>1. \A t \in Target : /\ fresh'[t] = IF t \in M THEN 0 ELSE fresh[t]
                          /\ since'[t] = IF t \in M THEN 0 ELSE since[t]
                          /\ led'[t] = IF t \in M THEN ahead[t] ELSE led[t]
                          /\ ahead'[t] = ahead[t]
    BY <1>2 DEF Deactivate, Newer
  <2>3. ASSUME engine.pc # "idle"
        PROVE  engine'.cand = engine.cand /\ engine'.lifted = engine.lifted \cup M
    <3>1. EngineSees(ids) = [engine EXCEPT !.lifted = @ \cup M]
      BY <2>3 DEF EngineSees
    <3> HIDE DEF M
    <3> QED BY <1>2, <3>1 DEF TypeInv, EngineOK
  <2>4. engine.pc = "idle" => engine'.pc = "idle"
    BY <1>2 DEF EngineSees
  <2> HIDE DEF M
  <2>5. ASSUME NEW t \in Target PROVE fresh'[t] + ahead'[t] <= since'[t] + led'[t]
    <3>1. fresh[t] + ahead[t] <= since[t] + led[t] /\ ahead[t] \in Nat
      BY <1>1 DEF MarkInv
    <3>2. CASE t \in M
      BY <2>1, <3>1, <3>2
    <3>3. CASE t \notin M
      BY <2>1, <3>1, <3>3
    <3> QED BY <3>2, <3>3
  <2>6. ASSUME engine.pc # "idle", NEW t \in engine'.cand \ engine'.lifted
        PROVE  since'[t] + led'[t] >= Threshold
    <3>1. t \in engine.cand \ engine.lifted /\ t \notin M /\ t \in Target
      BY <1>1, <2>3, <2>6
    <3>2. since'[t] = since[t] /\ led'[t] = led[t]
      BY <2>1, <3>1
    <3> QED BY <2>6, <3>1, <3>2 DEF MarkInv
  <2> QED BY <2>4, <2>5, <2>6 DEF MarkInv
<1>3. ASSUME UNCHANGED <<fresh, ahead, since, led, engine>> PROVE MarkInv'
  BY <1>3 DEF MarkInv
<1>4. CASE UNCHANGED vars
  BY <1>3, <1>4 DEF vars
<1>5. ASSUME NEW r \in Request, NewRequest(r) PROVE MarkInv'
  BY <1>3, <1>5 DEF NewRequest, Create, Promote, PushExternal, Withdraw, Lift, ExcludeForTenant,
                    WipeAll, counters
<1>6. ASSUME NEW r \in Proc, RequestStep(r) PROVE MarkInv'
  <2>1. CASE Purge(r) \/ Close(r)
    BY <1>2, <2>1 DEF Purge, Close
  <2>2. CASE Check(r) \/ WriteRow(r) \/ ExtendRow(r) \/ PromoteRow(r) \/ Exclude(r)
    BY <1>3, <2>2 DEF Check, WriteRow, ExtendRow, PromoteRow, Exclude, counters
  <2> QED BY <1>6, <2>1, <2>2 DEF RequestStep
<1>7. ASSUME EngineStep PROVE MarkInv'
  <2>1. CASE EngineRun
    <3>1. UNCHANGED <<fresh, ahead, since, led>> /\ engine'.pc = "cover" /\ engine'.lifted = {}
      BY <2>1 DEF EngineRun, EngineIdle, counters
    <3>2. engine'.cand = {t \in Target : Counted(t) >= Threshold}
      BY <2>1 DEF EngineRun, EngineIdle
    <3>3. ASSUME NEW t \in Target, Counted(t) >= Threshold
          PROVE  since[t] + led[t] >= Threshold
      <4>1. fresh[t] + ahead[t] <= since[t] + led[t]
        BY DEF MarkInv
      <4> QED BY <1>1, <3>3, <4>1 DEF Counted
    <3> QED BY <3>1, <3>2, <3>3 DEF MarkInv
  <2>2. CASE EngineCover \/ EngineWhitelist \/ \E t \in Target : EngineInsert(t)
    <3>1. UNCHANGED <<fresh, ahead, since, led>> /\ engine.pc # "idle"
      BY <2>2 DEF EngineCover, EngineWhitelist, EngineInsert, counters
    <3>2. engine' = EngineIdle \/ (engine'.cand \subseteq engine.cand /\ engine'.lifted = engine.lifted)
      <4>1. CASE EngineCover
        BY <4>1 DEF EngineCover, TypeInv, EngineOK
      <4>2. CASE EngineWhitelist
        BY <4>2 DEF EngineWhitelist, TypeInv, EngineOK
      <4>3. ASSUME NEW t \in Target, EngineInsert(t)
            PROVE  engine' = EngineIdle \/ (engine'.cand \subseteq engine.cand
                                              /\ engine'.lifted = engine.lifted)
        BY <4>3 DEF EngineInsert, TypeInv, EngineOK
      <4> QED BY <2>2, <4>1, <4>2, <4>3
    <3>3. EngineIdle.pc = "idle"
      BY DEF EngineIdle
    <3> QED BY <3>1, <3>2, <3>3 DEF MarkInv
  <2>3. CASE EngineExpire
    BY <1>2, <2>3 DEF EngineExpire
  <2> QED BY <1>7, <2>1, <2>2, <2>3 DEF EngineStep
<1>8. ASSUME NEW t \in Target, Fail(t) \/ ClockPasses(t) \/ WindowSlides(t) PROVE MarkInv'
  <2>1. UNCHANGED <<led, engine>>
    BY <1>8 DEF Fail, ClockPasses, WindowSlides
  <2>2. ASSUME NEW u \in Target
        PROVE  fresh'[u] + ahead'[u] <= since'[u] + led[u] /\ since[u] <= since'[u] /\ since'[u] \in Nat
    <3>1. fresh[u] + ahead[u] <= since[u] + led[u]
      BY DEF MarkInv
    <3>2. CASE Fail(t)
      BY <1>1, <3>1, <3>2 DEF Fail
    <3>3. CASE ClockPasses(t)
      BY <1>1, <3>1, <3>3 DEF ClockPasses
    <3>4. CASE WindowSlides(t)
      BY <1>1, <3>1, <3>4 DEF WindowSlides
    <3> QED BY <1>8, <3>2, <3>3, <3>4
  <2>3. ASSUME engine.pc # "idle", NEW u \in engine.cand \ engine.lifted
        PROVE  since'[u] + led[u] >= Threshold
    <3>1. since[u] + led[u] >= Threshold /\ u \in Target
      BY <1>1, <2>3 DEF MarkInv
    <3> QED BY <1>1, <2>2, <3>1
  <2> QED BY <2>1, <2>2, <2>3 DEF MarkInv
<1>9. ASSUME \/ \E w \in Tenant, i \in Id : RemoveExclusion(w, i)
             \/ \E w \in Tenant, t \in Target : ToggleWhitelist(w, t)
             \/ ExpireBans
             \/ \E i \in Id : Elapse(i)
      PROVE  MarkInv'
  BY <1>3, <1>9 DEF RemoveExclusion, ToggleWhitelist, ExpireBans, Elapse, counters
<1>10. Close(ExpiryJob) => MarkInv'
  BY <1>6 DEF Proc, RequestStep
<1> QED BY <1>4, <1>5, <1>6, <1>7, <1>8, <1>9, <1>10 DEF Next, Proc

LEMMA MarkHolds == Spec => []MarkInv
<1>1. Init => MarkInv
  BY DEF Init, MarkInv, EngineIdle
<1> QED BY <1>1, MarkStep, TypesHold, PTL DEF Spec

\* A global deactivation holds (the lift watermark of evaluateThresholds): the
\* engine bans an address again only for as many failures as the threshold,
\* received and stamped since then or stamped ahead of it by an agent's fast
\* clock, unless its cycle was already under way.
THEOREM LiftsHold == Spec => LiftHolds
<1> DEFINE A == \A i \in DOMAIN bans' \ DOMAIN bans :
                  LET t == bans'[i].target IN
                  bans'[i].type = "auto" /\ t \notin engine.lifted => since[t] + led[t] >= Threshold
<1>1. TypeInv /\ OwnInv /\ MarkInv /\ [Next]_vars => [A]_vars
  <2> SUFFICES ASSUME TypeInv, OwnInv, MarkInv, Next,
                      NEW i \in DOMAIN bans' \ DOMAIN bans,
                      bans'[i].type = "auto", bans'[i].target \notin engine.lifted
               PROVE  since[bans'[i].target] + led[bans'[i].target] >= Threshold
    OBVIOUS
  <2>1. Opens
    <3>1. (Keeps \/ Closes \/ Widens) => DOMAIN bans' = DOMAIN bans
      BY DeactivateRows DEF Keeps, Closes, Widens
    <3> QED BY <3>1, TableSteps DEF OwnInv
  <2>2. PICK j \in Id, row \in Row :
          /\ bans' = Inserted(j, row)
          /\ row.type = "auto" => engine.pc = "insert" /\ row.target \in engine.cand
    BY <2>1 DEF Opens
  <2>3. bans'[i] = row
    BY <2>2 DEF Inserted
  <2> QED BY <2>2, <2>3 DEF MarkInv
<1> QED BY <1>1, TypesHold, OwnHolds, MarkHolds, PTL DEF Spec, LiftHolds

-----------------------------------------------------------------------------
(* The other writer of ip_bans: the bans of a remote blocklist.             *)

CONSTANTS Kinds, Sources, Sync, Admin, MaxChanges, MaxFaults, MaxOverlaps
VARIABLES
    list, entries, globalBans, globalWhitelist, source, news, proc, changes, faults, overlaps

Remote == INSTANCE RemoteBlocklist WITH bans <- globalBans, whitelist <- globalWhitelist

\* The rows are those of the table.
RemoteRows ==
    DOMAIN globalBans \subseteq Id /\ \A i \in DOMAIN globalBans : globalBans[i] \in Remote!ListBan

\* What a step may do to the table, if it does not leave it alone.
RemoteCloses == \E ids : globalBans' = Remote!Deactivated(ids)
RemoteOpens ==
    \E i \in Id \ DOMAIN globalBans, t \in Target, r \in BOOLEAN :
        Remote!Covering(t) = {} /\ globalBans' = Remote!Inserted(i, t, r)

LEMMA RemoteSteps ==
    ASSUME [Remote!Next]_(Remote!vars)
    PROVE  RemoteCloses \/ RemoteOpens \/ UNCHANGED globalBans
<1>1. ASSUME NEW p, Remote!TimerSync(p) \/ Remote!ForceSync(p) \/ Remote!SyncStep(p) \/ Remote!Fails(p)
      PROVE  UNCHANGED globalBans
  BY <1>1 DEF Remote!TimerSync, Remote!ForceSync, Remote!BeginSync, Remote!SyncStep,
     Remote!Fetch, Remote!Stamp, Remote!Upsert, Remote!Prune, Remote!Finish, Remote!Fails
<1>2. ASSUME NEW p, Remote!ReconcileStep(p)
      PROVE  RemoteCloses \/ RemoteOpens \/ UNCHANGED globalBans
  <2>1. CASE Remote!Reconcile(p) \/ Remote!Select(p) \/ Remote!Lookup(p)
    BY <2>1 DEF Remote!Reconcile, Remote!Select, Remote!Lookup
  <2>2. CASE Remote!LiftStale(p)
    BY <2>2 DEF Remote!LiftStale, RemoteCloses
  <2>3. ASSUME NEW t \in Target, Remote!Insert(p, t)
        PROVE  RemoteOpens \/ UNCHANGED globalBans
    BY <2>3 DEF Remote!Insert, Remote!Taken, Remote!FreshId, RemoteOpens
  <2> QED BY <1>2, <2>1, <2>2, <2>3 DEF Remote!ReconcileStep
<1>3. ASSUME NEW p, Remote!AdminStep(p) PROVE RemoteCloses \/ UNCHANGED globalBans
  BY <1>3 DEF Remote!AdminStep, Remote!UpdateWrite, Remote!ToggleApplies, Remote!DeleteBans,
     Remote!DeleteRow, Remote!DisableEntry, RemoteCloses
<1>4. ASSUME NEW p, Remote!AdminRequest(p) PROVE RemoteCloses \/ UNCHANGED globalBans
  BY <1>4 DEF Remote!AdminRequest, Remote!UpdateRead, Remote!Delete, Remote!ToggleIp,
     Remote!Lift, RemoteCloses
<1>5. ASSUME NEW t \in Target, Remote!BanElsewhere(t) PROVE RemoteOpens
  BY <1>5 DEF Remote!BanElsewhere, Remote!Taken, Remote!FreshId, RemoteOpens
<1>6. ASSUME NEW t \in Target, Remote!ToggleWhitelist(t) PROVE UNCHANGED globalBans
  BY <1>6 DEF Remote!ToggleWhitelist
<1>7. ASSUME NEW f \in Sources, Remote!SourceChanges(f) PROVE UNCHANGED globalBans
  BY <1>7 DEF Remote!SourceChanges
<1>8. CASE UNCHANGED Remote!vars
  BY <1>8 DEF Remote!vars
<1> QED BY <1>1, <1>2, <1>3, <1>4, <1>5, <1>6, <1>7, <1>8 DEF Remote!Next

LEMMA RemoteRowsStep == RemoteRows /\ [Remote!Next]_(Remote!vars) => RemoteRows'
<1> SUFFICES ASSUME RemoteRows, [Remote!Next]_(Remote!vars) PROVE RemoteRows'
  OBVIOUS
<1>1. CASE RemoteCloses
  <2>1. PICK ids : globalBans' = Remote!Deactivated(ids)
    BY <1>1 DEF RemoteCloses
  <2>2. DOMAIN globalBans' = DOMAIN globalBans
    BY <2>1 DEF Remote!Deactivated
  <2>3. ASSUME NEW i \in DOMAIN globalBans PROVE globalBans'[i] \in Remote!ListBan
    BY <2>1, <2>3 DEF Remote!Deactivated, RemoteRows, Remote!ListBan
  <2> QED BY <2>2, <2>3 DEF RemoteRows
<1>2. CASE RemoteOpens
  <2>1. PICK i \in Id \ DOMAIN globalBans, t \in Target, r \in BOOLEAN :
           globalBans' = Remote!Inserted(i, t, r)
    BY <1>2 DEF RemoteOpens
  <2>2. [target |-> t, remote |-> r, active |-> TRUE] \in Remote!ListBan
    BY DEF Remote!ListBan
  <2> QED BY <2>1, <2>2 DEF Remote!Inserted, RemoteRows
<1>3. CASE UNCHANGED globalBans
  BY <1>3 DEF RemoteRows
<1> QED BY <1>1, <1>2, <1>3, RemoteSteps

LEMMA RemoteLedgerStep ==
    RemoteRows /\ [Remote!Next]_(Remote!vars) => [Remote!Ledger!Next]_(Remote!ledgerBar)
<1> SUFFICES ASSUME RemoteRows, [Remote!Next]_(Remote!vars)
             PROVE  Remote!Ledger!Next \/ UNCHANGED Remote!ledgerBar
  OBVIOUS
<1>0. /\ DOMAIN Remote!ledgerBar = DOMAIN globalBans
      /\ \A i \in DOMAIN globalBans :
            Remote!ledgerBar[i] = [target |-> globalBans[i].target, scope |-> "global",
                                   open |-> globalBans[i].active]
  BY DEF Remote!ledgerBar
<1>1. CASE RemoteCloses
  <2>1. PICK ids : globalBans' = Remote!Deactivated(ids)
    BY <1>1 DEF RemoteCloses
  <2> DEFINE S == {i \in DOMAIN globalBans : i \in ids /\ globalBans[i].active}
  <2>2. /\ S \in SUBSET DOMAIN Remote!ledgerBar /\ \A i \in S : Remote!ledgerBar[i].open
    BY <1>0
  <2>3. Remote!ledgerBar' =
           [j \in DOMAIN Remote!ledgerBar |->
              IF j \in S THEN [Remote!ledgerBar[j] EXCEPT !.open = FALSE]
                         ELSE Remote!ledgerBar[j]]
    <3>1. DOMAIN globalBans' = DOMAIN globalBans
      BY <2>1 DEF Remote!Deactivated
    <3>2. ASSUME NEW j \in DOMAIN globalBans
          PROVE  [target |-> globalBans'[j].target, scope |-> "global",
                  open |-> globalBans'[j].active] =
                 IF j \in S THEN [Remote!ledgerBar[j] EXCEPT !.open = FALSE]
                            ELSE Remote!ledgerBar[j]
      <4>1. globalBans[j] \in Remote!ListBan
        BY DEF RemoteRows
      <4>2. CASE j \in ids
        <5>1. globalBans'[j] = [globalBans[j] EXCEPT !.active = FALSE]
          BY <2>1, <4>2 DEF Remote!Deactivated
        <5>2. globalBans'[j].target = globalBans[j].target /\ globalBans'[j].active = FALSE
          BY <4>1, <5>1 DEF Remote!ListBan
        <5>3. CASE globalBans[j].active
          <6>1. j \in S
            BY <4>2, <5>3
          <6>2. [Remote!ledgerBar[j] EXCEPT !.open = FALSE] =
                [target |-> globalBans[j].target, scope |-> "global", open |-> FALSE]
            <7>1. /\ globalBans[j].target \in Target /\ globalBans[j].active \in BOOLEAN
                  /\ "global" \in Scope
              BY <4>1 DEF Remote!ListBan, Scope
            <7> QED BY <1>0, <7>1, ClosedEntry
          <6> HIDE DEF S
          <6> QED BY <5>2, <6>1, <6>2
        <5>4. CASE ~globalBans[j].active
          <6>1. globalBans[j].active = FALSE /\ j \notin S
            BY <4>1, <5>4 DEF Remote!ListBan
          <6> QED BY <1>0, <5>2, <6>1
        <5> QED BY <5>3, <5>4
      <4>3. CASE j \notin ids
        BY <1>0, <2>1, <4>1, <4>3 DEF Remote!Deactivated
      <4> QED BY <4>2, <4>3
    <3> QED BY <1>0, <3>1, <3>2 DEF Remote!ledgerBar
  <2> QED BY <2>2, <2>3 DEF Remote!Ledger!Next, Remote!Ledger!Close
<1>2. CASE RemoteOpens
  <2>1. PICK i \in Id \ DOMAIN globalBans, t \in Target, r \in BOOLEAN :
           Remote!Covering(t) = {} /\ globalBans' = Remote!Inserted(i, t, r)
    BY <1>2 DEF RemoteOpens
  <2>2. Remote!Ledger!Free(t, "global")
    BY <1>0, <2>1 DEF Remote!Ledger!Free, Remote!Covering
  <2>3. Remote!ledgerBar' =
           [j \in DOMAIN Remote!ledgerBar \cup {i} |->
              IF j = i THEN [target |-> t, scope |-> "global", open |-> TRUE]
                       ELSE Remote!ledgerBar[j]]
    BY <1>0, <2>1 DEF Remote!ledgerBar, Remote!Inserted
  <2>4. i \in Id \ DOMAIN Remote!ledgerBar /\ "global" \in {"global"}
    BY <1>0, <2>1
  <2> QED BY <2>1, <2>2, <2>3, <2>4 DEF Remote!Ledger!Next, Remote!Ledger!Open
<1>3. CASE UNCHANGED globalBans
  BY <1>3 DEF Remote!ledgerBar
<1> QED BY <1>1, <1>2, <1>3, RemoteSteps

\* remoteBlocklist.service.ts implements BanLedger too: however overlapping
\* syncs, administrators and bans from elsewhere interleave, a target has one
\* active global ban and a deactivated row is never active again.
THEOREM RemoteKeepsLedger == Remote!Spec => Remote!IsLedger
<1>1. Remote!Init => RemoteRows /\ Remote!Ledger!Init
  <2> SUFFICES ASSUME Remote!Init PROVE RemoteRows /\ Remote!Ledger!Init
    OBVIOUS
  <2>1. DOMAIN globalBans = {}
    BY DEF Remote!Init, Remote!Empty
  <2>2. DOMAIN Remote!ledgerBar = {}
    BY <2>1 DEF Remote!ledgerBar
  <2> QED BY <2>1, <2>2 DEF RemoteRows, Remote!Ledger!Init
<1> QED BY <1>1, RemoteRowsStep, RemoteLedgerStep, PTL
        DEF Remote!Spec, Remote!IsLedger, Remote!Ledger!Spec
=============================================================================
