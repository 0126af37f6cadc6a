------------------------------ MODULE BanSync ------------------------------
(***************************************************************************)
(* How the bans of the server reach the firewall of one agent. A heartbeat *)
(* reports what the firewall enforces; the server answers with the         *)
(* difference to what it wants (computeBanDelta). On the agent the config  *)
(* worker filters the difference through the ban-safety guard and merges   *)
(* it into a mailbox, the ban worker applies the mailbox, a queued         *)
(* firewall_resync replaces everything by a full list, and a purge at      *)
(* start-up lifts unsafe entries. The three writers hold fwApplyMu;        *)
(* heartbeats read the firewall without it, in the middle of a flush too.  *)
(***************************************************************************)
EXTENDS Integers, Sequences, FiniteSets

CONSTANTS
    Target,       \* canonical addresses and ranges
    Unsupported,  \* the ones the backend refuses to ban (IPv6 on an IPv4 chain)
    Appends,      \* the backend adds one rule per BanIP (iptables and ufw without ipset)
    MaxLeft,      \* bound: rules of one target left by an earlier agent
    MaxInFlight,  \* bound: heartbeats, and config frames, on their way
    MaxChanges,   \* bound: bans created and lifted, evaluate-only switches,
                  \* changes of the protected addresses
    MaxResyncs,   \* bound: firewall_resync commands
    MaxFaults     \* bound: failing reads, writes and statements, lost
                  \* sessions, agent restarts

ASSUME BanSyncAssumption ==
    /\ IsFiniteSet(Target) /\ Unsupported \subseteq Target /\ Appends \in BOOLEAN /\ MaxLeft \in Nat
    /\ MaxInFlight \in Nat \ {0} /\ MaxChanges \in Nat /\ MaxResyncs \in Nat /\ MaxFaults \in Nat

VARIABLES
    wanted,       \* ip_bans that apply to the device (active, not excluded, not whitelisted)
    evaluateOnly, \* agent_devices.evaluate_only
    up,           \* heartbeats: the enforced entries they report
    config,       \* config frames, on the wire and in the config worker's inbox
    unsafe,       \* the entries the agent's guard refuses (bansafety.go)
    merging,      \* the config worker merged a delta and has yet to signal
    mailbox,      \* banDelta.ops, as the sets to ban and to unban
    signal,       \* banDelta.signal holds a wake-up
    pc,           \* the three writers
    todo,         \* what each of them has left to apply
    list,         \* the list of the running resync, filtered
    fwApplyMu,    \* the writer that holds the mutex
    rules,        \* the rules of each target in the firewall
    damaged,      \* history: the read or an operation of the holder failed or was
                  \* lost, or it found two rules of an entry (one UnbanIP deletes one)
    excused,      \* history: entries the purge of this start could not lift
                  \* for good, or that became unsafe since this start
    count

serverVars == <<wanted, evaluateOnly>>
agentVars == <<unsafe, merging, mailbox, signal>>
applyVars == <<pc, todo, list, fwApplyMu, rules, damaged, excused>>
vars == <<serverVars, up, config, agentVars, applyVars, count>>

Writers == {"worker", "resync", "purge"}
Nobody == "nobody"
Nothing == [add |-> {}, remove |-> {}]

Enforced == {k \in Target : rules[k] > 0}

Bump(what, max) == count[what] < max /\ count' = [count EXCEPT ![what] = @ + 1]
Fault == Bump("fault", MaxFaults)

\* An agent that starts over rules left by an earlier one.
Init ==
    /\ wanted \in SUBSET Target /\ evaluateOnly = FALSE
    /\ up = <<>> /\ config = <<>>
    /\ unsafe \in SUBSET Target
    /\ merging = FALSE /\ mailbox = Nothing /\ signal = FALSE
    /\ pc = [w \in Writers |-> IF w = "purge" THEN "waits" ELSE "idle"]
    /\ todo = [w \in Writers |-> Nothing]
    /\ list = {} /\ fwApplyMu = Nobody
    /\ rules \in [Target -> 0 .. (IF Appends THEN MaxLeft ELSE 1)]
    /\ \A k \in Unsupported : rules[k] = 0
    /\ damaged = FALSE /\ excused = {}
    /\ count = [change |-> 0, resync |-> 0, fault |-> 0]

(***************************************************************************)
(* The server.                                                             *)
(***************************************************************************)

\* Bans are created, lifted, excluded, whitelisted; evaluate-only is switched.
ChangeBans ==
    /\ Bump("change", MaxChanges)
    /\ \/ \E k \in Target : wanted' \in {wanted \cup {k}, wanted \ {k}} /\ wanted' # wanted
       \/ UNCHANGED wanted
    /\ evaluateOnly' = (IF wanted' = wanted THEN ~evaluateOnly ELSE evaluateOnly)
    /\ UNCHANGED <<up, config, agentVars, applyVars>>

Desired == IF evaluateOnly THEN {} ELSE wanted

\* Fault: an evaluate-only agent is sent an empty delta.
DeltaEvaluateEmpty(reported) ==
    IF evaluateOnly THEN Nothing ELSE [add |-> wanted \ reported, remove |-> reported \ wanted]

\* computeBanDelta, and the override of an evaluate-only agent.
Delta(reported) ==
    IF evaluateOnly THEN [add |-> {}, remove |-> reported]
    ELSE [add |-> wanted \ reported, remove |-> reported \ wanted]

\* The frame carries a ban list only when there is something in it.
Answer(delta) ==
    /\ up # <<>> /\ Len(config) < MaxInFlight
    /\ up' = Tail(up)
    /\ config' = IF delta = Nothing THEN config ELSE Append(config, delta)
    /\ UNCHANGED <<serverVars, agentVars, applyVars>>

HandleHeartbeat == Answer(Delta(Head(up))) /\ UNCHANGED count

\* computeBanDelta threw: nothing but the override.
HandleHeartbeatFails ==
    /\ Answer(IF evaluateOnly THEN Delta(Head(up)) ELSE Nothing)
    /\ Fault

\* A firewall_resync is delivered with the list resolved now; it runs in a
\* goroutine of its own and overtakes the frames of the config worker.
SendResync ==
    /\ pc["resync"] = "idle" /\ Bump("resync", MaxResyncs)
    /\ list' = Desired
    /\ pc' = [pc EXCEPT !["resync"] = "woken"]
    /\ UNCHANGED <<serverVars, up, config, agentVars, todo, fwApplyMu, rules, damaged, excused>>

(***************************************************************************)
(* The agent's reports and the config worker.                              *)
(***************************************************************************)

SendHeartbeat ==
    /\ Len(up) < MaxInFlight
    /\ up' = Append(up, Enforced)
    /\ UNCHANGED <<serverVars, config, agentVars, applyVars, count>>

\* GetBannedIPs could not read: most backends answer an empty list.
SendHeartbeatUnread ==
    /\ Len(up) < MaxInFlight /\ Fault
    /\ up' = Append(up, {})
    /\ UNCHANGED <<serverVars, config, agentVars, applyVars>>

\* refreshLocked: an address of the server, the agent or its gateway changed.
GuardRefreshes ==
    /\ Bump("change", MaxChanges)
    /\ \E k \in Target :
        \/ k \in unsafe /\ unsafe' = unsafe \ {k} /\ UNCHANGED excused
        \/ k \notin unsafe /\ unsafe' = unsafe \cup {k} /\ excused' = excused \cup {k}
    /\ UNCHANGED <<serverVars, up, config, merging, mailbox, signal, pc, todo, list, fwApplyMu, rules,
                   damaged>>

\* Fault: the guard lets the server's list through.
FilterNone(adds) == adds

\* banSafety.Filter
Filter(adds) == adds \ unsafe

\* queueBanDelta: the last operation of an entry wins.
Merged(ops, delta) ==
    LET add == Filter(delta.add)
    IN  [add |-> (ops.add \cup add) \ delta.remove,
         remove |-> (ops.remove \ add) \cup delta.remove]

\* Fault: only new bans wake the worker.
WakesForBans(delta) == Filter(delta.add) # {}

\* Nothing is left of the delta: the call returns at once.
Wakes(delta) == Filter(delta.add) \cup delta.remove # {}

QueueBanDelta ==
    LET delta == Head(config)
    IN  /\ config # <<>> /\ ~merging
        /\ config' = Tail(config)
        /\ mailbox' = Merged(mailbox, delta)
        /\ merging' = Wakes(delta)
        /\ UNCHANGED <<serverVars, up, unsafe, signal, applyVars, count>>

\* The wake-up is dropped when one is pending already.
SignalWorker ==
    /\ merging
    /\ merging' = FALSE
    /\ signal' = TRUE
    /\ UNCHANGED <<serverVars, up, config, unsafe, mailbox, applyVars, count>>

(***************************************************************************)
(* The three writers of the firewall.                                      *)
(***************************************************************************)

WorkerWakes ==
    /\ pc["worker"] = "idle" /\ signal
    /\ signal' = FALSE
    /\ pc' = [pc EXCEPT !["worker"] = "woken"]
    /\ UNCHANGED <<serverVars, up, config, unsafe, merging, mailbox, todo, list, fwApplyMu, rules,
                   damaged, excused, count>>

\* takeBanDelta, before the mutex is asked for.
WorkerTakes ==
    /\ pc["worker"] = "woken"
    /\ todo' = [todo EXCEPT !["worker"] = mailbox]
    /\ mailbox' = Nothing
    /\ pc' = [pc EXCEPT !["worker"] = IF mailbox = Nothing THEN "idle" ELSE "waits"]
    /\ UNCHANGED <<serverVars, up, config, unsafe, merging, signal, list, fwApplyMu, rules, damaged,
                   excused, count>>

\* Fault: the ban worker writes without the mutex.
MayLockAlone(w) == fwApplyMu = Nobody \/ w = "worker"

MayLock(w) == fwApplyMu = Nobody

Holding(w) ==
    /\ pc[w] = "waits" /\ MayLock(w)
    /\ fwApplyMu' = w
    /\ pc' = [pc EXCEPT ![w] = "applies"]

Doubled == {k \in Target : rules[k] > 1}

WorkerLocks ==
    /\ Holding("worker")
    /\ damaged' = (Doubled # {})
    /\ UNCHANGED <<serverVars, up, config, agentVars, todo, list, rules, excused, count>>

\* resyncFirewall filters its list before it asks for the mutex.
ResyncFilters ==
    /\ pc["resync"] = "woken"
    /\ list' = Filter(list)
    /\ pc' = [pc EXCEPT !["resync"] = "waits"]
    /\ UNCHANGED <<serverVars, up, config, agentVars, todo, fwApplyMu, rules, damaged, excused, count>>

\* Under the mutex the mailbox is superseded and the difference to what the
\* firewall lists is applied.
ResyncAgainst(listed) ==
    /\ Holding("resync")
    /\ mailbox' = Nothing
    /\ todo' = [todo EXCEPT !["resync"] = [add |-> list \ listed, remove |-> listed \ list]]
    /\ UNCHANGED <<serverVars, up, config, unsafe, merging, signal, list, rules, excused>>

ResyncLocks == ResyncAgainst(Enforced) /\ damaged' = (Doubled # {}) /\ UNCHANGED count

\* A read that failed and that the backend answers with an empty list:
\* everything is added, nothing removed, and no error is reported.
ResyncReadsNothing == ResyncAgainst({}) /\ damaged' = TRUE /\ Fault

\* A backend that reports the failed read: the mailbox is gone all the same.
ResyncReadFails ==
    /\ pc["resync"] = "waits" /\ MayLock("resync") /\ Fault
    /\ mailbox' = Nothing
    /\ pc' = [pc EXCEPT !["resync"] = "idle"]
    /\ list' = {}
    /\ UNCHANGED <<serverVars, up, config, unsafe, merging, signal, todo, fwApplyMu, rules, damaged,
                   excused>>

PurgeLocks ==
    /\ Holding("purge")
    /\ damaged' = (Doubled # {})
    /\ todo' = [todo EXCEPT !["purge"] = [add |-> {}, remove |-> Enforced \cap unsafe]]
    /\ excused' = excused \cup Doubled
    /\ UNCHANGED <<serverVars, up, config, agentVars, list, rules, count>>

\* Nothing could be read: the purge is over until the next start.
PurgeReadFails ==
    /\ pc["purge"] = "waits" /\ MayLock("purge") /\ Fault
    /\ pc' = [pc EXCEPT !["purge"] = "idle"]
    /\ excused' = Target
    /\ UNCHANGED <<serverVars, up, config, agentVars, todo, list, fwApplyMu, rules, damaged>>

\* applyBanDeltaLocked bans first, then lifts.
NextOps(w) ==
    IF todo[w].add # {} THEN {"add"} \X todo[w].add ELSE {"remove"} \X todo[w].remove

Without(delta, op) ==
    [delta EXCEPT ![op[1]] = @ \ {op[2]}]

\* Fault: a rule is deleted that is not there.
UnbannedBlindly(n) == n - 1

\* UnbanIP deletes one rule.
Unbanned(n) == IF n = 0 THEN 0 ELSE n - 1

\* BanIP refuses an entry its family or its set cannot hold.
Banned(k, n) == IF k \in Unsupported THEN n ELSE IF Appends THEN n + 1 ELSE 1

ApplyOp(w) ==
    \E op \in NextOps(w) :
        /\ pc[w] = "applies"
        /\ todo' = [todo EXCEPT ![w] = Without(@, op)]
        /\ rules' = [rules EXCEPT ![op[2]] = IF op[1] = "add" THEN Banned(op[2], @) ELSE Unbanned(@)]
        /\ UNCHANGED <<serverVars, up, config, agentVars, pc, list, fwApplyMu, damaged, excused, count>>

\* An operation that fails, that Flush swallowed, or that was pending on a
\* backend switched away.
ApplyOpFails(w) ==
    \E op \in NextOps(w) :
        /\ pc[w] = "applies" /\ Fault
        /\ todo' = [todo EXCEPT ![w] = Without(@, op)]
        /\ damaged' = TRUE
        /\ excused' = IF w = "purge" THEN excused \cup {op[2]} ELSE excused
        /\ UNCHANGED <<serverVars, up, config, agentVars, pc, list, fwApplyMu, rules>>

Unlock(w) ==
    /\ pc[w] = "applies" /\ todo[w] = Nothing
    /\ pc' = [pc EXCEPT ![w] = "idle"]
    /\ fwApplyMu' = Nobody
    /\ list' = IF w = "resync" THEN {} ELSE list
    /\ damaged' = FALSE
    /\ UNCHANGED <<serverVars, up, config, agentVars, todo, rules, excused, count>>

(***************************************************************************)
(* Failures.                                                               *)
(***************************************************************************)

\* Heartbeats and unread frames are lost; the inbox of the config worker
\* outlives the session.
SessionDrops ==
    /\ Fault
    /\ up' = <<>>
    /\ \E n \in 0 .. Len(config) : config' = SubSeq(config, 1, n)
    /\ UNCHANGED <<serverVars, agentVars, applyVars>>

\* The firewall keeps its rules; everything else starts over, the purge too.
AgentRestarts ==
    /\ Fault
    /\ up' = <<>> /\ config' = <<>>
    /\ merging' = FALSE /\ mailbox' = Nothing /\ signal' = FALSE
    /\ pc' = [w \in Writers |-> IF w = "purge" THEN "waits" ELSE "idle"]
    /\ todo' = [w \in Writers |-> Nothing]
    /\ list' = {} /\ fwApplyMu' = Nobody /\ damaged' = FALSE /\ excused' = {}
    /\ UNCHANGED <<serverVars, unsafe, rules>>

Lock == WorkerLocks \/ ResyncLocks \/ PurgeLocks

WriterStep(w) == ApplyOp(w) \/ Unlock(w)

Faults ==
    \/ HandleHeartbeatFails \/ SendHeartbeatUnread
    \/ ResyncReadsNothing \/ ResyncReadFails \/ PurgeReadFails
    \/ \E w \in Writers : ApplyOpFails(w)
    \/ SessionDrops \/ AgentRestarts

Next ==
    \/ ChangeBans \/ HandleHeartbeat \/ SendResync
    \/ SendHeartbeat \/ GuardRefreshes \/ QueueBanDelta \/ SignalWorker
    \/ WorkerWakes \/ WorkerTakes \/ ResyncFilters \/ Lock
    \/ \E w \in Writers : WriterStep(w)
    \/ Faults

Spec == Init /\ [][Next]_vars

\* The agent keeps reporting every 30 s, the server answers, goroutines run
\* on (the config worker, the ban worker, the one writer that holds the
\* mutex), and one that waits for the mutex gets it in the end (Go's mutexes
\* are starvation free).
Fairness ==
    /\ WF_vars(SendHeartbeat) /\ WF_vars(HandleHeartbeat)
    /\ WF_vars(QueueBanDelta \/ SignalWorker)
    /\ WF_vars(WorkerWakes \/ WorkerTakes)
    /\ SF_vars(WorkerLocks) /\ SF_vars(ResyncFilters \/ ResyncLocks) /\ SF_vars(PurgeLocks)
    /\ WF_vars(\E w \in Writers : WriterStep(w))

FairSpec == Spec /\ Fairness

(***************************************************************************)
(* Properties.                                                             *)
(***************************************************************************)

Deltas == [add : SUBSET Target, remove : SUBSET Target]

\* Every variable stays in its type; no rule is deleted that is not there.
TypeOK ==
    /\ wanted \subseteq Target /\ evaluateOnly \in BOOLEAN
    /\ up \in Seq(SUBSET Target) /\ Len(up) <= MaxInFlight
    /\ config \in Seq(Deltas) /\ Len(config) <= MaxInFlight
    /\ unsafe \subseteq Target /\ merging \in BOOLEAN /\ mailbox \in Deltas /\ signal \in BOOLEAN
    /\ pc \in [Writers -> {"idle", "woken", "waits", "applies"}]
    /\ todo \in [Writers -> Deltas]
    /\ list \subseteq Target /\ fwApplyMu \in Writers \cup {Nobody}
    /\ rules \in [Target -> Nat]
    /\ damaged \in BOOLEAN /\ excused \subseteq Target
    /\ count \in [change : 0 .. MaxChanges, resync : 0 .. MaxResyncs, fault : 0 .. MaxFaults]

\* No wake-up of the ban worker is lost: a delta in the mailbox has a signal
\* pending or about to be sent, or the worker about to take it, although a
\* signal may be consumed before its delta and a resync may empty the mailbox
\* (queueBanDelta, banWorker, resyncFirewall).
NoLostWakeup == mailbox # Nothing => merging \/ signal \/ pc["worker"] = "woken"

\* A resync whose read and operations took effect leaves exactly the list
\* the guard let through enforced, the entries apart the backend refuses,
\* whatever the ban worker and the purge have in hand, unless an entry had two
\* rules before (fwApplyMu; resyncFirewall reads, computes and applies under it).
ResyncExact ==
    pc["resync"] = "applies" /\ todo["resync"] = Nothing /\ ~damaged
        => Enforced = list \ Unsupported

\* Once the purge of this start has lifted what it found, no delta or resync
\* enforces an unsafe entry (banSafety.Filter on both paths). Excused are the
\* entries it found twice in an appending backend or could not lift, and those
\* that became unsafe since this start: a list filtered before may hold them,
\* and nothing looks for them again before the next start.
PurgedStaysClean ==
    pc["purge"] = "idle" => Enforced \cap unsafe \subseteq excused

\* Once the bans and the addresses stop changing and nothing fails any more,
\* the firewall enforces no entry that is not wanted, and every wanted one the
\* guard and the backend accept, however stale the reports the deltas were
\* computed from and whatever was lost, applied twice or overtaken.
Converges ==
    \A k \in Target :
        <>[](/\ k \in Enforced => k \in Desired
             /\ k \in Desired \ (unsafe \cup Unsupported) => k \in Enforced)
=============================================================================
