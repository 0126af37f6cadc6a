--------------------------- MODULE BanSyncProofs ---------------------------
(***************************************************************************)
(* Theorems about BanSync, for every set of targets, whatever the guard    *)
(* and the backend refuse, both kinds of backend and every bound: type     *)
(* correctness, no lost wake-up of the ban worker, the exactness of a      *)
(* resync, and the purge's promise that unsafe entries do not come back.   *)
(***************************************************************************)
EXTENDS BanSync, SequenceTheorems, TLAPS

(***************************************************************************)
(* The strengthenings.                                                     *)
(***************************************************************************)

\* A writer applies exactly while it holds the mutex.
MutexInv == \A w \in Writers : pc[w] = "applies" <=> fwApplyMu = w

\* What a resync has left to do is the difference between what is enforced
\* and its list, as long as none of its operations failed.
DifferenceInv ==
    pc["resync"] = "applies" /\ ~damaged =>
        /\ \A k \in Target : rules[k] <= 1
        /\ \A k \in todo["resync"].add : k \in list /\ rules[k] = 0
        /\ \A k \in todo["resync"].remove : k \notin list
        /\ \A k \in Target : rules[k] > 0 => k \in list \cup todo["resync"].remove
        /\ \A k \in list \ Unsupported : rules[k] = 0 => k \in todo["resync"].add

\* The backend has no rule of an entry it refuses.
SupportInv == \A k \in Unsupported : rules[k] = 0

\* No entry is on its way to the firewall that was unsafe when it was filtered.
FilteredInv ==
    /\ mailbox.add \cap unsafe \subseteq excused
    /\ \A w \in Writers : todo[w].add \cap unsafe \subseteq excused
    /\ pc["resync"] = "waits" => list \cap unsafe \subseteq excused

\* The entries the purge answers for.
Answered == unsafe \ excused

\* While the purge applies they have at most one rule each, which it still
\* means to lift; afterwards they have none.
PurgeInv ==
    /\ pc["purge"] = "applies" =>
           \A k \in Answered : rules[k] <= 1 /\ (rules[k] > 0 => k \in todo["purge"].remove)
    /\ pc["purge"] = "idle" => \A k \in Answered : rules[k] = 0

(***************************************************************************)
(* Type correctness.                                                       *)
(***************************************************************************)

Counts == [change : 0 .. MaxChanges, resync : 0 .. MaxResyncs, fault : 0 .. MaxFaults]

\* A counter below its bound may be incremented.
LEMMA BumpType ==
    ASSUME count \in Counts,
           \/ Bump("change", MaxChanges) \/ Bump("resync", MaxResyncs) \/ Fault
    PROVE  count' \in Counts
BY BanSyncAssumption DEF Bump, Fault, Counts

\* The head and the tail of a sequence that is not empty.
LEMMA HeadTailType ==
    ASSUME NEW S, NEW s \in Seq(S), s # <<>>
    PROVE  Head(s) \in S /\ Tail(s) \in Seq(S) /\ Len(Tail(s)) < Len(s) /\ Len(s) \in Nat
BY HeadTailProperties, LenProperties

\* A longer sequence.
LEMMA AppendType ==
    ASSUME NEW S, NEW s \in Seq(S), NEW e \in S, Len(s) < MaxInFlight
    PROVE  Append(s, e) \in Seq(S) /\ Len(Append(s, e)) <= MaxInFlight
<1>1. Append(s, e) \in Seq(S) /\ Len(Append(s, e)) = Len(s) + 1
  BY ONLY AppendProperties
<1>2. Len(s) \in Nat
  BY ONLY LenProperties
<1> QED BY ONLY <1>1, <1>2, Len(s) < MaxInFlight, BanSyncAssumption

\* A prefix.
LEMMA PrefixType ==
    ASSUME NEW S, NEW s \in Seq(S), NEW n \in 0 .. Len(s)
    PROVE  SubSeq(s, 1, n) \in Seq(S) /\ Len(SubSeq(s, 1, n)) <= Len(s)
<1>1. Len(s) \in Nat /\ n \in Int /\ n <= Len(s)
  BY LenProperties
<1>2. \A i \in 1 .. n : s[i] \in S
  BY <1>1, ElementOfSeq
<1>3. /\ SubSeq(s, 1, n) \in Seq(S)
      /\ Len(SubSeq(s, 1, n)) = IF 1 <= n THEN n - 1 + 1 ELSE 0
  BY <1>1, <1>2, SubSeqProperties
<1> QED BY <1>1, <1>3

LEMMA DeltaType ==
    ASSUME TypeOK
    PROVE  /\ Nothing \in Deltas
           /\ Enforced \subseteq Target /\ Desired \subseteq Target
           /\ \A r \in SUBSET Target : Delta(r) \in Deltas
           /\ \A d \in Deltas : Merged(mailbox, d) \in Deltas
           /\ \A w \in Writers : \A op \in NextOps(w) :
                  /\ op[1] \in {"add", "remove"} /\ op[2] \in Target
                  /\ Without(todo[w], op) \in Deltas
<1> USE DEF Deltas
<1>1. Nothing \in Deltas
  BY DEF Nothing
<1>2. Enforced \subseteq Target /\ Desired \subseteq Target
  BY DEF Enforced, Desired, TypeOK
<1>3. ASSUME NEW r \in SUBSET Target PROVE Delta(r) \in Deltas
  BY DEF Delta, TypeOK
<1>4. ASSUME NEW d \in Deltas PROVE Merged(mailbox, d) \in Deltas
  BY DEF Merged, Filter, TypeOK
<1>5. ASSUME NEW w \in Writers, NEW op \in NextOps(w)
      PROVE  /\ op[1] \in {"add", "remove"} /\ op[2] \in Target
             /\ Without(todo[w], op) \in Deltas
  <2>1. todo[w] \in Deltas
    BY DEF TypeOK
  <2>2. op[1] \in {"add", "remove"} /\ op[2] \in Target
    BY <2>1 DEF NextOps
  <2> QED BY <2>1, <2>2 DEF Without
<1> QED BY <1>1, <1>2, <1>3, <1>4, <1>5

LEMMA InitType == Init => TypeOK
<1> SUFFICES ASSUME Init PROVE TypeOK
  OBVIOUS
<1>1. Nothing \in Deltas
  BY DEF Nothing, Deltas
<1>2. /\ up \in Seq(SUBSET Target) /\ Len(up) <= MaxInFlight
      /\ config \in Seq(Deltas) /\ Len(config) <= MaxInFlight
  BY EmptySeq, BanSyncAssumption DEF Init
<1>3. count \in Counts
  BY BanSyncAssumption DEF Init, Counts
<1>4. rules \in [Target -> Nat]
  <2>1. rules \in [Target -> 0 .. (IF Appends THEN MaxLeft ELSE 1)]
    BY DEF Init
  <2> QED BY <2>1, BanSyncAssumption
<1>5. pc \in [Writers -> {"idle", "woken", "waits", "applies"}]
  BY DEF Init
<1> QED BY <1>1, <1>2, <1>3, <1>4, <1>5 DEF Init, TypeOK, Counts

LEMMA NextType == TypeOK /\ [Next]_vars => TypeOK'
<1> SUFFICES ASSUME TypeOK, [Next]_vars PROVE TypeOK'
  OBVIOUS
<1> USE DEF TypeOK, serverVars, agentVars, applyVars
<1>0. /\ Nothing \in Deltas /\ Enforced \subseteq Target /\ Desired \subseteq Target
      /\ \A s : Filter(s) \subseteq s
      /\ count \in Counts
  BY DeltaType DEF Filter, Counts
<1>1. CASE ChangeBans
  <2>1. count' \in Counts
    BY <1>0, <1>1, BumpType DEF ChangeBans
  <2>2. wanted' \subseteq Target
    BY <1>1 DEF ChangeBans
  <2>3. evaluateOnly' \in BOOLEAN
    BY <1>1 DEF ChangeBans
  <2> QED BY <1>1, <2>1, <2>2, <2>3 DEF ChangeBans, Counts
<1>2. ASSUME NEW d \in Deltas, Answer(d)
      PROVE  /\ up' \in Seq(SUBSET Target) /\ Len(up') <= MaxInFlight
             /\ config' \in Seq(Deltas) /\ Len(config') <= MaxInFlight
  <2>1. up' = Tail(up) /\ up # <<>> /\ Len(config) < MaxInFlight
    BY <1>2 DEF Answer
  <2>2. Tail(up) \in Seq(SUBSET Target) /\ Len(Tail(up)) < Len(up) /\ Len(up) \in Nat
    BY <2>1, HeadTailType
  <2>3. Len(Tail(up)) <= MaxInFlight
    <3>1. Len(Tail(up)) \in Nat /\ Len(up) <= MaxInFlight
      BY <2>2, LenProperties
    <3> QED BY ONLY <2>2, <3>1, BanSyncAssumption
  <2>4. Append(config, d) \in Seq(Deltas) /\ Len(Append(config, d)) <= MaxInFlight
    BY <2>1, AppendType
  <2>5. config' = config \/ config' = Append(config, d)
    BY <1>2 DEF Answer
  <2> QED BY <2>1, <2>2, <2>3, <2>4, <2>5
<1>3. up # <<>> => Delta(Head(up)) \in Deltas
  <2>1. up # <<>> => Head(up) \in SUBSET Target
    BY HeadTailType
  <2> QED BY <2>1, DeltaType
<1>4. CASE HandleHeartbeat
  <2>1. Answer(Delta(Head(up))) /\ up # <<>>
    BY <1>4 DEF HandleHeartbeat, Answer
  <2> QED BY <1>2, <1>3, <1>4, <2>1 DEF HandleHeartbeat, Answer
<1>5. CASE HandleHeartbeatFails
  <2> DEFINE d == IF evaluateOnly THEN Delta(Head(up)) ELSE Nothing
  <2>1. Answer(d) /\ up # <<>>
    BY <1>5 DEF HandleHeartbeatFails, Answer
  <2>2. d \in Deltas
    BY <1>0, <1>3, <2>1
  <2>3. count' \in Counts
    BY <1>0, <1>5, BumpType DEF HandleHeartbeatFails
  <2> HIDE DEF d
  <2> QED BY <1>2, <2>1, <2>2, <2>3 DEF Answer, Counts
<1>6. CASE SendResync
  <2>1. count' \in Counts
    BY <1>0, <1>6, BumpType DEF SendResync
  <2> QED BY <1>0, <1>6, <2>1 DEF SendResync, Counts
<1>7. ASSUME NEW r \in SUBSET Target, Len(up) < MaxInFlight, up' = Append(up, r)
      PROVE  up' \in Seq(SUBSET Target) /\ Len(up') <= MaxInFlight
  BY <1>7, AppendType
<1>8. CASE SendHeartbeat
  BY <1>0, <1>7, <1>8 DEF SendHeartbeat
<1>9. CASE SendHeartbeatUnread
  <2>1. count' \in Counts
    BY <1>0, <1>9, BumpType DEF SendHeartbeatUnread
  <2> QED BY <1>7, <1>9, <2>1 DEF SendHeartbeatUnread, Counts
<1>10. CASE QueueBanDelta
  <2>1. config # <<>> /\ config' = Tail(config)
    BY <1>10 DEF QueueBanDelta
  <2>2. /\ Head(config) \in Deltas /\ Tail(config) \in Seq(Deltas)
        /\ Len(Tail(config)) < Len(config) /\ Len(config) \in Nat
    BY <2>1, HeadTailType
  <2>3. Len(config') <= MaxInFlight
    <3>1. Len(Tail(config)) \in Nat /\ Len(config) <= MaxInFlight
      BY <2>2, LenProperties
    <3> QED BY ONLY <2>1, <2>2, <3>1, BanSyncAssumption
  <2>4. mailbox' \in Deltas
    BY <1>10, <2>2, DeltaType DEF QueueBanDelta
  <2>5. merging' \in BOOLEAN
    BY <1>10 DEF QueueBanDelta, Wakes
  <2> QED BY <1>10, <2>1, <2>2, <2>3, <2>4, <2>5 DEF QueueBanDelta
<1>11. CASE SignalWorker
  BY <1>11 DEF SignalWorker
<1>26. CASE GuardRefreshes
  <2>1. count' \in Counts
    BY <1>0, <1>26, BumpType DEF GuardRefreshes
  <2>2. unsafe' \subseteq Target /\ excused' \subseteq Target
    BY <1>26 DEF GuardRefreshes
  <2> QED BY <1>26, <2>1, <2>2 DEF GuardRefreshes, Counts
<1>27. CASE ResyncFilters
  BY <1>0, <1>27 DEF ResyncFilters
<1>12. CASE WorkerWakes
  BY <1>12 DEF WorkerWakes
<1>13. CASE WorkerTakes
  BY <1>0, <1>13 DEF WorkerTakes
<1>14. ASSUME NEW w \in Writers, Holding(w)
       PROVE  /\ pc' \in [Writers -> {"idle", "woken", "waits", "applies"}]
              /\ fwApplyMu' \in Writers \cup {Nobody}
  BY <1>14 DEF Holding
<1>15. CASE WorkerLocks
  BY <1>14, <1>15 DEF WorkerLocks, Writers
<1>16. CASE ResyncLocks \/ ResyncReadsNothing
  <2>1. PICK listed \in SUBSET Target : ResyncAgainst(listed)
    BY <1>0, <1>16 DEF ResyncLocks, ResyncReadsNothing
  <2>2. Holding("resync") /\ "resync" \in Writers
    BY <2>1 DEF ResyncAgainst, Writers
  <2>3. [add |-> list \ listed, remove |-> listed \ list] \in Deltas
    BY DEF Deltas
  <2>4. todo' \in [Writers -> Deltas]
    BY <2>1, <2>3 DEF ResyncAgainst
  <2>5. count' \in Counts /\ damaged' \in BOOLEAN
    BY <1>0, <1>16, BumpType DEF ResyncLocks, ResyncReadsNothing
  <2> QED BY <1>0, <1>14, <2>1, <2>2, <2>4, <2>5 DEF ResyncAgainst, Counts
<1>17. CASE ResyncReadFails
  <2>1. count' \in Counts
    BY <1>0, <1>17, BumpType DEF ResyncReadFails
  <2> QED BY <1>0, <1>17, <2>1 DEF ResyncReadFails, Counts
<1>18. CASE PurgeLocks
  <2>1. Holding("purge") /\ "purge" \in Writers
    BY <1>18 DEF PurgeLocks, Writers
  <2>2. todo' \in [Writers -> Deltas] /\ excused' \subseteq Target /\ damaged' \in BOOLEAN
    BY <1>0, <1>18 DEF PurgeLocks, Deltas, Doubled
  <2> QED BY <1>0, <1>14, <1>18, <2>1, <2>2 DEF PurgeLocks
<1>19. CASE PurgeReadFails
  <2>1. count' \in Counts
    BY <1>0, <1>19, BumpType DEF PurgeReadFails
  <2> QED BY <1>0, <1>19, <2>1 DEF PurgeReadFails, Counts
<1>20. ASSUME NEW w \in Writers, ApplyOp(w) PROVE TypeOK'
  <2>1. PICK op \in NextOps(w) :
           /\ todo' = [todo EXCEPT ![w] = Without(@, op)]
           /\ rules' = [rules EXCEPT ![op[2]] = IF op[1] = "add" THEN Banned(op[2], @) ELSE Unbanned(@)]
    BY <1>20 DEF ApplyOp
  <2>2. Without(todo[w], op) \in Deltas
    BY DeltaType
  <2>3. \A n \in Nat : Banned(op[2], n) \in Nat /\ Unbanned(n) \in Nat
    BY DEF Banned, Unbanned
  <2>4. todo' \in [Writers -> Deltas] /\ rules' \in [Target -> Nat]
    BY <2>1, <2>2, <2>3
  <2> QED BY <1>20, <2>4 DEF ApplyOp
<1>21. ASSUME NEW w \in Writers, ApplyOpFails(w) PROVE TypeOK'
  <2>1. PICK op \in NextOps(w) : todo' = [todo EXCEPT ![w] = Without(@, op)]
    BY <1>21 DEF ApplyOpFails
  <2>2. Without(todo[w], op) \in Deltas
    BY DeltaType
  <2>3. todo' \in [Writers -> Deltas]
    BY <2>1, <2>2
  <2>4. count' \in Counts
    BY <1>0, <1>21, BumpType DEF ApplyOpFails
  <2>5. damaged' \in BOOLEAN /\ excused' \subseteq Target
    BY <1>21, DeltaType DEF ApplyOpFails
  <2> QED BY <1>21, <2>3, <2>4, <2>5 DEF ApplyOpFails, Counts
<1>22. ASSUME NEW w \in Writers, Unlock(w) PROVE TypeOK'
  BY <1>22 DEF Unlock
<1>23. CASE SessionDrops
  <2>1. count' \in Counts
    BY <1>0, <1>23, BumpType DEF SessionDrops
  <2>2. PICK n \in 0 .. Len(config) : config' = SubSeq(config, 1, n)
    BY <1>23 DEF SessionDrops
  <2>3. SubSeq(config, 1, n) \in Seq(Deltas) /\ Len(SubSeq(config, 1, n)) <= Len(config)
    BY PrefixType
  <2>4. Len(SubSeq(config, 1, n)) <= MaxInFlight
    <3>1. Len(SubSeq(config, 1, n)) \in Nat /\ Len(config) \in Nat /\ Len(config) <= MaxInFlight
      BY <2>3, LenProperties
    <3> QED BY ONLY <2>3, <3>1, BanSyncAssumption
  <2>5. up' \in Seq(SUBSET Target) /\ Len(up') <= MaxInFlight
    BY <1>23, EmptySeq, BanSyncAssumption DEF SessionDrops
  <2> QED BY <1>23, <2>1, <2>2, <2>3, <2>4, <2>5 DEF SessionDrops, Counts
<1>24. CASE AgentRestarts
  <2>1. count' \in Counts
    BY <1>0, <1>24, BumpType DEF AgentRestarts
  <2>2. /\ up' \in Seq(SUBSET Target) /\ Len(up') <= MaxInFlight
        /\ config' \in Seq(Deltas) /\ Len(config') <= MaxInFlight
    BY <1>24, EmptySeq, BanSyncAssumption DEF AgentRestarts
  <2>3. pc' \in [Writers -> {"idle", "woken", "waits", "applies"}] /\ todo' \in [Writers -> Deltas]
    BY <1>0, <1>24 DEF AgentRestarts
  <2> QED BY <1>0, <1>24, <2>1, <2>2, <2>3 DEF AgentRestarts, Counts
<1>25. CASE UNCHANGED vars
  BY <1>25 DEF vars
<1> QED BY <1>1, <1>4, <1>5, <1>6, <1>8, <1>9, <1>10, <1>11, <1>12, <1>13, <1>15, <1>16, <1>17,
           <1>18, <1>19, <1>20, <1>21, <1>22, <1>23, <1>24, <1>25, <1>26, <1>27
        DEF Next, Lock, WriterStep, Faults

\* Every variable of BanSync keeps its type, whatever is in flight and
\* whatever fails; in particular no backend is asked to delete a rule of an
\* entry below zero.
THEOREM TypeCorrect == Spec => []TypeOK
BY InitType, NextType, PTL DEF Spec

(***************************************************************************)
(* Mutual exclusion, and the wake-up of the ban worker.                    *)
(***************************************************************************)

LEMMA MutexStep == TypeOK /\ MutexInv /\ [Next]_vars => MutexInv'
<1> SUFFICES ASSUME TypeOK, MutexInv, [Next]_vars PROVE MutexInv'
  OBVIOUS
<1> USE DEF TypeOK, MutexInv, Writers, Nobody, vars, serverVars, agentVars, applyVars
<1>1. CASE UNCHANGED <<pc, fwApplyMu>>
  BY <1>1
<1>2. CASE \/ SendResync \/ ResyncFilters \/ WorkerWakes \/ WorkerTakes \/ ResyncReadFails
           \/ PurgeReadFails
  BY <1>2 DEF SendResync, ResyncFilters, WorkerWakes, WorkerTakes, ResyncReadFails, PurgeReadFails, MayLock
<1>3. ASSUME NEW w \in Writers, Holding(w) PROVE MutexInv'
  BY <1>3 DEF Holding, MayLock
<1>4. ASSUME NEW w \in Writers, Unlock(w) PROVE MutexInv'
  BY <1>4 DEF Unlock
<1>5. CASE AgentRestarts
  BY <1>5 DEF AgentRestarts
<1>6. CASE Lock \/ ResyncReadsNothing
  BY <1>3, <1>6 DEF Lock, WorkerLocks, ResyncLocks, ResyncReadsNothing, ResyncAgainst, PurgeLocks
<1>7. CASE \/ ChangeBans \/ HandleHeartbeat \/ HandleHeartbeatFails \/ SendHeartbeat
           \/ SendHeartbeatUnread \/ QueueBanDelta \/ SignalWorker \/ SessionDrops
           \/ GuardRefreshes \/ UNCHANGED vars
  BY <1>1, <1>7 DEF ChangeBans, HandleHeartbeat, HandleHeartbeatFails, Answer, SendHeartbeat,
                    SendHeartbeatUnread, QueueBanDelta, SignalWorker, SessionDrops, GuardRefreshes
<1>8. ASSUME NEW w \in Writers, ApplyOp(w) \/ ApplyOpFails(w) PROVE MutexInv'
  BY <1>1, <1>8 DEF ApplyOp, ApplyOpFails
<1> QED BY <1>2, <1>4, <1>5, <1>6, <1>7, <1>8 DEF Next, WriterStep, Faults

LEMMA WakeupStep == TypeOK /\ NoLostWakeup /\ [Next]_vars => NoLostWakeup'
<1> SUFFICES ASSUME TypeOK, NoLostWakeup, [Next]_vars PROVE NoLostWakeup'
  OBVIOUS
<1> USE DEF NoLostWakeup, vars, serverVars, agentVars, applyVars
<1>1. CASE UNCHANGED <<merging, mailbox, signal>> /\ (pc["worker"] = "woken" => pc'["worker"] = "woken")
  BY <1>1
<1>2. CASE QueueBanDelta
  <2> DEFINE d == Head(config)
  <2>1. /\ mailbox' = Merged(mailbox, d) /\ merging' = Wakes(d) /\ ~merging
        /\ UNCHANGED <<signal, pc>>
    BY <1>2 DEF QueueBanDelta
  <2>2. CASE Wakes(d)
    BY <2>1, <2>2
  <2>3. CASE ~Wakes(d)
    <3>1. Filter(d.add) = {} /\ d.remove = {}
      BY <2>3 DEF Wakes
    <3>2. mailbox = [add |-> mailbox.add, remove |-> mailbox.remove]
      BY DEF TypeOK, Deltas
    <3>3. Merged(mailbox, d) = [add |-> mailbox.add, remove |-> mailbox.remove]
      BY <3>1 DEF Merged
    <3> QED BY <2>1, <3>2, <3>3
  <2> QED BY <2>2, <2>3
<1>3. CASE SignalWorker
  BY <1>3 DEF SignalWorker
<1>4. CASE WorkerWakes
  BY <1>4 DEF WorkerWakes, TypeOK, Writers
<1>5. CASE WorkerTakes \/ ResyncLocks \/ ResyncReadsNothing \/ ResyncReadFails \/ AgentRestarts
  BY <1>5 DEF WorkerTakes, ResyncLocks, ResyncReadsNothing, ResyncAgainst, ResyncReadFails, AgentRestarts
<1>6. CASE WorkerLocks \/ PurgeLocks \/ SendResync \/ ResyncFilters \/ PurgeReadFails
  BY <1>1, <1>6 DEF WorkerLocks, PurgeLocks, Holding, SendResync, ResyncFilters, PurgeReadFails, TypeOK,
                    Writers
<1>7. CASE \/ ChangeBans \/ HandleHeartbeat \/ HandleHeartbeatFails \/ SendHeartbeat
           \/ SendHeartbeatUnread \/ SessionDrops \/ GuardRefreshes \/ UNCHANGED vars
  BY <1>1, <1>7 DEF ChangeBans, HandleHeartbeat, HandleHeartbeatFails, Answer, SendHeartbeat,
                    SendHeartbeatUnread, SessionDrops, GuardRefreshes
<1>8. ASSUME NEW w \in Writers, ApplyOp(w) \/ ApplyOpFails(w) PROVE NoLostWakeup'
  BY <1>1, <1>8 DEF ApplyOp, ApplyOpFails
<1>9. ASSUME NEW w \in Writers, Unlock(w) PROVE NoLostWakeup'
  BY <1>1, <1>9 DEF Unlock, TypeOK, Writers
<1> QED BY <1>2, <1>3, <1>4, <1>5, <1>6, <1>7, <1>8, <1>9 DEF Next, Lock, WriterStep, Faults

\* No wake-up of the ban worker is lost, for any number of deltas, signals
\* and resyncs (queueBanDelta merges and then signals without the lock).
THEOREM WakeupKept == Spec => []NoLostWakeup
<1>1. Init => NoLostWakeup
  BY DEF Init, NoLostWakeup
<1> QED BY <1>1, TypeCorrect, NextType, WakeupStep, PTL DEF Spec

(***************************************************************************)
(* A resync is exact.                                                      *)
(***************************************************************************)

LEMMA DifferenceStep == TypeOK /\ MutexInv /\ DifferenceInv /\ [Next]_vars => DifferenceInv'
<1> SUFFICES ASSUME TypeOK, MutexInv, DifferenceInv, [Next]_vars PROVE DifferenceInv'
  OBVIOUS
<1> USE DEF vars, serverVars, agentVars, applyVars
<1>0. pc["resync"] = "applies" => fwApplyMu = "resync"
  BY DEF MutexInv, Writers
<1>1. CASE UNCHANGED <<pc, todo, list, rules, damaged>>
  BY <1>1 DEF DifferenceInv
<1>2. CASE pc'["resync"] # "applies"
  BY <1>2 DEF DifferenceInv
<1>3. CASE \/ ChangeBans \/ HandleHeartbeat \/ HandleHeartbeatFails \/ SendHeartbeat
           \/ SendHeartbeatUnread \/ QueueBanDelta \/ SignalWorker \/ SessionDrops
           \/ GuardRefreshes \/ UNCHANGED vars
  BY <1>1, <1>3 DEF ChangeBans, HandleHeartbeat, HandleHeartbeatFails, Answer, SendHeartbeat,
                    SendHeartbeatUnread, QueueBanDelta, SignalWorker, SessionDrops, GuardRefreshes
<1>4. CASE SendResync \/ ResyncFilters \/ ResyncReadFails \/ AgentRestarts
  BY <1>2, <1>4 DEF SendResync, ResyncFilters, ResyncReadFails, AgentRestarts, TypeOK, Writers
<1>5. CASE WorkerWakes \/ WorkerTakes
  BY <1>5 DEF WorkerWakes, WorkerTakes, DifferenceInv, TypeOK, Writers
<1>6. CASE PurgeReadFails
  BY <1>6 DEF PurgeReadFails, DifferenceInv, TypeOK, Writers
<1>7. CASE WorkerLocks \/ PurgeLocks
  <2>1. fwApplyMu = Nobody
    BY <1>7 DEF WorkerLocks, PurgeLocks, Holding, MayLock
  <2>2. pc["resync"] # "applies"
    BY <1>0, <2>1 DEF Nobody
  <2>3. pc'["resync"] = pc["resync"]
    BY <1>7 DEF WorkerLocks, PurgeLocks, Holding, TypeOK, Writers
  <2> QED BY <1>2, <2>2, <2>3
<1>8. CASE ResyncLocks
  <2>1. /\ damaged' = (Doubled # {}) /\ rules' = rules
        /\ list' = list /\ list \subseteq Target
        /\ todo'["resync"].add = list \ Enforced
        /\ todo'["resync"].remove = Enforced \ list
    BY <1>8 DEF ResyncLocks, ResyncAgainst, TypeOK, Writers
  <2>2. \A k \in Target : rules[k] \in Nat
    BY DEF TypeOK
  <2>3. ~damaged' => \A k \in Target : rules'[k] <= 1
    <3>1. ~damaged' => \A k \in Target : k \notin Doubled
      BY <2>1
    <3>2. \A k \in Target : k \notin Doubled => rules[k] <= 1
      BY <2>2 DEF Doubled
    <3> QED BY <2>1, <3>1, <3>2
  <2>4. \A k \in Target : k \notin Enforced => rules[k] = 0
    BY <2>2 DEF Enforced
  <2>5. \A k \in todo'["resync"].add : k \in list' /\ rules'[k] = 0
    BY <2>1, <2>4
  <2>6. /\ \A k \in todo'["resync"].remove : k \notin list'
        /\ \A k \in Target : rules'[k] > 0 => k \in list' \cup todo'["resync"].remove
        /\ \A k \in list' \ Unsupported : rules'[k] = 0 => k \in todo'["resync"].add
    BY <2>1, <2>2 DEF Enforced
  <2> QED BY <2>3, <2>5, <2>6 DEF DifferenceInv
<1>12. CASE ResyncReadsNothing
  BY <1>12 DEF ResyncReadsNothing, DifferenceInv
<1>9. ASSUME NEW w \in Writers, ApplyOp(w) PROVE DifferenceInv'
  <2>1. CASE w # "resync"
    <3>1. pc[w] = "applies" /\ pc' = pc
      BY <1>9 DEF ApplyOp
    <3>2. fwApplyMu = w
      BY <3>1 DEF MutexInv
    <3>3. pc["resync"] # "applies"
      BY <1>0, <2>1, <3>2
    <3> QED BY <1>2, <3>1, <3>3
  <2>2. CASE w = "resync"
    <3> SUFFICES ASSUME pc'["resync"] = "applies", ~damaged' PROVE DifferenceInv'
      BY DEF DifferenceInv
    <3> DEFINE t == todo["resync"]
    <3>1. PICK op \in NextOps("resync") :
             /\ todo' = [todo EXCEPT !["resync"] = Without(@, op)]
             /\ rules' = [rules EXCEPT ![op[2]] = IF op[1] = "add" THEN Banned(op[2], @) ELSE Unbanned(@)]
             /\ pc' = pc /\ list' = list /\ damaged' = damaged
      BY <1>9, <2>2 DEF ApplyOp
    <3>2. /\ \A k \in Target : rules[k] <= 1 /\ rules[k] \in Nat
          /\ \A k \in t.add : k \in list /\ rules[k] = 0
          /\ \A k \in t.remove : k \notin list
          /\ \A k \in Target : rules[k] > 0 => k \in list \cup t.remove
          /\ \A k \in list \ Unsupported : rules[k] = 0 => k \in t.add
      BY <3>1 DEF DifferenceInv, TypeOK
    <3>3. t \in Deltas /\ list \subseteq Target /\ rules \in [Target -> Nat]
      BY DEF TypeOK, Writers
    <3>4. CASE op[1] = "add"
      <4>1. op[2] \in t.add
        BY <3>4 , <3>1 DEF NextOps
      <4>2. todo'["resync"].add = t.add \ {op[2]} /\ todo'["resync"].remove = t.remove
        BY <3>1, <3>3, <3>4 DEF Without, Deltas, TypeOK, Writers
      <4>3. /\ rules'[op[2]] = IF op[2] \in Unsupported THEN 0 ELSE 1
            /\ \A k \in Target : k # op[2] => rules'[k] = rules[k]
        <5>1. rules[op[2]] = 0 /\ op[2] \in Target
          BY <3>2, <3>3, <4>1 DEF Deltas
        <5> QED BY <3>1, <3>3, <3>4, <5>1 DEF Banned
      <4>4. op[2] \in list /\ op[2] \in Target
        BY <3>2, <3>3, <4>1
      <4> QED BY <3>1, <3>2, <3>3, <4>1, <4>2, <4>3, <4>4 DEF DifferenceInv
    <3>5. CASE op[1] = "remove"
      <4>1. op[2] \in t.remove
        BY <3>5 , <3>1 DEF NextOps
      <4>2. todo'["resync"].remove = t.remove \ {op[2]} /\ todo'["resync"].add = t.add
        BY <3>1, <3>3, <3>5 DEF Without, Deltas, TypeOK, Writers
      <4>3. rules'[op[2]] = 0 /\ \A k \in Target : k # op[2] => rules'[k] = rules[k]
        <5>1. rules[op[2]] \in 0 .. 1 /\ op[2] \in Target
          BY <3>2, <3>3, <4>1 DEF Deltas
        <5> QED BY <3>1, <3>3, <3>5, <5>1 DEF Unbanned
      <4>4. op[2] \notin list /\ op[2] \in Target
        BY <3>2, <3>3, <4>1 DEF Deltas
      <4> QED BY <3>1, <3>2, <3>3, <4>1, <4>2, <4>3, <4>4 DEF DifferenceInv
    <3> QED BY <3>4, <3>5, DeltaType DEF Writers
  <2> QED BY <2>1, <2>2
<1>10. ASSUME NEW w \in Writers, ApplyOpFails(w) PROVE DifferenceInv'
  BY <1>10 DEF ApplyOpFails, DifferenceInv
<1>11. ASSUME NEW w \in Writers, Unlock(w) PROVE DifferenceInv'
  <2>1. fwApplyMu = w /\ pc'[w] = "idle" /\ (w # "resync" => pc'["resync"] = pc["resync"])
    BY <1>11 DEF Unlock, MutexInv, TypeOK, Writers
  <2> QED BY <1>0, <1>2, <2>1
<1> QED BY <1>3, <1>4, <1>5, <1>6, <1>7, <1>8, <1>9, <1>10, <1>11, <1>12
        DEF Next, Lock, WriterStep, Faults

LEMMA SupportStep == TypeOK /\ SupportInv /\ [Next]_vars => SupportInv'
<1> SUFFICES ASSUME TypeOK, SupportInv, [Next]_vars PROVE SupportInv'
  OBVIOUS
<1> USE DEF vars, serverVars, agentVars, applyVars
<1>1. CASE UNCHANGED rules
  BY <1>1 DEF SupportInv
<1>2. ASSUME NEW w \in Writers, ApplyOp(w) PROVE SupportInv'
  <2>1. PICK op \in NextOps(w) :
           rules' = [rules EXCEPT ![op[2]] = IF op[1] = "add" THEN Banned(op[2], @) ELSE Unbanned(@)]
    BY <1>2 DEF ApplyOp
  <2> SUFFICES ASSUME NEW k \in Unsupported PROVE rules'[k] = 0
    BY DEF SupportInv
  <2>2. rules[k] = 0 /\ k \in Target /\ rules \in [Target -> Nat]
    BY BanSyncAssumption DEF SupportInv, TypeOK
  <2>3. Banned(k, 0) = 0 /\ Unbanned(0) = 0
    BY DEF Banned, Unbanned
  <2>4. CASE op[2] = k
    BY <2>1, <2>2, <2>3, <2>4
  <2>5. CASE op[2] # k
    BY <2>1, <2>2, <2>5
  <2> QED BY <2>4, <2>5
<1>3. CASE ~ \E w \in Writers : ApplyOp(w)
  BY <1>1, <1>3 DEF Next, WriterStep, Faults, Lock, ChangeBans, HandleHeartbeat, HandleHeartbeatFails,
     Answer, SendResync, SendHeartbeat, SendHeartbeatUnread, GuardRefreshes, QueueBanDelta, SignalWorker,
     WorkerWakes, WorkerTakes, WorkerLocks, ResyncFilters, ResyncLocks, ResyncReadsNothing, ResyncAgainst,
     ResyncReadFails, PurgeLocks, PurgeReadFails, ApplyOpFails, Unlock, SessionDrops, AgentRestarts
<1> QED BY <1>2, <1>3

\* A resync whose read and operations took effect leaves exactly the list the
\* guard let through enforced, the entries apart the backend refuses:
\* resyncFirewall reads what is enforced, computes the difference and applies
\* it under fwApplyMu, so neither the ban worker nor the purge can write in
\* between. A read that fails is excepted, also one the backend hides.
THEOREM ResyncIsExact == Spec => []ResyncExact
<1>1. Init => MutexInv /\ DifferenceInv /\ SupportInv
  BY DEF Init, MutexInv, DifferenceInv, SupportInv, Writers, Nobody
<1>2. TypeOK /\ DifferenceInv /\ SupportInv => ResyncExact
  <2> SUFFICES ASSUME TypeOK, DifferenceInv, SupportInv,
                      pc["resync"] = "applies", todo["resync"] = Nothing, ~damaged
               PROVE  Enforced = list \ Unsupported
    BY DEF ResyncExact
  <2>1. todo["resync"].add = {} /\ todo["resync"].remove = {}
    BY DEF Nothing
  <2>2. \A k \in Target : rules[k] \in Nat /\ (rules[k] > 0 => k \in list)
    BY <2>1 DEF DifferenceInv, TypeOK
  <2>3. \A k \in list \ Unsupported : k \in Target /\ rules[k] # 0
    BY <2>1 DEF DifferenceInv, TypeOK
  <2>4. \A k \in Unsupported : ~(rules[k] > 0)
    BY DEF SupportInv
  <2> QED BY <2>2, <2>3, <2>4 DEF Enforced
<1> QED BY <1>1, <1>2, TypeCorrect, MutexStep, DifferenceStep, SupportStep, PTL DEF Spec

(***************************************************************************)
(* What the purge lifted stays lifted.                                     *)
(***************************************************************************)

LEMMA FilteredStep == TypeOK /\ FilteredInv /\ [Next]_vars => FilteredInv'
<1> SUFFICES ASSUME TypeOK, FilteredInv, [Next]_vars PROVE FilteredInv'
  OBVIOUS
<1> USE DEF FilteredInv, vars, serverVars, agentVars, applyVars
<1>0. Nothing.add = {}
  BY DEF Nothing
<1>1. CASE /\ UNCHANGED <<mailbox, todo, list, unsafe, excused>>
           /\ pc'["resync"] = "waits" => pc["resync"] = "waits"
  BY <1>1
<1>2. CASE \/ ChangeBans \/ HandleHeartbeat \/ HandleHeartbeatFails \/ SendHeartbeat
           \/ SendHeartbeatUnread \/ SignalWorker \/ SessionDrops \/ WorkerWakes \/ WorkerLocks
           \/ UNCHANGED vars
  BY <1>1, <1>2 DEF ChangeBans, HandleHeartbeat, HandleHeartbeatFails, Answer, SendHeartbeat,
                    SendHeartbeatUnread, SignalWorker, SessionDrops, WorkerWakes,
                    WorkerLocks, Holding, TypeOK, Writers
<1>3. CASE QueueBanDelta
  BY <1>3 DEF QueueBanDelta, Merged, Filter
<1>4. CASE WorkerTakes
  BY <1>0, <1>4 DEF WorkerTakes, TypeOK, Writers
<1>5. ASSUME NEW listed, ResyncAgainst(listed) PROVE FilteredInv'
  <2>1. /\ pc["resync"] = "waits" /\ pc'["resync"] = "applies" /\ mailbox' = Nothing
        /\ UNCHANGED <<unsafe, excused>>
        /\ todo'["resync"].add = list \ listed
        /\ \A w \in Writers : w # "resync" => todo'[w] = todo[w]
    BY <1>5 DEF ResyncAgainst, Holding, TypeOK, Writers
  <2> QED BY <1>0, <2>1
<1>6. CASE SendResync \/ ResyncReadFails
  BY <1>0, <1>6 DEF SendResync, ResyncReadFails, TypeOK, Writers
<1>7. CASE ResyncFilters
  BY <1>7 DEF ResyncFilters, Filter
<1>8. CASE GuardRefreshes
  BY <1>8 DEF GuardRefreshes
<1>9. CASE PurgeLocks
  <2>1. /\ todo'["purge"].add = {} /\ mailbox' = mailbox /\ list' = list /\ unsafe' = unsafe
        /\ excused \subseteq excused' /\ pc'["resync"] = pc["resync"]
        /\ \A w \in Writers : w # "purge" => todo'[w] = todo[w]
    BY <1>9 DEF PurgeLocks, Holding, TypeOK, Writers
  <2> QED BY <2>1
<1>10. CASE PurgeReadFails
  <2>1. mailbox.add \subseteq Target /\ list \subseteq Target /\ \A w \in Writers : todo[w].add \subseteq Target
    BY DEF TypeOK, Deltas
  <2>2. UNCHANGED <<mailbox, list, todo, unsafe>> /\ excused' = Target
    BY <1>10 DEF PurgeReadFails
  <2> QED BY <2>1, <2>2
<1>11. ASSUME NEW w \in Writers, ApplyOp(w) \/ ApplyOpFails(w) PROVE FilteredInv'
  <2>1. PICK op \in NextOps(w) : todo' = [todo EXCEPT ![w] = Without(@, op)]
    BY <1>11 DEF ApplyOp, ApplyOpFails
  <2>2. todo[w] \in Deltas /\ op[1] \in {"add", "remove"}
    BY DeltaType DEF TypeOK
  <2>3. Without(todo[w], op).add \subseteq todo[w].add
    BY <2>2 DEF Without, Deltas
  <2>4. UNCHANGED <<mailbox, unsafe, list, pc>> /\ excused \subseteq excused'
    BY <1>11 DEF ApplyOp, ApplyOpFails
  <2>5. \A v \in Writers : todo'[v].add \subseteq todo[v].add
    BY <2>1, <2>3 DEF TypeOK
  <2> QED BY <2>4, <2>5
<1>12. ASSUME NEW w \in Writers, Unlock(w) PROVE FilteredInv'
  <2>1. UNCHANGED <<mailbox, unsafe, todo, excused>> /\ (list' = {} \/ list' = list)
    BY <1>12 DEF Unlock
  <2>2. pc'["resync"] = "waits" => pc["resync"] = "waits"
    BY <1>12 DEF Unlock, TypeOK, Writers
  <2> QED BY <2>1, <2>2
<1>13. CASE AgentRestarts
  BY <1>0, <1>13 DEF AgentRestarts
<1> QED BY <1>2, <1>3, <1>4, <1>5, <1>6, <1>7, <1>8, <1>9, <1>10, <1>11, <1>12, <1>13
        DEF Next, Lock, WriterStep, Faults, ResyncLocks, ResyncReadsNothing

LEMMA PurgeStep == TypeOK /\ FilteredInv /\ PurgeInv /\ [Next]_vars => PurgeInv'
<1> SUFFICES ASSUME TypeOK, FilteredInv, PurgeInv, [Next]_vars PROVE PurgeInv'
  OBVIOUS
<1> USE DEF vars, serverVars, agentVars, applyVars
<1>0. \A k \in Answered : k \in Target /\ rules[k] \in Nat
  BY DEF TypeOK, Answered
<1>1. CASE /\ Answered' \subseteq Answered /\ UNCHANGED rules
           /\ todo'["purge"] = todo["purge"] /\ pc'["purge"] = pc["purge"]
  BY <1>1 DEF PurgeInv
<1>2. CASE \/ ChangeBans \/ HandleHeartbeat \/ HandleHeartbeatFails \/ SendHeartbeat
           \/ SendHeartbeatUnread \/ QueueBanDelta \/ SignalWorker \/ SessionDrops
           \/ UNCHANGED vars
  BY <1>1, <1>2 DEF ChangeBans, HandleHeartbeat, HandleHeartbeatFails, Answer, SendHeartbeat,
                    SendHeartbeatUnread, QueueBanDelta, SignalWorker, SessionDrops, Answered
<1>3. CASE \/ SendResync \/ WorkerWakes \/ WorkerTakes \/ WorkerLocks \/ ResyncFilters
           \/ ResyncLocks \/ ResyncReadsNothing \/ ResyncReadFails
  <2>1. UNCHANGED <<rules, unsafe, excused>>
    BY <1>3 DEF SendResync, WorkerWakes, WorkerTakes, WorkerLocks, ResyncFilters,
                ResyncLocks, ResyncReadsNothing, ResyncAgainst, ResyncReadFails
  <2>2. todo'["purge"] = todo["purge"] /\ pc'["purge"] = pc["purge"]
    BY <1>3 DEF SendResync, WorkerWakes, WorkerTakes, WorkerLocks, ResyncFilters, Holding,
                ResyncLocks, ResyncReadsNothing, ResyncAgainst, ResyncReadFails, TypeOK, Writers
  <2> QED BY <1>1, <2>1, <2>2 DEF Answered
<1>4. CASE GuardRefreshes
  <2>1. Answered' \subseteq Answered
    BY <1>4 DEF GuardRefreshes, Answered
  <2> QED BY <1>1, <1>4, <2>1 DEF GuardRefreshes
<1>5. CASE PurgeLocks
  <2>1. /\ todo'["purge"].remove = Enforced \cap unsafe /\ rules' = rules
        /\ pc'["purge"] = "applies" /\ unsafe' = unsafe /\ excused' = excused \cup Doubled
    BY <1>5 DEF PurgeLocks, Holding, TypeOK, Writers
  <2>2. \A k \in Answered' : k \in unsafe /\ k \in Target /\ k \notin Doubled /\ rules[k] \in Nat
    BY <2>1 DEF Answered, TypeOK
  <2>3. \A k \in Answered' : rules[k] <= 1 /\ (rules[k] > 0 => k \in Enforced \cap unsafe)
    BY <2>2 DEF Enforced, Doubled
  <2> QED BY <2>1, <2>3 DEF PurgeInv
<1>6. CASE PurgeReadFails
  <2>1. Answered' = {}
    BY <1>6 DEF PurgeReadFails, Answered, TypeOK
  <2> QED BY <2>1 DEF PurgeInv
<1>7. ASSUME NEW w \in Writers, ApplyOp(w) PROVE PurgeInv'
  <2>1. PICK op \in NextOps(w) :
           /\ todo' = [todo EXCEPT ![w] = Without(@, op)]
           /\ rules' = [rules EXCEPT ![op[2]] = IF op[1] = "add" THEN Banned(op[2], @) ELSE Unbanned(@)]
           /\ pc' = pc /\ unsafe' = unsafe /\ excused' = excused
    BY <1>7 DEF ApplyOp
  <2>2. /\ op[1] \in {"add", "remove"} /\ op[2] \in Target
        /\ op[1] = "add" => op[2] \in todo[w].add
        /\ rules \in [Target -> Nat] /\ todo[w] \in Deltas
    BY DeltaType DEF NextOps, TypeOK
  <2>3. op[1] = "add" => op[2] \notin Answered
    BY <2>2 DEF FilteredInv, Answered
  <2>4. Answered' = Answered
    BY <2>1 DEF Answered
  <2>5. \A k \in Answered : k # op[2] => rules'[k] = rules[k]
    BY <1>0, <2>1, <2>2
  <2>6. ASSUME op[2] \in Answered, rules[op[2]] <= 1 PROVE rules'[op[2]] = 0
    <3>1. rules[op[2]] \in 0 .. 1
      BY <1>0, <2>6
    <3>2. rules'[op[2]] = Unbanned(rules[op[2]])
      BY <2>1, <2>2, <2>3, <2>6
    <3> QED BY <3>1, <3>2 DEF Unbanned
  <2>7. \A k \in Target : k # op[2] /\ k \in todo["purge"].remove => k \in todo'["purge"].remove
    <3>1. CASE w = "purge"
      BY <2>1, <2>2, <3>1 DEF Without, Deltas, TypeOK, Writers
    <3>2. CASE w # "purge"
      BY <2>1, <3>2 DEF TypeOK, Writers
    <3> QED BY <3>1, <3>2
  <2>8. ASSUME pc["purge"] = "applies", NEW k \in Answered
        PROVE  rules'[k] <= 1 /\ (rules'[k] > 0 => k \in todo'["purge"].remove)
    <3>1. rules[k] <= 1 /\ (rules[k] > 0 => k \in todo["purge"].remove)
      BY <2>8 DEF PurgeInv
    <3>2. CASE k = op[2]
      BY <2>6, <3>1, <3>2
    <3>3. CASE k # op[2]
      BY <1>0, <2>5, <2>7, <3>1, <3>3
    <3> QED BY <3>2, <3>3
  <2>9. ASSUME pc["purge"] = "idle", NEW k \in Answered PROVE rules'[k] = 0
    <3>1. rules[k] = 0
      BY <2>9 DEF PurgeInv
    <3> QED BY <2>5, <2>6, <3>1
  <2> QED BY <2>1, <2>4, <2>8, <2>9 DEF PurgeInv
<1>8. ASSUME NEW w \in Writers, ApplyOpFails(w) PROVE PurgeInv'
  <2>1. PICK op \in NextOps(w) :
           /\ todo' = [todo EXCEPT ![w] = Without(@, op)]
           /\ excused' = IF w = "purge" THEN excused \cup {op[2]} ELSE excused
           /\ UNCHANGED <<rules, pc, unsafe>>
    BY <1>8 DEF ApplyOpFails
  <2>2. CASE w # "purge"
    <3>1. todo'["purge"] = todo["purge"] /\ Answered' = Answered
      BY <2>1, <2>2 DEF TypeOK, Writers, Answered
    <3> QED BY <1>1, <2>1, <3>1
  <2>3. CASE w = "purge"
    <3>1. Answered' = Answered \ {op[2]}
      BY <2>1, <2>3 DEF Answered
    <3>2. \A k \in Target : k # op[2] /\ k \in todo["purge"].remove => k \in todo'["purge"].remove
      <4>1. todo["purge"] \in Deltas /\ op[1] \in {"add", "remove"}
        BY <2>3, DeltaType DEF TypeOK
      <4> QED BY <2>1, <2>3, <4>1 DEF Without, Deltas, TypeOK
    <3> QED BY <1>0, <2>1, <3>1, <3>2 DEF PurgeInv
  <2> QED BY <2>2, <2>3
<1>9. ASSUME NEW w \in Writers, Unlock(w) PROVE PurgeInv'
  <2>1. /\ UNCHANGED <<rules, todo, excused, unsafe>> /\ pc[w] = "applies" /\ todo[w] = Nothing
        /\ pc' = [pc EXCEPT ![w] = "idle"]
    BY <1>9 DEF Unlock
  <2>2. Answered' = Answered
    BY <2>1 DEF Answered
  <2>3. CASE w = "purge"
    <3>1. todo["purge"].remove = {} /\ pc'["purge"] = "idle"
      BY <2>1, <2>3 DEF Nothing, TypeOK
    <3>2. \A k \in Answered : rules[k] = 0
      BY <1>0, <2>1, <2>3, <3>1 DEF PurgeInv
    <3> QED BY <2>1, <2>2, <3>1, <3>2 DEF PurgeInv
  <2>4. CASE w # "purge"
    <3>1. pc'["purge"] = pc["purge"]
      BY <2>1, <2>4 DEF TypeOK, Writers
    <3> QED BY <1>1, <2>1, <2>2, <3>1
  <2> QED BY <2>3, <2>4
<1>10. CASE AgentRestarts
  <2>1. pc'["purge"] = "waits"
    BY <1>10 DEF AgentRestarts, Writers
  <2> QED BY <2>1 DEF PurgeInv
<1> QED BY <1>2, <1>3, <1>4, <1>5, <1>6, <1>7, <1>8, <1>9, <1>10 DEF Next, Lock, WriterStep, Faults

\* Once a start-up purge has lifted what it found, no delta and no resync
\* enforces an unsafe entry: both ways to the firewall pass banSafety.Filter.
\* The exceptions are the property's own: entries the purge found with two
\* rules or could not lift, and entries that became unsafe since this start.
THEOREM PurgeLasts == Spec => []PurgedStaysClean
<1>1. Init => FilteredInv /\ PurgeInv
  <2> SUFFICES ASSUME Init PROVE FilteredInv /\ PurgeInv
    OBVIOUS
  <2>1. FilteredInv
    BY DEF Init, FilteredInv, Nothing
  <2>2. pc["purge"] = "waits"
    BY DEF Init, Writers
  <2> QED BY <2>1, <2>2 DEF PurgeInv
<1>2. PurgeInv => PurgedStaysClean
  BY DEF PurgeInv, PurgedStaysClean, Enforced, Answered
<1> QED BY <1>1, <1>2, TypeCorrect, FilteredStep, PurgeStep, PTL DEF Spec

=============================================================================
