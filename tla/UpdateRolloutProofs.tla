------------------------ MODULE UpdateRolloutProofs ------------------------
(***************************************************************************)
(* Theorems about UpdateRollout, for every fleet, cap and budget and any   *)
(* number of events: type correctness (with the offer budget), mutual      *)
(* exclusion in the slot lock, the accounting of the window's cap, and the *)
(* finality of a succeeded update.                                         *)
(***************************************************************************)
EXTENDS UpdateRollout, SequenceTheorems, FiniteSetTheorems, TLAPS

Places == {"idle", "begun", "givesUp", "clears", "queued", "counts", "decides", "writes",
           "records", "releases"}

Handlers == [pc : Places, click : 0 .. MaxEvents, later : SUBSET (Device \cup {"full"}),
             counted : Nat]

Rows == [phase : Phases, count : 0 .. MaxOffers, offered : {"never", "window", "spacing", "free"},
         age : {"new", "settled", "stuck"}, reopened : BOOLEAN]

\* The handler inside the slot lock is the first of the queue.
LockInv ==
    \A h \in Handler : hb[h].pc \in {"counts", "decides"} => slotLock # <<>> /\ Head(slotLock) = h

\* An offer that a handler's count left out was stamped after its clock.
CountInv ==
    \A h \in Handler : hb[h].pc = "decides" => Cardinality(InWindow \ hb[h].later) <= hb[h].counted

\* The slots that are accounted for fit under the cap.
BackedInv == Cardinality(Slots \ unbacked) <= Cap

(***************************************************************************)
(* What the operators return.                                              *)
(***************************************************************************)

LEMMA RowTypes ==
    ASSUME NEW row \in Rows
    PROVE  /\ \A phase \in Phases : Written(row, phase) \in Rows /\ Reported(row, phase) \in Rows
           /\ \A v, path : Reconciled(row, v, path) \in Rows
           /\ Countable(row) => Offered(row) \in Rows
           /\ [Written(row, "offered") EXCEPT !.count = 0] \in Rows
<1>1. /\ {"succeeded", "failed", "offered"} \subseteq Phases
      /\ MaxOffers \in Nat \ {0}
  BY RolloutAssumption DEF Phases, Open, Closed
<1>2. ASSUME NEW phase \in Phases PROVE Written(row, phase) \in Rows
  BY DEF Written, Rows
<1>3. ASSUME NEW phase \in Phases PROVE Reported(row, phase) \in Rows
  BY <1>2 DEF Reported
<1>4. ASSUME NEW v, NEW path PROVE Reconciled(row, v, path) \in Rows
  BY <1>1, <1>2 DEF Reconciled
<1>5. ASSUME Countable(row) PROVE Offered(row) \in Rows
  <2>1. row.count \in 0 .. MaxOffers /\ (row.phase \in Closed \/ row.count < MaxOffers)
    BY <1>5 DEF Countable, Rows
  <2>2. (IF row.phase \in Closed THEN 1 ELSE row.count + 1) \in 0 .. MaxOffers
    BY <1>1, <2>1
  <2> QED BY <1>1, <2>2 DEF Offered, Rows
<1>6. [Written(row, "offered") EXCEPT !.count = 0] \in Rows
  <2>1. Written(row, "offered") \in Rows /\ 0 \in 0 .. MaxOffers
    BY <1>1, <1>2
  <2> QED BY <2>1 DEF Rows
<1> QED BY <1>2, <1>3, <1>4, <1>5, <1>6

\* Stamping changes nothing but the later clocks.
LEMMA StampTypes ==
    ASSUME NEW hs \in [Handler -> Handlers], NEW what \in Device \cup {"full"}
    PROVE  /\ Stamp(hs, what) \in [Handler -> Handlers]
           /\ \A h \in Handler :
                 /\ Stamp(hs, what)[h].pc = hs[h].pc
                 /\ Stamp(hs, what)[h].counted = hs[h].counted
                 /\ hs[h].later \subseteq Stamp(hs, what)[h].later
                 /\ hs[h].pc \in {"queued", "counts", "decides"} => what \in Stamp(hs, what)[h].later
<1>1. ASSUME NEW h \in Handler
      PROVE  /\ Stamp(hs, what)[h] \in Handlers
             /\ Stamp(hs, what)[h].pc = hs[h].pc
             /\ Stamp(hs, what)[h].counted = hs[h].counted
             /\ hs[h].later \subseteq Stamp(hs, what)[h].later
             /\ hs[h].pc \in {"queued", "counts", "decides"} => what \in Stamp(hs, what)[h].later
  <2>1. hs[h] \in Handlers
    OBVIOUS
  <2>2. CASE hs[h].pc \in {"queued", "counts", "decides"}
    <3>1. Stamp(hs, what)[h] = [hs[h] EXCEPT !.later = @ \cup {what}]
      BY <2>2 DEF Stamp
    <3> QED BY <2>1, <3>1 DEF Handlers
  <2>3. CASE hs[h].pc \notin {"queued", "counts", "decides"}
    <3>1. Stamp(hs, what)[h] = hs[h]
      BY <2>3 DEF Stamp
    <3> QED BY <2>1, <2>3, <3>1
  <2> QED BY <2>2, <2>3
<1>2. Stamp(hs, what) \in [Handler -> Handlers]
  BY <1>1 DEF Stamp
<1> QED BY <1>1, <1>2

\* The records the handlers' steps leave.
LEMMA HandlerTypes ==
    /\ Idle \in Handlers
    /\ \A r \in Handlers, p \in Places : [r EXCEPT !.pc = p] \in Handlers
    /\ \A r \in Handlers, p \in Places, n \in 0 .. MaxEvents :
          [r EXCEPT !.pc = p, !.click = n] \in Handlers
<1>1. Idle \in Handlers
  BY RolloutAssumption DEF Handlers, Idle, Places
<1>2. ASSUME NEW r \in Handlers, NEW p \in Places PROVE [r EXCEPT !.pc = p] \in Handlers
  BY DEF Handlers
<1>3. ASSUME NEW r \in Handlers, NEW p \in Places, NEW n \in 0 .. MaxEvents
      PROVE  [r EXCEPT !.pc = p, !.click = n] \in Handlers
  BY DEF Handlers
<1> QED BY <1>1, <1>2, <1>3

LEMMA TypeParts ==
    TypeOK => hb \in [Handler -> Handlers] /\ attempt \in [Device -> Rows]
BY DEF TypeOK, Handlers, Rows, Places

(***************************************************************************)
(* Type correctness and the slot lock.                                     *)
(***************************************************************************)

LEMMA InitType == Init => TypeOK /\ LockInv
<1> SUFFICES ASSUME Init PROVE TypeOK /\ LockInv
  OBVIOUS
<1> USE RolloutAssumption
<1>1. slotLock \in Seq(Handler)
  BY EmptySeq DEF Init
<1>2. hb \in [Handler -> Handlers] /\ \A h \in Handler : hb[h].pc = "idle"
  BY HandlerTypes DEF Init, Idle
<1>3. attempt \in [Device -> Rows]
  BY DEF Init, NoRow, Rows, Phases
<1>4. request \in [Device -> [click : 0 .. MaxEvents, expired : BOOLEAN]] /\ events \in 0 .. MaxEvents
  BY DEF Init, NoRequest
<1>5. device \in [Device -> [policy : Policies, approved : BOOLEAN, known : {"old", "new"}]]
  BY DEF Init, Policies
<1>6. /\ report \in [Device -> {"none", "failed", "notified", "notified none"} \cup Progress]
      /\ admin \in [op : {"none", "request", "close"}, who : SUBSET Device]
      /\ version \in [Device -> {"old", "new"}] /\ agent \in [Device -> {"idle", "updating"}]
      /\ reservation \in [Device -> {"no", "live", "expired"}]
      /\ windowFull \in {"no", "fresh", "stale"} /\ unbacked \subseteq Device
  BY DEF Init, NoAdmin
<1>7. TypeOK
  BY <1>1, <1>2, <1>3, <1>4, <1>5, <1>6 DEF TypeOK, Handlers, Rows, Places
<1>8. LockInv
  BY <1>2 DEF LockInv
<1> QED BY <1>7, <1>8
LEMMA NextType == TypeOK /\ LockInv /\ [Next]_vars => TypeOK'
<1> SUFFICES ASSUME TypeOK, LockInv, [Next]_vars PROVE TypeOK'
  OBVIOUS
<1> USE DEF rolloutVars, agentVars
<1>0. hb \in [Handler -> Handlers] /\ attempt \in [Device -> Rows]
  BY TypeParts
<1>a. ASSUME hb' \in [Handler -> Handlers] PROVE hb' \in [Handler -> [pc : {"idle", "begun", "givesUp",
               "clears", "queued", "counts", "decides", "writes", "records", "releases"},
               click : 0 .. MaxEvents, later : SUBSET (Device \cup {"full"}), counted : Nat]]
  BY <1>a DEF Handlers, Places
<1>b. ASSUME attempt' \in [Device -> Rows] PROVE attempt' \in [Device -> [phase : Phases,
               count : 0 .. MaxOffers, offered : {"never", "window", "spacing", "free"},
               age : {"new", "settled", "stuck"}, reopened : BOOLEAN]]
  BY <1>b DEF Rows
<1>c. \A h \in Handler : DeviceOf(h) \in Device
  BY RolloutAssumption DEF DeviceOf
<1>d. /\ {"succeeded", "failed", "offered", "cancelled"} \cup Progress \subseteq Phases
      /\ events \in Nat /\ events <= MaxEvents /\ MaxEvents \in Nat
  <2>1. {"succeeded", "failed", "offered", "cancelled"} \cup Progress \subseteq Phases
    BY DEF Phases, Open, Closed
  <2>2. MaxEvents \in Nat /\ events \in 0 .. MaxEvents
    BY RolloutAssumption DEF TypeOK
  <2> QED BY <2>1, <2>2
<1>g. /\ device \in [Device -> [policy : Policies, approved : BOOLEAN, known : {"old", "new"}]]
      /\ request \in [Device -> [click : 0 .. MaxEvents, expired : BOOLEAN]]
      /\ reservation \in [Device -> {"no", "live", "expired"}]
      /\ version \in [Device -> {"old", "new"}]
      /\ agent \in [Device -> {"idle", "updating"}]
      /\ report \in [Device -> {"none", "failed", "notified", "notified none"} \cup Progress]
      /\ unbacked \subseteq Device
  BY DEF TypeOK
<1>e. \A kind : May(kind) => events + 1 \in 0 .. MaxEvents
  BY <1>d DEF May
<1>f. slotLock # <<>> => Tail(slotLock) \in Seq(Handler)
  BY HeadTailProperties DEF TypeOK
<1>1. ASSUME NEW h \in Handler, Begin(h) PROVE TypeOK'
  <2> DEFINE d == DeviceOf(h)
             over == request[d].click # 0 /\ RequestIsOver(d, version[d])
             click == IF over THEN 0 ELSE request[d].click
  <2>1. d \in Device /\ request[d].click \in 0 .. MaxEvents /\ 0 \in 0 .. MaxEvents
    <3>1. d \in Device
      BY <1>c
    <3>2. request[d] \in [click : 0 .. MaxEvents, expired : BOOLEAN]
      BY <1>g, <3>1
    <3> QED BY <1>d, <3>1, <3>2
  <2>2. click \in 0 .. MaxEvents
    BY <2>1
  <2>3. hb' \in [Handler -> Handlers]
    <3>1. hb' = [hb EXCEPT ![h] = IF Advertises(d, version[d], click # 0)
                                  THEN [Idle EXCEPT !.pc = "begun", !.click = click] ELSE Idle]
      BY <1>1 DEF Begin
    <3>2. [Idle EXCEPT !.pc = "begun", !.click = click] \in Handlers
      BY <2>2, HandlerTypes DEF Places
    <3> HIDE DEF click, d
    <3> QED BY <1>0, <3>1, <3>2, HandlerTypes
  <2>4. attempt' \in [Device -> Rows]
    BY <1>0, <1>1, RowTypes DEF Begin
  <2>5. device' \in [Device -> [policy : Policies, approved : BOOLEAN, known : {"old", "new"}]]
    <3>1. device' = [device EXCEPT ![d].known = version[d]]
      BY <1>1 DEF Begin
    <3> QED BY <1>g, <2>1, <3>1
  <2>6. request' \in [Device -> [click : 0 .. MaxEvents, expired : BOOLEAN]]
    <3>1. NoRequest \in [click : 0 .. MaxEvents, expired : BOOLEAN]
      BY <2>1 DEF NoRequest
    <3> QED BY <1>1, <3>1 DEF Begin, TypeOK
  <2> QED BY <1>a, <1>b, <1>1, <2>3, <2>4, <2>5, <2>6 DEF Begin, TypeOK
<1>2. ASSUME NEW h \in Handler, ReadAttempt(h) PROVE TypeOK'
  <2>1. hb' \in [Handler -> Handlers]
    <3>1. [Idle EXCEPT !.pc = "queued"] \in Handlers /\ [hb[h] EXCEPT !.pc = "givesUp"] \in Handlers
      BY <1>0, HandlerTypes DEF Places
    <3> QED BY <1>0, <1>2, <3>1, HandlerTypes DEF ReadAttempt
  <2>2. slotLock' \in Seq(Handler)
    <3>1. Append(slotLock, h) \in Seq(Handler)
      BY AppendProperties DEF TypeOK
    <3> QED BY <1>2, <3>1 DEF ReadAttempt, TypeOK
  <2> QED BY <1>a, <1>2, <2>1, <2>2 DEF ReadAttempt, TypeOK
<1>3. ASSUME NEW h \in Handler, GiveUpAttempt(h) PROVE TypeOK'
  <2>1. hb' \in [Handler -> Handlers]
    <3>1. [hb[h] EXCEPT !.pc = "clears"] \in Handlers
      BY <1>0, HandlerTypes DEF Places
    <3> QED BY <1>0, <1>3, <3>1 DEF GiveUpAttempt
  <2>2. attempt' \in [Device -> Rows]
    BY <1>0, <1>3, <1>d, RowTypes DEF GiveUpAttempt
  <2> QED BY <1>a, <1>b, <1>3, <2>1, <2>2 DEF GiveUpAttempt, TypeOK
<1>4. ASSUME NEW h \in Handler, GiveUpRequest(h) PROVE TypeOK'
  <2>1. hb' \in [Handler -> Handlers]
    BY <1>0, <1>4, HandlerTypes DEF GiveUpRequest
  <2>2. NoRequest \in [click : 0 .. MaxEvents, expired : BOOLEAN]
    BY <1>d DEF NoRequest
  <2>3. request' \in [Device -> [click : 0 .. MaxEvents, expired : BOOLEAN]]
    BY <1>4, <2>2 DEF GiveUpRequest, TypeOK
  <2> QED BY <1>a, <1>4, <2>1, <2>3 DEF GiveUpRequest, TypeOK
<1>5. ASSUME NEW h \in Handler PROVE Granted(h, hb) \in [Handler -> Handlers]
  <2>1. [Idle EXCEPT !.pc = "writes"] \in Handlers /\ [Idle EXCEPT !.pc = "records"] \in Handlers
    BY HandlerTypes DEF Places
  <2>2. [Idle EXCEPT !.pc = IF h[2] = "ws" THEN "writes" ELSE "records"] \in Handlers
    BY <2>1
  <2> QED BY <1>0, <2>2 DEF Granted
<1>6. ASSUME NEW h \in Handler, EnterSlot(h) PROVE TypeOK'
  <2>1. hb' \in [Handler -> Handlers]
    <3>1. [hb[h] EXCEPT !.pc = "counts"] \in Handlers
      BY <1>0, HandlerTypes DEF Places
    <3> QED BY <1>0, <1>5, <1>6, <3>1, HandlerTypes DEF EnterSlot
  <2>2. slotLock' \in Seq(Handler)
    BY <1>6, <1>f DEF EnterSlot, TypeOK
  <2>3. reservation' \in [Device -> {"no", "live", "expired"}]
    <3>1. reservation' = Purged(reservation)
      BY <1>6 DEF EnterSlot
    <3> QED BY <1>g, <3>1 DEF Purged
  <2> QED BY <1>a, <1>6, <2>1, <2>2, <2>3 DEF EnterSlot, TypeOK
<1>7. ASSUME NEW h \in Handler, CountOffers(h) PROVE TypeOK'
  <2>1. Cardinality(InWindow \ hb[h].later) \in Nat
    <3>1. IsFiniteSet(Device)
      BY RolloutAssumption
    <3>2. InWindow \ hb[h].later \in SUBSET Device
      BY DEF InWindow
    <3> QED BY <3>1, <3>2, FS_Subset, FS_CardinalityType
  <2>2. hb' \in [Handler -> Handlers]
    BY <1>0, <1>7, <2>1 DEF CountOffers, Handlers, Places
  <2> QED BY <1>a, <1>7, <2>2 DEF CountOffers, TypeOK
<1>8. ASSUME NEW h \in Handler, CountFails(h) PROVE TypeOK'
  <2>1. slotLock # <<>>
    BY <1>8 DEF CountFails, LockInv
  <2>2. slotLock' \in Seq(Handler)
    BY <1>8, <1>f, <2>1 DEF CountFails
  <2>3. hb' \in [Handler -> Handlers]
    BY <1>0, <1>8, HandlerTypes DEF CountFails
  <2>4. events' \in 0 .. MaxEvents
    BY <1>e, <1>8 DEF CountFails
  <2> QED BY <1>a, <1>8, <2>2, <2>3, <2>4 DEF CountFails, TypeOK
<1>9. ASSUME NEW h \in Handler, DecideSlot(h) PROVE TypeOK'
  <2>1. slotLock # <<>>
    BY <1>9 DEF DecideSlot, LockInv
  <2>2. slotLock' \in Seq(Handler)
    BY <1>9, <1>f, <2>1 DEF DecideSlot
  <2>3. hb' \in [Handler -> Handlers]
    <3>1. [hb EXCEPT ![h] = Idle] \in [Handler -> Handlers]
      BY <1>0, HandlerTypes
    <3>2. Stamp([hb EXCEPT ![h] = Idle], "full") \in [Handler -> Handlers]
      BY <3>1, StampTypes
    <3> QED BY <1>5, <1>9, <3>2 DEF DecideSlot
  <2>4. reservation' \in [Device -> {"no", "live", "expired"}]
    BY <1>9 DEF DecideSlot, TypeOK
  <2>5. unbacked' \subseteq Device /\ windowFull' \in {"no", "fresh", "stale"}
    <3>1. /\ unbacked' \in {unbacked, unbacked \cup {DeviceOf(h)}, unbacked \ {DeviceOf(h)}}
          /\ windowFull' \in {"no", "fresh"}
      BY <1>9 DEF DecideSlot
    <3> QED BY <1>c, <1>g, <3>1
  <2> QED BY <1>a, <1>9, <2>2, <2>3, <2>4, <2>5 DEF DecideSlot, TypeOK
<1>10. \A d \in Device : AfterOffer(d) \in {"idle", "updating"}
  BY DEF AfterOffer, TypeOK
<1>11. ASSUME NEW h \in Handler, WriteFrame(h) PROVE TypeOK'
  <2>1. hb' \in [Handler -> Handlers]
    <3>1. [hb[h] EXCEPT !.pc = "records"] \in Handlers
      BY <1>0, HandlerTypes DEF Places
    <3> QED BY <1>0, <1>11, <3>1 DEF WriteFrame
  <2>2. agent' \in [Device -> {"idle", "updating"}]
    BY <1>c, <1>10, <1>11 DEF WriteFrame, TypeOK
  <2> QED BY <1>a, <1>11, <2>1, <2>2 DEF WriteFrame, TypeOK
<1>12. ASSUME NEW h \in Handler, WriteFails(h) PROVE TypeOK'
  <2>1. hb' \in [Handler -> Handlers]
    BY <1>0, <1>12, HandlerTypes DEF WriteFails
  <2>2. events' \in 0 .. MaxEvents
    BY <1>e, <1>12 DEF WriteFails
  <2> QED BY <1>a, <1>12, <2>1, <2>2 DEF WriteFails, TypeOK
<1>13. ASSUME NEW h \in Handler, RecordOffer(h) PROVE TypeOK'
  <2> DEFINE d == DeviceOf(h)
  <2>0. d \in Device
    BY <1>c
  <2>1. hb' \in [Handler -> Handlers]
    <3>1. Stamp(hb, d) \in [Handler -> Handlers]
      BY <1>0, <2>0, StampTypes
    <3>2. /\ [hb EXCEPT ![h].pc = "releases"] \in [Handler -> Handlers]
          /\ [Stamp(hb, d) EXCEPT ![h].pc = "releases"] \in [Handler -> Handlers]
      BY <1>0, <3>1, HandlerTypes DEF Places
    <3> QED BY <1>13, <3>2 DEF RecordOffer
  <2>2. attempt' \in [Device -> Rows]
    <3>1. Countable(attempt[d]) => Offered(attempt[d]) \in Rows
      BY <1>0, <2>0, RowTypes
    <3> QED BY <1>0, <1>13, <2>0, <3>1 DEF RecordOffer
  <2>3. agent' \in [Device -> {"idle", "updating"}]
    <3>1. agent' \in {agent, [agent EXCEPT ![d] = AfterOffer(d)]}
      BY <1>13, <1>g DEF RecordOffer
    <3> QED BY <1>10, <1>g, <2>0, <3>1
  <2>4. events' \in 0 .. MaxEvents
    BY <1>e, <1>13 DEF RecordOffer, TypeOK
  <2>5. unbacked' \subseteq Device
    <3>1. unbacked' \in {unbacked, unbacked \cup {d}}
      BY <1>13 DEF RecordOffer
    <3> QED BY <1>g, <2>0, <3>1
  <2> QED BY <1>a, <1>b, <1>13, <2>1, <2>2, <2>3, <2>4, <2>5 DEF RecordOffer, TypeOK
<1>14. ASSUME NEW h \in Handler, ReleaseSlot(h) PROVE TypeOK'
  <2>1. hb' \in [Handler -> Handlers]
    BY <1>0, <1>14, HandlerTypes DEF ReleaseSlot
  <2> QED BY <1>a, <1>14, <2>1 DEF ReleaseSlot, TypeOK
<1>15. CASE FullAnswerAges
  BY <1>15 DEF FullAnswerAges, TypeOK
<1>16. ASSUME NEW d \in Device, ReservationExpires(d) PROVE TypeOK'
  <2>1. events' \in 0 .. MaxEvents
    BY <1>e, <1>16 DEF ReservationExpires, TypeOK
  <2> QED BY <1>16, <2>1 DEF ReservationExpires, TypeOK
<1>17. ASSUME NEW d \in Device, OfferAges(d) \/ RowAges(d) PROVE TypeOK'
  <2>1. attempt' \in [Device -> Rows]
    BY <1>0, <1>17 DEF OfferAges, RowAges, Rows
  <2>2. UNCHANGED <<device, request, rolloutVars, hb, agentVars, admin, events, unbacked>>
    BY <1>17 DEF OfferAges, RowAges
  <2> QED BY <1>b, <2>1, <2>2 DEF TypeOK
<1>18. ASSUME NEW d \in Device, RequestExpires(d) PROVE TypeOK'
  <2>1. request' \in [Device -> [click : 0 .. MaxEvents, expired : BOOLEAN]]
    BY <1>18, <1>g DEF RequestExpires
  <2>2. UNCHANGED <<device, attempt, rolloutVars, hb, agentVars, admin, events, unbacked>>
    BY <1>18 DEF RequestExpires
  <2> QED BY <2>1, <2>2 DEF TypeOK
<1>19. ASSUME NEW d \in Device, CleanupStuck(d) PROVE TypeOK'
  <2>1. attempt' \in [Device -> Rows]
    BY <1>0, <1>d, <1>19, RowTypes DEF CleanupStuck
  <2> QED BY <1>b, <1>19, <2>1 DEF CleanupStuck, TypeOK
<1>20. ASSUME NEW d \in Device, UpdateStatus(d) \/ NotifyUpdating(d) PROVE TypeOK'
  <2>1. report' \in [Device -> {"none", "failed", "notified", "notified none"} \cup Progress]
    BY <1>20, <1>g DEF UpdateStatus, NotifyUpdating
  <2>2. UNCHANGED <<device, request, attempt, rolloutVars, hb, version, agent, admin, events, unbacked>>
    BY <1>20 DEF UpdateStatus, NotifyUpdating
  <2> QED BY <2>1, <2>2 DEF TypeOK
<1>21. ASSUME NEW d \in Device, UpdateFails(d) PROVE TypeOK'
  <2>1. events' \in 0 .. MaxEvents
    BY <1>e, <1>21 DEF UpdateFails
  <2> QED BY <1>21, <2>1 DEF UpdateFails, TypeOK
<1>22. ASSUME NEW d \in Device, ApplyStatus(d) PROVE TypeOK'
  <2> DEFINE row == CASE report[d] = "notified" -> Written(attempt[d], "installing")
                      [] report[d] = "notified none" -> Reported(attempt[d], "installing")
                      [] OTHER -> Reported(attempt[d], report[d])
  <2>1. report[d] # "none" /\ report[d] \in {"none", "failed", "notified", "notified none"} \cup Progress
    BY <1>22 DEF ApplyStatus, TypeOK
  <2>2. attempt[d] \in Rows /\ "installing" \in Phases
    BY <1>0, <1>d DEF Progress
  <2>3. report[d] \notin {"notified", "notified none"} => report[d] \in Phases
    BY <1>d, <2>1
  <2>4. row \in Rows
    BY <2>2, <2>3, RowTypes
  <2>5. attempt' = [attempt EXCEPT ![d] = row]
    BY <1>22 DEF ApplyStatus
  <2> HIDE DEF row
  <2>6. attempt' \in [Device -> Rows]
    BY <1>0, <2>4, <2>5
  <2> QED BY <1>b, <1>22, <2>6 DEF ApplyStatus, TypeOK
<1>23. ASSUME NEW d \in Device, NEW v \in {"old", "new"}, AgentReturns(d, v) PROVE TypeOK'
  <2>1. events' \in 0 .. MaxEvents
    BY <1>e, <1>23 DEF AgentReturns, TypeOK
  <2>2. attempt' \in [Device -> Rows]
    BY <1>0, <1>23 DEF AgentReturns, Rows
  <2> QED BY <1>b, <1>23, <2>1, <2>2 DEF AgentReturns, TypeOK
<1>24. NoRequest \in [click : 0 .. MaxEvents, expired : BOOLEAN]
  BY <1>d DEF NoRequest
<1>25. ASSUME NEW d \in Device, RequestUpdate(d) PROVE TypeOK'
  <2>1. events' \in 0 .. MaxEvents /\ events' = events + 1
    BY <1>e, <1>25 DEF RequestUpdate
  <2>2. request' \in [Device -> [click : 0 .. MaxEvents, expired : BOOLEAN]]
    BY <1>25, <2>1 DEF RequestUpdate, TypeOK
  <2> QED BY <1>25, <2>1, <2>2 DEF RequestUpdate, TypeOK
<1>26. CASE RestoreBudget
  <2>1. attempt' \in [Device -> Rows]
    BY <1>0, <1>26, RowTypes DEF RestoreBudget
  <2> QED BY <1>b, <1>26, <2>1 DEF RestoreBudget, NoAdmin, TypeOK
<1>27. ASSUME NEW ds \in SUBSET Device, CancelRequests(ds) PROVE TypeOK'
  BY <1>24, <1>27 DEF CancelRequests, NoAdmin, TypeOK
<1>28. ASSUME NEW d \in Device, Freeze(d) PROVE TypeOK'
  <2>1. events' \in 0 .. MaxEvents
    BY <1>e, <1>28 DEF Freeze
  <2>2. device' \in [Device -> [policy : Policies, approved : BOOLEAN, known : {"old", "new"}]]
    <3>1. \/ device' = [device EXCEPT ![d].policy = "off"]
          \/ device' = [device EXCEPT ![d].approved = FALSE]
      BY <1>28 DEF Freeze
    <3>2. "off" \in Policies
      BY DEF Policies
    <3> QED BY <1>g, <3>1, <3>2
  <2> QED BY <1>24, <1>28, <2>1, <2>2 DEF Freeze, NoAdmin, TypeOK
<1>29. CASE CloseAttempts
  <2>1. attempt' \in [Device -> Rows]
    BY <1>0, <1>d, <1>29, RowTypes DEF CloseAttempts
  <2> QED BY <1>b, <1>29, <2>1 DEF CloseAttempts, NoAdmin, TypeOK
<1>30. ASSUME NEW d \in Device, NEW p \in Policies, Unfreeze(d, p) PROVE TypeOK'
  <2>1. events' \in 0 .. MaxEvents
    BY <1>e, <1>30 DEF Unfreeze
  <2>2. device' = [device EXCEPT ![d].policy = p, ![d].approved = TRUE]
    BY <1>30 DEF Unfreeze
  <2>3. device' \in [Device -> [policy : Policies, approved : BOOLEAN, known : {"old", "new"}]]
    <3>1. device[d] \in [policy : Policies, approved : BOOLEAN, known : {"old", "new"}]
      BY <1>g
    <3>2. [device[d] EXCEPT !.policy = p, !.approved = TRUE]
            \in [policy : Policies, approved : BOOLEAN, known : {"old", "new"}]
      BY <3>1
    <3> QED BY <1>g, <2>2, <3>2
  <2>4. UNCHANGED <<request, attempt, rolloutVars, hb, agentVars, admin, unbacked>>
    BY <1>30 DEF Unfreeze
  <2> QED BY <2>1, <2>3, <2>4 DEF TypeOK
<1>31. CASE ServerRestart
  <2>1. events' \in 0 .. MaxEvents
    BY <1>e, <1>31 DEF ServerRestart
  <2>2. hb' \in [Handler -> Handlers]
    BY <1>31, HandlerTypes DEF ServerRestart
  <2>3. slotLock' \in Seq(Handler)
    BY <1>31, EmptySeq DEF ServerRestart
  <2> QED BY <1>a, <1>31, <2>1, <2>2, <2>3 DEF ServerRestart, NoAdmin, TypeOK
<1>32. CASE UNCHANGED vars
  BY <1>32 DEF vars, TypeOK
<1> QED BY <1>1, <1>2, <1>3, <1>4, <1>6, <1>7, <1>8, <1>9, <1>11, <1>12, <1>13, <1>14, <1>15, <1>16,
           <1>17, <1>18, <1>19, <1>20, <1>21, <1>22, <1>23, <1>25, <1>26, <1>27, <1>28, <1>29, <1>30,
           <1>31, <1>32
        DEF Next, Heartbeat, HeartbeatStep, Elapse, AgentStep, AdminStep

LEMMA LockStep == TypeOK /\ LockInv /\ [Next]_vars => LockInv'
<1> SUFFICES ASSUME TypeOK, LockInv, [Next]_vars PROVE LockInv'
  OBVIOUS
<1> USE DEF rolloutVars, agentVars
<1>0. hb \in [Handler -> Handlers] /\ slotLock \in Seq(Handler)
  BY TypeParts DEF TypeOK
<1>1. ASSUME \A g \in Handler : hb'[g].pc \in {"counts", "decides"} => hb'[g].pc = hb[g].pc,
             slotLock' = slotLock
      PROVE  LockInv'
  BY <1>1 DEF LockInv
<1>3. ASSUME NEW h \in Handler, Begin(h) \/ GiveUpAttempt(h) \/ GiveUpRequest(h) \/ WriteFrame(h)
                                 \/ WriteFails(h) \/ ReleaseSlot(h)
      PROVE  LockInv'
  <2>1. slotLock' = slotLock
    BY <1>3 DEF Begin, GiveUpAttempt, GiveUpRequest, WriteFrame, WriteFails, ReleaseSlot
  <2>2. hb'[h].pc \notin {"counts", "decides"} /\ \A g \in Handler \ {h} : hb'[g] = hb[g]
    <3>1. CASE Begin(h)
      BY <1>0, <3>1 DEF Begin, Idle
    <3>2. CASE GiveUpAttempt(h) \/ WriteFrame(h)
      BY <1>0, <3>2 DEF GiveUpAttempt, WriteFrame, Handlers
    <3>3. CASE GiveUpRequest(h) \/ WriteFails(h) \/ ReleaseSlot(h)
      BY <1>0, <3>3 DEF GiveUpRequest, WriteFails, ReleaseSlot, Idle
    <3> QED BY <1>3, <3>1, <3>2, <3>3
  <2> QED BY <1>1, <2>1, <2>2
<1>4. ASSUME NEW h \in Handler, ReadAttempt(h) PROVE LockInv'
  <2>1. hb'[h].pc \notin {"counts", "decides"} /\ \A g \in Handler \ {h} : hb'[g] = hb[g]
    BY <1>0, <1>4 DEF ReadAttempt, Idle, Handlers
  <2>2. slotLock' = slotLock \/ slotLock' = Append(slotLock, h)
    BY <1>4 DEF ReadAttempt
  <2>3. slotLock # <<>> => slotLock' # <<>> /\ Head(slotLock') = Head(slotLock)
    <3>1. slotLock # <<>> => Append(slotLock, h) # <<>> /\ Head(Append(slotLock, h)) = Head(slotLock)
      BY <1>0, AppendProperties, HeadTailProperties
    <3> QED BY <2>2, <3>1
  <2> QED BY <2>1, <2>3 DEF LockInv
<1>5. ASSUME NEW h \in Handler, EnterSlot(h) PROVE LockInv'
  <2>1. /\ slotLock # <<>> /\ Head(slotLock) = h /\ hb[h].pc = "queued"
        /\ \/ hb' = Granted(h, hb) \/ hb' = [hb EXCEPT ![h] = Idle]
           \/ hb' = [hb EXCEPT ![h].pc = "counts"] /\ slotLock' = slotLock
    BY <1>5 DEF EnterSlot
  <2>2. \A g \in Handler \ {h} : hb[g].pc \notin {"counts", "decides"}
    BY <2>1 DEF LockInv
  <2>3. \A g \in Handler \ {h} : hb'[g] = hb[g]
    BY <1>0, <2>1 DEF Granted
  <2>4. CASE hb' = Granted(h, hb) \/ hb' = [hb EXCEPT ![h] = Idle]
    <3>1. hb'[h].pc \notin {"counts", "decides"}
      BY <1>0, <2>4 DEF Granted, Idle
    <3> QED BY <2>2, <2>3, <3>1 DEF LockInv
  <2>5. CASE slotLock' = slotLock
    BY <2>1, <2>2, <2>3, <2>5 DEF LockInv
  <2> QED BY <2>1, <2>4, <2>5
<1>6. ASSUME NEW h \in Handler, CountOffers(h) PROVE LockInv'
  <2>1. /\ hb[h].pc = "counts" /\ slotLock' = slotLock
        /\ \A g \in Handler \ {h} : hb'[g] = hb[g]
    BY <1>0, <1>6 DEF CountOffers
  <2>2. slotLock # <<>> /\ Head(slotLock) = h
    BY <2>1 DEF LockInv
  <2> QED BY <2>1, <2>2 DEF LockInv
<1>7. ASSUME NEW h \in Handler, CountFails(h) \/ DecideSlot(h) PROVE LockInv'
  <2>1. hb[h].pc \in {"counts", "decides"}
    BY <1>7 DEF CountFails, DecideSlot
  <2>2. slotLock # <<>> /\ Head(slotLock) = h
    BY <2>1 DEF LockInv
  <2>3. \A g \in Handler \ {h} : hb[g].pc \notin {"counts", "decides"}
    BY <2>2 DEF LockInv
  <2> DEFINE idled == [hb EXCEPT ![h] = Idle]
  <2>4. hb' = idled \/ hb' = Granted(h, hb) \/ hb' = Stamp(idled, "full")
    BY <1>7 DEF CountFails, DecideSlot
  <2>5. /\ idled \in [Handler -> Handlers] /\ idled[h].pc = "idle"
        /\ \A g \in Handler \ {h} : idled[g] = hb[g]
    BY <1>0, HandlerTypes DEF Idle
  <2>6. /\ Granted(h, hb)[h].pc \notin {"counts", "decides"}
        /\ \A g \in Handler \ {h} : Granted(h, hb)[g] = hb[g]
    BY <1>0 DEF Granted, Idle
  <2> HIDE DEF idled
  <2>7. \A g \in Handler : Stamp(idled, "full")[g].pc = idled[g].pc
    BY <2>5, StampTypes
  <2>8. \A g \in Handler : hb'[g].pc \notin {"counts", "decides"}
    BY <2>3, <2>4, <2>5, <2>6, <2>7
  <2> QED BY <2>8 DEF LockInv
<1>8. ASSUME NEW h \in Handler, RecordOffer(h) PROVE LockInv'
  <2> DEFINE d == DeviceOf(h)
  <2>1. slotLock' = slotLock
    BY <1>8 DEF RecordOffer
  <2>2. Stamp(hb, d) \in [Handler -> Handlers] /\ \A g \in Handler : Stamp(hb, d)[g].pc = hb[g].pc
    <3>1. d \in Device
      BY RolloutAssumption DEF DeviceOf
    <3> HIDE DEF d
    <3> QED BY <1>0, <3>1, StampTypes
  <2>3. hb' = [Stamp(hb, d) EXCEPT ![h].pc = "releases"] \/ hb' = [hb EXCEPT ![h].pc = "releases"]
    BY <1>8 DEF RecordOffer
  <2> HIDE DEF d
  <2>4. \A g \in Handler : hb'[g].pc \in {"counts", "decides"} => hb'[g].pc = hb[g].pc
    BY <1>0, <2>2, <2>3 DEF Handlers
  <2> QED BY <1>1, <2>1, <2>4
<1>9. CASE ServerRestart
  BY <1>9 DEF ServerRestart, LockInv, Idle
<1>10. CASE UNCHANGED <<hb, slotLock>>
  BY <1>10 DEF LockInv
<1>11. CASE Elapse
  BY <1>10, <1>11 DEF Elapse, FullAnswerAges, ReservationExpires, OfferAges, RowAges, RequestExpires
<1>12. ASSUME NEW d \in Device, AgentStep(d) \/ CleanupStuck(d) PROVE LockInv'
  BY <1>10, <1>12 DEF AgentStep, UpdateStatus, UpdateFails, ApplyStatus, NotifyUpdating, AgentReturns,
                      CleanupStuck
<1>13. CASE AdminStep
  BY <1>10, <1>13 DEF AdminStep, RestoreBudget, CloseAttempts, CancelRequests, RequestUpdate, Freeze,
                      Unfreeze
<1>14. CASE UNCHANGED vars
  BY <1>10, <1>14 DEF vars
<1> QED BY <1>3, <1>4, <1>5, <1>6, <1>7, <1>8, <1>9, <1>11, <1>12, <1>13, <1>14
        DEF Next, Heartbeat, HeartbeatStep

LEMMA LockedAndTyped == Spec => [](TypeOK /\ LockInv)
BY InitType, NextType, LockStep, PTL DEF Spec

\* Every variable keeps its type, and no attempt is ever counted beyond
\* UPDATE_REQUEST_MAX_OFFERS: the upsert of recordUpdateOffer checks the
\* budget again, several awaits after it was read.
THEOREM TypeCorrect == Spec => []TypeOK
BY LockedAndTyped, PTL

(***************************************************************************)
(* A succeeded update stays.                                               *)
(***************************************************************************)

\* A succeeded attempt is only reopened by a new offer or by a notification
\* that had found it open: reconciliation, giving up, late reports, cleanup,
\* cancellation and retry all leave it alone.
THEOREM SucceededIsFinal == Spec => SucceededStays
<1> DEFINE Stays == \A d \in Device :
              attempt[d].phase = "succeeded" /\ attempt'[d].phase # "succeeded"
                => \/ attempt'[d].phase = "offered" /\ attempt'[d].offered = "window"
                   \/ report[d] = "notified"
<1>1. TypeOK /\ [Next]_vars => [Stays]_vars
  <2> SUFFICES ASSUME TypeOK, [Next]_vars PROVE Stays \/ UNCHANGED vars
    BY DEF vars
  <2> USE DEF rolloutVars, agentVars
  <2>0. attempt \in [Device -> Rows] /\ "succeeded" \notin Open \cup Progress
    BY TypeParts DEF Open, Progress
  <2>1. ASSUME NEW h \in Handler, Begin(h) PROVE Stays
    <3>1. \A v, path : \A row \in Rows : row.phase = "succeeded" => Reconciled(row, v, path) = row
      BY DEF Reconciled
    <3>2. attempt' = [attempt EXCEPT ![DeviceOf(h)] =
                        IF device[DeviceOf(h)].approved
                        THEN Reconciled(@, version[DeviceOf(h)], h[2]) ELSE @]
      BY <2>1 DEF Begin
    <3> QED BY <2>0, <3>1, <3>2
  <2>2. ASSUME NEW h \in Handler, GiveUpAttempt(h) PROVE Stays
    BY <2>0, <2>2 DEF GiveUpAttempt
  <2>3. ASSUME NEW h \in Handler, RecordOffer(h) PROVE Stays
    <3>1. \/ attempt' = attempt
          \/ attempt' = [attempt EXCEPT ![DeviceOf(h)] = Offered(@)]
      BY <2>3 DEF RecordOffer
    <3> QED BY <2>0, <3>1 DEF Offered
  <2>4. ASSUME NEW d \in Device, OfferAges(d) PROVE Stays
    BY <2>0, <2>4 DEF OfferAges, Rows
  <2>5. ASSUME NEW d \in Device, RowAges(d) PROVE Stays
    BY <2>0, <2>5 DEF RowAges, Rows
  <2>6. ASSUME NEW d \in Device, CleanupStuck(d) PROVE Stays
    BY <2>0, <2>6 DEF CleanupStuck
  <2>7. ASSUME NEW d \in Device, ApplyStatus(d) PROVE Stays
    <3>1. CASE report[d] = "notified"
      BY <2>0, <2>7, <3>1 DEF ApplyStatus
    <3>2. CASE report[d] # "notified"
      <4>1. PICK phase : attempt' = [attempt EXCEPT ![d] = Reported(@, phase)]
        BY <2>7, <3>2 DEF ApplyStatus
      <4> QED BY <2>0, <4>1 DEF Reported
    <3> QED BY <3>1, <3>2
  <2>8. ASSUME NEW d \in Device, NEW v, AgentReturns(d, v) PROVE Stays
    BY <2>0, <2>8 DEF AgentReturns, Rows
  <2>9. CASE RestoreBudget \/ CloseAttempts
    BY <2>0, <2>9 DEF RestoreBudget, CloseAttempts
  <2>10. CASE attempt' = attempt
    BY <2>10
  <2>11. ASSUME NEW h \in Handler,
                \/ ReadAttempt(h) \/ GiveUpRequest(h) \/ EnterSlot(h) \/ CountOffers(h)
                \/ DecideSlot(h) \/ WriteFrame(h) \/ ReleaseSlot(h) \/ CountFails(h) \/ WriteFails(h)
         PROVE  Stays
    BY <2>10, <2>11 DEF ReadAttempt, GiveUpRequest, EnterSlot, CountOffers, DecideSlot, WriteFrame,
                        ReleaseSlot, CountFails, WriteFails
  <2>12. ASSUME NEW d \in Device,
                \/ ReservationExpires(d) \/ RequestExpires(d) \/ UpdateStatus(d) \/ UpdateFails(d)
                \/ NotifyUpdating(d) \/ RequestUpdate(d) \/ Freeze(d) \/ \E p \in Policies : Unfreeze(d, p)
         PROVE  Stays
    BY <2>10, <2>12 DEF ReservationExpires, RequestExpires, UpdateStatus, UpdateFails, NotifyUpdating,
                        RequestUpdate, Freeze, Unfreeze
  <2>13. ASSUME FullAnswerAges \/ ServerRestart \/ \E ds \in SUBSET Device : CancelRequests(ds)
         PROVE  Stays
    BY <2>10, <2>13 DEF FullAnswerAges, ServerRestart, CancelRequests
  <2> HIDE DEF Stays
  <2> QED BY <2>1, <2>2, <2>3, <2>4, <2>5, <2>6, <2>7, <2>8, <2>9, <2>11, <2>12, <2>13
          DEF Next, Heartbeat, HeartbeatStep, Elapse, AgentStep, AdminStep
<1> QED BY <1>1, TypeCorrect, PTL DEF Spec, SucceededStays

(***************************************************************************)
(* The cap of the window.                                                  *)
(***************************************************************************)

\* Smaller sets of devices have smaller cardinalities.
LEMMA FewerDevices ==
    ASSUME NEW S, NEW T, S \subseteq T, T \subseteq Device
    PROVE  /\ IsFiniteSet(S) /\ IsFiniteSet(T)
           /\ Cardinality(S) \in Nat /\ Cardinality(T) \in Nat
           /\ Cardinality(S) <= Cardinality(T)
<1>1. IsFiniteSet(Device)
  BY RolloutAssumption
<1>2. IsFiniteSet(T)
  BY <1>1, FS_Subset
<1>3. IsFiniteSet(S) /\ Cardinality(S) <= Cardinality(T)
  BY <1>2, FS_Subset
<1> QED BY <1>2, <1>3, FS_CardinalityType

\* No offer is counted, no slot granted, no count taken.
Quiet ==
    /\ InWindow' \subseteq InWindow /\ Reserved' \subseteq Reserved /\ unbacked' = unbacked
    /\ \A h \in Handler : hb'[h].pc = "decides" => hb'[h] = hb[h]

LEMMA QuietSteps ==
    ASSUME TypeOK, [Next]_vars,
           \A h \in Handler : ~CountOffers(h) /\ ~DecideSlot(h) /\ ~RecordOffer(h)
    PROVE  Quiet
<1> USE DEF rolloutVars, agentVars
<1>0. /\ hb \in [Handler -> Handlers] /\ attempt \in [Device -> Rows]
      /\ reservation \in [Device -> {"no", "live", "expired"}]
  BY TypeParts DEF TypeOK
<1>1. ASSUME \A d \in Device : attempt'[d].offered = "window" => attempt[d].offered = "window"
      PROVE  InWindow' \subseteq InWindow
  BY <1>1 DEF InWindow
<1>2. \A row \in Rows : \A phase : Written(row, phase).offered = row.offered
  BY DEF Written, Rows
<1>3. ASSUME attempt' = attempt PROVE InWindow' = InWindow
  BY <1>3 DEF InWindow
<1>4. ASSUME reservation' = reservation PROVE Reserved' = Reserved
  BY <1>4 DEF Reserved
<1>5. ASSUME hb' = hb PROVE \A h \in Handler : hb'[h].pc = "decides" => hb'[h] = hb[h]
  BY <1>5
<1>6. ASSUME NEW h \in Handler, hb'[h].pc # "decides", \A g \in Handler \ {h} : hb'[g] = hb[g]
      PROVE  \A g \in Handler : hb'[g].pc = "decides" => hb'[g] = hb[g]
  BY <1>6
<1>7. ASSUME NEW h \in Handler, Begin(h) PROVE Quiet
  <2>1. \A row \in Rows : \A v, path : Reconciled(row, v, path).offered = row.offered
    BY <1>2 DEF Reconciled
  <2>2. attempt' = [attempt EXCEPT ![DeviceOf(h)] =
                      IF device[DeviceOf(h)].approved
                      THEN Reconciled(@, version[DeviceOf(h)], h[2]) ELSE @]
    BY <1>7 DEF Begin
  <2>3. \A d \in Device : attempt'[d].offered = attempt[d].offered
    BY <1>0, <2>1, <2>2
  <2>4. hb'[h].pc # "decides" /\ \A g \in Handler \ {h} : hb'[g] = hb[g]
    BY <1>0, <1>7 DEF Begin, Idle
  <2> QED BY <1>1, <1>4, <1>6, <1>7, <2>3, <2>4 DEF Begin, Quiet
<1>8. ASSUME NEW h \in Handler, GiveUpAttempt(h) PROVE Quiet
  <2>1. \A d \in Device : attempt'[d].offered = attempt[d].offered
    BY <1>0, <1>2, <1>8 DEF GiveUpAttempt
  <2>2. hb'[h].pc # "decides" /\ \A g \in Handler \ {h} : hb'[g] = hb[g]
    BY <1>0, <1>8 DEF GiveUpAttempt, Handlers
  <2> QED BY <1>1, <1>4, <1>6, <1>8, <2>1, <2>2 DEF GiveUpAttempt, Quiet
<1>9. ASSUME NEW h \in Handler, ReadAttempt(h) \/ GiveUpRequest(h) \/ CountFails(h) \/ WriteFails(h)
      PROVE  Quiet
  <2>1. hb'[h].pc # "decides" /\ \A g \in Handler \ {h} : hb'[g] = hb[g]
    BY <1>0, <1>9 DEF ReadAttempt, GiveUpRequest, CountFails, WriteFails, Idle, Handlers
  <2>2. UNCHANGED <<attempt, reservation, unbacked>>
    BY <1>9 DEF ReadAttempt, GiveUpRequest, CountFails, WriteFails
  <2> QED BY <1>3, <1>4, <1>6, <2>1, <2>2 DEF Quiet
<1>10. ASSUME NEW h \in Handler, EnterSlot(h) PROVE Quiet
  <2>1. /\ reservation' = Purged(reservation) /\ UNCHANGED <<attempt, unbacked>>
        /\ \/ hb' = Granted(h, hb) \/ hb' = [hb EXCEPT ![h] = Idle]
           \/ hb' = [hb EXCEPT ![h].pc = "counts"]
    BY <1>10 DEF EnterSlot
  <2>2. Reserved' \subseteq Reserved
    BY <1>0, <2>1 DEF Reserved, Purged
  <2>3. hb'[h].pc # "decides" /\ \A g \in Handler \ {h} : hb'[g] = hb[g]
    BY <1>0, <2>1 DEF Granted, Idle, Handlers
  <2> QED BY <1>3, <1>6, <2>1, <2>2, <2>3 DEF Quiet
<1>11. ASSUME NEW h \in Handler, WriteFrame(h) PROVE Quiet
  <2>1. hb'[h].pc # "decides" /\ \A g \in Handler \ {h} : hb'[g] = hb[g]
    BY <1>0, <1>11 DEF WriteFrame, Handlers
  <2> QED BY <1>3, <1>4, <1>6, <1>11, <2>1 DEF WriteFrame, Quiet
<1>12. ASSUME NEW h \in Handler, ReleaseSlot(h) PROVE Quiet
  <2>1. hb'[h].pc # "decides" /\ \A g \in Handler \ {h} : hb'[g] = hb[g]
    BY <1>0, <1>12 DEF ReleaseSlot, Idle
  <2>2. Reserved' \subseteq Reserved
    BY <1>0, <1>12 DEF ReleaseSlot, Reserved
  <2> QED BY <1>3, <1>6, <1>12, <2>1, <2>2 DEF ReleaseSlot, Quiet
<1>13. CASE FullAnswerAges
  BY <1>3, <1>4, <1>5, <1>13 DEF FullAnswerAges, Quiet
<1>14. ASSUME NEW d \in Device, ReservationExpires(d) PROVE Quiet
  <2>1. Reserved' \subseteq Reserved
    BY <1>0, <1>14 DEF ReservationExpires, Reserved
  <2> QED BY <1>3, <1>5, <1>14, <2>1 DEF ReservationExpires, Quiet
<1>15. ASSUME NEW d \in Device, OfferAges(d) \/ RowAges(d) \/ CleanupStuck(d) \/ ApplyStatus(d)
                                 \/ \E v \in {"old", "new"} : AgentReturns(d, v)
       PROVE  Quiet
  <2>1. UNCHANGED <<reservation, unbacked, hb>>
    BY <1>15 DEF OfferAges, RowAges, CleanupStuck, ApplyStatus, AgentReturns
  <2>2. \A e \in Device : attempt'[e].offered = "window" => attempt[e].offered = "window"
    <3>1. CASE OfferAges(d)
      BY <1>0, <3>1 DEF OfferAges, Rows
    <3>2. CASE RowAges(d)
      BY <1>0, <3>2 DEF RowAges, Rows
    <3>3. CASE CleanupStuck(d)
      BY <1>0, <1>2, <3>3 DEF CleanupStuck
    <3>4. CASE ApplyStatus(d)
      <4>1. \A row \in Rows : \A phase : Reported(row, phase).offered = row.offered
        BY <1>2 DEF Reported
      <4>2. PICK row \in {Written(attempt[d], "installing"), Reported(attempt[d], "installing"),
                          Reported(attempt[d], report[d])} : attempt' = [attempt EXCEPT ![d] = row]
        BY <3>4 DEF ApplyStatus
      <4>3. row.offered = attempt[d].offered
        BY <1>0, <1>2, <4>1, <4>2
      <4> QED BY <1>0, <4>2, <4>3
    <3>5. ASSUME NEW v, AgentReturns(d, v)
          PROVE  \A e \in Device : attempt'[e].offered = attempt[e].offered
      BY <1>0, <3>5 DEF AgentReturns, Rows
    <3> QED BY <1>15, <3>1, <3>2, <3>3, <3>4, <3>5
  <2> QED BY <1>1, <1>4, <1>5, <2>1, <2>2 DEF Quiet
<1>16. ASSUME NEW d \in Device,
              \/ RequestExpires(d) \/ UpdateStatus(d) \/ UpdateFails(d)
              \/ NotifyUpdating(d) \/ RequestUpdate(d) \/ Freeze(d) \/ \E p \in Policies : Unfreeze(d, p)
       PROVE  Quiet
  <2>1. UNCHANGED <<attempt, reservation, unbacked, hb>>
    BY <1>16 DEF RequestExpires, UpdateStatus, UpdateFails, NotifyUpdating, RequestUpdate, Freeze, Unfreeze
  <2> QED BY <1>3, <1>4, <1>5, <2>1 DEF Quiet
<1>17. ASSUME NEW ds \in SUBSET Device, CancelRequests(ds) PROVE Quiet
  BY <1>3, <1>4, <1>5, <1>17 DEF CancelRequests, Quiet
<1>18. CASE RestoreBudget \/ CloseAttempts
  <2>1. UNCHANGED <<reservation, unbacked, hb>>
    BY <1>18 DEF RestoreBudget, CloseAttempts
  <2>2. \A row \in Rows : [Written(row, "offered") EXCEPT !.count = 0].offered = row.offered
    BY DEF Written, Rows
  <2>3. \A e \in Device : attempt'[e].offered = attempt[e].offered
    <3>1. CASE RestoreBudget
      <4>1. \A e \in Device : attempt'[e] \in {attempt[e],
                                  [Written(attempt[e], "offered") EXCEPT !.count = 0]}
        BY <3>1 DEF RestoreBudget
      <4> QED BY <1>0, <2>2, <4>1
    <3>2. CASE CloseAttempts
      <4>1. \A e \in Device : attempt'[e] \in {attempt[e], Written(attempt[e], "cancelled")}
        BY <3>2 DEF CloseAttempts
      <4> QED BY <1>0, <1>2, <4>1
    <3> QED BY <1>18, <3>1, <3>2
  <2> QED BY <1>1, <1>4, <1>5, <2>1, <2>3 DEF Quiet
<1>19. CASE ServerRestart
  <2>1. Reserved' = {}
    BY <1>19 DEF ServerRestart, Reserved
  <2>2. \A h \in Handler : hb'[h].pc # "decides"
    BY <1>19 DEF ServerRestart, Idle
  <2> QED BY <1>3, <1>19, <2>1, <2>2 DEF ServerRestart, Quiet
<1>20. CASE UNCHANGED vars
  BY <1>3, <1>4, <1>5, <1>20 DEF vars, Quiet
<1> QED BY <1>7, <1>8, <1>9, <1>10, <1>11, <1>12, <1>13, <1>14, <1>15, <1>16, <1>17, <1>18, <1>19, <1>20
        DEF Next, Heartbeat, HeartbeatStep, Elapse, AgentStep, AdminStep

LEMMA CountStep == TypeOK /\ CountInv /\ [Next]_vars => CountInv'
<1> SUFFICES ASSUME TypeOK, CountInv, [Next]_vars,
                    NEW g \in Handler, hb'[g].pc = "decides"
             PROVE  (Cardinality(InWindow \ hb[g].later) <= hb[g].counted)'
  BY DEF CountInv
<1>0. hb \in [Handler -> Handlers] /\ InWindow \subseteq Device /\ InWindow' \subseteq Device
  BY TypeParts DEF InWindow
\* A handler that had counted before counted at least as much as is left now.
<1>1. ASSUME hb[g].pc = "decides", hb'[g].counted = hb[g].counted,
             InWindow' \ hb'[g].later \subseteq InWindow \ hb[g].later
      PROVE  Cardinality(InWindow' \ hb'[g].later) <= hb'[g].counted
  <2>1. Cardinality(InWindow \ hb[g].later) <= hb[g].counted /\ hb[g].counted \in Nat
    BY <1>0, <1>1 DEF CountInv, Handlers
  <2>2. /\ Cardinality(InWindow' \ hb'[g].later) <= Cardinality(InWindow \ hb[g].later)
        /\ Cardinality(InWindow' \ hb'[g].later) \in Nat /\ Cardinality(InWindow \ hb[g].later) \in Nat
    <3>1. InWindow \ hb[g].later \subseteq Device
      BY <1>0
    <3> QED BY <1>1, <3>1, FewerDevices
  <2> QED BY ONLY <1>1, <2>1, <2>2
<1>2. CASE \A h \in Handler : ~CountOffers(h) /\ ~DecideSlot(h) /\ ~RecordOffer(h)
  <2>1. hb'[g] = hb[g] /\ InWindow' \subseteq InWindow
    BY <1>2, QuietSteps DEF Quiet
  <2> QED BY <1>1, <2>1
<1>3. ASSUME NEW h \in Handler, CountOffers(h)
      PROVE  Cardinality(InWindow' \ hb'[g].later) <= hb'[g].counted
  <2>1. InWindow' = InWindow
    BY <1>3 DEF CountOffers, InWindow
  <2>2. CASE g = h
    <3>1. hb'[g].later = hb[g].later /\ hb'[g].counted = Cardinality(InWindow \ hb[g].later)
      BY <1>0, <1>3, <2>2 DEF CountOffers, Handlers
    <3>2. Cardinality(InWindow \ hb[g].later) \in Nat
      <4>1. InWindow \ hb[g].later \subseteq Device
        BY <1>0
      <4> QED BY <4>1, FewerDevices
    <3> QED BY <2>1, <3>1, <3>2
  <2>3. CASE g # h
    <3>1. hb'[g] = hb[g]
      BY <1>0, <1>3, <2>3 DEF CountOffers
    <3> QED BY <1>1, <2>1, <3>1
  <2> QED BY <2>2, <2>3
<1>4. ASSUME NEW h \in Handler, DecideSlot(h)
      PROVE  Cardinality(InWindow' \ hb'[g].later) <= hb'[g].counted
  <2> DEFINE idled == [hb EXCEPT ![h] = Idle]
  <2>1. InWindow' = InWindow /\ (hb' = Granted(h, hb) \/ hb' = Stamp(idled, "full"))
    BY <1>4 DEF DecideSlot, InWindow
  <2>2. idled \in [Handler -> Handlers] /\ idled[h].pc = "idle" /\ \A e \in Handler \ {h} : idled[e] = hb[e]
    BY <1>0, HandlerTypes DEF Idle
  <2>3. Granted(h, hb)[h].pc # "decides" /\ \A e \in Handler \ {h} : Granted(h, hb)[e] = hb[e]
    BY <1>0 DEF Granted, Idle
  <2> HIDE DEF idled
  <2>4. \A e \in Handler : /\ Stamp(idled, "full")[e].pc = idled[e].pc
                           /\ Stamp(idled, "full")[e].counted = idled[e].counted
                           /\ idled[e].later \subseteq Stamp(idled, "full")[e].later
    BY <2>2, StampTypes
  <2>5. g # h
    BY <2>1, <2>2, <2>3, <2>4
  <2>6. hb[g].pc = "decides" /\ hb'[g].counted = hb[g].counted /\ hb[g].later \subseteq hb'[g].later
    BY <2>1, <2>2, <2>3, <2>4, <2>5
  <2> QED BY <1>1, <2>1, <2>6
<1>5. ASSUME NEW h \in Handler, RecordOffer(h)
      PROVE  Cardinality(InWindow' \ hb'[g].later) <= hb'[g].counted
  <2> DEFINE d == DeviceOf(h)
  <2>1. d \in Device
    BY RolloutAssumption DEF DeviceOf
  <2>2. \/ attempt' = attempt /\ hb' = [hb EXCEPT ![h].pc = "releases"]
        \/ attempt' = [attempt EXCEPT ![d] = Offered(@)] /\ hb' = [Stamp(hb, d) EXCEPT ![h].pc = "releases"]
    BY <1>5 DEF RecordOffer
  <2> HIDE DEF d
  <2>3. CASE attempt' = attempt /\ hb' = [hb EXCEPT ![h].pc = "releases"]
    <3>1. InWindow' = InWindow
      BY <2>3 DEF InWindow
    <3>2. g # h /\ hb'[g] = hb[g]
      BY <1>0, <2>3 DEF Handlers
    <3> QED BY <1>1, <3>1, <3>2
  <2>4. CASE attempt' = [attempt EXCEPT ![d] = Offered(@)] /\ hb' = [Stamp(hb, d) EXCEPT ![h].pc = "releases"]
    <3>1. InWindow' \subseteq InWindow \cup {d}
      BY <2>4, TypeParts DEF InWindow
    <3>2. /\ Stamp(hb, d) \in [Handler -> Handlers]
          /\ \A e \in Handler :
                /\ Stamp(hb, d)[e].pc = hb[e].pc /\ Stamp(hb, d)[e].counted = hb[e].counted
                /\ hb[e].later \subseteq Stamp(hb, d)[e].later
                /\ hb[e].pc \in {"queued", "counts", "decides"} => d \in Stamp(hb, d)[e].later
      BY <1>0, <2>1, StampTypes
    <3>3. g # h /\ hb'[g] = Stamp(hb, d)[g]
      BY <2>4, <3>2 DEF Handlers
    <3>4. /\ hb[g].pc = "decides" /\ hb'[g].counted = hb[g].counted
          /\ hb[g].later \subseteq hb'[g].later /\ d \in hb'[g].later
      BY <3>2, <3>3
    <3> QED BY <1>1, <3>1, <3>4
  <2> QED BY <2>2, <2>3, <2>4
<1> QED BY <1>2, <1>3, <1>4, <1>5

LEMMA BackedStep == TypeOK /\ CountInv /\ BackedInv /\ [Next]_vars => BackedInv'
<1> SUFFICES ASSUME TypeOK, CountInv, BackedInv, [Next]_vars PROVE BackedInv'
  OBVIOUS
<1>0. /\ InWindow \subseteq Device /\ Reserved \subseteq Device /\ Slots \subseteq Device
      /\ InWindow' \subseteq Device /\ Reserved' \subseteq Device /\ Slots' \subseteq Device
      /\ Cap \in Nat
  BY RolloutAssumption DEF InWindow, Reserved, Slots
<1>1. ASSUME Slots' \ unbacked' \subseteq Slots \ unbacked PROVE BackedInv'
  <2>1. Slots \ unbacked \subseteq Device
    BY <1>0
  <2>2. /\ Cardinality(Slots' \ unbacked') <= Cardinality(Slots \ unbacked)
        /\ Cardinality(Slots' \ unbacked') \in Nat /\ Cardinality(Slots \ unbacked) \in Nat
    BY <1>1, <2>1, FewerDevices
  <2>3. Cardinality(Slots \ unbacked) <= Cap
    BY DEF BackedInv
  <2>4. Cardinality(Slots' \ unbacked') <= Cap
    BY ONLY <1>0, <2>2, <2>3
  <2> QED BY <2>4 DEF BackedInv
<1>2. CASE \A h \in Handler : ~CountOffers(h) /\ ~DecideSlot(h) /\ ~RecordOffer(h)
  <2>1. Quiet
    BY <1>2, QuietSteps
  <2> QED BY <1>1, <2>1 DEF Quiet, Slots
<1>3. ASSUME NEW h \in Handler, CountOffers(h) PROVE BackedInv'
  <2>1. UNCHANGED <<attempt, reservation, unbacked>>
    BY <1>3 DEF CountOffers, rolloutVars
  <2> QED BY <1>1, <2>1 DEF Slots, InWindow, Reserved
<1>4. ASSUME NEW h \in Handler, RecordOffer(h) PROVE BackedInv'
  <2> DEFINE d == DeviceOf(h)
  <2>1. \/ attempt' = attempt /\ unbacked' = unbacked
        \/ /\ attempt' = [attempt EXCEPT ![d] = Offered(@)]
           /\ unbacked' = IF reservation[d] = "no" THEN unbacked \cup {d} ELSE unbacked
    BY <1>4 DEF RecordOffer
  <2>2. reservation' = reservation /\ d \in Device
    BY <1>4, RolloutAssumption DEF RecordOffer, rolloutVars, DeviceOf
  <2> HIDE DEF d
  <2>3. Reserved' = Reserved
    BY <2>2 DEF Reserved
  <2>4. InWindow' \subseteq InWindow \cup {d}
    BY <2>1, TypeParts DEF InWindow
  <2>5. attempt' = attempt => InWindow' = InWindow
    BY DEF InWindow
  <2>6. reservation[d] # "no" => d \in Reserved
    BY <2>2 DEF Reserved
  <2>7. Slots' \ unbacked' \subseteq Slots \ unbacked
    BY <2>1, <2>3, <2>4, <2>5, <2>6 DEF Slots
  <2> QED BY <1>1, <2>7
<1>5. ASSUME NEW h \in Handler, DecideSlot(h) PROVE BackedInv'
  <2> DEFINE d == DeviceOf(h)
             room == HasRoom(hb[h].counted, Cardinality(Reserved))
  <2>1. /\ hb[h].pc = "decides" /\ attempt' = attempt /\ d \in Device
        /\ \/ /\ room /\ reservation' = [reservation EXCEPT ![d] = "live"]
              /\ unbacked' = IF hb[h].later \cap Device # {} THEN unbacked \cup {d} ELSE unbacked \ {d}
           \/ UNCHANGED <<reservation, unbacked>>
    BY <1>5, RolloutAssumption DEF DecideSlot, DeviceOf
  <2> HIDE DEF d
  <2>2. InWindow' = InWindow
    BY <2>1 DEF InWindow
  <2>3. CASE UNCHANGED <<reservation, unbacked>>
    BY <1>1, <2>2, <2>3 DEF Slots, Reserved
  <2>4. CASE /\ room /\ reservation' = [reservation EXCEPT ![d] = "live"]
             /\ unbacked' = IF hb[h].later \cap Device # {} THEN unbacked \cup {d} ELSE unbacked \ {d}
    <3>1. Reserved' \subseteq Reserved \cup {d}
      BY <2>4 DEF Reserved, TypeOK
    <3>2. CASE hb[h].later \cap Device # {}
      BY <1>1, <2>2, <2>4, <3>1, <3>2 DEF Slots
    <3>3. CASE hb[h].later \cap Device = {}
      <4>1. InWindow \ hb[h].later = InWindow
        BY <1>0, <3>3
      <4>2. /\ Cardinality(InWindow) <= hb[h].counted /\ hb[h].counted \in Nat
            /\ hb[h].counted + Cardinality(Reserved) < Cap
        BY <2>1, <2>4, <4>1, TypeParts DEF CountInv, HasRoom, Handlers
      <4>3. /\ IsFiniteSet(InWindow) /\ Cardinality(InWindow) \in Nat
            /\ IsFiniteSet(Reserved) /\ Cardinality(Reserved) \in Nat
        BY <1>0, FewerDevices
      <4>4. /\ IsFiniteSet(InWindow \cup Reserved)
            /\ Cardinality(InWindow \cup Reserved) <= Cardinality(InWindow) + Cardinality(Reserved)
            /\ Cardinality(InWindow \cup Reserved) \in Nat
        <5>1. /\ IsFiniteSet(InWindow \cup Reserved)
              /\ Cardinality(InWindow \cup Reserved) =
                   Cardinality(InWindow) + Cardinality(Reserved) - Cardinality(InWindow \cap Reserved)
          BY <4>3, FS_Union
        <5>2. Cardinality(InWindow \cap Reserved) \in Nat
          BY <4>3, FS_Intersection, FS_CardinalityType
        <5>3. Cardinality(InWindow \cup Reserved) \in Nat
          BY <5>1, FS_CardinalityType
        <5> QED BY ONLY <4>3, <5>1, <5>2, <5>3
      <4>5. /\ Cardinality(InWindow \cup Reserved \cup {d}) \in Nat
            /\ Cardinality(InWindow \cup Reserved \cup {d}) <= Cardinality(InWindow \cup Reserved) + 1
        <5>1. /\ IsFiniteSet(InWindow \cup Reserved \cup {d})
              /\ Cardinality(InWindow \cup Reserved \cup {d}) =
                   IF d \in InWindow \cup Reserved THEN Cardinality(InWindow \cup Reserved)
                                                 ELSE Cardinality(InWindow \cup Reserved) + 1
          BY <4>4, FS_AddElement
        <5> QED BY <4>4, <5>1
      <4>6. /\ Cardinality(Slots' \ unbacked') <= Cardinality(InWindow \cup Reserved \cup {d})
            /\ Cardinality(Slots' \ unbacked') \in Nat
        <5>1. Slots' \ unbacked' \subseteq InWindow \cup Reserved \cup {d}
          BY <2>2, <3>1 DEF Slots
        <5>2. InWindow \cup Reserved \cup {d} \subseteq Device
          BY <1>0, <2>1
        <5> QED BY <5>1, <5>2, FewerDevices
      <4>7. Cardinality(Slots' \ unbacked') <= Cap
        BY ONLY <1>0, <4>2, <4>3, <4>4, <4>5, <4>6
      <4> QED BY <4>7 DEF BackedInv
    <3> QED BY <3>2, <3>3
  <2> QED BY <2>1, <2>3, <2>4
<1> QED BY <1>2, <1>3, <1>4, <1>5

\* The offers of the window and the slots promised to frames on their way
\* never exceed the cap but by the slots that reserveRolloutSlot granted on a
\* count older than another offer, and the offers counted after their
\* reservation had gone.
THEOREM CapIsAccounted == Spec => []CapAccounted
<1>1. Init => CountInv /\ BackedInv
  <2> SUFFICES ASSUME Init PROVE CountInv /\ BackedInv
    OBVIOUS
  <2>1. CountInv
    BY DEF Init, CountInv, Idle
  <2>2. Slots \ unbacked = {}
    BY DEF Init, Slots, InWindow, Reserved, NoRow
  <2>3. Cardinality(Slots \ unbacked) = 0
    BY <2>2, FS_EmptySet
  <2> QED BY <2>1, <2>3, RolloutAssumption DEF BackedInv
<1>2. TypeOK /\ BackedInv => CapAccounted
  <2> SUFFICES ASSUME TypeOK, BackedInv PROVE CapAccounted
    OBVIOUS
  <2>1. Slots \subseteq Device
    BY DEF Slots, InWindow, Reserved
  <2>2. IsFiniteSet(Slots) /\ Cardinality(Slots) \in Nat
    BY <2>1, FewerDevices
  <2>3. Cardinality(Slots \ unbacked) = Cardinality(Slots) - Cardinality(Slots \cap unbacked)
    BY <2>2, FS_Difference
  <2>4. Cardinality(Slots \cap unbacked) \in Nat
    BY <2>2, FS_Intersection, FS_CardinalityType
  <2>5. Slots \cap unbacked = unbacked \cap Slots
    OBVIOUS
  <2>6. Cardinality(Slots) - Cardinality(Slots \cap unbacked) <= Cap /\ Cap \in Nat
    BY <2>3, RolloutAssumption DEF BackedInv
  <2>7. Cardinality(Slots) <= Cap + Cardinality(Slots \cap unbacked)
    BY ONLY <2>2, <2>4, <2>6
  <2> QED BY <2>5, <2>7 DEF CapAccounted
<1> QED BY <1>1, <1>2, LockedAndTyped, CountStep, BackedStep, PTL DEF Spec

=============================================================================
