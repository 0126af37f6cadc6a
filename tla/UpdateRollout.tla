--------------------------- MODULE UpdateRollout ---------------------------
(***************************************************************************)
(* How the server paces agent updates (agentUpdateRollout.service.ts and   *)
(* the update part of agent.service.ts). A heartbeat handler reads its     *)
(* device, decides whether to advertise the served version, takes a slot   *)
(* of the fleet-wide window, writes the config frame and then counts the   *)
(* offer in agent_update_attempts. Handlers run concurrently: from the     *)
(* reading of the attempt on, every await is a step boundary (what comes   *)
(* before, reading the device and reconciling it, is one step).            *)
(* Administrators request, cancel, freeze and suspend, one at a time;      *)
(* agents download, report, come back updated or reverted.                 *)
(*                                                                         *)
(* One served version ("new") is modelled. Clocks are abstracted to the    *)
(* thresholds the code compares them with: each threshold passing is a     *)
(* step of its own, in the order of their lengths (an offer leaves the     *)
(* 60 s window before its 10 min spacing ends).                            *)
(***************************************************************************)
EXTENDS Integers, Sequences, FiniteSets

CONSTANTS
    Device,
    Handler,      \* heartbeat handlers, <<device, path>>, path "ws" or "http"
    Cap,          \* UPDATE_ROLLOUT_MAX_PER_WINDOW
    MaxOffers,    \* UPDATE_REQUEST_MAX_OFFERS
    StartPolicy,  \* the resolved policy of each device at first
    Updaters,     \* bound: the agents that act on an offer; the others ignore it
    Kinds,        \* bound: the kinds of event that happen. "admin": requests, policy
                  \* and status changes; "fault": updates that fail or revert,
                  \* failing statements and writes, slow frames, restarts
    MaxEvents     \* bound: how many of them happen

ASSUME RolloutAssumption ==
    /\ IsFiniteSet(Device) /\ "full" \notin Device
    /\ Handler \subseteq Device \X {"ws", "http"}
    /\ Cap \in Nat \ {0} /\ MaxOffers \in Nat \ {0}
    /\ StartPolicy \in [Device -> {"auto", "manual", "off"}]
    /\ Updaters \subseteq Device /\ Kinds \subseteq {"admin", "fault"} /\ MaxEvents \in Nat

VARIABLES
    device,       \* agent_devices: policy, approved, known (stored agent_version)
    request,      \* the pending "Update now" of each device
    attempt,      \* agent_update_attempts, the row of the served version
    reservation,  \* the reservations map: "no", "live" or "expired"
    windowFull,   \* windowFullAt: "no", "fresh" (< FULL_RECHECK_MS) or "stale"
    slotLock,     \* handlers waiting for or holding the slot lock, in order
    hb,           \* the heartbeat handlers
    version,      \* the version each agent runs
    agent,        \* "idle" or "updating"
    report,       \* the update_status or notify-updating being handled
    admin,        \* the administrator operation under way
    events,
    \* History
    unbacked      \* slots granted while another offer was counted, or
                  \* used after their reservation was gone

rolloutVars == <<reservation, windowFull, slotLock>>
agentVars == <<version, agent, report>>
vars == <<device, request, attempt, rolloutVars, hb, agentVars, admin, events,
          unbacked>>

Policies == {"auto", "manual", "off"}
NoRequest == [click |-> 0, expired |-> FALSE]
NoRow == [phase |-> "none", count |-> 0, offered |-> "never", age |-> "new", reopened |-> FALSE]
Idle == [pc |-> "idle", click |-> 0, later |-> {}, counted |-> 0]
NoAdmin == [op |-> "none", who |-> {}]

May(kind) == kind \in Kinds /\ events < MaxEvents

\* downloading and verifying, then installing and restarting
Progress == {"downloading", "installing"}
Open == {"offered"} \cup Progress
Closed == {"succeeded", "cancelled"}    \* a later offer starts a fresh budget
Phases == {"none", "failed"} \cup Open \cup Closed

DeviceOf(h) == h[1]

\* The row as a statement leaves it: updated_at is now.
Written(row, phase) == [row EXCEPT !.phase = phase, !.age = "new", !.reopened = FALSE]

\* The offers of the window, as countRolloutOffersInWindow would see them now.
InWindow == {d \in Device : attempt[d].offered = "window"}
Reserved == {d \in Device : reservation[d] # "no"}

\* A clock written now is later than the one these handlers hold.
Stamp(handlers, what) ==
    [h \in Handler |-> IF handlers[h].pc \in {"queued", "counts", "decides"}
                       THEN [handlers[h] EXCEPT !.later = @ \cup {what}] ELSE handlers[h]]

Init ==
    /\ device = [d \in Device |-> [policy |-> StartPolicy[d], approved |-> TRUE, known |-> "old"]]
    /\ request = [d \in Device |-> NoRequest]
    /\ attempt = [d \in Device |-> NoRow]
    /\ reservation = [d \in Device |-> "no"]
    /\ windowFull = "no" /\ slotLock = <<>>
    /\ hb = [h \in Handler |-> Idle]
    /\ version = [d \in Device |-> "old"]
    /\ agent = [d \in Device |-> "idle"]
    /\ report = [d \in Device |-> "none"]
    /\ admin = NoAdmin
    /\ events = 0
    /\ unbacked = {}

(***************************************************************************)
(* The first half of handlePush: the device row is read, a request that    *)
(* can no longer be honoured is closed, the attempt takes its outcome.     *)
(***************************************************************************)

\* reconcileUpdateRequest clears the request it read, on what it read.
RequestIsOver(d, reported) ==
    \/ ~device[d].approved
    \/ device[d].policy = "off"
    \/ reported = "new"
    \/ request[d].expired

\* Fault: only the attempts still under way are looked at.
ReconciledOpenOnly(row, reported, path) ==
    IF row.phase \in Open /\ reported = "new" THEN Written(row, "succeeded")
    ELSE IF row.phase = "installing" /\ row.reopened THEN Written(row, "failed")
    ELSE row

\* reconcileUpdateAttempts: succeeded once the agent reports the version;
\* failed when it came back on the old one after installing.
Reconciled(row, reported, path) ==
    IF row.phase \notin {"none", "succeeded"} /\ reported = "new" THEN Written(row, "succeeded")
    ELSE IF row.phase = "installing" /\ (IF path = "ws" THEN row.reopened ELSE row.age # "new")
         THEN Written(row, "failed")
    ELSE row

\* shouldAdvertiseUpdate on the row read here.
Advertises(d, reported, requestLive) ==
    /\ device[d].approved /\ reported = "old"
    /\ device[d].policy = "auto" \/ (device[d].policy = "manual" /\ requestLive)

\* conn.queue: not while a status of the channel is handled; an agent that
\* came back has a new channel.
HeartbeatTurn(h) ==
    LET d == DeviceOf(h)
    IN  h[2] = "ws" => report[d] # "failed" /\ (report[d] \in Progress => agent[d] = "idle")

Begin(h) ==
    LET d == DeviceOf(h)
        over == request[d].click # 0 /\ RequestIsOver(d, version[d])
        click == IF over THEN 0 ELSE request[d].click
    IN  /\ hb[h].pc = "idle" /\ HeartbeatTurn(h)
        /\ device' = [device EXCEPT ![d].known = version[d]]
        /\ request' = [request EXCEPT ![d] = IF over THEN NoRequest ELSE @]
        /\ attempt' = [attempt EXCEPT ![d] = IF device[d].approved
                                             THEN Reconciled(@, version[d], h[2]) ELSE @]
        /\ hb' = [hb EXCEPT ![h] =
                   IF Advertises(d, version[d], click # 0)
                   THEN [Idle EXCEPT !.pc = "begun", !.click = click]
                   ELSE Idle]
        /\ UNCHANGED <<rolloutVars, agentVars, admin, events, unbacked>>

(***************************************************************************)
(* resolveAdvertisedVersion, with the device read by Begin.                *)
(***************************************************************************)

TooSoon(row) == row.offered \in {"window", "spacing"}

InFlight(row) == row.phase \in Progress /\ row.age # "stuck"

HasBudget(row) == row.phase \in Closed \cup {"none"} \/ row.count < MaxOffers

\* The clock is read and the attempt selected: not now, give up, or take a slot.
ReadAttempt(h) ==
    LET row == attempt[DeviceOf(h)]
    IN  /\ hb[h].pc = "begun"
        /\ \/ /\ TooSoon(row) \/ InFlight(row)
              /\ hb' = [hb EXCEPT ![h] = Idle]
              /\ UNCHANGED slotLock
           \/ /\ ~TooSoon(row) /\ ~InFlight(row) /\ HasBudget(row)
              /\ hb' = [hb EXCEPT ![h] = [Idle EXCEPT !.pc = "queued"]]
              /\ slotLock' = Append(slotLock, h)
           \/ /\ ~TooSoon(row) /\ ~InFlight(row) /\ ~HasBudget(row)
              /\ hb' = [hb EXCEPT ![h].pc = "givesUp"]
              /\ UNCHANGED slotLock
        /\ UNCHANGED <<device, request, attempt, reservation, windowFull, agentVars, admin,
                       events, unbacked>>

\* The budget was spent when the attempt was read: it is failed.
GiveUpAttempt(h) ==
    LET d == DeviceOf(h)
    IN  /\ hb[h].pc = "givesUp"
        /\ attempt' = [attempt EXCEPT ![d] = IF @.phase \in Open THEN Written(@, "failed") ELSE @]
        /\ hb' = [hb EXCEPT ![h].pc = "clears"]
        /\ UNCHANGED <<device, request, rolloutVars, agentVars, admin, events,
                       unbacked>>

\* clearUpdateRequestIfUnchanged: the request read by Begin, not a newer one.
ClearsRequest(d, click) == click # 0 /\ request[d].click = click

GiveUpRequest(h) ==
    LET d == DeviceOf(h)
    IN  /\ hb[h].pc = "clears"
        /\ request' = [request EXCEPT ![d] = IF ClearsRequest(d, hb[h].click) THEN NoRequest ELSE @]
        /\ hb' = [hb EXCEPT ![h] = Idle]
        /\ UNCHANGED <<device, attempt, rolloutVars, agentVars, admin, events,
                       unbacked>>

(***************************************************************************)
(* reserveRolloutSlot: one handler at a time inside the lock.              *)
(***************************************************************************)

Granted(h, handlers) == [handlers EXCEPT ![h] = [Idle EXCEPT !.pc = IF h[2] = "ws" THEN "writes" ELSE "records"]]

\* purgeReservations
Purged(r) == [e \in Device |-> IF r[e] = "expired" THEN "no" ELSE r[e]]

\* Fault: once full, the window is never counted again.
KnownFullForever(h) == windowFull # "no"

\* windowFullAt is at most this handler's clock and less than a second old.
KnownFull(h) == windowFull = "fresh" /\ "full" \notin hb[h].later

\* After the purge: a reservation of its own device, the "full" answer of
\* less than a second ago, or the count.
EnterSlot(h) ==
    LET d == DeviceOf(h)
        kept == Purged(reservation)
    IN  /\ slotLock # <<>> /\ Head(slotLock) = h /\ hb[h].pc = "queued"
        /\ \/ /\ kept[d] # "no"
              /\ reservation' = kept
              /\ hb' = Granted(h, hb)
              /\ slotLock' = Tail(slotLock)
           \/ /\ kept[d] = "no"
              /\ KnownFull(h)
              /\ reservation' = kept
              /\ hb' = [hb EXCEPT ![h] = Idle]
              /\ slotLock' = Tail(slotLock)
           \/ /\ kept[d] = "no"
              /\ ~KnownFull(h)
              /\ reservation' = kept
              /\ hb' = [hb EXCEPT ![h].pc = "counts"]
              /\ UNCHANGED slotLock
        /\ UNCHANGED <<device, request, attempt, windowFull, agentVars, admin, events,
                       unbacked>>

\* countRolloutOffersInWindow: last_offered_at in the minute up to this
\* handler's clock; an offer stamped after that clock is not counted.
CountOffers(h) ==
    /\ hb[h].pc = "counts"
    /\ hb' = [hb EXCEPT ![h].pc = "decides",
                        ![h].counted = Cardinality(InWindow \ hb[h].later)]
    /\ UNCHANGED <<device, request, attempt, rolloutVars, agentVars, admin, events,
                   unbacked>>

\* A database error: nothing is advertised, the lock is passed on.
CountFails(h) ==
    /\ hb[h].pc = "counts" /\ May("fault")
    /\ events' = events + 1
    /\ hb' = [hb EXCEPT ![h] = Idle]
    /\ slotLock' = Tail(slotLock)
    /\ UNCHANGED <<device, request, attempt, reservation, windowFull, agentVars, admin,
                   unbacked>>

\* Fault: slots promised to frames not yet counted are forgotten.
RoomUnreserved(counted, reserved) == counted < Cap

\* rolloutWindowHasRoom
HasRoom(counted, reserved) == counted + reserved < Cap

\* The count came back: reservations.size is read now.
DecideSlot(h) ==
    LET d == DeviceOf(h)
        taken == Cardinality(Reserved)
    IN  /\ hb[h].pc = "decides"
        /\ slotLock' = Tail(slotLock)
        /\ \/ /\ HasRoom(hb[h].counted, taken)
              /\ reservation' = [reservation EXCEPT ![d] = "live"]
              /\ windowFull' = "no"
              /\ hb' = Granted(h, hb)
              /\ unbacked' = IF hb[h].later \cap Device # {} THEN unbacked \cup {d}
                             ELSE unbacked \ {d}
           \/ /\ ~HasRoom(hb[h].counted, taken)
              /\ windowFull' = "fresh"
              /\ hb' = Stamp([hb EXCEPT ![h] = Idle], "full")
              /\ UNCHANGED <<reservation, unbacked>>
        /\ UNCHANGED <<device, request, attempt, agentVars, admin, events>>

(***************************************************************************)
(* The offer: a WS frame is written, then counted; an HTTP answer carries  *)
(* the version only when the offer was counted.                            *)
(***************************************************************************)

\* startUpdateIfNewer: an agent of the served version ignores it.
AfterOffer(d) == IF version[d] = "old" /\ d \in Updaters THEN "updating" ELSE agent[d]

\* _send wrote the config frame; the agent may start the update.
WriteFrame(h) ==
    /\ hb[h].pc = "writes"
    /\ hb' = [hb EXCEPT ![h].pc = "records"]
    /\ agent' = [agent EXCEPT ![DeviceOf(h)] = AfterOffer(DeviceOf(h))]
    /\ UNCHANGED <<device, request, attempt, rolloutVars, version, report, admin, events,
                   unbacked>>

\* The channel is gone: nothing is counted and nothing releases the slot.
WriteFails(h) ==
    /\ hb[h].pc = "writes" /\ May("fault")
    /\ events' = events + 1
    /\ hb' = [hb EXCEPT ![h] = Idle]
    /\ UNCHANGED <<device, request, attempt, rolloutVars, agentVars, admin,
                   unbacked>>

\* Fault: the upsert checks the spacing only.
CountableSpaced(row) == row.offered \in {"never", "free"}

\* The condition of recordUpdateOffer's upsert.
Countable(row) ==
    /\ row.offered \in {"never", "free"}
    /\ row.phase \in Closed \/ row.count < MaxOffers

\* The upsert itself: the conflicting row is updated, or left alone.
Offered(row) ==
    [phase |-> "offered", offered |-> "window", age |-> "new", reopened |-> FALSE,
     count |-> IF row.phase \in Closed THEN 1 ELSE row.count + 1]

RecordOffer(h) ==
    LET d == DeviceOf(h)
        counted == Countable(attempt[d])
    IN  /\ hb[h].pc = "records"
        /\ \/ /\ counted
              /\ attempt' = [attempt EXCEPT ![d] = Offered(@)]
              /\ hb' = [Stamp(hb, d) EXCEPT ![h].pc = "releases"]
              /\ agent' = [agent EXCEPT ![d] = IF h[2] = "http" THEN AfterOffer(d) ELSE @]
              /\ unbacked' = IF reservation[d] = "no" THEN unbacked \cup {d} ELSE unbacked
              /\ UNCHANGED events
           \/ /\ ~counted
              /\ hb' = [hb EXCEPT ![h].pc = "releases"]
              /\ UNCHANGED <<attempt, agent, unbacked, events>>
           \/ /\ May("fault")    \* the statement fails
              /\ events' = events + 1
              /\ hb' = [hb EXCEPT ![h].pc = "releases"]
              /\ UNCHANGED <<attempt, agent, unbacked>>
        /\ UNCHANGED <<device, request, rolloutVars, version, report, admin>>

\* releaseRolloutSlot, in the finally block.
ReleaseSlot(h) ==
    /\ hb[h].pc = "releases"
    /\ reservation' = [reservation EXCEPT ![DeviceOf(h)] = "no"]
    /\ hb' = [hb EXCEPT ![h] = Idle]
    /\ UNCHANGED <<device, request, attempt, windowFull, slotLock, agentVars, admin, events,
                   unbacked>>

(***************************************************************************)
(* Thresholds passing.                                                     *)
(***************************************************************************)

\* FULL_RECHECK_MS since the window was found full.
FullAnswerAges ==
    /\ windowFull = "fresh"
    /\ windowFull' = "stale"
    /\ UNCHANGED <<device, request, attempt, reservation, slotLock, hb, agentVars, admin,
                   events, unbacked>>

\* UPDATE_ROLLOUT_RESERVATION_MS since a slot was reserved. A frame usually
\* takes far less; a slow one is a fault.
InHand(d) == \E h \in Handler : DeviceOf(h) = d /\ hb[h].pc \in {"writes", "records", "releases"}

ReservationExpires(d) ==
    /\ reservation[d] = "live"
    /\ InHand(d) => May("fault")
    /\ events' = IF InHand(d) THEN events + 1 ELSE events
    /\ reservation' = [reservation EXCEPT ![d] = "expired"]
    /\ UNCHANGED <<device, request, attempt, windowFull, slotLock, hb, agentVars, admin,
                   unbacked>>

\* UPDATE_ROLLOUT_WINDOW_MS, then UPDATE_OFFER_MIN_INTERVAL_MS since an offer.
OfferAges(d) ==
    /\ attempt[d].offered \in {"window", "spacing"}
    /\ attempt' = [attempt EXCEPT ![d].offered = IF @ = "window" THEN "spacing" ELSE "free"]
    /\ UNCHANGED <<device, request, rolloutVars, hb, agentVars, admin, events,
                   unbacked>>

\* Two minutes, then UPDATE_ATTEMPT_TIMEOUT_MS since the row was written.
RowAges(d) ==
    /\ attempt[d].phase \in Progress /\ attempt[d].age # "stuck"
    /\ attempt' = [attempt EXCEPT ![d].age = IF @ = "new" THEN "settled" ELSE "stuck"]
    /\ UNCHANGED <<device, request, rolloutVars, hb, agentVars, admin, events,
                   unbacked>>

\* AGENT_UPDATE_REQUEST_TTL_MS since the click.
RequestExpires(d) ==
    /\ request[d].click # 0 /\ ~request[d].expired
    /\ request' = [request EXCEPT ![d].expired = TRUE]
    /\ UNCHANGED <<device, attempt, rolloutVars, hb, agentVars, admin, events,
                   unbacked>>

\* cleanupStuckUpdating
CleanupStuck(d) ==
    /\ attempt[d].phase \in Progress /\ attempt[d].age = "stuck"
    /\ attempt' = [attempt EXCEPT ![d] = Written(@, "failed")]
    /\ UNCHANGED <<device, request, rolloutVars, hb, agentVars, admin, events,
                   unbacked>>

(***************************************************************************)
(* The agent: it reports its progress, then comes back updated or not.     *)
(***************************************************************************)

\* Fault: a late report reopens an update that succeeded.
ReportedAlways(row, phase) == Written(row, phase)

\* applyUpdateStatus: a succeeded attempt is never reopened.
Reported(row, phase) == IF row.phase = "succeeded" THEN row ELSE Written(row, phase)

\* applyUpdateStatus starts (conn.queue: not during a heartbeat of the
\* channel) and finds the device approved.
StatusTurn(d) ==
    /\ agent[d] = "updating" /\ report[d] = "none" /\ device[d].approved
    /\ <<d, "ws">> \in Handler /\ hb[<<d, "ws">>].pc = "idle"

UpdateStatus(d) ==
    /\ StatusTurn(d)
    /\ \E phase \in Progress : report' = [report EXCEPT ![d] = phase]
    /\ UNCHANGED <<device, request, attempt, rolloutVars, hb, version, agent, admin, events, unbacked>>

\* The agent gives up and says so.
UpdateFails(d) ==
    /\ StatusTurn(d) /\ May("fault")
    /\ events' = events + 1
    /\ agent' = [agent EXCEPT ![d] = "idle"]
    /\ report' = [report EXCEPT ![d] = "failed"]
    /\ UNCHANGED <<device, request, attempt, rolloutVars, hb, version, admin, unbacked>>

\* setDeviceUpdating, the HTTP call of older agents before they restart: it
\* looks for an open attempt, or else reports for the served version.
NotifyUpdating(d) ==
    LET found == attempt[d].phase \in {"offered", "downloading"}
    IN  /\ agent[d] = "updating" /\ report[d] = "none"
        /\ found \/ (device[d].known = "old" /\ device[d].approved)
        /\ report' = [report EXCEPT ![d] = IF found THEN "notified" ELSE "notified none"]
        /\ UNCHANGED <<device, request, attempt, rolloutVars, hb, version, agent, admin, events, unbacked>>

\* The statement of applyUpdateStatus; setDeviceUpdating updates the row it
\* found by its id, whatever became of it.
ApplyStatus(d) ==
    /\ report[d] # "none"
    /\ attempt' = [attempt EXCEPT ![d] =
                     CASE report[d] = "notified" -> Written(@, "installing")
                       [] report[d] = "notified none" -> Reported(@, "installing")
                       [] OTHER -> Reported(@, report[d])]
    /\ report' = [report EXCEPT ![d] = "none"]
    /\ UNCHANGED <<device, request, rolloutVars, hb, version, agent, admin, events, unbacked>>

\* The agent restarts and opens a new channel, on the new version or, after
\* a failed installation, on the old one.
AgentReturns(d, v) ==
    /\ agent[d] = "updating"
    /\ v = "old" => May("fault")
    /\ events' = IF v = "old" THEN events + 1 ELSE events
    /\ agent' = [agent EXCEPT ![d] = "idle"]
    /\ version' = [version EXCEPT ![d] = v]
    /\ attempt' = [attempt EXCEPT ![d].reopened = (@ \/ attempt[d].phase = "installing")]
    /\ UNCHANGED <<device, request, rolloutVars, hb, report, admin, unbacked>>

(***************************************************************************)
(* Administrators. Each operation is two statements.                       *)
(***************************************************************************)

\* requestUpdate (retryUpdate, updateAll and requestGroupUpdate go through
\* it): the request is stored, pinned to the served version...
RequestUpdate(d) ==
    /\ admin = NoAdmin /\ May("admin")
    /\ device[d].approved /\ device[d].known = "old" /\ device[d].policy # "off"
    /\ events' = events + 1
    /\ request' = [request EXCEPT ![d] = [click |-> events + 1, expired |-> FALSE]]
    /\ admin' = [op |-> "request", who |-> {d}]
    /\ UNCHANGED <<device, attempt, rolloutVars, hb, agentVars, unbacked>>

\* ... then the budget of the attempt is restored.
RestoreBudget ==
    /\ admin.op = "request"
    /\ attempt' = [d \in Device |->
                     IF d \in admin.who /\ attempt[d].phase \notin {"none", "succeeded"}
                     THEN [Written(attempt[d], "offered") EXCEPT !.count = 0] ELSE attempt[d]]
    /\ admin' = NoAdmin
    /\ UNCHANGED <<device, request, rolloutVars, hb, agentVars, events, unbacked>>

\* cancelUpdateRequests: the requests are cleared...
CancelRequests(ds) ==
    /\ admin = NoAdmin /\ ds # {}
    /\ \A d \in ds : request[d].click # 0
    /\ request' = [d \in Device |-> IF d \in ds THEN NoRequest ELSE request[d]]
    /\ admin' = [NoAdmin EXCEPT !.op = "close", !.who = ds]
    /\ UNCHANGED <<device, attempt, rolloutVars, hb, agentVars, events, unbacked>>

\* updateDevice, suspendDevice: freezing or suspending drops the request...
Freeze(d) ==
    /\ admin = NoAdmin /\ May("admin")
    /\ events' = events + 1
    /\ \/ device' = [device EXCEPT ![d].policy = "off"]
       \/ device' = [device EXCEPT ![d].approved = FALSE]
    /\ request' = [request EXCEPT ![d] = NoRequest]
    /\ admin' = [NoAdmin EXCEPT !.op = "close", !.who = {d}]
    /\ UNCHANGED <<attempt, rolloutVars, hb, agentVars, unbacked>>

\* ... then the open attempts are closed (cancelOpenAttempts).
CloseAttempts ==
    /\ admin.op = "close"
    /\ attempt' = [d \in Device |-> IF d \in admin.who /\ attempt[d].phase \in Open
                                    THEN Written(attempt[d], "cancelled") ELSE attempt[d]]
    /\ admin' = NoAdmin
    /\ UNCHANGED <<device, request, rolloutVars, hb, agentVars, events, unbacked>>

\* reinstateDevice, or a policy set back.
Unfreeze(d, policy) ==
    /\ admin = NoAdmin /\ May("admin")
    /\ policy # "off" /\ (~device[d].approved \/ device[d].policy # policy)
    /\ events' = events + 1
    /\ device' = [device EXCEPT ![d].policy = policy, ![d].approved = TRUE]
    /\ UNCHANGED <<request, attempt, rolloutVars, hb, agentVars, admin, unbacked>>

\* A restart forgets the map, the lock, the handlers and the operation under
\* way; the rows stay.
ServerRestart ==
    /\ May("fault")
    /\ events' = events + 1
    /\ reservation' = [d \in Device |-> "no"]
    /\ windowFull' = "no" /\ slotLock' = <<>>
    /\ hb' = [h \in Handler |-> Idle]
    /\ admin' = NoAdmin
    /\ report' = [d \in Device |-> "none"]
    /\ UNCHANGED <<device, request, attempt, version, agent, unbacked>>

\* A handler's steps, failures apart: it never waits for anything but the lock.
HeartbeatStep(h) ==
    \/ Begin(h) \/ ReadAttempt(h) \/ GiveUpAttempt(h) \/ GiveUpRequest(h)
    \/ EnterSlot(h) \/ CountOffers(h) \/ DecideSlot(h)
    \/ WriteFrame(h) \/ RecordOffer(h) \/ ReleaseSlot(h)

Heartbeat(h) == HeartbeatStep(h) \/ CountFails(h) \/ WriteFails(h)

Elapse ==
    \/ FullAnswerAges
    \/ \E d \in Device : ReservationExpires(d) \/ OfferAges(d) \/ RowAges(d) \/ RequestExpires(d)

AgentStep(d) ==
    \/ UpdateStatus(d) \/ UpdateFails(d) \/ ApplyStatus(d) \/ NotifyUpdating(d)
    \/ \E v \in {"old", "new"} : AgentReturns(d, v)

AdminStep ==
    \/ RestoreBudget \/ CloseAttempts
    \/ \E ds \in SUBSET Device : CancelRequests(ds)
    \/ \E d \in Device, p \in Policies :
          RequestUpdate(d) \/ Freeze(d) \/ Unfreeze(d, p)

Next ==
    \/ \E h \in Handler : Heartbeat(h)
    \/ Elapse
    \/ \E d \in Device : AgentStep(d) \/ CleanupStuck(d)
    \/ AdminStep
    \/ ServerRestart

Spec == Init /\ [][Next]_vars

\* Agents keep sending heartbeats, handlers run on, timers fire, the cleanup
\* job runs, an update that started ends and an operation that started is
\* completed.
Fairness ==
    /\ \A h \in Handler : WF_vars(HeartbeatStep(h))
    /\ WF_vars(FullAnswerAges)
    /\ \A d \in Device :
          /\ WF_vars(ReservationExpires(d)) /\ WF_vars(OfferAges(d)) /\ WF_vars(RowAges(d))
          /\ WF_vars(CleanupStuck(d))
          /\ WF_vars(ApplyStatus(d)) /\ WF_vars(AgentReturns(d, "new"))
    /\ WF_vars(RestoreBudget \/ CloseAttempts)

FairSpec == Spec /\ Fairness

(***************************************************************************)
(* Properties.                                                             *)
(***************************************************************************)

\* Every variable stays in its type, and a counted budget is never exceeded
\* (the condition of recordUpdateOffer's upsert).
TypeOK ==
    /\ device \in [Device -> [policy : Policies, approved : BOOLEAN, known : {"old", "new"}]]
    /\ request \in [Device -> [click : 0 .. MaxEvents, expired : BOOLEAN]]
    /\ attempt \in [Device -> [phase : Phases, count : 0 .. MaxOffers,
                               offered : {"never", "window", "spacing", "free"},
                               age : {"new", "settled", "stuck"}, reopened : BOOLEAN]]
    /\ reservation \in [Device -> {"no", "live", "expired"}]
    /\ windowFull \in {"no", "fresh", "stale"}
    /\ slotLock \in Seq(Handler)
    /\ hb \in [Handler -> [pc : {"idle", "begun", "givesUp", "clears", "queued", "counts", "decides",
                                "writes", "records", "releases"},
                          click : 0 .. MaxEvents,
                          later : SUBSET (Device \cup {"full"}), counted : Nat]]
    /\ version \in [Device -> {"old", "new"}]
    /\ agent \in [Device -> {"idle", "updating"}]
    /\ report \in [Device -> {"none", "failed", "notified", "notified none"} \cup Progress]
    /\ admin \in [op : {"none", "request", "close"}, who : SUBSET Device]
    /\ events \in 0 .. MaxEvents
    /\ unbacked \subseteq Device

\* The offers of the window and the slots promised to frames on their way.
Slots == InWindow \cup Reserved

\* The window and the reservations together hold at most the cap, but for the
\* slots granted while another offer was counted after the granting handler
\* read its clock, and the offers whose reservation was gone before they were
\* counted (reserveRolloutSlot, recordUpdateOffer).
CapAccounted == Cardinality(Slots) <= Cap + Cardinality(unbacked \cap Slots)

\* A succeeded attempt is only reopened by a new offer, or by a notification
\* that found it open before: no late report, cancellation, retry or cleanup
\* touches it.
SucceededStays ==
    [][\A d \in Device :
         attempt[d].phase = "succeeded" /\ attempt'[d].phase # "succeeded"
           => \/ attempt'[d].phase = "offered" /\ attempt'[d].offered = "window"
              \/ report[d] = "notified"]_vars

\* An outdated agent that may be updated and waits.
Waiting(d) ==
    /\ device[d].approved /\ device[d].policy = "auto"
    /\ version[d] = "old" /\ agent[d] = "idle"
    /\ HasBudget(attempt[d])

\* Nothing is lost by the cap: an agent never waits for ever, whatever slots
\* were leaked by frames that were never written.
EveryAgentOffered ==
    \A d \in Device : []<>(Waiting(d) => attempt[d].offered = "window")

\* An updated agent ends up recorded as updated, although late offers
\* and reports may write its row after it came back.
UpdateRecorded ==
    \A d \in Updaters :
        []<>(version[d] = "new" /\ device[d].approved => attempt[d].phase \in {"none", "succeeded"})
=============================================================================
