---------------------------- MODULE HubPresence ----------------------------
(***************************************************************************)
(* Presence of ONE agent device as the server sees it                      *)
(* (server/src/services/obliguardHub.service.ts, agent.service.ts).        *)
(*                                                                         *)
(* A channel is gated, registered in byDevice, possibly replaced, closed   *)
(* and unregistered; an unregistered channel starts a grace timer after an *)
(* await; the timer and the persisted sweep declare the agent offline (an  *)
(* open 'agent_offline' incident and a 'down' to the notification          *)
(* channels); register and every push recover it.  Each of these is an     *)
(* async function: a process here, whose steps lie between its awaits.     *)
(*                                                                         *)
(* One API key and one tenant.  The socket states are the readyState of    *)
(* the ws library: "open" is 1, "closing" 2, "closed" 3; disconnectWhere   *)
(* sets conn.closing and leaves "open" in one step.                        *)
(***************************************************************************)
EXTENDS Naturals

CONSTANTS
    Sockets,      \* the connections alive at a time, a finite set
    Http,         \* the carrier of an HTTP push, not a socket
    NoSocket,     \* byDevice has no entry
    MaxConnects,  \* bound on the connections the agent opens
    MaxFaults,    \* bound on failing statements and server restarts together
    MaxAdmin,     \* bound on approvals and tenant deletions
    MaxSuspends,  \* bound on suspensions
    MaxHttp       \* bound on HTTP pushes

ASSUME CarriersDiffer == Http \notin Sockets /\ NoSocket \notin Sockets
ASSUME BoundsAreNaturals ==
    /\ MaxConnects \in Nat /\ MaxFaults \in Nat /\ MaxAdmin \in Nat
    /\ MaxSuspends \in Nat /\ MaxHttp \in Nat

VARIABLES
    sock,      \* readyState of each socket, "gated" before it has one
    byDevice,  \* the hub's channel of the device
    dev,       \* the sockets whose conn.deviceId is set
    starting,  \* the sockets whose _startOfflineTimer still resolves its grace
    timer,     \* offlineTimers has the device
    presence,  \* _presence has the device
    overdue,   \* last_seen_at (or the sweep's start) is past grace and slack
    status,    \* agent_devices.status; "deleted" once the tenant's
               \* rows are gone, "revoked" once the hub knows
    incident,  \* an agent_offline row is open in live_alerts
    pc,        \* where each async function stands
    ui,        \* the last AGENT_STATUS_CHANGED the clients were sent
    count      \* how often the bounded events happened

vars == <<sock, byDevice, dev, starting, timer, presence, overdue, status,
          incident, pc, ui, count>>

Declarers == {"timer", "sweep"}
Carriers == Sockets \cup {Http}
Procs == ({"register"} \X Sockets) \cup ({"push"} \X Carriers)
           \cup ({"declare"} \X Declarers) \cup {<<"suspend", Http>>}

Gone == status \in {"deleted", "revoked"}
HubOpen == byDevice # NoSocket /\ sock[byDevice] = "open"

\* Connected, or inside the grace period.
IsConnected == HubOpen \/ timer

TypeOK ==
    /\ sock \in [Sockets -> {"gated", "open", "closing", "closed"}]
    /\ byDevice \in Sockets \cup {NoSocket}
    /\ dev \subseteq Sockets
    /\ starting \subseteq Sockets
    /\ timer \in BOOLEAN /\ presence \in BOOLEAN /\ overdue \in BOOLEAN
    /\ status \in {"pending", "approved", "suspended", "deleted", "revoked"}
    /\ incident \in BOOLEAN
    /\ pc \in [Procs -> {"idle", "drain", "recover", "announce", "presence",
                         "reply", "picked", "raise", "opened", "bumped", "close",
                         "emit", "resolve", "disconnect", "resolve again"}]
    /\ ui \in {"up", "down"}
    /\ count \in [connect : 0 .. MaxConnects, fail : 0 .. MaxFaults,
                  restart : 0 .. MaxFaults, admin : 0 .. MaxAdmin,
                  suspend : 0 .. MaxSuspends, http : 0 .. MaxHttp]

Init ==
    /\ sock = [s \in Sockets |-> "closed"]
    /\ byDevice = NoSocket
    /\ dev = {}
    /\ starting = {}
    /\ timer = FALSE /\ presence = FALSE /\ overdue = FALSE
    /\ status \in {"pending", "approved"}
    /\ incident = FALSE
    /\ pc = [p \in Procs |-> "idle"]
    /\ ui = "down"
    /\ count = [connect |-> 0, fail |-> 0, restart |-> 0, admin |-> 0,
                suspend |-> 0, http |-> 0]

Move(p, from, to) == pc[p] = from /\ pc' = [pc EXCEPT ![p] = to]

Bump(what, max) == count[what] < max /\ count' = [count EXCEPT ![what] = @ + 1]

Fault(what) ==
    /\ count.fail + count.restart < MaxFaults
    /\ count' = [count EXCEPT ![what] = @ + 1]

(***************************************************************************)
(* The channel.                                                            *)
(***************************************************************************)

\* The gate's verdict; the upgrade and register happen after it.  s stands
\* for a new connection once nothing of its last one is left.
Gate(s) ==
    /\ sock[s] = "closed" /\ s \notin starting
    /\ pc[<<"register", s>>] = "idle" /\ pc[<<"push", s>>] = "idle"
    /\ status \in {"pending", "approved"}
    /\ Bump("connect", MaxConnects)
    /\ sock' = [sock EXCEPT ![s] = "gated"]
    /\ UNCHANGED <<byDevice, dev, starting, timer, presence, overdue, status,
                   incident, pc, ui>>

\* An open socket that the new one displaces is closed.
Displaced(s) ==
    [sock EXCEPT ![s] = "open",
                 ![byDevice] = IF @ = "open" THEN "closing" ELSE @]

\* Fault: the gate's verdict is trusted.
RevokedNever == FALSE

\* revokedTenants refuses the upgrades in flight when a tenant is deleted.
Revoked == status = "revoked"

\* A pending offline timer is cancelled: the agent is back in time.
Register(s) ==
    /\ sock[s] = "gated"
    /\ ~Revoked
    /\ timer' = FALSE
    /\ sock' = IF byDevice = NoSocket THEN [sock EXCEPT ![s] = "open"]
               ELSE Displaced(s)
    /\ byDevice' = s
    /\ dev' = dev \ {s}
    /\ Move(<<"register", s>>, "idle", "drain")
    /\ UNCHANGED <<starting, presence, overdue, status, incident,
                   ui, count>>

RegisterRefused(s) ==
    /\ sock[s] = "gated"
    /\ Revoked
    /\ sock' = [sock EXCEPT ![s] = "closed"]
    /\ UNCHANGED <<byDevice, dev, starting, timer, presence, overdue, status,
                   incident, pc, ui, count>>

\* _drainPendingCommand caches the id of an approved device.
Drain(s) ==
    /\ Move(<<"register", s>>, "drain",
            IF status = "approved" THEN "recover" ELSE "idle")
    /\ dev' = IF status = "approved" THEN dev \cup {s} ELSE dev
    /\ UNCHANGED <<sock, byDevice, starting, timer, presence, overdue, status,
                   incident, ui, count>>

\* Its SELECT fails: logged, register goes on without a device id.
DrainFails(s) ==
    /\ Move(<<"register", s>>, "drain", "idle")
    /\ Fault("fail")
    /\ UNCHANGED <<sock, byDevice, dev, starting, timer, presence, overdue,
                   status, incident, ui>>

\* The network, the agent, the ping or the first-heartbeat deadline closes it.
Close(s) ==
    /\ sock[s] = "open"
    /\ sock' = [sock EXCEPT ![s] = "closing"]
    /\ UNCHANGED <<byDevice, dev, starting, timer, presence, overdue, status,
                   incident, pc, ui, count>>

\* Fault: any close removes the entry.
OwnsEntryAny(s) == byDevice # NoSocket

\* Only the channel byDevice holds is removed, a replaced one is not.
OwnsEntry(s) == byDevice = s

Unregister(s) ==
    /\ sock[s] = "closing"
    /\ sock' = [sock EXCEPT ![s] = "closed"]
    /\ byDevice' = IF OwnsEntry(s) THEN NoSocket ELSE byDevice
    /\ starting' = IF OwnsEntry(s) /\ s \in dev /\ ~Revoked
                   THEN starting \cup {s} ELSE starting
    /\ dev' = dev \ {s}
    /\ UNCHANGED <<timer, presence, overdue, status, incident, pc, ui,
                   count>>

\* Fault: no check after the await.
GraceStartsAlways == TRUE

\* The agent may have reconnected while the settings were resolved.
GraceStarts == ~HubOpen

\* A newer disconnect restarts the grace window: never two timers.
StartTimer ==
    /\ \E s \in starting : starting' = starting \ {s}
    /\ timer' = (timer \/ GraceStarts)
    /\ UNCHANGED <<sock, byDevice, dev, presence, overdue, status, incident,
                   pc, ui, count>>

(***************************************************************************)
(* The grace period expires.  It lasts checkIntervalSeconds times          *)
(* maxMissedPushes: every handler of the closed channel, and the           *)
(* declaration of an earlier outage, has ended by then (assumed timing).   *)
(***************************************************************************)
HandlersEnded ==
    \A p \in Procs \ {<<"declare", "sweep">>} : pc[p] = "idle"

TimerFires ==
    /\ timer
    /\ HandlersEnded
    /\ timer' = FALSE
    /\ IF Revoked
       THEN UNCHANGED <<presence, ui, pc>>
       ELSE /\ presence' = FALSE
            /\ ui' = "down"
            /\ pc' = [pc EXCEPT ![<<"declare", "timer">>] = "picked"]
    /\ UNCHANGED <<sock, byDevice, dev, starting, overdue, status, incident,
                   count>>

(***************************************************************************)
(* Declaring and recovering.                                               *)
(***************************************************************************)

\* The silence of an absent agent grows past grace and slack: longer than a
\* grace period, so a timer has fired and the handlers have ended (as above).
SilenceGrows ==
    /\ ~HubOpen /\ ~overdue
    /\ starting = {} /\ ~timer /\ HandlersEnded
    /\ overdue' = TRUE
    /\ UNCHANGED <<sock, byDevice, dev, starting, timer, presence, status,
                   incident, pc, ui, count>>

\* Fault: only agents seen since the server started are swept.
SweepDueSeen == status = "approved" /\ overdue /\ ~incident /\ presence

\* The rows sweepOffline selects: approved, silent, not declared yet.
SweepDue == status = "approved" /\ overdue /\ ~incident

\* sweepOffline's SELECT; the rows are then handled one by one.
SweepSelect ==
    /\ SweepDue
    /\ Move(<<"declare", "sweep">>, "idle", "picked")
    /\ UNCHANGED <<sock, byDevice, dev, starting, timer, presence, overdue,
                   status, incident, ui, count>>

\* declareOffline reads the row and skips a connected or unapproved device.
DeclareRead(d) ==
    /\ Move(<<"declare", d>>, "picked",
            IF status = "approved" /\ ~IsConnected THEN "raise" ELSE "idle")
    /\ UNCHANGED <<sock, byDevice, dev, starting, timer, presence, overdue,
                   status, incident, ui, count>>

\* raiseIncident, under the incident's advisory lock; a deleted tenant's row
\* is refused by the foreign key.
Raise(d) ==
    /\ Move(<<"declare", d>>, "raise",
            CASE Gone -> "idle"
              [] ~Gone /\ incident -> "bumped"
              [] OTHER -> "opened")
    /\ incident' = (incident \/ ~Gone)
    /\ UNCHANGED <<sock, byDevice, dev, starting, timer, presence, overdue,
                   status, ui, count>>

\* The transaction fails: logged, nothing is declared.
RaiseFails(d) ==
    /\ Move(<<"declare", d>>, "raise", "idle")
    /\ Fault("fail")
    /\ UNCHANGED <<sock, byDevice, dev, starting, timer, presence, overdue,
                   status, incident, ui>>

\* Fault: no second look, declareOffline ends with the raise.
AfterRaiseEnds(d) == "idle"

\* Where declareOffline goes after its second look at the channel.
AfterRaise(d) ==
    CASE IsConnected /\ pc[<<"declare", d>>] = "opened" -> "close"
      [] IsConnected /\ pc[<<"declare", d>>] = "bumped" -> "recover"
      [] ~IsConnected /\ pc[<<"declare", d>>] = "opened" /\ d = "sweep" -> "emit"
      [] OTHER -> "idle"

\* The sweep forgets the presence in the same turn as the new 'down'.
DeclareCheck(d) ==
    /\ pc[<<"declare", d>>] \in {"opened", "bumped"}
    /\ pc' = [pc EXCEPT ![<<"declare", d>>] = AfterRaise(d)]
    /\ presence' = (presence /\ AfterRaise(d) # "emit")
    /\ UNCHANGED <<sock, byDevice, dev, starting, timer, overdue, status,
                   incident, ui, count>>

\* The row this call opened was never announced: closed without an 'up'.
DeclareClose(d) ==
    /\ Move(<<"declare", d>>, "close", "idle")
    /\ incident' = FALSE
    /\ UNCHANGED <<sock, byDevice, dev, starting, timer, presence, overdue,
                   status, ui, count>>

\* The sweep emits 'down' after markChannelOffline.
SweepEmit ==
    /\ Move(<<"declare", "sweep">>, "emit", "idle")
    /\ ui' = "down"
    /\ UNCHANGED <<sock, byDevice, dev, starting, timer, presence, overdue,
                   status, incident, count>>

AfterRecover(p) == IF p[1] = "push" THEN "reply" ELSE "idle"

\* recoverOnline: resolveIncidents closes the row once.
Recover(p) ==
    /\ Move(p, "recover", IF incident THEN "announce" ELSE AfterRecover(p))
    /\ incident' = FALSE
    /\ UNCHANGED <<sock, byDevice, dev, starting, timer, presence, overdue,
                   status, ui, count>>

\* The statement fails: logged, the incident stays.
RecoverFails(p) ==
    /\ Move(p, "recover", AfterRecover(p))
    /\ Fault("fail")
    /\ UNCHANGED <<sock, byDevice, dev, starting, timer, presence, overdue,
                   status, incident, ui>>

\* The 'up' sent to the notification channels (abstracted), then the rest.
Announce(p) ==
    /\ Move(p, "announce", AfterRecover(p))
    /\ UNCHANGED <<sock, byDevice, dev, starting, timer, presence, overdue,
                   status, incident, ui, count>>

(***************************************************************************)
(* A push: a heartbeat frame of a socket, or an HTTP request of an agent   *)
(* that has no channel.                                                    *)
(***************************************************************************)
MayPush(c) == ~Gone /\ IF c = Http THEN ~HubOpen ELSE sock[c] = "open"

\* Fault: the answer to a refused push leaves the channel open.
PushRefusedNever == FALSE

\* The status handlePush answers 'refused' for; the hub closes the channel.
PushRefused == status = "suspended"

\* Refused: the channel is closed and its device id kept.  Pending: it has none.
PushStart(c) ==
    /\ MayPush(c)
    /\ IF c = Http THEN Bump("http", MaxHttp) ELSE UNCHANGED count
    /\ Move(<<"push", c>>, "idle",
            IF status = "approved" THEN "presence" ELSE "idle")
    /\ overdue' = FALSE
    /\ sock' = IF c # Http /\ PushRefused
               THEN [sock EXCEPT ![c] = "closing"] ELSE sock
    /\ dev' = IF status = "pending" THEN dev \ {c} ELSE dev
    /\ UNCHANGED <<byDevice, starting, timer, presence, status, incident, ui>>

\* Fault: the presence of a connected agent is never forgotten.
CameOnlineGap(gap) == gap /\ ~IsConnected

\* notePresence; without a channel a gap longer than the grace also counts.
CameOnline(gap) == ~presence \/ (gap /\ ~IsConnected)

PushPresence(c) ==
    \E gap \in BOOLEAN :
        /\ Move(<<"push", c>>, "presence",
                IF CameOnline(gap) THEN "recover" ELSE "reply")
        /\ presence' = TRUE
        /\ ui' = IF CameOnline(gap) THEN "up" ELSE ui
        /\ UNCHANGED <<sock, byDevice, dev, starting, timer, overdue, status,
                       incident, count>>

\* The hub caches the device id if it has none.
PushReply(c) ==
    /\ Move(<<"push", c>>, "reply", "idle")
    /\ dev' = IF c # Http /\ status = "approved" THEN dev \cup {c} ELSE dev
    /\ UNCHANGED <<sock, byDevice, starting, timer, presence, overdue, status,
                   incident, ui, count>>

(***************************************************************************)
(* The administrator and the server process.                               *)
(***************************************************************************)
Approve ==
    /\ status \in {"pending", "suspended"}
    /\ pc[<<"suspend", Http>>] = "idle"
    /\ Bump("admin", MaxAdmin)
    /\ status' = "approved"
    /\ UNCHANGED <<sock, byDevice, dev, starting, timer, presence, overdue,
                   incident, pc, ui>>

Suspend ==
    /\ status = "approved"
    /\ Bump("suspend", MaxSuspends)
    /\ Move(<<"suspend", Http>>, "idle", "resolve")
    /\ status' = "suspended"
    /\ UNCHANGED <<sock, byDevice, dev, starting, timer, presence, overdue,
                   incident, ui>>

CloseChannel ==
    IF HubOpen THEN [sock EXCEPT ![byDevice] = "closing"] ELSE sock

\* resolveDeviceIncidents, called by suspendDevice and again by updateDevice.
SuspendResolve ==
    /\ \/ Move(<<"suspend", Http>>, "resolve", "disconnect")
       \/ Move(<<"suspend", Http>>, "resolve again", "idle")
    /\ incident' = FALSE
    /\ UNCHANGED <<sock, byDevice, dev, starting, timer, presence, overdue,
                   status, ui, count>>

\* updateDevice in between: disconnectDevice.
SuspendDisconnect ==
    /\ Move(<<"suspend", Http>>, "disconnect", "resolve again")
    /\ sock' = CloseChannel
    /\ UNCHANGED <<byDevice, dev, starting, timer, presence, overdue, status,
                   incident, ui, count>>

\* deleteWithData: rows, incidents and keys go with the tenant.
DeleteTenant ==
    /\ ~Gone
    /\ pc[<<"suspend", Http>>] = "idle"
    /\ Bump("admin", MaxAdmin)
    /\ status' = "deleted"
    /\ incident' = FALSE
    /\ UNCHANGED <<sock, byDevice, dev, starting, timer, presence, overdue, pc,
                   ui>>

CloseByTenant ==
    /\ status = "deleted"
    /\ status' = "revoked"
    /\ sock' = CloseChannel
    /\ UNCHANGED <<byDevice, dev, starting, timer, presence, overdue, incident,
                   pc, ui, count>>

\* Memory and sockets are lost; the sweep measures from the start again.
ServerRestart ==
    /\ Fault("restart")
    /\ sock' = [s \in Sockets |-> "closed"]
    /\ byDevice' = NoSocket
    /\ dev' = {}
    /\ starting' = {}
    /\ timer' = FALSE /\ presence' = FALSE /\ overdue' = FALSE
    /\ pc' = [p \in Procs |-> "idle"]
    /\ UNCHANGED <<status, incident, ui>>

RecoverStep(p) == Recover(p) \/ RecoverFails(p) \/ Announce(p)

RegisterStep ==
    \E s \in Sockets :
        Drain(s) \/ DrainFails(s) \/ RecoverStep(<<"register", s>>)

DeclareStep(d) ==
    \/ DeclareRead(d) \/ Raise(d) \/ RaiseFails(d) \/ DeclareCheck(d)
    \/ DeclareClose(d) \/ RecoverStep(<<"declare", d>>)

PushStep(c) == PushPresence(c) \/ RecoverStep(<<"push", c>>) \/ PushReply(c)

Next ==
    \/ RegisterStep
    \/ \E d \in Declarers : DeclareStep(d)
    \/ SweepEmit
    \/ \E c \in Carriers : PushStep(c)
    \/ StartTimer
    \/ SuspendResolve
    \/ SuspendDisconnect
    \/ \E s \in Sockets :
          Gate(s) \/ Register(s) \/ RegisterRefused(s) \/ Close(s)
            \/ Unregister(s)
    \/ TimerFires
    \/ SilenceGrows
    \/ SweepSelect
    \/ \E c \in Carriers : PushStart(c)
    \/ Approve
    \/ Suspend
    \/ DeleteTenant
    \/ CloseByTenant
    \/ ServerRestart

Spec == Init /\ [][Next]_vars

(***************************************************************************)
(* Handlers finish, upgrades and close events are handled, the timers and  *)
(* the sweep run, and a connected agent goes on sending heartbeats.        *)
(* Nothing makes the agent connect, stay connected or push over HTTP.      *)
(***************************************************************************)
Fairness ==
    /\ WF_vars(RegisterStep) /\ WF_vars(SweepEmit)
    /\ \A c \in Carriers : WF_vars(PushStep(c))
    /\ \A d \in Declarers : WF_vars(DeclareStep(d))
    /\ WF_vars(StartTimer)
    /\ WF_vars(SuspendResolve) /\ WF_vars(SuspendDisconnect)
    /\ WF_vars(\E s \in Sockets : Register(s))
    /\ WF_vars(\E s \in Sockets : Unregister(s))
    /\ WF_vars(\E s \in Sockets : PushStart(s))
    /\ WF_vars(TimerFires) /\ WF_vars(SilenceGrows) /\ WF_vars(SweepSelect)

FairSpec == Spec /\ Fairness

(***************************************************************************)
(* Properties.                                                             *)
(***************************************************************************)

\* At most one live channel: a registered socket that is open is the one
\* byDevice holds, through replacements and late close events of the
\* replaced socket (register, _unregister).
OneChannel == \A s \in Sockets : sock[s] = "open" => byDevice = s

\* No grace timer runs while the channel is open, although it is started
\* after an await during which the agent may be back, and cancelled only by
\* register (_startOfflineTimer): a connected agent is never timed out.
TimerMeansAway == timer => ~HubOpen

\* Work that will still close an open incident of a connected agent: a
\* registration that has not recovered yet, a declaration that has not looked
\* back, or a presence that the next heartbeat will announce.
WillClose ==
    \/ \E s \in Sockets : sock[s] = "open" /\ pc[<<"register", s>>] \in {"drain", "recover"}
    \/ \E d \in Declarers : pc[<<"declare", d>>] \in {"opened", "bumped", "close", "recover"}
    \/ \E c \in Carriers : pc[<<"push", c>>] = "recover"
    \/ ~presence

\* The "declared offline" memory never outlives the outage: while the agent
\* is connected an open offline incident always has something left that
\* closes it, whatever the order of timer, sweep, register and heartbeats
\* (declareOffline's second check, recoverOnline), unless a statement failed.
NoForgottenOutage ==
    /\ incident /\ HubOpen /\ status = "approved"
    /\ count.fail = 0 /\ count.suspend = 0
    => WillClose

\* Once closeByTenant has run the agent of a deleted tenant holds no channel,
\* not even through an upgrade whose gate verdict is older than the deletion.
DeletedHasNoChannel == status = "revoked" => ~HubOpen

\* A suspended agent loses its channel even if it passed the gate before the
\* suspension and registered after it: its next heartbeat is refused.
SuspendedIsDisconnected ==
    <>[](status = "suspended") => <>[]~HubOpen

Online == HubOpen /\ status = "approved"
Away == ~HubOpen /\ status = "approved"

\* An agent that stays away is declared offline and stays so.
AwayIsDeclared == <>[]Away => <>[]incident

\* An agent that stays connected is recovered: no offline incident lasts.
\* A suspension is excluded: it may fall between declareOffline's SELECT and
\* its raise, and then nothing closes the incident but the next connection.
OnlineRecovers == <>[](Online /\ count.suspend = 0) => <>[]~incident

\* The clients end up showing a connected agent as up, except when a push
\* announced the 'up' between the sweep's markChannelOffline and its emit:
\* the sweep's 'down' then follows it and no later heartbeat repeats the 'up'.
OnlineShownUp ==
    <>[]Online /\ [](pc[<<"declare", "sweep">>] = "emit" => ~presence)
      => <>[](ui = "up")
=============================================================================
