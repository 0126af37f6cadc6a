----------------------------- MODULE AgentGate -----------------------------
(***************************************************************************)
(* Who may speak for a device: the API keys of a tenant, the binding of    *)
(* ONE device to a key, the gate of the command channel (agentWsGate.ts),  *)
(* register and the binding part of a heartbeat or an HTTP push            *)
(* (ensureAgentBinding, handlePush), enrolment, and what administrators    *)
(* change meanwhile: keys disabled, enabled and deleted, the binding       *)
(* released, the device approved, suspended, deleted.                      *)
(*                                                                         *)
(* The gate decides on rows read before the channel exists, a heartbeat on *)
(* rows read before its answer; an administrator writes the database first *)
(* and reaches the hub one or more awaits later.  Deletion of the tenant   *)
(* and presence are HubPresence's.                                         *)
(***************************************************************************)
EXTENDS Naturals, FiniteSets

CONSTANTS
    Key,         \* API keys of the device's tenant
    Socket,      \* connections of processes that claim the device's uuid
    Http,        \* HTTP pushes in progress
    Admin,       \* administrators' requests in progress
    None,        \* no key, no socket, no request
    Bindings,    \* values of AGENT_KEY_BINDING
    MaxChanges,  \* bound: administrators' requests, started and stopped processes
    MaxFaults    \* bound: HTTP pushes, dropped connections, full caps, restarts

ASSUME ConstantsAssumption ==
    /\ None \notin Key \cup Socket \cup Admin
    /\ Socket \cap Http = {}
    /\ Bindings \subseteq {"strict", "tenant"}
    /\ MaxChanges \in Nat /\ MaxFaults \in Nat

VARIABLES
    binding,   \* AGENT_KEY_BINDING
    keys,      \* agent_api_keys: state of each key
    row,       \* the device's row of agent_devices
    revoked,   \* the hub's revokedKeys
    byDevice,  \* the hub's channel of the device
    sock,      \* the connections
    check,     \* the binding check, heartbeat or push each caller is in
    admin,     \* the administrators' requests
    running,   \* keys used by a running process
    writer,    \* history: the request that last wrote each key...
    applied,   \* ...and the one whose change last reached the hub
    changes, faults

bounds == <<changes, faults>>
hub == <<revoked, byDevice, sock>>
history == <<writer, applied>>
vars == <<binding, keys, row, hub, check, admin, running, history, bounds>>

Caller == Socket \cup Http
NoRow == [status |-> "none", key |-> None]
Closed == [st |-> "none", key |-> None, lost |-> FALSE, beat |-> FALSE]

\* 'from' is the binding the caller read and, once it is accepted, the one the
\* verdict rests on; 'here' whether the row it read is still the one in the table.
Idle == [pc |-> "idle", key |-> None, from |-> None, here |-> FALSE]
AdminIdle == [pc |-> "idle", op |-> "none", key |-> None]

Change == changes < MaxChanges /\ changes' = changes + 1 /\ UNCHANGED faults
Fault == faults < MaxFaults /\ faults' = faults + 1 /\ UNCHANGED changes
-----------------------------------------------------------------------------
(* The hub. *)

\* hasLiveConflict: the open channel of another key.
LiveConflict(k) ==
    byDevice # None /\ sock[byDevice].st = "open" /\ sock[byDevice].key # k

\* disconnectWhere on the device's channel: the socket is closing until its
\* 'close' event.
Shut(s) == [sock EXCEPT ![s].st = IF @ = "open" THEN "shut" ELSE @]
Disconnected(cond) == IF byDevice # None /\ cond THEN Shut(byDevice) ELSE sock

\* 'close' event of a socket (_unregister).
CloseEvent(s) ==
    /\ sock[s].st = "shut"
    /\ sock' = [sock EXCEPT ![s] = Closed]
    /\ byDevice' = IF byDevice = s THEN None ELSE byDevice
    /\ UNCHANGED <<binding, keys, row, revoked, check, admin, running, history, bounds>>

\* Fault: a channel that passed the gate is taken as it is.
RefusesNobody(s) == LiveConflict(sock[s].key)

\* register refuses a key revoked since the gate, and a live conflict.
Refuses(s) == sock[s].key \in revoked \/ LiveConflict(sock[s].key)

\* register: it replaces the channel the same key had before.
Register(s) ==
    /\ sock[s].st = "upgrade"
    /\ IF sock[s].lost \/ Refuses(s)
         THEN sock' = [sock EXCEPT ![s] = Closed] /\ UNCHANGED byDevice
         ELSE /\ sock' = [Disconnected(TRUE) EXCEPT ![s].st = "open"]
              /\ byDevice' = s
    /\ UNCHANGED <<binding, keys, row, revoked, check, admin, running, history, bounds>>

\* No heartbeat within the deadline.
NoHeartbeat(s) ==
    /\ sock[s].st = "open" /\ byDevice = s /\ ~ sock[s].beat
    /\ Fault
    /\ sock' = Shut(s)
    /\ UNCHANGED <<binding, keys, row, revoked, byDevice, check, admin, running, history>>
-----------------------------------------------------------------------------
(* The processes on the machine: one per key, each with one connection. *)

Connects(s, k) ==
    /\ running[k]
    /\ \A q \in Socket : sock[q].key = k => sock[q].lost \/ sock[q].st = "shut"
    /\ sock[s] = Closed /\ check[s] = Idle

\* checkAgentUpgrade: the key's row is read.  A refusal leaves nothing behind
\* and the agent tries again.
Connect(s, k) ==
    /\ Connects(s, k)
    /\ keys[k] = "active"
    /\ sock' = [sock EXCEPT ![s] = [Closed EXCEPT !.st = "gate", !.key = k]]
    /\ check' = [check EXCEPT ![s] = [Idle EXCEPT !.pc = "hub", !.key = k]]
    /\ UNCHANGED <<binding, keys, row, revoked, byDevice, admin, running, history, bounds>>

\* The hub is asked for another key's channel before the binding is read.
AskHub(s) ==
    /\ check[s].pc = "hub"
    /\ IF LiveConflict(check[s].key)
         THEN sock' = [sock EXCEPT ![s] = Closed] /\ check' = [check EXCEPT ![s] = Idle]
         ELSE check' = [check EXCEPT ![s].pc = "read"] /\ UNCHANGED sock
    /\ UNCHANGED <<binding, keys, row, revoked, byDevice, admin, running, history, bounds>>

\* A heartbeat frame on an open channel: handled after the previous one, then
\* whatever became of the channel.
Heartbeat(s) ==
    /\ sock[s].st = "open" /\ ~ sock[s].lost /\ check[s] = Idle
    /\ check' = [check EXCEPT ![s] = [Idle EXCEPT !.pc = "read", !.key = sock[s].key]]
    /\ sock' = [sock EXCEPT ![s].beat = TRUE]
    /\ UNCHANGED <<binding, keys, row, revoked, byDevice, admin, running, history, bounds>>

\* agentAuth, agentPush.
Push(h, k) ==
    /\ running[k] /\ keys[k] = "active"
    /\ check[h] = Idle
    /\ Fault
    /\ check' = [check EXCEPT ![h] = [Idle EXCEPT !.pc = "read", !.key = k]]
    /\ UNCHANGED <<binding, keys, row, hub, admin, running, history>>

\* A process starts, or stops and its connections with it.
StartStop(k) ==
    /\ Change
    /\ running' = [running EXCEPT ![k] = ~ @]
    /\ sock' = [s \in Socket |-> IF sock[s].key = k THEN [sock[s] EXCEPT !.lost = TRUE] ELSE sock[s]]
    /\ UNCHANGED <<binding, keys, row, revoked, byDevice, check, admin, history>>

Drop(s) ==
    /\ sock[s].st # "none" /\ ~ sock[s].lost
    /\ Fault
    /\ sock' = [sock EXCEPT ![s].lost = TRUE]
    /\ UNCHANGED <<binding, keys, row, revoked, byDevice, check, admin, running, history>>

\* The server finds out.
LostShuts(s) ==
    /\ sock[s].st = "open" /\ sock[s].lost
    /\ sock' = Shut(s)
    /\ UNCHANGED <<binding, keys, row, revoked, byDevice, check, admin, running, history, bounds>>
-----------------------------------------------------------------------------
(* checkAgentBinding and ensureAgentBinding. *)

InGate(c) == c \in Socket /\ sock[c].st = "gate"

\* Fault: a device bound to another key is not refused.
MayActAny(k, r) == TRUE

\* agentKeyMayActForDevice, within the tenant.
MayAct(k, r) == r.key \in {None, k}

\* The verdict on binding b is positive: the gate goes on to the upgrade, a push
\* to the row it reads again after its update.
Accept(c, b) ==
    IF InGate(c)
      THEN /\ sock' = [sock EXCEPT ![c].st = "upgrade"]
           /\ check' = [check EXCEPT ![c] = Idle]
      ELSE /\ check' = [check EXCEPT ![c].pc = "refresh", ![c].from = b]
           /\ UNCHANGED sock

\* It is negative: no upgrade, or the channel the heartbeat came on is closed
\* if it is still the device's.
Refuse(c) ==
    /\ check' = [check EXCEPT ![c] = Idle]
    /\ sock' = IF InGate(c) THEN [sock EXCEPT ![c] = Closed] ELSE Disconnected(byDevice = c)

\* findDeviceBindingByUuid, getDeviceByUuid: no row is an enrolment.  A
\* suspended device is never claimed: the gate refuses it at once, a push when
\* it reads the row again.
BindingRead(c) ==
    LET k == check[c].key
        goes(pc) == /\ check' = [check EXCEPT ![c].pc = pc, ![c].from = row.key, ![c].here = TRUE]
                    /\ UNCHANGED sock
    IN  /\ check[c].pc = "read"
        /\ \/ row.status = "none" /\ InGate(c) /\ Accept(c, None)
           \/ row.status = "none" /\ ~ InGate(c) /\ goes("insert")
           \/ row.status = "suspended" /\
              IF ~ InGate(c) /\ (MayAct(k, row) \/ binding = "tenant")
                THEN goes("refresh") ELSE Refuse(c)
           \/ row.status \in {"pending", "approved"} /\
              IF MayAct(k, row)
                THEN IF row.key = None THEN goes("claim")
                     ELSE IF InGate(c) THEN Accept(c, k) ELSE goes("refresh")
                ELSE IF binding = "tenant" THEN goes("claim") ELSE Refuse(c)
        /\ UNCHANGED <<binding, keys, row, revoked, byDevice, admin, running, history, bounds>>

\* The pending cap of the key, which other devices fill: enrolment is deferred.
Deferred(c) ==
    /\ check[c].pc = "read" /\ row.status = "none"
    /\ Fault
    /\ Refuse(c)
    /\ UNCHANGED <<binding, keys, row, revoked, byDevice, admin, running, history>>

\* The binding is taken if it is still what was read: unbound, or with
\* AGENT_KEY_BINDING=tenant another key's.  For a key deleted meanwhile the
\* foreign key fails: the gate answers 503, a heartbeat is only logged.
Claim(c) ==
    LET k == check[c].key IN
    /\ check[c].pc = "claim"
    /\ \/ /\ check[c].here /\ row.key = check[c].from /\ keys[k] # "deleted"
          /\ row' = [row EXCEPT !.key = k]
          /\ Accept(c, k)
       \/ /\ check[c].here /\ row.key = check[c].from /\ keys[k] = "deleted"
          /\ check' = [check EXCEPT ![c] = Idle]
          /\ sock' = IF InGate(c) THEN [sock EXCEPT ![c] = Closed] ELSE sock
          /\ UNCHANGED row
       \/ /\ ~ (check[c].here /\ row.key = check[c].from)
          /\ check' = [check EXCEPT ![c].pc = "reread"]
          /\ UNCHANGED <<row, sock>>
    /\ UNCHANGED <<binding, keys, revoked, byDevice, admin, running, history, bounds>>

\* Otherwise the row is read once more.
Reread(c) ==
    /\ check[c].pc = "reread"
    /\ IF check[c].here /\ MayAct(check[c].key, row) THEN Accept(c, row.key) ELSE Refuse(c)
    /\ UNCHANGED <<binding, keys, row, revoked, byDevice, admin, running, history, bounds>>
-----------------------------------------------------------------------------
(* handlePush. *)

\* A key deleted meanwhile fails the foreign key, a row inserted meanwhile
\* wins; either way the caller is told nothing yet.
Insert(c) ==
    LET k == check[c].key IN
    /\ check[c].pc = "insert"
    /\ row' = IF row.status = "none" /\ keys[k] # "deleted" THEN [status |-> "pending", key |-> k] ELSE row
    /\ check' = [check EXCEPT ![c] = Idle]
    /\ UNCHANGED <<binding, keys, hub, admin, running, history, bounds>>

\* The row, read again by uuid: only an approved device goes on.
Refresh(c) ==
    /\ check[c].pc = "refresh"
    /\ \/ row.status = "suspended" /\ Refuse(c)
       \/ /\ row.status # "suspended"
          /\ check' = [check EXCEPT ![c] =
                         IF row.status = "approved" THEN [@ EXCEPT !.pc = "answer"] ELSE Idle]
          /\ UNCHANGED sock
    /\ UNCHANGED <<binding, keys, row, revoked, byDevice, admin, running, history, bounds>>

\* The answer: a config frame if the channel is still open, or the HTTP reply.
Answer(c) ==
    /\ check[c].pc = "answer"
    /\ check' = [check EXCEPT ![c] = Idle]
    /\ UNCHANGED <<binding, keys, row, hub, admin, running, history, bounds>>

ConfigWritten(s) == Answer(s) /\ sock[s].st = "open"
-----------------------------------------------------------------------------
(* Administrators. *)

Begins(a, pc, op, k) ==
    /\ admin[a] = AdminIdle
    /\ Change
    /\ admin' = [admin EXCEPT ![a] = [pc |-> pc, op |-> op, key |-> k]]

\* agentKeyService.update: the key is read...
ReadKey(a, k) ==
    /\ keys[k] # "deleted"
    /\ Begins(a, "write", IF keys[k] = "active" THEN "disable" ELSE "enable", k)
    /\ UNCHANGED <<binding, keys, row, hub, check, running, history>>

\* ...and written, unless it is gone by then.
WriteKey(a) ==
    LET k == admin[a].key IN
    /\ admin[a].pc = "write"
    /\ IF keys[k] = "deleted"
         THEN UNCHANGED <<keys, writer>>
         ELSE /\ keys' = [keys EXCEPT ![k] = IF admin[a].op = "enable" THEN "active" ELSE "disabled"]
              /\ writer' = [writer EXCEPT ![k] = a]
    /\ admin' = [admin EXCEPT ![a].pc = "hub"]
    /\ UNCHANGED <<binding, row, hub, check, running, applied, bounds>>

\* remove: the devices of the key are released with it.
DeleteKey(a, k) ==
    /\ keys[k] # "deleted"
    /\ Begins(a, "hub", "disable", k)
    /\ keys' = [keys EXCEPT ![k] = "deleted"]
    /\ row' = IF row.key = k THEN [row EXCEPT !.key = None] ELSE row
    /\ writer' = [writer EXCEPT ![k] = a]
    /\ UNCHANGED <<binding, hub, check, running, applied>>

\* Fault: a key enabled again stays revoked in the hub.
AllowedNot(k) == revoked

\* allowApiKey.
Allowed(k) == revoked \ {k}

\* The hub learns of it: closeByApiKey or allowApiKey.
HubKey(a) ==
    LET k == admin[a].key IN
    /\ admin[a].pc = "hub" /\ admin[a].op \in {"disable", "enable"}
    /\ revoked' = IF admin[a].op = "enable" THEN Allowed(k) ELSE revoked \cup {k}
    /\ sock' = Disconnected(admin[a].op = "disable" /\ sock[byDevice].key = k)
    /\ applied' = [applied EXCEPT ![k] = a]
    /\ admin' = [admin EXCEPT ![a] = AdminIdle]
    /\ UNCHANGED <<binding, keys, row, byDevice, check, running, writer, bounds>>

\* releaseKeyBinding.
Release(a) ==
    /\ row.status # "none"
    /\ Begins(a, "hub", "device", None)
    /\ row' = [row EXCEPT !.key = None]
    /\ UNCHANGED <<binding, keys, hub, check, running, history>>

\* updateDevice with a status: suspension or refusal...
Suspend(a) ==
    /\ row.status \in {"pending", "approved"}
    /\ Begins(a, "hub", "device", None)
    /\ row' = [row EXCEPT !.status = "suspended"]
    /\ UNCHANGED <<binding, keys, hub, check, running, history>>

\* ...approval or reinstatement, which need no channel closed.
Approve ==
    /\ row.status \in {"pending", "suspended"}
    /\ Change
    /\ row' = [row EXCEPT !.status = "approved"]
    /\ UNCHANGED <<binding, keys, hub, check, admin, running, history>>

\* deleteDevice: a row inserted later is another one.
DeleteDevice(a) ==
    /\ row.status # "none"
    /\ Begins(a, "hub", "device", None)
    /\ row' = NoRow
    /\ check' = [c \in Caller |-> [check[c] EXCEPT !.here = FALSE]]
    /\ UNCHANGED <<binding, keys, hub, running, history>>

\* disconnectDevice.
HubDevice(a) ==
    /\ admin[a].pc = "hub" /\ admin[a].op = "device"
    /\ sock' = Disconnected(TRUE)
    /\ admin' = [admin EXCEPT ![a] = AdminIdle]
    /\ UNCHANGED <<binding, keys, row, revoked, byDevice, check, running, history, bounds>>

\* A restart loses the hub and everything in progress.
ServerRestart ==
    /\ Fault
    /\ revoked' = {} /\ byDevice' = None
    /\ sock' = [s \in Socket |-> Closed]
    /\ check' = [c \in Caller |-> Idle]
    /\ admin' = [a \in Admin |-> AdminIdle]
    /\ applied' = writer
    /\ UNCHANGED <<binding, keys, row, running, writer>>
-----------------------------------------------------------------------------
Init ==
    /\ binding \in Bindings
    /\ keys = [k \in Key |-> "active"]
    /\ row \in {NoRow} \cup [status : {"approved"}, key : Key]
    /\ revoked = {} /\ byDevice = None
    /\ sock = [s \in Socket |-> Closed]
    /\ check = [c \in Caller |-> Idle]
    /\ admin = [a \in Admin |-> AdminIdle]
    /\ running \in [Key -> BOOLEAN]
    /\ writer = [k \in Key |-> None] /\ applied = writer
    /\ changes = 0 /\ faults = 0

CheckStep(c) ==
    BindingRead(c) \/ Claim(c) \/ Reread(c) \/ Insert(c) \/ Refresh(c) \/ Answer(c)

SocketStep(s) == AskHub(s) \/ Register(s) \/ CloseEvent(s) \/ LostShuts(s)

AdminStep(a) == WriteKey(a) \/ HubKey(a) \/ HubDevice(a)

AdminRequest(a) ==
    \/ \E k \in Key : ReadKey(a, k) \/ DeleteKey(a, k)
    \/ Release(a) \/ Suspend(a) \/ DeleteDevice(a)

Next ==
    \/ \E s \in Socket, k \in Key : Connect(s, k)
    \/ \E s \in Socket : Heartbeat(s) \/ SocketStep(s) \/ NoHeartbeat(s) \/ Drop(s)
    \/ \E h \in Http, k \in Key : Push(h, k)
    \/ \E c \in Caller : CheckStep(c) \/ Deferred(c)
    \/ \E k \in Key : StartStop(k)
    \/ \E a \in Admin : AdminRequest(a) \/ AdminStep(a)
    \/ Approve
    \/ ServerRestart

Spec == Init /\ [][Next]_vars

\* Running processes keep reconnecting, and what was started runs on.
Fairness ==
    /\ \A k \in Key : WF_vars(\E s \in Socket : Connect(s, k))
    /\ \A s \in Socket : WF_vars(SocketStep(s))
    /\ \A c \in Caller : WF_vars(CheckStep(c))
    /\ \A a \in Admin : WF_vars(AdminStep(a))

FairSpec == Spec /\ Fairness
-----------------------------------------------------------------------------
(* What is checked. *)

\* Type invariant.
SockRec == [st : {"none", "gate", "upgrade", "open", "shut"},
            key : Key \cup {None}, lost : BOOLEAN, beat : BOOLEAN]
CheckRec == [pc : {"idle", "hub", "read", "claim", "reread", "insert", "refresh", "answer"},
             key : Key \cup {None}, from : Key \cup {None}, here : BOOLEAN]
AdminRec == [pc : {"idle", "write", "hub"},
             op : {"none", "disable", "enable", "device"}, key : Key \cup {None}]
RowRec == [status : {"none", "pending", "approved", "suspended"}, key : Key \cup {None}]

TypeOK ==
    /\ binding \in Bindings
    /\ keys \in [Key -> {"active", "disabled", "deleted"}]
    /\ row \in RowRec
    /\ revoked \subseteq Key /\ byDevice \in Socket \cup {None}
    /\ sock \in [Socket -> SockRec]
    /\ check \in [Caller -> CheckRec]
    /\ admin \in [Admin -> AdminRec]
    /\ running \in [Key -> BOOLEAN]
    /\ writer \in [Key -> Admin \cup {None}] /\ applied \in [Key -> Admin \cup {None}]
    /\ changes \in 0..MaxChanges /\ faults \in 0..MaxFaults

\* The last change of the key is the last one the hub was told of.
Settled(k) ==
    /\ writer[k] = applied[k]
    /\ writer[k] # None => admin[writer[k]].pc # "hub" \/ admin[writer[k]].key # k

\* A disabled or deleted key has no channel, not even one that passed the gate
\* before, once its own request reached the hub and no other one overtook it
\* ("must not slip in after closeByApiKey", revokedKeys).
RevokedIsOut ==
    \A k \in Key :
        keys[k] # "active" /\ Settled(k) =>
            \A s \in Socket : ~ (sock[s].st = "open" /\ sock[s].key = k)

\* A request whose hub step will close the channel.
Shuts(a, s) ==
    /\ admin[a].pc = "hub"
    /\ admin[a].op = "device" \/ (admin[a].op = "disable" /\ admin[a].key = sock[s].key)

\* A config frame goes only to an approved device, and only on the channel of
\* the key it is bound to if the heartbeat found or made a binding, but for the
\* time an administrator's change takes to reach the hub.  (With
\* AGENT_KEY_BINDING=tenant another key of the tenant may take over.)
ServedIsOwner ==
    [][\A s \in Socket :
         ConfigWritten(s) =>
             \/ /\ row.status = "approved"
                /\ binding = "strict" /\ check[s].from # None => row.key = sock[s].key
             \/ \E a \in Admin : Shuts(a, s)]_vars

\* The machine of the device uses one key only, which may act for it.
Entitled(k) ==
    /\ keys[k] = "active" /\ Settled(k)
    /\ running = [q \in Key |-> q = k]
    /\ row.key \in {k, None} /\ row.status # "suspended"

\* It ends up connected, whatever the key, the row and older connections of
\* other keys went through ("Key re-enabled: its agents may register again").
AgentAdmitted ==
    \A k \in Key :
        <>[]Entitled(k) => <>[](byDevice # None /\ sock[byDevice].st = "open"
                                  /\ sock[byDevice].key = k)
=============================================================================
